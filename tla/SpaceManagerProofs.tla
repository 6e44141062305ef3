------------------------- MODULE SpaceManagerProofs -------------------------
(***************************************************************************)
(* Theorems about space::SpaceManager, for every number of pages, every    *)
(* allocation policy and every sequence of calls.  They follow from what   *)
(* module FreeSpaceMapProofs proves of the map and from what is proved here*)
(* of the PageAllocator when the manager takes back a page.                *)
(***************************************************************************)
EXTENDS SpaceManager, FreeSpaceMapProofs, SequenceTheorems

USE SpaceAssumption, BoundAssumption

-----------------------------------------------------------------------------
(***************************************************************************)
(* The PageAllocator a with the holders h.                                 *)
(***************************************************************************)
AllocType == [freeList : Seq(Pages), nextPageId : FirstDataPageId .. MaxPageId + 1,
              totalAllocated : PA!Counter, totalFreed : PA!Counter,
              currentAllocated : PA!Counter, peakAllocated : PA!Counter]

\* The list s names ids below n, each once.
ListSound(s, n) ==
    /\ \A i \in 1 .. Len(s) : s[i] < n
    /\ \A i, j \in 1 .. Len(s) : s[i] = s[j] => i = j

\* The pages that are out: minted and not on the list.
Out(s, n) == {p \in Pages : p < n /\ \A i \in 1 .. Len(s) : s[i] # p}

\* The holders when the pages of S are out.
OneEach(S) == [p \in Pages |-> IF p \in S THEN 1 ELSE 0]

\* Every page that is out has one holder, every other page none.
PoolSound(a, h) ==
    /\ a \in AllocType
    /\ ListSound(a.freeList, a.nextPageId)
    /\ h = OneEach(Out(a.freeList, a.nextPageId))

\* A counter that is incremented or decremented stays one.
LEMMA CounterSteps ==
    ASSUME NEW n \in PA!Counter
    PROVE  PA!Tick(n) \in PA!Counter /\ (n - 1) % CounterModulus \in PA!Counter
<1>1. n \in Int /\ n + 1 \in Int /\ n - 1 \in Int
  BY DEF PA!Counter
<1>2. ASSUME NEW k \in Int PROVE k % CounterModulus \in 0 .. CounterModulus - 1
  OBVIOUS
<1>. QED  BY <1>1, <1>2 DEF PA!Tick, PA!Counter

\* The fields of an allocator.
LEMMA AllocFields ==
    ASSUME NEW a, a \in AllocType
    PROVE  /\ a.freeList \in Seq(Pages) /\ Len(a.freeList) \in Nat
           /\ a.nextPageId \in FirstDataPageId .. MaxPageId + 1 /\ a.nextPageId \in Nat
           /\ a.totalAllocated \in PA!Counter /\ a.totalFreed \in PA!Counter
           /\ a.currentAllocated \in PA!Counter /\ a.peakAllocated \in PA!Counter
<1>1. /\ a.freeList \in Seq(Pages)
      /\ a.nextPageId \in FirstDataPageId .. MaxPageId + 1
      /\ a.totalAllocated \in PA!Counter /\ a.totalFreed \in PA!Counter
      /\ a.currentAllocated \in PA!Counter /\ a.peakAllocated \in PA!Counter
  BY DEF AllocType
<1>2. Len(a.freeList) \in Nat
  BY <1>1
<1>3. a.nextPageId \in Nat
  BY <1>1
<1>. QED  BY <1>1, <1>2, <1>3

\* isAllocated and free's test say which pages are out.
LEMMA OutIsAllocated ==
    ASSUME NEW a, a \in AllocType, NEW id \in Nat
    PROVE  /\ id \in Pages =>
                  (PA!IsAllocated(a, id) <=> id \in Out(a.freeList, a.nextPageId))
           /\ PA!MayFree(a, id) <=> id \in Out(a.freeList, a.nextPageId)
<1>1. a.freeList \in Seq(Pages) /\ a.nextPageId \in FirstDataPageId .. MaxPageId + 1
  BY AllocFields
<1>2. id \in PA!Range(a.freeList) <=> \E i \in 1 .. Len(a.freeList) : a.freeList[i] = id
  BY <1>1 DEF PA!Range
<1>3. PA!MayFree(a, id) <=> /\ id # InvalidPageId /\ id >= FirstDataPageId
                            /\ id < a.nextPageId /\ id \notin PA!Range(a.freeList)
  BY DEF PA!MayFree
<1>4. PA!IsAllocated(a, id) <=>
          /\ id # InvalidPageId /\ id < a.nextPageId
          /\ (id < FirstDataPageId \/ id \notin PA!Range(a.freeList))
  BY DEF PA!IsAllocated
<1>. QED  BY <1>1, <1>2, <1>3, <1>4 DEF Out, Pages

\* What popping the last id of a list does.
LEMMA PopList ==
    ASSUME NEW s \in Seq(Pages), s # <<>>, NEW n \in Nat, ListSound(s, n)
    PROVE  LET r == SubSeq(s, 1, Len(s) - 1)
               id == s[Len(s)]
           IN  /\ id \in Pages /\ id < n /\ id \notin Out(s, n)
               /\ r \in Seq(Pages) /\ ListSound(r, n)
               /\ Out(r, n) = Out(s, n) \cup {id}
               /\ Append(r, id) = s
<1>. DEFINE r == SubSeq(s, 1, Len(s) - 1)
            id == s[Len(s)]
<1>1. Len(s) \in Nat /\ Len(s) >= 1 /\ Len(s) - 1 \in Nat
  OBVIOUS
<1>2. id \in Pages /\ id < n
  BY <1>1 DEF ListSound
<1>3. r \in Seq(Pages) /\ Len(r) = Len(s) - 1
  <2>. DEFINE m == Len(s) - 1
  <2>1. 1 \in Int /\ m \in Nat /\ m \in Int /\ \A i \in 1 .. m : s[i] \in Pages
    BY <1>1
  <2>2. r = SubSeq(s, 1, m)
    OBVIOUS
  <2>. HIDE DEF m, r
  <2>3. /\ SubSeq(s, 1, m) \in Seq(Pages)
        /\ Len(SubSeq(s, 1, m)) = IF 1 <= m THEN m - 1 + 1 ELSE 0
    BY <2>1, SubSeqProperties
  <2>4. r \in Seq(Pages) /\ Len(r) = m
    BY <2>1, <2>2, <2>3
  <2>. QED  BY <2>4 DEF m
<1>4. \A i \in 1 .. Len(s) - 1 : r[i] = s[i]
  BY <1>1
<1>5. /\ Append(r, id) \in Seq(Pages) /\ Len(Append(r, id)) = Len(s)
      /\ \A i \in 1 .. Len(s) : Append(r, id)[i] = s[i]
  BY <1>1, <1>2, <1>3, <1>4
<1>6. Append(r, id) = s
  BY <1>5
<1>. HIDE DEF r
<1>7. ListSound(r, n)
  BY <1>1, <1>3, <1>4 DEF ListSound
<1>8. ASSUME NEW p \in Pages
      PROVE  (\A i \in 1 .. Len(r) : r[i] # p) <=> (\A i \in 1 .. Len(s) : s[i] # p) \/ p = id
  <2>1. ASSUME \A i \in 1 .. Len(r) : r[i] # p, p # id
        PROVE  \A i \in 1 .. Len(s) : s[i] # p
    <3>. SUFFICES ASSUME NEW i \in 1 .. Len(s) PROVE s[i] # p
      OBVIOUS
    <3>1. CASE i = Len(s)
      BY <2>1, <3>1
    <3>2. CASE i # Len(s)
      <4>1. i \in 1 .. Len(r) /\ i \in 1 .. Len(s) - 1
        BY <1>1, <1>3, <3>2
      <4>. QED  BY <1>4, <2>1, <4>1
    <3>. QED  BY <3>1, <3>2
  <2>2. ASSUME \A i \in 1 .. Len(s) : s[i] # p PROVE \A i \in 1 .. Len(r) : r[i] # p
    BY <1>1, <1>3, <1>4, <2>2
  <2>3. \A i \in 1 .. Len(r) : r[i] # id
    <3>. SUFFICES ASSUME NEW i \in 1 .. Len(r) PROVE r[i] # id
      OBVIOUS
    <3>1. i \in 1 .. Len(s) /\ Len(s) \in 1 .. Len(s) /\ i # Len(s) /\ r[i] = s[i]
      BY <1>1, <1>3, <1>4
    <3>. QED  BY <3>1 DEF ListSound
  <2>. QED  BY <2>1, <2>2, <2>3
<1>9. \E i \in 1 .. Len(s) : s[i] = id
  BY <1>1
<1>. HIDE DEF id
<1>10. Out(r, n) = Out(s, n) \cup {id}
  BY <1>2, <1>8 DEF Out
<1>11. id \notin Out(s, n)
  BY <1>9 DEF Out
<1>. QED  BY <1>2, <1>3, <1>6, <1>7, <1>10, <1>11 DEF r, id

\* What pushing a page that is out does.
LEMMA PushList ==
    ASSUME NEW s \in Seq(Pages), NEW n \in Nat, ListSound(s, n), NEW id \in Out(s, n)
    PROVE  LET r == Append(s, id)
           IN  /\ id \in Pages /\ id < n
               /\ r \in Seq(Pages) /\ ListSound(r, n)
               /\ Out(r, n) = Out(s, n) \ {id}
<1>. DEFINE r == Append(s, id)
<1>1. id \in Pages /\ id < n /\ \A i \in 1 .. Len(s) : s[i] # id
  BY DEF Out
<1>2. /\ r \in Seq(Pages) /\ Len(r) = Len(s) + 1 /\ Len(s) \in Nat
      /\ \A i \in 1 .. Len(s) : r[i] = s[i]
      /\ r[Len(s) + 1] = id
  BY <1>1
<1>. HIDE DEF r
<1>3. ListSound(r, n)
  BY <1>1, <1>2 DEF ListSound
<1>4. ASSUME NEW p \in Pages
      PROVE  (\A i \in 1 .. Len(r) : r[i] # p) <=> (\A i \in 1 .. Len(s) : s[i] # p) /\ p # id
  BY <1>2
<1>5. Out(r, n) = Out(s, n) \ {id}
  BY <1>4 DEF Out
<1>. QED  BY <1>1, <1>2, <1>3, <1>5 DEF r

\* Giving one more page a holder, or taking the holder of one.
LEMMA HolderSteps ==
    ASSUME NEW S, NEW id \in Pages
    PROVE  /\ id \notin S => [OneEach(S) EXCEPT ![id] = @ + 1] = OneEach(S \cup {id})
           /\ id \in S => [OneEach(S) EXCEPT ![id] = @ - 1] = OneEach(S \ {id})
<1>1. ASSUME id \notin S
      PROVE  [OneEach(S) EXCEPT ![id] = @ + 1] = OneEach(S \cup {id})
  <2>1. [OneEach(S) EXCEPT ![id] = @ + 1]
            = [p \in Pages |-> IF p = id THEN OneEach(S)[id] + 1 ELSE OneEach(S)[p]]
    BY DEF OneEach
  <2>2. ASSUME NEW p \in Pages
        PROVE  (IF p = id THEN OneEach(S)[id] + 1 ELSE OneEach(S)[p])
                   = IF p \in S \cup {id} THEN 1 ELSE 0
    BY <1>1 DEF OneEach
  <2>. QED  BY <2>1, <2>2 DEF OneEach
<1>2. ASSUME id \in S
      PROVE  [OneEach(S) EXCEPT ![id] = @ - 1] = OneEach(S \ {id})
  <2>1. [OneEach(S) EXCEPT ![id] = @ - 1]
            = [p \in Pages |-> IF p = id THEN OneEach(S)[id] - 1 ELSE OneEach(S)[p]]
    BY DEF OneEach
  <2>2. ASSUME NEW p \in Pages
        PROVE  (IF p = id THEN OneEach(S)[id] - 1 ELSE OneEach(S)[p])
                   = IF p \in S \ {id} THEN 1 ELSE 0
    BY <1>2 DEF OneEach
  <2>. QED  BY <2>1, <2>2 DEF OneEach
<1>. QED  BY <1>1, <1>2

\* The object after a page was taken.
LEMMA TookType ==
    ASSUME NEW a, a \in AllocType, NEW s \in Seq(Pages),
           NEW n \in FirstDataPageId .. MaxPageId + 1
    PROVE  /\ PA!Took(a, s, n) \in AllocType
           /\ PA!Took(a, s, n).freeList = s /\ PA!Took(a, s, n).nextPageId = n
<1>1. /\ PA!Tick(a.totalAllocated) \in PA!Counter /\ a.totalFreed \in PA!Counter
      /\ PA!Tick(a.currentAllocated) \in PA!Counter /\ a.peakAllocated \in PA!Counter
  BY AllocFields, CounterSteps
<1>. QED  BY <1>1 DEF PA!Took, AllocType

\* PageAllocator::allocate hands out a page that nobody holds, or none and changes
\* nothing.
LEMMA AllocateSound ==
    ASSUME NEW a, NEW h, PoolSound(a, h)
    PROVE  LET id == PA!AllocateResult(a)
           IN  \/ id = InvalidPageId /\ PA!AfterAllocate(a) = a
               \/ /\ id \in Pages
                  /\ id \in Out(PA!AfterAllocate(a).freeList, PA!AfterAllocate(a).nextPageId)
                  /\ id \notin Out(a.freeList, a.nextPageId)
                  /\ PoolSound(PA!AfterAllocate(a), [h EXCEPT ![id] = @ + 1])
<1>. DEFINE s == a.freeList
            n == a.nextPageId
            id == PA!AllocateResult(a)
            b == PA!AfterAllocate(a)
            O == Out(s, n)
<1>1. /\ a \in AllocType /\ ListSound(s, n)
      /\ h = OneEach(O)
  BY DEF PoolSound
<1>2. /\ s \in Seq(Pages) /\ Len(s) \in Nat
      /\ n \in FirstDataPageId .. MaxPageId + 1 /\ n \in Nat
  BY <1>1, AllocFields
<1>4. ASSUME NEW r \in Seq(Pages), NEW m \in FirstDataPageId .. MaxPageId + 1,
             b = PA!Took(a, r, m), ListSound(r, m), id \in Pages, id \notin O,
             Out(r, m) = O \cup {id}
      PROVE  /\ id \in Out(b.freeList, b.nextPageId)
             /\ PoolSound(b, [h EXCEPT ![id] = @ + 1])
  <2>1. b \in AllocType /\ b.freeList = r /\ b.nextPageId = m
    BY <1>1, <1>4, TookType
  <2>2. [h EXCEPT ![id] = @ + 1] = OneEach(O \cup {id})
    <3>. HIDE DEF O, id
    <3>. QED  BY <1>1, <1>4, HolderSteps
  <2>. HIDE DEF O, id, b
  <2>. QED  BY <1>4, <2>1, <2>2 DEF PoolSound
<1>5. CASE s # <<>>
  <2>. DEFINE r == SubSeq(s, 1, Len(s) - 1)
  <2>1. id = s[Len(s)] /\ b = PA!Took(a, r, n)
    BY <1>5 DEF PA!AllocateResult, PA!AfterAllocate
  <2>2. /\ s[Len(s)] \in Pages /\ s[Len(s)] \notin O
        /\ r \in Seq(Pages) /\ ListSound(r, n) /\ Out(r, n) = O \cup {s[Len(s)]}
    BY <1>1, <1>2, <1>5, PopList
  <2>. HIDE DEF r, s, n, O, id, b
  <2>3. id \in Out(b.freeList, b.nextPageId) /\ PoolSound(b, [h EXCEPT ![id] = @ + 1])
    BY <1>2, <1>4, <2>1, <2>2
  <2>. QED  BY <2>1, <2>2, <2>3 DEF id, b, O, s, n
<1>6. CASE s = <<>> /\ n > MaxPageId
  BY <1>6 DEF PA!AllocateResult, PA!AfterAllocate
<1>7. CASE s = <<>> /\ ~ (n > MaxPageId)
  <2>1. id = n /\ b = PA!Took(a, s, n + 1)
    BY <1>7 DEF PA!AllocateResult, PA!AfterAllocate
  <2>2. n \in Pages /\ n + 1 \in FirstDataPageId .. MaxPageId + 1
    BY <1>2, <1>7 DEF Pages
  <2>3. Len(s) = 0
    BY <1>7
  <2>. HIDE DEF s, n, id, b
  <2>4. ListSound(s, n + 1)
    BY <2>3 DEF ListSound
  <2>5. n \notin O /\ Out(s, n + 1) = O \cup {n}
    BY <1>2, <2>2, <2>3 DEF Out, Pages
  <2>. HIDE DEF O
  <2>6. id \in Out(b.freeList, b.nextPageId) /\ PoolSound(b, [h EXCEPT ![id] = @ + 1])
    BY <1>2, <1>4, <2>1, <2>2, <2>4, <2>5
  <2>. QED  BY <2>1, <2>2, <2>5, <2>6 DEF id, b, O, s, n
<1>. QED  BY <1>5, <1>6, <1>7

\* PageAllocator::free takes the holder of a page that is out, and refuses any
\* other id.
LEMMA FreeSound ==
    ASSUME NEW a, NEW h, PoolSound(a, h), NEW id \in Out(a.freeList, a.nextPageId)
    PROVE  PoolSound(PA!AfterFree(a, id), [h EXCEPT ![id] = @ - 1])
<1>. DEFINE s == a.freeList
            n == a.nextPageId
            O == Out(s, n)
            b == PA!AfterFree(a, id)
<1>1. /\ a \in AllocType /\ ListSound(s, n)
      /\ h = OneEach(O)
  BY DEF PoolSound
<1>2. /\ s \in Seq(Pages) /\ n \in FirstDataPageId .. MaxPageId + 1 /\ n \in Nat
  BY <1>1, AllocFields
<1>4. /\ id \in Pages /\ Append(s, id) \in Seq(Pages) /\ ListSound(Append(s, id), n)
      /\ Out(Append(s, id), n) = O \ {id}
  BY <1>1, <1>2, PushList
<1>5. PA!MayFree(a, id)
  <2>1. id \in Nat
    BY <1>4 DEF Pages
  <2>. QED  BY <1>1, <2>1, OutIsAllocated
<1>6. b = [a EXCEPT !.freeList = Append(@, id), !.totalFreed = PA!Tick(@),
                    !.currentAllocated = (@ - 1) % CounterModulus]
  BY <1>5 DEF PA!AfterFree
<1>7. PA!Tick(a.totalFreed) \in PA!Counter /\ (a.currentAllocated - 1) % CounterModulus \in PA!Counter
  BY <1>1, AllocFields, CounterSteps
<1>. HIDE DEF b
<1>8. b \in AllocType /\ b.freeList = Append(s, id) /\ b.nextPageId = n
  BY <1>1, <1>4, <1>6, <1>7 DEF AllocType
<1>9. [h EXCEPT ![id] = @ - 1] = OneEach(O \ {id})
  <2>1. id \in O
    OBVIOUS
  <2>. HIDE DEF O
  <2>. QED  BY <1>1, <1>4, <2>1, HolderSteps
<1>. HIDE DEF O
<1>. QED  BY <1>4, <1>8, <1>9 DEF PoolSound, b

\* SpaceManager::allocatePage's roll back: a page that was taken and given back has
\* no holder, as if it had not been asked for.
LEMMA RollBackSound ==
    ASSUME NEW a, NEW h, PoolSound(a, h)
    PROVE  PoolSound(PA!AfterFree(PA!AfterAllocate(a), PA!AllocateResult(a)), h)
<1>. DEFINE id == PA!AllocateResult(a)
            b == PA!AfterAllocate(a)
            g == [h EXCEPT ![id] = @ + 1]
<1>1. CASE id = InvalidPageId /\ b = a
  <2>1. PA!AfterFree(a, InvalidPageId) = a
    BY DEF PA!AfterFree, PA!MayFree
  <2>. QED  BY <1>1, <2>1
<1>2. CASE /\ id \in Pages
           /\ id \notin Out(a.freeList, a.nextPageId)
           /\ id \in Out(b.freeList, b.nextPageId) /\ PoolSound(b, g)
  <2>. DEFINE O == Out(a.freeList, a.nextPageId)
  <2>1. h = OneEach(O) /\ (O \cup {id}) \ {id} = O
    BY <1>2 DEF PoolSound
  <2>2. [g EXCEPT ![id] = @ - 1] = h
    <3>. HIDE DEF id, O
    <3>1. g = OneEach(O \cup {id})
      BY <1>2, <2>1, HolderSteps
    <3>. HIDE DEF g
    <3>2. [OneEach(O \cup {id}) EXCEPT ![id] = @ - 1] = OneEach((O \cup {id}) \ {id})
      BY <1>2, HolderSteps
    <3>. QED  BY <2>1, <3>1, <3>2
  <2>. HIDE DEF id, b, g
  <2>3. PoolSound(PA!AfterFree(b, id), [g EXCEPT ![id] = @ - 1])
    BY <1>2, FreeSound
  <2>. QED  BY <2>2, <2>3 DEF id, b
<1>. QED  BY <1>1, <1>2, AllocateSound

\* A new allocator.
LEMMA FreshSound == PoolSound(PA!Fresh, [p \in Pages |-> 0])
<1>1. 0 \in PA!Counter
  BY DEF PA!Counter
<1>2. PA!Fresh.freeList = <<>> /\ PA!Fresh.nextPageId = FirstDataPageId /\ PA!Fresh \in AllocType
  BY <1>1 DEF PA!Fresh, AllocType
<1>3. ListSound(<<>>, FirstDataPageId) /\ Out(<<>>, FirstDataPageId) = {}
  BY DEF ListSound, Out, Pages
<1>4. OneEach({}) = [p \in Pages |-> 0]
  BY DEF OneEach
<1>. QED  BY <1>2, <1>3, <1>4 DEF PoolSound

-----------------------------------------------------------------------------
(***************************************************************************)
(* The extents that clients hold, a bag.                                   *)
(***************************************************************************)
GrantsSound(g) == DOMAIN g \subseteq Extents /\ \A e \in DOMAIN g : g[e] \in Nat \ {0}

\* An extent more is held.
LEMMA GrantMore ==
    ASSUME NEW g, GrantsSound(g), NEW e \in Extents
    PROVE  LET b == g (+) SetToBag({e})
           IN  /\ GrantsSound(b) /\ BagToSet(b) = BagToSet(g) \cup {e}
               /\ \A f \in DOMAIN g : f # e => b[f] = g[f]
<1>. DEFINE b == g (+) SetToBag({e})
<1>1. b = [f \in DOMAIN g \cup {e} |->
              (IF f \in DOMAIN g THEN g[f] ELSE 0) + (IF f \in {e} THEN 1 ELSE 0)]
  BY DEF (+), SetToBag
<1>. HIDE DEF b
<1>2. DOMAIN b = DOMAIN g \cup {e}
  BY <1>1
<1>3. ASSUME NEW f \in DOMAIN b
      PROVE  b[f] \in Nat \ {0} /\ (f \in DOMAIN g /\ f # e => b[f] = g[f])
  <2>1. CASE f = e
    BY <1>1, <1>2, <2>1 DEF GrantsSound
  <2>2. CASE f # e
    <3>1. f \in DOMAIN g /\ g[f] \in Nat \ {0} /\ b[f] = g[f] + 0
      BY <1>1, <1>2, <2>2 DEF GrantsSound
    <3>. QED  BY <3>1, <2>2
  <2>. QED  BY <2>1, <2>2
<1>. QED  BY <1>2, <1>3 DEF GrantsSound, BagToSet, b

\* An extent is given back; it may be held once more.
LEMMA GrantLess ==
    ASSUME NEW g, GrantsSound(g), NEW e
    PROVE  LET b == g (-) SetToBag({e})
           IN  /\ GrantsSound(b) /\ BagToSet(g) \ {e} \subseteq BagToSet(b)
               /\ \A f \in DOMAIN b : f \in DOMAIN g /\ b[f] <= g[f]
<1>. DEFINE b == g (-) SetToBag({e})
            c == [f \in DOMAIN g |-> IF f \in {e} THEN g[f] - 1 ELSE g[f]]
<1>1. b = [f \in {d \in DOMAIN c : c[d] > 0} |-> c[f]]
  <2>1. \A f \in {e} : SetToBag({e})[f] = 1
    BY DEF SetToBag
  <2>2. DOMAIN SetToBag({e}) = {e}
    BY DEF SetToBag
  <2>3. c = [f \in DOMAIN g |-> IF f \in DOMAIN SetToBag({e}) THEN g[f] - SetToBag({e})[f]
                                ELSE g[f]]
    BY <2>1, <2>2
  <2>. HIDE DEF c
  <2>. QED  BY <2>3 DEF (-)
<1>2. DOMAIN c = DOMAIN g
  OBVIOUS
<1>3. ASSUME NEW f \in DOMAIN g
      PROVE  /\ c[f] \in Int /\ c[f] <= g[f] /\ (f # e => c[f] = g[f] /\ c[f] > 0)
  BY DEF GrantsSound
<1>. HIDE DEF b, c
<1>4. DOMAIN b \subseteq DOMAIN g /\ DOMAIN g \ {e} \subseteq DOMAIN b
  BY <1>1, <1>2, <1>3
<1>5. ASSUME NEW f \in DOMAIN b PROVE b[f] \in Nat \ {0} /\ b[f] <= g[f]
  BY <1>1, <1>2, <1>3
<1>. QED  BY <1>4, <1>5 DEF GrantsSound, BagToSet, b

-----------------------------------------------------------------------------
(***************************************************************************)
(* The policies.                                                           *)
(***************************************************************************)

\* No extent of the map would do for a request.
NoneFits(n, h) ==
    \A e \in extents : IF h.exactFit /\ policy # "Sequential"
                       THEN e.length # n ELSE e.length < n

\* SequentialPolicy proposes a run of the map, and gives up only when no extent is
\* long enough.
LEMMA SequentialSound ==
    ASSUME extents \in SUBSET Extents, NEW n \in Nat, n >= 1
    PROVE  IF \E e \in extents : e.length >= n THEN RunOf(extents, n, Sequential(n))
           ELSE Sequential(n) = NoExtent
<1>. DEFINE fits == {e \in extents : e.length >= n}
            behind == {e \in fits : e.start >= cursor}
            from == IF behind # {} THEN behind ELSE fits
<1>1. CASE fits = {}
  BY <1>1 DEF Sequential
<1>2. CASE fits # {}
  <2>1. from \in SUBSET Extents /\ from # {} /\ from \in SUBSET fits
    BY <1>2
  <2>2. Sequential(n) = Extent(First(from).start, n)
    BY <1>2 DEF Sequential
  <2>3. \E e \in extents : e.length >= n
    BY <1>2
  <2>. HIDE DEF from
  <2>4. First(from) \in from
    BY <2>1, FirstAndLast
  <2>5. First(from) \in extents /\ First(from).length >= n
    BY <2>1, <2>4
  <2>6. RunOf(extents, n, Extent(First(from).start, n))
    BY <2>5, RunsAtEnds
  <2>. QED  BY <2>2, <2>3, <2>6
<1>. QED  BY <1>1, <1>2

\* What a policy proposes is a run of the map of the length asked for; it proposes
\* nothing only when nothing fits.
LEMMA ProposeSound ==
    ASSUME extents \in SUBSET Extents, policy \in Policies,
           NEW n \in Nat, n >= 1, NEW h \in Hints
    PROVE  \/ RunOf(extents, n, Propose(n, h))
           \/ Propose(n, h) = NoExtent /\ NoneFits(n, h)
<1>1. h.exactFit \in BOOLEAN /\ h.preferContiguous \in BOOLEAN /\ h.preferEnd \in BOOLEAN
  BY DEF Hints
<1>2. \A e \in extents : e.length \in Nat
  BY ExtentFields
<1>3. ASSUME NEW x \in {FindFreeRange(extents, n, TRUE), FindFreeRange(extents, n, FALSE),
                        FindBestRange(extents, n)}
      PROVE  \/ RunOf(extents, n, x)
             \/ x = NoExtent /\ \A e \in extents : e.length < n
  <2>1. IF \E e \in extents : e.length >= n THEN RunOf(extents, n, x) ELSE x = NoExtent
    BY <1>3, FindSound
  <2>. QED  BY <1>2, <2>1
<1>4. \/ RunOf(extents, n, FindExactRange(extents, n))
      \/ FindExactRange(extents, n) = NoExtent /\ \A e \in extents : e.length # n
  BY FindExactSound
<1>5. CASE policy = "Sequential"
  <2>1. Propose(n, h) = Sequential(n)
    BY <1>5 DEF Propose
  <2>2. \/ RunOf(extents, n, Sequential(n))
        \/ Sequential(n) = NoExtent /\ \A e \in extents : e.length < n
    BY <1>2, SequentialSound
  <2>. QED  BY <1>5, <2>1, <2>2 DEF NoneFits
<1>6. CASE policy # "Sequential" /\ h.exactFit
  <2>1. Propose(n, h) = FindExactRange(extents, n)
    BY <1>6 DEF Propose, Policies, FirstFit, BestFit
  <2>. QED  BY <1>4, <1>6, <2>1 DEF NoneFits
<1>7. CASE policy # "Sequential" /\ ~ h.exactFit
  <2>1. Propose(n, h) \in {FindFreeRange(extents, n, TRUE), FindFreeRange(extents, n, FALSE),
                           FindBestRange(extents, n)}
    <3>1. CASE policy = "FirstFit"
      <4>. DEFINE begin == ~ ((h.preferContiguous \/ n > 1) /\ h.preferEnd)
      <4>1. Propose(n, h) = FindFreeRange(extents, n, begin)
        BY <1>7, <3>1 DEF Propose, FirstFit
      <4>2. begin = TRUE \/ begin = FALSE
        OBVIOUS
      <4>. HIDE DEF begin
      <4>. QED  BY <4>1, <4>2
    <3>2. CASE policy = "BestFit"
      BY <1>7, <3>2 DEF Propose, BestFit
    <3>. QED  BY <1>7, <3>1, <3>2 DEF Policies
  <2>. QED  BY <1>3, <1>7, <2>1 DEF NoneFits
<1>. QED  BY <1>1, <1>5, <1>6, <1>7

-----------------------------------------------------------------------------
(***************************************************************************)
(* The invariant.                                                          *)
(***************************************************************************)

\* No page of the map E is lost when h, g and r are the page holders, the extents
\* held and the pages reserved.
Held(h, g, r) == {p \in Pages : h[p] = 1} \cup PagesIn(BagToSet(g)) \cup r

NoLeak(E, h, g, r) == Pages \ Held(h, g, r) \subseteq PagesIn(E)

SInv == /\ Sound(extents)
        /\ policy \in Policies
        /\ PoolSound(alloc, pageHolders)
        /\ GrantsSound(grants)
        /\ NoLeak(extents, pageHolders, grants, reserved)

\* Held is what the property means by HeldPages.
LEMMA HeldIsHeldPages ==
    ASSUME PoolSound(alloc, pageHolders)
    PROVE  HeldPages = Held(pageHolders, grants, reserved)
<1>1. \A p \in Pages : pageHolders[p] \in {0, 1}
  BY DEF PoolSound, OneEach
<1>. QED  BY <1>1 DEF HeldPages, Held

\* Initially no page is held and every page is free.
LEMMA InitSInv == Init => SInv
<1>. SUFFICES ASSUME Init PROVE SInv
  OBVIOUS
<1>1. PoolSound(alloc, pageHolders)
  BY FreshSound DEF Init
<1>2. Sound(extents) /\ PagesIn(extents) = Pages
  BY InitializeSound DEF Init
<1>3. GrantsSound(grants)
  BY DEF Init, GrantsSound, EmptyBag, SetToBag
<1>. QED  BY <1>1, <1>2, <1>3 DEF Init, SInv, NoLeak

\* The one page that allocatePage and freePage pass to the map.
LEMMA OnePageExtent ==
    ASSUME NEW id \in Pages
    PROVE  OnePage(id) \in Extents /\ PagesOf(OnePage(id)) = {id}
<1>1. id \in Nat /\ id >= FirstDataPageId /\ id + 1 <= MaxPageId + 1
  BY DEF Pages
<1>2. OnePage(id) \in Extents /\ OnePage(id).start = id /\ EndPage(OnePage(id)) = id + 1
  BY <1>1, ExtentMade DEF OnePage
<1>3. id .. (id + 1) - 1 = {id}
  BY <1>1
<1>. QED  BY <1>2, <1>3 DEF PagesOf

\* allocatePage: the page that leaves the map has a holder; a page that the map
\* refuses is given back.
LEMMA AllocatePageSound == ASSUME SInv, AllocatePage PROVE SInv'
<1>. DEFINE id == PA!AllocateResult(alloc)
            ok == id # InvalidPageId /\ MayAllocate(extents, OnePage(id))
<1>1. policy' = policy /\ grants' = grants /\ reserved' = reserved
  BY DEF AllocatePage
<1>2. CASE ok
  <2>1. /\ alloc' = PA!AfterAllocate(alloc)
        /\ extents' = AfterMarkAllocated(extents, OnePage(id))
        /\ pageHolders' = [pageHolders EXCEPT ![id] = @ + 1]
    BY <1>2 DEF AllocatePage
  <2>2. /\ id \in Pages /\ id \in Out(alloc'.freeList, alloc'.nextPageId)
        /\ PoolSound(alloc', pageHolders')
    BY <1>2, <2>1, AllocateSound DEF SInv
  <2>. HIDE DEF id
  <2>3. OnePage(id) \in Extents /\ PagesOf(OnePage(id)) = {id}
    BY <2>2, OnePageExtent
  <2>4. Sound(extents') /\ PagesIn(extents) \ {id} \subseteq PagesIn(extents')
    BY <2>1, <2>3, MarkAllocatedSound DEF SInv
  <2>5. pageHolders'[id] = 1
    BY <2>2 DEF PoolSound, OneEach
  <2>6. \A p \in Pages : p # id => pageHolders'[p] = pageHolders[p]
    <3>1. pageHolders \in [Pages -> {0, 1}]
      BY DEF SInv, PoolSound, OneEach
    <3>. QED  BY <2>1, <3>1
  <2>7. NoLeak(extents', pageHolders', grants', reserved')
    BY <1>1, <2>4, <2>5, <2>6 DEF SInv, NoLeak, Held
  <2>. QED  BY <1>1, <2>2, <2>4, <2>7 DEF SInv
<1>3. CASE ~ ok
  <2>1. /\ alloc' = PA!AfterFree(PA!AfterAllocate(alloc), id)
        /\ extents' = extents /\ pageHolders' = pageHolders
    BY <1>3 DEF AllocatePage, RolledBack
  <2>2. PoolSound(alloc', pageHolders')
    BY <2>1, RollBackSound DEF SInv
  <2>. QED  BY <1>1, <2>1, <2>2 DEF SInv
<1>. QED  BY <1>2, <1>3

\* freePage: the page that loses its holder is free in the map.
LEMMA FreePageSound ==
    ASSUME SInv, NEW id \in 0 .. MaxPageId + 1, FreePage(id) PROVE SInv'
<1>1. policy' = policy /\ grants' = grants /\ reserved' = reserved
  BY DEF FreePage
<1>2. CASE PA!MayFree(alloc, id)
  <2>1. /\ alloc' = PA!AfterFree(alloc, id)
        /\ extents' = AfterMarkFree(extents, OnePage(id))
        /\ pageHolders' = [pageHolders EXCEPT ![id] = @ - 1]
    BY <1>2 DEF FreePage
  <2>2. id \in Out(alloc.freeList, alloc.nextPageId) /\ id \in Pages
    <3>1. alloc \in AllocType /\ id \in Nat
      BY DEF SInv, PoolSound
    <3>. QED  BY <1>2, <3>1, OutIsAllocated DEF Out
  <2>3. PoolSound(alloc', pageHolders')
    BY <2>1, <2>2, FreeSound DEF SInv
  <2>4. OnePage(id) \in Extents /\ PagesOf(OnePage(id)) = {id}
    BY <2>2, OnePageExtent
  <2>5. Sound(extents') /\ PagesIn(extents') = PagesIn(extents) \cup {id}
    BY <2>1, <2>4, MarkFreeSound DEF SInv
  <2>6. \A p \in Pages : p # id => pageHolders'[p] = pageHolders[p]
    <3>1. pageHolders \in [Pages -> {0, 1}]
      BY DEF SInv, PoolSound, OneEach
    <3>. QED  BY <2>1, <3>1
  <2>7. NoLeak(extents', pageHolders', grants', reserved')
    BY <1>1, <2>5, <2>6 DEF SInv, NoLeak, Held
  <2>. QED  BY <1>1, <2>3, <2>5, <2>7 DEF SInv
<1>3. CASE ~ PA!MayFree(alloc, id)
  BY <1>1, <1>3 DEF FreePage, SInv
<1>. QED  BY <1>2, <1>3

\* allocateExtent: what leaves the map is held, and only if it was free.
LEMMA AllocateExtentSound ==
    ASSUME SInv, NEW n \in 1 .. MaxExtentLength, NEW h \in Hints, AllocateExtent(n, h)
    PROVE  /\ SInv'
           /\ grants' # grants =>
                 \E e \in Extents : /\ PagesOf(e) \subseteq PagesIn(extents)
                                    /\ grants' = grants (+) SetToBag({e})
<1>. DEFINE e == Propose(n, h)
            ok == e # NoExtent /\ MayAllocate(extents, e)
<1>1. /\ policy' = policy /\ alloc' = alloc /\ pageHolders' = pageHolders
      /\ reserved' = reserved
  BY DEF AllocateExtent
<1>2. CASE ok
  <2>1. /\ extents' = AfterMarkAllocated(extents, e)
        /\ grants' = grants (+) SetToBag({e})
    BY <1>2 DEF AllocateExtent
  <2>2. extents \in SUBSET Extents /\ policy \in Policies /\ n \in Nat /\ n >= 1
    BY DEF SInv, Sound
  <2>3. RunOf(extents, n, e)
    BY <1>2, <2>2, ProposeSound
  <2>. HIDE DEF e
  <2>4. e \in Extents /\ PagesOf(e) \subseteq PagesIn(extents)
    BY <2>2, <2>3, RunIsFree DEF RunOf
  <2>5. Sound(extents') /\ PagesIn(extents) \ PagesOf(e) \subseteq PagesIn(extents')
    BY <2>1, <2>4, MarkAllocatedSound DEF SInv
  <2>6. GrantsSound(grants') /\ BagToSet(grants') = BagToSet(grants) \cup {e}
    BY <2>1, <2>4, GrantMore DEF SInv
  <2>7. PagesIn(BagToSet(grants')) = PagesIn(BagToSet(grants)) \cup PagesOf(e)
    BY <2>6 DEF PagesIn
  <2>8. NoLeak(extents', pageHolders', grants', reserved')
    BY <1>1, <2>5, <2>7 DEF SInv, NoLeak, Held
  <2>. QED  BY <1>1, <2>1, <2>4, <2>5, <2>6, <2>8 DEF SInv
<1>3. CASE ~ ok
  <2>1. extents' = extents /\ grants' = grants
    BY <1>3 DEF AllocateExtent
  <2>. QED  BY <1>1, <2>1 DEF SInv
<1>. QED  BY <1>2, <1>3

\* freeExtent: all pages of the extent are free again, those too that are held a
\* second time.
LEMMA FreeExtentSound ==
    ASSUME SInv, NEW e \in BagToSet(grants), FreeExtent(e) PROVE SInv'
<1>1. /\ policy' = policy /\ alloc' = alloc /\ pageHolders' = pageHolders
      /\ reserved' = reserved /\ extents' = AfterMarkFree(extents, e)
      /\ grants' = grants (-) SetToBag({e})
  BY DEF FreeExtent
<1>2. e \in Extents
  BY DEF SInv, GrantsSound, BagToSet
<1>3. Sound(extents') /\ PagesIn(extents') = PagesIn(extents) \cup PagesOf(e)
  BY <1>1, <1>2, MarkFreeSound DEF SInv
<1>4. GrantsSound(grants') /\ BagToSet(grants) \ {e} \subseteq BagToSet(grants')
  BY <1>1, GrantLess DEF SInv
<1>5. PagesIn(BagToSet(grants)) \ PagesOf(e) \subseteq PagesIn(BagToSet(grants'))
  BY <1>4 DEF PagesIn
<1>6. NoLeak(extents', pageHolders', grants', reserved')
  BY <1>1, <1>3, <1>5 DEF SInv, NoLeak, Held
<1>. QED  BY <1>1, <1>3, <1>4, <1>6 DEF SInv

\* reserveRange: what leaves the map is reserved.
LEMMA ReserveRangeSound ==
    ASSUME SInv, NEW r \in Extents, ReserveRange(r) PROVE SInv'
<1>1. /\ policy' = policy /\ alloc' = alloc /\ pageHolders' = pageHolders
      /\ grants' = grants /\ extents' = AfterMarkAllocated(extents, r)
      /\ reserved' = reserved \cup PagesOf(r)
  BY DEF ReserveRange
<1>2. Sound(extents') /\ PagesIn(extents) \ PagesOf(r) \subseteq PagesIn(extents')
  BY <1>1, MarkAllocatedSound DEF SInv
<1>3. NoLeak(extents', pageHolders', grants', reserved')
  BY <1>1, <1>2 DEF SInv, NoLeak, Held
<1>. QED  BY <1>1, <1>2, <1>3 DEF SInv

\* reset: as in the beginning, with the policy the manager has.
LEMMA ResetSound == ASSUME SInv, Reset PROVE SInv'
<1>1. policy' = policy
  BY DEF Reset
<1>2. PoolSound(alloc', pageHolders')
  BY FreshSound DEF Reset
<1>3. Sound(extents') /\ PagesIn(extents') = Pages
  BY InitializeSound DEF Reset
<1>4. GrantsSound(grants')
  BY DEF Reset, GrantsSound, EmptyBag, SetToBag
<1>5. NoLeak(extents', pageHolders', grants', reserved')
  BY <1>3 DEF NoLeak
<1>. QED  BY <1>1, <1>2, <1>3, <1>4, <1>5 DEF SInv

\* Every step keeps the invariant.
LEMMA NextSInv == SInv /\ [Next]_vars => SInv'
<1>. SUFFICES ASSUME SInv, [Next]_vars PROVE SInv'
  OBVIOUS
<1>1. CASE AllocatePage
  BY <1>1, AllocatePageSound
<1>2. CASE Vacuum
  BY <1>2 DEF Vacuum, clients, SInv
<1>3. CASE \E id \in 0 .. MaxPageId + 1 : FreePage(id)
  BY <1>3, FreePageSound
<1>4. CASE \E n \in 1 .. MaxExtentLength, h \in Hints : AllocateExtent(n, h)
  BY <1>4, AllocateExtentSound
<1>5. CASE \E e \in BagToSet(grants) : FreeExtent(e)
  BY <1>5, FreeExtentSound
<1>6. CASE \E r \in Extents : ReserveRange(r)
  BY <1>6, ReserveRangeSound
<1>7. CASE Reset
  BY <1>7, ResetSound
<1>8. CASE UNCHANGED vars
  BY <1>8 DEF vars, clients, SInv
<1>. QED  BY <1>1, <1>2, <1>3, <1>4, <1>5, <1>6, <1>7, <1>8 DEF Next

-----------------------------------------------------------------------------
(***************************************************************************)
(* The theorems.                                                           *)
(***************************************************************************)

\* The invariant holds in every reachable state.
THEOREM ManagerInvariance == Spec => []SInv
<1>. QED  BY InitSInv, NextSInv, PTL DEF Spec

\* allocatePage, freePage, allocateExtent, freeExtent, reserveRange, reset and
\* Vacuum::run never lose a page: one that nobody holds is free in the map.
THEOREM PagesDoNotLeak == Spec => []NoPageLeaks
<1>1. SInv => NoPageLeaks
  BY HeldIsHeldPages DEF SInv, NoPageLeaks, NoLeak, FreePages
<1>. QED  BY <1>1, ManagerInvariance, PTL

\* Whatever the extents do to the map, and through every roll back of allocatePage,
\* the PageAllocator's isAllocated says who holds a page, and no page has two
\* holders.
THEOREM PageHoldersAreExact == Spec => []PageHoldersExact
<1>1. SInv => PageHoldersExact
  <2>. SUFFICES ASSUME SInv, NEW p \in Pages
                PROVE  pageHolders[p] = IF PA!IsAllocated(alloc, p) THEN 1 ELSE 0
    BY DEF PageHoldersExact, PA!HoldersExact, PA!DataPages, Pages
  <2>1. alloc \in AllocType /\ p \in Nat
    BY DEF SInv, PoolSound, Pages
  <2>2. PA!IsAllocated(alloc, p) <=> p \in Out(alloc.freeList, alloc.nextPageId)
    BY <2>1, OutIsAllocated
  <2>. QED  BY <2>2 DEF SInv, PoolSound, OneEach
<1>. QED  BY <1>1, ManagerInvariance, PTL

\* Each policy gives up only when no free extent would do, wherever the sequential
\* cursor stands.
THEOREM ExtentSearchesAreComplete == Spec => []ExtentSearchComplete
<1>1. SInv => ExtentSearchComplete
  <2>. SUFFICES ASSUME SInv, NEW n \in 1 .. MaxExtentLength, NEW h \in Hints,
                       Propose(n, h) = NoExtent
                PROVE  NoneFits(n, h)
    BY DEF ExtentSearchComplete, NoneFits
  <2>1. extents \in SUBSET Extents /\ policy \in Policies /\ n \in Nat /\ n >= 1
    BY DEF SInv, Sound
  <2>2. ~ RunOf(extents, n, Propose(n, h))
    BY NoneIsNone DEF RunOf
  <2>. QED  BY <2>1, <2>2, ProposeSound
<1>. QED  BY <1>1, ManagerInvariance, PTL

\* An extent is held more often only after allocateExtent took it from the map.
LEMMA GrantedOnlyIfFree ==
    ASSUME SInv, [Next]_vars, NEW e \in Extents,
           TimesHeld(e, grants') > TimesHeld(e, grants)
    PROVE  PagesOf(e) \subseteq FreePages
<1>1. GrantsSound(grants)
  BY DEF SInv
<1>2. TimesHeld(e, grants) \in Nat
  BY <1>1 DEF GrantsSound, TimesHeld, BagIn, BagToSet
<1>3. grants' # grants
  BY <1>2
<1>4. CASE \E n \in 1 .. MaxExtentLength, h \in Hints : AllocateExtent(n, h)
  <2>1. PICK f \in Extents : /\ PagesOf(f) \subseteq PagesIn(extents)
                             /\ grants' = grants (+) SetToBag({f})
    BY <1>3, <1>4, AllocateExtentSound
  <2>2. CASE e = f
    BY <2>1, <2>2 DEF FreePages
  <2>3. CASE e # f
    <3>1. /\ BagToSet(grants') = BagToSet(grants) \cup {f}
          /\ \A d \in DOMAIN grants : d # f => grants'[d] = grants[d]
      BY <1>1, <2>1, GrantMore
    <3>2. TimesHeld(e, grants') = TimesHeld(e, grants)
      BY <2>3, <3>1 DEF TimesHeld, BagIn, BagToSet
    <3>. QED  BY <1>2, <3>2
  <2>. QED  BY <2>2, <2>3
<1>5. CASE \E f \in BagToSet(grants) : FreeExtent(f)
  <2>1. PICK f : grants' = grants (-) SetToBag({f})
    BY <1>5 DEF FreeExtent
  <2>2. /\ GrantsSound(grants')
        /\ \A d \in DOMAIN grants' : d \in DOMAIN grants /\ grants'[d] <= grants[d]
    BY <1>1, <2>1, GrantLess
  <2>3. TimesHeld(e, grants') = 0 \/ TimesHeld(e, grants') <= TimesHeld(e, grants)
    BY <2>2 DEF TimesHeld, BagIn, BagToSet
  <2>4. TimesHeld(e, grants') \in Nat
    BY <2>2 DEF GrantsSound, TimesHeld, BagIn, BagToSet
  <2>. QED  BY <1>2, <2>3, <2>4
<1>6. CASE Reset
  <2>1. TimesHeld(e, grants') = 0
    BY <1>6 DEF Reset, TimesHeld, BagIn, BagToSet, EmptyBag, SetToBag
  <2>. QED  BY <1>2, <2>1
<1>7. CASE AllocatePage
  BY <1>3, <1>7 DEF AllocatePage
<1>8. CASE \E id \in 0 .. MaxPageId + 1 : FreePage(id)
  BY <1>3, <1>8 DEF FreePage
<1>9. CASE Vacuum \/ \E r \in Extents : ReserveRange(r)
  BY <1>3, <1>9 DEF Vacuum, ReserveRange, clients
<1>10. CASE UNCHANGED vars
  BY <1>3, <1>10 DEF vars, clients
<1>. QED  BY <1>4, <1>5, <1>6, <1>7, <1>8, <1>9, <1>10 DEF Next

\* allocateExtent hands out pages that the map shows as free, and no other call hands
\* out an extent.
THEOREM GrantsAreFromMap == Spec => GrantsComeFromMap
<1>1. SInv /\ [Next]_vars =>
          [\A e \in Extents : TimesHeld(e, grants') > TimesHeld(e, grants) =>
              PagesOf(e) \subseteq FreePages]_vars
  BY GrantedOnlyIfFree
<1>. QED  BY <1>1, ManagerInvariance, PTL DEF Spec, GrantsComeFromMap
=============================================================================
