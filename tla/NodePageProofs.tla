--------------------------- MODULE NodePageProofs ---------------------------
(***************************************************************************)
(* Theorems about a B-tree node and its page, for every size of the entry  *)
(* area, every set of keys, configurations and assigned entries, and every *)
(* sequence of calls.  The binary search and the writer are loops, which   *)
(* are recursive functions in module NodePage; that such a function exists,*)
(* and what it returns, is proved here by induction over sets of numbers.  *)
(***************************************************************************)
EXTENDS NodePage, FiniteSetTheorems, WellFoundedInduction, TLAPS

-----------------------------------------------------------------------------
(***************************************************************************)
(* Iteration and sequences.                                                *)
(***************************************************************************)

\* Induction up to a bound, over a set of numbers.
LEMMA UpTo ==
    ASSUME NEW n \in Nat, NEW T, 0 \in T, \A k \in 1 .. n : k - 1 \in T => k \in T
    PROVE  0 .. n \subseteq T
<1>. DEFINE R == {ss \in Nat \X Nat : ss[1] < ss[2]}
            S == {k \in 0 .. n : k \notin T}
<1>1. IsWellFoundedOn(R, Nat)
  BY NatLessThanWellFounded DEF OpToRel
<1>. SUFFICES ASSUME S # {} PROVE FALSE
  OBVIOUS
<1>2. S \in SUBSET Nat
  OBVIOUS
<1>. HIDE DEF R, S
<1>3. PICK m \in S : \A k \in S : ~ (<<k, m>> \in R)
  BY <1>1, <1>2, WFMin
<1>4. m \in 1 .. n /\ m \notin T /\ m - 1 \in 0 .. n
  BY DEF S
<1>5. m - 1 \in T
  <2>1. <<m - 1, m>> \in R
    BY <1>4 DEF R
  <2>2. m - 1 \notin S
    BY <1>3, <2>1
  <2>. QED  BY <1>4, <2>2 DEF S
<1>. QED  BY <1>4, <1>5

\* There is the sequence x, s[1][x], s[2][s[1][x]] and so on.
Iterated(S, x, s, n) ==
    \E g \in [0 .. n -> S] : g[0] = x /\ \A k \in 1 .. n : g[k] = s[k][g[k - 1]]

\* A loop whose turns stay in a set of states runs.
LEMMA Iterates ==
    ASSUME NEW S, NEW x \in S, NEW n \in Nat, NEW s \in [1 .. n -> [S -> S]]
    PROVE  Iterated(S, x, s, n)
<1>. DEFINE Runs(k) == \E g \in [0 .. k -> S] :
                          g[0] = x /\ \A j \in 1 .. k : g[j] = s[j][g[j - 1]]
           T == {k \in 0 .. n : Runs(k)}
<1>1. 0 \in T
  <2>. DEFINE g == [j \in 0 .. 0 |-> x]
  <2>1. g \in [0 .. 0 -> S] /\ g[0] = x /\ \A j \in 1 .. 0 : g[j] = s[j][g[j - 1]]
    OBVIOUS
  <2>. HIDE DEF g
  <2>2. Runs(0)
    BY <2>1
  <2>. QED  BY <2>2
<1>2. ASSUME NEW k \in 1 .. n, k - 1 \in T PROVE k \in T
  <2>1. PICK g \in [0 .. k - 1 -> S] : g[0] = x /\ \A j \in 1 .. k - 1 : g[j] = s[j][g[j - 1]]
    BY <1>2
  <2>. DEFINE h == [j \in 0 .. k |-> IF j = k THEN s[k][g[k - 1]] ELSE g[j]]
  <2>2. h \in [0 .. k -> S] /\ h[0] = x
    BY <2>1
  <2>3. \A j \in 1 .. k : h[j] = s[j][h[j - 1]]
    BY <2>1
  <2>. HIDE DEF h
  <2>4. Runs(k)
    BY <2>2, <2>3
  <2>5. k \in 0 .. n
    OBVIOUS
  <2>. HIDE DEF Runs
  <2>. QED  BY <2>4, <2>5
<1>. HIDE DEF T
<1>3. n \in T
  <2>1. 0 .. n \subseteq T
    BY <1>1, <1>2, UpTo
  <2>. QED  BY <2>1
<1>4. Runs(n)
  <2>. HIDE DEF Runs
  <2>. QED  BY <1>3 DEF T
<1>. QED  BY <1>4 DEF Iterated

\* A sequence's elements are of its set.
LEMMA ElementIs ==
    ASSUME NEW S, NEW s \in Seq(S), NEW j \in 1 .. Len(s) PROVE s[j] \in S
OBVIOUS

\* vector::insert makes room for an element.
LEMMA InsertedIs ==
    ASSUME NEW S, NEW s \in Seq(S), NEW pos \in 0 .. Len(s), NEW x \in S
    PROVE  Inserted(s, pos, x) \in Seq(S) /\ Len(Inserted(s, pos, x)) = Len(s) + 1
BY DEF Inserted

\* vector::erase takes an element out.
LEMMA ErasedIs ==
    ASSUME NEW S, NEW s \in Seq(S), NEW pos \in 0 .. Len(s) - 1
    PROVE  Erased(s, pos) \in Seq(S) /\ Len(Erased(s, pos)) = Len(s) - 1
BY DEF Erased

-----------------------------------------------------------------------------
(***************************************************************************)
(* The binary search.                                                      *)
(***************************************************************************)

\* The intervals of a search among n positions whose answer is c.
Intervals(n, c) == {s \in [lo : 0 .. n, hi : 0 .. n] : s.lo <= c /\ c <= s.hi}

\* A turn of the search keeps the answer in the interval and shortens it.
LEMMA SearchTurnCloses ==
    ASSUME NEW n \in Nat, NEW c \in 0 .. n, NEW s \in Intervals(n, c)
    PROVE  /\ SearchTurn(s, 1 .. c) \in Intervals(n, c)
           /\ LET t == SearchTurn(s, 1 .. c)
              IN  t.hi - t.lo <= s.hi - s.lo - 1 \/ t.hi - t.lo = 0
<1>. DEFINE mid == s.lo + ((s.hi - s.lo) \div 2)
<1>1. s \in [lo : 0 .. n, hi : 0 .. n] /\ s.lo <= c /\ c <= s.hi /\ s.lo \in Nat /\ s.hi \in Nat
  BY DEF Intervals
<1>2. CASE s.lo >= s.hi
  BY <1>1, <1>2 DEF SearchTurn, Intervals
<1>3. CASE s.lo < s.hi
  <2>1. mid \in Nat /\ s.lo <= mid /\ mid < s.hi
    BY <1>1, <1>3
  <2>. HIDE DEF mid
  <2>2. SearchTurn(s, 1 .. c) = IF mid + 1 \in 1 .. c THEN [s EXCEPT !.lo = mid + 1]
                                                     ELSE [s EXCEPT !.hi = mid]
    BY <1>1, <1>3 DEF SearchTurn, mid
  <2>. QED  BY <1>1, <2>1, <2>2 DEF Intervals
<1>. QED  BY <1>1, <1>2, <1>3

\* The search returns c when it is the keys at the first c positions that lie before
\* the one sought.
LEMMA SearchFinds ==
    ASSUME NEW S, NEW keys \in Seq(S), NEW c \in 0 .. Len(keys)
    PROVE  Search(keys, 1 .. c) = c
<1>. DEFINE n == Len(keys)
            first == [lo |-> 0, hi |-> n]
            turn == [k \in 1 .. n |-> [s \in Intervals(n, c) |-> SearchTurn(s, 1 .. c)]]
            Body(g) == [k \in 0 .. n |-> IF k = 0 THEN first ELSE SearchTurn(g[k - 1], 1 .. c)]
            after == CHOOSE g : g = Body(g)
<1>1. n \in Nat /\ c \in 0 .. n /\ first \in Intervals(n, c)
  BY DEF Intervals
<1>2. Search(keys, 1 .. c) = after[n].lo
  BY DEF Search
<1>. HIDE DEF n
<1>3. /\ turn \in [1 .. n -> [Intervals(n, c) -> Intervals(n, c)]]
      /\ \A k \in 1 .. n, s \in Intervals(n, c) : turn[k][s] = SearchTurn(s, 1 .. c)
  BY <1>1, SearchTurnCloses
<1>4. first.lo = 0 /\ first.hi = n
  OBVIOUS
<1>. HIDE DEF first, turn
<1>5. PICK g \in [0 .. n -> Intervals(n, c)] :
          g[0] = first /\ \A k \in 1 .. n : g[k] = turn[k][g[k - 1]]
  <2>1. Iterated(Intervals(n, c), first, turn, n)
    BY <1>1, <1>3, Iterates
  <2>. QED  BY <2>1 DEF Iterated
<1>6. g = Body(g)
  <2>1. ASSUME NEW k \in 0 .. n PROVE g[k] = Body(g)[k]
    <3>1. CASE k = 0
      BY <1>5, <3>1
    <3>2. CASE k # 0
      <4>1. k \in 1 .. n /\ k - 1 \in 0 .. n
        BY <1>1, <3>2
      <4>2. g[k] = SearchTurn(g[k - 1], 1 .. c)
        BY <1>3, <1>5, <4>1
      <4>. QED  BY <3>2, <4>2
    <3>. QED  BY <3>1, <3>2
  <2>. QED  BY <2>1
<1>7. after = Body(after)
  <2>. HIDE DEF Body
  <2>. QED  BY <1>6
<1>. HIDE DEF after
<1>8. after[0] = first /\ \A k \in 1 .. n : after[k] = SearchTurn(after[k - 1], 1 .. c)
  BY <1>1, <1>7
<1>. DEFINE T == {k \in 0 .. n : after[k] \in Intervals(n, c) /\ after[k].hi - after[k].lo <= n - k}
<1>9. 0 \in T
  BY <1>1, <1>4, <1>8
<1>10. ASSUME NEW k \in 1 .. n, k - 1 \in T PROVE k \in T
  <2>. DEFINE s == after[k - 1]
              t == after[k]
  <2>1. s \in Intervals(n, c) /\ s.hi - s.lo <= n - (k - 1)
    BY <1>10
  <2>2. t = SearchTurn(s, 1 .. c)
    BY <1>8
  <2>. HIDE DEF s, t
  <2>3. t \in Intervals(n, c) /\ (t.hi - t.lo <= s.hi - s.lo - 1 \/ t.hi - t.lo = 0)
    BY <1>1, <2>1, <2>2, SearchTurnCloses
  <2>4. s.hi \in Nat /\ s.lo \in Nat /\ t.hi \in Nat /\ t.lo \in Nat
    BY <1>1, <2>1, <2>3 DEF Intervals
  <2>5. t.hi - t.lo <= n - k
    BY <1>1, <2>1, <2>3, <2>4
  <2>. QED  BY <1>1, <2>3, <2>5 DEF t
<1>. HIDE DEF T
<1>11. 0 .. n \subseteq T
  BY <1>1, <1>9, <1>10, UpTo
<1>12. after[n] \in Intervals(n, c) /\ after[n].hi - after[n].lo <= n - n
  BY <1>1, <1>11 DEF T
<1>13. after[n].lo = c
  <2>. DEFINE e == after[n]
  <2>1. e \in Intervals(n, c) /\ e.hi - e.lo <= n - n
    BY <1>12
  <2>. HIDE DEF e
  <2>2. e.hi \in Nat /\ e.lo \in Nat /\ e.lo <= c /\ c <= e.hi
    BY <1>1, <2>1 DEF Intervals
  <2>3. e.lo = c
    BY <1>1, <2>1, <2>2
  <2>. QED  BY <2>3 DEF e
<1>. QED  BY <1>2, <1>13

-----------------------------------------------------------------------------
(***************************************************************************)
(* Key::compare is a strict total order.                                   *)
(***************************************************************************)

\* Binary keys: sequences of bytes.
Bytestrings == Seq(0 .. 255)

\* What is known of a binary key.
LEMMA ByteFacts ==
    ASSUME NEW a \in Bytestrings
    PROVE  Len(a) \in Nat /\ \A j \in 1 .. Len(a) : a[j] \in Int
<1>1. Len(a) \in Nat
  BY DEF Bytestrings
<1>2. ASSUME NEW j \in 1 .. Len(a) PROVE a[j] \in Int
  <2>1. a[j] \in 0 .. 255
    BY ElementIs DEF Bytestrings
  <2>2. 0 .. 255 \subseteq Int
    OBVIOUS
  <2>. QED  BY <2>1, <2>2, Zenon
<1>. QED  BY <1>1, <1>2

\* No binary key is less than itself.
LEMMA BinaryIrreflexive == ASSUME NEW a \in Bytestrings PROVE ~ BinaryLess(a, a)
BY ByteFacts DEF BinaryLess

\* The order of binary keys is transitive.
LEMMA BinaryTransitive ==
    ASSUME NEW a \in Bytestrings, NEW b \in Bytestrings, NEW c \in Bytestrings,
           BinaryLess(a, b), BinaryLess(b, c)
    PROVE  BinaryLess(a, c)
<1>1. PICK i \in 1 .. Len(b) : /\ \A j \in 1 .. i - 1 : j <= Len(a) /\ a[j] = b[j]
                               /\ i <= Len(a) => a[i] < b[i]
  BY DEF BinaryLess
<1>2. PICK k \in 1 .. Len(c) : /\ \A j \in 1 .. k - 1 : j <= Len(b) /\ b[j] = c[j]
                               /\ k <= Len(b) => b[k] < c[k]
  BY DEF BinaryLess
<1>3. /\ Len(a) \in Nat /\ \A j \in 1 .. Len(a) : a[j] \in Int
      /\ Len(b) \in Nat /\ \A j \in 1 .. Len(b) : b[j] \in Int
      /\ Len(c) \in Nat /\ \A j \in 1 .. Len(c) : c[j] \in Int
  BY ByteFacts
<1>4. i \in Nat /\ k \in Nat /\ 1 <= i /\ 1 <= k /\ i <= Len(b) /\ k <= Len(c)
  BY <1>3
<1>5. CASE i < k
  <2>1. i \in 1 .. k - 1 /\ i \in 1 .. Len(c)
    BY <1>3, <1>4, <1>5
  <2>2. b[i] = c[i]
    BY <1>2, <2>1
  <2>3. ASSUME NEW j \in 1 .. i - 1 PROVE j <= Len(a) /\ a[j] = c[j]
    <3>1. j \in 1 .. k - 1
      BY <1>4, <1>5
    <3>. QED  BY <1>1, <1>2, <3>1
  <2>. QED  BY <1>1, <2>1, <2>2, <2>3 DEF BinaryLess
<1>6. CASE k <= i
  <2>1. b[k] < c[k] /\ k \in 1 .. Len(b)
    BY <1>2, <1>3, <1>4, <1>6
  <2>2. ASSUME NEW j \in 1 .. k - 1 PROVE j <= Len(a) /\ a[j] = c[j]
    <3>1. j \in 1 .. i - 1
      BY <1>4, <1>6
    <3>. QED  BY <1>1, <1>2, <3>1
  <2>3. ASSUME k <= Len(a) PROVE a[k] < c[k]
    <3>1. a[k] \in Int /\ b[k] \in Int /\ c[k] \in Int
      BY <1>3, <1>4, <2>1, <2>3
    <3>2. CASE k = i
      BY <1>1, <2>1, <2>3, <3>1, <3>2
    <3>3. CASE k < i
      <4>1. k \in 1 .. i - 1
        BY <1>4, <3>3
      <4>. QED  BY <1>1, <2>1, <4>1
    <3>. QED  BY <1>4, <1>6, <3>2, <3>3
  <2>. QED  BY <2>2, <2>3 DEF BinaryLess
<1>. QED  BY <1>4, <1>5, <1>6

\* Of two binary keys that differ one is less: they differ first at some byte, or
\* where the shorter one ends.
LEMMA BinaryTotal ==
    ASSUME NEW a \in Bytestrings, NEW b \in Bytestrings, a # b
    PROVE  BinaryLess(a, b) \/ BinaryLess(b, a)
<1>. DEFINE n == Len(a) + Len(b)
            Agree(k) == \A j \in 1 .. k : j <= Len(a) /\ j <= Len(b) /\ a[j] = b[j]
            T == {k \in 0 .. n : Agree(k)}
<1>1. /\ Len(a) \in Nat /\ \A j \in 1 .. Len(a) : a[j] \in Int
      /\ Len(b) \in Nat /\ \A j \in 1 .. Len(b) : b[j] \in Int
      /\ n \in Nat /\ Len(a) <= n /\ Len(b) <= n
  BY ByteFacts
<1>2. 0 \in T
  BY <1>1
<1>3. Len(a) # Len(b) \/ \E j \in 1 .. Len(a) : a[j] # b[j]
  BY DEF Bytestrings
<1>4. ~ Agree(n)
  <2>. SUFFICES ASSUME Agree(n) PROVE FALSE
    OBVIOUS
  <2>1. Len(a) <= Len(b)
    <3>1. CASE Len(a) = 0
      BY <1>1, <3>1
    <3>2. CASE Len(a) # 0
      <4>1. Len(a) \in 1 .. n
        BY <1>1, <3>2
      <4>. QED  BY <4>1
    <3>. QED  BY <3>1, <3>2
  <2>2. Len(b) <= Len(a)
    <3>1. CASE Len(b) = 0
      BY <1>1, <3>1
    <3>2. CASE Len(b) # 0
      <4>1. Len(b) \in 1 .. n
        BY <1>1, <3>2
      <4>. QED  BY <4>1
    <3>. QED  BY <3>1, <3>2
  <2>3. ASSUME NEW j \in 1 .. Len(a) PROVE a[j] = b[j]
    <3>1. j \in 1 .. n
      BY <1>1
    <3>. QED  BY <3>1
  <2>. QED  BY <1>1, <1>3, <2>1, <2>2, <2>3
<1>5. PICK k \in 1 .. n : k - 1 \in T /\ k \notin T
  <2>1. n \notin T /\ n \in 0 .. n
    BY <1>1, <1>4
  <2>. HIDE DEF T
  <2>. QED  BY <1>1, <1>2, <2>1, UpTo
<1>6. Agree(k - 1) /\ ~ Agree(k)
  BY <1>1, <1>5
<1>7. ~ (k <= Len(a) /\ k <= Len(b) /\ a[k] = b[k])
  <2>. SUFFICES ASSUME k <= Len(a) /\ k <= Len(b) /\ a[k] = b[k] PROVE Agree(k)
    BY <1>6
  <2>. SUFFICES ASSUME NEW j \in 1 .. k PROVE j <= Len(a) /\ j <= Len(b) /\ a[j] = b[j]
    OBVIOUS
  <2>1. CASE j = k
    BY <2>1
  <2>2. CASE j # k
    <3>1. j \in 1 .. k - 1
      BY <1>1, <2>2
    <3>. QED  BY <1>6, <3>1
  <2>. QED  BY <2>1, <2>2
<1>8. k \in Nat /\ k >= 1
  BY <1>1
<1>9. CASE k <= Len(b) /\ (k <= Len(a) => a[k] < b[k])
  <2>1. k \in 1 .. Len(b) /\ \A j \in 1 .. k - 1 : j <= Len(a) /\ a[j] = b[j]
    BY <1>1, <1>6, <1>8, <1>9
  <2>. QED  BY <1>9, <2>1 DEF BinaryLess
<1>10. CASE k <= Len(a) /\ (k <= Len(b) => b[k] < a[k])
  <2>1. k \in 1 .. Len(a) /\ \A j \in 1 .. k - 1 : j <= Len(b) /\ b[j] = a[j]
    BY <1>1, <1>6, <1>8, <1>10
  <2>. QED  BY <1>10, <2>1 DEF BinaryLess
<1>11. CASE k > Len(a) /\ k > Len(b)
  <2>1. Len(a) = k - 1 /\ Len(b) = k - 1
    <3>1. CASE k = 1
      BY <1>1, <1>8, <1>11, <3>1
    <3>2. CASE k # 1
      <4>1. k - 1 \in 1 .. k - 1
        BY <1>8, <3>2
      <4>2. k - 1 <= Len(a) /\ k - 1 <= Len(b)
        BY <1>6, <4>1
      <4>. QED  BY <1>1, <1>8, <1>11, <4>2
    <3>. QED  BY <3>1, <3>2
  <2>. QED  BY <1>3, <1>6, <2>1
<1>12. CASE k <= Len(a) /\ k <= Len(b)
  <2>1. a[k] \in Int /\ b[k] \in Int /\ a[k] # b[k]
    BY <1>1, <1>7, <1>8, <1>12
  <2>2. a[k] < b[k] \/ b[k] < a[k]
    BY <2>1
  <2>. QED  BY <1>9, <1>10, <1>12, <2>2
<1>. QED  BY <1>1, <1>8, <1>9, <1>10, <1>11, <1>12

\* What is known of a key.
LEMMA KeyFields ==
    ASSUME NEW k \in Keys
    PROVE  /\ k = [type |-> k.type, value |-> k.value]
           /\ k.type \in {UInt32, UInt64, Binary}
           /\ k.type = Binary => k.value \in Bytestrings
           /\ k.type # Binary => k.value \in Nat
BY NodeAssumption DEF Bytestrings, UInt32, UInt64, Binary

\* Two keys compare as equal exactly if they are the same key.
LEMMA KeyEqualIs ==
    ASSUME NEW a \in Keys, NEW b \in Keys PROVE KeyEqual(a, b) <=> a = b
<1>1. a = [type |-> a.type, value |-> a.value] /\ b = [type |-> b.type, value |-> b.value]
  BY KeyFields
<1>. QED  BY <1>1 DEF KeyEqual

\* The order of the keys.
LEMMA KeyOrder ==
    ASSUME NEW a \in Keys, NEW b \in Keys
    PROVE  /\ ~ KeyLess(a, a)
           /\ KeyLess(a, b) \/ a = b \/ KeyLess(b, a)
           /\ \A c \in Keys : KeyLess(a, b) /\ KeyLess(b, c) => KeyLess(a, c)
<1>1. a.type \in Int /\ b.type \in Int
  BY KeyFields DEF UInt32, UInt64, Binary
<1>2. ~ KeyLess(a, a)
  <2>1. CASE a.type = Binary
    BY <2>1, KeyFields, BinaryIrreflexive DEF KeyLess
  <2>2. CASE a.type # Binary
    BY <2>2, KeyFields DEF KeyLess
  <2>. QED  BY <2>1, <2>2
<1>3. KeyLess(a, b) \/ a = b \/ KeyLess(b, a)
  <2>1. CASE a.type # b.type
    BY <1>1, <2>1 DEF KeyLess
  <2>2. CASE a.type = b.type
    <3>1. a.value = b.value => a = b
      BY <2>2, KeyEqualIs DEF KeyEqual
    <3>2. CASE a.type = Binary /\ a.value # b.value
      <4>1. BinaryLess(a.value, b.value) \/ BinaryLess(b.value, a.value)
        BY <2>2, <3>2, KeyFields, BinaryTotal
      <4>. QED  BY <2>2, <3>2, <4>1 DEF KeyLess
    <3>3. CASE a.type # Binary /\ a.value # b.value
      <4>1. a.value \in Nat /\ b.value \in Nat
        BY <2>2, <3>3, KeyFields
      <4>2. a.value < b.value \/ b.value < a.value
        BY <3>3, <4>1
      <4>. QED  BY <2>2, <3>3, <4>2 DEF KeyLess
    <3>. QED  BY <3>1, <3>2, <3>3
  <2>. QED  BY <2>1, <2>2
<1>4. ASSUME NEW c \in Keys, KeyLess(a, b), KeyLess(b, c) PROVE KeyLess(a, c)
  <2>1. c.type \in Int
    BY KeyFields DEF UInt32, UInt64, Binary
  <2>2. a.type <= b.type /\ b.type <= c.type
    BY <1>1, <1>4, <2>1 DEF KeyLess
  <2>3. CASE a.type = b.type /\ b.type = c.type
    <3>1. CASE a.type = Binary
      <4>1. BinaryLess(a.value, b.value) /\ BinaryLess(b.value, c.value)
        BY <1>4, <2>3, <3>1 DEF KeyLess
      <4>2. BinaryLess(a.value, c.value)
        BY <2>3, <3>1, <4>1, KeyFields, BinaryTransitive
      <4>. QED  BY <2>3, <3>1, <4>2 DEF KeyLess
    <3>2. CASE a.type # Binary
      <4>1. a.value < b.value /\ b.value < c.value
        BY <1>4, <2>3, <3>2 DEF KeyLess
      <4>2. a.value \in Nat /\ b.value \in Nat /\ c.value \in Nat
        BY <2>3, <3>2, KeyFields
      <4>. QED  BY <2>3, <3>2, <4>1, <4>2 DEF KeyLess
    <3>. QED  BY <3>1, <3>2
  <2>4. CASE ~ (a.type = b.type /\ b.type = c.type)
    BY <1>1, <2>1, <2>2, <2>4 DEF KeyLess
  <2>. QED  BY <2>3, <2>4
<1>. QED  BY <1>2, <1>3, <1>4

-----------------------------------------------------------------------------
(***************************************************************************)
(* Keys in order.                                                          *)
(***************************************************************************)

\* One key may stand before another in a node.
InOrder(a, b, dup) == KeyLess(a, b) \/ (dup /\ a = b)

\* Standing before is transitive.
LEMMA InOrderTransitive ==
    ASSUME NEW a \in Keys, NEW b \in Keys, NEW c \in Keys, NEW dup \in BOOLEAN,
           InOrder(a, b, dup), InOrder(b, c, dup)
    PROVE  InOrder(a, c, dup)
BY KeyOrder DEF InOrder

\* validate()'s comparison of neighbours.
LEMMA SortedIs ==
    ASSUME NEW keys \in Seq(Keys), NEW dup \in BOOLEAN
    PROVE  Sorted(keys, dup) <=> \A i \in 2 .. Len(keys) : InOrder(keys[i - 1], keys[i], dup)
<1>1. ASSUME NEW i \in 2 .. Len(keys)
      PROVE  KeyEqual(keys[i - 1], keys[i]) <=> keys[i - 1] = keys[i]
  <2>1. i - 1 \in 1 .. Len(keys) /\ i \in 1 .. Len(keys)
    OBVIOUS
  <2>2. keys[i - 1] \in Keys /\ keys[i] \in Keys
    BY <2>1, ElementIs
  <2>. QED  BY <2>2, KeyEqualIs
<1>. QED  BY <1>1 DEF Sorted, InOrder

\* If neighbours are in order then all keys are.
LEMMA SortedAll ==
    ASSUME NEW keys \in Seq(Keys), NEW dup \in BOOLEAN, Sorted(keys, dup),
           NEW i \in 1 .. Len(keys), NEW j \in 1 .. Len(keys), i < j
    PROVE  InOrder(keys[i], keys[j], dup)
<1>. DEFINE n == Len(keys)
            T == {k \in 0 .. n : i < k => InOrder(keys[i], keys[k], dup)}
<1>1. n \in Nat /\ \A k \in 1 .. n : keys[k] \in Keys
  BY ElementIs
<1>2. \A k \in 2 .. n : InOrder(keys[k - 1], keys[k], dup)
  BY SortedIs
<1>3. 0 \in T
  BY <1>1
<1>4. ASSUME NEW k \in 1 .. n, k - 1 \in T PROVE k \in T
  <2>1. k \in 0 .. n /\ k \in Nat /\ i \in Nat /\ i >= 1
    BY <1>1
  <2>2. CASE i < k - 1
    <3>1. k \in 2 .. n /\ k - 1 \in 1 .. n
      BY <1>1, <2>1, <2>2
    <3>2. InOrder(keys[i], keys[k - 1], dup)
      BY <1>4, <2>2
    <3>3. InOrder(keys[k - 1], keys[k], dup)
      BY <1>2, <3>1
    <3>4. keys[i] \in Keys /\ keys[k - 1] \in Keys /\ keys[k] \in Keys
      BY <1>1, <3>1
    <3>. QED  BY <2>1, <3>2, <3>3, <3>4, InOrderTransitive
  <2>3. CASE i = k - 1
    <3>1. k \in 2 .. n
      BY <1>1, <2>1, <2>3
    <3>. QED  BY <1>2, <2>1, <2>3, <3>1
  <2>4. CASE i >= k
    BY <2>1, <2>4
  <2>. QED  BY <2>1, <2>2, <2>3, <2>4
<1>. HIDE DEF T
<1>5. 0 .. n \subseteq T
  BY <1>1, <1>3, <1>4, UpTo
<1>. QED  BY <1>1, <1>5 DEF T

\* A set of positions that has every position before one of its own is the first so
\* many positions.
LEMMA FirstPositions ==
    ASSUME NEW n \in Nat, NEW S \in SUBSET (1 .. n),
           \A i \in 1 .. n, j \in S : i < j => i \in S
    PROVE  Cardinality(S) \in 0 .. n /\ S = 1 .. Cardinality(S)
<1>. DEFINE Holds(k) == S = 1 .. k
            T == {k \in 0 .. n : k = 0 \/ k \in S}
<1>1. PICK c \in 0 .. n : c \in T /\ (c < n => c + 1 \notin T)
  <2>1. CASE n \in T
    BY <2>1
  <2>2. CASE n \notin T
    <3>1. 0 \in T /\ n \in 0 .. n
      OBVIOUS
    <3>. HIDE DEF T
    <3>2. PICK k \in 1 .. n : k - 1 \in T /\ k \notin T
      BY <2>2, <3>1, UpTo
    <3>3. k - 1 \in 0 .. n /\ k - 1 + 1 = k
      OBVIOUS
    <3>. QED  BY <3>2, <3>3
  <2>. QED  BY <2>1, <2>2
<1>2. 1 .. c \subseteq S
  <2>1. CASE c = 0
    BY <2>1
  <2>2. CASE c # 0
    <3>1. c \in S
      BY <1>1, <2>2
    <3>2. ASSUME NEW i \in 1 .. c PROVE i \in S
      BY <3>1
    <3>. QED  BY <3>2
  <2>. QED  BY <2>1, <2>2
<1>3. ASSUME NEW j \in S PROVE j \in 1 .. c
  <2>1. j \in 1 .. n
    OBVIOUS
  <2>. SUFFICES ASSUME j > c PROVE FALSE
    BY <2>1
  <2>2. c < n /\ c + 1 \in 1 .. n /\ (c + 1 = j \/ c + 1 < j)
    BY <2>1
  <2>3. c + 1 \in S
    BY <2>2
  <2>. QED  BY <1>1, <2>2, <2>3
<1>4. S = 1 .. c
  BY <1>2, <1>3
<1>5. Cardinality(1 .. c) = c
  <2>1. 1 \in Int /\ c \in Int /\ c - 1 + 1 = c
    OBVIOUS
  <2>2. Cardinality(1 .. c) = IF 1 > c THEN 0 ELSE c - 1 + 1
    BY <2>1, FS_Interval
  <2>. QED  BY <2>1, <2>2
<1>. QED  BY <1>4, <1>5

\* The keys that a search passes: those less than a key, and those less or equal.
Less(keys, key) == {i \in DOMAIN keys : KeyLess(keys[i], key)}
AtMost(keys, key) == {i \in DOMAIN keys : KeyLessEqual(keys[i], key)}
Equal(keys, key) == {i \in DOMAIN keys : KeyEqual(keys[i], key)}

\* KeyComparator::lowerBound returns the number of keys that are less, and they are
\* the first ones.
LEMMA LowerBoundIs ==
    ASSUME NEW keys \in Seq(Keys), NEW key \in Keys, Sorted(keys, TRUE)
    PROVE  /\ LowerBound(keys, key) = Cardinality(Less(keys, key))
           /\ LowerBound(keys, key) \in 0 .. Len(keys)
           /\ Less(keys, key) = 1 .. LowerBound(keys, key)
<1>. DEFINE S == Less(keys, key)
<1>1. Len(keys) \in Nat /\ DOMAIN keys = 1 .. Len(keys) /\ \A i \in 1 .. Len(keys) : keys[i] \in Keys
  BY ElementIs
<1>2. ASSUME NEW i \in 1 .. Len(keys), NEW j \in S, i < j PROVE i \in S
  <2>1. j \in 1 .. Len(keys) /\ KeyLess(keys[j], key)
    BY <1>1 DEF Less
  <2>2. InOrder(keys[i], keys[j], TRUE)
    BY <1>2, <2>1, SortedAll
  <2>3. KeyLess(keys[i], key)
    BY <1>1, <2>1, <2>2, KeyOrder DEF InOrder
  <2>. QED  BY <1>1, <2>3 DEF Less
<1>3. S \in SUBSET (1 .. Len(keys))
  BY <1>1 DEF Less
<1>4. LowerBound(keys, key) = Search(keys, S)
  BY DEF LowerBound, Less
<1>. HIDE DEF S
<1>5. Cardinality(S) \in 0 .. Len(keys) /\ S = 1 .. Cardinality(S)
  BY <1>1, <1>2, <1>3, FirstPositions
<1>6. Search(keys, S) = Cardinality(S)
  BY <1>5, SearchFinds
<1>. QED  BY <1>4, <1>5, <1>6 DEF S

\* KeyComparator::upperBound returns the number of keys that are less or equal, and
\* they are the first ones.
LEMMA UpperBoundIs ==
    ASSUME NEW keys \in Seq(Keys), NEW key \in Keys, Sorted(keys, TRUE)
    PROVE  UpperBound(keys, key) = Cardinality(AtMost(keys, key))
<1>. DEFINE S == AtMost(keys, key)
<1>1. Len(keys) \in Nat /\ DOMAIN keys = 1 .. Len(keys) /\ \A i \in 1 .. Len(keys) : keys[i] \in Keys
  BY ElementIs
<1>2. ASSUME NEW i \in 1 .. Len(keys), NEW j \in S, i < j PROVE i \in S
  <2>1. j \in 1 .. Len(keys) /\ KeyLessEqual(keys[j], key)
    BY <1>1 DEF AtMost
  <2>2. InOrder(keys[i], keys[j], TRUE)
    BY <1>2, <2>1, SortedAll
  <2>3. keys[i] \in Keys /\ keys[j] \in Keys
    BY <1>1, <2>1
  <2>4. KeyLessEqual(keys[i], key)
    BY <2>1, <2>2, <2>3, KeyOrder, KeyEqualIs DEF InOrder, KeyLessEqual
  <2>. QED  BY <1>1, <2>4 DEF AtMost
<1>3. S \in SUBSET (1 .. Len(keys))
  BY <1>1 DEF AtMost
<1>4. UpperBound(keys, key) = Search(keys, S)
  BY DEF UpperBound, AtMost
<1>. HIDE DEF S
<1>5. Cardinality(S) \in 0 .. Len(keys) /\ S = 1 .. Cardinality(S)
  BY <1>1, <1>2, <1>3, FirstPositions
<1>6. Search(keys, S) = Cardinality(S)
  BY <1>5, SearchFinds
<1>. QED  BY <1>4, <1>6 DEF S

\* KeyComparator::find returns the first of the equal keys, or the size.
LEMMA FindIs ==
    ASSUME NEW keys \in Seq(Keys), NEW key \in Keys, Sorted(keys, TRUE)
    PROVE  Find(keys, key) = IF Equal(keys, key) = {} THEN Len(keys)
                             ELSE Min(Equal(keys, key)) - 1
<1>. DEFINE equal == {i \in DOMAIN keys : KeyEqual(keys[i], key)}
            c == LowerBound(keys, key)
<1>1. Len(keys) \in Nat /\ DOMAIN keys = 1 .. Len(keys) /\ \A i \in 1 .. Len(keys) : keys[i] \in Keys
  BY ElementIs
<1>2. equal = {i \in 1 .. Len(keys) : keys[i] = key}
  BY <1>1, KeyEqualIs
<1>3. c \in 0 .. Len(keys) /\ \A i \in 1 .. Len(keys) : KeyLess(keys[i], key) <=> i <= c
  <2>1. c \in 0 .. Len(keys) /\ Less(keys, key) = 1 .. c
    BY LowerBoundIs
  <2>. HIDE DEF c
  <2>2. ASSUME NEW i \in 1 .. Len(keys) PROVE KeyLess(keys[i], key) <=> i \in 1 .. c
    BY <1>1, <2>1 DEF Less
  <2>. QED  BY <1>1, <2>1, <2>2
<1>4. Find(keys, key) = IF c < Len(keys) /\ c + 1 \in equal THEN c ELSE Len(keys)
  <2>1. c < Len(keys) => c + 1 \in DOMAIN keys
    BY <1>1, <1>3
  <2>. QED  BY <2>1 DEF Find
<1>. HIDE DEF c
<1>5. ASSUME NEW m \in equal PROVE c < Len(keys) /\ c + 1 \in equal /\ c + 1 <= m
  <2>1. m \in 1 .. Len(keys) /\ keys[m] = key
    BY <1>2
  <2>2. m > c
    BY <1>3, <2>1, KeyOrder
  <2>3. c < Len(keys) /\ c + 1 \in 1 .. Len(keys) /\ ~ (c + 1 <= c)
    BY <1>1, <1>3, <2>1, <2>2
  <2>4. keys[c + 1] \in Keys /\ ~ KeyLess(keys[c + 1], key)
    BY <1>1, <1>3, <2>3
  <2>5. keys[c + 1] = key
    <3>1. CASE m = c + 1
      BY <2>1, <3>1
    <3>2. CASE m # c + 1
      <4>1. c + 1 < m
        BY <1>3, <2>1, <2>2, <3>2
      <4>2. InOrder(keys[c + 1], key, TRUE)
        BY <2>1, <2>3, <4>1, SortedAll
      <4>. QED  BY <2>4, <4>2 DEF InOrder
    <3>. QED  BY <3>1, <3>2
  <2>. QED  BY <1>2, <1>3, <2>1, <2>2, <2>3, <2>5
<1>6. CASE equal = {}
  BY <1>1, <1>4, <1>6 DEF Equal
<1>7. CASE equal # {}
  <2>1. c < Len(keys) /\ c + 1 \in equal /\ \A m \in equal : c + 1 <= m
    BY <1>5, <1>7
  <2>2. equal \subseteq Int
    BY <1>2
  <2>. HIDE DEF equal
  <2>3. Min(equal) = c + 1
    <3>1. Min(equal) \in equal /\ \A m \in equal : Min(equal) <= m
      BY <2>1 DEF Min
    <3>. DEFINE m == Min(equal)
    <3>2. m \in equal /\ m <= c + 1 /\ c + 1 <= m
      BY <2>1, <3>1, Zenon
    <3>. HIDE DEF m
    <3>3. m = c + 1
      BY <1>3, <2>2, <3>2
    <3>. QED  BY <3>3 DEF m
  <2>4. Min(equal) - 1 = c
    BY <1>3, <2>3
  <2>5. Find(keys, key) = Min(equal) - 1
    BY <1>4, <2>1, <2>4
  <2>. QED  BY <1>7, <2>5 DEF equal, Equal
<1>. QED  BY <1>6, <1>7

-----------------------------------------------------------------------------
(***************************************************************************)
(* What the writer has written.                                            *)
(***************************************************************************)

\* Sizes are numbers, and a key's is positive.
LEMMA SizesAre ==
    /\ \A k \in Keys : SerializedSize(k) \in Nat
    /\ \A c \in Configs : EntrySize(c) \in Nat /\ EntrySize(c) > RefSize /\ EntrySize(c) <= Area
<1>1. ASSUME NEW k \in Keys PROVE SerializedSize(k) \in Nat
  <2>1. k.type = Binary => Len(k.value) \in Nat
    BY KeyFields, ByteFacts
  <2>. QED  BY <2>1, KeyFields DEF SerializedSize, WireSize, UInt32, UInt64, Binary
<1>2. ASSUME NEW c \in Configs PROVE EntrySize(c) \in Nat /\ EntrySize(c) > RefSize /\ EntrySize(c) <= Area
  <2>1. c.keyType \in {UInt32, UInt64, Binary} /\ c.binaryKeySize \in Nat
    BY NodeAssumption
  <2>2. EntrySize(c) \in Nat /\ EntrySize(c) > RefSize
    BY <2>1 DEF EntrySize, WireSize, RefSize, UInt32, UInt64, Binary
  <2>. QED  BY <2>2, RoomAssumption
<1>. QED  BY <1>1, <1>2

\* What is before the first pair.
LeftSize(n) == IF n.class = Internal THEN RefSize ELSE 0

\* Keys that are no longer than size leave the writer at no more than so many times
\* the size of an entry.
LEMMA BytesBound ==
    ASSUME NEW n, n.keys \in Seq(Keys), NEW size \in Nat,
           \A i \in DOMAIN n.keys : SerializedSize(n.keys[i]) + RefSize <= size
    PROVE  Bytes(n) \in Nat /\ Bytes(n) <= LeftSize(n) + Len(n.keys) * size
<1>. DEFINE m == Len(n.keys)
            Size(i) == SerializedSize(n.keys[i]) + RefSize
            turn == [i \in 1 .. m |-> [s \in Nat |-> s + Size(i)]]
            Body(g) == [i \in 0 .. m |->
                           IF i = 0 THEN LeftSize(n)
                           ELSE g[i - 1] + SerializedSize(n.keys[i]) + RefSize]
            tell == CHOOSE g : g = Body(g)
<1>1. m \in Nat /\ DOMAIN n.keys = 1 .. m /\ LeftSize(n) \in Nat
  BY DEF LeftSize, RefSize
<1>2. ASSUME NEW i \in 1 .. m
      PROVE  SerializedSize(n.keys[i]) \in Nat /\ Size(i) \in Nat /\ Size(i) <= size
  <2>1. n.keys[i] \in Keys
    BY ElementIs
  <2>2. SerializedSize(n.keys[i]) \in Nat
    BY <2>1, SizesAre
  <2>. QED  BY <1>1, <2>2 DEF RefSize
<1>3. Bytes(n) = tell[m]
  BY DEF Bytes, LeftSize
<1>. HIDE DEF m, Size
<1>4. turn \in [1 .. m -> [Nat -> Nat]] /\ \A i \in 1 .. m, s \in Nat : turn[i][s] = s + Size(i)
  BY <1>2
<1>. HIDE DEF turn
<1>5. PICK g \in [0 .. m -> Nat] : g[0] = LeftSize(n) /\ \A i \in 1 .. m : g[i] = turn[i][g[i - 1]]
  <2>1. Iterated(Nat, LeftSize(n), turn, m)
    BY <1>1, <1>4, Iterates
  <2>. QED  BY <2>1 DEF Iterated
<1>6. g = Body(g)
  <2>1. ASSUME NEW i \in 0 .. m PROVE g[i] = Body(g)[i]
    <3>1. CASE i = 0
      BY <1>5, <3>1
    <3>2. CASE i # 0
      <4>1. i \in 1 .. m /\ i - 1 \in 0 .. m
        BY <1>1, <3>2
      <4>2. g[i - 1] \in Nat /\ g[i] = g[i - 1] + Size(i)
        BY <1>4, <1>5, <4>1
      <4>3. g[i] = g[i - 1] + SerializedSize(n.keys[i]) + RefSize
        BY <1>2, <4>1, <4>2 DEF Size, RefSize
      <4>. QED  BY <3>2, <4>3
    <3>. QED  BY <3>1, <3>2
  <2>. QED  BY <2>1
<1>7. tell = Body(tell)
  <2>. HIDE DEF Body
  <2>. QED  BY <1>6
<1>. HIDE DEF tell
<1>8. tell[0] = LeftSize(n) /\ \A i \in 1 .. m : tell[i] = tell[i - 1] + SerializedSize(n.keys[i]) + RefSize
  BY <1>1, <1>7
<1>. DEFINE T == {i \in 0 .. m : tell[i] \in Nat /\ tell[i] <= LeftSize(n) + i * size}
<1>9. 0 \in T
  BY <1>1, <1>8
<1>10. ASSUME NEW i \in 1 .. m, i - 1 \in T PROVE i \in T
  <2>1. tell[i - 1] \in Nat /\ tell[i - 1] <= LeftSize(n) + (i - 1) * size
    BY <1>10
  <2>2. tell[i] = tell[i - 1] + Size(i)
    BY <1>2, <1>8, <2>1 DEF Size, RefSize
  <2>3. (i - 1) * size + size = i * size /\ (i - 1) * size \in Nat /\ i * size \in Nat
    BY <1>1
  <2>4. tell[i] \in Nat /\ tell[i] <= LeftSize(n) + i * size
    <3>. DEFINE p == (i - 1) * size
                q == i * size
                a == tell[i - 1]
                b == Size(i)
                l == LeftSize(n)
    <3>1. /\ p + size = q /\ p \in Nat /\ q \in Nat /\ a \in Nat /\ l \in Nat /\ a <= l + p
          /\ b \in Nat /\ b <= size
      BY <1>1, <1>2, <2>1, <2>3
    <3>. HIDE DEF p, q, a, b, l
    <3>2. a + b \in Nat /\ a + b <= l + q
      BY <3>1
    <3>. QED  BY <2>2, <3>2 DEF q, a, b, l
  <2>. QED  BY <1>1, <2>4
<1>. HIDE DEF T
<1>11. 0 .. m \subseteq T
  BY <1>1, <1>9, <1>10, UpTo
<1>. QED  BY <1>1, <1>3, <1>11 DEF T, m

\* As many entries as computeCapacity says fit into the entry area.
LEMMA CapacityFits ==
    ASSUME NEW c \in Configs, NEW class \in {Leaf, Internal}, NEW n \in Nat,
           n <= ComputeCapacity(c, class)
    PROVE  (IF class = Internal THEN RefSize ELSE 0) + n * EntrySize(c) <= Area
<1>. DEFINE e == EntrySize(c)
            room == IF class = Internal THEN Area - RefSize ELSE Area
<1>1. Area \in Nat /\ e \in Nat /\ e > 20 /\ e <= Area /\ room \in Nat
  BY NodeAssumption, SizesAre DEF RefSize
<1>2. ComputeCapacity(c, class) = room \div e
  BY <1>1 DEF ComputeCapacity, Leaf, Internal, RefSize
<1>. HIDE DEF e, room
<1>3. room \div e \in Nat /\ (room \div e) * e <= room
  BY <1>1
<1>4. n * e <= (room \div e) * e
  BY <1>1, <1>2, <1>3
<1>5. n * e <= room
  BY <1>1, <1>3, <1>4
<1>. QED  BY <1>1, <1>5 DEF e, room, RefSize

-----------------------------------------------------------------------------
(***************************************************************************)
(* The inductive invariant.                                                *)
(***************************************************************************)

\* What reaches a page's header and body is zeros.
Zeros == Seq({Zero})

Pages == [nodeType : Nat, keyCount : Nat, dup : BOOLEAN, level : Nat, capacity : Nat,
          header : Zeros, body : Zeros]

Nodes == [class : {Leaf, Internal}, keys : Seq(Keys), refs : Seq(Int), level : Nat,
          parent : Int, config : Configs \cup {DefaultConfig}, page : Pages]

\* Any node: its vectors match, a leaf's keys are in order, and its page has its
\* level, a header that does not read and, unless it is one that cannot be used at
\* all, a count that covers its keys.
NodeSound(n) ==
    /\ n \in Nodes
    /\ Len(n.page.header) >= 1
    /\ Len(n.refs) = Fanout(n)
    /\ n.page.level = n.level
    /\ n.page.capacity > 0 => Len(n.keys) <= n.page.keyCount
    /\ n.class = Leaf => Sorted(n.keys, TRUE)

\* A node that was created: its page has its class, its capacity and its count, and
\* a leaf has equal keys only if it may.
MadeSound(n) ==
    /\ n.config \in Configs
    /\ n.page.nodeType = n.class
    /\ n.page.capacity = ComputeCapacity(n.config, n.class)
    /\ n.page.keyCount = Len(n.keys)
    /\ Len(n.keys) <= n.page.capacity
    /\ n.class = Leaf => Sorted(n.keys, n.page.dup)

\* The invariant.  That the searches are exact and that no call fails behind its
\* checks rests on what a node is; that validate() accepts a leaf needs the keys in
\* order, and that it notices a loss needs the count in the page.
IInv ==
    /\ NodeSound(node)
    /\ origin = "made" => MadeSound(node)
    /\ LossIsSeen

\* The cells of a page are zeros, as many as there are entries.
LEMMA AppendedEntries == ASSUME NEW n \in Nodes PROVE Appended(Entries(n)) \in Zeros
<1>. DEFINE first == IF n.class = Internal THEN 1 ELSE 0
            left == [i \in 1 .. first |-> [ref |-> n.refs[1]]]
            pairs == [i \in DOMAIN n.keys |-> [key |-> n.keys[i], ref |-> n.refs[first + i]]]
            S == {left[i] : i \in 1 .. first} \cup {pairs[i] : i \in DOMAIN n.keys}
<1>1. n.keys \in Seq(Keys) /\ Len(n.keys) \in Nat /\ DOMAIN n.keys = 1 .. Len(n.keys) /\ first \in Nat
  BY DEF Nodes
<1>2. Entries(n) = left \o pairs
  BY DEF Entries
<1>3. left \in [1 .. first -> S] /\ pairs \in [1 .. Len(n.keys) -> S]
  BY <1>1
<1>. HIDE DEF left, pairs, S, first
<1>4. left \in Seq(S) /\ pairs \in Seq(S)
  BY <1>1, <1>3
<1>5. left \o pairs \in Seq(S)
  BY <1>4
<1>. DEFINE e == left \o pairs
<1>6. e \in Seq(S)
  BY <1>5
<1>. HIDE DEF e
<1>7. Len(e) \in Nat /\ DOMAIN e = 1 .. Len(e)
  BY <1>6
<1>8. [i \in 1 .. Len(e) |-> Zero] \in Seq({Zero})
  BY <1>7
<1>. QED  BY <1>2, <1>7, <1>8 DEF Appended, Zeros, e

\* Writing the entries into a page.
LEMMA PageWritten ==
    ASSUME NEW z \in Pages, NEW body \in Zeros, NEW q, q = [z EXCEPT !.body = body]
    PROVE  /\ q \in Pages
           /\ q.nodeType = z.nodeType /\ q.dup = z.dup /\ q.capacity = z.capacity
           /\ q.keyCount = z.keyCount /\ q.level = z.level /\ q.header = z.header
BY DEF Pages

\* A node with another page.
LEMMA NodeWithPage ==
    ASSUME NEW n \in Nodes, NEW q \in Pages, NEW s, s = [n EXCEPT !.page = q]
    PROVE  /\ s \in Nodes
           /\ s.class = n.class /\ s.config = n.config /\ s.keys = n.keys
           /\ s.refs = n.refs /\ s.level = n.level /\ s.page = q
BY DEF Nodes

\* s is n with a synchronized page: only its count, its level, its header and, when
\* the entries fit, its body are changed.
SyncedFrom(s, n) ==
    /\ s \in Nodes
    /\ s.class = n.class /\ s.config = n.config
    /\ s.keys = n.keys /\ s.refs = n.refs /\ s.level = n.level
    /\ s.page.nodeType = n.page.nodeType /\ s.page.dup = n.page.dup
    /\ s.page.capacity = n.page.capacity
    /\ s.page.keyCount = Len(n.keys) /\ s.page.level = n.level
    /\ Len(s.page.header) >= 1

\* What syncEntries leaves of a node.
LEMMA SyncedIs == ASSUME NEW n \in Nodes PROVE SyncedFrom(Synced(n), n)
<1>. DEFINE header == Appended(<<Magic, n.parent, n.level, n.config>>)
            q == [n.page EXCEPT !.keyCount = Len(n.keys), !.level = n.level, !.header = header]
            body == Appended(Entries(n))
            counted == [n EXCEPT !.page = q]
            written == [n EXCEPT !.page = [q EXCEPT !.body = body]]
<1>1. n.page \in Pages /\ Len(n.keys) \in Nat /\ n.level \in Nat
  BY DEF Nodes
<1>2. header \in Zeros /\ Len(header) >= 1
  BY DEF Appended, Zeros
<1>3. body \in Zeros
  BY AppendedEntries
<1>4. Synced(n) = IF SyncFails(n) THEN counted ELSE written
  <2>. DEFINE c == [n EXCEPT !.page.keyCount = Len(n.keys), !.page.level = n.level,
                             !.page.header = header]
  <2>1. c = counted
    BY DEF Nodes
  <2>2. Synced(n) = IF SyncFails(n) THEN c ELSE [c EXCEPT !.page.body = body]
    BY DEF Synced
  <2>. HIDE DEF c, q, header, body
  <2>3. [counted EXCEPT !.page.body = body] = written
    BY DEF Nodes
  <2>. QED  BY <2>1, <2>2, <2>3
<1>. HIDE DEF header, body
<1>5. /\ q \in Pages
      /\ q.nodeType = n.page.nodeType /\ q.dup = n.page.dup /\ q.capacity = n.page.capacity
      /\ q.keyCount = Len(n.keys) /\ q.level = n.level /\ q.header = header
  BY <1>1, <1>2 DEF Pages
<1>. HIDE DEF q
<1>6. SyncedFrom(counted, n)
  <2>1. counted = [n EXCEPT !.page = q]
    OBVIOUS
  <2>. HIDE DEF counted
  <2>. QED  BY <1>2, <1>5, <2>1, NodeWithPage DEF SyncedFrom
<1>7. SyncedFrom(written, n)
  <2>. DEFINE r == [q EXCEPT !.body = body]
  <2>1. /\ r \in Pages
        /\ r.nodeType = n.page.nodeType /\ r.dup = n.page.dup /\ r.capacity = n.page.capacity
        /\ r.keyCount = Len(n.keys) /\ r.level = n.level /\ r.header = header
    <3>1. r = [q EXCEPT !.body = body]
      OBVIOUS
    <3>. HIDE DEF r
    <3>. QED  BY <1>3, <1>5, <3>1, PageWritten
  <2>2. written = [n EXCEPT !.page = r]
    OBVIOUS
  <2>. HIDE DEF r, written
  <2>. QED  BY <1>2, <2>1, <2>2, NodeWithPage DEF SyncedFrom
<1>. QED  BY <1>4, <1>6, <1>7

\* What a node must be like when a call has changed its vectors, for syncEntries to
\* leave it sound.
Ready(n) ==
    /\ n \in Nodes
    /\ Len(n.refs) = Fanout(n)
    /\ n.class = Leaf => Sorted(n.keys, TRUE)
    /\ origin = "made" =>
          /\ n.config \in Configs
          /\ n.page.nodeType = n.class
          /\ n.page.capacity = ComputeCapacity(n.config, n.class)
          /\ Len(n.keys) <= n.page.capacity
          /\ n.class = Leaf => Sorted(n.keys, n.page.dup)

\* A step that is a call whose checks let only such changes pass.
SoundCall ==
    \E accepted \in BOOLEAN : \E changed : Call(accepted, changed) /\ (accepted => Ready(changed))

\* Such a call preserves the invariant.
LEMMA CallIInv == ASSUME IInv, SoundCall PROVE IInv'
<1>. PICK accepted \in BOOLEAN : \E changed : Call(accepted, changed) /\ (accepted => Ready(changed))
  BY DEF SoundCall
<1>. PICK changed : Call(accepted, changed) /\ (accepted => Ready(changed))
  OBVIOUS
<1>1. CASE ~ accepted
  <2>1. node' = node /\ origin' = origin /\ before' = before
    BY <1>1 DEF Call
  <2>. QED  BY <2>1 DEF IInv, LossIsSeen
<1>2. CASE accepted
  <2>1. node' = Synced(changed) /\ Touch
    BY <1>2 DEF Call
  <2>2. origin' # "loaded" /\ (origin' = "made" => origin = "made")
    BY <2>1 DEF Touch
  <2>. DEFINE s == Synced(changed)
  <2>3. Ready(changed)
    BY <1>2
  <2>4. SyncedFrom(s, changed)
    BY <2>3, SyncedIs DEF Ready
  <2>. HIDE DEF s
  <2>5. Len(s.keys) \in Nat
    BY <2>4 DEF SyncedFrom, Nodes
  <2>6. NodeSound(s)
    <3>1. s.class = Leaf => Sorted(s.keys, TRUE)
      BY <2>3, <2>4, Zenon DEF Ready, SyncedFrom
    <3>2. Len(s.refs) = Fanout(s) /\ Len(s.keys) <= s.page.keyCount
      BY <2>3, <2>4, <2>5 DEF Ready, Fanout, SyncedFrom
    <3>. QED  BY <2>4, <3>1, <3>2 DEF NodeSound, SyncedFrom
  <2>7. origin = "made" => MadeSound(s)
    BY <2>3, <2>4, <2>5 DEF Ready, MadeSound, SyncedFrom
  <2>8. node' = s
    BY <2>1 DEF s
  <2>. QED  BY <2>2, <2>6, <2>7, <2>8 DEF IInv, LossIsSeen
<1>. QED  BY <1>1, <1>2

\* Entries that may replace those of the node.
LEMMA EntriesReady ==
    ASSUME IInv, NEW keys \in Seq(Keys), NEW refs \in Seq(Int),
           Len(refs) = IF node.class = Internal THEN Len(keys) + 1 ELSE Len(keys),
           origin = "made" => Len(keys) <= node.page.capacity,
           node.class = Leaf => Sorted(keys, TRUE),
           origin = "made" /\ node.class = Leaf => Sorted(keys, node.page.dup)
    PROVE  Ready([node EXCEPT !.keys = keys, !.refs = refs])
<1>. DEFINE s == [node EXCEPT !.keys = keys, !.refs = refs]
<1>1. node \in Nodes
  BY DEF IInv, NodeSound
<1>2. /\ s \in Nodes
      /\ s.class = node.class /\ s.config = node.config /\ s.level = node.level
      /\ s.page = node.page /\ s.keys = keys /\ s.refs = refs
  BY <1>1 DEF Nodes
<1>. HIDE DEF s
<1>3. Ready(s)
  BY <1>2 DEF Ready, Fanout, IInv, MadeSound
<1>. QED  BY <1>3 DEF s

\* An insertion at a position keeps keys in order if it is the place for the key.
LEMMA InsertedSorted ==
    ASSUME NEW keys \in Seq(Keys), NEW key \in Keys, NEW dup \in BOOLEAN, Sorted(keys, dup),
           NEW pos \in 0 .. Len(keys),
           pos > 0 => InOrder(keys[pos], key, dup),
           pos < Len(keys) => InOrder(key, keys[pos + 1], dup)
    PROVE  Sorted(Inserted(keys, pos, key), dup)
<1>. DEFINE s == Inserted(keys, pos, key)
<1>1. s \in Seq(Keys) /\ Len(s) = Len(keys) + 1
  BY InsertedIs
<1>2. \A i \in 2 .. Len(keys) : InOrder(keys[i - 1], keys[i], dup)
  BY SortedIs
<1>3. ASSUME NEW i \in 1 .. Len(keys) + 1
      PROVE  s[i] = IF i <= pos THEN keys[i] ELSE IF i = pos + 1 THEN key ELSE keys[i - 1]
  BY DEF Inserted
<1>. HIDE DEF s
<1>4. ASSUME NEW i \in 2 .. Len(keys) + 1 PROVE InOrder(s[i - 1], s[i], dup)
  <2>1. i \in 1 .. Len(keys) + 1 /\ i - 1 \in 1 .. Len(keys) + 1
    OBVIOUS
  <2>2. CASE i <= pos
    <3>1. s[i - 1] = keys[i - 1] /\ s[i] = keys[i] /\ i \in 2 .. Len(keys)
      BY <1>3, <2>1, <2>2
    <3>. QED  BY <1>2, <3>1
  <2>3. CASE i = pos + 1
    <3>1. s[i - 1] = keys[pos] /\ s[i] = key /\ pos > 0
      BY <1>3, <2>1, <2>3
    <3>. QED  BY <3>1
  <2>4. CASE i = pos + 2
    <3>1. s[i - 1] = key /\ s[i] = keys[pos + 1] /\ pos < Len(keys)
      BY <1>3, <2>1, <2>4
    <3>. QED  BY <3>1
  <2>5. CASE i > pos + 2
    <3>1. s[i - 1] = keys[i - 1 - 1] /\ s[i] = keys[i - 1] /\ i - 1 \in 2 .. Len(keys)
      BY <1>3, <2>1, <2>5
    <3>. QED  BY <1>2, <3>1
  <2>. QED  BY <2>2, <2>3, <2>4, <2>5
<1>5. Sorted(s, dup)
  BY <1>1, <1>4, SortedIs
<1>. QED  BY <1>5 DEF s

\* Taking a key out keeps the others in order.
LEMMA ErasedSorted ==
    ASSUME NEW keys \in Seq(Keys), NEW dup \in BOOLEAN, Sorted(keys, dup),
           NEW pos \in 0 .. Len(keys) - 1
    PROVE  Sorted(Erased(keys, pos), dup)
<1>. DEFINE s == Erased(keys, pos)
<1>1. s \in Seq(Keys) /\ Len(s) = Len(keys) - 1 /\ Len(keys) \in Nat
  BY ErasedIs
<1>2. ASSUME NEW i \in 1 .. Len(keys) - 1
      PROVE  s[i] = IF i <= pos THEN keys[i] ELSE keys[i + 1]
  BY DEF Erased
<1>. HIDE DEF s
<1>3. ASSUME NEW i \in 2 .. Len(keys) - 1 PROVE InOrder(s[i - 1], s[i], dup)
  <2>1. i \in 1 .. Len(keys) - 1 /\ i - 1 \in 1 .. Len(keys) - 1
    BY <1>1
  <2>. DEFINE a == IF i - 1 <= pos THEN i - 1 ELSE i
              b == IF i <= pos THEN i ELSE i + 1
  <2>2. s[i - 1] = keys[a] /\ s[i] = keys[b]
    BY <1>2, <2>1
  <2>3. a \in 1 .. Len(keys) /\ b \in 1 .. Len(keys) /\ a < b
    BY <1>1, <2>1
  <2>. HIDE DEF a, b
  <2>4. InOrder(keys[a], keys[b], dup)
    BY <2>3, SortedAll
  <2>. QED  BY <2>2, <2>4
<1>4. Sorted(s, dup)
  BY <1>1, <1>3, SortedIs
<1>. QED  BY <1>4 DEF s

-----------------------------------------------------------------------------
(***************************************************************************)
(* Every action is such a call, or changes no entries and cannot fail.     *)
(***************************************************************************)

\* What the invariant says of the node's fields.
LEMMA NodeFields ==
    ASSUME IInv
    PROVE  /\ node \in Nodes /\ node.keys \in Seq(Keys) /\ node.refs \in Seq(Int)
           /\ Len(node.keys) \in Nat
           /\ Len(node.refs) = IF node.class = Internal THEN Len(node.keys) + 1 ELSE Len(node.keys)
           /\ node.class \in {Leaf, Internal}
           /\ node.page \in Pages /\ node.page.dup \in BOOLEAN
           /\ node.page.keyCount \in Nat /\ node.page.capacity \in Nat
           /\ node.class = Leaf => Sorted(node.keys, TRUE)
<1>1. node \in Nodes /\ Len(node.refs) = Fanout(node) /\ (node.class = Leaf => Sorted(node.keys, TRUE))
  BY DEF IInv, NodeSound
<1>2. /\ node.keys \in Seq(Keys) /\ node.refs \in Seq(Int) /\ node.class \in {Leaf, Internal}
      /\ node.page \in Pages
  BY <1>1 DEF Nodes
<1>3. node.page.dup \in BOOLEAN /\ node.page.keyCount \in Nat /\ node.page.capacity \in Nat
  BY <1>2 DEF Pages
<1>4. Len(node.keys) \in Nat
  BY <1>2
<1>. QED  BY <1>1, <1>2, <1>3, <1>4 DEF Fanout

\* LeafNode::insert: the lower bound is the place for the key.
LEMMA LeafInsertCalls ==
    ASSUME IInv, NEW key \in Keys, NEW ref \in Int, LeafInsert(key, ref)
    PROVE  SoundCall
<1>. DEFINE pos == LowerBound(node.keys, key)
            duplicate == pos < Len(node.keys) /\ KeyEqual(node.keys[pos + 1], key)
            accepted == ref # InvalidRef /\ ~Full(node) /\ (node.page.dup \/ ~duplicate)
            changed == IF accepted THEN Put(node, pos, key, ref) ELSE node
<1>1. node.class = Leaf /\ Call(accepted, changed)
  BY DEF LeafInsert
<1>2. /\ node.keys \in Seq(Keys) /\ node.refs \in Seq(Int) /\ Len(node.keys) \in Nat
      /\ Len(node.refs) = Len(node.keys) /\ node.page.dup \in BOOLEAN
      /\ node.page.keyCount \in Nat /\ node.page.capacity \in Nat /\ Sorted(node.keys, TRUE)
  <2>1. node.class # Internal
    BY <1>1 DEF Leaf, Internal
  <2>. QED  BY <1>1, <2>1, NodeFields
<1>3. pos \in 0 .. Len(node.keys) /\ Less(node.keys, key) = 1 .. pos
  BY <1>2, LowerBoundIs
<1>. HIDE DEF pos
<1>4. ASSUME accepted PROVE Ready(changed)
  <2>. DEFINE keys == Inserted(node.keys, pos, key)
              refs == Inserted(node.refs, pos, ref)
  <2>1. changed = [node EXCEPT !.keys = keys, !.refs = refs]
    BY <1>1, <1>4 DEF Put, Leaf, Internal
  <2>2. keys \in Seq(Keys) /\ Len(keys) = Len(node.keys) + 1
    BY <1>2, <1>3, InsertedIs
  <2>3. refs \in Seq(Int) /\ Len(refs) = Len(node.refs) + 1
    <3>1. node.refs \in Seq(Int) /\ pos \in 0 .. Len(node.refs)
      BY <1>2, <1>3
    <3>. QED  BY <3>1, InsertedIs
  <2>4. ASSUME NEW dup \in BOOLEAN, dup \/ ~ duplicate PROVE
             /\ pos > 0 => InOrder(node.keys[pos], key, dup)
             /\ pos < Len(node.keys) => InOrder(key, node.keys[pos + 1], dup)
    <3>1. ASSUME pos > 0 PROVE KeyLess(node.keys[pos], key)
      <4>1. pos \in Less(node.keys, key)
        BY <1>3, <3>1
      <4>. QED  BY <4>1 DEF Less
    <3>2. ASSUME pos < Len(node.keys) PROVE InOrder(key, node.keys[pos + 1], dup)
      <4>1. pos + 1 \in 1 .. Len(node.keys) /\ pos + 1 \notin Less(node.keys, key)
        BY <1>3, <3>2
      <4>2. node.keys[pos + 1] \in Keys /\ ~ KeyLess(node.keys[pos + 1], key)
        BY <1>2, <4>1, ElementIs DEF Less
      <4>3. KeyLess(key, node.keys[pos + 1]) \/ key = node.keys[pos + 1]
        BY <4>2, KeyOrder
      <4>4. key = node.keys[pos + 1] => dup
        BY <2>4, <3>2, <4>2, KeyEqualIs
      <4>. QED  BY <4>3, <4>4 DEF InOrder
    <3>. QED  BY <3>1, <3>2 DEF InOrder
  <2>5. Sorted(keys, TRUE)
    <3>1. /\ pos > 0 => InOrder(node.keys[pos], key, TRUE)
          /\ pos < Len(node.keys) => InOrder(key, node.keys[pos + 1], TRUE)
      BY <2>4
    <3>. QED  BY <1>2, <1>3, <3>1, InsertedSorted
  <2>6. ASSUME origin = "made" PROVE Len(keys) <= node.page.capacity /\ Sorted(keys, node.page.dup)
    <3>1. node.page.keyCount = Len(node.keys) /\ Sorted(node.keys, node.page.dup)
      BY <1>1, <2>6 DEF IInv, MadeSound
    <3>2. /\ pos > 0 => InOrder(node.keys[pos], key, node.page.dup)
          /\ pos < Len(node.keys) => InOrder(key, node.keys[pos + 1], node.page.dup)
      BY <1>2, <1>4, <2>4
    <3>3. Sorted(keys, node.page.dup)
      BY <1>2, <1>3, <3>1, <3>2, InsertedSorted
    <3>4. Len(keys) <= node.page.capacity
      BY <1>2, <1>4, <2>2, <3>1 DEF Full
    <3>. QED  BY <3>3, <3>4
  <2>7. Len(refs) = IF node.class = Internal THEN Len(keys) + 1 ELSE Len(keys)
    BY <1>1, <1>2, <2>2, <2>3 DEF Leaf, Internal
  <2>. HIDE DEF keys, refs, changed, accepted
  <2>. QED  BY <2>1, <2>2, <2>3, <2>5, <2>6, <2>7, EntriesReady
<1>5. accepted \in BOOLEAN
  OBVIOUS
<1>. HIDE DEF accepted, changed
<1>. QED  BY <1>1, <1>4, <1>5 DEF SoundCall

\* InternalNode::insert.
LEMMA InternalInsertCalls ==
    ASSUME IInv, NEW index \in Nat, NEW key \in Keys, NEW ref \in Int,
           InternalInsert(index, key, ref)
    PROVE  SoundCall
<1>. DEFINE duplicate == \E i \in DOMAIN node.keys : KeyEqual(node.keys[i], key)
            accepted == /\ ref # InvalidRef /\ index <= Len(node.keys)
                        /\ Len(node.keys) < node.page.capacity
                        /\ node.page.dup \/ ~duplicate
            changed == IF accepted THEN Put(node, index, key, ref) ELSE node
<1>1. node.class = Internal /\ Call(accepted, changed)
  BY DEF InternalInsert
<1>2. /\ node.keys \in Seq(Keys) /\ node.refs \in Seq(Int) /\ Len(node.keys) \in Nat
      /\ Len(node.refs) = Len(node.keys) + 1 /\ node.page.capacity \in Nat
  BY <1>1, NodeFields
<1>3. ASSUME accepted PROVE Ready(changed)
  <2>. DEFINE keys == Inserted(node.keys, index, key)
              refs == Inserted(node.refs, index + 1, ref)
  <2>1. changed = [node EXCEPT !.keys = keys, !.refs = refs]
    BY <1>1, <1>3 DEF Put
  <2>2. index \in 0 .. Len(node.keys) /\ index + 1 \in 0 .. Len(node.refs)
    BY <1>2, <1>3
  <2>3. keys \in Seq(Keys) /\ Len(keys) = Len(node.keys) + 1
    <3>1. node.keys \in Seq(Keys) /\ index \in 0 .. Len(node.keys)
      BY <1>2, <2>2
    <3>. QED  BY <3>1, InsertedIs
  <2>4. refs \in Seq(Int) /\ Len(refs) = Len(node.refs) + 1
    <3>1. node.refs \in Seq(Int) /\ index + 1 \in 0 .. Len(node.refs)
      BY <1>2, <2>2
    <3>. QED  BY <3>1, InsertedIs
  <2>5. Len(keys) <= node.page.capacity
    BY <1>2, <1>3, <2>3
  <2>6. Len(refs) = IF node.class = Internal THEN Len(keys) + 1 ELSE Len(keys)
    BY <1>1, <1>2, <2>3, <2>4
  <2>7. node.class # Leaf
    BY <1>1 DEF Leaf, Internal
  <2>. HIDE DEF keys, refs, changed, accepted
  <2>. QED  BY <2>1, <2>3, <2>4, <2>5, <2>6, <2>7, EntriesReady
<1>4. accepted \in BOOLEAN
  OBVIOUS
<1>. HIDE DEF accepted, changed
<1>. QED  BY <1>1, <1>3, <1>4 DEF SoundCall

\* eraseAt of both kinds of node.
LEMMA EraseAtCalls == ASSUME IInv, NEW index \in Nat, EraseAt(index) PROVE SoundCall
<1>. DEFINE accepted == index < Len(node.keys)
            changed == IF accepted THEN Dropped(node, index) ELSE node
<1>1. Call(accepted, changed)
  BY DEF EraseAt
<1>2. /\ node.keys \in Seq(Keys) /\ node.refs \in Seq(Int) /\ Len(node.keys) \in Nat
      /\ Len(node.refs) = IF node.class = Internal THEN Len(node.keys) + 1 ELSE Len(node.keys)
      /\ node.page.capacity \in Nat /\ node.page.dup \in BOOLEAN
      /\ node.class = Leaf => Sorted(node.keys, TRUE)
  BY NodeFields
<1>3. ASSUME accepted PROVE Ready(changed)
  <2>. DEFINE at == IF node.class = Internal THEN index + 1 ELSE index
              keys == Erased(node.keys, index)
              refs == Erased(node.refs, at)
  <2>1. changed = [node EXCEPT !.keys = keys, !.refs = refs]
    BY <1>3 DEF Dropped
  <2>2. index \in 0 .. Len(node.keys) - 1 /\ at \in 0 .. Len(node.refs) - 1
    BY <1>2, <1>3
  <2>. HIDE DEF at
  <2>3. keys \in Seq(Keys) /\ Len(keys) = Len(node.keys) - 1
    BY <1>2, <2>2, ErasedIs
  <2>4. refs \in Seq(Int) /\ Len(refs) = Len(node.refs) - 1
    BY <1>2, <2>2, ErasedIs
  <2>5. node.class = Leaf => Sorted(keys, TRUE)
    BY <1>2, <2>2, ErasedSorted
  <2>6. ASSUME origin = "made"
        PROVE  Len(keys) <= node.page.capacity /\ (node.class = Leaf => Sorted(keys, node.page.dup))
    <3>1. /\ Len(node.keys) <= node.page.capacity
          /\ node.class = Leaf => Sorted(node.keys, node.page.dup)
      BY <2>6 DEF IInv, MadeSound
    <3>. QED  BY <1>2, <2>2, <2>3, <3>1, ErasedSorted
  <2>7. Len(refs) = IF node.class = Internal THEN Len(keys) + 1 ELSE Len(keys)
    BY <1>2, <2>3, <2>4
  <2>. HIDE DEF keys, refs, changed, accepted
  <2>. QED  BY <2>1, <2>3, <2>4, <2>5, <2>6, <2>7, EntriesReady
<1>4. accepted \in BOOLEAN
  OBVIOUS
<1>. HIDE DEF accepted, changed
<1>. QED  BY <1>1, <1>3, <1>4 DEF SoundCall

\* LeafNode::erase: a key that is not there has the size for its index.
LEMMA LeafEraseCalls == ASSUME IInv, NEW key \in Keys, LeafErase(key) PROVE SoundCall
<1>1. node.class = Leaf /\ EraseAt(Find(node.keys, key))
  BY DEF LeafErase
<1>2. node.keys \in Seq(Keys) /\ Sorted(node.keys, TRUE) /\ Len(node.keys) \in Nat
  BY <1>1, NodeFields
<1>. DEFINE pos == LowerBound(node.keys, key)
<1>3. pos \in 0 .. Len(node.keys)
  BY <1>2, LowerBoundIs
<1>. HIDE DEF pos
<1>4. Find(node.keys, key) = pos \/ Find(node.keys, key) = Len(node.keys)
  BY DEF Find, pos
<1>5. Find(node.keys, key) \in Nat
  BY <1>2, <1>3, <1>4
<1>. QED  BY <1>1, <1>5, EraseAtCalls

\* InternalNode::setKeyAt.
LEMMA SetKeyAtCalls ==
    ASSUME IInv, NEW index \in Nat, NEW key \in Keys, SetKeyAt(index, key)
    PROVE  SoundCall
<1>. DEFINE accepted == index < Len(node.keys)
            changed == IF accepted THEN [node EXCEPT !.keys[index + 1] = key] ELSE node
<1>1. node.class = Internal /\ Call(accepted, changed)
  BY DEF SetKeyAt
<1>2. /\ node \in Nodes /\ node.keys \in Seq(Keys) /\ node.refs \in Seq(Int)
      /\ Len(node.keys) \in Nat /\ Len(node.refs) = Len(node.keys) + 1
  BY <1>1, NodeFields
<1>3. ASSUME accepted PROVE Ready(changed)
  <2>. DEFINE keys == [node.keys EXCEPT ![index + 1] = key]
  <2>1. changed = [node EXCEPT !.keys = keys, !.refs = node.refs]
    BY <1>2, <1>3 DEF Nodes
  <2>2. keys \in Seq(Keys) /\ Len(keys) = Len(node.keys)
    BY <1>2, <1>3
  <2>3. Len(node.refs) = IF node.class = Internal THEN Len(keys) + 1 ELSE Len(keys)
    BY <1>1, <1>2, <2>2
  <2>4. node.class # Leaf
    BY <1>1 DEF Leaf, Internal
  <2>5. origin = "made" => Len(keys) <= node.page.capacity
    BY <2>2 DEF IInv, MadeSound
  <2>. HIDE DEF keys, changed, accepted
  <2>. QED  BY <1>2, <2>1, <2>2, <2>3, <2>4, <2>5, EntriesReady
<1>4. accepted \in BOOLEAN
  OBVIOUS
<1>. HIDE DEF accepted, changed
<1>. QED  BY <1>1, <1>3, <1>4 DEF SoundCall

\* assignEntries of both kinds of node.
LEMMA AssignEntriesCalls ==
    ASSUME IInv, NEW keys \in Seq(Keys), NEW refs \in Seq(Int), Sorted(keys, node.page.dup),
           AssignEntries(keys, refs)
    PROVE  SoundCall
<1>. DEFINE changed == [node EXCEPT !.keys = keys, !.refs = refs]
            accepted == Len(refs) = Fanout(changed) /\ Len(keys) <= node.page.capacity
<1>1. Call(accepted, changed)
  BY DEF AssignEntries
<1>2. node \in Nodes /\ node.page.dup \in BOOLEAN
  BY NodeFields
<1>3. Sorted(keys, TRUE)
  BY <1>2, SortedIs DEF InOrder
<1>4. changed.class = node.class /\ changed.keys = keys
  BY <1>2 DEF Nodes
<1>. HIDE DEF changed
<1>5. ASSUME accepted PROVE Ready(changed)
  <2>1. Len(refs) = IF node.class = Internal THEN Len(keys) + 1 ELSE Len(keys)
    BY <1>4, <1>5 DEF Fanout
  <2>2. Ready([node EXCEPT !.keys = keys, !.refs = refs])
    BY <1>3, <1>5, <2>1, EntriesReady
  <2>. QED  BY <2>2 DEF changed
<1>6. accepted \in BOOLEAN
  OBVIOUS
<1>. HIDE DEF accepted
<1>. QED  BY <1>1, <1>5, <1>6 DEF SoundCall

\* setParent.
LEMMA SetParentIInv == ASSUME IInv, NEW ref \in Int, SetParent(ref) PROVE IInv'
<1>. DEFINE s == [node EXCEPT !.parent = ref]
<1>1. node' = s /\ origin' # "loaded" /\ (origin' = "made" => origin = "made")
  BY DEF SetParent, Touch
<1>2. node \in Nodes
  BY NodeFields
<1>3. /\ s \in Nodes
      /\ s.class = node.class /\ s.config = node.config /\ s.level = node.level
      /\ s.page = node.page /\ s.keys = node.keys /\ s.refs = node.refs
  BY <1>2 DEF Nodes
<1>. HIDE DEF s
<1>4. NodeSound(s)
  BY <1>3 DEF IInv, NodeSound, Fanout
<1>5. origin = "made" => MadeSound(s)
  BY <1>3 DEF IInv, MadeSound
<1>. QED  BY <1>1, <1>4, <1>5 DEF IInv, LossIsSeen

\* setLevel.
LEMMA SetLevelIInv == ASSUME IInv, NEW level \in Nat, SetLevel(level) PROVE IInv'
<1>. DEFINE q == [node.page EXCEPT !.level = level]
            s == [node EXCEPT !.level = level, !.page = q]
<1>1. node \in Nodes /\ node.page \in Pages
  BY NodeFields
<1>2. node' = s
  BY <1>1 DEF SetLevel, Nodes
<1>3. origin' # "loaded" /\ (origin' = "made" => origin = "made")
  BY DEF SetLevel, Touch
<1>4. /\ q \in Pages /\ q.level = level
      /\ q.nodeType = node.page.nodeType /\ q.dup = node.page.dup
      /\ q.capacity = node.page.capacity /\ q.keyCount = node.page.keyCount
      /\ q.header = node.page.header
  BY <1>1 DEF Pages
<1>. HIDE DEF q
<1>5. /\ s \in Nodes
      /\ s.class = node.class /\ s.config = node.config /\ s.level = level
      /\ s.page = q /\ s.keys = node.keys /\ s.refs = node.refs
  BY <1>1, <1>4 DEF Nodes
<1>. HIDE DEF s
<1>6. NodeSound(s)
  BY <1>4, <1>5 DEF IInv, NodeSound, Fanout
<1>7. origin = "made" => MadeSound(s)
  BY <1>4, <1>5 DEF IInv, MadeSound
<1>. QED  BY <1>2, <1>3, <1>6, <1>7 DEF IInv, LossIsSeen

\* s is a node that was made from a page: no key was read.
LoadedFrom(s, class, page) ==
    /\ s \in Nodes
    /\ s.class = class /\ s.page = page /\ s.level = page.level
    /\ s.keys = <<>> /\ Len(s.refs) = IF class = Internal THEN 1 ELSE 0

\* What fromPage makes: the header does not read, so that the level is the one of the
\* layout, and the first cell with a key ends the loading.
LEMMA FromPageIs ==
    ASSUME NEW class \in {Leaf, Internal}, NEW page \in Pages, Len(page.header) >= 1
    PROVE  LoadedFrom(FromPage(class, page), class, page)
<1>. DEFINE s == FromPage(class, page)
            skip == IF class = Internal THEN 1 ELSE 0
            pairs == LoadedPairs(page, skip)
            left == [i \in 1 .. skip |-> Cell(page.body, 1).ref]
            head == LoadedHeader(page)
            keys == [i \in DOMAIN pairs |-> pairs[i].key]
            refs == left \o [i \in DOMAIN pairs |-> pairs[i].ref]
<1>1. /\ page.keyCount \in Nat /\ page.level \in Nat
      /\ page.header \in Seq({Zero}) /\ page.body \in Seq({Zero})
  BY DEF Pages, Zeros
<1>2. ASSUME NEW i \in Int PROVE Cell(page.body, i) = Zero
  BY <1>1 DEF Cell
<1>3. head = [parent |-> InvalidRef, level |-> page.level, config |-> DefaultConfig]
  <2>1. page.header[1] = Zero
    BY <1>1
  <2>. QED  BY <2>1 DEF LoadedHeader
<1>4. pairs = <<>>
  <2>. DEFINE Reads(n) == \A i \in 1 .. n : KeyReads(Cell(page.body, skip + i))
              P(m) == Reads(m) /\ (m < page.keyCount => ~Reads(m + 1))
              n == CHOOSE m \in 0 .. page.keyCount : P(m)
  <2>1. ~ KeyReads(Zero)
    BY DEF KeyReads, Zero
  <2>2. ASSUME NEW m \in 1 .. page.keyCount + 1 PROVE ~ Reads(m)
    <3>1. 1 \in 1 .. m /\ skip + 1 \in Int
      BY <1>1, <2>2
    <3>. QED  BY <1>2, <2>1, <3>1
  <2>3. Reads(0)
    OBVIOUS
  <2>. HIDE DEF Reads
  <2>4. P(0)
    BY <1>1, <2>2, <2>3
  <2>5. n \in 0 .. page.keyCount /\ P(n)
    BY <1>1, <2>4
  <2>6. n = 0
    BY <1>1, <2>2, <2>5
  <2>7. pairs = [i \in 1 .. n |-> Cell(page.body, skip + i)]
    BY DEF LoadedPairs, Reads
  <2>. HIDE DEF n
  <2>. QED  BY <2>6, <2>7
<1>5. keys = <<>> /\ [i \in DOMAIN pairs |-> pairs[i].ref] = <<>>
  BY <1>4
<1>6. left \in Seq(Int) /\ Len(left) = skip
  <2>1. Cell(page.body, 1).ref = 0
    BY <1>2 DEF Zero, ZeroRef
  <2>2. left = [i \in 1 .. skip |-> 0]
    BY <2>1
  <2>. QED  BY <2>2
<1>. DEFINE tail == [i \in DOMAIN pairs |-> pairs[i].ref]
<1>7. refs = left
  <2>1. tail = <<>> /\ refs = left \o tail
    BY <1>5
  <2>. HIDE DEF left, tail, refs
  <2>. QED  BY <1>6, <2>1
<1>8. s = [class |-> class, page |-> page, level |-> head.level, parent |-> head.parent,
           config |-> head.config, keys |-> keys, refs |-> refs]
  BY DEF FromPage
<1>. HIDE DEF keys, refs, head, left, pairs, s
<1>9. LoadedFrom(s, class, page)
  BY <1>1, <1>3, <1>5, <1>6, <1>7, <1>8 DEF LoadedFrom, Nodes, InvalidRef
<1>. QED  BY <1>9 DEF s

\* fromPage on the node's page.
LEMMA ReloadIInv == ASSUME IInv, Reload PROVE IInv'
<1>. DEFINE s == FromPage(node.class, node.page)
<1>1. /\ node' = s /\ origin' = "loaded"
      /\ before' = [keys |-> node.keys, refs |-> node.refs, level |-> node.level]
  BY DEF Reload
<1>2. /\ node.class \in {Leaf, Internal} /\ node.page \in Pages /\ Len(node.keys) \in Nat
      /\ node.keys \in Seq(Keys) /\ node.refs \in Seq(Int)
      /\ Len(node.refs) = IF node.class = Internal THEN Len(node.keys) + 1 ELSE Len(node.keys)
      /\ node.page.keyCount \in Nat /\ node.page.capacity \in Nat
  BY NodeFields
<1>3. /\ Len(node.page.header) >= 1 /\ node.page.level = node.level
      /\ node.page.capacity > 0 => Len(node.keys) <= node.page.keyCount
  BY DEF IInv, NodeSound
<1>4. /\ s \in Nodes
      /\ s.class = node.class /\ s.page = node.page /\ s.level = node.page.level
      /\ s.keys = <<>> /\ Len(s.refs) = IF node.class = Internal THEN 1 ELSE 0
  <2>1. LoadedFrom(s, node.class, node.page)
    BY <1>2, <1>3, FromPageIs
  <2>. HIDE DEF s
  <2>. QED  BY <2>1 DEF LoadedFrom
<1>. HIDE DEF s
<1>5. Sorted(s.keys, TRUE)
  BY <1>4 DEF Sorted
<1>6. NodeSound(s)
  <2>1. Len(s.refs) = Fanout(s) /\ Len(s.keys) = 0
    BY <1>4 DEF Fanout
  <2>2. Len(s.page.header) >= 1 /\ s.page.level = s.level /\ Len(s.keys) <= s.page.keyCount
    BY <1>2, <1>3, <1>4, <2>1
  <2>. QED  BY <1>4, <1>5, <2>1, <2>2, Zenon DEF NodeSound
<1>7. ASSUME Validates(s), s.class = Leaf \/ s.keys # <<>>
      PROVE  s.keys = node.keys /\ s.refs = node.refs /\ s.level = node.level
  <2>1. node.class = Leaf /\ node.page.capacity > 0 /\ node.page.keyCount = 0
    BY <1>4, <1>7 DEF Validates, LayoutValid
  <2>2. Len(node.keys) = 0 /\ Len(node.refs) = 0 /\ Len(s.refs) = 0
    BY <1>2, <1>3, <1>4, <2>1 DEF Leaf, Internal
  <2>3. s.refs \in Seq(Int)
    BY <1>4 DEF Nodes
  <2>4. node.keys = <<>> /\ node.refs = <<>> /\ s.refs = <<>>
    BY <1>2, <2>2, <2>3
  <2>. QED  BY <1>3, <1>4, <2>4
<1>. QED  BY <1>1, <1>6, <1>7 DEF IInv, LossIsSeen

\* serialize and deserialize: the page of zeros has no capacity, and is refused.
LEMMA SerializeDeserializeIInv == ASSUME IInv, SerializeDeserialize PROVE IInv'
<1>. DEFINE s == [node EXCEPT !.page = ZeroPage, !.level = 0, !.parent = InvalidRef]
<1>1. /\ node \in Nodes
      /\ Len(node.refs) = IF node.class = Internal THEN Len(node.keys) + 1 ELSE Len(node.keys)
      /\ node.class = Leaf => Sorted(node.keys, TRUE)
  BY NodeFields
<1>2. LoadedHeader(ZeroPage) = [parent |-> InvalidRef, level |-> 0, config |-> DefaultConfig]
  BY DEF LoadedHeader, ZeroPage
<1>3. node' = s /\ origin' = "loaded"
  BY <1>2 DEF SerializeDeserialize
<1>4. /\ ZeroPage \in Pages /\ Len(ZeroPage.header) >= 1 /\ ZeroPage.level = 0
      /\ ~ (ZeroPage.capacity > 0)
  BY DEF ZeroPage, Pages, Zeros
<1>5. /\ s \in Nodes
      /\ s.class = node.class /\ s.level = 0 /\ s.page = ZeroPage
      /\ s.keys = node.keys /\ s.refs = node.refs
  <2>1. InvalidRef \in Int
    BY DEF InvalidRef
  <2>. QED  BY <1>1, <1>4, <2>1 DEF Nodes
<1>. HIDE DEF s
<1>6. NodeSound(s)
  <2>1. Len(s.refs) = Fanout(s)
    BY <1>1, <1>5 DEF Fanout
  <2>2. s.class = Leaf => Sorted(s.keys, TRUE)
    BY <1>1, <1>5, Zenon
  <2>3. Len(s.page.header) >= 1 /\ ~ (s.page.capacity > 0)
    BY <1>4, <1>5, Zenon
  <2>4. s \in Nodes /\ s.page.level = s.level
    BY <1>4, <1>5, Zenon
  <2>. QED  BY <2>1, <2>2, <2>3, <2>4, Zenon DEF NodeSound
<1>7. ~ Validates(s)
  BY <1>4, <1>5 DEF Validates, LayoutValid
<1>. QED  BY <1>3, <1>6, <1>7 DEF IInv, LossIsSeen

\* create: an empty node.
LEMMA MadeIs ==
    ASSUME NEW class \in {Leaf, Internal}, NEW config \in Configs, NEW level \in Levels,
           NEW s, s = Made(class, config, level)
    PROVE  NodeSound(s) /\ MadeSound(s)
<1>. DEFINE header == Appended(<<Magic, InvalidRef, level, config>>)
            capacity == ComputeCapacity(config, class)
            q == [nodeType |-> class, keyCount |-> 0, dup |-> config.dup, level |-> level,
                  capacity |-> capacity, header |-> header, body |-> <<>>]
            refs == IF class = Internal THEN <<InvalidRef>> ELSE <<>>
<1>1. header \in Zeros /\ Len(header) >= 1 /\ <<>> \in Zeros
  BY DEF Appended, Zeros
<1>2. level \in Nat /\ config.dup \in BOOLEAN
  BY NodeAssumption
<1>3. capacity \in Nat
  <2>1. Area \in Nat /\ EntrySize(config) \in Nat /\ EntrySize(config) > 20
    BY NodeAssumption, SizesAre DEF RefSize
  <2>. QED  BY <2>1 DEF ComputeCapacity, RefSize
<1>4. class \in Nat
  BY DEF Leaf, Internal
<1>5. s = [class |-> class, config |-> config, level |-> level, parent |-> InvalidRef,
           keys |-> <<>>, refs |-> refs, page |-> q]
  BY DEF Made
<1>. HIDE DEF header, capacity
<1>6. /\ q \in Pages /\ q.nodeType = class /\ q.keyCount = 0 /\ q.level = level
      /\ q.capacity = capacity /\ q.header = header
  BY <1>1, <1>2, <1>3, <1>4 DEF Pages
<1>7. refs \in Seq(Int) /\ Len(refs) = IF class = Internal THEN 1 ELSE 0
  BY DEF InvalidRef
<1>. HIDE DEF q, refs
<1>8. /\ s \in Nodes /\ s.class = class /\ s.config = config /\ s.level = level
      /\ s.keys = <<>> /\ s.refs = refs /\ s.page = q
  BY <1>2, <1>5, <1>6, <1>7 DEF Nodes, InvalidRef
<1>9. ASSUME NEW dup PROVE Sorted(s.keys, dup)
  BY <1>8 DEF Sorted
<1>10. NodeSound(s)
  <2>1. Len(s.refs) = Fanout(s) /\ Len(s.keys) = 0
    BY <1>7, <1>8 DEF Fanout
  <2>2. Sorted(s.keys, TRUE)
    BY <1>9
  <2>3. Len(s.page.header) >= 1 /\ s.page.level = s.level /\ Len(s.keys) <= s.page.keyCount
    BY <1>1, <1>6, <1>8, <2>1
  <2>. QED  BY <1>8, <2>1, <2>2, <2>3, Zenon DEF NodeSound
<1>11. MadeSound(s)
  BY <1>3, <1>6, <1>8, <1>9 DEF MadeSound, capacity
<1>. QED  BY <1>10, <1>11

\* Every step is a sound call, or one that cannot fail and preserves the invariant.
LEMMA NextCalls ==
    ASSUME IInv, Next
    PROVE  SoundCall \/ (IInv' /\ failed' = FALSE)
<1>1. Refs \subseteq Int /\ InvalidRef \in Int /\ Levels \subseteq Nat
  BY NodeAssumption DEF InvalidRef
<1>2. Len(node.keys) \in Nat
  BY NodeFields
<1>3. ASSUME NEW key \in Keys, NEW ref \in Refs \cup {InvalidRef}, LeafInsert(key, ref)
      PROVE  SoundCall
  BY <1>1, <1>3, LeafInsertCalls
<1>4. ASSUME NEW key \in Keys, NEW ref \in Refs \cup {InvalidRef},
             NEW index \in 0 .. Len(node.keys) + 1, InternalInsert(index, key, ref)
      PROVE  SoundCall
  <2>1. index \in Nat /\ ref \in Int
    BY <1>1, <1>2
  <2>. QED  BY <1>4, <2>1, InternalInsertCalls
<1>5. ASSUME NEW index \in 0 .. Len(node.keys), EraseAt(index) PROVE SoundCall
  <2>1. index \in Nat
    BY <1>2
  <2>. QED  BY <1>5, <2>1, EraseAtCalls
<1>6. ASSUME NEW index \in 0 .. Len(node.keys), NEW key \in Keys, SetKeyAt(index, key)
      PROVE  SoundCall
  <2>1. index \in Nat
    BY <1>2
  <2>. QED  BY <1>6, <2>1, SetKeyAtCalls
<1>7. ASSUME NEW key \in Keys, LeafErase(key) PROVE SoundCall
  BY <1>7, LeafEraseCalls
<1>8. ASSUME NEW a \in Assignments, Sorted(a.keys, node.page.dup), AssignEntries(a.keys, a.refs)
      PROVE  SoundCall
  <2>1. a.keys \in Seq(Keys) /\ a.refs \in Seq(Refs)
    BY NodeAssumption
  <2>2. a.refs \in Seq(Int)
    <3>1. \A i \in 1 .. Len(a.refs) : a.refs[i] \in Int
      BY <1>1, <2>1, ElementIs
    <3>. QED  BY <2>1, <3>1
  <2>. QED  BY <1>8, <2>1, <2>2, AssignEntriesCalls
<1>9. ASSUME NEW ref \in Refs, SetParent(ref) PROVE IInv' /\ failed' = FALSE
  BY <1>1, <1>9, SetParentIInv DEF SetParent
<1>10. ASSUME NEW level \in Levels, SetLevel(level) PROVE IInv' /\ failed' = FALSE
  BY <1>1, <1>10, SetLevelIInv DEF SetLevel
<1>11. ASSUME Reload PROVE IInv' /\ failed' = FALSE
  BY <1>11, ReloadIInv DEF Reload
<1>12. ASSUME SerializeDeserialize PROVE IInv' /\ failed' = FALSE
  BY <1>12, SerializeDeserializeIInv DEF SerializeDeserialize
<1>13. ASSUME NEW class \in {Leaf, Internal}, NEW config \in Configs, NEW level \in Levels,
              Create(class, config, level)
       PROVE  IInv' /\ failed' = FALSE
  <2>. DEFINE s == Made(class, config, level)
  <2>1. node' = s /\ origin' = "made" /\ failed' = FALSE
    BY <1>13 DEF Create
  <2>2. NodeSound(s) /\ MadeSound(s)
    BY MadeIs
  <2>. HIDE DEF s
  <2>. QED  BY <2>1, <2>2 DEF IInv, LossIsSeen
<1>. QED
  BY <1>3, <1>4, <1>5, <1>6, <1>7, <1>8, <1>9, <1>10, <1>11, <1>12, <1>13, Zenon DEF Next

\* Every step preserves the invariant.
LEMMA NextIInv == ASSUME IInv, [Next]_vars PROVE IInv'
<1>1. CASE UNCHANGED vars
  BY <1>1 DEF vars, IInv, LossIsSeen
<1>2. CASE Next
  BY <1>2, NextCalls, CallIInv
<1>. QED  BY <1>1, <1>2

-----------------------------------------------------------------------------
(***************************************************************************)
(* The theorems.                                                           *)
(***************************************************************************)

\* The invariant holds in every state of every node: of both classes, with every
\* configuration, with every sequence of calls, reloads and serializations.
THEOREM Invariance == Spec => []IInv
<1>1. Init => IInv
  <2>. SUFFICES ASSUME Init PROVE IInv
    OBVIOUS
  <2>1. PICK class \in {Leaf, Internal}, config \in Configs, level \in Levels :
            node = Made(class, config, level) /\ origin = "made"
    BY DEF Init
  <2>2. NodeSound(node) /\ MadeSound(node)
    BY <2>1, MadeIs
  <2>. QED  BY <2>1, <2>2 DEF IInv, LossIsSeen
<1>2. IInv /\ [Next]_vars => IInv'
  BY NextIInv
<1>. QED  BY <1>1, <1>2, PTL DEF Spec

\* validate() accepts every leaf that was created and then changed by any calls of
\* insert, erase and assignEntries, whether they failed or not.
THEOREM LeavesValidate == Spec => []LeafValidates
<1>1. IInv => LeafValidates
  <2>. SUFFICES ASSUME IInv, origin = "made", node.class = Leaf PROVE Validates(node)
    BY DEF LeafValidates
  <2>1. /\ MadeSound(node) /\ Len(node.refs) = Fanout(node) /\ node.page \in Pages
        /\ Len(node.keys) \in Nat
    BY NodeFields DEF IInv, NodeSound
  <2>2. /\ node.config \in Configs /\ node.page.nodeType = node.class
        /\ node.page.capacity = ComputeCapacity(node.config, Leaf)
        /\ node.page.keyCount = Len(node.keys) /\ Len(node.keys) <= node.page.capacity
        /\ Sorted(node.keys, node.page.dup)
    BY <2>1 DEF MadeSound
  <2>3. node.page.capacity > 0
    <3>. DEFINE e == EntrySize(node.config)
    <3>1. e \in Nat /\ e > 20 /\ e <= Area /\ Area \in Nat
      BY <2>2, NodeAssumption, RoomAssumption, SizesAre DEF RefSize
    <3>2. node.page.capacity = Area \div e
      BY <2>2 DEF ComputeCapacity
    <3>. HIDE DEF e
    <3>3. Area \div e >= 1
      BY <3>1
    <3>. QED  BY <3>1, <3>2, <3>3
  <2>4. LayoutValid(node.page)
    BY <2>2, <2>3 DEF LayoutValid
  <2>. QED  BY <2>1, <2>2, <2>4, Zenon DEF Validates
<1>. QED  BY <1>1, Invariance, PTL

\* KeyComparator's binary searches return, on the keys of every node that are in
\* order, the position of the first key not less, of the first greater one, and of
\* the first equal one or the size.
THEOREM SearchesAreExact == Spec => []SearchesExact
<1>1. IInv => SearchesExact
  <2>. SUFFICES ASSUME IInv, Sorted(node.keys, TRUE), NEW key \in Keys
                PROVE  LET less  == Less(node.keys, key)
                           equal == Equal(node.keys, key)
                       IN  /\ LowerBound(node.keys, key) = Cardinality(less)
                           /\ UpperBound(node.keys, key) = Cardinality(less \cup equal)
                           /\ Find(node.keys, key)
                                = IF equal = {} THEN Len(node.keys) ELSE Min(equal) - 1
    BY Zenon DEF SearchesExact, Less, Equal
  <2>1. node.keys \in Seq(Keys)
    BY NodeFields
  <2>2. LowerBound(node.keys, key) = Cardinality(Less(node.keys, key))
    BY <2>1, LowerBoundIs
  <2>3. AtMost(node.keys, key) = Less(node.keys, key) \cup Equal(node.keys, key)
    BY Zenon DEF AtMost, Less, Equal, KeyLessEqual
  <2>4. UpperBound(node.keys, key) = Cardinality(Less(node.keys, key) \cup Equal(node.keys, key))
    BY <2>1, <2>3, UpperBoundIs
  <2>5. Find(node.keys, key) = IF Equal(node.keys, key) = {} THEN Len(node.keys)
                               ELSE Min(Equal(node.keys, key)) - 1
    BY <2>1, FindIs
  <2>. QED  BY <2>2, <2>4, <2>5
<1>. QED  BY <1>1, Invariance, PTL

\* A node that was made from a stored page, or deserialized, and that validate()
\* accepts has the entries and the level of the node that was stored.
THEOREM LossesAreSeen == Spec => []LossIsSeen
<1>1. IInv => LossIsSeen
  BY DEF IInv
<1>. QED  BY <1>1, Invariance, PTL

\* A call on a created node that fails keeps its entries if the keys are no longer
\* than the configuration says: a call that its checks let pass finds room.
LEMMA CallKeeps ==
    ASSUME SoundCall, failed', origin = "made", KeysFit(node')
    PROVE  node'.keys = node.keys /\ node'.refs = node.refs
<1>. PICK accepted \in BOOLEAN : \E changed : Call(accepted, changed) /\ (accepted => Ready(changed))
  BY DEF SoundCall
<1>. PICK changed : Call(accepted, changed) /\ (accepted => Ready(changed))
  OBVIOUS
<1>1. CASE ~ accepted
  BY <1>1 DEF Call
<1>2. CASE accepted
  <2>. DEFINE s == Synced(changed)
              e == EntrySize(changed.config)
              n == Len(changed.keys)
  <2>1. node' = s /\ SyncFails(changed) /\ Ready(changed)
    BY <1>2 DEF Call
  <2>2. SyncedFrom(s, changed)
    BY <2>1, SyncedIs DEF Ready
  <2>. HIDE DEF s
  <2>3. /\ changed.config \in Configs /\ changed.class \in {Leaf, Internal}
        /\ changed.keys \in Seq(Keys) /\ n \in Nat
        /\ n <= ComputeCapacity(changed.config, changed.class)
    <3>1. changed \in Nodes
      BY <2>1 DEF Ready
    <3>2. changed.class \in {Leaf, Internal} /\ changed.keys \in Seq(Keys)
      BY <3>1 DEF Nodes
    <3>3. n \in Nat
      BY <3>2
    <3>. HIDE DEF n
    <3>4. changed.config \in Configs /\ n <= ComputeCapacity(changed.config, changed.class)
      BY <2>1 DEF Ready, n
    <3>. QED  BY <3>2, <3>3, <3>4
  <2>4. \A i \in DOMAIN changed.keys : SerializedSize(changed.keys[i]) + RefSize <= e
    BY <2>1, <2>2, Zenon DEF KeysFit, SyncedFrom
  <2>5. e \in Nat /\ Area \in Nat
    BY <2>3, SizesAre, NodeAssumption
  <2>6. Bytes(changed) \in Nat /\ Bytes(changed) <= LeftSize(changed) + n * e
    BY <2>3, <2>4, <2>5, BytesBound
  <2>7. LeftSize(changed) + n * e <= Area
    BY <2>3, CapacityFits DEF LeftSize
  <2>8. LeftSize(changed) \in Nat /\ n * e \in Nat
    BY <2>3, <2>5 DEF LeftSize, RefSize
  <2>. HIDE DEF e, n
  <2>9. Bytes(changed) <= Area
    BY <2>5, <2>6, <2>7, <2>8
  <2>. QED  BY <2>1, <2>5, <2>6, <2>9 DEF SyncFails
<1>. QED  BY <1>1, <1>2

\* A call that returns an error on a node that was created leaves its entries alone,
\* as long as its keys are no longer than its configuration says: computeCapacity
\* never promises room that syncEntries, which fails after the change, lacks.
THEOREM FailuresKeepEntries == Spec => FailedCallsKeepEntries
<1>. DEFINE Kept == (failed' /\ origin = "made" /\ KeysFit(node'))
                       => node'.keys = node.keys /\ node'.refs = node.refs
<1>1. IInv /\ [Next]_vars => [Kept]_vars
  <2>1. ASSUME IInv, Next PROVE Kept
    <3>1. CASE SoundCall
      BY <3>1, CallKeeps
    <3>2. CASE failed' = FALSE
      BY <3>2
    <3>. QED  BY <2>1, <3>1, <3>2, NextCalls
  <2>. QED  BY <2>1
<1>. QED  BY <1>1, Invariance, PTL DEF Spec, FailedCallsKeepEntries
=============================================================================
