----------------------------- MODULE WalProofs -----------------------------
(***************************************************************************)
(* Theorems about the write-ahead log, for every layout, every number of   *)
(* records and every bound.  The two loops of the code that read a file    *)
(* are recursive functions in module Wal; that such a function exists, and *)
(* what it returns, is proved here by induction over sets of numbers.      *)
(***************************************************************************)
EXTENDS Wal, WellFoundedInduction, TLAPS

-----------------------------------------------------------------------------
(***************************************************************************)
(* Iteration and arithmetic.                                               *)
(***************************************************************************)

\* Induction up to a bound, over a set of numbers.
LEMMA UpTo ==
    ASSUME NEW n \in Nat, NEW T, 0 \in T, \A k \in 1 .. n : k - 1 \in T => k \in T
    PROVE  0 .. n \subseteq T
<1>. DEFINE R == {ss \in Nat \X Nat : ss[1] < ss[2]}
            S == {k \in 0 .. n : k \notin T}
<1>1. IsWellFoundedOn(R, Nat)
  BY NatLessThanWellFounded DEF OpToRel
<1>. SUFFICES ASSUME S # {} PROVE FALSE
  OBVIOUS
<1>2. S \in SUBSET Nat
  OBVIOUS
<1>. HIDE DEF R, S
<1>3. PICK m \in S : \A k \in S : ~ (<<k, m>> \in R)
  BY <1>1, <1>2, WFMin
<1>4. m \in 1 .. n /\ m \notin T /\ m - 1 \in 0 .. n
  BY DEF S
<1>5. m - 1 \in T
  <2>1. <<m - 1, m>> \in R
    BY <1>4 DEF R
  <2>2. m - 1 \notin S
    BY <1>3, <2>1
  <2>. QED  BY <1>4, <2>2 DEF S
<1>. QED  BY <1>4, <1>5

\* There is the sequence x, s[x], s[s[x]] and so on to n applications of s.
Iterated(S, x, s, n) ==
    \E g \in [0 .. n -> S] : g[0] = x /\ \A k \in 1 .. n : g[k] = s[g[k - 1]]

\* A function can be iterated.
LEMMA Iterates ==
    ASSUME NEW S, NEW x \in S, NEW s \in [S -> S], NEW n \in Nat
    PROVE  Iterated(S, x, s, n)
<1>. DEFINE Upto(k) == \E g \in [0 .. k -> S] :
                           g[0] = x /\ \A j \in 1 .. k : g[j] = s[g[j - 1]]
            T == {k \in 0 .. n : Upto(k)}
<1>1. 0 \in T
  <2>. DEFINE g == [j \in 0 .. 0 |-> x]
  <2>1. g \in [0 .. 0 -> S] /\ g[0] = x /\ \A j \in 1 .. 0 : g[j] = s[g[j - 1]]
    OBVIOUS
  <2>. HIDE DEF g
  <2>2. Upto(0)
    BY <2>1
  <2>. QED  BY <2>2
<1>2. ASSUME NEW k \in 1 .. n, k - 1 \in T PROVE k \in T
  <2>1. PICK g \in [0 .. k - 1 -> S] : g[0] = x /\ \A j \in 1 .. k - 1 : g[j] = s[g[j - 1]]
    BY <1>2
  <2>. DEFINE h == [j \in 0 .. k |-> IF j = k THEN s[g[k - 1]] ELSE g[j]]
  <2>2. h \in [0 .. k -> S] /\ h[0] = x
    BY <2>1
  <2>3. \A j \in 1 .. k : h[j] = s[h[j - 1]]
    BY <2>1, SMTT(30)
  <2>. HIDE DEF h
  <2>4. Upto(k)
    BY <2>2, <2>3
  <2>5. k \in 0 .. n
    OBVIOUS
  <2>. HIDE DEF Upto
  <2>. QED  BY <2>4, <2>5
<1>. HIDE DEF T
<1>3. 0 .. n \subseteq T
  BY <1>1, <1>2, UpTo
<1>4. n \in T
  BY <1>3
<1>5. Upto(n)
  <2>. HIDE DEF Upto
  <2>. QED  BY <1>4 DEF T
<1>. QED  BY <1>5 DEF Iterated

\* The sizes are numbers.
LEMMA Layout ==
    /\ HeaderSize \in Nat /\ HeaderSize > 0 /\ PrefixSize \in Nat /\ PrefixSize > 0
    /\ BodySizes \subseteq Nat /\ \A n \in BodySizes : n > 0
BY LayoutAssumption

\* Products of naturals.
LEMMA ProductNat == ASSUME NEW m \in Nat, NEW n \in Nat PROVE m * n \in Nat
OBVIOUS

\* A turn of a loop that is not the first has one before it.
LEMMA TurnBefore ==
    ASSUME NEW n \in Nat, NEW k \in 0 .. n, k # 0
    PROVE  k \in 1 .. n /\ k - 1 \in 0 .. n
OBVIOUS

\* The last turn of a loop that has any.
LEMMA LastTurn ==
    ASSUME NEW n \in Nat, n >= 1
    PROVE  n \in 1 .. n /\ n - 1 \in 0 .. n
OBVIOUS

\* RoundUp is the next multiple of the alignment.
LEMMA RoundUpBounds ==
    ASSUME NEW n \in Nat
    PROVE  RoundUp(n) \in Nat /\ n <= RoundUp(n)
<1>. DEFINE m == n + Alignment - 1
            q == m \div Alignment
<1>1. Alignment \in Nat \ {0}
  BY LayoutAssumption
<1>2. m \in Nat
  BY <1>1
<1>. HIDE DEF m
<1>3. q \in Nat /\ m = Alignment * q + (m % Alignment) /\ m % Alignment \in 0 .. Alignment - 1
  BY <1>1, <1>2
<1>. HIDE DEF q
<1>4. q * Alignment \in Nat /\ q * Alignment = Alignment * q
  BY <1>1, <1>3
<1>5. n <= q * Alignment
  BY <1>1, <1>3, <1>4 DEF m
<1>. QED  BY <1>4, <1>5 DEF RoundUp, q, m

\* The places of a number count for naturals.
LEMMA PowerType == ASSUME NEW k \in 0 .. FixedSize PROVE Power[k] \in Nat
<1>. DEFINE times == [m \in Nat |-> ByteBase * m]
            Body(g) == [j \in 0 .. FixedSize |-> IF j = 0 THEN 1 ELSE ByteBase * g[j - 1]]
<1>1. ByteBase \in Nat /\ FixedSize \in Nat /\ 1 \in Nat
  BY LayoutAssumption
<1>2. times \in [Nat -> Nat] /\ \A m \in Nat : times[m] = ByteBase * m
  BY <1>1, ProductNat
<1>. HIDE DEF times
<1>3. PICK g \in [0 .. FixedSize -> Nat] :
          g[0] = 1 /\ \A j \in 1 .. FixedSize : g[j] = times[g[j - 1]]
  <2>1. Iterated(Nat, 1, times, FixedSize)
    BY <1>1, <1>2, Iterates
  <2>. QED  BY <2>1 DEF Iterated
<1>4. g = Body(g)
  <2>1. ASSUME NEW j \in 0 .. FixedSize PROVE g[j] = Body(g)[j]
    <3>1. CASE j = 0
      BY <1>3, <3>1
    <3>2. CASE j # 0
      <4>1. j \in 1 .. FixedSize /\ j - 1 \in 0 .. FixedSize
        BY <1>1, <3>2
      <4>2. g[j] = ByteBase * g[j - 1]
        BY <1>2, <1>3, <4>1
      <4>. QED  BY <3>2, <4>2
    <3>. QED  BY <3>1, <3>2
  <2>. QED  BY <2>1
<1>5. Power = Body(Power)
  <2>1. Power = CHOOSE h : h = Body(h)
    BY DEF Power
  <2>. HIDE DEF Body
  <2>. QED  BY <1>4, <2>1
<1>. DEFINE T == {j \in 0 .. FixedSize : Power[j] \in Nat}
<1>6. 0 \in T
  BY <1>1, <1>5
<1>7. ASSUME NEW j \in 1 .. FixedSize, j - 1 \in T PROVE j \in T
  <2>1. j \in 0 .. FixedSize /\ Power[j] = ByteBase * Power[j - 1]
    BY <1>1, <1>5, SMTT(30)
  <2>2. ByteBase \in Nat /\ Power[j - 1] \in Nat
    BY <1>1, <1>7
  <2>. QED  BY <2>1, <2>2, ProductNat
<1>. HIDE DEF T
<1>8. 0 .. FixedSize \subseteq T
  BY <1>1, <1>6, <1>7, UpTo
<1>. QED  BY <1>8 DEF T

-----------------------------------------------------------------------------
(***************************************************************************)
(* The invariant.                                                          *)
(***************************************************************************)
\* The file's records lie behind the header and begin before its end.
FileSound(f) ==
    /\ f = [size |-> f.size, records |-> f.records]
    /\ f.size \in Nat
    /\ \A p \in DOMAIN f.records :
           /\ p \in Nat /\ HeaderSize <= p /\ p < f.size
           /\ f.records[p].size \in BodySizes /\ f.records[p].lsn \in Nat

\* The records of a buffer of which used bytes are used.
BufferSound(buffer, used) ==
    /\ used \in Nat
    /\ \A e \in buffer : /\ e.at \in Nat /\ e.size \in BodySizes /\ e.lsn \in Nat
                         /\ e.at + PrefixSize + e.size <= used
    /\ \A d, e \in buffer : d.at < e.at => d.lsn < e.lsn
    /\ \A d, e \in buffer : d.at = e.at => d = e

\* The LSNs of a writer.
WriterSound(w) ==
    /\ w = [used |-> w.used, buffer |-> w.buffer, nextLsn |-> w.nextLsn,
            currentLsn |-> w.currentLsn, lastFlushedLsn |-> w.lastFlushedLsn]
    /\ BufferSound(w.buffer, w.used)
    /\ w.nextLsn \in Nat /\ w.currentLsn \in Nat /\ w.lastFlushedLsn \in Nat
    /\ w.lastFlushedLsn <= w.currentLsn /\ w.currentLsn < w.nextLsn
    /\ \A e \in w.buffer : w.lastFlushedLsn < e.lsn /\ e.lsn < w.nextLsn

\* The places of the records that lie from offset s up to offset a.
Places(f, s, a) == {p \in DOMAIN f.records : s <= p /\ p < a}

\* While the stream is sound: the records that append accepted, acc, are those of
\* the file from s to a, all there in full length, and those of the buffer, with
\* increasing LSNs.
SessionSound(f, s, a, buffer, acc) ==
    /\ \A p \in Places(f, s, a) : p + PrefixSize + f.records[p].size <= f.size
    /\ \A p, q \in Places(f, s, a) : p < q => f.records[p].lsn < f.records[q].lsn
    /\ \A p \in Places(f, s, a), e \in buffer : f.records[p].lsn < e.lsn
    /\ acc = {e.lsn : e \in buffer} \cup {f.records[p].lsn : p \in Places(f, s, a)}

\* The accepted records up to the LSN last are in the file from s on.
OnDisk(f, s, acc, last) ==
    \A n \in acc : n <= last =>
        \E p \in DOMAIN f.records :
            /\ s <= p /\ f.records[p].lsn = n
            /\ p + PrefixSize + f.records[p].size <= f.size

WInv ==
    /\ FileSound(file)
    /\ WriterSound(writer)
    /\ handle \in {"closed", "open", "ready"} /\ bad \in BOOLEAN
    /\ start \in Nat /\ appendOffset \in Nat
    /\ HeaderSize <= start /\ start <= appendOffset
    /\ accepted \subseteq Nat /\ \A n \in accepted : n < writer.nextLsn
    /\ handle # "ready" => /\ start = appendOffset
                           /\ writer.buffer = {} /\ accepted = {}
    /\ handle = "ready" => OnDisk(file, start, accepted, writer.lastFlushedLsn)
    /\ handle = "ready" /\ ~ bad =>
           SessionSound(file, start, appendOffset, writer.buffer, accepted)

-----------------------------------------------------------------------------
(***************************************************************************)
(* Reading the file.                                                       *)
(***************************************************************************)

\* The numbers that are read from a file.
LEMMA NumberType ==
    ASSUME NEW f, FileSound(f), NEW o \in Nat, NEW n \in 0 .. FixedSize
    PROVE  NumberAt(f, o, n) \in Nat
<1>. DEFINE hits == {p \in DOMAIN f.records : p \in o .. o + n - 1}
            p == CHOOSE p \in hits : TRUE
<1>1. CASE hits = {}
  BY <1>1 DEF NumberAt
<1>2. CASE hits # {}
  <2>1. p \in hits
    BY <1>2
  <2>2. NumberAt(f, o, n) = f.records[p].size * Power[p - o]
    BY <1>2 DEF NumberAt
  <2>3. p \in DOMAIN f.records /\ p \in o .. o + n - 1
    BY <2>1
  <2>. HIDE DEF p
  <2>4. f.records[p].size \in Nat
    BY <2>3, Layout DEF FileSound
  <2>5. p - o \in 0 .. FixedSize
    BY <2>3, LayoutAssumption
  <2>6. Power[p - o] \in Nat
    BY <2>5, PowerType
  <2>. QED  BY <2>2, <2>4, <2>6, ProductNat
<1>. QED  BY <1>1, <1>2

\* Where the next record is looked for, and the LSN that is decoded.
LEMMA ReadTypes ==
    ASSUME NEW f, FileSound(f), NEW o \in Nat
    PROVE  NextOffset(f, o) \in Nat /\ Decoded(f, o).lsn \in Nat
<1>1. PrefixSize \in 0 .. FixedSize /\ LsnSize \in 0 .. FixedSize /\ o + PrefixSize + 1 \in Nat
  BY LayoutAssumption
<1>2. SizeAt(f, o) \in Nat
  BY <1>1, NumberType DEF SizeAt
<1>3. NumberAt(f, o + PrefixSize + 1, LsnSize) \in Nat
  BY <1>1, NumberType
<1>4. RoundUp(PrefixSize + SizeAt(f, o)) \in Nat
  BY <1>2, RoundUpBounds, LayoutAssumption
<1>. QED  BY <1>3, <1>4 DEF NextOffset, Decoded

ScanState == [offset : Nat, lsn : Nat, short : BOOLEAN]

\* One turn of the loop that looks for the last LSN.
LEMMA ScanTurnType ==
    ASSUME NEW f, FileSound(f), NEW s \in ScanState
    PROVE  ScanTurn(f, s) \in ScanState
<1>1. s.offset \in Nat /\ s.lsn \in Nat /\ s.short \in BOOLEAN
  BY DEF ScanState
<1>2. NextOffset(f, s.offset) \in Nat /\ Decoded(f, s.offset).lsn \in Nat
  BY <1>1, ReadTypes
<1>3. (s.short \/ ShortRead(f, s.offset)) \in BOOLEAN
  BY <1>1 DEF ShortRead
<1>. QED  BY <1>1, <1>2, <1>3 DEF ScanTurn, ScanState

\* The loop that looks for the last LSN finds a number.
LEMMA ScanType == ASSUME NEW f, FileSound(f) PROVE Scan(f) \in ScanState
<1>. DEFINE first == [offset |-> HeaderSize, lsn |-> 0, short |-> FALSE]
            turn == [s \in ScanState |-> ScanTurn(f, s)]
            Body(g) == [k \in 0 .. f.size |-> IF k = 0 THEN first ELSE ScanTurn(f, g[k - 1])]
            after == CHOOSE g : g = Body(g)
<1>1. f.size \in Nat /\ first \in ScanState
  BY Layout DEF FileSound, ScanState
<1>2. turn \in [ScanState -> ScanState] /\ \A s \in ScanState : turn[s] = ScanTurn(f, s)
  BY ScanTurnType
<1>3. Scan(f) = after[f.size]
  BY DEF Scan
<1>. HIDE DEF first, turn
<1>4. PICK g \in [0 .. f.size -> ScanState] :
          g[0] = first /\ \A k \in 1 .. f.size : g[k] = turn[g[k - 1]]
  <2>1. Iterated(ScanState, first, turn, f.size)
    BY <1>1, <1>2, Iterates
  <2>. QED  BY <2>1 DEF Iterated
<1>5. g = Body(g)
  <2>1. ASSUME NEW k \in 0 .. f.size PROVE g[k] = Body(g)[k]
    <3>1. CASE k = 0
      BY <1>4, <3>1
    <3>2. CASE k # 0
      <4>1. k \in 1 .. f.size /\ k - 1 \in 0 .. f.size
        BY <1>1, <3>2, TurnBefore
      <4>2. g[k] = ScanTurn(f, g[k - 1])
        BY <1>2, <1>4, <4>1
      <4>. QED  BY <3>2, <4>2
    <3>. QED  BY <3>1, <3>2
  <2>. QED  BY <2>1
<1>6. after = Body(after)
  <2>. HIDE DEF Body
  <2>. QED  BY <1>5
<1>. HIDE DEF after
<1>. DEFINE T == {k \in 0 .. f.size : after[k] \in ScanState}
<1>7. 0 \in T
  BY <1>1, <1>6
<1>8. ASSUME NEW k \in 1 .. f.size, k - 1 \in T PROVE k \in T
  <2>0. k \in 0 .. f.size /\ k # 0
    BY <1>1
  <2>1. k \in 0 .. f.size /\ after[k] = ScanTurn(f, after[k - 1])
    BY <1>6, <2>0
  <2>2. after[k - 1] \in ScanState
    BY <1>8
  <2>3. ScanTurn(f, after[k - 1]) \in ScanState
    BY <2>2, ScanTurnType
  <2>. QED  BY <2>1, <2>3
<1>. HIDE DEF T
<1>9. 0 .. f.size \subseteq T
  BY <1>1, <1>7, <1>8, UpTo
<1>. QED  BY <1>1, <1>3, <1>9 DEF T

\* LogManager::validate accepts no file that reaches behind the header: nothing that
\* is decoded there has a record's type.
LEMMA CheckedRefuses ==
    ASSUME NEW f, FileSound(f), Checked(f).ok PROVE f.size <= HeaderSize
<1>. SUFFICES ASSUME f.size > HeaderSize PROVE ~ Checked(f).ok
  BY Layout DEF FileSound
<1>. DEFINE first == [offset |-> HeaderSize, previous |-> 0, ok |-> TRUE, short |-> FALSE]
            CheckState == [offset : {HeaderSize}, previous : {0}, ok : BOOLEAN, short : BOOLEAN]
            turn == [s \in CheckState |-> CheckTurn(f, s)]
            Body(g) == [k \in 0 .. f.size |-> IF k = 0 THEN first ELSE CheckTurn(f, g[k - 1])]
            after == CHOOSE g : g = Body(g)
<1>1. f.size \in Nat /\ f.size >= 1 /\ first \in CheckState
  BY Layout DEF FileSound
<1>2. ASSUME NEW s \in CheckState
      PROVE  CheckTurn(f, s) \in CheckState /\ ~ CheckTurn(f, s).ok
  <2>1. ~ Validates(Decoded(f, s.offset), s.previous)
    BY DEF Validates, Decoded
  <2>2. (s.short \/ ShortRead(f, s.offset)) \in BOOLEAN
    BY DEF ShortRead
  <2>3. ~ (s.offset >= f.size)
    BY <1>1, Layout
  <2>. QED  BY <2>1, <2>2, <2>3 DEF CheckTurn
<1>3. turn \in [CheckState -> CheckState] /\ \A s \in CheckState : turn[s] = CheckTurn(f, s)
  BY <1>2
<1>4. Checked(f) = after[f.size]
  BY DEF Checked
<1>. HIDE DEF first, turn, CheckState
<1>5. PICK g \in [0 .. f.size -> CheckState] :
          g[0] = first /\ \A k \in 1 .. f.size : g[k] = turn[g[k - 1]]
  <2>1. Iterated(CheckState, first, turn, f.size)
    BY <1>1, <1>3, Iterates
  <2>. QED  BY <2>1 DEF Iterated
<1>6. g = Body(g)
  <2>1. ASSUME NEW k \in 0 .. f.size PROVE g[k] = Body(g)[k]
    <3>1. CASE k = 0
      BY <1>5, <3>1
    <3>2. CASE k # 0
      <4>1. k \in 1 .. f.size /\ k - 1 \in 0 .. f.size
        BY <1>1, <3>2, TurnBefore
      <4>2. g[k] = CheckTurn(f, g[k - 1])
        BY <1>3, <1>5, <4>1
      <4>. QED  BY <3>2, <4>2
    <3>. QED  BY <3>1, <3>2
  <2>. QED  BY <2>1
<1>7. after = Body(after)
  <2>. HIDE DEF Body
  <2>. QED  BY <1>6
<1>. HIDE DEF after
<1>. DEFINE T == {k \in 0 .. f.size : after[k] \in CheckState}
<1>8. 0 \in T
  BY <1>1, <1>7
<1>9. ASSUME NEW k \in 1 .. f.size, k - 1 \in T
      PROVE  k \in T /\ ~ after[k].ok
  <2>1. k \in 0 .. f.size /\ after[k] = CheckTurn(f, after[k - 1])
    BY <1>1, <1>7
  <2>2. after[k - 1] \in CheckState
    BY <1>9
  <2>3. CheckTurn(f, after[k - 1]) \in CheckState /\ ~ CheckTurn(f, after[k - 1]).ok
    BY <1>2, <2>2
  <2>. QED  BY <2>1, <2>3
<1>. HIDE DEF T
<1>10. 0 .. f.size \subseteq T
  BY <1>1, <1>8, <1>9, UpTo
<1>11. f.size \in 1 .. f.size /\ f.size - 1 \in T
  <2>1. f.size \in 1 .. f.size /\ f.size - 1 \in 0 .. f.size
    BY <1>1, LastTurn
  <2>. QED  BY <1>10, <2>1
<1>. QED  BY <1>4, <1>9, <1>11

-----------------------------------------------------------------------------
(***************************************************************************)
(* Writing the file.                                                       *)
(***************************************************************************)

\* g is f with the records of the buffer that begin in the count bytes at o.
WrittenAs(f, o, buffer, count, g) ==
    /\ f.size <= g.size /\ o + count <= g.size
    /\ \A p \in DOMAIN f.records :
           p < o => p \in DOMAIN g.records /\ g.records[p] = f.records[p]
    /\ \A p \in DOMAIN g.records : p < o => p \in DOMAIN f.records
    /\ \A p \in DOMAIN g.records :
           o <= p /\ p < o + count => \E e \in buffer : e.at < count /\ p = o + e.at
    /\ \A e \in buffer : e.at < count =>
           /\ o + e.at \in DOMAIN g.records
           /\ g.records[o + e.at].size = e.size /\ g.records[o + e.at].lsn = e.lsn

\* What LogFile::append leaves of the file and puts there.
LEMMA WrittenSound ==
    ASSUME NEW f, FileSound(f), NEW B, NEW used, BufferSound(B, used),
           NEW o \in Nat, HeaderSize <= o, NEW count \in Nat
    PROVE  /\ FileSound(Written(f, o, B, count))
           /\ WrittenAs(f, o, B, count, Written(f, o, B, count))
<1>. DEFINE g == Written(f, o, B, count)
            new == {o + e.at : e \in {b \in B : b.at < count}}
            kept == {p \in DOMAIN f.records : p < o \/ p >= o + count}
            pick(p) == CHOOSE b \in B : o + b.at = p
            size == Larger(f.size, o + count)
            recs == [p \in new \cup kept |->
                        IF p \in new THEN [size |-> pick(p).size, lsn |-> pick(p).lsn]
                        ELSE f.records[p]]
<1>1. g = [size |-> size, records |-> recs]
  BY DEF Written
<1>2. size \in Nat /\ f.size <= size /\ o + count <= size /\ f.size \in Nat
  BY DEF Larger, FileSound
<1>3. ASSUME NEW e \in B, e.at < count
      PROVE  /\ e.at \in Nat /\ o + e.at \in Nat /\ o + e.at \in new
             /\ o <= o + e.at /\ o + e.at < o + count
             /\ pick(o + e.at) = e
  <2>1. e.at \in Nat /\ \A b \in B : b.at \in Nat
    BY DEF BufferSound
  <2>2. \A b \in B : o + b.at = o + e.at => b = e
    BY <2>1 DEF BufferSound
  <2>3. pick(o + e.at) = e
    BY <2>2
  <2>. QED  BY <1>3, <2>1, <2>3
<1>4. \A p \in new : \E e \in B : e.at < count /\ p = o + e.at
  OBVIOUS
<1>5. \A p \in kept : p \in DOMAIN f.records /\ p \in Nat /\ (p < o \/ p >= o + count)
  BY DEF FileSound
<1>6. DOMAIN recs = new \cup kept
  OBVIOUS
<1>7. \A p \in new : recs[p].size = pick(p).size /\ recs[p].lsn = pick(p).lsn
  OBVIOUS
<1>8. \A p \in kept : p \notin new => recs[p] = f.records[p]
  OBVIOUS
<1>9. \A p \in DOMAIN f.records : p < o => p \in kept
  OBVIOUS
<1>. HIDE DEF new, kept, pick, recs, size
<1>10. \A p \in kept : p \notin new
  BY <1>3, <1>4, <1>5
<1>11. ASSUME NEW p \in new
       PROVE  /\ p \in Nat /\ HeaderSize <= p /\ p < size
              /\ recs[p].size \in BodySizes /\ recs[p].lsn \in Nat
  <2>1. PICK e \in B : e.at < count /\ p = o + e.at
    BY <1>4
  <2>2. /\ p \in Nat /\ o <= p /\ p < o + count /\ pick(p) = e
    BY <1>3, <2>1
  <2>3. e.size \in BodySizes /\ e.lsn \in Nat
    BY DEF BufferSound
  <2>. QED  BY <1>2, <1>7, <2>2, <2>3, Layout
<1>12. ASSUME NEW p \in kept
       PROVE  /\ p \in Nat /\ HeaderSize <= p /\ p < size
              /\ recs[p].size \in BodySizes /\ recs[p].lsn \in Nat
  BY <1>2, <1>5, <1>8, <1>10, Layout DEF FileSound
<1>13. FileSound(g)
  <2>1. g.size = size /\ g.records = recs /\ g = [size |-> g.size, records |-> g.records]
    BY <1>1
  <2>. HIDE DEF g
  <2>. QED  BY <1>2, <1>6, <1>11, <1>12, <2>1 DEF FileSound
<1>14. WrittenAs(f, o, B, count, g)
  <2>1. g.size = size /\ g.records = recs
    BY <1>1
  <2>. HIDE DEF g
  <2>2. ASSUME NEW p \in DOMAIN f.records, p < o
        PROVE  p \in DOMAIN recs /\ recs[p] = f.records[p]
    BY <1>6, <1>8, <1>9, <1>10, <2>2
  <2>3. ASSUME NEW p \in DOMAIN recs, p < o PROVE p \in DOMAIN f.records
    <3>1. p \notin new
      BY <1>3, <1>4, <2>3
    <3>. QED  BY <1>5, <1>6, <3>1
  <2>4. ASSUME NEW p \in DOMAIN recs, o <= p, p < o + count
        PROVE  \E e \in B : e.at < count /\ p = o + e.at
    <3>1. p \notin kept
      BY <1>5, <2>4
    <3>. QED  BY <1>4, <1>6, <3>1
  <2>5. ASSUME NEW e \in B, e.at < count
        PROVE  /\ o + e.at \in DOMAIN recs
               /\ recs[o + e.at].size = e.size /\ recs[o + e.at].lsn = e.lsn
    BY <1>3, <1>6, <1>7, <2>5
  <2>. QED  BY <1>2, <2>1, <2>2, <2>3, <2>4, <2>5 DEF WrittenAs
<1>. QED  BY <1>13, <1>14 DEF g

\* append writes at least the buffer.
LEMMA PaddedBounds ==
    ASSUME NEW o \in Nat, NEW used \in Nat
    PROVE  Padded(o, used) \in Nat /\ used <= Padded(o, used)
<1>1. RoundUp(o + used) \in Nat /\ o + used <= RoundUp(o + used)
  BY RoundUpBounds
<1>. QED  BY <1>1 DEF Padded

\* A record in the buffer has room there.
LEMMA BufferFields ==
    ASSUME NEW B, NEW used, BufferSound(B, used), NEW e \in B
    PROVE  /\ e.at \in Nat /\ e.size \in Nat /\ e.lsn \in Nat /\ used \in Nat
           /\ e.at + PrefixSize + e.size <= used /\ e.at < used
<1>1. /\ e.at \in Nat /\ e.size \in BodySizes /\ e.lsn \in Nat /\ used \in Nat
      /\ e.at + PrefixSize + e.size <= used
  BY DEF BufferSound
<1>2. e.size \in Nat /\ PrefixSize \in Nat /\ PrefixSize > 0
  BY <1>1, Layout
<1>. QED  BY <1>1, <1>2

\* The fields of a record in the file.
LEMMA RecordFields ==
    ASSUME NEW f, FileSound(f), NEW p \in DOMAIN f.records
    PROVE  /\ p \in Nat /\ HeaderSize <= p /\ p < f.size /\ f.size \in Nat
           /\ f.records[p].size \in Nat /\ f.records[p].lsn \in Nat
BY Layout DEF FileSound

\* What counts as flushed is in the file while the stream is sound.
LEMMA SessionOnDisk ==
    ASSUME NEW f, NEW s, NEW a, NEW B, NEW acc, NEW last \in Nat,
           SessionSound(f, s, a, B, acc), \A e \in B : e.lsn \in Nat /\ last < e.lsn
    PROVE  OnDisk(f, s, acc, last)
<1>. SUFFICES ASSUME NEW n \in acc, n <= last
              PROVE  \E p \in DOMAIN f.records :
                         /\ s <= p /\ f.records[p].lsn = n
                         /\ p + PrefixSize + f.records[p].size <= f.size
  BY DEF OnDisk
<1>1. n \notin {e.lsn : e \in B}
  OBVIOUS
<1>2. PICK p \in Places(f, s, a) : f.records[p].lsn = n
  BY <1>1 DEF SessionSound
<1>. QED  BY <1>2 DEF SessionSound, Places

\* What counts as flushed stays in the file when a flush fails after count bytes.
LEMMA TornOnDisk ==
    ASSUME NEW f, FileSound(f), NEW s \in Nat, NEW a \in Nat, NEW B, NEW acc,
           NEW last \in Nat, NEW count \in Nat, NEW g, WrittenAs(f, a, B, count, g),
           FileSound(g),
           SessionSound(f, s, a, B, acc), \A e \in B : e.lsn \in Nat /\ last < e.lsn
    PROVE  OnDisk(g, s, acc, last)
<1>. SUFFICES ASSUME NEW n \in acc, n <= last
              PROVE  \E p \in DOMAIN g.records :
                         /\ s <= p /\ g.records[p].lsn = n
                         /\ p + PrefixSize + g.records[p].size <= g.size
  BY DEF OnDisk
<1>1. n \notin {e.lsn : e \in B}
  OBVIOUS
<1>2. PICK p \in Places(f, s, a) : f.records[p].lsn = n
  BY <1>1 DEF SessionSound
<1>3. /\ p \in DOMAIN f.records /\ s <= p /\ p < a
      /\ p + PrefixSize + f.records[p].size <= f.size
  BY <1>2 DEF SessionSound, Places
<1>4. p \in DOMAIN g.records /\ g.records[p] = f.records[p] /\ f.size <= g.size
  BY <1>3 DEF WrittenAs
<1>5. p + PrefixSize + f.records[p].size \in Nat /\ f.size \in Nat /\ g.size \in Nat
  BY <1>3, RecordFields, Layout DEF FileSound
<1>. QED  BY <1>2, <1>3, <1>4, <1>5

\* A flush that succeeds moves the buffer's records behind those of the session.
LEMMA FlushSession ==
    ASSUME NEW f, FileSound(f), NEW s \in Nat, NEW a \in Nat, s <= a,
           NEW B, NEW used, BufferSound(B, used), NEW acc,
           NEW count \in Nat, used <= count, NEW g, WrittenAs(f, a, B, count, g),
           FileSound(g), SessionSound(f, s, a, B, acc)
    PROVE  SessionSound(g, s, a + count, {}, acc)
<1>. DEFINE old == Places(f, s, a)
            all == Places(g, s, a + count)
            Moved(e) == a + e.at
<1>1. ASSUME NEW p \in all
      PROVE  \/ p \in old /\ g.records[p] = f.records[p]
             \/ \E e \in B : p = a + e.at
  <2>1. p \in DOMAIN g.records /\ s <= p /\ p < a + count /\ p \in Nat
    BY RecordFields DEF Places
  <2>2. CASE p < a
    BY <2>1, <2>2 DEF WrittenAs, Places
  <2>3. CASE a <= p
    BY <2>1, <2>3 DEF WrittenAs
  <2>. QED  BY <2>1, <2>2, <2>3
<1>2. ASSUME NEW p \in old
      PROVE  /\ p \in all /\ g.records[p] = f.records[p] /\ p \in Nat /\ p < a
             /\ p + PrefixSize + g.records[p].size <= g.size
             /\ f.records[p].lsn \in Nat
  <2>1. p \in DOMAIN f.records /\ s <= p /\ p < a
    BY DEF Places
  <2>2. p \in DOMAIN g.records /\ g.records[p] = f.records[p] /\ f.size <= g.size
    BY <2>1 DEF WrittenAs
  <2>3. p + PrefixSize + f.records[p].size <= f.size
    BY DEF SessionSound
  <2>4. /\ p \in Nat /\ p + PrefixSize + f.records[p].size \in Nat /\ f.size \in Nat
        /\ g.size \in Nat /\ f.records[p].lsn \in Nat
    BY <2>1, RecordFields, Layout DEF FileSound
  <2>5. p < a + count
    BY <2>1, <2>4
  <2>. QED  BY <2>1, <2>2, <2>3, <2>4, <2>5 DEF Places
<1>3. ASSUME NEW e \in B
      PROVE  /\ e.at \in Nat /\ a + e.at \in all
             /\ g.records[a + e.at].size = e.size /\ g.records[a + e.at].lsn = e.lsn
             /\ (a + e.at) + PrefixSize + e.size <= g.size
             /\ e.lsn \in Nat
  <2>1. /\ e.at \in Nat /\ e.size \in Nat /\ e.lsn \in Nat /\ used \in Nat /\ e.at < used
        /\ e.at + PrefixSize + e.size <= used
    BY BufferFields
  <2>2. e.at < count
    BY <2>1
  <2>3. /\ a + e.at \in DOMAIN g.records
        /\ g.records[a + e.at].size = e.size /\ g.records[a + e.at].lsn = e.lsn
        /\ a + count <= g.size
    BY <2>2 DEF WrittenAs
  <2>4. s <= a + e.at /\ a + e.at < a + count
    BY <2>1, <2>2
  <2>5. (a + e.at) + PrefixSize + e.size <= g.size
    <3>1. g.size \in Nat
      BY DEF FileSound
    <3>. QED  BY <2>1, <2>3, <3>1, Layout
  <2>. QED  BY <2>1, <2>3, <2>4, <2>5 DEF Places
<1>4. \A p \in all : p + PrefixSize + g.records[p].size <= g.size
  BY <1>1, <1>2, <1>3
<1>5. ASSUME NEW p \in all, NEW q \in all, p < q
      PROVE  g.records[p].lsn < g.records[q].lsn
  <2>1. CASE p \in old /\ q \in old
    BY <1>2, <1>5, <2>1 DEF SessionSound
  <2>2. ASSUME p \in old, NEW e \in B, q = a + e.at PROVE g.records[p].lsn < g.records[q].lsn
    BY <1>2, <1>3, <2>2 DEF SessionSound
  <2>3. ASSUME q \in old, NEW e \in B, p = a + e.at PROVE FALSE
    BY <1>2, <1>3, <1>5, <2>3
  <2>4. ASSUME NEW d \in B, NEW e \in B, p = a + d.at, q = a + e.at
        PROVE  g.records[p].lsn < g.records[q].lsn
    <3>1. d.at < e.at
      BY <1>3, <1>5, <2>4
    <3>. QED  BY <1>3, <2>4, <3>1 DEF BufferSound
  <2>. QED  BY <1>1, <2>1, <2>2, <2>3, <2>4
<1>6. {e.lsn : e \in B} \cup {f.records[p].lsn : p \in old} = {g.records[p].lsn : p \in all}
  <2>1. ASSUME NEW e \in B PROVE e.lsn \in {g.records[p].lsn : p \in all}
    BY <1>3
  <2>2. ASSUME NEW p \in old PROVE f.records[p].lsn \in {g.records[q].lsn : q \in all}
    BY <1>2
  <2>3. ASSUME NEW p \in all
        PROVE  g.records[p].lsn \in {e.lsn : e \in B} \cup {f.records[q].lsn : q \in old}
    BY <1>1, <1>3
  <2>. QED  BY <2>1, <2>2, <2>3
<1>. QED  BY <1>4, <1>5, <1>6 DEF SessionSound

\* The LSN n is behind those of the records acc and of the buffer.
Behind(n, acc, buffer) == (\A m \in acc : m < n) /\ \A e \in buffer : e.lsn < n

\* appendRecord of a record that fits: the buffer and the session.
LEMMA AppendSession ==
    ASSUME NEW f, FileSound(f), NEW s, NEW a, NEW B, NEW used, BufferSound(B, used),
           NEW acc, NEW n \in Nat, Behind(n, acc, B), NEW size \in BodySizes
    PROVE  LET e == [at |-> used, size |-> size, lsn |-> n]
           IN  /\ BufferSound(B \cup {e}, used + PrefixSize + size)
               /\ SessionSound(f, s, a, B, acc) =>
                      SessionSound(f, s, a, B \cup {e}, acc \cup {n})
<1>. DEFINE e == [at |-> used, size |-> size, lsn |-> n]
<1>1. e.at = used /\ e.size = size /\ e.lsn = n
  OBVIOUS
<1>. HIDE DEF e
<1>2. used \in Nat /\ size \in Nat
  BY Layout DEF BufferSound
<1>3. BufferSound(B \cup {e}, used + PrefixSize + size)
  <2>1. \A d \in B : /\ d.at \in Nat /\ d.at < used /\ d.lsn < n
                     /\ d.size \in BodySizes /\ d.lsn \in Nat
                     /\ d.at + PrefixSize + d.size <= used + PrefixSize + size
    <3>. SUFFICES ASSUME NEW d \in B
                  PROVE  /\ d.at \in Nat /\ d.at < used /\ d.lsn < n
                         /\ d.size \in BodySizes /\ d.lsn \in Nat
                         /\ d.at + PrefixSize + d.size <= used + PrefixSize + size
      OBVIOUS
    <3>1. /\ d.at \in Nat /\ d.size \in Nat /\ d.lsn \in Nat /\ d.at < used
          /\ d.at + PrefixSize + d.size <= used /\ d.size \in BodySizes
      BY BufferFields DEF BufferSound
    <3>. QED  BY <1>2, <3>1, Layout DEF Behind
  <2>2. used + PrefixSize + size \in Nat
    BY <1>2, Layout
  <2>3. \A c, d \in B \cup {e} : c.at < d.at => c.lsn < d.lsn
    BY <1>1, <1>2, <2>1 DEF BufferSound
  <2>4. \A c, d \in B \cup {e} : c.at = d.at => c = d
    BY <1>1, <1>2, <2>1 DEF BufferSound
  <2>5. \A d \in B \cup {e} : /\ d.at \in Nat /\ d.size \in BodySizes /\ d.lsn \in Nat
                              /\ d.at + PrefixSize + d.size <= used + PrefixSize + size
    BY <1>1, <1>2, <2>1, <2>2
  <2>. QED  BY <2>2, <2>3, <2>4, <2>5 DEF BufferSound
<1>4. ASSUME SessionSound(f, s, a, B, acc)
      PROVE  SessionSound(f, s, a, B \cup {e}, acc \cup {n})
  <2>1. \A p \in Places(f, s, a) : f.records[p].lsn < n
    BY <1>4 DEF SessionSound, Behind
  <2>2. \A p \in Places(f, s, a), d \in B \cup {e} : f.records[p].lsn < d.lsn
    BY <1>1, <1>4, <2>1 DEF SessionSound
  <2>3. acc \cup {n} = {d.lsn : d \in B \cup {e}}
                           \cup {f.records[p].lsn : p \in Places(f, s, a)}
    BY <1>1, <1>4 DEF SessionSound
  <2>. QED  BY <1>4, <2>2, <2>3 DEF SessionSound
<1>. QED  BY <1>3, <1>4 DEF e

-----------------------------------------------------------------------------
(***************************************************************************)
(* The steps.                                                              *)
(***************************************************************************)

\* A new writer.
LEMMA NewWriterSound == WriterSound(NewWriter) /\ NewWriter.buffer = {}
BY DEF NewWriter, WriterSound, BufferSound

\* The LSNs that a file gives to a writer with an empty buffer.
LEMMA RestoredSound ==
    ASSUME WriterSound(writer), writer.buffer = {}, NEW f, FileSound(f)
    PROVE  WriterSound(Restored(f)) /\ Restored(f).buffer = {}
<1>. DEFINE n == Scan(f).lsn
<1>1. n \in Nat
  BY ScanType DEF ScanState
<1>2. CASE n = 0
  BY <1>2 DEF Restored
<1>3. CASE n # 0
  <2>1. Restored(f) = [writer EXCEPT !.currentLsn = n, !.nextLsn = n + 1,
                                     !.lastFlushedLsn = n]
    BY <1>3 DEF Restored
  <2>2. /\ writer = [used |-> writer.used, buffer |-> {}, nextLsn |-> writer.nextLsn,
                     currentLsn |-> writer.currentLsn,
                     lastFlushedLsn |-> writer.lastFlushedLsn]
        /\ writer.used \in Nat
    BY DEF WriterSound, BufferSound
  <2>. HIDE DEF n
  <2>3. Restored(f) = [used |-> writer.used, buffer |-> {}, nextLsn |-> n + 1,
                       currentLsn |-> n, lastFlushedLsn |-> n]
    BY <2>1, <2>2
  <2>. QED  BY <1>1, <2>2, <2>3 DEF WriterSound, BufferSound
<1>. QED  BY <1>2, <1>3

\* The empty file and the offsets before a log is opened.
LEMMA InitWInv == Init => WInv
<1>. SUFFICES ASSUME Init PROVE WInv
  OBVIOUS
<1>1. FileSound(file)
  BY DEF Init, EmptyFile, FileSound
<1>2. WriterSound(writer) /\ writer.buffer = {}
  BY NewWriterSound DEF Init
<1>3. /\ handle = "closed" /\ bad = FALSE /\ accepted = {}
      /\ start = HeaderSize /\ appendOffset = HeaderSize
  BY DEF Init
<1>4. HeaderSize \in Nat /\ HeaderSize <= HeaderSize
  BY Layout
<1>. QED  BY <1>1, <1>2, <1>3, <1>4 DEF WInv

\* A file with a header has the records it had.
LEMMA HeaderSound ==
    ASSUME NEW f, FileSound(f)
    PROVE  /\ FileSound(WithHeader(f)) /\ WithHeader(f).records = f.records
           /\ WithHeader(f).size = Larger(f.size, HeaderSize)
<1>1. f.size \in Nat /\ f = [size |-> f.size, records |-> f.records]
  BY DEF FileSound
<1>2. Larger(f.size, HeaderSize) \in Nat /\ f.size <= Larger(f.size, HeaderSize)
  BY <1>1, Layout DEF Larger
<1>3. WithHeader(f) = [size |-> Larger(f.size, HeaderSize), records |-> f.records]
  BY <1>1 DEF WithHeader
<1>4. \A p \in DOMAIN f.records : p < Larger(f.size, HeaderSize)
  BY <1>1, <1>2, RecordFields
<1>. QED  BY <1>2, <1>3, <1>4 DEF FileSound

\* initialize: the log is appended to from where the session starts, and the
\* session is empty.
LEMMA InitializeSound ==
    ASSUME WInv, NEW create \in BOOLEAN, Initialize(create) PROVE WInv'
<1>1. /\ handle = "closed" /\ handle' = "ready" /\ file' = WithHeader(file)
      /\ appendOffset' = FirstOffset(create) /\ accepted' = {}
      /\ start' = IF create THEN HeaderSize ELSE file'.size
  BY DEF Initialize
<1>2. FileSound(file) /\ WriterSound(writer) /\ writer.buffer = {}
  BY <1>1 DEF WInv
<1>3. FileSound(file') /\ file'.size = Larger(file.size, HeaderSize)
  BY <1>1, <1>2, HeaderSound
<1>4. /\ start' = appendOffset' /\ start' \in Nat /\ HeaderSize <= start'
  <2>1. file.size \in Nat
    BY <1>2 DEF FileSound
  <2>. QED  BY <1>1, <1>3, <2>1, Layout DEF FirstOffset, Larger
<1>5. bad' \in BOOLEAN /\ WriterSound(writer') /\ writer'.buffer = {}
  <2>1. CASE create \/ file'.size <= HeaderSize
    BY <1>2, <2>1 DEF Initialize
  <2>2. CASE ~ (create \/ file'.size <= HeaderSize)
    <3>1. bad' = Scan(file').short /\ writer' = Restored(file')
      BY <2>2 DEF Initialize
    <3>2. Scan(file').short \in BOOLEAN
      BY <1>3, ScanType DEF ScanState
    <3>3. WriterSound(Restored(file')) /\ Restored(file').buffer = {}
      BY <1>2, <1>3, RestoredSound
    <3>. QED  BY <3>1, <3>2, <3>3
  <2>. QED  BY <2>1, <2>2
<1>6. Places(file', start', appendOffset') = {}
  BY <1>3, <1>4, RecordFields DEF Places
<1>7. SessionSound(file', start', appendOffset', writer'.buffer, accepted')
  BY <1>1, <1>5, <1>6 DEF SessionSound
<1>8. OnDisk(file', start', accepted', writer'.lastFlushedLsn)
  BY <1>1 DEF OnDisk
<1>. QED  BY <1>1, <1>3, <1>4, <1>5, <1>7, <1>8 DEF WInv

\* appendRecord, accepted or not: the LSN is taken.
LEMMA AppendSound ==
    ASSUME WInv, NEW size \in BodySizes, NEW valid \in BOOLEAN, Append(size, valid)
    PROVE  WInv'
<1>. DEFINE ok == valid /\ Fits(size)
            n == writer.nextLsn
            e == [at |-> writer.used, size |-> size, lsn |-> n]
<1>1. /\ handle = "ready" /\ writer' = AfterAppend(writer, size, ok)
      /\ accepted' = IF ok THEN accepted \cup {n} ELSE accepted
      /\ file' = file /\ handle' = handle /\ bad' = bad
      /\ appendOffset' = appendOffset /\ start' = start
  BY DEF Append, Ready
<1>2. /\ WriterSound(writer) /\ BufferSound(writer.buffer, writer.used)
      /\ n \in Nat /\ writer.currentLsn \in Nat /\ writer.lastFlushedLsn \in Nat
      /\ writer.lastFlushedLsn <= writer.currentLsn /\ writer.currentLsn < n
      /\ \A d \in writer.buffer : writer.lastFlushedLsn < d.lsn /\ d.lsn < n
  BY DEF WInv, WriterSound
<1>3. /\ FileSound(file) /\ accepted \subseteq Nat /\ \A m \in accepted : m < n
      /\ OnDisk(file, start, accepted, writer.lastFlushedLsn)
      /\ ~ bad => SessionSound(file, start, appendOffset, writer.buffer, accepted)
  BY <1>1 DEF WInv
<1>4. \A d \in writer.buffer : d.lsn \in Nat
  BY <1>2 DEF BufferSound
<1>5. CASE ok
  <2>1. /\ writer'.used = writer.used + PrefixSize + size
        /\ writer'.buffer = writer.buffer \cup {e}
        /\ writer'.nextLsn = n + 1 /\ writer'.currentLsn = n
        /\ writer'.lastFlushedLsn = writer.lastFlushedLsn
        /\ writer' = [used |-> writer'.used, buffer |-> writer'.buffer,
                      nextLsn |-> writer'.nextLsn, currentLsn |-> writer'.currentLsn,
                      lastFlushedLsn |-> writer'.lastFlushedLsn]
    <3>1. writer' = [writer EXCEPT !.currentLsn = n, !.nextLsn = n + 1,
                                   !.used = writer.used + PrefixSize + size,
                                   !.buffer = writer.buffer \cup {e}]
      BY <1>1, <1>5 DEF AfterAppend
    <3>2. writer = [used |-> writer.used, buffer |-> writer.buffer,
                    nextLsn |-> writer.nextLsn, currentLsn |-> writer.currentLsn,
                    lastFlushedLsn |-> writer.lastFlushedLsn]
      BY <1>2 DEF WriterSound
    <3>. HIDE DEF e, n
    <3>. QED  BY <3>1, <3>2
  <2>2. /\ BufferSound(writer'.buffer, writer'.used)
        /\ ~ bad => SessionSound(file, start, appendOffset, writer'.buffer, accepted')
    <3>1. Behind(n, accepted, writer.buffer)
      BY <1>2, <1>3 DEF Behind
    <3>. HIDE DEF n
    <3>2. /\ BufferSound(writer.buffer \cup {e}, writer.used + PrefixSize + size)
          /\ SessionSound(file, start, appendOffset, writer.buffer, accepted) =>
                 SessionSound(file, start, appendOffset, writer.buffer \cup {e},
                              accepted \cup {n})
      BY <1>2, <1>3, <3>1, AppendSession
    <3>. QED  BY <1>1, <1>3, <1>5, <2>1, <3>2
  <2>3. \A d \in writer'.buffer : writer'.lastFlushedLsn < d.lsn /\ d.lsn < writer'.nextLsn
    <3>1. e.lsn = n
      OBVIOUS
    <3>. HIDE DEF e, n
    <3>. QED  BY <1>2, <1>4, <2>1, <3>1
  <2>4. WriterSound(writer')
    <3>. HIDE DEF n
    <3>. QED  BY <1>2, <2>1, <2>2, <2>3 DEF WriterSound
  <2>5. accepted' \subseteq Nat /\ \A m \in accepted' : m < writer'.nextLsn
    <3>. HIDE DEF n
    <3>. QED  BY <1>1, <1>2, <1>3, <1>5, <2>1
  <2>6. OnDisk(file, start, accepted', writer'.lastFlushedLsn)
    <3>1. ~ (n <= writer.lastFlushedLsn)
      BY <1>2
    <3>. HIDE DEF n
    <3>. QED  BY <1>1, <1>3, <1>5, <2>1, <3>1 DEF OnDisk
  <2>. QED  BY <1>1, <2>2, <2>4, <2>5, <2>6 DEF WInv
<1>6. CASE ~ ok
  <2>1. /\ writer'.buffer = writer.buffer /\ writer'.used = writer.used
        /\ writer'.nextLsn = n + 1 /\ writer'.currentLsn = n
        /\ writer'.lastFlushedLsn = writer.lastFlushedLsn
        /\ writer' = [used |-> writer'.used, buffer |-> writer'.buffer,
                      nextLsn |-> writer'.nextLsn, currentLsn |-> writer'.currentLsn,
                      lastFlushedLsn |-> writer'.lastFlushedLsn]
    <3>1. writer' = [writer EXCEPT !.currentLsn = n, !.nextLsn = n + 1,
                                   !.used = writer.used, !.buffer = writer.buffer]
      BY <1>1, <1>6 DEF AfterAppend
    <3>2. writer = [used |-> writer.used, buffer |-> writer.buffer,
                    nextLsn |-> writer.nextLsn, currentLsn |-> writer.currentLsn,
                    lastFlushedLsn |-> writer.lastFlushedLsn]
      BY <1>2 DEF WriterSound
    <3>. HIDE DEF n
    <3>. QED  BY <3>1, <3>2
  <2>2. accepted' = accepted
    BY <1>1, <1>6
  <2>. HIDE DEF n, ok
  <2>3. WriterSound(writer')
    BY <1>2, <1>4, <2>1 DEF WriterSound
  <2>4. \A m \in accepted : m < writer'.nextLsn
    BY <1>2, <1>3, <2>1
  <2>. QED  BY <1>1, <1>3, <2>1, <2>2, <2>3, <2>4 DEF WInv
<1>. QED  BY <1>5, <1>6

\* A writer whose buffer is emptied, flushed or not.
LEMMA EmptiedSound ==
    ASSUME NEW w, WriterSound(w)
    PROVE  /\ WriterSound(Drained(w)) /\ Drained(w).buffer = {}
           /\ Drained(w).nextLsn = w.nextLsn
           /\ WriterSound([w EXCEPT !.used = 0, !.buffer = {}])
           /\ [w EXCEPT !.used = 0, !.buffer = {}].buffer = {}
           /\ [w EXCEPT !.used = 0, !.buffer = {}].nextLsn = w.nextLsn
           /\ [w EXCEPT !.used = 0, !.buffer = {}].lastFlushedLsn = w.lastFlushedLsn
<1>. DEFINE u == w.used
            B == w.buffer
            n == w.nextLsn
            c == w.currentLsn
            l == w.lastFlushedLsn
            d == Drained(w)
            e == [w EXCEPT !.used = 0, !.buffer = {}]
<1>1. w = [used |-> u, buffer |-> B, nextLsn |-> n, currentLsn |-> c,
           lastFlushedLsn |-> l]
  BY DEF WriterSound
<1>2. n \in Nat /\ c \in Nat /\ l \in Nat /\ l <= c /\ c < n
  BY DEF WriterSound
<1>3. /\ d = [w EXCEPT !.used = 0, !.buffer = {}, !.lastFlushedLsn = c]
      /\ e = [w EXCEPT !.used = 0, !.buffer = {}]
  BY DEF Drained
<1>. HIDE DEF u, B, n, c, l, d, e
<1>4. /\ d = [used |-> 0, buffer |-> {}, nextLsn |-> n, currentLsn |-> c,
              lastFlushedLsn |-> c]
      /\ e = [used |-> 0, buffer |-> {}, nextLsn |-> n, currentLsn |-> c,
              lastFlushedLsn |-> l]
  BY <1>1, <1>3
<1>5. WriterSound(d) /\ d.buffer = {} /\ d.nextLsn = n
  BY <1>2, <1>4 DEF WriterSound, BufferSound
<1>6. WriterSound(e) /\ e.buffer = {} /\ e.nextLsn = n /\ e.lastFlushedLsn = l
  BY <1>2, <1>4 DEF WriterSound, BufferSound
<1>. QED  BY <1>5, <1>6 DEF d, e, n, l

\* What a flush finds, and what count bytes of it leave.
LEMMA FlushWrites ==
    ASSUME WInv, Ready, NEW count \in Nat
    PROVE  LET g == Written(file, appendOffset, writer.buffer, count)
           IN  FileSound(g) /\ WrittenAs(file, appendOffset, writer.buffer, count, g)
<1>1. /\ FileSound(file) /\ BufferSound(writer.buffer, writer.used)
      /\ appendOffset \in Nat /\ HeaderSize <= appendOffset
  BY Layout DEF WInv, WriterSound
<1>. QED  BY <1>1, WrittenSound

\* flush: the buffer's records are behind the others, and all are on disk.
LEMMA BufferToFileSound ==
    ASSUME WInv, BufferToFile
    PROVE  LET count == Padded(appendOffset, writer.used)
           IN  /\ count \in Nat /\ FileSound(file')
               /\ WrittenAs(file, appendOffset, writer.buffer, count, file')
               /\ WriterSound(writer') /\ writer'.buffer = {}
               /\ writer'.nextLsn = writer.nextLsn
               /\ SessionSound(file', start, appendOffset + count, {}, accepted)
               /\ OnDisk(file', start, accepted, writer'.lastFlushedLsn)
<1>. DEFINE count == Padded(appendOffset, writer.used)
            B == writer.buffer
<1>1. /\ Ready /\ ~ bad /\ writer' = Drained(writer)
      /\ file' = Written(file, appendOffset, B, count)
  BY DEF BufferToFile
<1>2. /\ FileSound(file) /\ WriterSound(writer) /\ BufferSound(B, writer.used)
      /\ start \in Nat /\ appendOffset \in Nat /\ start <= appendOffset
      /\ SessionSound(file, start, appendOffset, B, accepted)
  BY <1>1 DEF WInv, WriterSound, Ready
<1>3. count \in Nat /\ writer.used <= count
  <2>1. writer.used \in Nat
    BY <1>2 DEF BufferSound
  <2>. QED  BY <1>2, <2>1, PaddedBounds
<1>. HIDE DEF count
<1>4. FileSound(file') /\ WrittenAs(file, appendOffset, B, count, file')
  BY <1>1, <1>3, FlushWrites
<1>5. /\ WriterSound(writer') /\ writer'.buffer = {} /\ writer'.nextLsn = writer.nextLsn
  BY <1>1, <1>2, EmptiedSound
<1>. HIDE DEF B
<1>6. SessionSound(file', start, appendOffset + count, {}, accepted)
  BY <1>2, <1>3, <1>4, FlushSession
<1>7. OnDisk(file', start, accepted, writer'.lastFlushedLsn)
  <2>1. writer'.lastFlushedLsn \in Nat
    BY <1>5 DEF WriterSound
  <2>. QED  BY <1>6, <2>1, SessionOnDisk
<1>. QED  BY <1>3, <1>4, <1>5, <1>6, <1>7 DEF count, B

\* flush.
LEMMA FlushSound == ASSUME WInv, Flush PROVE WInv'
<1>. DEFINE count == Padded(appendOffset, writer.used)
<1>1. /\ BufferToFile /\ appendOffset' = appendOffset + count
      /\ handle' = handle /\ bad' = bad /\ start' = start /\ accepted' = accepted
  BY DEF Flush
<1>2. handle = "ready"
  BY <1>1 DEF BufferToFile, Ready
<1>3. /\ count \in Nat /\ FileSound(file') /\ WriterSound(writer')
      /\ writer'.buffer = {} /\ writer'.nextLsn = writer.nextLsn
      /\ SessionSound(file', start, appendOffset + count, {}, accepted)
      /\ OnDisk(file', start, accepted, writer'.lastFlushedLsn)
  BY <1>1, BufferToFileSound
<1>. HIDE DEF count
<1>4. appendOffset' \in Nat /\ HeaderSize <= start /\ start <= appendOffset' /\ start \in Nat
  BY <1>1, <1>3, Layout DEF WInv
<1>5. accepted \subseteq Nat /\ \A n \in accepted : n < writer'.nextLsn
  BY <1>3 DEF WInv
<1>6. bad \in BOOLEAN /\ handle \in {"closed", "open", "ready"}
  BY DEF WInv
<1>. QED  BY <1>1, <1>2, <1>3, <1>4, <1>5, <1>6 DEF WInv

\* flush meets an error: what counted as flushed before is still in the file.
LEMMA FlushFailsSound ==
    ASSUME WInv, NEW count \in Nat, NEW cleared \in BOOLEAN, FlushFails(count, cleared)
    PROVE  WInv'
<1>1. /\ handle = "ready" /\ ~ bad /\ bad' = TRUE
      /\ file' = Written(file, appendOffset, writer.buffer, count)
      /\ writer' = IF cleared THEN [writer EXCEPT !.used = 0, !.buffer = {}] ELSE writer
      /\ handle' = handle /\ start' = start /\ accepted' = accepted
  BY DEF FlushFails, Ready
<1>2. /\ FileSound(file) /\ WriterSound(writer)
      /\ start \in Nat /\ appendOffset \in Nat /\ HeaderSize <= start /\ start <= appendOffset
      /\ SessionSound(file, start, appendOffset, writer.buffer, accepted)
      /\ accepted \subseteq Nat /\ \A n \in accepted : n < writer.nextLsn
  BY <1>1 DEF WInv
<1>3. /\ FileSound(file') /\ WrittenAs(file, appendOffset, writer.buffer, count, file')
  BY <1>1, FlushWrites DEF Ready
<1>4. /\ WriterSound(writer') /\ writer'.nextLsn = writer.nextLsn
      /\ writer'.lastFlushedLsn = writer.lastFlushedLsn
  BY <1>1, <1>2, EmptiedSound
<1>5. /\ writer.lastFlushedLsn \in Nat
      /\ \A e \in writer.buffer : e.lsn \in Nat /\ writer.lastFlushedLsn < e.lsn
  BY <1>2 DEF WriterSound, BufferSound
<1>6. OnDisk(file', start, accepted, writer.lastFlushedLsn)
  BY <1>2, <1>3, <1>5, TornOnDisk
<1>7. appendOffset' \in Nat /\ start <= appendOffset'
  <2>1. writer.used \in Nat
    BY <1>2 DEF WriterSound, BufferSound
  <2>2. Padded(appendOffset, writer.used) \in Nat
    BY <1>2, <2>1, PaddedBounds
  <2>. DEFINE step == IF cleared THEN Padded(appendOffset, writer.used)
                      ELSE IF count >= writer.used THEN writer.used ELSE 0
  <2>3. step \in Nat
    BY <2>1, <2>2
  <2>4. appendOffset' = appendOffset + step
    BY DEF FlushFails
  <2>. HIDE DEF step
  <2>. QED  BY <1>2, <2>3, <2>4
<1>. QED  BY <1>1, <1>2, <1>3, <1>4, <1>6, <1>7 DEF WInv

\* shutdown: the log is closed and nothing is left in the buffer.
LEMMA ShutdownSound == ASSUME WInv, Shutdown PROVE WInv'
<1>1. /\ BufferToFile /\ handle' = "closed" /\ appendOffset' = HeaderSize
      /\ start' = HeaderSize /\ accepted' = {} /\ bad' = bad
  BY DEF Shutdown, CloseFile
<1>2. FileSound(file') /\ WriterSound(writer') /\ writer'.buffer = {}
  BY <1>1, BufferToFileSound
<1>3. bad \in BOOLEAN /\ HeaderSize \in Nat /\ HeaderSize <= HeaderSize
  BY Layout DEF WInv
<1>. QED  BY <1>1, <1>2, <1>3 DEF WInv

\* The reader and validate: at most the stream fails.
LEMMA QuietSound ==
    ASSUME WInv, bad' \in BOOLEAN, bad => bad',
           UNCHANGED <<file, handle, appendOffset, writer, start, accepted>>
    PROVE  WInv'
BY DEF WInv

\* restoreWriterState: the buffer is empty, since nothing was accepted.
LEMMA RestoreSound == ASSUME WInv, RestoreWriterState PROVE WInv'
<1>1. /\ handle = "ready" /\ accepted = {} /\ file' = file /\ handle' = handle
      /\ appendOffset' = appendOffset /\ start' = start /\ accepted' = accepted
  BY DEF RestoreWriterState, Ready
<1>2. CASE bad
  <2>1. bad' = bad /\ writer' = writer
    BY <1>2 DEF RestoreWriterState
  <2>. QED  BY <1>1, <2>1 DEF WInv
<1>3. CASE ~ bad
  <2>1. bad' = Scan(file).short /\ writer' = Restored(file)
    BY <1>3 DEF RestoreWriterState
  <2>2. /\ FileSound(file) /\ WriterSound(writer)
        /\ SessionSound(file, start, appendOffset, writer.buffer, accepted)
    BY <1>1, <1>3 DEF WInv
  <2>3. writer.buffer = {} /\ Places(file, start, appendOffset) = {}
    BY <1>1, <2>2 DEF SessionSound
  <2>4. WriterSound(writer') /\ writer'.buffer = {}
    BY <2>1, <2>2, <2>3, RestoredSound
  <2>5. bad' \in BOOLEAN
    BY <2>1, <2>2, ScanType DEF ScanState
  <2>6. SessionSound(file', start', appendOffset', writer'.buffer, accepted')
    BY <1>1, <2>2, <2>3, <2>4
  <2>7. OnDisk(file', start', accepted', writer'.lastFlushedLsn)
    BY <1>1 DEF OnDisk
  <2>. QED  BY <1>1, <2>2, <2>4, <2>5, <2>6, <2>7 DEF WInv
<1>. QED  BY <1>2, <1>3

\* A process ends: the file is all that is left.
LEMMA ExitSound == ASSUME NEW f, FileSound(f), Exit(f) PROVE WInv'
<1>1. /\ handle' = "closed" /\ bad' = FALSE /\ appendOffset' = HeaderSize
      /\ start' = HeaderSize /\ accepted' = {} /\ writer' = NewWriter
  BY DEF Exit
<1>2. FileSound(file')
  <2>. DEFINE recs == [p \in DOMAIN f.records |-> [size |-> f.records[p].size, lsn |-> 1]]
  <2>1. file' = [f EXCEPT !.records = recs]
    BY DEF Exit
  <2>2. f = [size |-> f.size, records |-> f.records]
    BY DEF FileSound
  <2>3. file' = [size |-> f.size, records |-> recs]
    BY <2>1, <2>2
  <2>4. /\ DOMAIN recs = DOMAIN f.records
        /\ \A p \in DOMAIN f.records : recs[p].size = f.records[p].size /\ recs[p].lsn = 1
    OBVIOUS
  <2>. HIDE DEF recs
  <2>. QED  BY <2>3, <2>4 DEF FileSound
<1>3. HeaderSize \in Nat /\ HeaderSize <= HeaderSize
  BY Layout
<1>. QED  BY <1>1, <1>2, <1>3, NewWriterSound DEF WInv

\* A crash between two calls or in a flush.
LEMMA CrashSound ==
    ASSUME WInv, Crash \/ \E n \in 1 .. MaxFileSize : CrashInFlush(n) PROVE WInv'
<1>1. CASE Crash
  BY <1>1, ExitSound DEF Crash, WInv
<1>2. ASSUME NEW n \in 1 .. MaxFileSize, CrashInFlush(n) PROVE WInv'
  <2>. DEFINE g == Written(file, appendOffset, writer.buffer, n)
  <2>1. Ready /\ Exit(g) /\ n \in Nat
    BY <1>2 DEF CrashInFlush
  <2>2. FileSound(g)
    BY <2>1, FlushWrites
  <2>. HIDE DEF g
  <2>. QED  BY <2>1, <2>2, ExitSound
<1>. QED  BY <1>1, <1>2

\* Every step keeps the invariant.
LEMMA NextWInv == WInv /\ [Next]_vars => WInv'
<1>. SUFFICES ASSUME WInv, [Next]_vars PROVE WInv'
  OBVIOUS
<1>1. CASE \E create \in BOOLEAN : Initialize(create)
  BY <1>1, InitializeSound
<1>2. CASE InitializeFails
  BY <1>2, QuietSound DEF InitializeFails, WInv
<1>3. CASE \E size \in BodySizes, valid \in BOOLEAN : Append(size, valid)
  BY <1>3, AppendSound
<1>4. CASE Flush
  BY <1>4, FlushSound
<1>5. CASE \E n \in 0 .. MaxFileSize, cleared \in BOOLEAN : FlushFails(n, cleared)
  <2>1. PICK n \in 0 .. MaxFileSize, cleared \in BOOLEAN : FlushFails(n, cleared)
    BY <1>5
  <2>2. n \in Nat
    OBVIOUS
  <2>. QED  BY <2>1, <2>2, FlushFailsSound
<1>6. CASE Shutdown
  BY <1>6, ShutdownSound
<1>7. CASE ReadNext \/ Rewind \/ SeekReader \/ Validate
  <2>1. /\ bad' \in BOOLEAN /\ (bad => bad')
        /\ UNCHANGED <<file, handle, appendOffset, writer, start, accepted>>
    <3>1. bad \in BOOLEAN
      BY DEF WInv
    <3>2. CASE ReadNext
      BY <3>1, <3>2 DEF ReadNext
    <3>3. CASE Rewind
      BY <3>1, <3>3 DEF Rewind
    <3>4. CASE SeekReader
      BY <3>1, <3>4 DEF SeekReader
    <3>5. CASE Validate
      BY <3>1, <3>5 DEF Validate
    <3>. QED  BY <1>7, <3>2, <3>3, <3>4, <3>5
  <2>. QED  BY <2>1, QuietSound
<1>8. CASE RestoreWriterState
  BY <1>8, RestoreSound
<1>9. CASE Crash \/ \E n \in 1 .. MaxFileSize : CrashInFlush(n)
  BY <1>9, CrashSound
<1>10. CASE UNCHANGED vars
  BY <1>10 DEF vars, WInv
<1>. QED
  BY <1>1, <1>2, <1>3, <1>4, <1>5, <1>6, <1>7, <1>8, <1>9, <1>10 DEF Next

-----------------------------------------------------------------------------
(***************************************************************************)
(* The theorems.                                                           *)
(***************************************************************************)

\* The invariant holds in every reachable state.
THEOREM LogInvariance == Spec => []WInv
<1>. QED  BY InitWInv, NextWInv, PTL DEF Spec

\* The state functions of the properties, in terms of the invariant's.
LEMMA Named ==
    /\ Session = Places(file, start, appendOffset)
    /\ BufferLsns = {e.lsn : e \in writer.buffer}
    /\ LsnsAt(Session) = {file.records[p].lsn : p \in Places(file, start, appendOffset)}
    /\ FlushedOnDisk <=> OnDisk(file, start, accepted, writer.lastFlushedLsn)
<1>1. Session = Places(file, start, appendOffset)
  BY DEF Session, Places
<1>. QED  BY <1>1 DEF BufferLsns, LsnsAt, FlushedOnDisk, OnDisk

\* No flush, failed append, read or restore of the writer drops or repeats a record
\* that LogWriter::appendRecord accepted, and lastFlushedLsn() never runs ahead of
\* the file.
THEOREM NoRecordIsLost == Spec => []NothingLost
<1>1. WInv => NothingLost
  <2>. SUFFICES ASSUME WInv, handle = "ready"
                PROVE  /\ FlushedOnDisk
                       /\ ~ bad => /\ accepted = BufferLsns \cup LsnsAt(Session)
                                   /\ BufferLsns \cap LsnsAt(Session) = {}
    BY DEF NothingLost
  <2>1. FlushedOnDisk
    BY Named DEF WInv
  <2>2. ASSUME ~ bad
        PROVE  accepted = BufferLsns \cup LsnsAt(Session)
    BY <2>2, Named DEF WInv, SessionSound
  <2>3. ASSUME ~ bad PROVE BufferLsns \cap LsnsAt(Session) = {}
    <3>1. FileSound(file) /\ BufferSound(writer.buffer, writer.used)
      BY DEF WInv, WriterSound
    <3>2. \A p \in Places(file, start, appendOffset), e \in writer.buffer :
              file.records[p].lsn < e.lsn
      BY <2>3 DEF WInv, SessionSound
    <3>3. \A p \in Places(file, start, appendOffset) : file.records[p].lsn \in Nat
      BY <3>1, RecordFields DEF Places
    <3>4. \A e \in writer.buffer : e.lsn \in Nat
      BY <3>1 DEF BufferSound
    <3>5. \A p \in Places(file, start, appendOffset), e \in writer.buffer :
              file.records[p].lsn # e.lsn
      BY <3>2, <3>3, <3>4
    <3>. QED  BY <3>5, Named
  <2>. QED  BY <2>1, <2>2, <2>3
<1>. QED  BY <1>1, LogInvariance, PTL

\* LSNs increase with the bytes: through the file, then through the LogBuffer.
THEOREM LsnsAreOrdered == Spec => []LsnsOrdered
<1>1. WInv => LsnsOrdered
  <2>. SUFFICES ASSUME WInv PROVE LsnsOrdered
    OBVIOUS
  <2>1. ASSUME ~ bad
        PROVE  /\ \A p, q \in Session : p < q => file.records[p].lsn < file.records[q].lsn
               /\ \A p \in Session, e \in writer.buffer : file.records[p].lsn < e.lsn
    <3>1. CASE handle = "ready"
      BY <2>1, <3>1, Named DEF WInv, SessionSound
    <3>2. CASE handle # "ready"
      <4>1. start = appendOffset /\ start \in Nat /\ FileSound(file)
        BY <3>2 DEF WInv
      <4>2. Session = {}
        BY <4>1, RecordFields DEF Session
      <4>. QED  BY <4>2
    <3>. QED  BY <3>1, <3>2
  <2>2. /\ \A d, e \in writer.buffer : d.at < e.at => d.lsn < e.lsn
        /\ \A e \in writer.buffer : e.lsn < writer.nextLsn
    BY DEF WInv, WriterSound, BufferSound
  <2>. QED  BY <2>1, <2>2 DEF LsnsOrdered
<1>. QED  BY <1>1, LogInvariance, PTL

\* LogManager::validate refuses every log with any part of a record in it.
THEOREM RecordsAreRefused == Spec => []ValidateRefusesRecords
<1>1. WInv => ValidateRefusesRecords
  <2>. SUFFICES ASSUME WInv, Checked(file).ok, NEW p \in DOMAIN file.records PROVE FALSE
    BY DEF ValidateRefusesRecords
  <2>1. FileSound(file)
    BY DEF WInv
  <2>2. file.size <= HeaderSize
    BY <2>1, CheckedRefuses
  <2>3. HeaderSize <= p /\ p < file.size /\ p \in Nat /\ file.size \in Nat
    BY <2>1, RecordFields
  <2>. QED  BY <2>2, <2>3, Layout
<1>. QED  BY <1>1, LogInvariance, PTL

\* A record before the session's start is where it was after a step.
LEMMA HistoryStep ==
    ASSUME WInv, [Next]_vars, NEW p \in DOMAIN file.records, p < start
    PROVE  /\ p \in DOMAIN file'.records
           /\ handle' = "ready" => file'.records[p] = file.records[p]
<1>. DEFINE Goal == /\ p \in DOMAIN file'.records
                    /\ handle' = "ready" => file'.records[p] = file.records[p]
<1>1. FileSound(file) /\ p < appendOffset
  <2>1. FileSound(file) /\ start \in Nat /\ appendOffset \in Nat /\ start <= appendOffset
    BY DEF WInv
  <2>. QED  BY <2>1, RecordFields
<1>2. ASSUME Ready, NEW n \in Nat
      PROVE  LET g == Written(file, appendOffset, writer.buffer, n)
             IN  p \in DOMAIN g.records /\ g.records[p] = file.records[p]
  BY <1>1, <1>2, FlushWrites DEF WrittenAs
<1>3. ASSUME NEW f, p \in DOMAIN f.records, FileSound(f), Exit(f) PROVE Goal
  <2>. DEFINE recs == [q \in DOMAIN f.records |-> [size |-> f.records[q].size, lsn |-> 1]]
  <2>1. file' = [f EXCEPT !.records = recs] /\ handle' = "closed"
    BY <1>3 DEF Exit
  <2>2. f = [size |-> f.size, records |-> f.records] /\ DOMAIN recs = DOMAIN f.records
    BY <1>3 DEF FileSound
  <2>. HIDE DEF recs
  <2>3. file'.records = recs
    BY <2>1, <2>2
  <2>. QED  BY <1>3, <2>1, <2>2, <2>3
<1>4. CASE \E create \in BOOLEAN : Initialize(create)
  <2>1. file'.records = file.records
    BY <1>1, <1>4, HeaderSound DEF Initialize
  <2>. QED  BY <2>1
<1>5. CASE Flush \/ Shutdown
  <2>1. Ready /\ file' = Written(file, appendOffset, writer.buffer,
                                 Padded(appendOffset, writer.used))
    BY <1>5 DEF Flush, Shutdown, BufferToFile
  <2>2. Padded(appendOffset, writer.used) \in Nat
    BY PaddedBounds DEF WInv, WriterSound, BufferSound
  <2>. QED  BY <1>2, <2>1, <2>2
<1>6. ASSUME NEW n \in 0 .. MaxFileSize, NEW cleared \in BOOLEAN, FlushFails(n, cleared)
      PROVE  Goal
  <2>1. Ready /\ file' = Written(file, appendOffset, writer.buffer, n) /\ n \in Nat
    BY <1>6 DEF FlushFails
  <2>. QED  BY <1>2, <2>1
<1>7. CASE Crash
  BY <1>1, <1>3, <1>7 DEF Crash
<1>8. ASSUME NEW n \in 1 .. MaxFileSize, CrashInFlush(n) PROVE Goal
  <2>. DEFINE g == Written(file, appendOffset, writer.buffer, n)
  <2>1. Ready /\ Exit(g) /\ n \in Nat
    BY <1>8 DEF CrashInFlush
  <2>2. FileSound(g) /\ p \in DOMAIN g.records
    BY <1>2, <2>1, FlushWrites
  <2>. HIDE DEF g
  <2>. QED  BY <1>3, <2>1, <2>2
<1>9. CASE file' = file
  BY <1>9
<1>10. CASE \/ InitializeFails \/ ReadNext \/ Rewind \/ SeekReader \/ Validate
            \/ RestoreWriterState \/ UNCHANGED vars
            \/ \E size \in BodySizes, valid \in BOOLEAN : Append(size, valid)
  <2>1. file' = file
    BY <1>10
    DEF InitializeFails, ReadNext, Rewind, SeekReader, Validate, RestoreWriterState,
        Append, vars
  <2>. QED  BY <1>9, <2>1
<1>. QED  BY <1>4, <1>5, <1>6, <1>7, <1>8, <1>10 DEF Next

\* What was in the file when LogFile::open opened it is not touched by appends,
\* flushes and torn flushes.
THEOREM HistoryIsKept == Spec => HistoryKept
<1>1. WInv /\ [Next]_vars =>
          [\A p \in DOMAIN file.records :
              p < start => /\ p \in DOMAIN file'.records
                           /\ handle' = "ready" => file'.records[p] = file.records[p]]_vars
  BY HistoryStep
<1>. QED  BY <1>1, LogInvariance, PTL DEF Spec, HistoryKept
=============================================================================
