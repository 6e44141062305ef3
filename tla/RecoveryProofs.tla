--------------------------- MODULE RecoveryProofs ---------------------------
(***************************************************************************)
(* Theorems about recover(), for every log in the documented layout, of any*)
(* length, with any keys and values.                                       *)
(*                                                                         *)
(* The argument: replay() lays the records behind a checkpoint over the    *)
(* tree it starts from (Overlay), record by record; the snapshot in a      *)
(* checkpoint is the overlay of the records before it; and an overlay on   *)
(* an overlay is one overlay.                                              *)
(***************************************************************************)
EXTENDS Recovery, WellFoundedInduction, TLAPS

Trees == [Keys -> Values \cup {Absent}]

\* The records of a log.
Updates == [type : {"PageUpdate"}, lsn : Nat, payload : {"good", "bad"},
            content : [key : Keys, value : Values \cup {Absent}]]
Deletes == [type : {"PageDelete"}, lsn : Nat, payload : {"good", "bad"},
            content : [key : Keys, value : {Absent}]]
Checkpoints == [type : {"CheckpointMarker"}, lsn : Nat,
                payload : {"good", "bad", "bad tree"}, content : Trees]
Others == [type : {"Structural", "Invalid"}, lsn : Nat, payload : {"good"},
           content : {<<>>}]
Records == Updates \cup Deletes \cup Checkpoints \cup Others

\* The records of the log l about a key that replay() has seen after i turns,
\* when it skips the first c.
Seen(l, k, c, i) ==
    {j \in c + 1 .. i : l[j].type \in {"PageUpdate", "PageDelete"} /\ l[j].content.key = k}

\* A tree with the records from c + 1 to i laid over it.
Overlay(l, t, c, i) ==
    [k \in Keys |-> IF Seen(l, k, c, i) = {} THEN t[k]
                    ELSE l[Max(Seen(l, k, c, i))].content.value]

\* Every checkpoint holds what the records before it say.
Snapshots(l) ==
    \A i \in 1 .. Len(l) :
        l[i].type = "CheckpointMarker" => l[i].content = Overlay(l, EmptyTree, 0, i - 1)

\* The inductive invariant.
RInv == log \in Seq(Records) /\ torn \in BOOLEAN /\ Snapshots(log)

-----------------------------------------------------------------------------
(* Induction and largest elements.                                         *)

\* Induction up to a bound, over a set of numbers.
LEMMA UpTo ==
    ASSUME NEW n \in Nat, NEW T, 0 \in T, \A k \in 1 .. n : k - 1 \in T => k \in T
    PROVE  0 .. n \subseteq T
<1> DEFINE R == {p \in Nat \X Nat : p[1] < p[2]}
           S == {k \in 0 .. n : k \notin T}
<1>1. IsWellFoundedOn(R, Nat)
  BY NatLessThanWellFounded DEF OpToRel
<1> SUFFICES ASSUME S # {} PROVE FALSE
  OBVIOUS
<1>2. S \in SUBSET Nat
  OBVIOUS
<1> HIDE DEF R, S
<1>3. PICK m \in S : \A k \in S : ~ (<<k, m>> \in R)
  BY <1>1, <1>2, WFMin
<1>4. m \in 1 .. n /\ m \notin T /\ m - 1 \in 0 .. n
  BY DEF S
<1>5. m - 1 \in T
  <2>1. <<m - 1, m>> \in R
    BY <1>4 DEF R
  <2>2. m - 1 \notin S
    BY <1>3, <2>1
  <2> QED
    BY <1>4, <2>2 DEF S
<1> QED
  BY <1>4, <1>5

\* A set of numbers up to a bound has a largest one, and Max finds it.
LEMMA MaxIs ==
    ASSUME NEW n \in Nat, NEW S \in SUBSET (0 .. n), S # {}
    PROVE  Max(S) \in S /\ \A m \in S : m <= Max(S)
<1> DEFINE Above(k) == \E m \in S : m + k >= n
           T == {k \in 0 .. n : ~ Above(k)}
<1>1. SUFFICES \E m \in S : \A j \in S : m >= j
  BY <1>1 DEF Max
<1>2. CASE 0 \notin T
  BY <1>2
<1>3. CASE 0 \in T
  <2>1. ~ \A k \in 1 .. n : k - 1 \in T => k \in T
    <3>1. PICK m \in S : TRUE
      OBVIOUS
    <3>2. n - m \in 0 .. n /\ n - m \notin T
      BY <3>1
    <3> HIDE DEF T
    <3> QED
      BY <1>3, <3>2, UpTo
  <2>2. PICK k \in 1 .. n : k - 1 \in T /\ k \notin T
    BY <2>1
  <2>3. PICK m \in S : m + k >= n
    BY <2>2
  <2>4. \A j \in S : ~ (j + (k - 1) >= n)
    BY <2>2
  <2> QED
    BY <2>3, <2>4
<1> QED
  BY <1>2, <1>3

\* A set of numbers has a smallest one, and Min finds it.
LEMMA MinIs ==
    ASSUME NEW n \in Nat, NEW S \in SUBSET (0 .. n), S # {}
    PROVE  Min(S) \in S /\ \A m \in S : Min(S) <= m
<1> DEFINE M == {n - m : m \in S}
<1>1. M \in SUBSET (0 .. n) /\ M # {}
  <2>1. PICK m \in S : TRUE
    OBVIOUS
  <2>2. n - m \in M
    BY <2>1
  <2> QED
    BY <2>2
<1>2. PICK m \in S : Max(M) = n - m
  <2>1. Max(M) \in M
    BY <1>1, MaxIs
  <2> QED
    BY <2>1
<1>3. \A j \in S : n - j <= n - m
  <2>1. \A x \in M : x <= Max(M)
    BY <1>1, MaxIs
  <2> QED
    BY <1>2, <2>1
<1>4. \A j \in S : m <= j
  BY <1>3
<1> QED
  BY <1>4 DEF Min

\* There is the sequence x, s[1][x], s[2][s[1][x]] and so on.
Iterated(S, x, s, n) ==
    \E g \in [0 .. n -> S] : g[0] = x /\ \A k \in 1 .. n : g[k] = s[k][g[k - 1]]

\* A loop whose turns stay in a set of states runs.
LEMMA Iterates ==
    ASSUME NEW S, NEW x \in S, NEW n \in Nat, NEW s \in [1 .. n -> [S -> S]]
    PROVE  Iterated(S, x, s, n)
<1> DEFINE Runs(k) == \E g \in [0 .. k -> S] :
                          g[0] = x /\ \A j \in 1 .. k : g[j] = s[j][g[j - 1]]
           T == {k \in 0 .. n : Runs(k)}
<1>1. 0 \in T
  <2> DEFINE g == [j \in 0 .. 0 |-> x]
  <2>1. g \in [0 .. 0 -> S] /\ g[0] = x /\ \A j \in 1 .. 0 : g[j] = s[j][g[j - 1]]
    OBVIOUS
  <2> HIDE DEF g
  <2>2. Runs(0)
    BY <2>1
  <2> QED
    BY <2>2
<1>2. ASSUME NEW k \in 1 .. n, k - 1 \in T PROVE k \in T
  <2>1. PICK g \in [0 .. k - 1 -> S] : g[0] = x /\ \A j \in 1 .. k - 1 : g[j] = s[j][g[j - 1]]
    BY <1>2
  <2> DEFINE h == [j \in 0 .. k |-> IF j = k THEN s[k][g[k - 1]] ELSE g[j]]
  <2>2. h \in [0 .. k -> S] /\ h[0] = x
    BY <2>1
  <2>3. \A j \in 1 .. k : h[j] = s[j][h[j - 1]]
    BY <2>1
  <2> HIDE DEF h
  <2>4. Runs(k)
    BY <2>2, <2>3
  <2>5. k \in 0 .. n
    OBVIOUS
  <2> HIDE DEF Runs
  <2> QED
    BY <2>4, <2>5
<1> HIDE DEF T
<1>3. n \in T
  <2>1. 0 .. n \subseteq T
    BY <1>1, <1>2, UpTo
  <2> QED
    BY <2>1
<1>4. Runs(n)
  <2> HIDE DEF Runs
  <2> QED
    BY <1>3 DEF T
<1> QED
  BY <1>4 DEF Iterated

-----------------------------------------------------------------------------
(* Overlays.                                                               *)

\* The records seen, and the last of them.
LEMMA SeenIs ==
    ASSUME NEW l, NEW k, NEW c \in Nat, NEW i \in Nat
    PROVE  /\ Seen(l, k, c, i) \subseteq c + 1 .. i
           /\ Seen(l, k, c, i) # {} =>
                 /\ Max(Seen(l, k, c, i)) \in Seen(l, k, c, i)
                 /\ \A j \in Seen(l, k, c, i) : j <= Max(Seen(l, k, c, i))
<1>1. Seen(l, k, c, i) \in SUBSET (0 .. i)
  BY DEF Seen
<1> QED
  BY <1>1, MaxIs DEF Seen

\* There is one largest element.
LEMMA MaxOf ==
    ASSUME NEW n \in Nat, NEW S \in SUBSET (0 .. n), NEW m \in S, \A j \in S : j <= m
    PROVE  Max(S) = m
<1>1. Max(S) \in S /\ m <= Max(S)
  BY MaxIs
<1>2. Max(S) \in 0 .. n /\ m \in 0 .. n
  BY <1>1
<1>3. Max(S) <= m
  BY <1>1
<1> QED
  BY <1>1, <1>2, <1>3

Agree(l, m, i) == \A j \in 1 .. i : l[j] = m[j]

\* Logs that agree up to i have the same overlays.
LEMMA OverlayAgrees ==
    ASSUME NEW l, NEW m, NEW t, NEW c \in Nat, NEW i \in Nat,
           Agree(l, m, i)
    PROVE  Overlay(l, t, c, i) = Overlay(m, t, c, i)
<1>1. ASSUME NEW k \in Keys PROVE Seen(l, k, c, i) = Seen(m, k, c, i)
  BY DEF Seen, Agree
<1>2. ASSUME NEW k \in Keys, Seen(l, k, c, i) # {}
      PROVE  l[Max(Seen(l, k, c, i))] = m[Max(Seen(l, k, c, i))]
  <2>1. Max(Seen(l, k, c, i)) \in 1 .. i
    BY <1>2, SeenIs
  <2> QED
    BY <2>1 DEF Agree
<1> QED
  BY <1>1, <1>2 DEF Overlay

\* Nothing laid over a tree.
LEMMA OverlayNothing ==
    ASSUME NEW l, NEW t \in Trees, NEW c \in Nat, NEW i \in Nat, i <= c
    PROVE  Overlay(l, t, c, i) = t
<1>1. \A k \in Keys : Seen(l, k, c, i) = {}
  BY DEF Seen
<1> QED
  BY <1>1 DEF Overlay, Trees

\* Whether a record is about keys at all.
IsChange(r) == r.type \in {"PageUpdate", "PageDelete"}

\* A record that is about no key changes no overlay.
LEMMA OverlaySkips ==
    ASSUME NEW l, NEW t, NEW c \in Nat, NEW i \in Nat, c < i, ~ IsChange(l[i])
    PROVE  Overlay(l, t, c, i) = Overlay(l, t, c, i - 1)
<1>1. ASSUME NEW k \in Keys PROVE Seen(l, k, c, i) = Seen(l, k, c, i - 1)
  BY DEF Seen, IsChange
<1> QED
  BY <1>1 DEF Overlay

\* A record about a key gives that key its value.
LEMMA OverlayChanges ==
    ASSUME NEW l, NEW t, NEW c \in Nat, NEW i \in Nat, c < i, IsChange(l[i]),
           l[i].content.key \in Keys
    PROVE  Overlay(l, t, c, i) =
               [Overlay(l, t, c, i - 1) EXCEPT ![l[i].content.key] = l[i].content.value]
<1> DEFINE key == l[i].content.key
<1>1. Seen(l, key, c, i) # {} /\ Max(Seen(l, key, c, i)) = i
  <2>1. i \in Seen(l, key, c, i)
    BY DEF Seen, IsChange
  <2>2. Seen(l, key, c, i) \in SUBSET (0 .. i) /\ \A j \in Seen(l, key, c, i) : j <= i
    BY SeenIs
  <2> QED
    BY <2>1, <2>2, MaxOf
<1>2. ASSUME NEW k \in Keys, k # key PROVE Seen(l, k, c, i) = Seen(l, k, c, i - 1)
  BY <1>2 DEF Seen
<1> QED
  BY <1>1, <1>2 DEF Overlay

\* An overlay on an overlay, whether or not the inner one has the outer one's
\* records already.
LEMMA OverlayTwice ==
    ASSUME NEW l, NEW t, NEW c \in Nat, NEW i \in Nat, c <= i, NEW m \in {c, i}
    PROVE  Overlay(l, Overlay(l, t, 0, m), c, i) = Overlay(l, t, 0, i)
<1> SUFFICES ASSUME NEW k \in Keys
             PROVE  Overlay(l, Overlay(l, t, 0, m), c, i)[k] = Overlay(l, t, 0, i)[k]
  BY DEF Overlay
<1> DEFINE behind == Seen(l, k, c, i)
           all == Seen(l, k, 0, i)
<1>1. behind \subseteq all /\ all \in SUBSET (0 .. i)
  BY DEF Seen
<1>2. CASE behind = {}
  <2>1. Seen(l, k, 0, m) = all
    BY <1>2 DEF Seen
  <2> QED
    BY <1>2, <2>1 DEF Overlay
<1>3. CASE behind # {}
  <2>1. Max(behind) \in behind /\ \A j \in behind : j <= Max(behind)
    BY <1>3, SeenIs
  <2>2. \A j \in all : j <= Max(behind)
    BY <2>1 DEF Seen
  <2>3. Max(all) = Max(behind) /\ all # {}
    BY <1>1, <2>1, <2>2, MaxOf
  <2> QED
    BY <1>3, <2>3 DEF Overlay
<1> QED
  BY <1>2, <1>3

\* What the log says is its overlay on an empty tree.
LEMMA HistoryIs ==
    ASSUME log \in Seq(Records)
    PROVE  History = Overlay(log, EmptyTree, 0, Len(log))
<1>1. ASSUME NEW k \in Keys PROVE About(k) = Seen(log, k, 0, Len(log))
  BY DEF About, Seen
<1> QED
  BY <1>1 DEF History, Overlay, EmptyTree

-----------------------------------------------------------------------------
(* The log only grows by records of the layout, or is cut behind one.      *)

\* A record that is appended keeps the snapshots, if it is one of them or not.
LEMMA AppendKeeps ==
    ASSUME RInv, NEW r \in Records, log' = Append(log, r),
           r.type = "CheckpointMarker" => r.content = History
    PROVE  log' \in Seq(Records) /\ Snapshots(log')
<1>1. /\ log \in Seq(Records) /\ Len(log) \in Nat
      /\ log' \in Seq(Records) /\ Len(log') = Len(log) + 1 /\ log'[Len(log) + 1] = r
      /\ \A j \in 1 .. Len(log) : log'[j] = log[j]
  BY DEF RInv
<1>2. ASSUME NEW i \in 1 .. Len(log'), log'[i].type = "CheckpointMarker"
      PROVE  log'[i].content = Overlay(log', EmptyTree, 0, i - 1)
  <2>1. 0 \in Nat /\ i - 1 \in Nat /\ i - 1 <= Len(log) /\ Agree(log', log, i - 1)
    BY <1>1 DEF Agree
  <2>2. Overlay(log', EmptyTree, 0, i - 1) = Overlay(log, EmptyTree, 0, i - 1)
    BY <2>1, OverlayAgrees
  <2>3. CASE i \in 1 .. Len(log)
    BY <1>1, <1>2, <2>2, <2>3 DEF RInv, Snapshots
  <2>4. CASE i = Len(log) + 1
    <3>1. i - 1 = Len(log) /\ log'[i] = r
      BY <1>1, <2>4
    <3> QED
      BY <1>1, <1>2, <2>2, <3>1, HistoryIs
  <2> QED
    BY <1>1, <2>3, <2>4
<1> QED
  BY <1>1, <1>2 DEF Snapshots

\* A log that is cut keeps them too.
LEMMA CutKeeps ==
    ASSUME RInv, NEW n \in 0 .. Len(log), log' = SubSeq(log, 1, n)
    PROVE  log' \in Seq(Records) /\ Snapshots(log')
<1>1. /\ log \in Seq(Records) /\ Len(log) \in Nat
      /\ log' \in Seq(Records) /\ Len(log') = n
      /\ \A j \in 1 .. n : log'[j] = log[j]
  BY DEF RInv
<1>2. ASSUME NEW i \in 1 .. Len(log'), log'[i].type = "CheckpointMarker"
      PROVE  log'[i].content = Overlay(log', EmptyTree, 0, i - 1)
  <2>1. 0 \in Nat /\ i - 1 \in Nat /\ i \in 1 .. Len(log) /\ Agree(log', log, i - 1)
    BY <1>1 DEF Agree
  <2>2. Overlay(log', EmptyTree, 0, i - 1) = Overlay(log, EmptyTree, 0, i - 1)
    BY <2>1, OverlayAgrees
  <2> QED
    BY <1>1, <1>2, <2>1, <2>2 DEF RInv, Snapshots
<1> QED
  BY <1>1, <1>2 DEF Snapshots

\* The LSNs of the log, and those a new record may have, are numbers.
LEMMA LsnIs ==
    ASSUME log \in Seq(Records)
    PROVE  /\ \A i \in 1 .. Len(log) : log[i].lsn \in Nat
           /\ \A i \in 0 .. Len(log) : Lsn(i) \in Nat
           /\ Lsns \subseteq Nat
<1>1. \A r \in Records : r.lsn \in Nat
  BY DEF Records, Updates, Deletes, Checkpoints, Others
<1>2. \A i \in 1 .. Len(log) : log[i] \in Records
  OBVIOUS
<1>3. \A i \in 0 .. Len(log) : Lsn(i) \in Nat
  BY <1>1, <1>2 DEF Lsn
<1>4. Lsn(Len(log)) \in Nat
  BY <1>3
<1> QED
  BY <1>1, <1>2, <1>3, <1>4 DEF Lsns

\* Values that overlays hold are values.
LEMMA OverlayIsTree ==
    ASSUME NEW l \in Seq(Records), NEW t \in Trees, NEW c \in Nat, NEW i \in 0 .. Len(l)
    PROVE  Overlay(l, t, c, i) \in Trees
<1>1. \A r \in Records : IsChange(r) => r.content.value \in Values \cup {Absent}
  BY DEF Records, Updates, Deletes, Checkpoints, Others, IsChange
<1>2. ASSUME NEW k \in Keys, Seen(l, k, c, i) # {}
      PROVE  l[Max(Seen(l, k, c, i))].content.value \in Values \cup {Absent}
  <2>1. Max(Seen(l, k, c, i)) \in Seen(l, k, c, i)
    BY <1>2, SeenIs
  <2>2. Max(Seen(l, k, c, i)) \in 1 .. Len(l) /\ IsChange(l[Max(Seen(l, k, c, i))])
    BY <2>1 DEF Seen, IsChange
  <2> QED
    BY <1>1, <2>2
<1> QED
  BY <1>2 DEF Overlay, Trees

\* The tree without keys.
LEMMA EmptyIsTree == EmptyTree \in Trees
BY DEF EmptyTree, Trees

\* ... and what the log says.
LEMMA HistoryIsTree == ASSUME log \in Seq(Records) PROVE History \in Trees
<1>1. 0 \in Nat /\ Len(log) \in 0 .. Len(log)
  OBVIOUS
<1> QED
  BY <1>1, HistoryIs, OverlayIsTree, EmptyIsTree

\* Every step keeps the invariant.
LEMMA RInductive ==
    ASSUME RInv, [Next]_vars
    PROVE  RInv'
<1>0. log \in Seq(Records) /\ Len(log) \in Nat /\ Lsns \subseteq Nat
  BY LsnIs DEF RInv
<1>1. ASSUME NEW r \in Records, NEW cut \in BOOLEAN, Add(r, cut),
             r.type = "CheckpointMarker" => r.content = History
      PROVE  RInv'
  BY <1>1, AppendKeeps DEF Add, RInv
<1>2. ASSUME NEW cut \in BOOLEAN, NEW k \in Keys, NEW v \in Values \cup {Absent},
             AddUpdate(k, v, cut)
      PROVE  RInv'
  <2>1. PICK lsn \in Lsns, payload \in {"good", "bad"} :
             Add(Rec("PageUpdate", lsn, payload, [key |-> k, value |-> v]), cut)
    BY <1>2 DEF AddUpdate
  <2> DEFINE r == Rec("PageUpdate", lsn, payload, [key |-> k, value |-> v])
  <2>2. r \in Records /\ r.type # "CheckpointMarker"
    BY <1>0 DEF Rec, Records, Updates
  <2> HIDE DEF r
  <2> QED
    BY <1>1, <2>1, <2>2 DEF r
<1>3. ASSUME NEW cut \in BOOLEAN, NEW k \in Keys, AddDelete(k, cut)
      PROVE  RInv'
  <2>1. PICK lsn \in Lsns, payload \in {"good", "bad"} :
             Add(Rec("PageDelete", lsn, payload, [key |-> k, value |-> Absent]), cut)
    BY <1>3 DEF AddDelete
  <2> DEFINE r == Rec("PageDelete", lsn, payload, [key |-> k, value |-> Absent])
  <2>2. r \in Records /\ r.type # "CheckpointMarker"
    BY <1>0 DEF Rec, Records, Deletes
  <2> HIDE DEF r
  <2> QED
    BY <1>1, <2>1, <2>2 DEF r
<1>4. ASSUME NEW cut \in BOOLEAN, AddCheckpoint(cut)
      PROVE  RInv'
  <2>1. PICK lsn \in Lsns, payload \in {"good", "bad", "bad tree"} :
             Add(Rec("CheckpointMarker", lsn, payload, History), cut)
    BY <1>4 DEF AddCheckpoint
  <2> DEFINE r == Rec("CheckpointMarker", lsn, payload, History)
  <2>3. r \in Records /\ r.content = History
    BY <1>0, HistoryIsTree DEF Rec, Records, Checkpoints
  <2> HIDE DEF r
  <2> QED
    BY <1>1, <2>1, <2>3 DEF r
<1>5. ASSUME NEW cut \in BOOLEAN, AddOther(cut)
      PROVE  RInv'
  <2>1. PICK lsn \in Lsns, type \in {"Structural", "Invalid"} :
             Add(Rec(type, lsn, "good", <<>>), cut)
    BY <1>5 DEF AddOther
  <2> DEFINE r == Rec(type, lsn, "good", <<>>)
  <2>2. r \in Records /\ r.type # "CheckpointMarker"
    BY <1>0 DEF Rec, Records, Others
  <2> HIDE DEF r
  <2> QED
    BY <1>1, <2>1, <2>2 DEF r
<1>6. CASE Truncate
  <2> DEFINE found == {i \in DOMAIN log : log[i].lsn = WriterLsn /\ (torn => i < Len(log))}
  <2>1. log' = (IF found = {} THEN log ELSE SubSeq(log, 1, Min(found))) /\ torn' = torn
    BY <1>6 DEF Truncate, TruncatedAfter
  <2>2. Len(log) \in found
    <3>1. Len(log) \in 1 .. Len(log)
      BY <1>0, <1>6 DEF Truncate
    <3> QED
      BY <1>6, <3>1 DEF Truncate, WriterLsn, Lsn
  <2>3. Min(found) \in 0 .. Len(log)
    <3>1. found \in SUBSET (0 .. Len(log)) /\ Len(log) \in Nat
      BY <1>0
    <3> HIDE DEF found
    <3> QED
      BY <2>2, <3>1, MinIs
  <2> HIDE DEF found
  <2> QED
    BY <2>1, <2>2, <2>3, CutKeeps DEF RInv
<1>7. CASE UNCHANGED vars
  BY <1>7 DEF vars, RInv
<1> QED
  BY <1>2, <1>3, <1>4, <1>5, <1>6, <1>7 DEF Next

\* The log is one of the documented layout, and its snapshots are true.
THEOREM LogInvariance == Spec => []RInv
<1>1. Init => RInv
  <2> SUFFICES ASSUME Init PROVE RInv
    OBVIOUS
  <2>1. log = <<>> /\ torn = FALSE
    BY DEF Init
  <2>2. log \in Seq(Records) /\ Len(log) = 0
    BY <2>1
  <2>3. Snapshots(log)
    <3>1. \A i \in 1 .. Len(log) : FALSE
      BY <2>2
    <3> QED
      BY <3>1 DEF Snapshots
  <2> QED
    BY <2>1, <2>2, <2>3 DEF RInv
<1>2. RInv /\ [Next]_vars => RInv'
  BY RInductive
<1> QED
  BY <1>1, <1>2, PTL DEF Spec

-----------------------------------------------------------------------------
(* replay().                                                               *)

\* What replay() has done so far.
Results == [recoveredFromCheckpoint : BOOLEAN, checkpointLsn : Nat, lastReplayedLsn : Nat,
            recordsReplayed : Nat, recordsSkipped : Nat]
States == [ok : BOOLEAN, tree : Trees, result : Results]

\* applyRecord() succeeds: whether it does depends on the record only.
Applies(r) ==
    IsChange(r) => r.payload # "bad" /\ (r.type = "PageUpdate" => r.content.value # Absent)

\* A good record about a key.
LEMMA ChangeIs ==
    ASSUME NEW r \in Records, IsChange(r)
    PROVE  /\ r.content.key \in Keys /\ r.content.value \in Values \cup {Absent}
           /\ r.type = "PageDelete" => r.content.value = Absent
BY DEF Records, Updates, Deletes, Checkpoints, Others, IsChange

\* What applyRecord() does.
LEMMA ApplyIs ==
    ASSUME NEW r \in Records, NEW t \in Trees
    PROVE  LET a == ApplyRecord(t, r)
           IN  /\ a.ok \in BOOLEAN /\ a.tree \in Trees
               /\ a.ok <=> Applies(r)
               /\ a.ok => a.tree = IF IsChange(r)
                                   THEN [t EXCEPT ![r.content.key] = r.content.value]
                                   ELSE t
<1>1. CASE ~ IsChange(r)
  BY <1>1 DEF ApplyRecord, IsChange, Applies
<1>2. CASE IsChange(r)
  <2>1. /\ r.content.key \in Keys /\ r.content.value \in Values \cup {Absent}
        /\ r.type = "PageDelete" => r.content.value = Absent
    BY <1>2, ChangeIs
  <2>2. \A v \in Values \cup {Absent} : [t EXCEPT ![r.content.key] = v] \in Trees
    BY <2>1 DEF Trees
  <2>3. CASE r.payload = "bad"
    BY <1>2, <2>3 DEF ApplyRecord, IsChange, Applies
  <2>4. CASE r.payload # "bad" /\ r.type = "PageDelete"
    BY <1>2, <2>1, <2>2, <2>4 DEF ApplyRecord, IsChange, Applies
  <2>5. CASE r.payload # "bad" /\ r.type = "PageUpdate"
    BY <1>2, <2>1, <2>2, <2>5 DEF ApplyRecord, IsChange, Applies
  <2> QED
    BY <1>2, <2>3, <2>4, <2>5 DEF IsChange
<1> QED
  BY <1>1, <1>2

\* One turn: a failure stays, a record that is skipped is counted, one that is
\* applied changes the tree and is counted.
LEMMA TurnIs ==
    ASSUME NEW s \in States, NEW r \in Records, NEW afterLsn \in Nat
    PROVE  LET n == ReplayTurn(s, r, afterLsn)
           IN  /\ n \in States
               /\ n.ok <=> s.ok /\ (SkipsRecord(r, afterLsn) \/ Applies(r))
               /\ n.ok => /\ n.tree = IF ~ SkipsRecord(r, afterLsn) /\ IsChange(r)
                                      THEN [s.tree EXCEPT ![r.content.key] = r.content.value]
                                      ELSE s.tree
                          /\ n.result.recordsReplayed + n.result.recordsSkipped
                                = s.result.recordsReplayed + s.result.recordsSkipped + 1
<1> DEFINE n == ReplayTurn(s, r, afterLsn)
           a == ApplyRecord(s.tree, r)
           u == s.result
<1>1. s.ok \in BOOLEAN /\ s.tree \in Trees /\ u \in Results /\ r.lsn \in Nat
  BY DEF States, Records, Updates, Deletes, Checkpoints, Others
<1>2. CASE ~ s.ok
  BY <1>2 DEF ReplayTurn
<1>3. CASE s.ok /\ SkipsRecord(r, afterLsn)
  <2>1. n = [s EXCEPT !.result.recordsSkipped = @ + 1]
    BY <1>3 DEF ReplayTurn
  <2>2. n = [ok |-> s.ok, tree |-> s.tree, result |-> [u EXCEPT !.recordsSkipped = @ + 1]]
    BY <2>1 DEF States
  <2>3. [u EXCEPT !.recordsSkipped = @ + 1]
            = [recoveredFromCheckpoint |-> u.recoveredFromCheckpoint,
               checkpointLsn |-> u.checkpointLsn, lastReplayedLsn |-> u.lastReplayedLsn,
               recordsReplayed |-> u.recordsReplayed, recordsSkipped |-> u.recordsSkipped + 1]
    BY <1>1 DEF Results
  <2> HIDE DEF n, u
  <2>4. /\ n.ok = s.ok /\ n.tree = s.tree /\ n.result \in Results
        /\ n.result.recordsReplayed = u.recordsReplayed
        /\ n.result.recordsSkipped = u.recordsSkipped + 1
    BY <1>1, <2>2, <2>3 DEF Results
  <2>5. n \in States
    BY <1>1, <2>2, <2>4 DEF States
  <2> QED
    BY <1>1, <1>3, <2>4, <2>5 DEF n, u, Results
<1>4. CASE s.ok /\ ~ SkipsRecord(r, afterLsn)
  <2> DEFINE v == [u EXCEPT !.lastReplayedLsn = r.lsn, !.recordsReplayed = @ + 1]
  <2>1. n = [ok |-> a.ok, tree |-> a.tree,
             result |-> IF a.ok THEN v ELSE u]
    BY <1>4 DEF ReplayTurn
  <2>2. /\ v \in Results
        /\ v.recordsReplayed = u.recordsReplayed + 1 /\ v.recordsSkipped = u.recordsSkipped
    <3> HIDE DEF u
    <3>1. u.recordsReplayed + 1 \in Nat
      BY <1>1 DEF Results
    <3> QED
      BY <1>1, <3>1 DEF Results
  <2>3. /\ a.ok \in BOOLEAN /\ a.tree \in Trees /\ (a.ok <=> Applies(r))
        /\ a.ok => a.tree = IF IsChange(r)
                            THEN [s.tree EXCEPT ![r.content.key] = r.content.value]
                            ELSE s.tree
    BY <1>1, ApplyIs
  <2> HIDE DEF n, u, a, v
  <2>4. /\ n.ok = a.ok /\ n.tree = a.tree /\ n.result \in Results
        /\ a.ok => /\ n.result.recordsReplayed = u.recordsReplayed + 1
                   /\ n.result.recordsSkipped = u.recordsSkipped
    BY <1>1, <2>1, <2>2, <2>3 DEF Results
  <2>5. n \in States
    BY <2>1, <2>3, <2>4 DEF States
  <2> QED
    BY <1>1, <1>4, <2>3, <2>4, <2>5 DEF n, u, Results
<1> QED
  BY <1>2, <1>3, <1>4

\* The records that are read are valid.
LEMMA ReadableIs ==
    ASSUME log \in Seq(Records)
    PROVE  Readable \in 0 .. Len(log) /\ \A i \in 1 .. Readable : Valid(i)
<1> DEFINE S == {n \in 0 .. Len(log) : \A i \in 1 .. n : Valid(i)}
<1>1. Len(log) \in Nat /\ S \in SUBSET (0 .. Len(log)) /\ 0 \in S
  OBVIOUS
<1>2. Readable = Max(S)
  BY DEF Readable
<1>3. Max(S) \in S
  <2> HIDE DEF S
  <2> QED
    BY <1>1, MaxIs
<1> QED
  BY <1>2, <1>3

\* The states of replay()'s loop, from the first to the one it returns.
Runs(t, afterLsn, after) ==
    /\ after \in [0 .. Readable -> States]
    /\ after[0] = [ok |-> TRUE, tree |-> t, result |-> NoResult]
    /\ \A i \in 1 .. Readable : after[i] = ReplayTurn(after[i - 1], log[i], afterLsn)
    /\ Replay(t, afterLsn) = after[Readable]

\* replay()'s loop runs: the recursive function has a value.
LEMMA ReplayRuns ==
    ASSUME log \in Seq(Records), NEW t \in Trees, NEW afterLsn \in Nat
    PROVE  \E after : Runs(t, afterLsn, after)
<1> DEFINE first == [ok |-> TRUE, tree |-> t, result |-> NoResult]
           turn == [i \in 1 .. Readable |-> [s \in States |-> ReplayTurn(s, log[i], afterLsn)]]
           Body(g) == [i \in 0 .. Readable |->
                          IF i = 0 THEN first ELSE ReplayTurn(g[i - 1], log[i], afterLsn)]
           after == CHOOSE g : g = Body(g)
<1>1. Readable \in Nat /\ \A i \in 1 .. Readable : log[i] \in Records
  BY ReadableIs
<1>2. first \in States
  BY DEF States, Results, NoResult
<1>3. /\ turn \in [1 .. Readable -> [States -> States]]
      /\ \A i \in 1 .. Readable, s \in States : turn[i][s] = ReplayTurn(s, log[i], afterLsn)
  BY <1>1, TurnIs
<1>4. Replay(t, afterLsn) = after[Readable]
  BY DEF Replay
<1> HIDE DEF first, turn
<1>5. PICK g \in [0 .. Readable -> States] :
          g[0] = first /\ \A i \in 1 .. Readable : g[i] = turn[i][g[i - 1]]
  <2>1. Iterated(States, first, turn, Readable)
    BY <1>1, <1>2, <1>3, Iterates
  <2> QED
    BY <2>1 DEF Iterated
<1>6. g = Body(g)
  <2>1. ASSUME NEW i \in 0 .. Readable PROVE g[i] = Body(g)[i]
    <3>1. CASE i = 0
      BY <1>5, <3>1
    <3>2. CASE i # 0
      <4>1. i \in 1 .. Readable /\ i - 1 \in 0 .. Readable
        BY <1>1, <3>2
      <4>2. g[i] = ReplayTurn(g[i - 1], log[i], afterLsn)
        BY <1>3, <1>5, <4>1
      <4> QED
        BY <3>2, <4>2
    <3> QED
      BY <3>1, <3>2
  <2> QED
    BY <2>1
<1>7. after = Body(after)
  <2> HIDE DEF Body
  <2> QED
    BY <1>6
<1> HIDE DEF after
<1>8. after[0] = first /\ \A i \in 1 .. Readable : after[i] = ReplayTurn(after[i - 1], log[i], afterLsn)
  BY <1>1, <1>7
<1> DEFINE T == {i \in 0 .. Readable : after[i] \in States}
<1>9. 0 .. Readable \subseteq T
  <2>1. 0 \in T
    BY <1>1, <1>2, <1>8
  <2>2. ASSUME NEW i \in 1 .. Readable, i - 1 \in T PROVE i \in T
    <3>1. i \in 0 .. Readable /\ after[i - 1] \in States
      BY <1>1, <2>2
    <3>2. ReplayTurn(after[i - 1], log[i], afterLsn) \in States
      BY <1>1, <3>1, TurnIs
    <3> QED
      BY <1>8, <3>1, <3>2
  <2> HIDE DEF T
  <2> QED
    BY <1>1, <2>1, <2>2, UpTo
<1>10. after \in [0 .. Readable -> States]
  <2>1. DOMAIN after = 0 .. Readable /\ after = [i \in DOMAIN after |-> after[i]]
    BY <1>7
  <2> QED
    BY <1>9, <2>1
<1> QED
  BY <1>4, <1>8, <1>10 DEF Runs, first

\* In a log that is read to its end LSNs increase.
LEMMA LsnsIncrease ==
    ASSUME log \in Seq(Records), Readable = Len(log),
           NEW i \in 0 .. Len(log), NEW j \in 0 .. Len(log), i < j
    PROVE  Lsn(i) < Lsn(j)
<1> DEFINE T == {m \in 0 .. Len(log) : i < m => Lsn(i) < Lsn(m)}
<1>1. Len(log) \in Nat /\ \A m \in 0 .. Len(log) : Lsn(m) \in Nat
  BY LsnIs
<1>2. \A m \in 1 .. Len(log) : Lsn(m) > Lsn(m - 1)
  BY <1>1, ReadableIs DEF Valid, Lsn
<1>3. 0 \in T
  BY <1>1
<1>4. ASSUME NEW m \in 1 .. Len(log), m - 1 \in T PROVE m \in T
  <2>1. m \in 0 .. Len(log) /\ m - 1 \in 0 .. Len(log)
    BY <1>1
  <2>2. i < m - 1 => Lsn(i) < Lsn(m - 1)
    BY <1>4
  <2>3. Lsn(m - 1) < Lsn(m) /\ Lsn(m) \in Nat /\ Lsn(m - 1) \in Nat /\ Lsn(i) \in Nat
    BY <1>1, <1>2, <2>1
  <2>4. CASE i < m - 1
    BY <2>1, <2>2, <2>3, <2>4
  <2>5. CASE i = m - 1
    BY <2>1, <2>3, <2>5
  <2>6. CASE i > m - 1
    BY <2>1, <2>6
  <2> QED
    BY <2>1, <2>4, <2>5, <2>6
<1> HIDE DEF T
<1>5. 0 .. Len(log) \subseteq T
  BY <1>1, <1>3, <1>4, UpTo
<1> QED
  BY <1>5 DEF T

\* What replay() onto t has done after i turns, when the records up to c have
\* no greater LSN than it is given.
Done(t, c, s, i) ==
    /\ s.ok <=> \A j \in c + 1 .. i : Applies(log[j])
    /\ s.ok => /\ s.tree = Overlay(log, t, c, i)
               /\ s.result.recordsReplayed + s.result.recordsSkipped = i

\* replay() of a log that is read to its end, behind record c: it succeeds when
\* every record there applies, and then lays those records over the tree and
\* has counted all records.
LEMMA ReplayIs ==
    ASSUME log \in Seq(Records), Readable = Len(log),
           NEW t \in Trees, NEW c \in 0 .. Len(log)
    PROVE  Done(t, c, Replay(t, Lsn(c)), Len(log))
<1>1. Len(log) \in Nat /\ Lsn(c) \in Nat /\ \A i \in 1 .. Len(log) : log[i] \in Records
  BY LsnIs
<1>2. PICK after : Runs(t, Lsn(c), after)
  BY <1>1, ReplayRuns
<1>3. ASSUME NEW i \in 1 .. Len(log)
      PROVE  SkipsRecord(log[i], Lsn(c)) <=> i <= c \/ log[i].type = "CheckpointMarker"
  <2>1. log[i].lsn = Lsn(i) /\ i \in 0 .. Len(log) /\ Lsn(i) \in Nat
    BY <1>1, LsnIs DEF Lsn
  <2>2. Lsn(i) <= Lsn(c) <=> i <= c
    <3>1. i < c => Lsn(i) < Lsn(c)
      BY <2>1, LsnsIncrease
    <3>2. c < i => Lsn(c) < Lsn(i)
      BY <2>1, LsnsIncrease
    <3> QED
      BY <1>1, <2>1, <3>1, <3>2
  <2> QED
    BY <2>1, <2>2 DEF SkipsRecord
<1> DEFINE T == {i \in 0 .. Len(log) : Done(t, c, after[i], i)}
<1>4. 0 \in T
  <2>1. after[0] = [ok |-> TRUE, tree |-> t, result |-> NoResult]
    BY <1>2 DEF Runs
  <2>2. Overlay(log, t, c, 0) = t
    <3>1. c \in Nat /\ 0 \in Nat /\ 0 <= c
      BY <1>1
    <3> QED
      BY <3>1, OverlayNothing
  <2>3. \A j \in c + 1 .. 0 : Applies(log[j])
    BY <1>1
  <2>4. after[0].ok /\ after[0].tree = t
        /\ after[0].result.recordsReplayed + after[0].result.recordsSkipped = 0
    BY <2>1 DEF NoResult
  <2> QED
    BY <1>1, <2>2, <2>3, <2>4 DEF Done
<1>5. ASSUME NEW i \in 1 .. Len(log), i - 1 \in T PROVE i \in T
  <2> DEFINE s == after[i - 1]
             n == after[i]
             r == log[i]
             skips == SkipsRecord(r, Lsn(c))
  <2>1. i \in 0 .. Len(log) /\ i - 1 \in 0 .. Len(log) /\ i \in Nat /\ c \in Nat /\ c + 1 \in Nat
    BY <1>1
  <2>2. s \in States /\ r \in Records /\ n = ReplayTurn(s, r, Lsn(c))
    BY <1>1, <1>2, <2>1 DEF Runs
  <2>3. Done(t, c, s, i - 1)
    BY <1>5
  <2>4. /\ n.ok <=> s.ok /\ (skips \/ Applies(r))
        /\ n.ok => /\ n.tree = IF ~ skips /\ IsChange(r)
                               THEN [s.tree EXCEPT ![r.content.key] = r.content.value]
                               ELSE s.tree
                   /\ n.result.recordsReplayed + n.result.recordsSkipped
                         = s.result.recordsReplayed + s.result.recordsSkipped + 1
    <3> HIDE DEF s, n, r
    <3> QED
      BY <1>1, <2>2, TurnIs
  <2>5. skips <=> i <= c \/ r.type = "CheckpointMarker"
    BY <1>3
  <2> HIDE DEF s, n, skips
  <2>6. n.ok <=> \A j \in c + 1 .. i : Applies(log[j])
    <3>1. r.type = "CheckpointMarker" => Applies(r)
      BY DEF Applies, IsChange
    <3>2. CASE i <= c
      BY <2>1, <2>3, <2>4, <2>5, <3>2 DEF Done
    <3>3. CASE c < i
      <4>1. (\A j \in c + 1 .. i : Applies(log[j]))
                <=> Applies(r) /\ \A j \in c + 1 .. i - 1 : Applies(log[j])
        <5>1. i \in c + 1 .. i
          BY <2>1, <3>3
        <5>2. \A j \in c + 1 .. i : j = i \/ j \in c + 1 .. i - 1
          BY <2>1
        <5>3. \A j \in c + 1 .. i - 1 : j \in c + 1 .. i
          BY <2>1
        <5> QED
          BY <5>1, <5>2, <5>3
      <4> QED
        BY <2>1, <2>3, <2>4, <2>5, <3>1, <3>3, <4>1 DEF Done
    <3> QED
      BY <2>1, <3>2, <3>3
  <2>7. n.ok => n.tree = Overlay(log, t, c, i)
    <3> SUFFICES ASSUME n.ok PROVE n.tree = Overlay(log, t, c, i)
      OBVIOUS
    <3>1. s.ok /\ s.tree = Overlay(log, t, c, i - 1)
      BY <2>3, <2>4 DEF Done
    <3>2. CASE i <= c
      <4>1. i - 1 \in Nat /\ i - 1 <= c
        BY <2>1, <3>2
      <4> QED
        BY <2>1, <2>4, <2>5, <3>1, <3>2, <4>1, OverlayNothing
    <3>3. CASE c < i /\ ~ IsChange(r)
      BY <2>1, <2>4, <3>1, <3>3, OverlaySkips
    <3>4. CASE c < i /\ IsChange(r)
      <4>1. ~ skips
        BY <2>1, <2>5, <3>4 DEF IsChange
      <4>2. r.content.key \in Keys
        BY <2>2, <3>4, ChangeIs
      <4> QED
        BY <2>1, <2>4, <3>1, <3>4, <4>1, <4>2, OverlayChanges
    <3> QED
      BY <2>1, <3>2, <3>3, <3>4
  <2>8. n.ok => n.result.recordsReplayed + n.result.recordsSkipped = i
    BY <2>1, <2>3, <2>4 DEF Done
  <2> QED
    BY <2>1, <2>6, <2>7, <2>8 DEF Done, n
<1> HIDE DEF T
<1>6. Len(log) \in T
  <2>1. 0 .. Len(log) \subseteq T
    BY <1>1, <1>4, <1>5, UpTo
  <2> QED
    BY <1>1, <2>1
<1> QED
  BY <1>2, <1>6 DEF T, Runs

-----------------------------------------------------------------------------
(* recover().                                                              *)

\* The checkpoint that is restored is a record that was read, or none.
LEMMA CheckpointIs ==
    ASSUME log \in Seq(Records)
    PROVE  /\ LastCheckpoint.at \in 0 .. Len(log)
           /\ LastCheckpoint.at # 0 => LastCheckpoint.at \in Markers
           /\ LastCheckpoint.ok => LastCheckpoint.at # 0
           /\ ~ UnreadableCheckpoint /\ ~ LastCheckpoint.ok => LastCheckpoint.at = 0
<1> DEFINE bad == {i \in Markers : log[i].payload = "bad"}
           seen == IF bad = {} THEN Markers ELSE {i \in Markers : i < Min(bad)}
<1>1. LastCheckpoint = [ok |-> bad = {} /\ Markers # {},
                        at |-> IF seen = {} THEN 0 ELSE Max(seen)]
  BY DEF LastCheckpoint
<1>2. Len(log) \in Nat /\ Markers \subseteq 1 .. Len(log)
  BY ReadableIs DEF Markers
<1>3. seen \subseteq Markers /\ (bad = {} => seen = Markers)
  OBVIOUS
<1>4. bad = {} <=> ~ UnreadableCheckpoint
  BY DEF UnreadableCheckpoint
<1> HIDE DEF bad, seen
<1>5. seen # {} => Max(seen) \in seen
  <2>1. seen \in SUBSET (0 .. Len(log))
    BY <1>2, <1>3
  <2> QED
    BY <1>2, <2>1, MaxIs
<1>6. /\ LastCheckpoint.ok <=> bad = {} /\ Markers # {}
      /\ LastCheckpoint.at = IF seen = {} THEN 0 ELSE Max(seen)
  BY <1>1
<1>7. CASE seen = {}
  <2>1. LastCheckpoint.at = 0 /\ 0 \in 0 .. Len(log)
    BY <1>2, <1>6, <1>7
  <2>2. ~ LastCheckpoint.ok
    BY <1>3, <1>6, <1>7
  <2> QED
    BY <2>1, <2>2
<1>8. CASE seen # {}
  <2>1. LastCheckpoint.at \in Markers /\ LastCheckpoint.at \in 1 .. Len(log)
    BY <1>2, <1>3, <1>5, <1>6, <1>8
  <2>2. Markers # {}
    BY <2>1
  <2>3. LastCheckpoint.at \in 0 .. Len(log) /\ LastCheckpoint.at # 0
    BY <1>2, <2>1
  <2> QED
    BY <1>4, <1>6, <2>1, <2>2, <2>3
<1> QED
  BY <1>7, <1>8

\* The tree that replay() starts from is a tree.
LEMMA RestoredIsTree ==
    ASSUME log \in Seq(Records)
    PROVE  RestoreTree.tree \in Trees
<1>1. CASE LastCheckpoint.ok
  <2>1. /\ LastCheckpoint.at \in 1 .. Len(log)
        /\ log[LastCheckpoint.at].type = "CheckpointMarker"
    BY <1>1, CheckpointIs DEF Markers
  <2>2. log[LastCheckpoint.at].content \in Trees
    <3>1. \A r \in Records : r.type = "CheckpointMarker" => r.content \in Trees
      BY DEF Records, Updates, Deletes, Checkpoints, Others
    <3> QED
      BY <2>1, <3>1
  <2> QED
    BY <1>1, <2>2, EmptyIsTree DEF RestoreTree, Deserialize
<1>2. CASE ~ LastCheckpoint.ok
  BY <1>2, EmptyIsTree DEF RestoreTree
<1> QED
  BY <1>1, <1>2

\* The tree that is restored is what the log says up to its checkpoint.
LEMMA RestoredIs ==
    ASSUME RInv, ~ UnreadableCheckpoint, RestoreTree.ok
    PROVE  RestoreTree.tree = Overlay(log, EmptyTree, 0, LastCheckpoint.at)
<1> DEFINE c == LastCheckpoint.at
<1>0. log \in Seq(Records) /\ Len(log) \in Nat /\ c \in 0 .. Len(log)
  BY CheckpointIs DEF RInv
<1>1. CASE LastCheckpoint.ok
  <2>1. c \in 1 .. Len(log) /\ log[c].type = "CheckpointMarker"
    BY <1>0, <1>1, CheckpointIs DEF Markers
  <2>2. RestoreTree.tree = log[c].content
    BY <1>1 DEF RestoreTree, Deserialize
  <2>3. log[c].content = Overlay(log, EmptyTree, 0, c - 1)
    BY <2>1 DEF RInv, Snapshots
  <2>4. Overlay(log, EmptyTree, 0, c) = Overlay(log, EmptyTree, 0, c - 1)
    <3>1. ~ IsChange(log[c]) /\ 0 \in Nat /\ c \in Nat /\ 0 < c
      BY <1>0, <2>1 DEF IsChange
    <3> HIDE DEF c
    <3> QED
      BY <3>1, OverlaySkips
  <2> QED
    BY <2>2, <2>3, <2>4
<1>2. CASE ~ LastCheckpoint.ok
  <2>1. c = 0 /\ RestoreTree.tree = EmptyTree
    BY <1>0, <1>2, CheckpointIs DEF RestoreTree
  <2>2. Overlay(log, EmptyTree, 0, 0) = EmptyTree
    <3>1. 0 \in Nat /\ 0 <= 0
      OBVIOUS
    <3> QED
      BY <3>1, EmptyIsTree, OverlayNothing
  <2> QED
    BY <2>1, <2>2
<1> QED
  BY <1>1, <1>2

\* The replay that recover() and the consistency check do.
Replayed == Replay(RestoreTree.tree, Lsn(LastCheckpoint.at))

\* What they have in the end is what the log says.
LEMMA ReplayedIs ==
    ASSUME RInv, LogValid, Replayed.ok
    PROVE  /\ Replayed.result.recordsReplayed + Replayed.result.recordsSkipped = Len(log)
           /\ ~ UnreadableCheckpoint /\ RestoreTree.ok =>
                 /\ Replayed.tree = History
                 /\ Replay(Replayed.tree, Lsn(LastCheckpoint.at)).tree = Replayed.tree
<1> DEFINE c == LastCheckpoint.at
           n == Len(log)
<1>1. log \in Seq(Records) /\ n \in Nat /\ c \in 0 .. n /\ Readable = n /\ c \in Nat /\ c <= n
  BY CheckpointIs DEF RInv, LogValid
<1>2. Done(RestoreTree.tree, c, Replayed, n)
  BY <1>1, ReplayIs, RestoredIsTree DEF Replayed
<1>3. ASSUME ~ UnreadableCheckpoint, RestoreTree.ok
      PROVE  /\ Replayed.tree = History
             /\ Replay(Replayed.tree, Lsn(c)).tree = Replayed.tree
  <2>1. RestoreTree.tree = Overlay(log, EmptyTree, 0, c)
    BY <1>3, RestoredIs
  <2>2. Replayed.tree = Overlay(log, Overlay(log, EmptyTree, 0, c), c, n)
    BY <1>2, <2>1 DEF Done
  <2>3. History = Overlay(log, EmptyTree, 0, n) /\ History \in Trees
    BY <1>1, HistoryIs, HistoryIsTree
  <2> HIDE DEF c, n
  <2>4. \A m \in {c, n} : Overlay(log, Overlay(log, EmptyTree, 0, m), c, n) = History
    BY <1>1, <2>3, OverlayTwice
  <2>5. Replayed.tree = History
    BY <2>2, <2>4
  <2>6. Done(History, c, Replay(History, Lsn(c)), n)
    BY <1>1, <2>3, ReplayIs DEF n
  <2>7. Replay(History, Lsn(c)).ok
    BY <1>2, <2>6 DEF Done
  <2>8. Replay(History, Lsn(c)).tree = Overlay(log, Overlay(log, EmptyTree, 0, n), c, n)
    BY <2>3, <2>6, <2>7 DEF Done
  <2> QED
    BY <2>4, <2>5, <2>8
<1> QED
  BY <1>2, <1>3 DEF Done

\* What recover() returns.
LEMMA RecoverIs ==
    /\ Recover.ok <=> RestoreTree.ok /\ Replayed.ok /\ LogValid
    /\ Recover.tree = Replayed.tree /\ Recover.result = Replayed.result
BY DEF Recover, Replayed

\* The consistency check recovers once more.
LEMMA CheckIs ==
    ASSUME NEW n
    PROVE  ConsistencyCheck(n)
               <=> LogValid /\ RestoreTree.ok /\ Replayed.ok /\ Size(Replayed.tree) = n
BY DEF ConsistencyCheck, LogicallyConsistent, Replayed, LogValid

\* recover() restores what the whole log says, and the consistency check agrees
\* with it: RecoveredIsHistory, for logs of any length.
THEOREM RecoveryIsExact == Spec => []RecoveredIsHistory
<1>1. RInv => RecoveredIsHistory
  <2> SUFFICES ASSUME RInv, ~ UnreadableCheckpoint
               PROVE  /\ Recover.ok => /\ Recover.tree = History
                                       /\ ConsistencyCheck(Size(Recover.tree))
                      /\ \A n \in 0 .. Cardinality(Keys) :
                            ConsistencyCheck(n) => n = Size(History)
    BY DEF RecoveredIsHistory
  <2>1. RestoreTree.ok /\ Replayed.ok /\ LogValid => Replayed.tree = History
    BY ReplayedIs
  <2>2. Recover.ok => Recover.tree = History /\ ConsistencyCheck(Size(Recover.tree))
    BY <2>1, RecoverIs, CheckIs
  <2>3. \A n \in 0 .. Cardinality(Keys) : ConsistencyCheck(n) => n = Size(History)
    BY <2>1, CheckIs
  <2> QED
    BY <2>2, <2>3
<1> QED
  BY <1>1, LogInvariance, PTL

\* A log that was recovered was taken as a whole, and can be cut at any of its
\* checkpoints: NothingIgnored, for logs of any length.
THEOREM RecoveryIsWhole == Spec => []NothingIgnored
<1>1. RInv => NothingIgnored
  <2> SUFFICES ASSUME RInv, Recover.ok
               PROVE  /\ ~ torn
                      /\ Recover.result.recordsReplayed + Recover.result.recordsSkipped = Len(log)
                      /\ \A i \in DOMAIN log : log[i].lsn <= WriterLsn
                      /\ \A i \in Markers : TruncatedAfter(log[i].lsn) = SubSeq(log, 1, i)
    BY DEF NothingIgnored
  <2>1. LogValid /\ Replayed.ok /\ Recover.result = Replayed.result
    BY RecoverIs
  <2>2. ~ torn /\ log \in Seq(Records) /\ Len(log) \in Nat /\ Readable = Len(log)
        /\ DOMAIN log = 1 .. Len(log)
    BY <2>1 DEF LogValid, RInv
  <2>3. Recover.result.recordsReplayed + Recover.result.recordsSkipped = Len(log)
    BY <2>1, ReplayedIs
  <2>4. ASSUME NEW i \in 1 .. Len(log), NEW j \in 1 .. Len(log)
        PROVE  /\ log[i].lsn \in Nat /\ log[j].lsn \in Nat
               /\ i < j => log[i].lsn < log[j].lsn
    BY <2>2, LsnIs, LsnsIncrease DEF Lsn
  <2>5. ASSUME NEW i \in DOMAIN log PROVE log[i].lsn <= WriterLsn
    <3>1. i \in 1 .. Len(log) /\ Len(log) \in 1 .. Len(log) /\ WriterLsn = log[Len(log)].lsn
      BY <2>2, <2>5 DEF WriterLsn, Lsn
    <3>2. i = Len(log) \/ i < Len(log)
      BY <2>2, <3>1
    <3> QED
      BY <2>4, <3>1, <3>2
  <2>6. ASSUME NEW i \in Markers PROVE TruncatedAfter(log[i].lsn) = SubSeq(log, 1, i)
    <3>1. i \in 1 .. Len(log)
      BY <2>2 DEF Markers
    <3>2. {j \in DOMAIN log : log[j].lsn = log[i].lsn /\ (torn => j < Len(log))} = {i}
      <4>1. ASSUME NEW j \in 1 .. Len(log), log[j].lsn = log[i].lsn PROVE j = i
        <5>1. ~ (j < i) /\ ~ (i < j)
          BY <2>4, <3>1, <4>1
        <5> QED
          BY <3>1, <5>1
      <4> QED
        BY <2>2, <3>1, <4>1
    <3>3. Min({i}) = i
      BY <3>1 DEF Min
    <3> QED
      BY <3>2, <3>3 DEF TruncatedAfter
  <2> QED
    BY <2>2, <2>3, <2>5, <2>6
<1> QED
  BY <1>1, LogInvariance, PTL

\* Replaying onto a tree that was recovered changes nothing: ReplayIdempotent,
\* for logs of any length.
THEOREM RecoveryRepeats == Spec => []ReplayIdempotent
<1>1. RInv => ReplayIdempotent
  BY RecoverIs, ReplayedIs DEF ReplayIdempotent
<1> QED
  BY <1>1, LogInvariance, PTL
=============================================================================
