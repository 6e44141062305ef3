------------------------------ MODULE Recovery ------------------------------
(***************************************************************************)
(* RecoveryManager::recover with CheckpointManager, LogReplayer and         *)
(* RecoveryValidator, as functions of the log they are given.              *)
(*                                                                         *)
(* The log is a file in the documented layout, however it came to be; it   *)
(* grows one record at a time.  (The writer of this build produces no      *)
(* record that can be read, see module Wal: what recovery makes of its own *)
(* logs is in module Database.)  A record may be out of order, have an     *)
(* invalid type or a payload that does not decode, and the last one may be *)
(* cut short.  The tree is what it maps keys to: a tree of one leaf.       *)
(***************************************************************************)
EXTENDS Integers, Sequences, FiniteSetsExt

CONSTANTS
    Keys, Values,   \* keys and the page references stored with them
    Absent,         \* no reference: a key that is not in the tree
    MaxRecords,     \* bound: the records of a log
    MaxBehind       \* bound: the records from the first that is not read on

ASSUME RecoveryAssumption == Absent \notin Values /\ {MaxRecords, MaxBehind} \subseteq Nat

VARIABLES
    log,    \* the records, from the front of the file
    torn    \* the last record is cut short

vars == <<log, torn>>

EmptyTree == [k \in Keys |-> Absent]

\* A record: payload is "good" or "bad" (it does not decode); content is what
\* a good payload holds.
Rec(type, lsn, payload, content) ==
    [type |-> type, lsn |-> lsn, payload |-> payload, content |-> content]

-----------------------------------------------------------------------------
(***************************************************************************)
(* Reading.                                                                *)
(***************************************************************************)
Lsn(i) == IF i = 0 THEN 0 ELSE log[i].lsn

\* validateRecord and validateLsnOrdering accept record i behind record i - 1.
Valid(i) == log[i].type # "Invalid" /\ log[i].lsn > Lsn(i - 1)

\* How many records readNext() returns before the first that it does not: a
\* loop over readNext() takes any failure for the end of the log.
Readable == Max({n \in 0 .. Len(log) : \A i \in 1 .. n : Valid(i)})

\* LogManager::validate.  A record cut short fails the stream, and the header
\* cannot be read again.
LogValid == ~ torn /\ Readable = Len(log)

-----------------------------------------------------------------------------
(***************************************************************************)
(* Checkpoints.                                                            *)
(***************************************************************************)
Markers == {i \in 1 .. Readable : log[i].type = "CheckpointMarker"}

\* findLastCheckpoint: the last marker.  It returns at the first payload that
\* does not decode; its outLsn then is that of the marker before, if any.
LastCheckpoint ==
    LET bad  == {i \in Markers : log[i].payload = "bad"}
        seen == IF bad = {} THEN Markers ELSE {i \in Markers : i < Min(bad)}
    IN  [ok |-> bad = {} /\ Markers # {},
         at |-> IF seen = {} THEN 0 ELSE Max(seen)]

-----------------------------------------------------------------------------
(***************************************************************************)
(* Replay.                                                                 *)
(***************************************************************************)
\* Mutant of ApplyRecord: a key that is there is erased and not put back.
ApplyRecordErases(t, r) ==
    LET update == r.type = "PageUpdate"
    IN  IF ~ (update \/ r.type = "PageDelete") THEN [ok |-> TRUE, tree |-> t]
        ELSE IF r.payload = "bad" THEN [ok |-> FALSE, tree |-> t]
        ELSE [ok |-> TRUE,
              tree |-> [t EXCEPT ![r.content.key] =
                           IF update /\ @ = Absent THEN r.content.value ELSE Absent]]

\* applyRecord.  An update of a key that is there with another reference
\* erases it first; of a reference that is invalid, it then fails.
ApplyRecord(t, r) ==
    LET update == r.type = "PageUpdate"
        delete == r.type = "PageDelete"
    IN  IF ~ (update \/ delete) THEN [ok |-> TRUE, tree |-> t]
        ELSE IF r.payload = "bad" THEN [ok |-> FALSE, tree |-> t]
        ELSE IF delete THEN [ok |-> TRUE, tree |-> [t EXCEPT ![r.content.key] = Absent]]
        ELSE [ok |-> r.content.value # Absent,
              tree |-> [t EXCEPT ![r.content.key] = r.content.value]]

NoResult == [recoveredFromCheckpoint |-> FALSE, checkpointLsn |-> 0,
             lastReplayedLsn |-> 0, recordsReplayed |-> 0, recordsSkipped |-> 0]

\* Mutant of SkipsRecord: the record right behind the checkpoint is skipped.
SkipsRecordBehind(r, afterLsn) ==
    r.lsn <= afterLsn + 1 \/ r.type = "CheckpointMarker"

SkipsRecord(r, afterLsn) == r.lsn <= afterLsn \/ r.type = "CheckpointMarker"

\* One turn of replay()'s loop, with what it has done so far and a record.
ReplayTurn(s, r, afterLsn) ==
    LET a == ApplyRecord(s.tree, r)
    IN  IF ~ s.ok THEN s
        ELSE IF SkipsRecord(r, afterLsn)
        THEN [s EXCEPT !.result.recordsSkipped = @ + 1]
        ELSE [ok |-> a.ok, tree |-> a.tree,
              result |-> IF a.ok THEN [s.result EXCEPT !.lastReplayedLsn = r.lsn,
                                                       !.recordsReplayed = @ + 1]
                         ELSE s.result]

\* replay() of the readable records, onto the tree t.  It begins by clearing
\* the result.
Replay(t, afterLsn) ==
    LET after[i \in 0 .. Readable] ==
            IF i = 0 THEN [ok |-> TRUE, tree |-> t, result |-> NoResult]
            ELSE ReplayTurn(after[i - 1], log[i], afterLsn)
    IN  after[Readable]

-----------------------------------------------------------------------------
(***************************************************************************)
(* recover().                                                              *)
(***************************************************************************)
\* BTree::deserialize of a snapshot.  A payload may decode and the tree in it
\* not: a read fails or a node has an unknown type.  The tree that was there is
\* gone by then.
Deserialize(m) ==
    [ok |-> m.payload = "good",
     tree |-> IF m.payload = "good" THEN m.content ELSE EmptyTree]

\* The tree restored from the last checkpoint, or an empty one.
RestoreTree ==
    IF LastCheckpoint.ok THEN Deserialize(log[LastCheckpoint.at])
    ELSE [ok |-> TRUE, tree |-> EmptyTree]

\* The LSN of the last record, valid or not, from which restoreWriterState()
\* takes the writer's.  An invalid one is not taken.
WriterLsn == Lsn(Len(log))

\* Mutant of Recover: the log is not validated in the end.
RecoverUnvalidated ==
    LET from == RestoreTree
        done == Replay(from.tree, Lsn(LastCheckpoint.at))
    IN  [ok |-> from.ok /\ done.ok, tree |-> done.tree, result |-> done.result]

\* What recover() leaves: whether it succeeded, the tree, and the result.
Recover ==
    LET from == RestoreTree
        done == Replay(from.tree, Lsn(LastCheckpoint.at))
    IN  [ok |-> from.ok /\ done.ok /\ LogValid, tree |-> done.tree, result |-> done.result]

\* BTree::size().
Size(t) == Cardinality({k \in Keys : t[k] # Absent})

\* RecoveryValidator::verifyLogicalConsistency of a tree with n keys: another
\* tree is recovered from the log and has as many.  It does not compare the
\* trees, and a reader that met a record cut short cannot be rewound.
LogicallyConsistent(n) ==
    LET from == RestoreTree
        done == Replay(from.tree, Lsn(LastCheckpoint.at))
    IN  from.ok /\ done.ok /\ Size(done.tree) = n /\ ~ torn

\* ConsistencyChecker::check of an open database whose tree has n keys.
ConsistencyCheck(n) == LogValid /\ LogicallyConsistent(n)

-----------------------------------------------------------------------------
(***************************************************************************)
(* What a log says: of every key, the last record about it.                *)
(***************************************************************************)
About(k) == {i \in DOMAIN log : /\ log[i].type \in {"PageUpdate", "PageDelete"}
                                /\ log[i].content.key = k}

History == [k \in Keys |-> IF About(k) = {} THEN Absent
                           ELSE log[Max(About(k))].content.value]

Init == log = <<>> /\ torn = FALSE

Add(r, cut) == /\ ~ torn
               /\ Len(log) < MaxRecords
               /\ Len(log) - Readable < MaxBehind
               /\ log' = Append(log, r)
               /\ torn' = cut

\* The LSN of a further record is the next, or one that is not in order.
Lsns == {Lsn(Len(log)) + 1, Lsn(Len(log))}

AddUpdate(k, v, cut) ==
    \E lsn \in Lsns, payload \in {"good", "bad"} :
        Add(Rec("PageUpdate", lsn, payload, [key |-> k, value |-> v]), cut)

AddDelete(k, cut) ==
    \E lsn \in Lsns, payload \in {"good", "bad"} :
        Add(Rec("PageDelete", lsn, payload, [key |-> k, value |-> Absent]), cut)

\* A checkpoint's snapshot is what the records before it say.
AddCheckpoint(cut) ==
    \E lsn \in Lsns, payload \in {"good", "bad", "bad tree"} :
        Add(Rec("CheckpointMarker", lsn, payload, History), cut)

AddOther(cut) ==
    \E lsn \in Lsns, type \in {"Structural", "Invalid"} :
        Add(Rec(type, lsn, "good", <<>>), cut)

\* truncateAfterCheckpoint(lsn): the log up to the first record with that LSN.
\* It reads records without validating them; one cut short ends the search.
TruncatedAfter(lsn) ==
    LET found == {i \in DOMAIN log : log[i].lsn = lsn /\ (torn => i < Len(log))}
    IN  IF found = {} THEN log ELSE SubSeq(log, 1, Min(found))

\* RecoveryManager::checkpoint truncates behind the checkpoint it wrote.
Truncate ==
    /\ log # <<>> /\ ~ torn
    /\ log[Len(log)].type = "CheckpointMarker"
    /\ log' = TruncatedAfter(WriterLsn)
    /\ UNCHANGED torn

Next ==
    \/ \E cut \in BOOLEAN :
          \/ \E k \in Keys, v \in Values \cup {Absent} : AddUpdate(k, v, cut)
          \/ \E k \in Keys : AddDelete(k, cut)
          \/ AddCheckpoint(cut)
          \/ AddOther(cut)
    \/ Truncate

Spec == Init /\ [][Next]_vars

-----------------------------------------------------------------------------
(***************************************************************************)
(* Properties.                                                             *)
(***************************************************************************)
\* A log with a checkpoint whose payload does not decode.
UnreadableCheckpoint == \E i \in Markers : log[i].payload = "bad"

\* When recover() succeeds the tree is what the whole log says, wherever
\* checkpoints are: a checkpoint saves replay and changes nothing, and no
\* record is taken twice, left out, or applied out of order.  A consistency
\* check passes for the recovered tree, and for no tree that has more or fewer
\* keys than the log says.  (Unless the payload of a checkpoint does not
\* decode: see RecoversFromCheckpoint.)
RecoveredIsHistory ==
    ~ UnreadableCheckpoint =>
        /\ Recover.ok => Recover.tree = History /\ ConsistencyCheck(Size(Recover.tree))
        /\ \A n \in 0 .. Cardinality(Keys) : ConsistencyCheck(n) => n = Size(History)

\* recover() never succeeds on part of a log: when it does, every record was
\* replayed or skipped, none was cut short, out of order or invalid, and the
\* writer goes on behind all of them, so that the next record is in order.
\* Truncating such a log at a checkpoint keeps all of it up to the checkpoint.
NothingIgnored ==
    Recover.ok =>
        /\ ~ torn
        /\ Recover.result.recordsReplayed + Recover.result.recordsSkipped = Len(log)
        /\ \A i \in DOMAIN log : log[i].lsn <= WriterLsn
        /\ \A i \in Markers : TruncatedAfter(log[i].lsn) = SubSeq(log, 1, i)

\* Replaying the records behind the checkpoint onto a tree that has them
\* already changes nothing, so that a recovery may be repeated.
ReplayIdempotent ==
    Recover.ok /\ ~ UnreadableCheckpoint =>
        Replay(Recover.tree, Lsn(LastCheckpoint.at)).tree = Recover.tree

\* "3. If found, deserialize the embedded CheckpointPayload into the B-tree.
\* 4. Replay all PageUpdate and PageDelete records with LSN strictly greater
\* than the checkpoint LSN." (docs/recovery.md:19): records are left out only
\* if a checkpoint that has them was restored.
RecoversFromCheckpoint == Recover.ok => Recover.tree = History

\* A recovery that finds a checkpoint says so (tests/TestRecovery.cpp:138,
\* "CHECK(result.recoveredFromCheckpoint)").
ReportsCheckpoint ==
    Recover.ok /\ LastCheckpoint.ok => Recover.result.recoveredFromCheckpoint
=============================================================================
