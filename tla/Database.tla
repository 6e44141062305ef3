------------------------------ MODULE Database ------------------------------
(***************************************************************************)
(* core::Database: its data file, its B-tree, its log and the recovery that *)
(* open() runs, used by one process after another on the same path.        *)
(*                                                                         *)
(* The tree is the set of keys it holds and whether it has a root: it has  *)
(* fewer keys than a leaf takes, so that none is lost in a split (module   *)
(* BTree).  Tree pages are never written to the data file, so that after a *)
(* restart only the log has them.                                          *)
(*                                                                         *)
(* Of the log file (module Wal) three things are kept: whether there are   *)
(* bytes behind its header, whether its layout is irregular (a record was  *)
(* torn or old records were written over, so that a scan may run off the   *)
(* end of the file), and what the records of this session would restore.   *)
(* No record that was written can be read: its type is Invalid.            *)
(***************************************************************************)
EXTENDS Naturals, Sequences

CONSTANTS
    Keys,           \* the keys that are inserted
    BufferRecords,  \* capacity of the log buffer, in records
    MaxFaults       \* bound: I/O errors and torn writes

ASSUME DatabaseAssumption == BufferRecords \in Nat /\ MaxFaults \in Nat

VARIABLES
    options,    \* [enableWal, recoverOnOpen]
    open,       \* open_
    sink,       \* the tree's walSink_ is set
    tree,       \* [keys, root]
    data,       \* the data file: [content, open]
    wal,        \* LogManager: [ready, fileOpen, bad, over, buffer]
    disk,       \* the log file: [bytes, irregular, stored]
    faults,     \* faults so far
    doubt,      \* observer: keys a failed call of this session was about
    promised,   \* observer: keys whose insertion was logged and acknowledged
    last        \* observer: [call, ok], the last call

vars == <<options, open, sink, tree, data, wal, disk, faults, doubt, promised, last>>

Options == [enableWal : BOOLEAN, recoverOnOpen : BOOLEAN]

NoTree == [keys |-> {}, root |-> FALSE]

\* A record for a key, and the ones for pages and checkpoints.
Logged(type, k) == [type |-> type, key |-> {k}]
Structural == [type |-> "Structural", key |-> {}]

NewWal == [ready |-> FALSE, fileOpen |-> FALSE, bad |-> FALSE, over |-> FALSE,
           buffer |-> <<>>]

Init == /\ options \in Options
        /\ open = FALSE
        /\ sink = FALSE
        /\ tree = NoTree
        /\ data = [content |-> "absent", open |-> FALSE]
        /\ wal = NewWal
        /\ disk = [bytes |-> FALSE, irregular |-> FALSE, stored |-> {}]
        /\ faults = 0
        /\ doubt = {}
        /\ promised = {}
        /\ last = [call |-> "none", ok |-> TRUE]

Returns(call, ok) == last' = [call |-> call, ok |-> ok]

Fault == faults < MaxFaults /\ faults' = faults + 1

-----------------------------------------------------------------------------
(***************************************************************************)
(* The log.                                                                *)
(***************************************************************************)
\* The keys that s becomes when the records are replayed: the last record of
\* a key decides.
Replayed(s, records) ==
    LET decides(i, k) == /\ records[i].key = {k}
                         /\ \A j \in i + 1 .. Len(records) : records[j].key # {k}
    IN  {k \in Keys : IF \E i \in DOMAIN records : decides(i, k)
                      THEN \E i \in DOMAIN records :
                               decides(i, k) /\ records[i].type = "PageUpdate"
                      ELSE k \in s}

\* The log file after the first n records of the buffer were written, and
\* then, if torn, part of the next one or of the padding.
Written(w, n, torn) ==
    [bytes |-> disk.bytes \/ n > 0 \/ torn,
     irregular |-> disk.irregular \/ torn \/ (w.over /\ n > 0),
     stored |-> Replayed(disk.stored, SubSeq(w.buffer, 1, n))]

\* LogManager::flush with what the writer w holds; ok is what it returns.  A
\* stream that has failed stays failed, and keeps the buffer.
Flush(w, ok) ==
    \/ /\ ok /\ ~ w.bad
       /\ wal' = [w EXCEPT !.buffer = <<>>]
       /\ disk' = Written(w, Len(w.buffer), FALSE)
       /\ UNCHANGED faults
    \/ /\ ~ ok /\ w.bad
       /\ wal' = w
       /\ UNCHANGED <<disk, faults>>
    \/ /\ ~ ok /\ ~ w.bad
       /\ Fault
       /\ \E n \in 0 .. Len(w.buffer), torn, cleared \in BOOLEAN :
              /\ wal' = [w EXCEPT !.bad = TRUE,
                                  !.buffer = IF cleared THEN <<>> ELSE @]
              /\ disk' = Written(w, n, torn)

\* What a scan of the log does to the stream: it fails if the scan runs off
\* the end of the file.
AfterScan(w, short) == [w EXCEPT !.bad = @ \/ (short /\ disk.bytes /\ disk.irregular)]

-----------------------------------------------------------------------------
(***************************************************************************)
(* open().  Every alternative begins with a closed database.               *)
(***************************************************************************)
StorageRefuses(create) == data.open \/ (~ create /\ data.content = "absent")

\* The data file cannot be opened.
OpenRefused(create) ==
    /\ ~ open
    /\ StorageRefuses(create)
    /\ Returns("open", FALSE)
    /\ UNCHANGED <<options, open, sink, tree, data, wal, disk, faults, doubt, promised>>

\* The header page cannot be written: open() leaves the data file open.
OpenHeaderFails(create) ==
    /\ ~ open
    /\ ~ StorageRefuses(create)
    /\ create \/ data.content = "short"
    /\ Fault
    /\ data' = [content |-> IF data.content = "full" THEN "full" ELSE "short",
                open |-> TRUE]
    /\ Returns("open", FALSE)
    /\ UNCHANGED <<options, open, sink, tree, wal, disk, doubt, promised>>

\* Mutant of DataFile: the file is left as initializeStorage opened it.
DataFileLeftOpen(stays) == [content |-> "full", open |-> TRUE]

\* The data file once its header is there.
DataFile(stays) == [content |-> "full", open |-> stays]

\* LogManager::initialize fails: the log was never shut down or its file never
\* closed, or (a fault) its header cannot be written or read.
OpenLogFails(create) ==
    /\ ~ open
    /\ ~ StorageRefuses(create)
    /\ options.enableWal
    /\ \/ wal.fileOpen /\ UNCHANGED <<wal, faults>>
       \/ /\ ~ wal.fileOpen
          /\ Fault
          /\ wal' = [wal EXCEPT !.fileOpen = TRUE, !.bad = TRUE]
    /\ data' = DataFile(FALSE)
    /\ Returns("open", FALSE)
    /\ UNCHANGED <<options, open, sink, tree, disk, doubt, promised>>

\* The log after initialize(): create() begins behind the header whatever the
\* file holds, open() scans it for LSNs.
Initialized(create, short) ==
    LET w == [wal EXCEPT !.ready = TRUE, !.fileOpen = TRUE, !.bad = FALSE,
                         !.over = create /\ disk.bytes]
    IN  IF create THEN w ELSE AfterScan(w, short)

\* Mutant of Recovers: recover() does not end with validate().
RecoversUnvalidated(w) == TRUE

\* recover() of the log w.  No record can be read, so that no checkpoint is
\* found and nothing is replayed, and validate() refuses any record and any
\* stream that has failed.
Recovers(w) == ~ disk.bytes /\ ~ w.bad

\* LogManager::shutdown with an empty buffer.
ShutDown(w) == IF w.bad THEN w ELSE [w EXCEPT !.ready = FALSE, !.fileOpen = FALSE]

\* Recovery fails: the tree was cleared, the log is shut down if it can be,
\* and the data file is closed.
OpenRecoveryFails(create) ==
    /\ ~ open
    /\ ~ StorageRefuses(create)
    /\ options.enableWal /\ options.recoverOnOpen /\ ~ wal.fileOpen
    /\ \E short \in BOOLEAN :
          LET w == AfterScan(Initialized(create, short), short)
          IN  ~ Recovers(w) /\ wal' = ShutDown(w)
    /\ tree' = NoTree
    /\ data' = DataFile(FALSE)
    /\ Returns("open", FALSE)
    /\ UNCHANGED <<options, open, sink, disk, faults, doubt, promised>>

\* open() succeeds.  Without recovery the tree is what it was.
OpenSucceeds(create) ==
    /\ ~ open
    /\ ~ StorageRefuses(create)
    /\ IF options.enableWal
       THEN \E short \in BOOLEAN :
                LET w == Initialized(create, short)
                IN  /\ ~ wal.fileOpen
                    /\ options.recoverOnOpen => Recovers(w)
                    /\ wal' = w
       ELSE UNCHANGED wal
    /\ tree' = IF options.enableWal /\ options.recoverOnOpen THEN NoTree ELSE tree
    /\ sink' = options.enableWal
    /\ data' = DataFile(TRUE)
    /\ open' = TRUE
    /\ disk' = [disk EXCEPT !.stored = tree'.keys]
    /\ doubt' = {}
    /\ Returns("open", TRUE)
    /\ UNCHANGED <<options, faults, promised>>

-----------------------------------------------------------------------------
(***************************************************************************)
(* The calls of an open database.                                          *)
(***************************************************************************)
\* The log's writer after the tree handed it records, up to the first that
\* the buffer has no room for.
Appended(records) ==
    LET all == wal.buffer \o records
    IN  IF sink
        THEN [wal EXCEPT !.buffer =
                 SubSeq(all, 1, IF Len(all) > BufferRecords THEN BufferRecords ELSE Len(all))]
        ELSE wal

Room(n) == sink => Len(wal.buffer) + n <= BufferRecords

\* A call on key k that changed the tree returns.
Acknowledge(call, k, ok) ==
    /\ Returns(call, ok)
    /\ doubt' = IF ok THEN doubt ELSE doubt \cup {k}
    /\ promised' = IF ok /\ call = "insert" /\ options.enableWal
                   THEN promised \cup {k}
                   ELSE promised \ {k}

\* Mutant of FlushAfter: what the flush returns is not looked at.
FlushAfterIgnored(w, ok) ==
    ok /\ IF options.enableWal THEN \E f \in BOOLEAN : Flush(w, f)
          ELSE wal' = w /\ UNCHANGED <<disk, faults>>

\* insert() and erase() flush the log, if there is one, once the tree has
\* changed.
FlushAfter(w, ok) ==
    IF options.enableWal THEN Flush(w, ok)
    ELSE ok /\ wal' = w /\ UNCHANGED <<disk, faults>>

\* The records of an insertion: a tree without a root allocates one first.
InsertRecords(k) ==
    (IF tree.root THEN <<>> ELSE <<Structural>>) \o <<Logged("PageUpdate", k)>>

Insert(k) ==
    /\ open
    /\ k \notin tree.keys
    /\ LET n == Len(InsertRecords(k))
       IN  \/ /\ Room(n)
             /\ tree' = [keys |-> tree.keys \cup {k}, root |-> TRUE]
             /\ \E ok \in BOOLEAN : /\ FlushAfter(Appended(InsertRecords(k)), ok)
                                    /\ Acknowledge("insert", k, ok)
          \/ /\ ~ Room(n)
             /\ tree' = IF tree.root \/ Room(1)
                        THEN [keys |-> tree.keys \cup {k}, root |-> TRUE] ELSE tree
             /\ wal' = Appended(InsertRecords(k))
             /\ Acknowledge("insert", k, FALSE)
             /\ UNCHANGED <<disk, faults>>
    /\ UNCHANGED <<options, open, sink, data>>

\* The records of an erasure: the root is given back with its last key.
EraseRecords(k) ==
    <<Logged("PageDelete", k)>> \o (IF tree.keys = {k} THEN <<Structural>> ELSE <<>>)

\* erase() ignores a failure to log that the root is given back.
Erase(k) ==
    /\ open
    /\ k \in tree.keys
    /\ \/ /\ Room(1)
          /\ tree' = [keys |-> tree.keys \ {k}, root |-> tree.keys # {k}]
          /\ \E ok \in BOOLEAN : /\ FlushAfter(Appended(EraseRecords(k)), ok)
                                 /\ Acknowledge("erase", k, ok)
       \/ /\ ~ Room(1)
          /\ tree' = [tree EXCEPT !.keys = @ \ {k}]
          /\ Acknowledge("erase", k, FALSE)
          /\ UNCHANGED <<wal, disk, faults>>
    /\ UNCHANGED <<options, open, sink, data>>

\* contains() and find().
Contains(k) == open /\ k \in tree.keys

\* checkpoint(): the marker is appended (fits: a snapshot of a large tree does
\* not fit the buffer) and flushed.  The search for its LSN that truncation
\* begins with never finds it, so that truncate makes every call fail.
Checkpoint(truncate, fits) ==
    LET room == fits /\ Len(wal.buffer) < BufferRecords
        w    == [wal EXCEPT !.buffer = Append(@, Structural)]
    IN  /\ open /\ options.enableWal
        /\ \/ ~ room /\ Returns("checkpoint", FALSE) /\ UNCHANGED <<wal, disk, faults>>
           \/ room /\ ~ truncate /\ \E ok \in BOOLEAN :
                  Flush(w, ok) /\ Returns("checkpoint", ok)
           \/ room /\ truncate /\ Flush(w, FALSE) /\ Returns("checkpoint", FALSE)
           \/ /\ room /\ truncate /\ ~ w.bad
              /\ disk' = Written(w, Len(w.buffer), FALSE)
              /\ \E short \in BOOLEAN :
                    wal' = [w EXCEPT !.buffer = <<>>, !.bad = short /\ disk'.irregular]
              /\ Returns("checkpoint", FALSE)
              /\ UNCHANGED faults
        /\ UNCHANGED <<options, open, sink, tree, data, doubt, promised>>

\* validate(): the tree is in order, and with a log the records are checked
\* and replayed into a scratch tree that must be as large.
Validate ==
    /\ open
    /\ IF options.enableWal
       THEN \E short \in BOOLEAN : wal' = AfterScan(wal, short)
       ELSE UNCHANGED wal
    /\ Returns("validate", options.enableWal => Recovers(wal') /\ tree.keys = {})
    /\ UNCHANGED <<options, open, sink, tree, data, disk, faults, doubt, promised>>

\* The end of close().
Closed == data' = [data EXCEPT !.open = FALSE] /\ open' = FALSE

\* close(): the tree stops logging first; if then the log cannot be flushed the
\* database stays open.
Close ==
    /\ open
    /\ sink' = FALSE
    /\ IF options.enableWal
       THEN \/ /\ ~ wal.bad
               /\ disk' = Written(wal, Len(wal.buffer), FALSE)
               /\ wal' = [ShutDown(wal) EXCEPT !.buffer = <<>>]
               /\ Closed
               /\ Returns("close", TRUE)
               /\ UNCHANGED faults
            \/ Flush(wal, FALSE) /\ Returns("close", FALSE) /\ UNCHANGED <<open, data>>
       ELSE Closed /\ Returns("close", TRUE) /\ UNCHANGED <<wal, disk, faults>>
    /\ UNCHANGED <<options, tree, doubt, promised>>

-----------------------------------------------------------------------------
(***************************************************************************)
(* The process ends and another begins, with options of its own.           *)
(***************************************************************************)
Exit(d) ==
    /\ options' \in Options
    /\ open' = FALSE
    /\ sink' = FALSE
    /\ tree' = NoTree
    /\ data' = [data EXCEPT !.open = FALSE]
    /\ wal' = NewWal
    /\ disk' = [d EXCEPT !.stored = {}]
    /\ doubt' = {}
    /\ last' = [call |-> "none", ok |-> TRUE]

\* Between two calls.
Crash == Exit(disk) /\ UNCHANGED <<faults, promised>>

\* In the flush of an insertion or erasure of k.
CrashInFlush(k) ==
    LET records == IF k \in tree.keys THEN EraseRecords(k) ELSE InsertRecords(k)
        w       == Appended(records)
    IN  /\ open /\ options.enableWal /\ ~ wal.bad
        /\ Fault
        /\ \E n \in 0 .. Len(w.buffer) : Exit(Written(w, n, TRUE))
        /\ promised' = promised \ {k}

Next ==
    \/ \E create \in BOOLEAN :
          \/ OpenRefused(create)
          \/ OpenHeaderFails(create)
          \/ OpenLogFails(create)
          \/ OpenRecoveryFails(create)
          \/ OpenSucceeds(create)
    \/ \E k \in Keys : Insert(k) \/ Erase(k) \/ CrashInFlush(k)
    \/ \E truncate, fits \in BOOLEAN : Checkpoint(truncate, fits)
    \/ Validate
    \/ Close
    \/ Crash

Spec == Init /\ [][Next]_vars

-----------------------------------------------------------------------------
(***************************************************************************)
(* Properties.                                                             *)
(***************************************************************************)
Calls == {"none", "open", "insert", "erase", "checkpoint", "validate", "close"}

Record == [type : {"PageUpdate", "PageDelete", "Structural"}, key : SUBSET Keys]

\* Every variable has its type, and the log's buffer never exceeds its
\* capacity.
TypeOK ==
    /\ options \in Options
    /\ open \in BOOLEAN /\ sink \in BOOLEAN
    /\ tree \in [keys : SUBSET Keys, root : BOOLEAN]
    /\ data \in [content : {"absent", "short", "full"}, open : BOOLEAN]
    /\ wal \in [ready : BOOLEAN, fileOpen : BOOLEAN, bad : BOOLEAN, over : BOOLEAN,
                buffer : Seq(Record)]
    /\ Len(wal.buffer) <= BufferRecords
    /\ disk \in [bytes : BOOLEAN, irregular : BOOLEAN, stored : SUBSET Keys]
    /\ faults \in 0 .. MaxFaults
    /\ doubt \in SUBSET Keys /\ promised \in SUBSET Keys
    /\ last \in [call : Calls, ok : BOOLEAN]

\* A database that is open and recovered itself has every key whose insertion
\* was logged and acknowledged, by this process or an earlier one, and whose
\* fate no failed call or crash left open: open() refuses rather than serve
\* less than was promised.
PromisesKept ==
    open /\ options.enableWal /\ options.recoverOnOpen =>
        \A k \in promised : Contains(k)

\* While a database with a log is open, the records that reached the file in
\* this session say of every key what the tree says of it, unless a call on
\* that key failed: no acknowledged change is in the tree only.
AcknowledgedIsLogged ==
    open /\ options.enableWal =>
        \A k \in Keys \ doubt : k \in disk.stored <=> k \in tree.keys

\* close() takes the log away from the tree before it flushes.  A database that
\* stays open without its log has a failed stream, so that no later call on it
\* is acknowledged.
UnloggedMeansFailed == open /\ options.enableWal /\ ~ sink => wal.bad

\* Unless an I/O error or a torn record came first, an open() that fails and a
\* close() leave no file open: the same object can be opened again.
HandlesReleased ==
    ~ open /\ faults = 0 => ~ data.open /\ (wal.fileOpen => disk.irregular)

\* What the user of a database sees: the keys it serves while it is open, and
\* the keys that were promised.
Store == INSTANCE DurableStore
             WITH up <- open,
                  recovers <- open /\ options.enableWal /\ options.recoverOnOpen,
                  keys <- IF open THEN tree.keys ELSE {},
                  sure <- promised

\* Every call of a database, every failure in the middle of one and every crash
\* is a step that a DurableStore may take: a call changes its own key only, an
\* acknowledged one changes it as it says, calls on the log and refused calls
\* change nothing, and a database that recovers itself opens with everything
\* that was promised or does not open.
ImplementsStore == Store!Spec

\* A database that was closed is opened again (tests/TestDatabase.cpp:83,
\* "REQUIRE(db.open(path, false).ok())").
ReopenSucceeds ==
    last.call = "open" /\ faults = 0 /\ data.content = "full" /\ promised # {} => last.ok
=============================================================================
