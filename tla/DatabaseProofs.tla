--------------------------- MODULE DatabaseProofs ---------------------------
(***************************************************************************)
(* What core::Database keeps for every set of keys, every capacity of the  *)
(* log buffer and every number of faults: its types, that a database       *)
(* without its log has a failed log, that no promise is broken, that what  *)
(* is acknowledged is logged, that closed databases hold no files, and     *)
(* that it implements DurableStore.                                        *)
(***************************************************************************)
EXTENDS Database, TLAPS

WalType == [ready : BOOLEAN, fileOpen : BOOLEAN, bad : BOOLEAN, over : BOOLEAN,
            buffer : Seq(Record)]

DiskType == [bytes : BOOLEAN, irregular : BOOLEAN, stored : SUBSET Keys]

\* What is on disk of a promise: recovery looks for bytes in the log.
PromisesLeaveBytes == promised # {} => disk.bytes

IInv == TypeOK /\ UnloggedMeansFailed /\ PromisesLeaveBytes /\ PromisesKept

USE DatabaseAssumption

-----------------------------------------------------------------------------
(***************************************************************************)
(* Types of the operators on the log.                                      *)
(***************************************************************************)
\* A record for a key, and one that is about none, are records.
LEMMA RecordTypes ==
    /\ Structural \in Record
    /\ \A k \in Keys : \A type \in {"PageUpdate", "PageDelete"} : Logged(type, k) \in Record
BY DEF Structural, Logged, Record

\* The writer's fields one by one, and back.
LEMMA WalFields ==
    ASSUME NEW w
    PROVE  w \in WalType =>
               /\ w.ready \in BOOLEAN /\ w.fileOpen \in BOOLEAN
               /\ w.bad \in BOOLEAN /\ w.over \in BOOLEAN /\ w.buffer \in Seq(Record)
BY DEF WalType

\* Changing one field of the writer.
LEMMA WalExcept ==
    ASSUME NEW w \in WalType
    PROVE  /\ \A b \in Seq(Record) : /\ [w EXCEPT !.buffer = b] \in WalType
                                     /\ [w EXCEPT !.buffer = b].buffer = b
                                     /\ [w EXCEPT !.buffer = b].bad = w.bad
           /\ \A b \in BOOLEAN : /\ [w EXCEPT !.bad = b] \in WalType
                                 /\ [w EXCEPT !.bad = b].buffer = w.buffer
                                 /\ [w EXCEPT !.bad = b].bad = b
BY DEF WalType

\* What a flush leaves on disk.
LEMMA WrittenType ==
    ASSUME disk \in DiskType, NEW w \in WalType, NEW n \in Nat, NEW torn \in BOOLEAN
    PROVE  /\ Written(w, n, torn) \in DiskType
           /\ (disk.bytes \/ n > 0) => Written(w, n, torn).bytes
<1>1. Replayed(disk.stored, SubSeq(w.buffer, 1, n)) \in SUBSET Keys
  BY DEF Replayed
<1>2. disk.bytes \in BOOLEAN /\ disk.irregular \in BOOLEAN /\ w.over \in BOOLEAN
  BY DEF DiskType, WalType
<1>. QED  BY <1>1, <1>2 DEF Written, DiskType

\* flush() keeps the types and the bytes on disk, and reports success only when
\* the stream had not failed and the whole buffer is in the file.
LEMMA FlushSound ==
    ASSUME disk \in DiskType, faults \in 0 .. MaxFaults,
           NEW w \in WalType, Len(w.buffer) <= BufferRecords,
           NEW ok \in BOOLEAN, Flush(w, ok)
    PROVE  /\ wal' \in WalType /\ Len(wal'.buffer) <= BufferRecords
           /\ disk' \in DiskType /\ faults' \in 0 .. MaxFaults
           /\ disk.bytes => disk'.bytes
           /\ w.bad => wal'.bad
           /\ ok => ~ w.bad
           /\ ok /\ Len(w.buffer) > 0 => disk'.bytes
<1>. w.buffer \in Seq(Record) /\ Len(w.buffer) \in Nat /\ w.bad \in BOOLEAN
  BY WalFields
<1>. <<>> \in Seq(Record) /\ Len(<<>>) = 0
  OBVIOUS
<1>1. CASE ok /\ ~ w.bad /\ wal' = [w EXCEPT !.buffer = <<>>]
           /\ disk' = Written(w, Len(w.buffer), FALSE) /\ UNCHANGED faults
  <2>1. wal' \in WalType /\ wal'.buffer = <<>> /\ wal'.bad = w.bad
    BY <1>1, WalExcept
  <2>2. /\ disk' \in DiskType /\ (disk.bytes => disk'.bytes)
        /\ Len(w.buffer) > 0 => disk'.bytes
    BY <1>1, WrittenType
  <2>3. Len(wal'.buffer) <= BufferRecords
    BY <2>1
  <2>4. faults' \in 0 .. MaxFaults
    BY <1>1
  <2>. QED  BY <1>1, <2>1, <2>2, <2>3, <2>4
<1>2. CASE ~ ok /\ w.bad /\ wal' = w /\ UNCHANGED <<disk, faults>>
  BY <1>2
<1>3. CASE ~ ok /\ ~ w.bad /\ Fault
           /\ \E n \in 0 .. Len(w.buffer), torn, cleared \in BOOLEAN :
                 /\ wal' = [w EXCEPT !.bad = TRUE,
                                     !.buffer = IF cleared THEN <<>> ELSE @]
                 /\ disk' = Written(w, n, torn)
  <2>1. PICK n \in 0 .. Len(w.buffer), torn \in BOOLEAN, cleared \in BOOLEAN :
               /\ wal' = [w EXCEPT !.bad = TRUE, !.buffer = IF cleared THEN <<>> ELSE @]
               /\ disk' = Written(w, n, torn)
    BY <1>3
  <2>2. /\ wal' \in WalType
        /\ wal'.buffer = IF cleared THEN <<>> ELSE w.buffer
    BY <2>1 DEF WalType
  <2>3. disk' \in DiskType /\ (disk.bytes => disk'.bytes)
    BY <2>1, WrittenType
  <2>4. faults' \in 0 .. MaxFaults
    BY <1>3 DEF Fault
  <2>. QED  BY <1>3, <2>2, <2>3, <2>4
<1>. QED  BY <1>1, <1>2, <1>3 DEF Flush

\* The writer after records were handed to it: within its capacity, its stream
\* as it was, and not empty if there was room for them all.
LEMMA AppendedSound ==
    ASSUME wal \in WalType, Len(wal.buffer) <= BufferRecords, sink \in BOOLEAN,
           NEW records \in Seq(Record)
    PROVE  /\ Appended(records) \in WalType
           /\ Len(Appended(records).buffer) <= BufferRecords
           /\ Appended(records).bad = wal.bad
           /\ sink /\ records # <<>> /\ Room(Len(records)) =>
                  Len(Appended(records).buffer) > 0
<1>. DEFINE all == wal.buffer \o records
            m == IF Len(all) > BufferRecords THEN BufferRecords ELSE Len(all)
<1>1. wal.buffer \in Seq(Record) /\ Len(wal.buffer) \in Nat /\ Len(records) \in Nat
  BY WalFields
<1>2. all \in Seq(Record) /\ Len(all) = Len(wal.buffer) + Len(records)
  BY <1>1
<1>. HIDE DEF all
<1>3. m \in 0 .. Len(all) /\ m <= BufferRecords
  BY <1>1, <1>2
<1>. HIDE DEF m
<1>4. SubSeq(all, 1, m) \in Seq(Record) /\ Len(SubSeq(all, 1, m)) = m
  BY <1>2, <1>3
<1>5. CASE ~ sink
  BY <1>5 DEF Appended
<1>6. CASE sink
  <2>1. Appended(records) = [wal EXCEPT !.buffer = SubSeq(all, 1, m)]
    BY <1>6 DEF Appended, all, m
  <2>2. /\ Appended(records) \in WalType
        /\ Appended(records).buffer = SubSeq(all, 1, m)
        /\ Appended(records).bad = wal.bad
    BY <2>1, <1>4 DEF WalType
  <2>3. ASSUME records # <<>>, Room(Len(records)) PROVE m > 0
    <3>1. Len(records) > 0
      BY <2>3, <1>1
    <3>2. Len(all) <= BufferRecords
      BY <2>3, <1>2, <1>6 DEF Room
    <3>. QED  BY <1>1, <1>2, <3>1, <3>2 DEF m
  <2>. QED  BY <1>3, <1>4, <2>2, <2>3
<1>. QED  BY <1>5, <1>6

\* insert() and erase() hand over at least one record.
LEMMA RecordsSound ==
    ASSUME NEW k \in Keys
    PROVE  /\ InsertRecords(k) \in Seq(Record) /\ InsertRecords(k) # <<>>
           /\ EraseRecords(k) \in Seq(Record) /\ EraseRecords(k) # <<>>
<1>1. /\ Structural \in Record
      /\ Logged("PageUpdate", k) \in Record /\ Logged("PageDelete", k) \in Record
  BY RecordTypes
<1>2. /\ <<>> \in Seq(Record) /\ Len(<<>>) = 0
      /\ \A r \in Record : <<r>> \in Seq(Record) /\ Len(<<r>>) = 1
  OBVIOUS
<1>3. \A s, t \in Seq(Record) : s \o t \in Seq(Record) /\ Len(s \o t) = Len(s) + Len(t)
  OBVIOUS
<1>4. InsertRecords(k) \in Seq(Record) /\ Len(InsertRecords(k)) \in {1, 2}
  BY <1>1, <1>2, <1>3 DEF InsertRecords
<1>5. EraseRecords(k) \in Seq(Record) /\ Len(EraseRecords(k)) \in {1, 2}
  BY <1>1, <1>2, <1>3 DEF EraseRecords
<1>6. ~ (Len(<<>>) \in {1, 2})
  OBVIOUS
<1>. QED  BY <1>4, <1>5, <1>6, Zenon

-----------------------------------------------------------------------------
(***************************************************************************)
(* The invariant, one action at a time.                                    *)
(***************************************************************************)
\* A new object on a new path satisfies the invariant.
LEMMA InitIInv == Init => IInv
<1>. SUFFICES ASSUME Init PROVE IInv
  OBVIOUS
<1>1. wal \in WalType /\ Len(wal.buffer) <= BufferRecords
  <2>1. <<>> \in Seq(Record) /\ Len(<<>>) = 0
    OBVIOUS
  <2>. QED  BY <2>1 DEF Init, NewWal, WalType
<1>2. disk \in DiskType /\ last \in [call : Calls, ok : BOOLEAN]
  BY DEF Init, DiskType, Calls
<1>3. /\ tree \in [keys : SUBSET Keys, root : BOOLEAN]
      /\ data \in [content : {"absent", "short", "full"}, open : BOOLEAN]
  BY DEF Init, NoTree
<1>4. faults \in 0 .. MaxFaults /\ doubt \in SUBSET Keys /\ promised \in SUBSET Keys
  BY DEF Init
<1>5. TypeOK
  BY <1>1, <1>2, <1>3, <1>4 DEF Init, TypeOK, WalType, DiskType
<1>. QED  BY <1>5 DEF Init, IInv, UnloggedMeansFailed, PromisesLeaveBytes, PromisesKept

\* The invariant's typing facts in the form the lemmas above take them.
LEMMA Typed ==
    TypeOK => /\ wal \in WalType /\ Len(wal.buffer) <= BufferRecords
              /\ wal.bad \in BOOLEAN
              /\ disk \in DiskType /\ disk.bytes \in BOOLEAN
              /\ faults \in 0 .. MaxFaults /\ sink \in BOOLEAN
              /\ options.enableWal \in BOOLEAN /\ options.recoverOnOpen \in BOOLEAN
BY DEF TypeOK, WalType, DiskType, Options

\* The flush at the end of insert() and erase().
LEMMA FlushAfterSound ==
    ASSUME TypeOK, NEW w \in WalType, Len(w.buffer) <= BufferRecords,
           NEW ok \in BOOLEAN, FlushAfter(w, ok)
    PROVE  /\ wal' \in WalType /\ Len(wal'.buffer) <= BufferRecords
           /\ disk' \in DiskType /\ faults' \in 0 .. MaxFaults
           /\ disk.bytes => disk'.bytes
           /\ w.bad => wal'.bad
           /\ options.enableWal /\ ok => ~ w.bad
           /\ options.enableWal /\ ok /\ Len(w.buffer) > 0 => disk'.bytes
<1>1. CASE options.enableWal
  BY <1>1, Typed, FlushSound DEF FlushAfter
<1>2. CASE ~ options.enableWal
  BY <1>2, Typed DEF FlushAfter
<1>. QED  BY <1>1, <1>2, Typed

\* The observers after a call on a key.
LEMMA AcknowledgeSound ==
    ASSUME TypeOK, NEW k \in Keys, NEW ok \in BOOLEAN,
           NEW call \in {"insert", "erase"}, Acknowledge(call, k, ok)
    PROVE  /\ doubt' \in SUBSET Keys /\ promised' \in SUBSET Keys
           /\ last' \in [call : Calls, ok : BOOLEAN]
           /\ promised' \subseteq promised \cup {k}
           /\ k \in promised' => ok /\ options.enableWal /\ call = "insert"
<1>1. promised \in SUBSET Keys /\ doubt \in SUBSET Keys
  BY DEF TypeOK
<1>2. last' \in [call : Calls, ok : BOOLEAN]
  BY DEF Acknowledge, Returns, Calls
<1>3. /\ doubt' \in SUBSET Keys
      /\ promised' \in {promised \cup {k}, promised \ {k}}
      /\ k \in promised' => ok /\ options.enableWal /\ call = "insert"
  BY <1>1 DEF Acknowledge
<1>. QED  BY <1>1, <1>2, <1>3

\* insert() preserves the invariant: the key is promised only if its records
\* are in the file.
LEMMA InsertIInv == ASSUME NEW k \in Keys PROVE IInv /\ Insert(k) => IInv'
<1>. SUFFICES ASSUME IInv, Insert(k) PROVE IInv'
  OBVIOUS
<1>. DEFINE R == InsertRecords(k)
            w == Appended(R)
<1>1. TypeOK
  BY DEF IInv
<1>2. R \in Seq(Record) /\ R # <<>>
  BY RecordsSound
<1>3. /\ w \in WalType /\ Len(w.buffer) <= BufferRecords /\ w.bad = wal.bad
      /\ sink /\ Room(Len(R)) => Len(w.buffer) > 0
  BY <1>1, <1>2, Typed, AppendedSound
<1>. HIDE DEF R
<1>4. UNCHANGED <<options, open, sink, data>> /\ open
  BY DEF Insert
<1>5. CASE /\ Room(Len(R))
           /\ tree' = [keys |-> tree.keys \cup {k}, root |-> TRUE]
           /\ \E ok \in BOOLEAN : FlushAfter(w, ok) /\ Acknowledge("insert", k, ok)
  <2>1. PICK ok \in BOOLEAN : FlushAfter(w, ok) /\ Acknowledge("insert", k, ok)
    BY <1>5
  <2>. HIDE DEF w
  <2>2. /\ wal' \in WalType /\ Len(wal'.buffer) <= BufferRecords
        /\ disk' \in DiskType /\ faults' \in 0 .. MaxFaults
        /\ disk.bytes => disk'.bytes
        /\ wal.bad => wal'.bad
        /\ options.enableWal /\ ok => ~ wal.bad
        /\ options.enableWal /\ ok /\ Len(w.buffer) > 0 => disk'.bytes
    BY <1>1, <1>3, <2>1, FlushAfterSound
  <2>3. /\ doubt' \in SUBSET Keys /\ promised' \in SUBSET Keys
        /\ last' \in [call : Calls, ok : BOOLEAN]
        /\ promised' \subseteq promised \cup {k}
        /\ k \in promised' => ok /\ options.enableWal
    BY <1>1, <2>1, AcknowledgeSound
  <2>4. TypeOK'
    BY <1>1, <1>4, <1>5, <2>2, <2>3 DEF TypeOK, WalType, DiskType
  <2>5. UnloggedMeansFailed'
    BY <1>4, <2>2 DEF IInv, UnloggedMeansFailed
  <2>6. PromisesLeaveBytes'
    <3>1. CASE k \in promised'
      <4>1. sink
        BY <1>1, <1>4, <2>2, <2>3, <3>1, Typed DEF IInv, UnloggedMeansFailed
      <4>. QED  BY <1>3, <1>5, <2>2, <2>3, <3>1, <4>1 DEF PromisesLeaveBytes
    <3>2. CASE k \notin promised'
      BY <2>2, <2>3, <3>2 DEF IInv, PromisesLeaveBytes
    <3>. QED  BY <3>1, <3>2
  <2>7. PromisesKept'
    BY <1>4, <1>5, <2>3 DEF IInv, PromisesKept, Contains
  <2>. QED  BY <2>4, <2>5, <2>6, <2>7 DEF IInv
<1>6. CASE /\ tree' \in {tree, [keys |-> tree.keys \cup {k}, root |-> TRUE]}
           /\ wal' = w
           /\ Acknowledge("insert", k, FALSE)
           /\ UNCHANGED <<disk, faults>>
  <2>1. /\ doubt' \in SUBSET Keys /\ promised' \in SUBSET Keys
        /\ last' \in [call : Calls, ok : BOOLEAN]
        /\ promised' \subseteq promised
    BY <1>1, <1>6, AcknowledgeSound
  <2>. HIDE DEF w
  <2>2. tree' \in [keys : SUBSET Keys, root : BOOLEAN] /\ tree.keys \subseteq tree'.keys
    <3>1. tree \in [keys : SUBSET Keys, root : BOOLEAN]
      BY <1>1 DEF TypeOK
    <3>2. CASE tree' = tree
      BY <3>1, <3>2
    <3>3. CASE tree' = [keys |-> tree.keys \cup {k}, root |-> TRUE]
      BY <3>1, <3>3
    <3>. QED  BY <1>6, <3>2, <3>3
  <2>3. TypeOK'
    BY <1>1, <1>3, <1>4, <1>6, <2>1, <2>2 DEF TypeOK, WalType
  <2>. QED  BY <1>3, <1>4, <1>6, <2>1, <2>2, <2>3
            DEF IInv, UnloggedMeansFailed, PromisesLeaveBytes, PromisesKept, Contains
<1>. QED  BY <1>5, <1>6 DEF Insert, R

\* erase() preserves the invariant: a key that leaves the tree is no longer
\* promised.
LEMMA EraseIInv == ASSUME NEW k \in Keys PROVE IInv /\ Erase(k) => IInv'
<1>. SUFFICES ASSUME IInv, Erase(k) PROVE IInv'
  OBVIOUS
<1>. DEFINE R == EraseRecords(k)
            w == Appended(R)
<1>1. TypeOK
  BY DEF IInv
<1>2. R \in Seq(Record)
  BY RecordsSound
<1>3. w \in WalType /\ Len(w.buffer) <= BufferRecords /\ w.bad = wal.bad
  BY <1>1, <1>2, Typed, AppendedSound
<1>4. UNCHANGED <<options, open, sink, data>> /\ open
  BY DEF Erase
<1>5. /\ tree' \in [keys : SUBSET Keys, root : BOOLEAN]
      /\ tree'.keys = tree.keys \ {k}
  <2>1. tree \in [keys : SUBSET Keys, root : BOOLEAN]
    BY <1>1 DEF TypeOK
  <2>2. CASE tree' = [keys |-> tree.keys \ {k}, root |-> tree.keys # {k}]
    BY <2>1, <2>2
  <2>3. CASE tree' = [tree EXCEPT !.keys = @ \ {k}]
    BY <2>1, <2>3
  <2>. QED  BY <2>2, <2>3 DEF Erase
<1>6. PICK ok \in BOOLEAN :
           /\ Acknowledge("erase", k, ok)
           /\ \/ FlushAfter(w, ok)
              \/ UNCHANGED <<wal, disk, faults>>
  BY DEF Erase
<1>. HIDE DEF w
<1>7. /\ wal' \in WalType /\ Len(wal'.buffer) <= BufferRecords
      /\ disk' \in DiskType /\ faults' \in 0 .. MaxFaults
      /\ disk.bytes => disk'.bytes
      /\ wal.bad => wal'.bad
  BY <1>1, <1>3, <1>6, Typed, FlushAfterSound
<1>8. /\ doubt' \in SUBSET Keys /\ promised' \in SUBSET Keys
      /\ last' \in [call : Calls, ok : BOOLEAN]
      /\ promised' \subseteq promised \ {k}
  BY <1>1, <1>6, AcknowledgeSound
<1>9. TypeOK'
  BY <1>1, <1>4, <1>5, <1>7, <1>8 DEF TypeOK, WalType, DiskType
<1>. QED  BY <1>4, <1>5, <1>7, <1>8, <1>9
          DEF IInv, UnloggedMeansFailed, PromisesLeaveBytes, PromisesKept, Contains

\* A step that leaves the database as open as it was, changes neither the tree
\* nor the promises, and neither repairs the stream nor empties the log.
LEMMA QuietStep ==
    ASSUME IInv,
           wal' \in WalType, Len(wal'.buffer) <= BufferRecords,
           disk' \in DiskType, faults' \in 0 .. MaxFaults,
           data' \in [content : {"absent", "short", "full"}, open : BOOLEAN],
           last' \in [call : Calls, ok : BOOLEAN],
           disk.bytes => disk'.bytes,
           UNCHANGED <<options, doubt, promised>>,
           \/ ~ open /\ open' = open /\ tree' \in {tree, NoTree} /\ sink' = sink
           \/ open /\ open' \in BOOLEAN /\ tree' = tree /\ sink' \in BOOLEAN
              /\ (sink' = sink \/ ~ open' \/ ~ options.enableWal \/ wal'.bad)
              /\ (wal.bad => wal'.bad \/ ~ open')
    PROVE  IInv'
<1>1. TypeOK'
  <2>1. tree' \in [keys : SUBSET Keys, root : BOOLEAN] /\ open' \in BOOLEAN /\ sink' \in BOOLEAN
    <3>1. /\ tree \in [keys : SUBSET Keys, root : BOOLEAN]
          /\ open \in BOOLEAN /\ sink \in BOOLEAN
      BY DEF IInv, TypeOK
    <3>2. NoTree \in [keys : SUBSET Keys, root : BOOLEAN]
      BY DEF NoTree
    <3>. QED  BY <3>1, <3>2
  <2>. QED  BY <2>1 DEF IInv, TypeOK, WalType, DiskType
<1>2. UnloggedMeansFailed'
  BY DEF IInv, UnloggedMeansFailed
<1>3. PromisesLeaveBytes'
  BY DEF IInv, PromisesLeaveBytes
<1>4. PromisesKept'
  BY DEF IInv, PromisesKept, Contains
<1>. QED  BY <1>1, <1>2, <1>3, <1>4 DEF IInv

\* A scan of the log changes the state of the stream only, from whole to failed.
LEMMA AfterScanSound ==
    ASSUME TypeOK, NEW w \in WalType, NEW short \in BOOLEAN
    PROVE  /\ AfterScan(w, short) \in WalType
           /\ AfterScan(w, short).buffer = w.buffer
           /\ w.bad => AfterScan(w, short).bad
<1>1. (w.bad \/ (short /\ disk.bytes /\ disk.irregular)) \in BOOLEAN
  OBVIOUS
<1>. QED  BY <1>1 DEF AfterScan, WalType

\* The log that open() sets up, and the one it gives back when recovery fails.
LEMMA OpenedLogSound ==
    ASSUME TypeOK, NEW create \in BOOLEAN, NEW short \in BOOLEAN
    PROVE  /\ Initialized(create, short) \in WalType
           /\ Initialized(create, short).buffer = wal.buffer
           /\ \A w \in WalType : ShutDown(w) \in WalType /\ ShutDown(w).buffer = w.buffer
<1>1. wal \in WalType
  BY Typed
<1>. DEFINE w0 == [wal EXCEPT !.ready = TRUE, !.fileOpen = TRUE, !.bad = FALSE,
                              !.over = create /\ disk.bytes]
<1>2. w0 \in WalType /\ w0.buffer = wal.buffer
  BY <1>1 DEF WalType
<1>. HIDE DEF w0
<1>3. Initialized(create, short) = IF create THEN w0 ELSE AfterScan(w0, short)
  BY DEF Initialized, w0
<1>4. /\ Initialized(create, short) \in WalType
      /\ Initialized(create, short).buffer = wal.buffer
  BY <1>2, <1>3, AfterScanSound
<1>5. \A w \in WalType : ShutDown(w) \in WalType /\ ShutDown(w).buffer = w.buffer
  BY DEF ShutDown, WalType
<1>. QED  BY <1>4, <1>5

\* validate() preserves the invariant.
LEMMA ValidateIInv == IInv /\ Validate => IInv'
<1>. SUFFICES ASSUME IInv, Validate PROVE IInv'
  OBVIOUS
<1>1. TypeOK
  BY DEF IInv
<1>2. wal' \in WalType /\ wal'.buffer = wal.buffer /\ (wal.bad => wal'.bad)
  <2>1. CASE options.enableWal
    <3>1. PICK short \in BOOLEAN : wal' = AfterScan(wal, short)
      BY <2>1 DEF Validate
    <3>. QED  BY <1>1, <3>1, Typed, AfterScanSound
  <2>2. CASE ~ options.enableWal
    BY <1>1, <2>2, Typed DEF Validate
  <2>. QED  BY <2>1, <2>2
<1>3. last' \in [call : Calls, ok : BOOLEAN]
  BY DEF Validate, Returns, Calls
<1>4. data \in [content : {"absent", "short", "full"}, open : BOOLEAN] /\ sink \in BOOLEAN
  BY <1>1 DEF TypeOK
<1>. QED  BY <1>1, <1>2, <1>3, <1>4, Typed, QuietStep DEF Validate

\* The marker that checkpoint() appends.
LEMMA MarkerSound ==
    ASSUME TypeOK, Len(wal.buffer) < BufferRecords
    PROVE  LET w == [wal EXCEPT !.buffer = Append(@, Structural)]
           IN  w \in WalType /\ Len(w.buffer) <= BufferRecords /\ w.bad = wal.bad
<1>1. wal \in WalType /\ wal.buffer \in Seq(Record)
  BY Typed, WalFields
<1>2. /\ Append(wal.buffer, Structural) \in Seq(Record)
      /\ Len(Append(wal.buffer, Structural)) = Len(wal.buffer) + 1
  BY <1>1, RecordTypes
<1>3. Len(wal.buffer) \in Nat
  BY <1>1
<1>. QED  BY <1>1, <1>2, <1>3 DEF WalType

\* checkpoint() preserves the invariant.
LEMMA CheckpointIInv ==
    ASSUME NEW truncate \in BOOLEAN, NEW fits \in BOOLEAN
    PROVE  IInv /\ Checkpoint(truncate, fits) => IInv'
<1>. SUFFICES ASSUME IInv, Checkpoint(truncate, fits) PROVE IInv'
  OBVIOUS
<1>. DEFINE w == [wal EXCEPT !.buffer = Append(@, Structural)]
            room == fits /\ Len(wal.buffer) < BufferRecords
<1>1. TypeOK
  BY DEF IInv
<1>2. /\ open /\ UNCHANGED <<options, open, sink, tree, data, doubt, promised>>
      /\ \/ UNCHANGED <<wal, disk, faults>>
         \/ room /\ \E ok \in BOOLEAN : Flush(w, ok)
         \/ /\ room /\ ~ w.bad
            /\ disk' = Written(w, Len(w.buffer), FALSE)
            /\ \E short \in BOOLEAN :
                  wal' = [w EXCEPT !.buffer = <<>>, !.bad = short /\ disk'.irregular]
            /\ UNCHANGED faults
  BY DEF Checkpoint
<1>3. last' \in [call : Calls, ok : BOOLEAN]
  <2>1. PICK ok \in BOOLEAN : Returns("checkpoint", ok)
    BY DEF Checkpoint
  <2>. QED  BY <2>1 DEF Returns, Calls
<1>4. room => w \in WalType /\ Len(w.buffer) <= BufferRecords /\ w.bad = wal.bad
  BY <1>1, MarkerSound
<1>. HIDE DEF w
<1>5. /\ wal' \in WalType /\ Len(wal'.buffer) <= BufferRecords
      /\ disk' \in DiskType /\ faults' \in 0 .. MaxFaults
      /\ disk.bytes => disk'.bytes
      /\ wal.bad => wal'.bad
  <2>1. CASE UNCHANGED <<wal, disk, faults>>
    BY <1>1, <2>1, Typed
  <2>2. CASE room /\ \E ok \in BOOLEAN : Flush(w, ok)
    BY <1>1, <1>4, <2>2, Typed, FlushSound
  <2>3. CASE /\ room /\ ~ w.bad
             /\ disk' = Written(w, Len(w.buffer), FALSE)
             /\ \E short \in BOOLEAN :
                   wal' = [w EXCEPT !.buffer = <<>>, !.bad = short /\ disk'.irregular]
             /\ UNCHANGED faults
    <3>1. w \in WalType /\ w.buffer \in Seq(Record) /\ Len(w.buffer) \in Nat
      BY <1>4, <2>3, WalFields
    <3>2. disk' \in DiskType /\ (disk.bytes => disk'.bytes)
      BY <1>1, <2>3, <3>1, Typed, WrittenType
    <3>3. PICK short \in BOOLEAN :
             wal' = [w EXCEPT !.buffer = <<>>, !.bad = short /\ disk'.irregular]
      BY <2>3
    <3>4. <<>> \in Seq(Record) /\ Len(<<>>) = 0 /\ (short /\ disk'.irregular) \in BOOLEAN
      OBVIOUS
    <3>5. wal' \in WalType /\ wal'.buffer = <<>>
      BY <3>1, <3>3, <3>4 DEF WalType
    <3>6. Len(wal'.buffer) <= BufferRecords
      BY <3>4, <3>5
    <3>7. ~ wal.bad
      BY <1>4, <2>3
    <3>. QED  BY <1>1, <2>3, <3>2, <3>5, <3>6, <3>7, Typed
  <2>. QED  BY <1>2, <2>1, <2>2, <2>3
<1>6. data \in [content : {"absent", "short", "full"}, open : BOOLEAN]
      /\ sink \in BOOLEAN /\ open \in BOOLEAN
  BY <1>1 DEF TypeOK
<1>. QED  BY <1>2, <1>3, <1>5, <1>6, QuietStep

\* close() preserves the invariant: either the database is closed, or its tree
\* has lost the log and the stream has failed.
LEMMA CloseIInv == IInv /\ Close => IInv'
<1>. SUFFICES ASSUME IInv, Close PROVE IInv'
  OBVIOUS
<1>1. TypeOK
  BY DEF IInv
<1>2. /\ wal \in WalType /\ wal.buffer \in Seq(Record) /\ Len(wal.buffer) \in Nat
      /\ data \in [content : {"absent", "short", "full"}, open : BOOLEAN]
  BY <1>1, Typed, WalFields DEF TypeOK
<1>3. open /\ sink' = FALSE /\ UNCHANGED <<options, tree, doubt, promised>>
  BY DEF Close
<1>4. last' \in [call : Calls, ok : BOOLEAN]
  <2>1. PICK ok \in BOOLEAN : Returns("close", ok)
    BY DEF Close
  <2>. QED  BY <2>1 DEF Returns, Calls
<1>5. Closed => /\ data' \in [content : {"absent", "short", "full"}, open : BOOLEAN]
                /\ open' = FALSE
  BY <1>2 DEF Closed
<1>6. CASE /\ Closed
           /\ disk' = Written(wal, Len(wal.buffer), FALSE)
           /\ wal' = [ShutDown(wal) EXCEPT !.buffer = <<>>]
           /\ UNCHANGED faults
  <2>1. disk' \in DiskType /\ (disk.bytes => disk'.bytes)
    BY <1>1, <1>2, <1>6, Typed, WrittenType
  <2>2. <<>> \in Seq(Record) /\ Len(<<>>) = 0
    OBVIOUS
  <2>3. ShutDown(wal) \in WalType
    BY <1>1, <1>2, OpenedLogSound
  <2>4. wal' \in WalType /\ wal'.buffer = <<>>
    BY <1>6, <2>2, <2>3, WalExcept
  <2>5. Len(wal'.buffer) <= BufferRecords
    BY <2>2, <2>4
  <2>. QED  BY <1>1, <1>3, <1>4, <1>5, <1>6, <2>1, <2>4, <2>5, Typed, QuietStep
<1>7. CASE Flush(wal, FALSE) /\ UNCHANGED <<open, data>>
  <2>1. wal'.bad
    BY <1>2, <1>7 DEF Flush, WalType
  <2>2. /\ wal' \in WalType /\ Len(wal'.buffer) <= BufferRecords
        /\ disk' \in DiskType /\ faults' \in 0 .. MaxFaults
        /\ disk.bytes => disk'.bytes
    BY <1>1, <1>7, Typed, FlushSound
  <2>3. open' \in BOOLEAN
    BY <1>1, <1>7 DEF TypeOK
  <2>. QED  BY <1>2, <1>3, <1>4, <1>7, <2>1, <2>2, <2>3, QuietStep
<1>8. CASE Closed /\ UNCHANGED <<wal, disk, faults>>
  BY <1>1, <1>3, <1>4, <1>5, <1>8, Typed, QuietStep
<1>. QED  BY <1>6, <1>7, <1>8 DEF Close

\* An open() that fails preserves the invariant.
LEMMA OpenFailsIInv ==
    ASSUME NEW create \in BOOLEAN
    PROVE  IInv /\ (\/ OpenRefused(create) \/ OpenHeaderFails(create)
                    \/ OpenLogFails(create) \/ OpenRecoveryFails(create)) => IInv'
<1>. SUFFICES ASSUME IInv,
                     \/ OpenRefused(create) \/ OpenHeaderFails(create)
                     \/ OpenLogFails(create) \/ OpenRecoveryFails(create)
              PROVE  IInv'
  OBVIOUS
<1>1. TypeOK
  BY DEF IInv
<1>2. wal \in WalType /\ wal.buffer \in Seq(Record)
  BY <1>1, Typed, WalFields
<1>3. ~ open /\ UNCHANGED <<options, open, sink, disk, doubt, promised>>
      /\ tree' \in {tree, NoTree}
  BY DEF OpenRefused, OpenHeaderFails, OpenLogFails, OpenRecoveryFails
<1>4. last' \in [call : Calls, ok : BOOLEAN]
  <2>1. Returns("open", FALSE)
    BY DEF OpenRefused, OpenHeaderFails, OpenLogFails, OpenRecoveryFails
  <2>. QED  BY <2>1 DEF Returns, Calls
<1>5. data' \in [content : {"absent", "short", "full"}, open : BOOLEAN]
  <2>1. data \in [content : {"absent", "short", "full"}, open : BOOLEAN]
    BY <1>1 DEF TypeOK
  <2>2. DataFile(FALSE) \in [content : {"absent", "short", "full"}, open : BOOLEAN]
    BY DEF DataFile
  <2>3. CASE OpenHeaderFails(create)
    <3>1. data' = [content |-> IF data.content = "full" THEN "full" ELSE "short",
                   open |-> TRUE]
      BY <2>3 DEF OpenHeaderFails
    <3>. QED  BY <3>1
  <2>4. CASE OpenRefused(create)
    BY <2>1, <2>4 DEF OpenRefused
  <2>5. CASE OpenLogFails(create) \/ OpenRecoveryFails(create)
    BY <2>2, <2>5 DEF OpenLogFails, OpenRecoveryFails
  <2>. QED  BY <2>3, <2>4, <2>5
<1>6. faults' \in 0 .. MaxFaults
  <2>1. faults' = faults \/ Fault
    BY DEF OpenRefused, OpenHeaderFails, OpenLogFails, OpenRecoveryFails
  <2>. QED  BY <1>1, <2>1, Typed DEF Fault
<1>7. wal' \in WalType /\ wal'.buffer = wal.buffer
  <2>1. CASE wal' = wal
    BY <1>2, <2>1
  <2>2. CASE wal' = [wal EXCEPT !.fileOpen = TRUE, !.bad = TRUE]
    BY <1>2, <2>2 DEF WalType
  <2>3. CASE OpenRecoveryFails(create)
    <3>1. PICK short \in BOOLEAN :
             wal' = ShutDown(AfterScan(Initialized(create, short), short))
      BY <2>3 DEF OpenRecoveryFails
    <3>2. /\ AfterScan(Initialized(create, short), short) \in WalType
          /\ AfterScan(Initialized(create, short), short).buffer = wal.buffer
      BY <1>1, OpenedLogSound, AfterScanSound
    <3>. QED  BY <1>1, <3>1, <3>2, OpenedLogSound
  <2>. QED  BY <2>1, <2>2, <2>3 DEF OpenRefused, OpenHeaderFails, OpenLogFails
<1>. QED  BY <1>1, <1>3, <1>4, <1>5, <1>6, <1>7, Typed, QuietStep

\* An open() that succeeds preserves the invariant: if it recovered, the log was
\* empty, so that nothing had been promised.
LEMMA OpenSucceedsIInv ==
    ASSUME NEW create \in BOOLEAN
    PROVE  IInv /\ OpenSucceeds(create) => IInv'
<1>. SUFFICES ASSUME IInv, OpenSucceeds(create) PROVE IInv'
  OBVIOUS
<1>1. TypeOK
  BY DEF IInv
<1>2. /\ open' = TRUE /\ sink' = options.enableWal
      /\ UNCHANGED <<options, faults, promised>> /\ doubt' = {}
      /\ data' = DataFile(TRUE)
      /\ disk' = [disk EXCEPT !.stored = tree'.keys]
      /\ tree' \in {tree, NoTree}
  BY DEF OpenSucceeds
<1>3. wal' \in WalType /\ wal'.buffer = wal.buffer
  <2>1. CASE options.enableWal
    <3>1. PICK short \in BOOLEAN : wal' = Initialized(create, short)
      BY <2>1 DEF OpenSucceeds
    <3>. QED  BY <1>1, <3>1, OpenedLogSound
  <2>2. CASE ~ options.enableWal
    BY <1>1, <2>2, Typed DEF OpenSucceeds
  <2>. QED  BY <2>1, <2>2
<1>4. tree' \in [keys : SUBSET Keys, root : BOOLEAN]
  <2>1. /\ tree \in [keys : SUBSET Keys, root : BOOLEAN]
        /\ NoTree \in [keys : SUBSET Keys, root : BOOLEAN]
    BY <1>1 DEF TypeOK, NoTree
  <2>. QED  BY <1>2, <2>1
<1>5. disk' \in DiskType /\ disk'.bytes = disk.bytes
  BY <1>1, <1>2, <1>4, Typed DEF DiskType
<1>6. data' \in [content : {"absent", "short", "full"}, open : BOOLEAN]
  BY <1>2 DEF DataFile
<1>7. last' \in [call : Calls, ok : BOOLEAN]
  BY DEF OpenSucceeds, Returns, Calls
<1>8. TypeOK'
  <2>1. Len(wal'.buffer) <= BufferRecords /\ sink' \in BOOLEAN
    BY <1>1, <1>2, <1>3, Typed
  <2>. QED  BY <1>1, <1>2, <1>3, <1>4, <1>5, <1>6, <1>7, <2>1
            DEF TypeOK, WalType, DiskType
<1>9. UnloggedMeansFailed'
  BY <1>2 DEF UnloggedMeansFailed
<1>10. PromisesLeaveBytes'
  BY <1>2, <1>5 DEF IInv, PromisesLeaveBytes
<1>11. PromisesKept'
  <2>1. options.enableWal /\ options.recoverOnOpen => ~ disk.bytes
    BY DEF OpenSucceeds, Recovers
  <2>. QED  BY <1>2, <2>1 DEF IInv, PromisesLeaveBytes, PromisesKept
<1>. QED  BY <1>8, <1>9, <1>10, <1>11 DEF IInv

\* A process that ends, between two calls or in a flush, leaves the promises and
\* the bytes, and no database open.
LEMMA CrashIInv ==
    IInv /\ (Crash \/ \E k \in Keys : CrashInFlush(k)) => IInv'
<1>1. ASSUME IInv, NEW d \in DiskType, disk.bytes => d.bytes, Exit(d),
             faults' \in 0 .. MaxFaults, promised' \subseteq promised
      PROVE  IInv'
  <2>1. wal' \in WalType /\ Len(wal'.buffer) <= BufferRecords
    <3>1. <<>> \in Seq(Record) /\ Len(<<>>) = 0
      OBVIOUS
    <3>. QED  BY <1>1, <3>1 DEF Exit, NewWal, WalType
  <2>2. disk' \in DiskType /\ disk'.bytes = d.bytes
    BY <1>1 DEF Exit, DiskType
  <2>3. /\ tree' \in [keys : SUBSET Keys, root : BOOLEAN]
        /\ last' \in [call : Calls, ok : BOOLEAN]
    BY <1>1 DEF Exit, NoTree, Calls
  <2>4. data' \in [content : {"absent", "short", "full"}, open : BOOLEAN]
    <3>1. data \in [content : {"absent", "short", "full"}, open : BOOLEAN]
      BY <1>1 DEF IInv, TypeOK
    <3>2. data' = [data EXCEPT !.open = FALSE]
      BY <1>1 DEF Exit
    <3>. QED  BY <3>1, <3>2
  <2>5. /\ options' \in Options /\ open' = FALSE /\ sink' = FALSE /\ doubt' = {}
        /\ promised' \in SUBSET Keys
    BY <1>1 DEF Exit, IInv, TypeOK
  <2>6. TypeOK'
    BY <1>1, <2>1, <2>2, <2>3, <2>4, <2>5 DEF TypeOK, WalType, DiskType
  <2>. QED  BY <1>1, <2>2, <2>5, <2>6
            DEF IInv, UnloggedMeansFailed, PromisesLeaveBytes, PromisesKept
<1>2. ASSUME IInv, Crash PROVE IInv'
  BY <1>1, <1>2, Typed DEF Crash, IInv
<1>3. ASSUME IInv, NEW k \in Keys, CrashInFlush(k) PROVE IInv'
  <2>. DEFINE R == IF k \in tree.keys THEN EraseRecords(k) ELSE InsertRecords(k)
              w == Appended(R)
  <2>1. TypeOK
    BY <1>3 DEF IInv
  <2>2. R \in Seq(Record)
    BY RecordsSound
  <2>. HIDE DEF R
  <2>3. w \in WalType
    BY <2>1, <2>2, Typed, AppendedSound
  <2>4. PICK n \in 0 .. Len(w.buffer) : Exit(Written(w, n, TRUE))
    BY <1>3 DEF CrashInFlush, R
  <2>. HIDE DEF w
  <2>5. n \in Nat
    BY <2>3, <2>4, WalFields
  <2>6. /\ Written(w, n, TRUE) \in DiskType
        /\ disk.bytes => Written(w, n, TRUE).bytes
    BY <2>1, <2>3, <2>5, Typed, WrittenType
  <2>7. faults' \in 0 .. MaxFaults /\ promised' \subseteq promised
    BY <1>3, <2>1, Typed DEF CrashInFlush, Fault
  <2>. QED  BY <1>1, <1>3, <2>4, <2>6, <2>7
<1>. QED  BY <1>2, <1>3

\* Every step preserves the invariant.
LEMMA NextIInv == IInv /\ [Next]_vars => IInv'
<1>. SUFFICES ASSUME IInv, [Next]_vars PROVE IInv'
  OBVIOUS
<1>1. CASE UNCHANGED vars
  BY <1>1 DEF vars, IInv, TypeOK, UnloggedMeansFailed, PromisesLeaveBytes, PromisesKept,
              Contains
<1>2. CASE Next
  BY <1>2, OpenFailsIInv, OpenSucceedsIInv, InsertIInv, EraseIInv, CheckpointIInv,
     ValidateIInv, CloseIInv, CrashIInv DEF Next
<1>. QED  BY <1>1, <1>2

\* In every reachable state of the database the inductive invariant holds.
THEOREM Invariance == Spec => []IInv
BY InitIInv, NextIInv, PTL DEF Spec

\* Every variable keeps its type and the log's buffer its capacity, whatever
\* mix of calls, faults and crashes.
THEOREM TypeCorrect == Spec => []TypeOK
<1>1. IInv => TypeOK
  BY DEF IInv
<1>. QED  BY <1>1, Invariance, PTL

\* A database that stayed open when close() failed has a failed log, so that
\* none of its later changes is acknowledged.
THEOREM NothingUnlogged == Spec => []UnloggedMeansFailed
<1>1. IInv => UnloggedMeansFailed
  BY DEF IInv
<1>. QED  BY <1>1, Invariance, PTL

\* An open and recovered database serves every key that was promised, by this
\* process or by one that crashed before it: Database::open() refuses a log that
\* it cannot replay, for any number of keys, records, faults and crashes.
THEOREM PromisesAreKept == Spec => []PromisesKept
<1>1. IInv => PromisesKept
  BY DEF IInv
<1>. QED  BY <1>1, Invariance, PTL

-----------------------------------------------------------------------------
(***************************************************************************)
(* Acknowledged changes are in the log file.                               *)
(***************************************************************************)
\* The records are about keys in doubt, or about none.
AboutDoubt(records) ==
    \A i \in 1 .. Len(records) : \A k \in Keys \ doubt : records[i].key # {k}

\* The log buffer holds records only while a database with a log is open, and
\* those are about keys in doubt.
LoggedInv ==
    /\ sink => options.enableWal
    /\ ~ (open /\ options.enableWal) => wal.buffer = <<>>
    /\ AboutDoubt(wal.buffer)
    /\ AcknowledgedIsLogged

\* None of the records is about k.
NoneAbout(records, k) == \A i \in 1 .. Len(records) : records[i].key # {k}

\* Records about other keys leave a key as it was.
LEMMA ReplayedOther ==
    ASSUME NEW s, NEW records \in Seq(Record), NEW k \in Keys, NoneAbout(records, k)
    PROVE  k \in Replayed(s, records) <=> k \in s
<1>1. DOMAIN records = 1 .. Len(records)
  OBVIOUS
<1>. QED  BY <1>1 DEF Replayed, NoneAbout

\* If no record of a sequence is about k, none of its first n is.
LEMMA NoneAboutFront ==
    ASSUME NEW b \in Seq(Record), NEW n \in 0 .. Len(b), NEW k, NoneAbout(b, k)
    PROVE  SubSeq(b, 1, n) \in Seq(Record) /\ NoneAbout(SubSeq(b, 1, n), k)
<1>. DEFINE s == SubSeq(b, 1, n)
<1>1. s \in Seq(Record) /\ Len(s) = n /\ \A i \in 1 .. n : s[i] = b[i]
  OBVIOUS
<1>. HIDE DEF s
<1>2. ASSUME NEW i \in 1 .. Len(s) PROVE s[i].key # {k}
  <2>1. i \in 1 .. Len(b) /\ s[i] = b[i]
    BY <1>1
  <2>. QED  BY <2>1 DEF NoneAbout
<1>3. NoneAbout(s, k)
  BY <1>2 DEF NoneAbout
<1>. QED  BY <1>1, <1>3 DEF s

\* The i-th record is the last one about k.
LastAbout(records, i, k) ==
    /\ i \in 1 .. Len(records)
    /\ records[i].key = {k}
    /\ \A j \in i + 1 .. Len(records) : records[j].key # {k}

\* The last record about a key decides.
LEMMA ReplayedLast ==
    ASSUME NEW s, NEW records \in Seq(Record), NEW k \in Keys, NEW i,
           LastAbout(records, i, k)
    PROVE  k \in Replayed(s, records) <=> records[i].type = "PageUpdate"
<1>1. DOMAIN records = 1 .. Len(records) /\ Len(records) \in Nat
  OBVIOUS
<1>. DEFINE decides(n) == /\ records[n].key = {k}
                          /\ \A j \in n + 1 .. Len(records) : records[j].key # {k}
<1>2. i \in 1 .. Len(records) /\ decides(i)
  BY DEF LastAbout
<1>3. ASSUME NEW n \in 1 .. Len(records), decides(n) PROVE n = i
  <2>1. CASE n < i
    BY <1>1, <1>2, <1>3, <2>1
  <2>2. CASE i < n
    BY <1>1, <1>2, <1>3, <2>2
  <2>. QED  BY <1>1, <1>2, <2>1, <2>2
<1>4. k \in Replayed(s, records) <=>
         IF \E n \in 1 .. Len(records) : decides(n)
         THEN \E n \in 1 .. Len(records) : decides(n) /\ records[n].type = "PageUpdate"
         ELSE k \in s
  BY <1>1 DEF Replayed
<1>. HIDE DEF decides
<1>. QED  BY <1>2, <1>3, <1>4

\* A sequence is all of itself.
LEMMA WholeSubSeq ==
    ASSUME NEW records \in Seq(Record)
    PROVE  SubSeq(records, 1, Len(records)) = records
OBVIOUS

\* A record and one behind it.
LEMMA TwoRecords ==
    ASSUME NEW a \in Record, NEW b \in Record
    PROVE  /\ <<a>> \o <<b>> \in Seq(Record) /\ Len(<<a>> \o <<b>>) = 2
           /\ (<<a>> \o <<b>>)[1] = a /\ (<<a>> \o <<b>>)[2] = b
           /\ <<a>> \o <<>> = <<a>> /\ <<>> \o <<a>> = <<a>>
<1>1. <<a>> \in Seq(Record) /\ <<b>> \in Seq(Record) /\ Len(<<a>>) = 1 /\ Len(<<b>>) = 1
  OBVIOUS
<1>2. /\ <<a>> \o <<b>> \in Seq(Record) /\ Len(<<a>> \o <<b>>) = 2
      /\ (<<a>> \o <<b>>)[1] = a /\ (<<a>> \o <<b>>)[2] = b
  BY <1>1
<1>3. <<a>> \o <<>> = <<a>> /\ <<>> \o <<a>> = <<a>>
  BY <1>1
<1>. QED  BY <1>2, <1>3

\* What a flush of the writer w does to the buffer, the handle and the file.
LEMMA FlushEffect ==
    ASSUME TypeOK, NEW w \in WalType, NEW ok \in BOOLEAN, Flush(w, ok)
    PROVE  /\ wal'.buffer \in {w.buffer, <<>>}
           /\ ok => disk'.stored = Replayed(disk.stored, SubSeq(w.buffer, 1, Len(w.buffer)))
           /\ \/ disk'.stored = disk.stored
              \/ \E n \in 0 .. Len(w.buffer) :
                    disk'.stored = Replayed(disk.stored, SubSeq(w.buffer, 1, n))
           /\ disk.irregular => disk'.irregular
           /\ wal'.fileOpen = w.fileOpen
           /\ faults' = 0 => faults = 0 /\ wal'.bad = w.bad
<1>. w.buffer \in Seq(Record) /\ Len(w.buffer) \in Nat
  BY WalFields
<1>. faults \in Nat
  BY DEF TypeOK
<1>1. CASE ok /\ ~ w.bad /\ wal' = [w EXCEPT !.buffer = <<>>]
           /\ disk' = Written(w, Len(w.buffer), FALSE) /\ UNCHANGED faults
  <2>1. wal'.buffer = <<>> /\ wal'.fileOpen = w.fileOpen /\ wal'.bad = w.bad
    BY <1>1 DEF WalType
  <2>2. /\ disk'.stored = Replayed(disk.stored, SubSeq(w.buffer, 1, Len(w.buffer)))
        /\ disk.irregular => disk'.irregular
    BY <1>1 DEF Written
  <2>3. \E n \in 0 .. Len(w.buffer) :
           disk'.stored = Replayed(disk.stored, SubSeq(w.buffer, 1, n))
    BY <2>2
  <2>4. faults' = faults
    BY <1>1
  <2>. QED  BY <2>1, <2>2, <2>3, <2>4
<1>2. CASE ~ ok /\ w.bad /\ wal' = w /\ UNCHANGED <<disk, faults>>
  <2>1. wal' = w /\ disk' = disk /\ faults' = faults /\ ~ ok
    BY <1>2
  <2>. QED  BY <2>1
<1>3. CASE ~ ok /\ ~ w.bad /\ Fault
           /\ \E n \in 0 .. Len(w.buffer), torn, cleared \in BOOLEAN :
                 /\ wal' = [w EXCEPT !.bad = TRUE,
                                     !.buffer = IF cleared THEN <<>> ELSE @]
                 /\ disk' = Written(w, n, torn)
  <2>1. PICK n \in 0 .. Len(w.buffer), torn \in BOOLEAN, cleared \in BOOLEAN :
               /\ wal' = [w EXCEPT !.bad = TRUE, !.buffer = IF cleared THEN <<>> ELSE @]
               /\ disk' = Written(w, n, torn)
    BY <1>3
  <2>2. wal'.buffer \in {w.buffer, <<>>} /\ wal'.fileOpen = w.fileOpen
    BY <2>1 DEF WalType
  <2>3. /\ disk'.stored = Replayed(disk.stored, SubSeq(w.buffer, 1, n))
        /\ disk.irregular => disk'.irregular
    BY <2>1 DEF Written
  <2>4. faults' # 0
    BY <1>3 DEF Fault
  <2>. QED  BY <1>3, <2>2, <2>3, <2>4
<1>. QED  BY <1>1, <1>2, <1>3 DEF Flush

\* What the buffer holds after records were handed to the writer.
LEMMA AppendedBuffer ==
    ASSUME TypeOK, NEW records \in Seq(Record)
    PROVE  LET b == Appended(records).buffer
               m == Len(wal.buffer)
           IN  /\ b \in Seq(Record)
               /\ ~ sink => b = wal.buffer
               /\ sink /\ m + Len(records) <= BufferRecords => Len(b) = m + Len(records)
               /\ sink /\ m + Len(records) > BufferRecords => Len(b) = BufferRecords
               /\ \A i \in 1 .. Len(b) :
                     b[i] = IF i <= m THEN wal.buffer[i] ELSE records[i - m]
               /\ Appended(records).fileOpen = wal.fileOpen
               /\ Appended(records).bad = wal.bad
<1>. DEFINE all == wal.buffer \o records
            n == IF Len(all) > BufferRecords THEN BufferRecords ELSE Len(all)
            m == Len(wal.buffer)
<1>1. wal \in WalType /\ wal.buffer \in Seq(Record) /\ m \in Nat /\ Len(records) \in Nat
  BY Typed, WalFields
<1>2. all \in Seq(Record) /\ Len(all) = m + Len(records) /\ Len(all) \in Nat
  BY <1>1
<1>6. \A i \in 1 .. Len(all) :
            all[i] = IF i <= m THEN wal.buffer[i] ELSE records[i - m]
  BY <1>1
<1>. HIDE DEF all
<1>3. n \in 0 .. Len(all)
  BY <1>1, <1>2
<1>4. CASE ~ sink
  <2>1. Appended(records) = wal
    BY <1>4 DEF Appended
  <2>. QED  BY <1>1, <1>4, <2>1
<1>5. CASE sink
  <2>1. Appended(records) = [wal EXCEPT !.buffer = SubSeq(all, 1, n)]
    BY <1>5 DEF Appended, all
  <2>2. /\ Appended(records).buffer = SubSeq(all, 1, n)
        /\ Appended(records).fileOpen = wal.fileOpen
        /\ Appended(records).bad = wal.bad
    BY <1>1, <2>1 DEF WalType
  <2>3. (m + Len(records) <= BufferRecords => n = m + Len(records))
        /\ (m + Len(records) > BufferRecords => n = BufferRecords)
    BY <1>1, <1>2
  <2>. HIDE DEF n
  <2>4. /\ SubSeq(all, 1, n) \in Seq(Record) /\ Len(SubSeq(all, 1, n)) = n
        /\ \A i \in 1 .. n : SubSeq(all, 1, n)[i] = all[i]
    BY <1>2, <1>3
  <2>. QED  BY <1>1, <1>2, <1>3, <1>5, <1>6, <2>2, <2>3, <2>4
<1>. QED  BY <1>4, <1>5

\* The file changes only for keys that the records are about.
StoresOnly(records) ==
    \A k \in Keys : (\A i \in 1 .. Len(records) : records[i].key # {k})
                    => (k \in disk'.stored <=> k \in disk.stored)

\* Records that say nothing of a key leave what is stored of it, however many
\* of them reach the file.
LEMMA FlushOther ==
    ASSUME TypeOK, NEW w \in WalType, NEW ok \in BOOLEAN, Flush(w, ok),
           NEW k \in Keys, \A i \in 1 .. Len(w.buffer) : w.buffer[i].key # {k}
    PROVE  k \in disk'.stored <=> k \in disk.stored
<1>1. w.buffer \in Seq(Record) /\ Len(w.buffer) \in Nat
  BY WalFields
<1>2. CASE disk'.stored = disk.stored
  BY <1>2
<1>3. ASSUME NEW n \in 0 .. Len(w.buffer),
             disk'.stored = Replayed(disk.stored, SubSeq(w.buffer, 1, n))
      PROVE  k \in disk'.stored <=> k \in disk.stored
  <2>. DEFINE s == SubSeq(w.buffer, 1, n)
  <2>1. NoneAbout(w.buffer, k)
    BY DEF NoneAbout
  <2>2. s \in Seq(Record) /\ NoneAbout(s, k)
    BY <1>1, <2>1, NoneAboutFront
  <2>3. disk'.stored = Replayed(disk.stored, s)
    BY <1>3
  <2>. HIDE DEF s
  <2>4. k \in Replayed(disk.stored, s) <=> k \in disk.stored
    BY <2>2, ReplayedOther
  <2>. QED  BY <2>3, <2>4
<1>. QED  BY <1>2, <1>3, FlushEffect

\* What the flush at the end of a call on the tree does.
LEMMA FlushAfterStores ==
    ASSUME TypeOK, NEW w \in WalType, NEW ok \in BOOLEAN, FlushAfter(w, ok)
    PROVE  wal'.buffer \in {w.buffer, <<>>} /\ StoresOnly(w.buffer)
<1>1. options.enableWal \in BOOLEAN
  BY Typed
<1>2. CASE options.enableWal
  <2>1. Flush(w, ok)
    BY <1>2 DEF FlushAfter
  <2>2. wal'.buffer \in {w.buffer, <<>>}
    BY <2>1, FlushEffect
  <2>3. StoresOnly(w.buffer)
    BY <2>1, FlushOther DEF StoresOnly
  <2>. QED  BY <2>2, <2>3
<1>3. CASE ~ options.enableWal
  BY <1>3 DEF FlushAfter, StoresOnly
<1>. QED  BY <1>1, <1>2, <1>3

\* A call on key k keeps LoggedInv if its records are about no other key, it
\* changes the tree at k only, and, when it is acknowledged, the file says of k
\* what the tree does.
LEMMA CallLogged ==
    ASSUME TypeOK, LoggedInv, open, UNCHANGED <<options, open, sink>>,
           NEW k \in Keys, NEW R \in Seq(Record), NEW ok \in BOOLEAN,
           \A i \in 1 .. Len(R) : \A j \in Keys \ {k} : R[i].key # {j},
           \A j \in Keys \ {k} : j \in tree'.keys <=> j \in tree.keys,
           doubt' = IF ok THEN doubt ELSE doubt \cup {k},
           wal'.buffer \in {wal.buffer, Appended(R).buffer, <<>>},
           StoresOnly(Appended(R).buffer),
           ok /\ options.enableWal => wal'.buffer = <<>>,
           ok /\ options.enableWal => (k \in disk'.stored <=> k \in tree'.keys)
    PROVE  LoggedInv'
<1>. DEFINE w == Appended(R)
<1>1. /\ wal \in WalType /\ wal.buffer \in Seq(Record) /\ Len(wal.buffer) \in Nat
      /\ options.enableWal \in BOOLEAN
  BY Typed, WalFields
<1>2. w \in WalType /\ w.buffer \in Seq(Record) /\ Len(w.buffer) \in Nat
  BY Typed, WalFields, AppendedSound
<1>3. \A i \in 1 .. Len(w.buffer) : \A j \in Keys \ (doubt \cup {k}) : w.buffer[i].key # {j}
  <2>. SUFFICES ASSUME NEW i \in 1 .. Len(w.buffer), NEW j \in Keys \ (doubt \cup {k})
                PROVE  w.buffer[i].key # {j}
    OBVIOUS
  <2>1. w.buffer[i] = IF i <= Len(wal.buffer) THEN wal.buffer[i] ELSE R[i - Len(wal.buffer)]
    BY AppendedBuffer
  <2>2. CASE i <= Len(wal.buffer)
    BY <1>1, <1>2, <2>1, <2>2 DEF LoggedInv, AboutDoubt
  <2>3. CASE i > Len(wal.buffer)
    <3>1. i - Len(wal.buffer) \in 1 .. Len(R)
      <4>1. sink => Len(w.buffer) <= Len(wal.buffer) + Len(R)
        BY <1>1, <1>2, AppendedBuffer
      <4>2. ~ sink => w.buffer = wal.buffer
        BY AppendedBuffer
      <4>3. sink
        BY <1>1, <1>2, <2>3, <4>2
      <4>. HIDE DEF w
      <4>4. Len(R) \in Nat /\ Len(w.buffer) <= Len(wal.buffer) + Len(R)
        BY <4>1, <4>3
      <4>. QED  BY <1>1, <1>2, <2>3, <4>4
    <3>2. R[i - Len(wal.buffer)].key # {j}
      BY <3>1
    <3>. QED  BY <1>1, <1>2, <2>1, <2>3, <3>2
  <2>. QED  BY <1>1, <1>2, <2>2, <2>3
<1>4. ~ options.enableWal => w.buffer = <<>> /\ wal.buffer = <<>>
  BY AppendedBuffer DEF LoggedInv, AboutDoubt
<1>. HIDE DEF w
<1>5. wal'.buffer \in {wal.buffer, w.buffer, <<>>}
  BY DEF w
<1>6. \A i \in 1 .. Len(wal'.buffer) : \A j \in Keys \ doubt' : wal'.buffer[i].key # {j}
  <2>1. CASE wal'.buffer = <<>>
    BY <2>1
  <2>2. CASE wal'.buffer = wal.buffer
    BY <2>2 DEF LoggedInv, AboutDoubt
  <2>3. CASE wal'.buffer = w.buffer /\ ~ ok
    BY <1>3, <2>3
  <2>4. CASE wal'.buffer = w.buffer /\ ok
    <3>1. CASE options.enableWal
      BY <2>1, <2>4, <3>1
    <3>2. CASE ~ options.enableWal
      BY <1>4, <2>1, <2>4, <3>2
    <3>. QED  BY <1>1, <3>1, <3>2
  <2>. QED  BY <1>5, <2>1, <2>2, <2>3, <2>4
<1>7. ~ (open' /\ options'.enableWal) => wal'.buffer = <<>>
  BY <1>4, <1>5
<1>8. AcknowledgedIsLogged'
  <2>. SUFFICES ASSUME options.enableWal, NEW j \in Keys \ doubt'
                PROVE  j \in disk'.stored <=> j \in tree'.keys
    BY DEF AcknowledgedIsLogged
  <2>1. j \notin doubt /\ (j = k => ok)
    OBVIOUS
  <2>2. j \in disk.stored <=> j \in tree.keys
    BY <2>1 DEF LoggedInv, AboutDoubt, AcknowledgedIsLogged
  <2>3. CASE j = k
    BY <2>1, <2>3
  <2>4. CASE j # k
    <3>1. \A i \in 1 .. Len(w.buffer) : w.buffer[i].key # {j}
      BY <1>3, <2>1, <2>4
    <3>2. j \in disk'.stored <=> j \in disk.stored
      BY <3>1 DEF StoresOnly, w
    <3>. QED  BY <2>2, <2>4, <3>2
  <2>. QED  BY <2>3, <2>4
<1>9. sink' => options'.enableWal
  BY DEF LoggedInv, AboutDoubt
<1>. QED  BY <1>6, <1>7, <1>8, <1>9 DEF LoggedInv, AboutDoubt

\* insert() preserves LoggedInv: the record that says the key is there is the
\* last of the buffer when the flush succeeds.
LEMMA InsertLogged ==
    ASSUME NEW k \in Keys PROVE IInv /\ LoggedInv /\ Insert(k) => LoggedInv'
<1>. SUFFICES ASSUME IInv, LoggedInv, Insert(k) PROVE LoggedInv'
  OBVIOUS
<1>. DEFINE R == InsertRecords(k)
            w == Appended(R)
            m == Len(wal.buffer)
<1>1. TypeOK
  BY DEF IInv
<1>2. /\ R \in Seq(Record) /\ Len(R) \in Nat /\ m \in Nat
      /\ wal.bad \in BOOLEAN /\ sink \in BOOLEAN /\ options.enableWal \in BOOLEAN
  BY <1>1, RecordsSound, Typed, WalFields
<1>3. /\ Len(R) >= 1 /\ R[Len(R)] = Logged("PageUpdate", k)
      /\ \A i \in 1 .. Len(R) : \A j \in Keys \ {k} : R[i].key # {j}
  <2>1. CASE tree.root
    <3>1. R = <<Logged("PageUpdate", k)>>
      BY <2>1 DEF InsertRecords
    <3>. QED  BY <3>1 DEF Logged
  <2>2. CASE ~ tree.root
    <3>1. R = <<Structural>> \o <<Logged("PageUpdate", k)>>
      BY <2>2 DEF InsertRecords
    <3>2. Len(R) = 2 /\ R[1] = Structural /\ R[2] = Logged("PageUpdate", k)
      BY <3>1, TwoRecords, RecordTypes
    <3>. HIDE DEF R
    <3>3. \A i \in 1 .. Len(R) : i = 1 \/ i = 2
      BY <3>2
    <3>. QED  BY <3>2, <3>3 DEF Logged, Structural
  <2>. QED  BY <2>1, <2>2
<1>. HIDE DEF R
<1>4. open /\ UNCHANGED <<options, open, sink, data>>
  BY DEF Insert
<1>5. CASE /\ Room(Len(R))
           /\ tree' = [keys |-> tree.keys \cup {k}, root |-> TRUE]
           /\ \E ok \in BOOLEAN : FlushAfter(w, ok) /\ Acknowledge("insert", k, ok)
  <2>1. PICK ok \in BOOLEAN : FlushAfter(w, ok) /\ Acknowledge("insert", k, ok)
    BY <1>5
  <2>2. doubt' = IF ok THEN doubt ELSE doubt \cup {k}
    BY <2>1 DEF Acknowledge
  <2>3. k \in tree'.keys /\ \A j \in Keys \ {k} : j \in tree'.keys <=> j \in tree.keys
    BY <1>5
  <2>4. ASSUME ok, options.enableWal
        PROVE  (k \in disk'.stored <=> k \in tree'.keys) /\ wal'.buffer = <<>>
    <3>1. Flush(w, ok)
      BY <2>1, <2>4 DEF FlushAfter
    <3>2. w \in WalType /\ w.bad = wal.bad
      BY <1>1, <1>2, Typed, AppendedSound
    <3>3. ~ w.bad /\ wal' = [w EXCEPT !.buffer = <<>>]
      BY <2>4, <3>1 DEF Flush
    <3>4. wal'.buffer = <<>>
      BY <3>2, <3>3 DEF WalType
    <3>5. sink
      BY <1>2, <1>4, <2>4, <3>2, <3>3 DEF IInv, UnloggedMeansFailed
    <3>6. m + Len(R) <= BufferRecords
      BY <1>5, <3>5 DEF Room
    <3>7. /\ w.buffer \in Seq(Record) /\ Len(w.buffer) = m + Len(R)
          /\ \A i \in 1 .. Len(w.buffer) :
                w.buffer[i] = IF i <= m THEN wal.buffer[i] ELSE R[i - m]
      BY <1>1, <1>2, <3>5, <3>6, AppendedBuffer
    <3>. HIDE DEF w, m
    <3>8. m + Len(R) \in 1 .. Len(w.buffer) /\ ~ (m + Len(R) <= m) /\ m + Len(R) - m = Len(R)
      BY <1>2, <1>3, <3>7
    <3>9. w.buffer[m + Len(R)] = Logged("PageUpdate", k)
      <4>. SUFFICES ASSUME NEW i, i = m + Len(R)
                    PROVE  w.buffer[i] = Logged("PageUpdate", k)
        OBVIOUS
      <4>1. i \in 1 .. Len(w.buffer) /\ ~ (i <= m) /\ i - m = Len(R)
        BY <1>2, <1>3, <3>7
      <4>2. w.buffer[i] = R[i - m]
        BY <3>7, <4>1
      <4>3. w.buffer[i] = R[Len(R)]
        BY <4>1, <4>2
      <4>. QED  BY <1>3, <4>3
    <3>10. disk'.stored = Replayed(disk.stored, w.buffer)
      <4>1. disk'.stored = Replayed(disk.stored, SubSeq(w.buffer, 1, Len(w.buffer)))
        BY <1>1, <2>4, <3>1, <3>2, FlushEffect
      <4>. QED  BY <3>7, <4>1, WholeSubSeq
    <3>11. k \in Replayed(disk.stored, w.buffer) <=>
              w.buffer[m + Len(R)].type = "PageUpdate"
      <4>1. \A j \in m + Len(R) + 1 .. Len(w.buffer) : w.buffer[j].key # {k}
        BY <1>2, <3>7
      <4>2. w.buffer[m + Len(R)].key = {k}
        BY <3>9 DEF Logged
      <4>3. LastAbout(w.buffer, m + Len(R), k)
        BY <3>8, <4>1, <4>2 DEF LastAbout
      <4>. QED  BY <3>7, <4>3, ReplayedLast
    <3>. QED  BY <2>3, <3>4, <3>9, <3>10, <3>11 DEF Logged
  <2>6. w \in WalType
    BY <1>1, <1>2, Typed, AppendedSound
  <2>. HIDE DEF w
  <2>5. wal'.buffer \in {wal.buffer, w.buffer, <<>>} /\ StoresOnly(w.buffer)
    BY <1>1, <2>1, <2>6, FlushAfterStores
  <2>. QED  BY <1>1, <1>2, <1>3, <1>4, <2>2, <2>3, <2>4, <2>5, CallLogged DEF w
<1>6. CASE /\ tree' \in {tree, [keys |-> tree.keys \cup {k}, root |-> TRUE]}
           /\ wal' = w
           /\ Acknowledge("insert", k, FALSE)
           /\ UNCHANGED <<disk, faults>>
  <2>1. doubt' = doubt \cup {k}
    BY <1>6 DEF Acknowledge
  <2>2. \A j \in Keys \ {k} : j \in tree'.keys <=> j \in tree.keys
    <3>1. CASE tree' = tree
      BY <3>1
    <3>2. CASE tree' = [keys |-> tree.keys \cup {k}, root |-> TRUE]
      BY <3>2
    <3>. QED  BY <1>6, <3>1, <3>2
  <2>3. wal'.buffer \in {wal.buffer, w.buffer, <<>>} /\ StoresOnly(w.buffer)
    BY <1>6 DEF StoresOnly
  <2>. HIDE DEF w
  <2>. QED  BY <1>1, <1>2, <1>3, <1>4, <2>1, <2>2, <2>3, CallLogged DEF w
<1>. QED  BY <1>5, <1>6 DEF Insert, R

\* erase() preserves LoggedInv: no record behind the one that says the key is
\* gone is about the key.
LEMMA EraseLogged ==
    ASSUME NEW k \in Keys PROVE IInv /\ LoggedInv /\ Erase(k) => LoggedInv'
<1>. SUFFICES ASSUME IInv, LoggedInv, Erase(k) PROVE LoggedInv'
  OBVIOUS
<1>. DEFINE R == EraseRecords(k)
            w == Appended(R)
            m == Len(wal.buffer)
<1>1. TypeOK
  BY DEF IInv
<1>2. /\ R \in Seq(Record) /\ Len(R) \in Nat /\ m \in Nat
      /\ wal.bad \in BOOLEAN /\ sink \in BOOLEAN /\ options.enableWal \in BOOLEAN
  BY <1>1, RecordsSound, Typed, WalFields
<1>3. /\ Len(R) >= 1 /\ R[1] = Logged("PageDelete", k)
      /\ \A i \in 2 .. Len(R) : R[i].key # {k}
      /\ \A i \in 1 .. Len(R) : \A j \in Keys \ {k} : R[i].key # {j}
  <2>1. CASE tree.keys = {k}
    <3>1. R = <<Logged("PageDelete", k)>> \o <<Structural>>
      BY <2>1 DEF EraseRecords
    <3>2. Len(R) = 2 /\ R[1] = Logged("PageDelete", k) /\ R[2] = Structural
      BY <3>1, TwoRecords, RecordTypes
    <3>. HIDE DEF R
    <3>3. (\A i \in 1 .. Len(R) : i = 1 \/ i = 2) /\ (\A i \in 2 .. Len(R) : i = 2)
      BY <3>2
    <3>. QED  BY <3>2, <3>3 DEF Logged, Structural
  <2>2. CASE tree.keys # {k}
    <3>1. R = <<Logged("PageDelete", k)>>
      BY <2>2 DEF EraseRecords
    <3>. QED  BY <3>1 DEF Logged
  <2>. QED  BY <2>1, <2>2
<1>. HIDE DEF R
<1>4. open /\ UNCHANGED <<options, open, sink, data>>
  BY DEF Erase
<1>5. tree'.keys = tree.keys \ {k}
  <2>1. tree \in [keys : SUBSET Keys, root : BOOLEAN]
    BY <1>1 DEF TypeOK
  <2>2. CASE tree' = [keys |-> tree.keys \ {k}, root |-> tree.keys # {k}]
    BY <2>1, <2>2
  <2>3. CASE tree' = [tree EXCEPT !.keys = @ \ {k}]
    BY <2>1, <2>3
  <2>. QED  BY <2>2, <2>3 DEF Erase
<1>6. k \notin tree'.keys /\ \A j \in Keys \ {k} : j \in tree'.keys <=> j \in tree.keys
  BY <1>5
<1>7. CASE Room(1) /\ \E ok \in BOOLEAN : FlushAfter(w, ok) /\ Acknowledge("erase", k, ok)
  <2>1. PICK ok \in BOOLEAN : FlushAfter(w, ok) /\ Acknowledge("erase", k, ok)
    BY <1>7
  <2>2. doubt' = IF ok THEN doubt ELSE doubt \cup {k}
    BY <2>1 DEF Acknowledge
  <2>4. ASSUME ok, options.enableWal
        PROVE  (k \in disk'.stored <=> k \in tree'.keys) /\ wal'.buffer = <<>>
    <3>1. Flush(w, ok)
      BY <2>1, <2>4 DEF FlushAfter
    <3>2. w \in WalType /\ w.bad = wal.bad
      BY <1>1, <1>2, Typed, AppendedSound
    <3>3. ~ w.bad /\ wal' = [w EXCEPT !.buffer = <<>>]
      BY <2>4, <3>1 DEF Flush
    <3>4. wal'.buffer = <<>>
      BY <3>2, <3>3 DEF WalType
    <3>5. sink
      BY <1>2, <1>4, <2>4, <3>2, <3>3 DEF IInv, UnloggedMeansFailed
    <3>6. m + 1 <= BufferRecords
      BY <1>7, <3>5 DEF Room
    <3>7. /\ w.buffer \in Seq(Record)
          /\ \A i \in 1 .. Len(w.buffer) :
                w.buffer[i] = IF i <= m THEN wal.buffer[i] ELSE R[i - m]
          /\ m + Len(R) <= BufferRecords => Len(w.buffer) = m + Len(R)
          /\ m + Len(R) > BufferRecords => Len(w.buffer) = BufferRecords
      BY <1>1, <1>2, <3>5, AppendedBuffer
    <3>. HIDE DEF w, m
    <3>8. Len(w.buffer) \in m + 1 .. m + Len(R)
      BY <1>2, <1>3, <3>6, <3>7
    <3>9. m + 1 \in 1 .. Len(w.buffer) /\ w.buffer[m + 1] = Logged("PageDelete", k)
      BY <1>2, <1>3, <3>7, <3>8
    <3>10. disk'.stored = Replayed(disk.stored, w.buffer)
      <4>1. disk'.stored = Replayed(disk.stored, SubSeq(w.buffer, 1, Len(w.buffer)))
        BY <1>1, <2>4, <3>1, <3>2, FlushEffect
      <4>. QED  BY <3>7, <4>1, WholeSubSeq
    <3>11. k \in Replayed(disk.stored, w.buffer) <=> w.buffer[m + 1].type = "PageUpdate"
      <4>1. \A j \in m + 1 + 1 .. Len(w.buffer) : w.buffer[j].key # {k}
        <5>. SUFFICES ASSUME NEW j \in m + 1 + 1 .. Len(w.buffer)
                      PROVE  w.buffer[j].key # {k}
          OBVIOUS
        <5>1. j - m \in 2 .. Len(R) /\ j \in 1 .. Len(w.buffer) /\ ~ (j <= m)
          BY <1>2, <3>8
        <5>. QED  BY <1>3, <3>7, <5>1
      <4>2. w.buffer[m + 1].key = {k}
        BY <3>9 DEF Logged
      <4>3. w.buffer \in Seq(Record)
        BY <3>7
      <4>4. LastAbout(w.buffer, m + 1, k)
        BY <3>9, <4>1, <4>2 DEF LastAbout
      <4>. QED  BY <4>3, <4>4, ReplayedLast
    <3>12. w.buffer[m + 1].type = "PageDelete"
      BY <3>9 DEF Logged
    <3>13. k \notin disk'.stored
      BY <3>10, <3>11, <3>12
    <3>. QED  BY <1>6, <3>4, <3>13
  <2>6. w \in WalType
    BY <1>1, <1>2, Typed, AppendedSound
  <2>. HIDE DEF w
  <2>5. wal'.buffer \in {wal.buffer, w.buffer, <<>>} /\ StoresOnly(w.buffer)
    BY <1>1, <2>1, <2>6, FlushAfterStores
  <2>. QED  BY <1>1, <1>2, <1>3, <1>4, <1>6, <2>2, <2>4, <2>5, CallLogged DEF w
<1>8. CASE Acknowledge("erase", k, FALSE) /\ UNCHANGED <<wal, disk, faults>>
  <2>1. doubt' = doubt \cup {k}
    BY <1>8 DEF Acknowledge
  <2>2. wal'.buffer \in {wal.buffer, w.buffer, <<>>} /\ StoresOnly(w.buffer)
    BY <1>8 DEF StoresOnly
  <2>. HIDE DEF w
  <2>. QED  BY <1>1, <1>2, <1>3, <1>4, <1>6, <2>1, <2>2, CallLogged DEF w
<1>. QED  BY <1>7, <1>8 DEF Erase, R

\* Writing the first n records of a buffer changes only the keys they are about.
LEMMA WrittenOther ==
    ASSUME TypeOK, NEW w \in WalType, NEW n \in 0 .. Len(w.buffer), NEW torn \in BOOLEAN,
           disk' = Written(w, n, torn)
    PROVE  StoresOnly(w.buffer)
<1>. SUFFICES ASSUME NEW k \in Keys, \A i \in 1 .. Len(w.buffer) : w.buffer[i].key # {k}
              PROVE  k \in disk'.stored <=> k \in disk.stored
  BY DEF StoresOnly
<1>1. w.buffer \in Seq(Record) /\ Len(w.buffer) \in Nat
  BY WalFields
<1>. DEFINE s == SubSeq(w.buffer, 1, n)
<1>2. disk'.stored = Replayed(disk.stored, s)
  BY DEF Written
<1>3. NoneAbout(w.buffer, k)
  BY DEF NoneAbout
<1>4. s \in Seq(Record) /\ NoneAbout(s, k)
  BY <1>1, <1>3, NoneAboutFront
<1>. HIDE DEF s
<1>5. k \in Replayed(disk.stored, s) <=> k \in disk.stored
  BY <1>4, ReplayedOther
<1>. QED  BY <1>2, <1>5

\* A call on an open database with a log that changes neither the tree nor the
\* keys in doubt, and writes only records about those, keeps LoggedInv.
LEMMA QuietLogged ==
    ASSUME LoggedInv, open, options.enableWal, UNCHANGED <<options, open, tree, doubt>>,
           sink' \in BOOLEAN, NEW b, AboutDoubt(b), StoresOnly(b),
           wal'.buffer \in {wal.buffer, b, <<>>}
    PROVE  LoggedInv'
<1>1. \A i \in 1 .. Len(wal'.buffer) : \A k \in Keys \ doubt' : wal'.buffer[i].key # {k}
  <2>1. CASE wal'.buffer = wal.buffer
    BY <2>1 DEF LoggedInv, AboutDoubt
  <2>2. CASE wal'.buffer = b
    BY <2>2 DEF AboutDoubt
  <2>3. CASE wal'.buffer = <<>>
    BY <2>3
  <2>. QED  BY <2>1, <2>2, <2>3
<1>2. ASSUME NEW k \in Keys \ doubt'
      PROVE  k \in disk'.stored <=> k \in tree'.keys
  <2>1. k \in disk.stored <=> k \in tree.keys
    BY DEF LoggedInv, AboutDoubt, AcknowledgedIsLogged
  <2>2. \A i \in 1 .. Len(b) : b[i].key # {k}
    BY DEF AboutDoubt
  <2>3. k \in disk'.stored <=> k \in disk.stored
    BY <2>2 DEF StoresOnly
  <2>. QED  BY <2>1, <2>3
<1>3. AcknowledgedIsLogged'
  BY <1>2 DEF AcknowledgedIsLogged
<1>. QED  BY <1>1, <1>3 DEF LoggedInv, AboutDoubt

\* checkpoint() preserves LoggedInv: its marker is about no key.
LEMMA CheckpointLogged ==
    ASSUME NEW truncate \in BOOLEAN, NEW fits \in BOOLEAN
    PROVE  IInv /\ LoggedInv /\ Checkpoint(truncate, fits) => LoggedInv'
<1>. SUFFICES ASSUME IInv, LoggedInv, Checkpoint(truncate, fits) PROVE LoggedInv'
  OBVIOUS
<1>. DEFINE w == [wal EXCEPT !.buffer = Append(@, Structural)]
            room == fits /\ Len(wal.buffer) < BufferRecords
<1>1. TypeOK
  BY DEF IInv
<1>2. /\ open /\ options.enableWal
      /\ UNCHANGED <<options, open, sink, tree, data, doubt, promised>>
      /\ \/ UNCHANGED <<wal, disk, faults>>
         \/ room /\ \E ok \in BOOLEAN : Flush(w, ok)
         \/ /\ room
            /\ disk' = Written(w, Len(w.buffer), FALSE)
            /\ \E short \in BOOLEAN :
                  wal' = [w EXCEPT !.buffer = <<>>, !.bad = short /\ disk'.irregular]
  BY DEF Checkpoint
<1>3. AboutDoubt(wal.buffer)
  BY DEF LoggedInv, AboutDoubt
<1>4. ASSUME room PROVE w \in WalType /\ AboutDoubt(w.buffer)
  <2>1. w \in WalType
    BY <1>1, <1>4, MarkerSound
  <2>2. wal \in WalType /\ wal.buffer \in Seq(Record) /\ Len(wal.buffer) \in Nat
    BY <1>1, Typed, WalFields
  <2>3. w.buffer = Append(wal.buffer, Structural)
    BY <2>2 DEF WalType
  <2>. HIDE DEF w
  <2>4. /\ Len(w.buffer) = Len(wal.buffer) + 1
        /\ \A i \in 1 .. Len(w.buffer) :
              w.buffer[i] = IF i <= Len(wal.buffer) THEN wal.buffer[i] ELSE Structural
    BY <2>2, <2>3, RecordTypes
  <2>5. ASSUME NEW i \in 1 .. Len(w.buffer), NEW k \in Keys \ doubt
        PROVE  w.buffer[i].key # {k}
    <3>1. CASE i <= Len(wal.buffer)
      <4>1. w.buffer[i] = wal.buffer[i] /\ i \in 1 .. Len(wal.buffer)
        BY <2>2, <2>4, <3>1
      <4>. QED  BY <1>3, <4>1 DEF AboutDoubt
    <3>2. CASE ~ (i <= Len(wal.buffer))
      <4>1. w.buffer[i] = Structural
        BY <2>4, <3>2
      <4>. QED  BY <4>1 DEF Structural
    <3>. QED  BY <3>1, <3>2
  <2>. QED  BY <2>1, <2>5 DEF AboutDoubt, w
<1>5. sink' \in BOOLEAN
  BY <1>1, <1>2, Typed
<1>. HIDE DEF w, room
<1>6. CASE UNCHANGED <<wal, disk, faults>>
  <2>1. StoresOnly(wal.buffer)
    BY <1>6 DEF StoresOnly
  <2>. QED  BY <1>2, <1>3, <1>5, <1>6, <2>1, QuietLogged
<1>7. CASE room /\ \E ok \in BOOLEAN : Flush(w, ok)
  <2>1. PICK ok \in BOOLEAN : Flush(w, ok)
    BY <1>7
  <2>2. wal'.buffer \in {w.buffer, <<>>}
    BY <1>1, <1>4, <1>7, <2>1, FlushEffect
  <2>3. StoresOnly(w.buffer)
    BY <1>1, <1>4, <1>7, <2>1, FlushOther DEF StoresOnly
  <2>. QED  BY <1>2, <1>4, <1>5, <1>7, <2>2, <2>3, QuietLogged
<1>8. CASE /\ room
           /\ disk' = Written(w, Len(w.buffer), FALSE)
           /\ \E short \in BOOLEAN :
                 wal' = [w EXCEPT !.buffer = <<>>, !.bad = short /\ disk'.irregular]
  <2>1. Len(w.buffer) \in 0 .. Len(w.buffer)
    BY <1>4, <1>8, WalFields
  <2>2. StoresOnly(w.buffer)
    BY <1>1, <1>4, <1>8, <2>1, WrittenOther
  <2>3. wal'.buffer = <<>>
    BY <1>4, <1>8 DEF WalType
  <2>. QED  BY <1>2, <1>4, <1>5, <1>8, <2>2, <2>3, QuietLogged
<1>. QED  BY <1>2, <1>6, <1>7, <1>8

\* validate() preserves LoggedInv: it only reads.
LEMMA ValidateLogged == IInv /\ LoggedInv /\ Validate => LoggedInv'
<1>. SUFFICES ASSUME IInv, LoggedInv, Validate PROVE LoggedInv'
  OBVIOUS
<1>1. TypeOK
  BY DEF IInv
<1>2. wal'.buffer = wal.buffer
  <2>1. CASE options.enableWal
    <3>1. PICK short \in BOOLEAN : wal' = AfterScan(wal, short)
      BY <2>1 DEF Validate
    <3>. QED  BY <1>1, <3>1, Typed, AfterScanSound
  <2>2. CASE ~ options.enableWal
    BY <2>2 DEF Validate
  <2>. QED  BY <2>1, <2>2
<1>. QED  BY <1>2 DEF Validate, LoggedInv, AboutDoubt, AcknowledgedIsLogged

\* close() preserves LoggedInv: it writes the buffer and empties it, or the
\* database stays open with it.
LEMMA CloseLogged == IInv /\ LoggedInv /\ Close => LoggedInv'
<1>. SUFFICES ASSUME IInv, LoggedInv, Close PROVE LoggedInv'
  OBVIOUS
<1>1. TypeOK
  BY DEF IInv
<1>2. wal \in WalType /\ sink' = FALSE /\ open /\ UNCHANGED <<options, tree, doubt>>
  BY <1>1, Typed DEF Close
<1>3. CASE open' = FALSE /\ wal'.buffer = <<>>
  BY <1>2, <1>3 DEF LoggedInv, AboutDoubt, AcknowledgedIsLogged
<1>4. CASE options.enableWal /\ Flush(wal, FALSE) /\ UNCHANGED open
  <2>1. wal'.buffer \in {wal.buffer, <<>>}
    BY <1>1, <1>2, <1>4, FlushEffect
  <2>2. StoresOnly(wal.buffer)
    BY <1>1, <1>2, <1>4, FlushOther DEF StoresOnly
  <2>3. AboutDoubt(wal.buffer)
    BY DEF LoggedInv, AboutDoubt
  <2>. QED  BY <1>2, <1>4, <2>1, <2>2, <2>3, QuietLogged
<1>5. CASE options.enableWal /\ wal' = [ShutDown(wal) EXCEPT !.buffer = <<>>] /\ Closed
  <2>1. ShutDown(wal) \in WalType
    BY <1>1, <1>2, OpenedLogSound
  <2>2. wal'.buffer = <<>>
    BY <1>5, <2>1 DEF WalType
  <2>. QED  BY <1>3, <1>5, <2>2 DEF Closed
<1>6. CASE ~ options.enableWal /\ Closed /\ UNCHANGED wal
  BY <1>3, <1>6 DEF Closed, LoggedInv, AboutDoubt
<1>. QED  BY <1>4, <1>5, <1>6 DEF Close

\* open() preserves LoggedInv: whether it fails or not, the buffer is empty.
LEMMA OpenLogged ==
    ASSUME NEW create \in BOOLEAN
    PROVE  IInv /\ LoggedInv /\ (\/ OpenRefused(create) \/ OpenHeaderFails(create)
                                 \/ OpenLogFails(create) \/ OpenRecoveryFails(create)
                                 \/ OpenSucceeds(create)) => LoggedInv'
<1>. SUFFICES ASSUME IInv, LoggedInv,
                     \/ OpenRefused(create) \/ OpenHeaderFails(create)
                     \/ OpenLogFails(create) \/ OpenRecoveryFails(create)
                     \/ OpenSucceeds(create)
              PROVE  LoggedInv'
  OBVIOUS
<1>1. TypeOK
  BY DEF IInv
<1>2. wal \in WalType /\ wal.buffer = <<>> /\ ~ open /\ options.enableWal \in BOOLEAN
  BY <1>1, Typed
     DEF LoggedInv, AboutDoubt, OpenRefused, OpenHeaderFails, OpenLogFails, OpenRecoveryFails, OpenSucceeds
<1>3. wal'.buffer = <<>>
  <2>1. CASE wal' = wal
    BY <1>2, <2>1
  <2>2. CASE wal' = [wal EXCEPT !.fileOpen = TRUE, !.bad = TRUE]
    BY <1>2, <2>2 DEF WalType
  <2>3. CASE OpenRecoveryFails(create)
    <3>1. PICK short \in BOOLEAN :
             wal' = ShutDown(AfterScan(Initialized(create, short), short))
      BY <2>3 DEF OpenRecoveryFails
    <3>2. /\ AfterScan(Initialized(create, short), short) \in WalType
          /\ AfterScan(Initialized(create, short), short).buffer = wal.buffer
      BY <1>1, OpenedLogSound, AfterScanSound
    <3>. QED  BY <1>1, <1>2, <3>1, <3>2, OpenedLogSound
  <2>4. CASE OpenSucceeds(create) /\ options.enableWal
    <3>1. PICK short \in BOOLEAN : wal' = Initialized(create, short)
      BY <2>4 DEF OpenSucceeds
    <3>. QED  BY <1>1, <1>2, <3>1, OpenedLogSound
  <2>5. CASE OpenSucceeds(create) /\ ~ options.enableWal
    BY <2>1, <2>5 DEF OpenSucceeds
  <2>. QED  BY <1>2, <2>1, <2>2, <2>3, <2>4, <2>5
            DEF OpenRefused, OpenHeaderFails, OpenLogFails
<1>4. CASE ~ OpenSucceeds(create)
  <2>1. UNCHANGED <<options, open, sink>>
    BY <1>4 DEF OpenRefused, OpenHeaderFails, OpenLogFails, OpenRecoveryFails
  <2>. QED  BY <1>2, <1>3, <2>1 DEF LoggedInv, AboutDoubt, AcknowledgedIsLogged
<1>5. CASE OpenSucceeds(create)
  <2>1. /\ UNCHANGED options /\ sink' = options.enableWal
        /\ disk' = [disk EXCEPT !.stored = tree'.keys]
    BY <1>5 DEF OpenSucceeds
  <2>2. disk'.stored = tree'.keys
    BY <1>1, <2>1, Typed DEF DiskType
  <2>. QED  BY <1>2, <1>3, <2>1, <2>2 DEF LoggedInv, AboutDoubt, AcknowledgedIsLogged
<1>. QED  BY <1>4, <1>5

\* Every step preserves LoggedInv.
LEMMA NextLogged == IInv /\ LoggedInv /\ [Next]_vars => LoggedInv'
<1>. SUFFICES ASSUME IInv, LoggedInv, [Next]_vars PROVE LoggedInv'
  OBVIOUS
<1>1. CASE UNCHANGED vars
  BY <1>1 DEF vars, LoggedInv, AboutDoubt, AcknowledgedIsLogged
<1>2. ASSUME NEW d, Exit(d) PROVE LoggedInv'
  BY <1>2 DEF Exit, NewWal, LoggedInv, AboutDoubt, AcknowledgedIsLogged
<1>3. CASE Next
  BY <1>2, <1>3, OpenLogged, InsertLogged, EraseLogged, CheckpointLogged,
     ValidateLogged, CloseLogged DEF Next, Crash, CrashInFlush
<1>. QED  BY <1>1, <1>3

\* While a database with a log is open, the records that it wrote to the log file
\* in this session say of every key what its tree says, unless a call on that key
\* failed: insert() and erase() acknowledge only what Database::insert and
\* Database::erase saw flushed, for any number of keys, records and faults.
THEOREM AcknowledgedAreLogged == Spec => []AcknowledgedIsLogged
<1>1. ASSUME Init PROVE LoggedInv
  <2>1. wal.buffer = <<>> /\ ~ sink /\ ~ open
    BY <1>1 DEF Init, NewWal
  <2>. QED  BY <2>1 DEF LoggedInv, AboutDoubt, AcknowledgedIsLogged
<1>2. LoggedInv => AcknowledgedIsLogged
  BY DEF LoggedInv, AboutDoubt
<1>. QED  BY <1>1, <1>2, Invariance, NextLogged, PTL DEF Spec

-----------------------------------------------------------------------------
(***************************************************************************)
(* A database that is not open holds no file.                              *)
(***************************************************************************)
\* While nothing has failed: a log whose stream has failed is irregular, a log
\* file that no open database uses is open only because its stream has failed,
\* and a closed database holds no data file.
HandlesInv ==
    faults = 0 =>
        /\ wal.bad => disk.irregular
        /\ wal.fileOpen /\ ~ (open /\ options.enableWal) => wal.bad
        /\ ~ open => ~ data.open

\* A step that keeps the database as it is, opens or closes no log file, makes no
\* log file regular and spoils the stream only of an irregular one keeps
\* HandlesInv.
LEMMA SameHandles ==
    ASSUME HandlesInv, faults' = 0 => faults = 0, UNCHANGED <<options, open, data>>,
           wal'.fileOpen = wal.fileOpen, disk.irregular => disk'.irregular,
           faults' = 0 => (wal'.bad <=> wal.bad)
    PROVE  HandlesInv'
BY DEF HandlesInv

\* A scan spoils the stream only if the log file is irregular.
LEMMA ScanHandles ==
    ASSUME TypeOK, NEW w \in WalType, NEW short \in BOOLEAN
    PROVE  /\ AfterScan(w, short).bad => w.bad \/ disk.irregular
           /\ w.bad => AfterScan(w, short).bad
           /\ AfterScan(w, short).fileOpen = w.fileOpen
<1>1. (w.bad \/ (short /\ disk.bytes /\ disk.irregular)) \in BOOLEAN
  OBVIOUS
<1>. QED  BY <1>1 DEF AfterScan, WalType

\* So does the initialization of the log in open().
LEMMA InitializedHandles ==
    ASSUME TypeOK, NEW create \in BOOLEAN, NEW short \in BOOLEAN
    PROVE  Initialized(create, short).bad => disk.irregular
<1>. DEFINE w0 == [wal EXCEPT !.ready = TRUE, !.fileOpen = TRUE, !.bad = FALSE,
                              !.over = create /\ disk.bytes]
<1>1. w0 \in WalType /\ ~ w0.bad
  BY Typed DEF WalType
<1>2. Initialized(create, short) \in {w0, AfterScan(w0, short)}
  BY DEF Initialized
<1>. HIDE DEF w0
<1>. QED  BY <1>1, <1>2, ScanHandles

\* A shutdown leaves the file open only if the stream has failed.
LEMMA ShutDownHandles ==
    ASSUME NEW w \in WalType
    PROVE  (ShutDown(w).fileOpen => ShutDown(w).bad) /\ ShutDown(w).bad = w.bad
BY DEF ShutDown, WalType

\* What insert() and erase() do to the handles.
LEMMA CallHandles ==
    ASSUME IInv, HandlesInv, UNCHANGED <<options, open, data>>,
           NEW R \in Seq(Record), NEW ok \in BOOLEAN,
           \/ FlushAfter(Appended(R), ok)
           \/ wal' \in {wal, Appended(R)} /\ UNCHANGED <<disk, faults>>
    PROVE  HandlesInv'
<1>. DEFINE w == Appended(R)
<1>1. TypeOK
  BY DEF IInv
<1>2. w \in WalType /\ w.fileOpen = wal.fileOpen /\ w.bad = wal.bad
  BY <1>1, Typed, AppendedSound, AppendedBuffer
<1>. HIDE DEF w
<1>3. CASE wal' \in {wal, w} /\ UNCHANGED <<disk, faults>>
  BY <1>2, <1>3, SameHandles
<1>4. CASE Flush(w, ok)
  <2>1. /\ disk.irregular => disk'.irregular
        /\ wal'.fileOpen = w.fileOpen
        /\ faults' = 0 => faults = 0 /\ wal'.bad = w.bad
    BY <1>1, <1>2, <1>4, FlushEffect
  <2>. QED  BY <1>2, <2>1, SameHandles
<1>. QED  BY <1>3, <1>4 DEF FlushAfter, w

\* insert() and erase() keep HandlesInv.
LEMMA ChangeHandles ==
    ASSUME NEW k \in Keys
    PROVE  IInv /\ HandlesInv /\ (Insert(k) \/ Erase(k)) => HandlesInv'
<1>1. InsertRecords(k) \in Seq(Record) /\ EraseRecords(k) \in Seq(Record)
  BY RecordsSound
<1>2. ASSUME IInv, HandlesInv, Insert(k) PROVE HandlesInv'
  <2>1. /\ UNCHANGED <<options, open, data>>
        /\ \/ \E ok \in BOOLEAN : FlushAfter(Appended(InsertRecords(k)), ok)
           \/ wal' = Appended(InsertRecords(k)) /\ UNCHANGED <<disk, faults>>
    BY <1>2 DEF Insert
  <2>. QED  BY <1>1, <1>2, <2>1, CallHandles
<1>3. ASSUME IInv, HandlesInv, Erase(k) PROVE HandlesInv'
  <2>1. /\ UNCHANGED <<options, open, data>>
        /\ \/ \E ok \in BOOLEAN : FlushAfter(Appended(EraseRecords(k)), ok)
           \/ wal' = wal /\ UNCHANGED <<disk, faults>>
    BY <1>3 DEF Erase
  <2>. QED  BY <1>1, <1>3, <2>1, CallHandles
<1>. QED  BY <1>2, <1>3

\* checkpoint() and validate() keep HandlesInv.
LEMMA LogCallHandles ==
    IInv /\ HandlesInv
        /\ (Validate \/ \E truncate, fits \in BOOLEAN : Checkpoint(truncate, fits))
    => HandlesInv'
<1>1. ASSUME IInv, HandlesInv, Validate PROVE HandlesInv'
  <2>1. TypeOK
    BY <1>1 DEF IInv
  <2>2. UNCHANGED <<options, open, data, disk, faults>>
    BY <1>1 DEF Validate
  <2>3. CASE options.enableWal
    <3>1. PICK short \in BOOLEAN : wal' = AfterScan(wal, short)
      BY <1>1, <2>3 DEF Validate
    <3>2. /\ wal'.bad => wal.bad \/ disk.irregular
          /\ wal'.fileOpen = wal.fileOpen /\ (wal.bad => wal'.bad)
      BY <2>1, <3>1, Typed, ScanHandles
    <3>. QED  BY <1>1, <2>2, <3>2 DEF HandlesInv
  <2>4. CASE ~ options.enableWal
    BY <1>1, <2>2, <2>4 DEF Validate, HandlesInv
  <2>. QED  BY <2>3, <2>4
<1>2. ASSUME IInv, HandlesInv, NEW truncate \in BOOLEAN, NEW fits \in BOOLEAN,
             Checkpoint(truncate, fits)
      PROVE  HandlesInv'
  <2>. DEFINE w == [wal EXCEPT !.buffer = Append(@, Structural)]
              room == fits /\ Len(wal.buffer) < BufferRecords
  <2>1. TypeOK /\ wal \in WalType
    BY <1>2, Typed DEF IInv
  <2>2. /\ open /\ options.enableWal /\ UNCHANGED <<options, open, data>>
        /\ \/ UNCHANGED <<wal, disk, faults>>
           \/ room /\ \E ok \in BOOLEAN : Flush(w, ok)
           \/ /\ room
              /\ \E short \in BOOLEAN :
                    wal' = [w EXCEPT !.buffer = <<>>, !.bad = short /\ disk'.irregular]
              /\ UNCHANGED faults
    BY <1>2 DEF Checkpoint
  <2>3. ASSUME room PROVE w \in WalType /\ w.bad = wal.bad /\ w.fileOpen = wal.fileOpen
    BY <2>1, <2>3, MarkerSound DEF WalType
  <2>. HIDE DEF w, room
  <2>4. CASE UNCHANGED <<wal, disk, faults>>
    BY <1>2, <2>2, <2>4, SameHandles
  <2>5. CASE room /\ \E ok \in BOOLEAN : Flush(w, ok)
    <3>1. PICK ok \in BOOLEAN : Flush(w, ok)
      BY <2>5
    <3>2. /\ disk.irregular => disk'.irregular
          /\ wal'.fileOpen = w.fileOpen
          /\ faults' = 0 => faults = 0 /\ wal'.bad = w.bad
      BY <2>1, <2>3, <2>5, <3>1, FlushEffect
    <3>. QED  BY <1>2, <2>2, <2>3, <2>5, <3>2, SameHandles
  <2>6. CASE /\ room
             /\ \E short \in BOOLEAN :
                   wal' = [w EXCEPT !.buffer = <<>>, !.bad = short /\ disk'.irregular]
             /\ UNCHANGED faults
    <3>1. wal'.bad => disk'.irregular
      BY <2>3, <2>6 DEF WalType
    <3>. QED  BY <1>2, <2>2, <2>6, <3>1 DEF HandlesInv
  <2>. QED  BY <2>2, <2>4, <2>5, <2>6
<1>. QED  BY <1>1, <1>2

\* close() keeps HandlesInv: it closes the data file and, unless the stream has
\* failed, the log file, or the database stays open.
LEMMA CloseHandles == IInv /\ HandlesInv /\ Close => HandlesInv'
<1>. SUFFICES ASSUME IInv, HandlesInv, Close PROVE HandlesInv'
  OBVIOUS
<1>1. TypeOK /\ wal \in WalType /\ options.enableWal \in BOOLEAN
  BY Typed DEF IInv
<1>2. data \in [content : {"absent", "short", "full"}, open : BOOLEAN]
  BY <1>1 DEF TypeOK
<1>3. Closed => ~ data'.open /\ open' = FALSE
  BY <1>2 DEF Closed
<1>4. CASE /\ ~ wal.bad /\ wal' = [ShutDown(wal) EXCEPT !.buffer = <<>>]
           /\ Closed /\ UNCHANGED faults
  <2>1. ShutDown(wal) \in WalType /\ ~ ShutDown(wal).fileOpen /\ ~ ShutDown(wal).bad
    BY <1>1, <1>4, OpenedLogSound, ShutDownHandles
  <2>2. ~ wal'.fileOpen /\ ~ wal'.bad
    BY <1>4, <2>1 DEF WalType
  <2>. QED  BY <1>3, <1>4, <2>2 DEF HandlesInv
<1>5. CASE Flush(wal, FALSE) /\ UNCHANGED <<open, data>>
  <2>1. /\ disk.irregular => disk'.irregular
        /\ wal'.fileOpen = wal.fileOpen
        /\ faults' = 0 => faults = 0 /\ wal'.bad = wal.bad
    BY <1>1, <1>5, FlushEffect
  <2>2. UNCHANGED options
    BY DEF Close
  <2>. QED  BY <1>5, <2>1, <2>2, SameHandles
<1>6. CASE ~ options.enableWal /\ Closed /\ UNCHANGED <<wal, disk, faults>>
  BY <1>3, <1>6 DEF Close, HandlesInv
<1>. QED  BY <1>1, <1>4, <1>5, <1>6 DEF Close

\* open() keeps HandlesInv, whether it succeeds or not.
LEMMA OpenHandles ==
    ASSUME NEW create \in BOOLEAN
    PROVE  IInv /\ HandlesInv /\ (\/ OpenRefused(create) \/ OpenHeaderFails(create)
                                  \/ OpenLogFails(create) \/ OpenRecoveryFails(create)
                                  \/ OpenSucceeds(create)) => HandlesInv'
<1>. SUFFICES ASSUME IInv, HandlesInv PROVE
                 (\/ OpenRefused(create) \/ OpenHeaderFails(create)
                  \/ OpenLogFails(create) \/ OpenRecoveryFails(create)
                  \/ OpenSucceeds(create)) => HandlesInv'
  OBVIOUS
<1>1. TypeOK /\ wal \in WalType /\ options.enableWal \in BOOLEAN /\ faults \in Nat
  BY Typed DEF IInv
<1>2. Fault => faults' # 0
  BY <1>1 DEF Fault
<1>3. ASSUME OpenRefused(create) PROVE HandlesInv'
  BY <1>3 DEF OpenRefused, HandlesInv
<1>4. ASSUME OpenHeaderFails(create) PROVE HandlesInv'
  BY <1>2, <1>4 DEF OpenHeaderFails, HandlesInv
<1>5. ASSUME OpenLogFails(create) PROVE HandlesInv'
  <2>1. ~ data'.open /\ ~ open /\ UNCHANGED <<options, open, disk>>
    BY <1>5 DEF OpenLogFails, DataFile
  <2>2. Fault \/ UNCHANGED <<wal, faults>>
    BY <1>5 DEF OpenLogFails
  <2>. QED  BY <1>2, <2>1, <2>2 DEF HandlesInv
<1>6. ASSUME OpenRecoveryFails(create) PROVE HandlesInv'
  <2>1. ~ data'.open /\ ~ open /\ UNCHANGED <<options, open, disk, faults>>
    BY <1>6 DEF OpenRecoveryFails, DataFile
  <2>2. PICK short \in BOOLEAN :
           wal' = ShutDown(AfterScan(Initialized(create, short), short))
    BY <1>6 DEF OpenRecoveryFails
  <2>. DEFINE w == AfterScan(Initialized(create, short), short)
  <2>3. w \in WalType /\ (w.bad => disk.irregular)
    BY <1>1, OpenedLogSound, AfterScanSound, ScanHandles, InitializedHandles
  <2>4. (wal'.fileOpen => wal'.bad) /\ (wal'.bad => disk.irregular)
    BY <2>2, <2>3, ShutDownHandles
  <2>. QED  BY <2>1, <2>4 DEF HandlesInv
<1>7. ASSUME OpenSucceeds(create) PROVE HandlesInv'
  <2>1. ~ open /\ open' = TRUE /\ UNCHANGED <<options, faults>> /\ disk'.irregular = disk.irregular
    BY <1>1, <1>7, Typed DEF OpenSucceeds, DiskType
  <2>2. CASE options.enableWal
    <3>1. PICK short \in BOOLEAN : wal' = Initialized(create, short)
      BY <1>7, <2>2 DEF OpenSucceeds
    <3>2. wal'.bad => disk.irregular
      BY <1>1, <3>1, InitializedHandles
    <3>. QED  BY <2>1, <2>2, <3>2 DEF HandlesInv
  <2>3. CASE ~ options.enableWal
    BY <1>7, <2>1, <2>3 DEF OpenSucceeds, HandlesInv
  <2>. QED  BY <1>1, <2>2, <2>3
<1>. QED  BY <1>3, <1>4, <1>5, <1>6, <1>7

\* Every step preserves HandlesInv.
LEMMA NextHandles == IInv /\ HandlesInv /\ [Next]_vars => HandlesInv'
<1>. SUFFICES ASSUME IInv, HandlesInv, [Next]_vars PROVE HandlesInv'
  OBVIOUS
<1>1. CASE UNCHANGED vars
  BY <1>1 DEF vars, HandlesInv
<1>2. ASSUME NEW d, Exit(d) PROVE HandlesInv'
  <2>1. data \in [content : {"absent", "short", "full"}, open : BOOLEAN]
    BY DEF IInv, TypeOK
  <2>2. ~ data'.open
    BY <1>2, <2>1 DEF Exit
  <2>. QED  BY <1>2, <2>2 DEF Exit, NewWal, HandlesInv
<1>3. CASE Next
  BY <1>2, <1>3, OpenHandles, ChangeHandles, LogCallHandles, CloseHandles
     DEF Next, Crash, CrashInFlush
<1>. QED  BY <1>1, <1>3

\* Unless an I/O error or a torn record came first, a database that is not open,
\* because Database::open() failed or Database::close() succeeded, holds neither
\* its data file nor (unless the log file is irregular) its log file: the same
\* object can be opened again, after any sequence of calls.
THEOREM HandlesAreReleased == Spec => []HandlesReleased
<1>1. Init => HandlesInv
  BY DEF Init, NewWal, HandlesInv
<1>2. HandlesInv => HandlesReleased
  BY DEF HandlesInv, HandlesReleased
<1>. QED  BY <1>1, <1>2, Invariance, NextHandles, PTL DEF Spec

-----------------------------------------------------------------------------
(***************************************************************************)
(* core::Database implements DurableStore: its initial states are initial  *)
(* states of the store, and each of its steps is a step of the store or    *)
(* changes nothing that the store's user sees.  That a database which      *)
(* recovers itself opens with everything promised is IInv after the step.  *)
(***************************************************************************)
Recovering == open /\ options.enableWal /\ options.recoverOnOpen
Served == IF open THEN tree.keys ELSE {}

\* The store's variables, seen through the mapping.
Seen == <<open, Recovering, Served, promised>>

\* A call that keeps open(), the options, the promises and, while the database
\* is open, the tree, does nothing to the store.
LEMMA Unseen ==
    ASSUME open' = open, options' = options, promised' = promised,
           open => tree' = tree
    PROVE  UNCHANGED Seen
BY DEF Seen, Recovering, Served

\* A call on an open database that keeps it open moves the store by what it
\* does to the tree and to the promises.
LEMMA SeenCall ==
    ASSUME open, open' = open, options' = options
    PROVE  /\ UNCHANGED <<open, Recovering>>
           /\ Served = tree.keys /\ Served' = tree'.keys
BY DEF Recovering, Served

\* insert() that succeeds is the store's Insert, one that fails its Fail.
LEMMA InsertRefines ==
    ASSUME NEW k \in Keys, IInv, Insert(k)
    PROVE  Store!Insert(k) \/ Store!Fail(k)
<1>1. /\ open /\ open' = open /\ options' = options /\ k \notin tree.keys
  BY DEF Insert
<1>2. /\ UNCHANGED <<open, Recovering>>
      /\ Served = tree.keys /\ Served' = tree'.keys
  BY <1>1, SeenCall
<1>3. CASE /\ tree' = [keys |-> tree.keys \cup {k}, root |-> TRUE]
           /\ \E ok \in BOOLEAN : Acknowledge("insert", k, ok)
  <2>1. PICK ok \in BOOLEAN : Acknowledge("insert", k, ok)
    BY <1>3
  <2>2. Served' = Served \cup {k}
    BY <1>2, <1>3
  <2>3. CASE ok
    <3>1. promised' = IF options.enableWal THEN promised \cup {k} ELSE promised \ {k}
      BY <2>1, <2>3 DEF Acknowledge
    <3>2. promised' \in {promised \cup {k}}
              \cup (IF Recovering THEN {} ELSE {promised \ {k}})
      BY <3>1 DEF Recovering
    <3>. QED  BY <1>1, <1>2, <2>2, <3>2 DEF Store!Insert, Recovering, Served
  <2>4. CASE ~ ok
    <3>1. promised' = promised \ {k}
      BY <2>1, <2>4 DEF Acknowledge
    <3>. QED  BY <1>1, <1>2, <2>2, <3>1 DEF Store!Fail, Recovering, Served
  <2>. QED  BY <2>3, <2>4
<1>4. CASE /\ tree' \in {[keys |-> tree.keys \cup {k}, root |-> TRUE], tree}
           /\ Acknowledge("insert", k, FALSE)
  <2>1. promised' = promised \ {k}
    BY <1>4 DEF Acknowledge
  <2>2. tree.keys = tree.keys \ {k}
    BY <1>1
  <2>3. Served' \in {Served \cup {k}, Served \ {k}}
    BY <1>2, <1>4, <2>2
  <2>. QED  BY <1>1, <1>2, <2>1, <2>3 DEF Store!Fail, Recovering, Served
<1>. QED  BY <1>3, <1>4 DEF Insert

\* erase() that succeeds is the store's Erase, one that fails its Fail.
LEMMA EraseRefines ==
    ASSUME NEW k \in Keys, IInv, Erase(k)
    PROVE  Store!Erase(k) \/ Store!Fail(k)
<1>1. /\ open /\ open' = open /\ options' = options /\ k \in tree.keys
  BY DEF Erase
<1>2. /\ UNCHANGED <<open, Recovering>>
      /\ Served = tree.keys /\ Served' = tree'.keys
  BY <1>1, SeenCall
<1>3. tree'.keys = tree.keys \ {k} /\ \E ok \in BOOLEAN : Acknowledge("erase", k, ok)
  <2>1. tree \in [keys : SUBSET Keys, root : BOOLEAN]
    BY DEF IInv, TypeOK
  <2>2. CASE /\ tree' = [keys |-> tree.keys \ {k}, root |-> tree.keys # {k}]
             /\ \E ok \in BOOLEAN : Acknowledge("erase", k, ok)
    BY <2>2
  <2>3. CASE /\ tree' = [tree EXCEPT !.keys = tree.keys \ {k}]
             /\ Acknowledge("erase", k, FALSE)
    <3>1. tree'.keys = tree.keys \ {k}
      BY <2>1, <2>3
    <3>. QED  BY <2>3, <3>1
  <2>. QED  BY <2>2, <2>3 DEF Erase
<1>4. PICK ok \in BOOLEAN : Acknowledge("erase", k, ok)
  BY <1>3
<1>5. promised' = promised \ {k}
  BY <1>4 DEF Acknowledge
<1>6. Served' = Served \ {k}
  BY <1>2, <1>3
<1>. QED  BY <1>1, <1>2, <1>5, <1>6 DEF Store!Erase, Recovering, Served

\* A successful open() is the store's Start: PromisesKept after it says that a
\* database that recovers itself serves all that it is sure of.
LEMMA OpenRefines ==
    ASSUME NEW create \in BOOLEAN, IInv, IInv', OpenSucceeds(create)
    PROVE  Store!Next
<1>1. /\ open = FALSE \/ ~ open
      /\ ~ open /\ open' = TRUE /\ options' = options /\ promised' = promised
  BY DEF OpenSucceeds
<1>2. Served' = tree'.keys /\ tree'.keys \in SUBSET Keys
  BY <1>1 DEF IInv, TypeOK, Served
<1>3. Recovering' \in BOOLEAN
  BY DEF Recovering
<1>4. Recovering' => promised \subseteq Served'
  BY <1>1, <1>2 DEF IInv, PromisesKept, Contains, Recovering
<1>5. Store!Start(Recovering', Served')
  BY <1>1, <1>4 DEF Store!Start, Recovering, Served
<1>. QED  BY <1>2, <1>3, <1>5 DEF Store!Next

\* A process that ends, or a close() that succeeds, is the store's Stop.
LEMMA StopRefines ==
    ASSUME NEW lost, open' = FALSE, promised' = promised \ lost
    PROVE  Store!Stop(lost)
BY DEF Store!Stop

\* Calls that are refused, that fail in open() or that only concern the log are
\* not seen by the store's user.
LEMMA QuietRefines ==
    ASSUME \/ \E create \in BOOLEAN : \/ OpenRefused(create) \/ OpenHeaderFails(create)
                                      \/ OpenLogFails(create) \/ OpenRecoveryFails(create)
           \/ \E truncate, fits \in BOOLEAN : Checkpoint(truncate, fits)
           \/ Validate
    PROVE  UNCHANGED Seen
<1>1. open' = open /\ options' = options /\ promised' = promised /\ (open => tree' = tree)
  BY DEF OpenRefused, OpenHeaderFails, OpenLogFails, OpenRecoveryFails, Checkpoint, Validate
<1>. QED  BY <1>1, Unseen

\* close() stops the store, or fails and leaves it as it is.
LEMMA CloseRefines ==
    ASSUME Close
    PROVE  Store!Next \/ UNCHANGED Seen
<1>1. options' = options /\ promised' = promised /\ tree' = tree
  BY DEF Close
<1>2. CASE Closed
  <2>1. open' = FALSE /\ promised' = promised \ {}
    BY <1>1, <1>2 DEF Closed
  <2>2. Store!Stop({})
    BY <2>1, StopRefines
  <2>. QED  BY <2>2 DEF Store!Next
<1>3. CASE open' = open
  BY <1>1, <1>3, Unseen
<1>. QED  BY <1>2, <1>3 DEF Close

\* Both crashes stop the store; one in a call leaves that call's key in doubt.
LEMMA CrashRefines ==
    ASSUME Crash \/ \E k \in Keys : CrashInFlush(k)
    PROVE  Store!Next
<1>1. CASE Crash
  <2>1. open' = FALSE /\ promised' = promised \ {}
    BY <1>1 DEF Crash, Exit
  <2>2. Store!Stop({})
    BY <2>1, StopRefines
  <2>. QED  BY <2>2 DEF Store!Next
<1>2. CASE \E k \in Keys : CrashInFlush(k)
  <2>1. PICK k \in Keys : CrashInFlush(k)
    BY <1>2
  <2>2. open' = FALSE /\ promised' = promised \ {k}
    BY <2>1 DEF CrashInFlush, Exit
  <2>3. Store!Stop({k})
    BY <2>2, StopRefines
  <2>. QED  BY <2>3 DEF Store!Next
<1>. QED  BY <1>1, <1>2

\* Every step of a database is a step of the store, or none.
LEMMA StepRefines ==
    ASSUME IInv, IInv', [Next]_vars
    PROVE  [Store!Next]_Seen
<1>1. ASSUME NEW k \in Keys, Insert(k) PROVE Store!Next
  BY <1>1, InsertRefines DEF Store!Next
<1>2. ASSUME NEW k \in Keys, Erase(k) PROVE Store!Next
  BY <1>2, EraseRefines DEF Store!Next
<1>3. ASSUME NEW create \in BOOLEAN, OpenSucceeds(create) PROVE Store!Next
  BY <1>3, OpenRefines
<1>4. CASE UNCHANGED vars
  BY <1>4, Unseen DEF vars
<1>. QED  BY <1>1, <1>2, <1>3, <1>4, QuietRefines, CloseRefines, CrashRefines DEF Next

\* The database implements the store, for every set of keys, every capacity of
\* the log buffer and every number of faults: its user never sees a call change
\* another key, an acknowledged call that did not do what it says, or a
\* database that recovered itself without a key that was promised.
THEOREM StoreRefinement == Spec => ImplementsStore
<1>1. Init => Store!Init
  BY DEF Init, Store!Init
<1>2. IInv /\ IInv' /\ [Next]_vars => [Store!Next]_(Store!vars)
  BY StepRefines DEF Seen, Recovering, Served, Store!vars
<1>. QED  BY <1>1, <1>2, Invariance, PTL DEF Spec, ImplementsStore, Store!Spec
=============================================================================
