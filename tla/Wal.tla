-------------------------------- MODULE Wal --------------------------------
(***************************************************************************)
(* The write-ahead log: LogManager with its LogWriter, LogBuffer, LogFile, *)
(* LogReader and LogValidator, over a DatabaseFile, used by one process    *)
(* after another.                                                          *)
(*                                                                         *)
(* A record is a size prefix and a body.  BinaryWriter appends by copying  *)
(* behind the end of its buffer and then growing the buffer, and growing   *)
(* fills the new bytes with zeros: all that reaches the file of a record   *)
(* is its length, all zero, and the size that overwriteAt patches in       *)
(* afterwards.  So the file is its length and the size prefixes in it,     *)
(* every other byte behind the file header being zero.  The lsn kept with  *)
(* a prefix is what the writer meant to store; no operation reads it.      *)
(*                                                                         *)
(* A seek writes the stream's pending bytes out, so between two calls      *)
(* everything appended is with the operating system, and a process that    *)
(* dies loses only what it holds in memory, or tears the flush it is in.   *)
(* Loss of power is not modelled: the code never asks for a sync.          *)
(***************************************************************************)
EXTENDS Integers, FiniteSets

CONSTANTS
    HeaderSize,     \* sizeof(WalFileHeader): 16
    PrefixSize,     \* the size prefix of a record: 4
    Alignment,      \* kLogRecordAlignment: 8
    ByteBase,       \* values of a byte: 256
    LsnSize,        \* the LSN, which follows the type byte of a body: 8
    LengthField,    \* where in a body its payload's length is: 29
    FixedSize,      \* a body without its payload: 45
    BodySizes,      \* lengths of the bodies that are appended
    BufferCapacity, \* capacity of the LogBuffer: 64 KiB
    MaxLsn,         \* bound: LSNs one process assigns
    MaxFileSize     \* bound: the file's length

ASSUME LayoutAssumption ==
    /\ \A c \in {HeaderSize, PrefixSize, Alignment, ByteBase, LsnSize,
                 LengthField, FixedSize, BufferCapacity, MaxLsn, MaxFileSize} :
            c \in Nat \ {0}
    /\ HeaderSize % Alignment = 0
    /\ 1 + LsnSize <= LengthField /\ LengthField + PrefixSize <= FixedSize
    /\ BodySizes \subseteq FixedSize .. ByteBase - 1
    /\ \A b \in BodySizes : b * ByteBase > MaxFileSize

VARIABLES
    file,           \* [size, records]: length, and the prefixes by offset
    handle,         \* "closed"; "open", the file is but initialize failed; "ready"
    bad,            \* the stream's fail bit, which only opening it again clears
    appendOffset,   \* LogFile's
    writer,         \* [used, buffer, nextLsn, currentLsn, lastFlushedLsn]
    reader,         \* [offset, lastLsn, endOfLog]
    start,          \* observer: append offset when the log was opened
    accepted        \* observer: LSNs append accepted since then

vars == <<file, handle, bad, appendOffset, writer, reader, start, accepted>>

\* initialized_, without which every operation on the log is refused.
Ready == handle = "ready"

-----------------------------------------------------------------------------
(***************************************************************************)
(* The file.                                                               *)
(***************************************************************************)
EmptyFile == [size |-> 0, records |-> [p \in {} |-> 0]]

Larger(m, n) == IF m > n THEN m ELSE n

RoundUp(n) == ((n + Alignment - 1) \div Alignment) * Alignment

\* How many bytes append writes: the buffer, and the padding behind it.
Padded(offset, used) ==
    IF used = 0 THEN 0 ELSE RoundUp(offset + used) - offset

\* The file after the first count bytes of the buffer, and of the padding
\* behind it, were written at offset.
Written(f, offset, buffer, count) ==
    LET new  == {offset + e.at : e \in {b \in buffer : b.at < count}}
        kept == {p \in DOMAIN f.records : p < offset \/ p >= offset + count}
    IN  [size |-> Larger(f.size, offset + count),
         records |-> [p \in new \cup kept |->
            IF p \in new
            THEN LET e == CHOOSE b \in buffer : offset + b.at = p
                 IN  [size |-> e.size, lsn |-> e.lsn]
            ELSE f.records[p]]]

\* What a byte counts for in a number, by its place.
Power[k \in 0 .. FixedSize] == IF k = 0 THEN 1 ELSE ByteBase * Power[k - 1]

\* The number in the n bytes at offset o, the lowest byte first.  Sizes are
\* below ByteBase, so of a prefix only its first byte is not zero.
NumberAt(f, o, n) ==
    LET hits == {p \in DOMAIN f.records : p \in o .. o + n - 1}
    IN  IF hits = {} THEN 0
        ELSE LET p == CHOOSE p \in hits : TRUE
             IN  f.records[p].size * Power[p - o]

SizeAt(f, o) == NumberAt(f, o, PrefixSize)

\* readRecord(o) reads past the end of the file, which fails the stream.
ShortRead(f, o) ==
    \/ o + PrefixSize > f.size
    \/ SizeAt(f, o) > 0 /\ o + PrefixSize + SizeAt(f, o) > f.size

\* readRecord(o) succeeds.  A body cut short is not noticed (the missing
\* bytes stay zero), a prefix cut short is, by the seek that follows it.
ReadSucceeds(f, o) ==
    /\ SizeAt(f, o) > 0
    /\ o + PrefixSize <= f.size
    /\ FixedSize + NumberAt(f, o + PrefixSize + LengthField, PrefixSize) <= SizeAt(f, o)

\* The record that readRecord decodes.  Its fields are zero, unless the record
\* was torn over an older one whose prefix is still there; but no prefix, as
\* a byte, is the number of a record type.
Decoded(f, o) == [type |-> "Invalid", lsn |-> NumberAt(f, o + PrefixSize + 1, LsnSize)]

\* Mutant of Validates: neither the type nor the LSN is looked at.
ValidatesOrderOnly(r, previous) == r.lsn >= previous

\* LogValidator::validateRecord and validateLsnOrdering.
Validates(r, previous) == r.type # "Invalid" /\ r.lsn # 0 /\ r.lsn > previous

NextOffset(f, o) == o + RoundUp(PrefixSize + SizeAt(f, o))

\* restoreFromFile's loop, without validation, as long as records can be read:
\* the LSN of the last one (0 if none), and whether it read past the end.  Every
\* turn but the last moves the offset, so as many turns as bytes are enough.
ScanTurn(f, s) ==
    LET read == ReadSucceeds(f, s.offset)
    IN  IF s.offset >= f.size THEN s
        ELSE [offset |-> IF read THEN NextOffset(f, s.offset) ELSE s.offset,
              lsn |-> IF read THEN Decoded(f, s.offset).lsn ELSE s.lsn,
              short |-> s.short \/ ShortRead(f, s.offset)]

Scan(f) ==
    LET after[k \in 0 .. f.size] ==
            IF k = 0 THEN [offset |-> HeaderSize, lsn |-> 0, short |-> FALSE]
            ELSE ScanTurn(f, after[k - 1])
    IN  after[f.size]

-----------------------------------------------------------------------------
(***************************************************************************)
(* The life of a log in one process.                                       *)
(***************************************************************************)
NewWriter == [used |-> 0, buffer |-> {}, nextLsn |-> 1, currentLsn |-> 0,
              lastFlushedLsn |-> 0]

Rewound == [offset |-> HeaderSize, lastLsn |-> 0, endOfLog |-> FALSE]

Init == /\ file = EmptyFile
        /\ handle = "closed"
        /\ bad = FALSE
        /\ appendOffset = HeaderSize
        /\ writer = NewWriter
        /\ reader = Rewound
        /\ start = HeaderSize
        /\ accepted = {}

WithHeader(f) == [f EXCEPT !.size = Larger(f.size, HeaderSize)]

\* Mutant of FirstOffset: a log is always begun at the header.
FirstOffsetAtHeader(create) == HeaderSize

\* Where a log that was just opened is appended to.  create() does not look
\* at what the file holds.
FirstOffset(create) ==
    IF create \/ file.size < HeaderSize THEN HeaderSize ELSE file.size

\* LogWriter::restoreFromFile, which only believes a valid LSN.
Restored(f) ==
    IF Scan(f).lsn = 0 THEN writer
    ELSE [writer EXCEPT !.currentLsn = Scan(f).lsn, !.nextLsn = Scan(f).lsn + 1,
                        !.lastFlushedLsn = Scan(f).lsn]

Initialize(create) ==
    /\ handle = "closed"
    /\ handle' = "ready"
    /\ file' = WithHeader(file)
    /\ appendOffset' = FirstOffset(create)
    /\ IF create \/ file'.size <= HeaderSize
       THEN bad' = FALSE /\ UNCHANGED writer
       ELSE bad' = Scan(file').short /\ writer' = Restored(file')
    /\ reader' = Rewound
    /\ start' = IF create THEN HeaderSize ELSE file'.size
    /\ accepted' = {}

\* The header cannot be written or read: the file stays open, and the next
\* initialize refuses to open it again.
InitializeFails ==
    /\ handle = "closed"
    /\ handle' = "open"
    /\ bad' = TRUE
    /\ UNCHANGED <<file, appendOffset, writer, reader, start, accepted>>

\* Mutant of AfterAppend: the next LSN is not advanced.
AfterAppendSameLsn(w, size, ok) ==
    IF ok
    THEN [w EXCEPT !.used = @ + PrefixSize + size,
                   !.buffer = @ \cup {[at |-> w.used, size |-> size, lsn |-> w.nextLsn]},
                   !.currentLsn = w.nextLsn]
    ELSE w

\* The LSN is taken before the record is validated and buffered, and is not
\* given back.
AfterAppend(w, size, ok) ==
    [w EXCEPT !.currentLsn = w.nextLsn,
              !.nextLsn = @ + 1,
              !.used = IF ok THEN @ + PrefixSize + size ELSE @,
              !.buffer = IF ok
                         THEN @ \cup {[at |-> w.used, size |-> size, lsn |-> w.nextLsn]}
                         ELSE @]

\* writeRecordToBuffer: the buffer has room for the record and its size.
Fits(size) == writer.used + PrefixSize + size <= BufferCapacity

\* appendRecord of a record with a body of this size; appendBatch is a run of
\* these that stops at the first failure.
Append(size, valid) ==
    LET ok == valid /\ Fits(size)
    IN  /\ Ready
        /\ writer.nextLsn <= MaxLsn
        /\ RoundUp(appendOffset + writer.used + PrefixSize + size) <= MaxFileSize
        /\ writer' = AfterAppend(writer, size, ok)
        /\ accepted' = IF ok THEN accepted \cup {writer.nextLsn} ELSE accepted
        /\ UNCHANGED <<file, handle, bad, appendOffset, reader, start>>

\* The writer after a flush that succeeds.
Drained(w) == [w EXCEPT !.used = 0, !.buffer = {}, !.lastFlushedLsn = w.currentLsn]

\* flush() moves the buffer to the file, unless the stream has failed.
BufferToFile ==
    /\ Ready /\ ~ bad
    /\ file' = Written(file, appendOffset, writer.buffer,
                       Padded(appendOffset, writer.used))
    /\ writer' = Drained(writer)

\* Mutant of Flush: the append offset stays where it is.
FlushKeepsOffset ==
    BufferToFile /\ UNCHANGED <<handle, bad, appendOffset, reader, start, accepted>>

Flush ==
    /\ BufferToFile
    /\ appendOffset' = appendOffset + Padded(appendOffset, writer.used)
    /\ UNCHANGED <<handle, bad, reader, start, accepted>>

\* flush() meets an I/O error after count bytes: in append, which leaves the
\* buffer as it was (and has moved the offset if it is the padding that fails),
\* or in the stream's flush, when the buffer is cleared.
FlushFails(count, cleared) ==
    /\ Ready /\ ~ bad
    /\ count \in 0 .. Padded(appendOffset, writer.used)
    /\ file' = Written(file, appendOffset, writer.buffer, count)
    /\ bad' = TRUE
    /\ writer' = IF cleared THEN [writer EXCEPT !.used = 0, !.buffer = {}] ELSE writer
    /\ appendOffset' = appendOffset +
          (IF cleared THEN Padded(appendOffset, writer.used)
           ELSE IF count >= writer.used THEN writer.used ELSE 0)
    /\ UNCHANGED <<handle, reader, start, accepted>>

\* LogFile::close.
CloseFile == handle' = "closed" /\ appendOffset' = HeaderSize

\* shutdown() flushes and, if that succeeds, closes the file.  The writer
\* keeps its LSNs for the next log the process opens.
Shutdown ==
    /\ BufferToFile
    /\ CloseFile
    /\ start' = HeaderSize
    /\ accepted' = {}
    /\ UNCHANGED <<bad, reader>>

\* The reader after readNext(), and whether that read past the end.
ReadOnce(rd) ==
    LET r == Decoded(file, rd.offset)
    IN  IF rd.endOfLog \/ rd.offset >= file.size \/ bad \/ ~ ReadSucceeds(file, rd.offset)
        THEN [rd EXCEPT !.endOfLog = TRUE]
        ELSE IF Validates(r, rd.lastLsn)
        THEN [rd EXCEPT !.offset = NextOffset(file, rd.offset), !.lastLsn = r.lsn]
        ELSE rd

ReadsShort(rd) == ~ rd.endOfLog /\ rd.offset < file.size /\ ShortRead(file, rd.offset)

ReadNext ==
    /\ Ready
    /\ bad' = (bad \/ ReadsShort(reader))
    /\ reader' = ReadOnce(reader)
    /\ UNCHANGED <<file, handle, appendOffset, writer, start, accepted>>

Rewind ==
    /\ Ready
    /\ reader' = Rewound
    /\ UNCHANGED <<file, handle, bad, appendOffset, writer, start, accepted>>

\* seekLsn() of an LSN.  It reads on only behind a record that validates, and
\* no record does, so it ends with the first one.
SeekReader ==
    /\ Ready
    /\ bad' = (bad \/ ReadsShort(Rewound))
    /\ reader' = ReadOnce(Rewound)
    /\ UNCHANGED <<file, handle, appendOffset, writer, start, accepted>>

\* validate()'s loop: what it makes of a file, and whether it read past the end.
CheckTurn(f, s) ==
    LET r    == Decoded(f, s.offset)
        good == ReadSucceeds(f, s.offset) /\ Validates(r, s.previous)
    IN  IF ~ s.ok \/ s.offset >= f.size THEN s
        ELSE [offset |-> IF good THEN NextOffset(f, s.offset) ELSE s.offset,
              previous |-> IF good THEN r.lsn ELSE s.previous,
              ok |-> good,
              short |-> s.short \/ ShortRead(f, s.offset)]

Checked(f) ==
    LET after[k \in 0 .. f.size] ==
            IF k = 0
            THEN [offset |-> HeaderSize, previous |-> 0, ok |-> TRUE, short |-> FALSE]
            ELSE CheckTurn(f, after[k - 1])
    IN  after[f.size]

\* validate() changes nothing but the stream.
Validate ==
    /\ Ready
    /\ bad' = (bad \/ Checked(file).short)
    /\ UNCHANGED <<file, handle, appendOffset, writer, reader, start, accepted>>

\* restoreWriterState(): the writer's LSNs from the file, again.  recover()
\* calls it before anything is appended.
RestoreWriterState ==
    /\ Ready /\ accepted = {}
    /\ IF bad THEN UNCHANGED <<bad, writer>>
       ELSE bad' = Scan(file).short /\ writer' = Restored(file)
    /\ UNCHANGED <<file, handle, appendOffset, reader, start, accepted>>

\* The process ends, by a crash or without a shutdown, and another begins:
\* only the file f is left.  Of the LSNs meant for its records the observer
\* keeps no more than that they were valid.
Exit(f) ==
    /\ file' = [f EXCEPT !.records = [p \in DOMAIN f.records |->
                                        [size |-> f.records[p].size, lsn |-> 1]]]
    /\ handle' = "closed"
    /\ bad' = FALSE
    /\ appendOffset' = HeaderSize
    /\ writer' = NewWriter
    /\ reader' = Rewound
    /\ start' = HeaderSize
    /\ accepted' = {}

\* The process dies between two calls, or in flush() after count bytes.
Crash == Exit(file)

CrashInFlush(count) ==
    /\ Ready /\ ~ bad
    /\ count \in 1 .. Padded(appendOffset, writer.used)
    /\ Exit(Written(file, appendOffset, writer.buffer, count))

Next ==
    \/ \E create \in BOOLEAN : Initialize(create)
    \/ InitializeFails
    \/ \E size \in BodySizes, valid \in BOOLEAN : Append(size, valid)
    \/ Flush
    \/ \E n \in 0 .. MaxFileSize, cleared \in BOOLEAN : FlushFails(n, cleared)
    \/ Shutdown
    \/ ReadNext
    \/ Rewind
    \/ SeekReader
    \/ Validate
    \/ RestoreWriterState
    \/ Crash
    \/ \E n \in 1 .. MaxFileSize : CrashInFlush(n)

Spec == Init /\ [][Next]_vars

-----------------------------------------------------------------------------
(***************************************************************************)
(* Properties.                                                             *)
(***************************************************************************)
\* The places of the records written since the log was opened.
Session == {p \in DOMAIN file.records : start <= p /\ p < appendOffset}

LsnsAt(P) == {file.records[p].lsn : p \in P}

BufferLsns == {e.lsn : e \in writer.buffer}

\* lastFlushedLsn() does not run ahead of the file: every accepted record up to
\* it is there in full length.
FlushedOnDisk ==
    \A n \in accepted : n <= writer.lastFlushedLsn =>
        \E p \in DOMAIN file.records :
            /\ start <= p
            /\ file.records[p].lsn = n
            /\ p + PrefixSize + file.records[p].size <= file.size

\* While the stream is sound, every record that append accepted is in the
\* buffer or in the file, in one of them, and nothing else is: a flush neither
\* drops nor repeats a record, whatever failed appends, reads and restores of
\* the writer came between.  What counts as flushed is in the file even when a
\* later flush failed half way.
NothingLost ==
    handle = "ready" =>
        /\ FlushedOnDisk
        /\ ~ bad => /\ accepted = BufferLsns \cup LsnsAt(Session)
                    /\ BufferLsns \cap LsnsAt(Session) = {}

\* LSNs are handed out in the order of the bytes: file first, then buffer,
\* whatever appends failed and however often the log was shut down and opened
\* again by the same process.
LsnsOrdered ==
    /\ ~ bad => /\ \A p, q \in Session : p < q => file.records[p].lsn < file.records[q].lsn
                /\ \A p \in Session, e \in writer.buffer : file.records[p].lsn < e.lsn
    /\ \A d, e \in writer.buffer : d.at < e.at => d.lsn < e.lsn
    /\ \A e \in writer.buffer : e.lsn < writer.nextLsn

\* What was in the file when the log was opened is not touched by what is
\* appended to it, torn or not.
HistoryKept ==
    [][\A p \in DOMAIN file.records :
           p < start => /\ p \in DOMAIN file'.records
                        /\ handle' = "ready" => file'.records[p] = file.records[p]]_vars

\* validate() refuses every log that holds any part of a record, a torn one or
\* one that shows through a record torn over it included: a log it accepts has
\* nothing to replay.
ValidateRefusesRecords == Checked(file).ok => DOMAIN file.records = {}

\* "uint32 size + serialized LogRecord + padding to 8-byte alignment"
\* (docs/write_ahead_log.md:34): every record begins at an aligned offset.
RecordsAligned == \A p \in DOMAIN file.records : p % Alignment = 0

\* "Append-only journal backed by DatabaseFile" (docs/write_ahead_log.md:20).
AppendOnly ==
    [][\A p \in DOMAIN file.records :
           /\ p \in DOMAIN file'.records
           /\ handle' = "ready" => file'.records[p] = file.records[p]]_vars

\* "Restore writer LSN state from the on-disk log" (docs/recovery.md:21): the
\* next LSN is behind those in the file.
LsnsRestored ==
    handle = "ready" /\ ~ bad /\ start > HeaderSize =>
        \A p \in DOMAIN file.records :
            p + PrefixSize + file.records[p].size <= file.size =>
                file.records[p].lsn < writer.nextLsn

\* A record that was flushed is read back (tests/TestWal.cpp:401, "REQUIRE(
\* reader.readNext(record).ok())").
ReadsBack ==
    /\ Ready /\ ~ bad /\ start = HeaderSize
    /\ DOMAIN file.records # {} /\ writer.lastFlushedLsn > 0
    => Validates(Decoded(file, HeaderSize), 0)
=============================================================================
