------------------------------- MODULE Codec -------------------------------
(***************************************************************************)
(* Buffer, BufferView, BinaryWriter and BinaryReader: one buffer, written  *)
(* through one writer and its owner's own calls, then read through a reader*)
(* over a view of it.  A view points into the buffer's memory, so a reader *)
(* lives until the buffer is next written, as it does everywhere in src/.  *)
(*                                                                         *)
(* BinaryWriter::writeBytes copies to data() + offset_ and then, when the  *)
(* copy went past size(), calls resize(), which sets every byte it adds to *)
(* zero.  What was copied inside the old size stays; the rest is lost.     *)
(***************************************************************************)
EXTENDS VarInt

CONSTANTS WordBytes,     \* bytes of the 64-bit word of writeLE and writeBE: 8
          Inputs,        \* bound: the <<kind, value>> pairs that are written
          Steps,         \* bound: arguments of seek, skip, align, resize
          MaxSize        \* bound: bytes of the buffer

ASSUME CodecAssumption ==
    WordBytes \in Nat \ {0} /\ MaxSize \in Nat /\ Steps \subseteq Nat

NoReader == [first |-> 0, size |-> 0, offset |-> -1]
NoField == [kind |-> "none", value |-> 0, at |-> 0, end |-> 0, inside |-> FALSE]

VARIABLES buf,       \* Buffer's bytes
          woff,      \* BinaryWriter::offset_, or -1 while a reader is in use
          reader,    \* BinaryReader's view, as a part of buf, and offset_
          field      \* observer: a value that was written, until it is touched

vars == <<buf, woff, reader, field>>

-----------------------------------------------------------------------------
(***************************************************************************)
(* A value's bytes, and what is read from bytes, by kind.  writeBE swaps a *)
(* whole word and stores its first sizeof(T) bytes; readBE fills the first *)
(* sizeof(T) bytes of a word, swaps it and keeps its low sizeof(T) bytes.  *)
(***************************************************************************)
ByteBits == GroupBits + 1
Raw(v, width) == [i \in 1 .. width |-> (v \div Pow2[ByteBits * (i - 1)]) % Pow2[ByteBits]]
Number(bytes) == InBase(bytes, ByteBits)
Word(bytes) == bytes \o [i \in 1 .. WordBytes - Len(bytes) |-> 0]
Swapped(bytes) == [i \in 1 .. Len(bytes) |-> bytes[Len(bytes) + 1 - i]]

Encoded(kind, v) ==
    CASE kind = "u32"  -> EncodeU(v, Bits32).bytes
      [] kind = "u64"  -> EncodeU(v, Bits64).bytes
      [] kind = "s32"  -> EncodeS(v, Bits32).bytes
      [] kind = "s64"  -> EncodeS(v, Bits64).bytes
      [] kind = "byte" -> Raw(v, 1)
      [] kind = "le"   -> Raw(v, WordBytes)
      [] kind = "be"   -> Swapped(Word(Raw(v, WordBytes)))
      [] kind = "be1"  -> SubSeq(Swapped(Word(Raw(v, 1))), 1, 1)
      [] kind = "string" -> EncodeU(Len(v), Bits32).bytes \o v

ReadWord(bytes) == Number(SubSeq(Swapped(Word(bytes)), 1, Len(bytes)))

Fixed(in, width, bigEndian) ==
    IF Len(in) < width THEN [ok |-> FALSE, value |-> 0, used |-> 0]
    ELSE LET bytes == SubSeq(in, 1, width)
         IN  [ok |-> TRUE, used |-> width,
              value |-> IF bigEndian THEN ReadWord(bytes) ELSE Number(bytes)]

\* readVar* moves past the bytes of a good value only; the string's reader has
\* moved past its length when the characters turn out to be missing.
Decoded(kind, in) ==
    LET Var(d) == [d EXCEPT !.used = IF d.ok THEN @ ELSE 0]
        len == Var(DecodeU32(in))
    IN  CASE kind = "u32"  -> Var(DecodeU32(in))
          [] kind = "u64"  -> Var(DecodeU64(in))
          [] kind = "s32"  -> Var(DecodeS32(in))
          [] kind = "s64"  -> Var(DecodeS64(in))
          [] kind = "byte" -> Fixed(in, 1, FALSE)
          [] kind = "le"   -> Fixed(in, WordBytes, FALSE)
          [] kind = "be"   -> Fixed(in, WordBytes, TRUE)
          [] kind = "be1"  -> Fixed(in, 1, TRUE)
          [] kind = "string" ->
                IF len.ok /\ len.used + len.value <= Len(in)
                THEN [ok |-> TRUE, used |-> len.used + len.value,
                      value |-> SubSeq(in, len.used + 1, len.used + len.value)]
                ELSE [len EXCEPT !.ok = FALSE]

Kinds == {"u32", "u64", "s32", "s64", "byte", "le", "be", "be1", "string"}

\* The values of the C++ types.  A string's length is written as a uint32.
Values(kind) ==
    CASE kind = "u32" -> Unsigned(Bits32)
      [] kind = "u64" -> Unsigned(Bits64)
      [] kind = "s32" -> Signed(Bits32)
      [] kind = "s64" -> Signed(Bits64)
      [] kind \in {"byte", "be1"} -> Byte
      [] kind \in {"le", "be"} -> Unsigned(ByteBits * WordBytes)
      [] kind = "string" -> {s \in Seq(Byte) : Len(s) \in Unsigned(Bits32)}

ASSUME InputAssumption == \A in \in Inputs : in[1] \in Kinds /\ in[2] \in Values(in[1])

-----------------------------------------------------------------------------
\* vector::resize: the bytes that stay, and zeros behind them.
Resized(b, size) == [i \in 1 .. size |-> IF i <= Len(b) THEN b[i] ELSE 0]

\* Mutant of Overwritten: the copy starts one byte early.
OverwrittenEarly(b, at, bytes) ==
    [i \in DOMAIN b |-> IF i \in at .. at + Len(bytes) - 1 THEN bytes[i - at + 1] ELSE b[i]]

\* memcpy into the part of the memory that is below size().
Overwritten(b, at, bytes) ==
    [i \in DOMAIN b |-> IF i \in at + 1 .. at + Len(bytes) THEN bytes[i - at] ELSE b[i]]

\* The observer takes up the value that was written, or keeps an older one
\* that the write did not touch.
Observe(new) ==
    \/ field' = new
    \/ /\ field.kind # "none"
       /\ field.end <= new.at \/ new.end <= field.at
       /\ field' = field

-----------------------------------------------------------------------------
(***************************************************************************)
(* The writer.                                                             *)
(***************************************************************************)
Writing == woff >= 0

\* write, writeLE, writeBE, writeVar*, the string traits: all writeBytes.
Put(kind, v) ==
    LET bytes == Encoded(kind, v)
        end == woff + Len(bytes)
    IN  /\ Writing /\ end <= MaxSize
        /\ buf' = Resized(Overwritten(buf, woff, bytes), Max({Len(buf), end}))
        /\ woff' = end
        /\ Observe([kind |-> kind, value |-> v, at |-> woff, end |-> end,
                    inside |-> end <= Len(buf)])
        /\ UNCHANGED reader

SkipTo(end) ==
    /\ Writing /\ end <= MaxSize
    /\ buf' = Resized(buf, Max({Len(buf), end}))
    /\ woff' = end
    /\ UNCHANGED <<reader, field>>

Aligned(offset, a) == IF a = 0 THEN offset ELSE ((offset + a - 1) \div a) * a

WriterSkip(n) == SkipTo(woff + n)
WriterAlign(a) == SkipTo(Aligned(woff, a))

WriterSeek(position) ==
    /\ Writing /\ position <= Len(buf)
    /\ woff' = position
    /\ UNCHANGED <<buf, reader, field>>

\* overwriteAt leaves offset_ where it is.
OverwriteAt(position, kind, v) ==
    LET bytes == Encoded(kind, v)
        end == position + Len(bytes)
    IN  /\ Writing /\ end <= Len(buf)
        /\ buf' = Overwritten(buf, position, bytes)
        /\ Observe([kind |-> kind, value |-> v, at |-> position, end |-> end,
                    inside |-> TRUE])
        /\ UNCHANGED <<woff, reader>>

-----------------------------------------------------------------------------
(***************************************************************************)
(* The buffer's owner, beside the writer, whose offset_ does not follow.   *)
(***************************************************************************)
BufferAppend(kind, v) ==
    LET bytes == Encoded(kind, v)
        end == Len(buf) + Len(bytes)
    IN  /\ Writing /\ end <= MaxSize
        /\ buf' = buf \o bytes
        /\ Observe([kind |-> kind, value |-> v, at |-> Len(buf), end |-> end,
                    inside |-> TRUE])
        /\ UNCHANGED <<woff, reader>>

\* resize, and clear for 0; an observed value that is cut is forgotten.
Resize(size) ==
    /\ Writing /\ size <= MaxSize
    /\ buf' = Resized(buf, size)
    /\ field' = IF field.end <= size THEN field ELSE NoField
    /\ UNCHANGED <<woff, reader>>

\* BinaryWriter's constructor starts at the end of the buffer.
NewWriter ==
    /\ woff' = Len(buf)
    /\ reader' = NoReader
    /\ UNCHANGED <<buf, field>>

-----------------------------------------------------------------------------
(***************************************************************************)
(* The reader.                                                             *)
(***************************************************************************)
Reading == reader.offset >= 0
Rest == SubSeq(buf, reader.first + reader.offset + 1, reader.first + reader.size)

\* BufferView::subview: empty when it begins behind the end, cut at the end.
Subview(view, offset, count) ==
    IF offset > view.size THEN [first |-> 0, size |-> 0]
    ELSE [first |-> view.first + offset, size |-> Min({count, view.size - offset})]

StartAt(view) == [first |-> view.first, size |-> view.size, offset |-> 0]

NewReader(offset, count) ==
    /\ Writing
    /\ reader' = StartAt(Subview([first |-> 0, size |-> Len(buf)], offset, count))
    /\ woff' = -1
    /\ UNCHANGED <<buf, field>>

SubReader(count) ==
    /\ Reading
    /\ reader' = StartAt(Subview(reader, reader.offset, count))
    /\ UNCHANGED <<buf, woff, field>>

\* seek, skip, align: a position behind the view's end is refused.
MoveTo(position) ==
    /\ Reading /\ position <= reader.size
    /\ reader' = [reader EXCEPT !.offset = position]
    /\ UNCHANGED <<buf, woff, field>>

ReaderSeek(position) == MoveTo(position)
ReaderSkip(n) == MoveTo(reader.offset + n)
ReaderAlign(a) == MoveTo(Aligned(reader.offset, a))

Get(kind) ==
    /\ Reading
    /\ reader' = [reader EXCEPT !.offset = @ + Decoded(kind, Rest).used]
    /\ UNCHANGED <<buf, woff, field>>

-----------------------------------------------------------------------------
Init ==
    /\ buf = <<>> /\ woff = 0
    /\ reader = NoReader /\ field = NoField

Next ==
    \/ \E in \in Inputs :
          \/ Put(in[1], in[2])
          \/ BufferAppend(in[1], in[2])
          \/ \E p \in Steps : OverwriteAt(p, in[1], in[2])
    \/ \E n \in Steps :
          \/ WriterSkip(n) \/ WriterAlign(n) \/ WriterSeek(n)
          \/ Resize(n)
          \/ ReaderSkip(n) \/ ReaderAlign(n) \/ ReaderSeek(n) \/ SubReader(n)
          \/ \E m \in Steps : NewReader(n, m)
    \/ NewWriter
    \/ \E kind \in Kinds : Get(kind)

Spec == Init /\ [][Next]_vars

-----------------------------------------------------------------------------
(***************************************************************************)
(* Properties.                                                             *)
(***************************************************************************)
\* A value that lies wholly inside what was the buffer's size when it was
\* written -- a size prefix patched by overwriteAt, a value written after a
\* seek back, bytes the buffer itself appended -- is read back as it was
\* written, whatever else was written around it since.  Negative numbers and
\* big-endian values narrower than a word are left out: see WrittenReadsBack.
InsideReadsBack ==
    (field.inside /\ field.kind # "be1" /\ ~(field.kind \in {"s32", "s64"} /\ field.value < 0))
        => LET d == Decoded(field.kind, SubSeq(buf, field.at + 1, Len(buf)))
           IN  d.ok /\ d.value = field.value /\ d.used = field.end - field.at

\* decodeU32 accepts exactly the strings whose first terminator comes within
\* five bytes and whose value fits 32 bits, returns that value and consumes up
\* to the terminator, so that it never depends on what follows.
DecodeU32Exact ==
    Reading =>
      LET d == DecodeU32(Rest)
          fits == /\ Ends(Rest) # {} /\ Min(Ends(Rest)) <= MaxBytes(Bits32)
                  /\ Meaning(Rest) \in Unsigned(Bits32)
      IN  d.ok = fits /\ (fits => d.value = Meaning(Rest) /\ d.used = Min(Ends(Rest)))

\* Any value -- here, the one whose raw bytes the reader has left -- survives
\* encodeU64 and decodeU64, and encodeU32 and decodeU32 when it fits, whatever
\* bytes come after it, and takes the bytes that encodedSize announced; as a
\* non-negative signed value it survives encodeS64 and decodeS64 too.
VarIntRoundTrip ==
    (Reading /\ Number(Rest) \in Unsigned(Bits64)) =>
      LET v == Number(Rest)
          Survives(e, d, size) == e.ok /\ d.ok /\ d.value = v /\ d.used = size
          After(e) == e.bytes \o Rest
          u64 == EncodeU(v, Bits64)
          u32 == EncodeU(v, Bits32)
          s64 == EncodeS(v, Bits64)
      IN  /\ Survives(u64, DecodeU64(After(u64)), EncodedSizeImpl[v])
          /\ v \in Unsigned(Bits32) => Survives(u32, DecodeU32(After(u32)), EncodedSizeImpl[v])
          /\ v \in Signed(Bits64) => Survives(s64, DecodeS64(After(s64)), EncodedSizeS(v, Bits64))

\* What tests/TestBinaryReaderWriter.cpp expects of every value: it is read
\* back as it was written.  The code does not do this: what is written behind
\* the buffer's size is zeroed by the resize that follows, a negative number
\* is encoded with a shift that brings in zeros, and a narrow big-endian value
\* takes the wrong end of its word.
WrittenReadsBack ==
    field.kind # "none"
        => LET d == Decoded(field.kind, SubSeq(buf, field.at + 1, Len(buf)))
           IN  d.ok /\ d.value = field.value

\* What tests/TestVarInt.cpp:153 says: "Non-zero value in last byte causes
\* overflow".  decodeU64 drops the bits of a last byte that do not fit.
Overflow64Refused ==
    Reading => LET d == DecodeU64(Rest) IN d.ok => d.value = Meaning(Rest)
=============================================================================
