------------------------------- MODULE VarInt -------------------------------
(***************************************************************************)
(* The variable-length integers of serialization/VariableLengthInteger.cpp:*)
(* a value is cut into groups of 7 bits, low group first, one group to a   *)
(* byte, the byte's top bit saying that another byte follows.  The 7 bits, *)
(* and the 32 and 64 of the C++ types, are constants, so that TLC can try  *)
(* every value and every string of bytes of a small width.                 *)
(***************************************************************************)
EXTENDS Integers, Sequences, FiniteSetsExt

CONSTANTS GroupBits,   \* payload bits of a byte: 7
          Bits32,      \* width of std::uint32_t: 32
          Bits64       \* width of std::uint64_t: 64

MaxBytes(bits) == (bits + GroupBits - 1) \div GroupBits

\* What the bytes of the longest uint32 carry fits the uint64 they are decoded
\* into: 5 * 7 bits are no more than 64.
ASSUME WidthAssumption ==
    /\ GroupBits \in Nat \ {0} /\ Bits32 \in Nat /\ Bits64 \in Nat
    /\ GroupBits < Bits32 /\ Bits32 < Bits64
    /\ GroupBits * MaxBytes(Bits32) <= Bits64

\* 1 << n.
Pow2[n \in Nat] == IF n = 0 THEN 1 ELSE 2 * Pow2[n - 1]

\* The number whose digits, of so many bits each, are given, lowest first.
InBase(digits, bits) ==
    MapThenSumSet(LAMBDA i : digits[i] * Pow2[bits * (i - 1)], DOMAIN digits)

Cont == Pow2[GroupBits]                  \* 0x80, the continuation bit
Byte == 0 .. 2 * Cont - 1
Payload(byte) == byte % Cont             \* byte & 0x7F
More(byte) == byte >= Cont               \* (byte & 0x80) != 0

Unsigned(bits) == 0 .. Pow2[bits] - 1
Signed(bits) == -Pow2[bits - 1] .. Pow2[bits - 1] - 1

-----------------------------------------------------------------------------
(***************************************************************************)
(* Encoding.  The do-while of encodeImpl emits the groups; a value with    *)
(* more of them than maxBytes, or than the caller's array has room for,    *)
(* writes nothing.                                                         *)
(***************************************************************************)
Groups[v \in Unsigned(Bits64)] ==
    IF v < Cont THEN <<v>> ELSE <<Cont + (v % Cont)>> \o Groups[v \div Cont]

\* Mutant of EncodeImpl: the longest encoding is refused.
EncodeImplTight(v, outSize, maxBytes) ==
    IF Len(Groups[v]) >= maxBytes \/ Len(Groups[v]) > outSize
    THEN [ok |-> FALSE, bytes |-> <<>>]
    ELSE [ok |-> TRUE, bytes |-> Groups[v]]

EncodeImpl(v, outSize, maxBytes) ==
    IF Len(Groups[v]) > maxBytes \/ Len(Groups[v]) > outSize
    THEN [ok |-> FALSE, bytes |-> <<>>]
    ELSE [ok |-> TRUE, bytes |-> Groups[v]]

EncodedSizeImpl[v \in Unsigned(Bits64)] ==
    IF v >= Cont THEN 1 + EncodedSizeImpl[v \div Cont] ELSE 1

EncodeU(v, bits) == EncodeImpl(v, MaxBytes(bits), MaxBytes(bits))

-----------------------------------------------------------------------------
(***************************************************************************)
(* Decoding.  A turn of decodeImpl's loop takes up byte i; its state is the*)
(* value so far, the bytes consumed, and how the loop stands.  What a shift*)
(* moves past bit 64 is gone; the check for it is made on a byte that has  *)
(* the continuation bit, never on the last one.                            *)
(***************************************************************************)
Shifted(byte, shift) == (Payload(byte) * Pow2[shift]) % Pow2[Bits64]

DecodeTurn(in, i, t) ==
    LET stands == IF ~More(in[i]) THEN "done"
                  ELSE IF GroupBits * i >= Bits64 /\ Payload(in[i]) # 0
                       THEN "overflow" ELSE "loop"
    IN  IF t.stands # "loop" THEN t
        ELSE IF i > Len(in) THEN [t EXCEPT !.stands = "end of input"]
        ELSE [stands |-> stands, used |-> i,
              value |-> t.value + Shifted(in[i], GroupBits * (i - 1))]

DecodeImpl(in, maxBytes) ==
    LET turn[i \in 0 .. maxBytes] ==
            IF i = 0 THEN [stands |-> "loop", used |-> 0, value |-> 0]
            ELSE DecodeTurn(in, i, turn[i - 1])
        end == turn[maxBytes]
    IN  [ok |-> end.stands = "done", value |-> end.value, used |-> end.used]

\* Mutant of DecodeU32: the value's range is not checked.
DecodeU32Unchecked(in) ==
    LET d == DecodeImpl(in, MaxBytes(Bits32)) IN [d EXCEPT !.value = @ % Pow2[Bits32]]

DecodeU32(in) ==
    LET d == DecodeImpl(in, MaxBytes(Bits32))
    IN  [d EXCEPT !.ok = @ /\ d.value \in Unsigned(Bits32)]

DecodeU64(in) == DecodeImpl(in, MaxBytes(Bits64))

-----------------------------------------------------------------------------
(***************************************************************************)
(* Signed values: the unsigned image doubled, xor its top bit.  The shift  *)
(* right is that of an unsigned value and brings in zeros, so the xor only *)
(* ever touches the lowest bit, which the doubling has left clear.         *)
(***************************************************************************)
ZigZag(v, bits) ==
    LET u == v % Pow2[bits] IN ((u * 2) % Pow2[bits]) + (u \div Pow2[bits - 1])

UnZigZag(z, bits) ==
    LET u == IF z % 2 = 1 THEN Pow2[bits] - 1 - (z \div 2) ELSE z \div 2
    IN  IF u >= Pow2[bits - 1] THEN u - Pow2[bits] ELSE u

EncodeS(v, bits) == EncodeU(ZigZag(v, bits), bits)

DecodeS32(in) ==
    LET d == DecodeU32(in) IN IF d.ok THEN [d EXCEPT !.value = UnZigZag(@, Bits32)] ELSE d
DecodeS64(in) ==
    LET d == DecodeU64(in) IN IF d.ok THEN [d EXCEPT !.value = UnZigZag(@, Bits64)] ELSE d

EncodedSizeS(v, bits) == EncodedSizeImpl[ZigZag(v, bits)]

-----------------------------------------------------------------------------
(***************************************************************************)
(* What a string of bytes means, without the loops: its bytes up to the    *)
(* first that has no continuation bit, read in base 2^GroupBits.           *)
(***************************************************************************)
Ends(in) == {i \in DOMAIN in : ~More(in[i])}
Meaning(in) == InBase([i \in 1 .. Min(Ends(in)) |-> Payload(in[i])], GroupBits)
=============================================================================
