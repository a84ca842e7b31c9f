----------------------------- MODULE ProtoCodec -----------------------------
(***************************************************************************)
(* The protobuf codec that gogoproto generates into pkg/ibc/*/*.pb.go, and *)
(* the one of contracts/core/types that the contracts use for the same     *)
(* messages.  A message is described by the sequence of its fields; the    *)
(* modules ChannelPB, ConnectionPB, IBFT2PB, MockClientPB and AppPB do so  *)
(* for every message.  Values are records, byte strings are sequences of   *)
(* 0..255, an optional message is a sequence of at most one.               *)
(*                                                                         *)
(* Widths are scaled: WordBits stands for the 64 bits of uint64 and int    *)
(* and EnumBits for the 32 bits of an enumeration.  As with 64 and 7, the  *)
(* last group of the longest varint holds one bit.  Lengths and field      *)
(* numbers are truncated to a word and to EnumBits as in Go.               *)
(***************************************************************************)
EXTENDS Integers, Sequences, SequencesExt, FiniteSetsExt

CONSTANTS WordBits, EnumBits

ASSUME WidthAssumption == /\ EnumBits \in 4..15 /\ WordBits \in EnumBits + 1 .. 15
                          /\ WordBits % 7 = 1

Word == 0 .. 2^WordBits - 1
Signed(x, bits) == LET y == x % 2^bits IN IF y >= 2^(bits - 1) THEN y - 2^bits ELSE y
MaxGroups == (WordBits + 6) \div 7

(* Fields of messages. *)
Uint64(num, name) == [num |-> num, name |-> name, kind |-> "uint64", of |-> <<>>]
Enum(num, name, values) == [num |-> num, name |-> name, kind |-> "enum", of |-> values]
Bytes(num, name) == [num |-> num, name |-> name, kind |-> "bytes", of |-> <<>>]
RepeatedBytes(num, name) == [num |-> num, name |-> name, kind |-> "repeatedBytes", of |-> <<>>]
Message(num, name, of) == [num |-> num, name |-> name, kind |-> "message", of |-> of]
Pointer(num, name, of) == [num |-> num, name |-> name, kind |-> "pointer", of |-> of]
Repeated(num, name, of) == [num |-> num, name |-> name, kind |-> "repeated", of |-> of]

WireType(f) == IF f.kind \in {"uint64", "enum"} THEN 0 ELSE 2
Names(fields) == {fields[k].name : k \in DOMAIN fields}
FieldNamed(fields, name) == CHOOSE f \in Range(fields) : f.name = name

RECURSIVE Empty(_)
Empty(fields) ==
    [name \in Names(fields) |->
       LET f == FieldNamed(fields, name) IN
       CASE f.kind \in {"uint64", "enum"} -> 0
         [] f.kind = "message" -> Empty(f.of)
         [] OTHER -> <<>>]

(***************************************************************************)
(* Encoding in Go.  Marshal allocates Size() bytes and fills them from the *)
(* end, so that it panics when Size is too small and returns a wrong       *)
(* prefix when Size is too large.                                          *)
(***************************************************************************)
Len64(x) == CHOOSE n \in 0..WordBits : x < 2^n /\ \A k \in 0 .. n - 1 : x >= 2^k

sov(x) == (Len64(IF x = 0 THEN 1 ELSE x) + 6) \div 7

encodeVarint(x) ==
    [k \in 1..sov(x) |-> (IF k = sov(x) THEN 0 ELSE 128)
                         + ((x \div 2^(7 * (k - 1))) % 128)]

Tag(f) == f.num * 8 + WireType(f)
Delimited(f, bytes) == <<Tag(f)>> \o encodeVarint(Len(bytes)) \o bytes

\* Faulty variant: lengths take one byte.
SizeDelimitedShort(l) == 2 + l

SizeDelimited(l) == 1 + l + sov(l)

RECURSIVE Size(_, _)
SizeField(f, v) ==
    CASE f.kind \in {"uint64", "enum"} -> IF v = 0 THEN 0 ELSE 1 + sov(v % 2^WordBits)
      [] f.kind = "bytes" -> IF v = <<>> THEN 0 ELSE SizeDelimited(Len(v))
      [] f.kind = "message" -> SizeDelimited(Size(f.of, v))
      [] f.kind = "repeatedBytes" ->
           FoldLeft(LAMBDA n, e : n + SizeDelimited(Len(e)), 0, v)
      [] OTHER -> FoldLeft(LAMBDA n, e : n + SizeDelimited(Size(f.of, e)), 0, v)
Size(fields, m) ==
    FoldLeft(LAMBDA n, f : n + SizeField(f, m[f.name]), 0, fields)

\* The bytes written for a field and for a message.  An enumeration is
\* sign-extended to 64 bits.
RECURSIVE MarshalToSizedBuffer(_, _)

\* Faulty variant: an embedded message without fields is left out.
MarshalNonEmptyMessage(f, m) ==
    IF Size(f.of, m) = 0 THEN <<>> ELSE Delimited(f, MarshalToSizedBuffer(f.of, m))

MarshalMessage(f, m) == Delimited(f, MarshalToSizedBuffer(f.of, m))

MarshalField(f, v) ==
    CASE f.kind \in {"uint64", "enum"} ->
           IF v = 0 THEN <<>> ELSE <<Tag(f)>> \o encodeVarint(v % 2^WordBits)
      [] f.kind = "bytes" -> IF v = <<>> THEN <<>> ELSE Delimited(f, v)
      [] f.kind = "message" -> MarshalMessage(f, v)
      [] f.kind = "repeatedBytes" -> FoldLeft(LAMBDA bs, e : bs \o Delimited(f, e), <<>>, v)
      [] OTHER -> FoldLeft(LAMBDA bs, e : bs \o MarshalMessage(f, e), <<>>, v)

MarshalToSizedBuffer(fields, m) ==
    FoldLeft(LAMBDA bs, f : bs \o MarshalField(f, m[f.name]), <<>>, fields)

Panic == <<-1>>
Marshal(fields, m, size) ==
    LET bytes == MarshalToSizedBuffer(fields, m)
    IN  IF size < Len(bytes) THEN Panic
        ELSE SubSeq([k \in 1 .. size - Len(bytes) |-> 0] \o bytes, 1, Len(bytes))

(***************************************************************************)
(* Decoding in Go.  Indices count from 0 as in the code.  A varint is read *)
(* as its value modulo the word and the index behind it.                   *)
(***************************************************************************)
Fail(err) == [err |-> err, value |-> 0, next |-> 0]

GroupsUpTo(dAtA, iNdEx, last) ==
    [err |-> "none", next |-> last + 1,
     value |-> MapThenSumSet(LAMBDA k : (dAtA[k + 1] % 128) * 2^(7 * (k - iNdEx)),
                             iNdEx .. last) % 2^WordBits]

decodeVarint(dAtA, iNdEx) ==
    LET ends == {k \in iNdEx .. iNdEx + MaxGroups - 1 : k < Len(dAtA) /\ dAtA[k + 1] < 128}
    IN  IF ends = {}
        THEN Fail(IF iNdEx + MaxGroups <= Len(dAtA) THEN "IntOverflow" ELSE "UnexpectedEOF")
        ELSE GroupsUpTo(dAtA, iNdEx, Min(ends))

\* Faulty variant: a negative length is not refused.
postIndexUnchecked(dAtA, iNdEx, length) ==
    LET post == Signed(iNdEx + Signed(length, WordBits), WordBits)
    IN  IF post > Len(dAtA) THEN Fail("UnexpectedEOF")
        ELSE [err |-> "none", value |-> 0, next |-> post]

\* The index behind a field of the given length that starts at iNdEx.
postIndex(dAtA, iNdEx, length) ==
    LET post == Signed(iNdEx + Signed(length, WordBits), WordBits)
    IN  IF Signed(length, WordBits) < 0 \/ post < 0 THEN Fail("InvalidLength")
        ELSE IF post > Len(dAtA) THEN Fail("UnexpectedEOF")
        ELSE [err |-> "none", value |-> 0, next |-> post]

\* skipChannel and its copies: the index behind the field, which may be a
\* group, whose key is at iNdEx.  The index may lie behind the end.
RECURSIVE skip(_, _, _)
SkipTo(dAtA, next, depth) ==
    IF next < 0 THEN Fail("InvalidLength")
    ELSE IF depth = 0 THEN [err |-> "none", value |-> 0, next |-> next]
    ELSE skip(dAtA, next, depth)

SkipLength(dAtA, next, length, depth) ==
    IF length < 0 THEN Fail("InvalidLength")
    ELSE SkipTo(dAtA, Signed(next + length, WordBits), depth)

SkipNumber(dAtA, wireType, number, depth) ==
    IF number.err # "none" THEN number
    ELSE IF wireType = 0 THEN SkipTo(dAtA, number.next, depth)
    ELSE SkipLength(dAtA, number.next, Signed(number.value, WordBits), depth)

SkipKey(dAtA, key, depth) ==
    CASE key.err # "none" -> key
      [] key.err = "none" /\ key.value % 8 \in {0, 2} ->
           SkipNumber(dAtA, key.value % 8, decodeVarint(dAtA, key.next), depth)
      [] key.err = "none" /\ key.value % 8 = 1 -> SkipTo(dAtA, key.next + 8, depth)
      [] key.err = "none" /\ key.value % 8 = 3 -> SkipTo(dAtA, key.next, depth + 1)
      [] key.err = "none" /\ key.value % 8 = 4 ->
           IF depth = 0 THEN Fail("EndOfGroup") ELSE SkipTo(dAtA, key.next, depth - 1)
      [] key.err = "none" /\ key.value % 8 = 5 -> SkipTo(dAtA, key.next + 4, depth)
      [] OTHER -> Fail("IllegalWireType")

skip(dAtA, iNdEx, depth) ==
    IF iNdEx >= Len(dAtA) THEN Fail("UnexpectedEOF")
    ELSE SkipKey(dAtA, decodeVarint(dAtA, iNdEx), depth)

(***************************************************************************)
(* The decoder of one message: err is "none" inside the loop of Unmarshal  *)
(* and "ok" after it.  One turn of the loop reads a key, then the number   *)
(* or the length behind it, then the content.                              *)
(***************************************************************************)
Decoder(fields, dAtA) == [dAtA |-> dAtA, iNdEx |-> 0, m |-> Empty(fields), err |-> "none"]

Stop(s, err) == [s EXCEPT !.err = err]
Assign(s, f, v, next) == [s EXCEPT !.m[f.name] = v, !.iNdEx = next]

\* The default case: skip from the key of the unknown field.
SkipInto(s, post) ==
    IF post.err # "none" THEN Stop(s, post.err) ELSE [s EXCEPT !.iNdEx = post.next]
skipField(s, skippy) ==
    SkipInto(s, IF skippy.err # "none" THEN skippy
                ELSE postIndex(s.dAtA, s.iNdEx, skippy.next))

\* An embedded message is read into what there is of it, and an element of a
\* list into a new one.
EmbeddedBefore(f, old) ==
    CASE f.kind = "message" -> old
      [] f.kind = "pointer" /\ old # <<>> -> old[1]
      [] OTHER -> Empty(f.of)
EmbeddedAfter(f, old, m) ==
    CASE f.kind = "message" -> m
      [] f.kind = "pointer" -> <<m>>
      [] f.kind = "repeated" -> Append(old, m)

UnmarshalEmbedded(s, f, embedded, next) ==
    IF embedded.err # "ok" THEN Stop(s, embedded.err)
    ELSE Assign(s, f, EmbeddedAfter(f, s.m[f.name], embedded.m), next)

RECURSIVE UnmarshalInto(_, _)
UnmarshalContent(s, f, content, next) ==
    CASE f.kind = "bytes" -> Assign(s, f, content, next)
      [] f.kind = "repeatedBytes" -> Assign(s, f, Append(s.m[f.name], content), next)
      [] OTHER ->
           UnmarshalEmbedded(s, f,
             UnmarshalInto(f.of, [Decoder(f.of, content) EXCEPT
                                    !.m = EmbeddedBefore(f, s.m[f.name])]), next)

UnmarshalDelimited(s, f, preIndex, post) ==
    IF post.err # "none" THEN Stop(s, post.err)
    ELSE UnmarshalContent(s, f, SubSeq(s.dAtA, preIndex + 1, post.next), post.next)

UnmarshalNumber(s, f, number) ==
    CASE number.err # "none" -> Stop(s, number.err)
      [] number.err = "none" /\ f.kind = "uint64" -> Assign(s, f, number.value, number.next)
      [] number.err = "none" /\ f.kind = "enum" ->
           Assign(s, f, Signed(number.value, EnumBits), number.next)
      [] OTHER -> UnmarshalDelimited(s, f, number.next,
                                     postIndex(s.dAtA, number.next, number.value))

UnmarshalKey(fields, s, wire, fieldNum) ==
    IF wire.err # "none" THEN Stop(s, wire.err)
    ELSE IF wire.value % 8 = 4 \/ fieldNum <= 0 THEN Stop(s, "IllegalTag")
    ELSE IF \A f \in Range(fields) : f.num # fieldNum
    THEN skipField(s, skip(SubSeq(s.dAtA, s.iNdEx + 1, Len(s.dAtA)), 0, 0))
    ELSE LET f == CHOOSE g \in Range(fields) : g.num = fieldNum IN
         IF wire.value % 8 # WireType(f) THEN Stop(s, "WrongWireType")
         ELSE UnmarshalNumber(s, f, decodeVarint(s.dAtA, wire.next))

UnmarshalField(fields, s) ==
    IF s.iNdEx >= Len(s.dAtA)
    THEN Stop(s, IF s.iNdEx > Len(s.dAtA) THEN "UnexpectedEOF" ELSE "ok")
    ELSE LET wire == decodeVarint(s.dAtA, s.iNdEx) IN
         UnmarshalKey(fields, s, wire, Signed(wire.value \div 8, EnumBits))

UnmarshalInto(fields, s) ==
    IF s.err # "none" THEN s ELSE UnmarshalInto(fields, UnmarshalField(fields, s))
Unmarshal(fields, dAtA) == UnmarshalInto(fields, Decoder(fields, dAtA))

(***************************************************************************)
(* The codec of the contracts (ProtoBufRuntime.sol and the generated       *)
(* libraries).  Offsets count from 0; a failed read reverts.  Every        *)
(* embedded message is present.  A number is read to 256 bits, here to     *)
(* four groups, and then cut to its type.                                  *)
(***************************************************************************)
RECURSIVE Normal(_, _)
Normal(fields, m) ==
    [name \in Names(fields) |->
       LET f == FieldNamed(fields, name) IN
       CASE f.kind = "message" -> Normal(f.of, m[name])
         [] f.kind = "pointer" ->
              <<Normal(f.of, IF m[name] = <<>> THEN Empty(f.of) ELSE m[name][1])>>
         [] f.kind = "repeated" -> [k \in DOMAIN m[name] |-> Normal(f.of, m[name][k])]
         [] OTHER -> m[name]]

RECURSIVE SolEncode(_, _)
SolEncode(fields, r) ==
    FoldLeft(LAMBDA bs, f : bs \o
      LET v == r[f.name]
          key == encodeVarint(f.num * 8 + WireType(f))
          Put(content) == key \o encodeVarint(Len(content)) \o content
      IN CASE f.kind \in {"uint64", "enum"} ->
                IF v = 0 THEN <<>> ELSE key \o encodeVarint(v % 2^WordBits)
           [] f.kind = "bytes" -> IF v = <<>> THEN <<>> ELSE Put(v)
           [] f.kind = "message" -> Put(SolEncode(f.of, v))
           [] f.kind = "pointer" -> Put(SolEncode(f.of, v[1]))
           [] f.kind = "repeatedBytes" -> FlattenSeq([k \in DOMAIN v |-> Put(v[k])])
           [] f.kind = "repeated" -> FlattenSeq([k \in DOMAIN v |-> Put(SolEncode(f.of, v[k]))]),
      <<>>, fields)

MaxSolGroups == 4
SolGroupsUpTo(bs, p, last) ==
    [err |-> "none", next |-> last + 1,
     value |-> MapThenSumSet(LAMBDA k : (bs[k + 1] % 128) * 2^(7 * (k - p)),
                             {k \in p..last : k - p < MaxSolGroups})]

SolVarint(bs, p) ==
    LET ends == {k \in p .. Len(bs) - 1 : bs[k + 1] < 128}
    IN  IF ends = {} THEN Fail("revert") ELSE SolGroupsUpTo(bs, p, Min(ends))

SolContentOf(bs, len) ==
    IF len.err = "none" /\ len.next + len.value <= Len(bs)
    THEN [err |-> "none", value |-> len.value, next |-> len.next + len.value]
    ELSE Fail("revert")

SolLendelim(bs, p) == SolContentOf(bs, SolVarint(bs, p))

\* Faulty variant: fields of fixed width are not skipped.
SolSkipVariable(bs, p, wireType) ==
    CASE wireType = 0 -> SolVarint(bs, p)
      [] wireType = 2 -> SolLendelim(bs, p)
      [] OTHER -> [Fail("none") EXCEPT !.next = p]

\* An unknown field: only these wire types are skipped; for the others the
\* decoder goes on behind the key.
SolSkip(bs, p, wireType) ==
    CASE wireType = 0 -> SolVarint(bs, p)
      [] wireType = 1 -> IF p + 8 <= Len(bs) THEN [Fail("none") EXCEPT !.next = p + 8]
                         ELSE Fail("revert")
      [] wireType = 2 -> SolLendelim(bs, p)
      [] wireType = 5 -> IF p + 4 <= Len(bs) THEN [Fail("none") EXCEPT !.next = p + 4]
                         ELSE Fail("revert")
      [] OTHER -> [Fail("none") EXCEPT !.next = p]

\* Two passes over the fields in the code, of which the first counts the
\* repeated ones.  The wire type of a known field is not looked at.
RECURSIVE SolDecode(_, _, _)
SolBytes(s, f, content) ==
    IF content.err # "none" THEN Stop(s, "revert")
    ELSE LET v == SubSeq(s.dAtA, content.next - content.value + 1, content.next)
         IN  Assign(s, f, IF f.kind = "bytes" THEN v ELSE Append(s.m[f.name], v),
                    content.next)

SolEmbedded(s, f, first, end) ==
    UnmarshalEmbedded(s, f,
      SolDecode(f.of, [s EXCEPT !.iNdEx = first, !.m = Normal(f.of, Empty(f.of))], end), end)

SolEnum(s, f, value, next) ==
    IF value \in 0 .. f.of - 1 THEN Assign(s, f, value, next) ELSE Stop(s, "revert")

SolNumber(s, f, number) ==
    IF number.err # "none" THEN Stop(s, "revert")
    ELSE CASE f.kind = "uint64" -> Assign(s, f, number.value % 2^WordBits, number.next)
           [] f.kind = "enum" -> SolEnum(s, f, Signed(number.value, WordBits), number.next)
           [] OTHER -> SolEmbedded(s, f, number.next, number.next + number.value)

SolKey(fields, s, key) ==
    IF key.err # "none" \/ key.value % 8 > 5 THEN Stop(s, "revert")
    ELSE IF \A f \in Range(fields) : f.num # key.value \div 8
    THEN SkipInto(s, SolSkip(s.dAtA, key.next, key.value % 8))
    ELSE LET f == CHOOSE g \in Range(fields) : g.num = key.value \div 8 IN
         IF f.kind \in {"bytes", "repeatedBytes"}
         THEN SolBytes(s, f, SolLendelim(s.dAtA, key.next))
         ELSE SolNumber(s, f, SolVarint(s.dAtA, key.next))

SolDecode(fields, s, end) ==
    IF s.err # "none" THEN s
    ELSE IF s.iNdEx >= end THEN Stop(s, "ok")
    ELSE SolDecode(fields, SolKey(fields, s, SolVarint(s.dAtA, s.iNdEx)), end)

decode(fields, bs) ==
    SolDecode(fields, [Decoder(fields, bs) EXCEPT !.m = Normal(fields, Empty(fields))], Len(bs))
=============================================================================
