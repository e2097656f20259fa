------------------------------- MODULE Coding -------------------------------
(***************************************************************************)
(* The encodings that the messages of moq-transport are made of            *)
(* (moq-transport/src/coding): bytes are numbers below 256, a buffer is a  *)
(* sequence of them.  Encoding gives the bytes or an error; decoding at a  *)
(* position gives the value and the position after it, or an error, or     *)
(* More(n), n bytes short of what it wants to look at next.  What an       *)
(* encoder pushes always has room: it writes to a BytesMut or a Vec.       *)
(***************************************************************************)
EXTENDS Integers, Sequences, SequencesExt, TLC

CONSTANTS
    VarIntMax,      \* VarInt::MAX
    MaxFields,      \* TrackNamespace::MAX_FIELDS
    MaxValueSize,   \* TupleField::MAX_VALUE_SIZE
    MaxReason,      \* ReasonPhrase::MAX_LEN
    MaxUri,         \* SessionUri::MAX_LEN
    U16Max          \* u16::MAX: the longest value of an odd key, the longest message

\* A varint has at most 62 bits, a u16 at most 16; types and lengths are varints.
CodingAssumption ==
    /\ {VarIntMax, MaxFields, MaxValueSize, MaxReason, MaxUri, U16Max} \subseteq Nat
    /\ U16Max < 65536 /\ 65536 <= VarIntMax
    /\ (VarIntMax \div 1073741824) \div 1073741824 < 4
ASSUME CodingAssumption

U8 == 0..255
Bytes == Seq(U8)

\* Results.
Encoded(bytes) == [res |-> "ok", bytes |-> bytes]
Ok(value, at) == [res |-> "ok", value |-> value, at |-> at]
More(n) == [res |-> "more", need |-> n]
Failed(why) == [res |-> why]

\* The ? operator: go on with what was decoded, or return the error.
Then(r, Continue(_, _)) ==
    LET x == r IN IF x.res = "ok" THEN Continue(x.value, x.at) ELSE x
Map(r, F(_)) == Then(r, LAMBDA v, at : Ok(F(v), at))

Both(first, second) ==
    IF first.res # "ok" THEN first
    ELSE IF second.res # "ok" THEN second
    ELSE Encoded(first.bytes \o second.bytes)
All(parts) ==
    LET all[n \in 0..Len(parts)] == IF n = 0 THEN Encoded(<<>>) ELSE Both(all[n - 1], parts[n])
    IN  all[Len(parts)]

Remaining(b, at) == Len(b) - at
\* decode_remaining.
DecodeRemaining(b, at, n) ==
    IF Remaining(b, at) < n THEN More(n - Remaining(b, at))
    ELSE Ok(SubSeq(b, at + 1, at + n), at + n)

\* Words of two bytes, big-endian.
Word(x) == <<x \div 256, x % 256>>
WordAt(bytes, i) == 256 * bytes[i] + bytes[i + 1]

-----------------------------------------------------------------------------
(* Integers: u8, u16, bool, and every u64 and usize as a QUIC varint. *)

EncodeU8(x) == Encoded(<<x>>)
DecodeU8(b, at) == Map(DecodeRemaining(b, at, 1), LAMBDA bytes : bytes[1])

EncodeU16(x) == Encoded(Word(x))
DecodeU16(b, at) == Map(DecodeRemaining(b, at, 2), LAMBDA bytes : WordAt(bytes, 1))

EncodeBool(x) == Encoded(<<IF x THEN 1 ELSE 0>>)
DecodeBool(b, at) ==
    Then(DecodeU8(b, at),
         LAMBDA x, next : IF x < 2 THEN Ok(x = 1, next) ELSE Failed("InvalidValue"))

\* The two top bits of a varint are the logarithm of its length.
High(x) == x \div 65536
Low(x) == x % 65536
Join(high, low) == 65536 * high + low
EncodeVarInt(x) ==
    IF x > VarIntMax THEN Failed("BoundsExceeded")
    ELSE IF x < 64 THEN Encoded(<<x>>)
    ELSE IF x < 16384 THEN Encoded(Word(16384 + x))
    ELSE IF x < 1073741824 THEN Encoded(Word(32768 + High(x)) \o Word(Low(x)))
    ELSE Encoded(Word(49152 + High(High(High(x)))) \o Word(Low(High(High(x))))
                    \o Word(Low(High(x))) \o Word(Low(x)))

Rest(tag) == IF tag = 3 THEN 7 ELSE IF tag = 2 THEN 3 ELSE tag
BigEndian(bytes) ==
    IF Len(bytes) = 1 THEN bytes[1]
    ELSE IF Len(bytes) = 2 THEN WordAt(bytes, 1)
    ELSE IF Len(bytes) = 4 THEN Join(WordAt(bytes, 1), WordAt(bytes, 3))
    ELSE Join(Join(Join(WordAt(bytes, 1), WordAt(bytes, 3)), WordAt(bytes, 5)), WordAt(bytes, 7))

\* Variant for mutation: it asks for one byte more than it needs.
DecodeVarIntGreedy(b, at) ==
    Then(DecodeRemaining(b, at, 1),
         LAMBDA first, next :
            LET rest == Rest(first[1] \div 64)
            IN  IF Remaining(b, next) < rest THEN More(rest + 1 - Remaining(b, next))
                ELSE Ok(BigEndian(<<first[1] % 64>> \o SubSeq(b, next + 1, next + rest)),
                        next + rest))

DecodeVarInt(b, at) ==
    Then(DecodeRemaining(b, at, 1),
         LAMBDA first, next :
            Map(DecodeRemaining(b, next, Rest(first[1] \div 64)),
                LAMBDA rest : BigEndian(<<first[1] % 64>> \o rest)))

-----------------------------------------------------------------------------
(* Bytes with their length before them, up to a maximum. *)

EncodeBytes(bytes, max) ==
    IF Len(bytes) > max THEN Failed("FieldBoundsExceeded")
    ELSE Both(EncodeVarInt(Len(bytes)), Encoded(bytes))
DecodeBytes(b, at, max) ==
    Then(DecodeVarInt(b, at),
         LAMBDA size, next : IF size > max THEN Failed("FieldBoundsExceeded")
                             ELSE DecodeRemaining(b, next, size))

\* Strings are UTF-8: here, as in every name this models, one byte a character.
Utf8(r) == Then(r, LAMBDA bytes, at : IF \A i \in DOMAIN bytes : bytes[i] < 128
                                      THEN Ok(bytes, at) ELSE Failed("InvalidString"))

EncodeString(s) == EncodeBytes(s, VarIntMax)
DecodeString(b, at) == Utf8(DecodeBytes(b, at, VarIntMax))

EncodeReasonPhrase(s) == EncodeBytes(s, MaxReason)
DecodeReasonPhrase(b, at) == Utf8(DecodeBytes(b, at, MaxReason))

EncodeSessionUri(s) == EncodeBytes(s, MaxUri)
DecodeSessionUri(b, at) == Utf8(DecodeBytes(b, at, MaxUri))

EncodeTupleField(bytes) == EncodeBytes(bytes, MaxValueSize)
DecodeTupleField(b, at) == DecodeBytes(b, at, MaxValueSize)

-----------------------------------------------------------------------------
(* Locations, and pairs of a key and a value. *)

EncodeLocation(loc) == Both(EncodeVarInt(loc.group_id), EncodeVarInt(loc.object_id))
\* Variant for mutation: the object comes first.
DecodeLocationSwapped(b, at) ==
    Then(DecodeVarInt(b, at),
         LAMBDA object, next : Map(DecodeVarInt(b, next),
                    LAMBDA group : [group_id |-> group, object_id |-> object]))
DecodeLocation(b, at) ==
    Then(DecodeVarInt(b, at),
         LAMBDA group, next : Map(DecodeVarInt(b, next),
                    LAMBDA object : [group_id |-> group, object_id |-> object]))

\* An even key has an integer value, an odd one bytes.
IntValue(x) == [kind |-> "int", value |-> x]
BytesValue(bytes) == [kind |-> "bytes", value |-> bytes]
Pair(key, value) == [key |-> key, value |-> value]

EncodeKeyValuePair(kvp) ==
    IF ~(kvp.value.kind = "int" <=> kvp.key % 2 = 0) THEN Failed("InvalidValue")
    ELSE Both(EncodeVarInt(kvp.key),
              IF kvp.value.kind = "int" THEN EncodeVarInt(kvp.value.value)
              ELSE EncodeBytes(kvp.value.value, VarIntMax))
DecodeKeyValuePair(b, at) ==
    Then(DecodeVarInt(b, at), LAMBDA key, next :
        IF key % 2 = 0
        THEN Map(DecodeVarInt(b, next), LAMBDA x : Pair(key, IntValue(x)))
        ELSE Map(DecodeBytes(b, next, U16Max), LAMBDA x : Pair(key, BytesValue(x))))

-----------------------------------------------------------------------------
(* Sequences of such values. *)

\* A version of the protocol, of the list of those a client offers.  The code refuses a
\* varint of 2^32 or more; versions are encoded from a u32, so that none is sent.
EncodeVersion(v) == EncodeVarInt(v)
DecodeVersion(b, at) == DecodeVarInt(b, at)

EncodeEach(values, Encode(_)) == All([i \in DOMAIN values |-> Encode(values[i])])

DecodeElement(kind, b, at) ==
    CASE kind = "TupleField" -> DecodeTupleField(b, at)
      [] kind = "pair" -> DecodeKeyValuePair(b, at)
      [] kind = "version" -> DecodeVersion(b, at)
\* At most so many elements, and none from the position end on.
Nowhere == -1
DecodeEach(kind, b, at, most, end) ==
    LET decoded[n \in 0..most] ==
            IF n = 0 THEN Ok(<<>>, at)
            ELSE Then(decoded[n - 1], LAMBDA values, next :
                    IF next = end THEN Ok(values, next)
                    ELSE Map(DecodeElement(kind, b, next), LAMBDA v : Append(values, v)))
    IN  decoded[most]

\* With their count before them.
EncodeTrackNamespace(fields) ==
    IF Len(fields) > MaxFields THEN Failed("FieldBoundsExceeded")
    ELSE Both(EncodeVarInt(Len(fields)), EncodeEach(fields, EncodeTupleField))
\* Variant for mutation: the limit itself is refused.
DecodeTrackNamespaceStrict(b, at) ==
    Then(DecodeVarInt(b, at),
         LAMBDA count, next : IF count >= MaxFields THEN Failed("FieldBoundsExceeded")
                              ELSE DecodeEach("TupleField", b, next, count, Nowhere))
DecodeTrackNamespace(b, at) ==
    Then(DecodeVarInt(b, at),
         LAMBDA count, next : IF count > MaxFields THEN Failed("FieldBoundsExceeded")
                              ELSE DecodeEach("TupleField", b, next, count, Nowhere))

EncodeKeyValuePairs(kvps) ==
    Both(EncodeVarInt(Len(kvps)), EncodeEach(kvps, EncodeKeyValuePair))
DecodeKeyValuePairs(b, at) ==
    Then(DecodeVarInt(b, at),
         LAMBDA count, next : DecodeEach("pair", b, next, count, Nowhere))

EncodeVersions(vs) == Both(EncodeVarInt(Len(vs)), EncodeEach(vs, EncodeVersion))
DecodeVersions(b, at) ==
    Then(DecodeVarInt(b, at),
         LAMBDA count, next : DecodeEach("version", b, next, count, Nowhere))

\* KeyValuePairs::set and get, by the first pair with the key.
Find(kvps, key) == SelectInSeq(kvps, LAMBDA kvp : kvp.key = key)
Set(kvps, kvp) ==
    IF Find(kvps, kvp.key) = 0 THEN Append(kvps, kvp)
    ELSE [kvps EXCEPT ![Find(kvps, kvp.key)] = kvp]
=============================================================================
