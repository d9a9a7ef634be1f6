------------------------------ MODULE MsgpWire ------------------------------
(***************************************************************************)
(* The MessagePack wire as the msgp library (github.com/tinylib/msgp)     *)
(* reads and writes it for the generated code of                          *)
(* src/api/models/graphite_gen.go.  The library is not part of the        *)
(* repository; its readers and writers are modelled by what they do to a  *)
(* stream of MessagePack objects, and their byte lengths by the format's  *)
(* rules, so that the generated Msgsize bounds can be checked against the *)
(* bytes MarshalMsg really appends.                                       *)
(*                                                                         *)
(* An object on the wire is a token [k, v]: a map or array header with its *)
(* count, a string, a bool or an integer.  A map's entries and an array's *)
(* elements are the tokens that follow its header.                         *)
(***************************************************************************)
EXTENDS Integers, Sequences

Tok(k, v) == [k |-> k, v |-> v]

\* msgp.ArrayHeaderSize, MapHeaderSize, StringPrefixSize, IntSize,
\* Int64Size, BoolSize: the largest encoding of each
ArrayHeaderSize == 5
MapHeaderSize == 5
StringPrefixSize == 5
IntSize == 9
Int64Size == 9
BoolSize == 1

\* bytes of a header (fixmap/fixarray up to 15, then 16- and 32-bit counts)
HeaderBytes(n) == IF n <= 15 THEN 1 ELSE IF n <= 65535 THEN 3 ELSE 5

\* bytes of a string's prefix (fixstr up to 31, then str8, str16, str32)
StrPrefixBytes(n) ==
    IF n <= 31 THEN 1 ELSE IF n <= 255 THEN 2 ELSE IF n <= 65535 THEN 3 ELSE 5

\* bytes of AppendInt64: fixint, then the narrowest signed width (MinInt32
\* written as -2147483647 - 1, the literal being past TLC's integers)
IntBytes(i) ==
    IF i >= 0
    THEN IF i <= 127 THEN 1 ELSE IF i <= 32767 THEN 3
         ELSE IF i <= 2147483647 THEN 5 ELSE 9
    ELSE IF i >= -32 THEN 1 ELSE IF i >= -128 THEN 2
         ELSE IF i >= -32768 THEN 3 ELSE IF i >= -2147483647 - 1 THEN 5 ELSE 9

TokBytes(t) ==
    CASE t.k \in {"map", "arr"} -> HeaderBytes(t.v)
      [] t.k = "str"            -> StrPrefixBytes(Len(t.v)) + Len(t.v)
      [] t.k = "bool"           -> 1
      [] t.k = "int"            -> IntBytes(t.v)

RECURSIVE ByteLen(_)
ByteLen(s) == IF s = <<>> THEN 0 ELSE TokBytes(Head(s)) + ByteLen(Tail(s))

(***************************************************************************)
(* Reading.  A read returns [v, rest, err]: the value, the stream after   *)
(* it, and whether it failed (ErrShortBytes on an empty stream, a         *)
(* TypeError on an object of another kind).                               *)
(***************************************************************************)
Ok(v, rest) == [v |-> v, rest |-> rest, err |-> FALSE]
Fail(v, rest) == [v |-> v, rest |-> rest, err |-> TRUE]

\* ReadMapHeader, ReadArrayHeader, ReadString(Bytes), ReadMapKeyZC,
\* ReadBool, ReadInt, ReadInt64: one object of kind k
Read(s, k) ==
    IF s # <<>> /\ Head(s).k = k THEN Ok(Head(s).v, Tail(s)) ELSE Fail(k, s)

\* n objects of kind k, as a sequence: the loop over a slice that was
\* resliced or made to the header's length, each element overwritten
RECURSIVE ReadN(_, _, _)
ReadN(s, k, n) ==
    IF n = 0 THEN Ok(<<>>, s)
    ELSE LET r == Read(s, k)
             t == ReadN(r.rest, k, n - 1)
         IN  IF r.err THEN Fail(<<>>, s)
             ELSE IF t.err THEN t
             ELSE Ok(<<r.v>> \o t.v, t.rest)

\* msgp.Skip: drop n whole objects, a header counting the objects it heads
RECURSIVE SkipN(_, _)
SkipN(s, n) ==
    IF n = 0 THEN Ok(0, s)
    ELSE IF s = <<>> THEN Fail(0, s)
    ELSE SkipN(Tail(s), n - 1 + CASE Head(s).k = "map" -> 2 * Head(s).v
                                  [] Head(s).k = "arr" -> Head(s).v
                                  [] OTHER             -> 0)

Skip(s) == SkipN(s, 1)

=============================================================================
