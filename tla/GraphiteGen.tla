----------------------------- MODULE GraphiteGen -----------------------------
(***************************************************************************)
(* The msgp-generated codecs of src/api/models/graphite_gen.go, for       *)
(* GraphiteTagDelSeries, GraphiteTagDelSeriesResp, SeriesPickle and       *)
(* SeriesPickleItem: EncodeMsg / MarshalMsg, DecodeMsg / UnmarshalMsg and *)
(* Msgsize, over the token stream of MsgpWire.                            *)
(*                                                                         *)
(* The decoders run over a stream whatever its source; they decode into a *)
(* value the caller may be reusing, so the prior value of z is an input.  *)
(* A Go map is a TLA+ function, or Nil for the nil map.  A decode that    *)
(* fails returns err; the partly written z it leaves behind is not        *)
(* modelled, as no caller may use it.                                     *)
(***************************************************************************)
EXTENDS Integers, Sequences, SequencesExt, MsgpWire

CONSTANT Nil     \* the nil map

EmptyMap == [k \in {} |-> 0]

\* a field of z set from a read r, or the read's failure
Assign(z, fld, r) ==
    IF r.err THEN Fail(z, r.rest) ELSE Ok([z EXCEPT ![fld] = r.v], r.rest)

\* bug variant: the default case does not skip the unknown field's value
SkipFieldValueLeft(z, s) == Ok(z, s)

\* the default case: an unknown field's value is skipped
SkipField(z, s) == LET r == Skip(s) IN IF r.err THEN Fail(z, s) ELSE Ok(z, r.rest)

\* ReadArrayHeader, then the slice resliced or made to its length and
\* every element read
ReadArr(s, k) ==
    LET h == Read(s, "arr") IN IF h.err THEN h ELSE ReadN(h.rest, k, h.v)

-----------------------------------------------------------------------------
(* GraphiteTagDelSeries: [Paths |-> Seq(string), Propagate |-> BOOLEAN]    *)

DelSeriesField(z, key, s) ==
    CASE key = "Paths"     -> Assign(z, "Paths", ReadArr(s, "str"))
      [] key = "Propagate" -> Assign(z, "Propagate", Read(s, "bool"))
      [] OTHER             -> SkipField(z, s)

EncodeMsgGraphiteTagDelSeries(z) ==
    <<Tok("map", 2), Tok("str", "Paths"), Tok("arr", Len(z.Paths))>>
    \o [i \in DOMAIN z.Paths |-> Tok("str", z.Paths[i])]
    \o <<Tok("str", "Propagate"), Tok("bool", z.Propagate)>>

\* MarshalMsg appends to b what EncodeMsg writes
MarshalMsgGraphiteTagDelSeries(b, z) == b \o EncodeMsgGraphiteTagDelSeries(z)

\* bug variant: the "Propagate" key's 10 bytes left out of the estimate
MsgsizeDelSeriesNoPropagateKey(z) ==
    1 + 6 + ArrayHeaderSize
      + SumFunction([i \in DOMAIN z.Paths |-> StringPrefixSize + Len(z.Paths[i])])
      + BoolSize

MsgsizeGraphiteTagDelSeries(z) ==
    1 + 6 + ArrayHeaderSize
      + SumFunction([i \in DOMAIN z.Paths |-> StringPrefixSize + Len(z.Paths[i])])
      + 10 + BoolSize

-----------------------------------------------------------------------------
(* GraphiteTagDelSeriesResp: [Count |-> int, Peers |-> map string -> int]  *)

\* z.Peers[key] = value for each of n entries; a later duplicate key wins
RECURSIVE ReadPeers(_, _, _)
ReadPeers(m, s, n) ==
    IF n = 0 THEN Ok(m, s)
    ELSE LET k == Read(s, "str")
             v == Read(k.rest, "int")
         IN  IF k.err THEN Fail(m, s)
             ELSE IF v.err THEN Fail(m, k.rest)
             ELSE ReadPeers((k.v :> v.v) @@ m, v.rest, n - 1)

\* bug variant: a non-empty map being reused is not cleared first
PeersBeforeReadNoClear(p, n) == IF p = Nil /\ n > 0 THEN EmptyMap ELSE p

\* if z.Peers == nil && n > 0 { make } else if len(z.Peers) > 0 { delete all }
PeersBeforeRead(p, n) ==
    IF p = Nil /\ n > 0 THEN EmptyMap
    ELSE IF p # Nil /\ DOMAIN p # {} THEN EmptyMap
    ELSE p

DelSeriesRespField(z, key, s) ==
    CASE key = "Count" -> Assign(z, "Count", Read(s, "int"))
      [] key = "Peers" ->
            LET h == Read(s, "map")
            IN  IF h.err THEN Fail(z, s)
                ELSE Assign(z, "Peers",
                            ReadPeers(PeersBeforeRead(z.Peers, h.v), h.rest, h.v))
      [] OTHER         -> SkipField(z, s)

\* the peers in the order a range over the map visits them: any order
PeerOrders(p) == IF p = Nil THEN {<<>>} ELSE SetToSeqs(DOMAIN p)

EncodeMsgGraphiteTagDelSeriesResp(z) ==
    { <<Tok("map", 2), Tok("str", "Count"), Tok("int", z.Count),
        Tok("str", "Peers"), Tok("map", Len(o))>>
      \o FlattenSeq([i \in DOMAIN o |-> <<Tok("str", o[i]), Tok("int", z.Peers[o[i]])>>])
      : o \in PeerOrders(z.Peers) }

MarshalMsgGraphiteTagDelSeriesResp(b, z) ==
    { b \o e : e \in EncodeMsgGraphiteTagDelSeriesResp(z) }

MsgsizeGraphiteTagDelSeriesResp(z) ==
    1 + 6 + IntSize + 6 + MapHeaderSize
      + IF z.Peers = Nil THEN 0
        ELSE MapThenSumSet(LAMBDA k : StringPrefixSize + Len(k) + IntSize,
                           DOMAIN z.Peers)

-----------------------------------------------------------------------------
(* SeriesPickleItem: [Path |-> string, IsLeaf |-> BOOLEAN,                 *)
(*                    Intervals |-> Seq(Seq(int64))]                       *)

\* z.Intervals resliced or made to the outer length, each inner slice too
RECURSIVE ReadArrs(_, _)
ReadArrs(s, n) ==
    IF n = 0 THEN Ok(<<>>, s)
    ELSE LET r == ReadArr(s, "int")
             t == ReadArrs(r.rest, n - 1)
         IN  IF r.err THEN Fail(<<>>, r.rest)
             ELSE IF t.err THEN t
             ELSE Ok(<<r.v>> \o t.v, t.rest)

ReadIntervals(s) ==
    LET h == Read(s, "arr") IN IF h.err THEN h ELSE ReadArrs(h.rest, h.v)

ItemField(z, key, s) ==
    CASE key = "path"      -> Assign(z, "Path", Read(s, "str"))
      [] key = "isLeaf"    -> Assign(z, "IsLeaf", Read(s, "bool"))
      [] key = "intervals" -> Assign(z, "Intervals", ReadIntervals(s))
      [] OTHER             -> SkipField(z, s)

-----------------------------------------------------------------------------
(***************************************************************************)
(* The loop every struct decoder runs: ReadMapHeader, then for each entry  *)
(* ReadMapKey and the struct's switch on the field name.                   *)
(***************************************************************************)
StructField(struct, z, key, s) ==
    CASE struct = "GraphiteTagDelSeries"     -> DelSeriesField(z, key, s)
      [] struct = "GraphiteTagDelSeriesResp" -> DelSeriesRespField(z, key, s)
      [] struct = "SeriesPickleItem"         -> ItemField(z, key, s)

RECURSIVE DecodeFields(_, _, _, _)
DecodeFields(struct, z, n, s) ==
    IF n = 0 THEN Ok(z, s)
    ELSE LET key == Read(s, "str")
             f   == StructField(struct, z, key.v, key.rest)
         IN  IF key.err THEN Fail(z, s)
             ELSE IF f.err THEN f
             ELSE DecodeFields(struct, f.v, n - 1, f.rest)

DecodeStruct(struct, z, s) ==
    LET h == Read(s, "map")
    IN  IF h.err THEN Fail(z, s) ELSE DecodeFields(struct, z, h.v, h.rest)

UnmarshalMsgGraphiteTagDelSeries(z, bts) == DecodeStruct("GraphiteTagDelSeries", z, bts)

\* the Reader path reads the same objects in the same order
DecodeMsgGraphiteTagDelSeries(z, dc) == UnmarshalMsgGraphiteTagDelSeries(z, dc)

UnmarshalMsgGraphiteTagDelSeriesResp(z, bts) ==
    DecodeStruct("GraphiteTagDelSeriesResp", z, bts)

DecodeMsgGraphiteTagDelSeriesResp(z, dc) ==
    UnmarshalMsgGraphiteTagDelSeriesResp(z, dc)

UnmarshalMsgSeriesPickleItem(z, bts) == DecodeStruct("SeriesPickleItem", z, bts)

DecodeMsgSeriesPickleItem(z, dc) == UnmarshalMsgSeriesPickleItem(z, dc)

-----------------------------------------------------------------------------
EncodeMsgSeriesPickleItem(z) ==
    <<Tok("map", 3), Tok("str", "path"), Tok("str", z.Path),
      Tok("str", "isLeaf"), Tok("bool", z.IsLeaf),
      Tok("str", "intervals"), Tok("arr", Len(z.Intervals))>>
    \o FlattenSeq([i \in DOMAIN z.Intervals |->
                     <<Tok("arr", Len(z.Intervals[i]))>>
                     \o [j \in DOMAIN z.Intervals[i] |-> Tok("int", z.Intervals[i][j])]])

MarshalMsgSeriesPickleItem(b, z) == b \o EncodeMsgSeriesPickleItem(z)

MsgsizeSeriesPickleItem(z) ==
    1 + 5 + StringPrefixSize + Len(z.Path) + 7 + BoolSize + 10 + ArrayHeaderSize
      + SumFunction([i \in DOMAIN z.Intervals |->
                       ArrayHeaderSize + Len(z.Intervals[i]) * Int64Size])

-----------------------------------------------------------------------------
(* SeriesPickle: []SeriesPickleItem.  A prior z is given by its backing    *)
(* array up to cap(z): when cap(z) >= n the decode reslices and decodes    *)
(* each item into the element already there (an item of an earlier        *)
(* message, also past len(z)); otherwise it makes n zero items.            *)

ZeroItem == [Path |-> "", IsLeaf |-> FALSE, Intervals |-> <<>>]

RECURSIVE DecodeItems(_, _, _, _)
DecodeItems(elems, s, i, n) ==
    IF i > n THEN Ok(<<>>, s)
    ELSE LET r == UnmarshalMsgSeriesPickleItem(elems[i], s)
             t == DecodeItems(elems, r.rest, i + 1, n)
         IN  IF r.err THEN Fail(<<>>, r.rest)
             ELSE IF t.err THEN t
             ELSE Ok(<<r.v>> \o t.v, t.rest)

UnmarshalMsgSeriesPickle(z, bts) ==
    LET h     == Read(bts, "arr")
        elems == IF Len(z) >= h.v THEN z ELSE [i \in 1..h.v |-> ZeroItem]
        r     == DecodeItems(elems, h.rest, 1, h.v)
    IN  IF h.err THEN Fail(z, bts) ELSE IF r.err THEN Fail(z, r.rest) ELSE r

DecodeMsgSeriesPickle(z, dc) == UnmarshalMsgSeriesPickle(z, dc)

EncodeMsgSeriesPickle(z) ==
    <<Tok("arr", Len(z))>> \o FlattenSeq([i \in DOMAIN z |-> EncodeMsgSeriesPickleItem(z[i])])

\* the array header, then each item's MarshalMsg appending to the buffer
MarshalMsgSeriesPickle(b, z) ==
    FoldLeft(LAMBDA o, it : MarshalMsgSeriesPickleItem(o, it),
             Append(b, Tok("arr", Len(z))), z)

MsgsizeSeriesPickle(z) ==
    ArrayHeaderSize + SumFunction([i \in DOMAIN z |-> MsgsizeSeriesPickleItem(z[i])])

-----------------------------------------------------------------------------
(***************************************************************************)
(* A decode step: a message of type typ, written by MarshalMsg for x      *)
(* (possibly by a newer peer that adds a field msgp does not know), is    *)
(* followed in the buffer by the next message Trail and decoded by        *)
(* UnmarshalMsg or DecodeMsg into a value prior that the caller reuses.   *)
(***************************************************************************)
CONSTANTS
    Types,     \* the generated types checked
    Values,    \* Values[t]: the values of type t written
    Priors,    \* Priors[t]: the values of type t decoded into
    Unknown,   \* a field name none of the types has
    Trail      \* the objects after the message in the buffer

VARIABLES typ, x, prior, wire, out

vars == <<typ, x, prior, wire, out>>

None == [err |-> "none"]

Marshal(t, z) ==
    CASE t = "GraphiteTagDelSeries"     -> {MarshalMsgGraphiteTagDelSeries(<<>>, z)}
      [] t = "GraphiteTagDelSeriesResp" -> MarshalMsgGraphiteTagDelSeriesResp(<<>>, z)
      [] t = "SeriesPickle"             -> {MarshalMsgSeriesPickle(<<>>, z)}

Msgsize(t, z) ==
    CASE t = "GraphiteTagDelSeries"     -> MsgsizeGraphiteTagDelSeries(z)
      [] t = "GraphiteTagDelSeriesResp" -> MsgsizeGraphiteTagDelSeriesResp(z)
      [] t = "SeriesPickle"             -> MsgsizeSeriesPickle(z)

Unmarshal(t, z, s) ==
    CASE t = "GraphiteTagDelSeries"     -> UnmarshalMsgGraphiteTagDelSeries(z, s)
      [] t = "GraphiteTagDelSeriesResp" -> UnmarshalMsgGraphiteTagDelSeriesResp(z, s)
      [] t = "SeriesPickle"             -> UnmarshalMsgSeriesPickle(z, s)

Decode(t, z, s) ==
    CASE t = "GraphiteTagDelSeries"     -> DecodeMsgGraphiteTagDelSeries(z, s)
      [] t = "GraphiteTagDelSeriesResp" -> DecodeMsgGraphiteTagDelSeriesResp(z, s)
      [] t = "SeriesPickle"             -> DecodeMsgSeriesPickle(z, s)

\* a field Unknown, whose value nests a map in an array, added as the first
\* entry of the message's first map
ExtraValue == <<Tok("arr", 2), Tok("map", 1), Tok("str", Unknown),
                Tok("int", -1), Tok("bool", TRUE)>>

WithUnknownField(e) ==
    LET i == CHOOSE i \in DOMAIN e : e[i].k = "map" /\ \A j \in 1..i-1 : e[j].k # "map"
    IN  SubSeq(e, 1, i - 1) \o <<[e[i] EXCEPT !.v = @ + 1], Tok("str", Unknown)>>
        \o ExtraValue \o SubSeq(e, i + 1, Len(e))

Wires(t, z) ==
    { e \o Trail : e \in Marshal(t, z) }
    \cup { WithUnknownField(e) \o Trail : e \in {e \in Marshal(t, z) : \E i \in DOMAIN e : e[i].k = "map"} }

Init ==
    /\ typ \in Types
    /\ x \in Values[typ]
    /\ prior \in Priors[typ]
    /\ wire \in Wires(typ, x)
    /\ out = None

UnmarshalMsg ==
    /\ out = None
    /\ out' = Unmarshal(typ, prior, wire)
    /\ UNCHANGED <<typ, x, prior, wire>>

DecodeMsg ==
    /\ out = None
    /\ out' = Decode(typ, prior, wire)
    /\ UNCHANGED <<typ, x, prior, wire>>

Next == UnmarshalMsg \/ DecodeMsg

Spec == Init /\ [][Next]_vars

-----------------------------------------------------------------------------
\* a nil and an empty map read the same
PeersValue(p) == IF p = Nil THEN EmptyMap ELSE p

SameValue(t, a, b) ==
    IF t = "GraphiteTagDelSeriesResp"
    THEN a.Count = b.Count /\ PeersValue(a.Peers) = PeersValue(b.Peers)
    ELSE a = b

(***************************************************************************)
(* Decoding inverts marshalling: a message MarshalMsg wrote for x, also   *)
(* with an unknown field added by a newer peer, decodes without error     *)
(* into x whatever value the decoder reuses (the reslice of Paths,        *)
(* Intervals and the SeriesPickle items, the clearing of a non-empty      *)
(* Peers map, the skipping of the unknown field), and the remaining bytes *)
(* o are exactly the next message.                                        *)
(***************************************************************************)
DecodeInverts ==
    out # None => /\ ~out.err
                  /\ SameValue(typ, out.v, x)
                  /\ out.rest = Trail

(***************************************************************************)
(* Msgsize is an upper bound on the bytes MarshalMsg appends, for every   *)
(* order a range over the Peers map may take: MarshalMsg reserves that    *)
(* many bytes with msgp.Require before it appends.                        *)
(***************************************************************************)
MsgsizeBound ==
    \A e \in Marshal(typ, x) : ByteLen(e) <= Msgsize(typ, x)

=============================================================================
