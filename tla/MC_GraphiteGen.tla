--------------------------- MODULE MC_GraphiteGen ---------------------------
EXTENDS GraphiteGen

\* the empty string and one of 32 bytes, the first that needs a str8 prefix
Long == "abcdefghijklmnopqrstuvwxyz012345"
Strs == {"", Long}

\* integers at the edges of fixint, int8, int16 and int32
Ints == {-33, 127, 128, 40000}

DelSeries == [Paths : SeqOf(Strs, 2), Propagate : BOOLEAN]

PeerMaps == {Nil} \cup UNION {[D -> {127, 40000}] : D \in SUBSET {"a", Long}}
Resps == [Count : {-33, 128}, Peers : PeerMaps]

Items == {[Path |-> Long, IsLeaf |-> TRUE, Intervals |-> <<<<128, -33>>, <<>>>>],
          [Path |-> "", IsLeaf |-> FALSE, Intervals |-> <<<<40000>>>>],
          [Path |-> "a", IsLeaf |-> TRUE, Intervals |-> <<>>]}
Pickles == SeqOf(Items, 2)

MCTypes == {"GraphiteTagDelSeries", "GraphiteTagDelSeriesResp", "SeriesPickle"}
MCValues == [t \in MCTypes |-> CASE t = "GraphiteTagDelSeries" -> DelSeries
                                 [] t = "GraphiteTagDelSeriesResp" -> Resps
                                 [] t = "SeriesPickle" -> Pickles]
\* a SeriesPickle decoded into is given by its backing array up to cap
MCPriors == [MCValues EXCEPT !["SeriesPickle"] = SeqOf(Items, 3)]
MCTrail == <<Tok("map", 0)>>
=============================================================================
