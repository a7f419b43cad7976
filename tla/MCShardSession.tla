--------------------------- MODULE MCShardSession ---------------------------
(* ShardSession on three-block models: replicated servers, servers whose    *)
(* ranges overlap, and servers that alone serve the whole model.            *)
EXTENDS ShardSession, TLC

R(s, e) == [start |-> s, end |-> e]

\* Two replicas of each half; failover from 4 to 3 overlaps server 2.
Halves == <<R(0, 1), R(0, 2), R(1, 3), R(2, 3)>>
Whole == <<R(0, 3), R(0, 3)>>
Overlap == <<R(0, 2), R(1, 3)>>
Split == <<R(0, 2), R(2, 3)>>

AllChains == {Halves, Whole, Overlap}
SplitChain == {Split}
SplitOrWhole == {Split, Whole}
Moved == {R(0, 2), R(2, 3)}
=============================================================================
