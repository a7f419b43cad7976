---------------------------- MODULE MCPinnedPath ----------------------------
(* Every chain of at most three servers over ranges that start within a     *)
(* four-block model and may reach one block beyond it, with every blacklist.*)
EXTENDS PinnedPath, TLC

Ranges == {r \in [start : 0..3, end : 1..5] : r.start < r.end}

MCChains ==
    {c \in UNION {[1..n -> Ranges] : n \in 0..3} :
        \A i, j \in DOMAIN c : i < j => c[i].start <= c[j].start}

\* One server per range, to show an overlap with the least.
TwoServers == {<<[start |-> 0, end |-> 3], [start |-> 2, end |-> 4]>>}
=============================================================================
