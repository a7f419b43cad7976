----------------------------- MODULE Rebalancer -----------------------------
(***************************************************************************)
(* Block placement: check_rebalance and pick_gap_from_chain                *)
(* (kwaai-cli/src/rebalancer.rs) run by every `shard serve` against the    *)
(* announcements that the nodes' daemons keep in the DHT                   *)
(* (cmd_shard_serve in shard_cmd.rs, the announce arms of node.rs).  An    *)
(* announcement writes one record per block of the announced range and     *)
(* leaves the records under the blocks of an earlier range to expire, so   *)
(* the chain another node decides on may be stale.                         *)
(***************************************************************************)
EXTENDS FiniteSetsExt

CONSTANTS
    Nodes,          \* nodes running `shard serve`
    Movers,         \* those with --auto-rebalance; the others have an explicit range
    FixedStart,     \* FixedStart[n]: --start-block of a node that is no mover
    TotalBlocks,    \* cfg.model_total_blocks()
    CfgBlocks,      \* CfgBlocks[n]: cfg.blocks of node n
    ValidCounts,    \* VALID_BLOCK_COUNTS
    MinRedundancy,  \* cfg.rebalance_min_redundancy
    MaxAbandoned    \* bound on the loads abandoned and still running, per node

ASSUME BlocksAssumption ==
    /\ TotalBlocks \in Nat \ {0} /\ CfgBlocks \in [Nodes -> Nat] /\ MinRedundancy \in Nat
    /\ MaxAbandoned \in Nat
ASSUME FixedAssumption ==
    /\ Movers \subseteq Nodes
    /\ FixedStart \in [Nodes \ Movers -> 0..(TotalBlocks - 1)]
    /\ \A n \in Nodes \ Movers : CfgBlocks[n] \in ValidCounts
ASSUME ValidAssumption == ValidCounts \subseteq Nat \ {0} /\ ValidCounts # {}

VARIABLES
    pc,         \* the phase of the node's shard server, one of Phases
    range,      \* the blocks the node's shard server chose last
    abandoned,  \* background loads of earlier rounds that are still running
    ready,      \* the shard.ready file exists
    cfgStart,   \* cfg.start_block in config.yaml
    dht         \* dht[n][b]: n's online record under the key of block b

vars == <<pc, range, abandoned, ready, cfgStart, dht>>

\* "loaded": the cell is filled and shard.ready is about to be written;
\* "unmarked": the write failed, which nobody notices.
Live == {"loaded", "serving", "unmarked"}
Placed == {"loading", "failed"} \union Live
Phases == {"stopped", "choosing"} \union Placed

Blocks == 0..(TotalBlocks - 1)
BlockRange == [start : 0..TotalBlocks, end : 0..TotalBlocks]
Empty == [start |-> 0, end |-> 0]  \* no record, or one that is not online

In(b, r) == r.start <= b /\ b < r.end

\* A shard server answers for a block once its model is loaded.
Serves(n, b) == pc[n] \in Live /\ In(b, range[n])

Lesser(a, b) == IF a < b THEN a ELSE b

\* Distance of two block counts; the first nearest count wins, and they ascend.
Distance(a, b) == IF a < b THEN b - a ELSE a - b

snap_to_valid_blocks(n) ==
    Min({v \in ValidCounts : \A w \in ValidCounts : Distance(v, n) <= Distance(w, n)})

\* discover_chain asks for the blocks in ascending order and keeps the first
\* online record of a peer: one entry, found under the lowest key that has one.
Entry(records) ==
    LET online == {b \in Blocks : records[b] # Empty}
    IN  IF online = {} THEN Empty ELSE records[Min(online)]

View(n) == Entry(dht[n])

CoverageWithSelf(n, b) == Cardinality({m \in Nodes : In(b, View(m))})

\* The number of nodes other than n whose entry names block b.
Coverage(n, b) == Cardinality({m \in Nodes \ {n} : In(b, View(m))})

\* check_rebalance returns Some: our blocks are redundant and a gap exists.
check_rebalance(n) ==
    /\ range[n].start < range[n].end
    /\ \A b \in Blocks : In(b, range[n]) => Coverage(n, b) >= MinRedundancy
    /\ \E b \in Blocks : Coverage(n, b) = 0

PickUnclipped(n) ==
    LET gaps == {b \in Blocks : Coverage(n, b) = 0}
        s == IF gaps # {} THEN Min(gaps) ELSE 0
    IN  [start |-> s, end |-> s + snap_to_valid_blocks(CfgBlocks[n])]

PickLastGap(n) ==
    LET target == Lesser(snap_to_valid_blocks(CfgBlocks[n]), TotalBlocks)
        gaps == {b \in Blocks : Coverage(n, b) = 0}
        start == IF gaps # {} THEN Max(gaps) ELSE 0
    IN  [start |-> start, end |-> Lesser(start + target, TotalBlocks)]

\* pick_gap_from_chain: the first gap, or the least covered window (the first
\* of them) when there is none.
pick_gap_from_chain(n) ==
    LET target == Lesser(snap_to_valid_blocks(CfgBlocks[n]), TotalBlocks)
        gaps == {b \in Blocks : Coverage(n, b) = 0}
        WindowSum(i) == MapThenSumSet(LAMBDA b : Coverage(n, b), i..(i + target - 1))
        windows == 0..(TotalBlocks - target)
        start == IF gaps # {}
                   THEN Min(gaps)
                   ELSE Min({i \in windows : \A j \in windows : WindowSum(i) <= WindowSum(j)})
    IN  [start |-> start, end |-> Lesser(start + target, TotalBlocks)]

-----------------------------------------------------------------------------
\* The range of a node that was given --start-block; the count it saves is the
\* one it loads.
ExplicitRange(n) ==
    [start |-> FixedStart[n],
     end |-> Lesser(FixedStart[n] + snap_to_valid_blocks(CfgBlocks[n]), TotalBlocks)]

\* The daemons of the movers spawn their shard servers, the other servers are
\* loaded; nobody is announced as online.
Init ==
    /\ pc = [n \in Nodes |-> IF n \in Movers THEN "choosing" ELSE "serving"]
    /\ range = [n \in Nodes |-> IF n \in Movers THEN Empty ELSE ExplicitRange(n)]
    /\ abandoned = [n \in Nodes |-> 0]
    /\ ready = [n \in Nodes |-> n \notin Movers]
    /\ cfgStart = [n \in Nodes |-> IF n \in Movers THEN 0 ELSE FixedStart[n]]
    /\ dht = [n \in Nodes |-> [b \in Blocks |-> Empty]]

\* cmd_shard_serve starts: query the DHT, choose, save the start block if it
\* changed, spawn the background load.
Choose(n) ==
    /\ pc[n] = "choosing"
    /\ LET r == pick_gap_from_chain(n)
       IN  /\ range' = [range EXCEPT ![n] = r]
           /\ cfgStart' = [cfgStart EXCEPT ![n] = r.start]
    /\ pc' = [pc EXCEPT ![n] = "loading"]
    /\ UNCHANGED <<abandoned, ready, dht>>

\* The background load fills the server's cell: requests are answered.
Load(n) ==
    /\ pc[n] = "loading"
    /\ pc' = [pc EXCEPT ![n] = "loaded"]
    /\ UNCHANGED <<range, abandoned, ready, cfgStart, dht>>

\* The same task then writes shard.ready; the result of the write is ignored.
MarkReady(n) ==
    /\ pc[n] = "loaded"
    /\ \/ /\ pc' = [pc EXCEPT ![n] = "serving"]
          /\ ready' = [ready EXCEPT ![n] = TRUE]
       \/ /\ pc' = [pc EXCEPT ![n] = "unmarked"]
          /\ UNCHANGED ready
    /\ UNCHANGED <<range, abandoned, cfgStart, dht>>

\* It fails: the server keeps answering "warming up".
LoadFails(n) ==
    /\ pc[n] = "loading"
    /\ pc' = [pc EXCEPT ![n] = "failed"]
    /\ UNCHANGED <<range, abandoned, ready, cfgStart, dht>>

LeaveClearsFirst(n) ==
    /\ pc[n] \in Placed
    /\ pc' = [pc EXCEPT ![n] = IF check_rebalance(n) THEN "choosing" ELSE @]
    /\ ready' = [ready EXCEPT ![n] = FALSE]
    /\ UNCHANGED <<range, abandoned, cfgStart, dht>>

\* A tick of the rebalancer task that decides to move (one that does not
\* changes nothing): the serve loop removes shard.ready and starts over.  The
\* ticker does not wait for the load, and a load task that has not yet written
\* shard.ready goes on.
Leave(n) ==
    /\ pc[n] \in Placed
    /\ check_rebalance(n)
    /\ pc' = [pc EXCEPT ![n] = "choosing"]
    /\ ready' = [ready EXCEPT ![n] = FALSE]
    /\ IF pc[n] \in {"loading", "loaded"}
         THEN /\ abandoned[n] < MaxAbandoned
              /\ abandoned' = [abandoned EXCEPT ![n] = @ + 1]
         ELSE UNCHANGED abandoned
    /\ UNCHANGED <<range, cfgStart, dht>>

\* A load of an earlier round finishes in the same process.  Its cell is of no
\* use to the new round, but shard.ready is the same file; if the load or the
\* write fails, nothing happens.
AbandonedLoad(n) ==
    /\ abandoned[n] > 0
    /\ abandoned' = [abandoned EXCEPT ![n] = @ - 1]
    /\ \/ ready' = [ready EXCEPT ![n] = TRUE]
       \/ UNCHANGED ready
    /\ UNCHANGED <<pc, range, cfgStart, dht>>

\* The shard server's process ends without reaching the end of
\* cmd_shard_serve, so shard.ready stays.
Die(n) ==
    /\ pc[n] # "stopped"
    /\ pc' = [pc EXCEPT ![n] = "stopped"]
    /\ abandoned' = [abandoned EXCEPT ![n] = 0]
    /\ UNCHANGED <<range, ready, cfgStart, dht>>

\* spawn_shard_child: a running child is stopped first, shard.ready is removed.
Respawn(n) ==
    /\ pc' = [pc EXCEPT ![n] = "choosing"]
    /\ abandoned' = [abandoned EXCEPT ![n] = 0]
    /\ ready' = [ready EXCEPT ![n] = FALSE]
    /\ UNCHANGED <<range, cfgStart, dht>>

shard_is_ready(n) == ready[n] /\ pc[n] # "stopped"

\* The range the daemon announces: start_block to effective_end_block() of the
\* configuration, whatever count of blocks the shard server loads.
Announced(n) ==
    [start |-> cfgStart[n], end |-> Lesser(cfgStart[n] + CfgBlocks[n], TotalBlocks)]

\* The daemon re-reads the configuration and stores a record under each block
\* of the range, online or joining: when Choose or MarkReady signals it, and
\* periodically, so at any time.  No other key is touched.
Announce(n) ==
    /\ dht' = [dht EXCEPT ![n] =
                 [b \in Blocks |-> IF ~In(b, Announced(n)) THEN dht[n][b]
                                  ELSE IF shard_is_ready(n) THEN Announced(n)
                                  ELSE Empty]]
    /\ UNCHANGED <<pc, range, abandoned, ready, cfgStart>>

\* The records that the last announcement of range r left expire together: n
\* announces another range now, or its announcements reach no bootstrap peer.
Expire(n) ==
    /\ \E r \in {dht[n][b] : b \in Blocks} \ {Empty} :
          dht' = [dht EXCEPT ![n] = [b \in Blocks |-> IF dht[n][b] = r THEN Empty ELSE dht[n][b]]]
    /\ UNCHANGED <<pc, range, abandoned, ready, cfgStart>>

\* A server with an explicit range stays up; only its records come and go.
Next ==
    \/ \E n \in Movers :
          \/ Choose(n) \/ Load(n) \/ MarkReady(n) \/ LoadFails(n) \/ Leave(n)
          \/ AbandonedLoad(n) \/ Die(n) \/ Respawn(n)
    \/ \E n \in Nodes : Announce(n) \/ Expire(n)

Spec == Init /\ [][Next]_vars

-----------------------------------------------------------------------------
\* The types of the placement state.
TypeOK ==
    /\ pc \in [Nodes -> Phases]
    /\ range \in [Nodes -> BlockRange]
    /\ abandoned \in [Nodes -> 0..MaxAbandoned]
    /\ ready \in [Nodes -> BOOLEAN]
    /\ cfgStart \in [Nodes -> 0..TotalBlocks]
    /\ dht \in [Nodes -> [Blocks -> BlockRange]]

\* What others find of the nodes other than n is what these serve.
ViewAccurate(n) ==
    \A m \in Nodes \ {n} : \A b \in Blocks : In(b, View(m)) <=> Serves(m, b)

\* The node would move at the next tick of its rebalancer.
WantsToMove(n) == pc[n] \in Placed /\ check_rebalance(n)

\* A node wants to move only because another node's entry has changed since: not
\* because of the range it has just chosen, of its own records, old or new, or
\* of a load, a death or a respawn, however stale the entries are.  So
\* check_rebalance and pick_gap_from_chain never chase each other.  (With
\* rebalance_min_redundancy = 0 they do: a node's own gap stays a gap to it.)
MovesOnlyOnNews ==
    [][\A n \in Movers :
          MinRedundancy > 0 /\ WantsToMove(n)' /\ ~WantsToMove(n)
             => \E m \in Nodes \ {n} : View(m)' # View(m)]_vars

\* A node that chooses on an accurate view while a block has no other server
\* takes the lowest such block, even when its own old announcement still names
\* it (pick_gap_from_chain excludes our own peer).
GapIsFilled ==
    [][\A n \in Nodes :
          (pc[n] = "choosing" /\ pc'[n] = "loading" /\ ViewAccurate(n))
             => \A b \in Blocks :
                   (\A c \in 0..b : (\E m \in Nodes \ {n} : Serves(m, c)) <=> c # b)
                      => range'[n].start = b]_vars

\* Every range a server chose is a non-empty part of the model, as long as the
\* configured count unless the model ends earlier ("always returns a valid
\* (start, end) range").
ChosenRangeValid ==
    \A n \in Nodes : pc[n] \in Placed =>
        /\ range[n].start < range[n].end /\ range[n].end <= TotalBlocks
        /\ range[n].end = TotalBlocks
           \/ range[n].end - range[n].start = snap_to_valid_blocks(CfgBlocks[n])

\* "Returns true only when the shard process is alive AND the model is fully
\* loaded" (shard_is_ready).
ReadyMeansLoaded ==
    \A n \in Nodes : shard_is_ready(n) => pc[n] \in Live

\* The daemon of a shard server that has loaded and marked its model sees it as
\* ready, whatever moved, died or was respawned before (MarkReady writes
\* shard.ready, only the ends of the round remove it).
LoadedIsReady ==
    \A n \in Nodes : pc[n] = "serving" => shard_is_ready(n)

=============================================================================
