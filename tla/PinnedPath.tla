----------------------------- MODULE PinnedPath -----------------------------
(***************************************************************************)
(* build_pinned_path (kwaai-cli/src/shard_cmd.rs): the greedy walk that    *)
(* fixes which block server runs which blocks for a whole session.  The    *)
(* loop is a state machine, one iteration per step, so that what it        *)
(* returns can be proved for every chain.                                  *)
(*                                                                         *)
(* A chain is the list discover_chain returns, one entry per peer sorted   *)
(* by start block; a server is named by its index in the chain.            *)
(***************************************************************************)
EXTENDS Integers, Sequences

CONSTANTS
    Chains,       \* the chains that discovery may return
    TotalBlocks   \* number of transformer blocks of the model

ASSUME TotalAssumption == TotalBlocks \in Nat
ASSUME ChainsAssumption ==
    \A c \in Chains : c \in Seq([start : Nat, end : Nat])

VARIABLES
    chain,     \* the discovered chain; never changes
    failed,    \* failed_peers: the blacklist of this session
    path,      \* the path under construction, a sequence of servers
    at,        \* `pos`, the first block that the path does not reach yet
    pinned     \* "walking", or what the call returned: "ok", "gap"

pathVars == <<chain, failed, path, at, pinned>>

Servers == DOMAIN chain

Covers(i, b) == chain[i].start <= b /\ b < chain[i].end

\* The two filters.
Eligible(b) == {i \in Servers : Covers(i, b) /\ i \notin failed}

IsAny(i, b) == i \in Eligible(b)

\* max_by_key(end_block); among equals it returns the last in chain order.
IsBest(i, b) ==
    /\ i \in Eligible(b)
    /\ \A j \in Eligible(b) :
          \/ chain[j].end < chain[i].end
          \/ chain[j].end = chain[i].end /\ j <= i

ExtendZeroBased ==
    /\ pinned = "walking"
    /\ at < TotalBlocks
    /\ \E i \in Servers :
          /\ IsBest(i, at)
          /\ path' = Append(path, i - 1)
          /\ at' = chain[i].end
    /\ UNCHANGED <<chain, failed, pinned>>

\* One iteration: push the best entry and advance to its end.
Extend ==
    /\ pinned = "walking"
    /\ at < TotalBlocks
    /\ \E i \in Servers :
          /\ IsBest(i, at)
          /\ path' = Append(path, i)
          /\ at' = chain[i].end
    /\ UNCHANGED <<chain, failed, pinned>>

GapIgnored ==
    /\ pinned = "walking"
    /\ at < TotalBlocks
    /\ Eligible(at) = {}
    /\ UNCHANGED pathVars

\* No candidate: bail, "No server covers block".
Gap ==
    /\ pinned = "walking"
    /\ at < TotalBlocks
    /\ Eligible(at) = {}
    /\ pinned' = "gap"
    /\ UNCHANGED <<chain, failed, path, at>>

ReturnEarly ==
    /\ pinned = "walking"
    /\ at + 1 >= TotalBlocks
    /\ pinned' = "ok"
    /\ UNCHANGED <<chain, failed, path, at>>

\* The loop ends: Ok(path).
Return ==
    /\ pinned = "walking"
    /\ at >= TotalBlocks
    /\ pinned' = "ok"
    /\ UNCHANGED <<chain, failed, path, at>>

\* The call starts with any blacklist.
PathInit ==
    /\ chain \in Chains
    /\ failed \in SUBSET Servers
    /\ path = <<>>
    /\ at = 0
    /\ pinned = "walking"

PathNext == Extend \/ Gap \/ Return

\* The loop has no await: the task that runs it completes it.
PathSpec == PathInit /\ [][PathNext]_pathVars /\ WF_pathVars(PathNext)

\* coverage_check, the test cmd_shard_run makes before it pins a path.
CoverageCheck == \A b \in 0..(TotalBlocks - 1) : \E i \in Servers : Covers(i, b)

-----------------------------------------------------------------------------
\* The block at which hop k of path p starts.
HopStart(p, k) == IF k = 1 THEN 0 ELSE chain[p[k - 1]].end

\* The type of the loop's variables.
PathTypeOK ==
    /\ chain \in Chains
    /\ failed \subseteq Servers
    /\ path \in Seq(Servers)
    /\ at \in Nat
    /\ pinned \in {"walking", "ok", "gap"}

\* Every block below `at` is in the range of some server of the path, so a
\* path that is returned covers [0, TotalBlocks) without a gap, whatever the
\* ranges overlap and whoever is blacklisted.
PathCovers ==
    /\ \A b \in 0..(at - 1) : \E k \in DOMAIN path : Covers(path[k], b)
    /\ pinned = "ok" => at >= TotalBlocks

\* At the block where a hop starts, its server is the only one of the path that
\* covers it: forward_through_chain, which walks the path and tries "all
\* candidates covering that position", never finds a second candidate there,
\* because the greedy walk would have taken the wider one a hop earlier.
SingleCandidate ==
    \A k, m \in DOMAIN path : Covers(path[m], HopStart(path, k)) => m = k

\* With nobody blacklisted, the walk finds a path exactly when coverage_check
\* says that the chain covers the model.
GreedyIsComplete ==
    failed = {} => /\ pinned = "ok" => CoverageCheck
                   /\ pinned = "gap" => ~CoverageCheck

\* The walk returns.
PinTerminates == <>(pinned # "walking")

\* "Build a deterministic, non-overlapping peer path for a session": no block
\* is in the ranges of two servers of the path (build_pinned_path).
NonOverlapping ==
    \A k, m \in DOMAIN path : \A b \in 0..(TotalBlocks - 1) :
        Covers(path[k], b) /\ Covers(path[m], b) => k = m

=============================================================================
