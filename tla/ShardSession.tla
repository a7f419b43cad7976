---------------------------- MODULE ShardSession ----------------------------
(***************************************************************************)
(* One distributed generation: the token loop of cmd_shard_run,            *)
(* run_streaming_inner and shard_api's run_inference (they differ in how   *)
(* they report errors only), forward_through_chain and call_block_forward  *)
(* under it, and the block servers with their KV-caches                    *)
(* (kwaai-inference/src/shard.rs, kwaai-cli/src/block_rpc.rs).             *)
(*                                                                         *)
(* A KV-cache is abstracted to the steps appended to it; a token, an       *)
(* activation and a request to the step they belong to and to whether they *)
(* were computed from the right blocks and caches.                         *)
(***************************************************************************)
EXTENDS PinnedPath, FiniteSets

CONSTANTS
    MaxTokens,    \* max_tokens
    MAX_RETRIES,  \* retries of one call after a transient stream error
    Self,         \* our own index in the chain, or 0: called over local TCP
    NewRanges,    \* ranges a block server may come back with after a restart
    Faults,       \* what may go wrong in this model
    MaxFaults     \* bound: faults that leave a trace on a server

VARIABLES
    pc,        \* "pin", "hop", "call", "sample", "done", "error"
    step,      \* index of the token being computed; stands for seq_pos
    pass,      \* 0, or 1 when the token is retried on a rebuilt path
    pos,       \* forward_through_chain's position
    visited,   \* the servers whose output the activation has passed through
    tried,     \* candidates that failed at this position
    server,    \* the candidate being called
    attempt,   \* call_block_forward's attempt
    sound,     \* the activation was computed from the right blocks and caches
    tokens,    \* for each generated token, whether its activation was sound
    kv,        \* kv[s][j]: the steps appended to the cache of block j of s
    range,     \* the blocks that s has really loaded
    ready,     \* the ShardCell of s holds a shard
    late,      \* requests that were given up and may still execute
    faults,    \* number of faults so far
    disturbed, \* history: servers whose caches may not hold just the earlier steps
    rebuilt    \* the path was rebuilt: the coordinator warned that it may degrade

coordinator == <<pc, step, pass, pos, visited, tried, server, attempt, sound, tokens, rebuilt>>
servers == <<kv, range, ready, late>>
vars == <<pathVars, coordinator, servers, faults, disturbed>>

EmptyCache(r) == [j \in 1..(r.end - r.start) |-> <<>>]

\* A session starts: nothing cached for its id, some servers still loading.
Init ==
    /\ chain \in Chains
    /\ failed = {} /\ path = <<>> /\ at = 0 /\ pinned = "walking"
    /\ pc = "pin" /\ step = 0 /\ pass = 0 /\ pos = 0
    /\ visited = <<>> /\ tried = {} /\ server = 0 /\ attempt = 0
    /\ sound = TRUE /\ tokens = <<>>
    /\ range = chain
    /\ kv = [s \in Servers |-> EmptyCache(chain[s])]
    /\ ready \in IF "warming" \in Faults THEN [Servers -> BOOLEAN]
                                         ELSE [Servers -> {TRUE}]
    /\ late = {} /\ faults = 0 /\ disturbed = {} /\ rebuilt = FALSE

-----------------------------------------------------------------------------
(* The coordinator: pinning and walking the path.                          *)

StartPass ==
    /\ pos' = 0
    /\ visited' = <<>>
    /\ tried' = {}
    /\ sound' = TRUE

Pin ==
    /\ pc = "pin"
    /\ Extend \/ Gap \/ Return
    /\ pc' = CASE pinned' = "ok" -> "hop" [] pinned' = "gap" -> "error" [] OTHER -> "pin"
    /\ UNCHANGED <<step, pass, pos, visited, tried, server, attempt, sound, tokens,
                   rebuilt, servers, faults, disturbed>>

\* The candidates at `pos`; they are tried widest first, equally wide ones in an
\* order that depends on the trust scores and on Self.
Candidates == {i \in Servers : i \in {path[k] : k \in DOMAIN path} /\ Covers(i, pos)
                               /\ i \notin failed}

TryCandidate ==
    /\ pc = "hop"
    /\ \E s \in Candidates \ tried :
          /\ \A t \in Candidates \ tried : chain[t].end <= chain[s].end
          /\ server' = s
    /\ pc' = "call" /\ attempt' = 0
    /\ UNCHANGED <<pathVars, step, pass, pos, visited, tried, sound, tokens, rebuilt,
                   servers, faults, disturbed>>

\* The servers whose caches do not fit a token that is sent again: the failed
\* pass went through them, or the path of the earlier tokens did not.
OutOfStep ==
    {visited[k] : k \in DOMAIN visited}
       \cup IF step = 0 THEN {} ELSE Servers \ {path[k] : k \in DOMAIN path}

RebuildKeepsPos ==
    /\ path' = <<>> /\ at' = 0 /\ pinned' = "walking"
    /\ pc' = "pin" /\ pass' = 1 /\ rebuilt' = TRUE /\ disturbed' = disturbed \cup OutOfStep
    /\ visited' = <<>> /\ tried' = {} /\ sound' = TRUE
    /\ UNCHANGED <<chain, failed, pos>>

RebuildForever ==
    /\ path' = <<>> /\ at' = 0 /\ pinned' = "walking"
    /\ pc' = "pin" /\ pass' = 0 /\ rebuilt' = TRUE /\ disturbed' = disturbed \cup OutOfStep
    /\ StartPass
    /\ UNCHANGED <<chain, failed>>

\* The error arm of the token loop: rebuild the path without the peers that
\* failed and send the token again from block 0.
Rebuild ==
    /\ path' = <<>> /\ at' = 0 /\ pinned' = "walking"
    /\ pc' = "pin" /\ pass' = 1 /\ rebuilt' = TRUE /\ disturbed' = disturbed \cup OutOfStep
    /\ StartPass
    /\ UNCHANGED <<chain, failed>>

\* No candidate (left): forward_through_chain bails.  The token loop recovers
\* once per token.
Bail ==
    /\ pc = "hop"
    /\ Candidates \ tried = {}
    /\ \/ pass = 0 /\ Rebuild
       \/ /\ pass = 1
          /\ pc' = "error"
          /\ UNCHANGED <<pathVars, pass, pos, visited, tried, sound, rebuilt, disturbed>>
    /\ UNCHANGED <<step, server, attempt, tokens, servers, faults>>

SampleKeepsStep ==
    /\ pc = "sample"
    /\ tokens' = Append(tokens, sound)
    /\ step' = step /\ pass' = 0
    /\ StartPass
    /\ pc' \in IF Len(tokens') >= MaxTokens THEN {"done"} ELSE {"hop", "done"}
    /\ UNCHANGED <<pathVars, server, attempt, rebuilt, servers, faults, disturbed>>

\* All blocks are passed: sample a token.  The next one takes the same path,
\* unless this is eos or the last, or the consumer is gone.
Sample ==
    /\ pc = "sample"
    /\ tokens' = Append(tokens, sound)
    /\ step' = step + 1 /\ pass' = 0
    /\ StartPass
    /\ pc' \in IF Len(tokens') >= MaxTokens THEN {"done"} ELSE {"hop", "done"}
    /\ UNCHANGED <<pathVars, server, attempt, rebuilt, servers, faults, disturbed>>

-----------------------------------------------------------------------------
(* One call to a block server.                                             *)

\* Every cache of the server holds exactly the earlier steps.
Coherent(s) == \A j \in DOMAIN kv[s] : kv[s][j] = [i \in 1..step |-> i - 1]

\* The request carries no block range: the server runs the blocks it has.  Only
\* the first hop carries token ids, which a shard that does not start at block 0
\* rejects.
Accepts(s, first) == ready[s] /\ (first => range[s].start = 0)

\* ShardBlock::forward appends to the cache of each of the first n blocks.
Appended(s, k, n) ==
    [kv EXCEPT ![s] = [j \in DOMAIN @ |-> IF j <= n THEN Append(@[j], k) ELSE @[j]]]

Executed(s, k) == Appended(s, k, Cardinality(DOMAIN kv[s]))

\* The server executes and its answer arrives: on to the block after its range.
Reply ==
    /\ pc = "call"
    /\ Accepts(server, pos = 0)
    /\ kv' = Executed(server, step)
    /\ sound' = (sound /\ Coherent(server) /\ range[server].start = pos
                       /\ range[server] = chain[server])
    /\ visited' = Append(visited, server)
    /\ pos' = chain[server].end
    /\ tried' = {}
    /\ pc' = IF pos' < TotalBlocks THEN "hop" ELSE "sample"
    /\ UNCHANGED <<pathVars, step, pass, server, attempt, tokens, rebuilt,
                   range, ready, late, faults, disturbed>>

\* The call is over without an answer; `black` tells whether the error counts as
\* permanent.
GiveUp(black) ==
    /\ failed' = IF black THEN failed \cup {server} ELSE failed
    /\ tried' = tried \cup {server}
    /\ pc' = "hop"
    /\ UNCHANGED <<chain, path, at, pinned, step, pass, pos, visited, server, attempt,
                   sound, tokens, rebuilt>>

\* The handler answers with an error before anything executes: warming up, or
\* token ids sent to a shard that does not hold the embedding.
Reject ==
    /\ pc = "call"
    /\ ~Accepts(server, pos = 0)
    /\ GiveUp(TRUE)
    /\ UNCHANGED <<servers, faults, disturbed>>

\* The peer has no inference handler ("protocols not supported").
Unsupported ==
    /\ pc = "call"
    /\ "unsupported" \in Faults
    /\ GiveUp(TRUE)
    /\ UNCHANGED <<servers, faults, disturbed>>

\* A block fails after n caches were extended; the handler answers with an error.
BlockError(n) ==
    /\ pc = "call"
    /\ "block" \in Faults /\ faults < MaxFaults
    /\ Accepts(server, pos = 0)
    /\ n \in DOMAIN kv[server]
    /\ kv' = Appended(server, step, n)
    /\ faults' = faults + 1 /\ disturbed' = disturbed \cup {server}
    /\ GiveUp(TRUE)
    /\ UNCHANGED <<range, ready, late>>

\* The fate of a request whose answer never arrives.
Lost(fate) ==
    \/ fate = "dropped" /\ UNCHANGED <<servers, faults, disturbed>>
    \/ /\ fate = "executed"
       /\ Accepts(server, pos = 0) /\ faults < MaxFaults
       /\ kv' = Executed(server, step)
       /\ faults' = faults + 1 /\ disturbed' = disturbed \cup {server}
       /\ UNCHANGED <<range, ready, late>>
    \/ /\ fate = "late"
       /\ faults < MaxFaults
       /\ late' = late \cup {[server |-> server, step |-> step, first |-> pos = 0,
                              id |-> faults]}
       /\ faults' = faults + 1 /\ disturbed' = disturbed \cup {server}
       /\ UNCHANGED <<kv, range, ready>>

Fates == {"dropped", "executed", "late"}

RetriesAllOnce(s) == MAX_RETRIES + 1

\* A remote call is sent again after a transient error, a local one is not.
Retries(s) == IF s = Self THEN 0 ELSE MAX_RETRIES

\* Transient stream error.  After the last attempt forward_through_chain does
\* not blacklist the peer, except for "Response channel closed", which only
\* call_block_forward counts as transient.
StreamError(err, fate) ==
    /\ pc = "call"
    /\ err \in Faults
    /\ Lost(fate)
    /\ IF attempt < Retries(server)
         THEN /\ attempt' = attempt + 1
              /\ UNCHANGED <<pathVars, pc, step, pass, pos, visited, tried, server,
                             sound, tokens, rebuilt>>
         ELSE GiveUp(err = "closed")

\* HOP_TIMEOUT drops the call, its retries included.
HopTimeout(fate) ==
    /\ pc = "call"
    /\ "timeout" \in Faults
    /\ Lost(fate)
    /\ GiveUp(TRUE)

-----------------------------------------------------------------------------
(* The block servers.                                                      *)

Environment == UNCHANGED <<pathVars, coordinator>>

\* A request that was given up executes after all, if the shard still can.
LateExecution(r) ==
    /\ kv' = IF Accepts(r.server, r.first) THEN Executed(r.server, r.step) ELSE kv
    /\ late' = late \ {r}
    /\ UNCHANGED <<range, ready, faults, disturbed>>
    /\ Environment

\* gc_sessions finds the session idle for 600 s; the next request opens an
\* empty one under the same id.
Evict(s) ==
    /\ "evict" \in Faults /\ faults < MaxFaults
    /\ kv[s] # EmptyCache(range[s])
    /\ kv' = [kv EXCEPT ![s] = EmptyCache(range[s])]
    /\ faults' = faults + 1 /\ disturbed' = disturbed \cup {s}
    /\ UNCHANGED <<range, ready, late>>
    /\ Environment

\* `shard serve` starts again, after a crash or to rebalance to other blocks.
Restart(s, r) ==
    /\ "restart" \in Faults /\ faults < MaxFaults
    /\ range' = [range EXCEPT ![s] = r]
    /\ kv' = [kv EXCEPT ![s] = EmptyCache(r)]
    /\ ready' = [ready EXCEPT ![s] = FALSE]
    /\ faults' = faults + 1 /\ disturbed' = disturbed \cup {s}
    /\ UNCHANGED late
    /\ Environment

\* The background load task fills the ShardCell.
Load(s) ==
    /\ ~ready[s]
    /\ ready' = [ready EXCEPT ![s] = TRUE]
    /\ UNCHANGED <<kv, range, late, faults, disturbed>>
    /\ Environment

CallEnds ==
    \/ Reply \/ Reject \/ Unsupported
    \/ \E n \in 1..TotalBlocks : BlockError(n)
    \/ \E err \in {"reset", "closed"}, fate \in Fates : StreamError(err, fate)
    \/ \E fate \in Fates : HopTimeout(fate)

Coordinate == Pin \/ TryCandidate \/ Bail \/ Sample \/ CallEnds

ServerStep ==
    \/ \E r \in late : LateExecution(r)
    \/ \E s \in Servers : Evict(s) \/ Load(s)
    \/ \E s \in Servers, r \in NewRanges : Restart(s, r)

Next == Coordinate \/ ServerStep

\* The coordinator's task keeps running and HOP_TIMEOUT ends every call.
Spec == Init /\ [][Next]_vars /\ WF_vars(Coordinate)

-----------------------------------------------------------------------------
\* The types of the session's and the servers' state.
TypeOK ==
    /\ PathTypeOK
    /\ pc \in {"pin", "hop", "call", "sample", "done", "error"}
    /\ step \in 0..MaxTokens
    /\ pass \in {0, 1} /\ pos \in Nat /\ attempt \in 0..MAX_RETRIES
    /\ visited \in Seq(Servers) /\ tried \subseteq Servers
    /\ server \in Servers \cup {0}
    /\ sound \in BOOLEAN /\ tokens \in Seq(BOOLEAN)
    /\ \A s \in Servers : /\ range[s] \in NewRanges \cup {chain[s]}
                          /\ DOMAIN kv[s] = 1..(range[s].end - range[s].start)
    /\ ready \in [Servers -> BOOLEAN]
    /\ faults \in 0..MaxFaults /\ disturbed \subseteq Servers

\* An activation has passed through the servers of the current path, in order
\* from its first, and nothing else: what a failed pass computed never mixes
\* with the retry on the rebuilt path (the error arm of the token loop).
ActivationFollowsPath ==
    pc \in {"hop", "call", "sample"} =>
        /\ visited = SubSeq(path, 1, Len(visited))
        /\ pos = HopStart(path, Len(visited) + 1)

\* Retries multiply work, but boundedly: no block executes the same step more
\* than 2 * (MAX_RETRIES + 1) times, two passes of a token times the attempts of
\* a call, late executions included.
DuplicationBounded ==
    \A s \in Servers : \A j \in DOMAIN kv[s] : \A k \in 0..MaxTokens :
        Cardinality({i \in DOMAIN kv[s][j] : kv[s][j][i] = k}) <= 2 * (MAX_RETRIES + 1)

\* What goes wrong on a server (an execution whose answer was lost, a partial or
\* late one, an evicted session, a restart with other blocks) or is left behind
\* by a failed pass harms only tokens whose path goes through that server: a
\* token that passed through undisturbed servers with non-overlapping ranges was
\* computed by all blocks, once each and in order, from caches that hold exactly
\* the earlier steps, also after failed calls, retries and rebuilt paths.
UndisturbedTokensSound ==
    pc = "sample" /\ NonOverlapping /\ (\A k \in DOMAIN visited : visited[k] \notin disturbed)
        => sound

\* The generation ends, with Done or an error, whatever fails.
SessionEnds == <>(pc \in {"done", "error"})

\* "same peers handle the same blocks on every token so their KV-caches stay
\* coherent": as long as the path is not rebuilt, every token of a session with
\* non-overlapping servers is computed from coherent caches.
PinnedCachesCoherent ==
    ~rebuilt /\ NonOverlapping => \A k \in DOMAIN tokens : tokens[k]

\* "so the coordinator can back-off and retry rather than treating this as a
\* fatal failure": a peer is not blacklisted for warming up.
WarmingIsNotFatal ==
    [][\A s \in failed' \ failed : ready[s]]_vars

=============================================================================
