# KwaaiNet in TLA+

TLA+ modules, TLC models and TLAPS proofs for the distributed core of KwaaiNet:
how a language model that is split over peers generates a token, how the peers
decide who serves which part, and how requests share the connections between
them. Everything is translated from the Rust source under `src/core/crates/`;
`PROJECT.json` maps each definition to the lines it stands for.

## The system

A node runs a daemon (`kwaainet start`), which owns a Go libp2p process (`p2pd`)
and two children: a *shard server*, which loads a contiguous range of transformer
blocks, and a *storage* server. The daemon announces the node's range in a
Hivemind-compatible DHT. A *coordinator* (CLI, HTTP or gRPC) discovers the ranges,
fixes a path of servers that covers the model and sends each token's activation
along it; every server keeps a KV-cache per session. HTTP inference traffic to a
peer goes through a local proxy, which multiplexes it over one stream and protects
itself with a circuit breaker. All unary RPC uses one persistent connection to
`p2pd`.

| Part | State | Operations | What is hard | What must hold |
|---|---|---|---|---|
| Circuit breaker | state, failures, trip time per peer | allow, record_success, record_failure | outcomes of concurrent requests in any order | trips exactly at the threshold, refuses during the cooldown, stragglers do not prolong it |
| Session coordinator | path, blacklist, position, token | pin, try a candidate, retry, rebuild, sample | answers lost after execution, peers that restart, two passes of one token | an activation follows one path; a token through undisturbed servers is exact; it ends |
| Block server | shard, KV-cache per session | execute, evict, load, restart | late execution, idle eviction, moved ranges | bounded duplication; caches hold each step once |
| Placement | range, config, ready file, DHT records per node and block | choose, load, mark ready, rebalance, die, respawn, announce, expire | decisions on stale records, loads that outlive their round | a node moves on news of others only, gaps filled, ready means loaded |
| Inference mux | shared client, pending map, RwLock, two tasks per client | ensure, send, invalidate, route, drain | stream breaks between check, insert and enqueue | answers reach their owner; a live client is kept; a request waits without bound only behind a connect or on a full queue |
| Persistent connection | pending calls, handlers, reader task, slot | call, add, remove, read, drain | reader dies among writers; handlers registered late | only calls inserted after the drain outlive the connection; both ends agree on the handlers; one answer per request |
| Node event loop | p2pd, handlers, announcements, children | announce, unannounce, restart p2pd, SIGHUP | p2pd restarts, announcements reach some bootstraps only | what is alive is announced and reachable |
| DHT server and client | records with expiration, pending requests | store, find, cleanup | stores out of order, expiry between store and find | the newest live record is found |
| Storage fabric | redb tables, in-memory index per tenant | create, delete, upload, delete vectors, open | table and index change in two steps; crash in between | index = table once quiet and after a restart; quota |
| gRPC session | cancel registry, bounded output | generate, shard run, cancel | id reuse, cancel racing with the end, a slow reader | one terminal frame per operation |
| Ingestion pipeline | semaphore, channel, drain | spawn, extract, drain | permits and channel slots waiting for each other | every chunk reaches the graph; no deadlock |
| Local files | circuits, reputation, pid, lock, status | load, change, save | read-modify-write by several processes, stale pids | no lost update; one daemon |

The remaining parts (knowledge graph and retrieval, local inference, map server,
trust credentials, summit server, training stubs, compression, updater, user
interfaces) are listed in `PROJECT.json` with the reason why they are not modelled.

## Modules

| Module | Models | Instance |
|---|---|---|
| `CircuitBreaker` | `circuit_breaker.rs` and the proxy connections that consult it | `MCCircuitBreaker` |
| `PinnedPath` | `build_pinned_path`, `coverage_check` | `MCPinnedPath` |
| `ShardSession` (extends `PinnedPath`) | the token loop, `forward_through_chain`, `call_block_forward`, the block servers | `MCShardSession` |
| `Rebalancer` | `check_rebalance`, `pick_gap_from_chain`, the serve loop, `shard.ready`, announcements | `MCRebalancer` |
| `InferenceMux` (instantiates `CircuitBreaker`) | `inference_mux.rs` | `MCInferenceMux` |
| `PersistentConnection` | `persistent.rs`, `get_persistent_connection` | `MCPersistentConnection` |
| `CircuitBreakerProofs`, `PinnedPathProofs`, `RebalancerProofs` | theorems | |

Definitions whose name says what differs from their neighbour (`AfterFailureOffByOne`,
`InvalidateAny`, `ReadFailsContinues`, ...) are variants of it with a plausible mistake. No
specification uses them: substituted for the original, each of them violates the
property that `PROJECT.json` pairs it with, which shows that the property
constrains the code.

**CircuitBreaker.** `peers[p]` is the `PeerEntry`. Each method holds the map's mutex
throughout, so each is one step; a request is `inflight` between `allow` and its
outcome. `Admit`, `Refuse` and `BadRequest` (admitted, then answered 400 with no
outcome recorded) start a request, `Succeed` and `Fail` end it, `Tick` is the clock.

**PinnedPath.** The greedy loop, one iteration per step: `Extend` takes the entry
with the largest end block (the last among equals, as `max_by_key` does), `Gap` is
the bail, `Return` the end. A server is named by its index in the chain.

**ShardSession.** `Pin` runs the loop above; `TryCandidate`, `Reply`, `Reject`,
`StreamError`, `HopTimeout` and `Bail` are `forward_through_chain` with the retries
of `call_block_forward` under it; `Rebuild` is the error arm of the token loop and
`Sample` its end. The three drivers (`cmd_shard_run`, `run_streaming_inner`,
`run_inference`) differ in reporting only. A KV-cache is the sequence of steps
appended to each block; a request carries no range, so a server runs what it has
loaded (`range`), which after a `Restart` need not be what the chain says. A request
given up by its caller may be dropped, have executed, or execute later (`Lost`).
`disturbed` is a history variable: the servers whose caches may no longer hold just
the earlier steps. A fault on a server adds it; a rebuild adds the servers that the
failed pass went through and, after the first token, those that were not on the
path (`OutOfStep`).

**Rebalancer.** A node goes `choosing`, `loading`, `loaded` (the cell is filled), then
`serving` (`shard.ready` is written) or `unmarked` (the write failed, which the code
ignores); a load may also end as `failed`. `Leave` is a tick of the rebalance task
that decides to move. It does not wait for the background load, which then goes on as
`abandoned`. `ready` is the `shard.ready` file, `cfgStart` the configured start block.
The daemon announces from configuration and ready file, at any later time
(`Announce`): it writes a record under the key of each block of the announced range
and touches no other key, so the records of an earlier range stay in `dht` until they
expire (`Expire`). `View` is what `discover_chain` makes of a node's records: the first
online one in block order, so that an old record under a lower block hides the new
range. Nodes outside `Movers` have an explicit range (`--start-block`); they stay up,
and only their records come and go.

**InferenceMux.** `req[r]` is the task of a proxy connection with its two attempts;
`cl[c]` a client with reader, writer, pending map and queue; `shared` and `lock` the
slot behind the RwLock, held across a connect. The check of the dead flag, the
insert into the pending map and the enqueue are separate steps, because the reader
and writer tasks run between them. The queue to the writer is bounded, and the enqueue
waits while it is full; the 120 s timer runs only after it. The server side is the set
of frames on the wire, answered in any order. A client nobody holds is reset.

**PersistentConnection.** `task[t]` is one operation, `conn[k]` a connection with the
reader task, pending calls, stored handler and `p2pd`'s end. `p2pd` is external: it
answers in any order or not at all, with replies the reader may have to skip, forwards
requests to whoever registered, and closes at any time. What is written to a closed
connection is lost or fails. `late` remembers that a call was inserted after the drain,
`crossed` that an add and a remove were under way together.

## Runs

| Run | States | Shows |
|---|---|---|
| `circuit_breaker` | 18,696 | threshold, trip dates, cooldown, stragglers for 2 peers, 3 requests, clock beyond two cooldowns |
| `circuit_breaker_one_probe` | violated | `allow` admits any number of probes while HalfOpen |
| `pinned_path` | 19,683 | every chain of up to 3 servers over 4 blocks and every blacklist: no gap, one candidate per hop, found exactly when `coverage_check` passes |
| `pinned_path_overlap` | violated | a "non-overlapping" path runs a block on two servers |
| `shard_session` | 735,587 | replicated, overlapping and whole-model servers with 8 kinds of faults: path discipline, exact tokens through undisturbed servers, termination |
| `shard_session_retries` | 491,393 | retries, lost answers and late executions: a block runs a step at most 2 * (MAX_RETRIES + 1) times |
| `shard_session_coherence` | violated | a retried request appends its step to the KV-cache twice, without a rebuild |
| `shard_session_warming` | violated | "node warming up" blacklists the peer for the session |
| `rebalancer` | 186,332 | valid ranges, a node wants to move only on news of others, gaps filled on an accurate view, a server that wrote its ready file is seen as ready |
| `rebalancer_ready` | violated | an abandoned load writes `shard.ready` for the next round |
| `inference_mux` | 181,801 | routing, keeping live clients, requests answered unless they wait behind a connect or on a full queue for ever; the proxy implements `CircuitBreaker` |
| `persistent_connection` | 287,276 | only calls inserted after the drain outlive their connection, the stored handler and `p2pd`'s agree, one answer per request |

A violated run checks a sentence of the repository's documentation or comments;
`findings` in `PROJECT.json` quotes it beside what the code does.

**Bounds.** Clocks stop at `MaxTime`, which lets a circuit trip, half-open and trip
again. Failure counters stop at `MaxFailures`, above the threshold. Three servers on
a path are the least for overlap, nesting and replication to differ; four blocks and
ranges one block beyond the model include every boundary of `max_by_key` and of the
half-open ranges. Two tokens are the least for a cache to matter; `MaxFaults` bounds
faults that leave a trace and is 5 where duplication is counted, enough for two
passes with all their attempts. Two requests and two clients are the least for a
request to fail on a client that another has replaced; one task of each kind and two
connections for the same in `PersistentConnection`. The mux's queue holds one frame
(256 in the code), so that it fills, and its clock runs only while the circuit is open.
In `rebalancer` two nodes move beside one fixed on the first of three blocks. One
mover serves one block; the other is configured with three and loads two, the nearest
valid count, so it announces a block it does not have. Together they meet gaps, full
coverage with unequal windows, ranges cut off by the end of the model and records of
two ranges side by side; what is proved covers any number of nodes. The retry count is 1 instead of the code's 2, the breaker's
threshold 2 (1 under the mux) instead of 3; the properties do not depend on the number, and the
breaker's are proved for all.
Symmetry is used only in runs without liveness properties.

**Fairness.** `PinnedPath`: the loop has no await, so it completes. `ShardSession`:
weak fairness of the coordinator alone, since `HOP_TIMEOUT` ends every call; servers
owe nothing. `InferenceMux`: weak fairness of each proxy task, except that nothing
makes a connect return, and of what a client's tasks do once the stream has broken.
The stream itself owes nothing: it may stall a write for ever and never answer.
The 120 s timer bounds the wait for an answer; a wait behind a connect and a wait on
the full queue have no bound in the code, and the property exempts exactly these.
`PersistentConnection`: weak fairness of the tasks' own steps and, once `p2pd` has
closed the connection, of reads and writes, which then end. Nothing is assumed of
`p2pd`, and before it closes a call has no timeout here. `CircuitBreaker` and
`Rebalancer` state safety only.
`CHECK_DEADLOCK FALSE` is set where a session, a set of requests or a walk is
finished in the end.

## Proofs

TLAPS proves the following for every value of the constants.

* `CircuitBreakerProofs`. `TypeCorrect`, `TripsAtThreshold`, `HalfOpenAfterCooldown`,
  `CooldownHolds` and `CooldownNotProlonged`. The inductive invariant is the conjunction of the type and the
  two invariants, restated entry by entry (`GoodEntry`): that a circuit with a full
  failure count is tripped needs that a HalfOpen one has a full count, and that it
  is HalfOpen only after the cooldown needs that trips are not dated in the future.
  One lemma per breaker method, then one step per action. From
  `ThresholdAssumption` (positive threshold), `DurationAssumption` and
  `NoneAssumption`. The last two theorems are action properties from the invariant.
* `PinnedPathProofs`. `PathHasNoGap`, `OneCandidatePerHop` and
  `GreedyFindsAPath` (no blacklist: a path is found exactly when `coverage_check`
  passes; it needs that the walk bails only at an uncovered block). The invariant adds that
  `at` is the end of the last server, that each hop starts in its server's range,
  and that each server reached furthest among those eligible there (`HopsGreedy`).
  The last is what makes a second candidate impossible: a later server that covers
  an earlier hop's start would have been chosen there. Chains are arbitrary
  sequences of ranges of naturals.
* `RebalancerProofs`. `NewsBeforeMove` (action property) and `LoadedSeenReady`. The
  first rests on three lemmas: coverage depends on the other nodes' entries only;
  `pick_gap_from_chain` returns a range that contains the first gap if there is one,
  which needs that the snapped count is positive and that `Min` finds a least element;
  so nobody else covers some block of a range just chosen, or there is no gap, and
  `check_rebalance` stays put either way. Then one step per action shows that a node
  has a range only by choosing it. `MinRedundancy > 0` is part of the property: with 0
  a node leaves a gap it has just filled. The second needs that the file exists while
  a server serves; an abandoned load only creates it, and what removes it also leaves
  the serving phase. From `BlocksAssumption`, `FixedAssumption` and `ValidAssumption`.

Only model-checked: all liveness properties and the refinement
`InferenceMux` => `CircuitBreaker` (fairness and `ENABLED` are out of the prover's
reach; the safety part of the refinement is planned), `GapIsFilled`, `ChosenRangeValid`, and the invariants of
`ShardSession`, `InferenceMux` and `PersistentConnection`.

## Not modelled, and observations

Tensor arithmetic, tokenisation, sampling, trust scores (floating point), frame and
record encodings, HTTP parsing, printing. The unary fallback of the proxy, and the
one-shot control requests to `p2pd`. `coverage_check` slices an array by announced ranges; the instances take
ranges that start within the model and before their end.

Seen while modelling, without a run of their own:

* A node that is the only server of a block may leave it when stale DHT records
  still count as coverage (`check_rebalance`).
* With `rebalance_min_redundancy = 0`, which the configuration accepts, a node leaves
  the gap it has just filled at every tick: to itself it stays a gap.
* The announced end uses the configured block count, the loaded range the nearest
  valid one (`snap_to_valid_blocks`); they differ when the configured count is not
  a valid one.
* Two peers in a row without an inference handler end a session although a third
  covers the blocks, because the path is rebuilt once per token.
* `p2pd` restarts leave the hello, proxy and mux handlers unregistered; only the DHT
  stream handlers are registered again.
* The doc of `unannounce` speaks of already-expired timestamps; the code stores with
  now + 360 s, for the reason its inner comment gives.

## Plan

In this order; each module with its instance, properties for the hazards in
`PROJECT.json`, and proofs where an invariant holds for all constants.

1. `Storage`: tenants and vectors in redb and index as two steps per operation,
   concurrent uploads, deletes and tenant deletion, crash and `rebuild_indices`,
   quotas. Abstract specification `VectorMap` (one map, atomic operations), with the
   refinement checked where the code serialises and the divergence shown where it
   does not. Proof: after a restart the index equals the table.
2. `GrpcSession`: dispatcher, operations, cancel registry, bounded output. One
   terminal frame per operation, cancel reaches its target, no stuck dispatcher
   while the client reads.
3. `NodeLoop` with `DHTStorage`: announcements to several bootstrap peers with loss
   and expiry, `p2pd` restarts and handler registration, the children and their pid
   files; composed with `Rebalancer` so that the view it decides on comes from the
   DHT's own storage instead of one set of records. Safety of placement while `p2pd` restarts,
   liveness of re-announcement.
4. `IngestPipeline`: semaphore, bounded channel, drain; deadlock freedom for every
   number of workers and chunks, the sequential drain as the failing variant.
5. `LocalFiles`: `circuits.json` and `reputation.json` under concurrent commands.
6. Proofs: inductive invariants of `PersistentConnection` (`OnlyLateCallsHang`,
   `AnsweredOnce`) and `InferenceMux` (`RoutedToOwner`), the safety part of
   `InferenceMux` => `CircuitBreaker`, `ActivationFollowsPath` of `ShardSession` on
   top of `OneCandidatePerHop`, `ChosenRangeValid`.
