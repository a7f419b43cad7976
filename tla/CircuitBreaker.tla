--------------------------- MODULE CircuitBreaker ---------------------------
(***************************************************************************)
(* The per-peer circuit breaker of the inference proxies                   *)
(* (kwaai-cli/src/circuit_breaker.rs) and the proxy connections that       *)
(* consult it (handle_connection in kwaai-cli/src/ollama_proxy.rs).  Each  *)
(* breaker method holds the map's mutex throughout, so it is one step.     *)
(* Between `allow` and the outcome it leads to a request is in flight:     *)
(* other requests are admitted, fail and succeed meanwhile, and the clock  *)
(* runs.                                                                   *)
(***************************************************************************)
EXTENDS Naturals

CONSTANTS
    Peers,              \* remote inference peers
    Requests,           \* proxy connections that may be open at one time
    None,               \* Option::None
    FAILURE_THRESHOLD,  \* failures that trip the circuit
    OPEN_DURATION,      \* cooldown, in clock ticks
    MaxTime,            \* bound: the clock stops there
    MaxFailures         \* bound: failures recorded for a peer between resets

ASSUME NoneAssumption == None \notin Nat \cup Peers
ASSUME ThresholdAssumption == FAILURE_THRESHOLD \in Nat \ {0}
ASSUME DurationAssumption == OPEN_DURATION \in Nat

VARIABLES
    peers,     \* peers[p]: the PeerEntry of p
    inflight,  \* inflight[r]: the peer request r was admitted to, or None
    probes,    \* the requests in flight that a HalfOpen circuit admitted
    now        \* Instant::now()

vars == <<peers, inflight, probes, now>>

State == {"Closed", "Open", "HalfOpen"}

PeerEntry == [state : State, failures : Nat, opened_at : Nat \cup {None}]

\* PeerEntry::default().  A peer that is not in the map has this entry: every
\* method starts with entry().or_default().
DefaultEntry == [state |-> "Closed", failures |-> 0, opened_at |-> None]

-----------------------------------------------------------------------------
(* The three methods, on the entry e of one peer at time t.                *)

CooldownElapsed(e, t) == e.opened_at # None /\ t >= e.opened_at + OPEN_DURATION

\* What `allow` answers, and the entry it leaves.
Allows(e, t) == e.state = "Open" => CooldownElapsed(e, t)

AfterAllowTooEarly(e, t) ==
    IF e.state = "Open" THEN [e EXCEPT !.state = "HalfOpen"] ELSE e

AfterAllow(e, t) ==
    IF e.state = "Open" /\ CooldownElapsed(e, t)
      THEN [e EXCEPT !.state = "HalfOpen"]
      ELSE e

\* record_failure opens a circuit that is not open already, and so leaves the
\* cooldown of an open one alone.
AfterFailureRestarts(e, t) ==
    LET n == e.failures + 1
    IN  IF n >= FAILURE_THRESHOLD \/ e.state = "HalfOpen"
          THEN [state |-> "Open", failures |-> n, opened_at |-> t]
          ELSE [e EXCEPT !.failures = n]

AfterFailureOffByOne(e, t) ==
    IF (e.failures >= FAILURE_THRESHOLD \/ e.state = "HalfOpen") /\ e.state # "Open"
      THEN [state |-> "Open", failures |-> e.failures + 1, opened_at |-> t]
      ELSE [e EXCEPT !.failures = @ + 1]

AfterFailure(e, t) ==
    LET n == e.failures + 1
        should_open == n >= FAILURE_THRESHOLD \/ e.state = "HalfOpen"
    IN  IF should_open /\ e.state # "Open"
          THEN [state |-> "Open", failures |-> n, opened_at |-> t]
          ELSE [e EXCEPT !.failures = n]

-----------------------------------------------------------------------------
(* One proxy connection r to peer p.                                       *)

\* `allow` refuses: the connection is answered 503 and closed.
Refuse(r, p) ==
    /\ inflight[r] = None
    /\ ~Allows(peers[p], now)
    /\ peers' = [peers EXCEPT ![p] = AfterAllow(@, now)]
    /\ UNCHANGED <<inflight, probes, now>>

\* `allow` admits: the P2P call starts.
Admit(r, p) ==
    /\ inflight[r] = None
    /\ Allows(peers[p], now)
    /\ peers' = [peers EXCEPT ![p] = AfterAllow(@, now)]
    /\ inflight' = [inflight EXCEPT ![r] = p]
    /\ probes' = IF peers'[p].state = "HalfOpen" THEN probes \cup {r} ELSE probes
    /\ UNCHANGED now

\* `allow` admits, but the request does not parse: it is answered 400 and no
\* outcome is ever recorded for it.
BadRequest(r, p) ==
    /\ inflight[r] = None
    /\ Allows(peers[p], now)
    /\ peers' = [peers EXCEPT ![p] = AfterAllow(@, now)]
    /\ UNCHANGED <<inflight, probes, now>>

Finish(r) ==
    /\ inflight' = [inflight EXCEPT ![r] = None]
    /\ probes' = probes \ {r}

SucceedDecrements(r) ==
    /\ inflight[r] # None
    /\ peers' = [peers EXCEPT ![inflight[r]] =
                   [DefaultEntry EXCEPT !.failures = peers[inflight[r]].failures - 1]]
    /\ Finish(r)
    /\ UNCHANGED now

\* The call returned: record_success, whatever state the circuit is in by now.
Succeed(r) ==
    /\ inflight[r] # None
    /\ peers' = [peers EXCEPT ![inflight[r]] = DefaultEntry]
    /\ Finish(r)
    /\ UNCHANGED now

\* The call failed: record_failure, then 502.
Fail(r) ==
    /\ inflight[r] # None
    /\ peers[inflight[r]].failures < MaxFailures
    /\ peers' = [peers EXCEPT ![inflight[r]] = AfterFailure(@, now)]
    /\ Finish(r)
    /\ UNCHANGED now

Tick ==
    /\ now < MaxTime
    /\ now' = now + 1
    /\ UNCHANGED <<peers, inflight, probes>>

Init ==
    /\ peers = [p \in Peers |-> DefaultEntry]
    /\ inflight = [r \in Requests |-> None]
    /\ probes = {}
    /\ now = 0

Next ==
    \/ \E r \in Requests, p \in Peers : Refuse(r, p) \/ Admit(r, p) \/ BadRequest(r, p)
    \/ \E r \in Requests : Succeed(r) \/ Fail(r)
    \/ Tick

Spec == Init /\ [][Next]_vars

-----------------------------------------------------------------------------
\* The type of the state: the breaker's map, the requests in flight, the clock.
TypeOK ==
    /\ peers \in [Peers -> PeerEntry]
    /\ inflight \in [Requests -> Peers \cup {None}]
    /\ probes \subseteq Requests
    /\ now \in Nat

\* The circuit of a peer is Closed exactly while fewer than FAILURE_THRESHOLD
\* failures were recorded since the last success, and carries the time of its
\* trip exactly while it is not Closed, however the outcomes of concurrent
\* requests interleave (record_failure, record_success).
TrippedIffThreshold ==
    \A p \in Peers :
        /\ peers[p].state = "Closed" <=> peers[p].failures < FAILURE_THRESHOLD
        /\ peers[p].state = "Closed" <=> peers[p].opened_at = None

\* No clock reading recorded as a trip lies in the future, and a circuit is
\* HalfOpen only once its cooldown is over: `allow` alone leads there, and
\* record_failure dates a new trip only when it opens the circuit.
TripDates ==
    \A p \in Peers :
        /\ peers[p].opened_at # None => peers[p].opened_at <= now
        /\ peers[p].state = "HalfOpen" => CooldownElapsed(peers[p], now)

\* A request is put in flight to a peer whose circuit has tripped and not been
\* closed since only when OPEN_DURATION has passed since the trip (`allow`).
NoAdmissionDuringCooldown ==
    [][\A r \in Requests, p \in Peers :
          (inflight[r] # p /\ inflight'[r] = p)
             => \/ peers[p].failures < FAILURE_THRESHOLD
                \/ CooldownElapsed(peers[p], now)]_vars

\* Failures of requests that were already in flight when the circuit tripped
\* do not prolong its cooldown: while a circuit stays open its trip time
\* stays (the `entry.state != State::Open` test of record_failure).
StragglersKeepCooldown ==
    [][\A p \in Peers :
          peers[p].state = "Open" /\ peers'[p].state = "Open"
             => peers'[p].opened_at = peers[p].opened_at]_vars

\* "HalfOpen: let exactly one probe through (caller decides outcome)": at most
\* one request that a HalfOpen circuit admitted is in flight per peer (`allow`).
OneProbe ==
    \A r, s \in probes : inflight[r] = inflight[s] => r = s

=============================================================================
