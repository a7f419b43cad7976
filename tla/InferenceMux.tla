---------------------------- MODULE InferenceMux ----------------------------
(***************************************************************************)
(* The inference multiplexer (kwaai-cli/src/inference_mux.rs): proxy       *)
(* connections to one peer share a client, which carries their requests    *)
(* over one stream and routes the answers by request id.  A client has a   *)
(* reader and a writer task; either may lose the stream at any time.  The  *)
(* shared slot is guarded by an RwLock that is held across a connect.      *)
(***************************************************************************)
EXTENDS Naturals, FiniteSets

CONSTANTS
    Requests,           \* proxy connections, one request each
    Peer,               \* the peer behind the proxy
    None,               \* Option::None
    FAILURE_THRESHOLD,  \* of the peer's circuit breaker
    OPEN_DURATION,      \* of the peer's circuit breaker
    QueueCapacity,      \* frames a client takes before one is written: the 256 of
                        \* its channel and the one in the writer task's hands
    MaxTime,            \* bound: the clock stops there
    MaxClients          \* bound: clients connected

ASSUME QueueAssumption == QueueCapacity \in Nat \ {0}

VARIABLES
    req,       \* req[r]: where the task of r is, what it holds
    cl,        \* cl[c]: the c-th InferenceMuxClient
    nclients,  \* clients connected so far
    shared,    \* SharedMuxClient: a client or None
    lock,      \* the request that holds the write lock, or None
    breaker,   \* the peer's entry in the circuit breaker
    now        \* Instant::now()

vars == <<req, cl, nclients, shared, lock, breaker, now>>

Clients == 1..MaxClients
Ids == 1..(2 * Cardinality(Requests))

\* Requests admitted by the breaker and not answered, and those of them that a
\* HalfOpen circuit admitted.
Admitted == [r \in Requests |-> IF req[r].pc \in {"idle", "done"} THEN None ELSE Peer]
Probes == {r \in Requests : req[r].probe}

\* What the breaker is to the proxy.
B == INSTANCE CircuitBreaker
       WITH Peers <- {Peer}, peers <- [p \in {Peer} |-> breaker],
            inflight <- Admitted, probes <- Probes,
            MaxFailures <- Cardinality(Requests)

NewRequest == [pc |-> "idle", attempt |-> 0, client |-> None, id |-> None,
               reply |-> None, probe |-> FALSE, out |-> None]

\* InferenceMuxClient::connect: both tasks run, nothing is pending.  queue: the
\* frames sent to the writer task and not written yet.
NewClient == [dead |-> FALSE, reader |-> "up", writer |-> "up", next_id |-> 1,
              pending |-> [i \in Ids |-> None], queue |-> {}, wire |-> {}]

\* The bounded channel takes no frame: tx.send waits for room.
Full(c) == cl[c].writer # "gone" /\ Cardinality(cl[c].queue) >= QueueCapacity

Usable(c) == c # None /\ ~cl[c].dead

\* Some task or the slot holds the client's Arc.  The last one to let go drops
\* the client, and what its tasks still do reaches nobody.
Held(c, q, s) == s = c \/ \E r \in Requests : q[r].client = c
Kept(q, s) == [c \in Clients |-> IF Held(c, q, s) THEN cl[c] ELSE NewClient]

Goto(r, l) == req' = [req EXCEPT ![r].pc = l]

\* The task of r answers its connection and ends.
Answered(r, code) ==
    [req EXCEPT ![r] = [NewRequest EXCEPT !.pc = "done", !.out = code]]

-----------------------------------------------------------------------------
(* handle_mux_proxy_connection, up to the attempts.                        *)

\* The request is read; the breaker refuses it, or it does not parse, or its
\* first attempt starts.
Arrive(r) ==
    /\ req[r].pc = "idle"
    /\ breaker' = B!AfterAllow(breaker, now)
    /\ IF B!Allows(breaker, now)
         THEN \/ req' = Answered(r, "400")
              \/ req' = [req EXCEPT ![r].pc = "ensure",
                                    ![r].probe = breaker'.state = "HalfOpen"]
         ELSE req' = Answered(r, "503")
    /\ UNCHANGED <<cl, nclients, shared, lock, now>>

\* An attempt of r failed for good: record_failure, 502.
GiveUp(r) ==
    /\ breaker' = B!AfterFailure(breaker, now)
    /\ req' = Answered(r, "502")

-----------------------------------------------------------------------------
(* ensure_mux_client.                                                      *)

\* The read lock: a live client is used, otherwise the write lock is needed.
ReadShared(r) ==
    /\ req[r].pc = "ensure" /\ lock = None
    /\ req' = IF Usable(shared)
                THEN [req EXCEPT ![r].pc = "check", ![r].client = shared]
                ELSE [req EXCEPT ![r].pc = "relock"]
    /\ UNCHANGED <<cl, nclients, shared, lock, breaker, now>>

\* The write lock: the slot is looked at again before a client is connected.
WriteShared(r) ==
    /\ req[r].pc = "relock" /\ lock = None
    /\ IF Usable(shared)
         THEN /\ req' = [req EXCEPT ![r].pc = "check", ![r].client = shared]
              /\ UNCHANGED lock
         ELSE Goto(r, "connecting") /\ lock' = r
    /\ UNCHANGED <<cl, nclients, shared, breaker, now>>

ConnectOk(r) ==
    /\ req[r].pc = "connecting"
    /\ nclients < MaxClients
    /\ nclients' = nclients + 1
    /\ shared' = nclients'
    /\ lock' = None
    /\ req' = [req EXCEPT ![r].pc = "check", ![r].client = nclients']
    /\ cl' = Kept(req', shared')
    /\ UNCHANGED <<breaker, now>>

ConnectFailsCounted(r) ==
    /\ req[r].pc = "connecting"
    /\ lock' = None
    /\ breaker' = B!AfterFailure(breaker, now)
    /\ req' = IF req[r].attempt = 0
                THEN [req EXCEPT ![r].pc = "ensure", ![r].attempt = 1]
                ELSE Answered(r, "502")
    /\ UNCHANGED <<cl, nclients, shared, now>>

ConnectFailsRetries(r) ==
    /\ req[r].pc = "connecting"
    /\ lock' = None
    /\ IF req[r].attempt < 2
         THEN /\ req' = [req EXCEPT ![r].pc = "ensure", ![r].attempt = @ + 1]
              /\ UNCHANGED breaker
         ELSE GiveUp(r)
    /\ UNCHANGED <<cl, nclients, shared, now>>

\* The slot keeps the dead client, if it held one.
ConnectFails(r) ==
    /\ req[r].pc = "connecting"
    /\ lock' = None
    /\ IF req[r].attempt = 0
         THEN /\ req' = [req EXCEPT ![r].pc = "ensure", ![r].attempt = 1]
              /\ UNCHANGED breaker
         ELSE GiveUp(r)
    /\ UNCHANGED <<cl, nclients, shared, now>>

-----------------------------------------------------------------------------
(* InferenceMuxClient::send.                                               *)

\* send returned an error.
SendFailed(r) ==
    IF req[r].attempt = 0
      THEN Goto(r, "invalidate") /\ UNCHANGED breaker
      ELSE GiveUp(r)

CheckDeadLoads(r) ==
    /\ req[r].pc = "check"
    /\ IF cl[req[r].client].dead
         THEN SendFailed(r)
         ELSE /\ req' = [req EXCEPT ![r].pc = "insert", ![r].id = cl[req[r].client].next_id]
              /\ UNCHANGED breaker
    /\ UNCHANGED <<cl, nclients, shared, lock, now>>

\* The dead flag, then next_id.fetch_add.
CheckDead(r) ==
    /\ req[r].pc = "check"
    /\ LET c == req[r].client
       IN  IF cl[c].dead
             THEN SendFailed(r) /\ cl' = Kept(req', shared)
             ELSE /\ req' = [req EXCEPT ![r].pc = "insert", ![r].id = cl[c].next_id]
                  /\ cl' = [cl EXCEPT ![c].next_id = @ + 1]
                  /\ UNCHANGED breaker
    /\ UNCHANGED <<nclients, shared, lock, now>>

\* The oneshot senders of the requests S are dropped: who waits on one learns it.
Dropped(q, S) == [r \in Requests |-> IF r \in S THEN [q[r] EXCEPT !.reply = "closed"] ELSE q[r]]

\* pending.insert; the oneshot it replaces, if any, is dropped.
Insert(r) ==
    /\ req[r].pc = "insert"
    /\ LET c == req[r].client
           i == req[r].id
       IN  /\ req' = [Dropped(req, {cl[c].pending[i]} \ {None}) EXCEPT ![r].pc = "enqueue"]
           /\ cl' = [cl EXCEPT ![c].pending[i] = r]
    /\ UNCHANGED <<nclients, shared, lock, breaker, now>>

\* tx.send: it waits while the channel is full, outside any timer, and fails
\* once the writer task has dropped the receiver.
Enqueue(r) ==
    /\ req[r].pc = "enqueue" /\ ~Full(req[r].client)
    /\ LET c == req[r].client
       IN  IF cl[c].writer = "gone"
             THEN SendFailed(r) /\ cl' = Kept(req', shared)
             ELSE /\ cl' = [cl EXCEPT ![c].queue = @ \cup {[id |-> req[r].id, of |-> r]}]
                  /\ Goto(r, "wait")
                  /\ UNCHANGED breaker
    /\ UNCHANGED <<nclients, shared, lock, now>>

\* The oneshot resolves: an answer ends the request, a dropped sender is an error.
Receive(r) ==
    /\ req[r].pc = "wait" /\ req[r].reply # None
    /\ IF req[r].reply = "closed"
         THEN SendFailed(r)
         ELSE /\ breaker' = B!DefaultEntry
              /\ req' = [Answered(r, "ok") EXCEPT ![r].reply = req[r].reply]
    /\ cl' = Kept(req', shared)
    /\ UNCHANGED <<nclients, shared, lock, now>>

TimeoutNever(r) == FALSE /\ UNCHANGED vars

\* Nothing in 120 s.  The entry stays in the pending map.
Timeout(r) ==
    /\ req[r].pc = "wait" /\ req[r].reply = None
    /\ SendFailed(r)
    /\ cl' = Kept(req', shared)
    /\ UNCHANGED <<nclients, shared, lock, now>>

InvalidateAny(r) ==
    /\ req[r].pc = "invalidate" /\ lock = None
    /\ shared' = None
    /\ req' = [req EXCEPT ![r] = [NewRequest EXCEPT !.pc = "ensure", !.attempt = 1,
                                                    !.probe = req[r].probe]]
    /\ cl' = Kept(req', shared')
    /\ UNCHANGED <<nclients, lock, breaker, now>>

\* After the first failed send: clear the slot if it still holds this client.
Invalidate(r) ==
    /\ req[r].pc = "invalidate" /\ lock = None
    /\ shared' = IF shared = req[r].client THEN None ELSE shared
    /\ req' = [req EXCEPT ![r] = [NewRequest EXCEPT !.pc = "ensure", !.attempt = 1,
                                                    !.probe = req[r].probe]]
    /\ cl' = Kept(req', shared')
    /\ UNCHANGED <<nclients, lock, breaker, now>>

-----------------------------------------------------------------------------
(* The tasks of client c.                                                  *)

\* The requests whose current send waits on an entry of c's pending map.
Waiters(c) ==
    {r \in Requests : req[r].client = c /\ \E i \in Ids : req[r].id = i /\ cl[c].pending[i] = r}

\* The write of a frame completes, if it ever does: a peer that does not read
\* stalls it.  The server's task for the request may answer from now on.
Write(c) ==
    /\ cl[c].writer = "up"
    /\ \E f \in cl[c].queue :
          cl' = [cl EXCEPT ![c].queue = @ \ {f}, ![c].wire = @ \cup {f}]
    /\ UNCHANGED <<req, nclients, shared, lock, breaker, now>>

\* A response frame, in any order: the sender is removed from the map and, if
\* its receiver still waits, resolved.  A frame that does not decode is skipped,
\* which is an answer that stays on the wire for ever.
Read(c) ==
    /\ cl[c].reader = "up"
    /\ \E f \in cl[c].wire :
          LET r == cl[c].pending[f.id]
          IN  /\ cl' = [cl EXCEPT ![c].wire = @ \ {f}, ![c].pending[f.id] = None]
              /\ req' = IF r \in Waiters(c) /\ req[r].id = f.id
                          THEN [req EXCEPT ![r].reply = f.of]
                          ELSE req
    /\ UNCHANGED <<nclients, shared, lock, breaker, now>>

\* A task loses the stream and sets the dead flag.
Break(c) ==
    /\ \/ cl[c].reader = "up" /\ cl' = [cl EXCEPT ![c].dead = TRUE, ![c].reader = "broken"]
       \/ /\ cl[c].writer = "up" /\ cl[c].queue # {}
          /\ cl' = [cl EXCEPT ![c].dead = TRUE, ![c].writer = "broken"]
    /\ UNCHANGED <<req, nclients, shared, lock, breaker, now>>

\* Then it clears the pending map: every sender in it is dropped.
Drain(c) ==
    /\ \E t \in {"reader", "writer"} :
          /\ cl[c][t] = "broken"
          /\ cl' = [cl EXCEPT ![c][t] = "drained", ![c].pending = [i \in Ids |-> None]]
    /\ req' = Dropped(req, Waiters(c))
    /\ UNCHANGED <<nclients, shared, lock, breaker, now>>

\* The writer task ends and drops the receiver of the channel.
WriterExit(c) ==
    /\ cl[c].writer = "drained"
    /\ cl' = [cl EXCEPT ![c].writer = "gone", ![c].queue = {}]
    /\ UNCHANGED <<req, nclients, shared, lock, breaker, now>>

\* Time matters only while the circuit is open, by how long ago it tripped, so
\* the bounded clock is spent there.
Tick ==
    /\ now < MaxTime /\ breaker.state = "Open"
    /\ now' = now + 1
    /\ UNCHANGED <<req, cl, nclients, shared, lock, breaker>>

-----------------------------------------------------------------------------
Init ==
    /\ req = [r \in Requests |-> NewRequest]
    /\ cl = [c \in Clients |-> NewClient]
    /\ nclients = 0
    /\ shared = None
    /\ lock = None
    /\ breaker = B!DefaultEntry
    /\ now = 0

\* The steps of a proxy task that depend on nothing outside the process.
Attempt(r) ==
    \/ ReadShared(r) \/ WriteShared(r) \/ CheckDead(r) \/ Insert(r) \/ Enqueue(r)
    \/ Receive(r) \/ Timeout(r) \/ Invalidate(r)

\* The steps of a client's tasks that depend on nothing outside the process, and
\* those that wait for the stream.
Internal(c) == Held(c, req, shared) /\ (Drain(c) \/ WriterExit(c))
Stream(c) == Held(c, req, shared) /\ (Write(c) \/ Read(c) \/ Break(c))

Next ==
    \/ \E r \in Requests : Arrive(r) \/ Attempt(r) \/ ConnectOk(r) \/ ConnectFails(r)
    \/ \E c \in Clients : Internal(c) \/ Stream(c)
    \/ Tick

\* The runtime polls every ready task again and again, and the 120 s timer fires.
\* Nothing makes a connect return, a stalled write complete or a peer answer.
Fairness ==
    /\ \A r \in Requests : WF_vars(Attempt(r))
    /\ WF_vars(\E c \in Clients : Internal(c))

Spec == Init /\ [][Next]_vars /\ Fairness

-----------------------------------------------------------------------------
\* The types of the multiplexer's state.
TypeOK ==
    /\ \A r \in Requests :
          /\ req[r].pc \in {"idle", "ensure", "relock", "connecting", "check", "insert",
                            "enqueue", "wait", "invalidate", "done"}
          /\ req[r].attempt \in {0, 1}
          /\ req[r].client \in Clients \cup {None}
          /\ req[r].id \in Ids \cup {None}
          /\ req[r].reply \in Requests \cup {None, "closed"}
          /\ req[r].out \in {None, "ok", "400", "502", "503"}
    /\ \A c \in Clients : /\ cl[c].pending \in [Ids -> Requests \cup {None}]
                          /\ Cardinality(cl[c].queue) <= QueueCapacity
    /\ shared \in 1..nclients \cup {None}
    /\ lock \in Requests \cup {None}
    /\ breaker \in B!PeerEntry

\* Answers come in any order, from clients that are replaced under way and to
\* callers that gave up and retried: a request is answered only with the
\* response to itself (request ids, the pending map).
RoutedToOwner ==
    \A r \in Requests : req[r].reply \in Requests => req[r].reply = r

\* A live client in the shared slot is given up only by a request whose own send
\* on it failed: not by one that failed on its predecessor (Arc::ptr_eq), nor by
\* one that found the slot empty before another task filled it (the second look
\* in ensure_mux_client).
LiveClientKept ==
    [][(Usable(shared) /\ shared' # shared)
          => \E r \in Requests : req[r].pc = "invalidate" /\ req[r].client = shared]_vars

\* To the circuit breaker the proxy is a set of requests that each record exactly
\* one outcome when they end, however many attempts, connects and clients it
\* took them: it implements CircuitBreaker.
ImplementsBreaker == B!Spec

\* r connects, or waits for the lock of the slot while another request does.
BehindConnect(r) ==
    \/ req[r].pc = "connecting"
    \/ req[r].pc \in {"ensure", "relock", "invalidate"} /\ lock # None

\* r waits for room in the channel of a writer task that is writing a frame.
OnFullQueue(r) ==
    req[r].pc = "enqueue" /\ Full(req[r].client) /\ cl[req[r].client].writer = "up"

\* Whenever the stream breaks, whoever drains the pending map, and whether or not
\* the peer ever answers, an admitted request is answered, unless it ends up for
\* good in one of the two waits that no timer bounds: a connect that never
\* returns, made under the write lock by it or by another (ensure_mux_client),
\* or the channel of a client whose writer never finishes a write (tx.send).
EveryRequestAnswered ==
    \A r \in Requests :
        ([]<>~BehindConnect(r) /\ []<>~OnFullQueue(r))
          => (req[r].pc = "ensure" ~> req[r].pc = "done")

=============================================================================
