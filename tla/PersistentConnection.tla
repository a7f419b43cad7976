------------------------ MODULE PersistentConnection ------------------------
(***************************************************************************)
(* Unary RPC over p2pd (kwaai-p2p-daemon/src/persistent.rs) and the slot   *)
(* that holds the current connection (get_persistent_connection in         *)
(* client.rs).  Tasks of one client call remote handlers and register or   *)
(* remove their own; the reader task of a connection completes them by     *)
(* call id and dispatches incoming requests.  p2pd is external: it answers *)
(* in any order, or not at all, and may close the connection at any time.  *)
(***************************************************************************)
EXTENDS Naturals, FiniteSets

CONSTANTS
    Tasks,     \* tasks that use the client, one operation each
    Op,        \* Op[t] \in {"call", "add", "remove"}, on the one protocol
    Incoming,  \* requests remote peers send to that protocol
    None,      \* Option::None
    MaxConns   \* bound: connections opened

VARIABLES
    task,    \* task[t]: where t is, its connection and the reply it received
    conn,    \* conn[k]: the k-th PersistentConnection and p2pd's end of it
    nconns,  \* connections opened so far
    slot,    \* P2PClient.persistent: a connection or None
    incoming \* incoming[q]: where the remote request is, and its answers

vars == <<task, conn, nconns, slot, incoming>>

Conns == 1..MaxConns

\* reader: "up"; "failed" before the pending calls are drained; "drained"
\* before the task has finished; "gone".  open: p2pd has not closed its end.
\* registered: p2pd forwards requests for the protocol here.  crossed: an add and
\* a remove were under way together.
NewConn == [reader |-> "up", open |-> TRUE, pending |-> {}, handler |-> FALSE,
            registered |-> FALSE, crossed |-> FALSE, sent |-> {}, replies |-> {}]

\* is_alive: the reader task has not finished.
is_alive(k) == conn[k].reader # "gone"

NewTask == [pc |-> "idle", conn |-> None, reply |-> None, late |-> FALSE]

\* The operation of t returns its result or an error to the caller.
Done(t) == task' = [task EXCEPT ![t] = [NewTask EXCEPT !.pc = "done"]]

-----------------------------------------------------------------------------
(* call_unary, add_unary_handler and remove_unary_handler by task t.       *)

GetSlotAhead(t) ==
    /\ task[t].pc = "idle"
    /\ nconns < MaxConns
    /\ nconns' = nconns + 1
    /\ slot' = nconns' + 1
    /\ task' = [task EXCEPT ![t].pc = "insert", ![t].conn = nconns']
    /\ UNCHANGED <<conn, incoming>>

\* get_persistent_connection, under the slot's mutex: the cached connection if
\* it is alive, else a new one, or an error.
Get(t) ==
    /\ task[t].pc = "idle"
    /\ IF slot # None /\ is_alive(slot)
         THEN /\ task' = [task EXCEPT ![t].pc = "insert", ![t].conn = slot]
              /\ UNCHANGED <<conn, nconns, slot>>
         ELSE \/ /\ nconns < MaxConns
                 /\ nconns' = nconns + 1
                 /\ slot' = nconns'
                 /\ task' = [task EXCEPT ![t].pc = "insert", ![t].conn = nconns']
                 /\ UNCHANGED conn
              \/ /\ slot' = None
                 /\ Done(t)
                 /\ UNCHANGED <<conn, nconns>>
    /\ UNCHANGED incoming

\* The oneshot sender goes into pending_calls.
Insert(t) ==
    /\ task[t].pc = "insert"
    /\ conn' = [conn EXCEPT ![task[t].conn].pending = @ \cup {t}]
    /\ task' = [task EXCEPT ![t].pc = "write", ![t].late = conn[task[t].conn].reader
                                                    \in {"drained", "gone"}]
    /\ UNCHANGED <<nconns, slot, incoming>>

\* The adds and removes that connection k has been sent and that
\* have not returned.
Underway(k) == {u \in Tasks : Op[u] # "call" /\ task[u].conn = k /\ task[u].pc = "wait"}

\* The request is written.  Once p2pd has closed, the write fails and the entry
\* stays behind, or it ends up in the socket's buffer and is lost.
Write(t) ==
    /\ task[t].pc = "write"
    /\ LET k == task[t].conn
       IN  \/ /\ task' = [task EXCEPT ![t].pc = "wait"]
              /\ conn' = IF conn[k].open
                           THEN [conn EXCEPT ![k].sent = @ \cup {t},
                                             ![k].crossed = @ \/ (Op[t] # "call" /\ Underway(k) # {})]
                           ELSE conn
           \/ ~conn[k].open /\ Done(t) /\ UNCHANGED conn
    /\ UNCHANGED <<nconns, slot, incoming>>

ReturnStores(t) ==
    /\ task[t].pc = "wait" /\ task[t].reply # None
    /\ Done(t)
    /\ conn' = IF task[t].reply # "closed" /\ Op[t] # "call"
                 THEN [conn EXCEPT ![task[t].conn].handler = Op[t] = "add"]
                 ELSE conn
    /\ UNCHANGED <<nconns, slot, incoming>>

\* The reply arrives.  A handler is stored or removed only now, and only if p2pd
\* did not answer with an error.
Return(t) ==
    /\ task[t].pc = "wait" /\ task[t].reply # None
    /\ Done(t)
    /\ conn' = IF task[t].reply = "ok" /\ Op[t] # "call"
                 THEN [conn EXCEPT ![task[t].conn].handler = Op[t] = "add"]
                 ELSE conn
    /\ UNCHANGED <<nconns, slot, incoming>>

-----------------------------------------------------------------------------
(* The reader task of connection k.                                        *)

\* A message that does not decode, or whose call id is no UUID, is skipped: its
\* call stays pending.
SkipReply(k) ==
    /\ conn[k].reader = "up"
    /\ \E m \in conn[k].replies : conn' = [conn EXCEPT ![k].replies = @ \ {m}]
    /\ UNCHANGED <<task, nconns, slot, incoming>>

\* Replies are routed by call id; a reply to nobody is ignored.
ReadReply(k) ==
    /\ conn[k].reader = "up"
    /\ \E m \in conn[k].replies :
          /\ conn' = [conn EXCEPT ![k].replies = @ \ {m}, ![k].pending = @ \ {m.to}]
          /\ task' = IF m.to \in conn[k].pending
                       THEN [task EXCEPT ![m.to].reply = m.result]
                       ELSE task
    /\ UNCHANGED <<nconns, slot, incoming>>

ReadRequestFallsThrough(k) ==
    /\ conn[k].reader = "up"
    /\ \E q \in Incoming :
          /\ incoming[q].pc = "sent" /\ incoming[q].conn = k
          /\ incoming' = [incoming EXCEPT ![q].pc = IF conn[k].handler THEN "handling" ELSE "answered",
                                          ![q].answers = @ + 1]
    /\ UNCHANGED <<task, conn, nconns, slot>>

\* An incoming request: a handler is started in the background, or the reader
\* answers itself that there is none.
ReadRequest(k) ==
    /\ conn[k].reader = "up"
    /\ \E q \in Incoming :
          /\ incoming[q].pc = "sent" /\ incoming[q].conn = k
          /\ incoming' = IF conn[k].handler
                           THEN [incoming EXCEPT ![q].pc = "handling"]
                           ELSE [incoming EXCEPT ![q].pc = "answered",
                                                 ![q].answers = IF conn[k].open THEN @ + 1 ELSE @]
    /\ UNCHANGED <<task, conn, nconns, slot>>

\* A handler started by the reader returns; its answer is written, and reaches
\* p2pd if that has not closed, whatever became of the reader.
HandlerReturns(q) ==
    /\ incoming[q].pc = "handling"
    /\ incoming' = [incoming EXCEPT ![q].pc = "answered",
                      ![q].answers = IF conn[incoming[q].conn].open THEN @ + 1 ELSE @]
    /\ UNCHANGED <<task, conn, nconns, slot>>

ReadFailsContinues(k) ==
    /\ conn[k].reader = "up"
    /\ UNCHANGED vars

\* read_varint_message fails: the stream has ended or was reset, or a length is
\* malformed.  What p2pd has sent and sends from now on is not read.
ReadFails(k) ==
    /\ conn[k].reader = "up"
    /\ conn' = [conn EXCEPT ![k].reader = "failed", ![k].replies = {}]
    /\ UNCHANGED <<task, nconns, slot, incoming>>

DrainWritten(k) ==
    /\ conn[k].reader = "failed"
    /\ conn' = [conn EXCEPT ![k].reader = "drained",
                            ![k].pending = {t \in @ : task[t].pc # "wait"}]
    /\ task' = [t \in Tasks |-> IF t \in conn[k].pending /\ task[t].pc = "wait"
                                  THEN [task[t] EXCEPT !.reply = "closed"]
                                  ELSE task[t]]
    /\ UNCHANGED <<nconns, slot, incoming>>

\* Every pending call is completed with an error.
Drain(k) ==
    /\ conn[k].reader = "failed"
    /\ conn' = [conn EXCEPT ![k].reader = "drained", ![k].pending = {}]
    /\ task' = [t \in Tasks |-> IF t \in conn[k].pending
                                  THEN [task[t] EXCEPT !.reply = "closed"]
                                  ELSE task[t]]
    /\ UNCHANGED <<nconns, slot, incoming>>

ReaderEnds(k) ==
    /\ conn[k].reader = "drained"
    /\ conn' = [conn EXCEPT ![k].reader = "gone"]
    /\ UNCHANGED <<task, nconns, slot, incoming>>

-----------------------------------------------------------------------------
(* p2pd's end of connection k.                                             *)

\* p2pd carries out a request it received and answers it.
P2pdAnswers(k) ==
    /\ conn[k].open
    /\ \E t \in conn[k].sent, result \in {"ok", "error"} :
          conn' = [conn EXCEPT
                     ![k].sent = @ \ {t},
                     ![k].replies = IF conn[k].reader = "up"
                                      THEN @ \cup {[to |-> t, result |-> result]} ELSE @,
                     ![k].registered = IF result = "ok" /\ Op[t] # "call"
                                         THEN Op[t] = "add" ELSE @]
    /\ UNCHANGED <<task, nconns, slot, incoming>>

\* A remote peer's request is forwarded to a connection that registered.
P2pdForwards(k) ==
    /\ conn[k].open /\ conn[k].registered
    /\ \E q \in Incoming :
          /\ incoming[q].pc = "new"
          /\ incoming' = [incoming EXCEPT ![q].pc = "sent", ![q].conn = k]
    /\ UNCHANGED <<task, conn, nconns, slot>>

\* p2pd closes its end, or dies.
P2pdCloses(k) ==
    /\ conn[k].open
    /\ conn' = [conn EXCEPT ![k].open = FALSE, ![k].registered = FALSE,
                            ![k].sent = {}]
    /\ UNCHANGED <<task, nconns, slot, incoming>>

-----------------------------------------------------------------------------
Init ==
    /\ task = [t \in Tasks |-> NewTask]
    /\ conn = [k \in Conns |-> NewConn]
    /\ nconns = 0
    /\ slot = None
    /\ incoming = [q \in Incoming |-> [pc |-> "new", conn |-> None, answers |-> 0]]

TaskStep(t) == Get(t) \/ Insert(t) \/ Write(t) \/ Return(t)

\* The reader reads what p2pd sends, or ends.
Reads(k) == ReadReply(k) \/ SkipReply(k) \/ ReadRequest(k) \/ ReadFails(k)
Ends(k) == Drain(k) \/ ReaderEnds(k)

Next ==
    \/ \E t \in Tasks : TaskStep(t)
    \/ \E k \in 1..nconns : \/ Reads(k) \/ Ends(k)
                            \/ P2pdAnswers(k) \/ P2pdForwards(k) \/ P2pdCloses(k)
    \/ \E q \in Incoming : HandlerReturns(q)

\* The runtime polls every ready task.  Nothing makes p2pd answer or read, so a
\* read or a write is bound to end only once p2pd has closed the connection:
\* what is left of the stream is read to its end, and a write no longer blocks.
Fairness ==
    /\ \A t \in Tasks : WF_vars(Insert(t) \/ Return(t)
                                \/ (Write(t) /\ ~conn[task[t].conn].open))
    /\ \A k \in Conns : WF_vars(k <= nconns /\ (Ends(k) \/ (Reads(k) /\ ~conn[k].open)))

Spec == Init /\ [][Next]_vars /\ Fairness

-----------------------------------------------------------------------------
\* The types of the connections' and tasks' state.
TypeOK ==
    /\ \A t \in Tasks : /\ task[t].pc \in {"idle", "insert", "write", "wait", "done"}
                        /\ task[t].conn \in 1..nconns \cup {None}
                        /\ task[t].reply \in {None, "ok", "error", "closed"}
    /\ \A k \in Conns : conn[k].pending \subseteq Tasks /\ conn[k].sent \subseteq Tasks
    /\ slot \in 1..nconns \cup {None}
    /\ \A q \in Incoming : incoming[q].pc \in {"new", "sent", "handling", "answered"}

\* A task waits without a reply on a connection whose reader has drained only if
\* it inserted its call after the drain; every call that was in the map at the
\* drain was completed by it, written or not (the drain in spawn_reader).
OnlyLateCallsHang ==
    \A t \in Tasks :
        (task[t].pc \in {"write", "wait"} /\ task[t].reply = None
           /\ conn[task[t].conn].reader \in {"drained", "gone"}) => task[t].late

\* What the client stored and what p2pd registered agree whenever no add or remove
\* is under way, unless the two crossed: outside that window p2pd forwards no
\* request to a connection that answers it "handler not found", whatever replies
\* were errors, skipped or out of order (add_unary_handler, remove_unary_handler).
HandlersAgree ==
    \A k \in 1..nconns :
        (conn[k].open /\ conn[k].reader = "up" /\ ~conn[k].crossed /\ Underway(k) = {})
           => conn[k].handler = conn[k].registered

\* A remote request is answered at most once, by the handler or by the reader,
\* however the handler is registered and removed meanwhile.
AnsweredOnce == \A q \in Incoming : incoming[q].answers <= 1

\* An operation returns once p2pd has closed its connection, however far it got
\* and whatever reply was lost or skipped, unless it was inserted after the drain.
\* Before that nothing bounds it: call_unary has no timeout.
ClosedConnectionEndsCalls ==
    \A t \in Tasks :
        (task[t].pc \in {"insert", "write", "wait"} /\ ~conn[task[t].conn].open)
          ~> (task[t].pc = "done" \/ task[t].late)

=============================================================================
