------------------------ MODULE CircuitBreakerProofs ------------------------
(***************************************************************************)
(* The invariants of CircuitBreaker for every threshold, cooldown, set of  *)
(* peers and number of concurrent requests.                                *)
(***************************************************************************)
EXTENDS CircuitBreaker, TLAPS

\* What the two invariants say of a single entry e at time t.
GoodEntry(e, t) ==
    /\ e.state = "Closed" <=> e.failures < FAILURE_THRESHOLD
    /\ e.state = "Closed" <=> e.opened_at = None
    /\ e.opened_at # None => e.opened_at <= t
    /\ e.state = "HalfOpen" => CooldownElapsed(e, t)

\* Together with the type, the two invariants are inductive.
IInv == TypeOK /\ TrippedIffThreshold /\ TripDates

\* The entry of a peer nothing was recorded for is well formed.
LEMMA DefaultGood ==
    ASSUME NEW t \in Nat
    PROVE  DefaultEntry \in PeerEntry /\ GoodEntry(DefaultEntry, t)
BY NoneAssumption, ThresholdAssumption
   DEF DefaultEntry, PeerEntry, State, GoodEntry, CooldownElapsed

\* `allow` keeps an entry well formed, and admits only below the threshold or
\* after the cooldown.
LEMMA AllowGood ==
    ASSUME NEW t \in Nat, NEW e \in PeerEntry, GoodEntry(e, t)
    PROVE  /\ AfterAllow(e, t) \in PeerEntry
           /\ GoodEntry(AfterAllow(e, t), t)
           /\ Allows(e, t) => e.failures < FAILURE_THRESHOLD \/ CooldownElapsed(e, t)
<1>1. CASE e.state = "Open" /\ CooldownElapsed(e, t)
  <2>1. AfterAllow(e, t) = [e EXCEPT !.state = "HalfOpen"]
    BY <1>1 DEF AfterAllow
  <2> QED
    BY <1>1, <2>1, NoneAssumption, DurationAssumption
       DEF PeerEntry, State, GoodEntry, CooldownElapsed, Allows
<1>2. CASE ~(e.state = "Open" /\ CooldownElapsed(e, t))
  BY <1>2 DEF AfterAllow, GoodEntry, Allows, PeerEntry, State
<1> QED
  BY <1>1, <1>2

\* record_failure keeps an entry well formed, and does not move the trip time
\* of a circuit that is open.
LEMMA FailureGood ==
    ASSUME NEW t \in Nat, NEW e \in PeerEntry, GoodEntry(e, t)
    PROVE  /\ AfterFailure(e, t) \in PeerEntry
           /\ GoodEntry(AfterFailure(e, t), t)
           /\ e.state = "Open" => AfterFailure(e, t).opened_at = e.opened_at
<1> DEFINE n == e.failures + 1
           opens == (n >= FAILURE_THRESHOLD \/ e.state = "HalfOpen") /\ e.state # "Open"
<1>1. CASE opens
  <2>1. AfterFailure(e, t) = [state |-> "Open", failures |-> n, opened_at |-> t]
    BY <1>1 DEF AfterFailure
  <2> QED
    BY <1>1, <2>1, NoneAssumption, ThresholdAssumption
       DEF PeerEntry, State, GoodEntry, CooldownElapsed
<1>2. CASE ~opens
  <2>1. AfterFailure(e, t) = [e EXCEPT !.failures = n]
    BY <1>2 DEF AfterFailure
  <2> QED
    BY <1>2, <2>1, NoneAssumption, ThresholdAssumption
       DEF PeerEntry, State, GoodEntry, CooldownElapsed
<1> QED
  BY <1>1, <1>2

\* The clock does not spoil an entry.
LEMMA TickGood ==
    ASSUME NEW t \in Nat, NEW e \in PeerEntry, GoodEntry(e, t)
    PROVE  GoodEntry(e, t + 1)
BY NoneAssumption, DurationAssumption DEF PeerEntry, State, GoodEntry, CooldownElapsed

\* The invariant entry by entry.
LEMMA EntryWise ==
    IInv <=> TypeOK /\ \A p \in Peers : GoodEntry(peers[p], now)
BY DEF IInv, TrippedIffThreshold, TripDates, GoodEntry

\* The initial state satisfies the inductive invariant.
LEMMA InitIInv == Init => IInv
<1> SUFFICES ASSUME Init PROVE IInv
  OBVIOUS
<1>1. TypeOK
  BY DefaultGood DEF Init, TypeOK
<1>2. \A p \in Peers : GoodEntry(peers[p], now)
  BY DefaultGood DEF Init
<1> QED
  BY <1>1, <1>2, EntryWise

\* Every step of the proxies preserves the inductive invariant.
LEMMA NextIInv == IInv /\ [Next]_vars => IInv'
<1> SUFFICES ASSUME IInv, [Next]_vars
             PROVE  TypeOK' /\ \A p \in Peers : GoodEntry(peers'[p], now')
  BY EntryWise DEF IInv, TypeOK, TrippedIffThreshold, TripDates, GoodEntry
<1>0. TypeOK /\ \A p \in Peers : GoodEntry(peers[p], now)
  BY EntryWise
<1>1. ASSUME NEW r \in Requests, NEW p \in Peers, Refuse(r, p) \/ BadRequest(r, p)
      PROVE  TypeOK' /\ \A q \in Peers : GoodEntry(peers'[q], now')
  BY <1>0, <1>1, AllowGood DEF Refuse, BadRequest, TypeOK
<1>2. ASSUME NEW r \in Requests, NEW p \in Peers, Admit(r, p)
      PROVE  TypeOK' /\ \A q \in Peers : GoodEntry(peers'[q], now')
  BY <1>0, <1>2, AllowGood DEF Admit, TypeOK
<1>3. ASSUME NEW r \in Requests, Succeed(r)
      PROVE  TypeOK' /\ \A q \in Peers : GoodEntry(peers'[q], now')
  BY <1>0, <1>3, DefaultGood DEF Succeed, Finish, TypeOK
<1>4. ASSUME NEW r \in Requests, Fail(r)
      PROVE  TypeOK' /\ \A q \in Peers : GoodEntry(peers'[q], now')
  BY <1>0, <1>4, FailureGood DEF Fail, Finish, TypeOK
<1>5. CASE Tick
  BY <1>0, <1>5, TickGood DEF Tick, TypeOK
<1>6. CASE UNCHANGED vars
  BY <1>0, <1>6 DEF vars, TypeOK
<1> QED
  BY <1>1, <1>2, <1>3, <1>4, <1>5, <1>6 DEF Next

\* The state of the breaker and of its callers stays well typed.
THEOREM TypeCorrect == Spec => []TypeOK
BY InitIInv, NextIInv, PTL DEF Spec, IInv

\* A circuit is Closed exactly while fewer than FAILURE_THRESHOLD failures were
\* recorded since the last success, for any number of concurrent requests.
THEOREM TripsAtThreshold == Spec => []TrippedIffThreshold
BY InitIInv, NextIInv, PTL DEF Spec, IInv

\* A circuit is HalfOpen only after its cooldown.
THEOREM HalfOpenAfterCooldown == Spec => []TripDates
BY InitIInv, NextIInv, PTL DEF Spec, IInv

\* What a step may never do, given the invariant: admit during a cooldown.
LEMMA StepAdmission ==
    IInv /\ [Next]_vars =>
      \A r \in Requests, p \in Peers :
          (inflight[r] # p /\ inflight'[r] = p)
             => \/ peers[p].failures < FAILURE_THRESHOLD
                \/ CooldownElapsed(peers[p], now)
<1> SUFFICES ASSUME IInv, [Next]_vars, NEW r \in Requests, NEW p \in Peers,
                    inflight[r] # p, inflight'[r] = p
             PROVE  peers[p].failures < FAILURE_THRESHOLD \/ CooldownElapsed(peers[p], now)
  OBVIOUS
<1>0. TypeOK /\ GoodEntry(peers[p], now) /\ p # None
  BY EntryWise, NoneAssumption
<1>1. ASSUME NEW s \in Requests, NEW q \in Peers, Admit(s, q)
      PROVE  s = r /\ q = p /\ Allows(peers[p], now)
  BY <1>0, <1>1 DEF Admit, TypeOK
<1>2. ASSUME NEW s \in Requests, NEW q \in Peers, Refuse(s, q) \/ BadRequest(s, q)
      PROVE  FALSE
  BY <1>0, <1>2 DEF Refuse, BadRequest
<1>3. ASSUME NEW s \in Requests, Succeed(s) \/ Fail(s)
      PROVE  FALSE
  BY <1>0, <1>3 DEF Succeed, Fail, Finish, TypeOK
<1>4. ~Tick /\ ~UNCHANGED vars
  BY DEF Tick, vars
<1>5. Allows(peers[p], now)
  BY <1>1, <1>2, <1>3, <1>4 DEF Next
<1> QED
  BY <1>0, <1>5, AllowGood DEF TypeOK

\* A tripped circuit admits nothing before its cooldown is over, whatever the
\* requests already in flight do meanwhile.
THEOREM CooldownHolds == Spec => NoAdmissionDuringCooldown
<1>1. IInv /\ [Next]_vars => [\A r \in Requests, p \in Peers :
          (inflight[r] # p /\ inflight'[r] = p)
             => \/ peers[p].failures < FAILURE_THRESHOLD
                \/ CooldownElapsed(peers[p], now)]_vars
  BY StepAdmission
<1> QED
  BY <1>1, InitIInv, NextIInv, PTL DEF Spec, NoAdmissionDuringCooldown

\* What a step may never do to an open circuit: move the date of its trip.
LEMMA StepTripDate ==
    IInv /\ [Next]_vars =>
      \A p \in Peers :
          peers[p].state = "Open" /\ peers'[p].state = "Open"
             => peers'[p].opened_at = peers[p].opened_at
<1> SUFFICES ASSUME IInv, [Next]_vars, NEW p \in Peers,
                    peers[p].state = "Open", peers'[p].state = "Open"
             PROVE  peers'[p].opened_at = peers[p].opened_at
  OBVIOUS
<1>0. peers \in [Peers -> PeerEntry] /\ inflight \in [Requests -> Peers \cup {None}]
  BY DEF IInv, TypeOK
<1>1. ASSUME NEW r \in Requests, NEW q \in Peers,
             Refuse(r, q) \/ Admit(r, q) \/ BadRequest(r, q)
      PROVE  peers'[p].opened_at = peers[p].opened_at
  BY <1>0, <1>1 DEF Refuse, Admit, BadRequest, AfterAllow, PeerEntry
<1>2. ASSUME NEW r \in Requests, Succeed(r)
      PROVE  peers'[p].opened_at = peers[p].opened_at
  BY <1>0, <1>2 DEF Succeed, DefaultEntry
<1>3. ASSUME NEW r \in Requests, Fail(r)
      PROVE  peers'[p].opened_at = peers[p].opened_at
  BY <1>0, <1>3 DEF Fail, AfterFailure, PeerEntry
<1>4. ASSUME Tick \/ UNCHANGED vars
      PROVE  peers'[p].opened_at = peers[p].opened_at
  BY <1>4 DEF Tick, vars
<1> QED
  BY <1>1, <1>2, <1>3, <1>4 DEF Next

\* Failures that arrive while a circuit is open do not prolong its cooldown.
THEOREM CooldownNotProlonged == Spec => StragglersKeepCooldown
<1>1. IInv /\ [Next]_vars => [\A p \in Peers :
          peers[p].state = "Open" /\ peers'[p].state = "Open"
             => peers'[p].opened_at = peers[p].opened_at]_vars
  BY StepTripDate
<1> QED
  BY <1>1, InitIInv, NextIInv, PTL DEF Spec, StragglersKeepCooldown
=============================================================================
