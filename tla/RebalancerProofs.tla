-------------------------- MODULE RebalancerProofs --------------------------
(* When a node wants to move, and the shard.ready file, for any number of   *)
(* nodes, any model and any configuration.                                  *)
EXTENDS Rebalancer, WellFoundedInduction, TLAPS

-----------------------------------------------------------------------------
(* The helpers on naturals.                                                 *)

\* A non-empty set of naturals has a least element.
LEMMA LeastExists ==
  ASSUME NEW T \in SUBSET Nat, T # {}
  PROVE  \E x \in T : \A y \in T : x <= y
<1> DEFINE R == OpToRel(<, Nat)
<1>1. IsWellFoundedOn(R, Nat)
  BY NatLessThanWellFounded, Zenon
<1>2. \A x, y \in Nat : <<y, x>> \in R <=> y < x
  BY DEF OpToRel
<1> HIDE DEF R
<1>3. PICK x \in T : \A y \in T : ~(<<y, x>> \in R)
  BY <1>1, WFMin, Zenon
<1>4. \A y \in T : y \in Nat /\ ~(y < x)
  BY <1>2, <1>3, Zenon
<1>5. x \in Nat /\ \A y \in T : x <= y
  BY <1>4, <1>3
<1> QED
  BY <1>3, <1>5, Zenon

\* Min returns an element of a non-empty set of naturals.
LEMMA MinIn ==
  ASSUME NEW T \in SUBSET Nat, T # {}
  PROVE  Min(T) \in T
BY LeastExists, Zenon DEF Min

\* A block count is snapped to a valid one, so a node never aims at no block.
LEMMA SnapPositive ==
  ASSUME NEW k \in Nat
  PROVE  snap_to_valid_blocks(k) \in Nat \ {0}
<1> DEFINE Gaps == {Distance(v, k) : v \in ValidCounts}
           Nearest == {v \in ValidCounts : \A w \in ValidCounts : Distance(v, k) <= Distance(w, k)}
<1>1. \A v \in ValidCounts : v \in Nat \ {0} /\ Distance(v, k) \in Nat
  BY ValidAssumption DEF Distance
<1>2. Gaps \in SUBSET Nat /\ Gaps # {}
  BY <1>1, ValidAssumption, Zenon
<1>3. PICK g \in Gaps : \A h \in Gaps : g <= h
  BY <1>2, LeastExists, Zenon
<1>4. Nearest # {}
  <2>1. PICK v \in ValidCounts : g = Distance(v, k)
    BY Zenon
  <2>2. \A w \in ValidCounts : Distance(w, k) \in Gaps
    BY Zenon
  <2>3. \A w \in ValidCounts : Distance(v, k) <= Distance(w, k)
    BY <1>3, <2>1, <2>2, Zenon
  <2> QED
    BY <2>3, Zenon
<1>5. Nearest \in SUBSET Nat
  BY <1>1
<1>6. Min(Nearest) \in Nearest
  BY <1>4, <1>5, MinIn, Zenon
<1> QED
  BY <1>1, <1>6, Zenon DEF snap_to_valid_blocks

-----------------------------------------------------------------------------
(* When a node wants to move.                                               *)

\* pick_gap_from_chain takes the first gap when there is one, and that block is
\* in the range it returns.
LEMMA GapTaken ==
  ASSUME NEW n \in Nodes, NEW g \in Blocks, Coverage(n, g) = 0
  PROVE  \E b \in Blocks : Coverage(n, b) = 0 /\ In(b, pick_gap_from_chain(n))
<1> DEFINE gaps == {b \in Blocks : Coverage(n, b) = 0}
           target == Lesser(snap_to_valid_blocks(CfgBlocks[n]), TotalBlocks)
<1>1. gaps # {} /\ gaps \in SUBSET Nat
  BY DEF Blocks
<1>2. Min(gaps) \in gaps
  BY <1>1, MinIn, Zenon
<1>3. target \in Nat \ {0}
  BY SnapPositive, BlocksAssumption DEF Lesser
<1>4. pick_gap_from_chain(n)
        = [start |-> Min(gaps), end |-> Lesser(Min(gaps) + target, TotalBlocks)]
  BY <1>1, Zenon DEF pick_gap_from_chain
<1> HIDE DEF target, gaps
<1> DEFINE s == Min(gaps)
<1>5. s \in Blocks /\ Coverage(n, s) = 0
  BY <1>2 DEF gaps
<1>6. s \in Nat /\ s < TotalBlocks
  BY <1>5, BlocksAssumption DEF Blocks
<1> HIDE DEF s
<1>7. s <= s /\ s < Lesser(s + target, TotalBlocks)
  BY <1>3, <1>6, BlocksAssumption DEF Lesser
<1>8. In(s, pick_gap_from_chain(n))
  BY <1>4, <1>7 DEF In, s
<1> QED
  BY <1>5, <1>8

\* The coverage a node computes depends on the other nodes' entries only.
LEMMA CoverageOfOthers ==
  ASSUME NEW n \in Nodes, \A m \in Nodes \ {n} : View(m)' = View(m)
  PROVE  \A b \in Blocks : Coverage(n, b)' = Coverage(n, b)
<1> SUFFICES ASSUME NEW b \in Blocks PROVE Coverage(n, b)' = Coverage(n, b)
  OBVIOUS
<1>1. {m \in Nodes \ {n} : In(b, View(m)')} = {m \in Nodes \ {n} : In(b, View(m))}
  OBVIOUS
<1> QED
  BY <1>1, Zenon DEF Coverage, In

\* A node that has just chosen would not choose again: the first gap it saw is
\* in its range, and nobody else covers it.
LEMMA ChosenIsStable ==
  ASSUME NEW n \in Nodes, MinRedundancy > 0,
         range'[n] = pick_gap_from_chain(n),
         \A b \in Blocks : Coverage(n, b)' = Coverage(n, b)
  PROVE  ~check_rebalance(n)'
<1>1. CASE \A b \in Blocks : Coverage(n, b) # 0
  BY <1>1 DEF check_rebalance
<1>2. CASE \E b \in Blocks : Coverage(n, b) = 0
  <2>1. PICK b \in Blocks : Coverage(n, b) = 0 /\ In(b, pick_gap_from_chain(n))
    BY <1>2, GapTaken
  <2>2. In(b, range[n])' /\ Coverage(n, b)' = 0
    BY <2>1 DEF In
  <2>3. ~(Coverage(n, b)' >= MinRedundancy)
    BY <2>2, BlocksAssumption
  <2> QED
    BY <2>2, <2>3 DEF check_rebalance
<1> QED
  BY <1>1, <1>2

\* The inductive invariant behind MovesOnlyOnNews: the phase and the range are
\* functions of the node.
PhaseInv ==
    /\ pc \in [Nodes -> Phases]
    /\ range = [n \in Nodes |-> range[n]]

\* A step after which a node has a range is a choice of that node, or the node
\* had that range before.
LEMMA PlacedByChoice ==
  ASSUME PhaseInv, [Next]_vars, NEW n \in Nodes, pc'[n] \in Placed
  PROVE  Choose(n) \/ (pc[n] \in Placed /\ range'[n] = range[n])
<1> USE DEF PhaseInv
<1>1. CASE UNCHANGED vars
  BY <1>1 DEF vars
<1>2. ASSUME NEW m \in Nodes, Choose(m) PROVE Choose(n) \/ (pc[n] \in Placed /\ range'[n] = range[n])
  BY <1>2 DEF Choose
<1>3. ASSUME NEW m \in Nodes, Load(m) \/ MarkReady(m) \/ LoadFails(m)
      PROVE  pc[n] \in Placed /\ range'[n] = range[n]
  BY <1>3 DEF Load, MarkReady, LoadFails, Placed, Live
<1>4. ASSUME NEW m \in Nodes, Leave(m) PROVE pc[n] \in Placed /\ range'[n] = range[n]
  BY <1>4 DEF Leave, Placed, Live
<1>5. ASSUME NEW m \in Nodes, Die(m) \/ Respawn(m)
      PROVE  pc[n] \in Placed /\ range'[n] = range[n]
  BY <1>5 DEF Die, Respawn, Placed, Live
<1>6. ASSUME NEW m \in Nodes, AbandonedLoad(m) \/ Announce(m) \/ Expire(m)
      PROVE  pc[n] \in Placed /\ range'[n] = range[n]
  BY <1>6 DEF AbandonedLoad, Announce, Expire
<1> QED
  BY <1>1, <1>2, <1>3, <1>4, <1>5, <1>6, FixedAssumption DEF Next

\* Every step keeps the phases and the ranges functions of the node.
LEMMA PhaseKept == PhaseInv /\ [Next]_vars => PhaseInv'
<1> SUFFICES ASSUME PhaseInv, [Next]_vars PROVE PhaseInv'
  OBVIOUS
<1> USE DEF PhaseInv
<1>1. CASE UNCHANGED vars
  BY <1>1 DEF vars
<1>2. ASSUME NEW n \in Nodes, Choose(n) PROVE PhaseInv'
  BY <1>2 DEF Choose, Phases, Placed
<1>3. ASSUME NEW n \in Nodes, Load(n) \/ MarkReady(n) \/ LoadFails(n) PROVE PhaseInv'
  BY <1>3 DEF Load, MarkReady, LoadFails, Phases, Placed, Live
<1>4. ASSUME NEW n \in Nodes, Leave(n) PROVE PhaseInv'
  BY <1>4 DEF Leave, Phases
<1>5. ASSUME NEW n \in Nodes, Die(n) \/ Respawn(n) PROVE PhaseInv'
  BY <1>5 DEF Die, Respawn, Phases
<1>6. ASSUME NEW n \in Nodes, AbandonedLoad(n) \/ Announce(n) \/ Expire(n) PROVE PhaseInv'
  BY <1>6 DEF AbandonedLoad, Announce, Expire
<1> QED
  BY <1>1, <1>2, <1>3, <1>4, <1>5, <1>6, FixedAssumption DEF Next

NewsRule ==
    \A n \in Movers :
        MinRedundancy > 0 /\ WantsToMove(n)' /\ ~WantsToMove(n)
           => \E m \in Nodes \ {n} : View(m)' # View(m)

\* A node comes to want to move only by a change of another node's entry: the
\* range it chose, its own records, its loads and its restarts never make
\* check_rebalance contradict pick_gap_from_chain.
THEOREM NewsBeforeMove == Spec => MovesOnlyOnNews
<1>1. Init => PhaseInv
  BY DEF Init, PhaseInv, Phases, Placed, Live
<1>2. PhaseInv /\ [Next]_vars => [NewsRule]_vars
  <2> SUFFICES ASSUME PhaseInv, [Next]_vars, NEW n \in Movers, MinRedundancy > 0,
                      WantsToMove(n)', \A m \in Nodes \ {n} : View(m)' = View(m)
               PROVE  WantsToMove(n)
    BY Zenon DEF NewsRule
  <2> n \in Nodes
    BY FixedAssumption
  <2>1. pc'[n] \in Placed /\ check_rebalance(n)'
    BY Zenon DEF WantsToMove
  <2>2. \A b \in Blocks : Coverage(n, b)' = Coverage(n, b)
    BY CoverageOfOthers
  <2>3. CASE Choose(n)
    <3>1. range'[n] = pick_gap_from_chain(n)
      BY <2>3, Zenon DEF Choose, PhaseInv
    <3> QED
      BY <2>1, <2>2, <3>1, ChosenIsStable
  <2>4. CASE pc[n] \in Placed /\ range'[n] = range[n]
    <3>1. check_rebalance(n)
      BY <2>1, <2>2, <2>4 DEF check_rebalance, In
    <3> QED
      BY <2>4, <3>1 DEF WantsToMove
  <2> QED
    BY <2>1, <2>3, <2>4, PlacedByChoice
<1>3. [][NewsRule]_vars => MovesOnlyOnNews
  BY DEF NewsRule, MovesOnlyOnNews
<1> QED
  BY <1>1, <1>2, <1>3, PhaseKept, PTL DEF Spec

-----------------------------------------------------------------------------
(* The shard.ready file.                                                    *)

\* The inductive invariant behind LoadedIsReady: the phase and the file are
\* functions of the node, and a serving node has its file.
ReadyInv ==
    /\ pc \in [Nodes -> Phases]
    /\ ready \in [Nodes -> BOOLEAN]
    /\ \A n \in Nodes : pc[n] = "serving" => ready[n]

\* A shard server that marked its model as loaded is seen as ready by its daemon,
\* whatever loads were abandoned and however often the server was respawned.
THEOREM LoadedSeenReady == Spec => []LoadedIsReady
<1>1. Init => ReadyInv
  BY DEF Init, ReadyInv, Phases, Placed, Live
<1>2. ReadyInv /\ [Next]_vars => ReadyInv'
  <2> SUFFICES ASSUME ReadyInv, [Next]_vars PROVE ReadyInv'
    OBVIOUS
  <2> USE DEF ReadyInv, Phases, Placed, Live
  <2>1. CASE UNCHANGED vars
    BY <2>1 DEF vars
  <2>2. ASSUME NEW n \in Nodes, Choose(n) PROVE ReadyInv'
    BY <2>2 DEF Choose
  <2>3. ASSUME NEW n \in Nodes, Load(n) PROVE ReadyInv'
    BY <2>3 DEF Load
  <2>4. ASSUME NEW n \in Nodes, MarkReady(n) PROVE ReadyInv'
    BY <2>4 DEF MarkReady
  <2>5. ASSUME NEW n \in Nodes, LoadFails(n) PROVE ReadyInv'
    BY <2>5 DEF LoadFails
  <2>6. ASSUME NEW n \in Nodes, Leave(n) PROVE ReadyInv'
    BY <2>6 DEF Leave
  <2>7. ASSUME NEW n \in Nodes, AbandonedLoad(n) PROVE ReadyInv'
    BY <2>7 DEF AbandonedLoad
  <2>8. ASSUME NEW n \in Nodes, Die(n) PROVE ReadyInv'
    BY <2>8 DEF Die
  <2>9. ASSUME NEW n \in Nodes, Respawn(n) PROVE ReadyInv'
    BY <2>9 DEF Respawn
  <2>10. ASSUME NEW n \in Nodes, Announce(n) \/ Expire(n) PROVE ReadyInv'
    BY <2>10 DEF Announce, Expire
  <2> QED
    BY <2>1, <2>2, <2>3, <2>4, <2>5, <2>6, <2>7, <2>8, <2>9, <2>10, FixedAssumption DEF Next
<1>3. ReadyInv => LoadedIsReady
  BY DEF ReadyInv, LoadedIsReady, shard_is_ready
<1> QED
  BY <1>1, <1>2, <1>3, PTL DEF Spec
=============================================================================
