-------------------------- MODULE PinnedPathProofs --------------------------
(***************************************************************************)
(* What build_pinned_path returns, for every chain, every blacklist and    *)
(* every number of blocks.                                                 *)
(***************************************************************************)
EXTENDS PinnedPath, TLAPS

\* `at` is the end of the last server of the path.
AtIsEnd == at = HopStart(path, Len(path) + 1)

\* A hop starts inside the range of its server and ends at or below `at`.
HopsAdvance ==
    \A k \in DOMAIN path :
        Covers(path[k], HopStart(path, k)) /\ chain[path[k]].end <= at

\* The server of a hop reaches at least as far as any other candidate did.
HopsGreedy ==
    \A k \in DOMAIN path : \A j \in Eligible(HopStart(path, k)) :
        chain[j].end <= chain[path[k]].end

\* The inductive invariant.  SingleCandidate needs HopsGreedy: a server that is
\* added later and covers an earlier hop's start would have been wider there.
PathInv ==
    /\ PathTypeOK
    /\ AtIsEnd
    /\ HopsAdvance
    /\ HopsGreedy
    /\ PathCovers
    /\ SingleCandidate

\* The entries of a chain are ranges of naturals.
LEMMA ChainType ==
    ASSUME chain \in Chains
    PROVE  /\ Servers \subseteq Nat
           /\ \A i \in Servers : chain[i].start \in Nat /\ chain[i].end \in Nat
<1> DEFINE Entry == [start : Nat, end : Nat]
<1>1. chain \in Seq(Entry)
  BY ChainsAssumption
<1>2. Servers = 1..Len(chain)
  BY <1>1 DEF Servers
<1>3. Len(chain) \in Nat
  BY <1>1
<1>4. ASSUME NEW i \in Servers
      PROVE  chain[i] \in Entry
  <2> HIDE DEF Entry
  <2> QED
    BY <1>1, <1>2
<1> QED
  BY <1>2, <1>3, <1>4

\* The walk starts with an empty path.
LEMMA PathInitInv == PathInit => PathInv
BY TotalAssumption, ChainType
   DEF PathInit, PathInv, PathTypeOK, AtIsEnd, HopsAdvance, HopsGreedy, PathCovers,
       SingleCandidate, HopStart

\* Appending a server leaves the earlier hops where they were.
LEMMA AppendHops ==
    ASSUME path \in Seq(Servers), NEW i \in Servers, NEW n, n = Len(path)
    PROVE  LET q == Append(path, i) IN
           /\ q \in Seq(Servers)
           /\ n \in Nat
           /\ DOMAIN path = 1..n
           /\ DOMAIN q = 1..(n + 1)
           /\ Len(q) = n + 1
           /\ \A k \in 1..n : q[k] = path[k] /\ path[k] \in Servers
           /\ q[n + 1] = i
           /\ \A k \in 1..(n + 1) : HopStart(q, k) = HopStart(path, k)
           /\ HopStart(q, n + 2) = chain[i].end
<1> DEFINE q == Append(path, i)
<1>1. /\ q \in Seq(Servers) /\ n \in Nat /\ DOMAIN path = 1..n
      /\ DOMAIN q = 1..(n + 1) /\ Len(q) = n + 1 /\ q[n + 1] = i
  OBVIOUS
<1>2. \A k \in 1..n : q[k] = path[k] /\ path[k] \in Servers
  OBVIOUS
<1>3. \A k \in 1..(n + 1) : HopStart(q, k) = HopStart(path, k)
  <2> SUFFICES ASSUME NEW k \in 1..(n + 1) PROVE HopStart(q, k) = HopStart(path, k)
    OBVIOUS
  <2>1. k # 1 => k - 1 \in 1..n
    BY <1>1
  <2> QED
    BY <1>2, <2>1 DEF HopStart
<1>4. HopStart(q, n + 2) = chain[i].end
  BY <1>1 DEF HopStart
<1> QED
  BY <1>1, <1>2, <1>3, <1>4

\* One iteration of the loop preserves the invariant.
LEMMA ExtendInv == PathInv /\ Extend => PathInv'
<1> SUFFICES ASSUME PathInv, Extend PROVE PathInv'
  OBVIOUS
<1> PICK i \in Servers : IsBest(i, at) /\ path' = Append(path, i) /\ at' = chain[i].end
  BY DEF Extend
<1>1. /\ chain' = chain /\ failed' = failed /\ pinned' = pinned /\ pinned = "walking"
      /\ PathTypeOK /\ at \in Nat /\ Servers' = Servers
  BY DEF Extend, PathInv, PathTypeOK, Servers
<1>2. /\ chain[i].start \in Nat /\ chain[i].end \in Nat /\ Servers \subseteq Nat
      /\ \A j \in Servers : chain[j].start \in Nat /\ chain[j].end \in Nat
  BY <1>1, ChainType DEF PathTypeOK
<1>3. /\ Covers(i, at) /\ i \notin failed /\ at < chain[i].end /\ chain[i].start <= at
      /\ \A j \in Eligible(at) : chain[j].end <= chain[i].end
  BY <1>2 DEF IsBest, Eligible, Covers
<1> PICK n : n = Len(path)
  OBVIOUS
<1>4. /\ path' \in Seq(Servers) /\ n \in Nat
      /\ DOMAIN path = 1..n /\ DOMAIN path' = 1..(n + 1) /\ Len(path') = n + 1
      /\ \A k \in 1..n : path'[k] = path[k] /\ path[k] \in Servers
      /\ path'[n + 1] = i
      /\ \A k \in 1..(n + 1) : HopStart(path', k) = HopStart(path, k)
      /\ HopStart(path', n + 2) = chain[i].end
  BY <1>1, AppendHops DEF PathTypeOK
<1>5. HopStart(path, n + 1) = at /\ HopStart(path', n + 1) = at
  BY <1>4 DEF PathInv, AtIsEnd
<1>6. \A j, b : Covers(j, b)' <=> Covers(j, b)
  BY <1>1 DEF Covers
<1>7. \A b : Eligible(b)' = Eligible(b)
  BY <1>1, <1>6 DEF Eligible
<1>8. \A k \in 1..n : HopStart(path, k) < chain[path[k]].end /\ chain[path[k]].end <= at /\ HopStart(path, k) \in Nat
  <2>1. \A k \in 1..n : HopStart(path, k) \in Nat
    <3> SUFFICES ASSUME NEW k \in 1..n PROVE HopStart(path, k) \in Nat
      OBVIOUS
    <3>1. k # 1 => k - 1 \in 1..n
      BY <1>4
    <3> QED
      BY <1>2, <1>4, <3>1 DEF HopStart
  <2> QED
    BY <1>4, <2>1 DEF PathInv, HopsAdvance, Covers
<1>9. PathTypeOK'
  BY <1>1, <1>2, <1>4 DEF PathTypeOK
<1>10. AtIsEnd'
  BY <1>1, <1>4 DEF AtIsEnd, HopStart
<1>11. HopsAdvance'
  <2> SUFFICES ASSUME NEW k \in 1..(n + 1)
               PROVE  Covers(path'[k], HopStart(path', k)) /\ chain[path'[k]].end <= at'
    BY <1>1, <1>4, <1>6 DEF HopsAdvance, HopStart
  <2>1. CASE k \in 1..n
    <3>1. chain[path[k]].end <= at /\ chain[path[k]].end \in Nat
      BY <1>2, <1>4, <1>8, <2>1
    <3>2. Covers(path[k], HopStart(path, k))
      BY <1>4, <2>1 DEF PathInv, HopsAdvance
    <3> QED
      BY <1>1, <1>2, <1>3, <1>4, <2>1, <3>1, <3>2
  <2>2. CASE k = n + 1
    BY <1>2, <1>3, <1>4, <1>5, <2>2
  <2> QED
    BY <1>4, <2>1, <2>2
<1>12. HopsGreedy'
  <2> SUFFICES ASSUME NEW k \in 1..(n + 1), NEW j \in Eligible(HopStart(path', k))
               PROVE  chain[j].end <= chain[path'[k]].end
    BY <1>1, <1>4, <1>7 DEF HopsGreedy, HopStart
  <2>1. CASE k \in 1..n
    BY <1>4, <2>1 DEF PathInv, HopsGreedy
  <2>2. CASE k = n + 1
    BY <1>3, <1>4, <1>5, <2>2
  <2> QED
    BY <1>4, <2>1, <2>2
<1>13. PathCovers'
  <2> SUFFICES ASSUME NEW b \in 0..(chain[i].end - 1)
               PROVE  \E k \in 1..(n + 1) : Covers(path'[k], b)
    BY <1>1, <1>4, <1>6 DEF PathCovers
  <2>1. CASE b < at
    BY <1>1, <1>4, <2>1 DEF PathInv, PathCovers
  <2>2. CASE at <= b
    <3>1. Covers(i, b)
      BY <1>1, <1>2, <1>3, <2>2 DEF Covers
    <3> QED
      BY <1>4, <3>1
  <2> QED
    BY <1>1, <2>1, <2>2
<1>14. SingleCandidate'
  <2> SUFFICES ASSUME NEW k \in 1..(n + 1), NEW m \in 1..(n + 1),
                      Covers(path'[m], HopStart(path, k)), m # k
               PROVE  FALSE
    BY <1>1, <1>4, <1>6 DEF SingleCandidate, HopStart
  <2>1. CASE k \in 1..n /\ m \in 1..n
    BY <1>4, <2>1 DEF PathInv, SingleCandidate
  <2>2. CASE k = n + 1 /\ m \in 1..n
    <3>1. at < chain[path[m]].end
      BY <1>4, <1>5, <2>2 DEF Covers
    <3>2. chain[path[m]].end <= at /\ chain[path[m]].end \in Nat
      BY <1>2, <1>4, <1>8, <2>2
    <3> QED
      BY <1>1, <3>1, <3>2
  <2>3. CASE m = n + 1 /\ k \in 1..n
    <3>1. i \in Eligible(HopStart(path, k))
      BY <1>3, <1>4, <2>3 DEF Eligible
    <3>2. chain[i].end <= chain[path[k]].end
      BY <1>4, <2>3, <3>1 DEF PathInv, HopsGreedy
    <3>3. chain[path[k]].end <= at /\ chain[path[k]].end \in Nat
      BY <1>2, <1>4, <1>8, <2>3
    <3> QED
      BY <1>1, <1>2, <1>3, <3>2, <3>3
  <2> QED
    BY <1>4, <2>1, <2>2, <2>3
<1> QED
  BY <1>9, <1>10, <1>11, <1>12, <1>13, <1>14 DEF PathInv

\* Returning changes neither the path nor the blacklist.
LEMMA ReturnInv == PathInv /\ (Gap \/ Return \/ UNCHANGED pathVars) => PathInv'
<1> SUFFICES ASSUME PathInv, Gap \/ Return \/ UNCHANGED pathVars PROVE PathInv'
  OBVIOUS
<1>1. /\ chain' = chain /\ failed' = failed /\ path' = path /\ at' = at
      /\ pinned' \in {"walking", "ok", "gap"}
      /\ pinned' = "ok" => at >= TotalBlocks
  BY DEF Gap, Return, pathVars, PathInv, PathTypeOK, PathCovers
<1> QED
  BY <1>1 DEF PathInv, PathTypeOK, AtIsEnd, HopsAdvance, HopsGreedy, PathCovers,
              SingleCandidate, HopStart, Covers, Eligible, Servers

\* The invariant holds throughout the walk.
THEOREM PathCorrect == PathSpec => []PathInv
BY PathInitInv, ExtendInv, ReturnInv, PTL DEF PathSpec, PathNext

\* A path that is returned covers every block of the model.
THEOREM PathHasNoGap == PathSpec => []PathCovers
BY PathCorrect, PTL DEF PathInv

\* forward_through_chain finds at most one candidate at the start of a hop.
THEOREM OneCandidatePerHop == PathSpec => []SingleCandidate
BY PathCorrect, PTL DEF PathInv

\* The bail reports a block that no server outside the blacklist covers.
GapIsReal == pinned = "gap" => at < TotalBlocks /\ Eligible(at) = {}

\* A walk without blacklist that ends well has seen the model covered, and one
\* that bails has found a block that is not.
LEMMA InvComplete == PathInv /\ GapIsReal => GreedyIsComplete
<1> SUFFICES ASSUME PathInv, GapIsReal, failed = {}
             PROVE  /\ pinned = "ok" => CoverageCheck
                    /\ pinned = "gap" => ~CoverageCheck
  BY DEF GreedyIsComplete
<1>1. path \in Seq(Servers) /\ at \in Nat
  BY DEF PathInv, PathTypeOK
<1>2. ASSUME pinned = "ok" PROVE CoverageCheck
  <2> SUFFICES ASSUME NEW b \in 0..(TotalBlocks - 1)
               PROVE  \E i \in Servers : Covers(i, b)
    BY DEF CoverageCheck
  <2>1. b \in 0..(at - 1)
    BY <1>1, <1>2, TotalAssumption DEF PathInv, PathCovers
  <2>2. PICK k \in DOMAIN path : Covers(path[k], b)
    BY <2>1 DEF PathInv, PathCovers
  <2>3. path[k] \in Servers
    BY <1>1, <2>2
  <2> QED
    BY <2>2, <2>3
<1>3. ASSUME pinned = "gap" PROVE ~CoverageCheck
  <2>1. at \in 0..(TotalBlocks - 1) /\ Eligible(at) = {}
    BY <1>1, <1>3, TotalAssumption DEF GapIsReal
  <2>2. \A i \in Servers : ~Covers(i, at)
    BY <2>1 DEF Eligible
  <2> QED
    BY <2>1, <2>2 DEF CoverageCheck
<1> QED
  BY <1>2, <1>3

\* build_pinned_path succeeds without blacklist exactly when coverage_check
\* passes: choosing the widest server never walks into a gap of its own making.
THEOREM GreedyFindsAPath == PathSpec => []GreedyIsComplete
<1>1. PathInit => GapIsReal
  BY DEF PathInit, GapIsReal
<1>2. GapIsReal /\ [PathNext]_pathVars => GapIsReal'
  BY DEF GapIsReal, PathNext, Extend, Gap, Return, pathVars, Eligible, Covers, Servers
<1> QED
  BY <1>1, <1>2, PathCorrect, InvComplete, PTL DEF PathSpec
=============================================================================
