------------------------- MODULE SliceSelectionProofs -------------------------
(***************************************************************************)
(* What the selection of a slice and the question whether another run may    *)
(* follow return, for every queue: the lemmas the proofs about both          *)
(* supervisors cite.                                                         *)
(***************************************************************************)
EXTENDS SliceSelection, WellFoundedInduction, TLAPS

-----------------------------------------------------------------------------
(* Selection. *)

\* A set of naturals that is not empty has a least element.
LEMMA LeastNatural ==
  ASSUME NEW T, T \subseteq Nat, T # {}
  PROVE  \E m \in T : \A n \in T : m <= n
<1> DEFINE Less == {ss \in Nat \X Nat : ss[1] < ss[2]}
<1>1. \A m, n \in Nat : m < n => <<m, n>> \in Less
  OBVIOUS
<1>2. IsWellFoundedOn(Less, Nat)
  BY NatLessThanWellFounded DEF OpToRel
<1> HIDE DEF Less
<1>3. PICK m \in T : \A n \in T : <<n, m>> \notin Less
  BY <1>2, WFMin
<1>4. \A n \in T : ~(n < m)
  BY <1>1, <1>3
<1> QED
  BY <1>3, <1>4

\* Of the slices that are eligible, exactly one comes before all others.
LEMMA FirstIsUnique ==
  ASSUME NEW q, Eligible(q) # {}
  PROVE  \E s : First(q) = {s}
<1>1. Eligible(q) \subseteq Slices
  BY DEF Eligible
<1>2. /\ \A s \in Slices : Priority[s] \in Nat /\ Position[s] \in Nat
      /\ \A s, t \in Slices : Position[s] = Position[t] => s = t
  BY SliceAssumption DEF SliceAssumption
<1> DEFINE Least(T) == CHOOSE m \in T : \A n \in T : m <= n
           Priorities == {Priority[s] : s \in Eligible(q)}
           p == Least(Priorities)
<1>3. p \in Priorities /\ \A n \in Priorities : p <= n
  <2>1. Priorities \subseteq Nat /\ Priorities # {}
    BY <1>1, <1>2
  <2> HIDE DEF Priorities
  <2> QED
    BY <2>1, LeastNatural
<1> HIDE DEF p
<1> DEFINE Urgent == {s \in Eligible(q) : Priority[s] = p}
           Positions == {Position[s] : s \in Urgent}
           n == Least(Positions)
<1>4. n \in Positions /\ \A m \in Positions : n <= m
  <2>1. Positions \subseteq Nat /\ Positions # {}
    BY <1>1, <1>2, <1>3
  <2> HIDE DEF Positions
  <2> QED
    BY <2>1, LeastNatural
<1> HIDE DEF n
<1>5. PICK s \in Urgent : Position[s] = n
  BY <1>4
<1>6. ASSUME NEW t \in Eligible(q) \ {s} PROVE Precedes(s, t) /\ ~Precedes(t, s)
  <2>1. s \in Slices /\ t \in Slices /\ Priority[s] = p /\ Position[s] # Position[t]
    BY <1>1, <1>2, <1>5, <1>6
  <2>2. Priority[s] <= Priority[t]
    BY <1>3, <1>6, <2>1
  <2>3. Priority[t] = Priority[s] => Position[s] <= Position[t]
    BY <1>4, <1>5, <1>6, <2>1
  <2> QED
    BY <1>2, <2>1, <2>2, <2>3 DEF Precedes
<1>7. s \in First(q)
  BY <1>5, <1>6 DEF First
<1>8. ASSUME NEW t \in First(q) PROVE t = s
  <2>1. t \in Eligible(q) /\ (t # s => Precedes(t, s))
    BY <1>5, <1>8 DEF First
  <2> QED
    BY <1>6, <2>1
<1> QED
  BY <1>7, <1>8

\* What is selected is the one that comes first, and nothing only if nothing is
\* eligible.
LEMMA SelectionIsFirst ==
  ASSUME NEW q
  PROVE  IF Eligible(q) = {} THEN SelectNextSlice(q) = NoSlice
         ELSE First(q) = {SelectNextSlice(q)} /\ SelectNextSlice(q) \in Slices
<1>1. CASE Eligible(q) = {}
  BY <1>1 DEF SelectNextSlice, First
<1>2. CASE Eligible(q) # {}
  <2>1. PICK s : First(q) = {s}
    BY <1>2, FirstIsUnique
  <2>2. SelectNextSlice(q) = s
    BY <2>1 DEF SelectNextSlice
  <2> QED
    BY <1>2, <2>1, <2>2 DEF First, Eligible
<1> QED
  BY <1>1, <1>2

\* What is selected is a slice of the queue, eligible in it, or nothing.
LEMMA SelectionType ==
  ASSUME NEW q
  PROVE  SelectNextSlice(q) \in Eligible(q) \cup {NoSlice}
BY DEF SelectNextSlice, First

-----------------------------------------------------------------------------
(* The decision about the next run. *)

\* A recommendation is turned down for one of six reasons; one that is not
\* turned down names a slice of the queue.
LEMMA RefusalType ==
  ASSUME NEW q, NEW s, NEW recommended, NEW best
  PROVE  LET refusal == RecommendationRefusal(q, s, recommended, best)
         IN  refusal \in Refusals \/ (refusal = "" /\ recommended \in Slices)
BY DEF RecommendationRefusal, Refusals

\* A stop is a decision, whatever its verdict, choice and reason.
LEMMA StopType ==
  ASSUME NEW v \in Statuses, NEW choice \in Choices \ {"continue"}, NEW why \in Reasons
  PROVE  /\ Stop(v, choice, why) \in Decisions
         /\ Stop(v, choice, why).status = v
         /\ ~Continues(Stop(v, choice, why))
BY DEF Stop, Decision, Decisions, Continues

\* next_slice_eligibility leaves the finished slice done, and goes on only
\* under the limit.
LEMMA EligibilityOutcome ==
  ASSUME NEW q, NEW s, NEW recommended, NEW runCount, NEW limit
  PROVE  /\ NextSliceEligibility(q, s, recommended, runCount, limit) \in Decisions
         /\ NextSliceEligibility(q, s, recommended, runCount, limit).status = "done"
         /\ Continues(NextSliceEligibility(q, s, recommended, runCount, limit))
              => ~LimitReached(runCount, limit)
<1> DEFINE afterDone == AfterDone(q, s)
           best == SelectNextSlice(afterDone)
           refusal == RecommendationRefusal(afterDone, s, recommended, best)
<1>1. best \in Slices \cup {NoSlice}
  BY SelectionType DEF Eligible
<1>2. refusal \in Refusals \/ (refusal = "" /\ recommended \in Slices)
  BY RefusalType
<1>3. \A why \in Reasons :
        /\ Stop("done", "stop_for_review", why) \in Decisions
        /\ Stop("done", "stop_for_review", why).status = "done"
        /\ ~Continues(Stop("done", "stop_for_review", why))
  BY StopType DEF Statuses, Choices
<1>4. /\ Stop("done", "stop", "none eligible") \in Decisions
      /\ Stop("done", "stop", "none eligible").status = "done"
      /\ ~Continues(Stop("done", "stop", "none eligible"))
  BY StopType DEF Statuses, Choices, Reasons, Refusals
<1>5. \A why \in {"first eligible", "recommended"}, next \in Slices \cup {NoSlice} :
        /\ Decision("done", "continue", why, next) \in Decisions
        /\ Decision("done", "continue", why, next).status = "done"
  BY DEF Decision, Decisions, Statuses, Choices, Reasons
<1>6. Refusals \cup {"limit"} \subseteq Reasons
  BY DEF Reasons
<1>7. "" \notin Refusals
  BY DEF Refusals
<1> HIDE DEF afterDone, best, refusal
<1>8. CASE LimitReached(runCount, limit)
  BY <1>8, <1>3, <1>6 DEF NextSliceEligibility
<1>9. CASE ~LimitReached(runCount, limit) /\ recommended = NoSlice
  BY <1>9, <1>1, <1>4, <1>5 DEF NextSliceEligibility, afterDone, best
<1>10. CASE ~LimitReached(runCount, limit) /\ recommended # NoSlice
  BY <1>10, <1>2, <1>3, <1>5, <1>6, <1>7
  DEF NextSliceEligibility, afterDone, best, refusal
<1> QED
  BY <1>8, <1>9, <1>10
=============================================================================
