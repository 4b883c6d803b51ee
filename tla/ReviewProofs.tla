----------------------------- MODULE ReviewProofs -----------------------------
(***************************************************************************)
(* Both judges decide as documented, on every queue and every case: the      *)
(* verdict of a run, whether and with which slice its chain goes on, and     *)
(* whether a handoff made elsewhere is accepted.  The code asks one question *)
(* after the other and counts what it needs along the way, the documentation *)
(* lists conditions; that both come to the same rests on what the policy's   *)
(* helpers return, stated first.                                             *)
(***************************************************************************)
EXTENDS Reviews, SliceSelectionProofs, FiniteSetTheorems

-----------------------------------------------------------------------------
(* The helpers of the policy. *)

\* The budget counts the files in scope; where none is out of it, these are all
\* the files the supervisor does not own.
LEMMA BudgetCounts ==
  ASSUME NEW c, c.maxFiles \in Nat, NEW owned, NEW handoff, handoff.touched \subseteq Paths,
         NEW changed, changed \subseteq Paths, changed \subseteq c.allowed \cup owned
  PROVE  ExceedsBudget(c, owned, handoff, changed) <=>
           ~(/\ Cardinality(changed \ owned) <= c.maxFiles
             /\ Cardinality(handoff.touched) <= c.maxFiles)
<1>1. (changed \cap c.allowed) \ owned = changed \ owned
  OBVIOUS
<1>2. Cardinality(changed \ owned) \in Nat /\ Cardinality(handoff.touched) \in Nat
  <2>1. IsFiniteSet(changed \ owned) /\ IsFiniteSet(handoff.touched)
    BY ContractAssumption, FS_Subset DEF ContractAssumption
  <2> QED
    BY <2>1, FS_CardinalityType
<1> QED
  BY <1>1, <1>2 DEF ExceedsBudget, ChangedFileCount

\* A proof is given by the last that counts of its type.
Counted(s, handoff, i, type) ==
  handoff.proofs[i].slice = s /\ handoff.proofs[i].sha = "head" /\ handoff.proofs[i].type = type

LEMMA LastProofHolds ==
  ASSUME NEW s, NEW handoff, handoff.proofs \in Seq(ProvidedProofs), NEW type
  PROVE  ProofHolds(s, handoff, type) <=>
           \E i \in DOMAIN handoff.proofs :
             /\ Counted(s, handoff, i, type) /\ handoff.proofs[i].sound
             /\ \A j \in (i + 1)..Len(handoff.proofs) : ~Counted(s, handoff, j, type)
<1>1. Len(handoff.proofs) \in Nat /\ DOMAIN handoff.proofs = 1..Len(handoff.proofs)
  OBVIOUS
<1>2. ASSUME NEW i \in DOMAIN handoff.proofs
      PROVE  (\A j \in CountedProofs(s, handoff) : handoff.proofs[j].type = type => j <= i)
               <=> \A j \in (i + 1)..Len(handoff.proofs) : ~Counted(s, handoff, j, type)
  BY <1>1 DEF CountedProofs, Counted
<1>3. \A i : i \in CountedProofs(s, handoff) /\ handoff.proofs[i].type = type
               <=> i \in DOMAIN handoff.proofs /\ Counted(s, handoff, i, type)
  BY DEF CountedProofs, Counted
<1> QED
  BY <1>2, <1>3 DEF ProofHolds

-----------------------------------------------------------------------------
(* The slice that follows. *)

\* Queued, with its dependencies done once s is.
May(q, s, t) ==
  t # s /\ q[t] = "queued" /\ \A d \in DependsOn[t] : d = s \/ q[d] = "done"

LEMMA EligibleAfterDone ==
  ASSUME NEW q \in Queues, NEW s \in Slices
  PROVE  Eligible(AfterDone(q, s)) = {t \in Slices : May(q, s, t)}
<1>1. \A t \in Slices : AfterDone(q, s)[t] = IF t = s THEN "done" ELSE q[t]
  BY DEF AfterDone, Queues
<1>2. \A t \in Slices : DependsOn[t] \subseteq Slices
  BY SliceAssumption DEF SliceAssumption
<1> QED
  BY <1>1, <1>2 DEF Eligible, DependenciesSatisfied, May

LEMMA FirstAfterDone ==
  ASSUME NEW q \in Queues, NEW s \in Slices, NEW t \in Slices
  PROVE  t \in First(AfterDone(q, s)) <=>
           /\ May(q, s, t)
           /\ \A u \in {x \in Slices : May(q, s, x)} :
                /\ Priority[t] <= Priority[u]
                /\ Priority[t] = Priority[u] => Position[t] <= Position[u]
<1>1. /\ \A u \in Slices : Priority[u] \in Nat /\ Position[u] \in Nat
      /\ \A u \in Slices : Position[t] = Position[u] => t = u
  BY SliceAssumption DEF SliceAssumption
<1>2. \A u \in Slices : t # u =>
        (Precedes(t, u) <=> /\ Priority[t] <= Priority[u]
                            /\ Priority[t] = Priority[u] => Position[t] <= Position[u])
  BY <1>1 DEF Precedes
<1>3. Priority[t] <= Priority[t] /\ Position[t] <= Position[t]
  BY <1>1
<1> QED
  BY <1>2, <1>3, EligibleAfterDone DEF First

\* The chain goes on with the slice that comes first, unless another one is
\* recommended or the limit is reached.
LEMMA ContinuesWithFirst ==
  ASSUME NEW q \in Queues, NEW s \in Slices, NEW recommended, NEW runCount, NEW limit
  PROVE  LET d == NextSliceEligibility(q, s, recommended, runCount, limit)
             after == AfterDone(q, s)
             best == SelectNextSlice(after)
         IN  /\ Continues(d) <=>
                  /\ ~LimitReached(runCount, limit)
                  /\ Eligible(after) # {} /\ recommended \in {NoSlice, best}
             /\ d.next = IF Continues(d) THEN best ELSE NoSlice
             /\ d.decision = "stop" => ~LimitReached(runCount, limit) /\ Eligible(after) = {}
<1> DEFINE after == AfterDone(q, s)
           best == SelectNextSlice(after)
           refusal == RecommendationRefusal(after, s, recommended, best)
           d == NextSliceEligibility(q, s, recommended, runCount, limit)
<1>1. IF Eligible(after) = {} THEN best = NoSlice ELSE best \in Eligible(after)
  BY SelectionIsFirst DEF First
<1>2. best # NoSlice => best \in Slices /\ best # s /\ after[best] = "queued"
                          /\ DependenciesSatisfied(after, best)
  BY <1>1, EligibleAfterDone DEF Eligible, May
<1>3. NoSlice \notin Slices
  BY SliceAssumption DEF SliceAssumption
<1>4. recommended # NoSlice => (refusal = "" <=> best # NoSlice /\ recommended = best)
  BY <1>2, <1>3 DEF RecommendationRefusal
<1>5. Eligible(after) = {} <=> best = NoSlice
  BY <1>1, <1>3 DEF Eligible
<1> HIDE DEF after, best, refusal
<1>6. \A why : /\ ~Continues(Stop("done", "stop_for_review", why))
               /\ Stop("done", "stop_for_review", why).next = NoSlice
               /\ Stop("done", "stop_for_review", why).decision # "stop"
  BY DEF Continues, Stop, Decision
<1>7. /\ ~Continues(Stop("done", "stop", "none eligible"))
      /\ Stop("done", "stop", "none eligible").next = NoSlice
  BY DEF Continues, Stop, Decision
<1>8. \A why, next : /\ Continues(Decision("done", "continue", why, next))
                     /\ Decision("done", "continue", why, next).next = next
                     /\ Decision("done", "continue", why, next).decision # "stop"
  BY DEF Continues, Decision
<1>9. CASE LimitReached(runCount, limit)
  <2>1. d = Stop("done", "stop_for_review", "limit")
    BY <1>9 DEF NextSliceEligibility
  <2> QED
    BY <1>6, <1>9, <2>1 DEF after, best
<1>10. CASE ~LimitReached(runCount, limit) /\ recommended = NoSlice
  <2>1. d = IF best = NoSlice THEN Stop("done", "stop", "none eligible")
            ELSE Decision("done", "continue", "first eligible", best)
    BY <1>10 DEF NextSliceEligibility, after, best
  <2> QED
    BY <1>5, <1>7, <1>8, <1>10, <2>1 DEF after, best
<1>11. CASE ~LimitReached(runCount, limit) /\ recommended # NoSlice
  <2>1. d = IF refusal # "" THEN Stop("done", "stop_for_review", refusal)
            ELSE Decision("done", "continue", "recommended", recommended)
    BY <1>11 DEF NextSliceEligibility, after, best, refusal
  <2>2. CASE refusal # ""
    <3>1. ~Continues(d) /\ d.next = NoSlice /\ d.decision # "stop"
      BY <1>6, <2>1, <2>2
    <3> QED
      BY <1>4, <1>5, <1>11, <2>2, <3>1 DEF after, best
  <2>3. CASE refusal = ""
    <3>1. Continues(d) /\ d.next = best /\ d.decision # "stop"
      BY <1>4, <1>8, <1>11, <2>1, <2>3
    <3> QED
      BY <1>4, <1>5, <1>11, <2>3, <3>1 DEF after, best
  <2> QED
    BY <2>2, <2>3
<1> QED
  BY <1>9, <1>10, <1>11

-----------------------------------------------------------------------------
(* The supervisor's own judgement. *)

Judged(c) ==
  EvaluateCompletion(c.queue, c.slice, c.handoff, c.before, c.after, c.runs, Limit,
                     c.replayFailures)

\* The operators of the instance are those of the policy.
LEMMA CompletionOperators ==
  /\ \A S : Completion!Cardinality(S) = Cardinality(S)
  /\ Completion!EvaluateCompletion(input.queue, input.slice, input.handoff, input.before,
                                   input.after, input.runs, Limit, input.replayFailures)
       = Judged(input)
  /\ \A d : Completion!Continues(d) <=> Continues(d)
<1>1. \A S : Completion!Cardinality(S) = Cardinality(S)
  BY DEF Cardinality, Completion!Cardinality
<1>2. \A q, s, recommended, n :
        Completion!NextSliceEligibility(q, s, recommended, n, Limit)
          = NextSliceEligibility(q, s, recommended, n, Limit)
  BY DEF NextSliceEligibility, Completion!NextSliceEligibility,
         AfterDone, Completion!AfterDone, LimitReached, Completion!LimitReached,
         RecommendationRefusal, Completion!RecommendationRefusal,
         SelectNextSlice, Completion!SelectNextSlice, First, Completion!First,
         Precedes, Completion!Precedes, Eligible, Completion!Eligible,
         DependenciesSatisfied, Completion!DependenciesSatisfied,
         Stop, Completion!Stop, Decision, Completion!Decision
<1>3. Completion!EvaluateCompletion(input.queue, input.slice, input.handoff, input.before,
                                    input.after, input.runs, Limit, input.replayFailures)
        = Judged(input)
  BY <1>1, <1>2
  DEF Judged, EvaluateCompletion, Completion!EvaluateCompletion,
      ValidationsFail, Completion!ValidationsFail,
      RequiredValidationFailures, Completion!RequiredValidationFailures,
      LeavesScope, Completion!LeavesScope, OutOfScope, Completion!OutOfScope,
      Introduced, Completion!Introduced, ExceedsBudget, Completion!ExceedsBudget,
      ChangedFileCount, Completion!ChangedFileCount, ProofsFail, Completion!ProofsFail,
      ManualProofsMissing, Completion!ManualProofsMissing, ProofHolds, Completion!ProofHolds,
      CountedProofs, Completion!CountedProofs, MeetsProofLevel, Completion!MeetsProofLevel,
      Stop, Completion!Stop, Decision, Completion!Decision
<1>4. \A d : Completion!Continues(d) <=> Continues(d)
  BY DEF Continues, Completion!Continues
<1> QED
  BY <1>1, <1>2, <1>3, <1>4

\* What a case is made of.
LEMMA CompletionInputType ==
  ASSUME input \in CompletionInputs
  PROVE  /\ input.queue \in Queues /\ input.slice \in Slices /\ input.runs \in Nat
         /\ input.before \subseteq Paths /\ input.after \subseteq Paths
         /\ input.handoff \in Handoff
         /\ Contract[input.slice] \in Contracts
BY ReviewAssumption, ContractAssumption DEF ReviewAssumption, ContractAssumption

\* Each question the code asks is the documented condition, given that the
\* earlier ones were answered well.
LEMMA QuestionsAreDocumented ==
  ASSUME input \in CompletionInputs
  PROVE  LET c == Contract[input.slice]
             introduced == Introduced(input.before, input.after)
         IN  /\ ValidationsFail(c, input.handoff, input.replayFailures) <=>
                  ~(Completion!ValidationsPassed /\ Completion!NoneFailed /\ Completion!ReplaysPass)
             /\ LeavesScope(c, SupervisorOwned, input.handoff, introduced) <=>
                  ~(Completion!DirtInScope /\ Completion!TouchedInScope)
             /\ Completion!DirtInScope =>
                  (ExceedsBudget(c, SupervisorOwned, input.handoff, introduced) <=>
                     ~Completion!WithinBudget)
             /\ ProofsFail(input.slice, c, input.handoff) <=> ~Completion!ProofGiven
<1> DEFINE c == Contract[input.slice]
           introduced == Introduced(input.before, input.after)
<1>1. ValidationsFail(c, input.handoff, input.replayFailures) <=>
        ~(Completion!ValidationsPassed /\ Completion!NoneFailed /\ Completion!ReplaysPass)
  BY DEF ValidationsFail, RequiredValidationFailures, Completion!ValidationsPassed,
         Completion!NoneFailed, Completion!ReplaysPass, Completion!h, Completion!s
<1>2. LeavesScope(c, SupervisorOwned, input.handoff, introduced) <=>
        ~(Completion!DirtInScope /\ Completion!TouchedInScope)
  BY DEF LeavesScope, OutOfScope, Introduced, Completion!DirtInScope,
         Completion!TouchedInScope, Completion!Scope, Completion!NewDirt,
         Completion!h, Completion!s
<1>3. ASSUME Completion!DirtInScope
      PROVE  ExceedsBudget(c, SupervisorOwned, input.handoff, introduced) <=>
               ~Completion!WithinBudget
  <2>1. /\ introduced \subseteq Paths /\ introduced \subseteq c.allowed \cup SupervisorOwned
        /\ c.maxFiles \in Nat /\ input.handoff.touched \subseteq Paths
    BY <1>3, CompletionInputType
    DEF Introduced, Completion!DirtInScope, Completion!Scope, Completion!NewDirt,
        Completion!s, Contracts, Handoff
  <2> HIDE DEF c
  <2>2. ExceedsBudget(c, SupervisorOwned, input.handoff, introduced) <=>
          ~(/\ Cardinality(introduced \ SupervisorOwned) <= c.maxFiles
            /\ Cardinality(input.handoff.touched) <= c.maxFiles)
    BY <2>1, BudgetCounts
  <2> QED
    BY <2>2, CompletionOperators
    DEF c, Introduced, Completion!WithinBudget, Completion!NewDirt,
        Completion!h, Completion!s
<1>4. ProofsFail(input.slice, c, input.handoff) <=> ~Completion!ProofGiven
  <2>1. input.handoff.proofs \in Seq(ProvidedProofs)
    BY CompletionInputType DEF Handoff
  <2>2. \A type :
          ProofHolds(input.slice, input.handoff, type) <=>
            \E i \in Completion!Latest(type) : input.handoff.proofs[i].sound
    <3>1. ASSUME NEW type
          PROVE  ProofHolds(input.slice, input.handoff, type) <=>
                   \E i \in Completion!Latest(type) : input.handoff.proofs[i].sound
      <4>1. \A i : Completion!Counts(i, type) <=> Counted(input.slice, input.handoff, i, type)
        BY DEF Completion!Counts, Completion!h, Completion!s, Counted
      <4> QED
        BY <2>1, <4>1, LastProofHolds DEF Completion!Latest, Completion!h
    <3> QED
      BY <3>1
  <2> QED
    BY <2>2 DEF ProofsFail, ManualProofsMissing, MeetsProofLevel, Completion!ProofGiven,
                Completion!h, Completion!s
<1> QED
  BY <1>1, <1>2, <1>3, <1>4

\* An accepted run is asked what follows it; any other ends its chain.
LEMMA JudgedAsDocumented ==
  ASSUME input \in CompletionInputs
  PROVE  /\ Judged(input).status =
              IF input.handoff.status = "blocked" THEN "blocked"
              ELSE IF Completion!Accepted THEN "done" ELSE "failed"
         /\ Completion!Accepted =>
              Judged(input) = NextSliceEligibility(input.queue, input.slice, input.handoff.next,
                                                   input.runs, Limit)
         /\ ~Completion!Accepted =>
              /\ ~Continues(Judged(input))
              /\ Judged(input).next = NoSlice /\ Judged(input).decision # "stop"
<1> DEFINE c == Contract[input.slice]
           introduced == Introduced(input.before, input.after)
           follow == NextSliceEligibility(input.queue, input.slice, input.handoff.next,
                                          input.runs, Limit)
           Reject(why) == Stop("failed", "stop_failed", why)
<1>1. input.handoff.status \in {"done", "blocked", "failed"}
  BY CompletionInputType DEF Handoff, Verdicts
<1>2. Completion!Accepted <=>
        /\ input.handoff.status = "done"
        /\ ~ValidationsFail(c, input.handoff, input.replayFailures)
        /\ ~LeavesScope(c, SupervisorOwned, input.handoff, introduced)
        /\ ~ExceedsBudget(c, SupervisorOwned, input.handoff, introduced)
        /\ ~ProofsFail(input.slice, c, input.handoff)
  BY QuestionsAreDocumented DEF Completion!Accepted, Completion!ReportsDone, Completion!h
<1>3. follow.status = "done"
  BY EligibilityOutcome
<1>4. \A why : /\ Reject(why).status = "failed" /\ ~Continues(Reject(why))
               /\ Reject(why).next = NoSlice /\ Reject(why).decision # "stop"
  BY DEF Stop, Decision, Continues
<1>5. LET blocked == Stop("blocked", "stop_blocked", "reported")
      IN  /\ blocked.status = "blocked" /\ ~Continues(blocked)
          /\ blocked.next = NoSlice /\ blocked.decision # "stop"
  BY DEF Stop, Decision, Continues
<1>6. CASE input.handoff.status = "blocked"
  <2>1. Judged(input) = Stop("blocked", "stop_blocked", "reported")
    BY <1>6 DEF Judged, EvaluateCompletion
  <2> QED
    BY <1>2, <1>5, <1>6, <2>1
<1>7. CASE Completion!Accepted
  <2>1. Judged(input) = follow
    BY <1>2, <1>7 DEF Judged, EvaluateCompletion
  <2> QED
    BY <1>2, <1>3, <1>7, <2>1
<1>8. CASE input.handoff.status # "blocked" /\ ~Completion!Accepted
  <2>1. \E why : Judged(input) = Reject(why)
    BY <1>1, <1>2, <1>8 DEF Judged, EvaluateCompletion
  <2> HIDE DEF Reject
  <2> QED
    BY <1>4, <1>8, <2>1
<1> QED
  BY <1>6, <1>7, <1>8

-----------------------------------------------------------------------------
(* A case is judged once, and what it was is not forgotten. *)

CompletionInv ==
  judge = "completion" =>
    input \in CompletionInputs /\ outcome \in {Completion!Pending, Judged(input)}

LEMMA CompletionInvCorrect == Spec => []CompletionInv
<1>1. Init => CompletionInv
  BY DEF Init, Completion!Init, Evaluation!Init, CompletionInv
<1>2. CompletionInv /\ [Next]_<<judge, input, queue, outcome>> => CompletionInv'
  BY CompletionOperators
  DEF Next, Completion!Evaluate, Evaluation!Evaluate, CompletionInv, Judged
<1> QED
  BY <1>1, <1>2, PTL DEF Spec

\* A finished run is recorded as what the documented conditions make of it: done
\* if it meets all of them, blocked if it says so, failed otherwise.
THEOREM VerdictCorrect == Spec => []VerdictIsDocumented
<1>1. CompletionInv => VerdictIsDocumented
  BY JudgedAsDocumented
  DEF CompletionInv, VerdictIsDocumented, Completion!VerdictIsDocumented,
      Completion!Decided, Completion!h
<1> QED
  BY <1>1, CompletionInvCorrect, PTL

\* The slices that may follow, and the one that does, as the documentation has it.
LEMMA FollowersAreDocumented ==
  ASSUME input \in CompletionInputs
  PROVE  LET after == AfterDone(input.queue, input.slice)
         IN  /\ Eligible(after) = {t \in Slices : Completion!MayFollow(t)}
             /\ \A t \in Slices : Completion!Follows(t) <=> t \in First(after)
             /\ IF Eligible(after) = {} THEN \A t \in Slices : ~Completion!Follows(t)
                ELSE /\ SelectNextSlice(after) \in Slices
                     /\ \A t \in Slices : Completion!Follows(t) <=> t = SelectNextSlice(after)
<1> DEFINE after == AfterDone(input.queue, input.slice)
<1>1. input.queue \in Queues /\ input.slice \in Slices
  BY CompletionInputType
<1>2. \A t : Completion!MayFollow(t) <=> May(input.queue, input.slice, t)
  BY DEF Completion!MayFollow, Completion!s, May
<1>3. Eligible(after) = {t \in Slices : Completion!MayFollow(t)}
  BY <1>1, <1>2, EligibleAfterDone
<1>4. \A t \in Slices : Completion!Follows(t) <=> t \in First(after)
  BY <1>1, <1>2, FirstAfterDone DEF Completion!Follows
<1>5. IF Eligible(after) = {} THEN First(after) = {}
      ELSE First(after) = {SelectNextSlice(after)} /\ SelectNextSlice(after) \in Slices
  BY SelectionIsFirst DEF First
<1> QED
  BY <1>3, <1>4, <1>5

\* A chain goes on exactly when the run is accepted, the limit is not reached and
\* the slice that may follow is recommended, or nothing is.
THEOREM ContinuesCorrect == Spec => []ContinuesWhenDocumented
<1>1. ASSUME input \in CompletionInputs
      PROVE  Continues(Judged(input)) <=>
               /\ Completion!Accepted /\ Completion!BelowLimit
               /\ \E t \in Slices : Completion!Follows(t) /\ input.handoff.next \in {NoSlice, t}
  <2>1. Completion!BelowLimit <=> ~LimitReached(input.runs, Limit)
    BY <1>1, CompletionInputType, ReviewAssumption
    DEF Completion!BelowLimit, LimitReached, ReviewAssumption
  <2>2. CASE ~Completion!Accepted
    BY <1>1, <2>2, JudgedAsDocumented
  <2>3. CASE Completion!Accepted
    <3>1. Judged(input) = NextSliceEligibility(input.queue, input.slice, input.handoff.next,
                                               input.runs, Limit)
      BY <1>1, <2>3, JudgedAsDocumented
    <3>2. Continues(Judged(input)) <=>
            /\ ~LimitReached(input.runs, Limit)
            /\ Eligible(AfterDone(input.queue, input.slice)) # {}
            /\ input.handoff.next \in
                 {NoSlice, SelectNextSlice(AfterDone(input.queue, input.slice))}
      BY <1>1, <3>1, CompletionInputType, ContinuesWithFirst
    <3> QED
      BY <1>1, <2>1, <2>3, <3>2, FollowersAreDocumented
  <2> QED
    BY <2>2, <2>3
<1>2. CompletionInv => ContinuesWhenDocumented
  BY <1>1, CompletionOperators
  DEF CompletionInv, ContinuesWhenDocumented, Completion!ContinuesWhenDocumented,
      Completion!Decided, Completion!h
<1> QED
  BY <1>2, CompletionInvCorrect, PTL

\* A decision that goes on names the slice that follows, any other names none, and
\* a plain stop is for a run that was accepted with nothing left to run.
THEOREM FollowerCorrect == Spec => []NamesTheFollower
<1>1. ASSUME input \in CompletionInputs
      PROVE  /\ IF Continues(Judged(input)) THEN Completion!Follows(Judged(input).next)
                ELSE Judged(input).next = NoSlice
             /\ Judged(input).decision = "stop" =>
                  /\ Completion!Accepted /\ Completion!BelowLimit
                  /\ \A t \in Slices : ~Completion!MayFollow(t)
  <2>1. Completion!BelowLimit <=> ~LimitReached(input.runs, Limit)
    BY <1>1, CompletionInputType, ReviewAssumption
    DEF Completion!BelowLimit, LimitReached, ReviewAssumption
  <2>2. CASE ~Completion!Accepted
    BY <1>1, <2>2, JudgedAsDocumented
  <2>3. CASE Completion!Accepted
    <3> DEFINE after == AfterDone(input.queue, input.slice)
               best == SelectNextSlice(after)
    <3>1. Judged(input) = NextSliceEligibility(input.queue, input.slice, input.handoff.next,
                                               input.runs, Limit)
      BY <1>1, <2>3, JudgedAsDocumented
    <3>2. /\ Continues(Judged(input)) => Eligible(after) # {}
          /\ Judged(input).next = IF Continues(Judged(input)) THEN best ELSE NoSlice
          /\ Judged(input).decision = "stop" =>
               ~LimitReached(input.runs, Limit) /\ Eligible(after) = {}
      BY <1>1, <3>1, CompletionInputType, ContinuesWithFirst
    <3>3. /\ Eligible(after) # {} => Completion!Follows(best)
          /\ Eligible(after) = {} => \A t \in Slices : ~Completion!MayFollow(t)
      BY <1>1, FollowersAreDocumented
    <3> QED
      BY <2>1, <2>3, <3>2, <3>3
  <2> QED
    BY <2>2, <2>3
<1>2. CompletionInv => NamesTheFollower
  BY <1>1, CompletionOperators
  DEF CompletionInv, NamesTheFollower, Completion!NamesTheFollower, Completion!Decided
<1> QED
  BY <1>2, CompletionInvCorrect, PTL

-----------------------------------------------------------------------------
(* The evaluator. *)

\* The operators of the instance are those of the policy.
LEMMA EvaluationOperators ==
  /\ \A S : Evaluation!Cardinality(S) = Cardinality(S)
  /\ \A c, owned, handoff, changed :
       /\ Evaluation!OutOfScope(changed, c, owned) = OutOfScope(changed, c, owned)
       /\ Evaluation!ExceedsBudget(c, owned, handoff, changed)
            <=> ExceedsBudget(c, owned, handoff, changed)
       /\ Evaluation!RequiredValidationFailures(c, handoff) = RequiredValidationFailures(c, handoff)
       /\ Evaluation!ReplayCandidates(c, handoff) = ReplayCandidates(c, handoff)
  /\ \A s, c, handoff : Evaluation!ProofsFail(s, c, handoff) <=> ProofsFail(s, c, handoff)
  /\ Evaluation!Queues = Queues /\ Evaluation!Contracts = Contracts
  /\ Evaluation!ProvidedProofs = ProvidedProofs
<1>1. \A S : Evaluation!Cardinality(S) = Cardinality(S)
  BY DEF Cardinality, Evaluation!Cardinality
<1>2. \A c, owned, handoff, changed :
        /\ Evaluation!OutOfScope(changed, c, owned) = OutOfScope(changed, c, owned)
        /\ Evaluation!ExceedsBudget(c, owned, handoff, changed)
             <=> ExceedsBudget(c, owned, handoff, changed)
        /\ Evaluation!RequiredValidationFailures(c, handoff)
             = RequiredValidationFailures(c, handoff)
        /\ Evaluation!ReplayCandidates(c, handoff) = ReplayCandidates(c, handoff)
  BY <1>1
  DEF OutOfScope, Evaluation!OutOfScope, ExceedsBudget, Evaluation!ExceedsBudget,
      ChangedFileCount, Evaluation!ChangedFileCount,
      RequiredValidationFailures, Evaluation!RequiredValidationFailures,
      ReplayCandidates, Evaluation!ReplayCandidates
<1>3. \A s, c, handoff : Evaluation!ProofsFail(s, c, handoff) <=> ProofsFail(s, c, handoff)
  BY DEF ProofsFail, Evaluation!ProofsFail, ManualProofsMissing, Evaluation!ManualProofsMissing,
         ProofHolds, Evaluation!ProofHolds, CountedProofs, Evaluation!CountedProofs,
         MeetsProofLevel, Evaluation!MeetsProofLevel
<1>4. Evaluation!Queues = Queues /\ Evaluation!ProvidedProofs = ProvidedProofs
  BY DEF Queues, Evaluation!Queues, Statuses, Evaluation!Statuses,
         ProvidedProofs, Evaluation!ProvidedProofs
<1>5. Evaluation!Contracts = Contracts
  BY DEF Contracts, Evaluation!Contracts, ProofLadder, Evaluation!ProofLadder,
         NoLevel, Evaluation!NoLevel
<1> QED
  BY <1>1, <1>2, <1>3, <1>4, <1>5

Case == input \in EvaluationInputs

\* What a case is made of.
LEMMA EvaluationInputType ==
  ASSUME Case
  PROVE  /\ input.queue \in Queues /\ input.slice \in Slices
         /\ input.owned \subseteq Paths /\ input.handoff.touched \subseteq Paths
         /\ input.handoff.proofs \in Seq(ProvidedProofs)
         /\ \A p \in Paths : input.base.tree[p] \in {p, Absent}
         /\ input.base.record # NoRecord =>
              /\ input.base.record.contract \in Contracts
              /\ input.replayFailures \subseteq
                   ReplayCandidates(input.base.record.contract, input.handoff)
<1>1. Evaluation!Admissible(input)
  BY ReviewAssumption DEF Case, ReviewAssumption
<1> QED
  BY <1>1, EvaluationOperators DEF Evaluation!Admissible

\* What git names between the commits: all that differs but the old names of
\* files that moved.
LEMMA ChangedIsNamed ==
  ASSUME Case
  PROVE  Evaluation!ChangedFilesBetween(input.base, input.head) = Evaluation!Named
<1>1. \A p \in Paths : input.base.tree[p] \in {p, Absent} /\ p # Absent
  BY EvaluationInputType, ReviewAssumption DEF ReviewAssumption
<1>2. \A p \in Paths : Evaluation!Differs(p) =>
        (p \in Evaluation!MovedAway(input.base, input.head) <=> Evaluation!OldName(p))
  BY <1>1 DEF Evaluation!MovedAway, Evaluation!OldName, Evaluation!Differs
<1> QED
  BY <1>2 DEF Evaluation!ChangedFilesBetween, Evaluation!Named, Evaluation!Differs

\* With a frozen contract, the judgement is a matter of the documented scope,
\* budget, validations and proofs.
LEMMA JudgementIsDocumented ==
  ASSUME Case, input.base.record # NoRecord, input.handoff.sha = "head"
  PROVE  Evaluation!Judgement(input.base.record.contract, input.owned, input.handoff,
                              Evaluation!ChangedFilesBetween(input.base, input.head))
           = Evaluation!Accept
         <=> /\ Evaluation!InScope /\ Evaluation!WithinBudget
             /\ Evaluation!ValidationsPass /\ Evaluation!ProofGiven
<1> DEFINE c == input.base.record.contract
           named == Evaluation!Named
<1>1. /\ c \in Contracts /\ input.handoff.touched \subseteq Paths /\ input.owned \subseteq Paths
      /\ input.replayFailures \subseteq ReplayCandidates(c, input.handoff)
      /\ input.handoff.proofs \in Seq(ProvidedProofs)
  BY EvaluationInputType
<1>2. named \subseteq Paths
  BY DEF Evaluation!Named
<1>3. Evaluation!InScope <=>
        OutOfScope(named, c, input.owned) = {} /\ OutOfScope(input.handoff.touched, c, input.owned) = {}
  BY DEF Evaluation!InScope, Evaluation!h, Evaluation!frozen, OutOfScope
<1>4. ASSUME OutOfScope(named, c, input.owned) = {}
      PROVE  ExceedsBudget(c, input.owned, input.handoff, named) <=> ~Evaluation!WithinBudget
  <2>1. c.maxFiles \in Nat
    BY <1>1 DEF Contracts
  <2>2. named \subseteq c.allowed \cup input.owned
    BY <1>4 DEF OutOfScope
  <2> HIDE DEF c, named
  <2>3. ExceedsBudget(c, input.owned, input.handoff, named) <=>
          ~(/\ Cardinality(named \ input.owned) <= c.maxFiles
            /\ Cardinality(input.handoff.touched) <= c.maxFiles)
    BY <1>1, <1>2, <2>1, <2>2, BudgetCounts
  <2> QED
    BY <2>3, EvaluationOperators
    DEF c, named, Evaluation!WithinBudget, Evaluation!h, Evaluation!frozen
<1>5. Evaluation!ValidationsPass <=>
        RequiredValidationFailures(c, input.handoff) = {} /\ input.replayFailures = {}
  BY <1>1 DEF Evaluation!ValidationsPass, Evaluation!h, Evaluation!frozen,
              RequiredValidationFailures, ReplayCandidates
<1>6. ProofsFail(input.slice, c, input.handoff) <=> ~Evaluation!ProofGiven
  <2>1. \A i, type : Evaluation!Counts(i, type) <=> Counted(input.slice, input.handoff, i, type)
    BY DEF Evaluation!Counts, Evaluation!h, Counted
  <2>2. \A type : ProofHolds(input.slice, input.handoff, type) <=>
          \E i \in DOMAIN input.handoff.proofs :
            /\ Counted(input.slice, input.handoff, i, type) /\ input.handoff.proofs[i].sound
            /\ \A j \in (i + 1)..Len(input.handoff.proofs) :
                 ~Counted(input.slice, input.handoff, j, type)
    BY <1>1, LastProofHolds
  <2> QED
    BY <2>1, <2>2
    DEF ProofsFail, ManualProofsMissing, MeetsProofLevel, Evaluation!ProofGiven,
        Evaluation!h, Evaluation!frozen
<1>7. \A why : Evaluation!Reject(why) # Evaluation!Accept
  BY DEF Evaluation!Reject, Evaluation!Accept, Evaluation!Report
<1>8. Evaluation!Judgement(c, input.owned, input.handoff, named) = Evaluation!Accept <=>
        /\ OutOfScope(named, c, input.owned) = {}
        /\ ~ExceedsBudget(c, input.owned, input.handoff, named)
        /\ OutOfScope(input.handoff.touched, c, input.owned) = {}
        /\ RequiredValidationFailures(c, input.handoff) = {}
        /\ input.replayFailures = {}
        /\ ~ProofsFail(input.slice, c, input.handoff)
  BY <1>7, EvaluationOperators DEF Evaluation!Judgement
<1> QED
  BY <1>3, <1>4, <1>5, <1>6, <1>8, ChangedIsNamed

\* A case is judged once, on the queue as it was.
LEMMA ExaminationIsDocumented ==
  ASSUME Case, queue = input.queue
  PROVE  Evaluation!Examination(input.base, input.head, input.handoff) = Evaluation!Accept <=>
           /\ input.queue[input.slice] = "queued"
           /\ input.handoff.slice = input.slice /\ input.handoff.sha = "head"
           /\ input.handoff.clean /\ input.handoff.outside = {}
           /\ Evaluation!ContractFrozen
           /\ Evaluation!InScope /\ Evaluation!WithinBudget
           /\ Evaluation!ValidationsPass /\ Evaluation!ProofGiven
<1>1. \A why : Evaluation!Reject(why) # Evaluation!Accept
  BY DEF Evaluation!Reject, Evaluation!Accept, Evaluation!Report
<1>2. Evaluation!ContractFrozen <=>
        /\ NoRecord \notin {input.base.record, input.head.record}
        /\ ~Evaluation!ContractDrift(input.base, input.head)
  BY DEF Evaluation!ContractFrozen, Evaluation!ContractDrift
<1>3. Evaluation!Examination(input.base, input.head, input.handoff) = Evaluation!Accept <=>
        /\ input.queue[input.slice] = "queued"
        /\ input.handoff.slice = input.slice /\ input.handoff.sha = "head"
        /\ input.handoff.clean /\ input.handoff.outside = {}
        /\ Evaluation!ContractFrozen
        /\ Evaluation!Judgement(input.base.record.contract, input.owned, input.handoff,
                                Evaluation!ChangedFilesBetween(input.base, input.head))
             = Evaluation!Accept
  BY <1>1, <1>2 DEF Evaluation!Examination, Evaluation!Verified
<1> QED
  BY <1>3, JudgementIsDocumented DEF Evaluation!ContractFrozen

\* The conditions are about the case alone.
LEMMA ConditionsKept ==
  ASSUME input' = input
  PROVE  /\ Evaluation!ContractFrozen' <=> Evaluation!ContractFrozen
         /\ Evaluation!InScope' <=> Evaluation!InScope
         /\ Evaluation!WithinBudget' <=> Evaluation!WithinBudget
         /\ Evaluation!ValidationsPass' <=> Evaluation!ValidationsPass
         /\ Evaluation!ProofGiven' <=> Evaluation!ProofGiven
BY DEF Evaluation!ContractFrozen, Evaluation!InScope, Evaluation!WithinBudget,
       Evaluation!ValidationsPass, Evaluation!ProofGiven, Evaluation!Named,
       Evaluation!Differs, Evaluation!OldName, Evaluation!Counts,
       Evaluation!frozen, Evaluation!h

EvaluationInv ==
  judge = "evaluation" =>
    /\ Case
    /\ outcome = Evaluation!Pending => queue = input.queue
    /\ Evaluation!AcceptanceIsDocumented

\* The evaluator accepts exactly what is documented, and what it does to the queue
\* is to close an accepted slice, that one and no other.
THEOREM AcceptanceCorrect == Spec => []AcceptanceIsDocumented
<1>1. Init => EvaluationInv
  BY DEF Init, Completion!Init, Evaluation!Init, EvaluationInv, Case,
         Evaluation!AcceptanceIsDocumented
<1>2. ASSUME EvaluationInv, [Next]_<<judge, input, queue, outcome>> PROVE EvaluationInv'
  <2>1. CASE judge = "evaluation" /\ Evaluation!Evaluate /\ UNCHANGED judge
    <3>1. /\ Case /\ queue = input.queue /\ input' = input
          /\ outcome' = Evaluation!Examination(input.base, input.head, input.handoff)
          /\ queue' = Evaluation!Closed(outcome')
      BY <1>2, <2>1 DEF EvaluationInv, Evaluation!Evaluate
    <3>2. outcome' = Evaluation!Accept <=>
            /\ input.queue[input.slice] = "queued"
            /\ input.handoff.slice = input.slice /\ input.handoff.sha = "head"
            /\ input.handoff.clean /\ input.handoff.outside = {}
            /\ Evaluation!ContractFrozen
            /\ Evaluation!InScope /\ Evaluation!WithinBudget
            /\ Evaluation!ValidationsPass /\ Evaluation!ProofGiven
      BY <3>1, ExaminationIsDocumented
    <3>3. queue' = IF outcome' = Evaluation!Accept /\ ~input.dryRun
                   THEN [input.queue EXCEPT ![input.slice] = "done"] ELSE input.queue
      BY <3>1 DEF Evaluation!Closed
    <3>4. Evaluation!Pending # Evaluation!Accept
      BY DEF Evaluation!Pending, Evaluation!Accept, Evaluation!Report
    <3>5. Evaluation!Accepted' <=> outcome' = Evaluation!Accept
      BY DEF Evaluation!Accepted, Evaluation!Accept, Evaluation!Report
    <3>6. Evaluation!AcceptanceIsDocumented'
      BY <3>1, <3>2, <3>3, <3>5, ConditionsKept
      DEF Evaluation!AcceptanceIsDocumented, Evaluation!h
    <3>7. Evaluation!Pending' = Evaluation!Pending
      BY DEF Evaluation!Pending, Evaluation!Report
    <3>8. outcome' = Evaluation!Pending' => queue' = input'.queue
      BY <3>1, <3>3, <3>4, <3>7
    <3>9. Case'
      BY <3>1 DEF Case
    <3> QED
      BY <3>6, <3>8, <3>9 DEF EvaluationInv
  <2>2. CASE judge = "completion" /\ UNCHANGED judge
    BY <2>2 DEF EvaluationInv
  <2>3. CASE UNCHANGED <<judge, input, queue, outcome>>
    BY <1>2, <2>3, ConditionsKept
    DEF EvaluationInv, Case, Evaluation!AcceptanceIsDocumented, Evaluation!Accepted,
        Evaluation!h, Evaluation!Pending, Evaluation!Accept, Evaluation!Report
  <2> QED
    BY <1>2, <2>1, <2>2, <2>3 DEF Next
<1>3. EvaluationInv => AcceptanceIsDocumented
  BY DEF EvaluationInv, AcceptanceIsDocumented
<1> QED
  BY <1>1, <1>2, <1>3, PTL DEF Spec
=============================================================================
