------------------------ MODULE JsonSupervisorProofs ------------------------
(***************************************************************************)
(* Proofs about the supervisor on its JSON queue, for any number of slices,  *)
(* supervisors and evaluators, any contract, any run limit and any crashes:  *)
(* types, the run limit, and that a slice is done only if that was earned.   *)
(***************************************************************************)
EXTENDS JsonSupervisor, SliceSelectionProofs, FiniteSetTheorems

-----------------------------------------------------------------------------
(* Lemmas about the verdict on a run. *)

\* The file count is a number, so exceeding the budget is the negation of
\* keeping it.
LEMMA FileCountType ==
  ASSUME NEW c, NEW owned, NEW h \in Handoff, NEW changed \in SUBSET Paths
  PROVE  ChangedFileCount(c, owned, h, changed) \in Nat
<1>1. IsFiniteSet(Paths)
  BY ContractAssumption
<1>2. (changed \cap c.allowed) \ owned \subseteq Paths /\ h.touched \subseteq Paths
  BY DEF Handoff
<1>3. /\ Cardinality((changed \cap c.allowed) \ owned) \in Nat
      /\ Cardinality(h.touched) \in Nat
  BY <1>1, <1>2, FS_Subset, FS_CardinalityType
<1> QED
  BY <1>3 DEF ChangedFileCount

\* A handoff none of the checks turns down meets every documented condition.
LEMMA ChecksSuffice ==
  ASSUME NEW s \in Slices, NEW h \in Handoff,
         NEW wasDirty \in SUBSET Paths, NEW isDirty \in SUBSET Paths,
         NEW replayFailures,
         h.status = "done",
         ~ValidationsFail(Contract[s], h, replayFailures),
         ~LeavesScope(Contract[s], SupervisorOwned, h, Introduced(wasDirty, isDirty)),
         ~ExceedsBudget(Contract[s], SupervisorOwned, h, Introduced(wasDirty, isDirty)),
         ~ProofsFail(s, Contract[s], h)
  PROVE  EarnsDone(s, h, wasDirty, isDirty, replayFailures)
<1> DEFINE c == Contract[s]
           introduced == Introduced(wasDirty, isDirty)
<1>1. introduced = isDirty \ wasDirty /\ introduced \in SUBSET Paths
  BY DEF Introduced
<1>2. c.required \subseteq h.passed \ (h.failed \cup replayFailures)
  BY DEF ValidationsFail, RequiredValidationFailures
<1>3. /\ introduced \cup h.touched \subseteq c.allowed \cup SupervisorOwned
      /\ h.outside = {}
  BY DEF LeavesScope, OutOfScope
<1>4. ChangedFileCount(c, SupervisorOwned, h, introduced) <= c.maxFiles
  <2>1. ChangedFileCount(c, SupervisorOwned, h, introduced) \in Nat
    BY <1>1, FileCountType
  <2>2. c.maxFiles \in Nat
    BY ContractAssumption DEF Contracts
  <2> QED
    BY <2>1, <2>2 DEF ExceedsBudget
<1>5. /\ c.manual # {} => h.sha = "head"
      /\ \A type \in c.manual : ProofHolds(s, h, type)
      /\ h.level >= c.level
  BY DEF ProofsFail, ManualProofsMissing, MeetsProofLevel
<1> QED
  BY <1>1, <1>2, <1>3, <1>4, <1>5 DEF EarnsDone

\* evaluate_completion gives a verdict, calls a run done only if it earned that,
\* and lets the chain go on only after a done run under the limit.
LEMMA CompletionOutcome ==
  ASSUME NEW q, NEW s \in Slices, NEW h \in Handoff,
         NEW wasDirty \in SUBSET Paths, NEW isDirty \in SUBSET Paths,
         NEW runCount, NEW limit, NEW replayFailures,
         NEW d,
         d = EvaluateCompletion(q, s, h, wasDirty, isDirty, runCount, limit, replayFailures)
  PROVE  /\ d \in Decisions /\ d.status \in Verdicts
         /\ d.status = "done" => EarnsDone(s, h, wasDirty, isDirty, replayFailures)
         /\ Continues(d) => d.status = "done" /\ ~LimitReached(runCount, limit)
<1> DEFINE c == Contract[s]
           introduced == Introduced(wasDirty, isDirty)
           Passes == /\ h.status = "done"
                     /\ ~ValidationsFail(c, h, replayFailures)
                     /\ ~LeavesScope(c, SupervisorOwned, h, introduced)
                     /\ ~ExceedsBudget(c, SupervisorOwned, h, introduced)
                     /\ ~ProofsFail(s, c, h)
<1>1. Passes => EarnsDone(s, h, wasDirty, isDirty, replayFailures)
  BY ChecksSuffice
<1>2. h.status \in Verdicts
  BY DEF Handoff
<1>3. CASE Passes
  <2>1. d = NextSliceEligibility(q, s, h.next, runCount, limit)
    BY <1>3 DEF EvaluateCompletion
  <2> QED
    BY <2>1, <1>1, <1>3, EligibilityOutcome DEF Verdicts
<1>4. CASE ~Passes
  <2>1. \/ d = Stop("blocked", "stop_blocked", "reported")
        \/ \E why \in {"reported", "validations", "scope", "budget", "proof"} :
             d = Stop("failed", "stop_failed", why)
    BY <1>4, <1>2 DEF EvaluateCompletion, Verdicts
  <2>2. /\ {"blocked", "failed"} \subseteq Statuses \ {"done"}
        /\ {"stop_blocked", "stop_failed"} \subseteq Choices \ {"continue"}
        /\ {"reported", "validations", "scope", "budget", "proof"} \subseteq Reasons
    BY DEF Statuses, Choices, Reasons
  <2> QED
    BY <2>1, <2>2, StopType DEF Verdicts
<1> QED
  BY <1>3, <1>4

-----------------------------------------------------------------------------
(* Types. *)

\* The verdicts that are not computed have the type of one.
LEMMA ConstantVerdicts ==
  /\ NoVerdict \in Decisions /\ NoVerdict.status = "queued" /\ ~Continues(NoVerdict)
  /\ Failure \in Decisions /\ Failure.status = "failed" /\ ~Continues(Failure)
BY StopType DEF NoVerdict, Failure, Statuses, Choices, Reasons

\* Ending an invocation leaves its variables in their types.
LEMMA ExitType ==
  ASSUME TypeOK, NEW p \in Supervisors, Exit(p)
  PROVE  /\ phase' \in [Supervisors -> Phases]
         /\ current' \in [Supervisors -> Slices \cup {NoSlice}]
         /\ view' \in [Supervisors -> Queues]
         /\ before' \in [Supervisors -> SUBSET Paths]
         /\ runs' \in [Supervisors -> Nat]
         /\ verdict' \in [Supervisors -> Decisions]
         /\ snap' \in [Processes -> Queues]
BY ConstantVerdicts, SupervisorAssumption DEF TypeOK, Exit, Goto, Phases, Processes

\* What a status change writes is a queue again.
LEMMA WriteStatusType ==
  ASSUME TypeOK, NEW x \in Processes, NEW s, NEW v \in Statuses, WriteStatus(x, s, v)
  PROVE  queue' \in Queues
BY DEF TypeOK, WriteStatus, Queues

LEMMA InitType == Init => TypeOK
<1> SUFFICES ASSUME Init PROVE TypeOK
  OBVIOUS
<1>1. /\ queue \in Queues
      /\ view \in [Supervisors -> Queues]
      /\ snap \in [Processes -> Queues]
  BY SupervisorAssumption DEF Init
<1>2. verdict \in [Supervisors -> Decisions]
  BY ConstantVerdicts DEF Init
<1>3. /\ dirty \subseteq Paths
      /\ phase \in [Supervisors -> Phases]
      /\ current \in [Supervisors -> Slices \cup {NoSlice}]
      /\ before \in [Supervisors -> SUBSET Paths]
      /\ runs \in [Supervisors -> Nat]
      /\ agent \in [Supervisors -> BOOLEAN]
      /\ orphan \in BOOLEAN
  BY DEF Init, Phases
<1>4. /\ closing \in [Evaluators -> Slices \cup {NoSlice}]
      /\ reading \in [Evaluators -> BOOLEAN]
      /\ earned \subseteq Slices
  BY DEF Init
<1> QED
  BY <1>1, <1>2, <1>3, <1>4 DEF TypeOK

\* Every step of a supervisor keeps the types.
LEMMA SupervisorType ==
  ASSUME TypeOK, NEW p \in Supervisors, Start(p) \/ Progress(p) \/ Crash(p)
  PROVE  TypeOK'
<1> USE DEF runVars, agentVars, evaluatorVars
<1>1. p \in Processes
  BY DEF Processes
<1>2. CASE Start(p)
  BY <1>2 DEF TypeOK, Start, Goto, Phases
<1>3. CASE Select(p)
  <2>1. SelectNextSlice(queue) \in Slices
    BY <1>3, SelectionType DEF Select, Eligible
  <2> QED
    BY <1>3, <2>1 DEF TypeOK, Select, Goto, Phases
<1>4. CASE SelectStops(p)
  BY <1>4, ExitType DEF TypeOK, SelectStops
<1>5. CASE ClaimRead(p)
  BY <1>5 DEF TypeOK, ClaimRead, Goto, Phases
<1>6. CASE ClaimWrite(p)
  <2>1. queue' \in Queues
    BY <1>1, <1>6, WriteStatusType DEF ClaimWrite, Statuses
  <2>2. [view[p] EXCEPT ![current[p]] = "in_progress"] \in Queues
    BY DEF TypeOK, Queues, Statuses
  <2> QED
    BY <1>6, <2>1, <2>2, SupervisorAssumption DEF TypeOK, ClaimWrite, Goto, Phases
<1>7. CASE SetStatusRefused(p)
  BY <1>7, ExitType DEF TypeOK, SetStatusRefused
<1>8. CASE AgentReturns(p)
  BY <1>8 DEF TypeOK, AgentReturns, Goto, Phases
<1>9. CASE AgentFails(p)
  BY <1>9, ConstantVerdicts DEF TypeOK, AgentFails, Fail, Goto, Phases
<1>10. CASE HandoffFails(p)
  BY <1>10, ConstantVerdicts DEF TypeOK, HandoffFails, Fail, Goto, Phases
<1>11. CASE RunEscapes(p)
  BY <1>11, ExitType DEF TypeOK, RunEscapes
<1>12. CASE Judge(p)
  <2>1. PICK h \in Handoffs, replayFailures \in SUBSET Validations :
          /\ h.slice = current[p]
          /\ verdict' = [verdict EXCEPT ![p] =
               EvaluateCompletion(view[p], current[p], h, before[p], dirty,
                                  runs[p] + 1, Limit, replayFailures)]
          /\ earned' = IF EarnsDone(current[p], h, before[p], dirty, replayFailures)
                       THEN earned \cup {current[p]} ELSE earned
    BY <1>12, SupervisorAssumption DEF Judge, ReplayCandidates, Handoff
  <2>2. h \in Handoff /\ current[p] \in Slices
    BY <2>1, SupervisorAssumption DEF Handoff
  <2>3. EvaluateCompletion(view[p], current[p], h, before[p], dirty,
                           runs[p] + 1, Limit, replayFailures) \in Decisions
    BY <2>2, CompletionOutcome DEF TypeOK
  <2> QED
    BY <1>12, <2>1, <2>2, <2>3 DEF TypeOK, Judge, Goto, Phases
<1>13. CASE RecordRead(p)
  BY <1>13 DEF TypeOK, RecordRead, Goto, Phases
<1>14. CASE RecordWrite(p)
  <2>1. queue' \in Queues
    BY <1>1, <1>14, WriteStatusType DEF RecordWrite, TypeOK, Decisions
  <2>2. CASE Continues(verdict[p])
    BY <1>14, <2>1, <2>2, SupervisorAssumption DEF TypeOK, RecordWrite, Goto, Phases
  <2>3. CASE ~Continues(verdict[p])
    BY <1>14, <2>1, <2>3, ExitType DEF TypeOK, RecordWrite
  <2> QED
    BY <2>2, <2>3
<1>15. CASE Crash(p)
  BY <1>15, ExitType DEF TypeOK, Crash
<1>16. CASE Inspect(p)
  <2>1. CASE Exit(p)
    BY <1>16, <2>1, ExitType DEF TypeOK, Inspect
  <2>2. CASE ~Exit(p)
    BY <1>16, <2>2 DEF TypeOK, Inspect, Goto, Phases
  <2> QED
    BY <2>1, <2>2
<1> QED
  BY <1>2, <1>3, <1>4, <1>5, <1>6, <1>7, <1>8, <1>9, <1>10, <1>11, <1>12, <1>13,
     <1>14, <1>15, <1>16 DEF Progress

\* Every step of an evaluator keeps the types.
LEMMA EvaluatorType ==
  ASSUME TypeOK, NEW e \in Evaluators,
         (\E s \in Slices : Accept(e, s)) \/ CloseRead(e) \/ CloseWrite(e) \/ CloseAborts(e)
  PROVE  TypeOK'
<1> USE DEF runVars, agentVars, evaluatorVars
<1>1. e \in Processes
  BY DEF Processes
<1>2. ASSUME NEW s \in Slices, Accept(e, s) PROVE TypeOK'
  BY <1>2 DEF TypeOK, Accept
<1>3. CASE CloseRead(e)
  BY <1>3 DEF TypeOK, CloseRead
<1>4. CASE CloseWrite(e)
  <2>1. queue' \in Queues
    BY <1>1, <1>4, WriteStatusType DEF CloseWrite, Statuses
  <2> QED
    BY <1>4, <2>1, SupervisorAssumption DEF TypeOK, CloseWrite
<1>5. CASE CloseAborts(e)
  BY <1>5, SupervisorAssumption DEF TypeOK, CloseAborts
<1> QED
  BY <1>2, <1>3, <1>4, <1>5

\* Every variable keeps its type, whoever takes the step.
LEMMA NextType == TypeOK /\ [Next]_vars => TypeOK'
<1> USE DEF runVars, agentVars, evaluatorVars
<1> SUFFICES ASSUME TypeOK, [Next]_vars PROVE TypeOK'
  OBVIOUS
<1>1. CASE SupervisorNext
  BY <1>1, SupervisorType DEF SupervisorNext
<1>2. CASE EvaluatorNext
  BY <1>2, EvaluatorType DEF EvaluatorNext
<1>3. CASE OperatorNext
  <2>1. CASE OperatorCleans
    BY <2>1 DEF TypeOK, OperatorCleans
  <2>2. ASSUME NEW s \in Slices, OperatorEdit(s) PROVE TypeOK'
    BY <2>2 DEF TypeOK, OperatorEdit, Queues, Statuses
  <2> QED
    BY <1>3, <2>1, <2>2 DEF OperatorNext
<1>4. CASE AgentWorks
  BY <1>4 DEF TypeOK, AgentWorks
<1>5. CASE OrphanEnds
  BY <1>5 DEF TypeOK, OrphanEnds
<1>6. CASE UNCHANGED vars
  BY <1>6 DEF TypeOK, vars
<1> QED
  BY <1>1, <1>2, <1>3, <1>4, <1>5, <1>6 DEF Next

\* The type invariant: the queue file always holds statuses the queue model
\* knows, and every process variable keeps its type.
THEOREM TypeCorrect == Spec => []TypeOK
BY InitType, NextType, PTL DEF Spec

-----------------------------------------------------------------------------
(* The run limit.  RunLimitHolds says nothing of a verdict on its way to the *)
(* file, and so is not inductive: what the supervisor writes and then acts on *)
(* was decided when runs was counted, and must still be under the limit.      *)

LimitInv ==
  \A p \in Supervisors :
    /\ runs[p] <= Limit
    /\ phase[p] \notin {"recording", "writing"} => runs[p] < Limit
    /\ phase[p] \in {"recording", "writing"} /\ Continues(verdict[p]) => runs[p] < Limit

\* An ended invocation has no runs behind it.
LEMMA ExitLimit ==
  ASSUME TypeOK, LimitInv, NEW p \in Supervisors, Exit(p)
  PROVE  LimitInv'
BY SupervisorAssumption DEF TypeOK, LimitInv, Exit, Goto

LEMMA SupervisorLimit ==
  ASSUME TypeOK, LimitInv, NEW p \in Supervisors, Start(p) \/ Progress(p) \/ Crash(p)
  PROVE  LimitInv'
<1> USE DEF runVars
<1>1. CASE Start(p)
  BY <1>1 DEF TypeOK, LimitInv, Start, Goto
<1>2. CASE Select(p) \/ (Inspect(p) /\ ~Exit(p))
  BY <1>2 DEF TypeOK, LimitInv, Select, Inspect, Goto
<1>3. CASE ClaimRead(p)
  BY <1>3 DEF TypeOK, LimitInv, ClaimRead, Goto
<1>4. CASE ClaimWrite(p)
  BY <1>4 DEF TypeOK, LimitInv, ClaimWrite, Goto
<1>5. CASE AgentReturns(p)
  BY <1>5 DEF TypeOK, LimitInv, AgentReturns, Goto
<1>6. CASE AgentFails(p) \/ HandoffFails(p)
  BY <1>6, ConstantVerdicts
  DEF TypeOK, LimitInv, AgentFails, HandoffFails, Fail, Goto
<1>7. CASE Judge(p)
  <2>1. PICK h \in Handoffs, replayFailures \in SUBSET Validations :
          /\ h.slice = current[p]
          /\ verdict' = [verdict EXCEPT ![p] =
               EvaluateCompletion(view[p], current[p], h, before[p], dirty,
                                  runs[p] + 1, Limit, replayFailures)]
    BY <1>7, SupervisorAssumption DEF Judge, ReplayCandidates, Handoff
  <2>2. h \in Handoff /\ current[p] \in Slices
    BY <2>1, SupervisorAssumption DEF Handoff
  <2>3. Continues(verdict'[p]) => ~LimitReached(runs[p] + 1, Limit)
    BY <2>1, <2>2, CompletionOutcome DEF TypeOK
  <2>4. /\ runs' = [runs EXCEPT ![p] = @ + 1]
        /\ phase[p] = "judging"
        /\ phase' = [phase EXCEPT ![p] = "recording"]
    BY <1>7 DEF Judge, Goto
  <2> QED
    BY <2>1, <2>3, <2>4, SupervisorAssumption DEF TypeOK, LimitInv, LimitReached
<1>8. CASE RecordRead(p)
  BY <1>8 DEF TypeOK, LimitInv, RecordRead, Goto
<1>9. CASE RecordWrite(p) /\ Continues(verdict[p])
  BY <1>9 DEF TypeOK, LimitInv, RecordWrite, Goto
<1>10. CASE \/ SelectStops(p) \/ (Inspect(p) /\ Exit(p))
            \/ SetStatusRefused(p) \/ RunEscapes(p) \/ Crash(p)
            \/ RecordWrite(p) /\ ~Continues(verdict[p])
  BY <1>10, ExitLimit DEF SelectStops, SetStatusRefused, RunEscapes, Crash, RecordWrite
<1> QED
  BY <1>1, <1>2, <1>3, <1>4, <1>5, <1>6, <1>7, <1>8, <1>9, <1>10 DEF Progress

LEMMA NextLimit == TypeOK /\ LimitInv /\ [Next]_vars => LimitInv'
<1> SUFFICES ASSUME TypeOK, LimitInv, [Next]_vars PROVE LimitInv'
  OBVIOUS
<1>1. CASE SupervisorNext
  BY <1>1, SupervisorLimit DEF SupervisorNext
<1>2. CASE UNCHANGED <<phase, runVars>>
  BY <1>2 DEF LimitInv, runVars
<1>3. EvaluatorNext \/ OperatorNext \/ AgentWorks \/ OrphanEnds \/ UNCHANGED vars
        => UNCHANGED <<phase, runVars>>
  BY DEF EvaluatorNext, Accept, CloseRead, CloseWrite, CloseAborts, OperatorNext,
         OperatorEdit, OperatorCleans, AgentWorks, OrphanEnds, vars
<1> QED
  BY <1>1, <1>2, <1>3 DEF Next

\* No invocation makes more runs than the limit, however its runs, crashes and
\* rivals interleave: an agent is launched only with a run still to spend.
THEOREM RunLimitCorrect == Spec => []RunLimitHolds
<1>1. Init => LimitInv
  BY SupervisorAssumption, ConstantVerdicts DEF Init, LimitInv
<1>2. TypeOK /\ LimitInv => RunLimitHolds
  BY DEF LimitInv, RunLimitHolds
<1> QED
  BY <1>1, <1>2, TypeCorrect, NextLimit, PTL DEF Spec

-----------------------------------------------------------------------------
(* Done was earned.  Every copy of the queue that may still be written back, *)
(* and every verdict and acceptance on its way to the file, must be covered   *)
(* by earned too.                                                             *)

DoneIn(q) == {s \in Slices : q[s] = "done"}

EarnedInv ==
  /\ DoneIn(InitialQueue) \subseteq earned
  /\ DoneIn(queue) \subseteq earned
  /\ \A x \in Processes : DoneIn(snap[x]) \subseteq earned
  /\ \A p \in Supervisors :
       phase[p] \in {"recording", "writing"} /\ verdict[p].status = "done"
         => current[p] \in earned
  /\ \A e \in Evaluators : closing[e] # NoSlice => closing[e] \in earned

\* A write takes the snapshot, with one slice changed, to the file.
LEMMA WriteStatusEarned ==
  ASSUME TypeOK, EarnedInv, NEW x \in Processes, NEW s, NEW v,
         WriteStatus(x, s, v), v = "done" => s \in earned
  PROVE  DoneIn(queue') \subseteq earned
BY DEF TypeOK, EarnedInv, WriteStatus, DoneIn, Queues

LEMMA ExitEarned ==
  ASSUME TypeOK, EarnedInv, NEW p \in Supervisors, Exit(p),
         DoneIn(queue') \subseteq earned, UNCHANGED <<closing, earned>>
  PROVE  EarnedInv'
BY DEF TypeOK, EarnedInv, Exit, Goto, DoneIn, Processes

LEMMA SupervisorEarned ==
  ASSUME TypeOK, EarnedInv, NEW p \in Supervisors, Start(p) \/ Progress(p) \/ Crash(p)
  PROVE  EarnedInv'
<1> USE DEF runVars, evaluatorVars
<1>1. p \in Processes
  BY DEF Processes
<1>2. CASE Start(p) \/ Select(p) \/ (Inspect(p) /\ ~Exit(p))
  BY <1>2 DEF TypeOK, EarnedInv, Start, Select, Inspect, Goto, DoneIn
<1>3. CASE ClaimRead(p)
  BY <1>3 DEF TypeOK, EarnedInv, ClaimRead, Goto, DoneIn
<1>4. CASE ClaimWrite(p)
  <2>1. DoneIn(queue') \subseteq earned
    BY <1>1, <1>4, WriteStatusEarned DEF ClaimWrite
  <2> QED
    BY <1>4, <2>1 DEF TypeOK, EarnedInv, ClaimWrite, Goto, DoneIn
<1>5. CASE AgentReturns(p)
  BY <1>5 DEF TypeOK, EarnedInv, AgentReturns, Goto, DoneIn
<1>6. CASE AgentFails(p) \/ HandoffFails(p)
  BY <1>6, ConstantVerdicts
  DEF TypeOK, EarnedInv, AgentFails, HandoffFails, Fail, Goto, DoneIn
<1>7. CASE Judge(p)
  <2>1. PICK h \in Handoffs, replayFailures \in SUBSET Validations :
          /\ h.slice = current[p]
          /\ verdict' = [verdict EXCEPT ![p] =
               EvaluateCompletion(view[p], current[p], h, before[p], dirty,
                                  runs[p] + 1, Limit, replayFailures)]
          /\ earned' = IF EarnsDone(current[p], h, before[p], dirty, replayFailures)
                       THEN earned \cup {current[p]} ELSE earned
    BY <1>7, SupervisorAssumption DEF Judge, ReplayCandidates, Handoff
  <2>2. h \in Handoff /\ current[p] \in Slices
    BY <2>1, SupervisorAssumption DEF Handoff
  <2>3. verdict'[p].status = "done" => current[p] \in earned'
    BY <2>1, <2>2, CompletionOutcome DEF TypeOK
  <2>4. earned \subseteq earned'
    BY <2>1
  <2>5. UNCHANGED <<queue, current, snap, closing>> /\ phase' = [phase EXCEPT ![p] = "recording"]
    BY <1>7 DEF Judge, Goto
  <2>6. \A o \in Supervisors \ {p} : phase'[o] = phase[o] /\ verdict'[o] = verdict[o]
    BY <2>1, <2>5 DEF TypeOK
  <2> QED
    BY <2>3, <2>4, <2>5, <2>6 DEF EarnedInv, DoneIn
<1>8. CASE RecordRead(p)
  BY <1>8 DEF TypeOK, EarnedInv, RecordRead, Goto, DoneIn
<1>9. CASE RecordWrite(p)
  <2>1. DoneIn(queue') \subseteq earned
    BY <1>1, <1>9, WriteStatusEarned DEF RecordWrite, EarnedInv
  <2>2. CASE Continues(verdict[p])
    BY <1>9, <2>1, <2>2 DEF TypeOK, EarnedInv, RecordWrite, Goto, DoneIn
  <2>3. CASE ~Continues(verdict[p])
    BY <1>9, <2>1, <2>3, ExitEarned DEF RecordWrite
  <2> QED
    BY <2>2, <2>3
<1>10. CASE \/ SelectStops(p) \/ (Inspect(p) /\ Exit(p))
            \/ SetStatusRefused(p) \/ RunEscapes(p) \/ Crash(p)
  <2>1. DoneIn(queue') \subseteq earned
    BY <1>10
    DEF SelectStops, Inspect, SetStatusRefused, RunEscapes, Crash, EarnedInv, DoneIn
  <2> QED
    BY <1>10, <2>1, ExitEarned
    DEF SelectStops, Inspect, SetStatusRefused, RunEscapes, Crash
<1> QED
  BY <1>2, <1>3, <1>4, <1>5, <1>6, <1>7, <1>8, <1>9, <1>10 DEF Progress

LEMMA EvaluatorEarned ==
  ASSUME TypeOK, EarnedInv, NEW e \in Evaluators,
         (\E s \in Slices : Accept(e, s)) \/ CloseRead(e) \/ CloseWrite(e) \/ CloseAborts(e)
  PROVE  EarnedInv'
<1> USE DEF runVars
<1>1. e \in Processes
  BY DEF Processes
<1>2. ASSUME NEW s \in Slices, Accept(e, s) PROVE EarnedInv'
  BY <1>2 DEF TypeOK, EarnedInv, Accept, DoneIn
<1>3. CASE CloseRead(e)
  BY <1>3 DEF TypeOK, EarnedInv, CloseRead, DoneIn
<1>4. CASE CloseWrite(e)
  <2>1. DoneIn(queue') \subseteq earned
    BY <1>1, <1>4, WriteStatusEarned DEF CloseWrite, EarnedInv
  <2> QED
    BY <1>4, <2>1 DEF TypeOK, EarnedInv, CloseWrite, DoneIn
<1>5. CASE CloseAborts(e)
  BY <1>5 DEF TypeOK, EarnedInv, CloseAborts, DoneIn
<1> QED
  BY <1>2, <1>3, <1>4, <1>5

LEMMA NextEarned == TypeOK /\ EarnedInv /\ [Next]_vars => EarnedInv'
<1> USE DEF runVars, evaluatorVars
<1> SUFFICES ASSUME TypeOK, EarnedInv, [Next]_vars PROVE EarnedInv'
  OBVIOUS
<1>1. CASE SupervisorNext
  BY <1>1, SupervisorEarned DEF SupervisorNext
<1>2. CASE EvaluatorNext
  BY <1>2, EvaluatorEarned DEF EvaluatorNext
<1>3. ASSUME NEW s \in Slices, OperatorEdit(s) PROVE EarnedInv'
  BY <1>3 DEF TypeOK, EarnedInv, OperatorEdit, DoneIn, Queues
<1>4. CASE OperatorCleans \/ AgentWorks \/ OrphanEnds \/ UNCHANGED vars
  BY <1>4 DEF EarnedInv, OperatorCleans, AgentWorks, OrphanEnds, vars, DoneIn
<1> QED
  BY <1>1, <1>2, <1>3, <1>4 DEF Next, OperatorNext

\* A slice is done in the queue file only if a run met every documented
\* condition for it or an evaluation accepted it, with any number of processes
\* writing back stale copies of the file and being killed in between.
THEOREM DoneEarned == Spec => []DoneWasEarned
<1>1. Init => EarnedInv
  BY DEF Init, EarnedInv, DoneIn
<1>2. EarnedInv => DoneWasEarned
  BY DEF EarnedInv, DoneWasEarned, DoneIn
<1> QED
  BY <1>1, <1>2, TypeCorrect, NextEarned, PTL DEF Spec
=============================================================================
