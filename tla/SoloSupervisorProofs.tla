------------------------ MODULE SoloSupervisorProofs ------------------------
(***************************************************************************)
(* Proofs about the supervisor on its JSON queue when invocations do not     *)
(* overlap: one slice runs at a time, after what it depends on, whatever the *)
(* operator does to the file meanwhile; and, while the operator keeps out of *)
(* the way, the queue file is a run of the documented lifecycle.  Two        *)
(* invocations that overlap, or an evaluator beside one, break each of       *)
(* these, since the file has no lock.                                        *)
(***************************************************************************)
EXTENDS JsonSupervisorProofs

-----------------------------------------------------------------------------
(* One invocation at a time. *)

\* No two invocations overlap, and no evaluator runs.
Solo == (\A p, q \in Supervisors : p = q) /\ Evaluators = {}

\* Why one invocation's status changes are safe although it never rereads the
\* slice: nobody but the operator writes, and the operator neither starts nor
\* closes a slice.  So what the snapshot says is done is done in the file, and
\* the snapshot has nothing in progress but the slice in hand.
SoloFor(p) ==
  /\ phase[p] = "idle" => runs[p] = 0
  /\ phase[p] \in {"loop", "chosen", "selected", "claiming"} => InProgress(queue) = {}
  /\ Active(p) => InProgress(queue) \subseteq {current[p]}
  /\ phase[p] \in {"chosen", "selected", "claiming"} \/ Active(p) =>
       /\ current[p] \in Slices
       /\ queue[current[p]] # "done"
       /\ DependenciesSatisfied(queue, current[p])
  /\ phase[p] \in {"claiming", "writing"} => DoneIn(snap[p]) = DoneIn(queue)
  /\ phase[p] = "claiming" => InProgress(snap[p]) = {}
  /\ phase[p] = "writing" => InProgress(snap[p]) \subseteq {current[p]}
  /\ phase[p] \in {"recording", "writing"} =>
       /\ verdict[p].status \in Verdicts
       /\ Continues(verdict[p]) => verdict[p].status = "done"
  /\ phase[p] = "loop" /\ runs[p] > 0 =>
       current[p] \in Slices /\ queue[current[p]] = "done"

SoloInv == \A p \in Supervisors : SoloFor(p)

\* While the operator keeps out of the way, the slice to be claimed is still
\* queued, the one that runs still in progress, and the snapshot is the file.
WaitFor(p) ==
  /\ phase[p] \in {"chosen", "selected", "claiming"} => queue[current[p]] = "queued"
  /\ Active(p) => queue[current[p]] = "in_progress"
  /\ phase[p] \in {"claiming", "writing"} => snap[p] = queue

WaitInv == \A p \in Supervisors : WaitFor(p)

-----------------------------------------------------------------------------
(* What the operator, the agent and an idle step leave alone. *)

EnvironmentStep ==
  OperatorNext \/ AgentWorks \/ OrphanEnds \/ UNCHANGED vars

\* Without evaluators a step is the supervisor's or the environment's.
LEMMA SoloSteps ==
  ASSUME Solo, [Next]_vars
  PROVE  SupervisorNext \/ EnvironmentStep
BY DEF Solo, Next, EvaluatorNext, EnvironmentStep

\* The environment moves a slice that is nobody's back to the queue or parks a
\* queued one, and changes nothing a supervisor holds.
LEMMA EnvironmentEffect ==
  ASSUME TypeOK, EnvironmentStep
  PROVE  /\ UNCHANGED <<phase, runVars, snap>>
         /\ \/ queue' = queue
            \/ \E s \in Slices :
                 /\ OperatorYields => Yields(s)
                 /\ \/ /\ queue[s] \in {"blocked", "deferred", "failed", "in_progress"}
                       /\ queue' = [queue EXCEPT ![s] = "queued"]
                    \/ /\ queue[s] = "queued"
                       /\ s \in ParkReady
                       /\ queue' = [queue EXCEPT ![s] = "deferred"]
BY DEF EnvironmentStep, OperatorNext, OperatorEdit, OperatorCleans, AgentWorks,
       OrphanEnds, vars, runVars

\* It closes and reopens nothing, and starts nothing.
LEMMA EnvironmentQueue ==
  ASSUME TypeOK, EnvironmentStep
  PROVE  /\ DoneIn(queue') = DoneIn(queue)
         /\ InProgress(queue') \subseteq InProgress(queue)
<1>1. CASE queue' = queue
  BY <1>1
<1>2. ASSUME NEW s \in Slices, queue[s] # "done", NEW v \in {"queued", "deferred"},
             queue' = [queue EXCEPT ![s] = v]
      PROVE  /\ DoneIn(queue') = DoneIn(queue)
             /\ InProgress(queue') \subseteq InProgress(queue)
  BY <1>2 DEF TypeOK, Queues, DoneIn, InProgress
<1> QED
  BY <1>1, <1>2, EnvironmentEffect

\* What depends on what is done does not change while the done slices do not.
LEMMA DependenciesByDone ==
  ASSUME NEW q, NEW r, DoneIn(q) \subseteq DoneIn(r), NEW s \in Slices,
         DependenciesSatisfied(q, s)
  PROVE  DependenciesSatisfied(r, s)
<1>1. DependsOn[s] \subseteq Slices
  BY SliceAssumption
<1> QED
  BY <1>1 DEF DependenciesSatisfied, DoneIn

-----------------------------------------------------------------------------
(* The invariant is inductive. *)

LEMMA InitSolo == Init => SoloInv
BY DEF Init, SoloInv, SoloFor, Active

\* An invocation that ends has nothing left to keep.
LEMMA ExitSolo ==
  ASSUME TypeOK, NEW p \in Supervisors, Exit(p)
  PROVE  SoloFor(p)'
BY DEF TypeOK, Exit, SoloFor, Active

\* The claim: the slice was not done and nothing was in progress, so it is now
\* all that is in progress, and nothing is done that was not.
LEMMA ClaimSolo ==
  ASSUME TypeOK, NEW p \in Supervisors, SoloFor(p), ClaimWrite(p)
  PROVE  SoloFor(p)'
<1>1. /\ phase[p] = "claiming" /\ p \in Processes
      /\ queue' = [snap[p] EXCEPT ![current[p]] = "in_progress"]
      /\ phase' = [phase EXCEPT ![p] = "running"]
      /\ UNCHANGED <<current, runs>>
  BY DEF ClaimWrite, WriteStatus, Goto, Processes
<1>2. /\ current[p] \in Slices /\ queue[current[p]] # "done"
      /\ DependenciesSatisfied(queue, current[p])
      /\ DoneIn(snap[p]) = DoneIn(queue) /\ InProgress(snap[p]) = {}
  BY <1>1 DEF SoloFor
<1>3. snap[p] \in Queues
  BY <1>1 DEF TypeOK
<1>4. InProgress(queue') = {current[p]}
  BY <1>1, <1>2, <1>3 DEF InProgress, Queues
<1>5. DoneIn(queue) \subseteq DoneIn(queue') /\ queue'[current[p]] # "done"
  BY <1>1, <1>2, <1>3 DEF DoneIn, Queues
<1>6. DependenciesSatisfied(queue', current[p])
  BY <1>2, <1>5, DependenciesByDone
<1>7. phase'[p] = "running" /\ current'[p] = current[p]
  BY <1>1 DEF TypeOK
<1> QED
  BY <1>2, <1>4, <1>5, <1>6, <1>7 DEF SoloFor, Active

\* The record: the slice in progress gets its verdict, and nothing is in
\* progress any more.
LEMMA RecordSolo ==
  ASSUME TypeOK, NEW p \in Supervisors, SoloFor(p), RecordWrite(p)
  PROVE  SoloFor(p)'
<1>1. CASE ~Continues(verdict[p])
  BY <1>1, ExitSolo DEF RecordWrite
<1>2. CASE Continues(verdict[p])
  <2>1. /\ phase[p] = "writing" /\ p \in Processes
        /\ queue' = [snap[p] EXCEPT ![current[p]] = verdict[p].status]
        /\ phase' = [phase EXCEPT ![p] = "loop"]
        /\ UNCHANGED <<current, runs>>
    BY <1>2 DEF RecordWrite, WriteStatus, Goto, Processes, runVars
  <2>2. /\ current[p] \in Slices /\ verdict[p].status = "done"
        /\ InProgress(snap[p]) \subseteq {current[p]}
    BY <1>2, <2>1 DEF SoloFor, Active
  <2>3. snap[p] \in Queues
    BY <2>1 DEF TypeOK
  <2>4. InProgress(queue') = {} /\ queue'[current[p]] = "done"
    BY <2>1, <2>2, <2>3 DEF InProgress, Queues
  <2>5. phase'[p] = "loop" /\ current'[p] = current[p]
    BY <2>1 DEF TypeOK
  <2> QED
    BY <2>2, <2>4, <2>5 DEF SoloFor, Active
<1> QED
  BY <1>1, <1>2

LEMMA JudgeSolo ==
  ASSUME TypeOK, NEW p \in Supervisors, SoloFor(p), Judge(p)
  PROVE  SoloFor(p)'
<1>1. PICK h \in Handoffs, replayFailures \in SUBSET Validations :
        /\ h.slice = current[p]
        /\ verdict' = [verdict EXCEPT ![p] =
             EvaluateCompletion(view[p], current[p], h, before[p], dirty,
                                runs[p] + 1, Limit, replayFailures)]
  BY SupervisorAssumption DEF Judge, ReplayCandidates, Handoff
<1>2. h \in Handoff /\ current[p] \in Slices
  BY <1>1, SupervisorAssumption DEF Handoff
<1>3. verdict'[p].status \in Verdicts /\ (Continues(verdict'[p]) => verdict'[p].status = "done")
  BY <1>1, <1>2, CompletionOutcome DEF TypeOK
<1>4. /\ phase[p] = "judging" /\ phase' = [phase EXCEPT ![p] = "recording"]
      /\ UNCHANGED <<queue, current>>
  BY DEF Judge, Goto
<1>5. phase'[p] = "recording" /\ current'[p] = current[p] /\ queue' = queue
  BY <1>4 DEF TypeOK
<1> QED
  BY <1>3, <1>4, <1>5 DEF SoloFor, Active

LEMMA SupervisorSolo ==
  ASSUME TypeOK, NEW p \in Supervisors, SoloFor(p), Start(p) \/ Progress(p) \/ Crash(p)
  PROVE  SoloFor(p)'
<1> USE DEF runVars
<1>1. p \in Processes
  BY DEF Processes
<1>2. CASE Start(p)
  BY <1>2 DEF TypeOK, SoloFor, Active, Start, MayStart, Goto
<1>3. CASE Select(p)
  <2>1. SelectNextSlice(queue) \in Eligible(queue)
    BY <1>3, SelectionType DEF Select
  <2>2. /\ phase[p] = "loop" /\ phase'[p] = "chosen"
        /\ current'[p] = SelectNextSlice(queue) /\ queue' = queue
    BY <1>3 DEF TypeOK, Select, Goto
  <2> QED
    BY <2>1, <2>2 DEF SoloFor, Active, Eligible
<1>4. CASE ClaimRead(p)
  BY <1>1, <1>4 DEF TypeOK, SoloFor, Active, ClaimRead, Goto
<1>5. CASE ClaimWrite(p)
  BY <1>5, ClaimSolo
<1>6. CASE AgentReturns(p)
  BY <1>6 DEF TypeOK, SoloFor, Active, AgentReturns, Goto
<1>7. CASE AgentFails(p) \/ HandoffFails(p)
  BY <1>7, ConstantVerdicts
  DEF TypeOK, SoloFor, Active, AgentFails, HandoffFails, Fail, Goto, Verdicts
<1>8. CASE Judge(p)
  BY <1>8, JudgeSolo
<1>9. CASE RecordRead(p)
  BY <1>1, <1>9 DEF TypeOK, SoloFor, Active, RecordRead, Goto
<1>10. CASE RecordWrite(p)
  BY <1>10, RecordSolo
<1>11. CASE Inspect(p) /\ ~Exit(p)
  BY <1>11 DEF TypeOK, SoloFor, Active, Inspect, Goto
<1>12. CASE \/ SelectStops(p) \/ (Inspect(p) /\ Exit(p)) \/ SetStatusRefused(p)
            \/ RunEscapes(p) \/ Crash(p)
  BY <1>12, ExitSolo DEF SelectStops, SetStatusRefused, RunEscapes, Crash
<1> QED
  BY <1>2, <1>3, <1>4, <1>5, <1>6, <1>7, <1>8, <1>9, <1>10, <1>11, <1>12 DEF Progress

LEMMA EnvironmentSolo ==
  ASSUME TypeOK, NEW p \in Supervisors, SoloFor(p), EnvironmentStep
  PROVE  SoloFor(p)'
<1>1. UNCHANGED <<phase, current, runs, verdict, snap>>
  BY EnvironmentEffect DEF runVars
<1>2. DoneIn(queue') = DoneIn(queue) /\ InProgress(queue') \subseteq InProgress(queue)
  BY EnvironmentQueue
<1>3. ASSUME current[p] \in Slices, queue[current[p]] # "done",
             DependenciesSatisfied(queue, current[p])
      PROVE  queue'[current[p]] # "done" /\ DependenciesSatisfied(queue', current[p])
  BY <1>2, <1>3, DependenciesByDone DEF DoneIn
<1>4. ASSUME current[p] \in Slices, queue[current[p]] = "done"
      PROVE  queue'[current[p]] = "done"
  BY <1>2, <1>4 DEF DoneIn
<1> QED
  BY <1>1, <1>2, <1>3, <1>4 DEF SoloFor, Active

LEMMA NextSolo == Solo /\ TypeOK /\ SoloInv /\ [Next]_vars => SoloInv'
<1> SUFFICES ASSUME Solo, TypeOK, SoloInv, [Next]_vars, NEW p \in Supervisors
             PROVE  SoloFor(p)'
  BY DEF SoloInv
<1>1. SoloFor(p)
  BY DEF SoloInv
<1>2. CASE SupervisorNext
  BY <1>1, <1>2, SupervisorSolo DEF SupervisorNext, Solo
<1>3. CASE EnvironmentStep
  BY <1>1, <1>3, EnvironmentSolo
<1> QED
  BY <1>2, <1>3, SoloSteps

LEMMA SoloCorrect ==
  ASSUME Solo
  PROVE  Spec => [](TypeOK /\ SoloInv)
BY InitSolo, NextSolo, TypeCorrect, PTL DEF Spec

-----------------------------------------------------------------------------
(* What a single invocation may rely on. *)

\* A chain goes on only past a slice that is done in the file.
THEOREM ChainCorrect ==
  ASSUME Solo
  PROVE  Spec => []ChainsPastDone
<1>1. SoloInv => ChainsPastDone
  BY DEF SoloInv, SoloFor, ChainsPastDone
<1> QED
  BY <1>1, SoloCorrect, PTL

\* An agent is launched only for a slice whose dependencies are done in the file
\* at that moment, and while nothing else there is in progress, although the
\* operator may edit the file between the selection and the launch.
THEOREM LaunchCorrect ==
  ASSUME Solo
  PROVE  Spec => LaunchIsReady
<1>1. TypeOK /\ SoloInv /\ [Next]_vars =>
        [\A p \in Supervisors : ClaimWrite(p) =>
           /\ \A d \in DependsOn[current[p]] : queue[d] = "done"
           /\ InProgress(queue) = {}]_vars
  BY DEF SoloInv, SoloFor, ClaimWrite, DependenciesSatisfied
<1> QED
  BY <1>1, SoloCorrect, PTL DEF Spec, LaunchIsReady

-----------------------------------------------------------------------------
(* What becomes of the queue. *)

\* The claim leaves one slice in progress and closes none.
LEMMA ClaimQueue ==
  ASSUME TypeOK, SoloInv, NEW p \in Supervisors, ClaimWrite(p)
  PROVE  InProgress(queue') = {current[p]} /\ DoneIn(queue') = DoneIn(queue)
<1>1. /\ phase[p] = "claiming" /\ p \in Processes
      /\ queue' = [snap[p] EXCEPT ![current[p]] = "in_progress"]
  BY DEF ClaimWrite, WriteStatus, Processes
<1>2. /\ current[p] \in Slices /\ queue[current[p]] # "done"
      /\ DoneIn(snap[p]) = DoneIn(queue) /\ InProgress(snap[p]) = {}
  BY <1>1 DEF SoloInv, SoloFor
<1>3. snap[p] \in Queues
  BY <1>1 DEF TypeOK
<1>4. current[p] \notin DoneIn(snap[p])
  BY <1>2 DEF DoneIn
<1> QED
  BY <1>1, <1>2, <1>3, <1>4 DEF InProgress, DoneIn, Queues

\* The record leaves none in progress, and closes at most the slice that ran,
\* all of whose dependencies are done.
LEMMA RecordQueue ==
  ASSUME TypeOK, SoloInv, NEW p \in Supervisors, RecordWrite(p)
  PROVE  /\ InProgress(queue') = {}
         /\ DoneIn(queue') \in {DoneIn(queue), DoneIn(queue) \cup {current[p]}}
         /\ current[p] \in Slices /\ DependenciesSatisfied(queue, current[p])
<1>1. /\ phase[p] = "writing" /\ p \in Processes
      /\ queue' = [snap[p] EXCEPT ![current[p]] = verdict[p].status]
  BY DEF RecordWrite, WriteStatus, Processes
<1>2. /\ current[p] \in Slices /\ DependenciesSatisfied(queue, current[p])
      /\ verdict[p].status \in Verdicts
      /\ InProgress(snap[p]) \subseteq {current[p]} /\ DoneIn(snap[p]) = DoneIn(queue)
      /\ queue[current[p]] # "done"
  BY <1>1 DEF SoloInv, SoloFor, Active
<1>3. snap[p] \in Queues
  BY <1>1 DEF TypeOK
<1>4. current[p] \notin DoneIn(snap[p])
  BY <1>2 DEF DoneIn
<1>5. InProgress(queue') = {}
  BY <1>1, <1>2, <1>3 DEF InProgress, Queues, Verdicts
<1>6. DoneIn(queue') \in {DoneIn(queue), DoneIn(queue) \cup {current[p]}}
  <2>1. CASE verdict[p].status = "done"
    <3>1. DoneIn(queue') = DoneIn(snap[p]) \cup {current[p]}
      BY <1>1, <1>2, <1>3, <2>1 DEF DoneIn, Queues
    <3> QED
      BY <3>1, <1>2
  <2>2. CASE verdict[p].status # "done"
    <3>1. DoneIn(queue') = DoneIn(snap[p])
      BY <1>1, <1>2, <1>3, <1>4, <2>2 DEF DoneIn, Queues
    <3> QED
      BY <3>1, <1>2
  <2> QED
    BY <2>1, <2>2
<1> QED
  BY <1>2, <1>5, <1>6

\* Nobody else writes the file.
LEMMA QueueSteps ==
  ASSUME Solo, TypeOK, [Next]_vars
  PROVE  \/ queue' = queue
         \/ \E p \in Supervisors : ClaimWrite(p) \/ RecordWrite(p)
         \/ EnvironmentStep
<1>1. ASSUME NEW p \in Supervisors, Start(p) \/ Progress(p) \/ Crash(p),
             ~ClaimWrite(p), ~RecordWrite(p)
      PROVE  queue' = queue
  BY <1>1 DEF Start, Progress, Crash, Select, SelectStops, Inspect, ClaimRead, SetStatusRefused,
              AgentReturns, AgentFails, HandoffFails, RunEscapes, Judge, RecordRead
<1> QED
  BY <1>1, SoloSteps DEF SupervisorNext

\* The queue never has two slices in progress, as long as it did not begin so.
THEOREM OneInProgressCorrect ==
  ASSUME Solo, \A s, t \in InProgress(InitialQueue) : s = t
  PROVE  Spec => []OneInProgress
<1>1. Init => OneInProgress
  BY DEF Init, OneInProgress
<1>2. TypeOK /\ SoloInv /\ OneInProgress /\ [Next]_vars => OneInProgress'
  <2> SUFFICES ASSUME TypeOK, SoloInv, OneInProgress, [Next]_vars
               PROVE  \A s, t \in InProgress(queue') : s = t
    BY DEF OneInProgress
  <2>1. CASE queue' = queue
    BY <2>1 DEF OneInProgress
  <2>2. ASSUME NEW p \in Supervisors, ClaimWrite(p) \/ RecordWrite(p)
        PROVE  \A s, t \in InProgress(queue') : s = t
    BY <2>2, ClaimQueue, RecordQueue
  <2>3. CASE EnvironmentStep
    BY <2>3, EnvironmentQueue DEF OneInProgress
  <2> QED
    BY <2>1, <2>2, <2>3, QueueSteps
<1> QED
  BY <1>1, <1>2, SoloCorrect, PTL DEF Spec

\* A slice is closed only after everything it depends on is, as long as the
\* queue did not begin otherwise.
THEOREM DependenciesCorrect ==
  ASSUME Solo,
         \A s \in Slices : InitialQueue[s] = "done" => DependenciesSatisfied(InitialQueue, s)
  PROVE  Spec => []DependenciesCloseFirst
<1> DEFINE Closed(q) == \A s \in DoneIn(q) : DependenciesSatisfied(q, s)
<1>1. Init => Closed(queue)
  BY DEF Init, DoneIn
<1>2. TypeOK /\ SoloInv /\ Closed(queue) /\ [Next]_vars => Closed(queue)'
  <2> SUFFICES ASSUME TypeOK, SoloInv, Closed(queue), [Next]_vars
               PROVE  Closed(queue')
    OBVIOUS
  <2>1. ASSUME DoneIn(queue') = DoneIn(queue) PROVE Closed(queue')
    BY <2>1, DependenciesByDone DEF DoneIn
  <2>2. ASSUME NEW p \in Supervisors, ClaimWrite(p) PROVE Closed(queue')
    BY <2>1, <2>2, ClaimQueue
  <2>3. ASSUME NEW p \in Supervisors, RecordWrite(p) PROVE Closed(queue')
    <3>1. /\ DoneIn(queue') \subseteq DoneIn(queue) \cup {current[p]}
          /\ DoneIn(queue) \subseteq DoneIn(queue')
          /\ current[p] \in Slices /\ DependenciesSatisfied(queue, current[p])
      BY <2>3, RecordQueue
    <3>2. \A s \in DoneIn(queue') : s \in Slices /\ DependenciesSatisfied(queue, s)
      BY <3>1 DEF DoneIn
    <3> QED
      BY <3>1, <3>2, DependenciesByDone
  <2>4. CASE EnvironmentStep
    BY <2>1, <2>4, EnvironmentQueue
  <2> QED
    BY <2>1, <2>2, <2>3, <2>4, QueueSteps
<1>3. Closed(queue) => DependenciesCloseFirst
  BY DEF DependenciesCloseFirst, DependenciesSatisfied, DoneIn
<1> HIDE DEF Closed
<1> QED
  BY <1>1, <1>2, <1>3, SoloCorrect, PTL DEF Spec

-----------------------------------------------------------------------------
(* The documented lifecycle. *)

LEMMA SupervisorWait ==
  ASSUME TypeOK, NEW p \in Supervisors, SoloFor(p), WaitFor(p),
         Start(p) \/ Progress(p) \/ Crash(p)
  PROVE  WaitFor(p)'
<1> USE DEF runVars
<1>1. p \in Processes
  BY DEF Processes
<1>2. CASE Select(p)
  <2>1. SelectNextSlice(queue) \in Eligible(queue)
    BY <1>2, SelectionType DEF Select
  <2> QED
    BY <1>2, <2>1 DEF TypeOK, WaitFor, Active, Select, Goto, Eligible
<1>3. CASE Inspect(p) /\ ~Exit(p)
  BY <1>3 DEF TypeOK, WaitFor, Active, Inspect, Goto
<1>4. CASE ClaimRead(p) \/ RecordRead(p)
  BY <1>1, <1>4 DEF TypeOK, WaitFor, Active, ClaimRead, RecordRead, Goto
<1>5. CASE AgentReturns(p) \/ AgentFails(p) \/ HandoffFails(p) \/ Judge(p)
  BY <1>5 DEF TypeOK, WaitFor, Active, AgentReturns, AgentFails, HandoffFails, Judge,
              Fail, Goto
<1>6. CASE ClaimWrite(p)
  <2>1. current[p] \in Slices
    BY <1>6 DEF SoloFor, ClaimWrite
  <2>2. queue'[current[p]] = "in_progress"
    BY <1>1, <1>6, <2>1 DEF TypeOK, ClaimWrite, WriteStatus, Queues
  <2> QED
    BY <1>6, <2>1, <2>2 DEF TypeOK, WaitFor, Active, ClaimWrite, Goto
<1>7. CASE phase'[p] \in {"idle", "loop"}
  BY <1>7 DEF WaitFor, Active
<1>8. CASE Start(p) \/ SelectStops(p) \/ (Inspect(p) /\ Exit(p)) \/ SetStatusRefused(p)
           \/ RunEscapes(p) \/ RecordWrite(p) \/ Crash(p)
  BY <1>7, <1>8 DEF TypeOK, Start, SelectStops, SetStatusRefused, RunEscapes, RecordWrite,
                    Crash, Exit, Goto
<1> QED
  BY <1>2, <1>3, <1>4, <1>5, <1>6, <1>8 DEF Progress

LEMMA EnvironmentWait ==
  ASSUME OperatorYields, TypeOK, NEW p \in Supervisors, WaitFor(p), EnvironmentStep
  PROVE  WaitFor(p)'
<1>1. UNCHANGED <<phase, current, snap>>
  BY EnvironmentEffect DEF runVars
<1>2. CASE queue' = queue
  BY <1>1, <1>2 DEF WaitFor, Active
<1>3. ASSUME NEW s \in Slices, Yields(s), NEW v \in Statuses,
             queue' = [queue EXCEPT ![s] = v]
      PROVE  WaitFor(p)'
  <2>1. phase[p] \notin {"claiming", "writing"}
    BY <1>3 DEF Yields
  <2>2. phase[p] \notin {"idle", "loop"} => queue'[current[p]] = queue[current[p]]
    BY <1>3 DEF Yields, TypeOK, Queues
  <2> QED
    BY <1>1, <2>1, <2>2 DEF WaitFor, Active
<1> QED
  BY <1>2, <1>3, EnvironmentEffect DEF Statuses

LEMMA NextWait ==
  ASSUME Solo, OperatorYields, TypeOK, SoloInv, WaitInv, [Next]_vars
  PROVE  WaitInv'
<1> SUFFICES ASSUME NEW p \in Supervisors
             PROVE  WaitFor(p)'
  BY DEF WaitInv
<1>1. CASE SupervisorNext
  BY <1>1, SupervisorWait DEF SoloInv, WaitInv, SupervisorNext, Solo
<1>2. CASE EnvironmentStep
  BY <1>2, EnvironmentWait DEF WaitInv
<1> QED
  BY <1>1, <1>2, SoloSteps

LEMMA WaitCorrect ==
  ASSUME Solo, OperatorYields
  PROVE  Spec => []WaitInv
<1>1. Init => WaitInv
  BY DEF Init, WaitInv, WaitFor, Active
<1>2. TypeOK /\ SoloInv /\ WaitInv /\ [Next]_vars => WaitInv'
  BY NextWait
<1> QED
  BY <1>1, <1>2, SoloCorrect, PTL DEF Spec

\* The claim starts a queued slice, while the queue is idle and what the slice
\* depends on is done.
LEMMA ClaimBegins ==
  ASSUME TypeOK, SoloInv, WaitInv, NEW p \in Supervisors, ClaimWrite(p)
  PROVE  current[p] \in Slices /\ Lifecycle!Begin(current[p])
<1>1. /\ phase[p] = "claiming"
      /\ queue' = [snap[p] EXCEPT ![current[p]] = "in_progress"]
  BY DEF ClaimWrite, WriteStatus
<1>2. snap[p] = queue /\ queue[current[p]] = "queued"
  BY <1>1 DEF WaitInv, WaitFor, Active
<1>3. /\ current[p] \in Slices /\ DependenciesSatisfied(queue, current[p])
      /\ InProgress(queue) = {}
  BY <1>1 DEF SoloInv, SoloFor
<1> QED
  BY <1>1, <1>2, <1>3
  DEF Lifecycle!Begin, Lifecycle!Idle, Lifecycle!Set, DependenciesSatisfied, InProgress

\* The record gives the slice in progress its one verdict.
LEMMA RecordFinishes ==
  ASSUME TypeOK, SoloInv, WaitInv, NEW p \in Supervisors, RecordWrite(p)
  PROVE  current[p] \in Slices /\ Lifecycle!Finish(current[p])
<1>1. /\ phase[p] = "writing"
      /\ queue' = [snap[p] EXCEPT ![current[p]] = verdict[p].status]
  BY DEF RecordWrite, WriteStatus
<1>2. snap[p] = queue /\ queue[current[p]] = "in_progress"
  BY <1>1 DEF WaitInv, WaitFor, Active
<1>3. /\ current[p] \in Slices
      /\ verdict[p].status \in {"done", "blocked", "failed"}
  BY <1>1 DEF SoloInv, SoloFor, Active, Verdicts
<1> QED
  BY <1>1, <1>2, <1>3 DEF Lifecycle!Finish, Lifecycle!Set

\* The operator requeues or parks.
LEMMA OperatorMoves ==
  ASSUME TypeOK, EnvironmentStep, queue' # queue
  PROVE  \E s \in Slices : Lifecycle!Requeue(s) \/ Lifecycle!Park(s)
BY EnvironmentEffect DEF Lifecycle!Requeue, Lifecycle!Park, Lifecycle!Set

LEMMA StepRefines ==
  ASSUME Solo, TypeOK, SoloInv, WaitInv, [Next]_vars
  PROVE  [Lifecycle!Next]_queue
<1>1. ASSUME NEW p \in Supervisors, ClaimWrite(p) \/ RecordWrite(p)
      PROVE  Lifecycle!Next
  BY <1>1, ClaimBegins, RecordFinishes DEF Lifecycle!Next
<1>2. ASSUME EnvironmentStep, queue' # queue PROVE Lifecycle!Next
  BY <1>2, OperatorMoves DEF Lifecycle!Next
<1> QED
  BY <1>1, <1>2, QueueSteps

\* While the operator keeps out of the way, the queue file is a run of the
\* documented lifecycle: the two halves of every status change act as one.
THEOREM LifecycleRefined ==
  ASSUME Solo, OperatorYields
  PROVE  Spec => ImplementsLifecycle
<1>1. Init => Lifecycle!Init
  BY DEF Init, Lifecycle!Init
<1>2. TypeOK /\ SoloInv /\ WaitInv /\ [Next]_vars => [Lifecycle!Next]_queue
  BY StepRefines
<1> QED
  BY <1>1, <1>2, SoloCorrect, WaitCorrect, PTL DEF Spec, ImplementsLifecycle, Lifecycle!Spec

=============================================================================
