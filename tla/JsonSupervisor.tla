--------------------------- MODULE JsonSupervisor ---------------------------
(***************************************************************************)
(* The supervisor on its JSON queue file (automation/supervisor/run_next.py)  *)
(* and the evaluator that closes slices landed elsewhere                      *)
(* (automation/supervisor/evaluate_handoff.py).  Both are short-lived         *)
(* processes that share one file without a lock.  The file is replaced        *)
(* atomically, but a status change is two steps: the file is read and         *)
(* validated, and later a copy of that snapshot with one status changed is    *)
(* written back.  Between the two, another process or the operator may have   *)
(* written.                                                                   *)
(*                                                                            *)
(* A process that ends, by itself or killed, is idle again and may be invoked *)
(* anew.  The agent is a child whose edits reach the working tree; killing    *)
(* the shell that wraps it, which is all a timeout or a crash does, may leave *)
(* it running.                                                                *)
(***************************************************************************)
EXTENDS SlicePolicy

CONSTANTS
  Supervisors,    \* run_next invocations that may overlap
  Evaluators,     \* evaluate_handoff invocations that may overlap
  Limit,          \* consecutive_autonomous_limit, or 1 under --single-slice
  InitialQueue,   \* the queue document when the system starts
  Handoffs,       \* the well-formed handoff documents an agent may write
  MayCrash,       \* supervisors may be killed
  MayEscape,      \* a handoff may not be JSON, or git may fail
  OperatorYields  \* the operator keeps out of the way of a process, see Yields

ASSUME SupervisorAssumption ==
  /\ Limit \in Nat \ {0}
  /\ InitialQueue \in Queues
  /\ Handoffs \subseteq Handoff
  /\ MayCrash \in BOOLEAN
  /\ MayEscape \in BOOLEAN
  /\ OperatorYields \in BOOLEAN

VARIABLES
  queue,    \* the queue file
  dirty,    \* the paths git reports as dirty
  phase,    \* supervisor -> where main() is
  current,  \* supervisor -> the slice it selected last
  view,     \* supervisor -> queue_data, loaded when the slice was selected
  before,   \* supervisor -> dirty_paths_before_run
  runs,     \* supervisor -> completed_runs
  verdict,  \* supervisor -> the decision it is about to record
  snap,     \* process -> the document set_status read and will write back
  agent,    \* supervisor -> is its agent running
  orphan,   \* an agent outlived the supervisor that launched it
  closing,  \* evaluator -> the slice it accepted, or NoSlice
  reading,  \* evaluator -> it still has to reload the queue
  earned    \* history: slices some run or evaluation has earned "done" for

runVars        == <<current, view, before, runs, verdict>>
agentVars      == <<agent, orphan>>
evaluatorVars  == <<closing, reading>>
vars == <<queue, dirty, phase, runVars, agentVars, snap, evaluatorVars, earned>>

Phases == {"idle", "loop", "chosen", "selected", "claiming", "running",
           "judging", "recording", "writing"}
Processes == Supervisors \cup Evaluators

\* Mutant: the two fields swapped.
FailureSwapped == Stop("stop_failed", "failed", "run")

\* The verdict of fail(): the slice failed, the chain stops.
Failure == Stop("failed", "stop_failed", "run")
NoVerdict == Stop("queued", "none", "")

Init ==
  /\ queue = InitialQueue
  /\ dirty = {}
  /\ phase = [p \in Supervisors |-> "idle"]
  /\ current = [p \in Supervisors |-> NoSlice]
  /\ view = [p \in Supervisors |-> InitialQueue]
  /\ before = [p \in Supervisors |-> {}]
  /\ runs = [p \in Supervisors |-> 0]
  /\ verdict = [p \in Supervisors |-> NoVerdict]
  /\ snap = [p \in Processes |-> InitialQueue]
  /\ agent = [p \in Supervisors |-> FALSE]
  /\ orphan = FALSE
  /\ closing = [e \in Evaluators |-> NoSlice]
  /\ reading = [e \in Evaluators |-> FALSE]
  /\ earned = {s \in Slices : InitialQueue[s] = "done"}

-----------------------------------------------------------------------------
(* main(): one supervisor invocation. *)

\* Replaces the file by the snapshot with one status changed.
WriteStatus(process, s, status) == queue' = [snap[process] EXCEPT ![s] = status]

\* The invocation ends; what it held in memory is gone.
Exit(p) ==
  /\ phase' = [phase EXCEPT ![p] = "idle"]
  /\ current' = [current EXCEPT ![p] = NoSlice]
  /\ view' = [view EXCEPT ![p] = InitialQueue]
  /\ before' = [before EXCEPT ![p] = {}]
  /\ runs' = [runs EXCEPT ![p] = 0]
  /\ verdict' = [verdict EXCEPT ![p] = NoVerdict]
  /\ snap' = [snap EXCEPT ![p] = InitialQueue]

Goto(p, next) == phase' = [phase EXCEPT ![p] = next]

\* Mutant: a slice already in progress does not stop a new invocation.
MayStartLoadable(q) == Loadable(q)

MayStart(q) == Loadable(q) /\ InProgress(q) = {}

\* main() up to its loop: the document must load and hold no active slice.
\* A refused start changes nothing and is not a step.
Start(p) ==
  /\ phase[p] = "idle"
  /\ MayStart(queue)
  /\ Goto(p, "loop")
  /\ UNCHANGED <<queue, dirty, runVars, agentVars, snap, evaluatorVars, earned>>

\* Top of the loop: reload and select.
Select(p) ==
  /\ phase[p] = "loop"
  /\ Loadable(queue)
  /\ SelectNextSlice(queue) # NoSlice
  /\ Goto(p, "chosen")
  /\ current' = [current EXCEPT ![p] = SelectNextSlice(queue)]
  /\ view' = [view EXCEPT ![p] = queue]
  /\ UNCHANGED <<queue, dirty, before, runs, verdict, agentVars, snap,
                 evaluatorVars, earned>>

\* Mutant: with nothing to do, the supervisor waits for work.
SelectPolls(p) ==
  /\ phase[p] = "loop"
  /\ SelectNextSlice(queue) = NoSlice
  /\ UNCHANGED vars

SelectStops(p) ==
  /\ phase[p] = "loop"
  /\ ~Loadable(queue) \/ SelectNextSlice(queue) = NoSlice
  /\ Exit(p)
  /\ UNCHANGED <<queue, dirty, agentVars, evaluatorVars, earned>>

\* git status, later than the queue was read: foreign dirt stops the chain.
Inspect(p) ==
  /\ phase[p] = "chosen"
  /\ IF OutOfScope(dirty, Contract[current[p]], SupervisorOwned) = {}
     THEN /\ Goto(p, "selected")
          /\ before' = [before EXCEPT ![p] = dirty]
          /\ UNCHANGED <<current, view, runs, verdict, snap>>
     ELSE Exit(p)
  /\ UNCHANGED <<queue, dirty, agentVars, evaluatorVars, earned>>

\* set_status(slice, "in_progress"), first half: only the document as a whole
\* is validated; nothing looks at this slice again.
ClaimRead(p) ==
  /\ phase[p] = "selected"
  /\ Loadable(queue)
  /\ Goto(p, "claiming")
  /\ snap' = [snap EXCEPT ![p] = queue]
  /\ UNCHANGED <<queue, dirty, runVars, agentVars, evaluatorVars, earned>>

\* Second half, the same change in memory, and the agent is launched.
ClaimWrite(p) ==
  /\ phase[p] = "claiming"
  /\ WriteStatus(p, current[p], "in_progress")
  /\ view' = [view EXCEPT ![p] = [@ EXCEPT ![current[p]] = "in_progress"]]
  /\ agent' = [agent EXCEPT ![p] = TRUE]
  /\ Goto(p, "running")
  /\ snap' = [snap EXCEPT ![p] = InitialQueue]
  /\ UNCHANGED <<dirty, current, before, runs, verdict, orphan, evaluatorVars,
                 earned>>

\* Either half of a status change finds a document it refuses to load: the
\* ValueError leaves main() and whatever was to be written is lost.
SetStatusRefused(p) ==
  /\ phase[p] \in {"selected", "recording"}
  /\ ~Loadable(queue)
  /\ Exit(p)
  /\ UNCHANGED <<queue, dirty, agentVars, evaluatorVars, earned>>

\* A running agent, orphaned or not, edits or commits any files at all.
AgentWorks ==
  /\ orphan \/ \E p \in Supervisors : agent[p]
  /\ dirty' \in SUBSET Paths
  /\ UNCHANGED <<queue, phase, runVars, agentVars, snap, evaluatorVars, earned>>

\* The agent exits 0.
AgentReturns(p) ==
  /\ phase[p] = "running"
  /\ agent' = [agent EXCEPT ![p] = FALSE]
  /\ Goto(p, "judging")
  /\ UNCHANGED <<queue, dirty, runVars, orphan, snap, evaluatorVars, earned>>

\* fail(): the verdict is "failed" and the chain stops.
Fail(p) ==
  /\ verdict' = [verdict EXCEPT ![p] = Failure]
  /\ Goto(p, "recording")

\* The agent exits otherwise, cannot be launched, or is still running after
\* handoff_timeout_seconds, when only the shell around it is killed.
AgentFails(p) ==
  /\ phase[p] = "running"
  /\ Fail(p)
  /\ agent' = [agent EXCEPT ![p] = FALSE]
  /\ orphan' \in {orphan, TRUE}
  /\ UNCHANGED <<queue, dirty, current, view, before, runs, snap,
                 evaluatorVars, earned>>

OrphanEnds ==
  /\ orphan
  /\ orphan' = FALSE
  /\ UNCHANGED <<queue, dirty, phase, runVars, agent, snap, evaluatorVars, earned>>

\* The handoff is missing, does not match its schema, or names another slice.
HandoffFails(p) ==
  /\ phase[p] = "judging"
  /\ Fail(p)
  /\ UNCHANGED <<queue, dirty, current, view, before, runs, agentVars, snap,
                 evaluatorVars, earned>>

\* git fails, the handoff is not JSON, or before the claim the context bundle
\* cannot be built: the exception leaves main() and nothing is recorded.
RunEscapes(p) ==
  /\ MayEscape
  /\ phase[p] \in {"chosen", "selected", "judging"}
  /\ Exit(p)
  /\ UNCHANGED <<queue, dirty, agentVars, evaluatorVars, earned>>

\* The documented conditions for "done" (automation/README.md, Continuation
\* Policy 1-7 and the manual-proof gate), against the state of the repository.
EarnsDone(s, h, wasDirty, isDirty, replayFailures) ==
  LET c == Contract[s]
      newDirt == isDirty \ wasDirty
  IN  /\ h.status = "done"
      /\ c.required \subseteq h.passed \ (h.failed \cup replayFailures)
      /\ newDirt \cup h.touched \subseteq c.allowed \cup SupervisorOwned
      /\ h.outside = {}
      /\ ChangedFileCount(c, SupervisorOwned, h, newDirt) <= c.maxFiles
      /\ c.manual # {} => h.sha = "head"
      /\ \A type \in c.manual : ProofHolds(s, h, type)
      /\ h.level >= c.level

\* The handoff is read, the validations it claims are replayed, and the run is
\* evaluated against the queue as it was when the slice was selected.
Judge(p) ==
  LET s == current[p]
  IN  /\ phase[p] = "judging"
      /\ \E h \in Handoffs :
           \E replayFailures \in
                SUBSET (IF h.status = "done" THEN ReplayCandidates(Contract[s], h) ELSE {}) :
             /\ h.slice = s
             /\ verdict' = [verdict EXCEPT ![p] =
                  EvaluateCompletion(view[p], s, h, before[p], dirty,
                                     runs[p] + 1, Limit, replayFailures)]
             /\ earned' = IF EarnsDone(s, h, before[p], dirty, replayFailures)
                          THEN earned \cup {s} ELSE earned
      /\ runs' = [runs EXCEPT ![p] = @ + 1]
      /\ Goto(p, "recording")
      /\ UNCHANGED <<queue, dirty, current, view, before, agentVars, snap,
                     evaluatorVars>>

\* set_status(slice, verdict), first half.
RecordRead(p) ==
  /\ phase[p] = "recording"
  /\ Loadable(queue)
  /\ Goto(p, "writing")
  /\ snap' = [snap EXCEPT ![p] = queue]
  /\ UNCHANGED <<queue, dirty, runVars, agentVars, evaluatorVars, earned>>

\* Second half; the invocation loops or ends.
RecordWrite(p) ==
  /\ phase[p] = "writing"
  /\ WriteStatus(p, current[p], verdict[p].status)
  /\ \/ /\ Continues(verdict[p])
        /\ Goto(p, "loop")
        /\ snap' = [snap EXCEPT ![p] = InitialQueue]
        /\ UNCHANGED runVars
     \/ /\ ~Continues(verdict[p])
        /\ Exit(p)
  /\ UNCHANGED <<dirty, agentVars, evaluatorVars, earned>>

\* The supervisor is killed; its agent may live on.
Crash(p) ==
  /\ MayCrash
  /\ phase[p] # "idle"
  /\ Exit(p)
  /\ agent' = [agent EXCEPT ![p] = FALSE]
  /\ orphan' \in {orphan, orphan \/ agent[p]}
  /\ UNCHANGED <<queue, dirty, evaluatorVars, earned>>

-----------------------------------------------------------------------------
(* evaluate(): one evaluator invocation.  What it verifies about the commits  *)
(* and the handoff is reduced to whether it accepts; a rejection writes       *)
(* nothing and is not a step.                                                 *)

Accept(e, s) ==
  /\ closing[e] = NoSlice
  /\ Loadable(queue)
  /\ queue[s] = "queued"
  /\ closing' = [closing EXCEPT ![e] = s]
  /\ reading' = [reading EXCEPT ![e] = TRUE]
  /\ earned' = earned \cup {s}
  /\ UNCHANGED <<queue, dirty, phase, runVars, agentVars, snap>>

\* The queue is loaded again, and the status of the slice is not looked at.
CloseRead(e) ==
  /\ reading[e]
  /\ Loadable(queue)
  /\ reading' = [reading EXCEPT ![e] = FALSE]
  /\ snap' = [snap EXCEPT ![e] = queue]
  /\ UNCHANGED <<queue, dirty, phase, runVars, agentVars, closing, earned>>

CloseWrite(e) ==
  /\ closing[e] # NoSlice
  /\ ~reading[e]
  /\ WriteStatus(e, closing[e], "done")
  /\ closing' = [closing EXCEPT ![e] = NoSlice]
  /\ snap' = [snap EXCEPT ![e] = InitialQueue]
  /\ UNCHANGED <<dirty, phase, runVars, agentVars, reading, earned>>

\* The second load fails, or the evaluator is killed.
CloseAborts(e) ==
  /\ closing[e] # NoSlice
  /\ MayCrash \/ (reading[e] /\ ~Loadable(queue))
  /\ closing' = [closing EXCEPT ![e] = NoSlice]
  /\ reading' = [reading EXCEPT ![e] = FALSE]
  /\ snap' = [snap EXCEPT ![e] = InitialQueue]
  /\ UNCHANGED <<queue, dirty, phase, runVars, agentVars, earned>>

-----------------------------------------------------------------------------
(* The operator edits the queue file and the working tree by hand.            *)

Quiet ==
  /\ \A p \in Supervisors : phase[p] = "idle"
  /\ \A e \in Evaluators : closing[e] = NoSlice

\* An operator who keeps out of the way leaves alone the slice a process has in
\* hand, and writes nothing while a status change is half made.
Yields(s) ==
  /\ \A p \in Supervisors :
       /\ phase[p] \notin {"idle", "loop"} => current[p] # s
       /\ phase[p] \notin {"claiming", "writing"}
  /\ \A e \in Evaluators :
       closing[e] # s /\ (closing[e] # NoSlice => reading[e])

\* The status a person gives a slice: queued again once what stopped it is
\* resolved, or parked.  Nothing but the operator's own care keeps a slice out
\* of it that is running.
OperatorEdit(s) ==
  /\ OperatorYields => Yields(s)
  /\ \/ /\ queue[s] \in {"blocked", "deferred", "failed", "in_progress"}
        /\ queue' = [queue EXCEPT ![s] = "queued"]
     \/ /\ queue[s] = "queued"
        /\ s \in ParkReady
        /\ queue' = [queue EXCEPT ![s] = "deferred"]
  /\ UNCHANGED <<dirty, phase, runVars, agentVars, snap, evaluatorVars, earned>>

OperatorCleans ==
  /\ Quiet
  /\ dirty # {}
  /\ dirty' = {}
  /\ UNCHANGED <<queue, phase, runVars, agentVars, snap, evaluatorVars, earned>>

-----------------------------------------------------------------------------
\* The steps a supervisor takes once invoked, killed or not.
Progress(p) ==
  \/ Select(p) \/ SelectStops(p) \/ Inspect(p)
  \/ ClaimRead(p) \/ ClaimWrite(p) \/ SetStatusRefused(p)
  \/ AgentReturns(p) \/ AgentFails(p)
  \/ HandoffFails(p) \/ RunEscapes(p) \/ Judge(p)
  \/ RecordRead(p) \/ RecordWrite(p)

SupervisorNext == \E p \in Supervisors : Start(p) \/ Progress(p) \/ Crash(p)

EvaluatorNext ==
  \E e \in Evaluators :
    \/ \E s \in Slices : Accept(e, s)
    \/ CloseRead(e) \/ CloseWrite(e) \/ CloseAborts(e)

OperatorNext == OperatorCleans \/ \E s \in Slices : OperatorEdit(s)

Next == SupervisorNext \/ EvaluatorNext \/ OperatorNext \/ AgentWorks \/ OrphanEnds

Spec == Init /\ [][Next]_vars

\* The supervisor is in a call that nothing bounds: git, the context bundle, or
\* the replays of the validations.
Waits(p) == phase[p] \in {"chosen", "selected", "judging"}

\* A live supervisor goes on where the code bounds what it does: it reads and
\* writes files, and kills its agent after handoff_timeout_seconds.  Nobody has
\* to invoke one, and operators may rest.
FairSpec == Spec /\ \A p \in Supervisors : WF_vars(Progress(p) /\ ~Waits(p))

-----------------------------------------------------------------------------
(* Properties. *)

Active(p) == phase[p] \in {"running", "judging", "recording", "writing"}

TypeOK ==
  /\ queue \in Queues
  /\ dirty \subseteq Paths
  /\ phase \in [Supervisors -> Phases]
  /\ current \in [Supervisors -> Slices \cup {NoSlice}]
  /\ view \in [Supervisors -> Queues]
  /\ before \in [Supervisors -> SUBSET Paths]
  /\ runs \in [Supervisors -> Nat]
  /\ verdict \in [Supervisors -> Decisions]
  /\ snap \in [Processes -> Queues]
  /\ agent \in [Supervisors -> BOOLEAN]
  /\ orphan \in BOOLEAN
  /\ closing \in [Evaluators -> Slices \cup {NoSlice}]
  /\ reading \in [Evaluators -> BOOLEAN]
  /\ earned \subseteq Slices

\* A slice is "done" in the file only if some run met every documented
\* condition for it, or an evaluation accepted it: no crash, no failed run, no
\* stale snapshot written back and no other process can make it so.
DoneWasEarned == \A s \in Slices : queue[s] = "done" => s \in earned

\* The queue has at most one in_progress slice (README: "the queue may have at
\* most one in_progress slice"); two would make it refuse to load.
OneInProgress == \A s, t \in InProgress(queue) : s = t

\* A slice is closed only after everything it depends on is.
DependenciesCloseFirst ==
  \A s \in Slices : queue[s] = "done" => \A d \in DependsOn[s] : queue[d] = "done"

\* An autonomous chain goes on only past slices it recorded as done: at the top
\* of the loop after a run, that run's slice is done in the file.
ChainsPastDone ==
  \A p \in Supervisors :
    phase[p] = "loop" /\ runs[p] > 0 => queue[current[p]] = "done"

\* An invocation never has more runs behind it than the limit allows, and one
\* that starts another agent is still below it.
RunLimitHolds ==
  \A p \in Supervisors :
    /\ runs[p] <= Limit
    /\ phase[p] \in {"loop", "chosen", "selected", "claiming", "running"} => runs[p] < Limit

\* An agent is launched only for a slice whose dependencies are done in the
\* file at that moment and while nothing else there is in progress.
LaunchIsReady ==
  [][\A p \in Supervisors : ClaimWrite(p) =>
       /\ \A d \in DependsOn[current[p]] : queue[d] = "done"
       /\ InProgress(queue) = {}]_vars

\* A slice a person has parked is not started before a person queues it again
\* (automation/README.md:111: its entry condition "must become true before the
\* slice may run").
ParkedStaysParked ==
  [][\A s \in Slices : queue[s] \in Parked => queue'[s] # "in_progress"]_vars

\* The supervisor never blocks or fails a slice so that the file it leaves
\* behind can no longer be loaded.
StaysLoadable == Loadable(queue)

\* An invocation ends, however its runs fail and however the operator keeps
\* putting slices back, unless it hangs in one call that has no timeout.
InvocationEnds ==
  \A p \in Supervisors : []<>(phase[p] = "idle") \/ <>[]Waits(p)

Lifecycle == INSTANCE SliceLifecycle WITH status <- queue

\* The queue file, as it changes, is a run of the lifecycle the documentation
\* promises.
ImplementsLifecycle == Lifecycle!Spec
=============================================================================
