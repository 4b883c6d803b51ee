-------------------------- MODULE KanbanSupervisor --------------------------
(***************************************************************************)
(* The supervisor with a Kanban board as its queue: KanbanQueue of           *)
(* automation/supervisor/run_next.py, the projection of kanban_projection.py *)
(* and the conditional writes of kanban_writer.py, on a Hermes board that    *)
(* the gateway, people and the clock change in between.                      *)
(*                                                                           *)
(* A claim is four steps: the board is read and its revision compared, the   *)
(* task is read and checked, hermes is called, and the task is read again; a *)
(* record is three.  A call may be refused, may time out with or without     *)
(* effect, and may report success without one.  What the policy makes of the *)
(* handoff is modelled in SlicePolicy; here a run may end with any verdict.  *)
(***************************************************************************)
EXTENDS SliceSelection, HermesBoard

CONSTANTS
  Supervisors,      \* run_next invocations that may overlap on the board
  Limit,            \* consecutive_autonomous_limit, or 1 under --single-slice
  HandoffTimeout,   \* ticks the agent is given
  Margin,           \* CLAIM_MARGIN_SECONDS, in ticks
  ReplayTicks,      \* assumption: replays and git take at most so long
  MayCrash,         \* supervisors may be killed
  MayDrop,          \* hermes may report success without writing
  Interrupts        \* when a person interrupts a running task, see below

\* The slices of the queue are the tasks the overlay approves.  A parent that
\* is approved too becomes a dependency; the links people make and cut are those
\* from parents that are not.  Interrupts is "abandoned" (only what no live
\* supervisor runs or reads back) or "any".
ASSUME KanbanAssumption ==
  /\ Slices \subseteq Tasks
  /\ NoSlice \notin Tasks
  /\ DependsOn = [s \in Slices |-> InitialParents[s] \cap Slices]
  /\ Linkable \subseteq (Tasks \ Slices) \X Slices
  /\ ParkReady = Slices
  /\ Workers = Supervisors
  /\ Limit \in Nat \ {0}
  /\ HandoffTimeout \in Nat /\ Margin \in Nat /\ ReplayTicks \in Nat
  /\ TTL = HandoffTimeout + Margin
  /\ MayCrash \in BOOLEAN /\ MayDrop \in BOOLEAN
  /\ Interrupts \in {"abandoned", "any"}

VARIABLES
  phase,      \* supervisor -> where main() is
  current,    \* supervisor -> the slice it selected last
  view,       \* supervisor -> queue_data, the projection it selected from
  revision,   \* supervisor -> the columns and links that projection was read from
  held,       \* supervisor -> the run id of its claim, 0 when it has none
  runs,       \* supervisor -> completed_runs
  verdict,    \* supervisor -> the decision it is about to record
  elapsed     \* supervisor -> ticks since its agent was launched

heldVars == <<current, view, revision, held, runs, verdict, elapsed>>
supervisorVars == <<phase, heldVars>>
vars == <<boardVars, supervisorVars>>

Phases == {"idle", "loop", "selected", "checked", "claiming", "claimed", "running",
           "judging", "recording", "writing", "verifying"}

NoQueue == [s \in Slices |-> "queued"]
NoVerdict == Stop("queued", "none", "")
NoRevision == <<InitialStatus, InitialParents>>

\* Mutant: the two fields swapped.
FailureSwapped == Stop("stop_failed", "failed", "run")

Failure == Stop("failed", "stop_failed", "run")

Init ==
  /\ BoardInit
  /\ phase = [p \in Supervisors |-> "idle"]
  /\ current = [p \in Supervisors |-> NoSlice]
  /\ view = [p \in Supervisors |-> NoQueue]
  /\ revision = [p \in Supervisors |-> NoRevision]
  /\ held = [p \in Supervisors |-> 0]
  /\ runs = [p \in Supervisors |-> 0]
  /\ verdict = [p \in Supervisors |-> NoVerdict]
  /\ elapsed = [p \in Supervisors |-> 0]

-----------------------------------------------------------------------------
(* The projection of the board onto a queue. *)

SliceStatus ==
  [ready |-> "queued", running |-> "in_progress", done |-> "done",
   blocked |-> "blocked", todo |-> "blocked", review |-> "blocked",
   triage |-> "deferred", scheduled |-> "deferred"]

\* Mutant: an unapproved parent in review no longer holds its child.
OpenStrangerReviewed(t) ==
  \E p \in parents[t] \ Slices : status[p] \notin Terminal \cup {"review"}

\* A parent nobody approved, which the queue cannot see, holds its child.
OpenStranger(t) == \E p \in parents[t] \ Slices : status[p] \notin Terminal

\* An archived task is not projected, and as a parent counts as satisfied: for
\* the queue that is a slice already done.
Projection ==
  [t \in Slices |->
     IF status[t] = "archived" THEN "done"
     ELSE IF status[t] = "ready" /\ OpenStranger(t) THEN "blocked"
     ELSE SliceStatus[status[t]]]

\* What the projection was read from.  The digest also covers titles, priorities
\* and creators, which the model leaves out: see RunEscapes.
Revisions == [Tasks -> TaskStatuses] \X [Tasks -> SUBSET Tasks]
Revision == <<status, parents>>

-----------------------------------------------------------------------------
(* main(): one supervisor invocation. *)

Goto(p, next) == phase' = [phase EXCEPT ![p] = next]

Exit(p) ==
  /\ Goto(p, "idle")
  /\ current' = [current EXCEPT ![p] = NoSlice]
  /\ view' = [view EXCEPT ![p] = NoQueue]
  /\ revision' = [revision EXCEPT ![p] = NoRevision]
  /\ held' = [held EXCEPT ![p] = 0]
  /\ runs' = [runs EXCEPT ![p] = 0]
  /\ verdict' = [verdict EXCEPT ![p] = NoVerdict]
  /\ elapsed' = [elapsed EXCEPT ![p] = 0]

Start(p) ==
  /\ phase[p] = "idle"
  /\ Loadable(Projection)
  /\ InProgress(Projection) = {}
  /\ Goto(p, "loop")
  /\ UNCHANGED <<boardVars, heldVars>>

\* Top of the loop: a fresh projection, and the revision it was read at.
Select(p) ==
  /\ phase[p] = "loop"
  /\ Loadable(Projection)
  /\ SelectNextSlice(Projection) # NoSlice
  /\ Goto(p, "selected")
  /\ current' = [current EXCEPT ![p] = SelectNextSlice(Projection)]
  /\ view' = [view EXCEPT ![p] = Projection]
  /\ revision' = [revision EXCEPT ![p] = Revision]
  /\ UNCHANGED <<boardVars, held, runs, verdict, elapsed>>

\* Nothing is eligible, the projection is refused, or the working tree, which
\* this module leaves out, is dirty outside the slice.
SelectStops(p) ==
  /\ phase[p] = "loop"
  /\ Exit(p)
  /\ UNCHANGED boardVars

\* claim(): the board is read and its revision compared.  The revision has then
\* served; the next projection sets it anew, so the model forgets it.
ClaimCheckBoard(p) ==
  /\ phase[p] = "selected"
  /\ IF revision[p] = Revision
     THEN /\ Goto(p, "checked")
          /\ revision' = [revision EXCEPT ![p] = NoRevision]
          /\ UNCHANGED <<current, view, held, runs, verdict, elapsed>>
     ELSE Exit(p)
  /\ UNCHANGED boardVars

\* The task is read once more, later.
ClaimCheckTask(p) ==
  /\ phase[p] = "checked"
  /\ IF status[current[p]] = "ready" /\ current[p] \notin assigned
     THEN Goto(p, "claiming") /\ UNCHANGED heldVars
     ELSE Exit(p)
  /\ UNCHANGED boardVars

\* Mutant: the exit code of hermes is not looked at.
ClaimUnchecked(p) ==
  /\ phase[p] = "claiming"
  /\ Goto(p, "claimed")
  /\ HermesClaim(current[p], p) \/ UNCHANGED boardVars
  /\ UNCHANGED heldVars

\* hermes is refused or cannot run, or takes too long; then the claim may have
\* been made all the same.
ClaimCommand(p) ==
  /\ phase[p] = "claiming"
  /\ \/ HermesClaim(current[p], p) /\ Goto(p, "claimed") /\ UNCHANGED heldVars
     \/ HermesClaim(current[p], p) /\ Exit(p)
     \/ Exit(p) /\ UNCHANGED boardVars
     \/ MayDrop /\ Goto(p, "claimed") /\ UNCHANGED <<boardVars, heldVars>>

\* The run id the claim holds is whatever run the task has now.  The agent is
\* launched next, with its full time.
ClaimReadBack(p) ==
  /\ phase[p] = "claimed"
  /\ IF status[current[p]] = "running"
     THEN /\ Goto(p, "running")
          /\ held' = [held EXCEPT ![p] = run[current[p]]]
          /\ elapsed' = [elapsed EXCEPT ![p] = 0]
          /\ UNCHANGED <<current, view, revision, runs, verdict>>
     ELSE Exit(p)
  /\ UNCHANGED boardVars

AgentReturns(p) ==
  /\ phase[p] = "running"
  /\ Goto(p, "judging")
  /\ UNCHANGED <<boardVars, heldVars>>

\* fail(): the agent failed or timed out, or its handoff is of no use.
RunFails(p) ==
  /\ phase[p] \in {"running", "judging"}
  /\ verdict' = [verdict EXCEPT ![p] = Failure]
  /\ Goto(p, "recording")
  /\ UNCHANGED <<boardVars, current, view, revision, held, runs, elapsed>>

\* The handoff is not JSON, git fails, or before the claim the context bundle
\* cannot be built or the board has changed in what the model leaves out: main()
\* is left and nothing is recorded.
RunEscapes(p) ==
  /\ phase[p] \in {"selected", "judging"}
  /\ Exit(p)
  /\ UNCHANGED boardVars

\* A verdict of done is followed by the question whether another run may follow.
Judge(p) ==
  /\ phase[p] = "judging"
  /\ \E v \in Verdicts, recommended \in Slices \cup {NoSlice} :
       verdict' = [verdict EXCEPT ![p] =
         IF v = "done"
         THEN NextSliceEligibility([view[p] EXCEPT ![current[p]] = "in_progress"],
                                   current[p], recommended, runs[p] + 1, Limit)
         ELSE Stop(v, IF v = "blocked" THEN "stop_blocked" ELSE "stop_failed", "run")]
  /\ runs' = [runs EXCEPT ![p] = @ + 1]
  /\ Goto(p, "recording")
  /\ UNCHANGED <<boardVars, current, view, revision, held, elapsed>>

-----------------------------------------------------------------------------
(* record(): a verdict on the claimed run. *)

\* VERDICTS: the column a verdict moves the task to, and the run's outcome.
Column(v)  == IF v = "done" THEN "review" ELSE "blocked"
Result(v)  == IF v = "done" THEN "review_requested" ELSE "blocked"

IsRecorded(p) == outcome[held[p]] = Result(verdict[p].status)

\* record() returned: the invocation loops or ends.
GoOn(p) ==
  IF Continues(verdict[p]) THEN Goto(p, "loop") /\ UNCHANGED heldVars ELSE Exit(p)

\* A run that already ended as it should needs no call, one that is still ours
\* and running gets one, and any other is refused.
RecordCheck(p) ==
  /\ phase[p] = "recording"
  /\ IF IsRecorded(p) THEN GoOn(p)
     ELSE IF outcome[held[p]] = "running" /\ run[current[p]] = held[p]
     THEN Goto(p, "writing") /\ UNCHANGED heldVars
     ELSE Exit(p)
  /\ UNCHANGED boardVars

HermesRecords(p) ==
  HermesEnds(current[p], held[p], Column(verdict[p].status), Result(verdict[p].status))

RecordCommand(p) ==
  /\ phase[p] = "writing"
  /\ \/ HermesRecords(p) /\ Goto(p, "verifying") /\ UNCHANGED heldVars
     \/ HermesRecords(p) /\ Exit(p)
     \/ Exit(p) /\ UNCHANGED boardVars
     \/ MayDrop /\ Goto(p, "verifying") /\ UNCHANGED <<boardVars, heldVars>>

\* Mutant: a call that reported success is believed.
RecordTrusts(p) ==
  /\ phase[p] = "verifying"
  /\ GoOn(p)
  /\ UNCHANGED boardVars

RecordVerify(p) ==
  /\ phase[p] = "verifying"
  /\ IF IsRecorded(p) THEN GoOn(p) ELSE Exit(p)
  /\ UNCHANGED boardVars

Crash(p) ==
  /\ MayCrash
  /\ phase[p] # "idle"
  /\ Exit(p)
  /\ UNCHANGED boardVars

-----------------------------------------------------------------------------
(* The clock and people. *)

\* Mutant: the agent has no timeout.
TimePassesFreely(p) ==
  /\ phase[p] \in {"idle", "loop", "selected", "running", "judging"}
  /\ phase[p] = "judging" => elapsed[p] < HandoffTimeout + ReplayTicks

\* Steps that read the board or call hermes take no time; the agent is killed
\* after HandoffTimeout, and the replays end within ReplayTicks of that.
TimePasses(p) ==
  /\ phase[p] \in {"idle", "loop", "selected", "running", "judging"}
  /\ phase[p] = "running" => elapsed[p] < HandoffTimeout
  /\ phase[p] = "judging" => elapsed[p] < HandoffTimeout + ReplayTicks

Tick ==
  /\ \A p \in Supervisors : TimePasses(p)
  /\ ClaimsAge
  /\ elapsed' = [p \in Supervisors |-> IF phase[p] \in {"running", "judging"}
                                       THEN elapsed[p] + 1 ELSE elapsed[p]]
  /\ UNCHANGED <<status, parents, assigned, run, outcome, claimant,
                 phase, current, view, revision, held, runs, verdict>>

Lapse(t) == Expire(t) /\ UNCHANGED supervisorVars

\* A person interrupts a task no live supervisor has claimed, or any.
RunPhases == {"running", "judging", "recording", "writing"}
MayInterrupt(t) ==
  \/ Interrupts = "any"
  \/ \A p \in Supervisors : current[p] = t => phase[p] \notin RunPhases \cup {"claimed"}

PersonActs(t) ==
  /\ \/ PersonMoves(t) \/ PersonAssigns(t)
     \/ \E d \in Tasks : <<d, t>> \in Linkable /\ PersonLinks(t, d)
     \/ MayInterrupt(t) /\ PersonInterrupts(t)
  /\ UNCHANGED supervisorVars

GatewayActs(t) == (GatewayClaims(t) \/ GatewayEnds(t)) /\ UNCHANGED supervisorVars

-----------------------------------------------------------------------------
Progress(p) ==
  \/ Select(p) \/ SelectStops(p)
  \/ ClaimCheckBoard(p) \/ ClaimCheckTask(p) \/ ClaimCommand(p) \/ ClaimReadBack(p)
  \/ AgentReturns(p) \/ RunFails(p) \/ RunEscapes(p) \/ Judge(p)
  \/ RecordCheck(p) \/ RecordCommand(p) \/ RecordVerify(p)

Next ==
  \/ \E p \in Supervisors : Start(p) \/ Progress(p) \/ Crash(p)
  \/ \E t \in Tasks : Lapse(t) \/ PersonActs(t) \/ GatewayActs(t)
  \/ Tick

Spec == Init /\ [][Next]_vars

-----------------------------------------------------------------------------
(* Properties. *)

TypeOK ==
  /\ BoardTypeOK
  /\ phase \in [Supervisors -> Phases]
  /\ current \in [Supervisors -> Slices \cup {NoSlice}]
  /\ view \in [Supervisors -> Queues]
  /\ revision \in [Supervisors -> Revisions]
  /\ held \in [Supervisors -> 0..MaxRuns]
  /\ runs \in [Supervisors -> Nat]
  /\ verdict \in [Supervisors -> Decisions]
  /\ elapsed \in [Supervisors -> Nat]

Holds(p) == phase[p] \in RunPhases

\* The run a supervisor will close is one it claimed itself ("a running task
\* belongs to whoever claimed it").
HoldsOwnRun ==
  \A p \in Supervisors : held[p] # 0 => claimant[held[p]] = p

\* While a supervisor runs and judges a slice its claim stands: the TTL
\* "outlasts the agent and the validation replay".
ClaimOutlastsRun ==
  \A p \in Supervisors :
    Holds(p) => status[current[p]] = "running" /\ run[current[p]] = held[p]

\* The loop does not run ahead of a person's approval: when hermes gives a
\* supervisor a slice, no parent of it, approved for projection or not, is open
\* at that moment, whatever was linked, reviewed or reclaimed since the slice was
\* chosen.
LaunchAfterApproval ==
  [][\A p \in Supervisors :
       phase[p] = "claiming" /\ HermesClaim(current[p], p) =>
         ~Open(status, parents, current[p])]_vars

\* A chain goes on only after the board shows the verdict on the run it held.
ChainsPastRecorded ==
  \A p \in Supervisors :
    phase[p] = "loop" /\ runs[p] > 0 =>
      outcome[held[p]] = Result(verdict[p].status) /\ verdict[p].status = "done"
=============================================================================
