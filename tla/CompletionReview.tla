-------------------------- MODULE CompletionReview --------------------------
(***************************************************************************)
(* evaluate_completion over every input of a small instance, compared with   *)
(* the conditions automation/README.md states under "Continuation Policy".   *)
(* The reference definitions below are written from those conditions and do  *)
(* not use the operators that model the code.                                *)
(***************************************************************************)
EXTENDS SlicePolicy

CONSTANTS
  Inputs,     \* the cases to evaluate
  Limit       \* consecutive_autonomous_limit

VARIABLES
  input,      \* the case: queue, current slice, handoff, dirt and replays
  outcome     \* the decision, or Pending

vars == <<input, outcome>>

Pending == Stop("queued", "none", "")

Init == input \in Inputs /\ outcome = Pending

Evaluate ==
  /\ outcome = Pending
  /\ outcome' = EvaluateCompletion(input.queue, input.slice, input.handoff,
                                   input.before, input.after, input.runs, Limit,
                                   input.replayFailures)
  /\ UNCHANGED input

Spec == Init /\ [][Evaluate]_vars

-----------------------------------------------------------------------------
(* The documented conditions. *)

h == input.handoff
s == input.slice
NewDirt == input.after \ input.before
Scope == Contract[s].allowed \cup SupervisorOwned

ReportsDone == h.status = "done"                                       \* 1
ValidationsPassed == Contract[s].required \subseteq h.passed           \* 2
NoneFailed == Contract[s].required \cap h.failed = {}                  \* 3
ReplaysPass == input.replayFailures = {}                               \* 4
DirtInScope == NewDirt \subseteq Scope /\ h.outside = {}               \* 5
TouchedInScope == h.touched \subseteq Scope                            \* 6
WithinBudget ==                                                        \* 7
  /\ Cardinality(NewDirt \ SupervisorOwned) <= Contract[s].maxFiles
  /\ Cardinality(h.touched) <= Contract[s].maxFiles
BelowLimit == input.runs < Limit                                       \* 8

\* The proofs a slice asks for: of each type the last one for this slice at
\* the observed commit, and the handoff names that commit.
Counts(i, type) ==
  h.proofs[i].slice = s /\ h.proofs[i].sha = "head" /\ h.proofs[i].type = type

Latest(type) ==
  {i \in DOMAIN h.proofs :
     Counts(i, type) /\ \A j \in (i + 1)..Len(h.proofs) : ~Counts(j, type)}

ProofGiven ==
  /\ h.level >= Contract[s].level
  /\ Contract[s].manual = {} \/ h.sha = "head"
  /\ \A type \in Contract[s].manual : \E i \in Latest(type) : h.proofs[i].sound

Accepted ==
  /\ ReportsDone
  /\ ValidationsPassed /\ NoneFailed /\ ReplaysPass
  /\ DirtInScope /\ TouchedInScope
  /\ WithinBudget
  /\ ProofGiven

\* Queued with its dependencies done, counting the current slice as done.
MayFollow(t) ==
  /\ t # s
  /\ input.queue[t] = "queued"
  /\ \A d \in DependsOn[t] : d = s \/ input.queue[d] = "done"

\* The highest-priority one; the queue order breaks ties.
Follows(t) ==
  /\ MayFollow(t)
  /\ \A u \in {x \in Slices : MayFollow(x)} :
       /\ Priority[t] <= Priority[u]
       /\ Priority[t] = Priority[u] => Position[t] <= Position[u]

-----------------------------------------------------------------------------
(* Properties. *)

Decided == outcome # Pending

\* A run is recorded as done exactly when it meets every documented condition
\* on its validations, replays, scope, budget and proofs; a reported block is
\* recorded as blocked, and anything else as failed.
VerdictIsDocumented ==
  Decided =>
    outcome.status = IF h.status = "blocked" THEN "blocked"
                     ELSE IF Accepted THEN "done" ELSE "failed"

\* The chain continues exactly when the run is accepted, the limit is not
\* reached, and the one slice that may follow is recommended or nothing is.
ContinuesWhenDocumented ==
  Decided =>
    (Continues(outcome) <=>
       /\ Accepted
       /\ BelowLimit
       /\ \E t \in Slices : Follows(t) /\ h.next \in {NoSlice, t})

\* The decision names the slice that follows, and a run that stops names none; an
\* accepted run stops without review only when the queue has nothing left to run,
\* and whatever else ends a chain asks for a person (README, "Decision Report").
NamesTheFollower ==
  Decided =>
    /\ IF Continues(outcome) THEN Follows(outcome.next) ELSE outcome.next = NoSlice
    /\ outcome.decision = "stop" => Accepted /\ BelowLimit /\ \A t \in Slices : ~MayFollow(t)
=============================================================================
