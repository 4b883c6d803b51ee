------------------------------- MODULE Reviews -------------------------------
(***************************************************************************)
(* The two judges of a finished run on one queue: the supervisor's own       *)
(* evaluate_completion and the evaluator of handoffs made outside it.  An    *)
(* initial state is an input of one of them.                                 *)
(***************************************************************************)
EXTENDS SlicePolicy

CONSTANTS
  CompletionInputs,            \* the cases the supervisor judges
  EvaluationInputs,            \* the cases the evaluator judges
  Limit,                       \* consecutive_autonomous_limit
  NoRecord, Absent, Edited     \* see HandoffEvaluation

VARIABLES judge, input, queue, outcome

Completion == INSTANCE CompletionReview WITH Inputs <- CompletionInputs
Evaluation == INSTANCE HandoffEvaluation WITH Inputs <- EvaluationInputs

ASSUME ReviewAssumption ==
  /\ Limit \in Nat
  /\ Absent \notin Paths
  /\ CompletionInputs \subseteq
       [queue : Queues, slice : Slices, before : SUBSET Paths, after : SUBSET Paths,
        runs : Nat, replayFailures : SUBSET Validations, handoff : Handoff]
  /\ \A c \in EvaluationInputs : Evaluation!Admissible(c)

Init ==
  \/ judge = "completion" /\ Completion!Init /\ queue = input.queue
  \/ judge = "evaluation" /\ Evaluation!Init

Next ==
  \/ judge = "completion" /\ Completion!Evaluate /\ UNCHANGED <<judge, queue>>
  \/ judge = "evaluation" /\ Evaluation!Evaluate /\ UNCHANGED judge

Spec == Init /\ [][Next]_<<judge, input, queue, outcome>>

-----------------------------------------------------------------------------
(* The properties of the two modules. *)

\* A run of the supervisor is recorded as what the documented conditions make of it.
VerdictIsDocumented == judge = "completion" => Completion!VerdictIsDocumented

\* A chain continues exactly when the documented conditions hold.
ContinuesWhenDocumented == judge = "completion" => Completion!ContinuesWhenDocumented

\* A decision names the slice that follows, and stops without review only on a
\* drained queue.
NamesTheFollower == judge = "completion" => Completion!NamesTheFollower

\* The evaluator accepts exactly what is documented, and closes only what it accepts.
AcceptanceIsDocumented == judge = "evaluation" => Evaluation!AcceptanceIsDocumented

\* Nothing the evaluator accepts adds, edits or removes a path outside the scope.
NothingOutsideChanges == judge = "evaluation" => Evaluation!NothingOutsideChanges
=============================================================================
