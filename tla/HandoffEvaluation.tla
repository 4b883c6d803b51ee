-------------------------- MODULE HandoffEvaluation --------------------------
(***************************************************************************)
(* evaluate() of automation/supervisor/evaluate_handoff.py: may a queued     *)
(* slice, implemented outside the supervisor between two commits, be closed? *)
(*                                                                           *)
(* A commit is a tree and the slice's record in the queue file it holds.  A  *)
(* tree maps each path to its content, and a content is named after the path *)
(* that has it at base: a file that moved keeps its content's name.          *)
(***************************************************************************)
EXTENDS SlicePolicy

CONSTANTS
  Inputs,     \* the cases to evaluate
  NoRecord,   \* the commit has no record of the slice
  Absent,     \* no file at this path
  Edited      \* any content that no file had at base

VARIABLES
  input,      \* the case
  queue,      \* the queue file
  outcome     \* Pending, or the report

vars == <<input, queue, outcome>>

Report(decision, reason) == [decision |-> decision, reason |-> reason]
Pending == Report("pending", "")
Reject(reason) == Report("reject", reason)
Accept == Report("accept", "")

-----------------------------------------------------------------------------
(* The two commits. *)

\* A record is the contract with depends_on, every field that is frozen.
ContractDrift(base, head) == base.record # head.record

\* git diff --name-only detects renames, and names only the new path of a file
\* that moved.
MovedAway(base, head) ==
  {p \in Paths : /\ base.tree[p] # Absent /\ head.tree[p] = Absent
                 /\ \E r \in Paths : base.tree[r] = Absent /\ head.tree[r] = base.tree[p]}

ChangedFilesBetween(base, head) ==
  {p \in Paths : base.tree[p] # head.tree[p]} \ MovedAway(base, head)

\* A case: paths are those of the repository, the contents at base are named, and
\* what failed in a replay is among what the frozen contract has replayed.
Admissible(c) ==
  /\ c.queue \in Queues /\ c.slice \in Slices
  /\ c.owned \subseteq Paths /\ c.handoff.touched \subseteq Paths
  /\ c.handoff.proofs \in Seq(ProvidedProofs)
  /\ \A p \in Paths : c.base.tree[p] \in {p, Absent}
  /\ c.base.record # NoRecord =>
       /\ c.base.record.contract \in Contracts
       /\ c.replayFailures \subseteq ReplayCandidates(c.base.record.contract, c.handoff)

-----------------------------------------------------------------------------
(* evaluate(), in the order it looks. *)

\* Mutant: a handoff that names no commit is taken at its word.
VerifiedOrSilent(handoff) == handoff.sha # "other"

Verified(handoff) == handoff.sha = "head"

\* The frozen contract judges the work.  The supervisor-owned paths are those
\* of the queue file in the working tree, not of the one at base.
Judgement(c, owned, handoff, changed) ==
  IF OutOfScope(changed, c, owned) # {}                     THEN Reject("scope")
  ELSE IF ExceedsBudget(c, owned, handoff, changed)         THEN Reject("budget")
  ELSE IF OutOfScope(handoff.touched, c, owned) # {}        THEN Reject("touched")
  ELSE IF RequiredValidationFailures(c, handoff) # {}       THEN Reject("validations")
  ELSE IF input.replayFailures # {}                         THEN Reject("replay")
  ELSE IF ProofsFail(input.slice, c, handoff)               THEN Reject("proof")
  ELSE Accept

Examination(base, head, handoff) ==
  IF queue[input.slice] # "queued"                          THEN Reject("status")
  ELSE IF handoff.slice # input.slice                       THEN Reject("slice")
  ELSE IF ~Verified(handoff)                                THEN Reject("sha")
  ELSE IF ~handoff.clean                                    THEN Reject("unclean")
  ELSE IF handoff.outside # {}                              THEN Reject("outside")
  ELSE IF NoRecord \in {base.record, head.record}           THEN Reject("no contract")
  ELSE IF ContractDrift(base, head)                         THEN Reject("drift")
  ELSE Judgement(base.record.contract, input.owned, handoff,
                 ChangedFilesBetween(base, head))

\* A rejection writes nothing, and neither does --dry-run.
Closed(decided) ==
  IF decided = Accept /\ ~input.dryRun
  THEN [queue EXCEPT ![input.slice] = "done"] ELSE queue

Init ==
  /\ input \in Inputs
  /\ queue = input.queue
  /\ outcome = Pending

\* A queue that does not load ends the program without a report.
Evaluate ==
  /\ outcome = Pending
  /\ Loadable(queue)
  /\ outcome' = Examination(input.base, input.head, input.handoff)
  /\ queue' = Closed(Examination(input.base, input.head, input.handoff))
  /\ UNCHANGED input

Spec == Init /\ [][Evaluate]_vars

-----------------------------------------------------------------------------
(* The documented conditions (automation/README.md, "Historical Handoff       *)
(* Evaluation"), written without the operators above.                         *)

h == input.handoff
frozen == input.base.record.contract
Differs(p) == input.base.tree[p] # input.head.tree[p]
OldName(p) ==
  /\ input.head.tree[p] = Absent
  /\ \E r \in Paths : input.head.tree[r] = p /\ input.base.tree[r] = Absent

\* The paths git and the handoff name between them.
Named == {p \in Paths : Differs(p) /\ ~OldName(p)}

ContractFrozen == input.base.record = input.head.record /\ input.base.record # NoRecord
InScope == Named \cup h.touched \subseteq frozen.allowed \cup input.owned
WithinBudget ==
  /\ Cardinality(Named \ input.owned) <= frozen.maxFiles
  /\ Cardinality(h.touched) <= frozen.maxFiles
ValidationsPass == frozen.required \subseteq h.passed \ (h.failed \cup input.replayFailures)

Counts(i, type) ==
  h.proofs[i].slice = input.slice /\ h.proofs[i].sha = "head" /\ h.proofs[i].type = type
ProofGiven ==
  /\ h.level >= frozen.level
  /\ \A type \in frozen.manual : \E i \in DOMAIN h.proofs :
       /\ Counts(i, type) /\ h.proofs[i].sound
       /\ \A j \in (i + 1)..Len(h.proofs) : ~Counts(j, type)

-----------------------------------------------------------------------------
(* Properties. *)

Accepted == outcome = Accept

\* The work is accepted exactly when the slice is queued, the handoff names the
\* commit under evaluation and a clean tree, the contract is the one at base,
\* and the diff, the validations and the proofs satisfy it; and "a reject never
\* changes the queue, with or without --dry-run; an accept without --dry-run
\* marks the slice done", that slice and no other.
AcceptanceIsDocumented ==
  outcome # Pending =>
    /\ Accepted <=>
         /\ input.queue[input.slice] = "queued"
         /\ h.slice = input.slice /\ h.sha = "head" /\ h.clean /\ h.outside = {}
         /\ ContractFrozen
         /\ InScope /\ WithinBudget /\ ValidationsPass /\ ProofGiven
    /\ queue = IF Accepted /\ ~input.dryRun
               THEN [input.queue EXCEPT ![input.slice] = "done"] ELSE input.queue

\* The evaluator "refuses any path outside the slice's allowed_paths": no path
\* the work adds, edits or removes lies outside.
NothingOutsideChanges ==
  Accepted => \A p \in Paths \ (frozen.allowed \cup input.owned) : ~Differs(p)
=============================================================================
