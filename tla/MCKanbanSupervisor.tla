------------------------- MODULE MCKanbanSupervisor -------------------------
(* Small boards for KanbanSupervisor. *)
EXTENDS KanbanSupervisor, TLC

CONSTANTS a, b, u, p1, p2

\* a and b are independent, unless there is an unapproved task: then b is ready
\* although its parents, one approved and one not, are open, as a card of
\* automation/examples/kanban-board.sql is.
MCParents == [t \in Tasks |-> IF t = b /\ u \in Tasks THEN {a, u} ELSE {}]
MCLinkable == (Tasks \ Slices) \X {b}
MCInitialStatus == [t \in Tasks |-> IF t = u THEN "review" ELSE "ready"]
MCDependsOn == [s \in Slices |-> MCParents[s] \cap Slices]
MCPriority == [s \in Slices |-> 1]
MCPosition == [s \in Slices |-> IF s = a THEN 0 ELSE 1]
SupervisorSymmetry == Permutations(Supervisors)
=============================================================================
