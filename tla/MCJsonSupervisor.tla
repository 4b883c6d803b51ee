-------------------------- MODULE MCJsonSupervisor --------------------------
(* Small instances of JsonSupervisor for TLC. *)
EXTENDS JsonSupervisor, TLC

CONSTANTS s1, s2, s3, p1, p2, e1

\* s2 follows s1; s3 is independent, comes last, and works on its own paths.
MCPriority == [s \in Slices |-> IF s = s3 THEN 2 ELSE 1]
MCPosition == [s \in Slices |-> CASE s = s1 -> 0 [] s = s2 -> 1 [] s = s3 -> 2]
MCDependsOn == [s \in Slices |-> IF s = s2 THEN {s1} ELSE {}]

MCContract ==
  [s \in Slices |->
     [allowed |-> (IF s = s3 THEN {"doc"} ELSE {"app"}) \cap Paths, maxFiles |-> 1,
      required |-> {"make architecture"}, manual |-> {}, level |-> NoLevel]]

MCInitialQueue == [s \in Slices |-> "queued"]

\* A handoff reports a status, claims its validation or not, recommends
\* something or nothing, and tells of the files it touched or hides them.
MCHandoffs ==
  [slice : Slices, status : Verdicts,
   passed : SUBSET Validations, failed : {{}},
   touched : {{}, {"app"} \cap Paths}, outside : {{}},
   next : {NoSlice} \cup (Slices \ {s1, s2}), level : {1}, sha : {"none"},
   proofs : {<<>>}]

\* Supervisors are interchangeable.
SupervisorSymmetry == Permutations(Supervisors)
=============================================================================
