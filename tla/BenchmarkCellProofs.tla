------------------------ MODULE BenchmarkCellProofs ------------------------
(***************************************************************************)
(* Proofs about BenchmarkCell, for every cell: any ceilings, budgets, grace   *)
(* and sources, and any number of containers.                                *)
(***************************************************************************)
EXTENDS BenchmarkCell, TLAPS

-----------------------------------------------------------------------------
(* The inductive invariant, a part for each concern. *)

\* A build is of a source that was edited, and of implement.
BuildType ==
  script # "idle" => phase = "implement" /\ ws["source"] \in Sources

\* The containers of others that are still there were there at the start.
OthersKnown == watch # "off" => exists \cap Others \subseteq baseline

TypeInv == TypeOK /\ BuildType /\ OthersKnown

\* Where the thread is while execute() is at a step, and what the witness knows:
\* whatever it has looked at and still exists is recorded, what it has not looked
\* at is listed in the last look, and so a container is recorded, or gone, or the
\* cell is refused.
WatchInv ==
  /\ step = "session" => watch = "watching"
  /\ watch = "last look" => step = "stopped"
  /\ seen \cap exists \subseteq records
  /\ records = {} \/ observed
  /\ step \in {"session", "stopped", "reaping"} => violated \/ baseline \cap Writers = {}
  /\ watch = "last look" => exists \subseteq baseline \cup seen \cup listed
  /\ step = "reaping" => violated \/ Writers \subseteq records
  /\ NobodyWritesBehind

\* What hold() archived is what the image ships, and so is what a phase begins in.
SpaceInv ==
  /\ phase \in ArtifactPhases /\ step \in {"session", "stopped", "reaping", "settling"} =>
       violated \/ held = Shipped
  /\ OnlyArtifactsCross

\* A build runs in a container; the record follows the builds that end well; and
\* what is restored is the record.
BuildInv ==
  /\ Writers = {} => script = "idle"
  /\ script # "idle" => violated \/ accepted = ws["source"]
  /\ script = "recorded" => violated \/ part = accepted
  /\ violated \/ snapshot = lastBuilt
  /\ step = "closing" /\ phase = "implement" /\ code = "timeout" /\ lastBuilt # None =>
       violated \/ ws["source"] = lastBuilt
  /\ step = "graded" => ~violated
  /\ GradedIsLastBuilt

\* What the phases before p may have spent of the budget.
Before(p) ==
  CASE p = "research"         -> 0
    [] p = "research_compact" -> Ceiling["research"] + Grace
    [] p = "plan"             -> Ceiling["research"] + Ceiling["research_compact"] + 2 * Grace
    [] p = "plan_compact"     -> Ceiling["research"] + Ceiling["research_compact"]
                                 + Ceiling["plan"] + 3 * Grace
    [] p = "implement"        -> Ceiling["research"] + Ceiling["research_compact"]
                                 + Ceiling["plan"] + Ceiling["plan_compact"] + 4 * Grace

TimeInv ==
  /\ step \in {"ready", "session"} => clock <= Before(phase)
  /\ step \in {"stopped", "reaping", "settling"} /\ phase \in ArtifactPhases =>
       clock <= Before(phase) + Ceiling[phase] + Grace
  /\ step = "session" => /\ budget <= Ceiling[phase]
                         /\ budget >= Smaller(Ceiling[phase], timeout - clock)

\* The budget outlasts the four phases before implement.
Ample == Before("implement") < timeout

TreatmentInv ==
  Ample /\ ~invalid /\ ~violated =>
    /\ administered
    /\ phase \in {"research_compact", "plan_compact"} => compaction
    /\ step = "ready" => Owed
    /\ step \in {"closing", "graded"} => phase = "implement"

-----------------------------------------------------------------------------
(* The budget. *)

\* A ceiling is a natural number, and at least 1.
LEMMA CeilingType ==
  ASSUME timeout \in Nat
  PROVE  /\ Ceiling \in [Phases -> Nat]
         /\ \A p \in Phases : Ceiling[p] >= 1
<1>1. Total(Shape) \in Nat \ {0} BY CellAssumption DEF Total, Phases, ArtifactPhases
<1>2. ASSUME NEW p \in Phases
      PROVE  /\ Larger((Shape[p] * timeout) \div Total(Shape), 1) \in Nat
             /\ Larger((Shape[p] * timeout) \div Total(Shape), 1) >= 1
  <2>1. Shape[p] \in Nat BY CellAssumption
  <2>2. Shape[p] * timeout \in Nat BY <2>1, SMT
  <2>3. (Shape[p] * timeout) \div Total(Shape) \in Nat BY <1>1, <2>2, SMT
  <2> QED BY <2>3 DEF Larger
<1> QED BY <1>2 DEF Ceiling

\* A session is granted something, no more than its ceiling, and no less than the
\* smaller of its ceiling and what is left.
LEMMA AllowedBounds ==
  ASSUME timeout \in Nat \ {0}, clock \in 0..timeout, NEW p \in Phases
  PROVE  /\ Allowed(p) \in 1..timeout
         /\ Allowed(p) <= Ceiling[p]
         /\ Allowed(p) >= Smaller(Ceiling[p], timeout - clock)
<1>1. Ceiling[p] \in Nat /\ Ceiling[p] >= 1 BY CeilingType
<1> QED BY <1>1 DEF Allowed, Larger, Smaller, Remaining

-----------------------------------------------------------------------------
(* Types. *)

\* Unpacking an archive over the workspace leaves a workspace.
LEMMA PutType ==
  ASSUME ws \in Workspaces, NEW kept, NEW source,
         source["source"] \in Sources \cup {Given},
         "executable" \in kept \/ source["executable"] \in Sources \cup {Given, Built}
  PROVE  Put(kept, source) \in Workspaces
BY CellAssumption DEF Put, Workspaces, Entries

\* A step that leaves the witness and the containers alone keeps their types.
LEMMA WitnessTypeKept ==
  ASSUME WitnessTypeOK, OthersKnown, UNCHANGED <<exists, witnessVars>>
  PROVE  WitnessTypeOK' /\ OthersKnown'
BY DEF WitnessTypeOK, OthersKnown, witnessVars

\* A step that leaves the lane alone keeps its types.
LEMMA LaneTypeKept ==
  ASSUME LaneTypeOK, UNCHANGED laneVars PROVE LaneTypeOK'
BY DEF LaneTypeOK, laneVars

\* A step that leaves the work and the phase alone keeps the types of the work.
LEMMA WorkTypeKept ==
  ASSUME WorkTypeOK, BuildType, UNCHANGED <<phase, workVars>> PROVE WorkTypeOK' /\ BuildType'
BY DEF WorkTypeOK, BuildType, workVars

\* Every step keeps the types of the witness.
LEMMA WitnessTypeStep ==
  ASSUME WitnessTypeOK, OthersKnown, [Next]_vars
  PROVE  WitnessTypeOK' /\ OthersKnown'
<1>1. CASE Begin
  BY <1>1, WitnessAssumption
  DEF WitnessTypeOK, OthersKnown, Begin, Watch, witnessVars
<1>2. ASSUME NEW c \in Containers, SessionStarts(c) PROVE WitnessTypeOK' /\ OthersKnown'
  BY <1>2, WitnessAssumption
  DEF WitnessTypeOK, OthersKnown, SessionStarts, Starts, witnessVars
<1>3. ASSUME NEW c \in Containers, SessionRemoves(c) PROVE WitnessTypeOK' /\ OthersKnown'
  BY <1>3, WitnessAssumption
  DEF WitnessTypeOK, OthersKnown, SessionRemoves, Removes, witnessVars
<1>4. CASE WitnessLooks
  <2>1. CASE Look BY <2>1 DEF WitnessTypeOK, OthersKnown, Look, New
  <2>2. CASE \E c \in listed : Inspect(c) BY <2>2 DEF WitnessTypeOK, OthersKnown, Inspect
  <2>3. CASE LastLook BY <2>3 DEF WitnessTypeOK, OthersKnown, LastLook, New
  <2> QED BY <1>4, <2>1, <2>2, <2>3 DEF WitnessLooks
<1>5. CASE SessionOver
  BY <1>5, WitnessAssumption
  DEF WitnessTypeOK, OthersKnown, SessionOver, NoneObserved, Survivors, Forgotten, Joined,
      witnessVars
<1>6. CASE WitnessReaps
  BY <1>6, WitnessAssumption
  DEF WitnessTypeOK, OthersKnown, WitnessReaps, Reap, witnessVars
<1>7. CASE WitnessReclaims
  BY <1>7, WitnessAssumption
  DEF WitnessTypeOK, OthersKnown, WitnessReclaims, Reclaim, Forgotten, witnessVars
<1>8. CASE UNCHANGED vars
  BY <1>8, WitnessTypeKept DEF vars, witnessVars
<1>9. CASE Unadministered \/ ToolEdits \/ Compiles \/ Records \/ Recorded \/ Moves
           \/ SessionEnds \/ Settle \/ PutBackFails \/ Finish \/ Close
  BY <1>9, WitnessTypeKept
  DEF Unadministered, ToolEdits, Compiles, Records, Recorded, Moves, SessionEnds, Settle,
      PutBackFails, Finish, Close, witnessVars
<1> QED BY <1>1, <1>2, <1>3, <1>4, <1>5, <1>6, <1>7, <1>8, <1>9 DEF Next, Outside, Harness

\* Every step keeps the types of the lane.
LEMMA LaneTypeStep ==
  ASSUME LaneTypeOK, WorkTypeOK, [Next]_vars
  PROVE  LaneTypeOK'
<1>1. CASE Begin
  BY <1>1, CellAssumption, AllowedBounds
  DEF LaneTypeOK, Begin, WorkTypeOK
<1>2. CASE Unadministered
  BY <1>2, CellAssumption
  DEF LaneTypeOK, Unadministered
<1>3. CASE SessionEnds
  BY <1>3, CellAssumption
  DEF LaneTypeOK, SessionEnds, Spends, Smaller
<1>4. CASE SessionOver
  BY <1>4, CellAssumption
  DEF LaneTypeOK, SessionOver, UnchangedBut
<1>5. CASE WitnessReclaims
  BY <1>5, CellAssumption
  DEF LaneTypeOK, WitnessReclaims, UnchangedBut
<1>6. CASE Settle
  BY <1>6, CellAssumption
  DEF LaneTypeOK, Settle, AfterOwed, Files, Phases, ArtifactPhases, Reported, Valid, Own,
      Compacted, WorkTypeOK
<1>7. CASE Finish
  BY <1>7, CellAssumption
  DEF LaneTypeOK, Finish, UnchangedBut
<1>8. CASE Close
  BY <1>8, CellAssumption
  DEF LaneTypeOK, Close, WorkTypeOK, Workspaces, Entries
<1>9. CASE UNCHANGED vars
  BY <1>9, LaneTypeKept DEF vars
<1>10. CASE (\E c \in Containers : SessionStarts(c))
            \/ (\E c \in Containers : SessionRemoves(c)) \/ ToolEdits \/ Compiles \/ Records
            \/ Recorded \/ Moves \/ WitnessLooks \/ WitnessReaps
  BY <1>10, LaneTypeKept
  DEF SessionStarts, SessionRemoves, ToolEdits, Compiles, Records, Recorded, Moves,
      WitnessLooks, WitnessReaps
<1>11. CASE PutBackFails
  BY <1>11, CellAssumption
  DEF LaneTypeOK, PutBackFails, UnchangedBut
<1> QED BY <1>1, <1>2, <1>3, <1>4, <1>5, <1>6, <1>7, <1>8, <1>9, <1>10, <1>11
    DEF Next, Outside, Harness

\* Every step keeps the types of the work.
LEMMA WorkTypeStep ==
  ASSUME LaneTypeOK, WorkTypeOK, BuildType, [Next]_vars
  PROVE  WorkTypeOK' /\ BuildType'
<1>1. CASE Begin
  BY <1>1, CellAssumption
  DEF WorkTypeOK, BuildType, Begin, Unwritten, Files, laneVars
<1>2. ASSUME NEW c \in Containers, SessionRemoves(c) PROVE WorkTypeOK' /\ BuildType'
  BY <1>2, CellAssumption
  DEF WorkTypeOK, BuildType, SessionRemoves, BuildMayStop, laneVars
<1>3. CASE ToolEdits
  BY <1>3, CellAssumption
  DEF WorkTypeOK, BuildType, ToolEdits, Open, Files, Workspaces, Entries, laneVars
<1>4. CASE Compiles
  BY <1>4, CellAssumption
  DEF WorkTypeOK, BuildType, Compiles, Workspaces, Entries, laneVars
<1>5. CASE Records
  BY <1>5, CellAssumption
  DEF WorkTypeOK, BuildType, Records, laneVars
<1>6. CASE Recorded
  BY <1>6, CellAssumption
  DEF WorkTypeOK, BuildType, Recorded, laneVars
<1>7. CASE Moves
  BY <1>7, CellAssumption
  DEF WorkTypeOK, BuildType, Moves, laneVars
<1>8. CASE WitnessReaps
  BY <1>8, CellAssumption
  DEF WorkTypeOK, BuildType, WitnessReaps, BuildMayStop, laneVars
<1>9. CASE Settle
  <2>1. script = "idle" BY <1>9, CellAssumption DEF Settle, BuildType, Phases, ArtifactPhases
  <2>2. held \in Workspaces /\ ws \in Workspaces BY DEF LaneTypeOK, WorkTypeOK
  <2>3. ws' \in Workspaces
    <3>1. held["source"] \in Sources \cup {Given} BY <2>2 DEF Workspaces, Entries
    <3>2. held["executable"] \in Sources \cup {Given, Built} BY <2>2 DEF Workspaces, Entries
    <3> QED BY <1>9, <2>2, <3>1, <3>2, PutType DEF Settle, PutBack
  <2> QED BY <1>9, <2>1, <2>3 DEF Settle, WorkTypeOK, BuildType
<1>10. CASE Finish
  <2>1. CASE ws' = ws BY <1>10, <2>1 DEF Finish, UnchangedBut, WorkTypeOK, BuildType
  <2>2. CASE ws' # ws
    <3>1. snapshot \in Sources BY <1>10, <2>2 DEF Finish, Restored, WorkTypeOK
    <3>2. ws' = Put(ExcludedFromSubmission, [e \in Entries |-> snapshot])
      BY <1>10, <2>2 DEF Finish, Restored
    <3>3. ws' \in Workspaces
      BY <3>1, <3>2, PutType DEF WorkTypeOK, ExcludedFromSubmission, Entries
    <3>4. ws'["source"] = snapshot BY <3>2 DEF Put, ExcludedFromSubmission, Entries
    <3> QED BY <1>10, <3>1, <3>3, <3>4 DEF Finish, UnchangedBut, WorkTypeOK, BuildType
  <2> QED BY <2>1, <2>2
<1>11. CASE UNCHANGED vars
  BY <1>11, WorkTypeKept DEF vars, laneVars
<1>12. CASE Unadministered \/ (\E c \in Containers : SessionStarts(c)) \/ SessionEnds
            \/ WitnessLooks \/ SessionOver \/ WitnessReclaims \/ PutBackFails \/ Close
  BY <1>12, WorkTypeKept
  DEF Unadministered, SessionStarts, SessionEnds, Spends, Smaller, WitnessLooks, SessionOver,
      UnchangedBut, WitnessReclaims, PutBackFails, Close, workVars, laneVars
<1> QED BY <1>1, <1>2, <1>3, <1>4, <1>5, <1>6, <1>7, <1>8, <1>9, <1>10, <1>11, <1>12
    DEF Next, Outside, Harness

\* A cell begins well typed.
LEMMA TypeInit == Init => TypeInv
<1> SUFFICES ASSUME Init PROVE TypeInv OBVIOUS
<1>1. WitnessTypeOK /\ OthersKnown BY DEF Init, WitnessInit, WitnessTypeOK, OthersKnown
<1>2. Shipped \in Workspaces BY CellAssumption DEF Shipped, Workspaces, Entries
<1>3. LaneTypeOK
  <2>1. timeout \in Nat BY CellAssumption DEF Init
  <2>2. clock \in 0..timeout /\ budget \in 0..timeout BY <2>1 DEF Init
  <2>3. phase \in Phases /\ handed \in Files BY DEF Init, Phases, ArtifactPhases, Files
  <2> QED BY <1>2, <2>2, <2>3 DEF Init, LaneTypeOK
<1>4. WorkTypeOK /\ BuildType
  BY <1>2 DEF Init, WorkTypeOK, BuildType, Unwritten
<1> QED BY <1>1, <1>3, <1>4 DEF TypeInv, TypeOK

\* Every step keeps the types.
LEMMA TypeStep == TypeInv /\ [Next]_vars => TypeInv'
BY WitnessTypeStep, LaneTypeStep, WorkTypeStep DEF TypeInv, TypeOK

\* TypeOK of the witness and of the cell.
THEOREM CellTypeCorrect == Spec => []TypeOK
<1>1. TypeInv => TypeOK BY DEF TypeInv
<1> QED BY <1>1, TypeInit, TypeStep, PTL DEF Spec

-----------------------------------------------------------------------------
(* The witness. *)

\* WatchInv reads nothing but these.
LEMMA WatchKept ==
  ASSUME WatchInv, UNCHANGED <<exists, witnessVars, step>> PROVE WatchInv'
BY DEF WatchInv, NobodyWritesBehind, Writers, witnessVars

\* Every step keeps WatchInv, if no container starts after its session.
LEMMA WatchStep ==
  ASSUME ~MayStartLate, WitnessTypeOK, WatchInv, [Next]_vars
  PROVE  WatchInv'
<1>1. CASE Begin
  BY <1>1
  DEF WitnessTypeOK, WatchInv, NobodyWritesBehind, Writers, Begin, Watch, witnessVars, laneVars
<1>2. CASE Unadministered
  BY <1>2
  DEF WitnessTypeOK, WatchInv, NobodyWritesBehind, Writers, Unadministered, witnessVars,
      laneVars
<1>3. ASSUME NEW c \in Containers, SessionStarts(c) PROVE WatchInv'
  BY <1>3
  DEF WitnessTypeOK, WatchInv, NobodyWritesBehind, Writers, SessionStarts, Starts, witnessVars,
      laneVars
<1>4. ASSUME NEW c \in Containers, SessionRemoves(c) PROVE WatchInv'
  BY <1>4
  DEF WitnessTypeOK, WatchInv, NobodyWritesBehind, Writers, SessionRemoves, Removes,
      witnessVars, laneVars
<1>5. CASE SessionEnds
  BY <1>5
  DEF WitnessTypeOK, WatchInv, NobodyWritesBehind, Writers, SessionEnds, Spends, Smaller,
      witnessVars, laneVars
<1>6. CASE WitnessLooks
  <2>1. CASE Look BY <1>6, <2>1 DEF WitnessLooks, WatchInv, NobodyWritesBehind, Writers, Look,
                             laneVars
  <2>2. CASE \E c \in listed : Inspect(c)
    <3> PICK c \in listed : Inspect(c) BY <2>2
    <3>1. CASE c \in exists
      BY <1>6, <3>1 DEF WitnessLooks, WatchInv, NobodyWritesBehind, Writers, Inspect, laneVars
    <3>2. CASE c \notin exists
      BY <1>6, <3>2 DEF WitnessLooks, WatchInv, NobodyWritesBehind, Writers, Inspect, laneVars
    <3> QED BY <3>1, <3>2
  <2>3. CASE step = "stopped" /\ LastLook
    BY <1>6, <2>3 DEF WitnessLooks, WatchInv, NobodyWritesBehind, Writers, LastLook, New, laneVars
  <2> QED BY <1>6, <2>1, <2>2, <2>3 DEF WitnessLooks
<1>7. CASE SessionOver
  BY <1>7
  DEF WitnessTypeOK, WatchInv, NobodyWritesBehind, Writers, SessionOver, NoneObserved,
      Survivors, Forgotten, Joined, UnchangedBut, witnessVars, laneVars
<1>8. CASE WitnessReaps
  <2> PICK c \in leaked : Reap(c) BY <1>8 DEF WitnessReaps
  <2>1. exists' \subseteq exists BY DEF Reap
  <2>2. step = "reaping" /\ step' = "reaping" BY <1>8 DEF WitnessReaps, laneVars
  <2> QED BY <2>1, <2>2 DEF WatchInv, NobodyWritesBehind, Writers, Reap
<1>9. CASE WitnessReclaims
  BY <1>9
  DEF WitnessTypeOK, WatchInv, NobodyWritesBehind, Writers, WitnessReclaims, Reclaim, Forgotten,
      UnchangedBut, witnessVars, laneVars
<1>10. CASE Settle
  BY <1>10
  DEF WitnessTypeOK, WatchInv, NobodyWritesBehind, Writers, Settle, AfterOwed, witnessVars,
      laneVars
<1>11. CASE Finish
  BY <1>11
  DEF WitnessTypeOK, WatchInv, NobodyWritesBehind, Writers, Finish, UnchangedBut, witnessVars,
      laneVars
<1>12. CASE Close
  BY <1>12
  DEF WitnessTypeOK, WatchInv, NobodyWritesBehind, Writers, Close, witnessVars, laneVars
<1>13. CASE UNCHANGED vars
  BY <1>13, WatchKept DEF vars, witnessVars, laneVars
<1>14. CASE ToolEdits \/ Compiles \/ Records \/ Recorded \/ Moves
  BY <1>14, WatchKept
  DEF ToolEdits, Compiles, Records, Recorded, Moves, witnessVars, laneVars
<1>15. CASE PutBackFails
  BY <1>15
  DEF WatchInv, NobodyWritesBehind, Writers, PutBackFails, UnchangedBut, witnessVars
<1> QED BY <1>1, <1>2, <1>3, <1>4, <1>5, <1>6, <1>7, <1>8, <1>9, <1>10, <1>11, <1>12, <1>13,
     <1>14, <1>15 DEF Next, Outside, Harness

\* WatchInv holds when a cell begins.
LEMMA WatchInit == Init => WatchInv
BY DEF Init, WitnessInit, WatchInv, NobodyWritesBehind, Writers

\* Once execute() goes on, no container writes, if none starts after its session.
THEOREM WorkspaceHandedBack ==
  ASSUME ~MayStartLate
  PROVE  Spec => []NobodyWritesBehind
<1>1. TypeInv /\ WatchInv /\ [Next]_vars => WatchInv' BY WatchStep DEF TypeInv, TypeOK
<1>2. WatchInv => NobodyWritesBehind BY DEF WatchInv
<1> QED BY <1>1, <1>2, TypeInit, TypeStep, WatchInit, PTL DEF Spec

-----------------------------------------------------------------------------
(* The workspace of a phase. *)

\* SpaceInv reads nothing but these.
LEMMA SpaceKept ==
  ASSUME SpaceInv, UNCHANGED <<violated, phase, step, held, ws>> PROVE SpaceInv'
BY DEF SpaceInv, OnlyArtifactsCross

\* Every step keeps SpaceInv.
LEMMA SpaceStep ==
  ASSUME TypeInv, WatchInv, SpaceInv, [Next]_vars
  PROVE  SpaceInv'
<1>1. CASE Begin
  BY <1>1
  DEF SpaceInv, OnlyArtifactsCross, Begin, Watch, witnessVars, laneVars, workVars
<1>2. CASE Unadministered
  BY <1>2
  DEF SpaceInv, OnlyArtifactsCross, Unadministered, witnessVars, laneVars, workVars
<1>3. CASE ToolEdits
  BY <1>3
  DEF SpaceInv, OnlyArtifactsCross, ToolEdits, WatchInv, NobodyWritesBehind, witnessVars,
      laneVars, workVars
<1>4. CASE Compiles
  BY <1>4
  DEF SpaceInv, OnlyArtifactsCross, Compiles, WatchInv, NobodyWritesBehind, Phases, witnessVars,
      laneVars, workVars
<1>5. CASE SessionEnds
  BY <1>5
  DEF SpaceInv, OnlyArtifactsCross, SessionEnds, Spends, Smaller, witnessVars, laneVars,
      workVars
<1>6. CASE SessionOver
  BY <1>6
  DEF SpaceInv, OnlyArtifactsCross, SessionOver, NoneObserved, Survivors, Forgotten, Joined,
      UnchangedBut, witnessVars, laneVars, workVars
<1>7. CASE WitnessReclaims
  BY <1>7
  DEF SpaceInv, OnlyArtifactsCross, WitnessReclaims, Reclaim, Forgotten, UnchangedBut,
      witnessVars, laneVars, workVars
<1>8. CASE Settle
  <2>1. held \in [Entries -> Sources \cup {Given, Built}]
    BY DEF TypeInv, TypeOK, LaneTypeOK, Workspaces
  <2>2. PutBack = held BY <2>1 DEF PutBack, Put, Entries, ArtifactPhaseMayChange
  <2> QED BY <1>8, <2>2 DEF Settle, AfterOwed, SpaceInv, OnlyArtifactsCross, witnessVars
<1>9. CASE Finish
  BY <1>9
  DEF SpaceInv, OnlyArtifactsCross, Finish, UnchangedBut, witnessVars, laneVars, workVars
<1>10. CASE Close
  BY <1>10
  DEF SpaceInv, OnlyArtifactsCross, Close, witnessVars, laneVars, workVars
<1>11. CASE UNCHANGED vars
  BY <1>11, SpaceKept DEF vars, witnessVars, laneVars, workVars
<1>12. CASE (\E c \in Containers : SessionStarts(c))
            \/ (\E c \in Containers : SessionRemoves(c)) \/ Records \/ Recorded \/ Moves
            \/ WitnessLooks \/ WitnessReaps
  BY <1>12, SpaceKept
  DEF SessionStarts, Starts, SessionRemoves, Removes, BuildMayStop, Records, Recorded, Moves,
      WitnessLooks, Look, Inspect, LastLook, New, WitnessReaps, Reap, witnessVars, laneVars,
      workVars
<1>13. CASE PutBackFails
  BY <1>13
  DEF SpaceInv, OnlyArtifactsCross, PutBackFails, UnchangedBut, witnessVars, workVars
<1> QED BY <1>1, <1>2, <1>3, <1>4, <1>5, <1>6, <1>7, <1>8, <1>9, <1>10, <1>11, <1>12, <1>13
    DEF Next, Outside, Harness

\* SpaceInv holds when a cell begins.
LEMMA SpaceInit == Init => SpaceInv
BY DEF Init, SpaceInv, OnlyArtifactsCross

\* Whatever the sessions before it built, a phase starts from what the image ships.
THEOREM PhasesStartClean ==
  ASSUME ~MayStartLate
  PROVE  Spec => []OnlyArtifactsCross
<1>1. TypeInv /\ WatchInv /\ [Next]_vars => WatchInv' BY WatchStep DEF TypeInv, TypeOK
<1>2. TypeInv /\ WatchInv /\ SpaceInv /\ [Next]_vars => SpaceInv' BY SpaceStep
<1>3. SpaceInv => OnlyArtifactsCross BY DEF SpaceInv
<1> QED BY <1>1, <1>2, <1>3, TypeInit, TypeStep, WatchInit, SpaceInit, PTL DEF Spec

-----------------------------------------------------------------------------
(* The record of the last build. *)

\* BuildInv reads nothing but these.
LEMMA BuildKept ==
  ASSUME BuildInv,
         UNCHANGED <<exists, violated, phase, step, code, submission, ws, script, accepted, part,
                     snapshot, lastBuilt>>
  PROVE  BuildInv'
BY DEF BuildInv, GradedIsLastBuilt, Writers

\* Every step keeps BuildInv.
LEMMA BuildStep ==
  ASSUME TypeInv, WatchInv, BuildInv, [Next]_vars
  PROVE  BuildInv'
<1>1. CASE Begin
  BY <1>1
  DEF BuildInv, GradedIsLastBuilt, Writers, Begin, Watch, witnessVars, laneVars, workVars
<1>2. CASE Unadministered
  BY <1>2
  DEF BuildInv, GradedIsLastBuilt, Writers, Unadministered, witnessVars, laneVars, workVars
<1>3. ASSUME NEW c \in Containers, SessionStarts(c) PROVE BuildInv'
  BY <1>3
  DEF BuildInv, GradedIsLastBuilt, Writers, SessionStarts, Starts, witnessVars, laneVars,
      workVars
<1>4. ASSUME NEW c \in Containers, SessionRemoves(c) PROVE BuildInv'
  BY <1>4
  DEF BuildInv, GradedIsLastBuilt, Writers, SessionRemoves, Removes, BuildMayStop, witnessVars,
      laneVars, workVars
<1>5. CASE ToolEdits
  BY <1>5
  DEF BuildInv, GradedIsLastBuilt, Writers, ToolEdits, WatchInv, NobodyWritesBehind,
      witnessVars, laneVars, workVars
<1>6. CASE Compiles
  BY <1>6
  DEF BuildInv, GradedIsLastBuilt, Writers, Compiles, WatchInv, NobodyWritesBehind, TypeInv,
      TypeOK, WorkTypeOK, Workspaces, Entries, witnessVars, laneVars, workVars
<1>7. CASE Records
  BY <1>7
  DEF BuildInv, GradedIsLastBuilt, Writers, Records, witnessVars, laneVars, workVars
<1>8. CASE Recorded
  BY <1>8
  DEF BuildInv, GradedIsLastBuilt, Writers, Recorded, TypeInv, BuildType, witnessVars, laneVars,
      workVars
<1>9. CASE Moves
  BY <1>9
  DEF BuildInv, GradedIsLastBuilt, Writers, Moves, WatchInv, NobodyWritesBehind, witnessVars,
      laneVars, workVars
<1>10. CASE SessionEnds
  BY <1>10
  DEF BuildInv, GradedIsLastBuilt, Writers, SessionEnds, Spends, Smaller, witnessVars, laneVars,
      workVars
<1>11. CASE SessionOver
  BY <1>11
  DEF BuildInv, GradedIsLastBuilt, Writers, SessionOver, NoneObserved, Survivors, Forgotten,
      Joined, UnchangedBut, witnessVars, laneVars, workVars
<1>12. CASE WitnessReaps
  BY <1>12
  DEF BuildInv, GradedIsLastBuilt, Writers, WitnessReaps, Reap, BuildMayStop, witnessVars,
      laneVars, workVars
<1>13. CASE WitnessReclaims
  BY <1>13
  DEF BuildInv, GradedIsLastBuilt, Writers, WitnessReclaims, Reclaim, Forgotten, UnchangedBut,
      witnessVars, laneVars, workVars
<1>14. CASE Settle
  <2>1. script = "idle" BY <1>14 DEF Settle, TypeInv, BuildType, ArtifactPhases
  <2>2. step' = "closing" => phase' # "implement"
    BY <1>14 DEF Settle, AfterOwed, ArtifactPhases
  <2>3. step' # "graded" BY <1>14 DEF Settle, AfterOwed
  <2> QED BY <1>14, <2>1, <2>2, <2>3 DEF Settle, BuildInv, GradedIsLastBuilt, Writers, witnessVars
<1>15. CASE Finish
  <2>1. CASE violated
    BY <1>15, <2>1 DEF Finish, UnchangedBut, BuildInv, GradedIsLastBuilt, Writers, witnessVars
  <2>2. CASE ~violated
    <3>1. script = "idle" BY <1>15, <2>2 DEF Finish, WatchInv, NobodyWritesBehind, BuildInv
    <3>2. ASSUME code = "timeout", lastBuilt # None PROVE ws'["source"] = lastBuilt
      <4>1. snapshot = lastBuilt BY <2>2 DEF BuildInv
      <4>2. snapshot \notin {None, Torn}
        BY <3>2, <4>1, CellAssumption DEF TypeInv, TypeOK, WorkTypeOK
      <4>3. ws' = Put(ExcludedFromSubmission, [e \in Entries |-> snapshot])
        BY <1>15, <3>2, <4>2 DEF Finish, Restored
      <4> QED BY <4>1, <4>3 DEF Put, ExcludedFromSubmission, Entries
    <3> QED BY <1>15, <2>2, <3>1, <3>2
        DEF Finish, UnchangedBut, BuildInv, GradedIsLastBuilt, Writers, witnessVars
  <2> QED BY <2>1, <2>2
<1>16. CASE Close
  BY <1>16
  DEF BuildInv, GradedIsLastBuilt, Writers, Close, witnessVars, laneVars, workVars
<1>17. CASE UNCHANGED vars
  BY <1>17, BuildKept DEF vars, witnessVars, laneVars, workVars
<1>18. CASE WitnessLooks
  BY <1>18, BuildKept
  DEF WitnessLooks, Look, Inspect, LastLook, New, witnessVars, laneVars, workVars
<1>19. CASE PutBackFails
  BY <1>19
  DEF BuildInv, GradedIsLastBuilt, Writers, PutBackFails, UnchangedBut, witnessVars, workVars
<1> QED BY <1>1, <1>2, <1>3, <1>4, <1>5, <1>6, <1>7, <1>8, <1>9, <1>10, <1>11, <1>12, <1>13,
     <1>14, <1>15, <1>16, <1>17, <1>18, <1>19 DEF Next, Outside, Harness

\* BuildInv holds when a cell begins.
LEMMA BuildInit == Init => BuildInv
BY DEF Init, BuildInv, GradedIsLastBuilt

\* Killed at any point of an edit, a compilation or a recording, implement leaves
\* what was built last to be graded.
THEOREM LastBuildIsGraded ==
  ASSUME ~MayStartLate
  PROVE  Spec => []GradedIsLastBuilt
<1>1. TypeInv /\ WatchInv /\ [Next]_vars => WatchInv' BY WatchStep DEF TypeInv, TypeOK
<1>2. TypeInv /\ WatchInv /\ BuildInv /\ [Next]_vars => BuildInv' BY BuildStep
<1>3. BuildInv => GradedIsLastBuilt BY DEF BuildInv
<1> QED BY <1>1, <1>2, <1>3, TypeInit, TypeStep, WatchInit, BuildInit, PTL DEF Spec

-----------------------------------------------------------------------------
(* The budget of implement. *)

\* TimeInv reads nothing but these.
LEMMA TimeKept ==
  ASSUME TimeInv, UNCHANGED <<timeout, phase, step, clock, budget>> PROVE TimeInv'
BY DEF TimeInv, Before, Ceiling

\* Each phase adds its ceiling, and what a kill may take, to what the next one may
\* find spent.
LEMMA BeforeGrows ==
  ASSUME timeout \in Nat
  PROVE  /\ \A p \in Phases : Before(p) \in Nat
         /\ Before("research_compact") = Before("research") + Ceiling["research"] + Grace
         /\ Before("plan") = Before("research_compact") + Ceiling["research_compact"] + Grace
         /\ Before("plan_compact") = Before("plan") + Ceiling["plan"] + Grace
         /\ Before("implement") = Before("plan_compact") + Ceiling["plan_compact"] + Grace
<1> DEFINE C == Ceiling
<1>1. C \in [Phases -> Nat] BY CeilingType
<1> HIDE DEF C
<1>2. /\ C["research"] \in Nat /\ C["research_compact"] \in Nat
      /\ C["plan"] \in Nat /\ C["plan_compact"] \in Nat
  BY <1>1 DEF Phases, ArtifactPhases
<1>3. Before("research") = 0 BY DEF Before
<1>4. Before("research_compact") = C["research"] + Grace BY DEF Before, C
<1>5. Before("plan") = C["research"] + C["research_compact"] + 2 * Grace BY DEF Before, C
<1>6. Before("plan_compact") = C["research"] + C["research_compact"] + C["plan"] + 3 * Grace
  BY DEF Before, C
<1>7. Before("implement") = C["research"] + C["research_compact"] + C["plan"]
                            + C["plan_compact"] + 4 * Grace
  BY DEF Before, C
<1>8. Grace \in Nat BY CellAssumption
<1>9. \A p \in Phases : Before(p) \in Nat
  BY <1>2, <1>3, <1>4, <1>5, <1>6, <1>7, <1>8 DEF Phases, ArtifactPhases
<1>10. Before("research_compact") = Before("research") + C["research"] + Grace
  BY <1>2, <1>3, <1>4, <1>8
<1>11. Before("plan") = Before("research_compact") + C["research_compact"] + Grace
  BY <1>2, <1>4, <1>5, <1>8
<1>12. Before("plan_compact") = Before("plan") + C["plan"] + Grace
  BY <1>2, <1>5, <1>6, <1>8
<1>13. Before("implement") = Before("plan_compact") + C["plan_compact"] + Grace
  BY <1>2, <1>6, <1>7, <1>8
<1> QED BY <1>9, <1>10, <1>11, <1>12, <1>13 DEF C

\* The ceilings are those of the instance budget, which does not change.
LEMMA BeforeKept ==
  ASSUME UNCHANGED timeout
  PROVE  Ceiling' = Ceiling /\ (phase' = phase => Before(phase)' = Before(phase))
BY DEF Ceiling, Before

\* Every step keeps TimeInv.
LEMMA TimeStep ==
  ASSUME TypeInv, TimeInv, [Next]_vars
  PROVE  TimeInv'
<1>1. CASE Begin
  <2>1. timeout \in Nat \ {0} /\ clock \in 0..timeout /\ phase \in Phases
    BY CellAssumption DEF TypeInv, TypeOK, LaneTypeOK
  <2>2. budget' <= Ceiling[phase] /\ budget' >= Smaller(Ceiling[phase], timeout - clock)
    BY <1>1, <2>1, AllowedBounds DEF Begin
  <2>3. Ceiling' = Ceiling /\ Before(phase)' = Before(phase) BY <1>1, BeforeKept DEF Begin
  <2> QED BY <1>1, <2>2, <2>3 DEF Begin, TimeInv, Smaller
<1>2. CASE Unadministered
  BY <1>2
  DEF TimeInv, Unadministered, laneVars
<1>3. CASE SessionEnds
  <2>1. timeout \in Nat /\ clock \in Nat /\ budget \in Nat /\ phase \in Phases /\ Grace \in Nat
    BY CellAssumption DEF TypeInv, TypeOK, LaneTypeOK
  <2>2. Ceiling[phase] \in Nat /\ Before(phase) \in Nat BY <2>1, CeilingType, BeforeGrows
  <2>3. clock <= Before(phase) /\ budget <= Ceiling[phase] BY <1>3 DEF SessionEnds, TimeInv
  <2>4. clock' <= Before(phase) + Ceiling[phase] + Grace
    <3> PICK used \in {0, budget}, extra \in {0, Grace} : Spends(used + extra)
      BY <1>3 DEF SessionEnds
    <3>1. used \in Nat /\ extra \in Nat /\ used <= budget /\ extra <= Grace BY <2>1
    <3>2. clock' <= clock + used + extra BY <2>1, <3>1 DEF Spends, Smaller
    <3>3. clock' \in Nat BY <2>1, <3>1 DEF Spends, Smaller
    <3> QED BY <2>1, <2>2, <2>3, <3>1, <3>2, <3>3
  <2>5. Ceiling' = Ceiling /\ Before(phase)' = Before(phase) /\ phase' = phase
    BY <1>3, BeforeKept DEF SessionEnds
  <2>6. Ceiling[phase]' = Ceiling[phase] BY <2>5
  <2>7. step' = "stopped" BY <1>3 DEF SessionEnds
  <2> QED BY <2>4, <2>5, <2>6, <2>7 DEF TimeInv
<1>4. CASE SessionOver
  <2>1. Ceiling' = Ceiling /\ Before(phase)' = Before(phase)
    BY <1>4, BeforeKept DEF SessionOver, UnchangedBut
  <2> QED BY <1>4, <2>1 DEF SessionOver, UnchangedBut, TimeInv
<1>5. CASE WitnessReclaims
  <2>1. Ceiling' = Ceiling /\ Before(phase)' = Before(phase)
    BY <1>5, BeforeKept DEF WitnessReclaims, UnchangedBut
  <2> QED BY <1>5, <2>1 DEF WitnessReclaims, UnchangedBut, TimeInv
<1>6. CASE Settle
  <2>1. timeout \in Nat /\ clock \in Nat /\ Grace \in Nat
    BY CellAssumption DEF TypeInv, TypeOK, LaneTypeOK
  <2>2. Ceiling \in [Phases -> Nat] BY <2>1, CeilingType
  <2>3. phase \in ArtifactPhases /\ clock <= Before(phase) + Ceiling[phase] + Grace
    BY <1>6 DEF Settle, TimeInv
  <2>4. ASSUME step' = "ready" PROVE clock <= Before(phase')
    <3>1. CASE phase = "research"
      <4>1. phase' \in {"research_compact", "plan"} BY <1>6, <2>4, <3>1 DEF Settle, AfterOwed
      <4>2. Ceiling["research_compact"] \in Nat BY <2>2 DEF Phases, ArtifactPhases
      <4>3. Before("research_compact") \in Nat BY <2>1, BeforeGrows DEF Phases, ArtifactPhases
      <4> QED BY <2>1, <2>3, <3>1, <4>1, <4>2, <4>3, BeforeGrows
    <3>2. CASE phase = "plan"
      <4>1. phase' \in {"plan_compact", "implement"} BY <1>6, <2>4, <3>2 DEF Settle, AfterOwed
      <4>2. Ceiling["plan_compact"] \in Nat BY <2>2 DEF Phases, ArtifactPhases
      <4>3. Before("plan_compact") \in Nat BY <2>1, BeforeGrows DEF Phases, ArtifactPhases
      <4> QED BY <2>1, <2>3, <3>2, <4>1, <4>2, <4>3, BeforeGrows
    <3>3. CASE phase = "research_compact"
      BY <1>6, <2>1, <2>3, <3>3, BeforeGrows DEF Settle
    <3>4. CASE phase = "plan_compact"
      BY <1>6, <2>1, <2>3, <3>4, BeforeGrows DEF Settle
    <3> QED BY <2>3, <3>1, <3>2, <3>3, <3>4 DEF ArtifactPhases
  <2>5. Before(phase)' = Before(phase') BY <1>6, BeforeKept DEF Settle, Before
  <2>6. step' \in {"ready", "closing"} /\ clock' = clock BY <1>6 DEF Settle, AfterOwed
  <2> QED BY <2>4, <2>5, <2>6 DEF TimeInv
<1>7. CASE Finish
  BY <1>7
  DEF TimeInv, Finish, UnchangedBut, laneVars
<1>8. CASE Close
  BY <1>8
  DEF TimeInv, Close, laneVars
<1>9. CASE UNCHANGED vars
  BY <1>9, TimeKept DEF vars, laneVars
<1>10. CASE (\E c \in Containers : SessionStarts(c))
            \/ (\E c \in Containers : SessionRemoves(c)) \/ ToolEdits \/ Compiles \/ Records
            \/ Recorded \/ Moves \/ WitnessLooks \/ WitnessReaps
  BY <1>10, TimeKept
  DEF SessionStarts, SessionRemoves, ToolEdits, Compiles, Records, Recorded, Moves,
      WitnessLooks, WitnessReaps, laneVars
<1>11. CASE PutBackFails
  BY <1>11
  DEF TimeInv, PutBackFails, UnchangedBut
<1> QED BY <1>1, <1>2, <1>3, <1>4, <1>5, <1>6, <1>7, <1>8, <1>9, <1>10, <1>11
    DEF Next, Outside, Harness

\* TimeInv holds when a cell begins.
LEMMA TimeInit == Init => TimeInv
<1> SUFFICES ASSUME Init PROVE TimeInv OBVIOUS
<1>1. timeout \in Nat /\ phase \in Phases BY CellAssumption DEF Init, Phases, ArtifactPhases
<1>2. Before(phase) \in Nat BY <1>1, BeforeGrows
<1> QED BY <1>2 DEF Init, TimeInv

\* What the phases have spent stays within their ceilings.
LEMMA TimeCorrect == Spec => [](TypeInv /\ TimeInv)
<1>1. TypeInv /\ TimeInv /\ [Next]_vars => TimeInv' BY TimeStep
<1> QED BY <1>1, TypeInit, TypeStep, TimeInit, PTL DEF Spec

\* Where the ceilings fit into the budget, the phases before it leave implement
\* its own, less what four kills may take.
THEOREM ShareIsKept == Spec => []ImplementKeepsItsShare
<1>1. TypeInv /\ TimeInv => ImplementKeepsItsShare
  <2> SUFFICES ASSUME TypeInv, TimeInv, phase = "implement", step = "session",
                      Total(Ceiling) <= timeout
               PROVE  budget + 4 * Grace >= Ceiling["implement"]
    BY DEF ImplementKeepsItsShare
  <2> DEFINE C == Ceiling
  <2>1. timeout \in Nat /\ clock \in Nat /\ budget \in Nat /\ Grace \in Nat
    BY CellAssumption DEF TypeInv, TypeOK, LaneTypeOK
  <2>2. C \in [Phases -> Nat] BY <2>1, CeilingType
  <2>3. clock <= Before("implement") /\ budget >= Smaller(C["implement"], timeout - clock)
    BY DEF TimeInv
  <2>4. Before("implement") = C["research"] + C["research_compact"] + C["plan"]
                              + C["plan_compact"] + 4 * Grace
    BY DEF Before
  <2>5. C["research"] + C["research_compact"] + C["plan"] + C["plan_compact"]
        + C["implement"] <= timeout
    BY DEF Total
  <2> HIDE DEF C
  <2>6. /\ C["research"] \in Nat /\ C["research_compact"] \in Nat /\ C["plan"] \in Nat
        /\ C["plan_compact"] \in Nat /\ C["implement"] \in Nat
    BY <2>2 DEF Phases, ArtifactPhases
  <2>7. budget + 4 * Grace >= C["implement"]
    BY <2>1, <2>3, <2>4, <2>5, <2>6 DEF Smaller
  <2> QED BY <2>7 DEF C
<1> QED BY <1>1, TimeCorrect, PTL

-----------------------------------------------------------------------------
(* The treatment. *)

\* A budget that outlasts the four phases is never exhausted when one of them ends.
LEMMA AmpleNotExhausted ==
  ASSUME TypeInv, TimeInv, Ample
  PROVE  /\ step = "settling" /\ phase \in ArtifactPhases => ~Exhausted
         /\ step = "ready" => ~Exhausted
<1> DEFINE B(p) == Before(p)
<1>1. timeout \in Nat /\ clock \in Nat /\ Grace \in Nat /\ phase \in Phases
  BY CellAssumption DEF TypeInv, TypeOK, LaneTypeOK
<1>2. /\ \A p \in Phases : B(p) \in Nat /\ Ceiling[p] \in Nat
      /\ B("research_compact") = B("research") + Ceiling["research"] + Grace
      /\ B("plan") = B("research_compact") + Ceiling["research_compact"] + Grace
      /\ B("plan_compact") = B("plan") + Ceiling["plan"] + Grace
      /\ B("implement") = B("plan_compact") + Ceiling["plan_compact"] + Grace
  BY <1>1, BeforeGrows, CeilingType
<1>3. B("implement") < timeout BY DEF Ample
<1>4. step = "ready" => clock <= B(phase) BY DEF TimeInv
<1>5. step = "settling" /\ phase \in ArtifactPhases => clock <= B(phase) + Ceiling[phase] + Grace
  BY DEF TimeInv
<1> HIDE DEF B
<1>6. B("plan_compact") <= B("implement") /\ B("plan") <= B("plan_compact")
      /\ B("research_compact") <= B("plan") /\ B("research") <= B("research_compact")
  BY <1>1, <1>2 DEF Phases, ArtifactPhases
<1>7. \A p \in Phases : B(p) <= B("implement")
  BY <1>1, <1>2, <1>6 DEF Phases, ArtifactPhases
<1>8. \A p \in ArtifactPhases : B(p) + Ceiling[p] + Grace <= B("implement")
  BY <1>1, <1>2, <1>6 DEF Phases, ArtifactPhases
<1>9. \A p \in ArtifactPhases : B(p) + Ceiling[p] + Grace \in Nat
  BY <1>1, <1>2 DEF Phases
<1> QED BY <1>1, <1>2, <1>3, <1>4, <1>5, <1>7, <1>8, <1>9 DEF Exhausted, Remaining, Phases

\* TreatmentInv reads nothing but these.
LEMMA TreatmentKept ==
  ASSUME TreatmentInv,
         UNCHANGED <<timeout, compaction, invalid, violated, administered, phase, step, handed,
                     artifact>>
  PROVE  TreatmentInv'
BY DEF TreatmentInv, Ample, Before, Ceiling, Owed

\* Every step keeps TreatmentInv.
LEMMA TreatmentStep ==
  ASSUME TypeInv, WatchInv, TimeInv, TreatmentInv, [Next]_vars
  PROVE  TreatmentInv'
<1>1. CASE Begin
  <2>1. Ample' = Ample BY <1>1, BeforeKept DEF Begin, Ample, Before
  <2> QED BY <1>1, <2>1 DEF Begin, Watch, TreatmentInv
<1>2. CASE Unadministered
  BY <1>2 DEF Unadministered, TreatmentInv
<1>3. CASE ToolEdits
  <2>1. Ample' = Ample BY <1>3, BeforeKept DEF ToolEdits, laneVars, Ample, Before
  <2>2. step # "ready" \/ violated BY <1>3 DEF ToolEdits, WatchInv, NobodyWritesBehind
  <2> QED BY <1>3, <2>1, <2>2 DEF ToolEdits, laneVars, witnessVars, TreatmentInv
<1>4. CASE SessionEnds
  <2>1. Ample' = Ample BY <1>4, BeforeKept DEF SessionEnds, Ample, Before
  <2> QED BY <1>4, <2>1 DEF SessionEnds, witnessVars, TreatmentInv
<1>5. CASE SessionOver
  <2>1. Ample' = Ample BY <1>5, BeforeKept DEF SessionOver, UnchangedBut, Ample, Before
  <2>2. violated' = FALSE => violated = FALSE
    BY <1>5 DEF SessionOver, NoneObserved, Survivors, TypeInv, TypeOK, WitnessTypeOK
  <2> QED BY <1>5, <2>1, <2>2 DEF SessionOver, UnchangedBut, TreatmentInv, NoneObserved, Survivors
<1>6. CASE WitnessReclaims
  <2>1. Ample' = Ample BY <1>6, BeforeKept DEF WitnessReclaims, UnchangedBut, Ample, Before
  <2>2. ~violated' => ~violated BY <1>6 DEF WitnessReclaims, Reclaim
  <2>3. step' \in {"settling", "refused"} BY <1>6 DEF WitnessReclaims, UnchangedBut
  <2>4. UNCHANGED <<timeout, compaction, invalid, administered, phase>>
    BY <1>6 DEF WitnessReclaims, UnchangedBut
  <2> QED BY <2>1, <2>2, <2>3, <2>4 DEF TreatmentInv
<1>7. CASE Settle
  <2> SUFFICES ASSUME Ample', ~invalid', ~violated'
               PROVE  /\ administered'
                      /\ phase' \in {"research_compact", "plan_compact"} => compaction'
                      /\ step' = "ready" => Owed'
                      /\ step' \in {"closing", "graded"} => phase' = "implement"
    BY DEF TreatmentInv
  <2>1. Ample BY <1>7, BeforeKept DEF Settle, Ample, Before
  <2>2. ~Exhausted BY <1>7, <2>1, AmpleNotExhausted DEF Settle
  <2>3. Valid /\ ~invalid /\ ~violated BY <1>7 DEF Settle, Reported, witnessVars
  <2>4. administered /\ (phase \in {"research_compact", "plan_compact"} => compaction)
    BY <2>1, <2>3 DEF TreatmentInv
  <2>5. step' = "ready" BY <1>7, <2>3 DEF Settle, AfterOwed
  <2>6. phase' \in {"research_compact", "plan_compact"} => compaction
    BY <1>7, <2>2, <2>3 DEF Settle, AfterOwed
  <2>7. Owed'
    <3> SUFFICES ASSUME phase' \in {"plan", "implement"}
                 PROVE  artifact[handed'] = "valid" /\ (compaction <=> handed' = "compact")
      BY <1>7 DEF Owed, Settle
    <3>1. CASE phase \in {"research", "plan"}
      <4>1. ~compaction /\ handed' = "raw" BY <1>7, <2>2, <2>3, <3>1 DEF Settle, AfterOwed
      <4>2. artifact["raw"] = "valid" BY <2>3, <3>1 DEF Valid, Own
      <4> QED BY <4>1, <4>2
    <3>2. CASE phase \in {"research_compact", "plan_compact"}
      <4>1. artifact["compact"] = "valid" BY <2>3, <3>2 DEF Valid, Own
      <4>2. handed' = "compact" BY <1>7, <3>2, <4>1 DEF Settle, Compacted, Own
      <4> QED BY <2>4, <3>2, <4>1, <4>2
    <3> QED BY <1>7, <3>1, <3>2 DEF Settle, ArtifactPhases
  <2> QED BY <1>7, <2>4, <2>5, <2>6, <2>7 DEF Settle
<1>8. CASE Finish
  <2>1. Ample' = Ample BY <1>8, BeforeKept DEF Finish, UnchangedBut, Ample, Before
  <2> QED BY <1>8, <2>1 DEF Finish, UnchangedBut, witnessVars, TreatmentInv
<1>9. CASE Close
  <2>1. Ample' = Ample BY <1>9, BeforeKept DEF Close, Ample, Before
  <2> QED BY <1>9, <2>1 DEF Close, witnessVars, TreatmentInv
<1>10. CASE UNCHANGED vars
  BY <1>10, TreatmentKept DEF vars, witnessVars, laneVars, workVars
<1>11. CASE (\E c \in Containers : SessionStarts(c))
            \/ (\E c \in Containers : SessionRemoves(c)) \/ Compiles \/ Records \/ Recorded
            \/ Moves \/ WitnessLooks \/ WitnessReaps
  BY <1>11, TreatmentKept
  DEF SessionStarts, Starts, SessionRemoves, Removes, BuildMayStop, Compiles, Records, Recorded,
      Moves, WitnessLooks, Look, Inspect, LastLook, New, WitnessReaps, Reap, witnessVars,
      laneVars, workVars
<1>12. CASE PutBackFails
  <2>1. Ample' = Ample BY <1>12, BeforeKept DEF PutBackFails, UnchangedBut, Ample, Before
  <2> QED BY <1>12, <2>1 DEF PutBackFails, UnchangedBut, witnessVars, workVars, TreatmentInv
<1> QED BY <1>1, <1>2, <1>3, <1>4, <1>5, <1>6, <1>7, <1>8, <1>9, <1>10, <1>11, <1>12
    DEF Next, Outside, Harness

\* TreatmentInv holds when a cell begins.
LEMMA TreatmentInit == Init => TreatmentInv
BY DEF Init, WitnessInit, TreatmentInv, Owed

\* Where the budget outlasts the four phases before implement, a cell that is
\* graded and reported valid was administered the treatment its lane names.
THEOREM ValidResultsAreTheLane ==
  ASSUME ~MayStartLate
  PROVE  Spec => []ValidMeansAdministered
<1>1. TypeInv /\ WatchInv /\ [Next]_vars => WatchInv' BY WatchStep DEF TypeInv, TypeOK
<1>2. TypeInv /\ WatchInv /\ TimeInv /\ TreatmentInv /\ [Next]_vars => TreatmentInv'
  BY TreatmentStep
<1>3. BuildInv /\ TreatmentInv /\ TypeInv => ValidMeansAdministered
  <2> SUFFICES ASSUME BuildInv, TreatmentInv, TypeInv, step = "graded", ~invalid,
                      Total(Ceiling) + 4 * Grace < timeout + Ceiling["implement"]
               PROVE  phase = "implement" /\ administered
    BY DEF ValidMeansAdministered
  <2> DEFINE C == Ceiling
  <2>1. timeout \in Nat /\ Grace \in Nat
    BY CellAssumption DEF TypeInv, TypeOK, LaneTypeOK
  <2>2. C \in [Phases -> Nat] BY <2>1, CeilingType
  <2>3. Before("implement") = C["research"] + C["research_compact"] + C["plan"]
                              + C["plan_compact"] + 4 * Grace
    BY DEF Before
  <2>4. C["research"] + C["research_compact"] + C["plan"] + C["plan_compact"]
        + C["implement"] + 4 * Grace < timeout + C["implement"]
    BY DEF Total
  <2> HIDE DEF C
  <2>5. /\ C["research"] \in Nat /\ C["research_compact"] \in Nat /\ C["plan"] \in Nat
        /\ C["plan_compact"] \in Nat /\ C["implement"] \in Nat
    BY <2>2 DEF Phases, ArtifactPhases
  <2>6. Ample BY <2>1, <2>3, <2>4, <2>5 DEF Ample
  <2> QED BY <2>6 DEF TreatmentInv, BuildInv
<1>4. TypeInv /\ WatchInv /\ BuildInv /\ [Next]_vars => BuildInv' BY BuildStep
<1> QED BY <1>1, <1>2, <1>3, <1>4, TypeInit, TypeStep, TimeCorrect, WatchInit, BuildInit,
           TreatmentInit, PTL DEF Spec
=============================================================================
