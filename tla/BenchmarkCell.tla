---------------------------- MODULE BenchmarkCell ----------------------------
(***************************************************************************)
(* One cleanroom cell of the benchmark: RpiStrategy.execute of               *)
(* automation/benchmark/strategies.py (lanes C, D and E) with the swaps of    *)
(* last_build.py, run and archived by produce_submission of adapter.py, under *)
(* the witness.  Sessions, the containers their tools run in and the harness  *)
(* share one workspace.                                                      *)
(*                                                                           *)
(* Outside .git and .rpi the workspace is the source and the executable; of   *)
(* .rpi the model keeps the artifacts of the phases and the recorded build.   *)
(***************************************************************************)
EXTENDS SandboxWitness

CONSTANTS
  Shape,       \* PHASE_CEILING_SECONDS, in the units of the clock
  Timeouts,    \* the instance budgets to try
  Grace,       \* what a kill, and the harness after it, may take beyond the budget
  Sources,     \* versions of the source
  Given,       \* the source and the executable as the image ships them
  Built,       \* an executable that a session has built
  None,        \* no recorded build
  Torn,        \* an archive that was not finished
  MayStartLate \* a container may start after its session is over, asked of the
               \* daemon before or by what the kill left of the session's group

ArtifactPhases == {"research", "research_compact", "plan", "plan_compact"}
Phases == ArtifactPhases \cup {"implement"}
Entries == {"source", "executable"}
Files == {"raw", "compact"}
Unwritten == [f \in Files |-> "none"]
Shipped == [e \in Entries |-> Given]

ASSUME CellAssumption ==
  /\ Shape \in [Phases -> Nat \ {0}]
  /\ Timeouts \subseteq Nat \ {0} /\ Grace \in Nat
  /\ {Given, Built, None, Torn} \cap Sources = {}
  /\ Given \notin {Built, None, Torn} /\ Built \notin {None, Torn} /\ None # Torn
  /\ MayStartLate \in BOOLEAN

VARIABLES
  compaction,  \* whether the lane compacts: D and E do
  timeout,     \* its instance budget
  phase, step, \* where execute() is
  clock,       \* what was spent of the budget
  budget,      \* what the running session was granted
  code,        \* how the last session ended: "timeout" if it returned 124, or else "ok"
  invalid,     \* the treatment is reported invalid
  handed,      \* research_filename, then plan_filename: "raw" or "compact"
  artifact,    \* what the files of the document in work hold: research's, then plan's
  ws, held,    \* the workspace outside .git and .rpi, and the archive of it
  script,      \* where build.sh is in the container, or "idle"
  accepted,    \* the source that compile.sh last accepted
  part, snapshot,  \* last-build.tar.part and last-build.tar
  lastBuilt,   \* the source of the last build.sh to end well: a history variable
  administered,\* every phase so far was handed what it is owed: a history variable
  submission   \* the source that is graded

laneVars == <<compaction, timeout, phase, step, clock, budget, code, invalid, handed, held,
              administered, submission>>
workVars == <<artifact, ws, script, accepted, part, snapshot, lastBuilt>>
vars == <<exists, witnessVars, laneVars, workVars>>

Init ==
  /\ WitnessInit
  /\ compaction \in BOOLEAN /\ timeout \in Timeouts
  /\ phase = "research" /\ step = "ready" /\ clock = 0 /\ budget = 0 /\ code = "ok"
  /\ invalid = FALSE /\ handed = "raw"
  /\ artifact = Unwritten
  /\ ws = Shipped /\ held = Shipped
  /\ script = "idle" /\ accepted = None /\ part = None /\ snapshot = None /\ lastBuilt = None
  /\ administered = TRUE /\ submission = None

-----------------------------------------------------------------------------
(* _BudgetedRun. *)

Larger(m, n) == IF m > n THEN m ELSE n
Smaller(m, n) == IF m < n THEN m ELSE n

Total(f) == f["research"] + f["research_compact"] + f["plan"] + f["plan_compact"] + f["implement"]

\* Scaled to the instance budget, rounded down, and at least 1.
Ceiling == [p \in Phases |-> Larger((Shape[p] * timeout) \div Total(Shape), 1)]

\* The clock is not read beyond the instance budget.
Spends(seconds) == clock' = Smaller(clock + seconds, timeout)
Remaining == timeout - clock
Exhausted == Remaining = 0

\* Mutant: one fungible remainder.
AllowedAll(p) == Larger(Remaining, 1)

\* The ceiling, and the instance budget as the backstop; a session gets at least 1.
Allowed(p) == Larger(Smaller(Ceiling[p], Remaining), 1)

-----------------------------------------------------------------------------
(* A phase begins. *)

\* What plan and implement are told to read is the file that was validated, and
\* the compacted one in a lane that compacts.
Owed ==
  phase \in {"plan", "implement"} =>
    artifact[handed] = "valid" /\ (compaction <=> handed = "compact")

\* hold() for a phase that owes an artifact, then the session under the witness.
\* Plan begins a document of its own, and implement has none in work.
Begin ==
  /\ step = "ready"
  /\ phase = "plan" => ~Exhausted
  /\ held' = IF phase \in ArtifactPhases THEN ws ELSE held
  /\ budget' = Allowed(phase)
  /\ administered' = (administered /\ Owed)
  /\ step' = "session"
  /\ artifact' = IF phase \in {"plan", "implement"} THEN Unwritten ELSE artifact
  /\ Watch
  /\ UNCHANGED <<compaction, timeout, phase, clock, code, invalid, handed, submission,
                 ws, script, accepted, part, snapshot, lastBuilt>>

\* Nothing is left for plan: the lane stops.
Unadministered ==
  /\ step = "ready" /\ phase = "plan" /\ Exhausted
  /\ invalid' = TRUE
  /\ step' = "closing"
  /\ UNCHANGED <<exists, witnessVars, workVars, compaction, timeout, phase, clock, budget,
                 code, handed, held, administered, submission>>

-----------------------------------------------------------------------------
(* The session, and the containers its tools run in: external. *)

SessionStarts(c) ==
  /\ step = "session" \/ (MayStartLate /\ step \in {"stopped", "reaping"})
  /\ Starts(c)
  /\ UNCHANGED <<witnessVars, laneVars, workVars>>

\* A build stops with its container.
BuildMayStop ==
  /\ script' \in {"idle"} \cup (IF Writers' = {} THEN {} ELSE {script})
  /\ UNCHANGED <<artifact, ws, accepted, part, snapshot, lastBuilt>>

\* Hermes removes a container, or what it asked for before it was killed is done.
SessionRemoves(c) ==
  /\ step \in {"session", "stopped", "reaping"}
  /\ Removes(c)
  /\ BuildMayStop
  /\ UNCHANGED <<witnessVars, laneVars>>

\* The artifact a phase owes, and, in a compaction, the one it compacts.
Own == IF phase \in {"research", "plan"} THEN "raw" ELSE "compact"
Open ==
  CASE phase \in {"research", "plan"} -> {"raw"}
    [] phase = "implement"            -> {}
    [] OTHER                          -> Files

\* A tool that is not building edits the workspace, or the artifact of its phase;
\* a compaction may spoil the artifact it is to compact.
ToolEdits ==
  /\ Writers # {} /\ script = "idle"
  /\ \/ \E s \in Sources : ws' = [ws EXCEPT !["source"] = s] /\ UNCHANGED artifact
     \/ ws["source"] # Given /\ ws' = [ws EXCEPT !["executable"] = Built] /\ UNCHANGED artifact
     \/ \E f \in Open, a \in {"incomplete", "valid"} :
          artifact' = [artifact EXCEPT ![f] = a] /\ UNCHANGED ws
  /\ UNCHANGED <<exists, witnessVars, laneVars, script, accepted, part, snapshot, lastBuilt>>

\* build.sh, which install() writes before implement: compile.sh,
Compiles ==
  /\ Writers # {} /\ phase = "implement" /\ script = "idle"
  /\ ws["source"] # Given
  /\ accepted' = ws["source"]
  /\ ws' = [ws EXCEPT !["executable"] = Built]
  /\ script' = "compiled"
  /\ UNCHANGED <<exists, witnessVars, laneVars, artifact, part, snapshot, lastBuilt>>

\* Mutant: tar writes the record itself.
RecordsInPlace ==
  /\ Writers # {} /\ script = "compiled"
  /\ part' = Torn /\ snapshot' = Torn
  /\ script' = "recording"
  /\ UNCHANGED <<exists, witnessVars, laneVars, artifact, ws, accepted, lastBuilt>>

\* tar into a file of its own,
Records ==
  /\ Writers # {} /\ script = "compiled"
  /\ part' = Torn
  /\ script' = "recording"
  /\ UNCHANGED <<exists, witnessVars, laneVars, artifact, ws, accepted, snapshot, lastBuilt>>

Recorded ==
  /\ Writers # {} /\ script = "recording"
  /\ part' = ws["source"]
  /\ script' = "recorded"
  /\ UNCHANGED <<exists, witnessVars, laneVars, artifact, ws, accepted, snapshot, lastBuilt>>

\* and mv.
Moves ==
  /\ Writers # {} /\ script = "recorded"
  /\ snapshot' = part /\ part' = None
  /\ lastBuilt' = accepted /\ accepted' = None
  /\ script' = "idle"
  /\ UNCHANGED <<exists, witnessVars, laneVars, artifact, ws>>

\* It ends by itself at any time, or is killed after its budget: its group gets a
\* SIGTERM, and a SIGKILL only if the leader outlives the grace, so some of it may
\* live on.  124 is also what a session that ends by itself may return.
SessionEnds ==
  /\ step = "session"
  /\ \E used \in {0, budget}, extra \in {0, Grace} : Spends(used + extra)
  /\ code' \in {"ok", "timeout"}
  /\ step' = "stopped"
  /\ UNCHANGED <<exists, witnessVars, workVars, compaction, timeout, phase, budget, invalid,
                 handed, held, administered, submission>>

-----------------------------------------------------------------------------
(* The witness, while the session runs and after it. *)

WitnessLooks ==
  /\ step \in {"session", "stopped"}
  /\ Look \/ (\E c \in listed : Inspect(c)) \/ (step = "stopped" /\ LastLook)
  /\ UNCHANGED <<laneVars, workVars>>

UnchangedBut(next) ==
  /\ step' = next
  /\ UNCHANGED <<compaction, timeout, phase, clock, budget, code, invalid, handed,
                 held, administered, submission>>

SessionOver ==
  /\ step = "stopped"
  /\ \/ NoneObserved /\ UnchangedBut("settling")
     \/ Survivors /\ UnchangedBut("reaping")
  /\ UNCHANGED workVars

WitnessReaps ==
  /\ step = "reaping"
  /\ \E c \in leaked : Reap(c)
  /\ BuildMayStop
  /\ UNCHANGED laneVars

\* The chown may fail, which ends the cell.
WitnessReclaims ==
  /\ step = "reaping"
  /\ Reclaim
  /\ UnchangedBut("settling") \/ UnchangedBut("refused")
  /\ UNCHANGED workVars

-----------------------------------------------------------------------------
(* execute() goes on. *)

\* put_back() and restore() leave these alone.
ArtifactPhaseMayChange == {".git", ".rpi"}
ExcludedFromSubmission == {".git", ".rpi", "executable"}

Put(kept, source) == [e \in Entries |-> IF e \in kept THEN ws[e] ELSE source[e]]

\* Mutant: an artifact phase may change what a submission leaves out.
PutBackSubmitted == Put(ExcludedFromSubmission, held)

PutBack == Put(ArtifactPhaseMayChange, held)

Valid == artifact[Own] = "valid"

\* Mutant: an artifact that parses is a valid one.
ReportedIfMissing == invalid \/ artifact[Own] = "none"

\* A required artifact that did not arrive, or does not validate, is reported.
Reported == invalid \/ ~Valid

\* After research and plan.  In a lane that compacts, their compaction follows,
\* unless nothing is left of the budget.
AfterOwed(compact, next) ==
  /\ phase' = IF ~Valid THEN phase ELSE IF compaction /\ ~Exhausted THEN compact ELSE next
  /\ step' = IF Valid THEN "ready" ELSE "closing"
  /\ handed' = "raw"

\* A compaction that does not parse falls back to the raw artifact; one that
\* parses is handed on, valid or not.
Compacted == IF artifact[Own] = "none" THEN "raw" ELSE "compact"

Settle ==
  /\ step = "settling"
  /\ phase \in ArtifactPhases
  /\ ws' = PutBack
  /\ invalid' = Reported
  /\ \/ phase = "research" /\ AfterOwed("research_compact", "plan")
     \/ phase = "plan" /\ AfterOwed("plan_compact", "implement")
     \/ /\ phase \in {"research_compact", "plan_compact"}
        /\ handed' = Compacted
        /\ phase' = IF phase = "research_compact" THEN "plan" ELSE "implement"
        /\ step' = "ready"
  /\ budget' = 0 /\ code' = "ok"
  /\ UNCHANGED <<exists, witnessVars, compaction, timeout, clock, held, administered,
                 submission, artifact, script, accepted, part, snapshot, lastBuilt>>

\* What was held cannot be put back, which ends the cell.  A file that was only
\* rewritten counts as changed, so the workspace may look as it was held.
PutBackFails ==
  /\ step = "settling"
  /\ phase \in ArtifactPhases
  /\ UnchangedBut("refused")
  /\ UNCHANGED <<exists, witnessVars, workVars>>

\* Mutant: the record is unpacked without having been read first.
RestoredUnread ==
  IF code = "timeout" THEN Put(ExcludedFromSubmission, [e \in Entries |-> snapshot]) ELSE ws

\* After implement: a record that is missing or cannot be read leaves the
\* workspace as it is.
Restored ==
  IF code = "timeout" /\ snapshot \notin {None, Torn}
  THEN Put(ExcludedFromSubmission, [e \in Entries |-> snapshot]) ELSE ws

Finish ==
  /\ step = "settling"
  /\ phase = "implement"
  /\ ws' = Restored
  /\ UnchangedBut("closing")
  /\ UNCHANGED <<exists, witnessVars, artifact, script, accepted, part, snapshot, lastBuilt>>

\* produce_submission(): a cell with violations is refused, any other is archived.
Close ==
  /\ step = "closing"
  /\ IF violated THEN step' = "refused" /\ UNCHANGED submission
                 ELSE step' = "graded" /\ submission' = ws["source"]
  /\ UNCHANGED <<exists, witnessVars, workVars, compaction, timeout, phase, clock, budget,
                 code, invalid, handed, held, administered>>

-----------------------------------------------------------------------------
Outside ==
  \/ \E c \in Containers : SessionStarts(c) \/ SessionRemoves(c)
  \/ ToolEdits \/ Compiles \/ Records \/ Recorded \/ Moves
  \/ SessionEnds

Harness ==
  \/ Begin \/ Unadministered
  \/ WitnessLooks \/ SessionOver \/ WitnessReaps \/ WitnessReclaims
  \/ Settle \/ PutBackFails \/ Finish \/ Close

Next == Outside \/ Harness

Spec == Init /\ [][Next]_vars

-----------------------------------------------------------------------------
(* Properties. *)

Workspaces == {w \in [Entries -> Sources \cup {Given, Built}] : w["source"] # Built}

LaneTypeOK ==
  /\ compaction \in BOOLEAN /\ timeout \in Timeouts
  /\ phase \in Phases
  /\ step \in {"ready", "session", "stopped", "reaping", "settling", "closing",
               "graded", "refused"}
  /\ clock \in 0..timeout /\ budget \in 0..timeout /\ code \in {"ok", "timeout"}
  /\ invalid \in BOOLEAN /\ administered \in BOOLEAN
  /\ handed \in Files
  /\ held \in Workspaces
  /\ submission \in Sources \cup {None, Given}

WorkTypeOK ==
  /\ artifact \in [Files -> {"none", "incomplete", "valid"}]
  /\ ws \in Workspaces
  /\ script \in {"idle", "compiled", "recording", "recorded"}
  /\ accepted \in Sources \cup {None} /\ lastBuilt \in Sources \cup {None}
  /\ part \in Sources \cup {None, Torn} /\ snapshot \in Sources \cup {None, Torn}

TypeOK == WitnessTypeOK /\ LaneTypeOK /\ WorkTypeOK

\* While the harness puts the workspace back, restores or archives it, no
\* container of a session can still write to it, unless the cell will be refused
\* ("now that no container of this session can write to it").
NobodyWritesBehind ==
  step \in {"settling", "ready", "closing", "graded"} => Writers = {} \/ violated

\* Nothing crosses from one phase to the next but artifacts: every phase starts
\* in the workspace the image ships ("in runs 40784747377 and 41021760018, a
\* finished program").
OnlyArtifactsCross ==
  step = "ready" => violated \/ ws = Shipped

\* A cell whose implement was killed, at any point of an edit, a compilation or a
\* recording, is graded on the source of the last build.sh that ended well.
GradedIsLastBuilt ==
  step = "graded" /\ phase = "implement" /\ code = "timeout" /\ lastBuilt # None =>
    submission = lastBuilt

\* A result that is reported valid is of the treatment its lane names: plan and
\* implement were each told to read a valid artifact, the compacted one in a lane
\* that compacts ("a D cell whose compaction never landed is lane C under D's name").
ValidMeansAdministered ==
  step = "graded" /\ ~invalid /\ Total(Ceiling) + 4 * Grace < timeout + Ceiling["implement"] =>
    phase = "implement" /\ administered

\* However long the phases before it run, implement is granted its ceiling, less
\* what four of them took beyond their budgets.
ImplementKeepsItsShare ==
  phase = "implement" /\ step = "session" /\ Total(Ceiling) <= timeout =>
    budget + 4 * Grace >= Ceiling["implement"]
=============================================================================
