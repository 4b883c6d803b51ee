----------------------- MODULE KanbanSupervisorProofs -----------------------
(***************************************************************************)
(* Proofs about the supervisor on a Kanban board, for any board, any number  *)
(* of supervisors, any claim TTL and any run limit: what it is given to run, *)
(* what it goes on from, whose runs it ends, and how long its claim stands.  *)
(***************************************************************************)
EXTENDS KanbanSupervisor, SliceSelectionProofs, FiniteSetTheorems

-----------------------------------------------------------------------------
(* The inductive invariants. *)

\* The board's own bookkeeping: a task runs exactly while it has a current run,
\* that run has not ended, no two tasks share one, and run ids are given out in
\* order, so that the next one is new.
BoardInv ==
  /\ \A t \in Tasks : status[t] = "running" <=> run[t] # 0
  /\ \A t \in Tasks : run[t] # 0 => outcome[run[t]] = "running"
  /\ \A s, t \in Tasks : run[s] # 0 /\ run[s] = run[t] => s = t
  /\ \E n \in 0..MaxRuns : \A r \in Runs : outcome[r] = "none" <=> r > n

\* What an invocation has in hand between two steps.
ChoiceInv ==
  \A p \in Supervisors :
    /\ phase[p] \notin {"idle", "loop"} => current[p] \in Slices
    /\ phase[p] \in RunPhases \cup {"verifying"} => held[p] \in Runs

BaseInv == TypeOK /\ BoardInv /\ ChoiceInv

\* A task that is ready although a parent is open got there otherwise than
\* through hermes.
Clear(t) == status[t] = "ready" => ~Open(status, parents, t)

\* From its selection to its claim a slice is not ready behind an open parent,
\* and the parents the queue knows stay the ones the board has.
ApprovalInv ==
  /\ \A p \in Supervisors :
       phase[p] \in {"selected", "checked", "claiming"} => Clear(current[p])
  /\ \A s \in Slices : parents[s] \cap Slices = DependsOn[s]

\* A verdict that lets the chain go on is a verdict of done, and the run behind
\* a chain that went on has ended as that verdict asks.  Between invocations
\* there is no chain.
ChainInv ==
  \A p \in Supervisors :
    /\ phase[p] = "idle" => runs[p] = 0
    /\ phase[p] \in {"recording", "writing", "verifying"} /\ Continues(verdict[p]) =>
         verdict[p].status = "done"
    /\ phase[p] = "loop" /\ runs[p] > 0 =>
         /\ held[p] \in Runs
         /\ outcome[held[p]] = Result(verdict[p].status)
         /\ verdict[p].status = "done"

\* A claim that is being read back was made by this supervisor and has just
\* begun; a run that is held was claimed by its holder.
OwnInv ==
  \A p \in Supervisors :
    /\ held[p] # 0 => outcome[held[p]] # "none" /\ claimant[held[p]] = p
    /\ phase[p] = "claimed" =>
         /\ status[current[p]] = "running"
         /\ claimant[run[current[p]]] = p
         /\ age[current[p]] = 0

\* A run that is held is the task's current one, and the claim is exactly as
\* old as the agent's time and the replays' time together.
OutlastInv ==
  \A p \in Supervisors :
    Holds(p) =>
      /\ status[current[p]] = "running"
      /\ run[current[p]] = held[p]
      /\ age[current[p]] = elapsed[p]
      /\ elapsed[p] <= HandoffTimeout + ReplayTicks
      /\ phase[p] = "running" => elapsed[p] <= HandoffTimeout
-----------------------------------------------------------------------------
(* Lemmas about the board. *)

\* Settling moves only waiting tasks, to ready, and placed ready ones, to wait.
LEMMA SettledEffect ==
  ASSUME NEW st \in [Tasks -> TaskStatuses], NEW links, NEW placed
  PROVE  /\ Settled(st, links, placed) \in [Tasks -> TaskStatuses]
         /\ \A t \in Tasks : st[t] \notin {"todo", "ready"} =>
              Settled(st, links, placed)[t] = st[t]
         /\ \A t \in Tasks : st[t] \in {"todo", "ready"} =>
              Settled(st, links, placed)[t] \in {"todo", "ready"}
         /\ \A t \in Tasks \ placed : st[t] = "ready" =>
              Settled(st, links, placed)[t] = "ready"
BY DEF Settled, TaskStatuses

\* What settling leaves ready is behind no open parent, unless it was there
\* before and is not placed.
LEMMA SettledClear ==
  ASSUME NEW st \in [Tasks -> TaskStatuses], NEW links \in [Tasks -> SUBSET Tasks],
         NEW placed, NEW t \in Tasks,
         Settled(st, links, placed)[t] = "ready",
         t \in placed \/ st[t] # "ready" \/ ~Open(st, links, t)
  PROVE  ~Open(Settled(st, links, placed), links, t)
<1>1. ~Open(st, links, t)
  BY DEF Settled
<1>2. \A p \in Tasks : st[p] \in Terminal => Settled(st, links, placed)[p] = st[p]
  BY SettledEffect DEF Terminal
<1> QED
  BY <1>1, <1>2 DEF Open

\* While run ids are given out in order, the next one is new, and is the one
\* after the last.
LEMMA NextRunIsNew ==
  ASSUME NEW n \in 0..MaxRuns, \A r \in Runs : outcome[r] = "none" <=> r > n
  PROVE  NextRun = n + 1
<1>1. MaxRuns \in Nat
  BY BoardAssumption
<1>2. {r \in Runs : outcome[r] # "none"} = 1..n
  BY <1>1 DEF Runs
<1>3. Cardinality(1..n) = n
  BY <1>1, FS_Interval
<1>4. NextRun = 1 + Cardinality(1..n)
  BY <1>2, Zenon DEF NextRun
<1> QED
  BY <1>1, <1>3, <1>4

\* A claim gives the task a new run and touches no other task and no other run.
LEMMA ClaimEffect ==
  ASSUME BoardTypeOK, BoardInv, NEW t \in Tasks, NEW who, HermesClaim(t, who)
  PROVE  /\ status[t] = "ready" /\ outcome[NextRun] = "none" /\ NextRun \in Runs
         /\ status' = [status EXCEPT ![t] = "running"]
         /\ run' = [run EXCEPT ![t] = NextRun]
         /\ outcome' = [outcome EXCEPT ![NextRun] = "running"]
         /\ claimant' = [claimant EXCEPT ![NextRun] = who]
         /\ age' = [age EXCEPT ![t] = 0]
         /\ UNCHANGED <<parents, assigned>>
         /\ BoardInv'
<1>1. PICK n \in 0..MaxRuns : \A r \in Runs : outcome[r] = "none" <=> r > n
  BY DEF BoardInv
<1>2. MaxRuns \in Nat /\ NextRun = n + 1 /\ NextRun \in Runs
  BY <1>1, NextRunIsNew, BoardAssumption DEF HermesClaim
<1>3. NextRun # 0 /\ outcome[NextRun] = "none"
  BY <1>1, <1>2 DEF Runs
<1>4. /\ status' = [status EXCEPT ![t] = "running"]
      /\ run' = [run EXCEPT ![t] = NextRun]
      /\ outcome' = [outcome EXCEPT ![NextRun] = "running"]
  BY DEF HermesClaim
<1> HIDE DEF NextRun
<1>5. \A s \in Tasks : status'[s] = "running" <=> run'[s] # 0
  BY <1>3, <1>4 DEF BoardTypeOK, BoardInv
<1>6. \A s \in Tasks : run'[s] # 0 => outcome'[run'[s]] = "running"
  BY <1>2, <1>3, <1>4 DEF BoardTypeOK, BoardInv
<1>7. \A s, u \in Tasks : run'[s] # 0 /\ run'[s] = run'[u] => s = u
  BY <1>3, <1>4 DEF BoardTypeOK, BoardInv
<1>8. \A r \in Runs : outcome'[r] = "none" <=> r > n + 1
  BY <1>1, <1>2, <1>4 DEF BoardTypeOK, Runs
<1>9. n + 1 \in 0..MaxRuns
  BY <1>2 DEF Runs
<1>10. BoardInv'
  BY <1>5, <1>6, <1>7, <1>8, <1>9 DEF BoardInv, Runs
<1> QED
  BY <1>2, <1>3, <1>10 DEF HermesClaim

\* A column a run may end in, and how the run then ended.
Columns == {"ready", "review", "blocked", "done"}
Endings == {"review_requested", "blocked", "reclaimed", "completed"}

\* Ending a run frees its task; no other running task and no other run changes.
LEMMA EndEffect ==
  ASSUME BoardTypeOK, BoardInv, NEW t \in Tasks, NEW column \in Columns,
         NEW result \in Endings, EndRun(t, column, result)
  PROVE  /\ status[t] = "running" /\ run[t] \in Runs /\ outcome[run[t]] = "running"
         /\ status' \in [Tasks -> TaskStatuses]
         /\ \A s \in Tasks \ {t} : status[s] # "todo" => status'[s] = status[s]
         /\ \A s \in Tasks : status'[s] = "running" <=> s # t /\ status[s] = "running"
         /\ run' = [run EXCEPT ![t] = 0]
         /\ outcome' = [outcome EXCEPT ![run[t]] = result]
         /\ age' = [age EXCEPT ![t] = 0]
         /\ UNCHANGED <<parents, assigned, claimant>>
         /\ BoardInv'
<1> DEFINE moved == [status EXCEPT ![t] = column]
<1>1. moved \in [Tasks -> TaskStatuses] /\ column \notin {"running", "todo"}
  BY DEF BoardTypeOK, Columns, TaskStatuses
<1>2. status' = Settled(moved, parents, {t})
  BY DEF EndRun, Place
<1>3. /\ status[t] = "running" /\ run[t] # 0 /\ run[t] \in Runs
      /\ outcome[run[t]] = "running"
  BY BoardAssumption DEF EndRun, BoardInv, BoardTypeOK, Runs
<1>4. /\ run' = [run EXCEPT ![t] = 0]
      /\ outcome' = [outcome EXCEPT ![run[t]] = result]
      /\ age' = [age EXCEPT ![t] = 0]
      /\ UNCHANGED <<parents, assigned, claimant>>
  BY DEF EndRun
<1>5. \A s \in Tasks \ {t} : moved[s] = status[s]
  BY DEF BoardTypeOK
<1>6. moved[t] = column
  BY DEF BoardTypeOK
<1> HIDE DEF moved
<1>7. /\ status' \in [Tasks -> TaskStatuses]
      /\ \A s \in Tasks \ {t} : status[s] # "todo" => status'[s] = status[s]
      /\ status'[t] \in {column, "todo", "ready"}
      /\ \A s \in Tasks \ {t} : status[s] = "todo" => status'[s] \in {"todo", "ready"}
  BY <1>1, <1>2, <1>5, <1>6, SettledEffect
<1>8. \A s \in Tasks : status'[s] = "running" <=> s # t /\ status[s] = "running"
  BY <1>1, <1>7
<1>9. /\ \A s \in Tasks : status'[s] = "running" <=> run'[s] # 0
      /\ \A s, u \in Tasks : run'[s] # 0 /\ run'[s] = run'[u] => s = u
  BY <1>3, <1>4, <1>8 DEF BoardTypeOK, BoardInv
<1>10. \A s \in Tasks : run'[s] # 0 => outcome'[run'[s]] = "running"
  BY <1>3, <1>4 DEF BoardTypeOK, BoardInv, Runs
<1>11. \A r \in Runs : outcome'[r] = "none" <=> outcome[r] = "none"
  BY <1>3, <1>4 DEF BoardTypeOK, Endings
<1>12. BoardInv'
  BY <1>9, <1>10, <1>11 DEF BoardInv, Runs
<1> QED
  BY <1>3, <1>4, <1>7, <1>8, <1>12

\* A person's move leaves running tasks and terminal ones alone.
LEMMA MoveEffect ==
  ASSUME BoardTypeOK, BoardInv, NEW t \in Tasks, PersonMoves(t)
  PROVE  /\ status' \in [Tasks -> TaskStatuses]
         /\ \A s \in Tasks : status'[s] = "running" <=> status[s] = "running"
         /\ \A s \in Tasks : status[s] \in Terminal => status'[s] \in Terminal
         /\ UNCHANGED <<parents, assigned, run, outcome, claimant, age>>
         /\ BoardInv'
<1>1. PICK move \in {<<"review", "done">>, <<"review", "ready">>, <<"blocked", "ready">>,
                     <<"ready", "blocked">>, <<"scheduled", "ready">>,
                     <<"blocked", "archived">>} :
        /\ status[t] = move[1]
        /\ status' = Settled([status EXCEPT ![t] = move[2]], parents, {t})
  BY DEF PersonMoves, Place
<1> DEFINE moved == [status EXCEPT ![t] = move[2]]
<1>2. /\ status[t] \in {"review", "blocked", "ready", "scheduled"}
      /\ move[2] \in {"done", "ready", "blocked", "archived"}
  BY <1>1
<1>3. /\ moved \in [Tasks -> TaskStatuses]
      /\ moved[t] = move[2]
      /\ \A s \in Tasks \ {t} : moved[s] = status[s]
  BY <1>2 DEF BoardTypeOK, TaskStatuses
<1>4. status' = Settled(moved, parents, {t})
  BY <1>1
<1> HIDE DEF moved
<1>5. /\ status' \in [Tasks -> TaskStatuses]
      /\ status'[t] \in {move[2], "todo", "ready"}
      /\ move[2] # "ready" => status'[t] = move[2]
      /\ \A s \in Tasks \ {t} : status[s] # "todo" => status'[s] = status[s]
      /\ \A s \in Tasks \ {t} : status[s] = "todo" => status'[s] \in {"todo", "ready"}
  BY <1>2, <1>3, <1>4, SettledEffect
<1>6. \A s \in Tasks : status'[s] = "running" <=> status[s] = "running"
  BY <1>2, <1>5
<1>7. \A s \in Tasks : status[s] \in Terminal => status'[s] \in Terminal
  BY <1>2, <1>5 DEF Terminal
<1>8. UNCHANGED <<parents, assigned, run, outcome, claimant, age>>
  BY DEF PersonMoves
<1>9. BoardInv'
  BY <1>6, <1>8 DEF BoardInv, Runs
<1> QED
  BY <1>5, <1>6, <1>7, <1>8, <1>9

\* So does a link that is made or cut.
LEMMA LinkEffect ==
  ASSUME BoardTypeOK, BoardInv, NEW t \in Tasks, NEW d \in Tasks, PersonLinks(t, d)
  PROVE  /\ status' \in [Tasks -> TaskStatuses]
         /\ parents' \in [Tasks -> SUBSET Tasks]
         /\ \A s \in Tasks : status'[s] = "running" <=> status[s] = "running"
         /\ \A s \in Tasks : status[s] \in Terminal => status'[s] \in Terminal
         /\ UNCHANGED <<assigned, run, outcome, claimant, age>>
         /\ BoardInv'
<1>1. /\ parents' = [parents EXCEPT ![t] = IF d \in @ THEN @ \ {d} ELSE @ \cup {d}]
      /\ status' = Settled(status, parents', IF d \in parents[t] THEN {} ELSE {t})
      /\ UNCHANGED <<assigned, run, outcome, claimant, age>>
  BY DEF PersonLinks
<1>2. parents' \in [Tasks -> SUBSET Tasks] /\ status \in [Tasks -> TaskStatuses]
  BY <1>1 DEF BoardTypeOK
<1>3. /\ status' \in [Tasks -> TaskStatuses]
      /\ \A s \in Tasks : status[s] \notin {"todo", "ready"} => status'[s] = status[s]
      /\ \A s \in Tasks : status[s] \in {"todo", "ready"} => status'[s] \in {"todo", "ready"}
  BY <1>1, <1>2, SettledEffect
<1>4. /\ \A s \in Tasks : status'[s] = "running" <=> status[s] = "running"
      /\ \A s \in Tasks : status[s] \in Terminal => status'[s] \in Terminal
  BY <1>3 DEF Terminal
<1>5. BoardInv'
  BY <1>1, <1>4 DEF BoardInv, Runs
<1> QED
  BY <1>1, <1>2, <1>3, <1>4, <1>5

-----------------------------------------------------------------------------
(* Every step, seen from the board. *)

\* The clock: nothing but the ages and the agents' times changes.
ClockOrAssignment ==
  /\ UNCHANGED <<status, parents, run, outcome, claimant>>
  /\ assigned' \subseteq Tasks
  /\ age' \in [Tasks -> 0..TTL]

BoardStep ==
  \/ \E t \in Tasks, who \in Workers \cup {Gateway} : HermesClaim(t, who)
  \/ \E t \in Tasks, column \in Columns, result \in Endings : EndRun(t, column, result)
  \/ \E t \in Tasks : PersonMoves(t)
  \/ \E t, d \in Tasks : PersonLinks(t, d)
  \/ ClockOrAssignment

\* A supervisor that writes to the board makes a claim or ends a run.
LEMMA SupervisorBoardStep ==
  ASSUME BaseInv, NEW p \in Supervisors, Start(p) \/ Progress(p) \/ Crash(p)
  PROVE  BoardStep
<1>1. CASE ClaimCommand(p) \/ RecordCommand(p)
  <2>1. current[p] \in Tasks /\ p \in Workers
    BY <1>1, KanbanAssumption DEF BaseInv, ChoiceInv, ClaimCommand, RecordCommand, RunPhases
  <2>2. CASE HermesClaim(current[p], p)
    BY <2>1, <2>2 DEF BoardStep
  <2>3. CASE HermesRecords(p)
    <3>1. /\ Column(verdict[p].status) \in Columns
          /\ Result(verdict[p].status) \in Endings
      BY DEF Column, Result, Columns, Endings
    <3>2. EndRun(current[p], Column(verdict[p].status), Result(verdict[p].status))
      BY <2>3 DEF HermesRecords, HermesEnds
    <3> QED
      BY <2>1, <3>1, <3>2 DEF BoardStep
  <2>4. CASE UNCHANGED boardVars
    BY <2>4 DEF BoardStep, ClockOrAssignment, boardVars, BaseInv, TypeOK, BoardTypeOK
  <2> QED
    BY <1>1, <2>2, <2>3, <2>4 DEF ClaimCommand, RecordCommand
<1>2. ~ClaimCommand(p) /\ ~RecordCommand(p) => UNCHANGED boardVars
  BY DEF Start, Progress, Crash, Select, SelectStops, ClaimCheckBoard, ClaimCheckTask, ClaimReadBack,
         AgentReturns, RunFails, RunEscapes, Judge, RecordCheck, RecordVerify
<1>3. UNCHANGED boardVars => BoardStep
  BY DEF BoardStep, ClockOrAssignment, boardVars, BaseInv, TypeOK, BoardTypeOK
<1> QED
  BY <1>1, <1>2, <1>3

LEMMA AnyBoardStep == BaseInv /\ [Next]_vars => BoardStep
<1> SUFFICES ASSUME BaseInv, [Next]_vars PROVE BoardStep
  OBVIOUS
<1>1. ASSUME NEW p \in Supervisors, Start(p) \/ Progress(p) \/ Crash(p)
      PROVE  BoardStep
  BY <1>1, SupervisorBoardStep
<1>2. ASSUME NEW t \in Tasks, Lapse(t) PROVE BoardStep
  BY <1>2 DEF Lapse, Expire, BoardStep, Columns, Endings
<1>3. ASSUME NEW t \in Tasks, PersonActs(t) PROVE BoardStep
  <2>1. CASE PersonAssigns(t)
    BY <2>1 DEF PersonAssigns, BoardStep, ClockOrAssignment, BaseInv, TypeOK, BoardTypeOK
  <2>2. CASE PersonInterrupts(t)
    BY <2>2 DEF PersonInterrupts, BoardStep, Columns, Endings
  <2> QED
    BY <1>3, <2>1, <2>2 DEF PersonActs, BoardStep
<1>4. ASSUME NEW t \in Tasks, GatewayActs(t) PROVE BoardStep
  <2>1. CASE GatewayEnds(t)
    BY <2>1 DEF GatewayEnds, BoardStep, Columns, Endings
  <2> QED
    BY <1>4, <2>1 DEF GatewayActs, GatewayClaims, BoardStep
<1>5. CASE Tick
  BY <1>5, BoardAssumption
  DEF Tick, ClaimsAge, BoardStep, ClockOrAssignment, BaseInv, TypeOK, BoardTypeOK
<1>6. CASE UNCHANGED vars
  BY <1>6 DEF vars, boardVars, BoardStep, ClockOrAssignment, BaseInv, TypeOK, BoardTypeOK
<1> QED
  BY <1>1, <1>2, <1>3, <1>4, <1>5, <1>6 DEF Next

\* What no step of anyone may do to the board: reopen what is done or archived,
\* change how a run ended, or give a run to someone else.
LEMMA BoardStepEffect ==
  ASSUME BaseInv, BoardStep
  PROVE  /\ BoardTypeOK' /\ BoardInv'
         /\ \A t \in Tasks : status[t] \in Terminal => status'[t] \in Terminal
         /\ \A r \in Runs : outcome[r] \notin {"none", "running"} => outcome'[r] = outcome[r]
         /\ \A r \in Runs : outcome[r] # "none" =>
              outcome'[r] # "none" /\ claimant'[r] = claimant[r]
<1> USE DEF BaseInv, TypeOK
<1>1. ASSUME NEW t \in Tasks, NEW who \in Workers \cup {Gateway}, HermesClaim(t, who)
      PROVE  /\ BoardTypeOK' /\ BoardInv'
             /\ \A s \in Tasks : status[s] \in Terminal => status'[s] \in Terminal
             /\ \A r \in Runs : outcome[r] # "none" =>
                  outcome'[r] = outcome[r] /\ claimant'[r] = claimant[r]
  <2>1. /\ status[t] = "ready" /\ outcome[NextRun] = "none" /\ NextRun \in Runs
        /\ status' = [status EXCEPT ![t] = "running"]
        /\ run' = [run EXCEPT ![t] = NextRun]
        /\ outcome' = [outcome EXCEPT ![NextRun] = "running"]
        /\ claimant' = [claimant EXCEPT ![NextRun] = who]
        /\ age' = [age EXCEPT ![t] = 0]
        /\ UNCHANGED <<parents, assigned>>
        /\ BoardInv'
    BY <1>1, ClaimEffect
  <2> HIDE DEF NextRun
  <2>2. NextRun \in 0..MaxRuns /\ 0 \in 0..TTL
    BY <2>1, BoardAssumption DEF Runs
  <2>3. BoardTypeOK'
    BY <2>1, <2>2 DEF BoardTypeOK, TaskStatuses, Outcomes, Runs
  <2> QED
    BY <2>1, <2>3 DEF BoardTypeOK, Terminal
<1>2. ASSUME NEW t \in Tasks, NEW column \in Columns, NEW result \in Endings,
             EndRun(t, column, result)
      PROVE  /\ BoardTypeOK' /\ BoardInv'
             /\ \A s \in Tasks : status[s] \in Terminal => status'[s] \in Terminal
             /\ \A r \in Runs : outcome[r] # "running" => outcome'[r] = outcome[r]
             /\ \A r \in Runs : outcome[r] # "none" => outcome'[r] # "none"
             /\ claimant' = claimant
  <2>1. /\ status[t] = "running" /\ run[t] \in Runs /\ outcome[run[t]] = "running"
        /\ status' \in [Tasks -> TaskStatuses]
        /\ \A s \in Tasks \ {t} : status[s] # "todo" => status'[s] = status[s]
        /\ run' = [run EXCEPT ![t] = 0]
        /\ outcome' = [outcome EXCEPT ![run[t]] = result]
        /\ age' = [age EXCEPT ![t] = 0]
        /\ UNCHANGED <<parents, assigned, claimant>>
        /\ BoardInv'
    BY <1>2, EndEffect
  <2>2. 0 \in 0..MaxRuns /\ 0 \in 0..TTL /\ result \in Outcomes
    BY BoardAssumption DEF Endings, Outcomes
  <2>3. BoardTypeOK'
    BY <2>1, <2>2 DEF BoardTypeOK, Runs
  <2> QED
    BY <2>1, <2>3 DEF BoardTypeOK, Terminal, Endings
<1>3. ASSUME NEW t \in Tasks, PersonMoves(t)
      PROVE  /\ BoardTypeOK' /\ BoardInv'
             /\ \A s \in Tasks : status[s] \in Terminal => status'[s] \in Terminal
             /\ UNCHANGED <<outcome, claimant>>
  <2>1. /\ status' \in [Tasks -> TaskStatuses]
        /\ \A s \in Tasks : status[s] \in Terminal => status'[s] \in Terminal
        /\ UNCHANGED <<parents, assigned, run, outcome, claimant, age>>
        /\ BoardInv'
    BY <1>3, MoveEffect
  <2> QED
    BY <2>1 DEF BoardTypeOK, Runs
<1>4. ASSUME NEW t \in Tasks, NEW d \in Tasks, PersonLinks(t, d)
      PROVE  /\ BoardTypeOK' /\ BoardInv'
             /\ \A s \in Tasks : status[s] \in Terminal => status'[s] \in Terminal
             /\ UNCHANGED <<outcome, claimant>>
  BY <1>4, LinkEffect DEF BoardTypeOK, Runs
<1>5. CASE ClockOrAssignment
  BY <1>5 DEF ClockOrAssignment, BoardTypeOK, BoardInv, Runs
<1> QED
  BY <1>1, <1>2, <1>3, <1>4, <1>5 DEF BoardStep

-----------------------------------------------------------------------------
(* Every step, seen from the supervisors. *)

\* The verdicts that are not computed have the type of one.
LEMMA ConstantVerdicts ==
  /\ NoVerdict \in Decisions /\ NoVerdict.status = "queued" /\ ~Continues(NoVerdict)
  /\ Failure \in Decisions /\ Failure.status = "failed" /\ ~Continues(Failure)
BY StopType DEF NoVerdict, Failure, Statuses, Choices, Reasons

\* The column of a task is a status of its slice, and only "done" is done.
LEMMA ColumnStatus ==
  /\ \A x \in TaskStatuses \ {"archived"} : SliceStatus[x] \in Statuses
  /\ \A x \in TaskStatuses \ {"archived"} : SliceStatus[x] = "done" => x = "done"
BY DEF SliceStatus, TaskStatuses, Statuses

\* The projection of a board is a queue; a slice it calls done is terminal on
\* the board, and one it calls queued has no open parent out of its sight.
LEMMA ProjectionEffect ==
  ASSUME BoardTypeOK
  PROVE  /\ Projection \in Queues
         /\ \A s \in Slices : Projection[s] = "done" => status[s] \in Terminal
         /\ \A s \in Slices : Projection[s] = "queued" /\ status[s] = "ready" =>
              \A d \in parents[s] \ Slices : status[d] \in Terminal
<1>1. Slices \subseteq Tasks /\ status \in [Tasks -> TaskStatuses]
  BY KanbanAssumption DEF BoardTypeOK
<1>2. \A s \in Slices : status[s] # "archived" => SliceStatus[status[s]] \in Statuses
  BY <1>1, ColumnStatus
<1>3. Projection \in Queues
  BY <1>2 DEF Projection, Queues, Statuses
<1>4. ASSUME NEW s \in Slices, Projection[s] = "done" PROVE status[s] \in Terminal
  <2>1. status[s] = "archived" \/ SliceStatus[status[s]] = "done"
    BY <1>4 DEF Projection
  <2> QED
    BY <2>1, <1>1, ColumnStatus DEF Terminal
<1>5. ASSUME NEW s \in Slices, Projection[s] = "queued", status[s] = "ready"
      PROVE  \A d \in parents[s] \ Slices : status[d] \in Terminal
  BY <1>5 DEF Projection, OpenStranger
<1> QED
  BY <1>3, <1>4, <1>5

LEMMA RevisionType ==
  /\ NoRevision \in Revisions
  /\ BoardTypeOK => Revision \in Revisions
BY BoardAssumption DEF NoRevision, Revision, Revisions, BoardTypeOK

\* An invocation that ends forgets what it held.
LEMMA ExitEffect ==
  ASSUME TypeOK, NEW p \in Supervisors, Exit(p)
  PROVE  /\ phase' = [phase EXCEPT ![p] = "idle"]
         /\ held' = [held EXCEPT ![p] = 0]
         /\ runs' = [runs EXCEPT ![p] = 0]
         /\ phase' \in [Supervisors -> Phases]
         /\ current' \in [Supervisors -> Slices \cup {NoSlice}]
         /\ view' \in [Supervisors -> Queues]
         /\ revision' \in [Supervisors -> Revisions]
         /\ held' \in [Supervisors -> 0..MaxRuns]
         /\ runs' \in [Supervisors -> Nat]
         /\ verdict' \in [Supervisors -> Decisions]
         /\ elapsed' \in [Supervisors -> Nat]
         /\ \A o \in Supervisors \ {p} :
              /\ phase'[o] = phase[o] /\ current'[o] = current[o] /\ view'[o] = view[o]
              /\ revision'[o] = revision[o] /\ held'[o] = held[o]
              /\ runs'[o] = runs[o] /\ verdict'[o] = verdict[o]
              /\ elapsed'[o] = elapsed[o]
<1>1. NoQueue \in Queues
  BY DEF NoQueue, Queues, Statuses
<1>2. NoRevision \in Revisions /\ 0 \in 0..MaxRuns
  BY BoardAssumption, RevisionType
<1>3. NoVerdict \in Decisions
  BY ConstantVerdicts
<1> QED
  BY <1>1, <1>2, <1>3 DEF TypeOK, Exit, Goto, Phases

\* The types of what the supervisors hold.
SupervisorTypeOK ==
  /\ phase \in [Supervisors -> Phases]
  /\ current \in [Supervisors -> Slices \cup {NoSlice}]
  /\ view \in [Supervisors -> Queues]
  /\ revision \in [Supervisors -> Revisions]
  /\ held \in [Supervisors -> 0..MaxRuns]
  /\ runs \in [Supervisors -> Nat]
  /\ verdict \in [Supervisors -> Decisions]
  /\ elapsed \in [Supervisors -> Nat]

\* What a supervisor holds, as another one's step must leave it.
Untouched(o) ==
  /\ phase'[o] = phase[o] /\ current'[o] = current[o] /\ view'[o] = view[o]
  /\ revision'[o] = revision[o] /\ held'[o] = held[o] /\ runs'[o] = runs[o]
  /\ verdict'[o] = verdict[o] /\ elapsed'[o] = elapsed[o]

\* A step of one supervisor keeps the types and touches no other supervisor.
LEMMA SupervisorFrame ==
  ASSUME TypeOK, ChoiceInv, NEW p \in Supervisors, Start(p) \/ Progress(p) \/ Crash(p)
  PROVE  SupervisorTypeOK' /\ \A o \in Supervisors \ {p} : Untouched(o)
<1> DEFINE Goal == SupervisorTypeOK' /\ \A o \in Supervisors \ {p} : Untouched(o)
<1> USE DEF heldVars
<1>1. CASE Exit(p)
  BY <1>1, ExitEffect DEF SupervisorTypeOK, Untouched
<1>2. ASSUME NEW next \in Phases, Goto(p, next), UNCHANGED heldVars PROVE Goal
  BY <1>2 DEF TypeOK, SupervisorTypeOK, Untouched, Goto
<1>3. CASE Select(p)
  <2>1. SelectNextSlice(Projection) \in Slices
    BY <1>3, SelectionType DEF Select, Eligible
  <2>2. Projection \in Queues /\ Revision \in Revisions
    BY ProjectionEffect, RevisionType DEF TypeOK
  <2> QED
    BY <1>3, <2>1, <2>2
    DEF TypeOK, SupervisorTypeOK, Untouched, Select, Goto, Phases
<1>4. CASE ClaimCheckBoard(p) /\ revision[p] = Revision
  <2>1. NoRevision \in Revisions /\ "checked" \in Phases
    BY RevisionType DEF Phases
  <2> QED
    BY <1>4, <2>1
    DEF TypeOK, SupervisorTypeOK, Untouched, ClaimCheckBoard, Goto
<1>5. CASE ClaimReadBack(p) /\ status[current[p]] = "running"
  <2>1. current[p] \in Tasks
    BY <1>5, KanbanAssumption DEF ChoiceInv, ClaimReadBack
  <2>2. run[current[p]] \in 0..MaxRuns
    BY <2>1 DEF TypeOK, BoardTypeOK
  <2>3. /\ phase' = [phase EXCEPT ![p] = "running"]
        /\ held' = [held EXCEPT ![p] = run[current[p]]]
        /\ elapsed' = [elapsed EXCEPT ![p] = 0]
        /\ UNCHANGED <<current, view, revision, runs, verdict>>
    BY <1>5 DEF ClaimReadBack, Goto
  <2>4. "running" \in Phases /\ 0 \in Nat
    BY DEF Phases
  <2> QED
    BY <2>2, <2>3, <2>4 DEF TypeOK, SupervisorTypeOK, Untouched
<1>6. CASE RunFails(p)
  BY <1>6, ConstantVerdicts
  DEF TypeOK, SupervisorTypeOK, Untouched, RunFails, Goto, Phases
<1>7. CASE Judge(p)
  <2>1. PICK v \in Verdicts, recommended \in Slices \cup {NoSlice} :
          verdict' = [verdict EXCEPT ![p] =
            IF v = "done"
            THEN NextSliceEligibility([view[p] EXCEPT ![current[p]] = "in_progress"],
                                      current[p], recommended, runs[p] + 1, Limit)
            ELSE Stop(v, IF v = "blocked" THEN "stop_blocked" ELSE "stop_failed", "run")]
    BY <1>7 DEF Judge
  <2>2. verdict' \in [Supervisors -> Decisions]
    <3>1. CASE v = "done"
      BY <3>1, <2>1, EligibilityOutcome DEF TypeOK
    <3>2. CASE v # "done"
      <4>1. Stop(v, IF v = "blocked" THEN "stop_blocked" ELSE "stop_failed", "run")
              \in Decisions
        BY <3>2, StopType DEF Verdicts, Statuses, Choices, Reasons
      <4> QED
        BY <3>2, <2>1, <4>1 DEF TypeOK
    <3> QED
      BY <3>1, <3>2
  <2>3. \A o \in Supervisors \ {p} : verdict'[o] = verdict[o]
    BY <2>1 DEF TypeOK
  <2> QED
    BY <1>7, <2>2, <2>3 DEF TypeOK, SupervisorTypeOK, Untouched, Judge, Goto, Phases
<1>8. {"loop", "claiming", "claimed", "judging", "writing", "verifying"} \subseteq Phases
  BY DEF Phases
<1>9. CASE Start(p) \/ AgentReturns(p) \/ RecordCheck(p) \/ RecordVerify(p)
  BY <1>9, <1>1, <1>2, <1>8 DEF Start, AgentReturns, RecordCheck, RecordVerify, GoOn
<1>10. CASE ClaimCommand(p) \/ RecordCommand(p)
  BY <1>10, <1>1, <1>2, <1>8 DEF ClaimCommand, RecordCommand
<1>11. CASE SelectStops(p) \/ RunEscapes(p) \/ Crash(p)
  BY <1>11, <1>1 DEF SelectStops, RunEscapes, Crash
<1>12. CASE ClaimCheckBoard(p) \/ ClaimCheckTask(p)
  BY <1>12, <1>1, <1>2, <1>4, <1>8 DEF ClaimCheckBoard, ClaimCheckTask
<1>13. CASE ClaimReadBack(p)
  BY <1>13, <1>1, <1>5 DEF ClaimReadBack
<1> QED
  BY <1>3, <1>6, <1>7, <1>9, <1>10, <1>11, <1>12, <1>13 DEF Progress

\* What the clock, people, the gateway and an idle step do to the supervisors:
\* time passes for them, and nothing else.
LEMMA EnvironmentFrame ==
  ASSUME BaseInv,
         \/ \E t \in Tasks : Lapse(t) \/ PersonActs(t) \/ GatewayActs(t)
         \/ Tick \/ UNCHANGED vars
  PROVE  /\ SupervisorTypeOK'
         /\ UNCHANGED <<phase, current, view, revision, held, runs, verdict>>
         /\ ~Tick => elapsed' = elapsed
<1>1. CASE Tick
  BY <1>1 DEF BaseInv, TypeOK, SupervisorTypeOK, Tick
<1>2. CASE ~Tick
  <2>1. UNCHANGED <<phase, current, view, revision, held, runs, verdict, elapsed>>
    BY <1>2 DEF Lapse, PersonActs, GatewayActs, vars, supervisorVars, heldVars
  <2> QED
    BY <1>2, <2>1 DEF BaseInv, TypeOK, SupervisorTypeOK
<1> QED
  BY <1>1, <1>2

\* What a supervisor has in hand after a step of its own.
LEMMA SupervisorChoice ==
  ASSUME BaseInv, NEW p \in Supervisors, Start(p) \/ Progress(p) \/ Crash(p)
  PROVE  ChoiceInv'
<1> DEFINE Chosen(o) ==
      /\ phase[o] \notin {"idle", "loop"} => current[o] \in Slices
      /\ phase[o] \in RunPhases \cup {"verifying"} => held[o] \in Runs
<1> USE DEF BaseInv, heldVars, Runs
<1>1. \A o \in Supervisors \ {p} : Chosen(o)'
  BY SupervisorFrame DEF ChoiceInv, Untouched
<1>2. Chosen(p)
  BY DEF ChoiceInv
<1> SUFFICES Chosen(p)'
  BY <1>1 DEF ChoiceInv
<1>3. CASE Exit(p)
  BY <1>3, ExitEffect DEF TypeOK, RunPhases
<1>4. CASE Select(p)
  <2>1. SelectNextSlice(Projection) \in Slices
    BY <1>4, SelectionType DEF Select, Eligible
  <2>2. phase'[p] = "selected" /\ current'[p] = SelectNextSlice(Projection)
    BY <1>4 DEF TypeOK, Select, Goto
  <2> QED
    BY <2>1, <2>2 DEF RunPhases
<1>5. CASE ClaimReadBack(p) /\ status[current[p]] = "running"
  <2>1. current[p] \in Slices /\ current[p] \in Tasks
    BY <1>2, <1>5, KanbanAssumption DEF ClaimReadBack
  <2>2. run[current[p]] \in Runs
    BY <1>5, <2>1, BoardAssumption DEF BoardInv, TypeOK, BoardTypeOK
  <2>3. phase'[p] = "running" /\ held'[p] = run[current[p]] /\ current'[p] = current[p]
    BY <1>5 DEF TypeOK, ClaimReadBack, Goto
  <2> QED
    BY <2>1, <2>2, <2>3
<1>6. ASSUME UNCHANGED <<current, held>>,
             \E next \in Phases \ {"selected"} :
               /\ phase' = [phase EXCEPT ![p] = next]
               /\ next \notin {"idle", "loop"} => phase[p] \notin {"idle", "loop"}
               /\ next \in RunPhases \cup {"verifying"} =>
                    phase[p] \in RunPhases \cup {"verifying"}
      PROVE  Chosen(p)'
  BY <1>2, <1>6 DEF TypeOK
<1>7. CASE Start(p)
  BY <1>7, <1>6 DEF Start, Goto, Phases, RunPhases
<1>8. CASE ClaimCheckBoard(p) \/ ClaimCheckTask(p) \/ ClaimCommand(p)
  BY <1>8, <1>6, <1>3
  DEF ClaimCheckBoard, ClaimCheckTask, ClaimCommand, Goto, Phases, RunPhases, heldVars
<1>9. CASE AgentReturns(p) \/ RunFails(p) \/ Judge(p)
  BY <1>9, <1>6 DEF AgentReturns, RunFails, Judge, Goto, Phases, RunPhases
<1>10. CASE RecordCheck(p) \/ RecordCommand(p) \/ RecordVerify(p)
  BY <1>10, <1>6, <1>3
  DEF RecordCheck, RecordCommand, RecordVerify, GoOn, Goto, Phases, RunPhases
<1>11. CASE SelectStops(p) \/ RunEscapes(p) \/ Crash(p)
  BY <1>11, <1>3 DEF SelectStops, RunEscapes, Crash
<1>12. CASE ClaimReadBack(p)
  BY <1>12, <1>3, <1>5 DEF ClaimReadBack
<1> QED
  BY <1>4, <1>7, <1>8, <1>9, <1>10, <1>11, <1>12 DEF Progress

LEMMA InitBase == Init => BaseInv
<1> SUFFICES ASSUME Init PROVE BaseInv
  OBVIOUS
<1>1. MaxRuns \in Nat /\ TTL \in Nat /\ InitialStatus \in [Tasks -> TaskStatuses \ {"running"}]
      /\ InitialAssigned \subseteq Tasks /\ InitialParents \in [Tasks -> SUBSET Tasks]
      /\ NoRevision \in Revisions
  BY BoardAssumption, RevisionType
<1>2. BoardTypeOK
  BY <1>1 DEF Init, BoardInit, BoardTypeOK, Outcomes
<1>3. BoardInv
  <2>1. \A r \in Runs : outcome[r] = "none" <=> r > 0
    BY <1>1 DEF Init, BoardInit, Runs
  <2>2. 0 \in 0..MaxRuns
    BY <1>1
  <2>3. \A t \in Tasks : status[t] # "running" /\ run[t] = 0
    BY <1>1 DEF Init, BoardInit
  <2> QED
    BY <2>1, <2>2, <2>3 DEF BoardInv
<1>4. NoQueue \in Queues /\ NoVerdict \in Decisions
  BY ConstantVerdicts DEF NoQueue, Queues, Statuses
<1>5. TypeOK
  BY <1>1, <1>2, <1>4 DEF Init, TypeOK, Phases
<1>6. ChoiceInv
  BY DEF Init, ChoiceInv, RunPhases
<1> QED
  BY <1>3, <1>5, <1>6 DEF BaseInv

LEMMA NextBase == BaseInv /\ [Next]_vars => BaseInv'
<1> SUFFICES ASSUME BaseInv, [Next]_vars PROVE BaseInv'
  OBVIOUS
<1>1. BoardTypeOK' /\ BoardInv'
  BY AnyBoardStep, BoardStepEffect
<1>2. ASSUME NEW p \in Supervisors, Start(p) \/ Progress(p) \/ Crash(p)
      PROVE  SupervisorTypeOK' /\ ChoiceInv'
  BY <1>2, SupervisorFrame, SupervisorChoice DEF BaseInv
<1>3. ASSUME \/ \E t \in Tasks : Lapse(t) \/ PersonActs(t) \/ GatewayActs(t)
             \/ Tick \/ UNCHANGED vars
      PROVE  SupervisorTypeOK' /\ ChoiceInv'
  BY <1>3, EnvironmentFrame DEF BaseInv, ChoiceInv
<1>4. SupervisorTypeOK' /\ ChoiceInv'
  BY <1>2, <1>3 DEF Next
<1> QED
  BY <1>1, <1>4 DEF BaseInv, TypeOK, SupervisorTypeOK

LEMMA BaseCorrect == Spec => []BaseInv
BY InitBase, NextBase, PTL DEF Spec

\* The type invariant: columns, run ids, ages and verdicts stay in their types,
\* and with them the board's claim that an age never passes the TTL.
THEOREM TypeCorrect == Spec => []TypeOK
<1>1. BaseInv => TypeOK
  BY DEF BaseInv
<1> QED
  BY <1>1, BaseCorrect, PTL

-----------------------------------------------------------------------------
(* What is claimed, and what it waited for. *)

\* A slice that is chosen waits for no open parent: the ones the queue knows are
\* done in it, and the others hold it back in the projection.
LEMMA SelectionClear ==
  ASSUME BaseInv, ApprovalInv, NEW s \in Eligible(Projection)
  PROVE  Clear(s)
<1> SUFFICES ASSUME status[s] = "ready" PROVE ~Open(status, parents, s)
  BY DEF Clear
<1>1. s \in Slices /\ BoardTypeOK
  BY DEF BaseInv, TypeOK, Eligible
<1>2. \A d \in parents[s] \cap Slices : status[d] \in Terminal
  <2>1. parents[s] \cap Slices = DependsOn[s]
    BY <1>1 DEF ApprovalInv
  <2> QED
    BY <1>1, <2>1, ProjectionEffect DEF Eligible, DependenciesSatisfied
<1>3. \A d \in parents[s] \ Slices : status[d] \in Terminal
  BY <1>1, ProjectionEffect DEF Eligible
<1> QED
  BY <1>2, <1>3 DEF Open

\* hermes leaves no task ready behind an open parent that it did not find there.
LEMMA ClearKept ==
  ASSUME BaseInv, BoardStep, NEW t \in Tasks, Clear(t)
  PROVE  Clear(t)'
<1> SUFFICES ASSUME status'[t] = "ready" PROVE ~Open(status', parents', t)
  BY DEF Clear
<1>1. /\ BoardTypeOK /\ BoardInv /\ parents \in [Tasks -> SUBSET Tasks]
      /\ status \in [Tasks -> TaskStatuses]
      /\ \A p \in Tasks : status[p] \in Terminal => status'[p] \in Terminal
  BY BoardStepEffect DEF BaseInv, TypeOK, BoardTypeOK
<1>2. ASSUME NEW x \in Tasks, NEW column \in Columns \cup {"archived"}, Place(x, column),
             parents' = parents
      PROVE  ~Open(status', parents', t)
  <2> DEFINE moved == [status EXCEPT ![x] = column]
  <2>1. moved \in [Tasks -> TaskStatuses] /\ status' = Settled(moved, parents, {x})
    BY <1>1, <1>2 DEF Place, Columns, TaskStatuses
  <2>2. ASSUME t # x, moved[t] = "ready" PROVE ~Open(status', parents, t)
    BY <1>1, <2>2 DEF Clear, Open
  <2> HIDE DEF moved
  <2>3. ASSUME t = x \/ moved[t] # "ready" PROVE ~Open(status', parents, t)
    BY <1>1, <2>1, <2>3, SettledClear
  <2> QED
    BY <1>2, <2>2, <2>3
<1>3. ASSUME NEW x \in Tasks, NEW who, HermesClaim(x, who)
      PROVE  ~Open(status', parents', t)
  <2>1. status[t] = "ready" /\ parents' = parents
    BY <1>1, <1>3 DEF HermesClaim
  <2> QED
    BY <1>1, <2>1 DEF Clear, Open
<1>4. ASSUME NEW x \in Tasks, NEW column \in Columns, NEW result \in Endings,
             EndRun(x, column, result)
      PROVE  ~Open(status', parents', t)
  BY <1>2, <1>4 DEF EndRun
<1>5. ASSUME NEW x \in Tasks, PersonMoves(x) PROVE ~Open(status', parents', t)
  <2>1. PICK column \in {"done", "ready", "blocked", "archived"} :
          Place(x, column) /\ parents' = parents
    BY <1>5 DEF PersonMoves
  <2> QED
    BY <1>2, <2>1 DEF Columns
<1>6. ASSUME NEW x \in Tasks, NEW d \in Tasks, PersonLinks(x, d)
      PROVE  ~Open(status', parents', t)
  <2> DEFINE placed == IF d \in parents[x] THEN {} ELSE {x}
  <2>1. /\ parents' = [parents EXCEPT ![x] = IF d \in @ THEN @ \ {d} ELSE @ \cup {d}]
        /\ status' = Settled(status, parents', placed)
        /\ parents' \in [Tasks -> SUBSET Tasks]
    BY <1>1, <1>6, LinkEffect DEF PersonLinks
  <2>2. ASSUME t \notin placed, status[t] = "ready" PROVE ~Open(status, parents', t)
    BY <1>1, <2>1, <2>2 DEF Clear, Open
  <2> HIDE DEF placed
  <2> QED
    BY <1>1, <2>1, <2>2, SettledClear
<1>7. CASE ClockOrAssignment
  BY <1>7 DEF ClockOrAssignment, Clear
<1> QED
  BY <1>3, <1>4, <1>5, <1>6, <1>7 DEF BoardStep

\* Between approved tasks no link changes.
LEMMA LinksKept ==
  ASSUME BaseInv, ApprovalInv, [Next]_vars, NEW s \in Slices
  PROVE  parents'[s] \cap Slices = DependsOn[s]
<1>1. s \in Tasks /\ parents[s] \cap Slices = DependsOn[s]
  BY KanbanAssumption DEF ApprovalInv
<1>2. CASE parents' = parents
  BY <1>1, <1>2
<1>3. ASSUME NEW t \in Tasks, NEW d \in Tasks, <<d, t>> \in Linkable, PersonLinks(t, d)
      PROVE  parents'[s] \cap Slices = DependsOn[s]
  <2>1. d \notin Slices
    BY <1>3, KanbanAssumption
  <2> QED
    BY <1>1, <1>3, <2>1 DEF PersonLinks, BaseInv, TypeOK, BoardTypeOK
<1>4. ASSUME NEW p \in Supervisors, Start(p) \/ Progress(p) \/ Crash(p)
      PROVE  parents' = parents
  BY <1>4
  DEF Start, Progress, Crash, Select, SelectStops, ClaimCheckBoard, ClaimCheckTask,
      ClaimCommand, ClaimReadBack, AgentReturns, RunFails, RunEscapes, Judge,
      RecordCheck, RecordCommand, RecordVerify, HermesClaim, HermesRecords, HermesEnds,
      EndRun, boardVars
<1>5. ASSUME NEW t \in Tasks, Lapse(t) \/ GatewayActs(t) PROVE parents' = parents
  BY <1>5 DEF Lapse, Expire, GatewayActs, GatewayClaims, GatewayEnds, HermesClaim, EndRun
<1>6. ASSUME NEW t \in Tasks, PersonActs(t)
      PROVE  \/ parents' = parents
             \/ \E d \in Tasks : <<d, t>> \in Linkable /\ PersonLinks(t, d)
  BY <1>6 DEF PersonActs, PersonMoves, PersonAssigns, PersonInterrupts, EndRun
<1>7. Tick \/ UNCHANGED vars => parents' = parents
  BY DEF Tick, vars, boardVars
<1> QED
  BY <1>2, <1>3, <1>4, <1>5, <1>6, <1>7 DEF Next

LEMMA NextApproval == BaseInv /\ ApprovalInv /\ [Next]_vars => ApprovalInv'
<1> DEFINE Bound == {"selected", "checked", "claiming"}
<1> SUFFICES ASSUME BaseInv, ApprovalInv, [Next]_vars,
                    NEW p \in Supervisors, phase'[p] \in Bound
             PROVE  Clear(current[p])' 
  BY LinksKept DEF ApprovalInv
<1>1. BoardStep
  BY AnyBoardStep
<1>2. CASE phase[p] \in Bound /\ current'[p] = current[p]
  <2>1. current[p] \in Tasks /\ Clear(current[p])
    BY <1>2, KanbanAssumption DEF BaseInv, ChoiceInv, ApprovalInv
  <2>2. Clear(current[p])' <=> (status'[current[p]] = "ready" => ~Open(status', parents', current[p]))
    BY <1>2 DEF Clear
  <2> QED
    BY <1>1, <2>1, <2>2, ClearKept DEF Clear
<1>3. ASSUME NEW q \in Supervisors \ {p}, Start(q) \/ Progress(q) \/ Crash(q)
      PROVE  phase[p] \in Bound /\ current'[p] = current[p]
  BY <1>3, SupervisorFrame DEF BaseInv, Untouched
<1>4. CASE Select(p)
  <2>1. /\ current'[p] = SelectNextSlice(Projection) /\ UNCHANGED <<status, parents>>
        /\ SelectNextSlice(Projection) \in Eligible(Projection)
    BY <1>4, SelectionType DEF BaseInv, TypeOK, Select, boardVars
  <2> QED
    BY <2>1, SelectionClear DEF Clear
<1>5. CASE (Start(p) \/ Progress(p) \/ Crash(p)) /\ ~Select(p)
  <2>1. ~Exit(p)
    BY ExitEffect DEF BaseInv, TypeOK
  <2>2. phase[p] \in Bound /\ current'[p] = current[p]
    BY <1>5, <2>1
    DEF BaseInv, TypeOK, Start, Progress, Crash, SelectStops, ClaimCheckBoard,
        ClaimCheckTask, ClaimCommand, ClaimReadBack, AgentReturns, RunFails, RunEscapes,
        Judge, RecordCheck, RecordCommand, RecordVerify, GoOn, Goto, heldVars
  <2> QED
    BY <1>2, <2>2
<1>6. CASE \/ \E t \in Tasks : Lapse(t) \/ PersonActs(t) \/ GatewayActs(t)
           \/ Tick \/ UNCHANGED vars
  BY <1>2, <1>6, EnvironmentFrame
<1> QED
  BY <1>2, <1>3, <1>4, <1>5, <1>6 DEF Next

\* The loop does not run ahead of a person's approval: when hermes gives a
\* supervisor a slice, every parent of it, approved for projection or not, is done
\* or archived at that moment, with any number of supervisors and whatever people
\* link, review or interrupt between the projection and the claim.
THEOREM ApprovalCorrect == Spec => LaunchAfterApproval
<1>1. Init => ApprovalInv
  BY KanbanAssumption DEF Init, BoardInit, ApprovalInv
<1>2. BaseInv /\ ApprovalInv /\ [Next]_vars =>
        [\A p \in Supervisors :
           phase[p] = "claiming" /\ HermesClaim(current[p], p) =>
             ~Open(status, parents, current[p])]_vars
  BY DEF ApprovalInv, Clear, HermesClaim
<1> QED
  BY <1>1, <1>2, BaseCorrect, NextApproval, PTL DEF Spec, LaunchAfterApproval

-----------------------------------------------------------------------------
(* What a chain goes on from. *)

\* A recorded verdict of done is an outcome for good.
LEMMA ChainKept ==
  ASSUME BaseInv, ChainInv, BoardStep, NEW p \in Supervisors,
         UNCHANGED <<phase[p], runs[p], held[p], verdict[p]>>
  PROVE  /\ phase'[p] = "idle" => runs'[p] = 0
         /\ phase'[p] \in {"recording", "writing", "verifying"} /\ Continues(verdict'[p]) =>
              verdict'[p].status = "done"
         /\ phase'[p] = "loop" /\ runs'[p] > 0 =>
              /\ held'[p] \in Runs
              /\ outcome'[held'[p]] = Result(verdict'[p].status)
              /\ verdict'[p].status = "done"
<1>1. ASSUME phase[p] = "loop", runs[p] > 0
      PROVE  outcome'[held[p]] = Result(verdict[p].status)
  BY <1>1, BoardStepEffect DEF ChainInv, Result
<1> QED
  BY <1>1 DEF ChainInv

\* What judging a run decides lets the chain go on only when the run is done.
LEMMA JudgeOutcome ==
  ASSUME BaseInv, NEW p \in Supervisors, Judge(p)
  PROVE  Continues(verdict'[p]) => verdict'[p].status = "done"
<1>1. PICK v \in Verdicts, recommended \in Slices \cup {NoSlice} :
        verdict' = [verdict EXCEPT ![p] =
          IF v = "done"
          THEN NextSliceEligibility([view[p] EXCEPT ![current[p]] = "in_progress"],
                                    current[p], recommended, runs[p] + 1, Limit)
          ELSE Stop(v, IF v = "blocked" THEN "stop_blocked" ELSE "stop_failed", "run")]
  BY DEF Judge
<1>2. CASE v = "done"
  BY <1>1, <1>2, EligibilityOutcome DEF BaseInv, TypeOK
<1>3. CASE v # "done"
  <2>1. ~Continues(Stop(v, IF v = "blocked" THEN "stop_blocked" ELSE "stop_failed", "run"))
    BY <1>3, StopType DEF Verdicts, Statuses, Choices, Reasons
  <2> QED
    BY <1>1, <1>3, <2>1 DEF BaseInv, TypeOK
<1> QED
  BY <1>2, <1>3

LEMMA SupervisorChain ==
  ASSUME BaseInv, ChainInv, NEW p \in Supervisors, Start(p) \/ Progress(p) \/ Crash(p)
  PROVE  ChainInv'
<1> DEFINE Linked(o) ==
      /\ phase[o] = "idle" => runs[o] = 0
      /\ phase[o] \in {"recording", "writing", "verifying"} /\ Continues(verdict[o]) =>
           verdict[o].status = "done"
      /\ phase[o] = "loop" /\ runs[o] > 0 =>
           /\ held[o] \in Runs
           /\ outcome[held[o]] = Result(verdict[o].status)
           /\ verdict[o].status = "done"
<1> USE DEF heldVars
<1>1. TypeOK /\ BoardStep
  BY SupervisorBoardStep DEF BaseInv
<1>2. \A o \in Supervisors \ {p} : Linked(o)'
  BY <1>1, ChainKept, SupervisorFrame DEF BaseInv, Untouched, Runs
<1>3. Linked(p)
  BY DEF ChainInv
<1> SUFFICES Linked(p)'
  BY <1>2 DEF ChainInv
<1>4. CASE Exit(p)
  BY <1>1, <1>4, ExitEffect
<1>5. CASE phase'[p] \notin {"idle", "loop", "recording", "writing", "verifying"}
  BY <1>5
<1>6. CASE Start(p)
  BY <1>1, <1>3, <1>6 DEF TypeOK, Start, Goto
<1>7. CASE RunFails(p)
  BY <1>1, <1>7, ConstantVerdicts DEF TypeOK, RunFails, Goto
<1>8. CASE Judge(p)
  BY <1>1, <1>8, JudgeOutcome DEF TypeOK, Judge, Goto
<1>9. CASE IsRecorded(p) /\ GoOn(p) /\ UNCHANGED boardVars
           /\ phase[p] \in {"recording", "verifying"}
  <2>1. held[p] \in Runs
    BY <1>9 DEF BaseInv, ChoiceInv, RunPhases
  <2> QED
    BY <1>1, <1>3, <1>4, <1>9, <2>1 DEF TypeOK, GoOn, Goto, IsRecorded, boardVars, Runs
<1>10. CASE RecordCheck(p)
  BY <1>1, <1>3, <1>4, <1>9, <1>10 DEF TypeOK, RecordCheck, Goto
<1>11. CASE RecordCommand(p)
  BY <1>1, <1>3, <1>4, <1>11 DEF TypeOK, RecordCommand, Goto
<1>12. CASE RecordVerify(p)
  BY <1>4, <1>9, <1>12 DEF RecordVerify
<1>13. CASE \/ Select(p) \/ ClaimCheckBoard(p) \/ ClaimCheckTask(p) \/ ClaimCommand(p)
            \/ ClaimReadBack(p) \/ AgentReturns(p)
  BY <1>1, <1>4, <1>5, <1>13
  DEF TypeOK, Select, ClaimCheckBoard, ClaimCheckTask, ClaimCommand, ClaimReadBack, AgentReturns, Goto
<1>14. CASE SelectStops(p) \/ RunEscapes(p) \/ Crash(p)
  BY <1>4, <1>14 DEF SelectStops, RunEscapes, Crash
<1> QED
  BY <1>6, <1>7, <1>8, <1>10, <1>11, <1>12, <1>13, <1>14 DEF Progress

LEMMA NextChain == BaseInv /\ ChainInv /\ [Next]_vars => ChainInv'
<1> SUFFICES ASSUME BaseInv, ChainInv, [Next]_vars PROVE ChainInv'
  OBVIOUS
<1>1. ASSUME NEW p \in Supervisors, Start(p) \/ Progress(p) \/ Crash(p) PROVE ChainInv'
  BY <1>1, SupervisorChain
<1>2. CASE \/ \E t \in Tasks : Lapse(t) \/ PersonActs(t) \/ GatewayActs(t)
           \/ Tick \/ UNCHANGED vars
  BY <1>2, EnvironmentFrame, AnyBoardStep, ChainKept DEF ChainInv, Runs
<1> QED
  BY <1>1, <1>2 DEF Next

\* A chain goes on only after the board shows the verdict on the run it held,
\* even when hermes reports successes that never happened and people interrupt
\* runs at any time.
THEOREM ChainCorrect == Spec => []ChainsPastRecorded
<1>1. Init => ChainInv
  BY DEF Init, ChainInv
<1>2. ChainInv => ChainsPastRecorded
  BY DEF ChainInv, ChainsPastRecorded
<1> QED
  BY <1>1, <1>2, BaseCorrect, NextChain, PTL DEF Spec

-----------------------------------------------------------------------------
(* Whose run is ended, and how long a claim stands. *)

\* A claim or the end of a run elsewhere leaves a running task as it is.
Stands(t) ==
  /\ status'[t] = "running" /\ run'[t] = run[t]
  /\ claimant'[run[t]] = claimant[run[t]]

LEMMA ClaimElsewhere ==
  ASSUME BaseInv, NEW t \in Tasks, status[t] = "running",
         NEW s \in Tasks, NEW who, HermesClaim(s, who)
  PROVE  Stands(t) /\ age'[t] = age[t]
<1>1. /\ status[s] = "ready" /\ outcome[NextRun] = "none"
      /\ status' = [status EXCEPT ![s] = "running"]
      /\ run' = [run EXCEPT ![s] = NextRun]
      /\ claimant' = [claimant EXCEPT ![NextRun] = who]
      /\ age' = [age EXCEPT ![s] = 0]
  BY ClaimEffect DEF BaseInv, TypeOK
<1> HIDE DEF NextRun
<1>2. s # t /\ outcome[run[t]] = "running" /\ run[t] \in Runs
  BY <1>1, BoardAssumption DEF BaseInv, TypeOK, BoardTypeOK, BoardInv, Runs
<1>3. run[t] # NextRun
  BY <1>1, <1>2
<1> QED
  BY <1>1, <1>2, <1>3 DEF BaseInv, TypeOK, BoardTypeOK, Stands

LEMMA EndElsewhere ==
  ASSUME BaseInv, NEW t \in Tasks, status[t] = "running",
         NEW s \in Tasks, s # t, NEW column \in Columns, NEW result \in Endings,
         EndRun(s, column, result)
  PROVE  Stands(t) /\ age'[t] = age[t]
<1>1. /\ \A u \in Tasks \ {s} : status[u] # "todo" => status'[u] = status[u]
      /\ run' = [run EXCEPT ![s] = 0]
      /\ age' = [age EXCEPT ![s] = 0]
      /\ claimant' = claimant
  BY EndEffect DEF BaseInv, TypeOK
<1> QED
  BY <1>1 DEF BaseInv, TypeOK, BoardTypeOK, Stands

\* Nobody ends the run of a supervisor whose claim has not lapsed and whom a
\* person may not interrupt: others end only runs they hold, and a run has one
\* claimant.
LEMMA OwnRunStands ==
  ASSUME BaseInv, OwnInv, [Next]_vars, NEW p \in Supervisors, NEW t \in Tasks,
         status[t] = "running", claimant[run[t]] = p, age[t] < TTL,
         ~MayInterrupt(t), ~RecordCommand(p)
  PROVE  Stands(t) /\ (~Tick => age'[t] = age[t])
<1>1. run[t] \in Runs
  BY BoardAssumption DEF BaseInv, BoardInv, TypeOK, BoardTypeOK, Runs
<1>2. CASE UNCHANGED boardVars
  BY <1>2 DEF Stands, boardVars
<1>3. ASSUME NEW q \in Supervisors, Start(q) \/ Progress(q) \/ Crash(q)
      PROVE  Stands(t) /\ age'[t] = age[t]
  <2>1. CASE ClaimCommand(q) \/ RecordCommand(q)
    <3>1. current[q] \in Tasks
      BY <2>1, KanbanAssumption DEF BaseInv, ChoiceInv, ClaimCommand, RecordCommand, RunPhases
    <3>2. CASE HermesClaim(current[q], q)
      BY <3>1, <3>2, ClaimElsewhere
    <3>3. CASE RecordCommand(q) /\ HermesRecords(q)
      <4>1. /\ run[current[q]] = held[q]
            /\ EndRun(current[q], Column(verdict[q].status), Result(verdict[q].status))
        BY <3>3 DEF HermesRecords, HermesEnds
      <4>2. /\ Column(verdict[q].status) \in Columns
            /\ Result(verdict[q].status) \in Endings
        BY DEF Column, Result, Columns, Endings
      <4>3. current[q] # t
        BY <1>1, <3>3, <4>1, BoardAssumption DEF OwnInv, Runs
      <4> QED
        BY <3>1, <4>1, <4>2, <4>3, EndElsewhere
    <3>4. CASE UNCHANGED boardVars
      BY <3>4 DEF Stands, boardVars
    <3> QED
      BY <2>1, <3>2, <3>3, <3>4 DEF ClaimCommand, RecordCommand
  <2>2. ~ClaimCommand(q) /\ ~RecordCommand(q) => UNCHANGED boardVars
    BY <1>3 DEF Start, Progress, Crash, Select, SelectStops, ClaimCheckBoard, ClaimCheckTask, ClaimReadBack,
                AgentReturns, RunFails, RunEscapes, Judge, RecordCheck, RecordVerify
  <2> QED
    BY <2>1, <2>2 DEF Stands, boardVars
<1>4. ASSUME NEW s \in Tasks, Lapse(s) PROVE Stands(t) /\ age'[t] = age[t]
  <2>1. age[s] = TTL /\ EndRun(s, "ready", "reclaimed")
    BY <1>4 DEF Lapse, Expire
  <2>2. s # t
    BY <2>1, BoardAssumption DEF BaseInv, TypeOK, BoardTypeOK
  <2> QED
    BY <2>1, <2>2, EndElsewhere DEF Columns, Endings
<1>5. ASSUME NEW s \in Tasks, PersonActs(s) PROVE Stands(t) /\ age'[t] = age[t]
  <2>1. CASE PersonMoves(s)
    BY <2>1, MoveEffect DEF BaseInv, TypeOK, Stands
  <2>2. CASE PersonAssigns(s)
    BY <2>2 DEF PersonAssigns, Stands
  <2>3. CASE MayInterrupt(s) /\ PersonInterrupts(s)
    BY <2>3, EndElsewhere DEF PersonInterrupts, Columns, Endings
  <2>4. ASSUME NEW d \in Tasks, PersonLinks(s, d) PROVE Stands(t) /\ age'[t] = age[t]
    BY <2>4, LinkEffect DEF BaseInv, TypeOK, Stands
  <2> QED
    BY <1>5, <2>1, <2>2, <2>3, <2>4 DEF PersonActs
<1>6. ASSUME NEW s \in Tasks, GatewayActs(s) PROVE Stands(t) /\ age'[t] = age[t]
  <2>1. CASE GatewayClaims(s)
    BY <2>1, ClaimElsewhere DEF GatewayClaims
  <2>2. CASE GatewayEnds(s)
    <3>1. s # t
      BY <2>2, BoardAssumption, KanbanAssumption DEF GatewayEnds
    <3> QED
      BY <2>2, <3>1, EndElsewhere DEF GatewayEnds, Columns, Endings
  <2> QED
    BY <1>6, <2>1, <2>2 DEF GatewayActs
<1>7. CASE Tick
  BY <1>7 DEF Tick, Stands
<1> QED
  BY <1>2, <1>3, <1>4, <1>5, <1>6, <1>7 DEF Next, vars

\* A run that is held keeps its claimant.
LEMMA HeldKept ==
  ASSUME BaseInv, OwnInv, BoardStep, NEW p \in Supervisors,
         held'[p] = held[p], held[p] # 0
  PROVE  outcome'[held'[p]] # "none" /\ claimant'[held'[p]] = p
<1>1. held[p] \in Runs
  BY BoardAssumption DEF BaseInv, TypeOK, Runs
<1> QED
  BY <1>1, BoardStepEffect DEF OwnInv

LEMMA NextOwn ==
  ASSUME ~MayDrop, Interrupts # "any", TTL > 0, BaseInv, OwnInv, [Next]_vars
  PROVE  OwnInv'
<1> SUFFICES ASSUME NEW p \in Supervisors
             PROVE  /\ held'[p] # 0 => outcome'[held'[p]] # "none" /\ claimant'[held'[p]] = p
                    /\ phase'[p] = "claimed" =>
                         /\ status'[current'[p]] = "running"
                         /\ claimant'[run'[current'[p]]] = p
                         /\ age'[current'[p]] = 0
  BY DEF OwnInv
<1> DEFINE MyStep == Start(p) \/ Progress(p) \/ Crash(p)
<1>1. BoardStep /\ TypeOK
  BY AnyBoardStep DEF BaseInv
<1>2. ASSUME held'[p] # 0
      PROVE  outcome'[held'[p]] # "none" /\ claimant'[held'[p]] = p
  <2>1. CASE held'[p] = held[p]
    BY <1>1, <1>2, <2>1, HeldKept
  <2>2. CASE held'[p] # held[p]
    <3>1. PICK q \in Supervisors : Start(q) \/ Progress(q) \/ Crash(q)
      BY <2>2, EnvironmentFrame DEF Next
    <3>2. q = p
      BY <1>1, <2>2, <3>1, SupervisorFrame DEF BaseInv, Untouched
    <3>3. ~Exit(p)
      BY <1>1, <1>2, ExitEffect
    <3>4. ClaimReadBack(p)
      BY <2>2, <3>1, <3>2, <3>3
      DEF Start, Progress, Crash, Select, SelectStops, ClaimCheckBoard, ClaimCheckTask, ClaimCommand,
          AgentReturns, RunFails, RunEscapes, Judge, RecordCheck, RecordCommand,
          RecordVerify, GoOn, heldVars
    <3>5. /\ phase[p] = "claimed" /\ held'[p] = run[current[p]]
          /\ UNCHANGED <<outcome, claimant>>
      BY <1>1, <3>3, <3>4 DEF ClaimReadBack, TypeOK, boardVars
    <3>6. current[p] \in Tasks
      BY <3>5, KanbanAssumption DEF BaseInv, ChoiceInv
    <3> QED
      BY <1>2, <3>5, <3>6 DEF BaseInv, BoardInv, OwnInv
  <2> QED
    BY <2>1, <2>2
<1>3. ASSUME phase'[p] = "claimed"
      PROVE  /\ status'[current'[p]] = "running"
             /\ claimant'[run'[current'[p]]] = p
             /\ age'[current'[p]] = 0
  <2>1. CASE phase[p] = "claimed" /\ current'[p] = current[p]
    <3>1. current[p] \in Tasks
      BY <2>1, KanbanAssumption DEF BaseInv, ChoiceInv
    <3>2. /\ status[current[p]] = "running" /\ claimant[run[current[p]]] = p
          /\ age[current[p]] = 0
      BY <2>1 DEF OwnInv
    <3>3. ~MayInterrupt(current[p])
      BY <2>1, KanbanAssumption DEF MayInterrupt
    <3>4. ~Tick /\ ~RecordCommand(p)
      BY <2>1 DEF Tick, TimePasses, RecordCommand
    <3> QED
      BY <2>1, <3>1, <3>2, <3>3, <3>4, OwnRunStands DEF Stands
  <2>2. CASE ~(phase[p] = "claimed" /\ current'[p] = current[p])
    <3>1. PICK q \in Supervisors : Start(q) \/ Progress(q) \/ Crash(q)
      BY <1>3, <2>2, EnvironmentFrame DEF Next
    <3>2. q = p
      BY <1>1, <1>3, <2>2, <3>1, SupervisorFrame DEF BaseInv, Untouched
    <3>3. ~Exit(p)
      BY <1>1, <1>3, ExitEffect
    <3>4. HermesClaim(current[p], p) /\ phase[p] = "claiming" /\ current' = current
      BY <1>1, <1>3, <2>2, <3>1, <3>2, <3>3
      DEF TypeOK, Start, Progress, Crash, Select, SelectStops, ClaimCheckBoard, ClaimCheckTask, ClaimCommand,
          ClaimReadBack, AgentReturns, RunFails, RunEscapes, Judge, RecordCheck,
          RecordCommand, RecordVerify, GoOn, Goto, heldVars
    <3>5. current[p] \in Tasks
      BY <3>4, KanbanAssumption DEF BaseInv, ChoiceInv
    <3>6. /\ NextRun \in Runs
          /\ status' = [status EXCEPT ![current[p]] = "running"]
          /\ run' = [run EXCEPT ![current[p]] = NextRun]
          /\ claimant' = [claimant EXCEPT ![NextRun] = p]
          /\ age' = [age EXCEPT ![current[p]] = 0]
      BY <1>1, <3>4, <3>5, ClaimEffect DEF BaseInv, TypeOK
    <3> HIDE DEF NextRun
    <3> QED
      BY <1>1, <3>4, <3>5, <3>6 DEF TypeOK, BoardTypeOK
  <2> QED
    BY <2>1, <2>2
<1> QED
  BY <1>2, <1>3

LEMMA OwnInvCorrect ==
  ASSUME ~MayDrop, Interrupts # "any", TTL > 0
  PROVE  Spec => []OwnInv
<1>1. Init => OwnInv
  BY DEF Init, OwnInv
<1>2. BaseInv /\ OwnInv /\ [Next]_vars => OwnInv'
  BY NextOwn
<1> QED
  BY <1>1, <1>2, BaseCorrect, PTL DEF Spec

\* The run a supervisor will close is one it claimed itself: whatever it reads
\* back after its claim is its own, with any number of rivals, crashes and
\* lapsed claims, as long as hermes does what it reports and nobody interrupts
\* the task in the moment between the claim and the reading back.
THEOREM OwnRunCorrect ==
  ASSUME ~MayDrop, Interrupts # "any", TTL > 0
  PROVE  Spec => []HoldsOwnRun
<1>1. OwnInv => HoldsOwnRun
  BY DEF OwnInv, HoldsOwnRun
<1> QED
  BY <1>1, OwnInvCorrect, PTL

\* A supervisor that holds a run has it to itself: the claim stands and its age
\* is the time the agent and the replays took.
LEMMA NextOutlast ==
  ASSUME Interrupts = "abandoned", ReplayTicks < Margin,
         BaseInv, OwnInv, OutlastInv, [Next]_vars
  PROVE  OutlastInv'
<1> SUFFICES ASSUME NEW p \in Supervisors, phase'[p] \in RunPhases
             PROVE  /\ status'[current'[p]] = "running"
                    /\ run'[current'[p]] = held'[p]
                    /\ age'[current'[p]] = elapsed'[p]
                    /\ elapsed'[p] <= HandoffTimeout + ReplayTicks
                    /\ phase'[p] = "running" => elapsed'[p] <= HandoffTimeout
  BY DEF OutlastInv, Holds
<1> USE DEF RunPhases
<1>1. /\ TypeOK
      /\ HandoffTimeout \in Nat /\ ReplayTicks \in Nat /\ Margin \in Nat
      /\ TTL = HandoffTimeout + Margin
  BY KanbanAssumption DEF BaseInv
<1>2. ASSUME phase[p] \in RunPhases
      PROVE  /\ current[p] \in Tasks /\ held[p] \in Runs
             /\ status[current[p]] = "running" /\ run[current[p]] = held[p]
             /\ age[current[p]] = elapsed[p] /\ elapsed[p] \in Nat
             /\ elapsed[p] <= HandoffTimeout + ReplayTicks
             /\ phase[p] = "running" => elapsed[p] <= HandoffTimeout
             /\ claimant[run[current[p]]] = p
             /\ age[current[p]] < TTL
             /\ ~MayInterrupt(current[p])
  <2>1. current[p] \in Tasks /\ held[p] \in Runs
    BY <1>2, KanbanAssumption DEF BaseInv, ChoiceInv
  <2>2. /\ status[current[p]] = "running" /\ run[current[p]] = held[p]
        /\ age[current[p]] = elapsed[p]
        /\ elapsed[p] <= HandoffTimeout + ReplayTicks
        /\ phase[p] = "running" => elapsed[p] <= HandoffTimeout
    BY <1>2 DEF OutlastInv, Holds
  <2>3. claimant[held[p]] = p
    BY <2>1, BoardAssumption DEF OwnInv, Runs
  <2>4. elapsed[p] \in Nat
    BY <1>1 DEF TypeOK
  <2>5. age[current[p]] < TTL
    BY <1>1, <2>2, <2>4
  <2>6. ~MayInterrupt(current[p])
    BY <1>2 DEF MayInterrupt
  <2> QED
    BY <2>1, <2>2, <2>3, <2>4, <2>5, <2>6
<1>3. ~RecordCommand(p)
  BY <1>1, ExitEffect DEF RecordCommand, Goto, TypeOK
<1>4. CASE Tick
  <2>1. /\ UNCHANGED <<status, phase, current, held, run>>
        /\ elapsed' = [o \in Supervisors |-> IF phase[o] \in {"running", "judging"}
                                             THEN elapsed[o] + 1 ELSE elapsed[o]]
        /\ age' = [t \in Tasks |-> IF status[t] = "running" /\ age[t] < TTL
                                   THEN age[t] + 1 ELSE age[t]]
        /\ phase[p] \in {"running", "judging"}
        /\ phase[p] = "running" => elapsed[p] < HandoffTimeout
        /\ phase[p] = "judging" => elapsed[p] < HandoffTimeout + ReplayTicks
    BY <1>4 DEF Tick, TimePasses, ClaimsAge
  <2> QED
    BY <1>1, <1>2, <2>1
<1>5. CASE ~Tick /\ phase[p] \in RunPhases
           /\ UNCHANGED <<current[p], held[p], elapsed[p]>>
           /\ (phase'[p] = "running" => phase[p] = "running")
  <2>1. Stands(current[p]) /\ age'[current[p]] = age[current[p]]
    BY <1>2, <1>5, <1>3, OwnRunStands
  <2> QED
    BY <1>2, <1>5, <2>1 DEF Stands
<1>6. CASE (Start(p) \/ Progress(p) \/ Crash(p)) /\ ~ClaimReadBack(p)
  <2>1. ~Exit(p)
    BY <1>1, ExitEffect
  <2>2. /\ phase[p] \in RunPhases
        /\ UNCHANGED <<current[p], held[p], elapsed[p]>>
        /\ (phase'[p] = "running" => phase[p] = "running")
    BY <1>1, <1>6, <1>3, <2>1
    DEF TypeOK, Start, Progress, Crash, Select, SelectStops, ClaimCheckBoard, ClaimCheckTask, ClaimCommand,
        AgentReturns, RunFails, RunEscapes, Judge, RecordCheck, RecordVerify,
        GoOn, Goto, heldVars
  <2>3. CASE ~Tick
    BY <1>5, <2>2, <2>3
  <2> QED
    BY <1>4, <2>3
<1>7. CASE ClaimReadBack(p)
  <2>1. ~Exit(p)
    BY <1>1, ExitEffect
  <2>2. /\ phase[p] = "claimed" /\ status[current[p]] = "running"
        /\ UNCHANGED <<boardVars, current>>
        /\ held'[p] = run[current[p]] /\ elapsed'[p] = 0
    BY <1>1, <1>7, <2>1 DEF ClaimReadBack, TypeOK
  <2>3. age[current[p]] = 0
    BY <2>2 DEF OwnInv
  <2> QED
    BY <1>1, <2>2, <2>3 DEF boardVars
<1>8. ASSUME NEW q \in Supervisors \ {p}, Start(q) \/ Progress(q) \/ Crash(q)
      PROVE  /\ phase[p] \in RunPhases /\ phase'[p] = phase[p]
             /\ UNCHANGED <<current[p], held[p], elapsed[p]>>
  BY <1>8, SupervisorFrame DEF BaseInv, Untouched
<1>9. CASE ~Tick /\ ((\E t \in Tasks : Lapse(t) \/ PersonActs(t) \/ GatewayActs(t))
                      \/ UNCHANGED vars)
  <2>1. UNCHANGED <<phase, current, held, elapsed>>
    BY <1>9, EnvironmentFrame
  <2> QED
    BY <1>5, <1>9, <2>1
<1> QED
  BY <1>4, <1>5, <1>6, <1>7, <1>8, <1>9 DEF Next

\* While a supervisor runs and judges a slice its claim stands: the TTL outlasts
\* the agent and the replays, as long as those end within the margin, hermes
\* does what it reports, and people interrupt only runs whose supervisor is gone.
THEOREM ClaimCorrect ==
  ASSUME ~MayDrop, Interrupts = "abandoned", ReplayTicks < Margin
  PROVE  Spec => []ClaimOutlastsRun
<1>1. TTL > 0 /\ Interrupts # "any"
  BY KanbanAssumption
<1>2. Spec => []OwnInv
  BY <1>1, OwnInvCorrect
<1>3. Init => OutlastInv
  BY DEF Init, OutlastInv, Holds, RunPhases
<1>4. BaseInv /\ OwnInv /\ OutlastInv /\ [Next]_vars => OutlastInv'
  BY NextOutlast
<1>5. OutlastInv => ClaimOutlastsRun
  BY DEF OutlastInv, ClaimOutlastsRun
<1> QED
  BY <1>2, <1>3, <1>4, <1>5, BaseCorrect, PTL DEF Spec

\* No two supervisors ever run the same slice.
OneHolder ==
  \A p, q \in Supervisors : Holds(p) /\ Holds(q) /\ current[p] = current[q] => p = q

\* The claim is what keeps overlapping invocations apart: under the same
\* conditions no two of them have the same slice in hand between the launch of
\* the agent and the record of its verdict.
THEOREM OneHolderCorrect ==
  ASSUME ~MayDrop, Interrupts = "abandoned", ReplayTicks < Margin
  PROVE  Spec => []OneHolder
<1>1. TTL > 0 /\ Interrupts # "any"
  BY KanbanAssumption
<1>2. BaseInv /\ HoldsOwnRun /\ ClaimOutlastsRun => OneHolder
  <2> SUFFICES ASSUME BaseInv, HoldsOwnRun, ClaimOutlastsRun,
                      NEW p \in Supervisors, NEW q \in Supervisors,
                      Holds(p), Holds(q), current[p] = current[q]
               PROVE  p = q
    BY DEF OneHolder
  <2>1. held[p] = held[q] /\ held[p] # 0
    BY BoardAssumption DEF ClaimOutlastsRun, BaseInv, ChoiceInv, Holds, Runs
  <2> QED
    BY <2>1 DEF HoldsOwnRun
<1> QED
  BY <1>1, <1>2, OwnRunCorrect, ClaimCorrect, BaseCorrect, PTL
=============================================================================
