----------------------------- MODULE HermesBoard -----------------------------
(***************************************************************************)
(* A Hermes Kanban board, as far as the supervisor depends on it.  Hermes is *)
(* not part of this repository: its commands, its gateway and its claim      *)
(* expiry are modelled from how kanban_writer.py and kanban_projection.py    *)
(* use them and from the guards the tests' stand-in hermes applies           *)
(* (automation/tests/test_kanban_writer.py).  Each command is one SQLite     *)
(* transaction, so one step.                                                 *)
(***************************************************************************)
EXTENDS Integers, FiniteSets

CONSTANTS
  Tasks,          \* the cards of the board
  InitialParents, \* task -> the tasks linked above it when the system starts
  Linkable,       \* bound: the links, <<parent, child>>, people make and cut
  InitialStatus,  \* task -> its status when the system starts
  InitialAssigned,\* the tasks that have an assignee then
  Assignable,     \* bound: the tasks whose assignee people change
  MaxRuns,        \* bound: how many runs the board may ever record
  Workers,        \* the supervisors that may claim through the command line
  Gateway,        \* the dispatcher, which claims what is assigned
  Nobody,         \* no claimant
  TTL             \* a command-line claim lapses after so many ticks

TaskStatuses == {"triage", "scheduled", "todo", "ready", "running", "review",
                 "blocked", "done", "archived"}
Terminal == {"done", "archived"}
Outcomes == {"none", "running", "review_requested", "blocked", "reclaimed", "completed"}

ASSUME BoardAssumption ==
  /\ InitialParents \in [Tasks -> SUBSET Tasks]
  /\ Linkable \subseteq Tasks \X Tasks /\ Assignable \subseteq Tasks
  /\ InitialStatus \in [Tasks -> TaskStatuses \ {"running"}]
  /\ InitialAssigned \subseteq Tasks
  /\ MaxRuns \in Nat
  /\ Gateway \notin Workers /\ Nobody \notin Workers \cup {Gateway}
  /\ TTL \in Nat

VARIABLES
  status,     \* task -> its column
  parents,    \* task -> the tasks linked above it
  assigned,   \* the tasks with an assignee
  run,        \* task -> current_run_id, 0 when it has none
  outcome,    \* run -> "running", or how it ended; "none" until it exists
  claimant,   \* history: run -> who claimed it
  age         \* task -> ticks since it was claimed, up to TTL

boardVars == <<status, parents, assigned, run, outcome, claimant, age>>

Runs == 1..MaxRuns

BoardInit ==
  /\ status = InitialStatus
  /\ parents = InitialParents
  /\ assigned = InitialAssigned
  /\ run = [t \in Tasks |-> 0]
  /\ outcome = [r \in Runs |-> "none"]
  /\ claimant = [r \in Runs |-> Nobody]
  /\ age = [t \in Tasks |-> 0]

BoardTypeOK ==
  /\ status \in [Tasks -> TaskStatuses]
  /\ parents \in [Tasks -> SUBSET Tasks]
  /\ assigned \subseteq Tasks
  /\ run \in [Tasks -> 0..MaxRuns]
  /\ outcome \in [Runs -> Outcomes]
  /\ claimant \in [Runs -> Workers \cup {Gateway, Nobody}]
  /\ age \in [Tasks -> 0..TTL]

-----------------------------------------------------------------------------
(* Commands. *)

\* A task waits behind a parent that is neither done nor archived.
Open(st, links, t) == \E p \in links[t] : st[p] \notin Terminal

\* Every link is a hard dependency: a waiting task becomes ready as soon as no
\* parent is open, and a task that is linked or put back to ready behind an open
\* parent waits.
Settled(st, links, placed) ==
  [t \in Tasks |->
     IF st[t] = "todo" /\ ~Open(st, links, t) THEN "ready"
     ELSE IF st[t] = "ready" /\ t \in placed /\ Open(st, links, t) THEN "todo"
     ELSE st[t]]

Place(t, column) ==
  status' = Settled([status EXCEPT ![t] = column], parents, {t})

NextRun == 1 + Cardinality({r \in Runs : outcome[r] # "none"})

\* hermes kanban claim: only a ready task, under a new run.
HermesClaim(t, who) ==
  /\ status[t] = "ready"
  /\ NextRun \in Runs
  /\ status' = [status EXCEPT ![t] = "running"]
  /\ run' = [run EXCEPT ![t] = NextRun]
  /\ outcome' = [outcome EXCEPT ![NextRun] = "running"]
  /\ claimant' = [claimant EXCEPT ![NextRun] = who]
  /\ age' = [age EXCEPT ![t] = 0]
  /\ UNCHANGED <<parents, assigned>>

\* The current run of a running task ends.
EndRun(t, column, result) ==
  /\ status[t] = "running"
  /\ Place(t, column)
  /\ outcome' = [outcome EXCEPT ![run[t]] = result]
  /\ run' = [run EXCEPT ![t] = 0]
  /\ age' = [age EXCEPT ![t] = 0]
  /\ UNCHANGED <<parents, assigned, claimant>>

\* hermes kanban request-review or block, conditional on expected_run_id.
HermesEnds(t, expected, column, result) ==
  /\ run[t] = expected
  /\ EndRun(t, column, result)

-----------------------------------------------------------------------------
(* The gateway, the clock of a claim, and people. *)

GatewayClaims(t) == t \in assigned /\ HermesClaim(t, Gateway)

GatewayEnds(t) ==
  /\ status[t] = "running"
  /\ claimant[run[t]] = Gateway
  /\ \/ EndRun(t, "review", "review_requested")
     \/ EndRun(t, "blocked", "blocked")
     \/ EndRun(t, "done", "completed")

\* A claim nobody renewed lapses.  The gateway renews its own.
Expire(t) ==
  /\ status[t] = "running"
  /\ claimant[run[t]] \in Workers
  /\ age[t] = TTL
  /\ EndRun(t, "ready", "reclaimed")

ClaimsAge ==
  age' = [t \in Tasks |-> IF status[t] = "running" /\ age[t] < TTL
                          THEN age[t] + 1 ELSE age[t]]

\* A person approves or returns a review, unblocks, plans or archives a card.
PersonMoves(t) ==
  /\ \E move \in {<<"review", "done">>, <<"review", "ready">>, <<"blocked", "ready">>,
                  <<"ready", "blocked">>, <<"scheduled", "ready">>,
                  <<"blocked", "archived">>} :
       /\ status[t] = move[1]
       /\ Place(t, move[2])
  /\ UNCHANGED <<parents, assigned, run, outcome, claimant, age>>

\* A person links a task behind another, or cuts the link.
PersonLinks(t, d) ==
  /\ parents' = [parents EXCEPT ![t] = IF d \in @ THEN @ \ {d} ELSE @ \cup {d}]
  /\ status' = Settled(status, parents', IF d \in parents[t] THEN {} ELSE {t})
  /\ UNCHANGED <<assigned, run, outcome, claimant, age>>

PersonAssigns(t) ==
  /\ t \in Assignable
  /\ status[t] # "running"
  /\ assigned' = IF t \in assigned THEN assigned \ {t} ELSE assigned \cup {t}
  /\ UNCHANGED <<status, parents, run, outcome, claimant, age>>

\* hermes kanban reclaim, or a person who blocks a running card.
PersonInterrupts(t) == EndRun(t, "ready", "reclaimed") \/ EndRun(t, "blocked", "blocked")
=============================================================================
