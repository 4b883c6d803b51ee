# Verification of repo-automation

TLA+ models of the repository's own core logic, TLC configurations that check
them on small instances, and TLAPS proofs of the results that matter most for
every instance. Paths below are those of the repository; line numbers are those
of the commit the models were translated from, and `PROJECT.json` maps every
definition to the lines it stands for.

To check a run: `tlc -config MCJsonSolo.cfg MCJsonSupervisor`. To check the
proofs: `tlapm JsonSupervisorProofs.tla`, and likewise for the other modules
whose name ends in Proofs.

## 1. The system

repo-automation drives coding agents through a queue of small, pre-classified
*slices*. A **supervisor** takes the first eligible slice, writes a prompt and a
context bundle, runs an agent, judges the handoff document the agent leaves, and
records a verdict; it may chain into the next slice only under written gates.
An **evaluator** closes slices whose work landed by another way. The queue is a
JSON file, or a Hermes **Kanban board** seen through a projection. An
**importer** vendors the toolchain into consumer repositories. A **benchmark**
measures what the harness adds, on ProgramBench tasks.

Nothing here is a server: every program is a short-lived process, and what makes
it hard is that these processes, people, agents, git and Hermes change the same
files and boards in between each other's steps, without locks.

### Inventory

| component | state it keeps | operations | talks to | what is hard | what makes it correct | status |
|---|---|---|---|---|---|---|
| queue policy, `automation/supervisor/policy.py` | none | load and validate the queue, select, evaluate a completion, choose the follower | both supervisors, evaluator, context | order of checks, last proof wins, ties, the limit's off-by-one, who is counted as done | verdict and follower are those the documented conditions give | modelled |
| supervisor on the JSON queue, `run_next.py` | the queue file; in memory the slice, a queue snapshot, the dirt before the run, the run counter | start, select, claim, run agent, judge, record, chain | queue file, git, agent shell, operator, evaluator | unlocked read-modify-write, stale snapshot, kills, exceptions, timeouts, orphaned agents | documented lifecycle; one slice in progress; done only if earned; chain bounded; an invocation ends | modelled |
| handoff evaluator, `evaluate_handoff.py` | the queue file | judge a commit range, close the slice | git, queue file | two commits *and* the working tree are read; renames; write after check | accepts exactly what the documentation says; writes nothing otherwise | modelled |
| supervisor on a board, `kanban_projection.py`, `kanban_writer.py`, `KanbanQueue` in `run_next.py` | the board (in Hermes); in memory the claim | project, claim, read back, record | hermes commands, gateway, people, claim expiry | check-then-act across processes, calls that time out with effect or report success without, expiry | never ahead of an approval; never closes a task itself; closes only its own run; a claim lasts as long as its run | modelled |
| queue and handoff contracts, `schemas/models.py` | none | field validation | all of the above | - | the types the policy relies on | partly |
| sync importer, `Tools/repo-automation-sync.sh` | consumer tree and index, canonical checkout | check, plan, guard, copy, delete | git on both sides, the quality command, people | plan before write, torn copies, overlapping ownership, ignored files | owned files and local work survive; refusals change nothing; imports the pin | partly |
| Kanban shadow comparison, `kanban_projection.py` | none | `shadow_diff` | - | matching by id | reports every difference | not modelled |
| agent runner wrapper, `run_agent.sh` | per-session throwaway home, controls receipt | choose a runner, refuse, launch, probe the sandbox | environment, agent programs, witness | precedence of the sources of a runner choice; the probe's barrier | an explicit choice is never replaced by another | not modelled |
| context bundle, `context/build_context.py` | none | pick documents and the previous handoff | git, memory | failure escapes into the supervisor | - | not modelled |
| memory client, `context/memory.py` | none of its own: a bank on a server, and the checkout its provenance speaks of | recall, retain, reflect, snapshot | Hindsight over HTTP, people at the checkout | partial, late or refused answers; a bank that changes between pages; sources that change between retain and recall | what is handed on is of the version that was read; a bank that only grew or shrank is never captured in part | partly |
| wiki compiler, `context/swarm_wiki.py` | none | verify a pinned compiler, run it | git | - | runs only the pin | not modelled |
| benchmark experiment, `benchmark/lanes.py`, `run.py`, `instances.py` | cells on disk | interleave, run, skip, summarise, compare | adapter, eval runner | partly run matrices, re-scored directories | only valid, adjacent lanes are compared | not modelled |
| benchmark strategies, `strategies.py`, `last_build.py`, `jspace.py` | workspace, artifacts, phase budgets | research, plan, implement, compact, hold, put back, restore | agent sessions | kills at any step, fallbacks, leftovers between phases | a phase gets only what the previous one handed on; what is graded was built; the time meant for implement is left for it | partly |
| submission adapter, `adapter.py` | workspace, archive | prepare, run with a timeout and a grace, archive | Hermes, witness | late exit after SIGTERM | the archive holds what the strategy left | partly |
| witness and probe, `witness.py`, `probe.py`, `cleanroom.py` | sets of container ids, receipts | poll, record, release, reap | docker, sessions | a thread against short-lived containers, a barrier inside them | sees every container that can still write, reaps only its own | partly |
| scoring and diagnosis, `scoring.py`, `diagnosis.py`, `evalrunner.py` | none | arithmetic and classification of files | - | missing evidence | absent is not the same as zero | not modelled |
| repository guards, workflows, plugin skills | none | checks, configuration | - | - | - | not modelled |

Hazards, each at its line, with the properties that would catch it, are listed
in `PROJECT.json`; those of the parts not modelled yet are there too, and drive
the plan in section 8.

## 2. The modules

```
SliceSelection          when a queue loads, what runs next, what may follow
  |-- SlicePolicy       scope, budget, validations, replays, proofs: the verdict
  |     |-- CompletionReview    evaluate_completion against the documented conditions
  |     |-- HandoffEvaluation   the evaluator's judgement of one commit range
  |     |     `- both judged input by input in Reviews
  |     `-- JsonSupervisor      supervisors, evaluators, agents and the operator on one file
  |             `- refines SliceLifecycle, the documented life of a slice
  `-- KanbanSupervisor  (with HermesBoard) supervisors on a shared board
ConsumerImport          the sync importer between two checkouts
MemoryClient            (with HindsightBank) retain, recall and snapshot against a bank
BenchmarkCell           one cell of lanes C, D and E, on SandboxWitness, the watch over containers
MC*                     small instances for TLC
*Proofs                 theorems for every instance
```

**SliceSelection, SlicePolicy** (`policy.py`). A queue is a function from slices
to statuses; the rest of a slice record is constant (`Contract`, `DependsOn`,
`Priority`, `Position`). A path prefix is the set of the paths under it, a
validation or a proof type a member of a small set. The order of the checks in
`evaluate_completion` and `recommendation_refusal` is kept, since it decides
what is reported. Cycles and unknown names are rejected by `load_queue` and so
cannot be constants.

**CompletionReview** and **HandoffEvaluation** each have one step, which applies
the whole function to one of many inputs. The second half of each module states
the documented conditions without using the operators that model the code.
Nothing in them changes between steps, so **Reviews** puts them side by side on
one queue: an initial state is an input of one of the two. `ReviewAssumption`
says what an input is; the inputs themselves are constants, which `MCReviews`
enumerates and the theorems leave open. HandoffEvaluation keeps three sources
apart: the record at base, the record at head, and the supervisor-owned paths of
the working tree.

**JsonSupervisor** (`run_next.py`, `evaluate_handoff.py`). `phase` is the line
`main()` is at; `view`, `before`, `runs` and `verdict` are its locals. The file
is replaced atomically (`write_json`) but `set_status` is a read and a write, so
each status change is two actions (`ClaimRead`/`ClaimWrite`,
`RecordRead`/`RecordWrite`, `CloseRead`/`CloseWrite`) with `snap` between them:
other processes and the operator act in the middle. So they do between the load
of the queue (`Select`) and git status (`Inspect`). The operator may requeue or
park any slice at any moment; with `OperatorYields` the slice a process has in
hand is left alone, and nothing is written while a status change is half made,
which no code enforces. Every way an agent may end
is an action. A timeout kills the shell only, so the agent may stay as `orphan`
and go on editing. `RunEscapes` is the exception `main()` does not catch.
Starting is refused, and the evaluator's rejections are, without a step. The
handoff a stale file could hold is among `Handoffs`. `earned` is a history
variable: the slices for which a run met the documented conditions, or which an
evaluation accepted.

**SliceLifecycle** is the abstract specification: five moves of one slice.
`ImplementsLifecycle` is its specification with `status <- queue`.

**HermesBoard** is external: what Hermes' commands, gateway and claim expiry do,
as far as `kanban_writer.py`, `kanban_projection.py` and the stand-in of
`tests/test_kanban_writer.py` show. Links are part of the board: people make and
cut those from tasks nobody approved, and Hermes settles columns by them.
**KanbanSupervisor** is the loop on it. The revision a projection was read at is
the columns and links of that moment. A claim is four steps: the board is read
and its revision compared (`ClaimCheckBoard`), the task is read and checked
(`ClaimCheckTask`), hermes is called, and the task is read back; each is a
transaction of its own. A record is three (check, command, verify). A command
may succeed, be refused, time out with or without
effect and, with `MayDrop`, report success without effect. The policy's verdict
on a handoff is an arbitrary choice here, since SlicePolicy and CompletionReview
settle it; the eligibility of a follower is not, since the chain depends on it.

**ConsumerImport** (`repo-automation-sync.sh`). Two trees of files; a file's
content is what a commit has, an uncommitted edit, a torn copy, or nothing. The
consumer has an index besides its last commit. The
plan is computed (`Plan`), guarded (`GuardPasses`), and then carried out one
file at a time (`Write`, `Delete`), where it may be killed, possibly inside a
copy. What git status says of tracked files depends on which removals and
additions of the index it takes for renames: that is git's to say, so
`RenamedFrom` is every pairing it could make, and `LocallyModified` leaves out
the old path of each, as the script does. People edit, restore, stage and commit
in the consumer, and work in the canonical checkout while no import runs.

**HindsightBank** is external: a server that carries out a retain when it
arrives, or loses it, and that consolidates and forgets by itself.
**MemoryClient** (`memory.py`) is `retain`, `recall_section` and `snapshot` over
it. `Retain` puts one request on the `wire` and returns: the answer decides
nothing here. A recall is a question (`Recall`), an answer of arbitrary units
(`Answered`, `Unavailable`), and then one step per result (`Shape`), since
`shape_recall` digests a source when it meets the first result of it and people
may edit the checkout between two results. A snapshot is one `Page` per request,
and the bank may change between pages. `requests` and `changes` are history
variables.

**SandboxWitness** (`witness.py`) is a thread that polls Docker while a session
starts and removes containers. `Look` lists, `Inspect` inspects one container of
the list, which may be gone by then; `LastLook` is the look after the session is
over; `NoneObserved` and `Survivors` are the two outcomes of `_after_exit` and
`Reap` and `Reclaim` what it does about survivors.

**BenchmarkCell** (`strategies.py`, `last_build.py`, and the session runner and
archive of `adapter.py`) is `RpiStrategy.execute` in lanes C, D and E around that
witness. `step` is where `execute()` is: `Begin` computes the budget, holds the
workspace and starts a session; `SessionEnds` is the return of the session
runner, by itself or by a kill; the witness follows; `Settle` puts the workspace
back and decides what the next phase is handed, or fails to (`PutBackFails`),
which ends the cell; `Finish` restores the last build
after implement; `Close` archives or refuses. In between, the tools in the
containers edit the workspace and the artifacts, and run `build.sh`, which is
four steps (`Compiles`, `Records`, `Recorded`, `Moves`), any of which a kill may
be the last to see. A container may go on after the session was killed, and with
`MayStartLate` one may even be started then. `lastBuilt` and `administered` are
history variables: the source of the last `build.sh` that ended well, and that
each phase was handed what its lane owes it.

## 3. The runs

Passing runs:

| run | what it asks | size |
|---|---|---|
| `MCJsonSolo` | one supervisor, killed at any step, failing in every way, and an operator who edits at any moment what it has not in hand: does the file live the documented lifecycle, is what is launched ready, does an invocation end? | 113,024 states, fair |
| `MCJsonShared` | two supervisors and an evaluator, killable, on one file without a lock: is a slice ever done that nobody earned? | 4.5 M states |
| `MCReviews` | `evaluate_completion` against the eight documented conditions and the proof gate, and `evaluate` against the documented admission, scope, budget, validations and proofs | 67,824 states |
| `MCKanban` | two supervisors, gateway and people, late calls and crashes, while people leave running tasks alone: is a claim a lock? | 2.3 M states |
| `MCKanbanApproval` | calls that lie, claims that lapse at once, people who review, link, assign, block and reclaim at any moment: can a slice be claimed ahead of an approval, or a chain go on ahead of its record? | 3.6 M states |
| `MCConsumerImport` | checks and imports of any of four manifests at either of two commits, killed anywhere, while people edit, stage and commit: do the protections hold? | 3.6 M states |
| `MCMemory` | a recall and an export while retains are late or lost, the bank consolidates and forgets, and people edit the checkout: is what is handed on of one reading, and what only grew or shrank refused? | 1.5 M states |
| `MCBenchmarkCell` | a cell of lanes C, D and E with an ample and a tiny budget, sessions killed anywhere and containers that outlive them: is what is graded the lane's own, and the last build? | 5.1 M states |

What they show:

- On the JSON queue a single supervisor keeps the promise of a lock it does not
  have: at most one slice in progress, dependencies closed before dependents, no
  chain past a run that is not recorded as done, at most `Limit` runs behind an
  invocation, nothing launched before what it depends on is done, and a file that
  moves only as SliceLifecycle allows, whatever is killed. The operator keeps out
  of its way there, for the sake of the lifecycle; all the rest holds for one who
  does not, too (sections 6 and 7). An invocation ends, unless it hangs in git,
  in the context bundle or in the replays.
- With several writers the locks are gone (section 6) but `DoneWasEarned` stays:
  snapshots written over each other lose updates and bring old statuses back, and
  yet no interleaving makes a slice done that no run and no evaluation earned.
- `evaluate_completion` and `evaluate` decide exactly what the documentation
  lists. The reference takes the file budget as two counts and the
  supervisor-owned paths from the working tree, as the code does (section 6).
- On a board, the claim protocol makes every held run the supervisor's own and
  keeps it for as long as the agent and the replays take, if the replays fit the
  margin and people leave a running task alone, the moment before its run id is
  read back included. `LaunchAfterApproval` and `ChainsPastRecorded` do not
  depend on any of that: whatever is linked, taken back from approval or
  reclaimed between the projection and the call, hermes gives a supervisor no
  slice with an open parent.
- The importer never touches what the consumer owns, and never overwrites or
  removes a tracked file whose content the consumer's last commit does not have,
  renames that are staged included; whatever it
  refuses it leaves everything alone, and after a sync `--check` passes and the
  files are those of the pin, provided the canonical checkout holds no ignored
  file.
- A recall never mixes versions: whatever the bank holds, a text that is handed
  to an agent is of the version of its source that this recall read. An export
  asks for at most one page more than it has rows, and if it ends well and the
  bank only grew or only shrank meanwhile, then it did neither.
- In a cell, every container that could still write into the workspace is gone,
  or the cell will be refused, before the harness touches the workspace again;
  so nothing crosses from phase to phase but artifacts, a killed implement phase
  is graded on the source of the last build that ended well, and implement is
  left its share of the budget. If the budget is ample, a result that is
  reported valid was produced under the treatment its lane names.

Runs that are expected to fail, one finding each:

| run | property | finding |
|---|---|---|
| `MCJsonBlockedUnloadable` | `StaysLoadable` | A handoff that reports `blocked` makes `main()` write that status on a slice without `entry_condition`, which `load_queue` then refuses for ever (`automation/README.md:111` requires the field of blocked slices). |
| `MCJsonParked` | `ParkedStaysParked` | Nothing looks at a slice again between its selection and the write of its claim, while git runs and the context bundle is built: a slice somebody parks in that window is started and its deferral lost (`automation/README.md:111` says that its entry condition "must become true before the slice may run"). |
| `MCHandoffMoved` | `NothingOutsideChanges` | `git diff --name-only` follows renames: a file moved out of a path beyond the scope is not among the changed files (`automation/README.md:281`). |
| `MCMemoryReplaced` | `CaptureIsTheBank` | A snapshot refuses a bank whose total changes between pages, or one of whose ids repeats. A unit that goes and one that comes, as with one retain that replaces a document, do neither, and the document is taken for a complete one (`memory.py:437-440` and `docs/architecture/memory-interface.md:90` refuse any bank that changed; line 121 says "Complete or nothing"). |

The passing runs keep the first and the third apart: `ParkReady` is every slice
in `MCJsonSolo` (each could be blocked legally), and HandoffEvaluation's reference
speaks of the paths git names. For the fourth, `OneSidedChangesAreRefused` says
what the checks of `snapshot` do achieve.

## 4. Bounds

- *JSON queue.* Three slices: one depending on another, one independent with a
  lower priority and paths of its own, so that selection, waiting, ties and a
  follower on foreign paths all occur. `Limit = 2`: an invocation that must stop
  at the limit and one that may chain. Two paths, two supervisors, one
  evaluator. `MCJsonShared` has two slices, no paths and symmetry in the
  supervisors, since its question is who writes what over what; the theorem
  behind it has no bounds.
- *Policy and evaluator.* A queue of three slices with every status that can
  surround the slice in question, and every combination, by group, of
  reported status, claims, failures, replays, dirt before and after, touched and
  outside paths, proof lists up to two long (two of one type in either order, of
  another slice, of another commit), levels below, at and above what is asked,
  and run counts below, at and above the limit. The groups vary one part of the
  input fully and fix the rest; the checks are conjuncts over separate parts.
- *Board.* Two approved tasks, independent of each other, so that a chain can go
  on and the next task can change between selection and claim; in the approval
  run one is a parent of the other, as is a third, unapproved task, both linked
  after the child became ready. `Linkable` has the links people make and cut:
  that of the unapproved task to the child. Links between approved tasks stay as
  they are, since they are the queue's dependencies, a constant of
  SliceSelection. `Assignable` is the tasks people assign, one of them in
  `MCKanban`. `MaxRuns = 2` runs on the board
  suffice for a claim, its loss and a second claim; the bound disables further
  claims. Time is in ticks: the agent gets one, the replays one, and the margin
  is two, so that a claim made on the edge of a tick outlasts both. In the
  approval run `TTL = 0`: a claim may lapse as soon as it is made.
- *Importer.* A tree with a vendored directory and a directory in it, a template
  directory, and the consumer's queue; manifests that clean, rename a file, cover
  the root, and aim at an owned file; two commits, one of which lacks a file and
  so leaves a directory of a manifest empty. `MaxEdits = 1` is the number of
  files people leave uncommitted in the consumer, and of those they take out of
  its index besides, which suffices for a rename; committing what is there makes
  any combination reachable in steps. `Reworked` is the one file people edit in
  the canonical checkout.
- *Memory.* One source in two versions or missing, since results of different
  sources meet only in the budget of results; three units over the life of the
  bank, pages of two and a limit of two, so that a capture takes one page or
  several, a page may come short or empty, and a bank may be over the limit. The
  expected violation needs a page after the first, and has pages of one. A
  recall keeps one result. The theorems have no bounds.
- *Benchmark cell.* The clock counts units of 150 seconds, in which the ceilings
  of `PHASE_CEILING_SECONDS` are 4, 2, 4, 2 and 10. A budget of 22 holds all of
  them; one of 3 scales them down to 1 and is exhausted on the way. A kill, and the
  harness after it, take nothing or one unit more. One container id, which the
  daemon uses again for later containers, and one container of another program
  that may be there from the start; two versions of the source, which are
  interchangeable (symmetry). `MayStartLate` is off. The theorems lift every
  bound but that last one.
- What the theorems of section 7 assume beyond the types is set in the runs of
  the same properties too: one supervisor in `MCJsonSolo`, a
  consistent initial queue, `OperatorYields`; in `MCKanban` no calls
  that lie, replays within the margin, and people who interrupt only what no live
  supervisor runs or reads back; in `MCConsumerImport` manifests whose entries do
  not overlap, and no ignored files.
- Deadlock is checked everywhere except in `MCReviews`, which stops when the
  input is judged, and `MCBenchmarkCell`, which stops when the cell is graded or
  refused.

## 5. Fairness

`JsonSupervisor!FairSpec` is weak fairness of a live supervisor's steps where the
code bounds what it does: it reads and writes files, and its agent is killed
after `handoff_timeout_seconds` (`run_next.py:308`). What it waits for without a
bound is left out (`Waits`): git status, the context bundle, and after the agent
git and the replays of validations, none of which has a timeout
(`policy.py:490`). So `InvocationEnds` says that an invocation ends or hangs in
one such call for good; it rules out that it goes round for ever, whatever the
operator puts back into the queue. Nothing is assumed of the operator, the
evaluator, an orphan, or of whether a supervisor is ever invoked. Killing and
escaping exceptions are on.

Nothing is assumed to be fair in KanbanSupervisor, ConsumerImport, MemoryClient
and BenchmarkCell, whose properties are safety properties: a session is never
required to end, nor Docker to answer.

## 6. Where the code is weaker than one may think

Met while modelling, and not among the findings of section 3: for most, no line of
the repository promises the opposite, or the deviation is deliberate, or it
concerns a window or a setting that the passing runs exclude by name. Where a constant is named,
changing it shows the weakness.

- The in-progress check is made once per invocation and without a lock. With
  `Supervisors = {p1, p2}` in `MCJsonSolo.cfg`, `OneInProgress` fails.
- The queue file has no lock against its operator either. With
  `OperatorYields = FALSE` in `MCJsonSolo.cfg` `ImplementsLifecycle` fails: a
  supervisor writes back a snapshot that is older than the edit. The other
  properties of that run hold all the same (1.3 M states).
- A handoff that is not JSON raises `ConfigError`, which `run_next.py:232` does
  not catch, and so does a git call that fails: the slice stays in progress
  without any crash, nothing is recorded, and every later invocation stops at it
  until a person requeues it. A handoff of the wrong form is recorded as failed.
  `automation/README.md:66` has the supervisor update the queue after every
  handoff. That each run ends in a verdict is therefore not among the properties.
- The evaluator does not ask whether what a slice depends on is done. With
  `Evaluators = {e1}` in `MCJsonSolo.cfg`, `DependenciesCloseFirst` fails.
- The evaluator ignores the status the handoff reports, and reads the
  supervisor-owned paths from the working tree rather than from the base commit.
- The file budget is the larger of two counts, not the size of their union.
- Replays have no timeout. With `ReplayTicks = 3` in `MCKanban.cfg`,
  `ClaimOutlastsRun` fails.
- The run id is read back after the claim in a transaction of its own. With
  `Interrupts = "any"` in `MCKanban.cfg`, `HoldsOwnRun` fails: a person reclaims
  the task in between and the run is another's (`ClaimOutlastsRun` fails first,
  which is as it should be: a person may end any run).
- The two reads of a claim and the call are three moments
  (`docs/architecture/kanban-projection.md:80` says so). A slice may be claimed that is
  no longer the one to run next, or has an assignee by then; what is left at the
  call is what Hermes itself checks, that the task is ready. `LaunchAfterApproval`
  rests on that, and on Hermes settling columns by the links: every link is a
  hard dependency there
  (`docs/architecture/kanban-projection.md:59`).
- Of a staged rename git status reports the new path as modified and the script
  skips the old one (`repo-automation-sync.sh:403`). A file that was moved away
  with `git mv` is therefore not protected and is written again by the import,
  beside its new place. Its committed content is in the history, so
  `WorkSurvives` holds, but untracked content that was put at the old path
  afterwards is overwritten, as untracked files are everywhere.
- A source directory that holds nothing but files the importer skips is not
  refused: with `delete_stale` the target's is emptied. One that is not there is
  refused. A directory of the model exists as long as it holds a file, so `Plan`
  may do either.
- A file git ignores passes for clean and is imported from a directory entry
  (`docs/workflows/repo-automation.md:204` speaks of a clean checkout only). With
  `Ignored = {"lib/ignored"}` in `MCConsumerImport.cfg`, `ImportsThePin` fails.
- The witness. `docker ps` and `docker inspect` that fail read as "gone". The
  check for a container of an earlier program looks at the records of all
  sessions of the cell, so a session that uses one goes unnoticed if an earlier
  session had a container of its own. Containers that come and go between two
  polls are not seen. Those of another cell that start during the session are
  recorded, and reaped, as this one's, where the comment at `witness.py:317-320`
  means the list to spare containers another cell is still using. A session that
  runs into its ceiling gets SIGTERM, and SIGKILL only if its shell does not exit
  in time (`adapter.py:217`): once the shell has, the rest of its process group
  may go on and start containers. With
  `MayStartLate = TRUE` in `MCBenchmarkCell.cfg`, `NobodyWritesBehind` fails: what
  the daemon starts after the last look is neither recorded nor removed.
- The lanes. A lane that compacts and has no budget left skips the compaction and
  may be reported valid all the same; `ValidMeansAdministered` presupposes a
  budget that outlasts the phases before implement and their kills. Sessions may
  edit any file of `.rpi`, those of other phases included. `put_back` compares
  mode, size and time of a file, not its content, so that an edit that keeps all
  three would cross to the next phase, which the model does not have; and a source that is edited
  while it is recorded is recorded as it then is.
- The comparison of lanes (`lanes.py`, not modelled). `lane_deltas` pairs
  neighbours among the lanes that are present, so that with `--lanes A C` it
  reports C minus A, where `docs/workflows/effectiveness-benchmark.md:604` speaks of
  adjacent lanes only; and a cell that was killed between its archive and its
  `run.json` counts as valid by default.

## 7. What is proved

Eight modules hold proofs, for every value of the constants that satisfies the
assumptions: any number of slices, paths, tasks, supervisors, evaluators, files,
manifests, commits, memory units, containers and versions of a source, any
inputs of the two judges, and any ceilings, budgets, limits and page sizes. The
assumptions are `SliceAssumption` (distinct positions; dependencies are slices),
`ContractAssumption` (contracts are typed, the set of paths finite),
`SupervisorAssumption` (`Limit` positive, the initial queue and the handoffs
typed), `ReviewAssumption` (the inputs are cases the judges can be given),
`BoardAssumption` (nothing runs at the start) and `KanbanAssumption` (slices are
tasks, what a slice depends on are its parents among them, the TTL is the agent's
timeout and the margin), `ImportAssumption` (of two places above a third, one is
above the other: paths form a tree; a torn copy is not the absence of a file),
`MemoryAssumption` (the marks for nothing are not values, limits are positive,
the ids finite in number), `WitnessAssumption` (a cell's containers are not those
that were there) and `CellAssumption` (ceilings and budgets are positive, the
marks distinct). TLC evaluates all of them in the runs. What a theorem assumes
beyond that, it says in its own statement; section 6 tells what happens without.

**SliceSelectionProofs.** The lemmas the supervisors and the judges share.
`SelectNextSlice` is a CHOOSE of the least eligible slice: that there is one rests
on the well-foundedness of the naturals (`LeastNatural`), that it is the only one
on distinct positions (`FirstIsUnique`).

**JsonSupervisorProofs**, for any number of supervisors and evaluators:

- `TypeCorrect`. Needs that `EvaluateCompletion` returns a decision whatever the
  handoff (`CompletionOutcome`), which rests on the type of a selection and of a
  follower.
- `RunLimitCorrect`: `RunLimitHolds` for ever. Not inductive: what an invocation
  does next was decided when the run was counted. `LimitInv` adds that a verdict
  to continue, until recorded, was reached below the limit, and that every
  invocation outside of recording is below it. The step that matters is `Judge`,
  by the lemma that a decision to continue implies the limit is not reached.
- `DoneEarned`: `DoneWasEarned` for ever. Not inductive, because a snapshot
  taken earlier is written back later. `EarnedInv` says that everything on its
  way to the file is covered too: each snapshot, each verdict of done about to be
  recorded, each acceptance about to be written. `ChecksSuffice` shows that when
  none of the code's checks refuses, the documented conditions hold.

**SoloSupervisorProofs**, where invocations do not overlap and no evaluator runs
(`Solo`), which the repository leaves to whoever starts them:

- `ChainCorrect` and `LaunchCorrect`: `ChainsPastDone` and `LaunchIsReady`, with an
  operator who edits any slice at any moment, the one in hand included.
  Neither is inductive: the code writes back a snapshot it does not look at again.
  `SoloInv` says why that is safe: the operator neither starts nor closes a slice,
  so what the snapshot says is done is what the file says is done, the snapshot
  has nothing in progress but the slice in hand, and that slice stays undone with
  its dependencies done until it is recorded.
- `OneInProgressCorrect` and `DependenciesCorrect`: `OneInProgress` and
  `DependenciesCloseFirst`, for the same operator, from a queue that begins so.
  Only two actions write
  the queue here (`QueueSteps`), and `SoloInv` tells what each of them finds.
- `LifecycleRefined`: `ImplementsLifecycle`, while the operator keeps out of the
  way (`OperatorYields`). A status
  change is two steps; the first stutters and the second is the abstract move,
  because the snapshot still is the file and the slice to be claimed is still
  queued (`WaitInv`). Together with `SoloInv` each action maps to one of the five
  moves or to none.

**ReviewProofs.** What the functions compute is what the documentation asks, for
every queue, contract, handoff, diff, run count and limit:

- `VerdictCorrect` (`VerdictIsDocumented`). The code asks its questions in an
  order and answers with the first refusal; the documentation is a conjunction.
  `QuestionsAreDocumented` matches them one by one. That the last proof of a type
  decides (`LastProofHolds`) and that the files counted are all those the
  supervisor does not own, once none is out of scope (`BudgetCounts`), are the
  steps that are not propositional.
- `ContinuesCorrect` and `FollowerCorrect` (`ContinuesWhenDocumented`,
  `NamesTheFollower`). The code selects again on a queue in which the slice is
  already done: `EligibleAfterDone` says which slices become eligible by that,
  and `ContinuesWithFirst` that the follower is the first of them and no other.
- `AcceptanceCorrect` (`AcceptanceIsDocumented`), by `JudgementIsDocumented`. The
  property is about a queue that the step writes, so `EvaluationInv` keeps that
  the queue is the input's until the case is judged.

**KanbanSupervisorProofs**, for any number of supervisors. `BaseInv` is the type
invariant with the board's own bookkeeping (a task runs exactly while its run has
not ended, no two tasks share a run, the next run id is new) and what an
invocation has in hand between two steps.

- `TypeCorrect`.
- `ApprovalCorrect` (`LaunchAfterApproval`) and `ChainCorrect`
  (`ChainsPastRecorded`), whatever calls report and people do. The former is
  not inductive, since a card may start out ready behind an open parent:
  `ApprovalInv` says that a selected slice never is, from its selection to its
  claim, however it is linked and moved; the projection vouches for the beginning
  and Hermes' settling for the rest. `ChainInv` carries the
  verdict from judgement to the next round of the loop: what goes on was done, and
  its run has ended on the board as that verdict asks.
- `OwnRunCorrect` (`HoldsOwnRun`), if hermes does what it reports, nobody
  interrupts the task between claim and reading back (`Interrupts # "any"`) and
  the TTL is positive. `OwnInv`: a claim that is being read back is its maker's
  and has age zero, so it cannot lapse in that window.
- `ClaimCorrect` (`ClaimOutlastsRun`) and `OneHolderCorrect`, that no two
  supervisors ever run the same slice, if besides people interrupt only what no
  live supervisor runs and the replays take less than the margin. `OutlastInv` makes
  it inductive: the age of a claim *is* the time of the agent and the replays
  since. It is where the margin is needed.

**ConsumerImportProofs**

- `ImportTypeCorrect`.
- `RefusalSafe`: `RefusalChangesNothing`, inductive as it stands.
- `OwnedSafe`: `OwnedUntouched` as a property of every step. The invariant
  `Guarded` says the entries of the job passed the destination guard and the plan
  names no owned file. The guard looks at the destination only;
  `AcceptedCoversNoneOwned` shows that this protects every file an entry covers,
  and is where the tree is needed: a covered file that is owned would put the
  owned place above, below or at the destination.
- `CheckCorrect`, `WorkCorrect` and `TemplatesCorrect` (`CheckPassesAfterSync`,
  `WorkSurvives`, `TemplatesSurvive`), if no two entries of a manifest cover a
  file in common (`Disjoint`; those of `automation/reusable-manifest.json` do
  not). The plan is made for each entry by itself, and only without an overlap
  does no copy or removal undo another. `SyncInv`: what is still to be written is
  sound, is all that keeps the target from what a check accepts, and, once the
  guard has passed, meets no local work. The last part is `SparesWork`: a
  file with work in it is still in the index, so whatever renames git pairs, none
  is from it, and the guard sees it.
- `PinCorrect` (`ImportsThePin`), if besides no entry covers a file git ignores
  (`NothingIgnored`). `PinInv` keeps the source at the pin from its verification
  to the end of the import.

**MemoryClientProofs**

- `MemoryTypeCorrect`.
- `RecallCorrect`: `RecallIsOneReading`. Not inductive: it takes that text and
  digest agree in every unit with a source, and did in every request still on the
  wire (`Honest`), through every order in which the server carries them out.
- `CaptureCorrect`: `OneSidedChangesAreRefused`. `Counted` says that a bank that only
  grew is larger than announced, one that only shrank is smaller, and one that
  did not change contains what was read; and a part of a finite set with as many
  elements as the set is the set.
- `ExportEnds`: `PagesMakeProgress`. Every page but the last adds a row.

**BenchmarkCellProofs.** All but the first and the fifth assume that the daemon
starts nothing after a session was killed (`~MayStartLate`), without which they
are false (section 6; the last of them with two container ids).

- `CellTypeCorrect`. Needs, beyond the types, where a build can be (`BuildType`)
  and that containers that were there keep apart from the cell's (`OthersKnown`).
- `WorkspaceHandedBack`: `NobodyWritesBehind`. `WatchInv` is what the witness
  knows at each point: a container that exists is in the baseline, or was
  inspected and recorded, or, from the last look on, is listed.
- `PhasesStartClean`: `OnlyArtifactsCross`, by `SpaceInv`: what `hold` archived
  is what the image ships, because the phase before was put back to that.
- `LastBuildIsGraded`: `GradedIsLastBuilt`, by `BuildInv`: from compile to move
  the source in the workspace is the accepted one, and the record is always the
  last build that ended well, whatever the step at which the session is killed.
- `ShareIsKept`: `ImplementKeepsItsShare`, by `TimeInv`: when a phase begins, the
  clock shows at most the ceilings of the phases before and a kill for each.
- `ValidResultsAreTheLane`: `ValidMeansAdministered`, by `TreatmentInv`, which
  needs the two before it: that a compaction is not skipped follows from the
  clock, and that the artifact handed on is still the validated one follows from
  nobody writing behind.

Only model-checked: liveness (`InvocationEnds`), which is out of the prover's reach.
Every other property of a passing run is stated by a theorem.

## 8. What is not modelled, and the plan

Left out of the parts that are modelled: the wording of messages and reports;
`--dry-run` of the supervisor, which writes nothing; the wall clock in handoff
file names; in the importer, the identity check of the target, the source guard
of a manifest entry, the removal of empty directories and the reasons for which
a consumer's interpreter is refused; on the board, titles, priorities and
creators, which the revision also covers (a change of one only refuses a claim, as
`RunEscapes` does), tasks that are reopened after they were done, and links between
approved tasks that change. In the importer, people stay out of the
canonical checkout during an import and out of the consumer once the plan is
made: after that the script has no guard against them, and the hazard list says
so. In the memory client: the character budgets, the checks of endpoint and
credential, `reflect`, whose text is generated, and the file `write_snapshot`
lays down. In the witness: what a record says of image, network and mount, the
probe with its release barrier, and the preflight. In the lanes: A and B, which
are one session each, the prompts, the rules an artifact is validated by, and
J-Space, which is text; in the adapter, the preparation of a cell and its
receipts.

Next, in order:

1. **The probe's barrier** (`run_agent.sh`, `probe.py`, `witness.py:252`): probe
   containers that wait for a marker named after the number of containers
   recorded so far. Properties: a probe is released only after it was recorded,
   and none waits for ever. It takes two containers at a time and fairness of the
   thread, and so an instance of its own.
2. **LaneComparison** (`lanes.py`, `scoring.py`): cells run, skipped, killed,
   resumed and scored again in one directory; which lanes may be subtracted.
3. **AgentRunner** (`run_agent.sh`): the precedence of the sources of a runner,
   over every environment, against the documented order.
4. **Shadow comparison** (`kanban_projection.py`) as operators over the
   projection of KanbanSupervisor.
5. Proofs: what still holds with several supervisors and an evaluator on one
   JSON file besides `DoneWasEarned`, and with it the exact damage an overlap can
   do; each new module of this list with its invariants.

Staying out: the context bundle and the wiki compiler (they read, and format),
the repository guards and workflows (stateless, or configuration), and the
arithmetic of scoring reports.
