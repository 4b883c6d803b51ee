--------------------------- MODULE SliceSelection ---------------------------
(***************************************************************************)
(* The queue policy of the supervisor (automation/supervisor/policy.py): when *)
(* a queue document may be loaded, which slice runs next, and whether another *)
(* may follow a finished one.  A queue is a function from slices to statuses; *)
(* the rest of a slice record is constant.                                    *)
(***************************************************************************)
EXTENDS Integers, FiniteSets, Sequences

CONSTANTS
  Slices,             \* the slice records of the queue
  NoSlice,            \* None: no slice, or an empty recommendation
  UnknownSlice,       \* a recommendation that names no slice of the queue
  Priority,           \* slice -> its priority, lower first
  Position,           \* slice -> its index in the queue document
  DependsOn,          \* slice -> the slices it depends on
  ParkReady           \* slices with an entry_condition and no unknown unblocker

ASSUME SliceAssumption ==
  /\ NoSlice \notin Slices
  /\ UnknownSlice \notin Slices \cup {NoSlice}
  /\ Priority \in [Slices -> Nat]
  /\ Position \in [Slices -> Nat]
  /\ \A s, t \in Slices : Position[s] = Position[t] => s = t
  /\ DependsOn \in [Slices -> SUBSET Slices]
  /\ ParkReady \subseteq Slices

Statuses == {"queued", "in_progress", "blocked", "deferred", "done", "failed"}
Parked   == {"blocked", "deferred"}
Verdicts == {"done", "blocked", "failed"}

Queues == [Slices -> Statuses]

-----------------------------------------------------------------------------
(* Loading and selecting. *)

InProgress(q) == {s \in Slices : q[s] = "in_progress"}

\* The integrity check load_queue applies to every document it reads.
Loadable(q) ==
  /\ \A s, t \in InProgress(q) : s = t
  /\ \A s \in Slices : q[s] \in Parked => s \in ParkReady

\* Mutant: anything that has left the queue counts as done.
DependenciesStarted(q, s) == \A d \in DependsOn[s] : q[d] # "queued"

DependenciesSatisfied(q, s) == \A d \in DependsOn[s] : q[d] = "done"

Eligible(q) == {s \in Slices : q[s] = "queued" /\ DependenciesSatisfied(q, s)}

\* Mutant: the highest priority number first.
PrecedesDescending(s, t) ==
  \/ Priority[s] > Priority[t]
  \/ Priority[s] = Priority[t] /\ Position[s] < Position[t]

Precedes(s, t) ==
  \/ Priority[s] < Priority[t]
  \/ Priority[s] = Priority[t] /\ Position[s] < Position[t]

\* The head of the eligible slices sorted by priority, then position.
First(q) == {s \in Eligible(q) : \A t \in Eligible(q) \ {s} : Precedes(s, t)}

SelectNextSlice(q) == IF First(q) = {} THEN NoSlice ELSE CHOOSE s \in First(q) : TRUE

-----------------------------------------------------------------------------
(* The decision about a run, and about the next one. *)

Decision(status, decision, reason, next) ==
  [status |-> status, decision |-> decision, reason |-> reason, next |-> next]

Choices == {"none", "continue", "stop", "stop_for_review", "stop_blocked", "stop_failed"}
Refusals == {"itself", "unknown", "not queued", "waiting", "none eligible", "not the first"}
Reasons == {"", "run", "reported", "validations", "scope", "budget", "proof", "limit",
            "first eligible", "recommended"} \cup Refusals

Decisions ==
  [status : Statuses, decision : Choices, reason : Reasons, next : Slices \cup {NoSlice}]

Stop(status, decision, reason) == Decision(status, decision, reason, NoSlice)

\* Mutant: whatever is not an outright stop goes on.
ContinuesUnlessStopped(d) == d.decision # "stop"

Continues(d) == d.decision = "continue"

\* Why a recommendation is turned down, in the order the code tries; "" if it is not.
RecommendationRefusal(q, s, recommended, best) ==
  IF recommended = s                               THEN "itself"
  ELSE IF recommended \notin Slices                THEN "unknown"
  ELSE IF q[recommended] # "queued"                THEN "not queued"
  ELSE IF ~DependenciesSatisfied(q, recommended)   THEN "waiting"
  ELSE IF best = NoSlice                           THEN "none eligible"
  ELSE IF best # recommended                       THEN "not the first"
  ELSE ""

\* Mutant: one run more than the limit.
LimitPassed(runs, limit) == runs > limit

LimitReached(runs, limit) == runs >= limit

AfterDone(q, s) == [q EXCEPT ![s] = "done"]

\* The current slice is done; may an autonomous run follow it?
NextSliceEligibility(q, s, recommended, runs, limit) ==
  LET afterDone == AfterDone(q, s)
      best      == SelectNextSlice(afterDone)
      refusal   == RecommendationRefusal(afterDone, s, recommended, best)
      Review(why) == Stop("done", "stop_for_review", why)
  IN  IF LimitReached(runs, limit) THEN Review("limit")
      ELSE IF recommended = NoSlice
      THEN IF best = NoSlice THEN Stop("done", "stop", "none eligible")
           ELSE Decision("done", "continue", "first eligible", best)
      ELSE IF refusal # "" THEN Review(refusal)
           ELSE Decision("done", "continue", "recommended", recommended)
=============================================================================
