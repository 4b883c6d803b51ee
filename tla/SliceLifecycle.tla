--------------------------- MODULE SliceLifecycle ---------------------------
(***************************************************************************)
(* What the queue promises, whoever implements it (automation/README.md,     *)
(* "Lifecycle", "Queue Model" and "Continuation Policy"): one slice runs at  *)
(* a time, only a queued slice whose dependencies are done is started, and a *)
(* slice in progress gets one verdict.  Only a person moves a slice back to  *)
(* the queue, or parks one, and nothing reopens a slice that is done.        *)
(***************************************************************************)
CONSTANTS Slices, DependsOn, InitialQueue

VARIABLE status     \* slice -> its status

Init == status = InitialQueue

Set(s, value) == status' = [status EXCEPT ![s] = value]

Idle == \A s \in Slices : status[s] # "in_progress"

Begin(s) ==
  /\ Idle
  /\ status[s] = "queued"
  /\ \A d \in DependsOn[s] : status[d] = "done"
  /\ Set(s, "in_progress")

Finish(s) ==
  /\ status[s] = "in_progress"
  /\ \E v \in {"done", "blocked", "failed"} : Set(s, v)

\* Landed elsewhere and accepted without a run.
CloseQueued(s) == status[s] = "queued" /\ Set(s, "done")

Requeue(s) ==
  /\ status[s] \in {"blocked", "deferred", "failed", "in_progress"}
  /\ Set(s, "queued")

Park(s) == status[s] = "queued" /\ Set(s, "deferred")

Next ==
  \E s \in Slices : Begin(s) \/ Finish(s) \/ CloseQueued(s) \/ Requeue(s) \/ Park(s)

Spec == Init /\ [][Next]_status
=============================================================================
