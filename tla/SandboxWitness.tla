--------------------------- MODULE SandboxWitness ----------------------------
(***************************************************************************)
(* SandboxWitness of automation/benchmark/witness.py, around the sessions of *)
(* one cell, and the containers of the Docker daemon.  The witness's thread   *)
(* lists and inspects containers while the session starts and removes them;   *)
(* the main thread reaps what is left once the session is over.               *)
(*                                                                           *)
(* The records of earlier sessions have been answered and are left out, but   *)
(* for whether there were any.  What a record says of its image, its network  *)
(* and its mount is left out too: each container is a sound one.             *)
(***************************************************************************)
EXTENDS Naturals

CONSTANTS
  Containers,  \* ids of containers a session starts; each is used by one at a time
  Others       \* Hermes containers that were there before the cell

ASSUME WitnessAssumption == Containers \cap Others = {}

VARIABLES
  exists,      \* what docker ps -a lists
  watch,       \* the thread: "off", "watching" or "last look"
  baseline, seen,  \* what was there at the start, and what was inspected
  listed,      \* listed, and still to be inspected
  records,     \* recorded in this session
  observed,    \* a container was recorded in some session
  leaked,      \* recorded, still there after the exit, and to be removed
  violated     \* violations were noted

witnessVars == <<watch, baseline, seen, listed, records, observed, leaked, violated>>

WitnessTypeOK ==
  /\ exists \subseteq Containers \cup Others
  /\ watch \in {"off", "watching", "last look"}
  /\ baseline \subseteq Containers \cup Others
  /\ \A s \in {seen, listed, records, leaked} : s \subseteq Containers
  /\ observed \in BOOLEAN /\ violated \in BOOLEAN

WitnessInit ==
  /\ exists \in {{}, Others}
  /\ watch = "off" /\ baseline = {} /\ seen = {} /\ listed = {}
  /\ records = {} /\ observed = FALSE /\ leaked = {} /\ violated = FALSE

\* The containers whose tools can still write into the workspace.
Writers == exists \ Others

-----------------------------------------------------------------------------
(* Hermes and the daemon: external. *)

\* Ids are not used again while a session could mistake them.
Starts(c) ==
  /\ c \in Containers \ (exists \cup baseline \cup seen \cup listed)
  /\ exists' = exists \cup {c}

Removes(c) ==
  /\ c \in Writers
  /\ exists' = exists \ {c}

-----------------------------------------------------------------------------
(* The thread. *)

\* watching(), before the session starts.
Watch ==
  /\ watch' = "watching"
  /\ baseline' = exists
  /\ UNCHANGED <<exists, seen, listed, records, observed, leaked, violated>>

New == exists \ (baseline \cup seen)

\* _observe(), during the session.
Look ==
  /\ watch = "watching" /\ listed = {}
  /\ New # {}
  /\ listed' = New
  /\ UNCHANGED <<exists, watch, baseline, seen, records, observed, leaked, violated>>

\* A container that is gone between the listing and the inspection is not
\* claimed, nor looked at again.
Inspect(c) ==
  /\ c \in listed
  /\ listed' = listed \ {c}
  /\ seen' = seen \cup {c}
  /\ records' = IF c \in exists THEN records \cup {c} ELSE records
  /\ observed' = (observed \/ c \in exists)
  /\ UNCHANGED <<exists, watch, baseline, leaked, violated>>

\* Mutant: the thread ends with the session.
LastLookLeftOut ==
  /\ watch = "watching" /\ listed = {}
  /\ watch' = "last look"
  /\ UNCHANGED <<exists, baseline, seen, listed, records, observed, leaked, violated>>

\* The session is over: the thread finishes what it was at and looks once more.
LastLook ==
  /\ watch = "watching" /\ listed = {}
  /\ watch' = "last look"
  /\ listed' = New
  /\ UNCHANGED <<exists, baseline, seen, records, observed, leaked, violated>>

-----------------------------------------------------------------------------
(* _after_exit(), once the thread has been joined. *)

Joined == watch = "last look" /\ listed = {}

\* What the next session does not read.
Forgotten == watch' = "off" /\ baseline' = {} /\ seen' = {} /\ records' = {}

\* No session of the cell has had a container of its own yet: if there was one
\* of Hermes's already, this session may have been using it.
NoneObserved ==
  /\ Joined /\ ~observed
  /\ violated' = (violated \/ baseline # {})
  /\ Forgotten
  /\ UNCHANGED <<exists, listed, observed, leaked>>

\* What survived the session.
Survivors ==
  /\ Joined /\ observed
  /\ leaked' = records \cap exists
  /\ watch' = "off"
  /\ UNCHANGED <<exists, baseline, seen, listed, records, observed, violated>>

\* docker rm -f, by the id of the record; the daemon may refuse.
Reap(c) ==
  /\ c \in leaked
  /\ leaked' = leaked \ {c}
  /\ exists' \in {exists, exists \ {c}}
  /\ UNCHANGED <<watch, baseline, seen, listed, records, observed, violated>>

\* What outlived its removal is a violation, and the workspace is handed back.
Reclaim ==
  /\ leaked = {}
  /\ violated' = (violated \/ records \cap exists # {})
  /\ Forgotten
  /\ UNCHANGED <<exists, listed, observed, leaked>>
=============================================================================
