---------------------------- MODULE MemoryClient -----------------------------
(***************************************************************************)
(* automation/context/memory.py: retain, recall and snapshot of one project  *)
(* whose map grants them, against a bank and a checkout that change in       *)
(* between its steps.                                                        *)
(*                                                                           *)
(* Every call is one request, but a recall checks its results against the    *)
(* checkout one after the other, and a snapshot pages through the bank.      *)
(* reflect() returns generated text and changes nothing, and write_snapshot() *)
(* puts the captured document into a file named after its digest; both are    *)
(* left out.                                                                  *)
(***************************************************************************)
EXTENDS HindsightBank

CONSTANTS
  Granted,     \* the operations the map grants the project
  MaxResults,  \* budget of a recall; the two character budgets are left out
  PageSize,    \* SNAPSHOT_PAGE_SIZE
  MaxMemories, \* max_snapshot_memories
  Missing,     \* no file at a path
  Unread       \* a source this recall has not looked at

ASSUME MemoryAssumption ==
  /\ NoSource \notin Sources
  /\ Missing \notin Texts /\ Unread \notin Texts
  /\ Granted \subseteq {"retain", "recall", "snapshot"}
  /\ IsFiniteSet(Ids)
  /\ MaxResults \in Nat \ {0} /\ PageSize \in Nat \ {0} /\ MaxMemories \in Nat \ {0}

VARIABLES
  file,        \* the checkout
  recalling,   \* where recall_section() is
  answer,      \* results of the response still to be looked at
  digests,     \* sources read by this recall -> what was read
  kept,        \* results that go into the context bundle
  status,      \* of the section
  stage,       \* where snapshot() is
  rows, total, \* its locals
  requests,    \* pages asked for so far: a history variable
  changes      \* how the bank changed since the first page: a history variable

recallVars == <<recalling, answer, digests, kept, status>>
captureVars == <<stage, rows, total, requests, changes>>
vars == <<bankVars, file, recallVars, captureVars>>

Stages == {"idle", "started", "paging", "captured"}
Statuses == {"none", "ok", "empty", "unavailable"}
NothingRead == [s \in Sources |-> Unread]

Init ==
  /\ BankInit
  /\ file \in [Sources -> Texts]
  /\ recalling = "idle" /\ answer = {} /\ digests = NothingRead
  /\ kept = {} /\ status = "none"
  /\ stage = "idle" /\ rows = {} /\ total = 0 /\ requests = 0 /\ changes = {}

-----------------------------------------------------------------------------
(* retain() *)

\* Mutant: the digest is taken by a second reading of the file.
SentTwiceRead(s) == {[source |-> s, digest |-> t, text |-> file[s]] : t \in Texts}

\* The content and its digest are of one reading.
Sent(s) == {[source |-> s, digest |-> file[s], text |-> file[s]]}

\* The answer, or its absence, changes nothing here: a receipt is not proof.
Retain(s) ==
  /\ "retain" \in Granted
  /\ file[s] # Missing
  /\ \E item \in Sent(s) : wire' = wire \cup {item}
  /\ UNCHANGED <<bank, used, file, recallVars, captureVars>>

-----------------------------------------------------------------------------
(* recall_section(), with shape_recall() result by result. *)

Recall ==
  /\ "recall" \in Granted
  /\ recalling = "idle"
  /\ recalling' = "asking"
  /\ digests' = NothingRead /\ kept' = {} /\ status' = "none"
  /\ UNCHANGED <<bankVars, file, answer, captureVars>>

\* The server returns some of its units; a bank that does not exist yet has none.
Answered ==
  /\ recalling = "asking"
  /\ recalling' = "shaping"
  /\ answer' \in SUBSET bank
  /\ UNCHANGED <<bankVars, file, digests, kept, status, captureVars>>

\* A timeout, a refusal or a malformed response: the bundle says so and goes on.
Unavailable ==
  /\ recalling = "asking"
  /\ recalling' = "idle"
  /\ status' = "unavailable"
  /\ UNCHANGED <<bankVars, file, answer, digests, kept, captureVars>>

\* The digest of a source is computed once per recall.
Digests(s) == IF s = NoSource \/ digests[s] # Unread THEN digests
              ELSE [digests EXCEPT ![s] = file[s]]

ProvenanceHolds(u, read) == u.source # NoSource /\ read[u.source] = u.digest

Shape(u) ==
  /\ recalling = "shaping"
  /\ u \in answer
  /\ answer' = answer \ {u}
  /\ digests' = Digests(u.source)
  /\ kept' = IF ProvenanceHolds(u, digests') /\ Cardinality(kept) < MaxResults
             THEN kept \cup {u} ELSE kept
  /\ UNCHANGED <<bankVars, file, recalling, status, captureVars>>

Shaped ==
  /\ recalling = "shaping"
  /\ answer = {}
  /\ recalling' = "idle"
  /\ status' = IF kept = {} THEN "empty" ELSE "ok"
  /\ UNCHANGED <<bankVars, file, answer, digests, kept, captureVars>>
-----------------------------------------------------------------------------
(* snapshot() *)

Begins(next) ==
  stage' = next /\ rows' = {} /\ total' = 0 /\ requests' = 0 /\ changes' = {}

Snapshot ==
  /\ "snapshot" \in Granted
  /\ stage \in {"idle", "captured"}
  /\ Begins("started")
  /\ UNCHANGED <<bankVars, file, recallVars>>

\* Every page must announce the total of the first.
Announced == IF stage = "started" THEN Cardinality(bank) ELSE total

\* Mutant: only the first page announces a total.
FitsAnyTotal(page) ==
  /\ Announced <= MaxMemories
  /\ page \cap rows = {}
  /\ Cardinality(rows \cup page) <= Announced

\* A bank over the limit, another total, a row read before, or more rows than
\* announced: the capture is refused.
Fits(page) ==
  /\ Cardinality(bank) = Announced /\ Announced <= MaxMemories
  /\ page \cap rows = {}
  /\ Cardinality(rows \cup page) <= Announced

\* Mutant: a page without rows is asked for again.
MoreAsked(page) == Cardinality(rows \cup page) < Announced

\* An empty page before the announced total is refused too.
More(page) == Cardinality(rows \cup page) < Announced /\ page # {}

\* One request of the loop.  The server chooses the rows of a page, and may
\* return fewer than asked for; which rows come at which offset is its order.
Page ==
  /\ stage \in {"started", "paging"}
  /\ \E page \in {p \in SUBSET bank : Cardinality(p) <= PageSize} :
       IF Fits(page) /\ (More(page) \/ Cardinality(rows \cup page) = Announced)
       THEN /\ rows' = rows \cup page
            /\ total' = Announced
            /\ requests' = requests + 1
            /\ stage' = IF More(page) THEN "paging" ELSE "captured"
            /\ UNCHANGED changes
       ELSE Begins("idle")
  /\ UNCHANGED <<bankVars, file, recallVars>>

\* A request fails, or the operator interrupts the export.
PageFails ==
  /\ stage \in {"started", "paging"}
  /\ Begins("idle")
  /\ UNCHANGED <<bankVars, file, recallVars>>

-----------------------------------------------------------------------------
(* The server and the people at the checkout. *)

Changes == (IF bank' \subseteq bank THEN {} ELSE {"added"})
             \cup (IF bank \subseteq bank' THEN {} ELSE {"removed"})

BankChanges ==
  /\ \/ \E item \in wire : Stores(item) \/ Loses(item)
     \/ Consolidates
     \/ \E u \in bank : Forgets(u)
  /\ changes' = IF stage = "paging" THEN changes \cup Changes ELSE changes
  /\ UNCHANGED <<file, recallVars, stage, rows, total, requests>>

PersonEdits(s) ==
  /\ file' \in {[file EXCEPT ![s] = t] : t \in (Texts \cup {Missing}) \ {file[s]}}
  /\ UNCHANGED <<bankVars, recallVars, captureVars>>

-----------------------------------------------------------------------------
ClientNext ==
  \/ \E s \in Sources : Retain(s)
  \/ Recall \/ Answered \/ Unavailable \/ (\E u \in answer : Shape(u)) \/ Shaped
  \/ Snapshot \/ Page \/ PageFails

Next == ClientNext \/ BankChanges \/ (\E s \in Sources : PersonEdits(s))

Spec == Init /\ [][Next]_vars

-----------------------------------------------------------------------------
(* Properties. *)

TypeOK ==
  /\ BankTypeOK
  /\ file \in [Sources -> Texts \cup {Missing}]
  /\ recalling \in {"idle", "asking", "shaping"}
  /\ answer \subseteq Units /\ kept \subseteq Units
  /\ digests \in [Sources -> Texts \cup {Missing, Unread}]
  /\ status \in Statuses
  /\ stage \in Stages
  /\ rows \subseteq Units
  /\ total \in Nat /\ requests \in Nat
  /\ changes \subseteq {"added", "removed"}

\* However retains are lost, late or overtaken and however the checkout changes
\* meanwhile, the text a recall hands to an agent is, for every source, of the
\* one version of it this recall read.
RecallIsOneReading == \A u \in kept : u.text = digests[u.source]

Captures == stage # "captured" /\ stage' = "captured"

\* "Complete or nothing": a capture that ends well holds the bank as it is at its
\* last page.  Not so: units added and removed between two pages, as by one
\* retain that replaces a document, leave the total the pages announce.
CaptureIsTheBank == [][Captures => rows' = bank]_vars

\* A bank that only grew, or only shrank, since the first page is never captured,
\* and one that did not change is captured to the last unit.
OneSidedChangesAreRefused ==
  [][Captures => \/ changes = {} /\ rows' = bank
                 \/ changes = {"added", "removed"}]_vars

\* However many units there are and however few of them a page brings, an export
\* asks for no more pages than it has rows, and so ends within the limit.
PagesMakeProgress ==
  stage \in {"paging", "captured"} =>
    requests <= Cardinality(rows) + 1 /\ Cardinality(rows) <= MaxMemories
=============================================================================
