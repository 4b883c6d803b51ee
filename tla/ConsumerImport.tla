--------------------------- MODULE ConsumerImport ---------------------------
(***************************************************************************)
(* Tools/repo-automation-sync.sh: one consumer imports the files the manifest *)
(* names from a canonical checkout, or checks that it has them.              *)
(*                                                                           *)
(* A file's mode counts as part of its content.  Manifest paths are compared *)
(* as places in one tree: a directory entry has the same path on both sides, *)
(* as every one in automation/reusable-manifest.json has, and a file entry   *)
(* may rename.  A directory exists as long as it holds a file.  People may   *)
(* work in the consumer until the plan is made, and in the canonical         *)
(* checkout while no import runs.                                            *)
(***************************************************************************)
EXTENDS Naturals, FiniteSets

CONSTANTS
  Files,       \* paths of files
  Dirs,        \* paths of directories
  Beneath,     \* the places beneath each place
  Owned,       \* the places FORBIDDEN_DESTINATION_* lists
  Manifests,   \* the sets of entries an import may be given
  Commits,     \* commits of the canonical repository
  Published,   \* the files of each commit
  Ignored,     \* files of the canonical checkout that git ignores
  Reworked,    \* bound: the files people edit in the canonical checkout
  MaxEdits,    \* bound: how many files people leave uncommitted in the consumer,
               \* and how many more they take out of its index
  NoPin,       \* the source is not verified
  Absent,      \* no file
  Edited,      \* content that is in no commit
  Torn         \* a copy that was cut short

Places == Files \cup Dirs
Entries == [kind : {"file", "directory"}, source : Places, destination : Places,
            deleteStale : BOOLEAN, template : BOOLEAN]
Contents == {Absent, Edited, Torn} \cup UNION {{Published[c][p] : p \in Files} : c \in Commits}

ASSUME ImportAssumption ==
  /\ Beneath \in [Places -> SUBSET Places]
  /\ \A x, y \in Places : \A p \in Beneath[x] \cap Beneath[y] :
       x = y \/ x \in Beneath[y] \/ y \in Beneath[x]
  /\ Owned \subseteq Places
  /\ Manifests \subseteq SUBSET Entries
  /\ \A m \in Manifests : \A e \in m :
       IF e.kind = "file" THEN {e.source, e.destination} \subseteq Files
       ELSE e.source = e.destination /\ e.destination \in Dirs
  /\ \A c \in Commits : Published[c] \in [Files -> Contents]
  /\ Ignored \subseteq Files
  /\ \A c \in Commits : \A p \in Ignored : Published[c][p] = Absent
  /\ Reworked \subseteq Files
  /\ MaxEdits \in Nat
  /\ Torn # Absent

VARIABLES
  source,      \* the canonical checkout
  head,        \* the commit it is at
  target,      \* the consumer's working tree
  committed,   \* the consumer's last commit
  index,       \* the consumer's index, what its next commit would hold
  phase, job,  \* of the import: how far it is, and what it was asked for
  writes,      \* copies to make
  deletions,   \* stale files to remove
  left,        \* the target as its people, or an import that wrote, left it
  outcome      \* how the last import ended, if nobody did anything since

sourceVars == <<source, head>>
consumerGit == <<committed, index>>
vars == <<source, head, target, committed, index, phase, job, writes, deletions, left, outcome>>

\* The pin is the one verified: none with --allow-unverified-source, or if a
\* check names none.
Jobs == [entries : Manifests, pin : Commits \cup {NoPin}, force : BOOLEAN, check : BOOLEAN]
NoJob == [entries |-> {}]

-----------------------------------------------------------------------------
(* The manifest. *)

\* The files of the target an entry is about, and where each comes from.
Covers(e) == IF e.kind = "file" THEN {e.destination} ELSE Beneath[e.destination] \cap Files
Origin(e, p) == IF e.kind = "file" THEN e.source ELSE p

\* Mutant: what contains a consumer-owned path is not refused.
ForbiddenItself(e) ==
  \/ e.destination \in Owned
  \/ \E o \in Owned : e.destination \in Beneath[o]

\* A destination that is consumer-owned, lies beneath what is, or contains it.
ForbiddenDestination(e) ==
  \/ e.destination \in Owned
  \/ \E o \in Owned : e.destination \in Beneath[o] \/ o \in Beneath[e.destination]

-----------------------------------------------------------------------------
(* The plan. *)

Sourced(e) == {p \in Covers(e) : source[Origin(e, p)] # Absent}
Drifted(e) == {p \in Sourced(e) : target[p] # source[Origin(e, p)]}

\* Mutant: templates are synchronized like anything else.
WritesOver(e, force) == Drifted(e)

\* A template is laid down once, and again only if forced.
Writes(e, force) == {p \in Drifted(e) : e.template /\ target[p] # Absent => force}

\* Mutant: directories beneath the destination count as stale files.
StaleWithDirs(e) ==
  IF e.kind = "directory" /\ e.deleteStale /\ ~e.template
  THEN {p \in Beneath[e.destination] \ Sourced(e) : p \in Dirs \/ target[p] # Absent} ELSE {}

\* What the canonical side does not have, in a directory to be kept clean.
Stale(e) ==
  IF e.kind = "directory" /\ e.deleteStale /\ ~e.template
  THEN {p \in Covers(e) \ Sourced(e) : target[p] # Absent} ELSE {}

Copies(j) == UNION {{[from |-> Origin(e, p), to |-> p] : p \in Writes(e, j.force)} : e \in j.entries}
StaleFiles(j) == UNION {Stale(e) : e \in j.entries}

\* What --check reports.
Issues(j) == {w.to : w \in Copies(j)} \cup StaleFiles(j)

-----------------------------------------------------------------------------
(* The import. *)

Init ==
  /\ head \in Commits
  /\ source = Published[head]
  /\ target = [p \in Files |-> Absent]
  /\ committed = target
  /\ index = target
  /\ left = target
  /\ phase = "idle"
  /\ job = NoJob
  /\ writes = {} /\ deletions = {}
  /\ outcome = "none"

Ends(how) ==
  /\ phase' = "idle"
  /\ outcome' = how
  /\ job' = IF how = "synced" THEN job ELSE NoJob
  /\ writes' = {} /\ deletions' = {}
  /\ UNCHANGED consumerGit

\* Mutant: a clean source will do, at whatever commit.
ProvenWhenClean(pin) == \A p \in Files \ Ignored : source[p] = Published[head][p]

\* The source is at the pin and git status is empty.
Proven(pin) ==
  /\ head = pin
  /\ \A p \in Files \ Ignored : source[p] = Published[head][p]

\* The manifest is read and, with a pin, so is where the source stands.  What is
\* refused here ends before anything happened, and is not a step.
Begin(j) ==
  /\ phase = "idle"
  /\ \A e \in j.entries : ~ForbiddenDestination(e)
  /\ j.pin # NoPin => Proven(j.pin)
  /\ job' = j
  /\ phase' = IF j.pin # NoPin THEN "gating" ELSE "planning"
  /\ outcome' = "none"
  /\ UNCHANGED <<sourceVars, target, consumerGit, writes, deletions, left>>

\* The quality command runs in the source, and leaves ignored files there.
GatePasses ==
  /\ phase = "gating"
  /\ \E made \in SUBSET Ignored :
       source' = [p \in Files |-> IF p \in made THEN Edited ELSE source[p]]
  /\ phase' = "planning"
  /\ UNCHANGED <<head, target, consumerGit, job, writes, deletions, left, outcome>>

\* The quality command or the check of the consumer's interpreter fails.
GateRefuses ==
  /\ phase \in {"gating", "planning"}
  /\ Ends("refused")
  /\ UNCHANGED <<sourceVars, target, left>>

\* Mutant: each entry is imported as it is planned.
PlanWrites ==
  /\ phase = "planning"
  /\ ~job.check
  /\ \E e \in job.entries :
       target' = [p \in Files |-> IF p \in Writes(e, job.force) THEN source[Origin(e, p)]
                                  ELSE target[p]]
  /\ writes' = Copies(job) /\ deletions' = StaleFiles(job)
  /\ phase' = "guarding"
  /\ UNCHANGED <<sourceVars, consumerGit, job, left, outcome>>

\* Every entry must have a source.  A source directory without a file the import
\* counts may be gone, or hold files it skips.
SourceMissing == \E e \in job.entries : Sourced(e) = {}
SourcesExist == \A e \in job.entries : e.kind = "file" => Sourced(e) # {}

\* A check ends with the plan.
Plan ==
  /\ phase = "planning"
  /\ \/ SourceMissing /\ Ends("refused")
     \/ /\ SourcesExist
        /\ job.check
        /\ Ends(IF Issues(job) = {} THEN "current" ELSE "drift")
     \/ /\ SourcesExist
        /\ ~job.check
        /\ writes' = Copies(job) /\ deletions' = StaleFiles(job)
        /\ phase' = "guarding"
        /\ UNCHANGED <<consumerGit, job, outcome>>
  /\ UNCHANGED <<sourceVars, target, left>>

\* git status reports a file taken out of the index and one put there as a
\* rename if they look alike, each in one rename at most.  Which do is git's to
\* say; the script leaves out the paths renamed from.
Removed == {p \in Files : committed[p] # Absent /\ index[p] = Absent}
Added == {p \in Files : committed[p] = Absent /\ index[p] # Absent}
RenamedFrom == {old \in SUBSET Removed : Cardinality(old) <= Cardinality(Added)}

\* What git status lists of tracked files, but for the paths renamed from.
LocallyModified(old) ==
  {p \in Files \ old : index[p] # committed[p] \/ (index[p] # Absent /\ target[p] # index[p])}

\* Mutant: only what would be overwritten is looked at.
ClobberedWrites(old) == {w.to : w \in writes} \cap LocallyModified(old)

Clobbered(old) == ({w.to : w \in writes} \cup deletions) \cap LocallyModified(old)

GuardRefuses ==
  /\ phase = "guarding"
  /\ Ends("refused")   \* files are clobbered, or git fails
  /\ UNCHANGED <<sourceVars, target, left>>

GuardPasses ==
  /\ phase = "guarding"
  /\ \E old \in RenamedFrom : Clobbered(old) = {}
  /\ phase' = "writing"
  /\ UNCHANGED <<sourceVars, target, consumerGit, job, writes, deletions, left, outcome>>

Write(w) ==
  /\ phase = "writing"
  /\ w \in writes
  /\ target' = [target EXCEPT ![w.to] = source[w.from]]
  /\ writes' = writes \ {w}
  /\ UNCHANGED <<sourceVars, consumerGit, phase, job, deletions, left, outcome>>

Delete(p) ==
  /\ phase = "writing"
  /\ writes = {}
  /\ p \in deletions
  /\ target' = [target EXCEPT ![p] = Absent]
  /\ deletions' = deletions \ {p}
  /\ UNCHANGED <<sourceVars, consumerGit, phase, job, writes, left, outcome>>

\* Mutant: an import that has nothing more to copy is done.
FinishAfterWrites ==
  /\ phase = "writing"
  /\ writes = {}
  /\ Ends("synced")
  /\ left' = target
  /\ UNCHANGED <<sourceVars, target>>

Finish ==
  /\ phase = "writing"
  /\ writes = {} /\ deletions = {}
  /\ Ends("synced")
  /\ left' = target
  /\ UNCHANGED <<sourceVars, target>>

\* The import is killed, or a file operation fails: possibly in a copy.
Killed ==
  /\ phase # "idle"
  /\ \/ target' = target
     \/ /\ phase = "writing"
        /\ \E w \in writes : target' = [target EXCEPT ![w.to] = Torn]
  /\ Ends("killed")
  /\ left' = target'
  /\ UNCHANGED sourceVars

-----------------------------------------------------------------------------
(* People.  What they do makes the last import's outcome a thing of the past. *)

Forgets ==
  /\ outcome' = "none"
  /\ job' = IF phase = "idle" THEN NoJob ELSE job

\* Someone checks out a commit, or edits a file, in the canonical checkout.
SourceMoves ==
  /\ phase = "idle"
  /\ \/ \E c \in Commits :
          /\ head' = c
          /\ source' = [p \in Files |-> IF p \in Ignored THEN source[p] ELSE Published[c][p]]
     \/ /\ \E p \in Reworked : source' = [source EXCEPT ![p] = Edited]
        /\ UNCHANGED head
  /\ Forgets
  /\ UNCHANGED <<target, consumerGit, phase, writes, deletions, left>>

\* Someone edits, removes or restores a file of the consumer, stages one as it
\* is, or commits what is there, a copy that was cut short excepted.
ConsumerWorks ==
  /\ phase \in {"idle", "gating"}
  /\ \/ /\ \E p \in Files :
             \/ /\ \E x \in {Edited, Absent} : target' = [target EXCEPT ![p] = x]
                /\ UNCHANGED index
             \/ /\ target' = [target EXCEPT ![p] = committed[p]]
                /\ index' = [index EXCEPT ![p] = committed[p]]
             \/ /\ target[p] # Torn
                /\ index' = [index EXCEPT ![p] = target[p]]
                /\ UNCHANGED target
        /\ UNCHANGED committed
        /\ Cardinality(Removed') <= MaxEdits
        /\ Cardinality({p \in Files \ Removed' : {index'[p], target'[p]} # {committed[p]}}) <= MaxEdits
     \/ /\ \A p \in Files : target[p] # Torn
        /\ committed' = target /\ index' = target
        /\ UNCHANGED target
  /\ left' = target'
  /\ Forgets
  /\ UNCHANGED <<sourceVars, phase, writes, deletions>>

Next ==
  \/ \E j \in Jobs : Begin(j)
  \/ GatePasses \/ GateRefuses \/ Plan \/ GuardRefuses \/ GuardPasses
  \/ \E w \in writes : Write(w)
  \/ \E p \in deletions : Delete(p)
  \/ Finish \/ Killed \/ SourceMoves \/ ConsumerWorks

Spec == Init /\ [][Next]_vars

-----------------------------------------------------------------------------
(* Properties. *)

TypeOK ==
  /\ source \in [Files -> Contents] /\ head \in Commits
  /\ target \in [Files -> Contents] /\ committed \in [Files -> Contents]
  /\ index \in [Files -> Contents]
  /\ phase \in {"idle", "gating", "planning", "guarding", "writing"}
  /\ job \in Jobs \cup {NoJob}
  /\ writes \subseteq [from : Files, to : Files]
  /\ deletions \subseteq Files
  /\ left \in [Files -> Contents]
  /\ outcome \in {"none", "refused", "current", "drift", "synced", "killed"}

\* The files a consumer owns outright.
OwnedFiles == {p \in Files : p \in Owned \/ \E o \in Owned : p \in Beneath[o]}

\* No import, whatever its manifest, changes a file the consumer owns ("the
\* destination guard": not even through a directory that contains it).
OwnedUntouched ==
  [][phase = "writing" => \A p \in OwnedFiles : target'[p] = target[p]]_vars

\* The work the consumer's history does not have: tracked files that differ from
\* its last commit.
Uncommitted == {p \in Files : index[p] # Absent /\ target[p] # committed[p]}

\* "A tracked destination file with uncommitted consumer edits stops the import":
\* none is overwritten or removed, whatever was staged and however git pairs
\* renames.
WorkSurvives ==
  [][phase = "writing" => \A p \in Uncommitted : target'[p] = target[p]]_vars

\* Without --force-templates an import changes no template that is there, and
\* it never removes a file from a template directory.
TemplatesSurvive ==
  [][phase = "writing" =>
       \A e \in job.entries : \A p \in Covers(e) :
         e.template /\ target[p] # Absent /\ target'[p] # target[p] =>
           job.force /\ target'[p] # Absent]_vars

\* "A refusal leaves the consumer byte-for-byte unchanged": until the import may
\* write, and when it ends without having been allowed to, the target is as it
\* was left.
RefusalChangesNothing == phase # "writing" => target = left

\* "Running --check after a successful sync should pass", and so a second sync
\* would change nothing.
CheckPassesAfterSync == outcome = "synced" => Issues(job) = {}

\* After a verified import the files a manifest entry names are those of the
\* pinned commit, and a directory it cleans holds no others ("the source must
\* be published and clean").
ImportsThePin ==
  outcome = "synced" /\ job.pin # NoPin =>
    \A e \in job.entries : \A p \in Covers(e) :
      LET canonical == Published[job.pin][Origin(e, p)]
      IN ~e.template /\ (canonical # Absent \/ e.deleteStale) => target[p] = canonical
=============================================================================
