------------------------ MODULE ConsumerImportProofs ------------------------
(***************************************************************************)
(* No import, whatever manifests it is given and whoever interferes, changes *)
(* a file the consumer owns.  The guard looks at the destination of an entry *)
(* only; that the files an entry covers are then all safe rests on paths     *)
(* forming a tree, which is what ImportAssumption says of Beneath.           *)
(*                                                                           *)
(* An import whose entries do not overlap is finished when it ends, touches  *)
(* no local work and no template it should not, and has brought the pin.     *)
(***************************************************************************)
EXTENDS ConsumerImport, TLAPS

\* The plan names no owned file, because every entry of the job passed the guard.
Guarded ==
  /\ \A e \in job.entries : ~ForbiddenDestination(e)
  /\ \A w \in writes : w.to \notin OwnedFiles
  /\ \A p \in deletions : p \notin OwnedFiles

-----------------------------------------------------------------------------
(* Types. *)

LEMMA TypeInit == Init => TypeOK
BY ImportAssumption DEF Init, TypeOK, ImportAssumption, Contents

\* What a job plans are copies between files, and removals of files.
LEMMA PlanTyped ==
  ASSUME NEW j \in Jobs
  PROVE  Copies(j) \subseteq [from : Files, to : Files] /\ StaleFiles(j) \subseteq Files
<1>1. ASSUME NEW e \in j.entries, NEW p \in Covers(e) PROVE p \in Files /\ Origin(e, p) \in Files
  <2>1. IF e.kind = "file" THEN {e.source, e.destination} \subseteq Files
        ELSE e.source = e.destination /\ e.destination \in Dirs
    BY ImportAssumption DEF ImportAssumption, Jobs
  <2>2. QED  BY <2>1 DEF Covers, Origin
<1>2. Copies(j) \subseteq [from : Files, to : Files]
  <2>1. ASSUME NEW w \in Copies(j) PROVE w \in [from : Files, to : Files]
    <3>1. PICK e \in j.entries : \E p \in Writes(e, j.force) : w = [from |-> Origin(e, p), to |-> p]
      BY DEF Copies
    <3>2. PICK p \in Writes(e, j.force) : w = [from |-> Origin(e, p), to |-> p]
      BY <3>1
    <3>3. p \in Covers(e)
      BY <3>2 DEF Writes, Drifted, Sourced
    <3>4. QED  BY <1>1, <3>2, <3>3
  <2>2. QED  BY <2>1
<1>3. StaleFiles(j) \subseteq Files
  BY <1>1 DEF StaleFiles, Stale
<1>4. QED  BY <1>2, <1>3

LEMMA EndsTyped ==
  ASSUME TypeOK, UNCHANGED sourceVars, target' \in [Files -> Contents],
         left' \in [Files -> Contents],
         NEW how \in {"refused", "current", "drift", "synced", "killed"}, Ends(how)
  PROVE  TypeOK'
BY DEF TypeOK, Ends, sourceVars, consumerGit

LEMMA TypeStep == TypeOK /\ [Next]_vars => TypeOK'
<1> SUFFICES ASSUME TypeOK, [Next]_vars PROVE TypeOK'
  OBVIOUS
<1> USE DEF consumerGit
<1>1. ASSUME NEW j \in Jobs, Begin(j) PROVE TypeOK'
  BY <1>1 DEF Begin, TypeOK, sourceVars
<1>2. CASE GatePasses
  <2>1. source' \in [Files -> Contents]
    BY <1>2 DEF GatePasses, TypeOK, Contents
  <2>2. QED  BY <1>2, <2>1 DEF GatePasses, TypeOK
<1>3. CASE GateRefuses
  BY <1>3, EndsTyped DEF GateRefuses, TypeOK
<1>4. CASE Plan
  <2>1. CASE \E how \in {"refused", "current", "drift"} : Ends(how)
    BY <1>4, <2>1, EndsTyped DEF Plan, TypeOK
  <2>2. CASE /\ writes' = Copies(job) /\ deletions' = StaleFiles(job)
             /\ phase' = "guarding" /\ UNCHANGED <<consumerGit, job, outcome>>
    <3>1. writes' \subseteq [from : Files, to : Files] /\ deletions' \subseteq Files
      <4>1. CASE job \in Jobs
        BY <2>2, <4>1, PlanTyped
      <4>2. CASE job = NoJob
        BY <2>2, <4>2 DEF NoJob, Copies, StaleFiles
      <4>3. QED  BY <4>1, <4>2 DEF TypeOK
    <3>2. QED  BY <1>4, <2>2, <3>1 DEF Plan, TypeOK, sourceVars
  <2>3. QED  BY <1>4, <2>1, <2>2 DEF Plan
<1>5. CASE GuardRefuses
  BY <1>5, EndsTyped DEF GuardRefuses, TypeOK
<1>6. CASE GuardPasses
  BY <1>6 DEF GuardPasses, TypeOK, sourceVars
<1>7. ASSUME NEW w \in writes, Write(w) PROVE TypeOK'
  <2>1. w.from \in Files /\ w.to \in Files
    BY DEF TypeOK
  <2>2. target' \in [Files -> Contents]
    BY <1>7, <2>1 DEF Write, TypeOK
  <2>3. QED  BY <1>7, <2>2 DEF Write, TypeOK, sourceVars
<1>8. ASSUME NEW p \in deletions, Delete(p) PROVE TypeOK'
  <2>1. target' \in [Files -> Contents]
    BY <1>8 DEF Delete, TypeOK, Contents
  <2>2. QED  BY <1>8, <2>1 DEF Delete, TypeOK, sourceVars
<1>9. CASE Finish
  BY <1>9, EndsTyped DEF Finish, TypeOK
<1>10. CASE Killed
  <2>1. target' \in [Files -> Contents]
    <3>1. CASE target' = target
      BY <3>1 DEF TypeOK
    <3>2. CASE \E w \in writes : target' = [target EXCEPT ![w.to] = Torn]
      BY <3>2 DEF TypeOK, Contents
    <3>3. QED  BY <1>10, <3>1, <3>2 DEF Killed
  <2>2. QED  BY <1>10, <2>1, EndsTyped DEF Killed
<1>11. CASE SourceMoves
  <2>1. source' \in [Files -> Contents] /\ head' \in Commits
    <3>1. CASE \E c \in Commits :
                 /\ head' = c
                 /\ source' = [p \in Files |-> IF p \in Ignored THEN source[p] ELSE Published[c][p]]
      BY <3>1, ImportAssumption DEF TypeOK, ImportAssumption
    <3>2. CASE (\E p \in Reworked : source' = [source EXCEPT ![p] = Edited]) /\ head' = head
      BY <3>2 DEF TypeOK, Contents
    <3>3. QED  BY <1>11, <3>1, <3>2 DEF SourceMoves
  <2>2. QED  BY <1>11, <2>1 DEF SourceMoves, Forgets, TypeOK
<1>12. CASE ConsumerWorks
  <2>1. /\ target' \in [Files -> Contents] /\ committed' \in [Files -> Contents]
        /\ index' \in [Files -> Contents]
    <3>1. CASE /\ \E p \in Files :
                    \/ /\ \E x \in {Edited, Absent} : target' = [target EXCEPT ![p] = x]
                       /\ UNCHANGED index
                    \/ /\ target' = [target EXCEPT ![p] = committed[p]]
                       /\ index' = [index EXCEPT ![p] = committed[p]]
                    \/ /\ index' = [index EXCEPT ![p] = target[p]]
                       /\ UNCHANGED target
               /\ committed' = committed
      BY <3>1 DEF TypeOK, Contents
    <3>2. CASE committed' = target /\ index' = target /\ target' = target
      BY <3>2 DEF TypeOK
    <3>3. QED  BY <1>12, <3>1, <3>2 DEF ConsumerWorks
  <2>2. QED  BY <1>12, <2>1 DEF ConsumerWorks, Forgets, TypeOK, sourceVars
<1>13. CASE UNCHANGED vars
  BY <1>13 DEF vars, TypeOK
<1>14. QED
  BY <1>1, <1>2, <1>3, <1>4, <1>5, <1>6, <1>7, <1>8, <1>9, <1>10, <1>11, <1>12, <1>13 DEF Next

\* Every variable keeps its type, for any tree, manifests and commits.
THEOREM ImportTypeCorrect == Spec => []TypeOK
<1>1. QED  BY TypeInit, TypeStep, PTL DEF Spec

-----------------------------------------------------------------------------
(* What an accepted entry covers. *)

\* An entry that passes the destination guard covers no owned file.
LEMMA AcceptedCoversNoneOwned ==
  ASSUME NEW m \in Manifests, NEW e \in m, ~ForbiddenDestination(e),
         NEW p \in Covers(e)
  PROVE  p \notin OwnedFiles
<1>1. e \in Entries
  BY ImportAssumption DEF ImportAssumption
<1>2. CASE e.kind = "file"
  BY <1>2 DEF Covers, ForbiddenDestination, OwnedFiles
<1>3. CASE e.kind # "file"
  <2>1. p \in Files /\ p \in Beneath[e.destination]
    BY <1>3 DEF Covers
  <2>2. e.destination \in Places
    BY <1>1 DEF Entries
  <2>3. p \notin Owned
    BY <2>1 DEF ForbiddenDestination
  <2>4. ASSUME NEW o \in Owned, p \in Beneath[o] PROVE FALSE
    <3>1. o \in Places
      BY ImportAssumption DEF ImportAssumption
    <3>2. o = e.destination \/ o \in Beneath[e.destination] \/ e.destination \in Beneath[o]
      BY <2>1, <2>2, <2>4, <3>1, ImportAssumption DEF ImportAssumption
    <3>3. QED  BY <3>2 DEF ForbiddenDestination
  <2>5. QED  BY <2>3, <2>4 DEF OwnedFiles
<1>4. QED  BY <1>2, <1>3

\* So the plan of a job whose entries all pass names no owned file.
LEMMA PlanAvoidsOwned ==
  ASSUME NEW j \in Jobs, \A e \in j.entries : ~ForbiddenDestination(e)
  PROVE  /\ \A w \in Copies(j) : w.to \notin OwnedFiles
         /\ \A p \in StaleFiles(j) : p \notin OwnedFiles
<1>1. j.entries \in Manifests
  BY DEF Jobs
<1>2. ASSUME NEW w \in Copies(j) PROVE w.to \notin OwnedFiles
  <2>1. PICK e \in j.entries : \E p \in Writes(e, j.force) : w = [from |-> Origin(e, p), to |-> p]
    BY DEF Copies
  <2>2. PICK p \in Writes(e, j.force) : w = [from |-> Origin(e, p), to |-> p]
    BY <2>1
  <2>3. p \in Covers(e) /\ w.to = p
    BY <2>2 DEF Writes, Drifted, Sourced
  <2>4. QED  BY <1>1, <2>3, AcceptedCoversNoneOwned
<1>3. ASSUME NEW p \in StaleFiles(j) PROVE p \notin OwnedFiles
  <2>1. PICK e \in j.entries : p \in Stale(e)
    BY DEF StaleFiles
  <2>2. p \in Covers(e)
    BY <2>1 DEF Stale
  <2>3. QED  BY <1>1, <2>2, AcceptedCoversNoneOwned
<1>4. QED  BY <1>2, <1>3

-----------------------------------------------------------------------------
(* The guard holds along every behaviour. *)

LEMMA GuardedInit == Init => Guarded
BY DEF Init, Guarded, NoJob

\* An import that ends leaves no plan behind.
LEMMA EndsGuarded ==
  ASSUME Guarded, NEW how, Ends(how)
  PROVE  Guarded'
BY DEF Guarded, Ends, NoJob, OwnedFiles, ForbiddenDestination

LEMMA GuardedStep == TypeOK /\ Guarded /\ [Next]_vars => Guarded'
<1> SUFFICES ASSUME TypeOK, Guarded, [Next]_vars PROVE Guarded'
  OBVIOUS
<1> USE DEF OwnedFiles, ForbiddenDestination
<1>1. ASSUME NEW j \in Jobs, Begin(j) PROVE Guarded'
  BY <1>1 DEF Begin, Guarded
<1>2. CASE GatePasses
  BY <1>2 DEF GatePasses, Guarded
<1>3. CASE GateRefuses
  BY <1>3, EndsGuarded DEF GateRefuses
<1>4. CASE Plan
  <2>1. CASE \E how : Ends(how)
    BY <2>1, EndsGuarded
  <2>2. CASE /\ writes' = Copies(job) /\ deletions' = StaleFiles(job)
             /\ UNCHANGED <<consumerGit, job, outcome>>
    <3>1. writes' = Copies(job) /\ deletions' = StaleFiles(job) /\ job' = job
      BY <2>2
    <3>2. CASE job = NoJob
      BY <3>1, <3>2 DEF Guarded, Copies, StaleFiles, NoJob
    <3>3. CASE job \in Jobs
      <4>1. /\ \A w \in Copies(job) : w.to \notin OwnedFiles
            /\ \A p \in StaleFiles(job) : p \notin OwnedFiles
        BY <3>3, PlanAvoidsOwned DEF Guarded
      <4>2. QED  BY <3>1, <4>1 DEF Guarded
    <3>4. QED  BY <3>2, <3>3 DEF TypeOK
  <2>3. QED  BY <1>4, <2>1, <2>2 DEF Plan
<1>5. CASE GuardRefuses
  BY <1>5, EndsGuarded DEF GuardRefuses
<1>6. CASE GuardPasses
  BY <1>6 DEF GuardPasses, Guarded
<1>7. ASSUME NEW w \in writes, Write(w) PROVE Guarded'
  BY <1>7 DEF Write, Guarded
<1>8. ASSUME NEW p \in deletions, Delete(p) PROVE Guarded'
  BY <1>8 DEF Delete, Guarded
<1>9. CASE Finish
  BY <1>9, EndsGuarded DEF Finish
<1>10. CASE Killed
  BY <1>10, EndsGuarded DEF Killed
<1>11. CASE SourceMoves
  BY <1>11 DEF SourceMoves, Forgets, Guarded, NoJob
<1>12. CASE ConsumerWorks
  BY <1>12 DEF ConsumerWorks, Forgets, Guarded, NoJob
<1>13. CASE UNCHANGED vars
  BY <1>13 DEF vars, Guarded
<1>14. QED
  BY <1>1, <1>2, <1>3, <1>4, <1>5, <1>6, <1>7, <1>8, <1>9, <1>10, <1>11, <1>12, <1>13 DEF Next

-----------------------------------------------------------------------------
\* A step changes no file but those a plan names, unless people take it.
LEMMA OwnedStep ==
  TypeOK /\ Guarded /\ [Next]_vars =>
    (phase = "writing" => \A p \in OwnedFiles : target'[p] = target[p])
<1> SUFFICES ASSUME TypeOK, Guarded, [Next]_vars, phase = "writing", NEW p \in OwnedFiles
             PROVE  target'[p] = target[p]
  OBVIOUS
<1>1. p \in Files
  BY DEF OwnedFiles
<1>2. ASSUME NEW w \in writes, target' = [target EXCEPT ![w.to] = Torn]
                               \/ target' = [target EXCEPT ![w.to] = source[w.from]]
      PROVE  target'[p] = target[p]
  BY <1>1, <1>2 DEF TypeOK, Guarded
<1>3. ASSUME NEW q \in deletions, Delete(q) PROVE target'[p] = target[p]
  BY <1>1, <1>3 DEF Delete, TypeOK, Guarded
<1>4. CASE Killed
  BY <1>2, <1>4 DEF Killed
<1>5. ASSUME NEW w \in writes, Write(w) PROVE target'[p] = target[p]
  BY <1>2, <1>5 DEF Write
<1>6. CASE Finish \/ UNCHANGED vars
  BY <1>6 DEF Finish, vars
<1>7. QED
  BY <1>3, <1>4, <1>5, <1>6
  DEF Next, Begin, GatePasses, GateRefuses, Plan, GuardRefuses, GuardPasses,
      SourceMoves, ConsumerWorks

\* No import changes a file the consumer owns, for any tree of paths, any
\* manifest and any interleaving with people and kills.
THEOREM OwnedSafe == Spec => OwnedUntouched
<1>1. Init => TypeOK /\ Guarded
  BY TypeInit, GuardedInit
<1>2. TypeOK /\ Guarded /\ [Next]_vars => (TypeOK /\ Guarded)'
  BY TypeStep, GuardedStep
<1>3. TypeOK /\ Guarded /\ [Next]_vars =>
        [phase = "writing" => \A p \in OwnedFiles : target'[p] = target[p]]_vars
  BY OwnedStep
<1>4. QED  BY <1>1, <1>2, <1>3, PTL DEF Spec, OwnedUntouched

-----------------------------------------------------------------------------
\* Only the writing phase lets the target differ from what was left there; the
\* other steps leave both alone or change them together.
LEMMA RefusalStep == RefusalChangesNothing /\ [Next]_vars => RefusalChangesNothing'
<1> SUFFICES ASSUME RefusalChangesNothing, [Next]_vars PROVE RefusalChangesNothing'
  OBVIOUS
<1> USE DEF RefusalChangesNothing
<1>1. ASSUME NEW j \in Jobs, Begin(j) PROVE RefusalChangesNothing'
  BY <1>1 DEF Begin
<1>2. CASE GatePasses \/ GateRefuses \/ GuardRefuses
  BY <1>2 DEF GatePasses, GateRefuses, GuardRefuses, Ends
<1>3. CASE Plan
  BY <1>3 DEF Plan, Ends
<1>4. CASE GuardPasses
  BY <1>4 DEF GuardPasses
<1>5. ASSUME NEW w \in writes, Write(w) PROVE RefusalChangesNothing'
  BY <1>5 DEF Write
<1>6. ASSUME NEW p \in deletions, Delete(p) PROVE RefusalChangesNothing'
  BY <1>6 DEF Delete
<1>7. CASE Finish \/ Killed
  BY <1>7 DEF Finish, Killed
<1>8. CASE SourceMoves
  BY <1>8 DEF SourceMoves
<1>9. CASE ConsumerWorks
  BY <1>9 DEF ConsumerWorks
<1>10. CASE UNCHANGED vars
  BY <1>10 DEF vars
<1>11. QED
  BY <1>1, <1>2, <1>3, <1>4, <1>5, <1>6, <1>7, <1>8, <1>9, <1>10 DEF Next

\* However an import is refused, the consumer's tree is as it was left.
THEOREM RefusalSafe == Spec => []RefusalChangesNothing
<1>1. Init => RefusalChangesNothing
  BY DEF Init, RefusalChangesNothing
<1>2. QED  BY <1>1, RefusalStep, PTL DEF Spec

-----------------------------------------------------------------------------
(* What an import makes of the files its entries name.  The plan is made for  *)
(* each entry by itself; that no copy or removal undoes another rests on      *)
(* entries that do not overlap, as those of automation/reusable-manifest.json *)
(* do not.                                                                    *)

Disjoint ==
  \A m \in Manifests : \A e, f \in m : e # f => Covers(e) \cap Covers(f) = {}

\* A copy lays down what its entry has in the source, over a template only if
\* forced or not there; a removal is of a file its entry has no source for.
SoundCopy(w) ==
  \E e \in job.entries :
    /\ w.to \in Sourced(e) /\ w.from = Origin(e, w.to)
    /\ e.template /\ target[w.to] # Absent => job.force

SoundRemoval(p) ==
  \E e \in job.entries : p \in Covers(e) \ Sourced(e) /\ ~e.template

\* What is still to be done is no harm to work that is not committed.
SparesWork == ({w.to : w \in writes} \cup deletions) \cap Uncommitted = {}

\* Between plan and end, what is still to be done is sound, is all that keeps
\* the target from being what a check accepts, and overwrites no local work.
SyncInv ==
  /\ phase # "idle" => job \in Jobs /\ outcome = "none"
  /\ phase \in {"guarding", "writing"} =>
       /\ SourcesExist
       /\ \A w \in writes : SoundCopy(w)
       /\ \A p \in deletions : SoundRemoval(p)
       /\ Copies(job) \subseteq writes
       /\ StaleFiles(job) \subseteq deletions
  /\ phase = "writing" => SparesWork
  /\ outcome = "synced" =>
       /\ job \in Jobs
       /\ SourcesExist
       /\ Issues(job) = {}

\* A copy or removal is of one entry, and touches what is only that entry's.
LEMMA OneEntry ==
  ASSUME Disjoint, job \in Jobs, NEW e \in job.entries, NEW f \in job.entries,
         NEW p \in Covers(e), p \in Covers(f)
  PROVE  e = f
BY DEF Disjoint, Jobs

LEMMA CoversFiles ==
  ASSUME job \in Jobs, NEW e \in job.entries, NEW p \in Covers(e)
  PROVE  p \in Files /\ Origin(e, p) \in Files
<1>1. IF e.kind = "file" THEN {e.source, e.destination} \subseteq Files
      ELSE e.source = e.destination /\ e.destination \in Dirs
  BY ImportAssumption DEF ImportAssumption, Jobs
<1> QED
  BY <1>1 DEF Covers, Origin

\* What is sound stays so while the source, and the file it is about, do not
\* change.
LEMMA SoundKept ==
  ASSUME UNCHANGED <<source, job>>
  PROVE  /\ \A e : Sourced(e)' = Sourced(e)
         /\ \A w : target'[w.to] = target[w.to] /\ SoundCopy(w) => SoundCopy(w)'
         /\ \A p : SoundRemoval(p) => SoundRemoval(p)'
BY DEF Sourced, SoundCopy, SoundRemoval

\* Making one copy leaves the others, and the removals, sound and still to do.
LEMMA WriteSync ==
  ASSUME Disjoint, TypeOK, SyncInv, NEW w \in writes, Write(w)
  PROVE  SyncInv'
<1>1. /\ phase = "writing" /\ phase' = "writing" /\ job' = job /\ job \in Jobs
      /\ source' = source /\ committed' = committed /\ index' = index /\ deletions' = deletions
      /\ writes' = writes \ {w}
      /\ target' = [target EXCEPT ![w.to] = source[w.from]]
      /\ outcome = "none" /\ outcome' = "none"
  BY DEF Write, SyncInv, sourceVars, consumerGit
<1>2. /\ SourcesExist
      /\ \A c \in writes : SoundCopy(c)
      /\ \A p \in deletions : SoundRemoval(p)
      /\ Copies(job) \subseteq writes
      /\ StaleFiles(job) \subseteq deletions
      /\ SparesWork
  BY <1>1 DEF SyncInv
<1>3. w.from \in Files /\ w.to \in Files /\ \A c \in writes : c \in [from : Files, to : Files]
  BY DEF TypeOK
<1>4. /\ target'[w.to] = source[w.from]
      /\ \A p \in Files : p # w.to => target'[p] = target[p]
  BY <1>1, <1>3 DEF TypeOK
<1>5. PICK mine \in job.entries : w.to \in Sourced(mine) /\ w.from = Origin(mine, w.to)
  BY <1>2 DEF SoundCopy
<1>6. \A e \in job.entries : w.to \in Covers(e) => e = mine
  BY <1>1, <1>5, OneEntry DEF Sourced
<1>7. \A e : Sourced(e)' = Sourced(e)
  BY <1>1, SoundKept
<1>8. ASSUME NEW c \in writes, c # w PROVE c.to # w.to
  <2>1. PICK e \in job.entries : c.to \in Sourced(e) /\ c.from = Origin(e, c.to)
    BY <1>2 DEF SoundCopy
  <2>2. ASSUME c.to = w.to PROVE c = w
    <3>1. e = mine
      BY <1>6, <2>1, <2>2 DEF Sourced
    <3>2. c.from = w.from
      BY <1>5, <2>1, <2>2, <3>1
    <3> QED
      BY <1>3, <2>2, <3>2
  <2> QED
    BY <1>8, <2>2
<1>9. \A c \in writes' : SoundCopy(c)'
  BY <1>1, <1>2, <1>3, <1>4, <1>8, SoundKept
<1>10. \A p \in deletions' : SoundRemoval(p)'
  BY <1>1, <1>2, SoundKept
<1>11. ASSUME NEW p \in deletions PROVE p # w.to
  <2>1. PICK e \in job.entries : p \in Covers(e) \ Sourced(e)
    BY <1>2 DEF SoundRemoval
  <2> QED
    BY <1>5, <1>6, <2>1
<1>12. ASSUME NEW e \in job.entries, NEW p \in Writes(e, job.force)'
       PROVE  [from |-> Origin(e, p), to |-> p] \in writes'
  <2>1. /\ p \in Sourced(e) /\ p \in Covers(e)
        /\ target'[p] # source[Origin(e, p)]
        /\ e.template /\ target'[p] # Absent => job.force
    BY <1>1, <1>7 DEF Writes, Drifted, Sourced
  <2>2. p # w.to
    BY <1>4, <1>5, <1>6, <2>1
  <2>3. p \in Files
    BY <1>1, <2>1, CoversFiles
  <2>4. p \in Writes(e, job.force)
    BY <1>4, <2>1, <2>2, <2>3 DEF Writes, Drifted
  <2>5. [from |-> Origin(e, p), to |-> p] \in writes
    BY <1>2, <2>4 DEF Copies
  <2>6. [from |-> Origin(e, p), to |-> p].to = p
    OBVIOUS
  <2> QED
    BY <1>1, <2>2, <2>5, <2>6
<1>13. Copies(job)' \subseteq writes'
  <2>1. ASSUME NEW c \in Copies(job)' PROVE c \in writes'
    <3>1. PICK e \in job.entries : \E p \in Writes(e, job.force)' :
            c = [from |-> Origin(e, p), to |-> p]
      BY <1>1 DEF Copies, Origin
    <3> QED
      BY <1>12, <3>1
  <2> QED
    BY <2>1
<1>14. StaleFiles(job)' \subseteq deletions'
  <2>1. ASSUME NEW p \in StaleFiles(job)' PROVE p \in deletions
    <3>1. PICK e \in job.entries : p \in Stale(e)'
      BY <1>1 DEF StaleFiles
    <3>2. /\ e.kind = "directory" /\ e.deleteStale /\ ~e.template
          /\ p \in Covers(e) \ Sourced(e) /\ target'[p] # Absent
      BY <1>7, <3>1 DEF Stale, Covers
    <3>3. p # w.to /\ p \in Files
      BY <1>1, <1>5, <1>6, <3>2, CoversFiles
    <3>4. p \in Stale(e)
      BY <1>4, <3>2, <3>3 DEF Stale
    <3> QED
      BY <1>2, <3>4 DEF StaleFiles
  <2> QED
    BY <1>1, <2>1
<1>15. SparesWork'
  <2>1. \A p \in deletions : p \in Files
    BY DEF TypeOK
  <2>2. \A c \in writes' : c.to \notin Uncommitted'
    BY <1>1, <1>2, <1>3, <1>4, <1>8 DEF SparesWork, Uncommitted
  <2>3. \A p \in deletions' : p \notin Uncommitted'
    BY <1>1, <1>2, <1>4, <1>11, <2>1 DEF SparesWork, Uncommitted
  <2> QED
    BY <2>2, <2>3 DEF SparesWork
<1>16. SourcesExist'
  BY <1>1, <1>2, <1>7 DEF SourcesExist
<1> QED
  BY <1>1, <1>9, <1>10, <1>13, <1>14, <1>15, <1>16 DEF SyncInv

\* So does making one removal.
LEMMA DeleteSync ==
  ASSUME Disjoint, TypeOK, SyncInv, NEW q \in deletions, Delete(q)
  PROVE  SyncInv'
<1>1. /\ phase = "writing" /\ phase' = "writing" /\ job' = job /\ job \in Jobs
      /\ source' = source /\ committed' = committed /\ index' = index
      /\ writes = {} /\ writes' = {} /\ deletions' = deletions \ {q}
      /\ target' = [target EXCEPT ![q] = Absent]
      /\ outcome = "none" /\ outcome' = "none"
  BY DEF Delete, SyncInv, sourceVars, consumerGit
<1>2. /\ SourcesExist
      /\ \A p \in deletions : SoundRemoval(p)
      /\ Copies(job) = {}
      /\ StaleFiles(job) \subseteq deletions
      /\ SparesWork
  BY <1>1 DEF SyncInv
<1>3. q \in Files /\ deletions \subseteq Files
  BY DEF TypeOK
<1>4. target'[q] = Absent /\ \A p \in Files : p # q => target'[p] = target[p]
  BY <1>1, <1>3 DEF TypeOK
<1>5. PICK mine \in job.entries : q \in Covers(mine) \ Sourced(mine)
  BY <1>2 DEF SoundRemoval
<1>6. \A e \in job.entries : q \in Covers(e) => e = mine
  BY <1>1, <1>5, OneEntry
<1>7. \A e : Sourced(e)' = Sourced(e)
  BY <1>1, SoundKept
<1>8. \A p \in deletions' : SoundRemoval(p)'
  BY <1>1, <1>2, SoundKept
<1>9. ASSUME NEW e \in job.entries, NEW p \in Writes(e, job.force)' PROVE FALSE
  <2>1. /\ p \in Sourced(e) /\ p \in Covers(e)
        /\ target'[p] # source[Origin(e, p)]
        /\ e.template /\ target'[p] # Absent => job.force
    BY <1>1, <1>7, <1>9 DEF Writes, Drifted, Sourced
  <2>2. p # q /\ p \in Files
    BY <1>1, <1>5, <1>6, <2>1, CoversFiles
  <2>3. p \in Writes(e, job.force)
    BY <1>4, <2>1, <2>2 DEF Writes, Drifted
  <2>4. [from |-> Origin(e, p), to |-> p] \in Copies(job)
    BY <2>3 DEF Copies
  <2> QED
    BY <1>2, <2>4
<1>10. Copies(job)' \subseteq writes'
  BY <1>1, <1>9 DEF Copies
<1>11. StaleFiles(job)' \subseteq deletions'
  <2>1. ASSUME NEW p \in StaleFiles(job)' PROVE p \in deletions \ {q}
    <3>1. PICK e \in job.entries : p \in Stale(e)'
      BY <1>1 DEF StaleFiles
    <3>2. /\ e.kind = "directory" /\ e.deleteStale /\ ~e.template
          /\ p \in Covers(e) \ Sourced(e) /\ target'[p] # Absent
      BY <1>7, <3>1 DEF Stale, Covers
    <3>3. p # q /\ p \in Files
      BY <1>1, <1>4, <3>2, CoversFiles
    <3>4. p \in Stale(e)
      BY <1>4, <3>2, <3>3 DEF Stale
    <3> QED
      BY <1>2, <3>3, <3>4 DEF StaleFiles
  <2> QED
    BY <1>1, <2>1
<1>12. SparesWork'
  <2>1. \A p \in deletions' : p \notin Uncommitted'
    BY <1>1, <1>2, <1>3, <1>4 DEF SparesWork, Uncommitted
  <2> QED
    BY <1>1, <2>1 DEF SparesWork
<1>13. SourcesExist'
  BY <1>1, <1>2, <1>7 DEF SourcesExist
<1>14. \A w \in writes' : SoundCopy(w)'
  BY <1>1
<1> QED
  BY <1>1, <1>8, <1>10, <1>11, <1>12, <1>13, <1>14 DEF SyncInv

\* The plan is exactly what a check would report.
LEMMA PlanSync ==
  ASSUME SyncInv, Plan
  PROVE  SyncInv'
<1>1. /\ phase = "planning" /\ job \in Jobs /\ outcome = "none"
      /\ UNCHANGED <<source, target>>
  BY DEF Plan, SyncInv, sourceVars
<1>2. CASE \E how \in {"refused", "current", "drift"} : Ends(how)
  BY <1>2 DEF Ends, SyncInv
<1>3. CASE /\ SourcesExist
           /\ writes' = Copies(job) /\ deletions' = StaleFiles(job)
           /\ phase' = "guarding" /\ UNCHANGED <<consumerGit, job, outcome>>
  <2>1. \A e : Sourced(e)' = Sourced(e)
    BY <1>1, <1>3, SoundKept
  <2>2. ASSUME NEW w \in Copies(job) PROVE SoundCopy(w)'
    <3>1. PICK e \in job.entries : \E p \in Writes(e, job.force) :
            w = [from |-> Origin(e, p), to |-> p]
      BY DEF Copies
    <3>2. /\ w.to \in Sourced(e) /\ w.from = Origin(e, w.to)
          /\ e.template /\ target[w.to] # Absent => job.force
      BY <3>1 DEF Writes, Drifted
    <3> QED
      BY <1>1, <1>3, <2>1, <3>2 DEF SoundCopy
  <2>3. ASSUME NEW p \in StaleFiles(job) PROVE SoundRemoval(p)'
    <3>1. PICK e \in job.entries : p \in Stale(e)
      BY DEF StaleFiles
    <3> QED
      BY <1>3, <2>1, <3>1 DEF SoundRemoval, Stale
  <2>4. Copies(job)' = Copies(job) /\ StaleFiles(job)' = StaleFiles(job)
    BY <1>1, <1>3 DEF Copies, Writes, Drifted, Sourced, StaleFiles, Stale
  <2> QED
    BY <1>1, <1>3, <2>1, <2>2, <2>3, <2>4 DEF SyncInv, SourcesExist
<1> QED
  BY <1>2, <1>3 DEF Plan

LEMMA SyncStep == Disjoint /\ TypeOK /\ SyncInv /\ [Next]_vars => SyncInv'
<1> SUFFICES ASSUME Disjoint, TypeOK, SyncInv, [Next]_vars PROVE SyncInv'
  OBVIOUS
<1>1. ASSUME NEW how, how # "synced", Ends(how) PROVE SyncInv'
  BY <1>1 DEF Ends, SyncInv
<1>2. ASSUME NEW j \in Jobs, Begin(j) PROVE SyncInv'
  BY <1>2 DEF Begin, SyncInv
<1>3. CASE GatePasses
  BY <1>3 DEF GatePasses, SyncInv
<1>4. CASE GateRefuses \/ GuardRefuses \/ Killed
  BY <1>1, <1>4 DEF GateRefuses, GuardRefuses, Killed
<1>5. CASE Plan
  BY <1>5, PlanSync
<1>6. CASE GuardPasses
  <2>1. /\ phase = "guarding" /\ phase' = "writing" /\ SparesWork
        /\ UNCHANGED <<source, target, committed, index, job, writes, deletions, outcome>>
    <3>1. PICK old \in RenamedFrom : Clobbered(old) = {}
      BY <1>6 DEF GuardPasses
    <3>2. Uncommitted \subseteq LocallyModified(old)
      BY <3>1 DEF RenamedFrom, Removed, Uncommitted, LocallyModified
    <3>3. SparesWork
      BY <3>1, <3>2 DEF SparesWork, Clobbered
    <3> QED
      BY <1>6, <3>3 DEF GuardPasses, sourceVars, consumerGit
  <2>2. /\ SparesWork'
        /\ Copies(job)' = Copies(job) /\ StaleFiles(job)' = StaleFiles(job)
    BY <2>1 DEF SparesWork, Uncommitted, Copies, Writes, Drifted, Sourced, StaleFiles, Stale
  <2>3. /\ \A e : Sourced(e)' = Sourced(e)
        /\ \A w : SoundCopy(w) => SoundCopy(w)'
        /\ \A p : SoundRemoval(p) => SoundRemoval(p)'
    BY <2>1, SoundKept
  <2> QED
    BY <2>1, <2>2, <2>3 DEF SyncInv, SourcesExist
<1>7. ASSUME NEW w \in writes, Write(w) PROVE SyncInv'
  BY <1>7, WriteSync
<1>8. ASSUME NEW p \in deletions, Delete(p) PROVE SyncInv'
  BY <1>8, DeleteSync
<1>9. CASE Finish
  <2>1. /\ phase = "writing" /\ writes = {} /\ deletions = {}
        /\ phase' = "idle" /\ UNCHANGED <<source, target, job>>
    BY <1>9 DEF Finish, Ends, sourceVars
  <2>2. Copies(job) = {} /\ StaleFiles(job) = {} /\ job \in Jobs
    BY <2>1 DEF SyncInv
  <2>3. Issues(job)' = {}
    BY <2>1, <2>2 DEF Issues, Copies, Writes, Drifted, Sourced, StaleFiles, Stale
  <2>4. SourcesExist'
    BY <2>1 DEF SyncInv, SourcesExist, Sourced
  <2> QED
    BY <2>1, <2>2, <2>3, <2>4 DEF SyncInv
<1>10. CASE SourceMoves \/ ConsumerWorks
  BY <1>10 DEF SourceMoves, ConsumerWorks, Forgets, SyncInv
<1>11. CASE UNCHANGED vars
  <2>1. UNCHANGED <<source, target, committed, index, phase, job, writes, deletions, outcome>>
    BY <1>11 DEF vars
  <2> QED
    BY <2>1 DEF SyncInv, SourcesExist, SoundCopy, SoundRemoval, SparesWork, Uncommitted,
                Issues, Copies, Writes, Drifted, Sourced, StaleFiles, Stale
<1> QED
  BY <1>2, <1>3, <1>4, <1>5, <1>6, <1>7, <1>8, <1>9, <1>10, <1>11 DEF Next

LEMMA SyncCorrect ==
  ASSUME Disjoint
  PROVE  Spec => [](TypeOK /\ SyncInv)
<1>1. Init => SyncInv
  BY DEF Init, SyncInv
<1> QED
  BY <1>1, SyncStep, ImportTypeCorrect, PTL DEF Spec

\* A check right after a successful sync passes, and a second sync would change
\* nothing: what is written for one entry is never undone for another.
THEOREM CheckCorrect ==
  ASSUME Disjoint
  PROVE  Spec => []CheckPassesAfterSync
<1>1. SyncInv => CheckPassesAfterSync
  BY DEF SyncInv, CheckPassesAfterSync
<1> QED
  BY <1>1, SyncCorrect, PTL

\* An import neither overwrites nor removes a tracked file that differs from the
\* consumer's commit, at no point of its writing and however it is killed.
THEOREM WorkCorrect ==
  ASSUME Disjoint
  PROVE  Spec => WorkSurvives
<1>1. ASSUME TypeOK, SyncInv, [Next]_vars, phase = "writing", NEW p \in Uncommitted
      PROVE  target'[p] = target[p]
  <2>1. p \in Files /\ (\A w \in writes : w.to # p) /\ p \notin deletions
    BY <1>1 DEF SyncInv, SparesWork, Uncommitted
  <2>2. ASSUME NEW w \in writes, target' = [target EXCEPT ![w.to] = Torn]
                                 \/ target' = [target EXCEPT ![w.to] = source[w.from]]
        PROVE  target'[p] = target[p]
    BY <1>1, <2>1, <2>2 DEF TypeOK
  <2>3. ASSUME NEW q \in deletions, Delete(q) PROVE target'[p] = target[p]
    BY <2>1, <2>3 DEF Delete, TypeOK
  <2>4. CASE Killed
    BY <2>2, <2>4 DEF Killed
  <2>5. ASSUME NEW w \in writes, Write(w) PROVE target'[p] = target[p]
    BY <2>2, <2>5 DEF Write
  <2>6. CASE Finish \/ UNCHANGED vars
    BY <2>6 DEF Finish, vars
  <2> QED
    BY <1>1, <2>3, <2>4, <2>5, <2>6
    DEF Next, Begin, GatePasses, GateRefuses, Plan, GuardRefuses, GuardPasses,
        SourceMoves, ConsumerWorks
<1>2. TypeOK /\ SyncInv /\ [Next]_vars =>
        [phase = "writing" => \A p \in Uncommitted : target'[p] = target[p]]_vars
  BY <1>1
<1> QED
  BY <1>2, SyncCorrect, PTL DEF Spec, WorkSurvives

\* Without --force-templates no template that is there changes, and from a
\* template directory nothing is ever removed.
THEOREM TemplatesCorrect ==
  ASSUME Disjoint
  PROVE  Spec => TemplatesSurvive
<1>1. ASSUME TypeOK, SyncInv, [Next]_vars, phase = "writing",
             NEW e \in job.entries, NEW p \in Covers(e),
             e.template, target[p] # Absent, target'[p] # target[p]
      PROVE  job.force /\ target'[p] # Absent
  <2>1. p \in Files /\ job \in Jobs
    BY <1>1, CoversFiles DEF SyncInv
  <2>2. ASSUME NEW w \in writes, target' = [target EXCEPT ![w.to] = Torn]
                                 \/ target' = [target EXCEPT ![w.to] = source[w.from]]
        PROVE  job.force /\ target'[p] # Absent
    <3>1. p = w.to
      BY <1>1, <2>1, <2>2 DEF TypeOK
    <3>2. PICK mine \in job.entries :
            /\ w.to \in Sourced(mine) /\ w.from = Origin(mine, w.to)
            /\ mine.template /\ target[w.to] # Absent => job.force
      BY <1>1 DEF SyncInv, SoundCopy
    <3>3. e = mine
      BY <2>1, <3>1, <3>2, OneEntry DEF Sourced
    <3>4. source[w.from] # Absent /\ Torn # Absent
      BY <3>2, ImportAssumption DEF Sourced, ImportAssumption
    <3>5. target'[p] \in {Torn, source[w.from]}
      BY <1>1, <2>1, <2>2, <3>1 DEF TypeOK
    <3> QED
      BY <1>1, <3>1, <3>2, <3>3, <3>4, <3>5
  <2>3. ASSUME NEW q \in deletions, Delete(q) PROVE FALSE
    <3>1. p = q
      BY <1>1, <2>1, <2>3 DEF Delete, TypeOK
    <3>2. PICK mine \in job.entries : q \in Covers(mine) /\ ~mine.template
      BY <1>1 DEF SyncInv, SoundRemoval
    <3> QED
      BY <1>1, <2>1, <3>1, <3>2, OneEntry
  <2>4. CASE Killed
    BY <1>1, <2>2, <2>4 DEF Killed
  <2>5. ASSUME NEW w \in writes, Write(w) PROVE job.force /\ target'[p] # Absent
    BY <2>2, <2>5 DEF Write
  <2>6. ~Finish /\ ~(UNCHANGED vars)
    BY <1>1 DEF Finish, vars
  <2> QED
    BY <1>1, <2>3, <2>4, <2>5, <2>6
    DEF Next, Begin, GatePasses, GateRefuses, Plan, GuardRefuses, GuardPasses,
        SourceMoves, ConsumerWorks
<1>2. TypeOK /\ SyncInv /\ [Next]_vars =>
        [phase = "writing" =>
           \A e \in job.entries : \A p \in Covers(e) :
             e.template /\ target[p] # Absent /\ target'[p] # target[p] =>
               job.force /\ target'[p] # Absent]_vars
  BY <1>1
<1> QED
  BY <1>2, SyncCorrect, PTL DEF Spec, TemplatesSurvive

-----------------------------------------------------------------------------
(* What a verified import brings: what the source held at the pin.  The plan  *)
(* reads the checkout and git status says nothing of ignored files, so this   *)
(* rests on no entry covering one.                                            *)

NothingIgnored ==
  \A m \in Manifests : \A e \in m : \A p \in Covers(e) : Origin(e, p) \notin Ignored

\* From its verification to the end of the import, and until someone moves it,
\* the source is at the pin but for what git ignores.
PinInv ==
  job \in Jobs /\ job.pin # NoPin /\ (phase # "idle" \/ outcome = "synced") =>
    \A p \in Files \ Ignored : source[p] = Published[job.pin][p]

LEMMA PinStep == PinInv /\ [Next]_vars => PinInv'
<1> SUFFICES ASSUME PinInv, [Next]_vars PROVE PinInv'
  OBVIOUS
<1> USE DEF PinInv
<1>1. ASSUME NEW j \in Jobs, Begin(j) PROVE PinInv'
  BY <1>1 DEF Begin, Proven, sourceVars
<1>2. ASSUME NEW how, phase # "idle", Ends(how), UNCHANGED source PROVE PinInv'
  BY <1>2 DEF Ends
<1>3. CASE GatePasses
  <2>1. \A p \in Files \ Ignored : source'[p] = source[p]
    BY <1>3 DEF GatePasses
  <2> QED
    BY <1>3, <2>1 DEF GatePasses
<1>4. CASE GateRefuses \/ GuardRefuses \/ Finish \/ Killed
  BY <1>2, <1>4 DEF GateRefuses, GuardRefuses, Finish, Killed, sourceVars
<1>5. CASE Plan
  <2>1. phase # "idle" /\ UNCHANGED source
    BY <1>5 DEF Plan, sourceVars
  <2>2. CASE \E how : Ends(how)
    BY <1>2, <2>1, <2>2
  <2>3. CASE phase' = "guarding" /\ UNCHANGED job
    BY <2>1, <2>3
  <2> QED
    BY <1>5, <2>2, <2>3 DEF Plan
<1>6. CASE GuardPasses
  BY <1>6 DEF GuardPasses, sourceVars
<1>7. ASSUME NEW w \in writes, Write(w) PROVE PinInv'
  BY <1>7 DEF Write, sourceVars
<1>8. ASSUME NEW p \in deletions, Delete(p) PROVE PinInv'
  BY <1>8 DEF Delete, sourceVars
<1>9. CASE SourceMoves
  BY <1>9 DEF SourceMoves, Forgets
<1>10. CASE ConsumerWorks
  BY <1>10 DEF ConsumerWorks, Forgets, sourceVars
<1>11. CASE UNCHANGED vars
  BY <1>11 DEF vars
<1> QED
  BY <1>1, <1>3, <1>4, <1>5, <1>6, <1>7, <1>8, <1>9, <1>10, <1>11 DEF Next

\* What a sync leaves where nothing drifted and nothing is stale.
LEMMA NothingLeft ==
  ASSUME SyncInv, outcome = "synced", NEW e \in job.entries, NEW p \in Covers(e), ~e.template
  PROVE  /\ source[Origin(e, p)] # Absent => target[p] = source[Origin(e, p)]
         /\ source[Origin(e, p)] = Absent /\ e.deleteStale => target[p] = Absent
<1>1. /\ job \in Jobs /\ Copies(job) = {} /\ StaleFiles(job) = {}
      /\ e.kind = "file" => Sourced(e) # {}
  BY DEF SyncInv, SourcesExist, Issues
<1>2. ASSUME source[Origin(e, p)] # Absent, target[p] # source[Origin(e, p)] PROVE FALSE
  <2>1. p \in Writes(e, job.force)
    BY <1>2 DEF Writes, Drifted, Sourced
  <2>2. [from |-> Origin(e, p), to |-> p] \in Copies(job)
    BY <2>1 DEF Copies
  <2> QED
    BY <1>1, <2>2
<1>3. ASSUME source[Origin(e, p)] = Absent, e.deleteStale, target[p] # Absent PROVE FALSE
  <2>1. p \notin Sourced(e)
    BY <1>3 DEF Sourced
  <2>2. e.kind # "file"
    BY <1>1, <2>1 DEF Sourced, Covers
  <2>3. e.kind = "directory"
    BY <1>1, <2>2, ImportAssumption DEF ImportAssumption, Jobs, Entries
  <2>4. p \in Stale(e)
    BY <1>3, <2>1, <2>3 DEF Stale
  <2> QED
    BY <1>1, <2>4 DEF StaleFiles
<1> QED
  BY <1>2, <1>3

\* After a verified import the files its entries name are those of the pinned
\* commit, and a directory it cleans holds no others, as long as no entry covers
\* a file git ignores.
THEOREM PinCorrect ==
  ASSUME Disjoint, NothingIgnored
  PROVE  Spec => []ImportsThePin
<1>1. Init => PinInv
  BY DEF Init, PinInv
<1>2. SyncInv /\ PinInv => ImportsThePin
  <2> SUFFICES ASSUME SyncInv, PinInv, outcome = "synced", job.pin # NoPin,
                      NEW e \in job.entries, NEW p \in Covers(e), ~e.template,
                      Published[job.pin][Origin(e, p)] # Absent \/ e.deleteStale
               PROVE  target[p] = Published[job.pin][Origin(e, p)]
    BY DEF ImportsThePin
  <2>1. job \in Jobs
    BY DEF SyncInv
  <2>2. Origin(e, p) \in Files \ Ignored
    BY <2>1, CoversFiles DEF NothingIgnored, Jobs
  <2>3. source[Origin(e, p)] = Published[job.pin][Origin(e, p)]
    BY <2>1, <2>2 DEF PinInv
  <2> QED
    BY <2>3, NothingLeft
<1> QED
  BY <1>1, <1>2, PinStep, SyncCorrect, PTL DEF Spec
=============================================================================
