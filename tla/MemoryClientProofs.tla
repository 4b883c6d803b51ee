-------------------------- MODULE MemoryClientProofs -------------------------
(***************************************************************************)
(* What a recall and a snapshot promise, for any repository, bank, page size *)
(* and limits.  That a capture is the bank rests on counting: what was read  *)
(* is a part of the bank as large as the bank.                               *)
(***************************************************************************)
EXTENDS MemoryClient, FiniteSetTheorems, TLAPS

\* Every digest, on the wire, in the bank or on its way to the context, is of
\* the text it came with; and what was kept had the digest this recall read.
Honest ==
  /\ \A i \in wire : i.digest = i.text
  /\ \A u \in bank \cup answer \cup kept : u.source # NoSource => u.digest = u.text
  /\ \A u \in kept : u.source \in Sources /\ digests[u.source] = u.digest

\* While a capture is paging, a bank that only grew or only shrank has another
\* size than announced, and one that did not change contains what was read.
Counted ==
  /\ stage = "started" => rows = {} /\ requests = 0 /\ changes = {}
  /\ stage \in {"paging", "captured"} =>
       /\ IsFiniteSet(rows)
       /\ requests <= Cardinality(rows) + 1
       /\ Cardinality(rows) <= MaxMemories
  /\ stage = "paging" =>
       /\ requests <= Cardinality(rows)
       /\ changes = {} => rows \subseteq bank /\ Cardinality(bank) = total
       /\ changes = {"added"} => Cardinality(bank) > total
       /\ changes = {"removed"} => Cardinality(bank) < total

-----------------------------------------------------------------------------
(* Types. *)

LEMMA TypeInit == Init => TypeOK
BY FS_EmptySet DEF Init, TypeOK, BankInit, BankTypeOK, NothingRead, Statuses, Stages

\* What the server does keeps the type of the bank.
LEMMA BankTyped ==
  ASSUME BankTypeOK,
         \/ \E item \in wire : Stores(item) \/ Loses(item)
         \/ Consolidates
         \/ \E u \in bank : Forgets(u)
  PROVE  BankTypeOK'
<1>1. ASSUME NEW item \in wire, Stores(item) PROVE BankTypeOK'
  <2>1. item \in Item
    BY DEF BankTypeOK
  <2>2. \A id \in Ids : Unit(id, item) \in Units
    BY <2>1 DEF Unit, Units, Item
  <2>3. IsFiniteSet(OfOthers(item.source))
    <3>1. OfOthers(item.source) \subseteq bank
      BY DEF OfOthers
    <3>2. QED  BY <3>1, FS_Subset DEF BankTypeOK
  <2>4. CASE bank' = OfOthers(item.source) /\ UNCHANGED used
    BY <1>1, <2>3, <2>4 DEF Stores, OfOthers, BankTypeOK
  <2>5. ASSUME NEW id \in Ids, bank' = OfOthers(item.source) \cup {Unit(id, item)},
               used' = used \cup {id}
        PROVE  BankTypeOK'
    BY <1>1, <2>2, <2>3, <2>5, FS_AddElement DEF Stores, OfOthers, BankTypeOK
  <2>6. QED  BY <1>1, <2>4, <2>5 DEF Stores
<1>2. ASSUME NEW item \in wire, Loses(item) PROVE BankTypeOK'
  BY <1>2 DEF Loses, BankTypeOK
<1>3. CASE Consolidates
  <2>1. PICK id \in Ids \ used, t \in Texts :
          /\ bank' = bank \cup {[id |-> id, source |-> NoSource, digest |-> t, text |-> t]}
          /\ used' = used \cup {id}
    BY <1>3 DEF Consolidates
  <2>2. bank' \subseteq Units
    BY <2>1 DEF BankTypeOK, Units
  <2>3. IsFiniteSet(bank')
    BY <2>1, FS_AddElement DEF BankTypeOK
  <2>4. used' \subseteq Ids /\ wire' \subseteq Item
    BY <1>3, <2>1 DEF Consolidates, BankTypeOK
  <2>5. QED  BY <2>2, <2>3, <2>4 DEF BankTypeOK
<1>4. ASSUME NEW u \in bank, Forgets(u) PROVE BankTypeOK'
  BY <1>4, FS_RemoveElement DEF Forgets, BankTypeOK
<1>5. QED  BY <1>1, <1>2, <1>3, <1>4

LEMMA TypeStep == TypeOK /\ [Next]_vars => TypeOK'
<1> SUFFICES ASSUME TypeOK, [Next]_vars PROVE TypeOK'
  OBVIOUS
<1>1. ASSUME NEW s \in Sources, Retain(s) PROVE TypeOK'
  <2>1. file[s] \in Texts
    BY <1>1 DEF Retain, TypeOK
  <2>2. Sent(s) \subseteq Item
    BY <2>1 DEF Sent, Item
  <2>3. wire' \subseteq Item
    BY <1>1, <2>2 DEF Retain, TypeOK, BankTypeOK
  <2>4. QED  BY <1>1, <2>3 DEF Retain, TypeOK, BankTypeOK, recallVars, captureVars
<1>2. CASE Recall
  BY <1>2 DEF Recall, TypeOK, BankTypeOK, bankVars, captureVars, NothingRead, Statuses
<1>3. CASE Answered
  BY <1>3 DEF Answered, TypeOK, BankTypeOK, bankVars, captureVars
<1>4. CASE Unavailable
  BY <1>4 DEF Unavailable, TypeOK, BankTypeOK, bankVars, captureVars, Statuses
<1>5. ASSUME NEW u \in answer, Shape(u) PROVE TypeOK'
  <2>1. u \in Units
    BY DEF TypeOK
  <2>2. Digests(u.source) \in [Sources -> Texts \cup {Missing, Unread}]
    BY <2>1 DEF Digests, TypeOK, Units
  <2>3. QED  BY <1>5, <2>1, <2>2 DEF Shape, TypeOK, BankTypeOK, bankVars, captureVars
<1>6. CASE Shaped
  BY <1>6 DEF Shaped, TypeOK, BankTypeOK, bankVars, captureVars, Statuses
<1>7. CASE Snapshot
  BY <1>7 DEF Snapshot, Begins, TypeOK, BankTypeOK, bankVars, recallVars, Stages
<1>8. CASE Page
  <2>1. CASE Begins("idle")
    BY <1>8, <2>1 DEF Page, Begins, TypeOK, BankTypeOK, bankVars, recallVars, Stages
  <2>2. ASSUME NEW page \in SUBSET bank, rows' = rows \cup page, total' = Announced,
               requests' = requests + 1, UNCHANGED changes,
               stage' = IF More(page) THEN "paging" ELSE "captured"
        PROVE  TypeOK'
    <3>1. Announced \in Nat
      BY FS_CardinalityType DEF Announced, TypeOK, BankTypeOK
    <3>2. stage' \in Stages
      BY <2>2 DEF Stages
    <3>3. rows' \subseteq Units
      BY <2>2 DEF TypeOK, BankTypeOK
    <3>4. total' \in Nat /\ requests' \in Nat
      BY <2>2, <3>1 DEF TypeOK
    <3>5. changes' \subseteq {"added", "removed"}
      BY <2>2 DEF TypeOK
    <3>6. QED
      BY <1>8, <3>2, <3>3, <3>4, <3>5 DEF Page, TypeOK, BankTypeOK, bankVars, recallVars
  <2>3. QED  BY <1>8, <2>1, <2>2 DEF Page
<1>9. CASE PageFails
  BY <1>9 DEF PageFails, Begins, TypeOK, BankTypeOK, bankVars, recallVars, Stages
<1>10. CASE BankChanges
  <2>1. BankTypeOK'
    BY <1>10, BankTyped DEF BankChanges, TypeOK
  <2>2. changes' \subseteq {"added", "removed"}
    BY <1>10 DEF BankChanges, Changes, TypeOK
  <2>3. QED  BY <1>10, <2>1, <2>2 DEF BankChanges, TypeOK, recallVars
<1>11. ASSUME NEW s \in Sources, PersonEdits(s) PROVE TypeOK'
  BY <1>11 DEF PersonEdits, TypeOK, BankTypeOK, bankVars, recallVars, captureVars
<1>12. CASE UNCHANGED vars
  BY <1>12 DEF vars, bankVars, recallVars, captureVars, TypeOK, BankTypeOK
<1>13. QED
  BY <1>1, <1>2, <1>3, <1>4, <1>5, <1>6, <1>7, <1>8, <1>9, <1>10, <1>11, <1>12
     DEF Next, ClientNext

\* Every variable of the client and of the bank keeps its type.
THEOREM MemoryTypeCorrect == Spec => []TypeOK
<1>1. Init => TypeOK
  BY TypeInit
<1>2. TypeOK /\ [Next]_vars => TypeOK'
  BY TypeStep
<1>3. QED  BY <1>1, <1>2, PTL DEF Spec

-----------------------------------------------------------------------------
(* Recall. *)

LEMMA HonestInit == Init => Honest
BY DEF Init, BankInit, Honest

LEMMA HonestStep == TypeOK /\ Honest /\ [Next]_vars => Honest'
<1> SUFFICES ASSUME TypeOK, Honest, [Next]_vars PROVE Honest'
  OBVIOUS
<1>1. ASSUME NEW s \in Sources, Retain(s) PROVE Honest'
  BY <1>1 DEF Retain, Sent, Honest, recallVars, captureVars
<1>2. CASE Recall
  BY <1>2 DEF Recall, Honest, bankVars, captureVars
<1>3. CASE Answered
  BY <1>3 DEF Answered, Honest, bankVars, captureVars
<1>4. CASE Unavailable
  BY <1>4 DEF Unavailable, Honest, bankVars, captureVars
<1>5. ASSUME NEW u \in answer, Shape(u) PROVE Honest'
  <2>1. u \in Units
    BY DEF TypeOK
  <2>2. \A v \in kept : digests[v.source] \in Texts /\ v.source \in Sources
    BY DEF Honest, TypeOK, Units
  <2>3. \A v \in kept : digests'[v.source] = digests[v.source]
    BY <1>5, <2>2, MemoryAssumption DEF Shape, Digests, TypeOK
  <2>4. \A v \in kept' : v \in kept \/ (v = u /\ ProvenanceHolds(u, digests'))
    BY <1>5 DEF Shape
  <2>5. \A v \in kept' : v.source \in Sources /\ digests'[v.source] = v.digest
    BY <2>1, <2>2, <2>3, <2>4 DEF Honest, ProvenanceHolds, Units
  <2>6. \A v \in bank' \cup answer' \cup kept' : v.source # NoSource => v.digest = v.text
    BY <1>5, <2>4 DEF Shape, Honest, bankVars
  <2>7. QED  BY <1>5, <2>5, <2>6 DEF Shape, Honest, bankVars
<1>6. CASE Shaped
  BY <1>6 DEF Shaped, Honest, bankVars, captureVars
<1>7. CASE Snapshot \/ Page \/ PageFails
  BY <1>7 DEF Snapshot, Page, PageFails, Honest, bankVars, recallVars
<1>8. CASE BankChanges
  <2>1. wire' \subseteq wire
    BY <1>8 DEF BankChanges, Stores, Loses, Consolidates, Forgets
  <2>2. ASSUME NEW item \in wire, Stores(item), NEW u \in bank', u.source # NoSource
        PROVE  u.digest = u.text
    <3>1. u \in bank \/ \E id \in Ids : u = Unit(id, item)
      BY <2>2 DEF Stores, OfOthers
    <3>2. QED  BY <2>2, <3>1 DEF Unit, Honest
  <2>3. ASSUME Consolidates, NEW u \in bank', u.source # NoSource
        PROVE  u.digest = u.text
    BY <2>3 DEF Consolidates, Honest
  <2>4. ASSUME (\E item \in wire : Loses(item)) \/ (\E v \in bank : Forgets(v))
        PROVE  bank' \subseteq bank
    BY <2>4 DEF Loses, Forgets
  <2>5. \A u \in bank' : u.source # NoSource => u.digest = u.text
    BY <1>8, <2>2, <2>3, <2>4 DEF BankChanges, Honest
  <2>6. QED  BY <1>8, <2>1, <2>5 DEF BankChanges, Honest, recallVars
<1>9. ASSUME NEW s \in Sources, PersonEdits(s) PROVE Honest'
  BY <1>9 DEF PersonEdits, Honest, bankVars, recallVars, captureVars
<1>10. CASE UNCHANGED vars
  BY <1>10 DEF vars, bankVars, recallVars, captureVars, Honest
<1>11. QED
  BY <1>1, <1>2, <1>3, <1>4, <1>5, <1>6, <1>7, <1>8, <1>9, <1>10 DEF Next, ClientNext

\* A recall hands on, for every source, text of the one version it read.
THEOREM RecallCorrect == Spec => []RecallIsOneReading
<1>1. TypeOK /\ Honest => RecallIsOneReading
  BY MemoryAssumption DEF Honest, RecallIsOneReading
<1>2. Init => TypeOK /\ Honest
  BY TypeInit, HonestInit
<1>3. TypeOK /\ Honest /\ [Next]_vars => (TypeOK /\ Honest)'
  BY TypeStep, HonestStep
<1>4. QED  BY <1>1, <1>2, <1>3, PTL DEF Spec

-----------------------------------------------------------------------------
(* Snapshot. *)

\* Rows that were not read before are counted on top of those that were.
LEMMA DisjointUnion ==
  ASSUME NEW S, IsFiniteSet(S), NEW T, IsFiniteSet(T), S \cap T = {}
  PROVE  /\ IsFiniteSet(S \cup T)
         /\ Cardinality(S) \in Nat /\ Cardinality(S \cup T) \in Nat
         /\ Cardinality(S) <= Cardinality(S \cup T)
         /\ T # {} => Cardinality(S) + 1 <= Cardinality(S \cup T)
<1>1. Cardinality(S) \in Nat /\ Cardinality(T) \in Nat
  BY FS_CardinalityType
<1>2. Cardinality(S \cap T) = 0
  <2>1. Cardinality({}) = 0
    BY FS_EmptySet
  <2>2. QED  BY <2>1, Zenon
<1>3. /\ IsFiniteSet(S \cup T)
      /\ Cardinality(S \cup T) = Cardinality(S) + Cardinality(T) - Cardinality(S \cap T)
  BY FS_Union
<1>4. Cardinality(T) = 0 => T = {}
  BY FS_EmptySet
<1>5. QED  BY <1>1, <1>2, <1>3, <1>4

\* What a page that is accepted adds to what was read.
LEMMA PageCounted ==
  ASSUME TypeOK, Counted, stage \in {"started", "paging"},
         NEW page \in SUBSET bank, page \cap rows = {}, Cardinality(bank) = Announced,
         Announced <= MaxMemories, Cardinality(rows \cup page) <= Announced
  PROVE  /\ IsFiniteSet(rows \cup page) /\ Cardinality(rows \cup page) \in Nat
         /\ Cardinality(rows \cup page) <= MaxMemories
         /\ Cardinality(rows) \in Nat /\ Cardinality(rows) <= Cardinality(rows \cup page)
         /\ page # {} => Cardinality(rows) + 1 <= Cardinality(rows \cup page)
         /\ requests <= Cardinality(rows)
         /\ Cardinality(bank) = Announced /\ Announced \in Nat
<1>1. IsFiniteSet(bank) /\ Cardinality(bank) \in Nat /\ IsFiniteSet(page)
  BY FS_CardinalityType, FS_Subset DEF TypeOK, BankTypeOK
<1>2. IsFiniteSet(rows) /\ requests <= Cardinality(rows)
  <2>1. CASE stage = "started"
    <3>1. rows = {}
      BY <2>1 DEF Counted
    <3>2. Cardinality({}) = 0 /\ IsFiniteSet({})
      BY FS_EmptySet
    <3>3. requests = 0
      BY <2>1 DEF Counted
    <3>4. Cardinality(rows) = 0 /\ IsFiniteSet(rows)
      BY <3>1, <3>2, Zenon
    <3>5. QED  BY <3>3, <3>4
  <2>2. CASE stage = "paging"
    BY <2>2 DEF Counted
  <2>3. QED  BY <2>1, <2>2
<1>3. rows \cap page = {}
  OBVIOUS
<1>4. /\ IsFiniteSet(rows \cup page) /\ Cardinality(rows \cup page) \in Nat
      /\ Cardinality(rows) \in Nat /\ Cardinality(rows) <= Cardinality(rows \cup page)
      /\ page # {} => Cardinality(rows) + 1 <= Cardinality(rows \cup page)
  BY <1>1, <1>2, <1>3, DisjointUnion
<1>5. Cardinality(rows \cup page) <= MaxMemories
  BY <1>1, <1>4, MemoryAssumption
<1>6. QED  BY <1>1, <1>2, <1>4, <1>5

LEMMA CountedInit == Init => Counted
BY DEF Init, Counted

\* A bank that changes while a capture pages through it.
LEMMA BankCounted ==
  ASSUME TypeOK, TypeOK', Counted, BankChanges
  PROVE  Counted'
<1>1. UNCHANGED <<stage, rows, total, requests>>
  BY DEF BankChanges
<1>2. CASE stage # "paging"
  BY <1>1, <1>2 DEF BankChanges, Counted
<1>3. CASE stage = "paging"
  <2>1. changes' = changes \cup Changes
    BY <1>3 DEF BankChanges
  <2>2. /\ IsFiniteSet(bank) /\ Cardinality(bank) \in Nat
        /\ IsFiniteSet(bank') /\ Cardinality(bank') \in Nat /\ total \in Nat
    BY FS_CardinalityType DEF TypeOK, BankTypeOK
  <2>3. bank \subseteq bank' => Cardinality(bank) <= Cardinality(bank')
                                /\ (bank # bank' => Cardinality(bank) # Cardinality(bank'))
    BY <2>2, FS_Subset
  <2>4. bank' \subseteq bank => Cardinality(bank') <= Cardinality(bank)
                                /\ (bank # bank' => Cardinality(bank) # Cardinality(bank'))
    BY <2>2, FS_Subset
  <2>5. changes \subseteq {"added", "removed"}
    BY DEF TypeOK
  <2>6. changes' = {} => rows \subseteq bank' /\ Cardinality(bank') = total
    <3>1. changes' = {} => changes = {} /\ bank' = bank
      BY <2>1 DEF Changes
    <3>2. QED  BY <1>3, <3>1 DEF Counted
  <2>7. changes' = {"added"} => Cardinality(bank') > total
    <3>1. SUFFICES ASSUME changes' = {"added"} PROVE Cardinality(bank') > total
      OBVIOUS
    <3>2. bank \subseteq bank' /\ changes \in {{}, {"added"}}
      BY <2>1, <2>5, <3>1 DEF Changes
    <3>3. changes = {} => bank # bank'
      BY <2>1, <3>1 DEF Changes
    <3>4. QED  BY <1>3, <2>2, <2>3, <3>2, <3>3 DEF Counted
  <2>8. changes' = {"removed"} => Cardinality(bank') < total
    <3>1. SUFFICES ASSUME changes' = {"removed"} PROVE Cardinality(bank') < total
      OBVIOUS
    <3>2. bank' \subseteq bank /\ changes \in {{}, {"removed"}}
      BY <2>1, <2>5, <3>1 DEF Changes
    <3>3. changes = {} => bank # bank'
      BY <2>1, <3>1 DEF Changes
    <3>4. QED  BY <1>3, <2>2, <2>4, <3>2, <3>3 DEF Counted
  <2>9. QED  BY <1>1, <1>3, <2>6, <2>7, <2>8 DEF Counted
<1>4. QED  BY <1>2, <1>3

LEMMA CountedStep == TypeOK /\ TypeOK' /\ Counted /\ [Next]_vars => Counted'
<1> SUFFICES ASSUME TypeOK, TypeOK', Counted, [Next]_vars PROVE Counted'
  OBVIOUS
<1>1. ASSUME Begins("idle") \/ Begins("started") PROVE Counted'
  BY <1>1 DEF Begins, Counted
<1>2. CASE Page /\ ~Begins("idle")
  <2>1. PICK page \in SUBSET bank :
          /\ Fits(page) /\ (More(page) \/ Cardinality(rows \cup page) = Announced)
          /\ rows' = rows \cup page /\ total' = Announced /\ requests' = requests + 1
          /\ stage' = IF More(page) THEN "paging" ELSE "captured"
          /\ UNCHANGED changes
    BY <1>2 DEF Page
  <2>2. /\ IsFiniteSet(rows') /\ Cardinality(rows') \in Nat /\ Cardinality(rows') <= MaxMemories
        /\ Cardinality(rows) \in Nat /\ Cardinality(rows) <= Cardinality(rows')
        /\ page # {} => Cardinality(rows) + 1 <= Cardinality(rows')
        /\ requests <= Cardinality(rows) /\ Cardinality(bank) = total'
        /\ total' \in Nat
    BY <1>2, <2>1, PageCounted DEF Page, Fits
  <2>3. requests' <= Cardinality(rows') + 1
    BY <2>1, <2>2 DEF TypeOK
  <2>4. stage' = "paging" => requests' <= Cardinality(rows')
    BY <2>1, <2>2 DEF TypeOK, More
  <2>5. bank' = bank
    BY <1>2 DEF Page, bankVars
  <2>6. stage' = "paging" => (changes' = {} => rows' \subseteq bank')
    BY <1>2, <2>1, <2>5 DEF Page, Counted
  <2>7. stage' = "paging" => changes' # {"added"} /\ changes' # {"removed"}
    <3>1. CASE stage = "started"
      BY <2>1, <3>1 DEF Counted
    <3>2. CASE stage = "paging"
      BY <2>1, <2>2, <3>2 DEF Counted, Announced
    <3>3. QED  BY <1>2, <3>1, <3>2 DEF Page
  <2>8. stage' # "started"
    BY <2>1
  <2>9. QED  BY <2>2, <2>3, <2>4, <2>5, <2>6, <2>7, <2>8 DEF Counted
<1>3. CASE BankChanges
  BY <1>3, BankCounted
<1>4. CASE UNCHANGED <<bankVars, captureVars>>
  BY <1>4 DEF Counted, bankVars, captureVars
<1>5. ASSUME NEW s \in Sources, Retain(s) PROVE Counted'
  BY <1>5 DEF Retain, Counted, captureVars
<1>6. QED
  BY <1>1, <1>2, <1>3, <1>4, <1>5
     DEF Next, ClientNext, Recall, Answered, Unavailable, Shape, Shaped, Snapshot, Page,
         PageFails, PersonEdits, vars

\* No capture of a bank that only grew or only shrank meanwhile ends well, and one
\* of a bank that did not change is the bank, whatever rows the pages brought.
THEOREM CaptureCorrect == Spec => OneSidedChangesAreRefused
<1>1. Init => TypeOK /\ Counted
  BY TypeInit, CountedInit
<1>2. TypeOK /\ Counted /\ [Next]_vars => (TypeOK /\ Counted)'
  BY TypeStep, CountedStep
<1>3. ASSUME TypeOK, Counted, [Next]_vars, stage # "captured", stage' = "captured"
      PROVE  (changes = {} /\ rows' = bank) \/ changes = {"added", "removed"}
  <2>1. Page
    BY <1>3 DEF Next, ClientNext, Retain, Recall, Answered, Unavailable, Shape, Shaped,
                Snapshot, Begins, PageFails, BankChanges, PersonEdits, captureVars, vars
  <2>2. PICK page \in SUBSET bank :
          Fits(page) /\ rows' = rows \cup page /\ Cardinality(rows \cup page) = Announced
    BY <1>3, <2>1 DEF Page, Begins
  <2>3. IsFiniteSet(bank) /\ Cardinality(bank) = Cardinality(rows') /\ Cardinality(bank) \in Nat
    BY <1>3, <2>1, <2>2, PageCounted DEF Page, Fits, TypeOK, BankTypeOK
  <2>4. rows \subseteq bank => rows' = bank
    BY <2>2, <2>3, FS_Subset
  <2>5. CASE stage = "started"
    BY <1>3, <2>4, <2>5 DEF Counted
  <2>6. CASE stage = "paging"
    <3>1. changes \in {{}, {"added"}, {"removed"}, {"added", "removed"}}
      BY <1>3 DEF TypeOK
    <3>2. Cardinality(bank) = total
      BY <2>2, <2>6 DEF Fits, Announced
    <3>3. QED  BY <1>3, <2>3, <2>4, <2>6, <3>1, <3>2 DEF Counted
  <2>7. QED  BY <2>1, <2>5, <2>6 DEF Page
<1>4. QED  BY <1>1, <1>2, <1>3, PTL DEF Spec, OneSidedChangesAreRefused, Captures

\* An export asks for no more pages than it has rows, within its limit.
THEOREM ExportEnds == Spec => []PagesMakeProgress
<1>1. TypeOK /\ Counted => PagesMakeProgress
  BY FS_CardinalityType, MemoryAssumption DEF TypeOK, Counted, PagesMakeProgress
<1>2. Init => TypeOK /\ Counted
  BY TypeInit, CountedInit
<1>3. TypeOK /\ Counted /\ [Next]_vars => (TypeOK /\ Counted)'
  BY TypeStep, CountedStep
<1>4. QED  BY <1>1, <1>2, <1>3, PTL DEF Spec
=============================================================================
