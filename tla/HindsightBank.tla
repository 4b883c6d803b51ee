---------------------------- MODULE HindsightBank ----------------------------
(***************************************************************************)
(* A memory bank on a Hindsight server, as automation/context/memory.py uses *)
(* it.  The server is not part of this repository: it stores what a retain   *)
(* sends, when the request arrives, consolidates and forgets by itself, and  *)
(* returns units in an order of its own.                                     *)
(***************************************************************************)
EXTENDS Integers, FiniteSets

CONSTANTS
  Sources,    \* repository paths that are retained
  Texts,      \* versions of a file; a digest is named after the text it is of
  Ids,        \* ids of memory units, each used once: the bound of the bank
  NoSource    \* a unit without provenance

VARIABLES
  bank,       \* the memory units
  used,       \* the ids given out
  wire        \* retain requests that have been sent and not yet carried out

bankVars == <<bank, used, wire>>

Item == [source : Sources, digest : Texts, text : Texts]
Units == [id : Ids, source : Sources \cup {NoSource}, digest : Texts, text : Texts]

BankTypeOK ==
  /\ bank \subseteq Units /\ IsFiniteSet(bank)
  /\ used \subseteq Ids
  /\ wire \subseteq Item

BankInit == bank = {} /\ used = {} /\ wire = {}

Unit(id, item) ==
  [id |-> id, source |-> item.source, digest |-> item.digest, text |-> item.text]
OfOthers(source) == {u \in bank : u.source # source}

\* update_mode "replace": what was extracted from the document before goes, and
\* what is extracted now comes, in one transaction.  Nothing need be extracted.
Stores(item) ==
  /\ item \in wire
  /\ wire' = wire \ {item}
  /\ \/ bank' = OfOthers(item.source) /\ UNCHANGED used
     \/ \E id \in Ids \ used : /\ bank' = OfOthers(item.source) \cup {Unit(id, item)}
                               /\ used' = used \cup {id}

\* A request may be lost, or refused.
Loses(item) ==
  /\ item \in wire
  /\ wire' = wire \ {item}
  /\ UNCHANGED <<bank, used>>

\* A consolidation: generated text, of no source.
Consolidates ==
  /\ \E id \in Ids \ used, t \in Texts :
       /\ bank' = bank \cup {[id |-> id, source |-> NoSource, digest |-> t, text |-> t]}
       /\ used' = used \cup {id}
  /\ UNCHANGED wire

Forgets(u) ==
  /\ u \in bank
  /\ bank' = bank \ {u}
  /\ UNCHANGED <<used, wire>>
=============================================================================
