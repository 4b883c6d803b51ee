----------------------------- MODULE SlicePolicy -----------------------------
(***************************************************************************)
(* What a finished run earns (automation/supervisor/policy.py): scope, file  *)
(* budget, required validations and their replays, manual proofs, and the    *)
(* verdict they add up to.  Paths, validations and proof types are members   *)
(* of small sets, and a path prefix is the set of paths under it.            *)
(***************************************************************************)
EXTENDS SliceSelection

CONSTANTS
  Paths,              \* repository paths
  Validations,        \* validation commands
  ProofTypes,         \* kinds of manual proof
  Contract,           \* slice -> the contract its record states
  SupervisorOwned,    \* the paths under policy.supervisor_owned_paths
  ReplayAllowlist     \* the commands the supervisor replays itself

NoLevel == -1
ProofLadder == 0..7     \* doc-only .. testflight-verified

\* The fields of a slice record a run is judged by: allowed_paths,
\* max_files_changed, required_validations, manual_proof, required_proof_level.
Contracts ==
  [allowed : SUBSET Paths, maxFiles : Nat \ {0}, required : SUBSET Validations,
   manual : SUBSET ProofTypes, level : ProofLadder \cup {NoLevel}]

ASSUME ContractAssumption ==
  /\ IsFiniteSet(Paths)
  /\ Contract \in [Slices -> Contracts]
  /\ SupervisorOwned \subseteq Paths
  /\ ReplayAllowlist \subseteq Validations

-----------------------------------------------------------------------------
(* Scope, budget, validations and manual proofs. *)

OutOfScope(paths, c, owned) == paths \ (owned \cup c.allowed)

Introduced(before, after) == after \ before

ChangedFileCount(c, owned, h, changed) ==
  LET inScope == Cardinality((changed \cap c.allowed) \ owned)
      touched == Cardinality(h.touched)
  IN  IF inScope >= touched THEN inScope ELSE touched

RequiredValidationFailures(c, h) ==
  {v \in c.required : v \in h.failed \/ v \notin h.passed}

\* The commands the supervisor runs again: required, allowlisted, claimed.
ReplayCandidates(c, h) == c.required \cap ReplayAllowlist \cap h.passed

\* Proofs naming another slice or another commit are ignored; of several of
\* one type the last wins.
CountedProofs(s, h) ==
  {i \in DOMAIN h.proofs : h.proofs[i].slice = s /\ h.proofs[i].sha = "head"}

\* Mutant: any sound proof will do, a later one that fails or not.
ProofHoldsOnce(s, h, type) ==
  \E i \in CountedProofs(s, h) : h.proofs[i].type = type /\ h.proofs[i].sound

ProofHolds(s, h, type) ==
  \E i \in CountedProofs(s, h) :
    /\ h.proofs[i].type = type
    /\ h.proofs[i].sound
    /\ \A j \in CountedProofs(s, h) : h.proofs[j].type = type => j <= i

ManualProofsMissing(s, c, h) ==
  \/ c.manual # {} /\ h.sha # "head"
  \/ \E type \in c.manual : ~ProofHolds(s, h, type)

MeetsProofLevel(achieved, required) == achieved >= required

-----------------------------------------------------------------------------
(* The verdict. *)

\* Mutant: the handoff's claims are believed.
ValidationsUnreplayed(c, h, replayFailures) == RequiredValidationFailures(c, h) # {}

ValidationsFail(c, h, replayFailures) ==
  RequiredValidationFailures(c, h) \cup replayFailures # {}

LeavesScope(c, owned, h, changed) ==
  \/ OutOfScope(changed, c, owned) # {}
  \/ h.outside # {}
  \/ OutOfScope(h.touched, c, owned) # {}

ExceedsBudget(c, owned, h, changed) == ChangedFileCount(c, owned, h, changed) > c.maxFiles

ProofsFail(s, c, h) == ManualProofsMissing(s, c, h) \/ ~MeetsProofLevel(h.level, c.level)

\* A handoff reports done, blocked or failed; only done is checked further.
EvaluateCompletion(q, s, h, before, after, runs, limit, replayFailures) ==
  LET c == Contract[s]
      introduced == Introduced(before, after)
      Reject(why) == Stop("failed", "stop_failed", why)
  IN  IF h.status = "blocked" THEN Stop("blocked", "stop_blocked", "reported")
      ELSE IF h.status = "failed" THEN Reject("reported")
      ELSE IF ValidationsFail(c, h, replayFailures) THEN Reject("validations")
      ELSE IF LeavesScope(c, SupervisorOwned, h, introduced) THEN Reject("scope")
      ELSE IF ExceedsBudget(c, SupervisorOwned, h, introduced) THEN Reject("budget")
      ELSE IF ProofsFail(s, c, h) THEN Reject("proof")
      ELSE NextSliceEligibility(q, s, h.next, runs, limit)

\* A proof, like a handoff, names the commit the supervisor observes after the
\* run, another one, or (a handoff only) none.
ProvidedProofs == [slice : Slices, sha : {"head", "other"}, type : ProofTypes, sound : BOOLEAN]

\* The part of a handoff document the policy reads.
Handoff ==
  [slice : Slices, status : Verdicts,
   passed : SUBSET Validations, failed : SUBSET Validations,
   touched : SUBSET Paths, outside : SUBSET Paths,
   next : Slices \cup {NoSlice, UnknownSlice}, level : ProofLadder,
   sha : {"head", "other", "none"}, proofs : Seq(ProvidedProofs)]
=============================================================================
