------------------------------ MODULE MCReviews ------------------------------
(* A small queue, and the cases the two judges of Reviews are given on it. *)
EXTENDS Reviews

CONSTANTS s1, s2, s3

\* s1 comes last and asks for proofs, s3 depends on it; s1 and s2 work on the
\* same paths.
MCPriority == [x \in Slices |-> IF x = s1 THEN 2 ELSE 1]
MCPosition == [x \in Slices |-> CASE x = s1 -> 0 [] x = s2 -> 1 [] x = s3 -> 2]
MCDependsOn == [x \in Slices |-> IF x = s3 THEN {s1} ELSE {}]

Unproved ==
  [allowed |-> {"app", "lib"}, maxFiles |-> 1, required |-> {"replayed", "reported"},
   manual |-> {}, level |-> NoLevel]
Agreed == [Unproved EXCEPT !.manual = {"video"}, !.level = 2]
Wider == [Agreed EXCEPT !.allowed = {"app", "lib", "doc"}]
MCContract == [x \in Slices |-> IF x = s1 THEN Agreed ELSE Unproved]

Proof(x, sha, sound) == [slice |-> x, sha |-> sha, type |-> "video", sound |-> sound]
Good == Proof(s1, "head", TRUE)
Bad == Proof(s1, "head", FALSE)
ProofLists ==
  { <<>>, <<Good>>, <<Good, Bad>>, <<Bad, Good>>, <<Good, Proof(s2, "head", FALSE)>>,
    <<Proof(s1, "other", TRUE)>> }

-----------------------------------------------------------------------------
(* What a supervisor judges: a slice in progress. *)

QueuesAround(x) ==
  {q \in [Slices -> {"queued", "in_progress", "done", "deferred"}] : InProgress(q) = {x}}

\* The run of s1 asks for proofs, the run of s2 for none: each is varied in what it
\* can be refused for.
ProofsGiven ==
  [queue : QueuesAround(s1), slice : {s1}, before : {{}}, after : {{}},
   runs : {1}, replayFailures : {{}},
   handoff :
     [slice : {s1}, status : Verdicts, passed : {Validations}, failed : {{}},
      touched : {{"app"}}, outside : {{}}, next : {NoSlice, s2},
      level : {1, 2}, sha : {"head", "other", "none"}, proofs : ProofLists]]

WorkLeft ==
  [queue : {q \in QueuesAround(s2) : q[s1] = "queued" /\ q[s3] = "queued"},
   slice : {s2}, before : {{}, {"doc"}}, after : SUBSET Paths,
   runs : {1}, replayFailures : {{}, {"replayed"}},
   handoff :
     [slice : {s2}, status : Verdicts, passed : SUBSET Validations,
      failed : {{}, {"reported"}}, touched : {{}, {"app"}, {"lib"}, {"doc"}},
      outside : {{}, {"doc"}}, next : {NoSlice}, level : {1}, sha : {"none"},
      proofs : {<<>>}]]

Chains ==
  [queue : UNION {QueuesAround(x) : x \in Slices}, slice : Slices,
   before : {{}}, after : {{"app"}}, runs : 1..3, replayFailures : {{}},
   handoff :
     [slice : {s2}, status : {"done"}, passed : {Validations}, failed : {{}},
      touched : {{}}, outside : {{}}, next : Slices \cup {NoSlice, UnknownSlice},
      level : {2}, sha : {"head"}, proofs : {<<Good>>}]]

\* Only a run that reports done is replayed.
MCCompletionInputs ==
  ProofsGiven
    \cup {c \in WorkLeft :
            c.replayFailures \subseteq
              IF c.handoff.status = "done" THEN ReplayCandidates(Contract[c.slice], c.handoff) ELSE {}}
    \cup {c \in Chains : c.queue[c.slice] = "in_progress"}

-----------------------------------------------------------------------------
(* What the evaluator judges: s1, between two commits. *)

Record(contract, depends) == [contract |-> contract, dependsOn |-> depends]
Recorded == Record(Agreed, {})
Records ==
  {Recorded, Record(Wider, {}), Record([Agreed EXCEPT !.manual = {}], {}),
   Record(Agreed, {s2}), NoRecord}

\* At base every path but lib has a file.  At head each file is as it was,
\* edited or gone, and lib may hold one that is gone from its old path.
BaseTree == [p \in Paths |-> IF p = "lib" THEN Absent ELSE p]
HeadTrees ==
  {t \in [Paths -> Paths \cup {Absent, Edited}] :
     /\ \A p \in Paths \ {"lib"} : t[p] \in {p, Edited, Absent}
     /\ t["lib"] \in {Absent, Edited} \/ (t["lib"] # "lib" /\ t[t["lib"]] = Absent)}
OneEdit == [BaseTree EXCEPT !["app"] = Edited]

Commits(trees, records) == [tree : trees, record : records]
BaseCommits(records) == Commits({BaseTree}, records)
Waiting == {[x \in Slices |-> "queued"]}

\* Whether the evaluation may begin.
Admissions ==
  [queue : {q \in [Slices -> Statuses] : q[s3] = "queued"}, slice : {s1},
   dryRun : BOOLEAN, owned : {{"queue"}},
   base : BaseCommits(Records), head : Commits({OneEdit}, Records), replayFailures : {{}},
   handoff :
     [slice : Slices, status : {"done"}, passed : {Validations}, failed : {{}},
      touched : {{}}, outside : {{}}, next : {NoSlice}, level : {2},
      sha : {"head", "other", "none"}, proofs : {<<Good>>}, clean : {TRUE}]]

\* What the work did.  The supervisor-owned paths of the working tree may take in
\* an out-of-scope one.
WorkDone ==
  [queue : Waiting, slice : {s1}, dryRun : {FALSE}, owned : {{"queue"}, {"queue", "doc"}},
   base : BaseCommits({Recorded}), head : Commits(HeadTrees, {Recorded}), replayFailures : {{}},
   handoff :
     [slice : {s1}, status : Verdicts, passed : {Validations}, failed : {{}},
      touched : {{}, {"app"}, {"doc"}, {"app", "lib"}}, outside : {{}, {"doc"}},
      next : {NoSlice}, level : {2}, sha : {"head"}, proofs : {<<Good>>},
      clean : BOOLEAN]]

\* What is claimed of its validations and proofs.
Claims ==
  [queue : Waiting, slice : {s1}, dryRun : {FALSE}, owned : {{"queue"}},
   base : BaseCommits({Recorded}), head : Commits({OneEdit}, {Recorded}),
   replayFailures : {{}, {"replayed"}},
   handoff :
     [slice : {s1}, status : Verdicts, passed : SUBSET Validations,
      failed : {{}, {"reported"}}, touched : {{"app"}}, outside : {{}},
      next : {NoSlice}, level : 1..3, sha : {"head"}, proofs : ProofLists, clean : {TRUE}]]

MCEvaluationInputs ==
  Admissions \cup WorkDone
    \cup {c \in Claims : c.replayFailures \subseteq ReplayCandidates(Agreed, c.handoff)}
=============================================================================
