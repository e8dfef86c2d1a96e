---------------------------- MODULE OfficialRun ----------------------------
(* An official run: one of the two runners fills a run directory, is killed  *)
(* and started again, while the merge may read the directory at any time.    *)
EXTENDS ShardRunner, RangeRunner, ShardMerge

vars == <<runVars, mergeVars>>

Init ==
    /\ kind \in {"shard", "range"}
    /\ DirectoryInit
    /\ MergeInit

Runner ==
    /\ \/ kind = "shard" /\ ShardNext
       \/ kind = "range" /\ RangeNext
       \/ WriteNext
       \/ Crash
       \/ LateRun
    /\ UNCHANGED mergeVars

\* No process is left to start.
Idle == pc = "down" /\ starts = MaxStarts /\ UNCHANGED vars

Next == Runner \/ MergeNext \/ Idle

Spec == Init /\ [][Next]_vars

\* A process goes on until it returns, raises or is killed: its requests, its
\* child and its commands end or time out.
Working ==
    /\ \/ kind = "shard" /\ ShardStep
       \/ kind = "range" /\ RangeStep
       \/ WriteNext
    /\ UNCHANGED mergeVars

FairSpec == Spec /\ WF_vars(Working)

-----------------------------------------------------------------------------
(* The values of the variables *)

Saved == [res : Results, verified : BOOLEAN]

Runs == [config : Configs, override : BOOLEAN]

Listings == Seq([index : 1..(N + 1), res : Results])

Files == {"preds", "private", "ckpt", "summary", "pausedCkpt", "pausedSummary"}

Checkpoints ==
    [status : {"complete", "in_progress", "paused"}, done : Seq(Tasks), current : 0..N,
     cleaned : BOOLEAN, config : Configs]

Summaries ==
    [status : {"complete", "in_progress", "paused"}, sha : Listings, config : Configs]

Merged == [preds : Listings, private : Listings, done : BOOLEAN]

\* Null is none of them: a file, a result or a process that there is not.
ASSUME NullAssumption ==
    /\ Null \notin Configs /\ Null \notin Runs /\ Null \notin Results /\ Null \notin Saved
    /\ Null \notin Listings /\ Null \notin Checkpoints /\ Null \notin Summaries
    /\ Null \notin Merged

\* The type invariant of the directory, the process, the services and the merge.
TypeOK ==
    /\ kind \in {"shard", "range"}
    /\ pc \in {"down", "recover", "recovered", "write", "loop", "run", "running", "failed",
               "commit", "clean", "verify", "gate", "reset", "save"}
    /\ run \in {Null} \cup Runs
    /\ cursor \in 1..(N + 1)
    /\ mem \in [Tasks -> {Null} \cup Saved]
    /\ current \in 0..N
    /\ todo \in Seq(Files)
    /\ (pc = "write") <=> (todo # <<>>)
    /\ next \in {"down", "loop", "run", "gate"}
    /\ task \in [Tasks -> {Null} \cup Saved]
    /\ preds \in {Null} \cup Listings
    /\ private \in {Null} \cup Listings
    /\ ckpt \in {Null} \cup Checkpoints
    /\ summary \in {Null} \cup Summaries
    /\ stamp \in {Null} \cup Configs
    /\ att \in [Tasks -> 0..MaxStarts]
    /\ dbs \in [Tasks -> {"none", "own", "late"}]
    /\ sessions \subseteq Tasks
    /\ late \subseteq Tasks
    /\ out \in [Tasks -> {Null} \cup Results]
    /\ starts \in 0..MaxStarts
    /\ mpc \in {"idle", "ckpt", "preds", "validate", "private", "finish"}
    /\ seen \in {Null} \cup Summaries
    /\ merged \in {Null} \cup Merged

-----------------------------------------------------------------------------
(* Properties *)

\* A model run is never started for a task whose result is saved: "A restart will
\* never rerun it" (official_shard_runner.run), and the range runner skips the
\* tasks it loads.
NeverRerun == [][\A i \in Tasks : att'[i] # att[i] => task[i] = Null]_vars

\* All results of a directory were produced under one configuration, that of
\* its checkpoint, whatever the process was started with.
OneConfiguration ==
    \A i \in Tasks : task[i] # Null => ckpt # Null /\ task[i].res.config = ckpt.config

\* A directory whose summary says complete is complete for every reader: the
\* predictions are those the summary's hash was taken of, the checkpoint agrees
\* and, for a shard, the private results are there.  So a merge that reads the
\* files one by one while a runner replaces them ends with the saved result of
\* every task, of one configuration, or not at all.
CompleteIsReadable ==
    /\ summary # Null /\ summary.status = "complete" =>
         /\ preds = summary.sha
         /\ ckpt.done = [k \in Tasks |-> k]
         /\ kind = "shard" => private = preds
    /\ merged # Null /\ merged.done =>
         /\ Front(merged.preds) = Predictions(task)
         /\ merged.private = merged.preds
         /\ Len(merged.preds) = N + 1
         /\ \A k \in DOMAIN merged.preds :
               merged.preds[k].res.config = Last(merged.preds).res.config

\* The databases and sessions of a published result are gone; only a run of the task
\* that goes on although nobody waits for it can make the databases again.
PublishedIsCleaned ==
    preds # Null => \A k \in DOMAIN preds :
        preds[k].index \notin sessions /\ dbs[preds[k].index] # "own"

\* The range runner starts no task beyond the gate while too few of the first
\* tasks are saved with a passed phase 1, unless the operator overrides it for
\* this process; a restart does not open the gate, nor does a later task that
\* passed.  A count of zero is no gate.
GateHolds ==
    [][\A i \in Tasks : kind = "range" /\ att'[i] # att[i] /\ GateCount > 0 /\ i > GateCount
          => \/ run.override
             \/ Quantify(1..GateCount, LAMBDA k : task[k] # Null /\ task[k].res.p1)
                   >= GateFloor]_vars

\* What the directory promises.
Ledger == INSTANCE ResultLedger WITH
    saved <- [i \in Tasks |-> IF task[i] = Null THEN Null ELSE task[i].res],
    published <- IF preds = Null THEN {} ELSE {preds[k] : k \in DOMAIN preds},
    status <- IF summary = Null \/ summary.status = "in_progress" THEN "open" ELSE summary.status

ImplementsLedger == Ledger!Spec

\* Every started process ends.
ProcessEnds == pc # "down" ~> pc = "down"
=============================================================================
