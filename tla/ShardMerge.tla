----------------------------- MODULE ShardMerge -----------------------------
(* scripts/merge_official_shards.py: the directories of two adjoining ranges *)
(* are validated and combined into a new directory.  The process of the      *)
(* first may still be writing it; the second is one nobody writes to any     *)
(* more, perhaps of an unfinished run or of another configuration.  A source *)
(* that must be refused is refused with the first file that shows it: the    *)
(* code reads all of them first, and a refusal changes nothing.              *)
EXTENDS RunDirectory

VARIABLES
    mpc,        \* where the merge is
    seen,       \* what it has read of the first directory
    merged      \* the merged directory, or Null

mergeVars == <<mpc, seen, merged>>

\* The second directory and its only result.
OtherSources == [status : {"complete", "in_progress"}, config : Configs]

OtherEntry(config) ==
    [index |-> N + 1, res |-> [att |-> 1, config |-> config, p1 |-> TRUE]]

MergeInit ==
    /\ mpc = "idle"
    /\ seen = Null
    /\ merged = Null

\* An existing output is never overwritten.  The files of the source are read one
\* after another.
MergeReadSummary ==
    /\ mpc = "idle"
    /\ merged = Null
    /\ summary # Null /\ summary.status = "complete"
    /\ mpc' = "ckpt"
    /\ seen' = summary
    /\ UNCHANGED <<runVars, merged>>

\* The checkpoint says that the run is complete and every task cleaned up.
ValidCheckpoint == ckpt.status = "complete" /\ ckpt.cleaned

MergeReadCheckpoint ==
    /\ mpc = "ckpt"
    /\ IF ValidCheckpoint
       THEN mpc' = "preds" /\ UNCHANGED seen
       ELSE mpc' = "idle" /\ seen' = Null
    /\ UNCHANGED <<runVars, merged>>

\* The predictions are read; they have to be those of the range, in order.
MergeReadPredictions ==
    /\ mpc = "preds"
    /\ IF [k \in DOMAIN preds |-> preds[k].index] = [k \in Tasks |-> k]
       THEN mpc' = "validate" /\ UNCHANGED seen
       ELSE mpc' = "idle" /\ seen' = Null
    /\ UNCHANGED <<runVars, merged>>

\* Mutant: the configurations of the sources are not compared.
CompatibleAnyway(o) == preds = seen.sha /\ o.status = "complete"

\* The predictions are still those the summary's hash was taken of; the second
\* source is complete and of the same configuration.
Compatible(o) ==
    /\ preds = seen.sha
    /\ o.status = "complete"
    /\ o.config = seen.config

\* The merge refuses its sources, or creates the output with the predictions.
MergeValidate ==
    /\ mpc = "validate"
    /\ \E o \in OtherSources :
          IF Compatible(o)
          THEN /\ mpc' = "private"
               /\ merged' = [preds |-> Append(preds, OtherEntry(o.config)),
                             private |-> <<>>, done |-> FALSE]
          ELSE mpc' = "idle" /\ UNCHANGED merged
    /\ seen' = Null
    /\ UNCHANGED runVars

\* The saved results are read for the metrics and the private results: each has
\* to be cleaned up.
MergePrivate ==
    /\ mpc = "private"
    /\ IF Len(Complete(task)) = N
       THEN /\ mpc' = "finish"
            /\ merged' = [merged EXCEPT !.private = Append(Predictions(task), Last(merged.preds))]
       ELSE mpc' = "idle" /\ UNCHANGED merged
    /\ UNCHANGED <<runVars, seen>>

\* Checkpoint and summary of the output.
MergeFinish ==
    /\ mpc = "finish"
    /\ mpc' = "idle"
    /\ merged' = [merged EXCEPT !.done = TRUE]
    /\ UNCHANGED <<runVars, seen>>

\* The merge is killed; what it created stays.
MergeCrash ==
    /\ mpc # "idle"
    /\ mpc' = "idle"
    /\ seen' = Null
    /\ UNCHANGED <<runVars, merged>>

MergeNext ==
    MergeReadSummary \/ MergeReadCheckpoint \/ MergeReadPredictions \/ MergeValidate
       \/ MergePrivate \/ MergeFinish \/ MergeCrash
=============================================================================
