---------------------------- MODULE RunDirectory ----------------------------
(* The directory of one official run and the process that fills it.  Two     *)
(* programs do: the shard runner (ShardRunner) and the range runner          *)
(* (RangeRunner).  They share the layout of the directory, the way its       *)
(* files are replaced one after another, and that a process may die at any   *)
(* moment and be started again on what it left behind.                       *)
EXTENDS Integers, Sequences, FiniteSetsExt, SequencesExt

CONSTANTS
    N,          \* tasks of the range
    Configs,    \* configurations an operator may start the process with
    MaxStarts,  \* bound: starts of the process
    Null

ASSUME RunDirectoryAssumption ==
    /\ N \in Nat \ {0}
    /\ Configs # {}
    /\ MaxStarts \in Nat \ {0}

VARIABLES
    kind,       \* the program: "shard" or "range"
    pc,         \* where the process is; "down" when there is none
    run,        \* what the process was started with
    cursor,     \* the task the loop is at
    mem,        \* the results the process holds, by task
    current,    \* in_progress: the task being run, or 0
    todo,       \* files write_state has still to replace
    next,       \* where the process goes after write_state
    task,       \* logs/task_results: the saved result of each task
    preds,      \* submission_predictions.jsonl
    private,    \* result_private.json
    ckpt,       \* checkpoint.json
    summary,    \* summary.json
    stamp,      \* run_manifest.json of the range runner: its configuration
    att,        \* runs of the model started, by task
    dbs,        \* the databases of each task: "none", "own" or "late"
    sessions,   \* tasks with a session on the agent or the user simulator
    late,       \* tasks a run of which goes on although nobody waits for it
    out,        \* results.jsonl of the range runner's child, by task
    starts      \* history: starts of the process

process == <<run, cursor, mem, current, todo, next>>
files == <<task, preds, private, ckpt, summary, stamp>>
world == <<att, dbs, sessions, late, out>>
runVars == <<kind, pc, process, files, world, starts>>

Tasks == 1..N

\* What a run of the model produces: whether phase 1 passed is all the range
\* runner looks at.
Results == [att : 1..MaxStarts, config : Configs, p1 : BOOLEAN]

NoResults == [i \in Tasks |-> Null]

DirectoryInit ==
    /\ pc = "down"
    /\ run = Null
    /\ cursor = 1
    /\ mem = NoResults
    /\ current = 0
    /\ todo = <<>>
    /\ next = "down"
    /\ task = NoResults
    /\ preds = Null
    /\ private = Null
    /\ ckpt = Null
    /\ summary = Null
    /\ stamp = Null
    /\ att = [i \in Tasks |-> 0]
    /\ dbs = [i \in Tasks |-> "none"]
    /\ sessions = {}
    /\ late = {}
    /\ out = NoResults
    /\ starts = 0

-----------------------------------------------------------------------------
(* The databases of a task *)

Dropped(i) == [dbs EXCEPT ![i] = "none"]

Made(i, by) == [dbs EXCEPT ![i] = by]

-----------------------------------------------------------------------------
(* What is published *)

\* The tasks whose cleanup is verified.
Cleaned(results) == {i \in Tasks : results[i] # Null /\ results[i].verified}

\* Which of the tasks of S task i is.
Rank(S, i) == Cardinality({j \in S : j <= i})

\* sorted(S): SortSeq has no definition the provers know.
Sorted(S) == [k \in 1..Cardinality(S) |-> CHOOSE i \in S : Rank(S, i) = k]

\* Results whose cleanup is verified, in the order of the range.
Complete(results) == Sorted(Cleaned(results))

Predictions(results) ==
    [k \in DOMAIN Complete(results) |->
        [index |-> Complete(results)[k], res |-> results[Complete(results)[k]].res]]

Status ==
    IF Len(Complete(mem)) = N /\ current = 0 THEN "complete" ELSE "in_progress"

Checkpoint ==
    [status |-> Status, done |-> Complete(mem), current |-> current,
     cleaned |-> kind = "shard", config |-> run.config]

Summary == [status |-> Status, sha |-> preds, config |-> run.config]

-----------------------------------------------------------------------------
(* write_state *)

\* write_state begins, with task c in progress; the process goes on at where.
WriteState(c, where) ==
    /\ pc' = "write"
    /\ current' = c
    /\ next' = where

\* The process is gone, whether it returned, raised or was killed.
Down ==
    /\ pc' = "down"
    /\ run' = Null
    /\ cursor' = 1
    /\ mem' = NoResults
    /\ current' = 0
    /\ todo' = <<>>
    /\ next' = "down"

\* write_state is done and the process goes on, or ends.
Written ==
    IF next = "down"
    THEN Down
    ELSE /\ pc' = next
         /\ todo' = <<>>
         /\ current' = IF next = "run" THEN current ELSE 0
         /\ next' = "down"
         /\ UNCHANGED <<run, cursor, mem>>

Paused(file) == [file EXCEPT !.status = "paused"]

\* Each file is replaced as a whole: written aside, synced and renamed.
WriteNext ==
    /\ pc = "write"
    /\ todo # <<>>
    /\ LET f == Head(todo) IN
          /\ preds' = IF f = "preds" THEN Predictions(mem) ELSE preds
          /\ private' = IF f = "private" THEN Predictions(mem) ELSE private
          /\ ckpt' = IF f = "ckpt" THEN Checkpoint
                     ELSE IF f = "pausedCkpt" THEN Paused(ckpt) ELSE ckpt
          /\ summary' = IF f = "summary" THEN Summary
                        ELSE IF f = "pausedSummary" THEN Paused(summary) ELSE summary
    /\ IF Len(todo) = 1
       THEN Written
       ELSE /\ todo' = Tail(todo)
            /\ UNCHANGED <<pc, run, cursor, mem, current, next>>
    /\ UNCHANGED <<kind, task, stamp, world, starts>>

\* The process is killed; a run of the model it was waiting for goes on.
Crash ==
    /\ pc # "down"
    /\ Down
    /\ late' = IF pc = "running" THEN late \cup {cursor} ELSE late
    /\ UNCHANGED <<kind, files, att, dbs, sessions, out, starts>>

\* A run nobody waits for ends, or a submission of it that is being judged
\* creates the task's databases again.
LateRun ==
    \E i \in late :
       /\ \/ late' = late \ {i} /\ UNCHANGED dbs
          \/ dbs[i] = "none" /\ dbs' = Made(i, "late") /\ UNCHANGED late
       /\ UNCHANGED <<kind, pc, process, files, att, sessions, out, starts>>
=============================================================================
