---------------------------- MODULE ShardRunner ----------------------------
(* orchestrator/official_shard_runner.py: the tasks of a shard are run one   *)
(* after another on the services.  The result of a task is saved before the  *)
(* services are cleaned up, and marked once they are; only then is it        *)
(* published.  A restarted process first finishes the pending cleanups.      *)
EXTENDS RunDirectory

\* _configuration_summary: what has to be equal for all starts on one directory
\* is one configuration.
Configuration(c) == [config |-> c, override |-> FALSE]

\* Mutant: the checkpoint's configuration is not compared.
ResumableAnyway(c) == ckpt = Null \/ ckpt.config \in Configs

\* _prepare_run and _read_envelopes: a directory that has a checkpoint is only
\* resumed under its own configuration.
Resumable(c) == ckpt = Null \/ ckpt.config = c

\* Mutant: only the results the checkpoint names are loaded.
EnvelopesOfCheckpoint ==
    [i \in Tasks |-> IF ckpt # Null /\ i \in ToSet(ckpt.done) THEN task[i] ELSE Null]

\* _read_envelopes: every saved result is loaded.
Envelopes == task

ShardStart ==
    /\ pc = "down"
    /\ starts < MaxStarts
    /\ starts' = starts + 1
    /\ \E c \in Configs :
          IF Resumable(c)
          THEN /\ pc' = "recover"
               /\ run' = Configuration(c)
               /\ mem' = Envelopes
          ELSE UNCHANGED <<pc, run, mem>>
    /\ UNCHANGED <<kind, cursor, current, todo, next, files, world>>

\* Mutant: the summary is written first.
SummaryFirst(results, c) ==
    IF Len(Complete(results)) = N /\ c = 0
    THEN <<"summary", "preds", "private", "ckpt">>
    ELSE <<"summary", "preds", "ckpt">>

\* _write_state: predictions, the private results of a complete shard, the
\* checkpoint and the summary, in this order.
ShardFiles(results, c) ==
    IF Len(Complete(results)) = N /\ c = 0
    THEN <<"preds", "private", "ckpt", "summary">>
    ELSE <<"preds", "ckpt", "summary">>

ShardWriteState(c, where) ==
    /\ WriteState(c, where)
    /\ todo' = ShardFiles(mem', c)

\* Mutant: only the databases are cleaned up.
EnsureDatabases(i) ==
    /\ dbs' = Dropped(i)
    /\ UNCHANGED <<att, sessions, late, out>>

\* _ensure_cleanup(i) returns: session, simulator state and databases are gone.
EnsureCleanup(i) ==
    /\ sessions' = sessions \ {i}
    /\ dbs' = Dropped(i)
    /\ UNCHANGED <<att, late, out>>

\* It raises: some of the three steps may have been taken.
CleanupFails(i) ==
    /\ sessions' \in {sessions, sessions \ {i}}
    /\ dbs' \in {dbs, Dropped(i)}
    /\ UNCHANGED <<att, late, out>>

-----------------------------------------------------------------------------
(* _recover_pending_cleanup *)

Pending == {i \in Tasks : mem[i] # Null /\ ~mem[i].verified}

\* The first saved result without verified cleanup is cleaned up again.
Recover ==
    /\ pc = "recover"
    /\ Pending # {}
    /\ \/ /\ EnsureCleanup(Min(Pending))
          /\ pc' = "recovered"
          /\ cursor' = Min(Pending)
          /\ UNCHANGED <<run, mem, current, todo, next>>
       \/ /\ CleanupFails(Min(Pending))
          /\ Down
    /\ UNCHANGED <<kind, files, starts>>

\* Mutant: the results in memory keep the mark they were loaded with.
MarkForgotten(results, i) == [results EXCEPT ![i] = task[i]]

MarkVerified(results, i) == [results EXCEPT ![i].verified = TRUE]

\* The recovered result is saved as cleaned up.
Recovered ==
    /\ pc = "recovered"
    /\ task' = MarkVerified(task, cursor)
    /\ mem' = MarkVerified(mem, cursor)
    /\ cursor' = 1
    /\ pc' = "recover"
    /\ UNCHANGED <<kind, run, current, todo, next, preds, private, ckpt, summary,
                   stamp, world, starts>>

\* Nothing is pending: the state is written and the loop begins.
Prepared ==
    /\ pc = "recover"
    /\ Pending = {}
    /\ UNCHANGED mem
    /\ ShardWriteState(0, "loop")
    /\ UNCHANGED <<kind, run, cursor, files, world, starts>>

-----------------------------------------------------------------------------
(* The loop of run *)

\* A task with a published result is skipped.
Skipped(i) == mem[i] # Null /\ mem[i].verified

ShardLoop ==
    /\ pc = "loop"
    /\ \/ cursor > N /\ Down
       \/ /\ cursor <= N
          /\ UNCHANGED <<run, mem>>
          /\ IF Skipped(cursor)
             THEN cursor' = cursor + 1 /\ UNCHANGED <<pc, current, todo, next>>
             ELSE ShardWriteState(cursor, "run") /\ UNCHANGED cursor
    /\ UNCHANGED <<kind, files, world, starts>>

\* run_single_task sets the task up: databases and sessions are made anew.
RunTask ==
    /\ pc = "run"
    /\ pc' = "running"
    /\ att' = [att EXCEPT ![cursor] = @ + 1]
    /\ dbs' = Made(cursor, "own")
    /\ sessions' = sessions \cup {cursor}
    /\ UNCHANGED <<kind, process, files, late, out, starts>>

\* run_single_task returns a result, having tried to drop the databases.  Which
\* phases passed makes no difference to this runner.
TaskReturns ==
    /\ pc = "running"
    /\ mem' = [mem EXCEPT ![cursor] =
                  [res |-> [att |-> att[cursor], config |-> run.config, p1 |-> TRUE],
                   verified |-> FALSE]]
    /\ pc' = "commit"
    /\ dbs' \in {dbs, Dropped(cursor)}
    /\ UNCHANGED <<kind, run, cursor, current, todo, next, files, att, sessions, late,
                   out, starts>>

\* run_single_task raises, perhaps because the wait for the agent timed out while
\* the agent goes on.
TaskRaises ==
    /\ pc = "running"
    /\ pc' = "failed"
    /\ late' \in {late, late \cup {cursor}}
    /\ dbs' \in {dbs, Dropped(cursor)}
    /\ UNCHANGED <<kind, process, files, att, sessions, out, starts>>

\* The failure is logged after a cleanup whose own failure is only noted, the
\* state is written and the exception ends the process: nothing is saved.
TaskFailed ==
    /\ pc = "failed"
    /\ EnsureCleanup(cursor) \/ CleanupFails(cursor)
    /\ UNCHANGED <<kind, run, cursor, mem, files, starts>>
    /\ ShardWriteState(cursor, "down")

\* "Commit the model outcome before cleanup."
Commit ==
    /\ pc = "commit"
    /\ task' = [task EXCEPT ![cursor] = mem[cursor]]
    /\ pc' = "clean"
    /\ UNCHANGED <<kind, process, preds, private, ckpt, summary, stamp, world, starts>>

Clean ==
    /\ pc = "clean"
    /\ \/ EnsureCleanup(cursor) /\ pc' = "verify" /\ UNCHANGED process
       \/ CleanupFails(cursor) /\ Down
    /\ UNCHANGED <<kind, files, starts>>

\* The result is saved as cleaned up and published.
Verify ==
    /\ pc = "verify"
    /\ task' = [task EXCEPT ![cursor] = MarkVerified(mem, cursor)[cursor]]
    /\ mem' = MarkVerified(mem, cursor)
    /\ cursor' = cursor + 1
    /\ ShardWriteState(0, "loop")
    /\ UNCHANGED <<kind, run, preds, private, ckpt, summary, stamp, world, starts>>

ShardStep ==
    Recover \/ Recovered \/ Prepared \/ ShardLoop \/ RunTask \/ TaskReturns \/ TaskRaises
       \/ TaskFailed \/ Commit \/ Clean \/ Verify

ShardNext == ShardStart \/ ShardStep
=============================================================================
