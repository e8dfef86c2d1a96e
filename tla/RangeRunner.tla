---------------------------- MODULE RangeRunner ----------------------------
(* scripts/run_official_nonadk_range.py: a child process runs each task of a *)
(* range with the official program; its status becomes the saved result once *)
(* the database is restored and the child's calls are checked.  After the    *)
(* first GateCount tasks the run pauses when too few of them passed phase 1. *)
EXTENDS RunDirectory

CONSTANTS
    GateCount,  \* --p1-gate-after
    GateFloor   \* passes of phase 1 among them that the run goes on with

ASSUME RangeRunnerAssumption == GateCount \in 0..N /\ GateFloor \in Nat

\* The run manifest: written once, compared ever after.
SameRun(c) == stamp = Null \/ stamp = c

\* Mutant: the files are written only for a complete range.
RangeFilesComplete(results, c) ==
    IF (\A i \in Tasks : results[i] # Null) /\ c = 0
    THEN <<"preds", "ckpt", "summary", "private">>
    ELSE <<>>

RangeFiles(results, c) ==
    IF (\A i \in Tasks : results[i] # Null) /\ c = 0
    THEN <<"preds", "ckpt", "summary", "private">>
    ELSE <<"preds", "ckpt", "summary">>

RangeWriteState(c, where) ==
    /\ WriteState(c, where)
    /\ todo' = RangeFiles(mem', c)

\* main: the arguments, the preset, the sources and the input make one
\* configuration; the override of the gate is not part of it.
Started(c, o) == [config |-> c, override |-> o]

\* Start under configuration c, perhaps with ALLOW_LOW_P1_CONTINUE: the manifest
\* is checked or written, the saved results are loaded and the state is written.
RangeStart ==
    /\ pc = "down"
    /\ starts < MaxStarts
    /\ starts' = starts + 1
    /\ \E c \in Configs, o \in BOOLEAN :
          IF SameRun(c)
          THEN /\ stamp' = c
               /\ run' = Started(c, o)
               /\ mem' = task
               /\ RangeWriteState(0, "gate")
          ELSE UNCHANGED <<stamp, run, mem, pc, current, next, todo>>
    /\ UNCHANGED <<kind, cursor, task, preds, private, ckpt, summary, world>>

-----------------------------------------------------------------------------
(* enforce_p1_gate *)

Held(results) == {i \in Tasks : results[i] # Null}

PassedOf(results, S) == {i \in S : results[i].res.p1}

\* Mutant: all results count towards the gate, not the first GateCount.
TooFewOfAll(results) ==
    /\ GateCount > 0
    /\ Cardinality(Held(results)) >= GateCount
    /\ Cardinality(PassedOf(results, Held(results))) < GateFloor

\* The first GateCount tasks are done and too few of them passed.
TooFew(results) ==
    /\ GateCount > 0
    /\ Cardinality(Held(results)) >= GateCount
    /\ Cardinality(PassedOf(results, 1..GateCount)) < GateFloor

\* A gated run marks checkpoint and summary as paused and ends, unless overridden.
Gate ==
    /\ pc = "gate"
    /\ IF TooFew(mem) /\ ~run.override
       THEN /\ WriteState(0, "down")
            /\ todo' = <<"pausedCkpt", "pausedSummary">>
       ELSE /\ pc' = "loop"
            /\ UNCHANGED <<current, todo, next>>
    /\ UNCHANGED <<kind, run, cursor, mem, files, world, starts>>

-----------------------------------------------------------------------------
(* The loop of main *)

RangeLoop ==
    /\ pc = "loop"
    /\ \/ cursor > N /\ Down
       \/ /\ cursor <= N
          /\ UNCHANGED <<run, mem>>
          /\ IF mem[cursor] # Null
             THEN cursor' = cursor + 1 /\ UNCHANGED <<pc, current, todo, next>>
             ELSE RangeWriteState(cursor, "run") /\ UNCHANGED cursor
    /\ UNCHANGED <<kind, files, world, starts>>

\* The child begins.  It resumes the results file of an earlier child if there
\* is one.
StartChild ==
    /\ pc = "run"
    /\ pc' = "running"
    /\ att' = [att EXCEPT ![cursor] = @ + 1]
    /\ dbs' = Made(cursor, "own")
    /\ UNCHANGED <<kind, process, files, sessions, late, out, starts>>

\* The child has written its status: a finished task is not run again.
ChildWrites ==
    /\ pc = "running"
    /\ out[cursor] = Null
    /\ \E p \in BOOLEAN :
          out' = [out EXCEPT ![cursor] =
                     [att |-> att[cursor], config |-> run.config, p1 |-> p]]
    /\ UNCHANGED <<kind, pc, process, files, att, dbs, sessions, late, starts>>

\* The child exits with an error, before or after it wrote its status: the state
\* is written and the process ends.
ChildFails ==
    /\ pc = "running"
    /\ UNCHANGED <<kind, run, cursor, mem, files, world, starts>>
    /\ RangeWriteState(0, "down")

\* The child exits with 0; without exactly one status the process ends at once.
ChildExits ==
    /\ pc = "running"
    /\ IF out[cursor] # Null
       THEN pc' = "reset" /\ UNCHANGED process
       ELSE Down
    /\ UNCHANGED <<kind, files, world, starts>>

\* task_envelope: what is kept of the status the child wrote.
Envelope(i) == [res |-> out[i], verified |-> TRUE]

\* reset_database: sessions are terminated, the database is made again from its
\* template; the child's calls are free of provider errors.
Restore ==
    /\ pc = "reset"
    /\ dbs' = Dropped(cursor)
    /\ mem' = [mem EXCEPT ![cursor] = Envelope(cursor)]
    /\ pc' = "save"
    /\ UNCHANGED <<kind, run, cursor, current, todo, next, files, att, sessions, late, out,
                   starts>>

\* A command fails, or a turn of the child has no call or a call no audit: the
\* state is written and the process ends.
RestoreFails ==
    /\ pc = "reset"
    /\ dbs' \in {dbs, Dropped(cursor)}
    /\ UNCHANGED <<kind, run, cursor, mem, files, att, sessions, late, out, starts>>
    /\ RangeWriteState(0, "down")

\* Mutant: the result is published without being saved.
PublishUnsaved ==
    /\ pc = "save"
    /\ cursor' = cursor + 1
    /\ UNCHANGED <<kind, run, mem, files, world, starts>>
    /\ RangeWriteState(0, "gate")

\* The result is saved and the state written.
Save ==
    /\ pc = "save"
    /\ task' = [task EXCEPT ![cursor] = mem[cursor]]
    /\ cursor' = cursor + 1
    /\ UNCHANGED <<kind, run, mem, preds, private, ckpt, summary, stamp, world, starts>>
    /\ RangeWriteState(0, "gate")

\* The child of a killed process goes on and writes its status.
OrphanWrites ==
    \E i \in late, p \in BOOLEAN :
       /\ out[i] = Null
       /\ out' = [out EXCEPT ![i] = [att |-> att[i], config |-> stamp, p1 |-> p]]
       /\ UNCHANGED <<kind, pc, process, files, att, dbs, sessions, late, starts>>

RangeStep ==
    Gate \/ RangeLoop \/ StartChild \/ ChildWrites \/ ChildFails \/ ChildExits
       \/ Restore \/ RestoreFails \/ Save

RangeNext == RangeStart \/ RangeStep \/ OrphanWrites
=============================================================================
