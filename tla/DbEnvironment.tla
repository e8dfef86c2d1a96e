---------------------------- MODULE DbEnvironment ----------------------------
(***************************************************************************)
(* The DB Environment service (db_environment/server.py, shared/db_utils)  *)
(* for one task identifier.  The service keeps an in-memory registration   *)
(* of the task and three physical PostgreSQL databases with deterministic  *)
(* names: the task database the SQL runs on, the post-preprocess reset     *)
(* point ("initial") and the Phase 1 snapshot ("phase1").  A request runs  *)
(* in a worker thread; every database command is one step of it, so two    *)
(* requests for the task interleave between commands.                      *)
(***************************************************************************)
EXTENDS Naturals, FiniteSets

CONSTANTS
    Req,        \* request slots: how many requests can be in the service
    Sqls,       \* the SQL payloads clients submit
    Analyzes,   \* those that contain an ANALYZE statement
    MaxGen,     \* bound: /init_task calls considered
    Overlap,    \* may a client send a request while another is running?
    Tasks       \* the kinds of task: with preprocess SQL?  with a follow-up?

Labels == {"pre", "clean", "explore", "tested", "stats"}

ASSUME ConstantsOK ==
    /\ Analyzes \subseteq Sqls
    /\ Sqls \cap (Labels \cup {"none", "absent"}) = {}
    /\ MaxGen \in Nat
    /\ Overlap \in BOOLEAN
    /\ Tasks \subseteq [pre : BOOLEAN, followUp : BOOLEAN]

VARIABLES
    task,       \* the task record: has preprocess SQL?  a follow-up?
    db,         \* physical databases: the effects each contains, or NoDb
    pool,       \* is a connection pool to the task database open?
    reg,        \* generation of _task_data[task_id]; 0 when not registered
    nextGen,    \* generations handed out so far
    td,         \* the task_data object of each generation
    attempts,   \* _submit_attempts[task_id], or NoAttempts
    accepted,   \* _successful_phase1_sql[task_id], or NoSql
    pc,         \* where each request is
    call,       \* what each request captured on arrival
    base        \* what each submission's SQL was run on

memory == <<reg, td, attempts, accepted>>
vars == <<task, db, pool, reg, nextGen, td, attempts, accepted, pc, call, base>>

-----------------------------------------------------------------------------
(* Databases.  A database's contents are the set of effects applied to it; *)
(* the base template is the empty set and always exists.  "stats" stands   *)
(* for the cumulative statistics an ANALYZE leaves.                        *)

Names == {"task", "initial", "phase1"}
NoSql == "none"
Effects == Sqls \cup Labels \cup {NoSql}
NoDb == {"absent"}     \* stands for a database that does not exist
NoAttempts == <<>>
ZeroAttempts == [p \in {1, 2} |-> 0]
Gens == 1..MaxGen

\* createdb --template copies relational state but not the statistics.
Cloned(content) == content \ {"stats"}

Exists(n) == db[n] # NoDb

\* The contents of the database the task is reset to in Phase 1.
InitialSource == IF task.pre THEN db["initial"] ELSE {}

\* What running a payload adds to the database it runs on.
EffectOf(sql) == {sql} \cup (IF sql \in Analyzes THEN {"stats"} ELSE {})

NoCall == [gen |-> 0, phase |-> 1, sql |-> NoSql]

InFlight == {r \in Req : pc[r] # "idle"}

\* A client that never abandons a request has at most one in the service.
MayArrive(r) == pc[r] = "idle" /\ (Overlap \/ InFlight = {})

\* Mutant: sessions outlive the database they were opened on.
StillConnected == pc

\* Dropping a database closes its pool and terminates its sessions: a request
\* that holds a connection to the task database loses it.
Disconnected == [r \in Req |-> IF pc[r] = "judge" THEN "killed" ELSE pc[r]]

\* Request r goes on to the given place, holding or breaking no connection.
Goto(r, to) == pc' = [pc EXCEPT ![r] = to] /\ UNCHANGED <<call, base>>

\* The same for a step that closes the pool.
GotoDisconnecting(r, to) == pc' = [Disconnected EXCEPT ![r] = to] /\ UNCHANGED <<call, base>>

DropTask ==
    /\ db' = [db EXCEPT !["task"] = NoDb]
    /\ pool' = FALSE

Resets == {"reset", "snapDrop", "restoreDrop"}

\* The answers a request ends with.
Answers == {"initialized", "ok", "error", "passed", "failed", "infra"}

Init ==
    /\ task \in Tasks
    /\ db = [n \in Names |-> NoDb]
    /\ pool = FALSE
    /\ reg = 0
    /\ nextGen = 0
    /\ td = [g \in Gens |-> [phase |-> 1, maint |-> FALSE]]
    /\ attempts = NoAttempts
    /\ accepted = NoSql
    /\ pc = [r \in Req |-> "idle"]
    /\ call = [r \in Req |-> NoCall]
    /\ base = [r \in Req |-> {}]

-----------------------------------------------------------------------------
(* Requests *)

\* The response leaves the service.
Respond(r) ==
    /\ pc[r] \in Answers
    /\ pc' = [pc EXCEPT ![r] = "idle"]
    /\ call' = [call EXCEPT ![r] = NoCall]
    /\ base' = [base EXCEPT ![r] = {}]
    /\ UNCHANGED <<task, db, pool, nextGen, memory>>

\* A database command of request r fails: a subprocess error or timeout, or a
\* target that is missing, present or in use when it must not be.  The request
\* ends as an infrastructure error (HTTP 503), the databases as they are.  A
\* reset closes the pool before its first command.
Infrastructure(r) ==
    /\ \/ /\ pc[r] \in Resets
          /\ pool' = FALSE
          /\ GotoDisconnecting(r, "infra")
       \/ /\ \/ pc[r] \in {"create", "open", "snapCreate", "snapApply", "snapClean",
                                "cloneDrop", "cloneCreate", "restoreCreate"}
             \/ pc[r] = "replay" /\ td[call[r].gen].maint
          /\ Goto(r, "infra")
          /\ UNCHANGED pool
    /\ UNCHANGED <<task, db, nextGen, memory>>

\* _drop_and_create_db on the task database, first half: close the pool,
\* terminate its sessions, dropdb.
ResetDrop(r, from, to) ==
    /\ pc[r] = from
    /\ DropTask
    /\ GotoDisconnecting(r, to)
    /\ UNCHANGED <<task, nextGen, memory>>

\* _drop_and_create_db, second half: createdb from the template.
ResetCreate(r, from, source, to) ==
    /\ pc[r] = from
    /\ ~Exists("task")
    /\ source # NoDb
    /\ db' = [db EXCEPT !["task"] = Cloned(source)]
    /\ Goto(r, to)
    /\ UNCHANGED <<task, pool, nextGen, memory>>

\* /init_task: forget any earlier registration, then rebuild in a thread.
ArriveInit(r) ==
    /\ MayArrive(r)
    /\ nextGen < MaxGen
    /\ nextGen' = nextGen + 1
    /\ pc' = [pc EXCEPT ![r] = "initDrop"]
    /\ call' = [call EXCEPT ![r] = [NoCall EXCEPT !.gen = nextGen + 1]]
    /\ UNCHANGED base
    /\ reg' = 0
    /\ attempts' = NoAttempts
    /\ accepted' = NoSql
    /\ UNCHANGED <<task, db, pool, td>>

\* Mutant: only the task database of the earlier run is dropped.
InitDropTaskOnly(r) ==
    /\ pc[r] = "initDrop"
    /\ DropTask
    /\ GotoDisconnecting(r, "initReset")
    /\ UNCHANGED <<task, nextGen, memory>>

InitDrop(r) ==
    /\ pc[r] = "initDrop"
    /\ db' = [n \in Names |-> NoDb]
    /\ pool' = FALSE
    /\ GotoDisconnecting(r, "initReset")
    /\ UNCHANGED <<task, nextGen, memory>>

InitReset(r) == ResetDrop(r, "initReset", "initClone")

InitClone(r) ==
    ResetCreate(r, "initClone", {},
                IF task.pre THEN "initPre" ELSE "register")

\* Run preprocess_sql on the task database and close its pool.
InitPreprocess(r) ==
    /\ pc[r] = "initPre"
    /\ Exists("task")
    /\ db' = [db EXCEPT !["task"] = @ \cup {"pre"}]
    /\ pool' = FALSE
    /\ GotoDisconnecting(r, "initSnap")
    /\ UNCHANGED <<task, nextGen, memory>>

\* Freeze the post-preprocess state; a template with open sessions is refused.
InitSnapshot(r) ==
    /\ pc[r] = "initSnap"
    /\ Exists("task")
    /\ ~pool
    /\ db' = [db EXCEPT !["initial"] = Cloned(db["task"])]
    /\ Goto(r, "register")
    /\ UNCHANGED <<task, pool, nextGen, memory>>

\* Any step of the rebuild may fail: drop what was built, errors suppressed.
InitAbort(r) ==
    /\ pc[r] \in {"initDrop", "initReset", "initClone", "initPre", "initSnap"}
    /\ \E left \in SUBSET Names :
         db' = [n \in Names |-> IF n \in left THEN db[n] ELSE NoDb]
    /\ pool' = FALSE
    /\ GotoDisconnecting(r, "infra")
    /\ UNCHANGED <<task, nextGen, memory>>

\* Mutant: phases are counted from 0.
RegisterPhaseZero(r) ==
    /\ pc[r] = "register"
    /\ reg' = call[r].gen
    /\ td' = [td EXCEPT ![call[r].gen] = [phase |-> 0, maint |-> FALSE]]
    /\ attempts' = ZeroAttempts
    /\ Goto(r, "initialized")
    /\ UNCHANGED <<task, db, pool, nextGen, accepted>>

\* Back on the event loop: register the new task data.
Register(r) ==
    /\ pc[r] = "register"
    /\ reg' = call[r].gen
    /\ td' = [td EXCEPT ![call[r].gen] = [phase |-> 1, maint |-> FALSE]]
    /\ attempts' = ZeroAttempts
    /\ Goto(r, "initialized")
    /\ UNCHANGED <<task, db, pool, nextGen, accepted>>

-----------------------------------------------------------------------------
(* /execute: a SELECT/WITH/EXPLAIN statement on the task database.  A WITH *)
(* statement may write and perform_query commits, so the agent's           *)
(* exploration can leave its mark on the task database.                    *)

ArriveExecute(r) ==
    /\ MayArrive(r)
    /\ reg # 0
    /\ pc' = [pc EXCEPT ![r] = "execute"]
    /\ call' = [call EXCEPT ![r] = [NoCall EXCEPT !.gen = reg]]
    /\ UNCHANGED base
    /\ UNCHANGED <<task, db, pool, nextGen, memory>>

Execute(r) ==
    /\ pc[r] = "execute"
    /\ Exists("task")
    /\ pool' = TRUE
    /\ \E written \in SUBSET {"explore"} :
         db' = [db EXCEPT !["task"] = @ \cup written]
    /\ Goto(r, "ok")
    /\ UNCHANGED <<task, nextGen, memory>>

\* No connection: the error is returned as a result, never raised.
ExecuteError(r) ==
    /\ pc[r] = "execute"
    /\ ~Exists("task")
    /\ Goto(r, "error")
    /\ UNCHANGED <<task, db, pool, nextGen, memory>>

-----------------------------------------------------------------------------
(* /submit *)

Counted == IF attempts = NoAttempts THEN ZeroAttempts ELSE attempts

\* The thread captures the task data and its phase, and counts the attempt.
\* Only "is it the first?" is ever asked of the count, so it saturates at 2.
ArriveSubmit(r) ==
    /\ MayArrive(r)
    /\ reg # 0
    /\ \E s \in Sqls :
         LET p == td[reg].phase
             n == IF Counted[p] = 0 THEN 1 ELSE 2
         IN  /\ attempts' = [Counted EXCEPT ![p] = n]
             /\ call' = [call EXCEPT ![r] = [gen |-> reg, phase |-> p, sql |-> s]]
    /\ pc' = [pc EXCEPT ![r] = "reset"]
    /\ UNCHANGED <<task, db, pool, reg, nextGen, td, accepted, base>>

ResetSource(p) == IF p = 1 THEN InitialSource ELSE db["phase1"]

SubmitReset(r) == ResetDrop(r, "reset", "create")

SubmitCreate(r) ==
    ResetCreate(r, "create", ResetSource(call[r].phase),
                IF call[r].phase = 2 THEN "replay" ELSE "open")

\* Mutant: the accepted ANALYZE is not replayed.
SubmitReplaySkipped(r) ==
    /\ pc[r] = "replay"
    /\ Goto(r, "open")
    /\ UNCHANGED <<task, db, pool, nextGen, memory>>

\* Phase 2 replays the ANALYZE statements of the accepted Phase 1 SQL.
SubmitReplay(r) ==
    /\ pc[r] = "replay"
    /\ IF td[call[r].gen].maint
         THEN /\ Exists("task")
              /\ db' = [db EXCEPT !["task"] = @ \cup {"stats"}]
              /\ pool' = TRUE
         ELSE UNCHANGED <<db, pool>>
    /\ Goto(r, "open")
    /\ UNCHANGED <<task, nextGen, memory>>

\* Take a connection and run the submitted SQL; base records what it ran on.
SubmitOpen(r) ==
    /\ pc[r] = "open"
    /\ Exists("task")
    /\ pool' = TRUE
    /\ db' = [db EXCEPT !["task"] = @ \cup EffectOf(call[r].sql)]
    /\ pc' = [pc EXCEPT ![r] = "judge"]
    /\ base' = [base EXCEPT ![r] = db["task"]]
    /\ UNCHANGED call
    /\ UNCHANGED <<task, nextGen, memory>>

Rejected(r) ==
    /\ Goto(r, "restoreDrop")
    /\ UNCHANGED accepted

\* Mutant: the snapshot is taken of the database the test cases ran on.
PassedPhase1InPlace(r) ==
    /\ call[r].phase = 1
    /\ accepted' = call[r].sql
    /\ Goto(r, IF task.followUp THEN "snapClean" ELSE "passed")

PassedPhase1(r) ==
    /\ call[r].phase = 1
    /\ accepted' = call[r].sql
    /\ Goto(r, IF task.followUp THEN "snapDrop" ELSE "passed")

PassedPhase2(r) ==
    /\ call[r].phase = 2
    /\ Goto(r, "passed")
    /\ UNCHANGED accepted

\* The test cases run the submitted and the solution SQL again and decide.
Judge(r) ==
    /\ pc[r] = "judge"
    /\ db' = [db EXCEPT !["task"] = @ \cup {"tested"}]
    /\ \/ Rejected(r)
       \/ PassedPhase1(r)
       \/ PassedPhase2(r)
    /\ UNCHANGED <<task, pool, nextGen, reg, td, attempts>>

\* A connection lost meanwhile cannot be returned to its closed pool, which raises:
\* an infrastructure error whatever the test cases said.
JudgeKilled(r) ==
    /\ pc[r] = "killed"
    /\ Goto(r, "infra")
    /\ UNCHANGED <<task, db, pool, nextGen, memory>>

\* A failed submission restores the task database for further exploration.
RestoreDrop(r) == ResetDrop(r, "restoreDrop", "restoreCreate")

\* Mutant: the failed submission is forgotten with its effects.
RestoreCreateForgets(r) ==
    /\ pc[r] = "restoreCreate"
    /\ ~Exists("task")
    /\ ResetSource(call[r].phase) # NoDb
    /\ db' = [db EXCEPT !["task"] = Cloned(ResetSource(call[r].phase))]
    /\ attempts' = ZeroAttempts
    /\ Goto(r, "failed")
    /\ UNCHANGED <<task, pool, nextGen, reg, td, accepted>>

RestoreCreate(r) ==
    ResetCreate(r, "restoreCreate", ResetSource(call[r].phase), "failed")

(* _create_phase1_snapshot: rebuild the accepted state from the reset point. *)

SnapshotDrop(r) == ResetDrop(r, "snapDrop", "snapCreate")

SnapshotCreate(r) ==
    ResetCreate(r, "snapCreate", InitialSource, "snapApply")

\* Run the accepted SQL and note its maintenance statements.
SnapshotApply(r) ==
    /\ pc[r] = "snapApply"
    /\ Exists("task")
    /\ db' = [db EXCEPT !["task"] = @ \cup EffectOf(call[r].sql)]
    /\ pool' = TRUE
    /\ td' = [td EXCEPT ![call[r].gen].maint = call[r].sql \in Analyzes]
    /\ Goto(r, "snapClean")
    /\ UNCHANGED <<task, reg, nextGen, attempts, accepted>>

\* Run the official clean-up SQL and close the pool.
SnapshotClean(r) ==
    /\ pc[r] = "snapClean"
    /\ Exists("task")
    /\ db' = [db EXCEPT !["task"] = @ \cup {"clean"}]
    /\ pool' = FALSE
    /\ GotoDisconnecting(r, "cloneDrop")
    /\ UNCHANGED <<task, nextGen, memory>>

SnapshotCloneDrop(r) ==
    /\ pc[r] = "cloneDrop"
    /\ db' = [db EXCEPT !["phase1"] = NoDb]
    /\ Goto(r, "cloneCreate")
    /\ UNCHANGED <<task, pool, nextGen, memory>>

\* createdb the snapshot from the task database, then enter Phase 2.  When the
\* attempts were forgotten meanwhile, resetting their count raises first.
SnapshotClone(r) ==
    /\ pc[r] = "cloneCreate"
    /\ ~Exists("phase1")
    /\ Exists("task")
    /\ ~pool
    /\ db' = [db EXCEPT !["phase1"] = Cloned(db["task"])]
    /\ \/ /\ attempts = NoAttempts
          /\ Goto(r, "infra")
          /\ UNCHANGED <<td, attempts>>
       \/ /\ attempts # NoAttempts
          /\ attempts' = [attempts EXCEPT ![2] = 0]
          /\ td' = [td EXCEPT ![call[r].gen].phase = 2]
          /\ Goto(r, "passed")
    /\ UNCHANGED <<task, pool, reg, nextGen, accepted>>

-----------------------------------------------------------------------------
(* /cleanup_task, and a crash of the service process *)

ArriveCleanup(r) ==
    /\ MayArrive(r)
    /\ reg # 0
    /\ pc' = [pc EXCEPT ![r] = "cleanDrop"]
    /\ call' = [call EXCEPT ![r] = [NoCall EXCEPT !.gen = reg]]
    /\ UNCHANGED base
    /\ UNCHANGED <<task, db, pool, nextGen, memory>>

\* Drop the task's databases; a drop that fails is only logged.
CleanupDrop(r) ==
    /\ pc[r] = "cleanDrop"
    /\ \E left \in SUBSET Names :
         /\ db' = [n \in Names |->
                     IF n \in left \/ (n = "initial" /\ ~task.pre) THEN db[n] ELSE NoDb]
         /\ pool' = FALSE
    /\ GotoDisconnecting(r, "cleanPop")
    /\ UNCHANGED <<task, nextGen, memory>>

CleanupPop(r) ==
    /\ pc[r] = "cleanPop"
    /\ reg' = 0
    /\ attempts' = NoAttempts
    /\ accepted' = NoSql
    /\ Goto(r, "ok")
    /\ UNCHANGED <<task, db, pool, nextGen, td>>

\* The process dies: memory and threads are lost, the databases stay.
Crash ==
    /\ InFlight # {} \/ reg # 0
    /\ pc' = [r \in Req |-> "idle"]
    /\ call' = [r \in Req |-> NoCall]
    /\ base' = [r \in Req |-> {}]
    /\ reg' = 0
    /\ attempts' = NoAttempts
    /\ accepted' = NoSql
    /\ pool' = FALSE
    /\ UNCHANGED <<task, db, nextGen, td>>

Step(r) ==
    \/ InitDrop(r) \/ InitReset(r) \/ InitClone(r) \/ InitPreprocess(r) \/ InitSnapshot(r)
    \/ InitAbort(r) \/ Register(r)
    \/ Execute(r) \/ ExecuteError(r)
    \/ SubmitReset(r) \/ SubmitCreate(r) \/ SubmitReplay(r) \/ SubmitOpen(r)
    \/ Judge(r) \/ JudgeKilled(r) \/ RestoreDrop(r) \/ RestoreCreate(r)
    \/ SnapshotDrop(r) \/ SnapshotCreate(r) \/ SnapshotApply(r) \/ SnapshotClean(r)
    \/ SnapshotCloneDrop(r) \/ SnapshotClone(r)
    \/ Infrastructure(r)
    \/ CleanupDrop(r) \/ CleanupPop(r)
    \/ Respond(r)

Arrive(r) ==
    ArriveInit(r) \/ ArriveExecute(r) \/ ArriveSubmit(r) \/ ArriveCleanup(r)

Next == Crash \/ \E r \in Req : Arrive(r) \/ Step(r)

Spec == Init /\ [][Next]_vars

-----------------------------------------------------------------------------
(* Properties *)

Pcs == {"idle", "initDrop", "initReset", "initClone", "initPre", "initSnap",
        "register", "execute", "reset", "create", "replay", "open", "judge", "killed",
        "snapDrop", "snapCreate", "snapApply", "snapClean", "cloneDrop", "cloneCreate",
        "restoreDrop", "restoreCreate", "cleanDrop", "cleanPop"} \cup Answers

Contents == {NoDb} \cup SUBSET Effects
TaskData == [phase : {1, 2}, maint : BOOLEAN]
Call == [gen : 0..MaxGen, phase : {1, 2}, sql : Sqls \cup {NoSql}]

\* The type of the service's state: every database holds known effects, memory
\* and requests have the shape the handlers give them.
TypeOK ==
    /\ task \in Tasks
    /\ db \in [Names -> Contents]
    /\ pool \in BOOLEAN
    /\ reg \in 0..MaxGen
    /\ nextGen \in 0..MaxGen
    /\ td \in [Gens -> TaskData]
    /\ attempts \in {NoAttempts} \cup [{1, 2} -> 0..2]
    /\ accepted \in Sqls \cup {NoSql}
    /\ pc \in [Req -> Pcs]
    /\ call \in [Req -> Call]
    /\ base \in [Req -> SUBSET Effects]

\* What a phase's submissions are to be judged on.
ResetPoint(p) ==
    (IF task.pre THEN {"pre"} ELSE {})
      \cup (IF p = 2 THEN {"clean"} \cup EffectOf(accepted) ELSE {})

\* A submission is judged on the canonical state of its phase: no trace of
\* exploration, of earlier submissions or of their test cases, and in Phase 2
\* with the statistics of an accepted ANALYZE (server.py "Reset task DB for
\* clean evaluation").
VerdictFromResetPoint ==
    \A r \in Req : pc[r] = "judge" => base[r] = ResetPoint(call[r].phase)

\* A verdict is reached on the very database the submitted SQL ran on: a request
\* that meanwhile rebuilt it has terminated the sessions of the evaluation.
EvaluatedWhereItRan ==
    \A r \in Req : pc[r] = "judge" =>
        /\ Exists("task")
        /\ base[r] \cup EffectOf(call[r].sql) \subseteq db["task"]

\* While the task is in Phase 2, the snapshot its submissions are reset from is
\* the reset point plus the accepted SQL and the clean-up, and nothing that the
\* evaluation of that SQL or any later request did.
SnapshotCanonical ==
    (reg # 0 /\ td[reg].phase = 2 /\ \A r \in Req : pc[r] # "cleanPop")
      => /\ accepted # NoSql
         /\ db["phase1"] = Cloned(ResetPoint(2))

\* The databases of a task that was just initialised.
Fresh == [n \in Names |-> IF n = "task" THEN ResetPoint(1)
                          ELSE IF n = "initial" /\ task.pre THEN {"pre"} ELSE NoDb]

\* A successful /init_task leaves the databases of a first initialisation,
\* whatever an earlier run, a failed clean-up or a crash of the service left.
InitRecovers ==
    \A r \in Req : pc[r] = "initialized" => db = Fresh

\* After a failed submission the task database is the phase's reset point again,
\* statistics aside, for the agent to explore.
RestoredAfterFail ==
    \A r \in Req : pc[r] = "failed" =>
        db["task"] = Cloned(ResetPoint(call[r].phase))

\* While a task stays registered in a phase, the number of its submissions
\* counted there never falls: a later try is never taken for a first one.
AttemptsNeverForgotten ==
    [][(reg # 0 /\ reg' = reg /\ td'[reg].phase = td[reg].phase)
         => \A p \in {1, 2} : attempts'[p] >= attempts[p]]_vars
=============================================================================
