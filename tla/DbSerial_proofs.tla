--------------------------- MODULE DbSerial_proofs ---------------------------
(***************************************************************************)
(* What the DB Environment promises a client that sends one request at a   *)
(* time (Overlap = FALSE), for every task, every set of SQL payloads and   *)
(* any number of failures and crashes.  The inductive invariant SerialInv  *)
(* says that at most one request is in the service and that its program    *)
(* counter determines the contents of the databases it works on.           *)
(***************************************************************************)
EXTENDS DbEnvironment_proofs

\* At most one request is in the service.
Single == \A r, s \in Req : pc[r] # "idle" /\ pc[s] # "idle" => r = s

Registered == reg # 0 /\ \A r \in Req : pc[r] # "cleanPop"

\* The reset point of Phase 1 exists for as long as the task is registered.
InitialKept == Registered /\ task.pre => db["initial"] = {"pre"}

\* Phase 2 has its snapshot, and remembers the statements it must replay.
SnapshotKept ==
    Registered /\ td[reg].phase = 2 =>
        /\ accepted \in Sqls
        /\ db["phase1"] = Cloned(ResetPoint(2))
        /\ td[reg].maint = (accepted \in Analyzes)

InitPcs == {"initDrop", "initReset", "initClone", "initPre", "initSnap", "register"}

\* What the rebuild of a task has done by each step.
InitProgress(r) ==
    /\ pc[r] \in InitPcs => reg = 0 /\ call[r].gen \in Gens
    /\ pc[r] \in {"initReset", "initClone"} => db = [n \in Names |-> NoDb]
    /\ pc[r] \in {"initPre", "initSnap"} =>
         task.pre /\ db["initial"] = NoDb /\ db["phase1"] = NoDb
    /\ pc[r] = "initPre" => db["task"] = {}
    /\ pc[r] = "initSnap" => db["task"] = {"pre"}
    /\ pc[r] \in {"register", "initialized"} => db = Fresh

SnapshotPcs == {"snapDrop", "snapCreate", "snapApply", "snapClean", "cloneDrop",
                "cloneCreate"}
SubmitPcs == {"reset", "create", "replay", "open", "judge", "restoreDrop",
              "restoreCreate"} \cup SnapshotPcs

\* What a submission has done by each step.
SubmitProgress(r) ==
    /\ pc[r] \in SubmitPcs =>
         /\ reg # 0
         /\ call[r].gen = reg
         /\ call[r].phase = td[reg].phase
         /\ call[r].sql \in Sqls
    /\ pc[r] = "replay" => call[r].phase = 2 /\ db["task"] = Cloned(ResetPoint(2))
    /\ pc[r] = "open" => db["task"] = ResetPoint(call[r].phase)
    /\ pc[r] = "judge" => base[r] = ResetPoint(call[r].phase)
    /\ pc[r] = "failed" => db["task"] = Cloned(ResetPoint(call[r].phase))
    /\ pc[r] \in SnapshotPcs => call[r].phase = 1 /\ accepted = call[r].sql
    /\ pc[r] = "snapApply" => db["task"] = ResetPoint(1)
    /\ pc[r] \in {"snapClean", "cloneDrop", "cloneCreate"} =>
         td[reg].maint = (accepted \in Analyzes)
    /\ pc[r] = "snapClean" => db["task"] = ResetPoint(1) \cup EffectOf(accepted)
    /\ pc[r] \in {"cloneDrop", "cloneCreate"} => db["task"] = ResetPoint(2)

SerialInv ==
    /\ Single
    /\ InitialKept
    /\ SnapshotKept
    /\ \A r \in Req : InitProgress(r) /\ SubmitProgress(r)

-----------------------------------------------------------------------------
(* Facts about the contents *)

LEMMA ResetPoints ==
    /\ Cloned(ResetPoint(1)) = ResetPoint(1)
    /\ ResetPoint(1) = IF task.pre THEN {"pre"} ELSE {}
    /\ accepted \in Sqls =>
         /\ Cloned(Cloned(ResetPoint(2))) = Cloned(ResetPoint(2))
         /\ accepted \in Analyzes => Cloned(ResetPoint(2)) \cup {"stats"} = ResetPoint(2)
         /\ accepted \notin Analyzes => Cloned(ResetPoint(2)) = ResetPoint(2)
         /\ ResetPoint(1) \cup EffectOf(accepted) \cup {"clean"} = ResetPoint(2)
<1>1. accepted \in Sqls => accepted \notin {"pre", "clean", "stats"}
  BY ConstantsOK DEF Labels
<1>2. QED BY <1>1 DEF Cloned, ResetPoint, EffectOf

LEMMA SerialInit == Init => SerialInv
BY DEF Init, SerialInv, Single, Registered, InitialKept, SnapshotKept, InitProgress,
       SubmitProgress, InitPcs, SubmitPcs, SnapshotPcs

\* In serial use nothing moves but the one request that is in the service.
LEMMA Alone ==
    ASSUME TypeOK, Single, NEW r \in Req, Step(r)
    PROVE  /\ pc[r] # "idle"
           /\ \A s \in Req \ {r} : pc[s] = "idle" /\ pc'[s] = "idle"
           /\ Single'
<1>1. pc[r] # "idle"
  BY DEF Step, InitDrop, InitReset, InitClone, InitPreprocess, InitSnapshot, InitAbort,
         Register, Execute, ExecuteError, SubmitReset, SubmitCreate, SubmitReplay,
         SubmitOpen, Judge, JudgeKilled, RestoreDrop, RestoreCreate, SnapshotDrop,
         SnapshotCreate, SnapshotApply, SnapshotClean, SnapshotCloneDrop, SnapshotClone,
         Infrastructure, CleanupDrop, CleanupPop, Respond, ResetDrop, ResetCreate, Resets,
         Answers
<1>2. \A s \in Req \ {r} : pc[s] = "idle"
  BY <1>1 DEF Single
<1>3. \A s \in Req \ {r} : pc'[s] = "idle"
  BY <1>2 DEF Step, InitDrop, InitReset, InitClone, InitPreprocess, InitSnapshot, InitAbort,
         Register, Execute, ExecuteError, SubmitReset, SubmitCreate, SubmitReplay,
         SubmitOpen, Judge, JudgeKilled, RestoreDrop, RestoreCreate, SnapshotDrop,
         SnapshotCreate, SnapshotApply, SnapshotClean, SnapshotCloneDrop, SnapshotClone,
         Infrastructure, CleanupDrop, CleanupPop, Respond, ResetDrop, ResetCreate, Goto,
         GotoDisconnecting, Disconnected, TypeOK, Rejected, PassedPhase1, PassedPhase2
<1>4. QED BY <1>1, <1>2, <1>3 DEF Single

\* The step leaves the memory and the reset points alone.
Steady == /\ UNCHANGED <<task, reg, td, accepted>>
          /\ db'["initial"] = db["initial"]
          /\ db'["phase1"] = db["phase1"]

LEMMA SteadyKeeps ==
    ASSUME SerialInv, Steady, Registered' => Registered
    PROVE  /\ InitialKept' /\ SnapshotKept'
           /\ ResetPoint(1)' = ResetPoint(1) /\ ResetPoint(2)' = ResetPoint(2)
BY DEF SerialInv, Steady, InitialKept, SnapshotKept, ResetPoint

\* What is known at each place of a request.
LEMMA Known ==
    ASSUME TypeOK, SerialInv, NEW r \in Req
    PROVE  /\ "task" \in Names /\ db \in [Names -> Contents] /\ pc[r] \in Pcs
           /\ pc[r] \in SubmitPcs =>
                /\ reg # 0 /\ reg \in Gens /\ call[r].gen = reg
                /\ call[r].phase = td[reg].phase /\ call[r].phase \in {1, 2}
                /\ call[r].sql \in Sqls
                /\ task.pre => db["initial"] = {"pre"}
                /\ td[reg].phase = 2 =>
                     /\ accepted \in Sqls
                     /\ db["phase1"] = Cloned(ResetPoint(2))
                     /\ td[reg].maint = (accepted \in Analyzes)
<1>1. "task" \in Names /\ db \in [Names -> Contents] /\ pc[r] \in Pcs
  BY DEF TypeOK, Names
<1>2. ASSUME pc[r] \in SubmitPcs
      PROVE  /\ reg # 0 /\ reg \in Gens /\ call[r].gen = reg
             /\ call[r].phase = td[reg].phase /\ call[r].phase \in {1, 2}
             /\ call[r].sql \in Sqls
  <2>1. reg # 0 /\ call[r].gen = reg /\ call[r].phase = td[reg].phase /\ call[r].sql \in Sqls
    BY <1>2 DEF SerialInv, SubmitProgress
  <2>2. reg \in Gens
    BY <2>1, ConstantsOK DEF TypeOK, Gens
  <2>3. call[r].phase \in {1, 2}
    BY DEF TypeOK, Call
  <2>4. QED BY <2>1, <2>2, <2>3
<1>3. ASSUME pc[r] \in SubmitPcs PROVE Registered
  <2>1. \A s \in Req : pc[s] # "idle" => s = r
    BY <1>3 DEF SerialInv, Single, SubmitPcs, SnapshotPcs
  <2>2. pc[r] # "cleanPop"
    BY <1>3 DEF SubmitPcs, SnapshotPcs
  <2>3. QED BY <1>2, <1>3, <2>1, <2>2 DEF Registered
<1>4. QED BY <1>1, <1>2, <1>3 DEF SerialInv, InitialKept, SnapshotKept

\* Where a step leaves its request, and what the database writes leave.
LEMMA Moves ==
    ASSUME TypeOK, NEW r \in Req
    PROVE  /\ \A to : Goto(r, to) \/ GotoDisconnecting(r, to) =>
                pc'[r] = to /\ UNCHANGED <<call, base>>
           /\ \A from, to : ResetDrop(r, from, to) =>
                /\ pc[r] = from /\ pc'[r] = to /\ call' = call /\ Steady
                /\ db' = [db EXCEPT !["task"] = NoDb]
           /\ \A from, source, to : ResetCreate(r, from, source, to) =>
                /\ pc[r] = from /\ pc'[r] = to /\ call' = call /\ Steady
                /\ db' = [db EXCEPT !["task"] = Cloned(source)]
                /\ db'["task"] = Cloned(source)
<1>1. \A to : Goto(r, to) \/ GotoDisconnecting(r, to) =>
        pc'[r] = to /\ UNCHANGED <<call, base>>
  BY DEF Goto, GotoDisconnecting, Disconnected, TypeOK
<1>2. "task" \in Names /\ db \in [Names -> Contents]
  BY DEF TypeOK, Names
<1>3. QED BY <1>1, <1>2 DEF ResetDrop, ResetCreate, DropTask, Steady, memory, Names

LEMMA SerialStep ==
    ASSUME Overlap = FALSE
    PROVE  TypeOK /\ SerialInv /\ [Next]_vars => SerialInv'
<1> SUFFICES ASSUME TypeOK, SerialInv, [Next]_vars PROVE SerialInv'
  OBVIOUS
<1>1. CASE UNCHANGED vars
  <2>1. Steady /\ (Registered' => Registered)
    BY <1>1 DEF vars, Steady, Registered, Single
  <2>2. InitialKept' /\ SnapshotKept' /\ Single'
    BY <1>1, <2>1, SteadyKeeps DEF vars, SerialInv, Single
  <2>3. \A p \in {1, 2} : ResetPoint(p)' = ResetPoint(p)
    BY <2>1, SteadyKeeps
  <2>4. Fresh' = Fresh
    <3>1. task' = task /\ ResetPoint(1)' = ResetPoint(1)
      BY <1>1, <2>1, SteadyKeeps DEF vars
    <3>2. QED BY <3>1 DEF Fresh
  <2>5. ASSUME NEW r \in Req PROVE InitProgress(r)' /\ SubmitProgress(r)'
    <3>1. InitProgress(r)'
      BY <1>1, <2>4 DEF vars, SerialInv, InitProgress
    <3>2. call[r].phase \in {1, 2}
      BY DEF TypeOK, Call
    <3>3. SubmitProgress(r)'
      BY <1>1, <2>3, <3>2 DEF vars, SerialInv, SubmitProgress
    <3>4. QED BY <3>1, <3>3
  <2>6. QED BY <2>2, <2>5 DEF SerialInv
<1>2. CASE Crash
  <2>1. reg' = 0 /\ \A r \in Req : pc'[r] = "idle"
    BY <1>2 DEF Crash
  <2>2. QED BY <2>1 DEF SerialInv, Single, Registered, InitialKept, SnapshotKept,
                        InitProgress, SubmitProgress, InitPcs, SubmitPcs, SnapshotPcs
<1>3. ASSUME NEW r \in Req, Arrive(r) PROVE SerialInv'
  <2>0. /\ \A s \in Req : pc[s] = "idle"
        /\ \A s \in Req \ {r} : pc'[s] = "idle"
        /\ Single'
    BY <1>3 DEF Arrive, ArriveInit, ArriveExecute, ArriveSubmit, ArriveCleanup, MayArrive,
                InFlight, Single, TypeOK
  <2>1. SUFFICES InitialKept' /\ SnapshotKept' /\ InitProgress(r)' /\ SubmitProgress(r)'
    BY <2>0 DEF SerialInv, InitProgress, SubmitProgress, InitPcs, SubmitPcs, SnapshotPcs
  <2>2. CASE ArriveInit(r)
    <3>1. reg' = 0 /\ pc'[r] = "initDrop" /\ call'[r].gen \in Gens
      BY <2>2, ConstantsOK DEF ArriveInit, TypeOK, NoCall, Gens
    <3>2. QED BY <3>1 DEF Registered, InitialKept, SnapshotKept, InitProgress,
                          SubmitProgress, InitPcs, SubmitPcs, SnapshotPcs
  <2>3. CASE ~ArriveInit(r)
    <3>1. Steady /\ (Registered' => Registered)
      <4>1. Steady
        BY <1>3, <2>3
        DEF Arrive, ArriveExecute, ArriveSubmit, ArriveCleanup, Steady, memory
      <4>2. QED BY <2>0, <4>1 DEF Steady, Registered
    <3>2. InitialKept' /\ SnapshotKept'
      BY <3>1, SteadyKeeps
    <3>3. CASE ArriveSubmit(r)
      <4>1. /\ pc'[r] = "reset" /\ reg # 0 /\ call'[r].gen = reg
            /\ call'[r].phase = td[reg].phase /\ call'[r].sql \in Sqls
        BY <3>3 DEF ArriveSubmit, TypeOK
      <4>2. QED BY <3>1, <3>2, <4>1 DEF Steady, InitProgress, SubmitProgress, InitPcs,
                                        SubmitPcs, SnapshotPcs
    <3>4. CASE ArriveExecute(r) \/ ArriveCleanup(r)
      <4>1. pc'[r] \in {"execute", "cleanDrop"}
        BY <3>4 DEF ArriveExecute, ArriveCleanup, TypeOK
      <4>2. QED BY <3>2, <4>1 DEF InitProgress, SubmitProgress, InitPcs, SubmitPcs,
                                  SnapshotPcs
    <3>5. QED BY <1>3, <2>3, <3>3, <3>4 DEF Arrive
  <2>4. QED BY <2>2, <2>3
<1>4. ASSUME NEW r \in Req, Step(r) PROVE SerialInv'
  <2>0. /\ pc[r] # "idle"
        /\ \A s \in Req \ {r} : pc[s] = "idle" /\ pc'[s] = "idle"
        /\ Single'
    BY <1>4, Alone DEF SerialInv
  <2>1. SUFFICES InitialKept' /\ SnapshotKept' /\ InitProgress(r)' /\ SubmitProgress(r)'
    BY <2>0 DEF SerialInv, InitProgress, SubmitProgress, InitPcs, SubmitPcs, SnapshotPcs
  <2> DEFINE Progress == InitProgress(r)' /\ SubmitProgress(r)'
  <2>2. InitProgress(r) /\ SubmitProgress(r)
    BY DEF SerialInv
  <2>3. pc[r] # "cleanPop" /\ Steady /\ Registered' => Registered
    BY <2>0 DEF Registered, Steady
  <2>4. reg' = 0 => InitialKept' /\ SnapshotKept'
    BY DEF InitialKept, SnapshotKept, Registered
  <2>5. \A to \in Answers \ {"initialized", "failed"} : pc'[r] = to => Progress
    BY DEF InitProgress, SubmitProgress, InitPcs, SubmitPcs, SnapshotPcs, Answers
  \* The rebuild of a task.
  <2>6. CASE InitDrop(r) \/ InitReset(r)
    <3>1. /\ pc[r] \in InitPcs /\ reg' = reg /\ call' = call
          /\ pc'[r] \in {"initReset", "initClone"}
          /\ db' = [n \in Names |-> NoDb]
      <4>1. CASE InitDrop(r)
        BY <4>1, Moves DEF InitDrop, memory, InitPcs
      <4>2. CASE InitReset(r)
        <5>1. /\ pc[r] = "initReset" /\ pc'[r] = "initClone" /\ call' = call /\ reg' = reg
              /\ db' = [db EXCEPT !["task"] = NoDb]
          BY <4>2, Moves DEF InitReset, Steady
        <5>2. db = [n \in Names |-> NoDb]
          BY <2>2, <5>1 DEF InitProgress
        <5>3. db' = [n \in Names |-> NoDb]
          BY <5>1, <5>2
        <5>4. QED BY <5>1, <5>3 DEF InitPcs
      <4>3. QED BY <2>6, <4>1, <4>2
    <3>2. QED BY <2>2, <2>4, <3>1 DEF InitProgress, SubmitProgress, InitPcs, SubmitPcs,
                                      SnapshotPcs
  <2>7. CASE InitClone(r)
    <3>1. /\ pc[r] = "initClone" /\ reg' = reg /\ call' = call /\ task' = task
          /\ pc'[r] = IF task.pre THEN "initPre" ELSE "register"
          /\ db' = [[n \in Names |-> NoDb] EXCEPT !["task"] = {}]
      <4>1. /\ pc[r] = "initClone" /\ reg' = reg /\ call' = call /\ task' = task
            /\ pc'[r] = IF task.pre THEN "initPre" ELSE "register"
            /\ db' = [db EXCEPT !["task"] = Cloned({})]
        BY <2>7, Moves DEF InitClone, Steady
      <4>2. db = [n \in Names |-> NoDb] /\ Cloned({}) = {}
        BY <2>2, <4>1 DEF InitProgress, Cloned
      <4>3. QED BY <4>1, <4>2
    <3>2. reg = 0 /\ call[r].gen \in Gens
      BY <2>2, <3>1 DEF InitProgress, InitPcs
    <3>3. ~task.pre => db' = Fresh'
      <4>1. ~task.pre => Fresh' = [n \in Names |-> IF n = "task" THEN {} ELSE NoDb]
        BY <3>1 DEF Fresh, ResetPoint, Names
      <4>2. QED BY <3>1, <4>1 DEF Names
    <3>4. db'["task"] = {} /\ db'["initial"] = NoDb /\ db'["phase1"] = NoDb
      BY <3>1 DEF Names
    <3>5. QED BY <2>4, <3>1, <3>2, <3>3, <3>4
              DEF InitProgress, SubmitProgress, InitPcs, SubmitPcs, SnapshotPcs
  <2>8. CASE InitPreprocess(r)
    <3>1. /\ pc[r] = "initPre" /\ reg' = reg /\ call' = call /\ task' = task
          /\ pc'[r] = "initSnap"
          /\ db' = [db EXCEPT !["task"] = @ \cup {"pre"}]
      BY <2>8, Moves DEF InitPreprocess, memory
    <3>2. /\ reg = 0 /\ call[r].gen \in Gens /\ task.pre
          /\ db["task"] = {} /\ db["initial"] = NoDb /\ db["phase1"] = NoDb
      BY <2>2, <3>1 DEF InitProgress, InitPcs
    <3>3. db'["task"] = {"pre"} /\ db'["initial"] = NoDb /\ db'["phase1"] = NoDb
      BY <3>1, <3>2, Known
    <3>4. QED BY <2>4, <3>1, <3>2, <3>3
              DEF InitProgress, SubmitProgress, InitPcs, SubmitPcs, SnapshotPcs
  <2>9. CASE InitSnapshot(r)
    <3>1. /\ pc[r] = "initSnap" /\ reg' = reg /\ call' = call /\ task' = task
          /\ pc'[r] = "register"
          /\ db' = [db EXCEPT !["initial"] = Cloned(db["task"])]
      BY <2>9 DEF InitSnapshot, Goto, memory, TypeOK
    <3>2. /\ reg = 0 /\ call[r].gen \in Gens /\ task.pre
          /\ db["task"] = {"pre"} /\ db["initial"] = NoDb /\ db["phase1"] = NoDb
      BY <2>2, <3>1 DEF InitProgress, InitPcs
    <3>3. Cloned({"pre"}) = {"pre"}
      BY DEF Cloned
    <3>4. db' = Fresh'
      <4>1. \A n \in Names : db'[n] = Fresh'[n]
        <5>1. ResetPoint(1)' = {"pre"}
          BY <3>1, <3>2 DEF ResetPoint
        <5>2. \A n \in Names : Fresh'[n] = IF n = "phase1" THEN NoDb ELSE {"pre"}
          BY <3>1, <3>2, <5>1 DEF Fresh, Names
        <5>3. \A n \in Names : db'[n] = IF n = "phase1" THEN NoDb ELSE {"pre"}
          BY <3>1, <3>2, <3>3, Known DEF Names
        <5>4. QED BY <5>2, <5>3
      <4>2. db' \in [Names -> {db'[n] : n \in Names}]
        BY <3>1, Known
      <4>3. QED BY <4>1, <4>2 DEF Fresh
    <3>5. QED BY <2>4, <3>1, <3>2, <3>4
              DEF InitProgress, SubmitProgress, InitPcs, SubmitPcs, SnapshotPcs
  <2>10. CASE InitAbort(r)
    <3>1. pc[r] \in InitPcs /\ reg' = reg /\ pc'[r] = "infra"
      BY <2>10 DEF InitAbort, GotoDisconnecting, memory, TypeOK, InitPcs, Disconnected
    <3>2. reg = 0
      BY <2>2, <3>1 DEF InitProgress
    <3>3. QED BY <2>4, <2>5, <3>1, <3>2 DEF Answers
  <2>11. CASE Register(r)
    <3>1. /\ pc[r] = "register" /\ pc'[r] = "initialized"
          /\ UNCHANGED <<task, db, call>> /\ reg' = call[r].gen
          /\ td' = [td EXCEPT ![call[r].gen] = [phase |-> 1, maint |-> FALSE]]
      BY <2>11 DEF Register, Goto, TypeOK
    <3>2. call[r].gen \in Gens /\ db = Fresh
      BY <2>2, <3>1 DEF InitProgress, InitPcs
    <3>3. td'[reg'].phase = 1
      BY <3>1, <3>2 DEF TypeOK
    <3>4. db' = Fresh'
      BY <3>1, <3>2 DEF Fresh, ResetPoint
    <3>5. task'.pre => db'["initial"] = {"pre"}
      BY <3>1, <3>2 DEF Fresh, Names
    <3>6. InitialKept' /\ SnapshotKept'
      BY <3>3, <3>5 DEF InitialKept, SnapshotKept
    <3>7. QED BY <3>1, <3>4, <3>6
              DEF InitProgress, SubmitProgress, InitPcs, SubmitPcs, SnapshotPcs
  \* Steps that end a request without touching the databases' reset points.
  <2>12. CASE Execute(r) \/ ExecuteError(r) \/ JudgeKilled(r) \/ Infrastructure(r)
    <3>1. Steady /\ pc[r] # "cleanPop" /\ pc'[r] \in {"ok", "error", "infra"}
      <4>1. pc'[r] \in {"ok", "error", "infra"}
        BY <2>12, Moves DEF Execute, ExecuteError, JudgeKilled, Infrastructure
      <4>2. pc[r] # "cleanPop"
        BY <2>12 DEF Execute, ExecuteError, JudgeKilled, Infrastructure, Resets
      <4>3. UNCHANGED <<task, reg, td, accepted>>
        BY <2>12 DEF Execute, ExecuteError, JudgeKilled, Infrastructure, memory
      <4>4. db'["initial"] = db["initial"] /\ db'["phase1"] = db["phase1"]
        <5>1. ASSUME Execute(r)
              PROVE  db'["initial"] = db["initial"] /\ db'["phase1"] = db["phase1"]
          <6>1. PICK w \in SUBSET {"explore"} : db' = [db EXCEPT !["task"] = @ \cup w]
            BY <5>1 DEF Execute
          <6>2. QED BY <6>1, Known
        <5>2. ~Execute(r) => db' = db
          BY <2>12 DEF ExecuteError, JudgeKilled, Infrastructure
        <5>3. QED BY <5>1, <5>2
      <4>5. QED BY <4>1, <4>2, <4>3, <4>4 DEF Steady
    <3>2. QED BY <2>3, <2>5, <3>1, SteadyKeeps DEF Answers
  <2>13. CASE Respond(r)
    <3>1. Steady /\ pc[r] # "cleanPop" /\ pc'[r] = "idle"
      BY <2>13 DEF Respond, memory, TypeOK, Steady, Answers
    <3>2. QED BY <2>3, <3>1, SteadyKeeps
              DEF InitProgress, SubmitProgress, InitPcs, SubmitPcs, SnapshotPcs
  <2>14. CASE CleanupDrop(r)
    <3>1. pc'[r] = "cleanPop"
      BY <2>14 DEF CleanupDrop, GotoDisconnecting, Disconnected, TypeOK
    <3>2. QED BY <3>1 DEF Registered, InitialKept, SnapshotKept, InitProgress,
                          SubmitProgress, InitPcs, SubmitPcs, SnapshotPcs
  <2>15. CASE CleanupPop(r)
    <3>1. reg' = 0 /\ pc'[r] = "ok"
      BY <2>15 DEF CleanupPop, Goto, TypeOK
    <3>2. QED BY <2>4, <2>5, <3>1 DEF Answers
  \* Resets of the task database on behalf of a submission.
  <2>16. CASE SubmitReset(r) \/ RestoreDrop(r) \/ SnapshotDrop(r)
    <3>1. /\ Steady /\ call' = call /\ pc[r] \in {"reset", "restoreDrop", "snapDrop"}
          /\ pc'[r] \in {"create", "restoreCreate", "snapCreate"}
          /\ pc'[r] = "snapCreate" => pc[r] = "snapDrop"
      BY <2>16, Moves DEF SubmitReset, RestoreDrop, SnapshotDrop
    <3>2. QED BY <2>2, <2>3, <3>1, SteadyKeeps
              DEF Steady, InitProgress, SubmitProgress, InitPcs, SubmitPcs, SnapshotPcs
  <2>17. CASE SubmitCreate(r) \/ RestoreCreate(r)
    <3>1. /\ Steady /\ call' = call /\ pc[r] \in {"create", "restoreCreate"}
          /\ db'["task"] = Cloned(ResetSource(call[r].phase))
          /\ pc'[r] = IF pc[r] = "restoreCreate" THEN "failed"
                      ELSE IF call[r].phase = 2 THEN "replay" ELSE "open"
      BY <2>17, Moves DEF SubmitCreate, RestoreCreate
    <3>2. pc[r] \in SubmitPcs
      BY <3>1 DEF SubmitPcs
    <3>3. db'["task"] = Cloned(ResetPoint(call[r].phase))
      <4>1. CASE call[r].phase = 1
        BY <3>1, <3>2, <4>1, Known, ResetPoints
        DEF ResetSource, InitialSource, Cloned
      <4>2. CASE call[r].phase = 2
        BY <3>1, <3>2, <4>2, Known, ResetPoints DEF ResetSource
      <4>3. QED BY <3>2, <4>1, <4>2, Known
    <3>4. QED BY <2>2, <2>3, <3>1, <3>2, <3>3, SteadyKeeps, Known, ResetPoints
              DEF Steady, InitProgress, SubmitProgress, InitPcs, SubmitPcs, SnapshotPcs
  <2>18. CASE SubmitReplay(r)
    <3>1. /\ Steady /\ call' = call /\ pc[r] = "replay" /\ pc'[r] = "open"
          /\ db'["task"] = db["task"] \cup (IF td[call[r].gen].maint THEN {"stats"} ELSE {})
      <4>1. /\ UNCHANGED <<task, reg, td, accepted, call>>
            /\ pc[r] = "replay" /\ pc'[r] = "open"
        BY <2>18, Moves DEF SubmitReplay, memory
      <4>2. CASE td[call[r].gen].maint
        <5>1. db' = [db EXCEPT !["task"] = @ \cup {"stats"}]
          BY <2>18, <4>2 DEF SubmitReplay
        <5>2. QED BY <4>1, <4>2, <5>1, Known DEF Steady
      <4>3. CASE ~td[call[r].gen].maint
        BY <2>18, <4>1, <4>3 DEF SubmitReplay, Steady
      <4>4. QED BY <4>1, <4>2, <4>3
    <3>2. pc[r] \in SubmitPcs /\ call[r].phase = 2 /\ db["task"] = Cloned(ResetPoint(2))
      BY <2>2, <3>1 DEF SubmitProgress, SubmitPcs
    <3>3. db'["task"] = ResetPoint(2)
      BY <3>1, <3>2, Known, ResetPoints
    <3>4. QED BY <2>2, <2>3, <3>1, <3>2, <3>3, SteadyKeeps
              DEF Steady, InitProgress, SubmitProgress, InitPcs, SubmitPcs, SnapshotPcs
  <2>19. CASE SubmitOpen(r)
    <3>1. /\ Steady /\ call' = call /\ pc[r] = "open" /\ pc'[r] = "judge"
          /\ base'[r] = db["task"]
      BY <2>19, Known DEF SubmitOpen, memory, TypeOK, Steady
    <3>2. call[r].phase \in {1, 2}
      BY <3>1, Known DEF SubmitPcs
    <3>3. QED BY <2>2, <2>3, <3>1, <3>2, SteadyKeeps
              DEF Steady, InitProgress, SubmitProgress, InitPcs, SubmitPcs, SnapshotPcs
  <2>20. CASE Judge(r)
    <3>1. pc[r] = "judge" /\ UNCHANGED <<task, reg, td, call>> /\ db'["initial"] = db["initial"]
          /\ db'["phase1"] = db["phase1"]
      BY <2>20, Known DEF Judge, Rejected, PassedPhase1, PassedPhase2, Goto
    <3>2. pc[r] \in SubmitPcs
      BY <3>1 DEF SubmitPcs
    <3>3. CASE PassedPhase1(r)
      <4>1. /\ call[r].phase = 1 /\ accepted' = call[r].sql
            /\ pc'[r] \in {"snapDrop", "passed"}
        BY <3>3 DEF PassedPhase1, Goto, TypeOK
      <4>2. td'[reg'].phase = 1
        BY <3>1, <3>2, <4>1, Known
      <4>3. InitialKept' /\ SnapshotKept'
        BY <3>1, <3>2, <4>2, Known DEF InitialKept, SnapshotKept
      <4>4. QED BY <2>2, <2>5, <3>1, <4>1, <4>3
                DEF InitProgress, SubmitProgress, InitPcs, SubmitPcs, SnapshotPcs, Answers
    <3>4. CASE Rejected(r) \/ PassedPhase2(r)
      <4>1. Steady /\ pc'[r] \in {"restoreDrop", "passed"}
        BY <3>1, <3>4 DEF Rejected, PassedPhase2, Goto, TypeOK, Steady
      <4>2. QED BY <2>2, <2>3, <2>5, <3>1, <4>1, SteadyKeeps
                DEF Steady, InitProgress, SubmitProgress, InitPcs, SubmitPcs, SnapshotPcs,
                    Answers
    <3>5. QED BY <2>20, <3>3, <3>4 DEF Judge
  \* The Phase 1 snapshot.
  <2>21. CASE SnapshotCreate(r)
    <3>1. /\ Steady /\ call' = call /\ pc[r] = "snapCreate" /\ pc'[r] = "snapApply"
          /\ db'["task"] = Cloned(InitialSource)
      BY <2>21, Known DEF SnapshotCreate, ResetCreate, Goto, memory, TypeOK, Steady
    <3>2. pc[r] \in SubmitPcs
      BY <3>1 DEF SubmitPcs, SnapshotPcs
    <3>3. db'["task"] = ResetPoint(1)
      BY <3>1, <3>2, Known, ResetPoints DEF InitialSource, Cloned
    <3>4. QED BY <2>2, <2>3, <3>1, <3>3, SteadyKeeps
              DEF Steady, InitProgress, SubmitProgress, InitPcs, SubmitPcs, SnapshotPcs
  <2>22. CASE SnapshotApply(r)
    <3>1. /\ UNCHANGED <<task, reg, accepted, call>>
          /\ db'["initial"] = db["initial"] /\ db'["phase1"] = db["phase1"]
          /\ db'["task"] = db["task"] \cup EffectOf(call[r].sql)
          /\ pc[r] = "snapApply" /\ pc'[r] = "snapClean"
          /\ td' = [td EXCEPT ![call[r].gen].maint = call[r].sql \in Analyzes]
      BY <2>22, Known DEF SnapshotApply, Goto, TypeOK
    <3>2. pc[r] \in SubmitPcs
      BY <3>1 DEF SubmitPcs, SnapshotPcs
    <3>3. call[r].phase = 1 /\ accepted = call[r].sql /\ db["task"] = ResetPoint(1)
      BY <2>2, <3>1 DEF SubmitProgress, SnapshotPcs
    <3>4. td'[reg].phase = 1 /\ td'[reg].maint = (accepted \in Analyzes)
      BY <3>1, <3>2, <3>3, Known DEF TypeOK, TaskData
    <3>5. InitialKept' /\ SnapshotKept'
      BY <3>1, <3>2, <3>4, Known DEF InitialKept, SnapshotKept
    <3>6. ResetPoint(1)' = ResetPoint(1)
      BY <3>1 DEF ResetPoint
    <3>7. QED BY <2>2, <3>1, <3>2, <3>3, <3>4, <3>5, <3>6, Known
              DEF InitProgress, SubmitProgress, InitPcs, SubmitPcs, SnapshotPcs
  <2>23. CASE SnapshotClean(r)
    <3>1. /\ Steady /\ call' = call /\ pc[r] = "snapClean" /\ pc'[r] = "cloneDrop"
          /\ db'["task"] = db["task"] \cup {"clean"}
      BY <2>23, Known DEF SnapshotClean, GotoDisconnecting, Disconnected, memory, TypeOK,
         Steady
    <3>2. /\ db["task"] = ResetPoint(1) \cup EffectOf(accepted)
          /\ accepted = call[r].sql /\ call[r].sql \in Sqls
      BY <2>2, <3>1 DEF SubmitProgress, SubmitPcs, SnapshotPcs
    <3>3. db'["task"] = ResetPoint(2)
      BY <3>1, <3>2, ResetPoints
    <3>4. QED BY <2>2, <2>3, <3>1, <3>3, SteadyKeeps
              DEF Steady, InitProgress, SubmitProgress, InitPcs, SubmitPcs, SnapshotPcs
  <2>24. CASE SnapshotCloneDrop(r) \/ SnapshotClone(r)
    <3>1. /\ pc[r] \in {"cloneDrop", "cloneCreate"} /\ UNCHANGED <<task, reg, accepted, call>>
          /\ db'["task"] = db["task"] /\ db'["initial"] = db["initial"]
      <4>1. UNCHANGED <<task, reg, accepted, call>> /\ pc[r] \in {"cloneDrop", "cloneCreate"}
        BY <2>24, Moves DEF SnapshotCloneDrop, SnapshotClone, memory
      <4>2. \E c : db' = [db EXCEPT !["phase1"] = c]
        BY <2>24 DEF SnapshotCloneDrop, SnapshotClone
      <4>3. QED BY <4>1, <4>2, Known
    <3>2. pc[r] \in SubmitPcs
      BY <3>1 DEF SubmitPcs, SnapshotPcs
    <3>3. /\ call[r].phase = 1 /\ accepted = call[r].sql
          /\ td[reg].maint = (accepted \in Analyzes)
          /\ db["task"] = ResetPoint(2)
      BY <2>2, <3>1 DEF SubmitProgress, SnapshotPcs
    <3>4. td[reg].phase = 1 /\ reg \in Gens /\ td[reg] \in TaskData
      BY <3>2, <3>3, Known DEF TypeOK
    <3>5. ResetPoint(2)' = ResetPoint(2) /\ InitialKept'
      BY <3>1, <3>2, Known DEF ResetPoint, InitialKept
    <3>6. CASE SnapshotCloneDrop(r) /\ pc'[r] = "cloneCreate"
      <4>1. td' = td
        BY <3>6 DEF SnapshotCloneDrop, memory
      <4>2. SnapshotKept'
        BY <3>1, <3>4, <3>3, <4>1 DEF SnapshotKept
      <4>3. QED BY <3>1, <3>2, <3>3, <3>4, <3>5, <3>6, <4>1, <4>2, Known
                DEF InitProgress, SubmitProgress, InitPcs, SubmitPcs, SnapshotPcs
    <3>7. CASE SnapshotClone(r) /\ pc'[r] \in {"infra", "passed"}
      <4>1. /\ db'["phase1"] = Cloned(ResetPoint(2))
            /\ td' = td \/ td' = [td EXCEPT ![reg].phase = 2]
        BY <3>2, <3>3, <3>7, Known DEF SnapshotClone, Names, TypeOK
      <4>2. td'[reg].maint = (accepted \in Analyzes)
        BY <3>3, <3>4, <4>1 DEF TypeOK, TaskData
      <4>3. SnapshotKept'
        BY <3>1, <3>2, <3>3, <3>5, <4>1, <4>2, Known DEF SnapshotKept
      <4>4. QED BY <2>5, <3>5, <3>7, <4>3 DEF Answers
    <3>8. QED BY <2>24, <3>6, <3>7 DEF SnapshotCloneDrop, SnapshotClone, Goto, TypeOK
  <2>25. QED
    BY <1>4, <2>6, <2>7, <2>8, <2>9, <2>10, <2>11, <2>12, <2>13, <2>14, <2>15, <2>16, <2>17,
       <2>18, <2>19, <2>20, <2>21, <2>22, <2>23, <2>24
    DEF Step
<1>5. QED BY <1>1, <1>2, <1>3, <1>4 DEF Next

LEMMA SerialSafe ==
    ASSUME TypeOK, SerialInv
    PROVE  /\ VerdictFromResetPoint /\ RestoredAfterFail
           /\ SnapshotCanonical /\ InitRecovers
<1>1. VerdictFromResetPoint /\ RestoredAfterFail
  BY DEF SerialInv, SubmitProgress, VerdictFromResetPoint, RestoredAfterFail
<1>2. SnapshotCanonical
  BY ConstantsOK DEF SerialInv, SnapshotKept, Registered, SnapshotCanonical, NoSql
<1>3. InitRecovers
  BY DEF SerialInv, InitProgress, Fresh, InitRecovers
<1>4. QED BY <1>1, <1>2, <1>3

\* A client that waits for each answer has its submissions judged on the canonical
\* state of their phase, and finds that state, statistics aside, after a failure.
THEOREM SerialVerdicts ==
    ASSUME Overlap = FALSE
    PROVE  Spec => [](VerdictFromResetPoint /\ RestoredAfterFail)
<1>1. SerialInv /\ TypeOK => VerdictFromResetPoint /\ RestoredAfterFail
  BY SerialSafe
<1>2. TypeOK /\ SerialInv /\ [Next]_vars => SerialInv'
  BY SerialStep
<1>3. QED BY <1>1, <1>2, SerialInit, TypeCorrect, PTL DEF Spec

\* It also finds the Phase 1 snapshot canonical for as long as the task is in Phase
\* 2 (_create_phase1_snapshot), whatever failed or crashed before.
THEOREM SerialSnapshot == ASSUME Overlap = FALSE PROVE Spec => []SnapshotCanonical
<1>1. SerialInv /\ TypeOK => SnapshotCanonical
  BY SerialSafe
<1>2. TypeOK /\ SerialInv /\ [Next]_vars => SerialInv'
  BY SerialStep
<1>3. QED BY <1>1, <1>2, SerialInit, TypeCorrect, PTL DEF Spec

\* A re-initialised task is as good as new (init_task), whatever an earlier run, a
\* failed clean-up or a crash left behind.
THEOREM SerialRecovery == ASSUME Overlap = FALSE PROVE Spec => []InitRecovers
<1>1. SerialInv /\ TypeOK => InitRecovers
  BY SerialSafe
<1>2. TypeOK /\ SerialInv /\ [Next]_vars => SerialInv'
  BY SerialStep
<1>3. QED BY <1>1, <1>2, SerialInit, TypeCorrect, PTL DEF Spec

-----------------------------------------------------------------------------
(* The submissions that are counted *)

\* A registered task has its counters.
Counting == reg # 0 => attempts \in [{1, 2} -> 0..2]

\* What a step does to the counters of a task that stays registered.
Counts ==
    \/ attempts' = attempts
    \/ \E p \in {1, 2}, n \in 1..2 :
          /\ attempts' = [Counted EXCEPT ![p] = n]
          /\ Counted[p] > 0 => n = 2
    \/ /\ attempts' = [attempts EXCEPT ![2] = 0]
       /\ td'[reg].phase # td[reg].phase

LEMMA CountsStep ==
    ASSUME TypeOK, SerialInv, [Next]_vars, reg' # 0
    PROVE  \/ reg = 0 /\ attempts' = ZeroAttempts
           \/ reg' = reg /\ Counts
<1>1. CASE UNCHANGED vars
  BY <1>1 DEF vars, Counts
<1>2. CASE Crash
  BY <1>2 DEF Crash
<1>3. ASSUME NEW r \in Req, Arrive(r) PROVE reg' = reg /\ Counts
  <2>1. CASE ArriveSubmit(r)
    <3>1. PICK q \in Sqls :
            LET p == td[reg].phase
                n == IF Counted[p] = 0 THEN 1 ELSE 2
            IN  attempts' = [Counted EXCEPT ![p] = n]
      BY <2>1 DEF ArriveSubmit
    <3>2. reg \in Gens /\ td[reg].phase \in {1, 2}
      BY <2>1 DEF ArriveSubmit, TypeOK, TaskData, Gens
    <3>3. reg' = reg
      BY <2>1 DEF ArriveSubmit
    <3>. DEFINE p == td[reg].phase
                n == IF Counted[p] = 0 THEN 1 ELSE 2
    <3>4. n \in 1..2 /\ (Counted[p] > 0 => n = 2)
      OBVIOUS
    <3>5. attempts' = [Counted EXCEPT ![p] = n] /\ p \in {1, 2}
      BY <3>1, <3>2
    <3>. HIDE DEF p, n
    <3>. QED BY <3>3, <3>4, <3>5 DEF Counts
  <2>2. CASE ArriveInit(r)
    BY <2>2 DEF ArriveInit
  <2>3. CASE ArriveExecute(r) \/ ArriveCleanup(r)
    BY <2>3 DEF ArriveExecute, ArriveCleanup, memory, Counts
  <2>. QED BY <1>3, <2>1, <2>2, <2>3 DEF Arrive
<1>4. ASSUME NEW r \in Req, Step(r)
      PROVE  \/ reg = 0 /\ attempts' = ZeroAttempts
             \/ reg' = reg /\ Counts
  <2>1. CASE Register(r)
    BY <2>1 DEF Register, SerialInv, InitProgress, InitPcs
  <2>2. CASE SnapshotClone(r)
    <3>1. pc[r] = "cloneCreate" /\ reg' = reg
      BY <2>2 DEF SnapshotClone
    <3>2. pc[r] \in SubmitPcs /\ pc[r] \in SnapshotPcs
      BY <3>1 DEF SubmitPcs, SnapshotPcs
    <3>3. call[r].gen = reg /\ reg \in Gens /\ td[reg].phase = 1
      BY <3>2, Known DEF SerialInv, SubmitProgress
    <3>4. CASE attempts' = attempts
      BY <3>1, <3>4 DEF Counts
    <3>5. CASE /\ attempts' = [attempts EXCEPT ![2] = 0]
               /\ td' = [td EXCEPT ![call[r].gen].phase = 2]
      <4>1. td'[reg].phase = 2
        BY <3>3, <3>5 DEF TypeOK, TaskData
      <4>. QED BY <3>1, <3>3, <3>5, <4>1 DEF Counts
    <3>. QED BY <2>2, <3>4, <3>5 DEF SnapshotClone
  <2>3. CASE CleanupPop(r)
    BY <2>3 DEF CleanupPop
  <2>4. CASE Judge(r) \/ SnapshotApply(r)
    BY <2>4 DEF Judge, SnapshotApply, Counts
  <2>5. CASE /\ ~Register(r) /\ ~SnapshotClone(r) /\ ~CleanupPop(r)
             /\ ~Judge(r) /\ ~SnapshotApply(r)
    <3>1. UNCHANGED <<reg, attempts>>
      BY <1>4, <2>5 DEF Step, memory, InitDrop, InitReset, InitClone, InitPreprocess,
         InitSnapshot, InitAbort, Execute, ExecuteError, SubmitReset, SubmitCreate,
         SubmitReplay, SubmitOpen, JudgeKilled, RestoreDrop, RestoreCreate, SnapshotDrop,
         SnapshotCreate, SnapshotClean, SnapshotCloneDrop, Infrastructure, CleanupDrop,
         Respond, ResetDrop, ResetCreate
    <3>. QED BY <3>1 DEF Counts
  <2>. QED BY <2>1, <2>2, <2>3, <2>4, <2>5
<1>. QED BY <1>1, <1>2, <1>3, <1>4 DEF Next

\* A client that waits for each answer never has a later try of a phase taken for
\* its first one: while the task stays registered in the phase, through clones,
\* failures and snapshots, no count falls (_submit_attempts).
THEOREM SerialAttempts == ASSUME Overlap = FALSE PROVE Spec => AttemptsNeverForgotten
<1>1. Init => Counting
  BY DEF Init, Counting
<1>2. TypeOK /\ SerialInv /\ Counting /\ [Next]_vars => Counting'
  <2>. SUFFICES ASSUME TypeOK, SerialInv, Counting, [Next]_vars, reg' # 0
                PROVE  attempts' \in [{1, 2} -> 0..2]
    BY DEF Counting
  <2>1. CASE reg = 0 /\ attempts' = ZeroAttempts
    BY <2>1 DEF ZeroAttempts
  <2>2. CASE reg' = reg /\ Counts
    BY <2>2 DEF Counts, Counting, Counted, ZeroAttempts
  <2>. QED BY <2>1, <2>2, CountsStep
<1>3. /\ TypeOK /\ SerialInv /\ Counting /\ [Next]_vars
      => [(reg # 0 /\ reg' = reg /\ td'[reg].phase = td[reg].phase)
            => \A p \in {1, 2} : attempts'[p] >= attempts[p]]_vars
  <2>. SUFFICES ASSUME TypeOK, SerialInv, Counting, [Next]_vars,
                       reg # 0, reg' = reg, td'[reg].phase = td[reg].phase,
                       NEW p \in {1, 2}
                PROVE  attempts'[p] >= attempts[p]
    OBVIOUS
  <2>1. attempts \in [{1, 2} -> 0..2] /\ Counts
    BY CountsStep DEF Counting
  <2>2. attempts # NoAttempts
    <3>1. DOMAIN NoAttempts = {}
      BY DEF NoAttempts
    <3>. QED BY <2>1, <3>1
  <2>3. Counted = attempts
    BY <2>2 DEF Counted
  <2>. QED BY <2>1, <2>3 DEF Counts
<1>4. TypeOK /\ SerialInv /\ [Next]_vars => SerialInv'
  BY SerialStep
<1>. QED
  BY <1>1, <1>2, <1>3, <1>4, SerialInit, TypeCorrect, PTL DEF Spec, AttemptsNeverForgotten
=============================================================================
