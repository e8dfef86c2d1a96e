------------------------- MODULE DbEnvironment_proofs -------------------------
(***************************************************************************)
(* Proofs about the DB Environment.  Type correctness holds whatever the   *)
(* clients do; the promises about what a submission is judged on hold when *)
(* clients send one request at a time (Overlap = FALSE), by the inductive  *)
(* invariant SerialInv: one request is in flight, and its program counter  *)
(* determines the contents of the databases it works on.                   *)
(***************************************************************************)
EXTENDS DbEnvironment, TLAPS

-----------------------------------------------------------------------------
(* Type correctness *)

\* Every set of effects the handlers write is one of the known contents.
LEMMA ContentTypes ==
    /\ NoDb \in Contents /\ {} \in Contents
    /\ \A c \in Contents \ {NoDb} : c \subseteq Effects /\ Cloned(c) \in Contents
    /\ \A c : c \subseteq Effects => c \in Contents
    /\ \A s \in Sqls : EffectOf(s) \subseteq Effects
    /\ Labels \subseteq Effects
BY ConstantsOK DEF NoDb, Effects, Labels, Cloned, EffectOf, Contents

\* Writing to an existing database, cloning one and dropping the task database.
LEMMA WriteTypes ==
    ASSUME TypeOK
    PROVE  /\ \A w : Exists("task") /\ w \subseteq Effects =>
                [db EXCEPT !["task"] = @ \cup w] \in [Names -> Contents]
           /\ \A m, n \in Names : Exists(n) =>
                [db EXCEPT ![m] = Cloned(db[n])] \in [Names -> Contents]
           /\ [db EXCEPT !["task"] = NoDb] \in [Names -> Contents]
<1>1. "task" \in Names /\ db \in [Names -> Contents]
  BY DEF Names, TypeOK
<1>2. ASSUME NEW w, Exists("task"), w \subseteq Effects
      PROVE  [db EXCEPT !["task"] = @ \cup w] \in [Names -> Contents]
  <2>1. db["task"] \cup w \subseteq Effects
    BY <1>1, <1>2, ContentTypes DEF Exists
  <2>2. db["task"] \cup w \in Contents
    BY <2>1, ContentTypes
  <2>3. QED BY <1>1, <2>2
<1>3. QED BY <1>1, <1>2, ContentTypes DEF Exists

\* Moving a request keeps the types, with or without closing the pool.
LEMMA GotoTypes ==
    ASSUME TypeOK, NEW r \in Req, NEW to \in Pcs
    PROVE  /\ Goto(r, to) => pc' \in [Req -> Pcs] /\ UNCHANGED <<call, base>>
           /\ GotoDisconnecting(r, to) => pc' \in [Req -> Pcs] /\ UNCHANGED <<call, base>>
<1>1. Disconnected \in [Req -> Pcs]
  BY DEF Disconnected, TypeOK, Pcs
<1>2. QED BY <1>1 DEF TypeOK, Goto, GotoDisconnecting

\* Both halves of a reset keep the types.
LEMMA ResetTypes ==
    ASSUME TypeOK, NEW r \in Req, NEW from, NEW to \in Pcs
    PROVE  /\ ResetDrop(r, from, to) => TypeOK'
           /\ \A source \in Contents : ResetCreate(r, from, source, to) => TypeOK'
<1>1. ASSUME ResetDrop(r, from, to) PROVE TypeOK'
  <2>1. db' \in [Names -> Contents] /\ pool' \in BOOLEAN
    BY <1>1, WriteTypes DEF ResetDrop, DropTask
  <2>2. QED BY <1>1, <2>1, GotoTypes DEF ResetDrop, TypeOK, memory
<1>2. ASSUME NEW source \in Contents, ResetCreate(r, from, source, to)
      PROVE  TypeOK'
  <2>1. db' \in [Names -> Contents]
    BY <1>2, ContentTypes DEF ResetCreate, TypeOK
  <2>2. QED BY <1>2, <2>1, GotoTypes DEF ResetCreate, TypeOK, memory
<1>3. QED BY <1>1, <1>2

LEMMA SourceTypes ==
    ASSUME TypeOK
    PROVE  /\ InitialSource \in Contents
           /\ \A p \in {1, 2} : ResetSource(p) \in Contents
           /\ Counted \in [{1, 2} -> 0..2]
BY ContentTypes DEF TypeOK, InitialSource, ResetSource, Names, Counted, ZeroAttempts

LEMMA TypeInit == Init => TypeOK
<1> SUFFICES ASSUME Init PROVE TypeOK
  OBVIOUS
<1>1. td \in [Gens -> TaskData]
  BY DEF Init, TaskData
<1>2. call \in [Req -> Call]
  BY ConstantsOK DEF Init, NoCall, Call
<1>3. pc \in [Req -> Pcs] /\ base \in [Req -> SUBSET Effects]
  BY DEF Init, Pcs
<1>4. db \in [Names -> Contents]
  BY ContentTypes DEF Init
<1>5. reg \in 0..MaxGen /\ nextGen \in 0..MaxGen
  BY ConstantsOK DEF Init
<1>6. QED BY <1>1, <1>2, <1>3, <1>4, <1>5 DEF Init, TypeOK

LEMMA TypeStep == TypeOK /\ EvaluatedWhereItRan /\ [Next]_vars => TypeOK'
<1> SUFFICES ASSUME TypeOK, EvaluatedWhereItRan, [Next]_vars PROVE TypeOK'
  OBVIOUS
<1> DEFINE DbType == db' \in [Names -> Contents]
<1> USE ContentTypes, SourceTypes, GotoTypes, WriteTypes DEF memory
<1>0. Answers \subseteq Pcs
  BY DEF Pcs
<1>1. CASE UNCHANGED vars
  BY <1>1 DEF vars, TypeOK
<1>2. CASE Crash
  <2>1. /\ call' \in [Req -> Call]
        /\ pc' \in [Req -> Pcs] /\ base' \in [Req -> SUBSET Effects]
    BY <1>2, ConstantsOK DEF Crash, NoCall, Pcs, Call
  <2>2. reg' \in 0..MaxGen
    BY <1>2, ConstantsOK DEF Crash
  <2>3. QED BY <1>2, <2>1, <2>2 DEF Crash, TypeOK
<1>3. ASSUME NEW r \in Req, Arrive(r) PROVE TypeOK'
  <2>0. /\ \A g \in 0..MaxGen :
             [NoCall EXCEPT !.gen = g] \in Call
        /\ {"initDrop", "execute", "cleanDrop", "reset"} \subseteq Pcs
    BY DEF NoCall, Call, Pcs
  <2>1. CASE ArriveInit(r)
    <3>1. nextGen' \in 0..MaxGen /\ reg' \in 0..MaxGen
      BY <2>1, ConstantsOK DEF ArriveInit, TypeOK
    <3>2. QED BY <2>0, <2>1, <3>1 DEF ArriveInit, TypeOK
  <2>2. CASE ArriveExecute(r) \/ ArriveCleanup(r)
    BY <2>0, <2>2 DEF ArriveExecute, ArriveCleanup, TypeOK
  <2>3. CASE ArriveSubmit(r)
    <3>1. reg \in Gens /\ td[reg].phase \in {1, 2}
      <4>1. reg \in Gens
        BY <2>3, ConstantsOK DEF ArriveSubmit, TypeOK, Gens
      <4>2. QED BY <4>1 DEF TypeOK, TaskData
    <3>2. PICK s \in Sqls :
            LET p == td[reg].phase
                n == IF Counted[p] = 0 THEN 1 ELSE 2
            IN  /\ attempts' = [Counted EXCEPT ![p] = n]
                /\ call' = [call EXCEPT ![r] = [gen |-> reg, phase |-> p, sql |-> s]]
                /\ pc' = [pc EXCEPT ![r] = "reset"]
                /\ UNCHANGED <<task, db, pool, reg, nextGen, td, accepted, base>>
      BY <2>3 DEF ArriveSubmit
    <3>3. attempts' \in [{1, 2} -> 0..2]
      BY <3>1, <3>2
    <3>4. call' \in [Req -> Call]
      BY <3>1, <3>2 DEF TypeOK, Call
    <3>5. QED BY <2>0, <3>2, <3>3, <3>4 DEF TypeOK
  <2>4. QED BY <1>3, <2>1, <2>2, <2>3 DEF Arrive
<1>4. ASSUME NEW r \in Req, Step(r) PROVE TypeOK'
  <2>0. /\ call[r].phase \in {1, 2}
        /\ call[r].gen \in 0..MaxGen
        /\ call[r].sql \in Sqls \cup {NoSql}
    BY DEF TypeOK, Call
  <2>1. CASE InitDrop(r)
    BY <2>1 DEF InitDrop, TypeOK, Pcs
  <2>2. CASE InitReset(r) \/ SubmitReset(r) \/ RestoreDrop(r) \/ SnapshotDrop(r)
    <3>1. {"initClone", "create", "restoreCreate", "snapCreate"} \subseteq Pcs
      BY DEF Pcs
    <3>2. QED BY <2>2, <3>1, ResetTypes
              DEF InitReset, SubmitReset, RestoreDrop, SnapshotDrop
  <2>3. CASE InitClone(r) \/ SubmitCreate(r) \/ RestoreCreate(r) \/ SnapshotCreate(r)
    <3>1. {"initPre", "register", "replay", "open", "snapApply", "failed"} \subseteq Pcs
      BY DEF Pcs, Answers
    <3>2. {} \in Contents
      BY DEF Contents
    <3>3. QED BY <2>0, <2>3, <3>1, <3>2, ResetTypes
              DEF InitClone, SubmitCreate, RestoreCreate, SnapshotCreate
  <2>4. CASE InitPreprocess(r)
    <3>1. DbType
      BY <2>4 DEF InitPreprocess, Labels
    <3>2. QED BY <2>4, <3>1 DEF InitPreprocess, TypeOK, Pcs
  <2>5. CASE InitSnapshot(r)
    <3>1. DbType
      BY <2>5 DEF InitSnapshot, Names
    <3>2. QED BY <2>5, <3>1 DEF InitSnapshot, TypeOK, Pcs
  <2>6. CASE InitAbort(r)
    <3>1. DbType
      BY <2>6 DEF InitAbort, TypeOK
    <3>2. QED BY <1>0, <2>6, <3>1 DEF InitAbort, TypeOK, Answers
  <2>7. CASE Register(r)
    <3>1. td' \in [Gens -> TaskData]
      BY <2>7 DEF Register, TypeOK, TaskData
    <3>2. attempts' \in [{1, 2} -> 0..2]
      BY <2>7 DEF Register, ZeroAttempts
    <3>3. QED BY <1>0, <2>0, <2>7, <3>1, <3>2 DEF Register, TypeOK, Answers
  <2>8. CASE Execute(r)
    <3>1. DbType
      <4>1. PICK written \in SUBSET {"explore"} :
              db' = [db EXCEPT !["task"] = @ \cup written]
        BY <2>8 DEF Execute
      <4>2. written \subseteq Effects
        BY <4>1 DEF Labels
      <4>3. QED BY <2>8, <4>1, <4>2 DEF Execute
    <3>2. QED BY <1>0, <2>8, <3>1 DEF Execute, TypeOK, Answers
  <2>9. CASE ExecuteError(r) \/ JudgeKilled(r)
    BY <1>0, <2>9 DEF ExecuteError, JudgeKilled, TypeOK, Answers
  <2>10. CASE SubmitReplay(r)
    <3>1. DbType /\ pool' \in BOOLEAN
      <4>1. {"stats"} \subseteq Effects
        BY DEF Labels
      <4>2. CASE td[call[r].gen].maint
        <5>1. /\ Exists("task") /\ pool' = TRUE
              /\ db' = [db EXCEPT !["task"] = @ \cup {"stats"}]
          BY <2>10, <4>2 DEF SubmitReplay
        <5>2. QED BY <4>1, <5>1
      <4>3. CASE ~td[call[r].gen].maint
        BY <2>10, <4>3 DEF SubmitReplay, TypeOK
      <4>4. QED BY <4>2, <4>3
    <3>2. QED BY <2>10, <3>1 DEF SubmitReplay, TypeOK, Pcs
  <2>11. CASE SubmitOpen(r)
    <3>1. EffectOf(call[r].sql) \subseteq Effects
      BY <2>0 DEF EffectOf, Effects, Labels
    <3>2. DbType
      BY <2>11, <3>1 DEF SubmitOpen
    <3>3. db["task"] \in SUBSET Effects
      BY <2>11 DEF SubmitOpen, Exists, TypeOK, Names
    <3>4. base' \in [Req -> SUBSET Effects]
      BY <2>11, <3>3 DEF SubmitOpen, TypeOK
    <3>5. QED BY <2>11, <3>2, <3>4 DEF SubmitOpen, TypeOK, Pcs
  <2>12. CASE Judge(r)
    <3>1. accepted' \in Sqls \cup {NoSql}
      BY <2>0, <2>12 DEF Judge, Rejected, PassedPhase1, PassedPhase2, TypeOK
    <3>2. pc' \in [Req -> Pcs] /\ UNCHANGED <<call, base>>
      BY <2>12 DEF Judge, Rejected, PassedPhase1, PassedPhase2, Pcs, Answers
    <3>3. DbType
      BY <2>12 DEF Judge, EvaluatedWhereItRan, Labels
    <3>4. QED BY <2>12, <3>1, <3>2, <3>3 DEF Judge, TypeOK
  <2>13. CASE SnapshotApply(r)
    <3>1. EffectOf(call[r].sql) \subseteq Effects
      BY <2>0 DEF EffectOf, Effects, Labels
    <3>2. DbType
      BY <2>13, <3>1 DEF SnapshotApply
    <3>3. td' \in [Gens -> TaskData]
      <4>1. \A d \in TaskData, b \in BOOLEAN : [d EXCEPT !.maint = b] \in TaskData
        BY DEF TaskData
      <4>2. (call[r].sql \in Analyzes) \in BOOLEAN
        OBVIOUS
      <4>3. td' = [td EXCEPT ![call[r].gen] =
                     [td[call[r].gen] EXCEPT !.maint = call[r].sql \in Analyzes]]
        BY <2>13 DEF SnapshotApply
      <4>4. call[r].gen \in Gens => td[call[r].gen] \in TaskData
        BY DEF TypeOK
      <4>5. call[r].gen \in Gens
              => [td[call[r].gen] EXCEPT !.maint = call[r].sql \in Analyzes] \in TaskData
        BY <4>1, <4>2, <4>4
      <4>6. QED BY <4>3, <4>5 DEF TypeOK
    <3>4. QED BY <2>13, <3>2, <3>3 DEF SnapshotApply, TypeOK, Pcs
  <2>14. CASE SnapshotClean(r)
    <3>1. DbType
      BY <2>14 DEF SnapshotClean, Labels
    <3>2. QED BY <2>14, <3>1 DEF SnapshotClean, TypeOK, Pcs
  <2>15. CASE SnapshotCloneDrop(r)
    BY <2>15 DEF SnapshotCloneDrop, TypeOK, Pcs
  <2>16. CASE SnapshotClone(r)
    <3>1. DbType
      BY <2>16 DEF SnapshotClone, Names
    <3>2. attempts' \in {NoAttempts} \cup [{1, 2} -> 0..2]
      BY <2>16 DEF SnapshotClone, TypeOK
    <3>3. td' \in [Gens -> TaskData]
      BY <2>16 DEF SnapshotClone, TypeOK, TaskData
    <3>4. QED BY <1>0, <2>16, <3>1, <3>2, <3>3 DEF SnapshotClone, TypeOK, Answers
  <2>17. CASE Infrastructure(r)
    BY <1>0, <2>17 DEF Infrastructure, TypeOK, Answers
  <2>18. CASE CleanupDrop(r)
    <3>1. DbType
      BY <2>18 DEF CleanupDrop, TypeOK
    <3>2. QED BY <2>18, <3>1 DEF CleanupDrop, TypeOK, Pcs
  <2>19. CASE CleanupPop(r)
    <3>1. reg' \in 0..MaxGen
      BY <2>19, ConstantsOK DEF CleanupPop
    <3>2. QED BY <1>0, <2>19, <3>1 DEF CleanupPop, TypeOK, Answers
  <2>20. CASE Respond(r)
    <3>1. /\ pc' \in [Req -> Pcs] /\ base' \in [Req -> SUBSET Effects]
          /\ call' \in [Req -> Call]
      BY <2>20, ConstantsOK DEF Respond, TypeOK, Pcs, NoCall, Call
    <3>2. QED BY <2>20, <3>1 DEF Respond, TypeOK
  <2>21. QED
    BY <1>4, <2>1, <2>2, <2>3, <2>4, <2>5, <2>6, <2>7, <2>8, <2>9, <2>10, <2>11, <2>12,
       <2>13, <2>14, <2>15, <2>16, <2>17, <2>18, <2>19, <2>20
    DEF Step
<1>5. QED BY <1>1, <1>2, <1>3, <1>4 DEF Next

LEMMA EvaluatedStep ==
    TypeOK /\ EvaluatedWhereItRan /\ [Next]_vars => EvaluatedWhereItRan'
<1> SUFFICES ASSUME TypeOK, EvaluatedWhereItRan, [Next]_vars,
                    NEW s \in Req, pc'[s] = "judge"
             PROVE  /\ db'["task"] # NoDb
                    /\ base'[s] \cup EffectOf(call'[s].sql) \subseteq db'["task"]
  BY DEF EvaluatedWhereItRan, Exists
<1> USE DEF memory, Goto, GotoDisconnecting, Answers
<1>0. "task" \in Names /\ "task" # "initial" /\ "task" # "phase1" /\ "absent" \notin Effects
  BY ConstantsOK DEF Names, Effects, NoSql, Labels
<1> DEFINE Kept == /\ pc[s] = "judge" /\ base'[s] = base[s] /\ call'[s] = call[s]
                   /\ db'["task"] = db["task"]
           Grown(w) == /\ pc[s] = "judge" /\ base'[s] = base[s] /\ call'[s] = call[s]
                       /\ w \subseteq Effects /\ db'["task"] = db["task"] \cup w
           Goal == /\ db'["task"] # NoDb
                   /\ base'[s] \cup EffectOf(call'[s].sql) \subseteq db'["task"]
<1>1. Kept => Goal
  BY DEF EvaluatedWhereItRan, Exists
<1>2. \A w : Grown(w) => Goal
  <2> SUFFICES ASSUME NEW w, Grown(w) PROVE Goal
    OBVIOUS
  <2>1. /\ db["task"] # NoDb
        /\ base[s] \cup EffectOf(call[s].sql) \subseteq db["task"]
    BY DEF EvaluatedWhereItRan, Exists
  <2>2. db["task"] \subseteq Effects
    BY <1>0, <2>1, ContentTypes DEF TypeOK
  <2>3. QED BY <1>0, <2>1, <2>2 DEF NoDb
<1>3. pc[s] = "judge" => db["task"] # NoDb
  BY DEF EvaluatedWhereItRan, Exists
<1>4. \A r \in Req : \A from, to : to # "judge" /\ ResetDrop(r, from, to) => Goal
  BY DEF ResetDrop, Disconnected, TypeOK
<1>5. \A r \in Req : \A from, source, to : to # "judge" /\ ResetCreate(r, from, source, to) => Goal
  BY <1>3 DEF ResetCreate, Exists, TypeOK
<1>6. CASE UNCHANGED vars
  BY <1>1, <1>6 DEF vars
<1>7. CASE Crash
  BY <1>7 DEF Crash
<1>8. ASSUME NEW r \in Req, Arrive(r) PROVE Goal
  <2>1. pc'[s] = pc[s] /\ base'[s] = base[s] /\ call'[s] = call[s] /\ db' = db
    BY <1>8 DEF Arrive, ArriveInit, ArriveExecute, ArriveSubmit, ArriveCleanup, MayArrive,
                TypeOK
  <2>2. QED BY <1>1, <2>1
<1>9. ASSUME NEW r \in Req, Step(r) PROVE Goal
  <2>1. CASE InitReset(r) \/ SubmitReset(r) \/ RestoreDrop(r) \/ SnapshotDrop(r)
    BY <1>4, <2>1 DEF InitReset, SubmitReset, RestoreDrop, SnapshotDrop
  <2>2. CASE InitClone(r) \/ SubmitCreate(r) \/ RestoreCreate(r) \/ SnapshotCreate(r)
    BY <1>5, <2>2 DEF InitClone, SubmitCreate, RestoreCreate, SnapshotCreate
  <2>3. CASE InitDrop(r) \/ InitAbort(r) \/ CleanupDrop(r) \/ SnapshotClean(r)
    BY <2>3 DEF InitDrop, InitAbort, CleanupDrop, SnapshotClean, Disconnected, TypeOK
  <2>4. CASE InitPreprocess(r)
    <3>1. Grown({"pre"})
      BY <1>0, <2>4, ContentTypes DEF InitPreprocess, Disconnected, TypeOK, Labels
    <3>2. QED BY <1>2, <3>1
  <2>5. CASE InitSnapshot(r) \/ SnapshotCloneDrop(r) \/ SnapshotClone(r)
    BY <1>0, <1>1, <2>5 DEF InitSnapshot, SnapshotCloneDrop, SnapshotClone, TypeOK
  <2>6. CASE Register(r) \/ ExecuteError(r) \/ JudgeKilled(r) \/ CleanupPop(r)
    BY <1>1, <2>6 DEF Register, ExecuteError, JudgeKilled, CleanupPop, TypeOK
  <2>7. CASE Respond(r)
    <3>1. s # r
      BY <2>7 DEF Respond, TypeOK
    <3>2. QED BY <1>1, <2>7, <3>1 DEF Respond, TypeOK
  <2>8. CASE Infrastructure(r)
    BY <1>1, <2>8 DEF Infrastructure, Disconnected, TypeOK
  <2>9. CASE Execute(r)
    <3>1. PICK w \in SUBSET {"explore"} : db' = [db EXCEPT !["task"] = @ \cup w]
      BY <2>9 DEF Execute
    <3>2. w \subseteq Effects
      BY <3>1, ContentTypes DEF Labels
    <3>3. QED BY <1>0, <1>2, <2>9, <3>1, <3>2 DEF Execute, TypeOK
  <2>10. CASE SubmitReplay(r)
    <3>1. CASE td[call[r].gen].maint
      <4>1. Grown({"stats"})
        BY <1>0, <2>10, <3>1, ContentTypes DEF SubmitReplay, TypeOK, Labels
      <4>2. QED BY <1>2, <4>1
    <3>2. CASE ~td[call[r].gen].maint
      BY <1>1, <2>10, <3>2 DEF SubmitReplay, TypeOK
    <3>3. QED BY <3>1, <3>2
  <2>11. CASE SubmitOpen(r)
    <3>1. EffectOf(call[r].sql) \subseteq Effects
      BY ContentTypes DEF EffectOf, Effects, Labels, TypeOK, Call
    <3>2. db'["task"] = db["task"] \cup EffectOf(call[r].sql) /\ db["task"] # NoDb
      BY <1>0, <2>11 DEF SubmitOpen, Exists, TypeOK
    <3>3. CASE s = r
      <4>1. base'[s] = db["task"] /\ call'[s] = call[s]
        BY <2>11, <3>3 DEF SubmitOpen, TypeOK
      <4>2. db["task"] \subseteq Effects
        BY <1>0, <3>2, ContentTypes DEF TypeOK
      <4>3. QED BY <1>0, <3>1, <3>2, <3>3, <4>1, <4>2 DEF NoDb
    <3>4. CASE s # r
      BY <1>2, <2>11, <3>1, <3>2, <3>4 DEF SubmitOpen, TypeOK
    <3>5. QED BY <3>3, <3>4
  <2>12. CASE Judge(r)
    <3>1. s # r /\ pc'[s] = pc[s] /\ UNCHANGED <<call, base>>
      BY <2>12 DEF Judge, Rejected, PassedPhase1, PassedPhase2, TypeOK
    <3>2. Grown({"tested"})
      BY <1>0, <2>12, <3>1, ContentTypes DEF Judge, TypeOK, Labels
    <3>3. QED BY <1>2, <3>2
  <2>13. CASE SnapshotApply(r)
    <3>1. EffectOf(call[r].sql) \subseteq Effects
      BY ContentTypes DEF EffectOf, Effects, Labels, TypeOK, Call
    <3>2. QED BY <1>0, <1>2, <2>13, <3>1 DEF SnapshotApply, TypeOK
  <2>14. QED
    BY <1>9, <2>1, <2>2, <2>3, <2>4, <2>5, <2>6, <2>7, <2>8, <2>9, <2>10, <2>11, <2>12, <2>13
    DEF Step
<1>10. QED BY <1>6, <1>7, <1>8, <1>9 DEF Next

\* Whatever the clients do and whenever it crashes, the service's state is well
\* typed: in particular no command writes to a database that is missing.
THEOREM TypeCorrect == Spec => []TypeOK
<1>1. Init => EvaluatedWhereItRan
  BY DEF Init, EvaluatedWhereItRan
<1>2. QED BY <1>1, TypeInit, TypeStep, EvaluatedStep, PTL DEF Spec

\* However many requests compete for the task, a verdict is reached on the
\* database the submitted SQL ran on (the session termination of the resets).
THEOREM VerdictsOnOwnDatabase == Spec => []EvaluatedWhereItRan
<1>1. Init => EvaluatedWhereItRan
  BY DEF Init, EvaluatedWhereItRan
<1>2. QED BY <1>1, TypeInit, TypeStep, EvaluatedStep, PTL DEF Spec

=============================================================================
