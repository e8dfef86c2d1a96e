-------------------------- MODULE AInteract_proofs --------------------------
(* Theorems about the course of one a-interact task, for every value of the  *)
(* constants: the types, that the session never gets ahead of the services,  *)
(* what is scored after a failure, which submissions are paid for, and that  *)
(* a task without lost answers, parallel calls and fallback implements       *)
(* TaskScore.                                                                *)
EXTENDS AInteract, TLAPS

-----------------------------------------------------------------------------
(* The operators on a session *)

\* Counting, charging and crediting keep a session a session, as long as a
\* charge is covered and a turn is counted below the cap.
LEMMA CountedType ==
    ASSUME NEW t \in Sessions, t.turns <= MaxTurns
    PROVE  Counted(t) \in Sessions
BY AInteractAssumption DEF Counted, Sessions

LEMMA ChargeType ==
    ASSUME NEW t \in Sessions, NEW cost \in Nat, cost <= t.budget
    PROVE  Charge(t, cost) \in Sessions
BY AInteractAssumption DEF Charge, Sessions

LEMMA ChargeSubmitType ==
    ASSUME NEW t \in Sessions
    PROVE  ChargeSubmit(t) \in Sessions
BY AInteractAssumption DEF ChargeSubmit, SubmitCost, Sessions

LEMMA ChargeSubmitKeeps ==
    ASSUME NEW t \in Sessions
    PROVE  /\ ChargeSubmit(t).phase = t.phase
           /\ ChargeSubmit(t).reward = t.reward
           /\ ChargeSubmit(t).p1 <=> t.p1
           /\ ChargeSubmit(t).p2 <=> t.p2
           /\ ChargeSubmit(t).done <=> t.done
BY DEF ChargeSubmit, Sessions

LEMMA CreditType ==
    ASSUME NEW t \in Sessions, NEW p \in {1, 2}, followUp \in BOOLEAN
    PROVE  Credit(t, p) \in Sessions
<1>. DEFINE q1 == t.p1 \/ p = 1
            q2 == t.p2 \/ p = 2
            d == t.done \/ p = 2 \/ ~followUp
            r == t.reward + Rewards[p]
<1>1. q1 \in BOOLEAN /\ q2 \in BOOLEAN /\ d \in BOOLEAN
  OBVIOUS
<1>2. r \in Nat
  BY DEF Rewards, Sessions
<1>3. Credit(t, p) = [t EXCEPT !.reward = r, !.p1 = q1, !.p2 = q2, !.phase = 2, !.done = d]
  BY DEF Credit
<1>. HIDE DEF q1, q2, d, r
<1>. QED
  BY <1>1, <1>2, <1>3 DEF Sessions

LEMMA CreditEffect ==
    ASSUME NEW t \in Sessions, NEW p \in {1, 2}, followUp \in BOOLEAN
    PROVE  /\ Credit(t, p).reward = t.reward + Rewards[p]
           /\ Credit(t, p).phase = 2
           /\ Credit(t, p).p1 <=> t.p1 \/ p = 1
           /\ Credit(t, p).p2 <=> t.p2 \/ p = 2
           /\ Credit(t, p).done <=> t.done \/ p = 2 \/ ~followUp
BY DEF Credit, Sessions

LEMMA ScoredType ==
    ASSUME NEW t \in Sessions
    PROVE  Scored(t) \in Scores
<1>1. Spent(t) \in 0..Budget0
  BY AInteractAssumption DEF Spent, Sessions
<1>. QED
  BY <1>1 DEF Scored, Scores, Sessions

Services == [live : BOOLEAN, phase : {1, 2}, p1 : BOOLEAN, p2 : BOOLEAN]

\* What an accepted submission does to the service's record of the task.
LEMMA AcceptedType ==
    ASSUME srv \in Services, followUp \in BOOLEAN
    PROVE  Accepted \in Services
BY DEF Accepted, Services

LEMMA AcceptedEffect ==
    ASSUME srv \in Services, followUp \in BOOLEAN
    PROVE  /\ Accepted.p1 <=> srv.p1 \/ srv.phase = 1
           /\ Accepted.p2 <=> srv.p2 \/ srv.phase = 2
           /\ Accepted.phase = IF srv.phase = 1 /\ ~followUp THEN 1 ELSE 2
BY DEF Accepted, Services

-----------------------------------------------------------------------------
(* Types *)

LEMMA InitType == Init => TypeOK
<1>. SUFFICES ASSUME Init PROVE TypeOK
  OBVIOUS
<1>1. NewSession \in Sessions
  BY AInteractAssumption DEF NewSession, Sessions
<1>2. srv \in [live : BOOLEAN, phase : {1, 2}, p1 : BOOLEAN, p2 : BOOLEAN]
  BY DEF Init
<1>3. /\ failed \subseteq {"primary", "fallback"} /\ followUp \in BOOLEAN
      /\ handed \in Scores \cup {Null} /\ subs \in Nat
  BY DEF Init
<1>4. /\ batch \in 0..Batch /\ lost \in 0..MaxLost /\ late \in 0..lost
      /\ sim \in 0..2 /\ ~(batch > 0)
  BY AInteractAssumption DEF Init
<1>. QED
  BY <1>1, <1>2, <1>3, <1>4 DEF Init, TypeOK

\* The type invariant holds of every task: no refused call is charged, no
\* budget falls below the signal, and a turn's calls are all accounted for.
THEOREM TypeCorrect == Spec => []TypeOK
<1>1. Init => TypeOK
  BY InitType
<1>2. TypeOK /\ [Next]_vars => TypeOK'
  <2>. SUFFICES ASSUME TypeOK, [Next]_vars PROVE TypeOK'
    OBVIOUS
  <2>. USE AInteractAssumption DEF history
  <2>a. s \in Sessions /\ s.budget \in -1..Budget0 /\ s.turns \in 0..(MaxTurns + 1)
    BY DEF TypeOK, Sessions
  <2>b. Raise => s' \in Sessions /\ saved' \in Sessions \cup {Null}
                   /\ pc' \in {"cleanup", "returned"} /\ batch' = 0
    BY DEF Raise, TypeOK
  <2>c. ToolReturns /\ pc = "tools" =>
            batch' \in 0..Batch /\ pc' \in {"model", "tools"}
              /\ ((pc' = "tools") <=> (batch' > 0)) /\ saved' = saved
    BY DEF ToolReturns, TypeOK
  <2>d. srv \in Services /\ Accepted \in Services
    BY AcceptedType DEF TypeOK, Services
  <2>e. failed \cup {Session} \subseteq {"primary", "fallback"} /\ subs + 1 \in Nat
    BY DEF TypeOK, Session
  <2>1. CASE InitDb
    BY <2>1 DEF InitDb, TypeOK
  <2>2. CASE InitSim
    BY <2>2 DEF InitSim, TypeOK
  <2>3. CASE InitSession
    BY <2>3 DEF InitSession, TypeOK
  <2>4. CASE ModelTurn
    <3>1. s' \in Sessions
      <4>1. CASE s.turns > MaxTurns
        BY <2>4, <2>a, <4>1 DEF ModelTurn
      <4>2. CASE ~(s.turns > MaxTurns)
        BY <2>4, <2>a, <4>2, CountedType DEF ModelTurn
      <4>. QED BY <4>1, <4>2
    <3>. QED BY <2>4, <3>1 DEF ModelTurn, TypeOK
  <2>5. CASE ModelFails
    BY <2>5, <2>b, <2>e DEF ModelFails, TypeOK
  <2>6. CASE Explore
    <3>1. s' \in Sessions
      <4>. PICK c \in ExploreCosts : s' = IF Refused(c) THEN s ELSE Charge(s, c)
        BY <2>6 DEF Explore
      <4>. QED BY <2>a, ChargeType DEF Refused, ExploreCosts
    <3>. QED BY <2>6, <2>c, <3>1 DEF Explore, TypeOK
  <2>7. CASE Ask
    <3>1. s' \in Sessions
      BY <2>7, <2>a, ChargeType DEF Ask, Refused, AskCost
    <3>. QED BY <2>7, <2>c, <3>1 DEF Ask, TypeOK
  <2>8. CASE AskFails
    <3>1. Charge(s, AskCost) \in Sessions
      BY <2>8, <2>a, ChargeType DEF AskFails, Refused, AskCost
    <3>2. [Charge(s, AskCost) EXCEPT !.infra = TRUE] \in Sessions
      BY <3>1 DEF Sessions
    <3>3. s' \in Sessions /\ saved' \in Sessions \cup {Null} /\ batch' \in 0..Batch
             /\ pc' \in {"model", "tools", "cleanup", "returned"}
             /\ ((pc' = "tools") <=> (batch' > 0))
      <4>1. CASE s' = [Charge(s, AskCost) EXCEPT !.infra = TRUE] /\ ToolReturns
        BY <2>8, <2>c, <3>2, <4>1 DEF AskFails, TypeOK
      <4>2. CASE Raise
        BY <2>b, <4>2
      <4>. QED BY <2>8, <4>1, <4>2 DEF AskFails
    <3>. QED BY <2>8, <2>e, <3>3 DEF AskFails, TypeOK
  <2>9. CASE Submit
    <3>1. s' \in Sessions
      <4>1. srv.phase \in {1, 2} /\ followUp \in BOOLEAN
        BY DEF TypeOK
      <4>2. ChargeSubmit(s) \in Sessions
        BY <2>a, ChargeSubmitType
      <4>3. Credit(ChargeSubmit(s), srv.phase) \in Sessions
        BY <4>1, <4>2, CreditType
      <4>. QED BY <2>9, <4>2, <4>3 DEF Submit
    <3>2. sim' \in 0..2
      BY <2>9 DEF Submit, Transition, TypeOK
    <3>3. srv' \in Services
      BY <2>9, <2>d DEF Submit
    <3>. QED BY <2>9, <2>c, <2>e, <3>1, <3>2, <3>3 DEF Submit, TypeOK, Services
  <2>10. CASE SubmitFails
    BY <2>10, <2>b, <2>e DEF SubmitFails, TypeOK
  <2>11. CASE SubmitLost
    <3>1. s' \in Sessions
      BY <2>11, <2>a, ChargeSubmitType DEF SubmitLost
    <3>2. srv' \in Services
      BY <2>11, <2>d DEF SubmitLost
    <3>. QED BY <2>11, <2>c, <2>e, <3>1, <3>2 DEF SubmitLost, TypeOK, Services
  <2>12. CASE StartFallback
    <3>1. FallbackState \in Sessions
      BY <2>a DEF FallbackState, Sessions
    <3>2. Scored(s) \in Scores
      BY <2>a, ScoredType
    <3>. QED BY <2>12, <3>1, <3>2 DEF StartFallback, TypeOK
  <2>13. CASE Return
    BY <2>13 DEF Return, TypeOK
  <2>14. CASE LateVerdict
    BY <2>14, <2>d DEF LateVerdict, TypeOK, Services
  <2>15. CASE RunRequestFails
    BY <2>15 DEF RunRequestFails, TypeOK
  <2>16. CASE Record
    <3>1. Scored(s) \in Scores
      BY <2>a, ScoredType
    <3>. QED BY <2>16, <3>1 DEF Record, TypeOK
  <2>17. CASE Cleanup
    BY <2>17 DEF Cleanup, TypeOK
  <2>18. CASE UNCHANGED vars
    BY <2>18 DEF vars, TypeOK
  <2>. QED
    BY <2>1, <2>2, <2>3, <2>4, <2>5, <2>6, <2>7, <2>8, <2>9, <2>10, <2>11,
       <2>12, <2>13, <2>14, <2>15, <2>16, <2>17, <2>18
    DEF Next, Agent, Orchestrator, Over
<1>. QED
  BY <1>1, <1>2, PTL DEF Spec

-----------------------------------------------------------------------------
(* The session stays behind the services *)

\* What a session state claims of the service: passes, and the open phase 2.
Claims(t) ==
    /\ t.p1 => srv.p1
    /\ t.p2 => srv.p2
    /\ t.phase = 2 /\ followUp => srv.phase = 2

\* The inductive invariant.  The copy kept for a fallback that raises has to
\* stay behind the service as well.
Behind ==
    /\ TypeOK
    /\ Claims(s)
    /\ saved # Null => Claims(saved)
    /\ srv.p2 => srv.p1
    /\ srv.phase = 2 => srv.p1
    /\ sim = 2 => srv.phase = 2

\* Whatever is lost, late, retried or rolled back, the session and the simulator
\* never get ahead of the DB service (submit_sql, phase_transition, the fallback).
THEOREM PhasesNeverAhead == Spec => []PhasesEarned
<1>1. Init => Behind
  BY InitType DEF Init, Behind, Claims, NewSession
<1>2. Behind /\ TypeOK' /\ [Next]_vars => Behind'
  <2>. SUFFICES ASSUME Behind, TypeOK', [Next]_vars PROVE Behind'
    OBVIOUS
  <2>. USE AInteractAssumption DEF history
  <2>a. /\ TypeOK /\ s \in Sessions /\ srv \in Services
        /\ followUp \in BOOLEAN /\ srv.phase \in {1, 2}
        /\ s.phase \in {1, 2}
    BY DEF Behind, TypeOK, Services, Sessions
  <2>1. \/ srv'.p1 = srv.p1 /\ srv'.p2 = srv.p2 /\ srv'.phase = srv.phase
        \/ srv' = Accepted
    BY <2>a DEF Next, Agent, Orchestrator, Over, vars, Services, InitDb, InitSim,
       InitSession, ModelTurn, ModelFails, Explore, Ask, AskFails, Submit, SubmitFails,
       SubmitLost, LateVerdict, StartFallback, Return, RunRequestFails, Record, Cleanup
  <2>2. followUp' = followUp
    BY DEF Next, Agent, Orchestrator, Over, vars, InitDb, InitSim,
       InitSession, ModelTurn, ModelFails, Explore, Ask, AskFails, Submit, SubmitFails,
       SubmitLost, LateVerdict, StartFallback, Return, RunRequestFails, Record, Cleanup
  <2>3. /\ srv.p1 => srv'.p1
        /\ srv.p2 => srv'.p2
        /\ srv.phase = 2 => srv'.phase = 2
        /\ srv'.p2 => srv'.p1
        /\ srv'.phase = 2 => srv'.p1
    BY <2>1, <2>a, AcceptedEffect DEF Behind
  <2>. DEFINE Still(t) == /\ t.p1 => srv'.p1
                          /\ t.p2 => srv'.p2
                          /\ t.phase = 2 /\ followUp' => srv'.phase = 2
              Agrees(t) == /\ s'.p1 <=> t.p1
                           /\ s'.p2 <=> t.p2
                           /\ s'.phase = t.phase
  <2>4. Still(s) /\ (saved # Null => Still(saved))
    BY <2>2, <2>3 DEF Behind, Claims
  <2>5. ModelTurn => Agrees(s)
    BY <2>a DEF ModelTurn, Counted, Sessions
  <2>6. \A c \in Nat : LET u == Charge(s, c) IN
            (u.p1 <=> s.p1) /\ (u.p2 <=> s.p2) /\ u.phase = s.phase
    BY <2>a DEF Charge, Sessions
  <2>7. Explore => Agrees(s)
    BY <2>6 DEF Explore, ExploreCosts
  <2>8. Ask => Agrees(s)
    BY <2>6 DEF Ask, AskCost
  <2>9. Raise => Agrees(s) \/ (saved # Null /\ Agrees(saved))
    BY DEF Raise
  <2>10. AskFails => Agrees(s) \/ (saved # Null /\ Agrees(saved))
    <3>1. LET u == [Charge(s, AskCost) EXCEPT !.infra = TRUE] IN
            (u.p1 <=> s.p1) /\ (u.p2 <=> s.p2) /\ u.phase = s.phase
      BY <2>a DEF Charge, AskCost, Sessions
    <3>. QED BY <3>1, <2>9 DEF AskFails
  <2>11. SubmitLost => Agrees(s)
    BY <2>a, ChargeSubmitKeeps DEF SubmitLost
  <2>12. StartFallback => Agrees(s) /\ saved' = s'
    BY <2>a DEF StartFallback, FallbackState, Sessions
  <2>13. Submit => Claims(s)'
    <3>. SUFFICES ASSUME Submit PROVE Claims(s)'
      OBVIOUS
    <3>. PICK passed \in BOOLEAN :
            /\ srv' = IF passed THEN Accepted ELSE srv
            /\ s' = IF passed THEN Credit(ChargeSubmit(s), srv.phase) ELSE ChargeSubmit(s)
      BY DEF Submit
    <3>1. CASE ~passed
      <4>1. Agrees(s)
        BY <2>a, <3>1, ChargeSubmitKeeps
      <4>. QED BY <4>1, <2>4 DEF Claims
    <3>2. CASE passed
      <4>1. ChargeSubmit(s) \in Sessions
        BY <2>a, ChargeSubmitType
      <4>2. /\ s'.p1 <=> s.p1 \/ srv.phase = 1
            /\ s'.p2 <=> s.p2 \/ srv.phase = 2
        BY <2>a, <3>2, <4>1, ChargeSubmitKeeps, CreditEffect
      <4>3. srv' = Accepted
        BY <3>2
      <4>. QED BY <2>a, <2>2, <2>4, <4>2, <4>3, AcceptedEffect DEF Claims
    <3>. QED BY <3>1, <3>2
  <2>14. Submit \/ Agrees(s) \/ (saved # Null /\ Agrees(saved))
    BY <2>5, <2>7, <2>8, <2>9, <2>10, <2>11, <2>12
    DEF Next, Agent, Orchestrator, Over, vars, InitDb, InitSim, InitSession, ModelFails,
        SubmitFails, LateVerdict, Return, RunRequestFails, Record, Cleanup
  <2>15. Claims(s)'
    BY <2>4, <2>13, <2>14 DEF Claims
  <2>16. saved' = saved \/ saved' = Null \/ saved' = s'
    BY <2>12
    DEF Next, Agent, Orchestrator, Over, vars, InitDb, InitSim,
        InitSession, ModelTurn, ModelFails, Explore, Ask, AskFails, Submit, SubmitFails,
        SubmitLost, LateVerdict, Return, RunRequestFails, Record, Cleanup,
        Raise, ToolReturns
  <2>17. saved' # Null => Claims(saved)'
    BY <2>4, <2>15, <2>16 DEF Claims
  <2>18. sim' = 2 => srv'.phase = 2
    <3>1. CASE Submit
      <4>. PICK passed \in BOOLEAN :
            /\ srv' = IF passed THEN Accepted ELSE srv
            /\ sim' \in Transition(passed)
        BY <3>1 DEF Submit
      <4>1. CASE passed /\ srv.phase = 1 /\ followUp
        BY <2>a, <4>1, AcceptedEffect
      <4>2. CASE ~(passed /\ srv.phase = 1 /\ followUp)
        <5>1. sim' = sim
          BY <4>2 DEF Transition
        <5>. QED BY <5>1, <2>3 DEF Behind
      <4>. QED BY <4>1, <4>2
    <3>2. CASE ~Submit
      <4>1. sim' = sim \/ sim' = 1
        BY <3>2 DEF Next, Agent, Orchestrator, Over, vars, InitDb, InitSim,
           InitSession, ModelTurn, ModelFails, Explore, Ask, AskFails, SubmitFails,
           SubmitLost, LateVerdict, StartFallback, Return, RunRequestFails, Record, Cleanup
      <4>. QED BY <4>1, <2>3 DEF Behind
    <3>. QED BY <3>1, <3>2
  <2>. QED
    BY <2>3, <2>15, <2>17, <2>18 DEF Behind
<1>. QED
  BY <1>1, <1>2, TypeCorrect, PTL DEF Spec, Behind, PhasesEarned, Claims

-----------------------------------------------------------------------------
(* Failures of the services, and what is scored after them *)

Ending == {"cleanup", "end"}

\* The inductive invariant: a failure stays marked in the session, the copy kept
\* for a fallback that raises included, or is undone by going back to that copy.
Marked ==
    /\ saved # Null => Scored(saved) = handed
    /\ "primary" \in failed =>
          pc \in Ending \/ (s.infra /\ (saved # Null => saved.infra))
    /\ "fallback" \in failed =>
          pc \in Ending \/ s.infra \/ (pc = "returned" /\ Scored(s) = handed)
    /\ result # Null => pc \in Ending
    /\ OutageNotCounted

\* The step records no failure, hands nothing over and leaves the mark alone.
Quiet ==
    /\ UNCHANGED <<failed, handed, result>>
    /\ saved' \in {saved, Null}
    /\ s'.infra = s.infra
    /\ pc \in Ending => pc' \in Ending
    /\ pc = "returned" => pc' \in Ending \/ UNCHANGED <<pc, s>>

LEMMA QuietSteps ==
    ASSUME TypeOK, [Next]_vars
    PROVE  Quiet \/ ModelFails \/ AskFails \/ SubmitFails \/ StartFallback \/ Record
<1>. USE DEF history, Ending
<1>a. s \in Sessions /\ srv.phase \in {1, 2} /\ followUp \in BOOLEAN
  BY DEF TypeOK
<1>1. \A c \in Nat : Charge(s, c).infra = s.infra
  BY <1>a DEF Charge, Sessions
<1>2. ModelTurn => Quiet
  <2>1. Counted(s).infra = s.infra
    BY <1>a DEF Counted, Sessions
  <2>. QED BY <2>1 DEF ModelTurn, Quiet
<1>3. Explore => Quiet
  BY <1>1 DEF Explore, ExploreCosts, ToolReturns, Quiet
<1>4. Ask => Quiet
  BY <1>1 DEF Ask, AskCost, ToolReturns, Quiet
<1>5. ChargeSubmit(s) \in Sessions /\ ChargeSubmit(s).infra = s.infra
  BY <1>a, ChargeSubmitType DEF ChargeSubmit, Sessions
<1>6. Submit => Quiet
  <2>1. Credit(ChargeSubmit(s), srv.phase).infra = s.infra
    BY <1>5 DEF Credit, Sessions
  <2>. QED BY <1>5, <2>1 DEF Submit, ToolReturns, Quiet
<1>7. SubmitLost => Quiet
  BY <1>5 DEF SubmitLost, ToolReturns, Quiet
<1>8. InitDb \/ InitSim \/ InitSession \/ Cleanup => Quiet
  BY DEF InitDb, InitSim, InitSession, Cleanup, Quiet
<1>9. LateVerdict \/ Return \/ RunRequestFails \/ UNCHANGED vars => Quiet
  BY DEF LateVerdict, Return, RunRequestFails, vars, Quiet
<1>. QED
  BY <1>2, <1>3, <1>4, <1>6, <1>7, <1>8, <1>9 DEF Next, Agent, Orchestrator, Over

\* Going back to the primary's copy, or ending the run, settles a failure.
LEMMA RaiseSettles ==
    ASSUME TypeOK, Marked, Raise, pc \notin Ending,
           failed' = failed \cup {Session}, UNCHANGED <<result, handed>>
    PROVE  Marked'
<1>1. CASE saved = Null
  BY <1>1 DEF Raise, Marked, Ending, OutageNotCounted
<1>2. CASE saved # Null
  BY <1>2 DEF Raise, Marked, Ending, OutageNotCounted, Session
<1>. QED
  BY <1>1, <1>2

\* With or without the fallback, however many calls a turn makes and whatever is
\* lost or late, no failure of a service or of the model is scored as the agent's
\* own (ask_user, submit_sql, _run_native_fallback, run_single_task).
THEOREM OutagesNotCounted == Spec => []OutageNotCounted
<1>1. Init => Marked
  BY DEF Init, Marked, OutageNotCounted
<1>2. TypeOK /\ Marked /\ [Next]_vars => Marked'
  <2>. SUFFICES ASSUME TypeOK, Marked, [Next]_vars PROVE Marked'
    OBVIOUS
  <2>a. s \in Sessions
    BY DEF TypeOK
  <2>1. CASE Quiet
    BY <2>1 DEF Quiet, Marked, Ending, OutageNotCounted, Scored, Spent
  <2>2. CASE ModelFails
    BY <2>2, RaiseSettles DEF ModelFails, Ending
  <2>3. CASE SubmitFails
    BY <2>3, RaiseSettles DEF SubmitFails, Ending
  <2>4. CASE AskFails
    <3>1. CASE Raise
      BY <2>4, <3>1, RaiseSettles DEF AskFails, Ending
    <3>2. CASE s' = [Charge(s, AskCost) EXCEPT !.infra = TRUE] /\ ToolReturns
      <4>1. s'.infra
        BY <2>a, <3>2 DEF Charge, AskCost, Sessions
      <4>2. /\ saved' = saved /\ handed' = handed /\ result' = result
            /\ failed' = failed \cup {Session} /\ pc \notin Ending
        BY <2>4, <3>2 DEF AskFails, ToolReturns, Ending
      <4>3. result' = Null
        BY <4>2 DEF Marked
      <4>4. "primary" \in failed' => (saved # Null => saved.infra)
        BY <4>2 DEF Marked, Session
      <4>. QED BY <4>1, <4>2, <4>3, <4>4 DEF Marked, OutageNotCounted, Scored, Spent
    <3>. QED BY <2>4, <3>1, <3>2 DEF AskFails
  <2>5. CASE StartFallback
    <3>1. FallbackState.infra = s.infra /\ Scored(FallbackState) = Scored(s)
      BY <2>a DEF FallbackState, Scored, Spent, Sessions
    <3>2. /\ s' = FallbackState /\ saved' = FallbackState /\ handed' = Scored(s)
          /\ failed' = failed /\ result' = result /\ pc = "ended" /\ saved = Null
      BY <2>5 DEF StartFallback
    <3>3. Scored(saved)' = handed'
      BY <3>1, <3>2 DEF Scored, Spent
    <3>. QED BY <3>1, <3>2, <3>3 DEF Marked, Ending, OutageNotCounted
  <2>6. CASE Record
    <3>1. /\ pc = "returned" /\ pc' = "cleanup" /\ UNCHANGED <<s, saved, failed, handed>>
          /\ result' = IF s.infra THEN Null ELSE Scored(s)
      BY <2>6 DEF Record, history
    <3>2. OutageNotCounted'
      BY <3>1 DEF Marked, Ending, OutageNotCounted
    <3>3. (saved # Null => Scored(saved) = handed)'
      BY <3>1 DEF Marked, Scored, Spent
    <3>. QED BY <3>1, <3>2, <3>3 DEF Marked, Ending
  <2>. QED BY <2>1, <2>2, <2>3, <2>4, <2>5, <2>6, QuietSteps
<1>3. Marked => OutageNotCounted
  BY DEF Marked
<1>. QED
  BY <1>1, <1>2, <1>3, TypeCorrect, PTL DEF Spec

-----------------------------------------------------------------------------
(* Submissions and the budget *)

Before == {"dbInit", "simInit", "session"}
Running == {"model", "tools", "ended"}

\* The inductive invariant: while the budget lasts, what is spent covers the
\* submissions made; once it has run out, each further one is a call of the turn
\* in which it did.
Paid ==
    /\ pc \in Before => subs = 0 /\ s.budget = Budget0
    /\ pc \in Running /\ s.budget >= 0 =>
          /\ SubmitCost * subs <= Budget0 - s.budget
          /\ SubmitCost * subs < Budget0
    /\ pc \in Running /\ s.budget < 0 =>
          SubmitCost * subs < Budget0 + SubmitCost * (Batch - batch)
    /\ SubmissionsPaid

\* What a submission does to the balance, whatever comes of it.
LEMMA SubmissionPaid ==
    ASSUME TypeOK, Paid, pc = "tools", ToolReturns,
           subs' = subs + 1, s'.budget = ChargeSubmit(s).budget
    PROVE  Paid'
<1>. USE AInteractAssumption DEF SubmitCost, Before, Running
<1>a. /\ s \in Sessions /\ s.budget \in Int /\ subs \in Nat /\ batch \in Nat
      /\ batch > 0 /\ batch <= Batch /\ Budget0 \in Nat /\ Batch \in Nat
  BY DEF TypeOK, Sessions
<1>b. batch' = batch - 1 /\ pc' \in {"model", "tools"}
  BY DEF ToolReturns
<1>1. s'.budget = IF s.budget > 6 THEN s.budget - 6 ELSE -1
  BY <1>a DEF ChargeSubmit, Sessions
<1>2. CASE s.budget > 6
  BY <1>a, <1>b, <1>1, <1>2 DEF Paid, SubmissionsPaid
<1>3. CASE s.budget >= 0 /\ s.budget <= 6
  BY <1>a, <1>b, <1>1, <1>3 DEF Paid, SubmissionsPaid
<1>4. CASE s.budget < 0
  BY <1>a, <1>b, <1>1, <1>4 DEF Paid, SubmissionsPaid
<1>. QED
  BY <1>a, <1>2, <1>3, <1>4

\* A call that is refused or charged like an exploration.
LEMMA OtherCallPaid ==
    ASSUME TypeOK, Paid, pc = "tools", ToolReturns, subs' = subs,
           NEW c \in Nat, s'.budget = s.budget \/ (s.budget >= c /\ s'.budget = s.budget - c)
    PROVE  Paid'
<1>. USE AInteractAssumption DEF SubmitCost, Before, Running
<1>a. /\ s.budget \in Int /\ subs \in Nat /\ batch \in Nat
      /\ batch > 0 /\ batch <= Batch /\ Budget0 \in Nat /\ Batch \in Nat
  BY DEF TypeOK, Sessions
<1>b. batch' = batch - 1 /\ pc' \in {"model", "tools"}
  BY DEF ToolReturns
<1>. QED
  BY <1>a, <1>b DEF Paid, SubmissionsPaid

\* For every budget, turn cap and batch, with the fallback, failing services and
\* lost answers: only the calls of the turn in which the budget runs out are
\* submitted without being paid for (before_tool_callback, before_model_callback,
\* start_fallback_state).
THEOREM AllSubmissionsPaid == Spec => []SubmissionsPaid
<1>1. Init => Paid
  BY AInteractAssumption
  DEF Init, NewSession, Paid, SubmissionsPaid, Before, Running, SubmitCost
<1>2. TypeOK /\ TypeOK' /\ Paid /\ [Next]_vars => Paid'
  <2>. SUFFICES ASSUME TypeOK, TypeOK', Paid, [Next]_vars PROVE Paid'
    OBVIOUS
  <2>. USE AInteractAssumption DEF history
  <2>a. /\ s \in Sessions /\ s.budget \in Int /\ subs \in Nat /\ batch \in Nat
        /\ Budget0 \in Nat /\ Batch \in Nat /\ batch <= Batch
        /\ pc = "tools" <=> batch > 0
    BY DEF TypeOK, Sessions
  <2>b. \A c \in Nat : Charge(s, c).budget = s.budget - c
    BY <2>a DEF Charge, Sessions
  <2>1. CASE Submit
    <3>1. Credit(ChargeSubmit(s), srv.phase).budget = ChargeSubmit(s).budget
      BY <2>a, ChargeSubmitType DEF Credit, Sessions
    <3>2. s'.budget = ChargeSubmit(s).budget
      BY <2>1, <3>1 DEF Submit
    <3>. QED BY <2>1, <3>2, SubmissionPaid DEF Submit
  <2>2. CASE SubmitLost
    <3>1. s'.budget = ChargeSubmit(s).budget
      BY <2>2 DEF SubmitLost
    <3>. QED BY <2>2, <3>1, SubmissionPaid DEF SubmitLost
  <2>3. CASE SubmitFails
    BY <2>3, <2>a DEF SubmitFails, Raise, Paid, SubmissionsPaid, Before, Running, SubmitCost
  <2>4. CASE Explore
    <3>. PICK c \in ExploreCosts : s' = IF Refused(c) THEN s ELSE Charge(s, c)
      BY <2>4 DEF Explore
    <3>1. s'.budget = s.budget \/ (s.budget >= c /\ s'.budget = s.budget - c)
      BY <2>a, <2>b DEF Refused, ExploreCosts
    <3>. QED BY <2>4, <3>1, OtherCallPaid DEF Explore, ExploreCosts
  <2>5. CASE Ask
    <3>1. s'.budget = s.budget \/ (s.budget >= 4 /\ s'.budget = s.budget - 4)
      BY <2>5, <2>a, <2>b DEF Ask, Refused, AskCost
    <3>. QED BY <2>5, <3>1, OtherCallPaid DEF Ask
  <2>6. CASE AskFails
    <3>1. CASE Raise
      BY <2>6, <3>1 DEF AskFails, Raise, Paid, SubmissionsPaid, Before, Running
    <3>2. CASE s' = [Charge(s, AskCost) EXCEPT !.infra = TRUE] /\ ToolReturns
      <4>1. s'.budget = s.budget - 4 /\ s.budget >= 4
        BY <2>6, <2>a, <3>2 DEF AskFails, Refused, Charge, AskCost, Sessions
      <4>. QED BY <2>6, <3>2, <4>1, OtherCallPaid DEF AskFails
    <3>. QED BY <2>6, <3>1, <3>2 DEF AskFails
  <2>7. CASE ModelTurn
    <3>1. s'.budget = s.budget
      BY <2>7, <2>a DEF ModelTurn, Counted, Sessions
    <3>2. s.budget < 0 => batch' = 0
      BY <2>7, <2>a DEF ModelTurn, Stopped, Counted, Sessions
    <3>. QED BY <2>7, <2>a, <3>1, <3>2
         DEF ModelTurn, Paid, SubmissionsPaid, Before, Running, SubmitCost
  <2>8. CASE StartFallback
    <3>1. s'.budget = s.budget
      BY <2>8, <2>a DEF StartFallback, FallbackState, Sessions
    <3>. QED BY <2>8, <3>1 DEF StartFallback, Paid, SubmissionsPaid, Before, Running
  <2>9. CASE InitSession
    BY <2>9, <2>a DEF InitSession, Paid, SubmissionsPaid, Before, Running, SubmitCost
  <2>10. CASE ModelFails
    BY <2>10 DEF ModelFails, Raise, Paid, SubmissionsPaid, Before, Running
  <2>11. CASE InitDb \/ InitSim
    BY <2>11 DEF InitDb, InitSim, Paid, SubmissionsPaid, Before, Running
  <2>12. CASE Return \/ RunRequestFails \/ Record \/ Cleanup
    BY <2>12 DEF Return, RunRequestFails, Record, Cleanup, Paid, SubmissionsPaid, Before, Running
  <2>13. CASE LateVerdict \/ UNCHANGED vars
    BY <2>13 DEF LateVerdict, vars, Paid, SubmissionsPaid
  <2>. QED BY <2>1, <2>2, <2>3, <2>4, <2>5, <2>6, <2>7, <2>8, <2>9, <2>10, <2>11, <2>12, <2>13
       DEF Next, Agent, Orchestrator, Over
<1>3. Paid => SubmissionsPaid
  BY DEF Paid
<1>. QED
  BY <1>1, <1>2, <1>3, TypeCorrect, PTL DEF Spec

-----------------------------------------------------------------------------
(* A task without lost answers, parallel calls and fallback keeps the promise *)
(* of TaskScore                                                               *)

Plain == Batch = 1 /\ MaxLost = 0 /\ Fallback = FALSE

\* The inductive invariant: the session knows what the service accepted, a task
\* is done when its last phase is, and no tool runs on a task that is done.
InStep ==
    /\ TypeOK
    /\ saved = Null
    /\ s.p1 <=> srv.p1
    /\ s.p2 <=> srv.p2
    /\ srv.phase = 2 <=> srv.p1 /\ followUp
    /\ srv.p2 => srv.p1
    /\ s.done <=> IF followUp THEN srv.p2 ELSE srv.p1
    /\ pc = "tools" => ~s.done
    /\ result # Null => pc \in {"cleanup", "end"}

\* No submission is pending on the service, and the fallback never starts.
LEMMA PlainSteps ==
    ASSUME Plain, TypeOK
    PROVE  ~SubmitLost /\ ~LateVerdict /\ ~StartFallback
BY AInteractAssumption DEF Plain, TypeOK, SubmitLost, LateVerdict, StartFallback, Eligible

\* A tool call of a turn of one call is its last.
LEMMA PlainReturns ==
    ASSUME Plain, TypeOK, pc = "tools", ToolReturns
    PROVE  pc' = "model" /\ saved' = saved
BY DEF Plain, TypeOK, ToolReturns

\* The step leaves the phases, the completion and the reward as they are.
Untouched ==
    /\ s'.p1 <=> s.p1
    /\ s'.p2 <=> s.p2
    /\ s'.done <=> s.done
    /\ s'.reward = s.reward
    /\ srv'.p1 <=> srv.p1
    /\ srv'.p2 <=> srv.p2
    /\ srv'.phase = srv.phase
    /\ saved' = Null
    /\ pc \in {"cleanup", "end"} => pc' \in {"cleanup", "end"} /\ result' = result
    /\ pc' = "tools" => ~s.done
    /\ result' # result => pc' = "cleanup"

\* A submission passes: the service and the session book the same phase.
Passes ==
    /\ pc = "tools" /\ pc' = "model" /\ result' = result
    /\ saved' = Null
    /\ srv' = Accepted
    /\ s'.p1 <=> s.p1 \/ srv.phase = 1
    /\ s'.p2 <=> s.p2 \/ srv.phase = 2
    /\ s'.done <=> s.done \/ srv.phase = 2 \/ ~followUp
    /\ s'.reward = s.reward + Rewards[srv.phase]

\* Every step of such a task is one or the other.
LEMMA StepKinds ==
    ASSUME Plain, InStep, [Next]_vars
    PROVE  followUp' = followUp /\ (Untouched \/ Passes)
<1>. USE AInteractAssumption DEF history
<1>a. /\ TypeOK /\ s \in Sessions /\ srv \in Services /\ saved = Null
      /\ followUp \in BOOLEAN /\ srv.phase \in {1, 2}
  BY DEF InStep, TypeOK, Services
<1>1. \A c \in Nat : LET u == Charge(s, c) IN
          /\ (u.p1 <=> s.p1) /\ (u.p2 <=> s.p2) /\ (u.done <=> s.done)
          /\ u.reward = s.reward
  BY <1>a DEF Charge, Sessions
<1>2. Raise => pc' = "cleanup" /\ s' = s /\ saved' = Null
  BY <1>a DEF Raise
<1>3. CASE InitDb
  BY <1>a, <1>3 DEF InitDb, InStep, Untouched, Services
<1>4. CASE InitSim
  BY <1>a, <1>4 DEF InitSim, InStep, Untouched
<1>5. CASE InitSession
  BY <1>a, <1>5 DEF InitSession, InStep, Untouched
<1>6. CASE ModelTurn
  <2>1. /\ s'.p1 <=> s.p1
        /\ s'.p2 <=> s.p2
        /\ s'.done <=> s.done
        /\ s'.reward = s.reward
    BY <1>a, <1>6 DEF ModelTurn, Counted, Sessions
  <2>2. pc' = "tools" => ~s.done
    BY <1>a, <1>6 DEF ModelTurn, Stopped, Counted, Sessions
  <2>. QED BY <1>a, <1>6, <2>1, <2>2 DEF ModelTurn, Untouched
<1>7. CASE ModelFails
  BY <1>a, <1>2, <1>7 DEF ModelFails, Untouched
<1>8. CASE Explore
  BY <1>a, <1>1, <1>8, PlainReturns DEF Explore, ExploreCosts, Untouched
<1>9. CASE Ask
  BY <1>a, <1>1, <1>9, PlainReturns DEF Ask, AskCost, Untouched
<1>10. CASE AskFails
  <2>1. CASE s' = [Charge(s, AskCost) EXCEPT !.infra = TRUE] /\ ToolReturns
    <3>1. LET u == [Charge(s, AskCost) EXCEPT !.infra = TRUE] IN
            /\ (u.p1 <=> s.p1) /\ (u.p2 <=> s.p2) /\ (u.done <=> s.done)
            /\ u.reward = s.reward
      BY <1>a DEF Charge, AskCost, Sessions
    <3>. QED BY <1>a, <1>10, <2>1, <3>1, PlainReturns DEF AskFails, Untouched
  <2>2. CASE Raise
    BY <1>a, <1>2, <1>10, <2>2 DEF AskFails, Untouched
  <2>. QED BY <1>10, <2>1, <2>2 DEF AskFails
<1>11. CASE Submit
  <2>. PICK passed \in BOOLEAN :
          /\ srv' = IF passed THEN Accepted ELSE srv
          /\ s' = IF passed THEN Credit(ChargeSubmit(s), srv.phase) ELSE ChargeSubmit(s)
    BY <1>11 DEF Submit
  <2>1. pc = "tools" /\ pc' = "model" /\ saved' = Null /\ result' = result /\ followUp' = followUp
    BY <1>a, <1>11, PlainReturns DEF Submit
  <2>2. CASE passed
    <3>1. ChargeSubmit(s) \in Sessions
      BY <1>a, ChargeSubmitType
    <3>2. /\ s'.p1 <=> s.p1 \/ srv.phase = 1
          /\ s'.p2 <=> s.p2 \/ srv.phase = 2
          /\ s'.done <=> s.done \/ srv.phase = 2 \/ ~followUp
          /\ s'.reward = s.reward + Rewards[srv.phase]
      BY <1>a, <2>2, <3>1, ChargeSubmitKeeps, CreditEffect
    <3>. QED BY <2>1, <2>2, <3>2 DEF Passes
  <2>3. CASE ~passed
    BY <1>a, <2>1, <2>3, ChargeSubmitKeeps DEF Untouched
  <2>. QED BY <2>2, <2>3
<1>12. CASE SubmitFails
  BY <1>a, <1>2, <1>12 DEF SubmitFails, Untouched
<1>13. CASE Return
  BY <1>a, <1>13 DEF Return, Untouched
<1>14. CASE RunRequestFails
  BY <1>a, <1>14 DEF RunRequestFails, Untouched
<1>15. CASE Record
  BY <1>a, <1>15 DEF Record, Untouched
<1>16. CASE Cleanup
  BY <1>a, <1>16 DEF Cleanup, Untouched, Services
<1>17. CASE UNCHANGED vars
  BY <1>a, <1>17 DEF vars, Untouched, InStep
<1>. QED
  BY <1>a, <1>3, <1>4, <1>5, <1>6, <1>7, <1>8, <1>9, <1>10, <1>11, <1>12, <1>13,
     <1>14, <1>15, <1>16, <1>17, PlainSteps
  DEF Next, Agent, Orchestrator, Over

LEMMA InStepInvariant == ASSUME Plain PROVE Spec => []InStep
<1>1. Init => InStep
  BY InitType DEF Init, InStep, NewSession
<1>2. InStep /\ TypeOK' /\ [Next]_vars => InStep'
  <2>. SUFFICES ASSUME InStep, TypeOK', [Next]_vars PROVE InStep'
    OBVIOUS
  <2>a. followUp' = followUp /\ (Untouched \/ Passes)
    BY StepKinds
  <2>b. srv \in Services /\ followUp \in BOOLEAN /\ srv.phase \in {1, 2}
    BY DEF InStep, TypeOK, Services
  <2>1. CASE Untouched
    BY <2>a, <2>1 DEF InStep, Untouched
  <2>2. CASE Passes
    <3>1. /\ srv'.p1 <=> srv.p1 \/ srv.phase = 1
          /\ srv'.p2 <=> srv.p2 \/ srv.phase = 2
          /\ srv'.phase = IF srv.phase = 1 /\ ~followUp THEN 1 ELSE 2
      BY <2>b, <2>2, AcceptedEffect DEF Passes
    <3>. QED BY <2>a, <2>b, <2>2, <3>1 DEF InStep, Passes
  <2>. QED BY <2>a, <2>1, <2>2
<1>. QED
  BY <1>1, <1>2, TypeCorrect, PTL DEF Spec

\* The phases the service accepted, as the refinement maps them.
Taken == {p \in {1, 2} : IF p = 1 THEN srv.p1 ELSE srv.p2}

\* Without lost answers, parallel calls and fallback, whatever fails, a task
\* credits each phase once and in order, and is scored with what the service
\* accepted or not at all (run_single_task, submit_sql, _submit_sql_sync).
THEOREM ScoreImplemented == ASSUME Plain PROVE Spec => ImplementsScore
<1>1. Init => Score!Init
  BY DEF Init, Score!Init, NewSession
<1>2. InStep /\ InStep' /\ [Next]_vars => [Score!Next]_(Score!vars)
  <2>. SUFFICES ASSUME InStep, InStep', [Next]_vars PROVE [Score!Next]_(Score!vars)
    OBVIOUS
  <2>. DEFINE verdict == IF result # Null THEN "scored"
                         ELSE IF pc \in {"cleanup", "end"} THEN "void" ELSE "open"
  <2>a. srv \in Services /\ followUp \in BOOLEAN /\ srv.phase \in {1, 2}
    BY DEF InStep, TypeOK, Services
  <2>1. CASE Untouched
    <3>1. Taken' = Taken
      BY <2>1 DEF Untouched, Taken
    <3>2. verdict' = verdict \/ (verdict = "open" /\ verdict' \in {"scored", "void"})
      BY <2>1 DEF Untouched, InStep
    <3>. QED BY <2>1, <3>1, <3>2 DEF Untouched, Taken, Score!Next, Score!Conclude, Score!vars
  <2>2. CASE Passes
    <3>1. verdict = "open" /\ verdict' = "open"
      BY <2>2 DEF Passes, InStep
    <3>2. srv.phase \notin Taken /\ (srv.phase = 2 => 1 \in Taken)
      BY <2>a, <2>2 DEF Passes, InStep, Taken
    <3>3. Taken' = Taken \cup {srv.phase}
      BY <2>a, <2>2, AcceptedEffect DEF Passes, Taken
    <3>4. s'.reward = s.reward + Score!Prize(srv.phase)
      BY <2>a, <2>2 DEF Passes, Rewards, Score!Prize
    <3>5. \E p \in {1, 2} : Score!Accept(p)
      BY <2>a, <3>1, <3>2, <3>3, <3>4 DEF Score!Accept, Taken
    <3>. QED BY <3>5 DEF Score!Next
  <2>. QED BY <2>1, <2>2, StepKinds
<1>. QED
  BY <1>1, <1>2, InStepInvariant, PTL DEF Spec, ImplementsScore, Score!Spec
=============================================================================
