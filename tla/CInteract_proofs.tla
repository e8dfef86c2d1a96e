-------------------------- MODULE CInteract_proofs --------------------------
(* Theorems about the course of one c-interact task, for every value of the  *)
(* constants: the types, that a scored task claims what the DB service       *)
(* accepted, that the services and the agent work on one phase, and that no  *)
(* run is over before the model was called.                                  *)
EXTENDS CInteract, TLAPS

-----------------------------------------------------------------------------
(* The operators on a session and on the service's record of the task *)

LEMMA CreditType ==
    ASSUME NEW t \in Sessions, NEW p \in {1, 2}, NEW r \in Nat, followUp \in BOOLEAN
    PROVE  Credit(t, p, r) \in Sessions
<1>. DEFINE q1 == t.p1 \/ p = 1
            q2 == t.p2 \/ p = 2
            d == t.done \/ p = 2 \/ ~followUp
            w == t.reward + r
<1>1. q1 \in BOOLEAN /\ q2 \in BOOLEAN /\ d \in BOOLEAN
  OBVIOUS
<1>2. w \in Nat
  BY DEF Sessions
<1>3. Credit(t, p, r) = [t EXCEPT !.p1 = q1, !.p2 = q2, !.reward = w, !.done = d]
  BY DEF Credit
<1>. HIDE DEF q1, q2, d, w
<1>. QED
  BY <1>1, <1>2, <1>3 DEF Sessions

LEMMA CreditEffect ==
    ASSUME NEW t \in Sessions, NEW p \in {1, 2}, NEW r \in Nat, followUp \in BOOLEAN
    PROVE  /\ Credit(t, p, r).p1 <=> t.p1 \/ p = 1
           /\ Credit(t, p, r).p2 <=> t.p2 \/ p = 2
           /\ Credit(t, p, r).reward = t.reward + r
BY DEF Credit, Sessions

\* Marking a session as submitted changes nothing else.
LEMMA SubmittedEffect ==
    ASSUME NEW t \in Sessions
    PROVE  /\ Submitted(t) \in Sessions
           /\ Submitted(t).p1 = t.p1
           /\ Submitted(t).p2 = t.p2
           /\ Submitted(t).reward = t.reward
BY DEF Submitted, Sessions

\* A rejected submission is only counted as a try.
LEMMA JudgedEffect ==
    ASSUME srv \in Services
    PROVE  /\ Judged \in Services
           /\ Judged.phase = srv.phase
           /\ Judged.p1 = srv.p1
           /\ Judged.p2 = srv.p2
           /\ Judged.awarded = srv.awarded
BY DEF Judged, Services

\* An accepted one passes the phase the service was in, and opens the follow-up.
LEMMA AcceptedEffect ==
    ASSUME srv \in Services, followUp \in BOOLEAN
    PROVE  /\ Accepted \in Services
           /\ Accepted.p1 <=> srv.p1 \/ srv.phase = 1
           /\ Accepted.p2 <=> srv.p2 \/ srv.phase = 2
           /\ Accepted.phase = IF srv.phase = 1 /\ ~followUp THEN 1 ELSE 2
           /\ Accepted.awarded - srv.awarded \in Nat
<1>. DEFINE r == Reward(srv.phase, ~srv.tried[srv.phase])
            opened == IF followUp THEN 2 ELSE 1
            counted == IF followUp THEN FALSE ELSE Judged.tried[2]
<1>1. r \in Nat
  BY DEF Reward
<1>2. opened \in {1, 2} /\ counted \in BOOLEAN
  BY JudgedEffect DEF Services
<1>3. srv.phase \in {1, 2} /\ srv.awarded \in Nat
  BY DEF Services
<1>. DEFINE j == Judged
<1>j. /\ j \in Services /\ j.phase = srv.phase /\ j.p1 = srv.p1 /\ j.p2 = srv.p2
      /\ j.awarded = srv.awarded /\ j.tried \in [{1, 2} -> BOOLEAN]
  BY JudgedEffect DEF Services
<1>4. CASE srv.phase = 1
  <2>. DEFINE tries == [j.tried EXCEPT ![2] = counted]
              a == j.awarded + r
  <2>0. tries \in [{1, 2} -> BOOLEAN] /\ a \in Nat
    <3>. HIDE DEF j, r, counted
    <3>. QED BY <1>1, <1>2, <1>3, <1>j
  <2>1. Accepted = [j EXCEPT !.p1 = TRUE, !.awarded = a, !.phase = opened,
                             !.tried = tries]
    BY <1>4 DEF Accepted
  <2>a. a = srv.awarded + r
    BY <1>j
  <2>. HIDE DEF r, opened, counted, j, tries, a
  <2>2. /\ Accepted \in Services
        /\ Accepted.p1 = TRUE
        /\ Accepted.p2 = srv.p2
        /\ Accepted.phase = opened
        /\ Accepted.awarded = srv.awarded + r
    BY <1>j, <1>2, <2>0, <2>1, <2>a DEF Services
  <2>. QED
    BY <1>1, <1>3, <1>4, <2>2 DEF opened
<1>5. CASE srv.phase = 2
  <2>. DEFINE a == j.awarded + r
  <2>0. a \in Nat
    BY <1>1, <1>3, <1>j
  <2>1. Accepted = [j EXCEPT !.p2 = TRUE, !.awarded = a]
    BY <1>5 DEF Accepted
  <2>a. a = srv.awarded + r
    BY <1>j
  <2>. HIDE DEF r, j, a
  <2>2. /\ Accepted \in Services
        /\ Accepted.p1 = srv.p1
        /\ Accepted.p2 = TRUE
        /\ Accepted.phase = 2
        /\ Accepted.awarded = srv.awarded + r
    BY <1>j, <1>5, <2>0, <2>1, <2>a DEF Services
  <2>. QED
    BY <1>1, <1>3, <1>5, <2>2
<1>. QED
  BY <1>3, <1>4, <1>5

\* What a verdict does to the session and to the service, on either outcome.
LEMMA SubmitEffect ==
    ASSUME TypeOK, Submit
    PROVE  /\ s' \in Sessions /\ srv' \in Services
           /\ \/ /\ srv' = Judged
                 /\ s'.p1 = s.p1 /\ s'.p2 = s.p2 /\ s'.reward = s.reward
                 /\ sim' = sim
              \/ /\ srv' = Accepted
                 /\ s'.p1 <=> s.p1 \/ srv.phase = 1
                 /\ s'.p2 <=> s.p2 \/ srv.phase = 2
                 /\ s'.reward = s.reward + (srv'.awarded - srv.awarded)
                 /\ sim' \in {sim, 2}
<1>. USE DEF TypeOK
<1>0. srv.phase \in {1, 2}
  BY DEF Services
<1>1. CASE srv' = Judged /\ s' = Submitted(s) /\ UNCHANGED simVars
  BY <1>1, JudgedEffect, SubmittedEffect DEF simVars
<1>2. CASE /\ srv' = Accepted
           /\ s' = Submitted(Credit(s, srv.phase, srv'.awarded - srv.awarded))
           /\ sim' \in {sim, 2}
  <2>. DEFINE r == Accepted.awarded - srv.awarded
              c == Credit(s, srv.phase, r)
  <2>1. r \in Nat
    BY AcceptedEffect
  <2>2. /\ c \in Sessions
        /\ c.p1 <=> s.p1 \/ srv.phase = 1
        /\ c.p2 <=> s.p2 \/ srv.phase = 2
        /\ c.reward = s.reward + r
    <3>. HIDE DEF r
    <3>. QED BY <1>0, <2>1, CreditType, CreditEffect
  <2>3. s' = Submitted(c)
    BY <1>2
  <2>4. s' \in Sessions /\ s'.p1 = c.p1 /\ s'.p2 = c.p2 /\ s'.reward = c.reward
    <3>. HIDE DEF c
    <3>. QED BY <2>2, <2>3, SubmittedEffect
  <2>. QED
    BY <1>2, <2>2, <2>4, AcceptedEffect
<1>. QED
  BY <1>1, <1>2 DEF Submit, Transit, simVars

LEMMA ReturnType ==
    ASSUME TypeOK, ToolReturns, pc \in {"tools", "asking"}
    PROVE  /\ batch' \in 0..Batch /\ pc' \in {"model", "tools"}
           /\ (pc' \in {"tools", "asking"}) <=> (batch' > 0)
           /\ result' = result
BY CInteractAssumption DEF ToolReturns, TypeOK

-----------------------------------------------------------------------------
(* Types *)

LEMMA InitType == Init => TypeOK
<1>. SUFFICES ASSUME Init PROVE TypeOK
  OBVIOUS
<1>1. s \in Sessions
  BY CInteractAssumption DEF Init, NewSession, Sessions
<1>2. srv \in Services
  BY DEF Init, Services
<1>3. late \in 0..lost /\ lost \in 0..MaxLost /\ batch \in 0..Batch /\ ~(batch > 0)
  BY CInteractAssumption DEF Init
<1>4. pc = "dbInit" /\ followUp \in BOOLEAN /\ leg \in 1..4 /\ verdicts \in Nat
  BY DEF Init
<1>5. sim \in 0..2 /\ ask = Null
  BY DEF Init, SimInit
<1>8. result = Null /\ called \in BOOLEAN
  <2>1. called = FALSE /\ result = Null
    BY DEF Init
  <2>. QED BY <2>1
<1>6. pc \notin {"tools", "asking"} /\ pc # "asking"
  BY <1>4
<1>7. /\ pc \in {"dbInit", "simInit", "session", "start", "model", "tools", "asking",
               "returned", "transition", "cleanup", "end"}
      /\ ask \in Questions \cup {Null}
      /\ result \in {Null, Error} \cup [p1 : BOOLEAN, p2 : BOOLEAN, reward : Nat]
  BY <1>4, <1>5, <1>8
<1>. QED
  BY <1>1, <1>2, <1>3, <1>4, <1>5, <1>6, <1>7, <1>8 DEF TypeOK

\* The simulator's own steps keep its question a question.
LEMMA CallType ==
    ASSUME TypeOK, Call
    PROVE  ask' \in Questions
<1>. USE UserSimulatorAssumption DEF Questions
<1>1. ask \in Questions /\ sim \in 0..2 /\ 1 \in 1..MaxAttempts
  BY DEF Call, TypeOK
<1>2. StageDone \in Questions
  <2>1. [ask EXCEPT !.stage = "generate", !.attempt = 1, !.generated = sim] \in Questions
    BY <1>1
  <2>2. [ask EXCEPT !.stage = "answer"] \in Questions
    BY <1>1
  <2>. QED BY <2>1, <2>2 DEF StageDone
<1>3. [ask EXCEPT !.stage = "failed"] \in Questions
  BY <1>1
<1>4. ask.attempt < MaxAttempts => [ask EXCEPT !.attempt = @ + 1] \in Questions
  BY <1>1
<1>. QED
  BY <1>2, <1>3, <1>4 DEF Call

\* The type invariant holds of every task: the tools of a turn are all accounted
\* for, a question has an attempt within the limit, and no more submissions are
\* still to be judged than were lost.
THEOREM TypeCorrect == Spec => []TypeOK
<1>1. Init => TypeOK
  BY InitType
<1>2. TypeOK /\ [Next]_vars => TypeOK'
  <2>. SUFFICES ASSUME TypeOK, [Next]_vars PROVE TypeOK'
    OBVIOUS
  <2>. USE CInteractAssumption
  <2>1. CASE InitDb
    <3>1. srv' \in Services
      BY <2>1 DEF InitDb, TypeOK, Services
    <3>. QED BY <2>1, <3>1 DEF InitDb, TypeOK, simVars, history
  <2>2. CASE InitSim
    BY <2>2 DEF InitSim, Register, TypeOK, simVars, db, history
  <2>3. CASE InitSession
    BY <2>3 DEF InitSession, Raise, TypeOK, simVars, db, history
  <2>4. CASE StartRun
    <3>1. s' \in Sessions
      BY <2>4 DEF StartRun, ResetFlag, TypeOK, Sessions
    <3>. QED BY <2>4, <3>1 DEF StartRun, TypeOK, simVars, task, db
  <2>5. CASE Decide
    <3>1. Scored(s, leg) \in [p1 : BOOLEAN, p2 : BOOLEAN, reward : Nat]
      BY DEF Scored, TypeOK, Sessions
    <3>. QED BY <2>5, <3>1 DEF Decide, TypeOK, simVars, db, history
  <2>6. CASE Transition
    BY <2>6 DEF Transition, Transit, Raise, TypeOK, simVars, db, history
  <2>7. CASE Cleanup
    <3>1. srv' \in Services
      BY <2>7 DEF Cleanup, TypeOK, Services
    <3>. QED BY <2>7, <3>1 DEF Cleanup, TypeOK, simVars, task, history
  <2>8. CASE ModelTurn
    <3>1. s' \in Sessions
      BY <2>8 DEF ModelTurn, TypeOK, Sessions
    <3>2. /\ batch' \in 0..Batch /\ called' \in BOOLEAN
          /\ pc' \in {"returned", "tools"}
          /\ (pc' = "tools") <=> (batch' > 0)
      <4>1. CASE Stopped(s')
        BY <2>8, <4>1 DEF ModelTurn, TypeOK
      <4>2. CASE ~Stopped(s')
        BY <2>8, <4>2 DEF ModelTurn, TypeOK
      <4>. QED BY <4>1, <4>2
    <3>. QED BY <2>8, <3>1, <3>2 DEF ModelTurn, TypeOK, simVars, task, db
  <2>9. CASE Ask
    <3>1. Question \in Questions
      BY UserSimulatorAssumption DEF Question, Questions, TypeOK
    <3>. QED
      BY <2>9, <3>1, NoQuestionAssumption DEF Ask, TypeOK, task, db, history
  <2>10. CASE AskReturns
    <3>1. s' \in Sessions
      BY <2>10 DEF AskReturns, TypeOK, Sessions
    <3>. QED
      BY <2>10, <3>1, ReturnType DEF AskReturns, Answered, TypeOK, db, history
  <2>11. CASE AskFails
    BY <2>11 DEF AskFails, Refuse, Raise, TypeOK, simVars, db, history
  <2>12. CASE Submit
    <3>1. s' \in Sessions /\ srv' \in Services /\ sim' \in 0..2
      BY <2>12, SubmitEffect DEF TypeOK
    <3>2. ask' = ask
      BY <2>12 DEF Submit, Transit, simVars
    <3>. QED BY <2>12, <3>1, <3>2, ReturnType DEF Submit, TypeOK
  <2>13. CASE SubmitLost
    <3>1. s' \in Sessions
      BY <2>13, SubmittedEffect DEF SubmitLost, TypeOK
    <3>2. srv' \in Services
      BY <2>13, JudgedEffect, AcceptedEffect DEF SubmitLost, TypeOK
    <3>3. late' \in 0..lost' /\ lost' \in 0..MaxLost
      BY <2>13 DEF SubmitLost, TypeOK
    <3>. QED
      BY <2>13, <3>1, <3>2, <3>3, ReturnType DEF SubmitLost, TypeOK, simVars, history
  <2>14. CASE Simulator
    <3>1. ask' \in Questions \cup {Null} /\ sim' = sim /\ (pc = "asking" => ask' # Null)
      BY <2>14, CallType, NoQuestionAssumption
         DEF Simulator, Call, Answered, Refuse, TypeOK
    <3>. QED BY <2>14, <3>1 DEF Simulator, TypeOK, task, db, history
  <2>15. CASE RunRaises
    BY <2>15 DEF RunRaises, Raise, TypeOK, simVars, db, history
  <2>16. CASE RunRequestFails
    BY <2>16 DEF RunRequestFails, Raise, TypeOK, simVars, db, history
  <2>17. CASE LateVerdict
    <3>1. srv' \in Services
      BY <2>17, JudgedEffect, AcceptedEffect DEF LateVerdict, TypeOK
    <3>. QED BY <2>17, <3>1 DEF LateVerdict, TypeOK, simVars, task, history
  <2>18. CASE UNCHANGED vars
    BY <2>18 DEF vars, simVars, task, db, history, TypeOK
  <2>. QED
    BY <2>1, <2>2, <2>3, <2>4, <2>5, <2>6, <2>7, <2>8, <2>9, <2>10, <2>11, <2>12,
       <2>13, <2>14, <2>15, <2>16, <2>17, <2>18 DEF Next, Orchestrator, Agent, Over
<1>. QED
  BY <1>1, <1>2, PTL DEF Spec

-----------------------------------------------------------------------------
(* What the session books and what the service holds *)

\* The service opens phase 2 when the first passed and there is one, and passes
\* phase 2 only then.  The session books no pass the service does not hold, and
\* all of them, with their rewards, when no answer was lost.
Booked ==
    /\ srv.phase = 2 <=> srv.p1 /\ followUp
    /\ srv.p2 => srv.phase = 2
    /\ s.p1 => srv.p1
    /\ s.p2 => srv.p2
    /\ lost = 0 => /\ srv.p1 => s.p1
                   /\ srv.p2 => s.p2
                   /\ s.reward = srv.awarded

Quiet ==
    /\ srv'.phase = srv.phase /\ srv'.p1 = srv.p1 /\ srv'.p2 = srv.p2
    /\ srv'.awarded = srv.awarded
    /\ s'.p1 = s.p1 /\ s'.p2 = s.p2 /\ s'.reward = s.reward
    /\ lost' = lost

\* A verdict that arrives.
Heard ==
    /\ pc = "tools"
    /\ srv' = Accepted
    /\ s'.p1 <=> s.p1 \/ srv.phase = 1
    /\ s'.p2 <=> s.p2 \/ srv.phase = 2
    /\ s'.reward = s.reward + (srv'.awarded - srv.awarded)
    /\ lost' = lost

\* A verdict nobody hears of.
Unheard ==
    /\ srv' = Accepted
    /\ s'.p1 = s.p1 /\ s'.p2 = s.p2
    /\ lost' # 0

LEMMA BookKinds ==
    ASSUME TypeOK, [Next]_vars
    PROVE  followUp' = followUp /\ (Quiet \/ Heard \/ Unheard \/ (lost' # 0 /\
              s'.p1 = s.p1 /\ s'.p2 = s.p2 /\ srv'.phase = srv.phase
              /\ srv'.p1 = srv.p1 /\ srv'.p2 = srv.p2))
<1>. USE DEF TypeOK
<1>1. CASE InitDb \/ Cleanup
  <2>1. s' = s /\ lost' = lost /\ followUp' = followUp
    BY <1>1 DEF InitDb, Cleanup, task
  <2>2. /\ srv'.phase = srv.phase /\ srv'.p1 = srv.p1 /\ srv'.p2 = srv.p2
        /\ srv'.awarded = srv.awarded
    BY <1>1 DEF InitDb, Cleanup, Services
  <2>. QED BY <2>1, <2>2 DEF Quiet
<1>2. CASE StartRun \/ ModelTurn \/ AskReturns
  <2>1. srv' = srv /\ lost' = lost /\ followUp' = followUp
    BY <1>2 DEF StartRun, ModelTurn, AskReturns, task, db
  <2>2. s'.p1 = s.p1 /\ s'.p2 = s.p2 /\ s'.reward = s.reward
    BY <1>2 DEF StartRun, ResetFlag, ModelTurn, AskReturns, Sessions
  <2>. QED BY <2>1, <2>2 DEF Quiet
<1>3. CASE \/ InitSim \/ InitSession \/ Decide \/ Transition \/ Ask \/ AskFails
           \/ Simulator \/ RunRaises \/ RunRequestFails \/ UNCHANGED vars
  <2>1. srv' = srv /\ lost' = lost /\ s' = s /\ followUp' = followUp
    BY <1>3 DEF InitSim, InitSession, Decide, Transition, Ask, AskFails, Simulator,
                RunRaises, RunRequestFails, vars, task, db
  <2>. QED BY <2>1 DEF Quiet
<1>4. CASE Submit
  <2>1. lost' = lost /\ pc = "tools" /\ followUp' = followUp
    BY <1>4 DEF Submit
  <2>. QED BY <1>4, <2>1, SubmitEffect, JudgedEffect DEF Quiet, Heard
<1>5. CASE SubmitLost
  <2>1. /\ lost' # 0 /\ followUp' = followUp
        /\ s' = Submitted(s) /\ srv' \in {srv, Judged, Accepted}
    BY <1>5 DEF SubmitLost
  <2>. QED BY <2>1, SubmittedEffect, JudgedEffect DEF Unheard
<1>6. CASE LateVerdict
  <2>1. lost' # 0 /\ s' = s /\ followUp' = followUp /\ srv' \in {Judged, Accepted}
    BY <1>6 DEF LateVerdict, task
  <2>. QED BY <2>1, JudgedEffect DEF Unheard
<1>. QED
  BY <1>1, <1>2, <1>3, <1>4, <1>5, <1>6 DEF Next, Orchestrator, Agent, Over

LEMMA InitBooked == Init => Booked
BY DEF Init, NewSession, Booked

LEMMA NextBooked == TypeOK /\ TypeOK' /\ Booked /\ [Next]_vars => Booked'
<1>. SUFFICES ASSUME TypeOK, TypeOK', Booked, [Next]_vars PROVE Booked'
  OBVIOUS
<1>1. srv \in Services /\ followUp \in BOOLEAN /\ srv.phase \in {1, 2}
  BY DEF TypeOK, Services
<1>2. followUp' = followUp
  BY BookKinds
<1>3. CASE Quiet
  BY <1>2, <1>3 DEF Quiet, Booked
<1>4. CASE Heard
  <2>1. /\ srv'.p1 <=> srv.p1 \/ srv.phase = 1
        /\ srv'.p2 <=> srv.p2 \/ srv.phase = 2
        /\ srv'.phase = IF srv.phase = 1 /\ ~followUp THEN 1 ELSE 2
    BY <1>1, <1>4, AcceptedEffect DEF Heard
  <2>2. s.reward \in Nat /\ srv.awarded \in Nat /\ srv'.awarded \in Nat
    BY DEF TypeOK, Services, Sessions
  <2>3. lost' = 0 => s'.reward = srv'.awarded
    BY <1>4, <2>2 DEF Heard, Booked
  <2>. QED BY <1>1, <1>2, <1>4, <2>1, <2>3 DEF Heard, Booked
<1>5. CASE Unheard
  <2>1. /\ srv'.p1 <=> srv.p1 \/ srv.phase = 1
        /\ srv'.p2 <=> srv.p2 \/ srv.phase = 2
        /\ srv'.phase = IF srv.phase = 1 /\ ~followUp THEN 1 ELSE 2
    BY <1>1, <1>5, AcceptedEffect DEF Unheard
  <2>. QED BY <1>1, <1>2, <1>5, <2>1 DEF Unheard, Booked
<1>. QED
  BY <1>2, <1>3, <1>4, <1>5, BookKinds DEF Booked

-----------------------------------------------------------------------------
(* The legs *)

\* A leg for phase 2 is only reached with phase 1 booked and a follow-up, and runs
\* with the simulator in phase 2.
Legs ==
    /\ pc \in {"dbInit", "simInit", "session"} => leg = 1
    /\ pc = "transition" => leg = 3
    /\ leg >= 3 => followUp /\ s.p1
    /\ leg >= 3 /\ pc \in {"start", "model", "tools", "asking", "returned"} => sim = 2

LEMMA InitLegs == Init => Legs
BY DEF Init, Legs

LEMMA NextLegs == TypeOK /\ Legs /\ [Next]_vars => Legs'
<1>. SUFFICES ASSUME TypeOK, Legs, [Next]_vars PROVE Legs'
  OBVIOUS
<1>. USE DEF Legs
<1>1. followUp' = followUp /\ (s.p1 => s'.p1)
  BY BookKinds DEF Quiet, Heard, Unheard
<1>2. CASE InitDb \/ InitSim \/ InitSession
  BY <1>1, <1>2 DEF InitDb, InitSim, InitSession, Raise
<1>3. CASE Decide
  <2>1. leg' >= 3 => followUp' /\ s'.p1
    BY <1>1, <1>3 DEF Decide, Passed, TypeOK
  <2>2. sim' = sim
    BY <1>3 DEF Decide, simVars
  <2>. QED BY <1>3, <2>1, <2>2 DEF Decide, Passed, TypeOK
<1>4. CASE Transition
  BY <1>1, <1>4 DEF Transition, Transit, Raise, simVars
<1>5. CASE \/ StartRun \/ Cleanup \/ ModelTurn \/ Ask \/ AskReturns \/ AskFails
           \/ SubmitLost \/ Simulator \/ RunRaises \/ RunRequestFails
           \/ LateVerdict \/ UNCHANGED vars
  <2>1. leg' = leg /\ sim' = sim
    BY <1>5 DEF StartRun, Cleanup, ModelTurn, Ask, AskReturns, AskFails, SubmitLost,
                Simulator, Call, Answered, Refuse, RunRaises, RunRequestFails,
                LateVerdict, vars, task, simVars
  <2>2. /\ pc' \in {"start", "model", "tools", "asking", "returned"} =>
              pc \in {"start", "model", "tools", "asking", "returned"}
        /\ pc' \in {"dbInit", "simInit", "session", "transition"} => pc' = pc
    BY <1>5 DEF StartRun, Cleanup, ModelTurn, Ask, AskReturns, AskFails, SubmitLost,
                Simulator, RunRaises, RunRequestFails, LateVerdict, vars, Raise,
                ToolReturns
  <2>. QED BY <1>1, <2>1, <2>2
<1>6. CASE Submit
  <2>1. leg' = leg /\ sim' \in {sim, 2} /\ pc = "tools" /\ pc' \in {"model", "tools"}
    BY <1>6, SubmitEffect DEF Submit, ToolReturns
  <2>. QED BY <1>1, <2>1
<1>. QED
  BY <1>2, <1>3, <1>4, <1>5, <1>6 DEF Next, Orchestrator, Agent, Over

LEMMA StandingInv == Spec => [](TypeOK /\ Booked /\ Legs)
<1>1. Init => Booked /\ Legs
  BY InitBooked, InitLegs
<1>2. /\ TypeOK /\ TypeOK' /\ Booked /\ Legs /\ [Next]_vars => Booked' /\ Legs'
  BY NextBooked, NextLegs
<1>. QED
  BY <1>1, <1>2, TypeCorrect, PTL DEF Spec

\* When the agent works on the follow-up, the DB service judges for it and the
\* simulator answers for it, although the submission tool only logs a failure to
\* tell the simulator: the orchestrator tells it again before leg 3.
THEOREM FollowUpTogether == Spec => []FollowUpInStep
<1>1. TypeOK /\ Booked /\ Legs => FollowUpInStep
  BY DEF Booked, Legs, FollowUpInStep
<1>. QED
  BY <1>1, StandingInv, PTL

-----------------------------------------------------------------------------
(* The result *)

\* There is a result when the task is left, and it is honest.
Given ==
    /\ pc \notin {"cleanup", "end"} => result = Null
    /\ ResultHonest

\* The only step that scores a task is Decide, with what the session booked.
LEMMA ResultKinds ==
    ASSUME TypeOK, [Next]_vars
    PROVE  \/ /\ result' = result
              /\ (pc' \in {"cleanup", "end"}) <=> (pc \in {"cleanup", "end"})
           \/ result' = Error /\ pc' \in {"cleanup", "end"}
           \/ /\ pc = "returned" /\ pc' = "cleanup"
              /\ result' = Scored(s, leg) /\ srv' = srv /\ lost' = lost
              /\ ~Passed => leg \in {2, 4}
              /\ Passed => leg >= 3 \/ ~followUp
<1>1. CASE InitDb \/ InitSim \/ InitSession \/ Transition \/ Cleanup
  BY <1>1 DEF InitDb, InitSim, InitSession, Transition, Cleanup, Raise, task
<1>2. CASE StartRun \/ ModelTurn \/ Ask \/ Simulator \/ LateVerdict \/ UNCHANGED vars
  BY <1>2 DEF StartRun, ModelTurn, Ask, Simulator, LateVerdict, vars, task
<1>3. CASE AskReturns \/ Submit \/ SubmitLost
  BY <1>3 DEF AskReturns, Submit, SubmitLost, ToolReturns
<1>4. CASE AskFails \/ RunRaises \/ RunRequestFails
  BY <1>4 DEF AskFails, RunRaises, RunRequestFails, Raise
<1>5. CASE Decide
  BY <1>5 DEF Decide, db
<1>. QED
  BY <1>1, <1>2, <1>3, <1>4, <1>5 DEF Next, Orchestrator, Agent, Over

LEMMA NextGiven ==
    TypeOK /\ TypeOK' /\ Booked /\ Booked' /\ Legs /\ Given /\ [Next]_vars => Given'
<1>. SUFFICES ASSUME TypeOK, TypeOK', Booked, Booked', Legs, Given, [Next]_vars
              PROVE  Given'
  OBVIOUS
<1>1. CASE /\ result' = result
           /\ (pc' \in {"cleanup", "end"}) <=> (pc \in {"cleanup", "end"})
  <2>1. CASE ~IsScored
    BY <1>1, <2>1 DEF Given, ResultHonest, IsScored
  <2>2. CASE IsScored
    <3>1. pc \in {"cleanup", "end"} /\ ResultHonest
      BY <2>2 DEF Given, IsScored
    <3>2. ~Heard
      BY <3>1 DEF Heard
    <3>3. srv \in Services /\ followUp \in BOOLEAN
      BY DEF TypeOK
    <3>4. /\ srv.p1 => srv'.p1
          /\ srv.p2 => srv'.p2
          /\ lost' = 0 => Quiet
      BY <3>2, <3>3, BookKinds, AcceptedEffect DEF Quiet, Unheard
    <3>. QED
      BY <1>1, <2>2, <3>1, <3>4 DEF Given, ResultHonest, IsScored, Quiet
  <2>. QED BY <2>1, <2>2
<1>2. CASE result' = Error /\ pc' \in {"cleanup", "end"}
  BY <1>2 DEF Given, ResultHonest, IsScored
<1>3. CASE /\ pc = "returned" /\ pc' = "cleanup"
           /\ result' = Scored(s, leg) /\ srv' = srv /\ lost' = lost
           /\ ~Passed => leg \in {2, 4}
           /\ Passed => leg >= 3 \/ ~followUp
  <2>1. /\ result'.p1 = s.p1
        /\ result'.p2 = (leg >= 3 /\ s.p2)
        /\ result'.reward = s.reward
    BY <1>3 DEF Scored
  <2>2. result'.p1 => srv.p1
    BY <2>1 DEF Booked
  <2>3. result'.p2 => result'.p1 /\ srv.p2
    BY <2>1 DEF Booked, Legs
  <2>4. ASSUME lost = 0
        PROVE  result'.p1 = srv.p1 /\ result'.p2 = srv.p2 /\ result'.reward = srv.awarded
    <3>1. /\ srv.p1 \in BOOLEAN /\ srv.p2 \in BOOLEAN
          /\ s.p1 \in BOOLEAN /\ s.p2 \in BOOLEAN
      BY DEF TypeOK, Services, Sessions
    <3>2. srv.p2 => leg >= 3
      <4>. SUFFICES ASSUME srv.p2, ~(leg >= 3) PROVE FALSE
        OBVIOUS
      <4>1. srv.p1 /\ followUp /\ s.p1
        BY <2>4 DEF Booked
      <4>2. Passed
        BY <4>1 DEF Passed, TypeOK
      <4>. QED BY <1>3, <4>1, <4>2
    <3>3. s.p1 = srv.p1 /\ s.p2 = srv.p2 /\ s.reward = srv.awarded
      BY <2>4, <3>1 DEF Booked
    <3>. QED BY <2>1, <3>1, <3>2, <3>3
  <2>. QED BY <1>3, <2>2, <2>3, <2>4 DEF Given, ResultHonest
<1>. QED
  BY <1>1, <1>2, <1>3, ResultKinds

\* A scored task claims no phase the DB service did not accept and no second phase
\* without the first; with every answer heard it claims all of them and exactly
\* the rewards awarded, however often a phase was submitted for.
THEOREM ResultTold == Spec => []ResultHonest
<1>1. Init => Given
  BY DEF Init, Given, ResultHonest, IsScored
<1>2. /\ TypeOK /\ TypeOK' /\ Booked /\ Booked' /\ Legs /\ Given /\ [Next]_vars => Given'
  BY NextGiven
<1>3. Given => ResultHonest
  BY DEF Given
<1>. QED
  BY <1>1, <1>2, <1>3, StandingInv, PTL DEF Spec

-----------------------------------------------------------------------------
(* The dialogue *)

\* A question outlives its run only when the task is left, so the phase does not
\* change under it.
Asked ==
    /\ ask # Null => /\ pc \in {"asking", "cleanup", "end"}
                     /\ ask.parsed = sim
                     /\ ask.stage \in {"generate", "answer"} => ask.generated = sim
    /\ AnswersOnePhase

LEMMA CallAsked ==
    ASSUME TypeOK, Asked, Call
    PROVE  /\ ask' # Null => /\ ask'.parsed = sim
                             /\ ask'.stage \in {"generate", "answer"} => ask'.generated = sim
           /\ ask # Null /\ dialogue' = dialogue /\ sim' = sim
<1>. USE DEF Asked
<1>1. ask \in Questions /\ ask.stage \in {"parse", "generate"} /\ ask.parsed = sim
         /\ (ask.stage = "generate" => ask.generated = sim)
  BY DEF Call, TypeOK
<1>2. dialogue' = dialogue /\ sim' = sim /\ ask # Null
  BY DEF Call
<1>3. CASE ask' = StageDone
  BY <1>1, <1>2, <1>3 DEF StageDone, Questions
<1>4. CASE ask' = IF ask.attempt < MaxAttempts
                  THEN [ask EXCEPT !.attempt = @ + 1]
                  ELSE [ask EXCEPT !.stage = "failed"]
  BY <1>1, <1>2, <1>4 DEF Questions
<1>5. CASE ask' = [ask EXCEPT !.stage = "failed"]
  BY <1>1, <1>2, <1>5 DEF Questions
<1>. QED
  BY <1>2, <1>3, <1>4, <1>5 DEF Call

\* The answer that is recorded was parsed and generated for the phase the task is in.
LEMMA AnsweredOnePhase ==
    ASSUME Asked, Answered
    PROVE  AnswersOnePhase'
<1>1. ask.parsed = sim /\ ask.generated = sim
  BY DEF Asked, Answered
<1>2. \A d \in dialogue : d.parsed = d.generated /\ d.generated = d.recorded
  BY DEF Asked, AnswersOnePhase
<1>3. dialogue' = dialogue \cup {[parsed |-> sim, generated |-> sim, recorded |-> sim]}
  BY <1>1 DEF Answered
<1>. QED
  BY <1>2, <1>3 DEF AnswersOnePhase

LEMMA NextAsked == TypeOK /\ Asked /\ [Next]_vars => Asked'
<1>. SUFFICES ASSUME TypeOK, Asked, [Next]_vars PROVE Asked'
  OBVIOUS
<1>. USE DEF Asked
<1>1. CASE \/ InitDb \/ InitSim \/ InitSession \/ StartRun \/ Decide \/ Transition
           \/ ModelTurn \/ RunRaises \/ Submit \/ SubmitLost
  <2>1. pc \notin {"asking", "cleanup", "end"} /\ ask' = ask /\ dialogue' = dialogue
    BY <1>1 DEF InitDb, InitSim, InitSession, StartRun, Decide, Transition, ModelTurn,
                RunRaises, Submit, SubmitLost, Register, Transit, simVars
  <2>. QED BY <2>1 DEF AnswersOnePhase
<1>2. CASE Cleanup \/ RunRequestFails \/ LateVerdict \/ UNCHANGED vars
  <2>1. /\ ask' = ask /\ dialogue' = dialogue /\ sim' = sim
        /\ pc \in {"asking", "cleanup", "end"} => pc' \in {"asking", "cleanup", "end"}
    BY <1>2 DEF Cleanup, RunRequestFails, Raise, LateVerdict, vars, simVars
  <2>. QED BY <2>1 DEF AnswersOnePhase
<1>3. CASE Ask
  <2>1. /\ ask' = [stage |-> "parse", attempt |-> 1, parsed |-> sim, generated |-> 0]
        /\ pc' = "asking" /\ dialogue' = dialogue /\ sim' = sim
    BY <1>3 DEF Ask, Question
  <2>. QED BY <2>1 DEF AnswersOnePhase
<1>4. CASE AskReturns
  <2>1. Answered /\ ask' = Null
    BY <1>4 DEF AskReturns, Answered
  <2>. QED BY <2>1, AnsweredOnePhase
<1>5. CASE AskFails
  <2>1. /\ ask' \in {ask, Null} /\ dialogue' = dialogue /\ sim' = sim
        /\ pc' = "cleanup"
    BY <1>5 DEF AskFails, Refuse, Raise, simVars
  <2>. QED BY <2>1 DEF AnswersOnePhase
<1>6. CASE Simulator
  <2>0. pc' = pc
    BY <1>6 DEF Simulator
  <2>1. CASE Call
    BY <2>0, <2>1, CallAsked DEF AnswersOnePhase
  <2>2. CASE Answered
    <3>1. ask' = Null
      BY <2>2 DEF Answered
    <3>. QED BY <2>2, <3>1, AnsweredOnePhase
  <2>3. CASE Refuse
    BY <2>3 DEF Refuse, AnswersOnePhase
  <2>. QED BY <1>6, <2>1, <2>2, <2>3 DEF Simulator
<1>. QED
  BY <1>1, <1>2, <1>3, <1>4, <1>5, <1>6 DEF Next, Orchestrator, Agent, Over

\* Parse prompt, answer prompt and record of an answer are all about one phase,
\* although the simulator reads its state anew for each and goes on with a
\* question whose run was given up.
THEOREM OnePhaseAnswers == Spec => []AnswersOnePhase
<1>1. Init => Asked
  BY DEF Init, SimInit, Asked, AnswersOnePhase
<1>2. TypeOK /\ Asked /\ [Next]_vars => Asked'
  BY NextAsked
<1>3. Asked => AnswersOnePhase
  BY DEF Asked
<1>. QED
  BY <1>1, <1>2, <1>3, TypeCorrect, PTL DEF Spec

-----------------------------------------------------------------------------
(* The chance *)

\* A tool only runs after a call of the model in the same run.
Proposed ==
    /\ pc \in {"tools", "asking"} => called
    /\ pc = "model" /\ s.submitted => called

LEMMA NextProposed == TypeOK /\ Proposed /\ [Next]_vars => Proposed'
<1>. SUFFICES ASSUME TypeOK, Proposed, [Next]_vars PROVE Proposed'
  OBVIOUS
<1>. USE DEF Proposed
<1>1. CASE \/ InitDb \/ InitSim \/ InitSession \/ Decide \/ Transition \/ Cleanup
           \/ AskFails \/ RunRaises \/ RunRequestFails
  BY <1>1 DEF InitDb, InitSim, InitSession, Decide, Transition, Cleanup, AskFails,
              RunRaises, RunRequestFails, Raise
<1>2. CASE StartRun
  <2>1. s'.submitted = FALSE /\ pc' = "model"
    BY <1>2 DEF StartRun, ResetFlag, TypeOK, Sessions
  <2>. QED BY <2>1
<1>3. CASE ModelTurn
  <2>1. pc' = "returned" \/ (called' = TRUE /\ pc' # "model")
    BY <1>3 DEF ModelTurn
  <2>. QED BY <2>1
<1>4. CASE Ask \/ AskReturns \/ Submit \/ SubmitLost
  <2>1. called' = called /\ pc \in {"tools", "asking"}
    BY <1>4 DEF Ask, AskReturns, Submit, SubmitLost, history
  <2>. QED BY <2>1
<1>5. CASE Simulator \/ LateVerdict \/ UNCHANGED vars
  BY <1>5 DEF Simulator, LateVerdict, vars, history
<1>. QED
  BY <1>1, <1>2, <1>3, <1>4, <1>5 DEF Next, Orchestrator, Agent, Over

LEMMA ReturnsAreEarned ==
    TypeOK /\ Proposed /\ [Next]_vars =>
        (pc = "model" /\ pc' = "returned" => called' \/ s'.done \/ s'.turns > MaxTurns)
<1>. SUFFICES ASSUME TypeOK, Proposed, [Next]_vars, pc = "model", pc' = "returned"
              PROVE  called' \/ s'.done \/ s'.turns > MaxTurns
  OBVIOUS
<1>1. ModelTurn
  BY DEF Next, Orchestrator, Agent, Over, InitDb, InitSim, InitSession, StartRun,
         Decide, Transition, Cleanup, Ask, AskReturns, AskFails, Submit, SubmitLost,
         Simulator, RunRaises, RunRequestFails, Raise, LateVerdict, vars
<1>2. CASE ~Stopped(s')
  BY <1>1, <1>2 DEF ModelTurn
<1>3. CASE Stopped(s')
  <2>1. called' = called /\ (s'.submitted <=> s.submitted)
    BY <1>1, <1>3 DEF ModelTurn, TypeOK, Sessions
  <2>. QED BY <1>3, <2>1 DEF Stopped, Proposed
<1>. QED
  BY <1>2, <1>3

\* The chance a message of the orchestrator gives is a real one: the flag of the
\* last submission is reset before the run, so a run returns without a call of
\* the model only when the task is done or its turns are used up.
THEOREM ChanceGiven == Spec => ModelGetsItsChance
<1>1. Init => Proposed
  BY DEF Init, Proposed
<1>2. TypeOK /\ Proposed /\ [Next]_vars => Proposed'
  BY NextProposed
<1>3. TypeOK /\ Proposed /\ [Next]_vars =>
        [pc = "model" /\ pc' = "returned" => called' \/ s'.done \/ s'.turns > MaxTurns]_vars
  BY ReturnsAreEarned
<1>. QED
  BY <1>1, <1>2, <1>3, TypeCorrect, PTL DEF Spec, ModelGetsItsChance
=============================================================================
