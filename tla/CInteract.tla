----------------------------- MODULE CInteract -----------------------------
(* One task of the c-interact mode: the orchestrator runs the agent's        *)
(* session up to four times, once for each phase and once more for a phase   *)
(* that failed.  The agent has two tools, a question to the user simulator   *)
(* and a submission to the DB service; a run is over once the agent          *)
(* submitted.  What the agent proposes, the verdicts and the failures are    *)
(* nondeterministic; the databases are the subject of DbEnvironment.         *)
EXTENDS UserSimulator

CONSTANTS
    MaxTurns,   \* MAX_MODEL_TURNS, counted over all runs of the task
    Batch,      \* bound: tool calls in one model turn
    MaxTurn,    \* max_turn: clarification turns the agent is told it has
    MaxLost,    \* bound: submissions whose answer never arrives
    Error       \* the result of a task that raised

ASSUME CInteractAssumption ==
    /\ MaxTurns \in Nat \ {0}
    /\ Batch \in Nat \ {0}
    /\ MaxTurn \in Nat
    /\ MaxLost \in Nat

VARIABLES
    followUp,   \* whether the task has a second phase
    pc,         \* where the orchestrator and the agent's run are
    leg,        \* the run: 1 and 2 for phase 1, 3 and 4 for phase 2
    batch,      \* tool calls of the current turn still to run
    s,          \* the session state
    srv,        \* the task on the DB service
    lost,       \* submissions whose answer did not arrive
    late,       \* those of them the service has yet to judge
    result,     \* what the task is scored with, Error, or Null
    called,     \* history: the model was called in this run
    verdicts    \* history: verdicts the agent got in this run

task == <<followUp, leg, result>>
db == <<srv, lost, late>>
history == <<called, verdicts>>
vars == <<simVars, task, db, history, pc, batch, s>>

NewSession ==
    [turns |-> 0, asks |-> 0, submitted |-> FALSE, done |-> FALSE,
     p1 |-> FALSE, p2 |-> FALSE, reward |-> 0]

Init ==
    /\ SimInit
    /\ followUp \in BOOLEAN
    /\ pc = "dbInit"
    /\ leg = 1
    /\ batch = 0
    /\ s = NewSession
    /\ srv = [live |-> FALSE, phase |-> 1, p1 |-> FALSE, p2 |-> FALSE,
              tried |-> [p \in {1, 2} |-> FALSE], awarded |-> 0]
    /\ lost = 0
    /\ late = 0
    /\ result = Null
    /\ called = FALSE
    /\ verdicts = 0

-----------------------------------------------------------------------------
(* run_single_task *)

\* POST /init_task on the DB service and on the simulator, before the try block:
\* after a failure nothing is cleaned up.
InitDb ==
    /\ pc = "dbInit"
    /\ \/ pc' = "simInit" /\ srv' = [srv EXCEPT !.live = TRUE] /\ UNCHANGED result
       \/ Outages /\ pc' = "end" /\ result' = Error /\ UNCHANGED srv
    /\ UNCHANGED <<simVars, followUp, leg, lost, late, history, batch, s>>

InitSim ==
    /\ pc = "simInit"
    /\ \/ pc' = "session" /\ Register /\ UNCHANGED result
       \/ Outages /\ pc' = "end" /\ result' = Error /\ UNCHANGED simVars
    /\ UNCHANGED <<followUp, leg, db, history, batch, s>>

\* An exception in the try block: the task is recorded with its error.
Raise == pc' = "cleanup" /\ result' = Error

\* Schema and knowledge for the instruction, then POST /init_session.
InitSession ==
    /\ pc = "session"
    /\ \/ pc' = "start" /\ UNCHANGED result
       \/ Outages /\ Raise
    /\ UNCHANGED <<simVars, followUp, leg, db, history, batch, s>>

\* Mutant: run_turn does not reset the flag.
KeepFlag(t) == t

\* run_turn resets the flag of the last submission before it runs the agent.
ResetFlag(t) == [t EXCEPT !.submitted = FALSE]

\* POST /run_session with the message of the leg.
StartRun ==
    /\ pc = "start"
    /\ pc' = "model"
    /\ s' = ResetFlag(s)
    /\ called' = FALSE
    /\ verdicts' = 0
    /\ UNCHANGED <<simVars, task, db, batch>>

\* What the task is scored with.  Phase 2 only counts when its legs were run.
Scored(t, l) == [p1 |-> t.p1, p2 |-> l >= 3 /\ t.p2, reward |-> t.reward]

Passed == IF leg <= 2 THEN s.p1 ELSE s.p2

\* The orchestrator reads the state the run returned: a phase that failed gets
\* one more chance, a passed first phase its follow-up.
Decide ==
    /\ pc = "returned"
    /\ \/ ~Passed /\ leg \in {1, 3} /\ leg' = leg + 1 /\ pc' = "start"
          /\ UNCHANGED result
       \/ Passed /\ leg <= 2 /\ followUp /\ leg' = 3 /\ pc' = "transition"
          /\ UNCHANGED result
       \/ /\ ~Passed => leg \in {2, 4}
          /\ Passed => leg >= 3 \/ ~followUp
          /\ result' = Scored(s, leg)
          /\ pc' = "cleanup"
          /\ UNCHANGED leg
    /\ UNCHANGED <<simVars, followUp, db, history, batch, s>>

\* Mutant: the orchestrator leaves the transition to the tool.
TransitByTool ==
    /\ pc = "transition"
    /\ pc' = "start"
    /\ UNCHANGED <<simVars, task, db, history, batch, s>>

\* phase_transition_service: unlike that of the tool, its failure ends the task.
Transition ==
    /\ pc = "transition"
    /\ \/ pc' = "start" /\ Transit /\ UNCHANGED result
       \/ Outages /\ Raise /\ UNCHANGED simVars
    /\ UNCHANGED <<followUp, leg, db, history, batch, s>>

\* The request for the run fails or times out after 600 s.
RunRequestFails ==
    /\ Outages
    /\ pc \in {"model", "tools", "asking", "returned"}
    /\ Raise
    /\ batch' = 0
    /\ UNCHANGED <<simVars, followUp, leg, db, history, s>>

\* POST /cleanup_task on the DB service, best effort; the simulator keeps its state.
Cleanup ==
    /\ pc = "cleanup"
    /\ pc' = "end"
    /\ \/ srv' = [srv EXCEPT !.live = FALSE]
       \/ Outages /\ UNCHANGED srv
    /\ UNCHANGED <<simVars, task, lost, late, history, batch, s>>

-----------------------------------------------------------------------------
(* The agent's run *)

\* Mutant: the turns are not limited.
StoppedOnlyByState(t) == t.done \/ t.submitted

\* before_model_callback answers in the model's place.
Stopped(t) == t.turns > MaxTurns \/ t.done \/ t.submitted

\* The model proposes k tool calls; with none of them, or stopped, the run ends.
\* The count is kept up to MaxTurns + 1.
ModelTurn ==
    /\ pc = "model"
    /\ s' = [s EXCEPT !.turns = IF @ > MaxTurns THEN @ ELSE @ + 1]
    /\ IF Stopped(s')
       THEN pc' = "returned" /\ UNCHANGED <<batch, called>>
       ELSE /\ called' = TRUE
            /\ \E k \in 0..Batch :
                  batch' = k /\ pc' = IF k = 0 THEN "returned" ELSE "tools"
    /\ UNCHANGED <<simVars, task, db, verdicts>>

\* The tools of one turn run one after another.
ToolReturns ==
    /\ batch' = batch - 1
    /\ pc' = IF batch = 1 THEN "model" ELSE "tools"
    /\ UNCHANGED result

\* ask_user waits for the simulator.
Ask ==
    /\ pc = "tools"
    /\ ask = Null
    /\ ask' = Question
    /\ pc' = "asking"
    /\ UNCHANGED <<sim, dialogue, task, db, history, batch, s>>

\* after_tool_callback counts the question; the count is kept up to MaxTurn + 1.
AskReturns ==
    /\ pc = "asking"
    /\ Answered
    /\ s' = [s EXCEPT !.asks = IF @ > MaxTurn THEN @ ELSE @ + 1]
    /\ ToolReturns
    /\ UNCHANGED <<followUp, leg, db, history>>

\* Mutant: a question that times out is answered with an error text.
AskTimesOutQuietly ==
    /\ Outages
    /\ pc = "asking"
    /\ UNCHANGED simVars
    /\ ToolReturns
    /\ UNCHANGED <<followUp, leg, db, history, s>>

\* The simulator answers 503, or nothing within 60 s: ask_user raises, and with it
\* the run.
AskFails ==
    /\ Outages \/ Protocol = "strict_retry"
    /\ pc = "asking"
    /\ Refuse \/ (Outages /\ UNCHANGED simVars)
    /\ Raise
    /\ batch' = 0
    /\ UNCHANGED <<followUp, leg, db, history, s>>

-----------------------------------------------------------------------------
(* Submissions *)

\* The rewards of a phase, in tenths: at the first try and later.
Reward(p, first) ==
    IF p = 1 THEN IF first THEN 7 ELSE 5 ELSE IF first THEN 3 ELSE 2

Judged == [srv EXCEPT !.tried[srv.phase] = TRUE]

\* The DB service accepts a submission.  With a follow-up phase 2 opens, its tries
\* not yet counted.
Accepted ==
    LET r == Reward(srv.phase, ~srv.tried[srv.phase])
    IN  IF srv.phase = 1
        THEN [Judged EXCEPT !.p1 = TRUE, !.awarded = @ + r,
                            !.phase = IF followUp THEN 2 ELSE 1,
                            !.tried[2] = IF followUp THEN FALSE ELSE @]
        ELSE [Judged EXCEPT !.p2 = TRUE, !.awarded = @ + r]

\* Mutant: every pass is booked as one of the phase the leg belongs to.
CreditLeg(t, p, r) ==
    [t EXCEPT !.p1 = @ \/ leg <= 2, !.p2 = @ \/ leg >= 3, !.reward = @ + r,
              !.done = @ \/ p = 2 \/ ~followUp]

\* submit_sql books a pass of phase p.
Credit(t, p, r) ==
    [t EXCEPT !.p1 = @ \/ p = 1, !.p2 = @ \/ p = 2, !.reward = @ + r,
              !.done = @ \/ p = 2 \/ ~followUp]

Submitted(t) == [t EXCEPT !.submitted = TRUE]

\* A verdict arrives.  On a pass of phase 1 the tool tells the simulator, too, and
\* only logs a failure to.
Submit ==
    /\ pc = "tools"
    /\ srv.live
    /\ \/ /\ srv' = Judged
          /\ s' = Submitted(s)
          /\ UNCHANGED simVars
       \/ /\ srv' = Accepted
          /\ s' = Submitted(Credit(s, srv.phase, srv'.awarded - srv.awarded))
          /\ \/ srv.phase = 1 /\ followUp /\ Transit
             \/ (srv.phase = 2 \/ ~followUp \/ Outages) /\ UNCHANGED simVars
    /\ verdicts' = verdicts + 1
    /\ ToolReturns
    /\ UNCHANGED <<followUp, leg, lost, late, called>>

\* The DB service answers 5xx, or the model's provider fails: the run raises.
RunRaises ==
    /\ Outages
    /\ pc \in {"model", "tools"}
    /\ Raise
    /\ batch' = 0
    /\ UNCHANGED <<simVars, followUp, leg, db, history, s>>

\* No answer arrives: an error text for the model, and the run is over as after
\* any submission; the service has judged it, or will.
SubmitLost ==
    /\ lost < MaxLost
    /\ pc = "tools"
    /\ s' = Submitted(s)
    /\ lost' = lost + 1
    /\ \/ srv' \in {Judged, Accepted} /\ UNCHANGED late
       \/ late' = late + 1 /\ UNCHANGED srv
    /\ ToolReturns
    /\ UNCHANGED <<simVars, followUp, leg, history>>

\* The service judges a submission nobody waits for.
LateVerdict ==
    /\ late > 0
    /\ late' = late - 1
    /\ srv' \in {Judged, Accepted}
    /\ UNCHANGED <<simVars, task, lost, history, pc, batch, s>>

-----------------------------------------------------------------------------

\* The simulator goes on with a question, also with one nobody waits for.
Simulator ==
    /\ \/ Call
       \/ pc # "asking" /\ (Answered \/ Refuse)
    /\ UNCHANGED <<task, db, history, pc, batch, s>>

Agent ==
    ModelTurn \/ Ask \/ AskReturns \/ AskFails \/ Submit \/ SubmitLost

Orchestrator ==
    InitDb \/ InitSim \/ InitSession \/ StartRun \/ Decide \/ Transition \/ Cleanup

Over == pc = "end" /\ late = 0 /\ ask = Null /\ UNCHANGED vars

Next ==
    Orchestrator \/ Agent \/ Simulator \/ RunRaises \/ RunRequestFails \/ LateVerdict \/ Over

Spec == Init /\ [][Next]_vars

\* Every request is bounded by a timeout and every run by its turns; that a
\* request for a run fails is never assumed.
FairSpec == Spec /\ WF_vars(Orchestrator) /\ WF_vars(Agent) /\ WF_vars(Simulator)

-----------------------------------------------------------------------------
(* Properties *)

Sessions ==
    [turns : 0..(MaxTurns + 1), asks : 0..(MaxTurn + 1), submitted : BOOLEAN,
     done : BOOLEAN, p1 : BOOLEAN, p2 : BOOLEAN, reward : Nat]

Services ==
    [live : BOOLEAN, phase : {1, 2}, p1 : BOOLEAN, p2 : BOOLEAN,
     tried : [{1, 2} -> BOOLEAN], awarded : Nat]

\* The type invariant of the session, the services, the question and the result.
TypeOK ==
    /\ pc \in {"dbInit", "simInit", "session", "start", "model", "tools", "asking",
               "returned", "transition", "cleanup", "end"}
    /\ followUp \in BOOLEAN /\ leg \in 1..4 /\ batch \in 0..Batch
    /\ (pc \in {"tools", "asking"}) <=> (batch > 0)
    /\ s \in Sessions /\ srv \in Services
    /\ sim \in 0..2
    /\ ask \in Questions \cup {Null}
    /\ pc = "asking" => ask # Null
    /\ late \in 0..lost /\ lost \in 0..MaxLost
    /\ result \in {Null, Error} \cup [p1 : BOOLEAN, p2 : BOOLEAN, reward : Nat]
    /\ called \in BOOLEAN /\ verdicts \in Nat

IsScored == result \notin {Null, Error}

\* A scored task claims no phase the DB service did not accept and no second phase
\* without the first, whatever was lost or late; when every answer arrived it
\* claims all that was accepted, and exactly the rewards that were awarded.
ResultHonest ==
    IsScored =>
        /\ result.p1 => srv.p1
        /\ result.p2 => result.p1 /\ srv.p2
        /\ lost = 0 => /\ result.p1 = srv.p1
                       /\ result.p2 = srv.p2
                       /\ result.reward = srv.awarded

\* When the agent works on the follow-up, the DB service judges for it and the
\* simulator answers for it, although the tool that told the simulator only logs
\* its failure (tools.submit_sql).
FollowUpInStep ==
    leg >= 3 /\ pc \in {"model", "tools", "asking"} => srv.phase = 2 /\ sim = 2

\* Both stages of an answer and its record are about one phase: a question is
\* never answered with the ambiguities of one and the reference of the other.
AnswersOnePhase ==
    \A d \in dialogue : d.parsed = d.generated /\ d.generated = d.recorded

\* The chance a message gives is a real one: a run only ends without a call of the
\* model when the task is done or its turns are used up.
ModelGetsItsChance ==
    [][pc = "model" /\ pc' = "returned" => called' \/ s'.done \/ s'.turns > MaxTurns]_vars

\* "Stop the agent after it has submitted this phase" (callbacks_cinteract): a run
\* gets at most one verdict.
OneVerdictPerRun == verdicts <= 1

\* The task ends, scored or with an error.
Concludes == <>(pc = "end" /\ result # Null)
=============================================================================
