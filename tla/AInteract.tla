----------------------------- MODULE AInteract -----------------------------
(* One task of the a-interact mode, as the orchestrator's run_single_task    *)
(* drives it: the task is set up on the DB service and the user simulator,   *)
(* the agent works in a session of model turns and tool calls paid from one  *)
(* budget, a one-time fallback session may follow, and the state of the      *)
(* session is what the task is scored with.  The agent's choices, the        *)
(* verdicts and the failures of the services are nondeterministic; the       *)
(* databases behind a verdict are the subject of DbEnvironment, and what     *)
(* Valibra adds to the primary agent's turns the subject of Grounding.       *)
EXTENDS Integers

CONSTANTS
    Budget0,    \* the initial budget, in half bird-coins
    MaxTurns,   \* MAX_MODEL_TURNS
    Batch,      \* bound: tool calls in one model turn
    Fallback,   \* VALIBRA_AINTERACT_FALLBACK
    Outages,    \* whether services and model may fail
    MaxLost,    \* bound: submissions whose answer never arrives
    Null

ASSUME AInteractAssumption ==
    /\ Budget0 \in Nat /\ Budget0 >= 12
    /\ MaxTurns \in Nat \ {0}
    /\ Batch \in Nat \ {0}
    /\ Fallback \in BOOLEAN
    /\ Outages \in BOOLEAN
    /\ MaxLost \in Nat

VARIABLES
    followUp,   \* whether the task has a second phase
    pc,         \* where run_single_task and the agent's run are
    batch,      \* tool calls of the current turn that are still to run
    s,          \* the session state
    saved,      \* the primary's state while the fallback runs, or Null
    srv,        \* the task on the DB service
    sim,        \* the phase of the task on the user simulator, 0 before it
    lost,       \* submissions whose answer did not arrive
    late,       \* those of them the service has yet to judge
    result,     \* what the task is scored with, or Null
    failed,     \* history: the sessions in which a service or the model failed
    handed,     \* history: what the primary's state scored at the hand-over, or Null
    subs        \* history: the submissions made

history == <<failed, handed, subs>>
vars == <<followUp, pc, batch, s, saved, srv, sim, lost, late, result, failed, handed, subs>>

-----------------------------------------------------------------------------
(* The session state *)

\* TOOL_COSTS, in half bird-coins: the exploration tools cost 0.5 or 1.
ExploreCosts == {1, 2}
AskCost == 4
SubmitCost == 6

\* MINIMUM_REMAINING_BIRD_COIN
FallbackCost == 6

\* The rewards of the phases, in tenths.
Rewards == <<7, 3>>

NewSession ==
    [phase |-> 1, budget |-> Budget0, reward |-> 0, p1 |-> FALSE, p2 |-> FALSE,
     done |-> FALSE, turns |-> 0, attempted |-> FALSE, infra |-> FALSE]

\* A submission is never refused: one the budget does not cover is free, and
\* one that leaves nothing sets the budget to -1, the signal to stop.
ChargeSubmit(t) ==
    [t EXCEPT !.budget = IF @ > SubmitCost THEN @ - SubmitCost ELSE -1]

Charge(t, cost) == [t EXCEPT !.budget = @ - cost]

\* Mutant: a pass of the first phase leaves a task without follow-up open.
CreditOpen(t, p) ==
    [t EXCEPT !.reward = @ + Rewards[p],
              !.p1 = @ \/ p = 1,
              !.p2 = @ \/ p = 2,
              !.phase = 2,
              !.done = @ \/ p = 2]

\* Mutant: the session credits the phase it believes to be in.
CreditOwnPhase(t, p) ==
    [t EXCEPT !.reward = @ + Rewards[t.phase],
              !.p1 = @ \/ t.phase = 1,
              !.p2 = @ \/ t.phase = 2,
              !.phase = 2,
              !.done = @ \/ t.phase = 2 \/ ~followUp]

\* submit_sql books a pass of phase p.
Credit(t, p) ==
    [t EXCEPT !.reward = @ + Rewards[p],
              !.p1 = @ \/ p = 1,
              !.p2 = @ \/ p = 2,
              !.phase = 2,
              !.done = @ \/ p = 2 \/ ~followUp]

Spent(t) == Budget0 - (IF t.budget < 0 THEN 0 ELSE t.budget)

\* What a task is scored with on the session state t.
Scored(t) == [p1 |-> t.p1, p2 |-> t.p2, reward |-> t.reward, used |-> Spent(t)]

Init ==
    /\ followUp \in BOOLEAN
    /\ pc = "dbInit"
    /\ batch = 0
    /\ s = NewSession
    /\ saved = Null
    /\ srv = [live |-> FALSE, phase |-> 1, p1 |-> FALSE, p2 |-> FALSE]
    /\ sim = 0
    /\ lost = 0
    /\ late = 0
    /\ result = Null
    /\ failed = {}
    /\ handed = Null
    /\ subs = 0

-----------------------------------------------------------------------------
(* run_single_task up to the agent's run *)

\* POST /init_task on the DB service.  A failure raises out of the task before
\* the try block: nothing is cleaned up.
InitDb ==
    /\ pc = "dbInit"
    /\ \/ /\ pc' = "simInit"
          /\ srv' = [srv EXCEPT !.live = TRUE]
       \/ /\ Outages
          /\ pc' = "end"
          /\ UNCHANGED srv
    /\ UNCHANGED <<followUp, batch, s, saved, sim, lost, late, result, history>>

\* POST /init_task on the user simulator, still before the try block.
InitSim ==
    /\ pc = "simInit"
    /\ \/ pc' = "session" /\ sim' = 1
       \/ Outages /\ pc' = "end" /\ UNCHANGED sim
    /\ UNCHANGED <<followUp, batch, s, saved, srv, lost, late, result, history>>

\* POST /init_session on the agent service.
InitSession ==
    /\ pc = "session"
    /\ \/ pc' = "model"
       \/ Outages /\ pc' = "cleanup"
    /\ UNCHANGED <<followUp, batch, s, saved, srv, sim, lost, late, result, history>>

-----------------------------------------------------------------------------
(* Model turns *)

\* The session that runs: a copy is kept for as long as the fallback does.
Session == IF saved = Null THEN "primary" ELSE "fallback"

\* Mutant: what the fallback did before it failed is kept.
RaiseLive ==
    /\ pc' = IF saved = Null THEN "cleanup" ELSE "returned"
    /\ saved' = Null
    /\ batch' = 0
    /\ UNCHANGED s

\* The agent's run raises.  The primary's exception reaches the orchestrator
\* and the task ends without a result; the fallback's is caught, and the
\* primary's state of before the fallback becomes the state of the run.
Raise ==
    /\ IF saved = Null
       THEN pc' = "cleanup" /\ UNCHANGED s
       ELSE pc' = "returned" /\ s' = saved
    /\ saved' = Null
    /\ batch' = 0

Counted(t) == [t EXCEPT !.turns = @ + 1]

\* Mutant: the turns are counted but not capped.
NeverCapped(t) == t.done \/ t.budget < 0

\* before_model_callback answers in the model's place.
Stopped(t) == t.turns > MaxTurns \/ t.done \/ t.budget < 0

\* The model is called and proposes k tool calls; with none of them, or stopped,
\* the turn's text ends the run.  The count is kept up to MaxTurns + 1.
ModelTurn ==
    /\ pc = "model"
    /\ s' = IF s.turns > MaxTurns THEN s ELSE Counted(s)
    /\ \E k \in 0..Batch :
          /\ Stopped(Counted(s)) => k = 0
          /\ batch' = k
          /\ pc' = IF k = 0 THEN "ended" ELSE "tools"
    /\ UNCHANGED <<followUp, saved, srv, sim, lost, late, result, history>>

\* The model's provider fails, or the session cannot be started.
ModelFails ==
    /\ Outages
    /\ pc = "model"
    /\ Raise
    /\ failed' = failed \cup {Session}
    /\ UNCHANGED <<followUp, srv, sim, lost, late, result, handed, subs>>

-----------------------------------------------------------------------------
(* Tool calls: before_tool_callback, the tool, after_tool_callback.  The tools *)
(* are synchronous, so the calls of one turn run one after another.            *)

\* The call returns a text to the model, an error text included.
ToolReturns ==
    /\ batch' = batch - 1
    /\ pc' = IF batch = 1 THEN "model" ELSE "tools"
    /\ UNCHANGED saved

\* Mutant: the budget is charged without looking.
NeverRefused(cost) == FALSE

Refused(cost) == s.budget < cost

Explore ==
    /\ pc = "tools"
    /\ \E c \in ExploreCosts : s' = IF Refused(c) THEN s ELSE Charge(s, c)
    /\ ToolReturns
    /\ UNCHANGED <<followUp, srv, sim, lost, late, result, history>>

\* A question is answered, refused for want of budget, or, in the fallback,
\* blocked because it was asked before.
Ask ==
    /\ pc = "tools"
    /\ \/ Refused(AskCost) /\ UNCHANGED s
       \/ saved # Null /\ UNCHANGED s
       \/ ~Refused(AskCost) /\ s' = Charge(s, AskCost)
    /\ ToolReturns
    /\ UNCHANGED <<followUp, srv, sim, lost, late, result, history>>

\* The simulator fails: the session is marked and the tool raises, which the
\* ADK runtime propagates or turns into a tool response.
AskFails ==
    /\ Outages
    /\ pc = "tools"
    /\ ~Refused(AskCost)
    /\ \/ s' = [Charge(s, AskCost) EXCEPT !.infra = TRUE] /\ ToolReturns
       \/ Raise
    /\ failed' = failed \cup {Session}
    /\ UNCHANGED <<followUp, srv, sim, lost, late, result, handed, subs>>

\* The DB service accepts a submission: phase 1 with a follow-up opens phase 2;
\* a phase that is not followed stays open to further submissions.
Accepted ==
    IF srv.phase = 1
    THEN [srv EXCEPT !.p1 = TRUE, !.phase = IF followUp THEN 2 ELSE 1]
    ELSE [srv EXCEPT !.p2 = TRUE]

\* The simulator's phase once the session has a verdict: POST /phase_transition
\* on a pass of phase 1 with a follow-up, whose failure is only logged.
Transition(passed) ==
    IF passed /\ srv.phase = 1 /\ followUp
    THEN IF Outages THEN {sim, 2} ELSE {2}
    ELSE {sim}

\* A verdict arrives.  An answer of status 4xx is an error text like a verdict
\* that failed.
Submit ==
    /\ pc = "tools"
    /\ \E passed \in BOOLEAN :
          /\ srv' = IF passed THEN Accepted ELSE srv
          /\ s' = IF passed THEN Credit(ChargeSubmit(s), srv.phase) ELSE ChargeSubmit(s)
          /\ sim' \in Transition(passed)
    /\ ToolReturns
    /\ subs' = subs + 1
    /\ UNCHANGED <<followUp, lost, late, result, failed, handed>>

\* The DB service answers 5xx: the tool raises.
SubmitFails ==
    /\ Outages
    /\ pc = "tools"
    /\ Raise
    /\ failed' = failed \cup {Session}
    /\ subs' = subs + 1
    /\ UNCHANGED <<followUp, srv, sim, lost, late, result, handed>>

\* No answer arrives (connection reset, 120 s timeout): an error text for the
\* model, while the service has judged the submission or will.
SubmitLost ==
    /\ lost < MaxLost
    /\ pc = "tools"
    /\ s' = ChargeSubmit(s)
    /\ lost' = lost + 1
    /\ \/ srv' = Accepted /\ UNCHANGED late
       \/ late' = late + 1 /\ UNCHANGED srv
    /\ ToolReturns
    /\ subs' = subs + 1
    /\ UNCHANGED <<followUp, sim, result, failed, handed>>

\* The service judges a submission nobody waits for.
LateVerdict ==
    /\ late > 0
    /\ srv' \in {srv, Accepted}
    /\ late' = late - 1
    /\ UNCHANGED <<followUp, pc, batch, s, saved, sim, lost, result, history>>

-----------------------------------------------------------------------------
(* The end of the run *)

\* fallback_eligibility
Eligible ==
    /\ Fallback
    /\ ~s.attempted
    /\ ~s.done
    /\ s.budget >= FallbackCost

\* Mutant: the fallback session starts with the budget of a fresh one.
FallbackRefilled == [s EXCEPT !.attempted = TRUE, !.budget = Budget0]

\* start_fallback_state: a copy of the live state, marked.
FallbackState == [s EXCEPT !.attempted = TRUE]

\* The fallback session starts on a copy of the primary's state.
StartFallback ==
    /\ pc = "ended"
    /\ saved = Null
    /\ Eligible
    /\ s' = FallbackState
    /\ saved' = FallbackState
    /\ pc' = "model"
    /\ handed' = Scored(s)
    /\ UNCHANGED <<followUp, batch, srv, sim, lost, late, result, failed, subs>>

\* The run returns its state: the fallback's when there was one.
Return ==
    /\ pc = "ended"
    /\ saved # Null \/ ~Eligible
    /\ saved' = Null
    /\ pc' = "returned"
    /\ UNCHANGED <<followUp, batch, s, srv, sim, lost, late, result, history>>

\* The orchestrator's request for the run fails or times out (1800 s): the task
\* ends without a result, and nobody reads what the agent goes on to do.
RunRequestFails ==
    /\ Outages
    /\ pc \in {"model", "tools", "ended", "returned"}
    /\ pc' = "cleanup"
    /\ batch' = 0
    /\ saved' = Null
    /\ UNCHANGED <<followUp, s, srv, sim, lost, late, result, history>>

\* The state becomes the task's result, unless the session is marked with an
\* infrastructure failure: then the task raises.
Record ==
    /\ pc = "returned"
    /\ result' = IF s.infra THEN Null ELSE Scored(s)
    /\ pc' = "cleanup"
    /\ UNCHANGED <<followUp, batch, s, saved, srv, sim, lost, late, history>>

\* POST /cleanup_task, best effort.
Cleanup ==
    /\ pc = "cleanup"
    /\ \/ srv' = [srv EXCEPT !.live = FALSE]
       \/ Outages /\ UNCHANGED srv
    /\ pc' = "end"
    /\ UNCHANGED <<followUp, batch, s, saved, sim, lost, late, result, history>>

\* The task is over.
Over == pc = "end" /\ late = 0 /\ UNCHANGED vars

Agent == ModelTurn \/ ModelFails \/ Explore \/ Ask \/ AskFails
            \/ Submit \/ SubmitFails \/ SubmitLost \/ StartFallback \/ Return

Orchestrator == InitDb \/ InitSim \/ InitSession \/ Record \/ Cleanup

Next == Orchestrator \/ Agent \/ RunRequestFails \/ LateVerdict \/ Over

Spec == Init /\ [][Next]_vars

\* Every call the agent and the orchestrator make is bounded by a timeout, so
\* each of them goes on while it can.  That the request for the run fails is
\* never assumed: a task ends without it.
FairSpec == Spec /\ WF_vars(Agent) /\ WF_vars(Orchestrator)

-----------------------------------------------------------------------------
(* Properties *)

Sessions ==
    [phase : {1, 2}, budget : -1..Budget0, reward : Nat, p1 : BOOLEAN, p2 : BOOLEAN,
     done : BOOLEAN, turns : 0..(MaxTurns + 1), attempted : BOOLEAN, infra : BOOLEAN]

Scores == [p1 : BOOLEAN, p2 : BOOLEAN, reward : Nat, used : 0..Budget0]

\* The type invariant of the task's session and of its services.
TypeOK ==
    /\ followUp \in BOOLEAN
    /\ pc \in {"dbInit", "simInit", "session", "model", "tools", "ended",
               "returned", "cleanup", "end"}
    /\ batch \in 0..Batch
    /\ (pc = "tools") <=> (batch > 0)
    /\ s \in Sessions
    /\ saved \in Sessions \cup {Null}
    /\ srv \in [live : BOOLEAN, phase : {1, 2}, p1 : BOOLEAN, p2 : BOOLEAN]
    /\ sim \in 0..2
    /\ lost \in 0..MaxLost
    /\ late \in 0..lost
    /\ result \in Scores \cup {Null}
    /\ failed \subseteq {"primary", "fallback"}
    /\ handed \in Scores \cup {Null}
    /\ subs \in Nat

Flag(b, n) == IF b THEN n ELSE 0

\* The session never gets ahead of the service, whatever is lost, late or rolled
\* back: what it claims was accepted (submit_sql), the simulator answers for the
\* follow-up only once phase 2 is open, and phase 2 is only ever judged after an
\* accepted phase 1.
PhasesEarned ==
    /\ s.p1 => srv.p1
    /\ s.p2 => srv.p2
    /\ srv.p2 => srv.p1
    /\ srv.phase = 2 => srv.p1
    /\ sim = 2 => srv.phase = 2
    /\ s.phase = 2 /\ followUp => srv.phase = 2

\* The reward of a scored task is 0.7 for a passed first phase and 0.3 more when
\* both passed (README: the definition of the reported reward).
RewardMatchesPhases ==
    result # Null =>
        result.reward = Flag(result.p1, 7) + Flag(result.p1 /\ result.p2, 3)

\* No failure of a service or of the model is scored as the agent's own: a task
\* whose primary session met one has no result, and one whose fallback met one
\* is scored with what the primary had handed over, to the last half coin
\* (ask_user, submit_sql, _run_native_fallback, run_single_task).  That such a
\* fallback is scored at all is the code's choice, not this property's.
OutageNotCounted ==
    result # Null =>
        /\ "primary" \notin failed
        /\ "fallback" \in failed => result = handed

\* Over the whole task, the fallback and the submissions that fail or are lost
\* included, submissions are paid from one budget: what it does not cover are
\* those of the response in which it ran out, at most one model turn's calls
\* (before_tool_callback lets them through, before_model_callback ends the run).
SubmissionsPaid == SubmitCost * subs < Budget0 + SubmitCost * Batch

\* What the orchestrator scores is what the services accepted.
Score == INSTANCE TaskScore WITH
    accepted <- {p \in {1, 2} : IF p = 1 THEN srv.p1 ELSE srv.p2},
    reward <- s.reward,
    verdict <- IF result # Null THEN "scored"
               ELSE IF pc \in {"cleanup", "end"} THEN "void" ELSE "open"

ImplementsScore == Score!Spec

\* The task ends: turns are capped, budgets run out and every wait is bounded.
Concludes == <>(pc = "end")
=============================================================================
