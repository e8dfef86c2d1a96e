--------------------------- MODULE UserSimulator ---------------------------
(* user_simulator/server.py: the state of one task and a question that is    *)
(* answered in two stages, each a call of a provider whose response may be   *)
(* malformed.  A question is answered in a thread of its own: it goes on     *)
(* when the client that asked no longer waits.                               *)
EXTENDS Integers

CONSTANTS
    Protocol,       \* USER_SIM_PROTOCOL_POLICY: "official" or "strict_retry"
    MaxAttempts,    \* USER_SIM_PROTOCOL_MAX_ATTEMPTS
    Outages,        \* whether services and providers may fail
    Null

ASSUME UserSimulatorAssumption ==
    /\ Protocol \in {"official", "strict_retry"}
    /\ MaxAttempts \in Nat \ {0}
    /\ Outages \in BOOLEAN

VARIABLES
    sim,        \* the phase of the task, 0 before it is registered
    ask,        \* the question being answered, or Null
    dialogue    \* the recorded answers: the phase each step of them was made for

simVars == <<sim, ask, dialogue>>

Questions == [stage : {"parse", "generate", "answer", "failed"},
              attempt : 1..MaxAttempts, parsed : 0..2, generated : 0..2]

ASSUME NoQuestionAssumption == Null \notin Questions

SimInit ==
    /\ sim = 0
    /\ ask = Null
    /\ dialogue = {}

\* POST /init_task: the task is registered before its schema is fetched, and a
\* failure to fetch it is only logged.
Register == sim' = 1 /\ UNCHANGED <<ask, dialogue>>

\* POST /phase_transition
Transit == sim' = 2 /\ UNCHANGED <<ask, dialogue>>

\* Mutant: the attempts are counted from zero.
QuestionFromZero == [stage |-> "parse", attempt |-> 0, parsed |-> sim, generated |-> 0]

\* The prompt of the first stage is built; it is the same for all its attempts.
Question == [stage |-> "parse", attempt |-> 1, parsed |-> sim, generated |-> 0]

\* A call of the provider gives a usable payload: the next stage builds its prompt
\* from the state as it is now.
StageDone ==
    IF ask.stage = "parse"
    THEN [ask EXCEPT !.stage = "generate", !.attempt = 1, !.generated = sim]
    ELSE [ask EXCEPT !.stage = "answer"]

\* _call_llm_for_tagged_payload: a malformed response is asked for again up to
\* MaxAttempts times; under the official policy every response is used.
Call ==
    /\ ask # Null
    /\ ask.stage \in {"parse", "generate"}
    /\ \/ ask' = StageDone
       \/ /\ Protocol = "strict_retry"
          /\ ask' = IF ask.attempt < MaxAttempts
                    THEN [ask EXCEPT !.attempt = @ + 1]
                    ELSE [ask EXCEPT !.stage = "failed"]
       \/ Outages /\ ask' = [ask EXCEPT !.stage = "failed"]
    /\ UNCHANGED <<sim, dialogue>>

\* The answer is recorded under the phase the task is in now, and sent.
Answered ==
    /\ ask # Null
    /\ ask.stage = "answer"
    /\ dialogue' = dialogue \cup
          {[parsed |-> ask.parsed, generated |-> ask.generated, recorded |-> sim]}
    /\ ask' = Null
    /\ UNCHANGED sim

\* A provider or protocol failure is answered with 503: nothing is recorded.
Refuse ==
    /\ ask # Null
    /\ ask.stage = "failed"
    /\ ask' = Null
    /\ UNCHANGED <<sim, dialogue>>
=============================================================================
