---------------------------- MODULE GroundingCall ----------------------------
(***************************************************************************)
(* One Provider call of Grounding, from the callback that reserves it to   *)
(* the callback that counts it:                                            *)
(*   grounding_callbacks  reserves the slot of the task, counts the call   *)
(*   sql_grounding/service.py   repairs a Mapping that fails, once         *)
(*   SQLGroundingUpdater        one logical call, its error and telemetry  *)
(*   LiteLLMSQLGroundingClient  one or two identical HTTP attempts and the *)
(*                              private audit file                         *)
(* The tasks of a process run in one event loop and interleave where a     *)
(* call awaits the Provider.  What a stage decides is left to Grounding;   *)
(* StageCalls says what Grounding sees of this module.                     *)
(***************************************************************************)
EXTENDS Naturals, Sequences

CONSTANTS
  Tasks,      \* tasks in flight in one agent process
  Stages,     \* a part of {"mapping", "stage", "gate"}: a formal Mapping, any
              \* other formal or Draft stage, the Final Gate
  MaxCalls,   \* llm_config.max_calls_per_task, 32 in the repository
  MaxFaults,  \* bound: writes of an audit file that fail
  Null

ASSUME CallAssumption ==
  /\ Stages \subseteq {"mapping", "stage", "gate"}
  /\ MaxCalls \in Nat \ {0} /\ MaxFaults \in Nat

ASSUME NoRepairAssumption == Null \notin {"form", "state"}

VARIABLES
  pc,        \* where the callback of each task is
  job,       \* the stage under way
  reserved,  \* provider_slot_reserved
  repair,    \* the repair of a Mapping: what it followed, or Null
  tried,     \* attempts of the logical call under way
  file,      \* its private audit file
  client,    \* the _last_* fields of each client
  result,    \* what propose returned or raised
  calls, repairs,  \* the two counters in the session
  stages,    \* stages accepted (history)
  begun,     \* logical calls of which an HTTP attempt began (history)
  faults

task == <<job, reserved, repair>>
call == <<tried, file, client>>
counters == <<calls, repairs, stages>>
vars == <<pc, task, call, result, counters, begun, faults>>

NoFile == [status |-> "none", attempts |-> <<>>]
NoResult == [how |-> "none", tel |-> Null]

\* LiteLLMSQLGroundingClient.__init__: a client remembers its last call, so
\* that the telemetry of a call that was cancelled can be filled in.
NewClient == [request |-> Null, attempts |-> <<>>, retry |-> FALSE, chosen |-> 0]

\* _resolve_sql_grounding_updater: each stage has a client of its own.
Updater(t) == t

Init ==
  /\ pc = [t \in Tasks |-> "idle"]
  /\ job = [t \in Tasks |-> "stage"] /\ reserved = [t \in Tasks |-> FALSE]
  /\ repair = [t \in Tasks |-> Null]
  /\ tried = [t \in Tasks |-> <<>>] /\ file = [t \in Tasks |-> NoFile]
  /\ client = [t \in Tasks |-> NewClient]
  /\ result = [t \in Tasks |-> NoResult]
  /\ calls = [t \in Tasks |-> 0] /\ repairs = [t \in Tasks |-> 0]
  /\ stages = [t \in Tasks |-> 0] /\ begun = [t \in Tasks |-> 0]
  /\ faults = 0

Goto(t, where) == pc' = [pc EXCEPT ![t] = where]

(***************************************************************************)
(* The callback takes the slot of the task                                 *)
(***************************************************************************)
\* The fuse is tested before the slot is taken; the client is the stage's own.
Reserve(t) ==
  /\ pc[t] = "idle" /\ calls[t] < MaxCalls /\ ~reserved[t]
  /\ \E j \in Stages : job' = [job EXCEPT ![t] = j]
  /\ reserved' = [reserved EXCEPT ![t] = TRUE]
  /\ Goto(t, "propose")
  /\ UNCHANGED <<repair, call, result, counters, begun, faults>>

NotStarted(t) ==
  /\ pc[t] = "idle"
  /\ Goto(t, "failed")
  /\ UNCHANGED <<task, call, result, counters, begun, faults>>

FuseBlows(t) == calls[t] >= MaxCalls /\ NotStarted(t)

\* The configuration is read again for every stage and is refused.
Misconfigured(t) == NotStarted(t)

(***************************************************************************)
(* The updater's error and telemetry                                       *)
(***************************************************************************)
\* The hashes of one logical call: of the updater's request and of the request
\* the client sends, which is what its attempts are recorded with.
Logical(t) == <<t, IF repair[t] = Null THEN 1 ELSE 2>>
OwnRequest(t) == <<"updater", Logical(t)>>
SentRequest(t) == <<"sent", Logical(t)>>

\* The telemetry of a call, from the fields of the client or of its response.
\* It always carries the model, the credential source and a latency.
Telemetry(attempted, status, request, c) ==
  [attempted |-> attempted, status |-> status, request |-> request,
   attempts |-> c.attempts, retry |-> c.retry, chosen |-> c.chosen,
   named |-> TRUE]

\* GroundingLLMTelemetry.validate_shape.
WellFormed(tel) ==
  /\ \A i \in DOMAIN tel.attempts : tel.attempts[i].request = tel.request
  /\ Len(tel.attempts) <= 2
  /\ Len(tel.attempts) = 2 => tel.retry
  /\ tel.retry => tel.attempts # <<>>
  /\ tel.chosen <= Len(tel.attempts)
  /\ ~tel.attempted =>
       tel.attempts = <<>> /\ ~tel.retry /\ tel.chosen = 0 /\ ~tel.named

\* propose ends in a result or a GroundingUpdaterError, unless the telemetry it
\* builds for it is refused: then that refusal is what leaves propose.
Proposed(t, how, tel) ==
  /\ result' = [result EXCEPT ![t] =
                  IF WellFormed(tel) THEN [how |-> how, tel |-> tel]
                                     ELSE [how |-> "escaped", tel |-> Null]]
  /\ Goto(t, "proposed")

\* Any other exception of the client is reported with the updater's own hash.
ClientError(t, c) ==
  Proposed(t, "client_error", Telemetry(TRUE, "failed", OwnRequest(t), c))

(***************************************************************************)
(* Before the first attempt                                                *)
(***************************************************************************)
\* _build_request: the bundle is invalid or too large.
RequestRejected(t) ==
  /\ pc[t] = "propose"
  /\ Proposed(t, "rejected",
       [Telemetry(FALSE, "rejected", Null, NewClient) EXCEPT !.named = FALSE])
  /\ UNCHANGED <<task, call, counters, begun, faults>>

\* The credential is read for every call: it is missing, or its file is not text.
KeyUnreadable(t) ==
  /\ pc[t] = "propose"
  /\ \/ Proposed(t, "preflight",
          Telemetry(FALSE, "rejected", OwnRequest(t), client[Updater(t)]))
     \/ ClientError(t, client[Updater(t)])
  /\ UNCHANGED <<task, call, counters, begun, faults>>

\* What the client remembers when a request is built.
Asked(t) == [NewClient EXCEPT !.request = SentRequest(t)]

AuditFails(t) ==
  /\ pc[t] = "propose" /\ faults < MaxFaults
  /\ client' = [client EXCEPT ![Updater(t)] = Asked(t)]
  /\ Proposed(t, "preflight",
       Telemetry(FALSE, "rejected", SentRequest(t), Asked(t)))
  /\ faults' = faults + 1
  /\ UNCHANGED <<task, tried, file, counters, begun>>

\* The audit file is there before the first attempt begins.
Request(t) ==
  /\ pc[t] = "propose"
  /\ client' = [client EXCEPT ![Updater(t)] = Asked(t)]
  /\ file' = [file EXCEPT ![t] = [status |-> "started", attempts |-> <<>>]]
  /\ tried' = [tried EXCEPT ![t] = <<>>]
  /\ begun' = [begun EXCEPT ![t] = @ + 1]
  /\ Goto(t, "awaiting")
  /\ UNCHANGED <<task, result, counters, faults>>

(***************************************************************************)
(* The attempts                                                            *)
(***************************************************************************)
WithAttempt(t, status) ==
  Append(tried[t], [request |-> SentRequest(t), status |-> status])

\* _set_last_provider_attempts.  The hash is that of the client's last request.
Remembering(t, attempts, retry, chosen) ==
  [client[Updater(t)] EXCEPT !.attempts = attempts, !.retry = retry,
                             !.chosen = chosen]

Retried(t) == tried[t] # <<>>

\* Mutant: a failing write of the audit file is only logged.
AuditedQuietly(t, status, c, Written) ==
  /\ pc[t] = "awaiting"
  /\ tried' = [tried EXCEPT ![t] = c.attempts]
  /\ client' = [client EXCEPT ![Updater(t)] = c]
  /\ Written
  /\ \/ /\ file' = [file EXCEPT ![t] =
                      [status |-> status, attempts |-> c.attempts]]
        /\ UNCHANGED faults
     \/ faults < MaxFaults /\ faults' = faults + 1 /\ UNCHANGED file
  /\ UNCHANGED <<task, counters, begun>>

\* The attempts are remembered before the audit file is replaced, whole or not
\* at all; a write that fails raises out of the client.
Audited(t, status, c, Written) ==
  /\ pc[t] = "awaiting"
  /\ tried' = [tried EXCEPT ![t] = c.attempts]
  /\ client' = [client EXCEPT ![Updater(t)] = c]
  /\ \/ /\ file' = [file EXCEPT ![t] =
                      [status |-> status, attempts |-> c.attempts]]
        /\ Written
        /\ UNCHANGED faults
     \/ /\ faults < MaxFaults /\ faults' = faults + 1
        /\ ClientError(t, c)
        /\ UNCHANGED file
  /\ UNCHANGED <<task, counters, begun>>

\* wait_for cancels the call after 600 s, whichever attempt it is in; the
\* Provider may go on and charge for it.
TimesOut(t) ==
  LET c == Remembering(t, WithAttempt(t, "timed_out"), Retried(t), 0)
  IN  Audited(t, "timed_out", c,
        Proposed(t, "timeout", Telemetry(TRUE, "timed_out", c.request, c)))

AttemptFails(t, status) ==
  LET c == Remembering(t, WithAttempt(t, status), Retried(t), 0)
  IN  Audited(t, "failed", c,
        Proposed(t, "provider_error",
                 Telemetry(TRUE, "failed", SentRequest(t), c)))

Raises(t) == AttemptFails(t, "failed")

HasNoText(t) == AttemptFails(t, "invalid_response")

\* Mutant: an empty answer is asked for again and again.
MayRetryAlways(t) == TRUE

\* An answer that is empty because it used up its tokens is asked for once more,
\* with an identical request.
MayRetry(t) == ~Retried(t)

EmptyAnswer(t) ==
  /\ MayRetry(t)
  /\ Audited(t, "retrying",
       Remembering(t, WithAttempt(t, "response"), TRUE, 0),
       UNCHANGED <<pc, result>>)

\* The answer is parsed strictly; only a Mapping form that fails is handed back
\* for its repair.
Parses(t) ==
  {"parsed", "strict"} \cup
    (IF job[t] = "mapping" /\ repair[t] = Null THEN {"form"} ELSE {})

Responds(t) ==
  LET c == Remembering(t, WithAttempt(t, "response"), Retried(t),
                       Len(tried[t]) + 1)
  IN  \E how \in Parses(t) :
        Audited(t, "succeeded", c,
          Proposed(t, how,
            Telemetry(TRUE, IF how = "parsed" THEN "succeeded" ELSE "failed",
                      SentRequest(t), c)))

(***************************************************************************)
(* The service validates or repairs, the callback counts                   *)
(***************************************************************************)
\* allow_mapping_validation_repair and the two repair scopes.
MayRepair(t) ==
  job[t] = "mapping" /\ repair[t] = Null /\ calls[t] + 1 < MaxCalls

\* A Mapping is proposed once more when its form is refused or when the State
\* it makes is.
RepairMapping(t) ==
  /\ pc[t] = "proposed" /\ MayRepair(t)
  /\ \/ /\ result[t].how = "form"
        /\ repair' = [repair EXCEPT ![t] = "form"]
     \/ /\ result[t].how = "parsed"
        /\ repair' = [repair EXCEPT ![t] = "state"]
  /\ file' = [file EXCEPT ![t] = NoFile]
  /\ Goto(t, "propose")
  /\ UNCHANGED <<job, reserved, tried, client, result, counters, begun, faults>>

\* Mutant: a stage that was repaired spends one call.
RecordOnce(t, n) ==
  /\ calls' = [calls EXCEPT ![t] = @ + (IF n > 1 THEN 1 ELSE n)]
  /\ UNCHANGED repairs

\* Mutant: a repair counts as a stage.
RecordNoRepair(t, n) ==
  /\ calls' = [calls EXCEPT ![t] = @ + n]
  /\ UNCHANGED repairs

\* _record_provider_call, once for the stage and once for its repair.
RecordCalls(t, n) ==
  /\ calls' = [calls EXCEPT ![t] = @ + n]
  /\ repairs' = [repairs EXCEPT ![t] = IF n = 2 THEN @ + 1 ELSE @]

\* Mutant: the slot is not given back.
KeepSlot(t) ==
  /\ job' = [job EXCEPT ![t] = "stage"]
  /\ repair' = [repair EXCEPT ![t] = Null]
  /\ tried' = [tried EXCEPT ![t] = <<>>]
  /\ file' = [file EXCEPT ![t] = NoFile]
  /\ client' = [client EXCEPT ![Updater(t)] = NewClient]
  /\ result' = [result EXCEPT ![t] = NoResult]
  /\ UNCHANGED reserved

\* The slot is free again; the client, its call and its file are done with.
Release(t) ==
  /\ reserved' = [reserved EXCEPT ![t] = FALSE]
  /\ job' = [job EXCEPT ![t] = "stage"]
  /\ repair' = [repair EXCEPT ![t] = Null]
  /\ tried' = [tried EXCEPT ![t] = <<>>]
  /\ file' = [file EXCEPT ![t] = NoFile]
  /\ client' = [client EXCEPT ![Updater(t)] = NewClient]
  /\ result' = [result EXCEPT ![t] = NoResult]

Accept(t) ==
  /\ pc[t] = "proposed" /\ result[t].how = "parsed"
  /\ RecordCalls(t, IF repair[t] = Null THEN 1 ELSE 2)
  /\ stages' = [stages EXCEPT ![t] = @ + 1]
  /\ Release(t) /\ Goto(t, "idle")
  /\ UNCHANGED <<begun, faults>>

\* The Final Gate counts a call that returned and no other.
CountedOfGate(t) == IF result[t].how = "parsed" THEN 1 ELSE 0

\* What is counted of a stage that is not accepted.  The telemetry of the last
\* call decides; when there is none, a formal or Draft stage reports a call that
\* was not attempted, the exception of a form repair loses the first call too,
\* and a State repair is reported with the telemetry of its first call.
CountedOf(t) ==
  LET escaped == result[t].how = "escaped"
      last == IF ~escaped /\ result[t].tel.attempted THEN 1 ELSE 0
  IN  CASE job[t] = "gate"     -> CountedOfGate(t)
        [] repair[t] = "form"  -> IF escaped THEN 0 ELSE 1 + last
        [] repair[t] = "state" -> IF escaped THEN 2 ELSE 1 + last
        [] OTHER               -> last

\* The phase has its verdict: the chain is over.
Reject(t) ==
  /\ pc[t] = "proposed"
  /\ RecordCalls(t, CountedOf(t))
  /\ Release(t) /\ Goto(t, "failed")
  /\ UNCHANGED <<stages, begun, faults>>

(***************************************************************************)
(* Specification                                                           *)
(***************************************************************************)
Advance(t) ==
  \/ RequestRejected(t) \/ KeyUnreadable(t) \/ AuditFails(t) \/ Request(t)
  \/ TimesOut(t) \/ Raises(t) \/ HasNoText(t) \/ EmptyAnswer(t) \/ Responds(t)
  \/ RepairMapping(t) \/ Accept(t) \/ Reject(t)

Next ==
  \E t \in Tasks : Reserve(t) \/ FuseBlows(t) \/ Misconfigured(t) \/ Advance(t)

Spec == Init /\ [][Next]_vars

\* wait_for ends every await and the event loop resumes every callback.
FairSpec == Spec /\ \A t \in Tasks : WF_vars(Advance(t))

Requests == {"updater", "sent"} \X (Tasks \X (1..2))

Attempts ==
  [request : Requests, status : {"response", "invalid_response", "failed", "timed_out"}]

Files ==
  [status : {"none", "started", "retrying", "timed_out", "failed", "succeeded"},
   attempts : Seq(Attempts)]

Clients ==
  [request : Requests \cup {Null}, attempts : Seq(Attempts), retry : BOOLEAN,
   chosen : 0..2]

Telemetries ==
  [attempted : BOOLEAN, status : {"rejected", "timed_out", "failed", "succeeded"},
   request : Requests \cup {Null}, attempts : Seq(Attempts), retry : BOOLEAN,
   chosen : 0..2, named : BOOLEAN]

Answers == {"parsed", "strict", "form"}

Results ==
  [how : Answers \cup {"client_error", "rejected", "preflight", "timeout",
                        "provider_error"}, tel : Telemetries]
  \cup [how : {"none", "escaped"}, tel : {Null}]

\* Every variable holds a value of its kind.
TypeOK ==
  /\ pc \in [Tasks -> {"idle", "propose", "awaiting", "proposed", "failed"}]
  /\ job \in [Tasks -> Stages \cup {"stage"}] /\ reserved \in [Tasks -> BOOLEAN]
  /\ repair \in [Tasks -> {"form", "state", Null}]
  /\ tried \in [Tasks -> Seq(Attempts)] /\ \A t \in Tasks : Len(tried[t]) <= 2
  /\ file \in [Tasks -> Files]
  /\ client \in [Tasks -> Clients]
  /\ result \in [Tasks -> Results]
  /\ calls \in [Tasks -> 0..MaxCalls] /\ repairs \in [Tasks -> 0..MaxCalls]
  /\ stages \in [Tasks -> Nat] /\ begun \in [Tasks -> Nat]
  /\ faults \in 0..MaxFaults

\* As long as the chain goes on, every call that reached the Provider is counted
\* and every stage is one count that is no repair: the order of the stages and
\* the fuse are decided on these two counters.  The fuse bounds the calls that
\* reach the Provider and not only those that are counted, although a failing
\* stage may leave its calls uncounted.
CountInStep ==
  \A t \in Tasks :
    /\ begun[t] <= MaxCalls
    /\ pc[t] = "idle" =>
         /\ calls[t] = begun[t]
         /\ calls[t] - repairs[t] = stages[t]

\* The audit file and the error a call ends with tell the same story, whatever
\* other tasks do meanwhile and however the file is written: the file's verdict
\* is the one reported, and the telemetry lists the attempts of the file.
AuditAgrees ==
  \A t \in Tasks : pc[t] = "proposed" =>
    LET how == result[t].how
    IN  /\ file[t].status = "timed_out" <=> how = "timeout"
        /\ file[t].status = "failed" <=> how = "provider_error"
        /\ file[t].status = "succeeded" <=> how \in {"parsed", "form", "strict"}
        /\ how \in {"timeout", "provider_error", "parsed", "form", "strict"} =>
             result[t].tel.attempts = file[t].attempts

\* A stage that has taken the slot of its task gives it back, whatever fails: the
\* next stage never meets "duplicate same-task Provider reservation".
StageEnds == \A t \in Tasks : reserved[t] ~> ~reserved[t]

\* The stages of Grounding may rely on StageCalls.
Ledger == INSTANCE StageCalls WITH live <- [t \in Tasks |-> pc[t] # "failed"]

ImplementsStages == Ledger!Spec
=============================================================================
