# Valibra: a TLA+ verification project

Valibra is an agent for the interactive Text-to-SQL benchmark BIRD-Interact. This
directory holds TLA+ models of the program's control logic, TLC configurations that
check them on small instances, and TLAPS proofs of their main theorems for every value
of the constants. Paths below are relative to the repository's root.

## 1. The system and its parts

A task (one question over one PostgreSQL database, with an optional follow-up question)
is worked on by four processes that talk HTTP.

| component | state it keeps | operations | interacts with |
|---|---|---|---|
| **DB Environment** `db_environment/server.py`, `shared/db_utils.py` | `_task_data`, `_submit_attempts`, `_successful_phase1_sql`; three PostgreSQL databases of deterministic name per task (task database, initial reset point, Phase 1 snapshot); a connection pool per database | `/init_task`, `/execute`, `/submit`, `/cleanup_task` | called by the orchestrator and by the agent's tools; each request runs in a worker thread |
| **User Simulator** `user_simulator/server.py` | the task's phase and its dialogue | `/init_task`, `/ask`, `/switch_phase`, `/cleanup_task` | asked by the agent's `ask_user`, told of a phase change by `submit_sql` |
| **Agent service** `system_agent/`, `valibra_agent/adk_runtime.py` | one ADK session state per task (phase, budget, reward, flags, turn count, trajectory) | `/init_session`, `/run`, `/state`; per turn `before_model`, `before_tool`, the tool, `after_tool`, `on_tool_error` | tools call the two services above |
| **SQL Grounding** `valibra_agent/grounding_callbacks.py`, `valibra_agent/sql_grounding/` | formal four-dimensional State with stage and revision, pending Official tool, Draft, clarification ledger, omissions, call counters, phase outcomes, all under session-state keys | the stages Structure, Mapping, Knowledge, Check; one Official tool per Check; the Final Gate; private Drafts; the gate before `execute_sql` and `submit_sql` | runs inside the callbacks of the agent service; asks a model Provider |
| **Native fallback** `valibra_agent/fallback/`, `valibra_agent/adk_runtime.py` | a copy of the session state | one extra session after a primary run that ended unfinished | same services, same budget |
| **Orchestrator, a-interact** `orchestrator/ainteract.py` | the running task | `run_single_task`, `run_evaluation` | drives the other processes over HTTP |
| **Orchestrator, c-interact** `orchestrator/cinteract.py` | the running task and the flags of its session | `run_single_task` of that mode: up to four runs of the agent, one per phase and one more for a phase that failed | the same services |
| **Parallel runner and reports** `orchestrator/runner.py`, `report.py`, ... | a results list under a lock, saved every five results | `run` | starts tasks under a semaphore |
| **Official shard runner, range runner, merge** `orchestrator/official_shard_runner.py`, `scripts/` | saved results, checkpoint, predictions, summary and manifests in a run directory | start, recovery of pending cleanups, run, save, cleanup, publication, the gate after the first tasks; the merge of two directories | one task after another on the services; killed and resumed; the merge reads what a runner writes |
| **Grounding Provider client** `sql_grounding/updater.py`, `service.py`, the counting in `grounding_callbacks.py` | the slot and the two call counters of a task, the fields of the last call in each client, one private audit file per call | a logical call of one or two HTTP attempts, its timeout, its telemetry, the repair of a Mapping | every stage of Grounding; the tasks of a process share one event loop |
| Prompts, LLM clients, configuration, literals carrier, reading of answer contracts, scripts | none that outlives a call, or (the literals carrier) off in the release configuration | | |

### What is hard here

* *Concurrency.* Nothing in the DB Environment serialises two requests for one task: they
  run in worker threads and interleave at every database command, while they capture a
  `task_data` object that an `/init_task` may replace. In the agent service ADK starts the
  tool calls of one model response together, so a sibling runs while the passing submit
  of Phase 1 awaits the Provider calls of Phase 2 inside its own callback.
* *Failure in the middle.* Each database command of a submission may fail after the task
  database was dropped; the process may die with its databases left behind; a Provider
  call may fail in a stage, in a Check, in the Gate or in a Draft; a tool call may fail
  while it is the only way on.
* *Lost answers.* A submission is judged and its answer never reaches the tool, which does
  not know and may try again. A run of the agent goes on after the orchestrator gave it up,
  and makes databases that were cleaned up. An abandoned question is still being answered.
* *Kills and restarts.* A runner is killed between any two of its writes, started again, perhaps
  under another configuration, and read by a merge while it replaces its files one by one.
* *Bookkeeping across failures.* A Provider call is counted by other code than makes it;
  timeouts, repairs, retries and failing audit files come in between.
* *Stale state.* Template clones lose statistics; a Draft has to be committed on the State
  it was built from; the fallback works on a copy.
* *Limits.* The budget is spent by tools that the agent, the Check and the bootstrap choose; the
  Provider has a fuse; turns are capped.

### What makes it correct

* DB Environment: a submission is judged on the reset point of its phase and on the
  database its SQL ran on; a failed one leaves the task database restored; the Phase 1
  snapshot holds the preprocess result and the accepted SQL only; re-initialisation
  recovers from anything; a second try is never taken for a first.
* Grounding: one verdict per phase, given once, on a complete and consistent State that
  then stays as it is; the Main agent acts only on that State; a Draft changes the
  formal State whole or not at all; a question that was answered counts; every phase that
  begins gets its verdict.
* a-interact: session and simulator never claim more than the service accepted; the reward
  is that of the accepted phases; no infrastructure failure is scored as the agent's own;
  submissions are paid from one budget over primary and fallback; the task ends.
* c-interact with the simulator: what is scored is what was accepted; when the agent works on
  the follow-up, both services are in Phase 2; an answer is about one phase; a chance the
  orchestrator gives is one the model gets; the task ends.
* Official run: a saved result stays and is never run again; all results of a directory come from
  one configuration; what is published is cleaned up; a directory that says it is complete
  is complete for every reader, the merge included; the gate stays shut; a process ends.
* Provider call: the counters are exact as long as the chain goes on; the fuse bounds the calls
  that are made; audit file and reported error agree; the slot is given back.

## 2. Modules

| module | what it is |
|---|---|
| `DbEnvironment.tla` | the DB Environment for one task identifier and any number of request slots; one step per database command |
| `DbEnvironment_proofs.tla` | proofs for any number of overlapping requests |
| `DbSerial_proofs.tla` | proofs under one request at a time |
| `GroundingLedger.tla` | abstract specification: what the Grounding of a task promises |
| `Grounding.tla` | the Grounding callbacks; refines `GroundingLedger` |
| `Grounding_proofs.tla` | proofs about it, the refinement included |
| `TaskScore.tla` | abstract specification: what one a-interact task promises |
| `AInteract.tla` | one task of a-interact: orchestrator, session, fallback, and the services as far as they are asked; refines `TaskScore` |
| `AInteract_proofs.tla` | proofs about it |
| `StageCalls.tla` | abstract specification: what the chains of Grounding take for granted of their Provider calls |
| `GroundingCall.tla` | one Provider call from its reservation to its count; refines `StageCalls` |
| `GroundingCall_proofs.tla` | proofs about it, for any number of tasks that share a process |
| `UserSimulator.tla` | one task of the user simulator, answering in a thread of its own |
| `CInteract.tla` | one task of c-interact, composed with `UserSimulator` |
| `CInteract_proofs.tla` | proofs about the two together |
| `RunDirectory.tla` | what the two runners share: the directory, its files replaced one by one, kills, late runs |
| `ShardRunner.tla`, `RangeRunner.tla` | the two programs that fill a run directory |
| `ShardMerge.tla` | the merge of a directory with another one |
| `ResultLedger.tla` | abstract specification: what an official run promises of its results |
| `OfficialRun.tla` | either runner, kills and a merge together; refines `ResultLedger` |
| `OfficialRun_proofs.tla` | proofs about them, for any number of tasks and starts |
| `MC*.tla` | small instances for TLC |

### DbEnvironment

State and code: `db` is the three physical databases, each the set of effects applied to
it (preprocess, accepted SQL, clean-up, exploration, test cases, statistics); `pool` the
connection pool; `reg`, `td`, `attempts`, `accepted` the dictionaries of `server.py`.
`reg` is a generation number, because a request keeps the `task_data` object it captured
when another `/init_task` replaces it. `pc`, `call` and `base` are the position, the captured arguments and
the judged database of each worker thread.

Actions: `ArriveInit .. Register` are `/init_task` (drop, restore, preprocess, snapshot,
register), `Execute` the SELECT of `/execute`, `ArriveSubmit .. Judge` the submission, `RestoreDrop/Create` the
failed branch, `SnapshotDrop .. SnapshotClone` the passed Phase 1, `Cleanup*` the
clean-up, `Crash` the death of the service: memory is lost, databases stay. Every command
has a failing alternative. Dropping a database closes its pool and kills its sessions
(`reset_task_db` and `pg_terminate_backend`), which is `Disconnected`.

Abstractions: a payload is a value with or without ANALYZE; the verdict is a choice; the
test cases only matter as something that writes to the task database; template cloning loses
exactly the statistics (`Cloned`).

### Grounding

A step is what runs between two awaits. `pc = "propose"` is a Provider call in flight with
its place in the chain in `job`; `pc = "model"` is the boundary between model turns.
`formal` is the persisted runtime (stage, revision, dimensions), `work` what the chain
holds in its local variables until it persists, `entry` what a failing chain goes
back to; `draft` the private Draft; `pending` the
Official tool a Check asked for; `used` the requests already made; `clar` the
clarification ledger; `carrier` the omissions record of the last Mapping; `known` the
column meanings that were fetched; `outcome` the verdict of each phase. `window` is what a failed submit leaves
behind for the next SQL of the phase: the semantic guard's single rejection and the fresh recompile.

`Structure`, `Mapping`, `Knowledge`, `Check`, `GateKeeps`, `GateRegrounds`, `Draft*` are
the chain in `grounding_callbacks.py`; `ProviderFails` and `FuseBlows` its failures;
`Bootstrap`, `DispatchTool`, `DispatchQuestion`, `QuestionAborts` the forced tools with
what `after_tool` and `on_tool_error` do; `MainTurn`, `MainExecute`, `SqlRefused`, `Submit*` the Main
agent under the guard, the recompile and the gate; `RunEnds` the end of the run.

Abstractions, and why they are safe for the properties:

* A State is its tables, its phrase-to-column mapping and its business rules. Join keys go with
  tables. The cursor that tells a prompt which dimension is in focus, wording, prompts and audits are left out.
* What a Provider answers is any value validation admits. A refused
  response, an incomplete terminal Check, the Gate's TERMINAL and a rejected schedule or
  commit all end the phase the same way and are `ProviderFails`.
* Bird coins are counted in halves, so that every cost is an integer.
* The caps on gate audits (16), clarifications (16) and check audits (32) cannot be met
  within 32 Provider calls, and the cap of 60 model turns not before Main turns begin
  (there `MainTurn` may stop); they are not modelled.
* The answer contract, the semantic guard and the fresh recompile are on in the release
  configuration (`docs/releases/2026-09-16/candidate_manifest.json`). `SqlRefused` has their
  refusals: when one may come, that it is free, and that it comes once after a failed submit or
  once in a phase. What a contract says of a SQL text is left open. A window lapses
  in the code when the State it was opened on is revised; the model leaves it open then,
  which only adds refusals.
* A failing chain returns the Runtime of its last accepted stage or the one it was entered
  with, and `ProviderFails` allows either: an exception between two stages (a request that
  cannot be built, an audit that does not fit) takes the second.
* A call of a response after the one that ended the task is no submission here; `AInteract` has those.
* Not modelled: a submission whose answer is lost with a later one judged for another phase (it
  is in `AInteract`); a commit of a Draft that raises, and a follow-up that cannot be read
  (both under the observations in section 3).

### AInteract

`pc` is where `run_single_task` and the run are; `s` is the session state; `saved` the
primary's state while the fallback has a copy; `srv` and `sim` the task on the two
services; `lost` and `late` the submissions without an answer, of which the service may yet
judge the late ones; `result` what is scored. History: `failed` is the set of sessions (primary,
fallback) in which a service or the model failed, `handed` what the primary's state would have scored when
the fallback took over, `subs` the submissions made.

`InitDb`, `InitSim`, `InitSession` are the setup; `ModelTurn` is one model response with
up to `Batch` tool calls under `before_model`; `Explore`, `Ask`, `AskFails`, `Submit`,
`SubmitFails`, `SubmitLost` are `before_tool`, the tool and `after_tool` together;
`LateVerdict` is the service finishing what nobody waits for; `StartFallback` and
`Return` the end of a run; `RunRequestFails`, `Record`, `Cleanup`, `Over` the rest of
`run_single_task`.

The tools are synchronous functions on one event loop, so the calls of one turn are serial
and each is one step. A refused answer (4xx) is a failing verdict text. The databases behind
a verdict are `DbEnvironment`'s subject and appear here as "accepted or not". What the
orchestrator's own 1800 s limit leaves behind, an agent at work on a task that was given up, is
in `RunDirectory` (`LateRun`).

`OutageNotCounted` says what both configurations keep: a task whose primary met a failure has no
result, one whose fallback met one has exactly the result the primary handed over.
`SubmissionsPaid` bounds all submissions of a task, the fallback's and the lost ones included, by the
one budget and a single response beyond it.

### GroundingCall

`pc` is where the callback of each task is; `job`, `reserved`, `repair` its stage, its slot
and whether a Mapping is being repaired; `tried` the HTTP attempts of the logical call,
`file` its audit file, `client` what the client remembers of its last call (from which the
telemetry of a cancelled call is filled in); `result` what `propose` returned or raised;
`calls` and `repairs` the counters in the session; `stages` and `begun` are history.

`Reserve`, `NotStarted`, `FuseBlows` are `_handle_observation_serialized` up to the call;
`Misconfigured` .. `Asked` what fails before the first attempt; `AttemptFails`, `EmptyAnswer`,
`Responds`, `TimesOut` an attempt and what is written and remembered of it;
`RepairMapping`, `Accept`, `Reject` the service; `RecordCalls`, `Release` the callback again.
`Grounding` counts its calls the way `StageCalls` allows (`CountCalls`: one, or two for a repaired
Mapping; `ProviderFails`: none to two); that the code does so is the refinement.

### CInteract and UserSimulator

`pc` is where the orchestrator and the agent's run are, `leg` which of the four runs; `s` the session,
`srv` the task on the DB service, `sim`, `ask`, `dialogue` the simulator with the question it
is answering. `Decide` is everything `run_single_task` does between two runs; `ModelTurn`,
`Ask`, `AskReturns`, `AskFails`, `Submit`, `SubmitLost` the agent with its callbacks; `Call`,
`Answered`, `Refuse` the simulator's steps, which interleave with the agent's. The
questions of a-interact are answered by the same code; there a question that is abandoned ends the
run, and `AInteract` keeps the phase of the simulator only.

### OfficialRun

`task`, `preds`, `private`, `ckpt`, `summary`, `stamp` are the files; `todo` those of them that
`write_state` has still to replace, one per step (`WriteNext`), each atomically (`os.replace`);
`mem`, `cursor`, `current` what the process holds; `att`, `dbs`, `sessions`, `late`, `out` the world outside
it, which a kill does not undo. `Crash` may come between any two steps. A merge (`ShardMerge`) reads
summary, checkpoint and predictions in separate steps while the runner goes on. A result is the
attempt it came from, its configuration and whether Phase 1 passed; metrics, hashes and
the public-safety scan are functions of these. `sorted` is stated by rank (`Sorted`: the k-th
of a set of tasks is the one with k of the set up to it), because the sorting operator of the
TLC module has no definition to prove from. A gate of no tasks (`GateCount` of 0) is no
gate, in the code and in `GateHolds`.

Smaller abstractions: the range runner resets a database by its name and the model a task's (no
two tasks of an instance share one); a child's result file holds one status or none, so the refusal of
two is the refusal of none; the merge reads the predictions and hashes them in two reads of a
file that no longer changes, one read in the model.

## 3. What the runs check

Twelve runs; the bounds are in the `.cfg` files.

| run | shows |
|---|---|
| `db_serial` | one request at a time, two payloads (one with ANALYZE), all kinds of task, two initialisations, every command failing, crashes: verdicts from the reset point, canonical snapshot, recovery, attempts never forgotten |
| `db_competing` | two interleaved requests: a verdict is reached on the database the SQL ran on, because a rebuild kills the sessions on it |
| `grounding_gate` | two phases with the Final Gate, leaderboard profile, Drafts that pause or ask, omissions, under fairness: verdicts final, complete, with answers in view, and every phase gets one; implements the ledger |
| `grounding_restart` | no Gate, a business rule, two tool calls a response: restarts after an answer, refused SQL, a sibling that meets the chain of Phase 2, no lost rule; implements the ledger |
| `grounding_draft_failure` (violation) | finding 1 |
| `grounding_call` | two tasks in one process, three calls each, repairs, retries, failures at every step: counters, fuse, audit file, slot; implements `StageCalls` |
| `task_serial` | one tool call a turn, failing services and model, no fallback: implements `TaskScore`, ends |
| `task_lossy` | two calls a turn, two lost submissions, late verdicts, outages and the fallback together, as in the release configuration: nothing is claimed that was not accepted, no outage is counted against the agent, submissions are paid from one budget |
| `task_reward` (violation) | finding 2 |
| `c_interact` | two calls a turn, failing services, malformed simulator answers, a lost verdict: honest result, services in step, answers about one phase, real chances, an end |
| `c_chances` (violation) | finding 3 |
| `official_run` | three tasks, two configurations, three starts of either runner, kills between any two steps, a concurrent merge: implements the ledger; nothing run twice, mixed or published uncleaned |

### Findings

Each is a sentence of the repository that a behaviour of the code contradicts.

1. `DraftFailureKeepsFormal`. `docs/architecture.md` says that a failed Draft keeps the
   formal State. A Draft of Phase 2 that fails inside the submit's callback makes the whole
   chain roll back to the State at the transition, so what Phase 2's formal stages had
   established goes with it.
2. `RewardMatchesPhases`. When the answer to an accepted Phase 1 submission is lost, the
   session still believes in Phase 1, the next submission is judged for Phase 2, and 0.3 is
   credited to a task whose session never passed the first phase.
3. `OneVerdictPerRun`. A c-interact response that calls `submit_sql` twice gets two verdicts,
   although the agent is to stop after it has submitted and is told how many chances it has: the
   flag is looked at before the next model call only.

### Observations

Seen in the models while they were written, and not checked by a run of their own:

* With overlapping requests for one task, a submission may be judged on a database that another request
  has written to since its reset (`db_environment/server.py:414`, "Reset task DB for clean
  evaluation"). With one request at a time, which is how the tools call the service as
  long as no call is given up and repeated, `VerdictFromResetPoint` is a theorem; with `Overlap = TRUE`
  it is false.
* With the fallback on, as in the release configuration, a task that met an outage of the user
  simulator may be scored: an outage that a tool of the fallback session meets is swallowed with the
  fallback, and the task gets the result the primary handed over. The comment at
  `user_simulator/server.py:333` ("The failed task is not scored") is not true then. `OutageNotCounted`
  states what holds instead, with the fallback on.
* Two calls of `submit_sql` in one a-interact response, for a task without follow-up, are both
  accepted for Phase 1 (the service stays in it, `db_environment/server.py:533`), and `submit_sql`
  credits 0.7 twice: with `Batch = 2` and no lost answer `RewardMatchesPhases` is false, too.
* A Draft's commit records the outcome (`grounding_callbacks.py:4025`) before it writes its audit
  (4039), which is limited to 4096 bytes and takes some 340 for each stage of the Draft. With eight Official tools in one
  Draft it does not fit and the commit raises in between: the phase has succeeded on a State that is not
  the persisted one, and the gate before `execute_sql` refuses every call for the rest of the phase where
  it applies. The audits of a discarded Draft (3967) and of a paused one (4263) have the same limit. Runs and
  theorems are about Drafts whose audit fits; with `MaxOfficial = 1` every one does.
* When the passing submit's answer holds no follow-up that `_extract_submit_follow_up` accepts, or no
  message is bound to the turn (`grounding_callbacks.py:2933-2938`), Phase 2 is open and no outcome is
  recorded (3013), since no observation was made: `before_model` then gives the Main agent ordinary turns in an ungrounded
  phase. `submit_sql` writes the marker once and a run binds its message, so this takes a follow-up
  that is empty, too long or repeats the marker; `Grounding` has no such step and `GroundingConcludes` is
  about tasks whose follow-up can be read.
* A Provider call may be counted although no attempt began: a credential file that is not text
  is reported as an attempted call, and a Mapping repair whose second call never began is
  reported with the telemetry of the first, because `validate_shape` refuses the telemetry of a failure before
  the first attempt. The phase has failed by then, so `CountInStep` still holds.
* A failed Phase 2 submission restores the task database without replaying the accepted ANALYZE
  statements, so the agent explores without the statistics its next submission is judged
  with (`server.py:545`).
* A fallback that raises takes phase and ledger back to the primary's copy
  (`ainteract_fallback.py:4`).
* With two calls in one response of a-interact the second tool runs after the signal to stop;
  `SubmissionsPaid` bounds how many submissions that can be.
* The reserve of two submits that a Check's tool has to leave is measured when the tool is chosen; a
  sibling call of the same response may spend it.
* A run that nobody waits for any more goes on, and may make the databases of its task again
  after they were cleaned up (`dbs = "late"` in `RunDirectory`).

### Bounds, and why they are enough

* *db*: contents are sets of effects, so a second payload shows what a first left behind,
  and ANALYZE against no ANALYZE is the only difference the code makes between payloads. Two
  initialisations are a first one and one over the remains of another. Two requests are the least that
  interleave; the theorems cover the rest. `attempts` counts to 2, "first" and "later",
  which is all the code distinguishes.
* *grounding*: Provider calls are capped at 13 or 14 instead of 32. A phase takes three stages, a Check and
  a Gate; 13 calls are both phases with a Draft that is committed in Phase 2, or a restart of the four stages
  in either phase, and let the fuse blow in each place. `Budget0` pays for the bootstrap, one Check tool
  above the reserve of two submits and the submits. One phrase, one column and one table are enough for
  an omission, an answer, a mapping that has to move and a table that is dropped under its mapping.
  Liveness and Drafts are checked without a business rule, rules and sibling calls without
  the Gate: together they take TLC far longer, so that Phase 2 loses no rule is not checked through Drafts.
  `MaxOfficial` is 1 for 8, so that a Draft meets its own limit.
* *call*: two tasks are the least that interleave; three calls are a repaired Mapping and one
  more, so the fuse is met before a stage and before a repair; one failing write of an audit file.
* *c-interact*: the four runs with two calls a turn; seven turns over all runs for 60, so that every
  run may meet the cap; one question before the turns the agent is told it has; two
  protocol attempts; one lost verdict.
* *official*: the first task is the gate's, the last one completes the directory and one lies between;
  three starts are a first one, a restart and a restart of that; two configurations are one
  and another.
* *task*: `Budget0` is 16 or 20 half coins (8 or 10 coins; a task of the default
  configuration has 12 or more), two to three submissions and the rest in questions, so the
  budget meets zero, the last free submission and the fallback's minimum. Turns are capped
  at 4 or 5 for 60; the code only compares. Two lost answers allow one per phase.

### Fairness

`Grounding`: weak fairness of the Provider's answer, of the forced tools and of the tool
calls that a response already holds: each is an HTTP call with a timeout, and the event loop
runs every call of a response. Not of `MainTurn`: whether the Main agent ever acts is not
promised, and `RunEnds` may end the run instead. `GroundingCall`: weak fairness of each task's callback, since
`wait_for` ends every await. `AInteract` and `CInteract`: weak fairness of the task's own steps, since every call they
wait for has a timeout. `OfficialRun`: weak fairness of the process
while it is up; kills, starts, late runs and the merge are never assumed. `RunRequestFails` (the orchestrator gives up), `LateVerdict` and the choice of
losing an answer are never assumed. The DB Environment has no liveness property: a
request ends when PostgreSQL answers.

## 4. What is proved

The names are those of the theorems; the property each one states is in `PROJECT.json`.

| theorem | argument |
|---|---|
| `DbEnvironment_proofs!TypeCorrect`, `VerdictsOnOwnDatabase` | for any request slots, payloads, overlap and crashes. The two are proved together: a thread at its verdict holds a connection, and every step that would replace the database kills it, so its base is still contained in the task database. |
| `DbSerial_proofs!SerialVerdicts`, `SerialSnapshot`, `SerialRecovery` | assuming `Overlap = FALSE`. The inductive invariant `SerialInv` says, besides the goals: at most one request is in the service; in a registered task the initial reset point holds exactly the preprocess result (`InitialKept`) and the snapshot of a task in Phase 2 exactly that and the accepted SQL (`SnapshotKept`); and what the request in flight has already done to the databases (`InitProgress`, `SubmitProgress`), without which the next command's effect is unknown. |
| `DbSerial_proofs!SerialAttempts` | assuming `Overlap = FALSE`; an action property. A registered task has its counters (`Counting`), and what a step may do to them is listed once (`Counts`). |
| `Grounding_proofs!TypeCorrect`, `SuccessComplete`, `DraftResumable`, `StateFrozen` | for any questions, tables, rules, tools, budget, fuse, batch and profile, with and without the Gate. `Control` is the type invariant with what the place in the chain implies: the Runtimes agree outside a chain (`AtRest`), a chain only runs in an undecided phase (`Verdicts`), a Check, the Gate and a Draft work on a complete State (`Chain`, `Waiting`, `Drafted`). `Frozen` adds the State of each verdict. |
| `Grounding_proofs!OmissionsRespected` | `Omissions`: the record of omissions binds a State up to its revision, the persisted Runtimes are never later than the chain's, and equal to it when no revision lies between, so no path brings back a State that maps what was left out. |
| `Grounding_proofs!DraftAnswersCounted` | `Questions` (an unanswered question is the one the task waits for) and `DraftQuestions` (from the question of a Draft on, the phase can only succeed with a later Draft, that has the answers in view). |
| `Grounding_proofs!LedgerImplemented` | each step of the callbacks is one of three kinds, `Undecided`, `Verdict` and `Calm`, and each kind maps to a step of `GroundingLedger` or a stutter. It needs `RulesKept`: in Phase 2 every State there is, the Draft's included, has the rules Phase 1 succeeded with. |
| `AInteract_proofs!TypeCorrect`, `PhasesNeverAhead` | for any budget, turns, batch, losses and fallback. `PhasesEarned` alone is not inductive: the fallback works on a copy and the primary's state may come back, so the invariant `Behind` makes the same claim of the saved state and ties the simulator's phase and the session's phase to the service's. |
| `AInteract_proofs!OutagesNotCounted` | for every configuration, the fallback on or off. `Marked`: a failure stays marked in the session and in the copy kept for a fallback that raises, or the task has gone back to that copy, which scores what was handed over. |
| `AInteract_proofs!AllSubmissionsPaid` | for every budget, turn cap, batch and number of lost answers, with and without the fallback. `Paid`: while the budget lasts, what is spent covers the submissions made; once it has run out, each further one is a call of the turn in which it did, and the next model call ends the run. |
| `AInteract_proofs!ScoreImplemented` | assuming `Plain`: one call a turn, no lost answer and no fallback. The invariant `InStep` says that the session agrees with the service on phase, passes and reward at each step boundary; then each step maps to a step of `TaskScore` or a stutter. The run `task_reward` shows that the assumption is needed. |
| `CInteract_proofs!TypeCorrect`, `ResultTold`, `FollowUpTogether` | for any turns, batch, lost answers, protocol and attempts. `Booked`: the session books no pass the service does not hold, and all of them when no answer was lost. `Legs`: a leg of Phase 2 is reached with Phase 1 booked, and runs with the simulator in Phase 2. `Given`: the only step that scores is `Decide`, with what is booked. |
| `CInteract_proofs!OnePhaseAnswers`, `ChanceGiven` | `Asked`: a question outlives its run only when the task is left, so the phase does not change under it. `Proposed`: a tool only runs after a call of the model in the same run. |
| `GroundingCall_proofs!TypeCorrect`, `CountExact`, `AuditTold`, `StagesImplemented` | for any number of tasks, calls and failing writes. `CallInv` adds `Slots` (a task has its slot while a stage is under way, and only a Mapping is repaired) and `Spent` (the fuse has room for the calls of the stage, and what began and is not counted is exactly what this stage began); `Awaits`: while an answer is awaited, the audit file is open, at most one attempt was made and the client remembers the request of this call. |
| `OfficialRun_proofs!TypeCorrect` | for any number of tasks, starts and configurations and any gate. The invariant is `Control`: besides the types, where either program can be and at which task (`Placed`), that one process starts at most one run of a task (`Counted`), that what the next step uses is there (`Present`), and which files are left to replace and which there must be already (`Left`, `Filed`). |
| `OfficialRun_proofs!SavedNeverRerun` | an action property. `Remembered`: what the process holds is what is saved, but for the result it is about to save, and an unmarked result is either the one being cleaned up or pending. |
| `OfficialRun_proofs!PublishedGone` | `Gone` (a marked result left nothing on the services) and `Published` (what is published is saved and marked, and what `write_state` has already replaced is up to date). |
| `OfficialRun_proofs!OneConfigurationHolds` | `Configured`: one configuration goes through manifest, process, checkpoint, summary, the children's status files and the results. |
| `OfficialRun_proofs!CompleteReadable` | `Finished`: a complete summary stands for a complete directory; a complete directory does not change any more (`CompleteStays`). `Merging`: so a merge that has read the summary reads the other files of the same directory. It rests on the lemmas about `Rank` and `Sorted`, of which `RankOnto` is a pigeonhole argument. |
| `OfficialRun_proofs!GateClosed` | an action property. `Gated`: the range runner comes to a task with all results before it, so beyond the gate the count is reached, and it came through the gate. |
| `OfficialRun_proofs!LedgerImplemented` | each step saves a result, publishes more, concludes, or is a stutter of `ResultLedger` (`LedgerStep`). |

Most of these proofs first sort the steps into kinds by what they do to the state (`Kind` in
`OfficialRun_proofs`, `Undecided`, `Verdict` and `Calm` in `Grounding_proofs`, `BookKinds` and
`ResultKinds` in `CInteract_proofs`), once, under the control invariant; every invariant after it
is then shown to be kept by the kinds, not by the actions.

Each assumption on a constant is a named ASSUME of the module that declares it, and TLC
evaluates it in the runs. Those called `NullAssumption`, `NoQuestionAssumption` and
`NoRepairAssumption` say that `Null`, which stands for what there is not, is none of the values that a variable
may hold instead.

Only model-checked: the liveness properties `GroundingConcludes`, `StageEnds`, `Concludes` and `ProcessEnds`, since
fairness and ENABLED are beyond the prover. Every invariant, action property and refinement of a passing run
is a theorem; those of `DbSerial_proofs` and `ScoreImplemented` are so under the
assumptions named above. `RestoredAfterFail`
(a failed submission leaves the reset point) is proved and no longer run. No module declares a RECURSIVE operator.

## 5. Not modelled, and the plan

In the order of importance; what is done is marked.

1. [done] `DbEnvironment` with its proofs: it decides what a verdict is worth.
2. [done] `GroundingLedger` and `Grounding` with proofs: the core of Valibra.
3. [done] `TaskScore` and `AInteract` with proofs.
4. [done] `OfficialRun` with `ResultLedger` and proofs: both runners, kills, the merge.
5. [done] `CInteract` with `UserSimulator` and proofs.
6. [done] `GroundingCall` with `StageCalls` and proofs.
7. [open] What several requests for one task still keep in the DB Environment (`Overlap = TRUE`), stated
   as an invariant of its own: `VerdictsOnOwnDatabase` is what is known so far.
8. [open] `ScoreImplemented` with parallel calls: which promise of `TaskScore` survives a second call
   in a turn.

### Not modelled

* *Parallel runner and reports.* `orchestrator/runner.py` starts independent tasks under a semaphore
  on one event loop and saves the list of finished results; its tasks share nothing that the task
  modules do not have. The reports aggregate finished results.
* *Reading an answer contract and comparing SQL with it.* Pure functions of the State, the clarifications
  and a text; what their refusals do is in `Grounding` (`SqlRefused`).
* *Resolved literal carrier and Main handoff.* What the Main agent's prompt shows of a grounded
  literal: it changes no verdict and no phase.
* *Prompts, HTTP clients, configuration, SQL parsing and formatting, fixture compatibility, scripts*: text and single
  calls without shared state.
* Of modelled components: prompts, forms and audits of Grounding; `run_evaluation`'s loop over tasks, the trajectory and
  the token audit; token counts and costs of a Provider call.
