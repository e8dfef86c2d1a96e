----------------------------- MODULE Grounding -----------------------------
(***************************************************************************)
(* The staged SQL Grounding of one task, as the agent's ADK callbacks run  *)
(* it with a real Provider (valibra_agent/grounding_callbacks.py and       *)
(* valibra_agent/sql_grounding/).                                          *)
(*                                                                         *)
(* A phase of the task is grounded by a chain of Provider calls (structure,*)
(* mapping, knowledge, Check), then by a loop of one Official tool and one *)
(* Check, then by the Final Gate, which accepts the State, gives up, or    *)
(* orders a private Draft that is committed whole or thrown away.  The     *)
(* Main agent writes SQL only in a phase whose Grounding has succeeded.    *)
(* A passing submit of Phase 1 starts the chain of Phase 2 inside the      *)
(* callback of that very submit.                                           *)
(*                                                                         *)
(* A step is what runs between two awaits: a Provider call in flight is    *)
(* pc = "propose", with its place in the chain in job; the boundary        *)
(* between two model turns is pc = "model".  What a Provider answers, and  *)
(* whether a tool fails, is a choice.                                      *)
(***************************************************************************)
EXTENDS Integers, FiniteSets

CONSTANTS
  Tables,        \* tables of the task's schema (join keys go with them)
  Columns,       \* columns of those tables
  TableOf,       \* the table of each column
  Phrases,       \* phrases of the question that need a column
  Rules,         \* the Official business rules
  Tools,         \* the tools a Check may ask for in this instance
  Budget0,       \* the bird coins of the task, in half coins
  MaxCalls,      \* llm_config.max_calls_per_task, 32 in the repository
  MaxOfficial,   \* _MAX_ATOMIC_REGROUNDING_OFFICIAL_CALLS, 8
  Batch,         \* tool calls the Main agent may put in one model response
  FinalGate,     \* FINAL_REGROUNDING_GATE
  Leaderboard,   \* VALIBRA_EXECUTION_PROFILE = leaderboard
  Null

CheckTools == {"meaning", "definition", "names", "execute", "ask"}

ASSUME GroundingAssumption ==
  /\ TableOf \in [Columns -> Tables]
  /\ Tools \subseteq CheckTools
  /\ MaxCalls \in Nat /\ MaxOfficial \in Nat /\ Batch \in Nat \ {0}
  /\ Budget0 \in Nat /\ Budget0 >= 6
  /\ FinalGate \in BOOLEAN /\ Leaderboard \in BOOLEAN

(***************************************************************************)
(* Values                                                                  *)
(***************************************************************************)
Phase == 1..2

\* One business mapping per phrase; None of a dimension is Null.
Mappings == {m \in SUBSET (Phrases \X Columns) :
               \A x, y \in m : x[1] = y[1] => x = y}

Contents == [tables    : (SUBSET Tables) \cup {Null},
             mapping   : Mappings \cup {Null},
             knowledge : (SUBSET Rules) \cup {Null}]

Unevaluated == [tables |-> Null, mapping |-> Null, knowledge |-> Null]

Evaluated(d) == d.tables # Null /\ d.mapping # Null /\ d.knowledge # Null

Mapped(d) == IF d.mapping = Null THEN {} ELSE {x[1] : x \in d.mapping}

\* What validate_sql_grounding_state asks across dimensions.
Consistent(d) ==
  d.mapping # Null =>
    /\ d.tables # Null
    /\ \A x \in d.mapping : TableOf[x[2]] \in d.tables

Requests == ({"meaning"} \X Columns) \cup ({"definition"} \X Rules)
              \cup ({"ask"} \X Phrases) \cup ({"names", "execute"} \X {Null})

\* TOOL_COSTS, in half coins.
Cost(req) == CASE req[1] = "ask"     -> 4
               [] req[1] = "execute" -> 2
               [] OTHER              -> 1
BootstrapCost == 2
ExecuteCost == 2
SubmitCost == 6

\* _MIN_BUDGET_AFTER_CHECK_TOOL: the Check leaves two submits to the Main.
Reserve == 12

Stages == {"INITIAL", "SQL_ATTEMPT", "P2_INCREMENTAL", "DONE"}
Runtimes == [stage : Stages, rev : Nat, dims : Contents]
NoOutcome == [status |-> "none", rev |-> 0, dims |-> Unevaluated]
Evidence == [tables : (SUBSET Tables) \cup {Null}, answered : SUBSET Phrases,
             knowledge : (SUBSET Rules) \cup {Null}]
StageKinds == <<"structure", "mapping", "knowledge">>

VARIABLES
  pc,        \* "model", "propose" or "stopped"
  phase,     \* current_phase
  done,      \* task_done
  budget,    \* budget_remaining, in half coins; -1 ends the task
  batch,     \* calls of the current model response that have not started
  boot,      \* bootstrap tools the trajectory holds
  window,    \* what the phase's failed submits let before_tool refuse
  calls,     \* Provider calls of the task
  staged,    \* Provider calls of each phase but the repairs, up to 3
  formal,    \* the persisted GroundingRuntime
  work,      \* the Runtime the chain in flight works on
  entry,     \* the Runtime an exception of that chain leaves behind
  job,       \* the Provider call in flight
  draft,     \* _AtomicRegroundingDraft, in flight or stored
  pending,   \* _PendingCheckTool
  carrier,   \* _MappingOmissionCarrier
  clar,      \* the clarification overlay
  used,      \* request digests of the Check audits of each phase
  known,     \* P1 column meanings a P2 Check may replay once
  outcome    \* _PhaseGroundingOutcome of each phase

session == <<phase, done, budget, batch, boot, window>>
provider == <<calls, staged>>
check == <<pending, clar, used, known>>
vars == <<pc, session, provider, formal, work, entry, job, draft, check,
          carrier, outcome>>

\* No episode of the answer contract guard and none of the fresh recompile.
NoWindow == [guard |-> "off", fresh |-> "none"]

NoJob == [kind |-> "none", mode |-> "formal", origin |-> "none",
          latest |-> Null, status |-> "none"]

Init ==
  /\ pc = "model" /\ phase = 1 /\ done = FALSE
  /\ budget = Budget0 /\ batch = 0 /\ boot = 0 /\ window = NoWindow
  /\ calls = 0 /\ staged = [p \in Phase |-> 0]
  /\ formal = [stage |-> "INITIAL", rev |-> 0, dims |-> Unevaluated]
  /\ work = formal /\ entry = formal
  /\ job = NoJob /\ draft = Null /\ pending = Null /\ carrier = Null
  /\ clar = {} /\ used = {} /\ known = {}
  /\ outcome = [p \in Phase |-> NoOutcome]

(***************************************************************************)
(* Helpers                                                                 *)
(***************************************************************************)
Answered == {c.phrase : c \in {x \in clar : x.answered}}

Succeeded(p) == outcome[p].status = "succeeded"
Open(p) == outcome[p].status = "none"

Revised(rt, d) ==
  [rt EXCEPT !.dims = d, !.rev = @ + (IF d = rt.dims THEN 0 ELSE 1)]

\* _active_mapping_omission_carrier: the omissions that bind this Runtime.
CarrierActive(rt) ==
  carrier # Null /\ carrier.phase = phase /\ carrier.rev <= rt.rev
Omitted(rt) == IF CarrierActive(rt) THEN carrier.omitted ELSE {}

\* _mapping_actionable_evidence_sha256 of a Mapping request on these contents.
EvidenceFor(d, inDraft) ==
  [tables |-> d.tables, answered |-> Answered,
   knowledge |-> IF inDraft THEN d.knowledge ELSE Null]

\* _validate_mapping_omission_transition: an omission is kept, or resolved
\* by a legal re-Grounding that sees other evidence; it is never dropped.
OmissionStep(before, evidenceBefore, m, omitted, evidence, legal) ==
  /\ before \subseteq omitted \cup {x[1] : x \in m}
  /\ before \cap {x[1] : x \in m} # {} => legal /\ evidence # evidenceBefore

\* The guardrails of _schedule_check_tool before an Official call is recorded.
CanSchedule(req) ==
  /\ pending = Null
  /\ <<phase, req>> \notin used
  /\ budget - Cost(req) >= Reserve
  /\ req[1] = "ask" => req[2] \notin Answered

Schedule(req, from) ==
  /\ CanSchedule(req)
  /\ pending' = [phase |-> phase, req |-> req, origin |-> from]
  /\ used' = used \cup {<<phase, req>>}
  /\ clar' = IF req[1] = "ask"
               THEN clar \cup {[phase |-> phase, phrase |-> req[2],
                                origin |-> from, answered |-> FALSE]}
               ELSE clar
  /\ UNCHANGED known

CountCalls(n) ==
  /\ calls' = calls + n
  /\ staged' = [staged EXCEPT ![phase] = IF @ < 3 THEN @ + 1 ELSE 3]

(***************************************************************************)
(* How a chain goes on and how it ends                                     *)
(***************************************************************************)
\* The chain keeps the task in its callback: the next Provider call is made.
Continue(next) == pc' = "propose" /\ job' = next

\* The callback returns with this Runtime persisted.
Return(rt) ==
  /\ pc' = "model" /\ job' = NoJob
  /\ formal' = rt /\ work' = rt /\ entry' = rt

Record(status, rt) ==
  /\ Open(phase)
  /\ outcome' = [outcome EXCEPT ![phase] =
                   [status |-> status, rev |-> rt.rev, dims |-> rt.dims]]

\* _failed_phase_grounding_result, with the Draft (if any) rolled back.
FailPhase(rt) == Record("failed", rt) /\ Return(rt) /\ draft' = Null

\* _advance_ready_control_stage, then the immutable outcome.
Conclude(rt) ==
  LET ready == [rt EXCEPT !.stage = IF @ = "INITIAL" THEN "SQL_ATTEMPT" ELSE @]
  IN  Evaluated(ready.dims) /\ Record("succeeded", ready) /\ Return(ready)

\* An accepted formal stage is persisted before the next one starts.
StoreStage(rt) ==
  /\ formal' = rt /\ work' = rt
  /\ entry' = IF job.origin = "submit" THEN entry ELSE rt

Proposing(kind) == pc = "propose" /\ job.kind = kind /\ calls < MaxCalls

(***************************************************************************)
(* Formal stages: _handle_observation_serialized over                      *)
(* process_sql_grounding_observation                                       *)
(***************************************************************************)
After(kind) == CASE kind = "structure" -> "mapping"
                 [] kind = "mapping"   -> "knowledge"
                 [] kind = "knowledge" -> "check"

\* Only the bootstrap waits for the next Official tool between its stages.
NextStage ==
  IF job.origin = "bootstrap" /\ job.kind # "knowledge"
    THEN pc' = "model" /\ job' = NoJob
    ELSE Continue([job EXCEPT !.kind = After(job.kind)])

\* The place of a formal stage among the Provider calls of its phase.
InSequence ==
  \/ job.mode = "restart"
  \/ staged[phase] = (CASE job.kind = "structure" -> 0
                         [] job.kind = "mapping"   -> 1
                         [] job.kind = "knowledge" -> 2
                         [] job.kind = "check"     -> 3)

FormalStage(kind) ==
  Proposing(kind) /\ job.mode # "draft" /\ InSequence /\ Open(phase)

Structure ==
  /\ FormalStage("structure")
  /\ \E t \in SUBSET Tables :
       LET d == [work.dims EXCEPT !.tables = t]
       IN  Consistent(d) /\ StoreStage(Revised(work, d))
  /\ CountCalls(1)
  /\ NextStage
  /\ UNCHANGED <<session, draft, check, carrier, outcome>>

\* Mutant: the repair ignores the fuse.
MappingCallsUnfused == 1..2

\* A Mapping response that fails validation is repaired once: two calls, one
\* stage.
MappingCalls == {n \in 1..2 : calls + n <= MaxCalls}

Mapping ==
  /\ FormalStage("mapping")
  /\ \E t \in SUBSET Tables, m \in Mappings, omitted \in SUBSET Phrases :
       LET d == [work.dims EXCEPT !.tables = t, !.mapping = m]
           evidence == EvidenceFor(work.dims, FALSE)
       IN  /\ omitted \cap Mapped(d) = {}
           /\ Consistent(d)
           /\ CarrierActive(work) =>
                OmissionStep(carrier.omitted, carrier.evidence, m, omitted,
                             evidence, job.mode = "restart")
           /\ StoreStage(Revised(work, d))
           /\ carrier' = [phase |-> phase, rev |-> Revised(work, d).rev,
                          omitted |-> omitted, evidence |-> evidence]
  /\ \E n \in MappingCalls : CountCalls(n)
  /\ NextStage
  /\ UNCHANGED <<session, draft, check, outcome>>

\* Mutant: a rule justifies a mapping of an omitted phrase.
WithKnowledgeForOmitted(d, sel, m, omitted) ==
  LET prior == IF phase = 2 /\ d.knowledge # Null THEN d.knowledge ELSE {}
  IN  IF sel = {} => m = d.mapping
        THEN {[d EXCEPT !.mapping = m, !.knowledge = prior \cup sel]}
        ELSE {}

\* Phase 2 keeps every rule of Phase 1; a mapping changes only with a rule
\* to justify it, and never for an omitted phrase.
WithKnowledge(d, sel, m, omitted) ==
  LET prior == IF phase = 2 /\ d.knowledge # Null THEN d.knowledge ELSE {}
      new == [d EXCEPT !.mapping = m, !.knowledge = prior \cup sel]
  IN  IF /\ sel = {} => m = d.mapping
         /\ Mapped(new) \cap omitted = {}
        THEN {new}
        ELSE {}

Knowledge ==
  /\ FormalStage("knowledge")
  /\ \E sel \in SUBSET Rules, m \in Mappings :
       \E d \in WithKnowledge(work.dims, sel, m, Omitted(work)) :
         Consistent(d) /\ StoreStage(Revised(work, d))
  /\ CountCalls(1)
  /\ NextStage
  /\ UNCHANGED <<session, draft, check, carrier, outcome>>

\* What one Check may change: nothing on its own or after an answer, one
\* mapping after a column meaning, one rule after a definition.
ChangedPhrases(a, b) ==
  {p \in Phrases : {x \in a : x[1] = p} # {x \in b : x[1] = p}}

CheckedContents(d, latest) ==
  {d} \cup
  (IF latest = Null THEN {}
   ELSE IF latest.req[1] = "meaning"
     THEN {e \in {[d EXCEPT !.mapping = m] : m \in Mappings} :
             /\ Mapped(e) \subseteq Mapped(d)
             /\ Cardinality(ChangedPhrases(d.mapping, e.mapping)) <= 1}
   ELSE IF latest.req[1] = "definition" /\ latest.ok
     THEN {[d EXCEPT !.knowledge = @ \cup {latest.req[2]}]}
   ELSE {})

Answering == job.latest # Null /\ job.latest.req[1] = "ask"
\* Mutant: an answer to a Draft's question is an answer like another.
DraftAnswerForgotten == FALSE

DraftAnswer == Answering /\ job.latest.origin = "draft"

FormalCheck(d) ==
  /\ FormalStage("check")
  /\ Consistent(d)
  /\ CountCalls(1)

\* Mutant: a complete Check is taken at its word about omitted phrases.
CheckToGateOmitting(d, status) ==
  /\ FormalCheck(d) /\ FinalGate
  /\ status = "complete" => ~DraftAnswer
  /\ work' = Revised(work, d)
  /\ Continue([job EXCEPT !.kind = "gate", !.status = status])
  /\ UNCHANGED <<session, formal, entry, draft, check, carrier, outcome>>

\* The end of a round of the Check loop goes to the Final Gate, a complete
\* Check and one that names no tool alike.  So does every answer to a
\* question of a Draft: that Draft is gone.
CheckToGate(d, status) ==
  /\ FormalCheck(d) /\ FinalGate
  /\ status = "complete" => Omitted(work) = {} /\ ~DraftAnswer
  /\ work' = Revised(work, d)
  /\ Continue([job EXCEPT !.kind = "gate", !.status = status])
  /\ UNCHANGED <<session, formal, entry, draft, check, carrier, outcome>>

CheckComplete(d) ==
  /\ FormalCheck(d) /\ ~FinalGate
  /\ Omitted(work) = {}
  /\ Conclude(Revised(work, d))
  /\ UNCHANGED <<session, draft, check, carrier>>

\* An answer that invalidates the structure re-runs the four formal stages.
CheckRestart(d) ==
  /\ FormalCheck(d) /\ ~FinalGate /\ Answering
  /\ StoreStage(Revised(work, d))
  /\ Continue([job EXCEPT !.kind = "structure", !.mode = "restart",
                          !.latest = Null])
  /\ UNCHANGED <<session, draft, check, carrier, outcome>>

\* Phase 2 replays, once, the exact column meaning a Check of Phase 1 paid for.
Replayable(req) == phase = 2 /\ req[1] = "meaning" /\ req[2] \in known

CheckReplays(d, req) ==
  /\ FormalCheck(d) /\ ~DraftAnswer
  /\ Replayable(req)
  /\ known' = known \ {req[2]}
  /\ used' = used \cup {<<phase, req>>}
  /\ entry' = work
  /\ work' = Revised(work, d)
  /\ Continue([job EXCEPT !.latest =
                   [req |-> req, ok |-> TRUE, origin |-> "ordinary"]])
  /\ UNCHANGED <<session, formal, draft, pending, clar, carrier, outcome>>

CheckAsks(d, req) ==
  /\ FormalCheck(d) /\ ~DraftAnswer
  /\ ~Replayable(req)
  /\ Schedule(req, "ordinary")
  /\ Return(Revised(work, d))
  /\ UNCHANGED <<session, draft, carrier, outcome>>

Check ==
  \E d \in CheckedContents(work.dims, job.latest) :
    \/ \E status \in {"complete", "incomplete"} : CheckToGate(d, status)
    \/ CheckComplete(d)
    \/ CheckRestart(d)
    \/ \E req \in Requests : req[1] \in Tools /\ CheckReplays(d, req)
    \/ \E req \in Requests : req[1] \in Tools /\ CheckAsks(d, req)

(***************************************************************************)
(* The Final Gate and the private Draft                                    *)
(***************************************************************************)
Gating == Proposing("gate")

GateKeeps ==
  /\ Gating /\ job.status = "complete"
  /\ Conclude(work)
  /\ CountCalls(1)
  /\ UNCHANGED <<session, draft, check, carrier>>

\* A Draft starts from the formal State and its omissions; the formal side
\* stays frozen until the commit.
GateRegrounds ==
  /\ Gating
  /\ \E first \in {"structure", "mapping"} :
       Continue([job EXCEPT !.kind = first, !.mode = "draft",
                            !.latest = Null, !.status = "none"])
  /\ draft' = [base |-> [rev |-> work.rev, dims |-> work.dims],
               dims |-> work.dims,
               omitted |-> Omitted(work),
               evidence |-> IF CarrierActive(work) THEN carrier.evidence ELSE Null,
               official |-> 0, stored |-> FALSE]
  /\ CountCalls(1)
  /\ UNCHANGED <<session, formal, work, entry, check, carrier, outcome>>

DraftStage(kind) ==
  Proposing(kind) /\ job.mode = "draft" /\ CountCalls(1)

DraftGoesOn ==
  /\ Continue([job EXCEPT !.kind = After(job.kind)])
  /\ UNCHANGED <<session, formal, work, entry, check, carrier, outcome>>

\* Between its stages a Draft may be inconsistent: a new structure under the
\* old mapping.
DraftStructure ==
  /\ DraftStage("structure")
  /\ \E t \in SUBSET Tables : draft' = [draft EXCEPT !.dims.tables = t]
  /\ DraftGoesOn

DraftMapping ==
  /\ DraftStage("mapping")
  /\ \E t \in SUBSET Tables, m \in Mappings, omitted \in SUBSET Phrases :
       LET evidence == EvidenceFor(draft.dims, TRUE)
       IN  /\ omitted \cap {x[1] : x \in m} = {}
           /\ OmissionStep(draft.omitted, draft.evidence, m, omitted, evidence,
                           TRUE)
           /\ draft' = [draft EXCEPT !.dims.tables = t, !.dims.mapping = m,
                                     !.omitted = omitted, !.evidence = evidence]
  /\ DraftGoesOn

DraftKnowledge ==
  /\ DraftStage("knowledge")
  /\ \E sel \in SUBSET Rules, m \in Mappings :
       \E d \in WithKnowledge(draft.dims, sel, m, draft.omitted) :
         draft' = [draft EXCEPT !.dims = d]
  /\ DraftGoesOn

\* Mutant: the outcome is taken from the Runtime the commit replaces.
DraftCommitStale(d) ==
  /\ draft.omitted = {} /\ Consistent(d) /\ Evaluated(d)
  /\ Record("succeeded", work) /\ Return(Revised(work, d))
  /\ draft' = Null
  /\ carrier' = [phase |-> phase, rev |-> Revised(work, d).rev,
                 omitted |-> draft.omitted, evidence |-> draft.evidence]
  /\ UNCHANGED <<session, check>>

\* commit_sql_grounding_draft: the complete Draft is one formal revision.
Committed(d) == Consistent(d) /\ Conclude(Revised(work, d))

\* The commit has one outcome, and the Draft's omissions become the formal ones.
DraftCommit(d) ==
  /\ draft.omitted = {}
  /\ Committed(d)
  /\ draft' = Null
  /\ carrier' = [phase |-> phase, rev |-> Revised(work, d).rev,
                 omitted |-> draft.omitted, evidence |-> draft.evidence]
  /\ UNCHANGED <<session, check>>

\* What a Draft may ask the user: an omission of its own or, without any, a
\* requirement on a mapping it holds; about a phrase nobody was asked about.
DraftMayAsk(p, d) ==
  /\ p \in draft.omitted \/ (draft.omitted = {} /\ Mapped(d) # {})
  /\ p \notin {c.phrase : c \in clar}

\* The Draft is destroyed before the question leaves; only the formal State
\* waits for the answer.
DraftAsks(d, p) ==
  /\ "ask" \in Tools /\ DraftMayAsk(p, d)
  /\ Schedule(<<"ask", p>>, "draft")
  /\ draft' = Null
  /\ Return(work)
  /\ UNCHANGED <<session, carrier, outcome>>

\* Mutant: a Draft that pauses leaves its contents in the formal State.
DraftPausesLeaking(d, req) ==
  /\ req[1] \in Tools \cap {"meaning", "names", "definition"}
  /\ draft.official < MaxOfficial
  /\ Schedule(req, "ordinary")
  /\ draft' = [draft EXCEPT !.dims = d, !.official = @ + 1, !.stored = TRUE]
  /\ Return(Revised(work, d))
  /\ UNCHANGED <<session, carrier, outcome>>

DraftPauses(d, req) ==
  /\ req[1] \in Tools \cap {"meaning", "names", "definition"}
  /\ draft.official < MaxOfficial
  /\ Schedule(req, "ordinary")
  /\ draft' = [draft EXCEPT !.dims = d, !.official = @ + 1, !.stored = TRUE]
  /\ Return(work)
  /\ UNCHANGED <<session, carrier, outcome>>

DraftCheck ==
  /\ DraftStage("check")
  /\ \E d \in CheckedContents(draft.dims, job.latest) :
       \/ DraftCommit(d)
       \/ \E p \in Phrases : DraftAsks(d, p)
       \/ \E req \in Requests : DraftPauses(d, req)

(***************************************************************************)
(* Failures of a chain                                                     *)
(***************************************************************************)
\* The Provider is unreachable or its answer is refused, a Check or the Gate
\* gives up, a commit or a schedule is rejected: the phase fails on the
\* Runtime of the chain and a Draft is thrown away.  An exception between the
\* calls leaves the Runtime of the callback's entry instead.  None, one or both of a
\* repaired Mapping's calls are counted (GroundingCall).
ProviderFails ==
  /\ pc = "propose" /\ calls < MaxCalls
  /\ \E rt \in {work, entry} : FailPhase(rt)
  /\ \E n \in 0..2 : calls + n <= MaxCalls /\ calls' = calls + n
  /\ UNCHANGED <<session, staged, check, carrier>>

\* Mutant: the call beyond the fuse is tried again.
FuseRetries == pc = "propose" /\ calls >= MaxCalls /\ UNCHANGED vars

\* The safety fuse: a formal stage and the Gate report it, a Draft raises it
\* through the callback, which falls back to the Runtime of its entry.
FuseBlows ==
  /\ pc = "propose" /\ calls >= MaxCalls
  /\ FailPhase(IF job.mode = "draft" THEN entry ELSE work)
  /\ UNCHANGED <<session, provider, check, carrier>>

(***************************************************************************)
(* The turn boundary: before_model                                         *)
(***************************************************************************)
AtTurn == pc = "model" /\ batch = 0 /\ ~done /\ budget >= 0

Call(kind, origin, latest) ==
  Continue([NoJob EXCEPT !.kind = kind, !.origin = origin, !.latest = latest])

\* What after_tool makes of a bootstrap tool: its stage, or a failed phase.
BootstrapToolReturns(kind) ==
  /\ Call(kind, "bootstrap", Null)
  /\ UNCHANGED <<formal, work, entry, draft, outcome>>

BootstrapToolFails == FailPhase(formal)

\* _next_bootstrap_tool forces the three Official tools in their order.
Bootstrap ==
  /\ AtTurn /\ phase = 1 /\ formal.stage = "INITIAL" /\ Open(1)
  /\ boot < 3 /\ staged[1] = boot
  /\ boot' = boot + 1 /\ budget' = budget - BootstrapCost
  /\ BootstrapToolReturns(StageKinds[boot + 1]) \/ BootstrapToolFails
  /\ UNCHANGED <<phase, done, batch, window, provider, check, carrier>>

\* The result of a Check's tool goes to the stored Draft, on its own base, or to
\* a formal Check.  A tool error is a result, too, but no evidence for Phase 2.
ToolObserved(req, ok) ==
  /\ draft # Null => draft.base = [rev |-> formal.rev, dims |-> formal.dims]
  /\ Continue([NoJob EXCEPT
       !.kind = "check", !.origin = "check",
       !.mode = IF draft # Null THEN "draft" ELSE "formal",
       !.latest = [req |-> req, ok |-> ok, origin |-> pending.origin]])
  /\ known' = IF phase = 1 /\ ok /\ req[1] = "meaning"
                THEN known \cup {req[2]} ELSE known

\* The tool a Check asked for, forced as the model's answer and consumed
\* before its result is processed.
DispatchTool ==
  /\ AtTurn /\ Open(phase) /\ pending # Null
  /\ pending.req[1] # "ask"
  /\ budget >= Cost(pending.req)
  /\ \E ok \in BOOLEAN : ToolObserved(pending.req, ok)
  /\ pending' = Null
  /\ budget' = budget - Cost(pending.req)
  /\ UNCHANGED <<phase, done, batch, window, boot, provider, formal, work, entry,
                 draft, clar, used, carrier, outcome>>

\* The answer joins the overlay, outside the State, and is checked.
DispatchQuestion ==
  /\ AtTurn /\ Open(phase) /\ pending # Null
  /\ pending.req[1] = "ask"
  /\ draft = Null
  /\ budget >= Cost(pending.req)
  /\ clar' = {IF c.phrase = pending.req[2] /\ c.phase = phase
                THEN [c EXCEPT !.answered = TRUE] ELSE c : c \in clar}
  /\ Call("check", "check",
          [req |-> pending.req, ok |-> TRUE, origin |-> pending.origin])
  /\ pending' = Null
  /\ budget' = budget - Cost(pending.req)
  /\ UNCHANGED <<phase, done, batch, window, boot, provider, formal, work, entry,
                 draft, used, known, carrier, outcome>>

Stop == pc' = "stopped" /\ job' = NoJob

\* A user simulator that fails is an infrastructure error: the run is aborted.
QuestionAborts ==
  /\ AtTurn /\ pending # Null
  /\ pending.req[1] = "ask"
  /\ budget' = budget - Cost(pending.req)
  /\ pending' = Null
  /\ Stop
  /\ UNCHANGED <<phase, done, batch, window, boot, provider, formal, work, entry,
                 draft, clar, used, known, carrier, outcome>>

\* The failed phase, the finished task and the spent budget end the run.
RunEnds ==
  /\ pc = "model" /\ batch = 0
  /\ done \/ budget < 0 \/ outcome[phase].status = "failed"
  /\ Stop
  /\ UNCHANGED <<session, provider, formal, work, entry, draft, check,
                 carrier, outcome>>

(***************************************************************************)
(* The Main agent                                                          *)
(***************************************************************************)
\* before_model hands a turn to the Main agent once the phase is grounded;
\* it answers with tool calls or with prose, which ends the run.
MainTurn ==
  /\ AtTurn /\ Succeeded(phase) /\ pending = Null
  /\ \/ \E n \in 1..Batch : batch' = n /\ UNCHANGED <<pc, job>>
     \/ Stop /\ UNCHANGED batch
  /\ UNCHANGED <<phase, done, budget, boot, window, provider, formal, work,
                 entry, draft, check, carrier, outcome>>

\* The next call of the response starts when the one before it has returned,
\* or waits for the Provider inside its callback.
CallStarts ==
  /\ batch > 0 /\ pc \in {"model", "propose"}
  /\ batch' = batch - 1
  /\ UNCHANGED <<boot, provider, draft, check, carrier, outcome>>

\* before_tool refuses every call of a failed phase.
FailClosed == ~Leaderboard /\ outcome[phase].status = "failed"

\* _evaluate_main_execute_gate applies only where the phase has succeeded.
FrozenState ==
  outcome[phase].rev = formal.rev /\ outcome[phase].dims = formal.dims
ExecuteAllowed ==
  /\ ~FailClosed
  /\ ~Leaderboard /\ Succeeded(phase) => FrozenState

MainExecute ==
  /\ CallStarts
  /\ IF ExecuteAllowed /\ budget >= ExecuteCost
       THEN budget' = budget - ExecuteCost
       ELSE UNCHANGED budget
  /\ UNCHANGED <<pc, job, phase, done, window, formal, work, entry>>

\* SQL that contradicts a verified answer contract is refused once after a
\* failed submit.
GuardRefuses ==
  window.guard = "armed" /\ window' = [window EXCEPT !.guard = "spent"]

\* A recompile that repeats the failed SQL is refused and has used up its window.
RepeatRefused ==
  window.fresh = "open" /\ window' = [window EXCEPT !.fresh = "over"]

\* Both come before every other check of before_tool and cost nothing.  A window
\* opened while a chain is under way stays open here; in the code it lapses with
\* the State it was opened on.
SqlRefused ==
  /\ CallStarts
  /\ GuardRefuses \/ RepeatRefused
  /\ UNCHANGED <<pc, job, phase, done, budget, formal, work, entry>>

\* evaluate_first_submit_gate: an open question blocks every submit.
SubmitAllowed ==
  ~FailClosed /\ (Leaderboard \/ \A c \in clar : c.answered)

ChargeSubmit ==
  budget' = IF budget <= SubmitCost THEN -1 ELSE budget - SubmitCost

SubmitRefused ==
  /\ CallStarts /\ ~SubmitAllowed
  /\ UNCHANGED <<pc, job, phase, done, budget, window, formal, work, entry>>

Submitting == CallStarts /\ SubmitAllowed /\ ~done /\ ChargeSubmit

\* The window of the fresh recompile opens once in a phase and closes with the
\* next submit.
FreshAfter(plain) ==
  CASE window.fresh = "open"          -> "over"
    [] window.fresh = "none" /\ plain -> "open"
    [] OTHER                          -> window.fresh

\* The plain answer "SQL failed" arms the guard; every other one disarms it.
AfterSubmit(plain) ==
  [guard |-> IF plain THEN "armed" ELSE "off", fresh |-> FreshAfter(plain)]

\* The windows of a phase are not read in the next one.
AfterPass == IF phase = 1 THEN NoWindow ELSE AfterSubmit(FALSE)

\* A submit that fails, or whose answer is lost, never re-opens Grounding.  One
\* that raises leaves the windows alone.
SubmitFails ==
  /\ Submitting
  /\ window' \in {AfterSubmit(TRUE), AfterSubmit(FALSE), window}
  /\ UNCHANGED <<pc, job, phase, done, formal, work, entry>>

\* Mutant: the control transition counts as a revision of the State.
SubmitEndsTaskRevised ==
  /\ Submitting
  /\ done' = TRUE /\ phase' = 2 /\ window' = AfterPass
  /\ formal' = [formal EXCEPT !.stage = "DONE", !.rev = @ + 1]
  /\ IF pc = "model" THEN work' = formal' /\ entry' = formal'
                     ELSE UNCHANGED <<work, entry>>
  /\ UNCHANGED <<pc, job>>

\* The passing submit that ends the task.
SubmitEndsTask ==
  /\ Submitting
  /\ done' = TRUE /\ phase' = 2 /\ window' = AfterPass
  /\ formal' = [formal EXCEPT !.stage = "DONE"]
  /\ IF pc = "model" THEN work' = formal' /\ entry' = formal'
                     ELSE UNCHANGED <<work, entry>>
  /\ UNCHANGED <<pc, job>>

\* Mutant: Phase 2 begins on an empty State.
SubmitOpensPhase2Empty ==
  /\ Submitting /\ pc = "model" /\ phase = 1
  /\ formal.stage = "SQL_ATTEMPT"
  /\ phase' = 2 /\ window' = AfterPass
  /\ formal' = [stage |-> "P2_INCREMENTAL", rev |-> 0, dims |-> Unevaluated]
  /\ work' = formal' /\ entry' = formal'
  /\ Call("structure", "submit", Null)
  /\ UNCHANGED done

\* The passing submit of Phase 1: the transition is not persisted yet, and
\* the four stages of Phase 2 run inside this callback.
SubmitOpensPhase2 ==
  /\ Submitting /\ pc = "model" /\ phase = 1
  /\ formal.stage = "SQL_ATTEMPT"
  /\ phase' = 2 /\ window' = AfterPass
  /\ work' = [formal EXCEPT !.stage = "P2_INCREMENTAL"] /\ entry' = work'
  /\ Call("structure", "submit", Null)
  /\ UNCHANGED <<done, formal>>

(***************************************************************************)
(* Specification                                                           *)
(***************************************************************************)
ProviderStep ==
  \/ Structure \/ Mapping \/ Knowledge \/ Check
  \/ GateKeeps \/ GateRegrounds
  \/ DraftStructure \/ DraftMapping \/ DraftKnowledge \/ DraftCheck
  \/ ProviderFails \/ FuseBlows

ToolStep == Bootstrap \/ DispatchTool \/ DispatchQuestion \/ QuestionAborts

CallStep == MainExecute \/ SqlRefused \/ SubmitRefused \/ SubmitFails
              \/ SubmitEndsTask \/ SubmitOpensPhase2

Stopped == pc = "stopped" /\ UNCHANGED vars

Next == ProviderStep \/ ToolStep \/ MainTurn \/ CallStep \/ RunEnds \/ Stopped

Spec == Init /\ [][Next]_vars

\* Every Provider call and every Official call returns: both have timeouts.  All
\* calls of a model response are run.
FairSpec ==
  Spec /\ WF_vars(ProviderStep) /\ WF_vars(ToolStep) /\ WF_vars(CallStep)

(***************************************************************************)
(* Properties                                                              *)
(***************************************************************************)
Requesting == [req : Requests, ok : BOOLEAN, origin : {"ordinary", "draft"}]
Jobs == [kind : {"none", "structure", "mapping", "knowledge", "check", "gate"},
         mode : {"formal", "restart", "draft"},
         origin : {"none", "bootstrap", "submit", "check"},
         latest : Requesting \cup {Null},
         status : {"none", "complete", "incomplete"}]
Drafts == [base : [rev : Nat, dims : Contents], dims : Contents,
           omitted : SUBSET Phrases, evidence : Evidence \cup {Null},
           official : Nat, stored : BOOLEAN]
Pendings == [phase : Phase, req : Requests, origin : {"ordinary", "draft"}]
Outcomes == [status : {"none", "succeeded", "failed"}, rev : Nat,
             dims : Contents]
Carriers == [phase : Phase, rev : Nat, omitted : SUBSET Phrases,
             evidence : Evidence]

Windows == [guard : {"off", "armed", "spent"}, fresh : {"none", "open", "over"}]

\* None is no value of the types it stands beside.
ASSUME NullAssumption ==
  /\ \A x \in (SUBSET Tables) \cup (SUBSET Rules) \cup Mappings : x # Null
  /\ Null \notin Drafts /\ Null \notin Pendings /\ Null \notin Carriers
  /\ Null \notin Requesting /\ Null \notin Evidence

\* Every variable holds a value of its kind (the typed records the callbacks
\* keep under their state keys).
TypeOK ==
  /\ pc \in {"model", "propose", "stopped"}
  /\ phase \in Phase /\ done \in BOOLEAN
  /\ budget \in Int /\ batch \in 0..Batch /\ boot \in 0..3
  /\ window \in Windows
  /\ calls \in 0..MaxCalls /\ staged \in [Phase -> 0..3]
  /\ formal \in Runtimes /\ work \in Runtimes /\ entry \in Runtimes
  /\ job \in Jobs
  /\ draft \in Drafts \cup {Null}
  /\ pending \in Pendings \cup {Null}
  /\ carrier \in Carriers \cup {Null}
  /\ clar \subseteq [phase : Phase, phrase : Phrases,
                     origin : {"ordinary", "draft"}, answered : BOOLEAN]
  /\ used \subseteq (Phase \X Requests) /\ known \subseteq Columns
  /\ outcome \in [Phase -> Outcomes]

\* Whenever the Main agent may act in a grounded phase, the persisted State is
\* the one whose success was recorded: the execute gate never answers
\* frozen_state_unavailable, through restarts, commits, rollbacks and the
\* stages of Phase 2 that run inside the submit of Phase 1.
FrozenStateAvailable ==
  pc = "model" /\ Succeeded(phase) => FrozenState

\* A phase that succeeded has a complete and consistent State, no omitted
\* phrase, no question without an answer, and nothing of its Check loop left
\* behind.
SucceededMeansComplete ==
  \A p \in Phase : Succeeded(p) =>
    /\ Evaluated(outcome[p].dims) /\ Consistent(outcome[p].dims)
    /\ carrier # Null /\ (carrier.phase = p => carrier.omitted = {})
    /\ \A c \in clar : c.phase = p => c.answered
    /\ p = phase => pending = Null /\ draft = Null

\* The formal State never maps a phrase its active omissions still list, so
\* reading the carrier never raises the "conflicts with current State" error.
OmissionsNotMapped ==
  pc # "propose" => Omitted(formal) \cap Mapped(formal.dims) = {}

\* A Draft that waits for an Official tool waits on the formal State it was
\* built from, with the tool still pending in its own phase: it can always be
\* resumed, and "formal State changed during atomic re-Grounding" is never
\* raised.
StoredDraftResumable ==
  draft # Null /\ pc = "model" =>
    /\ draft.base = [rev |-> formal.rev, dims |-> formal.dims]
    /\ pending # Null /\ pending.phase = phase /\ pending.origin = "ordinary"
    /\ pending.req[1] \in {"meaning", "names", "definition"}

\* A question a Draft asked is not forgotten with that Draft: the phase can
\* only succeed on a Mapping that was decided with the answer in view.
DraftAnswersCount ==
  \A p \in Phase : \A c \in clar :
    Succeeded(p) /\ c.phase = p /\ c.origin = "draft" /\ carrier.phase = p
      => c.phrase \in carrier.evidence.answered

\* Every phase that begins gets its verdict, or the run ends: no pending tool,
\* paused Draft or exhausted fuse leaves a phase neither grounded nor failed.
GroundingConcludes ==
  \A p \in Phase : (phase = p) ~> (~Open(p) \/ pc = "stopped" \/ done)

\* What a phase of Grounding promises the rest of the task: GroundingLedger.
Ledger == INSTANCE GroundingLedger
  WITH States    <- Contents,
       Initial   <- Unevaluated,
       Complete  <- {d \in Contents : Evaluated(d) /\ Consistent(d)},
       Preserves <- {x \in Contents \X Contents :
                       x[1].knowledge \subseteq x[2].knowledge},
       phase     <- phase,
       state     <- formal.dims,
       verdict   <- [p \in Phase |-> [status |-> outcome[p].status,
                                      state  |-> outcome[p].dims]]

\* The chains of Provider calls, the Check loop, the Gate and the Drafts
\* implement the ledger: a verdict is given once, on a complete State, it
\* freezes the State until the next phase, and Phase 2 loses no business rule
\* of Phase 1, through its own stages, its Checks and its Drafts.
ImplementsLedger == Ledger!Spec

\* docs/architecture.md, "Draft": a Draft that fails leaves the formal State it
\* was built from as it was.
DraftFailureKeepsFormal ==
  [][draft # Null /\ draft' = Null /\ outcome'[phase].status = "failed" =>
       formal'.dims = draft.base.dims]_vars
=============================================================================
