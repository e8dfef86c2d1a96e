-------------------------- MODULE Grounding_proofs --------------------------
(* Theorems about the staged Grounding of one task, for every schema, every  *)
(* set of phrases, rules and tools, every budget, fuse and batch, with and   *)
(* without the Final Gate and the leaderboard profile.                       *)
EXTENDS Grounding, TLAPS

Proposes == pc = "propose"
InDraft == job.mode = "draft"

-----------------------------------------------------------------------------
(* The inductive invariant *)

\* Outside a chain all three Runtimes are the persisted one.
AtRest == ~Proposes => work = formal /\ entry = formal

\* Phase 2 and the calls of the Main agent come after the success of Phase 1;
\* a chain only runs in a phase that has no verdict.
Verdicts ==
  /\ phase = 2 \/ batch > 0 => Succeeded(1)
  /\ phase = 1 => Open(2)
  /\ Proposes => Open(phase)

\* Where a chain is: a Check, the Gate and a Draft work on a complete State, in a
\* phase that has been through its first three stages.
Chain ==
  Proposes =>
    /\ job.kind # "none"
    /\ pending = Null
    /\ draft # Null <=> InDraft
    /\ job.kind \in {"check", "gate"} => Evaluated(work.dims)
    /\ InDraft \/ job.mode = "restart" \/ job.kind = "gate" \/ job.origin = "check"
         => staged[phase] = 3
    /\ job.kind = "gate" => FinalGate /\ ~InDraft

\* The tool of a Check waits in its own phase, on a complete State.
Waiting ==
  pending # Null =>
    /\ Open(phase) /\ staged[phase] = 3
    /\ pending.phase = phase
    /\ Evaluated(formal.dims)
    /\ pending.origin = "draft" => pending.req[1] = "ask" /\ FinalGate

\* A Draft keeps the State it was built from, and from its mapping on the evidence
\* it mapped with; stored, it has a tool to wait for.
Drafted ==
  draft # Null =>
    /\ Open(phase) /\ staged[phase] = 3 /\ FinalGate
    /\ Evaluated(draft.dims) /\ Evaluated(work.dims)
    /\ draft.base = [rev |-> work.rev, dims |-> work.dims]
    /\ ~Proposes \/ job.kind \in {"knowledge", "check"} => draft.evidence # Null
    /\ ~Proposes =>
         /\ pending # Null /\ pending.origin = "ordinary"
         /\ pending.req[1] \in {"meaning", "names", "definition"}

Control == TypeOK /\ AtRest /\ Verdicts /\ Chain /\ Waiting /\ Drafted

\* The State of a verdict is complete and consistent, and frozen outside a
\* chain; the Gate looks at a consistent State.
Frozen ==
  /\ \A p \in Phase : Succeeded(p) =>
       Evaluated(outcome[p].dims) /\ Consistent(outcome[p].dims)
  /\ ~Proposes /\ Succeeded(phase) => FrozenState
  /\ Proposes /\ job.kind = "gate" => Consistent(work.dims)

\* Every State of Phase 2 has the rules Phase 1 succeeded with.
KeepsRules(d) == d.knowledge # Null /\ outcome[1].dims.knowledge \subseteq d.knowledge
RulesKept ==
  phase = 2 =>
    /\ KeepsRules(formal.dims) /\ KeepsRules(work.dims) /\ KeepsRules(entry.dims)
    /\ draft # Null => KeepsRules(draft.dims)

\* The other Runtimes are no later than the chain's, and equal to it when no
\* revision lies between; none maps a phrase whose omission binds it.
Since(rt) == rt.rev <= work.rev /\ (rt.rev = work.rev => rt.dims = work.dims)
Respects(rt) == Omitted(rt) \cap Mapped(rt.dims) = {}
Omissions ==
  /\ Since(formal) /\ Since(entry)
  /\ Respects(formal) /\ Respects(work) /\ Respects(entry)
  /\ carrier # Null => carrier.phase <= phase
  /\ carrier # Null /\ carrier.phase = phase /\ Open(phase) => carrier.rev <= work.rev
  /\ staged[phase] >= 2 => carrier # Null
  /\ Proposes /\ job.kind = "gate" /\ job.status = "complete" => Omitted(work) = {}
  /\ \A p \in Phase : Succeeded(p) =>
       carrier # Null /\ (carrier.phase = p => carrier.omitted = {})

\* A question without an answer is the one the task waits for, or ended with.
Questions ==
  \A c \in clar :
    /\ c.phase <= phase
    /\ ~c.answered =>
         /\ c.phase = phase /\ Open(phase)
         /\ \/ pc = "stopped"
            \/ pending # Null /\ pending.req = <<"ask", c.phrase>>

\* A Draft asked in this phase.
DraftAsked == \E c \in clar : c.phase = phase /\ c.origin = "draft"

\* The answers to such questions are in view.
InView(evidence) ==
  \A c \in clar : c.phase = phase /\ c.origin = "draft" => c.phrase \in evidence.answered

\* From the question of a Draft on, a phase can only succeed with a later Draft.
DraftQuestions ==
  /\ \A c \in clar : c.origin = "draft" => FinalGate
  /\ DraftAsked /\ Proposes =>
       \/ InDraft
       \/ job.kind = "check" /\ DraftAnswer
       \/ job.kind = "gate" /\ job.status = "incomplete"
  /\ DraftAsked /\ Open(phase) /\ pc = "model" =>
       pending # Null /\ (draft # Null \/ pending.origin = "draft")
  /\ draft # Null /\ (~Proposes \/ job.kind \in {"knowledge", "check"}) =>
       InView(draft.evidence)
  /\ DraftAnswersCount

-----------------------------------------------------------------------------
(* The operators on Runtimes, contents and evidence *)

LEMMA Complete ==
    ASSUME NEW d \in Contents, Evaluated(d)
    PROVE  d.tables \in SUBSET Tables /\ d.mapping \in Mappings /\ d.knowledge \in SUBSET Rules
BY DEF Contents, Evaluated

\* New contents are a new revision, the same contents are none.
LEMMA RevisedFacts ==
    ASSUME NEW rt \in Runtimes, NEW d \in Contents
    PROVE  /\ Revised(rt, d) \in Runtimes
           /\ Revised(rt, d).dims = d
           /\ Revised(rt, d).stage = rt.stage
           /\ Revised(rt, d).rev \in Nat
           /\ Revised(rt, d).rev >= rt.rev
           /\ Revised(rt, d).rev = rt.rev => d = rt.dims
<1>. DEFINE n == rt.rev + (IF d = rt.dims THEN 0 ELSE 1)
<1>1. rt.rev \in Nat
  BY DEF Runtimes
<1>2. n \in Nat /\ n >= rt.rev /\ (n = rt.rev => d = rt.dims)
  BY <1>1
<1>3. Revised(rt, d) = [rt EXCEPT !.dims = d, !.rev = n]
  BY DEF Revised
<1>. HIDE DEF n
<1>. QED BY <1>2, <1>3 DEF Runtimes

LEMMA MappedFacts ==
    ASSUME NEW d \in Contents
    PROVE  Mapped(d) \in SUBSET Phrases
BY DEF Mapped, Contents, Mappings

LEMMA EvidenceFacts ==
    ASSUME TypeOK, NEW d \in Contents, NEW inDraft \in BOOLEAN
    PROVE  /\ EvidenceFor(d, inDraft) \in Evidence
           /\ EvidenceFor(d, inDraft).answered = Answered
<1>1. Answered \in SUBSET Phrases
  BY DEF Answered, TypeOK
<1>2. d.tables \in (SUBSET Tables) \cup {Null} /\ d.knowledge \in (SUBSET Rules) \cup {Null}
  BY DEF Contents
<1>. QED BY <1>1, <1>2 DEF EvidenceFor, Evidence

LEMMA OmittedFacts ==
    ASSUME TypeOK, NEW rt \in Runtimes
    PROVE  /\ Omitted(rt) \in SUBSET Phrases
           /\ CarrierActive(rt) => carrier \in Carriers
BY DEF TypeOK, Omitted, CarrierActive, Carriers

\* The Knowledge stage selects rules and adds them to those of Phase 1.
LEMMA KnowledgeFacts ==
    ASSUME NEW d \in Contents, NEW sel \in SUBSET Rules, NEW m \in Mappings,
           NEW omitted, NEW e \in WithKnowledge(d, sel, m, omitted)
    PROVE  /\ e \in Contents
           /\ e.tables = d.tables /\ e.mapping = m /\ e.mapping # Null
           /\ e.knowledge \in SUBSET Rules /\ e.knowledge # Null
           /\ phase = 2 /\ d.knowledge # Null => d.knowledge \subseteq e.knowledge
           /\ Mapped(e) \cap omitted = {}
<1>. DEFINE prior == IF phase = 2 /\ d.knowledge # Null THEN d.knowledge ELSE {}
            new == [d EXCEPT !.mapping = m, !.knowledge = prior \cup sel]
<1>1. prior \in SUBSET Rules
  BY DEF Contents
<1>2. e = new /\ Mapped(new) \cap omitted = {}
  BY DEF WithKnowledge
<1>3. prior \cup sel \in SUBSET Rules
  BY <1>1
<1>4. phase = 2 /\ d.knowledge # Null => d.knowledge \subseteq prior \cup sel
  OBVIOUS
<1>5. m # Null /\ prior \cup sel # Null
  BY <1>3, NullAssumption
<1>. HIDE DEF prior
<1>. QED BY <1>2, <1>3, <1>4, <1>5 DEF Contents

\* A Check takes no rule away and maps no further phrase.
LEMMA CheckedFacts ==
    ASSUME NEW d \in Contents, Evaluated(d), NEW latest \in Requesting \cup {Null},
           NEW e \in CheckedContents(d, latest)
    PROVE  /\ e \in Contents /\ Evaluated(e)
           /\ d.knowledge \subseteq e.knowledge
           /\ Mapped(e) \subseteq Mapped(d)
<1>1. CASE e = d
  BY <1>1
<1>2. CASE latest # Null /\ \E m \in Mappings : e = [d EXCEPT !.mapping = m] /\ Mapped(e) \subseteq Mapped(d)
  BY <1>2, NullAssumption DEF Contents, Evaluated
<1>3. CASE /\ latest # Null /\ latest.req[1] = "definition"
           /\ e = [d EXCEPT !.knowledge = @ \cup {latest.req[2]}]
  <2>1. latest.req[2] \in Rules
    BY <1>3 DEF Requesting, Requests
  <2>2. d.knowledge \cup {latest.req[2]} \in SUBSET Rules
    BY <2>1, Complete
  <2>. DEFINE k == d.knowledge \cup {latest.req[2]}
  <2>3. e = [d EXCEPT !.knowledge = k] /\ k \in SUBSET Rules /\ d.knowledge \subseteq k
    BY <1>3, <2>2
  <2>. HIDE DEF k
  <2>. QED BY <2>3, NullAssumption DEF Contents, Evaluated, Mapped
<1>. QED BY <1>1, <1>2, <1>3 DEF CheckedContents

-----------------------------------------------------------------------------
(* The effects the handlers share *)

LEMMA CountFacts ==
    ASSUME TypeOK, NEW n \in 1..2, calls + n <= MaxCalls, CountCalls(n)
    PROVE  /\ calls' \in 0..MaxCalls /\ staged' \in [Phase -> 0..3]
           /\ staged'[phase] = IF staged[phase] < 3 THEN staged[phase] + 1 ELSE 3
<1>1. calls' \in 0..MaxCalls
  BY GroundingAssumption DEF TypeOK, CountCalls
<1>2. phase \in Phase /\ staged \in [Phase -> 0..3]
  BY DEF TypeOK
<1>. DEFINE k == IF staged[phase] < 3 THEN staged[phase] + 1 ELSE 3
<1>3. k \in 0..3
  BY <1>2
<1>4. staged' = [staged EXCEPT ![phase] = k]
  BY DEF CountCalls
<1>. HIDE DEF k
<1>5. staged' \in [Phase -> 0..3] /\ staged'[phase] = k
  BY <1>2, <1>3, <1>4
<1>. QED BY <1>1, <1>5 DEF k

LEMMA RecordFacts ==
    ASSUME TypeOK, NEW status \in {"succeeded", "failed"}, NEW rt \in Runtimes,
           Record(status, rt)
    PROVE  /\ outcome' \in [Phase -> Outcomes]
           /\ outcome'[phase] = [status |-> status, rev |-> rt.rev, dims |-> rt.dims]
           /\ \A p \in Phase : p # phase => outcome'[p] = outcome[p]
<1>. DEFINE o == [status |-> status, rev |-> rt.rev, dims |-> rt.dims]
<1>1. phase \in Phase /\ outcome \in [Phase -> Outcomes]
  BY DEF TypeOK
<1>2. o \in Outcomes
  BY DEF Outcomes, Runtimes
<1>3. outcome' = [outcome EXCEPT ![phase] = o]
  BY DEF Record
<1>. HIDE DEF o
<1>4. /\ outcome' \in [Phase -> Outcomes] /\ outcome'[phase] = o
      /\ \A p \in Phase : p # phase => outcome'[p] = outcome[p]
  BY <1>1, <1>2, <1>3
<1>. QED BY <1>4 DEF o

LEMMA ScheduleFacts ==
    ASSUME TypeOK, NEW req \in Requests, NEW from \in {"ordinary", "draft"},
           Schedule(req, from)
    PROVE  /\ pending' \in Pendings /\ pending' # Null
           /\ pending' = [phase |-> phase, req |-> req, origin |-> from]
           /\ clar' \subseteq [phase : Phase, phrase : Phrases,
                               origin : {"ordinary", "draft"}, answered : BOOLEAN]
           /\ used' \subseteq (Phase \X Requests)
           /\ known' = known
<1>1. phase \in Phase /\ used \subseteq (Phase \X Requests)
  BY DEF TypeOK
<1>2. pending' \in Pendings /\ pending' = [phase |-> phase, req |-> req, origin |-> from]
  BY <1>1 DEF Schedule, Pendings
<1>3. used' \subseteq (Phase \X Requests) /\ known' = known
  BY <1>1 DEF Schedule
<1>4. req[1] = "ask" => req[2] \in Phrases
  BY DEF Requests
<1>5. clar' \subseteq [phase : Phase, phrase : Phrases,
                       origin : {"ordinary", "draft"}, answered : BOOLEAN]
  <2>. DEFINE T == [phase : Phase, phrase : Phrases,
                    origin : {"ordinary", "draft"}, answered : BOOLEAN]
  <2>1. clar \subseteq T
    BY DEF TypeOK
  <2>2. CASE req[1] = "ask"
    <3>. DEFINE c == [phase |-> phase, phrase |-> req[2], origin |-> from, answered |-> FALSE]
    <3>1. c \in T
      BY <1>1, <1>4, <2>2
    <3>2. clar' = clar \cup {c}
      BY <2>2 DEF Schedule
    <3>. QED BY <2>1, <3>1, <3>2
  <2>3. CASE req[1] # "ask"
    BY <2>1, <2>3 DEF Schedule
  <2>. QED BY <2>2, <2>3
<1>. QED BY <1>2, <1>3, <1>5, NullAssumption

LEMMA ReturnFacts ==
    ASSUME NEW rt \in Runtimes, Return(rt)
    PROVE  /\ pc' = "model" /\ job' \in Jobs
           /\ formal' = rt /\ work' = rt /\ entry' = rt
BY DEF Return, NoJob, Jobs

\* The windows stay windows through every answer to a submit.
LEMMA WindowFacts ==
    ASSUME window \in Windows
    PROVE  /\ AfterSubmit(TRUE) \in Windows /\ AfterSubmit(FALSE) \in Windows
           /\ AfterPass \in Windows
BY DEF AfterSubmit, FreshAfter, AfterPass, NoWindow, Windows

-----------------------------------------------------------------------------
(* Control, handler by handler *)

\* An accepted formal stage.
LEMMA StageControl ==
    ASSUME Control, FormalStage(job.kind), job.kind \in {"structure", "mapping", "knowledge"},
           NEW rt \in Runtimes, StoreStage(rt), job.kind = "knowledge" => Evaluated(rt.dims),
           NEW n \in 1..2, calls + n <= MaxCalls, CountCalls(n),
           NextStage, carrier' \in Carriers \cup {Null},
           UNCHANGED <<session, draft, check, outcome>>
    PROVE  Control'
<1>. USE DEF Control
<1>1. /\ pc = "propose" /\ job.mode # "draft" /\ Open(phase)
      /\ pending = Null /\ draft = Null
  BY DEF FormalStage, Proposing, Chain, Proposes, InDraft
<1>2. /\ phase' = phase /\ done' = done /\ budget' = budget /\ batch' = batch /\ boot' = boot
      /\ window' = window
      /\ draft' = draft /\ pending' = pending /\ clar' = clar /\ used' = used
      /\ known' = known /\ outcome' = outcome
  BY DEF session, check
<1>3. formal' = rt /\ work' = rt /\ entry' \in {entry, rt}
  BY DEF StoreStage
<1>4. \/ pc' = "model" /\ job' = NoJob /\ job.origin = "bootstrap"
      \/ /\ pc' = "propose" /\ job' = [job EXCEPT !.kind = After(job.kind)]
         /\ After(job.kind) \in {"mapping", "knowledge", "check"}
         /\ job.kind = "knowledge" <=> After(job.kind) = "check"
  BY DEF NextStage, Continue, After
<1>5. job \in Jobs /\ job' \in Jobs
  <2>. job \in Jobs
    BY DEF TypeOK
  <2>. DEFINE a == After(job.kind)
  <2>. HIDE DEF a
  <2>. QED BY <1>4 DEF Jobs, NoJob, a
<1>6. TypeOK'
  BY <1>2, <1>3, <1>4, <1>5, CountFacts DEF TypeOK
<1>7. AtRest'
  BY <1>1, <1>3, <1>4 DEF AtRest, Proposes, StoreStage, NextStage
<1>8. Verdicts'
  BY <1>1, <1>2 DEF Verdicts, Proposes, Open, Succeeded
<1>9. Chain'
  BY <1>1, <1>2, <1>3, <1>4, <1>5, CountFacts DEF Chain, Proposes, InDraft, FormalStage, InSequence, Jobs, TypeOK
<1>10. Waiting' /\ Drafted'
  BY <1>1, <1>2 DEF Waiting, Drafted
<1>. QED BY <1>6, <1>7, <1>8, <1>9, <1>10

\* A verdict: the chain, if one ran, returns with it, and no Draft is left.
LEMMA VerdictControl ==
    ASSUME Control, pending = Null,
           NEW rt \in Runtimes, NEW status \in {"succeeded", "failed"},
           Record(status, rt), Return(rt), draft' = Null,
           carrier' \in Carriers \cup {Null},
           UNCHANGED <<phase, done, batch, window, check>>, budget' \in Int, boot' \in 0..3,
           calls' \in 0..MaxCalls, staged' \in [Phase -> 0..3]
    PROVE  Control'
<1>. USE DEF Control
<1>1. /\ phase' = phase /\ done' = done /\ batch' = batch /\ window' = window
      /\ pending' = Null /\ clar' = clar /\ used' = used /\ known' = known
  BY DEF check
<1>2. TypeOK'
  BY <1>1, RecordFacts, ReturnFacts DEF TypeOK
<1>3. AtRest' /\ Chain' /\ Waiting' /\ Drafted'
  BY <1>1, ReturnFacts DEF AtRest, Chain, Waiting, Drafted, Proposes
<1>4. Verdicts'
  BY <1>1, RecordFacts, ReturnFacts DEF Verdicts, Proposes, Record, Open, Succeeded, TypeOK, Phase
<1>. QED BY <1>2, <1>3, <1>4

\* The chain goes on: to the Gate, to a further Check, into or through a Draft.
LEMMA ChainControl ==
    ASSUME Control, Proposes, Proposes',
           UNCHANGED <<session, pending, clar, outcome, carrier>>,
           formal' \in Runtimes, work' \in Runtimes, entry' \in Runtimes,
           calls' \in 0..MaxCalls, staged' \in [Phase -> 0..3], staged'[phase] = 3,
           used' \subseteq (Phase \X Requests), known' \subseteq Columns,
           job' \in Jobs, job'.kind # "none",
           draft' \in Drafts \cup {Null}, draft' # Null <=> job'.mode = "draft",
           job'.kind \in {"check", "gate"} \/ draft' # Null => Evaluated(work'.dims),
           job'.kind = "gate" => FinalGate /\ draft' = Null,
           draft' # Null =>
             /\ FinalGate /\ Evaluated(draft'.dims)
             /\ draft'.base = [rev |-> work'.rev, dims |-> work'.dims]
             /\ job'.kind \in {"knowledge", "check"} => draft'.evidence # Null
    PROVE  Control'
<1>. USE DEF Control
<1>1. /\ phase' = phase /\ done' = done /\ budget' = budget /\ batch' = batch /\ boot' = boot
      /\ window' = window
      /\ pending' = pending /\ clar' = clar /\ outcome' = outcome /\ carrier' = carrier
  BY DEF session
<1>2. pending' = Null /\ Open(phase)
  BY <1>1 DEF Chain, Verdicts
<1>3. TypeOK'
  BY <1>1 DEF TypeOK, Proposes
<1>4. AtRest' /\ Waiting'
  BY <1>2 DEF AtRest, Waiting
<1>5. Verdicts'
  BY <1>1, <1>2 DEF Verdicts, Open, Succeeded
<1>6. Chain' /\ Drafted'
  BY <1>1, <1>2 DEF Chain, Drafted, InDraft, Open
<1>. QED BY <1>3, <1>4, <1>5, <1>6

\* The chain returns without a verdict: it waits for the tool it scheduled.
LEMMA PauseControl ==
    ASSUME Control, Proposes,
           NEW rt \in Runtimes, Return(rt), Evaluated(rt.dims),
           NEW req \in Requests, NEW from \in {"ordinary", "draft"}, Schedule(req, from),
           from = "draft" => req[1] = "ask" /\ FinalGate,
           UNCHANGED <<session, outcome, carrier>>,
           calls' \in 0..MaxCalls, staged' \in [Phase -> 0..3], staged'[phase] = 3,
           draft' \in Drafts \cup {Null},
           draft' # Null =>
             /\ FinalGate /\ Evaluated(draft'.dims)
             /\ draft'.base = [rev |-> rt.rev, dims |-> rt.dims]
             /\ draft'.evidence # Null
             /\ from = "ordinary" /\ req[1] \in {"meaning", "names", "definition"}
    PROVE  Control'
<1>. USE DEF Control
<1>1. /\ phase' = phase /\ done' = done /\ budget' = budget /\ batch' = batch /\ boot' = boot
      /\ window' = window
      /\ outcome' = outcome /\ carrier' = carrier
  BY DEF session
<1>2. Open(phase)
  BY DEF Verdicts
<1>3. /\ pending'.phase = phase /\ pending'.req = req /\ pending'.origin = from
  BY ScheduleFacts
<1>4. TypeOK'
  BY <1>1, ReturnFacts, ScheduleFacts DEF TypeOK
<1>5. AtRest' /\ Chain'
  BY ReturnFacts DEF AtRest, Chain, Proposes
<1>6. Verdicts'
  BY <1>1, ReturnFacts DEF Verdicts, Open, Succeeded, Proposes
<1>7. Waiting' /\ Drafted'
  BY <1>1, <1>2, <1>3, ReturnFacts, ScheduleFacts DEF Waiting, Drafted, Open
<1>. QED BY <1>4, <1>5, <1>6, <1>7

\* A chain starts at a turn boundary, behind an Official tool.
LEMMA StartControl ==
    ASSUME Control, AtTurn, Open(phase), Proposes',
           UNCHANGED <<phase, done, batch, window, provider, formal, work, entry,
                       draft, carrier, outcome>>,
           budget' \in Int, boot' \in 0..3, pending' = Null,
           clar' \subseteq [phase : Phase, phrase : Phrases,
                            origin : {"ordinary", "draft"}, answered : BOOLEAN],
           used' \subseteq (Phase \X Requests), known' \subseteq Columns,
           job' \in Jobs, job'.kind \notin {"none", "gate"},
           draft # Null <=> job'.mode = "draft", job'.mode # "restart",
           job'.kind = "check" \/ job'.origin = "check" =>
             Evaluated(formal.dims) /\ staged[phase] = 3
    PROVE  Control'
<1>. USE DEF Control
<1>1. /\ phase' = phase /\ done' = done /\ batch' = batch /\ window' = window
      /\ calls' = calls /\ staged' = staged
      /\ formal' = formal /\ work' = work /\ entry' = entry /\ draft' = draft
      /\ carrier' = carrier /\ outcome' = outcome
  BY DEF provider
<1>2. work = formal /\ (draft # Null => staged[phase] = 3 /\ draft.evidence # Null)
  BY DEF AtTurn, AtRest, Drafted, Proposes
<1>3. TypeOK'
  BY <1>1 DEF TypeOK, Proposes
<1>4. AtRest' /\ Waiting'
  BY DEF AtRest, Waiting
<1>5. Verdicts'
  BY <1>1 DEF Verdicts, Open, Succeeded
<1>6. Chain' /\ Drafted'
  BY <1>1, <1>2 DEF Chain, Drafted, InDraft, Open
<1>. QED BY <1>3, <1>4, <1>5, <1>6

\* A call of the Main agent leaves contents and revision of the State alone; it
\* may end the task while a chain of Phase 2 is in flight.
LEMMA CallControl ==
    ASSUME Control, CallStarts, UNCHANGED <<pc, job>>, budget' \in Int, window' \in Windows,
           phase' \in {phase, 2}, done' \in BOOLEAN, formal' \in Runtimes,
           formal'.dims = formal.dims, formal'.rev = formal.rev,
           \/ pc = "model" /\ work' = formal' /\ entry' = formal'
           \/ UNCHANGED <<work, entry>> /\ (pc = "model" => formal' = formal)
    PROVE  Control'
<1>. USE DEF Control
<1>1. /\ batch > 0 /\ batch' = batch - 1 /\ pc' = pc /\ job' = job
      /\ pc \in {"model", "propose"}
      /\ boot' = boot /\ calls' = calls /\ staged' = staged /\ draft' = draft
      /\ pending' = pending /\ clar' = clar /\ used' = used /\ known' = known
      /\ carrier' = carrier /\ outcome' = outcome
  BY DEF CallStarts, provider, check
<1>2. Succeeded(1) /\ phase \in Phase /\ phase' \in Phase /\ (phase = 1 => ~Open(phase))
  BY <1>1 DEF Verdicts, TypeOK, Succeeded, Open, Phase
<1>3. phase' = phase \/ (~Proposes /\ pending = Null /\ draft = Null)
  BY <1>2 DEF Verdicts, Waiting, Drafted, Phase
<1>a. \/ pc = "model" /\ work' = formal' /\ entry' = formal'
      \/ work' = work /\ entry' = entry /\ (pc = "model" => formal' = formal)
  OBVIOUS
<1>b. batch' \in 0..Batch /\ (batch' > 0 => batch > 0)
  BY <1>1, GroundingAssumption DEF TypeOK
<1>c. work' \in Runtimes /\ entry' \in Runtimes
  BY <1>a DEF TypeOK
<1>4. TypeOK'
  BY <1>1, <1>2, <1>b, <1>c DEF TypeOK
<1>5. AtRest' /\ Verdicts'
  BY <1>1, <1>2, <1>3, <1>a DEF AtRest, Verdicts, Proposes, Open, Succeeded, Phase
<1>6. work'.dims = work.dims /\ work'.rev = work.rev /\ (Proposes => work' = work)
  BY <1>1, <1>a DEF AtRest, Proposes
<1>7. Chain' /\ Waiting' /\ Drafted'
  BY <1>1, <1>3, <1>6 DEF Chain, Waiting, Drafted, InDraft, Proposes, Open
<1>. QED BY <1>4, <1>5, <1>7

\* The run stops, or the Main agent answers with a batch of calls.
LEMMA TurnControl ==
    ASSUME Control, ~Proposes,
           \/ Stop /\ UNCHANGED batch
           \/ Succeeded(phase) /\ batch' \in 1..Batch /\ UNCHANGED <<pc, job>>,
           UNCHANGED <<phase, done, boot, window, provider, formal, work, entry, draft,
                       clar, used, known, carrier, outcome>>,
           budget' \in Int,
           pending' = pending \/ (pending' = Null /\ pending.req[1] = "ask")
    PROVE  Control'
<1>. USE DEF Control
<1>1. /\ phase' = phase /\ done' = done /\ boot' = boot /\ window' = window /\ calls' = calls /\ staged' = staged
      /\ formal' = formal /\ work' = work /\ entry' = entry /\ draft' = draft
      /\ clar' = clar /\ used' = used /\ known' = known
      /\ carrier' = carrier /\ outcome' = outcome
  BY DEF provider
<1>2. /\ pc' \in {"model", "stopped"} /\ job' \in Jobs
  BY DEF TypeOK, Proposes, Stop, NoJob, Jobs
<1>3. batch' \in 0..Batch /\ (batch' > 0 => Succeeded(1))
  BY GroundingAssumption DEF TypeOK, Verdicts, Phase
<1>4. TypeOK'
  BY <1>1, <1>2, <1>3 DEF TypeOK
<1>5. AtRest' /\ Verdicts' /\ Chain'
  BY <1>1, <1>2, <1>3 DEF AtRest, Verdicts, Chain, Proposes, Open, Succeeded
<1>6. Waiting' /\ Drafted'
  BY <1>1, <1>2 DEF Waiting, Drafted, Proposes, Open
<1>. QED BY <1>4, <1>5, <1>6

LEMMA ControlInit == Init => Control
<1>. SUFFICES ASSUME Init PROVE Control
  OBVIOUS
<1>1. formal \in Runtimes /\ NoJob \in Jobs /\ NoOutcome \in Outcomes
  BY DEF Init, Runtimes, Stages, Contents, Unevaluated, NoJob, Jobs, NoOutcome, Outcomes
<1>2. TypeOK
  <2>1. /\ pc = "model" /\ phase \in Phase /\ budget \in Int
        /\ batch \in 0..Batch /\ boot \in 0..3 /\ calls \in 0..MaxCalls
    BY GroundingAssumption DEF Init, Phase
  <2>3. done \in BOOLEAN /\ window \in Windows
    BY DEF Init, NoWindow, Windows
  <2>2. /\ work \in Runtimes /\ entry \in Runtimes /\ job \in Jobs
        /\ staged \in [Phase -> 0..3] /\ outcome \in [Phase -> Outcomes]
    BY <1>1 DEF Init
  <2>. QED BY <1>1, <2>1, <2>2, <2>3 DEF Init, TypeOK
<1>3. AtRest /\ Verdicts /\ Chain /\ Waiting /\ Drafted
  BY DEF Init, AtRest, Verdicts, Chain, Waiting, Drafted, Proposes, Open, NoOutcome, Phase
<1>. QED BY <1>2, <1>3 DEF Control

LEMMA ControlStep == Control /\ [Next]_vars => Control'
<1>. SUFFICES ASSUME Control, [Next]_vars PROVE Control'
  OBVIOUS
<1>. USE DEF Control
<1>a. /\ formal \in Runtimes /\ work \in Runtimes /\ entry \in Runtimes /\ job \in Jobs
      /\ calls \in 0..MaxCalls /\ staged \in [Phase -> 0..3] /\ budget \in Int
      /\ carrier \in Carriers \cup {Null} /\ draft \in Drafts \cup {Null}
      /\ known \subseteq Columns /\ used \subseteq (Phase \X Requests)
  BY DEF TypeOK
<1>b. work.dims \in Contents /\ (draft # Null => draft.dims \in Contents)
  BY <1>a DEF Runtimes, Drafts
<1>1. CASE Structure
  <2>1. PICK t \in SUBSET Tables :
          StoreStage(Revised(work, [work.dims EXCEPT !.tables = t]))
    BY <1>1 DEF Structure
  <2>2. [work.dims EXCEPT !.tables = t] \in Contents
    BY <1>b DEF Contents
  <2>3. Revised(work, [work.dims EXCEPT !.tables = t]) \in Runtimes
    BY <1>a, <2>2, RevisedFacts
  <2>4. calls + 1 <= MaxCalls /\ job.kind = "structure"
    BY <1>1, <1>a, GroundingAssumption DEF Structure, FormalStage, Proposing
  <2>. QED BY <1>1, <1>a, <2>1, <2>3, <2>4, StageControl DEF Structure
<1>2. CASE Mapping
  <2>1. PICK t \in SUBSET Tables, m \in Mappings, omitted \in SUBSET Phrases :
          LET d == [work.dims EXCEPT !.tables = t, !.mapping = m]
              evidence == EvidenceFor(work.dims, FALSE)
          IN  /\ StoreStage(Revised(work, d))
              /\ carrier' = [phase |-> phase, rev |-> Revised(work, d).rev,
                             omitted |-> omitted, evidence |-> evidence]
    BY <1>2 DEF Mapping
  <2>. DEFINE d == [work.dims EXCEPT !.tables = t, !.mapping = m]
  <2>2. d \in Contents
    BY <1>b DEF Contents
  <2>3. Revised(work, d) \in Runtimes /\ Revised(work, d).rev \in Nat
    BY <1>a, <2>2, RevisedFacts
  <2>4. carrier' \in Carriers
    BY <1>b, <2>1, <2>3, EvidenceFacts DEF Carriers, TypeOK
  <2>5. PICK n \in MappingCalls : CountCalls(n)
    BY <1>2 DEF Mapping
  <2>6. n \in 1..2 /\ calls + n <= MaxCalls /\ job.kind = "mapping"
    BY <1>2, <2>5 DEF MappingCalls, Mapping, FormalStage, Proposing
  <2>. HIDE DEF d
  <2>. QED BY <1>2, <2>1, <2>3, <2>4, <2>5, <2>6, StageControl DEF Mapping, d
<1>3. CASE Knowledge
  <2>1. PICK sel \in SUBSET Rules, m \in Mappings :
          \E d \in WithKnowledge(work.dims, sel, m, Omitted(work)) :
             Consistent(d) /\ StoreStage(Revised(work, d))
    BY <1>3 DEF Knowledge
  <2>2. PICK d \in WithKnowledge(work.dims, sel, m, Omitted(work)) :
          Consistent(d) /\ StoreStage(Revised(work, d))
    BY <2>1
  <2>. DEFINE o == Omitted(work)
  <2>0. d \in WithKnowledge(work.dims, sel, m, o)
    OBVIOUS
  <2>. HIDE DEF o
  <2>3. d \in Contents /\ d.mapping # Null /\ d.knowledge # Null
    BY <1>b, <2>0, KnowledgeFacts
  <2>4. Evaluated(d)
    BY <2>2, <2>3 DEF Evaluated, Consistent
  <2>5. Revised(work, d) \in Runtimes /\ Evaluated(Revised(work, d).dims)
    BY <1>a, <2>3, <2>4, RevisedFacts
  <2>6. calls + 1 <= MaxCalls /\ job.kind = "knowledge"
    BY <1>3, <1>a, GroundingAssumption DEF Knowledge, FormalStage, Proposing
  <2>. QED BY <1>3, <1>a, <2>2, <2>5, <2>6, StageControl DEF Knowledge
<1>4. CASE Check
  <2>1. PICK d \in CheckedContents(work.dims, job.latest) :
          \/ \E status \in {"complete", "incomplete"} : CheckToGate(d, status)
          \/ CheckComplete(d)
          \/ CheckRestart(d)
          \/ \E req \in Requests : req[1] \in Tools /\ CheckReplays(d, req)
          \/ \E req \in Requests : req[1] \in Tools /\ CheckAsks(d, req)
    BY <1>4 DEF Check
  <2>2. FormalCheck(d)
    BY <2>1 DEF CheckToGate, CheckComplete, CheckRestart, CheckReplays, CheckAsks
  <2>3. /\ Proposes /\ job.kind = "check" /\ job.mode # "draft" /\ draft = Null
        /\ pending = Null /\ Open(phase) /\ staged[phase] = 3 /\ calls < MaxCalls
    BY <2>2 DEF FormalCheck, FormalStage, Proposing, InSequence, Proposes, Chain, InDraft
  <2>4. d \in Contents /\ Evaluated(d)
    BY <1>a, <1>b, <2>3, CheckedFacts DEF Chain, Jobs
  <2>. DEFINE rt == Revised(work, d)
  <2>5. rt \in Runtimes /\ rt.dims = d
    BY <1>a, <2>4, RevisedFacts
  <2>. HIDE DEF rt
  <2>6. calls' \in 0..MaxCalls /\ staged' \in [Phase -> 0..3] /\ staged'[phase] = 3
    BY <1>a, <2>2, <2>3, CountFacts, GroundingAssumption DEF FormalCheck
  <2>7. ASSUME NEW status \in {"complete", "incomplete"}, CheckToGate(d, status)
        PROVE  Control'
    <3>1. job' = [job EXCEPT !.kind = "gate", !.status = status] /\ FinalGate /\ work' = rt
      BY <2>7 DEF CheckToGate, Continue, rt
    <3>2. job' \in Jobs /\ job'.kind = "gate" /\ job'.mode = job.mode
      BY <1>a, <3>1 DEF Jobs
    <3>. QED BY <1>a, <2>3, <2>4, <2>5, <2>6, <2>7, <3>1, <3>2, ChainControl
             DEF CheckToGate, Continue, Proposes, check
  <2>8. CASE CheckComplete(d)
    <3>1. Record("succeeded", [rt EXCEPT !.stage = IF @ = "INITIAL" THEN "SQL_ATTEMPT" ELSE @])
          /\ Return([rt EXCEPT !.stage = IF @ = "INITIAL" THEN "SQL_ATTEMPT" ELSE @])
      BY <2>8 DEF CheckComplete, Conclude, rt
    <3>2. [rt EXCEPT !.stage = IF @ = "INITIAL" THEN "SQL_ATTEMPT" ELSE @] \in Runtimes
      BY <2>5 DEF Runtimes, Stages
    <3>. QED BY <1>a, <2>3, <2>6, <2>8, <3>1, <3>2, VerdictControl DEF CheckComplete, session, TypeOK
  <2>9. CASE CheckRestart(d)
    <3>1. /\ job' = [job EXCEPT !.kind = "structure", !.mode = "restart", !.latest = Null]
          /\ StoreStage(rt)
      BY <2>9 DEF CheckRestart, Continue, rt
    <3>2. job' \in Jobs /\ job'.kind = "structure" /\ job'.mode = "restart"
      BY <1>a, <3>1 DEF Jobs
    <3>3. formal' = rt /\ work' = rt /\ entry' \in {entry, rt}
      BY <3>1 DEF StoreStage
    <3>. QED BY <1>a, <2>3, <2>4, <2>5, <2>6, <2>9, <3>2, <3>3, ChainControl
             DEF CheckRestart, Continue, Proposes, check
  <2>10. ASSUME NEW req \in Requests, CheckReplays(d, req) PROVE Control'
    <3>1. /\ job' = [job EXCEPT !.latest = [req |-> req, ok |-> TRUE, origin |-> "ordinary"]]
          /\ work' = rt
      BY <2>10 DEF CheckReplays, Continue, rt
    <3>2. [req |-> req, ok |-> TRUE, origin |-> "ordinary"] \in Requesting
      BY DEF Requesting
    <3>3. job' \in Jobs /\ job'.kind = "check" /\ job'.mode = job.mode
      BY <1>a, <2>3, <3>1, <3>2 DEF Jobs
    <3>4. used' \subseteq (Phase \X Requests) /\ known' \subseteq Columns
      BY <1>a, <2>10 DEF CheckReplays, TypeOK
    <3>. QED BY <1>a, <2>3, <2>4, <2>5, <2>6, <2>10, <3>1, <3>3, <3>4, ChainControl
             DEF CheckReplays, Continue, Proposes
  <2>11. ASSUME NEW req \in Requests, CheckAsks(d, req) PROVE Control'
    <3>1. Schedule(req, "ordinary") /\ Return(rt)
      BY <2>11 DEF CheckAsks, rt
    <3>. QED BY <1>a, <2>3, <2>4, <2>5, <2>6, <2>11, <3>1, PauseControl DEF CheckAsks
  <2>. QED BY <2>1, <2>7, <2>8, <2>9, <2>10, <2>11
<1>5. CASE GateKeeps
  <2>. DEFINE rt == [work EXCEPT !.stage = IF @ = "INITIAL" THEN "SQL_ATTEMPT" ELSE @]
  <2>1. rt \in Runtimes /\ Record("succeeded", rt) /\ Return(rt)
    BY <1>5, <1>a DEF GateKeeps, Conclude, Runtimes, Stages
  <2>2. pending = Null /\ draft = Null /\ calls + 1 <= MaxCalls
    BY <1>5, <1>a, GroundingAssumption DEF GateKeeps, Gating, Proposing, Chain, Proposes
  <2>3. calls' \in 0..MaxCalls /\ staged' \in [Phase -> 0..3]
    BY <1>5, <2>2, CountFacts DEF GateKeeps
  <2>. HIDE DEF rt
  <2>. QED BY <1>5, <1>a, <2>1, <2>2, <2>3, VerdictControl DEF GateKeeps, session, TypeOK
<1>6. CASE GateRegrounds
  <2>1. /\ Proposes /\ job.kind = "gate" /\ FinalGate /\ pending = Null
        /\ staged[phase] = 3 /\ calls < MaxCalls /\ Evaluated(work.dims) /\ phase \in Phase
    BY <1>6 DEF GateRegrounds, Gating, Proposing, Chain, Proposes, TypeOK
  <2>2. calls' \in 0..MaxCalls /\ staged' \in [Phase -> 0..3] /\ staged'[phase] = 3
    BY <1>6, <1>a, <2>1, CountFacts, GroundingAssumption DEF GateRegrounds
  <2>3. PICK first \in {"structure", "mapping"} :
          Continue([job EXCEPT !.kind = first, !.mode = "draft",
                               !.latest = Null, !.status = "none"])
    BY <1>6 DEF GateRegrounds
  <2>4. job' \in Jobs /\ job'.kind = first /\ job'.mode = "draft" /\ Proposes'
    BY <1>a, <2>3 DEF Jobs, Continue, Proposes
  <2>5. /\ draft' \in Drafts /\ draft'.dims = work.dims
        /\ draft'.base = [rev |-> work.rev, dims |-> work.dims]
    <3>1. Omitted(work) \in SUBSET Phrases /\ (CarrierActive(work) => carrier.evidence \in Evidence)
      BY <1>a, OmittedFacts DEF Carriers
    <3>. DEFINE o == Omitted(work)
                ev == IF CarrierActive(work) THEN carrier.evidence ELSE Null
    <3>2. o \in SUBSET Phrases /\ ev \in Evidence \cup {Null}
      BY <3>1
    <3>3. draft' = [base |-> [rev |-> work.rev, dims |-> work.dims], dims |-> work.dims,
                    omitted |-> o, evidence |-> ev, official |-> 0, stored |-> FALSE]
      BY <1>6 DEF GateRegrounds
    <3>. HIDE DEF o, ev
    <3>. QED BY <1>a, <1>b, <3>2, <3>3 DEF Drafts, Runtimes
  <2>6. draft' # Null
    BY <2>5, NullAssumption
  <2>. QED BY <1>6, <1>a, <2>1, <2>2, <2>4, <2>5, <2>6, ChainControl DEF GateRegrounds, check
<1>7. ASSUME DraftStage(job.kind), job.kind \in {"structure", "mapping", "knowledge"}, DraftGoesOn,
             draft' \in Drafts, draft'.base = draft.base, Evaluated(draft'.dims),
             job.kind # "structure" => draft'.evidence # Null
      PROVE  Control'
  <2>1. /\ Proposes /\ InDraft /\ draft # Null /\ FinalGate /\ pending = Null
        /\ staged[phase] = 3 /\ calls < MaxCalls
    BY <1>7 DEF DraftStage, Proposing, Proposes, InDraft, Chain, Drafted
  <2>2. calls' \in 0..MaxCalls /\ staged' \in [Phase -> 0..3] /\ staged'[phase] = 3
    BY <1>7, <1>a, <2>1, CountFacts, GroundingAssumption DEF DraftStage
  <2>3. /\ job' = [job EXCEPT !.kind = After(job.kind)] /\ Proposes'
        /\ After(job.kind) \in {"mapping", "knowledge", "check"}
        /\ job.kind = "structure" => After(job.kind) = "mapping"
    BY <1>7 DEF DraftGoesOn, Continue, After, Proposes
  <2>4. /\ job' \in Jobs /\ job'.kind # "none" /\ job'.kind # "gate" /\ job'.mode = "draft"
        /\ job'.kind \in {"knowledge", "check"} => job.kind # "structure"
    <3>. DEFINE a == After(job.kind)
    <3>1. /\ job' = [job EXCEPT !.kind = a] /\ a \in {"mapping", "knowledge", "check"}
          /\ job.kind = "structure" => a = "mapping"
      BY <2>3
    <3>. HIDE DEF a
    <3>. QED BY <1>a, <2>1, <3>1 DEF Jobs, InDraft
  <2>5. draft' # Null
    BY <1>7, NullAssumption
  <2>. QED BY <1>7, <1>a, <2>1, <2>2, <2>3, <2>4, <2>5, ChainControl DEF DraftGoesOn, check, Drafted
<1>8. CASE DraftStructure
  <2>1. draft \in Drafts /\ Evaluated(draft.dims) /\ job.kind = "structure"
    BY <1>8, <1>a DEF DraftStructure, DraftStage, Proposing, Chain, Drafted, Proposes, InDraft
  <2>2. PICK t \in SUBSET Tables : draft' = [draft EXCEPT !.dims.tables = t]
    BY <1>8 DEF DraftStructure
  <2>3. t # Null
    BY NullAssumption
  <2>4. draft' \in Drafts /\ draft'.base = draft.base /\ Evaluated(draft'.dims)
    BY <2>1, <2>2, <2>3 DEF Drafts, Contents, Evaluated
  <2>. QED BY <1>7, <1>8, <2>1, <2>4 DEF DraftStructure
<1>9. CASE DraftMapping
  <2>1. draft \in Drafts /\ Evaluated(draft.dims) /\ job.kind = "mapping"
    BY <1>9, <1>a DEF DraftMapping, DraftStage, Proposing, Chain, Drafted, Proposes, InDraft
  <2>. DEFINE ev == EvidenceFor(draft.dims, TRUE)
  <2>2. PICK t \in SUBSET Tables, m \in Mappings, omitted \in SUBSET Phrases :
          draft' = [draft EXCEPT !.dims.tables = t, !.dims.mapping = m,
                                 !.omitted = omitted, !.evidence = ev]
    BY <1>9 DEF DraftMapping
  <2>3. t # Null /\ m # Null
    BY NullAssumption
  <2>4. ev \in Evidence /\ ev # Null
    BY <1>b, <2>1, EvidenceFacts, NullAssumption
  <2>. HIDE DEF ev
  <2>5. /\ draft' \in Drafts /\ draft'.base = draft.base /\ Evaluated(draft'.dims)
        /\ draft'.evidence # Null
    BY <2>1, <2>2, <2>3, <2>4 DEF Drafts, Contents, Evaluated
  <2>. QED BY <1>7, <1>9, <2>1, <2>5 DEF DraftMapping
<1>10. CASE DraftKnowledge
  <2>1. /\ draft # Null /\ draft \in Drafts /\ Evaluated(draft.dims) /\ job.kind = "knowledge"
        /\ draft.evidence # Null
    BY <1>10, <1>a DEF DraftKnowledge, DraftStage, Proposing, Chain, Drafted, Proposes, InDraft
  <2>2. PICK sel \in SUBSET Rules, m \in Mappings :
          \E d \in WithKnowledge(draft.dims, sel, m, draft.omitted) : draft' = [draft EXCEPT !.dims = d]
    BY <1>10 DEF DraftKnowledge
  <2>. DEFINE o == draft.omitted
              b == draft.dims
  <2>3. PICK d \in WithKnowledge(b, sel, m, o) : draft' = [draft EXCEPT !.dims = d]
    BY <2>2
  <2>b. b \in Contents
    BY <1>b, <2>1
  <2>. HIDE DEF o, b
  <2>d. d \in WithKnowledge(b, sel, m, o)
    OBVIOUS
  <2>c. d \in Contents /\ d.tables = b.tables /\ d.mapping # Null /\ d.knowledge # Null
    BY <2>b, <2>d, KnowledgeFacts
  <2>4. d \in Contents /\ d.tables = draft.dims.tables /\ d.mapping # Null /\ d.knowledge # Null
    BY <2>c DEF b
  <2>5. /\ draft' \in Drafts /\ draft'.base = draft.base /\ Evaluated(draft'.dims)
        /\ draft'.evidence # Null
    BY <2>1, <2>3, <2>4 DEF Drafts, Evaluated
  <2>. QED BY <1>7, <1>10, <2>1, <2>5 DEF DraftKnowledge
<1>11. CASE DraftCheck
  <2>1. PICK d \in CheckedContents(draft.dims, job.latest) :
          \/ DraftCommit(d)
          \/ \E p \in Phrases : DraftAsks(d, p)
          \/ \E req \in Requests : DraftPauses(d, req)
    BY <1>11 DEF DraftCheck
  <2>2. /\ Proposes /\ InDraft /\ draft # Null /\ FinalGate /\ pending = Null
        /\ staged[phase] = 3 /\ calls < MaxCalls
        /\ Evaluated(draft.dims) /\ Evaluated(work.dims)
        /\ draft.base = [rev |-> work.rev, dims |-> work.dims] /\ draft.evidence # Null
    BY <1>11 DEF DraftCheck, DraftStage, Proposing, Proposes, InDraft, Chain, Drafted
  <2>3. calls' \in 0..MaxCalls /\ staged' \in [Phase -> 0..3] /\ staged'[phase] = 3
    BY <1>11, <1>a, <2>2, CountFacts, GroundingAssumption DEF DraftCheck, DraftStage
  <2>4. d \in Contents /\ Evaluated(d)
    BY <1>a, <1>b, <2>2, CheckedFacts DEF Jobs
  <2>5. CASE DraftCommit(d)
    <3>. DEFINE rt == Revised(work, d)
                ready == [rt EXCEPT !.stage = IF @ = "INITIAL" THEN "SQL_ATTEMPT" ELSE @]
    <3>1. rt \in Runtimes /\ rt.rev \in Nat
      BY <1>a, <2>4, RevisedFacts
    <3>2. Record("succeeded", ready) /\ Return(ready)
      BY <2>5 DEF DraftCommit, Committed, Conclude
    <3>3. /\ draft' = Null /\ UNCHANGED <<session, check>>
          /\ carrier' = [phase |-> phase, rev |-> rt.rev,
                         omitted |-> draft.omitted, evidence |-> draft.evidence]
      BY <2>5 DEF DraftCommit
    <3>. HIDE DEF rt
    <3>4. ready \in Runtimes
      BY <3>1 DEF Runtimes, Stages
    <3>5. carrier' \in Carriers
      BY <1>a, <2>2, <3>1, <3>3 DEF Carriers, Drafts, TypeOK
    <3>. HIDE DEF ready
    <3>. QED BY <1>a, <2>2, <2>3, <3>2, <3>3, <3>4, <3>5, VerdictControl DEF session, TypeOK
  <2>6. ASSUME NEW p \in Phrases, DraftAsks(d, p) PROVE Control'
    <3>1. <<"ask", p>> \in Requests
      BY DEF Requests
    <3>2. Schedule(<<"ask", p>>, "draft") /\ Return(work)
      BY <2>6 DEF DraftAsks
    <3>. DEFINE req == <<"ask", p>>
    <3>3. req[1] = "ask"
      OBVIOUS
    <3>. HIDE DEF req
    <3>. QED BY <1>a, <2>2, <2>3, <2>6, <3>1, <3>2, <3>3, PauseControl DEF DraftAsks, req
  <2>7. ASSUME NEW req \in Requests, DraftPauses(d, req) PROVE Control'
    <3>1. Schedule(req, "ordinary") /\ Return(work) /\ req[1] \in {"meaning", "names", "definition"}
      BY <2>7 DEF DraftPauses
    <3>. DEFINE n == draft.official + 1
    <3>a. draft \in Drafts /\ n \in Nat
      BY <1>a, <2>2 DEF Drafts
    <3>b. draft' = [draft EXCEPT !.dims = d, !.official = n, !.stored = TRUE]
      BY <2>7 DEF DraftPauses
    <3>. HIDE DEF n
    <3>2. /\ draft' \in Drafts /\ draft'.base = draft.base /\ draft'.dims = d
          /\ draft'.evidence = draft.evidence
      BY <2>4, <3>a, <3>b DEF Drafts
    <3>. QED BY <1>a, <2>2, <2>3, <2>4, <2>7, <3>1, <3>2, PauseControl DEF DraftPauses
  <2>. QED BY <2>1, <2>5, <2>6, <2>7
<1>12. CASE ProviderFails
  <2>. PICK rt \in {work, entry} : FailPhase(rt)
    BY <1>12 DEF ProviderFails
  <2>1. /\ Record("failed", rt) /\ Return(rt) /\ draft' = Null /\ rt \in Runtimes
        /\ UNCHANGED <<session, staged, check, carrier>>
    BY <1>12, <1>a DEF ProviderFails, FailPhase
  <2>2. calls' \in 0..MaxCalls
    BY <1>12, <1>a, GroundingAssumption DEF ProviderFails
  <2>3. pending = Null
    BY <1>12 DEF ProviderFails, Chain, Proposes
  <2>. QED BY <1>a, <2>1, <2>2, <2>3, VerdictControl DEF session, TypeOK
<1>13. CASE FuseBlows
  <2>. DEFINE rt == IF job.mode = "draft" THEN entry ELSE work
  <2>1. /\ Record("failed", rt) /\ Return(rt) /\ draft' = Null /\ rt \in Runtimes
        /\ UNCHANGED <<session, provider, check, carrier>>
    BY <1>13, <1>a DEF FuseBlows, FailPhase
  <2>. HIDE DEF rt
  <2>2. pending = Null
    BY <1>13 DEF FuseBlows, Chain, Proposes
  <2>. QED BY <1>a, <2>1, <2>2, VerdictControl DEF session, provider, TypeOK
<1>14. CASE Bootstrap
  <2>1. /\ AtTurn /\ phase = 1 /\ Open(phase) /\ boot \in 0..2 /\ staged[phase] < 3
    BY <1>14 DEF Bootstrap, TypeOK
  <2>2. pending = Null /\ draft = Null
    BY <1>a, <2>1 DEF Waiting, Drafted, Phase
  <2>3. budget' \in Int /\ boot' \in 0..3
    BY <1>14, <1>a, <2>1 DEF Bootstrap, BootstrapCost
  <2>4. CASE BootstrapToolReturns(StageKinds[boot + 1])
    <3>. DEFINE k == StageKinds[boot + 1]
    <3>1. k \in {"structure", "mapping", "knowledge"}
      BY <2>1 DEF StageKinds
    <3>2. job' = [NoJob EXCEPT !.kind = k, !.origin = "bootstrap", !.latest = Null] /\ Proposes'
      BY <2>4 DEF BootstrapToolReturns, Call, Continue, Proposes
    <3>. HIDE DEF k
    <3>3. job' \in Jobs /\ job'.kind = k /\ job'.mode = "formal" /\ job'.origin = "bootstrap"
      BY <3>1, <3>2 DEF Jobs, NoJob
    <3>. QED BY <1>14, <1>a, <2>1, <2>2, <2>3, <2>4, <3>1, <3>2, <3>3, StartControl
             DEF Bootstrap, BootstrapToolReturns, check, TypeOK
  <2>5. CASE BootstrapToolFails
    <3>1. Record("failed", formal) /\ Return(formal) /\ draft' = Null
      BY <2>5 DEF BootstrapToolFails, FailPhase
    <3>. QED BY <1>14, <1>a, <2>2, <2>3, <3>1, VerdictControl DEF Bootstrap, provider
  <2>. QED BY <1>14, <2>4, <2>5 DEF Bootstrap
<1>15. CASE DispatchTool
  <2>1. /\ AtTurn /\ Open(phase) /\ pending # Null /\ pending.req[1] # "ask"
        /\ pending \in Pendings /\ staged[phase] = 3 /\ Evaluated(formal.dims)
    BY <1>15 DEF DispatchTool, Waiting, TypeOK
  <2>2. PICK ok \in BOOLEAN : ToolObserved(pending.req, ok)
    BY <1>15 DEF DispatchTool
  <2>3. pending.req \in Requests /\ pending.origin \in {"ordinary", "draft"}
    BY <2>1 DEF Pendings
  <2>. DEFINE l == [req |-> pending.req, ok |-> ok, origin |-> pending.origin]
              mode == IF draft # Null THEN "draft" ELSE "formal"
  <2>4. l \in Requesting /\ mode \in {"formal", "draft"}
    BY <2>3 DEF Requesting
  <2>5. /\ job' = [NoJob EXCEPT !.kind = "check", !.origin = "check", !.mode = mode, !.latest = l]
        /\ Proposes'
    BY <2>2 DEF ToolObserved, Continue, Proposes
  <2>6. draft # Null <=> mode = "draft"
    OBVIOUS
  <2>7. known' \subseteq Columns
    <3>1. pending.req[1] = "meaning" => pending.req[2] \in Columns
      BY <2>3 DEF Requests
    <3>. QED BY <1>a, <2>2, <3>1 DEF ToolObserved
  <2>8. budget' \in Int
    BY <1>15, <1>a DEF DispatchTool, Cost
  <2>. HIDE DEF l, mode
  <2>9. job' \in Jobs /\ job'.kind = "check" /\ job'.mode = mode
    BY <2>4, <2>5 DEF Jobs, NoJob
  <2>. QED BY <1>15, <1>a, <2>1, <2>4, <2>5, <2>6, <2>7, <2>8, <2>9, StartControl
           DEF DispatchTool, TypeOK
<1>16. CASE DispatchQuestion
  <2>1. /\ AtTurn /\ Open(phase) /\ pending # Null /\ draft = Null
        /\ pending \in Pendings /\ staged[phase] = 3 /\ Evaluated(formal.dims)
    BY <1>16 DEF DispatchQuestion, Waiting, TypeOK
  <2>2. pending.req \in Requests /\ pending.origin \in {"ordinary", "draft"}
    BY <2>1 DEF Pendings
  <2>. DEFINE l == [req |-> pending.req, ok |-> TRUE, origin |-> pending.origin]
  <2>3. l \in Requesting
    BY <2>2 DEF Requesting
  <2>4. /\ job' = [NoJob EXCEPT !.kind = "check", !.origin = "check", !.latest = l] /\ Proposes'
    BY <1>16 DEF DispatchQuestion, Call, Continue, Proposes
  <2>5. budget' \in Int
    BY <1>16, <1>a DEF DispatchQuestion, Cost
  <2>6. clar' \subseteq [phase : Phase, phrase : Phrases,
                         origin : {"ordinary", "draft"}, answered : BOOLEAN]
    BY <1>16 DEF DispatchQuestion, TypeOK
  <2>. HIDE DEF l
  <2>7. job' \in Jobs /\ job'.kind = "check" /\ job'.mode = "formal"
    BY <2>3, <2>4 DEF Jobs, NoJob
  <2>. QED BY <1>16, <1>a, <2>1, <2>4, <2>5, <2>6, <2>7, StartControl
           DEF DispatchQuestion, TypeOK
<1>17. CASE QuestionAborts
  <2>1. budget' \in Int
    BY <1>17, <1>a DEF QuestionAborts, Cost
  <2>. QED BY <1>17, <2>1, TurnControl DEF QuestionAborts, AtTurn, Proposes, provider
<1>18. CASE MainTurn
  BY <1>18, <1>a, TurnControl DEF MainTurn, AtTurn, Proposes, check
<1>19. CASE RunEnds
  BY <1>19, <1>a, TurnControl DEF RunEnds, Proposes, session, check
<1>20. CASE MainExecute
  <2>1. budget' \in Int
    BY <1>20, <1>a DEF MainExecute, ExecuteCost
  <2>2. CallStarts /\ UNCHANGED <<pc, job, phase, done, window, formal, work, entry>>
    BY <1>20, Zenon DEF MainExecute
  <2>3. phase' \in {phase, 2} /\ done' \in BOOLEAN /\ window' \in Windows
        /\ formal' \in Runtimes
    BY <1>a, <2>2 DEF TypeOK
  <2>. QED BY <1>a, <2>1, <2>2, <2>3, CallControl
<1>25. CASE SqlRefused
  <2>1. window' \in Windows
    BY <1>25 DEF SqlRefused, GuardRefuses, RepeatRefused, TypeOK, Windows
  <2>. QED BY <1>25, <1>a, <2>1, CallControl DEF SqlRefused, TypeOK
<1>21. CASE SubmitRefused \/ SubmitFails
  <2>1. /\ CallStarts /\ UNCHANGED <<pc, job, phase, done, formal, work, entry>>
        /\ \/ budget' = budget
           \/ budget' = IF budget <= SubmitCost THEN -1 ELSE budget - SubmitCost
    BY <1>21, Zenon DEF SubmitRefused, SubmitFails, Submitting, ChargeSubmit
  <2>2. budget' \in Int
    BY <1>a, <2>1 DEF SubmitCost
  <2>3. window' \in Windows
    BY <1>21, WindowFacts DEF SubmitRefused, SubmitFails, TypeOK
  <2>4. phase' \in {phase, 2} /\ done' \in BOOLEAN /\ formal' \in Runtimes
    BY <1>a, <2>1 DEF TypeOK
  <2>. QED BY <1>a, <2>1, <2>2, <2>3, <2>4, CallControl
<1>22. CASE SubmitEndsTask
  <2>1. budget' \in Int
    BY <1>22, <1>a DEF SubmitEndsTask, Submitting, ChargeSubmit, SubmitCost
  <2>2. /\ formal' = [formal EXCEPT !.stage = "DONE"] /\ done' = TRUE /\ phase' = 2
        /\ CallStarts /\ UNCHANGED <<pc, job>>
        /\ \/ pc = "model" /\ work' = formal' /\ entry' = formal'
           \/ pc # "model" /\ UNCHANGED <<work, entry>>
    BY <1>22 DEF SubmitEndsTask, Submitting
  <2>3. formal' \in Runtimes /\ formal'.dims = formal.dims /\ formal'.rev = formal.rev
    BY <1>a, <2>2 DEF Runtimes, Stages
  <2>4. window' \in Windows
    BY <1>22, WindowFacts DEF SubmitEndsTask, TypeOK
  <2>. QED BY <2>1, <2>2, <2>3, <2>4, CallControl
<1>23. CASE SubmitOpensPhase2
  <2>1. /\ batch > 0 /\ batch' = batch - 1 /\ ~Proposes /\ phase = 1 /\ phase' = 2
        /\ boot' = boot /\ calls' = calls /\ staged' = staged /\ draft' = draft
        /\ pending' = pending /\ clar' = clar /\ used' = used /\ known' = known
        /\ carrier' = carrier /\ outcome' = outcome /\ done' = done /\ formal' = formal
    BY <1>23 DEF SubmitOpensPhase2, Submitting, CallStarts, Proposes, provider, check
  <2>2. Succeeded(1) /\ Open(2) /\ ~Open(1) /\ pending = Null /\ draft = Null
    BY <2>1 DEF Verdicts, Waiting, Drafted, Succeeded, Open
  <2>3. budget' \in Int
    BY <1>23, <1>a DEF SubmitOpensPhase2, Submitting, ChargeSubmit, SubmitCost
  <2>4. batch' \in 0..Batch
    BY <2>1, GroundingAssumption DEF TypeOK
  <2>5. job' = [NoJob EXCEPT !.kind = "structure", !.origin = "submit", !.latest = Null] /\ Proposes'
    BY <1>23 DEF SubmitOpensPhase2, Call, Continue, Proposes
  <2>6. job' \in Jobs /\ job'.kind = "structure" /\ job'.mode = "formal" /\ job'.origin = "submit"
    BY <2>5 DEF Jobs, NoJob
  <2>7. work' \in Runtimes /\ entry' \in Runtimes
    BY <1>23, <1>a DEF SubmitOpensPhase2, Runtimes, Stages
  <2>9. window' \in Windows
    BY <1>23, WindowFacts DEF SubmitOpensPhase2, TypeOK
  <2>8. TypeOK'
    BY <2>1, <2>3, <2>4, <2>5, <2>6, <2>7, <2>9 DEF TypeOK, Proposes, Phase
  <2>. QED BY <2>1, <2>2, <2>5, <2>6, <2>8
           DEF AtRest, Verdicts, Chain, Waiting, Drafted, InDraft, Succeeded, Open
<1>24. CASE UNCHANGED vars
  BY <1>24 DEF vars, session, provider, check, TypeOK, AtRest, Verdicts, Chain, Waiting, Drafted,
               Proposes, InDraft, Succeeded, Open
<1>. QED
  BY <1>1, <1>2, <1>3, <1>4, <1>5, <1>6, <1>8, <1>9, <1>10, <1>11, <1>12, <1>13, <1>14,
     <1>15, <1>16, <1>17, <1>18, <1>19, <1>20, <1>21, <1>22, <1>23, <1>24, <1>25
  DEF Next, ProviderStep, ToolStep, CallStep, Stopped

LEMMA ControlInvariant == Spec => []Control
BY ControlInit, ControlStep, PTL DEF Spec

\* Every variable holds a value of its kind, whatever the Provider answers and
\* whichever tools fail (the typed records grounding_callbacks.py keeps under
\* the state keys of the ADK session).
THEOREM TypeCorrect == Spec => []TypeOK
BY ControlInvariant, PTL DEF Control

\* A Draft that waits for an Official tool can be resumed: the formal State is
\* the one it was built from and its tool is pending in its own phase
\* (_resume_atomic_regrounding_draft never finds the State changed).
THEOREM DraftResumable == Spec => []StoredDraftResumable
<1>1. Control => StoredDraftResumable
  BY DEF Control, AtRest, Waiting, Drafted, StoredDraftResumable, Proposes
<1>. QED BY <1>1, ControlInvariant, PTL

-----------------------------------------------------------------------------
(* What a step does to the State *)

\* No rule is lost between these contents.
Grows(a, b) == a.knowledge # Null => b.knowledge # Null /\ a.knowledge \subseteq b.knowledge

\* The same State, or a later revision of it.
Later(a, b) == a.rev <= b.rev /\ (a.rev = b.rev => a.dims = b.dims)

\* Same contents, same revision: only the control stage may differ.
SameState(a, b) == a.rev = b.rev /\ a.dims = b.dims

\* The step of a phase without verdict: the chain revises its Runtime, and its
\* omissions are those before or those of the Mapping stage.
Undecided ==
  /\ Open(phase) /\ UNCHANGED <<phase, outcome>>
  /\ Later(work, work')
  /\ formal' \in {formal, work'} /\ entry' \in {entry, work, work'}
  /\ phase = 2 => Grows(work.dims, work'.dims)
  /\ draft' # Null =>
       \/ draft # Null /\ (phase = 2 => Grows(draft.dims, draft'.dims))
       \/ draft'.dims = work.dims
  /\ \/ carrier' = carrier /\ (Respects(work) => Omitted(work) \cap Mapped(work'.dims) = {})
     \/ /\ carrier' # Null /\ carrier'.phase = phase /\ carrier'.rev = work'.rev
        /\ carrier'.omitted \cap Mapped(work'.dims) = {}
  /\ staged'[phase] >= 2 => staged[phase] >= 2 \/ carrier' # Null
  /\ Proposes' /\ job'.kind = "gate" =>
       /\ Consistent(work'.dims)
       /\ job'.status = "complete" => Omitted(work) = {} /\ carrier' = carrier

\* The step that gives a phase its verdict.
Verdict ==
  /\ Open(phase) /\ UNCHANGED phase /\ ~Proposes'
  /\ work' = formal' /\ entry' = formal' /\ draft' = Null
  /\ outcome'[phase].rev = formal'.rev /\ outcome'[phase].dims = formal'.dims
  /\ \A p \in Phase : p # phase => outcome'[p] = outcome[p]
  /\ \/ /\ outcome'[phase].status = "failed" /\ carrier' = carrier
        /\ formal' \in {formal, work, entry}
        /\ staged'[phase] = staged[phase]
     \/ /\ outcome'[phase].status = "succeeded"
        /\ Evaluated(formal'.dims) /\ Consistent(formal'.dims)
        /\ phase = 2 => \/ Grows(work.dims, formal'.dims)
                        \/ draft # Null /\ Grows(draft.dims, formal'.dims)
        /\ \/ /\ carrier' = carrier /\ staged[phase] = 3 /\ Later(work, formal')
              /\ Omitted(work) = {} \/ (Proposes /\ job.kind = "gate" /\ job.status = "complete")
           \/ carrier' # Null /\ carrier'.phase = phase /\ carrier'.omitted = {}

\* Any other step keeps contents and revisions, and every verdict.
Calm ==
  /\ UNCHANGED <<outcome, draft, carrier, staged>>
  /\ SameState(formal, formal') /\ SameState(work, work') /\ SameState(entry, entry')
  /\ \/ phase' = phase /\ (Proposes' <=> Proposes) /\ (Proposes => job' = job)
     \/ /\ phase = 1 /\ phase' = 2 /\ ~Proposes /\ Succeeded(1) /\ Open(2)
        /\ Proposes' => job'.kind # "gate"

LEMMA StepKinds == Control /\ Frozen /\ [Next]_vars => Undecided \/ Verdict \/ Calm
<1>. SUFFICES ASSUME Control, Frozen, [Next]_vars PROVE Undecided \/ Verdict \/ Calm
  OBVIOUS
<1>. USE DEF Control
<1>a. /\ formal \in Runtimes /\ work \in Runtimes /\ entry \in Runtimes /\ job \in Jobs
      /\ calls \in 0..MaxCalls /\ staged \in [Phase -> 0..3] /\ phase \in Phase
      /\ carrier \in Carriers \cup {Null} /\ draft \in Drafts \cup {Null}
  BY DEF TypeOK
<1>b. work.dims \in Contents /\ (draft # Null => draft.dims \in Contents)
  BY <1>a DEF Runtimes, Drafts
<1>c. \A a \in Runtimes : Later(a, a) /\ SameState(a, a) /\ Grows(a.dims, a.dims)
  BY DEF Later, SameState, Grows, Runtimes
<1>d. ASSUME NEW d \in Contents
      PROVE  LET rt == Revised(work, d) IN rt \in Runtimes /\ rt.dims = d /\ Later(work, rt)
  BY <1>a, RevisedFacts DEF Later, Runtimes
<1>e. ASSUME NEW status \in {"succeeded", "failed"}, NEW rt \in Runtimes,
             Record(status, rt), Return(rt)
      PROVE  /\ Open(phase) /\ ~Proposes' /\ formal' = rt /\ work' = rt /\ entry' = rt
             /\ outcome'[phase].status = status
             /\ outcome'[phase].rev = rt.rev /\ outcome'[phase].dims = rt.dims
             /\ \A p \in Phase : p # phase => outcome'[p] = outcome[p]
  <2>1. outcome'[phase] = [status |-> status, rev |-> rt.rev, dims |-> rt.dims]
    BY <1>e, RecordFacts
  <2>2. \A p \in Phase : p # phase => outcome'[p] = outcome[p]
    BY <1>e, RecordFacts
  <2>3. Open(phase)
    BY <1>e DEF Record
  <2>4. pc' = "model" /\ formal' = rt /\ work' = rt /\ entry' = rt
    BY <1>e, ReturnFacts
  <2>. QED BY <2>1, <2>2, <2>3, <2>4 DEF Proposes
<1>1. CASE Structure
  <2>1. PICK t \in SUBSET Tables :
          StoreStage(Revised(work, [work.dims EXCEPT !.tables = t]))
    BY <1>1 DEF Structure
  <2>. DEFINE d == [work.dims EXCEPT !.tables = t]
  <2>2. d \in Contents /\ Mapped(d) = Mapped(work.dims) /\ Grows(work.dims, d)
    BY <1>b DEF Contents, Mapped, Grows
  <2>3. /\ FormalStage("structure") /\ CountCalls(1) /\ NextStage
        /\ UNCHANGED <<session, draft, check, carrier, outcome>>
    BY <1>1 DEF Structure
  <2>4. /\ Proposes /\ job.kind = "structure" /\ draft = Null /\ Open(phase)
        /\ staged[phase] \in {0, 3} /\ calls + 1 <= MaxCalls
    BY <1>a, <2>3, GroundingAssumption DEF FormalStage, Proposing, InSequence, Proposes, Chain, InDraft
  <2>5. staged'[phase] >= 2 => staged[phase] >= 2
    BY <2>3, <2>4, CountFacts
  <2>6. Proposes' => job'.kind = "mapping"
    BY <1>a, <2>3, <2>4 DEF NextStage, Continue, Proposes, After, Jobs
  <2>. HIDE DEF d
  <2>7. formal' = work' /\ work'.dims = d /\ Later(work, work') /\ entry' \in {entry, work'}
    BY <1>d, <2>1, <2>2 DEF StoreStage, d
  <2>8. phase' = phase /\ outcome' = outcome /\ draft' = Null /\ carrier' = carrier
    BY <2>3, <2>4 DEF session
  <2>. QED BY <2>2, <2>4, <2>5, <2>6, <2>7, <2>8 DEF Undecided, Respects
<1>2. CASE Mapping
  <2>1. PICK t \in SUBSET Tables, m \in Mappings, omitted \in SUBSET Phrases :
          LET d == [work.dims EXCEPT !.tables = t, !.mapping = m]
              evidence == EvidenceFor(work.dims, FALSE)
          IN  /\ omitted \cap Mapped(d) = {}
              /\ StoreStage(Revised(work, d))
              /\ carrier' = [phase |-> phase, rev |-> Revised(work, d).rev,
                             omitted |-> omitted, evidence |-> evidence]
    BY <1>2 DEF Mapping
  <2>. DEFINE d == [work.dims EXCEPT !.tables = t, !.mapping = m]
  <2>2. d \in Contents /\ Grows(work.dims, d) /\ omitted \cap Mapped(d) = {}
    BY <1>b, <2>1 DEF Contents, Grows
  <2>3. FormalStage("mapping") /\ NextStage /\ UNCHANGED <<session, draft, check, outcome>>
    BY <1>2 DEF Mapping
  <2>4. Proposes /\ job.kind = "mapping" /\ draft = Null /\ Open(phase)
    BY <2>3 DEF FormalStage, Proposing, Proposes, Chain, InDraft
  <2>5. Proposes' => job'.kind = "knowledge"
    BY <1>a, <2>3, <2>4 DEF NextStage, Continue, Proposes, After, Jobs
  <2>. HIDE DEF d
  <2>6. formal' = work' /\ work'.dims = d /\ Later(work, work') /\ entry' \in {entry, work'}
    BY <1>d, <2>1, <2>2 DEF StoreStage, d
  <2>7. /\ carrier' # Null /\ carrier'.phase = phase /\ carrier'.rev = work'.rev
        /\ carrier'.omitted = omitted
    <3>. DEFINE rt == Revised(work, d)
    <3>1. rt.rev \in Nat /\ EvidenceFor(work.dims, FALSE) \in Evidence
      BY <1>a, <1>b, <2>2, RevisedFacts, EvidenceFacts
    <3>. DEFINE ev == EvidenceFor(work.dims, FALSE)
    <3>2. /\ carrier' = [phase |-> phase, rev |-> rt.rev, omitted |-> omitted, evidence |-> ev]
          /\ work' = rt
      BY <2>1 DEF StoreStage, d
    <3>. HIDE DEF rt, ev
    <3>3. carrier' \in Carriers
      BY <1>a, <3>1, <3>2 DEF Carriers, ev
    <3>. QED BY <3>2, <3>3, NullAssumption
  <2>8. phase' = phase /\ outcome' = outcome /\ draft' = Null
    BY <2>3, <2>4 DEF session
  <2>. QED BY <2>2, <2>4, <2>5, <2>6, <2>7, <2>8 DEF Undecided
<1>3. CASE Knowledge
  <2>1. PICK sel \in SUBSET Rules, m \in Mappings :
          \E d \in WithKnowledge(work.dims, sel, m, Omitted(work)) :
             Consistent(d) /\ StoreStage(Revised(work, d))
    BY <1>3 DEF Knowledge
  <2>. DEFINE o == Omitted(work)
              b == work.dims
  <2>2. PICK d \in WithKnowledge(b, sel, m, o) :
          Consistent(d) /\ StoreStage(Revised(work, d))
    BY <2>1
  <2>b. b \in Contents
    BY <1>b
  <2>. HIDE DEF o, b
  <2>3. d \in WithKnowledge(b, sel, m, o)
    OBVIOUS
  <2>a. /\ d \in Contents /\ d.knowledge # Null /\ Mapped(d) \cap o = {}
        /\ phase = 2 /\ b.knowledge # Null => b.knowledge \subseteq d.knowledge
    BY <2>b, <2>3, KnowledgeFacts
  <2>4. /\ d \in Contents /\ (phase = 2 => Grows(work.dims, d))
        /\ o \cap Mapped(d) = {}
    BY <2>a DEF Grows, b
  <2>5. /\ FormalStage("knowledge") /\ CountCalls(1) /\ NextStage
        /\ UNCHANGED <<session, draft, check, carrier, outcome>>
    BY <1>3 DEF Knowledge
  <2>6. /\ Proposes /\ job.kind = "knowledge" /\ draft = Null /\ Open(phase)
        /\ staged[phase] \in {2, 3}
    BY <1>a, <2>5 DEF FormalStage, Proposing, InSequence, Proposes, Chain, InDraft
  <2>7. Proposes' => job'.kind = "check"
    BY <1>a, <2>5, <2>6 DEF NextStage, Continue, Proposes, After, Jobs
  <2>8. formal' = work' /\ work'.dims = d /\ Later(work, work') /\ entry' \in {entry, work'}
    BY <1>d, <2>2, <2>4 DEF StoreStage
  <2>9. phase' = phase /\ outcome' = outcome /\ draft' = Null /\ carrier' = carrier
    BY <2>5, <2>6 DEF session
  <2>. QED BY <2>4, <2>6, <2>7, <2>8, <2>9 DEF Undecided, o
<1>4. CASE Check
  <2>1. PICK d \in CheckedContents(work.dims, job.latest) :
          \/ \E status \in {"complete", "incomplete"} : CheckToGate(d, status)
          \/ CheckComplete(d)
          \/ CheckRestart(d)
          \/ \E req \in Requests : req[1] \in Tools /\ CheckReplays(d, req)
          \/ \E req \in Requests : req[1] \in Tools /\ CheckAsks(d, req)
    BY <1>4 DEF Check
  <2>2. FormalCheck(d)
    BY <2>1 DEF CheckToGate, CheckComplete, CheckRestart, CheckReplays, CheckAsks
  <2>3. /\ Proposes /\ job.kind = "check" /\ draft = Null /\ Open(phase) /\ staged[phase] = 3
        /\ Consistent(d)
    BY <2>2 DEF FormalCheck, FormalStage, Proposing, InSequence, Proposes, Chain, InDraft
  <2>a. Evaluated(work.dims) /\ job.latest \in Requesting \cup {Null}
    BY <1>a, <2>3 DEF Chain, Jobs
  <2>b. /\ d \in Contents /\ Evaluated(d) /\ Mapped(d) \subseteq Mapped(work.dims)
        /\ work.dims.knowledge \subseteq d.knowledge
    BY <1>b, <2>a, CheckedFacts
  <2>4. /\ d \in Contents /\ Evaluated(d) /\ Mapped(d) \subseteq Mapped(work.dims)
        /\ Grows(work.dims, d)
    BY <2>b DEF Grows, Evaluated
  <2>. DEFINE rt == Revised(work, d)
  <2>5. rt \in Runtimes /\ rt.dims = d /\ Later(work, rt)
    BY <1>d, <2>4
  <2>. HIDE DEF rt
  <2>6. ASSUME work' = rt, formal' \in {formal, rt}, entry' \in {entry, work, rt},
               UNCHANGED <<phase, outcome, carrier>>, draft' = Null,
               Proposes' /\ job'.kind = "gate" /\ job'.status = "complete" => Omitted(work) = {}
        PROVE  Undecided
    BY <2>3, <2>4, <2>5, <2>6 DEF Undecided, Respects
  <2>7. ASSUME NEW status \in {"complete", "incomplete"}, CheckToGate(d, status)
        PROVE  Undecided
    <3>1. job' = [job EXCEPT !.kind = "gate", !.status = status] /\ work' = rt
      BY <2>7 DEF CheckToGate, Continue, rt
    <3>2. job'.status = status
      BY <1>a, <3>1 DEF Jobs
    <3>. QED BY <2>3, <2>6, <2>7, <3>1, <3>2 DEF CheckToGate, session
  <2>8. ASSUME CheckComplete(d) PROVE Verdict
    <3>. DEFINE ready == [rt EXCEPT !.stage = IF @ = "INITIAL" THEN "SQL_ATTEMPT" ELSE @]
    <3>1. Record("succeeded", ready) /\ Return(ready) /\ Evaluated(ready.dims)
      BY <2>8 DEF CheckComplete, Conclude, rt
    <3>2. ready \in Runtimes /\ ready.dims = d /\ ready.rev = rt.rev
      BY <2>5 DEF Runtimes, Stages
    <3>3. Later(work, ready)
      BY <2>5, <3>2 DEF Later
    <3>. HIDE DEF ready
    <3>4. /\ phase' = phase /\ draft' = Null /\ carrier' = carrier /\ Omitted(work) = {}
      BY <2>3, <2>8 DEF CheckComplete, session
    <3>. QED BY <1>e, <2>3, <2>4, <3>1, <3>2, <3>3, <3>4 DEF Verdict
  <2>9. ASSUME CheckRestart(d) PROVE Undecided
    <3>1. job' = [job EXCEPT !.kind = "structure", !.mode = "restart", !.latest = Null]
      BY <2>9 DEF CheckRestart, Continue
    <3>2. job'.kind = "structure"
      BY <1>a, <3>1 DEF Jobs
    <3>3. formal' = rt /\ work' = rt /\ entry' \in {entry, rt}
      BY <2>9 DEF CheckRestart, StoreStage, rt
    <3>. QED BY <2>3, <2>6, <2>9, <3>2, <3>3 DEF CheckRestart, session
  <2>10. ASSUME NEW req \in Requests, CheckReplays(d, req) PROVE Undecided
    <3>1. job' = [job EXCEPT !.latest = [req |-> req, ok |-> TRUE, origin |-> "ordinary"]]
      BY <2>10 DEF CheckReplays, Continue
    <3>2. job'.kind = "check"
      BY <1>a, <2>3, <3>1 DEF Jobs
    <3>. QED BY <2>3, <2>6, <2>10, <3>2 DEF CheckReplays, session, rt
  <2>11. ASSUME NEW req \in Requests, CheckAsks(d, req) PROVE Undecided
    BY <2>3, <2>5, <2>6, <2>11, ReturnFacts DEF CheckAsks, session, rt, Proposes
  <2>. QED BY <2>1, <2>7, <2>8, <2>9, <2>10, <2>11
<1>5. CASE GateKeeps
  <2>. DEFINE rt == [work EXCEPT !.stage = IF @ = "INITIAL" THEN "SQL_ATTEMPT" ELSE @]
  <2>1. /\ rt \in Runtimes /\ Record("succeeded", rt) /\ Return(rt) /\ Evaluated(rt.dims)
        /\ rt.dims = work.dims /\ rt.rev = work.rev
    BY <1>5, <1>a DEF GateKeeps, Conclude, Runtimes, Stages
  <2>2. Later(work, rt) /\ Grows(work.dims, rt.dims)
    BY <1>a, <2>1 DEF Later, Grows, Runtimes
  <2>. HIDE DEF rt
  <2>3. /\ Proposes /\ job.kind = "gate" /\ job.status = "complete" /\ draft = Null
        /\ Open(phase) /\ staged[phase] = 3 /\ Consistent(work.dims)
    BY <1>5 DEF GateKeeps, Gating, Proposing, Chain, Proposes, InDraft, Verdicts, Frozen
  <2>4. phase' = phase /\ draft' = Null /\ carrier' = carrier
    BY <1>5, <2>3 DEF GateKeeps, session
  <2>. QED BY <1>e, <2>1, <2>2, <2>3, <2>4 DEF Verdict
<1>6. ASSUME Open(phase), UNCHANGED <<phase, outcome, carrier, formal, work, entry>>,
             staged[phase] = 3 \/ UNCHANGED staged, Proposes' => job'.kind # "gate",
             draft' # Null =>
               \/ draft # Null /\ (phase = 2 => Grows(draft.dims, draft'.dims))
               \/ draft'.dims = work.dims
      PROVE  Undecided
  BY <1>a, <1>c, <1>6 DEF Undecided, Respects
<1>7. CASE GateRegrounds
  <2>1. /\ Proposes /\ Open(phase) /\ staged[phase] = 3
    BY <1>7 DEF GateRegrounds, Gating, Proposing, Chain, Proposes, Verdicts
  <2>2. PICK first \in {"structure", "mapping"} :
          job' = [job EXCEPT !.kind = first, !.mode = "draft", !.latest = Null, !.status = "none"]
    BY <1>7 DEF GateRegrounds, Continue
  <2>3. job'.kind = first
    BY <1>a, <2>2 DEF Jobs
  <2>4. /\ UNCHANGED <<session, formal, work, entry, check, carrier, outcome>>
        /\ draft'.dims = work.dims
    BY <1>7 DEF GateRegrounds
  <2>. QED BY <1>6, <2>1, <2>3, <2>4 DEF session
<1>8. ASSUME NEW kind \in {"structure", "mapping", "knowledge"}, DraftStage(kind), DraftGoesOn,
             phase = 2 => Grows(draft.dims, draft'.dims)
      PROVE  Undecided
  <2>1. /\ Proposes /\ job.kind = kind /\ draft # Null /\ Open(phase) /\ staged[phase] = 3
    BY <1>8 DEF DraftStage, Proposing, Chain, Proposes, InDraft, Verdicts
  <2>2. job' = [job EXCEPT !.kind = After(kind)] /\ After(kind) # "gate"
    BY <1>8, <2>1 DEF DraftGoesOn, Continue, After
  <2>3. job'.kind # "gate"
    BY <1>a, <2>2 DEF Jobs
  <2>4. UNCHANGED <<session, formal, work, entry, check, carrier, outcome>>
    BY <1>8 DEF DraftGoesOn
  <2>. QED BY <1>6, <1>8, <2>1, <2>3, <2>4 DEF session
<1>9. CASE DraftStructure
  <2>1. PICK t \in SUBSET Tables : draft' = [draft EXCEPT !.dims.tables = t]
    BY <1>9 DEF DraftStructure
  <2>2. draft # Null /\ draft \in Drafts
    BY <1>9, <1>a DEF DraftStructure, DraftStage, Proposing, Chain, Proposes, InDraft
  <2>3. draft'.dims.knowledge = draft.dims.knowledge
    BY <2>1, <2>2 DEF Drafts, Contents
  <2>. QED BY <1>8, <1>9, <2>3 DEF DraftStructure, Grows
<1>10. CASE DraftMapping
  <2>. DEFINE ev == EvidenceFor(draft.dims, TRUE)
  <2>1. PICK t \in SUBSET Tables, m \in Mappings, omitted \in SUBSET Phrases :
          draft' = [draft EXCEPT !.dims.tables = t, !.dims.mapping = m,
                                 !.omitted = omitted, !.evidence = ev]
    BY <1>10 DEF DraftMapping
  <2>2. draft # Null /\ draft \in Drafts
    BY <1>10, <1>a DEF DraftMapping, DraftStage, Proposing, Chain, Proposes, InDraft
  <2>. HIDE DEF ev
  <2>3. draft'.dims.knowledge = draft.dims.knowledge
    BY <2>1, <2>2 DEF Drafts, Contents
  <2>. QED BY <1>8, <1>10, <2>3 DEF DraftMapping, Grows
<1>11. CASE DraftKnowledge
  <2>1. draft # Null /\ draft \in Drafts /\ draft.dims \in Contents
    BY <1>11, <1>a, <1>b DEF DraftKnowledge, DraftStage, Proposing, Chain, Proposes, InDraft
  <2>. DEFINE o == draft.omitted
              b == draft.dims
  <2>2. PICK sel \in SUBSET Rules, m \in Mappings :
          \E d \in WithKnowledge(b, sel, m, o) : draft' = [draft EXCEPT !.dims = d]
    BY <1>11 DEF DraftKnowledge
  <2>3. PICK d \in WithKnowledge(b, sel, m, o) : draft' = [draft EXCEPT !.dims = d]
    BY <2>2
  <2>4. b \in Contents
    BY <2>1
  <2>5. draft'.dims = d
    BY <2>1, <2>3 DEF Drafts
  <2>. HIDE DEF o, b
  <2>6. d \in WithKnowledge(b, sel, m, o)
    OBVIOUS
  <2>7. /\ d.knowledge # Null
        /\ phase = 2 /\ b.knowledge # Null => b.knowledge \subseteq d.knowledge
    BY <2>4, <2>6, KnowledgeFacts
  <2>8. phase = 2 => Grows(draft.dims, draft'.dims)
    BY <2>5, <2>7 DEF Grows, b
  <2>. QED BY <1>8, <1>11, <2>8 DEF DraftKnowledge
<1>12. CASE DraftCheck
  <2>1. PICK d \in CheckedContents(draft.dims, job.latest) :
          \/ DraftCommit(d)
          \/ \E p \in Phrases : DraftAsks(d, p)
          \/ \E req \in Requests : DraftPauses(d, req)
    BY <1>12 DEF DraftCheck
  <2>2. /\ Proposes /\ draft # Null /\ draft \in Drafts /\ Open(phase) /\ staged[phase] = 3
        /\ Evaluated(draft.dims)
    BY <1>12, <1>a DEF DraftCheck, DraftStage, Proposing, Proposes, InDraft, Chain, Drafted, Verdicts
  <2>a. job.latest \in Requesting \cup {Null}
    BY <1>a DEF Jobs
  <2>b. d \in Contents /\ draft.dims.knowledge \subseteq d.knowledge /\ Evaluated(d)
    BY <1>b, <2>2, <2>a, CheckedFacts
  <2>3. d \in Contents /\ Grows(draft.dims, d)
    BY <2>b DEF Grows, Evaluated
  <2>4. ASSUME DraftCommit(d) PROVE Verdict
    <3>. DEFINE rt == Revised(work, d)
                ready == [rt EXCEPT !.stage = IF @ = "INITIAL" THEN "SQL_ATTEMPT" ELSE @]
    <3>1. rt \in Runtimes /\ rt.dims = d /\ rt.rev \in Nat
      BY <1>a, <2>3, RevisedFacts
    <3>2. Record("succeeded", ready) /\ Return(ready) /\ Evaluated(ready.dims) /\ Consistent(d)
      BY <2>4 DEF DraftCommit, Committed, Conclude
    <3>3. /\ draft' = Null /\ phase' = phase /\ draft.omitted = {}
          /\ carrier' = [phase |-> phase, rev |-> rt.rev,
                         omitted |-> draft.omitted, evidence |-> draft.evidence]
      BY <2>4 DEF DraftCommit, session
    <3>. HIDE DEF rt
    <3>4. ready \in Runtimes /\ ready.dims = d
      BY <3>1 DEF Runtimes, Stages
    <3>. HIDE DEF ready
    <3>5. draft.evidence # Null /\ draft.evidence \in Evidence \cup {Null}
      BY <1>12, <2>2 DEF DraftCheck, DraftStage, Proposing, Drafted, Drafts
    <3>6. carrier' \in Carriers /\ carrier'.phase = phase /\ carrier'.omitted = {}
      BY <1>a, <2>2, <3>1, <3>3, <3>5 DEF Carriers
    <3>7. carrier' # Null
      BY <3>6, NullAssumption
    <3>. QED BY <1>e, <2>2, <2>3, <3>2, <3>3, <3>4, <3>6, <3>7 DEF Verdict
  <2>5. ASSUME NEW p \in Phrases, DraftAsks(d, p) PROVE Undecided
    <3>1. /\ Return(work) /\ draft' = Null /\ UNCHANGED <<session, carrier, outcome>>
      BY <2>5 DEF DraftAsks
    <3>2. entry' = work /\ formal' = work /\ work' = work /\ ~Proposes' /\ phase' = phase
      BY <1>a, <3>1, ReturnFacts DEF session, Proposes
    <3>. QED BY <1>a, <1>c, <2>2, <3>1, <3>2 DEF Undecided, Respects
  <2>6. ASSUME NEW req \in Requests, DraftPauses(d, req) PROVE Undecided
    <3>1. /\ Return(work) /\ UNCHANGED <<session, carrier, outcome>>
      BY <2>6 DEF DraftPauses
    <3>. DEFINE n == draft.official + 1
    <3>2. draft' = [draft EXCEPT !.dims = d, !.official = n, !.stored = TRUE]
      BY <2>6 DEF DraftPauses
    <3>. HIDE DEF n
    <3>3. draft'.dims = d
      BY <2>2, <3>2 DEF Drafts
    <3>4. entry' = work /\ formal' = work /\ work' = work /\ ~Proposes' /\ phase' = phase
      BY <1>a, <3>1, ReturnFacts DEF session, Proposes
    <3>. QED BY <1>a, <1>c, <2>2, <2>3, <3>1, <3>3, <3>4 DEF Undecided, Respects
  <2>. QED BY <2>1, <2>4, <2>5, <2>6
<1>13. ASSUME NEW rt \in {formal, work, entry}, FailPhase(rt),
              UNCHANGED <<phase, staged, carrier>>
       PROVE  Verdict
  BY <1>a, <1>e, <1>13 DEF FailPhase, Verdict
<1>14. CASE ProviderFails
  BY <1>13, <1>14 DEF ProviderFails, session
<1>15. CASE FuseBlows
  BY <1>13, <1>15 DEF FuseBlows, session, provider
<1>16. CASE Bootstrap
  <2>1. /\ phase = 1 /\ Open(phase) /\ phase' = phase /\ staged' = staged /\ carrier' = carrier
        /\ boot \in 0..2 /\ staged[phase] < 3 /\ ~Proposes
    BY <1>16 DEF Bootstrap, provider, TypeOK, AtTurn, Proposes
  <2>2. CASE BootstrapToolReturns(StageKinds[boot + 1])
    <3>. DEFINE k == StageKinds[boot + 1]
    <3>1. k \in {"structure", "mapping", "knowledge"}
      BY <2>1 DEF StageKinds
    <3>2. job' = [NoJob EXCEPT !.kind = k, !.origin = "bootstrap", !.latest = Null]
      BY <2>2 DEF BootstrapToolReturns, Call, Continue
    <3>. HIDE DEF k
    <3>3. job'.kind = k
      BY <3>2 DEF NoJob
    <3>4. draft = Null
      BY <2>1 DEF Drafted
    <3>. QED BY <1>6, <2>1, <2>2, <3>1, <3>3, <3>4 DEF BootstrapToolReturns
  <2>3. CASE BootstrapToolFails
    BY <1>13, <2>1, <2>3 DEF BootstrapToolFails
  <2>. QED BY <1>16, <2>2, <2>3 DEF Bootstrap
<1>17. CASE DispatchTool
  <2>1. PICK ok \in BOOLEAN : ToolObserved(pending.req, ok)
    BY <1>17 DEF DispatchTool
  <2>2. job'.kind = "check"
    BY <2>1 DEF ToolObserved, Continue, NoJob
  <2>. QED BY <1>6, <1>17, <2>2 DEF DispatchTool, provider, Grows
<1>18. CASE DispatchQuestion
  <2>1. job'.kind = "check"
    BY <1>18 DEF DispatchQuestion, Call, Continue, NoJob
  <2>. QED BY <1>6, <1>18, <2>1 DEF DispatchQuestion, provider
<1>19. CASE QuestionAborts \/ MainTurn \/ RunEnds
  <2>1. UNCHANGED <<phase, staged, formal, work, entry, draft, carrier, outcome>>
    BY <1>19 DEF QuestionAborts, MainTurn, RunEnds, session, provider
  <2>2. ~Proposes /\ ~Proposes'
    BY <1>19 DEF QuestionAborts, MainTurn, RunEnds, AtTurn, Proposes, Stop
  <2>. QED BY <1>a, <1>c, <2>1, <2>2 DEF Calm
<1>20. CASE MainExecute \/ SqlRefused \/ SubmitRefused \/ SubmitFails
  <2>1. UNCHANGED <<pc, job, phase, staged, formal, work, entry, draft, carrier, outcome>>
    BY <1>20 DEF MainExecute, SqlRefused, SubmitRefused, SubmitFails, Submitting, CallStarts, provider
  <2>. QED BY <1>a, <1>c, <2>1 DEF Calm, Proposes
<1>21. CASE SubmitEndsTask \/ SubmitOpensPhase2
  <2>1. /\ batch > 0 /\ Succeeded(1) /\ UNCHANGED <<staged, draft, carrier, outcome>> /\ phase' = 2
    BY <1>21 DEF SubmitEndsTask, SubmitOpensPhase2, Submitting, CallStarts, provider, Verdicts
  <2>2. phase = 1 => ~Proposes /\ Open(2)
    BY <2>1 DEF Verdicts, Succeeded, Open
  <2>3. CASE SubmitEndsTask
    <3>1. /\ formal' = [formal EXCEPT !.stage = "DONE"] /\ pc' = pc /\ job' = job
          /\ \/ pc = "model" /\ work' = formal' /\ entry' = formal'
             \/ pc # "model" /\ UNCHANGED <<work, entry>>
      BY <2>3 DEF SubmitEndsTask
    <3>2. SameState(formal, formal')
      BY <1>a, <3>1 DEF SameState, Runtimes
    <3>3. pc = "model" => work = formal /\ entry = formal
      BY DEF AtRest, Proposes
    <3>4. SameState(work, work') /\ SameState(entry, entry')
      BY <1>a, <1>c, <3>1, <3>2, <3>3
    <3>. QED BY <1>a, <2>1, <2>2, <3>1, <3>2, <3>4 DEF Calm, Proposes, Phase
  <2>4. CASE SubmitOpensPhase2
    <3>1. /\ phase = 1 /\ formal' = formal /\ work' = [formal EXCEPT !.stage = "P2_INCREMENTAL"]
          /\ entry' = work' /\ pc = "model"
          /\ job' = [NoJob EXCEPT !.kind = "structure", !.origin = "submit", !.latest = Null]
      BY <2>4 DEF SubmitOpensPhase2, Call, Continue
    <3>2. work = formal /\ entry = formal
      BY <3>1 DEF AtRest, Proposes
    <3>3. SameState(work, work') /\ SameState(entry, entry') /\ SameState(formal, formal')
      BY <1>a, <3>1, <3>2 DEF SameState, Runtimes
    <3>4. job'.kind # "gate"
      BY <3>1 DEF NoJob
    <3>. QED BY <2>1, <2>2, <3>1, <3>3, <3>4 DEF Calm
  <2>. QED BY <1>21, <2>3, <2>4
<1>22. CASE UNCHANGED vars
  <2>1. UNCHANGED <<pc, job, phase, staged, formal, work, entry, draft, carrier, outcome>>
    BY <1>22 DEF vars, session, provider
  <2>. QED BY <1>a, <1>c, <2>1 DEF Calm, Proposes
<1>. QED
  BY <1>1, <1>2, <1>3, <1>4, <1>5, <1>7, <1>9, <1>10, <1>11, <1>12, <1>14, <1>15, <1>16,
     <1>17, <1>18, <1>19, <1>20, <1>21, <1>22
  DEF Next, ProviderStep, ToolStep, CallStep, Stopped

-----------------------------------------------------------------------------
(* Frozen States *)

LEMMA FrozenStep == Control /\ Control' /\ Frozen /\ [Next]_vars => Frozen'
<1>. SUFFICES ASSUME Control, Control', Frozen, [Next]_vars PROVE Frozen'
  OBVIOUS
<1>1. phase \in Phase /\ phase' \in Phase
  BY DEF Control, TypeOK
<1>2. CASE Undecided
  BY <1>1, <1>2 DEF Undecided, Frozen, FrozenState, Succeeded, Open, Proposes
<1>3. CASE Verdict
  BY <1>1, <1>3 DEF Verdict, Frozen, FrozenState, Succeeded, Open
<1>4. CASE Calm
  BY <1>1, <1>4 DEF Calm, SameState, Frozen, FrozenState, Succeeded, Open
<1>. QED BY <1>2, <1>3, <1>4, StepKinds

LEMMA FrozenInvariant == Spec => []Frozen
<1>1. Init => Frozen
  BY DEF Init, Frozen, Succeeded, NoOutcome, Proposes, Phase
<1>. QED BY <1>1, FrozenStep, ControlInvariant, PTL DEF Spec

\* Whenever the Main agent may act in a grounded phase, the persisted State is
\* the one whose success was recorded (_evaluate_main_execute_gate never answers
\* frozen_state_unavailable).
THEOREM StateFrozen == Spec => []FrozenStateAvailable
<1>1. Control /\ Frozen => FrozenStateAvailable
  BY DEF Frozen, FrozenStateAvailable, Proposes
<1>. QED BY <1>1, ControlInvariant, FrozenInvariant, PTL

-----------------------------------------------------------------------------
(* Omissions *)

LEMMA OmissionsStep ==
    Control /\ Control' /\ Frozen /\ Omissions /\ [Next]_vars => Omissions'
<1>. SUFFICES ASSUME Control, Control', Frozen, Omissions, [Next]_vars PROVE Omissions'
  OBVIOUS
<1>1. /\ phase \in Phase /\ phase' \in Phase
      /\ formal.rev \in Nat /\ work.rev \in Nat /\ entry.rev \in Nat
      /\ formal'.rev \in Nat /\ work'.rev \in Nat /\ entry'.rev \in Nat
      /\ carrier # Null => carrier.rev \in Nat
      /\ carrier' # Null => carrier'.rev \in Nat
  BY DEF Control, TypeOK, Runtimes, Carriers
<1>2. CASE Undecided
  <2>1. Since(formal)' /\ Since(entry)'
    BY <1>1, <1>2 DEF Undecided, Omissions, Since, Later
  <2>2. phase' = phase /\ Open(phase) /\ outcome' = outcome /\ work.rev <= work'.rev
    BY <1>2 DEF Undecided, Later
  <2>3. CASE carrier' = carrier /\ Omitted(work) \cap Mapped(work'.dims) = {}
    <3>1. (Omitted(work))' = Omitted(work)
      BY <1>1, <2>2, <2>3 DEF Omissions, Omitted, CarrierActive
    <3>2. Respects(work)'
      BY <2>3, <3>1 DEF Respects
    <3>3. Respects(formal)'
      <4>1. CASE formal' = formal
        BY <2>2, <2>3, <4>1 DEF Omissions, Respects, Omitted, CarrierActive
      <4>2. CASE formal' = work'
        BY <3>2, <4>2 DEF Respects, Omitted, CarrierActive
      <4>. QED BY <1>2, <4>1, <4>2 DEF Undecided
    <3>4. Respects(entry)'
      <4>1. CASE entry' = entry
        BY <2>2, <2>3, <4>1 DEF Omissions, Respects, Omitted, CarrierActive
      <4>2. CASE entry' = work
        BY <2>2, <2>3, <4>2 DEF Omissions, Respects, Omitted, CarrierActive
      <4>3. CASE entry' = work'
        BY <3>2, <4>3 DEF Respects, Omitted, CarrierActive
      <4>. QED BY <1>2, <4>1, <4>2, <4>3 DEF Undecided
    <3>5. Proposes' /\ job'.kind = "gate" /\ job'.status = "complete" => (Omitted(work))' = {}
      BY <1>2, <3>1 DEF Undecided
    <3>. QED BY <1>1, <1>2, <2>1, <2>2, <2>3, <3>2, <3>3, <3>4, <3>5
             DEF Omissions, Undecided, Open, Succeeded
  <2>4. CASE /\ carrier' # Null /\ carrier'.phase = phase /\ carrier'.rev = work'.rev
             /\ carrier'.omitted \cap Mapped(work'.dims) = {}
    <3>1. Respects(work)'
      BY <2>2, <2>4 DEF Respects, Omitted, CarrierActive
    <3>2. Respects(formal)'
      BY <1>1, <2>1, <2>2, <2>4 DEF Since, Respects, Omitted, CarrierActive
    <3>3. Respects(entry)'
      BY <1>1, <2>1, <2>2, <2>4 DEF Since, Respects, Omitted, CarrierActive
    <3>4. \A p \in Phase : Succeeded(p) => p # phase
      BY <2>2 DEF Succeeded, Open
    <3>5. Proposes' /\ job'.kind = "gate" /\ job'.status = "complete" => (Omitted(work))' = {}
      BY <1>1, <1>2, <2>2 DEF Undecided, Omissions, Omitted, CarrierActive
    <3>. QED BY <1>1, <2>1, <2>2, <2>4, <3>1, <3>2, <3>3, <3>4, <3>5
             DEF Omissions, Succeeded, Phase
  <2>. QED BY <1>2, <2>3, <2>4 DEF Undecided, Omissions
<1>3. CASE Verdict
  <2>1. /\ phase' = phase /\ work' = formal' /\ entry' = formal' /\ Open(phase) /\ ~Open(phase)'
        /\ ~Proposes'
    BY <1>3 DEF Verdict, Open
  <2>2. Since(formal)' /\ Since(entry)'
    BY <1>1, <2>1 DEF Since
  <2>3. CASE /\ outcome'[phase].status = "failed" /\ carrier' = carrier
             /\ formal' \in {formal, work, entry} /\ staged'[phase] = staged[phase]
    <3>1. Respects(formal)'
      BY <2>1, <2>3 DEF Omissions, Respects, Omitted, CarrierActive
    <3>2. Respects(work)' /\ Respects(entry)'
      BY <2>1, <3>1 DEF Respects
    <3>3. \A p \in Phase : Succeeded(p)' => Succeeded(p)
      BY <1>1, <1>3, <2>3 DEF Verdict, Succeeded
    <3>. QED BY <2>1, <2>2, <2>3, <3>1, <3>2, <3>3 DEF Omissions
  <2>4. CASE /\ carrier' = carrier /\ staged[phase] = 3 /\ Later(work, formal')
             /\ Omitted(work) = {} \/ (Proposes /\ job.kind = "gate" /\ job.status = "complete")
    <3>1. carrier # Null /\ (carrier.phase = phase => carrier.omitted = {})
      BY <2>1, <2>4 DEF Omissions, Omitted, CarrierActive
    <3>2. Respects(formal)' /\ Respects(work)' /\ Respects(entry)'
      BY <2>1, <2>4, <3>1 DEF Respects, Omitted, CarrierActive
    <3>3. \A p \in Phase : Succeeded(p)' => Succeeded(p) \/ p = phase
      BY <1>3 DEF Verdict, Succeeded
    <3>. QED BY <2>1, <2>2, <2>4, <3>1, <3>2, <3>3 DEF Omissions
  <2>5. CASE carrier' # Null /\ carrier'.phase = phase /\ carrier'.omitted = {}
    <3>1. Respects(formal)' /\ Respects(work)' /\ Respects(entry)'
      BY <2>1, <2>5 DEF Respects, Omitted, CarrierActive
    <3>. QED BY <1>1, <2>1, <2>2, <2>5, <3>1 DEF Omissions, Phase
  <2>. QED BY <1>3, <2>3, <2>4, <2>5 DEF Verdict
<1>4. CASE Calm
  <2>1. /\ outcome' = outcome /\ carrier' = carrier /\ staged' = staged
        /\ formal'.rev = formal.rev /\ formal'.dims = formal.dims
        /\ work'.rev = work.rev /\ work'.dims = work.dims
        /\ entry'.rev = entry.rev /\ entry'.dims = entry.dims
    BY <1>4 DEF Calm, SameState
  <2>2. Since(formal)' /\ Since(entry)'
    BY <2>1 DEF Omissions, Since
  <2>3. CASE phase' = phase /\ (Proposes' <=> Proposes) /\ (Proposes => job' = job)
    <3>1. Respects(formal)' /\ Respects(work)' /\ Respects(entry)'
      BY <2>1, <2>3 DEF Omissions, Respects, Omitted, CarrierActive, Mapped
    <3>2. (Omitted(work))' = Omitted(work)
      BY <2>1, <2>3 DEF Omitted, CarrierActive
    <3>. QED BY <2>1, <2>2, <2>3, <3>1, <3>2 DEF Omissions, Open, Succeeded
  <2>4. CASE /\ phase = 1 /\ phase' = 2 /\ Succeeded(1) /\ (Proposes' => job'.kind # "gate")
    <3>1. carrier # Null /\ carrier.phase = 1
      BY <2>4 DEF Omissions, Phase, Control, TypeOK, Carriers
    <3>2. Respects(formal)' /\ Respects(work)' /\ Respects(entry)'
      BY <2>1, <2>4, <3>1 DEF Respects, Omitted, CarrierActive
    <3>. QED BY <1>1, <2>1, <2>2, <2>4, <3>1, <3>2 DEF Omissions, Succeeded, Phase
  <2>. QED BY <1>4, <2>3, <2>4 DEF Calm
<1>. QED BY <1>2, <1>3, <1>4, StepKinds

LEMMA OmissionsInvariant == Spec => []Omissions
<1>1. Init => Omissions
  BY DEF Init, Omissions, Since, Respects, Omitted, CarrierActive, Succeeded, NoOutcome, Proposes, Phase
<1>. QED BY <1>1, OmissionsStep, ControlInvariant, FrozenInvariant, PTL DEF Spec

\* The formal State never maps a phrase its active omissions list
\* (_active_mapping_omission_carrier never raises its conflict).
THEOREM OmissionsRespected == Spec => []OmissionsNotMapped
<1>1. Omissions => OmissionsNotMapped
  BY DEF Omissions, Respects, OmissionsNotMapped
<1>. QED BY <1>1, OmissionsInvariant, PTL

-----------------------------------------------------------------------------
(* The rules of Phase 1 *)

LEMMA RulesKeptStep ==
    Control /\ Control' /\ Frozen /\ RulesKept /\ [Next]_vars => RulesKept'
<1>. SUFFICES ASSUME Control, Control', Frozen, RulesKept, [Next]_vars, phase' = 2
              PROVE  RulesKept'
  BY DEF RulesKept
<1>1. phase \in Phase /\ phase' \in Phase
  BY DEF Control, TypeOK
<1>2. CASE Undecided
  <2>1. phase = 2 /\ outcome' = outcome
    BY <1>2 DEF Undecided
  <2>2. KeepsRules(work.dims)'
    BY <1>2, <2>1 DEF RulesKept, KeepsRules, Undecided, Grows
  <2>3. KeepsRules(formal.dims)' /\ KeepsRules(entry.dims)'
    BY <1>2, <2>1, <2>2 DEF RulesKept, KeepsRules, Undecided
  <2>4. draft' # Null => KeepsRules(draft.dims)'
    BY <1>2, <2>1 DEF RulesKept, KeepsRules, Undecided, Grows
  <2>. QED BY <2>2, <2>3, <2>4 DEF RulesKept
<1>3. CASE Verdict
  <2>1. /\ phase = 2 /\ outcome'[1] = outcome[1] /\ draft' = Null
        /\ work' = formal' /\ entry' = formal'
    BY <1>3 DEF Verdict, Phase
  <2>2. KeepsRules(formal.dims)'
    BY <1>3, <2>1 DEF Verdict, RulesKept, KeepsRules, Grows
  <2>. QED BY <2>1, <2>2 DEF RulesKept, KeepsRules
<1>4. CASE Calm
  <2>1. /\ outcome' = outcome /\ draft' = draft /\ formal'.dims = formal.dims
        /\ work'.dims = work.dims /\ entry'.dims = entry.dims
    BY <1>4 DEF Calm, SameState
  <2>2. CASE phase = 2
    BY <2>1, <2>2 DEF RulesKept, KeepsRules
  <2>3. CASE phase = 1
    <3>1. ~Proposes /\ Succeeded(1)
      BY <1>4, <2>3 DEF Calm
    <3>2. /\ outcome[1].dims = formal.dims /\ Evaluated(outcome[1].dims)
          /\ work = formal /\ entry = formal /\ draft = Null
      BY <2>3, <3>1 DEF Frozen, FrozenState, Phase, Control, AtRest, Drafted, Succeeded, Open
    <3>. QED BY <2>1, <3>2 DEF RulesKept, KeepsRules, Evaluated
  <2>. QED BY <1>1, <2>2, <2>3 DEF Phase
<1>. QED BY <1>2, <1>3, <1>4, StepKinds

LEMMA RulesKeptInvariant == Spec => []RulesKept
<1>1. Init => RulesKept
  BY DEF Init, RulesKept
<1>. QED BY <1>1, RulesKeptStep, ControlInvariant, FrozenInvariant, PTL DEF Spec

\* The chains of Provider calls, the Check loop, the Final Gate and the Drafts
\* implement the ledger: one verdict per phase, given on a complete State that
\* keeps the rules of Phase 1, and a State that is frozen between a verdict and
\* the next phase.
THEOREM LedgerImplemented == Spec => ImplementsLedger
<1>1. Init => Ledger!Init
  BY DEF Init, Ledger!Init, NoOutcome, Phase
<1>2. Control /\ Control' /\ Frozen /\ RulesKept /\ [Next]_vars => [Ledger!Next]_(Ledger!vars)
  <2>. SUFFICES ASSUME Control, Control', Frozen, RulesKept, [Next]_vars
                PROVE  [Ledger!Next]_(Ledger!vars)
    OBVIOUS
  <2>. DEFINE verdict == [p \in Phase |-> [status |-> outcome[p].status, state |-> outcome[p].dims]]
  <2>1. phase \in Phase /\ formal'.dims \in Contents
    BY DEF Control, TypeOK, Runtimes
  <2>2. CASE Undecided
    <3>1. phase' = phase /\ verdict' = verdict /\ verdict[phase].status = "none"
      BY <2>1, <2>2 DEF Undecided, Open
    <3>. QED BY <2>1, <3>1 DEF Ledger!Next, Ledger!Refine, Ledger!Undecided
  <2>3. CASE Verdict
    <3>1. phase' = phase /\ verdict[phase].status = "none"
      BY <2>1, <2>3 DEF Verdict, Open
    <3>2. verdict' = [verdict EXCEPT ![phase] = [status |-> outcome'[phase].status,
                                                 state |-> formal'.dims]]
      BY <2>1, <2>3 DEF Verdict
    <3>3. CASE outcome'[phase].status = "failed"
      BY <2>1, <3>1, <3>2, <3>3
      DEF Ledger!Next, Ledger!Reject, Ledger!Decide, Ledger!Undecided
    <3>4. CASE outcome'[phase].status = "succeeded"
      <4>1. Evaluated(formal'.dims) /\ Consistent(formal'.dims)
        BY <2>3, <3>4 DEF Verdict
      <4>2. phase = 2 => verdict[1].state.knowledge \subseteq formal'.dims.knowledge
        BY <2>3, <3>4 DEF Verdict, RulesKept, KeepsRules, Grows, Phase
      <4>3. verdict[1].state \in Contents
        BY DEF Control, TypeOK, Outcomes, Phase
      <4>4. formal'.dims \in {d \in Contents : Evaluated(d) /\ Consistent(d)}
        BY <2>1, <4>1
      <4>5. phase = 2 => <<verdict[1].state, formal'.dims>> \in
                           {x \in Contents \X Contents : x[1].knowledge \subseteq x[2].knowledge}
        BY <2>1, <4>2, <4>3
      <4>6. Ledger!Decide("succeeded")
        BY <3>1, <3>2, <3>4 DEF Ledger!Decide, Ledger!Undecided
      <4>. QED BY <4>4, <4>5, <4>6 DEF Ledger!Next, Ledger!Accept
    <3>. QED BY <2>3, <3>3, <3>4 DEF Verdict
  <2>4. CASE Calm
    <3>1. verdict' = verdict /\ formal'.dims = formal.dims
      BY <2>4 DEF Calm, SameState
    <3>2. phase' = phase \/ (phase = 1 /\ phase' = 2 /\ verdict[1].status = "succeeded")
      BY <2>4 DEF Calm, Succeeded, Phase
    <3>. QED BY <3>1, <3>2 DEF Ledger!Next, Ledger!Advance, Ledger!vars
  <2>. QED BY <2>2, <2>3, <2>4, StepKinds
<1>. QED
  BY <1>1, <1>2, ControlInvariant, FrozenInvariant, RulesKeptInvariant, PTL
  DEF Spec, ImplementsLedger, Ledger!Spec

-----------------------------------------------------------------------------
(* Questions *)

\* Where no question is pending, all have their answer.
LEMMA Settled ==
    ASSUME Control, Questions, pc # "stopped", pending = Null \/ pending.req[1] # "ask"
    PROVE  \A c \in clar : c.answered
BY DEF Questions

\* What a step does to the questions: nothing, one is asked by the chain that
\* returns, the pending one is answered, or the run stops.
Settles == clar' = clar /\ (pending = Null \/ pending.req[1] # "ask") /\ pc # "stopped"
             /\ phase' \in {phase, 2}
Keeps == UNCHANGED <<pc, clar, pending, phase, outcome>>
Asks == Proposes /\ Open(phase) /\ UNCHANGED <<phase, outcome>>
          /\ \E req \in Requests, from \in {"ordinary", "draft"} : Schedule(req, from)
Halts == pc' = "stopped" /\ UNCHANGED <<clar, phase, outcome>>

LEMMA QuestionKinds ==
    Control /\ [Next]_vars => Settles \/ Keeps \/ Asks \/ DispatchQuestion \/ Halts
<1>. SUFFICES ASSUME Control, [Next]_vars
              PROVE  Settles \/ Keeps \/ Asks \/ DispatchQuestion \/ Halts
  OBVIOUS
<1>1. ASSUME Proposes, UNCHANGED <<session, clar>> PROVE Settles
  BY <1>1 DEF Settles, Control, Chain, Proposes, session
<1>2. CASE Structure \/ Mapping \/ Knowledge \/ GateKeeps \/ GateRegrounds
             \/ DraftStructure \/ DraftMapping \/ DraftKnowledge \/ ProviderFails \/ FuseBlows
  <2>1. Proposes
    BY <1>2 DEF Structure, Mapping, Knowledge, GateKeeps, GateRegrounds, Gating, DraftStructure,
                DraftMapping, DraftKnowledge, DraftStage, FormalStage, Proposing, ProviderFails,
                FuseBlows, Proposes
  <2>2. UNCHANGED <<session, check>>
    BY <1>2 DEF Structure, Mapping, Knowledge, GateKeeps, GateRegrounds, DraftStructure,
                DraftMapping, DraftKnowledge, DraftGoesOn, ProviderFails, FuseBlows
  <2>. QED BY <1>1, <2>1, <2>2 DEF check
<1>3. CASE Check
  <2>1. PICK d \in CheckedContents(work.dims, job.latest) :
          \/ \E status \in {"complete", "incomplete"} : CheckToGate(d, status)
          \/ CheckComplete(d)
          \/ CheckRestart(d)
          \/ \E req \in Requests : req[1] \in Tools /\ CheckReplays(d, req)
          \/ \E req \in Requests : req[1] \in Tools /\ CheckAsks(d, req)
    BY <1>3 DEF Check
  <2>2. Proposes /\ Open(phase)
    BY <2>1 DEF CheckToGate, CheckComplete, CheckRestart, CheckReplays, CheckAsks, FormalCheck,
                FormalStage, Proposing, Proposes
  <2>3. CASE \/ \E status \in {"complete", "incomplete"} : CheckToGate(d, status)
             \/ CheckComplete(d) \/ CheckRestart(d)
             \/ \E req \in Requests : CheckReplays(d, req)
    <3>1. UNCHANGED <<session, clar>>
      BY <2>3 DEF CheckToGate, CheckComplete, CheckRestart, CheckReplays, check
    <3>. QED BY <1>1, <2>2, <3>1
  <2>4. ASSUME NEW req \in Requests, CheckAsks(d, req) PROVE Asks
    BY <2>2, <2>4 DEF CheckAsks, Asks, session
  <2>. QED BY <2>1, <2>3, <2>4
<1>4. CASE DraftCheck
  <2>1. PICK d \in CheckedContents(draft.dims, job.latest) :
          \/ DraftCommit(d)
          \/ \E p \in Phrases : DraftAsks(d, p)
          \/ \E req \in Requests : DraftPauses(d, req)
    BY <1>4 DEF DraftCheck
  <2>2. Proposes /\ Open(phase)
    BY <1>4 DEF DraftCheck, DraftStage, Proposing, Proposes, Control, Verdicts
  <2>3. CASE DraftCommit(d)
    BY <1>1, <2>2, <2>3 DEF DraftCommit, check
  <2>4. ASSUME NEW p \in Phrases, DraftAsks(d, p) PROVE Asks
    <3>1. <<"ask", p>> \in Requests
      BY DEF Requests
    <3>2. Schedule(<<"ask", p>>, "draft") /\ UNCHANGED <<session, outcome>>
      BY <2>4 DEF DraftAsks
    <3>. QED BY <2>2, <3>1, <3>2 DEF Asks, session
  <2>5. ASSUME NEW req \in Requests, DraftPauses(d, req) PROVE Asks
    BY <2>2, <2>5 DEF DraftPauses, Asks, session
  <2>. QED BY <2>1, <2>3, <2>4, <2>5
<1>5. CASE Bootstrap
  <2>1. pending = Null
    BY <1>5 DEF Bootstrap, Control, Waiting, TypeOK
  <2>. QED BY <1>5, <2>1 DEF Bootstrap, AtTurn, Settles, check
<1>6. CASE DispatchTool \/ MainTurn
  BY <1>6 DEF DispatchTool, MainTurn, AtTurn, Settles, check
<1>7. CASE QuestionAborts \/ RunEnds
  BY <1>7 DEF QuestionAborts, RunEnds, Stop, Halts, check, session
<1>8. CASE MainExecute \/ SqlRefused \/ SubmitRefused \/ SubmitFails
  BY <1>8 DEF MainExecute, SqlRefused, SubmitRefused, SubmitFails, Submitting, CallStarts, Keeps, check
<1>9. CASE SubmitEndsTask \/ SubmitOpensPhase2
  <2>1. /\ clar' = clar /\ pending' = pending /\ outcome' = outcome /\ phase' = 2
        /\ batch > 0 /\ pc # "stopped"
    BY <1>9 DEF SubmitEndsTask, SubmitOpensPhase2, Submitting, CallStarts, check
  <2>2. CASE phase = 1
    <3>1. pending = Null
      BY <2>1, <2>2 DEF Control, Verdicts, Waiting, Succeeded, Open
    <3>. QED BY <2>1, <3>1 DEF Settles
  <2>3. CASE phase = 2
    <3>1. pc' = pc
      BY <1>9, <2>3 DEF SubmitEndsTask, SubmitOpensPhase2
    <3>. QED BY <2>1, <2>3, <3>1 DEF Keeps
  <2>. QED BY <2>2, <2>3 DEF Control, TypeOK, Phase
<1>10. CASE UNCHANGED vars
  BY <1>10 DEF vars, session, check, Keeps
<1>. QED
  BY <1>2, <1>3, <1>4, <1>5, <1>6, <1>7, <1>8, <1>9, <1>10
  DEF Next, ProviderStep, ToolStep, CallStep, Stopped

LEMMA QuestionsStep == Control /\ Control' /\ Questions /\ [Next]_vars => Questions'
<1>. SUFFICES ASSUME Control, Control', Questions, [Next]_vars PROVE Questions'
  OBVIOUS
<1>1. phase \in Phase /\ \A c \in clar : c.phase \in Phase
  BY DEF Control, TypeOK
<1>2. CASE Settles
  <2>1. \A c \in clar : c.answered
    BY <1>2, Settled DEF Settles
  <2>. QED BY <1>1, <1>2, <2>1 DEF Settles, Questions, Phase
<1>3. CASE Keeps \/ Halts
  BY <1>3 DEF Keeps, Halts, Questions, Open
<1>4. CASE Asks
  <2>1. PICK req \in Requests, from \in {"ordinary", "draft"} : Schedule(req, from)
    BY <1>4 DEF Asks
  <2>2. \A c \in clar : c.answered /\ c.phase <= phase
    BY <1>4, Settled DEF Asks, Control, Chain, Proposes, Questions
  <2>3. phase' = phase /\ Open(phase)'
    BY <1>4 DEF Asks, Open
  <2>4. pending' # Null /\ pending'.req = req
    BY <2>1, ScheduleFacts DEF Control
  <2>5. CASE req[1] = "ask"
    <3>. DEFINE new == [phase |-> phase, phrase |-> req[2], origin |-> from, answered |-> FALSE]
    <3>1. req = <<"ask", req[2]>>
      BY <2>5 DEF Requests
    <3>2. clar' = clar \cup {new}
      BY <2>1, <2>5 DEF Schedule
    <3>3. \A c \in clar' : c = new \/ (c.answered /\ c.phase <= phase)
      BY <2>2, <3>2
    <3>. QED BY <1>1, <2>3, <2>4, <3>1, <3>3 DEF Questions, Phase
  <2>6. CASE req[1] # "ask"
    BY <2>1, <2>2, <2>3, <2>6 DEF Schedule, Questions
  <2>. QED BY <2>5, <2>6
<1>5. CASE DispatchQuestion
  <2>1. \A c \in clar : c.phase <= phase /\ (~c.answered => c.phase = phase /\ pending.req[2] = c.phrase)
    BY <1>5 DEF DispatchQuestion, AtTurn, Questions
  <2>2. \A c \in clar' : \E b \in clar :
          c.phase = b.phase /\ (c.answered \/ (c = b /\ ~(b.phrase = pending.req[2] /\ b.phase = phase)))
    <3>1. \A b \in clar : [b EXCEPT !.answered = TRUE].phase = b.phase
                          /\ [b EXCEPT !.answered = TRUE].answered
      BY DEF Control, TypeOK
    <3>. QED BY <1>5, <3>1 DEF DispatchQuestion
  <2>3. phase' = phase
    BY <1>5 DEF DispatchQuestion
  <2>. QED BY <2>1, <2>2, <2>3 DEF Questions
<1>. QED BY <1>2, <1>3, <1>4, <1>5, QuestionKinds

LEMMA QuestionsInvariant == Spec => []Questions
<1>1. Init => Questions
  BY DEF Init, Questions
<1>. QED BY <1>1, QuestionsStep, ControlInvariant, PTL DEF Spec

\* A phase that succeeded has a complete and consistent State, no omitted
\* phrase, every question answered, and nothing of its Check loop left behind
\* (_advance_ready_control_stage and the records of _PhaseGroundingOutcome).
THEOREM SuccessComplete == Spec => []SucceededMeansComplete
<1>1. Control /\ Frozen /\ Omissions /\ Questions => SucceededMeansComplete
  BY DEF Control, Frozen, Omissions, Questions, SucceededMeansComplete, Waiting, Drafted,
         Succeeded, Open
<1>. QED
  BY <1>1, ControlInvariant, FrozenInvariant, OmissionsInvariant, QuestionsInvariant, PTL

-----------------------------------------------------------------------------
(* The questions of Drafts *)

LEMMA DraftQuestionsStep ==
    Control /\ Control' /\ Questions /\ DraftQuestions /\ [Next]_vars => DraftQuestions'
<1>. SUFFICES ASSUME Control, Control', Questions, DraftQuestions, [Next]_vars
              PROVE  DraftQuestions'
  OBVIOUS
<1>a. /\ phase \in Phase /\ phase' \in Phase /\ job \in Jobs
      /\ draft \in Drafts \cup {Null} /\ staged \in [Phase -> 0..3]
  BY DEF Control, TypeOK
<1>b. ASSUME Proposes, DraftAsked
      PROVE  /\ FinalGate
             /\ \/ InDraft
                \/ job.kind = "check" /\ DraftAnswer
                \/ job.kind = "gate" /\ job.status = "incomplete"
  BY <1>b DEF DraftQuestions, DraftAsked
\* Where no Draft has asked, there is nothing to forget.
<1>1. ASSUME ~DraftAsked, phase' = phase, draft' = Null,
             \A c \in clar' : c \in clar \/ c.origin = "ordinary",
             \A p \in Phase : p # phase => outcome'[p] = outcome[p],
             carrier' = carrier \/ carrier'.phase = phase
      PROVE  DraftQuestions'
  BY <1>1 DEF DraftQuestions, DraftAsked, DraftAnswersCount, Succeeded
\* A failed phase forgets its questions.
<1>2. ASSUME NEW rt \in Runtimes, FailPhase(rt), UNCHANGED <<phase, clar, carrier>>
      PROVE  DraftQuestions'
  <2>1. /\ outcome'[phase].status = "failed" /\ draft' = Null /\ pc' = "model"
        /\ \A p \in Phase : p # phase => outcome'[p] = outcome[p]
    <3>1. Record("failed", rt) /\ Return(rt) /\ draft' = Null /\ TypeOK
      BY <1>2 DEF FailPhase, Control
    <3>2. /\ outcome'[phase] = [status |-> "failed", rev |-> rt.rev, dims |-> rt.dims]
          /\ \A p \in Phase : p # phase => outcome'[p] = outcome[p]
      BY <3>1, RecordFacts
    <3>. QED BY <3>1, <3>2, ReturnFacts
  <2>. QED BY <1>2, <2>1 DEF DraftQuestions, DraftAsked, DraftAnswersCount, Succeeded, Open, Proposes
\* Within a Draft a question cannot be forgotten.
<1>3. ASSUME Proposes', job'.mode = "draft", UNCHANGED <<phase, clar, outcome, carrier>>,
             job'.kind \in {"knowledge", "check"} => (InView(draft.evidence))'
      PROVE  DraftQuestions'
  BY <1>3 DEF DraftQuestions, DraftAsked, DraftAnswersCount, Succeeded, InDraft, Proposes
<1>4. CASE Structure \/ Mapping \/ Knowledge
  <2>1. /\ Proposes /\ ~InDraft /\ job.kind \in {"structure", "mapping", "knowledge"}
        /\ UNCHANGED <<session, draft, check, outcome>>
    BY <1>4 DEF Structure, Mapping, Knowledge, FormalStage, Proposing, Proposes, InDraft
  <2>2. ~DraftAsked
    BY <1>b, <2>1
  <2>3. draft = Null
    BY <2>1 DEF Control, Chain
  <2>4. carrier' = carrier \/ carrier'.phase = phase
    <3>1. CASE Mapping
      <4>1. PICK rev, omitted, evidence :
              carrier' = [phase |-> phase, rev |-> rev, omitted |-> omitted, evidence |-> evidence]
        BY <3>1 DEF Mapping
      <4>. QED BY <4>1
    <3>. QED BY <1>4, <3>1 DEF Structure, Knowledge
  <2>. QED BY <1>1, <2>1, <2>2, <2>3, <2>4 DEF session, check
<1>5. CASE Check
  <2>1. PICK d \in CheckedContents(work.dims, job.latest) :
          \/ \E status \in {"complete", "incomplete"} : CheckToGate(d, status)
          \/ CheckComplete(d)
          \/ CheckRestart(d)
          \/ \E req \in Requests : req[1] \in Tools /\ CheckReplays(d, req)
          \/ \E req \in Requests : req[1] \in Tools /\ CheckAsks(d, req)
    BY <1>5 DEF Check
  <2>2. Proposes /\ ~InDraft /\ job.kind = "check" /\ draft = Null
    BY <2>1 DEF CheckToGate, CheckComplete, CheckRestart, CheckReplays, CheckAsks, FormalCheck,
                FormalStage, Proposing, Proposes, InDraft, Control, Chain
  <2>3. ~DraftAsked \/ (FinalGate /\ DraftAnswer)
    BY <1>b, <2>2
  <2>4. ASSUME NEW status \in {"complete", "incomplete"}, CheckToGate(d, status)
        PROVE  DraftQuestions'
    <3>1. /\ job' = [job EXCEPT !.kind = "gate", !.status = status] /\ Proposes'
          /\ UNCHANGED <<session, draft, check, carrier, outcome>>
          /\ DraftAnswer => status = "incomplete"
      BY <2>4 DEF CheckToGate, Continue, Proposes
    <3>2. job'.kind = "gate" /\ job'.status = status
      BY <1>a, <3>1 DEF Jobs
    <3>3. phase' = phase /\ clar' = clar /\ draft' = Null /\ carrier' = carrier /\ outcome' = outcome
      BY <2>2, <3>1 DEF session, check
    <3>. QED BY <2>3, <3>1, <3>2, <3>3
             DEF DraftQuestions, DraftAsked, DraftAnswersCount, Succeeded, Proposes
  <2>5. CASE CheckComplete(d) \/ CheckRestart(d)
             \/ (\E req \in Requests : CheckReplays(d, req))
    <3>1. ~DraftAsked /\ UNCHANGED <<phase, draft, clar, carrier>>
      BY <2>3, <2>5 DEF CheckComplete, CheckRestart, CheckReplays, session, check
    <3>2. \A p \in Phase : p # phase => outcome'[p] = outcome[p]
      BY <2>5 DEF CheckComplete, Conclude, Record, CheckRestart, CheckReplays, Control, TypeOK
    <3>. QED BY <1>1, <2>2, <3>1, <3>2
  <2>6. ASSUME NEW req \in Requests, CheckAsks(d, req) PROVE DraftQuestions'
    <3>1. ~DraftAsked /\ UNCHANGED <<phase, draft, outcome, carrier>>
      BY <2>3, <2>6 DEF CheckAsks, session
    <3>2. \A c \in clar' : c \in clar \/ c.origin = "ordinary"
      BY <2>6 DEF CheckAsks, Schedule
    <3>. QED BY <1>1, <2>2, <3>1, <3>2
  <2>. QED BY <2>1, <2>4, <2>5, <2>6
<1>6. CASE GateKeeps
  <2>1. /\ Proposes /\ job.kind = "gate" /\ job.status = "complete" /\ ~InDraft /\ draft = Null
        /\ UNCHANGED <<session, draft, check, carrier>>
    BY <1>6 DEF GateKeeps, Gating, Proposing, Proposes, Control, Chain
  <2>2. ~DraftAsked
    BY <1>b, <2>1
  <2>3. \A p \in Phase : p # phase => outcome'[p] = outcome[p]
    BY <1>6 DEF GateKeeps, Conclude, Record, Control, TypeOK
  <2>. QED BY <1>1, <2>1, <2>2, <2>3 DEF session, check
<1>7. CASE GateRegrounds
  <2>1. PICK first \in {"structure", "mapping"} :
          job' = [job EXCEPT !.kind = first, !.mode = "draft", !.latest = Null, !.status = "none"]
    BY <1>7 DEF GateRegrounds, Continue
  <2>2. job'.kind = first /\ job'.mode = "draft"
    BY <1>a, <2>1 DEF Jobs
  <2>. QED BY <1>3, <1>7, <2>2 DEF GateRegrounds, Continue, Proposes, session, check
<1>8. CASE DraftStructure \/ DraftMapping \/ DraftKnowledge
  <2>1. /\ Proposes /\ job.mode = "draft" /\ draft \in Drafts /\ pending = Null /\ pc # "stopped"
        /\ DraftGoesOn
    BY <1>8, <1>a DEF DraftStructure, DraftMapping, DraftKnowledge, DraftStage, Proposing, Proposes,
                      InDraft, Control, Chain
  <2>. DEFINE a == After(job.kind)
  <2>2. job' = [job EXCEPT !.kind = a] /\ Proposes' /\ UNCHANGED <<phase, clar, outcome, carrier>>
    BY <2>1 DEF DraftGoesOn, Continue, Proposes, session, check
  <2>. HIDE DEF a
  <2>3. job'.mode = "draft" /\ job'.kind = a
    BY <1>a, <2>1, <2>2 DEF Jobs
  <2>4. CASE DraftStructure
    <3>1. a = "mapping"
      BY <2>4 DEF DraftStructure, DraftStage, Proposing, After, a
    <3>. QED BY <1>3, <2>2, <2>3, <3>1
  <2>5. CASE DraftMapping
    <3>. DEFINE ev == EvidenceFor(draft.dims, TRUE)
    <3>1. ev.answered = Answered
      BY DEF EvidenceFor
    <3>2. PICK t \in SUBSET Tables, m \in Mappings, omitted \in SUBSET Phrases :
            draft' = [draft EXCEPT !.dims.tables = t, !.dims.mapping = m,
                                   !.omitted = omitted, !.evidence = ev]
      BY <2>5 DEF DraftMapping
    <3>. HIDE DEF ev
    <3>3. draft'.evidence = ev
      BY <2>1, <3>2 DEF Drafts
    <3>4. \A c \in clar : c.answered
      BY <2>1, Settled
    <3>5. \A c \in clar : c.phrase \in Answered
      BY <3>4 DEF Answered
    <3>6. (InView(draft.evidence))'
      BY <2>2, <3>1, <3>3, <3>5 DEF InView
    <3>. QED BY <1>3, <2>2, <2>3, <3>6
  <2>6. CASE DraftKnowledge
    <3>1. job.kind = "knowledge" /\ draft # Null
      BY <2>1, <2>6, NullAssumption DEF DraftKnowledge, DraftStage, Proposing
    <3>2. InView(draft.evidence)
      BY <3>1 DEF DraftQuestions
    <3>3. draft'.evidence = draft.evidence
      BY <2>1, <2>6 DEF DraftKnowledge, Drafts
    <3>4. (InView(draft.evidence))'
      BY <2>2, <3>2, <3>3 DEF InView
    <3>. QED BY <1>3, <2>2, <2>3, <3>4
  <2>. QED BY <1>8, <2>4, <2>5, <2>6
<1>9. CASE DraftCheck
  <2>1. PICK d \in CheckedContents(draft.dims, job.latest) :
          \/ DraftCommit(d)
          \/ \E p \in Phrases : DraftAsks(d, p)
          \/ \E req \in Requests : DraftPauses(d, req)
    BY <1>9 DEF DraftCheck
  <2>2. /\ Proposes /\ job.kind = "check" /\ draft # Null /\ draft \in Drafts /\ FinalGate
        /\ Open(phase)
    BY <1>9, <1>a DEF DraftCheck, DraftStage, Proposing, Proposes, Control, Chain, Drafted, InDraft, Verdicts
  <2>3. InView(draft.evidence)
    BY <2>2 DEF DraftQuestions
  <2>4. CASE DraftCommit(d)
    <3>. DEFINE n == Revised(work, d).rev
    <3>1. /\ carrier' = [phase |-> phase, rev |-> n, omitted |-> draft.omitted,
                         evidence |-> draft.evidence]
          /\ draft' = Null /\ UNCHANGED <<phase, clar>>
      BY <2>4 DEF DraftCommit, session, check
    <3>. HIDE DEF n
    <3>2. /\ \A p \in Phase : p # phase => outcome'[p] = outcome[p]
          /\ outcome'[phase].status = "succeeded" /\ pc' = "model"
      BY <2>4 DEF DraftCommit, Committed, Conclude, Record, Return, Control, TypeOK
    <3>3. (DraftAnswersCount)'
      BY <2>3, <3>1 DEF DraftAnswersCount, InView
    <3>. QED BY <3>1, <3>2, <3>3 DEF DraftQuestions, DraftAsked, Open, Proposes
  <2>5. ASSUME NEW p \in Phrases, DraftAsks(d, p) PROVE DraftQuestions'
    <3>1. /\ Schedule(<<"ask", p>>, "draft") /\ draft' = Null /\ pc' = "model"
          /\ UNCHANGED <<phase, carrier, outcome>>
      BY <2>5 DEF DraftAsks, Return, session
    <3>2. pending' # Null /\ pending'.origin = "draft"
      <4>1. <<"ask", p>> \in Requests
        BY DEF Requests
      <4>. DEFINE req == <<"ask", p>>
      <4>2. req \in Requests /\ Schedule(req, "draft")
        BY <3>1, <4>1
      <4>. HIDE DEF req
      <4>. QED BY <4>2, ScheduleFacts DEF Control
    <3>3. \A c \in clar' : c \in clar \/ c.phase = phase
      BY <3>1 DEF Schedule
    <3>4. (DraftAnswersCount)'
      BY <2>2, <3>1, <3>3 DEF DraftAnswersCount, Succeeded, Open, DraftQuestions
    <3>. QED BY <2>2, <3>1, <3>2, <3>4 DEF DraftQuestions, Proposes
  <2>6. ASSUME NEW req \in Requests, DraftPauses(d, req) PROVE DraftQuestions'
    <3>1. /\ Schedule(req, "ordinary") /\ req[1] # "ask" /\ pc' = "model"
          /\ UNCHANGED <<phase, carrier, outcome>>
      BY <2>6 DEF DraftPauses, Return, session
    <3>. DEFINE n == draft.official + 1
    <3>2. draft' = [draft EXCEPT !.dims = d, !.official = n, !.stored = TRUE] /\ n \in Nat
      BY <2>2, <2>6 DEF DraftPauses, Drafts
    <3>. HIDE DEF n
    <3>3. draft' \in Drafts /\ draft'.evidence = draft.evidence
      <4>1. d \in Contents
        BY <1>a, <2>2, CheckedFacts DEF Control, Drafted, Drafts, Jobs
      <4>. QED BY <2>2, <3>2, <4>1 DEF Drafts
    <3>4. clar' = clar
      BY <3>1 DEF Schedule
    <3>5. pending' # Null /\ draft' # Null
      BY <3>1, <3>3, ScheduleFacts, NullAssumption DEF Control
    <3>. QED BY <2>2, <2>3, <3>1, <3>3, <3>4, <3>5
             DEF DraftQuestions, DraftAsked, DraftAnswersCount, Succeeded, InView, Proposes
  <2>. QED BY <2>1, <2>4, <2>5, <2>6
<1>10. CASE ProviderFails \/ FuseBlows
  <2>1. FailPhase(work) \/ FailPhase(entry)
    BY <1>10 DEF ProviderFails, FuseBlows
  <2>. QED BY <1>2, <1>10, <2>1 DEF ProviderFails, FuseBlows, Control, TypeOK, session, check
<1>11. CASE Bootstrap
  <2>1. /\ phase = 1 /\ Open(phase) /\ staged[1] < 3 /\ pc = "model"
        /\ UNCHANGED <<phase, clar, carrier>>
    BY <1>11, <1>a DEF Bootstrap, AtTurn, check
  <2>2. pending = Null /\ draft = Null
    BY <2>1, <1>a DEF Control, Waiting, Drafted, Phase
  <2>3. ~DraftAsked
    BY <2>1, <2>2 DEF DraftQuestions
  <2>4. CASE BootstrapToolReturns(StageKinds[boot + 1])
    BY <1>1, <2>1, <2>2, <2>3, <2>4 DEF BootstrapToolReturns
  <2>5. CASE BootstrapToolFails
    BY <1>2, <2>1, <2>5 DEF BootstrapToolFails, Control, TypeOK
  <2>. QED BY <1>11, <2>4, <2>5 DEF Bootstrap
<1>12. CASE DispatchTool
  <2>1. /\ pc = "model" /\ Open(phase) /\ pending # Null /\ pending.req[1] # "ask"
        /\ UNCHANGED <<phase, clar, carrier, outcome, draft>>
    BY <1>12 DEF DispatchTool, AtTurn
  <2>2. PICK ok \in BOOLEAN : ToolObserved(pending.req, ok)
    BY <1>12 DEF DispatchTool
  <2>. DEFINE l == [req |-> pending.req, ok |-> ok, origin |-> pending.origin]
              mode == IF draft # Null THEN "draft" ELSE "formal"
  <2>3. /\ job' = [NoJob EXCEPT !.kind = "check", !.origin = "check", !.mode = mode, !.latest = l]
        /\ Proposes'
    BY <2>2 DEF ToolObserved, Continue, Proposes
  <2>. HIDE DEF l
  <2>4. job'.mode = mode
    BY <2>3 DEF NoJob
  <2>5. pending.origin # "draft"
    BY <2>1 DEF Control, Waiting
  <2>6. CASE draft # Null
    <3>1. InView(draft.evidence)
      BY <2>1, <2>6 DEF DraftQuestions, Proposes
    <3>2. (InView(draft.evidence))'
      BY <2>1, <3>1 DEF InView
    <3>. QED BY <1>3, <2>1, <2>3, <2>4, <2>6, <3>2
  <2>7. CASE draft = Null
    <3>1. ~DraftAsked
      BY <2>1, <2>5, <2>7 DEF DraftQuestions
    <3>. QED BY <1>1, <2>1, <2>7, <3>1
  <2>. QED BY <2>6, <2>7
<1>13. CASE DispatchQuestion
  <2>1. /\ pc = "model" /\ Open(phase) /\ pending # Null /\ draft = Null /\ draft' = Null
        /\ UNCHANGED <<phase, carrier, outcome>>
    BY <1>13 DEF DispatchQuestion, AtTurn
  <2>2. \A c \in clar' : \E b \in clar :
          c.phase = b.phase /\ c.phrase = b.phrase /\ c.origin = b.origin
    <3>1. \A b \in clar : LET c == [b EXCEPT !.answered = TRUE]
                          IN  c.phase = b.phase /\ c.phrase = b.phrase /\ c.origin = b.origin
      BY DEF Control, TypeOK
    <3>. QED BY <1>13, <3>1 DEF DispatchQuestion
  <2>. DEFINE l == [req |-> pending.req, ok |-> TRUE, origin |-> pending.origin]
  <2>3. /\ job' = [NoJob EXCEPT !.kind = "check", !.origin = "check", !.latest = l]
        /\ Proposes' /\ pending.req[1] = "ask"
    BY <1>13 DEF DispatchQuestion, Call, Continue, Proposes
  <2>4. l # Null
    <3>1. pending \in Pendings
      BY <2>1 DEF Control, TypeOK
    <3>2. l \in Requesting
      BY <3>1 DEF Pendings, Requesting
    <3>. QED BY <3>2, NullAssumption
  <2>5. l.req[1] = "ask" /\ l.origin = pending.origin
    BY <2>3
  <2>. HIDE DEF l
  <2>6. job'.kind = "check" /\ job'.latest = l
    BY <2>3 DEF NoJob
  <2>7. DraftAsked => DraftAnswer'
    BY <2>1, <2>4, <2>5, <2>6 DEF DraftQuestions, DraftAnswer, Answering
  <2>8. DraftAsked' => DraftAsked
    BY <2>1, <2>2 DEF DraftAsked
  <2>9. (DraftAnswersCount)'
    BY <2>1, <2>2 DEF DraftQuestions, DraftAnswersCount, Succeeded
  <2>. QED BY <2>1, <2>2, <2>3, <2>6, <2>7, <2>8, <2>9 DEF DraftQuestions, Proposes
<1>14. CASE QuestionAborts \/ RunEnds
  <2>1. /\ ~Proposes /\ pc' = "stopped" /\ UNCHANGED <<phase, clar, draft, carrier, outcome>>
    BY <1>14 DEF QuestionAborts, RunEnds, AtTurn, Stop, session, check, Proposes
  <2>. QED BY <2>1 DEF DraftQuestions, DraftAsked, DraftAnswersCount, Succeeded, InView, Proposes
<1>15. CASE MainTurn
  <2>1. /\ ~Proposes /\ ~Open(phase) /\ pc' \in {"model", "stopped"}
        /\ UNCHANGED <<phase, clar, draft, carrier, outcome>>
    BY <1>15 DEF MainTurn, AtTurn, Stop, check, Proposes, Open, Succeeded
  <2>. QED BY <2>1 DEF DraftQuestions, DraftAsked, DraftAnswersCount, Succeeded, InView, Proposes, Open
<1>16. CASE CallStep \/ UNCHANGED vars
  <2>1. UNCHANGED <<clar, pending, draft, carrier, outcome>>
    BY <1>16 DEF CallStep, MainExecute, SqlRefused, SubmitRefused, SubmitFails, SubmitEndsTask, SubmitOpensPhase2,
                 Submitting, CallStarts, vars, check
  <2>2. CASE phase' = phase
    <3>1. pc' = pc /\ job' = job
      <4>1. CASE SubmitOpensPhase2
        BY <2>2, <4>1 DEF SubmitOpensPhase2
      <4>2. CASE UNCHANGED vars
        BY <4>2 DEF vars
      <4>3. CASE SubmitEndsTask
        BY <4>3 DEF SubmitEndsTask
      <4>4. CASE MainExecute \/ SqlRefused \/ SubmitRefused \/ SubmitFails
        BY <4>4 DEF MainExecute, SqlRefused, SubmitRefused, SubmitFails
      <4>. QED BY <1>16, <4>1, <4>2, <4>3, <4>4 DEF CallStep
    <3>. QED BY <2>1, <2>2, <3>1
             DEF DraftQuestions, DraftAsked, DraftAnswersCount, Succeeded, Open, InView, Proposes,
                 InDraft, DraftAnswer, Answering
  <2>3. CASE phase' # phase
    <3>1. phase = 1 /\ phase' = 2 /\ batch > 0
      <4>1. CASE SubmitEndsTask \/ SubmitOpensPhase2
        BY <1>a, <2>3, <4>1 DEF SubmitEndsTask, SubmitOpensPhase2, Submitting, CallStarts, Phase
      <4>2. ~(UNCHANGED vars)
        BY <2>3 DEF vars, session
      <4>3. ~(MainExecute \/ SqlRefused \/ SubmitRefused \/ SubmitFails)
        BY <2>3 DEF MainExecute, SqlRefused, SubmitRefused, SubmitFails
      <4>. QED BY <1>16, <4>1, <4>2, <4>3 DEF CallStep
    <3>2. draft = Null /\ draft' = Null
      BY <2>1, <3>1 DEF Control, Verdicts, Drafted, Open, Succeeded
    <3>3. ~DraftAsked'
      BY <2>1, <3>1 DEF Questions, DraftAsked
    <3>. QED BY <2>1, <3>2, <3>3 DEF DraftQuestions, DraftAnswersCount, Succeeded
  <2>. QED BY <2>2, <2>3
<1>. QED
  BY <1>4, <1>5, <1>6, <1>7, <1>8, <1>9, <1>10, <1>11, <1>12, <1>13, <1>14, <1>15, <1>16
  DEF Next, ProviderStep, ToolStep, Stopped

LEMMA DraftQuestionsInvariant == Spec => []DraftQuestions
<1>1. Init => DraftQuestions
  BY DEF Init, DraftQuestions, DraftAsked, DraftAnswersCount, Proposes
<1>. QED BY <1>1, DraftQuestionsStep, ControlInvariant, QuestionsInvariant, PTL DEF Spec

\* A question a Draft asked is not forgotten with that Draft: a phase only
\* succeeds on a Mapping that was decided with the answer in view.
THEOREM DraftAnswersCounted == Spec => []DraftAnswersCount
BY DraftQuestionsInvariant, PTL DEF DraftQuestions

=============================================================================
