------------------------ MODULE GroundingCall_proofs ------------------------
(* Theorems about the Provider calls of Grounding, for every number of tasks *)
(* and every fuse: the types, that the counters the chain is steered by are  *)
(* exact, that the audit file and the reported error agree, and that the     *)
(* calls implement what Grounding takes for granted of them.                 *)
EXTENDS GroundingCall, SequenceTheorems, TLAPS

-----------------------------------------------------------------------------
(* Telemetry *)

LEMMA RequestType ==
    ASSUME NEW t \in Tasks
    PROVE  OwnRequest(t) \in Requests /\ SentRequest(t) \in Requests
<1>1. Logical(t) \in Tasks \X (1..2)
  BY DEF Logical
<1>. QED
  BY <1>1 DEF OwnRequest, SentRequest, Requests

LEMMA NewClientType ==
    ASSUME NEW t \in Tasks
    PROVE  NewClient \in Clients /\ Asked(t) \in Clients
<1>1. NewClient \in Clients
  BY EmptySeq DEF NewClient, Clients
<1>. QED
  BY <1>1, RequestType DEF Asked, Clients

LEMMA TelemetryType ==
    ASSUME NEW attempted \in BOOLEAN,
           NEW status \in {"rejected", "timed_out", "failed", "succeeded"},
           NEW request \in Requests \cup {Null}, NEW c \in Clients
    PROVE  Telemetry(attempted, status, request, c) \in Telemetries
BY DEF Telemetry, Clients, Telemetries

\* propose reports the result it was built for, or that its telemetry was refused.
LEMMA ProposedEffect ==
    ASSUME result \in [Tasks -> Results], NEW t \in Tasks, NEW tel \in Telemetries,
           NEW how \in Answers \cup {"client_error", "rejected", "preflight",
                                     "timeout", "provider_error"},
           Proposed(t, how, tel)
    PROVE  /\ pc' = [pc EXCEPT ![t] = "proposed"]
           /\ \E r \in Results :
                /\ result' = [result EXCEPT ![t] = r]
                /\ r.how \in {how, "escaped"}
                /\ WellFormed(tel) => r.how = how /\ r.tel = tel
<1>1. pc' = [pc EXCEPT ![t] = "proposed"]
  BY DEF Proposed, Goto
<1>2. CASE WellFormed(tel)
  <2>. DEFINE r == [how |-> how, tel |-> tel]
  <2>1. r \in Results
    BY DEF Results
  <2>2. result' = [result EXCEPT ![t] = r]
    BY <1>2 DEF Proposed
  <2>. QED BY <1>1, <2>1, <2>2
<1>3. CASE ~WellFormed(tel)
  <2>. DEFINE r == [how |-> "escaped", tel |-> Null]
  <2>1. r \in Results
    BY DEF Results
  <2>2. result' = [result EXCEPT ![t] = r]
    BY <1>3 DEF Proposed
  <2>. QED BY <1>1, <1>3, <2>1, <2>2
<1>. QED
  BY <1>2, <1>3

LEMMA TriedOnce ==
    ASSUME TypeOK, NEW t \in Tasks, Len(tried[t]) <= 1
    PROVE  tried[t] \in Seq(Attempts) /\ Len(tried[t]) \in {0, 1}
<1>1. tried[t] \in Seq(Attempts)
  BY DEF TypeOK
<1>. DEFINE n == Len(tried[t])
<1>2. n \in Nat /\ n <= 1
  BY <1>1, LenProperties
<1>. HIDE DEF n
<1>3. n \in {0, 1}
  BY <1>2
<1>. QED
  BY <1>1, <1>3 DEF n

\* The client after one more attempt.
LEMMA RememberingType ==
    ASSUME TypeOK, NEW t \in Tasks, Len(tried[t]) <= 1,
           NEW status \in {"response", "invalid_response", "failed", "timed_out"},
           NEW retry \in BOOLEAN, NEW chosen \in 0..2
    PROVE  /\ WithAttempt(t, status) \in Seq(Attempts)
           /\ Len(WithAttempt(t, status)) = Len(tried[t]) + 1
           /\ Remembering(t, WithAttempt(t, status), retry, chosen) \in Clients
<1>. DEFINE a == [request |-> SentRequest(t), status |-> status]
<1>1. a \in Attempts
  BY RequestType DEF Attempts
<1>2. tried[t] \in Seq(Attempts) /\ client[t] \in Clients
  BY DEF TypeOK
<1>3. WithAttempt(t, status) = Append(tried[t], a)
  BY DEF WithAttempt
<1>4. WithAttempt(t, status) \in Seq(Attempts)
         /\ Len(WithAttempt(t, status)) = Len(tried[t]) + 1
  <2>. HIDE DEF a
  <2>. QED BY <1>1, <1>2, <1>3
<1>5. Remembering(t, WithAttempt(t, status), retry, chosen) \in Clients
  BY <1>2, <1>4 DEF Remembering, Updater, Clients
<1>. QED
  BY <1>4, <1>5

-----------------------------------------------------------------------------
(* Types and audit: what a task that awaits the Provider knows of its call *)

AwaitsOf(t) ==
    /\ pc[t] \in {"idle", "propose", "failed"} => file[t].status = "none"
    /\ pc[t] = "awaiting" =>
         /\ file[t].status \in {"started", "retrying"}
         /\ client[t].request = SentRequest(t)
         /\ Len(tried[t]) <= 1
         /\ \A i \in 1..Len(tried[t]) : tried[t][i].request = SentRequest(t)

Awaits == \A t \in Tasks : AwaitsOf(t)

\* The telemetry of a call whose attempts were all sent with one request is
\* accepted: its error and its result leave propose as they are.
LEMMA SentWellFormed ==
    ASSUME TypeOK, Awaits, NEW t \in Tasks, pc[t] = "awaiting",
           NEW status \in {"response", "invalid_response", "failed", "timed_out"},
           NEW verdict, NEW chosen \in {0, Len(tried[t]) + 1}
    PROVE  WellFormed(Telemetry(TRUE, verdict, SentRequest(t),
                        Remembering(t, WithAttempt(t, status), Retried(t), chosen)))
<1>. DEFINE w == WithAttempt(t, status)
            tel == Telemetry(TRUE, verdict, SentRequest(t),
                             Remembering(t, w, Retried(t), chosen))
            a == [request |-> SentRequest(t), status |-> status]
<1>1. tried[t] \in Seq(Attempts) /\ client[t] \in Clients /\ Len(tried[t]) <= 1
  BY DEF TypeOK, Awaits, AwaitsOf
<1>2. \A i \in 1..Len(tried[t]) : tried[t][i].request = SentRequest(t)
  BY DEF Awaits, AwaitsOf
<1>3. w = Append(tried[t], a) /\ a \in Attempts /\ a.request = SentRequest(t)
  BY RequestType DEF WithAttempt, Attempts
<1>4. /\ Len(w) = Len(tried[t]) + 1 /\ DOMAIN w = 1..Len(w)
      /\ \A i \in 1..Len(w) : w[i].request = SentRequest(t)
  <2>. HIDE DEF a, w
  <2>. QED BY <1>1, <1>2, <1>3
<1>5. /\ tel.attempts = w /\ tel.retry = Retried(t) /\ tel.chosen = chosen
      /\ tel.request = SentRequest(t) /\ tel.attempted = TRUE
  <2>. HIDE DEF w
  <2>. QED BY <1>1 DEF Telemetry, Remembering, Updater, Clients
<1>6. Len(w) = 2 => Retried(t)
  <2>1. Len(tried[t]) = 1 => tried[t] # <<>>
    BY EmptySeq
  <2>2. Len(tried[t]) \in Nat
    BY <1>1, LenProperties
  <2>. HIDE DEF w
  <2>0. Len(w) = Len(tried[t]) + 1
    BY <1>4
  <2>3. Len(w) = 2 => Len(tried[t]) = 1
    <3>. DEFINE m == Len(w)
                n == Len(tried[t])
    <3>1. m = n + 1 /\ n \in Nat
      BY <2>0, <2>2
    <3>. HIDE DEF m, n
    <3>2. m = 2 => n = 1
      BY <3>1
    <3>. QED BY <3>2 DEF m, n
  <2>. QED BY <2>1, <2>3 DEF Retried
<1>7. w # <<>>
  <2>. HIDE DEF w
  <2>. QED BY <1>1, <1>4, EmptySeq
<1>. QED
  <2>. HIDE DEF w, tel
  <2>1. WellFormed(tel)
    BY <1>1, <1>4, <1>5, <1>6, <1>7 DEF WellFormed
  <2>. QED BY <2>1 DEF w, tel

-----------------------------------------------------------------------------
(* The end of an attempt *)

Agrees(f, r) ==
    /\ f.status = "timed_out" <=> r.how = "timeout"
    /\ f.status = "failed" <=> r.how = "provider_error"
    /\ f.status = "succeeded" <=> r.how \in Answers
    /\ r.how \in {"timeout", "provider_error", "parsed", "form", "strict"} =>
         r.tel.attempts = f.attempts

\* One attempt ended, and with it the call or not: the client c and the file f
\* hold the attempt, r is the result of the call.
Noted(t, c, f) ==
    /\ tried' = [tried EXCEPT ![t] = c.attempts] /\ Len(c.attempts) <= 2
    /\ client' = [client EXCEPT ![t] = c]
    /\ file' = [file EXCEPT ![t] = f]
    /\ faults' \in 0..MaxFaults
    /\ UNCHANGED <<task, counters, begun>>

Ended(t, r) ==
    /\ pc' = [pc EXCEPT ![t] = "proposed"]
    /\ result' = [result EXCEPT ![t] = r] /\ r.how # "none"

LastAttempt(t) ==
    \E c \in Clients, f \in Files, r \in Results :
      pc[t] = "awaiting" /\ Noted(t, c, f) /\ Ended(t, r) /\ Agrees(f, r)

FirstAttempt(t) ==
    \E c \in Clients, f \in Files :
      /\ pc[t] = "awaiting" /\ Noted(t, c, f)
      /\ UNCHANGED <<pc, result>>
      /\ f.status = "retrying" /\ c.request = SentRequest(t) /\ Len(c.attempts) <= 1
      /\ \A i \in 1..Len(c.attempts) : c.attempts[i].request = SentRequest(t)

\* A write of the audit file that fails leaves the file open, and the call ends
\* with an error of the client that claims no verdict of the Provider.
LEMMA WriteFails ==
    ASSUME TypeOK, Awaits, NEW t \in Tasks, pc[t] = "awaiting", NEW c \in Clients,
           ClientError(t, c)
    PROVE  \E r \in Results : Ended(t, r) /\ Agrees(file[t], r)
<1>. DEFINE tel == Telemetry(TRUE, "failed", OwnRequest(t), c)
<1>1. tel \in Telemetries
  BY RequestType, TelemetryType
<1>2. Proposed(t, "client_error", tel)
  BY DEF ClientError
<1>. HIDE DEF tel
<1>3. PICK r \in Results :
        /\ pc' = [pc EXCEPT ![t] = "proposed"] /\ result' = [result EXCEPT ![t] = r]
        /\ r.how \in {"client_error", "escaped"}
  <2>1. result \in [Tasks -> Results]
    BY DEF TypeOK
  <2>. QED BY <1>1, <1>2, <2>1, ProposedEffect
<1>4. file[t].status \in {"started", "retrying"}
  BY DEF Awaits, AwaitsOf
<1>. QED
  BY <1>3, <1>4 DEF Ended, Agrees, Answers

\* The last attempt of a call, whichever way it ends.
LEMMA CallEnds ==
    ASSUME TypeOK, Awaits, NEW t \in Tasks, pc[t] = "awaiting",
           NEW status \in {"response", "invalid_response", "failed", "timed_out"},
           NEW verdict \in {"rejected", "timed_out", "failed", "succeeded"},
           NEW chosen \in {0, Len(tried[t]) + 1},
           NEW how \in Answers \cup {"timeout", "provider_error"},
           NEW written \in {"timed_out", "failed", "succeeded"},
           written = "timed_out" <=> how = "timeout",
           written = "failed" <=> how = "provider_error",
           NEW c, c = Remembering(t, WithAttempt(t, status), Retried(t), chosen),
           Audited(t, written, c,
             Proposed(t, how, Telemetry(TRUE, verdict, SentRequest(t), c)))
    PROVE  LastAttempt(t)
<1>. DEFINE w == WithAttempt(t, status)
            tel == Telemetry(TRUE, verdict, SentRequest(t), c)
            f == [status |-> written, attempts |-> c.attempts]
<1>1. Len(tried[t]) <= 1 /\ Len(tried[t]) + 1 \in {1, 2} /\ chosen \in 0..2
  <2>. DEFINE n == Len(tried[t])
  <2>1. n <= 1 /\ n \in {0, 1} /\ chosen \in {0, n + 1}
    BY TriedOnce DEF Awaits, AwaitsOf
  <2>. HIDE DEF n
  <2>2. n <= 1 /\ n + 1 \in {1, 2} /\ chosen \in 0..2
    BY <2>1
  <2>. QED BY <2>2 DEF n
<1>2. /\ c \in Clients /\ c.attempts = w
      /\ w \in Seq(Attempts) /\ Len(w) = Len(tried[t]) + 1
  <2>1. Retried(t) \in BOOLEAN
    BY DEF Retried
  <2>2. client[t] \in Clients
    BY DEF TypeOK
  <2>. DEFINE retry == Retried(t)
  <2>3. c \in Clients /\ w \in Seq(Attempts) /\ Len(w) = Len(tried[t]) + 1
    <3>1. retry \in BOOLEAN /\ c = Remembering(t, WithAttempt(t, status), retry, chosen)
      BY <2>1
    <3>. HIDE DEF retry
    <3>. QED BY <1>1, <3>1, RememberingType
  <2>4. c.attempts = w
    <3>. HIDE DEF w
    <3>. QED BY <2>2 DEF Remembering, Updater, Clients, w
  <2>. QED BY <2>3, <2>4
<1>3. tel \in Telemetries /\ WellFormed(tel) /\ tel.attempts = c.attempts
  <2>1. tel \in Telemetries
    BY <1>2, RequestType, TelemetryType
  <2>2. WellFormed(tel)
    BY SentWellFormed
  <2>. QED BY <2>1, <2>2 DEF Telemetry
<1>4. f \in Files
  BY <1>2 DEF Files
<1>5. Len(c.attempts) <= 2
  <2>. DEFINE n == Len(c.attempts)
  <2>1. n \in {1, 2}
    BY <1>1, <1>2
  <2>. HIDE DEF n
  <2>2. n <= 2
    BY <2>1
  <2>. QED BY <2>2 DEF n
<1>6. /\ tried' = [tried EXCEPT ![t] = c.attempts]
      /\ client' = [client EXCEPT ![t] = c]
      /\ UNCHANGED <<task, counters, begun>>
  BY DEF Audited, Updater
<1>7. CASE file' = [file EXCEPT ![t] = f] /\ Proposed(t, how, tel) /\ UNCHANGED faults
  <2>1. PICK r \in Results :
          /\ pc' = [pc EXCEPT ![t] = "proposed"] /\ result' = [result EXCEPT ![t] = r]
          /\ r.how = how /\ r.tel = tel
    <3>1. result \in [Tasks -> Results]
      BY DEF TypeOK
    <3>2. Proposed(t, how, tel)
      BY <1>7
    <3>. HIDE DEF tel
    <3>. QED BY <1>3, <3>1, <3>2, ProposedEffect
  <2>2. Ended(t, r) /\ Agrees(f, r)
    <3>1. /\ r.tel.attempts = f.attempts /\ f.status = written
          /\ written = "succeeded" <=> how \in Answers
      BY <1>3, <2>1 DEF Answers
    <3>. HIDE DEF f, tel
    <3>. QED BY <2>1, <3>1 DEF Ended, Agrees, Answers
  <2>3. Noted(t, c, f)
    BY <1>5, <1>6, <1>7 DEF Noted, TypeOK
  <2>. HIDE DEF f
  <2>. QED BY <1>2, <1>4, <2>2, <2>3 DEF LastAttempt
<1>8. CASE faults < MaxFaults /\ faults' = faults + 1 /\ ClientError(t, c) /\ UNCHANGED file
  <2>1. PICK r \in Results : Ended(t, r) /\ Agrees(file[t], r)
    BY <1>2, <1>8, WriteFails
  <2>2. file[t] \in Files /\ file' = [file EXCEPT ![t] = file[t]]
    BY <1>8 DEF TypeOK
  <2>3. faults' \in 0..MaxFaults
    BY <1>8, CallAssumption DEF TypeOK
  <2>4. Noted(t, c, file[t])
    BY <1>5, <1>6, <2>2, <2>3 DEF Noted
  <2>. QED BY <1>2, <2>1, <2>2, <2>4 DEF LastAttempt
<1>. QED
  BY <1>7, <1>8 DEF Audited

\* Every end of an attempt is the end of the call or the one retry.
LEMMA AttemptKinds ==
    ASSUME TypeOK, Awaits, NEW t \in Tasks,
           TimesOut(t) \/ Raises(t) \/ HasNoText(t) \/ EmptyAnswer(t) \/ Responds(t)
    PROVE  LastAttempt(t) \/ FirstAttempt(t)
<1>0. pc[t] = "awaiting"
  BY DEF TimesOut, Raises, HasNoText, AttemptFails, EmptyAnswer, Responds, Audited
<1>1. client[t] \in Clients /\ client[t].request = SentRequest(t)
  BY <1>0 DEF TypeOK, Awaits, AwaitsOf
<1>2. CASE TimesOut(t)
  <2>. DEFINE c == Remembering(t, WithAttempt(t, "timed_out"), Retried(t), 0)
  <2>1. c.request = SentRequest(t)
    BY <1>1 DEF Remembering, Updater, Clients
  <2>2. Audited(t, "timed_out", c,
          Proposed(t, "timeout", Telemetry(TRUE, "timed_out", SentRequest(t), c)))
    BY <1>2, <2>1 DEF TimesOut
  <2>3. c = Remembering(t, WithAttempt(t, "timed_out"), Retried(t), 0)
    OBVIOUS
  <2>. HIDE DEF c
  <2>. QED BY <1>0, <2>2, <2>3, CallEnds
<1>3. ASSUME NEW status \in {"failed", "invalid_response"}, AttemptFails(t, status)
      PROVE  LastAttempt(t)
  <2>. DEFINE c == Remembering(t, WithAttempt(t, status), Retried(t), 0)
  <2>1. Audited(t, "failed", c,
          Proposed(t, "provider_error", Telemetry(TRUE, "failed", SentRequest(t), c)))
    BY <1>3 DEF AttemptFails
  <2>2. c = Remembering(t, WithAttempt(t, status), Retried(t), 0)
    OBVIOUS
  <2>. HIDE DEF c
  <2>. QED BY <1>0, <2>1, <2>2, CallEnds DEF Answers
<1>4. CASE Responds(t)
  <2>. DEFINE c == Remembering(t, WithAttempt(t, "response"), Retried(t), Len(tried[t]) + 1)
  <2>1. PICK how \in Answers :
          Audited(t, "succeeded", c,
            Proposed(t, how,
              Telemetry(TRUE, IF how = "parsed" THEN "succeeded" ELSE "failed",
                        SentRequest(t), c)))
    BY <1>4 DEF Responds, Parses, Answers
  <2>. DEFINE verdict == IF how = "parsed" THEN "succeeded" ELSE "failed"
  <2>2. /\ c = Remembering(t, WithAttempt(t, "response"), Retried(t), Len(tried[t]) + 1)
        /\ verdict \in {"failed", "succeeded"}
        /\ Audited(t, "succeeded", c,
             Proposed(t, how, Telemetry(TRUE, verdict, SentRequest(t), c)))
    BY <2>1
  <2>. HIDE DEF c, verdict
  <2>. QED BY <1>0, <2>2, CallEnds DEF Answers
<1>5. CASE EmptyAnswer(t)
  <2>. DEFINE w == WithAttempt(t, "response")
              c == Remembering(t, w, TRUE, 0)
              f == [status |-> "retrying", attempts |-> c.attempts]
              a == [request |-> SentRequest(t), status |-> "response"]
  <2>1. tried[t] = <<>>
    BY <1>5 DEF EmptyAnswer, MayRetry, Retried
  <2>2. w = <<a>> /\ a \in Attempts
    BY <2>1, RequestType DEF WithAttempt, Attempts
  <2>3. Len(tried[t]) <= 1
    BY <2>1
  <2>4. c \in Clients /\ w \in Seq(Attempts)
    <3>. DEFINE retry == TRUE
                chosen == 0
    <3>1. retry \in BOOLEAN /\ chosen \in 0..2 /\ c = Remembering(t, w, retry, chosen)
      OBVIOUS
    <3>. HIDE DEF retry, chosen, c
    <3>. QED BY <2>3, <3>1, RememberingType
  <2>5. c.attempts = w /\ c.request = SentRequest(t)
    <3>. HIDE DEF w
    <3>. QED BY <1>1 DEF Remembering, Updater, Clients
  <2>6. Len(w) = 1 /\ \A i \in 1..Len(w) : w[i].request = SentRequest(t)
    BY <2>2
  <2>7. f \in Files
    BY <2>4, <2>5 DEF Files
  <2>8. Audited(t, "retrying", c, UNCHANGED <<pc, result>>)
    BY <1>5 DEF EmptyAnswer
  <2>9. CASE file' = [file EXCEPT ![t] = f] /\ UNCHANGED <<pc, result>> /\ UNCHANGED faults
    <3>0. Len(c.attempts) <= 2
      <4>. HIDE DEF c, w
      <4>. QED BY <2>5, <2>6
    <3>1. Noted(t, c, f)
      <4>1. /\ tried' = [tried EXCEPT ![t] = c.attempts]
            /\ client' = [client EXCEPT ![t] = c]
            /\ UNCHANGED <<task, counters, begun>>
        BY <2>8 DEF Audited, Updater
      <4>2. faults' \in 0..MaxFaults
        BY <2>9 DEF TypeOK
      <4>. HIDE DEF c, f
      <4>. QED BY <2>9, <3>0, <4>1, <4>2 DEF Noted
    <3>2. f.status = "retrying"
      OBVIOUS
    <3>3. /\ Len(c.attempts) <= 1
          /\ \A i \in 1..Len(c.attempts) : c.attempts[i].request = SentRequest(t)
      <4>. HIDE DEF c, w
      <4>. QED BY <2>5, <2>6
    <3>. HIDE DEF c, f, w
    <3>. QED BY <1>0, <2>4, <2>5, <2>7, <2>9, <3>1, <3>2, <3>3 DEF FirstAttempt
  <2>10. CASE faults < MaxFaults /\ faults' = faults + 1 /\ ClientError(t, c) /\ UNCHANGED file
    <3>. HIDE DEF c
    <3>1. PICK r \in Results : Ended(t, r) /\ Agrees(file[t], r)
      BY <1>0, <2>4, <2>10, WriteFails
    <3>2. file[t] \in Files /\ file' = [file EXCEPT ![t] = file[t]]
      BY <2>10 DEF TypeOK
    <3>3. faults' \in 0..MaxFaults
      BY <2>10, CallAssumption DEF TypeOK
    <3>4. Noted(t, c, file[t])
      BY <2>5, <2>6, <2>8, <3>2, <3>3 DEF Noted, Audited, Updater
    <3>. QED BY <1>0, <2>4, <3>1, <3>2, <3>4 DEF LastAttempt
  <2>. QED BY <2>8, <2>9, <2>10 DEF Audited
<1>. QED
  BY <1>2, <1>3, <1>4, <1>5 DEF Raises, HasNoText

\* A call that ends before its first attempt: its file was never opened.
EndsEarly(t) ==
    \E c \in Clients, r \in Results :
      /\ pc[t] = "propose" /\ Ended(t, r)
      /\ r.how \notin Answers \cup {"timeout", "provider_error"}
      /\ client' = [client EXCEPT ![t] = c]
      /\ faults' \in 0..MaxFaults
      /\ UNCHANGED <<task, tried, file, counters, begun>>

LEMMA RefusalKinds ==
    ASSUME TypeOK, NEW t \in Tasks, RequestRejected(t) \/ KeyUnreadable(t) \/ AuditFails(t)
    PROVE  EndsEarly(t)
<1>0. /\ pc[t] = "propose" /\ result \in [Tasks -> Results] /\ client \in [Tasks -> Clients]
      /\ client[t] \in Clients /\ client = [client EXCEPT ![t] = client[t]]
      /\ faults \in 0..MaxFaults
  BY DEF RequestRejected, KeyUnreadable, AuditFails, TypeOK
<1>1. ASSUME NEW how \in {"rejected", "preflight", "client_error"}, NEW tel \in Telemetries,
             Proposed(t, how, tel)
      PROVE  \E r \in Results :
               Ended(t, r) /\ r.how \notin Answers \cup {"timeout", "provider_error"}
  <2>1. PICK r \in Results :
          /\ pc' = [pc EXCEPT ![t] = "proposed"] /\ result' = [result EXCEPT ![t] = r]
          /\ r.how \in {how, "escaped"}
    BY <1>0, <1>1, ProposedEffect
  <2>. QED BY <2>1 DEF Ended, Answers
<1>2. CASE RequestRejected(t)
  <2>. DEFINE tel == [Telemetry(FALSE, "rejected", Null, NewClient) EXCEPT !.named = FALSE]
  <2>1. tel \in Telemetries
    <3>1. Telemetry(FALSE, "rejected", Null, NewClient) \in Telemetries
      BY NewClientType, TelemetryType
    <3>. QED BY <3>1 DEF Telemetries
  <2>2. Proposed(t, "rejected", tel) /\ UNCHANGED <<task, call, counters, begun, faults>>
    BY <1>2 DEF RequestRejected
  <2>. HIDE DEF tel
  <2>3. PICK r \in Results :
          Ended(t, r) /\ r.how \notin Answers \cup {"timeout", "provider_error"}
    BY <1>1, <2>1, <2>2
  <2>. QED BY <1>0, <2>2, <2>3 DEF EndsEarly, call
<1>3. CASE KeyUnreadable(t)
  <2>. DEFINE refusal == Telemetry(FALSE, "rejected", OwnRequest(t), client[t])
              failure == Telemetry(TRUE, "failed", OwnRequest(t), client[t])
  <2>1. refusal \in Telemetries /\ failure \in Telemetries
    BY <1>0, RequestType, TelemetryType
  <2>2. /\ Proposed(t, "preflight", refusal) \/ Proposed(t, "client_error", failure)
        /\ UNCHANGED <<task, call, counters, begun, faults>>
    BY <1>3 DEF KeyUnreadable, ClientError, Updater
  <2>. HIDE DEF refusal, failure
  <2>3. PICK r \in Results :
          Ended(t, r) /\ r.how \notin Answers \cup {"timeout", "provider_error"}
    BY <1>1, <2>1, <2>2
  <2>. QED BY <1>0, <2>2, <2>3 DEF EndsEarly, call
<1>4. CASE AuditFails(t)
  <2>. DEFINE tel == Telemetry(FALSE, "rejected", SentRequest(t), Asked(t))
  <2>1. tel \in Telemetries
    BY RequestType, NewClientType, TelemetryType
  <2>2. /\ Proposed(t, "preflight", tel) /\ faults < MaxFaults /\ faults' = faults + 1
        /\ client' = [client EXCEPT ![t] = Asked(t)]
        /\ UNCHANGED <<task, tried, file, counters, begun>>
    BY <1>4 DEF AuditFails, Updater
  <2>3. faults' \in 0..MaxFaults
    BY <1>0, <2>2, CallAssumption
  <2>. HIDE DEF tel
  <2>4. PICK r \in Results :
          Ended(t, r) /\ r.how \notin Answers \cup {"timeout", "provider_error"}
    BY <1>1, <2>1, <2>2
  <2>. QED BY <1>0, <2>2, <2>3, <2>4, NewClientType DEF EndsEarly
<1>. QED
  BY <1>2, <1>3, <1>4

-----------------------------------------------------------------------------
(* The kinds of steps *)

NextOf(t) ==
    \/ Reserve(t) \/ NotStarted(t) \/ EndsEarly(t) \/ Request(t)
    \/ FirstAttempt(t) \/ LastAttempt(t) \/ RepairMapping(t) \/ Accept(t) \/ Reject(t)

LEMMA NextKinds ==
    ASSUME TypeOK, Awaits, Next
    PROVE  \E t \in Tasks : NextOf(t)
<1>1. PICK t \in Tasks : Reserve(t) \/ FuseBlows(t) \/ Misconfigured(t) \/ Advance(t)
  BY DEF Next
<1>2. CASE TimesOut(t) \/ Raises(t) \/ HasNoText(t) \/ EmptyAnswer(t) \/ Responds(t)
  BY <1>2, AttemptKinds DEF NextOf
<1>3. CASE RequestRejected(t) \/ KeyUnreadable(t) \/ AuditFails(t)
  BY <1>3, RefusalKinds DEF NextOf
<1>. QED
  BY <1>1, <1>2, <1>3 DEF Advance, FuseBlows, Misconfigured, NextOf

-----------------------------------------------------------------------------
(* The inductive invariant *)

Busy(t) == pc[t] \in {"propose", "awaiting", "proposed"}

\* The calls a stage makes when all its calls begin.
Span(t) == IF repair[t] = Null THEN 1 ELSE 2

\* A task has its slot while a stage of it is under way, and only a Mapping is
\* repaired.
SlotsOf(t) ==
    /\ reserved[t] <=> Busy(t)
    /\ ~Busy(t) => repair[t] = Null
    /\ repair[t] # Null => job[t] = "mapping"

Slots == \A t \in Tasks : SlotsOf(t)

\* The fuse has room for the calls of the stage under way, and what began and is
\* not counted is exactly what this stage began.
SpentOf(t) ==
    /\ Busy(t) => calls[t] + Span(t) <= MaxCalls
    /\ repairs[t] <= calls[t]
    /\ pc[t] # "failed" => calls[t] = stages[t] + repairs[t]
    /\ begun[t] <= MaxCalls
    /\ pc[t] = "idle" => begun[t] = calls[t]
    /\ pc[t] = "propose" => begun[t] + 1 = calls[t] + Span(t)
    /\ pc[t] = "awaiting" => begun[t] = calls[t] + Span(t)
    /\ pc[t] = "proposed" /\ result[t].how \in Answers =>
         begun[t] = calls[t] + Span(t)

Spent == \A t \in Tasks : SpentOf(t)

CallInv == TypeOK /\ Slots /\ Spent /\ Awaits /\ AuditAgrees

\* No failure makes a stage count more calls than the fuse had room for.
LEMMA CountedFits ==
    ASSUME CallInv, NEW t \in Tasks, pc[t] = "proposed"
    PROVE  CountedOf(t) \in 0..Span(t)
<1>1. repair[t] \in {"form", "state", Null} /\ (repair[t] # Null => job[t] = "mapping")
  BY DEF CallInv, TypeOK, Slots, SlotsOf
<1>2. CountedOfGate(t) \in 0..1
  BY DEF CountedOfGate
<1>. DEFINE escaped == result[t].how = "escaped"
            last == IF ~escaped /\ result[t].tel.attempted THEN 1 ELSE 0
<1>3. last \in 0..1
  OBVIOUS
<1>4. CountedOf(t) =
        CASE job[t] = "gate"     -> CountedOfGate(t)
          [] repair[t] = "form"  -> IF escaped THEN 0 ELSE 1 + last
          [] repair[t] = "state" -> IF escaped THEN 2 ELSE 1 + last
          [] OTHER               -> last
  BY DEF CountedOf
<1>. HIDE DEF escaped, last
<1>5. CASE job[t] = "gate"
  <2>1. repair[t] # "form" /\ repair[t] # "state"
    BY <1>1, <1>5, NoRepairAssumption
  <2>2. Span(t) = 1
    BY <1>1, <2>1 DEF Span
  <2>3. CountedOf(t) = CountedOfGate(t)
    BY <1>4, <1>5, <2>1
  <2>. QED BY <1>2, <2>2, <2>3
<1>6. CASE repair[t] = "form" /\ job[t] # "gate"
  <2>1. Span(t) = 2
    BY <1>6, NoRepairAssumption DEF Span
  <2>2. CountedOf(t) = IF escaped THEN 0 ELSE 1 + last
    BY <1>4, <1>6
  <2>. QED BY <1>3, <2>1, <2>2
<1>7. CASE repair[t] = "state" /\ job[t] # "gate"
  <2>1. Span(t) = 2
    BY <1>7, NoRepairAssumption DEF Span
  <2>2. CountedOf(t) = IF escaped THEN 2 ELSE 1 + last
    BY <1>4, <1>7
  <2>. QED BY <1>3, <2>1, <2>2
<1>8. CASE repair[t] = Null /\ job[t] # "gate"
  <2>1. Span(t) = 1
    BY <1>8 DEF Span
  <2>2. CountedOf(t) = last
    BY <1>4, <1>8, NoRepairAssumption
  <2>. QED BY <1>3, <2>1, <2>2
<1>. QED
  BY <1>1, <1>5, <1>6, <1>7, <1>8

\* A stage is over: n calls are counted, two of them as one stage and its repair.
Closed(t, n) ==
    /\ pc[t] = "proposed"
    /\ calls' = [calls EXCEPT ![t] = @ + n]
    /\ repairs' = [repairs EXCEPT ![t] = IF n = 2 THEN @ + 1 ELSE @]
    /\ Release(t)
    /\ UNCHANGED <<begun, faults>>
    /\ \/ /\ n = Span(t) /\ result[t].how = "parsed"
          /\ stages' = [stages EXCEPT ![t] = @ + 1]
          /\ pc' = [pc EXCEPT ![t] = "idle"]
       \/ stages' = stages /\ pc' = [pc EXCEPT ![t] = "failed"]

LEMMA Closing ==
    ASSUME CallInv, NEW t \in Tasks, Accept(t) \/ Reject(t)
    PROVE  \E n \in 0..Span(t) : Closed(t, n)
<1>1. CASE Accept(t)
  <2>1. Span(t) \in 0..Span(t)
    BY DEF Span
  <2>2. Closed(t, Span(t))
    BY <1>1 DEF Accept, RecordCalls, Goto, Closed, Span
  <2>. QED BY <2>1, <2>2
<1>2. CASE Reject(t)
  <2>. DEFINE n == CountedOf(t)
  <2>1. n \in 0..Span(t)
    BY <1>2, CountedFits DEF Reject
  <2>2. Closed(t, n)
    <3>1. RecordCalls(t, n) /\ Release(t) /\ Goto(t, "failed") /\ pc[t] = "proposed"
            /\ UNCHANGED <<stages, begun, faults>>
      BY <1>2 DEF Reject
    <3>. HIDE DEF n
    <3>. QED BY <3>1 DEF RecordCalls, Goto, Closed
  <2>. HIDE DEF n
  <2>. QED BY <2>1, <2>2
<1>. QED
  BY <1>1, <1>2

LEMMA ReleaseType ==
    ASSUME TypeOK, NEW t \in Tasks, Release(t)
    PROVE  /\ reserved' \in [Tasks -> BOOLEAN] /\ job' \in [Tasks -> Stages \cup {"stage"}]
           /\ repair' \in [Tasks -> {"form", "state", Null}]
           /\ tried' \in [Tasks -> Seq(Attempts)] /\ \A u \in Tasks : Len(tried'[u]) <= 2
           /\ file' \in [Tasks -> Files] /\ client' \in [Tasks -> Clients]
           /\ result' \in [Tasks -> Results]
<1>. USE DEF TypeOK, Release
<1>1. NoFile \in Files /\ NewClient \in Clients /\ NoResult \in Results
  BY EmptySeq, NewClientType DEF NoFile, NoResult, Files, Results
<1>2. <<>> \in Seq(Attempts) /\ Len(<<>>) <= 2
  BY EmptySeq
<1>3. tried' \in [Tasks -> Seq(Attempts)] /\ \A u \in Tasks : Len(tried'[u]) <= 2
  BY <1>2
<1>4. file' \in [Tasks -> Files] /\ client' \in [Tasks -> Clients]
        /\ result' \in [Tasks -> Results]
  BY <1>1 DEF Updater
<1>. QED
  BY <1>3, <1>4

LEMMA InitCall == Init => CallInv
<1>. SUFFICES ASSUME Init PROVE CallInv
  OBVIOUS
<1>1. NoFile \in Files /\ NoResult \in Results /\ NoFile.status = "none"
        /\ NoResult.how = "none"
  BY EmptySeq DEF NoFile, NoResult, Files, Results
<1>2. NewClient \in Clients
  BY EmptySeq DEF NewClient, Clients
<1>3. <<>> \in Seq(Attempts) /\ Len(<<>>) <= 2
  BY EmptySeq
<1>4. TypeOK
  BY <1>1, <1>2, <1>3, CallAssumption DEF Init, TypeOK
<1>5. Slots /\ Spent
  BY CallAssumption DEF Init, Slots, SlotsOf, Spent, SpentOf, Busy
<1>6. Awaits /\ AuditAgrees
  BY <1>1 DEF Init, Awaits, AwaitsOf, AuditAgrees
<1>. QED
  BY <1>4, <1>5, <1>6 DEF CallInv

LEMMA NextType ==
    ASSUME CallInv, NEW t \in Tasks, NextOf(t)
    PROVE  TypeOK'
<1>. USE CallAssumption DEF TypeOK
<1>0. TypeOK
  BY DEF CallInv
<1>1. CASE Reserve(t)
  BY <1>0, <1>1 DEF Reserve, Goto, call, counters
<1>2. CASE NotStarted(t)
  BY <1>0, <1>2 DEF NotStarted, Goto, task, call, counters
<1>3. CASE EndsEarly(t)
  BY <1>0, <1>3 DEF EndsEarly, Ended, task, counters
<1>4. CASE Request(t)
  <2>1. [status |-> "started", attempts |-> <<>>] \in Files
    BY EmptySeq DEF Files
  <2>2. Asked(t) \in Clients
    BY NewClientType
  <2>3. <<>> \in Seq(Attempts) /\ Len(<<>>) <= 2
    BY EmptySeq
  <2>4. tried' \in [Tasks -> Seq(Attempts)] /\ \A u \in Tasks : Len(tried'[u]) <= 2
    BY <1>0, <1>4, <2>3 DEF Request
  <2>5. file' \in [Tasks -> Files] /\ client' \in [Tasks -> Clients]
          /\ begun' \in [Tasks -> Nat]
    BY <1>0, <1>4, <2>1, <2>2 DEF Request, Updater
  <2>. QED BY <1>0, <1>4, <2>4, <2>5 DEF Request, Goto, task, counters
<1>5. CASE FirstAttempt(t) \/ LastAttempt(t)
  <2>1. PICK c \in Clients, f \in Files, r \in Results :
          Noted(t, c, f) /\ (UNCHANGED <<pc, result>> \/ Ended(t, r))
    <3>1. CASE FirstAttempt(t)
      <4>1. [how |-> "none", tel |-> Null] \in Results
        BY DEF Results
      <4>. QED BY <3>1, <4>1 DEF FirstAttempt
    <3>2. CASE LastAttempt(t)
      BY <3>2 DEF LastAttempt
    <3>. QED BY <1>5, <3>1, <3>2
  <2>2. tried' \in [Tasks -> Seq(Attempts)] /\ \A u \in Tasks : Len(tried'[u]) <= 2
    BY <1>0, <2>1 DEF Noted, Clients
  <2>3. file' \in [Tasks -> Files] /\ client' \in [Tasks -> Clients]
          /\ faults' \in 0..MaxFaults
    BY <1>0, <2>1 DEF Noted
  <2>4. pc' \in [Tasks -> {"idle", "propose", "awaiting", "proposed", "failed"}]
          /\ result' \in [Tasks -> Results]
    <3>1. CASE UNCHANGED <<pc, result>>
      BY <1>0, <3>1
    <3>2. CASE Ended(t, r)
      <4>1. pc' = [pc EXCEPT ![t] = "proposed"] /\ result' = [result EXCEPT ![t] = r]
        BY <3>2 DEF Ended
      <4>2. result' \in [Tasks -> Results]
        BY <1>0, <4>1
      <4>. QED BY <1>0, <4>1, <4>2
    <3>. QED BY <2>1, <3>1, <3>2
  <2>. QED BY <1>0, <2>1, <2>2, <2>3, <2>4 DEF Noted, task, counters
<1>6. CASE RepairMapping(t)
  <2>1. NoFile \in Files
    BY EmptySeq DEF NoFile, Files
  <2>2. file' \in [Tasks -> Files] /\ repair' \in [Tasks -> {"form", "state", Null}]
    BY <1>0, <1>6, <2>1 DEF RepairMapping
  <2>. QED BY <1>0, <1>6, <2>2 DEF RepairMapping, Goto, counters
<1>7. CASE Accept(t) \/ Reject(t)
  <2>1. PICK n \in 0..Span(t) : Closed(t, n)
    BY <1>7, Closing
  <2>2. n \in 0..2 /\ n \in Nat /\ calls[t] + n <= MaxCalls
    BY <2>1 DEF Closed, CallInv, Spent, SpentOf, Span, Busy
  <2>3. calls' \in [Tasks -> 0..MaxCalls]
    BY <1>0, <2>1, <2>2 DEF Closed
  <2>4. n = 2 => repairs[t] + 1 <= MaxCalls
    BY <1>0, <2>2 DEF CallInv, Spent, SpentOf
  <2>5. repairs' \in [Tasks -> 0..MaxCalls]
    BY <1>0, <2>1, <2>4 DEF Closed
  <2>6. stages' \in [Tasks -> Nat]
          /\ pc' \in [Tasks -> {"idle", "propose", "awaiting", "proposed", "failed"}]
    <3>. DEFINE n1 == stages[t] + 1
    <3>1. /\ stages' = stages \/ stages' = [stages EXCEPT ![t] = n1]
          /\ pc' = [pc EXCEPT ![t] = "idle"] \/ pc' = [pc EXCEPT ![t] = "failed"]
      BY <2>1 DEF Closed
    <3>2. n1 \in Nat
      BY <1>0
    <3>. HIDE DEF n1
    <3>3. stages' \in [Tasks -> Nat]
      <4>1. stages \in [Tasks -> Nat]
        BY <1>0
      <4>. QED BY <3>1, <3>2, <4>1
    <3>. QED BY <1>0, <3>1, <3>3
  <2>7. Release(t) /\ begun' = begun /\ faults' = faults
    BY <2>1 DEF Closed
  <2>. QED BY <1>0, <2>3, <2>5, <2>6, <2>7, ReleaseType
<1>. QED
  BY <1>1, <1>2, <1>3, <1>4, <1>5, <1>6, <1>7 DEF NextOf

\* A step of one task leaves the others alone: tasks share no client.
LEMMA Elsewhere ==
    ASSUME CallInv, NEW t \in Tasks, NextOf(t), NEW u \in Tasks, u # t
    PROVE  /\ pc'[u] = pc[u] /\ job'[u] = job[u] /\ reserved'[u] = reserved[u]
           /\ repair'[u] = repair[u] /\ tried'[u] = tried[u] /\ file'[u] = file[u]
           /\ client'[u] = client[u] /\ result'[u] = result[u] /\ calls'[u] = calls[u]
           /\ repairs'[u] = repairs[u] /\ stages'[u] = stages[u] /\ begun'[u] = begun[u]
<1>. USE DEF task, call, counters, Goto, TypeOK
<1>0. TypeOK
  BY DEF CallInv
<1>1. CASE Reserve(t) \/ NotStarted(t)
  BY <1>0, <1>1 DEF Reserve, NotStarted
<1>2. CASE EndsEarly(t)
  BY <1>0, <1>2 DEF EndsEarly, Ended
<1>3. CASE Request(t)
  BY <1>0, <1>3 DEF Request, Updater
<1>4. CASE FirstAttempt(t) \/ LastAttempt(t)
  BY <1>0, <1>4 DEF FirstAttempt, LastAttempt, Noted, Ended
<1>5. CASE RepairMapping(t)
  <2>1. \E how \in {"form", "state"} : repair' = [repair EXCEPT ![t] = how]
    BY <1>5 DEF RepairMapping
  <2>. QED BY <1>0, <1>5, <2>1 DEF RepairMapping
<1>6. CASE Accept(t) \/ Reject(t)
  BY <1>0, <1>6 DEF Accept, Reject, RecordCalls, Release, Updater
<1>. QED
  BY <1>1, <1>2, <1>3, <1>4, <1>5, <1>6 DEF NextOf

LEMMA NextSlots ==
    ASSUME CallInv, NEW t \in Tasks, NextOf(t)
    PROVE  Slots'
<1>. SUFFICES ASSUME NEW u \in Tasks PROVE SlotsOf(u)'
  BY DEF Slots
<1>0. TypeOK /\ SlotsOf(u)
  BY DEF CallInv, Slots
<1>. USE DEF SlotsOf, Busy, TypeOK
<1>1. CASE u # t
  BY <1>0, <1>1, Elsewhere
<1>2. CASE u = t /\ Reserve(t)
  BY <1>0, <1>2 DEF Reserve, Goto
<1>3. CASE u = t /\ (NotStarted(t) \/ EndsEarly(t) \/ LastAttempt(t) \/ Request(t)
                     \/ FirstAttempt(t))
  <2>1. reserved' = reserved /\ repair' = repair /\ job' = job
    BY <1>3 DEF NotStarted, EndsEarly, LastAttempt, Request, FirstAttempt, Noted, task
  <2>2. Busy(u)' <=> Busy(u)
    BY <1>0, <1>3 DEF NotStarted, EndsEarly, LastAttempt, Request, FirstAttempt, Ended,
                      Goto
  <2>. QED BY <1>0, <2>1, <2>2
<1>4. CASE u = t /\ RepairMapping(t)
  <2>1. reserved' = reserved /\ job' = job /\ job[t] = "mapping"
    BY <1>4 DEF RepairMapping, MayRepair
  <2>2. Busy(u) /\ Busy(u)'
    BY <1>0, <1>4 DEF RepairMapping, Goto
  <2>. QED BY <1>0, <1>4, <2>1, <2>2
<1>5. CASE u = t /\ (Accept(t) \/ Reject(t))
  <2>1. pc'[t] \in {"idle", "failed"} /\ reserved'[t] = FALSE /\ repair'[t] = Null
    BY <1>0, <1>5 DEF Accept, Reject, Release, Goto
  <2>. QED BY <1>5, <2>1
<1>. QED
  BY <1>1, <1>2, <1>3, <1>4, <1>5 DEF NextOf

LEMMA NextSpent ==
    ASSUME CallInv, NEW t \in Tasks, NextOf(t)
    PROVE  Spent'
<1>. SUFFICES ASSUME NEW u \in Tasks PROVE SpentOf(u)'
  BY DEF Spent
<1>0. TypeOK /\ SlotsOf(u) /\ SpentOf(u)
  BY DEF CallInv, Slots, Spent
<1>. USE CallAssumption DEF SpentOf, Busy, Span
<1>1. CASE u # t
  BY <1>0, <1>1, Elsewhere
<1>n. /\ calls[u] \in Nat /\ repairs[u] \in Nat /\ stages[u] \in Nat
      /\ begun[u] \in Nat
  BY <1>0 DEF TypeOK
<1>2. CASE u = t /\ Reserve(t)
  <2>1. /\ pc'[t] = "propose" /\ pc[t] = "idle" /\ calls[t] < MaxCalls
        /\ repair' = repair /\ repair[t] = Null
        /\ calls' = calls /\ repairs' = repairs /\ stages' = stages /\ begun' = begun
    BY <1>0, <1>2 DEF Reserve, Goto, counters, SlotsOf, TypeOK
  <2>. QED BY <1>0, <1>2, <1>n, <2>1
<1>3. CASE u = t /\ (NotStarted(t) \/ EndsEarly(t) \/ LastAttempt(t) \/ FirstAttempt(t))
  <2>1. /\ repair' = repair
        /\ calls' = calls /\ repairs' = repairs /\ stages' = stages /\ begun' = begun
    BY <1>3 DEF NotStarted, EndsEarly, LastAttempt, FirstAttempt, Noted, task, counters
  <2>2. \/ pc'[t] = "failed" /\ pc[t] = "idle"
        \/ pc'[t] = "proposed" /\ pc[t] = "propose" /\ result'[t].how \notin Answers
        \/ pc'[t] = "proposed" /\ pc[t] = "awaiting"
        \/ pc'[t] = "awaiting" /\ pc[t] = "awaiting"
    BY <1>0, <1>3 DEF NotStarted, EndsEarly, LastAttempt, FirstAttempt, Ended, Goto, TypeOK
  <2>. QED BY <1>0, <1>3, <2>1, <2>2
<1>4. CASE u = t /\ Request(t)
  <2>1. /\ pc'[t] = "awaiting" /\ pc[t] = "propose" /\ repair' = repair
        /\ begun'[t] = begun[t] + 1
        /\ calls' = calls /\ repairs' = repairs /\ stages' = stages
    BY <1>0, <1>4 DEF Request, Goto, task, counters, TypeOK
  <2>. QED BY <1>0, <1>4, <1>n, <2>1
<1>5. CASE u = t /\ RepairMapping(t)
  <2>1. /\ pc'[t] = "propose" /\ pc[t] = "proposed" /\ repair[t] = Null
        /\ calls[t] + 1 < MaxCalls /\ result[t].how \in Answers
        /\ calls' = calls /\ repairs' = repairs /\ stages' = stages /\ begun' = begun
    BY <1>0, <1>5 DEF RepairMapping, MayRepair, Goto, counters, Answers, TypeOK
  <2>2. repair'[t] \in {"form", "state"}
    BY <1>0, <1>5 DEF RepairMapping, TypeOK
  <2>3. repair'[t] # Null
    BY <2>2, NoRepairAssumption
  <2>. QED BY <1>0, <1>5, <1>n, <2>1, <2>3
<1>6. CASE u = t /\ (Accept(t) \/ Reject(t))
  <2>1. PICK n \in 0..Span(t) : Closed(t, n)
    BY <1>6, Closing
  <2>2. /\ pc[t] = "proposed" /\ pc'[t] \in {"idle", "failed"}
        /\ pc'[t] = "idle" => n = Span(t) /\ result[t].how = "parsed"
        /\ begun' = begun
    BY <1>0, <2>1 DEF Closed, TypeOK
  <2>3. /\ calls'[t] = calls[t] + n
        /\ repairs'[t] = IF n = 2 THEN repairs[t] + 1 ELSE repairs[t]
    BY <1>0, <2>1 DEF Closed, TypeOK
  <2>4. pc'[t] = "idle" => stages'[t] = stages[t] + 1
    BY <1>0, <2>1 DEF Closed, TypeOK
  <2>5. n \in 0..2
    OBVIOUS
  <2>6. pc'[t] = "idle" => begun[t] = calls[t] + n /\ n \in {1, 2}
    BY <1>0, <1>6, <2>2 DEF Answers
  <2>. QED BY <1>0, <1>6, <1>n, <2>2, <2>3, <2>4, <2>5, <2>6
<1>. QED
  BY <1>1, <1>2, <1>3, <1>4, <1>5, <1>6 DEF NextOf

AuditOf(t) == pc[t] = "proposed" => Agrees(file[t], result[t])

LEMMA AuditByTask == AuditAgrees <=> \A t \in Tasks : AuditOf(t)
BY DEF AuditAgrees, AuditOf, Agrees, Answers

LEMMA AuditByTaskNext == AuditAgrees' <=> \A t \in Tasks : AuditOf(t)'
BY DEF AuditAgrees, AuditOf, Agrees, Answers

LEMMA NextAwaits ==
    ASSUME CallInv, NEW t \in Tasks, NextOf(t)
    PROVE  Awaits' /\ AuditAgrees'
<1>. SUFFICES ASSUME NEW u \in Tasks PROVE AwaitsOf(u)' /\ AuditOf(u)'
  BY AuditByTaskNext DEF Awaits
<1>0. TypeOK /\ AwaitsOf(u) /\ AuditOf(u)
  BY AuditByTask DEF CallInv, Awaits
<1>. USE DEF AwaitsOf, AuditOf
<1>1. CASE u # t
  BY <1>0, <1>1, Elsewhere DEF SentRequest, Logical
<1>2. CASE u = t /\ (Reserve(t) \/ NotStarted(t))
  <2>1. pc[t] = "idle" /\ pc'[t] \in {"propose", "failed"} /\ file' = file
    BY <1>0, <1>2 DEF Reserve, NotStarted, Goto, call, TypeOK
  <2>. QED BY <1>0, <1>2, <2>1
<1>3. CASE u = t /\ EndsEarly(t)
  <2>1. /\ pc'[t] = "proposed" /\ pc[t] = "propose" /\ file' = file
        /\ result'[t].how \notin Answers \cup {"timeout", "provider_error"}
    BY <1>0, <1>3 DEF EndsEarly, Ended, TypeOK
  <2>2. file'[t].status = "none"
    BY <1>0, <1>3, <2>1
  <2>. QED BY <1>3, <2>1, <2>2 DEF Agrees, Answers
<1>4. CASE u = t /\ Request(t)
  <2>1. /\ pc'[t] = "awaiting" /\ file'[t].status = "started"
        /\ client'[t].request = SentRequest(t) /\ tried'[t] = <<>> /\ repair' = repair
    BY <1>0, <1>4 DEF Request, Goto, Updater, Asked, NewClient, task, TypeOK
  <2>2. SentRequest(t)' = SentRequest(t)
    BY <2>1 DEF SentRequest, Logical
  <2>3. Len(tried'[t]) = 0 /\ Len(tried'[t]) <= 1
    BY <2>1
  <2>. QED BY <1>4, <2>1, <2>2, <2>3
<1>5. CASE u = t /\ FirstAttempt(t)
  <2>1. PICK c \in Clients, f \in Files :
          /\ pc[t] = "awaiting" /\ Noted(t, c, f) /\ pc' = pc
          /\ f.status = "retrying" /\ c.request = SentRequest(t) /\ Len(c.attempts) <= 1
          /\ \A i \in 1..Len(c.attempts) : c.attempts[i].request = SentRequest(t)
    BY <1>5 DEF FirstAttempt
  <2>2. file'[t] = f /\ client'[t] = c /\ tried'[t] = c.attempts /\ repair' = repair
    BY <1>0, <2>1 DEF Noted, task, TypeOK
  <2>3. SentRequest(t)' = SentRequest(t)
    BY <2>2 DEF SentRequest, Logical
  <2>. QED BY <1>5, <2>1, <2>2, <2>3
<1>6. CASE u = t /\ LastAttempt(t)
  <2>1. PICK c \in Clients, f \in Files, r \in Results :
          pc[t] = "awaiting" /\ Noted(t, c, f) /\ Ended(t, r) /\ Agrees(f, r)
    BY <1>6 DEF LastAttempt
  <2>2. pc'[t] = "proposed" /\ file'[t] = f /\ result'[t] = r
    BY <1>0, <2>1 DEF Noted, Ended, TypeOK
  <2>. QED BY <1>6, <2>1, <2>2
<1>7. CASE u = t /\ RepairMapping(t)
  <2>1. pc'[t] = "propose" /\ file'[t].status = "none"
    BY <1>0, <1>7 DEF RepairMapping, NoFile, Goto, TypeOK
  <2>. QED BY <1>7, <2>1
<1>8. CASE u = t /\ (Accept(t) \/ Reject(t))
  <2>1. pc'[t] \in {"idle", "failed"} /\ file'[t].status = "none"
    BY <1>0, <1>8 DEF Accept, Reject, Release, NoFile, Goto, TypeOK
  <2>. QED BY <1>8, <2>1
<1>. QED
  BY <1>1, <1>2, <1>3, <1>4, <1>5, <1>6, <1>7, <1>8 DEF NextOf

LEMMA CallInvariant == Spec => []CallInv
<1>1. CallInv /\ [Next]_vars => CallInv'
  <2>. SUFFICES ASSUME CallInv, [Next]_vars PROVE CallInv'
    OBVIOUS
  <2>1. CASE Next
    <3>1. PICK t \in Tasks : NextOf(t)
      BY <2>1, NextKinds DEF CallInv
    <3>. QED BY <3>1, NextType, NextSlots, NextSpent, NextAwaits DEF CallInv
  <2>2. CASE UNCHANGED vars
    BY <2>2 DEF vars, task, call, counters, CallInv, TypeOK, Slots, SlotsOf, Busy,
                Spent, SpentOf, Span, Awaits, AwaitsOf, AuditAgrees, SentRequest, Logical
  <2>. QED BY <2>1, <2>2
<1>. QED
  BY <1>1, InitCall, PTL DEF Spec

-----------------------------------------------------------------------------
(* The theorems *)

\* The types of all calls: no audit file, telemetry or client ever holds more than
\* the two attempts of one logical call, and no counter passes the fuse.
THEOREM TypeCorrect == Spec => []TypeOK
<1>1. CallInv => TypeOK
  BY DEF CallInv
<1>. QED
  BY <1>1, CallInvariant, PTL

\* While the chain of a task goes on, its counter is the number of calls that
\* reached the Provider, and its stages are the calls that were no repair; and no
\* order of failures, retries and repairs lets more calls begin than the fuse.
THEOREM CountExact == Spec => []CountInStep
<1>1. CallInv => CountInStep
  <2>. SUFFICES ASSUME CallInv, NEW t \in Tasks
                PROVE  /\ begun[t] <= MaxCalls
                       /\ pc[t] = "idle" => calls[t] = begun[t] /\ calls[t] - repairs[t] = stages[t]
    BY DEF CountInStep
  <2>1. SpentOf(t)
    BY DEF CallInv, Spent
  <2>2. calls[t] \in Nat /\ repairs[t] \in Nat /\ stages[t] \in Nat
    BY CallAssumption DEF CallInv, TypeOK
  <2>. QED BY <2>1, <2>2 DEF SpentOf
<1>. QED
  BY <1>1, CallInvariant, PTL

\* The private audit file of a call and the error or result the call is reported
\* with agree, also when a write of the file fails and when the telemetry of the
\* error is refused.
THEOREM AuditTold == Spec => []AuditAgrees
<1>1. CallInv => AuditAgrees
  BY DEF CallInv
<1>. QED
  BY <1>1, CallInvariant, PTL

\* What Grounding takes for granted of its Provider calls is what the code of the
\* call does: an accepted stage counts one call, or two with one repair, within
\* the fuse, and a stage that fails ends the chain with at most two more counted.
THEOREM StagesImplemented == Spec => ImplementsStages
<1>. DEFINE going == [t \in Tasks |-> pc[t] # "failed"]
<1>1. Init => Ledger!Init
  BY DEF Init, Ledger!Init
<1>2. CallInv /\ [Next]_vars => [Ledger!Next]_(Ledger!vars)
  <2>. SUFFICES ASSUME CallInv, [Next]_vars, ~UNCHANGED Ledger!vars PROVE Ledger!Next
    OBVIOUS
  <2>1. Next
    BY DEF vars, counters, Ledger!vars
  <2>2. PICK t \in Tasks : NextOf(t)
    BY <2>1, NextKinds DEF CallInv
  <2>3. TypeOK /\ SpentOf(t)
    BY DEF CallInv, Spent
  <2>4. CASE \/ Reserve(t) \/ EndsEarly(t) \/ Request(t) \/ FirstAttempt(t)
             \/ LastAttempt(t) \/ RepairMapping(t)
    <3>1. calls' = calls /\ repairs' = repairs
      BY <2>4 DEF Reserve, EndsEarly, Request, FirstAttempt, LastAttempt, Noted,
                  RepairMapping, counters
    <3>2. \A u \in Tasks : pc'[u] # "failed" <=> pc[u] # "failed"
      BY <2>3, <2>4 DEF Reserve, EndsEarly, Ended, Request, FirstAttempt, LastAttempt,
                        RepairMapping, Goto, TypeOK
    <3>3. going' = going
      BY <3>2
    <3>. QED BY <3>1, <3>3 DEF Ledger!vars
  <2>5. CASE NotStarted(t)
    <3>1. calls' = calls /\ repairs' = repairs /\ pc[t] = "idle"
            /\ pc' = [pc EXCEPT ![t] = "failed"]
      BY <2>5 DEF NotStarted, Goto, counters
    <3>2. going[t] /\ going' = [going EXCEPT ![t] = FALSE]
      BY <2>3, <3>1 DEF TypeOK
    <3>3. /\ calls' = [calls EXCEPT ![t] = @ + 0] /\ repairs' = [repairs EXCEPT ![t] = @ + 0]
          /\ calls[t] + 0 <= MaxCalls
      BY <2>3, <3>1, CallAssumption DEF TypeOK
    <3>4. Ledger!Failed(t)
      <4>1. Ledger!Count(t, 0, 0)
        BY <3>2, <3>3 DEF Ledger!Count
      <4>. QED BY <3>2, <4>1 DEF Ledger!Failed
    <3>. QED BY <3>4 DEF Ledger!Next
  <2>6. CASE Accept(t) \/ Reject(t)
    <3>1. PICK n \in 0..Span(t) : Closed(t, n)
      BY <2>6, Closing
    <3>2. n \in 0..2 /\ calls[t] + n <= MaxCalls /\ going[t]
      <4>1. pc[t] = "proposed" /\ n <= Span(t) /\ Span(t) \in 1..2
        BY <3>1 DEF Closed, Span
      <4>2. calls[t] \in Nat /\ MaxCalls \in Nat /\ calls[t] + Span(t) <= MaxCalls
        BY <2>3, <4>1, CallAssumption DEF SpentOf, Busy, TypeOK
      <4>3. n \in 0..2 /\ calls[t] + n <= MaxCalls
        BY <4>1, <4>2
      <4>. QED BY <4>1, <4>3
    <3>. DEFINE r == IF n = 2 THEN 1 ELSE 0
    <3>3. r \in 0..1 /\ r < n + 1 /\ (n \in 1..2 => r = n - 1)
      BY <3>2
    <3>4. calls' = [calls EXCEPT ![t] = @ + n] /\ repairs' = [repairs EXCEPT ![t] = @ + r]
      <4>1. /\ calls' = [calls EXCEPT ![t] = @ + n]
            /\ repairs' = [repairs EXCEPT ![t] = IF n = 2 THEN @ + 1 ELSE @]
        BY <3>1 DEF Closed
      <4>2. repairs[t] \in Nat
        BY <2>3 DEF TypeOK
      <4>3. (IF n = 2 THEN repairs[t] + 1 ELSE repairs[t]) = repairs[t] + r
        BY <4>2
      <4>. QED BY <4>1, <4>3
    <3>. HIDE DEF r
    <3>5. Ledger!Count(t, n, r)
      BY <3>2, <3>4 DEF Ledger!Count
    <3>6. CASE pc' = [pc EXCEPT ![t] = "idle"] /\ n = Span(t)
      <4>1. going' = going
        BY <2>3, <3>1, <3>6 DEF Closed, TypeOK
      <4>2. n \in 1..2 /\ r = n - 1
        BY <3>3, <3>6 DEF Span
      <4>3. Ledger!Accepted(t)
        BY <3>5, <4>1, <4>2 DEF Ledger!Accepted
      <4>. QED BY <4>3 DEF Ledger!Next
    <3>7. CASE pc' = [pc EXCEPT ![t] = "failed"]
      <4>1. going' = [going EXCEPT ![t] = FALSE]
        BY <2>3, <3>7 DEF TypeOK
      <4>2. Ledger!Failed(t)
        BY <3>2, <3>3, <3>5, <4>1 DEF Ledger!Failed
      <4>. QED BY <4>2 DEF Ledger!Next
    <3>. QED BY <3>1, <3>6, <3>7 DEF Closed
  <2>. QED BY <2>2, <2>4, <2>5, <2>6 DEF NextOf
<1>. QED
  BY <1>1, <1>2, CallInvariant, PTL DEF Spec, ImplementsStages, Ledger!Spec
=============================================================================
