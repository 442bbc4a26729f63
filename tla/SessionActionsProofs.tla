------------------------ MODULE SessionActionsProofs ------------------------
(***************************************************************************)
(* Proofs about SessionActions: type correctness, and that a command calls *)
(* WTS at most once and that its outcome is true, for every set of hosts   *)
(* and commands, every life time and every disagreement of the clocks that *)
(* the ledger's retention covers.                                          *)
(***************************************************************************)
EXTENDS SessionActions, TLAPS

-----------------------------------------------------------------------------
(* Type correctness.                                                       *)

(* A handler that moves its request on leaves requests behind, each under  *)
(* its own host.                                                           *)
LEMMA AdvanceType ==
    ASSUME TypeOK, NEW r \in Request, NEW next \in Request, next.host = r.host,
           r.host \in Hosts, Advance(r, next)
    PROVE  /\ request' \in [Hosts -> Request]
           /\ \A h \in Hosts : request'[h].host = h
           /\ stray' \subseteq Request
<1>1. CASE UNCHANGED stray /\ request' = [request EXCEPT ![r.host] = next]
  <2>1. request' \in [Hosts -> Request] /\ stray' \subseteq Request
    BY <1>1 DEF TypeOK
  <2>2. ASSUME NEW h \in Hosts PROVE request'[h].host = h
    <3>1. request'[h] = IF h = r.host THEN next ELSE request[h]
      BY <1>1 DEF TypeOK
    <3> QED
      BY <3>1 DEF TypeOK
  <2> QED
    BY <2>1, <2>2
<1>2. CASE UNCHANGED request /\ stray' \subseteq stray \cup {next}
  BY <1>2 DEF TypeOK
<1> QED
  BY <1>1, <1>2 DEF Advance

(* What handlers work on are requests.                                     *)
LEMMA RunningType == TypeOK => Running \subseteq Request
  BY DEF TypeOK, Running

(* A bulk transition leaves states and instants behind.                    *)
LEMMA OutboxType ==
    ASSUME TypeOK, NEW ids, NEW s \in States, NEW box \in [Actions -> States]
    PROVE  /\ Close(ids, s, box) \in [Actions -> States]
           /\ Stamp(ids) \in [Actions -> Int]
  BY DEF TypeOK, Close, Stamp

(* The initial state is well typed.                                        *)
LEMMA InitType == Init => TypeOK
  <1> SUFFICES ASSUME Init PROVE TypeOK
    OBVIOUS
  <1>1. (CHOOSE h \in Hosts : TRUE) \in Hosts /\ (CHOOSE k \in Keys : TRUE) \in Keys
    BY ConstantsAssumption
  <1>2. cmd \in [Actions -> Command]
    BY <1>1 DEF Init, Command, NoLogon
  <1>3. request \in [Hosts -> Request] /\ \A h \in Hosts : request[h].host = h
    BY DEF Init, Request, NoRequest
  <1>4. ledger \in [Hosts -> [Actions -> Outcomes \cup {"none", "claimed"}]]
    BY DEF Init
  <1>5. job \in [Hosts -> Job]
    BY DEF Init, Job
  <1> QED
    BY <1>2, <1>3, <1>4, <1>5 DEF Init, TypeOK, States, Active, NoLogon

(* So does a cancellation.                                                 *)
LEMMA CancelType ==
    ASSUME TypeOK, CancelActive
    PROVE  outbox' \in [Actions -> States] /\ doneAt' \in [Actions -> Int]
  BY DEF TypeOK, CancelActive, Close, Stamp, States, Outcomes

(* The steps of the operator and of retention keep the types.              *)
LEMMA OperatorType == TypeOK /\ Operator => TypeOK'
  <1> SUFFICES ASSUME TypeOK, Operator PROVE TypeOK'
    OBVIOUS
  <1>1. ASSUME NEW a \in Actions, NEW h \in Hosts, NEW k \in Keys, Enqueue(a, h, k, seen[h])
        PROVE  TypeOK'
    BY <1>1 DEF Enqueue, Command, agentVars, TypeOK, States, Active
  <1>2. ASSUME NEW b \in BOOLEAN, SetPolicy(b)
        PROVE  TypeOK'
    BY <1>2 DEF SetPolicy, agentVars, TypeOK
  <1>3. CASE CancelForPolicy
    BY <1>3, CancelType DEF CancelForPolicy, agentVars, TypeOK
  <1>4. CASE PurgeForPrivacy
    BY <1>4, CancelType DEF PurgeForPrivacy, agentVars, TypeOK, NoLogon
  <1>5. CASE Expire
    BY <1>5, OutboxType DEF Expire, ExpireDue, agentVars, TypeOK, States, Outcomes
  <1>6. CASE Retain
    <2> PICK old : outbox' = Close(old, "absent", outbox)
      BY <1>6 DEF Retain
    <2>1. outbox' \in [Actions -> States]
      BY OutboxType DEF TypeOK, States
    <2> QED
      BY <1>6, <2>1 DEF Retain, agentVars, TypeOK
  <1> QED
    BY <1>1, <1>2, <1>3, <1>4, <1>5, <1>6 DEF Operator

(* An expiry, and what is closed on top of it.                             *)
LEMMA DueType ==
    ASSUME TypeOK, NEW ids, NEW s \in States
    PROVE  /\ Close(ids, s, Close(Due, "expired", outbox)) \in [Actions -> States]
           /\ Close(Due, "expired", outbox) \in [Actions -> States]
           /\ Stamp(Due) \in [Actions -> Int]
           /\ Stamp(Due \cup ids) \in [Actions -> Int]
  BY DEF TypeOK, Close, Stamp, States, Outcomes

(* What a completion leaves in the outbox: its outcome is a state of it.   *)
LEMMA VerdictType ==
    ASSUME TypeOK, NEW c \in Completion, NEW host,
           NEW closed, closed = IF Accepted(c, host) THEN {c.id} ELSE {}
    PROVE  /\ Close(closed, c.outcome, Close(Due, "expired", outbox)) \in [Actions -> States]
           /\ Stamp(Due \cup closed) \in [Actions -> Int]
  <1>1. CASE Accepted(c, host)
    <2>1. c.outcome \in States
      BY <1>1 DEF Accepted, Completion, States
    <2> QED
      BY <2>1, DueType
  <1>2. CASE ~Accepted(c, host)
    <2>1. Close({}, c.outcome, Close(Due, "expired", outbox)) = Close({}, "failed", Close(Due, "expired", outbox))
      BY DEF Close
    <2> QED
      BY <1>2, <2>1, DueType DEF States, Outcomes
  <1> QED
    BY <1>1, <1>2

(* The steps of the report handlers keep the types.                        *)
LEMMA HandlerType ==
    ASSUME TypeOK, NEW r \in Running, Handler(r) \/ (r \in stray /\ AbandonStray(r))
    PROVE  TypeOK'
  <1>r. r \in Request /\ r.host \in Hosts /\ r.todo \subseteq Completion
    BY RunningType DEF Request
  <1>a. ASSUME NEW next \in Request, next.host = r.host, Advance(r, next)
        PROVE  /\ request' \in [Hosts -> Request] /\ \A h \in Hosts : request'[h].host = h
               /\ stray' \subseteq Request
    BY <1>r, <1>a, AdvanceType
  <1>1. CASE BeginReport(r)
    <2>1. [r EXCEPT !.stage = "complete"] \in Request
      BY <1>r DEF Request
    <2>2. /\ request' \in [Hosts -> Request] /\ \A h \in Hosts : request'[h].host = h
          /\ stray' \subseteq Request
      BY <1>1, <1>a, <2>1 DEF BeginReport, Request
    <2>3. outbox' \in [Actions -> States] /\ doneAt' \in [Actions -> Int]
      BY <1>1, DueType DEF BeginReport, ExpireDue, TypeOK, States
    <2> QED
      BY <1>1, <2>2, <2>3 DEF BeginReport, agentVars, TypeOK
  <1>2. ASSUME NEW c \in r.todo, CompleteOne(r, c)
        PROVE  TypeOK'
    <2> DEFINE ok == Accepted(c, r.host)
               acked == IF ok \/ Replayed(c, r.host) THEN r.acked \cup {c.id} ELSE r.acked
               closed == IF ok THEN {c.id} ELSE {}
               next == [r EXCEPT !.todo = @ \ {c}, !.acked = acked]
    <2>1. next \in Request /\ next.host = r.host
      BY <1>r DEF Request, Completion
    <2>2. Advance(r, next)
      BY <1>2 DEF CompleteOne
    <2>3. /\ request' \in [Hosts -> Request] /\ \A h \in Hosts : request'[h].host = h
          /\ stray' \subseteq Request
      BY <1>a, <2>1, <2>2
    <2>4. outbox' \in [Actions -> States] /\ doneAt' \in [Actions -> Int]
      <3>1. CASE outbox[c.id] = "absent"
        BY <1>2, <3>1 DEF CompleteOne, TypeOK
      <3>2. CASE outbox[c.id] # "absent"
        <4>1. /\ outbox' = Close(closed, c.outcome, Close(Due, "expired", outbox))
              /\ doneAt' = Stamp(Due \cup closed)
          BY <1>2, <3>2 DEF CompleteOne
        <4>2. closed = IF Accepted(c, r.host) THEN {c.id} ELSE {}
          OBVIOUS
        <4> HIDE DEF closed
        <4> QED
          BY <1>r, <4>1, <4>2, VerdictType
      <3> QED
        BY <3>1, <3>2
    <2> QED
      BY <1>2, <2>3, <2>4 DEF CompleteOne, agentVars, TypeOK
  <1>3. CASE DeliverReport(r)
    <2>1. CASE ~enabled
      <3>1. [r EXCEPT !.stage = "done"] \in Request
        BY <1>r DEF Request
      <3>2. Advance(r, [r EXCEPT !.stage = "done"])
        BY <1>3, <2>1 DEF DeliverReport
      <3>3. /\ request' \in [Hosts -> Request] /\ \A h \in Hosts : request'[h].host = h
            /\ stray' \subseteq Request
        BY <1>a, <1>r, <3>1, <3>2 DEF Request
      <3>4. UNCHANGED <<enabled, seen, issued, cmd, ledger, agentVars, logon, effects, now,
                        outbox, doneAt, handed>>
        BY <1>3, <2>1 DEF DeliverReport
      <3> QED
        BY <3>3, <3>4 DEF agentVars, TypeOK
    <2>2. CASE enabled
      <3>0. PICK S \in SUBSET Deliverable(r.host) : \E bad \in SUBSET S : Deliver(r, S, bad)
        BY <1>3, <2>2 DEF DeliverReport
      <3> PICK bad \in SUBSET S : Deliver(r, S, bad)
        BY <3>0
      <3> DEFINE next == [r EXCEPT !.stage = IF bad = {} THEN "done" ELSE "reject",
                                   !.todo = [id : bad, outcome : {"failed"}],
                                   !.pending = S \ bad]
      <3>1. S \subseteq Actions
        BY DEF Deliverable
      <3>2. [id : bad, outcome : {"failed"}] \subseteq Completion
        BY <3>1 DEF Completion, Outcomes
      <3>3. next \in Request /\ next.host = r.host
        BY <1>r, <3>1, <3>2 DEF Request
      <3>4. /\ request' \in [Hosts -> Request] /\ \A h \in Hosts : request'[h].host = h
            /\ stray' \subseteq Request
        BY <1>a, <3>3 DEF Deliver
      <3>5. outbox' \in [Actions -> States] /\ doneAt' \in [Actions -> Int]
        BY DueType DEF Deliver, States, Active
      <3>6. handed' \subseteq Actions
        BY <3>1 DEF Deliver, TypeOK
      <3> QED
        BY <1>3, <3>4, <3>5, <3>6 DEF DeliverReport, agentVars, TypeOK
    <2> QED
      BY <2>1, <2>2
  <1>4. ASSUME NEW c \in r.todo, RejectOne(r, c)
        PROVE  TypeOK'
    <2> DEFINE next == [r EXCEPT !.todo = @ \ {c},
                                 !.stage = IF r.todo = {c} THEN "done" ELSE "reject"]
    <2>1. next \in Request /\ next.host = r.host
      BY <1>r DEF Request
    <2>2. Advance(r, next)
      BY <1>4 DEF RejectOne
    <2>3. /\ request' \in [Hosts -> Request] /\ \A h \in Hosts : request'[h].host = h
          /\ stray' \subseteq Request
      BY <1>a, <2>1, <2>2
    <2>4. outbox' \in [Actions -> States] /\ doneAt' \in [Actions -> Int]
      BY <1>4, <1>r, VerdictType DEF RejectOne
    <2> QED
      BY <1>4, <2>3, <2>4 DEF RejectOne, agentVars, TypeOK
  <1>5. CASE AbandonStray(r)
    BY <1>5 DEF AbandonStray, dashboardVars, agentVars, TypeOK
  <1> QED
    BY <1>1, <1>2, <1>3, <1>4, <1>5 DEF Handler

(* A queued completion has an outcome or is a duplicate.                   *)
LEMMA QueueType ==
    ASSUME TypeOK, NEW h \in Hosts, NEW a \in Actions, NEW o \in Outcomes \cup {"duplicate"},
           QueueCompletion(h, a, o)
    PROVE  completions' \in [Hosts -> SUBSET Completion]
  <1>1. [id |-> a, outcome |-> o] \in Completion
    BY DEF Completion
  <1> QED
    BY <1>1 DEF TypeOK, QueueCompletion

(* A decided job has an outcome.                                           *)
LEMMA DecideType ==
    ASSUME TypeOK, NEW h \in Hosts, job[h].id \in Actions, NEW o \in Outcomes, Decide(h, o)
    PROVE  job' \in [Hosts -> Job]
  BY DEF TypeOK, Decide, Job

(* The steps of the agent between a response and the next report.          *)
LEMMA ExecutionType ==
    ASSUME TypeOK, NEW h \in Hosts, Execution(h)
    PROVE  TypeOK'
  <1> USE DEF agentVars, dashboardVars
  <1>a. acks[h] \subseteq Actions /\ batch[h] \subseteq Actions /\ job[h] \in Job
    BY DEF TypeOK
  <1>1. ASSUME NEW a \in acks[h], Acknowledge(h, a)
        PROVE  TypeOK'
    BY <1>1, <1>a DEF Acknowledge, TypeOK
  <1>2. ASSUME NEW a \in acks[h], AcknowledgeFails(h, a)
        PROVE  TypeOK'
    BY <1>2 DEF AcknowledgeFails, TypeOK
  <1>3. ASSUME NEW a \in batch[h], Claim(h, a)
        PROVE  TypeOK'
    <2>1. PICK t \in Clock :
             job' = [job EXCEPT ![h] =
                       [id |-> a, step |-> IF t >= Expires(a) THEN "record" ELSE "lookup",
                        outcome |-> "expired"]]
      BY <1>3 DEF Claim
    <2>2. [id |-> a, step |-> IF t >= Expires(a) THEN "record" ELSE "lookup",
           outcome |-> "expired"] \in Job
      BY <1>a DEF Job, Outcomes
    <2>3. job' \in [Hosts -> Job]
      BY <2>1, <2>2 DEF TypeOK
    <2> QED
      BY <1>3, <1>a, <2>3 DEF Claim, TypeOK
  <1>4. ASSUME NEW a \in batch[h], ClaimRefused(h, a)
        PROVE  TypeOK'
    <2>1. PICK o \in {Recorded(h, a), "duplicate"} : QueueCompletion(h, a, o)
      BY <1>4 DEF ClaimRefused
    <2>2. o \in Outcomes \cup {"duplicate"}
      BY <1>4, <1>a DEF ClaimRefused, Recorded, TypeOK
    <2>3. completions' \in [Hosts -> SUBSET Completion]
      BY <1>a, <2>1, <2>2, QueueType
    <2> QED
      BY <1>4, <2>3 DEF ClaimRefused, TypeOK
  <1>5. ASSUME NEW a \in batch[h], ClaimFails(h, a)
        PROVE  TypeOK'
    BY <1>5 DEF ClaimFails, TypeOK
  <1>6. CASE DropBatch(h)
    BY <1>6 DEF DropBatch, TypeOK
  <1>7. CASE Lookup(h)
    <2>1. job[h].id \in Actions /\ job[h] \in [id : Actions, step : {"lookup", "call", "record"}, outcome : Outcomes]
      BY <1>7, <1>a DEF Lookup, Job, NoJob
    <2>2. CASE job' = [job EXCEPT ![h].step = "call"]
      <3>1. [job[h] EXCEPT !.step = "call"] \in Job
        BY <2>1 DEF Job
      <3>2. job' \in [Hosts -> Job]
        BY <2>2, <3>1 DEF TypeOK
      <3> QED
        BY <1>7, <3>2 DEF Lookup, TypeOK
    <2>3. CASE \E o \in Outcomes : Decide(h, o)
      <3>1. job' \in [Hosts -> Job]
        BY <2>1, <2>3, DecideType
      <3> QED
        BY <1>7, <3>1 DEF Lookup, TypeOK
    <2> QED
      BY <1>7, <2>2, <2>3 DEF Lookup, Outcomes
  <1>8. CASE Call(h)
    <2>1. job[h].id \in Actions /\ job[h] \in [id : Actions, step : {"lookup", "call", "record"}, outcome : Outcomes]
      BY <1>8, <1>a DEF Call, Job, NoJob
    <2>2. job' \in [Hosts -> Job]
      BY <1>8, <2>1, DecideType DEF Call, Outcomes
    <2>3. effects' \in [Actions -> Nat]
      BY <1>8, <2>1 DEF Call, TypeOK
    <2> QED
      BY <1>8, <2>2, <2>3 DEF Call, TypeOK
  <1>9. CASE Record(h)
    <2>1. job[h].id \in Actions /\ job[h].outcome \in Outcomes
      BY <1>9, <1>a DEF Record, Job, NoJob
    <2>2. NoJob \in Job
      BY DEF Job
    <2>5. job' \in [Hosts -> Job]
      BY <1>9, <2>2 DEF Record, TypeOK
    <2>3. completions' \in [Hosts -> SUBSET Completion]
      BY <1>9, <2>1, QueueType DEF Record, TypeOK
    <2>4. ledger' \in [Hosts -> [Actions -> Outcomes \cup {"none", "claimed"}]]
      <3>1. [ledger[h] EXCEPT ![job[h].id] = job[h].outcome]
              \in [Actions -> Outcomes \cup {"none", "claimed"}]
        BY <2>1 DEF TypeOK
      <3> QED
        BY <1>9, <3>1 DEF Record, TypeOK
    <2> QED
      BY <1>9, <2>3, <2>4, <2>5 DEF Record, TypeOK
  <1> QED
    BY <1>1, <1>2, <1>3, <1>4, <1>5, <1>6, <1>7, <1>8, <1>9 DEF Execution

(* The agent's reports, what it receives of the response, and its restart. *)
LEMMA AgentType ==
    ASSUME TypeOK, NEW h \in Hosts,
           \/ SendReport(h) \/ ReportFails(h) \/ ReceiveResponse(h) \/ ReceiveAcks(h)
           \/ Restart(h)
    PROVE  TypeOK'
  <1> USE DEF agentVars, dashboardVars
  <1>r. request[h] \in Request /\ request[h].host = h
    BY DEF TypeOK
  <1>n. NoRequest(h) \in Request /\ NoRequest(h).host = h
    BY DEF NoRequest, Request
  <1>o. ASSUME Orphan(h)
        PROVE  /\ request' \in [Hosts -> Request] /\ \A g \in Hosts : request'[g].host = g
               /\ stray' \subseteq Request
    BY <1>o, <1>r, <1>n DEF Orphan, TypeOK
  <1>1. CASE SendReport(h)
    <2> DEFINE new == [host |-> h, stage |-> "new", todo |-> completions[h],
                       acked |-> {}, pending |-> {}]
    <2>1. new \in Request
      BY DEF Request, TypeOK
    <2>2. request' \in [Hosts -> Request] /\ \A g \in Hosts : request'[g].host = g
      BY <1>1, <2>1 DEF SendReport, TypeOK
    <2>3. PICK old : ledger' = [ledger EXCEPT ![h] =
                                  [a \in Actions |-> IF a \in old THEN "none" ELSE ledger[h][a]]]
      BY <1>1 DEF SendReport
    <2>4. ledger' \in [Hosts -> [Actions -> Outcomes \cup {"none", "claimed"}]]
      BY <2>3 DEF TypeOK
    <2> QED
      BY <1>1, <2>2, <2>4 DEF SendReport, TypeOK
  <1>2. CASE ReportFails(h)
    BY <1>2, <1>o DEF ReportFails, TypeOK
  <1>3. CASE ReceiveResponse(h)
    BY <1>3, <1>r, <1>n DEF ReceiveResponse, Request, TypeOK
  <1>4. CASE ReceiveAcks(h)
    <2>1. [request[h] EXCEPT !.acked = {}] \in Request
      BY <1>r DEF Request
    <2>2. request' \in [Hosts -> Request] /\ \A g \in Hosts : request'[g].host = g
      BY <1>4, <1>r, <2>1 DEF ReceiveAcks, TypeOK
    <2>3. acks' \in [Hosts -> SUBSET Actions]
      BY <1>4, <1>r DEF ReceiveAcks, Request, TypeOK
    <2> QED
      BY <1>4, <2>2, <2>3 DEF ReceiveAcks, TypeOK
  <1>5. CASE Restart(h)
    <2>1. NoJob \in Job
      BY DEF Job
    <2> QED
      BY <1>5, <1>o, <2>1 DEF Restart, TypeOK
  <1> QED
    BY <1>1, <1>2, <1>3, <1>4, <1>5

(* The clock, the users and the snapshots.                                 *)
LEMMA EnvironmentType ==
    ASSUME TypeOK,
           \/ Tick
           \/ \E h \in Hosts : IngestSnapshot(h) \/ PurgeSnapshot(h) \/ ReplaceSession(h)
    PROVE  TypeOK'
  BY DEF TypeOK, agentVars, dashboardVars, Tick, IngestSnapshot, PurgeSnapshot, ReplaceSession, NoLogon

(* Every step keeps the types.                                             *)
LEMMA StepType == TypeOK /\ [Next]_vars => TypeOK'
  <1> SUFFICES ASSUME TypeOK, [Next]_vars PROVE TypeOK'
    OBVIOUS
  <1>1. CASE UNCHANGED vars
    BY <1>1 DEF vars, dashboardVars, agentVars, TypeOK
  <1>2. CASE \E r \in stray : AbandonStray(r)
    BY <1>2, HandlerType DEF Running
  <1> QED
    BY <1>1, <1>2, OperatorType, HandlerType, ExecutionType, AgentType, EnvironmentType DEF Next

(* Every variable keeps its type: in particular no command takes the       *)
(* outcome "duplicate", which is no state of the outbox.                   *)
THEOREM TypeCorrect == Spec => []TypeOK
  BY InitType, StepType, PTL DEF Spec

-----------------------------------------------------------------------------
(* The inductive invariant.                                                *)

(* A command is closed for good: no delivery will take it again.           *)
Closed(a) == a \in issued /\ outbox[a] \notin Active

(* h still holds a, between a response and the end of Execute.             *)
Holds(h, a) == a \in request[h].pending \/ a \in batch[h] \/ job[h].id = a

(* Why a will not be executed on its host any more: its ledger row stands, *)
(* or the row was cleaned up so late that every clock is past its expiry,  *)
(* or the dashboard has closed it and nothing of it is on the way.         *)
Guarded(a) ==
    LET h == cmd[a].host
    IN  \/ ledger[h][a] # "none"
        \/ now >= Expires(a) + Skew
        \/ Closed(a) /\ ~Holds(h, a)

Known == \A a \in Actions : outbox[a] # "absent" => a \in issued

Owned ==
    \A h \in Hosts, a \in Actions : Holds(h, a) => a \in issued /\ cmd[a].host = h

(* An id is acknowledged only for a closed command.                        *)
AckedClosed ==
    /\ \A r \in Running : \A a \in r.acked : Closed(a)
    /\ \A h \in Hosts : \A a \in acks[h] : Closed(a)

(* The agent does one thing at a time.                                     *)
AtOnce(h) ==
    /\ request[h].stage \in {"none", "new", "complete"} => request[h].pending = {}
    /\ request[h].stage # "none" => batch[h] = {} /\ job[h].step = "none"
    /\ request[h].stage # "none" /\ h \notin LocalHosts => acks[h] = {}
    /\ request[h].acked \cap request[h].pending = {}
    /\ acks[h] # {} => request[h].pending = {} /\ job[h].step = "none"
    /\ acks[h] \cap batch[h] = {}
    /\ job[h].step = "none" => job[h].id = NoAction
    /\ job[h].id \notin batch[h]
OneAtATime == \A h \in Hosts : AtOnce(h)

JobClaimed ==
    \A h \in Hosts : job[h].step # "none" => ledger[h][job[h].id] = "claimed"

(* A command whose fate is decided: WTS was called, or it was found that   *)
(* its session had changed.                                                *)
Told(a, o) ==
    \/ outbox[a] = o
    \/ \E h \in Hosts : \/ ledger[h][a] = o
                        \/ job[h].id = a /\ job[h].step = "record" /\ job[h].outcome = o
                        \/ [id |-> a, outcome |-> o] \in completions[h]
    \/ \E r \in Running : [id |-> a, outcome |-> o] \in r.todo
Decided(a) == effects[a] > 0 \/ Told(a, "session_changed")

DecidedGuarded == \A a \in Actions : Decided(a) => a \in issued /\ Guarded(a)
JobFresh == \A h \in Hosts : job[h].step \in {"lookup", "call"} => ~Decided(job[h].id)

ToldTrue ==
    \A a \in Actions :
        /\ Told(a, "completed") => effects[a] = 1
        /\ Told(a, "session_changed") => effects[a] = 0

(* A machine works only on what it was handed; it may end up with a        *)
(* verdict of its own only on that.                                        *)
Handed ==
    \A a \in Actions :
        (\E h \in Hosts : Holds(h, a)) \/ effects[a] > 0 \/ Told(a, "session_changed") => a \in handed

IInv ==
    /\ TypeOK /\ Known /\ Owned /\ AckedClosed /\ OneAtATime /\ JobClaimed /\ Handed
    /\ DecidedGuarded /\ JobFresh /\ ToldTrue /\ EffectAtMostOnce

-----------------------------------------------------------------------------
(* Two facts that carry the second half of the invariant over a step.      *)

(* A guard stays up unless its ledger row goes too early or the id is      *)
(* taken up again.                                                         *)
LEMMA GuardKept ==
    ASSUME TypeOK, TypeOK', NEW a \in Actions, Guarded(a),
           cmd'[a] = cmd[a], now' >= now, Closed(a) => Closed(a)',
           LET h == cmd[a].host
           IN  /\ ledger[h][a] # "none" =>
                     \/ ledger'[h][a] # "none"
                     \/ now' >= Expires(a) + Skew
                     \/ Closed(a)' /\ ~Holds(h, a)'
               /\ Closed(a) /\ ~Holds(h, a) => ~Holds(h, a)'
    PROVE  Guarded(a)'
  <1>1. Expires(a)' = Expires(a)
    BY DEF Expires
  <1>2. Expires(a) \in Int /\ now \in Int /\ now' \in Int /\ Skew \in Int
    BY ConstantsAssumption DEF Expires, TypeOK, Command
  <1>3. CASE ledger[cmd[a].host][a] # "none"
    BY <1>1, <1>3 DEF Guarded
  <1>4. CASE now >= Expires(a) + Skew
    BY <1>1, <1>2, <1>4 DEF Guarded
  <1>5. CASE Closed(a) /\ ~Holds(cmd[a].host, a)
    BY <1>1, <1>5 DEF Guarded
  <1> QED
    BY <1>3, <1>4, <1>5 DEF Guarded

Verdicts == {"completed", "session_changed"}

(* A step that brings no new verdict keeps everything that was decided.    *)
LEMMA NoNewVerdict ==
    ASSUME IInv, TypeOK', UNCHANGED effects, issued \subseteq issued',
           \A a \in Actions, o \in Verdicts : Told(a, o)' => Told(a, o),
           \A a \in Actions : a \in issued /\ Guarded(a) => Guarded(a)',
           \A h \in Hosts : job'[h].step \in {"lookup", "call"} =>
               job'[h].id \in Actions /\ ~Decided(job'[h].id)
    PROVE  (DecidedGuarded /\ JobFresh /\ ToldTrue /\ EffectAtMostOnce)'
  <1>1. \A a \in Actions : Decided(a)' => Decided(a)
    BY DEF Decided, Verdicts
  <1>2. DecidedGuarded'
    BY <1>1 DEF IInv, DecidedGuarded
  <1>3. JobFresh'
    BY <1>1 DEF JobFresh
  <1>4. ToldTrue'
    BY DEF IInv, ToldTrue, Verdicts
  <1>5. EffectAtMostOnce'
    BY DEF IInv, EffectAtMostOnce
  <1> QED
    BY <1>2, <1>3, <1>4, <1>5

-----------------------------------------------------------------------------
(* Steps that leave requests, ledgers and agents alone.                    *)
LEMMA QuietStep ==
    ASSUME IInv, TypeOK', UNCHANGED <<handed, request, stray, ledger, agentVars, effects>>,
           now' >= now, issued \subseteq issued', Known',
           \A a \in issued : cmd'[a] = cmd[a],
           \A a \in Actions : Closed(a) => Closed(a)',
           \A a \in Actions : outbox'[a] \in Verdicts => outbox'[a] = outbox[a]
    PROVE  IInv'
  <1>1. Owned'
    BY DEF IInv, Owned, Holds, agentVars
  <1>2. AckedClosed'
    <2>1. \A r \in Running : r.acked \subseteq Actions
      BY RunningType DEF IInv, Request
    <2>2. \A h \in Hosts : acks[h] \subseteq Actions
      BY DEF IInv, TypeOK
    <2> QED
      BY <2>1, <2>2 DEF IInv, AckedClosed, Running, agentVars
  <1>3. OneAtATime'
    BY DEF IInv, OneAtATime, AtOnce, agentVars
  <1>4. JobClaimed'
    BY DEF IInv, JobClaimed, agentVars
  <1>5. \A a \in Actions, o \in Verdicts : Told(a, o)' => Told(a, o)
    BY DEF Told, Running, agentVars
  <1>6. ASSUME NEW a \in Actions, a \in issued, Guarded(a)
        PROVE  Guarded(a)'
    <2>1. \A h : Holds(h, a)' <=> Holds(h, a)
      BY DEF Holds, agentVars
    <2> QED
      BY <1>6, <2>1, GuardKept DEF IInv
  <1>7. ASSUME NEW h \in Hosts, job'[h].step \in {"lookup", "call"}
        PROVE  job'[h].id \in Actions /\ ~Decided(job'[h].id)
    BY <1>7 DEF IInv, JobFresh, TypeOK, Job, NoJob, agentVars
  <1>8. (DecidedGuarded /\ JobFresh /\ ToldTrue /\ EffectAtMostOnce)'
    BY <1>5, <1>6, <1>7, NoNewVerdict
  <1>9. Handed'
    <2>1. \A h, a : Holds(h, a)' <=> Holds(h, a)
      BY DEF Holds, agentVars
    <2> QED
      BY <1>5, <2>1 DEF IInv, Handed, Verdicts
  <1> QED
    BY <1>1, <1>2, <1>3, <1>4, <1>8, <1>9 DEF IInv

(* The outbox after a bulk transition: what was closed stays closed, and   *)
(* no row appears.                                                         *)
LEMMA CloseKeeps ==
    ASSUME TypeOK, Known, NEW ids, NEW s \in States \ Active, issued \subseteq issued',
           outbox' = Close(ids, s, outbox),
           \A a \in Actions : a \in ids => outbox[a] # "absent"
    PROVE  /\ Known'
           /\ \A a \in Actions : Closed(a) => Closed(a)'
  BY DEF TypeOK, Known, Close, Closed, Active

(* The operator, the policy and the retention.  No verdict comes of them.  *)
LEMMA OperatorInv == IInv /\ Operator => IInv'
  <1> SUFFICES ASSUME IInv, Operator PROVE IInv'
    OBVIOUS
  <1>t. TypeOK /\ TypeOK' /\ Known
    BY OperatorType DEF IInv
  <1>n. now \in Int
    BY <1>t DEF TypeOK
  <1>1. ASSUME NEW a \in Actions, NEW h \in Hosts, NEW k \in Keys, Enqueue(a, h, k, seen[h])
        PROVE  IInv'
    <2>1. /\ Known' /\ issued \subseteq issued'
          /\ \A b \in issued : cmd'[b] = cmd[b]
          /\ \A b \in Actions : Closed(b) => Closed(b)'
          /\ \A b \in Actions : outbox'[b] \in Verdicts => outbox'[b] = outbox[b]
      BY <1>1, <1>t DEF Enqueue, Known, Closed, Verdicts, TypeOK
    <2>2. UNCHANGED <<handed, request, stray, ledger, agentVars, effects, now>>
      BY <1>1 DEF Enqueue
    <2> QED
      BY <1>t, <1>n, <2>1, <2>2, QuietStep
  <1>2. ASSUME NEW b \in BOOLEAN, SetPolicy(b)
        PROVE  IInv'
    <2>1. UNCHANGED <<issued, cmd, outbox, handed, request, stray, ledger, agentVars, effects, now>>
      BY <1>2 DEF SetPolicy
    <2>2. Known' /\ \A a \in Actions : Closed(a) => Closed(a)'
      BY <2>1, <1>t DEF Known, Closed
    <2> QED
      BY <1>t, <1>n, <2>1, <2>2, QuietStep
  <1>b. ASSUME NEW ids, NEW s \in {"expired", "absent"}, outbox' = Close(ids, s, outbox),
               \A a \in Actions : a \in ids => outbox[a] # "absent",
               UNCHANGED <<issued, cmd, handed, request, stray, ledger, agentVars, effects, now>>
        PROVE  IInv'
    <2>1. s \in States \ Active
      BY DEF States, Active, Outcomes
    <2>2. Known' /\ \A a \in Actions : Closed(a) => Closed(a)'
      BY <1>b, <1>t, <2>1, CloseKeeps
    <2>3. \A a \in Actions : outbox'[a] \in Verdicts => outbox'[a] = outbox[a]
      BY <1>b DEF Close, Verdicts
    <2> QED
      BY <1>b, <1>t, <1>n, <2>2, <2>3, QuietStep
  <1>3. CASE CancelForPolicy \/ PurgeForPrivacy
    <2>1. outbox' = Close({a \in Actions : outbox[a] \in Active}, "expired", outbox)
      BY <1>3 DEF CancelForPolicy, PurgeForPrivacy, CancelActive
    <2>2. UNCHANGED <<issued, cmd, handed, request, stray, ledger, agentVars, effects, now>>
      BY <1>3 DEF CancelForPolicy, PurgeForPrivacy
    <2> QED
      BY <1>b, <2>1, <2>2 DEF Active
  <1>5. CASE Expire
    <2>1. outbox' = Close(Due, "expired", outbox)
      BY <1>5 DEF Expire, ExpireDue
    <2>2. UNCHANGED <<issued, cmd, handed, request, stray, ledger, agentVars, effects, now>>
      BY <1>5 DEF Expire
    <2> QED
      BY <1>b, <2>1, <2>2 DEF Due, Active
  <1>6. CASE Retain
    <2>1. PICK old \in SUBSET Retainable : outbox' = Close(old, "absent", outbox)
      BY <1>6 DEF Retain
    <2>2. UNCHANGED <<issued, cmd, handed, request, stray, ledger, agentVars, effects, now>>
      BY <1>6 DEF Retain
    <2> QED
      BY <1>b, <2>1, <2>2 DEF Retainable, Outcomes
  <1> QED
    BY <1>1, <1>2, <1>3, <1>5, <1>6 DEF Operator

(* The clock, the users and the snapshots.                                 *)
LEMMA EnvironmentInv ==
    ASSUME IInv, TypeOK',
           \/ Tick \/ UNCHANGED vars
           \/ \E h \in Hosts : IngestSnapshot(h) \/ PurgeSnapshot(h) \/ ReplaceSession(h)
    PROVE  IInv'
  <1>1. UNCHANGED <<issued, cmd, outbox, handed, request, stray, ledger, agentVars, effects>>
    BY DEF Tick, vars, dashboardVars, IngestSnapshot, PurgeSnapshot, ReplaceSession
  <1>2. now' >= now
    BY DEF IInv, TypeOK, Tick, vars, IngestSnapshot, PurgeSnapshot, ReplaceSession
  <1>3. Known' /\ \A a \in Actions : Closed(a) => Closed(a)'
    BY <1>1 DEF IInv, Known, Closed
  <1> QED
    BY <1>1, <1>2, <1>3, QuietStep

-----------------------------------------------------------------------------
(* Steps of a report handler.                                              *)
LEMMA HandlerStep ==
    ASSUME IInv, TypeOK', NEW r \in Running, NEW next \in Request, Advance(r, next),
           next.host = r.host, r.stage # "none", next.stage # "none",
           UNCHANGED <<issued, cmd, ledger, agentVars, effects, now>>, handed \subseteq handed', Known',
           \A a \in Actions : Closed(a) => Closed(a)',
           \A a \in Actions, o \in Verdicts : outbox'[a] = o => Told(a, o),
           \A c \in next.todo : c.outcome \in Verdicts => c \in r.todo,
           \A a \in next.acked : Closed(a)',
           r = request[r.host] =>
              /\ next.acked \cap next.pending = {}
              /\ next.stage \in {"new", "complete"} => next.pending = {}
              /\ \A a \in next.pending :
                    \/ a \in r.pending
                    \/ a \in issued /\ cmd[a].host = r.host /\ ~Closed(a) /\ a \in handed'
              /\ next.pending # {} /\ r.pending = {} /\ r.host \in LocalHosts => acks[r.host] = {}
    PROVE  IInv'
  <1>t. TypeOK /\ r \in Request /\ r.host \in Hosts
    BY RunningType DEF IInv, Request
  <1>h. \A h \in Hosts : \/ request'[h] = request[h]
                         \/ h = r.host /\ request[h] = r /\ request'[h] = next
    <2>1. CASE r = request[r.host] /\ request' = [request EXCEPT ![r.host] = next]
      BY <1>t, <2>1 DEF TypeOK
    <2>2. CASE request' = request
      BY <2>2
    <2> QED
      BY <2>1, <2>2 DEF Advance
  <1>s. \A q \in stray' : q \in stray \/ q = next
    BY DEF Advance
  <1>a. \A q \in Running' : (q \in Running \/ q = next)
    BY <1>h, <1>s DEF Running
  <1>0. UNCHANGED <<completions, acks, batch, job>>
    BY DEF agentVars
  <1>1. Owned'
    BY <1>0, <1>h DEF IInv, Owned, Holds
  <1>2. AckedClosed'
    <2>1. \A q \in Running : q.acked \subseteq Actions
      BY <1>t, RunningType DEF Request
    <2>2. \A h \in Hosts : acks[h] \subseteq Actions
      BY <1>t DEF TypeOK
    <2>3. \A q \in Running' : \A a \in q.acked : Closed(a)'
      BY <1>a, <2>1 DEF IInv, AckedClosed
    <2>4. \A h \in Hosts : \A a \in acks'[h] : Closed(a)'
      BY <1>0, <2>2 DEF IInv, AckedClosed
    <2> QED
      BY <2>3, <2>4 DEF AckedClosed
  <1>3. OneAtATime'
    <2> SUFFICES ASSUME NEW h \in Hosts PROVE AtOnce(h)'
      BY DEF OneAtATime
    <2>1. CASE request'[h] = request[h]
      BY <1>0, <2>1 DEF IInv, OneAtATime, AtOnce
    <2>2. CASE h = r.host /\ request[h] = r /\ request'[h] = next
      BY <1>0, <2>2 DEF IInv, OneAtATime, AtOnce
    <2> QED
      BY <1>h, <2>1, <2>2
  <1>4. JobClaimed'
    BY <1>0 DEF IInv, JobClaimed
  <1>5. \A a \in Actions, o \in Verdicts : Told(a, o)' => Told(a, o)
    BY <1>0, <1>a DEF Told
  <1>6. ASSUME NEW a \in Actions, a \in issued, Guarded(a)
        PROVE  Guarded(a)'
    <2>1. cmd[a].host \in Hosts
      BY <1>t DEF TypeOK, Command
    <2>2. Closed(a) /\ ~Holds(cmd[a].host, a) => ~Holds(cmd[a].host, a)'
      BY <1>0, <1>h, <2>1 DEF Holds
    <2>3. now' >= now
      BY <1>t DEF TypeOK
    <2> QED
      BY <1>6, <1>t, <2>2, <2>3, GuardKept
  <1>7. ASSUME NEW h \in Hosts, job'[h].step \in {"lookup", "call"}
        PROVE  job'[h].id \in Actions /\ ~Decided(job'[h].id)
    BY <1>0, <1>7, <1>t DEF IInv, JobFresh, TypeOK, Job, NoJob
  <1>8. (DecidedGuarded /\ JobFresh /\ ToldTrue /\ EffectAtMostOnce)'
    BY <1>5, <1>6, <1>7, NoNewVerdict
  <1>9. Handed'
    <2>1. \A h \in Hosts, a \in Actions : Holds(h, a)' => Holds(h, a) \/ a \in handed'
      BY <1>0, <1>h DEF Holds
    <2> QED
      BY <1>5, <2>1 DEF IInv, Handed, Verdicts
  <1> QED
    BY <1>1, <1>2, <1>3, <1>4, <1>8, <1>9 DEF IInv

(* A handler that ends early.                                              *)
LEMMA AbandonInv ==
    ASSUME IInv, TypeOK', NEW r \in stray, AbandonStray(r)
    PROVE  IInv'
  <1>t. TypeOK
    BY DEF IInv
  <1>0. UNCHANGED <<issued, cmd, outbox, handed, request, ledger, completions, acks, batch, job, effects, now>>
    BY DEF AbandonStray, dashboardVars, agentVars
  <1>a. Running' \subseteq Running
    BY <1>0 DEF AbandonStray, Running
  <1>1. Known' /\ JobClaimed'
    BY <1>0 DEF IInv, Known, JobClaimed
  <1>3. Owned'
    BY <1>0 DEF IInv, Owned, Holds
  <1>4. OneAtATime'
    BY <1>0 DEF IInv, OneAtATime, AtOnce
  <1>c. \A a : Closed(a)' <=> Closed(a)
    BY <1>0 DEF Closed
  <1>2. AckedClosed'
    BY <1>0, <1>a, <1>c DEF IInv, AckedClosed
  <1>5. \A a \in Actions, o \in Verdicts : Told(a, o)' => Told(a, o)
    BY <1>0, <1>a DEF Told
  <1>6. \A a \in Actions : a \in issued /\ Guarded(a) => Guarded(a)'
    BY <1>0 DEF Guarded, Closed, Holds, Expires
  <1>7. \A h \in Hosts : job'[h].step \in {"lookup", "call"} =>
           job'[h].id \in Actions /\ ~Decided(job'[h].id)
    BY <1>0, <1>t DEF IInv, JobFresh, TypeOK, Job, NoJob
  <1>8. (DecidedGuarded /\ JobFresh /\ ToldTrue /\ EffectAtMostOnce)'
    BY <1>0, <1>5, <1>6, <1>7, NoNewVerdict
  <1>9. Handed'
    <2>1. \A h, a : Holds(h, a)' <=> Holds(h, a)
      BY <1>0 DEF Holds
    <2> QED
      BY <1>0, <1>5, <2>1 DEF IInv, Handed, Verdicts
  <1> QED
    BY <1>1, <1>2, <1>3, <1>4, <1>8, <1>9 DEF IInv

(* The outbox after a completion: an accepted verdict is one the handler   *)
(* was told, and nothing that was closed opens again.                      *)
LEMMA VerdictKeeps ==
    ASSUME TypeOK, Known, NEW r \in Running, NEW c \in r.todo, outbox[c.id] # "absent",
           NEW closed, closed = IF Accepted(c, r.host) THEN {c.id} ELSE {},
           outbox' = Close(closed, c.outcome, Close(Due, "expired", outbox)), UNCHANGED issued
    PROVE  /\ Known'
           /\ \A a \in Actions : Closed(a) => Closed(a)'
           /\ \A a \in Actions, o \in Verdicts : outbox'[a] = o => Told(a, o)
           /\ Accepted(c, r.host) \/ Replayed(c, r.host) => Closed(c.id)'
  <1>c. c \in Completion /\ c.id \in Actions /\ c = [id |-> c.id, outcome |-> c.outcome]
    BY RunningType DEF Request, Completion
  <1>o. outbox \in [Actions -> States]
    BY DEF TypeOK
  <1>d. Accepted(c, r.host) => c.outcome \in Outcomes /\ outbox[c.id] = "delivered"
    BY <1>c DEF Accepted, Completion
  <1>1. \A a \in Actions : outbox'[a] = IF a \in closed THEN c.outcome
                                        ELSE IF a \in Due THEN "expired" ELSE outbox[a]
    BY DEF Close
  <1>2. Known'
    BY <1>1, <1>d, <1>c DEF Known, Due, Active
  <1>3. \A a \in Actions : Closed(a) => Closed(a)'
    BY <1>1, <1>d DEF Closed, Active, Outcomes
  <1>4. \A a \in Actions, o \in Verdicts : outbox'[a] = o => Told(a, o)
    <2> SUFFICES ASSUME NEW a \in Actions, NEW o \in Verdicts, outbox'[a] = o
                 PROVE  Told(a, o)
      OBVIOUS
    <2>1. CASE a \in closed
      <3>1. a = c.id /\ o = c.outcome
        BY <1>1, <2>1
      <3>2. [id |-> a, outcome |-> o] \in r.todo
        BY <1>c, <3>1
      <3> QED
        BY <3>2 DEF Told
    <2>2. CASE a \notin closed
      <3>1. outbox[a] = o
        BY <1>1, <2>2 DEF Verdicts
      <3> QED
        BY <3>1 DEF Told
    <2> QED
      BY <2>1, <2>2
  <1>5. Accepted(c, r.host) \/ Replayed(c, r.host) => Closed(c.id)'
    <2>1. c.id \in issued
      BY <1>c DEF Known
    <2>2. CASE Accepted(c, r.host)
      BY <1>1, <1>c, <1>d, <2>1, <2>2 DEF Closed, Active, Outcomes
    <2>3. CASE ~Accepted(c, r.host) /\ Replayed(c, r.host)
      BY <1>1, <1>c, <2>1, <2>3 DEF Replayed, Closed, Active, Outcomes
    <2> QED
      BY <2>2, <2>3
  <1> QED
    BY <1>2, <1>3, <1>4, <1>5

(* Each step of a handler: completions, delivery and rejection.            *)
LEMMA HandlerInv ==
    ASSUME IInv, TypeOK', NEW r \in Running, Handler(r)
    PROVE  IInv'
  <1>t. TypeOK /\ Known /\ r \in Request /\ r.host \in Hosts
    BY RunningType DEF IInv, Request
  <1>k. \A a \in r.acked : Closed(a)
    BY DEF IInv, AckedClosed
  <1>q. r = request[r.host] => /\ r.acked \cap r.pending = {}
                               /\ r.stage \in {"none", "new", "complete"} => r.pending = {}
    BY <1>t DEF IInv, OneAtATime, AtOnce
  <1>1. CASE BeginReport(r)
    <2> DEFINE next == [r EXCEPT !.stage = "complete"]
    <2>1. /\ next \in Request /\ next.host = r.host /\ next.stage = "complete"
          /\ next.todo = r.todo /\ next.acked = r.acked /\ next.pending = r.pending
      BY <1>t DEF Request
    <2>2. /\ Advance(r, next) /\ r.stage = "new"
          /\ UNCHANGED <<issued, cmd, handed, ledger, agentVars, effects, now>>
      BY <1>1 DEF BeginReport
    <2>3. outbox' = outbox \/ outbox' = Close(Due, "expired", outbox)
      BY <1>1 DEF BeginReport, ExpireDue
    <2>4. Known' /\ \A a \in Actions : Closed(a) => Closed(a)'
      <3>1. "expired" \in States \ Active
        BY DEF States, Active, Outcomes
      <3>2. \A a \in Actions : a \in Due => outbox[a] # "absent"
        BY DEF Due, Active
      <3>3. CASE outbox' = Close(Due, "expired", outbox)
        BY <1>t, <2>2, <3>1, <3>2, <3>3, CloseKeeps
      <3>4. CASE outbox' = outbox
        BY <1>t, <2>2, <3>4 DEF Known, Closed
      <3> QED
        BY <2>3, <3>3, <3>4
    <2>5. \A a \in Actions, o \in Verdicts : outbox'[a] = o => Told(a, o)
      BY <2>3 DEF Told, Close, Verdicts
    <2>6. \A a \in next.acked : Closed(a)'
      BY <1>k, <1>t, <2>1, <2>4 DEF Request
    <2> HIDE DEF next
    <2> QED
      BY <1>q, <2>1, <2>2, <2>4, <2>5, <2>6, HandlerStep
  <1>2. ASSUME NEW c \in r.todo, CompleteOne(r, c)
        PROVE  IInv'
    <2> DEFINE acked == IF Accepted(c, r.host) \/ Replayed(c, r.host) THEN r.acked \cup {c.id} ELSE r.acked
               next == [r EXCEPT !.todo = @ \ {c}, !.acked = acked]
    <2>c. c.id \in Actions
      BY <1>t DEF Request, Completion
    <2>1. /\ next \in Request /\ next.host = r.host /\ next.stage = r.stage
          /\ next.todo = r.todo \ {c} /\ next.acked = acked /\ next.pending = r.pending
      BY <1>t, <2>c DEF Request
    <2>2. /\ Advance(r, next) /\ r.stage = "complete"
          /\ UNCHANGED <<issued, cmd, handed, ledger, agentVars, effects, now>>
      BY <1>2 DEF CompleteOne
    <2>3. /\ Known' /\ \A a \in Actions : Closed(a) => Closed(a)'
          /\ \A a \in Actions, o \in Verdicts : outbox'[a] = o => Told(a, o)
          /\ Accepted(c, r.host) \/ Replayed(c, r.host) => Closed(c.id)'
      <3>1. CASE outbox[c.id] = "absent"
        <4>1. UNCHANGED <<outbox, issued>>
          BY <1>2, <3>1 DEF CompleteOne
        <4>2. ~Accepted(c, r.host) /\ ~Replayed(c, r.host)
          BY <3>1 DEF Accepted, Replayed, Due, Active, Outcomes
        <4> QED
          BY <1>t, <4>1, <4>2 DEF Known, Closed, Told
      <3>2. CASE outbox[c.id] # "absent"
        BY <1>2, <1>t, <3>2, VerdictKeeps DEF CompleteOne
      <3> QED
        BY <3>1, <3>2
    <2>4. \A a \in next.acked : Closed(a)'
      BY <1>k, <1>t, <2>1, <2>3 DEF Request
    <2>5. r = request[r.host] => next.pending = {}
      BY <1>q, <2>1, <2>2
    <2> HIDE DEF next
    <2> QED
      BY <2>1, <2>2, <2>3, <2>4, <2>5, HandlerStep
  <1>3. ASSUME NEW c \in r.todo, RejectOne(r, c)
        PROVE  IInv'
    <2> DEFINE next == [r EXCEPT !.todo = @ \ {c},
                                 !.stage = IF r.todo = {c} THEN "done" ELSE "reject"]
    <2>1. /\ next \in Request /\ next.host = r.host /\ next.stage \in {"done", "reject"}
          /\ next.todo = r.todo \ {c} /\ next.acked = r.acked /\ next.pending = r.pending
      BY <1>t DEF Request
    <2>2. /\ Advance(r, next) /\ r.stage = "reject"
          /\ UNCHANGED <<issued, cmd, handed, ledger, agentVars, effects, now>>
      BY <1>3 DEF RejectOne
    <2>3. /\ Known' /\ \A a \in Actions : Closed(a) => Closed(a)'
          /\ \A a \in Actions, o \in Verdicts : outbox'[a] = o => Told(a, o)
      BY <1>3, <1>t, VerdictKeeps DEF RejectOne
    <2>4. \A a \in next.acked : Closed(a)'
      BY <1>k, <1>t, <2>1, <2>3 DEF Request
    <2> HIDE DEF next
    <2> QED
      BY <1>q, <2>1, <2>2, <2>3, <2>4, HandlerStep
  <1>4. CASE DeliverReport(r)
    <2>1. /\ r.stage = "complete" /\ r.todo = {}
          /\ r.host \in LocalHosts => acks[r.host] = {}
          /\ UNCHANGED <<issued, cmd, ledger, agentVars, effects, now>>
          /\ handed \subseteq handed'
      BY <1>4 DEF DeliverReport, Deliver
    <2>2. CASE /\ Advance(r, [r EXCEPT !.stage = "done"])
               /\ UNCHANGED outbox
      <3> DEFINE next == [r EXCEPT !.stage = "done"]
      <3>1. /\ next \in Request /\ next.host = r.host /\ next.stage = "done"
            /\ next.todo = r.todo /\ next.acked = r.acked /\ next.pending = r.pending
        BY <1>t DEF Request
      <3>2. Known' /\ \A a \in Actions : Closed(a) => Closed(a)'
        BY <1>t, <2>1, <2>2 DEF Known, Closed
      <3>3. \A a \in Actions, o \in Verdicts : outbox'[a] = o => Told(a, o)
        BY <2>2 DEF Told
      <3>4. \A a \in next.acked : Closed(a)'
        BY <1>k, <1>t, <3>1, <3>2 DEF Request
      <3>5. Advance(r, next)
        BY <2>2
      <3> HIDE DEF next
      <3> QED
        BY <1>q, <2>1, <3>1, <3>2, <3>3, <3>4, <3>5, HandlerStep
    <2>3. ASSUME NEW S \in SUBSET Deliverable(r.host), NEW bad \in SUBSET S, Deliver(r, S, bad)
          PROVE  IInv'
      <3> DEFINE next == [r EXCEPT !.stage = IF bad = {} THEN "done" ELSE "reject",
                                   !.todo = [id : bad, outcome : {"failed"}],
                                   !.pending = S \ bad]
      <3>s. S \subseteq Actions /\ \A a \in S : /\ outbox[a] \in Active /\ a \notin Due
                                               /\ cmd[a].host = r.host
        BY DEF Deliverable
      <3>1. /\ next \in Request /\ next.host = r.host /\ next.stage \in {"done", "reject"}
            /\ next.todo = [id : bad, outcome : {"failed"}] /\ next.acked = r.acked
            /\ next.pending = S \ bad
        <4>1. [id : bad, outcome : {"failed"}] \subseteq Completion
          BY <3>s DEF Completion, Outcomes
        <4> QED
          BY <1>t, <3>s, <4>1 DEF Request
      <3>2. \A a \in Actions : outbox'[a] = IF a \in S THEN "delivered"
                                            ELSE IF a \in Due THEN "expired" ELSE outbox[a]
        BY <2>3 DEF Deliver, Close
      <3>3. Known' /\ \A a \in Actions : Closed(a) => Closed(a)'
        BY <1>t, <2>1, <3>2, <3>s DEF Known, Closed, Due, Active
      <3>4. \A a \in Actions, o \in Verdicts : outbox'[a] = o => Told(a, o)
        BY <3>2 DEF Told, Verdicts
      <3>5. \A a \in next.acked : Closed(a)'
        BY <1>k, <1>t, <3>1, <3>3 DEF Request
      <3>6. \A c \in next.todo : c.outcome \in Verdicts => c \in r.todo
        BY <3>1 DEF Verdicts
      <3>7. \A a \in next.pending : a \in issued /\ cmd[a].host = r.host /\ ~Closed(a) /\ a \in handed'
        BY <1>t, <2>3, <3>1, <3>s DEF Known, Closed, Active, Deliver
      <3>8. next.acked \cap next.pending = {}
        BY <1>k, <3>1, <3>7
      <3>9. Advance(r, next)
        BY <2>3 DEF Deliver
      <3> HIDE DEF next
      <3> QED
        BY <2>1, <3>1, <3>3, <3>4, <3>5, <3>6, <3>7, <3>8, <3>9, HandlerStep
    <2> QED
      BY <1>4, <2>2, <2>3 DEF DeliverReport
  <1> QED
    BY <1>1, <1>2, <1>3, <1>4 DEF Handler

-----------------------------------------------------------------------------
(* Steps of an agent.                                                      *)

(* The agents of the other hosts do not move.                              *)
OthersStay(h) ==
    \A g \in Hosts \ {h} :
        /\ request'[g] = request[g] /\ ledger'[g] = ledger[g] /\ job'[g] = job[g]
        /\ completions'[g] = completions[g] /\ acks'[g] = acks[g] /\ batch'[g] = batch[g]

(* A ledger row of h goes only when its guard is no longer needed.         *)
RowsKept(h) ==
    \A a \in Actions :
        (a \in issued /\ cmd[a].host = h /\ ledger[h][a] # "none") =>
            \/ ledger'[h][a] # "none"
            \/ now >= Expires(a) + Skew
            \/ Closed(a) /\ ~Holds(h, a)'

(* What h is told or has told, apart from the outbox and the strays.       *)
Says(h, a, o) ==
    \/ ledger[h][a] = o
    \/ job[h].id = a /\ job[h].step = "record" /\ job[h].outcome = o
    \/ [id |-> a, outcome |-> o] \in completions[h]
    \/ [id |-> a, outcome |-> o] \in request[h].todo

(* The part of the invariant that is not about verdicts.                   *)
LEMMA AgentFrame ==
    ASSUME IInv, TypeOK', NEW h \in Hosts, OthersStay(h), RowsKept(h), AtOnce(h)',
           UNCHANGED <<issued, cmd, outbox, handed, now>>,
           stray' \subseteq stray \cup {request[h]},
           \A a \in request'[h].acked \cup acks'[h] : Closed(a),
           \A a \in Actions : Holds(h, a)' => Holds(h, a),
           job'[h].step # "none" => ledger'[h][job'[h].id] = "claimed"
    PROVE  /\ (Known /\ Owned /\ AckedClosed /\ OneAtATime /\ JobClaimed)'
           /\ \A a \in Actions : a \in issued /\ Guarded(a) => Guarded(a)'
           /\ \A a \in Actions, o \in Verdicts : Told(a, o)' => Told(a, o) \/ Says(h, a, o)'
  <1>t. TypeOK /\ now' >= now
    BY DEF IInv, TypeOK
  <1>c. \A a : Closed(a)' <=> Closed(a)
    BY DEF Closed
  <1>a. \A q \in Running' : (q \in Running \/ q = request'[h])
    BY DEF Running, OthersStay
  <1>1. Known'
    BY DEF IInv, Known
  <1>2. Owned'
    <2> SUFFICES ASSUME NEW g \in Hosts, NEW a \in Actions, Holds(g, a)'
                 PROVE  a \in issued /\ cmd[a].host = g
      BY DEF Owned
    <2>1. Holds(g, a)
      BY DEF OthersStay, Holds
    <2> QED
      BY <2>1 DEF IInv, Owned
  <1>3. AckedClosed'
    <2>1. \A q \in Running' : \A a \in q.acked : Closed(a)
      BY <1>a DEF IInv, AckedClosed
    <2>2. \A g \in Hosts : \A a \in acks'[g] : Closed(a)
      BY DEF IInv, AckedClosed, OthersStay
    <2> QED
      BY <1>c, <2>1, <2>2 DEF AckedClosed
  <1>4. OneAtATime'
    BY DEF IInv, OneAtATime, AtOnce, OthersStay
  <1>5. JobClaimed'
    BY DEF IInv, JobClaimed, OthersStay
  <1>6. ASSUME NEW a \in Actions, a \in issued, Guarded(a)
        PROVE  Guarded(a)'
    <2>1. Expires(a)' = Expires(a)
      BY DEF Expires
    <2>2. cmd[a].host \in Hosts
      BY <1>t DEF TypeOK, Command
    <2>3. CASE cmd[a].host = h
      BY <1>6, <1>t, <1>c, <2>3, GuardKept DEF RowsKept
    <2>4. CASE cmd[a].host # h
      <3>1. Holds(cmd[a].host, a)' <=> Holds(cmd[a].host, a)
        BY <2>2, <2>4 DEF Holds, OthersStay
      <3> QED
        BY <1>6, <1>t, <1>c, <2>2, <2>4, <3>1, GuardKept DEF OthersStay
    <2> QED
      BY <2>3, <2>4
  <1>7. ASSUME NEW a \in Actions, NEW o \in Verdicts, Told(a, o)', ~Says(h, a, o)'
        PROVE  Told(a, o)
    <2>1. CASE outbox'[a] = o
      BY <2>1 DEF Told
    <2>2. CASE \E r \in Running' : [id |-> a, outcome |-> o] \in r.todo
      BY <1>a, <1>7, <2>2 DEF Told, Says
    <2>3. CASE \E g \in Hosts : Says(g, a, o)' /\ g # h
      BY <2>3 DEF Told, Says, OthersStay, Running
    <2> QED
      BY <1>7, <2>1, <2>2, <2>3 DEF Told, Says
  <1> QED
    BY <1>1, <1>2, <1>3, <1>4, <1>5, <1>6, <1>7

(* A step of an agent that says nothing new.                               *)
LEMMA AgentStep ==
    ASSUME IInv, TypeOK', NEW h \in Hosts, OthersStay(h), RowsKept(h), AtOnce(h)',
           UNCHANGED <<issued, cmd, outbox, handed, effects, now>>,
           stray' \subseteq stray \cup {request[h]},
           \A a \in request'[h].acked \cup acks'[h] : Closed(a),
           \A a \in Actions : Holds(h, a)' => Holds(h, a),
           job'[h].step # "none" => ledger'[h][job'[h].id] = "claimed",
           job'[h].step \in {"lookup", "call"} => ~Decided(job'[h].id),
           \A a \in Actions, o \in Verdicts : Says(h, a, o)' => Told(a, o)
    PROVE  IInv'
  <1>1. /\ (Known /\ Owned /\ AckedClosed /\ OneAtATime /\ JobClaimed)'
        /\ \A a \in Actions : a \in issued /\ Guarded(a) => Guarded(a)'
        /\ \A a \in Actions, o \in Verdicts : Told(a, o)' => Told(a, o)
    BY AgentFrame
  <1>2. \A g \in Hosts : job'[g].step \in {"lookup", "call"} =>
           job'[g].id \in Actions /\ ~Decided(job'[g].id)
    <2>1. \A g \in Hosts : job'[g].step \in {"lookup", "call"} => job'[g].id \in Actions
      BY DEF TypeOK, Job, NoJob
    <2> QED
      BY <2>1 DEF IInv, JobFresh, OthersStay
  <1>3. (DecidedGuarded /\ JobFresh /\ ToldTrue /\ EffectAtMostOnce)'
    BY <1>1, <1>2, NoNewVerdict
  <1>4. Handed'
    <2>1. \A g \in Hosts, a \in Actions : Holds(g, a)' => Holds(g, a)
      BY DEF Holds, OthersStay
    <2> QED
      BY <1>1, <2>1 DEF IInv, Handed, Verdicts
  <1> QED
    BY <1>1, <1>3, <1>4 DEF IInv

(* The agent sends a report, gives it up or starts again.                  *)
LEMMA ReportInv ==
    ASSUME IInv, TypeOK', NEW h \in Hosts, SendReport(h) \/ ReportFails(h) \/ Restart(h)
    PROVE  IInv'
  <1>t. TypeOK /\ NoJob.step = "none" /\ NoJob.id = NoAction /\ NoAction \notin Actions
    BY ConstantsAssumption DEF IInv, NoJob
  <1>o. AtOnce(h) /\ (job[h].step # "none" => ledger[h][job[h].id] = "claimed")
        /\ (job[h].step \in {"lookup", "call"} => ~Decided(job[h].id))
    BY DEF IInv, OneAtATime, JobClaimed, JobFresh
  <1>s. \A a \in Actions, o \in Verdicts : Says(h, a, o) => Told(a, o)
    BY DEF Says, Told, Running
  <1>k. \A a \in acks[h] : Closed(a)
    BY DEF IInv, AckedClosed
  <1>n. NoRequest(h).stage = "none" /\ NoRequest(h).pending = {} /\ NoRequest(h).acked = {}
        /\ NoRequest(h).todo = {}
    BY DEF NoRequest
  <1>1. CASE SendReport(h)
    <2> DEFINE sent == [host |-> h, stage |-> "new", todo |-> completions[h],
                        acked |-> {}, pending |-> {}]
    <2>1. /\ UNCHANGED <<issued, cmd, outbox, handed, stray, completions, acks, batch, job, effects, now>>
          /\ request' = [request EXCEPT ![h] = sent] /\ Idle(h)
      BY <1>1 DEF SendReport, dashboardVars, agentVars
    <2>2. PICK t \in Clock : \E old \in SUBSET LedgerDue(h, t) :
             ledger' = [ledger EXCEPT ![h] =
                          [a \in Actions |-> IF a \in old THEN "none" ELSE ledger[h][a]]]
      BY <1>1 DEF SendReport
    <2>3. PICK old \in SUBSET LedgerDue(h, t) :
             ledger' = [ledger EXCEPT ![h] =
                          [a \in Actions |-> IF a \in old THEN "none" ELSE ledger[h][a]]]
      BY <2>2
    <2>4. request'[h] = sent /\ \A a \in Actions : ledger'[h][a] = IF a \in old THEN "none" ELSE ledger[h][a]
      BY <1>t, <2>1, <2>3 DEF TypeOK
    <2>5. OthersStay(h)
      BY <1>t, <2>1, <2>3 DEF OthersStay, TypeOK
    <2>6. RowsKept(h)
      <3> SUFFICES ASSUME NEW a \in Actions, a \in old PROVE now >= Expires(a) + Skew
        BY <2>4 DEF RowsKept
      <3>1. Expires(a) <= t - LedgerRetention
        BY DEF LedgerDue
      <3>2. /\ now \in Int /\ Skew \in Int /\ LedgerRetention \in Int /\ Expires(a) \in Int
            /\ t \in Int /\ t <= now + Skew
        BY <1>t, ConstantsAssumption DEF TypeOK, Clock, Expires, Command
      <3> QED
        BY <3>1, <3>2, ClockAssumption
    <2>7. job'[h].step = "none" /\ AtOnce(h)'
      BY <1>o, <2>1, <2>4 DEF Idle, AtOnce
    <2>8. \A a \in Actions : Holds(h, a)' => Holds(h, a)
      BY <2>1, <2>4 DEF Holds
    <2>9. \A a \in Actions, o \in Verdicts : Says(h, a, o)' => Says(h, a, o)
      BY <2>1, <2>4 DEF Says, Verdicts
    <2>10. \A a \in request'[h].acked \cup acks'[h] : Closed(a)
      BY <1>k, <2>1, <2>4
    <2> QED
      BY <1>s, <2>1, <2>5, <2>6, <2>7, <2>8, <2>9, <2>10, AgentStep
  <1>2. CASE ReportFails(h)
    <2>1. /\ UNCHANGED <<issued, cmd, outbox, handed, ledger, completions, acks, batch, job, effects, now>>
          /\ stray' \subseteq stray \cup {request[h]} /\ acks[h] = {}
          /\ request' = [request EXCEPT ![h] = NoRequest(h)]
      BY <1>2 DEF ReportFails, Orphan, dashboardVars, agentVars
    <2>2. request'[h] = NoRequest(h) /\ OthersStay(h)
      BY <1>t, <2>1 DEF OthersStay, TypeOK
    <2>3. RowsKept(h)
      BY <2>1 DEF RowsKept
    <2>4. AtOnce(h)'
      BY <1>o, <1>n, <2>1, <2>2 DEF AtOnce
    <2>5. \A a \in Actions : Holds(h, a)' => Holds(h, a)
      BY <1>n, <2>1, <2>2 DEF Holds
    <2>6. \A a \in Actions, o \in Verdicts : Says(h, a, o)' => Says(h, a, o)
      BY <1>n, <2>1, <2>2 DEF Says
    <2>7. \A a \in request'[h].acked \cup acks'[h] : Closed(a)
      BY <1>n, <1>k, <2>1, <2>2
    <2> QED
      BY <1>o, <1>s, <2>1, <2>2, <2>3, <2>4, <2>5, <2>6, <2>7, AgentStep
  <1>3. CASE Restart(h)
    <2>1. /\ UNCHANGED <<issued, cmd, outbox, handed, ledger, effects, now>>
          /\ stray' \subseteq stray \cup {request[h]}
          /\ request' = [request EXCEPT ![h] = NoRequest(h)]
          /\ completions' = [completions EXCEPT ![h] = {}] /\ acks' = [acks EXCEPT ![h] = {}]
          /\ batch' = [batch EXCEPT ![h] = {}] /\ job' = [job EXCEPT ![h] = NoJob]
      BY <1>3 DEF Restart, Orphan, dashboardVars
    <2>2. /\ request'[h] = NoRequest(h) /\ completions'[h] = {} /\ acks'[h] = {}
          /\ batch'[h] = {} /\ job'[h] = NoJob /\ OthersStay(h)
      BY <1>t, <2>1 DEF OthersStay, TypeOK
    <2>3. RowsKept(h)
      BY <2>1 DEF RowsKept
    <2>4. job'[h].step = "none" /\ AtOnce(h)'
      BY <1>t, <1>n, <2>2 DEF AtOnce
    <2>5. \A a \in Actions : Holds(h, a)' => Holds(h, a)
      BY <1>t, <1>n, <2>2 DEF Holds
    <2>6. \A a \in Actions, o \in Verdicts : Says(h, a, o)' => Says(h, a, o)
      BY <1>n, <1>t, <2>1, <2>2 DEF Says
    <2>7. \A a \in request'[h].acked \cup acks'[h] : Closed(a)
      BY <1>n, <2>2
    <2> QED
      BY <1>s, <2>1, <2>2, <2>3, <2>4, <2>5, <2>6, <2>7, AgentStep
  <1> QED
    BY <1>1, <1>2, <1>3

(* The agent takes what the response says.                                 *)
LEMMA ReceiveInv ==
    ASSUME IInv, TypeOK', NEW h \in Hosts, ReceiveResponse(h) \/ ReceiveAcks(h)
    PROVE  IInv'
  <1>t. TypeOK /\ request[h] \in Request /\ NoAction \notin Actions
    BY ConstantsAssumption DEF IInv, TypeOK
  <1>o. AtOnce(h)
    BY DEF IInv, OneAtATime
  <1>s. \A a \in Actions, o \in Verdicts : Says(h, a, o) => Told(a, o)
    BY DEF Says, Told, Running
  <1>k. \A a \in request[h].acked : Closed(a)
    BY DEF IInv, AckedClosed, Running
  <1>1. CASE ReceiveResponse(h)
    <2>1. /\ UNCHANGED <<issued, cmd, outbox, handed, stray, ledger, completions, job, effects, now>>
          /\ request[h].stage = "done"
          /\ request' = [request EXCEPT ![h] = NoRequest(h)]
          /\ acks' = [acks EXCEPT ![h] = request[h].acked]
          /\ batch' = [batch EXCEPT ![h] = request[h].pending]
      BY <1>1 DEF ReceiveResponse, dashboardVars
    <2>2. /\ request'[h] = NoRequest(h) /\ acks'[h] = request[h].acked
          /\ batch'[h] = request[h].pending /\ OthersStay(h)
      BY <1>t, <2>1 DEF OthersStay, TypeOK
    <2>3. RowsKept(h)
      BY <2>1 DEF RowsKept
    <2>4. job'[h].step = "none" /\ AtOnce(h)'
      BY <1>o, <1>t, <2>1, <2>2 DEF AtOnce, NoRequest, Request
    <2>5. \A a \in Actions : Holds(h, a)' => Holds(h, a)
      BY <2>1, <2>2 DEF Holds, NoRequest
    <2>6. \A a \in Actions, o \in Verdicts : Says(h, a, o)' => Says(h, a, o)
      BY <2>1, <2>2 DEF Says, NoRequest
    <2>7. \A a \in request'[h].acked \cup acks'[h] : Closed(a)
      BY <1>k, <2>2 DEF NoRequest
    <2> QED
      BY <1>s, <2>1, <2>2, <2>3, <2>4, <2>5, <2>6, <2>7, AgentStep
  <1>2. CASE ReceiveAcks(h)
    <2>1. /\ UNCHANGED <<issued, cmd, outbox, handed, stray, ledger, completions, batch, job, effects, now>>
          /\ h \in LocalHosts /\ request[h].stage = "complete"
          /\ request' = [request EXCEPT ![h].acked = {}]
          /\ acks' = [acks EXCEPT ![h] = request[h].acked]
      BY <1>2 DEF ReceiveAcks, dashboardVars
    <2>2. /\ request'[h] = [request[h] EXCEPT !.acked = {}]
          /\ acks'[h] = request[h].acked /\ OthersStay(h)
      BY <1>t, <2>1 DEF OthersStay, TypeOK
    <2>3. /\ request'[h].acked = {} /\ request'[h].stage = request[h].stage
          /\ request'[h].todo = request[h].todo /\ request'[h].pending = request[h].pending
      BY <1>t, <2>2 DEF Request
    <2>4. RowsKept(h)
      BY <2>1 DEF RowsKept
    <2>5. job'[h].step = "none" /\ AtOnce(h)'
      BY <1>o, <2>1, <2>2, <2>3 DEF AtOnce
    <2>6. \A a \in Actions : Holds(h, a)' => Holds(h, a)
      BY <2>1, <2>3 DEF Holds
    <2>7. \A a \in Actions, o \in Verdicts : Says(h, a, o)' => Says(h, a, o)
      BY <2>1, <2>3 DEF Says
    <2>8. \A a \in request'[h].acked \cup acks'[h] : Closed(a)
      BY <1>k, <2>2, <2>3
    <2> QED
      BY <1>s, <2>1, <2>2, <2>4, <2>5, <2>6, <2>7, <2>8, AgentStep
  <1> QED
    BY <1>1, <1>2

(* Acknowledging a closed command lets its ledger row go: nothing of it is *)
(* on the way any more.                                                    *)
LEMMA AcknowledgeInv ==
    ASSUME IInv, TypeOK', NEW h \in Hosts, NEW a \in acks[h],
           Acknowledge(h, a) \/ AcknowledgeFails(h, a)
    PROVE  IInv'
  <1>t. TypeOK /\ a \in Actions /\ NoAction \notin Actions
    BY ConstantsAssumption DEF IInv, TypeOK
  <1>o. AtOnce(h)
    BY DEF IInv, OneAtATime
  <1>s. \A b \in Actions, o \in Verdicts : Says(h, b, o) => Told(b, o)
    BY DEF Says, Told, Running
  <1>k. (\A b \in acks[h] : Closed(b)) /\ (\A b \in request[h].acked : Closed(b))
    BY DEF IInv, AckedClosed, Running
  <1>1. /\ UNCHANGED <<issued, cmd, outbox, handed, request, stray, batch, job, effects, now>>
        /\ acks' = [acks EXCEPT ![h] = @ \ {a}]
    BY DEF Acknowledge, AcknowledgeFails, dashboardVars
  <1>2. /\ \/ ledger' = ledger
           \/ ledger' = [ledger EXCEPT ![h][a] = IF @ \in Outcomes THEN "none" ELSE @]
        /\ \/ completions' = completions
           \/ completions' = [completions EXCEPT ![h] = {c \in @ : c.id # a}]
    BY DEF Acknowledge, AcknowledgeFails
  <1>3. /\ acks'[h] = acks[h] \ {a} /\ completions'[h] \subseteq completions[h]
        /\ \A b \in Actions : ledger'[h][b] = ledger[h][b] \/ (b = a /\ ledger'[h][b] = "none")
    BY <1>t, <1>1, <1>2 DEF TypeOK
  <1>4. OthersStay(h)
    BY <1>t, <1>1, <1>2 DEF OthersStay, TypeOK
  <1>5. job[h].step = "none" /\ ~Holds(h, a)
    BY <1>o, <1>t DEF AtOnce, Holds
  <1>6. \A b \in Actions : Holds(h, b)' <=> Holds(h, b)
    BY <1>1 DEF Holds
  <1>7. RowsKept(h)
    BY <1>3, <1>5, <1>6, <1>k DEF RowsKept
  <1>8. job'[h].step = "none" /\ AtOnce(h)'
    BY <1>o, <1>1, <1>3, <1>5 DEF AtOnce
  <1>9. \A b \in Actions, o \in Verdicts : Says(h, b, o)' => Says(h, b, o)
    BY <1>1, <1>3 DEF Says, Verdicts
  <1>10. \A b \in request'[h].acked \cup acks'[h] : Closed(b)
    BY <1>1, <1>3, <1>k
  <1> QED
    BY <1>s, <1>1, <1>4, <1>6, <1>7, <1>8, <1>9, <1>10, AgentStep

(* What is left of a batch, and a claim: the row is free only if nothing   *)
(* was decided, since each guard of a decided command excludes it.         *)
LEMMA BatchInv ==
    ASSUME IInv, TypeOK', NEW h \in Hosts,
           \/ DropBatch(h)
           \/ \E a \in batch[h] : Claim(h, a) \/ ClaimRefused(h, a) \/ ClaimFails(h, a)
    PROVE  IInv'
  <1>t. TypeOK /\ batch[h] \subseteq Actions /\ NoAction \notin Actions
    BY ConstantsAssumption DEF IInv, TypeOK
  <1>o. AtOnce(h)
    BY DEF IInv, OneAtATime
  <1>s. \A b \in Actions, o \in Verdicts : Says(h, b, o) => Told(b, o)
    BY DEF Says, Told, Running
  <1>k. \A b \in request[h].acked \cup acks[h] : Closed(b)
    BY DEF IInv, AckedClosed, Running
  <1>i. /\ job[h].step = "none" /\ acks[h] = {} /\ batch[h] # {}
        /\ UNCHANGED <<issued, cmd, outbox, handed, request, stray, acks, effects, now>>
    BY DEF DropBatch, Claim, ClaimRefused, ClaimFails, IsNext, dashboardVars
  <1>n. request[h].stage = "none" /\ request[h].pending = {}
    BY <1>o, <1>i DEF AtOnce
  <1>1. CASE DropBatch(h) \/ \E a \in batch[h] : ClaimRefused(h, a) \/ ClaimFails(h, a)
    <2>1. /\ UNCHANGED <<ledger, job>>
          /\ \E left \in SUBSET batch[h] : batch' = [batch EXCEPT ![h] = left]
      BY <1>1 DEF DropBatch, ClaimRefused, ClaimFails
    <2>2. batch'[h] \subseteq batch[h]
      BY <1>t, <2>1 DEF TypeOK
    <2>3. \/ completions' = completions
          \/ \E a \in batch[h], o \in Outcomes \cup {"duplicate"} :
                /\ QueueCompletion(h, a, o)
                /\ o = "duplicate" \/ o = ledger[h][a]
      <3>1. CASE \E a \in batch[h] : ClaimRefused(h, a)
        <4> PICK a \in batch[h] : ClaimRefused(h, a)
          BY <3>1
        <4>1. \A o : o \in {Recorded(h, a), "duplicate"} =>
                 o \in Outcomes \cup {"duplicate"} /\ (o = "duplicate" \/ o = ledger[h][a])
          BY <1>t DEF Recorded, ClaimRefused, TypeOK
        <4> QED
          BY <4>1 DEF ClaimRefused
      <3> QED
        BY <1>1, <3>1 DEF DropBatch, ClaimFails
    <2>4. OthersStay(h)
      BY <1>t, <1>i, <2>1, <2>3 DEF OthersStay, QueueCompletion, TypeOK
    <2>5. \A b \in Actions, o \in Verdicts :
             [id |-> b, outcome |-> o] \in completions'[h] =>
                [id |-> b, outcome |-> o] \in completions[h] \/ ledger[h][b] = o
      BY <1>t, <2>3 DEF QueueCompletion, TypeOK, Verdicts
    <2>6. RowsKept(h)
      BY <2>1 DEF RowsKept
    <2>7. job'[h].step = "none" /\ AtOnce(h)'
      BY <1>o, <1>i, <1>n, <2>1, <2>2 DEF AtOnce
    <2>8. \A b \in Actions : Holds(h, b)' => Holds(h, b)
      BY <1>i, <2>1, <2>2 DEF Holds
    <2>9. \A b \in Actions, o \in Verdicts : Says(h, b, o)' => Says(h, b, o)
      BY <1>i, <2>1, <2>5 DEF Says
    <2> QED
      BY <1>s, <1>i, <1>k, <2>4, <2>6, <2>7, <2>8, <2>9, AgentStep
  <1>2. ASSUME NEW a \in batch[h], Claim(h, a)
        PROVE  IInv'
    <2>1. /\ ledger[h][a] = "none" /\ completions' = completions
          /\ batch' = [batch EXCEPT ![h] = @ \ {a}]
          /\ ledger' = [ledger EXCEPT ![h][a] = "claimed"]
      BY <1>2 DEF Claim
    <2>2. PICK t \in Clock :
             job' = [job EXCEPT ![h] =
                       [id |-> a, step |-> IF t >= Expires(a) THEN "record" ELSE "lookup",
                        outcome |-> "expired"]]
      BY <1>2 DEF Claim
    <2>3. /\ batch'[h] = batch[h] \ {a} /\ OthersStay(h)
          /\ \A b \in Actions : ledger'[h][b] = IF b = a THEN "claimed" ELSE ledger[h][b]
          /\ job'[h].id = a /\ job'[h].outcome = "expired"
          /\ job'[h].step \in {"record", "lookup"}
          /\ job'[h].step = "lookup" => t < Expires(a)
      <3>1. Expires(a) \in Int /\ t \in Int
        BY <1>t, ConstantsAssumption DEF TypeOK, Expires, Command, Clock
      <3>2. OthersStay(h)
        BY <1>t, <1>i, <2>1, <2>2 DEF TypeOK, OthersStay
      <3>3. batch'[h] = batch[h] \ {a}
        BY <1>t, <2>1 DEF TypeOK
      <3>4. \A b \in Actions : ledger'[h][b] = IF b = a THEN "claimed" ELSE ledger[h][b]
        BY <1>t, <2>1 DEF TypeOK
      <3>5. job'[h] = [id |-> a, step |-> IF t >= Expires(a) THEN "record" ELSE "lookup",
                       outcome |-> "expired"]
        BY <1>t, <2>2 DEF TypeOK
      <3> QED
        BY <3>1, <3>2, <3>3, <3>4, <3>5
    <2>4. RowsKept(h)
      BY <2>3 DEF RowsKept
    <2>5. AtOnce(h)'
      BY <1>t, <1>o, <1>i, <1>n, <2>3 DEF AtOnce
    <2>6. \A b \in Actions : Holds(h, b)' => Holds(h, b)
      BY <1>i, <2>3 DEF Holds
    <2>7. \A b \in Actions, o \in Verdicts : Says(h, b, o)' => Says(h, b, o)
      BY <1>i, <2>1, <2>3 DEF Says, Verdicts
    <2>8. job'[h].step = "lookup" => ~Decided(a)
      <3> SUFFICES ASSUME t < Expires(a), Decided(a) PROVE FALSE
        BY <2>3
      <3>1. a \in Actions /\ Holds(h, a) /\ cmd[a].host = h
        BY <1>t DEF IInv, Owned, Holds
      <3>2. now \in Int /\ Skew \in Int /\ Expires(a) \in Int /\ t \in Int /\ t >= now - Skew
        BY <1>t, <3>1, ConstantsAssumption DEF TypeOK, Expires, Command, Clock
      <3>3. Guarded(a)
        BY <3>1 DEF IInv, DecidedGuarded
      <3> QED
        BY <2>1, <3>1, <3>2, <3>3 DEF Guarded
    <2> QED
      BY <1>s, <1>i, <1>k, <1>t, <2>3, <2>4, <2>5, <2>6, <2>7, <2>8, AgentStep
  <1> QED
    BY <1>1, <1>2

(* The steps of Execute after its claim.  The two verdicts are reached     *)
(* only on a command of which nothing was decided.                         *)
LEMMA ExecuteInv ==
    ASSUME IInv, TypeOK', NEW h \in Hosts, Lookup(h) \/ Call(h) \/ Record(h)
    PROVE  IInv'
  <1> DEFINE a == job[h].id
  <1>t. TypeOK
    BY DEF IInv
  <1>j. /\ job[h].step \in {"lookup", "call", "record"} /\ a \in Actions
        /\ job[h].outcome \in Outcomes /\ NoAction \notin Actions
    BY <1>t, ConstantsAssumption DEF TypeOK, Job, NoJob, Lookup, Call, Record
  <1>o. AtOnce(h) /\ ledger[h][a] = "claimed"
    BY <1>j DEF IInv, OneAtATime, JobClaimed
  <1>g. /\ request[h].stage = "none" /\ request[h].pending = {} /\ acks[h] = {}
        /\ a \notin batch[h]
    BY <1>o, <1>j DEF AtOnce
  <1>s. \A b \in Actions, o \in Verdicts : Says(h, b, o) => Told(b, o)
    BY DEF Says, Told, Running
  <1>k. \A b \in request[h].acked \cup acks[h] : Closed(b)
    BY DEF IInv, AckedClosed, Running
  <1>w. a \in issued /\ cmd[a].host = h
    BY <1>j DEF IInv, Owned, Holds
  <1>i. UNCHANGED <<issued, cmd, outbox, handed, request, stray, acks, batch, now>>
    BY DEF Lookup, Call, Record, dashboardVars
  (* Lookup and Call change the job alone and stay with the same command.  *)
  <1>f. ASSUME NEW next \in Job, job' = [job EXCEPT ![h] = next], next.id = a, next.step # "none",
               UNCHANGED <<ledger, completions>>
        PROVE  /\ job'[h] = next /\ OthersStay(h) /\ RowsKept(h) /\ AtOnce(h)'
               /\ \A b \in Actions : Holds(h, b)' => Holds(h, b)
               /\ job'[h].step # "none" => ledger'[h][job'[h].id] = "claimed"
    <2>1. job'[h] = next /\ OthersStay(h)
      BY <1>t, <1>i, <1>f DEF TypeOK, OthersStay
    <2>2. RowsKept(h)
      BY <1>f DEF RowsKept
    <2>3. AtOnce(h)'
      BY <1>o, <1>j, <1>g, <1>i, <1>f, <2>1 DEF AtOnce
    <2>4. \A b \in Actions : Holds(h, b)' => Holds(h, b)
      BY <1>i, <1>f, <2>1 DEF Holds
    <2> QED
      BY <1>o, <1>f, <2>1, <2>2, <2>3, <2>4
  (* A verdict on a itself.                                                *)
  <1>v. ASSUME NEW v \in Verdicts, ~Decided(a),
               job' = [job EXCEPT ![h] = [id |-> a, step |-> "record", outcome |-> v]],
               UNCHANGED <<ledger, completions>>,
               IF v = "completed" THEN effects' = [effects EXCEPT ![a] = @ + 1]
                                  ELSE effects' = effects
        PROVE  IInv'
    <2> DEFINE next == [id |-> a, step |-> "record", outcome |-> v]
    <2>1. next \in Job
      BY <1>j DEF Job, Verdicts, Outcomes
    <2>2. /\ job'[h] = next /\ OthersStay(h) /\ RowsKept(h) /\ AtOnce(h)'
          /\ \A b \in Actions : Holds(h, b)' => Holds(h, b)
          /\ job'[h].step # "none" => ledger'[h][job'[h].id] = "claimed"
      BY <1>f, <1>v, <2>1
    <2>3. /\ (Known /\ Owned /\ AckedClosed /\ OneAtATime /\ JobClaimed)'
          /\ \A b \in Actions : b \in issued /\ Guarded(b) => Guarded(b)'
          /\ \A b \in Actions, o \in Verdicts : Told(b, o)' => Told(b, o) \/ Says(h, b, o)'
      BY <1>i, <1>k, <2>2, AgentFrame
    <2>4. \A b \in Actions, o \in Verdicts : Told(b, o)' => Told(b, o) \/ (b = a /\ o = v)
      <3>1. \A b \in Actions, o \in Verdicts : Says(h, b, o)' => Says(h, b, o) \/ (b = a /\ o = v)
        BY <1>i, <1>v, <2>2 DEF Says
      <3> QED
        BY <1>s, <2>3, <3>1
    <2>5. /\ effects[a] = 0
          /\ \A b \in Actions : effects'[b] = IF b = a /\ v = "completed" THEN 1 ELSE effects[b]
      BY <1>t, <1>j, <1>v DEF TypeOK, Decided, Verdicts
    <2>6. Guarded(a)
      BY <1>o, <1>w DEF Guarded
    <2>7. \A b \in Actions : Decided(b)' => b = a \/ Decided(b)
      BY <2>4, <2>5 DEF Decided, Verdicts
    <2>8. DecidedGuarded'
      BY <1>i, <1>j, <1>w, <2>3, <2>6, <2>7 DEF IInv, DecidedGuarded
    <2>9. JobFresh'
      <3> SUFFICES ASSUME NEW g \in Hosts, job'[g].step \in {"lookup", "call"}
                   PROVE  ~Decided(job[g].id)'
        BY DEF JobFresh
      <3>1. g # h /\ job'[g] = job[g]
        BY <2>2 DEF OthersStay
      <3>2. job[g].id \in Actions /\ job[g].id # a
        <4>1. job[g].id \in Actions
          BY <1>t, <3>1 DEF TypeOK, Job, NoJob
        <4> QED
          BY <1>w, <3>1, <4>1 DEF IInv, Owned, Holds
      <3> QED
        BY <2>7, <3>1, <3>2, job'[g].id = job[g].id DEF IInv, JobFresh
    <2>10. ~Told(a, "session_changed")
      BY <1>v DEF Decided
    <2>11. ~Told(a, "completed")
      BY <1>j, <2>5 DEF IInv, ToldTrue
    <2>12. ToldTrue'
      BY <2>4, <2>5, <2>10, <2>11 DEF IInv, ToldTrue, Verdicts
    <2>13. EffectAtMostOnce'
      BY <2>5 DEF IInv, EffectAtMostOnce
    <2>14. Handed'
      <3>1. a \in handed
        BY <1>j DEF IInv, Handed, Holds
      <3>2. \A g \in Hosts, b \in Actions : Holds(g, b)' => Holds(g, b)
        BY <2>2 DEF Holds, OthersStay
      <3>3. \A b \in Actions : effects'[b] = effects[b] \/ b = a
        BY <2>5
      <3> QED
        BY <1>i, <2>4, <3>1, <3>2, <3>3 DEF IInv, Handed, Verdicts
    <2> QED
      BY <2>3, <2>8, <2>9, <2>12, <2>13, <2>14 DEF IInv
  (* Any other outcome says nothing.                                       *)
  <1>q. ASSUME NEW next \in Job, job' = [job EXCEPT ![h] = next], next.id = a, next.step # "none",
               UNCHANGED <<ledger, completions, effects>>,
               next.step = "record" => next.outcome \notin Verdicts,
               next.step \in {"lookup", "call"} => ~Decided(a)
        PROVE  IInv'
    <2>1. /\ job'[h] = next /\ OthersStay(h) /\ RowsKept(h) /\ AtOnce(h)'
          /\ \A b \in Actions : Holds(h, b)' => Holds(h, b)
          /\ job'[h].step # "none" => ledger'[h][job'[h].id] = "claimed"
      BY <1>f, <1>q
    <2>2. \A b \in Actions, o \in Verdicts : Says(h, b, o)' => Says(h, b, o)
      BY <1>i, <1>q, <2>1 DEF Says
    <2> QED
      BY <1>i, <1>k, <1>s, <1>q, <2>1, <2>2, AgentStep
  <1>d. ASSUME NEW o \in {"failed", "expired"}, Decide(h, o), UNCHANGED <<ledger, completions, effects>>
        PROVE  IInv'
    <2> DEFINE next == [id |-> a, step |-> "record", outcome |-> o]
    <2>1. next \in Job /\ next.id = a /\ next.step = "record" /\ next.outcome \notin Verdicts
      BY <1>j DEF Job, Outcomes, Verdicts
    <2>2. job' = [job EXCEPT ![h] = next]
      BY <1>d DEF Decide
    <2> QED
      BY <1>q, <1>d, <2>1, <2>2
  <1>1. CASE Lookup(h)
    <2>1. job[h].step = "lookup" /\ UNCHANGED <<ledger, completions, effects>>
      BY <1>1 DEF Lookup
    <2>2. ~Decided(a)
      BY <2>1 DEF IInv, JobFresh
    <2>3. CASE Decide(h, "failed") \/ Decide(h, "expired")
      BY <1>d, <2>1, <2>3
    <2>4. CASE Decide(h, "session_changed")
      BY <1>v, <2>1, <2>2, <2>4 DEF Decide, Verdicts
    <2>5. CASE job' = [job EXCEPT ![h].step = "call"]
      <3> DEFINE next == [id |-> a, step |-> "call", outcome |-> job[h].outcome]
      <3>1. next \in Job
        BY <1>j DEF Job
      <3>2. job' = [job EXCEPT ![h] = next]
        <4>1. job[h] \in [id : Actions, step : {"lookup", "call", "record"}, outcome : Outcomes]
          BY <1>t, <2>1 DEF TypeOK, Job, NoJob
        <4>2. [job[h] EXCEPT !.step = "call"] = next
          BY <4>1
        <4> QED
          BY <2>5, <4>2
      <3> QED
        BY <1>q, <2>1, <2>2, <3>1, <3>2
    <2> QED
      BY <1>1, <2>3, <2>4, <2>5 DEF Lookup
  <1>2. CASE Call(h)
    <2>1. job[h].step = "call" /\ UNCHANGED <<ledger, completions>>
      BY <1>2 DEF Call
    <2>2. ~Decided(a)
      BY <2>1 DEF IInv, JobFresh
    <2>3. CASE effects' = [effects EXCEPT ![a] = @ + 1] /\ Decide(h, "completed")
      BY <1>v, <2>1, <2>2, <2>3 DEF Decide, Verdicts
    <2>4. CASE Decide(h, "failed") /\ UNCHANGED effects
      BY <1>d, <2>1, <2>4
    <2> QED
      BY <1>2, <2>3, <2>4 DEF Call
  <1>3. CASE Record(h)
    <2>1. /\ job[h].step = "record" /\ job' = [job EXCEPT ![h] = NoJob] /\ UNCHANGED effects
          /\ \/ UNCHANGED <<ledger, completions>>
             \/ /\ ledger' = [ledger EXCEPT ![h][a] = job[h].outcome]
                /\ QueueCompletion(h, a, job[h].outcome)
      BY <1>3 DEF Record
    <2>2. job'[h] = NoJob /\ OthersStay(h)
      BY <1>t, <1>i, <2>1 DEF TypeOK, OthersStay, QueueCompletion
    <2>3. /\ \A b \in Actions : ledger'[h][b] = ledger[h][b]
                                \/ (b = a /\ ledger'[h][b] = job[h].outcome)
          /\ \A c \in completions'[h] : c \in completions[h]
                                        \/ c = [id |-> a, outcome |-> job[h].outcome]
      BY <1>t, <1>j, <2>1 DEF TypeOK, QueueCompletion
    <2>4. RowsKept(h)
      BY <1>j, <2>3 DEF RowsKept, Outcomes
    <2>5. job'[h].step = "none" /\ job'[h].id = NoAction
      BY <2>2 DEF NoJob
    <2>6. AtOnce(h)' /\ \A b \in Actions : Holds(h, b)' => Holds(h, b)
      <3>1. batch[h] \subseteq Actions
        BY <1>t DEF TypeOK
      <3> QED
        BY <1>o, <1>j, <1>g, <1>i, <2>5, <3>1 DEF AtOnce, Holds
    <2>7. \A b \in Actions, o \in Verdicts : Says(h, b, o)' => Says(h, b, o)
      BY <1>i, <2>1, <2>3, <2>5 DEF Says
    <2> QED
      BY <1>i, <1>k, <1>s, <2>1, <2>2, <2>4, <2>5, <2>6, <2>7, AgentStep
  <1> QED
    BY <1>1, <1>2, <1>3

-----------------------------------------------------------------------------
(* The theorems.                                                           *)

(* The initial state satisfies the invariant.                              *)
LEMMA InitInv == Init => IInv
  <1> SUFFICES ASSUME Init PROVE IInv
    OBVIOUS
  <1>1. TypeOK /\ NoAction \notin Actions
    BY InitType, ConstantsAssumption
  <1>2. \A r \in Running : r.todo = {} /\ r.acked = {} /\ r.pending = {} /\ r.stage = "none"
    BY DEF Init, Running, NoRequest
  <1>3. /\ \A h \in Hosts : /\ request[h] \in Running /\ batch[h] = {} /\ acks[h] = {}
                            /\ completions[h] = {} /\ job[h].step = "none" /\ job[h].id = NoAction
                            /\ \A a \in Actions : ledger[h][a] = "none"
        /\ \A a \in Actions : outbox[a] = "absent" /\ effects[a] = 0
    BY DEF Init, Running, NoJob
  <1>4. \A a \in Actions, o \in Verdicts : ~Told(a, o)
    BY <1>2, <1>3 DEF Told, Verdicts
  <1>5. \A a \in Actions : ~Decided(a) /\ ~Told(a, "completed")
    BY <1>3, <1>4 DEF Decided, Verdicts
  <1>6. Known /\ Owned /\ AckedClosed /\ OneAtATime /\ JobClaimed
    BY <1>1, <1>2, <1>3 DEF Known, Owned, Holds, AckedClosed, OneAtATime, AtOnce, JobClaimed
  <1>7. DecidedGuarded /\ JobFresh /\ ToldTrue /\ EffectAtMostOnce
    BY <1>3, <1>4, <1>5 DEF DecidedGuarded, JobFresh, ToldTrue, EffectAtMostOnce, Verdicts
  <1>8. Handed
    <2>1. \A h \in Hosts, a \in Actions : ~Holds(h, a)
      BY <1>1, <1>2, <1>3 DEF Holds
    <2>2. \A a \in Actions : ~(effects[a] > 0) /\ ~Told(a, "session_changed")
      BY <1>5 DEF Decided
    <2> QED
      BY <2>1, <2>2 DEF Handed
  <1> QED
    BY <1>1, <1>6, <1>7, <1>8 DEF IInv

(* Every step keeps the invariant.                                         *)
LEMMA StepInv == IInv /\ [Next]_vars => IInv'
  <1> SUFFICES ASSUME IInv, [Next]_vars PROVE IInv'
    OBVIOUS
  <1>t. TypeOK'
    BY StepType DEF IInv
  <1>1. CASE Operator
    BY <1>1, OperatorInv
  <1>2. CASE \E r \in Running : Handler(r)
    BY <1>2, <1>t, HandlerInv
  <1>3. CASE \E r \in stray : AbandonStray(r)
    BY <1>3, <1>t, AbandonInv
  <1>4. CASE \/ Tick \/ UNCHANGED vars
             \/ \E h \in Hosts : IngestSnapshot(h) \/ PurgeSnapshot(h) \/ ReplaceSession(h)
    BY <1>4, <1>t, EnvironmentInv
  <1>5. ASSUME NEW h \in Hosts, \/ SendReport(h) \/ ReportFails(h) \/ Restart(h)
                                \/ ReceiveResponse(h) \/ ReceiveAcks(h)
        PROVE  IInv'
    BY <1>5, <1>t, ReportInv, ReceiveInv
  <1>6. ASSUME NEW h \in Hosts, Execution(h)
        PROVE  IInv'
    BY <1>6, <1>t, AcknowledgeInv, BatchInv, ExecuteInv DEF Execution
  <1> QED
    BY <1>1, <1>2, <1>3, <1>4, <1>5, <1>6 DEF Next

(* The invariant that carries the proofs holds in every reachable state.   *)
THEOREM Inductive == Spec => []IInv
  BY InitInv, StepInv, PTL DEF Spec

(* No command has a second successful WTS call: neither a lost response, a *)
(* retried report, a restarted agent nor a cleaned ledger leads to one.    *)
THEOREM EffectOnce == Spec => []EffectAtMostOnce
  <1>1. IInv => EffectAtMostOnce
    BY DEF IInv
  <1> QED
    BY <1>1, Inductive, PTL

(* What the outbox says of a command is what happened on the machine.      *)
THEOREM OutcomeTrue == Spec => []OutcomeIsTrue
  <1>1. IInv => OutcomeIsTrue
    <2>1. \A a \in Actions, o \in Verdicts : outbox[a] = o => Told(a, o)
      BY DEF Told
    <2> QED
      BY <2>1 DEF IInv, ToldTrue, Verdicts, OutcomeIsTrue
  <1> QED
    BY <1>1, Inductive, PTL

-----------------------------------------------------------------------------
(* Consequences for single steps.                                          *)

(* The value of the outbox after a step of the operator or of a handler.   *)
LEMMA OutboxStep ==
    ASSUME TypeOK, Known, [Next]_vars, NEW a \in Actions
    PROVE  \/ outbox'[a] = outbox[a]
           \/ outbox[a] = "absent" /\ outbox'[a] = "queued" /\ a \notin issued /\ a \in issued'
           \/ outbox[a] \in Active /\ outbox'[a] \in {"delivered", "expired"}
           \/ outbox[a] \in Outcomes /\ outbox'[a] = "absent"
           \/ /\ outbox[a] = "delivered" /\ outbox'[a] \in Outcomes
              /\ Told(a, outbox'[a])
  <1>t. outbox \in [Actions -> States] /\ (a \notin issued => outbox[a] = "absent")
    BY DEF TypeOK, Known
  <1>1. CASE Operator
    <2>1. CASE \E b \in Actions, h \in Hosts, k \in Keys : Enqueue(b, h, k, seen[h])
      BY <1>t, <2>1 DEF Enqueue
    <2>2. CASE CancelForPolicy \/ PurgeForPrivacy
      BY <1>t, <2>2 DEF CancelForPolicy, PurgeForPrivacy, CancelActive, Close
    <2>3. CASE Expire
      BY <1>t, <2>3 DEF Expire, ExpireDue, Close, Due
    <2>4. CASE Retain
      BY <1>t, <2>4 DEF Retain, Close, Retainable
    <2>5. CASE \E b \in BOOLEAN : SetPolicy(b)
      BY <2>5 DEF SetPolicy
    <2> QED
      BY <1>1, <2>1, <2>2, <2>3, <2>4, <2>5 DEF Operator
  <1>2. ASSUME NEW r \in Running, NEW c \in r.todo, NEW closed,
               closed = IF Accepted(c, r.host) THEN {c.id} ELSE {},
               outbox' = Close(closed, c.outcome, Close(Due, "expired", outbox))
        PROVE  \/ outbox'[a] = outbox[a]
               \/ outbox[a] \in Active /\ outbox'[a] = "expired"
               \/ /\ outbox[a] = "delivered" /\ outbox'[a] \in Outcomes
                  /\ Told(a, outbox'[a])
    <2>1. c \in Completion /\ c = [id |-> c.id, outcome |-> c.outcome]
      BY RunningType DEF Request, Completion
    <2>2. CASE a \in closed
      <3>1. a = c.id /\ outbox[a] = "delivered" /\ outbox'[a] = c.outcome /\ c.outcome \in Outcomes
        BY <1>2, <2>1, <2>2 DEF Accepted, Completion, Close
      <3>2. [id |-> a, outcome |-> outbox'[a]] \in r.todo
        BY <2>1, <3>1
      <3> QED
        BY <3>1, <3>2 DEF Told
    <2>3. CASE a \notin closed
      BY <1>2, <2>3 DEF Close, Due
    <2> QED
      BY <2>2, <2>3
  <1>3. ASSUME NEW r \in Running, Handler(r)
        PROVE  \/ outbox'[a] = outbox[a]
               \/ outbox[a] \in Active /\ outbox'[a] \in {"delivered", "expired"}
               \/ /\ outbox[a] = "delivered" /\ outbox'[a] \in Outcomes
                  /\ Told(a, outbox'[a])
    <2>1. CASE BeginReport(r)
      BY <2>1 DEF BeginReport, ExpireDue, Close, Due
    <2>2. ASSUME NEW c \in r.todo, CompleteOne(r, c) \/ RejectOne(r, c), outbox' # outbox
          PROVE  \/ outbox'[a] = outbox[a]
                 \/ outbox[a] \in Active /\ outbox'[a] = "expired"
                 \/ /\ outbox[a] = "delivered" /\ outbox'[a] \in Outcomes
                    /\ Told(a, outbox'[a])
      BY <1>2, <2>2 DEF CompleteOne, RejectOne
    <2>3. CASE DeliverReport(r)
      BY <2>3 DEF DeliverReport, Deliver, Close, Deliverable, Due
    <2> QED
      BY <1>3, <2>1, <2>2, <2>3 DEF Handler
  <1>4. CASE ~Operator /\ ~\E r \in Running : Handler(r)
    <2>1. UNCHANGED outbox
      BY <1>4 DEF Next, vars, dashboardVars, AbandonStray, IngestSnapshot, PurgeSnapshot,
                  ReplaceSession, SendReport, ReportFails, ReceiveResponse, ReceiveAcks,
                  Restart, Tick, Execution, Acknowledge, AcknowledgeFails, Claim,
                  ClaimRefused, ClaimFails, DropBatch, Lookup, Call, Record
    <2> QED
      BY <2>1
  <1> QED
    BY <1>1, <1>3, <1>4

(* No late, repeated or replayed completion, expiry or cancellation        *)
(* replaces the first terminal state, and no deleted row comes back.       *)
THEOREM FirstOutcome == Spec => FirstOutcomeIsFinal
  <1>1. IInv /\ [Next]_vars =>
          [\A a \in issued :
              /\ outbox[a] \in Outcomes => outbox'[a] \in {outbox[a], "absent"}
              /\ outbox[a] = "absent" => outbox'[a] = "absent"]_vars
    <2> SUFFICES ASSUME IInv, [Next]_vars, NEW a \in issued
                 PROVE  /\ outbox[a] \in Outcomes => outbox'[a] \in {outbox[a], "absent"}
                        /\ outbox[a] = "absent" => outbox'[a] = "absent"
      OBVIOUS
    <2>1. TypeOK /\ Known /\ a \in Actions
      BY DEF IInv, TypeOK
    <2> QED
      BY <2>1, OutboxStep DEF Active, Outcomes
  <1> QED
    BY <1>1, Inductive, PTL DEF Spec, FirstOutcomeIsFinal

(* What a step does to the other parts the lifecycle sees.                 *)
LEMMA SideStep ==
    ASSUME IInv, [Next]_vars, NEW a \in Actions
    PROVE  /\ a \in issued => a \in issued'
           /\ a \in issued' => a \in issued \/ outbox'[a] = "queued"
           /\ a \in handed => a \in handed'
           /\ a \in handed' => a \in handed \/ (outbox[a] \in Active /\ outbox'[a] = "delivered")
           /\ \/ effects'[a] = effects[a]
              \/ /\ effects[a] = 0 /\ effects'[a] = 1
                 /\ a \in handed /\ ~Told(a, "session_changed")
                 /\ UNCHANGED <<outbox, handed, issued>>
  <1>t. TypeOK
    BY DEF IInv
  <1>1. CASE Operator
    BY <1>1, <1>t DEF Operator, Enqueue, SetPolicy, CancelForPolicy, PurgeForPrivacy, Expire, Retain, TypeOK
  <1>2. ASSUME NEW r \in Running, Handler(r)
        PROVE  /\ UNCHANGED <<issued, effects>>
               /\ \/ UNCHANGED handed
                  \/ \E S \in SUBSET Deliverable(r.host) :
                        /\ handed \subseteq handed' /\ handed' \subseteq handed \cup S
                        /\ \A b \in Actions : b \in S => outbox[b] \in Active /\ outbox'[b] = "delivered"
    <2>1. ASSUME NEW S \in SUBSET Deliverable(r.host), NEW bad \in SUBSET S, Deliver(r, S, bad)
          PROVE  /\ handed \subseteq handed' /\ handed' \subseteq handed \cup S
                 /\ \A b \in Actions : b \in S => outbox[b] \in Active /\ outbox'[b] = "delivered"
      BY <2>1 DEF Deliver, Close, Deliverable
    <2> QED
      BY <1>2, <2>1 DEF Handler, BeginReport, CompleteOne, RejectOne, DeliverReport
  <1>3. ASSUME NEW h \in Hosts, Call(h), effects' # effects
        PROVE  /\ UNCHANGED <<outbox, handed, issued>>
               /\ \/ effects'[a] = effects[a]
                  \/ /\ effects[a] = 0 /\ effects'[a] = 1
                     /\ a \in handed /\ ~Told(a, "session_changed")
    <2>1. /\ UNCHANGED <<outbox, handed, issued>> /\ job[h].step = "call"
          /\ effects' = [effects EXCEPT ![job[h].id] = @ + 1]
      BY <1>3 DEF Call, dashboardVars
    <2>2. CASE a = job[h].id
      <3>1. ~Decided(a) /\ Holds(h, a)
        BY <2>1, <2>2 DEF IInv, JobFresh, Holds
      <3>2. effects[a] = 0 /\ ~Told(a, "session_changed")
        BY <1>t, <3>1 DEF Decided, TypeOK
      <3>3. a \in handed
        BY <3>1 DEF IInv, Handed
      <3> QED
        BY <1>t, <2>1, <2>2, <3>2, <3>3 DEF TypeOK
    <2>3. CASE a # job[h].id
      BY <1>t, <2>1, <2>3 DEF TypeOK
    <2> QED
      BY <2>1, <2>2, <2>3
  <1>4. CASE /\ ~Operator /\ ~\E r \in Running : Handler(r)
             /\ ~\E h \in Hosts : Call(h) /\ effects' # effects
    <2>1. UNCHANGED <<issued, handed, effects>>
      BY <1>4 DEF Next, vars, dashboardVars, AbandonStray, IngestSnapshot, PurgeSnapshot,
                  ReplaceSession, SendReport, ReportFails, ReceiveResponse, ReceiveAcks,
                  Restart, Tick, Execution, Acknowledge, AcknowledgeFails, Claim,
                  ClaimRefused, ClaimFails, DropBatch, Lookup, Call, Record
    <2> QED
      BY <2>1
  <1> QED
    BY <1>1, <1>2, <1>3, <1>4

(* The protocol implements the lifecycle: over all hosts, messages,        *)
(* handlers and restarts, each command is opened, handed over, run and     *)
(* closed as SessionActionLifecycle says.                                  *)
THEOREM Promises == Spec => KeepsItsPromises
  <1>1. Init => Lifecycle!Init
    <2> SUFFICES ASSUME Init PROVE Lifecycle!Init
      OBVIOUS
    <2>1. \A a \in Actions : Phase(a) = "new"
      BY DEF Init, Phase, Active, Outcomes
    <2> QED
      BY <2>1 DEF Init, Lifecycle!Init
  <1>2. IInv /\ [Next]_vars => Lifecycle!Next
    <2> SUFFICES ASSUME IInv, [Next]_vars, NEW a \in Actions
                 PROVE  \/ Lifecycle!Keeps(a) \/ Lifecycle!Open(a) \/ Lifecycle!Hand(a)
                        \/ Lifecycle!Run(a) \/ Lifecycle!Finish(a) \/ Lifecycle!Forget(a)
      BY DEF Lifecycle!Next
    <2>t. TypeOK /\ Known /\ outbox[a] \in States /\ (a \notin issued => outbox[a] = "absent")
      BY DEF IInv, TypeOK, Known
    <2> DEFINE old == Phase(a)
               new == Phase(a)'
    <2>p. /\ outbox[a] \in Active => old = "open"
          /\ outbox[a] \in Outcomes => old = outbox[a]
          /\ outbox[a] = "absent" => old = IF a \in issued THEN "forgotten" ELSE "new"
      BY DEF Phase, Active, Outcomes
    <2>q. /\ outbox'[a] \in Active => new = "open"
          /\ outbox'[a] \in Outcomes => new = outbox'[a]
          /\ outbox'[a] = "absent" => new = IF a \in issued' THEN "forgotten" ELSE "new"
      BY DEF Phase, Active, Outcomes
    <2>f. /\ [b \in Actions |-> Phase(b)][a] = old
          /\ [b \in Actions |-> Phase(b)]'[a] = new
      OBVIOUS
    <2>s. /\ a \in issued => a \in issued'
          /\ a \in issued' => a \in issued \/ outbox'[a] = "queued"
          /\ a \in handed => a \in handed'
          /\ a \in handed' => a \in handed \/ (outbox[a] \in Active /\ outbox'[a] = "delivered")
          /\ \/ effects'[a] = effects[a]
             \/ /\ effects[a] = 0 /\ effects'[a] = 1
                /\ a \in handed /\ ~Told(a, "session_changed")
                /\ UNCHANGED <<outbox, handed, issued>>
      BY SideStep
    <2> HIDE DEF old, new
    <2>1. CASE effects'[a] # effects[a]
      <3>1. outbox[a] \notin {"completed", "session_changed"}
        <4>1. \A o \in Verdicts : outbox[a] = o => Told(a, o)
          BY DEF Told
        <4> QED
          BY <2>1, <2>s, <4>1 DEF IInv, ToldTrue, Verdicts
      <3>2. old \notin {"completed", "session_changed"} /\ new = old
        BY <2>1, <2>t, <2>p, <2>q, <2>s, <3>1 DEF States, Active, Outcomes
      <3>3. Lifecycle!Run(a)
        BY <2>1, <2>f, <2>s, <3>2 DEF Lifecycle!Run
      <3> QED
        BY <3>3
    <2>2. CASE effects'[a] = effects[a] /\ outbox'[a] = outbox[a]
      <3>1. new = old
        BY <2>2, <2>t, <2>p, <2>q, <2>s DEF States, Active, Outcomes
      <3>2. CASE a \in handed' <=> a \in handed
        BY <2>2, <2>f, <3>1, <3>2 DEF Lifecycle!Keeps
      <3>3. CASE ~(a \in handed' <=> a \in handed)
        <4>1. old = "open" /\ a \in handed'
          BY <2>p, <2>s, <3>3
        <4> QED
          BY <2>2, <2>f, <3>1, <4>1 DEF Lifecycle!Hand
      <3> QED
        BY <3>2, <3>3
    <2>3. CASE effects'[a] = effects[a] /\ outbox[a] = "absent" /\ outbox'[a] = "queued" /\ a \notin issued
      <3>1. old = "new" /\ new = "open" /\ (a \in handed' <=> a \in handed)
        BY <2>3, <2>p, <2>q, <2>s DEF Active
      <3> QED
        BY <2>3, <2>f, <3>1 DEF Lifecycle!Open
    <2>4. CASE effects'[a] = effects[a] /\ outbox[a] \in Active /\ outbox'[a] = "delivered"
      <3>1. old = "open" /\ new = "open"
        BY <2>4, <2>p, <2>q DEF Active
      <3> QED
        BY <2>4, <2>f, <2>s, <3>1 DEF Lifecycle!Hand, Lifecycle!Keeps
    <2>5. CASE effects'[a] = effects[a] /\ outbox[a] \in Outcomes /\ outbox'[a] = "absent"
      <3>1. old = outbox[a] /\ new = "forgotten" /\ (a \in handed' <=> a \in handed)
        BY <2>5, <2>t, <2>p, <2>q, <2>s DEF Outcomes
      <3> QED
        BY <2>5, <2>f, <3>1 DEF Lifecycle!Forget, Lifecycle!Outcomes, Outcomes
    <2>6. CASE /\ effects'[a] = effects[a] /\ outbox[a] \in Active /\ outbox'[a] \in Outcomes
               /\ outbox'[a] = "expired" \/ Told(a, outbox'[a])
      <3>1. old = "open" /\ new = outbox'[a] /\ (a \in handed' <=> a \in handed)
        BY <2>6, <2>p, <2>q, <2>s DEF Active, Outcomes
      <3>2. outbox'[a] = "completed" => effects[a] = 1
        BY <2>6 DEF IInv, ToldTrue
      <3>3. outbox'[a] = "session_changed" => effects[a] = 0 /\ a \in handed
        BY <2>6 DEF IInv, ToldTrue, Handed
      <3> QED
        BY <2>6, <2>f, <3>1, <3>2, <3>3 DEF Lifecycle!Finish, Lifecycle!Outcomes, Outcomes
    <2> QED
      BY <2>t, <2>1, <2>2, <2>3, <2>4, <2>5, <2>6, OutboxStep DEF Active, Outcomes
  <1> QED
    BY <1>1, <1>2, Inductive, PTL DEF Spec, KeepsItsPromises, Lifecycle!Spec
=============================================================================
