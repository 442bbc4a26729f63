----------------------- MODULE SessionRetentionProofs -----------------------
(***************************************************************************)
(* Proofs about what the retention of the dashboard may delete: the row    *)
(* that makes a repeated request harmless, and the row an agent's          *)
(* completion waits for, live as long as the retention says.  And about    *)
(* the agent's own store of what waits to be told: it fits in a report.    *)
(***************************************************************************)
EXTENDS SessionActionsProofs, FiniteSetTheorems

-----------------------------------------------------------------------------
(* A row is deleted only after its command was closed for the retention.   *)
Dated ==
    \A a \in issued :
        /\ cmd[a].created <= now
        /\ outbox[a] \in Outcomes => cmd[a].created <= doneAt[a]
        /\ outbox[a] = "absent" => now > cmd[a].created + Retention

(* An agent's completions are of commands the dashboard has issued.        *)
QueueIssued == \A h \in Hosts : \A c \in completions[h] : c.id \in issued

Retained == Dated /\ QueueIssued /\ RetryMakesNoSecondCommand

-----------------------------------------------------------------------------
(* A command is closed at the present instant, and a row is deleted only   *)
(* when its instant is older than the retention.                           *)
LEMMA StampStep ==
    ASSUME TypeOK, Known, [Next]_vars, NEW a \in Actions
    PROVE  /\ outbox'[a] \in Outcomes =>
                 doneAt'[a] = now \/ (outbox[a] \in Outcomes /\ doneAt'[a] = doneAt[a])
           /\ outbox[a] \in Outcomes /\ outbox'[a] = "absent" => doneAt[a] < now - Retention
  <1>t. outbox \in [Actions -> States] /\ (a \notin issued => outbox[a] = "absent")
    BY DEF TypeOK, Known
  <1>1. CASE Operator
    <2>1. CASE \E b \in Actions, h \in Hosts, k \in Keys : Enqueue(b, h, k, seen[h])
      BY <1>t, <2>1 DEF Enqueue, Outcomes
    <2>2. CASE CancelForPolicy \/ PurgeForPrivacy
      BY <1>t, <2>2 DEF CancelForPolicy, PurgeForPrivacy, CancelActive, Close, Stamp, Outcomes
    <2>3. CASE Expire
      BY <1>t, <2>3 DEF Expire, ExpireDue, Close, Stamp, Outcomes
    <2>4. CASE Retain
      BY <1>t, <2>4 DEF Retain, Close, Retainable, Outcomes
    <2>5. CASE \E b \in BOOLEAN : SetPolicy(b)
      BY <2>5 DEF SetPolicy, Outcomes
    <2> QED
      BY <1>1, <2>1, <2>2, <2>3, <2>4, <2>5 DEF Operator
  <1>2. ASSUME NEW r \in Running, Handler(r)
        PROVE  /\ doneAt'[a] = now \/ (outbox'[a] = outbox[a] /\ doneAt'[a] = doneAt[a])
                  \/ outbox'[a] = "delivered"
               /\ outbox'[a] = "absent" => outbox[a] \notin Outcomes
    <2>1. CASE BeginReport(r)
      BY <2>1, <1>t DEF BeginReport, ExpireDue, Close, Stamp, Outcomes
    <2>2. ASSUME NEW c \in r.todo, CompleteOne(r, c) \/ RejectOne(r, c)
          PROVE  /\ doneAt'[a] = now \/ (outbox'[a] = outbox[a] /\ doneAt'[a] = doneAt[a])
                 /\ outbox'[a] = "absent" => outbox[a] \notin Outcomes
      <3>1. c \in Completion
        BY RunningType DEF Request
      <3> DEFINE closed == IF Accepted(c, r.host) THEN {c.id} ELSE {}
      <3>2. closed # {} => c.outcome # "absent"
        BY <3>1 DEF Accepted, Completion, Outcomes
      <3>3. CASE UNCHANGED <<outbox, doneAt>>
        BY <3>3 DEF Outcomes
      <3>4. CASE /\ outbox' = Close(closed, c.outcome, Close(Due, "expired", outbox))
                 /\ doneAt' = Stamp(Due \cup closed)
        BY <3>2, <3>4 DEF Close, Stamp, Outcomes
      <3> QED
        BY <2>2, <3>3, <3>4 DEF CompleteOne, RejectOne
    <2>3. CASE DeliverReport(r)
      BY <2>3, <1>t DEF DeliverReport, Deliver, Close, Stamp, Outcomes
    <2> QED
      BY <1>2, <2>1, <2>2, <2>3 DEF Handler
  <1>3. CASE ~Operator /\ ~\E r \in Running : Handler(r)
    <2>1. UNCHANGED <<outbox, doneAt>>
      BY <1>3 DEF Next, vars, dashboardVars, AbandonStray, IngestSnapshot, PurgeSnapshot,
                  ReplaceSession, SendReport, ReportFails, ReceiveResponse, ReceiveAcks,
                  Restart, Tick, Execution, Acknowledge, AcknowledgeFails, Claim,
                  ClaimRefused, ClaimFails, DropBatch, Lookup, Call, Record
    <2> QED
      BY <2>1 DEF Outcomes
  <1> QED
    BY <1>1, <1>2, <1>3 DEF Outcomes

(* A command is issued once, now, under a key no row holds.                *)
LEMMA IssueStep ==
    ASSUME TypeOK, [Next]_vars
    PROVE  /\ now' >= now
           /\ \A a \in issued : cmd'[a] = cmd[a]
           /\ \/ issued' = issued
              \/ \E a \in Actions : /\ issued' = issued \cup {a} /\ a \notin issued
                                    /\ cmd'[a].created = now /\ outbox'[a] = "queued"
                                    /\ \A b \in Actions : outbox[b] # "absent" => cmd[b].key # cmd'[a].key
  <1>n. now \in Int
    BY DEF TypeOK
  <1>1. ASSUME NEW a \in Actions, NEW h \in Hosts, NEW k \in Keys, Enqueue(a, h, k, seen[h])
        PROVE  /\ now' = now /\ issued' = issued \cup {a} /\ a \notin issued
               /\ \A b \in issued : cmd'[b] = cmd[b]
               /\ cmd'[a].created = now /\ outbox'[a] = "queued"
               /\ \A b \in Actions : outbox[b] # "absent" => cmd[b].key # cmd'[a].key
    BY <1>1 DEF Enqueue, EnqueueGuard, TypeOK
  <1>2. CASE ~\E a \in Actions, h \in Hosts, k \in Keys : Enqueue(a, h, k, seen[h])
    <2> DEFINE Same == UNCHANGED <<issued, cmd>> /\ now' = now
    <2>1. ASSUME Operator PROVE Same
      BY <1>2, <2>1 DEF Operator, SetPolicy, CancelForPolicy, PurgeForPrivacy, Expire, Retain
    <2>2. ASSUME NEW r \in Running, Handler(r) PROVE Same
      BY <2>2 DEF Handler, BeginReport, CompleteOne, RejectOne, DeliverReport
    <2>3. ASSUME NEW r \in stray, AbandonStray(r) PROVE Same
      BY <2>3 DEF AbandonStray, dashboardVars
    <2>4. ASSUME NEW h \in Hosts,
                 \/ IngestSnapshot(h) \/ PurgeSnapshot(h) \/ ReplaceSession(h)
                 \/ SendReport(h) \/ ReportFails(h) \/ ReceiveResponse(h) \/ ReceiveAcks(h)
                 \/ Restart(h)
          PROVE  Same
      BY <2>4 DEF IngestSnapshot, PurgeSnapshot, ReplaceSession, SendReport, ReportFails,
                  ReceiveResponse, ReceiveAcks, Restart, dashboardVars
    <2>5. ASSUME NEW h \in Hosts, Execution(h) PROVE Same
      BY <2>5 DEF Execution, Acknowledge, AcknowledgeFails, Claim, ClaimRefused, ClaimFails,
                  DropBatch, Lookup, Call, Record, dashboardVars
    <2>6. ASSUME Tick PROVE UNCHANGED <<issued, cmd>> /\ now' = now + 1
      BY <2>6 DEF Tick, dashboardVars
    <2>7. ASSUME UNCHANGED vars PROVE Same
      BY <2>7 DEF vars, dashboardVars
    <2>8. UNCHANGED <<issued, cmd>> /\ (now' = now \/ now' = now + 1)
      BY <2>1, <2>2, <2>3, <2>4, <2>5, <2>6, <2>7 DEF Next
    <2> QED
      BY <1>n, <2>8
  <1> QED
    BY <1>n, <1>1, <1>2

(* A completion is queued for a command the agent holds.                   *)
LEMMA QueueStep ==
    ASSUME IInv, [Next]_vars, NEW h \in Hosts, NEW c \in completions'[h], c \notin completions[h]
    PROVE  c.id \in issued
  <1>t. TypeOK /\ NoAction \notin Actions
    BY ConstantsAssumption DEF IInv
  <1>1. PICK g \in Hosts :
           \/ Record(g)
           \/ \E a \in batch[g] : ClaimRefused(g, a)
           \/ \E a \in acks[g] : Acknowledge(g, a)
           \/ Restart(g)
    <2> SUFFICES ASSUME ~\E g \in Hosts :
                           \/ Record(g)
                           \/ \E a \in batch[g] : ClaimRefused(g, a)
                           \/ \E a \in acks[g] : Acknowledge(g, a)
                           \/ Restart(g)
                 PROVE  UNCHANGED completions
      OBVIOUS
    <2>1. CASE Operator
      BY <2>1 DEF Operator, Enqueue, SetPolicy, CancelForPolicy, PurgeForPrivacy, Expire, Retain, agentVars
    <2>2. CASE \E r \in Running : Handler(r)
      BY <2>2 DEF Handler, BeginReport, CompleteOne, RejectOne, DeliverReport, agentVars
    <2>3. CASE \E g \in Hosts : Execution(g)
      BY <2>3 DEF Execution, AcknowledgeFails, Claim, ClaimFails, DropBatch, Lookup, Call
    <2>4. CASE ~Operator /\ (~\E r \in Running : Handler(r)) /\ ~\E g \in Hosts : Execution(g)
      BY <2>4 DEF Next, AbandonStray, vars, agentVars, IngestSnapshot, PurgeSnapshot,
                  ReplaceSession, SendReport, ReportFails, ReceiveResponse, ReceiveAcks, Tick
    <2> QED
      BY <2>1, <2>2, <2>3, <2>4
  <1>2. CASE (\E a \in acks[g] : Acknowledge(g, a)) \/ Restart(g)
    <2>1. \/ completions' = [completions EXCEPT ![g] = {}]
          \/ \E a \in acks[g] : completions' = [completions EXCEPT ![g] = {d \in @ : d.id # a}]
      BY <1>2 DEF Acknowledge, Restart
    <2>2. completions'[h] \subseteq completions[h]
      BY <1>t, <2>1 DEF TypeOK
    <2> QED
      BY <2>2
  <1>3. ASSUME NEW a \in Actions, NEW o, Holds(g, a), QueueCompletion(g, a, o)
        PROVE  c.id \in issued
    <2>1. c.id = a
      BY <1>t, <1>3 DEF QueueCompletion, TypeOK
    <2> QED
      BY <1>3, <2>1 DEF IInv, Owned
  <1>4. CASE \E a \in batch[g] : ClaimRefused(g, a)
    BY <1>t, <1>3, <1>4 DEF ClaimRefused, Holds, TypeOK
  <1>5. CASE Record(g)
    <2>1. job[g].id \in Actions /\ Holds(g, job[g].id)
      BY <1>t, <1>5 DEF Record, TypeOK, Job, NoJob, Holds
    <2>2. QueueCompletion(g, job[g].id, job[g].outcome)
      BY <1>5 DEF Record
    <2> QED
      BY <1>3, <2>1, <2>2
  <1> QED
    BY <1>1, <1>2, <1>4, <1>5

(* Every step keeps the dates.                                             *)
LEMMA DatedStep == IInv /\ Dated /\ [Next]_vars => Dated'
  <1> SUFFICES ASSUME IInv, Dated, [Next]_vars, NEW a \in issued'
               PROVE  (/\ cmd[a].created <= now
                       /\ outbox[a] \in Outcomes => cmd[a].created <= doneAt[a]
                       /\ outbox[a] = "absent" => now > cmd[a].created + Retention)'
    BY DEF Dated
  <1>t. TypeOK /\ TypeOK' /\ Known /\ a \in Actions
    BY StepType DEF IInv, TypeOK
  <1>i. /\ now \in Int /\ now' \in Int /\ now' >= now /\ Retention \in Nat
        /\ cmd[a].created \in Int /\ cmd'[a].created \in Int
        /\ doneAt[a] \in Int /\ doneAt'[a] \in Int
    BY <1>t, IssueStep, ConstantsAssumption DEF TypeOK, Command
  <1>o. \/ outbox'[a] = outbox[a]
        \/ outbox[a] = "absent" /\ outbox'[a] = "queued"
        \/ outbox[a] \in Active /\ outbox'[a] \in {"delivered", "expired"}
        \/ outbox[a] \in Outcomes /\ outbox'[a] = "absent"
        \/ outbox[a] = "delivered" /\ outbox'[a] \in Outcomes
    BY <1>t, OutboxStep
  <1>s. /\ outbox'[a] \in Outcomes =>
              doneAt'[a] = now \/ (outbox[a] \in Outcomes /\ doneAt'[a] = doneAt[a])
        /\ outbox[a] \in Outcomes /\ outbox'[a] = "absent" => doneAt[a] < now - Retention
    BY <1>t, StampStep
  <1>1. CASE a \in issued
    <2>1. cmd'[a] = cmd[a]
      BY <1>1, <1>t, IssueStep
    <2>2. /\ cmd[a].created <= now
          /\ outbox[a] \in Outcomes => cmd[a].created <= doneAt[a]
          /\ outbox[a] = "absent" => now > cmd[a].created + Retention
      BY <1>1 DEF Dated
    <2>3. outbox'[a] = "absent" => outbox[a] \in Outcomes \cup {"absent"}
      BY <1>o DEF Active, Outcomes
    <2> QED
      BY <1>i, <1>s, <2>1, <2>2, <2>3 DEF Outcomes
  <1>2. CASE a \notin issued
    <2>1. cmd'[a].created = now /\ outbox'[a] = "queued"
      BY <1>2, <1>t, IssueStep
    <2> QED
      BY <1>i, <2>1 DEF Outcomes
  <1> QED
    BY <1>1, <1>2

(* A second command under a key needs the row of the first to be gone.     *)
LEMMA RetryStep == IInv /\ Dated /\ RetryMakesNoSecondCommand /\ [Next]_vars => RetryMakesNoSecondCommand'
  <1> SUFFICES ASSUME IInv, Dated, RetryMakesNoSecondCommand, [Next]_vars,
                      NEW a \in issued', NEW b \in issued', a # b, cmd'[a].key = cmd'[b].key
               PROVE  \/ cmd'[a].created > cmd'[b].created + Retention
                      \/ cmd'[b].created > cmd'[a].created + Retention
    BY DEF RetryMakesNoSecondCommand
  <1>t. TypeOK /\ TypeOK' /\ issued' \subseteq Actions
    BY StepType DEF IInv, TypeOK
  <1>1. ASSUME NEW x \in issued, NEW y \in issued' \ issued, cmd'[x].key = cmd'[y].key
        PROVE  cmd'[y].created > cmd'[x].created + Retention
    <2>1. cmd'[x] = cmd[x] /\ cmd'[y].created = now
          /\ \A b1 \in Actions : outbox[b1] # "absent" => cmd[b1].key # cmd'[y].key
      BY <1>t, IssueStep
    <2>2. x \in Actions /\ outbox[x] = "absent"
      BY <1>1, <1>t, <2>1 DEF TypeOK
    <2> QED
      BY <2>1, <2>2 DEF Dated
  <1>2. CASE a \in issued /\ b \in issued
    <2>1. cmd'[a] = cmd[a] /\ cmd'[b] = cmd[b]
      BY <1>2, <1>t, IssueStep
    <2> QED
      BY <1>2, <2>1 DEF RetryMakesNoSecondCommand
  <1>3. CASE a \notin issued /\ b \notin issued
    BY <1>3, <1>t, IssueStep
  <1> QED
    BY <1>1, <1>2, <1>3

(* The three invariants hold together.                                     *)
THEOREM RetentionInvariant == Spec => []Retained
  <1>1. Init => Retained
    BY DEF Init, Retained, Dated, QueueIssued, RetryMakesNoSecondCommand
  <1>2. IInv /\ Retained /\ [Next]_vars => Retained'
    <2> SUFFICES ASSUME IInv, Retained, [Next]_vars PROVE Retained'
      OBVIOUS
    <2>1. QueueIssued'
      <3> SUFFICES ASSUME NEW h \in Hosts, NEW c \in completions'[h] PROVE c.id \in issued'
        BY DEF QueueIssued
      <3>1. c.id \in issued
        BY QueueStep DEF Retained, QueueIssued
      <3>2. issued \subseteq issued'
        BY IssueStep DEF IInv
      <3> QED
        BY <3>1, <3>2
    <2> QED
      BY <2>1, DatedStep, RetryStep DEF Retained
  <1> QED
    BY <1>1, <1>2, Inductive, PTL DEF Spec

(* A request repeated with its key within the retention makes no second    *)
(* command.                                                                *)
THEOREM RetryIsSafe == Spec => []RetryMakesNoSecondCommand
  <1>1. Retained => RetryMakesNoSecondCommand
    BY DEF Retained
  <1> QED
    BY <1>1, RetentionInvariant, PTL

(* A completion waits for a deleted row only on an agent that was cut off  *)
(* for longer than the retention.                                          *)
THEOREM OrphansAreLate == Spec => []OrphanedOnlyAfterRetention
  <1>1. Retained => OrphanedOnlyAfterRetention
    BY DEF Retained, Dated, QueueIssued, OrphanedOnlyAfterRetention
  <1> QED
    BY <1>1, RetentionInvariant, PTL

-----------------------------------------------------------------------------
(* The room for a completion is looked for before the claim and used after *)
(* the outcome is recorded: meanwhile the action in hand has a slot.       *)
Roomy(h) ==
    /\ IsFiniteSet(completions[h])
    /\ Cardinality(completions[h]) <= BatchLimit
    /\ job[h].step # "none" => Cardinality(completions[h]) < BatchLimit
SlotKept == \A h \in Hosts : Roomy(h)

(* A completion that joins the queue takes at most one slot.               *)
LEMMA OneSlot ==
    ASSUME TypeOK, NEW h \in Hosts, NEW a, NEW o, QueueCompletion(h, a, o),
           IsFiniteSet(completions[h]), Cardinality(completions[h]) < BatchLimit
    PROVE  /\ IsFiniteSet(completions'[h])
           /\ Cardinality(completions'[h]) <= BatchLimit
           /\ \A g \in Hosts : g # h => completions'[g] = completions[g]
  <1> DEFINE q == [id |-> a, outcome |-> o]
  <1>1. completions'[h] = completions[h] \/ completions'[h] = completions[h] \cup {q}
    BY DEF QueueCompletion, TypeOK
  <1>2. \A g \in Hosts : g # h => completions'[g] = completions[g]
    BY DEF QueueCompletion, TypeOK
  <1> HIDE DEF q
  <1>3. Cardinality(completions[h]) \in Nat /\ BatchLimit \in Nat
    BY FS_CardinalityType, ConstantsAssumption
  <1>4. IsFiniteSet(completions[h] \cup {q})
    BY FS_AddElement
  <1>5. Cardinality(completions[h] \cup {q}) <= Cardinality(completions[h]) + 1
    <2>1. Cardinality(completions[h] \cup {q}) =
             IF q \in completions[h] THEN Cardinality(completions[h]) ELSE Cardinality(completions[h]) + 1
      BY FS_AddElement, Zenon
    <2> QED
      BY <1>3, <2>1
  <1>6. CASE completions'[h] = completions[h]
    BY <1>2, <1>3, <1>6
  <1>7. CASE completions'[h] = completions[h] \cup {q}
    <2>1. Cardinality(completions'[h]) \in Nat
      BY <1>4, <1>7, FS_CardinalityType
    <2> QED
      BY <1>2, <1>3, <1>4, <1>5, <1>7, <2>1
  <1> QED
    BY <1>1, <1>6, <1>7

(* Steps that neither fill a queue nor take an action in hand.             *)
LEMMA RoomStays ==
    ASSUME TypeOK, SlotKept, NEW h \in Hosts, completions'[h] \subseteq completions[h],
           job'[h].step # "none" => job[h].step # "none"
    PROVE  Roomy(h)'
  <1>1. /\ IsFiniteSet(completions'[h])
        /\ Cardinality(completions'[h]) <= Cardinality(completions[h])
    BY FS_Subset DEF SlotKept, Roomy
  <1>2. Cardinality(completions[h]) \in Nat /\ Cardinality(completions'[h]) \in Nat /\ BatchLimit \in Nat
    BY <1>1, FS_CardinalityType, ConstantsAssumption DEF SlotKept, Roomy
  <1> QED
    BY <1>1, <1>2 DEF SlotKept, Roomy

(* What an agent does with the actions it was given.                       *)
LEMMA SlotStep ==
    ASSUME TypeOK, SlotKept, NEW g \in Hosts, Execution(g) PROVE SlotKept'
  <1> SUFFICES ASSUME NEW h \in Hosts PROVE Roomy(h)'
    BY DEF SlotKept
  <1>t. completions \in [Hosts -> SUBSET Completion] /\ job \in [Hosts -> Job]
    BY DEF TypeOK
  <1>1. ASSUME NEW a \in acks[g], Acknowledge(g, a) PROVE Roomy(h)'
    <2>1. completions'[h] \subseteq completions[h] /\ job' = job
      BY <1>t, <1>1 DEF Acknowledge
    <2> QED
      BY <2>1, RoomStays
  <1>2. CASE \/ \E a \in acks[g] : AcknowledgeFails(g, a)
             \/ \E a \in batch[g] : ClaimFails(g, a)
             \/ DropBatch(g)
    BY <1>2, RoomStays DEF AcknowledgeFails, ClaimFails, DropBatch
  <1>3. ASSUME NEW a \in batch[g], Claim(g, a) PROVE Roomy(h)'
    <2>1. completions' = completions /\ HasRoom(g) /\ (h # g => job'[h] = job[h])
      BY <1>t, <1>3 DEF Claim
    <2> QED
      BY <2>1 DEF SlotKept, Roomy, HasRoom
  <1>4. ASSUME NEW a \in batch[g], ClaimRefused(g, a) PROVE Roomy(h)'
    <2>1. HasRoom(g) /\ job' = job /\ job[g].step = "none"
          /\ \E o \in {Recorded(g, a), "duplicate"} : QueueCompletion(g, a, o)
      BY <1>4 DEF ClaimRefused, IsNext
    <2> QED
      BY <2>1, OneSlot DEF SlotKept, Roomy, HasRoom
  <1>5. CASE Lookup(g) \/ Call(g)
    <2>1. job[g].step # "none" /\ completions' = completions /\ (h # g => job'[h] = job[h])
      BY <1>t, <1>5 DEF Lookup, Call, Decide
    <2> QED
      BY <2>1, RoomStays
  <1>6. CASE Record(g)
    <2>1. job[g].step # "none" /\ (h # g => job'[h] = job[h]) /\ job'[g].step = "none"
      BY <1>t, <1>6 DEF Record, NoJob
    <2>2. CASE UNCHANGED completions
      BY <2>1, <2>2, RoomStays
    <2>3. CASE QueueCompletion(g, job[g].id, job[g].outcome)
      BY <2>1, <2>3, OneSlot DEF SlotKept, Roomy
    <2> QED
      BY <1>6, <2>2, <2>3 DEF Record
  <1> QED
    BY <1>1, <1>2, <1>3, <1>4, <1>5, <1>6 DEF Execution

(* The completion queue of an agent always fits in one report, however     *)
(* many commands it is given and however long the dashboard is silent.     *)
THEOREM QueueFits == Spec => []QueueFitsReport
  <1>1. Init => SlotKept
    BY FS_EmptySet, ConstantsAssumption DEF Init, SlotKept, Roomy, NoJob
  <1>2. TypeOK /\ SlotKept /\ [Next]_vars => SlotKept'
    <2> SUFFICES ASSUME TypeOK, SlotKept, [Next]_vars PROVE SlotKept'
      OBVIOUS
    <2>1. CASE \E g \in Hosts : Execution(g)
      BY <2>1, SlotStep
    <2>2. CASE \E g \in Hosts : Restart(g)
      <3> SUFFICES ASSUME NEW h \in Hosts PROVE Roomy(h)'
        BY DEF SlotKept
      <3>1. completions'[h] \subseteq completions[h] /\ (job'[h].step # "none" => job[h].step # "none")
        BY <2>2 DEF Restart, TypeOK, NoJob
      <3> QED
        BY <3>1, RoomStays
    <2>3. CASE UNCHANGED <<completions, job>>
      BY <2>3 DEF SlotKept, Roomy
    <2>4. CASE Operator
      BY <2>3, <2>4 DEF Operator, Enqueue, SetPolicy, CancelForPolicy, PurgeForPrivacy, Expire,
                        Retain, agentVars
    <2>5. CASE \E r \in Running : Handler(r)
      BY <2>3, <2>5 DEF Handler, BeginReport, CompleteOne, RejectOne, DeliverReport, agentVars
    <2>6. CASE \/ \E r \in stray : AbandonStray(r)
               \/ \E h \in Hosts : \/ IngestSnapshot(h) \/ PurgeSnapshot(h) \/ ReplaceSession(h)
                                   \/ SendReport(h) \/ ReportFails(h) \/ ReceiveResponse(h)
                                   \/ ReceiveAcks(h)
               \/ Tick \/ UNCHANGED vars
      BY <2>3, <2>6 DEF AbandonStray, vars, agentVars, IngestSnapshot, PurgeSnapshot,
                        ReplaceSession, SendReport, ReportFails, ReceiveResponse, ReceiveAcks, Tick
    <2> QED
      BY <2>1, <2>2, <2>4, <2>5, <2>6 DEF Next
  <1>3. SlotKept => QueueFitsReport
    BY DEF SlotKept, Roomy, QueueFitsReport
  <1> QED
    BY <1>1, <1>2, <1>3, TypeCorrect, PTL DEF Spec
=============================================================================
