---------------------------- MODULE UpdateProofs ----------------------------
(***************************************************************************)
(* Proofs about the two ways a host is updated: an update an administrator *)
(* forces from the dashboard, and the agent's own updater.  They share no  *)
(* state; each has a strengthened invariant and its theorems after it.     *)
(***************************************************************************)
EXTENDS ForceUpdate, Updater, FiniteSetTheorems, TLAPS

(***************************************************************************)
(* A forced update's outbox, its ledger and its acknowledgement, for any   *)
(* number of ids, acceptances, faults and hours.                           *)
(***************************************************************************)

(* A live row and a pending command are one and the same acceptance.       *)
Matched ==
    \A i \in Ids :
        /\ outbox[i] # None /\ Fresh(outbox[i]) =>
              /\ registry[i] # None
              /\ ~registry[i].acked /\ registry[i].at = outbox[i].at
        /\ registry[i] # None /\ ~registry[i].acked /\ Fresh(registry[i]) =>
              outbox[i] # None /\ outbox[i].at = registry[i].at

(* Nothing is accepted ahead of the clock, and a completion under way is   *)
(* of an answer of this hour.                                              *)
Recent ==
    /\ \A i \in Ids : registry[i] # None => registry[i].at <= now
    /\ \A i \in Ids : outbox[i] # None => outbox[i].at <= now
    /\ agent.stage \in {"checking", "done"} => dealt[agent.id] = now
    /\ \A m \in mail : dealt[m.id] = now

(* A check that began within the window is in the ledger, at its hour.     *)
Recorded ==
    \A i \in Ids : began[i] # None =>
        \/ began[i] + Window < now
        \/ ledger[i] # None /\ ledger[i].at = began[i]

(* The ledger never has to drop an id that is still in its window.         *)
RoomForAll == Cardinality(Ids) < LedgerCap
-----------------------------------------------------------------------------
(* What the collections leave.                                             *)
LEMMA GcTypes ==
    ASSUME TypeOK, NEW reg \in [Ids -> Command \cup {None}]
    PROVE  /\ Gc(reg) \in [Ids -> Command \cup {None}]
           /\ \A i \in Ids : Gc(reg)[i] \in {reg[i], None}
           /\ \A i \in Ids : reg[i] # None /\ Fresh(reg[i]) => Gc(reg)[i] = reg[i]
           /\ \A i \in Ids : Gc(reg)[i] # None => Fresh(reg[i]) /\ Gc(reg)[i] = reg[i]
  BY DEF Gc

LEMMA PurgedTypes ==
    ASSUME TypeOK
    PROVE  /\ Purged(outbox) \in [Ids -> Row \cup {None}]
           /\ \A i \in Ids : Purged(outbox)[i] \in {outbox[i], None}
           /\ \A i \in Ids : outbox[i] # None /\ Fresh(outbox[i]) => Purged(outbox)[i] = outbox[i]
<1>1. ASSUME NEW i \in Ids, outbox[i] # None PROVE outbox[i].at \in Nat
  BY <1>1 DEF TypeOK, Row, Times
<1>2. now \in Nat /\ Window \in Nat
  BY ForceAssumption DEF ForceAssumption, TypeOK, Times
<1> QED
  BY <1>1, <1>2 DEF TypeOK, Purged, Unexpired, Fresh

(* A row less, or the same rows, stays within the capacity.                *)
LEMMA FewerRows ==
    ASSUME TypeOK, NEW rows \in [Ids -> Row \cup {None}],
           \A i \in Ids : rows[i] \in {outbox[i], None}
    PROVE  Cardinality(Rows(rows)) <= OutboxCap
<1>1. Rows(outbox) \subseteq Ids /\ Rows(rows) \subseteq Rows(outbox)
  BY DEF Rows
<1>2. IsFiniteSet(Rows(outbox))
  BY <1>1, ForceAssumption, FS_Subset DEF ForceAssumption
<1>3. Cardinality(Rows(rows)) <= Cardinality(Rows(outbox)) /\ Cardinality(Rows(rows)) \in Nat
      /\ Cardinality(Rows(outbox)) \in Nat
  BY <1>1, <1>2, FS_Subset, FS_CardinalityType
<1> QED
  BY <1>3, ForceAssumption DEF ForceAssumption, TypeOK

(* An accepted row finds its place.                                        *)
LEMMA OneMoreRow ==
    ASSUME TypeOK, NEW rows \in [Ids -> Row \cup {None}], NEW id \in Ids, NEW row \in Row,
           Cardinality(Rows(rows)) < OutboxCap
    PROVE  Cardinality(Rows([rows EXCEPT ![id] = row])) <= OutboxCap
<1> DEFINE new == Rows([rows EXCEPT ![id] = row])
<1>1. new \subseteq Rows(rows) \cup {id} /\ Rows(rows) \subseteq Ids
  BY DEF Rows
<1>2. IsFiniteSet(Rows(rows))
  BY <1>1, ForceAssumption, FS_Subset DEF ForceAssumption
<1>3. /\ IsFiniteSet(Rows(rows) \cup {id})
      /\ Cardinality(Rows(rows) \cup {id}) <= Cardinality(Rows(rows)) + 1
      /\ Cardinality(Rows(rows)) \in Nat /\ Cardinality(Rows(rows) \cup {id}) \in Nat
  <2>1. Cardinality(Rows(rows)) \in Nat
    BY <1>2, FS_CardinalityType
  <2>2. /\ IsFiniteSet(Rows(rows) \cup {id})
        /\ \/ Cardinality(Rows(rows) \cup {id}) = Cardinality(Rows(rows))
           \/ Cardinality(Rows(rows) \cup {id}) = Cardinality(Rows(rows)) + 1
    BY <1>2, FS_AddElement
  <2> QED
    BY <2>1, <2>2
<1>4. Cardinality(new) <= Cardinality(Rows(rows) \cup {id}) /\ Cardinality(new) \in Nat
  BY <1>1, <1>3, FS_Subset, FS_CardinalityType
<1> QED
  BY <1>3, <1>4, ForceAssumption DEF ForceAssumption

LEMMA FaultTypes ==
    ASSUME TypeOK, NEW k, Fault(k)
    PROVE  faults' \in 0..MaxFaults
  BY ForceAssumption DEF ForceAssumption, TypeOK, Fault
-----------------------------------------------------------------------------
LEMMA EnqueueTypes ==
    ASSUME TypeOK, NEW id \in Ids, Enqueue(id)
    PROVE  TypeOK'
<1> DEFINE row == [at |-> now, pos |-> accepts + 1]
<1>0. Gc(registry) \in [Ids -> Command \cup {None}]
  BY GcTypes DEF TypeOK
<1>1. CASE Accept(id)
  <2>1. accepts' \in 0..MaxAccepts /\ accepts + 1 \in 1..MaxAccepts
    BY <1>1, ForceAssumption DEF ForceAssumption, Accept, TypeOK
  <2>2. row \in Row /\ [at |-> now, pos |-> accepts + 1, acked |-> FALSE] \in Command
    BY <2>1 DEF Row, Command, TypeOK
  <2>3. outbox' \in [Ids -> Row \cup {None}] /\ Cardinality(Rows(outbox')) <= OutboxCap
    BY <1>1, <2>2, PurgedTypes, OneMoreRow DEF Accept
  <2>4. registry' \in [Ids -> Command \cup {None}] /\ accepted' \in [Ids -> Row \cup {None}]
    BY <1>0, <1>1, <2>2 DEF Accept, TypeOK
  <2> QED
    BY <1>1, <2>1, <2>3, <2>4 DEF Accept, TypeOK, disk, Rows
<1>2. CASE /\ \/ UNCHANGED faults \/ Fault("enqueue")
           /\ registry' = Gc(registry)
           /\ UNCHANGED <<now, outbox, disk, agent, mail, accepts, history>>
  <2>1. faults' \in 0..MaxFaults
    BY <1>2, FaultTypes DEF TypeOK
  <2> QED
    BY <1>0, <1>2, <2>1 DEF TypeOK, disk, history, Rows
<1> QED
  BY <1>1, <1>2 DEF Enqueue

LEMMA CompletionTypes ==
    ASSUME TypeOK, NEW m \in mail, HandleCompletion(m)
    PROVE  TypeOK'
<1>0. m.id \in Ids
  BY DEF TypeOK, Completion
<1>1. outbox' \in [Ids -> Row \cup {None}] /\ \A i \in Ids : outbox'[i] \in {outbox[i], None}
  <2>1. CASE UNCHANGED outbox
    BY <1>0, <2>1 DEF TypeOK
  <2>2. CASE Forget(m.id)
    <3>1. outbox' = [outbox EXCEPT ![m.id] = None]
      BY <2>2 DEF Forget
    <3> QED
      BY <1>0, <3>1 DEF TypeOK
  <2> QED
    BY <2>1, <2>2 DEF HandleCompletion, Acknowledge
<1>2. registry' \in [Ids -> Command \cup {None}]
  <2>1. registry[m.id] # None =>
            [registry EXCEPT ![m.id].acked = TRUE] \in [Ids -> Command \cup {None}]
    BY <1>0 DEF TypeOK, Command
  <2>2. registry[m.id] # None =>
            Gc([registry EXCEPT ![m.id].acked = TRUE]) \in [Ids -> Command \cup {None}]
    BY <2>1, GcTypes
  <2>3. Gc(registry) \in [Ids -> Command \cup {None}]
    BY GcTypes DEF TypeOK
  <2> QED
    BY <2>2, <2>3 DEF HandleCompletion, Acknowledge, Forget
<1>3. faults' \in 0..MaxFaults
  BY FaultTypes DEF HandleCompletion, Acknowledge, TypeOK
<1>4. Cardinality(Rows(outbox')) <= OutboxCap
  BY <1>1, FewerRows
<1> QED
  BY <1>1, <1>2, <1>3, <1>4 DEF HandleCompletion, TypeOK, disk, history, Rows

LEMMA DashboardTypes ==
    ASSUME TypeOK, DashboardRestart
    PROVE  TypeOK'
<1>1. Cardinality(Rows(outbox')) <= OutboxCap /\ outbox' \in [Ids -> Row \cup {None}]
  BY PurgedTypes, FewerRows DEF DashboardRestart
<1>2. registry' \in [Ids -> Command \cup {None}]
  <2>1. ASSUME NEW i \in Ids, Purged(outbox)[i] # None
        PROVE  [at |-> outbox[i].at, pos |-> outbox[i].pos, acked |-> FALSE] \in Command
    BY <2>1, PurgedTypes DEF TypeOK, Row, Command
  <2> QED
    BY <2>1 DEF DashboardRestart
<1>3. faults' \in 0..MaxFaults
  BY FaultTypes DEF DashboardRestart
<1> QED
  BY <1>1, <1>2, <1>3 DEF DashboardRestart, TypeOK, disk, history, Rows

LEMMA TriggerTypes ==
    ASSUME TypeOK, Trigger
    PROVE  TypeOK'
<1>1. agent.id \in Ids /\ dealt' \in [Ids -> Times \cup {None}]
  BY DEF Trigger, TypeOK
<1>2. PICK keep \in Pruned :
         \/ Begin(keep)
         \/ agent.id \in keep /\ Answer("duplicate") /\ UNCHANGED <<disk, began, faults>>
         \/ /\ agent.id \notin keep /\ Fault("ledger")
            /\ Answer("failed") /\ UNCHANGED <<disk, began>>
  BY DEF Trigger
<1>3. CASE Begin(keep)
  <2>1. checks' \in Nat /\ [at |-> now, nth |-> checks + 1] \in Instant
    BY <1>3 DEF Begin, TypeOK, Instant
  <2>2. ledger' \in [Ids -> Instant \cup {None}]
    BY <1>3, <2>1 DEF Begin, TypeOK
  <2> QED
    BY <1>1, <1>3, <2>1, <2>2 DEF Trigger, Begin, TypeOK, dashboard, Rows
<1>4. CASE \E o \in Outcomes : Answer(o) /\ UNCHANGED <<disk, began>> /\ faults' \in 0..MaxFaults
  <2>1. /\ agent' \in [stage : {"idle", "received", "checking", "done"},
                        id : Ids \cup {None}, outcome : Outcomes]
        /\ agent'.stage # "idle" => agent'.id \in Ids
    <3>1. PICK o \in Outcomes : agent' = [agent EXCEPT !.stage = "done", !.outcome = o]
      BY <1>4 DEF Answer
    <3> QED
      BY <1>1, <3>1 DEF TypeOK
  <2>2. UNCHANGED <<now, registry, outbox, mail, accepts, accepted, ledger, checks, began>>
    BY <1>4 DEF Trigger, dashboard, disk
  <2> QED
    BY <1>1, <1>4, <2>1, <2>2 DEF TypeOK, Rows
<1> QED
  BY <1>2, <1>3, <1>4, FaultTypes DEF Outcomes, TypeOK

LEMMA TypeStep ==
    ASSUME TypeOK, [Next]_vars
    PROVE  TypeOK'
<1>1. ASSUME NEW id \in Ids, Report(id) PROVE TypeOK'
  <2>1. registry' \in [Ids -> Command \cup {None}]
    BY <1>1, GcTypes DEF Report, Consume, TypeOK
  <2> QED
    BY <1>1, <2>1 DEF Report, Consume, Idle, Outcomes, TypeOK, disk, history, Rows
<1>2. CASE Check
  BY <1>2 DEF Check, Answer, TypeOK, dashboard, disk, history, Rows, Outcomes
<1>3. CASE Complete
  <2>1. [id |-> agent.id, outcome |-> agent.outcome] \in Completion
    BY <1>3 DEF Complete, TypeOK, Completion
  <2>2. mail' \subseteq Completion /\ faults' \in 0..MaxFaults
    BY <1>3, <2>1, FaultTypes DEF Complete, TypeOK
  <2> QED
    BY <1>3, <2>2 DEF Complete, Idle, Outcomes, TypeOK, dashboard, disk, history, Rows
<1>4. CASE AgentRestart
  BY <1>4, FaultTypes DEF AgentRestart, Idle, Outcomes, TypeOK, dashboard, disk, history, Rows
<1>5. CASE Tick
  BY <1>5, ForceAssumption DEF ForceAssumption, Tick, TypeOK, Times, Row, Command, Instant,
     dashboard, disk, history, Rows
<1>6. CASE UNCHANGED vars
  BY <1>6 DEF vars, TypeOK, dashboard, disk, history, Rows
<1> QED
  BY <1>1, <1>2, <1>3, <1>4, <1>5, <1>6, EnqueueTypes, CompletionTypes, DashboardTypes,
     TriggerTypes DEF Next

(* What the registry's entries and the outbox's rows are compared with.    *)
LEMMA Clock ==
    ASSUME TypeOK
    PROVE  /\ now \in Nat /\ Window \in Nat
           /\ \A i \in Ids : registry[i] # None => registry[i].at \in Nat /\ registry[i].acked \in BOOLEAN
           /\ \A i \in Ids : outbox[i] # None => outbox[i].at \in Nat
           /\ \A i \in Ids : began[i] # None => began[i] \in Nat
           /\ \A i \in Ids : dealt[i] # None => dealt[i] \in Nat
           /\ \A i \in Ids : ledger[i] # None => ledger[i].at \in Nat
           /\ now # None
  BY ForceAssumption DEF ForceAssumption, TypeOK, Times, Row, Command, Instant
-----------------------------------------------------------------------------
(* Every step of the dashboard keeps the rows and the commands together.   *)
LEMMA MatchedStep ==
    ASSUME TypeOK, Matched, [Next]_vars
    PROVE  Matched'
<1>0. /\ \A i \in Ids : Gc(registry)[i] \in {registry[i], None}
      /\ \A i \in Ids : registry[i] # None /\ Fresh(registry[i]) => Gc(registry)[i] = registry[i]
      /\ \A i \in Ids : Gc(registry)[i] # None => Fresh(registry[i]) /\ Gc(registry)[i] = registry[i]
  BY GcTypes DEF TypeOK
<1>1. ASSUME NEW id \in Ids, Accept(id) PROVE Matched'
  <2>1. /\ \A i \in Ids \ {id} : outbox'[i] = Purged(outbox)[i] /\ registry'[i] = Gc(registry)[i]
        /\ outbox'[id] = [at |-> now, pos |-> accepts + 1]
        /\ registry'[id] = [at |-> now, pos |-> accepts + 1, acked |-> FALSE]
        /\ now' = now
    BY <1>1, GcTypes, PurgedTypes DEF Accept, TypeOK
  <2>2. outbox'[id] # None /\ registry'[id] # None
    <3>1. accepts + 1 \in 1..MaxAccepts /\ now \in Times
      BY <1>1, ForceAssumption DEF ForceAssumption, Accept, TypeOK
    <3>2. [at |-> now, pos |-> accepts + 1] \in Row
          /\ [at |-> now, pos |-> accepts + 1, acked |-> FALSE] \in Command
      BY <3>1 DEF Row, Command
    <3> QED
      BY <2>1, <3>2, ForceAssumption DEF ForceAssumption, Row, Command, Times
  <2> QED
    BY <1>0, <2>1, <2>2, PurgedTypes DEF Matched, Fresh
<1>2. CASE registry' = Gc(registry) /\ UNCHANGED <<now, outbox>>
  BY <1>0, <1>2 DEF Matched, Fresh
<1>3. ASSUME NEW id \in Ids, Forget(id), now' = now PROVE Matched'
  <2>1. CASE registry[id] = None
    BY <1>0, <1>3, <2>1 DEF Forget, Matched, Fresh, TypeOK
  <2>2. CASE registry[id] # None
    <3> DEFINE reg == [registry EXCEPT ![id].acked = TRUE]
    <3>1. reg \in [Ids -> Command \cup {None}]
      BY <2>2 DEF TypeOK, Command
    <3>2. /\ \A i \in Ids : Gc(reg)[i] \in {reg[i], None}
          /\ \A i \in Ids : reg[i] # None /\ Fresh(reg[i]) => Gc(reg)[i] = reg[i]
      BY <3>1, GcTypes
    <3>3. registry' = Gc(reg) /\ outbox' = [outbox EXCEPT ![id] = None] /\ reg[id].acked
          /\ \A i \in Ids \ {id} : reg[i] = registry[i]
      BY <1>3, <2>2 DEF Forget, TypeOK, Command
    <3> HIDE DEF reg
    <3>4. ASSUME NEW i \in Ids, i # id
          PROVE  outbox'[i] = outbox[i] /\ registry'[i] \in {registry[i], None}
                 /\ (registry[i] # None /\ Fresh(registry[i]) => registry'[i] = registry[i])
      BY <3>2, <3>3, <3>4 DEF TypeOK
    <3>5. outbox'[id] = None /\ (registry'[id] # None => registry'[id].acked)
      BY <3>2, <3>3 DEF TypeOK
    <3> QED
      BY <1>3, <3>4, <3>5 DEF Matched, Fresh
  <2> QED
    BY <2>1, <2>2
<1>4. CASE DashboardRestart
  <2>1. now' = now /\ outbox' = Purged(outbox)
    BY <1>4 DEF DashboardRestart
  <2>2. ASSUME NEW i \in Ids
        PROVE  IF Purged(outbox)[i] = None THEN registry'[i] = None
               ELSE registry'[i] = [at |-> outbox[i].at, pos |-> outbox[i].pos, acked |-> FALSE]
    BY <1>4 DEF DashboardRestart
  <2>3. ASSUME NEW i \in Ids, Purged(outbox)[i] # None
        PROVE  registry'[i] # None /\ outbox'[i] = outbox[i]
    <3>1. [at |-> outbox[i].at, pos |-> outbox[i].pos, acked |-> FALSE] \in Command
      BY <2>3, PurgedTypes DEF TypeOK, Row, Command
    <3> QED
      BY <2>1, <2>2, <2>3, <3>1, PurgedTypes, ForceAssumption DEF ForceAssumption, Command, Times
  <2>4. ASSUME NEW i \in Ids
        PROVE  \/ outbox'[i] = None /\ registry'[i] = None
               \/ /\ registry'[i] # None /\ outbox'[i] # None
                  /\ ~registry'[i].acked /\ registry'[i].at = outbox'[i].at
    <3>1. CASE Purged(outbox)[i] = None
      BY <2>1, <2>2, <3>1
    <3>2. CASE Purged(outbox)[i] # None
      <4>1. registry'[i] = [at |-> outbox[i].at, pos |-> outbox[i].pos, acked |-> FALSE]
        BY <2>2, <3>2
      <4>2. registry'[i] # None /\ outbox'[i] = outbox[i] /\ outbox'[i] # None
        BY <2>1, <2>3, <3>2
      <4> QED
        BY <4>1, <4>2
    <3> QED
      BY <3>1, <3>2
  <2> QED
    BY <2>4 DEF Matched
<1>5. CASE Tick
  <2>1. UNCHANGED <<registry, outbox>> /\ now' = now + 1
    BY <1>5 DEF Tick, dashboard
  <2>2. ASSUME NEW i \in Ids, outbox[i] # None, Fresh(outbox[i])' PROVE Fresh(outbox[i])
    BY <2>1, <2>2, Clock DEF Fresh
  <2>3. ASSUME NEW i \in Ids, registry[i] # None, Fresh(registry[i])' PROVE Fresh(registry[i])
    BY <2>1, <2>3, Clock DEF Fresh
  <2> QED
    BY <2>1, <2>2, <2>3 DEF Matched, Fresh
<1>6. CASE UNCHANGED <<now, dashboard>>
  BY <1>6 DEF dashboard, Matched, Fresh
<1>7. ASSUME NEW id \in Ids, Enqueue(id) \/ Report(id) PROVE Matched'
  BY <1>1, <1>2, <1>7 DEF Enqueue, Report, Consume
<1>8. ASSUME NEW m \in mail, HandleCompletion(m) PROVE Matched'
  <2>1. m.id \in Ids
    BY DEF TypeOK, Completion
  <2> QED
    BY <1>2, <1>3, <1>8, <2>1 DEF HandleCompletion, Acknowledge
<1> QED
  BY <1>4, <1>5, <1>6, <1>7, <1>8 DEF Next, vars, dashboard, Trigger, Check, Complete, AgentRestart
-----------------------------------------------------------------------------
(* A step of the dashboard adds no command or row ahead of the clock, and  *)
(* acknowledges only what a completion names.                              *)
LEMMA DashboardStep ==
    ASSUME TypeOK, Recent, now' = now,
           \/ \E id \in Ids : Enqueue(id) \/ Report(id)
           \/ \E m \in mail : HandleCompletion(m)
           \/ DashboardRestart
    PROVE  /\ \A i \in Ids : registry'[i] # None => registry'[i].at <= now
           /\ \A i \in Ids : outbox'[i] # None => outbox'[i].at <= now
           /\ \A i \in Ids : registry'[i] # None /\ registry'[i].acked =>
                  \/ registry[i] # None /\ registry'[i] = registry[i]
                  \/ dealt[i] = now
           /\ mail' \subseteq mail /\ UNCHANGED dealt
<1>0. /\ \A i \in Ids : Gc(registry)[i] \in {registry[i], None}
      /\ \A i \in Ids : Purged(outbox)[i] \in {outbox[i], None}
  BY GcTypes, PurgedTypes DEF TypeOK
<1>1. ASSUME NEW id \in Ids, Accept(id)
      PROVE  /\ \A i \in Ids \ {id} : registry'[i] = Gc(registry)[i] /\ outbox'[i] = Purged(outbox)[i]
             /\ registry'[id] = [at |-> now, pos |-> accepts + 1, acked |-> FALSE]
             /\ outbox'[id] = [at |-> now, pos |-> accepts + 1]
             /\ UNCHANGED <<mail, dealt>>
  BY <1>1, GcTypes, PurgedTypes DEF Accept, TypeOK
<1>2. CASE \E id \in Ids : Accept(id)
  BY <1>0, <1>1, <1>2, Clock DEF Recent
<1>3. CASE registry' = Gc(registry) /\ UNCHANGED outbox /\ UNCHANGED dealt /\ mail' \subseteq mail
  BY <1>0, <1>3 DEF Recent
<1>4. ASSUME NEW m \in mail, HandleCompletion(m), Forget(m.id) PROVE
          /\ \A i \in Ids : outbox'[i] \in {outbox[i], None}
          /\ \A i \in Ids \ {m.id} : registry'[i] \in {registry[i], None}
          /\ registry'[m.id] # None => registry'[m.id].at = registry[m.id].at /\ registry[m.id] # None
          /\ dealt[m.id] = now /\ m.id \in Ids /\ UNCHANGED dealt /\ mail' \subseteq mail
  <2>1. m.id \in Ids /\ dealt[m.id] = now
    BY DEF TypeOK, Completion, Recent
  <2>2. CASE registry[m.id] = None
    <3>1. registry' = Gc(registry) /\ outbox' = [outbox EXCEPT ![m.id] = None]
      BY <1>4, <2>2 DEF Forget
    <3>2. UNCHANGED dealt /\ mail' \subseteq mail
      BY <1>4 DEF HandleCompletion, history
    <3> QED
      BY <1>0, <2>1, <2>2, <3>1, <3>2 DEF TypeOK
  <2>3. CASE registry[m.id] # None
    <3> DEFINE reg == [registry EXCEPT ![m.id].acked = TRUE]
    <3>1. reg \in [Ids -> Command \cup {None}] /\ reg[m.id].at = registry[m.id].at
          /\ \A i \in Ids \ {m.id} : reg[i] = registry[i]
      BY <2>1, <2>3 DEF TypeOK, Command
    <3>2. registry' = Gc(reg) /\ outbox' = [outbox EXCEPT ![m.id] = None]
      BY <1>4, <2>3 DEF Forget
    <3> HIDE DEF reg
    <3>3. \A i \in Ids : Gc(reg)[i] \in {reg[i], None}
      BY <3>1, GcTypes
    <3> QED
      BY <1>4, <2>1, <2>3, <3>1, <3>2, <3>3 DEF HandleCompletion, TypeOK, history
  <2> QED
    BY <2>2, <2>3
<1>5. CASE \E m \in mail : HandleCompletion(m) /\ Forget(m.id)
  BY <1>4, <1>5 DEF Recent
<1>6. CASE DashboardRestart
  <2>1. outbox' = Purged(outbox) /\ UNCHANGED dealt /\ mail' = {}
    BY <1>6 DEF DashboardRestart, history
  <2>2. ASSUME NEW i \in Ids, registry'[i] # None
        PROVE  /\ Purged(outbox)[i] # None
               /\ registry'[i] = [at |-> outbox[i].at, pos |-> outbox[i].pos, acked |-> FALSE]
    BY <1>6, <2>2 DEF DashboardRestart
  <2>3. ASSUME NEW i \in Ids, registry'[i] # None
        PROVE  outbox[i] # None /\ registry'[i].at = outbox[i].at /\ ~registry'[i].acked
    <3>1. registry'[i] = [at |-> outbox[i].at, pos |-> outbox[i].pos, acked |-> FALSE]
      BY <2>2, <2>3
    <3>2. Purged(outbox)[i] # None
      BY <2>2, <2>3
    <3> QED
      BY <1>0, <3>1, <3>2
  <2> QED
    BY <1>0, <2>1, <2>3 DEF Recent
<1> QED
  BY <1>2, <1>3, <1>5, <1>6 DEF Enqueue, Report, Consume, HandleCompletion, Acknowledge, history

LEMMA RecentStep ==
    ASSUME TypeOK, Recent, AcknowledgedIsAnswered, [Next]_vars
    PROVE  Recent' /\ AcknowledgedIsAnswered'
<1>1. CASE \/ \E id \in Ids : Enqueue(id) \/ Report(id)
           \/ \E m \in mail : HandleCompletion(m)
           \/ DashboardRestart
  <2>1. now' = now
    BY <1>1 DEF Enqueue, Accept, Report, HandleCompletion, DashboardRestart
  <2>2. agent' = agent \/ agent'.stage = "received"
    BY <1>1 DEF Enqueue, Accept, Report, Consume, Idle, HandleCompletion, DashboardRestart
  <2>3. /\ \A i \in Ids : registry'[i] # None => registry'[i].at <= now
        /\ \A i \in Ids : outbox'[i] # None => outbox'[i].at <= now
        /\ \A i \in Ids : registry'[i] # None /\ registry'[i].acked =>
               \/ registry[i] # None /\ registry'[i] = registry[i]
               \/ dealt[i] = now
        /\ mail' \subseteq mail /\ UNCHANGED dealt
    BY <1>1, <2>1, DashboardStep
  <2>4. Recent'
    BY <2>1, <2>2, <2>3 DEF Recent
  <2>5. ASSUME NEW i \in Ids, registry'[i] # None, registry'[i].acked
        PROVE  Answered(i, registry'[i].at)
    <3>1. CASE registry[i] # None /\ registry'[i] = registry[i]
      BY <2>5, <3>1 DEF AcknowledgedIsAnswered
    <3>2. CASE dealt[i] = now
      <4>1. registry'[i].at <= now /\ registry'[i].at \in Nat
        BY <2>3, <2>5, TypeStep, Clock DEF TypeOK, Command, Times
      <4> QED
        BY <3>2, <4>1, Clock DEF Answered
    <3> QED
      BY <2>3, <2>5, <3>1, <3>2
  <2> QED
    BY <2>3, <2>4, <2>5 DEF AcknowledgedIsAnswered, Answered
<1>2. CASE Trigger
  <2>1. agent.id \in Ids /\ dealt' = [dealt EXCEPT ![agent.id] = now]
        /\ UNCHANGED <<now, registry, outbox, mail>> /\ agent'.id = agent.id
    BY <1>2 DEF Trigger, Begin, Answer, TypeOK, dashboard
  <2>2. Recent'
    <3>1. \A m \in mail : dealt'[m.id] = now
      BY <2>1 DEF Recent, TypeOK, Completion
    <3> QED
      BY <2>1, <3>1 DEF Recent, TypeOK
  <2>3. ASSUME NEW i \in Ids, registry[i] # None, registry[i].acked
        PROVE  dealt'[i] # None /\ dealt'[i] + Window >= registry[i].at
    <3>1. CASE i = agent.id
      BY <2>1, <2>3, <3>1, Clock DEF Recent, TypeOK
    <3>2. CASE i # agent.id
      BY <2>1, <2>3, <3>2 DEF AcknowledgedIsAnswered, Answered, TypeOK
    <3> QED
      BY <3>1, <3>2
  <2> QED
    BY <2>1, <2>2, <2>3 DEF AcknowledgedIsAnswered, Answered
<1>3. CASE Tick
  BY <1>3, Clock DEF Tick, Idle, Recent, AcknowledgedIsAnswered, Answered, dashboard, history
<1>4. CASE Check
  <2>1. agent'.id = agent.id /\ agent.stage = "checking"
    BY <1>4 DEF Check, Answer, TypeOK
  <2> QED
    BY <1>4, <2>1 DEF Check, Recent, AcknowledgedIsAnswered, Answered, dashboard, history
<1>5. CASE Complete
  BY <1>5 DEF Complete, Idle, Recent, AcknowledgedIsAnswered, Answered, dashboard, history
<1>6. CASE AgentRestart
  BY <1>6 DEF AgentRestart, Idle, Recent, AcknowledgedIsAnswered, Answered, dashboard, history
<1>7. CASE UNCHANGED vars
  BY <1>7 DEF vars, Recent, AcknowledgedIsAnswered, Answered, dashboard, history
<1> QED
  BY <1>1, <1>2, <1>3, <1>4, <1>5, <1>6, <1>7 DEF Next
-----------------------------------------------------------------------------
(* With room for every id, the collection drops only ids out of the window.*)
LEMMA NothingEvicted ==
    ASSUME TypeOK, RoomForAll, NEW keep \in Pruned
    PROVE  keep = Remembered
<1>1. Remembered \subseteq Ids /\ IsFiniteSet(Ids)
  BY ForceAssumption DEF ForceAssumption, Remembered
<1>2. /\ IsFiniteSet(Remembered) /\ Cardinality(Remembered) <= Cardinality(Ids)
      /\ Cardinality(Remembered) \in Nat /\ Cardinality(Ids) \in Nat
  BY <1>1, FS_Subset, FS_CardinalityType
<1>3. Cardinality(Remembered) < LedgerCap
  BY <1>2, ForceAssumption DEF ForceAssumption, RoomForAll
<1>4. keep \subseteq Remembered /\ Cardinality(keep) = Cardinality(Remembered)
  BY <1>3 DEF Pruned
<1> QED
  BY <1>2, <1>4, FS_Subset

(* What is recorded stays recorded while it is in its window.              *)
LEMMA RecordedStep ==
    ASSUME TypeOK, RoomForAll, Recorded, [Next]_vars
    PROVE  Recorded'
<1>1. CASE UNCHANGED <<now, ledger, began>>
  BY <1>1 DEF Recorded
<1>2. CASE Tick
  <2>1. now' = now + 1 /\ UNCHANGED <<ledger, began>>
    BY <1>2 DEF Tick, disk, history
  <2> QED
    BY <2>1, Clock DEF Recorded
<1>3. ASSUME NEW keep \in Pruned, Begin(keep), now' = now, agent.stage = "received" PROVE Recorded'
  <2>1. keep = Remembered /\ agent.id \in Ids
    BY <1>3, NothingEvicted DEF TypeOK
  <2>2. ledger' = [i \in Ids |-> IF i = agent.id THEN [at |-> now, nth |-> checks + 1]
                                 ELSE IF i \in keep THEN ledger[i] ELSE None]
        /\ began' = [began EXCEPT ![agent.id] = now]
    BY <1>3 DEF Begin
  <2>3. ledger'[agent.id] # None /\ ledger'[agent.id].at = now /\ began'[agent.id] = now
    <3>1. [at |-> now, nth |-> checks + 1] \in Instant
      BY DEF TypeOK, Instant
    <3> QED
      BY <2>1, <2>2, <3>1, ForceAssumption DEF ForceAssumption, TypeOK, Instant, Times
  <2>4. ASSUME NEW i \in Ids, i # agent.id, began'[i] # None
        PROVE  began'[i] + Window < now \/ (ledger'[i] # None /\ ledger'[i].at = began'[i])
    <3>1. began'[i] = began[i] /\ ledger'[i] = IF i \in keep THEN ledger[i] ELSE None
      BY <2>1, <2>2, <2>4 DEF TypeOK
    <3>2. CASE i \in keep
      BY <2>4, <3>1, <3>2 DEF Recorded
    <3>3. CASE i \notin keep
      BY <2>1, <2>4, <3>1, <3>3, Clock DEF Recorded, Remembered
    <3> QED
      BY <3>2, <3>3
  <2> QED
    BY <1>3, <2>3, <2>4 DEF Recorded
<1>4. CASE Trigger
  BY <1>1, <1>3, <1>4 DEF Trigger, disk
<1> QED
  BY <1>1, <1>2, <1>4 DEF Next, vars, disk, history, Enqueue, Accept, Report, HandleCompletion,
     Check, Complete, DashboardRestart, AgentRestart
-----------------------------------------------------------------------------
ForceInv == TypeOK /\ Matched /\ Recent /\ AcknowledgedIsAnswered

LEMMA ForceHolds == Spec => []ForceInv
<1>1. Init => ForceInv
  <2> SUFFICES ASSUME Init PROVE ForceInv
    OBVIOUS
  <2>1. Rows(outbox) = {}
    BY DEF Init, Empty, Rows
  <2>2. Cardinality(Rows(outbox)) <= OutboxCap
    BY <2>1, FS_EmptySet, ForceAssumption DEF ForceAssumption
  <2>3. TypeOK
    BY <2>2, ForceAssumption DEF ForceAssumption, Init, TypeOK, Empty, Idle, Times, Outcomes
  <2> QED
    BY <2>3 DEF Init, Empty, Idle, ForceInv, Matched, Recent, AcknowledgedIsAnswered
<1>2. ForceInv /\ [Next]_vars => ForceInv'
  BY TypeStep, MatchedStep, RecentStep DEF ForceInv
<1> QED
  BY <1>1, <1>2, PTL DEF Spec

(* Both processes' state is well formed, and the outbox stays within its   *)
(* capacity, for any number of ids (force_update_outbox.go:67-90).         *)
THEOREM ForceTypes == Spec => []TypeOK
  BY ForceHolds, PTL DEF ForceInv

(* What the next report would hand over and what a restarted dashboard     *)
(* would load are the same commands (forceupdate.go:78-96, 132-235).       *)
THEOREM OutboxIsTheRegistry == Spec => []OutboxIsPending
<1>1. ForceInv => OutboxIsPending
  BY DEF ForceInv, Matched, OutboxIsPending, Pending, Fresh
<1> QED
  BY <1>1, ForceHolds, PTL

(* No command is acknowledged that its agent has not answered within the   *)
(* window (forceupdate.go:161-209, check.go:402-411).                      *)
THEOREM NoSilentAcknowledgement == Spec => []AcknowledgedIsAnswered
  BY ForceHolds, PTL DEF ForceInv

(* While the ledger has room for every id in use, no command starts the    *)
(* updater twice within the window, whatever is lost, replayed or          *)
(* restarted (updater_windows.go:167-212).                                 *)
THEOREM NoSecondRun == ASSUME RoomForAll PROVE Spec => AtMostOnce
<1>1. Init => Recorded
  BY DEF Init, Empty, Recorded
<1>2. TypeOK /\ Recorded /\ [Next]_vars => Recorded'
  BY RoomForAll, RecordedStep
<1>3. ASSUME TypeOK, Recorded, [Next]_vars
      PROVE  [\A id \in Ids : Starts(id) =>
                  began[id] = None \/ began[id] + Window < now]_vars
  <2>1. ASSUME NEW id \in Ids, Starts(id) PROVE began[id] = None \/ began[id] + Window < now
    <3>1. agent.stage = "received" /\ agent.id = id /\ agent'.stage = "checking"
      BY <2>1 DEF Starts
    <3>2. Trigger
      <4>1. ASSUME NEW i \in Ids, Enqueue(i) \/ Report(i) PROVE FALSE
        BY <3>1, <4>1 DEF Enqueue, Accept, Report
      <4>2. ASSUME NEW m \in mail, HandleCompletion(m) PROVE FALSE
        BY <3>1, <4>2 DEF HandleCompletion
      <4>3. CASE Check \/ Complete \/ Tick \/ UNCHANGED vars
        BY <3>1, <4>3 DEF Check, Complete, Tick, vars
      <4>4. CASE DashboardRestart \/ AgentRestart
        BY <3>1, <4>4 DEF DashboardRestart, AgentRestart, Idle
      <4> QED
        BY <1>3, <4>1, <4>2, <4>3, <4>4 DEF Next
    <3>3. id \notin Remembered
      <4>1. PICK keep \in Pruned : Begin(keep)
        BY <1>3, <3>1, <3>2 DEF Trigger, Answer, TypeOK
      <4> QED
        BY <1>3, <3>1, <4>1, NothingEvicted, RoomForAll DEF Begin
    <3>4. ledger[id] = None \/ ledger[id].at + Window < now
      <4>1. ledger[id] # None => ~(ledger[id].at + Window >= now)
        BY <3>3 DEF Remembered
      <4>2. ledger[id] # None => ledger[id].at + Window \in Nat
        BY <1>3, Clock
      <4> QED
        BY <1>3, <4>1, <4>2, Clock
    <3> QED
      BY <1>3, <3>4, Clock DEF Recorded
  <2> QED
    BY <2>1
<1> QED
  BY <1>1, <1>2, <1>3, ForceTypes, PTL DEF Spec, AtMostOnce
-----------------------------------------------------------------------------
(* A command accepted within the window is still in the registry.  Only a  *)
(* restart of the dashboard forgets it, and only once it was answered.     *)
Live(i) == accepted[i] # None /\ accepted[i].at + Window > now
Kept(i) == registry[i] # None /\ registry[i].at = accepted[i].at
OnTheBooks ==
    \A i \in Ids : accepted[i] # None =>
        /\ accepted[i].at <= now
        /\ Live(i) => Kept(i) \/ ("restart" \in Faults /\ Answered(i, accepted[i].at))

LEMMA NoneIsNoRow == None \notin Command /\ None \notin Row
  BY ForceAssumption DEF ForceAssumption, Command, Row, Times

(* A handler that is not the restart leaves a live command where it is.    *)
LEMMA RegistryKeeps ==
    ASSUME TypeOK, [Next]_vars, ~DashboardRestart,
           NEW i \in Ids, registry[i] # None, Fresh(registry[i])
    PROVE  registry'[i] # None /\ registry'[i].at = registry[i].at
<1>0. Gc(registry)[i] = registry[i]
  BY GcTypes DEF TypeOK
<1>1. ASSUME NEW id \in Ids, Accept(id) PROVE registry'[i] = registry[i]
  <2>1. id # i
    BY <1>0, <1>1 DEF Accept, Duplicate
  <2> QED
    BY <1>0, <1>1, <2>1 DEF Accept, Gc
<1>2. ASSUME NEW id \in Ids, Forget(id)
      PROVE  registry'[i] # None /\ registry'[i].at = registry[i].at
  <2>1. CASE registry[id] = None
    BY <1>0, <1>2, <2>1 DEF Forget
  <2>2. CASE registry[id] # None
    <3> DEFINE reg == [registry EXCEPT ![id].acked = TRUE]
    <3>1. reg \in [Ids -> Command \cup {None}] /\ reg[i].at = registry[i].at
          /\ (i # id => reg[i] = registry[i]) /\ reg[id].acked = TRUE /\ reg[id] \in Command
      BY <2>2 DEF TypeOK, Command
    <3>2. registry' = Gc(reg)
      BY <1>2, <2>2 DEF Forget
    <3>3. reg[i] # None
      <4>1. reg[i] \in Command
        BY <3>1 DEF TypeOK
      <4> QED
        BY <4>1, NoneIsNoRow
    <3>4. Fresh(reg[i])
      BY <3>1 DEF Fresh
    <3> HIDE DEF reg
    <3> QED
      BY <3>1, <3>2, <3>3, <3>4, GcTypes
  <2> QED
    BY <2>1, <2>2
<1>3. CASE registry' = Gc(registry) \/ UNCHANGED registry
  BY <1>0, <1>3
<1>4. ASSUME NEW m \in mail, HandleCompletion(m)
      PROVE  registry'[i] # None /\ registry'[i].at = registry[i].at
  <2>1. m.id \in Ids
    BY DEF TypeOK, Completion
  <2> QED
    BY <1>2, <1>3, <1>4, <2>1 DEF HandleCompletion, Acknowledge
<1>5. ASSUME NEW id \in Ids, Enqueue(id) \/ Report(id)
      PROVE  registry'[i] # None /\ registry'[i].at = registry[i].at
  BY <1>1, <1>3, <1>5 DEF Enqueue, Report, Consume
<1>6. CASE Trigger \/ Check \/ Complete \/ AgentRestart \/ Tick \/ UNCHANGED vars
  BY <1>3, <1>6 DEF Trigger, Check, Complete, AgentRestart, Tick, dashboard, vars
<1> QED
  BY <1>4, <1>5, <1>6 DEF Next

(* A restarted dashboard has what was not acknowledged in its outbox.      *)
LEMMA RestartKeeps ==
    ASSUME TypeOK, Matched, DashboardRestart,
           NEW i \in Ids, registry[i] # None, Fresh(registry[i]), ~registry[i].acked
    PROVE  registry'[i] # None /\ registry'[i].at = registry[i].at
<1>1. outbox[i] # None /\ outbox[i].at = registry[i].at /\ Fresh(outbox[i])
  BY DEF Matched, Fresh
<1>2. Purged(outbox)[i] = outbox[i]
  BY <1>1, PurgedTypes
<1>3. registry'[i] = [at |-> outbox[i].at, pos |-> outbox[i].pos, acked |-> FALSE]
  BY <1>1, <1>2 DEF DashboardRestart
<1>4. [at |-> outbox[i].at, pos |-> outbox[i].pos, acked |-> FALSE] \in Command
  BY <1>1 DEF TypeOK, Row, Command
<1>5. registry'[i] \in Command
  BY <1>3, <1>4, Zenon
<1>6. registry'[i].at = outbox[i].at
  BY <1>3
<1> QED
  BY <1>1, <1>5, <1>6, NoneIsNoRow

(* The last acceptance of a command changes when it is accepted.           *)
LEMMA AcceptStep ==
    ASSUME TypeOK, [Next]_vars, NEW i \in Ids
    PROVE  \/ accepted'[i] = accepted[i]
           \/ /\ Accept(i) /\ now' = now
              /\ accepted'[i].at = now /\ registry'[i] # None /\ registry'[i].at = now
<1>1. ASSUME NEW id \in Ids, Accept(id), accepted'[i] # accepted[i]
      PROVE  /\ Accept(i) /\ now' = now
             /\ accepted'[i].at = now /\ registry'[i] # None /\ registry'[i].at = now
  <2>1. id = i /\ now' = now
    BY <1>1 DEF Accept, TypeOK
  <2>2. Gc(registry) \in [Ids -> Command \cup {None}]
    BY GcTypes DEF TypeOK
  <2>3. /\ accepted'[i] = [at |-> now, pos |-> accepts + 1]
        /\ registry'[i] = [at |-> now, pos |-> accepts + 1, acked |-> FALSE]
    BY <1>1, <2>1, <2>2 DEF Accept, TypeOK
  <2>4. accepts + 1 \in 1..MaxAccepts
    BY <1>1, ForceAssumption DEF Accept, TypeOK, ForceAssumption
  <2>5. [at |-> now, pos |-> accepts + 1, acked |-> FALSE] \in Command
    BY <2>4 DEF TypeOK, Command
  <2>6. registry'[i] \in Command
    BY <2>3, <2>5, Zenon
  <2>7. registry'[i].at = now /\ accepted'[i].at = now
    BY <2>3
  <2> QED
    BY <1>1, <2>1, <2>6, <2>7, NoneIsNoRow
<1>2. ASSUME NEW id \in Ids, Enqueue(id), ~Accept(id) PROVE UNCHANGED accepted
  BY <1>2 DEF Enqueue, history
<1>3. CASE \/ \E id \in Ids : Report(id)
           \/ \E m \in mail : HandleCompletion(m)
           \/ Trigger \/ Check \/ Complete \/ DashboardRestart \/ AgentRestart \/ Tick \/ UNCHANGED vars
  BY <1>3 DEF Report, HandleCompletion, Trigger, Check, Complete, DashboardRestart, AgentRestart,
              Tick, history, vars
<1> QED
  BY <1>1, <1>2, <1>3 DEF Next

(* What was answered for a command stays answered.                         *)
LEMMA AnswerStays ==
    ASSUME TypeOK, [Next]_vars, NEW i \in Ids, NEW at \in Nat, at <= now, Answered(i, at)
    PROVE  dealt'[i] # None /\ dealt'[i] + Window >= at
<1>1. dealt'[i] = dealt[i] \/ dealt'[i] = now
  BY DEF TypeOK, Next, Enqueue, Accept, Report, HandleCompletion, Trigger, Check, Complete,
         DashboardRestart, AgentRestart, Tick, history, vars
<1> QED
  BY <1>1, Clock DEF Answered

LEMMA BooksStep ==
    ASSUME TypeOK, Matched, AcknowledgedIsAnswered, OnTheBooks, [Next]_vars
    PROVE  OnTheBooks'
<1> SUFFICES ASSUME NEW i \in Ids, accepted'[i] # None
             PROVE  /\ accepted'[i].at <= now'
                    /\ Live(i)' => \/ Kept(i)'
                                   \/ "restart" \in Faults /\ dealt'[i] # None
                                      /\ dealt'[i] + Window >= accepted'[i].at
  BY DEF OnTheBooks, Answered
<1>1. now' \in Nat /\ now \in Nat /\ Window \in Nat /\ now <= now'
  <2>1. now' = now \/ now' = now + 1
    BY DEF Next, Enqueue, Accept, Report, HandleCompletion, Trigger, Check, Complete,
           DashboardRestart, AgentRestart, Tick, vars
  <2> QED
    BY <2>1, Clock
<1>2. CASE accepted'[i] # accepted[i]
  BY <1>1, <1>2, AcceptStep DEF Kept
<1>3. CASE accepted'[i] = accepted[i]
  <2>1. accepted[i].at \in Nat /\ accepted[i].at <= now
    BY <1>3 DEF TypeOK, Row, Times, OnTheBooks
  <2>2. SUFFICES ASSUME Live(i)'
                 PROVE  \/ Kept(i)'
                        \/ "restart" \in Faults /\ dealt'[i] # None
                           /\ dealt'[i] + Window >= accepted[i].at
    BY <1>1, <1>3, <2>1
  <2>3. Live(i)
    BY <1>1, <1>3, <2>1, <2>2 DEF Live
  <2>4. CASE "restart" \in Faults /\ Answered(i, accepted[i].at)
    BY <2>1, <2>4, AnswerStays
  <2>5. CASE Kept(i)
    <3>1. registry[i] # None /\ Fresh(registry[i])
      BY <2>3, <2>5 DEF Kept, Live, Fresh
    <3>2. CASE ~DashboardRestart
      BY <1>3, <2>5, <3>1, <3>2, RegistryKeeps DEF Kept
    <3>3. CASE DashboardRestart /\ ~registry[i].acked
      BY <1>3, <2>5, <3>1, <3>3, RestartKeeps DEF Kept
    <3>4. CASE DashboardRestart /\ registry[i].acked
      <4>1. "restart" \in Faults
        BY <3>4 DEF DashboardRestart, Fault
      <4>2. Answered(i, accepted[i].at)
        BY <2>5, <3>1, <3>4 DEF AcknowledgedIsAnswered, Kept
      <4> QED
        BY <2>1, <4>1, <4>2, AnswerStays
    <3> QED
      BY <3>2, <3>3, <3>4
  <2> QED
    BY <2>3, <2>4, <2>5, <1>3 DEF OnTheBooks
<1> QED
  BY <1>2, <1>3

(* A second acceptance finds the first gone from the registry.             *)
LEMMA AcceptsAnew ==
    ASSUME TypeOK, OnTheBooks, [Next]_vars, NEW id \in Ids, accepted'[id] # accepted[id]
    PROVE  \/ accepted[id] = None
           \/ accepted[id].at + Window <= now
           \/ "restart" \in Faults /\ Answered(id, accepted[id].at)
<1>1. Gc(registry)[id] = None
  BY AcceptStep DEF Accept, Duplicate
<1>2. ~(registry[id] # None /\ Fresh(registry[id]))
  BY <1>1, GcTypes DEF TypeOK
<1>3. accepted[id] # None => accepted[id].at \in Nat
  BY DEF TypeOK, Row, Times
<1>4. now \in Nat /\ Window \in Nat
  BY Clock
<1>5. Live(id) => ~Kept(id)
  BY <1>2 DEF Live, Kept, Fresh
<1> QED
  BY <1>3, <1>4, <1>5 DEF OnTheBooks, Live

LEMMA BooksKept == Spec => []OnTheBooks
<1>1. Init => OnTheBooks
  BY DEF Init, Empty, OnTheBooks
<1>2. TypeOK /\ Matched /\ AcknowledgedIsAnswered /\ OnTheBooks /\ [Next]_vars => OnTheBooks'
  BY BooksStep
<1>3. ForceInv => TypeOK /\ Matched /\ AcknowledgedIsAnswered
  BY DEF ForceInv
<1> QED
  BY <1>1, <1>2, <1>3, ForceHolds, PTL DEF Spec

(* While the dashboard's process lives, a request repeated within the      *)
(* window is a duplicate and nothing else: no failed write, no lost answer *)
(* and no acknowledgement makes room for a second command with its id      *)
(* (handlers_forceupdate.go:55-57).                                        *)
THEOREM ReplayRefused == ASSUME "restart" \notin Faults PROVE Spec => ReplayIsDuplicate
<1>1. TypeOK /\ OnTheBooks /\ [Next]_vars
      => [\A id \in Ids : accepted'[id] # accepted[id] =>
              accepted[id] = None \/ accepted[id].at + Window <= now]_vars
  BY AcceptsAnew
<1> QED
  BY <1>1, ForceTypes, BooksKept, PTL DEF Spec, ReplayIsDuplicate

(* Whatever restarts, a second command with the same id within the window  *)
(* comes after an answer to the first: the outbox brings back the command  *)
(* that was not acknowledged (forceupdate.go:78-96), and the agent's       *)
(* ledger keeps the one that was from running again.                       *)
ReplayFollowsAnswer ==
    [][\A id \in Ids : accepted'[id] # accepted[id] =>
          \/ accepted[id] = None
          \/ accepted[id].at + Window <= now
          \/ Answered(id, accepted[id].at)]_vars

(* The same with every fault of the model.                                 *)
THEOREM ReplayAnswered == Spec => ReplayFollowsAnswer
<1>1. TypeOK /\ OnTheBooks /\ [Next]_vars
      => [\A id \in Ids : accepted'[id] # accepted[id] =>
              \/ accepted[id] = None
              \/ accepted[id].at + Window <= now
              \/ Answered(id, accepted[id].at)]_vars
  BY AcceptsAnew
<1> QED
  BY <1>1, ForceTypes, BooksKept, PTL DEF Spec, ReplayFollowsAnswer

(***************************************************************************)
(* The updater's mutex, its replay fence and its ETag, for any number of   *)
(* versions, channels, publications, restarts and faults.                  *)
(***************************************************************************)

(* A check past the releases API works on a release that is newer than the *)
(* running version and not below the fence.                                *)
Working == check.stage \in {"download", "verify", "spawn"}
Justified == Working => check.rel.ver > running /\ check.rel.ver >= high

(* The mutex belongs to whoever the check is for.                          *)
Held ==
    check.stage # "none" =>
        /\ check.who = "poll" <=> poll = "ticking"
        /\ check.who = "forced" <=> forced = "running"

UpdaterInv == UpdaterTypeOK /\ Held /\ Justified /\ FenceExact

(* Nothing fails between the answer of the releases API and the installer: *)
(* UpdaterBlip.cfg shows the tag that stays behind otherwise.              *)
NoHalfway == UpdaterFaults \cap {"download", "verify", "spawn"} = {}

(* The tag of a release that is wanted is held only by the check at work   *)
(* on that release.                                                        *)
TagInv == etag # NoTag => ~Wanted(etag.rel) \/ (Working /\ etag.rel = check.rel)
-----------------------------------------------------------------------------
(* One step of a budget leaves a budget.                                   *)
LEMMA SpendTypes ==
    ASSUME UpdaterTypeOK, NEW b \in {"publish", "config", "forced", "manual", "faults"}, Spend(b)
    PROVE  bounds' \in [publish : 0..MaxPublish, config : 0..MaxConfig, forced : 0..MaxForced,
                        manual : 0..MaxManual, faults : 0..MaxUpdaterFaults]
  BY UpdaterAssumption DEF UpdaterAssumption, UpdaterTypeOK, Spend

(* A started service keeps the types, and the fence is exact again.        *)
LEMMA StartTypes ==
    ASSUME UpdaterInv, NEW v \in Versions, Start(v)
    PROVE  /\ running' \in Versions /\ high' \in Versions /\ highest' \in Versions
           /\ high' = highest' /\ high' >= high
           /\ github' \in [Channels -> Releases] /\ config' \in Configs /\ seen' \in Configs
           /\ wake' \in BOOLEAN /\ etag' = NoTag /\ failures' \in 0..MaxBackoff
           /\ poll' = "asleep" /\ forced' = "none" /\ check' = NoCheck
           /\ last' \in Decisions
<1>1. high \in Nat /\ v \in Nat /\ MaxVersion \in Nat /\ high = highest /\ high \in Versions
  BY UpdaterAssumption DEF UpdaterAssumption, UpdaterInv, UpdaterTypeOK, FenceExact, Versions
<1>2. Greater(high, v) \in Versions /\ Greater(high, v) >= high
  BY <1>1 DEF Greater, Versions
<1>3. high' = Greater(high, v) /\ highest' = Greater(high, v)
  BY <1>1 DEF Start, Seed
<1>4. failures' \in 0..MaxBackoff
  BY UpdaterAssumption DEF UpdaterAssumption, Start
<1> QED
  BY <1>2, <1>3, <1>4, <1>1 DEF UpdaterInv, UpdaterTypeOK, Start, Decisions

(* NoCheck is a check, and nobody's.                                       *)
LEMMA NoCheckTypes ==
    /\ NoCheck \in [stage : {"none", "fetch", "download", "verify", "spawn"},
                    who : {"poll", "forced"}, ch : Channels, rel : Releases]
    /\ NoCheck.stage = "none"
  BY UpdaterAssumption DEF UpdaterAssumption, NoCheck, NoRelease, Releases

(* A check that begins is at its first stage.                              *)
BegunAs(c, who) ==
    /\ c \in [stage : {"none", "fetch", "download", "verify", "spawn"},
               who : {"poll", "forced"}, ch : Channels, rel : Releases]
    /\ c.stage = "fetch" /\ c.who = who
LEMMA BegunTypes ==
    ASSUME UpdaterTypeOK, NEW who \in {"poll", "forced"}, BeginCheck(who)
    PROVE  BegunAs(check', who)
<1>1. NoRelease \in Releases /\ config.channel \in Channels
  BY UpdaterAssumption DEF UpdaterAssumption, UpdaterTypeOK, NoRelease, Releases, Configs
<1> QED
  BY <1>1 DEF BeginCheck, BegunAs

(* The end of a check gives the mutex back.                                *)
LEMMA EndTypes ==
    ASSUME UpdaterTypeOK, Held, check.stage # "none", NEW d \in Decisions, End(d)
    PROVE  /\ check' = NoCheck /\ last' \in Decisions
           /\ poll' \in {"asleep", "due", "ticked"} /\ forced' \in {"none", "waiting"}
  BY DEF UpdaterTypeOK, Held, End

(* A verdict or a failure while a check is at work.                        *)
LEMMA VerdictStep ==
    ASSUME UpdaterInv, check.stage # "none", NEW d \in Decisions, End(d), Elsewhere,
           failures' \in 0..MaxBackoff,
           etag' \in [ch : Channels, rel : Releases] \cup {NoTag},
           installers' \subseteq Versions,
           bounds' \in [publish : 0..MaxPublish, config : 0..MaxConfig, forced : 0..MaxForced,
                        manual : 0..MaxManual, faults : 0..MaxUpdaterFaults]
    PROVE  UpdaterInv'
<1>1. check' = NoCheck /\ last' \in Decisions
  BY EndTypes DEF UpdaterInv
<1>2. poll' \in {"asleep", "due", "ticked"} /\ forced' \in {"none", "waiting"}
  BY EndTypes DEF UpdaterInv
<1> QED
  BY <1>1, <1>2, NoCheckTypes DEF Elsewhere, UpdaterInv, UpdaterTypeOK, Held, Justified, Working, FenceExact

LEMMA AdvanceStep ==
    ASSUME UpdaterInv, check.stage # "none", NEW st \in {"download", "verify", "spawn"},
           NEW r \in Releases, r.ver > running, r.ver >= high, Advance(st, r), Elsewhere,
           etag' \in [ch : Channels, rel : Releases] \cup {NoTag}
    PROVE  UpdaterInv'
<1>1. check' \in [stage : {"none", "fetch", "download", "verify", "spawn"},
                  who : {"poll", "forced"}, ch : Channels, rel : Releases]
  BY DEF Advance, UpdaterInv, UpdaterTypeOK
<1>2. check'.stage = st /\ check'.who = check.who /\ check'.rel = r
  BY DEF Advance, UpdaterInv, UpdaterTypeOK
<1> QED
  BY <1>1, <1>2 DEF Advance, Elsewhere, UpdaterInv, UpdaterTypeOK, Held, Justified, Working, FenceExact

LEMMA FailStep ==
    ASSUME UpdaterInv, check.stage # "none", NEW k, Fail(k), Elsewhere
    PROVE  UpdaterInv'
<1>1. bounds' \in [publish : 0..MaxPublish, config : 0..MaxConfig, forced : 0..MaxForced,
                   manual : 0..MaxManual, faults : 0..MaxUpdaterFaults]
  BY SpendTypes DEF UpdaterInv, Fail, UpdaterFault
<1>2. failures' \in 0..MaxBackoff
  BY UpdaterAssumption DEF UpdaterAssumption, Fail, RecordFailure, UpdaterInv, UpdaterTypeOK
<1> QED
  BY <1>1, <1>2, VerdictStep DEF Fail, UpdaterInv, UpdaterTypeOK, Decisions

LEMMA DecideStep ==
    ASSUME UpdaterInv, check.stage # "none", NEW d \in Decisions, Decide(d), Elsewhere,
           etag' \in [ch : Channels, rel : Releases] \cup {NoTag}
    PROVE  UpdaterInv'
  BY VerdictStep, UpdaterAssumption DEF UpdaterAssumption, Decide, RecordSuccess, UpdaterInv, UpdaterTypeOK

LEMMA FetchStep ==
    ASSUME UpdaterInv, Fetch
    PROVE  UpdaterInv'
<1> DEFINE rel == github[check.ch]
<1>0. rel \in Releases /\ Tag(rel) \in [ch : Channels, rel : Releases] /\ rel.ver \in Nat
      /\ running \in Nat /\ high \in Nat /\ check.stage # "none"
  BY UpdaterAssumption DEF UpdaterAssumption, UpdaterInv, UpdaterTypeOK, Fetch, Tag, Releases, Versions
<1>1. CASE Fail("fetch")
  BY <1>1, <1>0, FailStep DEF Fetch
<1>2. CASE UpdaterFault("deadline") /\ End("cancelled") /\ UNCHANGED <<etag, failures, installers>>
  <2>1. bounds' \in [publish : 0..MaxPublish, config : 0..MaxConfig, forced : 0..MaxForced,
                     manual : 0..MaxManual, faults : 0..MaxUpdaterFaults]
    BY <1>2, SpendTypes DEF UpdaterInv, UpdaterFault
  <2> QED
    BY <1>2, <2>1, <1>0, VerdictStep DEF Fetch, UpdaterInv, UpdaterTypeOK, Decisions
<1>3. CASE UNCHANGED etag /\ (Decide("no_stable_release") \/ Decide("not_modified"))
  BY <1>3, <1>0, DecideStep DEF Fetch, UpdaterInv, UpdaterTypeOK, Decisions
<1>4. CASE etag' = Tag(rel) /\ (Decide("refused") \/ Decide("up_to_date"))
  BY <1>4, <1>0, DecideStep DEF Fetch, Decisions
<1>5. CASE etag' = Tag(rel) /\ ~Fenced(rel) /\ rel.ver > running /\ Advance("download", rel)
  BY <1>5, <1>0, AdvanceStep DEF Fetch, Fenced
<1> QED
  BY <1>1, <1>2, <1>3, <1>4, <1>5 DEF Fetch

LEMMA DownloadStep ==
    ASSUME UpdaterInv, Download
    PROVE  UpdaterInv'
<1>1. check.rel \in Releases /\ check.rel.ver > running /\ check.rel.ver >= high
  BY DEF Download, UpdaterInv, UpdaterTypeOK, Justified, Working
<1>2. CASE Advance("verify", check.rel) /\ UNCHANGED etag
  BY <1>1, <1>2, AdvanceStep DEF Download, UpdaterInv, UpdaterTypeOK
<1>3. CASE Fail("download")
  BY <1>3, FailStep DEF Download
<1> QED
  BY <1>2, <1>3 DEF Download

LEMMA VerifyStep ==
    ASSUME UpdaterInv, Verify
    PROVE  UpdaterInv'
<1>1. check.rel \in Releases /\ check.rel.ver > running /\ check.rel.ver >= high
  BY DEF Verify, UpdaterInv, UpdaterTypeOK, Justified, Working
<1>2. CASE Advance("spawn", check.rel)
  BY <1>1, <1>2, AdvanceStep DEF Verify, UpdaterInv, UpdaterTypeOK
<1>3. CASE Decide("refused")
  BY <1>3, DecideStep DEF Verify, UpdaterInv, UpdaterTypeOK, Decisions
<1>4. CASE UpdaterFault("verify") /\ End("refused") /\ RecordSuccess /\ UNCHANGED installers
  <2>1. bounds' \in [publish : 0..MaxPublish, config : 0..MaxConfig, forced : 0..MaxForced,
                     manual : 0..MaxManual, faults : 0..MaxUpdaterFaults]
    BY <1>4, SpendTypes DEF UpdaterInv, UpdaterFault
  <2>2. failures' \in 0..MaxBackoff
    BY <1>4, UpdaterAssumption DEF UpdaterAssumption, RecordSuccess
  <2> QED
    BY <1>4, <2>1, <2>2, VerdictStep DEF Verify, UpdaterInv, UpdaterTypeOK, Decisions
<1> QED
  BY <1>2, <1>3, <1>4 DEF Verify

LEMMA SpawnStep ==
    ASSUME UpdaterInv, Spawn
    PROVE  UpdaterInv'
<1>1. check.rel.ver \in Versions /\ check.stage # "none"
  BY UpdaterAssumption DEF UpdaterAssumption, Spawn, UpdaterInv, UpdaterTypeOK, Justified, Working,
     Releases, Versions
<1>2. CASE Fail("spawn")
  BY <1>1, <1>2, FailStep DEF Spawn
<1>3. CASE /\ installers' = installers \cup {check.rel.ver}
           /\ Spawned /\ End("installer_spawned") /\ RecordSuccess /\ UNCHANGED bounds
  <2>1. failures' \in 0..MaxBackoff
    BY <1>3, UpdaterAssumption DEF UpdaterAssumption, RecordSuccess
  <2>2. installers' \subseteq Versions
    BY <1>1, <1>3 DEF UpdaterInv, UpdaterTypeOK
  <2> QED
    BY <1>1, <1>3, <2>1, <2>2, VerdictStep DEF Spawn, Spawned, UpdaterInv, UpdaterTypeOK, Decisions
<1> QED
  BY <1>2, <1>3 DEF Spawn

(* Every step keeps the invariant.                                         *)
LEMMA UpdaterStep ==
    ASSUME UpdaterInv, [UpdaterNext]_updaterVars
    PROVE  UpdaterInv'
<1> USE UpdaterAssumption DEF UpdaterAssumption
<1>1. ASSUME NEW c \in Configs, SetConfig(c) PROVE UpdaterInv'
  <2>1. bounds' \in [publish : 0..MaxPublish, config : 0..MaxConfig, forced : 0..MaxForced,
                     manual : 0..MaxManual, faults : 0..MaxUpdaterFaults]
    BY <1>1, SpendTypes DEF UpdaterInv, SetConfig
  <2> QED
    BY <1>1, <2>1 DEF SetConfig, UpdateConfig, UpdaterInv, UpdaterTypeOK, Held, Justified, Working,
       FenceExact, past
<1>2. CASE Timer
  BY <1>2 DEF Timer, Awake, UpdaterInv, UpdaterTypeOK, Held, Justified, Working, FenceExact, past
<1>3. CASE Wake
  BY <1>3 DEF Wake, Awake, UpdaterInv, UpdaterTypeOK, Held, Justified, Working, FenceExact, past
<1>4. CASE Sleep
  BY <1>4 DEF Sleep, UpdaterInv, UpdaterTypeOK, Held, Justified, Working, FenceExact, past
<1>5. CASE BeginPoll
  <2>1. CASE config.enabled /\ BeginCheck("poll") /\ poll' = "ticking"
    <3>1. BegunAs(check', "poll")
      BY <2>1, BegunTypes DEF UpdaterInv
    <3> QED
      BY <1>5, <2>1, <3>1 DEF BeginPoll, Unlocked, BegunAs, UpdaterInv, UpdaterTypeOK, Held, Justified,
         Working, FenceExact
  <2>2. CASE ~config.enabled /\ poll' = "ticked" /\ UNCHANGED check
    BY <1>5, <2>2 DEF BeginPoll, Unlocked, UpdaterInv, UpdaterTypeOK, Held, Justified, Working, FenceExact
  <2> QED
    BY <1>5, <2>1, <2>2 DEF BeginPoll
<1>6. CASE RequestForced
  <2>1. bounds' \in [publish : 0..MaxPublish, config : 0..MaxConfig, forced : 0..MaxForced,
                     manual : 0..MaxManual, faults : 0..MaxUpdaterFaults]
    BY <1>6, SpendTypes DEF UpdaterInv, RequestForced
  <2> QED
    BY <1>6, <2>1 DEF RequestForced, UpdaterInv, UpdaterTypeOK, Held, Justified, Working, FenceExact, past
<1>7. CASE BeginForced
  <2>1. CASE BeginCheck("forced") /\ forced' = "running" /\ SaveState /\ UNCHANGED bounds
    <3>1. BegunAs(check', "forced")
      BY <2>1, BegunTypes DEF UpdaterInv
    <3> QED
      BY <1>7, <2>1, <3>1 DEF BeginForced, SaveState, Unlocked, BegunAs, UpdaterInv, UpdaterTypeOK, Held,
         Justified, Working, FenceExact, past
  <2>2. CASE UpdaterFault("ledger") /\ forced' = "none" /\ UNCHANGED <<check, high>>
    <3>1. bounds' \in [publish : 0..MaxPublish, config : 0..MaxConfig, forced : 0..MaxForced,
                       manual : 0..MaxManual, faults : 0..MaxUpdaterFaults]
      BY <2>2, SpendTypes DEF UpdaterInv, UpdaterFault
    <3> QED
      BY <1>7, <2>2, <3>1 DEF BeginForced, Unlocked, UpdaterInv, UpdaterTypeOK, Held,
         Justified, Working, FenceExact, past
  <2> QED
    BY <1>7, <2>1, <2>2 DEF BeginForced
<1>8. CASE Fetch
  BY <1>8, FetchStep
<1>9. CASE Download
  BY <1>9, DownloadStep
<1>10. CASE Verify
  BY <1>10, VerifyStep
<1>11. CASE Spawn
  BY <1>11, SpawnStep
<1>12. ASSUME NEW v \in Versions, Install(v) PROVE UpdaterInv'
  <2>1. CASE Start(v) /\ UNCHANGED bounds
    BY <2>1, <1>12, StartTypes, NoCheckTypes DEF Install, UpdaterInv, UpdaterTypeOK, Held, Justified,
       Working, FenceExact
  <2>2. CASE UNCHANGED <<process, high, github, config, past>> /\ (UNCHANGED bounds \/ UpdaterFault("install"))
    <3>1. bounds' \in [publish : 0..MaxPublish, config : 0..MaxConfig, forced : 0..MaxForced,
                       manual : 0..MaxManual, faults : 0..MaxUpdaterFaults]
      BY <2>2, SpendTypes DEF UpdaterInv, UpdaterTypeOK, UpdaterFault
    <3> QED
      BY <1>12, <2>2, <3>1 DEF Install, UpdaterInv, UpdaterTypeOK, Held, Justified, Working, FenceExact,
         process, past
  <2> QED
    BY <1>12, <2>1, <2>2 DEF Install
<1>13. ASSUME NEW v \in Versions, ManualInstall(v) PROVE UpdaterInv'
  <2>1. bounds' \in [publish : 0..MaxPublish, config : 0..MaxConfig, forced : 0..MaxForced,
                     manual : 0..MaxManual, faults : 0..MaxUpdaterFaults]
    BY <1>13, SpendTypes DEF UpdaterInv, ManualInstall
  <2> QED
    BY <2>1, <1>13, StartTypes, NoCheckTypes DEF ManualInstall, UpdaterInv, UpdaterTypeOK, Held,
       Justified, Working, FenceExact
<1>14. CASE Restart
  <2>1. bounds' \in [publish : 0..MaxPublish, config : 0..MaxConfig, forced : 0..MaxForced,
                     manual : 0..MaxManual, faults : 0..MaxUpdaterFaults]
    BY <1>14, SpendTypes DEF UpdaterInv, Restart, UpdaterFault
  <2>2. running \in Versions /\ Start(running)
    BY <1>14 DEF Restart, UpdaterInv, UpdaterTypeOK
  <2> QED
    BY <2>1, <2>2, <1>14, StartTypes, NoCheckTypes DEF Restart, UpdaterInv, UpdaterTypeOK, Held,
       Justified, Working, FenceExact
<1>15. ASSUME NEW c \in Channels, NEW rel \in Releases, Publish(c, rel) PROVE UpdaterInv'
  <2>1. bounds' \in [publish : 0..MaxPublish, config : 0..MaxConfig, forced : 0..MaxForced,
                     manual : 0..MaxManual, faults : 0..MaxUpdaterFaults]
    BY <1>15, SpendTypes DEF UpdaterInv, Publish
  <2> QED
    BY <1>15, <2>1 DEF Publish, UpdaterInv, UpdaterTypeOK, Held, Justified, Working, FenceExact,
       process, past
<1>16. CASE UNCHANGED updaterVars
  BY <1>16 DEF updaterVars, process, past, UpdaterInv, UpdaterTypeOK, Held, Justified, Working, FenceExact
<1> QED
  BY <1>1, <1>2, <1>3, <1>4, <1>5, <1>6, <1>7, <1>8, <1>9, <1>10, <1>11, <1>12, <1>13, <1>14,
     <1>15, <1>16 DEF UpdaterNext

LEMMA UpdaterHolds == UpdaterSpec => []UpdaterInv
<1>1. UpdaterInit => UpdaterInv
  <2> SUFFICES ASSUME UpdaterInit PROVE UpdaterInv
    OBVIOUS
  <2>1. running \in Versions /\ high \in Versions /\ highest \in Versions /\ high = highest
    BY UpdaterAssumption DEF UpdaterAssumption, UpdaterInit
  <2>2. github \in [Channels -> Releases] /\ config \in Configs /\ seen \in Configs
    BY UpdaterAssumption DEF UpdaterAssumption, UpdaterInit, Releases, NoRelease, Configs
  <2>3. bounds \in [publish : 0..MaxPublish, config : 0..MaxConfig, forced : 0..MaxForced,
                    manual : 0..MaxManual, faults : 0..MaxUpdaterFaults]
    BY UpdaterAssumption DEF UpdaterAssumption, UpdaterInit
  <2>4. failures \in 0..MaxBackoff /\ last \in Decisions
    BY UpdaterAssumption DEF UpdaterAssumption, UpdaterInit, Decisions
  <2> QED
    BY <2>1, <2>2, <2>3, <2>4, NoCheckTypes DEF UpdaterInit, UpdaterInv, UpdaterTypeOK, Held, Justified,
       Working, FenceExact
<1> QED
  BY <1>1, UpdaterStep, PTL DEF UpdaterSpec

(* Only Spawn launches an installer.                                       *)
LEMMA LaunchStep ==
    ASSUME UpdaterInv, [UpdaterNext]_updaterVars, NEW v \in installers' \ installers
    PROVE  Spawn /\ v = check.rel.ver
  BY DEF updaterVars, UpdaterNext, SetConfig, Timer, Wake, Sleep, BeginPoll, RequestForced, BeginForced,
     Fetch, Download, Verify, Spawn, Install, ManualInstall, Restart, Publish, Fail, Decide, Advance

(* Both halves of the backoff's rule survive every step.                   *)
LEMMA BackoffStep ==
    ASSUME UpdaterInv, BackoffFollows, [UpdaterNext]_updaterVars
    PROVE  BackoffFollows'
<1>1. CASE UNCHANGED <<last, failures>>
  BY <1>1 DEF BackoffFollows
<1>2. CASE last' = "error" /\ RecordFailure
  BY <1>2, UpdaterAssumption DEF UpdaterAssumption, RecordFailure, BackoffFollows, UpdaterInv, UpdaterTypeOK
<1>3. CASE last' = "cancelled" \/ (last' \in Decisions \ {"error", "cancelled"} /\ failures' = 0)
  BY <1>3 DEF BackoffFollows
<1>4. CASE \E v \in Versions : Start(v)
  BY <1>4 DEF BackoffFollows, Start
<1>5. CASE Fetch \/ Download \/ Verify \/ Spawn
  <2>1. ASSUME NEW k, Fail(k) PROVE BackoffFollows'
    BY <1>2, <2>1 DEF Fail, End
  <2>2. ASSUME NEW d \in Decisions \ {"error", "cancelled"}, End(d), RecordSuccess
        PROVE  BackoffFollows'
    BY <1>3, <2>2 DEF End, RecordSuccess
  <2>3. ASSUME NEW st, NEW r, Advance(st, r) PROVE BackoffFollows'
    BY <1>1, <2>3 DEF Advance
  <2>4. CASE Fetch
    <3>1. CASE End("cancelled")
      BY <1>3, <3>1 DEF End
    <3> QED
      BY <2>1, <2>2, <2>3, <2>4, <3>1 DEF Fetch, Decide, Decisions
  <2>5. CASE Download
    BY <2>1, <2>3, <2>5 DEF Download
  <2>6. CASE Verify
    BY <2>2, <2>3, <2>6 DEF Verify, Decide, Decisions
  <2>7. CASE Spawn
    BY <2>1, <2>2, <2>7 DEF Spawn, Decisions
  <2> QED
    BY <1>5, <2>4, <2>5, <2>6, <2>7
<1>6. CASE BeginForced \/ BeginPoll
  BY <1>1, <1>6 DEF BeginForced, BeginPoll, past
<1>7. CASE \E v \in Versions : Install(v) \/ ManualInstall(v)
  BY <1>1, <1>4, <1>7 DEF Install, ManualInstall, process, past
<1>8. CASE Restart
  BY <1>4, <1>8 DEF Restart, UpdaterInv, UpdaterTypeOK
<1> QED
  BY <1>1, <1>5, <1>6, <1>7, <1>8 DEF UpdaterNext, updaterVars, process, past, SetConfig, Timer, Wake, Sleep,
     RequestForced, Publish

(* A check that fails nowhere past the releases API takes its tag along.   *)
LEMMA TagStep ==
    ASSUME NoHalfway, UpdaterInv, TagInv, [UpdaterNext]_updaterVars
    PROVE  TagInv'
<1>1. CASE UNCHANGED <<etag, running, high, check>>
  BY <1>1 DEF TagInv, Wanted, Working
<1>2. CASE etag' = NoTag
  BY <1>2 DEF TagInv
<1>3. CASE UNCHANGED <<etag, running, high>> /\ (etag # NoTag => ~Wanted(etag.rel))
  BY <1>3 DEF TagInv, Wanted
<1>4. CASE Fetch
  <2>1. etag # NoTag => ~Wanted(etag.rel)
    BY <1>4 DEF Fetch, TagInv, Working
  <2>2. CASE UNCHANGED etag
    BY <1>3, <1>4, <2>1, <2>2 DEF Fetch, Elsewhere
  <2> DEFINE rel == github[check.ch]
  <2>3. rel \in Releases /\ rel.ver \in Nat /\ running \in Nat /\ high \in Nat
    BY UpdaterAssumption DEF UpdaterAssumption, UpdaterInv, UpdaterTypeOK, Releases, Versions
  <2>4. CASE etag' = Tag(rel) /\ UNCHANGED <<running, high>> /\ (Fenced(rel) \/ ~rel.good)
    BY <2>3, <2>4 DEF TagInv, Wanted, Tag, Fenced
  <2>5. CASE etag' = Tag(rel) /\ UNCHANGED <<running, high>> /\ rel.ver <= running
    BY <2>3, <2>5 DEF TagInv, Wanted, Tag
  <2>6. CASE etag' = Tag(rel) /\ Advance("download", rel)
    BY <2>6 DEF TagInv, Tag, Advance, Working, UpdaterInv, UpdaterTypeOK
  <2> QED
    BY <1>4, <2>2, <2>4, <2>5, <2>6 DEF Fetch, Fail, Elsewhere
<1>5. CASE Download
  <2>1. Advance("verify", check.rel) /\ UNCHANGED <<etag, running, high>> /\ Working
    BY <1>5 DEF Download, Fail, UpdaterFault, NoHalfway, Elsewhere, Working
  <2> QED
    BY <2>1 DEF TagInv, Wanted, Working, Advance, UpdaterInv, UpdaterTypeOK
<1>6. CASE Verify
  <2>1. UNCHANGED <<etag, running, high>> /\ Working
    BY <1>6 DEF Verify, Elsewhere, Working
  <2>2. CASE Advance("spawn", check.rel)
    BY <2>1, <2>2 DEF TagInv, Wanted, Working, Advance, UpdaterInv, UpdaterTypeOK
  <2>3. CASE ~check.rel.good
    BY <1>3, <2>1, <2>3 DEF TagInv, Wanted
  <2> QED
    BY <1>6, <2>2, <2>3 DEF Verify, UpdaterFault, NoHalfway
<1>7. CASE Spawn
  BY <1>2, <1>7 DEF Spawn, Spawned, Fail, UpdaterFault, NoHalfway
<1>8. CASE BeginPoll \/ BeginForced
  <2>1. UNCHANGED <<etag, running, high>>
    BY <1>8 DEF BeginPoll, BeginForced, SaveState
  <2>2. ~Working
    BY <1>8 DEF BeginPoll, BeginForced, Unlocked, Working
  <2> QED
    BY <1>3, <2>1, <2>2 DEF TagInv
<1>9. CASE \E v \in Versions : Install(v) \/ ManualInstall(v)
  BY <1>1, <1>2, <1>9 DEF Install, ManualInstall, Start, process
<1>10. CASE Restart
  BY <1>2, <1>10 DEF Restart, Start
<1> QED
  BY <1>1, <1>4, <1>5, <1>6, <1>7, <1>8, <1>9, <1>10 DEF UpdaterNext, updaterVars, process, SetConfig,
     UpdateConfig, Timer, Wake, Awake, Sleep, RequestForced, Publish
-----------------------------------------------------------------------------
(* The state is well formed, and the mutex has one owner, for any number   *)
(* of versions and faults (updater_windows.go:87-119, 434-438).                *)
THEOREM UpdaterTypes == UpdaterSpec => []UpdaterTypeOK
  BY UpdaterHolds, PTL DEF UpdaterInv

(* The fence on disk is the highest version that ever started, whatever    *)
(* fails and whoever installs (state_windows.go:141-165).                  *)
THEOREM FenceIsExact == UpdaterSpec => []FenceExact
  BY UpdaterHolds, PTL DEF UpdaterInv

(* No step of the updater launches an installer of a version older than    *)
(* one that has run, or not newer than the running one: the release was    *)
(* compared at the start of the check, and neither side of the comparison  *)
(* moves before msiexec is launched (updater_windows.go:371-424).          *)
THEOREM FenceIsHeld == UpdaterSpec => FenceHolds
<1>1. ASSUME UpdaterInv, [UpdaterNext]_updaterVars
      PROVE  [\A v \in installers' \ installers : v > running /\ v >= highest]_updaterVars
  <2>1. ASSUME NEW v \in installers' \ installers PROVE v > running /\ v >= highest
    BY <1>1, <2>1, LaunchStep DEF Spawn, UpdaterInv, Justified, Working, FenceExact
  <2> QED
    BY <2>1
<1> QED
  BY <1>1, UpdaterHolds, PTL DEF UpdaterSpec, FenceHolds

(* The backoff stands exactly while the last verdict was a failure         *)
(* (backoff_windows.go:22-47, updater_windows.go:326-432).                 *)
THEOREM BackoffIsRight == UpdaterSpec => []BackoffFollows
<1>1. UpdaterInit => BackoffFollows
  BY DEF UpdaterInit, BackoffFollows
<1> QED
  BY <1>1, BackoffStep, UpdaterHolds, PTL DEF UpdaterSpec

(* When nothing fails between the releases API and the installer, an idle  *)
(* updater holds the ETag of no release it still wants: the 304 it will    *)
(* get hides nothing (updater_windows.go:356, 421-424).                    *)
THEOREM TagsAreSettled == ASSUME NoHalfway PROVE UpdaterSpec => []TagMeansSettled
<1>1. UpdaterInit => TagInv
  BY DEF UpdaterInit, TagInv
<1>2. UpdaterInv /\ TagInv /\ [UpdaterNext]_updaterVars => TagInv'
  BY NoHalfway, TagStep
<1>3. TagInv => TagMeansSettled
  BY DEF TagInv, TagMeansSettled, Unlocked, Working
<1> QED
  BY <1>1, <1>2, <1>3, UpdaterHolds, PTL DEF UpdaterSpec
-----------------------------------------------------------------------------
(* A step that is not of the poll loop itself leaves a due poll due.       *)
LEMMA DueStays ==
    ASSUME UpdaterInv, ChangeIsSignalled, UpdaterNext
    PROVE  ChangeIsSignalled'
<1>1. ASSUME NEW c \in Configs, SetConfig(c) PROVE ChangeIsSignalled'
  BY <1>1 DEF SetConfig, UpdateConfig, past, ChangeIsSignalled
<1>2. CASE Timer \/ Wake \/ Sleep
  BY <1>2 DEF Timer, Wake, Sleep, Awake, past, ChangeIsSignalled
<1>3. CASE BeginPoll
  BY <1>3 DEF BeginPoll, ChangeIsSignalled
<1>4. CASE RequestForced \/ BeginForced
  BY <1>4 DEF RequestForced, BeginForced, BeginCheck, past, ChangeIsSignalled
<1>5. ASSUME check.stage # "none", NEW d, End(d), Elsewhere PROVE ChangeIsSignalled'
  <2>1. check.who = "poll" => poll = "ticking"
    BY <1>5 DEF UpdaterInv, Held
  <2> QED
    BY <1>5, <2>1 DEF End, Elsewhere, ChangeIsSignalled
<1>6. ASSUME NEW s, NEW r, Advance(s, r), Elsewhere PROVE ChangeIsSignalled'
  BY <1>6 DEF Advance, Elsewhere, ChangeIsSignalled
<1>7. CASE Fetch \/ Download \/ Verify \/ Spawn
  BY <1>5, <1>6, <1>7 DEF Fetch, Download, Verify, Spawn, Decide, Fail
<1>8. ASSUME NEW v, Start(v) PROVE ChangeIsSignalled'
  BY <1>8 DEF Start, ChangeIsSignalled
<1>9. ASSUME NEW v \in Versions, Install(v) \/ ManualInstall(v) PROVE ChangeIsSignalled'
  BY <1>8, <1>9 DEF Install, ManualInstall, process, past, ChangeIsSignalled
<1>10. CASE Restart
  BY <1>8, <1>10 DEF Restart
<1>11. ASSUME NEW c \in Channels, NEW r \in Releases, Publish(c, r) PROVE ChangeIsSignalled'
  BY <1>11 DEF Publish, process, past, ChangeIsSignalled
<1> QED
  BY <1>1, <1>2, <1>3, <1>4, <1>7, <1>9, <1>10, <1>11 DEF UpdaterNext

(* A change of the policy is never left to the timer                       *)
(* (updater_windows.go:131-151, 268-285).                                  *)
THEOREM ChangesAreSignalled == UpdaterSpec => []ChangeIsSignalled
<1>1. UpdaterInit => ChangeIsSignalled
  BY DEF UpdaterInit, ChangeIsSignalled
<1>2. ASSUME UpdaterInv, ChangeIsSignalled, [UpdaterNext]_updaterVars PROVE ChangeIsSignalled'
  BY <1>2, DueStays DEF updaterVars, process, past, ChangeIsSignalled
<1> QED
  BY <1>1, <1>2, UpdaterHolds, PTL DEF UpdaterSpec

=============================================================================
