----------------------------- MODULE ForceUpdate -----------------------------
(***************************************************************************)
(* A forced update of one host, from the operator's request to the agent's *)
(* answer: the dashboard's registry and its outbox in SQLite, the agent's  *)
(* check loop that fetches one command per report and runs the updater,    *)
(* the ledger of command ids in update-state.json, and the completion that *)
(* acknowledges the command.  Requests are lost, both processes restart,   *)
(* and every write may fail.                                               *)
(*                                                                         *)
(* internal/dashboard/forceupdate.go and handlers_forceupdate.go,          *)
(* internal/telemetry/force_update_outbox.go, internal/svc/check.go,       *)
(* internal/updater/updater_windows.go and state_windows.go.               *)
(***************************************************************************)
EXTENDS Naturals, FiniteSets

CONSTANTS
    Ids,         \* command ids the operators use, and reuse
    Window,      \* forceUpdateIdempotencyWindow, the same on both sides
    LedgerCap,   \* forceUpdateCommandLedgerCap
    OutboxCap,   \* forceUpdateOutboxCapacity
    Faults,      \* what may go wrong, out of FaultKinds
    MaxNow,      \* bound: the clock
    MaxAccepts,  \* bound: commands accepted
    MaxFaults,   \* bound: faults
    None

FaultKinds == {"restart", "crash", "loss", "enqueue", "ack", "ledger"}

ASSUME ForceAssumption ==
    /\ IsFiniteSet(Ids)
    /\ Window \in Nat \ {0} /\ LedgerCap \in Nat \ {0} /\ OutboxCap \in Nat
    /\ Faults \subseteq FaultKinds
    /\ MaxNow \in Nat /\ MaxAccepts \in Nat /\ MaxFaults \in Nat
    /\ None \notin Ids \cup (0..MaxNow) \cup [at : 0..MaxNow, nth : Nat]
    /\ None \notin [at : 0..MaxNow, pos : 1..MaxAccepts]
    /\ None \notin [at : 0..MaxNow, pos : 1..MaxAccepts, acked : BOOLEAN]

VARIABLES
    now,       \* the clock, one for both machines
    registry,  \* forceUpdateState.commands of the host: id -> command or None
    outbox,    \* force_update_outbox rows of the host: id -> row or None
    ledger,    \* ForceUpdateCommands on the agent's disk: id -> instant or None
    checks,    \* forced checks begun, which orders the instants of one hour
    agent,     \* where the agent's check loop is, and with which command
    mail,      \* completions on their way to the dashboard
    accepts,   \* bound: commands accepted so far
    faults,    \* bound: faults so far
    accepted,  \* history: id -> its last acceptance, or None
    began,     \* history: id -> when its check last began, or None
    dealt      \* history: id -> when the agent last answered it, or None

dashboard == <<registry, outbox>>
history == <<accepted, began, dealt>>
disk == <<ledger, checks>>
vars == <<now, dashboard, disk, agent, mail, accepts, faults, history>>

Times == 0..MaxNow
Row == [at : Times, pos : 1..MaxAccepts]
Command == [at : Times, pos : 1..MaxAccepts, acked : BOOLEAN]
Instant == [at : Times, nth : Nat]
Outcomes == {"completed", "refused", "failed", "duplicate"}
Completion == [id : Ids, outcome : Outcomes]
Rows(rows) == {i \in Ids : rows[i] # None}
Idle == [stage |-> "idle", id |-> None, outcome |-> "failed"]

TypeOK ==
    /\ now \in Times
    /\ registry \in [Ids -> Command \cup {None}]
    /\ outbox \in [Ids -> Row \cup {None}]
    /\ Cardinality(Rows(outbox)) <= OutboxCap
    /\ checks \in Nat
    /\ ledger \in [Ids -> Instant \cup {None}]
    /\ agent \in [stage : {"idle", "received", "checking", "done"},
                  id : Ids \cup {None}, outcome : Outcomes]
    /\ agent.stage # "idle" => agent.id \in Ids
    /\ mail \subseteq Completion
    /\ accepts \in 0..MaxAccepts /\ faults \in 0..MaxFaults
    /\ accepted \in [Ids -> Row \cup {None}]
    /\ began \in [Ids -> Times \cup {None}]
    /\ dealt \in [Ids -> Times \cup {None}]

Empty == [i \in Ids |-> None]

Init ==
    /\ now = 0
    /\ registry = Empty /\ outbox = Empty
    /\ ledger = Empty /\ checks = 0
    /\ agent = Idle /\ mail = {}
    /\ accepts = 0 /\ faults = 0
    /\ accepted = Empty /\ began = Empty /\ dealt = Empty

Fault(kind) == kind \in Faults /\ faults < MaxFaults /\ faults' = faults + 1
-----------------------------------------------------------------------------
(* The dashboard.                                                          *)

(* The registry forgets a command at the end of the window, the outbox     *)
(* deletes a row one instant later.                                        *)
Fresh(c) == c.at + Window > now
Gc(reg) == [i \in Ids |-> IF reg[i] # None /\ Fresh(reg[i]) THEN reg[i] ELSE None]
Unexpired(row) == row.at + Window >= now
Purged(rows) == [i \in Ids |-> IF rows[i] # None /\ Unexpired(rows[i]) THEN rows[i] ELSE None]

(* What a report may still hand to the agent.                              *)
Pending == {i \in Ids : registry[i] # None /\ Fresh(registry[i]) /\ ~registry[i].acked}
Oldest(i) == i \in Pending /\ \A j \in Pending : registry[i].pos <= registry[j].pos

Duplicate_Pending(id) == id \in Pending
Duplicate(id) == Gc(registry)[id] # None

Accept(id) ==
    LET row == [at |-> now, pos |-> accepts + 1] IN
    /\ ~Duplicate(id)
    /\ accepts < MaxAccepts
    /\ Purged(outbox)[id] = None
    /\ Cardinality(Rows(Purged(outbox))) < OutboxCap
    /\ outbox' = [Purged(outbox) EXCEPT ![id] = row]
    /\ registry' = [Gc(registry) EXCEPT ![id] = [at |-> now, pos |-> accepts + 1, acked |-> FALSE]]
    /\ accepts' = accepts + 1
    /\ accepted' = [accepted EXCEPT ![id] = row]
    /\ UNCHANGED <<now, disk, agent, mail, faults, began, dealt>>

(* POST /api/v1/servers/{host}/force-update, the host online and able to.  *)
(* A duplicate, a full outbox, a row that outlived its command and a       *)
(* failed insert leave only the collected registry.                        *)
Enqueue(id) ==
    \/ Accept(id)
    \/ /\ \/ /\ \/ Duplicate(id)
                \/ Purged(outbox)[id] # None
                \/ Cardinality(Rows(Purged(outbox))) >= OutboxCap
             /\ UNCHANGED faults
          \/ ~Duplicate(id) /\ Fault("enqueue")
       /\ registry' = Gc(registry)
       /\ UNCHANGED <<now, outbox, disk, agent, mail, accepts, history>>

(* forceUpdateState.Acknowledge: the row first, and nothing if that fails. *)
Forget(id) ==
    /\ outbox' = [outbox EXCEPT ![id] = None]
    /\ registry' = IF registry[id] = None THEN Gc(registry)
                   ELSE Gc([registry EXCEPT ![id].acked = TRUE])
Acknowledge_MemoryFirst(id) ==
    /\ registry' = IF registry[id] = None THEN Gc(registry)
                   ELSE Gc([registry EXCEPT ![id].acked = TRUE])
    /\ \/ outbox' = [outbox EXCEPT ![id] = None] /\ UNCHANGED faults
       \/ Fault("ack") /\ UNCHANGED outbox
Acknowledge(id) ==
    \/ Forget(id) /\ UNCHANGED faults
    \/ Fault("ack") /\ registry' = Gc(registry) /\ UNCHANGED outbox

(* handleReport with a completion; the command its own response carries is *)
(* not read by the agent.                                                  *)
HandleCompletion(m) ==
    /\ m \in mail
    /\ mail' = mail \ {m}
    /\ Acknowledge(m.id)
    /\ UNCHANGED <<now, disk, agent, accepts, history>>

(* A new process loads what the outbox retains; requests in flight fail.   *)
DashboardRestart ==
    /\ Fault("restart")
    /\ outbox' = Purged(outbox)
    /\ registry' = [i \in Ids |->
           IF Purged(outbox)[i] = None THEN None
           ELSE [at |-> outbox[i].at, pos |-> outbox[i].pos, acked |-> FALSE]]
    /\ mail' = {}
    /\ UNCHANGED <<now, disk, agent, accepts, history>>
-----------------------------------------------------------------------------
(* The agent, one step of its check loop after another.                    *)

(* A report: the response carries the oldest command, and may be lost.     *)
Consume_Once(id) ==
    /\ registry' = [Gc(registry) EXCEPT ![id].acked = TRUE]
    /\ agent' = [Idle EXCEPT !.stage = "received", !.id = id]
Consume(id) ==
    /\ registry' = Gc(registry)
    /\ agent' = [Idle EXCEPT !.stage = "received", !.id = id]
Report(id) ==
    /\ agent.stage = "idle"
    /\ Oldest(id)
    /\ Consume(id)
    /\ UNCHANGED <<now, outbox, disk, mail, accepts, faults, history>>

(* Ids older than the window go, then the oldest until one more fits.      *)
Remembered == {i \in Ids : ledger[i] # None /\ ledger[i].at + Window >= now}
Pruned ==
    {keep \in SUBSET Remembered :
        /\ Cardinality(keep) = IF Cardinality(Remembered) < LedgerCap
                               THEN Cardinality(Remembered) ELSE LedgerCap - 1
        /\ \A i \in keep, j \in Remembered \ keep : ledger[j].nth <= ledger[i].nth}

Answer(outcome) == agent' = [agent EXCEPT !.stage = "done", !.outcome = outcome]

(* TriggerCheckNow: the id is on disk before the check starts.             *)
Begin_NotSaved(keep) ==
    /\ agent.id \notin keep
    /\ ledger' = [i \in Ids |-> IF i \in keep THEN ledger[i] ELSE None]
    /\ checks' = checks + 1
    /\ agent' = [agent EXCEPT !.stage = "checking"]
    /\ began' = [began EXCEPT ![agent.id] = now]
    /\ UNCHANGED faults
Begin(keep) ==
    /\ agent.id \notin keep
    /\ ledger' = [i \in Ids |-> IF i = agent.id THEN [at |-> now, nth |-> checks + 1]
                                ELSE IF i \in keep THEN ledger[i] ELSE None]
    /\ checks' = checks + 1
    /\ agent' = [agent EXCEPT !.stage = "checking"]
    /\ began' = [began EXCEPT ![agent.id] = now]
    /\ UNCHANGED faults
Trigger ==
    /\ agent.stage = "received"
    /\ \E keep \in Pruned :
         \/ Begin(keep)
         \/ agent.id \in keep /\ Answer("duplicate") /\ UNCHANGED <<disk, began, faults>>
         \/ /\ agent.id \notin keep /\ Fault("ledger")
            /\ Answer("failed") /\ UNCHANGED <<disk, began>>
    /\ dealt' = [dealt EXCEPT ![agent.id] = now]
    /\ UNCHANGED <<now, dashboard, mail, accepts, accepted>>

(* The check itself ends within its deadline, one way or another.          *)
Check ==
    /\ agent.stage = "checking"
    /\ \E outcome \in Outcomes \ {"duplicate"} : Answer(outcome)
    /\ UNCHANGED <<now, dashboard, disk, mail, accepts, faults, history>>

(* ReportForceUpdateCompletion: sent once, its errors only logged.         *)
Complete ==
    /\ agent.stage = "done"
    /\ \/ mail' = mail \cup {[id |-> agent.id, outcome |-> agent.outcome]} /\ UNCHANGED faults
       \/ Fault("loss") /\ UNCHANGED mail
    /\ agent' = Idle
    /\ UNCHANGED <<now, dashboard, disk, accepts, history>>

(* A lost report response, a crash, or the installer restarting the        *)
(* service.                                                                *)
AgentRestart ==
    /\ agent.stage # "idle"
    /\ Fault("crash")
    /\ agent' = Idle
    /\ UNCHANGED <<now, dashboard, disk, mail, accepts, history>>

(* A report and the check it leads to take minutes at most, the window a   *)
(* day: one unit of the clock is an hour, and they stay within one.        *)
Tick ==
    /\ now < MaxNow
    /\ agent.stage = "idle" /\ mail = {}
    /\ now' = now + 1
    /\ UNCHANGED <<dashboard, disk, agent, mail, accepts, faults, history>>
-----------------------------------------------------------------------------
Next ==
    \/ \E id \in Ids : Enqueue(id) \/ Report(id)
    \/ \E m \in mail : HandleCompletion(m)
    \/ Trigger \/ Check \/ Complete
    \/ DashboardRestart \/ AgentRestart
    \/ Tick

Spec == Init /\ [][Next]_vars

(* The service loop polls for ever and finishes each check; the HTTP       *)
(* server handles the requests that reach it.                              *)
Fairness ==
    /\ WF_vars(\E id \in Ids : Report(id))
    /\ WF_vars(Trigger) /\ WF_vars(Check) /\ WF_vars(Complete)
    /\ WF_vars(\E m \in mail : HandleCompletion(m))

FairSpec == Spec /\ Fairness
-----------------------------------------------------------------------------
(* No command starts the updater twice within a day, however often it is   *)
(* delivered: the ledger is written before the check begins                *)
(* (updater_windows.go:167-185).                                           *)
Starts(id) == agent.stage = "received" /\ agent.id = id /\ agent'.stage = "checking"
AtMostOnce ==
    [][\A id \in Ids : Starts(id) => began[id] = None \/ began[id] + Window < now]_vars

(* A restarted dashboard delivers exactly what the old process would still *)
(* have delivered: nothing accepted is lost, nothing acknowledged returns  *)
(* (forceupdate.go:78-96 and 194-209).                                     *)
OutboxIsPending ==
    {i \in Ids : outbox[i] # None /\ Fresh(outbox[i])} = Pending

(* A command is acknowledged only when the agent has answered it: it ran,  *)
(* now or earlier in the window, or the agent said why it could not        *)
(* (check.go:402-411, forceupdate.go:161-209).                             *)
Answered(id, at) == dealt[id] # None /\ dealt[id] + Window >= at
AcknowledgedIsAnswered ==
    \A i \in Ids : registry[i] # None /\ registry[i].acked => Answered(i, registry[i].at)

(* Every accepted command is answered and acknowledged, or expires, past   *)
(* lost answers, failed writes and restarts (forceupdate.go:161-175).      *)
EveryCommandSettles ==
    \A id \in Ids :
        id \in Pending ~>
            /\ accepted[id] # None
            /\ \/ id \notin Pending /\ Answered(id, accepted[id].at)
               \/ accepted[id].at + Window <= now

(* A replay within the window is answered as a duplicate                   *)
(* (handlers_forceupdate.go:55-57).                                        *)
ReplayIsDuplicate ==
    [][\A id \in Ids : accepted'[id] # accepted[id] =>
          accepted[id] = None \/ accepted[id].at + Window <= now]_vars
=============================================================================
