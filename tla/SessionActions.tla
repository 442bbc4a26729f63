--------------------------- MODULE SessionActions ---------------------------
(***************************************************************************)
(* Remote session commands (disconnect, logoff, message): an operator asks *)
(* the dashboard for one, the dashboard keeps it in a durable outbox and   *)
(* hands it to the agent of the target host in the response to a heartbeat *)
(* report, the agent claims it in a durable ledger, calls WTS, records the *)
(* outcome and sends it with a later report until the dashboard            *)
(* acknowledges it.                                                        *)
(*                                                                         *)
(* Dashboard: internal/telemetry/session_action_store.go and the handlers  *)
(* of internal/dashboard.  Agent: sessions_actions_windows.go,             *)
(* internal/telemetry/session_action_ledger.go, internal/svc/check.go.     *)
(* Every SQLite transaction is one step; a report handler is one step per  *)
(* transaction, so handlers interleave with each other, with the operator  *)
(* and with the agents.                                                    *)
(***************************************************************************)
EXTENDS Integers, FiniteSets

CONSTANTS
    Hosts,       \* machines that run an agent
    LocalHosts,  \* the one of them whose service runs the dashboard too, if any
    Actions,     \* action ids: uuid.NewV7 never returns one twice
    Keys,        \* idempotency keys (requester, endpoint and key together)
    TTL,         \* sessionActionTTL: life of a command, on the dashboard's clock
    Retention,   \* sessions.retention_hours on the dashboard
    LedgerRetention, \* sessions.retention_hours on the agents
    Skew,        \* how far an agent's clock may be from the dashboard's
    BatchLimit,  \* MaxSessionActionCommands
    MaxTime,     \* bound: the last instant explored
    MaxLogon,    \* bound: how often the target session is replaced
    MaxStray,    \* bound: report handlers running after their client gave up
    NoAction     \* the id of no command

ASSUME ConstantsAssumption ==
    /\ Hosts # {} /\ LocalHosts \subseteq Hosts /\ Keys # {} /\ NoAction \notin Actions
    /\ TTL \in Nat /\ Retention \in Nat /\ LedgerRetention \in Nat /\ Skew \in Nat
    /\ BatchLimit \in Nat \ {0}
    /\ MaxTime \in Nat /\ MaxLogon \in Nat /\ MaxStray \in Nat

(* Ledger rows outlive their commands by the retention, which must cover   *)
(* the disagreement of the clocks.  The code's smallest retention is one   *)
(* hour (config.go MinSessionsRetentionHours).                             *)
ASSUME ClockAssumption == 2 * Skew <= LedgerRetention

VARIABLES
    (* dashboard: durable *)
    enabled,      \* sessions.enabled /\ sessions.allow_actions in config.json
    seen,         \* host -> logon of the target session in session_latest, or NoLogon
    issued,       \* history: ids handed out by Enqueue
    cmd,          \* id -> the immutable fields of its command
    outbox,       \* id -> session_action_outbox.state, "absent" without a row
    doneAt,       \* id -> completed_at_ms
    handed,       \* history: ids that were part of a report response
    (* report requests *)
    request,      \* host -> the report its agent is waiting for
    stray,        \* handlers whose agent timed out or restarted
    (* agents: durable *)
    ledger,       \* host -> id -> session_action_ledger row: "none", "claimed" or an outcome
    (* agents: memory *)
    completions,  \* host -> sessionRuntime.completions
    acks,         \* host -> acknowledged ids not yet applied
    batch,        \* host -> delivered ids not yet executed
    job,          \* host -> the action Execute is working on
    (* the machines *)
    logon,        \* host -> logon instant of the session now in the target slot
    effects,      \* id -> successful WTS calls made for it
    now           \* the dashboard's clock

dashboardVars == <<enabled, seen, issued, cmd, outbox, doneAt, handed>>
agentVars == <<completions, acks, batch, job>>
vars == <<dashboardVars, request, stray, ledger, agentVars, logon, effects, now>>

NoLogon == -1
Active == {"queued", "delivered"}
Outcomes == {"completed", "failed", "expired", "session_changed"}
States == Active \cup Outcomes \cup {"absent"}

(* "duplicate" is what the agent answers for an id its ledger has claimed  *)
(* without an outcome.                                                     *)
Completion == [id : Actions, outcome : Outcomes \cup {"duplicate"}]
Command == [host : Hosts, key : Keys, logon : Int, created : Int]
Request == [host : Hosts, stage : {"none", "new", "complete", "reject", "done"},
            todo : SUBSET Completion, acked : SUBSET Actions, pending : SUBSET Actions]

NoRequest(h) == [host |-> h, stage |-> "none", todo |-> {}, acked |-> {}, pending |-> {}]
NoJob == [id |-> NoAction, step |-> "none", outcome |-> "failed"]
Job == [id : Actions, step : {"lookup", "call", "record"}, outcome : Outcomes] \cup {NoJob}

Expires(a) == cmd[a].created + TTL
Clock == (now - Skew) .. (now + Skew)      \* what an agent may read as the time
Idle(h) == /\ request[h].stage = "none"
           /\ acks[h] = {} /\ batch[h] = {} /\ job[h].step = "none"

TypeOK ==
    /\ enabled \in BOOLEAN
    /\ seen \in [Hosts -> Int]
    /\ issued \subseteq Actions
    /\ cmd \in [Actions -> Command]
    /\ outbox \in [Actions -> States]
    /\ doneAt \in [Actions -> Int]
    /\ handed \subseteq Actions
    /\ request \in [Hosts -> Request] /\ \A h \in Hosts : request[h].host = h
    /\ stray \subseteq Request
    /\ ledger \in [Hosts -> [Actions -> Outcomes \cup {"none", "claimed"}]]
    /\ completions \in [Hosts -> SUBSET Completion]
    /\ acks \in [Hosts -> SUBSET Actions]
    /\ batch \in [Hosts -> SUBSET Actions]
    /\ job \in [Hosts -> Job]
    /\ logon \in [Hosts -> Int]
    /\ effects \in [Actions -> Nat]
    /\ now \in Int

Init ==
    /\ enabled = TRUE
    /\ seen = [h \in Hosts |-> NoLogon]
    /\ issued = {} /\ handed = {}
    /\ cmd = [a \in Actions |-> [host |-> CHOOSE h \in Hosts : TRUE,
                                 key |-> CHOOSE k \in Keys : TRUE,
                                 logon |-> NoLogon, created |-> 0]]
    /\ outbox = [a \in Actions |-> "absent"]
    /\ doneAt = [a \in Actions |-> 0]
    /\ request = [h \in Hosts |-> NoRequest(h)]
    /\ stray = {}
    /\ ledger = [h \in Hosts |-> [a \in Actions |-> "none"]]
    /\ completions = [h \in Hosts |-> {}]
    /\ acks = [h \in Hosts |-> {}]
    /\ batch = [h \in Hosts |-> {}]
    /\ job = [h \in Hosts |-> NoJob]
    /\ logon = [h \in Hosts |-> 0]
    /\ effects = [a \in Actions |-> 0]
    /\ now = 0
-----------------------------------------------------------------------------
(* Outbox transactions.                                                    *)

Due_QueuedOnly == {a \in Actions : outbox[a] = "queued" /\ Expires(a) <= now}
Due == {a \in Actions : outbox[a] \in Active /\ Expires(a) <= now}

(* Every id of ids leaves the active states for state s at the present time. *)
Close(ids, s, box) == [a \in Actions |-> IF a \in ids THEN s ELSE box[a]]
Stamp(ids) == [a \in Actions |-> IF a \in ids THEN now ELSE doneAt[a]]

ExpireDue ==
    /\ outbox' = Close(Due, "expired", outbox)
    /\ doneAt' = Stamp(Due)

(* A snapshot of the host reaches the dashboard, or its retention ends.    *)
IngestSnapshot(h) ==
    /\ seen' = [seen EXCEPT ![h] = logon[h]]
    /\ UNCHANGED <<enabled, issued, cmd, outbox, doneAt, handed, request, stray,
                   ledger, agentVars, logon, effects, now>>

PurgeSnapshot(h) ==
    /\ seen' = [seen EXCEPT ![h] = NoLogon]
    /\ UNCHANGED <<enabled, issued, cmd, outbox, doneAt, handed, request, stray,
                   ledger, agentVars, logon, effects, now>>

(* A row with the same key is answered instead of inserting a second one   *)
(* (replay or conflict), and the target must be the session in the latest  *)
(* snapshot.  A rejected request changes nothing.                          *)
TargetSeen(h, l) == l # NoLogon /\ seen[h] = l
EnqueueGuard_NoReplay(h, k, l) == enabled /\ TargetSeen(h, l)
EnqueueGuard(h, k, l) ==
    /\ \A b \in Actions : outbox[b] # "absent" => cmd[b].key # k
    /\ enabled /\ TargetSeen(h, l)

Enqueue(a, h, k, l) ==
    /\ a \notin issued
    /\ now + TTL <= MaxTime
    /\ EnqueueGuard(h, k, l)
    /\ issued' = issued \cup {a}
    /\ cmd' = [cmd EXCEPT ![a] = [host |-> h, key |-> k, logon |-> l, created |-> now]]
    /\ outbox' = [outbox EXCEPT ![a] = "queued"]
    /\ UNCHANGED <<enabled, seen, doneAt, handed, request, stray,
                   ledger, agentVars, logon, effects, now>>

(* A status poll, and the first call of several handlers.                  *)
Expire ==
    /\ ExpireDue
    /\ UNCHANGED <<enabled, seen, issued, cmd, handed, request, stray,
                   ledger, agentVars, logon, effects, now>>

(* The configuration file changes: settings page, command line or editor.  *)
SetPolicy(b) ==
    /\ enabled' = b
    /\ UNCHANGED <<seen, issued, cmd, outbox, doneAt, handed, request, stray,
                   ledger, agentVars, logon, effects, now>>

CancelActive ==
    LET active == {a \in Actions : outbox[a] \in Active}
    IN  /\ outbox' = Close(active, "expired", outbox)
        /\ doneAt' = Stamp(active)

(* Actions were switched off: the settings handler or the reload of the    *)
(* service loop cancels what is active.                                    *)
CancelForPolicy ==
    /\ CancelActive
    /\ UNCHANGED <<enabled, seen, issued, cmd, handed, request, stray,
                   ledger, agentVars, logon, effects, now>>

(* The visibility changed: the snapshots go in the same transaction.       *)
PurgeForPrivacy ==
    /\ CancelActive
    /\ seen' = [h \in Hosts |-> NoLogon]
    /\ UNCHANGED <<enabled, issued, cmd, handed, request, stray,
                   ledger, agentVars, logon, effects, now>>

(* Terminal rows older than the retention are deleted, at most a bounded   *)
(* number in one pass: old is what this pass takes.                        *)
Retainable == {a \in Actions : outbox[a] \in Outcomes /\ doneAt[a] < now - Retention}
Retain ==
    \E old \in SUBSET Retainable :
        /\ old # {}
        /\ outbox' = Close(old, "absent", outbox)
        /\ UNCHANGED <<enabled, seen, issued, cmd, doneAt, handed, request, stray,
                       ledger, agentVars, logon, effects, now>>
-----------------------------------------------------------------------------
(* Report handlers.  A handler works on the request of a waiting agent or  *)
(* on a stray one.                                                         *)

Advance(r, next) ==
    \/ /\ r = request[r.host]
       /\ request' = [request EXCEPT ![r.host] = next]
       /\ UNCHANGED stray
    \/ /\ r \in stray
       /\ stray' = (stray \ {r}) \cup (IF next.stage = "done" THEN {} ELSE {next})
       /\ UNCHANGED request

(* completeSessionActions expires what is due before it looks at the       *)
(* completions, and does nothing when there is none.                       *)
BeginReport(r) ==
    /\ r.stage = "new"
    /\ Advance(r, [r EXCEPT !.stage = "complete"])
    /\ IF r.todo = {} THEN UNCHANGED <<outbox, doneAt>> ELSE ExpireDue
    /\ UNCHANGED <<enabled, seen, issued, cmd, handed, ledger, agentVars, logon, effects, now>>

(* The verdict on one completion, on the outbox as it is after expiry.     *)
Accepted(c, host) ==
    /\ outbox[c.id] = "delivered" /\ c.id \notin Due
    /\ cmd[c.id].host = host
    /\ c.outcome # "duplicate"
Replayed_NotDuplicate(c, host) ==
    /\ outbox[c.id] \in Outcomes \/ c.id \in Due
    /\ cmd[c.id].host = host
    /\ c.outcome # "duplicate"
Replayed(c, host) ==
    /\ outbox[c.id] \in Outcomes \/ c.id \in Due
    /\ cmd[c.id].host = host

(* An unknown id rolls the transaction back; any other completion commits  *)
(* the expiry.  Only accepted and replayed completions are acknowledged.   *)
CompleteOne(r, c) ==
    /\ r.stage = "complete" /\ c \in r.todo
    /\ LET ok == Accepted(c, r.host)
           acked == IF ok \/ Replayed(c, r.host) THEN r.acked \cup {c.id} ELSE r.acked
           closed == IF ok THEN {c.id} ELSE {}
       IN  /\ Advance(r, [r EXCEPT !.todo = @ \ {c}, !.acked = acked])
           /\ IF outbox[c.id] = "absent"
              THEN UNCHANGED <<outbox, doneAt>>
              ELSE /\ outbox' = Close(closed, c.outcome, Close(Due, "expired", outbox))
                   /\ doneAt' = Stamp(Due \cup closed)
    /\ UNCHANGED <<enabled, seen, issued, cmd, handed, ledger, agentVars, logon, effects, now>>

(* The oldest active rows of a host, at most BatchLimit of them.           *)
Deliverable(h) == {a \in Actions : outbox[a] \in Active /\ a \notin Due /\ cmd[a].host = h}
IsOldest(S, all) ==
    /\ S \subseteq all
    /\ \A a \in S, b \in all \ S : cmd[a].created <= cmd[b].created
    /\ Cardinality(S) <= BatchLimit
    /\ S = all \/ Cardinality(S) = BatchLimit

(* S is marked delivered.  bad are the commands of S whose message cannot  *)
(* be decrypted or that fail validation (a logon later than the expiry,    *)
(* with skewed clocks): each is then completed as failed.                  *)
Deliver(r, S, bad) ==
    /\ outbox' = Close(S, "delivered", Close(Due, "expired", outbox))
    /\ doneAt' = Stamp(Due)
    /\ handed' = handed \cup (S \ bad)
    /\ Advance(r, [r EXCEPT !.stage = IF bad = {} THEN "done" ELSE "reject",
                            !.todo = [id : bad, outcome : {"failed"}],
                            !.pending = S \ bad])

(* deliverSessionActions holds the policy mutex from the read of the       *)
(* configuration to the end.  The dashboard's own agent has applied its    *)
(* acknowledgements before it asks for a delivery.                         *)
DeliverReport(r) ==
    /\ r.stage = "complete" /\ r.todo = {}
    /\ r.host \in LocalHosts => r.acked = {} /\ acks[r.host] = {}
    /\ \/ /\ ~enabled
          /\ Advance(r, [r EXCEPT !.stage = "done"])
          /\ UNCHANGED <<outbox, doneAt, handed>>
       \/ /\ enabled
          /\ \E S \in SUBSET Deliverable(r.host) :
                IsOldest(S, Deliverable(r.host)) /\ \E bad \in SUBSET S : Deliver(r, S, bad)
    /\ UNCHANGED <<enabled, seen, issued, cmd, ledger, agentVars, logon, effects, now>>

RejectOne(r, c) ==
    /\ r.stage = "reject" /\ c \in r.todo
    /\ outbox[c.id] # "absent"
    /\ LET closed == IF Accepted(c, r.host) THEN {c.id} ELSE {}
       IN  /\ outbox' = Close(closed, c.outcome, Close(Due, "expired", outbox))
           /\ doneAt' = Stamp(Due \cup closed)
    /\ Advance(r, [r EXCEPT !.todo = @ \ {c},
                            !.stage = IF r.todo = {c} THEN "done" ELSE "reject"])
    /\ UNCHANGED <<enabled, seen, issued, cmd, handed, ledger, agentVars, logon, effects, now>>

(* The handler ends early: a store error answered with 503, a gate on the  *)
(* roster, the context of a gone client, a restart of the dashboard.       *)
AbandonStray(r) ==
    /\ r \in stray
    /\ stray' = stray \ {r}
    /\ UNCHANGED <<dashboardVars, request, ledger, agentVars, logon, effects, now>>
-----------------------------------------------------------------------------
(* The agent of host h: one goroutine, the check of the service loop.      *)

(* cleanupActions, then the report with a copy of the completions.  The    *)
(* cleanup may fail or take some of the rows; the dashboard's own agent    *)
(* runs it after the check too, on the rows the next check would take.     *)
LedgerDue_AtExpiry(h, t) == {a \in Actions : ledger[h][a] # "none" /\ Expires(a) <= t}
LedgerDue(h, t) == {a \in Actions : ledger[h][a] # "none" /\ Expires(a) <= t - LedgerRetention}
SendReport(h) ==
    /\ Idle(h)
    /\ \E t \in Clock :
         \E old \in SUBSET LedgerDue(h, t) :
            ledger' = [ledger EXCEPT ![h] =
                         [a \in Actions |-> IF a \in old THEN "none" ELSE ledger[h][a]]]
    /\ request' = [request EXCEPT ![h] = [host |-> h, stage |-> "new", todo |-> completions[h],
                                          acked |-> {}, pending |-> {}]]
    /\ UNCHANGED <<dashboardVars, stray, agentVars, logon, effects, now>>

(* The agent stops waiting.  Its handler has ended or runs on.             *)
Orphan(h) ==
    /\ request' = [request EXCEPT ![h] = NoRequest(h)]
    /\ \/ UNCHANGED stray
       \/ /\ request[h].stage \in {"new", "complete", "reject"} /\ h \notin LocalHosts
          /\ Cardinality(stray) < MaxStray
          /\ stray' = stray \cup {request[h]}

(* The request times out, fails or gets an undecodable response: nothing   *)
(* of the response is applied.                                             *)
ReportFails(h) ==
    /\ request[h].stage # "none" /\ acks[h] = {}
    /\ Orphan(h)
    /\ UNCHANGED <<dashboardVars, ledger, agentVars, logon, effects, now>>

ReceiveResponse(h) ==
    /\ request[h].stage = "done"
    /\ acks' = [acks EXCEPT ![h] = request[h].acked]
    /\ batch' = [batch EXCEPT ![h] = request[h].pending]
    /\ request' = [request EXCEPT ![h] = NoRequest(h)]
    /\ UNCHANGED <<dashboardVars, stray, ledger, completions, job, logon, effects, now>>

(* applyLocalSessionActions: the dashboard's own agent gets the            *)
(* acknowledgements before the delivery, which may still fail.             *)
ReceiveAcks(h) ==
    /\ h \in LocalHosts
    /\ request[h].stage = "complete" /\ request[h].todo = {} /\ request[h].acked # {}
    /\ acks' = [acks EXCEPT ![h] = request[h].acked]
    /\ request' = [request EXCEPT ![h].acked = {}]
    /\ UNCHANGED <<dashboardVars, stray, ledger, completions, batch, job, logon, effects, now>>

(* acknowledgeCompletions: the ledger forgets a terminal row and the       *)
(* completion leaves the queue; a ledger error leaves both for a retry.    *)
Acknowledge(h, a) ==
    /\ a \in acks[h]
    /\ acks' = [acks EXCEPT ![h] = @ \ {a}]
    /\ ledger' = [ledger EXCEPT ![h][a] = IF @ \in Outcomes THEN "none" ELSE @]
    /\ completions' = [completions EXCEPT ![h] = {c \in @ : c.id # a}]
    /\ UNCHANGED <<dashboardVars, request, stray, batch, job, logon, effects, now>>

AcknowledgeFails(h, a) ==
    /\ a \in acks[h]
    /\ acks' = [acks EXCEPT ![h] = @ \ {a}]
    /\ UNCHANGED <<dashboardVars, request, stray, ledger, completions, batch, job,
                   logon, effects, now>>

(* A completion joins the queue unless one of the same id is there.        *)
QueueCompletion(h, a, o) ==
    completions' = [completions EXCEPT ![h] =
        IF \E c \in @ : c.id = a THEN @ ELSE @ \cup {[id |-> a, outcome |-> o]}]

HasRoom_Always(h) == TRUE
HasRoom(h) == Cardinality(completions[h]) < BatchLimit
IsNext(h, a) ==
    /\ acks[h] = {} /\ job[h].step = "none"
    /\ a \in batch[h]
    /\ \A b \in batch[h] : cmd[a].created <= cmd[b].created

(* No room for another completion: the rest of the response is dropped and *)
(* will be delivered again.                                                *)
DropBatch(h) ==
    /\ acks[h] = {} /\ job[h].step = "none" /\ batch[h] # {}
    /\ ~HasRoom(h)
    /\ batch' = [batch EXCEPT ![h] = {}]
    /\ UNCHANGED <<dashboardVars, request, stray, ledger, completions, acks, job,
                   logon, effects, now>>

Claim_AfterCrash(h, a) ==
    /\ IsNext(h, a) /\ HasRoom(h)
    /\ ledger[h][a] \in {"none", "claimed"}
    /\ batch' = [batch EXCEPT ![h] = @ \ {a}]
    /\ ledger' = [ledger EXCEPT ![h][a] = "claimed"]
    /\ \E t \in Clock :
          job' = [job EXCEPT ![h] =
                    [id |-> a, step |-> IF t >= Expires(a) THEN "record" ELSE "lookup",
                     outcome |-> "expired"]]
    /\ UNCHANGED <<dashboardVars, request, stray, completions, acks, logon, effects, now>>

(* The durable claim, before anything is looked up or done.                *)
Claim(h, a) ==
    /\ IsNext(h, a) /\ HasRoom(h)
    /\ ledger[h][a] = "none"
    /\ batch' = [batch EXCEPT ![h] = @ \ {a}]
    /\ ledger' = [ledger EXCEPT ![h][a] = "claimed"]
    /\ \E t \in Clock :
          job' = [job EXCEPT ![h] =
                    [id |-> a, step |-> IF t >= Expires(a) THEN "record" ELSE "lookup",
                     outcome |-> "expired"]]
    /\ UNCHANGED <<dashboardVars, request, stray, completions, acks, logon, effects, now>>

(* The id is in the ledger: WTS is not called again.  The recorded outcome *)
(* is reported again, or "duplicate" when there is none or the entry cannot*)
(* be read.                                                                *)
Recorded_AssumeDone(h, a) == IF ledger[h][a] = "claimed" THEN "completed" ELSE ledger[h][a]
Recorded(h, a) == IF ledger[h][a] = "claimed" THEN "duplicate" ELSE ledger[h][a]
ClaimRefused(h, a) ==
    /\ IsNext(h, a) /\ HasRoom(h)
    /\ ledger[h][a] # "none"
    /\ batch' = [batch EXCEPT ![h] = @ \ {a}]
    /\ \E o \in {Recorded(h, a), "duplicate"} : QueueCompletion(h, a, o)
    /\ UNCHANGED <<dashboardVars, request, stray, ledger, acks, job, logon, effects, now>>

(* The ledger cannot be written: the command is skipped.                   *)
ClaimFails(h, a) ==
    /\ IsNext(h, a) /\ HasRoom(h)
    /\ batch' = [batch EXCEPT ![h] = @ \ {a}]
    /\ UNCHANGED <<dashboardVars, request, stray, ledger, completions, acks, job,
                   logon, effects, now>>

(* The action has its outcome: what is left is to record it.               *)
Decide(h, o) == job' = [job EXCEPT ![h] = [id |-> job[h].id, step |-> "record", outcome |-> o]]

(* The logon of the target is compared, then the clock is read again.      *)
Lookup(h) ==
    /\ job[h].step = "lookup"
    /\ LET a == job[h].id
       IN  \/ Decide(h, "failed")
           \/ logon[h] # cmd[a].logon /\ Decide(h, "session_changed")
           \/ /\ logon[h] = cmd[a].logon
              /\ \E t \in Clock :
                    IF t >= Expires(a) THEN Decide(h, "expired")
                                       ELSE job' = [job EXCEPT ![h].step = "call"]
    /\ UNCHANGED <<dashboardVars, request, stray, ledger, completions, acks, batch,
                   logon, effects, now>>

(* The WTS call.                                                           *)
Call(h) ==
    /\ job[h].step = "call"
    /\ \/ /\ effects' = [effects EXCEPT ![job[h].id] = @ + 1]
          /\ Decide(h, "completed")
       \/ /\ Decide(h, "failed")
          /\ UNCHANGED effects
    /\ UNCHANGED <<dashboardVars, request, stray, ledger, completions, acks, batch, logon, now>>

(* recordTerminal: the outcome is durable before it is queued.  On a       *)
(* ledger error the row stays claimed and nothing is queued.               *)
Record(h) ==
    /\ job[h].step = "record"
    /\ job' = [job EXCEPT ![h] = NoJob]
    /\ \/ /\ ledger' = [ledger EXCEPT ![h][job[h].id] = job[h].outcome]
          /\ QueueCompletion(h, job[h].id, job[h].outcome)
       \/ UNCHANGED <<ledger, completions>>
    /\ UNCHANGED <<dashboardVars, request, stray, acks, batch, logon, effects, now>>

(* The agent's process ends and starts again: the ledger survives.         *)
Restart(h) ==
    /\ Orphan(h)
    /\ completions' = [completions EXCEPT ![h] = {}]
    /\ acks' = [acks EXCEPT ![h] = {}]
    /\ batch' = [batch EXCEPT ![h] = {}]
    /\ job' = [job EXCEPT ![h] = NoJob]
    /\ UNCHANGED <<dashboardVars, ledger, logon, effects, now>>
-----------------------------------------------------------------------------
(* The user of the target session logs off and another session takes its   *)
(* place.                                                                  *)
ReplaceSession(h) ==
    /\ logon[h] < MaxLogon
    /\ logon' = [logon EXCEPT ![h] = @ + 1]
    /\ UNCHANGED <<dashboardVars, request, stray, ledger, agentVars, effects, now>>

Tick ==
    /\ now < MaxTime
    /\ now' = now + 1
    /\ UNCHANGED <<dashboardVars, request, stray, ledger, agentVars, logon, effects>>

Running == {request[h] : h \in Hosts} \cup stray

Operator ==
    \/ \E a \in Actions, h \in Hosts, k \in Keys : Enqueue(a, h, k, seen[h])
    \/ \E b \in BOOLEAN : SetPolicy(b)
    \/ CancelForPolicy \/ PurgeForPrivacy \/ Expire \/ Retain

Handler(r) ==
    \/ BeginReport(r)
    \/ \E c \in r.todo : CompleteOne(r, c) \/ RejectOne(r, c)
    \/ DeliverReport(r)

Execution(h) ==
    \/ \E a \in acks[h] : Acknowledge(h, a) \/ AcknowledgeFails(h, a)
    \/ \E a \in batch[h] : Claim(h, a) \/ ClaimRefused(h, a) \/ ClaimFails(h, a)
    \/ DropBatch(h) \/ Lookup(h) \/ Call(h) \/ Record(h)

Next ==
    \/ Operator
    \/ \E r \in Running : Handler(r)
    \/ \E r \in stray : AbandonStray(r)
    \/ \E h \in Hosts : \/ IngestSnapshot(h) \/ PurgeSnapshot(h) \/ ReplaceSession(h)
                        \/ SendReport(h) \/ ReportFails(h) \/ ReceiveResponse(h) \/ ReceiveAcks(h)
                        \/ Execution(h) \/ Restart(h)
    \/ Tick

Spec == Init /\ [][Next]_vars
-----------------------------------------------------------------------------
(* A command has at most one successful WTS call, whatever is lost,        *)
(* repeated or restarted (session_action_ledger.go: "preventing an action  *)
(* from being re-executed after a process restart or a delivered-command   *)
(* retry").                                                                *)
EffectAtMostOnce == \A a \in Actions : effects[a] <= 1

(* What the operator is told is true of the machine: a command shown as    *)
(* completed did call WTS, one shown as session_changed did not, whichever *)
(* of the first report, a retry and a replay after a restart told it.      *)
OutcomeIsTrue ==
    \A a \in Actions :
        /\ outbox[a] = "completed" => effects[a] >= 1
        /\ outbox[a] = "session_changed" => effects[a] = 0

(* The completion queue fits in one report: a longer one is refused before *)
(* it is sent (ValidateCompletedSessionActions) and the agent would never  *)
(* report again.                                                           *)
QueueFitsReport == \A h \in Hosts : Cardinality(completions[h]) <= BatchLimit

(* A request repeated with the same key makes a second command only after  *)
(* the retention deleted the first: within it, a retried POST cannot log   *)
(* the same user off twice.                                                *)
RetryMakesNoSecondCommand ==
    \A a, b \in issued :
        (a # b /\ cmd[a].key = cmd[b].key) =>
            \/ cmd[a].created > cmd[b].created + Retention
            \/ cmd[b].created > cmd[a].created + Retention

(* A queued completion whose row is gone can never be acknowledged and     *)
(* holds one of the BatchLimit slots until the agent restarts.  That needs *)
(* an agent cut off for longer than the retention.                         *)
OrphanedOnlyAfterRetention ==
    \A h \in Hosts : \A c \in completions[h] :
        outbox[c.id] = "absent" => now > cmd[c.id].created + Retention

(* The first terminal state of a command is final: no late, repeated or    *)
(* replayed completion, expiry or cancellation replaces it, and a deleted  *)
(* row does not come back (Complete: "the first terminal state and audit   *)
(* transition remain authoritative").                                      *)
FirstOutcomeIsFinal ==
    [][\A a \in issued :
          /\ outbox[a] \in Outcomes => outbox'[a] \in {outbox[a], "absent"}
          /\ outbox[a] = "absent" => outbox'[a] = "absent"]_vars
(* The protocol keeps the promises of SessionActionLifecycle: the outbox   *)
(* and the WTS calls of every command, over all hosts and messages.        *)
Phase(a) ==
    CASE outbox[a] \in Active -> "open"
      [] outbox[a] \in Outcomes -> outbox[a]
      [] OTHER -> IF a \in issued THEN "forgotten" ELSE "new"
Lifecycle == INSTANCE SessionActionLifecycle WITH
    phase <- [a \in Actions |-> Phase(a)], runs <- effects
KeepsItsPromises == Lifecycle!Spec
-----------------------------------------------------------------------------
(* Fairness.  Time passes; the hourly retention pass of the dashboard runs *)
(* (runSessionRetention); the service loop keeps checking and Execute      *)
(* terminates; handlers, responses and ledger writes do not fail for ever. *)
(* Nothing is assumed of the operator, nor that any single report arrives. *)
(* Serve is a handler step for the waiting request, not for a stray twin.  *)
Serve(step) == step /\ request' # request
Fairness ==
    /\ WF_vars(Tick) /\ WF_vars(Expire)
    /\ \A h \in Hosts :
          /\ WF_vars(SendReport(h)) /\ WF_vars(Execution(h))
          /\ SF_vars(Serve(BeginReport(request[h])))
          /\ SF_vars(Serve(\E c \in request[h].todo : CompleteOne(request[h], c)))
          /\ SF_vars(Serve(DeliverReport(request[h])))
          /\ SF_vars(Serve(\E c \in request[h].todo : RejectOne(request[h], c)))
          /\ SF_vars(ReceiveResponse(h)) /\ SF_vars(ReceiveAcks(h))
          /\ SF_vars(\E a \in acks[h] : Acknowledge(h, a))
FairSpec == Spec /\ Fairness

(* Every command reaches a terminal state, delivered or not.               *)
EveryCommandCloses == \A a \in Actions : outbox[a] = "queued" ~> outbox[a] \notin Active

(* Every completion leaves the queue: no slot is held for ever, not even   *)
(* by an id the agent claimed and lost.  (Of a run whose instants end      *)
(* before the retention deletes a row.)                                    *)
QueueDrains ==
    \A h \in Hosts, a \in Actions :
        (\E c \in completions[h] : c.id = a) ~> ~(\E c \in completions[h] : c.id = a)
=============================================================================
