--------------------------- MODULE SnapshotStore ---------------------------
(***************************************************************************)
(* The session snapshot of one host, from the agent that numbers it to the *)
(* view the dashboard keeps.  An agent reserves an instance in its own     *)
(* database when it starts and counts its snapshots; the dashboard fences  *)
(* out every earlier instance, keeps the last attempt, the last success    *)
(* and its rows, and purges them by age or when the visibility changes.    *)
(* Snapshots arrive late, out of order, or never; clocks are set back.     *)
(*                                                                         *)
(* internal/telemetry/session_store.go, session_generation.go,             *)
(* session_queries.go and session_workload.go, internal/svc/check.go,      *)
(* internal/dashboard/handlers_sessions.go.                                *)
(***************************************************************************)
EXTENDS Naturals, FiniteSets

CONSTANTS
    Privacies,      \* visibility policies
    Retention,      \* retention of snapshots
    MaxInstance,    \* bound: instances, which are also the agent's clock
    MaxSequence,    \* bound: snapshots of one instance
    MaxWall         \* bound: the dashboard's clock

ASSUME SnapshotAssumption ==
    /\ MaxInstance \in Nat \ {0} /\ MaxSequence \in Nat /\ MaxWall \in Nat \ {0}
    /\ Retention \in Nat

VARIABLES
    agentClock,   \* the clock a new instance is made from
    reserved,     \* session_generation_fence in the agent's database
    agent,        \* sessionRuntime: its instance and last sequence
    sent,         \* snapshots on their way, and handlers still at work
    fence,        \* session_generation_fence in the dashboard's database
    attempt,      \* session_snapshots: latest_attempt_*; inst = 0 for no row
    success,      \* session_snapshots: last_success_*; inst = 0 for NULL
    latest,       \* session_latest: the snapshot its rows come from
    workload,     \* session_workload_raw: the snapshot of each minute
    policy,       \* the visibility in config.json
    serving,      \* << the visibility before >> of a change being served
    due,          \* the visibility was changed and nothing purged for it
    wall,         \* the dashboard's clock
    accepted      \* history: the highest instance ever accepted

agentSide == <<agentClock, reserved, agent>>
view == <<fence, attempt, success, latest, workload>>
policySide == <<policy, serving, due>>
snapshotVars == <<agentSide, sent, view, policySide, wall, accepted>>

Snapshot == [inst : 1..MaxInstance, seq : 1..MaxSequence, fatal : BOOLEAN]
Stored == [inst : 0..MaxInstance, seq : 0..MaxSequence, at : 0..MaxWall]
NoStored == [inst |-> 0, seq |-> 0, at |-> 0]
Rows == [inst : 0..MaxInstance, seq : 0..MaxSequence,
         seen : Privacies \union {"none"}]
NoRows == [inst |-> 0, seq |-> 0, seen |-> "none"]

SnapshotTypeOK ==
    /\ agentClock \in 1..MaxInstance /\ reserved \in 0..MaxInstance
    /\ agent \in [inst : 0..MaxInstance, seq : 0..MaxSequence]
    /\ sent \subseteq Snapshot
    /\ fence \in 0..MaxInstance
    /\ attempt \in Stored /\ success \in Stored /\ latest \in Rows
    /\ workload \in [1..MaxWall -> Stored]
    /\ policy \in Privacies /\ due \in BOOLEAN
    /\ serving = <<>> \/ serving[1] \in Privacies
    /\ wall \in 1..MaxWall
    /\ accepted \in 0..MaxInstance

SnapshotInit ==
    /\ agentClock = 1 /\ reserved = 0
    /\ agent = [inst |-> 0, seq |-> 0]
    /\ sent = {} /\ fence = 0
    /\ attempt = NoStored /\ success = NoStored /\ latest = NoRows
    /\ workload = [t \in 1..MaxWall |-> NoStored]
    /\ policy \in Privacies /\ serving = <<>> /\ due = FALSE
    /\ wall = 1 /\ accepted = 0

(********************************* The agent *******************************)

\* Mutant: the new instance is the clock's, whatever was reserved before.
Candidate_ClockOnly == agentClock

\* newSessionUUIDv7 from the clock, or nextSessionUUIDv7 of the reserved one.
Candidate == IF agentClock > reserved THEN agentClock ELSE reserved + 1

\* ReserveSessionInstanceID, when the service starts.
StartAgent ==
    /\ Candidate <= MaxInstance
    /\ reserved' = Candidate
    /\ agent' = [inst |-> Candidate, seq |-> 0]
    /\ UNCHANGED <<agentClock, sent, view, policySide, wall, accepted>>

\* The agent's clock is set, forward or back.
SetAgentClock ==
    /\ agentClock' \in 1..MaxInstance
    /\ UNCHANGED <<reserved, agent, sent, view, policySide, wall, accepted>>

\* sessionRuntime.Report: the sequence goes up whether or not the collection
\* succeeds, and whether or not the snapshot will arrive.
ReportSnapshot ==
    /\ agent.inst # 0 /\ agent.seq < MaxSequence
    /\ agent' = [agent EXCEPT !.seq = @ + 1]
    /\ \E f \in BOOLEAN :
          sent' = sent \union {[inst |-> agent.inst, seq |-> agent.seq + 1,
                                fatal |-> f]}
    /\ UNCHANGED <<agentClock, reserved, view, policySide, wall, accepted>>

LoseSnapshot(s) ==
    /\ s \in sent
    /\ sent' = sent \ {s}
    /\ UNCHANGED <<agentSide, view, policySide, wall, accepted>>

(******************************* The dashboard *****************************)

\* Mutant: the order of instances is read off the row, which a purge deletes.
Superseded_ByRow(s) == s.inst < attempt.inst

Superseded(s) == s.inst < fence

\* The same instance already sent one that is not older.
Repeated(s) ==
    /\ s.inst = fence /\ attempt.inst = s.inst /\ attempt.seq >= s.seq

\* A fatal attempt leaves the last success and its rows.
ApplyFatal(s) ==
    /\ attempt' = [inst |-> s.inst, seq |-> s.seq, at |-> wall]
    /\ UNCHANGED <<success, latest>>

\* The rows are projected by the policy read under sessionPolicyMu.
ApplySuccess(s) ==
    /\ attempt' = [inst |-> s.inst, seq |-> s.seq, at |-> wall]
    /\ success' = [inst |-> s.inst, seq |-> s.seq, at |-> wall]
    /\ latest' = [inst |-> s.inst, seq |-> s.seq, seen |-> policy]

\* SessionSnapshotStore.Apply, one transaction, in ingestSessionSnapshot,
\* which reads the policy under sessionPolicyMu.
Apply(s) ==
    /\ s \in sent /\ serving = <<>>
    /\ sent' = sent \ {s}
    /\ IF Superseded(s) \/ Repeated(s)
       THEN UNCHANGED <<view, accepted>>
       ELSE /\ fence' = s.inst
            /\ IF s.fatal THEN ApplyFatal(s) ELSE ApplySuccess(s)
            /\ workload' = [workload EXCEPT ![wall] =
                               [inst |-> s.inst, seq |-> s.seq, at |-> wall]]
            /\ accepted' = IF s.inst > accepted THEN s.inst ELSE accepted
    /\ UNCHANGED <<agentSide, policySide, wall>>

\* COALESCE(last_success, latest_attempt) is before the cutoff.
Outlived ==
    /\ attempt # NoStored
    /\ wall - (IF success # NoStored THEN success.at ELSE attempt.at) > Retention

\* Whatever the rows were projected by, none of them is left.
DropView ==
    /\ attempt' = NoStored /\ success' = NoStored /\ latest' = NoRows
    /\ due' = FALSE
    /\ UNCHANGED <<fence, workload>>

\* PurgeSnapshots; the fence is not part of what is purged.
PurgeSnapshots ==
    /\ Outlived
    /\ DropView
    /\ UNCHANGED <<agentSide, sent, policy, serving, wall, accepted>>

\* handlePutSettings has saved another visibility and keeps sessionPolicyMu.
SaveVisibility ==
    /\ serving = <<>>
    /\ \E q \in Privacies : q # policy /\ policy' = q
    /\ serving' = <<policy>>
    /\ UNCHANGED <<agentSide, sent, view, due, wall, accepted>>

\* The purge; a step that fails after it still ends in the rollback.
PurgeForVisibility ==
    /\ serving # <<>> /\ serving' = <<>>
    /\ policy' \in {policy, serving[1]}
    /\ DropView
    /\ UNCHANGED <<agentSide, sent, wall, accepted>>

\* The purge fails: what the old visibility projected stays, and so does it.
RollBackVisibility ==
    /\ serving # <<>> /\ serving' = <<>>
    /\ policy' = serving[1]
    /\ UNCHANGED <<agentSide, sent, view, due, wall, accepted>>

\* config.json is edited by something else than the dashboard.
EditVisibility ==
    /\ serving = <<>>
    /\ \E q \in Privacies : q # policy /\ policy' = q
    /\ due' = TRUE
    /\ UNCHANGED <<agentSide, sent, view, serving, wall, accepted>>

\* A reload of the service that finds another visibility than its loop knew
\* purges, under the mutex that Apply's caller also takes.  One that knew it
\* already, or fails to purge, changes nothing here.
ReloadVisibility ==
    /\ serving = <<>>
    /\ DropView
    /\ UNCHANGED <<agentSide, sent, policy, serving, wall, accepted>>

\* The service ends between the save and the purge.  The next start purges
\* nothing.
CrashInChange ==
    /\ serving # <<>> /\ serving' = <<>>
    /\ due' = TRUE
    /\ UNCHANGED <<agentSide, sent, view, policy, wall, accepted>>

WallTick ==
    /\ wall < MaxWall /\ wall' = wall + 1
    /\ UNCHANGED <<agentSide, sent, view, policySide, accepted>>

SnapshotNext ==
    \/ StartAgent \/ SetAgentClock \/ ReportSnapshot
    \/ \E s \in sent : LoseSnapshot(s) \/ Apply(s)
    \/ PurgeSnapshots \/ WallTick
    \/ SaveVisibility \/ PurgeForVisibility \/ RollBackVisibility
    \/ EditVisibility \/ ReloadVisibility \/ CrashInChange

SnapshotSpec == SnapshotInit /\ [][SnapshotNext]_snapshotVars

(********************************* Properties ******************************)

\* An agent that runs is never fenced out by its own past, however often it
\* restarted and wherever its clock was set.
RunningIsCurrent == agent.inst # 0 => fence <= agent.inst

\* Nothing of an earlier process is taken once a later one was heard, also
\* after a purge has deleted every row of the later one.
PredecessorNeverReturns ==
    attempt # NoStored => attempt.inst = accepted

\* What an operator reads is one snapshot: the rows are those of the last
\* success, projected by the visibility in config.json unless its change is
\* being served or is still to be purged for, and no attempt is older.
ViewIsOneSnapshot ==
    /\ latest.inst = success.inst /\ latest.seq = success.seq
    /\ latest # NoRows /\ serving = <<>> /\ ~due => latest.seen = policy
    /\ latest # NoRows /\ serving # <<>> /\ ~due => latest.seen = serving[1]
    /\ success.inst = attempt.inst => success.seq <= attempt.seq
    /\ success.inst <= attempt.inst

\* What operators see of a host is one snapshot of the agent process last
\* heard, whatever is delayed, repeated or purged (session_store.go, Apply).
ViewFollowsTheAgent == PredecessorNeverReturns /\ ViewIsOneSnapshot
=============================================================================
