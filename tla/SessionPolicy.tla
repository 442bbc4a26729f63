---------------------------- MODULE SessionPolicy ----------------------------
(***************************************************************************)
(* The sessions policy of config.json on the host that runs the dashboard, *)
(* and the data that must follow it: the retained snapshot, taken under    *)
(* one visibility, and the session commands, accepted while actions were   *)
(* allowed.  Three writers change the policy: settings requests (PUT       *)
(* /api/v1/settings, one goroutine each), the service's reload, which only *)
(* applies what it reads, and anyone with an editor or the command line.   *)
(* The policy mutex sessionPolicyMu covers part of it.                     *)
(*                                                                         *)
(* internal/dashboard/handlers_settings.go and handlers_sessions.go,       *)
(* internal/svc/service_loop.go, internal/watcher.                         *)
(***************************************************************************)
EXTENDS Naturals

CONSTANTS
    Policies,    \* the policies anybody chooses from
    FirstPolicy, \* the one config.json holds at first
    Slots,       \* settings requests that may run at one time
    Commands,    \* session commands, each enqueued at most once
    Faults,      \* what may fail or happen, out of FaultKinds
    MaxPuts,     \* bound: settings requests
    MaxEdits,    \* bound: changes made outside the dashboard
    NoPolicy     \* no snapshot, no remote settings

FaultKinds == {"write", "purge", "rollback", "load", "fetch", "transition", "crash"}

Visibilities == {p.vis : p \in Policies}
(* A reload overlays one policy on another, so every mixture can be in use. *)
Mixtures == [enabled : BOOLEAN, allow : BOOLEAN, vis : Visibilities]

ASSUME PolicyAssumption ==
    /\ Policies \subseteq Mixtures
    /\ FirstPolicy \in Policies
    /\ NoPolicy \notin Policies /\ NoPolicy \notin Visibilities
    /\ Faults \subseteq FaultKinds
    /\ MaxPuts \in Nat /\ MaxEdits \in Nat

VARIABLES
    file,      \* the sessions block of config.json
    snapshot,  \* visibility the retained snapshot was reduced to, or NoPolicy
    cmd,       \* command -> "new", "active" or "closed"
    mutex,     \* sessionPolicyMu: "free", "put", or the handler that holds it
    read,      \* the policy that handler read under it
    put,       \* slot -> its settings request
    loop,      \* sessionsCfg of the service loop
    remote,    \* lastRemote of the service loop
    reload,    \* the reload in progress
    watching,  \* the watcher has its baseline
    dirty,     \* config.json changed since the watcher looked
    event,     \* the watcher's channel, of capacity one, holds a tick
    puts, edits, \* bounds
    crossed,   \* history: active commands that outlived a transition
    late       \* history: those of them handed to an agent afterwards

stored == <<file, snapshot, cmd>>
history == <<crossed, late>>
watch == <<watching, dirty, event>>
serviceLoop == <<loop, remote, reload>>
vars == <<stored, mutex, read, put, serviceLoop, watch, puts, edits, history>>

NoPut == [stage |-> "idle", before |-> FirstPolicy, next |-> FirstPolicy, found |-> FirstPolicy]
NoReload == [stage |-> "idle", new |-> FirstPolicy]

(* Requests inside the mutex.                                              *)
Inside == {s \in Slots : put[s].stage \in {"saved", "failed"}}

TypeOK ==
    /\ file \in Policies
    /\ snapshot \in Visibilities \cup {NoPolicy}
    /\ cmd \in [Commands -> {"new", "active", "closed"}]
    /\ mutex \in {"free", "put", "ingest", "enqueue", "deliver"}
    /\ read \in Policies
    /\ put \in [Slots -> [stage : {"idle", "loaded", "saved", "failed"},
                          before : Policies, next : Policies, found : Policies]]
    /\ loop \in Mixtures
    /\ remote \in Policies \cup {NoPolicy}
    /\ reload \in [stage : {"idle", "read", "merged"}, new : Mixtures]
    /\ watching \in BOOLEAN /\ dirty \in BOOLEAN /\ event \in BOOLEAN
    /\ puts \in 0..MaxPuts /\ edits \in 0..MaxEdits
    /\ crossed \subseteq Commands /\ late \subseteq Commands
    /\ mutex = "put" <=> Inside # {}
    /\ \A s, t \in Inside : s = t

Init ==
    /\ file = FirstPolicy /\ snapshot = NoPolicy
    /\ cmd = [c \in Commands |-> "new"]
    /\ mutex = "free" /\ read = FirstPolicy
    /\ put = [s \in Slots |-> NoPut]
    /\ loop = FirstPolicy /\ remote = NoPolicy /\ reload = NoReload
    /\ watching = TRUE /\ dirty = FALSE /\ event = FALSE
    /\ puts = 0 /\ edits = 0
    /\ crossed = {} /\ late = {}
-----------------------------------------------------------------------------
(* Transitions, the same in the settings handler and in the service loop.  *)
VisibilityChanged(old, new) == old.vis # new.vis
ActionsDisabled_SwitchOnly(old, new) == old.enabled /\ ~new.enabled
ActionsDisabled(old, new) ==
    \/ old.enabled /\ ~new.enabled
    \/ old.allow /\ ~new.allow
Transition(old, new) == VisibilityChanged(old, new) \/ ActionsDisabled(old, new)

(* The same for the history: what a command was accepted under has ended.  *)
Allowed(p) == p.enabled /\ p.allow
Ends(old, new) == old.vis # new.vis \/ (Allowed(old) /\ ~Allowed(new))
StillOpen == {c \in Commands : cmd[c] = "active"}
CancelOpen == cmd' = [c \in Commands |-> IF cmd[c] = "active" THEN "closed" ELSE cmd[c]]

(* A change of visibility purges the snapshot and cancels the commands in  *)
(* one transaction; actions switched off cancel the commands.              *)
Settle_CancelFirst(old, new) ==
    IF Transition(old, new)
    THEN CancelOpen /\ snapshot' = IF ActionsDisabled(old, new) THEN snapshot ELSE NoPolicy
    ELSE UNCHANGED <<cmd, snapshot>>
Settle(old, new) ==
    IF Transition(old, new)
    THEN CancelOpen /\ snapshot' = IF VisibilityChanged(old, new) THEN NoPolicy ELSE snapshot
    ELSE UNCHANGED <<cmd, snapshot>>

(* The file is replaced: the watcher's directory handle is signalled.      *)
Replace(p) == file' = p /\ dirty' = watching
-----------------------------------------------------------------------------
(* PUT /api/v1/settings with a sessions block.                             *)

(* settingsBefore is loaded before the mutex is taken.                     *)
PutLoad(s, p) ==
    /\ watching /\ put[s].stage = "idle" /\ puts < MaxPuts
    /\ put' = [put EXCEPT ![s] = [stage |-> "loaded", before |-> file, next |-> p, found |-> file]]
    /\ puts' = puts + 1
    /\ UNCHANGED <<stored, mutex, read, serviceLoop, watch, edits, history>>

(* The mutex is taken and the new policy persisted before anything is      *)
(* purged; a failed write ends the request.                                *)
PutSave(s) ==
    /\ put[s].stage = "loaded" /\ mutex = "free"
    /\ \/ /\ Replace(put[s].next)
          /\ mutex' = "put"
          /\ put' = [put EXCEPT ![s].stage = "saved", ![s].found = file]
       \/ /\ "write" \in Faults
          /\ put' = [put EXCEPT ![s].stage = "idle"]
          /\ UNCHANGED <<file, dirty, mutex>>
    /\ UNCHANGED <<snapshot, cmd, read, serviceLoop, watching, event, puts, edits, history>>

(* The request gives the mutex back: commands still active although the    *)
(* policy changed since it took it have crossed the transition.            *)
Release(s) ==
    /\ mutex' = "free"
    /\ put' = [put EXCEPT ![s] = NoPut]
    /\ crossed' = IF Ends(put[s].found, file')
                  THEN crossed \cup {c \in Commands : cmd'[c] = "active"} ELSE crossed

(* The transition is computed from settingsBefore.  The retention pass     *)
(* after a reduced retention may fail when the purge did not.              *)
PutApply(s) ==
    /\ put[s].stage = "saved"
    /\ \/ /\ Settle(put[s].before, put[s].next)
          /\ UNCHANGED file
          /\ Release(s)
       \/ /\ "purge" \in Faults
          /\ \/ Settle(put[s].before, put[s].next)
             \/ UNCHANGED <<snapshot, cmd>>
          /\ put' = [put EXCEPT ![s].stage = "failed"]
          /\ UNCHANGED <<file, mutex, crossed>>
    /\ UNCHANGED <<read, serviceLoop, watch, puts, edits, late>>

(* The whole configuration of before the request is written back.          *)
PutRollback(s) ==
    /\ put[s].stage = "failed"
    /\ \/ Replace(put[s].before)
       \/ "rollback" \in Faults /\ UNCHANGED <<file, dirty>>
    /\ UNCHANGED <<snapshot, cmd>>
    /\ Release(s)
    /\ UNCHANGED <<read, serviceLoop, watching, event, puts, edits, late>>
-----------------------------------------------------------------------------
(* Handlers that read the policy under the mutex and act under it: a       *)
(* snapshot is ingested, a command enqueued, commands delivered.           *)
Enter(kind) ==
    /\ watching /\ mutex = "free"
    /\ mutex' = kind /\ read' = file
    /\ UNCHANGED <<stored, put, serviceLoop, watch, puts, edits, history>>

Leave ==
    /\ mutex' = "free"
    /\ UNCHANGED <<file, read, put, serviceLoop, watch, puts, edits>>

Ingest ==
    /\ mutex = "ingest"
    /\ snapshot' = IF read.enabled THEN read.vis ELSE snapshot
    /\ Leave /\ UNCHANGED <<cmd, history>>

(* The target must be in the retained snapshot.                            *)
Enqueue(c) ==
    /\ mutex = "enqueue" /\ cmd[c] = "new"
    /\ Allowed(read) /\ snapshot # NoPolicy
    /\ cmd' = [cmd EXCEPT ![c] = "active"]
    /\ Leave /\ UNCHANGED <<snapshot, history>>

(* An active command is handed out with every report until it closes.      *)
Deliver ==
    /\ mutex = "deliver"
    /\ late' = IF Allowed(read) THEN late \cup (crossed \cap StillOpen) ELSE late
    /\ Leave /\ UNCHANGED <<snapshot, cmd, crossed>>

(* A predicate or the store refuses.                                       *)
Refuse ==
    /\ mutex \in {"ingest", "enqueue", "deliver"}
    /\ Leave /\ UNCHANGED <<snapshot, cmd, history>>

(* A command completes or expires, a snapshot outlives its retention.      *)
CloseCommand(c) ==
    /\ cmd[c] = "active"
    /\ cmd' = [cmd EXCEPT ![c] = "closed"]
    /\ UNCHANGED <<file, snapshot, mutex, read, put, serviceLoop, watch, puts, edits, history>>

DropSnapshot ==
    /\ snapshot # NoPolicy /\ mutex = "free"
    /\ snapshot' = NoPolicy
    /\ UNCHANGED <<file, cmd, mutex, read, put, serviceLoop, watch, puts, edits, history>>
-----------------------------------------------------------------------------
(* Outside the dashboard: an editor or drainctl changes config.json.       *)
Edit(p) ==
    /\ edits < MaxEdits
    /\ edits' = edits + 1
    /\ Replace(p)
    /\ UNCHANGED <<snapshot, cmd, mutex, read, put, serviceLoop, watching, event, puts, history>>

(* The watcher sees a newer mtime; a tick that finds the channel full is   *)
(* dropped.                                                                *)
Detect ==
    /\ watching /\ dirty
    /\ dirty' = FALSE /\ event' = TRUE
    /\ UNCHANGED <<stored, mutex, read, put, serviceLoop, watching, puts, edits, history>>

(* The service loop takes the tick and loads the file; a failed load ends  *)
(* the reload and the tick is gone.                                        *)
ReloadRead ==
    /\ reload.stage = "idle" /\ event
    /\ event' = FALSE
    /\ \/ reload' = [stage |-> "read", new |-> file]
       \/ "load" \in Faults /\ UNCHANGED reload
    /\ UNCHANGED <<stored, mutex, read, put, loop, remote, watching, dirty, puts, edits, history>>

(* Collector settings come from the dashboard's (here its own) settings:   *)
(* read afresh, or as cached when that fails; allow_actions stays local.   *)
Merged_KeepsAllow(local, r) ==
    IF r = NoPolicy THEN local ELSE [r EXCEPT !.allow = loop.allow]
Merged(local, r) ==
    IF r = NoPolicy THEN local ELSE [r EXCEPT !.allow = local.allow]

ReloadMerge ==
    /\ reload.stage = "read"
    /\ \/ remote' = file
       \/ (remote = NoPolicy \/ "fetch" \in Faults) /\ UNCHANGED remote
    /\ reload' = [stage |-> "merged", new |-> Merged(reload.new, remote')]
    /\ UNCHANGED <<stored, mutex, read, put, loop, watch, puts, edits, history>>

(* The loop compares with the policy it had; a failed purge is logged and  *)
(* the new policy is adopted all the same.                                 *)
Adopt(new) ==
    /\ mutex = "free" \/ ~Transition(loop, new)
    /\ \/ Settle(loop, new)
       \/ "transition" \in Faults /\ UNCHANGED <<snapshot, cmd>>
    /\ loop' = new
    /\ UNCHANGED <<file, mutex, read, put, watch, puts, edits, history>>

ReloadAdopt ==
    /\ reload.stage = "merged"
    /\ Adopt(reload.new)
    /\ reload' = NoReload
    /\ UNCHANGED remote

(* fetchRemoteConfig on a poll tick: the same without the local file.  One *)
(* read and one purge later; what is written in between signals the        *)
(* watcher.                                                                *)
Fetch ==
    /\ watching /\ reload.stage = "idle"
    /\ remote' = file
    /\ Adopt([file EXCEPT !.allow = loop.allow])
    /\ UNCHANGED reload

(* The service dies and starts: the loop's policy is what the file holds   *)
(* and nothing is purged.  The watcher takes its baseline a while later,   *)
(* and the dashboard serves after that.                                    *)
Crash ==
    /\ "crash" \in Faults
    /\ mutex' = "free" /\ read' = FirstPolicy
    /\ put' = [s \in Slots |-> NoPut]
    /\ loop' = file /\ remote' = NoPolicy /\ reload' = NoReload
    /\ watching' = FALSE /\ dirty' = FALSE /\ event' = FALSE
    /\ crossed' = IF \E s \in Inside : Ends(put[s].found, file)
                  THEN crossed \cup StillOpen ELSE crossed
    /\ UNCHANGED <<stored, puts, edits, late>>

StartWatch ==
    /\ ~watching
    /\ watching' = TRUE
    /\ UNCHANGED <<stored, mutex, read, put, serviceLoop, dirty, event, puts, edits, history>>

PutStep(s) ==
    \/ \E p \in Policies : PutLoad(s, p)
    \/ PutSave(s) \/ PutApply(s) \/ PutRollback(s)

HandlerStep ==
    \/ \E kind \in {"ingest", "enqueue", "deliver"} : Enter(kind)
    \/ Ingest \/ Deliver \/ Refuse \/ DropSnapshot
    \/ \E c \in Commands : Enqueue(c) \/ CloseCommand(c)

ServiceStep == Detect \/ ReloadRead \/ ReloadMerge \/ ReloadAdopt \/ Fetch

Next ==
    \/ \E s \in Slots : PutStep(s)
    \/ HandlerStep
    \/ \E p \in Policies : Edit(p)
    \/ ServiceStep
    \/ Crash \/ StartWatch

Spec == Init /\ [][Next]_vars
-----------------------------------------------------------------------------
(* A settings request that ends the policy a command was accepted under    *)
(* leaves no command to be handed out later, however the request is        *)
(* interleaved with enqueue, delivery, ingest and reload and whichever of  *)
(* its own steps fails (server.go: "sessionPolicyMu serializes policy      *)
(* mutation with action enqueue and report-side delivery so no command     *)
(* crosses a policy transition").                                          *)
NoCommandCrosses == late = {}

(* Whenever the mutex is free the retained snapshot shows no more than the *)
(* policy in the file allows (handlers_sessions.go: "A visibility          *)
(* transition must either purge an already accepted old-policy snapshot or *)
(* cause this ingest to read and persist with the new policy").            *)
SnapshotFollowsPolicy == mutex = "free" => snapshot \in {NoPolicy, file.vis}

(* After a change from outside the dashboard the same holds, and nothing   *)
(* is left to cancel, once the service has caught up with the file.        *)
Settled ==
    /\ watching /\ ~dirty /\ ~event /\ reload.stage = "idle" /\ mutex = "free"
    /\ loop = file
SettledIsClean ==
    Settled => /\ snapshot \in {NoPolicy, file.vis}
               /\ ~Allowed(file) => StillOpen = {}
-----------------------------------------------------------------------------
(* The goroutines of the service keep running; a fetch that keeps being    *)
(* due succeeds some time.                                                 *)
Fairness ==
    /\ WF_vars(Detect) /\ WF_vars(ReloadRead) /\ WF_vars(ReloadMerge)
    /\ SF_vars(ReloadAdopt) /\ SF_vars(Fetch)
    /\ \A s \in Slots : SF_vars(PutSave(s)) /\ WF_vars(PutApply(s)) /\ WF_vars(PutRollback(s))
    /\ WF_vars(Ingest \/ Deliver \/ Refuse)

FairSpec == Spec /\ Fairness

(* The service catches up: no written policy is lost between the watcher's *)
(* mtime, its channel of one, the reload and the cached remote settings    *)
(* (configfile_subsystem_windows.go:98-150, service_loop.go:655-740).      *)
ServiceCatchesUp == <>[](loop = file)
=============================================================================
