------------------------------- MODULE Updater -------------------------------
(***************************************************************************)
(* The agent's self-update: a poll loop that sleeps, asks the releases API *)
(* with the ETag of its last answer, downloads, verifies and spawns the    *)
(* installer; the forced check of the service loop, which runs the same    *)
(* steps under the same mutex; the replay fence in update-state.json; and  *)
(* the installer, which ends later, if at all, and restarts the service.   *)
(*                                                                         *)
(* internal/updater (updater_windows.go, github_windows.go,                *)
(* state_windows.go, backoff_windows.go), internal/svc/check.go and        *)
(* updater_runtime.go.                                                     *)
(***************************************************************************)
EXTENDS Naturals

CONSTANTS
    Channels,     \* release channels
    MaxVersion,   \* bound: versions are 1..MaxVersion, in order
    FirstVersion, \* the one installed at first
    FirstChannel,
    MaxBackoff,   \* length of backoffSchedule
    UpdaterFaults,       \* what may go wrong, out of UpdaterFaultKinds
    MaxPublish,   \* bound: releases published or withdrawn
    MaxConfig,    \* bound: changes of the policy
    MaxForced,    \* bound: forced checks
    MaxManual,    \* bound: installations by hand
    MaxUpdaterFaults,    \* bound: faults
    NoTag

UpdaterFaultKinds == {"fetch", "deadline", "download", "verify", "spawn", "install", "crash", "ledger"}
Versions == 1..MaxVersion

ASSUME UpdaterAssumption ==
    /\ MaxVersion \in Nat /\ FirstVersion \in Versions
    /\ FirstChannel \in Channels
    /\ MaxBackoff \in Nat \ {0}
    /\ UpdaterFaults \subseteq UpdaterFaultKinds
    /\ MaxPublish \in Nat /\ MaxConfig \in Nat /\ MaxForced \in Nat
    /\ MaxManual \in Nat /\ MaxUpdaterFaults \in Nat
    /\ NoTag \notin [ch : Channels, rel : [ver : 0..MaxVersion, good : BOOLEAN]]

VARIABLES
    running,    \* version of the running service
    high,       \* highest_seen_version on disk
    github,     \* channel -> its latest release
    config,     \* Subsystem.cfg
    wake,       \* wakeCh holds a signal
    etag,       \* Subsystem.etag: the channel and release it came with
    failures,   \* backoff.failures, up to the end of the schedule
    poll,       \* the poll goroutine
    forced,     \* the service loop's TriggerCheckNow
    check,      \* the check that holds runMu, and how far it is
    installers, \* versions msiexec is installing
    bounds,     \* what is left of each bound
    highest,    \* history: the highest version ever started
    last,       \* history: decision of the last check since the start
    seen        \* history: the policy the last poll worked, or New was called, with

Releases == [ver : 0..MaxVersion, good : BOOLEAN]
NoRelease == [ver |-> 0, good |-> FALSE]
Configs == [enabled : BOOLEAN, channel : Channels]
NoCheck == [stage |-> "none", who |-> "poll", ch |-> FirstChannel, rel |-> NoRelease]
Decisions == {"none", "error", "cancelled", "not_modified", "no_stable_release",
              "refused", "up_to_date", "installer_spawned"}

process == <<running, wake, etag, failures, poll, forced, check>>
past == <<highest, last, seen>>
updaterVars == <<process, high, github, config, installers, bounds, past>>

UpdaterTypeOK ==
    /\ running \in Versions /\ high \in Versions /\ highest \in Versions
    /\ github \in [Channels -> Releases]
    /\ config \in Configs /\ seen \in Configs
    /\ wake \in BOOLEAN
    /\ etag \in [ch : Channels, rel : Releases] \cup {NoTag}
    /\ failures \in 0..MaxBackoff
    /\ poll \in {"asleep", "due", "ticking", "ticked"}
    /\ forced \in {"none", "waiting", "running"}
    /\ check \in [stage : {"none", "fetch", "download", "verify", "spawn"},
                  who : {"poll", "forced"}, ch : Channels, rel : Releases]
    /\ installers \subseteq Versions
    /\ bounds \in [publish : 0..MaxPublish, config : 0..MaxConfig, forced : 0..MaxForced,
                   manual : 0..MaxManual, faults : 0..MaxUpdaterFaults]
    /\ last \in Decisions
    /\ check.stage # "none" <=> (poll = "ticking" \/ forced = "running")
    /\ ~(poll = "ticking" /\ forced = "running")

(* Start has seeded the fence with the installed version.                  *)
UpdaterInit ==
    /\ running = FirstVersion /\ high = FirstVersion /\ highest = FirstVersion
    /\ github = [c \in Channels |-> NoRelease]
    /\ config = [enabled |-> TRUE, channel |-> FirstChannel] /\ seen = config
    /\ wake = FALSE /\ etag = NoTag /\ failures = 0
    /\ poll = "asleep" /\ forced = "none" /\ check = NoCheck
    /\ installers = {}
    /\ bounds = [publish |-> MaxPublish, config |-> MaxConfig, forced |-> MaxForced,
                 manual |-> MaxManual, faults |-> MaxUpdaterFaults]
    /\ last = "none"

Spend(b) == bounds[b] > 0 /\ bounds' = [bounds EXCEPT ![b] = @ - 1]
UpdaterFault(kind) == kind \in UpdaterFaults /\ Spend("faults")
Greater(a, b) == IF a < b THEN b ELSE a
-----------------------------------------------------------------------------
(* The policy and the poll loop's sleep.                                   *)

UpdateConfig(c) ==
    /\ c # config
    /\ config' = c
    /\ wake' = TRUE
SetConfig(c) ==
    /\ UpdateConfig(c)
    /\ Spend("config")
    /\ UNCHANGED <<running, high, github, etag, failures, poll, forced, check, installers, past>>

(* The timer, jitter and backoff included, or the signal, ends the sleep.  *)
Awake == poll = "asleep" /\ poll' = "due"
Timer ==
    /\ Awake
    /\ UNCHANGED <<running, wake, etag, failures, forced, check, high, github, config,
                   installers, bounds, past>>
Wake ==
    /\ wake /\ Awake
    /\ wake' = FALSE
    /\ UNCHANGED <<running, etag, failures, forced, check, high, github, config,
                   installers, bounds, past>>
(* The delay is chosen, outside the mutex, after the check.                *)
Sleep ==
    /\ poll = "ticked"
    /\ poll' = "asleep"
    /\ UNCHANGED <<running, wake, etag, failures, forced, check, high, github, config,
                   installers, bounds, past>>
-----------------------------------------------------------------------------
(* One check: runTick, under runMu.                                        *)
Unlocked == check.stage = "none"
BeginCheck(who) ==
    check' = [stage |-> "fetch", who |-> who, ch |-> config.channel, rel |-> NoRelease]

(* A disabled updater's poll ends before it asks.                          *)
BeginPoll ==
    /\ poll = "due" /\ Unlocked
    /\ seen' = config
    /\ \/ config.enabled /\ BeginCheck("poll") /\ poll' = "ticking"
       \/ ~config.enabled /\ poll' = "ticked" /\ UNCHANGED check
    /\ UNCHANGED <<running, wake, etag, failures, forced, high, github, config,
                   installers, bounds, highest, last>>

RequestForced ==
    /\ forced = "none" /\ Spend("forced")
    /\ forced' = "waiting"
    /\ UNCHANGED <<running, wake, etag, failures, poll, check, high, github, config,
                   installers, past>>

(* TriggerCheckNow saves the file it loaded, the fence with it, and checks *)
(* whether or not updates are enabled.                                     *)
SaveState == UNCHANGED high
BeginForced ==
    /\ forced = "waiting" /\ Unlocked
    /\ \/ BeginCheck("forced") /\ forced' = "running" /\ SaveState /\ UNCHANGED bounds
       \/ UpdaterFault("ledger") /\ forced' = "none" /\ UNCHANGED <<check, high>>
    /\ UNCHANGED <<running, wake, etag, failures, poll, github, config, installers, past>>

(* The mutex is released and whoever ran the check goes on.                *)
End(decision) ==
    /\ check' = NoCheck
    /\ last' = decision
    /\ IF check.who = "poll" THEN poll' = "ticked" /\ UNCHANGED forced
       ELSE forced' = "none" /\ UNCHANGED poll
RecordSuccess == failures' = 0
RecordFailure == failures' = IF failures < MaxBackoff THEN failures + 1 ELSE failures
Decide(decision) == End(decision) /\ RecordSuccess /\ UNCHANGED <<installers, bounds>>
Fail(kind) == UpdaterFault(kind) /\ End("error") /\ RecordFailure /\ UNCHANGED <<etag, installers>>
Advance(stage, rel) ==
    /\ check' = [check EXCEPT !.stage = stage, !.rel = rel]
    /\ UNCHANGED <<failures, poll, forced, last, installers, bounds>>
Elsewhere == UNCHANGED <<running, wake, high, github, config, highest, seen>>

(* Replay fence.                                                           *)
Fenced_Never(rel) == FALSE
Fenced(rel) == rel.ver < high

(* The releases API answers 304 to the tag it gave with this release.  A   *)
(* broken release has a tag that does not parse or an asset that does not  *)
(* verify.                                                                 *)
Tag(rel) == [ch |-> check.ch, rel |-> rel]
Fetch ==
    LET rel == github[check.ch] IN
    /\ check.stage = "fetch"
    /\ \/ Fail("fetch")
       \/ /\ check.who = "forced" /\ UpdaterFault("deadline")
          /\ End("cancelled") /\ UNCHANGED <<etag, failures, installers>>
       \/ rel.ver = 0 /\ Decide("no_stable_release") /\ UNCHANGED etag
       \/ etag = Tag(rel) /\ rel.ver # 0 /\ Decide("not_modified") /\ UNCHANGED etag
       \/ /\ etag # Tag(rel) /\ rel.ver # 0
          /\ etag' = Tag(rel)
          /\ \/ (Fenced(rel) \/ ~rel.good) /\ Decide("refused")
             \/ ~Fenced(rel) /\ rel.ver <= running /\ Decide("up_to_date")
             \/ ~Fenced(rel) /\ rel.ver > running /\ Advance("download", rel)
    /\ Elsewhere

Download ==
    /\ check.stage = "download"
    /\ \/ Advance("verify", check.rel) /\ UNCHANGED etag
       \/ Fail("download")
    /\ Elsewhere

(* The signed manifest, then Authenticode.  A manifest that cannot be      *)
(* fetched is a refusal, not a failure.                                    *)
Verify ==
    /\ check.stage = "verify"
    /\ \/ check.rel.good /\ Advance("spawn", check.rel)
       \/ ~check.rel.good /\ Decide("refused")
       \/ /\ UpdaterFault("verify") /\ End("refused") /\ RecordSuccess
          /\ UNCHANGED installers
    /\ UNCHANGED etag
    /\ Elsewhere

Spawned_KeepsTag == UNCHANGED etag
Spawned == etag' = NoTag
Spawn ==
    /\ check.stage = "spawn"
    /\ \/ /\ installers' = installers \cup {check.rel.ver}
          /\ Spawned
          /\ End("installer_spawned") /\ RecordSuccess
          /\ UNCHANGED bounds
       \/ Fail("spawn")
    /\ Elsewhere
-----------------------------------------------------------------------------
(* A service of version v starts: everything in memory is new, and the     *)
(* fence rises to v, never falls.                                          *)
Seed(v) == high' = Greater(high, v)
Start(v) ==
    /\ running' = v
    /\ Seed(v)
    /\ highest' = Greater(highest, v)
    /\ wake' = FALSE /\ etag' = NoTag /\ failures' = 0
    /\ poll' = "asleep" /\ forced' = "none" /\ check' = NoCheck
    /\ last' = "none" /\ seen' = config
    /\ UNCHANGED <<github, config>>

(* msiexec replaces an older version and restarts the service; it declines *)
(* to go back.                                                             *)
Install(v) ==
    /\ v \in installers
    /\ installers' = installers \ {v}
    /\ \/ v > running /\ Start(v) /\ UNCHANGED bounds
       \/ v <= running /\ UNCHANGED <<process, high, github, config, bounds, past>>
       \/ UpdaterFault("install") /\ UNCHANGED <<process, high, github, config, past>>

(* An administrator installs any version; the service stops and starts.    *)
ManualInstall(v) ==
    /\ v # running /\ Spend("manual")
    /\ Start(v)
    /\ UNCHANGED installers
Restart == UpdaterFault("crash") /\ Start(running) /\ UNCHANGED installers

(* The maintainers publish, replace or withdraw a release.                 *)
Publish(c, rel) ==
    /\ rel # github[c] /\ Spend("publish")
    /\ github' = [github EXCEPT ![c] = rel]
    /\ UNCHANGED <<process, high, config, installers, past>>
-----------------------------------------------------------------------------
UpdaterNext ==
    \/ \E c \in Configs : SetConfig(c)
    \/ Timer \/ Wake \/ Sleep
    \/ BeginPoll \/ RequestForced \/ BeginForced
    \/ Fetch \/ Download \/ Verify \/ Spawn
    \/ \E v \in Versions : Install(v) \/ ManualInstall(v)
    \/ Restart
    \/ \E c \in Channels, rel \in Releases : Publish(c, rel)

UpdaterSpec == UpdaterInit /\ [][UpdaterNext]_updaterVars

(* Goroutines and the service loop run, requests and downloads end within  *)
(* their timeouts, the timer fires, and an installer ends.                 *)
UpdaterFairness ==
    /\ WF_updaterVars(Timer) /\ WF_updaterVars(Wake) /\ WF_updaterVars(Sleep)
    /\ WF_updaterVars(BeginPoll) /\ WF_updaterVars(BeginForced)
    /\ WF_updaterVars(Fetch) /\ WF_updaterVars(Download) /\ WF_updaterVars(Verify) /\ WF_updaterVars(Spawn)
    /\ \A v \in Versions : WF_updaterVars(Install(v))

UpdaterFairSpec == UpdaterSpec /\ UpdaterFairness
-----------------------------------------------------------------------------
(* The fence on disk is the highest version that has run here, through     *)
(* rollbacks by hand, installers that fail and forced checks that rewrite  *)
(* the file; it never runs ahead of a version that has started (FR-010,    *)
(* state_windows.go:141-165).                                              *)
FenceExact == high = highest

(* No check launches an installer for a version older than one that has    *)
(* run here, or not newer than the running one                             *)
(* (updater_windows.go:371-388).                                           *)
FenceHolds ==
    [][\A v \in installers' \ installers : v > running /\ v >= highest]_updaterVars

(* While no check runs, an ETag that would have the next one answered 304  *)
(* belongs to a release there is nothing to do about                       *)
(* (updater_windows.go:356, 421-424).                                      *)
Wanted(rel) == rel.good /\ rel.ver > running /\ rel.ver >= high
TagMeansSettled == etag # NoTag /\ Unlocked => ~Wanted(etag.rel)

(* The backoff stands while, and only while, the last check that reached a *)
(* verdict failed (updater_windows.go:326-432, FR-012).                    *)
BackoffFollows ==
    /\ last = "error" => failures > 0
    /\ last \notin {"error", "cancelled"} => failures = 0

(* A release that is newer, sound and allowed is not left uninstalled for  *)
(* ever by an enabled updater, whatever checks, installers or restarts     *)
(* failed before (research.md:20, updater_windows.go:421-424).             *)
Outdated == config.enabled /\ Wanted(github[config.channel])
EventuallyCurrent == []<>~Outdated

(* A changed policy never waits for the timer: while the last poll worked  *)
(* with another one, the signal is there to end the sleep or the next poll *)
(* is due, whatever happened between the change, the channel of one, the   *)
(* tick and the start of the next (updater_windows.go:131-151, 268-285).   *)
ChangeIsSignalled == config # seen => (wake \/ poll = "due")
=============================================================================
