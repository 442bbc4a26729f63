---------------------------- MODULE ServiceLoop -----------------------------
(***************************************************************************)
(* The Windows service's main loop: one goroutine that starts the parts of *)
(* the agent and of the dashboard, follows config.json, registers with a   *)
(* dashboard and lays the settings it fetches there over the local ones.   *)
(* dashboard_only may be switched at run time; the agent's parts are       *)
(* one-shot, so each agent period makes new ones under a context of its    *)
(* own.  A setting is represented by where its value comes from.           *)
(*                                                                         *)
(* internal/svc/service_loop.go, dashsync.go, check.go, updater_runtime.go,*)
(* perfsupervisor.go and dashboard_bootstrap_subsystem_windows.go.         *)
(***************************************************************************)
EXTENDS Integers, FiniteSets

CONSTANTS
    Remotes,   \* URLs of dashboards on other machines
    Here,      \* the URL of a dashboard on this machine
    NoUrl,     \* no dashboard URL; also: the local settings
    Interval,  \* FetchInterval
    MaxBackoff,\* configFetchMax
    MaxEdits,  \* bound: edits of config.json
    MaxTime    \* bound: the clock

ASSUME LoopAssumption ==
    /\ NoUrl \notin Remotes \union {Here}
    /\ MaxTime \in Nat /\ MaxEdits \in Nat

Urls == Remotes \union {Here}

\* What config.json says to the loop.
Files == [only : BOOLEAN, enabled : BOOLEAN, url : Urls \union {NoUrl}]

\* The agent-only resources; the first two may fail to start and are then nil.
Fragile == {"attribution", "sessions"}
Parts == Fragile \union
    {"spikeReport", "registryWatch", "registration", "perf", "detector", "updater"}

VARIABLES
    minute,    \* the clock
    edits,     \* how often config.json was edited
    file,      \* config.json
    recert,    \* config.json has another TLSFingerprint than dashCfg
    changed,   \* configCh holds an event
    running,   \* Execute is in its loop
    only,      \* cfg.DashboardOnly
    period,    \* the live agentCtx: the number of this agent period; 0 is nil
    periods,   \* how many agent periods there were
    parts,     \* resource -> the period it was made in; 0 is nil
    serving,   \* dashState # nil
    url,       \* dashCfg.URL
    member,    \* history: the dashboard this host is registered with
    registered,\* dashRegistered
    nudge,     \* the bootstrap event has not been taken
    useRemote, \* useRemoteConfig
    cached,    \* lastRemote: the dashboard it came from; NoUrl is nil
    inForce,   \* whose notification targets and exclusions are used
    lastFetch, \* lastConfigFetch; -1 is zero
    failures   \* dashConfigFailures

loopVars == <<minute, edits, file, recert, changed, running, only, period, periods,
              parts, serving, url, member, registered, nudge, useRemote,
              cached, inForce, lastFetch, failures>>
agentVars == <<only, period, periods, parts>>
fetchVars == <<useRemote, cached, inForce, lastFetch, failures>>
dashVars == <<serving, url, member, registered>>

LoopTypeOK ==
    /\ minute \in 0..MaxTime /\ edits \in 0..MaxEdits
    /\ file \in Files
    /\ parts \in [Parts -> 0..MaxEdits + 1]
    /\ period \in 0..periods /\ periods \in 0..MaxEdits + 1
    /\ {recert, changed, running, only, serving, registered, nudge, useRemote}
          \subseteq BOOLEAN
    /\ {url, member, cached, inForce} \subseteq Urls \union {NoUrl}
    /\ lastFetch \in -1..MaxTime /\ failures \in 0..6

NoParts == [p \in Parts |-> 0]
Made(n, failing) == [p \in Parts |-> IF p \in failing THEN 0 ELSE n]

LoopInit ==
    /\ minute = 0 /\ edits = 0 /\ recert = FALSE /\ changed = FALSE /\ running = FALSE
    /\ file \in Files
    /\ only = FALSE /\ period = 0 /\ periods = 0 /\ parts = NoParts
    /\ serving = FALSE /\ url = NoUrl /\ member = NoUrl /\ registered = FALSE
    /\ nudge = FALSE /\ useRemote = FALSE /\ cached = NoUrl /\ inForce = NoUrl
    /\ lastFetch = -1 /\ failures = 0

(******************************** Starting *********************************)

\* Execute up to its loop. A dashboard that cannot start, or a part that
\* cannot, is logged; a missing URL may be discovered by DNS.
StartLoop ==
    /\ ~running /\ running' = TRUE /\ recert' = FALSE
    /\ only' = file.only
    /\ periods' = periods + (IF file.only THEN 0 ELSE 1)
    /\ period' = IF file.only THEN 0 ELSE periods'
    /\ \E failing \in {{}} \union {{p} : p \in Fragile} :
          parts' = IF file.only THEN NoParts ELSE Made(periods', failing)
    /\ serving' \in {FALSE, file.enabled}
    /\ url' \in IF file.url = NoUrl THEN Remotes \union {NoUrl} ELSE {file.url}
    /\ registered' = (serving' /\ url' = Here /\ ~file.only)
    /\ member' = IF registered' THEN Here ELSE NoUrl
    /\ nudge' = (~file.only /\ url' # NoUrl /\ ~registered')
    /\ UNCHANGED <<minute, edits, file, changed, fetchVars>>

(******************************** Fetching *********************************)

\* backoffDuration: the interval doubles with each failure, up to five times.
Backoff(n) == LET d == Interval * 2 ^ (IF n > 5 THEN 5 ELSE n)
              IN  IF n > 0 /\ d >= MaxBackoff THEN MaxBackoff ELSE d

\* remoteConfigFetchDue
FetchDue(last, n) == last = -1 \/ minute - last >= Backoff(n)

\* A dashboard in this process is asked for its own settings, whatever the URL.
Asked == IF serving THEN Here ELSE url

Count(n) == IF n < 6 THEN n + 1 ELSE n  \* beyond five all are alike

\* fetchRemoteConfig, given the state a registration left behind.
FetchRemote(n) ==
    IF only \/ url = NoUrl \/ ~FetchDue(lastFetch, n)
    THEN failures' = n /\ UNCHANGED <<useRemote, cached, inForce, lastFetch>>
    ELSE /\ lastFetch' = minute
         /\ \/ /\ failures' = 0 /\ useRemote' = TRUE
               /\ cached' = Asked /\ inForce' = Asked
            \/ failures' = Count(n) /\ UNCHANGED <<useRemote, cached, inForce>>

\* registerWithDashboard, then the fetch it forces.
RegisterAndFetch ==
    LET trying == ~only /\ url # NoUrl /\ ~registered
    IN  \/ /\ trying
           /\ registered' = TRUE /\ member' = url
           /\ FetchRemote(0)
        \/ UNCHANGED <<registered, member>> /\ FetchRemote(failures)

\* The bootstrap event; without a registration it fetches nothing.
Bootstrap ==
    /\ running /\ nudge /\ nudge' = FALSE
    /\ \/ /\ ~only /\ url # NoUrl /\ ~registered
          /\ registered' = TRUE /\ member' = url /\ FetchRemote(0)
       \/ UNCHANGED <<registered, member, fetchVars>>
    /\ UNCHANGED <<minute, edits, file, recert, changed, running, agentVars, serving,
                   url>>

\* pollTicker
Poll ==
    /\ running /\ RegisterAndFetch
    /\ UNCHANGED <<minute, edits, file, recert, changed, running, agentVars, serving,
                   url, nudge>>

(******************************** Reloading ********************************)

\* config.json is written by an operator, the command line or the dashboard.
EditConfig ==
    /\ edits < MaxEdits /\ edits' = edits + 1 /\ changed' = TRUE
    /\ file' \in Files /\ recert' \in BOOLEAN
    /\ <<file', recert'>> # <<file, recert>>
    /\ UNCHANGED <<minute, running, agentVars, dashVars, nudge, fetchVars>>

\* LoadConfig fails: the loop goes on with what it has.
ReloadFails ==
    /\ running /\ changed /\ changed' = FALSE
    /\ UNCHANGED <<minute, edits, file, recert, running, agentVars, dashVars, nudge,
                   fetchVars>>

\* The settings of a reload: refreshed in line when the URL is unchanged, and
\* the cached ones laid over the file again.
ReloadSettings(f) ==
    LET ask == ~f.only /\ f.url # NoUrl /\ f.url = url
        moved == f.url # NoUrl /\ (f.url # url \/ recert)
    IN  \E ok \in {FALSE, ask} :
          /\ cached' = IF ok THEN Asked ELSE cached
          /\ LET remote == useRemote \/ ok
             IN  /\ useRemote' = (remote /\ f.url # NoUrl)
                 /\ inForce' = IF ~useRemote' THEN NoUrl
                               ELSE IF cached' # NoUrl THEN cached' ELSE inForce
          /\ lastFetch' = IF moved THEN -1 ELSE IF ok THEN minute ELSE lastFetch
          /\ failures' = IF moved \/ ok THEN 0 ELSE failures

\* Mutant: a changed dashboard keeps the registration.
StillRegistered_AnyUrl(f) == registered

\* A new URL, or a new certificate, makes the host register again.
StillRegistered(f) == registered /\ (f.url = NoUrl \/ (f.url = url /\ ~recert))

\* The listener follows the file in both directions; a failed start is tried
\* again at the next reload. A dashboard on this machine is joined in memory.
ReloadDashboard(f) ==
    LET kept == StillRegistered(f)
        local == f.url = Here /\ ~f.only
    IN  /\ url' = IF f.url = NoUrl THEN url ELSE f.url
        /\ CASE ~f.enabled /\ serving ->
                  serving' = FALSE /\ registered' = FALSE /\ member' = NoUrl
             [] f.enabled /\ ~serving ->
                  /\ serving' \in BOOLEAN
                  /\ registered' = (kept \/ (serving' /\ local))
                  /\ member' = IF serving' /\ local THEN Here ELSE member
             [] OTHER ->
                  LET join == serving /\ ~kept /\ local /\ url # Here
                  IN  /\ registered' = (kept \/ join)
                      /\ member' = IF join THEN Here ELSE member
                      /\ UNCHANGED serving

\* Entering dashboard-only mode stops every agent resource and forgets it.
Dropped(old) == NoParts

\* reconcileUpdaterForDashboardMode, and the two transitions. The detector is
\* also made whenever it is missing.
ReloadAgent(f) ==
    /\ only' = f.only
    /\ IF f.only THEN /\ period' = 0 /\ parts' = Dropped(parts)
                      /\ UNCHANGED periods
       ELSE IF only
       THEN /\ periods' = periods + 1 /\ period' = periods'
            /\ \E failing \in {{}} \union {{p} : p \in Fragile} :
                  parts' = [p \in Parts |->
                      IF p \in {"updater", "detector"} /\ parts[p] # 0 THEN parts[p]
                      ELSE Made(periods', failing)[p]]
       ELSE UNCHANGED <<period, periods, parts>>

\* configCh
Reload ==
    /\ running /\ changed /\ changed' = FALSE /\ recert' = FALSE
    /\ ReloadSettings(file) /\ ReloadDashboard(file) /\ ReloadAgent(file)
    /\ UNCHANGED <<minute, edits, file, running, nudge>>

\* The service stops, or dies: nothing of the loop survives.
StopLoop ==
    /\ running /\ running' = FALSE
    /\ period' = 0 /\ parts' = NoParts /\ only' = FALSE
    /\ serving' = FALSE /\ url' = NoUrl /\ member' = NoUrl /\ registered' = FALSE
    /\ nudge' = FALSE /\ useRemote' = FALSE /\ cached' = NoUrl
    /\ inForce' = NoUrl /\ lastFetch' = -1 /\ failures' = 0
    /\ changed' = FALSE
    /\ edits < MaxEdits /\ edits' = edits + 1
    /\ UNCHANGED <<minute, file, recert, periods>>

LoopTick ==
    /\ minute < MaxTime /\ minute' = minute + 1
    /\ UNCHANGED <<edits, file, recert, changed, running, agentVars, dashVars, nudge,
                   fetchVars>>

LoopNext ==
    \/ StartLoop \/ Bootstrap \/ Poll
    \/ EditConfig \/ ReloadFails \/ Reload
    \/ StopLoop \/ LoopTick

LoopSpec == LoopInit /\ [][LoopNext]_loopVars

(******************************** Properties *******************************)

\* Nothing runs on a cancelled context: every resource in use was made in the
\* agent period that is live, and a dashboard-only host has none.
PartsOfThisPeriod ==
    \A p \in Parts : parts[p] \in {0, period}

\* A host that takes itself for registered is registered with the dashboard
\* it reports to, across changes of the URL and of the listener.
RegisteredWhereItReports == registered => member = url

\* The targets in force are the file's, or those of the dashboard last heard.
TargetsOfTheCachedDashboard == inForce = (IF useRemote THEN cached ELSE NoUrl)

\* What the loop believes of itself and of its dashboard is so, across any
\* reloads of config.json (service_loop.go's configCh).
LoopIsConsistent ==
    PartsOfThisPeriod /\ RegisteredWhereItReports /\ TargetsOfTheCachedDashboard
=============================================================================
