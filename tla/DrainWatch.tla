----------------------------- MODULE DrainWatch -----------------------------
(***************************************************************************)
(* The drain mode of one session host, as the service follows it.  A check *)
(* reads the registry, waits up to three seconds for the event that names  *)
(* the user, and only then publishes its observation, appends the          *)
(* transition to the audit table and sends notifications; the registry may *)
(* change and the service may die in between.  At its next start the       *)
(* service reconciles the table with the registry and takes its first      *)
(* observation from the newest row, if it can.  A service that only runs   *)
(* the dashboard does neither, and may be made an agent by a reload.       *)
(*                                                                         *)
(* registry.go, check.go, notify.go, internal/svc/check.go, piperpc.go and *)
(* service_loop.go, internal/telemetry/audit.go and reconcile.go.          *)
(***************************************************************************)
EXTENDS Integers, Sequences, SequencesExt

CONSTANTS
    Modes,     \* drain modes; 0 is AllowAll
    Grace,     \* GracePeriod
    Repeat,    \* RepeatMinutes of the target; 0 is once per alert
    MaxToday,  \* bound: the clock, which every step below moves
    MaxDrainFaults  \* bound: audit statements that fail

ASSUME DrainAssumption ==
    /\ 0 \in Modes
    /\ Grace \in Nat /\ Repeat \in Nat
    /\ MaxToday \in Nat \ {0} /\ MaxDrainFaults \in Nat

None == [at |-> 0, mode |-> 0, since |-> 0]  \* no observation: nil pointer

VARIABLES
    today,     \* the clock
    registry,  \* TSServerDrainMode and the last write of its key
    stage,     \* the service: "down", "reconciled", "watching" as an agent or
               \* "aside", running the dashboard only
    observed,  \* handler.observed; None when nil
    sample,    \* a check that has read the registry; <<>> when none runs
    audit,     \* the host's rows of the audit table, oldest first
    excluded,  \* nobody is notified: the host is in the global exclusions,
               \* or no target is configured
    lastAlert, \* LastAlertNotify of the target; 0 when absent
    errors,    \* how many audit statements have failed
    missed,    \* history: the newest row is not what the service goes by: an
               \* append failed, or it began to watch without the row
    probed,    \* history: the last reconciliation succeeded
    drifted,   \* history: the last change of the mode before it
    told,      \* history: an alert was dispatched since the drain began
    muted      \* history: what the exclusions kept from the targets: the last
               \* "check", and the "reset" of the last return to healthy

drainVars == <<today, registry, stage, observed, sample, audit, excluded,
               lastAlert, errors, missed, probed, drifted, told, muted>>

Row == [ts : 0..MaxToday, prev : Modes, new : Modes, recon : BOOLEAN]

DrainTypeOK ==
    /\ today \in 1..MaxToday
    /\ registry \in [mode : Modes, modified : 0..MaxToday]
    /\ stage \in {"down", "reconciled", "watching", "aside"}
    /\ observed \in [at : 0..MaxToday, mode : Modes, since : 0..MaxToday]
    /\ sample \in {<<>>} \union {<<m>> : m \in Modes}
    /\ audit \in Seq(Row)
    /\ excluded \in BOOLEAN /\ missed \in BOOLEAN
    /\ probed \in BOOLEAN /\ told \in BOOLEAN
    /\ muted \subseteq {"check", "reset"}
    /\ lastAlert \in 0..MaxToday /\ drifted \in 0..MaxToday
    /\ errors \in 0..MaxDrainFaults

\* The host was watched before, or is new to the service.
DrainInit ==
    /\ today = 1
    /\ registry = [mode |-> 0, modified |-> 0]
    /\ stage = "down" /\ observed = None /\ sample = <<>>
    /\ audit \in {<<>>, <<[ts |-> 1, prev |-> 0, new |-> 0, recon |-> FALSE]>>}
    /\ excluded = FALSE /\ lastAlert = 0 /\ errors = 0
    /\ missed = FALSE /\ probed = FALSE /\ drifted = 0 /\ told = FALSE
    /\ muted = {}

Advance == today < MaxToday /\ today' = today + 1

(***************************** The environment *****************************)

\* An administrator writes the drain mode.
SetDrainMode(m) ==
    /\ m # registry.mode
    /\ Advance
    /\ registry' = [mode |-> m, modified |-> today']
    /\ drifted' = IF stage = "reconciled" THEN drifted ELSE today'
    /\ UNCHANGED <<stage, observed, sample, audit, excluded, lastAlert,
                   errors, missed, probed, told, muted>>

\* Another value of the same key is written.
TouchKey ==
    /\ Advance
    /\ registry' = [registry EXCEPT !.modified = today']
    /\ UNCHANGED <<stage, observed, sample, audit, excluded, lastAlert,
                   errors, missed, probed, drifted, told, muted>>

\* The notification exclusions or the targets are edited; the next check uses
\* the new list.
EditExclusions ==
    /\ sample = <<>> /\ excluded' = ~excluded
    /\ UNCHANGED <<today, registry, stage, observed, sample, audit, lastAlert,
                   errors, missed, probed, drifted, told, muted>>

(******************************** The start ********************************)

AppendFails == errors < MaxDrainFaults /\ errors' = errors + 1

\* Reconcile's two reasons for a row, given the newest one.
HasDrifted(last) ==
    \/ last.new # registry.mode
    \/ registry.modified > last.ts

\* telemetry.Reconcile, at startup: at most one row; nothing for a host that
\* has no history.
Reconcile ==
    /\ stage = "down" /\ stage' = "reconciled"
    /\ Advance
    /\ \/ LET row == [ts |-> today', prev |-> Last(audit).new,
                      new |-> registry.mode, recon |-> TRUE]
              drift == audit # <<>> /\ HasDrifted(Last(audit))
          IN  /\ audit' = IF drift THEN Append(audit, row) ELSE audit
              /\ probed' = TRUE
              /\ UNCHANGED errors
       \/ AppendFails /\ probed' = FALSE /\ UNCHANGED audit
    /\ UNCHANGED <<registry, observed, sample, excluded, lastAlert, missed,
                   drifted, told, muted>>

\* Mutant: the first observation is what the registry says now.
SeedFrom_Registry(rows) == [at |-> today, mode |-> registry.mode, since |-> today]

SeedFrom(rows) ==
    IF rows = <<>> THEN None
    ELSE [at |-> Last(rows).ts, mode |-> Last(rows).new, since |-> Last(rows).ts]

\* The first observation comes from LatestByHost, not from the registry, so
\* the first check finds what changed since the newest row.  When the query
\* fails or the host name is unknown there is only a warning: that check then
\* finds no change.
Seed ==
    /\ stage = "reconciled" /\ stage' = "watching"
    /\ \/ observed' = SeedFrom(audit) /\ missed' = FALSE /\ UNCHANGED errors
       \/ /\ AppendFails /\ UNCHANGED observed
          /\ missed' = (audit # <<>>)
    /\ UNCHANGED <<today, registry, sample, audit, excluded, lastAlert,
                   probed, drifted, told, muted>>

\* A start with dashboard_only: neither reconciliation nor seed.
StartAside ==
    /\ stage = "down" /\ stage' = "aside"
    /\ missed' = (audit # <<>>)
    /\ UNCHANGED <<today, registry, observed, sample, audit, excluded, lastAlert,
                   errors, probed, drifted, told, muted>>

\* A reload switches dashboard_only.  The observation and the notification
\* state stay as they are, and the host is not reconciled.
SwitchRole ==
    /\ sample = <<>>
    /\ \/ stage = "watching" /\ stage' = "aside"
       \/ stage = "aside" /\ stage' = "watching"
    /\ UNCHANGED <<today, registry, observed, sample, audit, excluded, lastAlert,
                   errors, missed, probed, drifted, told, muted>>

\* The process ends: the observation, a running check and the notification
\* state are in memory only.
EndWatch ==
    /\ stage # "down" /\ stage' = "down"
    /\ observed' = None /\ sample' = <<>> /\ lastAlert' = 0
    /\ missed' = FALSE /\ told' = FALSE /\ muted' = {}
    /\ UNCHANGED <<today, registry, audit, excluded, errors, probed, drifted>>

(******************************** The check ********************************)

\* ClassifyState
ClassifyState(mode, duration) ==
    IF mode = 0 THEN "Healthy"
    ELSE IF duration > Grace THEN "Alert" ELSE "Grace"

Unseen(obs) == obs.at = 0

\* ReadDrainMode; WaitAttribution then takes up to three seconds.
Sample ==
    /\ stage = "watching" /\ sample = <<>>
    /\ sample' = <<registry.mode>>
    /\ UNCHANGED <<today, registry, stage, observed, audit, excluded,
                   lastAlert, errors, missed, probed, drifted, told, muted>>

\* The state began with the first check that saw it.
Began(obs, mode, now) ==
    IF ~Unseen(obs) /\ obs.mode = mode THEN obs.since ELSE now

\* What the notifications of a check go by.  The report it sends is promoted
\* by performance triggers afterwards; those are in PerfAlerts.
CheckStatus(obs, mode, now) == ClassifyState(mode, now - Began(obs, mode, now))

\* Mutant: the reset of the repeat interval is forgotten.
Cleared_Never(last, back) == last

\* DrainOff and Healthy clear the alert times of every target.
Cleared(last, back) == IF back THEN 0 ELSE last

\* SendNotificationWithExclusions for the triggers of one check: an excluded
\* host returns before the reset.
AlertDue(last, now) == last = 0 \/ (Repeat > 0 /\ now - last >= Repeat)

Notify(transition, mode, now) ==
    LET back == transition /\ mode = 0
        alert == CheckStatus(observed, mode, now) = "Alert"
        due == ~excluded /\ alert /\ AlertDue(lastAlert, now)
    IN  /\ lastAlert' = IF excluded THEN lastAlert
                        ELSE IF due THEN now ELSE Cleared(lastAlert, back)
        /\ told' = IF back THEN FALSE ELSE told \/ due
        /\ muted' = IF excluded THEN {"check"} \union (IF back THEN {"reset"} ELSE muted)
                    ELSE IF back THEN {} ELSE muted \ {"check"}

\* svcRunCheck, from the sample on: the observation is published before the
\* row is appended, and a failed append is only logged.
FinishCheck ==
    /\ sample # <<>> /\ Advance
    /\ LET mode == Head(sample)
           transition == ~Unseen(observed) /\ observed.mode # mode
           row == [ts |-> today', prev |-> observed.mode, new |-> mode,
                   recon |-> FALSE]
       IN  /\ observed' = [at |-> today', mode |-> mode,
                           since |-> Began(observed, mode, today')]
           /\ Notify(transition, mode, today')
           /\ \/ /\ audit' = IF transition THEN Append(audit, row) ELSE audit
                 /\ missed' = (missed /\ ~transition)
                 /\ UNCHANGED errors
              \/ /\ transition /\ AppendFails /\ missed' = TRUE
                 /\ UNCHANGED audit
    /\ sample' = <<>>
    /\ UNCHANGED <<registry, stage, excluded, probed, drifted>>

DrainNext ==
    \/ \E m \in Modes : SetDrainMode(m)
    \/ TouchKey \/ EditExclusions
    \/ Reconcile \/ Seed \/ StartAside \/ SwitchRole \/ EndWatch
    \/ Sample \/ FinishCheck

DrainSpec == DrainInit /\ [][DrainNext]_drainVars

(******************************** The pipe *********************************)

\* Mutant: the duration of the cached observation is taken as it is.
PipeDuration_AnyMode == IF Unseen(observed) THEN 0 ELSE today - observed.since

PipeDuration ==
    IF Unseen(observed) \/ observed.mode # registry.mode THEN 0
    ELSE today - observed.since

\* HandleStatus reads the registry itself and trusts the cached observation
\* only for the mode it was made of.  It knows of no performance triggers.
HandleStatus == ClassifyState(registry.mode, PipeDuration)

(******************************** Properties *******************************)

Serving == stage \in {"watching", "aside"}

\* The newest row names the mode the service believes in and the time since
\* when, over restarts and failed reconciliations: a restart makes a drain
\* neither younger nor older.
AuditFollowsObserved ==
    (Serving /\ audit # <<>> /\ ~missed) =>
        /\ Last(audit).new = observed.mode /\ Last(audit).ts = observed.since
        /\ ~Unseen(observed)

\* A reconciliation that succeeds leaves no change unrecorded, of the time the
\* service was down or before, even when the mode was changed back.
DowntimeChangeIsRecorded ==
    (stage = "reconciled" /\ probed /\ audit # <<>>) =>
        /\ Last(audit).ts >= drifted
        /\ registry.modified <= Last(audit).ts => Last(audit).new = registry.mode

\* What the log says of a drain that began with its newest row.
LoggedStatus ==
    LET row == Last(audit)
    IN  ClassifyState(registry.mode, IF row.new = registry.mode THEN today - row.ts ELSE 0)

\* What the pipe answers from the cache follows from the persisted log alone,
\* over any number of restarts (piperpc.go:117 and service_loop.go:307).
PipeFollowsTheLog ==
    (Serving /\ audit # <<>> /\ ~missed) => HandleStatus = LoggedStatus

\* A host in alert has had an alert dispatched since it was drained: "Reset
\* alert tracking when returning to healthy" (notify.go:69). Exclusions may
\* come and go, except that a host excluded when it returns misses the reset.
EachAlertIsTold ==
    (Serving /\ ~Unseen(observed) /\ muted = {}) =>
        (ClassifyState(observed.mode, observed.at - observed.since) = "Alert"
            => told)

\* The transition log misses no change, of the running service or of the time
\* it was down (check.go's append and Reconcile).
AuditIsComplete == AuditFollowsObserved /\ DowntimeChangeIsRecorded
=============================================================================
