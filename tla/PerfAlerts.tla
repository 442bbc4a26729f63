----------------------------- MODULE PerfAlerts -----------------------------
(***************************************************************************)
(* From a counter of the operating system to a message about its load.     *)
(* One goroutine samples in the background and hands its work to a thread  *)
(* that owns the counter queries; the service loop collects what has       *)
(* accumulated, counts evaluations above the thresholds, and writes to one *)
(* target.  A reload of the settings closes the collector and opens        *)
(* another while the sampler of the first may still be about to run.       *)
(* A request to the query thread is one step: the thread serves one at a   *)
(* time and its caller waits.  One metric, whose value is 0 (normal), 1    *)
(* (above the warning threshold) or 2 (above the critical one).            *)
(*                                                                         *)
(* internal/perfmon/collector.go and threshold.go, perf.go, notify.go,     *)
(* internal/svc/perfsupervisor.go, service_loop.go and check.go.           *)
(***************************************************************************)
EXTENDS Integers, Sequences, FiniteSets

CONSTANTS
    PollEvery,    \* PollInterval
    AlertDelay,   \* load_alert_delay_sec
    RepeatAfter,  \* the target's repeat interval; 0 is "once"
    MaxAccum,     \* samples kept for the next evaluation
    MaxReloads,   \* bound: changes of the performance settings
    MaxSamples,   \* bound: samples taken
    LastMinute    \* bound: the clock

ASSUME PerfAssumption ==
    /\ PollEvery \in Nat \ {0} /\ {AlertDelay, RepeatAfter, MaxAccum} \subseteq Nat
    /\ {MaxReloads, MaxSamples, LastMinute} \subseteq Nat

VARIABLES
    elapsed,     \* the clock
    collectors, \* every collector opened so far; the last may be the live one
    live,       \* whether there is a live one
    loop,       \* the service loop: "select", "reopen" or "check"
    polled,     \* when the poll ticker last fired
    taken,      \* how many samples have been taken
    counts,     \* PerfTriggerState
    lastSent,   \* LastPerfNotify of the target, per trigger; -1 is never
    damage,       \* what a request to a closed collector came to
    seen,       \* history: the last sample an evaluation was made from
    announced        \* history: the message the last step sent, and when

perfVars == <<elapsed, collectors, live, loop, polled, taken, counts, lastSent,
              damage, seen, announced>>

Levels == 0..2
Triggers == {"cpu_warning", "cpu_critical"}
NoCounts == [warn |-> 0, crit |-> 0]
Nothing == [what |-> "none", at |-> -1]

Opened == [stopped |-> FALSE, queries |-> TRUE, channel |-> TRUE,
          skip |-> TRUE, sampler |-> "waiting", accum |-> <<>>]

PerfTypeOK ==
    /\ elapsed \in 0..LastMinute
    /\ collectors \in Seq([stopped : BOOLEAN, queries : BOOLEAN,
                           channel : BOOLEAN, skip : BOOLEAN,
                           sampler : {"waiting", "ticked", "gone"},
                           accum : Seq([id : 1..MaxSamples, value : Levels])])
    /\ Len(collectors) <= MaxReloads + 1
    /\ live \in BOOLEAN /\ loop \in {"select", "reopen", "check"}
    /\ polled \in 0..LastMinute /\ taken \in 0..MaxSamples
    /\ counts \in [warn : Nat, crit : Nat]
    /\ lastSent \in [Triggers -> -1..LastMinute]
    /\ damage \in {"none", "panic", "closed_query"}
    /\ seen \in 0..MaxSamples
    /\ announced \in [what : Triggers \union {"none"}, at : -1..LastMinute]

PerfInit ==
    /\ elapsed = 0
    /\ collectors = <<Opened>> /\ live = TRUE
    /\ loop = "check" /\ polled = 0 /\ taken = 0
    /\ counts = NoCounts /\ lastSent = [t \in Triggers |-> -1]
    /\ damage = "none" /\ seen = 0 /\ announced = Nothing

Running == damage # "panic"
Now == Len(collectors)

----------------------------------------------------------------------------
Clock ==
    /\ Running /\ loop = "select" /\ elapsed < LastMinute
    /\ elapsed' = elapsed + 1
    /\ UNCHANGED <<collectors, live, loop, polled, taken, counts,
                   lastSent, damage, seen, announced>>

\* Collector.collect on the query thread. The first one after Prime reads the
\* counters without collecting: Prime has just done so.
Collectable(c) == c.queries \/ c.skip
Sampled(c) == [c EXCEPT !.skip = FALSE]
NewSamples == [id : {taken + 1}, value : Levels]

CountSample == taken < MaxSamples /\ taken' = taken + 1

\* The sampler's select takes the tick, also of a collector being closed.
SamplerTicks(g) ==
    /\ Running /\ collectors[g].sampler = "waiting"
    /\ collectors' = [collectors EXCEPT ![g].sampler = "ticked"]
    /\ UNCHANGED <<elapsed, live, loop, polled, taken, counts, lastSent,
                   damage, seen, announced>>

SamplerStops(g) ==
    /\ Running /\ collectors[g].sampler = "waiting" /\ collectors[g].stopped
    /\ collectors' = [collectors EXCEPT ![g].sampler = "gone"]
    /\ UNCHANGED <<elapsed, live, loop, polled, taken, counts, lastSent,
                   damage, seen, announced>>

Capped(accum) ==
    IF Len(accum) > MaxAccum THEN Tail(accum) ELSE accum

\* do, taken by the query thread.
SamplerCollects(g) ==
    LET c == collectors[g]
    IN  /\ Running /\ c.sampler = "ticked" /\ c.channel
        /\ IF Collectable(c)
           THEN /\ CountSample
                /\ \E new \in NewSamples : collectors' = [collectors EXCEPT
                      ![g] = [Sampled(c) EXCEPT
                                 !.sampler = "waiting",
                                 !.accum = Capped(Append(@, new))]]
                /\ damage' = IF c.queries THEN damage ELSE "closed_query"
           ELSE /\ collectors' = [collectors EXCEPT ![g].sampler = "waiting"]
                /\ UNCHANGED <<taken, damage>>
        /\ UNCHANGED <<elapsed, live, loop, polled, counts, lastSent,
                       seen, announced>>

\* do, refused: its select found stopCh closed.
SamplerRefused(g) ==
    /\ Running /\ collectors[g].sampler = "ticked" /\ collectors[g].stopped
    /\ collectors' = [collectors EXCEPT ![g].sampler = "waiting"]
    /\ UNCHANGED <<elapsed, live, loop, polled, taken, counts, lastSent,
                   damage, seen, announced>>

\* do: its select may as well choose the send, and the channel is closed.
SamplerPanics(g) ==
    /\ Running /\ collectors[g].sampler = "ticked" /\ ~collectors[g].channel
    /\ damage' = "panic"
    /\ UNCHANGED <<elapsed, collectors, live, loop, polled, taken, counts,
                   lastSent, seen, announced>>

----------------------------------------------------------------------------
\* The loop's select: a poll when the ticker is due, a check at any change of
\* the registry key it watches.
PollDue ==
    /\ Running /\ loop = "select" /\ elapsed - polled >= PollEvery
    /\ polled' = elapsed /\ loop' = "check"
    /\ UNCHANGED <<elapsed, collectors, live, taken, counts, lastSent,
                   damage, seen, announced>>

RegistryChanged ==
    /\ Running /\ loop = "select" /\ loop' = "check"
    /\ UNCHANGED <<elapsed, collectors, live, polled, taken, counts,
                   lastSent, damage, seen, announced>>

CeilDiv(a, b) == (a + b - 1) \div b
Polls == CeilDiv(AlertDelay, PollEvery)

\* aggregate: the average, compared with a threshold.
Total[s \in Seq([id : 1..MaxSamples, value : Levels])] ==
    IF s = <<>> THEN 0 ELSE Head(s).value + Total[Tail(s)]
AtLeast(s, threshold) == Total[s] >= threshold * Len(s)

\* EvaluateThresholds: critical implies warning.
Counted(n, s) ==
    [warn |-> IF AtLeast(s, 1) THEN n.warn + 1 ELSE 0,
     crit |-> IF AtLeast(s, 2) THEN n.crit + 1 ELSE 0]

Raised(n) ==
    IF n.crit >= Polls THEN "cpu_critical"
    ELSE IF n.warn >= Polls THEN "cpu_warning" ELSE "none"

Due(t) ==
    \/ lastSent[t] = -1
    \/ RepeatAfter > 0 /\ elapsed - lastSent[t] >= RepeatAfter

\* Mutant: a critical message leaves the warning's cooldown alone.
Superseded_None(t) == {}

\* subordinateTrigger: critical supersedes warning.
Superseded(t) == IF t = "cpu_critical" THEN {"cpu_warning"} ELSE {}

SendNotification(t) ==
    IF t # "none" /\ Due(t)
    THEN /\ lastSent' = [u \in Triggers |-> IF u \in {t} \union Superseded(t)
                                            THEN elapsed ELSE lastSent[u]]
         /\ announced' = [what |-> t, at |-> elapsed]
    ELSE UNCHANGED lastSent /\ announced' = Nothing

Drained(accum) == <<>>

\* Collector.Collect, then the rest of svcRunCheck on what it returned.
Evaluate(s) ==
    /\ counts' = Counted(counts, s)
    /\ SendNotification(Raised(counts'))
    /\ seen' = s[Len(s)].id

CheckAccumulated ==
    /\ Running /\ loop = "check" /\ live /\ collectors[Now].accum # <<>>
    /\ Evaluate(collectors[Now].accum)
    /\ collectors' = [collectors EXCEPT ![Now].accum = Drained(@)]
    /\ loop' = "select"
    /\ UNCHANGED <<elapsed, live, polled, taken, damage>>

\* Nothing has accumulated: a sample is taken on the spot.
CheckDirectly ==
    /\ Running /\ loop = "check" /\ live /\ collectors[Now].accum = <<>>
    /\ CountSample /\ \E new \in NewSamples : Evaluate(<<new>>)
    /\ collectors' = [collectors EXCEPT ![Now] = Sampled(@)]
    /\ loop' = "select"
    /\ UNCHANGED <<elapsed, live, polled, damage>>

\* No collector, or none that answers: the thresholds are not evaluated.
CheckNothing ==
    /\ Running /\ loop = "check"
    /\ live => collectors[Now].accum = <<>>
    /\ loop' = "select" /\ announced' = Nothing
    /\ UNCHANGED <<elapsed, collectors, live, polled, taken, counts,
                   lastSent, damage, seen>>

----------------------------------------------------------------------------
\* Reload with other settings, whether from the file or from the dashboard:
\* Close stops the sampler, closes the queries on their thread and then the
\* channel.
CloseStops ==
    /\ Running /\ loop = "select" /\ Now <= MaxReloads
    /\ loop' = "reopen"
    /\ IF live THEN collectors' = [collectors EXCEPT ![Now].stopped = TRUE]
               ELSE UNCHANGED collectors
    /\ UNCHANGED <<elapsed, live, polled, taken, counts, lastSent, damage,
                   seen, announced>>

CloseQueries ==
    /\ Running /\ loop = "reopen" /\ live /\ collectors[Now].queries
    /\ collectors' = [collectors EXCEPT ![Now].queries = FALSE]
    /\ UNCHANGED <<elapsed, live, loop, polled, taken, counts, lastSent,
                   damage, seen, announced>>

CloseChannel ==
    /\ Running /\ loop = "reopen" /\ live /\ ~collectors[Now].queries
    /\ collectors' = [collectors EXCEPT ![Now].channel = FALSE]
    /\ live' = FALSE /\ counts' = NoCounts
    /\ UNCHANGED <<elapsed, loop, polled, taken, lastSent, damage,
                   seen, announced>>

\* The file's reload checks at once, the dashboard's waits for the next poll.
\* Open or Prime may fail: until the settings change there is no collector.
OpenAgain ==
    /\ Running /\ loop = "reopen" /\ ~live
    /\ loop' \in {"check", "select"}
    /\ \/ collectors' = Append(collectors, Opened) /\ live' = TRUE
       \/ collectors' = Append(collectors, [Opened EXCEPT
              !.queries = FALSE, !.channel = FALSE, !.stopped = TRUE,
              !.sampler = "gone"]) /\ live' = FALSE
    /\ UNCHANGED <<elapsed, polled, taken, counts, lastSent, damage, seen, announced>>

PerfNext ==
    \/ Clock
    \/ \E g \in 1..Now :
          \/ SamplerTicks(g) \/ SamplerStops(g)
          \/ SamplerCollects(g) \/ SamplerRefused(g) \/ SamplerPanics(g)
    \/ PollDue \/ RegistryChanged
    \/ CheckAccumulated \/ CheckDirectly \/ CheckNothing
    \/ CloseStops \/ CloseQueries \/ CloseChannel \/ OpenAgain

PerfSpec == PerfInit /\ [][PerfNext]_perfVars

----------------------------------------------------------------------------
\* A sample counts in one evaluation: the alert delay is not served by the
\* same measurement read twice, whoever took it and when.
SamplesCountOnce ==
    live => \A i \in DOMAIN collectors[Now].accum :
                collectors[Now].accum[i].id > seen

\* A target that was told of a critical load hears no warning of the same
\* metric until its repeat interval has passed.
CriticalSilencesWarning ==
    [][(announced'.what = "cpu_warning" /\ announced' # announced /\ lastSent["cpu_critical"] # -1)
          => (RepeatAfter > 0
                /\ elapsed - lastSent["cpu_critical"] >= RepeatAfter)]_perfVars

\* An alert is for a load that lasted, and told once (perf.go, notify.go).
AlertsAreEarned == []SamplesCountOnce /\ CriticalSilencesWarning
=============================================================================
