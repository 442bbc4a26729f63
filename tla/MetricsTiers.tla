---------------------------- MODULE MetricsTiers ----------------------------
(***************************************************************************)
(* The performance history of one host and counter in three tiers: the     *)
(* samples, their five-minute aggregates and the hourly ones.  The         *)
(* aggregator recomputes every eligible bucket that still has a source     *)
(* row; the retention worker deletes what each tier has kept long enough,  *)
(* a chunk at a time.  They are two goroutines over one writer, so either  *)
(* may run between two statements of the other.  An aggregate (average,    *)
(* extremes, count) is represented by the set of samples it was made from. *)
(*                                                                         *)
(* internal/telemetry/aggregator.go, retention.go, metrics.go,             *)
(* session_workload.go and maintenance.go,                                 *)
(* internal/dashboard/handlers_metrics.go.                                 *)
(***************************************************************************)
EXTENDS Integers, FiniteSets

CONSTANTS
    Five, Hour,                   \* a bucket of each tier, in slots of time
    RawKeep, FiveKeep, HourKeep,  \* rawRetention, fiveMinRetention, MetricsDays
    MaxLate,    \* a sample is stored at most this long after its timestamp
    MidLimit,   \* the longest window answered from the five-minute tier
    RollEvery, SweepEvery,  \* bound: the workers' pace, under RawKeep by far
    Chunk,      \* deleteChunkSize
    LastSlot,   \* bound: the last timestamp of a sample
    MaxNow,     \* bound: the clock
    MaxFaults   \* bound: statements that fail

ASSUME TiersAssumption ==
    /\ Five \in Nat \ {0} /\ Hour \in Nat \ {0}
    /\ \E n \in 1..Hour : Hour = n * Five
    /\ RawKeep \in Nat /\ FiveKeep \in Nat /\ HourKeep \in Nat
    /\ MaxLate \in Nat /\ MaxLate <= RawKeep
    /\ RollEvery \in Nat /\ SweepEvery \in Nat /\ MidLimit \in Nat
    /\ Chunk \in Nat /\ LastSlot \in Nat /\ MaxNow \in Nat /\ MaxFaults \in Nat

SampleSlots == 0..LastSlot
Floor(t, len) == (t \div len) * len
Buckets(len) == {Floor(s, len) : s \in SampleSlots}

VARIABLES
    clock,     \* the service's clock
    raw,       \* metrics_raw: the timestamps of its rows
    five,      \* metrics_5min: bucket -> the samples of its row; {} is no row
    hour,      \* metrics_hourly
    pass,      \* the aggregator: "idle", or "hourly" between its two rollups
    sweeper,   \* the retention worker: the tier it is at and the cutoffs
    jobs,      \* maintenance_jobs: the outcome of the last run of each rollup
    swept,     \* when the last pass of the retention worker began
    rolled,    \* when the last whole tick of this process began; -1 before one
    faults,    \* how many statements have failed
    prompt     \* history: the samples stored before their bucket was eligible

tiers == <<raw, five, hour>>
tierVars == <<clock, tiers, pass, sweeper, jobs, swept, rolled, faults, prompt>>

NoPass == [stage |-> "idle", at |-> 0]
NoSweep == [tier |-> "none", raw |-> 0, five |-> 0, hour |-> 0]

TiersTypeOK ==
    /\ clock \in 0..MaxNow
    /\ raw \subseteq SampleSlots /\ prompt \subseteq SampleSlots
    /\ five \in [Buckets(Five) -> SUBSET SampleSlots]
    /\ hour \in [Buckets(Hour) -> SUBSET SampleSlots]
    /\ pass \in [stage : {"idle", "hourly"}, at : 0..MaxNow]
    /\ sweeper \in [tier : {"none", "raw", "five", "hour"},
                    raw : Int, five : Int, hour : Int]
    /\ jobs \in [five : {"success", "failure"}, hour : {"success", "failure"}]
    /\ rolled \in -1..MaxNow /\ swept \in 0..MaxNow /\ faults \in 0..MaxFaults

TiersInit ==
    /\ clock = 0 /\ raw = {} /\ prompt = {}
    /\ five = [b \in Buckets(Five) |-> {}]
    /\ hour = [b \in Buckets(Hour) |-> {}]
    /\ pass = NoPass /\ sweeper = NoSweep
    /\ jobs = [five |-> "success", hour |-> "success"]
    /\ rolled = -1 /\ swept = 0 /\ faults = 0

\* MetricsStore.Append: ON CONFLICT DO NOTHING, whatever the timestamp.
StoreSample(s) ==
    /\ s <= clock /\ clock - s <= MaxLate
    /\ raw' = raw \union {s}
    /\ prompt' = IF clock - s <= Five THEN prompt \union {s} ELSE prompt
    /\ UNCHANGED <<clock, five, hour, pass, sweeper, jobs, swept, rolled, faults>>

(****************************** The aggregator *****************************)

FiveMinWatermark == 2 * Five
HourlyWatermark == Hour + Five

\* INSERT ... SELECT ... GROUP BY ... ON CONFLICT DO UPDATE: each eligible
\* bucket that has a source row is replaced by what its rows say now.
RollFive(upto) ==
    [b \in Buckets(Five) |->
        LET source == {s \in raw : Floor(s, Five) = b}
        IN  IF b <= upto /\ source # {} THEN source ELSE five[b]]

RollHour(upto) ==
    [h \in Buckets(Hour) |->
        LET source == UNION {five[b] : b \in {c \in Buckets(Five) :
                                                  Floor(c, Hour) = h}}
        IN  IF h <= upto /\ source # {} THEN source ELSE hour[h]]

Fail == faults < MaxFaults /\ faults' = faults + 1

\* RollOnce, first statement; a failure is recorded and the tick goes on.
Roll5Min ==
    /\ pass.stage = "idle"
    /\ pass' = [stage |-> "hourly", at |-> clock]
    /\ \/ /\ five' = RollFive(Floor(clock - FiveMinWatermark, Five))
          /\ jobs' = [jobs EXCEPT !.five = "success"]
          /\ UNCHANGED faults
       \/ Fail /\ jobs' = [jobs EXCEPT !.five = "failure"] /\ UNCHANGED five
    /\ UNCHANGED <<clock, raw, hour, sweeper, swept, rolled, prompt>>

\* Both rollups of a tick use the clock read at its start.
HourlyCutoff(p) == p.at - HourlyWatermark

RollHourly ==
    /\ pass.stage = "hourly"
    /\ pass' = NoPass /\ rolled' = pass.at
    /\ \/ /\ hour' = RollHour(Floor(HourlyCutoff(pass), Hour))
          /\ jobs' = [jobs EXCEPT !.hour = "success"]
          /\ UNCHANGED faults
       \/ Fail /\ jobs' = [jobs EXCEPT !.hour = "failure"] /\ UNCHANGED hour
    /\ UNCHANGED <<clock, raw, five, sweeper, swept, prompt>>

(******************************** Retention ********************************)

\* Mutant: the cutoff of the samples may fall inside a bucket.
RawCutoff_NotAligned(t) == t - RawKeep

\* Cutoffs are aligned down to the bucket of the next tier.
RawCutoff(t) == Floor(t - RawKeep, Five)
FiveCutoff(t) == Floor(t - FiveKeep, Hour)

\* Retention.RunOnce. The worker's interval is longer than the aggregator's,
\* so a process has rolled before it first deletes.
StartRetention ==
    /\ sweeper.tier = "none" /\ rolled # -1
    /\ sweeper' = [tier |-> "raw", raw |-> RawCutoff(clock),
                   five |-> FiveCutoff(clock), hour |-> clock - HourKeep]
    /\ swept' = clock
    /\ UNCHANGED <<clock, tiers, pass, jobs, rolled, faults, prompt>>

\* The rows the sweep may delete, over all tiers under their own key.
Expired ==
    CASE sweeper.tier = "raw" -> {s \in raw : s < sweeper.raw}
      [] sweeper.tier = "five" ->
            {b \in Buckets(Five) : five[b] # {} /\ b < sweeper.five}
      [] sweeper.tier = "hour" ->
            {b \in Buckets(Hour) : hour[b] # {} /\ b < sweeper.hour}

NextTier == [raw |-> "five", five |-> "hour", hour |-> "none"]

\* One DELETE of at most Chunk rows, in no stated order; fewer than Chunk ends
\* the tier.
DeleteChunk ==
    /\ sweeper.tier # "none"
    /\ \E rows \in SUBSET Expired :
          /\ Cardinality(rows) = Chunk \/ (rows = Expired /\ Cardinality(rows) < Chunk)
          /\ sweeper' = IF Cardinality(rows) < Chunk
                        THEN [sweeper EXCEPT !.tier = NextTier[@]] ELSE sweeper
          /\ raw' = IF sweeper.tier = "raw" THEN raw \ rows ELSE raw
          /\ five' = [b \in Buckets(Five) |->
                         IF sweeper.tier = "five" /\ b \in rows THEN {} ELSE five[b]]
          /\ hour' = [b \in Buckets(Hour) |->
                         IF sweeper.tier = "hour" /\ b \in rows THEN {} ELSE hour[b]]
    /\ UNCHANGED <<clock, pass, jobs, swept, rolled, faults, prompt>>

\* A statement fails: the pass goes on with the next tier.
DeleteFails ==
    /\ sweeper.tier # "none" /\ Fail
    /\ sweeper' = [sweeper EXCEPT !.tier = NextTier[@]]
    /\ UNCHANGED <<clock, tiers, pass, jobs, swept, rolled, prompt>>

\* The service stops and starts: both workers lose their place.
RestartWorkers ==
    /\ Fail
    /\ pass' = NoPass /\ sweeper' = NoSweep /\ rolled' = -1
    /\ UNCHANGED <<clock, tiers, jobs, swept, prompt>>

\* Both workers run many times within what the tiers keep.
TierTick ==
    /\ clock < MaxNow /\ clock' = clock + 1
    /\ clock - (IF rolled = -1 THEN 0 ELSE rolled) < RollEvery
    /\ clock - swept < SweepEvery
    /\ UNCHANGED <<tiers, pass, sweeper, jobs, swept, rolled, faults, prompt>>

TiersNext ==
    \/ \E s \in SampleSlots : StoreSample(s)
    \/ Roll5Min \/ RollHourly
    \/ StartRetention \/ DeleteChunk \/ DeleteFails
    \/ RestartWorkers \/ TierTick

TiersSpec == TiersInit /\ [][TiersNext]_tierVars

(********************************* Queries *********************************)

\* Mutant: any row at all is taken for cover.
Covers_AnyRow(keys, from) == keys # {}

\* The oldest timestamp of a tier (MIN, NULL with no row) is not after from.
Covers(keys, from) == \E k \in keys : k <= from

\* resolveMetricsTier for resolution=auto: by the length of the window, then
\* down to the first tier whose oldest row is not after its start.
AutoTier(from, to) ==
    LET fiveKeys == {b \in Buckets(Five) : five[b] # {}}
    IN  IF to - from <= Hour /\ Covers(raw, from) THEN "raw"
        ELSE IF to - from <= MidLimit /\ Covers(fiveKeys, from) THEN "five"
        ELSE "hour"

(******************************** Properties *******************************)

\* An aggregate is never replaced by one made from fewer samples: a bucket
\* recomputed while its source rows expire keeps what it said, until the tier
\* deletes it ("retention only ever deletes whole source buckets", retention.go).
AggregatesOnlyGrow ==
    [][/\ \A b \in Buckets(Five) : five'[b] = {} \/ five[b] \subseteq five'[b]
       /\ \A h \in Buckets(Hour) : hour'[h] = {} \/ hour[h] \subseteq hour'[h]]_tierVars

\* A published hour holds every sample that was stored in time, once a tick
\* has ended and both of its rollups are recorded as successful.
HoursAreWhole ==
    (pass.stage = "idle" /\ rolled # -1 /\ jobs.five = "success"
        /\ jobs.hour = "success") =>
    \A h \in Buckets(Hour) : hour[h] # {} =>
        \A s \in prompt : Floor(s, Hour) = h => s \in hour[h]

\* The tier chosen for a chart has every timely sample of the window that the
\* aggregator was due to deliver: one old enough row is proof of cover.
AutoTierCovers ==
    (pass.stage = "idle" /\ rolled # -1 /\ jobs.five = "success") =>
    \A from \in SampleSlots : \A to \in from + 1 .. LastSlot + 1 :
        LET due == {s \in prompt : /\ from <= s /\ s < to
                                   /\ Floor(s, Five) >= from
                                   /\ Floor(s, Five) + FiveMinWatermark <= rolled}
        IN  CASE AutoTier(from, to) = "raw" -> due \subseteq raw
              [] AutoTier(from, to) = "five" ->
                    \A s \in due : s \in five[Floor(s, Five)]
              [] OTHER -> TRUE

\* The two halves of what the rollups promise (aggregator.go, retention.go).
RollupsAreWhole == []HoursAreWhole /\ AggregatesOnlyGrow
=============================================================================
