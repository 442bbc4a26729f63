---------------------------- MODULE MetricsProofs ----------------------------
(***************************************************************************)
(* Proofs about the three tiers of the performance history, for any length *)
(* of the tiers and any number of samples.  Beside the types the invariant *)
(* (TiersInv) says what each table keeps of the others below the cutoffs of *)
(* the last sweep; there are some times l, m and g, when the workers last  *)
(* did their work, for which it holds.  First come the arithmetic of       *)
(* buckets and of delays, then one lemma per action.                       *)
(***************************************************************************)
EXTENDS MetricsTiers, FiniteSetTheorems, TLAPS

(* A time on the boundary of a bucket.                                     *)
Aligned(a, len) == a \in Int /\ \E k \in Int : a = k * len

(* Truncating takes the last boundary not after a time.                    *)
LEMMA FloorIs ==
    ASSUME NEW t \in Int, NEW len \in Nat \ {0}
    PROVE  /\ Floor(t, len) \in Int /\ Aligned(Floor(t, len), len)
           /\ Floor(t, len) <= t /\ t < Floor(t, len) + len
  <1> DEFINE k == t \div len
  <1>1. k \in Int /\ k * len <= t /\ t < (k + 1) * len
    OBVIOUS
  <1>2. Floor(t, len) = k * len
    BY DEF Floor
  <1> HIDE DEF k
  <1>3. k * len \in Int /\ (k + 1) * len = k * len + len
    BY <1>1
  <1> QED  BY <1>1, <1>2, <1>3 DEF Aligned

(* Boundaries are a bucket apart.                                          *)
LEMMA BoundariesApart ==
    ASSUME NEW len \in Nat \ {0}, NEW a, NEW b, Aligned(a, len), Aligned(b, len), a < b
    PROVE  a + len <= b
  <1>1. PICK i \in Int, j \in Int : a = i * len /\ b = j * len
    BY DEF Aligned
  <1>2. i < j
    <2> SUFFICES ASSUME j <= i PROVE FALSE
      BY <1>1
    <2>1. j * len <= i * len
      OBVIOUS
    <2> QED  BY <1>1, <2>1
  <1>3. (i + 1) * len <= j * len
    BY <1>2
  <1>4. (i + 1) * len = i * len + len
    OBVIOUS
  <1> QED  BY <1>1, <1>3, <1>4

(* The boundary a time is truncated to is the only one within a bucket.    *)
LEMMA FloorIsUnique ==
    ASSUME NEW len \in Nat \ {0}, NEW t \in Int, NEW a, Aligned(a, len), a <= t
    PROVE  /\ a <= Floor(t, len)
           /\ t < a + len => Floor(t, len) = a
  <1>1. a \in Int
    BY DEF Aligned
  <1>2. /\ Floor(t, len) \in Int /\ Aligned(Floor(t, len), len)
        /\ Floor(t, len) <= t /\ t < Floor(t, len) + len
    BY FloorIs
  <1>3. a <= Floor(t, len)
    <2> SUFFICES ASSUME Floor(t, len) < a PROVE FALSE
      BY <1>1, <1>2
    <2>1. Floor(t, len) + len <= a
      BY <1>2, BoundariesApart
    <2> QED  BY <1>1, <1>2, <2>1
  <1>4. ASSUME t < a + len, a < Floor(t, len) PROVE FALSE
    <2>1. a + len <= Floor(t, len)
      BY <1>2, <1>4, BoundariesApart
    <2> QED  BY <1>1, <1>2, <1>4, <2>1
  <1> QED  BY <1>1, <1>2, <1>3, <1>4

(* An hour is a whole number of five-minute buckets.                       *)
LEMMA HoursAreAligned ==
    ASSUME NEW a, Aligned(a, Hour)
    PROVE  Aligned(a, Five)
  <1>1. PICK n \in 1..Hour : Hour = n * Five
    BY TiersAssumption
  <1>2. PICK k \in Int : a = k * Hour
    BY DEF Aligned
  <1>3. Five \in Int /\ n \in Int
    BY TiersAssumption
  <1>4. a = (k * n) * Five /\ k * n \in Int
    BY <1>1, <1>2, <1>3
  <1> QED  BY <1>4 DEF Aligned

(* A bucket lies within its hour.                                          *)
LEMMA BucketInHour ==
    ASSUME NEW t \in Int
    PROVE  /\ Floor(t, Hour) <= Floor(t, Five)
           /\ Floor(t, Five) + Five <= Floor(t, Hour) + Hour
           /\ Floor(Floor(t, Five), Hour) = Floor(t, Hour)
  <1>1. Five \in Nat \ {0} /\ Hour \in Nat \ {0}
    BY TiersAssumption
  <1>2. /\ Floor(t, Hour) \in Int /\ Aligned(Floor(t, Hour), Hour)
        /\ Floor(t, Hour) <= t /\ t < Floor(t, Hour) + Hour
        /\ Floor(t, Five) \in Int /\ Aligned(Floor(t, Five), Five)
        /\ Floor(t, Five) <= t /\ t < Floor(t, Five) + Five
    BY <1>1, FloorIs
  <1>3. Aligned(Floor(t, Hour), Five)
    BY <1>2, HoursAreAligned
  <1>4. Floor(t, Hour) <= Floor(t, Five)
    BY <1>1, <1>2, <1>3, FloorIsUnique
  <1>5. Aligned(Floor(t, Hour) + Hour, Hour)
    <2>1. PICK k \in Int : Floor(t, Hour) = k * Hour
      BY <1>2 DEF Aligned
    <2>2. Floor(t, Hour) + Hour = (k + 1) * Hour
      BY <2>1, <1>1
    <2>3. k + 1 \in Int /\ Floor(t, Hour) + Hour \in Int
      BY <1>1, <1>2
    <2> QED  BY <2>2, <2>3, Zenon DEF Aligned
  <1>6. Aligned(Floor(t, Hour) + Hour, Five)
    BY <1>5, HoursAreAligned
  <1>7. Floor(t, Five) + Five <= Floor(t, Hour) + Hour
    <2>1. Floor(t, Five) < Floor(t, Hour) + Hour
      BY <1>1, <1>2
    <2> QED  BY <1>1, <1>2, <1>6, <2>1, BoundariesApart
  <1>8. Floor(t, Five) < Floor(t, Hour) + Hour
    BY <1>1, <1>2, <1>7
  <1>9. Floor(Floor(t, Five), Hour) = Floor(t, Hour)
    BY <1>1, <1>2, <1>4, <1>8, FloorIsUnique
  <1> QED  BY <1>4, <1>7, <1>9

(* The buckets of a tier are slots on its boundaries.                      *)
LEMMA BucketsAre ==
    ASSUME NEW len \in Nat \ {0}
    PROVE  /\ \A b \in Buckets(len) : b \in SampleSlots /\ b \in Int /\ Aligned(b, len)
           /\ \A s \in SampleSlots : s \in Int /\ Floor(s, len) \in Buckets(len)
  <1>1. ASSUME NEW s \in SampleSlots
        PROVE  /\ s \in Int /\ 0 <= Floor(s, len) /\ Floor(s, len) <= s
               /\ Floor(s, len) \in Int /\ Aligned(Floor(s, len), len)
    <2>1. s \in Int /\ 0 <= s
      BY TiersAssumption DEF SampleSlots
    <2>2. Aligned(0, len)
      <3>1. 0 = 0 * len
        OBVIOUS
      <3> QED  BY <3>1 DEF Aligned
    <2>3. 0 <= Floor(s, len)
      BY <2>1, <2>2, FloorIsUnique
    <2> QED  BY <2>1, <2>3, FloorIs
  <1>2. \A b \in Buckets(len) : \E s \in SampleSlots : b = Floor(s, len)
    BY DEF Buckets
  <1>3. ASSUME NEW b \in Buckets(len)
        PROVE  b \in SampleSlots /\ b \in Int /\ Aligned(b, len)
    <2>1. PICK s \in SampleSlots : b = Floor(s, len)
      BY <1>2
    <2>2. b \in Int /\ 0 <= b /\ b <= s /\ Aligned(b, len)
      BY <1>1, <2>1
    <2>3. s \in Int /\ s <= LastSlot /\ LastSlot \in Int
      BY TiersAssumption DEF SampleSlots
    <2>4. b \in SampleSlots
      BY <2>2, <2>3 DEF SampleSlots
    <2> QED  BY <2>2, <2>4
  <1> QED  BY <1>1, <1>3 DEF Buckets

(* The cutoffs of retention are boundaries, and only move forward.         *)
LEMMA CutoffsAre ==
    ASSUME NEW t \in Int
    PROVE  /\ RawCutoff(t) \in Int /\ Aligned(RawCutoff(t), Five)
           /\ RawCutoff(t) <= t - RawKeep /\ t - RawKeep < RawCutoff(t) + Five
           /\ FiveCutoff(t) \in Int /\ Aligned(FiveCutoff(t), Hour)
           /\ FiveCutoff(t) <= t - FiveKeep
           /\ \A u \in Int : t <= u => RawCutoff(t) <= RawCutoff(u)
  <1>1. Five \in Nat \ {0} /\ Hour \in Nat \ {0} /\ RawKeep \in Nat /\ FiveKeep \in Nat
    BY TiersAssumption
  <1>2. ASSUME NEW u \in Int
        PROVE  /\ RawCutoff(u) \in Int /\ Aligned(RawCutoff(u), Five)
               /\ RawCutoff(u) <= u - RawKeep /\ u - RawKeep < RawCutoff(u) + Five
    <2>1. u - RawKeep \in Int
      BY <1>1
    <2> QED  BY <1>1, <2>1, FloorIs DEF RawCutoff
  <1>3. ASSUME NEW u \in Int, t <= u
        PROVE  RawCutoff(t) <= RawCutoff(u)
    <2>1. u - RawKeep \in Int /\ RawCutoff(t) <= u - RawKeep
      BY <1>1, <1>2, <1>3
    <2> QED  BY <1>1, <1>2, <2>1, FloorIsUnique DEF RawCutoff
  <1>4. t - FiveKeep \in Int
    BY <1>1
  <1>5. /\ FiveCutoff(t) \in Int /\ Aligned(FiveCutoff(t), Hour)
        /\ FiveCutoff(t) <= t - FiveKeep
    BY <1>1, <1>4, FloorIs DEF FiveCutoff
  <1> QED  BY <1>2, <1>3, <1>5

(* What n failures can delay a worker that runs this often.                *)
Delay(n, every) == n * every

LEMMA DelayGrows ==
    ASSUME NEW n \in Nat, NEW every \in Nat
    PROVE  /\ Delay(n, every) \in Nat /\ Delay(n + 1, every) = Delay(n, every) + every
           /\ \A k \in Nat : n <= k => Delay(n, every) <= Delay(k, every)
  <1>1. n * every \in Nat /\ (n + 1) * every = n * every + every
    OBVIOUS
  <1>2. ASSUME NEW k \in Nat, n <= k
        PROVE  n * every <= k * every
    BY <1>2
  <1> QED  BY <1>1, <1>2 DEF Delay

-----------------------------------------------------------------------------
(* What a sweep finds expired of a tier that others are made from goes in  *)
(* one DELETE.  The run retention_chunks shows what this is for.           *)
SweepFits == sweeper.tier \in {"raw", "five"} => Cardinality(Expired) < Chunk

(* The workers fail for less long than the tiers overlap.                  *)
FewFailures ==
    /\ Delay(MaxFaults + 1, RollEvery) + Five <= RawKeep
    /\ RawKeep <= FiveKeep
    /\ Delay(MaxFaults, SweepEvery) + Five + RawKeep <= FiveKeep

(* The pace of both workers: l is when the five-minute rollup last         *)
(* succeeded, m when a whole tick did, g when the last pass began that     *)
(* deleted the expired samples.  Each delay has used up a failure.         *)
Paced(l, m, g) ==
    /\ l \in Nat /\ m \in Nat /\ g \in Nat
    /\ m <= l /\ l <= clock
    /\ clock <= m + Delay(faults + 1, RollEvery)
    /\ rolled # -1 => rolled <= clock /\ rolled <= m + Delay(faults, RollEvery)
    /\ pass.stage = "hourly" =>
         /\ rolled <= pass.at /\ pass.at <= clock /\ clock <= pass.at + RollEvery
         /\ jobs.five = "failure" => pass.at <= m + Delay(faults, RollEvery)
         /\ jobs.five = "success" => l >= pass.at
    /\ pass.stage = "idle" /\ rolled # -1 /\ jobs.five = "success" =>
         /\ l >= rolled
         /\ jobs.hour = "success" => m >= rolled
    /\ g <= swept /\ swept <= clock /\ clock <= swept + SweepEvery
    /\ swept <= g + Delay(IF sweeper.tier = "raw" THEN faults + 1 ELSE faults, SweepEvery)
    /\ sweeper.tier # "none" => /\ sweeper.raw = RawCutoff(swept)
                                /\ sweeper.five = FiveCutoff(swept)

(* An hour whose five-minute rows have been deleted for good.              *)
Gone(h, g) ==
    /\ h + Hour <= RawCutoff(g)
    /\ h + Hour + FiveKeep <= clock
    /\ \A b \in Buckets(Five) : b < h + Hour => five[b] = {}

(* Samples are deleted up to a boundary, and all of those before it.       *)
SamplesKept(g) ==
    /\ \A r \in raw : r >= RawCutoff(g)
    /\ \A s \in prompt : s <= clock /\ (s >= RawCutoff(g) => s \in raw)

(* An aggregate keeps every sample it was made from, and has every timely  *)
(* one that the last rollup was due to deliver, until its hour is deleted. *)
FiveKept(l, g) ==
    /\ \A b \in Buckets(Five) : \A s \in five[b] :
         Floor(s, Five) = b /\ (s >= RawCutoff(g) => s \in raw)
    /\ \A s \in prompt : Floor(s, Five) + FiveMinWatermark <= l =>
         s \in five[Floor(s, Five)] \/ Gone(Floor(s, Hour), g)

(* And so does an hour.                                                    *)
HoursKept(m, g) ==
    \A h \in Buckets(Hour) :
      /\ \A s \in hour[h] :
           Floor(s, Hour) = h /\ (s \in five[Floor(s, Five)] \/ Gone(h, g))
      /\ hour[h] # {} =>
           /\ h + HourlyWatermark <= clock
           /\ rolled # -1 => h + HourlyWatermark <= rolled
           /\ pass.stage = "hourly" => h + HourlyWatermark <= pass.at
           /\ h + HourlyWatermark <= m =>
                \A s \in prompt : Floor(s, Hour) = h => s \in hour[h]

TiersKept(l, m, g) ==
    TiersTypeOK /\ Paced(l, m, g) /\ SamplesKept(g) /\ FiveKept(l, g) /\ HoursKept(m, g)

-----------------------------------------------------------------------------
LEMMA TiersType == TiersSpec => []TiersTypeOK
  <1>0. Five \in Nat \ {0} /\ Hour \in Nat \ {0} /\ MaxNow \in Nat /\ MaxFaults \in Nat
    BY TiersAssumption
  <1>1. TiersInit => TiersTypeOK
    BY <1>0 DEF TiersInit, TiersTypeOK, NoPass, NoSweep
  <1>2. ASSUME TiersTypeOK, [TiersNext]_tierVars
        PROVE  TiersTypeOK'
    <2> USE <1>2, <1>0
    <2>1. ASSUME NEW s \in SampleSlots, StoreSample(s) PROVE TiersTypeOK'
      BY <2>1 DEF TiersTypeOK, StoreSample
    <2>2. CASE Roll5Min
      <3>1. five' = five \/ five' = RollFive(Floor(clock - FiveMinWatermark, Five))
        BY <2>2 DEF Roll5Min
      <3>2. ASSUME NEW upto PROVE RollFive(upto) \in [Buckets(Five) -> SUBSET SampleSlots]
        BY DEF TiersTypeOK, RollFive
      <3>3. five' \in [Buckets(Five) -> SUBSET SampleSlots]
        BY <3>1, <3>2 DEF TiersTypeOK
      <3>4. jobs' \in [five : {"success", "failure"}, hour : {"success", "failure"}]
        BY <2>2 DEF TiersTypeOK, Roll5Min
      <3>5. faults' \in 0..MaxFaults
        BY <2>2 DEF TiersTypeOK, Roll5Min, Fail
      <3>6. pass' \in [stage : {"idle", "hourly"}, at : 0..MaxNow]
        BY <2>2 DEF TiersTypeOK, Roll5Min
      <3> QED  BY <2>2, <3>3, <3>4, <3>5, <3>6 DEF TiersTypeOK, Roll5Min
    <2>3. CASE RollHourly
      <3>1. hour' \in [Buckets(Hour) -> SUBSET SampleSlots]
        BY <2>3 DEF TiersTypeOK, RollHourly, RollHour
      <3> QED  BY <2>3, <3>1 DEF TiersTypeOK, RollHourly, Fail, NoPass
    <2>4. CASE StartRetention
      <3>1. RawCutoff(clock) \in Int /\ FiveCutoff(clock) \in Int /\ clock - HourKeep \in Int
        <4>1. clock \in Int /\ HourKeep \in Int
          BY TiersAssumption DEF TiersTypeOK
        <4> QED  BY <4>1, CutoffsAre
      <3>2. sweeper' \in [tier : {"none", "raw", "five", "hour"}, raw : Int, five : Int, hour : Int]
        BY <2>4, <3>1 DEF StartRetention
      <3> QED  BY <2>4, <3>2 DEF TiersTypeOK, StartRetention, tiers
    <2>5. CASE DeleteChunk
      <3>1. five' \in [Buckets(Five) -> SUBSET SampleSlots] /\ hour' \in [Buckets(Hour) -> SUBSET SampleSlots]
        BY <2>5 DEF TiersTypeOK, DeleteChunk
      <3>2. raw' \subseteq SampleSlots
        BY <2>5 DEF TiersTypeOK, DeleteChunk
      <3>3. sweeper' \in [tier : {"none", "raw", "five", "hour"}, raw : Int, five : Int, hour : Int]
        BY <2>5 DEF TiersTypeOK, DeleteChunk, NextTier
      <3> QED  BY <2>5, <3>1, <3>2, <3>3 DEF TiersTypeOK, DeleteChunk
    <2>6. CASE DeleteFails
      BY <2>6 DEF TiersTypeOK, DeleteFails, Fail, NextTier, tiers
    <2>7. CASE RestartWorkers
      BY <2>7 DEF TiersTypeOK, RestartWorkers, Fail, NoPass, NoSweep, tiers
    <2>8. CASE TierTick
      BY <2>8 DEF TiersTypeOK, TierTick, tiers
    <2>9. CASE UNCHANGED tierVars
      BY <2>9 DEF TiersTypeOK, tierVars, tiers
    <2> QED  BY <2>1, <2>2, <2>3, <2>4, <2>5, <2>6, <2>7, <2>8, <2>9 DEF TiersNext
  <1> QED  BY <1>1, <1>2, PTL DEF TiersSpec

(* A slot, its bucket and its hour.                                        *)
LEMMA SlotIs ==
    ASSUME NEW s \in SampleSlots
    PROVE  /\ s \in Int
           /\ Floor(s, Five) \in Buckets(Five) /\ Floor(s, Five) \in Int
           /\ Floor(s, Hour) \in Buckets(Hour) /\ Floor(s, Hour) \in Int
           /\ Aligned(Floor(s, Five), Five) /\ Aligned(Floor(s, Hour), Hour)
           /\ Aligned(Floor(s, Hour), Five)
           /\ Floor(s, Five) <= s /\ s < Floor(s, Five) + Five
           /\ Floor(s, Hour) <= Floor(s, Five)
           /\ Floor(s, Five) + Five <= Floor(s, Hour) + Hour
           /\ Floor(Floor(s, Five), Hour) = Floor(s, Hour)
  <1>1. Five \in Nat \ {0} /\ Hour \in Nat \ {0}
    BY TiersAssumption
  <1>2. s \in Int /\ Floor(s, Five) \in Buckets(Five) /\ Floor(s, Hour) \in Buckets(Hour)
    BY <1>1, BucketsAre
  <1> QED  BY <1>1, <1>2, FloorIs, BucketInHour, HoursAreAligned

(* A bucket and its hour.                                                  *)
LEMMA BucketIs ==
    ASSUME NEW b \in Buckets(Five)
    PROVE  /\ b \in SampleSlots /\ b \in Int /\ Aligned(b, Five)
           /\ Floor(b, Hour) \in Buckets(Hour) /\ Floor(b, Hour) \in Int
           /\ Floor(b, Hour) <= b /\ b < Floor(b, Hour) + Hour
  <1>1. Five \in Nat \ {0} /\ Hour \in Nat \ {0}
    BY TiersAssumption
  <1>2. b \in SampleSlots /\ b \in Int /\ Aligned(b, Five)
    BY <1>1, BucketsAre
  <1>3. Floor(b, Hour) \in Buckets(Hour)
    BY <1>1, <1>2, BucketsAre
  <1> QED  BY <1>1, <1>2, <1>3, FloorIs

(* The numbers of the constants and of the state.                          *)
LEMMA TierNumbers ==
    ASSUME NEW l, NEW m, NEW g, TiersKept(l, m, g)
    PROVE  /\ Five \in Nat /\ Five > 0 /\ Hour \in Nat /\ Hour > 0
           /\ RawKeep \in Nat /\ FiveKeep \in Nat /\ MaxLate \in Nat /\ MaxLate <= RawKeep
           /\ RollEvery \in Nat /\ SweepEvery \in Nat /\ MaxFaults \in Nat
           /\ l \in Nat /\ m \in Nat /\ g \in Nat /\ m <= l /\ l <= clock
           /\ clock \in Nat /\ faults \in Nat /\ faults <= MaxFaults /\ swept \in Nat
           /\ rolled \in Int /\ rolled >= -1 /\ pass.at \in Nat
           /\ g <= swept /\ swept <= clock
  BY TiersAssumption DEF TiersKept, TiersTypeOK, Paced

(* The cutoffs the last passes used.                                       *)
LEMMA KeptCutoffs ==
    ASSUME NEW l, NEW m, NEW g, TiersKept(l, m, g)
    PROVE  /\ RawCutoff(g) \in Int /\ Aligned(RawCutoff(g), Five)
           /\ RawCutoff(g) <= g - RawKeep /\ g - RawKeep < RawCutoff(g) + Five
           /\ RawCutoff(g) <= RawCutoff(swept)
           /\ RawCutoff(g) <= clock - RawKeep
  <1>1. g \in Int /\ swept \in Int /\ clock \in Int /\ RawKeep \in Int /\ g <= swept /\ swept <= clock
    BY TierNumbers
  <1>2. /\ RawCutoff(g) \in Int /\ Aligned(RawCutoff(g), Five)
        /\ RawCutoff(g) <= g - RawKeep /\ g - RawKeep < RawCutoff(g) + Five
        /\ RawCutoff(g) <= RawCutoff(swept)
    BY <1>1, CutoffsAre
  <1> QED  BY <1>1, <1>2

(* How long ago the last whole tick was, and the last sweep of the samples.*)
LEMMA KeptPace ==
    ASSUME NEW l, NEW m, NEW g, TiersKept(l, m, g), FewFailures
    PROVE  /\ clock + Five <= m + RawKeep /\ RawKeep <= FiveKeep
           /\ sweeper.tier # "raw" => swept + Five + RawKeep <= g + FiveKeep
  <1>1. /\ RollEvery \in Nat /\ SweepEvery \in Nat /\ MaxFaults \in Nat /\ faults \in Nat
        /\ faults <= MaxFaults /\ clock \in Int /\ m \in Int /\ g \in Int /\ swept \in Int
        /\ Five \in Int /\ RawKeep \in Int /\ FiveKeep \in Int
    BY TierNumbers
  <1>2. /\ Delay(faults + 1, RollEvery) <= Delay(MaxFaults + 1, RollEvery)
        /\ Delay(faults + 1, RollEvery) \in Int /\ Delay(MaxFaults + 1, RollEvery) \in Int
    <2>1. faults + 1 \in Nat /\ MaxFaults + 1 \in Nat /\ faults + 1 <= MaxFaults + 1
      BY <1>1
    <2>2. Delay(MaxFaults + 1, RollEvery) \in Nat
      BY <1>1, <2>1, DelayGrows
    <2>3. /\ Delay(faults + 1, RollEvery) \in Nat
          /\ \A k \in Nat : faults + 1 <= k => Delay(faults + 1, RollEvery) <= Delay(k, RollEvery)
      BY <1>1, <2>1, DelayGrows, Zenon
    <2> QED  BY <1>1, <2>1, <2>2, <2>3
  <1>3. /\ Delay(faults, SweepEvery) <= Delay(MaxFaults, SweepEvery)
        /\ Delay(faults, SweepEvery) \in Int /\ Delay(MaxFaults, SweepEvery) \in Int
    <2>1. Delay(MaxFaults, SweepEvery) \in Nat
      BY <1>1, DelayGrows
    <2>2. /\ Delay(faults, SweepEvery) \in Nat
          /\ \A k \in Nat : faults <= k => Delay(faults, SweepEvery) <= Delay(k, SweepEvery)
      BY <1>1, DelayGrows, Zenon
    <2> QED  BY <1>1, <2>1, <2>2
  <1>4. clock <= m + Delay(faults + 1, RollEvery)
    BY DEF TiersKept, Paced
  <1>5. sweeper.tier # "raw" => swept <= g + Delay(faults, SweepEvery)
    BY DEF TiersKept, Paced
  <1>6. /\ Delay(MaxFaults + 1, RollEvery) + Five <= RawKeep /\ RawKeep <= FiveKeep
        /\ Delay(MaxFaults, SweepEvery) + Five + RawKeep <= FiveKeep
    BY DEF FewFailures
  <1> QED  BY <1>1, <1>2, <1>3, <1>4, <1>5, <1>6

(* An hour without a row, below both cutoffs, stays so.                    *)
LEMMA GoneStays ==
    ASSUME NEW h \in Int, NEW g \in Int, NEW k \in Int,
           Gone(h, g), g <= k, clock \in Int, clock' \in Int, clock <= clock',
           \A b \in Buckets(Five) : b < h + Hour => five'[b] = {}
    PROVE  Gone(h, k)'
  <1>1. RawCutoff(g) \in Int /\ RawCutoff(k) \in Int /\ RawCutoff(g) <= RawCutoff(k)
    BY CutoffsAre
  <1>2. h + Hour <= RawCutoff(g) /\ h + Hour + FiveKeep <= clock
    BY DEF Gone
  <1>3. h + Hour \in Int /\ h + Hour + FiveKeep \in Int
    BY TiersAssumption
  <1>4. h + Hour <= RawCutoff(k) /\ h + Hour + FiveKeep <= clock'
    BY <1>1, <1>2, <1>3
  <1> QED  BY <1>4 DEF Gone

(* What no table tells apart keeps what they say.                          *)
LEMMA TablesStay ==
    ASSUME NEW l, NEW m, NEW g, TiersKept(l, m, g), TiersTypeOK',
           UNCHANGED <<raw, five, prompt>>, clock <= clock'
    PROVE  /\ SamplesKept(g)' /\ FiveKept(l, g)'
           /\ \A h \in Buckets(Hour) : Gone(h, g) => Gone(h, g)'
  <1>1. clock \in Int /\ clock' \in Int /\ g \in Int
    BY TierNumbers DEF TiersTypeOK
  <1>2. \A h \in Buckets(Hour) : h \in Int
    BY BucketsAre, TiersAssumption
  <1>3. ASSUME NEW h \in Buckets(Hour), Gone(h, g) PROVE Gone(h, g)'
    <2>1. \A b \in Buckets(Five) : b < h + Hour => five'[b] = {}
      BY <1>3 DEF Gone
    <2> QED  BY <1>1, <1>2, <1>3, <2>1, GoneStays
  <1>4. prompt \subseteq SampleSlots /\ \A s \in prompt : s \in Int
    BY SlotIs DEF TiersKept, TiersTypeOK
  <1>5. SamplesKept(g)'
    <2>1. \A s \in prompt : s <= clock'
      BY <1>1, <1>4 DEF TiersKept, SamplesKept
    <2> QED  BY <2>1 DEF TiersKept, SamplesKept
  <1>6. FiveKept(l, g)'
    <2>1. \A s \in prompt : Floor(s, Hour) \in Buckets(Hour)
      BY <1>4, SlotIs
    <2> QED  BY <1>3, <2>1 DEF TiersKept, FiveKept
  <1> QED  BY <1>3, <1>5, <1>6

(* A step that leaves every table alone.                                   *)
LEMMA HoursStay ==
    ASSUME NEW l, NEW m, NEW g, TiersKept(l, m, g), TiersTypeOK',
           UNCHANGED <<raw, five, hour, prompt>>, clock <= clock',
           rolled' # -1 => rolled' = rolled \/ (pass.stage = "hourly" /\ rolled' = pass.at),
           pass'.stage = "hourly" => pass' = pass \/ pass'.at = clock
    PROVE  HoursKept(m, g)'
  <1>1. clock \in Int /\ clock' \in Int /\ m \in Int /\ HourlyWatermark \in Int
    BY TierNumbers, TiersAssumption DEF TiersTypeOK, HourlyWatermark
  <1>2. \A h \in Buckets(Hour) : h \in Int /\ (Gone(h, g) => Gone(h, g)')
    BY TablesStay, BucketsAre, TiersAssumption
  <1>3. ASSUME NEW h \in Buckets(Hour)
        PROVE  \A s \in hour[h] :
                 Floor(s, Hour) = h /\ (s \in five[Floor(s, Five)] \/ Gone(h, g)')
    BY <1>2 DEF TiersKept, HoursKept
  <1>4. ASSUME NEW h \in Buckets(Hour), hour[h] # {}
        PROVE  /\ h + HourlyWatermark <= clock'
               /\ rolled' # -1 => h + HourlyWatermark <= rolled'
               /\ pass'.stage = "hourly" => h + HourlyWatermark <= pass'.at
               /\ h + HourlyWatermark <= m =>
                    \A s \in prompt : Floor(s, Hour) = h => s \in hour[h]
    <2>1. /\ h + HourlyWatermark <= clock
          /\ rolled # -1 => h + HourlyWatermark <= rolled
          /\ pass.stage = "hourly" => h + HourlyWatermark <= pass.at
          /\ h + HourlyWatermark <= m =>
               \A s \in prompt : Floor(s, Hour) = h => s \in hour[h]
      BY <1>4 DEF TiersKept, HoursKept
    <2>2. h + HourlyWatermark \in Int
      BY <1>1, <1>2
    <2> QED  BY <1>1, <2>1, <2>2
  <1> QED  BY <1>3, <1>4 DEF HoursKept, HourlyWatermark

(* A sample is stored: it has not expired, and if it is timely no bucket   *)
(* that holds it was due.                                                  *)
LEMMA StoreKeeps ==
    ASSUME NEW l, NEW m, NEW g, TiersKept(l, m, g), TiersTypeOK',
           NEW s \in SampleSlots, StoreSample(s)
    PROVE  TiersKept(l, m, g)'
  <1> DEFINE c == RawCutoff(g)
  <1>1. /\ Five \in Int /\ Hour \in Int /\ RawKeep \in Int /\ MaxLate \in Int /\ MaxLate <= RawKeep
        /\ clock \in Int /\ l \in Int /\ m \in Int /\ l <= clock /\ m <= clock
    BY TierNumbers
  <1>2. c \in Int /\ c <= clock - RawKeep
    BY KeptCutoffs
  <1>3. /\ s <= clock /\ clock - s <= MaxLate
        /\ raw' = raw \union {s}
        /\ \A p \in prompt' : p \in prompt \/ (p = s /\ clock - s <= Five)
        /\ UNCHANGED <<clock, five, hour, pass, sweeper, jobs, swept, rolled, faults>>
    BY DEF StoreSample
  <1>4. /\ s \in Int /\ Floor(s, Five) \in Int /\ Floor(s, Hour) \in Int
        /\ s < Floor(s, Five) + Five /\ Floor(s, Five) + Five <= Floor(s, Hour) + Hour
    BY SlotIs
  <1>5. RawCutoff(g)' = c /\ \A h : Gone(h, g)' <=> Gone(h, g)
    BY <1>3 DEF Gone, RawCutoff, Floor
  <1>6. Paced(l, m, g)'
    BY <1>3 DEF TiersKept, Paced, RawCutoff, FiveCutoff, Floor
  <1>7. SamplesKept(g)'
    <2>1. s >= c
      BY <1>1, <1>2, <1>3, <1>4
    <2> QED  BY <1>3, <1>5, <2>1 DEF TiersKept, SamplesKept
  <1>8. FiveKept(l, g)'
    <2>1. clock - s <= Five => ~ (Floor(s, Five) + FiveMinWatermark <= l)
      BY <1>1, <1>4 DEF FiveMinWatermark
    <2>2. \A b \in Buckets(Five) : \A p \in five'[b] :
            Floor(p, Five) = b /\ (p >= c => p \in raw')
      BY <1>3 DEF TiersKept, FiveKept
    <2>3. \A p \in prompt' : Floor(p, Five) + FiveMinWatermark <= l =>
            p \in five'[Floor(p, Five)] \/ Gone(Floor(p, Hour), g)'
      BY <1>3, <1>5, <2>1 DEF TiersKept, FiveKept
    <2> QED  BY <1>5, <2>2, <2>3 DEF FiveKept
  <1>9. HoursKept(m, g)'
    <2>1. clock - s <= Five => ~ (Floor(s, Hour) + HourlyWatermark <= m)
      BY <1>1, <1>4 DEF HourlyWatermark
    <2> QED  BY <1>3, <1>5, <2>1 DEF TiersKept, HoursKept, HourlyWatermark
  <1> QED  BY <1>6, <1>7, <1>8, <1>9 DEF TiersKept

(* The five-minute rollup succeeds: no bucket loses a sample, and every    *)
(* timely one that is due now is there.                                    *)
LEMMA RollFiveGrows ==
    ASSUME NEW l, NEW m, NEW g, TiersKept(l, m, g), NEW upto \in Int
    PROVE  \A b \in Buckets(Five) :
             /\ five[b] \subseteq RollFive(upto)[b]
             /\ \A s \in RollFive(upto)[b] :
                  s \in SampleSlots /\ Floor(s, Five) = b /\ (s >= RawCutoff(g) => s \in raw)
             /\ \A s \in raw : Floor(s, Five) = b /\ b <= upto => s \in RollFive(upto)[b]
             /\ b < RawCutoff(g) => RollFive(upto)[b] = five[b]
  <1> DEFINE c == RawCutoff(g)
             source(b) == {s \in raw : Floor(s, Five) = b}
  <1>1. c \in Int /\ Aligned(c, Five)
    BY KeptCutoffs
  <1>2. Five \in Nat \ {0} /\ raw \subseteq SampleSlots
    BY TierNumbers DEF TiersKept, TiersTypeOK
  <1>3. \A b \in Buckets(Five) :
          RollFive(upto)[b] = IF b <= upto /\ source(b) # {} THEN source(b) ELSE five[b]
    BY DEF RollFive
  <1>4. ASSUME NEW r \in raw PROVE Floor(r, Five) >= c
    <2>1. r \in Int /\ c <= r
      BY <1>2, SlotIs DEF TiersKept, SamplesKept
    <2> QED  BY <1>1, <1>2, <2>1, FloorIsUnique
  <1>5. ASSUME NEW b \in Buckets(Five), NEW s \in five[b]
        PROVE  s \in SampleSlots /\ s \in Int /\ b \in Int /\ b <= s /\ Floor(s, Five) = b
                 /\ (s >= c => s \in raw)
    <2>1. s \in SampleSlots /\ Floor(s, Five) = b /\ (s >= c => s \in raw)
      BY DEF TiersKept, FiveKept, TiersTypeOK
    <2> QED  BY <2>1, SlotIs
  <1>6. ASSUME NEW b \in Buckets(Five), source(b) # {}, NEW s \in five[b]
        PROVE  s \in source(b)
    <2>1. b >= c
      BY <1>4, <1>6
    <2> QED  BY <1>1, <1>5, <1>6, <2>1
  <1>7. ASSUME NEW b \in Buckets(Five), b < c PROVE source(b) = {}
    <2> SUFFICES ASSUME NEW r \in source(b) PROVE FALSE
      OBVIOUS
    <2>1. b \in Int
      BY BucketIs
    <2> QED  BY <1>1, <1>4, <1>7, <2>1
  <1> HIDE DEF c
  <1>8. ASSUME NEW b \in Buckets(Five)
        PROVE  /\ five[b] \subseteq RollFive(upto)[b]
               /\ \A s \in RollFive(upto)[b] :
                    s \in SampleSlots /\ Floor(s, Five) = b /\ (s >= c => s \in raw)
               /\ \A s \in raw : Floor(s, Five) = b /\ b <= upto => s \in RollFive(upto)[b]
               /\ b < c => RollFive(upto)[b] = five[b]
    <2>1. CASE b <= upto /\ source(b) # {}
      <3>1. RollFive(upto)[b] = source(b)
        BY <1>3, <2>1
      <3> QED  BY <1>2, <1>6, <1>7, <2>1, <3>1
    <2>2. CASE ~ (b <= upto /\ source(b) # {})
      <3>1. RollFive(upto)[b] = five[b]
        BY <1>3, <2>2
      <3> QED  BY <1>5, <2>2, <3>1
    <2> QED  BY <2>1, <2>2
  <1> QED  BY <1>8 DEF c

LEMMA Roll5MinKeeps ==
    ASSUME NEW l, NEW m, NEW g, TiersKept(l, m, g), TiersTypeOK', FewFailures,
           Roll5Min, five' = RollFive(Floor(clock - FiveMinWatermark, Five)),
           jobs'.five = "success", UNCHANGED faults, NEW u, u = clock
    PROVE  TiersKept(u, m, g)'
  <1> DEFINE c == RawCutoff(g)
             upto == Floor(clock - FiveMinWatermark, Five)
  <1>1. /\ Five \in Nat \ {0} /\ Five \in Int /\ Hour \in Int /\ RawKeep \in Nat /\ FiveKeep \in Int
        /\ clock \in Nat /\ l \in Int /\ m \in Nat /\ l <= clock /\ m <= l /\ g \in Nat /\ g <= clock
        /\ RollEvery \in Nat /\ faults \in Nat /\ rolled \in Int
    BY TierNumbers
  <1>2. /\ UNCHANGED <<clock, raw, hour, sweeper, swept, rolled, prompt>>
        /\ pass' = [stage |-> "hourly", at |-> clock]
    BY DEF Roll5Min
  <1>3. c \in Int /\ c <= g - RawKeep /\ Aligned(c, Five)
    BY KeptCutoffs
  <1>4. /\ clock - FiveMinWatermark \in Int /\ FiveMinWatermark = Five + Five
        /\ FiveMinWatermark \in Int
    BY <1>1 DEF FiveMinWatermark
  <1>5. upto \in Int
    BY <1>1, <1>4, FloorIs
  <1>6. \A b \in Buckets(Five) :
             /\ five[b] \subseteq five'[b]
             /\ \A s \in five'[b] : Floor(s, Five) = b /\ (s >= c => s \in raw)
             /\ \A s \in raw : Floor(s, Five) = b /\ b <= upto => s \in five'[b]
             /\ b < c => five'[b] = five[b]
    BY <1>5, RollFiveGrows
  <1>7. RawCutoff(g)' = c
    BY DEF RawCutoff, Floor
  <1>8. ASSUME NEW h \in Buckets(Hour), Gone(h, g) PROVE Gone(h, g)'
    <2>1. h \in Int
      BY BucketsAre, TiersAssumption
    <2>2. h + Hour <= c /\ \A b \in Buckets(Five) : b < h + Hour => five[b] = {}
      BY <1>8 DEF Gone
    <2>3. ASSUME NEW b \in Buckets(Five), b < h + Hour PROVE five'[b] = {}
      <3>1. b \in Int
        BY BucketIs
      <3>2. b < c
        BY <1>1, <1>3, <2>1, <2>2, <2>3, <3>1
      <3> QED  BY <1>6, <2>2, <2>3, <3>2
    <2>4. clock' = clock /\ g \in Int /\ clock \in Int
      BY <1>1, <1>2
    <2> QED  BY <1>8, <2>1, <2>3, <2>4, GoneStays
  <1>9. ASSUME NEW s \in prompt, Floor(s, Five) + FiveMinWatermark <= clock
        PROVE  s \in five'[Floor(s, Five)] \/ Gone(Floor(s, Hour), g)'
    <2>1. s \in SampleSlots
      BY DEF TiersKept, TiersTypeOK
    <2>2. /\ Floor(s, Five) \in Buckets(Five) /\ Floor(s, Five) \in Int /\ s \in Int
          /\ Aligned(Floor(s, Five), Five) /\ Floor(s, Hour) \in Buckets(Hour)
          /\ Floor(s, Five) <= s
      BY <2>1, SlotIs
    <2>3. CASE s \in raw
      <3>1. Floor(s, Five) <= clock - FiveMinWatermark
        BY <1>1, <1>4, <1>9, <2>2
      <3>2. Floor(s, Five) <= upto
        BY <1>1, <1>4, <2>2, <3>1, FloorIsUnique
      <3> QED  BY <1>6, <2>2, <2>3, <3>2
    <2>4. CASE s \notin raw
      <3>1. s < c
        BY <1>3, <2>2, <2>4 DEF TiersKept, SamplesKept
      <3>2. Floor(s, Five) + Five <= c
        <4>1. Floor(s, Five) < c
          BY <1>3, <2>2, <3>1
        <4> QED  BY <1>1, <1>3, <2>2, <4>1, BoundariesApart
      <3>3. clock + Five <= m + RawKeep
        BY KeptPace
      <3>4. Floor(s, Five) + FiveMinWatermark <= l
        BY <1>1, <1>3, <1>4, <2>2, <3>2, <3>3
      <3>5. s \in five[Floor(s, Five)] \/ Gone(Floor(s, Hour), g)
        BY <3>4 DEF TiersKept, FiveKept
      <3> QED  BY <1>6, <1>8, <2>2, <3>5
    <2> QED  BY <2>3, <2>4
  <1>10. Paced(u, m, g)'
    <2>1. rolled # -1 => rolled <= clock /\ rolled <= m + Delay(faults, RollEvery)
      BY DEF TiersKept, Paced
    <2>2. clock <= m + Delay(faults + 1, RollEvery)
      BY DEF TiersKept, Paced
    <2>3. /\ pass'.stage = "hourly" /\ pass'.at = clock /\ clock' = clock /\ faults' = faults
          /\ rolled' = rolled /\ jobs'.five = "success" /\ u \in Nat /\ u = clock /\ m <= u
          /\ clock <= clock + RollEvery
          /\ rolled <= clock
      BY <1>1, <1>2, <2>1
    <2>4. /\ g <= swept /\ swept <= clock /\ clock <= swept + SweepEvery
          /\ swept <= g + Delay(IF sweeper.tier = "raw" THEN faults + 1 ELSE faults, SweepEvery)
          /\ sweeper.tier # "none" => /\ sweeper.raw = RawCutoff(swept)
                                      /\ sweeper.five = FiveCutoff(swept)
      BY DEF TiersKept, Paced
    <2>5. sweeper' = sweeper /\ swept' = swept
      BY <1>2
    <2> QED  BY <1>1, <2>1, <2>2, <2>3, <2>4, <2>5
             DEF Paced, RawCutoff, FiveCutoff, Floor
  <1>11. SamplesKept(g)'
    BY <1>2, <1>7 DEF TiersKept, SamplesKept
  <1>12. FiveKept(u, g)'
    BY <1>2, <1>6, <1>7, <1>9 DEF FiveKept, FiveMinWatermark
  <1>13. HoursKept(m, g)'
    <2>1. ASSUME NEW h \in Buckets(Hour), NEW s \in hour[h]
          PROVE  Floor(s, Hour) = h /\ (s \in five'[Floor(s, Five)] \/ Gone(h, g)')
      <3>1. s \in SampleSlots
        BY DEF TiersKept, TiersTypeOK
      <3>2. Floor(s, Five) \in Buckets(Five)
        BY <3>1, SlotIs
      <3> QED  BY <1>6, <1>8, <3>2 DEF TiersKept, HoursKept
    <2>2. pass'.at = clock /\ rolled' = rolled /\ clock' = clock /\ hour' = hour /\ prompt' = prompt
      BY <1>2
    <2> QED  BY <2>1, <2>2 DEF TiersKept, HoursKept, HourlyWatermark
  <1> QED  BY <1>10, <1>11, <1>12, <1>13 DEF TiersKept

(* The delays that one more failure, or one more round, allows.            *)
LEMMA DelaysGrow ==
    ASSUME NEW l, NEW m, NEW g, TiersKept(l, m, g)
    PROVE  /\ Delay(faults, RollEvery) \in Nat /\ Delay(faults, SweepEvery) \in Nat
           /\ Delay(faults + 1, RollEvery) = Delay(faults, RollEvery) + RollEvery
           /\ Delay(faults + 1, SweepEvery) = Delay(faults, SweepEvery) + SweepEvery
           /\ Delay(faults + 2, RollEvery) = Delay(faults, RollEvery) + RollEvery + RollEvery
           /\ Delay(faults + 2, SweepEvery) = Delay(faults, SweepEvery) + SweepEvery + SweepEvery
           /\ RollEvery \in Nat /\ SweepEvery \in Nat
  <1>1. RollEvery \in Nat /\ SweepEvery \in Nat /\ faults \in Nat /\ faults + 1 \in Nat
    BY TierNumbers
  <1>2. faults + 1 + 1 = faults + 2
    BY <1>1
  <1>3. ASSUME NEW e \in Nat
        PROVE  /\ Delay(faults, e) \in Nat /\ Delay(faults + 1, e) = Delay(faults, e) + e
               /\ Delay(faults + 2, e) = Delay(faults, e) + e + e
    <2>1. Delay(faults, e) \in Nat /\ Delay(faults + 1, e) = Delay(faults, e) + e
      BY <1>1, DelayGrows
    <2>2. Delay(faults + 1 + 1, e) = Delay(faults + 1, e) + e
      BY <1>1, DelayGrows
    <2> QED  BY <1>2, <2>1, <2>2
  <1> QED  BY <1>1, <1>3

(* The pace as it was.                                                     *)
LEMMA PaceWas ==
    ASSUME NEW l, NEW m, NEW g, TiersKept(l, m, g)
    PROVE  /\ clock <= m + Delay(faults + 1, RollEvery)
           /\ rolled # -1 => rolled <= clock /\ rolled <= m + Delay(faults, RollEvery)
           /\ pass.stage = "hourly" =>
                /\ rolled <= pass.at /\ pass.at <= clock /\ clock <= pass.at + RollEvery
                /\ jobs.five = "failure" => pass.at <= m + Delay(faults, RollEvery)
                /\ jobs.five = "success" => l >= pass.at
           /\ pass.stage = "idle" /\ rolled # -1 /\ jobs.five = "success" =>
                l >= rolled /\ (jobs.hour = "success" => m >= rolled)
           /\ g <= swept /\ swept <= clock /\ clock <= swept + SweepEvery
           /\ sweeper.tier = "raw" => swept <= g + Delay(faults + 1, SweepEvery)
           /\ sweeper.tier # "raw" => swept <= g + Delay(faults, SweepEvery)
           /\ sweeper.tier # "none" => /\ sweeper.raw = RawCutoff(swept)
                                       /\ sweeper.five = FiveCutoff(swept)
           /\ pass.stage \in {"idle", "hourly"} /\ jobs.five \in {"success", "failure"}
  BY DEF TiersKept, Paced, TiersTypeOK

(* Cutoffs are operators of the constants.                                 *)
LEMMA PacedIs ==
    ASSUME NEW l \in Nat, NEW m \in Nat, NEW g \in Nat, m <= l, l <= clock',
           clock' <= m + Delay(faults' + 1, RollEvery),
           rolled' # -1 => rolled' <= clock' /\ rolled' <= m + Delay(faults', RollEvery),
           pass'.stage = "hourly" =>
             /\ rolled' <= pass'.at /\ pass'.at <= clock' /\ clock' <= pass'.at + RollEvery
             /\ jobs'.five = "failure" => pass'.at <= m + Delay(faults', RollEvery)
             /\ jobs'.five = "success" => l >= pass'.at,
           pass'.stage = "idle" /\ rolled' # -1 /\ jobs'.five = "success" =>
             l >= rolled' /\ (jobs'.hour = "success" => m >= rolled'),
           g <= swept', swept' <= clock', clock' <= swept' + SweepEvery,
           sweeper'.tier = "raw" => swept' <= g + Delay(faults' + 1, SweepEvery),
           sweeper'.tier # "raw" => swept' <= g + Delay(faults', SweepEvery),
           sweeper'.tier # "none" => /\ sweeper'.raw = RawCutoff(swept')
                                     /\ sweeper'.five = FiveCutoff(swept')
    PROVE  Paced(l, m, g)'
  <1>1. RawCutoff(swept)' = RawCutoff(swept') /\ FiveCutoff(swept)' = FiveCutoff(swept')
    BY DEF RawCutoff, FiveCutoff, Floor
  <1> QED  BY <1>1 DEF Paced

(* The steps that leave every table alone.                                 *)
LEMMA FailedRollKeeps ==
    ASSUME NEW l, NEW m, NEW g, TiersKept(l, m, g), TiersTypeOK',
           UNCHANGED <<clock, raw, five, hour, sweeper, swept, prompt>>,
           faults' = faults + 1,
           \/ /\ pass' = [stage |-> "hourly", at |-> clock] /\ rolled' = rolled
              /\ jobs'.five = "failure"
           \/ /\ pass.stage = "hourly" /\ pass' = NoPass /\ rolled' = pass.at
              /\ jobs'.five = jobs.five /\ jobs'.hour = "failure"
    PROVE  TiersKept(l, m, g)'
  <1>1. /\ clock \in Nat /\ l \in Nat /\ m \in Nat /\ g \in Nat /\ m <= l /\ l <= clock
        /\ faults \in Nat /\ rolled \in Int /\ swept \in Nat /\ pass.at \in Nat
    BY TierNumbers
  <1>2. clock' = clock /\ sweeper' = sweeper /\ swept' = swept /\ clock <= clock'
    BY <1>1
  <1>3. faults' + 1 = faults + 2
    BY <1>1
  <1>4. /\ Delay(faults, RollEvery) \in Nat /\ Delay(faults, SweepEvery) \in Nat
        /\ Delay(faults', RollEvery) = Delay(faults, RollEvery) + RollEvery
        /\ Delay(faults', SweepEvery) = Delay(faults, SweepEvery) + SweepEvery
        /\ Delay(faults' + 1, RollEvery) = Delay(faults, RollEvery) + RollEvery + RollEvery
        /\ Delay(faults' + 1, SweepEvery) = Delay(faults, SweepEvery) + SweepEvery + SweepEvery
        /\ RollEvery \in Nat /\ SweepEvery \in Nat
    BY <1>3, DelaysGrow
  <1>5. /\ clock <= m + Delay(faults, RollEvery) + RollEvery
        /\ rolled # -1 => rolled <= clock /\ rolled <= m + Delay(faults, RollEvery)
        /\ pass.stage = "hourly" =>
             /\ pass.at <= clock
             /\ jobs.five = "success" => l >= pass.at
        /\ g <= swept /\ swept <= clock /\ clock <= swept + SweepEvery
        /\ sweeper.tier = "raw" => swept <= g + Delay(faults, SweepEvery) + SweepEvery
        /\ sweeper.tier # "raw" => swept <= g + Delay(faults, SweepEvery)
        /\ sweeper.tier # "none" => /\ sweeper.raw = RawCutoff(swept)
                                    /\ sweeper.five = FiveCutoff(swept)
    <2>1. Delay(faults + 1, RollEvery) = Delay(faults, RollEvery) + RollEvery
      BY DelaysGrow
    <2>2. Delay(faults + 1, SweepEvery) = Delay(faults, SweepEvery) + SweepEvery
      BY DelaysGrow
    <2>3. m + (Delay(faults, RollEvery) + RollEvery) = m + Delay(faults, RollEvery) + RollEvery
      BY <1>1, <1>4
    <2>4. g + (Delay(faults, SweepEvery) + SweepEvery) = g + Delay(faults, SweepEvery) + SweepEvery
      BY <1>1, <1>4
    <2> QED  BY PaceWas, <2>1, <2>2, <2>3, <2>4
  <1>6. Paced(l, m, g)'
    <2>1. CASE /\ pass' = [stage |-> "hourly", at |-> clock] /\ rolled' = rolled
               /\ jobs'.five = "failure"
      <3>1. pass'.stage = "hourly" /\ pass'.at = clock
        BY <2>1
      <3> DEFINE d == Delay(faults, RollEvery)
                 e == Delay(faults, SweepEvery)
      <3>2. d \in Nat /\ e \in Nat /\ RollEvery \in Nat /\ SweepEvery \in Nat
        BY <1>4
      <3>3. clock' <= m + (d + RollEvery) /\ clock' <= m + (d + RollEvery + RollEvery)
        BY <1>1, <1>2, <1>5, <3>2
      <3>4. rolled' # -1 => rolled' <= clock' /\ rolled' <= m + (d + RollEvery)
        BY <1>1, <1>2, <1>5, <2>1, <3>2
      <3>5. /\ sweeper'.tier = "raw" => swept' <= g + (e + SweepEvery + SweepEvery)
            /\ sweeper'.tier # "raw" => swept' <= g + (e + SweepEvery)
        BY <1>1, <1>2, <1>5, <3>2
      <3>6. rolled' <= pass'.at /\ clock' <= pass'.at + RollEvery
        BY <1>1, <1>2, <1>5, <2>1, <3>1, <3>2
      <3> QED  BY <1>1, <1>2, <1>4, <1>5, <2>1, <3>1, <3>3, <3>4, <3>5, <3>6, PacedIs
    <2>2. CASE /\ pass.stage = "hourly" /\ pass' = NoPass /\ rolled' = pass.at
               /\ jobs'.five = jobs.five /\ jobs'.hour = "failure"
      <3>1. pass'.stage = "idle"
        BY <2>2 DEF NoPass
      <3> QED  BY <1>1, <1>2, <1>4, <1>5, <2>2, <3>1, PacedIs
    <2> QED  BY <2>1, <2>2
  <1>7. SamplesKept(g)' /\ FiveKept(l, g)'
    BY <1>2, TablesStay
  <1>8. HoursKept(m, g)'
    <2>1. rolled' # -1 => rolled' = rolled \/ (pass.stage = "hourly" /\ rolled' = pass.at)
      OBVIOUS
    <2>2. pass'.stage = "hourly" => pass' = pass \/ pass'.at = clock
      BY DEF NoPass
    <2> QED  BY <1>2, <2>1, <2>2, HoursStay
  <1> QED  BY <1>6, <1>7, <1>8 DEF TiersKept

(* The hourly rollup succeeds: no hour loses a sample.  An hour with a     *)
(* source row still has every row its samples came from.                   *)
LEMMA RollHourGrows ==
    ASSUME NEW l, NEW m, NEW g, TiersKept(l, m, g), NEW upto \in Int, NEW h \in Buckets(Hour)
    PROVE  /\ hour[h] \subseteq RollHour(upto)[h]
           /\ \A s \in RollHour(upto)[h] :
                Floor(s, Hour) = h /\ (s \in five[Floor(s, Five)] \/ Gone(h, g))
           /\ RollHour(upto)[h] # {} => hour[h] # {} \/ h <= upto
           /\ h <= upto /\ RollHour(upto)[h] # {} /\ ~ Gone(h, g) =>
                \A s \in SampleSlots : Floor(s, Hour) = h /\ s \in five[Floor(s, Five)] =>
                    s \in RollHour(upto)[h]
           /\ ~ Gone(h, g) \/ RollHour(upto)[h] = hour[h]
  <1> DEFINE source == UNION {five[b] : b \in {c \in Buckets(Five) : Floor(c, Hour) = h}}
  <1>1. RollHour(upto)[h] = IF h <= upto /\ source # {} THEN source ELSE hour[h]
    BY DEF RollHour
  <1>2. ASSUME NEW s \in source
        PROVE  s \in SampleSlots /\ Floor(s, Hour) = h /\ s \in five[Floor(s, Five)] /\ ~ Gone(h, g)
    <2>1. PICK b \in Buckets(Five) : Floor(b, Hour) = h /\ s \in five[b]
      OBVIOUS
    <2>2. s \in SampleSlots /\ Floor(s, Five) = b
      BY <2>1 DEF TiersKept, FiveKept, TiersTypeOK
    <2>3. Floor(s, Hour) = h
      BY <2>1, <2>2, SlotIs
    <2>4. b < h + Hour
      BY <2>1, BucketIs
    <2>5. ~ Gone(h, g)
      BY <2>1, <2>4 DEF Gone
    <2> QED  BY <2>1, <2>2, <2>3, <2>5
  <1>3. ASSUME NEW s \in hour[h]
        PROVE  s \in SampleSlots /\ Floor(s, Hour) = h /\ (s \in five[Floor(s, Five)] \/ Gone(h, g))
    BY DEF TiersKept, HoursKept, TiersTypeOK
  <1>4. ASSUME NEW s \in SampleSlots, Floor(s, Hour) = h, s \in five[Floor(s, Five)]
        PROVE  s \in source
    <2>1. Floor(s, Five) \in Buckets(Five) /\ Floor(Floor(s, Five), Hour) = h
      BY <1>4, SlotIs
    <2> QED  BY <1>4, <2>1
  <1> HIDE DEF source
  <1>5. CASE h <= upto /\ source # {}
    <2>1. RollHour(upto)[h] = source
      BY <1>1, <1>5
    <2>2. ~ Gone(h, g)
      BY <1>2, <1>5
    <2>3. hour[h] \subseteq source
      BY <1>3, <1>4, <2>2
    <2> QED  BY <1>2, <1>4, <1>5, <2>1, <2>2, <2>3
  <1>6. CASE ~ (h <= upto /\ source # {})
    <2>1. RollHour(upto)[h] = hour[h]
      BY <1>1, <1>6
    <2>2. ASSUME h <= upto, NEW s \in SampleSlots, Floor(s, Hour) = h, s \in five[Floor(s, Five)]
          PROVE  FALSE
      BY <1>4, <1>6, <2>2
    <2> QED  BY <1>3, <2>1, <2>2
  <1> QED  BY <1>5, <1>6

LEMMA RollHourlyKeeps ==
    ASSUME NEW l, NEW m, NEW g, TiersKept(l, m, g), TiersTypeOK', FewFailures,
           RollHourly, hour' = RollHour(Floor(HourlyCutoff(pass), Hour)),
           jobs'.five = jobs.five, UNCHANGED faults,
           NEW w, w = IF jobs.five = "success" THEN pass.at ELSE m
    PROVE  TiersKept(l, w, g)'
  <1> DEFINE upto == Floor(HourlyCutoff(pass), Hour)
  <1>1. /\ clock \in Nat /\ l \in Nat /\ m \in Nat /\ g \in Nat /\ m <= l /\ l <= clock
        /\ faults \in Nat /\ rolled \in Int /\ swept \in Nat /\ pass.at \in Nat
        /\ Five \in Nat /\ Hour \in Nat \ {0} /\ FiveKeep \in Nat /\ RawKeep \in Nat
    BY TierNumbers
  <1>2. /\ UNCHANGED <<clock, raw, five, sweeper, swept, prompt, faults>>
        /\ pass.stage = "hourly" /\ pass'.stage = "idle" /\ rolled' = pass.at
    BY DEF RollHourly, NoPass
  <1>3. HourlyWatermark \in Int /\ HourlyWatermark = Hour + Five /\ HourlyCutoff(pass) \in Int
        /\ HourlyCutoff(pass) = pass.at - HourlyWatermark
    BY <1>1 DEF HourlyWatermark, HourlyCutoff
  <1>4. upto \in Int /\ upto <= HourlyCutoff(pass)
    BY <1>1, <1>3, FloorIs
  <1>5. /\ rolled <= pass.at /\ pass.at <= clock /\ clock <= pass.at + RollEvery
        /\ clock <= m + Delay(faults + 1, RollEvery)
        /\ jobs.five = "failure" => pass.at <= m + Delay(faults, RollEvery)
        /\ jobs.five = "success" => l >= pass.at
        /\ jobs.five \in {"success", "failure"}
    BY <1>2, PaceWas
  <1>6. /\ Delay(faults, RollEvery) \in Nat /\ RollEvery \in Nat
        /\ Delay(faults + 1, RollEvery) = Delay(faults, RollEvery) + RollEvery
    BY DelaysGrow
  <1>7. w \in Nat /\ w <= l
    BY <1>1, <1>5
  <1>8. Paced(l, w, g)'
    <2>1. rolled' <= clock' /\ rolled' <= w + Delay(faults', RollEvery)
      BY <1>1, <1>2, <1>5, <1>6
    <2>2. clock' <= w + Delay(faults' + 1, RollEvery)
      BY <1>1, <1>2, <1>5, <1>6
    <2>3. jobs'.five = "success" => l >= rolled' /\ (jobs'.hour = "success" => w >= rolled')
      BY <1>1, <1>2, <1>5
    <2>4. /\ g <= swept' /\ swept' <= clock' /\ clock' <= swept' + SweepEvery
          /\ sweeper'.tier = "raw" => swept' <= g + Delay(faults' + 1, SweepEvery)
          /\ sweeper'.tier # "raw" => swept' <= g + Delay(faults', SweepEvery)
          /\ sweeper'.tier # "none" => /\ sweeper'.raw = RawCutoff(swept')
                                       /\ sweeper'.five = FiveCutoff(swept')
      BY <1>2, PaceWas
    <2>5. l <= clock'
      BY <1>1, <1>2
    <2>6. pass'.stage = "idle"
      BY <1>2
    <2> QED  BY <1>1, <1>7, <2>1, <2>2, <2>3, <2>4, <2>5, <2>6, PacedIs
  <1>9. SamplesKept(g)' /\ FiveKept(l, g)' /\ \A h \in Buckets(Hour) : Gone(h, g) => Gone(h, g)'
    <2>1. clock <= clock'
      BY <1>1, <1>2
    <2> QED  BY <1>2, <2>1, TablesStay
  <1>10. ASSUME NEW h \in Buckets(Hour)
         PROVE  /\ \A s \in hour'[h] :
                     Floor(s, Hour) = h /\ (s \in five'[Floor(s, Five)] \/ Gone(h, g)')
                /\ hour'[h] # {} =>
                     /\ h + HourlyWatermark <= clock'
                     /\ h + HourlyWatermark <= rolled'
                     /\ h + HourlyWatermark <= w =>
                          \A s \in prompt' : Floor(s, Hour) = h => s \in hour'[h]
    <2>1. h \in Int /\ Aligned(h, Hour)
      BY <1>1, BucketsAre
    <2>2. /\ hour[h] \subseteq hour'[h]
          /\ \A s \in hour'[h] :
               Floor(s, Hour) = h /\ (s \in five[Floor(s, Five)] \/ Gone(h, g))
          /\ hour'[h] # {} => hour[h] # {} \/ h <= upto
          /\ h <= upto /\ hour'[h] # {} /\ ~ Gone(h, g) =>
               \A s \in SampleSlots : Floor(s, Hour) = h /\ s \in five[Floor(s, Five)] => s \in hour'[h]
          /\ ~ Gone(h, g) \/ hour'[h] = hour[h]
      BY <1>4, RollHourGrows
    <2>3. hour[h] # {} =>
            /\ h + HourlyWatermark <= pass.at
            /\ h + HourlyWatermark <= m => \A s \in prompt : Floor(s, Hour) = h => s \in hour[h]
      BY <1>2 DEF TiersKept, HoursKept
    <2>4. h <= upto => h + HourlyWatermark <= pass.at
      BY <1>1, <1>3, <1>4, <2>1
    <2>5. hour'[h] # {} => h + HourlyWatermark <= pass.at
      BY <2>2, <2>3, <2>4
    <2>6. ASSUME hour'[h] # {}, h + HourlyWatermark <= w, NEW s \in prompt, Floor(s, Hour) = h
          PROVE  s \in hour'[h]
      <3>1. CASE Gone(h, g)
        <4>1. hour'[h] = hour[h] /\ hour[h] # {}
          BY <2>2, <2>6, <3>1
        <4>2. h + Hour + FiveKeep <= clock
          BY <3>1 DEF Gone
        <4>3. clock + Five <= m + RawKeep /\ RawKeep <= FiveKeep
          BY KeptPace
        <4>4. h + HourlyWatermark <= m
          BY <1>1, <1>3, <2>1, <4>2, <4>3
        <4> QED  BY <2>3, <2>6, <4>1, <4>4
      <3>2. CASE ~ Gone(h, g)
        <4>1. s \in SampleSlots
          BY DEF TiersKept, TiersTypeOK
        <4>2. Floor(s, Five) \in Int /\ Floor(s, Five) + Five <= h + Hour
          BY <2>6, <4>1, SlotIs
        <4>3. Floor(s, Five) + FiveMinWatermark <= l
          BY <1>1, <1>3, <1>7, <2>1, <2>6, <4>2 DEF FiveMinWatermark
        <4>4. s \in five[Floor(s, Five)]
          BY <2>6, <3>2, <4>3 DEF TiersKept, FiveKept
        <4>5. h <= HourlyCutoff(pass)
          BY <1>1, <1>3, <2>1, <2>5, <2>6
        <4>6. h <= upto
          BY <1>1, <1>3, <2>1, <4>5, FloorIsUnique
        <4> QED  BY <2>2, <2>6, <3>2, <4>1, <4>4, <4>6
      <3> QED  BY <3>1, <3>2
    <2>7. hour'[h] # {} => h + HourlyWatermark <= clock'
      BY <1>1, <1>2, <1>3, <1>5, <2>1, <2>5
    <2>8. prompt' = prompt /\ five' = five /\ rolled' = pass.at
      BY <1>2
    <2> HIDE DEF upto
    <2> QED  BY <1>9, <2>2, <2>5, <2>6, <2>7, <2>8
  <1>11. HoursKept(w, g)'
    BY <1>2, <1>10 DEF HoursKept, HourlyWatermark
  <1> QED  BY <1>8, <1>9, <1>11 DEF TiersKept

(* What a DELETE does, and that it takes all there is when that fits.      *)
LEMMA OneDelete ==
    ASSUME NEW l, NEW m, NEW g, TiersKept(l, m, g), SweepFits, DeleteChunk,
           sweeper.tier # "hour"
    PROVE  /\ sweeper' = [sweeper EXCEPT !.tier = NextTier[@]]
           /\ raw' = IF sweeper.tier = "raw" THEN {r \in raw : ~ (r < sweeper.raw)} ELSE raw
           /\ \A b \in Buckets(Five) :
                five'[b] = IF sweeper.tier = "five" /\ b < sweeper.five THEN {} ELSE five[b]
           /\ \A h \in Buckets(Hour) : hour'[h] = hour[h]
  <1>1. sweeper.tier \in {"raw", "five"} /\ raw \subseteq SampleSlots
    BY DEF DeleteChunk, TiersKept, TiersTypeOK
  <1>2. Buckets(Five) \subseteq SampleSlots
    BY BucketsAre, TiersAssumption
  <1>3. Expired \subseteq SampleSlots
    BY <1>1, <1>2 DEF Expired
  <1>4. IsFiniteSet(Expired)
    <2>1. LastSlot \in Nat
      BY TiersAssumption
    <2>2. IsFiniteSet(SampleSlots)
      BY <2>1, FS_Interval DEF SampleSlots
    <2> QED  BY <1>3, <2>2, FS_Subset
  <1>5. PICK rows \in SUBSET Expired :
          /\ Cardinality(rows) = Chunk \/ (rows = Expired /\ Cardinality(rows) < Chunk)
          /\ sweeper' = IF Cardinality(rows) < Chunk
                        THEN [sweeper EXCEPT !.tier = NextTier[@]] ELSE sweeper
          /\ raw' = IF sweeper.tier = "raw" THEN raw \ rows ELSE raw
          /\ five' = [b \in Buckets(Five) |->
                         IF sweeper.tier = "five" /\ b \in rows THEN {} ELSE five[b]]
          /\ hour' = [h \in Buckets(Hour) |->
                         IF sweeper.tier = "hour" /\ h \in rows THEN {} ELSE hour[h]]
    BY DEF DeleteChunk
  <1>6. rows = Expired /\ Cardinality(rows) < Chunk
    <2>1. Cardinality(rows) <= Cardinality(Expired) /\ IsFiniteSet(rows)
      BY <1>4, FS_Subset
    <2>2. Cardinality(rows) \in Nat /\ Cardinality(Expired) \in Nat /\ Chunk \in Nat
      BY <1>4, <2>1, FS_CardinalityType, TiersAssumption
    <2>3. Cardinality(Expired) < Chunk
      BY <1>1 DEF SweepFits
    <2>4. Cardinality(rows) # Chunk
      BY <2>1, <2>2, <2>3
    <2> QED  BY <1>5, <2>4
  <1>7. sweeper' = [sweeper EXCEPT !.tier = NextTier[@]]
    BY <1>5, <1>6
  <1>8. raw' = IF sweeper.tier = "raw" THEN {r \in raw : ~ (r < sweeper.raw)} ELSE raw
    <2>1. sweeper.tier = "raw" => Expired = {r \in raw : r < sweeper.raw}
      BY DEF Expired
    <2> QED  BY <1>5, <1>6, <2>1
  <1>9. ASSUME NEW b \in Buckets(Five)
        PROVE  five'[b] = IF sweeper.tier = "five" /\ b < sweeper.five THEN {} ELSE five[b]
    <2>1. sweeper.tier = "five" =>
            Expired = {d \in Buckets(Five) : five[d] # {} /\ d < sweeper.five}
      BY DEF Expired
    <2>2. five'[b] = IF sweeper.tier = "five" /\ b \in rows THEN {} ELSE five[b]
      BY <1>5
    <2> QED  BY <1>6, <2>1, <2>2
  <1>10. \A h \in Buckets(Hour) : hour'[h] = hour[h]
    BY <1>1, <1>5
  <1> QED  BY <1>7, <1>8, <1>9, <1>10

(* Nothing is made from the hours: they may go in any number of DELETEs.   *)
LEMMA HourDelete ==
    ASSUME DeleteChunk, sweeper.tier = "hour"
    PROVE  /\ \/ sweeper' = sweeper
              \/ sweeper' = [sweeper EXCEPT !.tier = NextTier[@]]
           /\ raw' = raw
           /\ \A b \in Buckets(Five) : five'[b] = five[b]
           /\ \A h \in Buckets(Hour) : hour'[h] = {} \/ hour'[h] = hour[h]
  BY DEF DeleteChunk

(* The next tier of a pass, with the cutoffs it began with.                *)
LEMMA NextTierIs ==
    ASSUME NEW l, NEW m, NEW g, TiersKept(l, m, g), sweeper.tier # "none",
           sweeper' = [sweeper EXCEPT !.tier = NextTier[@]]
    PROVE  /\ sweeper'.tier # "raw"
           /\ sweeper'.raw = RawCutoff(swept) /\ sweeper'.five = FiveCutoff(swept)
  <1>1. /\ sweeper \in [tier : {"none", "raw", "five", "hour"}, raw : Int, five : Int, hour : Int]
        /\ sweeper.raw = RawCutoff(swept) /\ sweeper.five = FiveCutoff(swept)
    BY DEF TiersKept, TiersTypeOK, Paced
  <1>2. sweeper'.tier = NextTier[sweeper.tier] /\ sweeper'.raw = sweeper.raw
        /\ sweeper'.five = sweeper.five
    BY <1>1
  <1>3. NextTier[sweeper.tier] # "raw"
    BY <1>1 DEF NextTier
  <1> QED  BY <1>1, <1>2, <1>3

LEMMA DeleteRawKeeps ==
    ASSUME NEW l, NEW m, NEW g, TiersKept(l, m, g), TiersTypeOK', SweepFits,
           DeleteChunk, sweeper.tier = "raw", NEW k, k = swept
    PROVE  TiersKept(l, m, k)'
  <1>1. /\ clock \in Nat /\ l \in Nat /\ m \in Nat /\ g \in Nat /\ m <= l /\ l <= clock
        /\ swept \in Nat /\ g <= swept /\ k \in Nat /\ g <= k
    BY TierNumbers
  <1>2. /\ UNCHANGED <<clock, pass, jobs, swept, rolled, faults, prompt>>
    BY DEF DeleteChunk
  <1>3. sweeper.raw = RawCutoff(k) /\ RawCutoff(k) \in Int
    <2>1. RawCutoff(k) \in Int
      BY <1>1, CutoffsAre
    <2> QED  BY <2>1, PaceWas
  <1>4. RawCutoff(g) \in Int /\ RawCutoff(g) <= RawCutoff(k)
    BY KeptCutoffs
  <1>5. /\ sweeper' = [sweeper EXCEPT !.tier = NextTier[@]]
        /\ raw' = {r \in raw : ~ (r < RawCutoff(k))}
        /\ \A b \in Buckets(Five) : five'[b] = five[b]
        /\ \A h \in Buckets(Hour) : hour'[h] = hour[h]
    BY <1>3, OneDelete, Zenon
  <1>6. \A s \in SampleSlots : s \in Int
    BY SlotIs
  <1>7. raw \subseteq SampleSlots /\ prompt \subseteq SampleSlots
    BY DEF TiersKept, TiersTypeOK
  <1>8. RawCutoff(k)' = RawCutoff(k)
    BY DEF RawCutoff, Floor
  <1>9. ASSUME NEW h \in Buckets(Hour), Gone(h, g) PROVE Gone(h, k)'
    <2>1. h \in Int
      BY BucketsAre, TiersAssumption
    <2>2. \A b \in Buckets(Five) : b < h + Hour => five'[b] = {}
      BY <1>5, <1>9 DEF Gone
    <2>3. clock \in Int /\ clock' \in Int /\ clock <= clock' /\ g \in Int /\ k \in Int /\ g <= k
      BY <1>1, <1>2
    <2> QED  BY <1>9, <2>1, <2>2, <2>3, GoneStays
  <1>10. Paced(l, m, k)'
    <2>1. /\ sweeper'.tier # "raw" /\ sweeper'.raw = RawCutoff(swept)
          /\ sweeper'.five = FiveCutoff(swept)
      BY <1>5, NextTierIs
    <2>2. Delay(faults, SweepEvery) \in Nat
      BY DelaysGrow
    <2>3. swept' <= k + Delay(faults', SweepEvery)
      BY <1>1, <1>2, <2>2
    <2>4. /\ clock' <= m + Delay(faults' + 1, RollEvery) /\ l <= clock'
          /\ rolled' # -1 => rolled' <= clock' /\ rolled' <= m + Delay(faults', RollEvery)
          /\ pass'.stage = "hourly" =>
               /\ rolled' <= pass'.at /\ pass'.at <= clock' /\ clock' <= pass'.at + RollEvery
               /\ jobs'.five = "failure" => pass'.at <= m + Delay(faults', RollEvery)
               /\ jobs'.five = "success" => l >= pass'.at
          /\ pass'.stage = "idle" /\ rolled' # -1 /\ jobs'.five = "success" =>
               l >= rolled' /\ (jobs'.hour = "success" => m >= rolled')
          /\ k <= swept' /\ swept' <= clock' /\ clock' <= swept' + SweepEvery
      BY <1>1, <1>2, PaceWas
    <2>5. swept' = swept
      BY <1>2
    <2> QED  BY <1>1, <2>1, <2>3, <2>4, <2>5, PacedIs
  <1>11. SamplesKept(k)'
    <2>1. \A r \in raw' : r >= RawCutoff(k)
      BY <1>3, <1>5, <1>6, <1>7
    <2>2. \A s \in prompt : s <= clock /\ (s >= RawCutoff(k) => s \in raw')
      <3> SUFFICES ASSUME NEW s \in prompt
                   PROVE  s <= clock /\ (s >= RawCutoff(k) => s \in raw')
        OBVIOUS
      <3>1. s \in Int /\ s <= clock /\ (s >= RawCutoff(g) => s \in raw)
        BY <1>6, <1>7 DEF TiersKept, SamplesKept
      <3> QED  BY <1>3, <1>4, <1>5, <3>1
    <2> QED  BY <1>2, <1>8, <2>1, <2>2 DEF SamplesKept
  <1>12. FiveKept(l, k)'
    <2>1. ASSUME NEW b \in Buckets(Five), NEW s \in five[b]
          PROVE  Floor(s, Five) = b /\ (s >= RawCutoff(k) => s \in raw')
      <3>1. s \in SampleSlots /\ Floor(s, Five) = b /\ (s >= RawCutoff(g) => s \in raw)
        BY DEF TiersKept, FiveKept, TiersTypeOK
      <3> QED  BY <1>3, <1>4, <1>5, <1>6, <3>1
    <2>2. ASSUME NEW s \in prompt, Floor(s, Five) + FiveMinWatermark <= l
          PROVE  s \in five'[Floor(s, Five)] \/ Gone(Floor(s, Hour), k)'
      <3>1. Floor(s, Five) \in Buckets(Five) /\ Floor(s, Hour) \in Buckets(Hour)
        BY <1>7, SlotIs
      <3> QED  BY <1>5, <1>9, <2>2, <3>1 DEF TiersKept, FiveKept
    <2> QED  BY <1>2, <1>5, <1>8, <2>1, <2>2 DEF FiveKept, FiveMinWatermark
  <1>13. HoursKept(m, k)'
    <2>1. ASSUME NEW h \in Buckets(Hour), NEW s \in hour[h]
          PROVE  Floor(s, Hour) = h /\ (s \in five'[Floor(s, Five)] \/ Gone(h, k)')
      <3>1. s \in SampleSlots
        BY DEF TiersKept, TiersTypeOK
      <3>2. Floor(s, Five) \in Buckets(Five)
        BY <3>1, SlotIs
      <3> QED  BY <1>5, <1>9, <3>2 DEF TiersKept, HoursKept
    <2> QED  BY <1>2, <1>5, <2>1 DEF TiersKept, HoursKept, HourlyWatermark
  <1> QED  BY <1>10, <1>11, <1>12, <1>13 DEF TiersKept

(* The pace, when a step moves the sweep on to a tier after the samples.   *)
LEMMA SweepPaced ==
    ASSUME NEW l, NEW m, NEW g, TiersKept(l, m, g), sweeper.tier # "none",
           UNCHANGED <<clock, pass, jobs, swept, rolled>>,
           sweeper' = [sweeper EXCEPT !.tier = NextTier[@]],
           \/ faults' = faults /\ sweeper.tier # "raw"
           \/ faults' = faults + 1
    PROVE  Paced(l, m, g)'
  <1>1. /\ clock \in Nat /\ l \in Nat /\ m \in Nat /\ g \in Nat /\ m <= l /\ l <= clock
        /\ faults \in Nat /\ swept \in Nat /\ rolled \in Int /\ pass.at \in Nat
    BY TierNumbers
  <1>2. clock' = clock /\ pass' = pass /\ jobs' = jobs /\ swept' = swept /\ rolled' = rolled
    OBVIOUS
  <1>3. sweeper'.tier # "raw" /\ sweeper'.raw = RawCutoff(swept) /\ sweeper'.five = FiveCutoff(swept)
    BY NextTierIs
  <1>4. faults' = faults + 1 => faults' + 1 = faults + 2
    BY <1>1
  <1> DEFINE d == Delay(faults, RollEvery)
             e == Delay(faults, SweepEvery)
  <1>5. /\ d \in Nat /\ e \in Nat /\ RollEvery \in Nat /\ SweepEvery \in Nat
        /\ Delay(faults + 1, RollEvery) = d + RollEvery
        /\ Delay(faults + 1, SweepEvery) = e + SweepEvery
        /\ Delay(faults + 2, RollEvery) = d + RollEvery + RollEvery
    BY DelaysGrow
  <1>6. /\ clock <= m + (d + RollEvery)
        /\ rolled # -1 => rolled <= clock /\ rolled <= m + d
        /\ pass.stage = "hourly" /\ jobs.five = "failure" => pass.at <= m + d
        /\ sweeper.tier = "raw" => swept <= g + (e + SweepEvery)
        /\ sweeper.tier # "raw" => swept <= g + e
    BY <1>5, PaceWas
  <1>7. /\ pass.stage = "hourly" =>
             /\ rolled <= pass.at /\ pass.at <= clock /\ clock <= pass.at + RollEvery
             /\ jobs.five = "success" => l >= pass.at
        /\ pass.stage = "idle" /\ rolled # -1 /\ jobs.five = "success" =>
             l >= rolled /\ (jobs.hour = "success" => m >= rolled)
        /\ g <= swept /\ swept <= clock /\ clock <= swept + SweepEvery
    BY PaceWas
  <1>8. /\ Delay(faults', RollEvery) \in Nat /\ d <= Delay(faults', RollEvery)
        /\ d + RollEvery <= Delay(faults' + 1, RollEvery)
        /\ Delay(faults' + 1, RollEvery) \in Nat
        /\ Delay(faults', SweepEvery) \in Nat
        /\ sweeper.tier # "raw" => e <= Delay(faults', SweepEvery)
        /\ sweeper.tier = "raw" => Delay(faults', SweepEvery) = e + SweepEvery
    <2>1. CASE faults' = faults /\ sweeper.tier # "raw"
      BY <1>5, <2>1
    <2>2. CASE faults' = faults + 1
      BY <1>4, <1>5, <2>2
    <2> QED  BY <2>1, <2>2
  <1> HIDE DEF d, e
  <1>9. /\ clock' <= m + Delay(faults' + 1, RollEvery)
        /\ rolled' # -1 => rolled' <= clock' /\ rolled' <= m + Delay(faults', RollEvery)
        /\ pass'.stage = "hourly" /\ jobs'.five = "failure" =>
             pass'.at <= m + Delay(faults', RollEvery)
        /\ swept' <= g + Delay(faults', SweepEvery)
    BY <1>1, <1>2, <1>5, <1>6, <1>8
  <1> QED  BY <1>1, <1>2, <1>3, <1>7, <1>9, PacedIs

LEMMA DeleteFiveKeeps ==
    ASSUME NEW l, NEW m, NEW g, TiersKept(l, m, g), TiersTypeOK', SweepFits, FewFailures,
           DeleteChunk, sweeper.tier = "five"
    PROVE  TiersKept(l, m, g)'
  <1> DEFINE cut == FiveCutoff(swept)
  <1>1. /\ clock \in Nat /\ g \in Nat /\ swept \in Nat /\ swept <= clock
        /\ Five \in Nat /\ Hour \in Nat \ {0} /\ RawKeep \in Nat /\ FiveKeep \in Nat
    BY TierNumbers
  <1>2. UNCHANGED <<clock, pass, jobs, swept, rolled, faults, prompt>>
    BY DEF DeleteChunk
  <1>3. cut \in Int /\ Aligned(cut, Hour) /\ cut <= swept - FiveKeep
    <2>1. swept \in Int
      BY <1>1
    <2> QED  BY <2>1, CutoffsAre
  <1>4. /\ sweeper' = [sweeper EXCEPT !.tier = NextTier[@]] /\ raw' = raw
        /\ \A b \in Buckets(Five) : five'[b] = IF b < cut THEN {} ELSE five[b]
        /\ \A h \in Buckets(Hour) : hour'[h] = hour[h]
    <2>1. sweeper.five = cut
      BY PaceWas
    <2>2. /\ sweeper' = [sweeper EXCEPT !.tier = NextTier[@]]
          /\ raw' = IF sweeper.tier = "raw" THEN {r \in raw : ~ (r < sweeper.raw)} ELSE raw
          /\ \A b \in Buckets(Five) :
               five'[b] = IF sweeper.tier = "five" /\ b < sweeper.five THEN {} ELSE five[b]
          /\ \A h \in Buckets(Hour) :
               hour'[h] = hour[h]
      BY OneDelete
    <2> HIDE DEF cut
    <2> QED  BY <2>1, <2>2
  <1>5. cut <= RawCutoff(g) /\ RawCutoff(g) \in Int
    <2>1. swept + Five + RawKeep <= g + FiveKeep
      BY KeptPace
    <2>2. RawCutoff(g) \in Int /\ g - RawKeep < RawCutoff(g) + Five
      BY KeptCutoffs
    <2> HIDE DEF cut
    <2> QED  BY <1>1, <1>3, <2>1, <2>2
  <1> HIDE DEF cut
  <1>6. RawCutoff(g)' = RawCutoff(g)
    BY DEF RawCutoff, Floor
  <1>7. ASSUME NEW h \in Buckets(Hour), Gone(h, g) \/ h < cut PROVE Gone(h, g)'
    <2>1. h \in Int /\ Aligned(h, Hour)
      BY <1>1, BucketsAre
    <2>2. h < cut => h + Hour <= cut
      BY <1>1, <1>3, <2>1, BoundariesApart
    <2>3. ASSUME NEW b \in Buckets(Five), b < h + Hour PROVE five'[b] = {}
      <3>1. b \in Int
        BY BucketIs
      <3>2. CASE Gone(h, g)
        BY <1>4, <2>3, <3>2 DEF Gone
      <3>3. CASE h < cut
        <4>1. b < cut
          BY <1>1, <1>3, <2>1, <2>2, <2>3, <3>1, <3>3
        <4> QED  BY <1>4, <4>1
      <3> QED  BY <1>7, <3>2, <3>3
    <2>4. h + Hour <= RawCutoff(g) /\ h + Hour + FiveKeep <= clock
      <3>1. CASE Gone(h, g)
        BY <3>1 DEF Gone
      <3>2. CASE h < cut
        BY <1>1, <1>3, <1>5, <2>1, <2>2, <3>2
      <3> QED  BY <1>7, <3>1, <3>2
    <2> QED  BY <1>2, <1>6, <2>3, <2>4 DEF Gone
  <1>8. ASSUME NEW s \in SampleSlots, s \in five[Floor(s, Five)] \/ Gone(Floor(s, Hour), g)
        PROVE  s \in five'[Floor(s, Five)] \/ Gone(Floor(s, Hour), g)'
    <2>1. /\ Floor(s, Five) \in Buckets(Five) /\ Floor(s, Hour) \in Buckets(Hour)
          /\ Floor(s, Five) \in Int /\ Floor(s, Hour) \in Int /\ Floor(s, Hour) <= Floor(s, Five)
      BY SlotIs
    <2>2. Floor(s, Five) < cut => Floor(s, Hour) < cut
      BY <1>3, <2>1
    <2> QED  BY <1>4, <1>7, <1>8, <2>1, <2>2
  <1>9. Paced(l, m, g)'
    BY <1>2, <1>4, SweepPaced
  <1>10. SamplesKept(g)'
    BY <1>2, <1>4, <1>6 DEF TiersKept, SamplesKept
  <1>11. FiveKept(l, g)'
    <2>1. ASSUME NEW b \in Buckets(Five), NEW s \in five'[b]
          PROVE  Floor(s, Five) = b /\ (s >= RawCutoff(g) => s \in raw)
      BY <1>4 DEF TiersKept, FiveKept
    <2>2. prompt \subseteq SampleSlots
      BY DEF TiersKept, TiersTypeOK
    <2>3. ASSUME NEW s \in prompt, Floor(s, Five) + FiveMinWatermark <= l
          PROVE  s \in five'[Floor(s, Five)] \/ Gone(Floor(s, Hour), g)'
      BY <1>8, <2>2, <2>3 DEF TiersKept, FiveKept
    <2> QED  BY <1>2, <1>4, <1>6, <2>1, <2>3 DEF FiveKept, FiveMinWatermark
  <1>12. HoursKept(m, g)'
    <2>1. ASSUME NEW h \in Buckets(Hour), NEW s \in hour[h]
          PROVE  Floor(s, Hour) = h /\ (s \in five'[Floor(s, Five)] \/ Gone(h, g)')
      <3>1. s \in SampleSlots
        BY DEF TiersKept, TiersTypeOK
      <3> QED  BY <1>8, <3>1 DEF TiersKept, HoursKept
    <2> QED  BY <1>2, <1>4, <2>1 DEF TiersKept, HoursKept, HourlyWatermark
  <1> QED  BY <1>9, <1>10, <1>11, <1>12 DEF TiersKept

LEMMA DeleteHourKeeps ==
    ASSUME NEW l, NEW m, NEW g, TiersKept(l, m, g), TiersTypeOK',
           DeleteChunk, sweeper.tier = "hour"
    PROVE  TiersKept(l, m, g)'
  <1>1. UNCHANGED <<clock, pass, jobs, swept, rolled, faults, prompt>>
    BY DEF DeleteChunk
  <1>2. /\ raw' = raw
        /\ \A b \in Buckets(Five) : five'[b] = five[b]
        /\ \A h \in Buckets(Hour) : hour'[h] = {} \/ hour'[h] = hour[h]
    BY HourDelete
  <1>3. five' = five
    BY <1>2 DEF TiersKept, TiersTypeOK
  <1>4. clock <= clock'
    BY <1>1, TierNumbers
  <1>5. SamplesKept(g)' /\ FiveKept(l, g)' /\ \A h \in Buckets(Hour) : Gone(h, g) => Gone(h, g)'
    BY <1>1, <1>2, <1>3, <1>4, TablesStay
  <1>6. Paced(l, m, g)'
    <2>1. CASE sweeper' = [sweeper EXCEPT !.tier = NextTier[@]]
      BY <1>1, <2>1, SweepPaced
    <2>2. CASE sweeper' = sweeper
      BY <1>1, <2>2 DEF TiersKept, Paced
    <2> QED  BY <2>1, <2>2, HourDelete
  <1>7. HoursKept(m, g)'
    BY <1>1, <1>2, <1>3, <1>5 DEF TiersKept, HoursKept, HourlyWatermark
  <1> QED  BY <1>5, <1>6, <1>7 DEF TiersKept

(* The steps that leave every table alone.                                 *)
LEMMA DeleteFailsKeeps ==
    ASSUME NEW l, NEW m, NEW g, TiersKept(l, m, g), TiersTypeOK', DeleteFails
    PROVE  TiersKept(l, m, g)'
  <1>1. /\ sweeper.tier # "none" /\ faults' = faults + 1
        /\ sweeper' = [sweeper EXCEPT !.tier = NextTier[@]]
        /\ UNCHANGED <<clock, raw, five, hour, pass, jobs, swept, rolled, prompt>>
    BY DEF DeleteFails, Fail, tiers
  <1>2. clock <= clock'
    BY <1>1, TierNumbers
  <1>3. Paced(l, m, g)'
    BY <1>1, SweepPaced
  <1>4. SamplesKept(g)' /\ FiveKept(l, g)' /\ HoursKept(m, g)'
    BY <1>1, <1>2, TablesStay, HoursStay
  <1> QED  BY <1>3, <1>4 DEF TiersKept

LEMMA StartRetentionKeeps ==
    ASSUME NEW l, NEW m, NEW g, TiersKept(l, m, g), TiersTypeOK', StartRetention
    PROVE  TiersKept(l, m, g)'
  <1>1. /\ sweeper.tier = "none" /\ swept' = clock
        /\ sweeper'.tier = "raw" /\ sweeper'.raw = RawCutoff(clock)
        /\ sweeper'.five = FiveCutoff(clock)
        /\ UNCHANGED <<clock, raw, five, hour, pass, jobs, rolled, faults, prompt>>
    BY DEF StartRetention, tiers
  <1>2. /\ clock \in Nat /\ l \in Nat /\ m \in Nat /\ g \in Nat /\ m <= l /\ l <= clock
        /\ swept \in Nat /\ g <= swept /\ swept <= clock /\ clock <= clock'
    BY <1>1, TierNumbers
  <1>3. /\ Delay(faults, SweepEvery) \in Nat /\ SweepEvery \in Nat
        /\ Delay(faults + 1, SweepEvery) = Delay(faults, SweepEvery) + SweepEvery
    BY DelaysGrow
  <1>4. clock <= swept + SweepEvery /\ swept <= g + Delay(faults, SweepEvery)
    BY <1>1, PaceWas
  <1>5. /\ swept' <= g + Delay(faults' + 1, SweepEvery) /\ g <= swept' /\ swept' <= clock'
        /\ clock' <= swept' + SweepEvery /\ l <= clock' /\ sweeper'.tier = "raw"
        /\ sweeper'.raw = RawCutoff(swept') /\ sweeper'.five = FiveCutoff(swept')
    BY <1>1, <1>2, <1>3, <1>4
  <1>6. /\ clock' <= m + Delay(faults' + 1, RollEvery)
        /\ rolled' # -1 => rolled' <= clock' /\ rolled' <= m + Delay(faults', RollEvery)
        /\ pass'.stage = "hourly" =>
             /\ rolled' <= pass'.at /\ pass'.at <= clock' /\ clock' <= pass'.at + RollEvery
             /\ jobs'.five = "failure" => pass'.at <= m + Delay(faults', RollEvery)
             /\ jobs'.five = "success" => l >= pass'.at
        /\ pass'.stage = "idle" /\ rolled' # -1 /\ jobs'.five = "success" =>
             l >= rolled' /\ (jobs'.hour = "success" => m >= rolled')
    BY <1>1, PaceWas
  <1>7. Paced(l, m, g)'
    BY <1>2, <1>5, <1>6, PacedIs
  <1>8. SamplesKept(g)' /\ FiveKept(l, g)' /\ HoursKept(m, g)'
    BY <1>1, <1>2, TablesStay, HoursStay
  <1> QED  BY <1>7, <1>8 DEF TiersKept

LEMMA RestartWorkersKeeps ==
    ASSUME NEW l, NEW m, NEW g, TiersKept(l, m, g), TiersTypeOK', RestartWorkers
    PROVE  TiersKept(l, m, g)'
  <1>1. /\ faults' = faults + 1 /\ pass'.stage = "idle" /\ rolled' = -1
        /\ sweeper'.tier = "none"
        /\ UNCHANGED <<clock, raw, five, hour, jobs, swept, prompt>>
    BY DEF RestartWorkers, Fail, NoPass, NoSweep, tiers
  <1>2. /\ clock \in Nat /\ l \in Nat /\ m \in Nat /\ g \in Nat /\ m <= l /\ l <= clock
        /\ swept \in Nat /\ clock <= clock' /\ faults \in Nat
    BY <1>1, TierNumbers
  <1>3. faults' + 1 = faults + 2
    BY <1>1, <1>2
  <1>4. /\ Delay(faults, SweepEvery) \in Nat /\ SweepEvery \in Nat
        /\ Delay(faults, RollEvery) \in Nat /\ RollEvery \in Nat
        /\ Delay(faults', SweepEvery) = Delay(faults, SweepEvery) + SweepEvery
        /\ Delay(faults + 1, SweepEvery) = Delay(faults, SweepEvery) + SweepEvery
        /\ Delay(faults + 1, RollEvery) = Delay(faults, RollEvery) + RollEvery
        /\ Delay(faults' + 1, RollEvery) = Delay(faults, RollEvery) + RollEvery + RollEvery
    BY <1>1, <1>3, DelaysGrow
  <1>5. /\ clock <= m + Delay(faults + 1, RollEvery)
        /\ g <= swept /\ swept <= clock /\ clock <= swept + SweepEvery
        /\ sweeper.tier = "raw" => swept <= g + Delay(faults + 1, SweepEvery)
        /\ sweeper.tier # "raw" => swept <= g + Delay(faults, SweepEvery)
    BY PaceWas
  <1>6. /\ clock' <= m + Delay(faults' + 1, RollEvery)
        /\ swept' <= g + Delay(faults', SweepEvery)
        /\ g <= swept' /\ swept' <= clock' /\ clock' <= swept' + SweepEvery /\ l <= clock'
    BY <1>1, <1>2, <1>4, <1>5
  <1>7. Paced(l, m, g)'
    BY <1>1, <1>2, <1>6, PacedIs
  <1>8. SamplesKept(g)' /\ FiveKept(l, g)' /\ HoursKept(m, g)'
    BY <1>1, <1>2, TablesStay, HoursStay
  <1> QED  BY <1>7, <1>8 DEF TiersKept

LEMMA TierTickKeeps ==
    ASSUME NEW l, NEW m, NEW g, TiersKept(l, m, g), TiersTypeOK', TierTick
    PROVE  TiersKept(l, m, g)'
  <1>1. /\ clock' = clock + 1 /\ clock - swept < SweepEvery
        /\ clock - (IF rolled = -1 THEN 0 ELSE rolled) < RollEvery
        /\ UNCHANGED <<raw, five, hour, pass, sweeper, jobs, swept, rolled, faults, prompt>>
    BY DEF TierTick, tiers
  <1>2. /\ clock \in Nat /\ l \in Nat /\ m \in Nat /\ g \in Nat /\ m <= l /\ l <= clock
        /\ swept \in Nat /\ rolled \in Int /\ rolled >= -1 /\ pass.at \in Nat
    BY TierNumbers
  <1>3. /\ Delay(faults, RollEvery) \in Nat /\ RollEvery \in Nat /\ SweepEvery \in Nat
        /\ Delay(faults + 1, RollEvery) = Delay(faults, RollEvery) + RollEvery
    BY DelaysGrow
  <1>4. /\ rolled # -1 => rolled <= clock /\ rolled <= m + Delay(faults, RollEvery)
        /\ pass.stage = "hourly" => rolled <= pass.at /\ pass.at <= clock
    BY PaceWas
  <1>5. /\ clock' <= m + Delay(faults' + 1, RollEvery)
        /\ rolled' # -1 => rolled' <= clock' /\ rolled' <= m + Delay(faults', RollEvery)
        /\ pass'.stage = "hourly" => pass'.at <= clock' /\ clock' <= pass'.at + RollEvery
        /\ l <= clock' /\ swept' <= clock' /\ clock' <= swept' + SweepEvery
    <2>1. CASE rolled = -1
      <3> DEFINE d == Delay(faults, RollEvery)
      <3>1. clock + 1 <= RollEvery /\ clock' = clock + 1 /\ rolled' = -1
        BY <1>1, <1>2, <1>3, <2>1
      <3>2. faults' = faults /\ pass' = pass /\ swept' = swept
        BY <1>1
      <3>3. d \in Nat /\ Delay(faults' + 1, RollEvery) = d + RollEvery
        BY <1>3, <3>2
      <3> HIDE DEF d
      <3>4. clock' <= m + (d + RollEvery)
        BY <1>2, <1>3, <3>1, <3>3
      <3>5. pass'.stage = "hourly" => pass'.at <= clock' /\ clock' <= pass'.at + RollEvery
        BY <1>2, <1>3, <1>4, <3>1, <3>2
      <3>6. l <= clock' /\ swept' <= clock' /\ clock' <= swept' + SweepEvery
        <4>1. swept <= clock /\ clock - swept < SweepEvery
          BY <1>1, PaceWas
        <4> QED  BY <1>2, <1>3, <3>1, <3>2, <4>1
      <3> QED  BY <3>1, <3>3, <3>4, <3>5, <3>6
    <2>2. CASE rolled # -1
      BY <1>1, <1>2, <1>3, <1>4, <2>2, PaceWas
    <2> QED  BY <2>1, <2>2
  <1>6. /\ pass'.stage = "hourly" =>
             /\ rolled' <= pass'.at
             /\ jobs'.five = "failure" => pass'.at <= m + Delay(faults', RollEvery)
             /\ jobs'.five = "success" => l >= pass'.at
        /\ pass'.stage = "idle" /\ rolled' # -1 /\ jobs'.five = "success" =>
             l >= rolled' /\ (jobs'.hour = "success" => m >= rolled')
        /\ g <= swept'
        /\ sweeper'.tier = "raw" => swept' <= g + Delay(faults' + 1, SweepEvery)
        /\ sweeper'.tier # "raw" => swept' <= g + Delay(faults', SweepEvery)
        /\ sweeper'.tier # "none" => /\ sweeper'.raw = RawCutoff(swept')
                                     /\ sweeper'.five = FiveCutoff(swept')
    BY <1>1, PaceWas
  <1>7. Paced(l, m, g)'
    BY <1>2, <1>5, <1>6, PacedIs
  <1>8. SamplesKept(g)' /\ FiveKept(l, g)' /\ HoursKept(m, g)'
    <2>1. clock <= clock'
      BY <1>1, <1>2
    <2> QED  BY <1>1, <2>1, TablesStay, HoursStay
  <1> QED  BY <1>7, <1>8 DEF TiersKept

-----------------------------------------------------------------------------
(* A rollup of a tick, done or failed.                                     *)
LEMMA RollsKeep ==
    ASSUME NEW l, NEW m, NEW g, TiersKept(l, m, g), TiersTypeOK', FewFailures,
           Roll5Min \/ RollHourly
    PROVE  \E u, w : TiersKept(u, w, g)'
  <1>1. jobs \in [five : {"success", "failure"}, hour : {"success", "failure"}]
    BY DEF TiersKept, TiersTypeOK
  <1>2. CASE Roll5Min
    <2>1. CASE /\ five' = RollFive(Floor(clock - FiveMinWatermark, Five))
               /\ jobs' = [jobs EXCEPT !.five = "success"] /\ UNCHANGED faults
      <3>1. jobs'.five = "success" /\ UNCHANGED faults
        BY <1>1, <2>1
      <3>2. PICK u : u = clock
        OBVIOUS
      <3>3. TiersKept(u, m, g)'
        BY <1>2, <2>1, <3>1, <3>2, Roll5MinKeeps
      <3> QED  BY <3>3
    <2>2. CASE Fail /\ jobs' = [jobs EXCEPT !.five = "failure"] /\ UNCHANGED five
      <3>1. /\ UNCHANGED <<clock, raw, five, hour, sweeper, swept, prompt>>
            /\ faults' = faults + 1
            /\ pass' = [stage |-> "hourly", at |-> clock] /\ rolled' = rolled
        BY <1>2, <2>2 DEF Roll5Min, Fail
      <3>2. jobs'.five = "failure"
        BY <1>1, <2>2
      <3>3. TiersKept(l, m, g)'
        BY <3>1, <3>2, FailedRollKeeps
      <3> QED  BY <3>3
    <2> QED  BY <1>2, <2>1, <2>2 DEF Roll5Min
  <1>3. CASE RollHourly
    <2>1. CASE /\ hour' = RollHour(Floor(HourlyCutoff(pass), Hour))
               /\ jobs' = [jobs EXCEPT !.hour = "success"] /\ UNCHANGED faults
      <3>1. jobs'.five = jobs.five /\ UNCHANGED faults
        BY <1>1, <2>1
      <3>2. PICK w : w = IF jobs.five = "success" THEN pass.at ELSE m
        OBVIOUS
      <3>3. TiersKept(l, w, g)'
        BY <1>3, <2>1, <3>1, <3>2, RollHourlyKeeps
      <3> QED  BY <3>3
    <2>2. CASE Fail /\ jobs' = [jobs EXCEPT !.hour = "failure"] /\ UNCHANGED hour
      <3>1. /\ UNCHANGED <<clock, raw, five, hour, sweeper, swept, prompt>>
            /\ faults' = faults + 1
            /\ pass.stage = "hourly" /\ pass' = NoPass /\ rolled' = pass.at
        BY <1>3, <2>2 DEF RollHourly, Fail
      <3>2. jobs'.five = jobs.five /\ jobs'.hour = "failure"
        BY <1>1, <2>2
      <3>3. TiersKept(l, m, g)'
        BY <3>1, <3>2, FailedRollKeeps
      <3> QED  BY <3>3
    <2> QED  BY <1>3, <2>1, <2>2 DEF RollHourly
  <1> QED  BY <1>2, <1>3

(* A DELETE of whichever tier the sweep is at.                             *)
LEMMA DeletesKeep ==
    ASSUME NEW l, NEW m, NEW g, TiersKept(l, m, g), TiersTypeOK', SweepFits, FewFailures,
           DeleteChunk
    PROVE  \E k : TiersKept(l, m, k)'
  <1>1. sweeper.tier \in {"raw", "five", "hour"}
    BY DEF DeleteChunk, TiersKept, TiersTypeOK
  <1>2. CASE sweeper.tier = "raw"
    <2>1. PICK k : k = swept
      OBVIOUS
    <2>2. TiersKept(l, m, k)'
      BY <1>2, <2>1, DeleteRawKeeps
    <2> QED  BY <2>2
  <1>3. CASE sweeper.tier = "five"
    BY <1>3, DeleteFiveKeeps
  <1>4. CASE sweeper.tier = "hour"
    BY <1>4, DeleteHourKeeps
  <1> QED  BY <1>1, <1>2, <1>3, <1>4

(* Some times make it true: when each worker last did its work.            *)
TiersInv == \E l, m, g : TiersKept(l, m, g)

LEMMA TiersBegin == TiersInit => TiersInv
  <1> SUFFICES ASSUME TiersInit PROVE TiersKept(0, 0, 0)
    BY DEF TiersInv
  <1>1. TiersTypeOK
    <2>1. MaxNow \in Nat /\ MaxFaults \in Nat
      BY TiersAssumption
    <2> QED  BY <2>1 DEF TiersInit, TiersTypeOK, NoPass, NoSweep
  <1>2. Paced(0, 0, 0)
    <2>1. /\ clock = 0 /\ rolled = -1 /\ pass.stage = "idle" /\ sweeper.tier = "none"
          /\ swept = 0 /\ faults = 0
      BY DEF TiersInit, NoPass, NoSweep
    <2>2. /\ Delay(0, RollEvery) \in Nat /\ Delay(0, SweepEvery) \in Nat
          /\ Delay(0 + 1, RollEvery) = Delay(0, RollEvery) + RollEvery
          /\ RollEvery \in Nat /\ SweepEvery \in Nat
      BY DelayGrows, TiersAssumption
    <2> QED  BY <2>1, <2>2 DEF Paced
  <1>3. raw = {} /\ prompt = {} /\ (\A b \in Buckets(Five) : five[b] = {})
          /\ \A h \in Buckets(Hour) : hour[h] = {}
    BY DEF TiersInit
  <1>4. SamplesKept(0) /\ FiveKept(0, 0) /\ HoursKept(0, 0)
    BY <1>3 DEF SamplesKept, FiveKept, HoursKept
  <1> QED  BY <1>1, <1>2, <1>4 DEF TiersKept

LEMMA TiersStep ==
    ASSUME SweepFits, FewFailures, TiersInv, TiersTypeOK', [TiersNext]_tierVars
    PROVE  TiersInv'
  <1>1. PICK l, m, g : TiersKept(l, m, g)
    BY DEF TiersInv
  <1> SUFFICES \E u, w, k : TiersKept(u, w, k)'
    BY DEF TiersInv
  <1>2. ASSUME NEW s \in SampleSlots, StoreSample(s) PROVE TiersKept(l, m, g)'
    BY <1>1, <1>2, StoreKeeps
  <1>3. CASE Roll5Min \/ RollHourly
    BY <1>1, <1>3, RollsKeep
  <1>4. CASE DeleteChunk
    BY <1>1, <1>4, DeletesKeep
  <1>5. CASE StartRetention
    BY <1>1, <1>5, StartRetentionKeeps
  <1>6. CASE DeleteFails
    BY <1>1, <1>6, DeleteFailsKeeps
  <1>7. CASE RestartWorkers
    BY <1>1, <1>7, RestartWorkersKeeps
  <1>8. CASE TierTick
    BY <1>1, <1>8, TierTickKeeps
  <1>9. CASE UNCHANGED tierVars
    <2>1. TiersKept(l, m, g)'
      BY <1>1, <1>9 DEF tierVars, tiers, TiersKept, TiersTypeOK, Paced, SamplesKept, FiveKept,
                        HoursKept, Gone, RawCutoff, FiveCutoff, Floor, HourlyWatermark,
                        FiveMinWatermark, Delay, SampleSlots, Buckets
    <2> QED  BY <2>1
  <1> QED  BY <1>2, <1>3, <1>4, <1>5, <1>6, <1>7, <1>8, <1>9 DEF TiersNext

LEMMA TiersAlways ==
    ASSUME FewFailures
    PROVE  TiersSpec /\ []SweepFits => [](TiersInv /\ TiersTypeOK)
  <1>1. SweepFits /\ TiersInv /\ TiersTypeOK' /\ [TiersNext]_tierVars => TiersInv'
    BY TiersStep
  <1> QED  BY <1>1, TiersBegin, TiersType, PTL DEF TiersSpec

(* A chart answered from the samples or from the five-minute rows has      *)
(* every timely sample the rollup was due to deliver: one row old enough   *)
(* is proof of cover (handlers_metrics.go, resolveMetricsTier), as each    *)
(* tier is deleted from its oldest row up to a bucket of the next one.     *)
THEOREM TiersCover ==
    ASSUME FewFailures
    PROVE  TiersSpec /\ []SweepFits => []AutoTierCovers
  <1>1. ASSUME TiersInv PROVE AutoTierCovers
    <2>1. PICK l, m, g : TiersKept(l, m, g)
      BY <1>1 DEF TiersInv
    <2> SUFFICES ASSUME pass.stage = "idle", rolled # -1, jobs.five = "success",
                        NEW from \in SampleSlots, NEW to \in from + 1 .. LastSlot + 1,
                        NEW s \in prompt, from <= s, s < to, Floor(s, Five) >= from,
                        Floor(s, Five) + FiveMinWatermark <= rolled
                 PROVE  /\ AutoTier(from, to) = "raw" => s \in raw
                        /\ AutoTier(from, to) = "five" => s \in five[Floor(s, Five)]
      BY DEF AutoTierCovers
    <2>2. s \in SampleSlots /\ raw \subseteq SampleSlots
      BY <2>1 DEF TiersKept, TiersTypeOK
    <2>3. /\ s \in Int /\ from \in Int /\ Floor(s, Five) \in Int
          /\ Floor(s, Hour) \in Int
          /\ Floor(s, Five) + Five <= Floor(s, Hour) + Hour
      BY <2>2, SlotIs
    <2>4. l \in Nat /\ rolled \in Int /\ Five \in Nat /\ Five > 0 /\ Hour \in Nat
          /\ FiveMinWatermark \in Int
      BY <2>1, TierNumbers DEF FiveMinWatermark
    <2>5. Floor(s, Five) + FiveMinWatermark <= l
      <3>1. l >= rolled
        BY <2>1, PaceWas
      <3> QED  BY <2>3, <2>4, <3>1
    <2>6. ASSUME AutoTier(from, to) = "raw" PROVE s \in raw
      <3>1. PICK r \in raw : r <= from
        BY <2>6 DEF AutoTier, Covers
      <3>2. r \in Int /\ r >= RawCutoff(g) /\ RawCutoff(g) \in Int
        BY <2>1, <2>2, SlotIs, KeptCutoffs DEF TiersKept, SamplesKept
      <3>3. s >= RawCutoff(g)
        BY <2>3, <3>1, <3>2
      <3> QED  BY <2>1, <3>3 DEF TiersKept, SamplesKept
    <2>7. ASSUME AutoTier(from, to) = "five" PROVE s \in five[Floor(s, Five)]
      <3>1. PICK b \in Buckets(Five) : five[b] # {} /\ b <= from
        BY <2>7 DEF AutoTier, Covers
      <3>2. b \in Int
        BY BucketIs
      <3>3. b < Floor(s, Hour) + Hour
        BY <2>3, <2>4, <3>1, <3>2
      <3>4. ~ Gone(Floor(s, Hour), g)
        BY <3>1, <3>3 DEF Gone
      <3> QED  BY <2>1, <2>5, <3>4 DEF TiersKept, FiveKept
    <2> QED  BY <2>6, <2>7
  <1> QED  BY <1>1, TiersAlways, PTL

(* What the rollups promise (aggregator.go, retention.go): once a tick has *)
(* ended with both of them recorded as successful a published hour holds   *)
(* every sample stored in time, and no rollup replaces an aggregate by one *)
(* of fewer samples.                                                       *)
THEOREM RollupsHold ==
    ASSUME FewFailures
    PROVE  TiersSpec /\ []SweepFits => RollupsAreWhole
  <1>1. ASSUME TiersInv PROVE HoursAreWhole
    <2>1. PICK l, m, g : TiersKept(l, m, g)
      BY <1>1 DEF TiersInv
    <2> SUFFICES ASSUME pass.stage = "idle", rolled # -1, jobs.five = "success",
                        jobs.hour = "success",
                        NEW h \in Buckets(Hour), hour[h] # {},
                        NEW s \in prompt, Floor(s, Hour) = h
                 PROVE  s \in hour[h]
      BY DEF HoursAreWhole
    <2>2. m >= rolled /\ m \in Int /\ rolled \in Int /\ HourlyWatermark \in Int /\ h \in Int
      BY <2>1, PaceWas, TierNumbers, BucketsAre, TiersAssumption DEF HourlyWatermark
    <2>3. h + HourlyWatermark <= rolled
      BY <2>1 DEF TiersKept, HoursKept
    <2>4. h + HourlyWatermark <= m
      BY <2>2, <2>3
    <2> QED  BY <2>1, <2>4 DEF TiersKept, HoursKept
  <1>2. ASSUME SweepFits, TiersInv, TiersTypeOK', [TiersNext]_tierVars
        PROVE  [/\ \A b \in Buckets(Five) : five'[b] = {} \/ five[b] \subseteq five'[b]
                /\ \A h \in Buckets(Hour) : hour'[h] = {} \/ hour[h] \subseteq hour'[h]]_tierVars
    <2>1. PICK l, m, g : TiersKept(l, m, g)
      BY <1>2 DEF TiersInv
    <2> SUFFICES ASSUME ~ UNCHANGED tierVars
                 PROVE  /\ \A b \in Buckets(Five) : five'[b] = {} \/ five[b] \subseteq five'[b]
                        /\ \A h \in Buckets(Hour) : hour'[h] = {} \/ hour[h] \subseteq hour'[h]
      OBVIOUS
    <2>2. \A b \in Buckets(Five) : five'[b] = {} \/ five[b] \subseteq five'[b]
      <3>1. CASE five' = RollFive(Floor(clock - FiveMinWatermark, Five))
        <4>1. Floor(clock - FiveMinWatermark, Five) \in Int
          <5>1. clock - FiveMinWatermark \in Int /\ Five \in Nat \ {0}
            BY <2>1, TierNumbers DEF FiveMinWatermark
          <5> QED  BY <5>1, FloorIs
        <4> QED  BY <2>1, <3>1, <4>1, RollFiveGrows
      <3>2. CASE five' = five
        BY <3>2
      <3>3. CASE DeleteChunk
        <4>1. CASE sweeper.tier = "hour"
          BY <3>3, <4>1, HourDelete
        <4>2. CASE sweeper.tier # "hour"
          BY <1>2, <2>1, <3>3, <4>2, OneDelete
        <4> QED  BY <4>1, <4>2
      <3> QED  BY <1>2, <3>1, <3>2, <3>3
               DEF TiersNext, tierVars, StoreSample, Roll5Min, RollHourly, StartRetention,
                   DeleteFails, RestartWorkers, TierTick, tiers
    <2>3. \A h \in Buckets(Hour) : hour'[h] = {} \/ hour[h] \subseteq hour'[h]
      <3>1. CASE hour' = RollHour(Floor(HourlyCutoff(pass), Hour))
        <4>1. Floor(HourlyCutoff(pass), Hour) \in Int
          <5>1. HourlyCutoff(pass) \in Int /\ Hour \in Nat \ {0}
            BY <2>1, TierNumbers DEF HourlyCutoff, HourlyWatermark
          <5> QED  BY <5>1, FloorIs
        <4> QED  BY <2>1, <3>1, <4>1, RollHourGrows
      <3>2. CASE hour' = hour
        BY <3>2
      <3>3. CASE DeleteChunk
        <4>1. CASE sweeper.tier = "hour"
          BY <3>3, <4>1, HourDelete
        <4>2. CASE sweeper.tier # "hour"
          BY <1>2, <2>1, <3>3, <4>2, OneDelete
        <4> QED  BY <4>1, <4>2
      <3> QED  BY <1>2, <3>1, <3>2, <3>3
               DEF TiersNext, tierVars, StoreSample, Roll5Min, RollHourly, StartRetention,
                   DeleteFails, RestartWorkers, TierTick, tiers
    <2> QED  BY <2>2, <2>3
  <1>3. TiersSpec /\ []SweepFits => AggregatesOnlyGrow
    BY <1>2, TiersAlways, PTL DEF TiersSpec, AggregatesOnlyGrow
  <1> QED  BY <1>1, <1>3, TiersAlways, PTL DEF RollupsAreWhole

==============================================================================
