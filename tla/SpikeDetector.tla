--------------------------- MODULE SpikeDetector ----------------------------
(***************************************************************************)
(* The event-spike detector of one host: a subscription and a detector for *)
(* each event channel, scored every ten seconds, and one baseline file     *)
(* that keeps what the detectors have learned and when their warm-up began *)
(* over restarts.  Scoring, persistence, retries, reloads and the reset an *)
(* operator asks for over the pipe are goroutines of their own, and each   *)
(* has what it has read, or is about to write, in hand while the others go *)
(* on.  Any write may fail and is only logged.  What a detector has learned *)
(* is represented by its number of observations and by the reset they were *)
(* made after.                                                             *)
(*                                                                         *)
(* internal/evtspike/subsystem.go, detector.go, baseline.go, channels.go,  *)
(* status.go and subscriber_windows.go.                                    *)
(***************************************************************************)
EXTENDS Integers, FiniteSets

CONSTANTS
    Channels,   \* event channels
    Cooldown,   \* CooldownMinutes, in scoring buckets
    MaxTries,   \* subRetryMaxTries
    MaxLearned, \* bound: observations are counted up to this
    MaxBucket,  \* bound: the clock, in scoring buckets
    MaxActs     \* bound: reloads, resets, crashes, losses and failures

ASSUME SpikeAssumption ==
    /\ Channels # {}
    /\ Cooldown \in Nat /\ MaxTries \in Nat \ {0, 1}
    /\ MaxLearned \in Nat /\ MaxBucket \in Nat /\ MaxActs \in Nat

VARIABLES
    bucket,    \* the clock
    acts,      \* how many bounded actions have happened
    enabled,   \* cfg.Enabled
    wanted,    \* ResolveChannels(cfg)
    phase,     \* "off": no process; "idle": disabled; "starting": the file is
               \* read; "live": three loops run; "restarting": between the two
    detectors, \* channel -> its detector
    subs,      \* channel -> its subscription
    warmup,    \* warmupStartedAt; -1 is zero
    disk,      \* baseline.json
    hand,      \* what the service has in hand: to "read" is LoadBaseline's
               \* result, to "write" a snapshot, to "stop" the last one
    reset,     \* ResetBaseline has "wiped" the memory, or also "removed" the
               \* file, and has this snapshot to write
    begun,     \* history: the resets that have begun
    resets,    \* history: the last of them that has completed
    floor,     \* history: channel -> observations a write has made durable
    started,   \* history: the warm-up start a write has made durable
    alerted,   \* history: channel -> its last alert
    harm       \* history: "stale", "wiped": how the file came to be wrong

spikeVars == <<bucket, acts, enabled, wanted, phase, detectors, subs, warmup,
               disk, hand, reset, begun, resets, floor, started, alerted, harm>>
memory == <<detectors, subs, warmup>>
durable == <<disk, floor, started, harm>>
config == <<enabled, wanted>>

Never == -Cooldown  \* LastAlert is zero: longer ago than any cooldown
NoDetector == [n |-> -1, era |-> 0, last |-> Never, flags |-> 0]
Fresh(era) == [n |-> 0, era |-> era, last |-> Never, flags |-> 0]
NoSub == [state |-> "none", attempts |-> 0]
NoFile == [warmup |-> -1, kept |-> [c \in Channels |-> NoDetector]]
Free == [use |-> "none", file |-> NoFile]
NoReset == [at |-> "none", file |-> NoFile]
Have == {c \in Channels : detectors[c] # NoDetector}

Detector == [n : -1..MaxLearned, era : 0..MaxActs, last : Never..MaxBucket,
             flags : 0..7]
File == [warmup : -1..MaxBucket, kept : [Channels -> Detector]]

SpikeTypeOK ==
    /\ bucket \in 0..MaxBucket /\ acts \in 0..MaxActs
    /\ enabled \in BOOLEAN /\ wanted \subseteq Channels
    /\ phase \in {"off", "idle", "starting", "live", "restarting"}
    /\ detectors \in [Channels -> Detector]
    /\ subs \in [Channels -> [state : {"none", "subscribed", "retrying", "failed"},
                              attempts : 0..MaxTries]]
    /\ warmup \in -1..MaxBucket /\ disk \in File
    /\ hand \in [use : {"none", "read", "write", "stop"}, file : File]
    /\ reset \in [at : {"none", "wiped", "removed"}, file : File]
    /\ begun \in 0..acts /\ resets \in 0..begun /\ floor \in [Channels -> 0..MaxLearned]
    /\ started \in 0..MaxBucket /\ alerted \in [Channels -> Never..MaxBucket]
    /\ harm \subseteq {"stale", "wiped"}

SpikeInit ==
    /\ bucket = 0 /\ acts = 0 /\ enabled = TRUE /\ wanted = Channels
    /\ phase = "off"
    /\ detectors = [c \in Channels |-> NoDetector]
    /\ subs = [c \in Channels |-> NoSub]
    /\ warmup = -1 /\ disk = NoFile /\ hand = Free /\ reset = NoReset
    /\ begun = 0 /\ resets = 0 /\ floor = [c \in Channels |-> 0]
    /\ started = MaxBucket /\ alerted = [c \in Channels |-> Never]
    /\ harm = {}

Act == acts < MaxActs /\ acts' = acts + 1

(***************************** The baseline file ***************************)

\* writeBaseline's snapshot: RecentFlags are not part of it.
Snapshot(dets, began) ==
    [warmup |-> began, kept |-> [c \in Channels |-> [dets[c] EXCEPT !.flags = 0]]]

Old(kept, era) == \E c \in Channels : kept[c] # NoDetector /\ kept[c].era < era
Outdated(file) == Old(file.kept, resets)

\* A file is a promise if it is of the detectors that run.
Promises(file) ==
    reset.at = "none" /\ \A c \in Have : file.kept[c].era >= detectors[c].era

\* The file is replaced as a whole. What is durable by then must never be lost,
\* but for a channel that the configuration drops.
Replace(file) ==
    /\ disk' = file
    /\ floor' = [c \in Channels |->
                    IF c \notin wanted THEN 0
                    ELSE IF Promises(file) /\ file.kept[c].n > floor[c]
                    THEN file.kept[c].n ELSE floor[c]]
    /\ started' = IF file.warmup # -1 /\ file.warmup < started /\ Promises(file)
                  THEN file.warmup ELSE started

\* The alerts of which the file has the time.
Remembered == [c \in Channels |-> IF c \in wanted THEN disk.kept[c].last ELSE Never]

\* Mutant: a detector is not given the time of its last alert.
Hydrated_NoLastAlert(file, c, era) ==
    IF file.kept[c] = NoDetector THEN Fresh(era)
    ELSE [file.kept[c] EXCEPT !.last = Never]

\* buildDetector
Hydrated(file, c, era) ==
    IF file.kept[c] = NoDetector THEN Fresh(era) ELSE file.kept[c]

\* initializeWarmup. A file without the time, one of version 1 or an emptied one,
\* is dated by what else is in it, which is left out.
WarmupBegan(file) ==
    IF file.warmup # -1 /\ file.warmup <= bucket THEN file.warmup ELSE bucket

(************************* Starting and stopping ***************************)

\* LoadBaseline, as the service starts, enables the detector or restarts it
\* with other channels; a channel that is dropped is forgotten. A file that
\* cannot be read or parsed is taken for an empty one.
LoadBaseline ==
    /\ hand.use = "none" /\ phase' = "starting"
    /\ \/ phase = "off" /\ reset.at = "none" /\ enabled /\ UNCHANGED config
       \/ phase = "idle" /\ enabled' = TRUE /\ UNCHANGED wanted
       \/ /\ phase = "restarting" /\ UNCHANGED enabled
          /\ wanted' \in (SUBSET Channels) \ {{}, wanted}
    /\ \/ hand' = [use |-> "read", file |-> disk] /\ UNCHANGED <<acts, harm>>
       \/ /\ hand' = [use |-> "read", file |-> NoFile] /\ Act
          /\ harm' = harm \union {"wiped"}
    /\ floor' = [c \in Channels |-> IF c \in wanted' THEN floor[c] ELSE 0]
    /\ alerted' = [c \in Channels |-> IF c \in wanted' THEN alerted[c] ELSE Never]
    /\ UNCHANGED <<bucket, memory, reset, begun, resets, disk, started>>

\* initChannels and initializeWarmup. A channel that cannot be subscribed keeps
\* its detector. The loops begin, and what was read is to be written at once.
SeedChannels ==
    /\ hand.use = "read" /\ phase' = "live"
    /\ \E lost \in {{}} \union {{c} : c \in wanted} :
          /\ IF lost = {} THEN UNCHANGED acts ELSE Act
          /\ subs' = [c \in Channels |->
                IF c \notin wanted THEN NoSub
                ELSE IF c \in lost THEN [state |-> "retrying", attempts |-> 1]
                ELSE [state |-> "subscribed", attempts |-> 0]]
    /\ detectors' = [c \in Channels |->
                        IF c \in wanted THEN Hydrated(hand.file, c, begun) ELSE NoDetector]
    /\ warmup' = WarmupBegan(hand.file)
    /\ hand' = [use |-> "write", file |-> Snapshot(detectors', warmup')]
    /\ UNCHANGED <<bucket, config, reset, begun, resets, alerted, durable>>

\* Start: a disabled detector does nothing but remember its context.
StartDisabled ==
    /\ phase = "off" /\ hand.use = "none" /\ reset.at = "none" /\ ~enabled
    /\ phase' = "idle"
    /\ UNCHANGED <<bucket, acts, config, memory, hand, reset, begun, resets, alerted,
                   durable>>

\* quiesce: the loops end, and with them a periodic write; then the last
\* snapshot is taken, written, and the memory cleared. Stop does so also when
\* the detector is disabled, with nothing in memory.
Quiesce ==
    /\ hand.use = "none"
    /\ hand' = [use |-> "stop", file |-> Snapshot(detectors, warmup)]
    /\ UNCHANGED <<bucket, memory, reset, begun, resets, alerted, disk, floor, started>>

StopDetector ==
    /\ phase \in {"live", "idle"} /\ phase' = "off" /\ Quiesce
    /\ harm' = IF phase = "idle" THEN harm \union {"wiped"} ELSE harm
    /\ UNCHANGED <<acts, config>>

\* Reload: the detector is switched off, or the channel list changes and
\* restartWithConfig stops it first.
ReloadDisables ==
    /\ phase = "live" /\ phase' = "idle" /\ Quiesce /\ Act
    /\ enabled' = FALSE /\ UNCHANGED <<wanted, harm>>

ReloadChannels ==
    /\ phase = "live" /\ phase' = "restarting" /\ Quiesce /\ Act
    /\ UNCHANGED <<config, harm>>

ClearedDetectors ==
    /\ detectors' = [c \in Channels |-> NoDetector]
    /\ subs' = [c \in Channels |-> NoSub] /\ warmup' = -1

\* The last write succeeds, or fails, which forgets the alerts since the last
\* one that did not.
FinishStop ==
    /\ hand.use = "stop" /\ hand' = Free /\ ClearedDetectors
    /\ \/ Replace(hand.file) /\ UNCHANGED alerted
       \/ alerted' = Remembered /\ UNCHANGED <<disk, floor, started>>
    /\ UNCHANGED <<bucket, acts, config, phase, reset, begun, resets, harm>>

\* The process ends, and with it whatever was in hand; the service does not
\* wait for a pipe handler.
CrashDetector ==
    /\ phase # "off" \/ hand.use # "none" \/ reset.at # "none"
    /\ phase' = "off" /\ Act
    /\ ClearedDetectors /\ hand' = Free /\ reset' = NoReset
    /\ alerted' = Remembered
    /\ UNCHANGED <<bucket, config, begun, resets, durable>>

(******************************** Scoring **********************************)

PushFlag(flags, anomalous) == (2 * flags + (IF anomalous THEN 1 ELSE 0)) % 8
Confirmed(flags) == flags \in {3, 5, 6, 7}   \* two of the last three

\* ObserveBucket. Whether a count is anomalous is left to the environment.
Observe(d, now, anomalous) ==
    LET flags == PushFlag(d.flags, anomalous)
        alert == Confirmed(flags) /\ now - d.last >= Cooldown
    IN  [n |-> IF d.n < MaxLearned THEN d.n + 1 ELSE d.n, era |-> d.era,
         last |-> IF alert THEN now ELSE d.last, flags |-> flags]

Scored(c) == detectors[c] # NoDetector /\ subs[c].state = "subscribed"

\* scoreOnce: only a subscribed channel learns.
ScoreOnce ==
    /\ bucket < MaxBucket /\ bucket' = bucket + 1
    /\ \E strange \in SUBSET {c \in Channels : Scored(c)} :
          detectors' = [c \in Channels |->
              IF phase = "live" /\ Scored(c)
              THEN Observe(detectors[c], bucket', c \in strange) ELSE detectors[c]]
    /\ alerted' = [c \in Channels |->
                      IF detectors'[c].last # detectors[c].last THEN bucket'
                      ELSE alerted[c]]
    /\ UNCHANGED <<acts, config, phase, subs, warmup, hand, reset, begun, resets, durable>>

(****************************** Subscriptions ******************************)

\* onSubscriptionLoss
LoseSubscription(c) ==
    /\ phase = "live" /\ subs[c].state \in {"subscribed", "retrying"} /\ Act
    /\ subs' = [subs EXCEPT ![c] = [state |-> "retrying", attempts |-> 0]]
    /\ UNCHANGED <<bucket, config, phase, detectors, warmup, hand, reset,
                   begun, resets, alerted, durable>>

\* retryOnce for one channel: a failure may be its last.
RetrySubscription(c) ==
    /\ phase = "live" /\ subs[c].state = "retrying"
    /\ \/ subs' = [subs EXCEPT ![c] = [state |-> "subscribed", attempts |-> 0]]
       \/ LET tries == subs[c].attempts + 1
          IN  subs' = [subs EXCEPT ![c] =
                  [state |-> IF tries >= MaxTries THEN "failed" ELSE "retrying",
                   attempts |-> tries]]
    /\ UNCHANGED <<bucket, acts, config, phase, detectors, warmup, hand, reset,
                   begun, resets, alerted, durable>>

(************************** Persistence and reset **************************)

\* persistenceLoop: the snapshot is taken under the lock, and the file is
\* written after it.
TakeSnapshot ==
    /\ phase = "live" /\ hand.use = "none"
    /\ hand' = [use |-> "write", file |-> Snapshot(detectors, warmup)]
    /\ UNCHANGED <<bucket, acts, config, phase, memory, reset, begun, resets, alerted, durable>>

\* The write succeeds, also over the file of a reset that came in between, or
\* fails, which is logged and leaves the file as it was.
FinishWrite ==
    /\ hand.use = "write" /\ hand' = Free
    /\ \/ /\ Replace(hand.file)
          /\ harm' = IF Outdated(hand.file) THEN harm ELSE harm \ {"stale"}
       \/ UNCHANGED durable
    /\ UNCHANGED <<bucket, acts, config, phase, memory, reset, begun, resets, alerted>>

\* ResetBaseline, under the lock: new detectors, which are also free of any
\* cooldown, and a new warm-up.
ResetMemory ==
    /\ phase # "off" \/ hand.use = "stop"
    /\ reset.at = "none" /\ reset' = [at |-> "wiped", file |-> NoFile] /\ Act
    /\ begun' = begun + 1
    /\ detectors' = [c \in Channels |->
                        IF c \in Have THEN Fresh(begun') ELSE NoDetector]
    /\ warmup' = bucket
    /\ alerted' = [c \in Channels |-> Never]
    /\ floor' = [c \in Channels |-> 0] /\ started' = MaxBucket
    /\ UNCHANGED <<bucket, config, phase, subs, hand, resets, disk, harm>>

\* Neither memory nor anything in hand has an alert that is not in the file: a
\* reset writes what is in memory by then, of a detector that has been stopped
\* meanwhile nothing.
Forgets(file) == /\ phase \in {"off", "idle", "restarting"} /\ hand.use = "none"
                 /\ \E c \in Channels : alerted[c] > file.kept[c].last

\* The file is removed and a new one prepared, or the reset ends in an error.
RemoveFile ==
    /\ reset.at = "wiped"
    /\ \/ /\ reset' = [at |-> "removed", file |-> Snapshot(detectors, warmup)]
          /\ disk' = NoFile
          /\ harm' = IF Forgets(NoFile) THEN harm \union {"wiped"} ELSE harm
       \/ reset' = NoReset /\ UNCHANGED <<disk, harm>>
    /\ UNCHANGED <<bucket, acts, config, phase, memory, hand, begun, resets, alerted,
                   floor, started>>

\* Something is left of before the reset: in memory or in the file, which were
\* restored from what a start had read, or in hand.
SomethingLeft(file) ==
    Old(detectors, begun) \/ Old(file.kept, begun) \/ Old(hand.file.kept, begun)

\* The new file is written, or the failure is logged; the reset has succeeded.
FinishReset ==
    /\ reset.at = "removed" /\ reset' = NoReset
    /\ resets' = begun
    /\ disk' \in {disk, reset.file}
    /\ harm' = (harm \ {"stale"})
                  \union (IF SomethingLeft(disk') THEN {"stale"} ELSE {})
                  \union (IF Forgets(disk') THEN {"wiped"} ELSE {})
    /\ UNCHANGED <<bucket, acts, config, phase, memory, hand, begun, alerted, floor,
                   started>>

SpikeNext ==
    \/ LoadBaseline \/ SeedChannels \/ StartDisabled
    \/ StopDetector \/ ReloadDisables \/ ReloadChannels \/ FinishStop
    \/ CrashDetector \/ ScoreOnce
    \/ \E c \in Channels : LoseSubscription(c) \/ RetrySubscription(c)
    \/ TakeSnapshot \/ FinishWrite
    \/ ResetMemory \/ RemoveFile \/ FinishReset

SpikeSpec == SpikeInit /\ [][SpikeNext]_spikeVars

-----------------------------------------------------------------------------
(* Restarts, reloads, crashes and failed writes never take back what a       *)
(* baseline write has saved: a channel that runs knows at least what it had  *)
(* been saved with, and the warm-up began no later.  It fails once the file  *)
(* has been overwritten with nothing: by a service that is stopped while the *)
(* detector is disabled, or that could not read it (LoadBaseline, quiesce).  *)
LearnedSurvives ==
    phase = "live" /\ reset.at = "none" /\ "wiped" \notin harm =>
        /\ \A c \in wanted : detectors[c].n >= floor[c]
        /\ warmup <= started

\* ResetBaseline: once it has returned, nothing that was learned before comes
\* back, whatever crashes, restarts and failed writes follow, unless by then a
\* start had read the old file, or a write taken the old snapshot.
ResetIsDurable ==
    phase = "live" /\ reset.at = "none" /\ "stale" \notin harm =>
        \A c \in Have : detectors[c].era >= resets

\* ObserveBucket: two alerts of a channel are a cooldown apart, also when the
\* service restarts or the channel list changes in between, unless the file
\* does not have the first: its last write failed, the process died before it
\* or the file has been overwritten with nothing.
AlertsAreSpaced ==
    [][\A c \in Channels :
          (bucket' # bucket /\ alerted'[c] # alerted[c] /\ "wiped" \notin harm)
              => alerted'[c] - alerted[c] >= Cooldown]_spikeVars

\* What a detector carries over a restart: what it learned, that it was reset,
\* and that it has just alerted (baseline.go, subsystem.go).
RestartsCarryOver == []LearnedSurvives /\ []ResetIsDurable /\ AlertsAreSpaced
=============================================================================
