----------------------------- MODULE LiveEvents -----------------------------
(***************************************************************************)
(* The event stream of the dashboard: the broker, the goroutines that      *)
(* broadcast, and the handler of each browser's stream.  A broadcast       *)
(* copies the set of subscribers under the lock and sends outside it, a    *)
(* full buffer evicts its subscriber, and two sources suppress repeats:    *)
(* spikes by their row in event_spikes, detector states by the last one    *)
(* published.                                                              *)
(*                                                                         *)
(* internal/dashboard/broker.go, sse.go, spike_ingest.go, evtspike.go and  *)
(* internal/telemetry/event_spikes.go.                                     *)
(***************************************************************************)
EXTENDS Naturals, Sequences, FiniteSets

CONSTANTS
    Streams,        \* subscriptions; a browser that comes back has another
    Publishers,     \* goroutines that broadcast
    Spikes,         \* identities (host, channel, window) of confirmed spikes
    States,         \* detector states of one host
    Capacity,       \* the buffer of a subscriber: 16
    MaxSubscribers, \* maxSubscribers
    MaxChanges      \* bound: published changes of the detector state

ASSUME EventsAssumption ==
    Capacity \in Nat \ {0} /\ MaxSubscribers \in Nat /\ MaxChanges \in Nat

VARIABLES
    subscribers,  \* Broker.subscribers
    stream,       \* stream -> "new", "open" or "closed": its handler
    done,         \* subscribers that were told to stop
    buffer,       \* subscriber -> its channel
    heard,        \* stream -> what its browser got
    publisher,    \* publisher -> the broadcast it is at
    rows,         \* event_spikes
    published,    \* Broker.detectorState, and how often it changed
    owed          \* history: stream -> events sent while it was subscribed

broker == <<subscribers, done, buffer>>
eventVars == <<broker, stream, heard, publisher, rows, published, owed>>

\* A detector state is sent as the number of its change, to tell two apart.
Events == {<<"spike", x>> : x \in Spikes} \union
          {<<"state", n>> : n \in 1..MaxChanges}
NoEvent == <<"none", 0>>
Broadcasts == [stage : {"idle", "snapshot", "sending"},
               event : Events \union {NoEvent},
               to : SUBSET Streams, evict : SUBSET Streams]
NoBroadcast == [stage |-> "idle", event |-> NoEvent, to |-> {}, evict |-> {}]

EventsTypeOK ==
    /\ subscribers \subseteq Streams /\ done \subseteq Streams
    /\ Cardinality(subscribers) <= MaxSubscribers
    /\ stream \in [Streams -> {"new", "open", "closed"}]
    /\ \A s \in Streams :
          buffer[s] \in Seq(Events) /\ Len(buffer[s]) <= Capacity
    /\ \A s \in Streams : heard[s] \in Seq(Events)
    /\ publisher \in [Publishers -> Broadcasts]
    /\ rows \subseteq Spikes
    /\ published \in [state : States \union {"unseen"}, change : 0..MaxChanges]
    /\ owed \in [Streams -> SUBSET Events]

EventsInit ==
    /\ subscribers = {} /\ done = {}
    /\ stream = [s \in Streams |-> "new"]
    /\ buffer = [s \in Streams |-> <<>>]
    /\ heard = [s \in Streams |-> <<>>]
    /\ publisher = [p \in Publishers |-> NoBroadcast]
    /\ rows = {}
    /\ published = [state |-> "unseen", change |-> 0]
    /\ owed = [s \in Streams |-> {}]

(********************************* Streams *********************************)

\* Broker.Subscribe, at the start of handleSSE; refused at the limit.
Subscribe(s) ==
    /\ stream[s] = "new"
    /\ Cardinality(subscribers) < MaxSubscribers
    /\ subscribers' = subscribers \union {s}
    /\ stream' = [stream EXCEPT ![s] = "open"]
    /\ UNCHANGED <<done, buffer, heard, publisher, rows, published, owed>>

\* One turn of handleSSE's loop that writes a message to the browser.
Deliver(s) ==
    /\ stream[s] = "open" /\ buffer[s] # <<>>
    /\ heard' = [heard EXCEPT ![s] = Append(@, Head(buffer[s]))]
    /\ buffer' = [buffer EXCEPT ![s] = Tail(@)]
    /\ UNCHANGED <<subscribers, done, stream, publisher, rows, published, owed>>

\* Broker.Unsubscribe, deferred by the handler: the subscriber was told to
\* stop, its session ended, the browser left or a write failed.
Unsubscribe(s) ==
    /\ stream[s] = "open"
    /\ stream' = [stream EXCEPT ![s] = "closed"]
    /\ done' = IF s \in subscribers THEN done \union {s} ELSE done
    /\ subscribers' = subscribers \ {s}
    /\ UNCHANGED <<buffer, heard, publisher, rows, published, owed>>

(********************************* Sources *********************************)

Begin(p, e) ==
    publisher' = [publisher EXCEPT ![p] =
                     [NoBroadcast EXCEPT !.stage = "snapshot", !.event = e]]

\* Mutant: every report of a spike is broadcast.
Inserted_Always(x) == TRUE

\* EventSpikeStore.Insert: ON CONFLICT DO NOTHING, and whether a row was made.
Inserted(x) == x \notin rows

\* insertSpike, for a report or for the local detector; a repeat is not
\* broadcast, and neither is one whose insert failed.
PublishRecentSpike(p, x) ==
    /\ publisher[p].stage = "idle"
    /\ Inserted(x)
    /\ rows' = rows \union {x}
    /\ Begin(p, <<"spike", x>>)
    /\ UNCHANGED <<broker, stream, heard, published, owed>>

\* PublishDetectorStatus compares and replaces under stateMu.
PublishDetectorStatus(p, v) ==
    /\ publisher[p].stage = "idle"
    /\ published.state # v /\ published.change < MaxChanges
    /\ published' = [state |-> v, change |-> published.change + 1]
    /\ Begin(p, <<"state", published.change + 1>>)
    /\ UNCHANGED <<broker, stream, heard, rows, owed>>

(******************************** Broadcast ********************************)

\* The copy of the subscribers, under the read lock.
CopySubscribers(p) ==
    /\ publisher[p].stage = "snapshot"
    /\ publisher' = [publisher EXCEPT ![p].stage = "sending",
                                      ![p].to = subscribers]
    /\ owed' = [s \in Streams |->
                   IF s \in subscribers THEN owed[s] \union {publisher[p].event}
                   ELSE owed[s]]
    /\ UNCHANGED <<broker, stream, heard, rows, published>>

\* A send that cannot block; a subscriber that left still has its channel.
Send(p, s) ==
    /\ publisher[p].stage = "sending" /\ s \in publisher[p].to
    /\ IF Len(buffer[s]) < Capacity
       THEN /\ buffer' = [buffer EXCEPT ![s] = Append(@, publisher[p].event)]
            /\ publisher' = [publisher EXCEPT ![p].to = @ \ {s}]
       ELSE /\ publisher' = [publisher EXCEPT ![p].to = @ \ {s},
                                              ![p].evict = @ \union {s}]
            /\ UNCHANGED buffer
    /\ UNCHANGED <<subscribers, done, stream, heard, rows, published, owed>>

\* Mutant: a message that does not fit is dropped and its subscriber kept.
Evicted_None(p) == {}

Evicted(p) == publisher[p].evict \intersect subscribers

\* The slow subscribers leave, under the write lock.
Evict(p) ==
    /\ publisher[p].stage = "sending" /\ publisher[p].to = {}
    /\ subscribers' = subscribers \ Evicted(p)
    /\ done' = done \union Evicted(p)
    /\ publisher' = [publisher EXCEPT ![p] = NoBroadcast]
    /\ UNCHANGED <<stream, buffer, heard, rows, published, owed>>

EventsNext ==
    \/ \E s \in Streams : Subscribe(s) \/ Deliver(s) \/ Unsubscribe(s)
    \/ \E p \in Publishers :
          \/ \E x \in Spikes : PublishRecentSpike(p, x)
          \/ \E v \in States : PublishDetectorStatus(p, v)
          \/ CopySubscribers(p) \/ Evict(p)
          \/ \E s \in Streams : Send(p, s)

EventsSpec == EventsInit /\ [][EventsNext]_eventVars

(******************************** Properties *******************************)

Elements(seq) == {seq[i] : i \in 1..Len(seq)}
Pending(s) ==
    {p \in Publishers : s \in publisher[p].to \union publisher[p].evict}

\* A stream that stays subscribed misses nothing: every event broadcast since
\* it subscribed reached its browser or waits in its channel, unless a
\* broadcast is about to deliver it or to evict the stream.
NoSilentGap ==
    \A s \in subscribers :
        Pending(s) = {} => owed[s] = Elements(heard[s]) \union Elements(buffer[s])

\* A spike is shown once, however often and by however many reports, retries
\* and detectors it is brought.
SpikeShownOnce ==
    \A s \in Streams : LET all == heard[s] \o buffer[s] IN
        \A i, j \in 1..Len(all) : all[i] = all[j] /\ all[i][1] = "spike" => i = j
=============================================================================
