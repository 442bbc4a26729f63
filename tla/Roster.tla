------------------------------- MODULE Roster -------------------------------
(***************************************************************************)
(* The dashboard's roster: the rows of the hosts that report, the          *)
(* tombstones of those an operator removed for good, the freshness rows    *)
(* that make an outage known once, and the two caches in front of them.    *)
(* Every request runs on a goroutine of its own and takes several          *)
(* transactions; the sweep that looks for silent hosts is another.         *)
(*                                                                         *)
(* internal/dashboard/store.go, handlers_servers.go, server.go and         *)
(* migrate_servers_json.go, internal/telemetry/servers.go, exclusions.go   *)
(* and freshness.go.                                                       *)
(***************************************************************************)
EXTENDS Naturals, FiniteSets

CONSTANTS
    Hosts,
    Workers,     \* requests in progress at once
    StaleAfter,  \* staleAfter: three heartbeat intervals
    OpTimeout,   \* serverStoreOpTimeout, which is shorter
    Faults,      \* what may go wrong: "storage", "rename"
    MaxNow       \* bound: the clock

\* serverStoreOpTimeout is five seconds; staleAfter is three heartbeats of ten
\* seconds or more (store.go, server.go).
ASSUME RosterAssumption ==
    /\ Hosts # {} /\ MaxNow \in Nat \ {0}
    /\ OpTimeout \in Nat /\ StaleAfter \in Nat /\ OpTimeout < StaleAfter

VARIABLES
    now,       \* the clock
    row,       \* servers: host -> its row; reg = 0 when there is none
    tombs,     \* server_exclusions: the hosts removed for good
    fresh,     \* host_freshness: host -> its row; epoch = 0 when there is none
    cache,     \* ServerState.cache
    regCache,  \* ServerState.registeredAt; 0 when there is no entry
    legacy,    \* hosts in a servers.json that is still there
    work,      \* worker -> the request it is at
    sweep,     \* rows the sweep has read and not yet dealt with
    offlines   \* history: how often the outage of a report was made known

database == <<row, tombs, fresh, legacy>>
caches == <<cache, regCache>>
vars == <<now, database, caches, work, sweep, offlines>>

Times == 1..MaxNow
Server == [reg : 0..MaxNow, seen : 0..MaxNow]
Freshness == [epoch : 0..MaxNow, offline : BOOLEAN]
Stages == {"idle", "gated", "clear", "stored", "fresh", "read", "known",
           "next", "invalidate", "forget"}
Kinds == {"report", "delete", "remove"}
Request == [kind : Kinds, stage : Stages, host : Hosts, at : 0..MaxNow,
            reg : 0..MaxNow, todo : SUBSET Hosts]

TypeOK ==
    /\ now \in Times
    /\ row \in [Hosts -> Server] /\ cache \in [Hosts -> Server]
    /\ tombs \subseteq Hosts /\ legacy \subseteq Hosts
    /\ fresh \in [Hosts -> Freshness]
    /\ regCache \in [Hosts -> 0..MaxNow]
    /\ work \in [Workers -> Request]
    /\ sweep \subseteq [host : Hosts, seen : Times]
    /\ offlines \in [Hosts -> [Times -> Nat]]

NoServer == [reg |-> 0, seen |-> 0]
NoFreshness == [epoch |-> 0, offline |-> FALSE]
AnyHost == CHOOSE h \in Hosts : TRUE
NoWork == [kind |-> "report", stage |-> "idle", host |-> AnyHost, at |-> 0,
           reg |-> 0, todo |-> {}]

\* ServerStore.Import ignores a host that has a row. The rows of a legacy file
\* are as old as the model's clock.
Import(r) ==
    [h \in Hosts |-> IF h \in legacy /\ r[h].reg = 0
                     THEN [reg |-> 1, seen |-> 1] ELSE r[h]]

\* The state after the first start, with or without a legacy file.
Init ==
    /\ now = 1
    /\ \E old \in SUBSET Hosts :
          /\ row = [h \in Hosts |-> IF h \in old THEN [reg |-> 1, seen |-> 1]
                                    ELSE NoServer]
          /\ legacy = IF "rename" \in Faults THEN old ELSE {}
    /\ tombs = {} /\ fresh = [h \in Hosts |-> NoFreshness]
    /\ cache = [h \in Hosts |-> NoServer]
    /\ regCache = [h \in Hosts |-> 0]
    /\ work = [w \in Workers |-> NoWork]
    /\ sweep = {}
    /\ offlines = [h \in Hosts |-> [t \in Times |-> 0]]

(***************************** Reads and gates *****************************)

\* ServerStore.IsRegistered.
Registered(h) == row[h].reg # 0

\* The context of an operation ends OpTimeout after it began.
Timely(w) == now <= work[w].at + OpTimeout
MayFail(w) == "storage" \in Faults \/ ~Timely(w)

\* ServerState.IsExcluded: an error is logged and lets the request through.
MayPass(h) == h \notin tombs \/ "storage" \in Faults

Advance(w, stage) == work' = [work EXCEPT ![w].stage = stage]
Done(w) == work' = [work EXCEPT ![w] = NoWork]
Idle(w) == work[w].stage = "idle"

(******************************** Registration ******************************)

\* Mutant: the row is inserted without the check of the tombstone.
RegisterTx_BeforeTombstone(h) ==
    row' = [row EXCEPT ![h] = [reg |-> now, seen |-> 0]]

\* RemovalStore.RegisterIfNotExcluded, one transaction. The handler's check
\* of the tombstone before it is repeated here; the answers that change
\* nothing are no steps.
RegisterTx(h) ==
    /\ h \notin tombs
    /\ row' = [row EXCEPT ![h] = [reg |-> now, seen |-> 0]]

Register(h) ==
    /\ ~Registered(h)
    /\ RegisterTx(h)
    /\ UNCHANGED <<now, tombs, fresh, legacy, caches, work, sweep, offlines>>

(********************************** Reports *********************************)

\* handleReport or ReportLocal: the host is registered and has no tombstone.
BeginReport(w, h) ==
    /\ Idle(w) /\ Registered(h) /\ MayPass(h)
    /\ work' = [work EXCEPT ![w] = [NoWork EXCEPT !.stage = "gated", !.host = h]]
    /\ UNCHANGED <<now, database, caches, sweep, offlines>>

\* Update looks for the tombstone again, and takes the instant of acceptance
\* before it writes.
GateUpdate(w) ==
    /\ work[w].stage = "gated"
    /\ MayPass(work[w].host)
    /\ work' = [work EXCEPT ![w].stage = "clear", ![w].at = now]
    /\ UNCHANGED <<now, database, caches, sweep, offlines>>

RefuseUpdate(w) ==
    /\ work[w].stage = "gated"
    /\ work[w].host \in tombs
    /\ Done(w)
    /\ UNCHANGED <<now, database, caches, sweep, offlines>>

\* ServerStore.Update touches an existing row only.
SeenNow(h) == [row EXCEPT ![h].seen = now]

StoreUpdate(w) ==
    /\ work[w].stage = "clear"
    /\ Timely(w) /\ Registered(work[w].host)
    /\ row' = SeenNow(work[w].host)
    /\ Advance(w, "stored")
    /\ UNCHANGED <<now, tombs, fresh, legacy, caches, sweep, offlines>>

\* No such row any more, or an error: the caches are left alone.
StoreNothing(w) ==
    /\ work[w].stage = "clear"
    /\ ~Registered(work[w].host) \/ MayFail(w)
    /\ Done(w)
    /\ UNCHANGED <<now, database, caches, sweep, offlines>>

\* FreshnessStore.transition for an accepted report: an older epoch than the
\* stored one changes nothing, and an outage ends with the first report that
\* is not older.
FreshTx(h, epoch) ==
    fresh' = IF ~Registered(h) \/ epoch < fresh[h].epoch THEN fresh
             ELSE [fresh EXCEPT ![h] = [epoch |-> epoch, offline |-> FALSE]]

MarkFresh(w) ==
    /\ work[w].stage = "stored" /\ Timely(w)
    /\ FreshTx(work[w].host, work[w].at)
    /\ Advance(w, "fresh")
    /\ UNCHANGED <<now, row, tombs, legacy, caches, sweep, offlines>>

\* The error is logged and the report goes on.
MarkFreshFails(w) ==
    /\ work[w].stage = "stored" /\ MayFail(w)
    /\ Advance(w, "fresh")
    /\ UNCHANGED <<now, database, caches, sweep, offlines>>

\* lookupRegisteredAt: from its cache, or from the row, which is then kept.
LookupHit(w) ==
    /\ work[w].stage = "fresh" /\ regCache[work[w].host] # 0
    /\ work' = [work EXCEPT ![w].stage = "known", ![w].reg = regCache[work[w].host]]
    /\ UNCHANGED <<now, database, caches, sweep, offlines>>

LookupRow(w) ==
    /\ work[w].stage = "fresh" /\ regCache[work[w].host] = 0
    /\ Timely(w) /\ Registered(work[w].host)
    /\ work' = [work EXCEPT ![w].stage = "read", ![w].reg = row[work[w].host].reg]
    /\ UNCHANGED <<now, database, caches, sweep, offlines>>

LookupFails(w) ==
    /\ work[w].stage = "fresh" /\ regCache[work[w].host] = 0
    /\ ~Registered(work[w].host) \/ MayFail(w)
    /\ Done(w)
    /\ UNCHANGED <<now, database, caches, sweep, offlines>>

KeepRegisteredAt(w) ==
    /\ work[w].stage = "read"
    /\ regCache' = [regCache EXCEPT ![work[w].host] = work[w].reg]
    /\ Advance(w, "known")
    /\ UNCHANGED <<now, database, cache, sweep, offlines>>

\* The cache, and then OnRecovered, OnUpdate and OnMetrics, which change
\* nothing of the roster.
StoreCache(w) ==
    /\ work[w].stage = "known"
    /\ cache' = [cache EXCEPT ![work[w].host] =
                    [reg |-> work[w].reg, seen |-> work[w].at]]
    /\ Done(w)
    /\ UNCHANGED <<now, database, regCache, sweep, offlines>>

(********************************** Removals ********************************)

\* ServerState.Remove: the row is deleted, then the freshness row, then the
\* cache entries.
Delete(w, h) ==
    /\ Idle(w) /\ Registered(h)
    /\ row' = [row EXCEPT ![h] = NoServer]
    /\ work' = [work EXCEPT ![w] = [NoWork EXCEPT !.kind = "delete",
                   !.stage = "forget", !.host = h, !.at = now]]
    /\ UNCHANGED <<now, tombs, fresh, legacy, caches, sweep, offlines>>

\* handlePermanentRemoveServer and its batch, whose hosts are taken in turn.
BeginRemoval(w, hs) ==
    /\ Idle(w) /\ hs # {}
    /\ work' = [work EXCEPT ![w] = [NoWork EXCEPT !.kind = "remove",
                   !.stage = "next", !.todo = hs]]
    /\ UNCHANGED <<now, database, caches, sweep, offlines>>

\* RemovalStore.PermanentRemove, one transaction. A tombstone is written again.
RemoveHost(w, h) ==
    /\ work[w].stage = "next" /\ h \in work[w].todo
    /\ Registered(h) \/ h \in tombs
    /\ row' = [row EXCEPT ![h] = NoServer]
    /\ tombs' = tombs \union {h}
    /\ work' = [work EXCEPT ![w].stage = "invalidate", ![w].host = h,
                            ![w].at = now, ![w].todo = @ \ {h}]
    /\ UNCHANGED <<now, fresh, legacy, caches, sweep, offlines>>

\* The host is unknown, or the transaction failed: the batch goes on.
SkipHost(w, h) ==
    /\ work[w].stage = "next" /\ h \in work[w].todo
    /\ (~Registered(h) /\ h \notin tombs) \/ "storage" \in Faults
    /\ work' = [work EXCEPT ![w].todo = @ \ {h}]
    /\ UNCHANGED <<now, database, caches, sweep, offlines>>

EndRemoval(w) ==
    /\ work[w].stage = "next" /\ work[w].todo = {}
    /\ Done(w)
    /\ UNCHANGED <<now, database, caches, sweep, offlines>>

\* A plain removal invalidates the caches last, a permanent one first.
Following(kind, stage) ==
    IF kind = "delete" THEN IF stage = "forget" THEN "invalidate" ELSE "idle"
    ELSE IF stage = "invalidate" THEN "forget" ELSE "next"

\* FreshnessStore.Remove, within the context of the operation.
Forget(w) ==
    /\ work[w].stage = "forget" /\ Timely(w)
    /\ fresh' = [fresh EXCEPT ![work[w].host] = NoFreshness]
    /\ Advance(w, Following(work[w].kind, "forget"))
    /\ UNCHANGED <<now, row, tombs, legacy, caches, sweep, offlines>>

ForgetFails(w) ==
    /\ work[w].stage = "forget" /\ MayFail(w)
    /\ Advance(w, Following(work[w].kind, "forget"))
    /\ UNCHANGED <<now, database, caches, sweep, offlines>>

Invalidate(w) ==
    /\ work[w].stage = "invalidate"
    /\ cache' = [cache EXCEPT ![work[w].host] = NoServer]
    /\ regCache' = [regCache EXCEPT ![work[w].host] = 0]
    /\ Advance(w, Following(work[w].kind, "invalidate"))
    /\ UNCHANGED <<now, database, sweep, offlines>>

\* handleRestoreServer and its batch: refused while the host has a row, which
\* a host with a tombstone never gets back.
Restore(h) ==
    /\ ~Registered(h) /\ h \in tombs
    /\ tombs' = tombs \ {h}
    /\ UNCHANGED <<now, row, fresh, legacy, caches, work, sweep, offlines>>

(********************************* The sweep ********************************)

\* sweepStaleServers reads every row, then takes the stale ones one by one.
Stale(h) == row[h].seen # 0 /\ now - row[h].seen >= StaleAfter

SweepRead ==
    /\ sweep = {}
    /\ \E h \in Hosts : Stale(h)
    /\ sweep' = {[host |-> h, seen |-> row[h].seen] : h \in {g \in Hosts : Stale(g)}}
    /\ UNCHANGED <<now, database, caches, work, offlines>>

\* FreshnessStore.transition for an outage: the row still has the epoch.
IsCurrent(x) == row[x.host].seen = x.seen

\* Mutant: the marker of an outage already announced is not looked at.
Known_Never(x) == x.seen < fresh[x.host].epoch

\* An epoch older than the stored one, or one whose outage is announced.
Known(x) ==
    \/ x.seen < fresh[x.host].epoch
    \/ x.seen = fresh[x.host].epoch /\ fresh[x.host].offline

SweepHost(x) ==
    /\ x \in sweep
    /\ IF IsCurrent(x) /\ ~Known(x)
       THEN /\ fresh' = [fresh EXCEPT ![x.host] =
                            [epoch |-> x.seen, offline |-> TRUE]]
            /\ offlines' = [offlines EXCEPT ![x.host][x.seen] = @ + 1]
       ELSE UNCHANGED <<fresh, offlines>>
    /\ sweep' = sweep \ {x}
    /\ UNCHANGED <<now, row, tombs, legacy, caches, work>>

SweepFails(x) ==
    /\ x \in sweep /\ "storage" \in Faults
    /\ sweep' = sweep \ {x}
    /\ UNCHANGED <<now, database, caches, work, offlines>>

(************************** Restarts and the clock **************************)

\* The service starts again: requests, caches and the sweep are gone, and a
\* servers.json whose renaming failed is imported once more.
Restart ==
    /\ row' = Import(row)
    /\ legacy' \in {{}, legacy}
    /\ cache' = [h \in Hosts |-> NoServer]
    /\ regCache' = [h \in Hosts |-> 0]
    /\ work' = [w \in Workers |-> NoWork]
    /\ sweep' = {}
    /\ UNCHANGED <<now, tombs, fresh, offlines>>

Tick ==
    /\ now < MaxNow
    /\ now' = now + 1
    /\ UNCHANGED <<database, caches, work, sweep, offlines>>

Report(w) ==
    \/ GateUpdate(w) \/ RefuseUpdate(w) \/ StoreUpdate(w) \/ StoreNothing(w)
    \/ MarkFresh(w) \/ MarkFreshFails(w)
    \/ LookupHit(w) \/ LookupRow(w) \/ LookupFails(w)
    \/ KeepRegisteredAt(w) \/ StoreCache(w)

Removal(w) ==
    \/ \E h \in Hosts : RemoveHost(w, h) \/ SkipHost(w, h)
    \/ EndRemoval(w) \/ Forget(w) \/ ForgetFails(w) \/ Invalidate(w)

Next ==
    \/ \E h \in Hosts : Register(h) \/ Restore(h)
    \/ \E w \in Workers :
          \/ \E h \in Hosts : BeginReport(w, h) \/ Delete(w, h)
          \/ \E hs \in SUBSET Hosts : BeginRemoval(w, hs)
          \/ Report(w) \/ Removal(w)
    \/ SweepRead
    \/ \E x \in sweep : SweepHost(x) \/ SweepFails(x)
    \/ Restart \/ Tick

Spec == Init /\ [][Next]_vars

(******************************** Properties ********************************)

\* A host removed for good has no row: no registration, report, or restart
\* that overlaps the removal brings one back before it is restored.
RemovedStaysOut == \A h \in tombs : ~Registered(h)

\* The outage of a report is made known at most once, whatever removals,
\* registrations and restarts overlap the sweep, and never while the database
\* still says that the host reported after it.
OfflineOncePerReport ==
    \A h \in Hosts, t \in Times : offlines[h][t] <= 1

\* What is known of a host is never newer than its row.
EpochFollowsRow ==
    \A h \in Hosts : Registered(h) /\ row[h].seen # 0 /\ fresh[h].offline =>
        fresh[h].epoch <= row[h].seen

\* An outage is told once and undone by the report that ends it.
OutagesAreTrue == OfflineOncePerReport /\ EpochFollowsRow
=============================================================================
