---------------------------- MODULE RosterProofs ----------------------------
(***************************************************************************)
(* The roster, its tombstones and its freshness rows, for any number of    *)
(* hosts, requests in progress, removals, sweeps and restarts.             *)
(***************************************************************************)
EXTENDS Roster, TLAPS

(* A servers.json that was imported is renamed: the next start does not    *)
(* import it again (MigrateLegacyServersJSON).                             *)
NoRename == "rename" \notin Faults
NoLegacy == NoRename => legacy = {}

RosterInv == TypeOK /\ NoLegacy /\ RemovedStaysOut
-----------------------------------------------------------------------------
LEMMA NoWorkTypes == NoWork \in Request
<1>1. AnyHost \in Hosts
  BY RosterAssumption DEF RosterAssumption, AnyHost
<1> QED
  BY <1>1, RosterAssumption DEF RosterAssumption, NoWork, Request, Kinds, Stages

(* The bookkeeping of a request keeps its type.                            *)
LEMMA AdvanceTypes ==
    ASSUME TypeOK, NEW w \in Workers, NEW stage \in Stages, Advance(w, stage)
    PROVE  work' \in [Workers -> Request]
  BY DEF TypeOK, Advance, Request

LEMMA DoneTypes ==
    ASSUME TypeOK, NEW w \in Workers, Done(w)
    PROVE  work' \in [Workers -> Request]
  BY NoWorkTypes DEF TypeOK, Done

LEMMA FollowingTypes ==
    \A kind, stage : Following(kind, stage) \in Stages
  BY DEF Following, Stages

LEMMA RosterInit == Init => TypeOK /\ NoLegacy /\ RemovedStaysOut
<1> SUFFICES ASSUME Init PROVE TypeOK /\ NoLegacy /\ RemovedStaysOut
  OBVIOUS
<1>1. now = 1 /\ now \in Times /\ 0 \in 0..MaxNow /\ 1 \in 0..MaxNow
  BY RosterAssumption DEF RosterAssumption, Init, Times
<1>2. row \in [Hosts -> Server] /\ cache \in [Hosts -> Server]
  BY <1>1 DEF Init, Server, NoServer
<1>3. legacy \subseteq Hosts /\ NoLegacy
  BY DEF Init, NoLegacy, NoRename
<1>4. work \in [Workers -> Request]
  BY NoWorkTypes DEF Init
<1>5. offlines \in [Hosts -> [Times -> Nat]]
  BY DEF Init
<1>6. fresh \in [Hosts -> Freshness] /\ regCache \in [Hosts -> 0..MaxNow]
  BY <1>1 DEF Init, NoFreshness, Freshness
<1> QED
  BY <1>1, <1>2, <1>3, <1>4, <1>5, <1>6 DEF Init, TypeOK, RemovedStaysOut

(* A report keeps the types, and makes no row of a host that has none.     *)
LEMMA ReportTypes ==
    ASSUME RosterInv, NEW w \in Workers, Report(w)
    PROVE  /\ TypeOK' /\ UNCHANGED <<tombs, legacy, sweep, offlines, now>>
           /\ \A h \in Hosts : row'[h].reg = row[h].reg
<1> USE DEF RosterInv
<1>1. CASE GateUpdate(w)
  <2>0. now \in 0..MaxNow /\ work[w] \in Request
    BY RosterAssumption DEF RosterAssumption, TypeOK, Times
  <2>1. work' \in [Workers -> Request]
    <3>1. [work[w] EXCEPT !.stage = "clear", !.at = now] \in Request
      BY <2>0 DEF Request, Stages
    <3>2. work' = [work EXCEPT ![w] = [work[w] EXCEPT !.stage = "clear", !.at = now]]
      BY <1>1 DEF GateUpdate, TypeOK, Request
    <3> QED
      BY <3>1, <3>2 DEF TypeOK
  <2> QED
    BY <1>1, <2>1 DEF GateUpdate, TypeOK, database, caches
<1>2. CASE RefuseUpdate(w) \/ StoreNothing(w) \/ LookupFails(w)
  BY <1>2, DoneTypes DEF RefuseUpdate, StoreNothing, LookupFails, TypeOK, database, caches
<1>3. CASE StoreUpdate(w)
  <2>1. work' \in [Workers -> Request]
    BY <1>3, AdvanceTypes DEF StoreUpdate, Stages
  <2>2. work[w].host \in Hosts /\ now \in 0..MaxNow
    BY RosterAssumption DEF RosterAssumption, TypeOK, Request, Times
  <2>3. row' \in [Hosts -> Server] /\ \A h \in Hosts : row'[h].reg = row[h].reg
    BY <1>3, <2>2 DEF StoreUpdate, SeenNow, TypeOK, Server
  <2> QED
    BY <1>3, <2>1, <2>3 DEF StoreUpdate, TypeOK, database, caches
<1>4. CASE MarkFresh(w)
  <2>1. work' \in [Workers -> Request]
    BY <1>4, AdvanceTypes DEF MarkFresh, Stages
  <2>2. work[w].host \in Hosts /\ work[w].at \in 0..MaxNow
    BY DEF TypeOK, Request
  <2>3. fresh' \in [Hosts -> Freshness]
    BY <1>4, <2>2 DEF MarkFresh, FreshTx, TypeOK, Freshness
  <2> QED
    BY <1>4, <2>1, <2>3 DEF MarkFresh, TypeOK, caches
<1>5. CASE MarkFreshFails(w)
  BY <1>5, AdvanceTypes DEF MarkFreshFails, TypeOK, database, caches, Stages
<1>6. CASE LookupHit(w) \/ LookupRow(w)
  <2>1. regCache[work[w].host] \in 0..MaxNow /\ row[work[w].host].reg \in 0..MaxNow
    BY DEF TypeOK, Request, Server
  <2>2. work' \in [Workers -> Request]
    <3>1. PICK stage \in Stages, r \in 0..MaxNow :
              work' = [work EXCEPT ![w].stage = stage, ![w].reg = r]
      BY <1>6, <2>1 DEF LookupHit, LookupRow, Stages
    <3>2. work[w] \in Request
      BY DEF TypeOK
    <3>3. [work[w] EXCEPT !.stage = stage, !.reg = r] \in Request
      BY <3>2 DEF Request
    <3>4. work' = [work EXCEPT ![w] = [work[w] EXCEPT !.stage = stage, !.reg = r]]
      BY <3>1 DEF TypeOK
    <3> QED
      BY <3>3, <3>4 DEF TypeOK
  <2> QED
    BY <1>6, <2>2 DEF LookupHit, LookupRow, TypeOK, database, caches
<1>7. CASE KeepRegisteredAt(w)
  <2>1. work' \in [Workers -> Request]
    BY <1>7, AdvanceTypes DEF KeepRegisteredAt, Stages
  <2>2. work[w].reg \in 0..MaxNow
    BY DEF TypeOK, Request
  <2> QED
    BY <1>7, <2>1, <2>2 DEF KeepRegisteredAt, TypeOK, database
<1>8. CASE StoreCache(w)
  <2>1. work[w].reg \in 0..MaxNow /\ work[w].at \in 0..MaxNow
    BY DEF TypeOK, Request
  <2>2. cache' \in [Hosts -> Server]
    BY <1>8, <2>1 DEF StoreCache, TypeOK, Server
  <2> QED
    BY <1>8, <2>2, DoneTypes DEF StoreCache, TypeOK, database
<1> QED
  BY <1>1, <1>2, <1>3, <1>4, <1>5, <1>6, <1>7, <1>8 DEF Report

(* A removal keeps the types, and leaves no row under its tombstone.       *)
LEMMA RemovalTypes ==
    ASSUME RosterInv, NEW w \in Workers, Removal(w)
    PROVE  /\ TypeOK' /\ UNCHANGED <<legacy, sweep, offlines, now>>
           /\ RemovedStaysOut'
<1> USE DEF RosterInv
<1>0. now \in 0..MaxNow /\ 0 \in 0..MaxNow
  BY RosterAssumption DEF RosterAssumption, TypeOK, Times
<1>1. CASE \E h \in Hosts : RemoveHost(w, h)
  <2> PICK h \in Hosts : RemoveHost(w, h)
    BY <1>1
  <2>1. work' \in [Workers -> Request]
    BY <1>0 DEF RemoveHost, TypeOK, Request, Stages
  <2>2. row' \in [Hosts -> Server] /\ RemovedStaysOut'
    BY <1>0 DEF RemoveHost, TypeOK, NoServer, Server, RemovedStaysOut, Registered
  <2> QED
    BY <2>1, <2>2 DEF RemoveHost, TypeOK, caches
<1>2. CASE \E h \in Hosts : SkipHost(w, h)
  <2> PICK h \in Hosts : SkipHost(w, h)
    BY <1>2
  <2>1. work' \in [Workers -> Request]
    BY DEF SkipHost, TypeOK, Request
  <2> QED
    BY <2>1 DEF SkipHost, TypeOK, database, caches, RemovedStaysOut, Registered
<1>3. CASE EndRemoval(w)
  BY <1>3, DoneTypes DEF EndRemoval, TypeOK, database, caches, RemovedStaysOut, Registered
<1>4. CASE Forget(w)
  <2>1. work' \in [Workers -> Request]
    BY <1>4, AdvanceTypes, FollowingTypes DEF Forget
  <2>2. fresh' \in [Hosts -> Freshness]
    BY <1>4, <1>0 DEF Forget, TypeOK, NoFreshness, Freshness
  <2> QED
    BY <1>4, <2>1, <2>2 DEF Forget, TypeOK, caches, RemovedStaysOut, Registered
<1>5. CASE ForgetFails(w)
  BY <1>5, AdvanceTypes, FollowingTypes
     DEF ForgetFails, TypeOK, database, caches, RemovedStaysOut, Registered
<1>6. CASE Invalidate(w)
  <2>1. work' \in [Workers -> Request]
    BY <1>6, AdvanceTypes, FollowingTypes DEF Invalidate
  <2>2. cache' \in [Hosts -> Server] /\ regCache' \in [Hosts -> 0..MaxNow]
    BY <1>6, <1>0 DEF Invalidate, TypeOK, NoServer, Server
  <2> QED
    BY <1>6, <2>1, <2>2 DEF Invalidate, TypeOK, database, RemovedStaysOut, Registered
<1> QED
  BY <1>1, <1>2, <1>3, <1>4, <1>5, <1>6 DEF Removal

(* The sweep, the operator, a restart and the clock.                       *)
Others ==
    \/ \E h \in Hosts : Register(h) \/ Restore(h)
    \/ \E w \in Workers :
          \/ \E h \in Hosts : BeginReport(w, h) \/ Delete(w, h)
          \/ \E hs \in SUBSET Hosts : BeginRemoval(w, hs)
    \/ SweepRead
    \/ \E x \in sweep : SweepHost(x) \/ SweepFails(x)
    \/ Restart \/ Tick

LEMMA StepKinds ==
    ASSUME Next
    PROVE  Others \/ \E w \in Workers : Report(w) \/ Removal(w)
  BY DEF Next, Others

LEMMA OthersTypes ==
    ASSUME RosterInv, Others
    PROVE  TypeOK' /\ NoLegacy' /\ (NoRename => RemovedStaysOut')
<1> USE DEF RosterInv
<1>0. now \in 0..MaxNow /\ 0 \in 0..MaxNow /\ 1 \in 0..MaxNow /\ now \in Nat
  BY RosterAssumption DEF RosterAssumption, TypeOK, Times
<1>1. CASE \E h \in Hosts : Register(h) \/ Restore(h)
  <2> PICK h \in Hosts : Register(h) \/ Restore(h)
    BY <1>1
  <2>1. row' \in [Hosts -> Server] /\ RemovedStaysOut'
    <3>1. [reg |-> now, seen |-> 0] \in Server
      BY <1>0 DEF Server
    <3>2. CASE Register(h)
      BY <3>1, <3>2 DEF Register, RegisterTx, TypeOK, RemovedStaysOut, Registered
    <3>3. CASE Restore(h)
      BY <3>3 DEF Restore, TypeOK, RemovedStaysOut, Registered
    <3> QED
      BY <3>2, <3>3
  <2> QED
    BY <2>1 DEF Register, RegisterTx, Restore, TypeOK, NoLegacy, caches
<1>2. CASE \E w \in Workers : \E h \in Hosts : BeginReport(w, h)
  <2> PICK w \in Workers, h \in Hosts : BeginReport(w, h)
    BY <1>2
  <2>1. [NoWork EXCEPT !.stage = "gated", !.host = h] \in Request
    BY NoWorkTypes DEF Request, Stages
  <2> QED
    BY <2>1 DEF BeginReport, TypeOK, NoLegacy, database, caches, RemovedStaysOut, Registered
<1>3. CASE \E w \in Workers : \E h \in Hosts : Delete(w, h)
  <2> PICK w \in Workers, h \in Hosts : Delete(w, h)
    BY <1>3
  <2>1. [NoWork EXCEPT !.kind = "delete", !.stage = "forget", !.host = h, !.at = now]
            \in Request
    BY NoWorkTypes, <1>0 DEF Request, Stages, Kinds
  <2>2. row' \in [Hosts -> Server] /\ RemovedStaysOut'
    BY <1>0 DEF Delete, TypeOK, NoServer, Server, RemovedStaysOut, Registered
  <2> QED
    BY <2>1, <2>2 DEF Delete, TypeOK, NoLegacy, caches
<1>4. CASE \E w \in Workers : \E hs \in SUBSET Hosts : BeginRemoval(w, hs)
  <2> PICK w \in Workers, hs \in SUBSET Hosts : BeginRemoval(w, hs)
    BY <1>4
  <2>1. [NoWork EXCEPT !.kind = "remove", !.stage = "next", !.todo = hs] \in Request
    BY NoWorkTypes DEF Request, Stages, Kinds
  <2> QED
    BY <2>1 DEF BeginRemoval, TypeOK, NoLegacy, database, caches, RemovedStaysOut, Registered
<1>5. CASE SweepRead
  <2>1. sweep' \subseteq [host : Hosts, seen : Times]
    BY <1>5, <1>0 DEF SweepRead, TypeOK, Stale, Server, Times
  <2> QED
    BY <1>5, <2>1 DEF SweepRead, TypeOK, NoLegacy, database, caches, RemovedStaysOut, Registered
<1>6. CASE \E x \in sweep : SweepHost(x) \/ SweepFails(x)
  <2> PICK x \in sweep : SweepHost(x) \/ SweepFails(x)
    BY <1>6
  <2>1. x.host \in Hosts /\ x.seen \in Times /\ x.seen \in 0..MaxNow
    BY DEF TypeOK, Times
  <2>2. fresh' \in [Hosts -> Freshness]
    <3>1. [epoch |-> x.seen, offline |-> TRUE] \in Freshness
      BY <2>1 DEF Freshness
    <3>2. \/ fresh' = fresh
          \/ fresh' = [fresh EXCEPT ![x.host] = [epoch |-> x.seen, offline |-> TRUE]]
      BY DEF SweepHost, SweepFails, database
    <3> QED
      BY <2>1, <3>1, <3>2 DEF TypeOK
  <2>3. offlines' \in [Hosts -> [Times -> Nat]]
    BY <2>1 DEF SweepHost, SweepFails, TypeOK
  <2> QED
    BY <2>2, <2>3 DEF SweepHost, SweepFails, TypeOK, NoLegacy, database, caches,
                      RemovedStaysOut, Registered
<1>7. CASE Restart
  <2>1. row' \in [Hosts -> Server]
    BY <1>7, <1>0 DEF Restart, Import, TypeOK, Server
  <2>2. cache' \in [Hosts -> Server] /\ work' \in [Workers -> Request]
    BY <1>7, <1>0, NoWorkTypes DEF Restart, NoServer, Server
  <2>3. NoRename => RemovedStaysOut'
    BY <1>7 DEF Restart, Import, TypeOK, NoLegacy, RemovedStaysOut, Registered
  <2> QED
    BY <1>7, <1>0, <2>1, <2>2, <2>3 DEF Restart, TypeOK, NoLegacy
<1>8. CASE Tick
  <2>1. now' \in Times
    BY <1>8, <1>0, RosterAssumption DEF RosterAssumption, Tick, TypeOK, Times
  <2> QED
    BY <1>8, <2>1 DEF Tick, TypeOK, NoLegacy, database, caches, RemovedStaysOut, Registered
<1> QED
  BY <1>1, <1>2, <1>3, <1>4, <1>5, <1>6, <1>7, <1>8 DEF Others
-----------------------------------------------------------------------------
LEMMA RosterStep ==
    ASSUME RosterInv, NoRename, [Next]_vars
    PROVE  RosterInv'
<1>1. CASE Next
  <2>1. CASE Others
    BY <2>1, OthersTypes DEF RosterInv
  <2>2. CASE \E w \in Workers : Report(w)
    <3> PICK w \in Workers : Report(w)
      BY <2>2
    <3>1. \A h \in Hosts : row'[h].reg = row[h].reg
      BY ReportTypes
    <3> QED
      BY <3>1, ReportTypes DEF RosterInv, NoLegacy, RemovedStaysOut, Registered, TypeOK
  <2>3. CASE \E w \in Workers : Removal(w)
    BY <2>3, RemovalTypes DEF RosterInv, NoLegacy
  <2> QED
    BY <1>1, <2>1, <2>2, <2>3, StepKinds
<1>2. CASE UNCHANGED vars
  BY <1>2 DEF vars, database, caches, RosterInv, TypeOK, NoLegacy, RemovedStaysOut, Registered
<1> QED
  BY <1>1, <1>2

(* A host removed for good has no row, whatever overlaps its removal: a    *)
(* registration, a report, a restart (exclusions.go, RegisterIfNotExcluded *)
(* and PermanentRemove).  A servers.json that cannot be renamed breaks it. *)
THEOREM RemovalIsPermanent ==
    ASSUME NoRename
    PROVE  Spec => []RemovedStaysOut
<1>1. Init => RosterInv
  BY RosterInit DEF RosterInv
<1>2. RosterInv /\ [Next]_vars => RosterInv'
  BY RosterStep
<1>3. RosterInv => RemovedStaysOut
  BY DEF RosterInv
<1> QED
  BY <1>1, <1>2, <1>3, PTL DEF Spec

-----------------------------------------------------------------------------
(* What makes an outage known once.  An announced outage is either marked  *)
(* in the freshness row or belongs to a row that is gone; a removal still  *)
(* about to forget the marker began before the host's present row was      *)
(* heard, and when that row is announced the removal's time is up, since   *)
(* OpTimeout is shorter than StaleAfter.                                   *)
Marked(h, t) ==
    t < fresh[h].epoch \/ (t = fresh[h].epoch /\ fresh[h].offline)

NotAhead ==
    /\ \A h \in Hosts : row[h].seen <= now /\ fresh[h].epoch <= now
    /\ \A w \in Workers : work[w].at <= now
    /\ \A x \in sweep : x.seen + StaleAfter <= now

Forgetting(w) == work[w].stage \in {"forget", "invalidate"}

RowsAreNewer ==
    \A w \in Workers : Forgetting(w) =>
        \/ row[work[w].host].seen = 0
        \/ row[work[w].host].seen >= work[w].at

AnnouncedIsMarked ==
    \A h \in Hosts, t \in Times : offlines[h][t] >= 1 =>
        /\ t + StaleAfter <= now
        /\ row[h].seen = t => Marked(h, t)

OutageInv ==
    /\ RosterInv /\ NotAhead /\ RowsAreNewer /\ AnnouncedIsMarked
    /\ OutagesAreTrue

(* The clock, and what a step reads of it.                                 *)
LEMMA Instants ==
    ASSUME TypeOK
    PROVE  /\ now \in Nat /\ StaleAfter \in Nat /\ OpTimeout \in Nat
           /\ now \in 0..MaxNow
           /\ OpTimeout < StaleAfter
           /\ \A h \in Hosts : row[h].seen \in Nat /\ fresh[h].epoch \in Nat
           /\ \A w \in Workers : work[w].at \in Nat /\ work[w].host \in Hosts
           /\ \A x \in sweep : x.host \in Hosts /\ x.seen \in Nat /\ x.seen \in Times
           /\ Times \subseteq Nat \ {0}
<1>1. MaxNow \in Nat /\ Times \subseteq Nat \ {0} /\ Times \subseteq 0..MaxNow
  BY RosterAssumption DEF RosterAssumption, Times
<1>2. \A h \in Hosts : row[h].seen \in Nat /\ fresh[h].epoch \in Nat
  BY <1>1 DEF TypeOK, Server, Freshness
<1>3. \A w \in Workers : work[w].at \in Nat /\ work[w].host \in Hosts
  BY <1>1 DEF TypeOK, Request
<1>4. \A x \in sweep : x.host \in Hosts /\ x.seen \in Nat /\ x.seen \in Times
  BY <1>1 DEF TypeOK
<1> QED
  BY <1>1, <1>2, <1>3, <1>4, RosterAssumption DEF RosterAssumption, TypeOK

(* Steps that touch no row, no freshness row, no outage and no removal.    *)
LEMMA QuietStep ==
    ASSUME OutageInv, UNCHANGED <<now, row, fresh, offlines>>, sweep' \subseteq sweep,
           \A w \in Workers : work'[w].at <= now,
           \A w \in Workers : Forgetting(w)' =>
               \/ Forgetting(w) /\ work'[w].host = work[w].host /\ work'[w].at = work[w].at
               \/ row[work'[w].host].seen = 0
    PROVE  NotAhead' /\ RowsAreNewer' /\ AnnouncedIsMarked' /\ OutagesAreTrue'
<1>1. NotAhead'
  BY DEF OutageInv, NotAhead
<1>2. RowsAreNewer'
  BY DEF OutageInv, RowsAreNewer
<1>3. AnnouncedIsMarked' /\ OutagesAreTrue'
  BY DEF OutageInv, AnnouncedIsMarked, OutagesAreTrue, OfflineOncePerReport,
         EpochFollowsRow, Marked, Registered
<1> QED
  BY <1>1, <1>2, <1>3

(* A row is deleted, registered or touched: it is then heard at no time,   *)
(* or now.                                                                 *)
LEMMA RowStep ==
    ASSUME OutageInv, UNCHANGED <<now, fresh, offlines, sweep>>,
           NEW h \in Hosts, NEW s \in {0, now},
           \A g \in Hosts : row'[g].seen = (IF g = h THEN s ELSE row[g].seen),
           \A g \in Hosts : g # h => row'[g].reg = row[g].reg,
           \A w \in Workers : work'[w].at <= now,
           \A w \in Workers : Forgetting(w)' =>
               \/ Forgetting(w) /\ work'[w].host = work[w].host /\ work'[w].at = work[w].at
               \/ work'[w].host = h /\ s = 0,
           \A w \in Workers : work'[w].host \in Hosts
    PROVE  NotAhead' /\ RowsAreNewer' /\ AnnouncedIsMarked' /\ OutagesAreTrue'
<1>0. TypeOK
  BY DEF OutageInv, RosterInv
<1>1. NotAhead'
  BY <1>0, Instants DEF OutageInv, NotAhead
<1>2. RowsAreNewer'
  BY <1>0, Instants DEF OutageInv, RowsAreNewer, NotAhead
<1>3. AnnouncedIsMarked'
  <2> SUFFICES ASSUME NEW g \in Hosts, NEW t \in Times, offlines[g][t] >= 1
               PROVE  t + StaleAfter <= now /\ (row'[g].seen = t => Marked(g, t)')
    BY DEF AnnouncedIsMarked
  <2>1. t + StaleAfter <= now /\ t \in Nat \ {0} /\ (row[g].seen = t => Marked(g, t))
    BY <1>0, Instants DEF OutageInv, AnnouncedIsMarked
  <2>2. Marked(g, t)' <=> Marked(g, t)
    BY DEF Marked
  <2>3. StaleAfter > 0
    BY <1>0, Instants
  <2> QED
    BY <2>1, <2>2, <2>3, <1>0, Instants
<1>4. OfflineOncePerReport'
  BY DEF OutageInv, OutagesAreTrue, OfflineOncePerReport
<1>5. EpochFollowsRow'
  BY <1>0, Instants DEF OutageInv, OutagesAreTrue, EpochFollowsRow, NotAhead, Registered
<1> QED
  BY <1>1, <1>2, <1>3, <1>4, <1>5 DEF OutagesAreTrue

(* A report in time clears the marker of no outage that is still current.  *)
LEMMA FreshStep ==
    ASSUME OutageInv, NEW w \in Workers, MarkFresh(w)
    PROVE  NotAhead' /\ RowsAreNewer' /\ AnnouncedIsMarked' /\ OutagesAreTrue'
<1> DEFINE h == work[w].host
<1>0. TypeOK /\ h \in Hosts /\ work[w].at <= now /\ now <= work[w].at + OpTimeout
  BY Instants DEF OutageInv, RosterInv, NotAhead, MarkFresh, Timely
<1>1. UNCHANGED <<now, row, offlines, sweep>>
  BY DEF MarkFresh
<1>2. \/ fresh' = fresh
      \/ /\ work[w].at >= fresh[h].epoch
         /\ fresh' = [fresh EXCEPT ![h] = [epoch |-> work[w].at, offline |-> FALSE]]
  BY <1>0, Instants DEF MarkFresh, FreshTx
<1>3. \A v \in Workers : /\ work'[v].at = work[v].at
                         /\ Forgetting(v)' => Forgetting(v) /\ work'[v].host = work[v].host
  BY <1>0 DEF MarkFresh, Advance, Forgetting, TypeOK, Request
<1> HIDE DEF h
<1>9. \A g \in Hosts : \/ fresh'[g] = fresh[g]
                       \/ fresh'[g].epoch = work[w].at /\ fresh'[g].offline = FALSE
  BY <1>0, <1>2 DEF TypeOK
<1>4. NotAhead'
  BY <1>0, <1>1, <1>9, <1>3, Instants DEF OutageInv, NotAhead
<1>5. RowsAreNewer'
  BY <1>1, <1>3 DEF OutageInv, RowsAreNewer
<1>6. AnnouncedIsMarked'
  <2> SUFFICES ASSUME NEW g \in Hosts, NEW t \in Times, offlines[g][t] >= 1
               PROVE  t + StaleAfter <= now /\ (row[g].seen = t => Marked(g, t)')
    BY <1>1 DEF AnnouncedIsMarked
  <2>1. t + StaleAfter <= now /\ t \in Nat \ {0} /\ (row[g].seen = t => Marked(g, t))
    BY <1>0, Instants DEF OutageInv, AnnouncedIsMarked
  <2>2. CASE fresh'[g] = fresh[g]
    BY <2>1, <2>2 DEF Marked
  <2>3. CASE fresh'[g] # fresh[g]
    <3>1. g = h /\ work[w].at >= fresh[h].epoch /\ fresh'[h].epoch = work[w].at
      BY <1>0, <1>2, <2>3 DEF TypeOK
    <3>2. t < work[w].at
      BY <1>0, <2>1, Instants
    <3> QED
      BY <2>1, <3>1, <3>2 DEF Marked
  <2> QED
    BY <2>2, <2>3
<1>7. OutagesAreTrue'
  BY <1>0, <1>1, <1>9 DEF OutageInv, OutagesAreTrue, OfflineOncePerReport, EpochFollowsRow,
                    Registered
<1> QED
  BY <1>4, <1>5, <1>6, <1>7

(* A removal in time forgets the marker of no outage that is still current.*)
LEMMA ForgetStep ==
    ASSUME OutageInv, NEW w \in Workers, Forget(w)
    PROVE  NotAhead' /\ RowsAreNewer' /\ AnnouncedIsMarked' /\ OutagesAreTrue'
<1> DEFINE h == work[w].host
<1>0. /\ TypeOK /\ h \in Hosts /\ work[w].at <= now /\ now <= work[w].at + OpTimeout
      /\ row[h].seen = 0 \/ row[h].seen >= work[w].at
  BY Instants DEF OutageInv, RosterInv, NotAhead, RowsAreNewer, Forgetting, Forget, Timely
<1>1. UNCHANGED <<now, row, offlines, sweep>>
  BY DEF Forget
<1>2. fresh' = [fresh EXCEPT ![h] = NoFreshness]
  BY DEF Forget
<1>3. \A v \in Workers : /\ work'[v].at = work[v].at
                         /\ Forgetting(v)' => Forgetting(v) /\ work'[v].host = work[v].host
  BY <1>0 DEF Forget, Advance, Forgetting, TypeOK, Request
<1> HIDE DEF h
<1>9. \A g \in Hosts : \/ fresh'[g] = fresh[g]
                       \/ fresh'[g].epoch = 0 /\ fresh'[g].offline = FALSE
  BY <1>0, <1>2 DEF TypeOK, NoFreshness
<1>4. NotAhead'
  BY <1>0, <1>1, <1>9, <1>3, Instants DEF OutageInv, NotAhead
<1>5. RowsAreNewer'
  BY <1>1, <1>3 DEF OutageInv, RowsAreNewer
<1>6. AnnouncedIsMarked'
  <2> SUFFICES ASSUME NEW g \in Hosts, NEW t \in Times, offlines[g][t] >= 1
               PROVE  t + StaleAfter <= now /\ (row[g].seen = t => Marked(g, t)')
    BY <1>1 DEF AnnouncedIsMarked
  <2>1. t + StaleAfter <= now /\ t \in Nat \ {0} /\ (row[g].seen = t => Marked(g, t))
    BY <1>0, Instants DEF OutageInv, AnnouncedIsMarked
  <2>2. CASE g # h
    BY <1>0, <1>2, <2>1, <2>2 DEF Marked, TypeOK
  <2>3. CASE g = h
    <3>1. t < work[w].at
      BY <1>0, <2>1, Instants
    <3>2. row[h].seen # t
      BY <1>0, <2>1, <3>1, Instants
    <3> QED
      BY <2>1, <2>3, <3>2
  <2> QED
    BY <2>2, <2>3
<1>7. OutagesAreTrue'
  BY <1>0, <1>1, <1>9 DEF OutageInv, OutagesAreTrue, OfflineOncePerReport, EpochFollowsRow,
                    Registered
<1> QED
  BY <1>4, <1>5, <1>6, <1>7

(* An outage is announced for a row that is still as silent as it was read.*)
LEMMA SweepStep ==
    ASSUME OutageInv, NEW x \in sweep, SweepHost(x)
    PROVE  NotAhead' /\ RowsAreNewer' /\ AnnouncedIsMarked' /\ OutagesAreTrue'
<1>0. /\ TypeOK /\ x.host \in Hosts /\ x.seen \in Times /\ x.seen \in Nat
      /\ x.seen + StaleAfter <= now
  BY Instants DEF OutageInv, RosterInv, NotAhead
<1>1. UNCHANGED <<now, row, work>> /\ sweep' = sweep \ {x}
  BY DEF SweepHost
<1>2. CASE IsCurrent(x) /\ ~Known(x)
  <2>1. /\ fresh' = [fresh EXCEPT ![x.host] = [epoch |-> x.seen, offline |-> TRUE]]
        /\ offlines' = [offlines EXCEPT ![x.host][x.seen] = @ + 1]
        /\ row[x.host].seen = x.seen
    BY <1>2 DEF SweepHost, IsCurrent
  <2>2. offlines[x.host][x.seen] = 0
    <3>1. offlines[x.host][x.seen] \in Nat
      BY <1>0 DEF TypeOK
    <3>2. ~Marked(x.host, x.seen)
      BY <1>2 DEF Marked, Known
    <3> QED
      BY <1>0, <2>1, <3>1, <3>2 DEF OutageInv, AnnouncedIsMarked
  <2>3. /\ \A g \in Hosts : g # x.host => /\ fresh'[g] = fresh[g]
                                          /\ offlines'[g] = offlines[g]
        /\ \A t \in Times : t # x.seen => offlines'[x.host][t] = offlines[x.host][t]
        /\ offlines'[x.host][x.seen] = 1
        /\ fresh'[x.host].epoch = x.seen /\ fresh'[x.host].offline = TRUE
    BY <1>0, <2>1, <2>2 DEF TypeOK
  <2>4. NotAhead'
    BY <1>0, <1>1, <2>1, <2>3, Instants DEF OutageInv, NotAhead
  <2>5. RowsAreNewer'
    BY <1>1 DEF OutageInv, RowsAreNewer, Forgetting
  <2>6. AnnouncedIsMarked'
    <3> SUFFICES ASSUME NEW g \in Hosts, NEW t \in Times, offlines'[g][t] >= 1
                 PROVE  t + StaleAfter <= now /\ (row[g].seen = t => Marked(g, t)')
      BY <1>1 DEF AnnouncedIsMarked
    <3>1. CASE g # x.host
      BY <2>3, <3>1 DEF OutageInv, AnnouncedIsMarked, Marked
    <3>2. CASE g = x.host /\ t = x.seen
      BY <1>0, <2>3, <3>2 DEF Marked
    <3>3. CASE g = x.host /\ t # x.seen
      BY <2>1, <2>3, <3>3 DEF OutageInv, AnnouncedIsMarked
    <3> QED
      BY <3>1, <3>2, <3>3
  <2>7. OfflineOncePerReport'
    <3> SUFFICES ASSUME NEW g \in Hosts, NEW t \in Times PROVE offlines'[g][t] <= 1
      BY DEF OfflineOncePerReport
    <3> QED
      BY <2>3 DEF OutageInv, OutagesAreTrue, OfflineOncePerReport
  <2>8. EpochFollowsRow'
    <3> SUFFICES ASSUME NEW g \in Hosts, Registered(g), row[g].seen # 0, fresh'[g].offline
                 PROVE  fresh'[g].epoch <= row[g].seen
      BY <1>1 DEF EpochFollowsRow, Registered
    <3> QED
      BY <1>0, <2>1, <2>3 DEF OutageInv, OutagesAreTrue, EpochFollowsRow
  <2> QED
    BY <2>4, <2>5, <2>6, <2>7, <2>8 DEF OutagesAreTrue
<1>3. CASE ~(IsCurrent(x) /\ ~Known(x))
  BY <1>1, <1>3, QuietStep, Instants, <1>0 DEF SweepHost, OutageInv, NotAhead, Forgetting
<1> QED
  BY <1>2, <1>3

LEMMA ReportOutage ==
    ASSUME OutageInv, NEW w \in Workers, Report(w)
    PROVE  NotAhead' /\ RowsAreNewer' /\ AnnouncedIsMarked' /\ OutagesAreTrue'
<1>0. TypeOK /\ now \in Nat /\ \A v \in Workers : work[v].at <= now /\ work[v].host \in Hosts
  BY Instants DEF OutageInv, RosterInv, NotAhead
<1>1. CASE MarkFresh(w)
  BY <1>1, FreshStep
<1>2. CASE StoreUpdate(w)
  <2>1. \A v \in Workers :
            /\ work'[v].at = work[v].at /\ work'[v].host = work[v].host
            /\ Forgetting(v)' => Forgetting(v)
    BY <1>2 DEF StoreUpdate, Advance, Forgetting, TypeOK, Request
  <2>2. \A g \in Hosts :
            /\ row'[g].seen = (IF g = work[w].host THEN now ELSE row[g].seen)
            /\ row'[g].reg = row[g].reg
    BY <1>0, <1>2 DEF StoreUpdate, SeenNow, TypeOK, Server
  <2> QED
    BY <1>0, <1>2, <2>1, <2>2, RowStep DEF StoreUpdate
<1>3. CASE ~MarkFresh(w) /\ ~StoreUpdate(w)
  <2>1. UNCHANGED <<now, row, fresh, offlines, sweep>>
    BY <1>3 DEF Report, GateUpdate, RefuseUpdate, StoreNothing, MarkFreshFails, LookupHit,
                LookupRow, LookupFails, KeepRegisteredAt, StoreCache, database
  <2>2. \A v \in Workers : v # w => work'[v] = work[v]
    BY <1>0, <1>3 DEF Report, GateUpdate, RefuseUpdate, StoreNothing, MarkFreshFails, LookupHit,
                LookupRow, LookupFails, KeepRegisteredAt, StoreCache, TypeOK, Advance, Done
  <2>3. ~Forgetting(w)' /\ work'[w].at <= now
    <3>1. CASE GateUpdate(w)
      BY <1>0, <3>1 DEF GateUpdate, Forgetting, TypeOK, Request
    <3>2. CASE RefuseUpdate(w) \/ StoreNothing(w) \/ LookupFails(w) \/ StoreCache(w)
      BY <1>0, <3>2 DEF RefuseUpdate, StoreNothing, LookupFails, StoreCache, Done, NoWork,
                        Forgetting, TypeOK
    <3>3. CASE MarkFreshFails(w) \/ KeepRegisteredAt(w)
      <4>1. \E stage \in {"fresh", "known"} : work' = [work EXCEPT ![w].stage = stage]
        BY <3>3 DEF MarkFreshFails, KeepRegisteredAt, Advance
      <4> QED
        BY <1>0, <4>1 DEF Forgetting, TypeOK, Request
    <3>4. CASE LookupHit(w) \/ LookupRow(w)
      BY <1>0, <3>4 DEF LookupHit, LookupRow, Forgetting, TypeOK, Request
    <3> QED
      BY <1>3, <3>1, <3>2, <3>3, <3>4 DEF Report
  <2>4. \A v \in Workers : work'[v].at <= now /\
            (Forgetting(v)' => Forgetting(v) /\ work'[v].host = work[v].host
                                             /\ work'[v].at = work[v].at)
    BY <1>0, <2>2, <2>3 DEF Forgetting
  <2> QED
    BY <2>1, <2>4, QuietStep
<1> QED
  BY <1>1, <1>2, <1>3

LEMMA RemovalOutage ==
    ASSUME OutageInv, NEW w \in Workers, Removal(w)
    PROVE  NotAhead' /\ RowsAreNewer' /\ AnnouncedIsMarked' /\ OutagesAreTrue'
<1>0. TypeOK /\ now \in Nat /\ \A v \in Workers : work[v].at <= now /\ work[v].host \in Hosts
  BY Instants DEF OutageInv, RosterInv, NotAhead
<1>1. CASE \E h \in Hosts : RemoveHost(w, h)
  <2> PICK h \in Hosts : RemoveHost(w, h)
    BY <1>1
  <2>1. \A v \in Workers : v # w => work'[v] = work[v]
    BY <1>0 DEF RemoveHost, TypeOK
  <2>2. work'[w].at = now /\ work'[w].host = h
    BY <1>0 DEF RemoveHost, TypeOK, Request
  <2>3. \A g \in Hosts : row'[g].seen = (IF g = h THEN 0 ELSE row[g].seen)
    BY <1>0 DEF RemoveHost, TypeOK, NoServer
  <2>4. \A g \in Hosts : g # h => row'[g].reg = row[g].reg
    BY <1>0 DEF RemoveHost, TypeOK
  <2>5. \A v \in Workers : /\ work'[v].at <= now /\ work'[v].host \in Hosts
                           /\ Forgetting(v)' =>
                                \/ Forgetting(v) /\ work'[v].host = work[v].host
                                                 /\ work'[v].at = work[v].at
                                \/ work'[v].host = h /\ 0 = 0
    BY <1>0, <2>1, <2>2 DEF Forgetting
  <2> QED
    BY <2>3, <2>4, <2>5, RowStep DEF RemoveHost
<1>2. CASE Forget(w)
  BY <1>2, ForgetStep
<1>3. CASE (\E h \in Hosts : SkipHost(w, h)) \/ EndRemoval(w) \/ ForgetFails(w) \/ Invalidate(w)
  <2>1. UNCHANGED <<now, row, fresh, offlines, sweep>>
    BY <1>3 DEF SkipHost, EndRemoval, ForgetFails, Invalidate, database
  <2>2. \A v \in Workers : v # w => work'[v] = work[v]
    BY <1>0, <1>3 DEF SkipHost, EndRemoval, ForgetFails, Invalidate, TypeOK, Advance, Done
  <2>3. /\ work'[w].at <= now
        /\ Forgetting(w)' => /\ Forgetting(w) /\ work'[w].host = work[w].host
                             /\ work'[w].at = work[w].at
    <3>1. CASE \E h \in Hosts : SkipHost(w, h)
      BY <1>0, <3>1 DEF SkipHost, Forgetting, TypeOK, Request
    <3>2. CASE EndRemoval(w)
      BY <1>0, <3>2 DEF EndRemoval, Done, NoWork, Forgetting, TypeOK
    <3>3. CASE ForgetFails(w) \/ Invalidate(w)
      <4>1. Forgetting(w)
        BY <3>3 DEF ForgetFails, Invalidate, Forgetting
      <4>2. \E stage : work' = [work EXCEPT ![w].stage = stage]
        BY <3>3 DEF ForgetFails, Invalidate, Advance
      <4> QED
        BY <1>0, <4>1, <4>2 DEF TypeOK, Request
    <3> QED
      BY <1>3, <3>1, <3>2, <3>3
  <2> QED
    BY <1>0, <2>1, <2>2, <2>3, QuietStep DEF Forgetting
<1> QED
  BY <1>1, <1>2, <1>3 DEF Removal

LEMMA OthersOutage ==
    ASSUME NoRename, OutageInv, Next,
           \A w \in Workers : ~Report(w) /\ ~Removal(w)
    PROVE  NotAhead' /\ RowsAreNewer' /\ AnnouncedIsMarked' /\ OutagesAreTrue'
<1>0. TypeOK /\ now \in Nat /\ \A v \in Workers : work[v].at <= now /\ work[v].host \in Hosts
  BY Instants DEF OutageInv, RosterInv, NotAhead
<1>1. ASSUME NEW h \in Hosts, Register(h)
      PROVE  NotAhead' /\ RowsAreNewer' /\ AnnouncedIsMarked' /\ OutagesAreTrue'
  <2>1. \A g \in Hosts : row'[g].seen = (IF g = h THEN 0 ELSE row[g].seen)
    BY <1>0, <1>1 DEF Register, RegisterTx, TypeOK
  <2>2. \A g \in Hosts : g # h => row'[g].reg = row[g].reg
    BY <1>0, <1>1 DEF Register, RegisterTx, TypeOK
  <2>3. work' = work /\ UNCHANGED <<now, fresh, offlines, sweep>>
    BY <1>1 DEF Register
  <2> QED
    BY <1>0, <2>1, <2>2, <2>3, RowStep DEF Forgetting
<1>2. ASSUME NEW w \in Workers, NEW h \in Hosts, Delete(w, h)
      PROVE  NotAhead' /\ RowsAreNewer' /\ AnnouncedIsMarked' /\ OutagesAreTrue'
  <2>1. \A v \in Workers : v # w => work'[v] = work[v]
    BY <1>0, <1>2 DEF Delete, TypeOK
  <2>2. work'[w].at = now /\ work'[w].host = h
    BY <1>0, <1>2 DEF Delete, NoWork, TypeOK
  <2>3. \A g \in Hosts : row'[g].seen = (IF g = h THEN 0 ELSE row[g].seen)
    BY <1>0, <1>2 DEF Delete, TypeOK, NoServer
  <2>4. \A g \in Hosts : g # h => row'[g].reg = row[g].reg
    BY <1>0, <1>2 DEF Delete, TypeOK
  <2>5. \A v \in Workers : /\ work'[v].at <= now /\ work'[v].host \in Hosts
                           /\ Forgetting(v)' =>
                                \/ Forgetting(v) /\ work'[v].host = work[v].host
                                                 /\ work'[v].at = work[v].at
                                \/ work'[v].host = h /\ 0 = 0
    BY <1>0, <2>1, <2>2 DEF Forgetting
  <2> QED
    BY <1>2, <2>3, <2>4, <2>5, RowStep DEF Delete
<1>3. ASSUME NEW w \in Workers,
             (\E h \in Hosts : BeginReport(w, h)) \/ (\E hs \in SUBSET Hosts : BeginRemoval(w, hs))
      PROVE  NotAhead' /\ RowsAreNewer' /\ AnnouncedIsMarked' /\ OutagesAreTrue'
  <2>1. UNCHANGED <<now, row, fresh, offlines, sweep>>
    BY <1>3 DEF BeginReport, BeginRemoval, database
  <2>2. \A v \in Workers : v # w => work'[v] = work[v]
    BY <1>0, <1>3 DEF BeginReport, BeginRemoval, TypeOK
  <2>3. work'[w].at = 0 /\ work'[w].stage \in {"gated", "next"}
    <3>1. CASE \E h \in Hosts : BeginReport(w, h)
      BY <1>0, <3>1 DEF BeginReport, TypeOK, NoWork
    <3>2. CASE \E hs \in SUBSET Hosts : BeginRemoval(w, hs)
      BY <1>0, <3>2 DEF BeginRemoval, TypeOK, NoWork
    <3> QED
      BY <1>3, <3>1, <3>2
  <2> QED
    BY <1>0, <2>1, <2>2, <2>3, QuietStep DEF Forgetting
<1>4. ASSUME NEW h \in Hosts, Restore(h)
      PROVE  NotAhead' /\ RowsAreNewer' /\ AnnouncedIsMarked' /\ OutagesAreTrue'
  BY <1>0, <1>4, QuietStep DEF Restore, Forgetting
<1>5. CASE SweepRead
  <2>1. UNCHANGED <<now, row, fresh, offlines, work>>
    BY <1>5 DEF SweepRead, database
  <2>2. \A x \in sweep' : x.seen + StaleAfter <= now
    <3> SUFFICES ASSUME NEW h \in Hosts, Stale(h) PROVE row[h].seen + StaleAfter <= now
      BY <1>5 DEF SweepRead
    <3> QED
      BY <1>0, Instants DEF Stale
  <2>3. NotAhead'
    BY <2>1, <2>2 DEF OutageInv, NotAhead
  <2>4. RowsAreNewer' /\ AnnouncedIsMarked' /\ OutagesAreTrue'
    BY <2>1 DEF OutageInv, AnnouncedIsMarked, OutagesAreTrue, OfflineOncePerReport,
                EpochFollowsRow, Marked, Registered, RowsAreNewer, Forgetting
  <2> QED
    BY <2>3, <2>4
<1>6. ASSUME NEW x \in sweep, SweepHost(x) \/ SweepFails(x)
      PROVE  NotAhead' /\ RowsAreNewer' /\ AnnouncedIsMarked' /\ OutagesAreTrue'
  <2>1. CASE SweepHost(x)
    BY <2>1, SweepStep
  <2>2. CASE SweepFails(x)
    BY <1>0, <2>2, QuietStep DEF SweepFails, database, Forgetting
  <2> QED
    BY <1>6, <2>1, <2>2
<1>7. CASE Restart
  <2>1. row' = row
    <3>1. legacy = {}
      BY DEF OutageInv, RosterInv, NoLegacy
    <3> QED
      BY <1>0, <1>7, <3>1 DEF Restart, Import, TypeOK
  <2>2. UNCHANGED <<now, fresh, offlines>> /\ sweep' = {}
    BY <1>7 DEF Restart
  <2>3. \A w \in Workers : work'[w].at = 0 /\ ~Forgetting(w)'
    BY <1>7 DEF Restart, NoWork, Forgetting
  <2> QED
    BY <1>0, <2>1, <2>2, <2>3, QuietStep
<1>8. CASE Tick
  <2>1. now' = now + 1 /\ UNCHANGED <<row, fresh, offlines, work, sweep>>
    BY <1>8 DEF Tick, database
  <2>2. NotAhead'
    BY <1>0, <2>1, Instants DEF OutageInv, NotAhead
  <2>3. AnnouncedIsMarked'
    <3>1. \A t \in Times : t \in Nat
      BY <1>0, Instants
    <3> QED
      BY <1>0, <2>1, <3>1, Instants DEF OutageInv, AnnouncedIsMarked, Marked
  <2>4. RowsAreNewer' /\ OutagesAreTrue'
    BY <2>1 DEF OutageInv, OutagesAreTrue, OfflineOncePerReport,
                EpochFollowsRow, Registered, RowsAreNewer, Forgetting
  <2> QED
    BY <2>2, <2>3, <2>4
<1> QED
  BY <1>1, <1>2, <1>3, <1>4, <1>5, <1>6, <1>7, <1>8 DEF Next

LEMMA OutageInit ==
    ASSUME Init
    PROVE  NotAhead /\ RowsAreNewer /\ AnnouncedIsMarked /\ OutagesAreTrue
<1>1. now = 1 /\ sweep = {} /\ fresh = [h \in Hosts |-> NoFreshness]
      /\ work = [w \in Workers |-> NoWork]
      /\ offlines = [h \in Hosts |-> [t \in Times |-> 0]]
  BY DEF Init
<1>2. \A h \in Hosts : row[h].seen \in {0, 1}
  BY DEF Init, NoServer
<1>3. NotAhead /\ RowsAreNewer
  BY <1>1, <1>2 DEF NotAhead, RowsAreNewer, NoFreshness, NoWork, Forgetting
<1>4. AnnouncedIsMarked /\ OutagesAreTrue
  BY <1>1 DEF AnnouncedIsMarked, OutagesAreTrue, OfflineOncePerReport, EpochFollowsRow,
              NoFreshness
<1> QED
  BY <1>3, <1>4

LEMMA OutageStep ==
    ASSUME NoRename, OutageInv, [Next]_vars
    PROVE  OutageInv'
<1>1. RosterInv'
  BY RosterStep DEF OutageInv
<1>2. CASE \E w \in Workers : Report(w)
  BY <1>1, <1>2, ReportOutage DEF OutageInv
<1>3. CASE \E w \in Workers : Removal(w)
  BY <1>1, <1>3, RemovalOutage DEF OutageInv
<1>4. CASE Next /\ \A w \in Workers : ~Report(w) /\ ~Removal(w)
  BY <1>1, <1>4, OthersOutage DEF OutageInv
<1>5. CASE UNCHANGED vars
  <2>1. UNCHANGED <<now, row, fresh, offlines, work, sweep>>
    BY <1>5 DEF vars, database
  <2>2. NotAhead' /\ RowsAreNewer' /\ AnnouncedIsMarked' /\ OutagesAreTrue'
    BY <2>1 DEF OutageInv, NotAhead, RowsAreNewer, Forgetting, AnnouncedIsMarked, Marked,
                OutagesAreTrue, OfflineOncePerReport, EpochFollowsRow, Registered
  <2> QED
    BY <1>1, <2>2 DEF OutageInv
<1> QED
  BY <1>2, <1>3, <1>4, <1>5

(* The outage of a report is made known once and undone by the report that *)
(* ends it, whatever removals, registrations and restarts overlap the      *)
(* sweep (FreshnessStore.transition, sweepStaleServers).                   *)
THEOREM OutagesAreToldOnce ==
    ASSUME NoRename
    PROVE  Spec => []OutagesAreTrue
<1>1. Init => OutageInv
  BY RosterInit, OutageInit DEF OutageInv, RosterInv
<1>2. OutageInv /\ [Next]_vars => OutageInv'
  BY OutageStep
<1>3. OutageInv => OutagesAreTrue
  BY DEF OutageInv
<1> QED
  BY <1>1, <1>2, <1>3, PTL DEF Spec
=============================================================================
