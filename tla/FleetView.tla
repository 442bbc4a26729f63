------------------------------ MODULE FleetView ------------------------------
(***************************************************************************)
(* What an operator reads of the fleet's sessions.  The list is made, page *)
(* by page and request by request, from three reads that no transaction    *)
(* ties together - the roster, the snapshots, the sessions that match a    *)
(* search - and sorted by a procedure that keeps no order of its own among *)
(* equals.  The detail of one host reads its two tables in a transaction.  *)
(* Hosts are numbered in the order of their names.                         *)
(*                                                                         *)
(* internal/telemetry/session_queries.go, internal/dashboard/              *)
(* handlers_sessions.go.                                                   *)
(***************************************************************************)
EXTENDS Integers, Sequences, FiniteSets

CONSTANTS
    Last,       \* the hosts are 1..Last
    Named,      \* hosts whose name contains the text searched for
    PageSize,
    MaxCount,   \* active sessions of a host
    MaxWrites   \* bound: changes of the roster and the snapshots

ASSUME FleetAssumption ==
    /\ Last \in Nat /\ PageSize \in Nat \ {0} /\ MaxCount \in Nat \ {0}
    /\ MaxWrites \in Nat

VARIABLES
    known,   \* the roster
    snaps,     \* session_snapshots and session_latest, for each host
    ask,     \* the query the operator's pages are of
    walk,    \* the pages read so far, and the request under way
    detail,  \* a request for the detail of a host, and its answer
    writes,
    quiet    \* history: nothing changed since the first page was asked for

fleetVars == <<known, snaps, ask, walk, detail, writes, quiet>>

FleetHosts == 1..Last
Row == [count : -1..MaxCount, match : BOOLEAN]
NoRow == [count |-> -1, match |-> FALSE]
Queries == [state : {"all", "active"}, search : BOOLEAN, desc : BOOLEAN]
NoDetail == [step |-> "none", host |-> 0, count |-> -1, snap |-> NoRow,
             total |-> -1]

FleetTypeOK ==
    /\ known \subseteq FleetHosts
    /\ snaps \in [FleetHosts -> Row]
    /\ ask \in Queries
    /\ walk \in [step : {"idle", "known", "search", "ready"},
                 hosts : SUBSET FleetHosts, rows : [FleetHosts -> Row],
                 matched : SUBSET FleetHosts, listed : Seq(FleetHosts),
                 page : 1..(Last + 1), over : BOOLEAN]
    /\ detail \in [step : {"none", "rows", "done"}, host : 0..Last,
                   count : -1..MaxCount, snap : Row, total : -1..MaxCount]
    /\ writes \in 0..MaxWrites /\ quiet \in BOOLEAN

NoWalk == [step |-> "idle", hosts |-> {}, rows |-> [h \in FleetHosts |-> NoRow],
           matched |-> {}, listed |-> <<>>, page |-> 1, over |-> FALSE]

FleetInit ==
    /\ known \in SUBSET FleetHosts
    /\ snaps \in [FleetHosts -> {NoRow, [count |-> 0, match |-> TRUE],
                          [count |-> 1, match |-> FALSE]}]
    /\ ask \in Queries /\ walk = NoWalk /\ detail = NoDetail
    /\ writes = 0 /\ quiet = TRUE

----------------------------------------------------------------------------
Write ==
    /\ writes < MaxWrites /\ writes' = writes + 1 /\ quiet' = FALSE
    /\ UNCHANGED <<ask, walk, detail>>

\* SessionSnapshotStore.Apply, one transaction over both tables.
Ingest(h) ==
    /\ Write /\ UNCHANGED known
    /\ \E new \in [count : 0..MaxCount, match : BOOLEAN] :
          snaps' = [snaps EXCEPT ![h] = new]

Purge ==
    /\ Write /\ UNCHANGED known
    /\ snaps' = [h \in FleetHosts |-> NoRow]

RosterGains(h) == Write /\ known' = known \union {h} /\ UNCHANGED snaps
RosterLoses(h) == Write /\ known' = known \ {h} /\ UNCHANGED snaps

----------------------------------------------------------------------------
\* handleSessionsFleet: the roster is read first. The answer to an empty one
\* is an empty page.
AskPage ==
    /\ walk.step = "idle" /\ ~walk.over
    /\ walk' = IF known = {}
               THEN [walk EXCEPT !.over = TRUE]
               ELSE [walk EXCEPT !.step = "known", !.hosts = known]
    /\ quiet' = (walk.page = 1 \/ quiet)
    /\ UNCHANGED <<known, snaps, ask, detail, writes>>

\* loadFleetSnapshots.
ReadSnapshots ==
    /\ walk.step = "known"
    /\ walk' = [walk EXCEPT !.rows = snaps,
                            !.step = IF ask.search THEN "search" ELSE "ready"]
    /\ UNCHANGED <<known, snaps, ask, detail, writes, quiet>>

\* loadFleetSessionMatches.
ReadMatches ==
    /\ walk.step = "search"
    /\ walk' = [walk EXCEPT !.matched = {h \in FleetHosts : snaps[h].match},
                            !.step = "ready"]
    /\ UNCHANGED <<known, snaps, ask, detail, writes, quiet>>

\* matchesFleet.
Matching(hosts, rows, matched) ==
    {h \in hosts :
        /\ ask.search => h \in Named \union matched
        /\ ask.state = "active" => rows[h].count > 0}

\* Mutant: hosts with equal values compare as equal.
Before_NoTieBreak(a, b, rows) ==
    IF ask.desc THEN rows[a].count > rows[b].count
                ELSE rows[a].count < rows[b].count

\* sortFleet: equal values are listed by host, whatever the direction.
Before(a, b, rows) ==
    IF rows[a].count = rows[b].count THEN a < b
    ELSE IF ask.desc THEN rows[a].count > rows[b].count
                     ELSE rows[a].count < rows[b].count

\* What sort.Slice may make of a map read in any order.
Listings(items, rows) ==
    {s \in [1..Cardinality(items) -> items] :
        /\ \A h \in items : \E i \in DOMAIN s : s[i] = h
        /\ \A i, j \in DOMAIN s : i < j => ~Before(s[j], s[i], rows)}

\* The slice of the sorted list that is the page asked for.
Slice(s, page) ==
    SubSeq(s, (page - 1) * PageSize + 1,
           IF page * PageSize < Len(s) THEN page * PageSize ELSE Len(s))

AnswerPage ==
    /\ walk.step = "ready"
    /\ LET items == Matching(walk.hosts, walk.rows, walk.matched)
       IN  \E s \in Listings(items, walk.rows) :
              walk' = [NoWalk EXCEPT
                  !.listed = walk.listed \o Slice(s, walk.page),
                  !.page = walk.page + 1,
                  !.over = walk.page * PageSize >= Len(s)]
    /\ UNCHANGED <<known, snaps, ask, detail, writes, quiet>>

----------------------------------------------------------------------------
\* Detail: the summary is the first read of its transaction. A host without
\* one is answered with an error.
OpenDetail(h) ==
    /\ detail.step = "none" /\ snaps[h] # NoRow
    /\ detail' = [step |-> "rows", host |-> h, count |-> snaps[h].count,
                  snap |-> snaps[h], total |-> -1]
    /\ UNCHANGED <<known, snaps, ask, walk, writes, quiet>>

\* A read transaction sees the database as its first read found it.
ReadIn(snapshot, current) == snapshot

ReadSessions ==
    /\ detail.step = "rows"
    /\ detail' = [detail EXCEPT !.step = "done",
          !.total = ReadIn(detail.snap, snaps[detail.host]).count]
    /\ UNCHANGED <<known, snaps, ask, walk, writes, quiet>>

FleetNext ==
    \/ \E h \in FleetHosts : Ingest(h) \/ RosterGains(h) \/ RosterLoses(h) \/ OpenDetail(h)
    \/ Purge
    \/ AskPage \/ ReadSnapshots \/ ReadMatches \/ AnswerPage
    \/ ReadSessions

FleetSpec == FleetInit /\ [][FleetNext]_fleetVars

----------------------------------------------------------------------------
\* The pages of a fleet that stands still show each host that matches once:
\* none twice because equals changed places between two requests, and none
\* that fell between two pages.
PagesPartition ==
    quiet =>
        /\ \A i, j \in DOMAIN walk.listed :
              walk.listed[i] = walk.listed[j] => i = j
        /\ walk.over =>
              {walk.listed[i] : i \in DOMAIN walk.listed} =
                  Matching(known, snaps, {h \in FleetHosts : snaps[h].match})

\* The sessions listed are the sessions counted, whatever arrives meanwhile.
DetailIsOneSnapshot ==
    detail.step = "done" => detail.total = detail.count

\* No answer mixes two states of the database that an operator could tell
\* apart (session_queries.go, ListHosts and Detail).
FleetReadsTrue == PagesPartition /\ DetailIsOneSnapshot
=============================================================================
