------------------------------- MODULE SignIn -------------------------------
(***************************************************************************)
(* Authentication of the dashboard's callers.  A Negotiate handshake takes *)
(* one request or two: between the legs its security context, a kernel     *)
(* handle, waits in a map keyed by the connection, where a second request  *)
(* of the connection, the reaper and the shutdown compete for it.  A human *)
(* gets a session, which ends by logout, idleness or age.                  *)
(*                                                                         *)
(* internal/dashboard/sspi.go, session.go, login_handler.go, auth_prod.go  *)
(* and server.go.                                                          *)
(***************************************************************************)
EXTENDS Naturals, FiniteSets

CONSTANTS
    Conns,      \* connections; requests of one may overlap (HTTP/2)
    Requests,   \* requests in progress at once
    Contexts,   \* bound: security contexts ever made
    Tokens,     \* bound: sessions ever made
    IdleLimit,  \* eight hours
    AgeLimit,   \* twenty-four hours
    MaxHour     \* bound: the clock

ASSUME SignInAssumption ==
    /\ IsFiniteSet(Conns) /\ IsFiniteSet(Contexts) /\ "none" \notin Contexts
    /\ MaxHour \in Nat \ {0} /\ IdleLimit \in Nat /\ AgeLimit \in Nat

VARIABLES
    context,    \* context -> where its handle is
    releases,   \* history: how often a handle was released
    waiting,    \* the pending map: connection -> context
    request,    \* request -> its connection and the context it holds
    reaper,     \* what the range over the map has yielded: {} or {<<c, x>>}
    live,       \* sspimetrics.Live
    parked,     \* sspimetrics.Pending
    credential, \* sharedServerCred: "none" or "held"
    stopping,   \* the middleware's context is cancelled
    session,    \* token -> its session; made = 0 before it exists
    hour,
    refused     \* history: tokens of sessions that were refused

handles == <<context, releases, waiting, request, reaper, live, parked,
             credential, stopping>>
accounts == <<session, hour, refused>>
signVars == <<handles, accounts>>

Nothing == "none"
NoRequest == [conn |-> Nothing, holds |-> Nothing, leg |-> 0]
NoSession == [made |-> 0, seen |-> 0, valid |-> FALSE]

SignInTypeOK ==
    /\ context \in [Contexts -> {"unused", "request", "waiting", "released"}]
    /\ releases \in [Contexts -> Nat]
    /\ waiting \in [Conns -> Contexts \union {Nothing}]
    /\ \A r \in Requests :
          /\ request[r].conn \in Conns \union {Nothing}
          /\ request[r].holds \in Contexts \union {Nothing}
          /\ request[r].leg \in 0..2
    /\ reaper \subseteq Conns \X Contexts
    /\ live \in Nat /\ parked \in Nat
    /\ credential \in {"none", "held"} /\ stopping \in BOOLEAN
    /\ session \in [Tokens -> [made : 0..MaxHour, seen : 0..MaxHour,
                               valid : BOOLEAN]]
    /\ hour \in 1..MaxHour /\ refused \subseteq Tokens

SignInInit ==
    /\ context = [x \in Contexts |-> "unused"]
    /\ releases = [x \in Contexts |-> 0]
    /\ waiting = [c \in Conns |-> Nothing]
    /\ request = [r \in Requests |-> NoRequest]
    /\ reaper = {} /\ live = 0 /\ parked = 0
    /\ credential = "none" /\ stopping = FALSE
    /\ session = [k \in Tokens |-> NoSession]
    /\ hour = 1 /\ refused = {}

(******************************** Handshakes *******************************)

Free(r) == request[r] = NoRequest
Holding(r) == request[r].holds # Nothing
Answered(r) == request' = [request EXCEPT ![r] = NoRequest]

\* releasePendingContext, and the deferred release of a finished handshake.
Release(x) ==
    /\ context' = [context EXCEPT ![x] = "released"]
    /\ releases' = [releases EXCEPT ![x] = @ + 1]
    /\ live' = live - 1

\* pending.LoadAndDelete found a context: this request is its second leg.
TakeWaiting(r, c) ==
    /\ Free(r) /\ waiting[c] # Nothing
    /\ waiting' = [waiting EXCEPT ![c] = Nothing]
    /\ parked' = parked - 1
    /\ context' = [context EXCEPT ![waiting[c]] = "request"]
    /\ request' = [request EXCEPT ![r] =
                      [conn |-> c, holds |-> waiting[c], leg |-> 2]]
    /\ UNCHANGED <<releases, reaper, live, credential, stopping, accounts>>

\* It found none: a first leg.
MissWaiting(r, c) ==
    /\ Free(r) /\ waiting[c] = Nothing
    /\ request' = [request EXCEPT ![r] =
                      [conn |-> c, holds |-> Nothing, leg |-> 1]]
    /\ UNCHANGED <<context, releases, waiting, reaper, live, parked, credential,
                   stopping, accounts>>

\* The shared credential is acquired once, and a context made from it.
FirstLeg(r, x) ==
    /\ request[r].leg = 1 /\ ~Holding(r) /\ context[x] = "unused"
    /\ credential' = "held"
    /\ context' = [context EXCEPT ![x] = "request"]
    /\ live' = live + 1
    /\ request' = [request EXCEPT ![r].holds = x]
    /\ UNCHANGED <<releases, waiting, reaper, parked, stopping, accounts>>

\* No credential, or a token that does not start a handshake.
FirstLegFails(r) ==
    /\ request[r].leg = 1 /\ ~Holding(r)
    /\ credential' \in {credential, "held"}
    /\ Answered(r)
    /\ UNCHANGED <<context, releases, waiting, reaper, live, parked, stopping,
                   accounts>>

\* Mutant: pending.Store in place of Swap, so a displaced context is lost.
Displaced_Ignored(c) == Nothing

\* What pending.Swap returns.
Displaced(c) == waiting[c]

\* The handshake needs another leg: a context that waited for the same
\* connection is displaced and released.
Park(r) ==
    /\ Holding(r)
    /\ LET c == request[r].conn  x == request[r].holds  y == Displaced(c) IN
          /\ waiting' = [waiting EXCEPT ![c] = x]
          /\ IF y = Nothing
             THEN /\ context' = [context EXCEPT ![x] = "waiting"]
                  /\ parked' = parked + 1
                  /\ UNCHANGED <<live, releases>>
             ELSE /\ context' = [context EXCEPT ![x] = "waiting",
                                                ![y] = "released"]
                  /\ releases' = [releases EXCEPT ![y] = @ + 1]
                  /\ live' = live - 1
                  /\ UNCHANGED parked
    /\ Answered(r)
    /\ UNCHANGED <<reaper, credential, stopping, accounts>>

\* The handshake is complete and the request served, or its second leg failed.
Finish(r) ==
    /\ Holding(r)
    /\ Release(request[r].holds)
    /\ Answered(r)
    /\ UNCHANGED <<waiting, reaper, parked, credential, stopping, accounts>>

(************************** Reaper and shutdown ****************************)

\* Range yields an entry that is old enough, or any at shutdown.
ReaperSees(c) ==
    /\ reaper = {} /\ waiting[c] # Nothing
    /\ reaper' = {<<c, waiting[c]>>}
    /\ UNCHANGED <<context, releases, waiting, request, live, parked, credential,
                   stopping, accounts>>

\* pending.CompareAndDelete.
StillThere(c, x) == waiting[c] = x

ReaperTakes(c, x) ==
    /\ <<c, x>> \in reaper
    /\ reaper' = {}
    /\ IF StillThere(c, x)
       THEN /\ waiting' = [waiting EXCEPT ![c] = Nothing]
            /\ parked' = parked - 1
            /\ Release(x)
       ELSE UNCHANGED <<waiting, parked, context, releases, live>>
    /\ UNCHANGED <<request, credential, stopping, accounts>>

\* The range is over and the shared credential released; requests go on.
Stop ==
    /\ ~stopping /\ reaper = {}
    /\ stopping' = TRUE /\ credential' = "none"
    /\ UNCHANGED <<context, releases, waiting, request, reaper, live, parked,
                   accounts>>

(********************************* Sessions ********************************)

\* handleLogin or handleNegotiate, for a member of the group: SessionStore.create.
CreateSession(k) ==
    /\ session[k].made = 0
    /\ session' = [session EXCEPT ![k] =
                      [made |-> hour, seen |-> hour, valid |-> TRUE]]
    /\ UNCHANGED <<handles, hour, refused>>

Expired(k) ==
    \/ hour - session[k].seen > IdleLimit
    \/ hour - session[k].made > AgeLimit

\* SessionStore.Get, for requireSession, requireAdmin, the probe of a page and
\* the check of an open event stream: it refreshes, or deletes and refuses.
UseSession(k) ==
    /\ session[k].made # 0
    /\ IF session[k].valid /\ ~Expired(k)
       THEN /\ session' = [session EXCEPT ![k].seen = hour]
            /\ UNCHANGED refused
       ELSE /\ session' = [session EXCEPT ![k].valid = FALSE]
            /\ refused' = refused \union {k}
    /\ UNCHANGED <<handles, hour>>

\* handleLogout.
Logout(k) ==
    /\ session[k].valid
    /\ session' = [session EXCEPT ![k].valid = FALSE]
    /\ UNCHANGED <<handles, hour, refused>>

\* SessionStore.reap, every fifteen minutes.
ReapSessions ==
    /\ \E k \in Tokens : session[k].valid /\ Expired(k)
    /\ session' = [k \in Tokens |->
                      IF Expired(k) THEN [session[k] EXCEPT !.valid = FALSE]
                      ELSE session[k]]
    /\ UNCHANGED <<handles, hour, refused>>

HourPasses ==
    /\ hour < MaxHour /\ hour' = hour + 1
    /\ UNCHANGED <<handles, session, refused>>

SignInNext ==
    \/ \E r \in Requests :
          \/ \E c \in Conns : TakeWaiting(r, c) \/ MissWaiting(r, c)
          \/ \E x \in Contexts : FirstLeg(r, x)
          \/ FirstLegFails(r) \/ Park(r) \/ Finish(r)
    \/ \E c \in Conns : ReaperSees(c) \/ \E x \in Contexts : ReaperTakes(c, x)
    \/ Stop
    \/ \E k \in Tokens : CreateSession(k) \/ UseSession(k) \/ Logout(k)
    \/ ReapSessions \/ HourPasses

SignInSpec == SignInInit /\ [][SignInNext]_signVars

(******************************** Properties *******************************)

\* A security context has one owner from its creation to its release: the
\* request that holds it or the map, never both and never neither.
ContextHasOneOwner ==
    \A x \in Contexts : LET owners ==
          {<<"request", r>> : r \in {q \in Requests : request[q].holds = x}} \union
          {<<"waiting", c>> : c \in {d \in Conns : waiting[d] = x}}
       IN  Cardinality(owners) =
              IF context[x] \in {"request", "waiting"} THEN 1 ELSE 0

\* No handle is released twice, and the gauges count what is really held.
HandlesCounted ==
    /\ \A x \in Contexts : releases[x] <= 1
    /\ live = Cardinality({x \in Contexts : context[x] \in {"request", "waiting"}})
    /\ parked = Cardinality({c \in Conns : waiting[c] # Nothing})

\* No use keeps a session beyond its age, the check of an open stream included,
\* and one that was refused stays refused.
SessionsEnd ==
    \A k \in Tokens :
        /\ session[k].seen - session[k].made <= AgeLimit
        /\ k \in refused => ~session[k].valid

\* Security contexts of abandoned handshakes neither leak nor are freed under
\* the request that uses them (sspi.go's LoadAndDelete, reaper and gauges).
HandshakesAccounted == ContextHasOneOwner /\ HandlesCounted
=============================================================================
