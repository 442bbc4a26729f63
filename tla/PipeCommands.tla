---------------------------- MODULE PipeCommands ----------------------------
(***************************************************************************)
(* The service's named pipe.  The accept loop keeps one free pipe instance *)
(* at a time and hands each connection to a goroutine of its own; what     *)
(* such a goroutine does outlives the client that asked for it, since the  *)
(* deadlines of the two sides run separately.  Registrations go through    *)
(* one worker.  A command that cannot reach the pipe may call the          *)
(* dashboard itself.  Each caller issues one command; deadlines may pass   *)
(* at any point of what they limit.                                        *)
(*                                                                         *)
(* internal/pipe/pipe.go, conn_windows.go, subsystem_windows.go and        *)
(* sid_windows.go, internal/svc/piperpc.go and                             *)
(* registration_subsystem_windows.go, cmd/drainctl/register_cmd.go.        *)
(***************************************************************************)
EXTENDS Naturals, FiniteSets

CONSTANTS
    Callers,    \* commands of drainctl, one each
    Endpoints,  \* dashboards to register with, brokers to set up
    NoTarget,
    MaxStarts   \* bound: starts of the service

ASSUME PipeAssumption == MaxStarts \in Nat /\ "nobody" \notin Callers

VARIABLES
    process,    \* "up", "stopping", "released" (the pipe has stopped), "off"
    starts,
    accept,     \* ServePipe: "top", "listening" or "exited"
    waiting,    \* the caller on the listening instance; NoCaller
    caller,     \* the command's side of its connection, and whether its token
                \* is an administrator's
    conn,       \* handlePipeConn for each caller's connection
    worker,     \* the registration under way: a caller or NoCaller
    reply,      \* the reply channels
    attempted,  \* history: registrations made, and by whom
    brokerProbed, \* history: brokers whose probe succeeded
    broker      \* rd_connection_broker in config.json

pipeVars == <<process, starts, accept, waiting, caller, conn, worker, reply,
              attempted, brokerProbed, broker>>

NoCaller == "nobody"
Commands == {"status", "remove-server", "register", "broker-setup"}
Answers == [ok : BOOLEAN, of : Endpoints \union {NoTarget}]
Failed == [ok |-> FALSE, of |-> NoTarget]
Answer(t) == [ok |-> TRUE, of |-> t]
NoReply == [ok |-> FALSE, of |-> "empty"]

PipeTypeOK ==
    /\ process \in {"up", "stopping", "released", "off"}
    /\ starts \in 0..MaxStarts
    /\ accept \in {"top", "listening", "exited"}
    /\ waiting \in Callers \union {NoCaller}
    /\ caller \in [Callers ->
          [phase : {"idle", "connected", "direct", "done"},
           cmd : Commands, want : Endpoints, told : Answers,
           admin : BOOLEAN]]
    /\ conn \in [Callers -> [at : {"none", "accepted", "submitting",
                                   "awaiting", "probing", "persisting",
                                   "answering"},
                             answer : Answers]]
    /\ worker \in Callers \union {NoCaller}
    /\ reply \in [Callers -> Answers \union {NoReply}]
    /\ attempted \subseteq (Callers \X {"service", "caller"} \X Endpoints)
    /\ brokerProbed \subseteq Endpoints
    /\ broker \in Endpoints \union {NoTarget}

NoConn == [at |-> "none", answer |-> Failed]

PipeInit ==
    /\ process = "off" /\ starts = 0 /\ accept = "exited"
    /\ waiting = NoCaller
    /\ caller \in [Callers -> [phase : {"idle"}, cmd : Commands,
                               want : Endpoints, told : {Failed},
                               admin : BOOLEAN]]
    /\ conn = [c \in Callers |-> NoConn]
    /\ worker = NoCaller /\ reply = [c \in Callers |-> NoReply]
    /\ attempted = {} /\ brokerProbed = {} /\ broker = NoTarget

----------------------------------------------------------------------------
\* Execute starts the registration worker and the pipe.
StartService ==
    /\ process = "off" /\ starts < MaxStarts
    /\ process' = "up" /\ starts' = starts + 1 /\ accept' = "top"
    /\ UNCHANGED <<waiting, caller, conn, worker, reply, attempted, brokerProbed,
                   broker>>

\* SCM stop: the context of the pipe and of the registrations is cancelled.
StopService ==
    /\ process = "up" /\ process' = "stopping"
    /\ UNCHANGED <<starts, accept, waiting, caller, conn, worker, reply,
                   attempted, brokerProbed, broker>>

\* Subsystem.Stop returns once the accept loop has; the worker's Stop waits
\* for the registration under way, whose context is cancelled.
PipeStopped ==
    /\ process = "stopping" /\ accept = "exited" /\ worker = NoCaller
    /\ process' = "released"
    /\ UNCHANGED <<starts, accept, waiting, caller, conn, worker, reply,
                   attempted, brokerProbed, broker>>

\* The process ends and every goroutine and connection with it.
ProcessEnds ==
    /\ process = "released" /\ process' = "off"
    /\ conn' = [c \in Callers |-> NoConn]
    /\ reply' = [c \in Callers |-> NoReply]
    /\ UNCHANGED <<starts, accept, waiting, caller, worker, attempted,
                   brokerProbed, broker>>

----------------------------------------------------------------------------
\* acceptPipeConn creates an instance; ServePipe's loop has seen no
\* cancellation. A failure is retried a second later, which changes nothing.
CreateInstance ==
    /\ accept = "top" /\ process = "up"
    /\ accept' = "listening" /\ waiting' = NoCaller
    /\ UNCHANGED <<process, starts, caller, conn, worker, reply, attempted,
                   brokerProbed, broker>>

LoopEnds ==
    /\ accept = "top" /\ process = "stopping" /\ accept' = "exited"
    /\ UNCHANGED <<process, starts, waiting, caller, conn, worker, reply,
                   attempted, brokerProbed, broker>>

\* The wait for a client was cancelled: the instance is closed, also under a
\* client that has just opened it.
CancelAccept ==
    /\ accept = "listening" /\ process = "stopping"
    /\ accept' = "exited" /\ waiting' = NoCaller
    /\ UNCHANGED <<process, starts, caller, conn, worker, reply, attempted,
                   brokerProbed, broker>>

Accept ==
    /\ accept = "listening" /\ waiting # NoCaller
    /\ accept' = "top" /\ waiting' = NoCaller
    /\ conn' = [conn EXCEPT ![waiting].at = "accepted"]
    /\ UNCHANGED <<process, starts, caller, worker, reply, attempted, brokerProbed,
                   broker>>

----------------------------------------------------------------------------
\* Mutant: any failure of the pipe command leads to the direct call.
FallsBack_Always(why) == TRUE

\* registerThroughServiceOrDirect: errors.Is(err, ErrPipeUnavailable).
FallsBack(why) == why = "unavailable"

CallerFails(c, why) ==
    caller' = [caller EXCEPT ![c].phase =
        IF @ # "direct" /\ caller[c].cmd = "register" /\ FallsBack(why)
        THEN "direct" ELSE "done"]

\* dialPipe: there may be no instance, or the only one is taken.
Dial(c) ==
    /\ caller[c].phase = "idle"
    /\ IF accept = "listening" /\ waiting = NoCaller
       THEN /\ waiting' = c
            /\ caller' = [caller EXCEPT ![c].phase = "connected"]
       ELSE CallerFails(c, "unavailable") /\ UNCHANGED waiting
    /\ UNCHANGED <<process, starts, accept, conn, worker, reply, attempted,
                   brokerProbed, broker>>

\* The caller's deadline passes, or the service closes its end.
Disconnected(c) ==
    /\ caller[c].phase = "connected"
    /\ CallerFails(c, "broken")
    /\ UNCHANGED <<process, starts, accept, waiting, conn, worker, reply,
                   attempted, brokerProbed, broker>>

\* dashboard.Register in the command's own process; it may fail after the
\* dashboard has registered the host.
CallDirectly(c) ==
    /\ caller[c].phase = "direct"
    /\ attempted' = attempted \union {<<c, "caller", caller[c].want>>}
    /\ caller' \in {[caller EXCEPT ![c].phase = "done", ![c].told = a] :
                       a \in {Failed, Answer(caller[c].want)}}
    /\ UNCHANGED <<process, starts, accept, waiting, conn, worker, reply,
                   brokerProbed, broker>>

----------------------------------------------------------------------------
Alive == process # "off"

Privileged(cmd) == cmd \in {"register", "remove-server", "broker-setup"}

Step(c, to) == conn' = [conn EXCEPT ![c].at = to]
Finish(c, a) == conn' = [conn EXCEPT ![c] = [at |-> "answering", answer |-> a]]

\* handlePipeConn reads the request and checks the caller's token. Reads and
\* the removal of a server are answered at once.
HandleRequest(c) ==
    LET cmd == caller[c].cmd
        refused == Privileged(cmd) /\ ~caller[c].admin
    IN  /\ Alive /\ conn[c].at = "accepted"
        /\ \/ refused /\ Finish(c, Failed)
           \/ ~refused /\ cmd = "register" /\ Step(c, "submitting")
           \/ ~refused /\ cmd = "broker-setup" /\ Step(c, "probing")
           \/ /\ ~refused /\ cmd \in {"status", "remove-server"}
              /\ \E a \in {Failed, Answer(caller[c].want)} : Finish(c, a)
        /\ UNCHANGED <<process, starts, accept, waiting, caller, worker,
                       reply, attempted, brokerProbed, broker>>

\* The request does not arrive whole before the deadline of the connection.
ReadFails(c) ==
    /\ Alive /\ conn[c].at = "accepted" /\ Step(c, "none")
    /\ UNCHANGED <<process, starts, accept, waiting, caller, worker, reply,
                   attempted, brokerProbed, broker>>

\* registrationSubsystem.Register: the request is taken by an idle worker.
Submit(c) ==
    /\ Alive /\ conn[c].at = "submitting" /\ worker = NoCaller
    /\ process = "up"
    /\ worker' = c /\ Step(c, "awaiting")
    /\ UNCHANGED <<process, starts, accept, waiting, caller, reply,
                   attempted, brokerProbed, broker>>

\* Every request brings a channel of its own.
ReplyTo(c) == c

\* handle: the dashboard may have registered the host although the call
\* failed or was cancelled; a full channel drops the response.
WorkerReplies ==
    /\ Alive /\ worker # NoCaller
    /\ attempted' \in {attempted,
                       attempted \union {<<worker, "service", caller[worker].want>>}}
    /\ \E a \in {Failed, Answer(caller[worker].want)} :
          /\ a.ok => <<worker, "service", caller[worker].want>> \in attempted'
          /\ reply' = [reply EXCEPT ![ReplyTo(worker)] =
                          IF @ = NoReply THEN a ELSE @]
    /\ worker' = NoCaller
    /\ UNCHANGED <<process, starts, accept, waiting, caller, conn, brokerProbed,
                   broker>>

TakeReply(c) ==
    /\ Alive /\ conn[c].at = "awaiting" /\ reply[ReplyTo(c)] # NoReply
    /\ Finish(c, reply[ReplyTo(c)])
    /\ reply' = [reply EXCEPT ![ReplyTo(c)] = NoReply]
    /\ UNCHANGED <<process, starts, accept, waiting, caller, worker,
                   attempted, brokerProbed, broker>>

\* The request's own deadline, or the service's context.
GiveUp(c) ==
    /\ Alive /\ conn[c].at \in {"submitting", "awaiting"}
    /\ Finish(c, Failed)
    /\ UNCHANGED <<process, starts, accept, waiting, caller, worker, reply,
                   attempted, brokerProbed, broker>>

----------------------------------------------------------------------------

\* HandleBrokerSetup: only a successful probe goes on to the file. No stop of
\* the service cancels it.
AfterProbe(ok) == IF ok THEN "persisting" ELSE "answering"

Probe(c, ok) ==
    /\ Alive /\ conn[c].at = "probing"
    /\ brokerProbed' = IF ok THEN brokerProbed \union {caller[c].want} ELSE brokerProbed
    /\ Step(c, AfterProbe(ok))
    /\ UNCHANGED <<process, starts, accept, waiting, caller, worker, reply,
                   attempted, broker>>

Persist(c) ==
    /\ Alive /\ conn[c].at = "persisting"
    /\ broker' = caller[c].want /\ Finish(c, Answer(caller[c].want))
    /\ UNCHANGED <<process, starts, accept, waiting, caller, worker, reply,
                   attempted, brokerProbed>>

PersistFails(c) ==
    /\ Alive /\ conn[c].at = "persisting" /\ Finish(c, Failed)
    /\ UNCHANGED <<process, starts, accept, waiting, caller, worker, reply,
                   attempted, brokerProbed, broker>>

\* The response reaches a caller that is still connected.
Respond(c) ==
    /\ Alive /\ conn[c].at = "answering"
    /\ conn' = [conn EXCEPT ![c] = NoConn]
    /\ IF caller[c].phase = "connected"
       THEN caller' = [caller EXCEPT ![c].phase = "done",
                                     ![c].told = conn[c].answer]
       ELSE UNCHANGED caller
    /\ UNCHANGED <<process, starts, accept, waiting, worker, reply,
                   attempted, brokerProbed, broker>>

\* What a goroutine of the service does for the command of caller c.
Handle(c) ==
    \/ HandleRequest(c) \/ ReadFails(c) \/ Submit(c) \/ TakeReply(c) \/ GiveUp(c)
    \/ \E ok \in BOOLEAN : Probe(c, ok)
    \/ Persist(c) \/ PersistFails(c) \/ Respond(c)

PipeNext ==
    \/ StartService \/ StopService \/ PipeStopped \/ ProcessEnds
    \/ CreateInstance \/ LoopEnds \/ CancelAccept \/ Accept
    \/ WorkerReplies
    \/ \E c \in Callers :
          Dial(c) \/ Disconnected(c) \/ CallDirectly(c) \/ Handle(c)

PipeSpec == PipeInit /\ [][PipeNext]_pipeVars

----------------------------------------------------------------------------
\* A command that says it registered the host, or set up the broker, reports
\* its own request: not the late answer to another one.
AnswerIsOwn ==
    \A c \in Callers :
        LET k == caller[c]
        IN  k.phase = "done" /\ k.told.ok =>
                /\ k.told.of = k.want
                /\ k.cmd = "register" =>
                      \E by \in {"service", "caller"} :
                          <<c, by, k.want>> \in attempted
                /\ k.cmd = "broker-setup" => k.want \in brokerProbed

\* The identity the service used is not swapped for the caller's: no command
\* makes the call that the service has made for it, whatever became of it.
NoSecondAttempt ==
    \A c \in Callers :
        <<c, "caller", caller[c].want>> \in attempted =>
            <<c, "service", caller[c].want>> \notin attempted

\* A failed probe never changes the configured broker, nor does a caller that
\* was refused.
BrokerWasProbed ==
    broker # NoTarget =>
        broker \in brokerProbed /\ \E c \in Callers : caller[c].admin /\ caller[c].want = broker

\* A caller is told of its own command, made once and under one identity, and
\* the broker is one that answered (piperpc.go, register_cmd.go).
CommandsAreTrue == AnswerIsOwn /\ NoSecondAttempt /\ BrokerWasProbed
=============================================================================
