----------------------------- MODULE AgentProofs -----------------------------
(***************************************************************************)
(* Proofs about six parts of the service that share no state: the named    *)
(* pipe, the service loop, the drain watch, the performance samples with   *)
(* the messages about them, the event-spike detector, and a setting on its *)
(* way to the agent.  Each part has a strengthened invariant (PipeInv,     *)
(* LoopInv, DrainInv, PerfInv, SpikeInv, CarriedAlong), one lemma per      *)
(* group of its actions, and its theorems after them.                      *)
(***************************************************************************)
EXTENDS PipeCommands, ServiceLoop, DrainWatch, PerfAlerts, SpikeDetector,
        SettingsBounds, SequenceTheorems, FiniteSetTheorems, TLAPS

(***************************************************************************)
(* The named pipe, for any number of callers and starts of the service.    *)
(***************************************************************************)

(* The service has nothing to do with the command of c.                    *)
Untouched(c) ==
    /\ conn[c].at = "none" /\ waiting # c /\ worker # c
    /\ \A t \in Endpoints : <<c, "service", t>> \notin attempted

(* c has called the dashboard itself.                                      *)
CalledDirectly(c) == \E t \in Endpoints : <<c, "caller", t>> \in attempted

(* What an answer to the command of c may claim.                           *)
TrueOf(c, a) ==
    a.ok =>
        /\ a.of = caller[c].want
        /\ caller[c].cmd = "register" =>
              \E by \in {"service", "caller"} :
                  <<c, by, caller[c].want>> \in attempted
        /\ caller[c].cmd = "broker-setup" => caller[c].want \in brokerProbed

(* A reply in the channel of c is about the registration of c.             *)
RepliesAreTrue ==
    \A c \in Callers :
        reply[c].ok => /\ reply[c].of = caller[c].want
                       /\ <<c, "service", caller[c].want>> \in attempted

(* Where a connection is tells what was asked and by whom.                 *)
StagesFit ==
    \A c \in Callers :
        /\ conn[c].at \in {"submitting", "awaiting"} => caller[c].cmd = "register"
        /\ conn[c].at \in {"probing", "persisting"} =>
              caller[c].cmd = "broker-setup" /\ caller[c].admin
        /\ conn[c].at = "persisting" => caller[c].want \in brokerProbed
        /\ caller[c].phase = "direct" => caller[c].cmd = "register"

(* Before it is connected, and on its way round the service, a command is  *)
(* unknown to the service, and remains so.                                 *)
OneIdentity ==
    \A c \in Callers :
        /\ caller[c].phase \in {"idle", "direct"} =>
              Untouched(c) /\ ~CalledDirectly(c)
        /\ CalledDirectly(c) => Untouched(c)

PipeInv ==
    /\ PipeTypeOK /\ RepliesAreTrue /\ StagesFit /\ OneIdentity
    /\ \A c \in Callers : TrueOf(c, conn[c].answer) /\ TrueOf(c, caller[c].told)
    /\ BrokerWasProbed

LEMMA PipeStarts == PipeInit => PipeInv
<1> SUFFICES ASSUME PipeInit PROVE PipeInv
  OBVIOUS
<1>1. Failed \in Answers /\ ~Failed.ok /\ ~NoReply.ok
  BY DEF Failed, Answers, NoReply
<1>2. \A c \in Callers : /\ caller[c].phase = "idle" /\ caller[c].cmd \in Commands
                        /\ caller[c].want \in Endpoints /\ caller[c].told = Failed
                        /\ caller[c].admin \in BOOLEAN
                        /\ conn[c] = NoConn /\ reply[c] = NoReply
  BY DEF PipeInit
<1>3. PipeTypeOK
  <2>1. caller \in [Callers ->
          [phase : {"idle", "connected", "direct", "done"},
           cmd : Commands, want : Endpoints, told : Answers, admin : BOOLEAN]]
    BY <1>1 DEF PipeInit
  <2>2. conn \in [Callers -> [at : {"none", "accepted", "submitting", "awaiting",
                                   "probing", "persisting", "answering"},
                             answer : Answers]]
    BY <1>1 DEF PipeInit, NoConn
  <2> QED
    BY <2>1, <2>2, PipeAssumption DEF PipeInit, PipeTypeOK, PipeAssumption
<1>4. OneIdentity /\ StagesFit
  BY <1>2, PipeAssumption
     DEF PipeInit, OneIdentity, StagesFit, Untouched, CalledDirectly, NoConn,
         NoCaller, PipeAssumption
<1>5. RepliesAreTrue /\ BrokerWasProbed
  BY <1>1, <1>2 DEF PipeInit, RepliesAreTrue, BrokerWasProbed
<1>6. \A c \in Callers : TrueOf(c, conn[c].answer) /\ TrueOf(c, caller[c].told)
  BY <1>1, <1>2 DEF TrueOf, NoConn
<1> QED
  BY <1>3, <1>4, <1>5, <1>6 DEF PipeInv

(* The records of a command and of a connection.                           *)
LEMMA PipeRecords ==
    ASSUME PipeTypeOK, NEW c \in Callers
    PROVE  /\ caller[c] \in [phase : {"idle", "connected", "direct", "done"},
                             cmd : Commands, want : Endpoints, told : Answers,
                             admin : BOOLEAN]
           /\ conn[c] \in [at : {"none", "accepted", "submitting", "awaiting",
                                 "probing", "persisting", "answering"},
                           answer : Answers]
           /\ caller[c].want \in Endpoints /\ caller[c].told \in Answers
           /\ conn[c].answer \in Answers
           /\ reply[c] \in Answers \union {NoReply}
           /\ Failed \in Answers /\ ~Failed.ok /\ ~NoReply.ok
           /\ \A t \in Endpoints : Answer(t) \in Answers /\ Answer(t).of = t
BY DEF PipeTypeOK, Failed, NoReply, Answers, Answer

(* The accept loop and the start and stop of the service.                  *)
LEMMA ControlStep ==
    ASSUME PipeInv,
           StartService \/ StopService \/ PipeStopped \/ CreateInstance
              \/ LoopEnds \/ CancelAccept
    PROVE  PipeInv'
<1>1. /\ UNCHANGED <<caller, conn, worker, reply, attempted, brokerProbed, broker>>
      /\ waiting' \in {waiting, NoCaller}
  BY DEF StartService, StopService, PipeStopped, CreateInstance, LoopEnds, CancelAccept
<1>2. PipeTypeOK'
  <2>1. /\ process' \in {"up", "stopping", "released", "off"}
        /\ accept' \in {"top", "listening", "exited"}
        /\ starts' \in 0..MaxStarts
    BY PipeAssumption
       DEF PipeInv, PipeTypeOK, PipeAssumption, StartService, StopService, PipeStopped,
           CreateInstance, LoopEnds, CancelAccept
  <2> QED
    BY <1>1, <2>1 DEF PipeInv, PipeTypeOK
<1>3. OneIdentity'
  BY <1>1, PipeAssumption
     DEF PipeInv, OneIdentity, Untouched, CalledDirectly, NoCaller, PipeAssumption
<1> QED
  BY <1>1, <1>2, <1>3
     DEF PipeInv, RepliesAreTrue, StagesFit, TrueOf, BrokerWasProbed

(* What holds of an answer holds on while nothing is taken back.           *)
LEMMA AnswersStayTrue ==
    ASSUME PipeInv, attempted \subseteq attempted', brokerProbed \subseteq brokerProbed',
           \A c \in Callers : /\ caller'[c].cmd = caller[c].cmd
                              /\ caller'[c].want = caller[c].want
                              /\ caller'[c].admin = caller[c].admin
    PROVE  /\ \A c \in Callers, a \in Answers : TrueOf(c, a) => TrueOf(c, a)'
           /\ BrokerWasProbed /\ broker' = broker => BrokerWasProbed'
<1>1. ASSUME NEW c \in Callers, NEW a \in Answers, TrueOf(c, a) PROVE TrueOf(c, a)'
  BY <1>1 DEF TrueOf
<1>2. BrokerWasProbed /\ broker' = broker => BrokerWasProbed'
  BY DEF BrokerWasProbed
<1> QED
  BY <1>1, <1>2

(* The process ends, or the next connection goes to its goroutine.         *)
LEMMA ProcessEndsStep ==
    ASSUME PipeInv, ProcessEnds
    PROVE  PipeInv'
<1>1. /\ UNCHANGED <<starts, accept, waiting, caller, worker, attempted,
                     brokerProbed, broker>>
      /\ process' = "off"
      /\ \A c \in Callers : conn'[c] = NoConn /\ reply'[c] = NoReply
      /\ conn' = [c \in Callers |-> NoConn] /\ reply' = [c \in Callers |-> NoReply]
  BY DEF ProcessEnds
<1>2. Failed \in Answers /\ ~Failed.ok /\ ~NoReply.ok
  BY DEF Failed, NoReply, Answers
<1>3. PipeTypeOK'
  BY <1>1, <1>2 DEF PipeInv, PipeTypeOK, NoConn
<1>4. OneIdentity' /\ StagesFit' /\ RepliesAreTrue'
  BY <1>1, <1>2
     DEF PipeInv, OneIdentity, StagesFit, RepliesAreTrue, Untouched, CalledDirectly,
         NoConn
<1>5. \A c \in Callers : TrueOf(c, conn[c].answer)' /\ TrueOf(c, caller[c].told)'
  BY <1>1, <1>2 DEF PipeInv, TrueOf, NoConn
<1> QED
  BY <1>1, <1>3, <1>4, <1>5 DEF PipeInv, BrokerWasProbed

LEMMA AcceptStep ==
    ASSUME PipeInv, Accept
    PROVE  PipeInv'
<1>1. /\ UNCHANGED <<process, starts, caller, worker, reply, attempted, brokerProbed,
                     broker>>
      /\ accept' = "top" /\ waiting' = NoCaller /\ waiting \in Callers
      /\ conn' = [conn EXCEPT ![waiting].at = "accepted"]
  BY DEF PipeInv, PipeTypeOK, Accept
<1>2. \A c \in Callers : /\ conn'[c].answer = conn[c].answer
                         /\ c # waiting => conn'[c] = conn[c]
                         /\ c = waiting => conn'[c].at = "accepted"
  BY <1>1 DEF PipeInv, PipeTypeOK
<1>3. PipeTypeOK'
  BY <1>1 DEF PipeInv, PipeTypeOK
<1>4. OneIdentity'
  BY <1>1, <1>2, PipeAssumption
     DEF PipeInv, OneIdentity, Untouched, CalledDirectly, NoCaller, PipeAssumption
<1>5. StagesFit' /\ RepliesAreTrue' /\ BrokerWasProbed'
  BY <1>1, <1>2 DEF PipeInv, StagesFit, RepliesAreTrue, BrokerWasProbed
<1>6. \A c \in Callers : TrueOf(c, conn[c].answer)' /\ TrueOf(c, caller[c].told)'
  BY <1>1, <1>2 DEF PipeInv, TrueOf
<1> QED
  BY <1>3, <1>4, <1>5, <1>6 DEF PipeInv

(* A command ends, or turns to the dashboard itself.                       *)
LEMMA CallerStep ==
    ASSUME PipeInv, NEW c \in Callers, Dial(c) \/ Disconnected(c) \/ CallDirectly(c)
    PROVE  PipeInv'
<1> DEFINE was == caller[c]
           now == caller'[c]
<1>1. /\ UNCHANGED <<process, starts, accept, conn, worker, reply, brokerProbed, broker>>
      /\ \A d \in Callers : d # c => caller'[d] = caller[d]
      /\ now.cmd = was.cmd /\ now.want = was.want /\ now.admin = was.admin
      /\ now \in [phase : {"idle", "connected", "direct", "done"},
                  cmd : Commands, want : Endpoints, told : Answers, admin : BOOLEAN]
      /\ caller' = [caller EXCEPT ![c] = now]
      /\ now.phase = "direct" => was.cmd = "register"
      /\ now.told = was.told \/ now.told = Answer(was.want) \/ now.told = Failed
      /\ \/ /\ was.phase = "idle" /\ UNCHANGED attempted /\ now.told = was.told
            /\ \/ now.phase = "connected" /\ waiting' = c
               \/ now.phase \in {"direct", "done"} /\ waiting' = waiting
         \/ /\ was.phase = "connected" /\ UNCHANGED <<attempted, waiting>>
            /\ now.phase = "done" /\ now.told = was.told
         \/ /\ was.phase = "direct" /\ now.phase = "done" /\ UNCHANGED waiting
            /\ attempted' = attempted \union {<<c, "caller", was.want>>}
  <2>1. was \in [phase : {"idle", "connected", "direct", "done"},
                 cmd : Commands, want : Endpoints, told : Answers, admin : BOOLEAN]
    BY PipeRecords DEF PipeInv
  <2>2. CASE Dial(c)
    BY <2>1, <2>2 DEF PipeInv, PipeTypeOK, Dial, CallerFails
  <2>3. CASE Disconnected(c)
    BY <2>1, <2>3 DEF PipeInv, PipeTypeOK, Disconnected, CallerFails, FallsBack
  <2>4. CASE CallDirectly(c)
    BY <2>1, <2>4, PipeRecords DEF PipeInv, PipeTypeOK, CallDirectly
  <2> QED
    BY <2>2, <2>3, <2>4
<1> HIDE DEF was, now
<1>2. was.want \in Endpoints /\ was = caller[c] /\ now = caller'[c] /\ c \in Callers
  BY PipeRecords DEF was, now, PipeInv
<1>3. /\ attempted \subseteq attempted'
      /\ \A d \in Callers, t \in Endpoints :
            <<d, "service", t>> \in attempted' => <<d, "service", t>> \in attempted
      /\ \A d \in Callers, t \in Endpoints :
            <<d, "caller", t>> \in attempted' =>
                \/ <<d, "caller", t>> \in attempted
                \/ d = c /\ was.phase = "direct"
      /\ waiting' # waiting => waiting' = c /\ was.phase = "idle"
      /\ waiting' # waiting => now.phase = "connected"
      /\ was.phase \notin {"idle", "direct"} => now.phase = "done"
      /\ was.phase = "direct" => now.phase = "done"
  BY <1>1
<1>4. PipeTypeOK'
  <2>1. caller' \in [Callers ->
          [phase : {"idle", "connected", "direct", "done"},
           cmd : Commands, want : Endpoints, told : Answers, admin : BOOLEAN]]
    BY <1>1, <1>2 DEF PipeInv, PipeTypeOK
  <2>2. attempted' \subseteq Callers \X {"service", "caller"} \X Endpoints
    BY <1>1, <1>2 DEF PipeInv, PipeTypeOK
  <2>3. waiting' \in Callers \union {NoCaller}
    BY <1>1, <1>2 DEF PipeInv, PipeTypeOK
  <2> QED
    BY <1>1, <2>1, <2>2, <2>3 DEF PipeInv, PipeTypeOK
<1>5. OneIdentity'
  <2> SUFFICES ASSUME NEW d \in Callers
               PROVE  /\ caller'[d].phase \in {"idle", "direct"} =>
                            Untouched(d)' /\ ~CalledDirectly(d)'
                      /\ CalledDirectly(d)' => Untouched(d)'
    BY DEF OneIdentity
  <2>1. CASE d # c
    BY <1>1, <1>3, <2>1 DEF PipeInv, OneIdentity, Untouched, CalledDirectly
  <2>2. CASE d = c /\ now.phase \in {"idle", "direct"}
    <3>1. was.phase = "idle" /\ attempted' = attempted /\ waiting' = waiting
      BY <1>1, <1>3, <2>2
    <3> QED
      BY <1>1, <1>2, <2>2, <3>1 DEF PipeInv, OneIdentity, Untouched, CalledDirectly
  <2>3. CASE d = c /\ now.phase \notin {"idle", "direct"}
    <3>1. ASSUME CalledDirectly(c)' PROVE Untouched(c)'
      <4>1. CalledDirectly(c) \/ was.phase = "direct"
        BY <1>3, <3>1 DEF CalledDirectly
      <4>2. Untouched(c) /\ was.phase # "idle"
        BY <1>2, <4>1 DEF PipeInv, OneIdentity
      <4> QED
        BY <1>1, <1>3, <4>2 DEF Untouched
    <3> QED
      BY <1>2, <2>3, <3>1
  <2> QED
    BY <2>1, <2>2, <2>3
<1>6. \A d \in Callers : /\ caller'[d].cmd = caller[d].cmd
                        /\ caller'[d].want = caller[d].want
                        /\ caller'[d].admin = caller[d].admin
  BY <1>1, <1>2
<1>7. /\ \A d \in Callers, a \in Answers : TrueOf(d, a) => TrueOf(d, a)'
      /\ BrokerWasProbed'
  BY <1>1, <1>3, <1>6, AnswersStayTrue DEF PipeInv
<1>8. RepliesAreTrue' /\ StagesFit'
  BY <1>1, <1>2, <1>3, <1>6 DEF PipeInv, RepliesAreTrue, StagesFit
<1>9. \A d \in Callers : TrueOf(d, conn[d].answer)' /\ TrueOf(d, caller[d].told)'
  <2> SUFFICES ASSUME NEW d \in Callers
               PROVE  TrueOf(d, conn[d].answer)' /\ TrueOf(d, caller[d].told)'
    OBVIOUS
  <2>1. TrueOf(d, conn[d].answer)' /\ (caller'[d].told = caller[d].told =>
                                         TrueOf(d, caller[d].told)')
    <3>1. TrueOf(d, conn[d].answer) /\ TrueOf(d, caller[d].told)
      BY DEF PipeInv
    <3>2. /\ conn'[d].answer = conn[d].answer
          /\ caller'[d].cmd = caller[d].cmd /\ caller'[d].want = caller[d].want
          /\ caller[d].want \in brokerProbed => caller[d].want \in brokerProbed'
          /\ \A by : <<d, by, caller[d].want>> \in attempted =>
                     <<d, by, caller[d].want>> \in attempted'
      BY <1>1, <1>3, <1>6
    <3> QED
      BY <3>1, <3>2 DEF TrueOf
  <2>2. CASE d = c /\ now.told # was.told
    <3>1. /\ was.phase = "direct" /\ was.cmd = "register"
          /\ <<c, "caller", was.want>> \in attempted'
      BY <1>1, <1>2, <2>2 DEF PipeInv, StagesFit
    <3>2. now.told = Failed \/ now.told.of = was.want
      BY <1>1, <1>2, <2>2, PipeRecords DEF PipeInv
    <3>3. ~Failed.ok
      BY DEF Failed
    <3> QED
      BY <1>1, <1>2, <2>1, <2>2, <3>1, <3>2, <3>3 DEF TrueOf
  <2>3. CASE ~(d = c /\ now.told # was.told)
    <3>1. caller'[d].told = caller[d].told
      BY <1>1, <1>2, <2>3
    <3> QED
      BY <2>1, <3>1
  <2> QED
    BY <2>2, <2>3
<1> QED
  BY <1>4, <1>5, <1>7, <1>8, <1>9 DEF PipeInv

(* A goroutine of the service works for c alone, and only once c has       *)
(* connected.                                                              *)
LEMMA HandleFrame ==
    ASSUME PipeInv, NEW c \in Callers, Handle(c)
    PROVE  /\ UNCHANGED <<process, starts, accept, waiting, attempted>>
           /\ conn[c].at # "none"
           /\ conn' = [conn EXCEPT ![c] = conn'[c]]
           /\ conn'[c] \in [at : {"none", "accepted", "submitting", "awaiting",
                                  "probing", "persisting", "answering"},
                            answer : Answers]
           /\ worker' \in {worker, c}
           /\ reply' = reply \/ reply' = [reply EXCEPT ![c] = NoReply]
           /\ \/ caller' = caller
              \/ /\ caller[c].phase = "connected"
                 /\ caller' = [caller EXCEPT ![c].phase = "done",
                                             ![c].told = conn[c].answer]
           /\ brokerProbed \subseteq brokerProbed' /\ brokerProbed' \subseteq Endpoints
           /\ broker' \in {broker, caller[c].want}
<1> DEFINE At == {"none", "accepted", "submitting", "awaiting", "probing",
                  "persisting", "answering"}
<1>1. /\ conn[c].answer \in Answers /\ conn[c].at \in At /\ caller[c].want \in Endpoints
      /\ reply[c] \in Answers \union {NoReply} /\ Failed \in Answers
      /\ Answer(caller[c].want) \in Answers
      /\ conn \in [Callers -> [at : At, answer : Answers]]
      /\ brokerProbed \subseteq Endpoints
  BY PipeRecords DEF PipeInv, PipeTypeOK
<1>2. ASSUME NEW at \in At, Step(c, at)
      PROVE  /\ conn' = [conn EXCEPT ![c] = conn'[c]]
             /\ conn'[c] \in [at : At, answer : Answers]
  BY <1>1, <1>2 DEF Step
<1>3. ASSUME NEW a \in Answers, Finish(c, a)
      PROVE  /\ conn' = [conn EXCEPT ![c] = conn'[c]]
             /\ conn'[c] \in [at : At, answer : Answers]
  BY <1>1, <1>3 DEF Finish
<1>4. CASE HandleRequest(c)
  BY <1>1, <1>2, <1>3, <1>4 DEF HandleRequest
<1>5. CASE ReadFails(c)
  BY <1>1, <1>2, <1>5 DEF ReadFails
<1>6. CASE Submit(c)
  BY <1>1, <1>2, <1>6 DEF Submit
<1>7. CASE TakeReply(c)
  BY <1>1, <1>3, <1>7 DEF TakeReply, ReplyTo
<1>8. CASE GiveUp(c)
  BY <1>1, <1>3, <1>8 DEF GiveUp
<1>9. CASE \E ok \in BOOLEAN : Probe(c, ok)
  BY <1>1, <1>2, <1>9 DEF Probe, AfterProbe
<1>10. CASE Persist(c) \/ PersistFails(c)
  BY <1>1, <1>3, <1>10 DEF Persist, PersistFails
<1>11. CASE Respond(c)
  <2>1. NoConn \in [at : At, answer : Answers] /\ conn' = [conn EXCEPT ![c] = NoConn]
    BY <1>1, <1>11 DEF Respond, NoConn
  <2> QED
    BY <1>1, <1>11, <2>1 DEF Respond
<1> QED
  BY <1>4, <1>5, <1>6, <1>7, <1>8, <1>9, <1>10, <1>11 DEF Handle

(* What becomes of the connection, the channel and the broker.             *)
LEMMA HandleAnswers ==
    ASSUME PipeInv, NEW c \in Callers, Handle(c)
    PROVE  /\ \/ conn'[c].answer = conn[c].answer
              \/ conn'[c].answer = Failed
              \/ conn'[c].answer = reply[c] /\ caller[c].cmd = "register"
              \/ /\ conn'[c].answer = Answer(caller[c].want)
                 /\ caller[c].cmd # "register"
                 /\ caller[c].cmd = "broker-setup" => caller[c].want \in brokerProbed
           /\ conn'[c].at \in {"submitting", "awaiting"} => caller[c].cmd = "register"
           /\ conn'[c].at \in {"probing", "persisting"} =>
                 caller[c].cmd = "broker-setup" /\ caller[c].admin
           /\ conn'[c].at = "persisting" => caller[c].want \in brokerProbed'
           /\ broker' # broker =>
                 /\ broker' = caller[c].want /\ caller[c].admin
                 /\ caller[c].want \in brokerProbed'
<1>1. /\ conn[c].at \in {"submitting", "awaiting"} => caller[c].cmd = "register"
      /\ conn[c].at \in {"probing", "persisting"} =>
            caller[c].cmd = "broker-setup" /\ caller[c].admin
      /\ conn[c].at = "persisting" => caller[c].want \in brokerProbed
      /\ caller[c].admin \in BOOLEAN
      /\ conn \in [Callers -> [at : {"none", "accepted", "submitting", "awaiting",
                                     "probing", "persisting", "answering"},
                               answer : Answers]]
      /\ "register" # "broker-setup"
  BY DEF PipeInv, PipeTypeOK, StagesFit
<1>2. ASSUME NEW at, Step(c, at)
      PROVE  conn'[c].at = at /\ conn'[c].answer = conn[c].answer
  BY <1>1, <1>2 DEF Step
<1>3. ASSUME NEW a, Finish(c, a)
      PROVE  conn'[c].at = "answering" /\ conn'[c].answer = a
  BY <1>1, <1>3 DEF Finish
<1>4. CASE HandleRequest(c)
  <2>1. CASE Finish(c, Failed) /\ UNCHANGED broker
    BY <1>1, <1>3, <2>1
  <2>2. CASE caller[c].cmd = "register" /\ Step(c, "submitting") /\ UNCHANGED broker
    BY <1>1, <1>2, <2>2
  <2>3. CASE /\ caller[c].cmd = "broker-setup" /\ caller[c].admin
             /\ Step(c, "probing") /\ UNCHANGED broker
    BY <1>1, <1>2, <2>3
  <2>4. CASE /\ caller[c].cmd \in {"status", "remove-server"} /\ UNCHANGED broker
             /\ \E a \in {Failed, Answer(caller[c].want)} : Finish(c, a)
    BY <1>1, <1>3, <2>4
  <2> QED
    BY <1>1, <1>4, <2>1, <2>2, <2>3, <2>4 DEF HandleRequest, Privileged
<1>5. CASE ReadFails(c)
  BY <1>1, <1>2, <1>5 DEF ReadFails
<1>6. CASE Submit(c)
  BY <1>1, <1>2, <1>6 DEF Submit
<1>7. CASE TakeReply(c)
  BY <1>1, <1>3, <1>7 DEF TakeReply, ReplyTo
<1>8. CASE GiveUp(c)
  BY <1>1, <1>3, <1>8 DEF GiveUp
<1>9. CASE \E ok \in BOOLEAN : Probe(c, ok)
  BY <1>1, <1>2, <1>9 DEF Probe, AfterProbe
<1>10. CASE Persist(c) \/ PersistFails(c)
  BY <1>1, <1>3, <1>10 DEF Persist, PersistFails
<1>11. CASE Respond(c)
  <2>1. conn'[c].at = "none" /\ conn'[c].answer = Failed
    BY <1>1, <1>11 DEF Respond, NoConn
  <2> QED
    BY <1>1, <1>11, <2>1 DEF Respond
<1> QED
  BY <1>4, <1>5, <1>6, <1>7, <1>8, <1>9, <1>10, <1>11 DEF Handle

LEMMA HandleStep ==
    ASSUME PipeInv, NEW c \in Callers, Handle(c)
    PROVE  PipeInv'
<1>1. /\ UNCHANGED <<process, starts, accept, waiting, attempted>>
      /\ conn[c].at # "none"
      /\ \A d \in Callers : d # c => conn'[d] = conn[d] /\ caller'[d] = caller[d]
      /\ \A d \in Callers : /\ caller'[d].cmd = caller[d].cmd
                            /\ caller'[d].want = caller[d].want
                            /\ caller'[d].admin = caller[d].admin
                            /\ caller'[d].phase \in {caller[d].phase, "done"}
                            /\ caller'[d].told \in {caller[d].told, conn[d].answer}
                            /\ reply'[d] \in {reply[d], NoReply}
      /\ brokerProbed \subseteq brokerProbed' /\ worker' \in {worker, c}
  <2>1. /\ UNCHANGED <<process, starts, accept, waiting, attempted>>
        /\ conn[c].at # "none" /\ conn' = [conn EXCEPT ![c] = conn'[c]]
        /\ brokerProbed \subseteq brokerProbed' /\ worker' \in {worker, c}
        /\ reply' = reply \/ reply' = [reply EXCEPT ![c] = NoReply]
        /\ \/ caller' = caller
           \/ caller' = [caller EXCEPT ![c].phase = "done",
                                       ![c].told = conn[c].answer]
    BY HandleFrame
  <2>2. \A d \in Callers : /\ d # c => conn'[d] = conn[d]
                          /\ reply'[d] \in {reply[d], NoReply}
    BY <2>1 DEF PipeInv, PipeTypeOK
  <2>3. caller \in [Callers ->
          [phase : {"idle", "connected", "direct", "done"},
           cmd : Commands, want : Endpoints, told : Answers, admin : BOOLEAN]]
    BY DEF PipeInv, PipeTypeOK
  <2>4. \A d \in Callers : /\ d # c => caller'[d] = caller[d]
                          /\ caller'[d].cmd = caller[d].cmd
                          /\ caller'[d].want = caller[d].want
                          /\ caller'[d].admin = caller[d].admin
                          /\ caller'[d].phase \in {caller[d].phase, "done"}
                          /\ caller'[d].told \in {caller[d].told, conn[d].answer}
    BY <2>1, <2>3
  <2> QED
    BY <2>1, <2>2, <2>4
<1>2. PipeTypeOK'
  <2>1. conn' \in [Callers -> [at : {"none", "accepted", "submitting", "awaiting",
                                    "probing", "persisting", "answering"},
                              answer : Answers]]
    BY HandleFrame DEF PipeInv, PipeTypeOK
  <2>2. caller' \in [Callers ->
          [phase : {"idle", "connected", "direct", "done"},
           cmd : Commands, want : Endpoints, told : Answers, admin : BOOLEAN]]
    <3>1. caller \in [Callers ->
            [phase : {"idle", "connected", "direct", "done"},
             cmd : Commands, want : Endpoints, told : Answers, admin : BOOLEAN]]
          /\ conn[c].answer \in Answers
      BY PipeRecords DEF PipeInv, PipeTypeOK
    <3>2. \/ caller' = caller
          \/ caller' = [caller EXCEPT ![c].phase = "done", ![c].told = conn[c].answer]
      BY HandleFrame
    <3> QED
      BY <3>1, <3>2
  <2>3. reply' \in [Callers -> Answers \union {NoReply}]
    <3>1. reply \in [Callers -> Answers \union {NoReply}]
      BY DEF PipeInv, PipeTypeOK
    <3>2. reply' = reply \/ reply' = [reply EXCEPT ![c] = NoReply]
      BY HandleFrame
    <3> QED
      BY <3>1, <3>2
  <2>4. /\ worker' \in Callers \union {NoCaller}
        /\ brokerProbed' \subseteq Endpoints /\ broker' \in Endpoints \union {NoTarget}
    <3>1. /\ worker' \in {worker, c} /\ brokerProbed' \subseteq Endpoints
          /\ broker' \in {broker, caller[c].want}
      BY HandleFrame
    <3>2. caller[c].want \in Endpoints
      BY PipeRecords DEF PipeInv
    <3> QED
      BY <3>1, <3>2 DEF PipeInv, PipeTypeOK
  <2> QED
    BY <1>1, <2>1, <2>2, <2>3, <2>4 DEF PipeInv, PipeTypeOK
<1>3. OneIdentity'
  <2> SUFFICES ASSUME NEW d \in Callers
               PROVE  /\ caller'[d].phase \in {"idle", "direct"} =>
                            Untouched(d)' /\ ~CalledDirectly(d)'
                      /\ CalledDirectly(d)' => Untouched(d)'
    BY DEF OneIdentity
  <2>1. CASE d # c
    BY <1>1, <2>1 DEF PipeInv, OneIdentity, Untouched, CalledDirectly
  <2>2. CASE d = c
    <3>1. ~Untouched(c)
      BY <1>1 DEF Untouched
    <3>2. caller[c].phase \notin {"idle", "direct"} /\ ~CalledDirectly(c)
      BY <3>1 DEF PipeInv, OneIdentity
    <3>3. caller'[c].phase \notin {"idle", "direct"} /\ ~CalledDirectly(c)'
      BY <1>1, <3>2 DEF CalledDirectly
    <3> QED
      BY <2>2, <3>3
  <2> QED
    BY <2>1, <2>2
<1>4. RepliesAreTrue'
  BY <1>1 DEF PipeInv, RepliesAreTrue, NoReply
<1>5. StagesFit'
  <2> SUFFICES ASSUME NEW d \in Callers
               PROVE  /\ conn'[d].at \in {"submitting", "awaiting"} =>
                            caller'[d].cmd = "register"
                      /\ conn'[d].at \in {"probing", "persisting"} =>
                            caller'[d].cmd = "broker-setup" /\ caller'[d].admin
                      /\ conn'[d].at = "persisting" => caller'[d].want \in brokerProbed'
                      /\ caller'[d].phase = "direct" => caller'[d].cmd = "register"
    BY DEF StagesFit
  <2>1. CASE d # c
    BY <1>1, <2>1 DEF PipeInv, StagesFit
  <2>2. CASE d = c
    BY <1>1, <2>2, HandleAnswers DEF PipeInv, StagesFit
  <2> QED
    BY <2>1, <2>2
<1>6. \A d \in Callers : TrueOf(d, conn[d].answer)' /\ TrueOf(d, caller[d].told)'
  <2> SUFFICES ASSUME NEW d \in Callers
               PROVE  TrueOf(d, conn[d].answer)' /\ TrueOf(d, caller[d].told)'
    OBVIOUS
  <2>1. /\ TrueOf(d, conn[d].answer) /\ TrueOf(d, caller[d].told)
        /\ caller'[d].cmd = caller[d].cmd /\ caller'[d].want = caller[d].want
        /\ caller[d].want \in brokerProbed => caller[d].want \in brokerProbed'
        /\ attempted' = attempted
        /\ caller'[d].told \in {caller[d].told, conn[d].answer}
    BY <1>1 DEF PipeInv
  <2>2. TrueOf(d, caller[d].told)'
    BY <2>1 DEF TrueOf
  <2>3. \/ conn'[d].answer = conn[d].answer \/ conn'[d].answer = Failed
        \/ conn'[d].answer = reply[d] /\ caller[d].cmd = "register"
        \/ /\ conn'[d].answer = Answer(caller[d].want)
           /\ caller[d].cmd # "register"
           /\ caller[d].cmd = "broker-setup" => caller[d].want \in brokerProbed
    BY <1>1, HandleAnswers
  <2>4. CASE conn'[d].answer = conn[d].answer \/ conn'[d].answer = Failed
    BY <2>1, <2>4 DEF TrueOf, Failed
  <2>5. CASE conn'[d].answer = reply[d] /\ caller[d].cmd = "register"
    <3>1. reply[d].ok => /\ reply[d].of = caller[d].want
                         /\ <<d, "service", caller[d].want>> \in attempted
      BY DEF PipeInv, RepliesAreTrue
    <3> QED
      BY <2>1, <2>5, <3>1 DEF TrueOf
  <2>6. CASE /\ conn'[d].answer = Answer(caller[d].want)
             /\ caller[d].cmd # "register"
             /\ caller[d].cmd = "broker-setup" => caller[d].want \in brokerProbed
    <3>1. Answer(caller[d].want).of = caller[d].want
      BY DEF Answer
    <3> QED
      BY <2>1, <2>6, <3>1 DEF TrueOf
  <2> QED
    BY <2>2, <2>3, <2>4, <2>5, <2>6
<1>7. BrokerWasProbed'
  <2>1. CASE broker' = broker
    BY <1>1, <2>1 DEF PipeInv, BrokerWasProbed
  <2>2. CASE broker' # broker
    <3>1. broker' = caller'[c].want /\ caller'[c].admin /\ broker' \in brokerProbed'
      BY <1>1, <2>2, HandleAnswers
    <3> QED
      BY <3>1 DEF BrokerWasProbed
  <2> QED
    BY <2>1, <2>2
<1> QED
  BY <1>2, <1>3, <1>4, <1>5, <1>6, <1>7 DEF PipeInv

(* The reply of the worker is about the call it has made for that request. *)
LEMMA WorkerStep ==
    ASSUME PipeInv, WorkerReplies
    PROVE  PipeInv'
<1> DEFINE own == <<worker, "service", caller[worker].want>>
<1>1. /\ UNCHANGED <<process, starts, accept, waiting, caller, conn, brokerProbed, broker>>
      /\ worker \in Callers /\ worker' = NoCaller
      /\ attempted' = attempted \/ attempted' = attempted \union {own}
  BY DEF PipeInv, PipeTypeOK, WorkerReplies
<1>2. PICK a \in {Failed, Answer(caller[worker].want)} :
          /\ a.ok => own \in attempted'
          /\ reply' = [reply EXCEPT ![worker] = IF @ = NoReply THEN a ELSE @]
  BY DEF WorkerReplies, ReplyTo
<1>3. /\ caller[worker].want \in Endpoints /\ a \in Answers /\ ~Failed.ok
      /\ a = Failed \/ a.of = caller[worker].want
  BY <1>1, PipeRecords DEF PipeInv
<1>4. PipeTypeOK'
  BY <1>1, <1>2, <1>3 DEF PipeInv, PipeTypeOK
<1>5. /\ attempted \subseteq attempted'
      /\ \A d \in Callers, t \in Endpoints :
            <<d, "caller", t>> \in attempted' => <<d, "caller", t>> \in attempted
      /\ \A d \in Callers, t \in Endpoints :
            <<d, "service", t>> \in attempted' =>
                <<d, "service", t>> \in attempted \/ d = worker
  BY <1>1
<1>6. OneIdentity'
  BY <1>1, <1>5, PipeAssumption
     DEF PipeInv, OneIdentity, Untouched, CalledDirectly, NoCaller, PipeAssumption
<1>7. RepliesAreTrue'
  <2> SUFFICES ASSUME NEW d \in Callers, reply'[d].ok
               PROVE  /\ reply'[d].of = caller'[d].want
                      /\ <<d, "service", caller'[d].want>> \in attempted'
    BY DEF RepliesAreTrue
  <2>1. CASE reply'[d] = reply[d]
    BY <1>1, <1>5, <2>1 DEF PipeInv, RepliesAreTrue
  <2>2. CASE reply'[d] # reply[d]
    <3>1. d = worker /\ reply'[d] = a
      BY <1>1, <1>2, <2>2 DEF PipeInv, PipeTypeOK
    <3> QED
      BY <1>1, <1>2, <1>3, <3>1
  <2> QED
    BY <2>1, <2>2
<1>8. StagesFit' /\ BrokerWasProbed'
  BY <1>1 DEF PipeInv, StagesFit, BrokerWasProbed
<1>9. \A d \in Callers : TrueOf(d, conn[d].answer)' /\ TrueOf(d, caller[d].told)'
  BY <1>1, <1>5 DEF PipeInv, TrueOf
<1> QED
  BY <1>4, <1>6, <1>7, <1>8, <1>9 DEF PipeInv

(* No command makes the call the service has made for it, what a caller is *)
(* told is true of its own request, and only a broker that answered a      *)
(* probe an administrator asked for is configured.                         *)
THEOREM PipeAnswersAreTrue == PipeSpec => []CommandsAreTrue
<1>1. PipeInv /\ [PipeNext]_pipeVars => PipeInv'
  <2> SUFFICES ASSUME PipeInv, [PipeNext]_pipeVars PROVE PipeInv'
    OBVIOUS
  <2>1. CASE UNCHANGED pipeVars
    <3>1. PipeTypeOK'
      BY <2>1 DEF pipeVars, PipeInv, PipeTypeOK
    <3>2. OneIdentity'
      BY <2>1 DEF pipeVars, PipeInv, OneIdentity, Untouched, CalledDirectly
    <3>3. RepliesAreTrue' /\ StagesFit' /\ BrokerWasProbed'
      BY <2>1 DEF pipeVars, PipeInv, RepliesAreTrue, StagesFit, BrokerWasProbed
    <3>4. \A c \in Callers : TrueOf(c, conn[c].answer)' /\ TrueOf(c, caller[c].told)'
      BY <2>1 DEF pipeVars, PipeInv, TrueOf
    <3> QED
      BY <3>1, <3>2, <3>3, <3>4 DEF PipeInv
  <2>2. CASE PipeNext
    BY <2>2, ControlStep, ProcessEndsStep, AcceptStep, WorkerStep, CallerStep, HandleStep
       DEF PipeNext
  <2> QED
    BY <2>1, <2>2
<1>2. PipeInv => CommandsAreTrue
  <2> SUFFICES ASSUME PipeInv PROVE AnswerIsOwn /\ NoSecondAttempt /\ BrokerWasProbed
    BY DEF CommandsAreTrue
  <2>1. AnswerIsOwn
    BY DEF PipeInv, AnswerIsOwn, TrueOf
  <2>2. NoSecondAttempt
    BY PipeRecords DEF PipeInv, NoSecondAttempt, OneIdentity, Untouched, CalledDirectly
  <2> QED
    BY <2>1, <2>2 DEF PipeInv
<1> QED
  BY <1>1, <1>2, PipeStarts, PTL DEF PipeSpec

(***************************************************************************)
(* The service loop across reloads of config.json.                         *)
(***************************************************************************)

(* A dashboard-only host is in no agent period.                            *)
NoPeriodWithoutAgent == only => period = 0

LoopInv == LoopIsConsistent /\ NoPeriodWithoutAgent

LEMMA FetchKeepsTargets ==
    ASSUME TargetsOfTheCachedDashboard, NEW n, FetchRemote(n)
    PROVE  TargetsOfTheCachedDashboard'
BY DEF FetchRemote, TargetsOfTheCachedDashboard

(* Registering leaves the parts alone and is with the dashboard in use.    *)
LEMMA PollStep ==
    ASSUME LoopInv, Bootstrap \/ Poll
    PROVE  LoopInv'
<1>1. /\ UNCHANGED <<only, period, parts, url>>
      /\ \/ UNCHANGED <<registered, member>>
         \/ registered' = TRUE /\ member' = url
      /\ UNCHANGED fetchVars \/ \E n : FetchRemote(n)
  BY DEF Bootstrap, Poll, RegisterAndFetch, agentVars
<1>2. TargetsOfTheCachedDashboard'
  BY <1>1, FetchKeepsTargets
     DEF LoopInv, LoopIsConsistent, TargetsOfTheCachedDashboard, fetchVars
<1>3. RegisteredWhereItReports' /\ PartsOfThisPeriod' /\ NoPeriodWithoutAgent'
  BY <1>1 DEF LoopInv, LoopIsConsistent, RegisteredWhereItReports, PartsOfThisPeriod,
              NoPeriodWithoutAgent
<1> QED
  BY <1>2, <1>3 DEF LoopInv, LoopIsConsistent

(* A reload moves parts, registration and targets together.                *)
LEMMA ReloadStep ==
    ASSUME LoopInv, Reload
    PROVE  LoopInv'
<1>1. ReloadSettings(file) /\ ReloadDashboard(file) /\ ReloadAgent(file)
  BY DEF Reload
<1>2. TargetsOfTheCachedDashboard'
  <2>1. PICK ok \in {FALSE, ~file.only /\ file.url # NoUrl /\ file.url = url} :
          /\ cached' = IF ok THEN Asked ELSE cached
          /\ useRemote' = ((useRemote \/ ok) /\ file.url # NoUrl)
          /\ inForce' = IF ~useRemote' THEN NoUrl
                        ELSE IF cached' # NoUrl THEN cached' ELSE inForce
    BY <1>1 DEF ReloadSettings
  <2>2. ok => cached' # NoUrl
    BY <2>1, LoopAssumption DEF Asked, LoopAssumption
  <2>3. inForce = IF useRemote THEN cached ELSE NoUrl
    BY DEF LoopInv, LoopIsConsistent, TargetsOfTheCachedDashboard
  <2>4. CASE ok
    BY <2>1, <2>2, <2>4 DEF TargetsOfTheCachedDashboard
  <2>5. CASE ~ok
    BY <2>1, <2>3, <2>5 DEF TargetsOfTheCachedDashboard
  <2> QED
    BY <2>4, <2>5
<1>3. RegisteredWhereItReports'
  <2> DEFINE kept == StillRegistered(file)
             local == file.url = Here /\ ~file.only
  <2>1. /\ url' = IF file.url = NoUrl THEN url ELSE file.url
        /\ kept => registered /\ url' = url
        /\ local => url' = Here
    BY <1>1, LoopAssumption DEF ReloadDashboard, StillRegistered, LoopAssumption
  <2>2. registered => member = url
    BY DEF LoopInv, LoopIsConsistent, RegisteredWhereItReports
  <2>3. \/ registered' = FALSE
        \/ /\ registered' = (kept \/ (serving' /\ local))
           /\ member' = IF serving' /\ local THEN Here ELSE member
        \/ \E join \in BOOLEAN :
              /\ join => local
              /\ registered' = (kept \/ join)
              /\ member' = IF join THEN Here ELSE member
    <3>1. CASE ~file.enabled /\ serving
      BY <1>1, <3>1 DEF ReloadDashboard
    <3>2. CASE file.enabled /\ ~serving
      BY <1>1, <3>2 DEF ReloadDashboard
    <3>3. CASE ~(~file.enabled /\ serving) /\ ~(file.enabled /\ ~serving)
      BY <1>1, <3>3 DEF ReloadDashboard
    <3> QED
      BY <3>1, <3>2, <3>3
  <2> HIDE DEF kept, local
  <2> QED
    BY <2>1, <2>2, <2>3 DEF RegisteredWhereItReports
<1>4. PartsOfThisPeriod' /\ NoPeriodWithoutAgent'
  <2>1. CASE file.only
    BY <1>1, <2>1 DEF ReloadAgent, Dropped, NoParts, PartsOfThisPeriod,
                      NoPeriodWithoutAgent
  <2>2. CASE ~file.only /\ only
    <3>1. \A p \in Parts : parts[p] = 0
      BY <2>2 DEF LoopInv, LoopIsConsistent, PartsOfThisPeriod, NoPeriodWithoutAgent
    <3>2. /\ only' = FALSE /\ period' = periods'
          /\ \E failing \in {{}} \union {{p} : p \in Fragile} :
                parts' = [p \in Parts |->
                    IF p \in {"updater", "detector"} /\ parts[p] # 0 THEN parts[p]
                    ELSE Made(periods', failing)[p]]
      BY <1>1, <2>2 DEF ReloadAgent
    <3> QED
      BY <3>1, <3>2 DEF Made, PartsOfThisPeriod, NoPeriodWithoutAgent
  <2>3. CASE ~file.only /\ ~only
    BY <1>1, <2>3
       DEF ReloadAgent, LoopInv, LoopIsConsistent, PartsOfThisPeriod,
           NoPeriodWithoutAgent
  <2> QED
    BY <2>1, <2>2, <2>3
<1> QED
  BY <1>2, <1>3, <1>4 DEF LoopInv, LoopIsConsistent

LEMMA StartLoopStep ==
    ASSUME LoopInv, StartLoop \/ StopLoop
    PROVE  LoopInv'
<1>1. CASE StopLoop
  BY <1>1 DEF StopLoop, LoopInv, LoopIsConsistent, PartsOfThisPeriod, NoParts,
              NoPeriodWithoutAgent, RegisteredWhereItReports,
              TargetsOfTheCachedDashboard
<1>2. CASE StartLoop
  <2>1. PartsOfThisPeriod' /\ NoPeriodWithoutAgent'
    BY <1>2 DEF StartLoop, PartsOfThisPeriod, NoPeriodWithoutAgent, NoParts, Made
  <2>2. RegisteredWhereItReports'
    BY <1>2 DEF StartLoop, RegisteredWhereItReports
  <2>3. TargetsOfTheCachedDashboard'
    BY <1>2 DEF StartLoop, fetchVars, LoopInv, LoopIsConsistent,
                TargetsOfTheCachedDashboard
  <2> QED
    BY <2>1, <2>2, <2>3 DEF LoopInv, LoopIsConsistent
<1> QED
  BY <1>1, <1>2

(* The parts in use are of the live agent period, a host that takes itself *)
(* for registered is registered where it reports, and the targets in force *)
(* are the file's or those of the dashboard last heard, across any edits,  *)
(* reloads, failed starts and restarts.                                    *)
THEOREM LoopStaysConsistent == LoopSpec => []LoopIsConsistent
<1>1. LoopInit => LoopInv
  BY DEF LoopInit, LoopInv, LoopIsConsistent, PartsOfThisPeriod, NoParts,
         NoPeriodWithoutAgent, RegisteredWhereItReports, TargetsOfTheCachedDashboard
<1>2. LoopInv /\ [LoopNext]_loopVars => LoopInv'
  <2> SUFFICES ASSUME LoopInv, [LoopNext]_loopVars PROVE LoopInv'
    OBVIOUS
  <2>1. CASE EditConfig \/ ReloadFails \/ LoopTick \/ UNCHANGED loopVars
    <3>1. UNCHANGED <<agentVars, dashVars, fetchVars>>
      BY <2>1 DEF EditConfig, ReloadFails, LoopTick, loopVars, agentVars, dashVars,
                  fetchVars
    <3> QED
      BY <3>1 DEF agentVars, dashVars, fetchVars, LoopInv, LoopIsConsistent,
                  PartsOfThisPeriod, NoPeriodWithoutAgent, RegisteredWhereItReports,
                  TargetsOfTheCachedDashboard
  <2> QED
    BY <2>1, PollStep, ReloadStep, StartLoopStep DEF LoopNext
<1>3. LoopInv => LoopIsConsistent
  BY DEF LoopInv
<1> QED
  BY <1>1, <1>2, <1>3, PTL DEF LoopSpec

(***************************************************************************)
(* The transition log and the alerts of a drained host.                    *)
(***************************************************************************)

(* A change of the mode was a change of the key, and no row is of a later  *)
(* time than now.                                                          *)
ClocksFit ==
    /\ drifted <= registry.modified /\ registry.modified <= today
    /\ \A i \in DOMAIN audit : audit[i].ts >= 1 /\ audit[i].ts <= today

(* A service that does not run has neither an observation nor an alert, and *)
(* only an agent checks; a running one without observation has either no   *)
(* history or began without it.                                            *)
StageFits ==
    /\ ~Serving => observed = None /\ lastAlert = 0
    /\ stage # "watching" => sample = <<>>
    /\ Serving /\ Unseen(observed) /\ ~missed => audit = <<>>

(* An alert time that no reset was kept from clearing belongs to an alert. *)
AlertTimesAreTold == lastAlert # 0 /\ "reset" \notin muted => told

DrainInv ==
    /\ DrainTypeOK /\ ClocksFit /\ StageFits /\ AlertTimesAreTold
    /\ AuditIsComplete /\ EachAlertIsTold

LEMMA LastRow ==
    ASSUME NEW s \in Seq(Row), NEW r \in Row
    PROVE  /\ Append(s, r) \in Seq(Row) /\ Append(s, r) # <<>>
           /\ Last(Append(s, r)) = r
           /\ \A i \in DOMAIN Append(s, r) :
                 Append(s, r)[i] = r \/ (i \in DOMAIN s /\ Append(s, r)[i] = s[i])
           /\ s # <<>> => Last(s) \in Row /\ Len(s) \in DOMAIN s
<1> DEFINE long == Append(s, r)
<1>1. /\ long \in Seq(Row) /\ Len(long) = Len(s) + 1 /\ Len(s) \in Nat
      /\ \A i \in 1..Len(s) : long[i] = s[i]
      /\ long[Len(s) + 1] = r
      /\ DOMAIN s = 1..Len(s) /\ DOMAIN long = 1..Len(long)
  BY AppendProperties, LenProperties
<1>2. long # <<>> /\ Last(long) = r
  <2>1. Len(long) # 0 /\ Len(<<>>) = 0
    BY <1>1, EmptySeq
  <2> QED
    BY <1>1, <2>1 DEF Last
<1>3. \A i \in DOMAIN long : long[i] = r \/ (i \in DOMAIN s /\ long[i] = s[i])
  <2> SUFFICES ASSUME NEW i \in DOMAIN long
               PROVE  long[i] = r \/ (i \in DOMAIN s /\ long[i] = s[i])
    OBVIOUS
  <2> HIDE DEF long
  <2>1. i \in 1..(Len(s) + 1) /\ Len(s) \in Nat
    BY <1>1
  <2>2. i \in 1..Len(s) \/ i = Len(s) + 1
    BY <2>1
  <2>3. CASE i \in 1..Len(s)
    <3>1. long[i] = s[i] /\ i \in DOMAIN s
      BY <1>1, <2>3
    <3> QED
      BY <3>1
  <2>4. CASE i = Len(s) + 1
    BY <1>1, <2>4
  <2> QED
    BY <2>2, <2>3, <2>4
<1>4. ASSUME s # <<>> PROVE Last(s) \in Row /\ Len(s) \in DOMAIN s
  <2>1. Len(s) # 0
    BY <1>4, EmptySeq
  <2>2. Len(s) \in 1..Len(s)
    BY <1>1, <2>1
  <2> QED
    BY <1>1, <2>2, ElementOfSeq DEF Last
<1> QED
  BY <1>1, <1>2, <1>3, <1>4

(* What the program's numbers are.                                         *)
LEMMA DrainNumbers ==
    ASSUME DrainTypeOK
    PROVE  /\ today \in Nat /\ today >= 1 /\ drifted \in Nat
           /\ registry.modified \in Nat /\ registry.mode \in Modes
           /\ observed.at \in Nat /\ observed.since \in Nat /\ observed.mode \in Modes
           /\ lastAlert \in Nat /\ Grace \in Nat /\ Repeat \in Nat
           /\ 0 \in Modes /\ MaxToday \in Nat /\ MaxDrainFaults \in Nat
           /\ audit \in Seq(Row)
           /\ audit # <<>> => /\ Last(audit) \in Row /\ Last(audit).ts \in Nat
                             /\ Len(audit) \in DOMAIN audit
<1>1. MaxToday \in Nat \ {0} /\ MaxDrainFaults \in Nat /\ Grace \in Nat
      /\ Repeat \in Nat /\ 0 \in Modes
  BY DrainAssumption DEF DrainAssumption
<1>2. ASSUME audit # <<>>
      PROVE  /\ Last(audit) \in Row /\ Last(audit).ts \in Nat
             /\ Len(audit) \in DOMAIN audit
  <2>1. 1 \in 0..MaxToday /\ [ts |-> 1, prev |-> 0, new |-> 0, recon |-> FALSE] \in Row
    BY <1>1 DEF Row
  <2>2. audit \in Seq(Row)
    BY DEF DrainTypeOK
  <2>3. Last(audit) \in Row /\ Len(audit) \in DOMAIN audit
    BY <1>2, <2>1, <2>2, LastRow
  <2>4. 0..MaxToday \subseteq Nat
    BY <1>1
  <2> QED
    BY <2>3, <2>4 DEF Row
<1> QED
  BY <1>1, <1>2 DEF DrainTypeOK

(* Time only passes.                                                       *)
LEMMA EarlierThanNow ==
    ASSUME DrainTypeOK, ClocksFit, today' \in {today, today + 1}
    PROVE  \A i \in DOMAIN audit : audit[i].ts <= today'
<1> SUFFICES ASSUME NEW i \in DOMAIN audit PROVE audit[i].ts <= today'
  OBVIOUS
<1>1. audit[i] \in Row /\ 0..MaxToday \subseteq Nat
  BY DrainNumbers, ElementOfSeq DEF DrainTypeOK
<1>2. audit[i].ts \in Nat /\ today \in Nat /\ audit[i].ts <= today
  BY <1>1, DrainNumbers DEF Row, ClocksFit
<1> QED
  BY <1>2

LEMMA DrainStarts == DrainInit => DrainInv
<1> SUFFICES ASSUME DrainInit PROVE DrainInv
  OBVIOUS
<1>1. MaxToday \in Nat \ {0} /\ MaxDrainFaults \in Nat /\ 0 \in Modes
  BY DrainAssumption DEF DrainAssumption
<1>2. [ts |-> 1, prev |-> 0, new |-> 0, recon |-> FALSE] \in Row
  BY <1>1 DEF Row
<1>3. DrainTypeOK
  <2>1. audit \in Seq(Row)
    <3> DEFINE first == [ts |-> 1, prev |-> 0, new |-> 0, recon |-> FALSE]
    <3>1. audit = <<>> \/ audit = <<first>>
      BY DEF DrainInit
    <3>2. first \in Row
      BY <1>2
    <3> HIDE DEF first
    <3>3. <<first>> \in [1..1 -> Row]
      BY <3>2
    <3>4. <<>> \in Seq(Row) /\ <<first>> \in Seq(Row)
      BY <3>3, SeqDef, EmptySeq
    <3> QED
      BY <3>1, <3>4
  <2>2. /\ registry \in [mode : Modes, modified : 0..MaxToday]
        /\ observed \in [at : 0..MaxToday, mode : Modes, since : 0..MaxToday]
    BY <1>1 DEF DrainInit, None
  <2>3. 1 \in 1..MaxToday /\ 0 \in 0..MaxToday /\ 0 \in 0..MaxDrainFaults
    BY <1>1
  <2> QED
    BY <2>1, <2>2, <2>3 DEF DrainInit, DrainTypeOK
<1>4. ClocksFit /\ StageFits /\ AlertTimesAreTold
  BY DEF DrainInit, ClocksFit, StageFits, AlertTimesAreTold, Serving
<1>5. AuditIsComplete /\ EachAlertIsTold
  BY DEF DrainInit, AuditIsComplete, AuditFollowsObserved, DowntimeChangeIsRecorded,
         EachAlertIsTold, Serving
<1> QED
  BY <1>3, <1>4, <1>5 DEF DrainInv

LEMMA EnvironmentStep ==
    ASSUME DrainInv, (\E m \in Modes : SetDrainMode(m)) \/ TouchKey \/ EditExclusions
    PROVE  DrainInv'
<1>1. /\ UNCHANGED <<stage, observed, sample, audit, lastAlert, errors, missed, probed,
                     told, muted>>
      /\ today' \in {today, today + 1} /\ today' \in 1..MaxToday
      /\ registry' \in [mode : Modes, modified : 0..MaxToday]
      /\ excluded' \in BOOLEAN
      /\ \/ UNCHANGED <<registry, drifted>>
         \/ /\ registry'.modified = today' /\ drifted' \in {today', drifted}
            /\ today' = today + 1
            /\ stage = "reconciled" => drifted' = drifted
  <2>1. /\ MaxToday \in Nat /\ today \in 1..MaxToday
        /\ registry \in [mode : Modes, modified : 0..MaxToday]
        /\ excluded \in BOOLEAN
    BY DrainAssumption DEF DrainAssumption, DrainInv, DrainTypeOK
  <2>2. CASE \E m \in Modes : SetDrainMode(m)
    BY <2>1, <2>2 DEF SetDrainMode, Advance
  <2>3. CASE TouchKey
    BY <2>1, <2>3 DEF TouchKey, Advance
  <2>4. CASE EditExclusions
    BY <2>1, <2>4 DEF EditExclusions
  <2> QED
    BY <2>2, <2>3, <2>4
<1>2. DrainTypeOK'
  BY <1>1 DEF DrainInv, DrainTypeOK
<1>3. ClocksFit'
  <2>1. \A i \in DOMAIN audit' : audit'[i].ts <= today'
    BY <1>1, EarlierThanNow DEF DrainInv
  <2>2. drifted' <= registry'.modified /\ registry'.modified <= today'
    BY <1>1, DrainNumbers DEF DrainInv, ClocksFit
  <2> QED
    BY <1>1, <2>1, <2>2 DEF DrainInv, ClocksFit
<1>4. StageFits' /\ AlertTimesAreTold' /\ EachAlertIsTold' /\ AuditFollowsObserved'
  BY <1>1 DEF DrainInv, StageFits, AlertTimesAreTold, EachAlertIsTold, Unseen, Serving,
              ClassifyState, AuditIsComplete, AuditFollowsObserved
<1>5. DowntimeChangeIsRecorded'
  <2>1. CASE UNCHANGED <<registry, drifted>>
    BY <1>1, <2>1 DEF DrainInv, AuditIsComplete, DowntimeChangeIsRecorded
  <2>2. CASE registry'.modified = today + 1
    <3>1. today \in Nat /\ (audit # <<>> => Last(audit).ts \in Nat /\ Last(audit).ts <= today)
      BY DrainNumbers DEF DrainInv, ClocksFit, Last
    <3>2. audit' # <<>> => ~(registry'.modified <= Last(audit').ts)
      BY <1>1, <2>2, <3>1
    <3>3. stage' = "reconciled" => UNCHANGED <<stage, probed, audit, drifted>>
      BY <1>1
    <3> QED
      BY <3>2, <3>3 DEF DrainInv, AuditIsComplete, DowntimeChangeIsRecorded
  <2> QED
    BY <1>1, <2>1, <2>2
<1> QED
  BY <1>2, <1>3, <1>4, <1>5 DEF DrainInv, AuditIsComplete

LEMMA StartStep ==
    ASSUME DrainInv, Seed \/ StartAside \/ SwitchRole \/ EndWatch
    PROVE  DrainInv'
<1>1. DrainTypeOK /\ ClocksFit /\ StageFits /\ AlertTimesAreTold
  BY DEF DrainInv
<1>2. CASE EndWatch
  <2>1. /\ stage' = "down" /\ observed' = None /\ sample' = <<>> /\ lastAlert' = 0
        /\ told' = FALSE /\ muted' = {} /\ missed' = FALSE
        /\ UNCHANGED <<today, registry, audit, excluded, errors, probed, drifted>>
    BY <1>2 DEF EndWatch
  <2>2. DrainTypeOK'
    <3>1. /\ None \in [at : 0..MaxToday, mode : Modes, since : 0..MaxToday]
          /\ 0 \in 0..MaxToday
      BY <1>1, DrainNumbers DEF None
    <3> QED
      BY <1>1, <2>1, <3>1 DEF DrainTypeOK
  <2> QED
    BY <1>1, <2>1, <2>2
       DEF DrainInv, ClocksFit, StageFits, AlertTimesAreTold, AuditIsComplete, Serving,
           AuditFollowsObserved, DowntimeChangeIsRecorded, EachAlertIsTold
<1>3. CASE Seed /\ observed' = SeedFrom(audit) /\ missed' = FALSE
  <2>1. /\ stage' = "watching" /\ stage = "reconciled"
        /\ UNCHANGED <<today, registry, sample, audit, excluded, lastAlert,
                       probed, drifted, told, muted>>
        /\ errors' \in 0..MaxDrainFaults
    <3>1. /\ errors \in 0..MaxDrainFaults /\ MaxDrainFaults \in Nat
          /\ errors' = errors \/ (errors < MaxDrainFaults /\ errors' = errors + 1)
      BY <1>1, <1>3, DrainNumbers DEF Seed, AppendFails, DrainTypeOK
    <3> QED
      BY <1>3, <3>1 DEF Seed
  <2>2. \/ audit = <<>> /\ observed' = None
        \/ /\ audit # <<>> /\ Last(audit) \in Row /\ Last(audit).ts >= 1
           /\ observed' = [at |-> Last(audit).ts, mode |-> Last(audit).new,
                           since |-> Last(audit).ts]
    <3>1. audit # <<>> => Last(audit) \in Row /\ Last(audit).ts >= 1
      BY <1>1, DrainNumbers DEF ClocksFit, Last
    <3> QED
      BY <1>3, <3>1 DEF SeedFrom
  <2>3. DrainTypeOK'
    <3>1. observed' \in [at : 0..MaxToday, mode : Modes, since : 0..MaxToday]
      BY <1>1, <2>2, DrainNumbers DEF None, Row
    <3> QED
      BY <1>1, <1>3, <2>1, <3>1 DEF DrainTypeOK
  <2>4. ClocksFit' /\ AlertTimesAreTold'
    BY <1>1, <2>1 DEF ClocksFit, AlertTimesAreTold
  <2>5. StageFits' /\ AuditFollowsObserved' /\ DowntimeChangeIsRecorded'
    BY <2>1, <2>2, DrainNumbers, <1>1
       DEF StageFits, Unseen, AuditFollowsObserved, DowntimeChangeIsRecorded, Serving
  <2>6. EachAlertIsTold'
    BY <1>1, <2>1, <2>2, DrainNumbers DEF EachAlertIsTold, ClassifyState, Unseen, None, Row
  <2> QED
    BY <2>3, <2>4, <2>5, <2>6 DEF DrainInv, AuditIsComplete
<1>4. CASE StartAside \/ (Seed /\ UNCHANGED observed /\ missed' = (audit # <<>>))
  <2>1. /\ stage' \in {"watching", "aside"} /\ stage \in {"down", "reconciled"}
        /\ UNCHANGED <<today, registry, observed, sample, audit, excluded, lastAlert,
                       probed, drifted, told, muted>>
        /\ missed' = (audit # <<>>) /\ errors' \in 0..MaxDrainFaults
        /\ observed = None /\ sample = <<>> /\ lastAlert = 0
    <3>1. /\ errors \in 0..MaxDrainFaults /\ MaxDrainFaults \in Nat
          /\ errors' = errors \/ (errors < MaxDrainFaults /\ errors' = errors + 1)
      BY <1>1, <1>4, DrainNumbers DEF Seed, StartAside, AppendFails, DrainTypeOK
    <3>2. stage' \in {"watching", "aside"} /\ stage \in {"down", "reconciled"}
      BY <1>4 DEF Seed, StartAside
    <3>3. observed = None /\ sample = <<>> /\ lastAlert = 0
      BY <1>1, <3>2 DEF StageFits, Serving
    <3> QED
      BY <1>4, <3>1, <3>2, <3>3 DEF Seed, StartAside
  <2>2. DrainTypeOK'
    BY <1>1, <2>1 DEF DrainTypeOK
  <2> QED
    BY <1>1, <2>1, <2>2
       DEF DrainInv, ClocksFit, StageFits, AlertTimesAreTold, AuditIsComplete, Serving,
           AuditFollowsObserved, DowntimeChangeIsRecorded, EachAlertIsTold, Unseen, None
<1>5. CASE SwitchRole
  <2>1. /\ stage \in {"watching", "aside"} /\ stage' \in {"watching", "aside"}
        /\ sample = <<>>
        /\ UNCHANGED <<today, registry, observed, sample, audit, excluded, lastAlert,
                       errors, missed, probed, drifted, told, muted>>
    BY <1>5 DEF SwitchRole
  <2>2. DrainTypeOK' /\ ClocksFit' /\ StageFits' /\ AlertTimesAreTold'
    BY <1>1, <2>1 DEF DrainTypeOK, ClocksFit, StageFits, AlertTimesAreTold, Serving, Unseen
  <2> QED
    BY <2>1, <2>2
       DEF DrainInv, AuditIsComplete, Serving, AuditFollowsObserved,
           DowntimeChangeIsRecorded, EachAlertIsTold, Unseen, ClassifyState
<1> QED
  BY <1>2, <1>3, <1>4, <1>5 DEF Seed

(* The start finds what changed while the service was down.                *)
LEMMA ReconcileStep ==
    ASSUME DrainInv, Reconcile
    PROVE  DrainInv'
<1>1. DrainTypeOK /\ ClocksFit /\ StageFits
  BY DEF DrainInv
<1> DEFINE row == [ts |-> today', prev |-> Last(audit).new,
                   new |-> registry.mode, recon |-> TRUE]
<1>2. /\ stage = "down" /\ stage' = "reconciled" /\ today' = today + 1
      /\ today' \in 1..MaxToday
      /\ UNCHANGED <<registry, observed, sample, excluded, lastAlert, missed, drifted,
                     told, muted>>
      /\ observed = None /\ sample = <<>> /\ lastAlert = 0
      /\ probed' \in BOOLEAN /\ errors' \in 0..MaxDrainFaults
  <2>1. /\ stage = "down" /\ stage' = "reconciled" /\ today' = today + 1
        /\ today < MaxToday
        /\ UNCHANGED <<registry, observed, sample, excluded, lastAlert, missed, drifted,
                       told, muted>>
        /\ probed' \in BOOLEAN
        /\ errors' = errors \/ (errors < MaxDrainFaults /\ errors' = errors + 1)
    BY DEF Reconcile, Advance, AppendFails
  <2>2. /\ today \in 1..MaxToday /\ errors \in 0..MaxDrainFaults
        /\ MaxToday \in Nat /\ MaxDrainFaults \in Nat
    BY <1>1, DrainNumbers DEF DrainTypeOK
  <2> QED
    BY <1>1, <2>1, <2>2 DEF StageFits, Serving
<1>3. \/ audit' = audit
      \/ audit # <<>> /\ audit' = Append(audit, row)
  BY DEF Reconcile
<1>4. probed' => \/ (audit' = audit /\ (audit # <<>> => registry.modified <= Last(audit).ts
                                             /\ Last(audit).new = registry.mode))
                 \/ (audit # <<>> /\ audit' = Append(audit, row))
  <2>1. CASE audit = <<>>
    BY <2>1 DEF Reconcile
  <2>2. CASE audit # <<>>
    BY <1>1, <2>2, DrainNumbers DEF Reconcile, HasDrifted
  <2> QED
    BY <2>1, <2>2
<1>5. audit # <<>> => row \in Row
  BY <1>1, <1>2, DrainNumbers DEF Row
<1>6. DrainTypeOK'
  <2>1. audit' \in Seq(Row)
    <3>1. audit \in Seq(Row)
      BY <1>1 DEF DrainTypeOK
    <3>2. CASE audit' = audit
      BY <3>1, <3>2
    <3>3. CASE audit # <<>> /\ audit' = Append(audit, row)
      BY <1>5, <3>1, <3>3, LastRow
    <3> QED
      BY <1>3, <3>2, <3>3
  <2> QED
    BY <1>1, <1>2, <2>1 DEF DrainTypeOK
<1>7. ClocksFit'
  <2>1. \A i \in DOMAIN audit' : audit'[i].ts >= 1 /\ audit'[i].ts <= today'
    <3>1. /\ audit \in Seq(Row)
          /\ \A i \in DOMAIN audit : audit[i].ts >= 1 /\ audit[i].ts <= today'
      BY <1>1, <1>2, EarlierThanNow DEF DrainTypeOK, ClocksFit
    <3>2. CASE audit' = audit
      BY <3>1, <3>2
    <3>3. CASE audit # <<>> /\ audit' = Append(audit, row)
      <4>1. \A i \in DOMAIN audit' :
                audit'[i] = row \/ (i \in DOMAIN audit /\ audit'[i] = audit[i])
        BY <1>5, <3>1, <3>3, LastRow
      <4>2. row.ts >= 1 /\ row.ts <= today'
        BY <1>1, <1>2, DrainNumbers
      <4> HIDE DEF row
      <4> QED
        BY <3>1, <4>1, <4>2
    <3> QED
      BY <1>3, <3>2, <3>3
  <2> QED
    BY <1>1, <1>2, <2>1, DrainNumbers DEF ClocksFit
<1>8. StageFits' /\ AlertTimesAreTold' /\ EachAlertIsTold' /\ AuditFollowsObserved'
  BY <1>1, <1>2
     DEF DrainInv, StageFits, AlertTimesAreTold, EachAlertIsTold, AuditFollowsObserved,
         Serving
<1>9. DowntimeChangeIsRecorded'
  <2> SUFFICES ASSUME probed', audit' # <<>>
               PROVE  Last(audit').ts >= drifted' /\ Last(audit').new = registry'.mode
    BY DEF DowntimeChangeIsRecorded
  <2>1. drifted' <= registry.modified /\ drifted' <= today'
        /\ drifted' \in Nat /\ registry.modified \in Nat
    BY <1>1, <1>2, DrainNumbers DEF ClocksFit
  <2>2. CASE audit # <<>> /\ audit' = Append(audit, row)
    <3>1. Last(audit') = row
      BY <1>1, <1>5, <2>2, LastRow DEF DrainTypeOK
    <3> QED
      BY <1>2, <2>1, <3>1
  <2>3. CASE /\ audit' = audit /\ registry.modified <= Last(audit).ts
             /\ Last(audit).new = registry.mode
    BY <1>1, <1>2, <2>1, <2>3, DrainNumbers
  <2> QED
    BY <1>4, <2>2, <2>3
<1> QED
  BY <1>6, <1>7, <1>8, <1>9 DEF DrainInv, AuditIsComplete

(* What the notifications of one check do to the alert's memory.           *)
LEMMA NotifyEffect ==
    ASSUME DrainInv, NEW transition \in BOOLEAN, NEW mode \in Modes, NEW now \in Nat \ {0},
           Notify(transition, mode, now), stage = "watching"
    PROVE  /\ lastAlert' \in {lastAlert, 0, now} /\ told' \in BOOLEAN
           /\ muted' \subseteq {"check", "reset"}
           /\ AlertTimesAreTold'
           /\ (muted' = {} /\ CheckStatus(observed, mode, now) = "Alert") => told'
<1> DEFINE back == transition /\ mode = 0
           alert == CheckStatus(observed, mode, now) = "Alert"
           due == ~excluded /\ alert /\ AlertDue(lastAlert, now)
<1>1. /\ lastAlert' = IF excluded THEN lastAlert
                      ELSE IF due THEN now ELSE Cleared(lastAlert, back)
      /\ told' = IF back THEN FALSE ELSE told \/ due
      /\ muted' = IF excluded THEN {"check"} \union (IF back THEN {"reset"} ELSE muted)
                  ELSE IF back THEN {} ELSE muted \ {"check"}
  BY DEF Notify
<1>2. /\ lastAlert # 0 /\ "reset" \notin muted => told
      /\ muted \subseteq {"check", "reset"} /\ told \in BOOLEAN /\ excluded \in BOOLEAN
      /\ lastAlert \in Nat
  BY DrainNumbers DEF DrainInv, AlertTimesAreTold, DrainTypeOK
<1>3. back => ~alert
  BY DEF CheckStatus, ClassifyState
<1>4. alert /\ ~excluded /\ ~due => lastAlert # 0
  BY DEF AlertDue
<1>5. due => alert /\ ~excluded
  OBVIOUS
<1>6. back \in BOOLEAN /\ alert \in BOOLEAN /\ due \in BOOLEAN
  BY DEF AlertDue
<1> HIDE DEF back, alert, due
<1>7. CASE excluded
  <2>1. AlertTimesAreTold'
    <3>1. CASE back
      BY <1>1, <1>7, <3>1 DEF AlertTimesAreTold
    <3>2. CASE ~back
      BY <1>1, <1>2, <1>5, <1>6, <1>7, <3>2 DEF AlertTimesAreTold
    <3> QED
      BY <3>1, <3>2
  <2>2. muted' # {} /\ muted' \subseteq {"check", "reset"} /\ lastAlert' = lastAlert
    BY <1>1, <1>2, <1>7
  <2> QED
    BY <1>1, <1>2, <1>6, <2>1, <2>2
<1>8. CASE ~excluded /\ back
  <2>1. lastAlert' = 0 /\ muted' = {} /\ told' = FALSE /\ ~alert
    BY <1>1, <1>3, <1>5, <1>8 DEF Cleared
  <2> QED
    BY <2>1 DEF alert, AlertTimesAreTold
<1>9. CASE ~excluded /\ ~back
  <2>1. /\ muted' = muted \ {"check"} /\ told' = (told \/ due)
        /\ lastAlert' = IF due THEN now ELSE lastAlert
    BY <1>1, <1>6, <1>9 DEF Cleared
  <2>2. AlertTimesAreTold'
    BY <1>2, <1>6, <2>1 DEF AlertTimesAreTold
  <2>3. muted' = {} /\ alert => told'
    BY <1>2, <1>4, <1>6, <1>9, <2>1
  <2> QED
    BY <1>2, <1>6, <2>1, <2>2, <2>3 DEF alert
<1> QED
  BY <1>2, <1>7, <1>8, <1>9

(* The check: observation, row and message are of the same sample.         *)
LEMMA SettleStep ==
    ASSUME DrainInv, FinishCheck
    PROVE  DrainInv'
<1> DEFINE mode == Head(sample)
           transition == ~Unseen(observed) /\ observed.mode # mode
           row == [ts |-> today', prev |-> observed.mode, new |-> mode, recon |-> FALSE]
           latest == [at |-> today', mode |-> mode, since |-> Began(observed, mode, today')]
<1>1. DrainTypeOK /\ ClocksFit /\ StageFits
  BY DEF DrainInv
<1>2. /\ stage = "watching" /\ mode \in Modes /\ today' = today + 1
      /\ today' \in 1..MaxToday /\ today' \in Nat \ {0}
  <2>1. sample # <<>> /\ today < MaxToday /\ today' = today + 1
    BY DEF FinishCheck, Advance
  <2>2. PICK m \in Modes : sample = <<m>>
    BY <1>1, <2>1 DEF DrainTypeOK
  <2>3. Head(sample) = m
    BY <2>2
  <2> QED
    BY <1>1, <2>1, <2>3, DrainNumbers DEF StageFits, DrainTypeOK
<1>3. /\ observed' = latest /\ Notify(transition, mode, today') /\ sample' = <<>>
      /\ UNCHANGED <<registry, stage, excluded, probed, drifted>>
      /\ \/ /\ transition /\ audit' = Append(audit, row) /\ missed' = FALSE
            /\ errors' = errors
         \/ ~transition /\ audit' = audit /\ missed' = missed /\ errors' = errors
         \/ /\ transition /\ audit' = audit /\ missed' = TRUE
            /\ errors < MaxDrainFaults /\ errors' = errors + 1
  <2>1. missed \in BOOLEAN
    BY <1>1 DEF DrainTypeOK
  <2> QED
    BY <2>1 DEF FinishCheck, AppendFails
<1>4. row \in Row /\ Began(observed, mode, today') \in 0..MaxToday
  <2>1. observed.mode \in Modes /\ observed.since \in 0..MaxToday
        /\ today' \in 0..MaxToday
    BY <1>1, <1>2, DrainNumbers DEF DrainTypeOK
  <2> QED
    BY <1>2, <2>1 DEF Row, Began
<1>5. transition \in BOOLEAN
  OBVIOUS
<1>6. /\ lastAlert' \in {lastAlert, 0, today'} /\ told' \in BOOLEAN
      /\ muted' \subseteq {"check", "reset"}
      /\ AlertTimesAreTold'
      /\ (muted' = {} /\ CheckStatus(observed, mode, today') = "Alert") => told'
  BY <1>2, <1>3, <1>5, NotifyEffect
<1>7. /\ audit' \in Seq(Row)
      /\ \A i \in DOMAIN audit' : audit'[i].ts >= 1 /\ audit'[i].ts <= today'
  <2>1. /\ audit \in Seq(Row)
        /\ \A i \in DOMAIN audit : audit[i].ts >= 1 /\ audit[i].ts <= today'
    BY <1>1, <1>2, EarlierThanNow DEF DrainTypeOK, ClocksFit
  <2>2. CASE audit' = audit
    BY <2>1, <2>2
  <2>3. CASE audit' = Append(audit, row)
    <3>1. /\ Append(audit, row) \in Seq(Row)
          /\ \A i \in DOMAIN audit' :
                audit'[i] = row \/ (i \in DOMAIN audit /\ audit'[i] = audit[i])
      BY <1>4, <2>1, <2>3, LastRow
    <3>2. row.ts >= 1 /\ row.ts <= today'
      BY <1>2
    <3> HIDE DEF row
    <3> QED
      BY <2>1, <2>3, <3>1, <3>2
  <2> QED
    BY <1>3, <2>2, <2>3
<1>8. DrainTypeOK'
  <2>1. observed' \in [at : 0..MaxToday, mode : Modes, since : 0..MaxToday]
    BY <1>2, <1>3, <1>4
  <2>2. /\ lastAlert' \in 0..MaxToday /\ missed' \in BOOLEAN
        /\ errors' \in 0..MaxDrainFaults
    <3>1. /\ lastAlert \in 0..MaxToday /\ missed \in BOOLEAN
          /\ errors \in 0..MaxDrainFaults /\ MaxToday \in Nat /\ MaxDrainFaults \in Nat
      BY <1>1, DrainNumbers DEF DrainTypeOK
    <3>2. lastAlert' \in 0..MaxToday
      BY <1>2, <1>6, <3>1
    <3>3. missed' \in BOOLEAN /\ (errors' = errors \/
                                 (errors < MaxDrainFaults /\ errors' = errors + 1))
      BY <1>3, <3>1
    <3> QED
      BY <3>1, <3>2, <3>3
  <2> HIDE DEF mode, transition, row, latest
  <2> QED
    BY <1>1, <1>2, <1>3, <1>6, <1>7, <2>1, <2>2 DEF DrainTypeOK
<1>9. ClocksFit'
  BY <1>1, <1>2, <1>3, <1>7, DrainNumbers DEF ClocksFit
<1>10. StageFits'
  BY <1>2, <1>3 DEF StageFits, Unseen, Serving
<1>11. AuditFollowsObserved'
  <2> SUFFICES ASSUME audit' # <<>>, ~missed'
               PROVE  /\ Last(audit').new = mode
                      /\ Last(audit').ts = Began(observed, mode, today')
    BY <1>2, <1>3 DEF AuditFollowsObserved, Unseen
  <2>1. CASE transition
    <3>1. audit' = Append(audit, row)
      BY <1>3, <2>1
    <3>2. Last(audit') = row
      BY <1>1, <1>4, <3>1, LastRow DEF DrainTypeOK
    <3> QED
      BY <2>1, <3>2 DEF Began
  <2>2. CASE ~transition
    <3>1. audit' = audit /\ ~missed
      BY <1>3, <2>2
    <3>2. ~Unseen(observed) /\ observed.mode = mode
      BY <1>1, <1>2, <2>2, <3>1 DEF StageFits, Serving
    <3>3. Last(audit).new = observed.mode /\ Last(audit).ts = observed.since
      BY <1>2, <3>1, <3>2 DEF DrainInv, AuditIsComplete, AuditFollowsObserved, Serving
    <3> QED
      BY <3>1, <3>2, <3>3 DEF Began
  <2> QED
    BY <2>1, <2>2
<1>12. DowntimeChangeIsRecorded'
  BY <1>2, <1>3 DEF DowntimeChangeIsRecorded
<1>13. EachAlertIsTold'
  <2>1. ClassifyState(observed'.mode, observed'.at - observed'.since)
          = CheckStatus(observed, mode, today')
    BY <1>3 DEF CheckStatus
  <2> QED
    BY <1>6, <2>1 DEF EachAlertIsTold
<1> QED
  BY <1>6, <1>8, <1>9, <1>10, <1>11, <1>12, <1>13 DEF DrainInv, AuditIsComplete

LEMMA DrainInduction == DrainInv /\ [DrainNext]_drainVars => DrainInv'
<1> SUFFICES ASSUME DrainInv, [DrainNext]_drainVars PROVE DrainInv'
  OBVIOUS
<1>1. CASE UNCHANGED drainVars
  <2>1. DrainTypeOK' /\ ClocksFit' /\ StageFits' /\ AlertTimesAreTold'
    BY <1>1 DEF drainVars, DrainInv, DrainTypeOK, ClocksFit, StageFits,
                AlertTimesAreTold, Unseen, Serving
  <2>2. AuditIsComplete' /\ EachAlertIsTold'
    BY <1>1 DEF drainVars, DrainInv, AuditIsComplete, AuditFollowsObserved,
                DowntimeChangeIsRecorded, EachAlertIsTold, Unseen, ClassifyState, Serving
  <2> QED
    BY <2>1, <2>2 DEF DrainInv
<1>2. CASE Sample
  <2>1. /\ stage = "watching" /\ sample' = <<registry.mode>>
        /\ UNCHANGED <<today, registry, stage, observed, audit, excluded,
                       lastAlert, errors, missed, probed, drifted, told, muted>>
    BY <1>2 DEF Sample
  <2>2. DrainTypeOK'
    BY <2>1, DrainNumbers DEF DrainInv, DrainTypeOK
  <2> QED
    BY <2>1, <2>2
       DEF DrainInv, ClocksFit, StageFits, AlertTimesAreTold,
           AuditIsComplete, AuditFollowsObserved, DowntimeChangeIsRecorded,
           EachAlertIsTold, Unseen, ClassifyState, Serving
<1> QED
  BY <1>1, <1>2, EnvironmentStep, ReconcileStep, StartStep, SettleStep DEF DrainNext

(* While a service runs, the newest row names the mode it believes in and  *)
(* the time since when, unless the append failed or the service began      *)
(* without that row; and once a reconciliation has succeeded, every change *)
(* of the mode made before it is no later than the newest row.  Any number *)
(* of restarts, reloads and edits.                                         *)
THEOREM LogMissesNoChange == DrainSpec => []AuditIsComplete
<1>1. DrainInv => AuditIsComplete
  BY DEF DrainInv
<1> QED
  BY <1>1, DrainStarts, DrainInduction, PTL DEF DrainSpec

(* No host stands in alert without an alert having been dispatched since   *)
(* it was drained, unless the exclusions kept a check or a reset from it.  *)
THEOREM AlertsAreDispatched == DrainSpec => []EachAlertIsTold
<1>1. DrainInv => EachAlertIsTold
  BY DEF DrainInv
<1> QED
  BY <1>1, DrainStarts, DrainInduction, PTL DEF DrainSpec

(* What HandleStatus answers from the cached observation is what the       *)
(* persisted log says of the host: a restart or a failed reconciliation    *)
(* makes a drain look neither younger nor older.                           *)
THEOREM PipeAnswersFromTheLog == DrainSpec => []PipeFollowsTheLog
<1>1. DrainInv => PipeFollowsTheLog
  <2> SUFFICES ASSUME DrainInv, Serving, audit # <<>>, ~missed
               PROVE  HandleStatus = LoggedStatus
    BY DEF PipeFollowsTheLog
  <2>1. /\ Last(audit).new = observed.mode /\ Last(audit).ts = observed.since
        /\ ~Unseen(observed)
    BY DEF DrainInv, AuditIsComplete, AuditFollowsObserved
  <2>2. PipeDuration = IF Last(audit).new = registry.mode THEN today - Last(audit).ts
                       ELSE 0
    BY <2>1 DEF PipeDuration
  <2> QED
    BY <2>2 DEF HandleStatus, LoggedStatus
<1> QED
  BY <1>1, DrainStarts, DrainInduction, PTL DEF DrainSpec

(***************************************************************************)
(* Performance samples and the messages about them.                        *)
(***************************************************************************)

Reading == [id : 1..MaxSamples, value : Levels]
Collector == [stopped : BOOLEAN, queries : BOOLEAN, channel : BOOLEAN, skip : BOOLEAN,
              sampler : {"waiting", "ticked", "gone"}, accum : Seq(Reading)]

(* What waits for an evaluation was taken after the last one that was made.*)
Uncounted(s, last, count) == \A i \in DOMAIN s : s[i].id > last /\ s[i].id <= count

SamplesInv ==
    /\ collectors \in Seq(Collector) /\ Now \in Nat \ {0}
    /\ taken \in 0..MaxSamples /\ seen \in Nat /\ seen <= taken
    /\ live \in BOOLEAN
    /\ live => Uncounted(collectors[Now].accum, seen, taken)

(* A critical message is never later than the last warning it silences.    *)
SilenceInv ==
    /\ elapsed \in Nat
    /\ lastSent \in [Triggers -> Int]
    /\ \A t \in Triggers : lastSent[t] <= elapsed
    /\ lastSent["cpu_critical"] # -1 => /\ lastSent["cpu_warning"] # -1
                                        /\ lastSent["cpu_warning"] >= lastSent["cpu_critical"]

PerfInv == SamplesInv /\ SilenceInv

(* One more sample, and the oldest gives way when there are too many.      *)
LEMMA OneMoreSample ==
    ASSUME NEW s \in Seq(Reading), NEW last \in Nat, NEW count \in Nat,
           last <= count, Uncounted(s, last, count), NEW new \in Reading, new.id = count + 1
    PROVE  /\ Capped(Append(s, new)) \in Seq(Reading)
           /\ Uncounted(Capped(Append(s, new)), last, count + 1)
<1> DEFINE long == Append(s, new)
<1>1. /\ long \in Seq(Reading) /\ long # <<>> /\ Len(long) = Len(s) + 1 /\ Len(s) \in Nat
      /\ \A i \in 1..Len(s) : long[i] = s[i]
      /\ long[Len(s) + 1] = new
      /\ DOMAIN s = 1..Len(s) /\ DOMAIN long = 1..Len(long)
  BY AppendProperties, LenProperties
<1>2. \A i \in 1..Len(s) : s[i] \in Reading /\ s[i].id \in Nat
  <2>1. \A i \in 1..Len(s) : s[i] \in Reading
    BY ElementOfSeq
  <2>2. 1..MaxSamples \subseteq Nat
    BY PerfAssumption DEF PerfAssumption
  <2> QED
    BY <2>1, <2>2 DEF Reading
<1> HIDE DEF long
<1>3. Uncounted(long, last, count + 1)
  <2> SUFFICES ASSUME NEW i \in DOMAIN long PROVE long[i].id > last /\ long[i].id <= count + 1
    BY DEF Uncounted
  <2>1. CASE i \in 1..Len(s)
    BY <1>1, <1>2, <2>1 DEF Uncounted
  <2>2. CASE i = Len(s) + 1
    BY <1>1, <2>2
  <2>3. i \in 1..Len(s) \/ i = Len(s) + 1
    BY <1>1
  <2> QED
    BY <2>1, <2>2, <2>3
<1>4. Tail(long) \in Seq(Reading) /\ Uncounted(Tail(long), last, count + 1)
  <2>1. /\ Tail(long) \in Seq(Reading) /\ Len(Tail(long)) = Len(long) - 1
        /\ DOMAIN Tail(long) = 1..Len(Tail(long))
        /\ \A i \in 1..Len(Tail(long)) : Tail(long)[i] = long[i + 1]
    BY <1>1, HeadTailProperties, LenProperties
  <2>2. \A i \in DOMAIN Tail(long) : i + 1 \in DOMAIN long
    BY <1>1, <2>1
  <2> QED
    BY <1>3, <2>1, <2>2 DEF Uncounted
<1>5. Capped(long) = long \/ Capped(long) = Tail(long)
  BY DEF Capped
<1> QED
  BY <1>1, <1>3, <1>4, <1>5 DEF long

(* One collector of the sequence changes.                                  *)
LEMMA OneCollector ==
    ASSUME SamplesInv, NEW g \in 1..Now, NEW new \in Collector,
           collectors' = [collectors EXCEPT ![g] = new]
    PROVE  /\ collectors' \in Seq(Collector) /\ Now' = Now
           /\ collectors'[g] = new
           /\ \A j \in 1..Now : j # g => collectors'[j] = collectors[j]
<1>1. collectors \in Seq(Collector) /\ g \in 1..Len(collectors)
  BY DEF SamplesInv, Now
<1>2. /\ [collectors EXCEPT ![g] = new] \in Seq(Collector)
      /\ Len([collectors EXCEPT ![g] = new]) = Len(collectors)
      /\ \A j \in 1..Len(collectors) :
            [collectors EXCEPT ![g] = new][j] = IF j = g THEN new ELSE collectors[j]
  BY <1>1, ExceptSeq
<1> QED
  BY <1>1, <1>2 DEF Now

(* Its samples stay as they were.                                          *)
LEMMA SameSamples ==
    ASSUME SamplesInv, NEW g \in 1..Now, NEW new \in Collector,
           collectors' = [collectors EXCEPT ![g] = new],
           new.accum = collectors[g].accum, UNCHANGED <<taken, seen>>,
           live' \in BOOLEAN, live' => live
    PROVE  SamplesInv'
<1>1. /\ collectors' \in Seq(Collector) /\ Now' = Now /\ Now \in 1..Now
      /\ collectors'[Now].accum = collectors[Now].accum
  <2>1. /\ collectors' \in Seq(Collector) /\ Now' = Now
        /\ collectors'[g] = new
        /\ \A j \in 1..Now : j # g => collectors'[j] = collectors[j]
    BY OneCollector
  <2>2. Now \in 1..Now
    BY DEF SamplesInv
  <2>3. CASE Now = g
    BY <2>1, <2>2, <2>3
  <2>4. CASE Now # g
    BY <2>1, <2>2, <2>4
  <2> QED
    BY <2>1, <2>2, <2>3, <2>4
<1> QED
  BY <1>1 DEF SamplesInv

(* The records of a collector.                                             *)
LEMMA CollectorRecord ==
    ASSUME SamplesInv, NEW g \in 1..Now
    PROVE  /\ collectors[g] \in Collector /\ collectors[g].accum \in Seq(Reading)
           /\ Opened \in Collector /\ <<>> \in Seq(Reading)
           /\ collectors \in Seq(Collector) /\ Now = Len(collectors)
           /\ DOMAIN collectors = 1..Now
<1>1. collectors \in Seq(Collector) /\ g \in 1..Len(collectors)
  BY DEF SamplesInv, Now
<1>2. collectors[g] \in Collector /\ DOMAIN collectors = 1..Len(collectors)
  BY <1>1, ElementOfSeq, LenProperties
<1>3. <<>> \in Seq(Reading)
  BY EmptySeq
<1> QED
  BY <1>1, <1>2, <1>3 DEF Collector, Opened, Now

(* Steps of a sampler, and of a collector being closed, that take no       *)
(* sample.                                                                 *)
LEMMA QuietStep ==
    ASSUME PerfInv,
           \/ \E g \in 1..Now : \/ SamplerTicks(g) \/ SamplerStops(g)
                                \/ SamplerRefused(g) \/ SamplerPanics(g)
           \/ Clock \/ PollDue \/ RegistryChanged \/ CheckNothing
           \/ CloseStops \/ CloseQueries \/ CloseChannel
    PROVE  PerfInv'
<1>1. SamplesInv /\ Now \in 1..Now
  BY DEF PerfInv, SamplesInv
<1>2. SilenceInv'
  <2>1. lastSent' = lastSent /\ elapsed' \in {elapsed, elapsed + 1}
    BY DEF SamplerTicks, SamplerStops, SamplerRefused, SamplerPanics, Clock, PollDue,
           RegistryChanged, CheckNothing, CloseStops, CloseQueries, CloseChannel
  <2>2. \A t \in Triggers : lastSent[t] \in Int
    BY DEF PerfInv, SilenceInv
  <2> QED
    BY <2>1, <2>2 DEF PerfInv, SilenceInv
<1>3. SamplesInv'
  <2>1. UNCHANGED <<taken, seen>>
    BY DEF SamplerTicks, SamplerStops, SamplerRefused, SamplerPanics, Clock, PollDue,
           RegistryChanged, CheckNothing, CloseStops, CloseQueries, CloseChannel
  <2>2. CASE UNCHANGED <<collectors, live>>
    BY <1>1, <2>1, <2>2 DEF SamplesInv, Now
  <2>3. CASE \E g \in 1..Now : \/ SamplerTicks(g) \/ SamplerStops(g)
                              \/ SamplerRefused(g) \/ SamplerPanics(g)
    <3>1. PICK g \in 1..Now : \/ SamplerTicks(g) \/ SamplerStops(g)
                              \/ SamplerRefused(g) \/ SamplerPanics(g)
      BY <2>3
    <3>2. collectors[g] \in Collector
      BY <1>1, CollectorRecord
    <3>3. \/ UNCHANGED <<collectors, live>>
          \/ /\ live' = live
             /\ \E to \in {"waiting", "ticked", "gone"} :
                   collectors' = [collectors EXCEPT ![g].sampler = to]
      BY <3>1 DEF SamplerTicks, SamplerStops, SamplerRefused, SamplerPanics
    <3>4. ASSUME NEW to \in {"waiting", "ticked", "gone"}, live' = live,
                 collectors' = [collectors EXCEPT ![g].sampler = to]
          PROVE  SamplesInv'
      <4> DEFINE new == [collectors[g] EXCEPT !.sampler = to]
      <4>1. new \in Collector /\ new.accum = collectors[g].accum
        BY <3>2 DEF Collector
      <4>2. collectors' = [collectors EXCEPT ![g] = new]
        BY <3>4
      <4> HIDE DEF new
      <4> QED
        BY <1>1, <2>1, <3>4, <4>1, <4>2, SameSamples DEF SamplesInv
    <3> QED
      BY <2>2, <3>3, <3>4
  <2>4. CASE CloseStops \/ CloseQueries \/ CloseChannel
    <3>1. collectors[Now] \in Collector
      BY <1>1, CollectorRecord
    <3>2. live' \in BOOLEAN /\ (live' => live)
      <4>1. live \in BOOLEAN
        BY <1>1 DEF SamplesInv
      <4>2. CASE CloseStops \/ CloseQueries
        BY <4>1, <4>2 DEF CloseStops, CloseQueries
      <4>3. CASE CloseChannel
        BY <4>3 DEF CloseChannel
      <4> QED
        BY <2>4, <4>2, <4>3
    <3>3. \/ collectors' = collectors /\ live' = live
          \/ collectors' = [collectors EXCEPT ![Now] = [@ EXCEPT !.stopped = TRUE]]
          \/ collectors' = [collectors EXCEPT ![Now] = [@ EXCEPT !.queries = FALSE]]
          \/ collectors' = [collectors EXCEPT ![Now] = [@ EXCEPT !.channel = FALSE]]
      BY <2>4 DEF CloseStops, CloseQueries, CloseChannel
    <3>4. ASSUME NEW new \in Collector, new.accum = collectors[Now].accum,
                 collectors' = [collectors EXCEPT ![Now] = new]
          PROVE  SamplesInv'
      BY <1>1, <2>1, <3>2, <3>4, SameSamples
    <3>5. /\ [collectors[Now] EXCEPT !.stopped = TRUE] \in Collector
          /\ [collectors[Now] EXCEPT !.queries = FALSE] \in Collector
          /\ [collectors[Now] EXCEPT !.channel = FALSE] \in Collector
          /\ [collectors[Now] EXCEPT !.stopped = TRUE].accum = collectors[Now].accum
          /\ [collectors[Now] EXCEPT !.queries = FALSE].accum = collectors[Now].accum
          /\ [collectors[Now] EXCEPT !.channel = FALSE].accum = collectors[Now].accum
      BY <3>1 DEF Collector
    <3>6. /\ [collectors EXCEPT ![Now] = [@ EXCEPT !.stopped = TRUE]]
             = [collectors EXCEPT ![Now] = [collectors[Now] EXCEPT !.stopped = TRUE]]
          /\ [collectors EXCEPT ![Now] = [@ EXCEPT !.queries = FALSE]]
             = [collectors EXCEPT ![Now] = [collectors[Now] EXCEPT !.queries = FALSE]]
          /\ [collectors EXCEPT ![Now] = [@ EXCEPT !.channel = FALSE]]
             = [collectors EXCEPT ![Now] = [collectors[Now] EXCEPT !.channel = FALSE]]
      OBVIOUS
    <3> QED
      BY <2>2, <3>3, <3>4, <3>5, <3>6
  <2> QED
    BY <2>2, <2>3, <2>4 DEF Clock, PollDue, RegistryChanged, CheckNothing
<1> QED
  BY <1>2, <1>3 DEF PerfInv

(* The query thread takes a sample for a sampler, of this collector or of  *)
(* one that is being closed.                                               *)
LEMMA CollectStep ==
    ASSUME PerfInv, NEW g \in 1..Now, SamplerCollects(g)
    PROVE  PerfInv'
<1>1. SamplesInv /\ Now \in 1..Now /\ collectors[g] \in Collector
  BY CollectorRecord DEF PerfInv, SamplesInv
<1>2. SilenceInv'
  BY DEF PerfInv, SilenceInv, SamplerCollects
<1>3. live' = live /\ seen' = seen
  BY DEF SamplerCollects
<1>4. CASE ~Collectable(collectors[g])
  <2> DEFINE new == [collectors[g] EXCEPT !.sampler = "waiting"]
  <2>1. collectors' = [collectors EXCEPT ![g] = new] /\ UNCHANGED taken
    BY <1>4 DEF SamplerCollects
  <2>2. new \in Collector /\ new.accum = collectors[g].accum
    BY <1>1 DEF Collector
  <2> HIDE DEF new
  <2>3. SamplesInv'
    BY <1>1, <1>3, <2>1, <2>2, SameSamples DEF SamplesInv
  <2> QED
    BY <1>2, <2>3 DEF PerfInv
<1>5. CASE Collectable(collectors[g])
  <2>1. PICK reading \in NewSamples :
            collectors' = [collectors EXCEPT
                ![g] = [Sampled(collectors[g]) EXCEPT
                           !.sampler = "waiting",
                           !.accum = Capped(Append(@, reading))]]
    BY <1>5 DEF SamplerCollects
  <2>2. taken < MaxSamples /\ taken' = taken + 1
    BY <1>5 DEF SamplerCollects, CountSample
  <2>3. taken \in Nat /\ taken' \in 0..MaxSamples /\ seen' \in Nat /\ seen' <= taken'
    BY <1>1, <1>3, <2>2, PerfAssumption DEF SamplesInv, PerfAssumption
  <2>4. reading \in Reading /\ reading.id = taken + 1
    <3>1. taken + 1 \in 1..MaxSamples
      BY <1>1, <2>2, PerfAssumption DEF SamplesInv, PerfAssumption
    <3> QED
      BY <2>1, <3>1 DEF NewSamples, Reading
  <2> DEFINE new == [collectors[g] EXCEPT
                        !.skip = FALSE, !.sampler = "waiting",
                        !.accum = Capped(Append(collectors[g].accum, reading))]
  <2>5. collectors' = [collectors EXCEPT ![g] = new]
    BY <1>1, <2>1 DEF Sampled, Collector
  <2>6. /\ collectors[g].accum \in Seq(Reading)
        /\ Capped(Append(collectors[g].accum, reading)) \in Seq(Reading)
    <3>1. collectors[g].accum \in Seq(Reading)
      BY <1>1, CollectorRecord
    <3>2. Append(collectors[g].accum, reading) \in Seq(Reading)
          /\ Append(collectors[g].accum, reading) # <<>>
      BY <2>4, <3>1, AppendProperties
    <3>3. Tail(Append(collectors[g].accum, reading)) \in Seq(Reading)
      BY <3>2, HeadTailProperties
    <3> QED
      BY <3>1, <3>2, <3>3 DEF Capped
  <2>7. new \in Collector /\ new.accum = Capped(Append(collectors[g].accum, reading))
    BY <1>1, <2>6 DEF Collector
  <2> HIDE DEF new
  <2>8. /\ collectors' \in Seq(Collector) /\ Now' = Now
        /\ collectors'[g] = new
        /\ \A j \in 1..Now : j # g => collectors'[j] = collectors[j]
    BY <1>1, <2>5, <2>7, OneCollector
  <2>9. ASSUME live PROVE Uncounted(collectors'[Now].accum, seen, taken + 1)
    <3>1. Uncounted(collectors[Now].accum, seen, taken) /\ seen \in Nat /\ seen <= taken
      BY <1>1, <2>9 DEF SamplesInv
    <3>2. CASE Now = g
      BY <2>3, <2>4, <2>6, <2>7, <2>8, <3>1, <3>2, OneMoreSample
    <3>3. CASE Now # g
      <4>1. /\ collectors[Now].accum \in Seq(Reading)
            /\ collectors'[Now] = collectors[Now]
        BY <1>1, <2>8, <3>3, CollectorRecord
      <4>2. \A i \in DOMAIN collectors[Now].accum : collectors[Now].accum[i].id \in Nat
        <5>1. 1..MaxSamples \subseteq Nat
          BY PerfAssumption DEF PerfAssumption
        <5>2. \A i \in DOMAIN collectors[Now].accum : collectors[Now].accum[i] \in Reading
          BY <4>1, ElementOfSeq, LenProperties
        <5> QED
          BY <5>1, <5>2 DEF Reading
      <4> QED
        BY <2>3, <3>1, <4>1, <4>2 DEF Uncounted
    <3> QED
      BY <3>2, <3>3
  <2>10. SamplesInv'
    BY <1>1, <1>3, <2>2, <2>3, <2>8, <2>9 DEF SamplesInv
  <2> QED
    BY <1>2, <2>10 DEF PerfInv
<1> QED
  BY <1>4, <1>5

(* A warning is only sent when neither it nor a critical message is recent.*)
LEMMA SendStep ==
    ASSUME SilenceInv, NEW t \in Triggers \union {"none"}, SendNotification(t),
           elapsed' = elapsed
    PROVE  /\ SilenceInv'
           /\ (announced'.what = "cpu_warning" /\ lastSent["cpu_critical"] # -1) =>
                 RepeatAfter > 0 /\ elapsed - lastSent["cpu_critical"] >= RepeatAfter
<1>1. /\ RepeatAfter \in Nat /\ elapsed \in Nat
      /\ \A u \in Triggers : lastSent[u] \in Int /\ lastSent[u] <= elapsed
      /\ lastSent["cpu_critical"] # -1 =>
            /\ lastSent["cpu_warning"] # -1
            /\ lastSent["cpu_warning"] >= lastSent["cpu_critical"]
  BY PerfAssumption DEF SilenceInv, PerfAssumption
<1>2. "cpu_warning" \in Triggers /\ "cpu_critical" \in Triggers /\ "none" \notin Triggers
  BY DEF Triggers
<1>3. CASE t # "none" /\ Due(t)
  <2>1. /\ lastSent' = [u \in Triggers |-> IF u \in {t} \union Superseded(t)
                                           THEN elapsed ELSE lastSent[u]]
        /\ announced' = [what |-> t, at |-> elapsed]
    BY <1>3 DEF SendNotification
  <2>2. SilenceInv'
    BY <1>1, <1>2, <1>3, <2>1 DEF SilenceInv, Superseded, Triggers
  <2>3. CASE t = "cpu_warning"
    <3>1. lastSent["cpu_warning"] = -1
          \/ (RepeatAfter > 0 /\ elapsed - lastSent["cpu_warning"] >= RepeatAfter)
      BY <1>3, <2>3 DEF Due
    <3> QED
      BY <1>1, <1>2, <2>2, <3>1
  <2>4. CASE t # "cpu_warning"
    BY <2>1, <2>2, <2>4
  <2> QED
    BY <2>3, <2>4
<1>4. CASE ~(t # "none" /\ Due(t))
  <2>1. lastSent' = lastSent /\ announced' = Nothing
    BY <1>4 DEF SendNotification
  <2> QED
    BY <2>1 DEF SilenceInv, Nothing
<1> QED
  BY <1>3, <1>4

(* An evaluation empties what has accumulated and moves "seen" past it.    *)
LEMMA CheckStep ==
    ASSUME PerfInv, CheckAccumulated \/ CheckDirectly
    PROVE  /\ PerfInv'
           /\ (announced'.what = "cpu_warning" /\ lastSent["cpu_critical"] # -1) =>
                 RepeatAfter > 0 /\ elapsed - lastSent["cpu_critical"] >= RepeatAfter
<1>1. /\ SamplesInv /\ SilenceInv /\ Now \in 1..Now /\ live /\ live' /\ elapsed' = elapsed
      /\ collectors[Now] \in Collector /\ collectors[Now].accum \in Seq(Reading)
      /\ <<>> \in Seq(Reading)
  <2>1. SamplesInv /\ SilenceInv /\ Now \in 1..Now
    BY DEF PerfInv, SamplesInv
  <2> QED
    BY <2>1, CollectorRecord DEF CheckAccumulated, CheckDirectly
<1>2. \A n : Raised(n) \in Triggers \union {"none"}
  BY DEF Raised, Triggers
<1>3. ASSUME NEW s, Evaluate(s)
      PROVE  /\ SilenceInv' /\ seen' = s[Len(s)].id
             /\ (announced'.what = "cpu_warning" /\ lastSent["cpu_critical"] # -1) =>
                   RepeatAfter > 0 /\ elapsed - lastSent["cpu_critical"] >= RepeatAfter
  BY <1>1, <1>2, <1>3, SendStep DEF Evaluate
<1>4. CASE CheckAccumulated
  <2> DEFINE s == collectors[Now].accum
             new == [collectors[Now] EXCEPT !.accum = <<>>]
  <2>1. /\ s # <<>> /\ Evaluate(s) /\ taken' = taken /\ live' = live
        /\ collectors' = [collectors EXCEPT ![Now] = new]
    BY <1>4 DEF CheckAccumulated, Drained
  <2>2. Len(s) \in DOMAIN s /\ s[Len(s)] \in Reading
    <3>1. Len(s) \in Nat \ {0} /\ DOMAIN s = 1..Len(s)
      BY <1>1, <2>1, EmptySeq, LenProperties
    <3> QED
      BY <1>1, <3>1, ElementOfSeq
  <2>3. seen' \in Nat /\ seen' <= taken'
    <3>1. s[Len(s)].id \in Nat
      BY <2>2, PerfAssumption DEF Reading, PerfAssumption
    <3>2. s[Len(s)].id <= taken
      BY <1>1, <2>2 DEF SamplesInv, Uncounted
    <3> QED
      BY <1>3, <2>1, <3>1, <3>2
  <2>4. new \in Collector /\ new.accum = <<>>
    BY <1>1 DEF Collector
  <2>5. /\ collectors' \in Seq(Collector) /\ Now' = Now /\ collectors'[Now] = new
    BY <1>1, <2>1, <2>4, OneCollector
  <2>6. Uncounted(<<>>, seen', taken')
    BY DEF Uncounted
  <2>7. SamplesInv'
    BY <1>1, <2>1, <2>3, <2>4, <2>5, <2>6 DEF SamplesInv
  <2> QED
    BY <1>3, <2>1, <2>7 DEF PerfInv
<1>5. CASE CheckDirectly
  <2> DEFINE new == [collectors[Now] EXCEPT !.skip = FALSE]
  <2>1. PICK reading \in NewSamples : Evaluate(<<reading>>)
    BY <1>5 DEF CheckDirectly
  <2>2. /\ collectors[Now].accum = <<>> /\ taken < MaxSamples /\ taken' = taken + 1
        /\ live' = live /\ collectors' = [collectors EXCEPT ![Now] = new]
    BY <1>5 DEF CheckDirectly, CountSample, Sampled
  <2>3. taken \in Nat /\ taken' \in 0..MaxSamples
    BY <1>1, <2>2, PerfAssumption DEF SamplesInv, PerfAssumption
  <2>4. seen' = taken'
    BY <1>3, <2>1, <2>2 DEF NewSamples
  <2>5. new \in Collector /\ new.accum = <<>>
    BY <1>1, <2>2 DEF Collector
  <2>6. /\ collectors' \in Seq(Collector) /\ Now' = Now /\ collectors'[Now] = new
    BY <1>1, <2>2, <2>5, OneCollector
  <2>7. Uncounted(<<>>, seen', taken')
    BY DEF Uncounted
  <2>8. SamplesInv'
    BY <1>1, <2>2, <2>3, <2>4, <2>5, <2>6, <2>7 DEF SamplesInv
  <2> QED
    BY <1>3, <2>1, <2>8 DEF PerfInv
<1> QED
  BY <1>4, <1>5

LEMMA OpenAgainStep ==
    ASSUME PerfInv, OpenAgain
    PROVE  PerfInv'
<1> DEFINE broken == [Opened EXCEPT !.queries = FALSE, !.channel = FALSE,
                                    !.stopped = TRUE, !.sampler = "gone"]
<1>1. Opened \in Collector /\ Opened.accum = <<>> /\ broken \in Collector
  <2>1. <<>> \in Seq(Reading)
    BY EmptySeq
  <2> QED
    BY <2>1 DEF Opened, Collector
<1> HIDE DEF broken
<1>2. \/ collectors' = Append(collectors, Opened) /\ live' = TRUE
      \/ collectors' = Append(collectors, broken) /\ live' = FALSE
  BY DEF OpenAgain, broken
<1>3. UNCHANGED <<taken, seen, elapsed, lastSent>>
  BY DEF OpenAgain
<1>4. collectors \in Seq(Collector) /\ Len(collectors) \in Nat
  BY LenProperties DEF PerfInv, SamplesInv
<1>5. ASSUME NEW new \in Collector, collectors' = Append(collectors, new)
      PROVE  /\ collectors' \in Seq(Collector) /\ Now' \in Nat \ {0}
             /\ collectors'[Now'] = new
  <2>1. /\ Append(collectors, new) \in Seq(Collector)
        /\ Len(Append(collectors, new)) = Len(collectors) + 1
        /\ Append(collectors, new)[Len(collectors) + 1] = new
    BY <1>4, AppendProperties
  <2> QED
    BY <1>4, <1>5, <2>1 DEF Now
<1>6. Uncounted(<<>>, seen', taken')
  BY DEF Uncounted
<1>7. SamplesInv'
  BY <1>1, <1>2, <1>3, <1>5, <1>6 DEF PerfInv, SamplesInv
<1>8. SilenceInv'
  BY <1>3 DEF PerfInv, SilenceInv
<1> QED
  BY <1>7, <1>8 DEF PerfInv

(* No sample counts in two evaluations, whoever took it and whenever the   *)
(* collector was replaced, and no warning follows a critical message       *)
(* within its repeat interval.                                             *)
THEOREM AlertsAreForLastingLoad == PerfSpec => AlertsAreEarned
<1>1. PerfInit => PerfInv
  <2> SUFFICES ASSUME PerfInit PROVE PerfInv
    OBVIOUS
  <2>1. Opened \in Collector /\ Opened.accum = <<>>
    <3>1. <<>> \in Seq(Reading)
      BY EmptySeq
    <3> QED
      BY <3>1 DEF Opened, Collector
  <2>2. collectors \in Seq(Collector) /\ Now = 1 /\ collectors[1] = Opened
    <3> HIDE DEF Opened
    <3>1. collectors = Append(<<>>, Opened)
      BY DEF PerfInit
    <3>2. <<>> \in Seq(Collector) /\ Len(<<>>) = 0
      BY EmptySeq
    <3> QED
      BY <2>1, <3>1, <3>2, AppendProperties DEF Now
  <2>3. SamplesInv
    BY <2>1, <2>2, PerfAssumption DEF PerfInit, SamplesInv, Uncounted, PerfAssumption
  <2>4. SilenceInv
    BY DEF PerfInit, SilenceInv, Triggers
  <2> QED
    BY <2>3, <2>4 DEF PerfInv
<1>2. PerfInv /\ [PerfNext]_perfVars => PerfInv'
  <2> SUFFICES ASSUME PerfInv, [PerfNext]_perfVars PROVE PerfInv'
    OBVIOUS
  <2>1. CASE UNCHANGED perfVars
    BY <2>1 DEF perfVars, PerfInv, SamplesInv, SilenceInv, Now
  <2> QED
    BY <2>1, QuietStep, CollectStep, CheckStep, OpenAgainStep DEF PerfNext
<1>3. PerfInv => SamplesCountOnce
  BY DEF PerfInv, SamplesInv, SamplesCountOnce, Uncounted
<1>4. PerfInv /\ [PerfNext]_perfVars =>
        [(announced'.what = "cpu_warning" /\ announced' # announced
            /\ lastSent["cpu_critical"] # -1)
          => (RepeatAfter > 0
                /\ elapsed - lastSent["cpu_critical"] >= RepeatAfter)]_perfVars
  <2> SUFFICES ASSUME PerfInv, PerfNext, announced'.what = "cpu_warning",
                      announced' # announced, lastSent["cpu_critical"] # -1
               PROVE  RepeatAfter > 0
                        /\ elapsed - lastSent["cpu_critical"] >= RepeatAfter
    BY DEF perfVars
  <2>1. CheckAccumulated \/ CheckDirectly
    <3>1. ~(\E g \in 1..Now :
               \/ SamplerTicks(g) \/ SamplerStops(g)
               \/ SamplerCollects(g) \/ SamplerRefused(g) \/ SamplerPanics(g))
      BY DEF SamplerTicks, SamplerStops, SamplerCollects, SamplerRefused, SamplerPanics
    <3>2. ~(Clock \/ PollDue \/ RegistryChanged)
      BY DEF Clock, PollDue, RegistryChanged
    <3>3. ~(CloseStops \/ CloseQueries \/ CloseChannel \/ OpenAgain)
      BY DEF CloseStops, CloseQueries, CloseChannel, OpenAgain
    <3>4. ~CheckNothing
      BY DEF CheckNothing, Nothing
    <3> QED
      BY <3>1, <3>2, <3>3, <3>4 DEF PerfNext
  <2> QED
    BY <2>1, CheckStep
<1> QED
  BY <1>1, <1>2, <1>3, <1>4, PTL DEF PerfSpec, AlertsAreEarned, CriticalSilencesWarning

(***************************************************************************)
(* The baseline of the event-spike detector, for any number of channels,   *)
(* reloads, resets, crashes and failed writes.                             *)
(***************************************************************************)

(* A baseline file holds what detectors have learned, none of it after a   *)
(* reset that has yet to begin.                                            *)
WellKept(f) ==
    /\ f.warmup <= bucket
    /\ \A c \in Channels :
          f.kept[c] # NoDetector => f.kept[c].n >= 0 /\ f.kept[c].era <= begun

FilesFit ==
    /\ warmup <= bucket
    /\ WellKept(disk) /\ WellKept(hand.file) /\ WellKept(reset.file)

(* What is in hand tells where the service is; only one that is live, or   *)
(* is being stopped, has detectors.  Nothing is promised during a reset.   *)
RunsAsWanted ==
    /\ wanted # {}
    /\ phase = "starting" <=> hand.use = "read"
    /\ hand.use = "write" => phase = "live"
    /\ hand.use = "stop" => phase \in {"off", "idle", "restarting"}
    /\ phase = "live" => warmup >= 0 /\ \A c \in wanted : detectors[c] # NoDetector
    /\ \A c \in Channels :
          detectors[c] # NoDetector =>
              /\ c \in wanted /\ detectors[c].n >= 0 /\ detectors[c].era <= begun
              /\ phase = "live" \/ hand.use = "stop"
    /\ reset.at # "none" => started = MaxBucket /\ \A c \in Channels : floor[c] = 0

(* A channel that the configuration has dropped is forgotten.              *)
DroppedForgotten ==
    \A c \in Channels \ wanted : floor[c] = 0 /\ alerted[c] = Never

Covered(c, n) == floor[c] = 0 \/ floor[c] <= n

(* A file has what was made durable, and the time of each last alert.      *)
Saves(f) ==
    /\ \A c \in Channels : Covered(c, f.kept[c].n)
    /\ started # MaxBucket => f.warmup # -1 /\ f.warmup <= started
Recalls(f) == \A c \in Channels : alerted[c] <= f.kept[c].last

(* What a write has made durable is in the file, in memory and in whatever *)
(* is in hand, and wherever the next detector comes from has the alerts.   *)
SavedIsThere ==
    "wiped" \notin harm =>
        /\ Saves(disk) /\ (hand.use # "none" => Saves(hand.file))
        /\ phase = "live" => /\ warmup <= started
                             /\ \A c \in wanted : /\ Covered(c, detectors[c].n)
                                                  /\ alerted[c] <= detectors[c].last
        /\ hand.use \in {"read", "stop"} => Recalls(hand.file)
        /\ phase # "live" /\ hand.use = "none" => Recalls(disk)

(* Nothing from before the last completed reset is anywhere.               *)
ResetIsKept ==
    "stale" \notin harm =>
        ~Outdated(disk) /\ ~Outdated(hand.file) /\ ~Old(detectors, resets)

(* A snapshot on its way to the file is of the detectors that are running, *)
(* or of those that a reset has replaced since.                            *)
SnapshotFits ==
    hand.use = "write" =>
        /\ \A c \in wanted : hand.file.kept[c] # NoDetector
        /\ \/ /\ hand.file.warmup = warmup
              /\ \A c \in wanted : /\ hand.file.kept[c].era = detectors[c].era
                                   /\ hand.file.kept[c].n <= detectors[c].n
           \/ \A c \in wanted : hand.file.kept[c].era < detectors[c].era

(* A subscription that is retried has a try left.                          *)
TriesLeft ==
    \A c \in Channels : subs[c].state = "retrying" => subs[c].attempts < MaxTries

SpikeInv ==
    /\ SpikeTypeOK /\ TriesLeft /\ RunsAsWanted /\ FilesFit /\ DroppedForgotten
    /\ SavedIsThere /\ ResetIsKept /\ SnapshotFits

(* The record of no detector is a record of a detector.                    *)
LEMMA NoDetectorFits ==
    /\ NoDetector \in Detector /\ NoDetector.n = -1 /\ NoDetector.era = 0
    /\ NoDetector.last = Never /\ NoDetector.flags = 0 /\ Never <= 0 /\ Never \in Int
  BY SpikeAssumption DEF NoDetector, Detector, Never

LEMMA NoFileFits ==
    /\ NoFile \in File /\ NoFile.warmup = -1
    /\ \A c \in Channels : NoFile.kept[c] = NoDetector
  BY NoDetectorFits, SpikeAssumption DEF NoFile, File

(* The numbers in a file, and of the state.                                *)
LEMMA FileNumbers ==
    ASSUME NEW f \in File
    PROVE  /\ f.warmup \in -1..MaxBucket /\ f.warmup \in Int
           /\ \A c \in Channels :
                 /\ f.kept[c] \in Detector
                 /\ f.kept[c].n \in -1..MaxLearned /\ f.kept[c].n \in Int
                 /\ f.kept[c].era \in 0..MaxActs /\ f.kept[c].era \in Nat
                 /\ f.kept[c].last \in Never..MaxBucket /\ f.kept[c].last \in Int
                 /\ Never <= f.kept[c].last
  <1> USE SpikeAssumption
  <1>1. f.warmup \in -1..MaxBucket /\ \A c \in Channels : f.kept[c] \in Detector
    BY DEF File
  <1>2. \A d \in Detector : /\ d.n \in -1..MaxLearned /\ d.n \in Int
                            /\ d.era \in 0..MaxActs /\ d.era \in Nat
                            /\ d.last \in Never..MaxBucket /\ d.last \in Int
                            /\ Never <= d.last
    BY NoDetectorFits DEF Detector
  <1>3. f.warmup \in Int
    BY <1>1
  <1> QED  BY <1>1, <1>2, <1>3

LEMMA SpikeNumbers ==
    ASSUME SpikeTypeOK
    PROVE  /\ bucket \in Nat /\ bucket <= MaxBucket /\ acts \in 0..MaxActs
           /\ begun \in 0..MaxActs /\ begun \in Nat /\ resets \in Nat /\ resets <= begun
           /\ warmup \in -1..MaxBucket /\ warmup \in Int
           /\ started \in 0..MaxBucket /\ started \in Int
           /\ disk \in File /\ hand.file \in File /\ reset.file \in File
           /\ wanted \subseteq Channels
           /\ detectors \in [Channels -> Detector]
           /\ \A c \in Channels :
                 /\ detectors[c] \in Detector
                 /\ detectors[c].n \in -1..MaxLearned /\ detectors[c].n \in Int
                 /\ detectors[c].era \in 0..MaxActs /\ detectors[c].era \in Nat
                 /\ detectors[c].last \in Never..MaxBucket /\ detectors[c].last \in Int
                 /\ Never <= detectors[c].last
                 /\ floor[c] \in 0..MaxLearned /\ floor[c] \in Nat
                 /\ alerted[c] \in Never..MaxBucket /\ alerted[c] \in Int
  <1> USE SpikeAssumption
  <1>1. /\ bucket \in 0..MaxBucket /\ acts \in 0..MaxActs /\ begun \in 0..acts
        /\ resets \in 0..begun /\ warmup \in -1..MaxBucket /\ started \in 0..MaxBucket
        /\ disk \in File /\ hand.file \in File /\ reset.file \in File
        /\ wanted \subseteq Channels /\ detectors \in [Channels -> Detector]
        /\ floor \in [Channels -> 0..MaxLearned] /\ alerted \in [Channels -> Never..MaxBucket]
    BY DEF SpikeTypeOK
  <1>2. \A d \in Detector : /\ d.n \in -1..MaxLearned /\ d.n \in Int
                            /\ d.era \in 0..MaxActs /\ d.era \in Nat
                            /\ d.last \in Never..MaxBucket /\ d.last \in Int
                            /\ Never <= d.last
    BY NoDetectorFits DEF Detector
  <1>3. /\ bucket \in Nat /\ bucket <= MaxBucket /\ begun \in 0..MaxActs /\ begun \in Nat
        /\ resets \in Nat /\ resets <= begun /\ warmup \in Int /\ started \in Int
    BY <1>1
  <1>4. ASSUME NEW c \in Channels
        PROVE  /\ floor[c] \in 0..MaxLearned /\ floor[c] \in Nat
               /\ alerted[c] \in Never..MaxBucket /\ alerted[c] \in Int
    <2>1. floor[c] \in 0..MaxLearned /\ alerted[c] \in Never..MaxBucket
      BY <1>1
    <2> QED  BY <2>1, NoDetectorFits
  <1> QED  BY <1>1, <1>2, <1>3, <1>4

(* What is in a snapshot of the detectors: all but their flags.            *)
LEMMA SnapshotKeeps ==
    ASSUME NEW dets \in [Channels -> Detector], NEW began \in -1..MaxBucket
    PROVE  /\ Snapshot(dets, began) \in File
           /\ Snapshot(dets, began).warmup = began
           /\ \A c \in Channels :
                 /\ Snapshot(dets, began).kept[c].n = dets[c].n
                 /\ Snapshot(dets, began).kept[c].era = dets[c].era
                 /\ Snapshot(dets, began).kept[c].last = dets[c].last
                 /\ dets[c] = NoDetector => Snapshot(dets, began).kept[c] = NoDetector
  <1>1. \A c \in Channels : [dets[c] EXCEPT !.flags = 0] \in Detector
    BY DEF Detector
  <1>2. Snapshot(dets, began) \in File
    BY <1>1 DEF Snapshot, File
  <1>3. \A c \in Channels : Snapshot(dets, began).kept[c] = [dets[c] EXCEPT !.flags = 0]
    BY DEF Snapshot
  <1>4. ASSUME NEW c \in Channels
        PROVE  LET k == [dets[c] EXCEPT !.flags = 0]
               IN  /\ k.n = dets[c].n /\ k.era = dets[c].era /\ k.last = dets[c].last
                   /\ dets[c] = NoDetector => k = NoDetector
    <2>1. dets[c] \in Detector
      OBVIOUS
    <2> QED  BY <2>1 DEF Detector, NoDetector
  <1> QED  BY <1>2, <1>3, <1>4 DEF Snapshot

(* A snapshot of the running detectors is as good a file as they are.      *)
LEMMA SnapshotOfNow ==
    ASSUME SpikeInv
    PROVE  LET g == Snapshot(detectors, warmup)
           IN  /\ g \in File /\ WellKept(g) /\ g.warmup = warmup
               /\ \A c \in Channels : /\ g.kept[c].n = detectors[c].n
                                      /\ g.kept[c].era = detectors[c].era
                                      /\ g.kept[c].last = detectors[c].last
                                      /\ g.kept[c] = NoDetector <=> detectors[c] = NoDetector
               /\ Old(g.kept, resets) <=> Old(detectors, resets)
               /\ phase = "live" /\ "wiped" \notin harm => Saves(g) /\ Recalls(g)
  <1> DEFINE g == Snapshot(detectors, warmup)
  <1>1. /\ g \in File /\ g.warmup = warmup
        /\ \A c \in Channels : /\ g.kept[c].n = detectors[c].n
                               /\ g.kept[c].era = detectors[c].era
                               /\ g.kept[c].last = detectors[c].last
                               /\ detectors[c] = NoDetector => g.kept[c] = NoDetector
    BY SpikeNumbers, SnapshotKeeps DEF SpikeInv
  <1> HIDE DEF g
  <1>2. /\ RunsAsWanted /\ FilesFit /\ SavedIsThere /\ DroppedForgotten /\ SpikeTypeOK
    BY DEF SpikeInv
  <1>3. \A c \in Channels : g.kept[c] = NoDetector <=> detectors[c] = NoDetector
    <2> SUFFICES ASSUME NEW c \in Channels, g.kept[c] = NoDetector, detectors[c] # NoDetector
                 PROVE  FALSE
      BY <1>1
    <2>1. detectors[c].n >= 0 /\ g.kept[c].n = -1 /\ g.kept[c].n = detectors[c].n
      BY <1>1, <1>2, NoDetectorFits DEF RunsAsWanted
    <2> QED  BY <2>1
  <1>4. WellKept(g)
    BY <1>1, <1>2, <1>3 DEF WellKept, FilesFit, RunsAsWanted
  <1>5. Old(g.kept, resets) <=> Old(detectors, resets)
    BY <1>1, <1>3 DEF Old
  <1>6. ASSUME phase = "live", "wiped" \notin harm PROVE Saves(g) /\ Recalls(g)
    <2>1. /\ warmup <= started /\ warmup >= 0
          /\ \A c \in wanted : Covered(c, detectors[c].n) /\ alerted[c] <= detectors[c].last
      BY <1>2, <1>6 DEF SavedIsThere, RunsAsWanted
    <2>2. \A c \in Channels : c \notin wanted => floor[c] = 0 /\ alerted[c] = Never
      BY <1>2 DEF DroppedForgotten
    <2>3. Recalls(g)
      BY <1>1, <1>2, <2>1, <2>2, SpikeNumbers DEF Recalls
    <2>4. Saves(g)
      BY <1>1, <1>2, <2>1, <2>2, SpikeNumbers DEF Saves, Covered
    <2> QED  BY <2>3, <2>4
  <1> QED  BY <1>1, <1>3, <1>4, <1>5, <1>6 DEF g

(* What replacing the file makes durable.                                  *)
LEMMA ReplaceKeeps ==
    ASSUME SpikeTypeOK, NEW f \in File, Replace(f)
    PROVE  /\ disk' = f
           /\ floor' \in [Channels -> 0..MaxLearned] /\ started' \in 0..MaxBucket
           /\ \A c \in Channels :
                 /\ c \notin wanted => floor'[c] = 0
                 /\ \/ floor'[c] = 0 \/ floor'[c] = floor[c]
                    \/ Promises(f) /\ floor'[c] = f.kept[c].n
           /\ \/ started' = started
              \/ Promises(f) /\ f.warmup # -1 /\ started' = f.warmup
  <1>1. disk' = f
    BY DEF Replace
  <1>2. f.warmup \in -1..MaxBucket /\ \A c \in Channels : f.kept[c].n \in -1..MaxLearned
    BY DEF File, Detector
  <1>3. floor \in [Channels -> 0..MaxLearned] /\ started \in 0..MaxBucket
    BY DEF SpikeTypeOK
  <1>4. ASSUME NEW c \in Channels
        PROVE  /\ floor'[c] \in 0..MaxLearned
               /\ c \notin wanted => floor'[c] = 0
               /\ \/ floor'[c] = 0 \/ floor'[c] = floor[c]
                  \/ Promises(f) /\ floor'[c] = f.kept[c].n
    BY <1>2, <1>3, SpikeAssumption DEF Replace
  <1>5. floor' = [c \in Channels |-> floor'[c]]
    BY DEF Replace
  <1>6. floor' \in [Channels -> 0..MaxLearned]
    BY <1>4, <1>5
  <1>7. started' \in 0..MaxBucket
    BY <1>2, <1>3, SpikeAssumption DEF Replace
  <1>8. \/ started' = started
        \/ Promises(f) /\ f.warmup # -1 /\ started' = f.warmup
    BY DEF Replace
  <1> QED  BY <1>1, <1>4, <1>6, <1>7, <1>8

LEMMA SpikeStarts == SpikeInit => SpikeInv
  <1> SUFFICES ASSUME SpikeInit PROVE SpikeInv
    OBVIOUS
  <1> USE SpikeAssumption, NoDetectorFits, NoFileFits
  <1>1. SpikeTypeOK
    <2>1. /\ hand \in [use : {"none", "read", "write", "stop"}, file : File]
          /\ reset \in [at : {"none", "wiped", "removed"}, file : File]
      BY DEF SpikeInit, Free, NoReset
    <2>2. subs \in [Channels -> [state : {"none", "subscribed", "retrying", "failed"},
                                 attempts : 0..MaxTries]]
      BY DEF SpikeInit, NoSub
    <2>3. /\ alerted \in [Channels -> Never..MaxBucket] /\ disk \in File
          /\ detectors \in [Channels -> Detector]
      BY DEF SpikeInit
    <2>4. /\ bucket = 0 /\ acts = 0 /\ begun = 0 /\ resets = 0 /\ warmup = -1 /\ started = MaxBucket
          /\ enabled = TRUE /\ phase = "off" /\ harm = {} /\ wanted = Channels
          /\ floor = [c \in Channels |-> 0]
      BY DEF SpikeInit
    <2>5. /\ bucket \in 0..MaxBucket /\ acts \in 0..MaxActs /\ begun \in 0..acts
          /\ resets \in 0..begun /\ warmup \in -1..MaxBucket /\ started \in 0..MaxBucket
          /\ floor \in [Channels -> 0..MaxLearned]
      BY <2>4
    <2>6. enabled \in BOOLEAN /\ wanted \subseteq Channels
          /\ phase \in {"off", "idle", "starting", "live", "restarting"}
          /\ harm \subseteq {"stale", "wiped"}
      BY <2>4
    <2> QED  BY <2>1, <2>2, <2>3, <2>5, <2>6 DEF SpikeTypeOK
  <1>2. disk = NoFile /\ hand.file = NoFile /\ reset.file = NoFile /\ hand.use = "none"
        /\ reset.at = "none"
    BY DEF SpikeInit, Free, NoReset
  <1>3. FilesFit
    <2>1. WellKept(NoFile) /\ warmup <= bucket
      BY DEF SpikeInit, WellKept
    <2> QED  BY <1>2, <2>1 DEF FilesFit
  <1>4. RunsAsWanted /\ DroppedForgotten
    BY <1>2 DEF SpikeInit, RunsAsWanted, DroppedForgotten
  <1>5. SavedIsThere
    BY <1>2 DEF SpikeInit, SavedIsThere, Saves, Recalls, Covered
  <1>6. ResetIsKept
    BY <1>2 DEF SpikeInit, ResetIsKept, Outdated, Old
  <1>7. SnapshotFits /\ TriesLeft
    BY <1>2 DEF SpikeInit, SnapshotFits, TriesLeft, NoSub
  <1> QED  BY <1>1, <1>3, <1>4, <1>5, <1>6, <1>7 DEF SpikeInv

(* What a detector is given from the file it is built from.                *)
LEMMA HydratedFits ==
    ASSUME NEW f \in File, NEW c \in Channels, NEW era \in 0..MaxActs,
           f.kept[c] # NoDetector => f.kept[c].n >= 0
    PROVE  /\ Hydrated(f, c, era) \in Detector
           /\ Hydrated(f, c, era).n >= 0
           /\ Hydrated(f, c, era).n >= f.kept[c].n
           /\ Hydrated(f, c, era).last = f.kept[c].last
           /\ \/ Hydrated(f, c, era).era = era
              \/ f.kept[c] # NoDetector /\ Hydrated(f, c, era).era = f.kept[c].era
  <1>1. f.kept[c] \in Detector
    BY DEF File
  <1>2. Fresh(era) \in Detector /\ Fresh(era).n = 0 /\ Fresh(era).era = era /\ Fresh(era).last = Never
    BY SpikeAssumption DEF Fresh, Detector, Never
  <1>3. CASE f.kept[c] = NoDetector
    BY <1>2, <1>3, NoDetectorFits DEF Hydrated
  <1>4. CASE f.kept[c] # NoDetector
    BY <1>1, <1>4 DEF Hydrated, Detector
  <1> QED  BY <1>3, <1>4

(* What a bucket does to a detector: it never knows less, and an alert is  *)
(* a cooldown after the one before.                                        *)
LEMMA ObserveFits ==
    ASSUME NEW d \in Detector, NEW now \in 0..MaxBucket, NEW a \in BOOLEAN, d.n >= 0
    PROVE  /\ Observe(d, now, a) \in Detector
           /\ Observe(d, now, a).n >= d.n /\ Observe(d, now, a).era = d.era
           /\ \/ Observe(d, now, a).last = d.last
              \/ Observe(d, now, a).last = now /\ now - d.last >= Cooldown
  <1> USE SpikeAssumption
  <1> DEFINE flags == PushFlag(d.flags, a)
             alert == Confirmed(flags) /\ now - d.last >= Cooldown
  <1>1. d.n \in 0..MaxLearned /\ d.era \in 0..MaxActs /\ d.last \in Never..MaxBucket /\ d.flags \in 0..7
    BY DEF Detector
  <1>2. flags \in 0..7
    BY <1>1 DEF PushFlag
  <1>3. Observe(d, now, a) = [n |-> IF d.n < MaxLearned THEN d.n + 1 ELSE d.n, era |-> d.era,
                              last |-> IF alert THEN now ELSE d.last, flags |-> flags]
    BY DEF Observe
  <1> HIDE DEF flags
  <1>4. (IF alert THEN now ELSE d.last) \in Never..MaxBucket
    BY <1>1, NoDetectorFits
  <1> DEFINE l == IF alert THEN now ELSE d.last
             m == IF d.n < MaxLearned THEN d.n + 1 ELSE d.n
  <1>5. l = d.last \/ (l = now /\ now - d.last >= Cooldown)
    OBVIOUS
  <1>6. m \in 0..MaxLearned /\ m >= d.n
    BY <1>1
  <1>7. Observe(d, now, a) = [n |-> m, era |-> d.era, last |-> l, flags |-> flags]
    BY <1>3
  <1> HIDE DEF l, m
  <1> QED  BY <1>1, <1>2, <1>4, <1>5, <1>6, <1>7 DEF Detector, l

LEMMA ScoredFits ==
    ASSUME SpikeInv, ScoreOnce, NEW c \in Channels
    PROVE  /\ detectors'[c] \in Detector /\ detectors'[c].n >= detectors[c].n
           /\ detectors'[c].era = detectors[c].era
           /\ detectors'[c] = NoDetector <=> detectors[c] = NoDetector
           /\ \/ detectors'[c].last = detectors[c].last /\ alerted'[c] = alerted[c]
              \/ /\ detectors'[c].last = bucket' /\ alerted'[c] = bucket'
                 /\ phase = "live" /\ c \in wanted
                 /\ bucket' - detectors[c].last >= Cooldown
  <1>1. detectors[c] \in Detector /\ bucket' \in 0..MaxBucket /\ RunsAsWanted /\ detectors[c].n \in Int
    BY SpikeAssumption DEF SpikeInv, SpikeTypeOK, ScoreOnce, Detector
  <1>2. PICK strange \in SUBSET {k \in Channels : Scored(k)} :
          detectors' = [k \in Channels |->
              IF phase = "live" /\ Scored(k)
              THEN Observe(detectors[k], bucket', k \in strange) ELSE detectors[k]]
    BY DEF ScoreOnce
  <1>3. alerted'[c] = IF detectors'[c].last # detectors[c].last THEN bucket' ELSE alerted[c]
    BY DEF ScoreOnce
  <1>4. CASE phase = "live" /\ Scored(c)
    <2>1. detectors'[c] = Observe(detectors[c], bucket', c \in strange)
      BY <1>2, <1>4
    <2>2. c \in wanted /\ detectors[c].n >= 0
      BY <1>1, <1>4 DEF RunsAsWanted, Scored
    <2>3. (c \in strange) \in BOOLEAN
      OBVIOUS
    <2> DEFINE a == c \in strange
    <2>4. /\ Observe(detectors[c], bucket', a) \in Detector
          /\ Observe(detectors[c], bucket', a).n >= detectors[c].n
          /\ Observe(detectors[c], bucket', a).era = detectors[c].era
          /\ \/ Observe(detectors[c], bucket', a).last = detectors[c].last
             \/ /\ Observe(detectors[c], bucket', a).last = bucket'
                /\ bucket' - detectors[c].last >= Cooldown
      <3> HIDE DEF a
      <3>1. a \in BOOLEAN
        BY DEF a
      <3> QED  BY <1>1, <2>2, <3>1, ObserveFits
    <2> QED  BY <1>1, <1>3, <1>4, <2>1, <2>2, <2>4, NoDetectorFits DEF Scored
  <1>5. CASE ~(phase = "live" /\ Scored(c))
    BY <1>1, <1>2, <1>3, <1>5 DEF RunsAsWanted
  <1> QED  BY <1>4, <1>5

LEMMA ScoreStep == SpikeInv /\ ScoreOnce => SpikeInv'
  <1> SUFFICES ASSUME SpikeInv, ScoreOnce PROVE SpikeInv'
    OBVIOUS
  <1> USE SpikeAssumption
  <1>1. /\ SpikeTypeOK /\ TriesLeft /\ RunsAsWanted /\ FilesFit /\ DroppedForgotten
        /\ SavedIsThere /\ ResetIsKept /\ SnapshotFits
    BY DEF SpikeInv
  <1>2. /\ bucket' = bucket + 1 /\ bucket' \in 0..MaxBucket
        /\ UNCHANGED <<acts, enabled, wanted, phase, subs, warmup, hand, reset, begun,
                       resets, disk, floor, started, harm>>
    BY <1>1 DEF ScoreOnce, SpikeTypeOK, config, durable
  <1>3. \A c \in Channels : detectors'[c] \in Detector
    BY ScoredFits
  <1>4. detectors' \in [Channels -> Detector]
    <2>1. detectors' = [c \in Channels |-> detectors'[c]]
      BY DEF ScoreOnce
    <2> QED  BY <1>3, <2>1
  <1>5. alerted' \in [Channels -> Never..MaxBucket]
    <2>1. bucket' \in Never..MaxBucket
      BY <1>2, NoDetectorFits
    <2>2. \A c \in Channels : alerted[c] \in Never..MaxBucket
      BY <1>1 DEF SpikeTypeOK
    <2> QED  BY <2>1, <2>2 DEF ScoreOnce
  <1>6. SpikeTypeOK' /\ TriesLeft'
    BY <1>1, <1>2, <1>4, <1>5 DEF SpikeTypeOK, TriesLeft
  <1>7. \A c \in Channels : /\ detectors'[c].n \in Int /\ detectors'[c].last \in Int
    BY <1>3, NoDetectorFits DEF Detector
  <1>8. FilesFit'
    <2>1. \A f \in File : WellKept(f) => WellKept(f)'
      BY <1>1, <1>2, SpikeNumbers, FileNumbers DEF WellKept
    <2> QED  BY <1>1, <1>2, <2>1, SpikeNumbers DEF FilesFit
  <1>9. RunsAsWanted'
    BY <1>1, <1>2, <1>7, SpikeNumbers, ScoredFits DEF RunsAsWanted
  <1>10. DroppedForgotten'
    <2>1. \A c \in Channels \ wanted : alerted'[c] = alerted[c]
      BY <1>1, ScoredFits
    <2> QED  BY <1>1, <1>2, <2>1 DEF DroppedForgotten
  <1>11. SavedIsThere'
    <2> SUFFICES ASSUME "wiped" \notin harm PROVE SavedIsThere'
      BY <1>2 DEF SavedIsThere
    <2>1. Saves(disk)' /\ (hand.use # "none" => Saves(hand.file))'
      BY <1>1, <1>2 DEF SavedIsThere, Saves, Covered
    <2>2. ASSUME phase = "live", NEW c \in wanted
          PROVE  Covered(c, detectors[c].n)' /\ alerted'[c] <= detectors'[c].last
      <3>1. c \in Channels /\ Covered(c, detectors[c].n) /\ alerted[c] <= detectors[c].last
        BY <1>1, <2>2 DEF SavedIsThere, SpikeTypeOK
      <3> QED  BY <1>1, <1>2, <1>7, <3>1, SpikeNumbers, ScoredFits DEF Covered
    <2>3. phase # "live" => \A c \in Channels : alerted'[c] = alerted[c]
      BY ScoredFits
    <2>4. (hand.use \in {"read", "stop"})' => Recalls(hand.file)'
      BY <1>1, <1>2, <2>3 DEF SavedIsThere, Recalls, RunsAsWanted
    <2>5. (phase # "live" /\ hand.use = "none")' => Recalls(disk)'
      BY <1>1, <1>2, <2>3 DEF SavedIsThere, Recalls
    <2> QED  BY <1>1, <1>2, <2>1, <2>2, <2>4, <2>5 DEF SavedIsThere
  <1>12. ResetIsKept'
    <2>1. Old(detectors, resets)' => Old(detectors, resets)
      BY <1>2, ScoredFits DEF Old
    <2> QED  BY <1>1, <1>2, <2>1 DEF ResetIsKept, Outdated, Old
  <1>13. SnapshotFits'
    <2> SUFFICES ASSUME hand.use = "write" PROVE SnapshotFits'
      BY <1>2 DEF SnapshotFits
    <2>1. \A c \in wanted : c \in Channels /\ hand.file.kept[c].n \in Int
      BY <1>1, SpikeNumbers, FileNumbers
    <2> QED  BY <1>1, <1>2, <1>7, <2>1, SpikeNumbers, ScoredFits DEF SnapshotFits
  <1> QED  BY <1>6, <1>8, <1>9, <1>10, <1>11, <1>12, <1>13 DEF SpikeInv

(* Of what the rest of the invariant speaks of, subscriptions are no part. *)
LEMMA SubscriptionStep ==
    ASSUME SpikeInv, NEW c \in Channels, LoseSubscription(c) \/ RetrySubscription(c)
    PROVE  SpikeInv'
  <1> USE SpikeAssumption
  <1>1. /\ UNCHANGED <<bucket, enabled, wanted, phase, detectors, warmup, hand, reset, begun,
                       resets, alerted, disk, floor, started, harm>>
        /\ acts' \in acts..MaxActs
    BY DEF LoseSubscription, RetrySubscription, Act, SpikeInv, SpikeTypeOK, config, durable
  <1>2. SpikeTypeOK /\ TriesLeft
    BY DEF SpikeInv
  <1>3. /\ subs' \in [Channels -> [state : {"none", "subscribed", "retrying", "failed"},
                                   attempts : 0..MaxTries]]
        /\ TriesLeft'
    <2>1. /\ subs \in [Channels -> [state : {"none", "subscribed", "retrying", "failed"},
                                    attempts : 0..MaxTries]]
      BY <1>2 DEF SpikeTypeOK
    <2>2. CASE LoseSubscription(c)
      <3>1. subs' = [subs EXCEPT ![c] = [state |-> "retrying", attempts |-> 0]]
        BY <2>2 DEF LoseSubscription
      <3> QED  BY <1>2, <2>1, <3>1 DEF TriesLeft
    <2>3. CASE RetrySubscription(c)
      <3>1. subs[c].attempts < MaxTries /\ subs[c].attempts \in 0..MaxTries
        BY <1>2, <2>1, <2>3 DEF RetrySubscription, TriesLeft
      <3>2. CASE subs' = [subs EXCEPT ![c] = [state |-> "subscribed", attempts |-> 0]]
        BY <1>2, <2>1, <3>2 DEF TriesLeft
      <3>3. CASE subs' = [subs EXCEPT ![c] =
                    [state |-> IF subs[c].attempts + 1 >= MaxTries THEN "failed" ELSE "retrying",
                     attempts |-> subs[c].attempts + 1]]
        BY <1>2, <2>1, <3>1, <3>3 DEF TriesLeft
      <3> QED  BY <2>3, <3>2, <3>3 DEF RetrySubscription
    <2> QED  BY <2>2, <2>3
  <1>4. SpikeTypeOK'
    <2>1. acts' \in 0..MaxActs /\ begun' \in 0..acts' /\ resets' \in 0..begun'
      BY <1>1, <1>2 DEF SpikeTypeOK
    <2> QED  BY <1>1, <1>2, <1>3, <2>1 DEF SpikeTypeOK
  <1>5. FilesFit' /\ RunsAsWanted' /\ DroppedForgotten'
    BY <1>1 DEF SpikeInv, FilesFit, WellKept, RunsAsWanted, DroppedForgotten
  <1>6. SavedIsThere' /\ ResetIsKept' /\ SnapshotFits'
    BY <1>1 DEF SpikeInv, SavedIsThere, Saves, Recalls, Covered, ResetIsKept, Outdated, Old,
                SnapshotFits
  <1> QED  BY <1>3, <1>4, <1>5, <1>6 DEF SpikeInv

(* A start reads the file, or takes it for an empty one.                   *)
LEMMA LoadStep == SpikeInv /\ LoadBaseline => SpikeInv'
  <1> SUFFICES ASSUME SpikeInv, LoadBaseline PROVE SpikeInv'
    OBVIOUS
  <1> USE SpikeAssumption
  <1>1. /\ SpikeTypeOK /\ TriesLeft /\ RunsAsWanted /\ FilesFit /\ DroppedForgotten
        /\ SavedIsThere /\ ResetIsKept
    BY DEF SpikeInv
  <1>2. /\ hand.use = "none" /\ phase \in {"off", "idle", "restarting"} /\ phase' = "starting"
        /\ hand'.use = "read" /\ hand'.file \in {disk, NoFile}
        /\ hand' = [use |-> "read", file |-> hand'.file]
        /\ enabled' \in BOOLEAN /\ wanted' \subseteq Channels /\ wanted' # {}
        /\ UNCHANGED <<bucket, detectors, subs, warmup, reset, begun, resets, disk, started>>
        /\ \/ hand'.file = disk /\ harm' = harm
           \/ harm' = harm \union {"wiped"}
        /\ acts' \in {acts, acts + 1} /\ acts' \in 0..MaxActs
    <2>1. enabled \in BOOLEAN /\ wanted \subseteq Channels /\ wanted # {} /\ acts \in 0..MaxActs
      BY <1>1 DEF SpikeTypeOK, RunsAsWanted
    <2>2. /\ hand.use = "none" /\ phase \in {"off", "idle", "restarting"} /\ phase' = "starting"
          /\ enabled' \in BOOLEAN /\ wanted' \subseteq Channels /\ wanted' # {}
      BY <2>1 DEF LoadBaseline, config
    <2>3. \/ hand' = [use |-> "read", file |-> disk] /\ acts' = acts /\ harm' = harm
          \/ /\ hand' = [use |-> "read", file |-> NoFile]
             /\ acts < MaxActs /\ acts' = acts + 1 /\ harm' = harm \union {"wiped"}
      BY DEF LoadBaseline, Act
    <2> QED  BY <2>1, <2>2, <2>3 DEF LoadBaseline, memory
  <1>3. \A c \in Channels :
          /\ floor'[c] = IF c \in wanted' THEN floor[c] ELSE 0
          /\ alerted'[c] = IF c \in wanted' THEN alerted[c] ELSE Never
          /\ detectors[c] = NoDetector
    BY <1>1, <1>2 DEF LoadBaseline, RunsAsWanted
  <1>4. hand'.file \in File
    BY <1>1, <1>2, NoFileFits, SpikeNumbers
  <1>5. SpikeTypeOK' /\ TriesLeft'
    <2>1. floor' \in [Channels -> 0..MaxLearned] /\ alerted' \in [Channels -> Never..MaxBucket]
      <3>1. \A c \in Channels : floor'[c] \in 0..MaxLearned /\ alerted'[c] \in Never..MaxBucket
        BY <1>1, <1>3, SpikeNumbers, NoDetectorFits
      <3> QED  BY <3>1 DEF LoadBaseline
    <2>2. harm' \subseteq {"stale", "wiped"} /\ begun' \in 0..acts' /\ resets' \in 0..begun'
      BY <1>1, <1>2 DEF SpikeTypeOK
    <2> QED  BY <1>1, <1>2, <1>4, <2>1, <2>2 DEF SpikeTypeOK, TriesLeft
  <1>6. FilesFit'
    <2>1. WellKept(disk)' /\ WellKept(reset.file)' /\ WellKept(NoFile)' /\ warmup' <= bucket'
      BY <1>1, <1>2, NoFileFits, SpikeNumbers DEF FilesFit, WellKept
    <2> QED  BY <1>2, <2>1 DEF FilesFit, WellKept
  <1>7. RunsAsWanted'
    BY <1>1, <1>2, <1>3 DEF RunsAsWanted
  <1>8. DroppedForgotten'
    BY <1>3 DEF DroppedForgotten
  <1>9. SavedIsThere'
    <2> SUFFICES ASSUME "wiped" \notin harm' PROVE SavedIsThere'
      BY DEF SavedIsThere
    <2>1. hand'.file = disk /\ Saves(disk) /\ Recalls(disk)
      BY <1>1, <1>2 DEF SavedIsThere
    <2>2. Saves(disk)'
      BY <1>2, <1>3, <2>1 DEF Saves, Covered
    <2>3. Recalls(disk)'
      BY <1>1, <1>2, <1>3, <2>1, SpikeNumbers, FileNumbers DEF Recalls
    <2> QED  BY <1>2, <2>1, <2>2, <2>3 DEF SavedIsThere, Saves, Recalls, Covered
  <1>10. ResetIsKept'
    <2>1. ~Outdated(NoFile)'
      BY NoFileFits DEF Outdated, Old
    <2> QED  BY <1>1, <1>2, <1>3, <2>1 DEF ResetIsKept, Outdated, Old
  <1>11. SnapshotFits'
    BY <1>2 DEF SnapshotFits
  <1> QED  BY <1>5, <1>6, <1>7, <1>8, <1>9, <1>10, <1>11 DEF SpikeInv

(* A detector that starts has at least what was read.                      *)
LEMMA SeedStep == SpikeInv /\ SeedChannels => SpikeInv'
  <1> SUFFICES ASSUME SpikeInv, SeedChannels PROVE SpikeInv'
    OBVIOUS
  <1> USE SpikeAssumption
  <1> DEFINE f == hand.file
  <1>0. PICK g : g = Snapshot(detectors', warmup')
    OBVIOUS
  <1>1. /\ SpikeTypeOK /\ TriesLeft /\ RunsAsWanted /\ FilesFit /\ DroppedForgotten
        /\ SavedIsThere /\ ResetIsKept
    BY DEF SpikeInv
  <1>2. /\ hand.use = "read" /\ phase = "starting" /\ phase' = "live"
        /\ hand' = [use |-> "write", file |-> g]
        /\ UNCHANGED <<bucket, enabled, wanted, reset, begun, resets, alerted,
                       disk, floor, started, harm>>
        /\ acts' \in {acts, acts + 1} /\ acts' \in 0..MaxActs
    <2>1. acts' = acts \/ (acts < MaxActs /\ acts' = acts + 1)
      BY DEF SeedChannels, Act
    <2> QED  BY <1>0, <1>1, <2>1, SpikeNumbers DEF SeedChannels, RunsAsWanted, config, durable
  <1>3. f \in File /\ WellKept(f)
    BY <1>1, SpikeNumbers DEF FilesFit
  <1>4. warmup' \in 0..bucket /\ (f.warmup # -1 => warmup' = f.warmup)
    BY <1>1, <1>3, SpikeNumbers, FileNumbers DEF SeedChannels, WarmupBegan, WellKept
  <1>5. ASSUME NEW c \in wanted
        PROVE  /\ detectors'[c] \in Detector /\ detectors'[c].n >= 0
               /\ detectors'[c].n >= f.kept[c].n /\ detectors'[c].last = f.kept[c].last
               /\ detectors'[c].era <= begun
               /\ ~Outdated(f) => ~(detectors'[c].era < resets)
    <2>1. c \in Channels /\ detectors'[c] = Hydrated(f, c, begun)
      BY <1>1, SpikeNumbers DEF SeedChannels
    <2>2. f.kept[c] # NoDetector => f.kept[c].n >= 0 /\ f.kept[c].era <= begun
      BY <1>3, <2>1 DEF WellKept
    <2>3. ~Outdated(f) /\ f.kept[c] # NoDetector => ~(f.kept[c].era < resets)
      BY <2>1 DEF Outdated, Old
    <2> QED  BY <1>1, <1>3, <2>1, <2>2, <2>3, SpikeNumbers, HydratedFits
  <1>6. \A c \in Channels \ wanted : detectors'[c] = NoDetector
    BY DEF SeedChannels
  <1>7. detectors' \in [Channels -> Detector]
    <2>1. \A c \in Channels : detectors'[c] \in Detector
      BY <1>5, <1>6, NoDetectorFits
    <2>2. detectors' = [c \in Channels |-> detectors'[c]]
      BY DEF SeedChannels
    <2> QED  BY <2>1, <2>2
  <1>8. /\ g \in File /\ g.warmup = warmup'
        /\ \A c \in Channels : /\ g.kept[c].n = detectors'[c].n
                               /\ g.kept[c].era = detectors'[c].era
                               /\ g.kept[c].last = detectors'[c].last
                               /\ detectors'[c] = NoDetector => g.kept[c] = NoDetector
    <2>1. warmup' \in -1..MaxBucket
      BY <1>1, <1>4, SpikeNumbers
    <2> QED  BY <1>0, <1>7, <2>1, SnapshotKeeps
  <1> HIDE DEF f
  <1>9. /\ subs' \in [Channels -> [state : {"none", "subscribed", "retrying", "failed"},
                                   attempts : 0..MaxTries]]
        /\ TriesLeft'
    <2>1. PICK lost \in SUBSET Channels :
            subs' = [c \in Channels |->
                IF c \notin wanted THEN NoSub
                ELSE IF c \in lost THEN [state |-> "retrying", attempts |-> 1]
                ELSE [state |-> "subscribed", attempts |-> 0]]
      BY <1>1, SpikeNumbers DEF SeedChannels
    <2>2. 0 \in 0..MaxTries /\ 1 \in 0..MaxTries /\ 1 < MaxTries
      OBVIOUS
    <2> QED  BY <2>1, <2>2 DEF NoSub, TriesLeft
  <1>10. SpikeTypeOK'
    <2>1. warmup' \in -1..MaxBucket /\ begun' \in 0..acts' /\ resets' \in 0..begun'
      BY <1>1, <1>2, <1>4, SpikeNumbers DEF SpikeTypeOK
    <2> QED  BY <1>1, <1>2, <1>7, <1>8, <1>9, <2>1 DEF SpikeTypeOK
  <1>11. FilesFit'
    <2>1. WellKept(g)'
      <3>1. ASSUME NEW c \in Channels, g.kept[c] # NoDetector
            PROVE  g.kept[c].n >= 0 /\ g.kept[c].era <= begun
        <4>1. c \in wanted
          BY <1>6, <1>8, <3>1
        <4> QED  BY <1>5, <1>8, <4>1
      <3>2. g.warmup <= bucket
        BY <1>1, <1>4, <1>8, SpikeNumbers
      <3> QED  BY <1>2, <3>1, <3>2 DEF WellKept
    <2>2. WellKept(disk)' /\ WellKept(reset.file)'
      BY <1>1, <1>2 DEF FilesFit, WellKept
    <2> QED  BY <1>1, <1>2, <1>4, <2>1, <2>2, SpikeNumbers DEF FilesFit, WellKept
  <1>12. RunsAsWanted'
    <2>1. ASSUME NEW c \in Channels, detectors'[c] # NoDetector
          PROVE  c \in wanted /\ detectors'[c].n >= 0 /\ detectors'[c].era <= begun
      BY <1>5, <1>6, <2>1
    <2>2. \A c \in wanted : detectors'[c] # NoDetector
      BY <1>5, NoDetectorFits
    <2>3. warmup' >= 0
      BY <1>1, <1>4, SpikeNumbers
    <2> QED  BY <1>1, <1>2, <2>1, <2>2, <2>3 DEF RunsAsWanted
  <1>13. DroppedForgotten'
    BY <1>1, <1>2 DEF DroppedForgotten
  <1>14. SavedIsThere'
    <2> SUFFICES ASSUME "wiped" \notin harm PROVE SavedIsThere'
      BY <1>2 DEF SavedIsThere
    <2>1. Saves(disk) /\ Saves(f) /\ Recalls(f)
      BY <1>1, <1>2 DEF SavedIsThere, f
    <2>2. warmup' <= started /\ warmup' # -1
      BY <1>1, <1>4, <2>1, SpikeNumbers DEF Saves
    <2>3. \A c \in wanted : c \in Channels /\ f.kept[c].n \in Int
      BY <1>1, <1>3, SpikeNumbers, FileNumbers
    <2>4. \A c \in wanted : /\ Covered(c, detectors'[c].n)
                            /\ alerted[c] <= detectors'[c].last
      <3> SUFFICES ASSUME NEW c \in wanted
                   PROVE  Covered(c, detectors'[c].n) /\ alerted[c] <= detectors'[c].last
        OBVIOUS
      <3>1. c \in Channels /\ floor[c] \in Nat /\ f.kept[c].n \in Int /\ detectors'[c].n \in Int
        BY <1>1, <1>7, <2>3, SpikeNumbers DEF Detector
      <3> QED  BY <1>5, <2>1, <3>1 DEF Saves, Recalls, Covered
    <2>5. Saves(g)'
      <3>1. \A c \in Channels : Covered(c, g.kept[c].n)
        BY <1>1, <1>8, <2>4 DEF Covered, DroppedForgotten
      <3> QED  BY <1>2, <1>8, <2>2, <3>1 DEF Saves, Covered
    <2>6. Saves(disk)'
      BY <1>2, <2>1 DEF Saves, Covered
    <2> QED  BY <1>2, <2>2, <2>4, <2>5, <2>6 DEF SavedIsThere, Saves, Covered
  <1>15. ResetIsKept'
    <2> SUFFICES ASSUME "stale" \notin harm PROVE ResetIsKept'
      BY <1>2 DEF ResetIsKept
    <2>1. ~Outdated(disk) /\ ~Outdated(f)
      BY <1>1 DEF ResetIsKept, f
    <2>2. ASSUME NEW c \in Channels, detectors'[c] # NoDetector
          PROVE  ~(detectors'[c].era < resets)
      BY <1>5, <1>6, <2>1, <2>2
    <2>3. ~Old(detectors', resets) /\ ~Old(g.kept, resets)
      BY <1>8, <2>2 DEF Old
    <2> QED  BY <1>2, <2>1, <2>3 DEF ResetIsKept, Outdated, Old
  <1>16. SnapshotFits'
    <2>1. \A c \in wanted : c \in Channels /\ g.kept[c] # NoDetector /\ g.kept[c].n \in Int
      BY <1>1, <1>5, <1>8, SpikeNumbers, FileNumbers, NoDetectorFits
    <2> QED  BY <1>2, <1>8, <2>1 DEF SnapshotFits
  <1> QED  BY <1>9, <1>10, <1>11, <1>12, <1>13, <1>14, <1>15, <1>16 DEF SpikeInv

(* A disabled detector has nothing to lose.                                *)
LEMMA DisabledStep == SpikeInv /\ StartDisabled => SpikeInv'
  <1> SUFFICES ASSUME SpikeInv, StartDisabled PROVE SpikeInv'
    OBVIOUS
  <1>1. /\ phase = "off" /\ phase' = "idle" /\ hand.use = "none"
        /\ UNCHANGED <<bucket, acts, enabled, wanted, detectors, subs, warmup, hand, reset,
                       begun, resets, alerted, disk, floor, started, harm>>
    BY DEF StartDisabled, config, memory, durable
  <1>2. SpikeTypeOK' /\ TriesLeft' /\ FilesFit' /\ DroppedForgotten'
    BY <1>1 DEF SpikeInv, SpikeTypeOK, TriesLeft, FilesFit, WellKept, DroppedForgotten
  <1>3. RunsAsWanted'
    BY <1>1 DEF SpikeInv, RunsAsWanted
  <1>4. SavedIsThere' /\ ResetIsKept' /\ SnapshotFits'
    BY <1>1 DEF SpikeInv, SavedIsThere, Saves, Recalls, Covered, ResetIsKept, Outdated, Old,
                SnapshotFits
  <1> QED  BY <1>2, <1>3, <1>4 DEF SpikeInv

(* A service that stops has the last snapshot in hand; that of a detector  *)
(* that was not running has nothing, and the file will be wrong.           *)
LEMMA StopStep ==
    SpikeInv /\ (StopDetector \/ ReloadDisables \/ ReloadChannels) => SpikeInv'
  <1> SUFFICES ASSUME SpikeInv, StopDetector \/ ReloadDisables \/ ReloadChannels
               PROVE  SpikeInv'
    OBVIOUS
  <1>1. /\ SpikeTypeOK /\ TriesLeft /\ RunsAsWanted /\ FilesFit /\ DroppedForgotten
        /\ SavedIsThere /\ ResetIsKept
    BY DEF SpikeInv
  <1>2. PICK g : g = Snapshot(detectors, warmup)
    OBVIOUS
  <1>3. /\ g \in File /\ WellKept(g)
        /\ Old(g.kept, resets) <=> Old(detectors, resets)
        /\ phase = "live" /\ "wiped" \notin harm => Saves(g) /\ Recalls(g)
    BY <1>2, SnapshotOfNow
  <1>4. /\ phase' \in {"off", "idle", "restarting"} /\ phase \in {"live", "idle"}
        /\ hand' = [use |-> "stop", file |-> g]
        /\ UNCHANGED <<bucket, wanted, detectors, subs, warmup, reset, begun, resets,
                       alerted, disk, floor, started>>
        /\ harm' = harm \/ (harm' = harm \union {"wiped"} /\ phase = "idle")
        /\ phase = "idle" => "wiped" \in harm'
        /\ enabled' \in BOOLEAN /\ acts' \in {acts, acts + 1} /\ acts' \in 0..MaxActs
    <2>1. /\ phase' \in {"off", "idle", "restarting"} /\ phase \in {"live", "idle"} /\ Quiesce
          /\ harm' = harm \/ (harm' = harm \union {"wiped"} /\ phase = "idle")
          /\ phase = "idle" => "wiped" \in harm'
          /\ wanted' = wanted
      BY DEF StopDetector, ReloadDisables, ReloadChannels, config
    <2>2. enabled' \in BOOLEAN
      BY <1>1 DEF StopDetector, ReloadDisables, ReloadChannels, config, SpikeTypeOK
    <2>3. acts' = acts \/ (acts < MaxActs /\ acts' = acts + 1)
      BY DEF StopDetector, ReloadDisables, ReloadChannels, Act
    <2>4. acts' \in {acts, acts + 1} /\ acts' \in 0..MaxActs
      BY <1>1, <2>3, SpikeNumbers, SpikeAssumption
    <2> QED  BY <1>2, <2>1, <2>2, <2>4 DEF Quiesce, memory
  <1>5. SpikeTypeOK' /\ TriesLeft'
    <2>1. begun \in 0..acts /\ resets \in 0..begun /\ harm \subseteq {"stale", "wiped"}
      BY <1>1 DEF SpikeTypeOK
    <2>2. begun' \in 0..acts' /\ resets' \in 0..begun'
      BY <1>1, <1>4, <2>1, SpikeNumbers
    <2>3. harm' \subseteq {"stale", "wiped"}
      BY <1>4, <2>1
    <2> QED  BY <1>1, <1>3, <1>4, <2>2, <2>3 DEF SpikeTypeOK, TriesLeft
  <1>6. FilesFit' /\ DroppedForgotten' /\ RunsAsWanted'
    BY <1>1, <1>3, <1>4 DEF FilesFit, WellKept, DroppedForgotten, RunsAsWanted
  <1>7. SavedIsThere'
    <2> SUFFICES ASSUME "wiped" \notin harm' PROVE SavedIsThere'
      BY DEF SavedIsThere
    <2>1. phase = "live" /\ "wiped" \notin harm
      BY <1>4
    <2>2. Saves(disk) /\ Saves(g) /\ Recalls(g)
      BY <1>1, <1>3, <2>1 DEF SavedIsThere
    <2> QED  BY <1>4, <2>2 DEF SavedIsThere, Saves, Recalls, Covered
  <1>8. ResetIsKept' /\ SnapshotFits'
    BY <1>1, <1>3, <1>4 DEF ResetIsKept, Outdated, Old, SnapshotFits
  <1> QED  BY <1>5, <1>6, <1>7, <1>8 DEF SpikeInv

(* After a stop, or a crash, all that is left is in the file.              *)
LEMMA NothingRuns ==
    ASSUME SpikeInv, ClearedDetectors, phase' \in {"off", "idle", "restarting"},
           hand' = Free, SpikeTypeOK', WellKept(disk)', WellKept(reset.file)',
           UNCHANGED <<bucket, wanted, begun, resets, harm>>,
           (reset.at # "none")' => started' = MaxBucket /\ \A c \in Channels : floor'[c] = 0,
           DroppedForgotten',
           "wiped" \notin harm => (Saves(disk) /\ Recalls(disk))',
           "stale" \notin harm => ~Outdated(disk)'
    PROVE  SpikeInv'
  <1>1. /\ hand'.use = "none" /\ hand'.file = NoFile /\ warmup' = -1
        /\ \A c \in Channels : detectors'[c] = NoDetector /\ subs'[c] = NoSub
    BY DEF ClearedDetectors, Free
  <1>2. WellKept(NoFile)' /\ ~Outdated(NoFile)' /\ warmup' <= bucket'
    BY <1>1, NoFileFits, SpikeNumbers DEF SpikeInv, WellKept, Outdated, Old
  <1>3. TriesLeft' /\ FilesFit'
    BY <1>1, <1>2 DEF TriesLeft, NoSub, FilesFit
  <1>4. RunsAsWanted'
    BY <1>1 DEF SpikeInv, RunsAsWanted
  <1>5. SavedIsThere'
    BY <1>1 DEF SavedIsThere
  <1>6. ResetIsKept' /\ SnapshotFits'
    BY <1>1, <1>2 DEF ResetIsKept, Outdated, Old, SnapshotFits
  <1> QED  BY <1>3, <1>4, <1>5, <1>6 DEF SpikeInv

(* The state of a process that does not run fits.                          *)
LEMMA ClearedFits ==
    ASSUME ClearedDetectors
    PROVE  /\ detectors' \in [Channels -> Detector] /\ warmup' \in -1..MaxBucket
           /\ subs' \in [Channels -> [state : {"none", "subscribed", "retrying", "failed"},
                                      attempts : 0..MaxTries]]
  BY NoDetectorFits, SpikeAssumption DEF ClearedDetectors, NoSub

(* What the file remembers of the alerts is in it.                         *)
LEMMA RememberedFits ==
    ASSUME SpikeTypeOK, alerted' = Remembered, UNCHANGED <<disk, wanted>>
    PROVE  /\ alerted' \in [Channels -> Never..MaxBucket] /\ Recalls(disk)'
           /\ \A c \in Channels \ wanted : alerted'[c] = Never
  <1>1. \A c \in Channels : /\ disk.kept[c].last \in Never..MaxBucket
                            /\ disk.kept[c].last \in Int /\ Never <= disk.kept[c].last
    BY SpikeNumbers, FileNumbers
  <1>2. Never \in Never..MaxBucket /\ Never \in Int
    BY NoDetectorFits, SpikeAssumption
  <1> QED  BY <1>1, <1>2 DEF Remembered, Recalls

(* The last write succeeds, and the file is what was in hand, or fails.    *)
LEMMA FinishStopStep == SpikeInv /\ FinishStop => SpikeInv'
  <1> SUFFICES ASSUME SpikeInv, FinishStop PROVE SpikeInv'
    OBVIOUS
  <1>1. /\ SpikeTypeOK /\ RunsAsWanted /\ FilesFit /\ DroppedForgotten
        /\ SavedIsThere /\ ResetIsKept
    BY DEF SpikeInv
  <1>0. PICK f : f = hand.file
    OBVIOUS
  <1>2. /\ hand.use = "stop" /\ phase \in {"off", "idle", "restarting"} /\ hand' = Free
        /\ ClearedDetectors
        /\ UNCHANGED <<bucket, acts, enabled, wanted, phase, reset, begun, resets, harm>>
        /\ \/ Replace(f) /\ alerted' = alerted
           \/ alerted' = Remembered /\ UNCHANGED <<disk, floor, started>>
        /\ f \in File /\ WellKept(f) /\ WellKept(disk) /\ WellKept(reset.file)
    BY <1>0, <1>1, SpikeNumbers DEF FinishStop, config, RunsAsWanted, FilesFit
  <1>3. Free \in [use : {"none", "read", "write", "stop"}, file : File]
    BY NoFileFits DEF Free
  <1>4. CASE Replace(f) /\ alerted' = alerted
    <2>1. /\ disk' = f
          /\ floor' \in [Channels -> 0..MaxLearned] /\ started' \in 0..MaxBucket
          /\ \A c \in Channels :
                /\ c \notin wanted => floor'[c] = 0
                /\ floor'[c] = 0 \/ floor'[c] = floor[c]
                     \/ (Promises(f) /\ floor'[c] = f.kept[c].n)
          /\ \/ started' = started
             \/ Promises(f) /\ f.warmup # -1 /\ started' = f.warmup
      BY <1>1, <1>2, <1>4, ReplaceKeeps
    <2>2. SpikeTypeOK'
      BY <1>1, <1>2, <1>3, <1>4, <2>1, ClearedFits DEF SpikeTypeOK
    <2>3. WellKept(disk)' /\ WellKept(reset.file)' /\ DroppedForgotten'
      BY <1>1, <1>2, <1>4, <2>1 DEF WellKept, DroppedForgotten
    <2>4. (reset.at # "none")' => started' = MaxBucket /\ \A c \in Channels : floor'[c] = 0
      BY <1>1, <1>2, <2>1 DEF RunsAsWanted, Promises
    <2>5. ASSUME "wiped" \notin harm PROVE (Saves(disk) /\ Recalls(disk))'
      <3>1. Saves(f) /\ Recalls(f)
        BY <1>0, <1>1, <1>2, <2>5 DEF SavedIsThere
      <3>2. \A c \in Channels : Covered(c, f.kept[c].n)'
        BY <1>2, <2>1, <3>1, FileNumbers DEF Saves, Covered
      <3>3. started' # MaxBucket => f.warmup # -1 /\ f.warmup <= started'
        BY <1>2, <2>1, <3>1, FileNumbers DEF Saves
      <3> QED  BY <1>4, <2>1, <3>1, <3>2, <3>3 DEF Saves, Recalls, Covered
    <2>6. "stale" \notin harm => ~Outdated(disk)'
      BY <1>0, <1>1, <1>2, <2>1 DEF ResetIsKept, Outdated, Old
    <2> QED  BY <1>2, <2>2, <2>3, <2>4, <2>5, <2>6, NothingRuns
  <1>5. CASE alerted' = Remembered /\ UNCHANGED <<disk, floor, started>>
    <2>1. /\ alerted' \in [Channels -> Never..MaxBucket] /\ Recalls(disk)'
          /\ \A c \in Channels \ wanted : alerted'[c] = Never
      BY <1>1, <1>2, <1>5, RememberedFits
    <2>2. SpikeTypeOK'
      BY <1>1, <1>2, <1>3, <1>5, <2>1, ClearedFits DEF SpikeTypeOK
    <2>3. WellKept(disk)' /\ WellKept(reset.file)' /\ DroppedForgotten'
      BY <1>1, <1>2, <1>5, <2>1 DEF WellKept, DroppedForgotten
    <2>4. "wiped" \notin harm => Saves(disk)'
      BY <1>1, <1>2, <1>5 DEF SavedIsThere, Saves, Covered
    <2>5. "stale" \notin harm => ~Outdated(disk)'
      BY <1>1, <1>2, <1>5 DEF ResetIsKept, Outdated, Old
    <2>6. (reset.at # "none")' => started' = MaxBucket /\ \A c \in Channels : floor'[c] = 0
      BY <1>1, <1>2, <1>5 DEF RunsAsWanted
    <2> QED  BY <1>2, <2>1, <2>2, <2>3, <2>4, <2>5, <2>6, NothingRuns
  <1> QED  BY <1>2, <1>4, <1>5

(* A crash forgets the alerts that the file has not.                       *)
LEMMA CrashStep == SpikeInv /\ CrashDetector => SpikeInv'
  <1> SUFFICES ASSUME SpikeInv, CrashDetector PROVE SpikeInv'
    OBVIOUS
  <1>1. /\ SpikeTypeOK /\ RunsAsWanted /\ FilesFit /\ DroppedForgotten
        /\ SavedIsThere /\ ResetIsKept
    BY DEF SpikeInv
  <1>2. /\ phase' = "off" /\ hand' = Free /\ reset' = NoReset /\ ClearedDetectors
        /\ UNCHANGED <<bucket, enabled, wanted, begun, resets, disk, floor, started, harm>>
        /\ alerted' = Remembered
        /\ acts' \in {acts, acts + 1} /\ acts' \in 0..MaxActs
    BY <1>1, SpikeNumbers, SpikeAssumption DEF CrashDetector, Act, config, durable
  <1>3. /\ Free \in [use : {"none", "read", "write", "stop"}, file : File]
        /\ NoReset \in [at : {"none", "wiped", "removed"}, file : File]
        /\ reset'.at = "none" /\ reset'.file = NoFile
    BY <1>2, NoFileFits DEF Free, NoReset
  <1>4. /\ alerted' \in [Channels -> Never..MaxBucket] /\ Recalls(disk)'
        /\ \A c \in Channels \ wanted : alerted'[c] = Never
    BY <1>1, <1>2, RememberedFits
  <1>5. SpikeTypeOK'
    <2>1. begun' \in 0..acts' /\ resets' \in 0..begun'
      BY <1>1, <1>2, SpikeNumbers DEF SpikeTypeOK
    <2> QED  BY <1>1, <1>2, <1>3, <1>4, <2>1, ClearedFits DEF SpikeTypeOK
  <1>6. WellKept(disk)' /\ WellKept(reset.file)' /\ DroppedForgotten'
    <2>1. WellKept(NoFile)'
      BY <1>1, <1>2, NoFileFits, SpikeNumbers DEF WellKept
    <2> QED  BY <1>1, <1>2, <1>3, <1>4, <2>1 DEF FilesFit, WellKept, DroppedForgotten
  <1>7. "wiped" \notin harm => (Saves(disk) /\ Recalls(disk))'
    BY <1>1, <1>2, <1>4 DEF SavedIsThere, Saves, Covered
  <1>8. "stale" \notin harm => ~Outdated(disk)'
    BY <1>1, <1>2 DEF ResetIsKept, Outdated, Old
  <1> QED  BY <1>2, <1>3, <1>5, <1>6, <1>7, <1>8, NothingRuns

(* A periodic snapshot is of the detectors as they are.                    *)
LEMMA TakeStep == SpikeInv /\ TakeSnapshot => SpikeInv'
  <1> SUFFICES ASSUME SpikeInv, TakeSnapshot PROVE SpikeInv'
    OBVIOUS
  <1>1. /\ SpikeTypeOK /\ TriesLeft /\ RunsAsWanted /\ FilesFit /\ DroppedForgotten
        /\ SavedIsThere /\ ResetIsKept
    BY DEF SpikeInv
  <1>2. PICK g : g = Snapshot(detectors, warmup)
    OBVIOUS
  <1>3. /\ g \in File /\ WellKept(g) /\ g.warmup = warmup
        /\ \A c \in Channels : /\ g.kept[c].n = detectors[c].n
                               /\ g.kept[c].era = detectors[c].era
                               /\ g.kept[c] = NoDetector <=> detectors[c] = NoDetector
        /\ Old(g.kept, resets) <=> Old(detectors, resets)
        /\ phase = "live" /\ "wiped" \notin harm => Saves(g) /\ Recalls(g)
    BY <1>2, SnapshotOfNow
  <1>4. /\ phase = "live" /\ hand' = [use |-> "write", file |-> g]
        /\ UNCHANGED <<bucket, acts, enabled, wanted, phase, detectors, subs, warmup, reset,
                       begun, resets, alerted, disk, floor, started, harm>>
    BY <1>2 DEF TakeSnapshot, config, memory, durable
  <1>5. SpikeTypeOK' /\ TriesLeft'
    BY <1>1, <1>3, <1>4 DEF SpikeTypeOK, TriesLeft
  <1>6. FilesFit' /\ DroppedForgotten' /\ RunsAsWanted'
    BY <1>1, <1>3, <1>4 DEF FilesFit, WellKept, DroppedForgotten, RunsAsWanted
  <1>7. SavedIsThere'
    BY <1>1, <1>3, <1>4 DEF SavedIsThere, Saves, Covered
  <1>8. ResetIsKept'
    BY <1>1, <1>3, <1>4 DEF ResetIsKept, Outdated, Old
  <1>9. SnapshotFits'
    <2>1. \A c \in wanted : c \in Channels /\ detectors[c] # NoDetector /\ detectors[c].n \in Int
      BY <1>1, <1>4, SpikeNumbers DEF RunsAsWanted
    <2> QED  BY <1>3, <1>4, <2>1 DEF SnapshotFits
  <1> QED  BY <1>5, <1>6, <1>7, <1>8, <1>9 DEF SpikeInv

(* A write that fails leaves everything as it was.                         *)
LEMMA WriteFailsStep ==
    ASSUME SpikeInv, FinishWrite, UNCHANGED durable
    PROVE  SpikeInv'
  <1>1. /\ SpikeTypeOK /\ TriesLeft /\ RunsAsWanted /\ FilesFit /\ DroppedForgotten
        /\ SavedIsThere /\ ResetIsKept
    BY DEF SpikeInv
  <1>2. /\ phase = "live" /\ hand.use = "write" /\ hand' = Free
        /\ hand'.use = "none" /\ hand'.file = NoFile
        /\ UNCHANGED <<bucket, acts, enabled, wanted, phase, detectors, subs, warmup, reset,
                       begun, resets, alerted, disk, floor, started, harm>>
    BY <1>1 DEF FinishWrite, Free, config, memory, durable, RunsAsWanted
  <1>3. Free \in [use : {"none", "read", "write", "stop"}, file : File]
    BY NoFileFits DEF Free
  <1>4. SpikeTypeOK' /\ TriesLeft' /\ DroppedForgotten' /\ RunsAsWanted'
    BY <1>1, <1>2, <1>3 DEF SpikeTypeOK, TriesLeft, DroppedForgotten, RunsAsWanted
  <1>5. FilesFit' /\ ResetIsKept' /\ SnapshotFits'
    BY <1>1, <1>2, NoFileFits, SpikeNumbers
       DEF FilesFit, WellKept, ResetIsKept, Outdated, Old, SnapshotFits
  <1>6. SavedIsThere'
    BY <1>1, <1>2 DEF SavedIsThere, Saves, Covered
  <1> QED  BY <1>4, <1>5, <1>6 DEF SpikeInv

(* The file becomes the snapshot. It is a promise only if it is of the     *)
(* detectors that run, which by now know at least as much.                 *)
LEMMA WriteStep ==
    ASSUME SpikeInv, FinishWrite, Replace(hand.file),
           harm' = IF Outdated(hand.file) THEN harm ELSE harm \ {"stale"}
    PROVE  SpikeInv'
  <1>0. PICK f : f = hand.file
    OBVIOUS
  <1>1. /\ SpikeTypeOK /\ TriesLeft /\ RunsAsWanted /\ FilesFit /\ DroppedForgotten
        /\ SavedIsThere /\ ResetIsKept /\ SnapshotFits
    BY DEF SpikeInv
  <1>2. /\ phase = "live" /\ hand.use = "write" /\ hand' = Free
        /\ hand'.use = "none" /\ hand'.file = NoFile
        /\ UNCHANGED <<bucket, acts, enabled, wanted, phase, detectors, subs, warmup, reset,
                       begun, resets, alerted>>
        /\ f \in File /\ WellKept(f)
        /\ harm' = IF Outdated(f) THEN harm ELSE harm \ {"stale"}
    BY <1>0, <1>1, SpikeNumbers DEF FinishWrite, Free, config, memory, RunsAsWanted, FilesFit
  <1>3. /\ disk' = f
        /\ floor' \in [Channels -> 0..MaxLearned] /\ started' \in 0..MaxBucket
        /\ \A c \in Channels :
              /\ c \notin wanted => floor'[c] = 0
              /\ floor'[c] = 0 \/ floor'[c] = floor[c]
                   \/ (Promises(f) /\ floor'[c] = f.kept[c].n)
        /\ \/ started' = started
           \/ Promises(f) /\ f.warmup # -1 /\ started' = f.warmup
    BY <1>0, <1>1, <1>2, ReplaceKeeps
  <1>4. \A c \in wanted : /\ c \in Channels /\ c \in Have /\ f.kept[c] # NoDetector
                          /\ f.kept[c].n \in Int /\ f.kept[c].era \in Nat
                          /\ detectors[c].n \in Int /\ detectors[c].era \in Nat
    BY <1>0, <1>1, <1>2, SpikeNumbers, FileNumbers DEF RunsAsWanted, Have, SnapshotFits
  <1>5. Promises(f) => /\ f.warmup = warmup
                       /\ \A c \in wanted : f.kept[c].n <= detectors[c].n
    <2> SUFFICES ASSUME Promises(f), \A c \in wanted : f.kept[c].era < detectors[c].era
                 PROVE  FALSE
      BY <1>0, <1>1, <1>2 DEF SnapshotFits
    <2>1. PICK c \in wanted : TRUE
      BY <1>1 DEF RunsAsWanted
    <2> QED  BY <1>4, <2>1 DEF Promises
  <1>6. Free \in [use : {"none", "read", "write", "stop"}, file : File]
        /\ harm' \subseteq {"stale", "wiped"}
    BY <1>1, <1>2, NoFileFits DEF Free, SpikeTypeOK
  <1>7. SpikeTypeOK' /\ TriesLeft' /\ DroppedForgotten'
    BY <1>1, <1>2, <1>3, <1>6 DEF SpikeTypeOK, TriesLeft, DroppedForgotten
  <1>8. RunsAsWanted'
    <2>1. reset.at # "none" => started' = MaxBucket /\ \A c \in Channels : floor'[c] = 0
      BY <1>1, <1>3 DEF RunsAsWanted, Promises
    <2> QED  BY <1>1, <1>2, <2>1 DEF RunsAsWanted
  <1>9. FilesFit' /\ SnapshotFits'
    BY <1>1, <1>2, <1>3, NoFileFits, SpikeNumbers DEF FilesFit, WellKept, SnapshotFits
  <1>10. SavedIsThere'
    <2> SUFFICES ASSUME "wiped" \notin harm PROVE SavedIsThere'
      BY <1>2 DEF SavedIsThere
    <2>1. /\ Saves(f) /\ warmup <= started
          /\ \A c \in wanted : Covered(c, detectors[c].n) /\ alerted[c] <= detectors[c].last
      BY <1>0, <1>1, <1>2 DEF SavedIsThere
    <2>2. \A c \in Channels : Covered(c, f.kept[c].n)'
      BY <1>2, <1>3, <2>1, FileNumbers DEF Saves, Covered
    <2>3. started' # MaxBucket => f.warmup # -1 /\ f.warmup <= started'
      BY <1>2, <1>3, <2>1, FileNumbers DEF Saves
    <2>4. \A c \in wanted : Covered(c, detectors[c].n)'
      BY <1>2, <1>3, <1>4, <1>5, <2>1 DEF Covered
    <2>5. warmup <= started'
      BY <1>1, <1>3, <1>5, <2>1, SpikeNumbers
    <2> QED  BY <1>2, <1>3, <2>1, <2>2, <2>3, <2>4, <2>5 DEF SavedIsThere, Saves, Covered
  <1>11. ResetIsKept'
    <2> SUFFICES ASSUME "stale" \notin harm' PROVE ResetIsKept'
      BY DEF ResetIsKept
    <2>1. ~Outdated(f)
      BY <1>0, <1>1, <1>2 DEF ResetIsKept
    <2>2. ~Old(detectors, resets)
      <3> SUFFICES ASSUME NEW c \in Channels, detectors[c] # NoDetector,
                          detectors[c].era < resets
                   PROVE  FALSE
        BY DEF Old
      <3>1. c \in wanted /\ ~(f.kept[c].era < resets)
        BY <1>1, <1>4, <2>1 DEF RunsAsWanted, Outdated, Old
      <3>2. f.kept[c].era <= detectors[c].era
        BY <1>0, <1>1, <1>2, <1>4, <3>1 DEF SnapshotFits
      <3> QED  BY <1>1, <1>4, <3>1, <3>2, SpikeNumbers
    <2> QED  BY <1>2, <1>3, <2>1, <2>2, NoFileFits DEF ResetIsKept, Outdated, Old
  <1> QED  BY <1>7, <1>8, <1>9, <1>10, <1>11 DEF SpikeInv

LEMMA FinishWriteStep == SpikeInv /\ FinishWrite => SpikeInv'
  BY WriteStep, WriteFailsStep DEF FinishWrite

(* New detectors of a new era know nothing and promise nothing.            *)
LEMMA ResetMemoryStep == SpikeInv /\ ResetMemory => SpikeInv'
  <1> SUFFICES ASSUME SpikeInv, ResetMemory PROVE SpikeInv'
    OBVIOUS
  <1> USE SpikeAssumption
  <1>1. /\ SpikeTypeOK /\ TriesLeft /\ RunsAsWanted /\ FilesFit
        /\ SavedIsThere /\ ResetIsKept /\ SnapshotFits
    BY DEF SpikeInv
  <1>2. /\ reset' = [at |-> "wiped", file |-> NoFile]
        /\ begun' = begun + 1 /\ acts' = acts + 1 /\ acts' \in 0..MaxActs
        /\ warmup' = bucket /\ started' = MaxBucket
        /\ UNCHANGED <<bucket, enabled, wanted, phase, subs, hand, resets, disk, harm>>
        /\ \A c \in Channels :
              /\ detectors'[c] = IF detectors[c] # NoDetector THEN Fresh(begun') ELSE NoDetector
              /\ alerted'[c] = Never /\ floor'[c] = 0
    BY <1>1, SpikeNumbers DEF ResetMemory, Act, config, Have
  <1>3. begun' \in 0..acts' /\ resets' \in 0..begun' /\ begun' \in 0..MaxActs /\ resets < begun'
    BY <1>1, <1>2, SpikeNumbers DEF SpikeTypeOK
  <1>4. /\ Fresh(begun') \in Detector /\ Fresh(begun').n = 0 /\ Fresh(begun').era = begun'
        /\ Fresh(begun') # NoDetector
    BY <1>3, NoDetectorFits DEF Fresh, Detector, NoDetector
  <1>5. SpikeTypeOK' /\ TriesLeft'
    <2>1. detectors' \in [Channels -> Detector]
      BY <1>4, NoDetectorFits DEF ResetMemory
    <2>2. alerted' \in [Channels -> Never..MaxBucket] /\ floor' \in [Channels -> 0..MaxLearned]
      BY NoDetectorFits DEF ResetMemory
    <2>3. warmup' \in -1..MaxBucket /\ started' \in 0..MaxBucket
      BY <1>1, <1>2, SpikeNumbers
    <2> QED  BY <1>1, <1>2, <1>3, <2>1, <2>2, <2>3, NoFileFits DEF SpikeTypeOK, TriesLeft
  <1>6. FilesFit' /\ DroppedForgotten'
    <2>1. \A f \in File : WellKept(f) => WellKept(f)'
      BY <1>1, <1>2, SpikeNumbers, FileNumbers DEF WellKept
    <2>2. WellKept(NoFile)' /\ warmup' <= bucket'
      BY <1>1, <1>2, NoFileFits, SpikeNumbers DEF WellKept
    <2>3. WellKept(disk)' /\ WellKept(hand.file)'
      BY <1>1, <1>2, <2>1, SpikeNumbers DEF FilesFit, WellKept
    <2> QED  BY <1>2, <2>2, <2>3 DEF FilesFit, DroppedForgotten
  <1>7. RunsAsWanted'
    <2>1. warmup' >= 0 /\ begun' <= begun'
      BY <1>1, <1>2, <1>3, SpikeNumbers
    <2> QED  BY <1>1, <1>2, <1>4, <2>1, SpikeNumbers DEF RunsAsWanted
  <1>8. SavedIsThere'
    <2>1. \A c \in Channels : /\ disk.kept[c].last \in Int /\ Never <= disk.kept[c].last
                              /\ hand.file.kept[c].last \in Int
                              /\ Never <= hand.file.kept[c].last
      BY <1>1, SpikeNumbers, FileNumbers
    <2>2. Saves(disk)' /\ Saves(hand.file)' /\ Recalls(disk)' /\ Recalls(hand.file)'
      BY <1>2, <2>1 DEF Saves, Recalls, Covered
    <2>3. warmup' <= started'
      BY <1>1, <1>2, SpikeNumbers
    <2>4. \A c \in wanted : Covered(c, detectors[c].n)' /\ alerted'[c] <= detectors'[c].last
      <3>1. \A c \in Channels : Never <= detectors'[c].last
        <4>1. \A d \in Detector : Never <= d.last
          BY NoDetectorFits DEF Detector
        <4> QED  BY <1>5, <4>1 DEF SpikeTypeOK
      <3> QED  BY <1>1, <1>2, <3>1, SpikeNumbers DEF Covered
    <2> QED  BY <1>2, <2>2, <2>3, <2>4 DEF SavedIsThere
  <1>9. ResetIsKept'
    <2>1. ~Old(detectors', resets)
      BY <1>1, <1>2, <1>3, <1>4, SpikeNumbers DEF Old
    <2> QED  BY <1>1, <1>2, <2>1 DEF ResetIsKept, Outdated, Old
  <1>10. SnapshotFits'
    <2> SUFFICES ASSUME hand.use = "write" PROVE SnapshotFits'
      BY <1>2 DEF SnapshotFits
    <2>1. ASSUME NEW c \in wanted
          PROVE  hand.file.kept[c] # NoDetector /\ hand.file.kept[c].era < detectors'[c].era
      <3>1. /\ c \in Channels /\ hand.file.kept[c] # NoDetector /\ detectors[c] # NoDetector
            /\ hand.file.kept[c].era <= begun /\ hand.file.kept[c].era \in Nat
        BY <1>1, SpikeNumbers, FileNumbers DEF SnapshotFits, RunsAsWanted, FilesFit, WellKept
      <3>2. detectors'[c].era = begun + 1
        BY <1>2, <1>4, <3>1
      <3> QED  BY <1>1, <3>1, <3>2, SpikeNumbers
    <2> QED  BY <1>2, <2>1 DEF SnapshotFits
  <1> QED  BY <1>5, <1>6, <1>7, <1>8, <1>9, <1>10 DEF SpikeInv

(* The file of a reset that has yet to be written is empty; where that     *)
(* forgets an alert, it has done harm.                                     *)
LEMMA RemoveStep == SpikeInv /\ RemoveFile => SpikeInv'
  <1> SUFFICES ASSUME SpikeInv, RemoveFile PROVE SpikeInv'
    OBVIOUS
  <1>1. /\ SpikeTypeOK /\ TriesLeft /\ RunsAsWanted /\ FilesFit /\ DroppedForgotten
        /\ SavedIsThere /\ ResetIsKept /\ SnapshotFits
    BY DEF SpikeInv
  <1>2. PICK g : g = Snapshot(detectors, warmup)
    OBVIOUS
  <1>3. g \in File /\ WellKept(g)
    BY <1>2, SnapshotOfNow
  <1>4. /\ reset.at = "wiped"
        /\ UNCHANGED <<bucket, acts, enabled, wanted, phase, detectors, subs, warmup, hand,
                       begun, resets, alerted, floor, started>>
        /\ \/ /\ reset' = [at |-> "removed", file |-> g] /\ disk' = NoFile
              /\ harm' = IF Forgets(NoFile) THEN harm \union {"wiped"} ELSE harm
           \/ reset' = NoReset /\ disk' = disk /\ harm' = harm
    BY <1>2 DEF RemoveFile, config, memory
  <1>5. /\ reset' \in [at : {"none", "wiped", "removed"}, file : File]
        /\ disk' \in File /\ harm' \subseteq {"stale", "wiped"}
        /\ disk' = disk \/ disk' = NoFile
        /\ WellKept(reset.file)'
    <2>1. WellKept(NoFile) /\ WellKept(reset.file)
      BY <1>1, NoFileFits, SpikeNumbers DEF WellKept, FilesFit
    <2>2. CASE reset' = [at |-> "removed", file |-> g] /\ disk' = NoFile
      <3>1. WellKept(g)' /\ reset'.file = g
        BY <1>3, <1>4, <2>2 DEF WellKept
      <3> QED  BY <1>1, <1>3, <1>4, <2>2, <3>1, NoFileFits DEF SpikeTypeOK, WellKept
    <2>3. CASE reset' = NoReset /\ disk' = disk /\ harm' = harm
      <3>1. WellKept(NoFile)' /\ reset'.file = NoFile
        BY <1>4, <2>1, <2>3 DEF NoReset, WellKept
      <3> QED  BY <1>1, <1>4, <2>3, <3>1, NoFileFits DEF NoReset, SpikeTypeOK, WellKept
    <2> QED  BY <1>4, <2>2, <2>3
  <1>6. SpikeTypeOK' /\ TriesLeft' /\ DroppedForgotten' /\ SnapshotFits'
    BY <1>1, <1>4, <1>5 DEF SpikeTypeOK, TriesLeft, DroppedForgotten, SnapshotFits
  <1>7. RunsAsWanted'
    BY <1>1, <1>4 DEF RunsAsWanted
  <1>8. FilesFit'
    BY <1>1, <1>4, <1>5, NoFileFits, SpikeNumbers DEF FilesFit, WellKept
  <1>9. ResetIsKept'
    BY <1>1, <1>4, <1>5, NoFileFits DEF ResetIsKept, Outdated, Old
  <1>10. SavedIsThere'
    <2> SUFFICES ASSUME "wiped" \notin harm' PROVE SavedIsThere'
      BY DEF SavedIsThere
    <2>1. "wiped" \notin harm /\ (disk' = disk \/ (disk' = NoFile /\ ~Forgets(NoFile)))
      BY <1>4
    <2>2. Saves(disk)'
      BY <1>1, <1>4 DEF RunsAsWanted, Saves, Covered
    <2>3. phase # "live" /\ hand.use = "none" => Recalls(disk)'
      <3> SUFFICES ASSUME phase # "live", hand.use = "none" PROVE Recalls(disk)'
        OBVIOUS
      <3>1. phase \in {"off", "idle", "restarting"}
        BY <1>1 DEF SpikeTypeOK, RunsAsWanted
      <3>2. CASE disk' = disk
        BY <1>1, <1>4, <2>1, <3>2 DEF SavedIsThere, Recalls
      <3>3. CASE disk' = NoFile /\ ~Forgets(NoFile)
        <4>1. \A c \in Channels : /\ ~(alerted[c] > NoFile.kept[c].last)
                                  /\ alerted[c] \in Int /\ NoFile.kept[c].last \in Int
          BY <1>1, <3>1, <3>3, NoFileFits, SpikeNumbers, FileNumbers DEF Forgets
        <4> QED  BY <1>4, <3>3, <4>1 DEF Recalls
      <3> QED  BY <2>1, <3>2, <3>3
    <2> QED  BY <1>1, <1>4, <2>1, <2>2, <2>3 DEF SavedIsThere, Saves, Recalls, Covered
  <1> QED  BY <1>6, <1>7, <1>8, <1>9, <1>10 DEF SpikeInv

(* A reset that ends with nothing left of before it has undone all.        *)
LEMMA FinishResetStep == SpikeInv /\ FinishReset => SpikeInv'
  <1> SUFFICES ASSUME SpikeInv, FinishReset PROVE SpikeInv'
    OBVIOUS
  <1>1. /\ SpikeTypeOK /\ TriesLeft /\ RunsAsWanted /\ FilesFit /\ DroppedForgotten
        /\ SavedIsThere /\ SnapshotFits
    BY DEF SpikeInv
  <1>2. PICK d : d = disk'
    OBVIOUS
  <1>3. /\ reset.at = "removed" /\ reset' = NoReset /\ resets' = begun
        /\ d \in {disk, reset.file}
        /\ harm' = (harm \ {"stale"})
                      \union (IF SomethingLeft(d) THEN {"stale"} ELSE {})
                      \union (IF Forgets(d) THEN {"wiped"} ELSE {})
        /\ UNCHANGED <<bucket, acts, enabled, wanted, phase, detectors, subs, warmup, hand,
                       begun, alerted, floor, started>>
    BY <1>2 DEF FinishReset, config, memory
  <1>4. d \in File /\ WellKept(d) /\ harm' \subseteq {"stale", "wiped"}
    BY <1>1, <1>3, SpikeNumbers DEF FilesFit, SpikeTypeOK
  <1>5. SpikeTypeOK' /\ TriesLeft' /\ DroppedForgotten' /\ SnapshotFits'
    <2>1. resets' \in 0..begun /\ NoReset \in [at : {"none", "wiped", "removed"}, file : File]
      BY <1>1, <1>3, NoFileFits, SpikeNumbers DEF NoReset
    <2> QED  BY <1>1, <1>2, <1>3, <1>4, <2>1 DEF SpikeTypeOK, TriesLeft, DroppedForgotten,
                                                SnapshotFits
  <1>6. RunsAsWanted'
    BY <1>1, <1>3 DEF RunsAsWanted, NoReset
  <1>7. FilesFit'
    <2>1. WellKept(NoFile)
      BY <1>1, NoFileFits, SpikeNumbers DEF WellKept
    <2> QED  BY <1>1, <1>2, <1>3, <1>4, <2>1 DEF FilesFit, WellKept, NoReset
  <1>8. ResetIsKept'
    BY <1>2, <1>3 DEF ResetIsKept, SomethingLeft, Outdated, Old
  <1>9. SavedIsThere'
    <2> SUFFICES ASSUME "wiped" \notin harm' PROVE SavedIsThere'
      BY DEF SavedIsThere
    <2>1. "wiped" \notin harm /\ ~Forgets(d)
      BY <1>3
    <2>2. Saves(disk)'
      BY <1>1, <1>3 DEF RunsAsWanted, Saves, Covered
    <2>3. ASSUME phase # "live", hand.use = "none" PROVE Recalls(disk)'
      <3>1. phase \in {"off", "idle", "restarting"}
        BY <1>1, <2>3 DEF SpikeTypeOK, RunsAsWanted
      <3>2. \A c \in Channels : /\ ~(alerted[c] > d.kept[c].last)
                                /\ alerted[c] \in Int /\ d.kept[c].last \in Int
        BY <1>1, <1>4, <2>1, <2>3, <3>1, SpikeNumbers, FileNumbers DEF Forgets
      <3> QED  BY <1>2, <1>3, <3>2 DEF Recalls
    <2> QED  BY <1>1, <1>3, <2>1, <2>2, <2>3 DEF SavedIsThere, Saves, Recalls, Covered
  <1> QED  BY <1>5, <1>6, <1>7, <1>8, <1>9 DEF SpikeInv

LEMMA SpikeSteps == SpikeInv /\ [SpikeNext]_spikeVars => SpikeInv'
  <1> SUFFICES ASSUME SpikeInv, [SpikeNext]_spikeVars PROVE SpikeInv'
    OBVIOUS
  <1>1. CASE UNCHANGED spikeVars
    <2>1. SpikeTypeOK' /\ TriesLeft' /\ FilesFit' /\ RunsAsWanted' /\ DroppedForgotten'
      BY <1>1 DEF SpikeInv, SpikeTypeOK, FilesFit, WellKept, RunsAsWanted, DroppedForgotten,
                  TriesLeft, spikeVars
    <2>2. SavedIsThere' /\ ResetIsKept' /\ SnapshotFits'
      BY <1>1 DEF SpikeInv, SavedIsThere, Saves, Recalls, Covered, ResetIsKept, Outdated, Old,
                  SnapshotFits, spikeVars
    <2> QED  BY <2>1, <2>2 DEF SpikeInv
  <1> QED
    BY <1>1, LoadStep, SeedStep, DisabledStep, StopStep, FinishStopStep, CrashStep, ScoreStep,
       SubscriptionStep, TakeStep, FinishWriteStep, ResetMemoryStep, RemoveStep,
       FinishResetStep DEF SpikeNext

(* Three things that the detector carries over its restarts, for any       *)
(* number of channels, reloads, resets, crashes and writes that fail: what *)
(* a write has saved is known again, unless the file has been overwritten  *)
(* with nothing; what was reset does not return, unless something of it    *)
(* was left when the reset ended; and alerts that the file or the memory   *)
(* holds keep their distance (LoadBaseline, writeBaseline, ResetBaseline,  *)
(* ObserveBucket).                                                         *)
THEOREM BaselineCarriesOver == SpikeSpec => RestartsCarryOver
  <1>1. SpikeInv => LearnedSurvives
    <2> SUFFICES ASSUME SpikeInv, phase = "live", "wiped" \notin harm
                 PROVE  (\A c \in wanted : detectors[c].n >= floor[c]) /\ warmup <= started
      BY DEF LearnedSurvives
    <2>1. ASSUME NEW c \in wanted PROVE detectors[c].n >= floor[c]
      <3>1. Covered(c, detectors[c].n) /\ detectors[c] # NoDetector /\ c \in Channels
        BY SpikeNumbers DEF SpikeInv, SavedIsThere, RunsAsWanted
      <3>2. detectors[c].n >= 0
        BY <3>1 DEF SpikeInv, RunsAsWanted
      <3> QED  BY <3>1, <3>2, SpikeNumbers DEF SpikeInv, Covered
    <2> QED  BY <2>1 DEF SpikeInv, SavedIsThere
  <1>2. SpikeInv => ResetIsDurable
    <2> SUFFICES ASSUME SpikeInv, "stale" \notin harm, NEW c \in Have
                 PROVE  detectors[c].era >= resets
      BY DEF ResetIsDurable
    <2>1. c \in Channels /\ detectors[c] # NoDetector /\ ~(detectors[c].era < resets)
      BY DEF SpikeInv, ResetIsKept, Old, Have
    <2> QED  BY <2>1, SpikeNumbers DEF SpikeInv
  <1>3. SpikeInv /\ [SpikeNext]_spikeVars =>
           [\A c \in Channels :
              (bucket' # bucket /\ alerted'[c] # alerted[c] /\ "wiped" \notin harm)
                 => alerted'[c] - alerted[c] >= Cooldown]_spikeVars
    <2> SUFFICES ASSUME SpikeInv, SpikeNext, NEW c \in Channels,
                        bucket' # bucket, alerted'[c] # alerted[c], "wiped" \notin harm
                 PROVE  alerted'[c] - alerted[c] >= Cooldown
      OBVIOUS
    <2>1. ScoreOnce
      BY DEF SpikeNext, LoadBaseline, SeedChannels, StartDisabled, StopDetector, ReloadDisables,
             ReloadChannels, Quiesce, FinishStop, CrashDetector, LoseSubscription,
             RetrySubscription, TakeSnapshot, FinishWrite, ResetMemory, RemoveFile, FinishReset
    <2>2. /\ alerted'[c] = bucket' /\ phase = "live" /\ c \in wanted
          /\ bucket' - detectors[c].last >= Cooldown
      BY <2>1, ScoredFits
    <2>3. alerted[c] <= detectors[c].last
      BY <2>2 DEF SpikeInv, SavedIsThere
    <2>4. /\ alerted[c] \in Int /\ detectors[c].last \in Int /\ bucket' \in Int /\ Cooldown \in Int
      BY <2>1, NoDetectorFits, SpikeAssumption DEF SpikeInv, SpikeTypeOK, Detector, ScoreOnce
    <2> QED  BY <2>2, <2>3, <2>4
  <1> QED  BY <1>1, <1>2, <1>3, SpikeStarts, SpikeSteps, PTL
            DEF SpikeSpec, RestartsCarryOver, AlertsAreSpaced

(***************************************************************************)
(* The bounds of a setting: a sound table, values that settle, and the hops *)
(***************************************************************************)

(* What the rules rest on in the table of bounds, field by field.          *)
Sound(b) ==
    /\ b.lo \in Int /\ b.hi \in Int /\ b.default \in Int
    /\ b.lo <= b.default /\ b.default <= b.hi
    /\ b.repair \in {"reset", "clamp", "zero", "zero only"}
    /\ b.wire \in {"none", "positive", "natural", "knob", "policy", "copied"}
    /\ b.put = "or zero" => b.wire = "copied"
    /\ b.wire = "positive" => b.repair = "reset" /\ b.lo > 0
    /\ b.wire = "natural" => b.repair = "clamp" /\ b.lo >= 0
    /\ b.wire = "knob" => b.repair = "zero" /\ b.default # 0
    /\ b.wire = "policy" => b.repair = "reset"

(* The table of bounds is sound.                                           *)
LEMMA TableIsSound == \A f \in DOMAIN Fields : Sound(Fields[f])
  <1>1. DOMAIN Fields = {"grace_period", "poll_interval", "session_warning",
          "retention_days", "audit_days", "aggregator_interval", "retention_interval",
          "dashboard_port", "memory_limit", "sample_interval", "alert_delay",
          "update_poll_hours", "top_processes", "retention_hours", "min_count",
          "spike_threshold", "cooldown_minutes", "maturity", "persist_interval",
          "half_life", "prior_strength", "mean_prior"}
    BY DEF Fields
  <1>2. Sound(Fields.grace_period)
    <2>1. Fields.grace_period = Field(1, 1440, 60, "reset", "range", "positive")
      BY DEF Fields
    <2>2. Sound(Field(1, 1440, 60, "reset", "range", "positive"))
      BY SMT DEF Field, Sound
    <2> QED  BY <2>1, <2>2
  <1>3. Sound(Fields.poll_interval)
    <2>1. Fields.poll_interval = Field(10, 86400, 300, "reset", "range", "positive")
      BY DEF Fields
    <2>2. Sound(Field(10, 86400, 300, "reset", "range", "positive"))
      BY SMT DEF Field, Sound
    <2> QED  BY <2>1, <2>2
  <1>4. Sound(Fields.session_warning)
    <2>1. Fields.session_warning = Field(0, 100, 80, "clamp", "range", "natural")
      BY DEF Fields
    <2>2. Sound(Field(0, 100, 80, "clamp", "range", "natural"))
      BY SMT DEF Field, Sound
    <2> QED  BY <2>1, <2>2
  <1>5. Sound(Fields.retention_days)
    <2>1. Fields.retention_days = Field(1, 365, 90, "clamp", "none", "none")
      BY DEF Fields
    <2>2. Sound(Field(1, 365, 90, "clamp", "none", "none"))
      BY SMT DEF Field, Sound
    <2> QED  BY <2>1, <2>2
  <1>6. Sound(Fields.audit_days)
    <2>1. Fields.audit_days = Field(1, 3650, 365, "clamp", "none", "none")
      BY DEF Fields
    <2>2. Sound(Field(1, 3650, 365, "clamp", "none", "none"))
      BY SMT DEF Field, Sound
    <2> QED  BY <2>1, <2>2
  <1>7. Sound(Fields.aggregator_interval)
    <2>1. Fields.aggregator_interval = Field(10, 3600, 300, "reset", "none", "none")
      BY DEF Fields
    <2>2. Sound(Field(10, 3600, 300, "reset", "none", "none"))
      BY SMT DEF Field, Sound
    <2> QED  BY <2>1, <2>2
  <1>8. Sound(Fields.retention_interval)
    <2>1. Fields.retention_interval = Field(1, 1440, 60, "reset", "none", "none")
      BY DEF Fields
    <2>2. Sound(Field(1, 1440, 60, "reset", "none", "none"))
      BY SMT DEF Field, Sound
    <2> QED  BY <2>1, <2>2
  <1>9. Sound(Fields.dashboard_port)
    <2>1. Fields.dashboard_port = Field(1, 65535, 49470, "reset", "none", "none")
      BY DEF Fields
    <2>2. Sound(Field(1, 65535, 49470, "reset", "none", "none"))
      BY SMT DEF Field, Sound
    <2> QED  BY <2>1, <2>2
  <1>10. Sound(Fields.memory_limit)
    <2>1. Fields.memory_limit = Field(32, 4096, 32, "clamp", "none", "none")
      BY DEF Fields
    <2>2. Sound(Field(32, 4096, 32, "clamp", "none", "none"))
      BY SMT DEF Field, Sound
    <2> QED  BY <2>1, <2>2
  <1>11. Sound(Fields.sample_interval)
    <2>1. Fields.sample_interval = Field(10, 300, 60, "zero", "or zero", "copied")
      BY DEF Fields
    <2>2. Sound(Field(10, 300, 60, "zero", "or zero", "copied"))
      BY SMT DEF Field, Sound
    <2> QED  BY <2>1, <2>2
  <1>12. Sound(Fields.alert_delay)
    <2>1. Fields.alert_delay = Field(0, NoLimit, 120, "zero only", "range", "copied")
      BY DEF Fields
    <2>2. Sound(Field(0, NoLimit, 120, "zero only", "range", "copied"))
      BY SMT DEF Field, Sound, NoLimit
    <2> QED  BY <2>1, <2>2
  <1>13. Sound(Fields.update_poll_hours)
    <2>1. Fields.update_poll_hours = Field(1, NoLimit, 24, "zero", "range", "copied")
      BY DEF Fields
    <2>2. Sound(Field(1, NoLimit, 24, "zero", "range", "copied"))
      BY SMT DEF Field, Sound, NoLimit
    <2> QED  BY <2>1, <2>2
  <1>14. Sound(Fields.top_processes)
    <2>1. Fields.top_processes = Field(0, 5, 3, "reset", "range", "policy")
      BY DEF Fields
    <2>2. Sound(Field(0, 5, 3, "reset", "range", "policy"))
      BY SMT DEF Field, Sound
    <2> QED  BY <2>1, <2>2
  <1>15. Sound(Fields.retention_hours)
    <2>1. Fields.retention_hours = Field(1, 168, 24, "reset", "range", "none")
      BY DEF Fields
    <2>2. Sound(Field(1, 168, 24, "reset", "range", "none"))
      BY SMT DEF Field, Sound
    <2> QED  BY <2>1, <2>2
  <1>16. Sound(Fields.min_count)
    <2>1. Fields.min_count = Spike(1, 10000, 10)
      BY DEF Fields
    <2>2. Sound(Spike(1, 10000, 10))
      BY SMT DEF Spike, Field, Sound
    <2> QED  BY <2>1, <2>2
  <1>17. Sound(Fields.spike_threshold)
    <2>1. Fields.spike_threshold = Spike(1, 100000000, 100000)
      BY DEF Fields
    <2>2. Sound(Spike(1, 100000000, 100000))
      BY SMT DEF Spike, Field, Sound
    <2> QED  BY <2>1, <2>2
  <1>18. Sound(Fields.cooldown_minutes)
    <2>1. Fields.cooldown_minutes = Spike(1, 1440, 60)
      BY DEF Fields
    <2>2. Sound(Spike(1, 1440, 60))
      BY SMT DEF Spike, Field, Sound
    <2> QED  BY <2>1, <2>2
  <1>19. Sound(Fields.maturity)
    <2>1. Fields.maturity = Spike(1, 10000, 630)
      BY DEF Fields
    <2>2. Sound(Spike(1, 10000, 630))
      BY SMT DEF Spike, Field, Sound
    <2> QED  BY <2>1, <2>2
  <1>20. Sound(Fields.persist_interval)
    <2>1. Fields.persist_interval = Spike(60, 86400, 900)
      BY DEF Fields
    <2>2. Sound(Spike(60, 86400, 900))
      BY SMT DEF Spike, Field, Sound
    <2> QED  BY <2>1, <2>2
  <1>21. Sound(Fields.half_life)
    <2>1. Fields.half_life = Spike(60, 10000, 630)
      BY DEF Fields
    <2>2. Sound(Spike(60, 10000, 630))
      BY SMT DEF Spike, Field, Sound
    <2> QED  BY <2>1, <2>2
  <1>22. Sound(Fields.prior_strength)
    <2>1. Fields.prior_strength = Spike(1, 10000, 60)
      BY DEF Fields
    <2>2. Sound(Spike(1, 10000, 60))
      BY SMT DEF Spike, Field, Sound
    <2> QED  BY <2>1, <2>2
  <1>23. Sound(Fields.mean_prior)
    <2>1. Fields.mean_prior = Spike(0, 10000, 1)
      BY DEF Fields
    <2>2. Sound(Spike(0, 10000, 1))
      BY SMT DEF Spike, Field, Sound
    <2> QED  BY <2>1, <2>2
  <1> QED
    BY <1>1, <1>2, <1>3, <1>4, <1>5, <1>6, <1>7, <1>8, <1>9, <1>10, <1>11, <1>12,
       <1>13, <1>14, <1>15, <1>16, <1>17, <1>18, <1>19, <1>20, <1>21, <1>22, <1>23

(* Clamping: into the bounds, and nothing inside them.                     *)
LEMMA NearestIs ==
    ASSUME NEW b, NEW lo \in Int, NEW hi \in Int, b.lo = lo, b.hi = hi, lo <= hi,
           NEW w \in Int
    PROVE  /\ Nearest(b, w) \in Int
           /\ lo <= Nearest(b, w) /\ Nearest(b, w) <= hi
           /\ lo <= w /\ w <= hi => Nearest(b, w) = w
           /\ w >= 0 /\ hi >= 0 => Nearest(b, w) >= 0
  BY DEF Nearest

(* Repairing and overlaying, for any sound row of the table.               *)
LEMMA ClampSettles ==
    ASSUME NEW b, Sound(b), NEW v \in Int
    PROVE  /\ Repaired(b, v) \in Int
           /\ b.repair # "zero only" => InRange(b, Repaired(b, v))
           /\ InRange(b, v) \/ (b.put = "or zero" /\ v = 0) =>
                /\ Repaired(b, Repaired(b, v)) = Repaired(b, v)
                /\ b.wire # "none" => Overlaid(b, Repaired(b, v)) = Repaired(b, v)
  <1>1. PICK lo \in Int, hi \in Int, d \in Int :
          b.lo = lo /\ b.hi = hi /\ b.default = d /\ lo <= d /\ d <= hi
    BY DEF Sound
  <1> DEFINE r == Repaired(b, v)
             rr == Repaired(b, r)
             o == Overlaid(b, r)
  <1>2. /\ Nearest(b, v) \in Int /\ lo <= Nearest(b, v) /\ Nearest(b, v) <= hi
        /\ lo <= v /\ v <= hi => Nearest(b, v) = v
    BY <1>1, NearestIs
  <1>3. ASSUME NEW w \in Int, lo <= w, w <= hi
        PROVE  /\ Nearest(b, w) = w /\ InRange(b, w)
               /\ b.repair # "zero" => Repaired(b, w) = w \/ b.repair = "zero only"
               /\ b.repair = "zero" /\ w # 0 => Repaired(b, w) = w
               /\ b.wire # "none" /\ (b.wire = "knob" => w # 0) => Overlaid(b, w) = w
    <2>1. Nearest(b, w) = w /\ InRange(b, w)
      BY <1>1, <1>3, NearestIs DEF InRange
    <2>2. b.repair # "zero" => Repaired(b, w) = w \/ b.repair = "zero only"
      BY <2>1 DEF Repaired, Sound
    <2>3. b.repair = "zero" /\ w # 0 => Repaired(b, w) = w
      BY <2>1 DEF Repaired
    <2>4. /\ b.wire = "positive" => w > 0
          /\ b.wire = "natural" => w >= 0
      <3>1. /\ b.wire = "positive" => lo > 0
            /\ b.wire = "natural" => lo >= 0
        BY <1>1 DEF Sound
      <3> QED  BY <3>1, <1>3
    <2>5. b.wire # "none" /\ (b.wire = "knob" => w # 0) => Overlaid(b, w) = w
      <3>1. b.wire \in {"none", "positive", "natural", "knob", "policy", "copied"}
        BY DEF Sound
      <3> QED  BY <2>1, <2>4, <3>1 DEF Overlaid
    <2> QED  BY <2>1, <2>2, <2>3, <2>5
  <1>4. CASE b.repair = "reset"
    <2>1. r \in Int /\ lo <= r /\ r <= hi /\ b.wire # "knob"
      BY <1>4, <1>1 DEF Repaired, InRange, Sound
    <2> QED  BY <2>1, <1>3, <1>4
  <1>5. CASE b.repair = "clamp"
    <2>1. r \in Int /\ lo <= r /\ r <= hi /\ b.wire # "knob"
      BY <1>5, <1>2 DEF Repaired, Sound
    <2> QED  BY <2>1, <1>3, <1>5
  <1>6. CASE b.repair = "zero"
    <2>1. r = (IF v = 0 THEN d ELSE Nearest(b, v)) /\ b.default = d
      BY <1>6, <1>1 DEF Repaired
    <2>2. r \in Int /\ lo <= r /\ r <= hi
      BY <2>1, <1>1, <1>2
    <2>3. rr = IF r = 0 THEN d ELSE Nearest(b, r)
      BY <1>6, <1>1 DEF Repaired
    <2>4. Nearest(b, r) = r /\ InRange(b, r)
      BY <2>2, <1>3
    <2>5. InRange(b, v) <=> (lo <= v /\ v <= hi)
      BY <1>1 DEF InRange
    <2>6. InRange(b, v) \/ v = 0 => rr = r /\ (r = 0 => d = 0)
      BY <2>1, <2>3, <2>4, <2>5, <1>2
    <2>7. b.wire = "knob" => d # 0
      BY <1>1 DEF Sound
    <2>8. InRange(b, v) \/ v = 0 => (b.wire # "none" => o = r)
      BY <2>2, <2>6, <2>7, <1>3
    <2> QED  BY <2>2, <2>4, <2>6, <2>8
  <1>7. CASE b.repair = "zero only"
    <2>1. r = (IF v = 0 THEN d ELSE v) /\ rr = IF r = 0 THEN d ELSE r
      BY <1>7, <1>1 DEF Repaired
    <2>2. r \in Int /\ rr = r
      BY <2>1
    <2>3. InRange(b, v) \/ v = 0 => lo <= r /\ r <= hi
      BY <2>1, <1>1 DEF InRange
    <2>4. b.wire # "knob"
      BY <1>7 DEF Sound
    <2> QED  BY <2>2, <2>3, <2>4, <1>3, <1>7
  <1> QED  BY <1>4, <1>5, <1>6, <1>7 DEF Sound

NumberHolds(f, n) ==
    /\ NumberValidated(n).field = f
    /\ Fields[f].repair # "zero only" => InRange(Fields[f], NumberValidated(n).value)
    /\ NumberAccepted(n) =>
         /\ NumberValidated(NumberValidated(n)) = NumberValidated(n)
         /\ Fields[f].wire # "none" => NumberRemote(NumberValidated(n)) = {NumberValidated(n)}

(* A number the dashboard accepted is repaired once and for all.            *)
LEMMA NumberSettles ==
    ASSUME NEW f \in DOMAIN Fields, NEW v \in Boundary(f),
           NEW n, n = [field |-> f, value |-> v]
    PROVE  NumberHolds(f, n)
  <1>1. PICK b : b = Fields[f]
    OBVIOUS
  <1>2. Sound(b)
    BY <1>1, TableIsSound
  <1>3. v \in Int
    <2>1. v \in {-1, 0, b.lo - 1, b.lo, b.default, b.hi, b.hi + 1}
      BY <1>1 DEF Boundary
    <2>2. PICK lo \in Int, hi \in Int, d \in Int : b.lo = lo /\ b.hi = hi /\ b.default = d
      BY <1>2 DEF Sound
    <2> QED  BY <2>1, <2>2
  <1>4. /\ NumberValidated(n) = [field |-> f, value |-> Repaired(b, v)]
        /\ NumberValidated(NumberValidated(n)) =
             [field |-> f, value |-> Repaired(b, Repaired(b, v))]
        /\ NumberRemote(NumberValidated(n)) =
             {[field |-> f, value |-> Overlaid(b, Repaired(b, v))]}
    <2>1. ASSUME NEW x
          PROVE  LET m == [field |-> f, value |-> x]
                 IN  /\ NumberValidated(m) = [field |-> f, value |-> Repaired(b, x)]
                     /\ NumberRemote(m) = {[field |-> f, value |-> Overlaid(b, x)]}
      BY <1>1 DEF NumberValidated, NumberRemote
    <2> QED  BY <2>1
  <1>5. NumberAccepted(n) => InRange(b, v) \/ (b.put = "or zero" /\ v = 0)
    <2>1. n.field = f /\ n.value = v
      OBVIOUS
    <2> QED  BY <1>1, <2>1 DEF NumberAccepted
  <1>6. /\ b.repair # "zero only" => InRange(b, Repaired(b, v))
        /\ InRange(b, v) \/ (b.put = "or zero" /\ v = 0) =>
             /\ Repaired(b, Repaired(b, v)) = Repaired(b, v)
             /\ b.wire # "none" => Overlaid(b, Repaired(b, v)) = Repaired(b, v)
    BY <1>2, <1>3, ClampSettles
  <1>7. NumberValidated(n).field = f /\ NumberValidated(n).value = Repaired(b, v)
    BY <1>4
  <1> QED  BY <1>1, <1>4, <1>5, <1>6, <1>7 DEF NumberHolds

(* A target by its fields.                                                 *)
Target(type, link, on, name, off, rep, sev, addr) ==
    [type |-> type, url |-> link, triggers |-> on, excluded |-> name, exclusion |-> off,
     repeat |-> rep, severity |-> sev, addressed |-> addr]

Firing(on) == IF on = {} THEN DefaultTriggers ELSE on
Kept(on) == IF on = {} THEN DefaultTriggers ELSE on \cap ValidTriggers
Silenced(on, off) == {tr \in off : tr \in ValidTriggers /\ tr \in Firing(on)}
Nobody(on, name, off) == name \in {"nobody", "blank", "dot"} \/ Silenced(on, off) = {}
Within(rep) == IF rep < 0 THEN 0 ELSE IF rep > 10080 THEN 10080 ELSE rep

Renewed(t, type, link, on, name, off, rep, sev, addr) ==
    Target(type, IF Sendable(t) THEN link ELSE "none", Kept(on),
           IF Nobody(Kept(on), name, off) THEN "nobody" ELSE name,
           IF Nobody(Kept(on), name, off) THEN {} ELSE Silenced(Kept(on), off),
           Within(rep), IF sev = "loud" THEN "" ELSE sev, addr)

(* Normalising, field by field.                                            *)
LEMMA NormalisedIs ==
    ASSUME NEW type, NEW link, NEW on, NEW name, NEW off, NEW rep, NEW sev, NEW addr,
           NEW t, t = Target(type, link, on, name, off, rep, sev, addr)
    PROVE  Normalised(t) = Renewed(t, type, link, on, name, off, rep, sev, addr)
  <1>1. TriggersKept(t) = Kept(on)
    BY DEF TriggersKept, Kept, Target
  <1> DEFINE s == [t EXCEPT !.triggers = Kept(on)]
  <1>2. s = Target(type, link, Kept(on), name, off, rep, sev, addr)
    BY DEF Target
  <1>3. t.exclusion = off /\ t.excluded = name /\ s.triggers = Kept(on)
    BY <1>2 DEF Target
  <1>4. \A tr : HasTrigger(s, tr) <=> tr \in Firing(Kept(on))
    BY <1>3 DEF HasTrigger, Firing
  <1>5. {tr \in t.exclusion : tr \in ValidTriggers /\ HasTrigger(s, tr)} = Silenced(Kept(on), off)
    BY <1>3, <1>4 DEF Silenced
  <1>6. ExclusionKept(t) = IF Nobody(Kept(on), name, off)
                           THEN [s EXCEPT !.excluded = "nobody", !.exclusion = {}]
                           ELSE [s EXCEPT !.exclusion = Silenced(Kept(on), off)]
    BY <1>1, <1>3, <1>5 DEF ExclusionKept, Nobody
  <1>7. ExclusionKept(t) = Target(type, link, Kept(on),
           IF Nobody(Kept(on), name, off) THEN "nobody" ELSE name,
           IF Nobody(Kept(on), name, off) THEN {} ELSE Silenced(Kept(on), off), rep, sev, addr)
    BY <1>2, <1>6 DEF Target
  <1> DEFINE name2 == IF Nobody(Kept(on), name, off) THEN "nobody" ELSE name
             off2 == IF Nobody(Kept(on), name, off) THEN {} ELSE Silenced(Kept(on), off)
             link2 == IF Sendable(t) THEN link ELSE "none"
  <1>8. PICK u : u = ExclusionKept(t) /\ u = Target(type, link, Kept(on), name2, off2, rep, sev, addr)
    BY <1>7
  <1>9. Normalised(t) = [u EXCEPT !.repeat = Within(u.repeat),
                                  !.severity = IF u.severity = "loud" THEN "" ELSE u.severity,
                                  !.url = IF Sendable(t) THEN u.url ELSE "none"]
    <2> HIDE DEF name2, off2
    <2>1. Normalised(t) =
            LET x == ExclusionKept(t)
            IN  [x EXCEPT !.repeat = Within(x.repeat),
                          !.severity = IF x.severity = "loud" THEN "" ELSE x.severity,
                          !.url = IF Sendable(t) THEN x.url ELSE "none"]
      BY DEF Normalised, Within
    <2>2. u = ExclusionKept(t)
      BY <1>8
    <2> QED  BY <2>1, <2>2
  <1>10. Normalised(t) = Target(type, link2, Kept(on), name2, off2, Within(rep),
                                IF sev = "loud" THEN "" ELSE sev, addr)
    <2>1. u.repeat = rep /\ u.severity = sev /\ u.url = link
      <3> HIDE DEF name2, off2
      <3> QED  BY <1>8 DEF Target
    <2>2. Normalised(t) = [u EXCEPT !.repeat = Within(rep),
                                    !.severity = IF sev = "loud" THEN "" ELSE sev,
                                    !.url = link2]
      BY <1>9, <2>1
    <2> DEFINE rep2 == Within(rep)
               sev2 == IF sev = "loud" THEN "" ELSE sev
    <2>3. Normalised(t) = [u EXCEPT !.repeat = rep2, !.severity = sev2, !.url = link2]
      BY <2>2
    <2> HIDE DEF name2, off2, link2, rep2, sev2
    <2>4. Normalised(t) = Target(type, link2, Kept(on), name2, off2, rep2, sev2, addr)
      <3>1. [u EXCEPT !.repeat = rep2]
              = Target(type, link, Kept(on), name2, off2, rep2, sev, addr)
        BY <1>8 DEF Target
      <3>2. [Target(type, link, Kept(on), name2, off2, rep2, sev, addr) EXCEPT !.severity = sev2]
              = Target(type, link, Kept(on), name2, off2, rep2, sev2, addr)
        BY DEF Target
      <3>3. [Target(type, link, Kept(on), name2, off2, rep2, sev2, addr) EXCEPT !.url = link2]
              = Target(type, link2, Kept(on), name2, off2, rep2, sev2, addr)
        BY DEF Target
      <3>4. [u EXCEPT !.repeat = rep2, !.severity = sev2, !.url = link2]
              = [[[u EXCEPT !.repeat = rep2] EXCEPT !.severity = sev2] EXCEPT !.url = link2]
        OBVIOUS
      <3> QED  BY <2>3, <3>1, <3>2, <3>3, <3>4
    <2> QED  BY <2>4 DEF rep2, sev2
  <1> QED  BY <1>10 DEF Renewed

(* Every target the model sends has these eight fields.                    *)
LEMMA SentTargets ==
    ASSUME NEW t \in Targets
    PROVE  \E type, link, on, name, off, rep, sev, addr :
              t = Target(type, link, on, name, off, rep, sev, addr) /\ rep \in Int
  BY DEF Targets, Plain, Target

(* An accepted target is normalised once and for all.                      *)
LEMMA TargetSettles ==
    ASSUME NEW t \in Targets
    PROVE  /\ TargetAccepted(t) => /\ Supported(Normalised(t))
                                  /\ Normalised(Normalised(t)) = Normalised(t)
           /\ \A tr \in Normalised(t).exclusion : HasTrigger(Normalised(t), tr)
  <1>1. PICK type, link, on, name, off, rep, sev, addr :
           t = Target(type, link, on, name, off, rep, sev, addr) /\ rep \in Int
    BY SentTargets
  <1> DEFINE link2 == IF Sendable(t) THEN link ELSE "none"
             on2 == Kept(on)
             name2 == IF Nobody(on2, name, off) THEN "nobody" ELSE name
             off2 == IF Nobody(on2, name, off) THEN {} ELSE Silenced(on2, off)
             rep2 == Within(rep)
             sev2 == IF sev = "loud" THEN "" ELSE sev
             w == Normalised(t)
  <1>2. w = Target(type, link2, on2, name2, off2, rep2, sev2, addr)
    <2>1. w = Renewed(t, type, link, on, name, off, rep, sev, addr)
      BY <1>1, NormalisedIs
    <2> QED  BY <2>1 DEF Renewed
  <1>3. Normalised(w) = Renewed(w, type, link2, on2, name2, off2, rep2, sev2, addr)
    <2> HIDE DEF link2, on2, name2, off2, rep2, sev2, w
    <2> QED  BY <1>2, NormalisedIs
  <1>4. \A tr \in off2 : tr \in Firing(on2)
    BY DEF Silenced
  <1>5. /\ w.exclusion = off2 /\ w.triggers = on2 /\ w.type = type /\ w.url = link2
        /\ t.type = type /\ t.url = link /\ w.addressed = t.addressed
    <2> HIDE DEF link2, on2, name2, off2, rep2, sev2, w
    <2> QED  BY <1>1, <1>2 DEF Target
  <1>6. \A tr \in w.exclusion : HasTrigger(w, tr)
    <2> HIDE DEF off2, on2, w
    <2>1. \A tr : HasTrigger(w, tr) <=> tr \in Firing(on2)
      BY <1>5 DEF HasTrigger, Firing
    <2> QED  BY <1>4, <1>5, <2>1
  <1>7. ASSUME TargetAccepted(t)
        PROVE  Supported(w) /\ Normalised(w) = w
    <2>1. on \subseteq ValidTriggers /\ type # "sms" /\ link # "ftp"
      <3>1. t.triggers = on /\ t.type = type /\ t.url = link
        BY <1>1 DEF Target
      <3> QED  BY <1>7, <3>1 DEF TargetAccepted
    <2>2. Kept(on2) = on2
      BY <2>1 DEF Kept, DefaultTriggers, ValidTriggers
    <2>3. Sendable(t) => w.url = t.url
      BY <1>5
    <2>4. Sendable(w) <=> Sendable(t)
      <3>1. ~Sendable(t) => w.url = "none" /\ t.type = "email"
        BY <1>5 DEF Sendable
      <3> QED  BY <1>5, <2>3, <3>1 DEF Sendable
    <2>5. (IF Sendable(w) THEN link2 ELSE "none") = link2
      BY <2>4
    <2>6. Silenced(on2, off2) = off2
      BY DEF Silenced
    <2>7. Nobody(on2, name2, off2) <=> Nobody(on2, name, off)
      <3>1. CASE Nobody(on2, name, off)
        BY <3>1 DEF Nobody
      <3>2. CASE ~Nobody(on2, name, off)
        BY <3>2, <2>6 DEF Nobody
      <3> QED  BY <3>1, <3>2
    <2>8. Within(rep2) = rep2
      BY <1>1 DEF Within
    <2>9. /\ (IF Nobody(on2, name2, off2) THEN "nobody" ELSE name2) = name2
          /\ (IF Nobody(on2, name2, off2) THEN {} ELSE Silenced(on2, off2)) = off2
          /\ (IF sev2 = "loud" THEN "" ELSE sev2) = sev2
      BY <2>6, <2>7
    <2>10. Supported(w)
      <3>1. w.type = type /\ w.url = link2
        BY <1>5
      <3> QED  BY <2>1, <3>1 DEF Supported
    <2>11. Normalised(w) = Target(type, link2, on2, name2, off2, rep2, sev2, addr)
      <3> HIDE DEF link2, on2, name2, off2, rep2, sev2, w
      <3> QED  BY <1>3, <2>2, <2>5, <2>8, <2>9 DEF Renewed
    <2> QED  BY <1>2, <2>10, <2>11
  <1> QED  BY <1>6, <1>7

Minutes == 1..1440
(* What the service keeps of the cooldowns: a few trimmed names, in range. *)
Tidy(w) == \E names \in SUBSET {"a", "b"} :
             w \in [names -> Minutes] /\ Cardinality(names) <= MaxOverrides

(* A cooldown is brought between a minute and a day, and left there.       *)
Patience == Fields.cooldown_minutes

LEMMA CooldownClamps ==
    ASSUME NEW v \in Int
    PROVE  /\ Repaired(Patience, v) \in Minutes
           /\ v \in Minutes => /\ InRange(Patience, v)
                              /\ Repaired(Patience, v) = v
                              /\ Overlaid(Patience, v) = v
  <1>1. Patience = Spike(1, 1440, 60)
    BY DEF Fields, Patience
  <1>2. /\ Patience.lo = 1 /\ Patience.hi = 1440 /\ Patience.default = 60
        /\ Patience.repair = "zero" /\ Patience.wire = "knob"
    BY <1>1 DEF Spike, Field
  <1>3. /\ Nearest(Patience, v) \in 1..1440
        /\ v \in 1..1440 => Nearest(Patience, v) = v
    BY <1>2 DEF Nearest
  <1>4. /\ Repaired(Patience, v) = IF v = 0 THEN 60 ELSE Nearest(Patience, v)
        /\ Overlaid(Patience, v) = IF v = 0 THEN 60 ELSE Nearest(Patience, v)
    BY <1>2 DEF Repaired, Overlaid
  <1>5. v \in 1..1440 => InRange(Patience, v)
    BY <1>2 DEF InRange
  <1> QED  BY <1>3, <1>4, <1>5 DEF Minutes

(* At most two names are left after trimming.                              *)
LEMMA TwoNames ==
    ASSUME NEW D \in SUBSET {"a", "b"}
    PROVE  /\ IsFiniteSet(D) /\ Cardinality(D) \in Nat /\ Cardinality(D) <= 2
           /\ D = {} => Cardinality(D) = 0
           /\ D # {} => Cardinality(D) >= 1
           /\ "a" \in D /\ "b" \in D => Cardinality(D) = 2
           /\ "a" \notin D \/ "b" \notin D => Cardinality(D) <= 1
  <1>1. D \in {{}, {"a"}, {"b"}, {"a", "b"}}
    OBVIOUS
  <1>2. Cardinality({}) = 0 /\ Cardinality({"a"}) = 1 /\ Cardinality({"b"}) = 1
        /\ IsFiniteSet({}) /\ IsFiniteSet({"a"}) /\ IsFiniteSet({"b"})
    BY FS_EmptySet, FS_Singleton
  <1>3. IsFiniteSet({"a", "b"}) /\ Cardinality({"a", "b"}) = 2
    <2>1. {"a", "b"} = {"a"} \union {"b"} /\ "b" \notin {"a"}
      OBVIOUS
    <2>2. /\ IsFiniteSet({"a"} \union {"b"})
          /\ Cardinality({"a"} \union {"b"}) = Cardinality({"a"}) + 1
      BY <2>1, <1>2, FS_AddElement
    <2>3. Cardinality({"a", "b"}) = Cardinality({"a"}) + 1
      BY <2>1, <2>2
    <2> QED  BY <1>2, <2>1, <2>2, <2>3
  <1>4. CASE D = {}
    BY <1>2, <1>4
  <1>5. CASE D = {"a"}
    BY <1>2, <1>5
  <1>6. CASE D = {"b"}
    BY <1>2, <1>6
  <1>7. CASE D = {"a", "b"}
    BY <1>3, <1>7
  <1> QED  BY <1>1, <1>4, <1>5, <1>6, <1>7

(* Validate leaves tidy cooldowns, whatever was typed.                     *)
LEMMA CooldownsAreTidied ==
    ASSUME NEW m \in Cooldowns
    PROVE  Tidy(CooldownsValidated(m))
  <1>2. PICK ns \in SUBSET RawNames : m \in [ns -> {0, 1, 1440, 1441}]
    BY DEF Cooldowns
  <1>3. m \in [ns -> Int]
    BY <1>2
  <1>4. DOMAIN m = ns /\ \A n \in ns : m[n] \in Int
    BY <1>3, Zenon
  <1> DEFINE First == {n \in DOMAIN m \ {""} :
                         \A o \in DOMAIN m : Trim(o) = Trim(n) /\ Before(o, n) => o = n}
             earlier(n) == {o \in First : Before(o, n)}
             kept == {n \in First : Cardinality(earlier(n)) < MaxOverrides}
             names == {Trim(n) : n \in kept}
             raw(c) == CHOOSE n \in kept : Trim(n) = c
             w == [c \in names |-> Repaired(Patience, m[raw(c)])]
  <1>1. CooldownsValidated(m) = w
    BY DEF CooldownsValidated, UnderNames, Patience
  <1>5. First \subseteq ns /\ First \subseteq {"a", "a ", "b"}
    <2>1. DOMAIN m = ns /\ ns \subseteq {"", "a", "a ", "b"}
      BY <1>2, <1>4, Zenon DEF RawNames
    <2>2. First \subseteq DOMAIN m \ {""}
      OBVIOUS
    <2> QED  BY <2>1, <2>2
  <1>6. names \in SUBSET {"a", "b"}
    BY <1>5 DEF Trim
  <1>7. w \in [names -> Minutes]
    <2>1. ASSUME NEW c \in names
          PROVE  Repaired(Patience, m[raw(c)]) \in Minutes
      <3>1. raw(c) \in kept
        OBVIOUS
      <3>2. PICK n : n = raw(c) /\ n \in ns
        <4> HIDE DEF raw
        <4> QED  BY <3>1, <1>5
      <3> HIDE DEF raw, names, kept, First
      <3>3. PICK v \in Int : v = m[n]
        BY <1>4, <3>2
      <3>4. Repaired(Patience, v) \in Minutes
        BY <3>3, CooldownClamps
      <3>5. m[raw(c)] = v
        BY <3>2, <3>3
      <3> QED  BY <3>4, <3>5
    <2> HIDE DEF names, raw
    <2> QED  BY <2>1
  <1>8. Cardinality(names) <= MaxOverrides
    <2>1. ASSUME NEW n \in First
          PROVE  Cardinality(earlier(n)) \in Nat /\ IsFiniteSet(earlier(n))
      <3>1. IsFiniteSet({"a", "a ", "b"})
        <4>1. IsFiniteSet({"a"} \union {"a "})
          BY FS_Singleton, FS_AddElement
        <4>2. IsFiniteSet(({"a"} \union {"a "}) \union {"b"})
          BY <4>1, FS_AddElement
        <4>3. ({"a"} \union {"a "}) \union {"b"} = {"a", "a ", "b"}
          OBVIOUS
        <4> QED  BY <4>2, <4>3
      <3>2. earlier(n) \subseteq {"a", "a ", "b"}
        BY <1>5
      <3> HIDE DEF earlier, First
      <3>3. IsFiniteSet(earlier(n))
        BY <3>1, <3>2, FS_Subset
      <3> QED  BY <3>3, FS_CardinalityType
    <2>2. CASE names = {}
      <3> HIDE DEF names, kept, First
      <3> QED  BY <2>2, FS_EmptySet, BoundsAssumption
    <2>3. CASE names # {}
      <3>1. PICK n \in kept : TRUE
        BY <2>3
      <3>2. 1 <= MaxOverrides
        <4>1. n \in First /\ Cardinality(earlier(n)) < MaxOverrides
          OBVIOUS
        <4> HIDE DEF earlier, First, kept
        <4> QED  BY <4>1, <2>1, BoundsAssumption
      <3>3. CASE "a" \notin names \/ "b" \notin names
        <4> HIDE DEF names, kept, First
        <4>1. Cardinality(names) \in Nat /\ Cardinality(names) <= 1
          BY <3>3, <1>6, TwoNames
        <4> QED  BY <4>1, <3>2, BoundsAssumption
      <3>4. CASE "a" \in names /\ "b" \in names
        <4>1. PICK p \in kept, q \in kept : Trim(p) = "a" /\ Trim(q) = "b"
          BY <3>4
        <4>2. p \in First /\ q \in First
          OBVIOUS
        <4>3. Before(p, q)
          BY <4>1, <4>2, <1>5 DEF Before, Trim
        <4>4. p \in earlier(q) /\ Cardinality(earlier(q)) < MaxOverrides
          BY <4>2, <4>3
        <4> HIDE DEF earlier, First, kept
        <4>5. Cardinality(earlier(q)) >= 1
          BY <4>2, <4>4, <2>1, FS_EmptySet
        <4>6. MaxOverrides >= 2
          BY <4>2, <4>4, <4>5, <2>1, BoundsAssumption
        <4> QED  BY <4>6, <1>6, TwoNames, BoundsAssumption
      <3> QED  BY <3>3, <3>4
    <2> QED  BY <2>2, <2>3
  <1> HIDE DEF w, names
  <1> QED  BY <1>1, <1>6, <1>7, <1>8 DEF Tidy

(* Tidy cooldowns stay as they are, in the service and on an agent.        *)
LEMMA TidyCooldownsStay ==
    ASSUME NEW w, Tidy(w)
    PROVE  CooldownsValidated(w) = w /\ CooldownsRemote(w) = {w}
  <1>1. PICK D \in SUBSET {"a", "b"} : w \in [D -> Minutes] /\ Cardinality(D) <= MaxOverrides
    BY DEF Tidy
  <1>2. DOMAIN w = D /\ \A n \in D : w[n] \in Minutes
    BY <1>1, Zenon
  <1>3. \A n \in D : Trim(n) = n /\ n # ""
    BY DEF Trim
  <1>4. {Trim(n) : n \in D} = D
    BY <1>3
  <1>5. ASSUME NEW c \in D
        PROVE  /\ (CHOOSE n \in D : Trim(n) = c) = c
               /\ Repaired(Patience, w[c]) = w[c] /\ Overlaid(Patience, w[c]) = w[c]
    <2>1. (CHOOSE n \in D : Trim(n) = c) = c
      BY <1>3
    <2>2. w[c] \in Minutes
      BY <1>2
    <2>3. \A v \in Minutes : v \in Int
      BY DEF Minutes
    <2>4. \A v \in Minutes : Repaired(Patience, v) = v /\ Overlaid(Patience, v) = v
      BY <2>3, CooldownClamps
    <2> QED  BY <2>1, <2>2, <2>4
  <1>6. /\ [c \in D |-> Repaired(Patience, w[CHOOSE n \in D : Trim(n) = c])] = w
        /\ [c \in D |-> Overlaid(Patience, w[CHOOSE n \in D : Trim(n) = c])] = w
    <2>1. w = [c \in D |-> w[c]]
      BY <1>1
    <2> QED  BY <1>5, <2>1, Zenon
  <1>7. CooldownsValidated(w) = w
    <2> DEFINE First == {n \in DOMAIN w \ {""} :
                           \A o \in DOMAIN w : Trim(o) = Trim(n) /\ Before(o, n) => o = n}
               earlier(n) == {o \in First : Before(o, n)}
               kept == {n \in First : Cardinality(earlier(n)) < MaxOverrides}
    <2>1. First = D
      BY <1>2, <1>3
    <2>2. ASSUME NEW n \in D
          PROVE  Cardinality(earlier(n)) < MaxOverrides
      <3>1. earlier(n) \in SUBSET D /\ n \notin earlier(n)
        BY <2>1 DEF Before
      <3> HIDE DEF earlier
      <3>2. earlier(n) \in SUBSET {"a", "b"}
        BY <3>1
      <3>3. CASE D = {"a", "b"}
        <4>1. Cardinality(D) = 2
          BY <3>3, TwoNames
        <4>2. Cardinality(earlier(n)) \in Nat /\ Cardinality(earlier(n)) <= 1
          <5>1. "a" \notin earlier(n) \/ "b" \notin earlier(n)
            BY <3>1, <3>3
          <5> QED  BY <5>1, <3>2, TwoNames
        <4> QED  BY <4>1, <4>2, <1>1, BoundsAssumption
      <3>4. CASE D # {"a", "b"}
        <4>1. earlier(n) = {}
          BY <3>1, <3>4
        <4>2. Cardinality(earlier(n)) = 0
          BY <4>1, <3>2, TwoNames
        <4>3. Cardinality(D) \in Nat /\ Cardinality(D) # 0
          BY TwoNames
        <4> QED  BY <4>2, <4>3, <1>1, BoundsAssumption
      <3> QED  BY <3>3, <3>4
    <2>3. kept = D
      <3> HIDE DEF earlier
      <3> QED  BY <2>1, <2>2
    <2>4. CooldownsValidated(w) =
            [c \in {Trim(n) : n \in kept} |-> Repaired(Patience, w[CHOOSE n \in kept : Trim(n) = c])]
      BY DEF CooldownsValidated, UnderNames, Patience
    <2> HIDE DEF kept
    <2> QED  BY <2>3, <2>4, <1>4, <1>6
  <1>8. CooldownsRemote(w) = {w}
    <2> DEFINE names == {Trim(n) : n \in DOMAIN w} \ {""}
               Full(ns) == /\ {Trim(n) : n \in ns} \subseteq names
                           /\ \A n1, n2 \in ns : Trim(n1) = Trim(n2) => n1 = n2
                           /\ Cardinality(ns) = IF Cardinality(names) < MaxOverrides
                                                THEN Cardinality(names) ELSE MaxOverrides
               under(ns) == [c \in {Trim(n) : n \in ns} |->
                               Overlaid(Patience, w[CHOOSE n \in ns : Trim(n) = c])]
    <2>1. CooldownsRemote(w) = {under(ns) : ns \in {s \in SUBSET DOMAIN w : Full(s)}}
      BY DEF CooldownsRemote, UnderNames, Patience
    <2>2. names = D
      BY <1>2, <1>3, <1>4
    <2>3. ASSUME NEW ns \in SUBSET D
          PROVE  Full(ns) <=> ns = D
      <3> HIDE DEF names
      <3>1. Full(ns) => Cardinality(ns) = Cardinality(D)
        <4>1. Full(ns) => Cardinality(ns) = IF Cardinality(D) < MaxOverrides
                                            THEN Cardinality(D) ELSE MaxOverrides
          BY <2>2
        <4> HIDE DEF Full
        <4>2. Cardinality(D) \in Nat
          BY TwoNames
        <4> QED  BY <4>1, <4>2, <1>1, BoundsAssumption
      <3>2. IsFiniteSet(D) /\ Cardinality(D) \in Nat
        BY TwoNames
      <3>3. Cardinality(ns) = Cardinality(D) => ns = D
        BY <3>2, FS_Subset
      <3>4. Full(D)
        <4>1. Cardinality(D) = IF Cardinality(D) < MaxOverrides
                               THEN Cardinality(D) ELSE MaxOverrides
          BY <1>1, <3>2, BoundsAssumption
        <4> QED  BY <2>2, <1>3, <1>4, <4>1
      <3> QED  BY <3>1, <3>3, <3>4
    <2>4. under(D) = w
      BY <1>4, <1>6
    <2>5. {s \in SUBSET DOMAIN w : Full(s)} = {D}
      <3> HIDE DEF Full
      <3> QED  BY <1>2, <2>3
    <2> HIDE DEF Full, under
    <2> QED  BY <2>1, <2>4, <2>5
  <1> QED  BY <1>7, <1>8

(* What becomes of a setting that was typed or sent: once validated it lies *)
(* within its bounds, and one the dashboard accepted stays what it is then, *)
(* at every load and on every agent that takes it.                          *)
Good(k, w) ==
    /\ k = "number" /\ Fields[w.field].repair # "zero only" =>
         InRange(Fields[w.field], w.value)
    /\ k = "cooldowns" =>
         /\ Cardinality(DOMAIN w) <= MaxOverrides
         /\ \A c \in DOMAIN w : c \notin {"", "a "} /\ InRange(Patience, w[c])
    /\ k = "target" => \A t \in w : \A tr \in t.exclusion : HasTrigger(t, tr)

(* The three kinds of setting in turn.                                     *)
LEMMA NumbersAreGood ==
    ASSUME NEW v \in Inputs("number")
    PROVE  /\ Validated("number", v).field = v.field
           /\ Good("number", Validated("number", v))
           /\ Accepted("number", v) =>
                LET w == Validated("number", v)
                IN  /\ Validated("number", w) = w
                    /\ OnTheWire("number", w) => Remote("number", w) = {w}
  <1>1. PICK f \in DOMAIN Fields : v \in [field : {f}, value : Boundary(f)]
    BY DEF Inputs
  <1>2. PICK x \in Boundary(f) : v = [field |-> f, value |-> x]
    BY <1>1
  <1>3. v.field = f
    BY <1>2
  <1>4. /\ Validated("number", v) = NumberValidated(v)
        /\ Validated("number", NumberValidated(v)) = NumberValidated(NumberValidated(v))
        /\ Remote("number", NumberValidated(v)) = NumberRemote(NumberValidated(v))
        /\ Accepted("number", v) = NumberAccepted(v)
    BY DEF Validated, Remote, Accepted
  <1>5. /\ NumberValidated(v).field = f
        /\ Fields[f].repair # "zero only" => InRange(Fields[f], NumberValidated(v).value)
        /\ NumberAccepted(v) =>
             /\ NumberValidated(NumberValidated(v)) = NumberValidated(v)
             /\ Fields[f].wire # "none" => NumberRemote(NumberValidated(v)) = {NumberValidated(v)}
    <2>1. NumberHolds(f, v)
      BY <1>2, NumberSettles
    <2> QED  BY <2>1 DEF NumberHolds
  <1>6. OnTheWire("number", NumberValidated(v)) => Fields[f].wire # "none"
    BY <1>5 DEF OnTheWire
  <1>7. Good("number", NumberValidated(v))
    <2>1. PICK w : w = NumberValidated(v)
      OBVIOUS
    <2>2. w.field = f /\ (Fields[f].repair # "zero only" => InRange(Fields[f], w.value))
      BY <1>5, <2>1
    <2>3. Good("number", w)
      BY <2>2, Zenon DEF Good
    <2> QED  BY <2>1, <2>3
  <1> QED  BY <1>3, <1>4, <1>5, <1>6, <1>7

(* A list of targets.                                                      *)
LEMMA TargetsAreGood ==
    ASSUME NEW v \in Inputs("target")
    PROVE  /\ Good("target", Validated("target", v))
           /\ Accepted("target", v) =>
                LET w == Validated("target", v)
                IN  Validated("target", w) = w /\ Remote("target", w) = {w}
  <1>1. PICK t \in Targets : v = {t}
    BY DEF Inputs
  <1>2. TargetValidated(v) = IF Supported(t) THEN {Normalised(t)} ELSE {}
    BY <1>1 DEF TargetValidated
  <1>3. /\ Validated("target", v) = TargetValidated(v)
        /\ Validated("target", TargetValidated(v)) = TargetValidated(TargetValidated(v))
        /\ Remote("target", TargetValidated(v)) = {TargetValidated(v)}
        /\ Accepted("target", v) => TargetAccepted(t)
    BY <1>1 DEF Validated, Remote, Accepted
  <1>4. \A u \in TargetValidated(v) : \A tr \in u.exclusion : HasTrigger(u, tr)
    BY <1>2, TargetSettles
  <1>5. ASSUME TargetAccepted(t)
        PROVE  TargetValidated(TargetValidated(v)) = TargetValidated(v)
    <2>1. Supported(Normalised(t)) /\ Normalised(Normalised(t)) = Normalised(t)
      BY <1>5, TargetSettles
    <2>2. Supported(t)
      BY <1>5 DEF TargetAccepted, Supported
    <2> QED  BY <1>2, <2>1, <2>2 DEF TargetValidated
  <1>6. Good("target", TargetValidated(v))
    BY <1>4 DEF Good
  <1> QED  BY <1>3, <1>5, <1>6

(* A map of cooldowns.                                                     *)
LEMMA CooldownsAreGood ==
    ASSUME NEW v \in Inputs("cooldowns")
    PROVE  /\ Good("cooldowns", Validated("cooldowns", v))
           /\ LET w == Validated("cooldowns", v)
              IN  Validated("cooldowns", w) = w /\ Remote("cooldowns", w) = {w}
  <1>1. v \in Cooldowns
    BY DEF Inputs
  <1>2. PICK w : w = CooldownsValidated(v)
    OBVIOUS
  <1>3. Tidy(w)
    BY <1>1, <1>2, CooldownsAreTidied
  <1>4. CooldownsValidated(w) = w /\ CooldownsRemote(w) = {w}
    BY <1>3, TidyCooldownsStay
  <1>5. PICK D \in SUBSET {"a", "b"} : w \in [D -> Minutes] /\ Cardinality(D) <= MaxOverrides
    BY <1>3 DEF Tidy
  <1>6. DOMAIN w = D /\ \A c \in D : w[c] \in Minutes
    BY <1>5, Zenon
  <1>7. \A x \in Minutes : InRange(Patience, x)
    <2>1. \A x \in Minutes : x \in Int
      BY DEF Minutes
    <2> QED  BY <2>1, CooldownClamps
  <1>8. Good("cooldowns", w)
    BY <1>5, <1>6, <1>7 DEF Good
  <1>9. /\ Validated("cooldowns", v) = w /\ Validated("cooldowns", w) = CooldownsValidated(w)
        /\ Remote("cooldowns", w) = CooldownsRemote(w)
    BY <1>2 DEF Validated, Remote
  <1> QED  BY <1>4, <1>8, <1>9

(* And all of them together.                                               *)
LEMMA SettingsSettle ==
    ASSUME NEW k \in {"number", "target", "cooldowns"}, NEW v \in Inputs(k)
    PROVE  /\ Good(k, Validated(k, v))
           /\ k = "number" => Validated(k, v).field = v.field
           /\ Accepted(k, v) =>
                /\ Validated(k, Validated(k, v)) = Validated(k, v)
                /\ OnTheWire(k, Validated(k, v)) =>
                     Remote(k, Validated(k, v)) = {Validated(k, v)}
  <1>1. CASE k = "number"
    BY <1>1, NumbersAreGood
  <1>2. CASE k = "target"
    BY <1>2, TargetsAreGood
  <1>3. CASE k = "cooldowns"
    BY <1>3, CooldownsAreGood
  <1> QED  BY <1>1, <1>2, <1>3

-----------------------------------------------------------------------------
(* Where the value is, at each hop, and what it is there.                  *)
CarriedAlong ==
    /\ kind \in {"number", "target", "cooldowns"}
    /\ origin \in {"dashboard", "editor"}
    /\ hop \in {"sent", "refused", "saved", "loaded", "fetched"}
    /\ sent \in Inputs(kind)
    /\ origin = "dashboard" /\ hop \in {"saved", "loaded", "fetched"} => Accepted(kind, sent)
    /\ hop \in {"saved", "loaded", "fetched"} =>
         saved = << IF origin = "dashboard" THEN Validated(kind, sent) ELSE sent >>
    /\ inUse = IF hop \in {"loaded", "fetched"} THEN << Validated(kind, saved[1]) >> ELSE <<>>
    /\ agent # <<>> => /\ hop = "fetched" /\ OnTheWire(kind, saved[1])
                       /\ \E w \in Remote(kind, inUse[1]) : agent = << w >>

(* Every step carries the value one hop further, as the hop before left it.  *)
THEOREM SettingsAreCarried == BoundsSpec => []CarriedAlong
  <1>1. BoundsInit => CarriedAlong
    BY DEF BoundsInit, CarriedAlong
  <1>2. ASSUME CarriedAlong, [BoundsNext]_boundVars
        PROVE  CarriedAlong'
    <2> USE <1>2
    <2>1. CASE Refuse
      BY <2>1 DEF CarriedAlong, Refuse
    <2>2. CASE Put
      <3>1. saved' = << Validated(kind, sent) >>
        BY <2>2 DEF Put, Persisted
      <3> QED  BY <2>2, <3>1 DEF CarriedAlong, Put
    <2>3. CASE EditByHand
      BY <2>3 DEF CarriedAlong, EditByHand
    <2>4. CASE LoadSettings
      BY <2>4 DEF CarriedAlong, LoadSettings
    <2>5. CASE FetchSettings
      BY <2>5 DEF CarriedAlong, FetchSettings
    <2>6. CASE FetchForced
      BY <2>6 DEF CarriedAlong, FetchForced
    <2>7. CASE UNCHANGED boundVars
      BY <2>7 DEF CarriedAlong, boundVars
    <2> QED  BY <2>1, <2>2, <2>3, <2>4, <2>5, <2>6, <2>7 DEF BoundsNext
  <1> QED  BY <1>1, <1>2, PTL DEF BoundsSpec

(* A setting made on the dashboard is what the file holds, what the service  *)
(* runs with and what an agent that takes it gets; and whatever is typed     *)
(* into the file, the service runs within the documented bounds.             *)
THEOREM SettingsMeanTheSame == BoundsSpec => []SettingsHold
  <1>1. CarriedAlong => SettingsHold
    <2> SUFFICES ASSUME CarriedAlong PROVE SettingsHold
      OBVIOUS
    <2> DEFINE w == Validated(kind, sent)
    <2>1. /\ Good(kind, w)
          /\ kind = "number" => w.field = sent.field
          /\ Accepted(kind, sent) => /\ Validated(kind, w) = w
                                     /\ OnTheWire(kind, w) => Remote(kind, w) = {w}
      BY SettingsSettle DEF CarriedAlong
    <2>2. ASSUME inUse # <<>>
          PROVE  /\ inUse = << w >>
                 /\ origin = "dashboard" => saved = << w >> /\ Accepted(kind, sent)
      <3>1. hop \in {"loaded", "fetched"} /\ inUse = << Validated(kind, saved[1]) >>
        BY <2>2 DEF CarriedAlong
      <3>2. CASE origin = "dashboard"
        <4>1. saved = << w >> /\ Accepted(kind, sent)
          BY <3>1, <3>2 DEF CarriedAlong
        <4> HIDE DEF w
        <4> QED  BY <2>1, <3>1, <3>2, <4>1
      <3>3. CASE origin = "editor"
        <4>1. saved = << sent >>
          BY <3>1, <3>3 DEF CarriedAlong
        <4> QED  BY <3>1, <3>3, <4>1
      <3> QED  BY <3>2, <3>3 DEF CarriedAlong
    <2> HIDE DEF w
    <2>3. SavedSettingsReadBack
      BY <2>2 DEF SavedSettingsReadBack
    <2>4. AgentTakesTheDashboardsValue
      BY <2>1, <2>2 DEF AgentTakesTheDashboardsValue, CarriedAlong
    <2>5. RunsInBounds
      <3> SUFFICES ASSUME inUse # <<>> PROVE RunsInBounds
        BY DEF RunsInBounds
      <3>1. inUse[1] = w
        BY <2>2
      <3>2. Patience = Fields.cooldown_minutes
        BY DEF Patience
      <3>3. CASE kind = "number"
        <4>1. w.field = sent.field
          BY <2>1, <3>3
        <4>2. Fields[w.field].repair # "zero only" => InRange(Fields[w.field], w.value)
          BY <2>1, <3>3, Zenon DEF Good
        <4>3. Fields[sent.field].repair # "zero only" => InRange(Fields[sent.field], inUse[1].value)
          BY <4>1, <4>2, <3>1
        <4> QED  BY <3>3, <4>3, Zenon DEF RunsInBounds
      <3>4. CASE kind = "target"
        BY <2>1, <3>1, <3>4, Zenon DEF RunsInBounds, Good
      <3>5. CASE kind = "cooldowns"
        BY <2>1, <3>1, <3>2, <3>5, Zenon DEF RunsInBounds, Good
      <3> QED  BY <3>3, <3>4, <3>5 DEF CarriedAlong
    <2> QED  BY <2>3, <2>4, <2>5 DEF SettingsHold
  <1> QED  BY <1>1, SettingsAreCarried, PTL

=============================================================================
