--------------------------- MODULE DashboardProofs ---------------------------
(***************************************************************************)
(* Proofs about six parts of the dashboard that share no state: what it    *)
(* keeps of a host's sessions, config.json and its writers, the browsers'  *)
(* event streams, signing in, the pages of the fleet, and the database     *)
(* with the import of the older history.  Each part has a strengthened     *)
(* invariant, one lemma per group of its actions, and its theorems after   *)
(* them.                                                                   *)
(***************************************************************************)
EXTENDS SnapshotStore, ConfigFile, LiveEvents, SignIn, FleetView, AuditImport,
        SequenceTheorems, FiniteSetTheorems, TLAPS

(* The agent runs under the last instance it reserved, and nothing it sent *)
(* or the dashboard took carries a later one.                              *)
AgentIsLatest ==
    /\ agent.inst = reserved /\ fence <= reserved
    /\ \A s \in sent : s.inst <= reserved

(* The view belongs to the instance in the fence.                          *)
ViewIsFenced ==
    /\ accepted = fence
    /\ attempt # NoStored => attempt.inst = fence
    /\ attempt = NoStored => success = NoStored /\ latest = NoRows

SnapshotInv ==
    SnapshotTypeOK /\ AgentIsLatest /\ ViewIsFenced /\ ViewIsOneSnapshot

(* The numbers a snapshot and a row are made of.                           *)
LEMMA Numbers ==
    ASSUME SnapshotTypeOK
    PROVE  /\ agentClock \in Nat /\ reserved \in Nat /\ fence \in Nat /\ accepted \in Nat
           /\ agent.inst \in Nat /\ agent.seq \in Nat /\ wall \in 0..MaxWall
           /\ agent.inst \in 0..MaxInstance /\ agent.seq \in 0..MaxSequence
           /\ \A s \in sent : /\ s.inst \in 1..MaxInstance /\ s.seq \in 1..MaxSequence
                              /\ s.inst \in Nat \ {0} /\ s.seq \in Nat \ {0}
           /\ attempt.inst \in Nat /\ attempt.seq \in Nat
           /\ success.inst \in Nat /\ success.seq \in Nat
           /\ NoStored \in Stored /\ NoRows \in Rows
<1>1. /\ MaxInstance \in Nat /\ MaxSequence \in Nat /\ MaxWall \in Nat
      /\ NoStored \in Stored /\ NoRows \in Rows
  BY SnapshotAssumption DEF SnapshotAssumption, Stored, Rows, NoStored, NoRows
<1>2. \A s \in sent : /\ s.inst \in 1..MaxInstance /\ s.seq \in 1..MaxSequence
                     /\ s.inst \in Nat \ {0} /\ s.seq \in Nat \ {0}
  BY <1>1 DEF SnapshotTypeOK, Snapshot
<1>3. /\ attempt.inst \in Nat /\ attempt.seq \in Nat
      /\ success.inst \in Nat /\ success.seq \in Nat
  BY <1>1 DEF SnapshotTypeOK, Stored
<1> QED
  BY <1>1, <1>2, <1>3 DEF SnapshotTypeOK

LEMMA SnapshotTypes == SnapshotInit => SnapshotInv
<1> SUFFICES ASSUME SnapshotInit PROVE SnapshotInv
  OBVIOUS
<1>1. NoStored \in Stored /\ NoRows \in Rows /\ 1 \in 1..MaxWall /\ 1 \in 1..MaxInstance
      /\ 0 \in 0..MaxInstance /\ 0 \in 0..MaxSequence
  BY SnapshotAssumption DEF SnapshotAssumption, Stored, Rows, NoStored, NoRows
<1>2. SnapshotTypeOK
  BY <1>1 DEF SnapshotInit, SnapshotTypeOK
<1>3. AgentIsLatest /\ ViewIsFenced /\ ViewIsOneSnapshot
  BY DEF SnapshotInit, AgentIsLatest, ViewIsFenced, ViewIsOneSnapshot, NoStored, NoRows
<1> QED
  BY <1>2, <1>3 DEF SnapshotInv

(* A snapshot that is neither superseded nor a repetition.                 *)
LEMMA ApplyStep ==
    ASSUME SnapshotInv, NEW s \in sent, Apply(s)
    PROVE  SnapshotInv'
<1>0. SnapshotTypeOK
  BY DEF SnapshotInv
<1>1. /\ UNCHANGED <<agentClock, reserved, agent, policy, serving, due, wall>>
      /\ sent' = sent \ {s} /\ serving = <<>>
  BY DEF Apply, agentSide, policySide
<1>2. CASE Superseded(s) \/ Repeated(s)
  <2>1. UNCHANGED <<fence, attempt, success, latest, workload, accepted>>
    BY <1>2 DEF Apply, view
  <2> QED
    BY <1>1, <2>1 DEF SnapshotInv, SnapshotTypeOK, AgentIsLatest, ViewIsFenced,
                      ViewIsOneSnapshot
<1>3. CASE ~Superseded(s) /\ ~Repeated(s)
  <2> DEFINE new == [inst |-> s.inst, seq |-> s.seq, at |-> wall]
  <2>1. /\ fence' = s.inst /\ attempt' = new
        /\ workload' = [workload EXCEPT ![wall] = new]
        /\ accepted' = IF s.inst > accepted THEN s.inst ELSE accepted
    BY <1>3 DEF Apply, ApplyFatal, ApplySuccess
  <2>2. \/ UNCHANGED <<success, latest>>
        \/ success' = new /\ latest' = [inst |-> s.inst, seq |-> s.seq, seen |-> policy]
    BY <1>3 DEF Apply, ApplyFatal, ApplySuccess
  <2>3. /\ s.inst \in 1..MaxInstance /\ s.seq \in 1..MaxSequence
        /\ s.inst >= fence /\ s.inst <= reserved
        /\ s.inst \in Nat \ {0} /\ s.seq \in Nat \ {0} /\ fence \in Nat
    BY <1>0, <1>3, Numbers DEF Superseded, SnapshotInv, AgentIsLatest
  <2>4. new \in Stored /\ new.inst = s.inst /\ new.seq = s.seq /\ new # NoStored
    BY <1>0, <2>3, Numbers DEF Stored, NoStored
  <2>5. accepted' = s.inst
    BY <2>1, <2>3 DEF SnapshotInv, ViewIsFenced
  <2>6. SnapshotTypeOK'
    <3>1. policy \in Privacies /\ workload \in [1..MaxWall -> Stored]
      BY <1>0 DEF SnapshotTypeOK
    <3>2. latest' \in Rows /\ success' \in Stored
      BY <1>0, <2>2, <2>3, <2>4, <3>1 DEF SnapshotTypeOK, Rows
    <3>3. workload' \in [1..MaxWall -> Stored]
      BY <2>1, <2>4, <3>1
    <3> HIDE DEF new
    <3> QED
      BY <1>0, <1>1, <2>1, <2>3, <2>4, <2>5, <3>2, <3>3 DEF SnapshotTypeOK
  <2>7. AgentIsLatest'
    BY <1>1, <2>1, <2>3 DEF SnapshotInv, AgentIsLatest
  <2>8. ViewIsFenced'
    BY <2>1, <2>4, <2>5 DEF ViewIsFenced
  <2>9. ViewIsOneSnapshot'
    <3>1. CASE UNCHANGED <<success, latest>>
      <4>1. CASE attempt = NoStored
        BY <1>0, <1>1, <2>1, <2>3, <2>4, <3>1, <4>1
           DEF SnapshotInv, ViewIsFenced, ViewIsOneSnapshot, NoStored, NoRows
      <4>2. CASE attempt # NoStored
        <5>1. attempt.inst = fence /\ success.inst <= fence
              /\ success.inst \in Nat /\ success.seq \in Nat /\ attempt.seq \in Nat
          BY <1>0, <4>2, Numbers DEF SnapshotInv, ViewIsFenced, ViewIsOneSnapshot
        <5>2. s.inst = fence => attempt.seq < s.seq
          BY <1>3, <2>3, <5>1 DEF Repeated
        <5>3. success.inst = s.inst => success.seq <= s.seq
          BY <2>3, <5>1, <5>2 DEF SnapshotInv, ViewIsOneSnapshot
        <5>4. success.inst <= s.inst
          BY <2>3, <5>1
        <5> HIDE DEF new
        <5> QED
          BY <1>1, <2>1, <2>4, <3>1, <5>3, <5>4 DEF SnapshotInv, ViewIsOneSnapshot
      <4> QED
        BY <4>1, <4>2
    <3>2. CASE success' = new /\ latest' = [inst |-> s.inst, seq |-> s.seq, seen |-> policy]
      BY <1>1, <2>1, <2>3, <3>2 DEF ViewIsOneSnapshot
    <3> QED
      BY <2>2, <3>1, <3>2
  <2> QED
    BY <2>6, <2>7, <2>8, <2>9 DEF SnapshotInv
<1> QED
  BY <1>2, <1>3

LEMMA SnapshotStep ==
    ASSUME SnapshotInv, [SnapshotNext]_snapshotVars
    PROVE  SnapshotInv'
<1>0. SnapshotTypeOK
  BY DEF SnapshotInv
<1>1. CASE StartAgent
  <2>1. Candidate \in 0..MaxInstance /\ reserved <= Candidate
    BY <1>0, <1>1, Numbers DEF StartAgent, Candidate
  <2>2. /\ reserved' = Candidate /\ agent' = [inst |-> Candidate, seq |-> 0]
        /\ UNCHANGED <<agentClock, sent, fence, attempt, success, latest, workload,
                       policy, serving, due, wall, accepted>>
    BY <1>1 DEF StartAgent, view, policySide
  <2>3. \A s \in sent : s.inst <= Candidate
    BY <1>0, <2>1, Numbers DEF SnapshotInv, AgentIsLatest
  <2>4. fence <= Candidate
    BY <1>0, <2>1, Numbers DEF SnapshotInv, AgentIsLatest
  <2>5. AgentIsLatest'
    BY <2>2, <2>3, <2>4 DEF AgentIsLatest
  <2>6. 0 \in 0..MaxSequence
    BY SnapshotAssumption DEF SnapshotAssumption
  <2>7. SnapshotTypeOK'
    BY <1>0, <2>1, <2>2, <2>6 DEF SnapshotTypeOK
  <2> QED
    BY <2>2, <2>5, <2>7 DEF SnapshotInv, ViewIsFenced, ViewIsOneSnapshot
<1>2. CASE SetAgentClock
  BY <1>2 DEF SetAgentClock, view, policySide, SnapshotInv, SnapshotTypeOK, AgentIsLatest,
              ViewIsFenced, ViewIsOneSnapshot
<1>3. CASE ReportSnapshot
  <2>1. /\ agent' = [agent EXCEPT !.seq = @ + 1]
        /\ UNCHANGED <<agentClock, reserved, fence, attempt, success, latest, workload,
                       policy, serving, due, wall, accepted>>
    BY <1>3 DEF ReportSnapshot, view, policySide
  <2>2. PICK f \in BOOLEAN :
            sent' = sent \union {[inst |-> agent.inst, seq |-> agent.seq + 1, fatal |-> f]}
    BY <1>3 DEF ReportSnapshot
  <2>3. agent.inst \in 1..MaxInstance /\ agent.seq + 1 \in 1..MaxSequence
    BY <1>0, <1>3, Numbers, SnapshotAssumption DEF ReportSnapshot, SnapshotAssumption
  <2>4. agent' \in [inst : 0..MaxInstance, seq : 0..MaxSequence] /\ agent'.inst = agent.inst
    BY <1>0, <2>1, <2>3, SnapshotAssumption DEF SnapshotTypeOK, SnapshotAssumption
  <2>5. sent' \subseteq Snapshot
    BY <1>0, <2>2, <2>3 DEF SnapshotTypeOK, Snapshot
  <2>6. AgentIsLatest'
    BY <1>0, <2>1, <2>2, <2>4, Numbers DEF SnapshotInv, AgentIsLatest
  <2>7. SnapshotTypeOK'
    BY <1>0, <2>1, <2>4, <2>5 DEF SnapshotTypeOK
  <2> QED
    BY <2>1, <2>6, <2>7 DEF SnapshotInv, ViewIsFenced, ViewIsOneSnapshot
<1>4. ASSUME NEW s \in sent, LoseSnapshot(s)
      PROVE  SnapshotInv'
  BY <1>4 DEF LoseSnapshot, agentSide, view, policySide, SnapshotInv, SnapshotTypeOK,
              AgentIsLatest, ViewIsFenced, ViewIsOneSnapshot
<1>5. ASSUME NEW s \in sent, Apply(s)
      PROVE  SnapshotInv'
  BY <1>5, ApplyStep
<1>6. CASE PurgeSnapshots \/ PurgeForVisibility \/ ReloadVisibility
  <2>1. /\ attempt' = NoStored /\ success' = NoStored /\ latest' = NoRows /\ due' = FALSE
        /\ UNCHANGED <<agentClock, reserved, agent, sent, fence, workload, wall, accepted>>
        /\ policy' \in Privacies
        /\ serving' = <<>> \/ serving'[1] \in Privacies
    BY <1>0, <1>6 DEF PurgeSnapshots, PurgeForVisibility, ReloadVisibility, DropView, agentSide,
                      SnapshotTypeOK
  <2>2. SnapshotTypeOK'
    BY <1>0, <2>1, Numbers DEF SnapshotTypeOK
  <2> QED
    BY <2>1, <2>2 DEF SnapshotInv, AgentIsLatest, ViewIsFenced, ViewIsOneSnapshot,
                      NoStored, NoRows
<1>7. CASE WallTick
  <2>1. /\ wall' = wall + 1 /\ wall < MaxWall
        /\ UNCHANGED <<agentClock, reserved, agent, sent, fence, attempt, success, latest,
                       workload, policy, serving, due, accepted>>
    BY <1>7 DEF WallTick, agentSide, view, policySide
  <2>2. wall' \in 1..MaxWall
    BY <1>0, <2>1, SnapshotAssumption DEF SnapshotTypeOK, SnapshotAssumption
  <2> QED
    BY <2>1, <2>2 DEF SnapshotInv, SnapshotTypeOK, AgentIsLatest, ViewIsFenced,
                      ViewIsOneSnapshot
<1>8. CASE SaveVisibility \/ RollBackVisibility \/ EditVisibility \/ CrashInChange
  <2>1. /\ UNCHANGED <<agentClock, reserved, agent, sent, fence, attempt, success, latest,
                       workload, wall, accepted>>
        /\ policy' \in Privacies /\ due' \in BOOLEAN
    BY <1>0, <1>8 DEF SaveVisibility, RollBackVisibility, EditVisibility, CrashInChange,
                      agentSide, view, SnapshotTypeOK
  <2>2. serving' = <<>> \/ (serving = <<>> /\ serving' = <<policy>> /\ due' = due)
    BY <1>8 DEF SaveVisibility, RollBackVisibility, EditVisibility, CrashInChange
  <2>3. <<policy>>[1] = policy /\ <<policy>> # <<>>
    OBVIOUS
  <2>4. latest # NoRows /\ ~due' => latest.seen = IF serving' = <<>> THEN policy' ELSE policy
    BY <1>8, <2>3 DEF SaveVisibility, RollBackVisibility, EditVisibility, CrashInChange,
                      SnapshotInv, ViewIsOneSnapshot
  <2>5. SnapshotTypeOK'
    BY <1>0, <2>1, <2>2, <2>3 DEF SnapshotTypeOK
  <2> QED
    BY <2>1, <2>2, <2>3, <2>4, <2>5
       DEF SnapshotInv, AgentIsLatest, ViewIsFenced, ViewIsOneSnapshot
<1>9. CASE UNCHANGED snapshotVars
  BY <1>9 DEF snapshotVars, agentSide, view, policySide, SnapshotInv, SnapshotTypeOK,
              AgentIsLatest, ViewIsFenced, ViewIsOneSnapshot
<1> QED
  BY <1>1, <1>2, <1>3, <1>4, <1>5, <1>6, <1>7, <1>8, <1>9 DEF SnapshotNext

LEMMA SnapshotsHold == SnapshotSpec => []SnapshotInv
  BY SnapshotTypes, SnapshotStep, PTL DEF SnapshotSpec

(* An agent that runs is never fenced out by its own past, however often   *)
(* it restarted and wherever its clock was set (ReserveSessionInstanceID). *)
THEOREM RunningAgentIsHeard == SnapshotSpec => []RunningIsCurrent
<1>1. SnapshotInv => RunningIsCurrent
  BY DEF SnapshotInv, AgentIsLatest, RunningIsCurrent
<1> QED
  BY <1>1, SnapshotsHold, PTL

(* What operators see is one snapshot of the agent process last heard,     *)
(* whatever is delayed, repeated or purged (SessionSnapshotStore.Apply).   *)
THEOREM ViewIsOfTheLatest == SnapshotSpec => []ViewFollowsTheAgent
<1>1. SnapshotInv => ViewFollowsTheAgent
  BY DEF SnapshotInv, ViewIsFenced, ViewFollowsTheAgent, PredecessorNeverReturns
<1> QED
  BY <1>1, SnapshotsHold, PTL

-----------------------------------------------------------------------------
(* config.json.  The mutex belongs to the one writer that is inside, which *)
(* is at a save; the temporary file an elevated one closed has its ACL.    *)
HasShape(j) ==
    j \in [plan : {j.plan}, edit : {j.edit}, names : {j.names}, copy : {j.copy},
           inside : {j.inside}, elevated : {j.elevated}]

JobsHaveShape ==
    /\ job = [w \in Writers |-> job[w]]
    /\ \A w \in Writers : HasShape(job[w])

MutexIsHeld ==
    \A w \in Writers :
        /\ job[w].inside # "no" <=> holder = <<w>>
        /\ job[w].inside # "no" => Busy(w) /\ Writing(Step(w))
        /\ job[w].inside = "closed" /\ job[w].elevated => temp = "sealed"

FileInv == JobsHaveShape /\ MutexIsHeld /\ FileIsSealed

(* A service that is down is not starting.                                 *)
BootIsDone == up = "down" => ~Busy(Boot)

(* A writer that is not inside takes another step of its own.              *)
LEMMA OutsideStep ==
    ASSUME FileInv, NEW w \in Writers, NEW j, HasShape(j), j.inside = "no",
           job[w].inside = "no", UNCHANGED holder,
           job' = [job EXCEPT ![w] = j], holder = <<>> \/ temp' = temp,
           FileIsSealed'
    PROVE  FileInv'
<1>1. \A v \in Writers : job'[v] = IF v = w THEN j ELSE job[v]
  BY DEF FileInv, JobsHaveShape
<1>2. JobsHaveShape'
  BY <1>1 DEF FileInv, JobsHaveShape
<1>3. MutexIsHeld'
  <2> SUFFICES ASSUME NEW v \in Writers
               PROVE  /\ job'[v].inside # "no" <=> holder = <<v>>
                      /\ job'[v].inside # "no" => Busy(v)' /\ Writing(Step(v))'
                      /\ job'[v].inside = "closed" /\ job'[v].elevated => temp' = "sealed"
    BY DEF MutexIsHeld
  <2>1. CASE v = w
    BY <1>1, <2>1 DEF FileInv, MutexIsHeld
  <2>2. CASE v # w
    <3>1. job'[v] = job[v]
      BY <1>1, <2>2
    <3>2. holder = <<>> => job[v].inside = "no"
      BY DEF FileInv, MutexIsHeld
    <3> QED
      BY <3>1, <3>2 DEF FileInv, MutexIsHeld, Busy, Step, Writing, Scoped
  <2> QED
    BY <2>1, <2>2
<1> QED
  BY <1>2, <1>3 DEF FileInv, FileIsSealed

(* The holder goes on inside.                                              *)
LEMMA InsideStep ==
    ASSUME FileInv, NEW w \in Writers, NEW at \in {"held", "written", "closed"},
           holder' = <<w>>, holder = <<>> \/ holder = <<w>>,
           Busy(w), Writing(Step(w)),
           job' = [job EXCEPT ![w].inside = at],
           at = "closed" /\ job[w].elevated => temp' = "sealed",
           UNCHANGED <<disk, sealed, secured>>
    PROVE  FileInv'
<1>1. \A v \in Writers : v # w => job'[v] = job[v]
  BY DEF FileInv, JobsHaveShape
<1>2. /\ HasShape(job'[w]) /\ job'[w].inside = at /\ job'[w].plan = job[w].plan
      /\ job'[w].elevated = job[w].elevated
      /\ job' = [v \in Writers |-> job'[v]]
  BY DEF FileInv, JobsHaveShape, HasShape
<1>3. JobsHaveShape'
  BY <1>1, <1>2 DEF FileInv, JobsHaveShape
<1>4. MutexIsHeld'
  <2> SUFFICES ASSUME NEW v \in Writers
               PROVE  /\ job'[v].inside # "no" <=> holder' = <<v>>
                      /\ job'[v].inside # "no" => Busy(v)' /\ Writing(Step(v))'
                      /\ job'[v].inside = "closed" /\ job'[v].elevated => temp' = "sealed"
    BY DEF MutexIsHeld
  <2>1. CASE v = w
    BY <1>2, <2>1 DEF Busy, Step, Writing, Scoped
  <2>2. CASE v # w
    <3>1. job'[v] = job[v] /\ job[v].inside = "no"
      BY <1>1, <2>2 DEF FileInv, MutexIsHeld
    <3> QED
      BY <2>2, <3>1
  <2> QED
    BY <2>1, <2>2
<1> QED
  BY <1>3, <1>4 DEF FileInv, FileIsSealed

(* The holder leaves.                                                      *)
LEMMA LeaveStep ==
    ASSUME FileInv, NEW w \in Writers, NEW j, HasShape(j), j.inside = "no",
           holder = <<w>>, holder' = <<>>, job' = [job EXCEPT ![w] = j],
           FileIsSealed'
    PROVE  FileInv'
<1>1. \A v \in Writers : job'[v] = IF v = w THEN j ELSE job[v]
  BY DEF FileInv, JobsHaveShape
<1>2. JobsHaveShape'
  BY <1>1 DEF FileInv, JobsHaveShape
<1>3. \A v \in Writers : job'[v].inside = "no"
  BY <1>1 DEF FileInv, MutexIsHeld
<1>4. MutexIsHeld'
  BY <1>3 DEF MutexIsHeld
<1> QED
  BY <1>2, <1>4 DEF FileInv, FileIsSealed

(* Processes end: what they were at is gone, and the mutex with them.      *)
LEMMA DeathStep ==
    ASSUME FileInv, NEW ws \in SUBSET Writers, Dies(ws)
    PROVE  FileInv'
<1>1. \A v \in Writers : job'[v] = IF v \in ws THEN NoEdit ELSE job[v]
  BY DEF Dies
<1>2. JobsHaveShape'
  BY <1>1 DEF Dies, FileInv, JobsHaveShape, HasShape, NoEdit
<1>3. MutexIsHeld'
  <2> SUFFICES ASSUME NEW v \in Writers
               PROVE  /\ job'[v].inside # "no" <=> holder' = <<v>>
                      /\ job'[v].inside # "no" => Busy(v)' /\ Writing(Step(v))'
                      /\ job'[v].inside = "closed" /\ job'[v].elevated => temp' = "sealed"
    BY DEF MutexIsHeld
  <2>1. CASE v \in ws
    <3>1. job'[v].inside = "no"
      BY <1>1, <2>1 DEF NoEdit
    <3>2. holder' # <<v>>
      BY <2>1 DEF Dies
    <3> QED
      BY <3>1, <3>2
  <2>2. CASE v \notin ws
    <3>1. job'[v] = job[v] /\ temp' = temp
      BY <1>1, <2>2 DEF Dies
    <3>2. \A w \in ws : <<w>> # <<v>>
      <4> SUFFICES ASSUME NEW w \in ws PROVE <<w>> # <<v>>
        OBVIOUS
      <4>1. <<w>>[1] = w /\ <<v>>[1] = v /\ w # v
        BY <2>2
      <4> QED
        BY <4>1
    <3>3. <<v>> # <<>>
      OBVIOUS
    <3>4. holder = <<v>> <=> holder' = <<v>>
      BY <3>2, <3>3 DEF Dies
    <3> QED
      BY <3>1, <3>4 DEF FileInv, MutexIsHeld, Busy, Step, Writing, Scoped
  <2> QED
    BY <2>1, <2>2
<1> QED
  BY <1>2, <1>3 DEF FileInv, FileIsSealed, Dies

LEMMA FileStarts == FileInit => FileInv
<1> SUFFICES ASSUME FileInit PROVE FileInv
  OBVIOUS
<1>1. JobsHaveShape
  BY DEF FileInit, JobsHaveShape, HasShape, NoEdit
<1>2. \A w \in Writers : job[w].inside = "no" /\ holder # <<w>>
  BY DEF FileInit, NoEdit
<1> QED
  BY <1>1, <1>2 DEF FileInit, FileInv, MutexIsHeld, FileIsSealed

(* What a writer is given when it begins, gives up or goes on.             *)
LEMMA Shapes ==
    ASSUME FileInv, NEW w \in Writers
    PROVE  /\ HasShape(NoEdit) /\ NoEdit.inside = "no"
           /\ HasShape(Advanced(w)) /\ Advanced(w).inside = "no"
           /\ \A c : LET j == [Advanced(w) EXCEPT !.copy = c] IN HasShape(j) /\ j.inside = "no"
           /\ job[w].inside = "no" => \A plan :
                 LET j == [job[w] EXCEPT !.plan = plan] IN HasShape(j) /\ j.inside = "no"
<1>1. HasShape(job[w])
  BY DEF FileInv, JobsHaveShape
<1>2. HasShape(NoEdit) /\ NoEdit.inside = "no"
  BY DEF HasShape, NoEdit
<1>3. HasShape(Advanced(w)) /\ Advanced(w).inside = "no"
  BY <1>1 DEF HasShape, Advanced
<1>4. ASSUME NEW c PROVE HasShape([Advanced(w) EXCEPT !.copy = c])
                         /\ [Advanced(w) EXCEPT !.copy = c].inside = "no"
  BY <1>3 DEF HasShape
<1>5. ASSUME NEW plan PROVE /\ HasShape([job[w] EXCEPT !.plan = plan])
                            /\ [job[w] EXCEPT !.plan = plan].inside = job[w].inside
  BY <1>1 DEF HasShape
<1> QED
  BY <1>2, <1>3, <1>4, <1>5

LEMMA FileStep ==
    ASSUME FileInv, BootIsDone, [FileNext]_fileVars
    PROVE  FileInv'
<1>0. /\ SettingsRequests \subseteq Writers /\ Commands \subseteq Writers /\ Boot \in Writers
      /\ \A w \in Writers : ~Busy(w) => job[w].inside = "no"
  BY DEF Writers, FileInv, MutexIsHeld
<1>1. ASSUME NEW w \in Writers, NEW o, NEW e, BeginEdit(w, o, e)
      PROVE  FileInv'
  <2>1. \E j : HasShape(j) /\ j.inside = "no" /\ job' = [job EXCEPT ![w] = j]
    <3> DEFINE j == [NoEdit EXCEPT !.plan = o.plan, !.names = o.names, !.edit = edits + 1,
                              !.elevated = e]
    <3>1. job' = [job EXCEPT ![w] = j]
      BY <1>1 DEF BeginEdit
    <3>2. HasShape(j) /\ j.inside = "no"
      BY DEF HasShape, NoEdit
    <3> HIDE DEF j
    <3> QED
      BY <3>1, <3>2
  <2> QED
    BY <1>0, <1>1, <2>1, OutsideStep DEF BeginEdit, FileInv, FileIsSealed
<1>2. ASSUME NEW w \in Writers, BeginRequest(w) \/ Command(w)
      PROVE  FileInv'
  BY <1>1, <1>2 DEF BeginRequest, Command
<1>3. CASE StartService
  <2>1. \E j : HasShape(j) /\ j.inside = "no" /\ job' = [job EXCEPT ![Boot] = j]
    <3> DEFINE j == [NoEdit EXCEPT !.plan = Startup.plan]
    <3>1. job' = [job EXCEPT ![Boot] = j]
      BY <1>3 DEF StartService
    <3>2. HasShape(j) /\ j.inside = "no"
      BY DEF HasShape, NoEdit
    <3> HIDE DEF j
    <3> QED
      BY <3>1, <3>2
  <2>2. job[Boot].inside = "no"
    BY <1>0, <1>3 DEF StartService, BootIsDone
  <2> QED
    BY <1>0, <1>3, <2>1, <2>2, OutsideStep DEF StartService, FileInv, FileIsSealed
<1>4. CASE CrashService \/ \E w \in Commands : CrashCommand(w)
  BY <1>0, <1>4, DeathStep DEF CrashService, CrashCommand
<1>5. ASSUME NEW w \in Writers, Load(w)
      PROVE  FileInv'
  <2>1. \E j : HasShape(j) /\ j.inside = "no" /\ job' = [job EXCEPT ![w] = j]
    BY <1>5, Shapes DEF Load
  <2>2. job[w].inside = "no"
    BY <1>5 DEF Load, FileInv, MutexIsHeld
  <2>3. FileIsSealed'
    BY <1>5 DEF Load, FileInv, FileIsSealed
  <2> QED
    BY <1>5, <2>1, <2>2, <2>3, OutsideStep DEF Load
<1>6. ASSUME NEW w \in Writers, LoadFails(w)
      PROVE  FileInv'
  <2>1. job[w].inside = "no"
    BY <1>6 DEF LoadFails, FileInv, MutexIsHeld, Loading, Writing, Scoped, Blocks
  <2>2. \E j : HasShape(j) /\ j.inside = "no" /\ job' = [job EXCEPT ![w] = j]
    BY <1>6, Shapes DEF LoadFails, GivesUp, StartsFromDefaults
  <2> QED
    BY <1>6, <2>1, <2>2, OutsideStep DEF LoadFails, FileInv, FileIsSealed
<1>7. ASSUME NEW w \in Writers, Enter(w) \/ WriteTemp(w) \/ SealTemp(w)
      PROVE  FileInv'
  <2>1. Busy(w) /\ Writing(Step(w))
    BY <1>7 DEF Enter, WriteTemp, SealTemp, Saving, FileInv, MutexIsHeld
  <2> QED
    BY <1>7, <2>1, InsideStep DEF Enter, WriteTemp, SealTemp, Saving
<1>8. ASSUME NEW w \in Writers, Rename(w)
      PROVE  FileInv'
  <2>1. holder = <<w>> /\ holder' = <<>>
    BY <1>8 DEF Rename, Renamable, Saving
  <2>2. FileIsSealed'
    <3>1. job[w].elevated => temp = "sealed"
      BY <1>8 DEF Rename, Renamable, Saving, FileInv, MutexIsHeld
    <3>2. /\ disk' = <<Edited(w)>> /\ sealed' = (temp = "sealed")
          /\ secured' = (secured \/ job[w].elevated) /\ ~(sealed /\ ~job[w].elevated)
      BY <1>8 DEF Rename, Barred
    <3>3. disk' # <<>>
      BY <3>2
    <3> QED
      BY <3>1, <3>2, <3>3 DEF FileInv, FileIsSealed
  <2>3. \E j : HasShape(j) /\ j.inside = "no" /\ job' = [job EXCEPT ![w] = j]
    <3>1. \E c : job' = [job EXCEPT ![w] = [Advanced(w) EXCEPT !.copy = c]]
      BY <1>8 DEF Rename
    <3> QED
      BY <3>1, Shapes
  <2> QED
    BY <2>1, <2>2, <2>3, LeaveStep
<1>9. ASSUME NEW w \in Writers, SaveFails(w)
      PROVE  FileInv'
  BY <1>9, Shapes, LeaveStep DEF SaveFails, GivesUp, FileInv, FileIsSealed
<1>10. ASSUME NEW w \in Writers, ApplyPolicy(w) \/ PolicyFails(w) \/ CallDashboard(w)
       PROVE  FileInv'
  <2>1. job[w].inside = "no"
    BY <1>10 DEF ApplyPolicy, PolicyFails, CallDashboard, FileInv, MutexIsHeld, Writing,
                 Scoped, Blocks
  <2>2. \E j : HasShape(j) /\ j.inside = "no" /\ job' = [job EXCEPT ![w] = j]
    <3>1. CASE ApplyPolicy(w) \/ CallDashboard(w)
      BY <3>1, Shapes DEF ApplyPolicy, CallDashboard
    <3>2. CASE PolicyFails(w)
      <4>1. job' = [job EXCEPT ![w] = [job[w] EXCEPT !.plan = <<"restore">>]]
        BY <3>2 DEF PolicyFails
      <4> QED
        BY <2>1, <4>1, Shapes
    <3> QED
      BY <1>10, <3>1, <3>2
  <2>3. UNCHANGED <<holder, disk, sealed, secured, temp>>
    BY <1>10 DEF ApplyPolicy, PolicyFails, CallDashboard
  <2> QED
    BY <2>1, <2>2, <2>3, OutsideStep DEF FileInv, FileIsSealed
<1>11. CASE UNCHANGED fileVars
  BY <1>11 DEF fileVars, FileInv, JobsHaveShape, HasShape, MutexIsHeld, FileIsSealed, Busy,
               Step, Writing, Scoped
<1> QED
  BY <1>0, <1>2, <1>3, <1>4, <1>5, <1>6, <1>7, <1>8, <1>9, <1>10, <1>11 DEF FileNext

LEMMA BootStep ==
    ASSUME FileInv, BootIsDone, [FileNext]_fileVars
    PROVE  BootIsDone'
<1>1. CASE StartService
  BY <1>1 DEF StartService, BootIsDone
<1>2. CASE CrashService
  BY <1>2 DEF CrashService, Dies, BootIsDone, Busy, NoEdit, Writers
<1>3. ASSUME NEW w \in Writers, w # Boot, \E j : job' = [job EXCEPT ![w] = j], up' = up
      PROVE  BootIsDone'
  BY <1>3 DEF BootIsDone, Busy, FileInv, JobsHaveShape, Writers
<1>4. ASSUME NEW w \in Commands, CrashCommand(w)
      PROVE  BootIsDone'
  BY <1>4, FileAssumption DEF CrashCommand, Dies, BootIsDone, Busy, Writers, FileAssumption
<1>5. ASSUME NEW w \in SettingsRequests \cup Commands, BeginRequest(w) \/ Command(w)
      PROVE  BootIsDone'
  BY <1>3, <1>5, FileAssumption
     DEF BeginRequest, Command, BeginEdit, Writers, FileAssumption
<1>6. ASSUME NEW w \in Writers,
             \/ Load(w) \/ LoadFails(w) \/ Enter(w) \/ WriteTemp(w) \/ SealTemp(w)
             \/ Rename(w) \/ SaveFails(w) \/ ApplyPolicy(w) \/ PolicyFails(w)
             \/ CallDashboard(w)
      PROVE  BootIsDone'
  <2>1. Busy(w)
    BY <1>6 DEF Load, LoadFails, Enter, WriteTemp, SealTemp, Rename, Renamable, Saving,
                SaveFails, ApplyPolicy, PolicyFails, CallDashboard, FileInv, MutexIsHeld
  <2>2. \E j : job' = [job EXCEPT ![w] = j]
    <3>1. CASE Load(w) \/ LoadFails(w) \/ SaveFails(w) \/ ApplyPolicy(w) \/ Rename(w)
               \/ CallDashboard(w)
      BY <3>1 DEF Load, LoadFails, StartsFromDefaults, SaveFails, GivesUp, ApplyPolicy,
                  Rename, CallDashboard
    <3>2. CASE Enter(w) \/ WriteTemp(w) \/ SealTemp(w)
      <4>1. \E at : job' = [job EXCEPT ![w] = [job[w] EXCEPT !.inside = at]]
        BY <3>2 DEF Enter, WriteTemp, SealTemp
      <4> QED
        BY <4>1
    <3>3. CASE PolicyFails(w)
      <4>1. job' = [job EXCEPT ![w] = [job[w] EXCEPT !.plan = <<"restore">>]]
        BY <3>3 DEF PolicyFails
      <4> QED
        BY <4>1
    <3> QED
      BY <1>6, <3>1, <3>2, <3>3
  <2>3. CASE w # Boot
    <3>1. up' = up
      BY <1>6, <2>3 DEF Load, LoadFails, Enter, WriteTemp, SealTemp, Rename, UpAfter,
                SaveFails, GivesUp, StartsFromDefaults, ApplyPolicy, PolicyFails, CallDashboard
    <3> QED
      BY <1>3, <2>2, <2>3, <3>1
  <2>4. CASE w = Boot
    <3>1. up # "down"
      BY <2>1, <2>4 DEF BootIsDone
    <3>2. up' = up \/ up' = "up" \/ job' = [job EXCEPT ![w] = NoEdit]
      BY <1>6, <2>4 DEF Load, LoadFails, Enter, WriteTemp, SealTemp, Rename, UpAfter,
                SaveFails, GivesUp, StartsFromDefaults, ApplyPolicy, PolicyFails, CallDashboard
    <3> QED
      BY <2>4, <3>1, <3>2 DEF BootIsDone, Busy, FileInv, JobsHaveShape, NoEdit
  <2> QED
    BY <2>3, <2>4
<1>7. CASE UNCHANGED fileVars
  BY <1>7 DEF fileVars, BootIsDone, Busy
<1> QED
  BY <1>1, <1>2, <1>4, <1>5, <1>6, <1>7 DEF FileNext

LEMMA FileHolds == FileSpec => [](FileInv /\ BootIsDone)
<1>1. FileInit => BootIsDone
  BY DEF FileInit, BootIsDone, Busy, NoEdit, Writers
<1> QED
  BY <1>1, FileStarts, FileStep, BootStep, PTL DEF FileSpec

(* Once an elevated process has saved config.json nobody but an             *)
(* administrator can read it at any moment, whatever fails or crashes on    *)
(* the way and whoever saves it next (saveConfigToFileLocked).              *)
THEOREM FileStaysSealed == FileSpec => []FileIsSealed
<1>1. FileInv => FileIsSealed
  BY DEF FileInv
<1> QED
  BY <1>1, FileHolds, PTL

(* A scoped update loses nobody else's edit (readModifyWrite).              *)
THEOREM ScopedUpdatesStayInside == FileSpec => OnlyNamedBlocksChange
<1> DEFINE Kept == \A b \in Blocks : disk # <<>> /\ disk'[1][b] # disk[1][b] =>
                      \E w \in Writers : /\ holder = <<w>>
                                         /\ Step(w) \in {b, "whole", "restore"}
<1>1. ASSUME FileInv, [FileNext]_fileVars PROVE Kept
  <2>1. CASE \E w \in Writers : Rename(w)
    <3> PICK w \in Writers : Rename(w)
      BY <2>1
    <3>1. holder = <<w>> /\ Writing(Step(w)) /\ disk' = <<Edited(w)>>
      BY <1>1 DEF Rename, Renamable, Saving, FileInv, MutexIsHeld
    <3>2. ASSUME NEW b \in Blocks, disk # <<>>, Step(w) \notin {b, "whole", "restore"}
          PROVE  Edited(w)[b] = disk[1][b]
      <4>1. Scoped(Step(w)) /\ Content = disk[1]
        BY <3>1, <3>2 DEF Writing, Content
      <4> QED
        BY <3>2, <4>1 DEF Edited, Base
    <3>3. disk'[1] = Edited(w)
      BY <3>1
    <3> QED
      BY <3>1, <3>2, <3>3
  <2>2. CASE \E w \in Writers : Load(w)
    BY <2>2 DEF Load, Content
  <2>3. CASE UNCHANGED disk
    BY <2>3
  <2> QED
    BY <1>1, <2>1, <2>2, <2>3
       DEF FileNext, fileVars, StartService, CrashService, CrashCommand, Dies, BeginRequest,
           Command, BeginEdit, LoadFails, Enter, WriteTemp, SealTemp, SaveFails, ApplyPolicy,
           PolicyFails, CallDashboard, Writers
<1> QED
  BY <1>1, FileHolds, PTL DEF FileSpec, OnlyNamedBlocksChange

-----------------------------------------------------------------------------
(* The event stream.  Whatever was broadcast since a stream subscribed has *)
(* reached its browser, waits in its channel, or is in the hands of a      *)
(* broadcast that will deliver it or evict the stream.                     *)
AnyEvent == Events \union {NoEvent}
UnderWay(s) == {publisher[p].event : p \in Pending(s)}

EventShapes ==
    /\ subscribers \subseteq Streams
    /\ stream \in [Streams -> {"new", "open", "closed"}]
    /\ buffer \in [Streams -> Seq(AnyEvent)]
    /\ heard \in [Streams -> Seq(AnyEvent)]
    /\ publisher \in [Publishers -> Broadcasts]
    /\ published.change \in 0..MaxChanges
    /\ owed = [s \in Streams |-> owed[s]]

SendersAreSending ==
    \A p \in Publishers : publisher[p].stage # "sending" =>
        publisher[p].to = {} /\ publisher[p].evict = {}

NewIsUntouched ==
    \A s \in Streams : stream[s] = "new" =>
        /\ s \notin subscribers /\ owed[s] = {} /\ heard[s] = <<>> /\ buffer[s] = <<>>
        /\ Pending(s) = {}

Accounted ==
    \A s \in subscribers :
        owed[s] = Elements(heard[s]) \union Elements(buffer[s]) \union UnderWay(s)

GapInv == EventShapes /\ SendersAreSending /\ NewIsUntouched /\ Accounted

LEMMA Appending ==
    ASSUME NEW S, NEW q \in Seq(S), NEW e \in S
    PROVE  Append(q, e) \in Seq(S) /\ Elements(Append(q, e)) = Elements(q) \union {e}
<1>1. /\ Append(q, e) \in Seq(S) /\ Len(Append(q, e)) = Len(q) + 1 /\ Len(q) \in Nat
      /\ \A i \in 1..Len(q) : Append(q, e)[i] = q[i]
      /\ Append(q, e)[Len(q) + 1] = e
  OBVIOUS
<1>2. 1..(Len(q) + 1) = 1..Len(q) \union {Len(q) + 1}
  BY <1>1
<1> QED
  BY <1>1, <1>2 DEF Elements

LEMMA Taking ==
    ASSUME NEW S, NEW q \in Seq(S), q # <<>>
    PROVE  /\ Head(q) \in S /\ Tail(q) \in Seq(S)
           /\ Elements(q) = {Head(q)} \union Elements(Tail(q))
<1>1. /\ Head(q) = q[1] /\ Len(Tail(q)) = Len(q) - 1 /\ Len(q) \in Nat \ {0}
      /\ \A i \in 1..(Len(q) - 1) : Tail(q)[i] = q[i + 1]
      /\ Head(q) \in S /\ Tail(q) \in Seq(S)
  OBVIOUS
<1>2. ASSUME NEW x \in Elements(q) PROVE x = Head(q) \/ x \in Elements(Tail(q))
  <2> PICK i \in 1..Len(q) : x = q[i]
    BY DEF Elements
  <2>1. i # 1 => i - 1 \in 1..Len(Tail(q)) /\ Tail(q)[i - 1] = x
    BY <1>1
  <2> QED
    BY <1>1, <2>1 DEF Elements
<1>3. ASSUME NEW x \in Elements(Tail(q)) PROVE x \in Elements(q)
  <2> PICK i \in 1..Len(Tail(q)) : x = Tail(q)[i]
    BY DEF Elements
  <2>1. i + 1 \in 1..Len(q) /\ q[i + 1] = x
    BY <1>1
  <2> QED
    BY <2>1 DEF Elements
<1>4. Head(q) \in Elements(q)
  BY <1>1 DEF Elements
<1> QED
  BY <1>1, <1>2, <1>3, <1>4

LEMMA GapStarts == EventsInit => GapInv
<1> SUFFICES ASSUME EventsInit PROVE GapInv
  OBVIOUS
<1>1. EventShapes
  BY EventsAssumption DEF EventsAssumption, EventsInit, EventShapes, Broadcasts, NoBroadcast,
                          AnyEvent
<1>2. SendersAreSending /\ NewIsUntouched /\ Accounted
  BY DEF EventsInit, SendersAreSending, NewIsUntouched, Accounted, NoBroadcast, Pending
<1> QED
  BY <1>1, <1>2 DEF GapInv

LEMMA AccountedNext ==
    ASSUME \A s \in subscribers' :
               owed'[s] = Elements(heard'[s]) \union Elements(buffer'[s]) \union UnderWay(s)'
    PROVE  Accounted'
  BY DEF Accounted, Elements

LEMMA GapStep ==
    ASSUME GapInv, [EventsNext]_eventVars
    PROVE  GapInv'
<1>0. /\ EventShapes
      /\ \A p \in Publishers :
            /\ publisher[p].event \in AnyEvent /\ publisher[p].to \subseteq Streams
            /\ publisher[p].evict \subseteq Streams
  BY DEF GapInv, EventShapes, Broadcasts, AnyEvent
<1>1. ASSUME NEW s \in Streams, Subscribe(s)
      PROVE  GapInv'
  <2>1. /\ UNCHANGED <<buffer, heard, publisher, published, owed>>
        /\ subscribers' = subscribers \union {s} /\ stream' = [stream EXCEPT ![s] = "open"]
    BY <1>1 DEF Subscribe
  <2>2. EventShapes'
    BY <1>0, <2>1 DEF EventShapes
  <2>3. \A t \in Streams : Pending(t)' = Pending(t) /\ UnderWay(t)' = UnderWay(t)
    BY <2>1 DEF Pending, UnderWay
  <2>4. SendersAreSending' /\ NewIsUntouched'
    BY <1>0, <2>1, <2>3 DEF GapInv, SendersAreSending, NewIsUntouched, EventShapes
  <2>5. owed[s] = {} /\ heard[s] = <<>> /\ buffer[s] = <<>> /\ Pending(s) = {}
    BY <1>1 DEF Subscribe, GapInv, NewIsUntouched
  <2>6. Elements(<<>>) = {}
    BY DEF Elements
  <2>7. UnderWay(s) = {}
    BY <2>5 DEF UnderWay
  <2>8. Accounted'
    <3> SUFFICES ASSUME NEW t \in subscribers'
                 PROVE  owed'[t] = Elements(heard'[t]) \union Elements(buffer'[t])
                                       \union UnderWay(t)'
      BY AccountedNext
    <3>1. t \in Streams /\ (t = s \/ t \in subscribers)
      BY <1>0, <2>1 DEF EventShapes
    <3>2. UnderWay(t)' = UnderWay(t)
      BY <2>3, <3>1
    <3>3. CASE t = s
      BY <2>1, <2>5, <2>6, <2>7, <3>2, <3>3
    <3>4. CASE t \in subscribers
      BY <2>1, <3>2, <3>4 DEF GapInv, Accounted
    <3> QED
      BY <3>1, <3>3, <3>4
  <2> QED
    BY <2>2, <2>4, <2>8 DEF GapInv
<1>2. ASSUME NEW s \in Streams, Deliver(s)
      PROVE  GapInv'
  <2>1. /\ UNCHANGED <<subscribers, stream, publisher, published, owed>>
        /\ stream[s] = "open" /\ buffer[s] # <<>>
        /\ heard' = [heard EXCEPT ![s] = Append(heard[s], Head(buffer[s]))]
        /\ buffer' = [buffer EXCEPT ![s] = Tail(buffer[s])]
    BY <1>2 DEF Deliver
  <2>2. heard[s] \in Seq(AnyEvent) /\ buffer[s] \in Seq(AnyEvent)
    BY <1>0 DEF EventShapes
  <2>3. /\ Head(buffer[s]) \in AnyEvent /\ Tail(buffer[s]) \in Seq(AnyEvent)
        /\ Elements(buffer[s]) = {Head(buffer[s])} \union Elements(Tail(buffer[s]))
    BY <2>1, <2>2, Taking
  <2>4. /\ Append(heard[s], Head(buffer[s])) \in Seq(AnyEvent)
        /\ Elements(Append(heard[s], Head(buffer[s]))) = Elements(heard[s]) \union {Head(buffer[s])}
    BY <2>2, <2>3, Appending
  <2>5. EventShapes'
    BY <1>0, <2>1, <2>3, <2>4 DEF EventShapes
  <2>6. \A t \in Streams : Pending(t)' = Pending(t) /\ UnderWay(t)' = UnderWay(t)
    BY <2>1 DEF Pending, UnderWay
  <2>7. SendersAreSending' /\ NewIsUntouched'
    BY <1>0, <2>1, <2>6 DEF GapInv, SendersAreSending, NewIsUntouched, EventShapes
  <2>8. /\ heard'[s] = Append(heard[s], Head(buffer[s])) /\ buffer'[s] = Tail(buffer[s])
        /\ \A t \in Streams \ {s} : heard'[t] = heard[t] /\ buffer'[t] = buffer[t]
    BY <1>0, <2>1 DEF EventShapes
  <2>9. \A t \in Streams : Elements(heard'[t]) \union Elements(buffer'[t]) =
                           Elements(heard[t]) \union Elements(buffer[t])
    <3> TAKE t \in Streams
    <3>1. CASE t = s
      <4>1. Elements(heard'[s]) = Elements(heard[s]) \union {Head(buffer[s])}
        BY <2>4, <2>8
      <4>2. Elements(buffer'[s]) = Elements(Tail(buffer[s]))
        BY <2>8
      <4> QED
        BY <2>3, <3>1, <4>1, <4>2
    <3>2. CASE t # s
      BY <2>8, <3>2
    <3> QED
      BY <3>1, <3>2
  <2>10. Accounted'
    <3> SUFFICES ASSUME NEW t \in subscribers
                 PROVE  owed[t] = Elements(heard'[t]) \union Elements(buffer'[t])
                                       \union UnderWay(t)'
      BY <2>1, AccountedNext
    <3>1. t \in Streams
          /\ owed[t] = Elements(heard[t]) \union Elements(buffer[t]) \union UnderWay(t)
      BY <1>0 DEF EventShapes, GapInv, Accounted
    <3> QED
      BY <2>6, <2>9, <3>1
  <2> QED
    BY <2>5, <2>7, <2>10 DEF GapInv
<1>3. ASSUME NEW s \in Streams, Unsubscribe(s)
      PROVE  GapInv'
  <2>1. /\ UNCHANGED <<buffer, heard, publisher, published, owed>>
        /\ subscribers' \subseteq subscribers /\ stream' = [stream EXCEPT ![s] = "closed"]
    BY <1>3 DEF Unsubscribe
  <2>2. EventShapes'
    BY <1>0, <2>1 DEF EventShapes
  <2>3. \A t \in Streams : Pending(t)' = Pending(t) /\ UnderWay(t)' = UnderWay(t)
    BY <2>1 DEF Pending, UnderWay
  <2>4. SendersAreSending' /\ NewIsUntouched'
    BY <1>0, <2>1, <2>3 DEF GapInv, SendersAreSending, NewIsUntouched, EventShapes
  <2>5. Accounted'
    BY <1>0, <2>1, <2>3, AccountedNext DEF GapInv, Accounted, EventShapes
  <2> QED
    BY <2>2, <2>4, <2>5 DEF GapInv
<1>4. ASSUME NEW p \in Publishers, NEW e \in Events, publisher[p].stage = "idle", Begin(p, e),
             published'.change \in 0..MaxChanges,
             UNCHANGED <<subscribers, buffer, stream, heard, owed>>
      PROVE  GapInv'
  <2>1. publisher' = [publisher EXCEPT ![p] = [NoBroadcast EXCEPT !.stage = "snapshot", !.event = e]]
    BY <1>4 DEF Begin
  <2>2. EventShapes'
    BY <1>0, <1>4, <2>1 DEF EventShapes, Broadcasts, NoBroadcast, AnyEvent
  <2>3. publisher[p].to = {} /\ publisher[p].evict = {}
    BY <1>4 DEF GapInv, SendersAreSending
  <2>4. /\ publisher'[p].to = {} /\ publisher'[p].evict = {}
        /\ \A q \in Publishers \ {p} : publisher'[q] = publisher[q]
    BY <1>0, <2>1 DEF EventShapes, NoBroadcast
  <2>5. \A t \in Streams : Pending(t)' = Pending(t) /\ UnderWay(t)' = UnderWay(t)
    BY <2>3, <2>4 DEF Pending, UnderWay
  <2>6. SendersAreSending'
    BY <2>4 DEF GapInv, SendersAreSending
  <2>7. NewIsUntouched'
    BY <1>4, <2>5 DEF GapInv, NewIsUntouched
  <2>8. Accounted'
    BY <1>0, <1>4, <2>5, AccountedNext DEF GapInv, Accounted, EventShapes
  <2> QED
    BY <2>2, <2>6, <2>7, <2>8 DEF GapInv
<1>5. ASSUME NEW p \in Publishers, NEW x \in Spikes, PublishRecentSpike(p, x)
      PROVE  GapInv'
  BY <1>0, <1>4, <1>5 DEF PublishRecentSpike, Events, broker, EventShapes
<1>6. ASSUME NEW p \in Publishers, NEW v \in States, PublishDetectorStatus(p, v)
      PROVE  GapInv'
  <2>1. published.change + 1 \in 1..MaxChanges /\ published'.change = published.change + 1
        /\ published.change + 1 \in 0..MaxChanges
    BY <1>0, <1>6, EventsAssumption DEF PublishDetectorStatus, EventsAssumption, EventShapes
  <2>2. <<"state", published.change + 1>> \in Events
    BY <2>1 DEF Events
  <2> QED
    BY <1>4, <1>6, <2>1, <2>2 DEF PublishDetectorStatus, broker
<1>7. ASSUME NEW p \in Publishers, CopySubscribers(p)
      PROVE  GapInv'
  <2>1. /\ UNCHANGED <<subscribers, buffer, stream, heard, published>>
        /\ publisher[p].stage = "snapshot"
    BY <1>7 DEF CopySubscribers, broker
  <2>2. /\ publisher[p].to = {} /\ publisher[p].evict = {}
    BY <2>1 DEF GapInv, SendersAreSending
  <2>3. publisher' = [publisher EXCEPT ![p] =
                         [publisher[p] EXCEPT !.stage = "sending", !.to = subscribers]]
    BY <1>0, <1>7 DEF CopySubscribers, EventShapes
  <2>4. /\ publisher' \in [Publishers -> Broadcasts]
        /\ publisher'[p].to = subscribers /\ publisher'[p].evict = {}
        /\ publisher'[p].stage = "sending" /\ publisher'[p].event = publisher[p].event
        /\ \A q \in Publishers \ {p} : publisher'[q] = publisher[q]
    BY <1>0, <2>2, <2>3 DEF EventShapes, Broadcasts
  <2>5. owed' = [t \in Streams |-> IF t \in subscribers
                                   THEN owed[t] \union {publisher[p].event} ELSE owed[t]]
    BY <1>7 DEF CopySubscribers
  <2>6. EventShapes'
    BY <1>0, <2>1, <2>4, <2>5 DEF EventShapes
  <2>7. SendersAreSending'
    BY <2>4 DEF GapInv, SendersAreSending
  <2>8. \A t \in Streams :
            Pending(t)' = IF t \in subscribers THEN Pending(t) \union {p} ELSE Pending(t)
    BY <2>2, <2>4 DEF Pending
  <2>9. NewIsUntouched'
    BY <2>1, <2>5, <2>8 DEF GapInv, NewIsUntouched
  <2>10. \A t \in subscribers : UnderWay(t)' = UnderWay(t) \union {publisher[p].event}
    <3> SUFFICES ASSUME NEW t \in subscribers
                 PROVE  UnderWay(t)' = UnderWay(t) \union {publisher[p].event}
      OBVIOUS
    <3>1. Pending(t)' = Pending(t) \union {p} /\ p \notin Pending(t)
      BY <1>0, <2>2, <2>8 DEF EventShapes, Pending
    <3>2. \A q \in Publishers : publisher'[q].event = publisher[q].event
      BY <2>4
    <3> QED
      BY <3>1, <3>2 DEF UnderWay, Pending
  <2>11. Accounted'
    <3> SUFFICES ASSUME NEW t \in subscribers
                 PROVE  owed'[t] = Elements(heard[t]) \union Elements(buffer[t]) \union UnderWay(t)'
      BY <2>1, AccountedNext
    <3>1. owed'[t] = owed[t] \union {publisher[p].event}
      BY <1>0, <2>5 DEF EventShapes
    <3> QED
      BY <2>10, <3>1 DEF GapInv, Accounted
  <2> QED
    BY <2>6, <2>7, <2>9, <2>11 DEF GapInv
<1>8. ASSUME NEW p \in Publishers, NEW s \in Streams, Send(p, s)
      PROVE  GapInv'
  <2>1. /\ UNCHANGED <<subscribers, stream, heard, published, owed>>
        /\ publisher[p].stage = "sending" /\ s \in publisher[p].to
    BY <1>8 DEF Send
  <2> DEFINE e == publisher[p].event
  <2>2. CASE Len(buffer[s]) < Capacity
    <3>1. /\ buffer' = [buffer EXCEPT ![s] = Append(buffer[s], e)]
          /\ publisher' = [publisher EXCEPT ![p] =
                              [publisher[p] EXCEPT !.to = publisher[p].to \ {s}]]
      BY <1>0, <1>8, <2>2 DEF Send, EventShapes
    <3>2. /\ publisher' \in [Publishers -> Broadcasts]
          /\ publisher'[p].to = publisher[p].to \ {s}
          /\ publisher'[p].evict = publisher[p].evict
          /\ publisher'[p].stage = "sending" /\ publisher'[p].event = e
          /\ \A q \in Publishers \ {p} : publisher'[q] = publisher[q]
      BY <1>0, <2>1, <3>1 DEF EventShapes, Broadcasts
    <3>3. buffer[s] \in Seq(AnyEvent) /\ e \in AnyEvent
      BY <1>0 DEF EventShapes
    <3> HIDE DEF e
    <3>4. Append(buffer[s], e) \in Seq(AnyEvent)
          /\ Elements(Append(buffer[s], e)) = Elements(buffer[s]) \union {e}
      BY <3>3, Appending
    <3>5. EventShapes'
      BY <1>0, <2>1, <3>1, <3>2, <3>4 DEF EventShapes
    <3>6. SendersAreSending'
      BY <3>2 DEF GapInv, SendersAreSending
    <3>7. stream[s] # "new"
      BY <2>1 DEF GapInv, NewIsUntouched, Pending
    <3>8. \A t \in Streams : Pending(t)' \subseteq Pending(t)
      BY <3>2 DEF Pending
    <3>9. NewIsUntouched'
      BY <1>0, <2>1, <3>1, <3>7, <3>8 DEF GapInv, NewIsUntouched, EventShapes
    <3>10. \A t \in Streams : UnderWay(t) \subseteq UnderWay(t)' \union (IF t = s THEN {e} ELSE {})
                              /\ UnderWay(t)' \subseteq UnderWay(t)
      BY <1>0, <3>2 DEF UnderWay, Pending, e
    <3>11. e \in UnderWay(s)
      BY <1>0, <2>1 DEF UnderWay, Pending, e
    <3>12. Accounted'
      <4> SUFFICES ASSUME NEW t \in subscribers
                   PROVE  owed[t] = Elements(heard[t]) \union Elements(buffer'[t]) \union UnderWay(t)'
        BY <2>1, AccountedNext
      <4>0. t \in Streams
            /\ owed[t] = Elements(heard[t]) \union Elements(buffer[t]) \union UnderWay(t)
        BY <1>0 DEF EventShapes, GapInv, Accounted
      <4>1. CASE t = s
        <5>1. Elements(buffer'[t]) = Elements(buffer[t]) \union {e}
          BY <1>0, <3>1, <3>4, <4>1 DEF EventShapes
        <5> QED
          BY <3>10, <3>11, <4>0, <4>1, <5>1
      <4>2. CASE t # s
        <5>1. buffer'[t] = buffer[t]
          BY <1>0, <3>1, <4>2 DEF EventShapes
        <5> QED
          BY <3>10, <4>0, <4>2, <5>1
      <4> QED
        BY <4>1, <4>2
    <3> QED
      BY <3>5, <3>6, <3>9, <3>12 DEF GapInv
  <2>3. CASE ~(Len(buffer[s]) < Capacity)
    <3>1. /\ buffer' = buffer
          /\ publisher' = [publisher EXCEPT ![p] =
                              [publisher[p] EXCEPT !.to = publisher[p].to \ {s},
                                                   !.evict = publisher[p].evict \union {s}]]
      BY <1>0, <1>8, <2>3 DEF Send, EventShapes
    <3>2. /\ publisher' \in [Publishers -> Broadcasts]
          /\ publisher'[p].to = publisher[p].to \ {s}
          /\ publisher'[p].evict = publisher[p].evict \union {s}
          /\ publisher'[p].stage = "sending" /\ publisher'[p].event = e
          /\ \A q \in Publishers \ {p} : publisher'[q] = publisher[q]
      BY <1>0, <2>1, <3>1 DEF EventShapes, Broadcasts
    <3> HIDE DEF e
    <3>3. EventShapes'
      BY <1>0, <2>1, <3>1, <3>2 DEF EventShapes
    <3>4. \A t \in Streams : Pending(t)' = Pending(t)
      BY <2>1, <3>2 DEF Pending
    <3>5. \A t \in Streams : UnderWay(t)' = UnderWay(t)
      BY <3>2, <3>4 DEF UnderWay, e, Pending
    <3>6. SendersAreSending' /\ NewIsUntouched'
      BY <2>1, <3>1, <3>2, <3>4 DEF GapInv, SendersAreSending, NewIsUntouched
    <3>7. Accounted'
      BY <1>0, <2>1, <3>1, <3>5, AccountedNext DEF GapInv, Accounted, EventShapes
    <3> QED
      BY <3>3, <3>6, <3>7 DEF GapInv
  <2> QED
    BY <2>2, <2>3
<1>9. ASSUME NEW p \in Publishers, Evict(p)
      PROVE  GapInv'
  <2>1. /\ UNCHANGED <<stream, buffer, heard, published, owed>>
        /\ publisher[p].to = {} /\ subscribers' = subscribers \ publisher[p].evict
        /\ publisher' = [publisher EXCEPT ![p] = NoBroadcast]
    BY <1>9 DEF Evict, Evicted
  <2>2. /\ publisher' \in [Publishers -> Broadcasts]
        /\ publisher'[p].to = {} /\ publisher'[p].evict = {}
        /\ \A q \in Publishers \ {p} : publisher'[q] = publisher[q]
    BY <1>0, <2>1 DEF EventShapes, Broadcasts, NoBroadcast
  <2>3. EventShapes'
    BY <1>0, <2>1, <2>2 DEF EventShapes
  <2>4. \A t \in Streams : /\ Pending(t)' \subseteq Pending(t)
                           /\ t \in subscribers' => Pending(t)' = Pending(t)
    BY <2>1, <2>2 DEF Pending
  <2>5. SendersAreSending' /\ NewIsUntouched'
    BY <2>1, <2>2, <2>4 DEF GapInv, SendersAreSending, NewIsUntouched
  <2>6. \A t \in subscribers' : UnderWay(t)' = UnderWay(t)
    BY <1>0, <2>1, <2>2, <2>4 DEF UnderWay, EventShapes, Pending
  <2>7. Accounted'
    BY <1>0, <2>1, <2>6, AccountedNext DEF GapInv, Accounted, EventShapes
  <2> QED
    BY <2>3, <2>5, <2>7 DEF GapInv
<1>10. CASE UNCHANGED eventVars
  <2>1. UNCHANGED <<subscribers, stream, buffer, heard, publisher, published, owed>>
    BY <1>10 DEF eventVars, broker
  <2>2. \A t \in Streams : Pending(t)' = Pending(t) /\ UnderWay(t)' = UnderWay(t)
    BY <2>1 DEF Pending, UnderWay
  <2>3. Accounted'
    BY <1>0, <2>1, <2>2, AccountedNext DEF GapInv, Accounted, EventShapes
  <2>4. EventShapes' /\ SendersAreSending' /\ NewIsUntouched'
    BY <2>1, <2>2 DEF GapInv, EventShapes, SendersAreSending, NewIsUntouched
  <2> QED
    BY <2>3, <2>4 DEF GapInv
<1> QED
  BY <1>1, <1>2, <1>3, <1>5, <1>6, <1>7, <1>8, <1>9, <1>10 DEF EventsNext

(* A stream that stays subscribed misses nothing, whatever overlaps the    *)
(* broadcasts (Broker.broadcast, evict, Unsubscribe).                      *)
THEOREM StreamsMissNothing == EventsSpec => []NoSilentGap
<1>1. GapInv => NoSilentGap
  <2> SUFFICES ASSUME GapInv, NEW s \in subscribers, Pending(s) = {}
               PROVE  owed[s] = Elements(heard[s]) \union Elements(buffer[s])
    BY DEF NoSilentGap
  <2>1. UnderWay(s) = {}
    BY DEF UnderWay
  <2> QED
    BY <2>1 DEF GapInv, Accounted
<1> QED
  BY <1>1, GapStarts, GapStep, PTL DEF EventsSpec

(* Why a spike is shown once: whoever finds its row missing inserts it, and *)
(* is the only one to broadcast it; a stream it was sent to is no longer    *)
(* among those it has yet to reach.                                         *)
IsSpike(e) == e[1] = "spike"
Shown(s) == heard[s] \o buffer[s]
Carried(s) == Elements(heard[s]) \union Elements(buffer[s])

SpikesHaveRows ==
    /\ \A p \in Publishers : IsSpike(publisher[p].event) => publisher[p].event[2] \in rows
    /\ \A s \in Streams : \A e \in Carried(s) : IsSpike(e) => e[2] \in rows

OneBroadcastEach ==
    \A p, q \in Publishers :
        IsSpike(publisher[p].event) /\ publisher[q].event = publisher[p].event => p = q

SentOnce ==
    \A p \in Publishers, s \in Streams :
        IsSpike(publisher[p].event) /\ publisher[p].event \in Carried(s) =>
            publisher[p].stage = "sending" /\ s \notin publisher[p].to

SpikeInv == SpikesHaveRows /\ OneBroadcastEach /\ SentOnce /\ SpikeShownOnce

Once(all) ==
    \A i, j \in 1..Len(all) : all[i] = all[j] /\ all[i][1] = "spike" => i = j

LEMMA OnceAppended ==
    ASSUME NEW S, NEW q \in Seq(S), NEW b \in Seq(S), NEW e \in S, Once(q \o b),
           IsSpike(e) => e \notin Elements(q) \union Elements(b)
    PROVE  Once(q \o Append(b, e))
<1> DEFINE all == q \o b  new == q \o Append(b, e)
<1>1. /\ Append(b, e) \in Seq(S) /\ Len(Append(b, e)) = Len(b) + 1
      /\ Len(q) \in Nat /\ Len(b) \in Nat
      /\ \A i \in 1..Len(b) : Append(b, e)[i] = b[i]
      /\ Append(b, e)[Len(b) + 1] = e
  OBVIOUS
<1>2. /\ Len(all) = Len(q) + Len(b)
      /\ \A i \in 1..Len(all) : all[i] = IF i <= Len(q) THEN q[i] ELSE b[i - Len(q)]
  BY ConcatProperties
<1>3. /\ Len(new) = Len(q) + Len(b) + 1
      /\ \A i \in 1..Len(new) : new[i] = IF i <= Len(q) THEN q[i] ELSE Append(b, e)[i - Len(q)]
  <2>1. /\ Len(new) = Len(q) + Len(Append(b, e))
        /\ \A i \in 1..(Len(q) + Len(Append(b, e))) :
              new[i] = IF i <= Len(q) THEN q[i] ELSE Append(b, e)[i - Len(q)]
    BY <1>1, ConcatProperties
  <2>2. Len(q) + Len(Append(b, e)) = Len(q) + Len(b) + 1
    BY <1>1
  <2> HIDE DEF new
  <2> QED
    BY <2>1, <2>2
<1> HIDE DEF all, new
<1>4. \A i \in 1..Len(all) : new[i] = all[i] /\ all[i] \in Elements(q) \union Elements(b)
  <2> TAKE i \in 1..Len(all)
  <2>1. CASE i <= Len(q)
    BY <1>1, <1>2, <1>3, <2>1 DEF Elements
  <2>2. CASE ~(i <= Len(q))
    <3>1. i - Len(q) \in 1..Len(b) /\ i \in 1..Len(new)
      BY <1>1, <1>2, <1>3, <2>2
    <3> QED
      BY <1>1, <1>2, <1>3, <2>2, <3>1 DEF Elements
  <2> QED
    BY <2>1, <2>2
<1>5. new[Len(all) + 1] = e
  BY <1>1, <1>2, <1>3
<1>6. 1..Len(new) = 1..Len(all) \union {Len(all) + 1} /\ Len(all) \in Nat
  BY <1>1, <1>2, <1>3
<1>7. Once(all)
  BY DEF all
<1>8. Once(new)
  <2> SUFFICES ASSUME NEW i \in 1..Len(new), NEW j \in 1..Len(new), new[i] = new[j],
                      new[i][1] = "spike"
               PROVE  i = j
    BY DEF Once
  <2>1. CASE i \in 1..Len(all) /\ j \in 1..Len(all)
    BY <1>4, <1>7, <2>1 DEF Once
  <2>2. CASE i = Len(all) + 1 /\ j \in 1..Len(all)
    BY <1>4, <1>5, <2>2 DEF IsSpike
  <2>3. CASE i \in 1..Len(all) /\ j = Len(all) + 1
    BY <1>4, <1>5, <2>3 DEF IsSpike
  <2> QED
    BY <1>6, <2>1, <2>2, <2>3
<1> QED
  BY <1>8 DEF new

LEMMA TakenOver ==
    ASSUME NEW S, NEW q \in Seq(S), NEW b \in Seq(S), b # <<>>
    PROVE  Append(q, Head(b)) \o Tail(b) = q \o b
<1> DEFINE new == Append(q, Head(b)) \o Tail(b)
<1>1. /\ Head(b) \in S /\ Tail(b) \in Seq(S) /\ Len(Tail(b)) = Len(b) - 1
      /\ Len(b) \in Nat \ {0} /\ Len(q) \in Nat /\ Head(b) = b[1]
      /\ \A i \in 1..(Len(b) - 1) : Tail(b)[i] = b[i + 1]
  OBVIOUS
<1>2. /\ Append(q, Head(b)) \in Seq(S) /\ Len(Append(q, Head(b))) = Len(q) + 1
      /\ \A i \in 1..Len(q) : Append(q, Head(b))[i] = q[i]
      /\ Append(q, Head(b))[Len(q) + 1] = b[1]
  BY <1>1
<1>3. /\ q \o b \in Seq(S) /\ Len(q \o b) = Len(q) + Len(b)
      /\ \A i \in 1..(Len(q) + Len(b)) :
            (q \o b)[i] = IF i <= Len(q) THEN q[i] ELSE b[i - Len(q)]
  BY ConcatProperties
<1>4. /\ new \in Seq(S) /\ Len(new) = Len(q) + Len(b)
      /\ \A i \in 1..(Len(q) + Len(b)) :
            new[i] = IF i <= Len(q) + 1 THEN Append(q, Head(b))[i]
                     ELSE Tail(b)[i - (Len(q) + 1)]
  BY <1>1, <1>2, ConcatProperties
<1> HIDE DEF new
<1>5. ASSUME NEW i \in 1..(Len(q) + Len(b)) PROVE new[i] = (q \o b)[i]
  <2>1. CASE i <= Len(q)
    BY <1>1, <1>2, <1>3, <1>4, <2>1
  <2>2. CASE i = Len(q) + 1
    BY <1>1, <1>2, <1>3, <1>4, <2>2
  <2>3. CASE i > Len(q) + 1
    <3>1. i - (Len(q) + 1) \in 1..(Len(b) - 1) /\ i - (Len(q) + 1) + 1 = i - Len(q)
      BY <1>1, <2>3
    <3> QED
      BY <1>1, <1>3, <1>4, <2>3, <3>1
  <2> QED
    BY <1>1, <2>1, <2>2, <2>3
<1>6. new = q \o b
  BY <1>3, <1>4, <1>5, SeqEqual
<1> QED
  BY <1>6 DEF new

LEMMA SpikeStep ==
    ASSUME GapInv, SpikeInv, [EventsNext]_eventVars
    PROVE  SpikeInv'
<1>0. /\ EventShapes
      /\ \A p \in Publishers :
            /\ publisher[p].event \in AnyEvent /\ publisher[p].to \subseteq Streams
      /\ \A s \in Streams : heard[s] \in Seq(AnyEvent) /\ buffer[s] \in Seq(AnyEvent)
  BY DEF GapInv, EventShapes, Broadcasts, AnyEvent
<1>1. SpikeShownOnce <=> \A s \in Streams : Once(heard[s] \o buffer[s])
  BY DEF SpikeShownOnce, Once
<1>2. SpikeShownOnce' <=> \A s \in Streams : Once(heard'[s] \o buffer'[s])
  BY DEF SpikeShownOnce, Once
<1>3. \A s \in Streams : Carried(s)' = Elements(heard'[s]) \union Elements(buffer'[s])
  BY DEF Carried, Elements
(* Steps that send and publish nothing.                                    *)
<1>4. ASSUME \A s \in Streams : /\ heard'[s] \o buffer'[s] = heard[s] \o buffer[s]
                                /\ Carried(s)' = Carried(s),
             rows' = rows, publisher' = publisher
      PROVE  SpikeInv'
  BY <1>1, <1>2, <1>4 DEF SpikeInv, SpikesHaveRows, OneBroadcastEach, SentOnce
<1>5. ASSUME UNCHANGED <<heard, buffer>>
      PROVE  /\ \A s \in Streams : Carried(s)' = Carried(s)
             /\ SpikeShownOnce'
  BY <1>1, <1>2, <1>3, <1>5 DEF Carried, SpikeInv
<1>6. ASSUME NEW s \in Streams, Subscribe(s) \/ Unsubscribe(s)
      PROVE  SpikeInv'
  BY <1>4, <1>5, <1>6 DEF Subscribe, Unsubscribe
<1>7. ASSUME NEW s \in Streams, Deliver(s)
      PROVE  SpikeInv'
  <2>1. /\ UNCHANGED <<publisher, rows>> /\ buffer[s] # <<>>
        /\ heard'[s] = Append(heard[s], Head(buffer[s])) /\ buffer'[s] = Tail(buffer[s])
        /\ \A t \in Streams \ {s} : heard'[t] = heard[t] /\ buffer'[t] = buffer[t]
    BY <1>0, <1>7 DEF Deliver, EventShapes
  <2>2. /\ Head(buffer[s]) \in AnyEvent
        /\ Elements(buffer[s]) = {Head(buffer[s])} \union Elements(Tail(buffer[s]))
    BY <1>0, <2>1, Taking
  <2>3. Elements(Append(heard[s], Head(buffer[s]))) = Elements(heard[s]) \union {Head(buffer[s])}
    BY <1>0, <2>2, Appending
  <2>4. \A t \in Streams : Carried(t)' = Carried(t)
    BY <1>3, <2>1, <2>2, <2>3 DEF Carried
  <2>5. \A t \in Streams : heard'[t] \o buffer'[t] = heard[t] \o buffer[t]
    <3> TAKE t \in Streams
    <3>1. CASE t = s
      <4>1. Append(heard[s], Head(buffer[s])) \o Tail(buffer[s]) = heard[s] \o buffer[s]
        BY <1>0, <2>1, TakenOver
      <4> QED
        BY <2>1, <3>1, <4>1
    <3>2. CASE t # s
      BY <2>1, <3>2
    <3> QED
      BY <3>1, <3>2
  <2> QED
    BY <1>4, <2>1, <2>4, <2>5
<1>8. ASSUME NEW p \in Publishers, NEW e, Begin(p, e), UNCHANGED <<heard, buffer>>,
             IsSpike(e) => e[2] \in rows' /\ e[2] \notin rows, rows \subseteq rows'
      PROVE  SpikeInv'
  <2>1. /\ publisher'[p].event = e /\ publisher'[p].to = {}
        /\ \A q \in Publishers \ {p} : publisher'[q] = publisher[q]
    BY <1>0, <1>8 DEF Begin, NoBroadcast, EventShapes
  <2>2. SpikesHaveRows'
    BY <1>5, <1>8, <2>1 DEF SpikeInv, SpikesHaveRows
  <2>3. \A q \in Publishers \ {p} : IsSpike(e) => publisher[q].event # e
    BY <1>8 DEF SpikeInv, SpikesHaveRows
  <2>4. OneBroadcastEach'
    BY <2>1, <2>3 DEF SpikeInv, OneBroadcastEach
  <2>5. \A s \in Streams : IsSpike(e) => e \notin Carried(s)
    BY <1>8 DEF SpikeInv, SpikesHaveRows
  <2>6. SentOnce'
    BY <1>5, <1>8, <2>1, <2>5 DEF SpikeInv, SentOnce
  <2> QED
    BY <1>5, <1>8, <2>2, <2>4, <2>6 DEF SpikeInv
<1>9. ASSUME NEW p \in Publishers, NEW x \in Spikes, PublishRecentSpike(p, x)
      PROVE  SpikeInv'
  BY <1>8, <1>9 DEF PublishRecentSpike, Inserted, broker
<1>10. ASSUME NEW p \in Publishers, NEW v \in States, PublishDetectorStatus(p, v)
       PROVE  SpikeInv'
  <2>1. ~IsSpike(<<"state", published.change + 1>>)
    BY DEF IsSpike
  <2> QED
    BY <1>8, <1>10, <2>1 DEF PublishDetectorStatus, broker
(* Steps after which every publisher has its event or none.                *)
<1>11. ASSUME NEW p \in Publishers, UNCHANGED <<heard, buffer, rows>>,
              \A q \in Publishers \ {p} : publisher'[q] = publisher[q],
              \/ /\ publisher'[p].event = publisher[p].event
                 /\ publisher'[p].stage = "sending"
                 /\ \A s \in publisher'[p].to :
                        s \in publisher[p].to \/ publisher[p].stage # "sending"
              \/ publisher'[p].event = NoEvent
       PROVE  SpikeInv'
  <2>1. ~IsSpike(NoEvent)
    BY DEF IsSpike, NoEvent
  <2>2. \A q \in Publishers : IsSpike(publisher'[q].event) =>
            publisher'[q].event = publisher[q].event
    BY <1>11, <2>1
  <2>3. SpikesHaveRows'
    BY <1>5, <1>11, <2>2 DEF SpikeInv, SpikesHaveRows
  <2>4. OneBroadcastEach'
    BY <2>2 DEF SpikeInv, OneBroadcastEach
  <2>5. SentOnce'
    BY <1>5, <1>11, <2>1, <2>2 DEF SpikeInv, SentOnce
  <2> QED
    BY <1>5, <1>11, <2>3, <2>4, <2>5 DEF SpikeInv
<1>12. ASSUME NEW p \in Publishers, CopySubscribers(p)
       PROVE  SpikeInv'
  <2>1. /\ publisher'[p].event = publisher[p].event /\ publisher'[p].stage = "sending"
        /\ publisher[p].stage = "snapshot"
        /\ \A q \in Publishers \ {p} : publisher'[q] = publisher[q]
    <3>1. publisher' = [publisher EXCEPT ![p] =
                         [publisher[p] EXCEPT !.stage = "sending", !.to = subscribers]]
      BY <1>0, <1>12 DEF CopySubscribers, EventShapes
    <3> QED
      BY <1>0, <1>12, <3>1 DEF CopySubscribers, EventShapes, Broadcasts
  <2> QED
    BY <1>11, <1>12, <2>1 DEF CopySubscribers, broker
<1>13. ASSUME NEW p \in Publishers, NEW s \in Streams, Send(p, s)
       PROVE  SpikeInv'
  <2> DEFINE e == publisher[p].event
  <2>1. /\ publisher[p].stage = "sending" /\ s \in publisher[p].to
        /\ UNCHANGED <<heard, rows>>
    BY <1>13 DEF Send
  <2>2. /\ publisher'[p].event = e /\ publisher'[p].stage = "sending"
        /\ publisher'[p].to = publisher[p].to \ {s}
        /\ \A q \in Publishers \ {p} : publisher'[q] = publisher[q]
    <3>1. CASE Len(buffer[s]) < Capacity
      <4>1. publisher' = [publisher EXCEPT ![p] =
                            [publisher[p] EXCEPT !.to = publisher[p].to \ {s}]]
        BY <1>0, <1>13, <3>1 DEF Send, EventShapes
      <4> QED
        BY <1>0, <2>1, <4>1 DEF EventShapes, Broadcasts
    <3>2. CASE ~(Len(buffer[s]) < Capacity)
      <4>1. publisher' = [publisher EXCEPT ![p] =
                            [publisher[p] EXCEPT !.to = publisher[p].to \ {s},
                                                 !.evict = publisher[p].evict \union {s}]]
        BY <1>0, <1>13, <3>2 DEF Send, EventShapes
      <4> QED
        BY <1>0, <2>1, <4>1 DEF EventShapes, Broadcasts
    <3> QED
      BY <3>1, <3>2
  <2>3. CASE buffer' = buffer
    BY <1>11, <2>1, <2>2, <2>3
  <2>4. CASE buffer' = [buffer EXCEPT ![s] = Append(buffer[s], e)]
    <3>1. /\ buffer'[s] = Append(buffer[s], e)
          /\ \A t \in Streams \ {s} : buffer'[t] = buffer[t]
      BY <1>0, <2>4 DEF EventShapes
    <3>2. /\ e \in AnyEvent
          /\ IsSpike(e) => e \notin Elements(heard[s]) \union Elements(buffer[s])
      BY <1>0, <2>1 DEF SpikeInv, SentOnce, Carried
    <3> HIDE DEF e
    <3>3. Elements(Append(buffer[s], e)) = Elements(buffer[s]) \union {e}
      BY <1>0, <3>2, Appending
    <3>4. /\ Carried(s)' = Carried(s) \union {e}
          /\ \A t \in Streams \ {s} : Carried(t)' = Carried(t)
      BY <1>3, <2>1, <3>1, <3>3 DEF Carried
    <3>5. Once(heard[s] \o Append(buffer[s], e))
      <4>1. Once(heard[s] \o buffer[s])
        BY <1>1 DEF SpikeInv
      <4> QED
        BY <1>0, <3>2, <4>1, OnceAppended
    <3>6. SpikeShownOnce'
      <4> SUFFICES ASSUME NEW t \in Streams PROVE Once(heard'[t] \o buffer'[t])
        BY <1>2
      <4>1. CASE t = s
        BY <2>1, <3>1, <3>5, <4>1
      <4>2. CASE t # s
        <5>1. heard'[t] \o buffer'[t] = heard[t] \o buffer[t]
          BY <2>1, <3>1, <4>2
        <5> QED
          BY <1>1, <5>1 DEF SpikeInv
      <4> QED
        BY <4>1, <4>2
    <3>7. SpikesHaveRows'
      BY <2>1, <2>2, <3>4 DEF SpikeInv, SpikesHaveRows, e
    <3>8. OneBroadcastEach'
      BY <2>2 DEF SpikeInv, OneBroadcastEach, e
    <3>9. SentOnce'
      <4> SUFFICES ASSUME NEW q \in Publishers, NEW t \in Streams,
                          IsSpike(publisher'[q].event), publisher'[q].event \in Carried(t)'
                   PROVE  publisher'[q].stage = "sending" /\ t \notin publisher'[q].to
        BY DEF SentOnce
      <4>1. publisher'[q].event = publisher[q].event
        BY <2>2 DEF e
      <4>2. CASE publisher[q].event \in Carried(t)
        BY <2>2, <4>1, <4>2 DEF SpikeInv, SentOnce
      <4>3. CASE publisher[q].event \notin Carried(t)
        <5>1. t = s /\ publisher[q].event = e
          BY <3>4, <4>1, <4>3
        <5>2. q = p
          BY <4>1, <5>1 DEF SpikeInv, OneBroadcastEach, e
        <5> QED
          BY <2>2, <5>1, <5>2
      <4> QED
        BY <4>2, <4>3
    <3> QED
      BY <3>6, <3>7, <3>8, <3>9 DEF SpikeInv
  <2> QED
    BY <1>13, <2>3, <2>4 DEF Send
<1>14. ASSUME NEW p \in Publishers, Evict(p)
       PROVE  SpikeInv'
  <2>1. /\ publisher'[p].event = NoEvent
        /\ \A q \in Publishers \ {p} : publisher'[q] = publisher[q]
    BY <1>0, <1>14 DEF Evict, NoBroadcast, EventShapes
  <2> QED
    BY <1>11, <1>14, <2>1 DEF Evict
<1>15. CASE UNCHANGED eventVars
  BY <1>4, <1>5, <1>15 DEF eventVars, broker
<1> QED
  BY <1>6, <1>7, <1>9, <1>10, <1>12, <1>13, <1>14, <1>15 DEF EventsNext

(* A spike is shown once, by however many reports, retries and detectors it *)
(* is brought (EventSpikeStore.Insert and insertSpike).                     *)
THEOREM SpikesAreShownOnce == EventsSpec => []SpikeShownOnce
<1>1. EventsInit => SpikeInv
  <2> SUFFICES ASSUME EventsInit PROVE SpikeInv
    OBVIOUS
  <2>1. \A s \in Streams : heard[s] = <<>> /\ buffer[s] = <<>>
    BY DEF EventsInit
  <2>2. <<>> \o <<>> = <<>> /\ Len(<<>>) = 0
    BY ConcatEmptySeq, EmptySeq
  <2>3. SpikeShownOnce
    <3>1. Once(<<>>)
      BY <2>2 DEF Once
    <3>2. \A s \in Streams : Once(heard[s] \o buffer[s])
      BY <2>1, <2>2, <3>1
    <3> QED
      BY <3>2 DEF SpikeShownOnce, Once
  <2>4. \A s \in Streams : Carried(s) = {}
    BY <2>1 DEF Carried, Elements
  <2>5. \A p \in Publishers : ~IsSpike(publisher[p].event)
    BY DEF EventsInit, NoBroadcast, NoEvent, IsSpike
  <2> QED
    BY <2>3, <2>4, <2>5 DEF SpikeInv, SpikesHaveRows, OneBroadcastEach, SentOnce
<1>2. GapInv /\ SpikeInv /\ [EventsNext]_eventVars => (GapInv /\ SpikeInv)'
  BY GapStep, SpikeStep
<1>3. SpikeInv => SpikeShownOnce
  BY DEF SpikeInv
<1> QED
  BY <1>1, <1>2, <1>3, GapStarts, PTL DEF EventsSpec

-----------------------------------------------------------------------------
(* Security contexts.  A context is held by one request, or waits for one  *)
(* connection, or is of nobody; the gauges count the first two.            *)
LiveOnes == {x \in Contexts : context[x] \in {"request", "waiting"}}
ParkedOnes == {c \in Conns : waiting[c] # Nothing}

Places == {"unused", "request", "waiting", "released"}
Handshake == [conn : Conns \union {Nothing}, holds : Contexts \union {Nothing}, leg : 0..2]

HandleShapes ==
    /\ context \in [Contexts -> Places]
    /\ releases \in [Contexts -> Nat]
    /\ waiting \in [Conns -> Contexts \union {Nothing}]
    /\ request \in [Requests -> Handshake]

RequestsOwn ==
    \A r \in Requests :
        /\ request[r].leg # 0 => request[r].conn \in Conns
        /\ request[r].holds # Nothing =>
              request[r].leg # 0 /\ context[request[r].holds] = "request"
        /\ \A q \in Requests : request[q].holds = request[r].holds =>
              q = r \/ request[r].holds = Nothing

MapOwns ==
    \A c \in Conns :
        /\ waiting[c] # Nothing => context[waiting[c]] = "waiting"
        /\ \A d \in Conns : waiting[d] = waiting[c] => d = c \/ waiting[c] = Nothing

NoneIsLost ==
    \A x \in Contexts :
        /\ context[x] = "request" => \E r \in Requests : request[r].holds = x
        /\ context[x] = "waiting" => \E c \in Conns : waiting[c] = x

ReleasedOnce ==
    \A x \in Contexts : releases[x] = IF context[x] = "released" THEN 1 ELSE 0

GaugesCount == live = Cardinality(LiveOnes) /\ parked = Cardinality(ParkedOnes)

HandleInv ==
    /\ HandleShapes /\ RequestsOwn /\ MapOwns /\ NoneIsLost /\ ReleasedOnce
    /\ GaugesCount

LEMMA HandlesFinite ==
    /\ Nothing \notin Contexts
    /\ IsFiniteSet(LiveOnes) /\ IsFiniteSet(ParkedOnes)
<1>1. LiveOnes \in SUBSET Contexts /\ ParkedOnes \in SUBSET Conns
  BY DEF LiveOnes, ParkedOnes
<1> QED
  BY <1>1, SignInAssumption, FS_Subset DEF SignInAssumption, Nothing

LEMMA HandshakeFields ==
    /\ NoRequest \in Handshake /\ NoRequest.holds = Nothing /\ NoRequest.leg = 0
    /\ \A h \in Handshake : h.conn \in Conns \union {Nothing}
                            /\ h.holds \in Contexts \union {Nothing}
    /\ \A c \in Conns, x \in Contexts :
          LET h == [conn |-> c, holds |-> x, leg |-> 2] IN
             h \in Handshake /\ h.conn = c /\ h.holds = x /\ h.leg = 2
    /\ \A h \in Handshake, x \in Contexts :
          LET k == [h EXCEPT !.holds = x] IN
             k \in Handshake /\ k.conn = h.conn /\ k.holds = x /\ k.leg = h.leg
  BY DEF NoRequest, Handshake

LEMMA HandlesStart == SignInInit => HandleInv
<1> SUFFICES ASSUME SignInInit PROVE HandleInv
  OBVIOUS
<1>1. LiveOnes = {} /\ ParkedOnes = {}
  BY DEF SignInInit, LiveOnes, ParkedOnes
<1>2. GaugesCount
  BY <1>1, FS_EmptySet DEF SignInInit, GaugesCount
<1>3. HandleShapes
  BY DEF SignInInit, HandleShapes, NoRequest, Handshake, Places
<1>4. RequestsOwn /\ MapOwns /\ NoneIsLost /\ ReleasedOnce
  BY DEF SignInInit, RequestsOwn, MapOwns, NoneIsLost, ReleasedOnce, NoRequest, Nothing
<1> QED
  BY <1>2, <1>3, <1>4 DEF HandleInv

(* What the sets behind the gauges become.                                 *)
LEMMA LiveSame ==
    ASSUME HandleInv, live' = live, LiveOnes' = LiveOnes
    PROVE  live' = Cardinality(LiveOnes)'
  BY DEF HandleInv, GaugesCount

LEMMA LiveLess ==
    ASSUME HandleInv, NEW x \in LiveOnes, live' = live - 1, LiveOnes' = LiveOnes \ {x}
    PROVE  live' = Cardinality(LiveOnes)'
<1>1. Cardinality(LiveOnes \ {x}) = Cardinality(LiveOnes) - 1
  BY HandlesFinite, FS_RemoveElement
<1> QED
  BY <1>1 DEF HandleInv, GaugesCount

LEMMA LiveMore ==
    ASSUME HandleInv, NEW x, x \notin LiveOnes, live' = live + 1,
           LiveOnes' = LiveOnes \union {x}
    PROVE  live' = Cardinality(LiveOnes)'
<1>1. Cardinality(LiveOnes \union {x}) = Cardinality(LiveOnes) + 1
  BY HandlesFinite, FS_AddElement
<1> QED
  BY <1>1 DEF HandleInv, GaugesCount

LEMMA ParkedLess ==
    ASSUME HandleInv, NEW c \in ParkedOnes, parked' = parked - 1,
           ParkedOnes' = ParkedOnes \ {c}
    PROVE  parked' = Cardinality(ParkedOnes)'
<1>1. Cardinality(ParkedOnes \ {c}) = Cardinality(ParkedOnes) - 1
  BY HandlesFinite, FS_RemoveElement
<1> QED
  BY <1>1 DEF HandleInv, GaugesCount

LEMMA ParkedMore ==
    ASSUME HandleInv, NEW c, c \notin ParkedOnes, parked' = parked + 1,
           ParkedOnes' = ParkedOnes \union {c}
    PROVE  parked' = Cardinality(ParkedOnes)'
<1>1. Cardinality(ParkedOnes \union {c}) = Cardinality(ParkedOnes) + 1
  BY HandlesFinite, FS_AddElement
<1> QED
  BY <1>1 DEF HandleInv, GaugesCount

LEMMA TakeStep ==
    ASSUME HandleInv, NEW r \in Requests, NEW c \in Conns, TakeWaiting(r, c)
    PROVE  HandleInv'
<1> DEFINE x == waiting[c]
<1>1. /\ x \in Contexts /\ x # Nothing /\ context[x] = "waiting" /\ request[r].holds = Nothing
      /\ UNCHANGED <<releases, live>> /\ parked' = parked - 1
      /\ context' = [context EXCEPT ![x] = "request"]
      /\ waiting' = [waiting EXCEPT ![c] = Nothing]
      /\ request' = [request EXCEPT ![r] = [conn |-> c, holds |-> x, leg |-> 2]]
  <2>1. x \in Contexts /\ x # Nothing
    BY DEF HandleInv, HandleShapes, TakeWaiting
  <2>2. context[x] = "waiting"
    BY <2>1 DEF HandleInv, MapOwns
  <2>3. request[r].holds = Nothing
    BY HandshakeFields DEF TakeWaiting, Free
  <2> QED
    BY <2>1, <2>2, <2>3 DEF TakeWaiting
<1>11. [conn |-> c, holds |-> x, leg |-> 2] \in Handshake
  BY <1>1 DEF Handshake
<1> HIDE DEF x
<1>2. /\ \A y \in Contexts : context'[y] = IF y = x THEN "request" ELSE context[y]
      /\ \A d \in Conns : waiting'[d] = IF d = c THEN Nothing ELSE waiting[d]
      /\ \A q \in Requests : request'[q] = IF q = r THEN [conn |-> c, holds |-> x, leg |-> 2]
                                            ELSE request[q]
  BY <1>1 DEF HandleInv, HandleShapes
<1>3. HandleShapes'
  BY <1>1, <1>11 DEF HandleInv, HandleShapes, Places
<1>4. \A q \in Requests : request[q].holds # x
  BY <1>1 DEF HandleInv, RequestsOwn
<1>5. RequestsOwn'
  BY <1>1, <1>2, <1>4 DEF HandleInv, RequestsOwn, HandleShapes
<1>6. \A d \in Conns : d # c => waiting[d] # x
  BY <1>1 DEF HandleInv, MapOwns, x
<1>7. MapOwns'
  <2> SUFFICES ASSUME NEW d \in Conns, NEW e \in Conns, waiting'[d] # Nothing
               PROVE  /\ context'[waiting'[d]] = "waiting"
                      /\ waiting'[e] = waiting'[d] => e = d
    BY DEF MapOwns
  <2>1. d # c /\ waiting'[d] = waiting[d] /\ waiting[d] \in Contexts
    BY <1>2 DEF HandleInv, HandleShapes
  <2>2. waiting[d] # x
    BY <1>6, <2>1
  <2> QED
    BY <1>2, <2>1, <2>2 DEF HandleInv, MapOwns
<1>8. NoneIsLost'
  <2>1. \A y \in Contexts : context'[y] = "request" => \E q \in Requests : request'[q].holds = y
    <3> SUFFICES ASSUME NEW y \in Contexts, context'[y] = "request"
                 PROVE  \E q \in Requests : request'[q].holds = y
      OBVIOUS
    <3>1. CASE y = x
      BY <1>2, <3>1
    <3>2. CASE y # x
      <4>1. PICK q \in Requests : request[q].holds = y
        BY <1>2, <3>2 DEF HandleInv, NoneIsLost
      <4>2. q # r
        BY <1>1, <4>1, HandlesFinite
      <4> QED
        BY <1>2, <4>1, <4>2
    <3> QED
      BY <3>1, <3>2
  <2>2. \A y \in Contexts : context'[y] = "waiting" => \E d \in Conns : waiting'[d] = y
    BY <1>1, <1>2 DEF HandleInv, NoneIsLost, x
  <2> QED
    BY <2>1, <2>2 DEF NoneIsLost
<1>9. ReleasedOnce'
  BY <1>1, <1>2 DEF HandleInv, ReleasedOnce
<1>10. GaugesCount'
  <2>1. LiveOnes' = LiveOnes
    BY <1>1, <1>2 DEF LiveOnes
  <2>2. c \in ParkedOnes /\ ParkedOnes' = ParkedOnes \ {c}
    BY <1>1, <1>2 DEF ParkedOnes, x
  <2> QED
    BY <1>1, <2>1, <2>2, LiveSame, ParkedLess DEF GaugesCount
<1> QED
  BY <1>3, <1>5, <1>7, <1>8, <1>9, <1>10 DEF HandleInv

LEMMA FirstLegStep ==
    ASSUME HandleInv, NEW r \in Requests, NEW x \in Contexts, FirstLeg(r, x)
    PROVE  HandleInv'
<1>1. /\ context[x] = "unused" /\ request[r].leg = 1 /\ request[r].holds = Nothing
      /\ x # Nothing
      /\ UNCHANGED <<releases, waiting, parked>> /\ live' = live + 1
      /\ context' = [context EXCEPT ![x] = "request"]
      /\ request' = [request EXCEPT ![r] = [request[r] EXCEPT !.holds = x]]
  BY HandlesFinite DEF HandleInv, HandleShapes, FirstLeg, Holding
<1>2. /\ \A y \in Contexts : context'[y] = IF y = x THEN "request" ELSE context[y]
      /\ \A q \in Requests \ {r} : request'[q] = request[q]
      /\ request'[r].conn = request[r].conn /\ request'[r].leg = 1 /\ request'[r].holds = x
      /\ request'[r] \in Handshake
  BY <1>1 DEF HandleInv, HandleShapes, Handshake
<1>3. HandleShapes'
  <2>1. request' \in [Requests -> Handshake]
    BY <1>1, <1>2 DEF HandleInv, HandleShapes
  <2> QED
    BY <1>1, <2>1 DEF HandleInv, HandleShapes, Places
<1>4. /\ \A q \in Requests : request[q].holds # x
      /\ \A d \in Conns : waiting[d] # x
  BY <1>1 DEF HandleInv, RequestsOwn, MapOwns
<1>5. RequestsOwn'
  BY <1>1, <1>2, <1>4 DEF HandleInv, RequestsOwn, HandleShapes
<1>6. MapOwns'
  <2> SUFFICES ASSUME NEW d \in Conns, NEW e \in Conns, waiting[d] # Nothing
               PROVE  /\ context'[waiting[d]] = "waiting"
                      /\ waiting[e] = waiting[d] => e = d
    BY <1>1 DEF MapOwns
  <2>1. waiting[d] \in Contexts /\ waiting[d] # x
    BY <1>4 DEF HandleInv, HandleShapes
  <2> QED
    BY <1>2, <2>1 DEF HandleInv, MapOwns
<1>7. NoneIsLost'
  <2> SUFFICES ASSUME NEW y \in Contexts
               PROVE  /\ context'[y] = "request" => \E q \in Requests : request'[q].holds = y
                      /\ context'[y] = "waiting" => \E d \in Conns : waiting[d] = y
    BY <1>1 DEF NoneIsLost
  <2>1. CASE y = x
    BY <1>2, <2>1
  <2>2. CASE y # x /\ context[y] = "request"
    <3>1. PICK q \in Requests : request[q].holds = y
      BY <2>2 DEF HandleInv, NoneIsLost
    <3>2. q # r
      BY <1>1, <3>1, HandlesFinite
    <3> QED
      BY <1>2, <2>2, <3>1, <3>2
  <2>3. CASE y # x /\ context[y] # "request"
    BY <1>2, <2>3 DEF HandleInv, NoneIsLost
  <2> QED
    BY <2>1, <2>2, <2>3
<1>8. ReleasedOnce'
  BY <1>1, <1>2 DEF HandleInv, ReleasedOnce
<1>9. GaugesCount'
  <2>1. x \notin LiveOnes /\ LiveOnes' = LiveOnes \union {x}
    BY <1>1, <1>2 DEF LiveOnes
  <2>2. ParkedOnes' = ParkedOnes
    BY <1>1 DEF ParkedOnes
  <2> QED
    BY <1>1, <2>1, <2>2, LiveMore DEF GaugesCount, HandleInv
<1> QED
  BY <1>3, <1>5, <1>6, <1>7, <1>8, <1>9 DEF HandleInv

(* A context leaves a request for nobody.                                  *)
LEMMA FinishStep ==
    ASSUME HandleInv, NEW r \in Requests, Finish(r)
    PROVE  HandleInv'
<1> DEFINE x == request[r].holds
<1>1. /\ x \in Contexts /\ x # Nothing /\ context[x] = "request"
      /\ UNCHANGED <<waiting, parked>> /\ live' = live - 1
      /\ context' = [context EXCEPT ![x] = "released"]
      /\ releases' = [releases EXCEPT ![x] = releases[x] + 1]
      /\ request' = [request EXCEPT ![r] = NoRequest]
  <2>1. x \in Contexts /\ x # Nothing
    BY HandshakeFields DEF HandleInv, HandleShapes, Finish, Holding
  <2>2. context[x] = "request"
    BY <2>1 DEF HandleInv, RequestsOwn
  <2> QED
    BY <2>1, <2>2 DEF Finish, Release, Answered
<1>2. \A q \in Requests : q # r => request[q].holds # x
  BY <1>1 DEF HandleInv, RequestsOwn
<1> HIDE DEF x
<1>3. /\ \A y \in Contexts : context'[y] = IF y = x THEN "released" ELSE context[y]
      /\ \A y \in Contexts : releases'[y] = IF y = x THEN releases[x] + 1 ELSE releases[y]
      /\ \A q \in Requests : request'[q] = IF q = r THEN NoRequest ELSE request[q]
      /\ releases[x] = 0
  BY <1>1 DEF HandleInv, HandleShapes, ReleasedOnce
<1>4. HandleShapes'
  BY <1>1, HandshakeFields DEF HandleInv, HandleShapes, Places
<1>5. RequestsOwn'
  BY <1>1, <1>2, <1>3 DEF HandleInv, RequestsOwn, HandleShapes, NoRequest
<1>6. MapOwns'
  BY <1>1, <1>3 DEF HandleInv, MapOwns, HandleShapes
<1>7. NoneIsLost'
  <2>1. \A y \in Contexts : context'[y] = "request" => \E q \in Requests : request'[q].holds = y
    BY <1>1, <1>3 DEF HandleInv, NoneIsLost, x
  <2> QED
    BY <1>1, <1>3, <2>1 DEF HandleInv, NoneIsLost
<1>8. ReleasedOnce'
  BY <1>1, <1>3 DEF HandleInv, ReleasedOnce
<1>9. GaugesCount'
  <2>1. x \in LiveOnes /\ LiveOnes' = LiveOnes \ {x}
    BY <1>1, <1>3 DEF LiveOnes
  <2>2. ParkedOnes' = ParkedOnes
    BY <1>1 DEF ParkedOnes
  <2> QED
    BY <1>1, <2>1, <2>2, LiveLess DEF GaugesCount, HandleInv
<1> QED
  BY <1>4, <1>5, <1>6, <1>7, <1>8, <1>9 DEF HandleInv

(* A context goes from a request to the map, where another may have waited. *)
LEMMA ParkStep ==
    ASSUME HandleInv, NEW r \in Requests, Park(r)
    PROVE  HandleInv'
<1> DEFINE c == request[r].conn  x == request[r].holds  y == waiting[c]
<1>1. /\ c \in Conns /\ x \in Contexts /\ x # Nothing /\ context[x] = "request"
      /\ waiting' = [waiting EXCEPT ![c] = x]
      /\ request' = [request EXCEPT ![r] = NoRequest]
  <2>1. x \in Contexts /\ x # Nothing
    BY HandshakeFields DEF HandleInv, HandleShapes, Park, Holding
  <2>2. context[x] = "request" /\ c \in Conns
    BY <2>1 DEF HandleInv, RequestsOwn
  <2> QED
    BY <2>1, <2>2 DEF Park, Answered
<1>2. \/ /\ y = Nothing
         /\ context' = [context EXCEPT ![x] = "waiting"] /\ parked' = parked + 1
         /\ UNCHANGED <<live, releases>>
      \/ /\ y # Nothing
         /\ context' = [context EXCEPT ![x] = "waiting", ![y] = "released"]
         /\ releases' = [releases EXCEPT ![y] = releases[y] + 1]
         /\ live' = live - 1 /\ parked' = parked
  BY DEF Park, Displaced
<1>3. y # Nothing => /\ y \in Contexts /\ context[y] = "waiting" /\ y # x /\ releases[y] = 0
                     /\ \A d \in Conns : d # c => waiting[d] # y
  <2> SUFFICES ASSUME y # Nothing
               PROVE  /\ y \in Contexts /\ context[y] = "waiting" /\ y # x /\ releases[y] = 0
                      /\ \A d \in Conns : d # c => waiting[d] # y
    OBVIOUS
  <2>1. y \in Contexts /\ context[y] = "waiting"
    BY <1>1 DEF HandleInv, HandleShapes, MapOwns
  <2>2. \A d \in Conns : d # c => waiting[d] # y
    BY <1>1 DEF HandleInv, MapOwns
  <2> QED
    BY <1>1, <2>1, <2>2 DEF HandleInv, ReleasedOnce
<1>4. /\ \A q \in Requests : q # r => request[q].holds # x
      /\ \A d \in Conns : waiting[d] # x
  <2>1. \A q \in Requests : q # r => request[q].holds # x
    BY <1>1 DEF HandleInv, RequestsOwn
  <2>2. \A d \in Conns : waiting[d] # x
    BY <1>1 DEF HandleInv, MapOwns
  <2> QED
    BY <2>1, <2>2
<1> HIDE DEF x, c, y
<1>5. /\ \A z \in Contexts : context'[z] = IF z = x THEN "waiting"
                                            ELSE IF z = y THEN "released" ELSE context[z]
      /\ \A z \in Contexts : releases'[z] = IF z = y THEN 1 ELSE releases[z]
      /\ \A d \in Conns : waiting'[d] = IF d = c THEN x ELSE waiting[d]
      /\ \A q \in Requests : request'[q] = IF q = r THEN NoRequest ELSE request[q]
      /\ context' \in [Contexts -> Places] /\ releases' \in [Contexts -> Nat]
  <2>1. /\ \A d \in Conns : waiting'[d] = IF d = c THEN x ELSE waiting[d]
        /\ \A q \in Requests : request'[q] = IF q = r THEN NoRequest ELSE request[q]
    BY <1>1 DEF HandleInv, HandleShapes
  <2>2. CASE y = Nothing
    <3>1. \A z \in Contexts : z # y
      BY <2>2, HandlesFinite
    <3> QED
      BY <1>1, <1>2, <2>1, <2>2, <3>1 DEF HandleInv, HandleShapes, Places
  <2>3. CASE y # Nothing
    BY <1>1, <1>2, <1>3, <2>1, <2>3 DEF HandleInv, HandleShapes, Places
  <2> QED
    BY <2>2, <2>3
<1>6. HandleShapes'
  BY <1>1, <1>5, HandshakeFields DEF HandleInv, HandleShapes
<1>7. RequestsOwn'
  <2> SUFFICES ASSUME NEW q \in Requests
               PROVE  /\ request'[q].leg # 0 => request'[q].conn \in Conns
                      /\ request'[q].holds # Nothing =>
                            request'[q].leg # 0 /\ context'[request'[q].holds] = "request"
                      /\ \A p \in Requests : request'[p].holds = request'[q].holds =>
                            p = q \/ request'[q].holds = Nothing
    BY DEF RequestsOwn
  <2>1. CASE q = r
    BY <1>5, <2>1, HandshakeFields
  <2>2. CASE q # r
    <3>1. request'[q] = request[q] /\ request[q].holds # x
          /\ request[q].holds \in Contexts \union {Nothing}
      BY <1>4, <1>5, <2>2, HandshakeFields DEF HandleInv, HandleShapes
    <3>2. request[q].holds # Nothing => request[q].holds # y
      BY <1>3, <3>1 DEF HandleInv, RequestsOwn
    <3>3. request[q].holds # Nothing => context'[request[q].holds] = context[request[q].holds]
      BY <1>5, <3>1, <3>2
    <3>4. \A p \in Requests : request'[p].holds = request[q].holds =>
              p = q \/ request[q].holds = Nothing
      BY <1>5, HandshakeFields DEF HandleInv, RequestsOwn
    <3> QED
      BY <3>1, <3>3, <3>4 DEF HandleInv, RequestsOwn
  <2> QED
    BY <2>1, <2>2
<1>8. MapOwns'
  <2> SUFFICES ASSUME NEW d \in Conns, NEW e \in Conns, waiting'[d] # Nothing
               PROVE  /\ context'[waiting'[d]] = "waiting"
                      /\ waiting'[e] = waiting'[d] => e = d
    BY DEF MapOwns
  <2>1. CASE d = c
    BY <1>1, <1>4, <1>5, <2>1
  <2>2. CASE d # c
    <3>1. waiting'[d] = waiting[d] /\ waiting[d] \in Contexts /\ waiting[d] # x
      BY <1>4, <1>5, <2>2 DEF HandleInv, HandleShapes
    <3>2. waiting[d] # y
      BY <1>3, <2>2, <3>1, HandlesFinite
    <3>3. waiting[e] = waiting[d] => e = d
      BY <3>1, HandlesFinite DEF HandleInv, MapOwns
    <3>4. context[waiting[d]] = "waiting"
      BY <3>1, HandlesFinite DEF HandleInv, MapOwns
    <3> QED
      BY <1>5, <3>1, <3>2, <3>3, <3>4
  <2> QED
    BY <2>1, <2>2
<1>9. NoneIsLost'
  <2> SUFFICES ASSUME NEW z \in Contexts
               PROVE  /\ context'[z] = "request" => \E q \in Requests : request'[q].holds = z
                      /\ context'[z] = "waiting" => \E d \in Conns : waiting'[d] = z
    BY DEF NoneIsLost
  <2>1. CASE z = x
    BY <1>1, <1>5, <2>1
  <2>2. CASE z # x /\ context'[z] = "request"
    <3>1. PICK q \in Requests : request[q].holds = z
      BY <1>5, <2>2 DEF HandleInv, NoneIsLost
    <3>2. q # r
      BY <2>2, <3>1 DEF x
    <3> QED
      BY <1>5, <2>2, <3>1, <3>2
  <2>3. CASE z # x /\ context'[z] = "waiting"
    <3>1. PICK d \in Conns : waiting[d] = z
      BY <1>5, <2>3 DEF HandleInv, NoneIsLost
    <3>2. d # c
      BY <1>5, <2>3, <3>1 DEF y
    <3> QED
      BY <1>5, <2>3, <3>1, <3>2
  <2> QED
    BY <2>1, <2>2, <2>3
<1>10. ReleasedOnce'
  <2> SUFFICES ASSUME NEW z \in Contexts
               PROVE  releases'[z] = IF context'[z] = "released" THEN 1 ELSE 0
    BY DEF ReleasedOnce
  <2>1. releases[z] = IF context[z] = "released" THEN 1 ELSE 0
    BY DEF HandleInv, ReleasedOnce
  <2>2. y = z => y # x
    BY <1>3, HandlesFinite
  <2> QED
    BY <1>1, <1>5, <2>1, <2>2
<1>11. GaugesCount'
  <2>1. CASE y = Nothing
    <3>1. LiveOnes' = LiveOnes
      BY <1>1, <1>5, <2>1, HandlesFinite DEF LiveOnes
    <3>2. c \notin ParkedOnes /\ ParkedOnes' = ParkedOnes \union {c}
      BY <1>1, <1>5, <2>1 DEF ParkedOnes, y
    <3>3. live' = live /\ parked' = parked + 1
      BY <1>2, <2>1
    <3> QED
      BY <3>1, <3>2, <3>3, LiveSame, ParkedMore DEF GaugesCount
  <2>2. CASE y # Nothing
    <3>1. y \in LiveOnes /\ LiveOnes' = LiveOnes \ {y}
      BY <1>1, <1>3, <1>5, <2>2 DEF LiveOnes
    <3>2. ParkedOnes' = ParkedOnes
      BY <1>1, <1>5, <2>2 DEF ParkedOnes, y
    <3>3. live' = live - 1 /\ parked' = parked
      BY <1>2, <2>2
    <3> QED
      BY <3>1, <3>2, <3>3, LiveLess DEF GaugesCount, HandleInv
  <2> QED
    BY <2>1, <2>2
<1> QED
  BY <1>6, <1>7, <1>8, <1>9, <1>10, <1>11 DEF HandleInv

(* The reaper, or the shutdown, takes what still waits.                    *)
LEMMA ReapStep ==
    ASSUME HandleInv, NEW c \in Conns, NEW x \in Contexts, waiting[c] = x, Release(x),
           waiting' = [waiting EXCEPT ![c] = Nothing], parked' = parked - 1,
           request' = request
    PROVE  HandleInv'
<1>1. /\ x # Nothing /\ context[x] = "waiting" /\ releases[x] = 0
      /\ context' = [context EXCEPT ![x] = "released"]
      /\ releases' = [releases EXCEPT ![x] = releases[x] + 1] /\ live' = live - 1
  <2>1. x # Nothing
    BY HandlesFinite
  <2>2. context[x] = "waiting"
    BY <2>1 DEF HandleInv, MapOwns
  <2> QED
    BY <2>1, <2>2 DEF HandleInv, ReleasedOnce, Release
<1>2. \A d \in Conns : d # c => waiting[d] # x
  BY <1>1 DEF HandleInv, MapOwns
<1>3. /\ \A y \in Contexts : context'[y] = IF y = x THEN "released" ELSE context[y]
      /\ \A y \in Contexts : releases'[y] = IF y = x THEN 1 ELSE releases[y]
      /\ \A d \in Conns : waiting'[d] = IF d = c THEN Nothing ELSE waiting[d]
  BY <1>1 DEF HandleInv, HandleShapes
<1>4. HandleShapes'
  BY <1>1 DEF HandleInv, HandleShapes, Places
<1>5. RequestsOwn'
  <2> SUFFICES ASSUME NEW q \in Requests, request[q].holds # Nothing
               PROVE  context'[request[q].holds] = "request"
    BY DEF HandleInv, RequestsOwn
  <2>1. context[request[q].holds] = "request" /\ request[q].holds \in Contexts
    BY HandshakeFields DEF HandleInv, RequestsOwn, HandleShapes
  <2> QED
    BY <1>1, <1>3, <2>1
<1>6. MapOwns'
  <2> SUFFICES ASSUME NEW d \in Conns, NEW e \in Conns, waiting'[d] # Nothing
               PROVE  /\ context'[waiting'[d]] = "waiting"
                      /\ waiting'[e] = waiting'[d] => e = d
    BY DEF MapOwns
  <2>1. d # c /\ waiting'[d] = waiting[d] /\ waiting[d] \in Contexts /\ waiting[d] # x
    BY <1>2, <1>3 DEF HandleInv, HandleShapes
  <2> QED
    BY <1>3, <2>1 DEF HandleInv, MapOwns
<1>7. NoneIsLost'
  <2> SUFFICES ASSUME NEW z \in Contexts
               PROVE  /\ context'[z] = "request" => \E q \in Requests : request[q].holds = z
                      /\ context'[z] = "waiting" => \E d \in Conns : waiting'[d] = z
    BY DEF NoneIsLost
  <2>1. CASE context'[z] = "request"
    BY <1>3, <2>1 DEF HandleInv, NoneIsLost
  <2>2. CASE context'[z] = "waiting"
    <3>1. PICK d \in Conns : waiting[d] = z
      BY <1>3, <2>2 DEF HandleInv, NoneIsLost
    <3>2. d # c
      BY <1>3, <2>2, <3>1
    <3> QED
      BY <1>3, <2>2, <3>1, <3>2
  <2> QED
    BY <2>1, <2>2
<1>8. ReleasedOnce'
  BY <1>3 DEF HandleInv, ReleasedOnce
<1>9. GaugesCount'
  <2>1. x \in LiveOnes /\ LiveOnes' = LiveOnes \ {x}
    BY <1>1, <1>3 DEF LiveOnes
  <2>2. c \in ParkedOnes /\ ParkedOnes' = ParkedOnes \ {c}
    BY <1>1, <1>3 DEF ParkedOnes
  <2> QED
    BY <1>1, <2>1, <2>2, LiveLess, ParkedLess DEF GaugesCount
<1> QED
  BY <1>4, <1>5, <1>6, <1>7, <1>8, <1>9 DEF HandleInv

(* Steps that move no context.                                             *)
LEMMA StillStep ==
    ASSUME HandleInv, UNCHANGED <<context, releases, waiting, live, parked>>,
           request' \in [Requests -> Handshake],
           \A q \in Requests : \/ request'[q] = request[q]
                               \/ /\ request[q].holds = Nothing /\ request'[q].holds = Nothing
                                  /\ request'[q].leg # 0 => request'[q].conn \in Conns
    PROVE  HandleInv'
<1>1. \A q \in Requests : request'[q].holds = request[q].holds
  OBVIOUS
<1>2. HandleShapes'
  BY DEF HandleInv, HandleShapes
<1>3. RequestsOwn'
  BY <1>1 DEF HandleInv, RequestsOwn
<1>4. MapOwns' /\ NoneIsLost' /\ ReleasedOnce'
  BY <1>1 DEF HandleInv, MapOwns, NoneIsLost, ReleasedOnce
<1>5. LiveOnes' = LiveOnes /\ ParkedOnes' = ParkedOnes
  BY DEF LiveOnes, ParkedOnes
<1>6. GaugesCount'
  BY <1>5 DEF HandleInv, GaugesCount
<1> QED
  BY <1>2, <1>3, <1>4, <1>6 DEF HandleInv

LEMMA HandleStep ==
    ASSUME HandleInv, [SignInNext]_signVars
    PROVE  HandleInv'
<1>0. request \in [Requests -> Handshake]
  BY DEF HandleInv, HandleShapes
<1>1. ASSUME UNCHANGED handles
      PROVE  HandleInv'
  BY <1>0, <1>1, StillStep DEF handles
<1>2. ASSUME NEW r \in Requests, NEW c \in Conns, TakeWaiting(r, c) \/ MissWaiting(r, c)
      PROVE  HandleInv'
  <2>1. CASE TakeWaiting(r, c)
    BY <2>1, TakeStep
  <2>2. CASE MissWaiting(r, c)
    <3> DEFINE h == [conn |-> c, holds |-> Nothing, leg |-> 1]
    <3>1. /\ request' = [request EXCEPT ![r] = h]
          /\ request[r].holds = Nothing
          /\ UNCHANGED <<context, releases, waiting, live, parked>>
      BY <2>2, HandshakeFields DEF MissWaiting, Free
    <3>2. h \in Handshake /\ h.holds = Nothing /\ h.conn \in Conns
      BY DEF Handshake
    <3> HIDE DEF h
    <3> QED
      BY <1>0, <3>1, <3>2, StillStep
  <2> QED
    BY <1>2, <2>1, <2>2
<1>3. ASSUME NEW r \in Requests, NEW x \in Contexts, FirstLeg(r, x)
      PROVE  HandleInv'
  BY <1>3, FirstLegStep
<1>4. ASSUME NEW r \in Requests, FirstLegFails(r)
      PROVE  HandleInv'
  <2>1. /\ request' = [request EXCEPT ![r] = NoRequest] /\ request[r].holds = Nothing
        /\ UNCHANGED <<context, releases, waiting, live, parked>>
    BY <1>4 DEF FirstLegFails, Answered, Holding
  <2> QED
    BY <1>0, <2>1, HandshakeFields, StillStep
<1>5. ASSUME NEW r \in Requests, Park(r) \/ Finish(r)
      PROVE  HandleInv'
  BY <1>5, ParkStep, FinishStep
<1>6. ASSUME NEW c \in Conns, ReaperSees(c)
      PROVE  HandleInv'
  BY <1>0, <1>6, StillStep DEF ReaperSees
<1>7. ASSUME NEW c \in Conns, NEW x \in Contexts, ReaperTakes(c, x)
      PROVE  HandleInv'
  <2>1. CASE StillThere(c, x)
    BY <1>7, <2>1, ReapStep DEF ReaperTakes, StillThere
  <2>2. CASE ~StillThere(c, x)
    BY <1>0, <1>7, <2>2, StillStep DEF ReaperTakes
  <2> QED
    BY <2>1, <2>2
<1>8. CASE Stop
  BY <1>0, <1>8, StillStep DEF Stop
<1>9. CASE \/ \E k \in Tokens : CreateSession(k) \/ UseSession(k) \/ Logout(k)
           \/ ReapSessions \/ HourPasses
  BY <1>1, <1>9 DEF CreateSession, UseSession, Logout, ReapSessions, HourPasses
<1>10. CASE UNCHANGED signVars
  BY <1>1, <1>10 DEF signVars
<1> QED
  BY <1>2, <1>3, <1>4, <1>5, <1>6, <1>7, <1>8, <1>9, <1>10 DEF SignInNext

(* One owner each is what the invariant says, counted.                     *)
LEMMA OwnersCounted == HandleInv => ContextHasOneOwner
<1> SUFFICES ASSUME HandleInv, NEW x \in Contexts
             PROVE  Cardinality({<<"request", r>> : r \in {q \in Requests : request[q].holds = x}}
                                \union
                                {<<"waiting", c>> : c \in {d \in Conns : waiting[d] = x}})
                    = IF context[x] \in {"request", "waiting"} THEN 1 ELSE 0
  BY DEF ContextHasOneOwner
<1> DEFINE holders == {q \in Requests : request[q].holds = x}
           waiters == {d \in Conns : waiting[d] = x}
           owners == {<<"request", r>> : r \in holders} \union
                     {<<"waiting", c>> : c \in waiters}
<1>1. x # Nothing
  BY HandlesFinite
<1>2. /\ holders # {} => context[x] = "request"
      /\ waiters # {} => context[x] = "waiting"
  BY <1>1 DEF HandleInv, RequestsOwn, MapOwns
<1>3. CASE context[x] = "request"
  <2>1. PICK r \in Requests : holders = {r}
    BY <1>1, <1>3 DEF HandleInv, NoneIsLost, RequestsOwn
  <2>2. waiters = {}
    BY <1>2, <1>3
  <2>3. owners = {<<"request", r>>}
    BY <2>1, <2>2
  <2>4. Cardinality(owners) = 1
    BY <2>3, FS_Singleton
  <2> QED
    BY <1>3, <2>4
<1>4. CASE context[x] = "waiting"
  <2>1. PICK c \in Conns : waiters = {c}
    BY <1>1, <1>4 DEF HandleInv, NoneIsLost, MapOwns
  <2>2. holders = {}
    BY <1>2, <1>4
  <2>3. owners = {<<"waiting", c>>}
    BY <2>1, <2>2
  <2>4. Cardinality(owners) = 1
    BY <2>3, FS_Singleton
  <2> QED
    BY <1>4, <2>4
<1>5. CASE context[x] \notin {"request", "waiting"}
  <2>1. holders = {} /\ waiters = {}
    BY <1>2, <1>5
  <2>2. owners = {}
    BY <2>1
  <2>3. Cardinality(owners) = 0
    BY <2>2, FS_EmptySet
  <2> QED
    BY <1>5, <2>3
<1> QED
  BY <1>3, <1>4, <1>5

(* Security contexts of abandoned handshakes neither leak nor are freed     *)
(* under the request that uses them (the pending map of sspi.go).           *)
THEOREM ContextsAreAccounted == SignInSpec => []HandshakesAccounted
<1>1. HandleInv => HandshakesAccounted
  <2> SUFFICES ASSUME HandleInv PROVE HandshakesAccounted
    OBVIOUS
  <2>1. HandlesCounted
    BY DEF HandleInv, ReleasedOnce, GaugesCount, LiveOnes, ParkedOnes, HandlesCounted
  <2> QED
    BY <2>1, OwnersCounted DEF HandshakesAccounted
<1> QED
  BY <1>1, HandlesStart, HandleStep, PTL DEF SignInSpec

(* Why a session ends: it is refreshed only before its age is up.          *)
SessionRows == [made : Nat, seen : Nat, valid : BOOLEAN]

SessionInv ==
    /\ session \in [Tokens -> SessionRows] /\ hour \in Nat \ {0}
    /\ refused \subseteq Tokens /\ \A k \in refused : session[k].made # 0
    /\ SessionsEnd

LEMMA SessionStep ==
    ASSUME SessionInv, [SignInNext]_signVars
    PROVE  SessionInv'
<1>0. /\ AgeLimit \in Nat
      /\ \A k \in Tokens : /\ session[k].made \in Nat /\ session[k].seen \in Nat
                            /\ session[k] \in SessionRows
  BY SignInAssumption DEF SignInAssumption, SessionInv, SessionRows
<1>1. ASSUME NEW k \in Tokens, NEW row1 \in SessionRows, UNCHANGED hour,
             session' = [session EXCEPT ![k] = row1],
             row1.seen - row1.made <= AgeLimit,
             refused' \subseteq refused \union {k},
             k \in refused' => ~row1.valid /\ row1.made # 0
      PROVE  SessionInv'
  <2>1. \A j \in Tokens : session'[j] = IF j = k THEN row1 ELSE session[j]
    BY <1>1 DEF SessionInv
  <2>2. session' \in [Tokens -> SessionRows]
    BY <1>1 DEF SessionInv
  <2>3. SessionsEnd'
    BY <1>1, <2>1 DEF SessionInv, SessionsEnd
  <2>4. \A j \in refused' : session'[j].made # 0
    <3> SUFFICES ASSUME NEW j \in refused' PROVE session'[j].made # 0
      OBVIOUS
    <3>1. CASE j = k
      BY <1>1, <2>1, <3>1
    <3>2. CASE j # k
      BY <1>1, <3>2 DEF SessionInv
    <3> QED
      BY <3>1, <3>2
  <2> QED
    BY <1>1, <2>2, <2>3, <2>4 DEF SessionInv
<1>2. ASSUME NEW k \in Tokens, CreateSession(k)
      PROVE  SessionInv'
  <2> DEFINE new == [made |-> hour, seen |-> hour, valid |-> TRUE]
  <2>1. new \in SessionRows /\ new.seen - new.made <= AgeLimit /\ k \notin refused
    BY <1>0, <1>2 DEF SessionInv, SessionRows, CreateSession
  <2>2. session' = [session EXCEPT ![k] = new] /\ UNCHANGED <<hour, refused>>
    BY <1>2 DEF CreateSession
  <2> HIDE DEF new
  <2> QED
    BY <1>1, <2>1, <2>2
<1>4. ASSUME NEW k \in Tokens, UseSession(k)
      PROVE  SessionInv'
  <2>1. CASE session[k].valid /\ ~Expired(k)
    <3> DEFINE new == [session[k] EXCEPT !.seen = hour]
    <3>1. /\ new \in SessionRows /\ new.seen = hour /\ new.made = session[k].made
          /\ hour - session[k].made <= AgeLimit
      BY <1>0, <2>1 DEF SessionRows, Expired, SessionInv
    <3>2. k \notin refused
      BY <2>1 DEF SessionInv, SessionsEnd
    <3>3. session' = [session EXCEPT ![k] = new] /\ UNCHANGED <<hour, refused>>
      BY <1>0, <1>4, <2>1 DEF UseSession, handles, SessionInv, SessionRows
    <3> HIDE DEF new
    <3> QED
      BY <1>1, <3>1, <3>2, <3>3
  <2>2. CASE ~(session[k].valid /\ ~Expired(k))
    <3> DEFINE new == [session[k] EXCEPT !.valid = FALSE]
    <3>1. /\ new \in SessionRows /\ new.seen = session[k].seen /\ new.made = session[k].made
          /\ ~new.valid /\ new.seen - new.made <= AgeLimit
      BY <1>0 DEF SessionRows, SessionInv, SessionsEnd
    <3>2. /\ session' = [session EXCEPT ![k] = new] /\ UNCHANGED hour
          /\ refused' = refused \union {k} /\ session[k].made # 0
      BY <1>0, <1>4, <2>2 DEF UseSession, handles, SessionInv
    <3> HIDE DEF new
    <3> QED
      BY <1>1, <3>1, <3>2
  <2> QED
    BY <2>1, <2>2
<1>5. ASSUME NEW k \in Tokens, Logout(k)
      PROVE  SessionInv'
  <2> DEFINE new == [session[k] EXCEPT !.valid = FALSE]
  <2>1. /\ new \in SessionRows /\ new.seen = session[k].seen /\ new.made = session[k].made
        /\ ~new.valid /\ new.seen - new.made <= AgeLimit
    BY <1>0 DEF SessionRows, SessionInv, SessionsEnd
  <2>2. session' = [session EXCEPT ![k] = new] /\ UNCHANGED <<hour, refused>>
    BY <1>0, <1>5 DEF Logout, SessionInv
  <2>3. k \notin refused
    BY <1>5 DEF Logout, SessionInv, SessionsEnd
  <2> HIDE DEF new
  <2> QED
    BY <1>1, <2>1, <2>2, <2>3
<1>6. CASE ReapSessions
  <2>1. \A k \in Tokens : /\ session'[k] \in SessionRows
                          /\ session'[k].seen = session[k].seen
                          /\ session'[k].made = session[k].made
                          /\ session'[k].valid => session[k].valid
    BY <1>0, <1>6 DEF ReapSessions, SessionRows
  <2>2. /\ session' = [k \in Tokens |-> session'[k]] /\ UNCHANGED <<hour, refused>>
    BY <1>6 DEF ReapSessions
  <2>3. SessionsEnd'
    BY <2>1, <2>2 DEF SessionInv, SessionsEnd
  <2>4. \A k \in refused : session'[k].made # 0
    BY <2>1 DEF SessionInv
  <2> QED
    BY <2>1, <2>2, <2>3, <2>4 DEF SessionInv
<1>7. CASE HourPasses
  BY <1>0, <1>7 DEF HourPasses, SessionInv, SessionsEnd
<1>8. CASE UNCHANGED <<session, hour, refused>>
  BY <1>8 DEF SessionInv, SessionsEnd
<1> QED
  BY <1>2, <1>4, <1>5, <1>6, <1>7, <1>8
     DEF SignInNext, signVars, accounts, TakeWaiting, MissWaiting, FirstLeg, FirstLegFails,
         Park, Finish, ReaperSees, ReaperTakes, Stop

(* A session ends: no use refreshes it beyond its age, and one that was     *)
(* refused stays refused (SessionStore.Get).                                *)
THEOREM SessionsDoEnd == SignInSpec => []SessionsEnd
<1>1. SignInInit => SessionInv
  BY SignInAssumption DEF SignInAssumption, SignInInit, SessionInv, SessionRows, SessionsEnd,
                          NoSession
<1>2. SessionInv => SessionsEnd
  BY DEF SessionInv
<1> QED
  BY <1>1, <1>2, SessionStep, PTL DEF SignInSpec

(***************************************************************************)
(* The pages of the fleet, for any fleet, page size, query and order.      *)
(* A listing puts each host in the place that the hosts before it leave.   *)
(***************************************************************************)

Matches == Matching(known, snaps, {h \in FleetHosts : snaps[h].match})

(* Where a host is in the listing of the items: after those before it.     *)
Place(h, items, kept) == 1 + Cardinality({o \in items : Before(o, h, kept)})

(* How much of a listing the pages before this one have shown.             *)
ShownBefore(page) == (page - 1) * PageSize

(* The request under way has read what is there.                           *)
ReadsAreCurrent ==
    /\ walk.step # "idle" => walk.hosts = known
    /\ walk.step \in {"search", "ready"} => walk.rows = snaps
    /\ walk.step = "ready" /\ ask.search =>
          walk.matched = {h \in FleetHosts : snaps[h].match}

(* The pages so far are the beginning of the listing of what matches.      *)
PagesAreABeginning ==
    /\ walk.over \/ walk.page = 1 \/ ShownBefore(walk.page) < Cardinality(Matches)
    /\ Len(walk.listed) = IF ShownBefore(walk.page) < Cardinality(Matches)
                          THEN ShownBefore(walk.page) ELSE Cardinality(Matches)
    /\ walk.over => Len(walk.listed) = Cardinality(Matches)
    /\ \A i \in DOMAIN walk.listed :
          /\ walk.listed[i] \in Matches
          /\ Place(walk.listed[i], Matches, snaps) = i

FleetInv ==
    /\ FleetTypeOK
    /\ walk.page = 1 => walk.listed = <<>>
    /\ walk.step # "idle" => ~walk.over /\ walk.hosts # {}
    /\ walk.over \/ walk.page = 1 \/ ShownBefore(walk.page) < Last
    /\ quiet => ReadsAreCurrent /\ PagesAreABeginning
    /\ detail.step = "rows" => detail.snap.count = detail.count
    /\ DetailIsOneSnapshot

(* sortFleet's comparison is a strict total order on hosts.                *)
LEMMA BeforeIsTotal ==
    ASSUME NEW kept \in [FleetHosts -> Row]
    PROVE  /\ \A a \in FleetHosts : ~Before(a, a, kept)
           /\ \A a, b \in FleetHosts : a # b => Before(a, b, kept) \/ Before(b, a, kept)
           /\ \A a, b \in FleetHosts : ~(Before(a, b, kept) /\ Before(b, a, kept))
           /\ \A a, b, c \in FleetHosts :
                 Before(a, b, kept) /\ Before(b, c, kept) => Before(a, c, kept)
  <1> DEFINE n(h) == kept[h].count
  <1>1. FleetHosts \subseteq Int
    BY DEF FleetHosts
  <1>2. \A h \in FleetHosts : n(h) \in Int
    <2>1. \A h \in FleetHosts : kept[h] \in Row
      OBVIOUS
    <2> QED  BY <2>1, FleetAssumption DEF Row
  <1>3. \A a, b : Before(a, b, kept) <=> IF n(a) = n(b) THEN a < b
                                         ELSE IF ask.desc THEN n(a) > n(b) ELSE n(a) < n(b)
    BY DEF Before
  <1> HIDE DEF n
  <1> QED  BY <1>1, <1>2, <1>3

LEMMA HostsAreFinite ==
    ASSUME NEW items \in SUBSET FleetHosts
    PROVE  /\ IsFiniteSet(items) /\ Cardinality(items) \in Nat /\ Cardinality(items) <= Last
           /\ items # {} => Cardinality(items) > 0
  <1>1. IsFiniteSet(FleetHosts) /\ Cardinality(FleetHosts) = Last
    BY FleetAssumption, FS_Interval DEF FleetHosts
  <1>2. IsFiniteSet(items) /\ Cardinality(items) <= Last
    BY <1>1, FS_Subset
  <1>3. Cardinality(items) \in Nat /\ (Cardinality(items) = 0 <=> items = {})
    BY <1>2, FS_CardinalityType, FS_EmptySet
  <1> QED  BY <1>2, <1>3

(* Two hosts have two places.                                              *)
LEMMA PlacesDiffer ==
    ASSUME NEW kept \in [FleetHosts -> Row], NEW items \in SUBSET FleetHosts,
           NEW a \in items, NEW b \in items, Place(a, items, kept) = Place(b, items, kept)
    PROVE  a = b
  <1> DEFINE below(h) == {o \in items : Before(o, h, kept)}
  <1>1. ASSUME NEW g \in items, NEW h \in items, Before(g, h, kept)
        PROVE  Cardinality(below(g)) < Cardinality(below(h))
    <2>1. below(g) \in SUBSET FleetHosts /\ below(h) \in SUBSET FleetHosts
      OBVIOUS
    <2>2. g \notin below(g) /\ below(g) \union {g} \subseteq below(h)
      BY <1>1, BeforeIsTotal
    <2> HIDE DEF below
    <2>3. IsFiniteSet(below(g)) /\ IsFiniteSet(below(h)) /\ Cardinality(below(g)) \in Nat
          /\ Cardinality(below(h)) \in Nat
      BY <2>1, HostsAreFinite
    <2>4. Cardinality(below(g) \union {g}) = Cardinality(below(g)) + 1
      BY <2>2, <2>3, FS_AddElement
    <2>5. Cardinality(below(g) \union {g}) <= Cardinality(below(h))
      BY <2>2, <2>3, FS_Subset
    <2> QED  BY <2>3, <2>4, <2>5
  <1>2. Cardinality(below(a)) \in Nat /\ Cardinality(below(b)) \in Nat
    BY HostsAreFinite
  <1>3. Cardinality(below(a)) = Cardinality(below(b))
    BY <1>2 DEF Place
  <1> HIDE DEF below
  <1>4. ~Before(a, b, kept) /\ ~Before(b, a, kept)
    BY <1>1, <1>2, <1>3
  <1> QED  BY <1>4, BeforeIsTotal

(* Whatever sort.Slice does, a host comes to its place: there is one       *)
(* listing.                                                                *)
LEMMA ListingIsByPlace ==
    ASSUME NEW kept \in [FleetHosts -> Row], NEW items \in SUBSET FleetHosts,
           NEW s \in Listings(items, kept)
    PROVE  /\ s \in Seq(items) /\ Len(s) = Cardinality(items)
           /\ \A i \in 1..Cardinality(items) : s[i] \in items /\ Place(s[i], items, kept) = i
  <1> DEFINE n == Cardinality(items)
  <1>1. n \in Nat /\ IsFiniteSet(items)
    BY HostsAreFinite
  <1>2. /\ s \in [1..n -> items] /\ \A h \in items : \E i \in 1..n : s[i] = h
        /\ \A i, j \in 1..n : i < j => ~Before(s[j], s[i], kept)
    BY DEF Listings
  <1> HIDE DEF n
  <1>3. s \in Seq(items) /\ Len(s) = n
    BY <1>1, <1>2, SeqDef
  <1>4. s \in Surjection(1..n, items)
    BY <1>2 DEF Surjection
  <1>5. IsFiniteSet(1..n) /\ Cardinality(1..n) = n
    BY <1>1, FS_Interval
  <1>6. \A i, j \in 1..n : s[i] = s[j] => i = j
    <2>1. s \in Injection(1..n, items)
      BY <1>4, <1>5, FS_SurjSameCardinalityImpliesInj DEF n
    <2> QED  BY <2>1 DEF Injection, IsInjective
  <1>7. ASSUME NEW i \in 1..n PROVE Place(s[i], items, kept) = i
    <2> DEFINE below == {o \in items : Before(o, s[i], kept)}
               first == 1..(i - 1)
               f == [j \in first |-> s[j]]
    <2>1. \A j \in 1..n : s[j] \in items /\ s[j] \in FleetHosts
      BY <1>2
    <2>2. \A j \in 1..n : j < i => Before(s[j], s[i], kept)
      BY <1>2, <1>6, <2>1, BeforeIsTotal
    <2>3. \A j \in 1..n : Before(s[j], s[i], kept) => j < i
      <3> SUFFICES ASSUME NEW j \in 1..n, Before(s[j], s[i], kept), ~(j < i) PROVE FALSE
        OBVIOUS
      <3>1. j = i \/ i < j
        BY <1>1
      <3> QED  BY <1>2, <2>1, <3>1, BeforeIsTotal
    <2>4. \A j \in first : j \in 1..n /\ j < i
      BY <1>1
    <2>5. f \in [first -> below]
      BY <2>1, <2>2, <2>4
    <2>6. \A o \in below : \E j \in first : f[j] = o
      <3> SUFFICES ASSUME NEW o \in items, Before(o, s[i], kept) PROVE \E j \in first : f[j] = o
        OBVIOUS
      <3>1. PICK j \in 1..n : s[j] = o
        BY <1>2
      <3>2. j < i
        BY <2>3, <3>1
      <3>3. j \in first
        BY <1>1, <3>2
      <3> QED  BY <3>1, <3>3
    <2>7. \A j, k \in first : f[j] = f[k] => j = k
      BY <1>6, <2>4
    <2>8. IsFiniteSet(first) /\ Cardinality(first) = i - 1
      BY <1>1, FS_Interval
    <2> HIDE DEF first, f
    <2>9. below \in SUBSET FleetHosts
      OBVIOUS
    <2>10. Place(s[i], items, kept) = 1 + Cardinality(below)
      BY DEF Place
    <2> HIDE DEF below
    <2>11. f \in Bijection(first, below)
      BY <2>5, <2>6, <2>7 DEF Bijection, Injection, Surjection, IsInjective
    <2>12. Cardinality(below) = i - 1
      BY <2>8, <2>11, FS_Bijection DEF ExistsBijection
    <2> QED  BY <1>1, <2>10, <2>12
  <1> QED  BY <1>2, <1>3, <1>7 DEF n

(* The numbers of hosts shown before a page and after it.                  *)
LEMMA ShownGrows ==
    ASSUME NEW p \in Nat \ {0}
    PROVE  /\ ShownBefore(p) \in Nat /\ ShownBefore(1) = 0 /\ ShownBefore(p) >= p - 1
           /\ p * PageSize = ShownBefore(p) + PageSize /\ ShownBefore(p + 1) = ShownBefore(p) + PageSize
           /\ PageSize \in Nat /\ PageSize > 0
  BY FleetAssumption, Z3 DEF ShownBefore

(* What a page of a listing is.                                            *)
LEMMA SliceIs ==
    ASSUME NEW S, NEW s \in Seq(S), NEW p \in Nat \ {0}, NEW to,
           to = IF ShownBefore(p + 1) < Len(s) THEN ShownBefore(p + 1) ELSE Len(s)
    PROVE  /\ Slice(s, p) \in Seq(S) /\ ShownBefore(p) \in Nat /\ to \in Nat
           /\ Len(Slice(s, p)) = IF ShownBefore(p) < to THEN to - ShownBefore(p) ELSE 0
           /\ \A i \in 1..(to - ShownBefore(p)) : Slice(s, p)[i] = s[ShownBefore(p) + i]
  <1> DEFINE from == ShownBefore(p)
  <1>1. from \in Nat /\ to \in Nat /\ to <= Len(s) /\ p * PageSize = ShownBefore(p + 1)
    <2>1. Len(s) \in Nat
      OBVIOUS
    <2>2. /\ ShownBefore(p) \in Nat /\ p * PageSize = ShownBefore(p) + PageSize
          /\ ShownBefore(p + 1) = ShownBefore(p) + PageSize /\ PageSize \in Nat
      BY ShownGrows
    <2>3. p * PageSize = ShownBefore(p + 1) /\ ShownBefore(p + 1) \in Nat
      BY <2>2
    <2> QED  BY <2>1, <2>2, <2>3
  <1>2. Slice(s, p) = SubSeq(s, from + 1, to)
    BY <1>1 DEF Slice, ShownBefore
  <1> HIDE DEF from
  <1>3. \A i \in (from + 1)..to : s[i] \in S
    BY <1>1
  <1>4. /\ SubSeq(s, from + 1, to) \in Seq(S)
        /\ Len(SubSeq(s, from + 1, to)) = IF from + 1 <= to THEN to - (from + 1) + 1 ELSE 0
        /\ \A i \in 1..(to - (from + 1) + 1) : SubSeq(s, from + 1, to)[i] = s[from + 1 + i - 1]
    BY <1>1, <1>3, SubSeqProperties
  <1>5. \A i \in 1..(to - from) : SubSeq(s, from + 1, to)[i] = s[from + i]
    BY <1>1, <1>4
  <1> QED  BY <1>1, <1>2, <1>4, <1>5 DEF from

LEMMA FleetStarts == FleetInit => FleetInv
  <1> SUFFICES ASSUME FleetInit PROVE FleetInv
    OBVIOUS
  <1> USE FleetAssumption
  <1>1. NoRow \in Row
    BY DEF NoRow, Row
  <1>2. /\ NoWalk \in [step : {"idle", "known", "search", "ready"},
                 hosts : SUBSET FleetHosts, rows : [FleetHosts -> Row],
                 matched : SUBSET FleetHosts, listed : Seq(FleetHosts),
                 page : 1..(Last + 1), over : BOOLEAN]
        /\ NoWalk.step = "idle" /\ NoWalk.listed = <<>> /\ NoWalk.page = 1 /\ NoWalk.over = FALSE
    BY <1>1 DEF NoWalk
  <1>3. snaps \in [FleetHosts -> Row]
    <2>1. {NoRow, [count |-> 0, match |-> TRUE], [count |-> 1, match |-> FALSE]} \subseteq Row
      BY <1>1 DEF Row
    <2> QED  BY <2>1 DEF FleetInit
  <1>4. NoDetail \in [step : {"none", "rows", "done"}, host : 0..Last,
                      count : -1..MaxCount, snap : Row, total : -1..MaxCount]
        /\ NoDetail.step = "none"
    BY <1>1 DEF NoDetail
  <1>5. FleetTypeOK
    BY <1>2, <1>3, <1>4 DEF FleetInit, FleetTypeOK
  <1>6. Cardinality(Matches) \in Nat
    BY HostsAreFinite DEF FleetInit, Matches, Matching
  <1>7. ReadsAreCurrent /\ PagesAreABeginning
    BY <1>2, <1>6, ShownGrows DEF FleetInit, ReadsAreCurrent, PagesAreABeginning
  <1> QED  BY <1>2, <1>4, <1>5, <1>7 DEF FleetInit, FleetInv, DetailIsOneSnapshot

LEMMA PageStep ==
    ASSUME FleetInv, AnswerPage
    PROVE  FleetInv'
  <1> USE FleetAssumption
  <1> DEFINE items == Matching(walk.hosts, walk.rows, walk.matched)
             p == walk.page
             n == Cardinality(items)
  <1>1. FleetTypeOK /\ walk.step = "ready" /\ ~walk.over /\ walk.hosts # {}
    BY DEF FleetInv, AnswerPage
  <1>2. /\ walk.hosts \subseteq FleetHosts /\ walk.rows \in [FleetHosts -> Row]
        /\ walk.listed \in Seq(FleetHosts) /\ p \in 1..(Last + 1)
    BY <1>1 DEF FleetTypeOK
  <1>3. PICK s \in Listings(items, walk.rows) :
              walk' = [NoWalk EXCEPT
                  !.listed = walk.listed \o Slice(s, walk.page),
                  !.page = walk.page + 1,
                  !.over = walk.page * PageSize >= Len(s)]
    BY DEF AnswerPage
  <1>4. items \in SUBSET FleetHosts
    BY <1>2 DEF Matching
  <1> HIDE DEF items, p
  <1>5. n \in Nat /\ n <= Last
    BY <1>4, HostsAreFinite
  <1>6. /\ s \in Seq(items) /\ Len(s) = n
        /\ \A i \in 1..n : s[i] \in items /\ Place(s[i], items, walk.rows) = i
    BY <1>2, <1>4, ListingIsByPlace
  <1> HIDE DEF n
  <1>7. p \in Nat \ {0} /\ p + 1 \in Nat \ {0} /\ walk.page = p
    BY <1>2 DEF p
  <1>8. /\ ShownBefore(p) \in Nat /\ ShownBefore(p + 1) = ShownBefore(p) + PageSize /\ p * PageSize = ShownBefore(p + 1)
        /\ PageSize > 0 /\ ShownBefore(p) >= p - 1 /\ ShownBefore(1) = 0 /\ PageSize \in Nat
    BY <1>7, ShownGrows
  <1> DEFINE to == IF ShownBefore(p + 1) < n THEN ShownBefore(p + 1) ELSE n
             page == Slice(s, p)
  <1>9. s \in Seq(FleetHosts)
    BY <1>4, <1>6
  <1>10. /\ page \in Seq(FleetHosts)
         /\ Len(page) = IF ShownBefore(p) < to THEN to - ShownBefore(p) ELSE 0
         /\ \A i \in 1..(to - ShownBefore(p)) : page[i] = s[ShownBefore(p) + i]
    <2>1. to = IF ShownBefore(p + 1) < Len(s) THEN ShownBefore(p + 1) ELSE Len(s)
      BY <1>6
    <2>2. p \in Nat \ {0}
      BY <1>7
    <2> HIDE DEF to
    <2>3. /\ Slice(s, p) \in Seq(FleetHosts)
          /\ Len(Slice(s, p)) = IF ShownBefore(p) < to THEN to - ShownBefore(p) ELSE 0
          /\ \A i \in 1..(to - ShownBefore(p)) : Slice(s, p)[i] = s[ShownBefore(p) + i]
      BY <1>9, <2>1, <2>2, SliceIs
    <2> QED  BY <2>3 DEF page
  <1> HIDE DEF page
  <1>11. /\ walk.listed \o page \in Seq(FleetHosts)
         /\ Len(walk.listed \o page) = Len(walk.listed) + Len(page)
         /\ \A i \in 1..(Len(walk.listed) + Len(page)) :
               (walk.listed \o page)[i] =
                   IF i <= Len(walk.listed) THEN walk.listed[i] ELSE page[i - Len(walk.listed)]
    BY <1>2, <1>10, ConcatProperties, ZenonT(30)
  <1>12. /\ walk'.step = "idle" /\ walk'.listed = walk.listed \o page /\ walk'.page = p + 1
         /\ walk'.over <=> ShownBefore(p + 1) >= n
    BY <1>3, <1>6, <1>7, <1>8 DEF NoWalk, page
  <1>13. UNCHANGED <<known, snaps, ask, detail, writes, quiet>>
    BY DEF AnswerPage
  <1>14. p + 1 \in 1..(Last + 1)
    <2>1. Last >= 1
      BY <1>1, <1>2 DEF FleetHosts
    <2>2. p = 1 \/ ShownBefore(p) < Last
      BY <1>1, <1>7 DEF FleetInv
    <2> QED  BY <1>2, <1>8, <2>1, <2>2
  <1>15. FleetTypeOK'
    <2>1. /\ {} \in SUBSET FleetHosts /\ [h \in FleetHosts |-> NoRow] \in [FleetHosts -> Row]
      BY DEF NoRow, Row
    <2>2. (ShownBefore(p + 1) >= n) \in BOOLEAN
      OBVIOUS
    <2>3. walk' = [step |-> "idle", hosts |-> {}, rows |-> [h \in FleetHosts |-> NoRow],
                   matched |-> {}, listed |-> walk.listed \o page, page |-> p + 1,
                   over |-> ShownBefore(p + 1) >= n]
      BY <1>3, <1>6, <1>7, <1>8 DEF NoWalk, page
    <2>4. walk' \in [step : {"idle", "known", "search", "ready"},
                 hosts : SUBSET FleetHosts, rows : [FleetHosts -> Row],
                 matched : SUBSET FleetHosts, listed : Seq(FleetHosts),
                 page : 1..(Last + 1), over : BOOLEAN]
      BY <1>11, <1>14, <2>1, <2>2, <2>3
    <2> QED  BY <1>1, <1>13, <2>4 DEF FleetTypeOK
  <1>16. (walk.page = 1 => walk.listed = <<>>)' /\ (walk.over \/ walk.page = 1 \/ ShownBefore(walk.page) < Last)'
    BY <1>2, <1>5, <1>7, <1>8, <1>12
  <1>17. ASSUME quiet PROVE ReadsAreCurrent' /\ PagesAreABeginning'
    <2>1. ReadsAreCurrent /\ PagesAreABeginning
      BY <1>17 DEF FleetInv
    <2>2. items = Matches /\ walk.rows = snaps
      BY <1>1, <2>1 DEF ReadsAreCurrent, Matches, Matching, items
    <2>3. Matches' = Matches /\ Matches = items
      BY <1>13, <2>2 DEF Matches, Matching
    <2>4. Len(walk.listed) = ShownBefore(p) /\ ShownBefore(p) <= n
      BY <1>1, <1>2, <1>5, <1>7, <1>8, <2>1, <2>3 DEF PagesAreABeginning, n
    <2>5. /\ Len(walk'.listed) = to /\ (ShownBefore(p) < to \/ (n = 0 /\ ShownBefore(p) = 0))
      <3>1. ShownBefore(p) < to \/ (n = 0 /\ ShownBefore(p) = 0)
        <4>1. walk.page = 1 \/ ShownBefore(p) < n
          BY <1>1, <1>7, <2>1, <2>3 DEF PagesAreABeginning, n
        <4> QED  BY <1>5, <1>7, <1>8, <4>1
      <3>2. Len(walk'.listed) = ShownBefore(p) + Len(page)
        BY <1>11, <1>12, <2>4
      <3> QED  BY <1>5, <1>8, <1>10, <3>1, <3>2
    <2>6. ASSUME NEW i \in 1..to
          PROVE  /\ walk'.listed[i] \in items
                 /\ Place(walk'.listed[i], items, snaps) = i
      <3>1. CASE i <= ShownBefore(p)
        <4>1. walk'.listed[i] = walk.listed[i]
          BY <1>5, <1>8, <1>10, <1>11, <1>12, <2>4, <2>5, <3>1
        <4>2. i \in DOMAIN walk.listed
          BY <1>2, <1>5, <1>8, <2>4, <3>1
        <4> QED  BY <2>1, <2>3, <4>1, <4>2 DEF PagesAreABeginning
      <3>2. CASE i > ShownBefore(p)
        <4>1. walk'.listed[i] = page[i - ShownBefore(p)]
          BY <1>5, <1>8, <1>10, <1>11, <1>12, <2>4, <2>5, <3>2
        <4>2. i - ShownBefore(p) \in 1..(to - ShownBefore(p)) /\ ShownBefore(p) + (i - ShownBefore(p)) = i /\ i \in 1..n
          BY <1>5, <1>8, <3>2
        <4>3. page[i - ShownBefore(p)] = s[i]
          BY <1>10, <4>2
        <4> QED  BY <1>6, <2>2, <4>1, <4>2, <4>3
      <3> QED  BY <1>8, <3>1, <3>2
    <2>7. DOMAIN walk'.listed = 1..to
      <3>1. walk'.listed \in Seq(FleetHosts)
        BY <1>11, <1>12
      <3> QED  BY <2>5, <3>1
    <2>8. PagesAreABeginning'
      <3>1. \A i \in DOMAIN walk'.listed : /\ walk'.listed[i] \in Matches'
                                           /\ Place(walk'.listed[i], Matches', snaps') = i
        BY <1>13, <2>3, <2>6, <2>7 DEF Place, Before
      <3>2. Cardinality(Matches') = n
        BY <2>3 DEF n
      <3>3. Len(walk'.listed) = IF ShownBefore(walk'.page) < n THEN ShownBefore(walk'.page) ELSE n
        BY <1>12, <2>5
      <3>4. walk'.over => Len(walk'.listed) = n
        BY <1>5, <1>8, <1>12, <2>5
      <3>5. walk'.over \/ ShownBefore(walk'.page) < n
        BY <1>5, <1>8, <1>12
      <3> QED  BY <1>13, <3>1, <3>2, <3>3, <3>4, <3>5 DEF PagesAreABeginning, Place, Before
    <2> QED  BY <1>12, <2>8 DEF ReadsAreCurrent
  <1>18. /\ (detail.step = "rows" => detail.snap.count = detail.count)' /\ DetailIsOneSnapshot'
    BY <1>13 DEF FleetInv, DetailIsOneSnapshot
  <1> QED  BY <1>12, <1>13, <1>15, <1>16, <1>17, <1>18 DEF FleetInv

(* A change of the tables ends what the history calls quiet.               *)
LEMMA FleetChanges ==
    ASSUME FleetInv, \/ Purge \/ \E h \in FleetHosts : Ingest(h) \/ RosterGains(h) \/ RosterLoses(h)
    PROVE  FleetInv'
  <1> USE FleetAssumption
  <1>1. FleetTypeOK
    BY DEF FleetInv
  <1>2. Write
    BY DEF Purge, Ingest, RosterGains, RosterLoses
  <1>3. known' \subseteq FleetHosts /\ snaps' \in [FleetHosts -> Row]
    <2>1. CASE Purge
      BY <1>1, <2>1 DEF Purge, FleetTypeOK, NoRow, Row
    <2>2. ASSUME NEW h \in FleetHosts, Ingest(h)
          PROVE  known' \subseteq FleetHosts /\ snaps' \in [FleetHosts -> Row]
      <3>1. PICK new \in [count : 0..MaxCount, match : BOOLEAN] : snaps' = [snaps EXCEPT ![h] = new]
        BY <2>2 DEF Ingest
      <3>2. new \in Row
        BY DEF Row
      <3> QED  BY <1>1, <2>2, <3>1, <3>2 DEF Ingest, FleetTypeOK
    <2>3. ASSUME NEW h \in FleetHosts, RosterGains(h) \/ RosterLoses(h)
          PROVE  known' \subseteq FleetHosts /\ snaps' \in [FleetHosts -> Row]
      BY <1>1, <2>3 DEF RosterGains, RosterLoses, FleetTypeOK
    <2> QED  BY <2>1, <2>2, <2>3
  <1>4. quiet' = FALSE /\ UNCHANGED <<ask, walk, detail>> /\ writes' \in 0..MaxWrites
    BY <1>1, <1>2 DEF Write, FleetTypeOK
  <1>5. FleetTypeOK'
    BY <1>1, <1>3, <1>4 DEF FleetTypeOK
  <1> QED  BY <1>4, <1>5 DEF FleetInv, DetailIsOneSnapshot

(* The reads of one request.                                               *)
LEMMA FleetReads ==
    ASSUME FleetInv, AskPage \/ ReadSnapshots \/ ReadMatches
    PROVE  FleetInv'
  <1> USE FleetAssumption
  <1>1. /\ FleetTypeOK /\ UNCHANGED <<known, snaps, ask, detail, writes>>
    BY DEF FleetInv, AskPage, ReadSnapshots, ReadMatches
  <1>2. /\ walk \in [step : {"idle", "known", "search", "ready"},
                 hosts : SUBSET FleetHosts, rows : [FleetHosts -> Row],
                 matched : SUBSET FleetHosts, listed : Seq(FleetHosts),
                 page : 1..(Last + 1), over : BOOLEAN]
        /\ known \subseteq FleetHosts /\ snaps \in [FleetHosts -> Row] /\ quiet \in BOOLEAN
    BY <1>1 DEF FleetTypeOK
  <1>3. Matches' = Matches
    BY <1>1 DEF Matches, Matching
  <1>4. /\ walk' \in [step : {"idle", "known", "search", "ready"},
                 hosts : SUBSET FleetHosts, rows : [FleetHosts -> Row],
                 matched : SUBSET FleetHosts, listed : Seq(FleetHosts),
                 page : 1..(Last + 1), over : BOOLEAN]
        /\ walk'.listed = walk.listed /\ walk'.page = walk.page
    <2>1. CASE AskPage
      BY <1>2, <2>1 DEF AskPage
    <2>2. CASE ReadSnapshots
      <3>1. (IF ask.search THEN "search" ELSE "ready") \in {"idle", "known", "search", "ready"}
        OBVIOUS
      <3> QED  BY <1>2, <2>2, <3>1 DEF ReadSnapshots
    <2>3. CASE ReadMatches
      BY <1>2, <2>3 DEF ReadMatches
    <2> QED  BY <2>1, <2>2, <2>3
  <1>5. quiet' \in BOOLEAN
    BY <1>2 DEF AskPage, ReadSnapshots, ReadMatches
  <1>6. FleetTypeOK'
    BY <1>1, <1>4, <1>5 DEF FleetTypeOK
  <1>7. /\ (walk.page = 1 => walk.listed = <<>>)'
        /\ (walk.step # "idle" => ~walk.over /\ walk.hosts # {})'
        /\ (walk.over \/ walk.page = 1 \/ ShownBefore(walk.page) < Last)'
    BY <1>2, <1>4 DEF FleetInv, AskPage, ReadSnapshots, ReadMatches
  <1>8. ASSUME quiet' PROVE ReadsAreCurrent' /\ PagesAreABeginning'
    <2>0. Cardinality(Matches) \in Nat
      BY <1>2, HostsAreFinite DEF Matches, Matching
    <2>1. CASE AskPage
      <3>1. walk.step = "idle" /\ ~walk.over /\ (walk.page = 1 \/ quiet)
        BY <1>8, <2>1 DEF AskPage
      <3>2. ReadsAreCurrent'
        BY <1>1, <1>2, <2>1, <3>1 DEF AskPage, ReadsAreCurrent
      <3>3. /\ walk.page = 1 \/ ShownBefore(walk.page) < Cardinality(Matches)
            /\ Len(walk.listed) = IF ShownBefore(walk.page) < Cardinality(Matches)
                                  THEN ShownBefore(walk.page) ELSE Cardinality(Matches)
            /\ \A i \in DOMAIN walk.listed :
                  /\ walk.listed[i] \in Matches
                  /\ Place(walk.listed[i], Matches, snaps) = i
        <4>1. CASE quiet
          BY <3>1, <4>1 DEF FleetInv, PagesAreABeginning
        <4>2. CASE walk.page = 1
          <5>1. walk.listed = <<>> /\ ShownBefore(walk.page) = 0
            BY <4>2, ShownGrows DEF FleetInv
          <5>2. Len(walk.listed) = 0 /\ DOMAIN walk.listed = {}
            BY <5>1
          <5> QED  BY <2>0, <4>2, <5>1, <5>2
        <4> QED  BY <3>1, <4>1, <4>2
      <3>4. walk'.over => Len(walk.listed) = Cardinality(Matches)
        <4> SUFFICES ASSUME walk'.over PROVE Len(walk.listed) = Cardinality(Matches)
          OBVIOUS
        <4>1. known = {}
          BY <1>2, <2>1, <3>1 DEF AskPage
        <4>2. Cardinality(Matches) = 0
          BY <4>1, FS_EmptySet DEF Matches, Matching
        <4>3. walk.page \in Nat \ {0}
          BY <1>2
        <4>4. ShownBefore(walk.page) \in Nat
          BY <4>3, ShownGrows
        <4>5. Len(walk.listed) = IF ShownBefore(walk.page) < 0 THEN ShownBefore(walk.page) ELSE 0
          BY <3>3, <4>2
        <4> QED  BY <4>2, <4>4, <4>5
      <3> QED  BY <1>1, <1>3, <1>4, <3>2, <3>3, <3>4 DEF PagesAreABeginning, Place, Before
    <2>2. CASE ReadSnapshots
      <3>1. quiet /\ ReadsAreCurrent /\ PagesAreABeginning
        BY <1>8, <2>2 DEF ReadSnapshots, FleetInv
      <3>2. ReadsAreCurrent' /\ walk'.over = walk.over
        BY <1>1, <1>2, <2>2, <3>1 DEF ReadSnapshots, ReadsAreCurrent
      <3> QED  BY <1>1, <1>3, <1>4, <3>1, <3>2 DEF PagesAreABeginning, Place, Before
    <2>3. CASE ReadMatches
      <3>1. quiet /\ ReadsAreCurrent /\ PagesAreABeginning
        BY <1>8, <2>3 DEF ReadMatches, FleetInv
      <3>2. ReadsAreCurrent' /\ walk'.over = walk.over
        BY <1>1, <1>2, <2>3, <3>1 DEF ReadMatches, ReadsAreCurrent
      <3> QED  BY <1>1, <1>3, <1>4, <3>1, <3>2 DEF PagesAreABeginning, Place, Before
    <2> QED  BY <2>1, <2>2, <2>3
  <1> QED  BY <1>1, <1>6, <1>7, <1>8 DEF FleetInv, DetailIsOneSnapshot

(* The detail of a host: both reads are of one transaction.                *)
LEMMA DetailReads ==
    ASSUME FleetInv, ReadSessions \/ \E h \in FleetHosts : OpenDetail(h)
    PROVE  FleetInv'
  <1> USE FleetAssumption
  <1>1. FleetTypeOK /\ UNCHANGED <<known, snaps, ask, walk, writes, quiet>>
    BY DEF FleetInv, ReadSessions, OpenDetail
  <1>2. /\ detail \in [step : {"none", "rows", "done"}, host : 0..Last,
                       count : -1..MaxCount, snap : Row, total : -1..MaxCount]
        /\ snaps \in [FleetHosts -> Row]
    BY <1>1 DEF FleetTypeOK
  <1>3. /\ detail' \in [step : {"none", "rows", "done"}, host : 0..Last,
                        count : -1..MaxCount, snap : Row, total : -1..MaxCount]
        /\ detail'.step = "rows" => detail'.snap.count = detail'.count
        /\ detail'.step = "done" => detail'.total = detail'.count
    <2>1. ASSUME NEW h \in FleetHosts, OpenDetail(h)
          PROVE  /\ detail' \in [step : {"none", "rows", "done"}, host : 0..Last,
                        count : -1..MaxCount, snap : Row, total : -1..MaxCount]
                 /\ detail'.step = "rows" /\ detail'.snap.count = detail'.count
      <3>1. h \in 0..Last /\ snaps[h] \in Row /\ snaps[h].count \in -1..MaxCount /\ -1 \in -1..MaxCount
        BY <1>2 DEF FleetHosts, Row
      <3> QED  BY <2>1, <3>1 DEF OpenDetail
    <2>2. CASE ReadSessions
      <3>1. detail.step = "rows" /\ detail.snap.count = detail.count /\ detail.snap.count \in -1..MaxCount
        BY <1>2, <2>2 DEF ReadSessions, FleetInv, Row
      <3>2. detail' = [detail EXCEPT !.step = "done", !.total = detail.snap.count]
        BY <2>2 DEF ReadSessions, ReadIn
      <3> QED  BY <1>2, <3>1, <3>2
    <2> QED  BY <2>1, <2>2
  <1>4. FleetTypeOK'
    BY <1>1, <1>3 DEF FleetTypeOK
  <1>5. quiet => ReadsAreCurrent' /\ PagesAreABeginning'
    BY <1>1, ZenonT(30) DEF FleetInv, ReadsAreCurrent, PagesAreABeginning, Matches, Matching, Place, Before
  <1> QED  BY <1>1, <1>3, <1>4, <1>5 DEF FleetInv, DetailIsOneSnapshot

(* The pages of a fleet that stands still are the pages of one list, for   *)
(* any fleet, page size, query and order of the sort, and a detail is of   *)
(* one snapshot (handleSessionsFleet, sortFleet, Detail).                  *)
THEOREM PagesAreOfOneList == FleetSpec => []FleetReadsTrue
  <1>1. FleetInv /\ [FleetNext]_fleetVars => FleetInv'
    <2> SUFFICES ASSUME FleetInv, [FleetNext]_fleetVars PROVE FleetInv'
      OBVIOUS
    <2>1. CASE UNCHANGED fleetVars
      BY <2>1, ZenonT(30) DEF fleetVars, FleetInv, FleetTypeOK, ReadsAreCurrent, PagesAreABeginning, Matches,
                  Matching, Place, Before, DetailIsOneSnapshot
    <2> QED  BY <2>1, FleetChanges, FleetReads, PageStep, DetailReads DEF FleetNext
  <1>2. FleetInv => FleetReadsTrue
    <2> SUFFICES ASSUME FleetInv, quiet PROVE PagesPartition
      BY DEF FleetInv, FleetReadsTrue, PagesPartition
    <2>1. /\ FleetTypeOK /\ PagesAreABeginning /\ Matches \in SUBSET FleetHosts
      BY DEF FleetInv, Matches, Matching, FleetTypeOK
    <2>2. walk.listed \in Seq(FleetHosts) /\ snaps \in [FleetHosts -> Row]
      BY <2>1 DEF FleetTypeOK
    <2>3. \A i, j \in DOMAIN walk.listed : walk.listed[i] = walk.listed[j] => i = j
      BY <2>1 DEF PagesAreABeginning
    <2>4. ASSUME walk.over PROVE {walk.listed[i] : i \in DOMAIN walk.listed} = Matches
      <3> DEFINE D == DOMAIN walk.listed
                 seen == {walk.listed[i] : i \in D}
                 f == [i \in D |-> walk.listed[i]]
      <3>1. seen \subseteq Matches
        BY <2>1 DEF PagesAreABeginning
      <3>2. D = 1..Cardinality(Matches) /\ IsFiniteSet(Matches) /\ Cardinality(Matches) \in Nat
        BY <2>1, <2>2, <2>4, HostsAreFinite DEF PagesAreABeginning
      <3>3. IsFiniteSet(D) /\ Cardinality(D) = Cardinality(Matches)
        BY <3>2, FS_Interval
      <3>4. f \in Bijection(D, seen)
        BY <2>3 DEF Bijection, Injection, Surjection, IsInjective
      <3> HIDE DEF D, seen, f
      <3>5. Cardinality(seen) = Cardinality(Matches)
        BY <3>3, <3>4, FS_Bijection DEF ExistsBijection
      <3>6. seen = Matches
        BY <3>1, <3>2, <3>5, FS_Subset
      <3> QED  BY <3>6 DEF seen, D
    <2> QED  BY <2>3, <2>4 DEF PagesPartition, Matches
  <1> QED  BY <1>1, <1>2, FleetStarts, PTL DEF FleetSpec

(***************************************************************************)
(* The database from its opening to its closing, and the import of the     *)
(* older history, for any file, chunk, crashes and power losses.           *)
(***************************************************************************)

(* A database has these columns, whatever is in them.                      *)
HasColumns(d) ==
    d = [rows |-> d.rows, offset |-> d.offset, skipped |-> d.skipped,
         migrated |-> d.migrated, job |-> d.job, live |-> d.live]

BrokenTo(n) == {i \in 1..n : lines[i].kind = "broken"}

(* A database that says of the file what has been read of it: up to the    *)
(* checkpoint every transition has its row and every broken line is        *)
(* counted.                                                                *)
TrueToFile(d) ==
    /\ HasColumns(d)
    /\ d.offset \in 0..Len(lines)
    /\ d.skipped = Cardinality(BrokenTo(d.offset))
    /\ \A i \in 1..d.offset : lines[i].kind = "change" => \E r \in d.rows : r.line = i

(* So is every state a power loss may go back to, for a chunk is one       *)
(* transaction; the import goes on counting from the last.                 *)
ImportIsTrue ==
    /\ db \in survivors /\ \A d \in survivors : TrueToFile(d)
    /\ service.stage = "importing" => service.skipped = db.skipped
    /\ intact /\ jsonl = "backup" => db.offset = Len(lines)

(* Without a log the main file is the whole database, and only a power     *)
(* loss, which ends the reader, leaves a log without its index.            *)
SidecarsAreTrue ==
    /\ service.stage # "off" => wal
    /\ ~wal => main = db /\ survivors = {db}
    /\ wal /\ ~shm => reader.stage = "none"

AuditShapes ==
    /\ lines \in LegacyFiles
    /\ service = [stage |-> service.stage, found |-> service.found,
                  last |-> service.last, skipped |-> service.skipped]
    /\ reader = [stage |-> reader.stage, got |-> reader.got]

AuditInv == AuditShapes /\ ImportIsTrue /\ SidecarsAreTrue

(* The legacy file is a sequence.                                          *)
LEMMA LinesAre ==
    ASSUME lines \in LegacyFiles
    PROVE  /\ Len(lines) \in Nat /\ DOMAIN lines = 1..Len(lines)
  <1>1. PICK n \in 0..MaxLines : lines \in [1..n -> [kind : JobKinds, mode : RowModes]]
    BY DEF LegacyFiles
  <1>2. n \in Nat
    BY AuditAssumption
  <1>3. lines \in Seq([kind : JobKinds, mode : RowModes])
    <2> DEFINE S == [kind : JobKinds, mode : RowModes]
    <2> HIDE DEF S
    <2>1. lines \in [1..n -> S]
      BY <1>1 DEF S
    <2>2. Seq(S) = UNION {[1..k -> S] : k \in Nat}
      BY SeqDef
    <2>3. lines \in Seq(S)
      BY <1>2, <2>1, <2>2
    <2> QED  BY <2>3 DEF S
  <1> QED  BY <1>3, LenProperties

(* What a commit of other columns keeps.                                   *)
LEMMA OtherColumns ==
    ASSUME NEW d, NEW e, TrueToFile(d), HasColumns(e), e.rows = d.rows, e.offset = d.offset,
           e.skipped = d.skipped
    PROVE  TrueToFile(e)
  BY DEF TrueToFile

LEMMA ColumnsSet ==
    ASSUME NEW d, HasColumns(d), NEW v
    PROVE  /\ LET e == [d EXCEPT !.migrated = v]
              IN  HasColumns(e) /\ e.rows = d.rows /\ e.offset = d.offset /\ e.skipped = d.skipped
           /\ LET e == [d EXCEPT !.job = v]
              IN  HasColumns(e) /\ e.rows = d.rows /\ e.offset = d.offset /\ e.skipped = d.skipped
           /\ LET e == [d EXCEPT !.live = v]
              IN  HasColumns(e) /\ e.rows = d.rows /\ e.offset = d.offset /\ e.skipped = d.skipped
  BY DEF HasColumns

(* The broken lines of a chunk are counted on top of those before it.      *)
LEMMA BrokenAdd ==
    ASSUME NEW n \in Nat, NEW k \in Nat, n <= k
    PROVE  Cardinality(BrokenTo(k)) =
             Cardinality(BrokenTo(n)) + Cardinality({i \in n + 1 .. k : lines[i].kind = "broken"})
  <1> DEFINE more == {i \in n + 1 .. k : lines[i].kind = "broken"}
  <1>1. IsFiniteSet(1..n) /\ IsFiniteSet(n + 1 .. k)
    BY FS_Interval
  <1>2. IsFiniteSet(BrokenTo(n)) /\ IsFiniteSet(more)
    <2>1. BrokenTo(n) \subseteq 1..n /\ more \subseteq n + 1 .. k
      BY DEF BrokenTo
    <2> QED  BY <1>1, <2>1, FS_Subset
  <1>3. BrokenTo(k) = BrokenTo(n) \union more
    BY DEF BrokenTo
  <1>4. BrokenTo(n) \cap more = {}
    BY DEF BrokenTo
  <1> HIDE DEF more
  <1>5. Cardinality(BrokenTo(n) \cup more) =
          Cardinality(BrokenTo(n)) + Cardinality(more) - Cardinality(BrokenTo(n) \cap more)
    BY <1>2, FS_Union
  <1>6. Cardinality(BrokenTo(n) \cap more) = 0
    BY <1>4, FS_EmptySet
  <1>7. Cardinality(BrokenTo(n)) \in Nat /\ Cardinality(more) \in Nat
    BY <1>2, FS_CardinalityType
  <1> QED  BY <1>3, <1>5, <1>6, <1>7 DEF more

(* A flush leaves a database that is true to the file.                     *)
LEMMA ChunkIsTrue ==
    ASSUME AuditInv, ImportChunk
    PROVE  /\ TrueToFile(db') /\ db'.offset > db.offset
           /\ service'.skipped = db'.skipped
           /\ survivors' = survivors \union {db'}
  <1> DEFINE from == db.offset
             to == ChunkEnd(from)
             chunk == from + 1 .. to
             skipped == service.skipped
                          + Cardinality({i \in chunk : lines[i].kind = "broken"})
             new == {[line |-> i, prev |-> StateBefore(i, from, service.last)] :
                        i \in {j \in chunk : lines[j].kind = "change"}}
             inTable == {r.line : r \in db.rows}
             allRows == db.rows \union {r \in new : r.line \notin inTable}
  <1>1. /\ service.stage = "importing" /\ to > from
        /\ db' = [[db EXCEPT !.rows = allRows] EXCEPT !.offset = to, !.skipped = skipped]
        /\ survivors' = survivors \union {db'}
        /\ service' = [service EXCEPT !.last = StateBefore(to + 1, from, @),
                                      !.skipped = skipped]
    BY DEF ImportChunk, Commit, Checkpoint
  <1>2. /\ TrueToFile(db) /\ service.skipped = db.skipped
        /\ service = [stage |-> service.stage, found |-> service.found,
                      last |-> service.last, skipped |-> service.skipped]
    BY <1>1 DEF AuditInv, AuditShapes, ImportIsTrue
  <1>3. Len(lines) \in Nat /\ from \in Nat /\ from <= Len(lines)
    BY <1>2, LinesAre DEF AuditInv, AuditShapes, TrueToFile
  <1>4. to \in Nat /\ to <= Len(lines)
    BY <1>3, AuditAssumption DEF ChunkEnd
  <1>5. HasColumns(db)
    BY <1>2 DEF TrueToFile
  <1>6. \A i \in chunk : lines[i].kind = "change" => \E r \in allRows : r.line = i
    <2> SUFFICES ASSUME NEW i \in chunk, lines[i].kind = "change"
                 PROVE  \E r \in allRows : r.line = i
      OBVIOUS
    <2>1. CASE i \in inTable
      BY <2>1
    <2>2. CASE i \notin inTable
      <3> DEFINE r == [line |-> i, prev |-> StateBefore(i, from, service.last)]
      <3>1. r \in new /\ r.line = i
        OBVIOUS
      <3> QED  BY <2>2, <3>1
    <2> QED  BY <2>1, <2>2
  <1> HIDE DEF to, allRows, skipped, new
  <1>7. HasColumns(db') /\ db'.rows = allRows /\ db'.offset = to /\ db'.skipped = skipped
    BY <1>1, <1>5 DEF HasColumns
  <1>8. skipped = Cardinality(BrokenTo(to))
    <2>1. db.skipped = Cardinality(BrokenTo(from))
      BY <1>2 DEF TrueToFile
    <2>2. Cardinality(BrokenTo(to)) = Cardinality(BrokenTo(from))
            + Cardinality({i \in from + 1 .. to : lines[i].kind = "broken"})
      BY <1>1, <1>3, <1>4, BrokenAdd
    <2> QED  BY <1>2, <2>1, <2>2 DEF skipped
  <1>9. \A i \in 1..to : lines[i].kind = "change" => \E r \in allRows : r.line = i
    <2> SUFFICES ASSUME NEW i \in 1..to, lines[i].kind = "change"
                 PROVE  \E r \in allRows : r.line = i
      OBVIOUS
    <2>1. CASE i \in 1..from
      BY <1>2, <2>1 DEF TrueToFile, allRows
    <2>2. CASE i \notin 1..from
      BY <1>3, <1>4, <1>6, <2>2
    <2> QED  BY <2>1, <2>2
  <1>10. TrueToFile(db')
    BY <1>3, <1>4, <1>7, <1>8, <1>9 DEF TrueToFile
  <1>11. service'.skipped = skipped
    BY <1>1, <1>2
  <1> QED  BY <1>1, <1>7, <1>10, <1>11

(* The steps of the import, and of whatever ends it.                       *)
LEMMA ImportStaysTrue ==
    ASSUME AuditInv, [AuditNext]_auditVars
    PROVE  AuditShapes' /\ ImportIsTrue'
  <1> DEFINE Keeps(e) == TrueToFile(e) /\ e.offset = db.offset /\ e.skipped = db.skipped
  <1>1. /\ AuditShapes /\ db \in survivors /\ \A d \in survivors : TrueToFile(d)
        /\ service.stage = "importing" => service.skipped = db.skipped
        /\ intact /\ jsonl = "backup" => db.offset = Len(lines)
    BY DEF AuditInv, ImportIsTrue
  <1>2. HasColumns(db) /\ TrueToFile(db)
    BY <1>1 DEF TrueToFile
  <1>3. lines' = lines
    BY DEF AuditNext, auditVars, Open, StartFails, AlreadyMigrated, NothingToImport, BeginImport,
           ImportChunk, RenameFile, MarkMigrated, RecordJob, AppendLive, WALCheckpoint,
           HoldoffEnds, CloseService, KillService, PowerLoss, CheckSidecars, OpenReadOnly,
           CloseReader
  <1>4. ASSUME NEW d, TrueToFile(d) PROVE TrueToFile(d)'
    BY <1>3, <1>4 DEF TrueToFile, HasColumns, BrokenTo
  <1>5. ASSUME NEW v
        PROVE  /\ Keeps([db EXCEPT !.migrated = v]) /\ Keeps([db EXCEPT !.job = v])
               /\ Keeps([db EXCEPT !.live = v]) /\ Keeps(db)
    BY <1>2, ColumnsSet, OtherColumns
  <1> HIDE DEF Keeps
  <1>6. AuditShapes'
    <2>1. service' = [stage |-> service'.stage, found |-> service'.found,
                      last |-> service'.last, skipped |-> service'.skipped]
      BY <1>1 DEF AuditShapes, AuditNext, auditVars, Open, StartFails, AlreadyMigrated,
           NothingToImport, BeginImport, ImportChunk, RenameFile, MarkMigrated, RecordJob,
           AppendLive, WALCheckpoint, HoldoffEnds, CloseService, KillService, PowerLoss,
           CheckSidecars, OpenReadOnly, CloseReader, Off
    <2>2. reader' = [stage |-> reader'.stage, got |-> reader'.got]
      BY <1>1 DEF AuditShapes, AuditNext, auditVars, Open, StartFails, AlreadyMigrated,
           NothingToImport, BeginImport, ImportChunk, RenameFile, MarkMigrated, RecordJob,
           AppendLive, WALCheckpoint, HoldoffEnds, CloseService, KillService, PowerLoss,
           CheckSidecars, OpenReadOnly, CloseReader, NoReader
    <2>3. lines' \in LegacyFiles
      BY <1>1, <1>3 DEF AuditShapes
    <2>4. LegacyFiles' = LegacyFiles
      OBVIOUS
    <2> QED  BY <2>1, <2>2, <2>3 DEF AuditShapes
  (* A step that keeps what the database says of the file, or is said by a   *)
  (* state a power loss may leave.                                           *)
  <1>7. ASSUME Keeps(db'), db' \in survivors', survivors' \subseteq survivors \union {db'},
               service'.stage = "importing" =>
                   (service.stage = "importing" /\ service'.skipped = service.skipped)
                     \/ service'.skipped = db.skipped,
               intact' => intact,
               jsonl' = jsonl \/ (jsonl' = "backup" /\ db.offset = Len(lines))
        PROVE  ImportIsTrue'
    <2>1. TrueToFile(db') /\ db'.offset = db.offset /\ db'.skipped = db.skipped
      BY <1>7 DEF Keeps
    <2>2. \A d \in survivors' : TrueToFile(d)
      BY <1>1, <1>7, <2>1
    <2>3. \A d \in survivors' : TrueToFile(d)'
      BY <1>4, <2>2
    <2> QED  BY <1>1, <1>3, <1>7, <2>1, <2>3 DEF ImportIsTrue
  <1>8. CASE Open
    <2>1. PICK v : db' = [db EXCEPT !.migrated = v]
      BY <1>8 DEF Open, Commit
    <2>2. Keeps(db')
      BY <1>5, <2>1
    <2>3. survivors' = survivors \union {db'} /\ service'.stage = "opened"
      BY <1>1, <1>8 DEF Open, Commit, AuditShapes
    <2> QED  BY <1>6, <1>7, <1>8, <2>2, <2>3 DEF Open
  <1>9. CASE StartFails
    <2>1. PICK v : db' = db \/ db' = [db EXCEPT !.job = v]
      BY <1>9 DEF StartFails
    <2>2. Keeps(db')
      BY <1>5, <2>1
    <2>3. /\ db' \in survivors' /\ survivors' \subseteq survivors \union {db'}
          /\ service'.stage = "off"
      BY <1>9 DEF StartFails, Closed, Off
    <2> QED  BY <1>6, <1>7, <1>9, <2>2, <2>3 DEF StartFails
  <1>10. CASE AlreadyMigrated \/ NothingToImport \/ MarkMigrated \/ RecordJob
    <2>1. PICK v : db' = db \/ db' = [db EXCEPT !.job = v] \/ db' = [db EXCEPT !.migrated = v]
      BY <1>10 DEF AlreadyMigrated, NothingToImport, MarkMigrated, RecordJob, Commit
    <2>2. Keeps(db')
      BY <1>5, <2>1
    <2>3. /\ db' \in survivors' /\ survivors' \subseteq survivors \union {db'}
          /\ service'.stage # "importing" /\ intact' = intact /\ jsonl' = jsonl
      BY <1>1, <1>10 DEF AlreadyMigrated, NothingToImport, MarkMigrated, RecordJob, Commit,
                         AuditShapes, Off
    <2> QED  BY <1>6, <1>7, <2>2, <2>3
  <1>11. CASE BeginImport
    <2>1. Keeps(db') /\ service'.skipped = db.skipped
      BY <1>5, <1>11 DEF BeginImport
    <2> QED  BY <1>1, <1>6, <1>7, <1>11, <2>1 DEF BeginImport
  <1>12. CASE ImportChunk
    <2>1. /\ TrueToFile(db') /\ db'.offset > db.offset /\ service'.skipped = db'.skipped
          /\ survivors' = survivors \union {db'}
      BY <1>12, ChunkIsTrue
    <2>2. jsonl' = jsonl /\ intact' = intact
      BY <1>12 DEF ImportChunk
    <2>3. Len(lines) \in Nat /\ db.offset <= Len(lines) /\ db'.offset <= Len(lines)
          /\ db.offset \in Nat /\ db'.offset \in Nat
      BY <1>1, <1>2, <2>1, LinesAre DEF AuditShapes, TrueToFile
    <2>4. ~ (intact /\ jsonl = "backup")
      BY <1>1, <2>1, <2>3
    <2>5. \A d \in survivors' : TrueToFile(d)'
      BY <1>1, <1>4, <2>1
    <2> QED  BY <1>6, <2>1, <2>2, <2>4, <2>5 DEF ImportIsTrue
  <1>13. CASE RenameFile
    <2>1. Keeps(db') /\ service'.stage = "marking"
      BY <1>1, <1>5, <1>13 DEF RenameFile, AuditShapes
    <2>2. Len(lines) \in Nat /\ db.offset \in 0..Len(lines) /\ ChunkEnd(db.offset) = db.offset
      BY <1>1, <1>2, <1>13, LinesAre DEF AuditShapes, TrueToFile, RenameFile
    <2>3. db.offset = Len(lines)
      BY <2>2, AuditAssumption DEF ChunkEnd
    <2> QED  BY <1>1, <1>6, <1>7, <1>13, <2>1, <2>3 DEF RenameFile
  <1>14. CASE AppendLive
    <2>1. Keeps(db')
      BY <1>5, <1>14 DEF AppendLive, CommitFull
    <2> QED  BY <1>6, <1>7, <1>14, <2>1 DEF AppendLive, CommitFull
  <1>15. CASE WALCheckpoint \/ HoldoffEnds \/ CloseService \/ KillService
               \/ CheckSidecars \/ OpenReadOnly \/ CloseReader \/ UNCHANGED auditVars
    <2>1. Keeps(db') /\ db' = db
      BY <1>5, <1>15 DEF WALCheckpoint, HoldoffEnds, CloseService, KillService, CheckSidecars,
                         OpenReadOnly, CloseReader, auditVars
    <2>2. /\ db' \in survivors' /\ survivors' \subseteq survivors \union {db'}
          /\ service' = service \/ service'.stage = "off"
          /\ intact' = intact /\ jsonl' = jsonl
      <3>1. CASE WALCheckpoint
        <4>1. /\ survivors' = survivors \/ (main' = db /\ survivors' = {db})
              /\ service' = service /\ intact' = intact /\ jsonl' = jsonl
          BY <3>1 DEF WALCheckpoint
        <4> QED  BY <1>1, <2>1, <4>1
      <3>2. CASE CloseService
        <4>1. service'.stage = "off" /\ intact' = intact /\ jsonl' = jsonl
          BY <3>2 DEF CloseService, Off
        <4>2. survivors' = survivors \union {db'} \/ survivors' = {db'}
          BY <3>2 DEF CloseService, Closed
        <4> QED  BY <4>1, <4>2
      <3>3. CASE HoldoffEnds \/ KillService \/ CheckSidecars \/ OpenReadOnly \/ CloseReader
                   \/ UNCHANGED auditVars
        BY <1>1, <3>3 DEF HoldoffEnds, KillService, CheckSidecars, OpenReadOnly, CloseReader,
                          auditVars, Off
      <3> QED  BY <1>15, <3>1, <3>2, <3>3
    <2> QED  BY <1>6, <1>7, <2>1, <2>2
  <1>16. CASE PowerLoss
    <2>1. /\ db' \in survivors /\ survivors' = {db'} /\ service'.stage = "off"
          /\ intact' = (intact /\ db' = db) /\ jsonl' = jsonl
      BY <1>16 DEF PowerLoss, Off
    <2>2. \A d \in survivors' : TrueToFile(d)'
      BY <1>1, <1>4, <2>1
    <2> QED  BY <1>1, <1>3, <1>6, <2>1, <2>2 DEF ImportIsTrue
  <1> QED  BY <1>6, <1>8, <1>9, <1>10, <1>11, <1>12, <1>13, <1>14, <1>15, <1>16 DEF AuditNext

(* The two files beside the database.                                      *)
LEMMA SidecarsStayTrue ==
    ASSUME AuditInv, [AuditNext]_auditVars
    PROVE  SidecarsAreTrue'
  <1>1. /\ service.stage # "off" => wal
        /\ ~wal => main = db /\ survivors = {db}
        /\ wal /\ ~shm => reader.stage = "none"
        /\ db \in survivors /\ AuditShapes
    BY DEF AuditInv, SidecarsAreTrue, ImportIsTrue
  <1>2. CASE Open
    BY <1>1, <1>2 DEF Open, SidecarsAreTrue
  <1>3. CASE StartFails \/ CloseService
    <2>1. wal /\ service' = Off /\ reader' = reader /\ Closed
      BY <1>1, <1>3 DEF StartFails, CloseService
    <2> QED  BY <1>1, <2>1 DEF Closed, Off, SidecarsAreTrue
  <1>4. CASE \/ AlreadyMigrated \/ NothingToImport \/ BeginImport \/ ImportChunk \/ RenameFile
             \/ MarkMigrated \/ RecordJob \/ AppendLive \/ WALCheckpoint
    <2>1. wal /\ UNCHANGED <<wal, shm, reader>>
      BY <1>1, <1>4 DEF AlreadyMigrated, NothingToImport, BeginImport, ImportChunk, RenameFile,
                        MarkMigrated, RecordJob, AppendLive, WALCheckpoint
    <2> QED  BY <1>1, <2>1 DEF SidecarsAreTrue
  <1>5. CASE HoldoffEnds \/ KillService \/ UNCHANGED auditVars
    BY <1>1, <1>5 DEF HoldoffEnds, KillService, auditVars, Off, SidecarsAreTrue
  <1>6. CASE PowerLoss
    <2>1. /\ db' \in survivors /\ survivors' = {db'} /\ service'.stage = "off"
          /\ reader'.stage = "none" /\ wal' = wal /\ main' = main
      BY <1>6 DEF PowerLoss, Off, NoReader
    <2> QED  BY <1>1, <2>1 DEF SidecarsAreTrue
  <1>7. CASE CheckSidecars
    BY <1>1, <1>7 DEF CheckSidecars, Refused, SidecarsAreTrue
  <1>8. CASE OpenReadOnly
    <2>1. UNCHANGED <<wal, shm, main, db, survivors, service>> /\ reader.stage = "checked"
      BY <1>8 DEF OpenReadOnly
    <2> QED  BY <1>1, <2>1 DEF SidecarsAreTrue
  <1>9. CASE CloseReader
    BY <1>1, <1>9 DEF CloseReader, NoReader, SidecarsAreTrue
  <1> QED  BY <1>2, <1>3, <1>4, <1>5, <1>6, <1>7, <1>8, <1>9 DEF AuditNext

LEMMA AuditBegins == AuditInit => AuditInv
  <1> SUFFICES ASSUME AuditInit PROVE AuditInv
    OBVIOUS
  <1>1. AuditShapes
    BY DEF AuditInit, AuditShapes, Off, NoReader
  <1>2. TrueToFile(NoDb)
    <2>1. Len(lines) \in Nat
      BY <1>1, LinesAre DEF AuditShapes
    <2>2. BrokenTo(0) = {}
      BY DEF BrokenTo
    <2>3. HasColumns(NoDb) /\ NoDb.offset = 0 /\ NoDb.skipped = 0
      BY DEF HasColumns, NoDb
    <2>4. \A i \in 1..0 : FALSE
      OBVIOUS
    <2> QED  BY <2>1, <2>2, <2>3, <2>4, FS_EmptySet DEF TrueToFile
  <1>3. ImportIsTrue
    BY <1>2 DEF AuditInit, ImportIsTrue, Off
  <1>4. SidecarsAreTrue
    BY DEF AuditInit, SidecarsAreTrue, Off
  <1> QED  BY <1>1, <1>3, <1>4 DEF AuditInv

LEMMA AuditAlways == AuditSpec => []AuditInv
  <1>1. AuditInv /\ [AuditNext]_auditVars => AuditInv'
    BY ImportStaysTrue, SidecarsStayTrue DEF AuditInv
  <1> QED  BY <1>1, AuditBegins, PTL DEF AuditSpec

(* The history of older versions is in the table or still in its file, a   *)
(* broken line is counted once, and the command line reads what was        *)
(* committed, for any file, chunk, crashes and power losses                *)
(* (migrate_jsonl.go, validateReadOnlySidecars in db.go).                  *)
THEOREM HistoryStaysTrue == AuditSpec => HistoryIsTrue
  <1>1. AuditInv => HistoryIsKept
    <2> SUFFICES ASSUME AuditInv, intact, jsonl = "backup" PROVE Imported
      BY DEF HistoryIsKept
    <2>1. db.offset = Len(lines) /\ TrueToFile(db)
      BY DEF AuditInv, ImportIsTrue
    <2>2. DOMAIN lines = 1..Len(lines)
      BY LinesAre DEF AuditInv, AuditShapes
    <2> QED  BY <2>1, <2>2 DEF Imported, TrueToFile
  <1>2. AuditInv => BrokenCountedOnce
    BY DEF AuditInv, ImportIsTrue, TrueToFile, BrokenCountedOnce, BrokenTo
  <1>3. ASSUME AuditInv, [AuditNext]_auditVars
        PROVE  [(reader.stage = "checked" /\ reader'.stage = "open") => reader'.got = db]_auditVars
    <2> SUFFICES ASSUME reader.stage = "checked", reader'.stage = "open" PROVE reader'.got = db
      OBVIOUS
    <2>1. reader' # reader
      OBVIOUS
    <2>2. CASE OpenReadOnly
      BY <1>3, <2>2 DEF OpenReadOnly, AuditInv, SidecarsAreTrue
    <2>3. CASE CheckSidecars
      BY <2>3 DEF CheckSidecars
    <2>4. CASE CloseReader \/ PowerLoss
      <3>1. reader' = NoReader
        BY <2>4 DEF CloseReader, PowerLoss
      <3> QED  BY <3>1 DEF NoReader
    <2> QED  BY <1>3, <2>1, <2>2, <2>3, <2>4
             DEF AuditNext, auditVars, Open, StartFails, AlreadyMigrated, NothingToImport,
                 BeginImport, ImportChunk, RenameFile, MarkMigrated, RecordJob, AppendLive,
                 WALCheckpoint, HoldoffEnds, CloseService, KillService
  <1>4. AuditSpec => ReaderIsCurrent
    BY <1>3, AuditAlways, PTL DEF AuditSpec, ReaderIsCurrent
  <1> QED  BY <1>1, <1>2, <1>4, AuditAlways, PTL DEF HistoryIsTrue

=============================================================================
