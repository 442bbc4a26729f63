------------------------- MODULE SessionPolicyProofs -------------------------
(***************************************************************************)
(* The policy mutex does its work for settings requests that come one at a *)
(* time: no command outlives the policy it was accepted under and no       *)
(* snapshot the visibility it was taken under, whatever else runs.  The    *)
(* run policy_race shows what the first assumption is for.  A policy       *)
(* changed in the file leaves nothing behind either, once the service has  *)
(* caught up with it.                                                      *)
(***************************************************************************)
EXTENDS MCSessionPolicyEdit, TLAPS

(* One settings request at a time, no change from outside the dashboard,   *)
(* and no crash or failed rollback inside the mutex.                       *)
OneWriter ==
    /\ \A s, t \in Slots : s = t
    /\ MaxEdits = 0
    /\ {"rollback", "crash"} \cap Faults = {}

(* The state of the one request: what it believes to have found is what it *)
(* found, and the file is what it wrote.                                   *)
Believes ==
    \A s \in Slots :
        /\ put[s].stage \in {"loaded"} => put[s].before = file
        /\ put[s].stage \in {"saved", "failed"} => put[s].before = put[s].found
        /\ put[s].stage = "saved" => file = put[s].next

(* The snapshot is of the policy in the file, or of the one a request has  *)
(* just replaced and will settle or restore.                               *)
Shown ==
    /\ mutex # "put" => snapshot \in {NoPolicy, file.vis}
    /\ \A s \in Inside : snapshot \in {NoPolicy, put[s].before.vis}
    /\ mutex \in {"ingest", "enqueue", "deliver"} => read = file

Uncrossed == crossed = {} /\ late = {}
PolicyInv == TypeOK /\ Believes /\ Shown /\ Uncrossed
-----------------------------------------------------------------------------
(* Settling a transition keeps types and leaves nothing open when actions  *)
(* or the visibility end.                                                  *)
LEMMA SettleTypes ==
    ASSUME TypeOK, NEW old \in Mixtures, NEW new \in Mixtures, Settle(old, new)
    PROVE  /\ snapshot' \in {snapshot, NoPolicy}
           /\ cmd' \in [Commands -> {"new", "active", "closed"}]
           /\ old.vis # new.vis => snapshot' = NoPolicy
           /\ Ends(old, new) => {c \in Commands : cmd'[c] = "active"} = {}
  BY DEF TypeOK, Settle, CancelOpen, Transition, VisibilityChanged, ActionsDisabled, Ends,
         Allowed, Mixtures

(* No request is inside the mutex while a handler or the loop can take it. *)
LEMMA FreeIsEmpty ==
    ASSUME TypeOK, mutex # "put"
    PROVE  Inside = {}
  BY DEF TypeOK

(* Type correctness of every step, for any number of requests and edits.   *)
LEMMA TypeStep ==
    ASSUME TypeOK, [Next]_vars
    PROVE  TypeOK'
<1> USE PolicyAssumption DEF PolicyAssumption
<1>1. ASSUME NEW s \in Slots, NEW p \in Policies, PutLoad(s, p) PROVE TypeOK'
  BY <1>1 DEF PutLoad, TypeOK, Inside, stored, serviceLoop, watch, history
<1>2. ASSUME NEW s \in Slots, PutSave(s) PROVE TypeOK'
  BY <1>2 DEF PutSave, Replace, TypeOK, Inside, serviceLoop, history
<1>3. ASSUME NEW s \in Slots, PutApply(s) PROVE TypeOK'
  <2> USE <1>3
  <2>1. put[s].before \in Mixtures /\ put[s].next \in Mixtures
    BY DEF TypeOK
  <2>2. snapshot' \in Visibilities \cup {NoPolicy} /\ cmd' \in [Commands -> {"new", "active", "closed"}]
    BY <2>1, SettleTypes DEF PutApply, TypeOK
  <2> QED
    BY <2>2 DEF PutApply, Release, NoPut, TypeOK, Inside, serviceLoop, watch
<1>4. ASSUME NEW s \in Slots, PutRollback(s) PROVE TypeOK'
  BY <1>4 DEF PutRollback, Release, NoPut, Replace, TypeOK, Inside, serviceLoop
<1>5. ASSUME NEW kind \in {"ingest", "enqueue", "deliver"}, Enter(kind) PROVE TypeOK'
  BY <1>5 DEF Enter, TypeOK, Inside, stored, serviceLoop, watch, history
<1>6. ASSUME Ingest PROVE TypeOK'
  BY <1>6 DEF Ingest, Leave, TypeOK, Inside, serviceLoop, watch, history, Visibilities
<1>7. ASSUME NEW c \in Commands, Enqueue(c) PROVE TypeOK'
  BY <1>7 DEF Enqueue, Leave, TypeOK, Inside, serviceLoop, watch, history
<1>8. ASSUME Deliver PROVE TypeOK'
  BY <1>8 DEF Deliver, Leave, TypeOK, Inside, serviceLoop, watch
<1>9. ASSUME Refuse PROVE TypeOK'
  BY <1>9 DEF Refuse, Leave, TypeOK, Inside, serviceLoop, watch, history
<1>10. ASSUME NEW c \in Commands, CloseCommand(c) PROVE TypeOK'
  BY <1>10 DEF CloseCommand, TypeOK, Inside, serviceLoop, watch, history
<1>11. ASSUME DropSnapshot PROVE TypeOK'
  BY <1>11 DEF DropSnapshot, TypeOK, Inside, serviceLoop, watch, history
<1>12. ASSUME NEW p \in Policies, Edit(p) PROVE TypeOK'
  BY <1>12 DEF Edit, Replace, TypeOK, Inside, serviceLoop, history
<1>13. ASSUME Detect \/ StartWatch PROVE TypeOK'
  BY <1>13 DEF Detect, StartWatch, TypeOK, Inside, stored, serviceLoop, history
<1>14. ASSUME ReloadRead PROVE TypeOK'
  <2>1. file \in Mixtures
    BY DEF TypeOK
  <2>2. reload' \in [stage : {"idle", "read", "merged"}, new : Mixtures]
    BY <1>14, <2>1 DEF ReloadRead, TypeOK
  <2> QED
    BY <1>14, <2>2 DEF ReloadRead, TypeOK, Inside, stored, history
<1>15. ASSUME ReloadMerge PROVE TypeOK'
  <2>1. remote' \in Policies \cup {NoPolicy} /\ reload.new \in Mixtures
    BY <1>15 DEF ReloadMerge, TypeOK
  <2>2. Merged(reload.new, remote') \in Mixtures
    BY <2>1 DEF Merged, Mixtures
  <2> QED
    BY <1>15, <2>1, <2>2 DEF ReloadMerge, TypeOK, Inside, stored, watch, history
<1>16. ASSUME NEW new \in Mixtures, Adopt(new)
       PROVE  /\ snapshot' \in Visibilities \cup {NoPolicy}
              /\ cmd' \in [Commands -> {"new", "active", "closed"}]
              /\ loop' \in Mixtures
  <2>1. loop \in Mixtures
    BY DEF TypeOK
  <2> QED
    BY <1>16, <2>1, SettleTypes DEF Adopt, TypeOK
<1>17. ASSUME ReloadAdopt PROVE TypeOK'
  <2>1. reload.new \in Mixtures
    BY DEF TypeOK
  <2> QED
    BY <1>17, <2>1, <1>16 DEF ReloadAdopt, Adopt, NoReload, TypeOK, Inside, watch, history
<1>18. ASSUME Fetch PROVE TypeOK'
  <2>1. [file EXCEPT !.allow = loop.allow] \in Mixtures
    BY DEF TypeOK, Mixtures
  <2> QED
    BY <1>18, <2>1, <1>16 DEF Fetch, Adopt, TypeOK, Inside, watch, history
<1>19. ASSUME Crash PROVE TypeOK'
  BY <1>19 DEF Crash, NoPut, NoReload, StillOpen, TypeOK, Inside, stored
<1>20. ASSUME UNCHANGED vars PROVE TypeOK'
  BY <1>20 DEF vars, stored, serviceLoop, watch, history, TypeOK, Inside
<1> QED
  BY <1>1, <1>2, <1>3, <1>4, <1>5, <1>6, <1>7, <1>8, <1>9, <1>10, <1>11, <1>12, <1>13,
     <1>14, <1>15, <1>17, <1>18, <1>19, <1>20
  DEF Next, PutStep, HandlerStep, ServiceStep

(* The initial state.                                                      *)
LEMMA InitTypes == Init => TypeOK
<1> SUFFICES ASSUME Init PROVE TypeOK
  OBVIOUS
<1>1. FirstPolicy \in Mixtures
  BY PolicyAssumption DEF PolicyAssumption
<1>2. reload \in [stage : {"idle", "read", "merged"}, new : Mixtures]
  BY <1>1 DEF Init, NoReload
<1>3. put \in [Slots -> [stage : {"idle", "loaded", "saved", "failed"},
                        before : Policies, next : Policies, found : Policies]]
  BY PolicyAssumption DEF PolicyAssumption, Init, NoPut
<1>4. Inside = {}
  BY DEF Init, NoPut, Inside
<1>5. FirstPolicy \in Policies /\ 0 \in 0..MaxPuts /\ 0 \in 0..MaxEdits
  BY PolicyAssumption DEF PolicyAssumption
<1>6. mutex = "free" /\ \A s, t \in Inside : s = t
  BY <1>4 DEF Init
<1> QED
  BY <1>1, <1>2, <1>3, <1>4, <1>5, <1>6 DEF Init, TypeOK

(* The variables keep their types, and at most one request is inside the   *)
(* mutex, for any number of requests, edits, faults and crashes.           *)
THEOREM PolicyTypes == Spec => []TypeOK
<1>1. TypeOK /\ [Next]_vars => TypeOK'
  BY TypeStep
<1> QED
  BY <1>1, InitTypes, PTL DEF Spec
-----------------------------------------------------------------------------
(* Adopting a policy in the service loop only ever takes the snapshot away *)
(* and touches nothing a request or a handler reads.                       *)
LEMMA AdoptKeeps ==
    ASSUME PolicyInv, TypeOK', NEW new \in Mixtures, Adopt(new)
    PROVE  PolicyInv'
<1>1. loop \in Mixtures
  BY DEF PolicyInv, TypeOK
<1>2. snapshot' \in {snapshot, NoPolicy}
  BY <1>1, SettleTypes DEF PolicyInv, Adopt
<1>3. Believes'
  BY DEF PolicyInv, Believes, Adopt
<1>4. Shown'
  BY <1>2 DEF PolicyInv, Shown, Inside, Adopt
<1>5. Uncrossed'
  BY DEF PolicyInv, Uncrossed, Adopt, history
<1> QED
  BY <1>3, <1>4, <1>5 DEF PolicyInv

(* A request that gives up the mutex with nothing open, or with the policy *)
(* it found still in the file, lets nothing cross.                         *)
LEMMA ReleaseKeeps ==
    ASSUME PolicyInv, NEW s \in Slots, \A t \in Slots : s = t, Release(s),
           UNCHANGED late,
           \/ Ends(put[s].found, file') = FALSE
           \/ {c \in Commands : cmd'[c] = "active"} = {},
           snapshot' \in {NoPolicy, file'.vis}
    PROVE  Believes' /\ Shown' /\ Uncrossed'
<1>1. put' = [put EXCEPT ![s] = NoPut] /\ mutex' = "free"
  BY DEF Release
<1>2. put'[s].stage = "idle" /\ Inside' = {}
  BY <1>1 DEF PolicyInv, TypeOK, NoPut, Inside
<1>3. Believes'
  BY <1>2 DEF Believes
<1>4. Shown'
  BY <1>1, <1>2 DEF Shown
<1>5. crossed' = {}
  BY DEF Release, PolicyInv, Uncrossed
<1> QED
  BY <1>3, <1>4, <1>5 DEF PolicyInv, Uncrossed

(* Every step of a settings request keeps the invariant.                   *)
LEMMA PutKeeps ==
    ASSUME OneWriter, PolicyInv, TypeOK', NEW s \in Slots, PutStep(s)
    PROVE  PolicyInv'
<1>1. \A t \in Slots : t = s
  BY DEF OneWriter
<1>2. put \in [Slots -> [stage : {"idle", "loaded", "saved", "failed"},
                        before : Policies, next : Policies, found : Policies]]
  BY DEF PolicyInv, TypeOK
<1>3. ASSUME NEW p \in Policies, PutLoad(s, p) PROVE Believes' /\ Shown' /\ Uncrossed'
  <2>1. put'[s].stage = "loaded" /\ put'[s].before = file /\ file' = file
    BY <1>2, <1>3 DEF PutLoad, stored
  <2>2. Inside = {} /\ Inside' = {}
    BY <1>1, <1>3, <2>1 DEF PutLoad, Inside
  <2> QED
    BY <1>1, <1>3, <2>1, <2>2
    DEF PutLoad, PolicyInv, Believes, Shown, Uncrossed, stored, history
<1>4. ASSUME PutSave(s) PROVE Believes' /\ Shown' /\ Uncrossed'
  <2>1. put[s].before = file /\ snapshot \in {NoPolicy, file.vis} /\ snapshot' = snapshot
    BY <1>4 DEF PutSave, PolicyInv, Believes, Shown
  <2>2. CASE file' = put[s].next /\ mutex' = "put"
             /\ put' = [put EXCEPT ![s].stage = "saved", ![s].found = file]
    <3>1. put'[s].stage = "saved" /\ put'[s].before = file /\ put'[s].found = file
          /\ put'[s].next = put[s].next
      BY <1>2, <2>1, <2>2
    <3> QED
      BY <1>1, <1>4, <2>1, <2>2, <3>1
      DEF PutSave, PolicyInv, Believes, Shown, Uncrossed, Inside, history
  <2>3. CASE put' = [put EXCEPT ![s].stage = "idle"] /\ UNCHANGED <<file, dirty, mutex>>
    <3>1. put'[s].stage = "idle"
      BY <1>2, <2>3
    <3> QED
      BY <1>1, <1>4, <2>1, <2>3, <3>1
      DEF PutSave, PolicyInv, Believes, Shown, Uncrossed, Inside, history
  <2> QED
    BY <1>4, <2>2, <2>3 DEF PutSave, Replace
<1>5. ASSUME PutApply(s) PROVE Believes' /\ Shown' /\ Uncrossed'
  <2> DEFINE old == put[s].before
             new == put[s].next
  <2>1. old \in Mixtures /\ new \in Mixtures
    BY <1>2, PolicyAssumption DEF PolicyAssumption
  <2>2. old = put[s].found /\ file = new /\ snapshot \in {NoPolicy, old.vis} /\ s \in Inside
    BY <1>5 DEF PutApply, PolicyInv, Believes, Shown, Inside
  <2>3. Settle(old, new) => /\ snapshot' \in {NoPolicy, new.vis} /\ snapshot' \in {NoPolicy, old.vis}
                            /\ Ends(old, new) => {c \in Commands : cmd'[c] = "active"} = {}
    BY <2>1, <2>2, SettleTypes DEF PolicyInv
  <2>4. CASE Settle(old, new) /\ UNCHANGED file /\ Release(s)
    <3>1. Ends(put[s].found, file') \in BOOLEAN
      BY <2>1, <2>2, <2>4 DEF Ends, Allowed, Mixtures
    <3> QED
      BY <1>1, <1>5, <2>2, <2>3, <2>4, <3>1, ReleaseKeeps DEF PutApply
  <2>5. CASE /\ Settle(old, new) \/ UNCHANGED <<snapshot, cmd>>
             /\ put' = [put EXCEPT ![s].stage = "failed"]
             /\ UNCHANGED <<file, mutex, crossed>>
    <3>1. /\ put'[s].stage = "failed" /\ put'[s].before = old /\ put'[s].found = put[s].found
      BY <1>2, <2>5
    <3>2. mutex = "put" /\ mutex' = "put"
      BY <2>2, <2>5 DEF PolicyInv, TypeOK
    <3>3. snapshot' \in {NoPolicy, old.vis}
      BY <2>2, <2>3, <2>5
    <3> QED
      BY <1>1, <1>5, <2>2, <2>5, <3>1, <3>2, <3>3
      DEF PutApply, PolicyInv, Believes, Shown, Uncrossed, Inside
  <2> QED
    BY <1>5, <2>4, <2>5 DEF PutApply
<1>6. ASSUME PutRollback(s) PROVE Believes' /\ Shown' /\ Uncrossed'
  <2>1. file' = put[s].before
    BY <1>6 DEF PutRollback, Replace, OneWriter
  <2>2. put[s].before = put[s].found /\ s \in Inside
    BY <1>6 DEF PutRollback, PolicyInv, Believes, Inside
  <2>3. Ends(put[s].found, file') = FALSE
    BY <2>1, <2>2 DEF Ends
  <2>4. snapshot' \in {NoPolicy, file'.vis}
    BY <1>6, <2>1, <2>2 DEF PutRollback, PolicyInv, Shown
  <2> QED
    BY <1>1, <1>6, <2>3, <2>4, ReleaseKeeps DEF PutRollback
<1> QED
  BY <1>3, <1>4, <1>5, <1>6 DEF PutStep, PolicyInv

(* The handlers under the mutex keep it: the policy they read is still the *)
(* one in the file when they act.                                          *)
LEMMA HandlersKeep ==
    ASSUME PolicyInv, TypeOK', HandlerStep
    PROVE  PolicyInv'
<1>1. ASSUME NEW kind \in {"ingest", "enqueue", "deliver"}, Enter(kind) PROVE PolicyInv'
  BY <1>1 DEF Enter, PolicyInv, Believes, Shown, Uncrossed, Inside, stored, history
<1>2. ASSUME Ingest PROVE PolicyInv'
  <2>1. snapshot' \in {NoPolicy, file.vis} /\ Inside = {}
    BY <1>2, FreeIsEmpty DEF Ingest, PolicyInv, Shown
  <2> QED
    BY <1>2, <2>1 DEF Ingest, Leave, PolicyInv, Believes, Shown, Uncrossed, Inside, history
<1>3. ASSUME Deliver PROVE PolicyInv'
  BY <1>3 DEF Deliver, Leave, PolicyInv, Believes, Shown, Uncrossed, Inside
<1>4. ASSUME Refuse PROVE PolicyInv'
  BY <1>4 DEF Refuse, Leave, PolicyInv, Believes, Shown, Uncrossed, Inside, history
<1>5. ASSUME DropSnapshot PROVE PolicyInv'
  BY <1>5 DEF DropSnapshot, PolicyInv, Believes, Shown, Uncrossed, Inside, history
<1>6. ASSUME NEW c \in Commands, Enqueue(c) \/ CloseCommand(c) PROVE PolicyInv'
  BY <1>6 DEF Enqueue, CloseCommand, Leave, PolicyInv, Believes, Shown, Uncrossed, Inside, history
<1> QED
  BY <1>1, <1>2, <1>3, <1>4, <1>5, <1>6 DEF HandlerStep

(* Every step keeps the invariant.                                         *)
LEMMA PolicyStep ==
    ASSUME OneWriter, PolicyInv, [Next]_vars
    PROVE  PolicyInv'
<1>1. TypeOK'
  BY TypeStep DEF PolicyInv
<1>2. CASE \E s \in Slots : PutStep(s)
  BY <1>1, <1>2, PutKeeps
<1>3. CASE HandlerStep
  BY <1>1, <1>3, HandlersKeep
<1>4. CASE \E p \in Policies : Edit(p)
  <2>1. edits = 0
    BY DEF PolicyInv, TypeOK, OneWriter
  <2> QED
    BY <1>4, <2>1 DEF Edit, OneWriter
<1>5. CASE Detect \/ ReloadRead \/ ReloadMerge
  BY <1>1, <1>5 DEF Detect, ReloadRead, ReloadMerge, PolicyInv, Believes, Shown, Uncrossed,
     Inside, stored, history
<1>6. CASE ReloadAdopt
  <2>1. reload.new \in Mixtures
    BY DEF PolicyInv, TypeOK
  <2> QED
    BY <1>1, <1>6, <2>1, AdoptKeeps DEF ReloadAdopt
<1>7. CASE Fetch
  <2>1. [file EXCEPT !.allow = loop.allow] \in Mixtures
    BY PolicyAssumption DEF PolicyAssumption, PolicyInv, TypeOK, Mixtures
  <2> QED
    BY <1>1, <1>7, <2>1, AdoptKeeps DEF Fetch
<1>8. CASE Crash
  BY <1>8 DEF Crash, OneWriter
<1>9. CASE StartWatch
  BY <1>1, <1>9 DEF StartWatch, PolicyInv, Believes, Shown, Uncrossed, Inside, stored, history
<1>10. CASE UNCHANGED vars
  BY <1>1, <1>10 DEF vars, PolicyInv, Believes, Shown, Uncrossed, Inside, stored, history
<1> QED
  BY <1>2, <1>3, <1>4, <1>5, <1>6, <1>7, <1>8, <1>9, <1>10 DEF Next, ServiceStep

(* The initial state satisfies the invariant.                              *)
LEMMA PolicyInit == Init => PolicyInv
  BY InitTypes DEF Init, NoPut, PolicyInv, Believes, Shown, Uncrossed, Inside

(* One settings request at a time leaves no command to cross a transition, *)
(* for every set of policies and commands and whichever write, purge,      *)
(* retention pass, load or fetch fails (server.go: "so no command crosses  *)
(* a policy transition").                                                  *)
THEOREM NothingCrosses ==
    ASSUME OneWriter
    PROVE  Spec => []NoCommandCrosses
<1>1. PolicyInv /\ [Next]_vars => PolicyInv'
  BY PolicyStep
<1>2. PolicyInv => NoCommandCrosses
  BY DEF PolicyInv, Uncrossed, NoCommandCrosses
<1> QED
  BY <1>1, <1>2, PolicyInit, PTL DEF Spec

(* Under the same assumptions the retained snapshot shows no more than the *)
(* policy in the file allows whenever the mutex is free.                   *)
THEOREM SnapshotsFollow ==
    ASSUME OneWriter
    PROVE  Spec => []SnapshotFollowsPolicy
<1>1. PolicyInv /\ [Next]_vars => PolicyInv'
  BY PolicyStep
<1>2. PolicyInv => SnapshotFollowsPolicy
  BY DEF PolicyInv, Shown, SnapshotFollowsPolicy
<1> QED
  BY <1>1, <1>2, PolicyInit, PTL DEF Spec
-----------------------------------------------------------------------------
(* Nobody writes the settings, and the service neither dies nor fails to   *)
(* store what a transition takes away.                                     *)
OnlyEditor == MaxPuts = 0 /\ {"crash", "transition"} \cap Faults = {}

(* A policy changed in the file waits for the service to see it.  The      *)
(* service compares with the policy it had, so a change is noticed only if *)
(* it is not undone before: every edit finds the last one taken over.      *)
EditsTakenOver == [][edits' # edits => loop = file]_vars

(* As long as the loop's policy is the file's, what is kept was accepted   *)
(* under it, and so is what a handler in the mutex is about to keep.  No   *)
(* command is open when neither of the two policies allows one.            *)
EditInv ==
    /\ file \in Mixtures /\ puts = 0
    /\ \A s \in Slots : put[s].stage = "idle"
    /\ loop.vis = file.vis =>
           /\ snapshot \in {NoPolicy, file.vis}
           /\ mutex = "ingest" => read.vis = file.vis
    /\ ~Allowed(loop) /\ ~Allowed(file) =>
           /\ StillOpen = {}
           /\ mutex = "enqueue" => ~Allowed(read)

(* What the steps of such a service come to.                               *)
Looking == UNCHANGED <<file, snapshot, cmd, loop, mutex, read, put, puts, edits>>
Adopting(new) ==
    /\ mutex = "free" \/ ~Transition(loop, new)
    /\ Settle(loop, new)
    /\ loop' = new
    /\ UNCHANGED <<file, mutex, read, put, puts, edits>>
Editing ==
    /\ loop = file /\ file' \in Policies /\ edits' = edits + 1
    /\ UNCHANGED <<snapshot, cmd, loop, mutex, read, put, puts>>
EditorStep == HandlerStep \/ Looking \/ (\E new : Adopting(new)) \/ Editing

(* Adopting a policy takes away what the old one accepted and the new one  *)
(* does not, and no handler is between its read and its write then.        *)
LEMMA AdoptingKeeps ==
    ASSUME EditInv, NEW new, Adopting(new)
    PROVE  EditInv'
<1>1. /\ snapshot' \in {snapshot, NoPolicy}
      /\ loop.vis # new.vis => snapshot' = NoPolicy /\ mutex = "free"
  BY DEF Adopting, Settle, Transition, VisibilityChanged
<1>2. /\ StillOpen = {} => StillOpen' = {}
      /\ Allowed(loop) /\ ~Allowed(new) => StillOpen' = {} /\ mutex = "free"
  BY DEF Adopting, Settle, Transition, ActionsDisabled, Allowed, CancelOpen, StillOpen
<1>3. loop' = new /\ UNCHANGED <<file, mutex, read, put, puts>>
  BY DEF Adopting
<1>4. CASE loop.vis = new.vis
  BY <1>1, <1>2, <1>3, <1>4 DEF EditInv, Allowed
<1>5. CASE loop.vis # new.vis
  <2>1. snapshot' = NoPolicy /\ mutex' = "free"
    BY <1>1, <1>3, <1>5
  <2> QED
    BY <1>2, <1>3, <2>1 DEF EditInv, Allowed
<1> QED
  BY <1>4, <1>5

LEMMA EditorKeeps ==
    ASSUME EditInv, EditorStep
    PROVE  EditInv'
<1>1. CASE Looking
  BY <1>1 DEF EditInv, Looking, StillOpen, Allowed
<1>2. CASE Editing
  BY <1>2, PolicyAssumption DEF EditInv, Editing, StillOpen, Allowed, PolicyAssumption
<1>3. ASSUME NEW kind \in {"ingest", "enqueue", "deliver"}, Enter(kind) PROVE EditInv'
  BY <1>3 DEF Enter, EditInv, stored, serviceLoop, StillOpen, Allowed
<1>4. CASE Ingest \/ Deliver \/ Refuse \/ DropSnapshot
  BY <1>4 DEF Ingest, Deliver, Refuse, DropSnapshot, Leave, EditInv, serviceLoop, StillOpen, Allowed
<1>5. ASSUME NEW c \in Commands, Enqueue(c) PROVE EditInv'
  BY <1>5 DEF Enqueue, Leave, EditInv, serviceLoop, Allowed
<1>6. ASSUME NEW c \in Commands, CloseCommand(c) PROVE EditInv'
  <2>1. StillOpen = {} => StillOpen' = {}
    BY <1>6 DEF CloseCommand, StillOpen
  <2> QED
    BY <1>6, <2>1 DEF CloseCommand, EditInv, serviceLoop, Allowed
<1>7. ASSUME NEW new, Adopting(new) PROVE EditInv'
  BY <1>7, AdoptingKeeps
<1> QED
  BY <1>1, <1>2, <1>3, <1>4, <1>5, <1>6, <1>7 DEF EditorStep, HandlerStep

LEMMA EditInit == Init => EditInv
  BY PolicyAssumption DEF PolicyAssumption, Init, EditInv, NoPut, StillOpen, Allowed

LEMMA EditClean == EditInv => SettledIsClean
  BY DEF EditInv, SettledIsClean, Settled

(* A policy changed in the file, by an editor or by drainctl, any number   *)
(* of times, leaves neither a snapshot nor a command behind that the file  *)
(* no longer allows, once the service has caught up with it, whichever     *)
(* loads and fetches fail and whichever handler was inside the mutex       *)
(* (service_loop.go:721-740).                                              *)
THEOREM EditsSettle ==
    ASSUME OnlyEditor
    PROVE  Spec /\ EditsTakenOver => []SettledIsClean
<1>1. ASSUME TypeOK, EditInv, [Next]_vars, [edits' # edits => loop = file]_vars PROVE EditInv'
  <2>1. ASSUME NEW s \in Slots, PutStep(s) PROVE FALSE
    BY <1>1, <2>1 DEF OnlyEditor, EditInv, PutStep, PutLoad, PutSave, PutApply, PutRollback
  <2>2. ASSUME NEW p \in Policies, Edit(p) PROVE Editing
    <3>1. edits \in Nat /\ edits' = edits + 1
      BY <1>1, <2>2, PolicyAssumption DEF Edit, TypeOK, PolicyAssumption
    <3>2. edits' # edits
      BY <3>1
    <3>3. UNCHANGED vars => edits' = edits
      BY DEF vars, stored, serviceLoop, watch, history
    <3>4. loop = file
      BY <1>1, <3>2, <3>3
    <3> QED
      BY <2>2, <3>4 DEF Edit, Editing, Replace, serviceLoop
  <2>3. ASSUME Detect \/ ReloadRead \/ ReloadMerge \/ StartWatch \/ UNCHANGED vars PROVE Looking
    <3>1. CASE UNCHANGED vars
      BY <3>1 DEF vars, Looking, stored, serviceLoop, watch, history
    <3>2. CASE Detect \/ ReloadRead \/ ReloadMerge \/ StartWatch
      BY <3>2 DEF Detect, ReloadRead, ReloadMerge, StartWatch, Looking, stored, serviceLoop, watch
    <3> QED
      BY <2>3, <3>1, <3>2
  <2>4. ASSUME NEW new, Adopt(new) PROVE Adopting(new)
    BY <2>4 DEF Adopt, Adopting, OnlyEditor
  <2>5. CASE ReloadAdopt
    BY <1>1, <2>4, <2>5, AdoptingKeeps DEF ReloadAdopt
  <2>6. CASE Fetch
    BY <1>1, <2>4, <2>6, AdoptingKeeps DEF Fetch
  <2>7. CASE Crash
    BY <2>7 DEF Crash, OnlyEditor
  <2> QED
    BY <1>1, <2>1, <2>2, <2>3, <2>5, <2>6, <2>7, EditorKeeps DEF Next, ServiceStep, EditorStep
<1> QED
  BY <1>1, EditInit, EditClean, PolicyTypes, PTL DEF Spec, EditsTakenOver

(* The one edit of the run's second setting finds nothing under way.       *)
FirstEdit ==
    /\ edits \in Nat
    /\ edits = 0 => loop = file /\ reload.stage = "idle" /\ ~dirty /\ ~event

LEMMA EditedStep ==
    ASSUME EditInv, FirstEdit, Edited!Next
    PROVE  EditorStep /\ FirstEdit'
<1> USE DEF FirstEdit
<1>1. ASSUME NEW s \in Slots, Edited!PutStep(s) PROVE FALSE
  BY <1>1 DEF EditInv, Edited!PutStep, Edited!PutLoad, Edited!PutSave, Edited!PutApply,
              Edited!PutRollback
<1>2. ASSUME Edited!HandlerStep PROVE HandlerStep /\ FirstEdit'
  BY <1>2 DEF HandlerStep, Enter, Ingest, Deliver, Refuse, DropSnapshot, Enqueue, CloseCommand,
              Leave, StillOpen, Allowed, stored, serviceLoop, watch, history,
              Edited!HandlerStep, Edited!Enter, Edited!Ingest, Edited!Deliver, Edited!Refuse,
              Edited!DropSnapshot, Edited!Enqueue, Edited!CloseCommand, Edited!Leave, Edited!StillOpen,
              Edited!Allowed, Edited!stored, Edited!serviceLoop, Edited!watch, Edited!history
<1>3. ASSUME NEW p \in Policies, Edited!Edit(p) PROVE Editing /\ FirstEdit'
  <2>1. edits = 0 /\ edits' = edits + 1 /\ edits' \in Nat /\ edits' # 0
    BY <1>3 DEF Edited!Edit
  <2> QED
    BY <1>3, <2>1 DEF Edited!Edit, Edited!Replace, Edited!serviceLoop, Editing
<1>4. CASE Edited!Detect \/ Edited!ReloadRead \/ Edited!ReloadMerge \/ Edited!StartWatch
  BY <1>4 DEF Edited!Detect, Edited!ReloadRead, Edited!ReloadMerge, Edited!StartWatch,
              Edited!stored, Edited!serviceLoop, Edited!watch, Looking, EditorStep
<1>5. ASSUME NEW new, Edited!Adopt(new) PROVE Adopting(new) /\ UNCHANGED <<dirty, event>>
  BY <1>5 DEF Edited!Adopt, Edited!Settle, Edited!Transition, Edited!VisibilityChanged,
              Edited!ActionsDisabled, Edited!CancelOpen, Edited!watch, Adopting, Settle,
              Transition, VisibilityChanged, ActionsDisabled, CancelOpen
<1>6. CASE Edited!Fetch
  <2> DEFINE new == [file EXCEPT !.allow = loop.allow]
  <2>1. loop = file => new = file
    BY DEF EditInv, Mixtures
  <2>2. Edited!Adopt(new) /\ UNCHANGED reload
    BY <1>6 DEF Edited!Fetch
  <2> HIDE DEF new
  <2>3. Adopting(new) /\ UNCHANGED <<dirty, event>>
    BY <1>5, <2>2
  <2>4. FirstEdit'
    BY <2>1, <2>2, <2>3 DEF Adopting
  <2> QED
    BY <2>3, <2>4 DEF EditorStep
<1>7. CASE Edited!ReloadAdopt
  <2>1. Adopting(reload.new) /\ UNCHANGED <<dirty, event>> /\ reload.stage = "merged"
    BY <1>5, <1>7 DEF Edited!ReloadAdopt
  <2>2. FirstEdit'
    BY <2>1 DEF Adopting
  <2> QED
    BY <2>1, <2>2 DEF EditorStep
<1>8. CASE Edited!Crash
  BY <1>8 DEF Edited!Crash
<1> QED
  BY <1>1, <1>2, <1>3, <1>4, <1>6, <1>7, <1>8 DEF Edited!Next, Edited!ServiceStep, EditorStep

(* The same of the setting in which nobody uses the dashboard and an       *)
(* editor changes the file once, for every policy there was before and     *)
(* every policy it is changed to (service_loop.go:721-740).                *)
THEOREM EditSettles == EitherSpec => []EditSettlesClean
<1> DEFINE SettingInv == setting = "edit" => EditInv /\ FirstEdit
<1>1. EitherInit => SettingInv
  <2>1. Edited!Init => Init
    BY DEF Edited!Init, Edited!NoPut, Edited!NoReload, Init, NoPut, NoReload
  <2>2. Init => FirstEdit
    BY DEF Init, NoReload, FirstEdit
  <2> QED
    BY <2>1, <2>2, EditInit DEF EitherInit
<1>2. ASSUME SettingInv, [EitherNext]_<<vars, setting>> PROVE SettingInv'
  <2> SUFFICES ASSUME setting' = "edit" PROVE (EditInv /\ FirstEdit)'
    OBVIOUS
  <2>1. setting = "edit" /\ (Edited!Next \/ UNCHANGED vars)
    BY <1>2 DEF EitherNext
  <2>2. CASE Edited!Next
    BY <1>2, <2>1, <2>2, EditedStep, EditorKeeps
  <2>3. CASE UNCHANGED vars
    BY <1>2, <2>1, <2>3, EditorKeeps
    DEF FirstEdit, EditorStep, Looking, vars, stored, serviceLoop, watch, history
  <2> QED
    BY <2>1, <2>2, <2>3
<1>3. SettingInv => EditSettlesClean
  BY EditClean DEF EditSettlesClean
<1> QED
  BY <1>1, <1>2, <1>3, PTL DEF EitherSpec
=============================================================================
