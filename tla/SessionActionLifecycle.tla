----------------------- MODULE SessionActionLifecycle -----------------------
(***************************************************************************)
(* What an operator may rely on for every remote session command, whatever *)
(* happens to messages, handlers and processes.  A command is opened once; *)
(* it is handed to its machine only while it is open; WTS is called for it *)
(* at most once, and only after it was handed; it is closed once, with an  *)
(* outcome that is true of the machine then and later; it may be forgotten *)
(* once it is closed.                                                      *)
(***************************************************************************)
EXTENDS Naturals

CONSTANT Actions

VARIABLES
    phase,   \* id -> "new", "open", an outcome, or "forgotten"
    handed,  \* ids given to their machine
    runs     \* id -> successful WTS calls

vars == <<phase, handed, runs>>

Outcomes == {"completed", "failed", "expired", "session_changed"}

Init ==
    /\ phase = [a \in Actions |-> "new"]
    /\ handed = {}
    /\ runs = [a \in Actions |-> 0]
-----------------------------------------------------------------------------
(* One step may concern several commands: an expiry closes all that are    *)
(* due, a response hands out a batch.  Each action is of one command.      *)

Keeps(a) == phase'[a] = phase[a] /\ runs'[a] = runs[a] /\ (a \in handed' <=> a \in handed)

Open(a) ==
    /\ phase[a] = "new" /\ phase'[a] = "open"
    /\ runs'[a] = runs[a] /\ (a \in handed' <=> a \in handed)

Hand(a) ==
    /\ phase[a] = "open" /\ phase'[a] = "open"
    /\ a \in handed'
    /\ runs'[a] = runs[a]

(* A command may still run after the operator was told that it expired or  *)
(* failed: it was on its way.  It may not once session_changed was told.   *)
Run(a) ==
    /\ a \in handed /\ a \in handed'
    /\ phase[a] \notin {"completed", "session_changed"} /\ phase'[a] = phase[a]
    /\ runs[a] = 0 /\ runs'[a] = 1

Finish(a) ==
    /\ phase[a] = "open" /\ phase'[a] \in Outcomes
    /\ phase'[a] = "completed" => runs[a] = 1
    /\ phase'[a] = "session_changed" => runs[a] = 0 /\ a \in handed
    /\ runs'[a] = runs[a] /\ (a \in handed' <=> a \in handed)

Forget(a) ==
    /\ phase[a] \in Outcomes /\ phase'[a] = "forgotten"
    /\ runs'[a] = runs[a] /\ (a \in handed' <=> a \in handed)

Next == \A a \in Actions : Keeps(a) \/ Open(a) \/ Hand(a) \/ Run(a) \/ Finish(a) \/ Forget(a)

Spec == Init /\ [][Next]_vars
=============================================================================
