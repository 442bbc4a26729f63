------------------------------ MODULE MCUpdates ------------------------------
(* The two halves of an update side by side: the command to update now on  *)
(* its way to an agent, and the updater of an agent. They share no state,  *)
(* so a behaviour is of one of them, which "part" names; the other half    *)
(* stays as it started.                                                    *)
EXTENDS ForceUpdate, Updater

VARIABLE part

partVars == <<vars, updaterVars, part>>

MCInit == part \in {"force", "updater"} /\ Init /\ UpdaterInit

MCNext ==
    \/ part = "force" /\ Next /\ UNCHANGED <<updaterVars, part>>
    \/ part = "updater" /\ UpdaterNext /\ UNCHANGED <<vars, part>>

MCSpec == MCInit /\ [][MCNext]_partVars

(* Whichever half runs is scheduled fairly; the other has nothing to do.   *)
MCFairSpec ==
    /\ MCSpec
    /\ part = "force" => Fairness
    /\ part = "updater" => UpdaterFairness
=============================================================================
