------------------------- MODULE MCSessionPolicyEdit -------------------------
EXTENDS MCSessionPolicy

(* Besides the setting that the constants give, one in which nobody uses   *)
(* the dashboard and an editor changes the file once.                      *)
VARIABLE setting

Edited == INSTANCE SessionPolicy WITH
    Faults <- {"fetch"}, MaxPuts <- 0, MaxEdits <- 1

EitherInit ==
    \/ setting = "requests" /\ Init
    \/ setting = "edit" /\ Edited!Init

EitherNext ==
    /\ \/ setting = "requests" /\ Next
       \/ setting = "edit" /\ Edited!Next
    /\ UNCHANGED setting

(* A step of Edited is one of the module with the other constants, which   *)
(* allow more of the requests and the faults, so one fairness is for both. *)
EitherSpec == EitherInit /\ [][EitherNext]_<<vars, setting>> /\ Fairness

(* SettledIsClean, of a change from outside the dashboard                  *)
(* (service_loop.go:721-740).                                              *)
EditSettlesClean == setting = "edit" => SettledIsClean
-----------------------------------------------------------------------------
(* One request at a time, of a service that starts with actions allowed or *)
(* with actions turned off.                                                *)
AfterOff == INSTANCE SessionPolicy WITH FirstPolicy <- MCOff

SerialInit ==
    \/ setting = "on" /\ Init
    \/ setting = "off" /\ AfterOff!Init

SerialNext ==
    /\ \/ setting = "on" /\ Next
       \/ setting = "off" /\ AfterOff!Next
    /\ UNCHANGED setting

SerialSpec == SerialInit /\ [][SerialNext]_<<vars, setting>>
=============================================================================
