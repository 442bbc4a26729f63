----------------------------- MODULE MCDashboard -----------------------------
(* Six parts of the dashboard that share no state: a behaviour is of one   *)
(* of them, which "part" names; the others stay as they started.           *)
EXTENDS Roster, LiveEvents, SignIn, SnapshotStore, ConfigFile, FleetView

VARIABLE part

dashVars ==
    <<vars, eventVars, signVars, snapshotVars, fileVars, fleetVars, part>>

DashInit ==
    /\ part \in {"roster", "events", "sign-in", "snapshots", "file", "fleet"}
    /\ Init /\ (part # "roster" => row = [h \in Hosts |-> NoServer])
    /\ EventsInit /\ SignInInit
    /\ SnapshotInit
    /\ part # "snapshots" => policy = CHOOSE p \in Privacies : TRUE
    /\ FileInit /\ (part # "file" => ~registry /\ disk = <<>>)
    /\ FleetInit
    /\ part # "fleet" => /\ known = {} /\ snaps = [h \in FleetHosts |-> NoRow]
                         /\ ask = [state |-> "all", search |-> FALSE, desc |-> FALSE]

DashNext ==
    \/ /\ part = "roster" /\ Next
       /\ UNCHANGED <<eventVars, signVars, snapshotVars, fileVars, fleetVars, part>>
    \/ /\ part = "events" /\ EventsNext
       /\ UNCHANGED <<vars, signVars, snapshotVars, fileVars, fleetVars, part>>
    \/ /\ part = "sign-in" /\ SignInNext
       /\ UNCHANGED <<vars, eventVars, snapshotVars, fileVars, fleetVars, part>>
    \/ /\ part = "snapshots" /\ SnapshotNext
       /\ UNCHANGED <<vars, eventVars, signVars, fileVars, fleetVars, part>>
    \/ /\ part = "file" /\ FileNext
       /\ UNCHANGED <<vars, eventVars, signVars, snapshotVars, fleetVars, part>>
    \/ /\ part = "fleet" /\ FleetNext
       /\ UNCHANGED <<vars, eventVars, signVars, snapshotVars, fileVars, part>>

DashSpec == DashInit /\ [][DashNext]_dashVars
=============================================================================
