----------------------------- MODULE ConfigFile -----------------------------
(* config.json and everything that writes it (config.go, the settings handlers *)
(* of the dashboard, the service's start, the command line).  There are two    *)
(* ways to write: a scoped updater loads, changes its own block and saves      *)
(* inside one named mutex (readModifyWrite); everything else loads the whole   *)
(* file in one critical section and saves the whole of its copy, later, in     *)
(* another (SaveConfig).                                                       *)
(*                                                                             *)
(* A configuration maps each block to the edit that wrote it: 0 for the        *)
(* default, 1 for a value migrated from the registry, and the number of an     *)
(* edit above that.  A writer is a request of the dashboard, a run of the      *)
(* command line, or the service's own start.  The service is elevated, a run   *)
(* of the command line may not be: what administrators alone may read or       *)
(* replace, it can neither read nor replace.                                   *)
EXTENDS Naturals, FiniteSets, Sequences

CONSTANTS
    SettingsRequests,       \* requests being served by the dashboard
    Commands,       \* command-line and library calls, each a process of its own
    Boot,           \* the start of the service
    MaxEdits,       \* bound: edits begun
    MaxFaults       \* bound: failed calls, timeouts and crashes

ASSUME FileAssumption == Boot \notin SettingsRequests \cup Commands

Writers == SettingsRequests \cup Commands \cup {Boot}
Blocks  == {"notify", "spike", "update", "sessions", "dashboard"}
Configs == [Blocks -> 0..(MaxEdits + 1)]

VARIABLES
    registry,       \* a configuration of the old, registry-based version exists
    disk,           \* << config.json >>, or << >> before it exists
    sealed,         \* config.json is readable by administrators only
    secured,        \* an elevated process has saved config.json
    temp,           \* the .tmp file: "none", "open" (inherited ACL) or "sealed"
    holder,         \* << writer holding the mutex >>, or << >>
    job,            \* what each writer is doing
    up,             \* the service: "down", "starting" or "up"
    edits, mishaps \* how many of each so far

fileVars == <<registry, disk, sealed, secured, temp, holder, job, up, edits, mishaps>>

-----------------------------------------------------------------------------
NoEdit == [plan |-> <<>>, edit |-> 0, names |-> {}, copy |-> <<>>, inside |-> "no",
           elevated |-> TRUE]

Default == [b \in Blocks |-> 0]
Migrated == [b \in Blocks |-> IF b \in {"notify", "dashboard"} THEN 1 ELSE 0]

Busy(w) == job[w].plan # <<>>
Step(w) == Head(job[w].plan)

(* The phases of a writer.  "load" reads the whole file, and "loadOrDefault" *)
(* takes the defaults when it cannot; "whole" saves the copy with its edit and *)
(* "restore" the copy as it is; a block's name is the scoped update of that    *)
(* block; "rewrite" is a scoped update that carries nothing; "policy" is the   *)
(* telemetry side of a sessions change.                                        *)
Loading(p) == p \in {"load", "loadOrDefault"}
Scoped(p) == p \in Blocks \cup {"rewrite"}
Writing(p) == Scoped(p) \/ p \in {"whole", "restore"}

(* handlePutSettings: the copy for a rollback, then one updater after another; *)
(* the first runs whether the request carries its fields or not.               *)
PutPlan(blocks) ==
    LET If(b) == IF b \in blocks THEN <<b>> ELSE <<>>
    IN  (IF "sessions" \in blocks THEN <<"load">> ELSE <<>>)
        \o <<IF "notify" \in blocks THEN "notify" ELSE "rewrite">>
        \o If("spike") \o If("update")
        \o (IF "sessions" \in blocks THEN <<"sessions", "policy">> ELSE <<>>)

(* The whole-file writers, with the blocks each means to change.               *)
NotifyCommand    == [names |-> {"notify"}, plan |-> <<"load", "whole">>]
NotifyLibrary    == [names |-> {"notify"}, plan |-> <<"load", "whole">>]
ReplaceNotify    == [names |-> {"notify"}, plan |-> <<"load", "whole">>]
ConfigureCommand == [names |-> {"notify", "dashboard"},
                     plan |-> <<"loadOrDefault", "whole">>]
DashboardCommand == [names |-> {"dashboard"}, plan |-> <<"load", "whole">>]
DashboardLibrary == [names |-> {"dashboard"}, plan |-> <<"load", "whole">>]
RegisterCommand  == [names |-> {"dashboard"}, plan |-> <<"load", "whole", "call", "whole">>]
CommandLine == {NotifyCommand, NotifyLibrary, ReplaceNotify, ConfigureCommand,
                DashboardCommand, DashboardLibrary, RegisterCommand}
InstallCertificate == [names |-> {"dashboard"}, plan |-> <<"dashboard">>]
AutoPin == [names |-> {"dashboard"}, plan |-> <<"load", "whole">>]
Startup == [names |-> {}, plan |-> <<"load", "whole">>]

(* The installer's config.json inherits the ACL of its directory, which lets   *)
(* users read; one saved by an elevated process does not.                      *)
FileInit ==
    /\ registry \in BOOLEAN
    /\ disk \in {<<>>, <<Default>>}
    /\ sealed \in BOOLEAN /\ (sealed => disk # <<>>) /\ secured = sealed
    /\ temp = "none" /\ holder = <<>>
    /\ job = [w \in Writers |-> NoEdit]
    /\ up = "down" /\ edits = 1 /\ mishaps = 0

-----------------------------------------------------------------------------
BeginEdit(w, o, elevated) ==
    /\ ~Busy(w) /\ edits <= MaxEdits
    /\ edits' = edits + 1
    /\ job' = [job EXCEPT ![w] =
                 [NoEdit EXCEPT !.plan = o.plan, !.names = o.names, !.edit = edits + 1,
                         !.elevated = elevated]]
    /\ UNCHANGED <<registry, disk, sealed, secured, temp, holder, mishaps>>

(* PUT /api/v1/settings with any of its blocks; a target added, changed or     *)
(* removed and an exclusion toggled are the same scoped update of the notify   *)
(* block as a PUT of that block alone.  The agent of the same process pins the *)
(* fingerprint of its dashboard.                                               *)
BeginRequest(w) ==
    /\ up = "up" /\ UNCHANGED up
    /\ \/ \E blocks \in SUBSET {"notify", "spike", "update", "sessions"} :
            BeginEdit(w, [names |-> blocks, plan |-> PutPlan(blocks)], TRUE)
       \/ BeginEdit(w, AutoPin, TRUE)

Command(w) ==
    /\ UNCHANGED up
    /\ \/ \E c \in CommandLine, elevated \in BOOLEAN : BeginEdit(w, c, elevated)
       \/ BeginEdit(w, InstallCertificate, TRUE)

StartService ==
    /\ up = "down"
    /\ up' = "starting"
    /\ job' = [job EXCEPT ![Boot] = [NoEdit EXCEPT !.plan = Startup.plan]]
    /\ UNCHANGED <<registry, disk, sealed, secured, temp, holder, edits, mishaps>>

(* What a writer does next; the service is up once its start has saved.        *)
Advanced(w) == [job[w] EXCEPT !.plan = Tail(@), !.inside = "no"]
UpAfter(w, plan) == IF w = Boot /\ plan = <<>> THEN "up" ELSE up

(* What a writer that is not elevated cannot get at.                           *)
Barred(w, restricted) == restricted /\ ~job[w].elevated

(* A call fails: for want of rights, or by one of the bounded mishaps.         *)
Fails(barred) ==
    IF barred THEN UNCHANGED mishaps
    ELSE mishaps < MaxFaults /\ mishaps' = mishaps + 1

(* loadConfigLocked.  A file that does not exist yet is made from the registry *)
(* or from the defaults, and restricted when an elevated process makes it; one *)
(* that exists keeps the ACL it has.                                           *)
Created == IF registry THEN Migrated ELSE Default
Content == IF disk = <<>> THEN Created ELSE disk[1]

CannotLoad(w) == Barred(w, sealed) \/ (disk = <<>> /\ Barred(w, temp = "sealed"))

Load(w) ==
    /\ Busy(w) /\ Loading(Step(w)) /\ holder = <<>> /\ ~CannotLoad(w)
    /\ disk' = <<Content>>
    /\ IF disk # <<>> THEN UNCHANGED <<sealed, secured, temp>>
       ELSE /\ sealed' = job[w].elevated /\ temp' = "none"
            /\ secured' = (secured \/ job[w].elevated)
    /\ job' = [job EXCEPT ![w] = [Advanced(w) EXCEPT !.copy = <<Content>>]]
    /\ UNCHANGED <<registry, holder, up, edits, mishaps>>

(* A writer gives up.  The start of the service goes on without the rewrite    *)
(* when it is the save that failed, and ends when it is the load.              *)
GivesUp(w) ==
    /\ job' = [job EXCEPT ![w] = NoEdit]
    /\ up' = IF w # Boot THEN up ELSE IF Step(w) = "load" THEN "down" ELSE "up"

(* "config unreadable; starting from defaults" (configure_cmd.go:28), which    *)
(* are then saved over the file that could not be read.                        *)
StartsFromDefaults(w) ==
    /\ job' = [job EXCEPT ![w] = [Advanced(w) EXCEPT !.copy = <<Default>>]]
    /\ UNCHANGED up

(* WaitForSingleObject ends after five seconds, or the read fails.             *)
LoadFails(w) ==
    /\ Busy(w) /\ (Loading(Step(w)) \/ (Writing(Step(w)) /\ job[w].inside = "no"))
    /\ Fails(Loading(Step(w)) /\ CannotLoad(w))
    /\ IF Step(w) = "loadOrDefault" THEN StartsFromDefaults(w) ELSE GivesUp(w)
    /\ UNCHANGED <<registry, disk, sealed, secured, temp, holder, edits>>

(* The sessions change of a request holds sessionPolicyMu to its end.          *)
PolicyFree(w) ==
    \A v \in Writers \ {w} :
        Busy(v) => ~(Step(v) = "policy" \/ (Step(v) = "sessions" /\ job[v].inside # "no"))

(* readModifyWrite changes what it has just loaded, SaveConfig saves a copy.   *)
(* Mutant: an updater changes the copy loaded before the lock.                 *)
Base_Copy(w) == IF job[w].copy # <<>> THEN job[w].copy[1] ELSE Content
Base(w) == IF Scoped(Step(w)) THEN Content ELSE job[w].copy[1]

Edited(w) ==
    LET p == Step(w)
        carried == CASE p = "whole"   -> job[w].names
                     [] p = "restore" -> {}
                     [] OTHER         -> {p}
    IN  [b \in Blocks |-> IF b \in carried THEN job[w].edit ELSE Base(w)[b]]

Enter(w) ==
    /\ Busy(w) /\ Writing(Step(w)) /\ job[w].inside = "no" /\ holder = <<>>
    /\ Step(w) = "sessions" => PolicyFree(w)
    /\ holder' = <<w>>
    /\ job' = [job EXCEPT ![w].inside = "held"]
    /\ UNCHANGED <<registry, disk, sealed, secured, temp, up, edits, mishaps>>

(* saveConfigToFileLocked: the temporary file, its ACL when the process is     *)
(* elevated, the rename.                                                       *)
Saving(w, at) == holder = <<w>> /\ job[w].inside = at

WriteTemp(w) ==
    /\ Saving(w, "held") /\ ~Barred(w, temp = "sealed")
    /\ temp' = IF temp = "sealed" THEN "sealed" ELSE "open"
    /\ job' = [job EXCEPT ![w].inside = "written"]
    /\ UNCHANGED <<registry, disk, sealed, secured, holder, up, edits, mishaps>>

SealTemp(w) ==
    /\ Saving(w, "written")
    /\ temp' = IF job[w].elevated THEN "sealed" ELSE temp
    /\ job' = [job EXCEPT ![w].inside = "closed"]
    /\ UNCHANGED <<registry, disk, sealed, secured, holder, up, edits, mishaps>>

(* Mutant: the rename does not wait for the ACL. *)
Renamable_Early(w) == Saving(w, "written") \/ Saving(w, "closed")
Renamable(w) == Saving(w, "closed")

(* The copy in memory is what was saved: RegisterCommand saves it once more.   *)
Rename(w) ==
    /\ Renamable(w) /\ ~Barred(w, sealed)
    /\ disk' = <<Edited(w)>> /\ sealed' = (temp = "sealed")
    /\ secured' = (secured \/ job[w].elevated)
    /\ temp' = "none" /\ holder' = <<>>
    /\ job' = [job EXCEPT ![w] =
                 [Advanced(w) EXCEPT !.copy = IF Step(w) = "whole" THEN <<Edited(w)>> ELSE @]]
    /\ up' = UpAfter(w, Tail(job[w].plan))
    /\ UNCHANGED <<registry, edits, mishaps>>

(* A save that fails removes what it has written and releases the mutex.       *)
SaveFails(w) ==
    /\ holder = <<w>>
    /\ Fails(Barred(w, IF job[w].inside = "held" THEN temp = "sealed" ELSE sealed))
    /\ temp' = IF job[w].inside = "held" THEN temp ELSE "none"
    /\ holder' = <<>>
    /\ GivesUp(w)
    /\ UNCHANGED <<registry, disk, sealed, secured, edits>>

(* The purge, cancellation or retention run a sessions change calls for.  When *)
(* it fails the handler saves the copy it took at the start of the request.    *)
ApplyPolicy(w) ==
    /\ Busy(w) /\ Step(w) = "policy"
    /\ job' = [job EXCEPT ![w] = Advanced(w)]
    /\ UNCHANGED <<registry, disk, sealed, secured, temp, holder, up, edits, mishaps>>

PolicyFails(w) ==
    /\ Busy(w) /\ Step(w) = "policy" /\ mishaps < MaxFaults
    /\ mishaps' = mishaps + 1
    /\ job' = [job EXCEPT ![w].plan = <<"restore">>]
    /\ UNCHANGED <<registry, disk, sealed, secured, temp, holder, up, edits>>

(* The dashboard answers the registration, or does not: either way the command *)
(* saves its copy again if it has a fingerprint to pin.                        *)
CallDashboard(w) ==
    /\ Busy(w) /\ Step(w) = "call"
    /\ \E pin \in BOOLEAN :
         job' = [job EXCEPT ![w] = IF pin THEN Advanced(w) ELSE NoEdit]
    /\ UNCHANGED <<registry, disk, sealed, secured, temp, holder, up, edits, mishaps>>

(* A process ends at any point: its mutex is abandoned, which the next waiter  *)
(* takes for acquired, and its temporary file stays.                           *)
Dies(ws) ==
    /\ mishaps < MaxFaults /\ mishaps' = mishaps + 1
    /\ job' = [w \in Writers |-> IF w \in ws THEN NoEdit ELSE job[w]]
    /\ holder' = IF \E w \in ws : holder = <<w>> THEN <<>> ELSE holder
    /\ UNCHANGED <<registry, disk, sealed, secured, temp, edits>>

CrashService == up # "down" /\ up' = "down" /\ Dies(SettingsRequests \cup {Boot})
CrashCommand(w) == Busy(w) /\ UNCHANGED up /\ Dies({w})

FileNext ==
    \/ StartService
    \/ CrashService
    \/ \E w \in SettingsRequests : BeginRequest(w)
    \/ \E w \in Commands : Command(w) \/ CrashCommand(w)
    \/ \E w \in Writers :
          \/ Load(w) \/ LoadFails(w)
          \/ Enter(w) \/ WriteTemp(w) \/ SealTemp(w) \/ Rename(w) \/ SaveFails(w)
          \/ ApplyPolicy(w) \/ PolicyFails(w) \/ CallDashboard(w)

FileSpec == FileInit /\ [][FileNext]_fileVars
-----------------------------------------------------------------------------
FileTypeOK ==
    /\ disk = <<>> \/ disk[1] \in Configs
    /\ sealed \in BOOLEAN /\ secured \in BOOLEAN /\ temp \in {"none", "open", "sealed"}
    /\ holder = <<>> \/ holder[1] \in Writers
    /\ \A w \in Writers :
         /\ job[w].inside \in {"no", "held", "written", "closed"}
         /\ job[w].inside # "no" <=> holder = <<w>>
         /\ job[w].copy = <<>> \/ job[w].copy[1] \in Configs
    /\ up \in {"down", "starting", "up"}

(* Once an elevated process has saved config.json, as the service does when it *)
(* starts, no user can read it and the secrets in it at any moment, whatever   *)
(* fails or crashes on the way and whoever saves it next (config.go:1154-1159: *)
(* the ACL goes on before the rename).                                         *)
FileIsSealed == secured => disk # <<>> /\ sealed

(* An update loses nobody else's edit: a block changes only by a writer that   *)
(* names it, or by a whole-file writer putting back its older copy.            *)
OnlyNamedBlocksChange ==
    [][\A b \in Blocks : disk # <<>> /\ disk'[1][b] # disk[1][b] =>
         \E w \in Writers : /\ holder = <<w>>
                            /\ Step(w) \in {b, "whole", "restore"}]_fileVars

(* "Absent fields (not present in the JSON body) are left unchanged"           *)
(* (handlers_settings.go:385): a request of the dashboard changes only the     *)
(* blocks it carries.  The code keeps this until a telemetry step fails: the   *)
(* rollback writes back every block as it was when the request began.          *)
AbsentFieldsAreLeft ==
    [][\A w \in SettingsRequests : \A b \in Blocks :
         disk # <<>> /\ holder = <<w>> /\ disk'[1][b] # disk[1][b] =>
           b \in job[w].names \/ Step(w) = "whole"]_fileVars
=============================================================================
