---------------------------- MODULE AuditImport ----------------------------
(***************************************************************************)
(* The telemetry database from its opening to its closing, and the import  *)
(* of the transition history an older version left in audit.jsonl.  The    *)
(* import runs through the writer connection (synchronous = NORMAL), live  *)
(* audit rows through a connection of their own (synchronous = FULL), and  *)
(* the command line reads the same files while the service runs or is      *)
(* down.  One host; an audit row's columns other than its previous state   *)
(* are left out.                                                           *)
(*                                                                         *)
(* internal/telemetry/db.go, schema.go, migrate_jsonl.go,                  *)
(* migrate_sessions.go, audit.go, history.go, internal/svc/service_loop.go.*)
(***************************************************************************)
EXTENDS Integers, Sequences, FiniteSets

CONSTANTS
    ChunkLines,   \* migrationChunkLines
    MaxLines,     \* bound: lines of the legacy file
    MaxLive,      \* bound: live audit rows
    MaxTroubles   \* bound: crashes, power losses and failed calls

ASSUME AuditAssumption ==
    ChunkLines \in Nat \ {0} /\ {MaxLines, MaxLive, MaxTroubles} \subseteq Nat

VARIABLES
    lines,      \* the text of audit.jsonl
    jsonl,       \* where it is: "here", "backup" or "absent"
    db,         \* what a connection of the database sees
    survivors,  \* the states a power loss may leave of it
    main,       \* the part of it that is in drainctl.db itself
    wal, shm,   \* whether the two sidecar files exist
    truncated,  \* lastTruncateAt is recent
    service,    \* the process: where it is, and the import's tracker
    reader,     \* a `drainctl history` that found no pipe to ask
    troubles,
    intact      \* history: no power loss has undone a commit

auditVars == <<lines, jsonl, db, survivors, main, wal, shm, truncated, service,
               reader, troubles, intact>>

RowModes == {0, 1}
JobKinds == {"poll", "change", "broken"}
JobStages == {"off", "opened", "importing", "marking", "recording", "serving"}

\* An older service logged every poll and marked those that changed the mode.
Logged(s) ==
    \A i \in DOMAIN s : s[i].kind # "broken" =>
        LET earlier == {j \in 1 .. i - 1 : s[j].kind # "broken"}
        IN  \/ earlier = {}
            \/ LET last == CHOOSE j \in earlier : \A k \in earlier : k <= j
               IN  (s[i].kind = "change") <=> (s[i].mode # s[last].mode)

LegacyFiles ==
    {s \in UNION {[1..n -> [kind : JobKinds, mode : RowModes]] : n \in 0..MaxLines} :
        Logged(s) /\ \A i \in DOMAIN s : s[i].kind = "broken" => s[i].mode = 0}

Databases ==
    [rows : SUBSET [line : 1..MaxLines, prev : RowModes], offset : 0..MaxLines,
     skipped : 0..MaxLines, migrated : {"none", "false", "true"},
     job : {"none", "failure", "skipped", "success"}, live : 0..MaxLive]

AuditTypeOK ==
    /\ lines \in LegacyFiles /\ jsonl \in {"here", "backup", "absent"}
    /\ db \in Databases /\ main \in Databases
    /\ db \in survivors /\ survivors \subseteq Databases
    /\ wal \in BOOLEAN /\ shm \in BOOLEAN /\ truncated \in BOOLEAN
    /\ service \in [stage : JobStages, found : BOOLEAN, last : RowModes,
                   skipped : 0..MaxLines]
    /\ reader \in [stage : {"none", "checked", "open"}, got : Databases]
    /\ troubles \in 0..MaxTroubles /\ intact \in BOOLEAN

NoDb == [rows |-> {}, offset |-> 0, skipped |-> 0, migrated |-> "none",
         job |-> "none", live |-> 0]
Off == [stage |-> "off", found |-> FALSE, last |-> 0, skipped |-> 0]
NoReader == [stage |-> "none", got |-> NoDb]

AuditInit ==
    /\ lines \in LegacyFiles
    /\ jsonl \in {"here", "absent"} /\ (jsonl = "absent" => lines = <<>>)
    /\ db = NoDb /\ survivors = {NoDb} /\ main = NoDb
    /\ wal = FALSE /\ shm = FALSE /\ truncated = FALSE
    /\ service = Off /\ reader = NoReader
    /\ troubles = 0 /\ intact = TRUE

Trouble == troubles < MaxTroubles /\ troubles' = troubles + 1

\* A commit at synchronous = NORMAL is not flushed: a power loss may undo it
\* and any number of such commits before it.
Commit(d) == db' = d /\ survivors' = survivors \union {d}

\* At synchronous = FULL the log is flushed, with every commit before.
CommitFull(d) == db' = d /\ survivors' = {d}

\* The last connection that closes moves the log into the main file and
\* removes both sidecars; one held by a reader keeps them.
Closed ==
    IF reader.stage = "open"
    THEN survivors' = survivors \union {db'} /\ UNCHANGED <<main, wal, shm>>
    ELSE /\ main' = db' /\ survivors' = {db'}
         /\ wal' = FALSE /\ shm' \in {FALSE, shm}

----------------------------------------------------------------------------
\* Open: applySchema in one transaction and seedMeta, INSERT OR IGNORE.
Open ==
    /\ service.stage = "off"
    /\ service' = [service EXCEPT !.stage = "opened"]
    /\ Commit([db EXCEPT !.migrated = IF @ = "none" THEN "false" ELSE @])
    /\ wal' = TRUE /\ shm' = TRUE /\ truncated' = FALSE
    /\ UNCHANGED <<lines, jsonl, main, reader, troubles, intact>>

\* A step of Open or of the import fails: the service exits. The import's
\* deferred call writes the job's row first, unless that fails too.
StartFails ==
    /\ service.stage \in {"opened", "importing", "marking", "recording"} /\ Trouble
    /\ service' = Off
    /\ \/ db' = db
       \/ /\ service.stage # "recording"
          /\ db' = [db EXCEPT !.job = "failure"]
    /\ Closed
    /\ UNCHANGED <<lines, jsonl, truncated, reader, intact>>

\* The flag is set: a job row is only added where there is none, and the
\* service goes on without it if it cannot.
AlreadyMigrated ==
    /\ service.stage = "opened" /\ db.migrated = "true"
    /\ \/ /\ Commit([db EXCEPT !.job = IF @ = "none" THEN "success" ELSE @])
          /\ UNCHANGED troubles
       \/ Trouble /\ UNCHANGED <<db, survivors>>
    /\ service' = [service EXCEPT !.stage = "serving"]
    /\ UNCHANGED <<lines, jsonl, main, wal, shm, truncated, reader, intact>>

NothingToImport ==
    /\ service.stage = "opened" /\ db.migrated # "true" /\ jsonl # "here"
    /\ Commit([db EXCEPT !.migrated = "true"])
    /\ service' = [service EXCEPT !.stage = "recording"]
    /\ UNCHANGED <<lines, jsonl, main, wal, shm, truncated, reader, troubles, intact>>

Line(row) == lines[row.line]

\* latestNewStatePerHost: the newest row says the mode the tracker starts
\* from, a host without a row starts from zero.
Tracked(rows) ==
    IF rows = {} THEN 0
    ELSE Line(CHOOSE r \in rows : \A q \in rows : q.line <= r.line).mode

BeginImport ==
    /\ service.stage = "opened" /\ db.migrated # "true" /\ jsonl = "here"
    /\ service' = [stage |-> "importing", found |-> TRUE, skipped |-> db.skipped,
                   last |-> IF db.offset > 0 THEN Tracked(db.rows) ELSE 0]
    /\ UNCHANGED <<lines, jsonl, db, survivors, main, wal, shm, truncated,
                   reader, troubles, intact>>

\* The mode the tracker holds before line i, when it held `last` after line
\* `from`.
StateBefore(i, from, last) ==
    LET read == {j \in from + 1 .. i - 1 : lines[j].kind # "broken"}
    IN  IF read = {} THEN last
        ELSE lines[CHOOSE j \in read : \A k \in read : k <= j].mode

\* Where the next flush falls: after a whole chunk, or at the end of the file.
ChunkEnd(from) ==
    IF from + ChunkLines <= Len(lines) THEN from + ChunkLines ELSE Len(lines)

Checkpoint(d, to, skipped) == [d EXCEPT !.offset = to, !.skipped = skipped]

\* One flush: the transitions of the chunk and the checkpoint in one
\* transaction. ON CONFLICT DO NOTHING: a row already there stays as it is.
ImportChunk ==
    LET from == db.offset
        to == ChunkEnd(from)
        chunk == from + 1 .. to
        skipped == service.skipped
                     + Cardinality({i \in chunk : lines[i].kind = "broken"})
        new == {[line |-> i, prev |-> StateBefore(i, from, service.last)] :
                   i \in {j \in chunk : lines[j].kind = "change"}}
        known == {r.line : r \in db.rows}
    IN  /\ service.stage = "importing" /\ to > from
        /\ Commit(Checkpoint(
              [db EXCEPT !.rows = @ \union {r \in new : r.line \notin known}],
              to, skipped))
        /\ service' = [service EXCEPT !.last = StateBefore(to + 1, from, @),
                                      !.skipped = skipped]
        /\ UNCHANGED <<lines, jsonl, main, wal, shm, truncated, reader, troubles, intact>>

\* End of file: the rename comes before the flag.
RenameFile ==
    /\ service.stage = "importing" /\ ChunkEnd(db.offset) = db.offset
    /\ jsonl' = "backup"
    /\ service' = [service EXCEPT !.stage = "marking"]
    /\ UNCHANGED <<lines, db, survivors, main, wal, shm, truncated, reader,
                   troubles, intact>>

MarkMigrated ==
    /\ service.stage = "marking"
    /\ Commit([db EXCEPT !.migrated = "true"])
    /\ service' = [service EXCEPT !.stage = "recording"]
    /\ UNCHANGED <<lines, jsonl, main, wal, shm, truncated, reader, troubles, intact>>

\* The deferred recordJSONLMigrationJob, then the rest of the service.
RecordJob ==
    /\ service.stage = "recording"
    /\ Commit([db EXCEPT !.job = IF service.found THEN "success" ELSE "skipped"])
    /\ service' = [Off EXCEPT !.stage = "serving"]
    /\ UNCHANGED <<lines, jsonl, main, wal, shm, truncated, reader, troubles, intact>>

\* AuditStore.Append, from its pinned connection.
AppendLive ==
    /\ service.stage = "serving" /\ db.live < MaxLive
    /\ CommitFull([db EXCEPT !.live = @ + 1])
    /\ UNCHANGED <<lines, jsonl, main, wal, shm, truncated, service, reader, troubles, intact>>

\* WALCheckpoint: PASSIVE copies what no reader holds back; a large log is
\* then truncated, which counts, and starts the holdoff, only when no reader
\* was in its way.
WALCheckpoint ==
    /\ service.stage = "serving"
    /\ \E large \in BOOLEAN, moved \in {main, db} :
          LET truncates == large /\ ~truncated /\ reader.stage # "open"
          IN  /\ main' = IF truncates THEN db ELSE moved
              /\ truncated' = (truncated \/ truncates)
              /\ survivors' = IF main' = db THEN {db} ELSE survivors
    /\ UNCHANGED <<lines, jsonl, db, wal, shm, service, reader, troubles, intact>>

HoldoffEnds ==
    /\ truncated /\ truncated' = FALSE
    /\ UNCHANGED <<lines, jsonl, db, survivors, main, wal, shm, service, reader,
                   troubles, intact>>

CloseService ==
    /\ service.stage = "serving"
    /\ service' = Off /\ db' = db /\ Closed
    /\ UNCHANGED <<lines, jsonl, truncated, reader, troubles, intact>>

\* The process dies: what it committed and both sidecars stay.
KillService ==
    /\ service.stage # "off" /\ Trouble
    /\ service' = Off
    /\ UNCHANGED <<lines, jsonl, db, survivors, main, wal, shm, truncated, reader, intact>>

\* The machine loses power. File names are the file system's to keep; the
\* memory-mapped -shm may or may not be back.
PowerLoss ==
    /\ Trouble
    /\ db' \in survivors /\ survivors' = {db'}
    /\ intact' = (intact /\ db' = db)
    /\ service' = Off /\ reader' = NoReader
    /\ shm' \in {FALSE, shm}
    /\ UNCHANGED <<lines, jsonl, main, wal, truncated>>

----------------------------------------------------------------------------
\* Mutant: a log without its index is taken for no log at all.
Refused_Never == FALSE

\* validateReadOnlySidecars, case (d); cases (a) and (b) go on.
Refused == wal /\ ~shm

CheckSidecars ==
    /\ reader.stage = "none" /\ ~Refused
    /\ reader' = [reader EXCEPT !.stage = "checked"]
    /\ UNCHANGED <<lines, jsonl, db, survivors, main, wal, shm, truncated,
                   service, troubles, intact>>

\* SQLite reads the log where it and its index are there.
OpenReadOnly ==
    /\ reader.stage = "checked"
    /\ reader' = [stage |-> "open", got |-> IF wal /\ shm THEN db ELSE main]
    /\ UNCHANGED <<lines, jsonl, db, survivors, main, wal, shm, truncated,
                   service, troubles, intact>>

CloseReader ==
    /\ reader.stage # "none" /\ reader' = NoReader
    /\ UNCHANGED <<lines, jsonl, db, survivors, main, wal, shm, truncated,
                   service, troubles, intact>>

AuditNext ==
    \/ Open \/ StartFails \/ AlreadyMigrated \/ NothingToImport \/ BeginImport
    \/ ImportChunk \/ RenameFile \/ MarkMigrated \/ RecordJob
    \/ AppendLive \/ WALCheckpoint \/ HoldoffEnds
    \/ CloseService \/ KillService \/ PowerLoss
    \/ CheckSidecars \/ OpenReadOnly \/ CloseReader

AuditSpec == AuditInit /\ [][AuditNext]_auditVars

----------------------------------------------------------------------------
Imported ==
    \A i \in DOMAIN lines : lines[i].kind = "change" =>
        \E r \in db.rows : r.line = i

\* The history is never lost: every transition of the legacy file is a row of
\* the table, or the file is still where the next start will read it, whatever
\* step of the import fails or dies, as long as every commit stays committed.
HistoryIsKept == (intact /\ jsonl = "backup") => Imported

\* A broken line is counted once however often the import was interrupted: the
\* count travels in the transaction of its chunk.
BrokenCountedOnce ==
    db.skipped = Cardinality({i \in 1..db.offset : lines[i].kind = "broken"})

\* What the command line reads is what was committed, whether the service
\* runs, has stopped or has died: when it cannot be, the open is refused.
ReaderIsCurrent ==
    [][(reader.stage = "checked" /\ reader'.stage = "open")
           => reader'.got = db]_auditVars

\* The history that is read is the history that was written, in the file of
\* older versions and in the table (migrate_jsonl.go, db.go).
HistoryIsTrue == []HistoryIsKept /\ []BrokenCountedOnce /\ ReaderIsCurrent
=============================================================================
