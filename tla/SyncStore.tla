------------------------------ MODULE SyncStore ------------------------------
(***************************************************************************)
(* The note store of the sync server (src/store/sync_store.rs): a SQLite   *)
(* database behind one mutex, and a watch channel with the last revision.  *)
(*                                                                         *)
(* Whoever holds the mutex (a push, a backup, a restore) is the one actor  *)
(* that moves; its steps are the points at which the process may die, an   *)
(* error may make the function return early, or the database is durably    *)
(* changed.  Readers (changes_since, revision, the console's queries) lock *)
(* the mutex too, so they see the states with pc = "free" and no other.    *)
(*                                                                         *)
(* A lock poisoned by a panic is not modelled: no code under it panics.    *)
(***************************************************************************)
EXTENDS NoteChanges

CONSTANTS
    BlankDevice,      \* a device_id that is empty after trim()
    PushedChanges,    \* the changes the clients may push
    MaxBatch,         \* bound: different changes in one push request
    BackupFiles,      \* the paths create_backup may write
    NoFile,           \* no path
    BackUpEmptyStore, \* TRUE: a backup may be taken while there is no note
    MaxCrashes,       \* bound: times the process dies
    MaxErrors         \* bound: operations that fail half way and return an error

IncomingChange ==
    [body: Bodies, updated: Times, deleted: Times \cup {NotDeleted},
     device: Devices \cup {BlankDevice}]

ASSUME SentinelsAssumption == BlankDevice \notin Devices /\ NoFile \notin BackupFiles
ASSUME ChangesAssumption == PushedChanges \subseteq IncomingChange
ASSUME LimitsAssumption ==
    /\ MaxBatch \in Nat
    /\ MaxCrashes \in Nat
    /\ MaxErrors \in Nat
    /\ BackUpEmptyStore \in BOOLEAN

VARIABLES
    db,        \* the database file as committed: its tables, notes, snapshots
    watch,     \* the value in the revision_events watch channel
    backups,   \* the backup files that exist, and the database in each
    pc,        \* what the holder of the mutex is doing; "free", "down": nobody
    tx,        \* push: the notes and snapshots of the open transaction
    request,   \* push: the changes of the request handled so far, and their notes
    device,    \* push: the request's device id
    file,      \* backup: the file being written
    previous,  \* restore: the notes loaded before the database was replaced
    crashes,   \* times the process has died
    errors     \* operations that have failed half way

vars == <<db, watch, backups, pc, tx, request, device, file, previous, crashes, errors>>

-----------------------------------------------------------------------------
(* The database *)

Snapshot == [note: NoteIds, revision: 1 .. MaxRevision, change: Change]

IsDatabase(image) ==
    /\ image = [tables |-> image.tables, notes |-> image.notes, snapshots |-> image.snapshots]
    /\ image.tables \in BOOLEAN
    /\ IsNotes(image.notes)
    /\ image.snapshots \subseteq Snapshot

\* A file SQLite has created and written nothing to: not even the tables.
EmptyFile == [tables |-> FALSE, notes |-> NoNotes, snapshots |-> {}]

\* The rows of notes, as snapshots.
SnapshotsOf(notes) ==
    {[note |-> n, revision |-> notes[n].revision, change |-> notes[n].change] : n \in DOMAIN notes}

\* store_change for each of rows: the upsert and the insert into note_snapshots.
Store(image, rows) ==
    [tables    |-> image.tables,
     notes     |-> Upsert(image.notes, rows),
     snapshots |-> image.snapshots \cup SnapshotsOf(rows)]

\* backfill_missing_snapshots: a snapshot for every row that has none at its revision.
Backfilled(image) ==
    LET covered == {<<s.note, s.revision>> : s \in image.snapshots}
    IN  image.snapshots \cup
            {s \in SnapshotsOf(image.notes) : <<s.note, s.revision>> \notin covered}

-----------------------------------------------------------------------------
(* Open: a start of the server on the database file it finds *)

\* Mutant of Open: the missing tables are created, nothing is backfilled.
OpenWithoutBackfill ==
    /\ pc = "down"
    /\ db' = [db EXCEPT !.tables = TRUE]
    /\ watch' = CurrentRevision(db.notes)
    /\ pc' = "free"
    /\ UNCHANGED <<backups, tx, request, device, file, previous, crashes, errors>>

\* init_connection creates the tables that are missing and completes the history;
\* the channel starts at the revision.
Open ==
    /\ pc = "down"
    /\ db' = [tables |-> TRUE, notes |-> db.notes, snapshots |-> Backfilled(db)]
    /\ watch' = CurrentRevision(db.notes)
    /\ pc' = "free"
    /\ UNCHANGED <<backups, tx, request, device, file, previous, crashes, errors>>

-----------------------------------------------------------------------------
(* push: one transaction for the whole request, under the mutex *)

PushBegin ==
    /\ pc = "free" /\ db.tables
    /\ \E d \in Devices : device' = d
    /\ tx' = db
    /\ request' = {}
    /\ pc' = "push"
    /\ UNCHANGED <<db, watch, backups, file, previous, crashes, errors>>

\* Mutant of FillDevice: the blank device id is stored.
FillDeviceNever(change) == change

FillDevice(change) ==
    IF change.device = BlankDevice THEN [change EXCEPT !.device = device] ELSE change

\* Mutant of Ignored: of two changes of one time the first stays.
IgnoredAtTies(change, existing) == ChangeTime(existing) >= ChangeTime(change)

\* Last write wins: an older change is skipped, and so is one already stored.
Ignored(change, existing) ==
    \/ ChangeTime(existing) > ChangeTime(change)
    \/ ChangeTime(existing) = ChangeTime(change) /\ existing = change

\* The next change of the request is read, and skipped or stored.
PushChange ==
    /\ pc = "push"
    /\ \E note \in NoteIds, incoming \in PushedChanges :
           LET change == FillDevice(incoming)
               revision == CurrentRevision(tx.notes) + 1
           IN  /\ request' = request \cup {[note |-> note, change |-> change]}
               /\ IF note \in DOMAIN tx.notes /\ Ignored(change, tx.notes[note].change)
                  THEN tx' = tx
                  ELSE /\ revision <= MaxRevision
                       /\ tx' = Store(tx, [n \in {note} |->
                                              [change |-> change, revision |-> revision]])
    /\ Cardinality(request') <= MaxBatch
    /\ UNCHANGED <<db, watch, backups, pc, device, file, previous, crashes, errors>>

\* The waiters will be told only of a revision above the one the push started from.
PushCommit ==
    /\ pc = "push"
    /\ db' = tx
    /\ pc' = IF CurrentRevision(tx.notes) > CurrentRevision(db.notes) THEN "pushed" ELSE "free"
    /\ tx' = EmptyFile
    /\ request' = {}
    /\ device' = BlankDevice
    /\ UNCHANGED <<watch, backups, file, previous, crashes, errors>>

\* A statement of the transaction fails: the transaction is dropped with it.
PushFails ==
    /\ pc = "push" /\ errors < MaxErrors
    /\ errors' = errors + 1
    /\ pc' = "free"
    /\ tx' = EmptyFile
    /\ request' = {}
    /\ device' = BlankDevice
    /\ UNCHANGED <<db, watch, backups, file, previous, crashes>>

-----------------------------------------------------------------------------
(* backup_to: the file exists, empty, from the moment SQLite opens it *)

BackupBegin(f) ==
    /\ pc = "free"
    /\ DOMAIN db.notes # {} \/ BackUpEmptyStore
    /\ backups' = [g \in DOMAIN backups \cup {f} |->
                      IF g \in DOMAIN backups THEN backups[g] ELSE EmptyFile]
    /\ file' = f
    /\ pc' = "backup"
    /\ UNCHANGED <<db, watch, tx, request, device, previous, crashes, errors>>

\* A path of an earlier backup (the same second, or the same name) is overwritten.
BackupFinish ==
    /\ pc = "backup"
    /\ backups' = [g \in DOMAIN backups |-> IF g = file THEN db ELSE backups[g]]
    /\ file' = NoFile
    /\ pc' = "free"
    /\ UNCHANGED <<db, watch, tx, request, device, previous, crashes, errors>>

\* The copy fails (the disk is full); nothing removes the file.
BackupFails ==
    /\ pc = "backup" /\ errors < MaxErrors
    /\ errors' = errors + 1
    /\ file' = NoFile
    /\ pc' = "free"
    /\ UNCHANGED <<db, watch, backups, tx, request, device, previous, crashes>>

-----------------------------------------------------------------------------
(* restore_from: four writes to the database, each durable by itself *)

\* previous_notes is loaded and SQLite replaces the database by the backup's.
RestoreCopy(f) ==
    /\ pc = "free" /\ db.tables
    /\ f \in DOMAIN backups
    /\ CurrentRevision(db.notes) + CurrentRevision(backups[f].notes) + Cardinality(NoteIds)
           <= MaxRevision
    /\ previous' = db.notes
    /\ db' = backups[f]
    /\ pc' = "copied"
    /\ UNCHANGED <<watch, backups, tx, request, device, file, crashes, errors>>

\* A backup without the tables: the first query of restore_from returns an error.
RestoreWithoutTables ==
    /\ pc = "copied" /\ ~db.tables
    /\ previous' = NoNotes
    /\ pc' = "free"
    /\ UNCHANGED <<db, watch, backups, tx, request, device, file, crashes, errors>>

RebaseNeeded ==
    /\ CurrentRevision(db.notes) <= CurrentRevision(previous)
    /\ CurrentRevision(previous) # 0

RestoreSkipsRebase ==
    /\ pc = "copied" /\ db.tables
    /\ ~RebaseNeeded
    /\ pc' = "rebased"
    /\ UNCHANGED <<db, watch, backups, tx, request, device, file, previous, crashes, errors>>

\* Mutant of RebasedRow: the offset is one too small.
RebasedRowOneLow(n) ==
    [change   |-> db.notes[n].change,
     revision |-> db.notes[n].revision + CurrentRevision(previous) - 1]

RebasedRow(n) ==
    [change   |-> db.notes[n].change,
     revision |-> db.notes[n].revision + CurrentRevision(previous)]

\* UPDATE notes SET revision = revision + previous_revision
RebaseNotes ==
    /\ pc = "copied" /\ db.tables
    /\ RebaseNeeded
    /\ db' = [tables    |-> TRUE,
              notes     |-> [n \in DOMAIN db.notes |-> RebasedRow(n)],
              snapshots |-> db.snapshots]
    /\ pc' = "rebasing"
    /\ UNCHANGED <<watch, backups, tx, request, device, file, previous, crashes, errors>>

RebasedSnapshot(s) ==
    [note     |-> s.note,
     revision |-> s.revision + CurrentRevision(previous),
     change   |-> s.change]

\* UPDATE note_snapshots SET revision = revision + previous_revision
RebaseSnapshots ==
    /\ pc = "rebasing"
    /\ db' = [tables    |-> TRUE,
              notes     |-> db.notes,
              snapshots |-> {RebasedSnapshot(s) : s \in db.snapshots}]
    /\ pc' = "rebased"
    /\ UNCHANGED <<watch, backups, tx, request, device, file, previous, crashes, errors>>

\* Mutant of Missing: a restore deletes notes without a tombstone.
MissingUnnoticed == {}

\* The notes that are about to disappear.
Missing == DOMAIN previous \ DOMAIN db.notes

Later(s, t) == IF s > t THEN s ELSE t

\* Mutant of Tombstone: the server's clock alone gives the time.
TombstoneAtNow(change, now) == [change EXCEPT !.updated = now, !.deleted = now]

Tombstone(change, now) ==
    LET at == Later(ChangeTime(change), now)
    IN  [change EXCEPT !.updated = Later(change.updated, at), !.deleted = at]

\* Mutant of TombstoneRow: next_revision is not advanced between the notes.
TombstoneRowUnnumbered(n, now) ==
    [change |-> Tombstone(previous[n].change, now),
     revision |-> CurrentRevision(db.notes) + 1]

\* The tombstone of a missing note: numbered in the order of the ids above the
\* current revision.
TombstoneRow(n, now) ==
    [change |-> Tombstone(previous[n].change, now),
     revision |-> CurrentRevision(db.notes) + Cardinality({m \in Missing : m <= n})]

\* Mutant of EmitTombstones: the waiters get the revision before the tombstones.
EmitTombstonesNotifyFirst ==
    /\ pc = "rebased"
    /\ \E now \in Times : db' = Store(db, [n \in Missing |-> TombstoneRow(n, now)])
    /\ watch' = CurrentRevision(db.notes)
    /\ previous' = NoNotes
    /\ pc' = "free"
    /\ UNCHANGED <<backups, tx, request, device, file, crashes, errors>>

\* All tombstones in one transaction.
EmitTombstones ==
    /\ pc = "rebased"
    /\ \E now \in Times : db' = Store(db, [n \in Missing |-> TombstoneRow(n, now)])
    /\ previous' = NoNotes
    /\ pc' = "restored"
    /\ UNCHANGED <<watch, backups, tx, request, device, file, crashes, errors>>

\* A statement of restore_from fails: it returns, and what it wrote stays.  The last
\* one reads the revision to send, after the tombstones are committed.
RestoreFails ==
    /\ pc \in {"copied", "rebasing", "rebased", "restored"} /\ db.tables
    /\ errors < MaxErrors
    /\ errors' = errors + 1
    /\ previous' = NoNotes
    /\ pc' = "free"
    /\ UNCHANGED <<db, watch, backups, tx, request, device, file, crashes>>

-----------------------------------------------------------------------------
(* The waiters are told, before the mutex is unlocked *)

\* revision_events.send_replace, of a push and of a restore.
Notify ==
    /\ pc \in {"pushed", "restored"}
    /\ watch' = CurrentRevision(db.notes)
    /\ pc' = "free"
    /\ UNCHANGED <<db, backups, tx, request, device, file, previous, crashes, errors>>

-----------------------------------------------------------------------------
(* The process ends: files stay, the channel and open transactions do not *)

\* A restart asked for in the console, or a signal while nobody holds the mutex.
Stop ==
    /\ pc = "free"
    /\ pc' = "down"
    /\ watch' = 0
    /\ UNCHANGED <<db, backups, tx, request, device, file, previous, crashes, errors>>

\* It dies, whatever the holder of the mutex has done so far.
Crash ==
    /\ pc # "down" /\ crashes < MaxCrashes
    /\ crashes' = crashes + 1
    /\ pc' = "down"
    /\ watch' = 0
    /\ tx' = EmptyFile
    /\ request' = {}
    /\ device' = BlankDevice
    /\ file' = NoFile
    /\ previous' = NoNotes
    /\ UNCHANGED <<db, backups, errors>>

-----------------------------------------------------------------------------

\* The first start finds no database file.
Init ==
    /\ db = EmptyFile
    /\ watch = 0
    /\ backups = [f \in {} |-> EmptyFile]
    /\ pc = "down"
    /\ tx = EmptyFile
    /\ request = {}
    /\ device = BlankDevice
    /\ file = NoFile
    /\ previous = NoNotes
    /\ crashes = 0
    /\ errors = 0

Push == PushBegin \/ PushChange \/ PushCommit \/ PushFails

Backup == (\E f \in BackupFiles : BackupBegin(f)) \/ BackupFinish \/ BackupFails

Restore ==
    \/ \E f \in BackupFiles : RestoreCopy(f)
    \/ RestoreWithoutTables
    \/ RestoreSkipsRebase
    \/ RebaseNotes
    \/ RebaseSnapshots
    \/ EmitTombstones
    \/ RestoreFails

Next == Open \/ Push \/ Backup \/ Restore \/ Notify \/ Stop \/ Crash

Spec == Init /\ [][Next]_vars

\* A backup or a restore ends before it is through, by an error or because the
\* process dies: a half-written file or database stays behind.
CutShort ==
    \/ BackupFails
    \/ RestoreFails
    \/ Crash /\ pc \in {"backup", "copied", "rebasing", "rebased"}

\* None does; pushes may fail, and the process may die at any other step.
UncutSpec == Init /\ [][Next /\ ~CutShort]_vars

-----------------------------------------------------------------------------
(* Types *)

\* Every variable has the type of the source's field, column or local.
TypeOK ==
    /\ IsDatabase(db)
    /\ watch \in 0 .. MaxRevision
    /\ DOMAIN backups \subseteq BackupFiles
    /\ backups = [f \in DOMAIN backups |-> backups[f]]
    /\ \A f \in DOMAIN backups : IsDatabase(backups[f])
    /\ pc \in {"down", "free", "push", "backup", "copied", "rebasing", "rebased",
              "pushed", "restored"}
    /\ IsDatabase(tx)
    /\ request \subseteq [note: NoteIds, change: Change]
    /\ Cardinality(request) <= MaxBatch
    /\ device \in IF pc = "push" THEN Devices ELSE {BlankDevice}
    /\ file \in BackupFiles \cup {NoFile}
    /\ IsNotes(previous)
    /\ crashes \in 0 .. MaxCrashes
    /\ errors \in 0 .. MaxErrors

-----------------------------------------------------------------------------
(* Safety *)

\* A revision names one entry of the history, for ever: two snapshots with the
\* same revision are the same snapshot.
SnapshotsDistinct(image) ==
    \A s, t \in image.snapshots : s.revision = t.revision => s = t

\* No snapshot is newer than the newest row, and one at a row's revision is of
\* that note and holds what the row holds.
SnapshotsBehindRows(image) ==
    \A s \in image.snapshots :
        /\ s.revision <= CurrentRevision(image.notes)
        /\ \A n \in DOMAIN image.notes :
               s.revision = image.notes[n].revision =>
                   s.note = n /\ s.change = image.notes[n].change

HistoryOK(image) ==
    NoSharedRevision(image.notes) /\ SnapshotsDistinct(image) /\ SnapshotsBehindRows(image)

\* The revision order is a history, in the database as it is on disk at every
\* step (so after a crash at any point), in the open transaction and in every
\* backup: store_change, the two UPDATEs of rebase_all_revisions, tombstones and
\* backfill never reuse a revision for something else.
HistoryConsistent ==
    /\ HistoryOK(db)
    /\ HistoryOK(tx)
    /\ \A f \in DOMAIN backups : HistoryOK(backups[f])

\* What restore_from relies on between its steps: the revisions it is about to
\* assign fit below the bound, and after the first of the two UPDATEs the
\* snapshots are a history of the rows once the second has moved them, too.
RestoreInProgress ==
    /\ pc = "copied" =>
           CurrentRevision(previous) + CurrentRevision(db.notes) + Cardinality(NoteIds)
               <= MaxRevision
    /\ pc \in {"rebasing", "rebased"} =>
           CurrentRevision(db.notes) + Cardinality(NoteIds) <= MaxRevision
    /\ pc = "rebasing" =>
           \A s \in db.snapshots :
               /\ s.revision + CurrentRevision(previous) <= CurrentRevision(db.notes)
               /\ \A n \in DOMAIN db.notes :
                      s.revision + CurrentRevision(previous) = db.notes[n].revision =>
                          s.note = n /\ s.change = db.notes[n].change

\* The inductive invariant: HistoryConsistent alone does not survive the second
\* UPDATE, nor the types without room for the revisions a restore assigns.
Inv == TypeOK /\ HistoryConsistent /\ RestoreInProgress

\* Whenever a handler can lock the store, the long-poll channel holds the
\* revision the store would answer (sync_store.rs:89 and 160-162).  Only a
\* restore that fails half way breaks it.
WatchIsCurrent ==
    pc = "free" /\ db.tables => watch = CurrentRevision(db.notes)

\* Whenever the console can read, the row of every note is in the note's
\* history at its own revision, also after a crash in the middle of a restore
\* (backfill_missing_snapshots) and in a database that was restored.  (A restore
\* that returned an error half way waits for the next start.)
RowsHaveSnapshots ==
    pc = "free" /\ errors = 0 => SnapshotsOf(db.notes) \subseteq db.snapshots

\* The notes a reader saw when it could last lock the store.
Published ==
    IF pc \in {"copied", "rebasing", "rebased"} THEN previous ELSE db.notes

\* A client whose cursor is the revision it last heard gets every later change,
\* those of a restore, too (docs/protocol.md:80-83): a reader can lock the store
\* only after changes that supersede all it was able to see.
NothingBelowCursors == [][Supersedes(Published', Published)]_Published

\* The revision readers see never falls (docs/protocol.md:3-4).
RevisionNeverFalls ==
    [][CurrentRevision(Published') >= CurrentRevision(Published)]_Published

\* What an open push has made of the notes: the latest of all changes of its
\* request so far, in whatever order they came and however often, and what was
\* there before (sync_store.rs:137-156).
PushInProgress ==
    pc = "push" => tx.tables /\ LatestWins(tx.notes, db.notes, request)

\* Why a restore keeps the promise to the clients if none is cut short and no
\* backup was taken of an empty store: a finished backup holds notes and is no newer
\* than what readers see, so a restore always rebases, above all they have seen.
CursorsInv ==
    /\ pc # "down" => db.tables
    /\ pc = "backup" => DOMAIN db.notes # {}
    /\ \A f \in DOMAIN backups :
           \/ pc = "backup" /\ f = file
           \/ /\ backups[f].tables /\ DOMAIN backups[f].notes # {}
              /\ CurrentRevision(backups[f].notes) <= CurrentRevision(Published)
    /\ pc \in {"copied", "rebasing", "rebased"} => DOMAIN db.notes # {}
    /\ pc = "copied" => CurrentRevision(db.notes) <= CurrentRevision(previous)
    /\ pc \in {"rebasing", "rebased"} =>
           \A n \in DOMAIN db.notes : db.notes[n].revision > CurrentRevision(previous)

-----------------------------------------------------------------------------
(* What the store promises, each operation in one step *)

\* The backups that are complete; a file SQLite has only created is not one.
Saved == [f \in {g \in DOMAIN backups : backups[g].tables} |-> backups[f].notes]

Promise == INSTANCE LatestStateStore WITH notes <- Published, saved <- Saved

\* To readers, each push, backup and restore is one step that keeps the promise of
\* docs/protocol.md:77-83 and 96-97, however many writes it takes: a restore
\* brings back exactly the backup's notes, deletes the others no earlier than they
\* were last changed, and a push keeps the latest of all changes it meets.
KeepsPromise == Promise!Spec

\* Last write wins (docs/protocol.md:96-97): once a request is through, each note
\* it is about holds the latest of the request's changes and what was there, no
\* note is older than before, and what has changed is above every cursor.
PushKeepsLatest == [][PushCommit => Promise!Push(request)]_vars

-----------------------------------------------------------------------------
(* What it tells those who wait *)

Feed == INSTANCE RevisionFeed WITH
    revision <- CurrentRevision(Published),
    writer   <- IF pc \in {"pushed", "restored"} THEN "committed" ELSE "idle",
    value    <- IF pc = "down" THEN CurrentRevision(db.notes) ELSE watch

\* The clients of the long poll can rely on what LongPoll builds on: the revision
\* rises with every commit they are told of, each rise is told once and before the
\* next, wherever the process dies in a push or between a commit and its send
\* (sync_store.rs:46, 89 and 160-162).
FeedsLongPoll == Feed!FeedSpec

=============================================================================
