# Verification of the Floral sync server

TLA+ models of the sync server in this repository (`src/`, Rust), the TLC
configurations that check them on small instances, and TLAPS proofs of the
properties that matter most. Source lines are those of the repository's files;
`PROJECT.json` maps every definition to the lines it stands for.

## 1. Inventory

The server is one process: a SQLite database, a sync API for devices, an admin
API for one operator, a configuration file, and a web console embedded in the
binary. All handlers run on a multi-threaded tokio runtime, so any two requests
may interleave at every lock and every `.await`.

| Component | State | Operations | Hard behaviour | Correct when |
|---|---|---|---|---|
| **Note store** `store/sync_store.rs` | tables `notes`, `note_snapshots`; the watch channel `revision_events`; backup files | `open`, `push`, `changes_since`, `backup_to`, `restore_from` | a restore is four durable writes; the process may die or a statement fail between any two; backups are files that outlive what they copied | a revision names one state of one note; a client that keeps its cursor hears of every change; a push never makes a note older |
| **Long poll** `sync_api.rs` | per request: a receiver with the version it has seen, a timer | `wait_for_change`, `changes` | commits and sends race subscriptions, wake-ups and timers, none of which hold the mutex | no request sleeps through a change; no cursor runs ahead |
| **Devices** (`docs/protocol.md`) | outside the repository: notes, `lastRevision`, unsent edits, requests under way | a round of pull and push, edits at any time | lost answers, late and repeated pushes, edits of equal times, restores of older states | every replica ends as the server; a cursor hides no difference |
| **Configuration** `config.rs`, `main.rs` | the TOML file; `effective` and `persisted` of `RuntimeConfig` | load and normalise, `config set`, `apply_patch` | two processes write one file; overrides of one start; some fields wait for a restart | a save keeps what it does not change; what is pending is what a restart would change |
| **Admin account** `admin_api.rs`, `session.rs`, `auth.rs` | password hash, session secret, signed cookies | `bootstrap`, `login`, `change_password`, `require_session` | every handler decides on a copy of the configuration taken before it hashes | a session's holder typed the password that is set; a changed password ends all other sessions |
| **Backup files** `admin_api.rs` | files in `export_dir`, named by the second | `create_backup`, `list_backups`, `restore_backup` | overwritten, partial and foreign files | a listed backup can be restored |
| **Restart** `admin_api.rs` `RestartHandle`, `main.rs` `serve` | a flag and a `Notify`; one task per listener | `request_restart`, `wait_for_restart`, the `JoinSet` loop | flag and registration are two steps; open requests delay the end | a requested restart ends the process |
| **Admin queries** `store/admin_store.rs` | none (reads under the mutex) | `overview`, `note_list`, `note_history`, `markdown_download` | paging, file names, unique names in an archive | pages partition the list; names are unique |
| **Admin console** `admin-ui/src/App.tsx` | React state: session, page, selected note, busy, error | loads, auto refresh, logout, restore | answers arrive in any order and after what they answered is gone | what is shown is in the end what the store holds for the filters set; buttons come back |
| Embedded assets, entrypoint, build and release scripts | none at run time | | | not modelled: no behaviour of the running system |

Interactions: the sync API and the admin API share the store (one
`Mutex<Connection>`) and `RuntimeConfig` (one `RwLock`); `push` and
`restore_from` wake `wait_for_change` through the watch channel; `serve` ties the
listeners to `RestartHandle`; the console and the devices are clients of the two
APIs and see only committed states, in the order their answers arrive.

## 2. Modules

| Module | Models | Runs |
|---|---|---|
| `NoteChanges` | notes as data: changes, rows, revisions, which of two changes wins | (in all runs of the store) |
| `LatestStateStore` | what the store promises, one step for each operation; extends `NoteChanges` | (as `KeepsPromise` in `sync`, extended by `SyncSystem`) |
| `RevisionFeed` | what the store tells those who wait: a revision that rises, a channel that is told of each rise | (as `FeedsLongPoll` in `sync`, extended by `LongPoll`) |
| `SyncStore` | the note store, step by step; implements `LatestStateStore` and `RevisionFeed` | `sync`, `faults`; `empty_backup`, `failed_backup` |
| `AdminQueries`, `AdminReads` | the console's queries and downloads as operators; their properties over the states of `SyncStore` | `sync`, `faults` |
| `SyncSystem` | devices over `LatestStateStore` and a network | `system` |
| `LongPoll` | `/v1/wait` and `/v1/changes` over `RevisionFeed` | `wait` |
| `AdminConsole` | the notes view in the browser | `console` |
| `RuntimeConfig` | the configuration file, the server's two copies of it, `config set` | `config`; `config_override` |
| `RestartShutdown` | the restart from the console: flag, `Notify`, listeners, open requests, the `JoinSet` loop | `restart`; `restart_early` |
| `AdminAccount` | bootstrap, login, logout, change of password, session cookies | `sessions` |
| `NoteChangesProofs`, `SyncStoreProofs`, `SyncSystemProofs`, `LongPollProofs`, `RuntimeConfigProofs`, `RestartShutdownProofs`, `AdminAccountProofs`, `AdminConsoleProofs` | proofs about the module each is named after; those about `AdminReads` are the second half of `SyncStoreProofs` | |
| `MCSyncStore`, `MCSyncSystem`, `MCLongPoll`, `MCAdminConsole`, `MCRuntimeConfig`, `MCRestartShutdown`, `MCAdminAccount` | the instances TLC checks | |

Runs after a semicolon expect a violation (section 4).

### NoteChanges and LatestStateStore

`NoteChanges` holds what `SyncStore`, `AdminQueries` and `SyncSystem` share: a change, a
row of the table (a change and a revision), `ChangesSince`, `CurrentRevision`,
`ChangeTime` (`deletedAt` where there is one, else `updatedAt`), and two relations that the
properties are made of. `Supersedes(later, earlier)`: no note is gone, and every note
that differs lies above the earlier revision. `LatestWins(later, earlier, incoming)`:
each note has the latest of what was there and what came in.

`LatestStateStore` is the contract of `docs/protocol.md`: `Push`, `Backup` and
`Restore` each in one step, with the outcome left open where the documents leave
it open (which revisions a restore assigns, which of several changes of one time
stays, what time a tombstone has, if only it is not before the note's own).

### SyncStore

The holder of the mutex is the only actor that moves, and `pc` says what it is
doing: `free` (nobody), `push`, `backup`, how far `restore_from` has come
(`copied`, `rebasing`, `rebased`), or that a push or a restore has committed but not
sent its revision yet (`pushed`, `restored`); `down` is a stopped process. Readers
(`changes_since`, `revision`, the console's queries) lock the same mutex, so the
states they can see are those with `pc = "free"`; that is why no action is
needed for them. What changes the database *durably* is one action each:

| Code | Actions |
|---|---|
| `SyncStore::open`, `init_connection`, `backfill_missing_snapshots` | `Open`, `Backfilled` |
| `push`: `transaction()`, the loop, `commit()` | `PushBegin`, `PushChange`, `PushCommit`; `PushFails` |
| `backup_to`: SQLite creates the file, copies the pages | `BackupBegin`, `BackupFinish`; `BackupFails` |
| `restore_from`: load and copy, the two `UPDATE`s, tombstones | `RestoreCopy`, `RestoreSkipsRebase` or `RebaseNotes` and `RebaseSnapshots`, `EmitTombstones`; `RestoreWithoutTables`, `RestoreFails` |
| `send_replace`, of a push that raised the revision and of a restore | `Notify` |
| a stop, a death | `Stop`, `Crash` |

`request`, the changes of the open push so far, is a history variable: only
the bound `MaxBatch` reads it. A note's title, content, category, `created_at` and `content_hash` are one model
value (`body`), for no code compares them otherwise than all together. Times
are small numbers; `NotDeleted` stands for `deleted_at = None`. A `deviceId`
that is blank takes the request's, which `docs/protocol.md` has every client
send, so it is never blank itself. `note_snapshots` is the set of its rows
without `snapshot_id` and `captured_at`. A database file SQLite has created but
not written has no tables (`EmptyFile`); that a failed copy leaves such a file is
behaviour of SQLite's backup API and marked external in the map.

The properties:

* `HistoryConsistent`: in the database as it is on disk, in the open transaction
  and in every backup, a revision names one state of one note, rows and
  snapshots together. It holds under crashes and errors at every step.
* `RestoreInProgress`: what `restore_from` relies on between its writes.
* `RowsHaveSnapshots`: after any crash, the next start completes the history. (After a
  restore that returned an error it takes a restart, too, so it is stated for
  `errors = 0`.)
* `NothingBelowCursors`: what readers see next always supersedes what they saw
  last: no note disappears and every one that differs is above the revision they
  knew. This is the promise of `docs/protocol.md:80-83`.
* `PushKeepsLatest`: a committed push leaves each note of its request with the
  latest change of those in the request and the one that was there. Deleted notes
  count with the time of their deletion.
* `KeepsPromise`: the refinement. With `notes <- Published` (what readers see: the
  table, or, during a restore, what it was before) and `saved <- Saved`
  (the finished backups), every behaviour in which no backup or restore is cut short is
  one of `LatestStateStore`: the writes in between are stutters, the commit or the end of
  a restore is the step, and so are a push that fails and a process that dies elsewhere.
* `FeedsLongPoll`: a second refinement, of `RevisionFeed`, with the revision readers see,
  whether a commit is still to be sent, and the channel (of a stopped process, what the
  next one will start it with). `PushCommit` and `EmitTombstones` are its `FeedCommit`,
  `Notify` its `FeedSend`, a death between the two its `FeedOpen`.
* `CursorsInv` and `PushInProgress` are the strengthenings behind these; they are
  proved (section 5) rather than run.
* `WatchIsCurrent`: whoever can lock the store finds the channel at its revision
  (proved, not run).
* `RevisionNeverFalls`: what the documentation says and the code does not keep
  (section 4).

Two specifications: `Spec` allows every fault, `UncutSpec` those that leave no
half-written file or database behind (`~CutShort`): pushes may fail, and the process may
die at any step but inside a backup or a restore. The promises to readers are stated of
the second, for `failed_backup` shows that they need it.

### AdminQueries and AdminReads

Each query of `admin_store.rs` is an operator on the tables `notes` and
`note_snapshots`, for each holds the store's mutex while it reads; the two downloads
of `admin_api.rs` read one note at a time, and `BuildNotesArchive` names the entries.
`OrderBy` is SQL's `ORDER BY`: the place of a row is the number of rows before it.
Search (`LIKE`) and categories are functions from bodies; titles and ids are
sequences of characters, since `sanitize_file_stem` and `unique_archive_file_name` are
about characters. `AdminReads` joins them with `SyncStore`:

* `PagesAreTheList`: for every filter and page size (0 included) the pages together
  are the list, each note once, in order, with the right total.
* `OverviewAgreesWithList`: the counts are those of the filtered lists.
* `HistoryStartsAtNote`: the first entry of a note's history is the note as it is,
  although the two are in different tables, which a restore raises by two `UPDATE`s:
  after crashes and failures at any step. (Its revision is the note's only as long as
  nothing has failed half way: a restore that fails between the `UPDATE`s leaves the
  entry at its old one until the next start.)
* `ArchiveNamesDistinct`: unpacking an archive loses no note, whatever titles and ids
  collide.
* `PageReadersMissNothing`: a note that stays as it was never moves towards pages
  already read. This is so for the list of all notes; a filtered list can skip one,
  because a change may take a note out of it.

### SyncSystem

The server is `LatestStateStore`; `PushOf` and `RestoreOf` enumerate the outcomes its
`Push` and `Restore` allow, so that TLC can take them. A device is outside the
repository: its steps are what the protocol asks for and are marked external. Its
round is `Pull`, `AnswerPull`, `ApplyPulled` (which keeps a local version that is
later, or of the same time, as it likes), `AnswerPush`, `Pushed`. It may edit at any
point, give up any request (`GiveUp`), and a push that was given up may arrive much
later or never (`LatePush`). One thing is assumed of a device: an edit is not older
than the version it replaces. Without it the server skips the edit, as it should,
and only the next pull would tell. Backups are taken of a store that holds notes, the
condition under which `SyncStore` implements the specification.

* `ReplicaExact`: a note that a device has nothing to push of, and that the next answer
  will not bring, is on the device as on the server.
* `Inv`: why; what a device's unsent edits, its pull and its push under way rely on.
* `Converges`: once edits and restores have ended, all devices end with nothing to push
  and the server's notes.

**Fairness**: `Exchange(d)` is weakly fair for each device: a device that synchronises
goes on, and the server answers. Nothing is asked of late pushes, edits or restores.
Losses are bounded, so `Converges` needs no more.

### AdminConsole

`App.tsx` keeps one object per view; the notes view has `query`, `page`, `selected`
and shares `busy`. Between two changes of the store its answers do not change, so an
answer is the `revision` it was read at, and the list also the query it was asked with.
Every request is a slot in `calls`: sent (`Send`, or `Tick` in the background), handled
(`Serve`; the history of a note is a second request, `ServeHistory`), and its answer
applied (`ShowList`, `ShowDetail`, `EndSession`, `Reload`) or an error (`Fail`), in any
order. `busy` is cleared by the first foreground answer, as `setBusy(false)` does,
not by the last.

* `ListFollowsStore`, `DetailFollowsStore`: when the operator and the store have come to
  rest, the view shows the store's notes for its filters, and an open note with its
  history. Before that it may not: an answer to an earlier query may replace a later
  one's until the timer asks again.
* `BusyEnds`: the buttons do not stay disabled. Its safety half is `BusyHasCause` (proved,
  not run): `busy` is only ever set while a request the operator asked for is under way.

**Fairness**: each `Serve`, `ServeHistory` and `Deliver` is weakly fair per request (the
server answers, the browser runs the handler). `Tick` is strongly fair: `setInterval`
does not wait for answers, and only this module's bound on the requests under way
disables it between them.

### LongPoll

The store is reduced to `RevisionFeed`: its revision, the channel's value, and a push or
a restore as `Commit` and `Send`, between which the mutex is held; the channel's version,
by which a receiver knows that it has missed a send, is added here. A request is `idle`, `waiting` (with the
version its receiver has `seen`), `woken`, `timedOut`, `answered` or, when the
client has asked `/v1/changes`, `fetched`. `Subscribe`, `Wake`, `Timeout`,
`AnswerWoken` and `AnswerTimedOut` are the steps of `wait_for_change` between
which another thread may run; `tokio::sync::watch`, `tokio::time::timeout` and
the devices are modelled from how the code and `docs/protocol.md` use them. A
client may lose any request or answer (`Drop`), and the server restarts at any
step (`Restart`), also between a commit and its send.

That the store takes no other steps is a theorem on both sides: `SyncStore` implements
`RevisionFeed` (`SpecFeedsLongPoll`) unless a backup or a restore is cut short or a backup
is of an empty store (section 4), and all that `LongPoll` does to the store are steps of
it (`SpecUsesFeed`).

* `NoSleepThroughChange`: a request left to its timer has missed nothing.
* `ChangedMeansNewer`: `changed = true` is never a false alarm.
* `CursorsWereSent`: no cursor runs ahead of the channel.
* `InStep`: why these hold; the strengthening that makes them inductive (proved, not run).
* `CursorsCatchUp`: every revision reaches every client that keeps polling.

**Fairness** (`FairSpec`): `Send`, because the holder of the mutex does not wait
for anything after the commit; the handler's steps, because the runtime polls a
task that was woken; the client's, because `CursorsCatchUp` is about clients that
keep polling. All are weak: none of these actions is ever disabled by another
one for good while it is enabled, save by a loss or a restart, whose number is
bounded. `Timeout`, `Drop`, `Restart` and `Commit` have no fairness: a wake-up
that only a timer could deliver would be found.

### RuntimeConfig

A configuration is a function from its fields to values; a patch, a command line
and the fields of earlier releases (`listen`, `bind`, `token`) are functions of
that kind too. A value is a model value, `Absent`, `Blank`, `Default`, or one of
the address lists the code singles out (`Ipv4Only`, `Ipv6Only`, `DualStack`).
Trimming and the resolution of relative paths are left out; what a load does to a
blank field is not. There are two processes, the server and the tool (`config
show`, `config set`), each of which reads the file, perhaps repairs and rewrites
it, and then goes on with what it has in memory.

| Code | Definitions |
|---|---|
| `normalize_stored_config` | `Normalised`, with `StoredListen`, `WithDualStack`, `NotBlank` |
| `load_or_create_stored_config` | `Read`, `Rewrite`, `RewriteFails` |
| `load_or_create_config`, `RuntimeConfig::new` | `Load`, `Loaded`, `Serve` |
| `apply_config_patch`, `RuntimeConfig::apply_patch` | `Accepted`, `Patched`, `Save`, `SaveFails` |
| `handle_config_command`, `update_config_file` | `Set` |
| `pending_restart_fields_for` | `PendingFields` |

* `PendingIsExact`: the fields the console marks for a restart are those that a
  restart would change, also after failed writes. (Not so of a field whose saved value
  the load replaces.)
* `SavesLoseNothing`: neither the console nor the tool changes a field that the save
  is not about.
* `SavedIsLoaded`: what is saved is what the next start runs with, but for the two values
  that `Reread` names: `config set --listen 0.0.0.0:8787` and a path of spaces
  (section 4). The repairs meant for old files reach no other saved value.
* `SecretStays`: the session secret outlives saves and restarts.
* `FileLoads`: a patch is accepted only if the file with it can be loaded.

All but `FileLoads` and `SavedIsLoaded` need one process at a time: with `ToolBesideServer`, each of
two writers of one file writes back what it has read, so one loses the other's
change; nothing in the repository says that it may not. The run has the two take turns;
that the file can be loaded however they interleave is `SpecFileLoads` (section 5).

### RestartShutdown

A listener goes through `new`, `unset` (its restart task has read the flag and
found it unset), `registered`, `notified`, `draining`, `ended`, `joined`; it may
end with an error at any time (`failed`). A client has one request open at a
listener: a long poll or another request (`serving`), or `restart_service` between
its steps (`asked`, `flagged`, `answering`). `SetFlag` and `Notify` are the two
steps of `request_restart`, `ReadFlag` and `Register` those of `wait_for_restart`,
`Join` and `Exit` the loop at the end of `serve`. The sockets are bound before the
tasks first run, so a request may arrive before every listener has registered.
`missed` is a history variable: the listeners that had read the flag but not
registered when a notification was sent last; no guard reads it.

* `ExitIsGraceful`: an exit for a restart was asked for, and cuts off no request,
  hides no error.
* `NoLostWakeup`: once the request is through, only a listener in `missed` sleeps.
* `RestartHappens`: a restart that was asked for happens, unless a listener fails or
  is in `missed`. Without that exception it does not (`RestartAlwaysHappens`,
  section 4): the two properties together say that the gap in
  `wait_for_restart` is the only one.
* `FailureEnds`: a listener's failure ends the process.

**Fairness** (`FairSpec`): each handler, each listener's task and the end of the
loop are weakly fair, because the runtime polls whatever can go on and every
handler ends (a long poll has a timer of at most 55 seconds; the others wait for
nothing but the store's mutex). No fairness is asked of clients: none has to come
or to stay away. `Accept` is disabled once the listener drains, so a stream of
requests cannot keep it from ending.

### AdminAccount

A request opens (`BeginLogin`, `BeginBootstrap`, `BeginChange`, `Logout`) with the
copy of the configuration it decides on, finishes after hashing (`FinishLogin`,
`SetPassword`), and its answer arrives or is lost (`Arrive`, `Lose`), in any
order. A hash is its password and a salt of its own; a session names the hash it
was issued for and when. `typed`, the password that was given for it, is a history
variable: it is in no cookie and no guard reads it. The clock (`Tick`) does not go
back. A restart forgets the open requests and nothing else, for the configuration
of `RuntimeConfig` keeps hash and secret (`SecretStays`).

* `SessionsKnowPassword`: whoever holds a valid session, or is about to be given
  one, typed the password that is set now.
* `EndedStaysEnded`: a session that has ended never becomes valid again, not even
  if an old password is set anew.
* `ChangeEndsOthers`: a new password leaves exactly its setter with a session,
  logins under way included.

## 3. Runs and bounds

| Run | Shows | Bounds, and why they suffice |
|---|---|---|
| `sync` | `NothingBelowCursors`, `PushKeepsLatest`, `KeepsPromise`, `PageReadersMissNothing`, `FeedsLongPoll` under `UncutSpec`, with no backup of an empty store | two notes (one survives a restore, one is missing from it), three changes, of which the tombstone ties with the first edit and two leave the device to the request, times 1 and 2, two changes per push (also of the same note), one backup file that is overwritten, one push that fails, one death of the process (in a push or between a commit and its send), revisions enough for two restores in a row |
| `faults` | `TypeOK`, `HistoryConsistent`, `RestoreInProgress`, `RowsHaveSnapshots` and the queries' properties with crashes and errors | one of each, between any two writes of any operation, and the restart after it; titles of which one leaves no file name and the other is the id of a note; a blank category and another; every filter; page sizes up to the number of notes |
| `system` | `ReplicaExact`, `Inv`, `Converges` | two devices and two notes, one body (a change is told apart by its device and times), times 1 and 2, so that edits are in order or tie; two edits (of one note by both devices, or of one device twice), one request given up, one backup and one restore. The guards keep revisions up to 8; no behaviour of two edits and a restore comes that far, so the bound cuts none and `Converges` is not true by a stop |
| `wait` | the properties of the long poll, `CursorsCatchUp` included | two clients, three commits (a change that wakes, one that comes before the answer, one after it), one restart, one loss |
| `config` | the properties of the configuration | no file, one of an early release, one written by hand; a patch for each kind of field (listen, an old default alone, path, blank, token, password); two generated tokens; one failed write at any point, any number of restarts, so that saves pile up while others wait for a restart |
| `console` | the properties of the notes view | one note, two queries, two requests under way (the least for an answer to be overtaken), one change of the store by a push or by a restore, one error. No counter but these two is bounded: the operator goes on as long as it likes |
| `restart` | the properties of the restart | three listeners (one for the console), two clients, so that one may ask for the restart while the other polls, or both ask; one failure |
| `sessions` | the properties of the account | two browsers, two open requests (every overlap of two handlers), two passwords and three hashes in turn (an old password comes back), a session lifetime that ends within the run |

`CHECK_DEADLOCK FALSE` is set for `SyncStore` only: at the bound on revisions,
crashes and errors it has nothing left to do but stop. The other modules are
checked for deadlock; a process that has ended stutters (`Exited`).

Every bound is a constant (`MaxRevision`, `MaxBatch`, `MaxCrashes`, ...) that
occurs in the guard of the action it bounds. `MaxTime` and `MaxRevision` bound the
types of values, too; a restore starts only if the revisions it will assign fit.

## 4. Where the code and its documentation part

Four runs expect a violation. Each checks one property that states what the
repository's documentation or messages say.

* `empty_backup`: a backup taken before the first note. `rebase_all_revisions`
  moves the revisions of the restored rows, and there are none; the tombstones
  start at 1 (`sync_store.rs:83-88`, `315-331`). Devices whose cursor is higher
  never hear that the notes are gone (`docs/protocol.md:80-83`).
* `failed_backup`: the copy fails, its file stays and is listed. A restore from
  it replaces the database by one without tables and then returns an error; all
  notes are gone, without tombstones, and the revision is back at 0
  (`docs/protocol.md:3-4`).
  The same property is broken by a restore that fails between the copy and the first
  `UPDATE`: the backup's rows are then served at the backup's revisions.
* `config_override`: an override of the command line is part of what the running
  server persists (`config.rs:574`), so the first setting saved in the console
  writes it to the file, which `docs/deployment.md:391` says it does not reach.
* `restart_early`: `wait_for_restart` reads the flag (`admin_api.rs:69`) and then
  registers (73). A `request_restart` in between finds nobody to wake; that listener
  stays, the others close, and the process does not end
  (`docs/deployment.md:271-272`). The window is a listener's first poll.

Four more, without a run of their own:

* `config set --listen 0.0.0.0:8787`, which `docs/deployment.md:345-349` gives for
  "IPv4 only", is undone by the next load: `normalize_stored_config` takes that
  address for the default of an earlier release and replaces it by both defaults
  (`config.rs:244-247`). `SavedIsLoaded` states it as one of its two exceptions.
* A path of spaces is a setting the console accepts: `normalize_patch_path`
  (`config.rs:463`) refuses the empty path only. The next load takes it for no path
  and runs with the default (`config.rs:259-270`), and no field is marked for a
  restart. This is the other exception of `SavedIsLoaded`.
* Two bootstraps that overlap both find no password and both set one
  (`admin_api.rs:339-352`); the first client has by then been told that it is the
  administrator. `docs/deployment.md:329` calls the bootstrap a one-time one. That
  the first client's session is void by then is `ChangeEndsOthers`.
* A restore's tombstone may have the note's own time (`sync_store.rs:325`). A late or
  repeated push of that very change is then not older, and is stored again: the note
  is back, on every device. The devices converge all the same (`Converges`).

## 5. Proofs

The theorems hold for all values of the constants that satisfy the assumptions:
`NoteIds` is a finite set of numbers, the sentinels are no members of the sets
they extend, there is a listener, the bounds are natural numbers, texts are
sequences of characters. Where a theorem needs more it says so after its name.

* `SpecTypeOK`, `SpecHistoryConsistent`: from `Inv == TypeOK /\ HistoryConsistent
  /\ RestoreInProgress`. `HistoryConsistent` alone is not inductive: after the
  first `UPDATE` of a rebase the snapshots lie an offset below their rows, and
  nothing but `RestoreInProgress` says that the second one will not run them
  into rows of other notes. `MaxOfBounded` and `RevisionIsGreatest` derive the
  meaning of `MAX(revision)` from finiteness, and `MissingRank` shows that the
  tombstones, numbered in the order of their ids, get distinct revisions without
  a gap; `StoreHistory` is the common part of `PushChange` and `EmitTombstones`.
* `SpecPushInProgress`, then `SpecPushKeepsLatest` as an action property.
* `SpecNothingBelowCursors` of `UncutSpec`, if no backup is of an empty store
  (`~BackUpEmptyStore`): from `CursorsInv`, that a finished backup holds notes and is no
  newer than what readers see, so that a restore always rebases above that. Both
  conditions are needed: `empty_backup` violates the property without the second, and
  `failed_backup` its consequence `RevisionNeverFalls` without the first. Failed pushes
  and deaths of the process outside backups and restores are allowed, for they leave
  nothing half-written. `SpecCursorsInv` states `CursorsInv` by itself.
* `SpecKeepsPromise`: the refinement, under the same conditions, as
  `UncutSpec => Promise!Spec`: initial states map to initial states, and each action to a
  step or a stutter. A push is one by `PushInProgress`; a restore by `CursorsInv`
  and by what has become of the backup's rows (`RestoreInProgress`).
* `SpecRevisionNeverFalls` under the same conditions, from `SpecNothingBelowCursors`: what
  supersedes what was there has no smaller revision (`SupersedesRevision`).
* `SpecWatchIsCurrent` of every behaviour in which no restore returns an error
  (`[][Next /\ ~RestoreFails]_vars`), with any number of failed pushes and backups, any
  backup restored, and deaths at any step: `Open` reads the channel's first value from
  the database, and a push that sends nothing has not raised the revision
  (`PushMovesRevision`).
* `SpecFeedsLongPoll`: the second refinement, under the conditions of the first, from
  `FeedInv`: the channel of a running process holds the revision readers last saw until
  the next is committed. A restore raises the revision (`EmitRaises`) because its backup
  holds a note, which is rebased above all that readers have seen.
* `SpecRestoreInProgress` and `SpecRowsHaveSnapshots`: that every row has its snapshot
  follows from `CoveredInv`, which says the same of open transactions and backups,
  and between the two `UPDATE`s of the snapshots once the offset is added; `Open`
  makes up for a crash there. `SpecHistoryReachesRows` says where the guard `errors = 0`
  matters: without it the same holds of every behaviour in which no restore fails
  between the two `UPDATE`s of `rebase_revisions`. Failed pushes and backups, a restore
  that fails at another statement, and crashes anywhere never break it.
* `SpecBehindInv`: no snapshot of a note is newer than its row, in the database, an open
  transaction, every backup, and in a half-finished rebase. With `RowsHaveSnapshots` it
  is what puts the row itself, revision included, at the head of its history
  (`SpecHistoryStartsAtRow`, under the condition of `SpecHistoryReachesRows`).
* The queries (`AdminReads`), in every reachable state:
  * `OrderBy` lists each member once and in order, for in a total order the numbers
    of predecessors are different and fill `0 .. Cardinality(S) - 1`
    (`RanksArePlaces`); so `ListingLists` and `HistoryLists` hold of the two queries.
  * `SpecHistoryStartsAtNote`, with failures at every step, from `NewestInv`: the newest
    snapshot of each note holds what the row holds, in the database, an open transaction
    and every backup. Unlike `CoveredInv` this outlives a restore that fails between the
    two `UPDATE`s, a backup of what that leaves and a restore from such a backup, for the
    second `UPDATE` moves all snapshots alike. It needs `BehindInv` for `Open`, whose
    backfill must come out on top.
  * `SpecOverviewAgrees`: the active and the deleted notes part the notes in two.
  * `SpecPagesAreTheList`: each page is a slice of the list (`PageIsSlice`), adjacent
    slices join (`SubSeqsJoin`), and `FlattenSeq` is the only solution of its
    equation (`FlattenSolution`). Needs `Cardinality(NoteIds) <= MaxOffset`, fewer notes
    than `i64::MAX`, above which `note_list` cuts the offset (`admin_store.rs:164-167`).
  * `SpecPageReadersMissNothing`, under the same conditions and from `SpecNothingBelowCursors`: the
    notes before one that did not change are still before it, and changed ones
    are now.
  * `SpecArchiveNamesDistinct`, by induction over the ids and then the downloads: the
    ids kept are each note once (`KeptOnce`); a name that collides gets a number that
    is free, because fewer names are used than there are numbers (`UniqueIsNew`, by
    the pigeonhole principle). Needs at least as many numbers as notes; the code
    counts with an `i32` (`admin_api.rs:801`).
* `SyncSystemProofs`: `SpecReplicaExact` from `Inv`. Of the server's steps nothing
  but `Supersedes` is needed, so one lemma serves for pushes, late pushes and
  restores; `AnswerPush` needs `LatestWins`, too: a pushed change that was not older
  than what the device had seen is stored unless something later is. The invariant is
  proved device by device (`DeviceInv`), each step for the device that takes it and
  for one that does nothing. Two consequences: `SpecCaughtUp`, a device with nothing to
  push whose cursor is the server's revision is a copy of the server; and
  `SpecRevisionsAdvance`, no cursor goes back, since an answer to a pull is never
  older than the cursor it was asked with. `SystemRefinesStore` is `SystemSpec => Spec`
  with the `Spec` of `LatestStateStore`: the store under the devices is the very
  specification that the code's store implements (`SpecKeepsPromise`).
* `LongPollProofs`: `Inv` is `TypeOK`, `InStep` and the three safety properties; without
  `InStep` nothing ties a receiver's version to the channel's. `SpecUsesFeed` is
  `Spec => FeedSpec`: requests, lost connections and restarts do to the store only what
  `RevisionFeed` says it does.
* `RuntimeConfigProofs`: `LoadRepairsOnce`, an idempotence of `Normalised` field by
  field; `SpecFileLoads`, for which whatever is in the file or in memory must be
  loadable as a whole (`Usable`), since each process writes what it read some
  time ago; `SpecSavesLoseNothing` for one process at a time and no command
  line, from the invariant (`Believed`) that the serving process's persisted copy
  is the file, and that the file has been repaired, so that the repair in a save
  changes nothing else.
  `SpecSavedIsLoaded`, with any processes and command lines: a value that is stored and
  loaded again is what `Reread` says (`LoadRereads`), and an accepted patch has no empty
  value but a path of spaces (`PatchIsFilled`).
  `SpecPendingIsExact`: for one process at a time and no command line, from `Believed`
  and `Mended`: in what a process has loaded, and what the server has made of it since,
  a load replaces nothing but what `Reread` does, and its live fields are in force. So
  of every other field a restart would make what `persisted` has.
  `SpecSecretStays` for one process at a time: once the file has a secret, every copy
  that may be written back has that one (`SecretShared`).
* `RestartShutdownProofs`: `SpecExitIsGraceful` from `Order` (the flag is set before
  anything acts on it, no request is open at a listener that has ended, a failure
  is not forgotten); `SpecNoLostWakeup`, which is inductive with the types.
* `AdminAccountProofs`: `SpecSessionsKnowPassword`, `SpecEndedStaysEnded` and
  `SpecChangeEndsOthers` from `Kept`: every hash that a session, a login or the
  configuration holds has been made already, so the next one differs from all of
  them, and a session's typed password is that of its hash.

* `AdminConsoleProofs`: `SpecBusyHasCause` and `SpecTypeOK` from `ConsoleInv`, for any
  number of requests under way. The types alone are not inductive: an answered restore
  raises the revision, for which `RoomForRestores` counts those still to come; and a
  cause of `busy` must not be overwritten, which is why a new call takes a slot that is
  free, the timer's second one, too (`CallAdded`, `TickStep`).

Each of these components has its `SpecTypeOK`.

**Induction over data.** The library's induction theorems take a predicate as a
parameter, which the installed provers cannot instantiate. `WFMin`, that a nonempty set
of numbers has a least member, takes none; `Upwards` derives from it that a
*set* with 0 and the successor of each member holds all numbers up to `n`, and
`FoldExists` that the recursive function which a fold is defined by exists.
Every fold of `AdminQueries` is then a sequence of its intermediate results
(`NormalizeFold`, `StemFold`, `ArchiveFold`), one lemma for each because the folded operator
is a parameter, too.

**Only model-checked.** Liveness (`CursorsCatchUp`, `Converges`, `RestartHappens`,
`FailureEnds`, `ListFollowsStore`, `DetailFollowsStore`, `BusyEnds`), which with `ENABLED` is
out of the prover's reach; every other property of a passing run is a theorem. Of most of
them a safety half is proved: `SpecNoSleepThroughChange` of `CursorsCatchUp`,
`SpecCaughtUp` of `Converges`, `SpecNoLostWakeup` of `RestartHappens`, `SpecBusyHasCause` of
`BusyEnds`. What a RECURSIVE operator computes would
be as well; no module with a theorem uses one. The four violations of section 4 are
TLC's counterexamples; three of them show that `UncutSpec`, `~BackUpEmptyStore` and the
hypothesis on overrides, under which the theorems about these properties are stated, are
needed.

## 6. Plan

Done: the store, its abstract specification and the refinement; the devices over it;
the long poll, on what the store is proved to do; the configuration; the restart; the
account; the queries; the notes view; and the proofs of section 5. Left, in this order:

1. `BackupFiles`: names by the second, the sorted listing, the check of a path before
   a restore, files that come and go meanwhile.
2. The other views of the console (overview, settings, maintenance), whose answers
   nothing asks for again.
3. A backup of an earlier release, without `note_snapshots`, as a third kind of file.

## 7. Not modelled, and why

Backup names, their listing and the check of a name (`admin_api.rs`): a sorted
directory and a test of path segments; the store's part of both operations is in
`SyncStore`. A database or a backup of an earlier release, without `note_snapshots`:
nothing in `src/` writes one any more. The time of the latest snapshot and
`captured_at`, which no decision reads. The end of a session while the console is
open, and its overview, settings and maintenance views; an overview that arrives
after a logout stays until somebody refreshes it (`App.tsx:88-94`). The log files
and how the console reads them.

Password hashing, signatures and token generation (a hash is a value that only
its password matches, `password_version` is taken to be injective); the origin
check of the console's requests; the build without the admin feature, whose
`serve` ends with its first listener; TOML, JSON and SQL texts; logging; the embedded assets;
pages and styles; build, release and container scripts. A poisoned lock: no code
under the store's lock panics. SQLite's own durability: a committed transaction
is on disk, and a restore or a statement is atomic.
