--------------------------- MODULE SyncStoreProofs ---------------------------
(***************************************************************************)
(* Theorems about SyncStore and the console's queries on it (AdminReads),  *)
(* for every set of notes, devices, changes and backup files, every bound, *)
(* with crashes and errors allowed.  First the store: its inductive        *)
(* invariant, pushes, the promise to the clients, what waiters are told,   *)
(* the history.  Then the reads: the order and the pages of the list, the  *)
(* ids asked for, the names of an archive.                                 *)
(***************************************************************************)
EXTENDS AdminReads, NoteChangesProofs, SequenceTheorems

-----------------------------------------------------------------------------
(* Types *)

\* store_change keeps a database a database, given rows of the right type.
LEMMA StoreType ==
    ASSUME NEW image, IsDatabase(image), NEW rows, IsNotes(rows)
    PROVE  IsDatabase(Store(image, rows))
<1>1. IsNotes(Upsert(image.notes, rows))
    BY DEF IsDatabase, IsNotes, Upsert
<1>2. SnapshotsOf(rows) \subseteq Snapshot
    BY DEF IsNotes, Row, SnapshotsOf, Snapshot
<1> QED
    BY <1>1, <1>2 DEF Store, IsDatabase

\* So is a file SQLite has only created.
LEMMA EmptyFileType == IsDatabase(EmptyFile)
    BY NoNotesType DEF IsDatabase, EmptyFile

\* The rows of a table notes are snapshots.
LEMMA SnapshotsOfType ==
    ASSUME NEW notes, IsNotes(notes)
    PROVE  SnapshotsOf(notes) \subseteq Snapshot
    BY DEF IsNotes, Row, SnapshotsOf, Snapshot

\* The tombstones of a restore are numbered from 1 to the size of Missing above
\* the current revision, in the order of the notes' ids.
LEMMA MissingRank ==
    ASSUME IsNotes(previous), NEW n \in Missing
    PROVE  LET rank(x) == Cardinality({m \in Missing : m <= x})
           IN  /\ rank(n) \in 1 .. Cardinality(NoteIds)
               /\ \A k \in Missing : k # n => rank(k) # rank(n)
<1> DEFINE upTo(x) == {m \in Missing : m <= x}
           rank(x) == Cardinality(upTo(x))
<1>1. Missing \subseteq NoteIds /\ NoteIds \subseteq Nat /\ IsFiniteSet(NoteIds)
    BY NoteIdsAssumption DEF Missing, IsNotes
<1>2. ASSUME NEW x \in Missing
      PROVE  /\ IsFiniteSet(upTo(x))
             /\ rank(x) \in 1 .. Cardinality(NoteIds)
  <2>1. x \in Nat
    BY <1>1
  <2>2. upTo(x) \subseteq NoteIds
    BY <1>1
  <2>3. upTo(x) \in SUBSET NoteIds /\ x \in upTo(x)
    BY <2>1, <2>2
  <2>4. IsFiniteSet(upTo(x)) /\ rank(x) <= Cardinality(NoteIds)
    BY <2>3, <1>1, FS_Subset
  <2>5. rank(x) \in Nat /\ rank(x) # 0 /\ Cardinality(NoteIds) \in Nat
    BY <2>3, <2>4, <1>1, FS_CardinalityType, FS_EmptySet
  <2> QED
    BY <2>4, <2>5
<1>3. ASSUME NEW x \in Missing, NEW y \in Missing, x < y
      PROVE  rank(x) # rank(y)
  <2>1. upTo(x) \in SUBSET upTo(y)
    <3>1. ASSUME NEW m \in Missing, m <= x
          PROVE  m <= y
      BY <1>1, <1>3, <3>1
    <3> QED
      BY <3>1
  <2>2. y \in upTo(y) /\ y \notin upTo(x)
    BY <1>1, <1>3
  <2> QED
    BY <2>1, <2>2, <1>2, FS_Subset
<1>4. \A k \in Missing : k # n => k < n \/ n < k
    BY <1>1
<1> HIDE DEF upTo
<1>5. \A k \in Missing : k # n => rank(k) # rank(n)
    BY <1>3, <1>4
<1> QED
    BY <1>2, <1>5 DEF upTo

-----------------------------------------------------------------------------
(* Histories *)

\* Rows stored with distinct revisions above the current one extend a history.
LEMMA StoreHistory ==
    ASSUME NEW image, IsDatabase(image), HistoryOK(image),
           NEW rows, IsNotes(rows),
           \A n \in DOMAIN rows : rows[n].revision > CurrentRevision(image.notes),
           \A m, n \in DOMAIN rows : m # n => rows[m].revision # rows[n].revision
    PROVE  HistoryOK(Store(image, rows))
<1> DEFINE old == image.notes
           new == Upsert(old, rows)
<1>1. /\ IsNotes(old) /\ IsNotes(new)
      /\ image.snapshots \subseteq Snapshot
    BY DEF IsDatabase, IsNotes, Upsert
<1>2. /\ DOMAIN new = DOMAIN old \cup DOMAIN rows
      /\ \A n \in DOMAIN rows : new[n] = rows[n]
      /\ \A n \in DOMAIN old \ DOMAIN rows : new[n] = old[n]
    BY DEF Upsert
<1>3. /\ Store(image, rows).notes = new
      /\ Store(image, rows).snapshots = image.snapshots \cup SnapshotsOf(rows)
    BY DEF Store
<1>4. /\ CurrentRevision(old) \in Nat /\ CurrentRevision(new) \in Nat
      /\ \A n \in DOMAIN old : old[n].revision \in Nat /\ old[n].revision <= CurrentRevision(old)
      /\ \A n \in DOMAIN new : new[n].revision \in Nat /\ new[n].revision <= CurrentRevision(new)
    BY <1>1, RevisionIsGreatest, BoundsAssumption DEF IsNotes, Row
<1>5. CurrentRevision(old) <= CurrentRevision(new)
  <2>1. CASE DOMAIN rows = {}
    <3>1. new = old
      BY <1>1, <2>1 DEF Upsert, IsNotes
    <3> QED
      BY <3>1, <1>4
  <2>2. CASE DOMAIN rows # {}
    BY <1>2, <1>4, <2>2
  <2> QED
    BY <2>1, <2>2
<1>6. \A s \in SnapshotsOf(rows) :
          /\ s.note \in DOMAIN rows
          /\ s.revision = rows[s.note].revision
          /\ s.change = rows[s.note].change
          /\ s = [note |-> s.note, revision |-> s.revision, change |-> s.change]
    BY DEF SnapshotsOf
<1>7. \A s \in image.snapshots :
          s.revision \in Nat /\ s.revision <= CurrentRevision(old)
    BY <1>1, BoundsAssumption DEF HistoryOK, SnapshotsBehindRows, Snapshot
<1> HIDE DEF old, new
<1>8. NoSharedRevision(Store(image, rows).notes)
  <2>1. ASSUME NEW m \in DOMAIN new, NEW n \in DOMAIN new, m # n
        PROVE  new[m].revision # new[n].revision
    <3>1. CASE m \in DOMAIN rows /\ n \in DOMAIN rows
      BY <1>2, <2>1, <3>1
    <3>2. CASE m \in DOMAIN rows /\ n \notin DOMAIN rows
      BY <1>2, <1>4, <3>2 DEF old
    <3>3. CASE m \notin DOMAIN rows /\ n \in DOMAIN rows
      BY <1>2, <1>4, <3>3 DEF old
    <3>4. CASE m \notin DOMAIN rows /\ n \notin DOMAIN rows
      BY <1>2, <2>1, <3>4 DEF old, HistoryOK, NoSharedRevision
    <3> QED
      BY <3>1, <3>2, <3>3, <3>4
  <2> QED
    BY <1>3, <2>1 DEF NoSharedRevision
<1>9. SnapshotsDistinct(Store(image, rows))
  <2>1. ASSUME NEW s \in image.snapshots, NEW t \in image.snapshots, s.revision = t.revision
        PROVE  s = t
    BY <2>1 DEF HistoryOK, SnapshotsDistinct
  <2>2. ASSUME NEW s \in image.snapshots, NEW t \in SnapshotsOf(rows)
        PROVE  s.revision # t.revision
    BY <1>4, <1>6, <1>7 DEF old
  <2>3. ASSUME NEW s \in SnapshotsOf(rows), NEW t \in SnapshotsOf(rows),
               s.revision = t.revision
        PROVE  s = t
    BY <1>6, <2>3
  <2> QED
    BY <1>3, <2>1, <2>2, <2>3 DEF SnapshotsDistinct
<1>10. SnapshotsBehindRows(Store(image, rows))
  <2>1. ASSUME NEW s \in image.snapshots
        PROVE  /\ s.revision <= CurrentRevision(new)
               /\ \A n \in DOMAIN new :
                      s.revision = new[n].revision => s.note = n /\ s.change = new[n].change
    <3>1. s.revision <= CurrentRevision(new)
      BY <1>4, <1>5, <1>7
    <3>2. ASSUME NEW n \in DOMAIN new, s.revision = new[n].revision
          PROVE  s.note = n /\ s.change = new[n].change
      <4>1. n \notin DOMAIN rows
        BY <1>2, <1>4, <1>7, <3>2 DEF old
      <4> QED
        BY <1>2, <3>2, <4>1 DEF old, HistoryOK, SnapshotsBehindRows
    <3> QED
      BY <3>1, <3>2
  <2>2. ASSUME NEW s \in SnapshotsOf(rows)
        PROVE  /\ s.revision <= CurrentRevision(new)
               /\ \A n \in DOMAIN new :
                      s.revision = new[n].revision => s.note = n /\ s.change = new[n].change
    <3>1. s.note \in DOMAIN new /\ s.revision = new[s.note].revision
      BY <1>2, <1>6
    <3>2. ASSUME NEW n \in DOMAIN new, s.revision = new[n].revision
          PROVE  s.note = n
      BY <1>3, <1>8, <3>1, <3>2 DEF NoSharedRevision
    <3> QED
      BY <1>2, <1>4, <1>6, <3>1, <3>2
  <2> QED
    BY <1>3, <2>1, <2>2 DEF SnapshotsBehindRows
<1> QED
    BY <1>8, <1>9, <1>10 DEF HistoryOK

\* A database without rows and snapshots is a history.
LEMMA EmptyFileHistory == HistoryOK(EmptyFile)
    BY DEF HistoryOK, NoSharedRevision, SnapshotsDistinct, SnapshotsBehindRows,
           EmptyFile, NoNotes

-----------------------------------------------------------------------------
(* The inductive invariant *)

\* No request is one that TypeOK allows.
LEMMA NoRequestType ==
    {} \subseteq [note: NoteIds, change: Change] /\ Cardinality({}) <= MaxBatch
    BY FS_EmptySet, LimitsAssumption

\* The first start finds no file: the invariant holds at once.
LEMMA InitInv == Init => Inv
<1> SUFFICES ASSUME Init PROVE Inv
    OBVIOUS
<1>1. TypeOK
    BY EmptyFileType, NoNotesType, NoRequestType, BoundsAssumption, LimitsAssumption DEF Init, TypeOK
<1>2. HistoryConsistent
    BY EmptyFileHistory DEF Init, HistoryConsistent
<1>3. RestoreInProgress
    BY DEF Init, RestoreInProgress
<1> QED
    BY <1>1, <1>2, <1>3 DEF Inv

\* backfill_missing_snapshots adds what the history lacks and nothing else.
LEMMA OpenStep == Inv /\ Open => Inv'
<1> SUFFICES ASSUME Inv, Open PROVE Inv'
    OBVIOUS
<1> DEFINE covered == {<<s.note, s.revision>> : s \in db.snapshots}
           backfill == {s \in SnapshotsOf(db.notes) : <<s.note, s.revision>> \notin covered}
<1>1. db' = [tables |-> TRUE, notes |-> db.notes, snapshots |-> db.snapshots \cup backfill]
    BY DEF Open, Backfilled
<1>2. IsDatabase(db) /\ HistoryOK(db)
    BY DEF Inv, TypeOK, HistoryConsistent
<1>3. \A s \in backfill :
          /\ s \in SnapshotsOf(db.notes)
          /\ s.note \in DOMAIN db.notes
          /\ s.revision = db.notes[s.note].revision
          /\ s.change = db.notes[s.note].change
          /\ s = [note |-> s.note, revision |-> s.revision, change |-> s.change]
          /\ \A t \in db.snapshots : ~(t.note = s.note /\ t.revision = s.revision)
    BY DEF SnapshotsOf
<1> HIDE DEF backfill
<1>4. IsDatabase(db')
    BY <1>1, <1>2, <1>3, SnapshotsOfType DEF IsDatabase
<1>5. watch' \in 0 .. MaxRevision
    BY <1>2, RevisionIsGreatest DEF Open, Backfilled, IsDatabase
<1>6. TypeOK'
    BY <1>4, <1>5 DEF Inv, TypeOK, Open
<1>7. SnapshotsDistinct(db')
  <2>1. ASSUME NEW s \in db.snapshots, NEW t \in backfill
        PROVE  s.revision # t.revision
    BY <1>2, <1>3 DEF HistoryOK, SnapshotsBehindRows
  <2>2. ASSUME NEW s \in backfill, NEW t \in backfill, s.revision = t.revision
        PROVE  s = t
    BY <1>2, <1>3, <2>2 DEF HistoryOK, NoSharedRevision
  <2> QED
    BY <1>1, <1>2, <2>1, <2>2 DEF HistoryOK, SnapshotsDistinct
<1>8. SnapshotsBehindRows(db')
  <2>1. ASSUME NEW s \in backfill
        PROVE  /\ s.revision <= CurrentRevision(db.notes)
               /\ \A n \in DOMAIN db.notes :
                      s.revision = db.notes[n].revision =>
                          s.note = n /\ s.change = db.notes[n].change
    BY <1>2, <1>3, RevisionIsGreatest DEF HistoryOK, NoSharedRevision, IsDatabase
  <2> QED
    BY <1>1, <1>2, <2>1 DEF HistoryOK, SnapshotsBehindRows
<1>9. NoSharedRevision(db'.notes)
    BY <1>1, <1>2 DEF HistoryOK, NoSharedRevision
<1>10. HistoryConsistent'
    BY <1>7, <1>8, <1>9 DEF Inv, HistoryConsistent, HistoryOK, Open, Backfilled
<1>11. RestoreInProgress'
    BY DEF Open, RestoreInProgress
<1> QED
    BY <1>6, <1>10, <1>11 DEF Inv

\* The transaction starts as a copy of the database.
LEMMA PushBeginStep == Inv /\ PushBegin => Inv'
<1> SUFFICES ASSUME Inv, PushBegin PROVE Inv'
    OBVIOUS
<1> USE DEF Inv, PushBegin
<1>1. TypeOK'
    BY NoRequestType, BoundsAssumption, LimitsAssumption DEF TypeOK
<1>2. HistoryConsistent'
    BY DEF HistoryConsistent
<1>3. RestoreInProgress'
    BY DEF RestoreInProgress
<1> QED
    BY <1>1, <1>2, <1>3

\* FillDevice turns what a client sends into what the table holds.
LEMMA FillDeviceType ==
    ASSUME device \in Devices, NEW incoming \in PushedChanges
    PROVE  FillDevice(incoming) \in Change
    BY ChangesAssumption DEF FillDevice, IncomingChange, Change

\* A change accepted by a push takes the revision above all others.
LEMMA PushChangeStep == Inv /\ PushChange => Inv'
<1> SUFFICES ASSUME Inv, PushChange PROVE Inv'
    OBVIOUS
<1>0. device \in Devices
    BY DEF Inv, TypeOK, PushChange
<1>1. IsDatabase(tx) /\ HistoryOK(tx)
    BY DEF Inv, TypeOK, HistoryConsistent
<1>2. IsDatabase(tx') /\ HistoryOK(tx')
  <2>1. CASE tx' = tx
    BY <1>1, <2>1
  <2>2. CASE tx' # tx
    <3>1. PICK note \in NoteIds, incoming \in PushedChanges :
              LET revision == CurrentRevision(tx.notes) + 1
              IN  /\ revision <= MaxRevision
                  /\ tx' = Store(tx, [n \in {note} |->
                               [change |-> FillDevice(incoming), revision |-> revision]])
      BY <2>2 DEF PushChange
    <3> DEFINE revision == CurrentRevision(tx.notes) + 1
               rows == [n \in {note} |-> [change |-> FillDevice(incoming), revision |-> revision]]
    <3>2. CurrentRevision(tx.notes) \in Nat /\ revision \in 1 .. MaxRevision
      BY <1>1, <3>1, RevisionIsGreatest, BoundsAssumption DEF IsDatabase
    <3>3. IsNotes(rows)
      BY <1>0, <3>2, FillDeviceType DEF IsNotes, Row
    <3>4. DOMAIN rows = {note} /\ rows[note].revision = revision
      OBVIOUS
    <3>5. tx' = Store(tx, rows)
      BY <3>1
    <3>6. revision > CurrentRevision(tx.notes)
      BY <3>2
    <3> HIDE DEF rows, revision
    <3>7. IsDatabase(Store(tx, rows))
      BY <1>1, <3>3, StoreType
    <3>8. HistoryOK(Store(tx, rows))
      BY <1>1, <3>3, <3>4, <3>6, StoreHistory
    <3> QED
      BY <3>5, <3>7, <3>8
  <2> QED
    BY <2>1, <2>2
<1>3. TypeOK'
  <2>1. request' \subseteq [note: NoteIds, change: Change] /\ Cardinality(request') <= MaxBatch
    <3>1. PICK note \in NoteIds, incoming \in PushedChanges :
              request' = request \cup {[note |-> note, change |-> FillDevice(incoming)]}
      BY DEF PushChange
    <3>2. FillDevice(incoming) \in Change
      BY <1>0, FillDeviceType
    <3> QED
      BY <3>1, <3>2 DEF Inv, TypeOK, PushChange
  <2> QED
    BY <1>2, <2>1 DEF Inv, TypeOK, PushChange
<1>4. HistoryConsistent'
    BY <1>2 DEF Inv, HistoryConsistent, PushChange
<1>5. RestoreInProgress'
    BY DEF Inv, PushChange, RestoreInProgress
<1> QED
    BY <1>3, <1>4, <1>5 DEF Inv

\* The transaction's history becomes the database's.
LEMMA PushCommitStep == Inv /\ PushCommit => Inv'
<1> SUFFICES ASSUME Inv, PushCommit PROVE Inv'
    OBVIOUS
<1> USE DEF Inv, PushCommit
<1>1. TypeOK'
    BY EmptyFileType, NoRequestType, LimitsAssumption DEF TypeOK
<1>2. HistoryConsistent'
    BY EmptyFileHistory DEF HistoryConsistent
<1>3. RestoreInProgress'
    BY DEF RestoreInProgress
<1> QED
    BY <1>1, <1>2, <1>3

\* A dropped transaction leaves the database as it was.
LEMMA PushFailsStep == Inv /\ PushFails => Inv'
<1> SUFFICES ASSUME Inv, PushFails PROVE Inv'
    OBVIOUS
<1> USE DEF Inv, PushFails
<1>1. TypeOK'
    BY EmptyFileType, NoRequestType, LimitsAssumption DEF TypeOK
<1>2. HistoryConsistent'
    BY EmptyFileHistory DEF HistoryConsistent
<1>3. RestoreInProgress'
    BY DEF RestoreInProgress
<1> QED
    BY <1>1, <1>2, <1>3

\* A backup is at every moment an empty file or a copy of the database.
LEMMA BackupStep == Inv /\ Backup => Inv'
<1> SUFFICES ASSUME Inv, Backup PROVE Inv'
    OBVIOUS
<1> USE DEF Inv
<1>1. ASSUME NEW f \in BackupFiles, BackupBegin(f)
      PROVE  Inv'
  <2>1. TypeOK'
    BY <1>1, EmptyFileType DEF BackupBegin, TypeOK
  <2>2. HistoryConsistent'
    BY <1>1, EmptyFileHistory DEF BackupBegin, HistoryConsistent
  <2>3. RestoreInProgress'
    BY <1>1 DEF BackupBegin, RestoreInProgress
  <2> QED
    BY <2>1, <2>2, <2>3
<1>2. CASE BackupFinish
  <2>1. TypeOK'
    BY <1>2 DEF BackupFinish, TypeOK
  <2>2. HistoryConsistent'
    BY <1>2 DEF BackupFinish, HistoryConsistent
  <2>3. RestoreInProgress'
    BY <1>2 DEF BackupFinish, RestoreInProgress
  <2> QED
    BY <2>1, <2>2, <2>3
<1>3. CASE BackupFails
  <2>1. TypeOK'
    BY <1>3, LimitsAssumption DEF BackupFails, TypeOK
  <2>2. HistoryConsistent'
    BY <1>3 DEF BackupFails, HistoryConsistent
  <2>3. RestoreInProgress'
    BY <1>3 DEF BackupFails, RestoreInProgress
  <2> QED
    BY <2>1, <2>2, <2>3
<1> QED
    BY <1>1, <1>2, <1>3 DEF Backup

\* What a crash loses is not part of any history.
LEMMA CrashStep == Inv /\ Crash => Inv'
<1> SUFFICES ASSUME Inv, Crash PROVE Inv'
    OBVIOUS
<1> USE DEF Inv, Crash
<1>1. TypeOK'
    BY EmptyFileType, NoNotesType, NoRequestType, BoundsAssumption, LimitsAssumption DEF TypeOK
<1>2. HistoryConsistent'
    BY EmptyFileHistory DEF HistoryConsistent
<1>3. RestoreInProgress'
    BY DEF RestoreInProgress
<1> QED
    BY <1>1, <1>2, <1>3

\* Nor is what an orderly stop loses.
LEMMA StopStep == Inv /\ Stop => Inv'
<1> SUFFICES ASSUME Inv, Stop PROVE Inv'
    OBVIOUS
<1> USE DEF Inv, Stop
<1>1. TypeOK'
    BY NoRequestType, BoundsAssumption, LimitsAssumption DEF TypeOK
<1>2. HistoryConsistent'
    BY DEF HistoryConsistent
<1>3. RestoreInProgress'
    BY DEF RestoreInProgress
<1> QED
    BY <1>1, <1>2, <1>3

\* A restore begins with one history in place of another, and room above both.
LEMMA RestoreCopyStep ==
    ASSUME Inv, NEW f \in BackupFiles, RestoreCopy(f)
    PROVE  Inv'
<1> USE DEF Inv, RestoreCopy
<1>1. TypeOK'
    BY DEF TypeOK, IsDatabase
<1>2. HistoryConsistent'
    BY DEF HistoryConsistent
<1>3. RestoreInProgress'
  <2>1. IsNotes(db.notes) /\ IsNotes(backups[f].notes)
    BY DEF TypeOK, IsDatabase
  <2>2. /\ CurrentRevision(db.notes) \in Nat
        /\ CurrentRevision(backups[f].notes) \in Nat
        /\ Cardinality(NoteIds) \in Nat
    BY <2>1, RevisionIsGreatest, BoundsAssumption, NoteIdsAssumption, FS_CardinalityType
  <2> QED
    BY <2>2, BoundsAssumption DEF RestoreInProgress
<1> QED
    BY <1>1, <1>2, <1>3

\* Leaving a restore early, or skipping the rebase, changes no note.
LEMMA RestoreLeavesDatabase ==
    ASSUME Inv, RestoreWithoutTables \/ RestoreSkipsRebase \/ RestoreFails
    PROVE  Inv'
<1> USE DEF Inv
<1>1. db' = db /\ tx' = tx /\ backups' = backups
    BY DEF RestoreWithoutTables, RestoreSkipsRebase, RestoreFails
<1>2. TypeOK'
    BY NoNotesType, LimitsAssumption
    DEF TypeOK, RestoreWithoutTables, RestoreSkipsRebase, RestoreFails
<1>3. HistoryConsistent'
    BY <1>1 DEF HistoryConsistent
<1>4. RestoreInProgress'
  <2>1. CASE pc' = "free"
    BY <2>1 DEF RestoreInProgress
  <2>2. CASE RestoreSkipsRebase
    <3>1. IsNotes(db.notes) /\ IsNotes(previous)
      BY DEF TypeOK, IsDatabase
    <3>2. /\ CurrentRevision(db.notes) \in Nat
          /\ CurrentRevision(previous) \in Nat
          /\ Cardinality(NoteIds) \in Nat
      BY <3>1, RevisionIsGreatest, BoundsAssumption, NoteIdsAssumption, FS_CardinalityType
    <3> QED
      BY <2>2, <3>2, BoundsAssumption DEF RestoreSkipsRebase, RestoreInProgress
  <2> QED
    BY <2>1, <2>2 DEF RestoreWithoutTables, RestoreFails
<1> QED
    BY <1>2, <1>3, <1>4

\* After the first UPDATE every row is above every snapshot, and the snapshots,
\* moved by the same offset, are again a history of the rows.
LEMMA RebaseNotesStep == Inv /\ RebaseNotes => Inv'
<1> SUFFICES ASSUME Inv, RebaseNotes PROVE Inv'
    OBVIOUS
<1> DEFINE offset == CurrentRevision(previous)
           top == CurrentRevision(db.notes)
           notes == [n \in DOMAIN db.notes |-> RebasedRow(n)]
<1>1. /\ IsDatabase(db) /\ HistoryOK(db) /\ IsNotes(db.notes) /\ IsNotes(previous)
      /\ offset + top + Cardinality(NoteIds) <= MaxRevision
      /\ db' = [tables |-> TRUE, notes |-> notes, snapshots |-> db.snapshots]
    BY DEF Inv, TypeOK, IsDatabase, HistoryConsistent, RestoreInProgress, RebaseNotes
<1>2. /\ offset \in Nat /\ top \in Nat /\ Cardinality(NoteIds) \in Nat
      /\ top <= offset
    BY <1>1, RevisionIsGreatest, BoundsAssumption, NoteIdsAssumption, FS_CardinalityType
    DEF RebaseNotes, RebaseNeeded
<1>3. /\ \A n \in DOMAIN db.notes : db.notes[n].revision \in 1 .. top
      /\ top # 0 => \E n \in DOMAIN db.notes : db.notes[n].revision = top
    BY <1>1, <1>2, RevisionIsGreatest, BoundsAssumption DEF IsNotes, Row
<1>4. /\ DOMAIN notes = DOMAIN db.notes
      /\ \A n \in DOMAIN notes :
             /\ notes[n].revision = db.notes[n].revision + offset
             /\ notes[n].change = db.notes[n].change
             /\ notes[n] \in Row
  <2>1. ASSUME NEW n \in DOMAIN db.notes
        PROVE  /\ RebasedRow(n).revision = db.notes[n].revision + offset
               /\ RebasedRow(n).change = db.notes[n].change
               /\ RebasedRow(n) \in Row
    <3>1. db.notes[n].change \in Change
      BY <1>1 DEF IsNotes, Row
    <3>2. db.notes[n].revision + offset \in 1 .. MaxRevision
      BY <1>1, <1>2, <1>3, BoundsAssumption
    <3> QED
      BY <3>1, <3>2 DEF RebasedRow, Row
  <2> QED
    BY <2>1
<1>5. IsNotes(notes)
    BY <1>1, <1>4 DEF IsNotes
<1>6. /\ CurrentRevision(notes) \in Nat
      /\ \A n \in DOMAIN notes : notes[n].revision <= CurrentRevision(notes)
      /\ CurrentRevision(notes) # 0 =>
             \E n \in DOMAIN notes : notes[n].revision = CurrentRevision(notes)
    BY <1>5, RevisionIsGreatest, BoundsAssumption
<1>7. \A s \in db.snapshots : s.revision \in 1 .. top
    BY <1>1, <1>2, BoundsAssumption
    DEF HistoryOK, SnapshotsBehindRows, IsDatabase, Snapshot
<1>8. CurrentRevision(notes) <= top + offset
    BY <1>2, <1>3, <1>4, <1>6
<1>9. top # 0 => top + offset <= CurrentRevision(notes)
    BY <1>3, <1>4, <1>6
<1> HIDE DEF notes, top, offset
<1>10. IsDatabase(db')
    BY <1>1, <1>5 DEF IsDatabase
<1>11. TypeOK'
    BY <1>10 DEF Inv, TypeOK, RebaseNotes
<1>12. HistoryOK(db')
  <2>1. NoSharedRevision(db'.notes)
    BY <1>1, <1>2, <1>3, <1>4 DEF HistoryOK, NoSharedRevision
  <2>2. SnapshotsDistinct(db')
    BY <1>1 DEF HistoryOK, SnapshotsDistinct
  <2>3. SnapshotsBehindRows(db')
    BY <1>1, <1>2, <1>3, <1>4, <1>6, <1>7, <1>9 DEF SnapshotsBehindRows
  <2> QED
    BY <2>1, <2>2, <2>3 DEF HistoryOK
<1>13. HistoryConsistent'
    BY <1>12 DEF Inv, HistoryConsistent, RebaseNotes
<1>14. RestoreInProgress'
  <2>1. /\ pc' = "rebasing" /\ db'.notes = notes /\ db'.snapshots = db.snapshots
        /\ CurrentRevision(previous') = offset
    BY <1>1 DEF RebaseNotes, offset
  <2>2. CurrentRevision(notes) + Cardinality(NoteIds) <= MaxRevision
    BY <1>1, <1>2, <1>6, <1>8, BoundsAssumption
  <2>3. ASSUME NEW s \in db.snapshots
        PROVE  s.revision + offset <= CurrentRevision(notes)
    BY <1>2, <1>6, <1>7, <1>9
  <2>4. ASSUME NEW s \in db.snapshots, NEW n \in DOMAIN notes,
               s.revision + offset = notes[n].revision
        PROVE  s.note = n /\ s.change = notes[n].change
    <3>1. s.revision = db.notes[n].revision
      BY <1>2, <1>3, <1>4, <1>7, <2>4
    <3> QED
      BY <1>1, <1>4, <3>1 DEF HistoryOK, SnapshotsBehindRows
  <2> QED
    BY <2>1, <2>2, <2>3, <2>4 DEF RestoreInProgress
<1> QED
    BY <1>11, <1>13, <1>14 DEF Inv

\* The second UPDATE catches up with the first: the snapshots are a history again.
LEMMA RebaseSnapshotsStep == Inv /\ RebaseSnapshots => Inv'
<1> SUFFICES ASSUME Inv, RebaseSnapshots PROVE Inv'
    OBVIOUS
<1> DEFINE offset == CurrentRevision(previous)
           moved == {RebasedSnapshot(s) : s \in db.snapshots}
<1>1. /\ IsDatabase(db) /\ HistoryOK(db) /\ IsNotes(db.notes) /\ IsNotes(previous)
      /\ db' = [tables |-> TRUE, notes |-> db.notes, snapshots |-> moved]
    BY DEF Inv, TypeOK, IsDatabase, HistoryConsistent, RebaseSnapshots
<1>2. offset \in Nat /\ CurrentRevision(db.notes) \in 0 .. MaxRevision
    BY <1>1, RevisionIsGreatest, BoundsAssumption
<1>3. \A s \in db.snapshots :
          /\ s.note \in NoteIds /\ s.change \in Change /\ s.revision \in Nat \ {0}
          /\ s.revision + offset <= CurrentRevision(db.notes)
          /\ \A n \in DOMAIN db.notes :
                 s.revision + offset = db.notes[n].revision =>
                     s.note = n /\ s.change = db.notes[n].change
    BY <1>1, BoundsAssumption
    DEF IsDatabase, Snapshot, Inv, RestoreInProgress, RebaseSnapshots
<1>4. \A t \in moved : \E s \in db.snapshots :
          t = [note |-> s.note, revision |-> s.revision + offset, change |-> s.change]
    BY DEF RebasedSnapshot
<1> HIDE DEF moved, offset
<1>5. moved \subseteq Snapshot
    BY <1>2, <1>3, <1>4, BoundsAssumption DEF Snapshot
<1>6. IsDatabase(db')
    BY <1>1, <1>5 DEF IsDatabase
<1>7. TypeOK'
    BY <1>6 DEF Inv, TypeOK, RebaseSnapshots
<1>8. NoSharedRevision(db'.notes)
    BY <1>1 DEF HistoryOK, NoSharedRevision
<1>9. SnapshotsDistinct(db')
  <2>1. ASSUME NEW s \in moved, NEW t \in moved, s.revision = t.revision
        PROVE  s = t
    <3>1. PICK u \in db.snapshots :
              s = [note |-> u.note, revision |-> u.revision + offset, change |-> u.change]
      BY <1>4
    <3>2. PICK v \in db.snapshots :
              t = [note |-> v.note, revision |-> v.revision + offset, change |-> v.change]
      BY <1>4
    <3>3. u.revision = v.revision
      BY <1>2, <1>3, <2>1, <3>1, <3>2
    <3>4. u = v
      BY <1>1, <3>3 DEF HistoryOK, SnapshotsDistinct
    <3> QED
      BY <3>1, <3>2, <3>4
  <2> QED
    BY <1>1, <2>1 DEF SnapshotsDistinct
<1>10. SnapshotsBehindRows(db')
    BY <1>1, <1>3, <1>4 DEF SnapshotsBehindRows
<1>11. HistoryConsistent'
    BY <1>8, <1>9, <1>10 DEF Inv, HistoryConsistent, HistoryOK, RebaseSnapshots
<1>12. RestoreInProgress'
    BY <1>1 DEF Inv, RestoreInProgress, RebaseSnapshots
<1> QED
    BY <1>7, <1>11, <1>12 DEF Inv

\* A tombstone is a change like those the devices push.
LEMMA TombstoneType ==
    ASSUME NEW change \in Change, NEW now \in Times
    PROVE  Tombstone(change, now) \in Change
    BY BoundsAssumption DEF Tombstone, Later, ChangeTime, Change, Times, NotDeleted

\* Tombstones get revisions that no row and no snapshot has.
LEMMA EmitTombstonesStep == Inv /\ EmitTombstones => Inv'
<1> SUFFICES ASSUME Inv, EmitTombstones PROVE Inv'
    OBVIOUS
<1>1. PICK now \in Times : db' = Store(db, [n \in Missing |-> TombstoneRow(n, now)])
    BY DEF EmitTombstones
<1> DEFINE rows == [n \in Missing |-> TombstoneRow(n, now)]
           top == CurrentRevision(db.notes)
           rank(n) == Cardinality({m \in Missing : m <= n})
<1>2. /\ IsDatabase(db) /\ HistoryOK(db) /\ IsNotes(db.notes) /\ IsNotes(previous)
      /\ top + Cardinality(NoteIds) <= MaxRevision
    BY DEF Inv, TypeOK, IsDatabase, HistoryConsistent, RestoreInProgress, EmitTombstones
<1>3. top \in Nat /\ Cardinality(NoteIds) \in Nat
    BY <1>2, RevisionIsGreatest, BoundsAssumption, NoteIdsAssumption, FS_CardinalityType
<1>4. ASSUME NEW n \in Missing
      PROVE  /\ rank(n) \in 1 .. Cardinality(NoteIds)
             /\ \A k \in Missing : k # n => rank(k) # rank(n)
    BY <1>2, MissingRank
<1>5. ASSUME NEW n \in Missing
      PROVE  /\ n \in NoteIds
             /\ rows[n].revision = top + rank(n)
             /\ rows[n] \in Row
  <2>1. n \in NoteIds /\ previous[n].change \in Change
    BY <1>2 DEF Missing, IsNotes, Row
  <2>2. Tombstone(previous[n].change, now) \in Change
    BY <2>1, TombstoneType
  <2>3. top + rank(n) \in 1 .. MaxRevision
    BY <1>2, <1>3, <1>4, BoundsAssumption
  <2> QED
    BY <2>1, <2>2, <2>3 DEF TombstoneRow, Row
<1>6. DOMAIN rows = Missing /\ rows = [n \in Missing |-> rows[n]]
    OBVIOUS
<1> HIDE DEF rows, top, rank
<1>7. IsNotes(rows)
    BY <1>5, <1>6 DEF IsNotes
<1>8. \A n \in DOMAIN rows : rows[n].revision > CurrentRevision(db.notes)
    BY <1>3, <1>4, <1>5, <1>6 DEF top
<1>9. \A m, n \in DOMAIN rows : m # n => rows[m].revision # rows[n].revision
    BY <1>3, <1>4, <1>5, <1>6
<1>10. IsDatabase(Store(db, rows))
    BY <1>2, <1>7, StoreType
<1>11. HistoryOK(Store(db, rows))
    BY <1>2, <1>7, <1>8, <1>9, StoreHistory
<1>12. IsDatabase(db') /\ HistoryOK(db')
    BY <1>1, <1>10, <1>11 DEF rows
<1>13. TypeOK'
    BY <1>12, NoNotesType DEF Inv, TypeOK, EmitTombstones
<1>14. HistoryConsistent'
    BY <1>12 DEF Inv, HistoryConsistent, EmitTombstones
<1>15. RestoreInProgress'
    BY DEF RestoreInProgress, EmitTombstones
<1> QED
    BY <1>13, <1>14, <1>15 DEF Inv

\* The waiters are told a revision of the database's.
LEMMA NotifyStep == Inv /\ Notify => Inv'
<1> SUFFICES ASSUME Inv, Notify PROVE Inv'
    OBVIOUS
<1> USE DEF Inv, Notify
<1>1. CurrentRevision(db.notes) \in 0 .. MaxRevision
    BY RevisionIsGreatest DEF TypeOK, IsDatabase
<1>2. TypeOK'
    BY <1>1 DEF TypeOK
<1>3. HistoryConsistent'
    BY DEF HistoryConsistent
<1>4. RestoreInProgress'
    BY DEF RestoreInProgress
<1> QED
    BY <1>2, <1>3, <1>4

\* Every step of every operation preserves the invariant.
LEMMA NextInv == Inv /\ [Next]_vars => Inv'
<1> SUFFICES ASSUME Inv, [Next]_vars PROVE Inv'
    OBVIOUS
<1>1. CASE Open
    BY <1>1, OpenStep
<1>2. CASE Push
    BY <1>2, PushBeginStep, PushChangeStep, PushCommitStep, PushFailsStep DEF Push
<1>3. CASE Backup
    BY <1>3, BackupStep
<1>4. CASE Restore
    BY <1>4, RestoreCopyStep, RestoreLeavesDatabase, RebaseNotesStep, RebaseSnapshotsStep,
       EmitTombstonesStep DEF Restore
<1>5. CASE Notify \/ Stop \/ Crash
    BY <1>5, NotifyStep, StopStep, CrashStep
<1>6. CASE UNCHANGED vars
  <2>1. TypeOK'
    BY <1>6 DEF Inv, TypeOK, vars
  <2>2. HistoryConsistent'
    BY <1>6 DEF Inv, HistoryConsistent, vars
  <2>3. RestoreInProgress'
    BY <1>6 DEF Inv, RestoreInProgress, vars
  <2> QED
    BY <2>1, <2>2, <2>3 DEF Inv
<1> QED
    BY <1>1, <1>2, <1>3, <1>4, <1>5, <1>6 DEF Next

\* Every reachable state satisfies the inductive invariant.
THEOREM SpecInv == Spec => []Inv
    BY InitInv, NextInv, PTL DEF Spec

\* Every variable keeps its type: no step stores a row, a snapshot or a backup
\* that is not one, or a revision outside 1 .. MaxRevision.
THEOREM SpecTypeOK == Spec => []TypeOK
<1>1. Inv => TypeOK
    BY DEF Inv
<1> QED
    BY <1>1, SpecInv, PTL

\* Whatever is pushed, backed up and restored, and wherever the process dies or a
\* statement fails, a revision names one change of one note in the history of the
\* database, of the open transaction and of every backup.
THEOREM SpecHistoryConsistent == Spec => []HistoryConsistent
<1>1. Inv => HistoryConsistent
    BY DEF Inv
<1> QED
    BY <1>1, SpecInv, PTL

\* Between any two writes of a restore, the revisions still to be assigned fit, and
\* the snapshots are, or with the second UPDATE will be, a history of the rows.
THEOREM SpecRestoreInProgress == Spec => []RestoreInProgress
<1>1. Inv => RestoreInProgress
    BY DEF Inv
<1> QED
    BY <1>1, SpecInv, PTL

-----------------------------------------------------------------------------
(* A push: last write wins, and only above what it started from *)

\* One more change of a request: stored above all revisions, or skipped as older.
LEMMA PushChangeProgress == Inv /\ PushInProgress /\ PushChange => PushInProgress'
<1> SUFFICES ASSUME Inv, PushInProgress, PushChange PROVE PushInProgress'
    OBVIOUS
<1>1. /\ IsNotes(db.notes) /\ IsNotes(tx.notes)
      /\ pc = "push" /\ db' = db
      /\ device \in Devices
      /\ \A i \in request : i.change \in Change
      /\ tx.tables /\ LatestWins(tx.notes, db.notes, request)
    BY DEF Inv, TypeOK, IsDatabase, PushChange, PushInProgress
<1>2. PICK note \in NoteIds, incoming \in PushedChanges :
          LET change == FillDevice(incoming)
              revision == CurrentRevision(tx.notes) + 1
          IN  /\ request' = request \cup {[note |-> note, change |-> change]}
              /\ IF note \in DOMAIN tx.notes /\ Ignored(change, tx.notes[note].change)
                 THEN tx' = tx
                 ELSE /\ revision <= MaxRevision
                      /\ tx' = Store(tx, [n \in {note} |->
                                             [change |-> change, revision |-> revision]])
    BY DEF PushChange
<1> DEFINE change == FillDevice(incoming)
           revision == CurrentRevision(tx.notes) + 1
           row == [change |-> change, revision |-> revision]
<1>3. /\ change \in Change
      /\ ChangeTime(change) \in Nat
      /\ \A n \in DOMAIN tx.notes : ChangeTime(tx.notes[n].change) \in Nat
    BY <1>1, FillDeviceType, ChangeTimeType DEF IsNotes, Row
<1>4. CASE note \in DOMAIN tx.notes /\ Ignored(change, tx.notes[note].change)
  <2>1. /\ tx' = tx /\ note \in DOMAIN tx.notes
        /\ request' = request \cup {[note |-> note, change |-> change]}
    BY <1>2, <1>4
  <2>2. \/ ChangeTime(tx.notes[note].change) > ChangeTime(change)
        \/ tx.notes[note].change = change
    BY <1>4 DEF Ignored
  <2> HIDE DEF change
  <2>3. LatestWins(tx.notes, db.notes, request')
    BY <1>1, <2>1, <2>2, LatestWinsSkipped
  <2> QED
    BY <1>1, <2>1, <2>3 DEF PushInProgress
<1>5. CASE ~(note \in DOMAIN tx.notes /\ Ignored(change, tx.notes[note].change))
  <2>1. /\ tx' = Store(tx, [n \in {note} |-> row])
        /\ request' = request \cup {[note |-> note, change |-> row.change]}
    BY <1>2, <1>5
  <2>2. /\ row.change \in Change /\ row.revision \in Nat
        /\ row.revision > CurrentRevision(tx.notes)
    BY <1>1, <1>3, RevisionIsGreatest, BoundsAssumption
  <2>3. note \in DOMAIN tx.notes => ChangeTime(row.change) >= ChangeTime(tx.notes[note].change)
    BY <1>3, <1>5 DEF Ignored
  <2> HIDE DEF row
  <2>4. LatestWins(Upsert(tx.notes, [n \in {note} |-> row]), db.notes, request')
    BY <1>1, <2>1, <2>2, <2>3, LatestWinsStored
  <2>5. tx'.notes = Upsert(tx.notes, [n \in {note} |-> row]) /\ tx'.tables = tx.tables
    BY <2>1 DEF Store
  <2> QED
    BY <1>1, <2>4, <2>5 DEF PushInProgress
<1> QED
    BY <1>4, <1>5

\* No step of another operation disturbs an open push.
LEMMA NextPushInProgress == Inv /\ PushInProgress /\ [Next]_vars => PushInProgress'
<1> SUFFICES ASSUME Inv, PushInProgress, [Next]_vars PROVE PushInProgress'
    OBVIOUS
<1>1. CASE PushBegin
    BY <1>1 DEF PushBegin, PushInProgress, LatestWins
<1>2. CASE PushChange
    BY <1>2, PushChangeProgress
<1>3. CASE PushCommit \/ PushFails \/ Open \/ Backup \/ Restore \/ Notify \/ Stop \/ Crash
    BY <1>3 DEF PushCommit, PushFails, Open, Backup, BackupBegin, BackupFinish, BackupFails,
                Restore, RestoreCopy, RestoreWithoutTables, RestoreSkipsRebase, RebaseNotes,
                RebaseSnapshots, EmitTombstones, RestoreFails, Notify, Stop, Crash,
                PushInProgress
<1>4. CASE UNCHANGED vars
    BY <1>4 DEF vars, PushInProgress
<1> QED
    BY <1>1, <1>2, <1>3, <1>4 DEF Next, Push

\* An open push has made of the notes what last write wins makes of its request so
\* far (src/store/sync_store.rs, push).
THEOREM SpecPushInProgress == Spec => []PushInProgress
<1>1. Init => PushInProgress
    BY DEF Init, PushInProgress
<1> QED
    BY <1>1, SpecInv, NextPushInProgress, PTL DEF Spec

\* What the store says of tables of notes is what its promise says of them.
LEMMA PromisedNotes ==
    /\ \A notes : Promise!CurrentRevision(notes) = CurrentRevision(notes)
    /\ \A change : Promise!ChangeTime(change) = ChangeTime(change)
    /\ \A notes, since : Promise!ChangesSince(notes, since) = ChangesSince(notes, since)
    /\ \A notes : Promise!NoSharedRevision(notes) <=> NoSharedRevision(notes)
    /\ \A i, change, incoming :
           Promise!NotLost(i, change, incoming) <=> NotLost(i, change, incoming)
    /\ \A next, last, incoming :
           Promise!LatestWins(next, last, incoming) <=> LatestWins(next, last, incoming)
<1>1. \A notes : Promise!CurrentRevision(notes) = CurrentRevision(notes)
    BY DEF Promise!CurrentRevision, CurrentRevision, Promise!Max, Max
<1>2. \A change : Promise!ChangeTime(change) = ChangeTime(change)
    BY DEF Promise!ChangeTime, ChangeTime, Promise!NotDeleted, NotDeleted
<1>3. \A notes, since : Promise!ChangesSince(notes, since) = ChangesSince(notes, since)
    BY DEF Promise!ChangesSince, ChangesSince
<1>4. \A notes : Promise!NoSharedRevision(notes) <=> NoSharedRevision(notes)
    BY DEF Promise!NoSharedRevision, NoSharedRevision
<1>5. \A i, change, incoming :
          Promise!NotLost(i, change, incoming) <=> NotLost(i, change, incoming)
    BY <1>2 DEF Promise!NotLost, NotLost
<1>6. \A next, last, incoming :
          Promise!LatestWins(next, last, incoming) <=> LatestWins(next, last, incoming)
    BY <1>1, <1>2, <1>3, <1>5 DEF Promise!LatestWins, LatestWins
<1> QED
    BY <1>1, <1>2, <1>3, <1>4, <1>5, <1>6

\* A commit publishes the outcome of its request.
LEMMA CommitIsPush ==
    ASSUME Inv, PushInProgress, PushCommit
    PROVE  Promise!Push(request)
<1>1. LatestWins(tx.notes, db.notes, request) /\ NoSharedRevision(tx.notes)
    BY DEF PushCommit, PushInProgress, Inv, HistoryConsistent, HistoryOK
<1>2. Published = db.notes /\ Published' = tx.notes /\ Saved' = Saved
    BY DEF PushCommit, Published, Saved
<1> QED
    BY <1>1, <1>2, PromisedNotes DEF Promise!Push

\* Whatever the request, its order and its repetitions, each note it is about holds
\* the latest of its changes and what was there: last write wins.
THEOREM SpecPushKeepsLatest == Spec => PushKeepsLatest
<1>1. Inv /\ PushInProgress /\ [Next]_vars => [PushCommit => Promise!Push(request)]_vars
    BY CommitIsPush
<1> QED
    BY <1>1, SpecInv, SpecPushInProgress, PTL DEF Spec, PushKeepsLatest

-----------------------------------------------------------------------------
(* The promise to the clients' cursors, when no backup or restore is cut short *)

\* What the proofs below use of the tables notes and their revisions.
LEMMA NotesAndRevisions ==
    ASSUME Inv
    PROVE  /\ IsNotes(db.notes) /\ IsNotes(tx.notes) /\ IsNotes(previous)
           /\ IsNotes(Published)
           /\ \A f \in DOMAIN backups : IsNotes(backups[f].notes)
           /\ \A notes : IsNotes(notes) =>
                  /\ CurrentRevision(notes) \in Nat
                  /\ \A n \in DOMAIN notes :
                         /\ notes[n].revision \in Nat \ {0}
                         /\ notes[n].revision <= CurrentRevision(notes)
<1>1. \A notes : IsNotes(notes) =>
          /\ CurrentRevision(notes) \in Nat
          /\ \A n \in DOMAIN notes :
                 /\ notes[n].revision \in Nat \ {0}
                 /\ notes[n].revision <= CurrentRevision(notes)
    BY RevisionIsGreatest, BoundsAssumption DEF IsNotes, Row
<1> QED
    BY <1>1 DEF Inv, TypeOK, IsDatabase, Published

\* The last step of a restore publishes every note, deleted or not, above all
\* that readers have seen.
LEMMA EmitSupersedes ==
    ASSUME Inv, CursorsInv, EmitTombstones
    PROVE  /\ Supersedes(db'.notes, previous)
           /\ \A n \in DOMAIN db'.notes : db'.notes[n].revision > CurrentRevision(previous)
           /\ db'.tables = db.tables
<1> DEFINE top == CurrentRevision(db.notes)
<1>1. PICK now \in Times : db' = Store(db, [n \in Missing |-> TombstoneRow(n, now)])
    BY DEF EmitTombstones
<1>2. /\ DOMAIN db'.notes = DOMAIN db.notes \cup Missing
      /\ \A n \in Missing : db'.notes[n].revision = top + Cardinality({m \in Missing : m <= n})
      /\ \A n \in DOMAIN db.notes \ Missing : db'.notes[n] = db.notes[n]
      /\ db'.tables = db.tables
    BY <1>1 DEF Store, Upsert, TombstoneRow
<1>3. PICK n \in DOMAIN db.notes : TRUE
    BY DEF CursorsInv, EmitTombstones
<1>4. /\ top \in Nat /\ CurrentRevision(previous) \in Nat
      /\ top > CurrentRevision(previous)
    BY <1>3, NotesAndRevisions DEF CursorsInv, EmitTombstones
<1>5. ASSUME NEW k \in Missing
      PROVE  db'.notes[k].revision > CurrentRevision(previous)
  <2>1. Cardinality({m \in Missing : m <= k}) \in 1 .. Cardinality(NoteIds)
    BY NotesAndRevisions, MissingRank
  <2>2. Cardinality(NoteIds) \in Nat
    BY NoteIdsAssumption, FS_CardinalityType
  <2> QED
    BY <1>2, <1>4, <2>1, <2>2
<1>6. \A k \in DOMAIN db.notes \ Missing : db'.notes[k].revision > CurrentRevision(previous)
    BY <1>2 DEF CursorsInv, EmitTombstones
<1> QED
    BY <1>2, <1>5, <1>6 DEF Supersedes, ChangesSince, Missing

\* No backup of an empty store exists, and none is newer than what readers see,
\* so the one that is copied is rebased above all that they have seen.
LEMMA NextCursorsInv ==
    ASSUME ~BackUpEmptyStore, Inv, PushInProgress, CursorsInv, [Next /\ ~CutShort]_vars
    PROVE  CursorsInv'
<1> USE NotesAndRevisions
<1>1. CASE Open
    BY <1>1 DEF Open, CursorsInv, Published
<1>2. CASE PushBegin \/ PushChange
    BY <1>2 DEF PushBegin, PushChange, CursorsInv, Published
<1>3. CASE PushCommit
  <2>1. CurrentRevision(db.notes) <= CurrentRevision(tx.notes)
    BY <1>3, LatestWinsSupersedes, SupersedesRevision DEF PushCommit, PushInProgress
  <2>2. CurrentRevision(Published) <= CurrentRevision(Published')
    BY <1>3, <2>1 DEF PushCommit, Published
  <2>3. Published' = db'.notes
    BY <1>3 DEF PushCommit, Published
  <2>4. db'.tables
    BY <1>3 DEF PushCommit, CursorsInv, PushInProgress
  <2> QED
    BY <1>3, <2>2, <2>3, <2>4 DEF PushCommit, CursorsInv, Published
<1>4. CASE Backup
  <2>1. ASSUME NEW f \in BackupFiles, BackupBegin(f)
        PROVE  CursorsInv'
    BY <2>1 DEF BackupBegin, CursorsInv, Published
  <2>2. CASE BackupFinish
    BY <2>2 DEF BackupFinish, CursorsInv, Published
  <2>3. CASE BackupFails
    BY <2>3 DEF BackupFails, CutShort, vars
  <2> QED
    BY <1>4, <2>1, <2>2, <2>3 DEF Backup
<1>5. ASSUME NEW f \in BackupFiles, RestoreCopy(f)
      PROVE  CursorsInv'
    BY <1>5 DEF RestoreCopy, CursorsInv, Published
<1>6. CASE RestoreWithoutTables \/ RestoreFails \/ PushFails \/ Crash
  <2>1. ~RestoreWithoutTables
    BY DEF RestoreWithoutTables, CursorsInv
  <2>2. CASE RestoreFails
    BY <2>2 DEF RestoreFails, CutShort, vars
  <2>3. CASE PushFails
    BY <2>3 DEF PushFails, CursorsInv, Published
  <2>4. CASE Crash
    <3>1. pc \notin {"backup", "copied", "rebasing", "rebased"}
      BY <2>4 DEF Crash, CutShort, vars
    <3> QED
      BY <2>4, <3>1 DEF Crash, CursorsInv, Published
  <2> QED
    BY <1>6, <2>1, <2>2, <2>3, <2>4
<1>7. CASE RestoreSkipsRebase
  <2>1. PICK n \in DOMAIN db.notes : TRUE
    BY <1>7 DEF RestoreSkipsRebase, CursorsInv
  <2>2. /\ db.notes[n].revision \in Nat \ {0}
        /\ db.notes[n].revision <= CurrentRevision(db.notes)
        /\ CurrentRevision(db.notes) \in Nat /\ CurrentRevision(previous) \in Nat
    BY <2>1
  <2>3. CurrentRevision(db.notes) <= CurrentRevision(previous)
    BY <1>7 DEF RestoreSkipsRebase, CursorsInv
  <2> QED
    BY <1>7, <2>2, <2>3 DEF RestoreSkipsRebase, RebaseNeeded
<1>8. CASE RebaseNotes
    BY <1>8 DEF RebaseNotes, RebasedRow, CursorsInv, Published
<1>9. CASE RebaseSnapshots
    BY <1>9 DEF RebaseSnapshots, CursorsInv, Published
<1>10. CASE EmitTombstones
  <2>1. Supersedes(db'.notes, previous) /\ db'.tables = db.tables
    BY <1>10, EmitSupersedes
  <2>2. IsNotes(db'.notes)
    BY NextInv DEF Inv, TypeOK, IsDatabase
  <2>3. CurrentRevision(previous) <= CurrentRevision(db'.notes)
    BY <2>1, <2>2, SupersedesRevision
  <2>4. CurrentRevision(db'.notes) \in Nat
    BY <2>2
  <2> QED
    BY <1>10, <2>1, <2>3, <2>4 DEF EmitTombstones, CursorsInv, Published
<1>11. CASE Stop \/ Notify
    BY <1>11 DEF Stop, Notify, CursorsInv, Published
<1>12. CASE UNCHANGED vars
    BY <1>12 DEF vars, CursorsInv, Published
<1> QED
    BY <1>1, <1>2, <1>3, <1>4, <1>5, <1>6, <1>7, <1>8, <1>9, <1>10, <1>11, <1>12
    DEF Next, Push, Restore

\* What holds of every behaviour holds of those in which nothing is cut short.
LEMMA UncutIsSpec == UncutSpec => Spec
<1>1. [Next /\ ~CutShort]_vars => [Next]_vars
    OBVIOUS
<1> QED
    BY <1>1, PTL DEF UncutSpec, Spec

\* If no backup or restore is cut short, a restore always rebases above what readers
\* have seen, for a complete backup holds notes and is no newer than they are.
THEOREM SpecCursorsInv ==
    ASSUME ~BackUpEmptyStore
    PROVE  UncutSpec => []CursorsInv
<1>1. Init => CursorsInv
    BY DEF Init, CursorsInv, Published, NoNotes, EmptyFile
<1>2. Inv /\ PushInProgress /\ CursorsInv /\ [Next /\ ~CutShort]_vars => CursorsInv'
    BY NextCursorsInv
<1> QED
    BY <1>1, <1>2, UncutIsSpec, SpecInv, SpecPushInProgress, PTL DEF UncutSpec

\* Every step that changes what readers see supersedes it.
LEMMA PublishedSupersedes ==
    ASSUME ~BackUpEmptyStore, Inv, PushInProgress, CursorsInv, [Next /\ ~CutShort]_vars,
           Published' # Published
    PROVE  Supersedes(Published', Published)
<1>1. CASE PushCommit
    BY <1>1, LatestWinsSupersedes DEF PushCommit, Published, PushInProgress
<1>2. CASE EmitTombstones
    BY <1>2, EmitSupersedes DEF EmitTombstones, Published
<1>3. CASE RestoreWithoutTables \/ RestoreFails \/ PushFails \/ Crash
  <2>1. ~RestoreWithoutTables
    BY DEF RestoreWithoutTables, CursorsInv
  <2>2. CASE RestoreFails
    BY <2>2 DEF RestoreFails, CutShort, vars
  <2>3. CASE PushFails
    BY <2>3 DEF PushFails, Published
  <2>4. CASE Crash
    BY <2>4 DEF Crash, CutShort, Published, vars
  <2> QED
    BY <1>3, <2>1, <2>2, <2>3, <2>4
<1>4. CASE Open \/ Notify \/ Stop
    BY <1>4 DEF Open, Notify, Stop, Published
<1>5. CASE PushBegin \/ PushChange
    BY <1>5 DEF PushBegin, PushChange, Published
<1>6. CASE Backup
    BY <1>6 DEF Backup, BackupBegin, BackupFinish, BackupFails, Published
<1>7. CASE RestoreSkipsRebase \/ RebaseNotes \/ RebaseSnapshots \/
           \E f \in BackupFiles : RestoreCopy(f)
    BY <1>7 DEF RestoreSkipsRebase, RebaseNotes, RebaseSnapshots, RestoreCopy, Published
<1>8. CASE UNCHANGED vars
    BY <1>8 DEF vars, Published
<1> QED
    BY <1>1, <1>2, <1>3, <1>4, <1>5, <1>6, <1>7, <1>8 DEF Next, Push, Restore

\* If no backup or restore is cut short and no backup is of an empty store, a
\* client's cursor is never overtaken, whichever pushes fail and wherever else the
\* process dies: pushes and restores publish what they change, tombstones included,
\* above every revision a reader has seen.
THEOREM SpecNothingBelowCursors ==
    ASSUME ~BackUpEmptyStore
    PROVE  UncutSpec => NothingBelowCursors
<1>1. Inv /\ PushInProgress /\ CursorsInv /\ [Next /\ ~CutShort]_vars
          => [Supersedes(Published', Published)]_Published
    BY PublishedSupersedes
<1> QED
    BY <1>1, UncutIsSpec, SpecInv, SpecPushInProgress, SpecCursorsInv, PTL
    DEF UncutSpec, NothingBelowCursors

\* The revision readers see never falls under the same conditions; where an
\* operation fails half way it does (RevisionNeverFalls is then refuted by a run).
THEOREM SpecRevisionNeverFalls ==
    ASSUME ~BackUpEmptyStore
    PROVE  UncutSpec => RevisionNeverFalls
<1>1. ASSUME Inv, Inv', PushInProgress, CursorsInv, [Next /\ ~CutShort]_vars,
             Published' # Published
      PROVE  CurrentRevision(Published') >= CurrentRevision(Published)
  <2>1. Supersedes(Published', Published)
    BY <1>1, PublishedSupersedes
  <2>2. IsNotes(Published) /\ IsNotes(Published')
    BY <1>1 DEF Inv, TypeOK, IsDatabase, Published
  <2>3. CurrentRevision(Published) <= CurrentRevision(Published')
    BY <2>1, <2>2, SupersedesRevision
  <2> QED
    BY <2>3
<1>2. Inv /\ Inv' /\ PushInProgress /\ CursorsInv /\ [Next /\ ~CutShort]_vars
          => [CurrentRevision(Published') >= CurrentRevision(Published)]_Published
    BY <1>1
<1> QED
    BY <1>2, UncutIsSpec, SpecInv, SpecPushInProgress, SpecCursorsInv, PTL
    DEF UncutSpec, RevisionNeverFalls

-----------------------------------------------------------------------------
(* The store implements its promise *)

\* The backup being written has its file, and the database under restore holds
\* the changes of some complete backup, whatever has become of their revisions.
RestoredFrom ==
    /\ pc = "backup" => file \in DOMAIN backups
    /\ pc \in {"copied", "rebasing", "rebased"} =>
           \E f \in DOMAIN backups :
               /\ backups[f].tables
               /\ DOMAIN db.notes = DOMAIN backups[f].notes
               /\ \A n \in DOMAIN db.notes : db.notes[n].change = backups[f].notes[n].change

\* Only the two UPDATEs change the database under restore, and only revisions.
LEMMA NextRestoredFrom ==
    ASSUME Inv, CursorsInv, RestoredFrom, [Next]_vars
    PROVE  RestoredFrom'
<1>1. CASE Open \/ Push \/ Notify \/ Stop \/ Crash
    BY <1>1 DEF Open, Push, PushBegin, PushChange, PushCommit, PushFails, Notify, Stop, Crash,
                RestoredFrom
<1>2. CASE Backup
    BY <1>2 DEF Backup, BackupBegin, BackupFinish, BackupFails, RestoredFrom
<1>3. ASSUME NEW f \in BackupFiles, RestoreCopy(f)
      PROVE  RestoredFrom'
    BY <1>3 DEF RestoreCopy, RestoredFrom, CursorsInv
<1>4. CASE RestoreWithoutTables \/ RestoreSkipsRebase \/ RestoreFails \/ EmitTombstones
    BY <1>4 DEF RestoreWithoutTables, RestoreSkipsRebase, RestoreFails, EmitTombstones,
                RestoredFrom
<1>5. CASE RebaseNotes
    BY <1>5 DEF RebaseNotes, RebasedRow, RestoredFrom
<1>6. CASE RebaseSnapshots
    BY <1>6 DEF RebaseSnapshots, RestoredFrom
<1>7. CASE UNCHANGED vars
    BY <1>7 DEF vars, RestoredFrom
<1> QED
    BY <1>1, <1>2, <1>3, <1>4, <1>5, <1>6, <1>7 DEF Next, Restore

\* A commit is a push of what it has changed.
LEMMA CommitKeepsPromise ==
    ASSUME Inv, PushInProgress, PushCommit
    PROVE  Promise!Next
<1>1. Promise!Push(request)
    BY CommitIsPush
<1>2. /\ LatestWins(Published', Published, request)
      /\ Promise!NoSharedRevision(Published') /\ Saved' = Saved
    BY <1>1, PromisedNotes DEF Promise!Push
<1>3. LatestWins(Published', Published, Promise!Accepted)
    BY <1>2, LatestWinsChanged DEF Promise!Accepted, ChangedNotes
<1>4. Promise!Push(Promise!Accepted)
    BY <1>2, <1>3, PromisedNotes DEF Promise!Push
<1> QED
    BY <1>4 DEF Promise!Next

\* The last step of a backup is where it comes to exist.
LEMMA BackupKeepsPromise ==
    ASSUME Inv, CursorsInv, RestoredFrom, BackupFinish
    PROVE  Promise!Next
<1>1. /\ file \in DOMAIN backups /\ file \in BackupFiles
      /\ db.tables
      /\ Published = db.notes /\ Published' = Published
    BY DEF BackupFinish, RestoredFrom, CursorsInv, Inv, TypeOK, Published
<1>2. Saved' = [g \in DOMAIN Saved \cup {file} |->
                   IF g = file THEN Published ELSE Saved[g]]
    BY <1>1 DEF BackupFinish, Saved
<1>3. Promise!Backup(file)
    BY <1>1, <1>2 DEF Promise!Backup
<1> QED
    BY <1>1, <1>3 DEF Promise!Next

\* A tombstone deletes its note, no earlier than it was last changed.
LEMMA TombstoneIsOne ==
    ASSUME NEW change \in Change, NEW now \in Times
    PROVE  Promise!IsTombstoneOf(Tombstone(change, now), change)
<1>1. ChangeTime(change) \in Nat /\ now \in Nat /\ now # 0
    BY ChangeTimeType, BoundsAssumption DEF Times
<1> DEFINE tombstone == Tombstone(change, now)
<1>2. /\ tombstone.deleted = Later(ChangeTime(change), now)
      /\ tombstone = [change EXCEPT !.updated = tombstone.updated, !.deleted = tombstone.deleted]
    BY DEF Tombstone, Change
<1>3. Later(ChangeTime(change), now) # 0 /\ Later(ChangeTime(change), now) >= ChangeTime(change)
    BY <1>1 DEF Later
<1> QED
    BY <1>2, <1>3, PromisedNotes DEF Promise!IsTombstoneOf, Promise!NotDeleted

\* The last step of a restore is where its outcome comes to be seen.
LEMMA RestoreKeepsPromise ==
    ASSUME Inv, CursorsInv, RestoredFrom, [Next]_vars, EmitTombstones
    PROVE  Promise!Next
<1>1. PICK f \in DOMAIN backups :
          /\ backups[f].tables
          /\ DOMAIN db.notes = DOMAIN backups[f].notes
          /\ \A n \in DOMAIN db.notes : db.notes[n].change = backups[f].notes[n].change
    BY DEF RestoredFrom, EmitTombstones
<1>2. PICK now \in Times : db' = Store(db, [n \in Missing |-> TombstoneRow(n, now)])
    BY DEF EmitTombstones
<1>3. /\ DOMAIN db'.notes = DOMAIN db.notes \cup Missing
      /\ \A n \in Missing : db'.notes[n].change = Tombstone(previous[n].change, now)
      /\ \A n \in DOMAIN db.notes \ Missing : db'.notes[n] = db.notes[n]
    BY <1>2 DEF Store, Upsert, TombstoneRow
<1>4. /\ Published = previous /\ Published' = db'.notes
      /\ Saved' = Saved
      /\ f \in DOMAIN Saved /\ Saved[f] = backups[f].notes
      /\ f \in BackupFiles
    BY <1>1 DEF EmitTombstones, Published, Saved, Inv, TypeOK
<1>5. \A n \in DOMAIN Published' : n \in ChangesSince(Published', CurrentRevision(Published))
    BY <1>4, EmitSupersedes DEF ChangesSince
<1>6. ASSUME NEW n \in DOMAIN Published', n \in DOMAIN Saved[f]
      PROVE  Published'[n].change = Saved[f][n].change
    BY <1>1, <1>3, <1>4, <1>6 DEF Missing
<1>7. ASSUME NEW n \in DOMAIN Published', n \notin DOMAIN Saved[f]
      PROVE  Promise!IsTombstoneOf(Published'[n].change, Published[n].change)
  <2>1. n \in Missing
    BY <1>1, <1>3, <1>4, <1>7
  <2>2. previous[n].change \in Change
    BY <2>1 DEF Missing, Inv, TypeOK, IsNotes, Row
  <2> QED
    BY <1>3, <1>4, <2>1, <2>2, TombstoneIsOne
<1>8. DOMAIN Published' = DOMAIN Published \cup DOMAIN Saved[f]
    BY <1>1, <1>3, <1>4 DEF Missing
<1>9. NoSharedRevision(Published')
    BY <1>4, NextInv DEF Inv, HistoryConsistent, HistoryOK
<1>10. Promise!Restore(f)
    BY <1>4, <1>5, <1>6, <1>7, <1>8, <1>9, PromisedNotes DEF Promise!Restore
<1> QED
    BY <1>4, <1>10 DEF Promise!Next

\* Every other step is one that readers, and backups, know nothing of.
LEMMA StepKeepsPromise ==
    ASSUME ~BackUpEmptyStore, Inv, PushInProgress, CursorsInv, RestoredFrom,
           [Next /\ ~CutShort]_vars
    PROVE  [Promise!Next]_<<Published, Saved>>
<1>1. CASE PushCommit
    BY <1>1, CommitKeepsPromise
<1>2. CASE BackupFinish
    BY <1>2, BackupKeepsPromise
<1>3. CASE EmitTombstones
    BY <1>3, RestoreKeepsPromise
<1>4. CASE Open \/ Notify \/ Stop \/ PushBegin \/ PushChange
    BY <1>4 DEF Open, Notify, Stop, PushBegin, PushChange, Published, Saved
<1>5. CASE RestoreWithoutTables \/ RestoreFails \/ PushFails \/ BackupFails \/ Crash
  <2>1. ~RestoreWithoutTables
    BY DEF RestoreWithoutTables, CursorsInv
  <2>2. CASE RestoreFails \/ BackupFails
    BY <2>2 DEF RestoreFails, BackupFails, CutShort, vars
  <2>3. CASE PushFails
    BY <2>3 DEF PushFails, Published, Saved
  <2>4. CASE Crash
    BY <2>4 DEF Crash, CutShort, Published, Saved, vars
  <2> QED
    BY <1>5, <2>1, <2>2, <2>3, <2>4
<1>6. ASSUME NEW f \in BackupFiles, BackupBegin(f)
      PROVE  UNCHANGED <<Published, Saved>>
  <2>1. Published' = Published
    BY <1>6 DEF BackupBegin, Published
  <2>2. /\ DOMAIN backups' = DOMAIN backups \cup {f}
        /\ \A g \in DOMAIN backups : backups'[g] = backups[g]
        /\ f \notin DOMAIN backups => ~backups'[f].tables
    BY <1>6 DEF BackupBegin, EmptyFile
  <2>3. {g \in DOMAIN backups' : backups'[g].tables} = {g \in DOMAIN backups : backups[g].tables}
    BY <2>2
  <2>4. Saved' = Saved
    BY <2>2, <2>3 DEF Saved
  <2> QED
    BY <2>1, <2>4
<1>7. CASE RestoreSkipsRebase \/ RebaseNotes \/ RebaseSnapshots \/
           \E f \in BackupFiles : RestoreCopy(f)
    BY <1>7 DEF RestoreSkipsRebase, RebaseNotes, RebaseSnapshots, RestoreCopy, Published, Saved
<1>8. CASE UNCHANGED vars
    BY <1>8 DEF vars, Published, Saved
<1> QED
    BY <1>1, <1>2, <1>3, <1>4, <1>5, <1>6, <1>7, <1>8 DEF Next, Push, Backup, Restore

\* SyncStore implements LatestStateStore: if no backup or restore is cut short and no
\* backup is of an empty store, whatever the interleaving of pushes, backups,
\* restores, restarts, failed pushes and crashes, readers see one step for each
\* operation that keeps the promise of the protocol.
THEOREM SpecKeepsPromise ==
    ASSUME ~BackUpEmptyStore
    PROVE  UncutSpec => KeepsPromise
<1>1. Init => Promise!Init
  <2> SUFFICES ASSUME Init PROVE Promise!Init
    OBVIOUS
  <2>1. Published = Promise!NoNotes
    BY DEF Init, Published, EmptyFile, NoNotes, Promise!NoNotes
  <2>2. Saved = [f \in {} |-> Promise!NoNotes]
    BY DEF Init, Saved
  <2> QED
    BY <2>1, <2>2 DEF Promise!Init
<1>2. Init => RestoredFrom
    BY DEF Init, RestoredFrom
<1>3. Inv /\ CursorsInv /\ RestoredFrom /\ [Next]_vars => RestoredFrom'
    BY NextRestoredFrom
<1>4. Inv /\ PushInProgress /\ CursorsInv /\ RestoredFrom /\ [Next /\ ~CutShort]_vars
          => [Promise!Next]_<<Published, Saved>>
    BY StepKeepsPromise
<1> QED
    BY <1>1, <1>2, <1>3, <1>4, UncutIsSpec, SpecInv, SpecPushInProgress, SpecCursorsInv, PTL
    DEF UncutSpec, Spec, KeepsPromise, Promise!Spec, Promise!storeVars

-----------------------------------------------------------------------------
(* The watch channel and the history follow the notes *)

\* WatchIsCurrent, also while a push or a backup holds the mutex.
WatchInv ==
    pc = "push" \/ (pc \in {"free", "backup"} /\ db.tables) =>
        watch = CurrentRevision(db.notes)

\* A push never lowers the revision.
LEMMA PushMovesRevision ==
    ASSUME Inv, PushInProgress, PushCommit
    PROVE  /\ CurrentRevision(tx.notes) \in Nat /\ CurrentRevision(db.notes) \in Nat
           /\ CurrentRevision(tx.notes) >= CurrentRevision(db.notes)
<1>1. LatestWins(tx.notes, db.notes, request)
    BY DEF PushCommit, PushInProgress
<1>2. CurrentRevision(tx.notes) \in Nat /\ CurrentRevision(db.notes) \in Nat
    BY NotesAndRevisions
<1>3. CurrentRevision(db.notes) <= CurrentRevision(tx.notes)
    BY <1>1, NotesAndRevisions, LatestWinsSupersedes, SupersedesRevision
<1> QED
    BY <1>2, <1>3

\* A push that does not move the revision need not tell the waiters.
LEMMA NextWatchInv ==
    ASSUME Inv, PushInProgress, WatchInv, [Next /\ ~RestoreFails]_vars
    PROVE  WatchInv'
<1>1. CASE PushCommit
  <2>1. CASE CurrentRevision(tx.notes) > CurrentRevision(db.notes)
    BY <1>1, <2>1 DEF PushCommit, WatchInv
  <2>2. CASE ~(CurrentRevision(tx.notes) > CurrentRevision(db.notes))
    <3>1. CurrentRevision(tx.notes) = CurrentRevision(db.notes)
      BY <1>1, <2>2, PushMovesRevision
    <3> QED
      BY <1>1, <3>1 DEF PushCommit, WatchInv
  <2> QED
    BY <2>1, <2>2
<1>2. CASE Open \/ Notify \/ Stop \/ Crash
    BY <1>2 DEF Open, Notify, Stop, Crash, WatchInv
<1>3. CASE PushBegin \/ PushChange \/ PushFails
    BY <1>3 DEF PushBegin, PushChange, PushFails, WatchInv
<1>4. CASE Backup
    BY <1>4 DEF Backup, BackupBegin, BackupFinish, BackupFails, WatchInv
<1>5. CASE Restore
    BY <1>5 DEF Restore, RestoreCopy, RestoreWithoutTables, RestoreSkipsRebase, RebaseNotes,
                RebaseSnapshots, EmitTombstones, RestoreFails, vars, WatchInv
<1>6. CASE UNCHANGED vars
    BY <1>6 DEF vars, WatchInv
<1> QED
    BY <1>1, <1>2, <1>3, <1>4, <1>5, <1>6 DEF Next, Push

\* Only a restore that returns an error leaves the channel behind the store: whichever
\* pushes and backups fail, whatever was backed up, and wherever the process dies, a
\* waiter that looks at the channel sees the revision the store would answer.
THEOREM SpecWatchIsCurrent == Init /\ [][Next /\ ~RestoreFails]_vars => []WatchIsCurrent
<1>1. Init => WatchInv
    BY DEF Init, WatchInv
<1>2. Inv /\ PushInProgress /\ WatchInv /\ [Next /\ ~RestoreFails]_vars => WatchInv'
    BY NextWatchInv
<1>3. WatchInv => WatchIsCurrent
    BY DEF WatchInv, WatchIsCurrent
<1>4. [Next /\ ~RestoreFails]_vars => [Next]_vars
    OBVIOUS
<1> QED
    BY <1>1, <1>2, <1>3, <1>4, SpecInv, SpecPushInProgress, PTL DEF Spec

\* The channel holds the revision readers last saw, until the next is committed.
FeedInv == pc \notin {"down", "pushed", "restored"} => watch = CurrentRevision(Published)

\* The revision that the tombstones publish is above all that readers have seen.
LEMMA EmitRaises ==
    ASSUME Inv, CursorsInv, [Next]_vars, EmitTombstones
    PROVE  /\ Published = previous /\ Published' = db'.notes
           /\ CurrentRevision(Published') > CurrentRevision(Published)
<1>1. Published = previous /\ Published' = db'.notes
    BY DEF EmitTombstones, Published
<1>2. PICK n \in DOMAIN db.notes : TRUE
    BY DEF CursorsInv, EmitTombstones
<1>3. n \in DOMAIN db'.notes
    BY DEF EmitTombstones, Store, Upsert
<1>4. db'.notes[n].revision > CurrentRevision(previous)
    BY <1>3, EmitSupersedes
<1>5. Inv'
    BY NextInv
<1>6. /\ CurrentRevision(db'.notes) \in Nat
      /\ db'.notes[n].revision \in Nat
      /\ db'.notes[n].revision <= CurrentRevision(db'.notes)
    BY <1>3, <1>5, RevisionIsGreatest, BoundsAssumption DEF Inv, TypeOK, IsDatabase, IsNotes, Row
<1>7. CurrentRevision(previous) \in Nat
    BY NotesAndRevisions
<1> QED
    BY <1>1, <1>4, <1>6, <1>7

\* Only Notify changes the channel of a running process, and it ends at the revision.
LEMMA NextFeedInv ==
    ASSUME Inv, PushInProgress, CursorsInv, FeedInv, [Next /\ ~CutShort]_vars
    PROVE  FeedInv'
<1>1. CASE PushCommit
  <2>1. CASE CurrentRevision(tx.notes) > CurrentRevision(db.notes)
    BY <1>1, <2>1 DEF PushCommit, FeedInv
  <2>2. CASE ~(CurrentRevision(tx.notes) > CurrentRevision(db.notes))
    <3>1. CurrentRevision(tx.notes) = CurrentRevision(db.notes)
      BY <1>1, <2>2, PushMovesRevision
    <3> QED
      BY <1>1, <3>1 DEF PushCommit, FeedInv, Published
  <2> QED
    BY <2>1, <2>2
<1>2. CASE Open \/ Notify \/ Stop \/ Crash
    BY <1>2 DEF Open, Notify, Stop, Crash, FeedInv, Published
<1>3. CASE PushBegin \/ PushChange \/ PushFails
    BY <1>3 DEF PushBegin, PushChange, PushFails, FeedInv, Published
<1>4. CASE Backup
    BY <1>4 DEF Backup, BackupBegin, BackupFinish, BackupFails, FeedInv, Published
<1>5. CASE Restore
  <2>1. ~RestoreWithoutTables
    BY DEF RestoreWithoutTables, CursorsInv
  <2> QED
    BY <1>5, <2>1
    DEF Restore, RestoreCopy, RestoreSkipsRebase, RebaseNotes, RebaseSnapshots,
        EmitTombstones, RestoreFails, CutShort, vars, FeedInv, Published
<1>6. CASE UNCHANGED vars
    BY <1>6 DEF vars, FeedInv, Published
<1> QED
    BY <1>1, <1>2, <1>3, <1>4, <1>5, <1>6 DEF Next, Push

\* Each step of the store is one of the feed's, or one those who wait know nothing of.
LEMMA StepFeeds ==
    ASSUME Inv, Inv', PushInProgress, CursorsInv, FeedInv, FeedInv', [Next /\ ~CutShort]_vars
    PROVE  [Feed!FeedCommit \/ Feed!FeedSend \/ Feed!FeedOpen]_(Feed!feed)
<1> USE DEF Feed!feed
<1>0. CurrentRevision(Published') \in Feed!Revisions
  <2>1. IsNotes(Published')
    BY DEF Inv, TypeOK, IsDatabase, Published
  <2> QED
    BY <2>1, RevisionIsGreatest, BoundsAssumption DEF Feed!Revisions
<1>1. CASE PushCommit
  <2>1. Published = db.notes /\ Published' = tx.notes /\ watch' = watch /\ pc = "push"
    BY <1>1 DEF PushCommit, Published
  <2>2. CASE CurrentRevision(tx.notes) > CurrentRevision(db.notes)
    BY <1>0, <1>1, <2>1, <2>2 DEF PushCommit, Feed!FeedCommit
  <2>3. CASE ~(CurrentRevision(tx.notes) > CurrentRevision(db.notes))
    <3>1. CurrentRevision(tx.notes) = CurrentRevision(db.notes)
      BY <1>1, <2>3, PushMovesRevision
    <3> QED
      BY <1>1, <2>1, <2>3, <3>1 DEF PushCommit
  <2> QED
    BY <2>2, <2>3
<1>2. CASE EmitTombstones
  <2>1. CurrentRevision(Published') > CurrentRevision(Published)
    BY <1>2, EmitRaises
  <2> QED
    BY <1>0, <1>2, <2>1 DEF EmitTombstones, Feed!FeedCommit
<1>3. CASE Notify
    BY <1>3 DEF Notify, Published, Feed!FeedSend
<1>4. CASE Open \/ Stop
    BY <1>4 DEF Open, Stop, Published, FeedInv
<1>5. CASE Crash
  <2>1. /\ db' = db /\ pc' = "down"
        /\ pc \in {"free", "push", "pushed", "restored"}
        /\ Published = db.notes /\ Published' = db.notes
    BY <1>5 DEF Crash, CutShort, Published, vars, Inv, TypeOK
  <2>2. CASE pc \in {"free", "push"}
    BY <2>1, <2>2 DEF FeedInv
  <2>3. CASE pc \in {"pushed", "restored"}
    BY <2>1, <2>3 DEF Feed!FeedOpen
  <2> QED
    BY <2>1, <2>2, <2>3
<1>6. CASE PushBegin \/ PushChange \/ PushFails
    BY <1>6 DEF PushBegin, PushChange, PushFails, Published
<1>7. CASE Backup
    BY <1>7 DEF Backup, BackupBegin, BackupFinish, BackupFails, Published
<1>8. CASE RestoreSkipsRebase \/ RebaseNotes \/ RebaseSnapshots \/
           \E f \in BackupFiles : RestoreCopy(f)
    BY <1>8 DEF RestoreSkipsRebase, RebaseNotes, RebaseSnapshots, RestoreCopy, Published
<1>9. CASE RestoreWithoutTables \/ RestoreFails
    BY <1>9 DEF RestoreWithoutTables, RestoreFails, CursorsInv, CutShort, vars
<1>10. CASE UNCHANGED vars
    BY <1>10 DEF vars, Published
<1> QED
    BY <1>1, <1>2, <1>3, <1>4, <1>5, <1>6, <1>7, <1>8, <1>9, <1>10 DEF Next, Push, Restore

\* SyncStore implements RevisionFeed, on which LongPoll is built: if no backup or
\* restore is cut short and no backup is of an empty store, the revision rises with
\* each commit, and each is sent before the next or found again by the next start,
\* wherever the process dies in a push or between a commit and its send.
THEOREM SpecFeedsLongPoll ==
    ASSUME ~BackUpEmptyStore
    PROVE  UncutSpec => FeedsLongPoll
<1>1. Init => Feed!FeedInit /\ FeedInv
  <2>1. CurrentRevision(NoNotes) = 0
    BY NoNotesType
  <2> QED
    BY <2>1 DEF Init, Feed!FeedInit, FeedInv, Published, EmptyFile
<1>2. Inv /\ PushInProgress /\ CursorsInv /\ FeedInv /\ [Next /\ ~CutShort]_vars => FeedInv'
    BY NextFeedInv
<1>3. Inv /\ Inv' /\ PushInProgress /\ CursorsInv /\ FeedInv /\ FeedInv' /\ [Next /\ ~CutShort]_vars
          => [Feed!FeedCommit \/ Feed!FeedSend \/ Feed!FeedOpen]_(Feed!feed)
    BY StepFeeds
<1> QED
    BY <1>1, <1>2, <1>3, UncutIsSpec, SpecInv, SpecPushInProgress, SpecCursorsInv, PTL
    DEF UncutSpec, FeedsLongPoll, Feed!FeedSpec

\* Every row has its snapshot.
Covered(image) == SnapshotsOf(image.notes) \subseteq image.snapshots

\* RowsHaveSnapshots, with what a restore and a push need before they let go of
\* the mutex: between the two UPDATEs the snapshots cover the rows once moved.
CoveredInv ==
    /\ pc \notin {"down", "rebasing"} => Covered(db)
    /\ pc = "rebasing" =>
           SnapshotsOf(db.notes) \subseteq {RebasedSnapshot(s) : s \in db.snapshots}
    /\ Covered(tx)
    /\ \A f \in DOMAIN backups : Covered(backups[f])

\* The second UPDATE of rebase_revisions fails: the rows are moved, their
\* snapshots are not, and the server goes on.
FailsBetweenUpdates == RestoreFails /\ pc = "rebasing"

\* store_change adds the snapshot of each row it stores.
LEMMA StoreCovered ==
    ASSUME NEW image, Covered(image), NEW rows
    PROVE  Covered(Store(image, rows))
    BY DEF Covered, Store, SnapshotsOf, Upsert

\* backfill_missing_snapshots completes the history: a snapshot at a row's
\* revision is the row's.
LEMMA OpenCovers ==
    ASSUME Inv, Open
    PROVE  Covered(db')
<1> DEFINE covered == {<<s.note, s.revision>> : s \in db.snapshots}
           backfill == {s \in SnapshotsOf(db.notes) : <<s.note, s.revision>> \notin covered}
<1>1. db' = [tables |-> TRUE, notes |-> db.notes, snapshots |-> db.snapshots \cup backfill]
    BY DEF Open, Backfilled
<1>2. ASSUME NEW n \in DOMAIN db.notes
      PROVE  [note |-> n, revision |-> db.notes[n].revision, change |-> db.notes[n].change]
                 \in db.snapshots \cup backfill
  <2> DEFINE row == [note |-> n, revision |-> db.notes[n].revision, change |-> db.notes[n].change]
  <2>1. row \in SnapshotsOf(db.notes)
    BY DEF SnapshotsOf
  <2>2. CASE <<row.note, row.revision>> \notin covered
    BY <2>1, <2>2
  <2>3. CASE <<row.note, row.revision>> \in covered
    <3>1. PICK s \in db.snapshots : s.note = n /\ s.revision = db.notes[n].revision
      BY <2>3
    <3>2. s.change = db.notes[n].change /\ s \in Snapshot
      BY <3>1 DEF Inv, TypeOK, IsDatabase, HistoryConsistent, HistoryOK, SnapshotsBehindRows
    <3>3. s = row
      BY <3>1, <3>2 DEF Snapshot
    <3> QED
      BY <3>3
  <2> QED
    BY <2>2, <2>3
<1> HIDE DEF backfill
<1> QED
    BY <1>1, <1>2 DEF Covered, SnapshotsOf

\* The first UPDATE leaves the snapshots what the second makes good.
LEMMA RebaseNotesCovers ==
    ASSUME Covered(db), RebaseNotes
    PROVE  SnapshotsOf(db'.notes) \subseteq {RebasedSnapshot(s) : s \in db'.snapshots}
<1>1. ASSUME NEW n \in DOMAIN db.notes
      PROVE  [note |-> n, revision |-> RebasedRow(n).revision, change |-> RebasedRow(n).change]
                 \in {RebasedSnapshot(s) : s \in db.snapshots}
  <2> DEFINE old == [note |-> n, revision |-> db.notes[n].revision, change |-> db.notes[n].change]
  <2>1. old \in db.snapshots
    BY DEF Covered, SnapshotsOf
  <2>2. RebasedSnapshot(old) =
            [note |-> n, revision |-> RebasedRow(n).revision, change |-> RebasedRow(n).change]
    BY DEF RebasedSnapshot, RebasedRow
  <2> QED
    BY <2>1, <2>2
<1> QED
    BY <1>1 DEF RebaseNotes, SnapshotsOf

\* Every other step keeps each row's snapshot beside it, or a start fills in what
\* a crash left out.
LEMMA NextCoveredInv ==
    ASSUME Inv, CoveredInv, [Next /\ ~FailsBetweenUpdates]_vars
    PROVE  CoveredInv'
<1>0. Covered(EmptyFile)
    BY DEF Covered, EmptyFile, NoNotes, SnapshotsOf
<1>1. CASE Open
    BY <1>1, OpenCovers DEF Open, CoveredInv
<1>2. CASE PushChange
    BY <1>2, StoreCovered DEF PushChange, CoveredInv
<1>3. CASE PushBegin \/ PushCommit \/ Notify \/ Stop \/ Crash
    BY <1>0, <1>3 DEF PushBegin, PushCommit, Notify, Stop, Crash, CoveredInv
<1>4. CASE PushFails \/ BackupFails
    BY <1>0, <1>4 DEF PushFails, BackupFails, CoveredInv
<1>5. CASE RestoreFails /\ ~FailsBetweenUpdates
    BY <1>5 DEF RestoreFails, FailsBetweenUpdates, CoveredInv
<1>6. CASE RebaseNotes
  <2>1. tx' = tx /\ backups' = backups /\ pc' = "rebasing"
    BY <1>6 DEF RebaseNotes
  <2>2. SnapshotsOf(db'.notes) \subseteq {RebasedSnapshot(s) : s \in db'.snapshots}
    BY <1>6, RebaseNotesCovers DEF RebaseNotes, CoveredInv
  <2>3. previous' = previous
    BY <1>6 DEF RebaseNotes
  <2> QED
    BY <2>1, <2>2, <2>3 DEF CoveredInv, RebasedSnapshot
<1>7. CASE RebaseSnapshots
  <2>1. tx' = tx /\ backups' = backups /\ pc' = "rebased"
    BY <1>7 DEF RebaseSnapshots
  <2>2. Covered(db')
    BY <1>7 DEF RebaseSnapshots, Covered, CoveredInv
  <2> QED
    BY <2>1, <2>2 DEF CoveredInv
<1>8. CASE EmitTombstones
  <2>1. tx' = tx /\ backups' = backups /\ pc' = "restored"
    BY <1>8 DEF EmitTombstones
  <2>2. Covered(db)
    BY <1>8 DEF EmitTombstones, CoveredInv
  <2>3. Covered(db')
    BY <1>8, <2>2, StoreCovered DEF EmitTombstones
  <2> QED
    BY <2>1, <2>3 DEF CoveredInv
<1>9. ASSUME NEW f \in BackupFiles, BackupBegin(f) \/ RestoreCopy(f)
      PROVE  CoveredInv'
  <2>1. CASE BackupBegin(f)
    BY <1>0, <2>1 DEF BackupBegin, CoveredInv
  <2>2. CASE RestoreCopy(f)
    BY <2>2 DEF RestoreCopy, CoveredInv
  <2> QED
    BY <1>9, <2>1, <2>2
<1>10. CASE BackupFinish \/ RestoreWithoutTables \/ RestoreSkipsRebase
  <2>1. CASE BackupFinish
    BY <2>1 DEF BackupFinish, CoveredInv
  <2>2. CASE RestoreWithoutTables \/ RestoreSkipsRebase
    BY <2>2 DEF RestoreWithoutTables, RestoreSkipsRebase, CoveredInv
  <2> QED
    BY <1>10, <2>1, <2>2
<1>11. CASE UNCHANGED vars
    BY <1>11 DEF vars, CoveredInv, RebasedSnapshot
<1> QED
    BY <1>1, <1>2, <1>3, <1>4, <1>5, <1>6, <1>7, <1>8, <1>9, <1>10, <1>11
    DEF Next, Push, Backup, Restore

LEMMA InitCoveredInv == Init => CoveredInv
    BY DEF Init, CoveredInv, Covered, EmptyFile, NoNotes, SnapshotsOf

\* Whatever fails and wherever the process dies, the console finds the row of
\* every note in the note's history, unless a restore has failed between the two
\* UPDATEs of rebase_revisions (no transaction is around them): a failed push or
\* backup, a restore that fails at any other statement and every crash are allowed.
THEOREM SpecHistoryReachesRows ==
    Init /\ [][Next /\ ~FailsBetweenUpdates]_vars => [](pc = "free" => Covered(db))
<1>1. Inv /\ CoveredInv /\ [Next /\ ~FailsBetweenUpdates]_vars => CoveredInv'
    BY NextCoveredInv
<1>2. CoveredInv => (pc = "free" => Covered(db))
    BY DEF CoveredInv
<1>3. [Next /\ ~FailsBetweenUpdates]_vars => [Next]_vars
    OBVIOUS
<1> QED
    BY <1>1, <1>2, <1>3, InitCoveredInv, SpecInv, PTL DEF Spec

\* An error is never forgotten.
LEMMA ErrorsStay ==
    ASSUME Inv, [Next]_vars, errors' = 0
    PROVE  errors = 0 /\ ~FailsBetweenUpdates
<1>1. errors \in Nat
    BY LimitsAssumption DEF Inv, TypeOK
<1>2. CASE PushFails \/ BackupFails \/ RestoreFails
    BY <1>1, <1>2 DEF PushFails, BackupFails, RestoreFails
<1>3. CASE errors' = errors /\ ~RestoreFails
    BY <1>3 DEF FailsBetweenUpdates
<1>4. RestoreFails => errors' = errors + 1
    BY DEF RestoreFails
<1>5. errors' = errors => ~RestoreFails
    BY <1>1, <1>4
<1>6. (PushFails \/ BackupFails \/ RestoreFails) \/ errors' = errors
    BY DEF Next, Push, Backup, Restore, vars, Open, PushBegin, PushChange, PushCommit,
       BackupBegin, BackupFinish, RestoreCopy, RestoreWithoutTables, RestoreSkipsRebase,
       RebaseNotes, RebaseSnapshots, EmitTombstones, Notify, Stop, Crash
<1> QED
    BY <1>2, <1>3, <1>5, <1>6

\* As long as no operation has failed half way, the history of every note reaches
\* to its row whenever the console can read, wherever the process has died.
THEOREM SpecRowsHaveSnapshots == Spec => []RowsHaveSnapshots
<1>1. Init => (errors = 0 => CoveredInv)
    BY InitCoveredInv
<1>2. Inv /\ (errors = 0 => CoveredInv) /\ [Next]_vars => (errors = 0 => CoveredInv)'
  <2> SUFFICES ASSUME Inv, errors = 0 => CoveredInv, [Next]_vars, errors' = 0
               PROVE  CoveredInv'
    OBVIOUS
  <2>1. errors = 0 /\ ~FailsBetweenUpdates
    BY ErrorsStay
  <2>2. [Next /\ ~FailsBetweenUpdates]_vars
    BY <2>1
  <2> QED
    BY <2>1, <2>2, NextCoveredInv
<1>3. (errors = 0 => CoveredInv) => RowsHaveSnapshots
    BY DEF CoveredInv, Covered, RowsHaveSnapshots
<1> QED
    BY <1>1, <1>2, <1>3, SpecInv, PTL DEF Spec

-----------------------------------------------------------------------------
(* The history of a note ends with its row *)

\* No snapshot of a note is newer than the note's row.
Behind(image) ==
    \A s \in image.snapshots :
        s.note \in DOMAIN image.notes => s.revision <= image.notes[s.note].revision

\* In every database there is, and between the two UPDATEs of a restore still once
\* the second has moved the snapshots.
BehindInv ==
    /\ Behind(db)
    /\ Behind(tx)
    /\ \A f \in DOMAIN backups : Behind(backups[f])
    /\ pc = "rebasing" =>
           \A s \in db.snapshots :
               s.note \in DOMAIN db.notes =>
                   s.revision + CurrentRevision(previous) <= db.notes[s.note].revision

\* store_change above the current revision leaves all snapshots behind.
LEMMA StoreBehind ==
    ASSUME NEW image, IsDatabase(image), HistoryOK(image), Behind(image),
           NEW rows, IsNotes(rows),
           \A n \in DOMAIN rows : rows[n].revision > CurrentRevision(image.notes)
    PROVE  Behind(Store(image, rows))
<1> DEFINE old == image.notes
           new == Upsert(old, rows)
<1>1. /\ Store(image, rows).notes = new
      /\ Store(image, rows).snapshots = image.snapshots \cup SnapshotsOf(rows)
    BY DEF Store
<1>2. /\ DOMAIN new = DOMAIN old \cup DOMAIN rows
      /\ \A n \in DOMAIN rows : new[n] = rows[n]
      /\ \A n \in DOMAIN old \ DOMAIN rows : new[n] = old[n]
    BY DEF Upsert
<1>3. /\ CurrentRevision(old) \in Nat
      /\ \A n \in DOMAIN rows : rows[n].revision \in Nat
      /\ \A s \in image.snapshots : s.revision \in Nat /\ s.revision <= CurrentRevision(old)
    BY RevisionIsGreatest, BoundsAssumption
    DEF IsDatabase, IsNotes, Row, Snapshot, HistoryOK, SnapshotsBehindRows
<1>4. \A s \in image.snapshots : s.note \in DOMAIN old => s.revision <= old[s.note].revision
    BY DEF Behind
<1>5. \A s \in SnapshotsOf(rows) : s.note \in DOMAIN rows /\ s.revision = rows[s.note].revision
    BY DEF SnapshotsOf
<1>6. \A n \in DOMAIN rows : rows[n].revision > CurrentRevision(old)
    OBVIOUS
<1> HIDE DEF old, new
<1>7. ASSUME NEW s \in image.snapshots, s.note \in DOMAIN new
      PROVE  s.revision <= new[s.note].revision
  <2>1. CASE s.note \in DOMAIN rows
    BY <1>2, <1>3, <1>6, <2>1
  <2>2. CASE s.note \notin DOMAIN rows
    BY <1>2, <1>4, <1>7, <2>2
  <2> QED
    BY <2>1, <2>2
<1>8. ASSUME NEW s \in SnapshotsOf(rows)
      PROVE  s.revision <= new[s.note].revision
    BY <1>2, <1>3, <1>5
<1> QED
    BY <1>1, <1>7, <1>8 DEF Behind

\* backfill_missing_snapshots adds snapshots at the rows' revisions.
LEMMA OpenBehind ==
    ASSUME Inv, Behind(db), Open
    PROVE  Behind(db')
<1> DEFINE covered == {<<s.note, s.revision>> : s \in db.snapshots}
           backfill == {s \in SnapshotsOf(db.notes) : <<s.note, s.revision>> \notin covered}
<1>1. db' = [tables |-> TRUE, notes |-> db.notes, snapshots |-> db.snapshots \cup backfill]
    BY DEF Open, Backfilled
<1>2. \A s \in backfill : s.note \in DOMAIN db.notes /\ s.revision = db.notes[s.note].revision
    BY DEF SnapshotsOf
<1>3. \A n \in DOMAIN db.notes : db.notes[n].revision \in Nat
    BY NotesAndRevisions
<1> HIDE DEF backfill
<1> QED
    BY <1>1, <1>2, <1>3 DEF Behind

\* A change a push accepts is stored above every snapshot.
LEMMA PushChangeBehind ==
    ASSUME Inv, Behind(tx), PushChange
    PROVE  Behind(tx')
<1>1. CASE tx' = tx
    BY <1>1
<1>2. CASE tx' # tx
  <2>1. PICK note \in NoteIds, incoming \in PushedChanges :
            LET revision == CurrentRevision(tx.notes) + 1
            IN  /\ revision <= MaxRevision
                /\ tx' = Store(tx, [n \in {note} |->
                             [change |-> FillDevice(incoming), revision |-> revision]])
    BY <1>2 DEF PushChange
  <2> DEFINE revision == CurrentRevision(tx.notes) + 1
             rows == [n \in {note} |-> [change |-> FillDevice(incoming), revision |-> revision]]
  <2>2. device \in Devices /\ IsDatabase(tx) /\ HistoryOK(tx)
    BY DEF Inv, TypeOK, HistoryConsistent, PushChange
  <2>3. CurrentRevision(tx.notes) \in Nat /\ revision \in 1 .. MaxRevision
    BY <2>1, <2>2, RevisionIsGreatest, BoundsAssumption DEF IsDatabase
  <2>4. IsNotes(rows)
    BY <2>2, <2>3, FillDeviceType DEF IsNotes, Row
  <2>5. DOMAIN rows = {note} /\ rows[note].revision = revision
    OBVIOUS
  <2>6. tx' = Store(tx, rows)
    BY <2>1
  <2>7. revision > CurrentRevision(tx.notes)
    BY <2>3
  <2> HIDE DEF rows, revision
  <2> QED
    BY <2>2, <2>4, <2>5, <2>6, <2>7, StoreBehind
<1> QED
    BY <1>1, <1>2

\* The first UPDATE moves each row away from its snapshots, by what the second
\* moves these.
LEMMA RebaseNotesBehind ==
    ASSUME Inv, Behind(db), RebaseNotes
    PROVE  /\ Behind(db')
           /\ \A s \in db'.snapshots :
                  s.note \in DOMAIN db'.notes =>
                      s.revision + CurrentRevision(previous) <= db'.notes[s.note].revision
<1> DEFINE offset == CurrentRevision(previous)
<1>1. /\ db'.snapshots = db.snapshots
      /\ DOMAIN db'.notes = DOMAIN db.notes
      /\ \A n \in DOMAIN db.notes : db'.notes[n].revision = db.notes[n].revision + offset
    BY DEF RebaseNotes, RebasedRow
<1>2. /\ offset \in Nat
      /\ \A n \in DOMAIN db.notes : db.notes[n].revision \in Nat
      /\ \A s \in db.snapshots : s.revision \in Nat
    BY NotesAndRevisions DEF Inv, TypeOK, IsDatabase, Snapshot
<1> HIDE DEF offset
<1>3. \A s \in db.snapshots :
          s.note \in DOMAIN db.notes =>
              /\ s.revision + offset <= db.notes[s.note].revision + offset
              /\ s.revision <= db.notes[s.note].revision + offset
    BY <1>2 DEF Behind
<1>4. \A s \in db'.snapshots :
          s.note \in DOMAIN db'.notes =>
              /\ s.revision + offset <= db'.notes[s.note].revision
              /\ s.revision <= db'.notes[s.note].revision
    BY <1>1, <1>3
<1> QED
    BY <1>4 DEF Behind, offset

\* The tombstones are stored above every snapshot, too.
LEMMA EmitTombstonesBehind ==
    ASSUME Inv, Behind(db), EmitTombstones
    PROVE  Behind(db')
<1>1. PICK now \in Times : db' = Store(db, [n \in Missing |-> TombstoneRow(n, now)])
    BY DEF EmitTombstones
<1> DEFINE rows == [n \in Missing |-> TombstoneRow(n, now)]
           top == CurrentRevision(db.notes)
           rank(n) == Cardinality({m \in Missing : m <= n})
<1>2. /\ IsDatabase(db) /\ HistoryOK(db) /\ IsNotes(db.notes) /\ IsNotes(previous)
      /\ top + Cardinality(NoteIds) <= MaxRevision
    BY DEF Inv, TypeOK, IsDatabase, HistoryConsistent, RestoreInProgress, EmitTombstones
<1>3. top \in Nat /\ Cardinality(NoteIds) \in Nat
    BY <1>2, RevisionIsGreatest, BoundsAssumption, NoteIdsAssumption, FS_CardinalityType
<1>4. ASSUME NEW n \in Missing
      PROVE  rows[n].revision > top /\ n \in NoteIds /\ rows[n] \in Row
  <2>1. rank(n) \in 1 .. Cardinality(NoteIds)
    BY <1>2, MissingRank
  <2>2. n \in NoteIds /\ previous[n].change \in Change
    BY <1>2 DEF Missing, IsNotes, Row
  <2>3. Tombstone(previous[n].change, now) \in Change
    BY <2>2, TombstoneType
  <2>4. top + rank(n) \in 1 .. MaxRevision /\ top + rank(n) > top
    BY <1>2, <1>3, <2>1, BoundsAssumption
  <2> QED
    BY <2>2, <2>3, <2>4 DEF TombstoneRow, Row
<1>5. DOMAIN rows = Missing /\ rows = [n \in Missing |-> rows[n]]
    OBVIOUS
<1>6. db' = Store(db, rows)
    BY <1>1
<1> HIDE DEF rows
<1>7. IsNotes(rows) /\ \A n \in DOMAIN rows : rows[n].revision > CurrentRevision(db.notes)
    BY <1>4, <1>5 DEF IsNotes
<1> QED
    BY <1>2, <1>6, <1>7, StoreBehind

\* No step lets a snapshot get ahead of its note, not even one cut short.
LEMMA NextBehindInv ==
    ASSUME Inv, BehindInv, [Next]_vars
    PROVE  BehindInv'
<1>0. Behind(EmptyFile)
    BY DEF Behind, EmptyFile
<1>1. CASE Open
    BY <1>1, OpenBehind DEF Open, BehindInv
<1>2. CASE PushChange
    BY <1>2, PushChangeBehind DEF PushChange, BehindInv
<1>3. CASE PushBegin \/ PushCommit \/ PushFails \/ Notify \/ Stop \/ Crash
    BY <1>0, <1>3 DEF PushBegin, PushCommit, PushFails, Notify, Stop, Crash, BehindInv
<1>4. CASE Backup
  <2>1. ASSUME NEW f \in BackupFiles, BackupBegin(f)
        PROVE  BehindInv'
    BY <1>0, <2>1 DEF BackupBegin, BehindInv
  <2>2. CASE BackupFinish
    BY <2>2 DEF BackupFinish, BehindInv
  <2>3. CASE BackupFails
    BY <2>3 DEF BackupFails, BehindInv
  <2> QED
    BY <1>4, <2>1, <2>2, <2>3 DEF Backup
<1>5. ASSUME NEW f \in BackupFiles, RestoreCopy(f)
      PROVE  BehindInv'
    BY <1>5 DEF RestoreCopy, BehindInv
<1>6. CASE RestoreWithoutTables \/ RestoreSkipsRebase \/ RestoreFails
    BY <1>6 DEF RestoreWithoutTables, RestoreSkipsRebase, RestoreFails, BehindInv
<1>7. CASE RebaseNotes
  <2>1. tx' = tx /\ backups' = backups /\ previous' = previous
    BY <1>7 DEF RebaseNotes
  <2> QED
    BY <1>7, <2>1, RebaseNotesBehind DEF BehindInv
<1>8. CASE RebaseSnapshots
  <2>1. /\ tx' = tx /\ backups' = backups /\ pc' = "rebased"
        /\ db'.notes = db.notes
        /\ db'.snapshots = {RebasedSnapshot(s) : s \in db.snapshots}
    BY <1>8 DEF RebaseSnapshots
  <2>2. \A s \in db.snapshots :
            s.note \in DOMAIN db.notes =>
                s.revision + CurrentRevision(previous) <= db.notes[s.note].revision
    BY <1>8 DEF RebaseSnapshots, BehindInv
  <2>3. Behind(db')
    BY <2>1, <2>2 DEF Behind, RebasedSnapshot
  <2> QED
    BY <2>1, <2>3 DEF BehindInv
<1>9. CASE EmitTombstones
  <2>1. tx' = tx /\ backups' = backups /\ pc' = "restored"
    BY <1>9 DEF EmitTombstones
  <2>2. Behind(db')
    BY <1>9, EmitTombstonesBehind DEF BehindInv
  <2> QED
    BY <2>1, <2>2 DEF BehindInv
<1>10. CASE UNCHANGED vars
    BY <1>10 DEF vars, BehindInv
<1> QED
    BY <1>1, <1>2, <1>3, <1>4, <1>5, <1>6, <1>7, <1>8, <1>9, <1>10
    DEF Next, Push, Restore

\* In the database as it is on disk at every step, in the open transaction and in
\* every backup, the history of a note never runs ahead of the note.
THEOREM SpecBehindInv == Spec => []BehindInv
<1>1. Init => BehindInv
    BY DEF Init, BehindInv, Behind, EmptyFile
<1> QED
    BY <1>1, SpecInv, NextBehindInv, PTL DEF Spec

-----------------------------------------------------------------------------
(* ORDER BY *)

\* A total order on a set, as pairs.
IsTotalOrder(S, order) ==
    /\ \A x \in S : <<x, x>> \notin order
    /\ \A x, y \in S : x # y => <<x, y>> \in order \/ <<y, x>> \in order
    /\ \A x, y, z \in S : <<x, y>> \in order /\ <<y, z>> \in order => <<x, z>> \in order

\* How many members of S come before x.
Rank(S, order, x) == Cardinality({y \in S : <<y, x>> \in order})

\* In a total order, ranks are places: different members have different ranks, in
\* their order, and each rank below the number of members is one's.
LEMMA RanksArePlaces ==
    ASSUME NEW S, IsFiniteSet(S), NEW order, IsTotalOrder(S, order)
    PROVE  /\ Cardinality(S) \in Nat
           /\ \A x \in S : Rank(S, order, x) \in 0 .. Cardinality(S) - 1
           /\ \A x, y \in S : <<x, y>> \in order => Rank(S, order, x) < Rank(S, order, y)
           /\ \A i \in 0 .. Cardinality(S) - 1 : \E x \in S : Rank(S, order, x) = i
<1> DEFINE before(x) == {y \in S : <<y, x>> \in order}
<1>1. \A x \in S : before(x) \in SUBSET S /\ x \notin before(x)
    BY DEF IsTotalOrder
<1>2. Cardinality(S) \in Nat /\ \A x \in S : Rank(S, order, x) = Cardinality(before(x))
    BY FS_CardinalityType DEF Rank
<1>3. ASSUME NEW x \in S, NEW y \in S, <<x, y>> \in order
      PROVE  before(x) \in SUBSET before(y) /\ before(x) # before(y)
  <2>1. x \in before(y)
    BY <1>3
  <2>2. \A z \in before(x) : z \in before(y)
    BY <1>3 DEF IsTotalOrder
  <2> QED
    BY <1>1, <2>1, <2>2
<1> HIDE DEF before
<1>4. ASSUME NEW x \in S
      PROVE  Rank(S, order, x) \in 0 .. Cardinality(S) - 1
  <2>1. IsFiniteSet(before(x)) /\ Cardinality(before(x)) <= Cardinality(S)
        /\ Cardinality(before(x)) # Cardinality(S)
    BY <1>1, FS_Subset
  <2>2. Cardinality(before(x)) \in Nat
    BY <2>1, FS_CardinalityType
  <2> QED
    BY <1>2, <2>1, <2>2
<1>5. ASSUME NEW x \in S, NEW y \in S, <<x, y>> \in order
      PROVE  Rank(S, order, x) < Rank(S, order, y)
  <2>1. IsFiniteSet(before(y)) /\ before(y) \in SUBSET S
    BY <1>1, FS_Subset
  <2>2. Cardinality(before(x)) <= Cardinality(before(y))
        /\ Cardinality(before(x)) # Cardinality(before(y))
    BY <1>3, <1>5, <2>1, FS_Subset
  <2> QED
    BY <1>2, <1>4, <2>2
<1>6. ASSUME NEW i \in 0 .. Cardinality(S) - 1
      PROVE  \E x \in S : Rank(S, order, x) = i
  <2> DEFINE places == 0 .. Cardinality(S) - 1
             rank == [x \in S |-> Rank(S, order, x)]
  <2>1. IsFiniteSet(places) /\ Cardinality(places) = Cardinality(S)
    <3>1. Cardinality(S) - 1 \in Int /\ 0 \in Int
      BY <1>2
    <3>2. IsFiniteSet(places) /\ Cardinality(places) =
              IF 0 > Cardinality(S) - 1 THEN 0 ELSE Cardinality(S) - 1 - 0 + 1
      BY <3>1, FS_Interval
    <3> QED
      BY <1>2, <3>2
  <2>2. rank \in [S -> places]
    BY <1>4
  <2>3. \A x, y \in S : rank[x] = rank[y] => x = y
    <3>1. ASSUME NEW x \in S, NEW y \in S, x # y
          PROVE  Rank(S, order, x) # Rank(S, order, y)
      <4>1. /\ Rank(S, order, x) < Rank(S, order, y) \/ Rank(S, order, y) < Rank(S, order, x)
            /\ Rank(S, order, x) \in Nat /\ Rank(S, order, y) \in Nat
        <5>1. <<x, y>> \in order \/ <<y, x>> \in order
          BY <3>1 DEF IsTotalOrder
        <5> QED
          BY <1>2, <1>4, <1>5, <5>1
      <4> QED
        BY <4>1
    <3> QED
      BY <3>1
  <2>4. rank \in Injection(S, places)
    BY <2>2, <2>3 DEF Injection, IsInjective
  <2>5. rank \in Surjection(S, places)
    BY <2>1, <2>4, FS_Injection
  <2> QED
    BY <2>5 DEF Surjection
<1> QED
    BY <1>2, <1>4, <1>5, <1>6

\* ORDER BY lists every member once, in the order.
LEMMA OrderByLists ==
    ASSUME NEW S, IsFiniteSet(S), NEW order, IsTotalOrder(S, order)
    PROVE  /\ OrderBy(S, order) \in [1 .. Cardinality(S) -> S]
           /\ Cardinality(S) \in Nat
           /\ \A i, j \in 1 .. Cardinality(S) :
                  i < j => <<OrderBy(S, order)[i], OrderBy(S, order)[j]>> \in order
           /\ \A i \in 1 .. Cardinality(S) : Rank(S, order, OrderBy(S, order)[i]) = i - 1
           /\ \A x \in S : \E i \in 1 .. Cardinality(S) : OrderBy(S, order)[i] = x
<1> DEFINE list == OrderBy(S, order)
<1>1. /\ Cardinality(S) \in Nat
      /\ \A x \in S : Rank(S, order, x) \in 0 .. Cardinality(S) - 1
      /\ \A x, y \in S : <<x, y>> \in order => Rank(S, order, x) < Rank(S, order, y)
      /\ \A i \in 0 .. Cardinality(S) - 1 : \E x \in S : Rank(S, order, x) = i
    BY RanksArePlaces
<1>2. ASSUME NEW i \in 1 .. Cardinality(S)
      PROVE  list[i] \in S /\ Rank(S, order, list[i]) = i - 1
  <2>1. i - 1 \in 0 .. Cardinality(S) - 1
    BY <1>1
  <2>2. \E x \in S : Rank(S, order, x) = i - 1
    BY <1>1, <2>1
  <2>3. list[i] = CHOOSE x \in S : Rank(S, order, x) = i - 1
    BY DEF OrderBy, Rank
  <2> QED
    BY <2>2, <2>3
<1>3. list \in [1 .. Cardinality(S) -> S]
    BY <1>2 DEF OrderBy
<1>4. ASSUME NEW i \in 1 .. Cardinality(S), NEW j \in 1 .. Cardinality(S), i < j
      PROVE  <<list[i], list[j]>> \in order
  <2>1. list[i] \in S /\ list[j] \in S
        /\ Rank(S, order, list[i]) = i - 1 /\ Rank(S, order, list[j]) = j - 1
    BY <1>2
  <2>2. list[i] # list[j]
    BY <1>1, <1>4, <2>1
  <2>3. <<list[j], list[i]>> \notin order
    <3>1. ASSUME <<list[j], list[i]>> \in order
          PROVE  FALSE
      <4>1. Rank(S, order, list[j]) < Rank(S, order, list[i])
        BY <1>1, <2>1, <3>1
      <4> QED
        BY <1>1, <1>4, <2>1, <4>1
    <3> QED
      BY <3>1
  <2> QED
    BY <2>1, <2>2, <2>3 DEF IsTotalOrder
<1>5. ASSUME NEW x \in S
      PROVE  \E i \in 1 .. Cardinality(S) : list[i] = x
  <2> DEFINE i == Rank(S, order, x) + 1
  <2>1. i \in 1 .. Cardinality(S) /\ Rank(S, order, x) \in Nat
    BY <1>1
  <2>2. list[i] \in S /\ Rank(S, order, list[i]) = Rank(S, order, x)
    BY <1>2, <2>1
  <2> DEFINE y == list[i]
  <2>3. y \in S /\ Rank(S, order, y) = Rank(S, order, x)
    BY <2>2
  <2> HIDE DEF y, list
  <2>4. ~(<<x, y>> \in order) /\ ~(<<y, x>> \in order)
    <3>1. ~(Rank(S, order, y) < Rank(S, order, x)) /\ ~(Rank(S, order, x) < Rank(S, order, y))
      BY <2>1, <2>3
    <3> QED
      BY <1>1, <2>3, <3>1
  <2>5. y = x
    BY <2>3, <2>4 DEF IsTotalOrder
  <2> QED
    BY <2>1, <2>5 DEF y
<1> QED
    BY <1>1, <1>2, <1>3, <1>4, <1>5

-----------------------------------------------------------------------------
(* The history of a note *)

\* What the console shows as the history of a note: each of its snapshots once,
\* newest first.
LEMMA HistoryLists ==
    ASSUME Inv, NEW n
    PROVE  LET all == {s \in db.snapshots : s.note = n}
               history == NoteHistory(db.snapshots, n)
           IN  /\ history \in [1 .. Cardinality(all) -> all]
               /\ Cardinality(all) \in Nat
               /\ \A i, j \in 1 .. Cardinality(all) :
                      i < j => history[i].revision > history[j].revision
               /\ \A s \in all : \E i \in 1 .. Cardinality(all) : history[i] = s
<1> DEFINE all == {s \in db.snapshots : s.note = n}
           order == OrderOf(all, LAMBDA s, t : s.revision > t.revision)
<1>1. \A s \in all : s.revision \in 1 .. MaxRevision
    BY DEF Inv, TypeOK, IsDatabase, Snapshot
<1>2. \A s, t \in all : s.revision = t.revision => s = t
    BY DEF Inv, HistoryConsistent, HistoryOK, SnapshotsDistinct
<1>3. \A s, t \in all : <<s, t>> \in order <=> s.revision > t.revision
    BY DEF OrderOf
<1>4. NoteHistory(db.snapshots, n) = OrderBy(all, order)
    BY DEF NoteHistory
<1> HIDE DEF all, order
<1>5. IsTotalOrder(all, order)
    BY <1>1, <1>2, <1>3, BoundsAssumption DEF IsTotalOrder
<1>6. IsFiniteSet(all)
  <2> DEFINE revision == [s \in all |-> s.revision]
  <2>1. revision \in [all -> 1 .. MaxRevision] /\ \A s, t \in all : revision[s] = revision[t] => s = t
    BY <1>1, <1>2
  <2>2. revision \in Injection(all, 1 .. MaxRevision)
    BY <2>1 DEF Injection, IsInjective
  <2>3. IsFiniteSet(1 .. MaxRevision)
    BY FS_Interval, BoundsAssumption
  <2> QED
    BY <2>2, <2>3, FS_Injection
<1>7. /\ OrderBy(all, order) \in [1 .. Cardinality(all) -> all]
      /\ Cardinality(all) \in Nat
      /\ \A i, j \in 1 .. Cardinality(all) :
             i < j => <<OrderBy(all, order)[i], OrderBy(all, order)[j]>> \in order
      /\ \A x \in all : \E i \in 1 .. Cardinality(all) : OrderBy(all, order)[i] = x
    BY <1>5, <1>6, OrderByLists
<1>8. \A i, j \in 1 .. Cardinality(all) :
          i < j => OrderBy(all, order)[i].revision > OrderBy(all, order)[j].revision
    BY <1>3, <1>7
<1> QED
    BY <1>4, <1>7, <1>8 DEF all

\* The history of a note starts with its newest snapshot.
LEMMA HistoryStartsWith ==
    ASSUME Inv, NEW n \in DOMAIN db.notes,
           NEW newest \in db.snapshots, newest.note = n,
           \A s \in db.snapshots : s.note = n => s.revision <= newest.revision
    PROVE  /\ NoteHistory(db.snapshots, n) # <<>>
           /\ Head(NoteHistory(db.snapshots, n)) = newest
<1> DEFINE all == {s \in db.snapshots : s.note = n}
           history == NoteHistory(db.snapshots, n)
<1>1. newest \in all
    OBVIOUS
<1>2. \A s \in all : s.revision \in Nat /\ s.revision <= newest.revision
    BY BoundsAssumption DEF Inv, TypeOK, IsDatabase, Snapshot
<1>3. /\ history \in [1 .. Cardinality(all) -> all]
      /\ Cardinality(all) \in Nat
      /\ \A i, j \in 1 .. Cardinality(all) : i < j => history[i].revision > history[j].revision
      /\ \A s \in all : \E i \in 1 .. Cardinality(all) : history[i] = s
    BY ONLY Inv, HistoryLists
<1> HIDE DEF all, history
<1>4. PICK i \in 1 .. Cardinality(all) : history[i] = newest
    BY <1>1, <1>3
<1>5. 1 \in 1 .. Cardinality(all) /\ history[1] \in all
    BY <1>3, <1>4
<1>6. i = 1
  <2>1. ~(1 < i)
    BY <1>2, <1>3, <1>4, <1>5
  <2> QED
    BY <1>3, <1>4, <2>1
<1>7. history # <<>> /\ Head(history) = newest
    BY <1>3, <1>4, <1>5, <1>6
<1> QED
    BY <1>7 DEF history

\* Where the rows have their snapshots, the history starts with the row.
LEMMA CoveredHistory ==
    ASSUME Inv, Covered(db), Behind(db), NEW n \in DOMAIN db.notes
    PROVE  /\ NoteHistory(db.snapshots, n) # <<>>
           /\ Head(NoteHistory(db.snapshots, n)).revision = db.notes[n].revision
           /\ Head(NoteHistory(db.snapshots, n)).change = db.notes[n].change
<1> DEFINE row == [note |-> n, revision |-> db.notes[n].revision, change |-> db.notes[n].change]
<1>1. row \in db.snapshots
    BY DEF Covered, SnapshotsOf
<1>2. row.note = n /\ row.revision = db.notes[n].revision /\ row.change = db.notes[n].change
    OBVIOUS
<1>3. \A t \in db.snapshots : t.note = n => t.revision <= row.revision
    BY <1>2 DEF Behind
<1> HIDE DEF row
<1> QED
    BY <1>1, <1>2, <1>3, HistoryStartsWith

\* Through failed pushes and backups, restores that fail before or after the two
\* UPDATEs and crashes at any point, the console shows each note as the newest entry
\* of its history, under the revision it has.
THEOREM SpecHistoryStartsAtRow ==
    Init /\ [][Next /\ ~FailsBetweenUpdates]_vars =>
        [](pc = "free" =>
               \A n \in DOMAIN db.notes :
                   /\ NoteHistory(db.snapshots, n) # <<>>
                   /\ Head(NoteHistory(db.snapshots, n)).revision = db.notes[n].revision
                   /\ Head(NoteHistory(db.snapshots, n)).change = db.notes[n].change)
<1>1. Inv /\ BehindInv /\ (pc = "free" => Covered(db)) =>
          (pc = "free" =>
               \A n \in DOMAIN db.notes :
                   /\ NoteHistory(db.snapshots, n) # <<>>
                   /\ Head(NoteHistory(db.snapshots, n)).revision = db.notes[n].revision
                   /\ Head(NoteHistory(db.snapshots, n)).change = db.notes[n].change)
    BY CoveredHistory DEF BehindInv
<1>2. [Next /\ ~FailsBetweenUpdates]_vars => [Next]_vars
    OBVIOUS
<1> QED
    BY <1>1, <1>2, SpecInv, SpecBehindInv, SpecHistoryReachesRows, PTL DEF Spec

\* The newest snapshot of each note holds what its row holds, maybe at a revision
\* the row no longer has.
Newest(image) ==
    \A n \in DOMAIN image.notes :
        \E s \in image.snapshots :
            /\ s.note = n
            /\ s.change = image.notes[n].change
            /\ \A t \in image.snapshots : t.note = n => t.revision <= s.revision

\* In every database there is, at every step: unlike Covered it outlives a restore
\* that fails between the two UPDATEs, a backup of what that leaves, and a restore
\* from such a backup.
NewestInv ==
    /\ Newest(db)
    /\ Newest(tx)
    /\ \A f \in DOMAIN backups : Newest(backups[f])

\* A row that has its snapshot has it as the newest.
LEMMA CoveredNewest ==
    ASSUME NEW image, Behind(image), Covered(image)
    PROVE  Newest(image)
<1> SUFFICES ASSUME NEW n \in DOMAIN image.notes
             PROVE  \E s \in image.snapshots :
                        /\ s.note = n
                        /\ s.change = image.notes[n].change
                        /\ \A t \in image.snapshots : t.note = n => t.revision <= s.revision
    BY DEF Newest
<1> DEFINE row == [note |-> n, revision |-> image.notes[n].revision,
                   change |-> image.notes[n].change]
<1>1. row \in image.snapshots
    BY DEF Covered, SnapshotsOf
<1>2. row.note = n /\ row.revision = image.notes[n].revision /\ row.change = image.notes[n].change
    OBVIOUS
<1>3. \A t \in image.snapshots : t.note = n => t.revision <= row.revision
    BY <1>2 DEF Behind
<1> HIDE DEF row
<1> QED
    BY <1>1, <1>2, <1>3

\* store_change above the current revision: the rows it stores have their snapshots,
\* the others keep theirs.
LEMMA StoreNewest ==
    ASSUME NEW image, NEW rows, Newest(image), Behind(Store(image, rows))
    PROVE  Newest(Store(image, rows))
<1> DEFINE new == Store(image, rows)
<1>1. /\ new.snapshots = image.snapshots \cup SnapshotsOf(rows)
      /\ DOMAIN new.notes = DOMAIN image.notes \cup DOMAIN rows
      /\ \A n \in DOMAIN rows : new.notes[n] = rows[n]
      /\ \A n \in DOMAIN image.notes \ DOMAIN rows : new.notes[n] = image.notes[n]
    BY DEF Store, Upsert
<1>2. \A s \in new.snapshots :
          s.note \in DOMAIN new.notes => s.revision <= new.notes[s.note].revision
    BY DEF Behind
<1> HIDE DEF new
<1>3. ASSUME NEW n \in DOMAIN rows
      PROVE  \E s \in new.snapshots :
                 /\ s.note = n
                 /\ s.change = new.notes[n].change
                 /\ \A t \in new.snapshots : t.note = n => t.revision <= s.revision
  <2> DEFINE row == [note |-> n, revision |-> rows[n].revision, change |-> rows[n].change]
  <2>1. row \in new.snapshots
    BY <1>1 DEF SnapshotsOf
  <2>2. row.note = n /\ row.revision = new.notes[n].revision /\ row.change = new.notes[n].change
    BY <1>1
  <2>3. \A t \in new.snapshots : t.note = n => t.revision <= row.revision
    BY <1>1, <1>2, <2>2
  <2> HIDE DEF row
  <2> QED
    BY <2>1, <2>2, <2>3
<1>4. ASSUME NEW n \in DOMAIN image.notes \ DOMAIN rows
      PROVE  \E s \in new.snapshots :
                 /\ s.note = n
                 /\ s.change = new.notes[n].change
                 /\ \A t \in new.snapshots : t.note = n => t.revision <= s.revision
  <2>1. PICK s \in image.snapshots :
            /\ s.note = n
            /\ s.change = image.notes[n].change
            /\ \A t \in image.snapshots : t.note = n => t.revision <= s.revision
    BY DEF Newest
  <2>2. \A t \in SnapshotsOf(rows) : t.note # n
    BY DEF SnapshotsOf
  <2> QED
    BY <1>1, <2>1, <2>2
<1> QED
    BY <1>1, <1>3, <1>4 DEF Newest, new

\* The second UPDATE moves all snapshots by the same, so the newest stay so.
LEMMA RebaseSnapshotsNewest ==
    ASSUME Inv, Newest(db), RebaseSnapshots
    PROVE  Newest(db')
<1> DEFINE offset == CurrentRevision(previous)
<1>1. /\ db'.notes = db.notes
      /\ db'.snapshots = {RebasedSnapshot(s) : s \in db.snapshots}
    BY DEF RebaseSnapshots
<1>2. /\ offset \in Nat
      /\ \A s \in db.snapshots : s.revision \in Nat
    BY NotesAndRevisions DEF Inv, TypeOK, IsDatabase, Snapshot
<1>3. \A s : /\ RebasedSnapshot(s).note = s.note
             /\ RebasedSnapshot(s).change = s.change
             /\ RebasedSnapshot(s).revision = s.revision + offset
    BY DEF RebasedSnapshot
<1> HIDE DEF offset
<1> SUFFICES ASSUME NEW n \in DOMAIN db.notes
             PROVE  \E s \in db'.snapshots :
                        /\ s.note = n
                        /\ s.change = db.notes[n].change
                        /\ \A t \in db'.snapshots : t.note = n => t.revision <= s.revision
    BY <1>1 DEF Newest
<1>4. PICK s \in db.snapshots :
          /\ s.note = n
          /\ s.change = db.notes[n].change
          /\ \A t \in db.snapshots : t.note = n => t.revision <= s.revision
    BY DEF Newest
<1>5. \A t \in db.snapshots : t.note = n => t.revision + offset <= s.revision + offset
    BY <1>2, <1>4
<1>6. /\ RebasedSnapshot(s) \in db'.snapshots
      /\ \A u \in db'.snapshots : u.note = n => u.revision <= RebasedSnapshot(s).revision
    BY <1>1, <1>3, <1>5
<1> QED
    BY <1>3, <1>4, <1>6

\* No step, not even one cut short, puts another state of a note before the last.
LEMMA NextNewestInv ==
    ASSUME Inv, BehindInv, BehindInv', NewestInv, [Next]_vars
    PROVE  NewestInv'
<1>0. Newest(EmptyFile)
    BY DEF Newest, EmptyFile, NoNotes
<1>1. CASE Open
  <2>1. Newest(db')
    BY <1>1, OpenCovers, CoveredNewest DEF BehindInv
  <2> QED
    BY <1>1, <2>1 DEF Open, NewestInv
<1>2. CASE PushChange
  <2>1. Newest(tx')
    BY <1>2, StoreNewest DEF PushChange, NewestInv, BehindInv
  <2> QED
    BY <1>2, <2>1 DEF PushChange, NewestInv
<1>3. CASE PushBegin \/ PushCommit \/ PushFails \/ Notify \/ Stop \/ Crash
    BY <1>0, <1>3 DEF PushBegin, PushCommit, PushFails, Notify, Stop, Crash, NewestInv
<1>4. CASE Backup
  <2>1. ASSUME NEW f \in BackupFiles, BackupBegin(f)
        PROVE  NewestInv'
    BY <1>0, <2>1 DEF BackupBegin, NewestInv
  <2>2. CASE BackupFinish
    BY <2>2 DEF BackupFinish, NewestInv
  <2>3. CASE BackupFails
    BY <2>3 DEF BackupFails, NewestInv
  <2> QED
    BY <1>4, <2>1, <2>2, <2>3 DEF Backup
<1>5. ASSUME NEW f \in BackupFiles, RestoreCopy(f)
      PROVE  NewestInv'
    BY <1>5 DEF RestoreCopy, NewestInv
<1>6. CASE RestoreWithoutTables \/ RestoreSkipsRebase \/ RestoreFails
    BY <1>6 DEF RestoreWithoutTables, RestoreSkipsRebase, RestoreFails, NewestInv
<1>7. CASE RebaseNotes
  <2>1. /\ tx' = tx /\ backups' = backups /\ db'.snapshots = db.snapshots
        /\ DOMAIN db'.notes = DOMAIN db.notes
        /\ \A n \in DOMAIN db.notes : db'.notes[n].change = db.notes[n].change
    BY <1>7 DEF RebaseNotes, RebasedRow
  <2>2. Newest(db')
    BY <2>1 DEF Newest, NewestInv
  <2> QED
    BY <2>1, <2>2 DEF NewestInv
<1>8. CASE RebaseSnapshots
  <2>1. tx' = tx /\ backups' = backups
    BY <1>8 DEF RebaseSnapshots
  <2> QED
    BY <1>8, <2>1, RebaseSnapshotsNewest DEF NewestInv
<1>9. CASE EmitTombstones
  <2>1. tx' = tx /\ backups' = backups
    BY <1>9 DEF EmitTombstones
  <2>2. Newest(db')
    BY <1>9, StoreNewest DEF EmitTombstones, NewestInv, BehindInv
  <2> QED
    BY <2>1, <2>2 DEF NewestInv
<1>10. CASE UNCHANGED vars
    BY <1>10 DEF vars, NewestInv
<1> QED
    BY <1>1, <1>2, <1>3, <1>4, <1>5, <1>6, <1>7, <1>8, <1>9, <1>10
    DEF Next, Push, Restore

\* Whatever fails, also between the two UPDATEs, and wherever the process dies, the
\* console shows each note as the newest entry of its history; under the revision it
\* has, as long as nothing has failed half way.
THEOREM SpecHistoryStartsAtNote == Spec => []HistoryStartsAtNote
<1>1. Init => NewestInv
    BY DEF Init, NewestInv, Newest, EmptyFile, NoNotes
<1>2. Inv /\ BehindInv /\ BehindInv' /\ NewestInv /\ [Next]_vars => NewestInv'
    BY NextNewestInv
<1>3. Inv /\ BehindInv /\ RowsHaveSnapshots /\ NewestInv => HistoryStartsAtNote
  <2> SUFFICES ASSUME Inv, BehindInv, RowsHaveSnapshots, NewestInv,
                      pc = "free", NEW n \in DOMAIN db.notes
               PROVE  /\ NoteHistory(db.snapshots, n) # <<>>
                      /\ Head(NoteHistory(db.snapshots, n)).change = db.notes[n].change
                      /\ errors = 0 =>
                             Head(NoteHistory(db.snapshots, n)).revision = db.notes[n].revision
    BY DEF HistoryStartsAtNote, NoteDetail
  <2>1. PICK s \in db.snapshots :
            /\ s.note = n
            /\ s.change = db.notes[n].change
            /\ \A t \in db.snapshots : t.note = n => t.revision <= s.revision
    BY DEF NewestInv, Newest
  <2>2. /\ NoteHistory(db.snapshots, n) # <<>>
        /\ Head(NoteHistory(db.snapshots, n)) = s
    BY <2>1, HistoryStartsWith
  <2>3. errors = 0 => Head(NoteHistory(db.snapshots, n)).revision = db.notes[n].revision
    BY CoveredHistory DEF RowsHaveSnapshots, Covered, BehindInv
  <2> QED
    BY <2>1, <2>2, <2>3
<1> QED
    BY <1>1, <1>2, <1>3, SpecInv, SpecBehindInv, SpecRowsHaveSnapshots, PTL DEF Spec

-----------------------------------------------------------------------------
(* The list of notes *)

\* The notes a query finds.
Found(notes, query) == {n \in DOMAIN notes : Matches(notes[n], query)}

\* Those of them above a note in the list.
Above(notes, found, n) == {m \in found : notes[m].revision > notes[n].revision}

\* A list of notes: each once, newest revision first.
IsListOf(listing, notes, found) ==
    /\ IsFiniteSet(found) /\ Cardinality(found) \in Nat
    /\ listing \in [1 .. Cardinality(found) -> found]
    /\ \A i, j \in 1 .. Cardinality(found) :
           i < j => notes[listing[i]].revision > notes[listing[j]].revision
    /\ \A n \in found : \E i \in 1 .. Cardinality(found) : listing[i] = n
    /\ \A i \in 1 .. Cardinality(found) :
           Cardinality(Above(notes, found, listing[i])) = i - 1

\* The list of a query is one of what it finds.
LEMMA ListingLists ==
    ASSUME NEW notes, IsNotes(notes), NoSharedRevision(notes), NEW query
    PROVE  IsListOf(Listing(notes, query), notes, Found(notes, query))
<1> DEFINE found == Found(notes, query)
           Key(n) == [note |-> n, revision |-> notes[n].revision,
                      updated |-> notes[n].change.updated]
           order == OrderOf(found, LAMBDA m, n : Precedes(Key(m), Key(n)))
           listing == OrderBy(found, order)
<1>1. found \subseteq DOMAIN notes /\ found \in SUBSET NoteIds
    BY DEF IsNotes, Found
<1>2. \A n \in found : notes[n].revision \in Nat
    BY <1>1, BoundsAssumption DEF IsNotes, Row
<1>3. \A m, n \in found : m # n => notes[m].revision # notes[n].revision
    BY <1>1 DEF NoSharedRevision
<1>4. \A m, n \in found : <<m, n>> \in order <=> Precedes(Key(m), Key(n))
    BY DEF OrderOf
<1>5. Listing(notes, query) = listing
    BY DEF Listing, Found
<1>6. IsFiniteSet(found)
    BY <1>1, NoteIdsAssumption, FS_Subset
<1>7. \A n \in found : notes[n].change.updated \in Nat /\ n \in Nat
    BY <1>1, NoteIdsAssumption, BoundsAssumption DEF IsNotes, Row, Change, Times
<1> HIDE DEF found, order
<1>8. ASSUME NEW m \in found, NEW n \in found
      PROVE  <<m, n>> \in order <=> notes[m].revision > notes[n].revision
  <2>1. <<m, n>> \in order <=> Precedes(Key(m), Key(n))
    BY <1>4
  <2>2. m = n => ~Precedes(Key(m), Key(n))
    BY <1>2, <1>7 DEF Precedes
  <2>3. m # n => (Precedes(Key(m), Key(n)) <=> notes[m].revision > notes[n].revision)
    BY <1>2, <1>3 DEF Precedes
  <2> HIDE DEF Key
  <2> QED
    BY <1>2, <2>1, <2>2, <2>3
<1>9. IsTotalOrder(found, order)
    BY <1>2, <1>3, <1>8 DEF IsTotalOrder
<1>10. /\ listing \in [1 .. Cardinality(found) -> found]
       /\ Cardinality(found) \in Nat
       /\ \A i, j \in 1 .. Cardinality(found) : i < j => <<listing[i], listing[j]>> \in order
       /\ \A i \in 1 .. Cardinality(found) : Rank(found, order, listing[i]) = i - 1
       /\ \A x \in found : \E i \in 1 .. Cardinality(found) : listing[i] = x
    BY <1>6, <1>9, OrderByLists
<1> HIDE DEF listing
<1>11. \A i, j \in 1 .. Cardinality(found) :
          i < j => notes[listing[i]].revision > notes[listing[j]].revision
    BY <1>8, <1>10
<1>12. ASSUME NEW n \in found
      PROVE  Rank(found, order, n) = Cardinality(Above(notes, found, n))
  <2>1. {m \in found : <<m, n>> \in order} = Above(notes, found, n)
    BY <1>8 DEF Above
  <2> QED
    BY <2>1 DEF Rank
<1>13. \A i \in 1 .. Cardinality(found) : Cardinality(Above(notes, found, listing[i])) = i - 1
    BY <1>10, <1>12
<1> QED
    BY <1>5, <1>6, <1>10, <1>11, <1>13 DEF IsListOf, found

\* A query without filters finds every note.
LEMMA AllNotesFound ==
    ASSUME NEW notes
    PROVE  Found(notes, AllNotes) = DOMAIN notes
    BY DEF Found, Matches, AllNotes

\* The total beside a page is the length of the list.
LEMMA TotalOfList ==
    ASSUME NEW notes, IsNotes(notes), NoSharedRevision(notes), NEW query, NEW page, NEW size
    PROVE  NoteListPage(notes, query, page, size).total = Cardinality(Found(notes, query))
<1>1. /\ Listing(notes, query) \in [1 .. Cardinality(Found(notes, query)) -> Found(notes, query)]
      /\ Cardinality(Found(notes, query)) \in Nat
    BY ListingLists DEF IsListOf
<1>2. Len(Listing(notes, query)) = Cardinality(Found(notes, query))
    BY <1>1
<1> QED
    BY <1>2 DEF NoteListPage

\* The two queries count alike, for a note is either deleted or active.
LEMMA OverviewAgrees ==
    ASSUME Inv
    PROVE  OverviewAgreesWithList
<1> DEFINE query(state) == [AllNotes EXCEPT !.state = state]
           notes == db.notes
           deleted == {n \in DOMAIN notes : IsDeleted(notes[n])}
           active == {n \in DOMAIN notes : ~IsDeleted(notes[n])}
           listing == Listing(notes, AllNotes)
<1>1. IsNotes(notes) /\ NoSharedRevision(notes)
    BY DEF Inv, TypeOK, IsDatabase, HistoryConsistent, HistoryOK
<1>2. Found(notes, query("deleted")) = deleted /\ Found(notes, query("active")) = active
    BY DEF Found, Matches, AllNotes
<1>3. IsFiniteSet(DOMAIN notes)
  <2>1. DOMAIN notes \in SUBSET NoteIds
    BY <1>1 DEF IsNotes
  <2> QED
    BY <2>1, NoteIdsAssumption, FS_Subset
<1>4. /\ IsFiniteSet(active) /\ IsFiniteSet(deleted)
      /\ Cardinality(active) \in Nat /\ Cardinality(deleted) \in Nat
    BY <1>3, FS_Subset, FS_CardinalityType
<1>5. Cardinality(DOMAIN notes) = Cardinality(active) + Cardinality(deleted)
  <2>1. active \cup deleted = DOMAIN notes /\ active \cap deleted = {}
    OBVIOUS
  <2> HIDE DEF active, deleted, notes
  <2>2. Cardinality(active \cap deleted) = 0
    BY <2>1, FS_EmptySet
  <2>3. Cardinality(active \cup deleted) =
            Cardinality(active) + Cardinality(deleted) - Cardinality(active \cap deleted)
    BY <1>4, FS_Union
  <2>4. Cardinality(DOMAIN notes) = Cardinality(active) + Cardinality(deleted) - 0
    BY <2>1, <2>2, <2>3
  <2> QED
    BY <1>4, <2>4
<1>6. /\ NoteListPage(notes, query("active"), 1, 1).total = Cardinality(active)
      /\ NoteListPage(notes, query("deleted"), 1, 1).total = Cardinality(deleted)
    BY <1>1, <1>2, TotalOfList
<1>7. ASSUME listing # <<>>
      PROVE  notes[Head(listing)].revision = CurrentRevision(notes)
  <2> DEFINE size == Cardinality(DOMAIN notes)
  <2>1. /\ listing \in [1 .. size -> DOMAIN notes] /\ size \in Nat
        /\ \A i, j \in 1 .. size : i < j => notes[listing[i]].revision > notes[listing[j]].revision
        /\ \A n \in DOMAIN notes : \E i \in 1 .. size : listing[i] = n
    <3>1. IsListOf(listing, notes, DOMAIN notes)
      <4> HIDE DEF notes
      <4>1. IsListOf(Listing(notes, AllNotes), notes, Found(notes, AllNotes))
        BY <1>1, ListingLists
      <4> QED
        BY <4>1, AllNotesFound
    <3> HIDE DEF notes, listing
    <3> QED
      BY <3>1 DEF IsListOf
  <2>2. /\ CurrentRevision(notes) \in Nat
        /\ \A n \in DOMAIN notes : notes[n].revision \in Nat \ {0}
                                   /\ notes[n].revision <= CurrentRevision(notes)
        /\ CurrentRevision(notes) # 0 =>
               \E n \in DOMAIN notes : notes[n].revision = CurrentRevision(notes)
    BY <1>1, RevisionIsGreatest, BoundsAssumption DEF IsNotes, Row
  <2> HIDE DEF notes, listing, size
  <2>3. 1 \in 1 .. size /\ Head(listing) = listing[1] /\ listing[1] \in DOMAIN notes
    BY <1>7, <2>1
  <2>4. PICK n \in DOMAIN notes : notes[n].revision = CurrentRevision(notes)
    BY <2>2, <2>3
  <2>5. PICK i \in 1 .. size : listing[i] = n
    BY <2>1
  <2>6. i = 1 \/ 1 < i
    BY <2>1
  <2> QED
    BY <2>1, <2>2, <2>3, <2>4, <2>5, <2>6
<1> HIDE DEF query, notes, deleted, active, listing
<1> QED
    BY <1>5, <1>6, <1>7 DEF OverviewAgreesWithList, Overview, query, notes, deleted, listing

\* The counts of the overview are those of the list, and the list starts at the
\* revision the overview shows.
THEOREM SpecOverviewAgrees == Spec => []OverviewAgreesWithList
    BY SpecInv, OverviewAgrees, PTL

-----------------------------------------------------------------------------
(* Reading the list page by page *)

\* A restore keeps no table in which two notes share a revision.
PreviousInv == NoSharedRevision(previous)

\* It is the one that readers saw.
LEMMA NextPreviousInv ==
    ASSUME Inv, PreviousInv, [Next]_vars
    PROVE  PreviousInv'
<1>0. NoSharedRevision(NoNotes)
    BY DEF NoSharedRevision, NoNotes
<1>1. ASSUME NEW f \in BackupFiles, RestoreCopy(f)
      PROVE  PreviousInv'
    BY <1>1 DEF RestoreCopy, PreviousInv, Inv, HistoryConsistent, HistoryOK
<1>2. previous' \in {previous, NoNotes} => PreviousInv'
    BY <1>0 DEF PreviousInv
<1>3. CASE Open \/ Push \/ Backup \/ Notify \/ Stop \/ Crash \/ UNCHANGED vars
    BY <1>2, <1>3 DEF Open, Push, PushBegin, PushChange, PushCommit, PushFails, Backup,
       BackupBegin, BackupFinish, BackupFails, Notify, Stop, Crash, vars
<1>4. CASE RestoreWithoutTables \/ RestoreSkipsRebase \/ RebaseNotes \/ RebaseSnapshots \/
           EmitTombstones \/ RestoreFails
    BY <1>2, <1>4 DEF RestoreWithoutTables, RestoreSkipsRebase, RebaseNotes, RebaseSnapshots,
       EmitTombstones, RestoreFails
<1> QED
    BY <1>1, <1>3, <1>4 DEF Next, Restore

\* What readers see never has two notes at one revision.
LEMMA PublishedNotes ==
    ASSUME Inv, PreviousInv
    PROVE  IsNotes(Published) /\ NoSharedRevision(Published)
    BY NotesAndRevisions DEF Published, Inv, HistoryConsistent, HistoryOK, PreviousInv

\* The place of a note in the list of all notes is one more than the notes above it.
LEMMA PositionIsPlace ==
    ASSUME NEW notes, IsNotes(notes), NoSharedRevision(notes), NEW n \in DOMAIN notes
    PROVE  /\ Position(notes, n) = Cardinality(Above(notes, DOMAIN notes, n)) + 1
           /\ IsFiniteSet(Above(notes, DOMAIN notes, n))
           /\ Cardinality(Above(notes, DOMAIN notes, n)) \in Nat
<1> DEFINE listing == Listing(notes, AllNotes)
           places == 1 .. Cardinality(DOMAIN notes)
<1>1. IsListOf(listing, notes, DOMAIN notes)
    BY ListingLists, AllNotesFound
<1>2. /\ DOMAIN listing = places /\ places \subseteq Nat
      /\ \E i \in places : listing[i] = n
      /\ \A i \in places : Cardinality(Above(notes, DOMAIN notes, listing[i])) = i - 1
    BY <1>1 DEF IsListOf
<1>3. Position(notes, n) \in places /\ listing[Position(notes, n)] = n
    BY <1>2 DEF Position
<1>4. Above(notes, DOMAIN notes, n) \in SUBSET DOMAIN notes
    BY DEF Above
<1>5. /\ IsFiniteSet(Above(notes, DOMAIN notes, n))
      /\ Cardinality(Above(notes, DOMAIN notes, n)) \in Nat
    BY <1>1, <1>4, FS_Subset, FS_CardinalityType DEF IsListOf
<1> HIDE DEF listing, places
<1>6. Cardinality(Above(notes, DOMAIN notes, n)) = Position(notes, n) - 1
    BY <1>2, <1>3
<1>7. Position(notes, n) \in Nat
    BY <1>2, <1>3
<1> QED
    BY <1>5, <1>6, <1>7

\* Where one table of notes supersedes another, a note that stays as it was does not
\* move up: what was above it stays above it.
LEMMA SupersedesPosition ==
    ASSUME NEW next, IsNotes(next), NoSharedRevision(next),
           NEW last, IsNotes(last), NoSharedRevision(last), Supersedes(next, last),
           NEW n \in DOMAIN last, n \in DOMAIN next, next[n] = last[n]
    PROVE  Position(next, n) >= Position(last, n)
<1> DEFINE before == Above(last, DOMAIN last, n)
           after == Above(next, DOMAIN next, n)
<1>1. /\ CurrentRevision(last) \in Nat
      /\ \A m \in DOMAIN last : last[m].revision \in Nat /\ last[m].revision <= CurrentRevision(last)
      /\ \A m \in DOMAIN next : next[m].revision \in Nat
    BY RevisionIsGreatest, BoundsAssumption DEF IsNotes, Row
<1>2. ASSUME NEW m \in DOMAIN last, last[m].revision > last[n].revision
      PROVE  m \in DOMAIN next /\ next[m].revision > next[n].revision
  <2>1. m \in DOMAIN next
    BY DEF Supersedes
  <2>2. CASE next[m] = last[m]
    BY <1>2, <2>1, <2>2
  <2>3. CASE next[m] # last[m]
    <3>1. next[m].revision > CurrentRevision(last)
      BY <2>1, <2>3 DEF Supersedes, ChangesSince
    <3> QED
      BY <1>1, <2>1, <3>1
  <2> QED
    BY <2>2, <2>3
<1>3. before \in SUBSET after
    BY <1>2 DEF Above
<1>4. /\ Position(last, n) = Cardinality(before) + 1 /\ Cardinality(before) \in Nat
      /\ Position(next, n) = Cardinality(after) + 1 /\ Cardinality(after) \in Nat
      /\ IsFiniteSet(after)
    BY PositionIsPlace
<1> HIDE DEF before, after
<1>5. Cardinality(before) <= Cardinality(after)
    BY <1>3, <1>4, FS_Subset
<1> QED
    BY <1>4, <1>5

\* If no backup or restore is cut short, a reader of the list misses no note that stays as it was,
\* however many pushes and restores fall between two pages.
THEOREM SpecPageReadersMissNothing ==
    ASSUME ~BackUpEmptyStore
    PROVE  UncutSpec => PageReadersMissNothing
<1> DEFINE Stays(n) ==
               n \in DOMAIN Published' /\ Published'[n] = Published[n] =>
                   Position(Published', n) >= Position(Published, n)
<1>1. ASSUME Inv, Inv', PreviousInv, PreviousInv', PushInProgress, CursorsInv, [Next /\ ~CutShort]_vars,
             Published' # Published
      PROVE  \A n \in DOMAIN Published : Stays(n)
  <2>1. Supersedes(Published', Published)
    BY <1>1, PublishedSupersedes
  <2>2. /\ IsNotes(Published) /\ NoSharedRevision(Published)
        /\ IsNotes(Published') /\ NoSharedRevision(Published')
  <3>1. IsNotes(Published) /\ NoSharedRevision(Published)
    BY <1>1, PublishedNotes
  <3>2. IsNotes(Published') /\ NoSharedRevision(Published')
    BY <1>1 DEF Published, Inv, TypeOK, IsDatabase, HistoryConsistent, HistoryOK, PreviousInv
  <3> QED
    BY <3>1, <3>2
  <2> QED
    BY <2>1, <2>2, SupersedesPosition
<1>2. Inv /\ Inv' /\ PreviousInv /\ PreviousInv' /\ PushInProgress /\ CursorsInv
             /\ [Next /\ ~CutShort]_vars
          => [\A n \in DOMAIN Published : Stays(n)]_Published
    BY <1>1
<1>3. Init => PreviousInv
    BY DEF Init, PreviousInv, NoSharedRevision, NoNotes
<1>4. Inv /\ PreviousInv /\ [Next]_vars => PreviousInv'
    BY NextPreviousInv
<1> QED
    BY <1>2, <1>3, <1>4, UncutIsSpec, SpecInv, SpecPushInProgress, SpecCursorsInv, PTL
    DEF UncutSpec, Spec, PageReadersMissNothing

-----------------------------------------------------------------------------
(* The pages put together *)

\* Min and Max of two numbers.
LEMMA MinMaxOfTwo ==
    ASSUME NEW a \in Nat, NEW b \in Nat
    PROVE  /\ Min({a, b}) = IF a <= b THEN a ELSE b
           /\ Max({a, b}) = IF a <= b THEN b ELSE a
    BY DEF Min, Max

\* The sequences seqs put together one by one.
JoinedUpTo(g, seqs) ==
    /\ g \in [1 .. Len(seqs) -> {g[i] : i \in 1 .. Len(seqs)}]
    /\ \A i \in 1 .. Len(seqs) : g[i] = IF i = 1 THEN seqs[i] ELSE g[i - 1] \o seqs[i]

\* FlattenSeq computes what its recursion equation says: a solution of the equation
\* is the only one.
LEMMA FlattenSolution ==
    ASSUME NEW seqs, NEW C \in Nat \ {0}, Len(seqs) = C, NEW g, JoinedUpTo(g, seqs)
    PROVE  FlattenSeq(seqs) = g[C]
<1> DEFINE flatten == CHOOSE f :
               f = [i \in 1 .. Len(seqs) |-> IF i = 1 THEN seqs[i] ELSE f[i - 1] \o seqs[i]]
           wrong == {i \in 1 .. C : flatten[i] # g[i]}
<1>1. FlattenSeq(seqs) = flatten[Len(seqs)]
    BY DEF FlattenSeq
<1>2. flatten = [i \in 1 .. C |-> IF i = 1 THEN seqs[i] ELSE flatten[i - 1] \o seqs[i]]
  <2>1. g = [i \in 1 .. C |-> IF i = 1 THEN seqs[i] ELSE g[i - 1] \o seqs[i]]
    BY DEF JoinedUpTo
  <2> QED
    BY <2>1
<1> HIDE DEF flatten
<1>3. \A i \in 1 .. C :
          flatten[i] = IF i = 1 THEN seqs[i] ELSE flatten[i - 1] \o seqs[i]
    BY <1>2
<1>4. \A i \in 1 .. C : g[i] = IF i = 1 THEN seqs[i] ELSE g[i - 1] \o seqs[i]
    BY DEF JoinedUpTo
<1>5. ASSUME NEW i \in wrong
      PROVE  \E j \in wrong : j < i
  <2>1. i \in 1 .. C /\ flatten[i] # g[i]
    OBVIOUS
  <2>2. i # 1
    BY <1>3, <1>4, <2>1
  <2>3. i - 1 \in 1 .. C /\ i - 1 < i
    BY <2>1, <2>2
  <2>4. flatten[i - 1] # g[i - 1]
    BY <1>3, <1>4, <2>1, <2>2
  <2> QED
    BY <2>3, <2>4
<1>6. wrong \subseteq Nat
    OBVIOUS
<1>7. C \in wrong \/ flatten[C] = g[C]
    OBVIOUS
<1> HIDE DEF wrong
<1>8. wrong = {}
  <2>1. wrong # {} => \E i \in wrong : \A j \in wrong : ~(<<j, i>> \in OpToRel(<, Nat))
    BY <1>6, NatLessThanWellFounded, WFMin
  <2>2. wrong # {} => \E i \in wrong : \A j \in wrong : ~(j < i)
    BY <1>6, <2>1 DEF OpToRel
  <2> QED
    BY <1>5, <2>2
<1> QED
    BY <1>1, <1>7, <1>8

\* The first a elements and those from a + 1 to b are the first b.
LEMMA SubSeqsJoin ==
    ASSUME NEW S, NEW seq \in Seq(S), NEW a \in Nat, NEW b \in Nat, a <= b, b <= Len(seq)
    PROVE  SubSeq(seq, 1, a) \o SubSeq(seq, a + 1, b) = SubSeq(seq, 1, b)
<1> DEFINE first == SubSeq(seq, 1, a)
           rest == SubSeq(seq, a + 1, b)
           both == SubSeq(seq, 1, b)
<1>1. \A i \in 1 .. b : seq[i] \in S
    BY ElementOfSeq
<1>2. /\ first \in Seq(S) /\ Len(first) = a
      /\ \A i \in 1 .. a : first[i] = seq[i]
  <2>1. \A i \in 1 .. a : seq[i] \in S
    BY <1>1
  <2>2. 1 \in Int /\ a \in Int
    OBVIOUS
  <2>3. /\ first \in Seq(S)
        /\ Len(first) = IF 1 <= a THEN a - 1 + 1 ELSE 0
        /\ \A i \in 1 .. a - 1 + 1 : first[i] = seq[1 + i - 1]
    BY <2>1, <2>2, SubSeqProperties
  <2> HIDE DEF first
  <2> QED
    BY <2>3
<1>3. /\ both \in Seq(S) /\ Len(both) = b
      /\ \A i \in 1 .. b : both[i] = seq[i]
  <2>1. 1 \in Int /\ b \in Int
    OBVIOUS
  <2>2. /\ both \in Seq(S)
        /\ Len(both) = IF 1 <= b THEN b - 1 + 1 ELSE 0
        /\ \A i \in 1 .. b - 1 + 1 : both[i] = seq[1 + i - 1]
    BY <1>1, <2>1, SubSeqProperties
  <2> HIDE DEF both
  <2> QED
    BY <2>2
<1>4. /\ rest \in Seq(S) /\ Len(rest) = b - a
      /\ \A i \in 1 .. b - a : rest[i] = seq[a + i]
  <2>1. a + 1 \in Int /\ b \in Int /\ \A i \in a + 1 .. b : seq[i] \in S
    BY <1>1
  <2>2. /\ rest \in Seq(S)
        /\ Len(rest) = IF a + 1 <= b THEN b - (a + 1) + 1 ELSE 0
        /\ \A i \in 1 .. b - (a + 1) + 1 : rest[i] = seq[a + 1 + i - 1]
    BY <2>1, SubSeqProperties
  <2> HIDE DEF rest
  <2> QED
    BY <2>2
<1> HIDE DEF first, rest, both
<1>5. /\ first \o rest \in Seq(S)
      /\ Len(first \o rest) = Len(first) + Len(rest)
      /\ \A i \in 1 .. Len(first) + Len(rest) : (first \o rest)[i] =
             IF i <= Len(first) THEN first[i] ELSE rest[i - Len(first)]
    BY <1>2, <1>4, ConcatProperties
<1>6. Len(first \o rest) = b /\ \A i \in 1 .. b : (first \o rest)[i] = both[i]
  <2>1. Len(first \o rest) = b
    BY <1>2, <1>4, <1>5
  <2>2. ASSUME NEW i \in 1 .. b
        PROVE  (first \o rest)[i] = both[i]
    <3>1. (first \o rest)[i] = IF i <= a THEN first[i] ELSE rest[i - a]
      BY <1>2, <1>4, <1>5
    <3>2. CASE i <= a
      BY <1>2, <1>3, <3>1, <3>2
    <3>3. CASE ~(i <= a)
      <4>1. i - a \in 1 .. b - a /\ a + (i - a) = i
        BY <3>3
      <4>2. rest[i - a] = seq[i]
        BY <1>4, <4>1
      <4> QED
        BY <1>3, <3>1, <3>3, <4>2
    <3> QED
      BY <3>2, <3>3
  <2> QED
    BY <2>1, <2>2
<1>7. first \o rest = both
    BY <1>3, <1>5, <1>6, SeqEqual
<1> QED
    BY <1>7 DEF first, rest, both

\* Pages of a size from the first to the k-th, put together, are the first k sizes
\* of the list, or all of it.
LEMMA PagesJoin ==
    ASSUME NEW S, NEW listing \in Seq(S), NEW size \in Nat \ {0}, NEW C \in Nat \ {0},
           Len(listing) <= C,
           NEW pages, Len(pages) = C,
           \A k \in 1 .. C :
               pages[k] = IF (k - 1) * size >= Len(listing) THEN <<>>
                          ELSE SubSeq(listing, (k - 1) * size + 1,
                                      IF k * size <= Len(listing) THEN k * size ELSE Len(listing))
    PROVE  FlattenSeq(pages) = listing
<1> DEFINE N == Len(listing)
           end(k) == IF k * size <= N THEN k * size ELSE N
           g == [k \in 1 .. C |-> SubSeq(listing, 1, end(k))]
<1>1. N \in Nat
    BY LenProperties
<1>2. ASSUME NEW k \in 1 .. C
      PROVE  /\ k * size \in Nat /\ (k - 1) * size \in Nat
             /\ (k - 1) * size + size = k * size
             /\ k * size >= k
    OBVIOUS
<1>3. ASSUME NEW k \in 1 .. C
      PROVE  end(k) \in Nat /\ end(k) <= N
    BY <1>1, <1>2
<1>4. g[1] = pages[1]
  <2>1. (1 - 1) * size = 0 /\ 1 \in 1 .. C
    OBVIOUS
  <2>2. CASE N = 0
    <3>1. pages[1] = <<>>
      BY <2>1, <2>2
    <3>2. end(1) = 0
      BY <1>3, <2>1, <2>2
    <3>3. SubSeq(listing, 1, 0) = <<>>
      BY SubSeqEmpty
    <3> QED
      BY <2>1, <3>1, <3>2, <3>3
  <2>3. CASE N # 0
    <3>1. ~((1 - 1) * size >= N)
      BY <1>1, <2>1, <2>3
    <3>2. pages[1] = SubSeq(listing, (1 - 1) * size + 1, end(1))
      BY <2>1, <3>1
    <3>3. (1 - 1) * size + 1 = 1
      BY <2>1
    <3> HIDE DEF end
    <3> QED
      BY <2>1, <3>2, <3>3
  <2> QED
    BY <2>2, <2>3
<1>5. ASSUME NEW k \in 1 .. C, k # 1
      PROVE  g[k] = g[k - 1] \o pages[k]
  <2>1. k - 1 \in 1 .. C
    BY <1>5
  <2>2. g[k] = SubSeq(listing, 1, end(k)) /\ g[k - 1] = SubSeq(listing, 1, end(k - 1))
    BY <2>1
  <2>3. CASE (k - 1) * size >= N
    <3>1. pages[k] = <<>>
      BY <2>3
    <3>2. end(k) = N /\ end(k - 1) = N
      BY <1>1, <1>2, <2>3
    <3>3. SubSeq(listing, 1, N) = listing /\ listing \o <<>> = listing
      BY SubSeqFull, ConcatEmptySeq
    <3> QED
      BY <2>2, <3>1, <3>2, <3>3
  <2>4. CASE ~((k - 1) * size >= N)
    <3>1. pages[k] = SubSeq(listing, (k - 1) * size + 1, end(k))
      BY <2>4
    <3>2. end(k - 1) = (k - 1) * size
      BY <1>1, <1>2, <2>4
    <3>3. end(k - 1) <= end(k)
      BY <1>1, <1>2, <2>4, <3>2
    <3>4. end(k - 1) \in Nat /\ end(k) \in Nat /\ end(k) <= N
      BY <1>3, <2>1
    <3> HIDE DEF end, g
    <3>5. SubSeq(listing, 1, end(k - 1)) \o SubSeq(listing, end(k - 1) + 1, end(k)) =
              SubSeq(listing, 1, end(k))
      BY <3>3, <3>4, SubSeqsJoin DEF N
    <3> QED
      BY <2>2, <3>1, <3>2, <3>5
  <2> QED
    BY <2>3, <2>4
<1>6. g \in [1 .. C -> {g[k] : k \in 1 .. C}]
    OBVIOUS
<1>7. g[C] = listing
  <2>1. C \in 1 .. C /\ end(C) = N
    BY <1>1, <1>2
  <2> QED
    BY <2>1, SubSeqFull
<1> HIDE DEF g
<1>8. \A k \in 1 .. C : g[k] = IF k = 1 THEN pages[k] ELSE g[k - 1] \o pages[k]
    BY <1>4, <1>5
<1>9. JoinedUpTo(g, pages)
    BY <1>6, <1>8 DEF JoinedUpTo
<1>10. FlattenSeq(pages) = g[C]
    BY <1>9, FlattenSolution
<1> QED
    BY <1>7, <1>10

\* The number of notes on a page, whatever was asked for, is at least one.
PageSize(askedSize) == Min({Max({askedSize, 1}), MaxPageSize})

\* That size is a number from one.
LEMMA PageSizeType ==
    ASSUME NEW askedSize \in Nat
    PROVE  PageSize(askedSize) \in Nat \ {0}
<1>1. Max({askedSize, 1}) \in Nat \ {0} /\ MaxPageSize \in Nat \ {0}
    BY MinMaxOfTwo, QueriesAssumption
<1> DEFINE asked == Max({askedSize, 1})
<1> HIDE DEF asked
<1>2. Min({asked, MaxPageSize}) = IF asked <= MaxPageSize THEN asked ELSE MaxPageSize
    BY <1>1, MinMaxOfTwo DEF asked
<1> QED
    BY <1>1, <1>2 DEF PageSize, asked

\* A page is the part of the list that LIMIT and OFFSET cut out.
LEMMA PageIsSlice ==
    ASSUME NEW notes, NEW query, NEW S, Listing(notes, query) \in Seq(S),
           Len(Listing(notes, query)) <= MaxOffset,
           NEW k \in Nat \ {0}, NEW askedSize \in Nat
    PROVE  LET listing == Listing(notes, query)
               size == PageSize(askedSize)
           IN  NoteListPage(notes, query, k, askedSize).notes =
                   IF (k - 1) * size >= Len(listing) THEN <<>>
                   ELSE SubSeq(listing, (k - 1) * size + 1,
                               IF k * size <= Len(listing) THEN k * size ELSE Len(listing))
<1> DEFINE listing == Listing(notes, query)
           size == PageSize(askedSize)
           N == Len(listing)
           start == (k - 1) * size
           offset == Offset(k, size)
           last == Min({offset + 1 + size - 1, N})
<1>1. size \in Nat \ {0} /\ N \in Nat /\ MaxOffset \in Nat /\ N <= MaxOffset
    BY PageSizeType, LenProperties, QueriesAssumption
<1>2. Max({k, 1}) = k
  <2>1. Max({k, 1}) = IF k <= 1 THEN 1 ELSE k
    BY MinMaxOfTwo
  <2> QED
    BY <2>1
<1>3. NoteListPage(notes, query, k, askedSize).notes = SubSeq(listing, offset + 1, last)
    BY <1>2 DEF NoteListPage, PageSize
<1> HIDE DEF listing, size, N
<1>4. start \in Nat /\ start + size = k * size
    BY <1>1
<1>5. offset = IF start <= MaxOffset THEN start ELSE MaxOffset
    BY <1>1, <1>4, MinMaxOfTwo DEF Offset
<1> HIDE DEF start, offset
<1>6. offset \in Nat /\ offset + 1 + size - 1 \in Nat /\ offset + 1 + size - 1 = offset + size
    BY <1>1, <1>4, <1>5
<1>7. last = IF offset + size <= N THEN offset + size ELSE N
    BY <1>1, <1>6, MinMaxOfTwo
<1> HIDE DEF last
<1>8. CASE start >= N
  <2>1. offset >= N /\ last = N
    BY <1>1, <1>4, <1>5, <1>7, <1>8
  <2>2. offset + 1 \in Int /\ last \in Int /\ last < offset + 1
    BY <1>1, <1>6, <2>1
  <2>3. SubSeq(listing, offset + 1, last) = <<>>
    BY <2>2, SubSeqEmpty
  <2> QED
    BY <1>3, <1>8, <2>3 DEF start, N, listing, size
<1>9. CASE ~(start >= N)
  <2>1. offset = start
    BY <1>1, <1>4, <1>5, <1>9
  <2>2. last = IF k * size <= N THEN k * size ELSE N
    BY <1>4, <1>7, <2>1
  <2> QED
    BY <1>3, <1>9, <2>1, <2>2 DEF start, N, listing, size
<1> QED
    BY <1>8, <1>9

\* The pages of a table put together are the list of the query.
LEMMA PagedIsListing ==
    ASSUME Cardinality(NoteIds) <= MaxOffset,
           NEW notes, IsNotes(notes), NoSharedRevision(notes), NEW query, NEW size \in Nat
    PROVE  Paged(notes, query, size) = Listing(notes, query)
<1> DEFINE found == Found(notes, query)
           listing == Listing(notes, query)
           C == Cardinality(NoteIds)
           pages == [k \in 1 .. C |-> NoteListPage(notes, query, k, size).notes]
<1>1. IsListOf(listing, notes, found)
    BY ListingLists
<1>2. listing \in [1 .. Cardinality(found) -> found] /\ Cardinality(found) \in Nat
    BY <1>1 DEF IsListOf
<1>3. C \in Nat /\ MaxOffset \in Nat /\ Cardinality(found) <= C
  <2>1. found \in SUBSET NoteIds
    BY DEF IsNotes, Found
  <2> QED
    BY <2>1, NoteIdsAssumption, QueriesAssumption, FS_Subset, FS_CardinalityType
<1> HIDE DEF found, C
<1>4. listing \in Seq(found) /\ Len(listing) = Cardinality(found)
    BY <1>2
<1>5. Len(listing) <= C /\ Len(listing) <= MaxOffset
    BY <1>2, <1>3, <1>4 DEF C
<1>6. Len(pages) = C
    BY <1>3
<1>7. CASE C = 0
  <2>1. Len(listing) = 0 /\ listing = <<>>
    BY <1>2, <1>3, <1>4, <1>7
  <2>2. pages = <<>>
    BY <1>7
  <2>3. FlattenSeq(<<>>) = <<>>
    BY EmptySeq DEF FlattenSeq
  <2> QED
    BY <2>1, <2>2, <2>3 DEF Paged, C
<1>8. CASE C # 0
  <2>1. PageSize(size) \in Nat \ {0}
    BY PageSizeType
  <2>2. \A k \in 1 .. C :
            pages[k] = IF (k - 1) * PageSize(size) >= Len(listing) THEN <<>>
                       ELSE SubSeq(listing, (k - 1) * PageSize(size) + 1,
                                   IF k * PageSize(size) <= Len(listing)
                                   THEN k * PageSize(size) ELSE Len(listing))
    BY <1>3, <1>4, <1>5, PageIsSlice
  <2>3. C \in Nat \ {0}
    BY <1>3, <1>8
  <2> HIDE DEF pages, listing
  <2>4. FlattenSeq(pages) = listing
    BY <1>4, <1>5, <1>6, <2>1, <2>2, <2>3, PagesJoin
  <2> QED
    BY <2>4 DEF Paged, pages, listing, C
<1> QED
    BY <1>7, <1>8

\* So they hold what the query finds, once and in order.
LEMMA PagesAre ==
    ASSUME Cardinality(NoteIds) <= MaxOffset, Inv
    PROVE  PagesAreTheList
<1> SUFFICES ASSUME NEW query \in NoteListQuery, NEW size \in 0 .. Cardinality(NoteIds)
             PROVE  LET paged == Paged(db.notes, query, size)
                    IN  /\ Range(paged) = {n \in DOMAIN db.notes : Matches(db.notes[n], query)}
                        /\ \A i, j \in DOMAIN paged :
                               i < j => db.notes[paged[i]].revision > db.notes[paged[j]].revision
                        /\ Len(paged) = NoteListPage(db.notes, query, 1, size).total
    BY DEF PagesAreTheList
<1> DEFINE notes == db.notes
           found == Found(notes, query)
           listing == Listing(notes, query)
<1>1. IsNotes(notes) /\ NoSharedRevision(notes)
    BY DEF Inv, TypeOK, IsDatabase, HistoryConsistent, HistoryOK
<1>2. size \in Nat
    OBVIOUS
<1>3. Paged(notes, query, size) = listing
    BY <1>1, <1>2, PagedIsListing
<1>4. NoteListPage(notes, query, 1, size).total = Cardinality(found)
    BY <1>1, TotalOfList
<1>5. IsListOf(listing, notes, found)
    BY <1>1, ListingLists
<1>6. found = {n \in DOMAIN db.notes : Matches(db.notes[n], query)}
    BY DEF Found
<1> HIDE DEF notes, listing, found
<1>7. /\ listing \in [1 .. Cardinality(found) -> found] /\ Cardinality(found) \in Nat
      /\ \A i, j \in 1 .. Cardinality(found) :
             i < j => notes[listing[i]].revision > notes[listing[j]].revision
      /\ \A n \in found : \E i \in 1 .. Cardinality(found) : listing[i] = n
    BY <1>5 DEF IsListOf
<1>8. Range(listing) = found /\ Len(listing) = Cardinality(found)
    BY <1>7 DEF Range
<1>9. DOMAIN listing = 1 .. Cardinality(found)
    BY <1>7
<1> QED
    BY <1>3, <1>4, <1>6, <1>7, <1>8, <1>9 DEF notes

\* Reading page after page, nothing is listed twice and nothing left out, whatever
\* the query, the size of the pages and the number of notes.
THEOREM SpecPagesAreTheList ==
    ASSUME Cardinality(NoteIds) <= MaxOffset
    PROVE  Spec => []PagesAreTheList
<1>1. Inv => PagesAreTheList
    BY PagesAre
<1> QED
    BY <1>1, SpecInv, PTL

-----------------------------------------------------------------------------
(* Folds, by induction over the places of a sequence *)

\* Induction up to n: a set that holds 0 and the successor of each of its members
\* below n holds all numbers up to n.
LEMMA Upwards ==
    ASSUME NEW n \in Nat, NEW Good, 0 \in Good,
           \A k \in 0 .. n : k \in Good /\ k + 1 <= n => k + 1 \in Good
    PROVE  \A k \in 0 .. n : k \in Good
<1> DEFINE bad == {k \in 0 .. n : k \notin Good}
<1>1. bad \subseteq Nat
    OBVIOUS
<1>2. ASSUME NEW k \in bad PROVE \E j \in bad : j < k
  <2>1. k # 0 /\ k - 1 \in 0 .. n /\ k - 1 < k /\ k - 1 + 1 = k
    BY <1>2
  <2>2. k - 1 \notin Good
    BY <2>1
  <2> QED
    BY <2>1, <2>2
<1> HIDE DEF bad
<1>3. bad = {}
  <2>1. bad # {} => \E i \in bad : \A j \in bad : ~(<<j, i>> \in OpToRel(<, Nat))
    BY <1>1, NatLessThanWellFounded, WFMin
  <2>2. bad # {} => \E i \in bad : \A j \in bad : ~(j < i)
    BY <1>1, <2>1 DEF OpToRel
  <2> QED
    BY <1>2, <2>2
<1> QED
    BY <1>3 DEF bad

\* What FoldLeft computes for each set of places of a sequence.
IsFold(g, F, base, seq, n) ==
    g = [s \in SUBSET (1 .. n) |->
            IF s = {} THEN base ELSE F[g[s \ {Max(s)}], seq[Max(s)]]]

\* Such a function exists, with values in A.
HasFold(A, F, base, seq, n) ==
    \E g \in [SUBSET (1 .. n) -> A] : IsFold(g, F, base, seq, n)

\* FoldLeft's recursion has a solution: from one for the places up to k comes one for
\* the places up to k + 1.  So what a fold CHOOSEs satisfies its equation.
LEMMA FoldExists ==
    ASSUME NEW A, NEW B, NEW F \in [A \X B -> A], NEW base \in A,
           NEW n \in Nat, NEW seq, \A i \in 1 .. n : seq[i] \in B
    PROVE  HasFold(A, F, base, seq, n)
<1> DEFINE Has(k) == \E g \in [SUBSET (1 .. k) -> A] : IsFold(g, F, base, seq, k)
           Good == {k \in 0 .. n : Has(k)}
<1>1. 0 \in Good
  <2> DEFINE g == [s \in SUBSET (1 .. 0) |-> base]
  <2>1. SUBSET (1 .. 0) = {{}}
    OBVIOUS
  <2>2. IsFold(g, F, base, seq, 0)
    BY <2>1 DEF IsFold
  <2>3. g \in [SUBSET (1 .. 0) -> A]
    OBVIOUS
  <2> QED
    BY <2>2, <2>3
<1>2. ASSUME NEW k \in 0 .. n, k \in Good, k + 1 <= n
      PROVE  k + 1 \in Good
  <2>1. PICK g \in [SUBSET (1 .. k) -> A] : IsFold(g, F, base, seq, k)
    BY <1>2
  <2> DEFINE h == [s \in SUBSET (1 .. k + 1) |->
                       IF k + 1 \in s THEN F[g[s \ {k + 1}], seq[k + 1]] ELSE g[s]]
  <2>2. ASSUME NEW s \in SUBSET (1 .. k + 1)
        PROVE  /\ k + 1 \in s => s \ {k + 1} \in SUBSET (1 .. k) /\ Max(s) = k + 1
               /\ k + 1 \notin s => s \in SUBSET (1 .. k)
    <3>1. CASE k + 1 \in s
      <4>1. s \in SUBSET (0 .. k + 1) /\ s # {} /\ k + 1 \in Nat
        BY <3>1
      <4>2. Max(s) \in s /\ \A x \in s : x <= Max(s)
        BY <4>1, MaxOfBounded
      <4>3. Max(s) \in 1 .. k + 1 /\ k + 1 <= Max(s)
        BY <3>1, <4>2
      <4>4. Max(s) = k + 1
        BY <4>3
      <4> QED
        BY <3>1, <4>4
    <3>2. CASE k + 1 \notin s
      BY <3>2
    <3> QED
      BY <3>1, <3>2
  <2>3. h \in [SUBSET (1 .. k + 1) -> A]
    <3>1. seq[k + 1] \in B
      BY <1>2
    <3>2. ASSUME NEW s \in SUBSET (1 .. k + 1)
          PROVE  (IF k + 1 \in s THEN F[g[s \ {k + 1}], seq[k + 1]] ELSE g[s]) \in A
      <4>1. CASE k + 1 \in s
        <5>1. s \ {k + 1} \in SUBSET (1 .. k)
          BY <2>2, <4>1
        <5>2. g[s \ {k + 1}] \in A
          BY <5>1
        <5> QED
          BY <3>1, <4>1, <5>2
      <4>2. CASE k + 1 \notin s
        BY <2>2, <4>2
      <4> QED
        BY <4>1, <4>2
    <3> QED
      BY <3>2
  <2>4. ASSUME NEW s \in SUBSET (1 .. k + 1)
        PROVE  h[s] = IF s = {} THEN base ELSE F[h[s \ {Max(s)}], seq[Max(s)]]
    <3>1. CASE k + 1 \in s
      <4>1. Max(s) = k + 1 /\ s # {} /\ s \ {k + 1} \in SUBSET (1 .. k)
        BY <2>2, <3>1
      <4>2. h[s \ {k + 1}] = g[s \ {k + 1}]
        BY <4>1
      <4> QED
        BY <3>1, <4>1, <4>2
    <3>2. CASE k + 1 \notin s
      <4>1. s \in SUBSET (1 .. k) /\ h[s] = g[s]
        BY <2>2, <3>2
      <4>2. g[s] = IF s = {} THEN base ELSE F[g[s \ {Max(s)}], seq[Max(s)]]
        BY <2>1, <4>1 DEF IsFold
      <4>3. s \ {Max(s)} \in SUBSET (1 .. k) /\ k + 1 \notin s \ {Max(s)}
        BY <3>2, <4>1
      <4>4. h[s \ {Max(s)}] = g[s \ {Max(s)}]
        BY <4>3
      <4> QED
        BY <4>1, <4>2, <4>4
    <3> QED
      BY <3>1, <3>2
  <2>5. IsFold(h, F, base, seq, k + 1)
    <3>1. h = [s \in SUBSET (1 .. k + 1) |-> h[s]]
      OBVIOUS
    <3> HIDE DEF h
    <3> QED
      BY <2>4, <3>1 DEF IsFold
  <2>6. Has(k + 1)
    BY <2>3, <2>5
  <2> HIDE DEF Has
  <2> QED
    BY <1>2, <2>6
<1> HIDE DEF Good
<1>3. n \in Good
  <2>1. \A k \in 0 .. n : k \in Good /\ k + 1 <= n => k + 1 \in Good
    BY <1>2
  <2> QED
    BY <1>1, <2>1, Upwards
<1> QED
    BY <1>3 DEF Good, HasFold

\* The places up to k, without the last of them.
LEMMA LastPlace ==
    ASSUME NEW n \in Nat, NEW s \in SUBSET (1 .. n), s # {}
    PROVE  /\ Max(s) \in s
           /\ \A k \in 1 .. n : s = 1 .. k => Max(s) = k /\ s \ {Max(s)} = 1 .. k - 1
<1>1. s \in SUBSET (0 .. n)
    OBVIOUS
<1>2. Max(s) \in s /\ \A x \in s : x <= Max(s)
    BY <1>1, MaxOfBounded
<1>3. ASSUME NEW k \in 1 .. n, s = 1 .. k
      PROVE  Max(s) = k /\ s \ {Max(s)} = 1 .. k - 1
  <2>1. Max(s) \in 1 .. k /\ k <= Max(s)
    BY <1>2, <1>3
  <2>2. Max(s) = k
    BY <2>1
  <2> QED
    BY <2>2, <1>3
<1> QED
    BY <1>2, <1>3


-----------------------------------------------------------------------------
(* The ids asked for *)

\* The ids kept so far, with one more.
KeepOne(kept, id) == IF id = Blank \/ id \in Range(kept) THEN kept ELSE Append(kept, id)

\* NormalizeArchiveNoteIds takes the ids one by one.
LEMMA NormalizeFold ==
    ASSUME NEW A, NEW n \in Nat, NEW ids \in [1 .. n -> A]
    PROVE  \E p : /\ p[0] = <<>>
                  /\ \A k \in 1 .. n : p[k] = KeepOne(p[k - 1], ids[k])
                  /\ NormalizeArchiveNoteIds(ids) = p[n]
<1> DEFINE S == Seq(A)
           F == [p \in S \X A |-> KeepOne(p[1], p[2])]
           Eq(g) == g = [s \in SUBSET (1 .. n) |->
                            IF s = {} THEN <<>> ELSE KeepOne(g[s \ {Max(s)}], ids[Max(s)])]
           fold == CHOOSE g : Eq(g)
           base == <<>>
<1>1. F \in [S \X A -> S] /\ base \in S
    BY AppendProperties DEF KeepOne
<1>2. PICK g \in [SUBSET (1 .. n) -> S] : IsFold(g, F, base, ids, n)
  <2>1. \A i \in 1 .. n : ids[i] \in A
    OBVIOUS
  <2> HIDE DEF F, base, S, Eq, fold
  <2>2. HasFold(S, F, base, ids, n)
    BY <1>1, <2>1, FoldExists
  <2> QED
    BY <2>2 DEF HasFold
<1>3. Eq(g)
  <2>1. ASSUME NEW s \in SUBSET (1 .. n), s # {}
        PROVE  F[g[s \ {Max(s)}], ids[Max(s)]] = KeepOne(g[s \ {Max(s)}], ids[Max(s)])
    <3>1. Max(s) \in s
      BY LastPlace, <2>1
    <3>2. g[s \ {Max(s)}] \in Seq(A) /\ ids[Max(s)] \in A
      BY <2>1, <3>1
    <3> QED
      BY <3>2
  <2> HIDE DEF F
  <2> QED
    BY <1>2, <2>1 DEF IsFold
<1>4. NormalizeArchiveNoteIds(ids) = fold[1 .. n]
  <2>1. DOMAIN ids = 1 .. n
    OBVIOUS
  <2> QED
    BY <2>1, Zenon DEF NormalizeArchiveNoteIds, FoldLeft, MapThenFoldSet, KeepOne
<1> HIDE DEF Eq
<1>5. Eq(fold)
    BY <1>3
<1> HIDE DEF fold
<1> DEFINE p == [k \in 0 .. n |-> fold[1 .. k]]
<1>6. p[0] = <<>>
    BY <1>5 DEF Eq
<1>7. ASSUME NEW k \in 1 .. n
      PROVE  p[k] = KeepOne(p[k - 1], ids[k])
  <2>1. 1 .. k \in SUBSET (1 .. n) /\ 1 .. k # {} /\ k - 1 \in 0 .. n
    <3>1. n \in Nat
      OBVIOUS
    <3> QED
      BY <3>1, SMTT(20)
  <2>2. Max(1 .. k) = k /\ (1 .. k) \ {k} = 1 .. k - 1
    BY <2>1, LastPlace
  <2>3. fold[1 .. k] = KeepOne(fold[1 .. k - 1], ids[k])
    BY <1>5, <2>1, <2>2 DEF Eq
  <2> QED
    BY <2>1, <2>3
<1>8. p[n] = fold[1 .. n]
    OBVIOUS
<1> HIDE DEF p
<1> QED
    BY <1>4, <1>6, <1>7, <1>8

\* A sequence without repetitions has as many elements as it is long, and keeps none
\* when a new element is appended.
LEMMA AppendNew ==
    ASSUME NEW S, NEW seq \in Seq(S), IsInjective(seq), NEW e \in S, e \notin Range(seq)
    PROVE  /\ Append(seq, e) \in Seq(S) /\ Len(Append(seq, e)) = Len(seq) + 1
           /\ IsInjective(Append(seq, e))
           /\ Range(Append(seq, e)) = Range(seq) \cup {e}
<1> DEFINE new == Append(seq, e)
<1>1. /\ Len(seq) \in Nat /\ DOMAIN seq = 1 .. Len(seq)
      /\ new \in Seq(S) /\ Len(new) = Len(seq) + 1
      /\ \A i \in 1 .. Len(seq) : new[i] = seq[i]
      /\ new[Len(seq) + 1] = e
    BY AppendProperties, LenProperties
<1>2. DOMAIN new = 1 .. Len(seq) + 1
    BY <1>1, LenProperties
<1> HIDE DEF new
<1>3. \A i \in 1 .. Len(seq) : seq[i] # e
    BY <1>1 DEF Range
<1>4. \A i \in 1 .. Len(seq) + 1 : i \in 1 .. Len(seq) \/ i = Len(seq) + 1
    BY <1>1
<1>5. IsInjective(new)
    BY <1>1, <1>2, <1>3, <1>4 DEF IsInjective
<1>6. Range(new) = Range(seq) \cup {e}
  <2>1. Len(seq) + 1 \in 1 .. Len(seq) + 1 /\ 1 .. Len(seq) \subseteq 1 .. Len(seq) + 1
    BY <1>1
  <2> QED
    BY <1>1, <1>2, <1>4, <2>1 DEF Range
<1> QED
    BY <1>1, <1>5, <1>6 DEF new

\* Without repetitions there are as many elements as places.
LEMMA InjectiveLength ==
    ASSUME NEW S, NEW seq \in Seq(S), IsInjective(seq)
    PROVE  IsFiniteSet(Range(seq)) /\ Cardinality(Range(seq)) = Len(seq)
<1>1. Len(seq) \in Nat /\ DOMAIN seq = 1 .. Len(seq) /\ seq \in [1 .. Len(seq) -> S]
    BY LenProperties
<1>2. seq \in Bijection(1 .. Len(seq), Range(seq))
    BY <1>1 DEF Bijection, Injection, Surjection, Range, IsInjective
<1>3. ExistsBijection(1 .. Len(seq), Range(seq))
    BY <1>2 DEF ExistsBijection
<1>4. IsFiniteSet(1 .. Len(seq))
    BY <1>1, FS_Interval
<1> QED
    BY <1>1, <1>3, <1>4, FS_CountingElements, FS_Bijection

\* Each id asked for is kept once.
LEMMA KeptOnce ==
    ASSUME NEW N, Blank \notin N, NEW ids \in Seq(N)
    PROVE  /\ NormalizeArchiveNoteIds(ids) \in Seq(N)
           /\ IsInjective(NormalizeArchiveNoteIds(ids))
           /\ Range(NormalizeArchiveNoteIds(ids)) = Range(ids)
<1> DEFINE n == Len(ids)
<1>1. n \in Nat /\ ids \in [1 .. n -> N] /\ DOMAIN ids = 1 .. n
    BY LenProperties
<1> HIDE DEF n
<1>2. PICK p : /\ p[0] = <<>>
               /\ \A k \in 1 .. n : p[k] = KeepOne(p[k - 1], ids[k])
               /\ NormalizeArchiveNoteIds(ids) = p[n]
    BY <1>1, NormalizeFold
<1> DEFINE Kept(k) == /\ p[k] \in Seq(N) /\ IsInjective(p[k])
                      /\ Range(p[k]) = {ids[i] : i \in 1 .. k}
           Good == {k \in 0 .. n : Kept(k)}
<1>3. Kept(0)
  <2>1. <<>> \in Seq(N) /\ DOMAIN <<>> = {} /\ 1 .. 0 = {}
    OBVIOUS
  <2> QED
    BY <1>2, <2>1 DEF IsInjective, Range
<1>4. ASSUME NEW k \in 0 .. n, Kept(k), k + 1 <= n
      PROVE  Kept(k + 1)
  <2>1. k + 1 \in 1 .. n /\ k + 1 - 1 = k /\ ids[k + 1] \in N
    BY <1>1, <1>4
  <2>2. p[k + 1] = KeepOne(p[k], ids[k + 1])
    BY <1>2, <2>1
  <2>3. {ids[i] : i \in 1 .. k + 1} = {ids[i] : i \in 1 .. k} \cup {ids[k + 1]}
    <3>1. 1 .. k + 1 = (1 .. k) \cup {k + 1}
      OBVIOUS
    <3> QED
      BY <3>1
  <2>4. CASE ids[k + 1] \in Range(p[k])
    <3>1. p[k + 1] = p[k]
      BY <2>2, <2>4 DEF KeepOne
    <3> QED
      BY <1>4, <2>3, <2>4, <3>1
  <2>5. CASE ids[k + 1] \notin Range(p[k])
    <3>1. p[k + 1] = Append(p[k], ids[k + 1])
      BY <2>1, <2>2, <2>5 DEF KeepOne
    <3>2. /\ Append(p[k], ids[k + 1]) \in Seq(N) /\ IsInjective(Append(p[k], ids[k + 1]))
          /\ Range(Append(p[k], ids[k + 1])) = Range(p[k]) \cup {ids[k + 1]}
      BY <1>4, <2>1, <2>5, AppendNew
    <3> QED
      BY <1>4, <2>3, <3>1, <3>2
  <2> QED
    BY <2>4, <2>5
<1>5. n \in Good
  <2>1. 0 \in Good
    BY <1>1, <1>3
  <2>2. \A k \in 0 .. n : k \in Good /\ k + 1 <= n => k + 1 \in Good
    <3> SUFFICES ASSUME NEW k \in 0 .. n, Kept(k), k + 1 <= n PROVE k + 1 \in 0 .. n /\ Kept(k + 1)
      OBVIOUS
    <3> HIDE DEF Kept
    <3> QED
      BY <1>1, <1>4
  <2> HIDE DEF Good
  <2> QED
    BY <1>1, <2>1, <2>2, Upwards
<1>6. Kept(n)
    BY <1>5
<1> QED
    BY <1>1, <1>2, <1>6 DEF Range

-----------------------------------------------------------------------------
(* The names of an archive *)

\* A nonempty set of numbers has a least one, and Min picks it.
LEMMA MinOfNumbers ==
    ASSUME NEW S \in SUBSET Nat, S # {}
    PROVE  Min(S) \in S /\ \A x \in S : Min(S) <= x
<1>1. \E i \in S : \A j \in S : ~(<<j, i>> \in OpToRel(<, Nat))
    BY NatLessThanWellFounded, WFMin
<1>2. \E i \in S : \A j \in S : ~(j < i)
    BY <1>1 DEF OpToRel
<1>3. \E i \in S : \A j \in S : i <= j
    BY <1>2
<1> QED
    BY <1>3 DEF Min

\* A name that collides gets a number that no entry has: there are more numbers than
\* entries.
LEMMA UniqueIsNew ==
    ASSUME NEW wanted \in Seq(Characters), NEW used, IsFiniteSet(used),
           Cardinality(used) < Cardinality(DOMAIN Digits)
    PROVE  UniqueArchiveFileName(wanted, used) \notin used
<1> DEFINE free == {k \in DOMAIN Digits : Suffixed(wanted, k) \notin used}
           f == [k \in DOMAIN Digits |-> Suffixed(wanted, k)]
<1>1. ASSUME NEW j \in DOMAIN Digits, NEW k \in DOMAIN Digits, Suffixed(wanted, j) = Suffixed(wanted, k)
      PROVE  j = k
  <2>1. /\ Digits[j] \in Seq(Characters) /\ Digits[k] \in Seq(Characters)
        /\ wanted \o <<"-">> \in Seq(Characters)
    <3>1. "-" \in Characters
      BY DEF Characters
    <3>2. <<"-">> \in Seq(Characters)
      BY <3>1
    <3> QED
      BY <3>1, <3>2, TextsAssumption, ConcatProperties
  <2>2. (wanted \o <<"-">>) \o Digits[j] = (wanted \o <<"-">>) \o Digits[k]
    BY <1>1 DEF Suffixed
  <2>3. Digits[j] = Digits[k]
    BY <2>1, <2>2, ConcatSimplifications
  <2> QED
    BY <2>3, TextsAssumption DEF IsInjective
<1>2. free # {}
  <2> SUFFICES ASSUME free = {} PROVE FALSE
    OBVIOUS
  <2>1. f \in [DOMAIN Digits -> used]
    OBVIOUS
  <2>2. IsFiniteSet(DOMAIN Digits)
    BY TextsAssumption
  <2>3. \E j, k \in DOMAIN Digits : j # k /\ f[j] = f[k]
    <3> HIDE DEF f
    <3> QED
      BY <2>1, <2>2, FS_PigeonHole
  <2> QED
    BY <1>1, <2>3
<1>3. free \in SUBSET Nat
    BY TextsAssumption
<1>4. Min(free) \in free
    BY <1>2, <1>3, MinOfNumbers
<1>5. UniqueArchiveFileName(wanted, used) =
          IF wanted \notin used THEN wanted ELSE Suffixed(wanted, Min(free))
    BY DEF UniqueArchiveFileName
<1> QED
    BY <1>4, <1>5

\* What markdown_download returns.
Download == [file: Seq(Characters), row: Row]

\* The names so far, and that of one entry more.
WithName(names, d) == Append(names, UniqueArchiveFileName(d.file, Range(names)))

\* What UniqueArchiveFileName returns, also if no number were left.
EntryName ==
    Seq(Characters) \cup
        {Suffixed(wanted, k) : wanted \in Seq(Characters), k \in DOMAIN Digits \cup {Min({})}}

\* An entry's name is one of those.
LEMMA EntryNameType ==
    ASSUME NEW names \in Seq(EntryName), NEW d \in Download
    PROVE  /\ UniqueArchiveFileName(d.file, Range(names)) \in EntryName
           /\ WithName(names, d) \in Seq(EntryName)
<1> DEFINE free == {k \in DOMAIN Digits : Suffixed(d.file, k) \notin Range(names)}
<1>1. UniqueArchiveFileName(d.file, Range(names)) =
          IF d.file \notin Range(names) THEN d.file ELSE Suffixed(d.file, Min(free))
    BY DEF UniqueArchiveFileName
<1>2. free \in SUBSET Nat /\ free \subseteq DOMAIN Digits /\ d.file \in Seq(Characters)
    BY TextsAssumption DEF Download
<1> HIDE DEF free
<1>3. Min(free) \in DOMAIN Digits \cup {Min({})}
  <2>1. CASE free = {}
    BY <2>1
  <2>2. CASE free # {}
    BY <2>2, <1>2, MinOfNumbers
  <2> QED
    BY <2>1, <2>2
<1>4. UniqueArchiveFileName(d.file, Range(names)) \in EntryName
    BY <1>1, <1>2, <1>3 DEF EntryName
<1> QED
    BY <1>4, AppendProperties DEF WithName

\* BuildNotesArchive takes the downloads one by one.
LEMMA ArchiveFold ==
    ASSUME NEW n \in Nat, NEW files \in [1 .. n -> Download]
    PROVE  \E p : /\ p[0] = <<>>
                  /\ \A k \in 1 .. n : p[k] = WithName(p[k - 1], files[k])
                  /\ BuildNotesArchive(files) = p[n]
<1> DEFINE S == Seq(EntryName)
           F == [p \in S \X Download |-> WithName(p[1], p[2])]
           Eq(g) == g = [s \in SUBSET (1 .. n) |->
                            IF s = {} THEN <<>> ELSE WithName(g[s \ {Max(s)}], files[Max(s)])]
           fold == CHOOSE g : Eq(g)
           base == <<>>
<1>1. F \in [S \X Download -> S] /\ base \in S
    BY EntryNameType
<1>2. PICK g \in [SUBSET (1 .. n) -> S] : IsFold(g, F, base, files, n)
  <2>1. \A i \in 1 .. n : files[i] \in Download
    OBVIOUS
  <2> HIDE DEF S, F, base, Eq, fold
  <2>2. HasFold(S, F, base, files, n)
    BY <1>1, <2>1, FoldExists
  <2> QED
    BY <2>2 DEF HasFold
<1>3. Eq(g)
  <2>1. ASSUME NEW s \in SUBSET (1 .. n), s # {}
        PROVE  F[g[s \ {Max(s)}], files[Max(s)]] = WithName(g[s \ {Max(s)}], files[Max(s)])
    <3>1. Max(s) \in s
      BY LastPlace, <2>1
    <3>2. g[s \ {Max(s)}] \in S /\ files[Max(s)] \in Download
      BY <2>1, <3>1
    <3> HIDE DEF S
    <3> QED
      BY <3>2
  <2> HIDE DEF F
  <2> QED
    BY <1>2, <2>1 DEF IsFold
<1>4. BuildNotesArchive(files) = fold[1 .. n]
  <2>1. DOMAIN files = 1 .. n
    OBVIOUS
  <2> QED
    BY <2>1, Zenon DEF BuildNotesArchive, FoldLeft, MapThenFoldSet, WithName
<1> HIDE DEF Eq
<1>5. Eq(fold)
    BY <1>3
<1> HIDE DEF fold
<1> DEFINE p == [k \in 0 .. n |-> fold[1 .. k]]
<1>6. p[0] = <<>>
    BY <1>5 DEF Eq
<1>7. ASSUME NEW k \in 1 .. n
      PROVE  p[k] = WithName(p[k - 1], files[k])
  <2>1. 1 .. k \in SUBSET (1 .. n) /\ 1 .. k # {} /\ k - 1 \in 0 .. n
    <3> HIDE DEF S, p
    <3> QED
      OBVIOUS
  <2>2. Max(1 .. k) = k /\ (1 .. k) \ {k} = 1 .. k - 1
    BY <2>1, LastPlace
  <2>3. fold[1 .. k] = WithName(fold[1 .. k - 1], files[k])
    BY <1>5, <2>1, <2>2 DEF Eq
  <2> QED
    BY <2>1, <2>3
<1>8. p[n] = fold[1 .. n]
    OBVIOUS
<1> HIDE DEF p
<1> QED
    BY <1>4, <1>6, <1>7, <1>8

\* As long as there are numbers enough, every entry has a name of its own.
LEMMA NamesDistinct ==
    ASSUME NEW n \in Nat, n <= Cardinality(DOMAIN Digits), NEW files \in [1 .. n -> Download]
    PROVE  Len(BuildNotesArchive(files)) = n /\ IsInjective(BuildNotesArchive(files))
<1>1. PICK p : /\ p[0] = <<>>
               /\ \A k \in 1 .. n : p[k] = WithName(p[k - 1], files[k])
               /\ BuildNotesArchive(files) = p[n]
    BY ArchiveFold
<1> DEFINE Named(k) == p[k] \in Seq(EntryName) /\ Len(p[k]) = k /\ IsInjective(p[k])
           Good == {k \in 0 .. n : Named(k)}
<1>2. Named(0)
  <2>1. <<>> \in Seq(EntryName) /\ Len(<<>>) = 0 /\ DOMAIN <<>> = {}
    OBVIOUS
  <2> QED
    BY <1>1, <2>1 DEF IsInjective
<1>3. ASSUME NEW k \in 0 .. n, Named(k), k + 1 <= n
      PROVE  Named(k + 1)
  <2>1. k + 1 \in 1 .. n /\ k + 1 - 1 = k /\ files[k + 1] \in Download /\ files[k + 1].file \in Seq(Characters)
    BY <1>3 DEF Download
  <2>2. p[k + 1] = WithName(p[k], files[k + 1])
    BY <1>1, <2>1
  <2> DEFINE name == UniqueArchiveFileName(files[k + 1].file, Range(p[k]))
  <2>3. IsFiniteSet(Range(p[k])) /\ Cardinality(Range(p[k])) = k
    BY <1>3, InjectiveLength
  <2>4. Cardinality(Range(p[k])) < Cardinality(DOMAIN Digits)
    <3>1. Cardinality(DOMAIN Digits) \in Nat
      BY FS_CardinalityType, TextsAssumption
    <3> QED
      BY <1>3, <2>3, <3>1
  <2>5. name \notin Range(p[k]) /\ name \in EntryName
    BY <1>3, <2>1, <2>3, <2>4, UniqueIsNew, EntryNameType
  <2>6. p[k + 1] = Append(p[k], name)
    BY <2>2 DEF WithName
  <2> HIDE DEF name
  <2> QED
    BY <1>3, <2>5, <2>6, AppendNew
<1>4. n \in Good
  <2>1. 0 \in Good
    BY <1>2
  <2>2. \A k \in 0 .. n : k \in Good /\ k + 1 <= n => k + 1 \in Good
    <3> SUFFICES ASSUME NEW k \in 0 .. n, Named(k), k + 1 <= n PROVE k + 1 \in 0 .. n /\ Named(k + 1)
      OBVIOUS
    <3> HIDE DEF Named
    <3> QED
      BY <1>3
  <2> HIDE DEF Good
  <2>3. \A k \in 0 .. n : k \in Good
    BY <2>1, <2>2, Upwards, Zenon
  <2>4. n \in 0 .. n
    OBVIOUS
  <2> QED
    BY <2>3, <2>4, Zenon
<1> QED
    BY <1>1, <1>4

\* A character more makes a text of a text.
LEMMA StemWithType ==
    ASSUME NEW stem \in Seq(Characters), NEW ch
    PROVE  StemWith(stem, ch) \in Seq(Characters)
<1>1. "-" \in Characters /\ (ch \in DOMAIN LowerCase => LowerCase[ch] \in Characters)
    BY DEF Characters, Range
<1> QED
    BY <1>1, AppendProperties DEF StemWith

\* The stem of a title takes its characters one by one.
LEMMA StemFold ==
    ASSUME NEW n \in Nat, NEW title \in [1 .. n -> Characters]
    PROVE  \E p : /\ p[0] = <<>>
                  /\ \A k \in 1 .. n : p[k] = StemWith(p[k - 1], title[k])
                  /\ FoldLeft(StemWith, <<>>, title) = p[n]
<1> DEFINE S == Seq(Characters)
           F == [p \in S \X Characters |-> StemWith(p[1], p[2])]
           Eq(g) == g = [s \in SUBSET (1 .. n) |->
                            IF s = {} THEN <<>> ELSE StemWith(g[s \ {Max(s)}], title[Max(s)])]
           fold == CHOOSE g : Eq(g)
           base == <<>>
<1>1. F \in [S \X Characters -> S] /\ base \in S
    BY StemWithType
<1>2. PICK g \in [SUBSET (1 .. n) -> S] : IsFold(g, F, base, title, n)
  <2>1. \A i \in 1 .. n : title[i] \in Characters
    OBVIOUS
  <2> HIDE DEF S, F, base, Eq, fold
  <2>2. HasFold(S, F, base, title, n)
    BY <1>1, <2>1, FoldExists
  <2> QED
    BY <2>2 DEF HasFold
<1>3. Eq(g)
  <2>1. ASSUME NEW s \in SUBSET (1 .. n), s # {}
        PROVE  F[g[s \ {Max(s)}], title[Max(s)]] = StemWith(g[s \ {Max(s)}], title[Max(s)])
    <3>1. Max(s) \in s
      BY LastPlace, <2>1
    <3>2. g[s \ {Max(s)}] \in S /\ title[Max(s)] \in Characters
      BY <2>1, <3>1
    <3> HIDE DEF S
    <3> QED
      BY <3>2
  <2> HIDE DEF F
  <2> QED
    BY <1>2, <2>1 DEF IsFold
<1>4. FoldLeft(StemWith, <<>>, title) = fold[1 .. n]
  <2>1. DOMAIN title = 1 .. n
    OBVIOUS
  <2> QED
    BY <2>1, Zenon DEF FoldLeft, MapThenFoldSet
<1> HIDE DEF Eq
<1>5. Eq(fold)
    BY <1>3
<1> HIDE DEF fold
<1> DEFINE p == [k \in 0 .. n |-> fold[1 .. k]]
<1>6. p[0] = <<>>
    BY <1>5 DEF Eq
<1>7. ASSUME NEW k \in 1 .. n
      PROVE  p[k] = StemWith(p[k - 1], title[k])
  <2>1. 1 .. k \in SUBSET (1 .. n) /\ 1 .. k # {} /\ k - 1 \in 0 .. n
    <3> HIDE DEF S, p
    <3> QED
      OBVIOUS
  <2>2. Max(1 .. k) = k /\ (1 .. k) \ {k} = 1 .. k - 1
    BY <2>1, LastPlace
  <2>3. fold[1 .. k] = StemWith(fold[1 .. k - 1], title[k])
    BY <1>5, <2>1, <2>2 DEF Eq
  <2> QED
    BY <2>1, <2>3
<1>8. p[n] = fold[1 .. n]
    OBVIOUS
<1> HIDE DEF p
<1> QED
    BY <1>4, <1>6, <1>7, <1>8

\* The stem of a title is a text.
LEMMA StemType ==
    ASSUME NEW title \in Seq(Characters)
    PROVE  FoldLeft(StemWith, <<>>, title) \in Seq(Characters)
<1> DEFINE n == Len(title)
<1>1. n \in Nat /\ title \in [1 .. n -> Characters]
    BY LenProperties
<1> HIDE DEF n
<1>2. PICK p : /\ p[0] = <<>>
               /\ \A k \in 1 .. n : p[k] = StemWith(p[k - 1], title[k])
               /\ FoldLeft(StemWith, <<>>, title) = p[n]
    BY <1>1, StemFold
<1> DEFINE Good == {k \in 0 .. n : p[k] \in Seq(Characters)}
<1>3. 0 \in Good
  <2>1. p[0] \in Seq(Characters)
    BY <1>2, EmptySeq
  <2> QED
    BY <1>1, <2>1
<1>4. ASSUME NEW k \in 0 .. n, k \in Good, k + 1 <= n
      PROVE  k + 1 \in Good
  <2>1. k + 1 \in 1 .. n /\ k + 1 - 1 = k /\ p[k] \in Seq(Characters)
    BY <1>1, <1>4
  <2>2. p[k + 1] = StemWith(p[k], title[k + 1]) /\ title[k + 1] \in Characters
    BY <1>1, <1>2, <2>1
  <2> QED
    BY <1>1, <2>1, <2>2, StemWithType
<1> HIDE DEF Good
<1>5. n \in Good
    BY <1>1, <1>3, <1>4, Upwards
<1> QED
    BY <1>2, <1>5 DEF Good

\* A note's file has a text for its name, whatever is left of its title.
LEMMA MarkdownFileType ==
    ASSUME NEW notes, IsNotes(notes), NEW n \in DOMAIN notes
    PROVE  MarkdownFile(notes, n) \in Seq(Characters)
<1> DEFINE title == TitleOf[notes[n].change.body]
           asked == IF \A i \in DOMAIN title : title[i] = " " THEN IdOf[n] ELSE title
           stem == FoldLeft(StemWith, <<>>, asked)
           kept == {i \in DOMAIN stem : stem[i] # "-"}
<1>1. IdOf[n] \in Seq(Characters) /\ title \in Seq(Characters)
    BY TextsAssumption DEF IsNotes, Row, Change
<1>2. asked \in Seq(Characters)
    BY <1>1
<1> HIDE DEF asked
<1>3. stem \in Seq(Characters)
    BY <1>2, StemType
<1> HIDE DEF stem
<1>4. /\ Len(stem) \in Nat /\ DOMAIN stem = 1 .. Len(stem)
      /\ \A i \in 1 .. Len(stem) : stem[i] \in Characters
    BY <1>3, LenProperties, ElementOfSeq
<1>5. TrimDashes(stem) \in Seq(Characters)
  <2>1. TrimDashes(stem) = IF kept = {} THEN <<>> ELSE SubSeq(stem, Min(kept), Max(kept))
    BY DEF TrimDashes
  <2>2. kept \in SUBSET (0 .. Len(stem)) /\ kept \in SUBSET Nat /\ kept \subseteq 1 .. Len(stem)
    BY <1>4
  <2> HIDE DEF kept
  <2>3. CASE kept # {}
    <3>1. Min(kept) \in 1 .. Len(stem) /\ Max(kept) \in 1 .. Len(stem)
      BY <1>4, <2>2, <2>3, MinOfNumbers, MaxOfBounded
    <3>2. \A i \in Min(kept) .. Max(kept) : stem[i] \in Characters
      BY <1>4, <3>1
    <3>3. SubSeq(stem, Min(kept), Max(kept)) \in Seq(Characters)
      BY <3>1, <3>2, SubSeqProperties
    <3> QED
      BY <2>1, <2>3, <3>3
  <2>4. CASE kept = {}
    BY <2>1, <2>4
  <2> QED
    BY <2>3, <2>4
<1>6. SanitizeFileStem(asked, IdOf[n]) =
          IF TrimDashes(stem) = <<>> THEN IdOf[n] ELSE TrimDashes(stem)
    BY DEF SanitizeFileStem, stem
<1>7. MarkdownFile(notes, n) = SanitizeFileStem(asked, IdOf[n])
    BY DEF MarkdownFile, asked
<1> QED
    BY <1>1, <1>5, <1>6, <1>7

\* Whatever ids are asked for, if they are all notes the archive has each note once.
LEMMA ArchiveNames ==
    ASSUME NEW notes, IsNotes(notes), DOMAIN notes # {},
           NEW ids \in Seq(DOMAIN notes), Range(ids) = DOMAIN notes,
           Cardinality(NoteIds) <= Cardinality(DOMAIN Digits)
    PROVE  /\ Len(NotesArchive(notes, ids)) = Cardinality(DOMAIN notes)
           /\ IsInjective(NotesArchive(notes, ids))
<1> DEFINE kept == NormalizeArchiveNoteIds(ids)
           n == Cardinality(DOMAIN notes)
           downloads == [i \in DOMAIN kept |-> MarkdownDownload(notes, kept[i])]
<1>1. DOMAIN notes \subseteq NoteIds /\ Blank \notin DOMAIN notes
    BY TextsAssumption DEF IsNotes
<1>2. kept \in Seq(DOMAIN notes) /\ IsInjective(kept) /\ Range(kept) = DOMAIN notes
    BY <1>1, KeptOnce
<1> HIDE DEF kept
<1>3. Len(kept) = n /\ n \in Nat /\ DOMAIN kept = 1 .. n /\ \A i \in 1 .. n : kept[i] \in DOMAIN notes
    BY <1>2, InjectiveLength, LenProperties, ElementOfSeq
<1>4. n <= Cardinality(NoteIds) /\ Cardinality(NoteIds) \in Nat
    BY <1>1, NoteIdsAssumption, FS_Subset, FS_CardinalityType
<1>5. n <= Cardinality(DOMAIN Digits)
  <2>1. Cardinality(DOMAIN Digits) \in Nat
    BY FS_CardinalityType, TextsAssumption
  <2> QED
    BY <1>3, <1>4, <2>1
<1>6. downloads \in [1 .. n -> Download]
  <2>1. ASSUME NEW i \in 1 .. n
        PROVE  MarkdownDownload(notes, kept[i]) \in Download
    <3>1. MarkdownDownload(notes, kept[i]) =
              [file |-> MarkdownFile(notes, kept[i]), row |-> notes[kept[i]]]
      BY <1>3 DEF MarkdownDownload
    <3>2. MarkdownFile(notes, kept[i]) \in Seq(Characters)
      BY <1>3, MarkdownFileType
    <3>3. notes[kept[i]] \in Row
      BY <1>3 DEF IsNotes
    <3> QED
      BY <3>1, <3>2, <3>3 DEF Download
  <2> QED
    BY <1>3, <2>1
<1>7. kept # <<>>
    BY <1>2 DEF Range
<1>8. Refused \notin Range(downloads)
  <2>1. Refused \notin Download
    BY TextsAssumption DEF Download
  <2> HIDE DEF downloads
  <2> QED
    BY <1>6, <2>1 DEF Range
<1>9. NotesArchive(notes, ids) = BuildNotesArchive(downloads)
    BY <1>7, <1>8 DEF NotesArchive, kept
<1> HIDE DEF downloads, n
<1> QED
    BY <1>3, <1>5, <1>6, <1>9, NamesDistinct DEF n

\* The archive of every note, asked for in any order and twice: each is in it, under
\* a name of its own.
LEMMA ArchiveIsComplete ==
    ASSUME Cardinality(NoteIds) <= Cardinality(DOMAIN Digits), Inv
    PROVE  ArchiveNamesDistinct
<1> SUFFICES ASSUME DOMAIN db.notes # {},
                    NEW ids \in {Listing(db.notes, AllNotes), Reverse(Listing(db.notes, AllNotes))}
             PROVE  /\ Len(NotesArchive(db.notes, ids \o ids)) = Cardinality(DOMAIN db.notes)
                    /\ IsInjective(NotesArchive(db.notes, ids \o ids))
    BY DEF ArchiveNamesDistinct
<1> DEFINE notes == db.notes
           listing == Listing(notes, AllNotes)
           N == Cardinality(DOMAIN notes)
<1>1. IsNotes(notes) /\ NoSharedRevision(notes)
    BY DEF Inv, TypeOK, IsDatabase, HistoryConsistent, HistoryOK
<1>2. IsListOf(listing, notes, DOMAIN notes)
    BY <1>1, ListingLists, AllNotesFound
<1>3. ids \in {listing, Reverse(listing)}
    OBVIOUS
<1> HIDE DEF notes, listing
<1>4. /\ listing \in [1 .. N -> DOMAIN notes] /\ N \in Nat
      /\ \A n \in DOMAIN notes : \E i \in 1 .. N : listing[i] = n
    BY <1>2 DEF IsListOf
<1> HIDE DEF N
<1>5. Len(listing) = N
    BY <1>4
<1>6. Reverse(listing) = [i \in 1 .. N |-> listing[N - i + 1]]
    BY <1>5 DEF Reverse
<1>7. /\ ids \in [1 .. N -> DOMAIN notes]
      /\ \A n \in DOMAIN notes : \E i \in 1 .. N : ids[i] = n
  <2>1. CASE ids = listing
    BY <2>1, <1>4
  <2>2. CASE ids = Reverse(listing)
    <3>1. \A i \in 1 .. N : N - i + 1 \in 1 .. N /\ N - (N - i + 1) + 1 = i
      BY <1>4
    <3>2. ids \in [1 .. N -> DOMAIN notes]
      BY <2>2, <3>1, <1>4, <1>6
    <3>3. \A i \in 1 .. N : ids[N - i + 1] = listing[i]
      BY <2>2, <3>1, <1>6
    <3> QED
      BY <3>1, <3>2, <3>3, <1>4
  <2> QED
    BY <2>1, <2>2, <1>3
<1> DEFINE all == DOMAIN notes
<1>8. ids \in Seq(all) /\ Range(ids) = all
  <2>1. ids \in [1 .. N -> all] /\ (\A n \in all : \E i \in 1 .. N : ids[i] = n) /\ N \in Nat
    BY <1>4, <1>7
  <2> HIDE DEF all
  <2>2. ids \in Seq(all)
    BY <2>1
  <2>3. Range(ids) = all
    BY <2>1 DEF Range
  <2> QED
    BY <2>2, <2>3
<1>9. ids \o ids \in Seq(all) /\ Range(ids \o ids) = all
  <2> HIDE DEF all
  <2>1. ids \o ids \in Seq(all)
    BY <1>8, ConcatProperties
  <2>2. Range(ids \o ids) = Range(ids) \cup Range(ids)
    BY <1>8, RangeConcatenation
  <2> QED
    BY <1>8, <2>1, <2>2
<1> HIDE DEF N
<1>10. /\ Len(NotesArchive(notes, ids \o ids)) = Cardinality(DOMAIN notes)
       /\ IsInjective(NotesArchive(notes, ids \o ids))
    BY <1>1, <1>9, ArchiveNames DEF notes
<1> QED
    BY <1>10 DEF notes

\* Unpacking an archive loses no note, whatever titles and ids collide, as long as
\* there are more numbers to tell them apart (admin_api.rs:801-813, an i32) than notes.
THEOREM SpecArchiveNamesDistinct ==
    ASSUME Cardinality(NoteIds) <= Cardinality(DOMAIN Digits)
    PROVE  Spec => []ArchiveNamesDistinct
<1>1. Inv => ArchiveNamesDistinct
    BY ArchiveIsComplete
<1> QED
    BY <1>1, SpecInv, PTL

=============================================================================
