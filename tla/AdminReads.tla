------------------------------ MODULE AdminReads ------------------------------
(***************************************************************************)
(* The console's queries on the note store: AdminStore shares SyncStore's  *)
(* connection and its mutex (main.rs:255-258), so a query sees the states  *)
(* with pc = "free".                                                       *)
(***************************************************************************)
EXTENDS SyncStore, AdminQueries

AllNotes == [search |-> Blank, category |-> Blank, state |-> "all"]

\* The notes of all pages of a size, in the order of the pages.
Paged(notes, query, size) ==
    FlattenSeq([k \in 1 .. Cardinality(NoteIds) |-> NoteListPage(notes, query, k, size).notes])

\* Whatever the query and the page size, the pages put together hold each note the
\* query finds once, newest revision first, and their total says how many there
\* are (admin_store.rs:156-245): no two pages overlap or leave a note out.
PagesAreTheList ==
    pc = "free" =>
        \A query \in NoteListQuery, size \in 0 .. Cardinality(NoteIds) :
            LET paged == Paged(db.notes, query, size)
            IN  /\ Range(paged) = {n \in DOMAIN db.notes : Matches(db.notes[n], query)}
                /\ \A i, j \in DOMAIN paged :
                       i < j => db.notes[paged[i]].revision > db.notes[paged[j]].revision
                /\ Len(paged) = NoteListPage(db.notes, query, 1, size).total

\* The overview counts what the list shows: the two are written as separate queries
\* (admin_store.rs:125-154 and 169-215), and every note is active or deleted.
OverviewAgreesWithList ==
    pc = "free" =>
        LET Total(state) == NoteListPage(db.notes, [AllNotes EXCEPT !.state = state], 1, 1).total
            overview == Overview(db.notes)
        IN  /\ overview.noteCount = Total("active") + Total("deleted")
            /\ overview.deletedCount = Total("deleted")
            /\ Listing(db.notes, AllNotes) # <<>> =>
                   db.notes[Head(Listing(db.notes, AllNotes))].revision = overview.latestRevision

\* The history the console shows beside a note begins with that note as it is,
\* through pushes, restores with their two UPDATEs and tombstones, crashes and
\* operations that fail half way (admin_store.rs:247-326): no entry of an older
\* state of the note comes before it, and none is missing.  Only the revision of
\* that entry may be another's than the note's once a restore has failed.
HistoryStartsAtNote ==
    pc = "free" =>
        \A n \in DOMAIN db.notes :
            LET history == NoteHistory(db.snapshots, n)
                note    == NoteDetail(db.notes, n)
            IN  /\ history # <<>>
                /\ Head(history).change = note.change
                /\ errors = 0 => Head(history).revision = note.revision

\* The entries of an archive have different names, also where titles differ in
\* nothing that a file name keeps, or one is the id of another note, so unpacking
\* the archive loses no note (admin_api.rs:765-814).
ArchiveNamesDistinct ==
    pc = "free" /\ DOMAIN db.notes # {} =>
        \A ids \in {Listing(db.notes, AllNotes), Reverse(Listing(db.notes, AllNotes))} :
            LET names == NotesArchive(db.notes, ids \o ids)
            IN  Len(names) = Cardinality(DOMAIN db.notes) /\ IsInjective(names)

\* Where a note stands in the list of all notes.
Position(notes, n) ==
    LET listing == Listing(notes, AllNotes)
    IN  CHOOSE i \in DOMAIN listing : listing[i] = n

\* Somebody who reads the list of all notes page by page while devices push and
\* operators restore misses no note that stays as it was: it never moves towards the
\* pages already read.
PageReadersMissNothing ==
    [][\A n \in DOMAIN Published :
           n \in DOMAIN Published' /\ Published'[n] = Published[n] =>
               Position(Published', n) >= Position(Published, n)]_Published

=============================================================================
