-------------------------- MODULE LatestStateStore --------------------------
(***************************************************************************)
(* What the note store promises to devices and operators, one step for     *)
(* each operation: the specification that SyncStore implements and that    *)
(* SyncSystem puts devices on top of (docs/protocol.md 77-83 and 96-97).   *)
(*                                                                         *)
(* The steps say what a push, a backup and a restore may make of the notes *)
(* readers see, and leave open how: which of several changes of one note   *)
(* in a request got which revision, how revisions are raised by a restore, *)
(* and the time of its tombstones.                                         *)
(***************************************************************************)
EXTENDS NoteChanges

CONSTANT BackupFiles   \* the paths create_backup may write

VARIABLES
    notes,   \* the table notes as readers see it
    saved    \* the backups that are complete, and the notes in each

storeVars == <<notes, saved>>

Init ==
    /\ notes = NoNotes
    /\ saved = [f \in {} |-> NoNotes]

\* A request with a set of changes, of which a note may have several.
Push(incoming) ==
    /\ LatestWins(notes', notes, incoming)
    /\ NoSharedRevision(notes')
    /\ UNCHANGED saved

\* What a push has changed, as a request: any request with that outcome has the
\* same outcome as this one.
Accepted ==
    {[note |-> n, change |-> notes'[n].change] :
        n \in {m \in DOMAIN notes' : m \notin DOMAIN notes \/ notes'[m] # notes[m]}}

\* A backup, new or in the place of an earlier one of the same name.
Backup(f) ==
    /\ saved' = [g \in DOMAIN saved \cup {f} |-> IF g = f THEN notes ELSE saved[g]]
    /\ UNCHANGED notes

\* The change with which a restore deletes a note that the backup does not hold.
IsTombstoneOf(tombstone, change) ==
    /\ tombstone.deleted # NotDeleted
    /\ tombstone.deleted >= ChangeTime(change)
    /\ tombstone = [change EXCEPT !.updated = tombstone.updated, !.deleted = tombstone.deleted]

\* A restore: the backup's changes, tombstones for the notes it does not hold, and
\* every note above every earlier revision.
Restore(f) ==
    /\ f \in DOMAIN saved
    /\ DOMAIN notes' = DOMAIN notes \cup DOMAIN saved[f]
    /\ \A n \in DOMAIN notes' :
           /\ n \in ChangesSince(notes', CurrentRevision(notes))
           /\ IF n \in DOMAIN saved[f]
              THEN notes'[n].change = saved[f][n].change
              ELSE IsTombstoneOf(notes'[n].change, notes[n].change)
    /\ NoSharedRevision(notes')
    /\ UNCHANGED saved

Next ==
    \/ Push(Accepted)
    \/ \E f \in BackupFiles : Backup(f) \/ Restore(f)

Spec == Init /\ [][Next]_storeVars

=============================================================================
