----------------------------- MODULE NoteChanges -----------------------------
(***************************************************************************)
(* What the store keeps of a note and what the protocol says about it:     *)
(* changes, rows, revisions, and when one table of notes supersedes        *)
(* another (src/protocol.rs, the schema and queries of                     *)
(* src/store/sync_store.rs).  Title, content, category, created_at and     *)
(* content_hash are one value, the change's "body".                        *)
(***************************************************************************)
EXTENDS Naturals, FiniteSets, FiniteSetsExt

CONSTANTS
    NoteIds,      \* note ids, numbers because tombstones are sorted by id
    Bodies,       \* what a change carries besides times and device
    Devices,      \* ids of the devices that push
    MaxTime,      \* bound: times are 1 .. MaxTime
    MaxRevision   \* bound: revisions stay in 1 .. MaxRevision

ASSUME NoteIdsAssumption == NoteIds \subseteq Nat /\ IsFiniteSet(NoteIds)
ASSUME BoundsAssumption == MaxTime \in Nat /\ MaxRevision \in Nat

Times == 1 .. MaxTime

\* deleted_at is None
NotDeleted == 0

Change ==
    [body: Bodies, updated: Times, deleted: Times \cup {NotDeleted}, device: Devices]

Row == [change: Change, revision: 1 .. MaxRevision]

\* The table notes is a function from the ids it holds, its primary key.
IsNotes(notes) ==
    DOMAIN notes \subseteq NoteIds /\ notes \in [DOMAIN notes -> Row]

NoNotes == [n \in {} |-> n]

\* SELECT COALESCE(MAX(revision), 0) FROM notes
CurrentRevision(notes) == Max({notes[n].revision : n \in DOMAIN notes} \cup {0})

\* deleted_at.unwrap_or(updated_at)
ChangeTime(change) ==
    IF change.deleted = NotDeleted THEN change.updated ELSE change.deleted

\* The table notes after an upsert of rows.
Upsert(notes, rows) ==
    [n \in DOMAIN notes \cup DOMAIN rows |-> IF n \in DOMAIN rows THEN rows[n] ELSE notes[n]]

\* The records /v1/changes returns to a client whose cursor is since.
ChangesSince(notes, since) == {n \in DOMAIN notes : notes[n].revision > since}

\* No two notes share a revision, so a cursor never stops between two of them.
NoSharedRevision(notes) ==
    \A m, n \in DOMAIN notes : m # n => notes[m].revision # notes[n].revision

\* What readers saw before, against what they see next: no note disappears, and
\* one that differs is sent to a client that knows of every earlier revision.
Supersedes(next, last) ==
    /\ DOMAIN last \subseteq DOMAIN next
    /\ \A n \in DOMAIN next :
           \/ n \in DOMAIN last /\ next[n] = last[n]
           \/ n \in ChangesSince(next, CurrentRevision(last))

\* Change i has not been lost to an older one: the note has a later change, or
\* one of the same time that came with it.
NotLost(i, change, incoming) ==
    \/ ChangeTime(change) > ChangeTime(i.change)
    \/ /\ ChangeTime(change) = ChangeTime(i.change)
       /\ [note |-> i.note, change |-> change] \in incoming

\* Last write wins: the table next is last with a set of incoming changes, each
\* with its note.  A note holds the latest of its changes and of what it had, and
\* what differs from before is above every earlier revision.
LatestWins(next, last, incoming) ==
    /\ DOMAIN next = DOMAIN last \cup {i.note : i \in incoming}
    /\ \A n \in DOMAIN next :
           \/ n \in DOMAIN last /\ next[n] = last[n]
           \/ /\ [note |-> n, change |-> next[n].change] \in incoming
              /\ n \in ChangesSince(next, CurrentRevision(last))
              /\ n \in DOMAIN last =>
                     ChangeTime(next[n].change) >= ChangeTime(last[n].change)
    /\ \A i \in incoming : NotLost(i, next[i.note].change, incoming)

=============================================================================
