------------------------------ MODULE SyncSystem ------------------------------
(***************************************************************************)
(* Devices that synchronise with the note store, over a network that loses *)
(* answers and delays requests (docs/protocol.md).  The store is the one   *)
(* LatestStateStore promises, which SyncStore implements.  The devices'    *)
(* program is not part of the repository: their steps are what the         *)
(* protocol asks of a client (49-83 and 85-108), and no more.              *)
(*                                                                         *)
(* Assumed of a device: an edit is not older than what it edits.           *)
(***************************************************************************)
EXTENDS LatestStateStore

CONSTANTS
    Edits,        \* the changes devices make
    MaxEdits,     \* bound: edits
    MaxLosses,    \* bound: calls that a device gives up
    MaxRestores   \* bound: restores

ASSUME EditsAssumption == Edits \subseteq Change
ASSUME CountsAssumption == MaxEdits \in Nat /\ MaxLosses \in Nat /\ MaxRestores \in Nat

VARIABLES
    local,     \* the notes on each device, their changes
    cursor,    \* sync_state.json: the revision each device has synchronised to
    dirty,     \* the notes on each device that it has still to push
    call,      \* the request each device has under way, or its answer
    delayed,   \* pushes that were given up, but may still reach the server
    edits, losses, restores   \* what the bounds count

deviceVars == <<local, cursor, dirty, call, delayed, edits, losses, restores>>

vars == <<storeVars, deviceVars>>

Incoming == [note: NoteIds, change: Change]

Idle == [kind |-> "idle"]

\* GET /v1/changes, its answer, POST /v1/push, its answer.
IsCall(c) ==
    \/ c = Idle
    \/ c = [kind |-> "pull"]
    \/ /\ c.kind = "pulled"
       /\ c = [kind |-> "pulled", revision |-> c.revision, changes |-> c.changes]
       /\ c.revision \in 0 .. MaxRevision
       /\ DOMAIN c.changes \subseteq NoteIds /\ c.changes \in [DOMAIN c.changes -> Change]
    \/ c.kind \in {"push", "pushed"} /\ c = [kind |-> c.kind, changes |-> c.changes]
       /\ c.changes \subseteq Incoming

\* Each note of request with its change, as a device's notes.
DirtyChanges(d) == {[note |-> n, change |-> local[d][n]] : n \in dirty[d]}

-----------------------------------------------------------------------------
(* The store's steps, one outcome of those promised at a time, as long as the *)
(* revisions stay below the bound *)

\* Every incoming change that is accepted gets a revision of its own.
PushOf(incoming) ==
    \E accepted \in SUBSET incoming :
        LET NewRow(n) ==
                [change   |-> (CHOOSE i \in accepted : i.note = n).change,
                 revision |-> CurrentRevision(notes)
                              + Cardinality({i \in accepted : i.note <= n})]
        IN  /\ \A i \in accepted : i.note \in DOMAIN notes => notes[i.note].change # i.change
            /\ notes' = Upsert(notes, [n \in {i.note : i \in accepted} |-> NewRow(n)])
            /\ IsNotes(notes')
            /\ Push(incoming)

\* Mutant of RestoreOf: the notes keep the revisions they have in the backup.
RestoreWithoutRebase(f) ==
    /\ f \in DOMAIN saved
    /\ notes' = saved[f]
    /\ UNCHANGED saved

\* The backup's notes first, the tombstones above them.
RestoreOf(f) ==
    /\ f \in DOMAIN saved
    /\ \E now \in Times :
           LET missing == DOMAIN notes \ DOMAIN saved[f]
               RestoredRow(n) ==
                   [change   |-> saved[f][n].change,
                    revision |-> CurrentRevision(notes) + saved[f][n].revision]
               TombstoneRow(n) ==
                   [change   |-> [notes[n].change EXCEPT !.updated = Max({@, now}), !.deleted = now],
                    revision |-> CurrentRevision(notes) + CurrentRevision(saved[f])
                                 + Cardinality({m \in missing : m <= n})]
           IN  notes' = [n \in DOMAIN notes \cup DOMAIN saved[f] |->
                            IF n \in missing THEN TombstoneRow(n) ELSE RestoredRow(n)]
    /\ IsNotes(notes')
    /\ Restore(f)

-----------------------------------------------------------------------------
(* A device: it edits, and synchronises round by round *)

\* A note is written or deleted on the device, not before the version it replaces.
Edit(d) ==
    /\ edits < MaxEdits
    /\ \E n \in NoteIds, change \in Edits :
           /\ change.device = d
           /\ n \in DOMAIN local[d] => /\ ChangeTime(change) >= ChangeTime(local[d][n])
                                       /\ change # local[d][n]
           /\ local' = [local EXCEPT ![d] = [m \in DOMAIN @ \cup {n} |->
                                                IF m = n THEN change ELSE @[m]]]
           /\ dirty' = [dirty EXCEPT ![d] = @ \cup {n}]
    /\ edits' = edits + 1
    /\ UNCHANGED <<storeVars, cursor, call, delayed, losses, restores>>

Pull(d) ==
    /\ call[d] = Idle
    /\ call' = [call EXCEPT ![d] = [kind |-> "pull"]]
    /\ UNCHANGED <<storeVars, local, cursor, dirty, delayed, edits, losses, restores>>

\* Mutant of AnswerPull: the change that follows the cursor is left out.
AnswerPullAfterNext(d) ==
    /\ call[d].kind = "pull"
    /\ call' = [call EXCEPT ![d] =
                   [kind     |-> "pulled",
                    revision |-> CurrentRevision(notes),
                    changes  |-> [n \in ChangesSince(notes, cursor[d] + 1) |-> notes[n].change]]]
    /\ UNCHANGED <<storeVars, local, cursor, dirty, delayed, edits, losses, restores>>

AnswerPull(d) ==
    /\ call[d].kind = "pull"
    /\ call' = [call EXCEPT ![d] =
                   [kind     |-> "pulled",
                    revision |-> CurrentRevision(notes),
                    changes  |-> [n \in ChangesSince(notes, cursor[d]) |-> notes[n].change]]]
    /\ UNCHANGED <<storeVars, local, cursor, dirty, delayed, edits, losses, restores>>

\* The local version of a note that has still to be pushed stays if it is later, or
\* of the same time and the device prefers it.
Kept(d, changes, preferred) ==
    {n \in dirty[d] \cap DOMAIN changes :
        \/ ChangeTime(local[d][n]) > ChangeTime(changes[n])
        \/ ChangeTime(local[d][n]) = ChangeTime(changes[n]) /\ n \in preferred}

\* The remote changes are applied, then what is left to push is pushed.
ApplyPulled(d) ==
    /\ call[d].kind = "pulled"
    /\ \E preferred \in SUBSET NoteIds :
           LET changes == call[d].changes
               taken   == DOMAIN changes \ Kept(d, changes, preferred)
           IN  /\ local' = [local EXCEPT ![d] = [n \in DOMAIN @ \cup taken |->
                                                    IF n \in taken THEN changes[n] ELSE @[n]]]
               /\ dirty' = [dirty EXCEPT ![d] = @ \ taken]
    /\ cursor' = [cursor EXCEPT ![d] = call[d].revision]
    /\ call' = [call EXCEPT ![d] =
                   IF dirty'[d] = {} THEN Idle
                   ELSE [kind |-> "push", changes |-> DirtyChanges(d)']]
    /\ UNCHANGED <<storeVars, delayed, edits, losses, restores>>

AnswerPush(d) ==
    /\ call[d].kind = "push"
    /\ PushOf(call[d].changes)
    /\ call' = [call EXCEPT ![d].kind = "pushed"]
    /\ UNCHANGED <<local, cursor, dirty, delayed, edits, losses, restores>>

\* What has been pushed, and not edited again, need not be pushed any more.  The
\* cursor stays: between it and the answer's revision may be changes of others.
Pushed(d) ==
    /\ call[d].kind = "pushed"
    /\ dirty' = [dirty EXCEPT ![d] =
                    {n \in @ : [note |-> n, change |-> local[d][n]] \notin call[d].changes}]
    /\ call' = [call EXCEPT ![d] = Idle]
    /\ UNCHANGED <<storeVars, local, cursor, delayed, edits, losses, restores>>

\* The device waits no longer: its request, or the answer, is lost or late.
GiveUp(d) ==
    /\ call[d] # Idle
    /\ losses < MaxLosses
    /\ losses' = losses + 1
    /\ call' = [call EXCEPT ![d] = Idle]
    /\ delayed' = IF call[d].kind = "push" THEN delayed \cup {call[d].changes} ELSE delayed
    /\ UNCHANGED <<storeVars, local, cursor, dirty, edits, restores>>

\* A push reaches the server after its device has given it up.
LatePush(request) ==
    /\ PushOf(request)
    /\ delayed' = delayed \ {request}
    /\ UNCHANGED <<local, cursor, dirty, call, edits, losses, restores>>

-----------------------------------------------------------------------------
(* The operator *)

TakeBackup(f) == Backup(f) /\ DOMAIN notes # {} /\ UNCHANGED deviceVars

RestoreBackup(f) ==
    /\ restores < MaxRestores
    /\ RestoreOf(f)
    /\ restores' = restores + 1
    /\ UNCHANGED <<local, cursor, dirty, call, delayed, edits, losses>>

-----------------------------------------------------------------------------

SystemInit ==
    /\ Init
    /\ local = [d \in Devices |-> [n \in {} |-> n]]
    /\ cursor = [d \in Devices |-> 0]
    /\ dirty = [d \in Devices |-> {}]
    /\ call = [d \in Devices |-> Idle]
    /\ delayed = {}
    /\ edits = 0 /\ losses = 0 /\ restores = 0

Exchange(d) == Pull(d) \/ AnswerPull(d) \/ ApplyPulled(d) \/ AnswerPush(d) \/ Pushed(d)

SystemNext ==
    \/ \E d \in Devices : Edit(d) \/ Exchange(d) \/ GiveUp(d)
    \/ \E request \in delayed : LatePush(request)
    \/ \E f \in BackupFiles : TakeBackup(f) \/ RestoreBackup(f)

\* A device goes on with its round, and starts another; the server answers what
\* reaches it.  Nothing says that a push that was given up arrives.
Fairness == \A d \in Devices : WF_vars(Exchange(d))

SystemSpec == SystemInit /\ [][SystemNext]_vars /\ Fairness

-----------------------------------------------------------------------------

\* Every variable has its type; what is to be pushed is on the device.
TypeOK ==
    /\ IsNotes(notes)
    /\ \A f \in DOMAIN saved : IsNotes(saved[f])
    /\ \A d \in Devices :
           /\ DOMAIN local[d] \subseteq NoteIds /\ local[d] \in [DOMAIN local[d] -> Change]
           /\ dirty[d] \subseteq DOMAIN local[d]
           /\ IsCall(call[d])
    /\ cursor \in [Devices -> 0 .. MaxRevision]
    /\ local = [d \in Devices |-> local[d]] /\ dirty = [d \in Devices |-> dirty[d]]
    /\ call = [d \in Devices |-> call[d]]
    /\ delayed \subseteq SUBSET Incoming

\* A note that a device has nothing to push of, and that the next answer will not
\* bring it, is on the device as on the server: through lost answers, repeated and
\* late pushes, edits during an exchange, and restores of older states
\* (docs/protocol.md:80-83), a cursor never hides a difference.
ReplicaExact ==
    \A d \in Devices :
        \A n \in (DOMAIN notes \cup DOMAIN local[d]) \ (dirty[d] \cup ChangesSince(notes, cursor[d])) :
            /\ n \in DOMAIN notes /\ n \in DOMAIN local[d]
            /\ local[d][n] = notes[n].change

\* When edits and restores have ended, every device ends with nothing to push and
\* with exactly the server's notes (docs/protocol.md:82-83, "收敛到恢复后的服务端状态").
Converges ==
    <>[](\A d \in Devices :
             dirty[d] = {} /\ local[d] = [n \in DOMAIN notes |-> notes[n].change])

\* The notes of which a device has had the latest change.
Seen(d) == DOMAIN notes \ ChangesSince(notes, cursor[d])

\* No cursor is ahead of the server, and what is still to be pushed is not older
\* than what the device has seen.
DirtyIsLater(d) ==
    /\ cursor[d] <= CurrentRevision(notes)
    /\ \A n \in Seen(d) \cap dirty[d] :
           ChangeTime(local[d][n]) >= ChangeTime(notes[n].change)

\* An answer to a pull is the server's state up to its revision, but for what a
\* later answer will bring.
PulledIsRecent(d) ==
    call[d].kind = "pulled" =>
        LET answer == call[d]
        IN  /\ cursor[d] <= answer.revision /\ answer.revision <= CurrentRevision(notes)
            /\ DOMAIN answer.changes \subseteq DOMAIN notes
            /\ \A n \in DOMAIN notes \ ChangesSince(notes, answer.revision) :
                   IF n \in Seen(d) THEN n \notin DOMAIN answer.changes
                   ELSE n \in DOMAIN answer.changes /\ answer.changes[n] = notes[n].change

\* A push under way is not older than what the device has seen.
PushIsLater(d) ==
    call[d].kind = "push" =>
        \A i, j \in call[d].changes :
            /\ i.note = j.note => i = j
            /\ i.note \in Seen(d) => ChangeTime(i.change) >= ChangeTime(notes[i.note].change)

\* What was pushed is on the server, unless the next answer brings something later.
PushedIsStored(d) ==
    call[d].kind = "pushed" =>
        \A i \in call[d].changes :
            /\ i.note \in DOMAIN notes
            /\ i.note \in Seen(d) => i.change = notes[i.note].change

\* Why ReplicaExact holds: what each device and its request rely on.
CallsInv ==
    \A d \in Devices :
        DirtyIsLater(d) /\ PulledIsRecent(d) /\ PushIsLater(d) /\ PushedIsStored(d)

\* The inductive invariant.
Inv == TypeOK /\ ReplicaExact /\ CallsInv

=============================================================================
