--------------------------- MODULE SyncSystemProofs ---------------------------
(***************************************************************************)
(* Theorems about SyncSystem, for every set of notes, devices, edits and   *)
(* backup files, and every bound.                                          *)
(***************************************************************************)
EXTENDS SyncSystem, NoteChangesProofs

-----------------------------------------------------------------------------
(* The server *)

\* What the server's steps promise is enough: whoever reads next finds all that
\* has changed above every revision there was.
LEMMA PushSupersedes ==
    ASSUME NEW incoming, PushOf(incoming)
    PROVE  IsNotes(notes') /\ Supersedes(notes', notes) /\ UNCHANGED saved
<1>1. IsNotes(notes') /\ Push(incoming)
    BY DEF PushOf
<1> QED
    BY <1>1, LatestWinsSupersedes DEF Push

LEMMA RestoreSupersedes ==
    ASSUME NEW f, RestoreOf(f)
    PROVE  IsNotes(notes') /\ Supersedes(notes', notes) /\ UNCHANGED saved
<1>1. IsNotes(notes') /\ Restore(f)
    BY DEF RestoreOf
<1> QED
    BY <1>1 DEF Restore, Supersedes

\* A note that a device has seen stays as it has seen it.
LEMMA SeenStays ==
    ASSUME IsNotes(notes), IsNotes(notes'), Supersedes(notes', notes),
           NEW since, since \in Nat, since <= CurrentRevision(notes),
           NEW n \in DOMAIN notes' \ ChangesSince(notes', since)
    PROVE  n \in DOMAIN notes \ ChangesSince(notes, since) /\ notes'[n] = notes[n]
<1>1. CurrentRevision(notes) \in Nat /\ notes'[n].revision \in Nat
    BY RevisionIsGreatest, BoundsAssumption DEF IsNotes, Row
<1>2. notes'[n].revision <= since
    BY <1>1 DEF ChangesSince
<1>3. n \notin ChangesSince(notes', CurrentRevision(notes))
    BY <1>1, <1>2 DEF ChangesSince
<1>4. n \in DOMAIN notes /\ notes'[n] = notes[n]
    BY <1>3 DEF Supersedes
<1> QED
    BY <1>4 DEF ChangesSince

-----------------------------------------------------------------------------
(* Steps of the server, seen from a device that does nothing *)

\* The facts about a device's variables that the proofs use.
LEMMA DeviceTypes ==
    ASSUME TypeOK, NEW d \in Devices
    PROVE  /\ IsNotes(notes) /\ CurrentRevision(notes) \in 0 .. MaxRevision
           /\ \A n \in DOMAIN notes : /\ n \in NoteIds
                                      /\ notes[n].revision \in Nat /\ notes[n].revision > 0
                                      /\ notes[n].revision <= CurrentRevision(notes)
                                      /\ notes[n].change \in Change
           /\ cursor[d] \in Nat /\ cursor[d] \in 0 .. MaxRevision
           /\ DOMAIN local[d] \subseteq NoteIds
           /\ \A n \in DOMAIN local[d] : local[d][n] \in Change
           /\ dirty[d] \subseteq DOMAIN local[d]
           /\ IsCall(call[d])
<1>1. IsNotes(notes) /\ cursor[d] \in 0 .. MaxRevision /\ MaxRevision \in Nat
    BY BoundsAssumption DEF TypeOK
<1>2. \A n \in DOMAIN notes : /\ n \in NoteIds
                              /\ notes[n].revision \in Nat /\ notes[n].revision > 0
                              /\ notes[n].change \in Change
    BY <1>1 DEF IsNotes, Row
<1>3. /\ DOMAIN local[d] \subseteq NoteIds /\ local[d] \in [DOMAIN local[d] -> Change]
      /\ dirty[d] \subseteq DOMAIN local[d] /\ IsCall(call[d])
    BY DEF TypeOK
<1> QED
    BY <1>1, <1>2, <1>3, RevisionIsGreatest

\* What a request or answer of each kind holds.
LEMMA CallTypes ==
    ASSUME NEW c, IsCall(c)
    PROVE  /\ c.kind = "pulled" =>
                  /\ c.revision \in 0 .. MaxRevision
                  /\ DOMAIN c.changes \subseteq NoteIds
                  /\ \A n \in DOMAIN c.changes : c.changes[n] \in Change
           /\ c.kind \in {"push", "pushed"} =>
                  /\ c = [kind |-> c.kind, changes |-> c.changes]
                  /\ c.changes \subseteq Incoming
<1>1. CASE c = Idle
    BY <1>1 DEF Idle
<1>2. CASE c = [kind |-> "pull"]
    BY <1>2
<1>3. CASE c # Idle /\ c # [kind |-> "pull"]
    BY <1>3 DEF IsCall
<1> QED
    BY <1>1, <1>2, <1>3

\* The server's notes move on; the device's notes, cursor and request stay.
LEMMA DeviceWaits ==
    ASSUME Inv, IsNotes(notes'), Supersedes(notes', notes),
           UNCHANGED <<local, cursor, dirty>>, NEW d \in Devices
    PROVE  /\ \A n \in (DOMAIN notes' \cup DOMAIN local'[d])
                           \ (dirty'[d] \cup ChangesSince(notes', cursor'[d])) :
                  /\ n \in DOMAIN notes' /\ n \in DOMAIN local'[d]
                  /\ local'[d][n] = notes'[n].change
           /\ DirtyIsLater(d)'
           /\ call'[d] = call[d] => (PulledIsRecent(d) /\ PushIsLater(d) /\ PushedIsStored(d))'
<1>1. TypeOK /\ ReplicaExact
      /\ DirtyIsLater(d) /\ PulledIsRecent(d) /\ PushIsLater(d) /\ PushedIsStored(d)
    BY DEF Inv, CallsInv
<1>2. /\ IsNotes(notes) /\ cursor[d] \in Nat
      /\ CurrentRevision(notes) \in Nat /\ CurrentRevision(notes') \in Nat
      /\ CurrentRevision(notes) <= CurrentRevision(notes')
    BY <1>1, DeviceTypes, SupersedesRevision, RevisionIsGreatest, BoundsAssumption
<1>3. cursor[d] <= CurrentRevision(notes) /\ cursor'[d] <= CurrentRevision(notes')
    BY <1>1, <1>2 DEF DirtyIsLater
<1>4. \A n \in Seen(d)' : n \in Seen(d) /\ n \in DOMAIN notes /\ n \in DOMAIN notes' /\ notes'[n] = notes[n]
    BY <1>2, <1>3, SeenStays DEF Seen
<1>5. DOMAIN notes \subseteq DOMAIN notes'
    BY DEF Supersedes
<1>6. ASSUME NEW n \in (DOMAIN notes' \cup DOMAIN local[d])
                           \ (dirty[d] \cup ChangesSince(notes', cursor[d]))
      PROVE  /\ n \in DOMAIN notes' /\ n \in DOMAIN local[d]
             /\ local[d][n] = notes'[n].change
  <2>1. CASE n \in DOMAIN notes'
    <3>1. n \in Seen(d)'
        BY <2>1, <1>6 DEF Seen
    <3>2. n \in Seen(d) /\ n \in DOMAIN notes /\ notes'[n] = notes[n]
        BY <3>1, <1>4
    <3> QED
        BY <3>2, <2>1, <1>1, <1>6 DEF ReplicaExact, Seen
  <2>2. CASE n \notin DOMAIN notes'
    <3>1. n \notin DOMAIN notes /\ n \notin ChangesSince(notes, cursor[d])
        BY <2>2, <1>5 DEF ChangesSince
    <3> QED
        BY <3>1, <2>2, <1>1, <1>6 DEF ReplicaExact
  <2> QED
    BY <2>1, <2>2
<1>7. DirtyIsLater(d)'
    BY <1>1, <1>3, <1>4 DEF DirtyIsLater
<1>8. ASSUME call'[d] = call[d] PROVE PulledIsRecent(d)'
  <2> SUFFICES ASSUME call[d].kind = "pulled" PROVE PulledIsRecent(d)'
    BY <1>8 DEF PulledIsRecent
  <2>1. call[d].revision \in Nat /\ call[d].revision <= CurrentRevision(notes)
        /\ cursor[d] <= call[d].revision
        /\ DOMAIN call[d].changes \subseteq DOMAIN notes
    BY <1>1, DeviceTypes, CallTypes, BoundsAssumption DEF PulledIsRecent
  <2>2. ASSUME NEW n \in DOMAIN notes' \ ChangesSince(notes', call[d].revision)
        PROVE  IF n \in Seen(d)' THEN n \notin DOMAIN call[d].changes
               ELSE n \in DOMAIN call[d].changes /\ call[d].changes[n] = notes'[n].change
    <3>1. n \in DOMAIN notes \ ChangesSince(notes, call[d].revision) /\ notes'[n] = notes[n]
        BY <2>1, <2>2, <1>2, SeenStays
    <3>2. n \in Seen(d)' <=> n \in Seen(d)
        BY <3>1, <2>2 DEF Seen, ChangesSince
    <3> QED
        BY <3>1, <3>2, <1>1 DEF PulledIsRecent
  <2> QED
    BY <2>1, <2>2, <1>2, <1>5, <1>8 DEF PulledIsRecent
<1>9. ASSUME call'[d] = call[d] PROVE PushIsLater(d)'
    BY <1>1, <1>4, <1>9 DEF PushIsLater
<1>10. ASSUME call'[d] = call[d] PROVE PushedIsStored(d)'
    BY <1>1, <1>4, <1>5, <1>10 DEF PushedIsStored
<1> QED
    BY <1>6, <1>7, <1>8, <1>9, <1>10

\* A step of the server for no device: a late push or a restore.
LEMMA ServerAlone ==
    ASSUME Inv, IsNotes(notes'), Supersedes(notes', notes),
           UNCHANGED <<saved, local, cursor, dirty, call>>,
           delayed' \subseteq delayed
    PROVE  Inv'
<1>1. TypeOK'
    BY DEF Inv, TypeOK
<1>2. ReplicaExact'
    BY DeviceWaits DEF ReplicaExact
<1>3. CallsInv'
    BY DeviceWaits DEF CallsInv
<1> QED
    BY <1>1, <1>2, <1>3 DEF Inv

-----------------------------------------------------------------------------
(* Steps of one device *)

\* What the invariant says of one device.
Exact(d) ==
    \A n \in (DOMAIN notes \cup DOMAIN local[d]) \ (dirty[d] \cup ChangesSince(notes, cursor[d])) :
        /\ n \in DOMAIN notes /\ n \in DOMAIN local[d]
        /\ local[d][n] = notes[n].change

DeviceType(d) ==
    /\ DOMAIN local[d] \subseteq NoteIds /\ local[d] \in [DOMAIN local[d] -> Change]
    /\ dirty[d] \subseteq DOMAIN local[d]
    /\ cursor[d] \in 0 .. MaxRevision
    /\ IsCall(call[d])

DeviceInv(d) ==
    /\ DeviceType(d)
    /\ Exact(d)
    /\ DirtyIsLater(d) /\ PulledIsRecent(d) /\ PushIsLater(d) /\ PushedIsStored(d)

\* What it says of the rest.
ServerType ==
    /\ IsNotes(notes)
    /\ \A f \in DOMAIN saved : IsNotes(saved[f])
    /\ cursor = [d \in Devices |-> cursor[d]]
    /\ local = [d \in Devices |-> local[d]] /\ dirty = [d \in Devices |-> dirty[d]]
    /\ call = [d \in Devices |-> call[d]]
    /\ delayed \subseteq SUBSET Incoming

LEMMA InvOfDevices ==
    ASSUME Inv
    PROVE  ServerType /\ \A d \in Devices : DeviceInv(d)
    BY DEF Inv, TypeOK, ReplicaExact, CallsInv, ServerType, DeviceInv, DeviceType, Exact

LEMMA DevicesInv ==
    ASSUME ServerType', \A d \in Devices : DeviceInv(d)'
    PROVE  Inv'
<1>1. TypeOK'
    BY DEF TypeOK, ServerType, DeviceInv, DeviceType
<1>2. ReplicaExact'
    BY DEF ReplicaExact, DeviceInv, Exact
<1> QED
    BY <1>1, <1>2 DEF Inv, CallsInv, DeviceInv

\* The other devices are as they were.
LEMMA OthersWait ==
    ASSUME NEW d, DeviceInv(d), notes' = notes,
           local'[d] = local[d], cursor'[d] = cursor[d], dirty'[d] = dirty[d], call'[d] = call[d]
    PROVE  DeviceInv(d)'
    BY DEF DeviceInv, DeviceType, Exact, Seen, DirtyIsLater, PulledIsRecent, PushIsLater,
           PushedIsStored

LEMMA StepOfDevice ==
    ASSUME Inv, ServerType', notes' = notes,
           NEW d \in Devices, DeviceInv(d)',
           \A e \in Devices \ {d} : /\ local'[e] = local[e] /\ cursor'[e] = cursor[e]
                                    /\ dirty'[e] = dirty[e] /\ call'[e] = call[e]
    PROVE  Inv'
<1>1. \A e \in Devices : DeviceInv(e)
    BY InvOfDevices
<1>2. \A e \in Devices : DeviceInv(e)'
    BY <1>1, OthersWait
<1> QED
    BY <1>2, DevicesInv

LEMMA EditStep ==
    ASSUME Inv, NEW d \in Devices, Edit(d)
    PROVE  Inv'
<1>1. PICK n \in NoteIds, change \in Edits :
          /\ n \in DOMAIN local[d] => ChangeTime(change) >= ChangeTime(local[d][n])
          /\ local' = [local EXCEPT ![d] = [m \in DOMAIN @ \cup {n} |->
                                               IF m = n THEN change ELSE @[m]]]
          /\ dirty' = [dirty EXCEPT ![d] = @ \cup {n}]
    BY DEF Edit
<1>2. ServerType /\ DeviceInv(d) /\ TypeOK
      /\ UNCHANGED <<notes, saved, cursor, call, delayed>>
    BY InvOfDevices DEF Edit, Inv, storeVars
<1>3. /\ DOMAIN local'[d] = DOMAIN local[d] \cup {n} /\ local'[d][n] = change
      /\ \A m \in DOMAIN local[d] \ {n} : local'[d][m] = local[d][m]
      /\ local'[d] = [m \in DOMAIN local'[d] |-> local'[d][m]]
      /\ dirty'[d] = dirty[d] \cup {n}
      /\ change \in Change
    BY <1>1, <1>2, EditsAssumption DEF ServerType
<1>4. DeviceType(d)'
    BY <1>2, <1>3 DEF DeviceInv, DeviceType
<1>5. Exact(d)'
    BY <1>2, <1>3 DEF DeviceInv, Exact
<1>6. DirtyIsLater(d)'
  <2>1. Seen(d)' = Seen(d) /\ cursor'[d] <= CurrentRevision(notes')
    BY <1>2 DEF Seen, DeviceInv, DirtyIsLater
  <2>2. ASSUME NEW m \in Seen(d), m \in dirty'[d]
        PROVE  ChangeTime(local'[d][m]) >= ChangeTime(notes[m].change)
    <3>1. CASE m # n
        BY <2>2, <3>1, <1>2, <1>3 DEF DeviceInv, DeviceType, DirtyIsLater
    <3>2. CASE m = n
      <4>1. n \in DOMAIN local[d] /\ ChangeTime(local[d][n]) >= ChangeTime(notes[n].change)
            /\ local[d][n] \in Change /\ notes[n].change \in Change
        <5>1. notes[n].change \in Change
            BY <2>2, <3>2, <1>2, DeviceTypes DEF Seen
        <5>2. CASE n \in dirty[d]
            BY <5>1, <5>2, <2>2, <3>2, <1>2 DEF DeviceInv, DeviceType, DirtyIsLater
        <5>3. CASE n \notin dirty[d]
            BY <5>1, <5>3, <2>2, <3>2, <1>2, ChangeTimeType DEF DeviceInv, Exact, Seen
        <5> QED
            BY <5>2, <5>3
      <4>2. ChangeTime(change) \in Nat /\ ChangeTime(local[d][n]) \in Nat
            /\ ChangeTime(notes[n].change) \in Nat
        BY <4>1, <1>3, ChangeTimeType
      <4> QED
        BY <4>1, <4>2, <1>1, <1>3, <3>2
    <3> QED
        BY <3>1, <3>2
  <2> QED
    BY <2>1, <2>2, <1>2 DEF DirtyIsLater
<1>7. (PulledIsRecent(d) /\ PushIsLater(d) /\ PushedIsStored(d))'
    BY <1>2 DEF DeviceInv, PulledIsRecent, PushIsLater, PushedIsStored, Seen
<1>8. ServerType'
    BY <1>1, <1>2 DEF ServerType
<1> QED
    BY <1>1, <1>2, <1>4, <1>5, <1>6, <1>7, <1>8, StepOfDevice DEF DeviceInv

\* A request is sent, or given up: nothing but the request changes.
LEMMA PullOrGiveUpStep ==
    ASSUME Inv, NEW d \in Devices, Pull(d) \/ GiveUp(d)
    PROVE  Inv'
<1>1. /\ ServerType /\ DeviceInv(d)
      /\ UNCHANGED <<notes, saved, local, cursor, dirty>>
      /\ \E c \in {Idle, [kind |-> "pull"]} : call' = [call EXCEPT ![d] = c]
    BY InvOfDevices DEF Pull, GiveUp, storeVars
<1>2. call'[d] = Idle \/ call'[d] = [kind |-> "pull"]
    BY <1>1 DEF ServerType
<1>3. call'[d].kind \in {"idle", "pull"} /\ IsCall(call'[d])
    BY <1>2 DEF Idle, IsCall
<1>4. DeviceInv(d)'
    BY <1>1, <1>3 DEF DeviceInv, DeviceType, Exact, DirtyIsLater, Seen, PulledIsRecent,
                      PushIsLater, PushedIsStored
<1>5. delayed' \subseteq SUBSET Incoming
  <2>1. CASE Pull(d)
    BY <2>1, <1>1 DEF Pull, ServerType
  <2>2. CASE GiveUp(d)
    BY <2>2, <1>1, CallTypes DEF GiveUp, ServerType, DeviceInv, DeviceType
  <2> QED
    BY <2>1, <2>2
<1>6. ServerType'
    BY <1>1, <1>5 DEF ServerType
<1> QED
    BY <1>1, <1>4, <1>6, StepOfDevice

LEMMA AnswerPullStep ==
    ASSUME Inv, NEW d \in Devices, AnswerPull(d)
    PROVE  Inv'
<1> DEFINE changes == [n \in ChangesSince(notes, cursor[d]) |-> notes[n].change]
           answer == [kind |-> "pulled", revision |-> CurrentRevision(notes), changes |-> changes]
<1>1. /\ ServerType /\ DeviceInv(d) /\ TypeOK
      /\ UNCHANGED <<notes, saved, local, cursor, dirty, delayed>>
      /\ call' = [call EXCEPT ![d] = answer]
    BY InvOfDevices DEF AnswerPull, Inv, storeVars
<1>2. call'[d] = answer
    BY <1>1 DEF ServerType
<1>3. /\ CurrentRevision(notes) \in 0 .. MaxRevision /\ MaxRevision \in Nat
      /\ \A n \in DOMAIN notes : /\ n \in NoteIds
                                 /\ notes[n].revision \in Nat
                                 /\ notes[n].revision <= CurrentRevision(notes)
                                 /\ notes[n].change \in Change
    BY <1>1, DeviceTypes, BoundsAssumption
<1>4. DOMAIN changes \subseteq NoteIds /\ changes \in [DOMAIN changes -> Change]
    BY <1>3 DEF ChangesSince
<1>5. IsCall(call'[d])
    BY <1>2, <1>3, <1>4 DEF IsCall
<1>6. PulledIsRecent(d)'
  <2>1. DOMAIN changes = DOMAIN notes \ Seen(d)
    BY DEF Seen, ChangesSince
  <2>2. \A n \in DOMAIN notes \ Seen(d) : changes[n] = notes[n].change
    BY <2>1
  <2>3. cursor[d] <= CurrentRevision(notes)
    BY <1>1 DEF DeviceInv, DirtyIsLater
  <2>4. Seen(d)' = Seen(d)
    BY <1>1 DEF Seen
  <2> HIDE DEF changes
  <2> QED
    BY <2>1, <2>2, <2>3, <2>4, <1>1, <1>2, <1>3 DEF PulledIsRecent
<1>7. DeviceInv(d)'
    BY <1>1, <1>2, <1>5, <1>6 DEF DeviceInv, DeviceType, Exact, DirtyIsLater, Seen,
                                  PushIsLater, PushedIsStored
<1>8. ServerType'
    BY <1>1 DEF ServerType
<1> QED
    BY <1>1, <1>7, <1>8, StepOfDevice

\* A note up to the answer's revision was seen before, or it is in the answer.
LEMMA ApplyPulledStep ==
    ASSUME Inv, NEW d \in Devices, ApplyPulled(d)
    PROVE  Inv'
<1> DEFINE changes == call[d].changes
           revision == call[d].revision
<1>1. PICK preferred \in SUBSET NoteIds :
          LET taken == DOMAIN changes \ Kept(d, changes, preferred)
          IN  /\ local' = [local EXCEPT ![d] = [n \in DOMAIN @ \cup taken |->
                                                   IF n \in taken THEN changes[n] ELSE @[n]]]
              /\ dirty' = [dirty EXCEPT ![d] = @ \ taken]
    BY DEF ApplyPulled
<1> DEFINE taken == DOMAIN changes \ Kept(d, changes, preferred)
<1>2. /\ ServerType /\ DeviceInv(d) /\ TypeOK
      /\ UNCHANGED <<notes, saved, delayed>>
      /\ call[d].kind = "pulled"
      /\ cursor' = [cursor EXCEPT ![d] = revision]
      /\ \/ call' = [call EXCEPT ![d] = Idle]
         \/ call' = [call EXCEPT ![d] = [kind |-> "push", changes |-> DirtyChanges(d)']]
    BY InvOfDevices DEF ApplyPulled, Inv, storeVars
<1>3. /\ revision \in 0 .. MaxRevision
      /\ DOMAIN changes \subseteq NoteIds
      /\ \A n \in DOMAIN changes : changes[n] \in Change
    BY <1>2, CallTypes DEF DeviceInv, DeviceType
<1>4. /\ DOMAIN local'[d] = DOMAIN local[d] \cup taken
      /\ \A n \in DOMAIN local'[d] : local'[d][n] = IF n \in taken THEN changes[n] ELSE local[d][n]
      /\ local'[d] = [n \in DOMAIN local'[d] |-> local'[d][n]]
      /\ dirty'[d] = dirty[d] \ taken
      /\ cursor'[d] = revision
      /\ call'[d] \in {Idle, [kind |-> "push", changes |-> DirtyChanges(d)']}
    BY <1>1, <1>2 DEF ServerType
<1>5. /\ cursor[d] <= revision /\ revision <= CurrentRevision(notes)
      /\ DOMAIN changes \subseteq DOMAIN notes
      /\ \A n \in DOMAIN notes \ ChangesSince(notes, revision) :
             IF n \in Seen(d) THEN n \notin DOMAIN changes
             ELSE n \in DOMAIN changes /\ changes[n] = notes[n].change
    BY <1>2 DEF DeviceInv, PulledIsRecent
<1>6. \A n \in DOMAIN changes \ taken :
          n \in dirty[d] /\ ChangeTime(local[d][n]) >= ChangeTime(changes[n])
  <2>1. \A n \in DOMAIN changes \ taken :
            /\ n \in dirty[d]
            /\ \/ ChangeTime(local[d][n]) > ChangeTime(changes[n])
               \/ ChangeTime(local[d][n]) = ChangeTime(changes[n])
    BY DEF Kept
  <2>2. \A n \in DOMAIN changes \cap dirty[d] :
            ChangeTime(local[d][n]) \in Nat /\ ChangeTime(changes[n]) \in Nat
    BY <1>2, <1>3, ChangeTimeType DEF DeviceInv, DeviceType
  <2> QED
    BY <2>1, <2>2
<1> HIDE DEF taken, changes, revision
<1>7. taken \subseteq DOMAIN changes
    BY DEF taken
<1>8. \A n \in DOMAIN local'[d] : local'[d][n] \in Change
    BY <1>2, <1>3, <1>4, <1>7 DEF DeviceInv, DeviceType
<1>9. DOMAIN local'[d] \subseteq NoteIds /\ local'[d] \in [DOMAIN local'[d] -> Change]
      /\ dirty'[d] \subseteq DOMAIN local'[d] /\ cursor'[d] \in 0 .. MaxRevision
    BY <1>2, <1>3, <1>4, <1>7, <1>8 DEF DeviceInv, DeviceType
<1>10. DirtyChanges(d)' \subseteq Incoming
    BY <1>8, <1>9 DEF DirtyChanges, Incoming
<1>11. IsCall(call'[d])
  <2>1. CASE call'[d] = Idle
    BY <2>1 DEF IsCall
  <2>2. CASE call'[d] = [kind |-> "push", changes |-> DirtyChanges(d)']
    BY <2>2, <1>10 DEF IsCall
  <2> QED
    BY <2>1, <2>2, <1>4
<1>12. Exact(d)'
  <2> SUFFICES ASSUME NEW n \in (DOMAIN notes \cup DOMAIN local'[d])
                                    \ (dirty'[d] \cup ChangesSince(notes, revision))
               PROVE  /\ n \in DOMAIN notes /\ n \in DOMAIN local'[d]
                      /\ local'[d][n] = notes[n].change
    BY <1>2, <1>4 DEF Exact
  <2>1. CASE n \in taken
    BY <2>1, <1>4, <1>5, <1>7
  <2>2. CASE n \notin taken
    <3>1. n \notin dirty[d] /\ n \notin DOMAIN changes
        BY <2>2, <1>4, <1>6
    <3>2. n \in DOMAIN notes => n \in Seen(d)
        BY <3>1, <1>5
    <3>3. n \notin DOMAIN notes => n \notin ChangesSince(notes, cursor[d])
        BY DEF ChangesSince
    <3>4. n \in DOMAIN notes /\ n \in DOMAIN local[d] /\ local[d][n] = notes[n].change
        BY <2>2, <3>1, <3>2, <3>3, <1>2, <1>4 DEF DeviceInv, Exact, Seen
    <3> QED
        BY <3>4, <2>2, <1>4
  <2> QED
    BY <2>1, <2>2
<1>13. DirtyIsLater(d)'
  <2>1. ASSUME NEW n \in DOMAIN notes \ ChangesSince(notes, revision), n \in dirty'[d]
        PROVE  ChangeTime(local'[d][n]) >= ChangeTime(notes[n].change)
    <3>1. n \in dirty[d] /\ n \notin taken /\ local'[d][n] = local[d][n]
        BY <2>1, <1>4, <1>9
    <3>2. CASE n \in Seen(d)
        BY <3>1, <3>2, <1>2 DEF DeviceInv, DirtyIsLater
    <3>3. CASE n \notin Seen(d)
        BY <3>1, <3>3, <2>1, <1>5, <1>6
    <3> QED
        BY <3>2, <3>3
  <2> QED
    BY <2>1, <1>2, <1>4, <1>5 DEF DirtyIsLater, Seen
<1>14. PushIsLater(d)'
  <2> SUFFICES ASSUME call'[d].kind = "push" PROVE PushIsLater(d)'
    BY DEF PushIsLater
  <2>1. call'[d] = [kind |-> "push", changes |-> DirtyChanges(d)']
    BY <1>4 DEF Idle
  <2>2. \A i \in call'[d].changes :
            i.note \in dirty'[d] /\ i = [note |-> i.note, change |-> local'[d][i.note]]
    BY <2>1 DEF DirtyChanges
  <2>3. \A i, j \in call'[d].changes : i.note = j.note => i = j
    BY <2>2
  <2>4. \A i \in call'[d].changes : i.change = local'[d][i.note]
    BY <2>2
  <2> QED
    BY <2>2, <2>3, <2>4, <1>13 DEF PushIsLater, DirtyIsLater
<1>15. PulledIsRecent(d)' /\ PushedIsStored(d)'
    BY <1>4 DEF Idle, PulledIsRecent, PushedIsStored
<1>16. DeviceInv(d)'
    BY <1>9, <1>11, <1>12, <1>13, <1>14, <1>15 DEF DeviceInv, DeviceType
<1>17. ServerType'
    BY <1>1, <1>2 DEF ServerType
<1>18. \A e \in Devices \ {d} : /\ local'[e] = local[e] /\ cursor'[e] = cursor[e]
                                /\ dirty'[e] = dirty[e] /\ call'[e] = call[e]
    BY <1>1, <1>2 DEF ServerType
<1> QED
    BY <1>2, <1>16, <1>17, <1>18, StepOfDevice

\* What is pushed is on the server afterwards, or gives way to a change the device
\* has not seen.
LEMMA AnswerPushStep ==
    ASSUME Inv, NEW d \in Devices, AnswerPush(d)
    PROVE  Inv'
<1> DEFINE incoming == call[d].changes
<1>1. /\ ServerType /\ DeviceInv(d) /\ TypeOK
      /\ UNCHANGED <<local, cursor, dirty, delayed>>
      /\ call[d].kind = "push"
      /\ PushOf(incoming)
      /\ call' = [call EXCEPT ![d].kind = "pushed"]
    BY InvOfDevices DEF AnswerPush, Inv
<1>2. IsNotes(notes') /\ Supersedes(notes', notes) /\ UNCHANGED saved
      /\ LatestWins(notes', notes, incoming)
    BY <1>1, PushSupersedes DEF PushOf, Push
<1>3. call[d] = [kind |-> "push", changes |-> incoming] /\ incoming \subseteq Incoming
    BY <1>1, CallTypes DEF DeviceInv, DeviceType
<1>4. call'[d] = [kind |-> "pushed", changes |-> incoming]
    BY <1>1, <1>3 DEF ServerType
<1>5. \A e \in Devices \ {d} : call'[e] = call[e]
    BY <1>1 DEF ServerType
<1>6. PushedIsStored(d)'
  <2> SUFFICES ASSUME NEW i \in incoming
               PROVE  /\ i.note \in DOMAIN notes'
                      /\ i.note \in Seen(d)' => i.change = notes'[i.note].change
    BY <1>4 DEF PushedIsStored
  <2>1. i.note \in DOMAIN notes' /\ NotLost(i, notes'[i.note].change, incoming)
    BY <1>2 DEF LatestWins
  <2>2. ASSUME i.note \in Seen(d)' PROVE i.change = notes'[i.note].change
    <3>1. i.note \in Seen(d) /\ notes'[i.note] = notes[i.note] /\ i.note \in DOMAIN notes
      <4>1. i.note \in DOMAIN notes' \ ChangesSince(notes', cursor[d])
        BY <2>2, <1>1 DEF Seen
      <4>2. cursor[d] \in Nat /\ cursor[d] <= CurrentRevision(notes) /\ IsNotes(notes)
        BY <1>1, DeviceTypes DEF DeviceInv, DirtyIsLater
      <4> QED
        BY <4>1, <4>2, <1>2, SeenStays DEF Seen
    <3>2. ChangeTime(i.change) >= ChangeTime(notes[i.note].change)
        BY <3>1, <1>1 DEF DeviceInv, PushIsLater
    <3>3. ChangeTime(i.change) \in Nat /\ ChangeTime(notes[i.note].change) \in Nat
      <4>1. i.change \in Change /\ notes[i.note].change \in Change
        BY <1>1, <1>3, <3>1, DeviceTypes DEF Incoming
      <4> QED
        BY <4>1, ChangeTimeType
    <3>4. [note |-> i.note, change |-> notes'[i.note].change] \in incoming
        BY <2>1, <3>1, <3>2, <3>3 DEF NotLost
    <3>5. [note |-> i.note, change |-> notes'[i.note].change] = i
        BY <3>4, <1>1 DEF DeviceInv, PushIsLater
    <3> QED
        BY <3>5
  <2> QED
    BY <2>1, <2>2
<1>7. TypeOK'
  <2>1. IsCall(call'[d])
    BY <1>3, <1>4 DEF IsCall
  <2> QED
    BY <2>1, <1>1, <1>2, <1>5 DEF TypeOK
<1>8. ReplicaExact'
    BY <1>1, <1>2, DeviceWaits DEF ReplicaExact
<1>9. CallsInv'
  <2>1. (PulledIsRecent(d) /\ PushIsLater(d))'
    BY <1>4 DEF PulledIsRecent, PushIsLater
  <2> QED
    BY <2>1, <1>1, <1>2, <1>5, <1>6, DeviceWaits DEF CallsInv
<1> QED
    BY <1>7, <1>8, <1>9 DEF Inv

LEMMA PushedStep ==
    ASSUME Inv, NEW d \in Devices, Pushed(d)
    PROVE  Inv'
<1> DEFINE done == {n \in dirty[d] : [note |-> n, change |-> local[d][n]] \in call[d].changes}
<1>1. /\ ServerType /\ DeviceInv(d)
      /\ UNCHANGED <<notes, saved, local, cursor, delayed>>
      /\ call[d].kind = "pushed"
      /\ dirty' = [dirty EXCEPT ![d] = @ \ done]
      /\ call' = [call EXCEPT ![d] = Idle]
    BY InvOfDevices DEF Pushed, storeVars
<1>2. dirty'[d] = dirty[d] \ done /\ call'[d] = Idle
    BY <1>1 DEF ServerType
<1>3. \A n \in done : /\ n \in DOMAIN notes
                      /\ n \in Seen(d) => local[d][n] = notes[n].change
    BY <1>1 DEF DeviceInv, PushedIsStored
<1>4. Exact(d)'
    BY <1>1, <1>2, <1>3 DEF DeviceInv, DeviceType, Exact, Seen
<1>5. DeviceInv(d)'
    BY <1>1, <1>2, <1>4 DEF DeviceInv, DeviceType, IsCall, Idle, DirtyIsLater, Seen,
                            PulledIsRecent, PushIsLater, PushedIsStored
<1>6. ServerType'
    BY <1>1 DEF ServerType
<1> QED
    BY <1>1, <1>5, <1>6, StepOfDevice

LEMMA TakeBackupStep ==
    ASSUME Inv, NEW f \in BackupFiles, TakeBackup(f)
    PROVE  Inv'
<1>1. /\ notes' = notes /\ local' = local /\ cursor' = cursor /\ dirty' = dirty
      /\ call' = call /\ delayed' = delayed
      /\ saved' = [g \in DOMAIN saved \cup {f} |-> IF g = f THEN notes ELSE saved[g]]
    BY DEF TakeBackup, Backup, deviceVars
<1>2. ServerType /\ \A d \in Devices : DeviceInv(d)
    BY InvOfDevices
<1>3. ServerType'
    BY <1>1, <1>2 DEF ServerType
<1>4. ASSUME NEW d \in Devices PROVE DeviceInv(d)'
    BY <1>1, <1>2, OthersWait
<1> QED
    BY <1>3, <1>4, DevicesInv

LEMMA NextInv == Inv /\ [SystemNext]_vars => Inv'
<1> SUFFICES ASSUME Inv, [SystemNext]_vars PROVE Inv'
    OBVIOUS
<1>1. CASE \E d \in Devices : Edit(d)
    BY <1>1, EditStep
<1>2. CASE \E d \in Devices : Pull(d) \/ GiveUp(d)
    BY <1>2, PullOrGiveUpStep
<1>3. CASE \E d \in Devices : AnswerPull(d) \/ ApplyPulled(d)
    BY <1>3, AnswerPullStep, ApplyPulledStep
<1>4. CASE \E d \in Devices : AnswerPush(d) \/ Pushed(d)
    BY <1>4, AnswerPushStep, PushedStep
<1>5. CASE \E request \in delayed : LatePush(request)
    BY <1>5, PushSupersedes, ServerAlone DEF LatePush
<1>6. CASE \E f \in BackupFiles : TakeBackup(f)
    BY <1>6, TakeBackupStep
<1>7. CASE \E f \in BackupFiles : RestoreBackup(f)
    BY <1>7, RestoreSupersedes, ServerAlone DEF RestoreBackup
<1>8. CASE UNCHANGED vars
  <2>1. UNCHANGED <<notes, saved, local, cursor, dirty, call, delayed>>
    BY <1>8 DEF vars, storeVars, deviceVars
  <2>2. IsNotes(notes') /\ Supersedes(notes', notes)
    BY <2>1 DEF Inv, TypeOK, Supersedes
  <2> QED
    BY <2>1, <2>2, ServerAlone
<1> QED
    BY <1>1, <1>2, <1>3, <1>4, <1>5, <1>6, <1>7, <1>8 DEF SystemNext, Exchange

LEMMA InitInv == SystemInit => Inv
<1> SUFFICES ASSUME SystemInit PROVE Inv
    OBVIOUS
<1>1. IsNotes(notes) /\ DOMAIN notes = {} /\ CurrentRevision(notes) = 0
      /\ DOMAIN saved = {}
    BY NoNotesType DEF SystemInit, Init, NoNotes
<1>2. \A d \in Devices : /\ DOMAIN local[d] = {} /\ local[d] = [n \in {} |-> n]
                         /\ cursor[d] = 0 /\ dirty[d] = {}
                         /\ call[d] = Idle
    BY DEF SystemInit
<1>3. TypeOK
  <2>1. \A d \in Devices : local[d] \in [DOMAIN local[d] -> Change] /\ IsCall(call[d])
    BY <1>2 DEF IsCall
  <2>2. 0 \in 0 .. MaxRevision
    BY BoundsAssumption
  <2> QED
    BY <2>1, <2>2, <1>1, <1>2 DEF SystemInit, TypeOK
<1>4. ReplicaExact
    BY <1>1, <1>2 DEF ReplicaExact
<1>5. CallsInv
    BY <1>1, <1>2 DEF CallsInv, Idle, Seen, DirtyIsLater, PulledIsRecent, PushIsLater, PushedIsStored
<1> QED
    BY <1>3, <1>4, <1>5 DEF Inv

-----------------------------------------------------------------------------

\* The inductive invariant: ReplicaExact rests on what each request in flight relies
\* on (CallsInv), and both on the types.
THEOREM SpecInv == SystemSpec => []Inv
<1> QED
    BY InitInv, NextInv, PTL DEF SystemSpec

\* Every variable has its type, and so every revision stays within the bound.
THEOREM SpecTypeOK == SystemSpec => []TypeOK
<1>1. Inv => TypeOK
    BY DEF Inv
<1> QED
    BY <1>1, SpecInv, PTL

\* A cursor never hides a difference (docs/protocol.md:49-83): whatever is lost,
\* late, edited meanwhile or restored, a note with nothing to push that the next
\* answer will not bring is on the device exactly as on the server.
THEOREM SpecReplicaExact == SystemSpec => []ReplicaExact
<1>1. Inv => ReplicaExact
    BY DEF Inv
<1> QED
    BY <1>1, SpecInv, PTL

-----------------------------------------------------------------------------
(* What follows *)

\* With nothing to push and a cursor at the server's revision, a device has the
\* server's notes, all of them and no other: no difference is left that only a later
\* change of the note would bring to light (docs/protocol.md:82-83).
Caught(d) ==
    dirty[d] = {} /\ cursor[d] = CurrentRevision(notes) =>
        local[d] = [n \in DOMAIN notes |-> notes[n].change]

CaughtUp == \A d \in Devices : Caught(d)

\* A device that is done and up to date is a copy of the server, from ReplicaExact:
\* nothing is above the server's own revision, so nothing is left to bring.
THEOREM SpecCaughtUp == SystemSpec => []CaughtUp
<1>1. ASSUME Inv PROVE CaughtUp
  <2> SUFFICES ASSUME NEW d \in Devices, dirty[d] = {}, cursor[d] = CurrentRevision(notes)
               PROVE  local[d] = [n \in DOMAIN notes |-> notes[n].change]
    BY DEF CaughtUp, Caught
  <2>1. IsNotes(notes) /\ local[d] \in [DOMAIN local[d] -> Change]
    BY <1>1 DEF Inv, TypeOK
  <2>2. ChangesSince(notes, cursor[d]) = {}
    <3>1. \A n \in DOMAIN notes : ~ (notes[n].revision > CurrentRevision(notes))
        BY <2>1, RevisionIsGreatest, BoundsAssumption DEF IsNotes, Row
    <3> QED
        BY <3>1 DEF ChangesSince
  <2>3. \A n \in DOMAIN notes \cup DOMAIN local[d] :
            n \in DOMAIN notes /\ n \in DOMAIN local[d] /\ local[d][n] = notes[n].change
    BY <1>1, <2>2 DEF Inv, ReplicaExact
  <2>4. DOMAIN local[d] = DOMAIN notes
    BY <2>3
  <2> QED
    BY <2>1, <2>3, <2>4
<1> QED
    BY <1>1, SpecInv, PTL

\* No device's cursor goes back, whatever answer it applies, and the server's
\* revision does not either: a restore raises it (docs/protocol.md:80-83).
RevisionsAdvance ==
    /\ CurrentRevision(notes') >= CurrentRevision(notes)
    /\ \A d \in Devices : cursor'[d] >= cursor[d]

\* A late answer cannot take a device back: it is not older than the cursor it was
\* asked with (PulledIsRecent), and one call is under way at a time.
THEOREM SpecRevisionsAdvance == SystemSpec => [][RevisionsAdvance]_vars
<1>1. ASSUME Inv, SystemNext PROVE RevisionsAdvance
  <2>1. /\ IsNotes(notes) /\ CurrentRevision(notes) \in Nat
        /\ \A d \in Devices : cursor[d] \in Nat
    BY <1>1, RevisionIsGreatest, BoundsAssumption DEF Inv, TypeOK
  <2>2. CASE IsNotes(notes') /\ Supersedes(notes', notes) /\ UNCHANGED cursor
    BY <2>1, <2>2, SupersedesRevision DEF RevisionsAdvance
  <2>3. CASE \E d \in Devices : ApplyPulled(d)
    <3>1. PICK d \in Devices : ApplyPulled(d)
        BY <2>3
    <3>2. notes' = notes /\ cursor' = [cursor EXCEPT ![d] = call[d].revision]
          /\ call[d].kind = "pulled"
        BY <3>1 DEF ApplyPulled, storeVars
    <3>3. cursor[d] <= call[d].revision
        BY <1>1, <3>2 DEF Inv, CallsInv, PulledIsRecent
    <3>4. call[d].revision \in Nat
        BY <1>1, <3>2, CallTypes, InvOfDevices DEF DeviceInv, DeviceType
    <3>5. \A e \in Devices : cursor'[e] = IF e = d THEN call[d].revision ELSE cursor[e]
        BY <1>1, <3>2 DEF Inv, TypeOK
    <3> QED
        BY <2>1, <3>2, <3>3, <3>4, <3>5 DEF RevisionsAdvance
  <2>4. CASE UNCHANGED <<notes, cursor>>
    BY <2>1, <2>4 DEF RevisionsAdvance
  <2>5. CASE \E d \in Devices : Edit(d) \/ Pull(d) \/ AnswerPull(d) \/ Pushed(d) \/ GiveUp(d)
    <3>1. UNCHANGED <<notes, cursor>>
        BY <2>5 DEF Edit, Pull, AnswerPull, Pushed, GiveUp, storeVars
    <3> QED
        BY <3>1, <2>4
  <2>6. CASE \E d \in Devices : AnswerPush(d)
    BY <2>6, <2>2, PushSupersedes DEF AnswerPush
  <2>7. CASE \E request \in delayed : LatePush(request)
    BY <2>7, <2>2, PushSupersedes DEF LatePush
  <2>8. CASE \E f \in BackupFiles : TakeBackup(f)
    BY <2>8, <2>4 DEF TakeBackup, Backup, deviceVars
  <2>9. CASE \E f \in BackupFiles : RestoreBackup(f)
    BY <2>9, <2>2, RestoreSupersedes DEF RestoreBackup
  <2> QED
    BY <1>1, <2>3, <2>5, <2>6, <2>7, <2>8, <2>9 DEF SystemNext, Exchange
<1> QED
    BY <1>1, SpecInv, PTL DEF SystemSpec

-----------------------------------------------------------------------------
(* The devices' store is the abstract one *)

\* A request's outcome is an outcome of the changes it has made (Accepted).
LEMMA PushIsAccepted ==
    ASSUME NEW incoming, PushOf(incoming)
    PROVE  Next
<1>1. Push(incoming)
    BY DEF PushOf
<1>2. LatestWins(notes', notes, Accepted)
    BY <1>1, LatestWinsChanged DEF Push, Accepted, ChangedNotes
<1>3. Push(Accepted)
    BY <1>1, <1>2 DEF Push
<1> QED
    BY <1>3 DEF Next

\* What the devices synchronise with is the store that LatestStateStore promises, in
\* every step: so SpecKeepsPromise of SyncStoreProofs, which says the same of the
\* code's store, ties ReplicaExact to that code.
THEOREM SystemRefinesStore == SystemSpec => Spec
<1>1. SystemInit => Init
    BY DEF SystemInit
<1>2. ASSUME [SystemNext]_vars PROVE [Next]_storeVars
  <2>1. CASE \E d \in Devices : Edit(d) \/ Pull(d) \/ AnswerPull(d) \/ ApplyPulled(d)
                                \/ Pushed(d) \/ GiveUp(d)
    BY <2>1 DEF Edit, Pull, AnswerPull, ApplyPulled, Pushed, GiveUp
  <2>2. CASE \E d \in Devices : AnswerPush(d)
    BY <2>2, PushIsAccepted DEF AnswerPush
  <2>3. CASE \E request \in delayed : LatePush(request)
    BY <2>3, PushIsAccepted DEF LatePush
  <2>4. CASE \E f \in BackupFiles : TakeBackup(f)
    BY <2>4 DEF TakeBackup, Next
  <2>5. CASE \E f \in BackupFiles : RestoreBackup(f)
    BY <2>5 DEF RestoreBackup, RestoreOf, Next
  <2>6. CASE UNCHANGED vars
    BY <2>6 DEF vars
  <2> QED
    BY <1>2, <2>1, <2>2, <2>3, <2>4, <2>5, <2>6 DEF SystemNext, Exchange
<1> QED
    BY <1>1, <1>2, PTL DEF SystemSpec, Spec

=============================================================================
