-------------------------- MODULE NoteChangesProofs --------------------------
(***************************************************************************)
(* Facts about tables of notes, their revisions and the times of changes,  *)
(* for the proofs about the modules that use them.                         *)
(***************************************************************************)
EXTENDS NoteChanges, FiniteSetTheorems, WellFoundedInduction, TLAPS

-----------------------------------------------------------------------------
(* The greatest revision *)

\* A bounded, nonempty set of naturals has a maximum, and Max picks it.
LEMMA MaxOfBounded ==
    ASSUME NEW k \in Nat, NEW S \in SUBSET (0 .. k), S # {}
    PROVE  Max(S) \in S /\ \A x \in S : x <= Max(S)
<1> DEFINE T == {k - x : x \in S}
<1>1. T \subseteq Nat /\ T # {}
  <2>1. \A x \in S : k - x \in Nat
    OBVIOUS
  <2>2. PICK x \in S : TRUE
    OBVIOUS
  <2>3. k - x \in T
    OBVIOUS
  <2> QED
    BY <2>1, <2>3
<1>2. \E t \in T : \A u \in T : ~(<<u, t>> \in OpToRel(<, Nat))
    BY <1>1, NatLessThanWellFounded, WFMin
<1>3. \E t \in T : \A u \in T : ~(u < t)
    BY <1>1, <1>2 DEF OpToRel
<1>4. PICK x \in S : \A y \in S : ~(k - y < k - x)
    BY <1>3
<1>5. \A y \in S : x >= y
    BY <1>4
<1> QED
    BY <1>5 DEF Max

\* current_revision is a revision, no row is above it, and unless it is 0 some
\* row has it.
LEMMA RevisionIsGreatest ==
    ASSUME NEW notes, IsNotes(notes)
    PROVE  /\ CurrentRevision(notes) \in 0 .. MaxRevision
           /\ \A n \in DOMAIN notes : notes[n].revision <= CurrentRevision(notes)
           /\ CurrentRevision(notes) # 0 =>
                  \E n \in DOMAIN notes : notes[n].revision = CurrentRevision(notes)
<1> DEFINE S == {notes[n].revision : n \in DOMAIN notes} \cup {0}
<1>1. \A n \in DOMAIN notes : notes[n].revision \in 1 .. MaxRevision
    BY DEF IsNotes, Row
<1>2. S \in SUBSET (0 .. MaxRevision) /\ S # {}
    BY <1>1, BoundsAssumption
<1>3. Max(S) \in S /\ \A x \in S : x <= Max(S)
    BY <1>2, MaxOfBounded, BoundsAssumption
<1>4. CurrentRevision(notes) = Max(S)
    BY DEF CurrentRevision
<1> QED
    BY <1>2, <1>3, <1>4

\* An empty table notes is well-typed and at revision 0.
LEMMA NoNotesType == IsNotes(NoNotes) /\ CurrentRevision(NoNotes) = 0
<1>1. IsNotes(NoNotes)
    BY DEF IsNotes, NoNotes
<1>2. DOMAIN NoNotes = {}
    BY DEF NoNotes
<1> QED
    BY <1>1, <1>2, RevisionIsGreatest, BoundsAssumption

-----------------------------------------------------------------------------
(* Tables that follow one another *)

\* The revision does not fall where one table supersedes another.
LEMMA SupersedesRevision ==
    ASSUME NEW next, IsNotes(next), NEW last, IsNotes(last), Supersedes(next, last)
    PROVE  CurrentRevision(last) <= CurrentRevision(next)
<1>1. /\ CurrentRevision(last) \in Nat /\ CurrentRevision(next) \in Nat
      /\ \A n \in DOMAIN next : next[n].revision <= CurrentRevision(next)
      /\ \A n \in DOMAIN next : next[n].revision \in Nat
    BY RevisionIsGreatest, BoundsAssumption DEF IsNotes, Row
<1>2. CASE CurrentRevision(last) = 0
    BY <1>1, <1>2
<1>3. CASE CurrentRevision(last) # 0
  <2>1. PICK n \in DOMAIN last : last[n].revision = CurrentRevision(last)
    BY <1>3, RevisionIsGreatest
  <2>2. n \in DOMAIN next /\ next[n].revision >= CurrentRevision(last)
    BY <1>1, <2>1 DEF Supersedes, ChangesSince
  <2> QED
    BY <1>1, <2>2
<1> QED
    BY <1>2, <1>3

\* The times of changes are numbers, and so comparable.
LEMMA ChangeTimeType ==
    ASSUME NEW change \in Change
    PROVE  ChangeTime(change) \in Nat
    BY BoundsAssumption DEF Change, ChangeTime, Times, NotDeleted

\* Rows stored or left alone by last write wins supersede those before.
LEMMA LatestWinsSupersedes ==
    ASSUME NEW next, NEW last, NEW incoming, LatestWins(next, last, incoming)
    PROVE  Supersedes(next, last)
    BY DEF LatestWins, Supersedes

\* The notes of next that differ from those of last, as a request.
ChangedNotes(next, last) ==
    {[note |-> n, change |-> next[n].change] :
        n \in {m \in DOMAIN next : m \notin DOMAIN last \/ next[m] # last[m]}}

\* An outcome of last write wins is that of the changes it has made.
LEMMA LatestWinsChanged ==
    ASSUME NEW next, NEW last, NEW incoming, LatestWins(next, last, incoming)
    PROVE  LatestWins(next, last, ChangedNotes(next, last))
<1> DEFINE changed == {m \in DOMAIN next : m \notin DOMAIN last \/ next[m] # last[m]}
<1>1. \A i \in ChangedNotes(next, last) :
          \E n \in changed : i = [note |-> n, change |-> next[n].change]
    BY DEF ChangedNotes
<1>2. \A n \in changed : [note |-> n, change |-> next[n].change] \in ChangedNotes(next, last)
    BY DEF ChangedNotes
<1>3. {i.note : i \in ChangedNotes(next, last)} = changed
  <2> HIDE DEF changed
  <2>1. \A i \in ChangedNotes(next, last) : i.note \in changed
    BY <1>1
  <2>2. \A n \in changed : \E i \in ChangedNotes(next, last) : i.note = n
    BY <1>2
  <2> QED
    BY <2>1, <2>2
<1>4. DOMAIN next = DOMAIN last \cup changed
    BY DEF LatestWins
<1>5. \A i \in ChangedNotes(next, last) :
          NotLost(i, next[i.note].change, ChangedNotes(next, last))
    BY <1>1 DEF NotLost
<1>6. ASSUME NEW n \in changed
      PROVE  /\ n \in ChangesSince(next, CurrentRevision(last))
             /\ n \in DOMAIN last => ChangeTime(next[n].change) >= ChangeTime(last[n].change)
    BY DEF LatestWins
<1>7. \A n \in DOMAIN next \ changed : n \in DOMAIN last /\ next[n] = last[n]
    OBVIOUS
<1> HIDE DEF changed
<1>8. \A n \in DOMAIN next :
          \/ n \in DOMAIN last /\ next[n] = last[n]
          \/ /\ [note |-> n, change |-> next[n].change] \in ChangedNotes(next, last)
             /\ n \in ChangesSince(next, CurrentRevision(last))
             /\ n \in DOMAIN last => ChangeTime(next[n].change) >= ChangeTime(last[n].change)
    BY <1>2, <1>6, <1>7
<1>9. DOMAIN next = DOMAIN last \cup {i.note : i \in ChangedNotes(next, last)}
    BY <1>3, <1>4
<1> QED
    BY <1>5, <1>8, <1>9 DEF LatestWins

\* A further change that is skipped, for what is there is later or the same.
LEMMA LatestWinsSkipped ==
    ASSUME NEW next, NEW last, NEW incoming, LatestWins(next, last, incoming),
           NEW note \in DOMAIN next, NEW change,
           \/ ChangeTime(next[note].change) > ChangeTime(change)
           \/ next[note].change = change
    PROVE  LatestWins(next, last, incoming \cup {[note |-> note, change |-> change]})
<1> DEFINE one == [note |-> note, change |-> change]
           all == incoming \cup {one}
<1>1. \A i \in incoming : NotLost(i, next[i.note].change, all)
    BY DEF LatestWins, NotLost
<1>2. NotLost(one, next[note].change, all)
    BY DEF NotLost
<1>3. DOMAIN next = DOMAIN last \cup {i.note : i \in all}
    BY DEF LatestWins
<1>4. \A i \in all : NotLost(i, next[i.note].change, all)
    BY <1>1, <1>2
<1> HIDE DEF one
<1> QED
    BY <1>3, <1>4 DEF LatestWins, one

\* A further change that is stored above all revisions, for nothing there is later.
LEMMA LatestWinsStored ==
    ASSUME NEW next, IsNotes(next), NEW last, IsNotes(last), NEW incoming,
           LatestWins(next, last, incoming),
           \A i \in incoming : i.change \in Change,
           NEW note, NEW row, row.change \in Change, row.revision \in Nat,
           row.revision > CurrentRevision(next),
           note \in DOMAIN next => ChangeTime(row.change) >= ChangeTime(next[note].change)
    PROVE  LatestWins(Upsert(next, [n \in {note} |-> row]), last,
                      incoming \cup {[note |-> note, change |-> row.change]})
<1> DEFINE one == [note |-> note, change |-> row.change]
           all == incoming \cup {one}
           new == Upsert(next, [n \in {note} |-> row])
<1>1. /\ DOMAIN new = DOMAIN next \cup {note}
      /\ new[note] = row
      /\ \A n \in DOMAIN next \ {note} : new[n] = next[n]
    BY DEF Upsert
<1>2. /\ \A i \in incoming : ChangeTime(i.change) \in Nat
      /\ \A n \in DOMAIN next : ChangeTime(next[n].change) \in Nat
      /\ \A n \in DOMAIN last : ChangeTime(last[n].change) \in Nat
      /\ ChangeTime(row.change) \in Nat
    BY ChangeTimeType DEF IsNotes, Row
<1>3. row.revision > CurrentRevision(last)
    BY LatestWinsSupersedes, SupersedesRevision, RevisionIsGreatest, BoundsAssumption
<1> HIDE DEF new
<1>4. ASSUME NEW i \in incoming
      PROVE  NotLost(i, new[i.note].change, all)
  <2>1. NotLost(i, next[i.note].change, incoming) /\ i.note \in DOMAIN next
    BY DEF LatestWins
  <2>2. CASE i.note = note
    BY <1>1, <1>2, <2>1, <2>2 DEF NotLost
  <2>3. CASE i.note # note
    BY <1>1, <2>1, <2>3 DEF NotLost
  <2> QED
    BY <2>2, <2>3
<1>5. NotLost(one, new[note].change, all)
    BY <1>1 DEF NotLost
<1>6. ASSUME NEW n \in DOMAIN new
      PROVE  \/ n \in DOMAIN last /\ new[n] = last[n]
             \/ /\ [note |-> n, change |-> new[n].change] \in all
                /\ n \in ChangesSince(new, CurrentRevision(last))
                /\ n \in DOMAIN last =>
                       ChangeTime(new[n].change) >= ChangeTime(last[n].change)
  <2>1. CASE n = note
    <3>1. n \in ChangesSince(new, CurrentRevision(last))
      BY <1>1, <1>3, <2>1 DEF ChangesSince
    <3>2. n \in DOMAIN last =>
              ChangeTime(new[n].change) >= ChangeTime(last[n].change)
      <4>1. n \in DOMAIN last => n \in DOMAIN next
        BY DEF LatestWins
      <4>2. ASSUME n \in DOMAIN last
            PROVE  ChangeTime(next[n].change) >= ChangeTime(last[n].change)
        <5>1. n \in DOMAIN next
          BY <4>1, <4>2
        <5>2. CASE next[n] = last[n]
          BY <1>2, <4>2, <5>2
        <5>3. CASE next[n] # last[n]
          BY <4>2, <5>1, <5>3 DEF LatestWins
        <5> QED
          BY <5>2, <5>3
      <4>3. n \in DOMAIN next => ChangeTime(new[n].change) >= ChangeTime(next[n].change)
        BY <1>1, <2>1
      <4> QED
        BY <1>1, <1>2, <2>1, <4>1, <4>2, <4>3
    <3>3. [note |-> n, change |-> new[n].change] = one
      BY <1>1, <2>1
    <3>4. [note |-> n, change |-> new[n].change] \in all
      BY <3>3
    <3> HIDE DEF all, one
    <3> QED
      BY <3>1, <3>2, <3>4
  <2>2. CASE n # note
    BY <1>1, <2>2 DEF LatestWins, ChangesSince
  <2> QED
    BY <2>1, <2>2
<1>7. one.note = note
    OBVIOUS
<1>8. DOMAIN new = DOMAIN last \cup {i.note : i \in all}
  <2>1. DOMAIN next = DOMAIN last \cup {i.note : i \in incoming}
    BY DEF LatestWins
  <2> HIDE DEF one
  <2>2. {i.note : i \in all} = {i.note : i \in incoming} \cup {note}
    BY <1>7
  <2> HIDE DEF all
  <2> QED
    BY <1>1, <2>1, <2>2
<1>9. \A i \in all : NotLost(i, new[i.note].change, all)
  <2> HIDE DEF one
  <2> QED
    BY <1>4, <1>5, <1>7
<1>10. LatestWins(new, last, all)
  <2> HIDE DEF one, all
  <2> QED
    BY <1>6, <1>8, <1>9 DEF LatestWins
<1> QED
    BY <1>10 DEF new

=============================================================================
