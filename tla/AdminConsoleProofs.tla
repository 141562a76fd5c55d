-------------------------- MODULE AdminConsoleProofs --------------------------
(***************************************************************************)
(* Theorems about AdminConsole, for every set of notes and queries and     *)
(* every number of requests under way.  What the console shows in the end  *)
(* is liveness, and stays with TLC.                                        *)
(***************************************************************************)
EXTENDS AdminConsole, FiniteSetTheorems, WellFoundedInduction, TLAPS

-----------------------------------------------------------------------------
(* Slots *)

\* A set of slots has a least one.
LEMMA MinOfSlots ==
    ASSUME NEW S \in SUBSET Slots, S # {}
    PROVE  Min(S) \in S
<1>1. S \subseteq Nat
    BY ConsoleAssumption DEF Slots
<1>2. \E x \in S : \A y \in S : ~(<<y, x>> \in OpToRel(<, Nat))
    BY <1>1, NatLessThanWellFounded, WFMin
<1>3. \E x \in S : \A y \in S : ~(y < x)
    BY <1>1, <1>2 DEF OpToRel
<1>4. \E x \in S : \A y \in S : x <= y
    BY <1>1, <1>3
<1> QED
    BY <1>4 DEF Min

\* Sets of slots have a size, of which a slot more or less makes one.
LEMMA SizeOfSlots ==
    ASSUME NEW S \in SUBSET Slots
    PROVE  /\ IsFiniteSet(S) /\ Cardinality(S) \in Nat
           /\ \A i \in Slots \ S : Cardinality(S \cup {i}) = Cardinality(S) + 1
           /\ \A i \in S : Cardinality(S \ {i}) = Cardinality(S) - 1
           /\ \A T \in SUBSET S : Cardinality(T) <= Cardinality(S)
<1>1. IsFiniteSet(Slots)
    BY ConsoleAssumption, FS_Interval DEF Slots
<1>2. IsFiniteSet(S)
    BY <1>1, FS_Subset
<1>3. Cardinality(S) \in Nat
    BY <1>2, FS_CardinalityType
<1>4. \A i \in Slots \ S : Cardinality(S \cup {i}) = Cardinality(S) + 1
    BY <1>2, FS_AddElement
<1>5. \A i \in S : Cardinality(S \ {i}) = Cardinality(S) - 1
    BY <1>2, FS_RemoveElement
<1>6. \A T \in SUBSET S : Cardinality(T) <= Cardinality(S)
    BY <1>2, FS_Subset
<1> QED
    BY <1>2, <1>3, <1>4, <1>5, <1>6

\* A new call takes a slot that is free, and leaves the others alone.
LEMMA WithTakesFree ==
    ASSUME NEW underway \in [Slots -> Call \cup {None}], Free(underway) # {},
           NEW call \in Call
    PROVE  \E k \in Free(underway) :
               /\ With(underway, call) = [underway EXCEPT ![k] = call]
               /\ With(underway, call) \in [Slots -> Call \cup {None}]
               /\ Free(With(underway, call)) = Free(underway) \ {k}
<1> DEFINE k == Min(Free(underway))
<1>1. k \in Free(underway) /\ k \in Slots
    BY MinOfSlots DEF Free
<1>2. With(underway, call) = [underway EXCEPT ![k] = call]
    BY DEF With
<1> HIDE DEF k
<1>3. With(underway, call) \in [Slots -> Call \cup {None}]
    BY <1>1, <1>2
<1>4. Free(With(underway, call)) = Free(underway) \ {k}
    BY <1>1, <1>2, NoCallAssumption DEF Free
<1> QED
    BY <1>1, <1>2, <1>3, <1>4

-----------------------------------------------------------------------------
(* The inductive invariant *)

\* That the answers keep their types needs the room the restores leave, and that
\* no call is lost, that a new one takes a free slot.
ConsoleInv == TypeOK /\ RoomForRestores /\ BusyHasCause

\* Requests of the operator and of the timer.
LEMMA RequestType ==
    /\ \A q \in Queries, b \in BOOLEAN :
           Request("list", q, b) \in Call /\ Request("restore", q, b) \in Call
    /\ \A n \in Notes, b \in BOOLEAN : Request("detail", n, b) \in Call
    /\ Request("logout", None, FALSE) \in Call
    BY DEF Request, Call

\* The restores under way that the server has not handled.
Restores(underway) ==
    {i \in Slots : underway[i] # None /\ underway[i].kind = "restore" /\ underway[i].at = None}

\* What a new call adds to those that are under way.
LEMMA CallAdded ==
    ASSUME NEW underway \in [Slots -> Call \cup {None}], Free(underway) # {},
           NEW call \in Call
    PROVE  LET next == With(underway, call)
           IN  /\ next \in [Slots -> Call \cup {None}]
               /\ \E k \in Slots : next[k] = call
               /\ \A i \in Slots : underway[i] # None => next[i] = underway[i]
               /\ Cardinality(Restores(next)) <=
                      Cardinality(Restores(underway)) + (IF call.kind = "restore" THEN 1 ELSE 0)
               /\ \E k \in Free(underway) : Free(next) = Free(underway) \ {k}
<1> DEFINE next == With(underway, call)
<1>1. PICK k \in Free(underway) :
          /\ next = [underway EXCEPT ![k] = call]
          /\ next \in [Slots -> Call \cup {None}]
          /\ Free(next) = Free(underway) \ {k}
    BY WithTakesFree
<1>2. k \in Slots /\ underway[k] = None
    BY DEF Free
<1>3. next[k] = call /\ \A i \in Slots \ {k} : next[i] = underway[i]
    BY <1>1, <1>2
<1> HIDE DEF next
<1>4. /\ Restores(underway) \in SUBSET Slots /\ k \in Slots \ Restores(underway)
      /\ Restores(next) \in SUBSET (Restores(underway) \cup {k})
      /\ call.kind # "restore" => Restores(next) \in SUBSET Restores(underway)
    BY <1>2, <1>3 DEF Restores
<1>5. /\ Cardinality(Restores(underway) \cup {k}) = Cardinality(Restores(underway)) + 1
      /\ Cardinality(Restores(next)) <= Cardinality(Restores(underway) \cup {k})
      /\ call.kind # "restore" => Cardinality(Restores(next)) <= Cardinality(Restores(underway))
      /\ Cardinality(Restores(underway)) \in Nat
    BY <1>4, SizeOfSlots
<1>6. Cardinality(Restores(next)) <=
          Cardinality(Restores(underway)) + (IF call.kind = "restore" THEN 1 ELSE 0)
    BY <1>5
<1>7. \A i \in Slots : underway[i] # None => next[i] = underway[i]
    BY <1>2, <1>3
<1> QED
    BY <1>1, <1>2, <1>3, <1>6, <1>7 DEF next

\* The room of the restores in numbers.
LEMMA RoomIsNumber ==
    ASSUME ConsoleInv
    PROVE  /\ Unserved("restore") = Restores(calls)
           /\ Unserved("restore")' = Restores(calls')
           /\ Cardinality(Restores(calls)) \in Nat /\ Cardinality(Restores(calls')) \in Nat
           /\ revision \in Nat /\ MaxRevision \in Nat
           /\ revision + Cardinality(Restores(calls)) <= MaxRevision
<1>1. Unserved("restore") = Restores(calls) /\ Unserved("restore")' = Restores(calls')
    BY DEF Unserved, Restores
<1>2. Restores(calls) \in SUBSET Slots /\ Restores(calls') \in SUBSET Slots
    BY DEF Restores
<1>3. revision \in Nat /\ MaxRevision \in Nat
    BY ConsoleAssumption DEF ConsoleInv, TypeOK, Revisions
<1> QED
    BY <1>1, <1>2, <1>3, SizeOfSlots DEF ConsoleInv, RoomForRestores

\* A request of the operator shows busy and is its cause.
LEMMA SendStep ==
    ASSUME ConsoleInv, NEW kind, NEW about, Request(kind, about, FALSE) \in Call,
           Send(kind, about), revision' = revision,
           kind = "restore" => revision + Cardinality(Unserved("restore")) < MaxRevision
    PROVE  /\ calls' \in [Slots -> Call \cup {None}] /\ busy' = TRUE
           /\ RoomForRestores' /\ BusyHasCause'
<1> DEFINE call == Request(kind, about, FALSE)
<1>1. Free(calls) # {} /\ calls' = With(calls, call) /\ busy' = TRUE
    BY DEF Send
<1>2. calls \in [Slots -> Call \cup {None}]
    BY DEF ConsoleInv, TypeOK
<1>3. call \in Call /\ call # None /\ call.background = FALSE /\ call.kind = kind
    BY NoCallAssumption DEF Request
<1> HIDE DEF call
<1>4. /\ calls' \in [Slots -> Call \cup {None}]
      /\ \E k \in Slots : calls'[k] = call
      /\ Cardinality(Restores(calls')) <=
             Cardinality(Restores(calls)) + (IF kind = "restore" THEN 1 ELSE 0)
    BY <1>1, <1>2, <1>3, CallAdded
<1>5. revision + Cardinality(Restores(calls')) <= MaxRevision
    BY <1>4, RoomIsNumber
<1> QED
    BY <1>1, <1>3, <1>4, <1>5, RoomIsNumber DEF RoomForRestores, BusyHasCause

\* The timer's requests take slots that are free, and so no cause of busy is lost.
LEMMA TickStep == ConsoleInv /\ Tick => ConsoleInv'
<1> SUFFICES ASSUME ConsoleInv, Tick
             PROVE  ConsoleInv'
    OBVIOUS
<1> DEFINE list == Request("list", query, TRUE)
           detail == Request("detail", selected.note, TRUE)
<1>1. /\ calls \in [Slots -> Call \cup {None}] /\ query \in Queries
      /\ selected # None => selected.note \in Notes
    BY DEF ConsoleInv, TypeOK
<1>2. /\ list \in Call /\ list.kind = "list"
      /\ selected # None => detail \in Call
      /\ detail.kind = "detail"
    BY <1>1, RequestType DEF Request
<1> HIDE DEF list, detail
<1>3. /\ calls' \in [Slots -> Call \cup {None}]
      /\ \A i \in Slots : calls[i] # None => calls'[i] = calls[i]
      /\ Cardinality(Restores(calls')) <= Cardinality(Restores(calls))
  <2>1. CASE selected = None
    <3>1. Free(calls) # {} /\ calls' = With(calls, list)
      BY <2>1 DEF Tick, list
    <3>2. Cardinality(Restores(calls')) <= Cardinality(Restores(calls)) + 0
      BY <1>1, <1>2, <3>1, CallAdded
    <3> QED
      BY <1>1, <1>2, <3>1, <3>2, CallAdded, RoomIsNumber
  <2>2. CASE selected # None
    <3> DEFINE between == With(calls, list)
    <3>1. Cardinality(Free(calls)) >= 2 /\ calls' = With(between, detail)
      BY <2>2 DEF Tick, list, detail
    <3>2. Free(calls) # {} /\ Free(calls) \in SUBSET Slots /\ Cardinality(Free(calls)) \in Nat
      BY <3>1, SizeOfSlots, FS_EmptySet DEF Free
    <3>3. /\ between \in [Slots -> Call \cup {None}]
          /\ \A i \in Slots : calls[i] # None => between[i] = calls[i]
          /\ Cardinality(Restores(between)) <= Cardinality(Restores(calls)) + 0
      BY <1>1, <1>2, <3>2, CallAdded
    <3>4. PICK k \in Free(calls) : Free(between) = Free(calls) \ {k}
      BY <1>1, <1>2, <3>2, CallAdded
    <3> HIDE DEF between
    <3>5. Cardinality(Free(between)) = Cardinality(Free(calls)) - 1
      BY <3>2, <3>4, SizeOfSlots
    <3>6. Free(between) # {}
      BY <3>1, <3>2, <3>5, FS_EmptySet
    <3>7. /\ calls' \in [Slots -> Call \cup {None}]
          /\ \A i \in Slots : between[i] # None => calls'[i] = between[i]
          /\ Cardinality(Restores(calls')) <= Cardinality(Restores(between)) + 0
      BY <1>2, <2>2, <3>1, <3>3, <3>6, CallAdded
    <3>8. Cardinality(Restores(between)) \in Nat
      BY SizeOfSlots DEF Restores
    <3>9. Cardinality(Restores(calls')) <= Cardinality(Restores(calls))
      BY <3>3, <3>7, <3>8, RoomIsNumber
    <3>10. \A i \in Slots : calls[i] # None => calls'[i] = calls[i]
      BY <3>3, <3>7
    <3> QED
      BY <3>7, <3>9, <3>10
  <2> QED
    BY <2>1, <2>2
<1>4. UNCHANGED <<revision, session, view, query, page, selected, busy, failures>>
    BY DEF Tick
<1>5. TypeOK'
    BY <1>3, <1>4 DEF ConsoleInv, TypeOK
<1>6. RoomForRestores'
    BY <1>3, <1>4, RoomIsNumber DEF RoomForRestores
<1>7. BusyHasCause'
    BY <1>3, <1>4 DEF ConsoleInv, BusyHasCause
<1> QED
    BY <1>5, <1>6, <1>7 DEF ConsoleInv

\* The steps that send nothing and end nothing.
LEMMA QuietStep ==
    ASSUME ConsoleInv, Login \/ LeaveNotes \/ CloseDetail \/ Push \/ UNCHANGED vars
    PROVE  ConsoleInv'
<1>1. calls' = calls /\ (busy' = busy)
    BY DEF Login, LeaveNotes, CloseDetail, Push, vars
<1>2. revision' \in Revisions /\ revision' + Cardinality(Restores(calls')) <= MaxRevision
    BY <1>1, RoomIsNumber DEF Login, LeaveNotes, CloseDetail, Push, vars, Revisions
<1>3. TypeOK'
    BY <1>1, <1>2 DEF ConsoleInv, TypeOK, Login, LeaveNotes, CloseDetail, Push, vars
<1>4. RoomForRestores'
    BY <1>2, RoomIsNumber DEF RoomForRestores
<1>5. BusyHasCause'
    BY <1>1 DEF ConsoleInv, BusyHasCause
<1> QED
    BY <1>3, <1>4, <1>5 DEF ConsoleInv

\* The steps in which the operator asks for something.
LEMMA OperatorStep ==
    ASSUME ConsoleInv,
           \/ OpenNotes \/ Logout \/ RestoreBackup
           \/ \E q \in Queries : SetQuery(q)
           \/ \E n \in Notes : OpenNote(n)
    PROVE  ConsoleInv'
<1> DEFINE Sent == /\ calls' \in [Slots -> Call \cup {None}] /\ busy' = TRUE
                   /\ RoomForRestores' /\ BusyHasCause'
<1>1. Sent
  <2>1. query \in Queries
    BY DEF ConsoleInv, TypeOK
  <2>2. CASE OpenNotes
    <3>1. Request("list", query, FALSE) \in Call /\ Send("list", query) /\ revision' = revision
      BY <2>1, <2>2, RequestType DEF OpenNotes
    <3> QED
      BY <3>1, SendStep
  <2>3. CASE Logout
    <3>1. Request("logout", None, FALSE) \in Call /\ Send("logout", None) /\ revision' = revision
      BY <2>3, RequestType DEF Logout
    <3> QED
      BY <3>1, SendStep
  <2>4. CASE RestoreBackup
    <3>1. /\ Request("restore", query, FALSE) \in Call /\ Send("restore", query)
          /\ revision' = revision
          /\ revision + Cardinality(Unserved("restore")) < MaxRevision
      BY <2>1, <2>4, RequestType DEF RestoreBackup
    <3> QED
      BY <3>1, SendStep
  <2>5. ASSUME NEW q \in Queries, SetQuery(q)
        PROVE  Sent
    <3>1. Request("list", q, FALSE) \in Call /\ Send("list", q) /\ revision' = revision
      BY <2>5, RequestType DEF SetQuery
    <3> QED
      BY <3>1, SendStep
  <2>6. ASSUME NEW n \in Notes, OpenNote(n)
        PROVE  Sent
    <3>1. Request("detail", n, FALSE) \in Call /\ Send("detail", n) /\ revision' = revision
      BY <2>6, RequestType DEF OpenNote
    <3> QED
      BY <3>1, SendStep
  <2> QED
    BY <2>2, <2>3, <2>4, <2>5, <2>6
<1>2. UNCHANGED <<revision, session, page, selected, failures>>
    BY DEF OpenNotes, Logout, RestoreBackup, SetQuery, OpenNote
<1>3. view' \in {"overview", "notes"} /\ query' \in Queries
    BY DEF OpenNotes, Logout, RestoreBackup, SetQuery, OpenNote, ConsoleInv, TypeOK
<1>4. TypeOK'
    BY <1>1, <1>2, <1>3 DEF ConsoleInv, TypeOK
<1> QED
    BY <1>1, <1>4 DEF ConsoleInv

\* The server's answers: a restore takes the room that was kept for it.
LEMMA ServeStep ==
    ASSUME ConsoleInv, NEW i \in Slots, Serve(i) \/ ServeHistory(i)
    PROVE  ConsoleInv'
<1>1. calls \in [Slots -> Call \cup {None}] /\ calls[i] \in Call /\ calls[i] # None
    BY DEF ConsoleInv, TypeOK, Serve, ServeHistory
<1>2. UNCHANGED <<session, view, query, page, selected, busy, failures>>
    BY DEF Serve, ServeHistory
<1>3. CASE Serve(i)
  <2>1. /\ calls[i].at = None
        /\ revision' = IF calls[i].kind = "restore" THEN revision + 1 ELSE revision
        /\ calls' = [calls EXCEPT ![i].at = revision']
    BY <1>3 DEF Serve
  <2>2. /\ calls[i].kind = "restore" => i \in Restores(calls)
        /\ Restores(calls) \in SUBSET Slots
    BY <1>1, <2>1 DEF Restores
  <2>3. calls[i].kind = "restore" =>
            Cardinality(Restores(calls) \ {i}) = Cardinality(Restores(calls)) - 1
    BY <2>2, SizeOfSlots
  <2>4. Cardinality(Restores(calls) \ {i}) \in Nat
    BY <2>2, SizeOfSlots
  <2>5. revision' \in Revisions
    BY <2>1, <2>3, <2>4, RoomIsNumber DEF Revisions
  <2>6. /\ [calls[i] EXCEPT !.at = revision'] \in Call
        /\ [calls[i] EXCEPT !.at = revision'] # None
    BY <1>1, <2>5, NoCallAssumption DEF Call
  <2>7. /\ calls' \in [Slots -> Call \cup {None}]
        /\ calls'[i] = [calls[i] EXCEPT !.at = revision']
        /\ \A j \in Slots \ {i} : calls'[j] = calls[j]
    BY <1>1, <2>1, <2>6
  <2>8. calls'[i].at = revision' /\ calls'[i].background = calls[i].background
    BY <1>1, <2>7 DEF Call
  <2>9. revision' # None
    BY <2>5, ConsoleAssumption DEF Revisions
  <2>10. Restores(calls') \in SUBSET (Restores(calls) \ {i})
    BY <2>7, <2>8, <2>9 DEF Restores
  <2>11. Restores(calls) \ {i} \in SUBSET Slots
    BY <2>2
  <2>12. /\ Cardinality(Restores(calls')) <= Cardinality(Restores(calls) \ {i})
         /\ Cardinality(Restores(calls) \ {i}) <= Cardinality(Restores(calls))
    BY <2>2, <2>10, <2>11, SizeOfSlots
  <2>13. revision' + Cardinality(Restores(calls')) <= MaxRevision
    BY <2>1, <2>3, <2>4, <2>12, RoomIsNumber
  <2>14. TypeOK'
    BY <1>2, <2>5, <2>7 DEF ConsoleInv, TypeOK
  <2>15. RoomForRestores'
    BY <2>13, RoomIsNumber DEF RoomForRestores
  <2>16. BusyHasCause'
    BY <1>2, <2>6, <2>7, <2>8 DEF ConsoleInv, BusyHasCause
  <2> QED
    BY <2>14, <2>15, <2>16 DEF ConsoleInv
<1>4. CASE ServeHistory(i)
  <2>1. /\ calls[i].kind = "detail" /\ revision' = revision
        /\ calls' = [calls EXCEPT ![i].historyAt = revision]
    BY <1>4 DEF ServeHistory
  <2>2. revision \in Revisions
    BY DEF ConsoleInv, TypeOK
  <2>3. /\ [calls[i] EXCEPT !.historyAt = revision] \in Call
        /\ [calls[i] EXCEPT !.historyAt = revision] # None
    BY <1>1, <2>1, <2>2, NoCallAssumption DEF Call
  <2>4. /\ calls' \in [Slots -> Call \cup {None}]
        /\ calls'[i] = [calls[i] EXCEPT !.historyAt = revision]
        /\ \A j \in Slots \ {i} : calls'[j] = calls[j]
    BY <1>1, <2>1, <2>3
  <2>5. calls'[i].kind = "detail" /\ calls'[i].background = calls[i].background
    BY <1>1, <2>1, <2>4 DEF Call
  <2>6. Restores(calls') \in SUBSET Restores(calls) /\ Restores(calls) \in SUBSET Slots
    BY <2>4, <2>5 DEF Restores
  <2>7. Cardinality(Restores(calls')) <= Cardinality(Restores(calls))
    BY <2>6, SizeOfSlots
  <2>8. TypeOK'
    BY <1>2, <2>1, <2>4 DEF ConsoleInv, TypeOK
  <2>9. RoomForRestores'
    BY <2>1, <2>7, RoomIsNumber DEF RoomForRestores
  <2>10. BusyHasCause'
    BY <1>2, <2>3, <2>4, <2>5 DEF ConsoleInv, BusyHasCause
  <2> QED
    BY <2>8, <2>9, <2>10 DEF ConsoleInv
<1> QED
    BY <1>3, <1>4

\* A call that is over leaves busy only to another cause.
LEMMA DoneStep ==
    ASSUME ConsoleInv, NEW i \in Slots, calls[i] # None, Done(i), revision' = revision
    PROVE  /\ calls' \in [Slots -> Call \cup {None}] /\ busy' \in BOOLEAN
           /\ RoomForRestores' /\ BusyHasCause'
<1>1. calls \in [Slots -> Call \cup {None}] /\ busy \in BOOLEAN /\ calls[i] \in Call
    BY DEF ConsoleInv, TypeOK
<1>2. /\ calls' = [calls EXCEPT ![i] = None]
      /\ busy' = (busy /\ calls[i].background)
    BY DEF Done
<1>3. /\ calls' \in [Slots -> Call \cup {None}]
      /\ calls'[i] = None
      /\ \A j \in Slots \ {i} : calls'[j] = calls[j]
    BY <1>1, <1>2
<1>4. Restores(calls') \in SUBSET Restores(calls) /\ Restores(calls) \in SUBSET Slots
    BY <1>3 DEF Restores
<1>5. Cardinality(Restores(calls')) <= Cardinality(Restores(calls))
    BY <1>4, SizeOfSlots
<1>6. RoomForRestores'
    BY <1>5, RoomIsNumber DEF RoomForRestores
<1>7. BusyHasCause'
    BY <1>2, <1>3 DEF ConsoleInv, BusyHasCause
<1>8. busy' \in BOOLEAN
    BY <1>2
<1> QED
    BY <1>3, <1>6, <1>7, <1>8

\* An answer is shown, the session ends, or a request does with an error.
LEMMA AnswerStep ==
    ASSUME ConsoleInv, NEW i \in Slots,
           ShowList(i) \/ ShowDetail(i) \/ EndSession(i) \/ Fail(i)
    PROVE  ConsoleInv'
<1>1. calls[i] # None /\ calls[i] \in Call /\ Done(i) /\ revision' = revision
    BY DEF ShowList, ShowDetail, EndSession, Fail, Answered, ConsoleInv, TypeOK
<1>2. /\ calls' \in [Slots -> Call \cup {None}] /\ busy' \in BOOLEAN
      /\ RoomForRestores' /\ BusyHasCause'
    BY <1>1, DoneStep
<1>3. CASE ShowList(i)
  <2>1. calls[i].about \in Queries /\ calls[i].at \in Revisions
    BY <1>1, <1>3 DEF ShowList, Answered, Call
  <2>2. TypeOK'
    BY <1>2, <1>3, <2>1 DEF ShowList, ConsoleInv, TypeOK
  <2> QED
    BY <1>2, <2>2 DEF ConsoleInv
<1>4. CASE ShowDetail(i)
  <2>1. /\ calls[i].about \in Notes /\ calls[i].at \in Revisions
        /\ calls[i].historyAt \in Revisions
    BY <1>1, <1>4 DEF ShowDetail, Answered, Call
  <2>2. TypeOK'
    BY <1>2, <1>4, <2>1 DEF ShowDetail, ConsoleInv, TypeOK
  <2> QED
    BY <1>2, <2>2 DEF ConsoleInv
<1>5. CASE EndSession(i)
  <2>1. TypeOK'
    BY <1>2, <1>5, ConsoleAssumption DEF EndSession, ConsoleInv, TypeOK
  <2> QED
    BY <1>2, <2>1 DEF ConsoleInv
<1>6. CASE Fail(i)
  <2>1. TypeOK'
    BY <1>2, <1>6, ConsoleAssumption DEF Fail, ConsoleInv, TypeOK
  <2> QED
    BY <1>2, <2>1 DEF ConsoleInv
<1> QED
    BY <1>3, <1>4, <1>5, <1>6

\* The request that follows a restore is in the foreground as the restore was.
LEMMA ReloadStep ==
    ASSUME ConsoleInv, NEW i \in Slots, Reload(i)
    PROVE  ConsoleInv'
<1> DEFINE list == Request("list", calls[i].about, FALSE)
<1>1. /\ calls \in [Slots -> Call \cup {None}] /\ calls[i] \in Call
      /\ calls[i].kind = "restore"
    BY DEF ConsoleInv, TypeOK, Reload, Answered
<1>2. calls[i].about \in Queries
    BY <1>1 DEF Call
<1>3. list \in Call /\ list # None /\ list.background = FALSE /\ list.kind = "list"
    BY <1>2, RequestType, NoCallAssumption DEF Request
<1>4. /\ calls' = [calls EXCEPT ![i] = list]
      /\ selected' = None
      /\ UNCHANGED <<revision, session, view, query, page, busy, failures>>
    BY DEF Reload
<1> HIDE DEF list
<1>5. /\ calls' \in [Slots -> Call \cup {None}]
      /\ calls'[i] = list
      /\ \A j \in Slots \ {i} : calls'[j] = calls[j]
    BY <1>1, <1>3, <1>4
<1>6. Restores(calls') \in SUBSET Restores(calls) /\ Restores(calls) \in SUBSET Slots
    BY <1>3, <1>5 DEF Restores
<1>7. Cardinality(Restores(calls')) <= Cardinality(Restores(calls))
    BY <1>6, SizeOfSlots
<1>8. TypeOK'
    BY <1>4, <1>5 DEF ConsoleInv, TypeOK
<1>9. RoomForRestores'
    BY <1>4, <1>7, RoomIsNumber DEF RoomForRestores
<1>10. BusyHasCause'
    BY <1>3, <1>4, <1>5 DEF BusyHasCause
<1> QED
    BY <1>8, <1>9, <1>10 DEF ConsoleInv

-----------------------------------------------------------------------------
(* Theorems *)

LEMMA InitConsoleInv == Init => ConsoleInv
<1> SUFFICES ASSUME Init PROVE ConsoleInv
    OBVIOUS
<1>1. TypeOK
  <2>1. revision \in Revisions /\ failures \in 0 .. MaxFailures /\ query \in Queries
    BY ConsoleAssumption DEF Init, Revisions
  <2> QED
    BY <2>1 DEF Init, TypeOK
<1>2. Unserved("restore") = {}
    BY DEF Init, Unserved
<1>3. RoomForRestores
    BY <1>2, FS_EmptySet, ConsoleAssumption DEF Init, RoomForRestores
<1> QED
    BY <1>1, <1>3 DEF ConsoleInv, BusyHasCause, Init

LEMMA NextConsoleInv == ConsoleInv /\ [Next]_vars => ConsoleInv'
    BY QuietStep, OperatorStep, TickStep, ServeStep, AnswerStep, ReloadStep DEF Next, Deliver

\* The console's state keeps its types, whatever overlaps.
THEOREM SpecTypeOK == Spec => []TypeOK
<1>1. ConsoleInv => TypeOK
    BY DEF ConsoleInv
<1> QED
    BY <1>1, InitConsoleInv, NextConsoleInv, PTL DEF Spec

\* However many requests of the operator and of the timer overlap, in whatever order
\* they end and whichever end with an error, a button is disabled only while a
\* request the operator asked for is still under way.
THEOREM SpecBusyHasCause == Spec => []BusyHasCause
<1>1. ConsoleInv => BusyHasCause
    BY DEF ConsoleInv
<1> QED
    BY <1>1, InitConsoleInv, NextConsoleInv, PTL DEF Spec

=============================================================================
