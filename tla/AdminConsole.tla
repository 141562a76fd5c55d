----------------------------- MODULE AdminConsole -----------------------------
(***************************************************************************)
(* The notes view of the console in the browser                            *)
(* (admin-ui/src/App.tsx) and the endpoints it reads: requests overlap,    *)
(* answers are applied in the order in which they arrive, and a timer asks *)
(* again while the view is open.                                           *)
(*                                                                         *)
(* Between two changes of the store its answers are the same, so an answer *)
(* is the revision it was read at; pushes and restores raise it            *)
(* (SyncStore).  The other views keep data of their own, left out here.    *)
(***************************************************************************)
EXTENDS Naturals, FiniteSets, FiniteSetsExt

CONSTANTS
    Notes,         \* ids of notes an operator may open
    Queries,       \* what the filters of the list may be set to
    DefaultQuery,  \* the filters of a new console
    None,          \* null, no answer yet, no request
    MaxRevision,   \* bound: changes of the store
    MaxCalls,      \* bound: requests under way
    MaxFailures    \* bound: requests that end with an error

ASSUME ConsoleAssumption ==
    /\ DefaultQuery \in Queries
    /\ None \notin Notes \cup Queries \cup Nat
    /\ MaxRevision \in Nat /\ MaxCalls \in Nat \ {0} /\ MaxFailures \in Nat

VARIABLES
    revision,  \* of the store
    session,   \* session.authenticated
    view,      \* activeView
    query,     \* notesQuery
    page,      \* notesPage: the query it was asked with, and when it was read
    selected,  \* selectedNote and selectedHistory, and when each was read
    busy,      \* busy, which disables buttons
    calls,     \* the requests under way
    failures   \* requests that have ended with an error

vars == <<revision, session, view, query, page, selected, busy, calls, failures>>

Slots == 1 .. MaxCalls

Revisions == 0 .. MaxRevision

\* at: when the answer was read; historyAt: the second of the two requests of
\* loadNoteDetail; background: not to show in busy.
Call ==
    [kind: {"list", "restore"}, about: Queries, background: BOOLEAN,
     at: Revisions \cup {None}, historyAt: {None}]
    \cup [kind: {"detail"}, about: Notes, background: BOOLEAN,
          at: Revisions \cup {None}, historyAt: Revisions \cup {None}]
    \cup [kind: {"logout"}, about: {None}, background: {FALSE},
          at: Revisions \cup {None}, historyAt: {None}]

\* Nor is a request.
ASSUME NoCallAssumption == None \notin Call

-----------------------------------------------------------------------------
(* Requests *)

Request(kind, about, background) ==
    [kind |-> kind, about |-> about, background |-> background, at |-> None, historyAt |-> None]

Free(underway) == {i \in Slots : underway[i] = None}

With(underway, call) == [underway EXCEPT ![Min(Free(underway))] = call]

\* The button or the effect that asks shows busy until some foreground answer.
Send(kind, about) ==
    /\ Free(calls) # {}
    /\ calls' = With(calls, Request(kind, about, FALSE))
    /\ busy' = TRUE

Unserved(kind) == {i \in Slots : calls[i] # None /\ calls[i].kind = kind /\ calls[i].at = None}

-----------------------------------------------------------------------------
(* The operator *)

\* handleAuthSubmit, at its answer; the session is new, and so is the view.
Login ==
    /\ ~session /\ ~busy
    /\ session' = TRUE
    /\ view' = "overview"
    /\ UNCHANGED <<revision, query, page, selected, busy, calls, failures>>

OpenNotes ==
    /\ session /\ view # "notes"
    /\ view' = "notes"
    /\ Send("list", query)
    /\ UNCHANGED <<revision, session, query, page, selected, failures>>

LeaveNotes ==
    /\ session /\ view = "notes"
    /\ view' = "overview"
    /\ UNCHANGED <<revision, session, query, page, selected, busy, calls, failures>>

\* onQueryChange: the effect on notesQuery loads the list, busy or not.
SetQuery(q) ==
    /\ session /\ view = "notes"
    /\ q # query
    /\ query' = q
    /\ Send("list", q)
    /\ UNCHANGED <<revision, session, view, page, selected, failures>>

OpenNote(n) ==
    /\ session /\ view = "notes" /\ page # None
    /\ Send("detail", n)
    /\ UNCHANGED <<revision, session, view, query, page, selected, failures>>

CloseDetail ==
    /\ session /\ view = "notes"
    /\ selected # None
    /\ selected' = None
    /\ UNCHANGED <<revision, session, view, query, page, busy, calls, failures>>

Logout ==
    /\ session /\ ~busy
    /\ Send("logout", None)
    /\ UNCHANGED <<revision, session, view, query, page, selected, failures>>

\* restoreBackup in the maintenance view; it will ask again for the list with the
\* query of this moment.
RestoreBackup ==
    /\ session /\ view # "notes" /\ ~busy
    /\ revision + Cardinality(Unserved("restore")) < MaxRevision
    /\ Send("restore", query)
    /\ UNCHANGED <<revision, session, view, query, page, selected, failures>>

-----------------------------------------------------------------------------
(* The timer of the notes view *)

\* Mutant of Tick: the timer keeps the query with which the view was opened.
TickWithDefault ==
    /\ session /\ view = "notes"
    /\ Free(calls) # {}
    /\ calls' = With(calls, Request("list", DefaultQuery, TRUE))
    /\ UNCHANGED <<revision, session, view, query, page, selected, busy, failures>>

\* Mutant of Tick: the list alone is refreshed.
TickListOnly ==
    /\ session /\ view = "notes"
    /\ Free(calls) # {}
    /\ calls' = With(calls, Request("list", query, TRUE))
    /\ UNCHANGED <<revision, session, view, query, page, selected, busy, failures>>

\* setInterval: the list, and the note that is open.
Tick ==
    /\ session /\ view = "notes"
    /\ LET list == Request("list", query, TRUE)
       IN  IF selected = None
           THEN Free(calls) # {} /\ calls' = With(calls, list)
           ELSE /\ Cardinality(Free(calls)) >= 2
                /\ calls' = With(With(calls, list), Request("detail", selected.note, TRUE))
    /\ UNCHANGED <<revision, session, view, query, page, selected, busy, failures>>

-----------------------------------------------------------------------------
(* The server *)

\* A device pushes.
Push ==
    /\ revision + Cardinality(Unserved("restore")) < MaxRevision
    /\ revision' = revision + 1
    /\ UNCHANGED <<session, view, query, page, selected, busy, calls, failures>>

\* A request is handled: a read under the store's mutex, or a restore.
Serve(i) ==
    /\ calls[i] # None /\ calls[i].at = None
    /\ revision' = IF calls[i].kind = "restore" THEN revision + 1 ELSE revision
    /\ calls' = [calls EXCEPT ![i].at = revision']
    /\ UNCHANGED <<session, view, query, page, selected, busy, failures>>

ServeHistory(i) ==
    /\ calls[i] # None /\ calls[i].kind = "detail" /\ calls[i].historyAt = None
    /\ calls' = [calls EXCEPT ![i].historyAt = revision]
    /\ UNCHANGED <<revision, session, view, query, page, selected, busy, failures>>

-----------------------------------------------------------------------------
(* The answers *)

Answered(i, kind) ==
    /\ calls[i] # None /\ calls[i].kind = kind /\ calls[i].at # None
    /\ kind = "detail" => calls[i].historyAt # None

\* The call is over; a foreground one ends busy, also that of another.
Done(i) ==
    /\ calls' = [calls EXCEPT ![i] = None]
    /\ busy' = (busy /\ calls[i].background)

ShowList(i) ==
    /\ Answered(i, "list")
    /\ page' = [query |-> calls[i].about, at |-> calls[i].at]
    /\ Done(i)
    /\ UNCHANGED <<revision, session, view, query, selected, failures>>

ShowDetail(i) ==
    /\ Answered(i, "detail")
    /\ selected' = [note |-> calls[i].about, at |-> calls[i].at, historyAt |-> calls[i].historyAt]
    /\ Done(i)
    /\ UNCHANGED <<revision, session, view, query, page, failures>>

\* Mutant of EndSession: the filters are cleared like the data.
EndSessionNoQuery(i) ==
    /\ Answered(i, "logout")
    /\ session' = FALSE
    /\ view' = "overview"
    /\ query' = None
    /\ page' = None
    /\ selected' = None
    /\ Done(i)
    /\ UNCHANGED <<revision, failures>>

\* setSession and clearAuthenticatedState
EndSession(i) ==
    /\ Answered(i, "logout")
    /\ session' = FALSE
    /\ view' = "overview"
    /\ query' = DefaultQuery
    /\ page' = None
    /\ selected' = None
    /\ Done(i)
    /\ UNCHANGED <<revision, failures>>

\* The second half of restoreBackup: it closes the note and asks for the list.
Reload(i) ==
    /\ Answered(i, "restore")
    /\ selected' = None
    /\ calls' = [calls EXCEPT ![i] = Request("list", calls[i].about, FALSE)]
    /\ UNCHANGED <<revision, session, view, query, page, busy, failures>>

\* Mutant of Fail: busy is set back after a success alone.
FailBusy(i) ==
    /\ calls[i] # None
    /\ failures < MaxFailures
    /\ failures' = failures + 1
    /\ calls' = [calls EXCEPT ![i] = None]
    /\ UNCHANGED <<revision, session, view, query, page, selected, busy>>

\* A request ends with an error, which the timer's do not even show.
Fail(i) ==
    /\ calls[i] # None
    /\ failures < MaxFailures
    /\ failures' = failures + 1
    /\ Done(i)
    /\ UNCHANGED <<revision, session, view, query, page, selected>>

-----------------------------------------------------------------------------

Init ==
    /\ revision = 0
    /\ session = FALSE
    /\ view = "overview"
    /\ query = DefaultQuery
    /\ page = None
    /\ selected = None
    /\ busy = FALSE
    /\ calls = [i \in Slots |-> None]
    /\ failures = 0

Deliver(i) == ShowList(i) \/ ShowDetail(i) \/ EndSession(i) \/ Reload(i)

Next ==
    \/ Login \/ OpenNotes \/ LeaveNotes \/ CloseDetail \/ Logout \/ RestoreBackup
    \/ \E q \in Queries : SetQuery(q)
    \/ \E n \in Notes : OpenNote(n)
    \/ Tick
    \/ Push
    \/ \E i \in Slots : Serve(i) \/ ServeHistory(i) \/ Deliver(i) \/ Fail(i)

\* Every request is answered, and the timer goes on: it does not wait for answers,
\* only this module's bound on the requests under way stops it for a while.
Fairness ==
    /\ \A i \in Slots : WF_vars(Serve(i)) /\ WF_vars(ServeHistory(i)) /\ WF_vars(Deliver(i))
    /\ SF_vars(Tick)

Spec == Init /\ [][Next]_vars /\ Fairness

-----------------------------------------------------------------------------

\* Every variable has the type of its React state, and every request its shape.
TypeOK ==
    /\ revision \in Revisions
    /\ session \in BOOLEAN
    /\ view \in {"overview", "notes"}
    /\ query \in Queries
    /\ page \in {None} \cup [query: Queries, at: Revisions]
    /\ selected \in {None} \cup [note: Notes, at: Revisions, historyAt: Revisions]
    /\ busy \in BOOLEAN
    /\ calls \in [Slots -> Call \cup {None}]
    /\ failures \in 0 .. MaxFailures

\* A button is disabled only for a request the operator has asked for and that is
\* still under way: each of the overlapping requests that ends sets busy back, and
\* none is lost (App.tsx:140-454).  That it ends, too, is BusyEnds.
BusyHasCause == busy => \E i \in Slots : calls[i] # None /\ ~calls[i].background

\* The restores under way fit below the bound.
RoomForRestores == revision + Cardinality(Unserved("restore")) <= MaxRevision

OnNotes == session /\ view = "notes"

\* In the end the operator does nothing more and the store does not change.
Settles ==
    <>[][Tick \/ \E i \in Slots : Serve(i) \/ ServeHistory(i) \/ Deliver(i)]_vars

\* The list follows the filters and the store: whatever answers of earlier queries,
\* of the time before a restore or of an ended session are still to come, and
\* though a request fails, an operator who stays with one query is in the end
\* shown what the store holds for that query (App.tsx:96-137 and 204-228).
ListFollowsStore ==
    Settles =>
        \A q \in Queries, r \in Revisions :
            <>[](OnNotes /\ query = q /\ revision = r) => <>[](page = [query |-> q, at |-> r])

\* So does a note that is left open: its text and its history are in the end both
\* those of the store (App.tsx:127-131 and 235-256).
DetailFollowsStore ==
    Settles =>
        \A n \in Notes, r \in Revisions :
            <>[](OnNotes /\ revision = r /\ selected # None /\ selected.note = n)
                => <>[](selected = [note |-> n, at |-> r, historyAt |-> r])

\* The buttons do not stay disabled: every path of every overlapping request sets
\* busy back (App.tsx:140-454).
BusyEnds == busy ~> ~busy

=============================================================================
