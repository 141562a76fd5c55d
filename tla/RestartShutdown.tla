---------------------------- MODULE RestartShutdown ----------------------------
(***************************************************************************)
(* A restart asked for in the console (src/main.rs, serve;                 *)
(* src/admin_api.rs, RestartHandle).                                       *)
(*                                                                         *)
(* Each listener runs in a task of its own.  Beside it a task waits for    *)
(* the restart: it reads a flag and then registers with a Notify.  The     *)
(* handler of the request sets the flag and then notifies whoever has      *)
(* registered.  A listener that has been notified accepts no more          *)
(* requests, lets the open ones finish (a long poll may take its time) and *)
(* ends; when all have ended, the process exits, and a supervisor starts   *)
(* the next one.                                                           *)
(*                                                                         *)
(* axum::serve and tokio::sync::Notify are modelled from how serve uses    *)
(* them.                                                                   *)
(***************************************************************************)
EXTENDS Naturals, FiniteSets

CONSTANTS
    Listeners,      \* one for each address of sync_listen and admin_listen
    AdminListeners, \* those that serve the console
    Clients,        \* each has at most one request open
    MaxFailures     \* bound: listener tasks that end with an error

ASSUME ListenersAssumption == Listeners # {} /\ AdminListeners \subseteq Listeners
ASSUME BoundsAssumption == MaxFailures \in Nat

VARIABLES
    requested, \* RestartHandle::requested
    listener,  \* of each listener: how far its two tasks are
    request,   \* of each client: its request
    exit,      \* "no", or how the process has ended: "restart", "error"
    failures,  \* listener tasks that have failed
    missed     \* history: those the last notification found unregistered

vars == <<requested, listener, request, exit, failures, missed>>

\* Before its restart task has read the flag, has found it unset, has
\* registered, is done; then the listener closes its socket, ends, is joined.
Waiting == {"new", "unset", "registered"}
Accepting == Waiting \cup {"notified"}
ListenerStates == Accepting \cup {"draining", "ended", "joined", "failed"}

Idle == [at |-> "none", doing |-> "nothing"]

\* A long poll or another request, or the steps of restart_service.
Steps == {"serving", "asked", "flagged", "answering"}

Requests == {Idle} \cup [at : Listeners, doing : Steps]

-----------------------------------------------------------------------------
(* Requests *)

\* A client is accepted by a listener, and asks for a restart or not.
Accept(c, l) ==
    /\ exit = "no" /\ request[c] = Idle
    /\ listener[l] \in Accepting
    /\ \E step \in {"serving"} \cup IF l \in AdminListeners THEN {"asked"} ELSE {} :
           request' = [request EXCEPT ![c] = [at |-> l, doing |-> step]]
    /\ UNCHANGED <<requested, listener, exit, failures, missed>>

\* Mutant of SetFlag: request_restart only notifies.
SetFlagForgotten(c) ==
    /\ exit = "no" /\ request[c].doing = "asked"
    /\ request' = [request EXCEPT ![c].doing = "flagged"]
    /\ UNCHANGED <<requested, listener, exit, failures, missed>>

\* request_restart stores the flag ...
SetFlag(c) ==
    /\ exit = "no" /\ request[c].doing = "asked"
    /\ requested' = TRUE
    /\ request' = [request EXCEPT ![c].doing = "flagged"]
    /\ UNCHANGED <<listener, exit, failures, missed>>

\* Mutant of Notify: notify_one.
NotifyOne(c) ==
    /\ exit = "no" /\ request[c].doing = "flagged"
    /\ request' = [request EXCEPT ![c].doing = "answering"]
    /\ listener' \in {[listener EXCEPT ![l] = "notified"] :
                         l \in {k \in Listeners : listener[k] = "registered"}}
                     \cup IF \A k \in Listeners : listener[k] # "registered"
                          THEN {listener} ELSE {}
    /\ missed' = {l \in Listeners : listener[l] = "unset"}
    /\ UNCHANGED <<requested, exit, failures>>

\* ... and wakes all that have registered; it leaves no permit for the others.
Notify(c) ==
    /\ exit = "no" /\ request[c].doing = "flagged"
    /\ request' = [request EXCEPT ![c].doing = "answering"]
    /\ listener' = [l \in Listeners |->
                       IF listener[l] = "registered" THEN "notified" ELSE listener[l]]
    /\ missed' = {l \in Listeners : listener[l] = "unset"}
    /\ UNCHANGED <<requested, exit, failures>>

\* Mutant of Answer: the connection is never let go.
AnswerHeld(c) ==
    /\ exit = "no" /\ request[c].doing \in {"serving", "answering"}
    /\ request' = [request EXCEPT ![c].at = "none"]
    /\ UNCHANGED <<requested, listener, exit, failures, missed>>

\* A handler is done; the timer of a long poll sees to it that it is, too.
Answer(c) ==
    /\ exit = "no" /\ request[c].doing \in {"serving", "answering"}
    /\ request' = [request EXCEPT ![c] = Idle]
    /\ UNCHANGED <<requested, listener, exit, failures, missed>>

-----------------------------------------------------------------------------
(* Listeners *)

\* wait_for_restart: is_requested is read ...
ReadFlag(l) ==
    /\ exit = "no" /\ listener[l] = "new"
    /\ listener' = [listener EXCEPT ![l] = IF requested THEN "notified" ELSE "unset"]
    /\ UNCHANGED <<requested, request, exit, failures, missed>>

\* ... and notified() is called.
Register(l) ==
    /\ exit = "no" /\ listener[l] = "unset"
    /\ listener' = [listener EXCEPT ![l] = "registered"]
    /\ UNCHANGED <<requested, request, exit, failures, missed>>

\* with_graceful_shutdown: the socket is closed ...
Drain(l) ==
    /\ exit = "no" /\ listener[l] = "notified"
    /\ listener' = [listener EXCEPT ![l] = "draining"]
    /\ UNCHANGED <<requested, request, exit, failures, missed>>

\* ... and the task ends when the last connection is closed.
End(l) ==
    /\ exit = "no" /\ listener[l] = "draining"
    /\ \A c \in Clients : request[c].at # l
    /\ listener' = [listener EXCEPT ![l] = "ended"]
    /\ UNCHANGED <<requested, request, exit, failures, missed>>

\* A listener's task ends with an error or a panic.
Fail(l) ==
    /\ exit = "no" /\ listener[l] \in Accepting \cup {"draining"}
    /\ failures < MaxFailures
    /\ failures' = failures + 1
    /\ listener' = [listener EXCEPT ![l] = "failed"]
    /\ UNCHANGED <<requested, request, exit, missed>>

-----------------------------------------------------------------------------
(* The loop over the JoinSet in serve *)

\* Mutant of Join: the loop is left with the first listener that has ended.
JoinFirst(l) ==
    /\ exit = "no" /\ listener[l] \in {"ended", "failed"}
    /\ listener' = [listener EXCEPT ![l] = "joined"]
    /\ exit' = IF listener[l] = "failed" \/ ~requested THEN "error" ELSE "restart"
    /\ UNCHANGED <<requested, request, failures, missed>>

\* Mutant of Join: the result of a task is not looked at.
JoinAny(l) ==
    /\ exit = "no" /\ listener[l] \in {"ended", "failed"}
    /\ listener' = [listener EXCEPT ![l] = "joined"]
    /\ UNCHANGED <<requested, request, exit, failures, missed>>

\* A task's error, or its end without a restart, ends the process.
Join(l) ==
    /\ exit = "no" /\ listener[l] \in {"ended", "failed"}
    /\ listener' = [listener EXCEPT ![l] = "joined"]
    /\ exit' = IF listener[l] = "failed" \/ ~requested THEN "error" ELSE "no"
    /\ UNCHANGED <<requested, request, failures, missed>>

\* The JoinSet is empty.
Exit ==
    /\ exit = "no" /\ \A l \in Listeners : listener[l] = "joined"
    /\ exit' = IF requested THEN "restart" ELSE "error"
    /\ UNCHANGED <<requested, listener, request, failures, missed>>

Exited == exit # "no" /\ UNCHANGED vars

-----------------------------------------------------------------------------

Init ==
    /\ requested = FALSE
    /\ listener = [l \in Listeners |-> "new"]
    /\ request = [c \in Clients |-> Idle]
    /\ exit = "no"
    /\ failures = 0
    /\ missed = {}

Handler(c) == SetFlag(c) \/ Notify(c) \/ Answer(c)

Task(l) == ReadFlag(l) \/ Register(l) \/ Drain(l) \/ End(l) \/ Join(l)

Next ==
    \/ \E c \in Clients, l \in Listeners : Accept(c, l)
    \/ \E c \in Clients : Handler(c)
    \/ \E l \in Listeners : Task(l) \/ Fail(l)
    \/ Exit
    \/ Exited

Spec == Init /\ [][Next]_vars

\* The runtime polls every task that can go on, and every handler ends.
FairSpec ==
    /\ Spec
    /\ \A c \in Clients : WF_vars(Handler(c))
    /\ \A l \in Listeners : WF_vars(Task(l))
    /\ WF_vars(Exit)

-----------------------------------------------------------------------------
(* Properties *)

\* Every variable has the type of the source's value.
TypeOK ==
    /\ requested \in BOOLEAN
    /\ listener \in [Listeners -> ListenerStates]
    /\ request \in [Clients -> Requests]
    /\ exit \in {"no", "restart", "error"}
    /\ failures \in 0 .. MaxFailures
    /\ missed \subseteq Listeners

\* The process exits for a restart only if someone asked for one, every listener
\* ended without an error, and no request was cut off: the answer of the request
\* that asked for it, and every long poll, was sent ("优雅退出",
\* docs/deployment.md:271-272).
ExitIsGraceful ==
    exit = "restart" =>
        /\ requested
        /\ failures = 0
        /\ \A c \in Clients : request[c] = Idle

\* Once request_restart is through, no listener sleeps but one that was between
\* its check of the flag and its registration at that moment.
NoLostWakeup ==
    requested /\ (\A c \in Clients : request[c].doing # "flagged")
        => \A l \in Listeners : listener[l] \in {"unset", "registered"} => l \in missed

\* A restart that was asked for happens, unless a listener fails or has missed it.
RestartHappens ==
    (\E c \in Clients : request[c].doing = "asked")
        ~> (exit = "restart" \/ failures > 0 \/ missed # {})

\* A restart that was asked for ends the process (docs/deployment.md:271-272).
RestartAlwaysHappens == (\E c \in Clients : request[c].doing = "asked") ~> exit # "no"

\* The process does not live on with a listener missing: the supervisor must see
\* its end (src/main.rs:263-268).
FailureEnds == (\E l \in Listeners : listener[l] = "failed") ~> exit = "error"

=============================================================================
