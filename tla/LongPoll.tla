------------------------------- MODULE LongPoll -------------------------------
(***************************************************************************)
(* GET /v1/wait (src/sync_api.rs, wait_for_change): clients that sleep on  *)
(* the store's watch channel until the revision passes their cursor.       *)
(*                                                                         *)
(* Of the store only what matters here is kept: its revision, which a push *)
(* or a restore commits and then sends while it holds the mutex (module    *)
(* RevisionFeed, which SyncStore implements).  The waiting requests do not *)
(* take the mutex, so they see the moment between the commit and the send; *)
(* /v1/changes does take it.                                               *)
(* The clients are not part of the repository: they are modelled by what   *)
(* docs/protocol.md says they do with since and revision.                  *)
(***************************************************************************)
EXTENDS RevisionFeed

CONSTANTS
    Clients,      \* devices that poll
    MaxRestarts,  \* bound: times the server is restarted
    MaxDrops      \* bound: requests whose connection is lost

ASSUME BoundsAssumption ==
    MaxRevision \in Nat /\ MaxRestarts \in Nat /\ MaxDrops \in Nat

VARIABLES
    version,   \* of the watch channel: the number of sends
    request,   \* what becomes of each client's request
    seen,      \* the version each request's receiver has marked as seen
    reply,     \* the revision in the answer on its way to the client
    changed,   \* the changed flag in it
    cursor,    \* the since each client has stored
    restarts,  \* server restarts so far
    drops      \* lost connections so far

server == <<feed, version>>
clients == <<request, seen, reply, changed, cursor>>
vars == <<server, clients, restarts, drops>>

-----------------------------------------------------------------------------
(* The store *)

\* A push that stores something, or a restore.
Commit ==
    /\ FeedCommit
    /\ UNCHANGED <<version, clients, restarts, drops>>

\* Mutant of Send: the mutex is unlocked without a send.
SendNothing ==
    /\ writer = "committed"
    /\ writer' = "idle"
    /\ UNCHANGED <<revision, value, version, clients, restarts, drops>>

\* A send gives the channel's value a new version.
Send ==
    /\ FeedSend
    /\ version' = version + 1
    /\ UNCHANGED <<clients, restarts, drops>>

-----------------------------------------------------------------------------
(* wait_for_change *)

Answer(c, isChanged) ==
    /\ request' = [request EXCEPT ![c] = "answered"]
    /\ reply' = [reply EXCEPT ![c] = value]
    /\ changed' = [changed EXCEPT ![c] = isChanged]

\* Mutant of Subscribe: the receiver waits without a look at the value.
SubscribeUnread(c) ==
    /\ request[c] = "idle"
    /\ request' = [request EXCEPT ![c] = "waiting"]
    /\ seen' = [seen EXCEPT ![c] = version]
    /\ UNCHANGED <<server, reply, changed, cursor, restarts, drops>>

\* Mutant of Subscribe: a value equal to since is answered, too.
SubscribeAtSince(c) ==
    /\ request[c] = "idle"
    /\ value >= cursor[c]
    /\ Answer(c, TRUE)
    /\ UNCHANGED <<server, seen, cursor, restarts, drops>>

\* subscribe_revisions and borrow_and_update: the receiver marks the version as
\* seen when it reads the value; a value above since is answered at once.
Subscribe(c) ==
    /\ request[c] = "idle"
    /\ \/ /\ value > cursor[c]
          /\ Answer(c, TRUE)
          /\ UNCHANGED seen
       \/ /\ value <= cursor[c]
          /\ request' = [request EXCEPT ![c] = "waiting"]
          /\ seen' = [seen EXCEPT ![c] = version]
          /\ UNCHANGED <<reply, changed>>
    /\ UNCHANGED <<server, cursor, restarts, drops>>

\* revisions.changed() is ready: the timeout polls it before its own timer.
Wake(c) ==
    /\ request[c] = "waiting" /\ seen[c] # version
    /\ request' = [request EXCEPT ![c] = "woken"]
    /\ UNCHANGED <<server, seen, reply, changed, cursor, restarts, drops>>

\* Nothing was sent and the timer has run out.
Timeout(c) ==
    /\ request[c] = "waiting" /\ seen[c] = version
    /\ request' = [request EXCEPT ![c] = "timedOut"]
    /\ UNCHANGED <<server, seen, reply, changed, cursor, restarts, drops>>

\* The value is read once more, and may be newer than what woke the request.
AnswerWoken(c) ==
    /\ request[c] = "woken"
    /\ Answer(c, TRUE)
    /\ UNCHANGED <<server, seen, cursor, restarts, drops>>

AnswerTimedOut(c) ==
    /\ request[c] = "timedOut"
    /\ Answer(c, FALSE)
    /\ UNCHANGED <<server, seen, cursor, restarts, drops>>

-----------------------------------------------------------------------------
(* The clients *)

\* An answer with changed = false: the client asks again.
AskAgain(c) ==
    /\ request[c] = "answered" /\ ~changed[c]
    /\ request' = [request EXCEPT ![c] = "idle"]
    /\ UNCHANGED <<server, seen, reply, changed, cursor, restarts, drops>>

\* Mutant of Fetch: /v1/changes reads the database without the mutex.
FetchUnlocked(c) ==
    /\ request[c] = "answered" /\ changed[c]
    /\ request' = [request EXCEPT ![c] = "fetched"]
    /\ reply' = [reply EXCEPT ![c] = revision]
    /\ UNCHANGED <<server, seen, changed, cursor, restarts, drops>>

\* Otherwise it asks for /v1/changes, which waits for the mutex.
Fetch(c) ==
    /\ request[c] = "answered" /\ changed[c]
    /\ writer = "idle"
    /\ request' = [request EXCEPT ![c] = "fetched"]
    /\ reply' = [reply EXCEPT ![c] = revision]
    /\ UNCHANGED <<server, seen, changed, cursor, restarts, drops>>

\* The changes are applied, and the revision they came with is the new cursor.
Apply(c) ==
    /\ request[c] = "fetched"
    /\ cursor' = [cursor EXCEPT ![c] = reply[c]]
    /\ request' = [request EXCEPT ![c] = "idle"]
    /\ UNCHANGED <<server, seen, reply, changed, restarts, drops>>

-----------------------------------------------------------------------------
(* Failures *)

\* The connection is lost, and with it the request or its answer.
Drop(c) ==
    /\ request[c] # "idle" /\ drops < MaxDrops
    /\ drops' = drops + 1
    /\ request' = [request EXCEPT ![c] = "idle"]
    /\ UNCHANGED <<server, seen, reply, changed, cursor, restarts>>

\* Mutant of Restart: the channel starts at the revision that is next.
RestartAtNext ==
    /\ restarts < MaxRestarts
    /\ restarts' = restarts + 1
    /\ writer' = "idle"
    /\ value' = revision + 1
    /\ version' = 0
    /\ request' = [c \in Clients |-> "idle"]
    /\ UNCHANGED <<revision, seen, reply, changed, cursor, drops>>

\* The server is restarted, perhaps between a commit and its send.  The new
\* channel starts at the revision in the database (SyncStore, Open).
Restart ==
    /\ restarts < MaxRestarts
    /\ restarts' = restarts + 1
    /\ FeedOpen
    /\ version' = 0
    /\ request' = [c \in Clients |-> "idle"]
    /\ UNCHANGED <<seen, reply, changed, cursor, drops>>

-----------------------------------------------------------------------------

Init ==
    /\ FeedInit
    /\ version = 0
    /\ request = [c \in Clients |-> "idle"]
    /\ seen = [c \in Clients |-> 0]
    /\ reply = [c \in Clients |-> 0]
    /\ changed = [c \in Clients |-> FALSE]
    /\ cursor = [c \in Clients |-> 0]
    /\ restarts = 0
    /\ drops = 0

Handler(c) == Subscribe(c) \/ Wake(c) \/ AnswerWoken(c) \/ AnswerTimedOut(c)

Client(c) == AskAgain(c) \/ Fetch(c) \/ Apply(c)

Next ==
    \/ Commit \/ Send \/ Restart
    \/ \E c \in Clients : Handler(c) \/ Timeout(c) \/ Client(c) \/ Drop(c)

Spec == Init /\ [][Next]_vars

\* The holder of the mutex runs to its end, a woken task is polled, and a client
\* keeps polling.  Nothing is asked of the timer: no wakeup may depend on it.
FairSpec ==
    /\ Spec
    /\ WF_vars(Send)
    /\ \A c \in Clients : WF_vars(Handler(c)) /\ WF_vars(Client(c))

-----------------------------------------------------------------------------
(* Properties *)

\* Every variable has the type of the source's value.
TypeOK ==
    /\ revision \in Revisions
    /\ writer \in {"idle", "committed"}
    /\ value \in Revisions
    /\ version \in Nat
    /\ request \in [Clients -> {"idle", "waiting", "woken", "timedOut", "answered", "fetched"}]
    /\ seen \in [Clients -> Nat]
    /\ reply \in [Clients -> Revisions]
    /\ changed \in [Clients -> BOOLEAN]
    /\ cursor \in [Clients -> Revisions]
    /\ restarts \in 0 .. MaxRestarts
    /\ drops \in 0 .. MaxDrops

\* No request sleeps through a change: one that has nothing left to wake it has
\* a cursor that covers all that was sent (the check of src/sync_api.rs:88-94
\* and the subscription are of the same value).
NoSleepThroughChange ==
    \A c \in Clients :
        request[c] = "waiting" /\ seen[c] = version => value <= cursor[c]

\* A client told that something changed finds something when it fetches, also if
\* it was woken by one change and answered with the revision of a later one.
ChangedMeansNewer ==
    \A c \in Clients :
        request[c] = "answered" /\ changed[c] => cursor[c] < reply[c] /\ reply[c] <= revision

\* No client stores a cursor above what was sent, which the next wait would take
\* for nothing new: /v1/changes cannot read between a commit and its send.
CursorsWereSent == \A c \in Clients : cursor[c] <= value

\* Why these hold: the channel lags behind the database only between a commit and
\* its send, a request that can be woken has something to be woken for, and every
\* revision on its way to a client was sent (borrow_and_update reads the value and
\* the version together, src/sync_api.rs:87 and 97).
InStep ==
    /\ IF writer = "committed" THEN value < revision ELSE value = revision
    /\ \A c \in Clients :
           /\ request[c] = "waiting" =>
                  /\ seen[c] <= version
                  /\ seen[c] # version => cursor[c] < value
           /\ request[c] = "woken" => cursor[c] < value
           /\ request[c] \in {"answered", "fetched"} => reply[c] <= value

\* Every change reaches every client that keeps polling, without the help of a
\* timeout, whichever requests are lost and wherever the server is restarted.
CursorsCatchUp ==
    \A c \in Clients : \A r \in Revisions : (revision >= r) ~> (cursor[c] >= r)

=============================================================================
