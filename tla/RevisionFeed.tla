----------------------------- MODULE RevisionFeed -----------------------------
(***************************************************************************)
(* What the store tells those who wait for it (src/store/sync_store.rs,    *)
(* revision_events): a revision that only rises, and a watch channel that  *)
(* is told of each rise before the mutex is let go.  Module LongPoll is    *)
(* built on this; SyncStore is shown to implement it.                      *)
(***************************************************************************)
EXTENDS Naturals

CONSTANT MaxRevision  \* bound: the last revision that is committed

VARIABLES
    revision,  \* the revision of the committed database
    writer,    \* "committed": the holder of the mutex has yet to send
    value      \* the value in the watch channel

feed == <<revision, writer, value>>

Revisions == 0 .. MaxRevision

\* A push that stores something, or a restore, commits a higher revision.
FeedCommit ==
    /\ writer = "idle"
    /\ \E r \in Revisions : r > revision /\ revision' = r
    /\ writer' = "committed"
    /\ UNCHANGED value

\* revision_events.send_replace(revision), before the mutex is unlocked.
FeedSend ==
    /\ writer = "committed"
    /\ value' = revision
    /\ writer' = "idle"
    /\ UNCHANGED revision

\* The server is restarted, perhaps between a commit and its send: the new channel
\* starts at the revision in the database.
FeedOpen ==
    /\ value' = revision
    /\ writer' = "idle"
    /\ UNCHANGED revision

FeedInit == revision = 0 /\ writer = "idle" /\ value = 0

FeedSpec == FeedInit /\ [][FeedCommit \/ FeedSend \/ FeedOpen]_feed

=============================================================================
