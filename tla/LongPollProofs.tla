---------------------------- MODULE LongPollProofs ----------------------------
(***************************************************************************)
(* Proofs about module LongPoll: its safety properties hold for any        *)
(* clients and any bounds.                                                 *)
(***************************************************************************)
EXTENDS LongPoll, TLAPS

\* The inductive invariant: InStep is the strengthening of the other three.
Inv == TypeOK /\ InStep /\ NoSleepThroughChange /\ ChangedMeansNewer /\ CursorsWereSent

\* The first start: nothing was committed, sent or asked for.
LEMMA InitInv == Init => Inv
BY BoundsAssumption
   DEF Init, FeedInit, Inv, TypeOK, Revisions, InStep, NoSleepThroughChange, ChangedMeansNewer,
       CursorsWereSent

\* A commit and its send: only the send moves the channel, and upwards.
LEMMA StoreStep == Inv /\ (Commit \/ Send) => Inv'
<1> SUFFICES ASSUME Inv, Commit \/ Send PROVE Inv'
    OBVIOUS
<1> USE DEF Inv, TypeOK, Revisions, server, feed, clients
<1>1. CASE Commit
    BY <1>1, BoundsAssumption
    DEF Commit, FeedCommit, InStep, NoSleepThroughChange, ChangedMeansNewer, CursorsWereSent
<1>2. CASE Send
    BY <1>2, BoundsAssumption
    DEF Send, FeedSend, InStep, NoSleepThroughChange, ChangedMeansNewer, CursorsWereSent
<1> QED
    BY <1>1, <1>2

\* An answer has the types of its fields.
LEMMA AnswerType ==
    ASSUME TypeOK, NEW c \in Clients, NEW isChanged \in BOOLEAN, Answer(c, isChanged)
    PROVE  /\ request' \in
                  [Clients -> {"idle", "waiting", "woken", "timedOut", "answered", "fetched"}]
           /\ reply' \in [Clients -> Revisions]
           /\ changed' \in [Clients -> BOOLEAN]
<1> USE DEF Answer, TypeOK
<1>1. request' \in [Clients -> {"idle", "waiting", "woken", "timedOut", "answered", "fetched"}]
    OBVIOUS
<1>2. reply' \in [Clients -> Revisions]
    OBVIOUS
<1>3. changed' \in [Clients -> BOOLEAN]
    OBVIOUS
<1> QED
    BY <1>1, <1>2, <1>3

\* A request that subscribes is answered, or waits with the version it has seen.
LEMMA SubscribeType == ASSUME TypeOK, NEW c \in Clients, Subscribe(c) PROVE TypeOK'
<1>1. /\ request' \in
             [Clients -> {"idle", "waiting", "woken", "timedOut", "answered", "fetched"}]
      /\ reply' \in [Clients -> Revisions]
      /\ changed' \in [Clients -> BOOLEAN]
  <2>1. CASE \E isChanged \in BOOLEAN : Answer(c, isChanged)
    BY <2>1, AnswerType
  <2>2. CASE /\ request' = [request EXCEPT ![c] = "waiting"]
             /\ UNCHANGED <<reply, changed>>
    BY <2>2 DEF TypeOK
  <2> QED
    BY <2>1, <2>2 DEF Subscribe
<1>2. /\ seen' \in [Clients -> Nat]
      /\ UNCHANGED <<server, cursor, restarts, drops>>
    BY DEF Subscribe, TypeOK
<1> QED
    BY <1>1, <1>2 DEF TypeOK, server, feed

\* A request subscribes, is woken or times out, and is answered.
LEMMA HandlerStep ==
    ASSUME Inv, NEW c \in Clients, Handler(c) \/ Timeout(c)
    PROVE  Inv'
<1> USE DEF Inv, TypeOK, Revisions, server, feed, clients
<1>1. CASE Subscribe(c)
  <2>1. TypeOK'
      BY <1>1, SubscribeType
  <2> USE DEF Subscribe, Answer
  <2>2. CASE value > cursor[c]
      BY <1>1, <2>1, <2>2, BoundsAssumption
      DEF InStep, NoSleepThroughChange, ChangedMeansNewer, CursorsWereSent
  <2>3. CASE value <= cursor[c]
      BY <1>1, <2>1, <2>3, BoundsAssumption
      DEF InStep, NoSleepThroughChange, ChangedMeansNewer, CursorsWereSent
  <2> QED
      BY <1>1, <2>2, <2>3
<1>2. CASE Wake(c)
  <2>1. TypeOK' /\ cursor[c] < value
      BY <1>2 DEF Wake, InStep
  <2>2. InStep'
      BY <1>2, <2>1 DEF Wake, InStep
  <2> QED
      BY <1>2, <2>1, <2>2 DEF Wake, NoSleepThroughChange, ChangedMeansNewer, CursorsWereSent
<1>3. CASE AnswerWoken(c) \/ AnswerTimedOut(c)
  <2>1. TypeOK'
      BY <1>3, AnswerType DEF AnswerWoken, AnswerTimedOut
  <2> USE DEF AnswerWoken, AnswerTimedOut, Answer
  <2>2. InStep' /\ value <= revision
      BY <1>3, <2>1 DEF InStep
  <2>3. ChangedMeansNewer'
      BY <1>3, <2>1, <2>2 DEF InStep, ChangedMeansNewer
  <2> QED
      BY <1>3, <2>1, <2>2, <2>3 DEF NoSleepThroughChange, CursorsWereSent
<1>4. CASE Timeout(c)
    BY <1>4, BoundsAssumption
    DEF Timeout, InStep, NoSleepThroughChange, ChangedMeansNewer, CursorsWereSent
<1> QED
    BY <1>1, <1>2, <1>3, <1>4 DEF Handler

\* A client asks again, fetches or applies what it fetched.
LEMMA ClientStep ==
    ASSUME Inv, NEW c \in Clients, Client(c)
    PROVE  Inv'
<1> USE DEF Inv, TypeOK, Revisions, server, feed, clients
<1>1. CASE AskAgain(c)
    BY <1>1, BoundsAssumption
    DEF AskAgain, InStep, NoSleepThroughChange, ChangedMeansNewer, CursorsWereSent
<1>2. CASE Fetch(c)
    BY <1>2, BoundsAssumption
    DEF Fetch, InStep, NoSleepThroughChange, ChangedMeansNewer, CursorsWereSent
<1>3. CASE Apply(c)
    BY <1>3, BoundsAssumption
    DEF Apply, InStep, NoSleepThroughChange, ChangedMeansNewer, CursorsWereSent
<1> QED
    BY <1>1, <1>2, <1>3 DEF Client

\* A lost connection and a restart leave no request behind.
LEMMA FailureStep ==
    ASSUME Inv, Restart \/ \E c \in Clients : Drop(c)
    PROVE  Inv'
<1> USE DEF Inv, TypeOK, Revisions, server, feed, clients
<1>1. CASE Restart
    BY <1>1, BoundsAssumption
    DEF Restart, FeedOpen, InStep, NoSleepThroughChange, ChangedMeansNewer, CursorsWereSent
<1>2. ASSUME NEW c \in Clients, Drop(c) PROVE Inv'
    BY <1>2, BoundsAssumption
    DEF Drop, InStep, NoSleepThroughChange, ChangedMeansNewer, CursorsWereSent
<1> QED
    BY <1>1, <1>2

\* Every step preserves the invariant.
LEMMA NextInv == Inv /\ [Next]_vars => Inv'
<1>1. Inv /\ UNCHANGED vars => Inv'
    BY DEF vars, server, feed, clients, Inv, TypeOK, InStep, NoSleepThroughChange, ChangedMeansNewer,
           CursorsWereSent
<1> QED
    BY <1>1, StoreStep, HandlerStep, ClientStep, FailureStep DEF Next

\* The invariant holds throughout.
THEOREM SpecInv == Spec => []Inv
BY InitInv, NextInv, PTL DEF Spec

\* Every variable has its type in every state.
THEOREM SpecTypeOK == Spec => []TypeOK
<1>1. Inv => TypeOK
    BY DEF Inv
<1> QED
    BY <1>1, SpecInv, PTL

\* No request that is left to its timer has missed a change (src/sync_api.rs,
\* wait_for_change), however commits, sends, answers, losses and restarts interleave.
THEOREM SpecNoSleepThroughChange == Spec => []NoSleepThroughChange
<1>1. Inv => NoSleepThroughChange
    BY DEF Inv
<1> QED
    BY <1>1, SpecInv, PTL

\* An answer with changed = true is never a false alarm.
THEOREM SpecChangedMeansNewer == Spec => []ChangedMeansNewer
<1>1. Inv => ChangedMeansNewer
    BY DEF Inv
<1> QED
    BY <1>1, SpecInv, PTL

\* No cursor runs ahead of the channel, so no later wait takes a change for old.
THEOREM SpecCursorsWereSent == Spec => []CursorsWereSent
<1>1. Inv => CursorsWereSent
    BY DEF Inv
<1> QED
    BY <1>1, SpecInv, PTL

\* Why these hold: receivers, channel, answers and cursors are in step.
THEOREM SpecInStep == Spec => []InStep
<1>1. Inv => InStep
    BY DEF Inv
<1> QED
    BY <1>1, SpecInv, PTL

\* Of the store LongPoll uses what RevisionFeed promises and nothing else: no client,
\* lost connection or handler moves its revision or its channel.
THEOREM SpecUsesFeed == Spec => FeedSpec
<1>1. Init => FeedInit
    BY DEF Init
<1>2. [Next]_vars => [FeedCommit \/ FeedSend \/ FeedOpen]_feed
  <2>1. ASSUME NEW c \in Clients, Handler(c) \/ Timeout(c) \/ Client(c) \/ Drop(c)
        PROVE  UNCHANGED feed
      BY <2>1 DEF Handler, Subscribe, Wake, AnswerWoken, AnswerTimedOut, Timeout, Client, AskAgain,
                  Fetch, Apply, Drop, server
  <2>2. Commit \/ Send \/ Restart => FeedCommit \/ FeedSend \/ FeedOpen
      BY DEF Commit, Send, Restart
  <2>3. UNCHANGED vars => UNCHANGED feed
      BY DEF vars, server
  <2> QED
      BY <2>1, <2>2, <2>3 DEF Next
<1> QED
    BY <1>1, <1>2, PTL DEF Spec, FeedSpec

=============================================================================
