------------------------- MODULE RestartShutdownProofs -------------------------
(***************************************************************************)
(* Proofs about module RestartShutdown: an exit for a restart cuts nothing *)
(* off, and no listener that had registered sleeps through one.            *)
(***************************************************************************)
EXTENDS RestartShutdown, TLAPS

-----------------------------------------------------------------------------
(* An exit is graceful *)

\* The flag is set before anything acts on it, no socket is closed over an open
\* request, and a failure is not forgotten.
Order ==
    /\ \A c \in Clients : request[c].doing \in {"flagged", "answering"} => requested
    /\ \A l \in Listeners :
           listener[l] \in {"notified", "draining", "ended", "joined"} =>
               requested \/ exit = "error"
    /\ \A c \in Clients : request[c] # Idle =>
           \/ listener[request[c].at] \in Accepting \cup {"draining", "failed"}
           \/ exit = "error"
    /\ \/ failures = 0
       \/ \E l \in Listeners : listener[l] = "failed"
       \/ exit = "error"

Inv == TypeOK /\ Order /\ ExitIsGraceful

\* A server that has just started has nobody to disappoint.
LEMMA InitInv == Init => Inv
<1> SUFFICES ASSUME Init PROVE Inv
    OBVIOUS
<1>1. /\ Idle \in Requests /\ "new" \in ListenerStates
      /\ 0 \in 0 .. MaxFailures
    BY BoundsAssumption DEF Requests, ListenerStates, Accepting, Waiting
<1>2. TypeOK
    BY <1>1 DEF Init, TypeOK
<1>3. Order
    BY DEF Init, Order, Idle
<1> QED
    BY <1>2, <1>3 DEF Init, Inv, ExitIsGraceful

\* The steps of a request.
LEMMA RequestStep ==
    ASSUME Inv, NEW c \in Clients,
           (\E l \in Listeners : Accept(c, l)) \/ Handler(c)
    PROVE  Inv'
<1>1. ASSUME NEW l \in Listeners, Accept(c, l) PROVE Inv'
  <2>1. TypeOK'
      BY <1>1 DEF Accept, Inv, TypeOK, Requests, Steps
  <2>2. Order'
      BY <1>1 DEF Accept, Inv, TypeOK, Order, Requests, Idle
  <2> QED
      BY <1>1, <2>1, <2>2 DEF Accept, Inv, ExitIsGraceful
<1>2. CASE SetFlag(c)
  <2>1. TypeOK' /\ request[c] # Idle
      BY <1>2 DEF SetFlag, Inv, TypeOK, Requests, Steps, Idle
  <2>2. Order'
      BY <1>2, <2>1 DEF SetFlag, Inv, TypeOK, Order, Requests, Idle
  <2> QED
      BY <1>2, <2>1, <2>2 DEF SetFlag, Inv, ExitIsGraceful
<1>3. CASE Notify(c)
  <2>1. TypeOK' /\ request[c] # Idle /\ requested
      BY <1>3
      DEF Notify, Inv, TypeOK, Order, Requests, Steps, Idle, ListenerStates, Accepting, Waiting
  <2>2. \A l \in Listeners :
            \/ listener'[l] = listener[l]
            \/ listener[l] = "registered" /\ listener'[l] = "notified"
      BY <1>3 DEF Notify
  <2>3. \A d \in Clients : request[d] # Idle => request[d].at \in Listeners
      BY DEF Inv, TypeOK, Requests
  <2>4. \A d \in Clients :
            request'[d].at = request[d].at /\ (request'[d] # Idle => request[d] # Idle)
      BY <1>3, <2>1 DEF Notify, Inv, TypeOK
  <2>5. \A d \in Clients : request'[d] # Idle =>
            \/ listener'[request'[d].at] \in Accepting \cup {"draining", "failed"}
            \/ exit' = "error"
      BY <1>3, <2>2, <2>3, <2>4 DEF Notify, Inv, Order, Accepting
  <2>6. Order'
      BY <1>3, <2>1, <2>2, <2>5 DEF Notify, Inv, TypeOK, Order
  <2> QED
      BY <1>3, <2>1, <2>6 DEF Notify, Inv, ExitIsGraceful
<1>4. CASE Answer(c)
  <2>1. TypeOK'
      BY <1>4 DEF Answer, Inv, TypeOK, Requests
  <2>2. Order'
      BY <1>4 DEF Answer, Inv, TypeOK, Order, Idle
  <2> QED
      BY <1>4, <2>1, <2>2 DEF Answer, Inv, ExitIsGraceful
<1> QED
    BY <1>1, <1>2, <1>3, <1>4 DEF Handler

\* The steps of a listener that keep it where requests may be open.
LEMMA ListenerStep ==
    ASSUME Inv, NEW l \in Listeners, ReadFlag(l) \/ Register(l) \/ Drain(l)
    PROVE  Inv'
<1>1. \A k \in Listeners : k # l => listener'[k] = listener[k]
    BY DEF Inv, TypeOK, ReadFlag, Register, Drain
<1>2. /\ listener[l] \in Accepting
      /\ listener'[l] \in Accepting \cup {"draining"}
      /\ listener'[l] \in {"notified", "draining"} => requested \/ exit = "error"
    BY DEF Inv, TypeOK, Order, ReadFlag, Register, Drain, Accepting, Waiting
<1>3. exit = "no" /\ UNCHANGED <<requested, request, exit, failures, missed>>
    BY DEF ReadFlag, Register, Drain
<1>4. TypeOK'
    BY <1>2, <1>3 DEF Inv, TypeOK, ReadFlag, Register, Drain, ListenerStates, Accepting, Waiting
<1>5. \A c \in Clients : request[c] # Idle => request[c].at \in Listeners
    BY DEF Inv, TypeOK, Requests
<1>6. \A c \in Clients : request[c] # Idle =>
          listener'[request[c].at] \in Accepting \cup {"draining", "failed"}
    BY <1>1, <1>2, <1>3, <1>5 DEF Inv, Order
<1>7. \A k \in Listeners : listener[k] = "failed" => listener'[k] = "failed"
    BY <1>1, <1>2 DEF Accepting, Waiting
<1>8. \A k \in Listeners : listener'[k] \in {"notified", "draining", "ended", "joined"} =>
          requested \/ exit = "error"
    BY <1>1, <1>2 DEF Inv, Order, Accepting, Waiting
<1>9. Order'
    BY <1>3, <1>6, <1>7, <1>8 DEF Inv, Order
<1> QED
    BY <1>3, <1>4, <1>9 DEF Inv, ExitIsGraceful

\* A listener ends when its last request is done.
LEMMA EndStep ==
    ASSUME Inv, NEW l \in Listeners, End(l)
    PROVE  Inv'
<1>1. TypeOK'
    BY DEF Inv, TypeOK, End, ListenerStates
<1>2. Order'
    BY DEF Inv, TypeOK, Order, End, Requests, Idle
<1> QED
    BY <1>1, <1>2 DEF Inv, ExitIsGraceful, End

\* A failure is remembered by its listener.
LEMMA FailStep ==
    ASSUME Inv, NEW l \in Listeners, Fail(l)
    PROVE  Inv'
<1>1. TypeOK'
    BY BoundsAssumption DEF Inv, TypeOK, Fail, ListenerStates
<1>2. Order'
    BY DEF Inv, TypeOK, Order, Fail, Requests, Idle
<1> QED
    BY <1>1, <1>2 DEF Inv, ExitIsGraceful, Fail

\* The loop takes the result of a task.
LEMMA JoinStep ==
    ASSUME Inv, NEW l \in Listeners, Join(l)
    PROVE  Inv'
<1>1. TypeOK'
    BY DEF Inv, TypeOK, Join, ListenerStates
<1>2. CASE exit' = "error"
    BY <1>1, <1>2 DEF Inv, Order, ExitIsGraceful, Join
<1>3. CASE exit' # "error"
  <2>1. requested /\ listener[l] = "ended" /\ exit' = "no" /\ exit = "no"
      BY <1>3 DEF Join
  <2>2. Order'
      BY <2>1 DEF Inv, TypeOK, Order, Join, Requests, Idle, Accepting, Waiting
  <2> QED
      BY <1>1, <2>1, <2>2 DEF Inv, ExitIsGraceful
<1> QED
    BY <1>2, <1>3

\* The process exits when every listener has been joined.
LEMMA ExitStep == Inv /\ Exit => Inv'
<1> SUFFICES ASSUME Inv, Exit PROVE Inv'
    OBVIOUS
<1>1. PICK l \in Listeners : TRUE
    BY ListenersAssumption
<1>2. requested
    BY <1>1 DEF Inv, Order, Exit
<1>3. \A c \in Clients : request[c] = Idle
    BY DEF Inv, TypeOK, Order, Exit, Requests, Accepting, Waiting
<1>4. failures = 0
    BY DEF Inv, Order, Exit
<1>5. TypeOK'
    BY DEF Inv, TypeOK, Exit
<1>6. Order'
    BY <1>2, <1>3, <1>4 DEF Inv, Order, Exit
<1> QED
    BY <1>2, <1>3, <1>4, <1>5, <1>6 DEF Inv, ExitIsGraceful, Exit

\* Every step keeps the invariant.
LEMMA NextInv == Inv /\ [Next]_vars => Inv'
<1> SUFFICES ASSUME Inv, [Next]_vars PROVE Inv'
    OBVIOUS
<1>1. CASE Exited \/ UNCHANGED vars
    BY <1>1 DEF Exited, Inv, TypeOK, Order, ExitIsGraceful, vars
<1> QED
    BY <1>1, RequestStep, ListenerStep, EndStep, FailStep, JoinStep, ExitStep DEF Next, Task

\* Type correctness.
THEOREM SpecTypeOK == Spec => []TypeOK
<1>1. Inv => TypeOK
    BY DEF Inv
<1> QED
    BY <1>1, InitInv, NextInv, PTL DEF Spec

\* For any number of listeners, clients and failures, the process exits for a
\* restart only after every request was answered and no listener failed.
THEOREM SpecExitIsGraceful == Spec => []ExitIsGraceful
<1>1. Inv => ExitIsGraceful
    BY DEF Inv
<1> QED
    BY <1>1, InitInv, NextInv, PTL DEF Spec

-----------------------------------------------------------------------------
(* No registered listener sleeps through a restart *)

\* A notification wakes all that have registered and notes who is about to; who
\* comes later finds the flag set.
LEMMA WakeupStep ==
    ASSUME TypeOK, NoLostWakeup, [Next]_vars
    PROVE  NoLostWakeup'
<1>1. ASSUME NEW c \in Clients, NEW l \in Listeners, Accept(c, l) PROVE NoLostWakeup'
    BY <1>1 DEF Accept, TypeOK, Requests, NoLostWakeup, Idle
<1>2. ASSUME NEW c \in Clients, SetFlag(c) PROVE NoLostWakeup'
    BY <1>2 DEF SetFlag, TypeOK, Requests, Idle, NoLostWakeup
<1>3. ASSUME NEW c \in Clients, Notify(c) PROVE NoLostWakeup'
  <2>1. \A l \in Listeners :
            /\ listener'[l] # "registered"
            /\ listener'[l] = "unset" => l \in missed'
      BY <1>3 DEF Notify
  <2> QED
      BY <2>1 DEF NoLostWakeup
<1>4. ASSUME NEW c \in Clients, Answer(c) PROVE NoLostWakeup'
  <2>1. \A d \in Clients : request[d].doing = "flagged" => request'[d].doing = "flagged"
      BY <1>4 DEF Answer, TypeOK
  <2> QED
      BY <1>4, <2>1 DEF Answer, NoLostWakeup
<1>5. ASSUME NEW l \in Listeners, Task(l) \/ Fail(l) PROVE NoLostWakeup'
    BY <1>5 DEF Task, ReadFlag, Register, Drain, End, Join, Fail, TypeOK, NoLostWakeup
<1>6. CASE Exit \/ Exited \/ UNCHANGED vars
    BY <1>6 DEF Exit, Exited, vars, NoLostWakeup
<1> QED
    BY <1>1, <1>2, <1>3, <1>4, <1>5, <1>6 DEF Next, Handler

\* Whatever several requests for a restart do at the same time, once they are
\* through only a listener that was just about to register sleeps.
THEOREM SpecNoLostWakeup == Spec => []NoLostWakeup
<1>1. Init => NoLostWakeup
    BY DEF Init, NoLostWakeup
<1>2. TypeOK /\ NoLostWakeup /\ [Next]_vars => NoLostWakeup'
    BY WakeupStep
<1> QED
    BY <1>1, <1>2, SpecTypeOK, PTL DEF Spec

=============================================================================
