-------------------------- MODULE AdminAccountProofs --------------------------
(***************************************************************************)
(* Proofs about module AdminAccount: a valid session was given for the     *)
(* password in force, a new password ends the sessions of others, and no   *)
(* session comes back.                                                     *)
(***************************************************************************)
EXTENDS AdminAccount, TLAPS

-----------------------------------------------------------------------------
(* Types *)

LEMMA IdleIsNoHandler == Idle \notin Handlers \cup Answers
BY DEF Idle, Handlers, Answers

LEMMA NoHashIsNoHash == NoHash \notin Hashes /\ NoHash.salt = 0
BY BoundsAssumption DEF NoHash, Hashes

\* A request of some kind is a handler, or an answer, with its fields.
LEMMA RequestFields ==
    ASSUME TypeOK, NEW r \in Slots
    PROVE  /\ request[r].kind \in {"login", "bootstrap", "change"} =>
                  /\ request[r].client \in Clients
                  /\ request[r].config \in Hashes \cup {NoHash}
                  /\ request[r].password \in Passwords
           /\ request[r].kind = "answer" =>
                  /\ request[r].client \in Clients
                  /\ request[r].cookie \in Cookies \cup {NoCookie}
BY DEF TypeOK, Handlers, Answers, Idle

\* The hash that is made next.
LEMMA NextHash ==
    ASSUME TypeOK, salts < MaxHashes, NEW password \in Passwords
    PROVE  /\ NewHash(password) \in Hashes
           /\ NewHash(password).salt = salts + 1
           /\ salts + 1 \in 0 .. MaxHashes
BY BoundsAssumption DEF TypeOK, NewHash, Hashes

\* The session that is issued for a hash.
LEMMA NextSession ==
    ASSUME TypeOK, NEW version \in Hashes, NEW password \in Passwords
    PROVE  /\ Session(version, password) \in Cookies
           /\ Session(version, password) # NoCookie
BY NoHashIsNoHash DEF TypeOK, Session, Cookies, NoCookie

LEMMA AnswerType ==
    ASSUME TypeOK, NEW r \in Slots, NEW answer \in Cookies \cup {NoCookie},
           request[r].client \in Clients, Answer(r, answer)
    PROVE  request' \in [Slots -> Handlers \cup Answers \cup {Idle}]
BY DEF TypeOK, Answer, Answers

-----------------------------------------------------------------------------
(* The inductive invariant *)

\* The session was issued for a hash that has been made, of the password that
\* was typed.
Known(session) ==
    /\ session.version.salt <= salts
    /\ session.typed = session.version.password

\* What the configuration, the browsers and the requests hold has been made, and
\* a login that goes on has fitted.
Kept ==
    /\ hash.salt <= salts
    /\ \A c \in Clients : Known(cookie[c])
    /\ \A r \in Slots :
           /\ request[r].kind = "answer" => Known(request[r].cookie)
           /\ request[r].kind = "login" =>
                  /\ request[r].config # NoHash
                  /\ request[r].config.salt <= salts
                  /\ request[r].password = request[r].config.password

Inv == TypeOK /\ Kept

LEMMA NoCookieKnown == TypeOK => Known(NoCookie)
BY BoundsAssumption DEF TypeOK, Known, NoCookie, NoHash

LEMMA InitInv == Init => Inv
<1> SUFFICES ASSUME Init PROVE Inv
    OBVIOUS
<1>1. TypeOK
    BY BoundsAssumption DEF Init, TypeOK, Hashes, Times
<1>2. hash.salt <= salts
    BY NoHashIsNoHash, BoundsAssumption DEF Init, Hashes
<1> QED
    BY <1>1, <1>2, NoCookieKnown DEF Init, Inv, Kept, Idle

\* A request is opened.
LEMMA BeginStep ==
    ASSUME Inv, NEW r \in Slots, Begin(r)
    PROVE  Inv'
<1>1. PICK c \in Clients, password \in Passwords :
          \/ BeginLogin(r, c, password)
          \/ BeginBootstrap(r, c, password)
          \/ \E current \in Passwords : BeginChange(r, c, current, password)
          \/ Logout(r, c)
    BY DEF Begin
<1>2. CASE BeginLogin(r, c, password)
  <2>1. TypeOK'
      BY <1>2 DEF Inv, TypeOK, BeginLogin, Open, Handlers
  <2>2. Kept'
      BY <1>2 DEF Inv, TypeOK, Kept, Known, BeginLogin, Open, Verified
  <2> QED
      BY <2>1, <2>2 DEF Inv
<1>3. CASE BeginBootstrap(r, c, password)
  <2>1. TypeOK'
      BY <1>3 DEF Inv, TypeOK, BeginBootstrap, Open, Handlers
  <2>2. Kept'
      BY <1>3 DEF Inv, TypeOK, Kept, Known, BeginBootstrap, Open
  <2> QED
      BY <2>1, <2>2 DEF Inv
<1>4. CASE \E current \in Passwords : BeginChange(r, c, current, password)
  <2>1. TypeOK'
      BY <1>4 DEF Inv, TypeOK, BeginChange, Open, Handlers
  <2>2. Kept'
      BY <1>4 DEF Inv, TypeOK, Kept, Known, BeginChange, Open
  <2> QED
      BY <2>1, <2>2 DEF Inv
<1>5. CASE Logout(r, c)
  <2>1. TypeOK'
      BY <1>5 DEF Inv, TypeOK, Logout, Open, Answers
  <2>2. Known(NoCookie)
      BY NoCookieKnown DEF Inv
  <2>3. Kept'
      BY <1>5, <2>2 DEF Inv, TypeOK, Kept, Known, Logout, Open
  <2> QED
      BY <2>1, <2>3 DEF Inv
<1> QED
    BY <1>1, <1>2, <1>3, <1>4, <1>5

\* A request goes on to its answer, or to its end.
LEMMA FinishStep ==
    ASSUME Inv, NEW r \in Slots, Finish(r)
    PROVE  Inv'
<1>1. CASE FinishLogin(r)
  <2> DEFINE session == Session(request[r].config, request[r].password)
  <2>1. /\ request[r].client \in Clients
        /\ request[r].config \in Hashes /\ request[r].password \in Passwords
        /\ request[r].config.salt <= salts
        /\ request[r].password = request[r].config.password
      BY <1>1, RequestFields DEF FinishLogin, Inv, Kept
  <2>2. session \in Cookies /\ Known(session)
      BY <2>1, NextSession DEF Inv, Known, Session
  <2>3. request' \in [Slots -> Handlers \cup Answers \cup {Idle}]
      BY <1>1, <2>1, <2>2, AnswerType DEF FinishLogin, Inv
  <2>4. TypeOK'
      BY <1>1, <2>3 DEF FinishLogin, Inv, TypeOK
  <2>5. Kept'
      BY <1>1, <2>2 DEF FinishLogin, Answer, Inv, TypeOK, Kept, Known
  <2> QED
      BY <2>4, <2>5 DEF Inv
<1>2. CASE SetPassword(r)
  <2> DEFINE session == Session(hash', request[r].password)
  <2>1. /\ request[r].client \in Clients /\ request[r].password \in Passwords
        /\ hash' = NewHash(request[r].password) /\ salts' = salts + 1
        /\ Answer(r, session) /\ cookie' = cookie /\ now' = now
      BY <1>2, RequestFields DEF SetPassword, Inv
  <2>2. hash' \in Hashes /\ hash'.salt = salts' /\ salts' \in 0 .. MaxHashes
      BY <1>2, <2>1, NextHash DEF SetPassword, Inv
  <2>3. session \in Cookies
      BY <2>1, <2>2, NextSession DEF Inv
  <2>4. session.version.salt <= salts' /\ session.typed = session.version.password
      BY <2>1, <2>2 DEF Session, NewHash
  <2>5. TypeOK'
      BY <2>1, <2>2, <2>3, AnswerType DEF Inv, TypeOK
  <2>6. Kept'
    <3>1. \A n \in Nat : n <= salts => n <= salts'
        BY <2>1 DEF Inv, TypeOK
    <3>2. \A c \in Clients : cookie[c].version.salt \in Nat
        BY NoHashIsNoHash DEF Inv, TypeOK, Cookies, Hashes, NoCookie
    <3>3. \A s \in Slots : request[s].kind = "answer" => request[s].cookie.version.salt \in Nat
        BY RequestFields, NoHashIsNoHash DEF Inv, Cookies, Hashes, NoCookie
    <3>4. \A s \in Slots : request[s].kind = "login" => request[s].config.salt \in Nat
        BY RequestFields, NoHashIsNoHash DEF Inv, Hashes
    <3>5. \A s \in Slots : s # r => request'[s] = request[s]
        BY <2>1 DEF Answer, Inv, TypeOK
    <3>6. request'[r].kind = "answer" /\ request'[r].cookie = session
        BY <2>1 DEF Answer, Inv, TypeOK
    <3>7. \A c \in Clients : Known(cookie[c])'
        BY <2>1, <3>1, <3>2 DEF Inv, Kept, Known
    <3>8. \A s \in Slots : s # r =>
              /\ request'[s].kind = "answer" => Known(request[s].cookie)'
              /\ request'[s].kind = "login" =>
                     /\ request'[s].config # NoHash
                     /\ request'[s].config.salt <= salts'
                     /\ request'[s].password = request'[s].config.password
        BY <3>1, <3>3, <3>4, <3>5 DEF Inv, Kept, Known
    <3> QED
        BY <2>2, <2>4, <3>6, <3>7, <3>8 DEF Kept, Known
  <2> QED
      BY <2>5, <2>6 DEF Inv
<1>3. CASE Arrive(r)
  <2>1. request[r].cookie \in Cookies \cup {NoCookie} /\ request[r].client \in Clients
      BY <1>3, RequestFields DEF Arrive, Inv
  <2>2. TypeOK'
      BY <1>3, <2>1 DEF Arrive, Inv, TypeOK
  <2>3. Kept'
      BY <1>3, <2>1 DEF Arrive, Inv, TypeOK, Kept, Known, Idle
  <2> QED
      BY <2>2, <2>3 DEF Inv
<1>4. CASE Lose(r)
    BY <1>4 DEF Lose, Inv, TypeOK, Kept, Known, Idle
<1> QED
    BY <1>1, <1>2, <1>3, <1>4 DEF Finish

LEMMA NextInv == Inv /\ [Next]_vars => Inv'
<1> SUFFICES ASSUME Inv, [Next]_vars PROVE Inv'
    OBVIOUS
<1>1. CASE \E r \in Slots : Begin(r) \/ Finish(r)
    BY <1>1, BeginStep, FinishStep
<1>2. CASE Restart
    BY <1>2 DEF Restart, Inv, TypeOK, Kept, Known, Idle
<1>3. CASE Tick
  <2>1. TypeOK'
      BY <1>3, BoundsAssumption DEF Tick, Inv, TypeOK, Times
  <2>2. Kept'
      BY <1>3 DEF Tick, Inv, Kept, Known
  <2> QED
      BY <2>1, <2>2 DEF Inv
<1>4. CASE UNCHANGED vars
    BY <1>4 DEF vars, Inv, TypeOK, Kept, Known
<1> QED
    BY <1>1, <1>2, <1>3, <1>4 DEF Next

\* Every variable keeps the type of the source's value.
THEOREM SpecTypeOK == Spec => []TypeOK
<1>1. Inv => TypeOK
    BY DEF Inv
<1> QED
    BY <1>1, InitInv, NextInv, PTL DEF Spec

-----------------------------------------------------------------------------
(* Sessions *)

LEMMA SessionsKept ==
    ASSUME Inv, NEW session \in Sessions
    PROVE  session \in Cookies \cup {NoCookie} /\ Known(session)
BY RequestFields DEF Sessions, Inv, TypeOK, Kept

\* A valid session was given to someone who typed the password in force
\* (verify_session_cookie, issue_session_response).
THEOREM SpecSessionsKnowPassword == Spec => []SessionsKnowPassword
<1>1. Inv => SessionsKnowPassword
    BY SessionsKept DEF SessionsKnowPassword, Valid, ValidAt, Known
<1> QED
    BY <1>1, InitInv, NextInv, PTL DEF Spec

\* The only step that sets a hash makes a new one.
LEMMA HashStep ==
    ASSUME Inv, [Next]_vars
    PROVE  /\ now <= now'
           /\ \/ hash' = hash
              \/ hash'.salt = salts + 1
<1>1. CASE \E r \in Slots : SetPassword(r)
  <2>1. PICK r \in Slots : SetPassword(r)
      BY <1>1
  <2>2. now' = now /\ hash'.salt = salts + 1
      BY <2>1, RequestFields, NextHash DEF SetPassword, Inv
  <2> QED
      BY <2>2 DEF Inv, TypeOK, Times
<1>2. CASE \E r \in Slots : Begin(r) \/ FinishLogin(r) \/ Arrive(r) \/ Lose(r)
  <2>1. hash' = hash /\ now' = now
      BY <1>2 DEF Begin, BeginLogin, BeginBootstrap, BeginChange, Logout, FinishLogin, Arrive, Lose
  <2> QED
      BY <2>1 DEF Inv, TypeOK, Times
<1>3. CASE Restart \/ Tick \/ UNCHANGED vars
    BY <1>3, BoundsAssumption DEF Inv, TypeOK, Times, Restart, Tick, vars
<1> QED
    BY <1>1, <1>2, <1>3 DEF Next, Finish

LEMMA EndedStep ==
    ASSUME Inv, [Next]_vars, NEW session \in Sessions, ~Valid(session)
    PROVE  ~ValidAt(session, hash', now')
<1>1. CASE session = NoCookie
    BY <1>1 DEF ValidAt
<1>2. CASE session # NoCookie
  <2>1. session \in Cookies /\ session.version.salt \in Nat /\ session.issuedAt \in Nat
        /\ session.version.salt <= salts
      BY <1>2, SessionsKept DEF Cookies, Hashes, Times, Known
  <2>2. session.version # hash \/ ~(now < session.issuedAt + Lifetime)
      BY <1>2 DEF Valid, ValidAt
  <2>3. CASE session.version # hash
    <3>1. session.version # hash'
        BY <2>1, <2>3, HashStep DEF Inv, TypeOK
    <3> QED
        BY <3>1 DEF ValidAt
  <2>4. CASE ~(now < session.issuedAt + Lifetime)
    <3>1. now \in Nat /\ now' \in Nat
        BY NextInv DEF Inv, TypeOK, Times
    <3>2. ~(now' < session.issuedAt + Lifetime)
        BY <2>1, <2>4, <3>1, HashStep, BoundsAssumption
    <3> QED
        BY <3>2 DEF ValidAt
  <2> QED
      BY <2>2, <2>3, <2>4
<1> QED
    BY <1>1, <1>2

\* A session that has expired or was ended by a new password stays ended.
THEOREM SpecEndedStaysEnded == Spec => EndedStaysEnded
<1>1. Inv /\ [Next]_vars =>
          [\A session \in Sessions : ~Valid(session) => ~ValidAt(session, hash', now')]_vars
    BY EndedStep
<1> QED
    BY <1>1, InitInv, NextInv, PTL DEF Spec, EndedStaysEnded

LEMMA ChangeStep ==
    ASSUME Inv, NEW r \in Slots, SetPassword(r)
    PROVE  /\ \A session \in Sessions : ~ValidAt(session, hash', now')
           /\ \A s \in Slots \ {r} : request[s].kind = "login" => request[s].config # hash'
           /\ ValidAt(request'[r].cookie, hash', now')
<1> DEFINE session == Session(hash', request[r].password)
<1>1. /\ request[r].password \in Passwords
      /\ hash' = NewHash(request[r].password) /\ hash'.salt = salts + 1
      /\ hash' \in Hashes /\ now' = now /\ Answer(r, session)
    BY RequestFields, NextHash DEF SetPassword, Inv
<1>2. \A old \in Sessions : old = NoCookie \/ old.version # hash'
  <2> SUFFICES ASSUME NEW old \in Sessions, old # NoCookie PROVE old.version # hash'
      OBVIOUS
  <2>1. old.version.salt \in Nat /\ old.version.salt <= salts
      BY SessionsKept DEF Cookies, Hashes, Known
  <2> QED
      BY <1>1, <2>1 DEF Inv, TypeOK
<1>3. \A s \in Slots : request[s].kind = "login" => request[s].config # hash'
  <2> SUFFICES ASSUME NEW s \in Slots, request[s].kind = "login"
               PROVE  request[s].config # hash'
      OBVIOUS
  <2>1. request[s].config.salt <= salts
      BY DEF Inv, Kept
  <2> QED
      BY <1>1, <2>1 DEF Inv, TypeOK
<1>4. request'[r].cookie = session
    BY <1>1 DEF Answer, Inv, TypeOK
<1>5. session # NoCookie
    BY <1>1, NextSession DEF Inv
<1>6. session.version = hash' /\ now' < session.issuedAt + Lifetime
    BY <1>1, BoundsAssumption DEF Session, Inv, TypeOK, Times
<1> QED
    BY <1>2, <1>3, <1>4, <1>5, <1>6 DEF ValidAt

\* A new password ends the sessions of everyone but its setter, at hand or under
\* way (bootstrap, change_password).
THEOREM SpecChangeEndsOthers == Spec => ChangeEndsOthers
<1>1. Inv /\ [Next]_vars =>
          [\A r \in Slots : SetPassword(r) =>
               /\ \A session \in Sessions : ~ValidAt(session, hash', now')
               /\ \A s \in Slots \ {r} : request[s].kind = "login" => request[s].config # hash'
               /\ ValidAt(request'[r].cookie, hash', now')]_vars
    BY ChangeStep
<1> QED
    BY <1>1, InitInv, NextInv, PTL DEF Spec, ChangeEndsOthers

=============================================================================
