------------------------------ MODULE AdminAccount ------------------------------
(***************************************************************************)
(* The administrator's password and sessions (src/admin_api.rs,            *)
(* src/session.rs, src/auth.rs).                                           *)
(*                                                                         *)
(* login, bootstrap and change_password decide on a copy of the            *)
(* configuration, then spend their time hashing, and then answer or write  *)
(* the configuration; requests run in parallel.  A session is a signed     *)
(* cookie, which the server does not remember: it is valid while it is     *)
(* young and names the current password hash.                              *)
(*                                                                         *)
(* Every hash has a salt of its own, so no two are equal; password_version *)
(* is a hash of the hash, taken to be injective.  The configuration is     *)
(* that of module RuntimeConfig, in which a saved password hash is in      *)
(* force at once and survives a restart, as does the session secret.       *)
(***************************************************************************)
EXTENDS Naturals

CONSTANTS
    Clients,      \* browsers, each with one session cookie
    Slots,        \* bound: requests that are open at the same time
    Passwords,
    Lifetime,     \* admin_session_ttl
    MaxTime,      \* bound: the clock
    MaxHashes     \* bound: passwords that are set

ASSUME BoundsAssumption ==
    Lifetime \in Nat \ {0} /\ MaxTime \in Nat /\ MaxHashes \in Nat

Times == 0 .. MaxTime

VARIABLES
    hash,    \* admin_password_hash of the configuration
    salts,   \* hashes made so far
    now,     \* Utc::now()
    request, \* of each slot: an open request
    cookie   \* of each client: the cookie its browser holds

vars == <<hash, salts, now, request, cookie>>

NoHash == [password |-> "none", salt |-> 0]
Hashes == [password : Passwords, salt : 1 .. MaxHashes]

\* "typed" is the password the client gave for the session; it is not in the
\* cookie.
NoCookie == [version |-> NoHash, issuedAt |-> 0, typed |-> "none"]
Cookies == [version : Hashes, issuedAt : Times, typed : Passwords]

\* A handler that has read the configuration, or an answer under way.
Handlers == [kind : {"login", "bootstrap", "change"}, client : Clients,
             config : Hashes \cup {NoHash}, password : Passwords]
Answers == [kind : {"answer"}, client : Clients, cookie : Cookies \cup {NoCookie}]
Idle == [kind |-> "idle"]

-----------------------------------------------------------------------------
(* Passwords and sessions *)

\* Mutant of NewHash: no salt.
NewHashUnsalted(password) == [password |-> password, salt |-> 1]

\* hash_admin_password
NewHash(password) == [password |-> password, salt |-> salts + 1]

\* verify_admin_password
Verified(current, password) == current.password = password

\* issue_session_response, with the password hash of a configuration.
Session(version, password) == [version |-> version, issuedAt |-> now, typed |-> password]

\* verify_session_cookie, for a configuration with that password hash.
ValidAt(session, version, time) ==
    session # NoCookie /\ time < session.issuedAt + Lifetime /\ session.version = version

Valid(session) == ValidAt(session, hash, now)

Open(r, record) ==
    /\ request[r] = Idle
    /\ request' = [request EXCEPT ![r] = record]

Answer(r, answer) ==
    request' = [request EXCEPT ![r] =
                   [kind |-> "answer", client |-> request[r].client, cookie |-> answer]]

-----------------------------------------------------------------------------
(* Handlers *)

\* A login that will succeed: the password fits the configuration that was read.
BeginLogin(r, c, password) ==
    /\ hash # NoHash /\ Verified(hash, password)
    /\ Open(r, [kind |-> "login", client |-> c, config |-> hash, password |-> password])
    /\ UNCHANGED <<hash, salts, now, cookie>>

\* Mutant of FinishLogin: the session is issued for the configuration as it is now.
FinishLoginAnew(r) ==
    /\ request[r].kind = "login"
    /\ Answer(r, Session(hash, request[r].password))
    /\ UNCHANGED <<hash, salts, now, cookie>>

\* The session is issued for the configuration the password was verified with.
FinishLogin(r) ==
    /\ request[r].kind = "login"
    /\ Answer(r, Session(request[r].config, request[r].password))
    /\ UNCHANGED <<hash, salts, now, cookie>>

\* bootstrap, when the configuration has no password.
BeginBootstrap(r, c, password) ==
    /\ hash = NoHash
    /\ Open(r, [kind |-> "bootstrap", client |-> c, config |-> hash, password |-> password])
    /\ UNCHANGED <<hash, salts, now, cookie>>

\* change_password, with a valid session and the current password.
BeginChange(r, c, current, password) ==
    /\ Valid(cookie[c])
    /\ hash # NoHash /\ Verified(hash, current)
    /\ Open(r, [kind |-> "change", client |-> c, config |-> hash, password |-> password])
    /\ UNCHANGED <<hash, salts, now, cookie>>

\* Mutant of SetPassword: the password is stored as it is.
SetPasswordPlain(r) ==
    /\ request[r].kind \in {"bootstrap", "change"} /\ salts < MaxHashes
    /\ hash' = request[r].password
    /\ salts' = salts + 1
    /\ Answer(r, Session(hash', request[r].password))
    /\ UNCHANGED <<now, cookie>>

\* Mutant of SetPassword: the session is issued for the copy that was read.
SetPasswordStale(r) ==
    /\ request[r].kind \in {"bootstrap", "change"} /\ salts < MaxHashes
    /\ hash' = NewHash(request[r].password)
    /\ salts' = salts + 1
    /\ Answer(r, Session(request[r].config, request[r].password))
    /\ UNCHANGED <<now, cookie>>

\* The new hash is written to the configuration, whatever it is by then, and a
\* session is issued for what was written.
SetPassword(r) ==
    /\ request[r].kind \in {"bootstrap", "change"} /\ salts < MaxHashes
    /\ hash' = NewHash(request[r].password)
    /\ salts' = salts + 1
    /\ Answer(r, Session(hash', request[r].password))
    /\ UNCHANGED <<now, cookie>>

\* logout answers with an empty cookie; the server keeps nothing to forget.
Logout(r, c) ==
    /\ Open(r, [kind |-> "answer", client |-> c, cookie |-> NoCookie])
    /\ UNCHANGED <<hash, salts, now, cookie>>

\* Answers arrive in any order, and the last one to arrive sets the cookie.
Arrive(r) ==
    /\ request[r].kind = "answer"
    /\ cookie' = [cookie EXCEPT ![request[r].client] = request[r].cookie]
    /\ request' = [request EXCEPT ![r] = Idle]
    /\ UNCHANGED <<hash, salts, now>>

\* A write of the configuration fails, or an answer is lost.
Lose(r) ==
    /\ request[r] # Idle
    /\ request' = [request EXCEPT ![r] = Idle]
    /\ UNCHANGED <<hash, salts, now, cookie>>

\* The server is restarted, or dies.
Restart ==
    /\ \E r \in Slots : request[r] # Idle
    /\ request' = [r \in Slots |-> Idle]
    /\ UNCHANGED <<hash, salts, now, cookie>>

Tick ==
    /\ now < MaxTime
    /\ now' = now + 1
    /\ UNCHANGED <<hash, salts, request, cookie>>

-----------------------------------------------------------------------------

\* A deployment may come with a password hash (FLORAL_ADMIN_PASSWORD_HASH).
Init ==
    /\ salts \in {0, 1} \cap 0 .. MaxHashes
    /\ hash \in IF salts = 0 THEN {NoHash} ELSE [password : Passwords, salt : {1}]
    /\ now = 0
    /\ request = [r \in Slots |-> Idle]
    /\ cookie = [c \in Clients |-> NoCookie]

Begin(r) ==
    \E c \in Clients, password \in Passwords :
        \/ BeginLogin(r, c, password)
        \/ BeginBootstrap(r, c, password)
        \/ \E current \in Passwords : BeginChange(r, c, current, password)
        \/ Logout(r, c)

Finish(r) == FinishLogin(r) \/ SetPassword(r) \/ Arrive(r) \/ Lose(r)

Next ==
    \/ \E r \in Slots : Begin(r) \/ Finish(r)
    \/ Restart
    \/ Tick

Spec == Init /\ [][Next]_vars

-----------------------------------------------------------------------------
(* Properties *)

\* Every variable has the type of the source's value.
TypeOK ==
    /\ hash \in Hashes \cup {NoHash}
    /\ salts \in 0 .. MaxHashes
    /\ now \in Times
    /\ request \in [Slots -> Handlers \cup Answers \cup {Idle}]
    /\ cookie \in [Clients -> Cookies \cup {NoCookie}]

\* The sessions in the browsers and under way.
Sessions ==
    {cookie[c] : c \in Clients}
        \cup {request[r].cookie : r \in {s \in Slots : request[s].kind = "answer"}}

\* Whoever holds a valid session has given the password that is set now, not an
\* earlier one, however long hashing took and whoever changed it meanwhile.
SessionsKnowPassword ==
    \A session \in Sessions : Valid(session) => session.typed = hash.password

\* A session that has ended never comes back: not by a new password that is an
\* old one, not by a restart.
EndedStaysEnded ==
    [][\A session \in Sessions : ~Valid(session) => ~ValidAt(session, hash', now')]_vars

\* A new password ends every session but the one its setter is given, also those
\* that logins under way are about to be given; and the setter is given one.
ChangeEndsOthers ==
    [][\A r \in Slots : SetPassword(r) =>
           /\ \A session \in Sessions : ~ValidAt(session, hash', now')
           /\ \A s \in Slots \ {r} : request[s].kind = "login" => request[s].config # hash'
           /\ ValidAt(request'[r].cookie, hash', now')]_vars

=============================================================================
