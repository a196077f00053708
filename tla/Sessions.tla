------------------------------ MODULE Sessions ------------------------------
(***************************************************************************)
(* Sessions and passwords over the tables users and sessions: concurrent   *)
(* logins, authenticated requests (logout, password change) and the        *)
(* periodic cleanup.                                                       *)
(*                                                                         *)
(* A password is known by the number of changes before it.  A session      *)
(* token is 256 fresh random bits, so a session is named by the login that *)
(* creates it.  Every SQL statement, and the one transaction, is atomic;   *)
(* each may be refused, and a statement may be carried out and still be    *)
(* reported as failed when the request's context ends while it runs.       *)
(* Rejected logins and requests change nothing and are left out.           *)
(***************************************************************************)
EXTENDS Naturals

CONSTANTS
    Users,
    Logins,             \* POST /login requests, past the limiter
    Requests,           \* authenticated POST requests, past CSRF
    NoUser, NoToken,
    Lifetime,           \* sessionLifetime, in ticks
    TicksPerSecond,     \* ticks are equal parts of a second, at most ten
    MaxTime, MaxChanges \* bounds: the last tick, password changes per user

ASSUME SessionAssumption ==
    /\ NoUser \notin Users
    /\ NoToken \notin Logins
    /\ Lifetime \in Nat \ {0}
    /\ TicksPerSecond \in 1..10
    /\ MaxTime \in Nat
    /\ MaxChanges \in Nat

VARIABLES
    now,                \* the clock
    password,           \* users.password_hash
    sessions,           \* the sessions table: token -> [user, expires]
    login,              \* login[l]: what l does next and its user
    request,            \* request[q]: what q does next, its token and its user
    issued,             \* tokens that reached a browser, as cookies
    loggedOut,          \* tokens whose logout was reported as done
    opened              \* auxiliary, opened[l]: the circumstances of its insert

vars == <<now, password, sessions, login, request, issued, loggedOut, opened>>

NotStarted == [pc |-> "idle", user |-> NoUser]

Idle == [pc |-> "idle", token |-> NoToken, user |-> NoUser]

Unopened == [user |-> NoUser, at |-> 0, current |-> 0]

Init ==
    /\ now = 0
    /\ password = [u \in Users |-> 0]
    /\ sessions = [t \in {} |-> [user |-> NoUser, expires |-> 0]]
    /\ login = [l \in Logins |-> NotStarted]
    /\ request = [q \in Requests |-> Idle]
    /\ issued = {}
    /\ loggedOut = {}
    /\ opened = [l \in Logins |-> Unopened]

Tick ==
    /\ now < MaxTime
    /\ now' = now + 1
    /\ UNCHANGED <<password, sessions, login, request, issued, loggedOut, opened>>

Keeping(tokens) == [t \in tokens |-> sessions[t]]

-----------------------------------------------------------------------------
(* Service.Login, after the limiter.                                       *)

\* FindUserByEmail, and the given password verifies against the row it read.
FindUser(l) ==
    /\ login[l].pc = "idle"
    /\ \E u \in Users :
          login' = [login EXCEPT ![l] = [pc |-> "create", user |-> u]]
    /\ UNCHANGED <<now, password, sessions, request, issued, loggedOut, opened>>

Expiry == now + Lifetime

\* INSERT INTO sessions, whatever happened to the user meanwhile.  The token
\* reaches the browser unless the client left or the insert is reported failed.
InsertSession(l) ==
    /\ sessions' = [t \in DOMAIN sessions \union {l} |->
                       IF t = l THEN [user |-> login[l].user, expires |-> Expiry]
                                ELSE sessions[t]]
    /\ opened' = [opened EXCEPT ![l] =
                     [user |-> login[l].user, at |-> now,
                      current |-> password[login[l].user]]]
    /\ issued' \in {issued, issued \union {l}}

CreateSession(l) ==
    /\ login[l].pc = "create"
    /\ login' = [login EXCEPT ![l].pc = "done"]
    /\ \/ InsertSession(l)
       \/ UNCHANGED <<sessions, issued, opened>>
    /\ UNCHANGED <<now, password, request, loggedOut>>

-----------------------------------------------------------------------------
(* An authenticated request: RequireLogin, then PostLogout or PostPassword. *)

\* (faulty variant: the row alone makes the session valid)
LiveIfStored(t) == t \in DOMAIN sessions

Live(t) == t \in DOMAIN sessions /\ sessions[t].expires > now

\* FindSession: the user travels with the request from here on.
RequireLogin(q) ==
    /\ request[q].pc = "idle"
    /\ \E t \in issued, operation \in {"logout", "password"} :
          /\ Live(t)
          /\ request' = [request EXCEPT ![q] =
                            [pc |-> operation, token |-> t, user |-> sessions[t].user]]
    /\ UNCHANGED <<now, password, sessions, login, issued, loggedOut, opened>>

Finish(q) == request' = [request EXCEPT ![q] = Idle]

\* (faulty variant: a failed deletion is reported like a successful one)
PostLogoutHidingFailure(q) ==
    /\ request[q].pc = "logout"
    /\ \/ sessions' = Keeping(DOMAIN sessions \ {request[q].token})
       \/ UNCHANGED sessions
    /\ loggedOut' = loggedOut \union {request[q].token}
    /\ Finish(q)
    /\ UNCHANGED <<now, password, login, issued, opened>>

\* DELETE FROM sessions WHERE token_hash = ?; the cookie is cleared only when
\* the statement is reported done.
PostLogout(q) ==
    /\ request[q].pc = "logout"
    /\ \/ /\ sessions' = Keeping(DOMAIN sessions \ {request[q].token})
          /\ loggedOut' \in {loggedOut, loggedOut \union {request[q].token}}
       \/ UNCHANGED <<sessions, loggedOut>>
    /\ Finish(q)
    /\ UNCHANGED <<now, password, login, issued, opened>>

SessionsOf(u) == {t \in DOMAIN sessions : sessions[t].user = u}

\* (faulty variant: only the session of the request is deleted)
UpdatePasswordOfSession(u) ==
    /\ password' = [password EXCEPT ![u] = @ + 1]
    /\ \E t \in SessionsOf(u) \union {NoToken} :
          sessions' = Keeping(DOMAIN sessions \ {t})

\* One transaction: UPDATE users, DELETE FROM sessions WHERE user_id = ?
UpdatePassword(u) ==
    /\ password' = [password EXCEPT ![u] = @ + 1]
    /\ sessions' = Keeping(DOMAIN sessions \ SessionsOf(u))

\* ChangePassword verifies against the hash read by RequireLogin.  It is
\* rejected, or the transaction fails and is rolled back, or it commits.
PostPassword(q) ==
    /\ request[q].pc = "password"
    /\ \/ password[request[q].user] < MaxChanges /\ UpdatePassword(request[q].user)
       \/ UNCHANGED <<password, sessions>>
    /\ Finish(q)
    /\ UNCHANGED <<now, login, issued, loggedOut, opened>>

-----------------------------------------------------------------------------
(* CleanupExpired, run by the lifecycle's ticker.                          *)

\* RFC3339Nano leaves out trailing zeros and "Z" sorts after "." and digits: as
\* text, a whole second comes after every fraction of it.
TextRank(time) ==
    IF time % TicksPerSecond = 0 THEN TicksPerSecond ELSE time % TicksPerSecond

TextBefore(a, b) ==
    \/ a \div TicksPerSecond < b \div TicksPerSecond
    \/ a \div TicksPerSecond = b \div TicksPerSecond /\ TextRank(a) < TextRank(b)

\* (faulty variant: created_at is compared)
RemovableByCreation(t) == TextBefore(sessions[t].expires - Lifetime, now)

Removable(t) == TextBefore(sessions[t].expires, now)

\* DELETE FROM sessions WHERE expires_at < ?
CleanupExpired ==
    /\ sessions' = Keeping({t \in DOMAIN sessions : ~Removable(t)})
    /\ UNCHANGED <<now, password, login, request, issued, loggedOut, opened>>

\* The process stops and starts again: handlers are gone, the tables stay.
Restart ==
    /\ login' = [l \in Logins |->
                    IF login[l].pc = "create" THEN [login[l] EXCEPT !.pc = "done"]
                                              ELSE login[l]]
    /\ request' = [q \in Requests |-> Idle]
    /\ UNCHANGED <<now, password, sessions, issued, loggedOut, opened>>

Next ==
    \/ Tick
    \/ \E l \in Logins : FindUser(l) \/ CreateSession(l)
    \/ \E q \in Requests : RequireLogin(q) \/ PostLogout(q) \/ PostPassword(q)
    \/ CleanupExpired
    \/ Restart

Spec == Init /\ [][Next]_vars

-----------------------------------------------------------------------------
(* Properties.                                                             *)

TypeOK ==
    /\ now \in Nat
    /\ password \in [Users -> Nat]
    /\ DOMAIN sessions \subseteq Logins
    /\ sessions \in [DOMAIN sessions -> [user : Users, expires : Nat]]
    /\ login \in [Logins -> [pc : {"idle", "create", "done"},
                             user : Users \union {NoUser}]]
    /\ request \in [Requests -> [pc : {"idle", "logout", "password"},
                                 token : Logins \union {NoToken},
                                 user : Users \union {NoUser}]]
    /\ issued \subseteq Logins
    /\ loggedOut \subseteq Logins
    /\ opened \in [Logins -> [user : Users \union {NoUser}, at : Nat,
                              current : Nat]]

\* No session outlives a change of its user's password, whichever logins and
\* requests run beside the change.  (The transaction in UpdatePassword; GP-007.)
NoSessionOutlivesAChange ==
    \A t \in DOMAIN sessions :
        /\ opened[t].user = sessions[t].user
        /\ opened[t].current = password[sessions[t].user]

\* A session whose logout was reported as done is gone and stays gone, although
\* the deletion may fail and requests with that cookie are still running.
\* (respondToLogout; GP-008.)
LogoutIsFinal == \A t \in loggedOut : t \notin DOMAIN sessions

\* A request is only let through for the user who logged in with its token,
\* within the lifetime of that login, before its logout and before any change
\* of the password that followed.  (FindSession; GP-007, GP-008.)
AuthenticatesOnlyLiveSessions ==
    [][\A q \in Requests :
          request[q].pc = "idle" /\ request'[q].pc # "idle" =>
              LET t == request'[q].token IN
              /\ t \notin loggedOut
              /\ request'[q].user = opened[t].user
              /\ now < opened[t].at + Lifetime
              /\ opened[t].current = password[opened[t].user]]_vars

\* A step in which no request acts: the cleanup.
Unattended == UNCHANGED request

\* The cleanup, which compares times as text, errs by less than a second.
CleanupIsAccurate ==
    [][\A t \in DOMAIN sessions \ DOMAIN sessions' :
          Unattended => sessions[t].expires < now + TicksPerSecond]_vars

=============================================================================
