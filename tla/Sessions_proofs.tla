-------------------------- MODULE Sessions_proofs --------------------------
(***************************************************************************)
(* Proofs about Sessions, for any users, logins and requests.              *)
(*                                                                         *)
(* A token exists in the tables and in browsers only after its login has   *)
(* ended (Unborn), so no late insert brings back a session that a logout   *)
(* or a password change has removed.                                       *)
(***************************************************************************)
EXTENDS Sessions, TLAPS

\* A login that has not ended has no session, and nobody knows its token.
Unborn == \A l \in Logins :
              /\ login[l].pc # "done" => l \notin DOMAIN sessions /\ l \notin issued
              /\ login[l].pc = "create" => login[l].user \in Users

\* Requests and logouts are about tokens that reached a browser.
Known == /\ loggedOut \subseteq issued
         /\ \A q \in Requests : request[q].pc # "idle" => request[q].token \in issued

\* A stored session expires a lifetime after its login.
OnTime == \A t \in DOMAIN sessions : sessions[t].expires = opened[t].at + Lifetime

IInv ==
    /\ TypeOK
    /\ NoSessionOutlivesAChange /\ LogoutIsFinal
    /\ Unborn /\ Known /\ OnTime

THEOREM Initially == Init => IInv
  BY SessionAssumption
     DEF Init, IInv, TypeOK, NotStarted, Idle, Unopened, NoSessionOutlivesAChange,
         LogoutIsFinal, Unborn, Known, OnTime

\* Deleting sessions keeps what is true of the others.
LEMMA KeepingSome ==
    ASSUME NEW tokens, tokens \subseteq DOMAIN sessions, sessions' = Keeping(tokens)
    PROVE  /\ DOMAIN sessions' = tokens
           /\ \A t \in tokens : sessions'[t] = sessions[t]
  BY DEF Keeping

\* What is left of a table of sessions is a table of sessions.
LEMMA KeepsTypes ==
    ASSUME TypeOK, NEW tokens, tokens \subseteq DOMAIN sessions
    PROVE  /\ DOMAIN Keeping(tokens) \subseteq Logins
           /\ Keeping(tokens) \in [DOMAIN Keeping(tokens) -> [user : Users, expires : Nat]]
  BY DEF TypeOK, Keeping

\* Every step keeps the invariant: logins insert only their own token, and
\* everything else only deletes.
LEMMA Inductive == IInv /\ [Next]_vars => IInv'
  <1> SUFFICES ASSUME IInv, [Next]_vars PROVE IInv'
    OBVIOUS
  <1> USE SessionAssumption
  <1>i. TypeOK /\ NoSessionOutlivesAChange /\ LogoutIsFinal /\ Unborn /\ Known /\ OnTime
    BY DEF IInv
  <1> DEFINE Deletes == /\ DOMAIN sessions' \subseteq DOMAIN sessions
                        /\ \A t \in DOMAIN sessions' : sessions'[t] = sessions[t]
  <1>d. ASSUME Deletes, UNCHANGED <<now, password, login, issued, opened>>,
               Known', TypeOK',
               \A t \in loggedOut' : t \in loggedOut \/ t \notin DOMAIN sessions'
        PROVE  IInv'
    <2>1. NoSessionOutlivesAChange'
      BY <1>i, <1>d DEF NoSessionOutlivesAChange
    <2>2. LogoutIsFinal'
      BY <1>i, <1>d DEF LogoutIsFinal
    <2>3. Unborn' /\ OnTime'
      BY <1>i, <1>d DEF Unborn, OnTime
    <2> QED
      BY <1>d, <2>1, <2>2, <2>3 DEF IInv
  <1>1. CASE Tick
    BY <1>i, <1>1
       DEF Tick, IInv, TypeOK, NoSessionOutlivesAChange, LogoutIsFinal, Unborn, Known, OnTime
  <1>2. ASSUME NEW l \in Logins, FindUser(l) PROVE IInv'
    BY <1>i, <1>2
       DEF FindUser, IInv, TypeOK, NoSessionOutlivesAChange, LogoutIsFinal, Unborn, Known, OnTime
  <1>3. ASSUME NEW l \in Logins, CreateSession(l) PROVE IInv'
    <2>1. /\ login[l].pc = "create" /\ login[l].user \in Users
          /\ l \notin DOMAIN sessions /\ l \notin issued /\ l \notin loggedOut
          /\ login' = [login EXCEPT ![l].pc = "done"]
          /\ UNCHANGED <<now, password, request, loggedOut>>
      BY <1>i, <1>3 DEF CreateSession, Unborn, Known
    <2>2. \A k \in Logins : /\ (k # l => login'[k] = login[k]) /\ login'[l].pc = "done"
                            /\ login' \in [Logins -> [pc : {"idle", "create", "done"},
                                       user : Users \union {NoUser}]]
      BY <1>i, <2>1 DEF TypeOK
    <2>3. CASE UNCHANGED <<sessions, issued, opened>>
      <3>1. TypeOK'
        BY <1>i, <2>1, <2>2, <2>3 DEF TypeOK
      <3>2. Unborn'
        BY <1>i, <2>1, <2>2, <2>3 DEF Unborn
      <3> QED
        BY <1>i, <2>1, <2>3, <3>1, <3>2
           DEF IInv, NoSessionOutlivesAChange, LogoutIsFinal, Known, OnTime
    <2>4. CASE InsertSession(l)
      <3>1. /\ DOMAIN sessions' = DOMAIN sessions \union {l}
            /\ sessions'[l] = [user |-> login[l].user, expires |-> now + Lifetime]
            /\ \A t \in DOMAIN sessions : sessions'[t] = sessions[t]
            /\ issued \subseteq issued' /\ issued' \subseteq issued \union {l}
        BY <2>1, <2>4 DEF InsertSession, Expiry
      <3>2. /\ opened'[l] = [user |-> login[l].user, at |-> now,
                             current |-> password[login[l].user]]
            /\ \A t \in Logins \ {l} : opened'[t] = opened[t]
        BY <1>i, <2>4 DEF InsertSession, TypeOK
      <3>3. TypeOK'
        <4>1. sessions'[l] \in [user : Users, expires : Nat]
          BY <1>i, <2>1, <3>1 DEF TypeOK
        <4>2. sessions' = [t \in DOMAIN sessions' |-> sessions'[t]]
          BY <2>4 DEF InsertSession
        <4>3. sessions' \in [DOMAIN sessions' -> [user : Users, expires : Nat]]
          BY <1>i, <3>1, <4>1, <4>2 DEF TypeOK
        <4>4. opened' \in [Logins -> [user : Users \union {NoUser}, at : Nat, current : Nat]]
          BY <1>i, <2>1, <2>4 DEF InsertSession, TypeOK
        <4> QED
          BY <1>i, <2>1, <2>2, <3>1, <4>3, <4>4 DEF TypeOK
      <3>4. NoSessionOutlivesAChange' /\ OnTime'
        BY <1>i, <2>1, <3>1, <3>2 DEF NoSessionOutlivesAChange, OnTime, TypeOK
      <3>5. LogoutIsFinal' /\ Known'
        BY <1>i, <2>1, <3>1 DEF LogoutIsFinal, Known
      <3>6. Unborn'
        BY <1>i, <2>2, <3>1 DEF Unborn
      <3> QED
        BY <3>3, <3>4, <3>5, <3>6 DEF IInv
    <2> QED
      BY <1>3, <2>3, <2>4 DEF CreateSession
  <1>4. ASSUME NEW q \in Requests, RequireLogin(q) PROVE IInv'
    BY <1>i, <1>4
       DEF RequireLogin, Live, IInv, TypeOK, NoSessionOutlivesAChange, LogoutIsFinal, Unborn,
           Known, OnTime
  <1>5. ASSUME NEW q \in Requests, PostLogout(q) PROVE IInv'
    <2>1. request[q].token \in issued /\ UNCHANGED <<now, password, login, issued, opened>>
      BY <1>i, <1>5 DEF PostLogout, Known
    <2>2. Deletes
      BY <1>5, KeepingSome DEF PostLogout, Keeping
    <2>3. \A t \in loggedOut' : t \in loggedOut \/ t \notin DOMAIN sessions'
      BY <1>5 DEF PostLogout, Keeping
    <2>4. loggedOut' \subseteq issued
      BY <1>i, <1>5, <2>1 DEF PostLogout, Known
    <2>5. Known'
      BY <1>i, <1>5, <2>1, <2>4 DEF PostLogout, Finish, Idle, Known, TypeOK
    <2>6. TypeOK'
      BY <1>i, <1>5, <2>1, <2>2, <2>4, KeepsTypes DEF PostLogout, Finish, Idle, TypeOK
    <2> QED
      BY <1>d, <2>1, <2>2, <2>3, <2>5, <2>6
  <1>6. ASSUME NEW q \in Requests, PostPassword(q) PROVE IInv'
    <2> DEFINE u == request[q].user
    <2>1. Deletes /\ UNCHANGED <<now, login, issued, loggedOut, opened>>
      BY <1>6, KeepingSome DEF PostPassword, UpdatePassword, Keeping
    <2>2. password' \in [Users -> Nat]
      BY <1>i, <1>6 DEF PostPassword, UpdatePassword, TypeOK
    <2>3. \A t \in DOMAIN sessions' : password'[sessions[t].user] = password[sessions[t].user]
      BY <1>i, <1>6 DEF PostPassword, UpdatePassword, SessionsOf, Keeping, TypeOK
    <2>4. Known'
      BY <1>i, <1>6 DEF PostPassword, Finish, Idle, Known, TypeOK
    <2>5. TypeOK'
      <3>1. DOMAIN sessions' \subseteq Logins
            /\ sessions' \in [DOMAIN sessions' -> [user : Users, expires : Nat]]
        <4>1. CASE UNCHANGED sessions
          BY <1>i, <4>1 DEF TypeOK
        <4>2. CASE sessions' = Keeping(DOMAIN sessions \ SessionsOf(u))
          BY <1>i, <4>2, KeepsTypes
        <4> QED
          BY <1>6, <4>1, <4>2 DEF PostPassword, UpdatePassword
      <3> QED
        BY <1>i, <1>6, <2>1, <2>2, <3>1 DEF PostPassword, Finish, Idle, TypeOK
    <2>6. NoSessionOutlivesAChange' /\ LogoutIsFinal' /\ Unborn' /\ OnTime'
      BY <1>i, <2>1, <2>3 DEF NoSessionOutlivesAChange, LogoutIsFinal, Unborn, OnTime
    <2> QED
      BY <2>4, <2>5, <2>6 DEF IInv
  <1>7. CASE CleanupExpired
    <2>1. Deletes
      BY <1>7, KeepingSome DEF CleanupExpired, Keeping
    <2>2. UNCHANGED <<now, password, login, request, issued, loggedOut, opened>>
      BY <1>7 DEF CleanupExpired
    <2>3. Known'
      BY <1>i, <2>2 DEF Known
    <2>4. TypeOK'
      <3>1. sessions' = Keeping({t \in DOMAIN sessions : ~Removable(t)})
        BY <1>7 DEF CleanupExpired
      <3>2. DOMAIN sessions' \subseteq Logins
            /\ sessions' \in [DOMAIN sessions' -> [user : Users, expires : Nat]]
        BY <1>i, <3>1, KeepsTypes
      <3> QED
        BY <1>i, <2>2, <3>2 DEF TypeOK
    <2> QED
      BY <1>d, <2>1, <2>2, <2>3, <2>4
  <1>8. CASE Restart
    <2>1. ASSUME NEW l \in Logins
          PROVE  /\ login'[l].pc # "create"
                 /\ login'[l].pc # "done" => login[l].pc # "done"
                 /\ login'[l] \in [pc : {"idle", "create", "done"},
                                  user : Users \union {NoUser}]
      <3>1. login[l] \in [pc : {"idle", "create", "done"},
                          user : Users \union {NoUser}]
        BY <1>i DEF TypeOK
      <3>2. CASE login[l].pc = "create"
        <4>1. login'[l] = [login[l] EXCEPT !.pc = "done"]
          BY <1>8, <3>2 DEF Restart
        <4> QED
          BY <3>1, <3>2, <4>1
      <3>3. CASE login[l].pc # "create"
        BY <1>8, <3>1, <3>3 DEF Restart
      <3> QED
        BY <3>2, <3>3
    <2>2. TypeOK'
      BY <1>i, <1>8, <2>1 DEF Restart, TypeOK, Idle
    <2>3. Unborn' /\ Known'
      BY <1>i, <1>8, <2>1 DEF Restart, Idle, Unborn, Known
    <2> QED
      BY <1>i, <1>8, <2>2, <2>3 DEF Restart, IInv, NoSessionOutlivesAChange, LogoutIsFinal, OnTime
  <1>9. CASE UNCHANGED vars
    BY <1>i, <1>9
       DEF vars, IInv, TypeOK, NoSessionOutlivesAChange, LogoutIsFinal, Unborn, Known, OnTime
  <1> QED
    BY <1>1, <1>2, <1>3, <1>4, <1>5, <1>6, <1>7, <1>8, <1>9 DEF Next

\* Sessions' type invariant.
THEOREM TypeCorrect == Spec => []TypeOK
  <1> QED
    BY Initially, Inductive, PTL DEF Spec, IInv

\* No session outlives a change of its user's password, for any number of
\* concurrent logins, requests, cleanups and restarts.  (UpdatePassword.)
THEOREM NoSessionOutlivesAChangeHolds == Spec => []NoSessionOutlivesAChange
  <1> QED
    BY Initially, Inductive, PTL DEF Spec, IInv

\* A session whose logout was reported as done never exists again.
THEOREM LogoutIsFinalHolds == Spec => []LogoutIsFinal
  <1> QED
    BY Initially, Inductive, PTL DEF Spec, IInv

\* A request is let through only for the user, the lifetime and the password of
\* the login that opened its session, and never after its logout.
THEOREM AuthenticatesOnlyLiveSessionsHolds == Spec => AuthenticatesOnlyLiveSessions
  <1> DEFINE Through(q) ==
        request[q].pc = "idle" /\ request'[q].pc # "idle" =>
            LET t == request'[q].token IN
            /\ t \notin loggedOut
            /\ request'[q].user = opened[t].user
            /\ now < opened[t].at + Lifetime
            /\ opened[t].current = password[opened[t].user]
  <1>1. ASSUME IInv, [Next]_vars, NEW q \in Requests PROVE Through(q)
    <2> USE DEF IInv
    <2>1. CASE RequireLogin(q)
      <3>1. PICK t \in issued, operation \in {"logout", "password"} :
               /\ Live(t)
               /\ request' = [request EXCEPT ![q] =
                                 [pc |-> operation, token |-> t, user |-> sessions[t].user]]
        BY <2>1 DEF RequireLogin
      <3>2. request'[q] = [pc |-> operation, token |-> t, user |-> sessions[t].user]
        BY <1>1, <3>1 DEF TypeOK
      <3>3. /\ t \notin loggedOut
            /\ sessions[t].user = opened[t].user
            /\ now < opened[t].at + Lifetime
            /\ opened[t].current = password[opened[t].user]
        BY <1>1, <3>1, SessionAssumption
           DEF Live, LogoutIsFinal, NoSessionOutlivesAChange, OnTime, TypeOK
      <3> QED
        BY <3>2, <3>3
    <2>2. ASSUME NEW r \in Requests, r # q, RequireLogin(r) PROVE Through(q)
      BY <1>1, <2>2 DEF RequireLogin, TypeOK
    <2>3. ASSUME NEW r \in Requests, PostLogout(r) \/ PostPassword(r) PROVE Through(q)
      BY <1>1, <2>3 DEF PostLogout, PostPassword, Finish, Idle, TypeOK
    <2>4. CASE UNCHANGED request
      BY <2>4
    <2>5. CASE Restart
      BY <2>5 DEF Restart, Idle
    <2> QED
      BY <1>1, <2>1, <2>2, <2>3, <2>4, <2>5
         DEF Next, vars, Tick, FindUser, CreateSession, CleanupExpired
  <1>2. IInv /\ [Next]_vars => \A q \in Requests : Through(q)
    BY <1>1
  <1> QED
    BY <1>2, Initially, Inductive, PTL DEF Spec, AuthenticatesOnlyLiveSessions

\* Two times of which the first does not come in a later second than the second
\* are less than a second apart, or in order.
LEMMA WithinASecond ==
    ASSUME NEW e \in Nat, NEW n \in Nat, e \div TicksPerSecond <= n \div TicksPerSecond
    PROVE  e < n + TicksPerSecond
  <1> DEFINE T == TicksPerSecond
  <1>1. T \in 1..10
    BY SessionAssumption
  <1>2. CASE T = 1
    BY <1>2
  <1>3. CASE T = 2
    BY <1>3
  <1>4. CASE T = 3
    BY <1>4
  <1>5. CASE T = 4
    BY <1>5
  <1>6. CASE T = 5
    BY <1>6
  <1>7. CASE T = 6
    BY <1>7
  <1>8. CASE T = 7
    BY <1>8
  <1>9. CASE T = 8
    BY <1>9
  <1>10. CASE T = 9
    BY <1>10
  <1>11. CASE T = 10
    BY <1>11
  <1> QED
    BY <1>1, <1>2, <1>3, <1>4, <1>5, <1>6, <1>7, <1>8, <1>9, <1>10, <1>11

\* The cleanup removes no session more than a second before it expires, whatever
\* the two times look like as text.  (CleanupExpired; RFC3339Nano.)
THEOREM CleanupIsAccurateHolds == Spec => CleanupIsAccurate
  <1> DEFINE Early(t) == Unattended => sessions[t].expires < now + TicksPerSecond
  <1>1. ASSUME IInv, [Next]_vars, NEW t \in DOMAIN sessions \ DOMAIN sessions'
        PROVE  Early(t)
    <2> SUFFICES ASSUME Unattended PROVE sessions[t].expires < now + TicksPerSecond
      OBVIOUS
    <2>t. TypeOK
      BY <1>1 DEF IInv
    <2>1. CASE CleanupExpired
      <3>1. Removable(t)
        BY <2>1 DEF CleanupExpired, Keeping
      <3>2. sessions[t].expires \in Nat /\ now \in Nat
        BY <2>t DEF TypeOK
      <3>3. sessions[t].expires \div TicksPerSecond <= now \div TicksPerSecond
        BY <3>1, <3>2, SessionAssumption DEF Removable, TextBefore
      <3> QED
        BY <3>2, <3>3, WithinASecond
    <2>2. ASSUME NEW q \in Requests, RequireLogin(q) \/ PostLogout(q) \/ PostPassword(q)
          PROVE  FALSE
      <3>1. RequireLogin(q) => UNCHANGED sessions
        BY DEF RequireLogin
      <3>2. (request'[q] = request[q] /\ request[q].pc # "idle") \/ RequireLogin(q)
        BY <2>2 DEF Unattended, PostLogout, PostPassword
      <3>3. ~RequireLogin(q) => request'[q] = Idle
        BY <2>2, <2>t DEF PostLogout, PostPassword, Finish, TypeOK
      <3> QED
        BY <3>1, <3>2, <3>3 DEF Idle
    <2>3. ASSUME NEW l \in Logins, CreateSession(l) PROVE FALSE
      BY <2>3 DEF CreateSession, InsertSession
    <2>4. ~UNCHANGED sessions
      OBVIOUS
    <2> QED
      BY <1>1, <2>1, <2>2, <2>3, <2>4 DEF Next, vars, Tick, FindUser, Restart
  <1>2. IInv /\ [Next]_vars => \A t \in DOMAIN sessions \ DOMAIN sessions' : Early(t)
    BY <1>1
  <1> QED
    BY <1>2, Initially, Inductive, PTL DEF Spec, CleanupIsAccurate

=============================================================================
