---------------------------- MODULE LoginLimiter ----------------------------
(***************************************************************************)
(* The limits on login: a token bucket over all logins and a fixed window  *)
(* per account in a table of bounded size, as concurrent calls of          *)
(* auth.Service.Login use them.                                            *)
(*                                                                         *)
(* Time is counted in ticks and the bucket in the ticks it took to fill:   *)
(* one token is RefillTicks of them, so that tokens of a fraction of a     *)
(* second are exact.  The clock does not run backwards (time.Now carries a *)
(* monotonic reading).                                                     *)
(***************************************************************************)
EXTENDS Integers, Sequences, FiniteSets

CONSTANTS
    Logins,             \* concurrent calls of Login
    Accounts,           \* normalized e-mail addresses, registered or not
    MaxAccountEntries, AccountAttempts, AccountWindow, GlobalBurst, RefillTicks,
    NoAccount,
    MaxTime             \* bound: the last tick

ASSUME LimitsAssumption ==
    /\ MaxAccountEntries \in Nat
    /\ AccountAttempts \in Nat \ {0}
    /\ AccountWindow \in Nat
    /\ GlobalBurst \in Nat
    /\ RefillTicks \in Nat \ {0}
    /\ NoAccount \notin Accounts
    /\ MaxTime \in Nat

VARIABLES
    now,                \* the clock
    tokens,             \* LoginLimiter.tokens, in ticks
    last,               \* LoginLimiter.last
    accounts,           \* LoginLimiter.accounts: a partial function of Accounts
    login,              \* login[l]: the next step of a call and its account
    spent,              \* auxiliary: ticks paid for all logins let through
    successes,          \* auxiliary: how often an account was logged into
    admitted            \* auxiliary: every login of an account that was let
                        \* through, when and after how many successes

limiterVars == <<tokens, last, accounts>>
vars == <<now, limiterVars, login, spent, successes, admitted>>

Idle == [pc |-> "idle", account |-> NoAccount]

Capacity == GlobalBurst * RefillTicks

Init ==
    /\ now = 0
    /\ tokens = Capacity
    /\ last = 0
    /\ accounts = <<>>
    /\ login = [l \in Logins |-> Idle]
    /\ spent = 0
    /\ successes = [a \in Accounts |-> 0]
    /\ admitted = [a \in Accounts |-> <<>>]

Tick ==
    /\ now < MaxTime
    /\ now' = now + 1
    /\ UNCHANGED <<limiterVars, login, spent, successes, admitted>>

-----------------------------------------------------------------------------
(* The limiter; each call holds its mutex.                                 *)

\* (faulty variant: the refill is not capped)
RefilledWithoutCap == tokens + (now - last)

Refilled ==
    LET filled == tokens + (now - last)
    IN  IF filled > Capacity THEN Capacity ELSE filled

\* (faulty variant: a login is let through for any fraction of a token)
TokenAvailableIfAny == Refilled > 0

TokenAvailable == Refilled >= RefillTicks

Spend ==
    /\ TokenAvailable
    /\ tokens' = Refilled - RefillTicks
    /\ last' = now
    /\ spent' = spent + RefillTicks

Refuse ==
    /\ ~TokenAvailable
    /\ tokens' = Refilled
    /\ last' = now
    /\ UNCHANGED spent

\* The entries left by evictExpired: those whose window has not passed, the
\* very end of it included.
Kept == {a \in DOMAIN accounts : accounts[a].reset >= now}

\* (faulty variant: a full table makes room by dropping its entries)
TableAfterEvictAll(a) ==
    IF a \notin Kept /\ Cardinality(Kept) >= MaxAccountEntries THEN {} ELSE Kept

Table(a) == Kept

\* (faulty variants: the boundary of the table and of the count)
HasRoomInclusive(a) == a \in Kept \/ Cardinality(Kept) <= MaxAccountEntries

HasRoom(a) == a \in Kept \/ Cardinality(Kept) < MaxAccountEntries

\* (faulty variant: every attempt starts the window again)
EntrySliding(a) ==
    IF a \in Kept THEN [accounts[a] EXCEPT !.reset = now + AccountWindow]
                  ELSE [count |-> 0, reset |-> now + AccountWindow]

\* The entry AllowAccount works on: the one it found, or a new window.
Entry(a) ==
    IF a \in Kept THEN accounts[a] ELSE [count |-> 0, reset |-> now + AccountWindow]

Admits(a) == HasRoom(a) /\ Entry(a).count < AccountAttempts

-----------------------------------------------------------------------------
(* auth.Service.Login, call l.                                             *)

Goto(l, next, a) == login' = [login EXCEPT ![l] = [pc |-> next, account |-> a]]

Return(l) == login' = [login EXCEPT ![l] = Idle]

\* AllowGlobal: an address that does not normalize ends the call here.
AllowGlobal(l) ==
    /\ login[l].pc = "idle"
    /\ \/ Spend /\ \E a \in Accounts : Goto(l, "account", a)
       \/ Spend /\ UNCHANGED login
       \/ Refuse /\ UNCHANGED login
    /\ UNCHANGED <<now, accounts, successes, admitted>>

\* AllowAccount, after which the password is verified or the call ends.
AllowAccount(l) ==
    /\ login[l].pc = "account"
    /\ LET a == login[l].account IN
       \/ /\ Admits(a)
          /\ accounts' = [b \in Table(a) \union {a} |->
                             IF b = a THEN [Entry(a) EXCEPT !.count = @ + 1]
                                      ELSE accounts[b]]
          /\ admitted' = [admitted EXCEPT ![a] = Append(@, [at |-> now, after |-> successes[a]])]
          /\ Goto(l, "verify", a)
       \/ /\ ~Admits(a)
          /\ accounts' = [b \in Table(a) |-> accounts[b]]
          /\ Return(l)
          /\ UNCHANGED admitted
    /\ UNCHANGED <<now, tokens, last, spent, successes>>

\* An unknown account, a wrong password or a database error.
Reject(l) ==
    /\ login[l].pc = "verify"
    /\ Return(l)
    /\ UNCHANGED <<now, limiterVars, spent, successes, admitted>>

\* The password matches: Reset forgets the account, the logins of other calls
\* that were counted for it included.
Accept(l) ==
    /\ login[l].pc = "verify"
    /\ accounts' = [b \in DOMAIN accounts \ {login[l].account} |-> accounts[b]]
    /\ successes' = [successes EXCEPT ![login[l].account] = @ + 1]
    /\ Return(l)
    /\ UNCHANGED <<now, tokens, last, spent, admitted>>

Next ==
    \/ Tick
    \/ \E l \in Logins : AllowGlobal(l) \/ AllowAccount(l) \/ Reject(l) \/ Accept(l)

Spec == Init /\ [][Next]_vars

-----------------------------------------------------------------------------
(* Properties.                                                             *)

TypeOK ==
    /\ now \in Nat
    /\ tokens \in 0..Capacity
    /\ last \in 0..now
    /\ DOMAIN accounts \subseteq Accounts
    /\ \A a \in DOMAIN accounts :
          /\ accounts[a].count \in 1..AccountAttempts
          /\ accounts[a].reset \in 0..(now + AccountWindow)
    /\ login \in [Logins -> [pc : {"idle", "account", "verify"},
                             account : Accounts \union {NoAccount}]]
    /\ spent \in Nat
    /\ successes \in [Accounts -> Nat]
    /\ admitted \in [Accounts -> Seq([at : Nat, after : Nat])]

\* However the calls are timed, no more logins are let through than the burst
\* and what the elapsed time refilled.  (AllowGlobal and refill.)
GlobalRateIsBounded == spent <= Capacity + now

\* However many callers share an account and whatever else fills the table: of all
\* the logins of an account that are let through, fewer than two windows' worth and
\* one more for each success among them lie within one window.  A window that
\* starts when the last one ends may be used up at once, and every success forgets
\* what was counted, the failures of other callers too.  (AllowAccount and Reset;
\* eviction of entries must not forget a live window.)
AccountRateIsBounded ==
    \A a \in Accounts :
        \A k \in DOMAIN admitted[a] : \A i \in 1..k :
            LET first == admitted[a][i]
                later == admitted[a][k]
            IN  k - i + 1 >= (2 + later.after - first.after) * AccountAttempts
                    => later.at - first.at > AccountWindow

\* The table never outgrows its limit.  (AllowAccount's test of len(accounts).)
TableIsBounded == Cardinality(DOMAIN accounts) <= MaxAccountEntries

\* A locked account is not locked for longer by further attempts: while an
\* entry lives the end of its window stays.  (AllowAccount writes reset only
\* when a window begins.)
WindowIsNotExtended ==
    [][\A a \in DOMAIN accounts \intersect DOMAIN accounts' :
          accounts[a].reset >= now => accounts'[a].reset = accounts[a].reset]_vars

=============================================================================
