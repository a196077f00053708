------------------------ MODULE LoginLimiter_proofs ------------------------
(***************************************************************************)
(* Proofs about LoginLimiter, for any number of logins and accounts and    *)
(* any limits.                                                             *)
(***************************************************************************)
EXTENDS LoginLimiter, FiniteSetTheorems, TLAPS

Entries == [count : 1..AccountAttempts, reset : Nat]

\* The account of a call that has passed AllowGlobal is one.
TypeInv ==
    /\ TypeOK
    /\ \A a \in DOMAIN accounts : accounts[a] \in Entries
    /\ \A l \in Logins : login[l].pc # "idle" => login[l].account \in Accounts

LEMMA CapacityType == Capacity \in Nat
BY LimitsAssumption DEF Capacity

-----------------------------------------------------------------------------
(* What the steps do to the table                                          *)

\* An account's entry is kept, dropped once its window has passed, or (of the
\* account that AllowAccount lets in) counted.
Keeps(a) == a \in DOMAIN accounts /\ a \in DOMAIN accounts' /\ accounts'[a] = accounts[a]
Drops(a) == a \notin DOMAIN accounts' /\ (a \in DOMAIN accounts => accounts[a].reset < now)
Counts(a) ==
    /\ a \in DOMAIN accounts /\ a \in DOMAIN accounts'
    /\ accounts[a].count < AccountAttempts
    /\ accounts[a].reset >= now
    /\ accounts'[a] = [accounts[a] EXCEPT !.count = @ + 1]
Opens(a) ==
    /\ a \in DOMAIN accounts => accounts[a].reset < now
    /\ a \in DOMAIN accounts'
    /\ accounts'[a] = [count |-> 1, reset |-> now + AccountWindow]

Admission(a) ==
    /\ a \in Accounts
    /\ Counts(a) \/ Opens(a)
    /\ \A b \in Accounts \ {a} : Keeps(b) \/ Drops(b)
    /\ DOMAIN accounts' = Kept \union {a}
    /\ a \in Kept \/ Cardinality(Kept) < MaxAccountEntries
    /\ admitted' = [admitted EXCEPT ![a] = Append(@, [at |-> now, after |-> successes[a]])]
Eviction ==
    /\ \A b \in Accounts : Keeps(b) \/ Drops(b)
    /\ DOMAIN accounts' = Kept
    /\ UNCHANGED admitted

LEMMA AllowAccountEffects ==
    ASSUME TypeInv, NEW l \in Logins, AllowAccount(l)
    PROVE  Eviction \/ \E a \in Accounts : Admission(a)
<1> DEFINE a == login[l].account
<1>1. a \in Accounts
  BY DEF TypeInv, AllowAccount
<1>2. /\ now \in Int /\ DOMAIN accounts \subseteq Accounts
      /\ \A b \in DOMAIN accounts : accounts[b] \in Entries
  BY DEF TypeInv, TypeOK
<1>3. \A b \in DOMAIN accounts : b \notin Kept => accounts[b].reset < now
  BY <1>2 DEF Kept, Entries
<1> HIDE DEF a
<1>4. CASE Admits(a) /\ accounts' = [b \in Table(a) \union {a} |->
                             IF b = a THEN [Entry(a) EXCEPT !.count = @ + 1] ELSE accounts[b]]
           /\ admitted' = [admitted EXCEPT
                                ![a] = Append(@, [at |-> now, after |-> successes[a]])]
  <2>1. DOMAIN accounts' = Kept \union {a}
    BY <1>4 DEF Table
  <2>2. ASSUME NEW b \in Accounts, b # a PROVE Keeps(b) \/ Drops(b)
    <3>1. CASE b \in Kept
      BY <1>4, <2>1, <2>2, <3>1 DEF Keeps, Kept, Table
    <3>2. CASE b \notin Kept
      BY <1>3, <2>1, <2>2, <3>2 DEF Drops
    <3> QED
      BY <3>1, <3>2
  <2>3. accounts'[a] = [Entry(a) EXCEPT !.count = @ + 1]
    BY <1>4
  <2>4. CASE a \in Kept
    <3>1. Entry(a) = accounts[a] /\ accounts[a].reset >= now /\ a \in DOMAIN accounts
      BY <2>4 DEF Entry, Kept
    <3>2. accounts[a].count < AccountAttempts
      BY <1>4, <3>1 DEF Admits
    <3>3. Counts(a)
      BY <2>1, <2>3, <3>1, <3>2 DEF Counts
    <3> QED
      BY <1>1, <1>4, <2>1, <2>2, <2>4, <3>3 DEF Admission
  <2>5. CASE a \notin Kept
    <3>1. Entry(a) = [count |-> 0, reset |-> now + AccountWindow]
      BY <2>5 DEF Entry
    <3>2. accounts'[a] = [count |-> 1, reset |-> now + AccountWindow]
      BY <2>3, <3>1
    <3>3. Opens(a)
      BY <1>3, <2>1, <2>5, <3>2 DEF Opens
    <3>4. Cardinality(Kept) < MaxAccountEntries
      BY <1>4, <2>5 DEF Admits, HasRoom
    <3> QED
      BY <1>1, <1>4, <2>1, <2>2, <3>3, <3>4 DEF Admission
  <2> QED
    BY <2>4, <2>5
<1>5. CASE accounts' = [b \in Table(a) |-> accounts[b]] /\ UNCHANGED admitted
  <2>1. DOMAIN accounts' = Kept
    BY <1>5 DEF Table
  <2>2. ASSUME NEW b \in Accounts PROVE Keeps(b) \/ Drops(b)
    <3>1. CASE b \in Kept
      BY <1>5, <3>1 DEF Keeps, Kept, Table
    <3>2. CASE b \notin Kept
      BY <1>3, <2>1, <3>2 DEF Drops
    <3> QED
      BY <3>1, <3>2
  <2> QED
    BY <1>5, <2>1, <2>2 DEF Eviction
<1> QED
  BY <1>4, <1>5 DEF AllowAccount, a

-----------------------------------------------------------------------------
(* Types                                                                   *)

LEMMA RefilledType ==
    ASSUME TypeInv
    PROVE  Refilled \in 0..Capacity /\ Refilled <= tokens + (now - last)
BY CapacityType DEF TypeInv, TypeOK, Refilled

LEMMA GlobalTypes ==
    ASSUME TypeInv, Spend \/ Refuse
    PROVE  tokens' \in 0..Capacity /\ last' = now /\ spent' \in Nat
<1>1. spent \in Nat /\ RefillTicks \in Nat
  BY LimitsAssumption DEF TypeInv, TypeOK
<1> QED
  BY <1>1, RefilledType, CapacityType DEF Spend, Refuse, TokenAvailable

LEMMA EntryTypes ==
    ASSUME TypeInv, Eviction \/ \E a \in Accounts : Admission(a)
    PROVE  /\ DOMAIN accounts' \subseteq Accounts
           /\ \A b \in DOMAIN accounts' : /\ accounts'[b] \in Entries
                                         /\ accounts'[b].reset <= now + AccountWindow
<1>1. /\ now \in Nat /\ AccountWindow \in Nat /\ AccountAttempts \in Nat \ {0}
      /\ DOMAIN accounts \subseteq Accounts
      /\ \A b \in DOMAIN accounts : /\ accounts[b] \in Entries
                                    /\ accounts[b].reset <= now + AccountWindow
  BY LimitsAssumption DEF TypeInv, TypeOK
<1>2. DOMAIN accounts' \subseteq Accounts
  BY <1>1 DEF Eviction, Admission, Kept
<1>3. ASSUME NEW b \in DOMAIN accounts', Keeps(b) \/ Drops(b) \/ Counts(b) \/ Opens(b)
      PROVE  accounts'[b] \in Entries /\ accounts'[b].reset <= now + AccountWindow
  <2>1. CASE Keeps(b)
    BY <1>1, <2>1 DEF Keeps
  <2>2. CASE Drops(b)
    BY <1>3, <2>2 DEF Drops
  <2>3. CASE Counts(b)
    <3> DEFINE e == accounts[b]
    <3>1. e \in Entries /\ e.reset <= now + AccountWindow /\ e.count < AccountAttempts
      BY <1>1, <2>3 DEF Counts
    <3>2. accounts'[b] = [e EXCEPT !.count = @ + 1]
      BY <2>3 DEF Counts
    <3> HIDE DEF e
    <3> QED
      BY <1>1, <3>1, <3>2 DEF Entries
  <2>4. CASE Opens(b)
    BY <1>1, <2>4 DEF Opens, Entries
  <2> QED
    BY <1>3, <2>1, <2>2, <2>3, <2>4
<1>4. \A b \in DOMAIN accounts' : Keeps(b) \/ Drops(b) \/ Counts(b) \/ Opens(b)
  BY <1>2 DEF Eviction, Admission
<1> QED
  BY <1>2, <1>3, <1>4

CallTypes ==
    /\ login \in [Logins -> [pc : {"idle", "account", "verify"},
                             account : Accounts \union {NoAccount}]]
    /\ \A l \in Logins : login[l].pc # "idle" => login[l].account \in Accounts

LEMMA GotoTypes ==
    ASSUME CallTypes, NEW l \in Logins, NEW next \in {"account", "verify"}, NEW a \in Accounts,
           Goto(l, next, a)
    PROVE  CallTypes'
BY DEF CallTypes, Goto

LEMMA ReturnTypes ==
    ASSUME CallTypes, NEW l \in Logins, Return(l)
    PROVE  CallTypes'
BY DEF CallTypes, Return, Idle

LEMMA StepTypes ==
    ASSUME TypeInv, NEW l \in Logins,
           AllowGlobal(l) \/ AllowAccount(l) \/ Reject(l) \/ Accept(l)
    PROVE  CallTypes'
<1>1. CallTypes
  BY DEF TypeInv, TypeOK, CallTypes
<1>2. CASE AllowGlobal(l)
  <2>1. UNCHANGED login => CallTypes'
    BY <1>1 DEF CallTypes
  <2> QED
    BY <1>1, <1>2, <2>1, GotoTypes DEF AllowGlobal
<1>3. CASE AllowAccount(l)
  <2>1. login[l].account \in Accounts
    BY <1>1, <1>3 DEF AllowAccount, CallTypes
  <2> QED
    BY <1>1, <1>3, <2>1, GotoTypes, ReturnTypes DEF AllowAccount
<1>4. CASE Reject(l)
  BY <1>1, <1>4, ReturnTypes DEF Reject
<1>5. CASE Accept(l)
  BY <1>1, <1>5, ReturnTypes DEF Accept
<1> QED
  BY <1>2, <1>3, <1>4, <1>5

Logs == Seq([at : Nat, after : Nat])

Histories == successes \in [Accounts -> Nat] /\ admitted \in [Accounts -> Logs]

LEMMA TypeStep == TypeInv /\ [Next]_vars => TypeInv'
<1> SUFFICES ASSUME TypeInv, [Next]_vars PROVE TypeInv'
  OBVIOUS
<1>1. /\ now \in Nat /\ tokens \in 0..Capacity /\ last \in 0..now /\ spent \in Nat
      /\ DOMAIN accounts \subseteq Accounts
      /\ \A a \in DOMAIN accounts : /\ accounts[a] \in Entries
                                    /\ accounts[a].reset <= now + AccountWindow
      /\ Histories /\ CallTypes
      /\ AccountWindow \in Nat
  BY LimitsAssumption DEF TypeInv, TypeOK, CallTypes, Histories, Logs
<1>2. ASSUME now' \in Nat, tokens' \in 0..Capacity, last' \in 0..now', spent' \in Nat,
             DOMAIN accounts' \subseteq Accounts,
             \A a \in DOMAIN accounts' : /\ accounts'[a] \in Entries
                                         /\ accounts'[a].reset <= now' + AccountWindow,
             Histories', CallTypes'
      PROVE  TypeInv'
  <2>1. \A a \in DOMAIN accounts' : /\ accounts'[a].count \in 1..AccountAttempts
                                    /\ accounts'[a].reset \in 0..(now' + AccountWindow)
    BY <1>1, <1>2 DEF Entries
  <2> QED
    BY <1>2, <2>1 DEF TypeInv, TypeOK, CallTypes, Capacity, Histories, Logs
<1>3. CASE Tick
  <2>1. now' = now + 1 /\ UNCHANGED <<tokens, last, accounts, login, spent, successes, admitted>>
    BY <1>3 DEF Tick, limiterVars
  <2>2. CallTypes' /\ Histories'
    BY <1>1, <2>1 DEF CallTypes, Histories
  <2>3. \A a \in DOMAIN accounts' : accounts'[a].reset <= now' + AccountWindow
    BY <1>1, <2>1 DEF Entries
  <2> QED
    BY <1>1, <1>2, <2>1, <2>2, <2>3
<1>4. ASSUME NEW l \in Logins, AllowGlobal(l) PROVE TypeInv'
  <2>1. UNCHANGED <<now, accounts, successes, admitted>> /\ (Spend \/ Refuse)
    BY <1>4 DEF AllowGlobal
  <2>2. Histories'
    BY <1>1, <2>1 DEF Histories
  <2> QED
    BY <1>1, <1>2, <1>4, <2>1, <2>2, GlobalTypes, StepTypes
<1>5. ASSUME NEW l \in Logins, AllowAccount(l) PROVE TypeInv'
  <2>1. UNCHANGED <<now, tokens, last, spent, successes>>
    BY <1>5 DEF AllowAccount
  <2>2. Eviction \/ \E a \in Accounts : Admission(a)
    BY <1>5, AllowAccountEffects
  <2>3. Histories'
    <3>1. CASE Eviction
      BY <1>1, <2>1, <3>1 DEF Eviction, Histories
    <3>2. ASSUME NEW a \in Accounts, Admission(a) PROVE Histories'
      <4> DEFINE e == [at |-> now, after |-> successes[a]]
      <4>1. e \in [at : Nat, after : Nat]
        BY <1>1 DEF Histories
      <4>2. admitted' = [admitted EXCEPT ![a] = Append(@, e)]
        BY <3>2 DEF Admission
      <4> HIDE DEF e
      <4>3. Append(admitted[a], e) \in Logs
        BY <1>1, <4>1 DEF Histories, Logs
      <4> QED
        BY <1>1, <2>1, <4>2, <4>3 DEF Histories
    <3> QED
      BY <2>2, <3>1, <3>2
  <2> QED
    BY <1>1, <1>2, <1>5, <2>1, <2>2, <2>3, EntryTypes, StepTypes
<1>6. ASSUME NEW l \in Logins, Reject(l) PROVE TypeInv'
  <2>1. UNCHANGED <<now, tokens, last, accounts, spent, successes, admitted>>
    BY <1>6 DEF Reject, limiterVars
  <2>2. Histories'
    BY <1>1, <2>1 DEF Histories
  <2> QED
    BY <1>1, <1>2, <1>6, <2>1, <2>2, StepTypes
<1>7. ASSUME NEW l \in Logins, Accept(l) PROVE TypeInv'
  <2>1. Histories'
    <3> DEFINE a == login[l].account
    <3>1. a \in Accounts /\ admitted' = admitted /\ successes' = [successes EXCEPT ![a] = @ + 1]
      BY <1>7 DEF Accept, TypeInv
    <3> HIDE DEF a
    <3>2. successes \in [Accounts -> Nat] /\ successes[a] + 1 \in Nat
      BY <1>1, <3>1 DEF Histories
    <3>3. successes' \in [Accounts -> Nat]
      BY <3>1, <3>2
    <3> QED
      BY <1>1, <3>1, <3>3 DEF Histories
  <2>2. /\ UNCHANGED <<now, tokens, last, spent>>
        /\ DOMAIN accounts' \subseteq DOMAIN accounts
        /\ \A b \in DOMAIN accounts' : accounts'[b] = accounts[b]
    BY <1>7 DEF Accept
  <2> QED
    BY <1>1, <1>2, <1>7, <2>1, <2>2, StepTypes
<1>8. CASE UNCHANGED vars
  <2>1. Histories' /\ CallTypes'
    BY <1>1, <1>8 DEF vars, Histories, CallTypes
  <2> QED
    BY <1>1, <1>2, <1>8, <2>1 DEF vars, limiterVars
<1> QED
  BY <1>3, <1>4, <1>5, <1>6, <1>7, <1>8 DEF Next

LEMMA TypeInit == Init => TypeInv
BY CapacityType, LimitsAssumption DEF Init, Idle, TypeInv, TypeOK

LEMMA TypeHolds == Spec => []TypeInv
BY TypeInit, TypeStep, PTL DEF Spec

\* Every variable of the limiter, and every call, keeps its type.
THEOREM TypeCorrect == Spec => []TypeOK
<1>1. TypeInv => TypeOK
  BY DEF TypeInv
<1> QED
  BY <1>1, TypeHolds, PTL

-----------------------------------------------------------------------------
(* The rate of all logins                                                  *)

\* What was paid and what is left never exceed the burst and the refill.
Balance == spent + tokens <= Capacity + last

LEMMA BalanceStep == TypeInv /\ Balance /\ [Next]_vars => Balance'
<1> SUFFICES ASSUME TypeInv, Balance, [Next]_vars PROVE Balance'
  OBVIOUS
<1>1. spent \in Nat /\ tokens \in Nat /\ last \in Nat /\ now \in Nat
  BY CapacityType DEF TypeInv, TypeOK
<1>2. UNCHANGED <<spent, tokens, last>> => Balance'
  BY DEF Balance, Capacity
<1>3. ASSUME Spend \/ Refuse PROVE Balance'
  <2>1. /\ Refilled \in Nat /\ Refilled <= tokens + (now - last)
        /\ RefillTicks \in Nat /\ Capacity \in Nat
    BY RefilledType, CapacityType, LimitsAssumption
  <2>2. \/ spent' = spent + RefillTicks /\ tokens' = Refilled - RefillTicks /\ last' = now
        \/ spent' = spent /\ tokens' = Refilled /\ last' = now
    BY <1>3 DEF Spend, Refuse
  <2>3. Capacity' = Capacity
    BY DEF Capacity
  <2> QED
    BY <1>1, <2>1, <2>2, <2>3 DEF Balance
<1> QED
  BY <1>2, <1>3 DEF Next, vars, limiterVars, Tick, AllowGlobal, AllowAccount, Reject, Accept

\* For any number of concurrent logins and any limits: no more logins pass than the
\* burst and what the elapsed time refilled.
THEOREM GlobalRateIsBoundedHolds == Spec => []GlobalRateIsBounded
<1>1. Init => Balance
  BY CapacityType DEF Init, Balance
<1>2. TypeInv /\ Balance => GlobalRateIsBounded
  <2> SUFFICES ASSUME TypeInv, Balance PROVE spent <= Capacity + now
    BY DEF GlobalRateIsBounded
  <2>1. spent \in Nat /\ tokens \in Nat /\ last \in 0..now /\ now \in Nat /\ Capacity \in Nat
    BY CapacityType DEF TypeInv, TypeOK
  <2> QED
    BY <2>1 DEF Balance
<1> QED
  BY <1>1, <1>2, BalanceStep, TypeHolds, PTL DEF Spec

-----------------------------------------------------------------------------
(* The table                                                               *)

TableInv == IsFiniteSet(DOMAIN accounts) /\ TableIsBounded

LEMMA KeptFinite ==
    ASSUME TableInv
    PROVE  IsFiniteSet(Kept) /\ Cardinality(Kept) <= Cardinality(DOMAIN accounts)
           /\ Cardinality(Kept) \in Nat
<1>1. Kept \subseteq DOMAIN accounts
  BY DEF Kept
<1> QED
  BY <1>1, FS_Subset, FS_CardinalityType DEF TableInv

LEMMA TableStep == TypeInv /\ TableInv /\ [Next]_vars => TableInv'
<1> SUFFICES ASSUME TypeInv, TableInv, [Next]_vars PROVE TableInv'
  OBVIOUS
<1>1. /\ MaxAccountEntries \in Nat /\ Cardinality(DOMAIN accounts) \in Nat
      /\ IsFiniteSet(DOMAIN accounts) /\ Cardinality(DOMAIN accounts) <= MaxAccountEntries
  BY LimitsAssumption, FS_CardinalityType DEF TableInv, TableIsBounded
<1>2. UNCHANGED accounts => TableInv'
  BY DEF TableInv, TableIsBounded
<1>3. ASSUME NEW S, IsFiniteSet(S), Cardinality(S) <= MaxAccountEntries, DOMAIN accounts' = S
      PROVE  TableInv'
  BY <1>3 DEF TableInv, TableIsBounded
<1>4. /\ IsFiniteSet(Kept) /\ Cardinality(Kept) \in Nat
      /\ Cardinality(Kept) <= MaxAccountEntries
  BY <1>1, KeptFinite
<1>5. ASSUME NEW l \in Logins, AllowAccount(l) PROVE TableInv'
  <2>1. Eviction \/ \E a \in Accounts : Admission(a)
    BY <1>5, AllowAccountEffects
  <2>2. CASE Eviction
    BY <1>3, <1>4, <2>2 DEF Eviction
  <2>3. ASSUME NEW a \in Accounts, Admission(a) PROVE TableInv'
    <3>1. /\ DOMAIN accounts' = Kept \union {a}
          /\ a \in Kept \/ Cardinality(Kept) < MaxAccountEntries
      BY <2>3 DEF Admission
    <3>2. CASE a \in Kept
      <4>1. Kept \union {a} = Kept
        BY <3>2
      <4> QED
        BY <1>3, <1>4, <3>1, <4>1
    <3>3. CASE a \notin Kept /\ Cardinality(Kept) < MaxAccountEntries
      <4>1. /\ IsFiniteSet(Kept \union {a})
            /\ Cardinality(Kept \union {a}) = Cardinality(Kept) + 1
        BY <1>4, <3>3, FS_AddElement
      <4>2. Cardinality(Kept \union {a}) <= MaxAccountEntries
        BY <1>1, <1>4, <3>3, <4>1
      <4> QED
        BY <1>3, <3>1, <4>1, <4>2
    <3> QED
      BY <3>1, <3>2, <3>3
  <2> QED
    BY <2>1, <2>2, <2>3
<1>6. ASSUME NEW l \in Logins, Accept(l) PROVE TableInv'
  <2> DEFINE S == DOMAIN accounts \ {login[l].account}
  <2>1. DOMAIN accounts' = S
    BY <1>6 DEF Accept
  <2>2. S \subseteq DOMAIN accounts
    OBVIOUS
  <2> HIDE DEF S
  <2>3. IsFiniteSet(S) /\ Cardinality(S) <= Cardinality(DOMAIN accounts) /\ Cardinality(S) \in Nat
    BY <1>1, <2>2, FS_Subset, FS_CardinalityType
  <2> QED
    BY <1>1, <1>3, <2>1, <2>3
<1> QED
  BY <1>2, <1>5, <1>6 DEF Next, vars, limiterVars, Tick, AllowGlobal, Reject

\* For any number of accounts that are tried: the table never outgrows its limit.
THEOREM TableIsBoundedHolds == Spec => []TableIsBounded
<1>1. Init => TableInv
  <2>1. ASSUME Init PROVE DOMAIN accounts = {}
    BY <2>1 DEF Init
  <2> QED
    BY <2>1, FS_EmptySet, LimitsAssumption DEF TableInv, TableIsBounded
<1>2. TableInv => TableIsBounded
  BY DEF TableInv
<1> QED
  BY <1>1, <1>2, TableStep, TypeHolds, PTL DEF Spec

\* For any limits: while an entry lives the end of its window stays, however often
\* the account is tried.
THEOREM WindowIsNotExtendedHolds == Spec => WindowIsNotExtended
<1> DEFINE A == \A a \in DOMAIN accounts \intersect DOMAIN accounts' :
                   accounts[a].reset >= now => accounts'[a].reset = accounts[a].reset
<1>1. TypeInv /\ [Next]_vars => [A]_vars
  <2> SUFFICES ASSUME TypeInv, [Next]_vars,
                      NEW a \in DOMAIN accounts, a \in DOMAIN accounts', accounts[a].reset >= now
               PROVE  accounts'[a].reset = accounts[a].reset
    OBVIOUS
  <2>1. a \in Accounts /\ accounts[a] \in Entries /\ now \in Nat
    BY DEF TypeInv, TypeOK
  <2>2. UNCHANGED accounts => accounts'[a].reset = accounts[a].reset
    OBVIOUS
  <2>3. ASSUME NEW l \in Logins, AllowAccount(l) PROVE accounts'[a].reset = accounts[a].reset
    <3>1. Keeps(a) \/ Drops(a) \/ Counts(a) \/ Opens(a)
      BY <2>1, <2>3, AllowAccountEffects DEF Eviction, Admission
    <3>2. accounts[a].reset \in Nat
      BY <2>1 DEF Entries
    <3>3. CASE Counts(a)
      <4> DEFINE e == accounts[a]
      <4>1. e \in Entries /\ accounts'[a] = [e EXCEPT !.count = @ + 1]
        BY <2>1, <3>3 DEF Counts
      <4> HIDE DEF e
      <4>2. accounts'[a].reset = e.reset
        BY <4>1 DEF Entries
      <4> QED
        BY <4>2 DEF e
    <3>4. ~Drops(a) /\ ~Opens(a)
      BY <2>1, <3>2 DEF Drops, Opens
    <3> QED
      BY <3>1, <3>3, <3>4 DEF Keeps
  <2>4. ASSUME NEW l \in Logins, Accept(l) PROVE accounts'[a].reset = accounts[a].reset
    BY <2>4 DEF Accept
  <2> QED
    BY <2>2, <2>3, <2>4 DEF Next, vars, limiterVars, Tick, AllowGlobal, Reject
<1> QED
  BY <1>1, TypeHolds, PTL DEF Spec, WindowIsNotExtended

-----------------------------------------------------------------------------
(* The rate of an account                                                  *)

\* A window's worth of logins, and one more for each of n successes.
Worth(n) == (1 + n) * AccountAttempts

\* The logins s of an account that was logged into g times, while its window (count
\* c, end r) lives: all but the last c - 1 came no later than its beginning, and all
\* but those and their worth more than another window before that.
Windowed(s, g, c, r) ==
    \A j \in 1..Len(s) :
        /\ j <= Len(s) + 1 - c => s[j].at + AccountWindow <= r
        /\ j <= Len(s) + 1 - c - Worth(g - s[j].after) =>
               s[j].at + AccountWindow + AccountWindow < r

\* ... and at t, when the account has no entry: all but their worth are older than a
\* window.
Unwindowed(s, g, t) ==
    \A j \in 1..Len(s) :
        j <= Len(s) + 1 - Worth(g - s[j].after) => s[j].at + AccountWindow < t

Spaced(s) ==
    \A k \in 1..Len(s) : \A i \in 1..k :
        k - i + 1 >= (2 + s[k].after - s[i].after) * AccountAttempts
            => s[k].at - s[i].at > AccountWindow

Past(s, g, t) == \A j \in 1..Len(s) : s[j].at <= t /\ s[j].after <= g

Pace(a) ==
    /\ Past(admitted[a], successes[a], now)
    /\ Spaced(admitted[a])
    /\ a \in DOMAIN accounts =>
           Windowed(admitted[a], successes[a], accounts[a].count, accounts[a].reset)
    /\ a \notin DOMAIN accounts => Unwindowed(admitted[a], successes[a], now)

PaceInv == \A a \in Accounts : Pace(a)

LEMMA Worths ==
    ASSUME NEW n \in Nat
    PROVE  /\ Worth(n) \in Nat /\ Worth(n) >= AccountAttempts
           /\ Worth(n + 1) = Worth(n) + AccountAttempts
           /\ (2 + n) * AccountAttempts = Worth(n) + AccountAttempts
<1>1. AccountAttempts \in Nat
  BY LimitsAssumption
<1>2. n * AccountAttempts \in Nat
  BY <1>1
<1>3. /\ (1 + n) * AccountAttempts = n * AccountAttempts + AccountAttempts
      /\ (1 + (n + 1)) * AccountAttempts = n * AccountAttempts + AccountAttempts + AccountAttempts
      /\ (2 + n) * AccountAttempts = n * AccountAttempts + AccountAttempts + AccountAttempts
  BY <1>1
<1> DEFINE m == n * AccountAttempts
<1> HIDE DEF m
<1> QED
  BY <1>1, <1>2, <1>3 DEF Worth, m

\* The worth of what was let through before, for a login of the log.
LEMMA WorthOf ==
    ASSUME NEW s \in Logs, NEW g \in Nat, NEW t \in Nat, Past(s, g, t), NEW j \in 1..Len(s)
    PROVE  /\ s[j].at \in Nat /\ s[j].after \in Nat /\ g - s[j].after \in Nat
           /\ Worth(g - s[j].after) \in Nat /\ Worth(g - s[j].after) >= AccountAttempts
           /\ Worth((g + 1) - s[j].after) = Worth(g - s[j].after) + AccountAttempts
           /\ (2 + g - s[j].after) * AccountAttempts = Worth(g - s[j].after) + AccountAttempts
<1>1. s[j] \in [at : Nat, after : Nat]
  <2> DEFINE E == [at : Nat, after : Nat]
  <2>1. s \in Seq(E)
    BY DEF Logs
  <2> HIDE DEF E
  <2>2. s[j] \in E
    BY <2>1
  <2> QED
    BY <2>2 DEF E
<1> DEFINE n == g - s[j].after
<1>2. s[j].at \in Nat /\ s[j].after \in Nat /\ n \in Nat
  BY <1>1 DEF Past
<1>3. (g + 1) - s[j].after = n + 1 /\ 2 + g - s[j].after = 2 + n
  BY <1>2
<1> HIDE DEF n
<1>4. /\ Worth(n) \in Nat /\ Worth(n) >= AccountAttempts
      /\ Worth(n + 1) = Worth(n) + AccountAttempts
      /\ (2 + n) * AccountAttempts = Worth(n) + AccountAttempts
  BY <1>2, Worths
<1> QED
  BY <1>2, <1>3, <1>4 DEF n

\* A window that has ended may be forgotten.
LEMMA Forget ==
    ASSUME NEW s \in Logs, NEW g \in Nat, NEW c \in 1..AccountAttempts, NEW r \in Nat,
           NEW t \in Nat, Past(s, g, t), Windowed(s, g, c, r), r < t
    PROVE  Unwindowed(s, g, t)
<1> SUFFICES ASSUME NEW j \in 1..Len(s), j <= Len(s) + 1 - Worth(g - s[j].after)
             PROVE  s[j].at + AccountWindow < t
  BY DEF Unwindowed
<1> DEFINE w == Worth(g - s[j].after)
<1>1. /\ s[j].at \in Nat /\ w \in Nat /\ w >= AccountAttempts
      /\ Len(s) \in Nat /\ AccountWindow \in Nat /\ AccountAttempts \in Nat
  BY WorthOf, LimitsAssumption DEF Logs
<1>2. j <= Len(s) + 1 - c
  <2> HIDE DEF w
  <2>1. j <= Len(s) + 1 - w
    BY DEF w
  <2> QED
    BY <1>1, <2>1
<1>3. s[j].at + AccountWindow <= r
  BY <1>2 DEF Windowed
<1> QED
  BY <1>1, <1>3

\* A success forgets the window of the account, at the price of one more window's
\* worth.
LEMMA ForgetAtSuccess ==
    ASSUME NEW s \in Logs, NEW g \in Nat, NEW t \in Nat, Past(s, g, t),
           \/ Unwindowed(s, g, t)
           \/ \E c \in 1..AccountAttempts, r \in Nat :
                 Windowed(s, g, c, r) /\ r <= t + AccountWindow
    PROVE  Unwindowed(s, g + 1, t) /\ Past(s, g + 1, t)
<1>1. Past(s, g + 1, t)
  <2> SUFFICES ASSUME NEW j \in 1..Len(s) PROVE s[j].at <= t /\ s[j].after <= g + 1
    BY DEF Past
  <2>1. s[j].after \in Nat /\ s[j].after <= g /\ s[j].at <= t
    BY WorthOf DEF Past
  <2> QED
    BY <2>1
<1>2. Unwindowed(s, g + 1, t)
  <2> SUFFICES ASSUME NEW j \in 1..Len(s), j <= Len(s) + 1 - Worth((g + 1) - s[j].after)
               PROVE  s[j].at + AccountWindow < t
    BY DEF Unwindowed
  <2> DEFINE w == Worth(g - s[j].after)
  <2>1. /\ s[j].at \in Nat /\ w \in Nat /\ j <= Len(s) + 1 - (w + AccountAttempts)
        /\ Len(s) \in Nat /\ AccountWindow \in Nat /\ AccountAttempts \in Nat
    <3>1. s[j].at \in Nat /\ w \in Nat /\ Worth((g + 1) - s[j].after) = w + AccountAttempts
      BY WorthOf
    <3>2. Len(s) \in Nat
      BY DEF Logs
    <3> HIDE DEF w
    <3> QED
      BY <3>1, <3>2, LimitsAssumption
  <2>2. CASE Unwindowed(s, g, t)
    <3>1. j <= Len(s) + 1 - w
      <4> HIDE DEF w
      <4> QED
        BY <2>1
    <3> QED
      BY <2>2, <3>1 DEF Unwindowed
  <2>3. ASSUME NEW c \in 1..AccountAttempts, NEW r \in Nat, Windowed(s, g, c, r),
               r <= t + AccountWindow
        PROVE  s[j].at + AccountWindow < t
    <3>1. j <= Len(s) + 1 - c - w
      <4> HIDE DEF w
      <4> QED
        BY <2>1
    <3>2. s[j].at + AccountWindow + AccountWindow < r
      BY <2>3, <3>1 DEF Windowed
    <3> QED
      BY <2>1, <2>3, <3>2
  <2> QED
    BY <2>2, <2>3
<1> QED
  BY <1>1, <1>2

\* The log after one more login.
LEMMA Appended ==
    ASSUME NEW s \in Logs, NEW g \in Nat, NEW t \in Nat
    PROVE  LET s2 == Append(s, [at |-> t, after |-> g])
           IN  /\ s2 \in Logs /\ Len(s) \in Nat /\ Len(s2) = Len(s) + 1
               /\ s2[Len(s) + 1].at = t /\ s2[Len(s) + 1].after = g
               /\ \A j \in 1..Len(s) : s2[j] = s[j]
<1> DEFINE e == [at |-> t, after |-> g]
<1>1. e \in [at : Nat, after : Nat] /\ e.at = t /\ e.after = g
  OBVIOUS
<1> HIDE DEF e
<1>2. /\ Append(s, e) \in Logs /\ Len(s) \in Nat /\ Len(Append(s, e)) = Len(s) + 1
      /\ Append(s, e)[Len(s) + 1] = e
      /\ \A j \in 1..Len(s) : Append(s, e)[j] = s[j]
  BY <1>1 DEF Logs
<1> QED
  BY <1>1, <1>2 DEF e

\* One more login at t is spaced when the logins a window's worth before it and
\* earlier are older than a window.
LEMMA AppendSpaced ==
    ASSUME NEW s \in Logs, NEW g \in Nat, NEW t \in Nat, Spaced(s), Past(s, g, t),
           \A j \in 1..Len(s) :
               j <= Len(s) + 2 - AccountAttempts - Worth(g - s[j].after)
                   => s[j].at + AccountWindow < t
    PROVE  /\ Spaced(Append(s, [at |-> t, after |-> g]))
           /\ Past(Append(s, [at |-> t, after |-> g]), g, t)
<1> DEFINE s2 == Append(s, [at |-> t, after |-> g])
<1>1. /\ Len(s) \in Nat /\ Len(s2) = Len(s) + 1
      /\ s2[Len(s) + 1].at = t /\ s2[Len(s) + 1].after = g
      /\ \A j \in 1..Len(s) : s2[j] = s[j]
      /\ AccountWindow \in Nat /\ AccountAttempts \in Nat \ {0}
  BY Appended, LimitsAssumption
<1> HIDE DEF s2
<1>2. Past(s2, g, t)
  <2> SUFFICES ASSUME NEW j \in 1..Len(s2) PROVE s2[j].at <= t /\ s2[j].after <= g
    BY DEF Past
  <2>1. CASE j = Len(s) + 1
    BY <1>1, <2>1
  <2>2. CASE j # Len(s) + 1
    <3>1. j \in 1..Len(s)
      BY <1>1, <2>2
    <3> QED
      BY <1>1, <3>1 DEF Past
  <2> QED
    BY <2>1, <2>2
<1>3. Spaced(s2)
  <2> SUFFICES ASSUME NEW k \in 1..Len(s2), NEW i \in 1..k,
                      k - i + 1 >= (2 + s2[k].after - s2[i].after) * AccountAttempts
               PROVE  s2[k].at - s2[i].at > AccountWindow
    BY DEF Spaced
  <2>1. CASE k # Len(s) + 1
    <3>1. k \in 1..Len(s) /\ i \in 1..Len(s)
      BY <1>1, <2>1
    <3>2. s2[k] = s[k] /\ s2[i] = s[i]
      BY <1>1, <3>1
    <3> QED
      BY <3>1, <3>2 DEF Spaced
  <2>2. CASE k = Len(s) + 1 /\ i = k
    <3>1. (2 + g - g) * AccountAttempts = AccountAttempts + AccountAttempts
      BY <1>1
    <3> QED
      BY <1>1, <2>2, <3>1
  <2>3. CASE k = Len(s) + 1 /\ i # k
    <3> DEFINE w == Worth(g - s[i].after)
    <3>1. i \in 1..Len(s) /\ s2[i] = s[i]
      BY <1>1, <2>3
    <3>2. /\ w \in Nat /\ s[i].at \in Nat
          /\ (2 + g - s[i].after) * AccountAttempts = w + AccountAttempts
      BY <3>1, WorthOf
    <3>3. k - i + 1 >= w + AccountAttempts
      BY <1>1, <2>3, <3>1, <3>2
    <3>4. i <= Len(s) + 2 - AccountAttempts - w
      <4> HIDE DEF w
      <4> QED
        BY <1>1, <2>3, <3>1, <3>2, <3>3
    <3>5. s[i].at + AccountWindow < t
      BY <3>1, <3>4
    <3> QED
      BY <1>1, <2>3, <3>1, <3>2, <3>5
  <2> QED
    BY <2>1, <2>2, <2>3
<1> QED
  BY <1>2, <1>3 DEF s2

\* A login counted in a window.
LEMMA AppendCounted ==
    ASSUME NEW s \in Logs, NEW g \in Nat, NEW c \in 1..AccountAttempts, NEW r \in Nat,
           NEW t \in Nat, Windowed(s, g, c, r), c < AccountAttempts,
           r <= t + AccountWindow, Spaced(s), Past(s, g, t)
    PROVE  /\ Windowed(Append(s, [at |-> t, after |-> g]), g, c + 1, r)
           /\ Spaced(Append(s, [at |-> t, after |-> g]))
           /\ Past(Append(s, [at |-> t, after |-> g]), g, t)
<1> DEFINE s2 == Append(s, [at |-> t, after |-> g])
<1>1. /\ Len(s) \in Nat /\ Len(s2) = Len(s) + 1
      /\ \A j \in 1..Len(s) : s2[j] = s[j]
      /\ AccountWindow \in Nat /\ AccountAttempts \in Nat \ {0}
  BY Appended, LimitsAssumption
<1>2. \A j \in 1..Len(s) :
          j <= Len(s) + 2 - AccountAttempts - Worth(g - s[j].after)
              => s[j].at + AccountWindow < t
  <2> SUFFICES ASSUME NEW j \in 1..Len(s),
                      j <= Len(s) + 2 - AccountAttempts - Worth(g - s[j].after)
               PROVE  s[j].at + AccountWindow < t
    OBVIOUS
  <2> DEFINE w == Worth(g - s[j].after)
  <2>1. w \in Nat /\ s[j].at \in Nat /\ j <= Len(s) + 2 - AccountAttempts - w
    BY WorthOf
  <2>2. j <= Len(s) + 1 - c - w
    <3> HIDE DEF w
    <3> QED
      BY <1>1, <2>1
  <2>3. s[j].at + AccountWindow + AccountWindow < r
    BY <2>2 DEF Windowed
  <2> QED
    BY <1>1, <2>1, <2>3
<1>3. Spaced(s2) /\ Past(s2, g, t)
  BY <1>2, AppendSpaced
<1> HIDE DEF s2
<1>4. Windowed(s2, g, c + 1, r)
  <2> SUFFICES ASSUME NEW j \in 1..Len(s2), j <= Len(s2) + 1 - (c + 1)
               PROVE  /\ s2[j].at + AccountWindow <= r
                      /\ j <= Len(s2) + 1 - (c + 1) - Worth(g - s2[j].after) =>
                             s2[j].at + AccountWindow + AccountWindow < r
    <3>1. \A j \in 1..Len(s2) :
             j <= Len(s2) + 1 - (c + 1) - Worth(g - s2[j].after) => j <= Len(s2) + 1 - (c + 1)
      <4> SUFFICES ASSUME NEW j \in 1..Len(s2),
                          j <= Len(s2) + 1 - (c + 1) - Worth(g - s2[j].after)
                   PROVE  j <= Len(s2) + 1 - (c + 1)
        OBVIOUS
      <4> DEFINE w == Worth(g - s2[j].after)
      <4>1. w \in Nat
        BY <1>3, Appended, WorthOf DEF s2
      <4>2. j <= Len(s2) + 1 - (c + 1) - w
        OBVIOUS
      <4> HIDE DEF w
      <4> QED
        BY <1>1, <4>1, <4>2
    <3> QED
      BY <3>1 DEF Windowed
  <2>1. j \in 1..Len(s) /\ j <= Len(s) + 1 - c /\ s2[j] = s[j]
    BY <1>1
  <2> DEFINE w == Worth(g - s[j].after)
  <2>2. w \in Nat
    BY <2>1, WorthOf
  <2>3. j <= Len(s2) + 1 - (c + 1) - w => j <= Len(s) + 1 - c - w
    <3> HIDE DEF w
    <3> QED
      BY <1>1, <2>2
  <2> QED
    BY <2>1, <2>3 DEF Windowed
<1> QED
  BY <1>3, <1>4 DEF s2

\* A login that begins a window.
LEMMA AppendOpening ==
    ASSUME NEW s \in Logs, NEW g \in Nat, NEW t \in Nat, Unwindowed(s, g, t), Spaced(s),
           Past(s, g, t)
    PROVE  /\ Windowed(Append(s, [at |-> t, after |-> g]), g, 1, t + AccountWindow)
           /\ Spaced(Append(s, [at |-> t, after |-> g]))
           /\ Past(Append(s, [at |-> t, after |-> g]), g, t)
<1> DEFINE s2 == Append(s, [at |-> t, after |-> g])
<1>1. /\ Len(s) \in Nat /\ Len(s2) = Len(s) + 1 /\ s2 \in Logs
      /\ s2[Len(s) + 1].at = t /\ s2[Len(s) + 1].after = g
      /\ \A j \in 1..Len(s) : s2[j] = s[j]
      /\ AccountWindow \in Nat /\ AccountAttempts \in Nat \ {0}
  BY Appended, LimitsAssumption
<1>2. \A j \in 1..Len(s) :
          j <= Len(s) + 2 - AccountAttempts - Worth(g - s[j].after)
              => s[j].at + AccountWindow < t
  <2> SUFFICES ASSUME NEW j \in 1..Len(s),
                      j <= Len(s) + 2 - AccountAttempts - Worth(g - s[j].after)
               PROVE  s[j].at + AccountWindow < t
    OBVIOUS
  <2> DEFINE w == Worth(g - s[j].after)
  <2>1. w \in Nat /\ j <= Len(s) + 2 - AccountAttempts - w
    BY WorthOf
  <2>2. j <= Len(s) + 1 - w
    <3> HIDE DEF w
    <3> QED
      BY <1>1, <2>1
  <2> QED
    BY <2>2 DEF Unwindowed
<1>3. Spaced(s2) /\ Past(s2, g, t)
  BY <1>2, AppendSpaced
<1> HIDE DEF s2
<1>4. Windowed(s2, g, 1, t + AccountWindow)
  <2> SUFFICES ASSUME NEW j \in 1..Len(s2)
               PROVE  /\ s2[j].at + AccountWindow <= t + AccountWindow
                      /\ j <= Len(s2) + 1 - 1 - Worth(g - s2[j].after) =>
                             s2[j].at + AccountWindow + AccountWindow < t + AccountWindow
    BY DEF Windowed
  <2> DEFINE w == Worth(g - s2[j].after)
  <2>1. s2[j].at \in Nat /\ w \in Nat /\ w >= AccountAttempts
    BY <1>1, <1>3, WorthOf
  <2>2. s2[j].at <= t
    BY <1>3 DEF Past
  <2>3. ASSUME j <= Len(s2) + 1 - 1 - w PROVE s2[j].at + AccountWindow < t
    <3>1. j \in 1..Len(s) /\ j <= Len(s) + 1 - w
      <4> HIDE DEF w
      <4> QED
        BY <1>1, <2>1, <2>3
    <3>2. s2[j] = s[j]
      BY <1>1, <3>1
    <3> QED
      BY <3>1, <3>2 DEF Unwindowed
  <2> QED
    BY <1>1, <2>1, <2>2, <2>3
<1> QED
  BY <1>3, <1>4 DEF s2

LEMMA PaceStep == TypeInv /\ PaceInv /\ [Next]_vars => PaceInv'
<1> SUFFICES ASSUME TypeInv, PaceInv, [Next]_vars, NEW a \in Accounts PROVE Pace(a)'
  BY DEF PaceInv
<1> DEFINE s == admitted[a]
           g == successes[a]
           s2 == Append(s, [at |-> now, after |-> g])
<1>1. /\ now \in Nat /\ AccountWindow \in Nat /\ s \in Logs /\ g \in Nat
      /\ admitted \in [Accounts -> Logs] /\ successes \in [Accounts -> Nat]
      /\ a \in DOMAIN accounts =>
            /\ accounts[a].count \in 1..AccountAttempts /\ accounts[a].reset \in Nat
            /\ accounts[a] \in Entries /\ accounts[a].reset <= now + AccountWindow
  BY LimitsAssumption DEF TypeInv, TypeOK, Entries, Logs
<1>2. /\ Past(s, g, now) /\ Spaced(s)
      /\ a \in DOMAIN accounts => Windowed(s, g, accounts[a].count, accounts[a].reset)
      /\ a \notin DOMAIN accounts => Unwindowed(s, g, now)
  BY DEF PaceInv, Pace
<1> HIDE DEF s, g
<1>3. ASSUME UNCHANGED <<now, accounts, successes, admitted>> PROVE Pace(a)'
  BY <1>2, <1>3 DEF Pace, s, g
<1>4. CASE Tick
  <2>1. now' = now + 1 /\ accounts' = accounts /\ admitted'[a] = s /\ successes'[a] = g
    BY <1>4 DEF Tick, limiterVars, s, g
  <2>2. \A j \in 1..Len(s) : s[j].at \in Nat
    BY <1>1, <1>2, WorthOf
  <2>3. Past(s, g, now + 1)
    BY <1>1, <1>2, <2>2 DEF Past
  <2>4. Unwindowed(s, g, now) => Unwindowed(s, g, now + 1)
    BY <1>1, <2>2 DEF Unwindowed
  <2> QED
    BY <1>2, <2>1, <2>3, <2>4 DEF Pace
<1>5. ASSUME Keeps(a), admitted'[a] = s, successes'[a] = g, now' = now PROVE Pace(a)'
  BY <1>2, <1>5 DEF Keeps, Pace
<1>6. ASSUME Drops(a), admitted'[a] = s, successes'[a] = g, now' = now PROVE Pace(a)'
  <2>1. Unwindowed(s, g, now)
    BY <1>1, <1>2, <1>6, Forget DEF Drops
  <2> QED
    BY <1>2, <1>6, <2>1 DEF Drops, Pace
<1>7. ASSUME Counts(a), admitted'[a] = s2, successes'[a] = g, now' = now PROVE Pace(a)'
  <2> DEFINE e == accounts[a]
  <2>1. e \in Entries /\ e.count < AccountAttempts /\ e.count \in 1..AccountAttempts
        /\ e.reset \in Nat /\ e.reset <= now + AccountWindow
        /\ Windowed(s, g, e.count, e.reset)
        /\ a \in DOMAIN accounts' /\ accounts'[a] = [e EXCEPT !.count = @ + 1]
    BY <1>1, <1>2, <1>7 DEF Counts
  <2> HIDE DEF e
  <2>2. accounts'[a].count = e.count + 1 /\ accounts'[a].reset = e.reset
    BY <2>1 DEF Entries
  <2>3. Windowed(s2, g, e.count + 1, e.reset) /\ Spaced(s2) /\ Past(s2, g, now)
    BY <1>1, <1>2, <2>1, AppendCounted
  <2> HIDE DEF s2
  <2> QED
    BY <1>7, <2>1, <2>2, <2>3 DEF Pace
<1>8. ASSUME Opens(a), admitted'[a] = s2, successes'[a] = g, now' = now PROVE Pace(a)'
  <2>1. Unwindowed(s, g, now)
    BY <1>1, <1>2, <1>8, Forget DEF Opens
  <2>2. Windowed(s2, g, 1, now + AccountWindow) /\ Spaced(s2) /\ Past(s2, g, now)
    BY <1>1, <1>2, <2>1, AppendOpening
  <2>3. /\ a \in DOMAIN accounts'
        /\ accounts'[a].count = 1 /\ accounts'[a].reset = now + AccountWindow
    BY <1>8 DEF Opens
  <2> HIDE DEF s2
  <2> QED
    BY <1>8, <2>2, <2>3 DEF Pace
<1>9. ASSUME NEW l \in Logins, AllowAccount(l) PROVE Pace(a)'
  <2>1. now' = now /\ successes'[a] = g
    BY <1>9 DEF AllowAccount, g
  <2>2. CASE Eviction
    BY <1>5, <1>6, <2>1, <2>2 DEF Eviction, s
  <2>3. ASSUME NEW b \in Accounts, Admission(b) PROVE Pace(a)'
    <3>1. CASE a = b
      <4>1. admitted'[a] = s2
        BY <1>1, <2>3, <3>1 DEF Admission, s, g
      <4> QED
        BY <1>7, <1>8, <2>1, <2>3, <3>1, <4>1 DEF Admission
    <3>2. CASE a # b
      <4>1. admitted'[a] = s /\ (Keeps(a) \/ Drops(a))
        BY <1>1, <2>3, <3>2 DEF Admission, s
      <4> QED
        BY <1>5, <1>6, <2>1, <4>1
    <3> QED
      BY <3>1, <3>2
  <2> QED
    BY <1>9, <2>2, <2>3, AllowAccountEffects
<1>10. ASSUME NEW l \in Logins, Accept(l) PROVE Pace(a)'
  <2>1. /\ now' = now /\ admitted'[a] = s
        /\ accounts' = [b \in DOMAIN accounts \ {login[l].account} |-> accounts[b]]
        /\ successes' = [successes EXCEPT ![login[l].account] = @ + 1]
    BY <1>10 DEF Accept, s
  <2>2. CASE a = login[l].account
    <3>1. successes'[a] = g + 1 /\ a \notin DOMAIN accounts'
      BY <1>1, <2>1, <2>2 DEF g
    <3>2. Unwindowed(s, g + 1, now) /\ Past(s, g + 1, now)
      BY <1>1, <1>2, ForgetAtSuccess
    <3> QED
      BY <1>2, <2>1, <3>1, <3>2 DEF Pace
  <2>3. CASE a # login[l].account
    <3>1. successes'[a] = g /\ (a \in DOMAIN accounts' <=> a \in DOMAIN accounts)
          /\ (a \in DOMAIN accounts' => accounts'[a] = accounts[a])
      BY <1>1, <2>1, <2>3 DEF g
    <3> QED
      BY <1>2, <2>1, <3>1 DEF Pace
  <2> QED
    BY <2>2, <2>3
<1>11. UNCHANGED <<now, accounts, successes, admitted>> \/ Tick
       \/ \E l \in Logins : AllowAccount(l) \/ Accept(l)
  BY DEF Next, vars, limiterVars, AllowGlobal, Reject
<1> QED
  BY <1>3, <1>4, <1>9, <1>10, <1>11

\* For any limits, any number of callers and any other use of the table: within one
\* window fewer logins of an account pass than two windows' worth and one more for
\* each success among them.
THEOREM AccountRateIsBoundedHolds == Spec => []AccountRateIsBounded
<1>1. Init => PaceInv
  <2> SUFFICES ASSUME Init, NEW a \in Accounts PROVE Pace(a)
    BY DEF PaceInv
  <2>1. admitted[a] = <<>> /\ a \notin DOMAIN accounts
    BY DEF Init
  <2>2. Past(<<>>, successes[a], now) /\ Unwindowed(<<>>, successes[a], now) /\ Spaced(<<>>)
    BY DEF Past, Unwindowed, Spaced
  <2> QED
    BY <2>1, <2>2 DEF Pace
<1>2. TypeInv /\ PaceInv => AccountRateIsBounded
  <2> SUFFICES ASSUME TypeInv, PaceInv, NEW a \in Accounts,
                      NEW k \in DOMAIN admitted[a], NEW i \in 1..k,
                      k - i + 1 >= (2 + admitted[a][k].after - admitted[a][i].after)
                                       * AccountAttempts
               PROVE  admitted[a][k].at - admitted[a][i].at > AccountWindow
    BY DEF AccountRateIsBounded
  <2>1. admitted[a] \in Logs
    BY DEF TypeInv, TypeOK, Logs
  <2>2. k \in 1..Len(admitted[a])
    <3> DEFINE E == [at : Nat, after : Nat]
               log == admitted[a]
    <3>1. log \in Seq(E) /\ k \in DOMAIN log
      BY <2>1 DEF Logs
    <3> HIDE DEF E, log
    <3>2. k \in 1..Len(log)
      BY <3>1
    <3> QED
      BY <3>2 DEF log
  <2>3. Spaced(admitted[a])
    BY DEF PaceInv, Pace
  <2> DEFINE log == admitted[a]
  <2>4. Spaced(log) /\ k \in 1..Len(log)
        /\ k - i + 1 >= (2 + log[k].after - log[i].after) * AccountAttempts
    BY <2>2, <2>3
  <2> HIDE DEF log
  <2>5. log[k].at - log[i].at > AccountWindow
    BY <2>4 DEF Spaced
  <2> QED
    BY <2>5 DEF log
<1> QED
  BY <1>1, <1>2, PaceStep, TypeHolds, PTL DEF Spec

=============================================================================
