-------------------------- MODULE FormTokens_proofs --------------------------
(***************************************************************************)
(* Proofs about FormTokens, for any number of tabs and any bounds.         *)
(***************************************************************************)
EXTENDS FormTokens, TLAPS

-----------------------------------------------------------------------------
(* Types *)

\* What each phase needs of a tab's other fields.
Shaped(s) ==
    /\ s.phase \in {"sent", "checked"} => s.cookies \in Cookies
    /\ s.phase = "checked" /\ s.request # "POST /login" => s.cookies.session \in Sessions
    /\ s.phase \in {"sent", "checked"} /\ s.request \in Posts =>
          s.form \in Forms /\ s.form.action = s.request
    /\ s.phase = "answered" => s.answer \in Answers

TypeInv == TypeOK /\ \A t \in Tabs : Shaped(tab[t])

\* A tab's new state.
LEMMA Update ==
    ASSUME TypeInv, NEW t \in Tabs, NEW s \in TabStates, Shaped(s),
           tab' = [tab EXCEPT ![t] = s]
    PROVE  /\ tab' \in [Tabs -> TabStates]
           /\ \A u \in Tabs : tab'[u] = IF u = t THEN s ELSE tab[u]
           /\ \A u \in Tabs : Shaped(tab'[u])
BY DEF TypeInv, TypeOK

LEMMA ReplyTypes ==
    ASSUME TypeInv, NEW t \in Tabs, NEW answer \in Answers, Reply(t, answer)
    PROVE  /\ tab' \in [Tabs -> TabStates]
           /\ \A u \in Tabs : Shaped(tab'[u])
<1> DEFINE s == Tab("answered", None, None, None, answer, tab[t].calm)
<1>1. tab[t].calm \in BOOLEAN
  BY DEF TypeInv, TypeOK, TabStates
<1>2. s \in TabStates
  BY <1>1 DEF Tab, TabStates, Phases
<1>3. Shaped(s)
  BY DEF Shaped, Tab
<1>4. tab' = [tab EXCEPT ![t] = s]
  BY DEF Reply, Tab
<1> QED
  BY <1>2, <1>3, <1>4, Update

LEMMA PageTypes ==
    ASSUME NEW form \in {None} \union Forms
    PROVE  Page(form) \in Answers
BY DEF Page, Answer, Answers

LEMMA LoginFormTypes ==
    ASSUME TypeInv, NEW cookie \in LoginCookies
    PROVE  LoginForm(cookie) \in Forms
BY DEF LoginForm, Mac, Forms, LoginForms, Tokens, TypeInv, TypeOK

LEMMA AuthFormTypes ==
    ASSUME TypeInv, NEW action \in {"POST /logout", "POST /account/password"},
           NEW session \in Sessions
    PROVE  AuthForm(action, session) \in Forms
BY DEF AuthForm, Mac, Forms, AuthForms, Tokens, TypeInv, TypeOK

LEMMA ContextTypes ==
    ASSUME TypeInv
    PROVE  NewLoginContext \in LoginCookies
BY TokenAssumption DEF TypeInv, TypeOK, NewLoginContext, LoginCookies

LEMMA PassTypes ==
    ASSUME TypeInv, NEW t \in Tabs, Pass(t), tab[t].phase = "sent",
           tab[t].request # "POST /login" => tab[t].cookies.session \in Sessions
    PROVE  /\ tab' \in [Tabs -> TabStates]
           /\ \A u \in Tabs : Shaped(tab'[u])
<1> DEFINE s == [tab[t] EXCEPT !.phase = "checked"]
<1>1. tab[t] \in TabStates /\ Shaped(tab[t])
  BY DEF TypeInv, TypeOK
<1>2. s \in TabStates
  BY <1>1 DEF TabStates, Phases
<1>3. Shaped(s)
  BY <1>1 DEF Shaped, TabStates
<1>4. tab' = [tab EXCEPT ![t] = s]
  BY DEF Pass
<1> QED
  BY <1>2, <1>3, <1>4, Update

TypesKept == /\ tab' \in [Tabs -> TabStates]
             /\ \A u \in Tabs : Shaped(tab'[u])

LEMMA ClickTypes == ASSUME TypeInv, NEW t \in Tabs, Click(t) PROVE TypesKept
<1>1. jar \in Cookies /\ tab[t] \in TabStates
  BY DEF TypeInv, TypeOK
<1>2. ASSUME NEW request \in Gets,
             tab' = [tab EXCEPT ![t] = Tab("sent", None, request, jar, None, TRUE)]
      PROVE  TypesKept
  <2> DEFINE s == Tab("sent", None, request, jar, None, TRUE)
  <2>1. s \in TabStates
    BY <1>1 DEF Tab, TabStates, Phases
  <2>2. Shaped(s)
    BY <1>1, request \notin Posts DEF Tab, Shaped, Gets, Posts
  <2> QED
    BY <2>1, <2>2, <1>2, Update DEF TypesKept
<1>3. ASSUME tab[t].form # None,
             tab' = [tab EXCEPT ![t] = Tab("sent", @.form, @.form.action, jar, None, TRUE)]
      PROVE  TypesKept
  <2> DEFINE form == tab[t].form
             s == Tab("sent", form, form.action, jar, None, TRUE)
  <2>1. form \in Forms /\ form.action \in Posts
    BY <1>1, <1>3 DEF TabStates, Forms, LoginForms, AuthForms, Posts
  <2>2. s \in TabStates
    BY <1>1, <2>1 DEF Tab, TabStates, Phases
  <2>3. Shaped(s)
    BY <1>1, <2>1 DEF Tab, Shaped
  <2>4. tab' = [tab EXCEPT ![t] = s]
    BY <1>3
  <2> QED
    BY <2>2, <2>3, <2>4, Update DEF TypesKept
<1> QED
  BY <1>2, <1>3 DEF Click

LEMMA StoredTypes ==
    ASSUME NEW T, NEW old \in T, NEW set \in SUBSET T
    PROVE  Stored(old, set) \in T
BY DEF Stored

LEMMA ReceiveTypes ==
    ASSUME TypeInv, NEW t \in Tabs, Receive(t)
    PROVE  TypesKept /\ jar' \in Cookies
<1> DEFINE answer == tab[t].answer
           stored == [login   |-> Stored(jar.login, answer.login),
                      session |-> Stored(jar.session, answer.session)]
           mine == IF answer.redirect = None THEN Showing(answer.form, tab[t].calm)
                   ELSE Tab("sent", None, answer.redirect, stored, None, TRUE)
<1>1. tab[t].phase = "answered" /\ answer \in Answers /\ tab[t] \in TabStates
  BY DEF Receive, TypeInv, TypeOK, Shaped
<1>2. stored \in Cookies
  <2>1. jar.login \in {None} \union LoginCookies /\ jar.session \in {None} \union Sessions
    BY DEF TypeInv, TypeOK, Cookies
  <2>2. /\ answer.login \in SUBSET ({None} \union LoginCookies)
        /\ answer.session \in SUBSET ({None} \union Sessions)
    BY <1>1 DEF Answers
  <2>3. Stored(jar.login, answer.login) \in {None} \union LoginCookies
    BY <2>1, <2>2, StoredTypes
  <2>4. Stored(jar.session, answer.session) \in {None} \union Sessions
    BY <2>1, <2>2, StoredTypes
  <2> QED
    BY <2>3, <2>4 DEF Cookies
<1>3. mine \in TabStates /\ Shaped(mine)
  <2>1. CASE answer.redirect = None
    BY <1>1, <2>1 DEF Answers, Showing, Tab, TabStates, Phases, Shaped
  <2>2. CASE answer.redirect # None
    <3>1. answer.redirect \in Gets /\ answer.redirect \notin Posts
      BY <1>1, <2>2 DEF Answers, Gets, Posts
    <3> QED
      BY <1>2, <2>2, <3>1 DEF Tab, TabStates, Phases, Shaped
  <2> QED
    BY <2>1, <2>2
<1>4. tab' = [u \in Tabs |-> IF u # t THEN [tab[u] EXCEPT !.calm = @ /\ stored = jar] ELSE mine]
  BY DEF Receive
<1>5. ASSUME NEW u \in Tabs, u # t
      PROVE  tab'[u] \in TabStates /\ Shaped(tab'[u])
  <2> DEFINE s == tab[u]  c == s.calm /\ stored = jar
  <2>1. s \in TabStates /\ Shaped(s) /\ c \in BOOLEAN
    BY DEF TypeInv, TypeOK
  <2>2. tab'[u] = [s EXCEPT !.calm = c]
    BY <1>4, <1>5
  <2> HIDE DEF s, c
  <2>3. [s EXCEPT !.calm = c] \in TabStates
    BY <2>1 DEF TabStates
  <2>4. Shaped([s EXCEPT !.calm = c])
    BY <2>1 DEF Shaped, TabStates
  <2> QED
    BY <2>2, <2>3, <2>4
<1>6. jar' \in Cookies
  BY <1>2 DEF Receive
<1>7. ASSUME NEW u \in Tabs
      PROVE  tab'[u] \in TabStates /\ Shaped(tab'[u])
  BY <1>3, <1>4, <1>5
<1>8. tab' = [u \in Tabs |-> tab'[u]]
  BY <1>4
<1> QED
  BY <1>6, <1>7, <1>8 DEF TypesKept

\* The cookies and the form of a request that is being handled.
LEMMA RequestTypes ==
    ASSUME TypeInv, NEW t \in Tabs, tab[t].phase \in {"sent", "checked"}
    PROVE  /\ tab[t].cookies.login \in {None} \union LoginCookies
           /\ tab[t].cookies.session \in {None} \union Sessions
           /\ tab[t].request \in Posts => /\ tab[t].form \in Forms
                                          /\ tab[t].form.action = tab[t].request
           /\ tab[t].phase = "checked" /\ tab[t].request # "POST /login" =>
                 tab[t].cookies.session \in Sessions
<1>1. Shaped(tab[t])
  BY DEF TypeInv
<1> QED
  BY <1>1 DEF Shaped, Cookies

-----------------------------------------------------------------------------
(* What the handlers do to a tab *)

\* The forms an answer may carry, and the cookies that go with them.
Renders(t, answer) ==
    \/ answer.form = None
    \/ /\ answer.form = LoginForm(NewLoginContext)
       /\ answer.login = {NewLoginContext}
    \/ /\ ValidContext(tab[t].cookies.login)
       /\ answer = Page(LoginForm(tab[t].cookies.login))
    \/ /\ tab[t].phase = "checked" /\ tab[t].request # "POST /login"
       /\ \E action \in {"POST /logout", "POST /account/password"} :
             answer = Page(AuthForm(action, tab[t].cookies.session))

\* The session an answer may set.
Opens(answer) == \/ answer.session \subseteq {None}
                 \/ logins' = logins + 1 /\ answer.session = {logins + 1}

Responds(t) ==
    /\ tab[t].phase \in {"sent", "checked"}
    /\ \E answer \in Answers : Reply(t, answer) /\ Renders(t, answer) /\ Opens(answer)

LetsThrough(t) ==
    /\ tab[t].phase = "sent" /\ Pass(t)
    /\ IF tab[t].request = "POST /login"
       THEN ValidateLogin(tab[t].cookies.login, tab[t].form.token)
       ELSE /\ tab[t].cookies.session \in live
            /\ tab[t].request \in Posts => ValidateAuth(tab[t].cookies.session, tab[t].form.token)

LEMMA PlainPages ==
    ASSUME NEW t \in Tabs, tab[t].phase \in {"sent", "checked"}, NEW answer \in Answers,
           answer.form = None, Opens(answer), Reply(t, answer)
    PROVE  Responds(t)
BY DEF Responds, Renders

LEMMA FailResponds ==
    ASSUME NEW t \in Tabs, tab[t].phase \in {"sent", "checked"}, Fail(t)
    PROVE  Responds(t)
<1>1. Page(None) \in Answers /\ Page(None).form = None /\ Opens(Page(None))
  BY DEF Page, Answer, Answers, Opens
<1> QED
  BY <1>1, PlainPages DEF Fail

LEMMA NewLoginFormResponds ==
    ASSUME TypeInv, NEW t \in Tabs, tab[t].phase \in {"sent", "checked"}, NewLoginForm(t)
    PROVE  Responds(t)
<1> DEFINE answer == Answer(LoginForm(NewLoginContext), {NewLoginContext}, {}, None)
<1>1. answer \in Answers
  BY ContextTypes, LoginFormTypes DEF Answer, Answers
<1>2. Renders(t, answer) /\ Opens(answer)
  BY DEF Renders, Answer, Opens
<1> QED
  BY <1>1, <1>2 DEF NewLoginForm, Responds

LEMMA LoginFormResponds ==
    ASSUME TypeInv, NEW t \in Tabs, tab[t].phase \in {"sent", "checked"},
           ValidContext(tab[t].cookies.login), Reply(t, Page(LoginForm(tab[t].cookies.login)))
    PROVE  Responds(t)
<1>1. tab[t].cookies.login \in LoginCookies
  BY RequestTypes DEF ValidContext
<1>2. Page(LoginForm(tab[t].cookies.login)) \in Answers
  BY <1>1, LoginFormTypes, PageTypes
<1>3. Opens(Page(LoginForm(tab[t].cookies.login)))
  BY DEF Opens, Page, Answer
<1> QED
  BY <1>2, <1>3 DEF Responds, Renders

LEMMA AuthFormResponds ==
    ASSUME TypeInv, NEW t \in Tabs, tab[t].phase = "checked", tab[t].request # "POST /login",
           NEW action \in {"POST /logout", "POST /account/password"},
           Reply(t, Page(AuthForm(action, tab[t].cookies.session)))
    PROVE  Responds(t)
<1>1. tab[t].cookies.session \in Sessions
  BY RequestTypes
<1>2. Page(AuthForm(action, tab[t].cookies.session)) \in Answers
  BY <1>1, AuthFormTypes, PageTypes
<1>3. Opens(Page(AuthForm(action, tab[t].cookies.session)))
  BY DEF Opens, Page, Answer
<1> QED
  BY <1>2, <1>3 DEF Responds, Renders

LEMMA HandleEffects ==
    ASSUME TypeInv, NEW t \in Tabs, Handle(t)
    PROVE  Responds(t) \/ LetsThrough(t)
<1>1. CASE GetLogin(t)
  BY <1>1, FailResponds, NewLoginFormResponds, LoginFormResponds DEF GetLogin
<1>2. CASE ProtectLoginPost(t)
  BY <1>2, FailResponds, NewLoginFormResponds DEF ProtectLoginPost, CsrfFailure, LetsThrough
<1>3. CASE PostLogin(t)
  <2> DEFINE answer == Answer(None, {None}, {logins + 1}, "GET /")
  <2>1. answer \in Answers /\ answer.form = None
    BY DEF Answer, Answers, Gets, Sessions, TypeInv, TypeOK
  <2>2. logins' = logins + 1 => Opens(answer)
    BY DEF Opens, Answer
  <2> QED
    BY <1>3, <2>1, <2>2, PlainPages, FailResponds, LoginFormResponds DEF PostLogin
<1>4. CASE RequireLogin(t)
  <2>1. Denied \in Answers /\ Denied.form = None /\ Opens(Denied)
    BY DEF Denied, Answer, Answers, Opens
  <2>2. Page(None) \in Answers /\ Page(None).form = None /\ Opens(Page(None))
    BY DEF Page, Answer, Answers, Opens
  <2> QED
    BY <1>4, <2>1, <2>2, PlainPages, FailResponds DEF RequireLogin, LetsThrough
<1>5. ASSUME NEW ended, SignOut(t, ended), tab[t].phase = "checked" PROVE Responds(t)
  <2> DEFINE answer == Answer(None, {}, {None}, "GET /login")
  <2>1. answer \in Answers /\ answer.form = None /\ Opens(answer)
    BY DEF Answer, Answers, Gets, Opens
  <2> QED
    BY <1>5, <2>1, PlainPages DEF SignOut
<1>6. CASE GetForm(t)
  BY <1>6, FailResponds, AuthFormResponds DEF GetForm, Gets
<1>7. CASE PostLogout(t)
  BY <1>5, <1>7, FailResponds DEF PostLogout
<1>8. CASE PostPassword(t)
  BY <1>5, <1>8, FailResponds, AuthFormResponds DEF PostPassword
<1> QED
  BY <1>1, <1>2, <1>3, <1>4, <1>6, <1>7, <1>8 DEF Handle

LEMMA HandleTypes == ASSUME TypeInv, NEW t \in Tabs, Handle(t) PROVE TypesKept
<1>1. Responds(t) => TypesKept
  BY ReplyTypes DEF Responds, TypesKept
<1>2. ASSUME LetsThrough(t) PROVE TypesKept
  <2>1. tab[t].request # "POST /login" => tab[t].cookies.session \in Sessions
    BY <1>2 DEF LetsThrough, TypeInv, TypeOK
  <2> QED
    BY <1>2, <2>1, PassTypes DEF LetsThrough, TypesKept
<1> QED
  BY <1>1, <1>2, HandleEffects

\* What a handler does to the other variables.
LEMMA HandleFrame ==
    ASSUME TypeInv, NEW t \in Tabs, Handle(t)
    PROVE  /\ UNCHANGED <<now, process, jar>>
           /\ contexts' \in {contexts, contexts + 1}
           /\ \/ logins' = logins /\ live' \subseteq live
              \/ logins' = logins + 1 /\ live' = live \union {logins + 1}
<1>1. Fail(t) => UNCHANGED <<contexts, live>>
  BY DEF Fail
<1>2. NewLoginForm(t) => contexts' = contexts + 1 /\ UNCHANGED live
  BY DEF NewLoginForm
<1>3. Pass(t) => UNCHANGED <<contexts, live>>
  BY DEF Pass
<1>4. \A ended : SignOut(t, ended) => live' \subseteq live /\ UNCHANGED contexts
  BY DEF SignOut
<1>5. CASE GetLogin(t)
  BY <1>1, <1>2, <1>5 DEF GetLogin, Unchanged
<1>6. CASE ProtectLoginPost(t)
  BY <1>1, <1>2, <1>3, <1>6 DEF ProtectLoginPost, CsrfFailure, Unchanged
<1>7. CASE PostLogin(t)
  BY <1>1, <1>7 DEF PostLogin, Unchanged
<1>8. CASE RequireLogin(t)
  BY <1>1, <1>3, <1>8 DEF RequireLogin, Unchanged
<1>9. CASE GetForm(t)
  BY <1>1, <1>9 DEF GetForm, Unchanged
<1>10. CASE PostLogout(t)
  BY <1>1, <1>4, <1>10 DEF PostLogout, Unchanged
<1>11. CASE PostPassword(t)
  BY <1>1, <1>4, <1>11 DEF PostPassword, Unchanged
<1> QED
  BY <1>5, <1>6, <1>7, <1>8, <1>9, <1>10, <1>11 DEF Handle

LEMMA TypeStep == TypeInv /\ [Next]_vars => TypeInv'
<1> SUFFICES ASSUME TypeInv, [Next]_vars PROVE TypeInv'
  OBVIOUS
<1>1. ASSUME TypesKept, now' \in Nat, process' \in Nat, contexts' \in Nat, logins' \in Nat,
             live' \subseteq Sessions, jar' \in Cookies
      PROVE  TypeInv'
  BY <1>1 DEF TypesKept, TypeInv, TypeOK
<1>2. /\ now \in Nat /\ process \in Nat /\ contexts \in Nat /\ logins \in Nat
      /\ live \subseteq Sessions /\ jar \in Cookies
      /\ tab \in [Tabs -> TabStates] /\ \A t \in Tabs : Shaped(tab[t])
  BY DEF TypeInv, TypeOK
<1>3. ASSUME NEW t \in Tabs, Click(t) PROVE TypeInv'
  BY <1>1, <1>2, <1>3, ClickTypes DEF Click
<1>4. ASSUME NEW t \in Tabs, Receive(t) PROVE TypeInv'
  <2>1. UNCHANGED <<now, process, contexts, logins, live>>
    BY <1>4 DEF Receive
  <2> QED
    BY <1>1, <1>2, <1>4, <2>1, ReceiveTypes
<1>5. ASSUME NEW t \in Tabs, Handle(t) PROVE TypeInv'
  <2>1. TypesKept
    BY <1>5, HandleTypes
  <2>2. now' = now /\ process' = process /\ jar' = jar
    BY <1>5, HandleFrame
  <2>3. contexts' \in Nat
    BY <1>2, <1>5, HandleFrame
  <2>4. \/ logins' = logins /\ live' \subseteq live
        \/ logins' = logins + 1 /\ live' = live \union {logins + 1}
    BY <1>5, HandleFrame
  <2>5. logins + 1 \in Nat /\ logins + 1 \in Sessions
    BY <1>2 DEF Sessions
  <2>6. logins' \in Nat /\ live' \subseteq Sessions
    BY <1>2, <2>4, <2>5
  <2> QED
    BY <1>1, <1>2, <2>1, <2>2, <2>3, <2>6
<1>6. CASE Tick
  <2>1. TypesKept
    BY <1>2, <1>6 DEF Tick, TypesKept
  <2>2. jar' \in Cookies
    BY <1>2, <1>6 DEF Tick, Cookies
  <2> QED
    BY <1>1, <1>2, <1>6, <2>1, <2>2 DEF Tick
<1>7. CASE EndSession
  <2>1. TypesKept
    BY <1>2, <1>7 DEF EndSession, TypesKept
  <2>2. jar' \in Cookies
    BY <1>2, <1>7 DEF EndSession, Cookies
  <2> QED
    BY <1>1, <1>2, <1>7, <2>1, <2>2 DEF EndSession
<1>8. CASE Restart
  <2>1. ASSUME NEW t \in Tabs, tab[t].phase \in {"sent", "checked"}
        PROVE  Showing(None, FALSE) \in TabStates /\ Shaped(Showing(None, FALSE))
    BY DEF Showing, Tab, TabStates, Phases, Shaped
  <2>2. ASSUME NEW t \in Tabs, tab[t].phase \notin {"sent", "checked"}
        PROVE  [tab[t] EXCEPT !.calm = FALSE] \in TabStates /\ Shaped([tab[t] EXCEPT !.calm = FALSE])
    <3> DEFINE s == tab[t]
    <3>1. s \in TabStates /\ Shaped(s)
      BY <1>2
    <3> HIDE DEF s
    <3>2. [s EXCEPT !.calm = FALSE] \in TabStates
      BY <3>1 DEF TabStates
    <3>3. Shaped([s EXCEPT !.calm = FALSE])
      BY <3>1 DEF Shaped, TabStates
    <3> QED
      BY <3>2, <3>3 DEF s
  <2>3. TypesKept
    BY <1>8, <2>1, <2>2 DEF Restart, TypesKept
  <2> QED
    BY <1>1, <1>2, <1>8, <2>3 DEF Restart
<1>9. CASE UNCHANGED vars
  BY <1>2, <1>9 DEF vars, TypeInv, TypeOK
<1> QED
  BY <1>3, <1>4, <1>5, <1>6, <1>7, <1>8, <1>9 DEF Next

LEMMA TypeInit == Init => TypeInv
<1> SUFFICES ASSUME Init PROVE TypeInv
  OBVIOUS
<1>1. Showing(None, TRUE) \in TabStates /\ Shaped(Showing(None, TRUE))
  BY DEF Showing, Tab, TabStates, Phases, Shaped
<1>2. tab = [t \in Tabs |-> Showing(None, TRUE)]
  BY DEF Init
<1> QED
  BY <1>1, <1>2 DEF Init, TypeInv, TypeOK, Cookies

LEMMA TypeHolds == Spec => []TypeInv
BY TypeInit, TypeStep, PTL DEF Spec

\* Type correctness of FormTokens: cookies, forms and answers are what the code
\* makes, and a tab's fields are those of its phase.
THEOREM TypeCorrect == Spec => []TypeOK
<1>1. TypeInv => TypeOK
  BY DEF TypeInv
<1> QED
  BY <1>1, TypeHolds, PTL

-----------------------------------------------------------------------------
(* ActsForItsPage *)

LEMMA MacFields ==
    ASSUME NEW domain, NEW context, NEW token, token = Mac(domain, context)
    PROVE  token.key = process /\ token.context = context
BY DEF Mac

LEMMA LoginFormFields ==
    ASSUME NEW cookie, NEW form, form = LoginForm(cookie)
    PROVE  /\ form.action = "POST /login"
           /\ form.token = Mac("login", cookie) /\ form.madeFor = cookie
BY DEF LoginForm

LEMMA AuthFormFields ==
    ASSUME NEW action, NEW session, NEW form, form = AuthForm(action, session)
    PROVE  /\ form.action = action
           /\ form.token = Mac("auth", session) /\ form.madeFor = session
BY DEF AuthForm

\* The token of a form authenticates what the form was made for.
Binds(form) == form # None => form.token.context = form.madeFor

Bound(s) ==
    /\ Binds(s.form)
    /\ s.phase = "answered" => Binds(s.answer.form)
    /\ s.phase \in {"sent", "checked"} /\ s.request \in Posts => s.form # None

\* A post that was checked has this process's token for what its cookies say.
Verified(s) ==
    s.phase = "checked" /\ s.request \in Posts =>
        /\ s.form.token.key = process
        /\ s.form.madeFor = IF s.request = "POST /login" THEN s.cookies.login
                                                         ELSE s.cookies.session

ActInv == \A t \in Tabs : Bound(tab[t]) /\ Verified(tab[t])

LEMMA RenderedBinds ==
    ASSUME NEW t \in Tabs, NEW answer \in Answers, Renders(t, answer)
    PROVE  Binds(answer.form)
<1>1. ASSUME NEW cookie, answer.form = LoginForm(cookie) PROVE Binds(answer.form)
  <2>1. answer.form.token = Mac("login", cookie) /\ answer.form.madeFor = cookie
    BY <1>1, LoginFormFields
  <2>2. answer.form.token.context = cookie
    BY <2>1, MacFields
  <2> QED
    BY <2>1, <2>2 DEF Binds
<1>2. ASSUME NEW action, NEW session, answer.form = AuthForm(action, session)
      PROVE  Binds(answer.form)
  <2>1. answer.form.token = Mac("auth", session) /\ answer.form.madeFor = session
    BY <1>2, AuthFormFields
  <2>2. answer.form.token.context = session
    BY <2>1, MacFields
  <2> QED
    BY <2>1, <2>2 DEF Binds
<1>3. ASSUME NEW form, answer = Page(form) PROVE answer.form = form
  BY <1>3 DEF Page, Answer
<1>4. CASE answer.form = None
  BY <1>4 DEF Binds
<1>5. CASE answer.form = LoginForm(NewLoginContext)
  BY <1>1, <1>5
<1>6. CASE answer = Page(LoginForm(tab[t].cookies.login))
  BY <1>1, <1>3, <1>6
<1>7. ASSUME NEW action, answer = Page(AuthForm(action, tab[t].cookies.session))
      PROVE  Binds(answer.form)
  BY <1>2, <1>3, <1>7
<1> QED
  BY <1>4, <1>5, <1>6, <1>7 DEF Renders

\* After a step that replaces one tab's state.
LEMMA ActUpdate ==
    ASSUME TypeInv, ActInv, UNCHANGED process, NEW t \in Tabs, NEW s,
           tab' = [tab EXCEPT ![t] = s], Bound(s), Verified(s)
    PROVE  ActInv'
<1>1. \A u \in Tabs : tab'[u] = IF u = t THEN s ELSE tab[u]
  BY DEF TypeInv, TypeOK
<1>2. ASSUME NEW u \in Tabs PROVE Bound(tab'[u]) /\ Verified(tab'[u])
  <2>1. CASE u = t
    BY <1>1, <2>1
  <2>2. CASE u # t
    <3>1. tab'[u] = tab[u] /\ Bound(tab[u]) /\ Verified(tab[u])
      BY <1>1, <2>2 DEF ActInv
    <3> QED
      BY <3>1
  <2> QED
    BY <2>1, <2>2
<1> QED
  BY <1>2 DEF ActInv, Verified, Bound

LEMMA ActStep == TypeInv /\ ActInv /\ [Next]_vars => ActInv'
<1> SUFFICES ASSUME TypeInv, ActInv, [Next]_vars PROVE ActInv'
  OBVIOUS
<1>1. \A t \in Tabs : tab[t] \in TabStates /\ Shaped(tab[t]) /\ Bound(tab[t]) /\ Verified(tab[t])
  BY DEF TypeInv, TypeOK, ActInv
<1>2. ASSUME NEW t \in Tabs, Click(t) PROVE ActInv'
  <2>1. UNCHANGED process
    BY <1>2 DEF Click
  <2>2. ASSUME NEW request \in Gets,
               tab' = [tab EXCEPT ![t] = Tab("sent", None, request, jar, None, TRUE)]
        PROVE  ActInv'
    <3> DEFINE s == Tab("sent", None, request, jar, None, TRUE)
    <3>1. Bound(s) /\ Verified(s)
      BY DEF Bound, Binds, Verified, Tab, Gets, Posts
    <3> QED
      BY <2>1, <2>2, <3>1, ActUpdate
  <2>3. ASSUME tab[t].form # None,
               tab' = [tab EXCEPT ![t] = Tab("sent", @.form, @.form.action, jar, None, TRUE)]
        PROVE  ActInv'
    <3> DEFINE s == Tab("sent", tab[t].form, tab[t].form.action, jar, None, TRUE)
    <3>1. Bound(s) /\ Verified(s)
      BY <1>1, <2>3 DEF Bound, Verified, Tab
    <3>2. tab' = [tab EXCEPT ![t] = s]
      BY <2>3
    <3> QED
      BY <2>1, <3>1, <3>2, ActUpdate
  <2> QED
    BY <1>2, <2>2, <2>3 DEF Click
<1>3. ASSUME NEW t \in Tabs, Receive(t) PROVE ActInv'
  <2> DEFINE answer == tab[t].answer
             stored == [login   |-> Stored(jar.login, answer.login),
                        session |-> Stored(jar.session, answer.session)]
             mine == IF answer.redirect = None THEN Showing(answer.form, tab[t].calm)
                     ELSE Tab("sent", None, answer.redirect, stored, None, TRUE)
  <2>1. tab[t].phase = "answered" /\ answer \in Answers /\ Binds(answer.form) /\ UNCHANGED process
    BY <1>1, <1>3 DEF Receive, Shaped, Bound
  <2>2. answer.redirect # None => answer.redirect \notin Posts
    BY <2>1 DEF Answers, Gets, Posts
  <2>3. Bound(mine) /\ Verified(mine)
    <3>1. CASE answer.redirect = None
      BY <2>1, <3>1 DEF Bound, Verified, Showing, Tab
    <3>2. CASE answer.redirect # None
      BY <2>2, <3>2 DEF Bound, Binds, Verified, Tab
    <3> QED
      BY <3>1, <3>2
  <2>4. tab' = [u \in Tabs |-> IF u # t THEN [tab[u] EXCEPT !.calm = @ /\ stored = jar] ELSE mine]
    BY <1>3 DEF Receive
  <2>5. ASSUME NEW u \in Tabs, u # t PROVE Bound(tab'[u]) /\ Verified(tab'[u])
    <3> DEFINE s == tab[u]  c == s.calm /\ stored = jar
    <3>1. s \in TabStates /\ Bound(s) /\ Verified(s) /\ tab'[u] = [s EXCEPT !.calm = c]
      BY <1>1, <2>4, <2>5
    <3> HIDE DEF s, c
    <3> QED
      BY <3>1 DEF Bound, Verified, TabStates
  <2>6. \A u \in Tabs : Bound(tab'[u]) /\ Verified(tab'[u])
    BY <2>3, <2>4, <2>5
  <2> QED
    BY <2>1, <2>6 DEF ActInv, Verified, Bound
<1>4. ASSUME NEW t \in Tabs, Handle(t) PROVE ActInv'
  <2>1. UNCHANGED process
    BY <1>4, HandleFrame
  <2>2. ASSUME NEW answer \in Answers, Reply(t, answer), Renders(t, answer)
        PROVE  ActInv'
    <3> DEFINE s == Tab("answered", None, None, None, answer, tab[t].calm)
    <3>1. Bound(s) /\ Verified(s)
      BY <2>2, RenderedBinds DEF Bound, Binds, Verified, Tab
    <3>2. tab' = [tab EXCEPT ![t] = s]
      BY <2>2 DEF Reply, Tab
    <3> QED
      BY <2>1, <3>1, <3>2, ActUpdate
  <2>3. ASSUME LetsThrough(t) PROVE ActInv'
    <3> DEFINE s == [tab[t] EXCEPT !.phase = "checked"]
    <3>1. tab' = [tab EXCEPT ![t] = s]
      BY <2>3 DEF LetsThrough, Pass
    <3>2. tab[t].request \in Posts =>
             tab[t].form # None /\ tab[t].form.token.context = tab[t].form.madeFor
      BY <1>1, <2>3 DEF LetsThrough, Bound, Binds
    <3>3. tab[t].request \in Posts =>
             /\ tab[t].form.token.key = process
             /\ tab[t].form.token.context = IF tab[t].request = "POST /login"
                                            THEN tab[t].cookies.login ELSE tab[t].cookies.session
      <4>1. ASSUME tab[t].request = "POST /login"
            PROVE  /\ tab[t].form.token.key = process
                   /\ tab[t].form.token.context = tab[t].cookies.login
        <5>1. tab[t].form.token = Mac("login", tab[t].cookies.login)
          BY <2>3, <4>1 DEF LetsThrough, ValidateLogin
        <5> QED
          BY <5>1, MacFields
      <4>2. ASSUME tab[t].request \in Posts, tab[t].request # "POST /login"
            PROVE  /\ tab[t].form.token.key = process
                   /\ tab[t].form.token.context = tab[t].cookies.session
        <5>1. tab[t].form.token = Mac("auth", tab[t].cookies.session)
          BY <2>3, <4>2 DEF LetsThrough, ValidateAuth
        <5> QED
          BY <5>1, MacFields
      <4> QED
        BY <4>1, <4>2
    <3>4. Bound(s)
      BY <1>1, <2>3 DEF Bound, TabStates, LetsThrough
    <3>5. Verified(s)
      BY <1>1, <3>2, <3>3 DEF Verified, TabStates
    <3> QED
      BY <2>1, <3>1, <3>4, <3>5, ActUpdate
  <2> QED
    BY <1>4, <2>2, <2>3, HandleEffects DEF Responds
<1>5. CASE Tick \/ EndSession
  <2>1. UNCHANGED <<process, tab>>
    BY <1>5 DEF Tick, EndSession
  <2> QED
    BY <1>1, <2>1 DEF ActInv, Bound, Verified
<1>6. CASE Restart
  <2>1. ASSUME NEW t \in Tabs PROVE Bound(tab'[t]) /\ tab'[t].phase # "checked"
    <3>1. CASE tab[t].phase \in {"sent", "checked"}
      <4>1. tab'[t] = Showing(None, FALSE)
        BY <1>6, <3>1 DEF Restart
      <4> QED
        BY <4>1 DEF Showing, Tab, Bound, Binds
    <3>2. CASE tab[t].phase \notin {"sent", "checked"}
      <4> DEFINE s == tab[t]
      <4>1. tab'[t] = [s EXCEPT !.calm = FALSE] /\ s \in TabStates /\ Bound(s)
        BY <1>1, <1>6, <3>2 DEF Restart
      <4>2. s.phase # "checked"
        BY <3>2
      <4> HIDE DEF s
      <4> QED
        BY <4>1, <4>2 DEF Bound, TabStates
    <3> QED
      BY <3>1, <3>2
  <2> QED
    BY <2>1 DEF ActInv, Verified, Bound
<1>7. CASE UNCHANGED vars
  BY <1>1, <1>7 DEF vars, ActInv, Bound, Verified
<1> QED
  BY <1>2, <1>3, <1>4, <1>5, <1>6, <1>7 DEF Next

LEMMA ActInit == Init => ActInv
<1> SUFFICES ASSUME Init, NEW t \in Tabs PROVE Bound(tab[t]) /\ Verified(tab[t])
  BY DEF ActInv
<1>1. tab[t] = Showing(None, TRUE)
  BY DEF Init
<1> QED
  BY <1>1 DEF Bound, Binds, Verified, Showing, Tab

\* GP-010, for any number of tabs: whatever the tabs, their cookies and the process
\* do between the page and the post, a post that reaches its handler acts for the
\* session or login context its page was made for, with a token of this process.
THEOREM ActsForItsPageHolds == Spec => []ActsForItsPage
<1>1. TypeInv /\ ActInv => ActsForItsPage
  <2> SUFFICES ASSUME TypeInv, ActInv, NEW t \in Tabs,
                      tab[t].phase = "checked", tab[t].request \in Posts
               PROVE  LET form == tab[t].form IN
                      /\ form.action = tab[t].request
                      /\ form.token.key = process
                      /\ form.madeFor = IF form.action = "POST /login" THEN tab[t].cookies.login
                                                                       ELSE tab[t].cookies.session
    BY DEF ActsForItsPage
  <2>1. tab[t].form.action = tab[t].request
    BY RequestTypes
  <2>2. Verified(tab[t])
    BY DEF ActInv
  <2> QED
    BY <2>1, <2>2 DEF Verified
<1> QED
  BY <1>1, TypeHolds, ActInit, ActStep, PTL DEF Spec

-----------------------------------------------------------------------------
(* CalmFormWorks.  The predicates on a tab's state s take what they need of *)
(* the other variables as parameters: the clock n, the process p, the live  *)
(* sessions lv, the number lg of sessions opened, and the cookies j.        *)

\* No form is for a session that is still to be opened.
KnownForm(form, lg) ==
    form # None /\ form.action # "POST /login" => form.madeFor \in Nat /\ form.madeFor <= lg
KnownSession(session, lg) == session # None => session \in Nat /\ session <= lg

Known(s, lg) ==
    /\ s.phase = "shown" => KnownForm(s.form, lg)
    /\ s.phase \in {"sent", "checked"} => KnownSession(s.cookies.session, lg)
    /\ s.phase = "answered" =>
          /\ KnownForm(s.answer.form, lg)
          /\ \A session \in s.answer.session : KnownSession(session, lg)

\* The cookies a calm tab sent are the browser's, but for those that ended.
Current(s, n, lv, j) == s.phase \in {"sent", "checked"} /\ s.calm =>
    /\ s.cookies.login = j.login \/ (s.cookies.login # None /\ s.cookies.login.expires <= n)
    /\ s.cookies.session = j.session \/ s.cookies.session \notin lv

\* A form is of process p, and its cookie is the one given unless it ended.
Fits(form, login, session, n, p, lv) == form # None =>
    /\ form.token.key = p
    /\ IF form.action = "POST /login"
       THEN /\ form.madeFor.key = p /\ form.madeFor # None
            /\ form.madeFor = login \/ form.madeFor.expires <= n
       ELSE form.madeFor = session \/ form.madeFor \notin lv

Arrives(s, n, p, lv, j) == s.phase = "answered" /\ s.calm =>
    Fits(s.answer.form, Stored(j.login, s.answer.login),
         Stored(j.session, s.answer.session), n, p, lv)
Stays(s, n, p, lv, j) == s.phase = "shown" /\ s.calm =>
    Fits(s.form, j.login, j.session, n, p, lv)

Calm(s, n, p, lv, lg, j) ==
    Known(s, lg) /\ Current(s, n, lv, j) /\ Arrives(s, n, p, lv, j) /\ Stays(s, n, p, lv, j)

CalmInv ==
    /\ KnownSession(jar.session, logins)
    /\ \A t \in Tabs : Calm(tab[t], now, process, live, logins, jar)

\* Another tab's request, or its session's opening or end.
LEMMA CalmUnderHandling ==
    ASSUME NEW s, NEW n, NEW p, NEW lv, NEW lg \in Nat, NEW j, NEW lv2, NEW lg2,
           Calm(s, n, p, lv, lg, j), Shaped(s), None \notin lv2,
           \/ lg2 = lg /\ lv2 \subseteq lv
           \/ lg2 = lg + 1 /\ lv2 = lv \union {lg + 1}
    PROVE  Calm(s, n, p, lv2, lg2, j)
<1>0. ASSUME NEW x \in Nat, x <= lg
      PROVE  x <= lg2 /\ (x \notin lv => x \notin lv2)
  BY <1>0
<1>1. ASSUME NEW form, KnownForm(form, lg)
      PROVE  KnownForm(form, lg2)
  BY <1>0, <1>1 DEF KnownForm
<1>2. \A session : KnownSession(session, lg) => KnownSession(session, lg2)
  BY DEF KnownSession
<1>3. \A session : KnownSession(session, lg) /\ session \notin lv => session \notin lv2
  BY DEF KnownSession
<1>4. Known(s, lg2)
  BY <1>1, <1>2 DEF Calm, Known
<1>5. Current(s, n, lv2, j)
  BY <1>3 DEF Calm, Known, Current
<1>6. ASSUME NEW form, NEW login, NEW session,
             KnownForm(form, lg), Fits(form, login, session, n, p, lv)
      PROVE  Fits(form, login, session, n, p, lv2)
  BY <1>0, <1>6 DEF KnownForm, Fits
<1>7. Arrives(s, n, p, lv2, j)
  BY <1>6 DEF Calm, Known, Arrives
<1>8. Stays(s, n, p, lv2, j)
  BY <1>6 DEF Calm, Known, Stays
<1> QED
  BY <1>4, <1>5, <1>7, <1>8 DEF Calm

LEMMA CalmUnderTick ==
    ASSUME NEW s \in TabStates, NEW n \in Nat, NEW p, NEW lv, NEW lg, NEW j \in Cookies,
           NEW j2, Calm(s, n, p, lv, lg, j), Shaped(s),
           j2 = IF j.login # None /\ j.login.expires <= n + 1
                THEN [j EXCEPT !.login = None] ELSE j
    PROVE  Calm(s, n + 1, p, lv, lg, j2)
<1>1. j2.session = j.session
  BY DEF Cookies
<1>2. j2.login = j.login \/ (j.login # None /\ j.login \in LoginCookies /\ j.login.expires <= n + 1)
  BY DEF Cookies
<1>3. Current(s, n + 1, lv, j2)
  <2>1. s.phase \in {"sent", "checked"} => s.cookies \in Cookies
    BY DEF Shaped
  <2>2. s.phase \in {"sent", "checked"} /\ s.cookies.login # None /\ s.cookies.login.expires <= n
        => s.cookies.login.expires <= n + 1
    BY <2>1 DEF Cookies, LoginCookies
  <2> QED
    BY <1>1, <1>2, <2>2 DEF Calm, Current
<1>4. ASSUME NEW form \in {None} \union Forms, NEW login, NEW login2, NEW session,
             Fits(form, login, session, n, p, lv),
             login2 = login \/ (login = j.login /\ j.login.expires <= n + 1)
      PROVE  Fits(form, login2, session, n + 1, p, lv)
  <2>1. ASSUME form # None, form.action = "POST /login", form.madeFor.expires <= n
        PROVE  form.madeFor.expires <= n + 1
    <3>1. form \in LoginForms
      BY <2>1 DEF Forms, AuthForms
    <3>2. form.madeFor.expires \in Nat
      BY <3>1 DEF LoginForms, LoginCookies
    <3>3. \A x \in Nat : x <= n => x <= n + 1
      OBVIOUS
    <3> QED
      BY <2>1, <3>2, <3>3
  <2> QED
    BY <1>4, <2>1 DEF Fits
<1>5. Arrives(s, n + 1, p, lv, j2)
  <2> SUFFICES ASSUME s.phase = "answered", s.calm
               PROVE  Fits(s.answer.form, Stored(j2.login, s.answer.login),
                           Stored(j2.session, s.answer.session), n + 1, p, lv)
    BY DEF Arrives
  <2>1. s.answer.form \in {None} \union Forms
    BY DEF Shaped, Answers
  <2>2. \/ Stored(j2.login, s.answer.login) = Stored(j.login, s.answer.login)
        \/ /\ Stored(j.login, s.answer.login) = j.login
           /\ j.login.expires <= n + 1
    BY <1>2 DEF Stored
  <2>3. Fits(s.answer.form, Stored(j.login, s.answer.login),
             Stored(j.session, s.answer.session), n, p, lv)
    BY DEF Calm, Arrives
  <2> QED
    BY <1>1, <1>4, <2>1, <2>2, <2>3
<1>6. Stays(s, n + 1, p, lv, j2)
  <2>1. s.form \in {None} \union Forms
    BY DEF TabStates
  <2> QED
    BY <1>1, <1>2, <1>4, <2>1 DEF Calm, Stays
<1> QED
  BY <1>3, <1>5, <1>6 DEF Calm

LEMMA CalmUnderEndSession ==
    ASSUME NEW s \in TabStates, NEW n, NEW p, NEW lv, NEW lg, NEW j \in Cookies, NEW j2,
           NEW ended \in lv, Calm(s, n, p, lv, lg, j),
           j2 = j \/ (j.session = ended /\ j2 = [j EXCEPT !.session = None])
    PROVE  Calm(s, n, p, lv \ {ended}, lg, j2)
<1>1. j2.login = j.login
  BY DEF Cookies
<1>2. j2.session = j.session \/ j.session = ended
  OBVIOUS
<1>3. Current(s, n, lv \ {ended}, j2)
  BY <1>1, <1>2 DEF Calm, Current
<1>4. ASSUME NEW form, NEW login, NEW session, NEW session2,
             Fits(form, login, session, n, p, lv), session2 = session \/ session = ended
      PROVE  Fits(form, login, session2, n, p, lv \ {ended})
  BY <1>4 DEF Fits
<1>5. Arrives(s, n, p, lv \ {ended}, j2)
  <2>1. \/ Stored(j2.session, s.answer.session) = Stored(j.session, s.answer.session)
        \/ Stored(j.session, s.answer.session) = ended
    BY <1>2 DEF Stored
  <2> QED
    BY <1>1, <1>4, <2>1 DEF Calm, Arrives
<1>6. Stays(s, n, p, lv \ {ended}, j2)
  BY <1>1, <1>2, <1>4 DEF Calm, Stays
<1> QED
  BY <1>3, <1>5, <1>6 DEF Calm

\* Another tab's answer, or a restart.
LEMMA CalmWithoutCalm ==
    ASSUME NEW s \in TabStates, NEW n, NEW p, NEW lv, NEW lg, NEW j, NEW p2, NEW j2,
           NEW c \in BOOLEAN, Calm(s, n, p, lv, lg, j), c => s.calm /\ p2 = p /\ j2 = j
    PROVE  Calm([s EXCEPT !.calm = c], n, p2, lv, lg, j2)
<1> DEFINE s2 == [s EXCEPT !.calm = c]
<1>1. /\ s2.phase = s.phase /\ s2.form = s.form /\ s2.cookies = s.cookies
      /\ s2.answer = s.answer /\ s2.calm = c
  BY DEF TabStates
<1> HIDE DEF s2
<1>2. Known(s2, lg)
  BY <1>1 DEF Calm, Known
<1>3. Current(s2, n, lv, j2)
  BY <1>1 DEF Calm, Current
<1>4. Arrives(s2, n, p2, lv, j2)
  BY <1>1 DEF Calm, Arrives
<1>5. Stays(s2, n, p2, lv, j2)
  BY <1>1 DEF Calm, Stays
<1> QED
  BY <1>2, <1>3, <1>4, <1>5 DEF s2, Calm

LEMMA LoginFormFits ==
    ASSUME NEW cookie, NEW form, form = LoginForm(cookie), NEW session, NEW n, NEW lv,
           cookie # None, cookie.key = process
    PROVE  Fits(form, cookie, session, n, process, lv)
<1>1. form.action = "POST /login" /\ form.token = Mac("login", cookie) /\ form.madeFor = cookie
  BY DEF LoginForm
<1>2. form.token.key = process
  BY DEF LoginForm, Mac
<1> QED
  BY <1>1, <1>2 DEF Fits

LEMMA AuthFormFits ==
    ASSUME NEW action, action # "POST /login", NEW session, NEW form,
           form = AuthForm(action, session), NEW login, NEW old, NEW n, NEW lv,
           session = old \/ session \notin lv
    PROVE  Fits(form, login, old, n, process, lv)
<1>1. form.action = action /\ form.token = Mac("auth", session) /\ form.madeFor = session
  BY DEF AuthForm
<1>2. form.token.key = process
  BY DEF AuthForm, Mac
<1> QED
  BY <1>1, <1>2 DEF Fits

LEMMA NotYetOpened ==
    ASSUME NEW session \in Nat, NEW lg \in Nat, session <= lg
    PROVE  session # lg + 1
OBVIOUS

\* An answer to a calm tab brings a form that fits what it leaves in the browser.
LEMMA RenderedFits ==
    ASSUME TypeInv, CalmInv, NEW t \in Tabs, tab[t].phase \in {"sent", "checked"},
           NEW answer \in Answers, Renders(t, answer), tab[t].calm, NEW lv,
           \/ lv \subseteq live
           \/ lv = live \union {logins + 1}
    PROVE  Fits(answer.form, Stored(jar.login, answer.login),
                Stored(jar.session, answer.session), now, process, lv)
<1>1. /\ Current(tab[t], now, live, jar)
      /\ KnownSession(tab[t].cookies.session, logins)
  BY DEF CalmInv, Calm, Known
<1>2. CASE answer.form = None
  BY <1>2 DEF Fits
<1>3. CASE answer.form = LoginForm(NewLoginContext) /\ answer.login = {NewLoginContext}
  <2>1. NewLoginContext.key = process /\ NewLoginContext # None
    BY ContextTypes, TokenAssumption DEF NewLoginContext
  <2>2. Stored(jar.login, answer.login) = NewLoginContext
    BY <1>3 DEF Stored
  <2> QED
    BY <1>3, <2>1, <2>2, LoginFormFits
<1>4. ASSUME NEW cookie, cookie = tab[t].cookies.login, ValidContext(cookie),
             answer = Page(LoginForm(cookie))
      PROVE  Fits(answer.form, Stored(jar.login, answer.login),
                  Stored(jar.session, answer.session), now, process, lv)
  <2>1. answer.form = LoginForm(cookie) /\ answer.login = {}
    BY <1>4 DEF Page, Answer
  <2>2. cookie # None /\ cookie.key = process /\ cookie.expires > now
    BY <1>4 DEF ValidContext
  <2>3. cookie = jar.login
    <3>1. cookie \in LoginCookies /\ now \in Nat
      BY <1>4, <2>2, RequestTypes DEF TypeInv, TypeOK
    <3>2. cookie.expires \in Nat
      BY <3>1 DEF LoginCookies
    <3>3. cookie = jar.login \/ cookie.expires <= now
      BY <1>1, <1>4 DEF Current
    <3> QED
      BY <2>2, <3>1, <3>2, <3>3
  <2>4. Stored(jar.login, answer.login) = cookie
    BY <2>1, <2>3 DEF Stored
  <2> QED
    BY <2>1, <2>2, <2>4, LoginFormFits
<1>5. ASSUME tab[t].phase = "checked", tab[t].request # "POST /login",
             NEW action \in {"POST /logout", "POST /account/password"},
             NEW session, session = tab[t].cookies.session,
             answer = Page(AuthForm(action, session))
      PROVE  Fits(answer.form, Stored(jar.login, answer.login),
                  Stored(jar.session, answer.session), now, process, lv)
  <2>1. answer.form = AuthForm(action, session) /\ answer.session = {}
    BY <1>5 DEF Page, Answer
  <2>2. session \in Nat /\ logins \in Nat /\ session <= logins
    <3>1. session \in Sessions
      BY <1>5, RequestTypes
    <3>2. session # None
      BY <3>1, TokenAssumption DEF Sessions
    <3> QED
      BY <1>1, <1>5, <3>2 DEF KnownSession, TypeInv, TypeOK
  <2>3. session = jar.session \/ session \notin lv
    <3>1. session # logins + 1
      BY <2>2, NotYetOpened
    <3>2. session = jar.session \/ session \notin live
      BY <1>1, <1>5 DEF Current
    <3> QED
      BY <3>1, <3>2
  <2>4. Stored(jar.session, answer.session) = jar.session
    BY <2>1 DEF Stored
  <2>5. action # "POST /login"
    BY <1>5
  <2> QED
    BY <2>1, <2>3, <2>4, <2>5, AuthFormFits
<1> QED
  BY <1>2, <1>3, <1>4, <1>5 DEF Renders

LEMMA AtMostTransitive ==
    ASSUME NEW x \in Nat, NEW y \in Nat, NEW z \in Nat, x <= y, y <= z
    PROVE  x <= z
OBVIOUS

\* The tab that is handled: what it may know after the answer.
LEMMA RenderedKnown ==
    ASSUME TypeInv, CalmInv, NEW t \in Tabs, tab[t].phase \in {"sent", "checked"},
           NEW answer, Renders(t, answer), Opens(answer), logins' \in {logins, logins + 1}
    PROVE  /\ KnownForm(answer.form, logins')
           /\ \A session \in answer.session : KnownSession(session, logins')
<1>1. logins \in Nat /\ logins' \in Nat /\ logins <= logins'
  BY DEF TypeInv, TypeOK
<1>2. ASSUME NEW cookie
      PROVE  KnownForm(LoginForm(cookie), logins')
  BY DEF LoginForm, KnownForm
<1>3. ASSUME NEW action \in {"POST /logout", "POST /account/password"},
             tab[t].phase = "checked", tab[t].request # "POST /login",
             NEW session, session = tab[t].cookies.session
      PROVE  KnownForm(AuthForm(action, session), logins')
  <2>1. session \in Sessions /\ session # None
    BY <1>3, RequestTypes, TokenAssumption DEF Sessions
  <2>2. KnownSession(session, logins)
    BY <1>3 DEF CalmInv, Calm, Known
  <2>3. session \in Nat /\ session <= logins'
    <3>1. session \in Nat /\ session <= logins
      BY <2>1, <2>2 DEF KnownSession
    <3> QED
      BY <1>1, <3>1, AtMostTransitive
  <2>4. AuthForm(action, session).madeFor = session
    BY DEF AuthForm
  <2> QED
    BY <2>3, <2>4 DEF KnownForm
<1>4. KnownForm(None, logins')
  BY DEF KnownForm
<1>5. \A form : Page(form).form = form
  BY DEF Page, Answer
<1>6. KnownForm(answer.form, logins')
  BY <1>2, <1>3, <1>4, <1>5 DEF Renders
<1>7. \A session \in answer.session : KnownSession(session, logins')
  <2>1. CASE answer.session \subseteq {None}
    BY <2>1 DEF KnownSession
  <2>2. CASE logins' = logins + 1 /\ answer.session = {logins + 1}
    BY <1>1, <2>2 DEF KnownSession
  <2> QED
    BY <2>1, <2>2 DEF Opens
<1> QED
  BY <1>6, <1>7

LEMMA CalmClick ==
    ASSUME TypeInv, CalmInv, NEW t \in Tabs, Click(t)
    PROVE  CalmInv'
<1>1. \A u \in Tabs : Calm(tab[u], now, process, live, logins, jar)
  BY DEF CalmInv
<1>2. UNCHANGED <<now, process, live, logins, jar>>
  BY DEF Click
<1>3. PICK form, request :
          tab' = [tab EXCEPT ![t] = Tab("sent", form, request, jar, None, TRUE)]
  BY DEF Click
<1> DEFINE s == Tab("sent", form, request, jar, None, TRUE)
<1>4. Calm(s, now, process, live, logins, jar)
  BY DEF CalmInv, Tab, Calm, Known, Current, Arrives, Stays
<1>5. \A u \in Tabs : tab'[u] = IF u = t THEN s ELSE tab[u]
  BY <1>3 DEF TypeInv, TypeOK
<1> HIDE DEF s
<1> QED
  BY <1>1, <1>2, <1>4, <1>5 DEF CalmInv

LEMMA CalmHandle ==
    ASSUME TypeInv, TypeInv', CalmInv, NEW t \in Tabs, Handle(t)
    PROVE  CalmInv'
<1>1. /\ UNCHANGED <<now, process, jar>>
      /\ \/ logins' = logins /\ live' \subseteq live
         \/ logins' = logins + 1 /\ live' = live \union {logins + 1}
  BY HandleFrame
<1>2. logins \in Nat /\ None \notin live' /\ tab \in [Tabs -> TabStates]
  BY TokenAssumption DEF TypeInv, TypeOK, Sessions
<1>3. ASSUME NEW u \in Tabs
      PROVE  Calm(tab[u], now, process, live', logins', jar)
  BY <1>1, <1>2, CalmUnderHandling DEF CalmInv, TypeInv
<1>4. ASSUME NEW answer \in Answers, tab[t].phase \in {"sent", "checked"},
             Reply(t, answer), Renders(t, answer), Opens(answer)
      PROVE  \A u \in Tabs : Calm(tab'[u], now, process, live', logins', jar)
  <2> DEFINE s == Tab("answered", None, None, None, answer, tab[t].calm)
  <2>1. \A u \in Tabs : tab'[u] = IF u = t THEN s ELSE tab[u]
    BY <1>2, <1>4 DEF Reply, Tab
  <2>2. /\ s.phase = "answered" /\ s.answer = answer /\ s.calm = tab[t].calm
    BY DEF Tab
  <2> HIDE DEF s
  <2>3. Known(s, logins')
    BY <1>1, <1>4, <2>2, RenderedKnown DEF Known
  <2>4. Current(s, now, live', jar) /\ Stays(s, now, process, live', jar)
    BY <2>2 DEF Current, Stays
  <2>5. Arrives(s, now, process, live', jar)
    BY <1>1, <1>4, <2>2, RenderedFits DEF Arrives
  <2>6. Calm(s, now, process, live', logins', jar)
    BY <2>3, <2>4, <2>5 DEF Calm
  <2> QED
    BY <1>3, <2>1, <2>6
<1>5. ASSUME LetsThrough(t)
      PROVE  \A u \in Tabs : Calm(tab'[u], now, process, live', logins', jar)
  <2> DEFINE old == tab[t]  s == [old EXCEPT !.phase = "checked"]
  <2>1. \A u \in Tabs : tab'[u] = IF u = t THEN s ELSE tab[u]
    BY <1>2, <1>5 DEF LetsThrough, Pass
  <2>2. Calm(old, now, process, live', logins', jar)
    BY <1>3
  <2>3. /\ s.phase = "checked" /\ s.cookies = old.cookies /\ s.calm = old.calm
        /\ old.phase = "sent"
    BY <1>2, <1>5 DEF TabStates, LetsThrough
  <2> HIDE DEF old, s
  <2>4. Calm(s, now, process, live', logins', jar)
    BY <2>2, <2>3 DEF Calm, Known, Current, Arrives, Stays
  <2> QED
    BY <1>3, <2>1, <2>4
<1>6. \A u \in Tabs : Calm(tab'[u], now, process, live', logins', jar)
  BY <1>4, <1>5, HandleEffects DEF Responds
<1>7. KnownSession(jar.session, logins')
  BY <1>1, <1>2 DEF CalmInv, KnownSession
<1> QED
  BY <1>1, <1>6, <1>7 DEF CalmInv

LEMMA CalmReceive ==
    ASSUME TypeInv, CalmInv, NEW t \in Tabs, Receive(t)
    PROVE  CalmInv'
<1> DEFINE answer == tab[t].answer
           stored == [login   |-> Stored(jar.login, answer.login),
                      session |-> Stored(jar.session, answer.session)]
           calm == tab[t].calm
           mine == IF answer.redirect = None THEN Showing(answer.form, calm)
                   ELSE Tab("sent", None, answer.redirect, stored, None, TRUE)
<1>1. UNCHANGED <<now, process, live, logins>> /\ jar' = stored
  BY DEF Receive
<1>2. tab[t].phase = "answered" /\ Calm(tab[t], now, process, live, logins, jar)
  BY DEF Receive, CalmInv
<1>3. KnownSession(stored.session, logins)
  BY <1>2 DEF CalmInv, Calm, Known, Stored
<1>4. ASSUME answer.redirect = None
      PROVE  Calm(mine, now, process, live, logins, stored)
  <2>1. mine.phase = "shown" /\ mine.form = answer.form /\ mine.calm = calm
    BY <1>4 DEF Showing, Tab
  <2>2. Fits(answer.form, stored.login, stored.session, now, process, live) \/ ~calm
    BY <1>2 DEF Calm, Arrives
  <2>3. KnownForm(answer.form, logins)
    BY <1>2 DEF Calm, Known
  <2> HIDE DEF mine, answer, stored, calm
  <2> QED
    BY <2>1, <2>2, <2>3 DEF Calm, Known, Current, Arrives, Stays
<1>5. ASSUME answer.redirect # None
      PROVE  Calm(mine, now, process, live, logins, stored)
  <2>1. mine.phase = "sent" /\ mine.cookies = stored
    BY <1>5 DEF Tab
  <2> HIDE DEF mine, stored
  <2> QED
    BY <1>3, <2>1 DEF Calm, Known, Current, Arrives, Stays
<1>6. Calm(mine, now, process, live, logins, stored)
  BY <1>4, <1>5
<1>7. tab' = [u \in Tabs |-> IF u # t THEN [tab[u] EXCEPT !.calm = @ /\ stored = jar] ELSE mine]
  BY DEF Receive
<1>8. ASSUME NEW u \in Tabs, u # t
      PROVE  Calm(tab'[u], now, process, live, logins, stored)
  <2> DEFINE s == tab[u]  c == s.calm /\ stored = jar
  <2>1. s \in TabStates /\ Calm(s, now, process, live, logins, jar)
    BY DEF TypeInv, TypeOK, CalmInv
  <2>2. c \in BOOLEAN /\ (c => s.calm /\ process = process /\ stored = jar)
    OBVIOUS
  <2>3. tab'[u] = [s EXCEPT !.calm = c]
    BY <1>7, <1>8
  <2> HIDE DEF s, c, stored
  <2>4. Calm([s EXCEPT !.calm = c], now, process, live, logins, stored)
    BY <2>1, <2>2, CalmWithoutCalm
  <2> QED
    BY <2>3, <2>4
<1>9. \A u \in Tabs : Calm(tab'[u], now, process, live, logins, stored)
  BY <1>6, <1>7, <1>8
<1> HIDE DEF stored
<1> QED
  BY <1>1, <1>3, <1>9 DEF CalmInv

LEMMA CalmStep == TypeInv /\ TypeInv' /\ CalmInv /\ [Next]_vars => CalmInv'
<1> SUFFICES ASSUME TypeInv, TypeInv', CalmInv, [Next]_vars PROVE CalmInv'
  OBVIOUS
<1>1. /\ \A t \in Tabs : Calm(tab[t], now, process, live, logins, jar)
      /\ KnownSession(jar.session, logins)
  BY DEF CalmInv
<1>2. /\ now \in Nat /\ logins \in Nat /\ jar \in Cookies
      /\ \A t \in Tabs : tab[t] \in TabStates /\ Shaped(tab[t])
  BY DEF TypeInv, TypeOK
<1>3. CASE Tick
  <2>1. /\ now' = now + 1 /\ UNCHANGED <<process, live, logins, tab>>
        /\ jar' = IF jar.login # None /\ jar.login.expires <= now + 1
                  THEN [jar EXCEPT !.login = None] ELSE jar
    BY <1>3 DEF Tick
  <2>2. \A t \in Tabs : Calm(tab[t], now + 1, process, live, logins, jar')
    BY <1>1, <1>2, <2>1, CalmUnderTick
  <2>3. jar'.session = jar.session
    BY <1>2, <2>1 DEF Cookies
  <2> QED
    BY <1>1, <2>1, <2>2, <2>3 DEF CalmInv
<1>4. CASE EndSession
  <2>1. PICK ended \in live :
            /\ live' = live \ {ended}
            /\ \/ jar' = jar
               \/ jar.session = ended /\ jar' = [jar EXCEPT !.session = None]
    BY <1>4 DEF EndSession
  <2>2. UNCHANGED <<now, process, logins, tab>>
    BY <1>4 DEF EndSession
  <2>3. \A t \in Tabs : Calm(tab[t], now, process, live \ {ended}, logins, jar')
    BY <1>1, <1>2, <2>1, CalmUnderEndSession
  <2>4. jar'.session \in {jar.session, None}
    BY <1>2, <2>1 DEF Cookies
  <2>5. KnownSession(jar'.session, logins)
    BY <1>1, <2>4 DEF KnownSession
  <2> QED
    BY <2>1, <2>2, <2>3, <2>5 DEF CalmInv
<1>5. CASE Restart
  <2>1. UNCHANGED <<now, live, logins, jar>>
    BY <1>5 DEF Restart
  <2>2. ASSUME NEW t \in Tabs
        PROVE  Calm(tab'[t], now, process', live, logins, jar)
    <3> DEFINE s == tab[t]
    <3>1. s \in TabStates /\ Calm(s, now, process, live, logins, jar)
      BY <1>1, <1>2
    <3>2. CASE s.phase \in {"sent", "checked"}
      <4>1. tab'[t] = Showing(None, FALSE)
        BY <1>5, <3>2 DEF Restart
      <4> DEFINE blank == Showing(None, FALSE)
      <4>2. blank.phase = "shown" /\ blank.form = None /\ blank.calm = FALSE
        BY DEF Showing, Tab
      <4> HIDE DEF blank
      <4>3. Calm(blank, now, process', live, logins, jar)
        BY <4>2 DEF Calm, Known, KnownForm, Current, Arrives, Stays
      <4> QED
        BY <4>1, <4>3 DEF blank
    <3>3. CASE s.phase \notin {"sent", "checked"}
      <4>1. tab'[t] = [s EXCEPT !.calm = FALSE]
        BY <1>5, <3>3 DEF Restart
      <4> HIDE DEF s
      <4>2. Calm([s EXCEPT !.calm = FALSE], now, process', live, logins, jar)
        BY <3>1, CalmWithoutCalm
      <4> QED
        BY <4>1, <4>2
    <3> QED
      BY <3>2, <3>3
  <2> QED
    BY <1>1, <2>1, <2>2 DEF CalmInv
<1>6. CASE UNCHANGED vars
  BY <1>1, <1>6 DEF vars, CalmInv
<1>7. ASSUME NEW t \in Tabs, Click(t) \/ Handle(t) \/ Receive(t) PROVE CalmInv'
  BY <1>7, CalmClick, CalmHandle, CalmReceive
<1> QED
  BY <1>3, <1>4, <1>5, <1>6, <1>7 DEF Next

LEMMA CalmInit == Init => CalmInv
<1> SUFFICES ASSUME Init PROVE CalmInv
  OBVIOUS
<1>1. KnownSession(jar.session, logins)
  BY DEF Init, KnownSession
<1>2. ASSUME NEW t \in Tabs PROVE Calm(tab[t], now, process, live, logins, jar)
  <2> DEFINE s == tab[t]
  <2>1. s = Showing(None, TRUE)
    BY DEF Init
  <2>2. s.phase = "shown" /\ s.form = None
    BY <2>1 DEF Showing, Tab
  <2> HIDE DEF s
  <2>3. Calm(s, now, process, live, logins, jar)
    BY <2>2 DEF Calm, Known, KnownForm, Current, Arrives, Stays, Fits
  <2> QED
    BY <2>3 DEF s
<1> QED
  BY <1>1, <1>2 DEF CalmInv

LEMMA Comparable ==
    ASSUME NEW x \in Nat, NEW y \in Nat
    PROVE  x <= y \/ x > y
OBVIOUS

\* No answer leaves a dead form: for any number of tabs, a form that is shown works
\* until its context expires or its session ends, unless the answer to another tab
\* changed the cookies or the process was restarted since it was asked for.
THEOREM CalmFormWorksHolds == Spec => []CalmFormWorks
<1>1. TypeInv /\ ActInv /\ CalmInv => CalmFormWorks
  <2> SUFFICES ASSUME TypeInv, ActInv, CalmInv, NEW t \in Tabs, tab[t].phase = "shown",
                      tab[t].form # None, tab[t].calm
               PROVE  Works(tab[t].form) \/ Expired(tab[t].form)
    BY DEF CalmFormWorks
  <2> DEFINE form == tab[t].form
  <2>1. form \in Forms /\ now \in Nat /\ live \subseteq Sessions
    BY DEF TypeInv, TypeOK, TabStates
  <2>2. form.token.key = process /\ form.token.context = form.madeFor
    BY DEF CalmInv, Calm, Stays, Fits, ActInv, Bound, Binds
  <2>3. IF form.action = "POST /login"
        THEN /\ form.madeFor.key = process /\ form.madeFor # None
             /\ form.madeFor = jar.login \/ form.madeFor.expires <= now
        ELSE form.madeFor = jar.session \/ form.madeFor \notin live
    BY DEF CalmInv, Calm, Stays, Fits
  <2> HIDE DEF form
  <2>4. Works(form) \/ Expired(form)
    <3>1. CASE form.action = "POST /login"
      <4>1. form \in LoginForms
        BY <2>1, <3>1 DEF Forms, AuthForms
      <4>2. form.token = Mac("login", form.madeFor)
        BY <2>2, <4>1 DEF LoginForms, Tokens, Mac
      <4>3. form.madeFor.expires \in Nat
        BY <4>1 DEF LoginForms, LoginCookies
      <4>4. form.madeFor.expires <= now \/ form.madeFor.expires > now
        BY <2>1, <4>3, Comparable
      <4> QED
        BY <2>3, <3>1, <4>2, <4>4 DEF Works, Expired, ValidateLogin, ValidContext
    <3>2. CASE form.action # "POST /login"
      <4>1. form \in AuthForms
        BY <2>1, <3>2 DEF Forms, LoginForms
      <4>2. form.token = Mac("auth", form.madeFor)
        BY <2>2, <4>1 DEF AuthForms, Tokens, Mac
      <4>3. form.madeFor # None
        BY <4>1, TokenAssumption DEF AuthForms, Sessions
      <4> QED
        BY <2>3, <3>2, <4>2, <4>3 DEF Works, Expired, ValidateAuth
    <3> QED
      BY <3>1, <3>2
  <2> QED
    BY <2>4 DEF form
<1>2. Init => TypeInv /\ ActInv /\ CalmInv
  BY TypeInit, ActInit, CalmInit
<1>3. TypeInv /\ ActInv /\ CalmInv /\ [Next]_vars => (TypeInv /\ ActInv /\ CalmInv)'
  BY TypeStep, ActStep, CalmStep
<1> QED
  BY <1>1, <1>2, <1>3, PTL DEF Spec

=============================================================================
