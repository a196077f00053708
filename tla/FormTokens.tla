----------------------------- MODULE FormTokens -----------------------------
(***************************************************************************)
(* One browser with several tabs, its two cookies, and the CSRF tokens in  *)
(* the forms its tabs show.  A request carries the cookies the browser     *)
(* holds when it is sent; those its answer sets are stored when it         *)
(* arrives, whatever other tabs did meanwhile.  A token is the term its    *)
(* HMAC authenticates.  Random values (contexts, sessions, the signing     *)
(* key of a process) are numbered as they are made.                        *)
(***************************************************************************)
EXTENDS Naturals

CONSTANTS
    Tabs,
    None,
    ContextLifetime,        \* loginContextLifetime, in ticks
    MaxContexts,            \* bound: no click once more contexts were made
    MaxEvents               \* bound on ticks, restarts and sign-ins together

\* A login context as its cookie carries it, authenticated by key.
LoginCookies == [context : Nat, key : Nat, expires : Nat]

ASSUME TokenAssumption ==
    /\ None \notin Nat \union LoginCookies
    /\ ContextLifetime \in Nat \ {0}
    /\ MaxContexts \in Nat /\ MaxEvents \in Nat

VARIABLES
    now,
    process,    \* number of the running process, and of its signing key
    contexts,   \* login contexts made so far
    logins,     \* sessions opened so far
    live,       \* those the database still has
    jar,        \* the browser's cookies: login context and session, or None
    tab         \* what each tab shows, and where its request is

vars == <<now, process, contexts, logins, live, jar, tab>>

Gets == {"GET /login", "GET /", "GET /account/password"}
Posts == {"POST /login", "POST /logout", "POST /account/password"}
Phases == {"shown", "sent", "checked", "answered"}

\* calm is auxiliary: since the tab sent its last request no answer to another tab
\* has changed the cookies, and the process has not restarted.
Tab(phase, form, request, cookies, answer, calm) ==
    [phase |-> phase, form |-> form, request |-> request, cookies |-> cookies,
     answer |-> answer, calm |-> calm]
Showing(form, calm) == Tab("shown", form, None, None, None, calm)

Init ==
    /\ now = 0 /\ process = 0 /\ contexts = 0 /\ logins = 0
    /\ live = {}
    /\ jar = [login |-> None, session |-> None]
    /\ tab = [t \in Tabs |-> Showing(None, TRUE)]

-----------------------------------------------------------------------------
(* CSRF *)

\* (faulty variant: the context is not among the fields of the MAC)
MacWithoutContext(domain, context) == [key |-> process, domain |-> domain, context |-> None]

\* The key, the domain and the context are what the MAC binds together.
Mac(domain, context) == [key |-> process, domain |-> domain, context |-> context]

NewLoginContext == [context |-> contexts + 1, key |-> process, expires |-> now + ContextLifetime]

ValidContext(cookie) == cookie # None /\ cookie.key = process /\ cookie.expires > now

ValidateLogin(cookie, token) == ValidContext(cookie) /\ token = Mac("login", cookie)
ValidateAuth(session, token) == session # None /\ token = Mac("auth", session)

\* A form, and the cookie it was rendered for (auxiliary).
LoginForm(cookie) ==
    [action |-> "POST /login", token |-> Mac("login", cookie), madeFor |-> cookie]
AuthForm(action, session) ==
    [action |-> action, token |-> Mac("auth", session), madeFor |-> session]

-----------------------------------------------------------------------------
(* The browser *)

\* The bounds on clicks; requests that are under way are always handled.
EventsLeft == now + process + logins < MaxEvents
InBounds(request) ==
    /\ contexts <= MaxContexts
    /\ request = "GET /login" => contexts < MaxContexts
    /\ request = "POST /login" => EventsLeft

\* A link, an address, or the form that is shown.
Click(t) ==
    /\ tab[t].phase = "shown"
    /\ \/ \E request \in Gets :
              /\ InBounds(request)
              /\ tab' = [tab EXCEPT ![t] = Tab("sent", None, request, jar, None, TRUE)]
       \/ /\ tab[t].form # None /\ InBounds(tab[t].form.action)
          /\ tab' = [tab EXCEPT ![t] = Tab("sent", @.form, @.form.action, jar, None, TRUE)]
    /\ UNCHANGED <<now, process, contexts, logins, live, jar>>

\* An answer: the form in its page, the cookies it sets (at most one value
\* each), and the address it redirects to.
Answer(form, login, session, redirect) ==
    [form |-> form, login |-> login, session |-> session, redirect |-> redirect]
Page(form) == Answer(form, {}, {}, None)

Stored(old, set) == IF set = {} THEN old ELSE CHOOSE cookie \in set : TRUE

\* The answer arrives: its cookies are stored, and the page is shown or the
\* redirect followed.
Receive(t) ==
    LET answer == tab[t].answer
        stored == [login   |-> Stored(jar.login, answer.login),
                   session |-> Stored(jar.session, answer.session)] IN
    /\ tab[t].phase = "answered"
    /\ jar' = stored
    /\ tab' = [u \in Tabs |->
                  IF u # t THEN [tab[u] EXCEPT !.calm = @ /\ stored = jar]
                  ELSE IF answer.redirect = None THEN Showing(answer.form, tab[t].calm)
                  ELSE Tab("sent", None, answer.redirect, stored, None, TRUE)]
    /\ UNCHANGED <<now, process, contexts, logins, live>>

\* MaxAge of the login cookie is its context's.
Tick ==
    /\ EventsLeft
    /\ now' = now + 1
    /\ jar' = IF jar.login # None /\ jar.login.expires <= now + 1
              THEN [jar EXCEPT !.login = None] ELSE jar
    /\ UNCHANGED <<process, contexts, logins, live, tab>>

-----------------------------------------------------------------------------
(* The handlers *)

Reply(t, answer) ==
    tab' = [tab EXCEPT ![t] = Tab("answered", None, None, None, answer, @.calm)]
Unchanged == UNCHANGED <<now, process, logins, jar>>

\* A failing backend or random source; a post from another site or over 16 KB.
Fail(t) == Reply(t, Page(None)) /\ UNCHANGED <<contexts, live>>

\* A page with a form of a new context and the cookie that carries it.
NewLoginForm(t) ==
    /\ Reply(t, Answer(LoginForm(NewLoginContext), {NewLoginContext}, {}, None))
    /\ contexts' = contexts + 1
    /\ UNCHANGED live

GetLogin(t) ==
    /\ tab[t].phase = "sent" /\ tab[t].request = "GET /login"
    /\ LET cookie == tab[t].cookies.login IN
       \/ IF ValidContext(cookie)
          THEN Reply(t, Page(LoginForm(cookie))) /\ UNCHANGED <<contexts, live>>
          ELSE NewLoginForm(t)
       \/ Fail(t)
    /\ Unchanged

\* (faulty variant: the new context is not stored in the browser)
CsrfFailureWithoutCookie(t) ==
    /\ Reply(t, Page(LoginForm(NewLoginContext)))
    /\ contexts' = contexts + 1
    /\ UNCHANGED live

\* csrfFailure for a login: a new context, even if the browser has a valid one.
CsrfFailure(t) == NewLoginForm(t)

Pass(t) == tab' = [tab EXCEPT ![t].phase = "checked"] /\ UNCHANGED <<contexts, live>>

ProtectLoginPost(t) ==
    /\ tab[t].phase = "sent" /\ tab[t].request = "POST /login"
    /\ \/ IF ValidateLogin(tab[t].cookies.login, tab[t].form.token)
          THEN Pass(t) ELSE CsrfFailure(t)
       \/ Fail(t)
    /\ Unchanged

\* The token for a form that is shown again may come after the context's end.
PostLogin(t) ==
    /\ tab[t].phase = "checked" /\ tab[t].request = "POST /login"
    /\ \/ /\ logins' = logins + 1
          /\ live' = live \union {logins + 1}
          /\ Reply(t, Answer(None, {None}, {logins + 1}, "GET /"))
          /\ UNCHANGED <<now, process, contexts, jar>>
       \/ /\ ValidContext(tab[t].cookies.login)
          /\ Reply(t, Page(LoginForm(tab[t].cookies.login)))
          /\ UNCHANGED <<contexts, live>> /\ Unchanged
       \/ Fail(t) /\ Unchanged

\* (faulty variant: the denied browser is sent home)
DeniedByRedirect == Answer(None, {}, {None}, "GET /")

\* 401, with the session cookie cleared.
Denied == Answer(None, {}, {None}, None)

\* RequireLogin, and ProtectAuthenticatedPost for a post.
RequireLogin(t) ==
    /\ tab[t].phase = "sent"
    /\ tab[t].request \in (Gets \union Posts) \ {"GET /login", "POST /login"}
    /\ LET session == tab[t].cookies.session IN
       \/ /\ session \notin live
          /\ Reply(t, Denied) /\ UNCHANGED <<contexts, live>>
       \/ /\ session \in live
          /\ IF tab[t].request \in Posts => ValidateAuth(session, tab[t].form.token)
             THEN Pass(t) ELSE Reply(t, Page(None)) /\ UNCHANGED <<contexts, live>>
       \/ Fail(t)
    /\ Unchanged

\* handleHome, whose form signs out, and GetPassword.
GetForm(t) ==
    /\ tab[t].phase = "checked" /\ tab[t].request \in Gets
    /\ LET action == IF tab[t].request = "GET /" THEN "POST /logout"
                                                 ELSE "POST /account/password" IN
       \/ /\ Reply(t, Page(AuthForm(action, tab[t].cookies.session)))
          /\ UNCHANGED <<contexts, live>>
       \/ Fail(t)
    /\ Unchanged

\* A password change ends the sessions of the user, with this one if it is left.
SignOut(t, ended) ==
    /\ live' = live \ ended
    /\ Reply(t, Answer(None, {}, {None}, "GET /login"))
    /\ UNCHANGED contexts

PostLogout(t) ==
    /\ tab[t].phase = "checked" /\ tab[t].request = "POST /logout"
    /\ SignOut(t, {tab[t].cookies.session}) \/ Fail(t)
    /\ Unchanged

PostPassword(t) ==
    /\ tab[t].phase = "checked" /\ tab[t].request = "POST /account/password"
    /\ LET session == tab[t].cookies.session IN
       \/ \E others \in SUBSET live : SignOut(t, others \union {session})
       \/ /\ Reply(t, Page(AuthForm("POST /account/password", session)))
          /\ UNCHANGED <<contexts, live>>
       \/ Fail(t)
    /\ Unchanged

\* Expiry, with which the cookie goes; or a sign-out or password change from
\* another browser.
EndSession ==
    /\ \E session \in live :
          /\ live' = live \ {session}
          /\ \/ UNCHANGED jar
             \/ jar.session = session /\ jar' = [jar EXCEPT !.session = None]
    /\ UNCHANGED <<now, process, contexts, logins, tab>>

\* A new process: requests are lost, answers that were written still arrive.
Restart ==
    /\ EventsLeft
    /\ process' = process + 1
    /\ tab' = [t \in Tabs |-> IF tab[t].phase \in {"sent", "checked"}
                              THEN Showing(None, FALSE)
                              ELSE [tab[t] EXCEPT !.calm = FALSE]]
    /\ UNCHANGED <<now, contexts, logins, live, jar>>

Handle(t) ==
    \/ GetLogin(t) \/ ProtectLoginPost(t) \/ PostLogin(t)
    \/ RequireLogin(t) \/ GetForm(t) \/ PostLogout(t) \/ PostPassword(t)

Next ==
    \/ \E t \in Tabs : Click(t) \/ Handle(t) \/ Receive(t)
    \/ Tick \/ EndSession \/ Restart

Spec == Init /\ [][Next]_vars

\* Handlers return (statements and hashing end), and answers arrive.
FairSpec == Spec /\ \A t \in Tabs : WF_<<tab[t]>>(Handle(t) \/ Receive(t))

-----------------------------------------------------------------------------
(* Properties *)

Sessions == Nat \ {0}
Cookies == [login : {None} \union LoginCookies, session : {None} \union Sessions]
Tokens(domain, contextsOf) == [key : Nat, domain : {domain}, context : contextsOf]
LoginForms == [action : {"POST /login"}, token : Tokens("login", LoginCookies),
               madeFor : LoginCookies]
AuthForms == [action : {"POST /logout", "POST /account/password"},
              token : Tokens("auth", Sessions), madeFor : Sessions]
Forms == LoginForms \union AuthForms
Answers == [form : {None} \union Forms,
            login : SUBSET ({None} \union LoginCookies),
            session : SUBSET ({None} \union Sessions),
            redirect : {None} \union Gets]
TabStates == [phase   : Phases,
              form    : {None} \union Forms,
              request : {None} \union Gets \union Posts,
              cookies : {None} \union Cookies,
              answer  : {None} \union Answers,
              calm    : BOOLEAN]

TypeOK ==
    /\ now \in Nat /\ process \in Nat /\ contexts \in Nat /\ logins \in Nat
    /\ live \subseteq Sessions
    /\ jar \in Cookies
    /\ tab \in [Tabs -> TabStates]

\* GP-010: a post that reaches its handler acts for the session, or the login
\* context, that the page with its form was made for, and this process made that
\* form; however other tabs changed the browser's cookies in between.
ActsForItsPage == \A t \in Tabs :
    tab[t].phase = "checked" /\ tab[t].request \in Posts =>
        LET form == tab[t].form IN
        /\ form.action = tab[t].request
        /\ form.token.key = process
        /\ form.madeFor = IF form.action = "POST /login" THEN tab[t].cookies.login
                                                         ELSE tab[t].cookies.session

\* What the checks of a post that is sent now would say of its form.
Works(form) == IF form.action = "POST /login"
               THEN ValidateLogin(jar.login, form.token)
               ELSE ValidateAuth(jar.session, form.token)
Expired(form) == IF form.action = "POST /login" THEN form.madeFor.expires <= now
                                               ELSE form.madeFor \notin live

\* A form that is shown works until its context expires or its session ends, unless
\* another tab's answer has changed the cookies since the form was asked for, or the
\* process has been restarted: no answer ever leaves a user with a form that is dead on
\* arrival, whichever of the handlers rendered it.
CalmFormWorks == \A t \in Tabs :
    /\ tab[t].phase = "shown" /\ tab[t].form # None
    /\ tab[t].calm
    => Works(tab[t].form) \/ Expired(tab[t].form)

\* Every click ends in a page, over its redirects and whatever fails.
EveryClickIsAnswered == \A t \in Tabs : tab[t].phase # "shown" ~> tab[t].phase = "shown"

=============================================================================
