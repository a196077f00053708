----------------------------- MODULE Navigation -----------------------------
(***************************************************************************)
(* A browser window on GoPanel: pages are loaded, links followed and forms *)
(* sent.  With scripts, htmx puts most answers into the page that is       *)
(* shown, at the region the control names; without them, or for a control  *)
(* without hx- attributes, the answer is the new page.  Each handler is an *)
(* action that takes a request the user can make and answers it with any   *)
(* of the handler's outcomes, a fragment or a page as the request asks.    *)
(*                                                                         *)
(* Back and forward among the addresses that htmx pushed do not load a     *)
(* page: htmx restores the body from its cache or, when it is not there,   *)
(* requests it.  A page that is loaded starts a document of its own, and   *)
(* going back to an earlier document loads it again, as a visit does.      *)
(***************************************************************************)
EXTENDS Pages, Naturals, FiniteSets

CONSTANTS MaxDepth,       \* bound on the nesting of regions
          MaxEntries      \* bound on the entries of the history that are modelled

VARIABLES scripted,       \* the browser runs htmx and application.js
          address,        \* the URL in the address bar
          path,           \* htmx's currentPathForHistory
          dom,            \* the elements of the body, outermost first
          bare,           \* the body was restored from a fragment, without a page
          entries,        \* what the document has left behind: addresses, with the
                          \* bodies htmx saved of them
          registered      \* servers in the servers table

window == <<address, path, dom, bare, entries>>
vars == <<scripted, window, registered>>

Blank == <<>>             \* the window while the browser follows a redirect

Protected == {"home", "logout", "password", "servers", "newServer", "server",
              "containers", "logs", "testDocker", "errors", "error"}

\* The routes of the four Routes functions and of the application.
Routed ==
    [GET  |-> {"home", "login", "password", "servers", "newServer", "server",
               "containers", "logs", "errors", "error"},
     POST |-> {"login", "logout", "password", "servers", "testDocker"}]

Addresses == {Home, Login, Url("password", None), ServerList, NewServer, ErrorList,
              Url("unknown", None)}
             \union {Url(page, s) : page \in {"server", "containers"}, s \in Servers}
             \union {Url("logs", s) : s \in DockerServers}
             \union {Url("error", ref) : ref \in References}

TypeOK == /\ scripted \in BOOLEAN
          /\ registered \subseteq Servers
          /\ bare \in BOOLEAN
          /\ {address, path} \union {e.url : e \in entries} \subseteq
                 [page : Routed.GET \union Routed.POST \union {"unknown"},
                  of : Servers \union References \union {None}]

-----------------------------------------------------------------------------
(* htmx: where an answer goes *)

\* The element a selector names for a control in element i: an ancestor by its
\* tag (hx-target="closest tag"), or the first with an id.  0 if there is none.
Matching(i, target) == {k \in 1..Len(dom) :
    \/ k <= i /\ dom[k].tag = target
    \/ dom[k].id = target}
Target(i, target) ==
    IF Matching(i, target) = {} THEN 0
    ELSE IF target = "#docker-summary"
         THEN CHOOSE k \in Matching(i, target) : \A j \in Matching(i, target) : k <= j
         ELSE CHOOSE k \in Matching(i, target) : \A j \in Matching(i, target) : k >= j

Controls == UNION {{k} \X dom[k].controls : k \in 1..Len(dom)}

IsEnhanced(c) == scripted /\ c.target # "page"

\* A request for a new page, as all are without htmx.
Load(method, url) == [method |-> method, url |-> url, at |-> 0, outer |-> FALSE,
                      push |-> TRUE, restore |-> FALSE]

\* An address that is typed, reloaded, bookmarked or redirected to.
Visit(url) == Load("GET", url)
Visits == {Visit(url) : url \in IF dom = Blank THEN {address} ELSE Addresses}

\* What a click sends: htmx sends nothing for a control whose target is missing.
Clicks ==
    {Load(c.method, c.url) : c \in {x[2] : x \in {y \in Controls : ~IsEnhanced(y[2])}}}
    \union
    {[method |-> x[2].method, url |-> x[2].url, at |-> Target(x[1], x[2].target),
      outer |-> x[2].outer, push |-> x[2].push, restore |-> FALSE] :
        x \in {y \in Controls : IsEnhanced(y[2]) /\ Target(y[1], y[2].target) # 0}}

\* The history with the body on the screen, which htmx saves under path before it
\* pushes an address or restores another.
Snapshots ==
    {e \in entries : e.url # path} \union {[url |-> path, body |-> dom, bare |-> bare]}
Saved == \E S \in SUBSET Snapshots :
    /\ S = Snapshots \/ Cardinality(S) = MaxEntries
    /\ Cardinality(S) <= MaxEntries
    /\ entries' = S

\* Where Back and forward lead.  The cache holds ten bodies, fewer when storage is
\* short, and none when it is disabled: any of them may have to be requested.
Elsewhere == {e \in Snapshots : e.url # address}
Restores == {[Visit(e.url) EXCEPT !.restore = TRUE] : e \in Elsewhere}

Requests == Clicks \union Visits \union Restores

Asks(r, method, page) == r.method = method /\ r.url.page = page

\* hx-swap="outerHTML", or the default that keeps the element but none of its content.
Swapped(r, fragment) ==
    SubSeq(dom, 1, r.at - 1)
    \o (IF r.outer THEN <<>>
                   ELSE <<[dom[r.at] EXCEPT !.shows = Nothing, !.controls = {}]>>)
    \o fragment

Loaded(page, url) ==
    dom' = page /\ address' = url /\ path' = url /\ bare' = FALSE /\ entries' = {}
Restored(body, isBare, url) ==
    dom' = body /\ address' = url /\ path' = url /\ bare' = isBare /\ Saved

\* (faulty variant: HX-Push-Url is not set, and the request's own address pushed)
AnswerAsWithoutHeader(r, fragment, page, push, url) ==
    IF r.at = 0
    THEN Loaded(page, r.url)
    ELSE /\ Len(Swapped(r, fragment)) <= MaxDepth
         /\ dom' = Swapped(r, fragment)
         /\ IF r.push THEN address' = r.url /\ path' = r.url /\ Saved
                      ELSE UNCHANGED <<address, path, entries>>
         /\ UNCHANGED bare

\* An answer of any status: application.js has errors swapped in as well.
\* An HX-Push-Url header or hx-push-url may put an address in the bar.
AnswerAs(r, fragment, page, push, url) ==
    IF r.at = 0
    THEN Loaded(page, r.url)
    ELSE /\ Len(Swapped(r, fragment)) <= MaxDepth
         /\ dom' = Swapped(r, fragment)
         /\ IF push THEN address' = url /\ path' = url /\ Saved
                    ELSE UNCHANGED <<address, path, entries>>
         /\ UNCHANGED bare

\* A request to restore is one of htmx's, so isHTMXRequest gives it the fragment,
\* and htmx makes that the whole body.
Answer(r, fragment, page) ==
    /\ IF r.restore THEN Restored(fragment, fragment # page, r.url)
                    ELSE AnswerAs(r, fragment, page, r.push, r.url)
    /\ UNCHANGED registered

\* An answer with a status of 400 or more: RestoreFails if it was to restore.
Fail(r, fragment, page) == ~r.restore /\ Answer(r, fragment, page)

Redirect(url) == Loaded(Blank, url) /\ UNCHANGED registered

RestoreSnapshot == \E e \in Elsewhere : Restored(e.body, e.bare, e.url) /\ UNCHANGED registered

\* The answer is an error, or there is none: htmx leaves the page, although the
\* browser has changed the address.
RestoreFails == \E e \in Elsewhere :
    address' = e.url /\ Saved /\ UNCHANGED <<path, dom, bare, registered>>

-----------------------------------------------------------------------------
(* The middleware and the handlers of auth and app *)

\* No session, or no administrator; a token that does not fit; another site's form.
Denied(r) ==
    /\ r.url.page \in Protected \/ Asks(r, "POST", "login")
    /\ Fail(r, DeniedFragment, DeniedPage)
BackendFailure(r) ==
    /\ r.url.page \in Protected \union {"login"}
    /\ Fail(r, FailureFragment, FailurePage)

GetLogin(r) == Asks(r, "GET", "login") /\ Answer(r, LoginFragment, LoginPage)
PostLogin(r) ==
    /\ Asks(r, "POST", "login")
    /\ Answer(r, LoginFragment, LoginPage) \/ Redirect(Home)
PostLogout(r) == Asks(r, "POST", "logout") /\ Redirect(Login)
GetPassword(r) == Asks(r, "GET", "password") /\ Answer(r, PasswordFragment, PasswordPage)
PostPassword(r) ==
    /\ Asks(r, "POST", "password")
    /\ Answer(r, PasswordFragment, PasswordPage) \/ Redirect(Login)

HandleHome(r) ==
    /\ Asks(r, "GET", "home")
    /\ \E isAdmin \in BOOLEAN : Answer(r, HomePage(isAdmin), HomePage(isAdmin))
HandleNotFound(r) == Asks(r, "GET", "unknown") /\ Fail(r, NotFoundFragment, NotFoundPage)

-----------------------------------------------------------------------------
(* The handlers of server, container and diagnostic *)

HandleServerList(r) ==
    /\ Asks(r, "GET", "servers")
    /\ Answer(r, ServerListFragment(registered), ServerListPage(registered))
HandleNewForm(r) == Asks(r, "GET", "newServer") /\ Answer(r, ServerFormFragment, ServerFormPage)

HandleServerDetail(r) ==
    LET server == r.url.of IN
    /\ Asks(r, "GET", "server")
    /\ IF server \in registered
       THEN \E ref \in References \union {None} :
                Answer(r, ServerDetailFragment(server, ref), ServerDetailPage(server, ref))
       ELSE Fail(r, ServerNotFoundFragment, ServerNotFoundPage)

\* A page, form or row that cannot be loaded or prepared (renderServerError).
ServerError(r) ==
    /\ \E page \in {"servers", "newServer", "server"} : Asks(r, "GET", page)
    /\ \E ref \in References : Fail(r, ServerErrorFragment(ref), ServerErrorPage(ref))

\* respondToCreate; the address of the created server is pushed before its
\* detail is prepared, and not when the audit row is incomplete.
Created(r, server) ==
    LET created == Url("server", server) IN
    \/ IF r.at = 0 THEN Loaded(Blank, created)
       ELSE \/ AnswerAs(r, ServerDetailFragment(server, None), Blank, TRUE, created)
            \/ \E ref \in References :
                  AnswerAs(r, ServerErrorFragment(ref), Blank, TRUE, created)
    \/ \E ref \in References :
           AnswerAs(r, ServerAuditIncompleteFragment(server, ref),
                    ServerAuditIncompletePage(server, ref), FALSE, created)
HandleCreate(r) ==
    /\ Asks(r, "POST", "servers")
    /\ \/ Answer(r, ServerFormFragment, ServerFormPage)
       \/ \E ref \in References : Answer(r, ServerErrorFragment(ref), ServerErrorPage(ref))
       \/ \E server \in Servers \ registered :
              registered' = registered \union {server} /\ Created(r, server)

IsDocker(server) == server \in registered \intersect DockerServers

HandleContainerList(r) ==
    LET server == r.url.of IN
    /\ Asks(r, "GET", "containers")
    /\ \/ /\ IsDocker(server)
          /\ \E isEmpty \in BOOLEAN :
                 Answer(r, ContainerListMain(server, isEmpty, TRUE),
                           ContainerListPage(server, isEmpty, TRUE))
       \/ \E ref \in References \union {None} :
              /\ IsDocker(server) => ref # None
              /\ Fail(r, DockerErrorFragment(server, ref), DockerErrorPage(server, ref))

\* The logs are a page in every case; only plain links lead here.
HandleLogs(r) ==
    LET server == r.url.of IN
    /\ Asks(r, "GET", "logs")
    /\ \/ IsDocker(server) /\ Answer(r, LogsPage(server), LogsPage(server))
       \/ \E ref \in References \union {None} :
              Fail(r, DockerErrorFragment(server, ref), DockerErrorPage(server, ref))

\* A failure is expected (the server is not one of Docker's) or recorded.
HandleTestConnection(r) ==
    LET server == r.url.of IN
    /\ Asks(r, "POST", "testDocker")
    /\ \/ r.at = 0 /\ Redirect(Url("server", server))
       \/ r.at # 0 /\ \E ref \in References \union {None} :
                         Answer(r, DockerSummary(server, ref), Blank)
       \/ \E ref \in References \union {None} :
              /\ r.at # 0 => ref = None
              /\ Answer(r, DockerErrorFragment(server, ref), DockerErrorPage(server, ref))

HandleErrorList(r) ==
    /\ Asks(r, "GET", "errors")
    /\ \E shown \in SUBSET References : Answer(r, ErrorListFragment(shown), ErrorListPage(shown))

\* The record may have been evicted, or its process may have ended.
HandleErrorDetail(r) ==
    /\ Asks(r, "GET", "error")
    /\ \/ Answer(r, ErrorDetailFragment(r.url.of), ErrorDetailPage(r.url.of))
       \/ Fail(r, ErrorNotFoundFragment, ErrorNotFoundPage)

\* No answer arrives: application.js puts its alert inside the target.
TransportFailure(r) ==
    /\ r.at # 0
    /\ dom' = Swapped([r EXCEPT !.outer = FALSE], Region("div", Notice, {Link(Home)}))
    /\ Len(dom') <= MaxDepth
    /\ UNCHANGED <<address, path, bare, entries, registered>>

-----------------------------------------------------------------------------

Init == /\ scripted \in BOOLEAN
        /\ address \in Addresses
        /\ path = address
        /\ dom = Blank
        /\ bare = FALSE
        /\ entries = {}
        /\ registered = {}

Handle(r) ==
    \/ Denied(r) \/ BackendFailure(r) \/ GetLogin(r) \/ PostLogin(r) \/ PostLogout(r)
    \/ GetPassword(r) \/ PostPassword(r) \/ HandleHome(r) \/ HandleNotFound(r)
    \/ HandleServerList(r) \/ HandleNewForm(r) \/ HandleServerDetail(r) \/ ServerError(r)
    \/ HandleCreate(r) \/ HandleContainerList(r) \/ HandleLogs(r) \/ HandleTestConnection(r)
    \/ HandleErrorList(r) \/ HandleErrorDetail(r) \/ TransportFailure(r)

Next == /\ UNCHANGED scripted
        /\ (\E r \in Requests : Handle(r)) \/ RestoreSnapshot \/ RestoreFails

Spec == Init /\ [][Next]_vars

-----------------------------------------------------------------------------
(* Properties *)

\* What the innermost element with a meaning shows.
ShownAt == {k \in 1..Len(dom) : dom[k].shows # Nothing}
Shown == IF ShownAt = {} THEN Nothing
         ELSE dom[CHOOSE k \in ShownAt : \A j \in ShownAt : j <= k].shows

\* GP-023: whatever was swapped into whatever else, and restored by Back and
\* forward, the address bar names the resource that is shown, so that a reload or a
\* bookmark finds it again.  Only a notice about a request may stand at the address
\* of something else, and a page that Back could not replace (RestoreFails).
AddressNamesTheView == scripted /\ address = path => Shown \in {address, Notice, Nothing}

\* Every control on the screen is answered: its address is routed for its method,
\* and with htmx the region it names is still in the page and around it, whatever
\* has been swapped or restored before.  This is so of all controls but two kinds:
\* the rows of a list (NoClickIsSilent), and after Back has made a fragment the
\* page those that replace the main element (BackKeepsTheMain).
EveryControlIsServed == \A x \in Controls :
    LET c == x[2]
        lost == IF bare THEN {"section", "main"} ELSE {"section"} IN
    /\ c.url.page \in Routed[c.method]
    /\ IsEnhanced(c) /\ c.target \notin lost => Target(x[1], c.target) \in 1..x[1]

\* GP-023: primary navigation remains compatible with Back.  A control that
\* replaces the main element finds one after Back and forward, too.
BackKeepsTheMain == \A x \in Controls :
    IsEnhanced(x[2]) /\ x[2].target = "main" => Target(x[1], "main") # 0

\* GP-026: no click is answered by nothing at all.
NoClickIsSilent == \A x \in Controls : IsEnhanced(x[2]) => Target(x[1], x[2].target) # 0
=============================================================================
