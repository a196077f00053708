-------------------------------- MODULE Pages --------------------------------
(***************************************************************************)
(* GoPanel's pages as a browser sees them: the nesting of the elements an  *)
(* htmx target can name (main, section, div, one id), and on each element  *)
(* the links and forms that lie directly in it.  A page or fragment is the *)
(* sequence of its elements from the outermost to the innermost: no        *)
(* template puts two regions with controls side by side.  Text, classes    *)
(* and table layout are left out; one element of each list stands for its  *)
(* rows.                                                                   *)
(***************************************************************************)
EXTENDS Sequences

CONSTANTS Servers,        \* identifiers of servers that are or may be registered
          DockerServers,  \* those whose connection type is docker
          References,     \* error references
          None

ASSUME DockerServersAreServers == DockerServers \subseteq Servers
ASSUME NoneIsNoSelector == None \notin {"main", "section", "div", "article", "#docker-summary"}

Url(page, of) == [page |-> page, of |-> of]
Home == Url("home", None)
Login == Url("login", None)
ServerList == Url("servers", None)
NewServer == Url("newServer", None)
ErrorList == Url("errors", None)

\* What an element shows: a resource by its address, or a notice about a
\* request (denial, failure, not found), or nothing of its own.
Notice == Url("notice", None)
Nothing == Url("nothing", None)

\* A control without hx- attributes replaces the page; one with them sends an
\* htmx request whose answer goes to the target, inside it or in its place.
Link(url) == [method |-> "GET", url |-> url, target |-> "page", outer |-> FALSE, push |-> TRUE]
HxLink(url, target) == [Link(url) EXCEPT !.target = target]
Form(url) == [method |-> "POST", url |-> url, target |-> "page", outer |-> FALSE, push |-> FALSE]
HxForm(url, target) == [Form(url) EXCEPT !.target = target, !.outer = TRUE]

Region(tag, shows, controls) ==
    <<[tag |-> tag, id |-> None, shows |-> shows, controls |-> controls]>>
Main(controls) == Region("main", Nothing, controls)
Div(controls) == Region("div", Nothing, controls)
Section(controls) == Region("section", Nothing, controls)

-----------------------------------------------------------------------------
(* view *)

HomePage(isAdmin) ==
    Region("main", Home,
           {Link(Home), Form(Url("logout", None)), Link(ServerList), Link(Url("password", None))}
           \union {Link(url) : url \in IF isAdmin THEN {ErrorList} ELSE {}})

NotFoundFragment == Region("div", Notice, {Link(Home)})
NotFoundPage == Main({}) \o NotFoundFragment

-----------------------------------------------------------------------------
(* view/pages/auth *)

LoginPage ==
    Region("main", Login, {Link(Home)}) \o Section({HxForm(Login, "main")})

\* (faulty variant: the form of the page and of the fragment are one)
LoginFragmentTargetingMain ==
    Region("div", Login, {}) \o Section({HxForm(Login, "main")})

LoginFragment ==
    Region("div", Login, {}) \o Section({HxForm(Login, "div")})

PasswordFragment ==
    Region("div", Url("password", None), {HxForm(Url("password", None), "div")})
PasswordPage == Main({}) \o PasswordFragment

DeniedFragment == Region("div", Notice, {Link(Login)})
DeniedPage == Main({}) \o DeniedFragment

FailureFragment == Region("div", Notice, {})
FailurePage == Main({}) \o FailureFragment

-----------------------------------------------------------------------------
(* view/pages/diagnosticpages *)

ErrorListFragment(shown) ==
    Region("div", ErrorList, {HxLink(Url("error", ref), "section") : ref \in shown})
    \o IF shown = {} THEN Div({}) ELSE <<>>
ErrorListPage(shown) == Main({Link(Home)}) \o Section({}) \o ErrorListFragment(shown)

ErrorDetailFragment(ref) == Region("article", Url("error", ref), {})
ErrorDetailPage(ref) ==
    Main({HxLink(ErrorList, "main")}) \o Div({}) \o ErrorDetailFragment(ref)

ErrorNotFoundFragment == Region("div", Notice, {HxLink(ErrorList, "div")})
ErrorNotFoundPage == Main({}) \o ErrorNotFoundFragment

-----------------------------------------------------------------------------
(* view/pages/containerpages *)

SeeErrorLog(ref) == {Link(Url("error", r)) : r \in {ref} \ {None}}

DockerSummary(server, ref) ==
    <<[tag |-> "section", id |-> "#docker-summary", shows |-> Url("server", server),
       controls |-> SeeErrorLog(ref)]>>
    \o Div({HxLink(Url("containers", server), "main"),
            HxForm(Url("testDocker", server), "#docker-summary")})

ContainerTableRow(server, canViewLogs) ==
    {Link(url) : url \in IF canViewLogs THEN {Url("logs", server)} ELSE {}}
ContainerListFragment(server, isEmpty, canViewLogs) ==
    Div({})
    \o Div(IF isEmpty THEN {Link(Url("containers", server))}
                      ELSE ContainerTableRow(server, canViewLogs))
ContainerListMain(server, isEmpty, canViewLogs) ==
    Region("main", Url("containers", server), {HxLink(Url("server", server), "main")})
    \o Section({}) \o ContainerListFragment(server, isEmpty, canViewLogs)
ContainerListPage(server, isEmpty, canViewLogs) ==
    ContainerListMain(server, isEmpty, canViewLogs)

LogsPage(server) ==
    Region("main", Url("logs", server), {Link(Url("containers", server))}) \o Section({})

DockerErrorFragment(server, ref) ==
    Region("div", Notice, SeeErrorLog(ref) \union {Link(Url("server", server))})
DockerErrorPage(server, ref) == Main({}) \o DockerErrorFragment(server, ref)

-----------------------------------------------------------------------------
(* view/pages/serverpages *)

ServerFormFragment == Region("div", NewServer, {HxForm(ServerList, "div")})
ServerFormPage == Main({HxLink(ServerList, "main")}) \o Div({}) \o ServerFormFragment

ServerListFragment(shown) ==
    Region("div", ServerList, {HxLink(Url("server", server), "section") : server \in shown})
    \o IF shown = {} THEN Div({HxLink(NewServer, "div")}) ELSE <<>>
ServerListPage(shown) ==
    Main({Link(Home), HxLink(NewServer, "main")}) \o Section({}) \o ServerListFragment(shown)

\* ref is the reference kept in the server's Docker status, if any.
ServerDetailFragment(server, ref) ==
    Region("div", Url("server", server), {})
    \o IF server \in DockerServers THEN DockerSummary(server, ref) ELSE <<>>
ServerDetailPage(server, ref) ==
    Main({HxLink(ServerList, "main")}) \o Div({}) \o ServerDetailFragment(server, ref)

ServerErrorFragment(ref) == Region("div", Notice, {Link(Url("error", ref))})
ServerErrorPage(ref) == Main({}) \o ServerErrorFragment(ref)

ServerAuditIncompleteFragment(server, ref) ==
    Region("div", Notice, {}) \o Div({Link(Url("server", server)), Link(Url("error", ref))})
ServerAuditIncompletePage(server, ref) == Main({}) \o ServerAuditIncompleteFragment(server, ref)

ServerNotFoundFragment == Region("div", Notice, {HxLink(ServerList, "div")})
ServerNotFoundPage == Main({}) \o ServerNotFoundFragment
=============================================================================
