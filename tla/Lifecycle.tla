----------------------------- MODULE Lifecycle -----------------------------
(***************************************************************************)
(* The process: start, serve, drain, stop the background tasks, close.     *)
(*                                                                         *)
(* The main goroutine (cmd/gopanel and app.Application) runs beside the    *)
(* goroutine of http.Server.Serve, the two background tasks and one        *)
(* goroutine per connection.  Nothing of it is persistent, so a behaviour  *)
(* is the life of one process.  http.Server and database/sql are modelled  *)
(* by what they do to the connections and to the pool.                     *)
(***************************************************************************)
EXTENDS Naturals

CONSTANTS
    Connections         \* client connections

VARIABLES
    pc,                 \* what the main goroutine does next
    database, docker,   \* the handles: "none", "open", "closed"
    signalled,          \* SIGTERM or SIGINT arrived: the process context is done
    shuttingDown,       \* Application.shuttingDown
    inShutdown,         \* http.Server.inShutdown
    serving,            \* the goroutine of serveHTTP
    task,               \* task[t]: the goroutine of a background task
    stopped,            \* lifecycleTask.stop was called
    conn,               \* conn[c]: the server's view of connection c
    handler,            \* handler[c]: what the handler on c does next
    answer,             \* answer[c]: what the readiness probe on c is being told
    drain,              \* auxiliary: how Shutdown ended
    late                \* auxiliary, late[c]: its request was read in Shutdown

net == <<conn, handler, answer, late>>
tasks == <<task, stopped>>
handles == <<database, docker>>
vars == <<pc, handles, signalled, shuttingDown, inShutdown, serving, tasks, net,
          drain>>

Tasks == {"cleanup", "poller"}

Init ==
    /\ pc = "open"
    /\ database = "none" /\ docker = "none"
    /\ signalled = FALSE /\ shuttingDown = FALSE /\ inShutdown = FALSE
    /\ serving = "off"
    /\ task = [t \in Tasks |-> "off"]
    /\ stopped = [t \in Tasks |-> FALSE]
    /\ conn = [c \in Connections |-> "closed"]
    /\ handler = [c \in Connections |-> "none"]
    /\ answer = [c \in Connections |-> "none"]
    /\ drain = "none"
    /\ late = [c \in Connections |-> FALSE]

\* The process context is done: every call made with it may fail from now on.
Signal ==
    /\ ~signalled /\ pc # "exit"
    /\ signalled' = TRUE
    /\ UNCHANGED <<pc, handles, shuttingDown, inShutdown, serving, tasks, net, drain>>

-----------------------------------------------------------------------------
(* Start: each step may fail, and then closes what is open.                *)

GoOn(from, to) == pc = from /\ pc' = to

Startup == UNCHANGED <<signalled, shuttingDown, inShutdown, serving, tasks, net, drain>>

\* (faulty variant: the handle is left to the process's end)
FailWithoutClosing == pc' = "exit" /\ UNCHANGED handles

\* closeAfterFailure
Fail == pc' = "exit" /\ database' = "closed" /\ UNCHANGED docker

OpenDatabase ==
    /\ pc = "open"
    /\ \/ database' = "open" /\ pc' = "migrate"
       \/ UNCHANGED database /\ pc' = "exit"
    /\ UNCHANGED docker /\ Startup

Migrate ==
    /\ pc = "migrate"
    /\ \/ pc' = "authentication" /\ UNCHANGED handles
       \/ Fail
    /\ Startup

BuildAuthentication ==
    /\ pc = "authentication"
    /\ \/ pc' = "docker" /\ UNCHANGED handles
       \/ Fail
    /\ Startup

BuildDocker ==
    /\ pc = "docker"
    /\ \/ docker' = "open" /\ pc' = "application" /\ UNCHANGED database
       \/ Fail
    /\ Startup

BuildApplication ==
    /\ pc = "application"
    /\ \/ pc' = "listen" /\ UNCHANGED handles
       \/ pc' = "exit" /\ docker' = "closed" /\ database' = "closed"
    /\ Startup

\* Application.Run: without an address to listen on it finishes at once.
Listen ==
    /\ pc = "listen"
    /\ pc' \in {"start cleanup", "close docker"}
    /\ UNCHANGED handles /\ Startup

StartTask(t, from, to) ==
    /\ GoOn(from, to)
    /\ task' = [task EXCEPT ![t] = IF t = "poller" THEN "busy" ELSE "waiting"]
    /\ UNCHANGED <<handles, signalled, shuttingDown, inShutdown, serving, stopped,
                   net, drain>>

StartServing ==
    /\ GoOn("start serving", "await")
    /\ serving' = "starting"
    /\ UNCHANGED <<handles, signalled, shuttingDown, inShutdown, tasks, net, drain>>

Prepare ==
    \/ OpenDatabase \/ Migrate \/ BuildAuthentication \/ BuildDocker
    \/ BuildApplication \/ Listen
    \/ StartTask("cleanup", "start cleanup", "start poller")
    \/ StartTask("poller", "start poller", "start serving")
    \/ StartServing

-----------------------------------------------------------------------------
(* Shutdown.                                                               *)

\* runHTTPServer: the two cases of its select.
ServeFailed ==
    /\ GoOn("await", "stop poller") /\ serving = "returned"
    /\ UNCHANGED <<handles, signalled, shuttingDown, inShutdown, serving, tasks, net,
                   drain>>

BeginShutdown ==
    /\ GoOn("await", "shutdown") /\ signalled
    /\ shuttingDown' = TRUE
    /\ UNCHANGED <<handles, signalled, inShutdown, serving, tasks, net, drain>>

\* http.Server.Shutdown closes the listener, and then waits.
CloseListener ==
    /\ GoOn("shutdown", "drain")
    /\ inShutdown' = TRUE
    /\ UNCHANGED <<handles, signalled, shuttingDown, serving, tasks, net, drain>>

\* The connections in `which` are closed; their handlers go on, and a request
\* that was just read from an idle connection still gets one.
Close(which) ==
    /\ conn' = [c \in Connections |->
                   IF c \notin which THEN conn[c]
                   ELSE IF conn[c] \in {"read", "active", "cut"} THEN "cut" ELSE "closed"]
    /\ UNCHANGED <<handler, answer, late>>

\* (faulty variant: Shutdown does not wait for handlers)
AwaitedWithoutHandlers == {"new", "read"}

\* The connections that keep Shutdown waiting.
Awaited == {"new", "read", "active"}

\* Shutdown polls, once Serve has returned: idle connections are closed, among
\* them those whose next request is not yet marked active; a new connection
\* only after five seconds.
DrainPoll ==
    /\ pc = "drain" /\ serving # "accepting"
    /\ \E old \in SUBSET {c \in Connections : conn[c] \in {"new", "read"}} :
          Close(old \union {c \in Connections : conn[c] = "idle"})
    /\ IF \E c \in Connections : conn'[c] \in Awaited
          THEN UNCHANGED <<pc, drain>>
          ELSE pc' = "collect" /\ drain' = "completed"
    /\ UNCHANGED <<handles, signalled, shuttingDown, inShutdown, serving, tasks>>

\* (faulty variant: the drain has no deadline)
NoDrainDeadline == FALSE /\ UNCHANGED vars

\* The drain timeout passed: http.Server.Close, which waits for nobody.
DrainDeadline ==
    /\ GoOn("drain", "collect") /\ serving # "accepting"
    /\ Close(Connections)
    /\ drain' = "deadline"
    /\ UNCHANGED <<handles, signalled, shuttingDown, inShutdown, serving, tasks>>

CollectServeError ==
    /\ GoOn("collect", "stop poller") /\ serving = "returned"
    /\ UNCHANGED <<handles, signalled, shuttingDown, inShutdown, serving, tasks, net,
                   drain>>

\* lifecycleTask.stopAndWait
Stop(t, from, to) ==
    /\ GoOn(from, to)
    /\ stopped' = [stopped EXCEPT ![t] = TRUE]
    /\ UNCHANGED <<handles, signalled, shuttingDown, inShutdown, serving, task, net,
                   drain>>

\* (faulty variant: the task is not waited for)
JoinAtOnce(t, from, to) ==
    /\ GoOn(from, to)
    /\ UNCHANGED <<handles, signalled, shuttingDown, inShutdown, serving, tasks, net,
                   drain>>

Join(t, from, to) ==
    /\ GoOn(from, to) /\ task[t] = "done"
    /\ UNCHANGED <<handles, signalled, shuttingDown, inShutdown, serving, tasks, net,
                   drain>>

\* Application.finish
CloseDocker ==
    /\ GoOn("close docker", "close database")
    /\ docker' = "closed"
    /\ UNCHANGED <<database, signalled, shuttingDown, inShutdown, serving, tasks, net,
                   drain>>

CloseDatabase ==
    /\ GoOn("close database", "return")
    /\ database' = "closed"
    /\ UNCHANGED <<docker, signalled, shuttingDown, inShutdown, serving, tasks, net,
                   drain>>

\* finish, Run and run return, and the process exits.
Return ==
    /\ GoOn("return", "exit")
    /\ UNCHANGED <<handles, signalled, shuttingDown, inShutdown, serving, tasks, net,
                   drain>>

ShutDown ==
    \/ ServeFailed \/ BeginShutdown \/ CloseListener \/ DrainPoll \/ DrainDeadline
    \/ CollectServeError
    \/ Stop("poller", "stop poller", "join poller")
    \/ Join("poller", "join poller", "stop cleanup")
    \/ Stop("cleanup", "stop cleanup", "join cleanup")
    \/ Join("cleanup", "join cleanup", "close docker")
    \/ CloseDocker \/ CloseDatabase \/ Return

-----------------------------------------------------------------------------
(* The other goroutines, which end with the process.                       *)

Running == pc # "exit"

Elsewhere == Running /\ UNCHANGED <<pc, handles, signalled, shuttingDown, inShutdown, drain>>

\* Serve accepts until the listener is closed or fails.
Serve ==
    /\ Elsewhere /\ UNCHANGED <<tasks, net>>
    /\ \/ serving = "starting" /\ serving' = IF inShutdown THEN "returned" ELSE "accepting"
       \/ serving = "accepting" /\ inShutdown /\ serving' = "returned"

AcceptFails ==
    /\ Elsewhere /\ UNCHANGED <<tasks, net>>
    /\ serving = "accepting" /\ serving' = "returned"

\* The body of a task's loop: a tick, a run, and the end once its context is done.
RunTask(t, from, to) ==
    /\ Elsewhere /\ UNCHANGED <<serving, stopped, net>>
    /\ task[t] = from /\ task' = [task EXCEPT ![t] = to]

TickTask(t) == RunTask(t, "waiting", "busy")
FinishRun(t) == RunTask(t, "busy", "waiting")

\* (faulty variant: the task only ends when the process is signalled)
EndTaskOnSignal(t) == signalled /\ RunTask(t, "waiting", "done")

EndTask(t) == (signalled \/ stopped[t]) /\ RunTask(t, "waiting", "done")

-----------------------------------------------------------------------------
(* Connections and handlers.                                               *)

Connection(c, from, to) ==
    /\ Elsewhere /\ UNCHANGED <<serving, tasks>>
    /\ conn[c] \in from /\ conn' = [conn EXCEPT ![c] = to]

Accept(c) ==
    /\ Connection(c, {"closed"}, "new")
    /\ serving = "accepting"
    /\ UNCHANGED <<handler, answer, late>>

\* A request is read; only the next step marks the connection active.
ReadRequest(c) ==
    /\ Connection(c, {"new", "idle"}, "read")
    /\ late' = [late EXCEPT ![c] = inShutdown]
    /\ UNCHANGED <<handler, answer>>

\* The handler starts: a readiness probe, or anything else.
BeginHandler(c) ==
    /\ handler[c] = "none"
    /\ (Connection(c, {"read"}, "active") \/ Connection(c, {"cut"}, "cut"))
    /\ \E what \in {"work", "readiness"} : handler' = [handler EXCEPT ![c] = what]
    /\ UNCHANGED <<answer, late>>

\* (faulty variant: only SQLite is asked)
CheckShutdownNever(c) ==
    /\ handler[c] = "readiness"
    /\ Connection(c, {"active", "cut"}, conn[c])
    /\ handler' = [handler EXCEPT ![c] = "ping"]
    /\ UNCHANGED <<answer, late>>

\* handleReadiness: the flag, and then SQLite.
CheckShutdown(c) ==
    /\ handler[c] = "readiness"
    /\ Connection(c, {"active", "cut"}, conn[c])
    /\ IF shuttingDown
          THEN /\ handler' = [handler EXCEPT ![c] = "work"]
               /\ answer' = [answer EXCEPT ![c] = "not ready"]
          ELSE /\ handler' = [handler EXCEPT ![c] = "ping"]
               /\ UNCHANGED answer
    /\ UNCHANGED late

Ready(c) ==
    /\ handler[c] = "ping"
    /\ Connection(c, {"active", "cut"}, conn[c])
    /\ handler' = [handler EXCEPT ![c] = "work"]
    /\ \E told \in {"ready", "not ready"} :
          /\ told = "ready" => database = "open"
          /\ answer' = [answer EXCEPT ![c] = told]
    /\ UNCHANGED late

\* The response is sent; in Shutdown the connection is not kept.
EndHandler(c) ==
    /\ handler[c] = "work"
    /\ \/ ~inShutdown /\ Connection(c, {"active"}, "idle")
       \/ inShutdown /\ Connection(c, {"active"}, "closed")
       \/ Connection(c, {"cut"}, "closed")
    /\ handler' = [handler EXCEPT ![c] = "none"]
    /\ answer' = [answer EXCEPT ![c] = "none"]
    /\ late' = [late EXCEPT ![c] = FALSE]

\* The client leaves, or its timeouts pass.
Leave(c) ==
    /\ Elsewhere /\ UNCHANGED <<serving, tasks>>
    /\ conn[c] \in {"new", "idle", "read", "active"}
    /\ Close({c})

Network ==
    \E c \in Connections :
        \/ Accept(c) \/ ReadRequest(c) \/ BeginHandler(c) \/ CheckShutdown(c)
        \/ Ready(c) \/ EndHandler(c) \/ Leave(c)

Next ==
    \/ Signal \/ Prepare \/ ShutDown \/ Serve \/ AcceptFails \/ Network
    \/ \E t \in Tasks : TickTask(t) \/ FinishRun(t) \/ EndTask(t)

Spec == Init /\ [][Next]_vars

\* Goroutines run; calls to Docker and SQLite end within their timeouts; of the
\* ready cases of a select none is passed over for ever.
FairSpec ==
    /\ Spec
    /\ WF_vars(Prepare) /\ WF_vars(ShutDown) /\ WF_vars(DrainDeadline) /\ WF_vars(Serve)
    /\ \A t \in Tasks : WF_vars(FinishRun(t)) /\ SF_vars(EndTask(t))

-----------------------------------------------------------------------------
(* Properties.                                                             *)

TypeOK ==
    /\ pc \in {"open", "migrate", "authentication", "docker", "application", "listen",
               "start cleanup", "start poller", "start serving", "await", "shutdown",
               "drain", "collect", "stop poller", "join poller", "stop cleanup",
               "join cleanup", "close docker", "close database",
               "return", "exit"}
    /\ database \in {"none", "open", "closed"} /\ docker \in {"none", "open", "closed"}
    /\ signalled \in BOOLEAN /\ shuttingDown \in BOOLEAN /\ inShutdown \in BOOLEAN
    /\ serving \in {"off", "starting", "accepting", "returned"}
    /\ task \in [Tasks -> {"off", "waiting", "busy", "done"}]
    /\ stopped \in [Tasks -> BOOLEAN]
    /\ conn \in [Connections -> {"closed", "new", "idle", "read", "active", "cut"}]
    /\ handler \in [Connections -> {"none", "work", "readiness", "ping"}]
    /\ answer \in [Connections -> {"none", "ready", "not ready"}]
    /\ drain \in {"none", "completed", "deadline"}
    /\ late \in [Connections -> BOOLEAN]

\* Whatever ended the serving, no background task runs, or can run again, once
\* Docker or SQLite is being closed.  (runLifecycle; GP-017.)
TasksEndBeforeClosing ==
    "closed" \in {docker, database} => \A t \in Tasks : task[t] \in {"off", "done"}

\* A process that exits has closed every handle it opened, on each of its paths.
NothingIsLeftOpen == pc = "exit" => "open" \notin {database, docker}

\* After a drain that completed, no handler that a client waits for finds Docker
\* or SQLite closed.  (shutdownHTTPServer; GP-018.)
CompletedDrainCutsNobodyOff ==
    drain = "completed" /\ "closed" \in {docker, database} =>
        \A c \in Connections : conn[c] \notin {"read", "active"}

\* A probe whose request is read after the server stopped accepting connections
\* is never told that GoPanel is ready.  (handleReadiness; GP-020.)
LateProbesAreNotReady ==
    [][\A c \in Connections :
          answer'[c] = "ready" /\ answer[c] # "ready" => ~late[c]]_vars

\* A process that got a signal exits, and so does one that can no longer accept
\* connections, whatever its clients do.  (GP-018.)
ProcessExits == signalled \/ serving = "returned" ~> pc = "exit"

=============================================================================
