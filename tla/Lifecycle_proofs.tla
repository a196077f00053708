-------------------------- MODULE Lifecycle_proofs --------------------------
(***************************************************************************)
(* Proofs about Lifecycle, for any set of connections.                     *)
(*                                                                         *)
(* Where the main goroutine stands fixes which handles are open and which  *)
(* tasks may still run (Position); how Shutdown ended fixes which          *)
(* connections may still be there (Drained); and a request that is read in *)
(* Shutdown reaches only a handler that sees the flag (Probes).  The types *)
(* are split by what the provers need together.                            *)
(***************************************************************************)
EXTENDS Lifecycle, TLAPS

\* The main goroutine's positions, from the last to the first.
Closed == {"return", "exit"}
Closing == Closed \union {"close database"}
Joined == Closing \union {"close docker"}
Draining == {"drain", "collect", "stop poller", "join poller", "stop cleanup",
             "join cleanup"} \union Joined
Serving == {"await", "shutdown"} \union Draining

\* Handles are open up to the position that closes them, and tasks run only
\* between their start and their join.
Position ==
    /\ database = "open" => pc \notin {"open"} \union Closed
    /\ docker = "open" => pc \in {"application", "listen", "start cleanup", "start poller",
                                  "start serving", "close docker"} \union (Serving \ Closing)
    /\ database = "closed" => pc \in Closed
    /\ docker = "closed" => pc \in Closing
    /\ task["poller"] \in {"waiting", "busy"} =>
          pc \in {"start serving", "await", "shutdown", "drain", "collect", "stop poller",
                  "join poller"}
    /\ task["cleanup"] \in {"waiting", "busy"} =>
          pc \in {"start poller", "start serving"} \union (Serving \ Joined)

\* The positions that lead to the join of each task.
NeedsPoller == {"start serving", "await", "shutdown", "drain", "collect", "stop poller",
                "join poller"}
NeedsCleanup == {"start poller", "stop cleanup", "join cleanup"} \union NeedsPoller

\* What the main goroutine waits for, or will wait for, has been started and, in a
\* join, told to stop; in Shutdown the listener does not come back.
Started ==
    /\ pc \in NeedsPoller => task["poller"] # "off"
    /\ pc \in NeedsCleanup => task["cleanup"] # "off"
    /\ pc = "join poller" => stopped["poller"]
    /\ pc = "join cleanup" => stopped["cleanup"]
    /\ pc \in {"await", "shutdown", "drain", "collect"} => serving # "off"
    /\ pc \in {"drain", "collect"} => inShutdown
    /\ pc = "collect" => serving # "accepting"

\* After a completed drain only connections that are closed are left.
Drained ==
    /\ inShutdown => pc \in Draining
    /\ pc = "drain" => inShutdown
    /\ drain = "completed" =>
          /\ pc \in Draining \ {"drain"}
          /\ inShutdown /\ serving # "accepting"
          /\ \A c \in Connections : conn[c] \in {"closed", "cut"}

\* A handler that has seen the flag unset serves a request read before Shutdown.
Probes ==
    /\ inShutdown \/ pc = "shutdown" => shuttingDown
    /\ \A c \in Connections :
          /\ late[c] => inShutdown
          /\ conn[c] \in {"closed", "new", "idle", "read"} => handler[c] = "none"
          /\ handler[c] = "ping" => ~late[c]

(* TypeOK in parts.                                                       *)

FlagTypes == signalled \in BOOLEAN /\ shuttingDown \in BOOLEAN /\ inShutdown \in BOOLEAN

MainTypes ==
    /\ pc \in {"open", "migrate", "authentication", "docker", "application", "listen",
               "start cleanup", "start poller", "start serving", "await", "shutdown",
               "drain", "collect", "stop poller", "join poller", "stop cleanup",
               "join cleanup", "close docker", "close database", "return", "exit"}
    /\ database \in {"none", "open", "closed"}
    /\ docker \in {"none", "open", "closed"}
    /\ serving \in {"off", "starting", "accepting", "returned"}
    /\ drain \in {"none", "completed", "deadline"}

TaskType == task \in [Tasks -> {"off", "waiting", "busy", "done"}]
StoppedType == stopped \in [Tasks -> BOOLEAN]
ConnType == conn \in [Connections -> {"closed", "new", "idle", "read", "active", "cut"}]
HandlerType == handler \in [Connections -> {"none", "work", "readiness", "ping"}]
AnswerType == answer \in [Connections -> {"none", "ready", "not ready"}]
LateType == late \in [Connections -> BOOLEAN]

Types ==
    /\ FlagTypes /\ MainTypes /\ TaskType /\ StoppedType
    /\ ConnType /\ HandlerType /\ AnswerType /\ LateType

IInv == Types /\ Position /\ Started /\ Drained /\ Probes

-----------------------------------------------------------------------------
(* Every step keeps each part.                                             *)

\* The flags are only ever set.
LEMMA FlagTypesKept == FlagTypes /\ Next => FlagTypes'
  <1> SUFFICES ASSUME FlagTypes, Next PROVE FlagTypes'
    OBVIOUS
  <1> USE DEF FlagTypes, handles, tasks, net
  <1>1. CASE Signal
    BY Zenon, <1>1 DEF Signal
  <1>2. CASE Prepare
    BY Zenon, <1>2 DEF Prepare, OpenDatabase, Migrate, BuildAuthentication,
                       BuildDocker, BuildApplication, Listen, StartTask, StartServing,
                       Startup, Fail, GoOn
  <1>3. CASE ShutDown
    BY Zenon, <1>3 DEF ShutDown, ServeFailed, BeginShutdown, CloseListener,
                       CollectServeError, Stop, Join, CloseDocker, CloseDatabase,
                       Return, DrainPoll, DrainDeadline, Close, GoOn
  <1>4. CASE Serve \/ AcceptFails
    BY Zenon, <1>4 DEF Serve, AcceptFails, Elsewhere
  <1>5. ASSUME NEW t \in Tasks, TickTask(t) \/ FinishRun(t) \/ EndTask(t) PROVE FlagTypes'
    BY Zenon, <1>5 DEF TickTask, FinishRun, EndTask, RunTask, Elsewhere
  <1>6. CASE Network
    BY Zenon, <1>6 DEF Network, Accept, ReadRequest, BeginHandler, CheckShutdown,
                       Ready, EndHandler, Leave, Connection, Elsewhere, Close
  <1> QED
    BY <1>1, <1>2, <1>3, <1>4, <1>5, <1>6 DEF Next

\* The main goroutine goes from one of its positions to another.
LEMMA MainTypesKept == MainTypes /\ Next => MainTypes'
  <1> SUFFICES ASSUME MainTypes, Next PROVE MainTypes'
    OBVIOUS
  <1> USE DEF MainTypes, handles, tasks, net
  <1>1. CASE Signal
    BY <1>1 DEF Signal
  <1>2. CASE Prepare
    BY <1>2 DEF Prepare, OpenDatabase, Migrate, BuildAuthentication, BuildDocker,
                BuildApplication, Listen, StartTask, StartServing, Startup, Fail, GoOn
  <1>3. CASE ShutDown
    BY <1>3 DEF ShutDown, ServeFailed, BeginShutdown, CloseListener,
                CollectServeError, Stop, Join, CloseDocker, CloseDatabase, Return,
                DrainPoll, DrainDeadline, Close, GoOn
  <1>4. CASE Serve \/ AcceptFails
    BY <1>4 DEF Serve, AcceptFails, Elsewhere
  <1>5. ASSUME NEW t \in Tasks, TickTask(t) \/ FinishRun(t) \/ EndTask(t) PROVE MainTypes'
    BY <1>5 DEF TickTask, FinishRun, EndTask, RunTask, Elsewhere
  <1>6. CASE Network
    BY <1>6 DEF Network, Accept, ReadRequest, BeginHandler, CheckShutdown, Ready,
                EndHandler, Leave, Connection, Elsewhere, Close
  <1> QED
    BY <1>1, <1>2, <1>3, <1>4, <1>5, <1>6 DEF Next

\* A task is off, waiting, busy or done.
LEMMA TaskTypeKept == TaskType /\ Next => TaskType'
  <1> SUFFICES ASSUME TaskType, Next PROVE TaskType'
    OBVIOUS
  <1> USE DEF TaskType, Tasks, handles, tasks, net
  <1>1. CASE Signal
    BY <1>1 DEF Signal
  <1>2. CASE Prepare
    BY <1>2 DEF Prepare, OpenDatabase, Migrate, BuildAuthentication, BuildDocker,
                BuildApplication, Listen, StartTask, StartServing, Startup, Fail, GoOn
  <1>3. CASE ShutDown
    BY <1>3 DEF ShutDown, ServeFailed, BeginShutdown, CloseListener,
                CollectServeError, Stop, Join, CloseDocker, CloseDatabase, Return,
                DrainPoll, DrainDeadline, Close, GoOn
  <1>4. CASE Serve \/ AcceptFails
    BY <1>4 DEF Serve, AcceptFails, Elsewhere
  <1>5. ASSUME NEW t \in Tasks, TickTask(t) \/ FinishRun(t) \/ EndTask(t) PROVE TaskType'
    BY <1>5 DEF TickTask, FinishRun, EndTask, RunTask, Elsewhere
  <1>6. CASE Network
    BY <1>6 DEF Network, Accept, ReadRequest, BeginHandler, CheckShutdown, Ready,
                EndHandler, Leave, Connection, Elsewhere, Close
  <1> QED
    BY <1>1, <1>2, <1>3, <1>4, <1>5, <1>6 DEF Next

\* A task is stopped or not.
LEMMA StoppedTypeKept == StoppedType /\ Next => StoppedType'
  <1> SUFFICES ASSUME StoppedType, Next PROVE StoppedType'
    OBVIOUS
  <1> USE DEF StoppedType, Tasks, handles, tasks, net
  <1>1. CASE Signal
    BY <1>1 DEF Signal
  <1>2. CASE Prepare
    BY <1>2 DEF Prepare, OpenDatabase, Migrate, BuildAuthentication, BuildDocker,
                BuildApplication, Listen, StartTask, StartServing, Startup, Fail, GoOn
  <1>3. CASE ShutDown
    BY <1>3 DEF ShutDown, ServeFailed, BeginShutdown, CloseListener,
                CollectServeError, Stop, Join, CloseDocker, CloseDatabase, Return,
                DrainPoll, DrainDeadline, Close, GoOn
  <1>4. CASE Serve \/ AcceptFails
    BY <1>4 DEF Serve, AcceptFails, Elsewhere
  <1>5. ASSUME NEW t \in Tasks, TickTask(t) \/ FinishRun(t) \/ EndTask(t) PROVE StoppedType'
    BY <1>5 DEF TickTask, FinishRun, EndTask, RunTask, Elsewhere
  <1>6. CASE Network
    BY <1>6 DEF Network, Accept, ReadRequest, BeginHandler, CheckShutdown, Ready,
                EndHandler, Leave, Connection, Elsewhere, Close
  <1> QED
    BY <1>1, <1>2, <1>3, <1>4, <1>5, <1>6 DEF Next

\* The server knows each connection in one of its states.
LEMMA ConnTypeKept == ConnType /\ Next => ConnType'
  <1> SUFFICES ASSUME ConnType, Next PROVE ConnType'
    OBVIOUS
  <1> USE DEF ConnType, handles, tasks, net
  <1>1. CASE Signal
    BY <1>1 DEF Signal
  <1>2. CASE Prepare
    BY <1>2 DEF Prepare, OpenDatabase, Migrate, BuildAuthentication, BuildDocker,
                BuildApplication, Listen, StartTask, StartServing, Startup, Fail, GoOn
  <1>3. CASE ShutDown
    BY <1>3 DEF ShutDown, ServeFailed, BeginShutdown, CloseListener,
                CollectServeError, Stop, Join, CloseDocker, CloseDatabase, Return,
                DrainPoll, DrainDeadline, Close, GoOn
  <1>4. CASE Serve \/ AcceptFails
    BY <1>4 DEF Serve, AcceptFails, Elsewhere
  <1>5. ASSUME NEW t \in Tasks, TickTask(t) \/ FinishRun(t) \/ EndTask(t) PROVE ConnType'
    BY <1>5 DEF TickTask, FinishRun, EndTask, RunTask, Elsewhere
  <1>6. CASE Network
    BY <1>6 DEF Network, Accept, ReadRequest, BeginHandler, CheckShutdown, Ready,
                EndHandler, Leave, Connection, Elsewhere, Close
  <1> QED
    BY <1>1, <1>2, <1>3, <1>4, <1>5, <1>6 DEF Next

\* A handler works, or answers a readiness probe in two steps.
LEMMA HandlerTypeKept == HandlerType /\ Next => HandlerType'
  <1> SUFFICES ASSUME HandlerType, Next PROVE HandlerType'
    OBVIOUS
  <1> USE DEF HandlerType, handles, tasks, net
  <1>1. CASE Signal
    BY <1>1 DEF Signal
  <1>2. CASE Prepare
    BY <1>2 DEF Prepare, OpenDatabase, Migrate, BuildAuthentication, BuildDocker,
                BuildApplication, Listen, StartTask, StartServing, Startup, Fail, GoOn
  <1>3. CASE ShutDown
    BY <1>3 DEF ShutDown, ServeFailed, BeginShutdown, CloseListener,
                CollectServeError, Stop, Join, CloseDocker, CloseDatabase, Return,
                DrainPoll, DrainDeadline, Close, GoOn
  <1>4. CASE Serve \/ AcceptFails
    BY <1>4 DEF Serve, AcceptFails, Elsewhere
  <1>5. ASSUME NEW t \in Tasks, TickTask(t) \/ FinishRun(t) \/ EndTask(t) PROVE HandlerType'
    BY <1>5 DEF TickTask, FinishRun, EndTask, RunTask, Elsewhere
  <1>6. CASE Network
    BY <1>6 DEF Network, Accept, ReadRequest, BeginHandler, CheckShutdown, Ready,
                EndHandler, Leave, Connection, Elsewhere, Close
  <1> QED
    BY <1>1, <1>2, <1>3, <1>4, <1>5, <1>6 DEF Next

\* A probe is told ready or not ready, and nothing else.
LEMMA AnswerTypeKept == AnswerType /\ Next => AnswerType'
  <1> SUFFICES ASSUME AnswerType, Next PROVE AnswerType'
    OBVIOUS
  <1> USE DEF AnswerType, handles, tasks, net
  <1>1. CASE Signal
    BY <1>1 DEF Signal
  <1>2. CASE Prepare
    BY <1>2 DEF Prepare, OpenDatabase, Migrate, BuildAuthentication, BuildDocker,
                BuildApplication, Listen, StartTask, StartServing, Startup, Fail, GoOn
  <1>3. CASE ShutDown
    BY <1>3 DEF ShutDown, ServeFailed, BeginShutdown, CloseListener,
                CollectServeError, Stop, Join, CloseDocker, CloseDatabase, Return,
                DrainPoll, DrainDeadline, Close, GoOn
  <1>4. CASE Serve \/ AcceptFails
    BY <1>4 DEF Serve, AcceptFails, Elsewhere
  <1>5. ASSUME NEW t \in Tasks, TickTask(t) \/ FinishRun(t) \/ EndTask(t) PROVE AnswerType'
    BY <1>5 DEF TickTask, FinishRun, EndTask, RunTask, Elsewhere
  <1>6. CASE Network
    BY <1>6 DEF Network, Accept, ReadRequest, BeginHandler, CheckShutdown, Ready,
                EndHandler, Leave, Connection, Elsewhere, Close
  <1> QED
    BY <1>1, <1>2, <1>3, <1>4, <1>5, <1>6 DEF Next

\* A request is read in Shutdown or before it.
LEMMA LateTypeKept == FlagTypes /\ LateType /\ Next => LateType'
  <1> SUFFICES ASSUME FlagTypes /\ LateType, Next PROVE LateType'
    OBVIOUS
  <1> USE DEF FlagTypes, LateType, handles, tasks, net
  <1>1. CASE Signal
    BY <1>1 DEF Signal
  <1>2. CASE Prepare
    BY <1>2 DEF Prepare, OpenDatabase, Migrate, BuildAuthentication, BuildDocker,
                BuildApplication, Listen, StartTask, StartServing, Startup, Fail, GoOn
  <1>3. CASE ShutDown
    BY <1>3 DEF ShutDown, ServeFailed, BeginShutdown, CloseListener,
                CollectServeError, Stop, Join, CloseDocker, CloseDatabase, Return,
                DrainPoll, DrainDeadline, Close, GoOn
  <1>4. CASE Serve \/ AcceptFails
    BY <1>4 DEF Serve, AcceptFails, Elsewhere
  <1>5. ASSUME NEW t \in Tasks, TickTask(t) \/ FinishRun(t) \/ EndTask(t) PROVE LateType'
    BY <1>5 DEF TickTask, FinishRun, EndTask, RunTask, Elsewhere
  <1>6. CASE Network
    BY <1>6 DEF Network, Accept, ReadRequest, BeginHandler, CheckShutdown, Ready,
                EndHandler, Leave, Connection, Elsewhere, Close
  <1> QED
    BY <1>1, <1>2, <1>3, <1>4, <1>5, <1>6 DEF Next

\* Every path of the main goroutine joins the tasks and then closes the handles.
LEMMA PositionKept == MainTypes /\ TaskType /\ Position /\ Next => Position'
  <1> SUFFICES ASSUME MainTypes /\ TaskType /\ Position, Next PROVE Position'
    OBVIOUS
  <1> USE DEF MainTypes, TaskType, Position, Tasks, Closed, Closing, Joined, Draining,
              Serving, handles, tasks, net
  <1>1. CASE Signal
    BY <1>1 DEF Signal
  <1>2. CASE Prepare
    BY <1>2 DEF Prepare, OpenDatabase, Migrate, BuildAuthentication, BuildDocker,
                BuildApplication, Listen, StartTask, StartServing, Startup, Fail, GoOn
  <1>3. CASE ShutDown
    BY <1>3 DEF ShutDown, ServeFailed, BeginShutdown, CloseListener,
                CollectServeError, Stop, Join, CloseDocker, CloseDatabase, Return,
                DrainPoll, DrainDeadline, Close, GoOn
  <1>4. CASE Serve \/ AcceptFails
    BY <1>4 DEF Serve, AcceptFails, Elsewhere
  <1>5. ASSUME NEW t \in Tasks, TickTask(t) \/ FinishRun(t) \/ EndTask(t) PROVE Position'
    BY <1>5 DEF TickTask, FinishRun, EndTask, RunTask, Elsewhere
  <1>6. CASE Network
    BY <1>6 DEF Network, Accept, ReadRequest, BeginHandler, CheckShutdown, Ready,
                EndHandler, Leave, Connection, Elsewhere, Close
  <1> QED
    BY <1>1, <1>2, <1>3, <1>4, <1>5, <1>6 DEF Next

\* What the main goroutine will wait for has been started before, and what it
\* waits for in a join has been told to stop.
LEMMA StartedKept == MainTypes /\ TaskType /\ StoppedType /\ Started /\ Next => Started'
  <1> SUFFICES ASSUME MainTypes /\ TaskType /\ StoppedType /\ Started, Next PROVE Started'
    OBVIOUS
  <1> USE DEF MainTypes, TaskType, StoppedType, Started, Tasks, NeedsPoller, NeedsCleanup,
              handles, tasks, net
  <1>1. CASE Signal
    BY <1>1 DEF Signal
  <1>2. CASE Prepare
    BY <1>2 DEF Prepare, OpenDatabase, Migrate, BuildAuthentication, BuildDocker,
                BuildApplication, Listen, StartTask, StartServing, Startup, Fail, GoOn
  <1>3. CASE ShutDown
    BY <1>3 DEF ShutDown, ServeFailed, BeginShutdown, CloseListener,
                CollectServeError, Stop, Join, CloseDocker, CloseDatabase, Return,
                DrainPoll, DrainDeadline, Close, GoOn
  <1>4. CASE Serve \/ AcceptFails
    BY <1>4 DEF Serve, AcceptFails, Elsewhere
  <1>5. ASSUME NEW t \in Tasks, TickTask(t) \/ FinishRun(t) \/ EndTask(t) PROVE Started'
    BY <1>5 DEF TickTask, FinishRun, EndTask, RunTask, Elsewhere
  <1>6. CASE Network
    <2>1. UNCHANGED <<pc, task, stopped, serving, inShutdown>>
      BY <1>6 DEF Network, Accept, ReadRequest, BeginHandler, CheckShutdown, Ready,
                  EndHandler, Leave, Connection, Elsewhere
    <2> QED
      BY <2>1
  <1> QED
    BY <1>1, <1>2, <1>3, <1>4, <1>5, <1>6 DEF Next

\* Nothing connects, and no connection is left to answer, after a completed drain.
LEMMA DrainedKept == FlagTypes /\ ConnType /\ Drained /\ Next => Drained'
  <1> SUFFICES ASSUME FlagTypes /\ ConnType /\ Drained, Next PROVE Drained'
    OBVIOUS
  <1> USE DEF FlagTypes, ConnType, Drained, Closed, Closing, Joined, Draining,
              Awaited, handles, tasks, net, Close
  <1>1. CASE Signal
    BY <1>1 DEF Signal
  <1>2. CASE Prepare
    <2>1. CASE OpenDatabase
      BY <2>1 DEF OpenDatabase, Startup
    <2>2. CASE Migrate
      BY <2>2 DEF Migrate, Startup, Fail
    <2>3. CASE BuildAuthentication
      BY <2>3 DEF BuildAuthentication, Startup, Fail
    <2>4. CASE BuildDocker
      BY <2>4 DEF BuildDocker, Startup, Fail
    <2>5. CASE BuildApplication
      BY <2>5 DEF BuildApplication, Startup
    <2>6. CASE Listen
      BY <2>6 DEF Listen, Startup
    <2>7. CASE StartTask("cleanup", "start cleanup", "start poller")
      BY <2>7 DEF StartTask, GoOn
    <2>8. CASE StartTask("poller", "start poller", "start serving")
      BY <2>8 DEF StartTask, GoOn
    <2>9. CASE StartServing
      BY <2>9 DEF StartServing, GoOn
    <2> QED
      BY <1>2, <2>1, <2>2, <2>3, <2>4, <2>5, <2>6, <2>7, <2>8, <2>9 DEF Prepare
  <1>3. CASE ShutDown
    <2>1. CASE ServeFailed
      BY <2>1 DEF ServeFailed, GoOn
    <2>2. CASE BeginShutdown
      BY <2>2 DEF BeginShutdown, GoOn
    <2>3. CASE CloseListener
      BY <2>3 DEF CloseListener, GoOn
    <2>4. CASE DrainPoll
      <3>1. ConnType'
        BY ConnTypeKept
      <3>2. serving' = serving /\ serving # "accepting" /\ inShutdown' = inShutdown
        BY <2>4 DEF DrainPoll
      <3>3. pc = "drain" /\ drain # "completed"
        BY <2>4 DEF DrainPoll
      <3>4. CASE \E c \in Connections : conn'[c] \in Awaited
        <4>1. UNCHANGED <<pc, drain>>
          BY <2>4, <3>4 DEF DrainPoll
        <4> QED
          BY <3>2, <3>3, <4>1
      <3>5. CASE ~ \E c \in Connections : conn'[c] \in Awaited
        <4>1. \A c \in Connections : conn'[c] # "idle"
          <5>1. PICK old : Close(old \union {c \in Connections : conn[c] = "idle"})
            BY <2>4 DEF DrainPoll
          <5> QED
            BY <5>1
        <4>2. \A c \in Connections : conn'[c] \in {"closed", "cut"}
          BY <3>1, <3>5, <4>1
        <4>3. inShutdown
          BY <2>4, <3>3 DEF DrainPoll
        <4> QED
          BY <2>4, <3>2, <3>5, <4>2, <4>3 DEF DrainPoll
      <3> QED
        BY <3>4, <3>5
    <2>5. CASE DrainDeadline
      BY <2>5 DEF DrainDeadline, GoOn
    <2>6. CASE CollectServeError
      BY <2>6 DEF CollectServeError, GoOn
    <2>7. CASE Stop("poller", "stop poller", "join poller")
      BY <2>7 DEF Stop, GoOn
    <2>8. CASE Join("poller", "join poller", "stop cleanup")
      BY <2>8 DEF Join, GoOn
    <2>9. CASE Stop("cleanup", "stop cleanup", "join cleanup")
      BY <2>9 DEF Stop, GoOn
    <2>10. CASE Join("cleanup", "join cleanup", "close docker")
      BY <2>10 DEF Join, GoOn
    <2>11. CASE CloseDocker
      BY <2>11 DEF CloseDocker, GoOn
    <2>12. CASE CloseDatabase
      BY <2>12 DEF CloseDatabase, GoOn
    <2>13. CASE Return
      BY <2>13 DEF Return, GoOn
    <2> QED
      BY <1>3, <2>1, <2>2, <2>3, <2>4, <2>5, <2>6, <2>7, <2>8, <2>9, <2>10, <2>11,
         <2>12, <2>13 DEF ShutDown
  <1>4. CASE Serve
    BY <1>4 DEF Serve, Elsewhere
  <1>5. CASE AcceptFails
    BY <1>5 DEF AcceptFails, Elsewhere
  <1>6. ASSUME NEW t \in Tasks, TickTask(t) PROVE Drained'
    BY <1>6 DEF TickTask, RunTask, Elsewhere
  <1>7. ASSUME NEW t \in Tasks, FinishRun(t) PROVE Drained'
    BY <1>7 DEF FinishRun, RunTask, Elsewhere
  <1>8. ASSUME NEW t \in Tasks, EndTask(t) PROVE Drained'
    BY <1>8 DEF EndTask, RunTask, Elsewhere
  <1>9. CASE Network
    <2>1. ASSUME NEW c \in Connections, Accept(c) PROVE Drained'
      BY <2>1 DEF Accept, Connection, Elsewhere
    <2>2. ASSUME NEW c \in Connections, ReadRequest(c) PROVE Drained'
      BY <2>2 DEF ReadRequest, Connection, Elsewhere
    <2>3. ASSUME NEW c \in Connections, BeginHandler(c) PROVE Drained'
      <3>1. \A d \in Connections : conn[d] \in {"closed", "cut"} => conn'[d] = conn[d]
        BY <2>3 DEF BeginHandler, Connection
      <3>2. UNCHANGED <<pc, drain, inShutdown, serving>>
        BY <2>3 DEF BeginHandler, Connection, Elsewhere
      <3> QED
        BY <3>1, <3>2
    <2>4. ASSUME NEW c \in Connections, CheckShutdown(c) PROVE Drained'
      BY <2>4 DEF CheckShutdown, Connection, Elsewhere
    <2>5. ASSUME NEW c \in Connections, Ready(c) PROVE Drained'
      BY <2>5 DEF Ready, Connection, Elsewhere
    <2>6. ASSUME NEW c \in Connections, EndHandler(c) PROVE Drained'
      <3>1. \A d \in Connections :
               conn[d] \in {"closed", "cut"} => conn'[d] \in {"closed", "cut"}
        BY <2>6 DEF EndHandler, Connection
      <3>2. UNCHANGED <<pc, drain, inShutdown, serving>>
        BY <2>6 DEF EndHandler, Connection, Elsewhere
      <3> QED
        BY <3>1, <3>2
    <2>7. ASSUME NEW c \in Connections, Leave(c) PROVE Drained'
      BY <2>7 DEF Leave, Elsewhere
    <2> QED
      BY <1>9, <2>1, <2>2, <2>3, <2>4, <2>5, <2>6, <2>7 DEF Network
  <1> QED
    BY <1>1, <1>2, <1>3, <1>4, <1>5, <1>6, <1>7, <1>8, <1>9 DEF Next

\* The flag is set before the listener closes, so a late probe meets it.
LEMMA ProbesKept == FlagTypes /\ ConnType /\ HandlerType /\ LateType /\ Probes /\ Next => Probes'
  <1> SUFFICES ASSUME FlagTypes /\ ConnType /\ HandlerType /\ LateType /\ Probes, Next PROVE Probes'
    OBVIOUS
  <1> USE DEF FlagTypes, ConnType, HandlerType, LateType, Probes, handles, tasks, net,
              Close
  <1>1. CASE Signal
    BY <1>1 DEF Signal
  <1>2. CASE Prepare
    <2>1. CASE OpenDatabase
      BY <2>1 DEF OpenDatabase, Startup
    <2>2. CASE Migrate
      BY <2>2 DEF Migrate, Startup, Fail
    <2>3. CASE BuildAuthentication
      BY <2>3 DEF BuildAuthentication, Startup, Fail
    <2>4. CASE BuildDocker
      BY <2>4 DEF BuildDocker, Startup, Fail
    <2>5. CASE BuildApplication
      BY <2>5 DEF BuildApplication, Startup
    <2>6. CASE Listen
      BY <2>6 DEF Listen, Startup
    <2>7. CASE StartTask("cleanup", "start cleanup", "start poller")
      BY <2>7 DEF StartTask, GoOn
    <2>8. CASE StartTask("poller", "start poller", "start serving")
      BY <2>8 DEF StartTask, GoOn
    <2>9. CASE StartServing
      BY <2>9 DEF StartServing, GoOn
    <2> QED
      BY <1>2, <2>1, <2>2, <2>3, <2>4, <2>5, <2>6, <2>7, <2>8, <2>9 DEF Prepare
  <1>3. CASE ShutDown
    <2>1. CASE ServeFailed
      BY <2>1 DEF ServeFailed, GoOn
    <2>2. CASE BeginShutdown
      BY <2>2 DEF BeginShutdown, GoOn
    <2>3. CASE CloseListener
      BY <2>3 DEF CloseListener, GoOn
    <2>4. CASE DrainPoll
      BY <2>4 DEF DrainPoll
    <2>5. CASE DrainDeadline
      BY <2>5 DEF DrainDeadline, GoOn
    <2>6. CASE CollectServeError
      BY <2>6 DEF CollectServeError, GoOn
    <2>7. CASE Stop("poller", "stop poller", "join poller")
      BY <2>7 DEF Stop, GoOn
    <2>8. CASE Join("poller", "join poller", "stop cleanup")
      BY <2>8 DEF Join, GoOn
    <2>9. CASE Stop("cleanup", "stop cleanup", "join cleanup")
      BY <2>9 DEF Stop, GoOn
    <2>10. CASE Join("cleanup", "join cleanup", "close docker")
      BY <2>10 DEF Join, GoOn
    <2>11. CASE CloseDocker
      BY <2>11 DEF CloseDocker, GoOn
    <2>12. CASE CloseDatabase
      BY <2>12 DEF CloseDatabase, GoOn
    <2>13. CASE Return
      BY <2>13 DEF Return, GoOn
    <2> QED
      BY <1>3, <2>1, <2>2, <2>3, <2>4, <2>5, <2>6, <2>7, <2>8, <2>9, <2>10, <2>11,
         <2>12, <2>13 DEF ShutDown
  <1>4. CASE Serve \/ AcceptFails
    BY <1>4 DEF Serve, AcceptFails, Elsewhere
  <1>5. ASSUME NEW t \in Tasks, TickTask(t) \/ FinishRun(t) \/ EndTask(t) PROVE Probes'
    BY <1>5 DEF TickTask, FinishRun, EndTask, RunTask, Elsewhere
  <1>6. CASE Network
    <2>1. ASSUME NEW c \in Connections, Accept(c) PROVE Probes'
      BY <2>1 DEF Accept, Connection, Elsewhere
    <2>2. ASSUME NEW c \in Connections, ReadRequest(c) PROVE Probes'
      BY <2>2 DEF ReadRequest, Connection, Elsewhere
    <2>3. ASSUME NEW c \in Connections, BeginHandler(c) PROVE Probes'
      BY <2>3 DEF BeginHandler, Connection, Elsewhere
    <2>4. ASSUME NEW c \in Connections, CheckShutdown(c) PROVE Probes'
      BY <2>4 DEF CheckShutdown, Connection, Elsewhere
    <2>5. ASSUME NEW c \in Connections, Ready(c) PROVE Probes'
      BY <2>5 DEF Ready, Connection, Elsewhere
    <2>6. ASSUME NEW c \in Connections, EndHandler(c) PROVE Probes'
      BY <2>6 DEF EndHandler, Connection, Elsewhere
    <2>7. ASSUME NEW c \in Connections, Leave(c) PROVE Probes'
      BY <2>7 DEF Leave, Elsewhere
    <2> QED
      BY <1>6, <2>1, <2>2, <2>3, <2>4, <2>5, <2>6, <2>7 DEF Network
  <1> QED
    BY <1>1, <1>2, <1>3, <1>4, <1>5, <1>6 DEF Next

-----------------------------------------------------------------------------
\* The invariant that the theorems below rest on is inductive.
THEOREM Initially == Init => IInv
  <1> SUFFICES ASSUME Init PROVE IInv
    OBVIOUS
  <1> USE DEF Init
  <1>1. Types
    BY DEF Types, FlagTypes, MainTypes, TaskType, StoppedType, ConnType, HandlerType,
           AnswerType, LateType, Tasks
  <1>2. Position
    BY DEF Position, Tasks
  <1>3. Drained
    BY DEF Drained
  <1>4. Probes
    BY DEF Probes
  <1>5. Started
    BY DEF Started, NeedsPoller, NeedsCleanup
  <1> QED
    BY <1>1, <1>2, <1>3, <1>4, <1>5 DEF IInv

THEOREM Inductive == IInv /\ [Next]_vars => IInv'
  <1> SUFFICES ASSUME IInv, [Next]_vars PROVE IInv'
    OBVIOUS
  <1>1. CASE Next
    <2>1. Types'
      BY <1>1, FlagTypesKept, MainTypesKept, TaskTypeKept, StoppedTypeKept, ConnTypeKept,
         HandlerTypeKept, AnswerTypeKept, LateTypeKept DEF IInv, Types
    <2> QED
      BY <1>1, <2>1, PositionKept, StartedKept, DrainedKept, ProbesKept DEF IInv, Types
  <1>2. CASE UNCHANGED vars
    <2> USE <1>2 DEF vars, handles, tasks, net
    <2>1. Types'
      <3>1. FlagTypes'
        BY Zenon DEF IInv, Types, FlagTypes
      <3>2. MainTypes'
        BY DEF IInv, Types, MainTypes
      <3> QED
        BY <3>1, <3>2 DEF IInv, Types, TaskType, StoppedType, ConnType, HandlerType,
                          AnswerType, LateType
    <2>2. Position'
      BY DEF IInv, Position
    <2>3. Drained'
      BY DEF IInv, Drained
    <2>4. Probes'
      BY DEF IInv, Probes
    <2>5. Started'
      BY DEF IInv, Started
    <2> QED
      BY <2>1, <2>2, <2>3, <2>4, <2>5 DEF IInv
  <1> QED
    BY <1>1, <1>2

-----------------------------------------------------------------------------
(* The theorems.                                                           *)

\* The state of the process keeps its types.
THEOREM TypeCorrect == Spec => []TypeOK
  <1>1. IInv => TypeOK
    BY DEF IInv, Types, FlagTypes, MainTypes, TaskType, StoppedType, ConnType, HandlerType,
           AnswerType, LateType, TypeOK
  <1> QED
    BY Initially, Inductive, <1>1, PTL DEF Spec

\* No background task runs, or can run again, once Docker or SQLite is being
\* closed, whatever ended the serving.  (runLifecycle.)
THEOREM TasksEndBeforeClosingHolds == Spec => []TasksEndBeforeClosing
  <1>1. IInv => TasksEndBeforeClosing
    BY DEF IInv, Types, TaskType, MainTypes, Position, Tasks, Closed, Closing, Joined,
           Draining, Serving, TasksEndBeforeClosing
  <1> QED
    BY Initially, Inductive, <1>1, PTL DEF Spec

\* A process that exits has closed every handle that it opened.  (finish and
\* closeAfterFailure.)
THEOREM NothingIsLeftOpenHolds == Spec => []NothingIsLeftOpen
  <1>1. IInv => NothingIsLeftOpen
    BY DEF IInv, Types, MainTypes, Position, Closed, Closing, Joined, Draining, Serving,
           NothingIsLeftOpen
  <1> QED
    BY Initially, Inductive, <1>1, PTL DEF Spec

\* Wherever the main goroutine waits, somebody is there who will end the wait.
Answerable ==
    /\ pc = "await" => serving # "off"
    /\ pc = "drain" => inShutdown
    /\ pc = "collect" => serving # "accepting" /\ serving # "off" /\ inShutdown
    /\ pc = "join poller" => task["poller"] # "off" /\ stopped["poller"]
    /\ pc = "join cleanup" => task["cleanup"] # "off" /\ stopped["cleanup"]

\* The main goroutine never waits for a goroutine that was not started, for a
\* listener that goes on accepting, or for a task that was not told to stop:
\* what ProcessExits needs beside fairness.  (runHTTPServer, runLifecycle and
\* lifecycleTask.stopAndWait.)
THEOREM WaitsAreAnswered == Spec => []Answerable
  <1>1. IInv => Answerable
    BY DEF IInv, Types, MainTypes, Started, NeedsPoller, NeedsCleanup, Answerable
  <1> QED
    BY Initially, Inductive, <1>1, PTL DEF Spec

\* After a drain that completed no handler finds a handle closed while a client
\* waits for its answer.  (shutdownHTTPServer.)
THEOREM CompletedDrainCutsNobodyOffHolds == Spec => []CompletedDrainCutsNobodyOff
  <1>1. IInv => CompletedDrainCutsNobodyOff
    BY DEF IInv, Drained, CompletedDrainCutsNobodyOff
  <1> QED
    BY Initially, Inductive, <1>1, PTL DEF Spec

\* A probe that is read in Shutdown is never told that GoPanel is ready.
\* (handleReadiness.)
THEOREM LateProbesAreNotReadyHolds == Spec => LateProbesAreNotReady
  <1> DEFINE Told == \A c \in Connections :
                        answer'[c] = "ready" /\ answer[c] # "ready" => ~late[c]
  <1>1. IInv /\ [Next]_vars => [Told]_vars
    <2> SUFFICES ASSUME IInv, Next,
                        NEW c \in Connections, answer'[c] = "ready", answer[c] # "ready"
                 PROVE  ~late[c]
      BY DEF vars
    <2>1. answer' # answer
      OBVIOUS
    <2>2. PICK d \in Connections : CheckShutdown(d) \/ Ready(d) \/ EndHandler(d)
      BY <2>1
         DEF Next, Signal, Prepare, OpenDatabase, Migrate, BuildAuthentication, BuildDocker,
             BuildApplication, Listen, StartTask, StartServing, Startup, ShutDown,
             ServeFailed, BeginShutdown, CloseListener, DrainPoll, DrainDeadline, Close,
             CollectServeError, Stop, Join, CloseDocker, CloseDatabase, Return, Serve,
             AcceptFails, TickTask, FinishRun, EndTask, RunTask, Network, Accept,
             ReadRequest, BeginHandler, Leave, net
    <2>3. answer \in [Connections -> {"none", "ready", "not ready"}]
      BY DEF IInv, Types, AnswerType
    <2>4. ~CheckShutdown(d) /\ ~EndHandler(d)
      BY <2>3 DEF CheckShutdown, EndHandler
    <2>5. c = d /\ handler[d] = "ping"
      BY <2>2, <2>3, <2>4 DEF Ready
    <2> QED
      BY <2>5 DEF IInv, Probes
  <1> QED
    BY Initially, Inductive, <1>1, PTL DEF Spec, LateProbesAreNotReady

=============================================================================
