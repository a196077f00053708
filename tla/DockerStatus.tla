---------------------------- MODULE DockerStatus ----------------------------
(***************************************************************************)
(* The process-local Docker status of every registered Docker server: the  *)
(* status cache, the background poller with its workers, and the HTTP      *)
(* handlers that call Docker on request and mark the same cache.           *)
(*                                                                         *)
(* The cache locks each Get and each Mark by itself; nothing is held over  *)
(* a Docker call, so a worker and any number of handlers may be between    *)
(* asking and marking at the same time.  A diagnostic is named by its      *)
(* position in the order of recording (module Recorder shows when it is    *)
(* still listed); the supply of failures is bounded by MaxFailures.        *)
(***************************************************************************)
EXTENDS Naturals, Sequences, FiniteSets

CONSTANTS
    Servers,            \* registered servers whose connection type is docker
    Workers,            \* poll workers; at most dockerPollConcurrency
    Handlers,           \* concurrent HTTP requests that call Docker
    NoServer,           \* target of a failure that is not about a server
    MaxFailures         \* bound: diagnostics recorded in one behaviour

ASSUME ConstantsAssumption ==
    /\ NoServer \notin Servers
    /\ Workers \intersect Handlers = {}
    /\ MaxFailures \in Nat

Actors == Workers \union Handlers

Operations == {"list", "test", "logs"}

VARIABLES
    status,             \* StatusCache.statuses; a missing entry is not_checked
    poller,             \* the poller goroutine: "waiting", "dispatching", "stopped"
    todo,               \* server identifiers not yet sent to the jobs channel
    cancelled,          \* the poll context has ended
    actor,              \* actor[a]: the locals of a worker's or handler's call
    diagnostics,        \* targets of all diagnostics, in order of recording
    latest,             \* auxiliary, latest[s]: outcome of the last check of s
    overlapped,         \* auxiliary: servers two actors worked on at once
    connectedAt,        \* auxiliary: diagnostics recorded at the last MarkConnected
    polledAt            \* auxiliary: the last diagnostic a worker recorded of s

auxVars == <<latest, overlapped, connectedAt, polledAt>>
vars == <<status, poller, todo, cancelled, actor, diagnostics, auxVars>>

\* (faulty variant: the zero value of Status)
ZeroStatus == [state |-> "", reference |-> 0]

NotChecked == [state |-> "not_checked", reference |-> 0]

\* pc: what it does next; target: the server it works on; operation: what a
\* handler was asked for; previous: the status a worker read first; reference:
\* the diagnostic it recorded.
Idle ==
    [pc |-> "idle", target |-> NoServer, operation |-> "none",
     previous |-> NotChecked, reference |-> 0]

Init ==
    /\ status = [s \in Servers |-> NotChecked]
    /\ poller = "waiting"
    /\ todo = {}
    /\ cancelled = FALSE
    /\ actor = [a \in Actors |-> Idle]
    /\ diagnostics = <<>>
    /\ latest = [s \in Servers |-> "none"]
    /\ overlapped = {}
    /\ connectedAt = [s \in Servers |-> 0]
    /\ polledAt = [s \in Servers |-> 0]

-----------------------------------------------------------------------------
(* The cache and the recorder.                                             *)

MarkChecking(s) ==
    /\ status' = [status EXCEPT ![s] = [state |-> "checking", reference |-> 0]]
    /\ UNCHANGED connectedAt

MarkConnected(s) ==
    /\ status' = [status EXCEPT ![s] = [state |-> "connected", reference |-> 0]]
    /\ connectedAt' = [connectedAt EXCEPT ![s] = Len(diagnostics)]

MarkUnavailable(s, ref) ==
    /\ status' = [status EXCEPT ![s] = [state |-> "unavailable", reference |-> ref]]
    /\ UNCHANGED connectedAt

Record(s) == diagnostics' = Append(diagnostics, s)

\* (faulty variants: the earlier reference is reused whatever the earlier
\* state was; it is never reused)
KnownOutageAlways(w) == TRUE
KnownOutageNever(w) == FALSE

\* The server of w was already unavailable when w read its status.
KnownOutage(w) ==
    actor[w].previous.state = "unavailable" /\ actor[w].previous.reference # 0

\* The failures that have yet to be recorded.
Due == {a \in Actors : actor[a].pc = "failed" /\ ~KnownOutage(a)}

\* One more failure may be recorded: the bound MaxFailures on the model.
MayFail == Len(diagnostics) + Cardinality(Due) < MaxFailures

Busy(s) == {a \in Actors : actor[a].target = s}

Goto(a, next) == actor' = [actor EXCEPT ![a].pc = next]

Return(a) == actor' = [actor EXCEPT ![a] = Idle]

Engage(a, s, next, o) ==
    /\ actor' = [actor EXCEPT ![a] =
                     [Idle EXCEPT !.pc = next, !.target = s, !.operation = o]]
    /\ overlapped' = IF Busy(s) = {} THEN overlapped ELSE overlapped \union {s}
    /\ UNCHANGED <<latest, connectedAt, polledAt>>

\* The check of a's server ends; what follows is marked later.
Answer(a, outcome) ==
    /\ outcome = "failed" => KnownOutage(a) \/ MayFail
    /\ Goto(a, outcome)
    /\ latest' = [latest EXCEPT ![actor[a].target] = outcome]
    /\ UNCHANGED <<overlapped, connectedAt, polledAt>>

-----------------------------------------------------------------------------
(* The poller.                                                             *)

\* pollDockerStatuses starts: it lists the Docker servers.  With an ended
\* context the query fails.
StartPoll ==
    /\ poller = "waiting"
    /\ \/ /\ ~cancelled
          /\ poller' = "dispatching"
          /\ todo' = Servers
          /\ UNCHANGED diagnostics
       \/ /\ MayFail
          /\ Record(NoServer)
          /\ UNCHANGED <<poller, todo>>
    /\ UNCHANGED <<status, cancelled, actor, auxVars>>

\* (faulty variant: the server stays in the list)
TakeWithoutRemoving(w, s) ==
    /\ poller = "dispatching"
    /\ actor[w].pc = "idle"
    /\ s \in todo
    /\ Engage(w, s, "read", "check")
    /\ UNCHANGED <<status, poller, todo, cancelled, diagnostics>>

\* jobs <- serverID, received by an idle worker.  When the context has ended
\* too, select may still choose this case.
Take(w, s) ==
    /\ poller = "dispatching"
    /\ actor[w].pc = "idle"
    /\ s \in todo
    /\ todo' = todo \ {s}
    /\ Engage(w, s, "read", "check")
    /\ UNCHANGED <<status, poller, cancelled, diagnostics>>

\* select chooses <-ctx.Done(): the remaining servers are not checked.
Abandon ==
    /\ cancelled
    /\ todo # {}
    /\ todo' = {}
    /\ UNCHANGED <<status, poller, cancelled, actor, diagnostics, auxVars>>

\* (faulty variant: no workers.Wait())
EndPollWithoutWaiting ==
    /\ poller = "dispatching"
    /\ todo = {}
    /\ poller' = "waiting"
    /\ UNCHANGED <<status, todo, cancelled, actor, diagnostics, auxVars>>

\* close(jobs); workers.Wait()
EndPoll ==
    /\ poller = "dispatching"
    /\ todo = {}
    /\ \A w \in Workers : actor[w].pc = "idle"
    /\ poller' = "waiting"
    /\ UNCHANGED <<status, todo, cancelled, actor, diagnostics, auxVars>>

\* runDockerStatusPoller returns and closes done.
StopPoller ==
    /\ poller = "waiting"
    /\ cancelled
    /\ poller' = "stopped"
    /\ UNCHANGED <<status, todo, cancelled, actor, diagnostics, auxVars>>

\* A signal, or stopAndWait.
Cancel ==
    /\ ~cancelled
    /\ cancelled' = TRUE
    /\ UNCHANGED <<status, poller, todo, actor, diagnostics, auxVars>>

-----------------------------------------------------------------------------
(* checkDockerStatus, by worker w.                                         *)

ReadPrevious(w) ==
    /\ actor[w].pc = "read"
    /\ actor' = [actor EXCEPT ![w].pc = "announce",
                              ![w].previous = status[actor[w].target]]
    /\ UNCHANGED <<status, poller, todo, cancelled, diagnostics, auxVars>>

Announce(w) ==
    /\ actor[w].pc = "announce"
    /\ MarkChecking(actor[w].target)
    /\ Goto(w, "check")
    /\ UNCHANGED <<poller, todo, cancelled, diagnostics, latest, overlapped, polledAt>>

\* CheckStatus: registry lookup and ping, each under the poll context, the
\* ping for at most DefaultTimeout; then ctx.Err() = nil.
Check(w) ==
    /\ actor[w].pc = "check"
    /\ ~cancelled
    /\ \E outcome \in {"ok", "failed"} : Answer(w, outcome)
    /\ UNCHANGED <<status, poller, todo, cancelled, diagnostics>>

\* The same with ctx.Err() # nil: the status stays at "checking".
Drop(w) ==
    /\ actor[w].pc = "check"
    /\ cancelled
    /\ Return(w)
    /\ UNCHANGED <<status, poller, todo, cancelled, diagnostics, auxVars>>

\* (faulty variant: connected whatever the check returned)
ConcludeAny(w) ==
    /\ actor[w].pc \in {"ok", "failed"}
    /\ MarkConnected(actor[w].target)
    /\ Return(w)
    /\ UNCHANGED <<poller, todo, cancelled, diagnostics, latest, overlapped, polledAt>>

ConcludeOk(w) ==
    /\ actor[w].pc = "ok"
    /\ MarkConnected(actor[w].target)
    /\ Return(w)
    /\ UNCHANGED <<poller, todo, cancelled, diagnostics, latest, overlapped, polledAt>>

\* (faulty variant: an error that was already known leaves no mark)
ConcludeKnownOutageSilently(w) ==
    /\ actor[w].pc = "failed"
    /\ KnownOutage(w)
    /\ Return(w)
    /\ UNCHANGED <<status, poller, todo, cancelled, diagnostics, auxVars>>

\* The server remains unavailable: no new diagnostic.
ConcludeKnownOutage(w) ==
    /\ actor[w].pc = "failed"
    /\ KnownOutage(w)
    /\ MarkUnavailable(actor[w].target, actor[w].previous.reference)
    /\ Return(w)
    /\ UNCHANGED <<poller, todo, cancelled, diagnostics, latest, overlapped, polledAt>>

RecordOutage(w) ==
    /\ actor[w].pc = "failed"
    /\ ~KnownOutage(w)
    /\ Record(actor[w].target)
    /\ actor' = [actor EXCEPT ![w].pc = "mark", ![w].reference = Len(diagnostics')]
    /\ polledAt' = [polledAt EXCEPT ![actor[w].target] = Len(diagnostics')]
    /\ UNCHANGED <<status, poller, todo, cancelled, latest, overlapped, connectedAt>>

\* MarkUnavailable with the reference just recorded, by a worker or a handler
MarkRecorded(a) ==
    /\ actor[a].pc = "mark"
    /\ MarkUnavailable(actor[a].target, actor[a].reference)
    /\ Return(a)
    /\ UNCHANGED <<poller, todo, cancelled, diagnostics, latest, overlapped, polledAt>>

-----------------------------------------------------------------------------
(* HandleList, HandleTestConnection and HandleLogs, by handler h.          *)

Request(h) ==
    /\ actor[h].pc = "idle"
    /\ \E s \in Servers, o \in Operations : Engage(h, s, "lookup", o)
    /\ UNCHANGED <<status, poller, todo, cancelled, diagnostics>>

\* GetDockerServer: the registry answers, or the query fails.
Lookup(h) ==
    /\ actor[h].pc = "lookup"
    /\ \/ Goto(h, "call") /\ UNCHANGED auxVars
       \/ Answer(h, "failed")
    /\ UNCHANGED <<status, poller, todo, cancelled, diagnostics>>

\* The Docker call, for at most DefaultTimeout and no longer than the request:
\* a client that leaves makes it fail.  A log view that succeeds, or that names
\* no container, marks nothing.
CallDocker(h) ==
    /\ actor[h].pc = "call"
    /\ \/ actor[h].operation = "logs" /\ Return(h) /\ UNCHANGED auxVars
       \/ actor[h].operation # "logs" /\ Answer(h, "ok")
       \/ Answer(h, "failed")
    /\ UNCHANGED <<status, poller, todo, cancelled, diagnostics>>

ReportConnected(h) ==
    /\ actor[h].pc = "ok"
    /\ MarkConnected(actor[h].target)
    /\ IF actor[h].operation = "test" THEN Goto(h, "summary") ELSE Return(h)
    /\ UNCHANGED <<poller, todo, cancelled, diagnostics, latest, overlapped, polledAt>>

\* An HTMX connection test renders the summary; when its form token cannot be
\* issued the operation counts as failed after all.
Summary(h) ==
    /\ actor[h].pc = "summary"
    /\ \/ Return(h) /\ UNCHANGED auxVars
       \/ Answer(h, "failed")
    /\ UNCHANGED <<status, poller, todo, cancelled, diagnostics>>

\* renderOperationError records, then marks (MarkRecorded).
RecordFailure(h) ==
    /\ actor[h].pc = "failed"
    /\ Record(actor[h].target)
    /\ actor' = [actor EXCEPT ![h].pc = "mark", ![h].reference = Len(diagnostics')]
    /\ UNCHANGED <<status, poller, todo, cancelled, auxVars>>

\* Any other failure of the program takes a place in the Error Log.
OtherFailure ==
    /\ MayFail
    /\ Record(NoServer)
    /\ UNCHANGED <<status, poller, todo, cancelled, actor, auxVars>>

-----------------------------------------------------------------------------

CheckDockerStatus(w) ==
    \/ ReadPrevious(w)
    \/ Announce(w)
    \/ Check(w)
    \/ Drop(w)
    \/ ConcludeOk(w)
    \/ ConcludeKnownOutage(w)
    \/ RecordOutage(w)
    \/ MarkRecorded(w)

HandleRequest(h) ==
    \/ Lookup(h)
    \/ CallDocker(h)
    \/ ReportConnected(h)
    \/ Summary(h)
    \/ RecordFailure(h)
    \/ MarkRecorded(h)

Dispatch ==
    \/ \E w \in Workers, s \in Servers : Take(w, s)
    \/ Abandon
    \/ EndPoll
    \/ StopPoller

Next ==
    \/ StartPoll
    \/ Dispatch
    \/ Cancel
    \/ \E w \in Workers : CheckDockerStatus(w)
    \/ \E h \in Handlers : Request(h) \/ HandleRequest(h)
    \/ OtherFailure

Spec == Init /\ [][Next]_vars

\* Goroutines of the poller keep running and every check ends within its
\* timeout.  Neither the ticker, nor clients, nor a signal are assumed.
FairSpec ==
    /\ Spec
    /\ WF_vars(Dispatch)
    /\ \A w \in Workers : WF_vars(CheckDockerStatus(w))

-----------------------------------------------------------------------------
(* Properties.                                                             *)

StatusType ==
    [state : {"not_checked", "checking", "connected", "unavailable"},
     reference : Nat]

ActorType ==
    [pc : {"idle", "read", "announce", "check", "lookup", "call", "ok", "failed",
           "mark", "summary"},
     target : Servers \union {NoServer},
     operation : Operations \union {"none", "check"},
     previous : StatusType,
     reference : Nat]

TypeOK ==
    /\ status \in [Servers -> StatusType]
    /\ poller \in {"waiting", "dispatching", "stopped"}
    /\ todo \subseteq Servers
    /\ cancelled \in BOOLEAN
    /\ actor \in [Actors -> ActorType]
    /\ diagnostics \in Seq(Servers \union {NoServer})
    /\ latest \in [Servers -> {"none", "ok", "failed"}]
    /\ overlapped \subseteq Servers
    /\ connectedAt \in [Servers -> Nat]
    /\ polledAt \in [Servers -> Nat]

\* "Docker unavailable" always comes with the reference of a diagnostic that
\* was recorded about that very server, although the reference may have been
\* read from the cache long before and others mark the cache meanwhile.
\* (checkDockerStatus's reuse of previous.ErrorReference; GP-021.)
UnavailableIsExplained ==
    \A s \in Servers :
        status[s].state = "unavailable" =>
            /\ status[s].reference \in DOMAIN diagnostics
            /\ diagnostics[status[s].reference] = s

\* The poller owns its checks: none outlives its poll, hence none outlives the
\* poller, and no two workers check one server.  (The jobs channel and
\* workers.Wait(); GP-017.)
PollOwnsItsChecks ==
    \A w \in Workers :
        actor[w].pc # "idle" =>
            /\ poller = "dispatching"
            /\ actor[w].target \notin todo
            /\ \A v \in Workers : actor[v].pc # "idle" /\ actor[v].target = actor[w].target => v = w

\* One outage, one background diagnostic: between two diagnostics that workers
\* record of one server somebody found it connected.  (checkDockerStatus;
\* error-handling.md: "reuses the current reference".)
OneDiagnosticPerOutage ==
    [][\A s \in Servers :
          polledAt'[s] # polledAt[s] /\ polledAt[s] # 0 =>
              connectedAt[s] >= polledAt[s]]_vars

Agrees(s) ==
    /\ status[s].state = "connected" => latest[s] = "ok"
    /\ status[s].state = "unavailable" => latest[s] = "failed"

\* As long as nobody else worked on a server at the same time, its status is
\* what the last check found once that check is over.
SequentialStatusIsLatest ==
    \A s \in Servers \ overlapped : Busy(s) = {} => Agrees(s)

\* A poll ends, and "checking" is replaced by an outcome, unless the poll was
\* cancelled.
ChecksConclude ==
    \A s \in Servers :
        status[s].state = "checking" ~> (status[s].state # "checking" \/ cancelled)

\* stopAndWait returns: a cancelled poller finishes its workers and stops.
CancelledPollerStops == cancelled ~> poller = "stopped"

=============================================================================
