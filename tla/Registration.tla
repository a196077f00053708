---------------------------- MODULE Registration ----------------------------
(***************************************************************************)
(* Audited server registration: POST /servers, from HandleCreate through   *)
(* server.Service.Create to the reply, over the two SQLite tables it       *)
(* writes (servers, audit_log), for requests that run concurrently.        *)
(*                                                                         *)
(* Every accepted request draws a fresh 128-bit server identifier and a    *)
(* fresh audit identifier, so the rows are indexed by the request.         *)
(*                                                                         *)
(* Three things go wrong while a request runs: its context is cancelled    *)
(* (the client leaves, or the drain deadline closes its connection), the   *)
(* connection pool is closed at the end of shutdown, and the process       *)
(* stops.  A statement refused by SQLite (busy, full, constraint) changes  *)
(* nothing; a statement whose context ends WHILE it runs may have been     *)
(* committed and still be reported as an error.                            *)
(***************************************************************************)
CONSTANT Requests       \* POST /servers requests, past RequireAdmin and CSRF

VARIABLES
    pc,                 \* pc[r]: the call r's handler makes next
    err,                \* err[r]: the error Service.Create returned
    ctx,                \* ctx[r]: r.Context() of the HTTP request
    pool,               \* the sql.DB handle: "open" or "closed"
    audit,              \* audit[r]: result column of r's audit row, or "none"
    row,                \* row[r]: the servers table holds r's server
    reply,              \* reply[r]: what reached the client
    flagged             \* requests whose audit id an integrity log line names

vars == <<pc, err, ctx, pool, audit, row, reply, flagged>>

ServiceErrors ==
    {"none", "validation", "preparation", "audit_unavailable",
     "creation", "creation_unresolved", "audit_incomplete"}

Calls == {"RecordAttempt", "Create", "RecordSuccess", "RecordFailed", "Respond"}

Pages == {"invalid", "not_created", "incomplete", "created", "unprepared"}

Init ==
    /\ pc = [r \in Requests |-> "idle"]
    /\ err = [r \in Requests |-> "none"]
    /\ ctx = [r \in Requests |-> "live"]
    /\ pool = "open"
    /\ audit = [r \in Requests |-> "none"]
    /\ row = [r \in Requests |-> FALSE]
    /\ reply = [r \in Requests |-> "none"]
    /\ flagged = {}

-----------------------------------------------------------------------------
(* One database/sql call.                                                  *)

\* database/sql refuses a call on a cancelled context or a closed pool before
\* the statement reaches SQLite.
Executes(r) == ctx[r] = "live" /\ pool = "open"

\* The call returns nil and the handler goes on.
Proceed(r, next) ==
    /\ pc' = [pc EXCEPT ![r] = next]
    /\ UNCHANGED <<err, ctx>>

\* The call returns an error and the service returns e, or tries one more call.
Fail(r, next, e) ==
    /\ pc' = [pc EXCEPT ![r] = next]
    /\ err' = [err EXCEPT ![r] = e]

\* The call returns an error although its statement was committed: only when
\* the context is cancelled while the statement runs.
FailAfterEffect(r, next, e) ==
    /\ ctx' = [ctx EXCEPT ![r] = "cancelled"]
    /\ Fail(r, next, e)

\* The call returns an error and its statement changed nothing.
FailWithoutEffect(r, next, e) ==
    /\ Fail(r, next, e)
    /\ UNCHANGED ctx

-----------------------------------------------------------------------------
(* The handler of one request.                                             *)

\* HandleCreate reads the form; Service.Create validates it and draws an
\* identifier.  Neither touches the database.
Submit(r) ==
    /\ pc[r] = "idle"
    /\ \/ Proceed(r, "RecordAttempt")
       \/ FailWithoutEffect(r, "Respond", "validation")
       \/ FailWithoutEffect(r, "Respond", "preparation")
    /\ UNCHANGED <<pool, audit, row, reply, flagged>>

\* INSERT INTO audit_log ... 'attempted'
\* (faulty variant: an attempt that cannot be written is ignored)
RecordAttemptBestEffort(r) ==
    /\ pc[r] = "RecordAttempt"
    /\ \/ Executes(r) /\ audit' = [audit EXCEPT ![r] = "attempted"]
       \/ UNCHANGED audit
    /\ Proceed(r, "Create")
    /\ UNCHANGED <<pool, row, reply, flagged>>

RecordAttempt(r) ==
    /\ pc[r] = "RecordAttempt"
    /\ \/ /\ Executes(r)
          /\ audit' = [audit EXCEPT ![r] = "attempted"]
          /\ \/ Proceed(r, "Create")
             \/ FailAfterEffect(r, "Respond", "audit_unavailable")
       \/ /\ FailWithoutEffect(r, "Respond", "audit_unavailable")
          /\ UNCHANGED audit
    /\ UNCHANGED <<pool, row, reply, flagged>>

\* INSERT INTO servers ...; an error leads to creationFailure, which uses the
\* same context.
Create(r) ==
    /\ pc[r] = "Create"
    /\ \/ /\ Executes(r)
          /\ row' = [row EXCEPT ![r] = TRUE]
          /\ \/ Proceed(r, "RecordSuccess")
             \/ FailAfterEffect(r, "RecordFailed", "creation")
       \/ /\ FailWithoutEffect(r, "RecordFailed", "creation")
          /\ UNCHANGED row
    /\ UNCHANGED <<pool, audit, reply, flagged>>

\* UPDATE audit_log SET result = verdict WHERE id = r AND result = 'attempted';
\* an update that matches no row is an error too.
SetResult(r, verdict) ==
    IF audit[r] = "attempted" THEN [audit EXCEPT ![r] = verdict] ELSE audit

RecordSuccess(r) ==
    /\ pc[r] = "RecordSuccess"
    /\ \/ /\ Executes(r)
          /\ audit' = SetResult(r, "success")
          /\ \/ audit[r] = "attempted" /\ Proceed(r, "Respond")
             \/ FailAfterEffect(r, "Respond", "audit_incomplete")
       \/ /\ FailWithoutEffect(r, "Respond", "audit_incomplete")
          /\ UNCHANGED audit
    /\ UNCHANGED <<pool, row, reply, flagged>>

\* (faulty variant: the result is written with a context of its own)
RecordFailedDetached(r) ==
    /\ pc[r] = "RecordFailed"
    /\ pool = "open"
    /\ audit' = SetResult(r, "failed")
    /\ Proceed(r, "Respond")
    /\ UNCHANGED <<pool, row, reply, flagged>>

\* (faulty variant: the insert is tried again after the failure was recorded)
RecordFailedThenRetry(r) ==
    /\ pc[r] = "RecordFailed"
    /\ audit' = IF Executes(r) THEN SetResult(r, "failed") ELSE audit
    /\ Proceed(r, "Create")
    /\ UNCHANGED <<pool, row, reply, flagged>>

\* creationFailure: RecordResult(ctx, auditID, failed)
RecordFailed(r) ==
    /\ pc[r] = "RecordFailed"
    /\ \/ /\ Executes(r)
          /\ audit' = SetResult(r, "failed")
          /\ \/ audit[r] = "attempted" /\ Proceed(r, "Respond")
             \/ FailAfterEffect(r, "Respond", "creation_unresolved")
       \/ /\ FailWithoutEffect(r, "Respond", "creation_unresolved")
          /\ UNCHANGED audit
    /\ UNCHANGED <<pool, row, reply, flagged>>

\* The page handleCreateFailure or respondToCreate chooses.  A created server
\* whose detail fragment cannot be prepared is answered by the generic error
\* page ("unprepared").
\* (faulty variant: an incomplete audit is presented like other errors)
PresentsWithoutPartial(e, page) ==
    \/ e = "none" /\ page = "created"
    \/ e # "none" /\ page = "not_created"

Presents(e, page) ==
    \/ e = "none" /\ page \in {"created", "unprepared"}
    \/ e = "validation" /\ page = "invalid"
    \/ e = "audit_incomplete" /\ page = "incomplete"
    \/ e \notin {"none", "validation", "audit_incomplete"} /\ page = "not_created"

\* The high-severity line that names an audit row left at "attempted".
\* (faulty variant: the failed update of a failed creation is dropped)
IntegrityFailureOfSuccess(e) == e = "audit_incomplete"

IntegrityFailure(e) == e \in {"audit_incomplete", "creation_unresolved"}

\* (faulty variant: the handler waits for a client that has left)
RespondToLiveClient(r) ==
    /\ pc[r] = "Respond"
    /\ ctx[r] = "live"
    /\ reply' = [reply EXCEPT ![r] = "created"]
    /\ pc' = [pc EXCEPT ![r] = "done"]
    /\ UNCHANGED <<err, ctx, pool, audit, row, flagged>>

Respond(r) ==
    /\ pc[r] = "Respond"
    /\ \E page \in Pages :
          /\ Presents(err[r], page)
          /\ reply' = [reply EXCEPT ![r] = IF ctx[r] = "live" THEN page ELSE "lost"]
    /\ flagged' = IF IntegrityFailure(err[r]) THEN flagged \union {r} ELSE flagged
    /\ pc' = [pc EXCEPT ![r] = "done"]
    /\ UNCHANGED <<err, ctx, pool, audit, row>>

Handle(r) ==
    \/ RecordAttempt(r)
    \/ Create(r)
    \/ RecordSuccess(r)
    \/ RecordFailed(r)
    \/ Respond(r)

-----------------------------------------------------------------------------
(* What happens around the handlers.                                       *)

\* The client disconnects, or http.Server.Close ends its connection.
Cancel(r) ==
    /\ pc[r] \in Calls
    /\ ctx[r] = "live"
    /\ ctx' = [ctx EXCEPT ![r] = "cancelled"]
    /\ UNCHANGED <<pc, err, pool, audit, row, reply, flagged>>

\* Application.finish closes SQLite; a handler that outlived the drain
\* deadline may still be running.
ClosePool ==
    /\ pool = "open"
    /\ pool' = "closed"
    /\ UNCHANGED <<pc, err, ctx, audit, row, reply, flagged>>

\* The process stops (crash or exit) and is started again: handlers are gone,
\* committed rows stay, the pool is opened anew.
Restart ==
    /\ pc' = [r \in Requests |-> IF pc[r] \in Calls THEN "gone" ELSE pc[r]]
    /\ ctx' = [r \in Requests |-> IF pc[r] \in Calls THEN "cancelled" ELSE ctx[r]]
    /\ pool' = "open"
    /\ UNCHANGED <<err, audit, row, reply, flagged>>

Next ==
    \/ \E r \in Requests : Submit(r) \/ Handle(r) \/ Cancel(r)
    \/ ClosePool
    \/ Restart

Spec == Init /\ [][Next]_vars

\* A running handler goroutine keeps running: every database call returns and
\* the reply is attempted.  Nothing is assumed of clients or of shutdown.
FairSpec == Spec /\ \A r \in Requests : WF_vars(Handle(r))

-----------------------------------------------------------------------------
(* Properties.                                                             *)

TypeOK ==
    /\ pc \in [Requests -> Calls \union {"idle", "done", "gone"}]
    /\ err \in [Requests -> ServiceErrors]
    /\ ctx \in [Requests -> {"live", "cancelled"}]
    /\ pool \in {"open", "closed"}
    /\ audit \in [Requests -> {"none", "attempted", "success", "failed"}]
    /\ row \in [Requests -> BOOLEAN]
    /\ reply \in [Requests -> Pages \union {"none", "lost"}]
    /\ flagged \subseteq Requests

\* The audit log never lies about the servers table, whatever was cancelled,
\* refused or killed in between: a stored server has an audit row, "success"
\* is only written of a stored server and "failed" only of an absent one.
\* (Service.Create and creationFailure; GP-013, GP-014.)
AuditTruth ==
    \A r \in Requests :
        /\ row[r] => audit[r] \in {"attempted", "success"}
        /\ audit[r] = "success" => row[r]

\* Once a verdict is written neither it nor the server it speaks of changes:
\* no second result, no late insert after "failed".  (RecordResult's WHERE
\* result = 'attempted', and the order of calls in Service.Create.)
VerdictIsFinal ==
    [][\A r \in Requests :
          audit[r] \in {"success", "failed"} =>
              audit'[r] = audit[r] /\ row'[r] = row[r]]_vars

\* What a client that is still there is told is true of the database: after
\* "could not complete" a retry cannot duplicate a server, and after "created,
\* but audit is incomplete" the server does exist with an open audit row.
\* (handleCreateFailure's classification of Service.Create's errors.)
ReplyIsTruthful ==
    \A r \in Requests :
        /\ reply[r] \in {"invalid", "not_created"} => ~row[r]
        /\ reply[r] = "incomplete" => row[r] /\ audit[r] = "attempted"
        /\ reply[r] \in {"created", "unprepared"} => row[r] /\ audit[r] = "success"

\* A finished request that leaves its acknowledged audit row at "attempted"
\* has logged that row's identifier with high severity.  (The two
\* logger.Error calls of handleCreateFailure; GP-014.)
UnresolvedIsFlagged ==
    \A r \in Requests :
        pc[r] = "done" /\ audit[r] = "attempted" /\ err[r] # "audit_unavailable"
            => r \in flagged

\* Where each handler stands determines what the database holds, up to what a
\* cancellation hides: the inductive strengthening of the invariants above.
\* The fourth line is the delicate one: a servers row may exist while "failed"
\* is about to be recorded, but only under a context that is already cancelled,
\* with which the update cannot run.
Located(r) ==
    /\ pc[r] \in {"idle", "RecordAttempt"} =>
           audit[r] = "none" /\ ~row[r] /\ err[r] = "none"
    /\ pc[r] = "Create" => audit[r] = "attempted" /\ ~row[r] /\ err[r] = "none"
    /\ pc[r] = "RecordSuccess" => audit[r] = "attempted" /\ row[r] /\ err[r] = "none"
    /\ pc[r] = "RecordFailed" =>
           audit[r] = "attempted" /\ err[r] = "creation" /\ (row[r] => ctx[r] = "cancelled")

\* What the returned error says of the database to a client still connected.
Reported(r) ==
    /\ err[r] = "none" => row[r] /\ audit[r] = "success"
    /\ err[r] \in {"validation", "preparation", "audit_unavailable", "creation",
                   "creation_unresolved"} => ~row[r]
    /\ err[r] = "audit_incomplete" => row[r] /\ audit[r] = "attempted"

Concluded(r) ==
    /\ pc[r] = "Respond" /\ ctx[r] = "live" => Reported(r)
    /\ pc[r] = "Respond" /\ audit[r] = "attempted" =>
           err[r] = "audit_unavailable" \/ IntegrityFailure(err[r])
    /\ reply[r] \notin {"none", "lost"} => pc[r] = "done" 

HandlerInv == \A r \in Requests : Located(r) /\ Concluded(r)

\* Registration carries out the abstract audited operation.
Audited == INSTANCE AuditedOperation WITH Operations <- Requests, effect <- row

ImplementsAuditedOperation == Audited!Spec

\* A handler that started ends, whether or not its client is still there and
\* the database still answers; only the end of the process cuts it short.
EveryRequestEnds ==
    \A r \in Requests : pc[r] \in Calls ~> pc[r] \in {"done", "gone"}

=============================================================================
