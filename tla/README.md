# GoPanel in TLA+

GoPanel is a single Go process: an HTTP control panel over one SQLite file that
registers servers, watches Docker through a Unix socket and shows its own
failures to administrators. This directory holds TLA+ modules translated from
its source, TLC configurations that check them on small instances, and proofs
that hold for every value of the constants. `PROJECT.json` maps every definition
to the lines it models. Paths below are relative to `src/internal/`.

## The system

| Component | State | Operations | Talks to |
| --- | --- | --- | --- |
| Server registration (`server`, `audit`) | tables `servers`, `audit_log` | `Service.Create`, list, get | SQLite; recorder; log |
| Diagnostic recorder (`diagnostic`) | the last 200 records in memory | `Record`, `Lookup`, `Snapshot` | called by everybody; Error Log pages |
| Docker status (`container`, `app`) | `StatusCache` in memory | poller, connection test, container list, logs | Docker socket; registry; recorder |
| Login limits (`auth/rate_limit.go`) | token bucket, account windows | `AllowGlobal`, `AllowAccount`, `Reset` | `Service.Login` |
| Sessions and passwords (`auth`) | tables `users`, `sessions` | login, session lookup, logout, password change, cleanup | SQLite; limiter |
| CSRF (`auth/csrf.go`, `auth/handler.go`) | a process-local key; the browser's cookies | login contexts, login and session tokens | sessions; every form |
| Docker client (`container/client.go`) | none | list, ping, log view | Docker socket; handlers and poller |
| Pages (`view`, `web/static/application.js`) | the browser's page and address bar | links, forms, htmx swaps | every handler |
| Lifecycle (`app`, `cmd/gopanel`) | goroutines, contexts, open handles | start, serve, drain, stop, close | all of the above |
| Migrations (`store`) | table `schema_migrations` | open, verify, migrate | SQLite; `create-admin` |
| Configuration, form validation, redaction, password hashing | none | pure functions | - |

What is hard in it:

* **Partial failure.** Registering a server is three statements without a
  transaction (attempt, insert, result). Any of them may fail, may commit and
  still be reported as failed because the request's context ended meanwhile, or
  may find the pool closed; the process may stop between any two.
* **Stale reads.** A Docker check reads the status, calls out for seconds, and
  then writes on the strength of what it read; handlers write the same entry. A
  login and a password change each verify a hash read earlier.
* **Bounded memory.** 200 diagnostics, 1024 limited accounts: what is evicted is
  still referred to elsewhere.
* **Shutdown.** Two background tasks, running handlers, the Docker client and
  SQLite end in an order that matters, within a drain deadline.
* **The browser.** Several tabs share two cookies, so an answer arrives in a
  browser that is no longer the one that asked; and a page is put together from
  fragments whose controls were written for another page.
* **Time.** Windows, token refill, session expiry and login contexts at their
  boundaries.

`PROJECT.json` lists each hazard at its line with the properties that cover it.

## Modules

`Registration` implements `AuditedOperation`, `Migrations` implements
`SchemaHistory`; `Recorder` uses `RecordWindow`. The `MC*` modules are for TLC: they
add symmetry or values of constants, and `MCRecords` and `MCDockerCalls` put two
modules that share no variable into one run, where TLC explores each while the other
stays in its initial state. Every `*_proofs` module holds the
theorems about the modules it extends, `Records_proofs` those about `Registration`
and `Recorder`, `Docker_proofs` those about `DockerStatus` and `ContainerLogs`. Definitions marked "(faulty variant:
...)" are not part of the model: each is a way its neighbour could be wrong, and
is there to show that the properties would notice.

### AuditedOperation, Registration

`AuditedOperation` states GP-013 and GP-014 of `docs/INVARIANTS.md` without a
program: an `attempted` row first, at most one effect and only under that row,
then a verdict that agrees with the effect and never changes.

`Registration` is `POST /servers`. `pc[r]` is the next call of request `r`'s
handler: `Submit` (form, validation, identifier), `RecordAttempt`, `Create`,
`RecordSuccess` or `RecordFailed` (the call in `creationFailure`), `Respond`
(`respondToCreate` and `handleCreateFailure`: the page, and the log line that
names an open audit row). Each database call succeeds, fails without effect, or
fails after its effect; the last only together with the cancellation of the
request's context, because a statement that SQLite refuses changes nothing and
`database/sql` reports an error after a commit only when the context ended while
the statement ran. `Cancel` is a client that leaves or `Server.Close` at the
drain deadline, `ClosePool` is `Application.finish` under a handler that is still
running, `Restart` a crash or exit followed by a start. Identifiers are 128
random bits, so rows are indexed by the request.

The fact everything rests on is in `Located`: in `creationFailure` the server may
exist, although `failed` is about to be written, but only when the context has
been cancelled, and a cancelled context cannot write.

### RecordWindow, Recorder

`Appended` is `appendRecord`'s shift of a full slice, `Newest` what it is meant to
be. `Recorder` splits `Record` at its lock: `Build` draws the reference outside
it, `AppendRecord` holds it, `LogRecord` and `Return` come after it, so goroutines
append in another order than they draw. `TakeSnapshot` and `RenderList` are the
Error Log page, which reverses its copy in place.

### DockerStatus

The cache locks each `Get` and `Mark` by itself and no lock spans a call, so
`ReadPrevious`, `Announce`, `Check` and the concluding mark are separate steps, of
several workers and handlers at once. `StartPoll`, `Take`, `Abandon`, `EndPoll`,
`StopPoller` are the poller: the list of servers, the unbuffered jobs channel, the
two cases of its `select`, `workers.Wait`, and `close(done)`. A diagnostic is its
position in the order of recording. `latest`, `overlapped`, `connectedAt` and
`polledAt` are auxiliary: they record history and guard nothing.

### LoginLimiter

Time is in ticks and the bucket in the ticks it took to fill, so fractions of a
token are exact. `AllowGlobal` and `AllowAccount` are each one step (they hold the
mutex); verification of the password lies between `AllowAccount` and `Accept`,
which resets the account, or `Reject`. `spent`, `successes` and `admitted` are
auxiliary and guard nothing. `admitted` is a log: every login that got as far as the
password, with its time and the number of successes before it. Nothing is ever removed
from it, so `AccountRateIsBounded` counts the attempts that `Reset` forgets, too.

### Sessions

The tables `users` and `sessions` under concurrent logins and authenticated
requests. A password is the number of changes before it, a session is named by
the login that inserts it (its token is 256 random bits), and a cookie is
membership in `issued`. `FindUser` reads the row that the password is verified
against and `CreateSession` inserts later, whatever happened to the user
meanwhile. `RequireLogin` reads the session; `PostLogout` and `PostPassword` act
on what it read. `UpdatePassword` is one transaction, every other statement
stands alone; each may be refused, and the insert of a session and the deletion
at logout may also be carried out and be reported as failed. `CleanupExpired`
compares times the way SQLite does, as RFC 3339 text: `TextRank` is the one place
where that order differs from the order of times. `opened` is auxiliary.

### Lifecycle

The main goroutine is `pc`, from `store.Open` to the exit, with the failure of
each step. Beside it run the goroutine of `http.Server.Serve` (`serving`), the two
background tasks (`task`), and a goroutine per connection. `conn` is what the
server knows of a connection (the `ConnState`, with "read" for a request that is
parsed while the server still counts the connection as new or idle, and "cut" for
a connection the server has closed under a handler); `handler` is what
the handler does, of which only a readiness probe is of interest here. `Close`,
`Awaited`, `DrainPoll` and `DrainDeadline` are what `http.Server.Shutdown` and
`Close` do: idle connections are closed, new ones after five seconds, handlers
are waited for by `Shutdown` and not by `Close`. The deadline of the drain
abstracts time: it may pass at once.

### SchemaHistory, Migrations

`SchemaHistory` is the promise: the migrations of a database are the beginning of
what some build embeds, and grow by one. `Migrations` runs several processes
(servers, and `user create-admin`) of several builds on one file: `ReadApplied`
validates once, then each pending migration is a transaction of three steps
(`Execute`, `Record`, `Commit`) by the one `writer`. Any step may fail and roll
back, any process may stop or crash anywhere. `Execute` may always succeed, also where the
effect is there already: that two processes do not both apply a migration rests
only on the primary key of `schema_migrations`.

### FormTokens

One browser with several tabs. `jar` holds its two cookies, `tab[t]` the form a tab
shows and its request: "sent" (with the cookies of that moment), "checked" (the
middleware has let it through), "answered" (the answer, with the cookies it sets,
is on its way). `Receive` stores the cookies of an answer only when it arrives.
`Mac` is the term a token's HMAC authenticates: key of the process, domain, and
login context or session. `GetLogin`, `ProtectLoginPost` and `PostLogin`,
`RequireLogin` (with `ProtectAuthenticatedPost`), `GetForm`, `PostLogout` and
`PostPassword` are the handlers; each may also `Fail`. `EndSession` is whatever
else ends a session, `Restart` a new process with a new key. `calm` is
auxiliary and guards nothing.

A sign-in, sign-out or password change takes effect on the database in one step here;
what may happen between and to its statements is in `Sessions`.

### Pages, Navigation

`Pages` translates the templates: a page or fragment is the sequence of the elements
an htmx target can name, outermost first, each with the links and forms that lie in
it and what it shows. `Navigation` is a browser window: `dom`, `address`, whether
scripts run, and the servers that are registered. `Clicks` are the requests the
page on the screen can send, `Visits` those of the address bar, `Restores` those of
Back and forward. Every handler is an action that answers a request, with all of its
outcomes, whether it may have them or not being a choice
(session, role, failures, evicted diagnostics). `AnswerAs` is htmx: the target of
the control is replaced, or its content, and the address bar follows
`hx-push-url` or the `HX-Push-Url` header. Without a target the answer is the new page.
`TransportFailure` is `application.js` when no answer arrives.

Back and forward are htmx's, too. `entries` are the addresses the document has left,
with the bodies htmx saved of them; `path` is its `currentPathForHistory`, under which
it saves the next one. `RestoreSnapshot` finds the body in the cache. Otherwise htmx
requests the address with `HX-Request`, so the handlers answer with a fragment (`Answer`
with `r.restore`), which becomes the whole body: `bare`. An answer with a status of 400
or more, or none, leaves the page although the browser has changed the address
(`RestoreFails`; `Fail` is the handlers' side of it). A page that is loaded is a new
document with an empty history. The history is a set, since any entry may be reached
from any other by going further back or forward. Left out are the browser's
own cache of responses and of whole documents, and a click while a restore is under
way.

### ContainerLogs

A log view from the registry to the page: `GetDockerServer`, `ContainerInspect`,
`ContainerLogs`, `ReadLogs`, with the deadline (`Timeout`) and the client's departure
(`Leave`) between any two. Text is a sequence of bytes of five kinds; `ToValidUTF8`,
`Lines`, `Joined`, `BoundLogLines` are the functions of the same names; `Lines` cuts
the text at its line ends, `LineEnd`. An error is its wrapper, its kind and its cause, the way `errors.Is` and `errors.As` look at it.

## Runs

| Run | Instance | Question |
| --- | --- | --- |
| Records | `Registration`: 2 requests. `Recorder`: capacity 2, 3 goroutines, 4 references | Do audit log, servers table, replies and log lines agree whatever fails or stops? Does registration implement `AuditedOperation`? Does every handler end? Are exactly the newest diagnostics kept, and is a shown reference traceable? |
| DockerCalls | `DockerStatus`: 2 servers, 2 workers, 3 diagnostics. `ContainerLogs`: 2 lines, 5 bytes, streams of up to 6 | Does the poll own its checks; do checks conclude; does a cancelled poller stop? Is the shown text the end of the log, and how long may it be; is a timeout named; what is "not found"? |
| DockerHandlers | 1 server, 1 worker, 2 handlers, 3 diagnostics | With handlers that mark the same entry: does a status name a diagnostic of its server, is an outage recorded once, is a status that nobody contests the latest? |
| LoginLimits | 2 logins, 2 accounts, 1 entry, 2 attempts, windows of 1 tick, burst 4, 4 ticks | Do the limits hold at their boundaries? |
| Sessions | 2 users, 2 logins, 2 requests, lifetime 3 ticks, 2 ticks a second, 5 ticks, 1 change per user | Does a session survive its logout or a password change; who is let through; what does the cleanup remove? |
| Lifecycle | 2 connections | Are tasks joined and handles closed on every path; whom does the drain cut off; what are late probes told? Does a signalled process exit, and one whose listener broke? |
| Migrations | 3 processes; builds `m1 m2`, `m1 m2 m3`, `m1 x2` | Does the record agree with the schema; does a ready process have its schema? Is `SchemaHistory` implemented? |
| FormTokens | 2 tabs, no click once more than 2 login contexts were made, 2 ticks, restarts and sign-ins together, contexts that last 1 tick | Does a post act for what its page was made for? Is a form ever dead on arrival? Does every click end in a page? |
| Navigation | 1 Docker server, 1 other, 1 error reference, 8 elements, 1 history entry | Does the address bar name what is shown; is every control routed and its target there, after Back and forward as well? |
| NavigationBack | as Navigation | Does a control that replaces `main` find one after Back? (It does not: below.) |
| NavigationDeadRow | as Navigation | Does every click send something? (It does not: below.) |
| LogsCap | as in DockerCalls | Is decoded output capped at the limit? (It is not: below.) |

The type invariants of `Registration`, `Recorder`, `Sessions`, `Lifecycle`,
`Migrations`, `FormTokens`, `Navigation` and `ContainerLogs` are proved rather than run.

**Bounds.** Requests share nothing but the pool, so two show every
interference. Two records are the smallest window in which order and shift differ;
four references let it be filled twice. `MaxFailures` bounds the
diagnostics recorded in one behaviour of `DockerStatus`: three allow an outage, a
recovery and another outage with one failure of somebody else. Four ticks let
several account windows of one tick follow each other, and two logins let one succeed
between the attempts of the other; `MaxTime` and the bucket bound `admitted`. In `Sessions` two logins of one
user show a session and the login that races its removal, and a lifetime of three
half-second ticks expires on whole and on half seconds. Connections of `Lifecycle`
share only the server's flags. The three builds of `Migrations` are an older one,
its successor and one that diverges; a process may restart with another build.
`MaxContexts` and `MaxEvents` of `FormTokens` stop new clicks, not requests under way,
so the counts may be exceeded by what both tabs have sent: two sign-ins show an old tab
beside a new session, one with a tick or a restart a form that outlives its context or
its process, and a form can be posted after its context was replaced. Eight elements hold every page,
the deepest fragment in it and another fragment in that. `MaxEntries` is what is kept of
the history beside the page on the screen: one entry, of any address and any body the
document had there, since what `Saved` drops is a choice; with one, Back and forward lead from
any page to any other of the document. The run ends with all the pages a user can
reach so, in 97,145 states. A stream of six bytes exceeds the limit of five, holds three
lines where two are kept, and runs of invalid bytes that grow by two each.

**Fairness.** `Registration` assumes weak fairness of each running handler: a
goroutine keeps running and every database call returns. `DockerStatus` assumes
it of the poller's dispatch and of each worker: a check ends within the Docker
timeout of the client (`container.DefaultTimeout`). `Lifecycle`
assumes it of the main goroutine and of `Serve`, of the run a task is in (its
calls end within the timeouts of SQLite and Docker), of the drain deadline by
itself (it passes although the polls go on), and strong fairness of the end of a
task: Go's `select` chooses among ready cases at random, so a done context is not
passed over for ever by a ticker. `FormTokens` assumes weak fairness of each tab's
request: its handler returns, and the answer arrives (the subscript is the tab, which each of
these steps changes). Nothing is assumed of clicks,
of clients, of handlers in `Lifecycle`, of tickers or of signals. Deadlock is checked
everywhere except where the system may stop: in `DockerCalls` (a stopped poller, or a log
view that ended), in `LogsCap`, in `Lifecycle` (an exited process),
and in `FormTokens`, whose users stop clicking at the bounds.

## What the code does differently from its documentation

**A row that does nothing** (run NavigationDeadRow, `NoClickIsSilent`). The rows of
the Error Log and of the server list target `closest section`. The section is in the
list's page, not in its fragment. The link "Back to Error Log" of an error's page puts
the fragment in place of the page's `main`, and from then on a click on a row finds no
target: htmx reports `htmx:targetError`, which `application.js` does not listen to,
and sends nothing. GP-026 in `docs/INVARIANTS.md` says that a user-initiated action
never fails silently. `EveryControlIsServed` shows that rows, and after the next
item's Back the controls that replace `main`, are the only ones this can happen to.

**Back makes a fragment the page** (run NavigationBack, `BackKeepsTheMain`). htmx keeps
ten bodies in its history cache, fewer or none when the browser's storage is short or
disabled. Back to an address that is not there is a request with `HX-Request` and
`HX-History-Restore-Request`; `isHTMXRequest` looks at the first only, the handler
answers with the fragment for a swap, and htmx 1.9.12 makes it the whole body. The
navigation around it is gone, and a control like "View containers"
(`view/pages/containerpages/container_list.templ:26`, `closest main`) has no target and
sends nothing. GP-023 (`docs/INVARIANTS.md:81`) says that primary navigation remains
compatible with Back. The address is right even then: `AddressNamesTheView`.

**The cap of a log view** (run LogsCap, `DecodedOutputIsCapped`).
`docs/maintainers/integrations.md:23` says that log retrieval caps decoded output at
1 MiB. `readLogs` compares the size of what it read with the limit and replaces runs of
invalid bytes afterwards, each by the three bytes of U+FFFD. `ShownIsBounded` says how far
that goes: one byte more than twice the limit.

Known from the same models, and not kept as runs of their own:

* A Docker status need not be the outcome of the latest check: the poller and a
  handler may ask at the same time, and whoever marks last wins.
  `SequentialStatusIsLatest` says when it is.
* A success forgives what other callers of its account have failed in the meantime:
  `Reset` drops the whole entry. `AccountRateIsBounded` says how much this is: one
  window's worth of attempts for each success.
* A readiness probe may read its flag before shutdown begins and be answered after
  it: `LateProbesAreNotReady` speaks of those that read it later.
* A restore that fails leaves the old page under the new address (`RestoreFails`), so
  `AddressNamesTheView` leaves that case out.
* A sign-in whose login context ends between the check of its form and its wrong
  password is answered by an error page without a form (`FormTokens`, `Fail`).
* The cleanup removes sessions that are still valid: as text a whole second comes
  after its fractions ("Z" sorts after "."), so a cleanup on the second removes
  sessions that end later in that second. `CleanupIsAccurate` shows that it never
  errs by more.
* The session of a login that verified the old password may be inserted after a
  password change has deleted the user's sessions; `NoSessionOutlivesAChange` is
  about those that were open before.
* At the drain deadline the connections are closed and handlers may still run when
  SQLite closes; `Registration` shows that the audit log stays truthful then.
* Two tabs that load the sign-in page at once get different login contexts, and only
  the one whose answer arrives last works: the forms of the other are rejected once,
  with a fresh form. This is why `CalmFormWorks` speaks of tabs whose cookies no
  other answer has changed.
* The reference of an outage is reused after a handler found the server connected
  meanwhile; a status keeps a reference that 200 other failures have pushed out of the
  Error Log (`Navigation` lets every reference lead to "not found"); and a process may
  become ready on a schema that a newer build has extended since it validated (it
  still has every migration of its own: `ReadyHasItsSchema`).

## Proofs

Proved by TLAPS for every value of the constants, from the assumptions named in
the modules:

* `Records_proofs`, of `Registration`: `TypeOK`, `AuditTruth`, `ReplyIsTruthful`,
  `UnresolvedIsFlagged`, `VerdictIsFinal`, and the refinement of
  `AuditedOperation`. The inductive invariant adds `HandlerInv`: where a handler
  stands fixes what the database holds (`Located`), and a returned error says what
  it holds to a client that is still there (`Concluded`). `HandlersAdvance` is the
  measure behind `EveryRequestEnds`: a handler never repeats a call, nor goes back.
  Of `Recorder`: `RecorderTypeOK`, `KeepsTheNewest` and `ShownIsTraceable` for any
  capacity. `AppendedNewest` is the lemma about the shift; the invariant adds that the
  history repeats no reference and holds every reference that is past
  `AppendRecord`.
* `Sessions_proofs`: `TypeOK`, `NoSessionOutlivesAChange`, `LogoutIsFinal`,
  `AuthenticatesOnlyLiveSessions`, `CleanupIsAccurate`. The invariant adds `Unborn`
  (a token exists only after its login's insert, so no late insert brings a removed session back),
  `Known` and `OnTime`. `WithinASecond` is the lemma about times compared as text:
  they are in the wrong order only within one second.
* `Migrations_proofs`: `TypeOK`, `RecordedIsApplied`, `ReadyHasItsSchema`, and the
  refinement of `SchemaHistory`. The invariant says that what a process has found
  or applied stays the beginning of the schema (`Located`), and that the row it is
  about to commit is the next one (`Staged`).
* `Lifecycle_proofs`: `TypeOK`, `TasksEndBeforeClosing`, `NothingIsLeftOpen`,
  `CompletedDrainCutsNobodyOff`, `LateProbesAreNotReady`. The position of the main
  goroutine fixes which handles are open and which tasks may run (`Position`); how
  the drain ended fixes what connections may exist (`Drained`); `Probes` says that a
  handler which saw the flag unset serves a request read before `Shutdown`; `Started`
  says that what the main goroutine is going to wait for runs, or has run.
  `WaitsAreAnswered` follows from it: the safety half of `ProcessExits`.
* `FormTokens_proofs`: `TypeOK`, `ActsForItsPage` and `CalmFormWorks`, for any number
  of tabs. `HandleEffects` sums up the handlers: each lets its request through or
  answers it with no form or with one of three kinds. `ActInv` says that a form's token binds
  the cookie it was rendered for (`Bound`), and that a request that has been let
  through carries it (`Verified`). `CalmInv` adds, of a calm tab, that the cookies
  its request was sent with are still the browser's, unless their session or context
  has ended (`Current`), that its answer will leave a form that fits the cookies stored
  with it (`Arrives`), and that the form shown fits them (`Stays`); and that
  nothing in a browser names a session that is still to be opened (`Known`), so that
  a new session never revives the form of an ended one.
* `LoginLimiter_proofs`: `TypeOK`, `GlobalRateIsBounded`, `TableIsBounded`,
  `WindowIsNotExtended`, `AccountRateIsBounded`, for any limits and any number of
  callers. `AllowAccountEffects` says what a call does to each entry of the table
  (`Keeps`, `Drops`, `Counts`, `Opens`). `Balance`: what was paid and what is left
  never exceed the burst and the refill. `Pace` relates an account's entry to the log
  of its logins. `Worth(n)` is one window's worth of attempts and as much again for each
  of n successes. All but the last `count` logins lie before the entry's window, and
  all but those and the `Worth` of the successes since lie a whole window before that
  (`Windowed`); of an account without an entry, all but that `Worth` lie a window ago
  (`Unwindowed`), which is why an entry may be forgotten once it has expired. A success
  forgets a living window (`ForgetAtSuccess`) and pays for it with its own `Worth`.
* `Docker_proofs`, of `DockerStatus`: `TypeOK`, `PollOwnsItsChecks`, `UnavailableIsExplained`,
  `OneDiagnosticPerOutage`, `SequentialStatusIsLatest`, for any number of servers,
  workers and handlers. `StepEffects` sums up the steps. `ExplainInv` says of the
  copies that workers keep what the property says of the cache. `Attended`: a status
  "checking" has a worker, or its poll was cancelled, and no worker ever reads it as
  its previous status. `Outage`: while the last background diagnostic of a server is
  newer than its last success, a worker that is going to fail has read it.
  `Uncontested`: of a server with one actor, only the mark that actor owes is missing.
  `CheckingIsAttended` states `Attended` by itself: the safety half of
  `ChecksConclude`.
* `Docker_proofs`, of `ContainerLogs`: `CallTypeOK`, `FailureIsExplained`, `ShownIsBounded`,
  `ShownIsTheEnd`, for streams and limits of any size. `CallInv` says that a failure
  is explained from the step that made it, and that a shown text is `BoundLogLines`
  of a stream within the limit. The rest is about text. Parts that are put together
  keep every byte (`FlattenedIs`, `FlattenedLength`), so no byte of the stream
  becomes more than one replacement character, and of adjacent
  invalid bytes only the first does, which bounds what a text may gain (`ToValidUTF8Is`). The line ends grow strictly
  (`LineEndsGrow`), every one is a line feed (`LineEndIsFeed`), and every line feed is
  one of them (`FeedsCounted`), so the lines cover the text; joined again from the first
  that is kept, they are what follows the feed before it (`BoundLogLinesIs`), which
  is an end of the text (`PartIsSuffix`) with as many lines as the limit allows
  (`LinesRemain`).
* `Navigation_proofs`: `TypeOK`, `AddressNamesTheView`, `EveryControlIsServed`, for any servers
  and references and for pages nested to any depth. A template is described by what
  it owes: its htmx controls find their region around them (`Anchored`), a form is
  innermost (`FormsLast`) and belongs to the address (`FormsOf`), and what it shows
  innermost does too (`ShowsOnly`). One lemma for each template shows this, and one for a
  swap that what is left of the page and the answer keep it together. `IInv` says this
  (`Sound`) of the page on the screen, for the address htmx holds it to be at, and of every
  body in the history for its own, of which Back restores one (`RestoreKeeps`). It adds
  that a page has a main element, unless the login form took its place or it was
  restored from a fragment (`bare`). Nothing is assumed of the length of the history.

The proofs assume of the constants what the modules name: that limits are numbers, and
not zero where the code's are not; that a second has at most ten ticks; that Docker
servers are servers; and that a `None` is none of the values it is told from.
`SafeDiagnostic` tries its conditions in the code's order with `IF`: they overlap, and of
a `CASE` with overlapping guards TLA+ does not promise the first.

The provers have no induction over an operator; where an argument goes over all indices
of a sequence, the proof takes the least index at which the formula fails (`Least`, from
`WFMin` over `<` on `Nat`) and refutes it.

Only model-checked: liveness, which the prover cannot express with fairness
(`EveryRequestEnds`, `ChecksConclude`, `CancelledPollerStops`, `ProcessExits`,
`EveryClickIsAnswered`). Every other property of the passing runs has a theorem.

## Plan

Every component with state of its own is modelled, and every safety property and
refinement that is checked is proved. Left: `CreateUser` of `create-admin`, beside the
logins of `Sessions`; and of the liveness properties `CancelledPollerStops` and
`EveryClickIsAnswered` the measures that decrease, as `HandlersAdvance` does for
`EveryRequestEnds`.

## Not modelled, and why

Form validation, redaction, the parsing of configuration, and password hashing are
pure functions of strings, without state: the models that call them take their
outcome as a choice, so what is shown holds for every outcome. Of the Docker client,
dialling and the list's formatting are left out; a call succeeds, or fails in one of
the ways it is classified. `create-admin`'s prompts and its one insert are left out;
its migrations are a process of `Migrations`. Texts, styles and the values of form
fields are left out of `Pages`. The strength of HMAC, of Argon2id and of the random
source, and SQLite's atomicity and durability, are assumed.
