---------------------------- MODULE Docker_proofs ----------------------------
(***************************************************************************)
(* Proofs about DockerStatus, for any number of servers, workers and       *)
(* handlers, and about ContainerLogs, for a log and limits of any size.    *)
(***************************************************************************)
EXTENDS DockerStatus, ContainerLogs,
        FiniteSetTheorems, SequenceTheorems, WellFoundedInduction, TLAPS

\* Whoever is not idle works on a server.
TypeInv ==
    /\ TypeOK
    /\ \A a \in Actors : /\ actor[a].pc = "idle" => actor[a].target = NoServer
                         /\ actor[a].pc # "idle" => actor[a].target \in Servers

-----------------------------------------------------------------------------
(* What the steps do                                                       *)

Pcs == {"idle", "read", "announce", "check", "lookup", "call", "ok", "failed", "mark",
        "summary"}

\* Nothing but the locals of a changes, which go to p.
OthersStay(a) == \A b \in Actors \ {a} : actor'[b] = actor[b]
Proceeds(a, p) ==
    /\ OthersStay(a)
    /\ actor'[a].pc = p
    /\ actor'[a].target = actor[a].target
    /\ actor'[a].previous = actor[a].previous
    /\ actor'[a].reference = actor[a].reference
Leaves(a) ==
    /\ OthersStay(a)
    /\ actor'[a].pc = "idle"
    /\ actor'[a].target = NoServer

LEMMA SetActor ==
    ASSUME TypeInv, NEW a \in Actors, NEW e \in ActorType,
           actor' = [actor EXCEPT ![a] = e]
    PROVE  actor' \in [Actors -> ActorType] /\ OthersStay(a) /\ actor'[a] = e
BY DEF TypeInv, TypeOK, OthersStay

LEMMA GotoEffect ==
    ASSUME TypeInv, NEW a \in Actors, NEW p \in Pcs, Goto(a, p)
    PROVE  actor' \in [Actors -> ActorType] /\ Proceeds(a, p)
<1> DEFINE e == [actor[a] EXCEPT !.pc = p]
<1>1. actor[a] \in ActorType
  BY DEF TypeInv, TypeOK
<1>2. /\ e \in ActorType /\ e.pc = p /\ e.target = actor[a].target
      /\ e.previous = actor[a].previous /\ e.reference = actor[a].reference
  BY <1>1 DEF ActorType, Pcs
<1>3. actor' = [actor EXCEPT ![a] = e]
  BY DEF Goto
<1> HIDE DEF e
<1> QED
  BY <1>2, <1>3, SetActor DEF Proceeds

LEMMA IdleType == Idle \in ActorType /\ Idle.pc = "idle" /\ Idle.target = NoServer
BY DEF Idle, ActorType, NotChecked, StatusType

LEMMA ReturnEffect ==
    ASSUME TypeInv, NEW a \in Actors, Return(a)
    PROVE  actor' \in [Actors -> ActorType] /\ Leaves(a)
<1>1. actor' = [actor EXCEPT ![a] = Idle]
  BY DEF Return
<1> QED
  BY <1>1, IdleType, SetActor DEF Leaves

\* a begins to work on s.
Engages(a, s) ==
    /\ actor[a].pc = "idle"
    /\ OthersStay(a)
    /\ actor'[a].pc \in {"read", "lookup"}
    /\ actor'[a].target = s
    /\ actor'[a].previous = NotChecked
    /\ overlapped' = IF Busy(s) = {} THEN overlapped ELSE overlapped \union {s}
    /\ UNCHANGED <<status, diagnostics, latest, connectedAt, polledAt>>
    /\ \/ a \in Workers /\ poller = "dispatching" /\ s \in todo /\ todo' = todo \ {s}
          /\ actor'[a].pc = "read" /\ UNCHANGED <<poller, cancelled>>
       \/ a \in Handlers /\ actor'[a].pc = "lookup" /\ UNCHANGED <<poller, todo, cancelled>>

\* A worker reads the status of its server.
Reads(w) ==
    /\ w \in Workers
    /\ actor[w].pc = "read"
    /\ OthersStay(w)
    /\ actor'[w].pc = "announce"
    /\ actor'[w].target = actor[w].target
    /\ actor'[w].previous = status[actor[w].target]
    /\ UNCHANGED <<status, poller, todo, cancelled, diagnostics, auxVars>>

Announces(w) ==
    /\ w \in Workers
    /\ actor[w].pc = "announce"
    /\ Proceeds(w, "check")
    /\ status' = [status EXCEPT ![actor[w].target] = [state |-> "checking", reference |-> 0]]
    /\ UNCHANGED <<poller, todo, cancelled, diagnostics, auxVars>>

\* a's check or call ends with an outcome.
Answers(a, outcome) ==
    /\ actor[a].pc \in {"check", "lookup", "call", "summary"}
    /\ actor[a].pc = "check" <=> a \in Workers
    /\ Proceeds(a, outcome)
    /\ latest' = [latest EXCEPT ![actor[a].target] = outcome]
    /\ UNCHANGED <<status, poller, todo, cancelled, diagnostics, overlapped, connectedAt, polledAt>>

\* a goes on to its call, or ends without a mark.
Passes(a) ==
    /\ \/ actor[a].pc = "check" /\ a \in Workers /\ cancelled /\ Leaves(a)
       \/ actor[a].pc = "lookup" /\ a \in Handlers /\ Proceeds(a, "call")
       \/ actor[a].pc \in {"call", "summary"} /\ a \in Handlers /\ Leaves(a)
    /\ UNCHANGED <<status, poller, todo, cancelled, diagnostics, auxVars>>

Connects(a) ==
    /\ actor[a].pc = "ok"
    /\ Leaves(a) \/ (a \in Handlers /\ Proceeds(a, "summary"))
    /\ status' = [status EXCEPT ![actor[a].target] = [state |-> "connected", reference |-> 0]]
    /\ connectedAt' = [connectedAt EXCEPT ![actor[a].target] = Len(diagnostics)]
    /\ UNCHANGED <<poller, todo, cancelled, diagnostics, latest, overlapped, polledAt>>

\* a marks its server unavailable, for an outage it recorded or knew.
Fails(a, ref) ==
    /\ \/ actor[a].pc = "failed" /\ KnownOutage(a) /\ ref = actor[a].previous.reference
       \/ actor[a].pc = "mark" /\ ref = actor[a].reference
    /\ Leaves(a)
    /\ status' = [status EXCEPT ![actor[a].target] = [state |-> "unavailable", reference |-> ref]]
    /\ UNCHANGED <<poller, todo, cancelled, diagnostics, auxVars>>

Records(a) ==
    /\ actor[a].pc = "failed"
    /\ OthersStay(a)
    /\ actor'[a].pc = "mark"
    /\ actor'[a].target = actor[a].target
    /\ actor'[a].previous = actor[a].previous
    /\ actor'[a].reference = Len(diagnostics')
    /\ diagnostics' = Append(diagnostics, actor[a].target)
    /\ \/ a \in Handlers /\ UNCHANGED polledAt
       \/ /\ a \in Workers /\ ~KnownOutage(a)
          /\ polledAt' = [polledAt EXCEPT ![actor[a].target] = Len(diagnostics')]
    /\ UNCHANGED <<status, poller, todo, cancelled, latest, overlapped, connectedAt>>

\* The poller between its checks, a signal, a failure elsewhere.
Elsewhere ==
    /\ \/ /\ poller = "waiting" /\ ~cancelled /\ UNCHANGED cancelled
          /\ poller' = "dispatching" /\ todo' = Servers
       \/ todo' = {} /\ UNCHANGED <<poller, cancelled>>
       \/ (\A w \in Workers : actor[w].pc = "idle") /\ poller' = "waiting"
          /\ UNCHANGED <<todo, cancelled>>
       \/ poller = "waiting" /\ poller' = "stopped" /\ UNCHANGED <<todo, cancelled>>
       \/ cancelled' = TRUE /\ UNCHANGED <<poller, todo>>
       \/ UNCHANGED <<poller, todo, cancelled>>
    /\ diagnostics' = diagnostics \/ diagnostics' = Append(diagnostics, NoServer)
    /\ UNCHANGED <<status, actor, auxVars>>

Works(a) ==
    \/ \E s \in Servers : Engages(a, s)
    \/ Reads(a)
    \/ Announces(a)
    \/ \E outcome \in {"ok", "failed"} : Answers(a, outcome)
    \/ Passes(a)
    \/ Connects(a)
    \/ \E ref \in Nat : Fails(a, ref)
    \/ Records(a)

LEMMA EngageEffect ==
    ASSUME TypeInv, NEW a \in Actors, NEW s \in Servers, NEW p \in {"read", "lookup"},
           NEW o \in Operations \union {"check"}, Engage(a, s, p, o)
    PROVE  /\ actor' \in [Actors -> ActorType] /\ OthersStay(a)
           /\ actor'[a].pc = p /\ actor'[a].target = s /\ actor'[a].previous = NotChecked
<1> DEFINE e == [Idle EXCEPT !.pc = p, !.target = s, !.operation = o]
<1>1. e \in ActorType /\ e.pc = p /\ e.target = s /\ e.previous = NotChecked
  BY DEF Idle, ActorType, NotChecked, StatusType
<1>2. actor' = [actor EXCEPT ![a] = e]
  BY DEF Engage
<1> HIDE DEF e
<1> QED
  BY <1>1, <1>2, SetActor

LEMMA ReadEffect ==
    ASSUME TypeInv, NEW w \in Workers, ReadPrevious(w)
    PROVE  actor' \in [Actors -> ActorType] /\ Reads(w)
<1> DEFINE st == status[actor[w].target]
           e == [actor[w] EXCEPT !.pc = "announce", !.previous = st]
<1>1. w \in Actors /\ actor[w] \in ActorType /\ st \in StatusType
  BY DEF TypeInv, TypeOK, ReadPrevious, Actors
<1>2. actor' = [actor EXCEPT ![w] = e]
  BY DEF ReadPrevious
<1>3. st = status[actor[w].target]
  OBVIOUS
<1> HIDE DEF st
<1>4. /\ e \in ActorType /\ e.pc = "announce" /\ e.target = actor[w].target
      /\ e.previous = st
  BY <1>1 DEF ActorType
<1> HIDE DEF e
<1>5. actor' \in [Actors -> ActorType] /\ OthersStay(w) /\ actor'[w] = e
  BY <1>1, <1>2, <1>4, SetActor
<1> QED
  BY <1>3, <1>4, <1>5 DEF ReadPrevious, Reads

LEMMA RecordEffect ==
    ASSUME TypeInv, NEW a \in Actors, NEW n \in Nat,
           actor' = [actor EXCEPT ![a].pc = "mark", ![a].reference = n]
    PROVE  /\ actor' \in [Actors -> ActorType] /\ OthersStay(a)
           /\ actor'[a].pc = "mark" /\ actor'[a].target = actor[a].target
           /\ actor'[a].previous = actor[a].previous /\ actor'[a].reference = n
<1> DEFINE e == [actor[a] EXCEPT !.pc = "mark", !.reference = n]
<1>1. actor[a] \in ActorType
  BY DEF TypeInv, TypeOK
<1>2. /\ e \in ActorType /\ e.pc = "mark" /\ e.target = actor[a].target
      /\ e.previous = actor[a].previous /\ e.reference = n
  BY <1>1 DEF ActorType
<1>3. actor' = [actor EXCEPT ![a] = e]
  OBVIOUS
<1> HIDE DEF e
<1> QED
  BY <1>2, <1>3, SetActor

LEMMA Recorded ==
    ASSUME TypeInv, NEW s \in Servers \union {NoServer}, Record(s)
    PROVE  /\ diagnostics' \in Seq(Servers \union {NoServer})
           /\ diagnostics' = Append(diagnostics, s)
           /\ Len(diagnostics') = Len(diagnostics) + 1 /\ Len(diagnostics') \in Nat
BY DEF TypeInv, TypeOK, Record

LEMMA WorkerEffects ==
    ASSUME TypeInv, NEW w \in Workers, CheckDockerStatus(w)
    PROVE  actor' \in [Actors -> ActorType] /\ Works(w)
<1>1. w \in Actors /\ w \notin Handlers
  BY ConstantsAssumption DEF Actors
<1>2. CASE ReadPrevious(w)
  BY <1>2, ReadEffect DEF Works
<1>3. CASE Announce(w)
  BY <1>1, <1>3, GotoEffect DEF Announce, MarkChecking, Pcs, Announces, Works, auxVars
<1>4. CASE Check(w)
  <2>1. PICK outcome \in {"ok", "failed"} : Answer(w, outcome)
    BY <1>4 DEF Check
  <2>2. actor' \in [Actors -> ActorType] /\ Proceeds(w, outcome)
    BY <1>1, <2>1, GotoEffect DEF Answer, Pcs
  <2>3. Answers(w, outcome)
    BY <1>4, <2>1, <2>2 DEF Check, Answer, Answers
  <2> QED
    BY <2>2, <2>3 DEF Works
<1>5. CASE Drop(w)
  BY <1>1, <1>5, ReturnEffect DEF Drop, Passes, Works
<1>6. CASE ConcludeOk(w)
  BY <1>1, <1>6, ReturnEffect DEF ConcludeOk, MarkConnected, Connects, Works
<1>7. CASE ConcludeKnownOutage(w)
  <2> DEFINE ref == actor[w].previous.reference
  <2>1. ref \in Nat
    BY <1>1 DEF TypeInv, TypeOK, ActorType, StatusType
  <2>2. actor' \in [Actors -> ActorType] /\ Leaves(w)
    BY <1>1, <1>7, ReturnEffect DEF ConcludeKnownOutage
  <2>3. Fails(w, ref)
    BY <1>7, <2>2 DEF ConcludeKnownOutage, MarkUnavailable, Fails, auxVars
  <2> QED
    BY <2>1, <2>2, <2>3 DEF Works
<1>8. CASE RecordOutage(w)
  <2>1. actor[w].target \in Servers
    BY <1>1, <1>8 DEF TypeInv, RecordOutage
  <2>2. diagnostics' = Append(diagnostics, actor[w].target) /\ Len(diagnostics') \in Nat
    BY <1>8, <2>1, Recorded DEF RecordOutage
  <2> DEFINE n == Len(diagnostics')
  <2>3. actor' = [actor EXCEPT ![w].pc = "mark", ![w].reference = n]
    BY <1>8 DEF RecordOutage
  <2>4. n = Len(diagnostics') /\ n \in Nat
    BY <2>2
  <2>5. polledAt' = [polledAt EXCEPT ![actor[w].target] = n]
    BY <1>8 DEF RecordOutage
  <2> HIDE DEF n
  <2>6. /\ actor' \in [Actors -> ActorType] /\ OthersStay(w)
        /\ actor'[w].pc = "mark" /\ actor'[w].target = actor[w].target
        /\ actor'[w].previous = actor[w].previous /\ actor'[w].reference = n
    BY <1>1, <2>3, <2>4, RecordEffect
  <2>7. Records(w)
    BY <1>8, <2>2, <2>4, <2>5, <2>6 DEF RecordOutage, Records
  <2> QED
    BY <2>6, <2>7 DEF Works
<1>9. CASE MarkRecorded(w)
  <2> DEFINE ref == actor[w].reference
  <2>1. ref \in Nat
    BY <1>1 DEF TypeInv, TypeOK, ActorType
  <2>2. actor' \in [Actors -> ActorType] /\ Leaves(w)
    BY <1>1, <1>9, ReturnEffect DEF MarkRecorded
  <2>3. Fails(w, ref)
    BY <1>9, <2>2 DEF MarkRecorded, MarkUnavailable, Fails, auxVars
  <2> QED
    BY <2>1, <2>2, <2>3 DEF Works
<1> QED
  BY <1>2, <1>3, <1>4, <1>5, <1>6, <1>7, <1>8, <1>9 DEF CheckDockerStatus

LEMMA HandlerEffects ==
    ASSUME TypeInv, NEW h \in Handlers, Request(h) \/ HandleRequest(h)
    PROVE  actor' \in [Actors -> ActorType] /\ Works(h)
<1>1. h \in Actors /\ h \notin Workers
  BY ConstantsAssumption DEF Actors
<1>2. CASE Request(h)
  <2>1. PICK s \in Servers, o \in Operations : Engage(h, s, "lookup", o)
    BY <1>2 DEF Request
  <2>2. /\ actor' \in [Actors -> ActorType] /\ OthersStay(h)
        /\ actor'[h].pc = "lookup" /\ actor'[h].target = s /\ actor'[h].previous = NotChecked
    BY <1>1, <2>1, EngageEffect
  <2>3. Engages(h, s)
    BY <1>2, <2>1, <2>2 DEF Request, Engage, Engages
  <2> QED
    BY <2>2, <2>3 DEF Works
<1>3. ASSUME NEW outcome \in {"ok", "failed"}, Answer(h, outcome),
             actor[h].pc \in {"lookup", "call", "summary"},
             UNCHANGED <<status, poller, todo, cancelled, diagnostics>>
      PROVE  actor' \in [Actors -> ActorType] /\ Works(h)
  <2>1. actor' \in [Actors -> ActorType] /\ Proceeds(h, outcome)
    BY <1>1, <1>3, GotoEffect DEF Answer, Pcs
  <2>2. Answers(h, outcome)
    BY <1>1, <1>3, <2>1 DEF Answer, Answers
  <2> QED
    BY <2>1, <2>2 DEF Works
<1>4. CASE Lookup(h)
  <2>1. CASE Goto(h, "call") /\ UNCHANGED auxVars
    BY <1>1, <1>4, <2>1, GotoEffect DEF Lookup, Pcs, Passes, Works
  <2> QED
    BY <1>3, <1>4, <2>1 DEF Lookup
<1>5. CASE CallDocker(h)
  <2>1. CASE Return(h) /\ UNCHANGED auxVars
    BY <1>1, <1>5, <2>1, ReturnEffect DEF CallDocker, Passes, Works
  <2> QED
    BY <1>3, <1>5, <2>1 DEF CallDocker
<1>6. CASE ReportConnected(h)
  <2>1. actor' \in [Actors -> ActorType] /\ (Leaves(h) \/ Proceeds(h, "summary"))
    BY <1>1, <1>6, ReturnEffect, GotoEffect DEF ReportConnected, Pcs
  <2>2. Connects(h)
    BY <1>6, <2>1 DEF ReportConnected, MarkConnected, Connects
  <2> QED
    BY <2>1, <2>2 DEF Works
<1>7. CASE Summary(h)
  <2>1. CASE Return(h) /\ UNCHANGED auxVars
    BY <1>1, <1>7, <2>1, ReturnEffect DEF Summary, Passes, Works
  <2> QED
    BY <1>3, <1>7, <2>1 DEF Summary
<1>8. CASE RecordFailure(h)
  <2>1. actor[h].target \in Servers
    BY <1>1, <1>8 DEF TypeInv, RecordFailure
  <2>2. diagnostics' = Append(diagnostics, actor[h].target) /\ Len(diagnostics') \in Nat
    BY <1>8, <2>1, Recorded DEF RecordFailure
  <2> DEFINE n == Len(diagnostics')
  <2>3. actor' = [actor EXCEPT ![h].pc = "mark", ![h].reference = n]
    BY <1>8 DEF RecordFailure
  <2>4. n = Len(diagnostics') /\ n \in Nat
    BY <2>2
  <2> HIDE DEF n
  <2>6. /\ actor' \in [Actors -> ActorType] /\ OthersStay(h)
        /\ actor'[h].pc = "mark" /\ actor'[h].target = actor[h].target
        /\ actor'[h].previous = actor[h].previous /\ actor'[h].reference = n
    BY <1>1, <2>3, <2>4, RecordEffect
  <2>7. Records(h)
    BY <1>8, <2>2, <2>4, <2>6 DEF RecordFailure, Records, auxVars
  <2> QED
    BY <2>6, <2>7 DEF Works
<1>9. CASE MarkRecorded(h)
  <2> DEFINE ref == actor[h].reference
  <2>1. ref \in Nat
    BY <1>1 DEF TypeInv, TypeOK, ActorType
  <2>2. actor' \in [Actors -> ActorType] /\ Leaves(h)
    BY <1>1, <1>9, ReturnEffect DEF MarkRecorded
  <2>3. Fails(h, ref)
    BY <1>9, <2>2 DEF MarkRecorded, MarkUnavailable, Fails, auxVars
  <2> QED
    BY <2>1, <2>2, <2>3 DEF Works
<1> QED
  BY <1>2, <1>4, <1>5, <1>6, <1>7, <1>8, <1>9 DEF HandleRequest

LEMMA StepEffects ==
    ASSUME TypeInv, [Next]_vars
    PROVE  Elsewhere \/ (actor' \in [Actors -> ActorType] /\ \E a \in Actors : Works(a))
<1>1. ASSUME NEW w \in Workers, NEW s \in Servers, Take(w, s)
      PROVE  actor' \in [Actors -> ActorType] /\ Works(w)
  <2>1. w \in Actors
    BY DEF Actors
  <2>2. Engage(w, s, "read", "check")
    BY <1>1 DEF Take
  <2>3. /\ actor' \in [Actors -> ActorType] /\ OthersStay(w)
        /\ actor'[w].pc = "read" /\ actor'[w].target = s /\ actor'[w].previous = NotChecked
    BY <2>1, <2>2, EngageEffect
  <2>4. Engages(w, s)
    BY <1>1, <2>2, <2>3 DEF Take, Engage, Engages
  <2> QED
    BY <2>3, <2>4 DEF Works
<1>2. StartPoll => Elsewhere
  BY DEF StartPoll, Record, Elsewhere
<1>3. Abandon \/ EndPoll \/ StopPoller \/ Cancel => Elsewhere
  BY DEF Abandon, EndPoll, StopPoller, Cancel, Elsewhere
<1>4. OtherFailure \/ UNCHANGED vars => Elsewhere
  BY DEF OtherFailure, Record, vars, Elsewhere
<1> QED
  BY <1>1, <1>2, <1>3, <1>4, WorkerEffects, HandlerEffects DEF Next, Dispatch, Actors

-----------------------------------------------------------------------------
(* Types                                                                   *)

LEMMA TypeStep == TypeInv /\ [Next]_vars => TypeInv'
<1> SUFFICES ASSUME TypeInv, [Next]_vars PROVE TypeInv'
  OBVIOUS
<1>1. TypeOK
  BY DEF TypeInv
<1>2. CASE Elsewhere
  <2>1. diagnostics' \in Seq(Servers \union {NoServer})
    BY <1>1, <1>2, Recorded DEF TypeOK, Elsewhere, Record
  <2>2. poller' \in {"waiting", "dispatching", "stopped"} /\ todo' \subseteq Servers
        /\ cancelled' \in BOOLEAN
    BY <1>1, <1>2 DEF Elsewhere, TypeOK
  <2>3. UNCHANGED <<status, actor, latest, overlapped, connectedAt, polledAt>>
    BY <1>2 DEF Elsewhere, auxVars
  <2> QED
    BY <1>1, <2>1, <2>2, <2>3 DEF TypeInv, TypeOK
<1>3. ASSUME NEW a \in Actors, Works(a), actor' \in [Actors -> ActorType] PROVE TypeInv'
  <2>1. ASSUME actor'[a].pc = "idle" => actor'[a].target = NoServer,
               actor'[a].pc # "idle" => actor'[a].target \in Servers, OthersStay(a), TypeOK'
        PROVE  TypeInv'
    BY <2>1 DEF TypeInv, OthersStay
  <2>2. actor[a].pc # "idle" => actor[a].target \in Servers
    BY DEF TypeInv
  <2>3. ASSUME NEW p \in Pcs \ {"idle"}, actor[a].pc # "idle", Proceeds(a, p), TypeOK'
        PROVE  TypeInv'
    BY <2>1, <2>2, <2>3 DEF Proceeds
  <2>4. ASSUME Leaves(a), TypeOK' PROVE TypeInv'
    BY <2>1, <2>4 DEF Leaves
  <2>5. ASSUME NEW s \in Servers, Engages(a, s) PROVE TypeInv'
    <3>1. overlapped' \subseteq Servers /\ todo' \subseteq Servers
      BY <1>1, <2>5 DEF Engages, TypeOK
    <3>2. TypeOK'
      BY <1>1, <1>3, <2>5, <3>1 DEF Engages, TypeOK
    <3> QED
      BY <2>1, <2>5, <3>2 DEF Engages
  <2>6. CASE Reads(a)
    <3>1. TypeOK'
      BY <1>1, <1>3, <2>6 DEF Reads, TypeOK, auxVars
    <3> QED
      BY <2>1, <2>2, <2>6, <3>1 DEF Reads
  <2>7. CASE Announces(a)
    <3>1. [state |-> "checking", reference |-> 0] \in StatusType
      BY DEF StatusType
    <3>2. TypeOK'
      BY <1>1, <1>3, <2>7, <3>1 DEF Announces, TypeOK, auxVars
    <3> QED
      BY <2>3, <2>7, <3>2 DEF Announces, Pcs
  <2>8. ASSUME NEW outcome \in {"ok", "failed"}, Answers(a, outcome) PROVE TypeInv'
    <3>1. TypeOK'
      BY <1>1, <1>3, <2>8 DEF Answers, TypeOK
    <3> QED
      BY <2>3, <2>8, <3>1 DEF Answers, Pcs
  <2>9. CASE Passes(a)
    <3>1. TypeOK'
      BY <1>1, <1>3, <2>9 DEF Passes, TypeOK, auxVars
    <3> QED
      BY <2>3, <2>4, <2>9, <3>1 DEF Passes, Pcs
  <2>10. CASE Connects(a)
    <3>1. [state |-> "connected", reference |-> 0] \in StatusType /\ Len(diagnostics) \in Nat
      BY <1>1 DEF StatusType, TypeOK
    <3>2. TypeOK'
      BY <1>1, <1>3, <2>10, <3>1 DEF Connects, TypeOK
    <3> QED
      BY <2>3, <2>4, <2>10, <3>2 DEF Connects, Pcs
  <2>11. ASSUME NEW ref \in Nat, Fails(a, ref) PROVE TypeInv'
    <3>1. [state |-> "unavailable", reference |-> ref] \in StatusType
      BY DEF StatusType
    <3>2. TypeOK'
      BY <1>1, <1>3, <2>11, <3>1 DEF Fails, TypeOK, auxVars
    <3> QED
      BY <2>4, <2>11, <3>2 DEF Fails
  <2>12. CASE Records(a)
    <3>1. diagnostics' \in Seq(Servers \union {NoServer}) /\ Len(diagnostics') \in Nat
      BY <2>2, <2>12, Recorded DEF Records, Record
    <3>2. polledAt' \in [Servers -> Nat]
      BY <1>1, <2>12, <3>1 DEF Records, TypeOK
    <3>3. TypeOK'
      BY <1>1, <1>3, <2>12, <3>1, <3>2 DEF Records, TypeOK
    <3> QED
      BY <2>1, <2>2, <2>12, <3>3 DEF Records
  <2> QED
    BY <1>3, <2>5, <2>6, <2>7, <2>8, <2>9, <2>10, <2>11, <2>12 DEF Works
<1> QED
  BY <1>2, <1>3, StepEffects

LEMMA TypeInit == Init => TypeInv
<1>1. NotChecked \in StatusType
  BY DEF NotChecked, StatusType
<1>2. <<>> \in Seq(Servers \union {NoServer})
  OBVIOUS
<1> SUFFICES ASSUME Init PROVE TypeInv
  OBVIOUS
<1>3. diagnostics \in Seq(Servers \union {NoServer})
  BY <1>2 DEF Init
<1>4. /\ actor \in [Actors -> ActorType]
      /\ \A a \in Actors : actor[a].pc = "idle" /\ actor[a].target = NoServer
  BY IdleType DEF Init
<1>5. status \in [Servers -> StatusType]
  BY <1>1 DEF Init
<1>6. /\ poller \in {"waiting", "dispatching", "stopped"}
      /\ todo \subseteq Servers /\ cancelled \in BOOLEAN
      /\ latest \in [Servers -> {"none", "ok", "failed"}]
      /\ overlapped \subseteq Servers
  BY DEF Init
<1>7. connectedAt \in [Servers -> Nat] /\ polledAt \in [Servers -> Nat]
  BY DEF Init
<1> QED
  BY <1>3, <1>4, <1>5, <1>6, <1>7 DEF TypeInv, TypeOK

LEMMA TypeHolds == Spec => []TypeInv
BY TypeInit, TypeStep, PTL DEF Spec

\* The cache, the poller and every call keep their types.
THEOREM TypeCorrect == Spec => []TypeOK
<1>1. TypeInv => TypeOK
  BY DEF TypeInv
<1> QED
  BY <1>1, TypeHolds, PTL


-----------------------------------------------------------------------------
(* The poller and its workers                                              *)

LEMMA PollStep == TypeInv /\ PollOwnsItsChecks /\ [Next]_vars => PollOwnsItsChecks'
<1> SUFFICES ASSUME TypeInv, PollOwnsItsChecks, [Next]_vars PROVE PollOwnsItsChecks'
  OBVIOUS
<1>1. \A w \in Workers : w \in Actors /\ w \notin Handlers
  BY ConstantsAssumption DEF Actors
<1>2. CASE Elsewhere
  <2>1. poller = "waiting" => \A w \in Workers : actor[w].pc = "idle"
    BY DEF PollOwnsItsChecks
  <2> QED
    BY <1>2, <2>1 DEF Elsewhere, PollOwnsItsChecks
<1>3. ASSUME NEW a \in Actors, Works(a) PROVE PollOwnsItsChecks'
  <2>1. ASSUME OthersStay(a), UNCHANGED <<poller, todo>>,
               \/ actor'[a].pc = "idle"
               \/ actor[a].pc # "idle" /\ actor'[a].target = actor[a].target
        PROVE  PollOwnsItsChecks'
    BY <1>1, <2>1 DEF PollOwnsItsChecks, OthersStay
  <2>2. ASSUME NEW s \in Servers, Engages(a, s) PROVE PollOwnsItsChecks'
    <3>1. CASE a \in Handlers /\ UNCHANGED <<poller, todo>>
      BY <1>1, <2>2, <3>1 DEF Engages, PollOwnsItsChecks, OthersStay
    <3>2. CASE a \in Workers /\ poller = "dispatching" /\ s \in todo /\ todo' = todo \ {s}
               /\ poller' = poller
      BY <1>1, <2>2, <3>2 DEF Engages, PollOwnsItsChecks, OthersStay
    <3> QED
      BY <2>2, <3>1, <3>2 DEF Engages
  <2>3. CASE Reads(a)
    BY <2>1, <2>3 DEF Reads
  <2>4. CASE Announces(a)
    BY <2>1, <2>4 DEF Announces, Proceeds
  <2>5. ASSUME NEW outcome \in {"ok", "failed"}, Answers(a, outcome) PROVE PollOwnsItsChecks'
    BY <2>1, <2>5 DEF Answers, Proceeds
  <2>6. CASE Passes(a)
    BY <2>1, <2>6 DEF Passes, Proceeds, Leaves
  <2>7. CASE Connects(a)
    BY <2>1, <2>7 DEF Connects, Proceeds, Leaves
  <2>8. ASSUME NEW ref \in Nat, Fails(a, ref) PROVE PollOwnsItsChecks'
    BY <2>1, <2>8 DEF Fails, Leaves
  <2>9. CASE Records(a)
    BY <2>1, <2>9 DEF Records
  <2> QED
    BY <1>3, <2>2, <2>3, <2>4, <2>5, <2>6, <2>7, <2>8, <2>9 DEF Works
<1> QED
  BY <1>2, <1>3, StepEffects

\* For any number of servers and workers: no check outlives its poll, and no two
\* workers check one server.
THEOREM PollOwnsItsChecksHolds == Spec => []PollOwnsItsChecks
<1>1. Init => PollOwnsItsChecks
  BY IdleType DEF Init, PollOwnsItsChecks, Actors
<1> QED
  BY <1>1, PollStep, TypeHolds, PTL DEF Spec

-----------------------------------------------------------------------------
(* References                                                              *)

\* A status that says "unavailable" of s names a diagnostic about s.
Explained(st, s) ==
    st.state = "unavailable" =>
        st.reference \in DOMAIN diagnostics /\ diagnostics[st.reference] = s

\* So do the copies that workers keep, and the references about to be marked.
ExplainInv ==
    /\ \A s \in Servers : Explained(status[s], s)
    /\ \A a \in Actors : actor[a].pc # "idle" =>
          /\ Explained(actor[a].previous, actor[a].target)
          /\ actor[a].pc = "mark" =>
                /\ actor[a].reference \in DOMAIN diagnostics
                /\ diagnostics[actor[a].reference] = actor[a].target

LEMMA Appending ==
    ASSUME TypeInv, NEW x \in Servers \union {NoServer}, diagnostics' = Append(diagnostics, x)
    PROVE  /\ Len(diagnostics) \in Nat /\ Len(diagnostics') = Len(diagnostics) + 1
           /\ Len(diagnostics') \in DOMAIN diagnostics' /\ diagnostics'[Len(diagnostics')] = x
           /\ \A n \in DOMAIN diagnostics :
                 n \in DOMAIN diagnostics' /\ diagnostics'[n] = diagnostics[n]
BY DEF TypeInv, TypeOK

LEMMA ExplainStep == TypeInv /\ ExplainInv /\ [Next]_vars => ExplainInv'
<1> SUFFICES ASSUME TypeInv, ExplainInv, [Next]_vars PROVE ExplainInv'
  OBVIOUS
<1>1. ASSUME \A n \in DOMAIN diagnostics :
                n \in DOMAIN diagnostics' /\ diagnostics'[n] = diagnostics[n],
             NEW st, NEW s, Explained(st, s)
      PROVE  st.state = "unavailable" =>
                 st.reference \in DOMAIN diagnostics' /\ diagnostics'[st.reference] = s
  BY <1>1 DEF Explained
<1>2. CASE Elsewhere
  <2>1. \A n \in DOMAIN diagnostics :
            n \in DOMAIN diagnostics' /\ diagnostics'[n] = diagnostics[n]
    BY <1>2, Appending DEF Elsewhere
  <2> QED
    BY <1>2, <2>1 DEF Elsewhere, ExplainInv, Explained
<1>3. ASSUME NEW a \in Actors, Works(a) PROVE ExplainInv'
  <2>1. TypeOK /\ (actor[a].pc # "idle" => actor[a].target \in Servers)
    BY DEF TypeInv
  <2>2. ASSUME OthersStay(a), diagnostics' = diagnostics,
               \A s \in Servers : status'[s] = status[s] \/ Explained(status'[s], s),
               \/ actor'[a].pc = "idle"
               \/ /\ actor'[a].pc # "mark"
                  /\ Explained(actor'[a].previous, actor'[a].target)
        PROVE  ExplainInv'
    <3>1. \A s \in Servers : Explained(status'[s], s)
      BY <2>2 DEF ExplainInv
    <3> QED
      BY <2>2, <3>1 DEF ExplainInv, Explained, OthersStay
  <2>3. ASSUME NEW st, NEW s, st.state # "unavailable" PROVE Explained(st, s)
    BY <2>3 DEF Explained
  <2>4. ASSUME NEW st, status' = [status EXCEPT ![actor[a].target] = st],
               Explained(st, actor[a].target)
        PROVE  \A s \in Servers : status'[s] = status[s] \/ Explained(status'[s], s)
    BY <2>1, <2>4 DEF TypeOK
  <2>5. ASSUME NEW p \in Pcs \ {"mark"}, actor[a].pc # "idle", Proceeds(a, p)
        PROVE  actor'[a].pc # "mark" /\ Explained(actor'[a].previous, actor'[a].target)
    BY <2>5 DEF Proceeds, ExplainInv
  <2>6. ASSUME NEW s \in Servers, Engages(a, s) PROVE ExplainInv'
    <3>1. Explained(NotChecked, s)
      BY DEF Explained, NotChecked
    <3> QED
      BY <2>2, <2>6, <3>1 DEF Engages
  <2>7. CASE Reads(a)
    <3>1. Explained(status[actor[a].target], actor[a].target)
      BY <2>1, <2>7 DEF Reads, ExplainInv
    <3> QED
      BY <2>2, <2>7, <3>1 DEF Reads
  <2>8. CASE Announces(a)
    <3>1. Explained([state |-> "checking", reference |-> 0], actor[a].target)
      BY <2>3
    <3> QED
      BY <2>2, <2>4, <2>5, <2>8, <3>1 DEF Announces, Proceeds, Pcs
  <2>9. ASSUME NEW outcome \in {"ok", "failed"}, Answers(a, outcome) PROVE ExplainInv'
    BY <2>2, <2>5, <2>9 DEF Answers, Proceeds, Pcs
  <2>10. CASE Passes(a)
    BY <2>2, <2>5, <2>10 DEF Passes, Proceeds, Leaves, Pcs
  <2>11. CASE Connects(a)
    <3>1. Explained([state |-> "connected", reference |-> 0], actor[a].target)
      BY <2>3
    <3> QED
      BY <2>2, <2>4, <2>5, <2>11, <3>1 DEF Connects, Proceeds, Leaves, Pcs
  <2>12. ASSUME NEW ref \in Nat, Fails(a, ref) PROVE ExplainInv'
    <3>1. ref \in DOMAIN diagnostics /\ diagnostics[ref] = actor[a].target
      BY <2>12 DEF Fails, KnownOutage, ExplainInv, Explained
    <3>2. Explained([state |-> "unavailable", reference |-> ref], actor[a].target)
      BY <3>1 DEF Explained
    <3> QED
      BY <2>2, <2>4, <2>12, <3>2 DEF Fails, Leaves
  <2>13. CASE Records(a)
    <3>1. /\ Len(diagnostics') \in DOMAIN diagnostics'
          /\ diagnostics'[Len(diagnostics')] = actor[a].target
          /\ \A n \in DOMAIN diagnostics :
                n \in DOMAIN diagnostics' /\ diagnostics'[n] = diagnostics[n]
      BY <2>1, <2>13, Appending DEF Records
    <3>3. \A b \in Actors : actor'[b].pc # "idle" =>
             Explained(actor[b].previous, actor[b].target)'
      BY <2>13, <3>1 DEF Records, ExplainInv, Explained, OthersStay
    <3>4. \A b \in Actors : actor'[b].pc = "mark" =>
             /\ actor'[b].reference \in DOMAIN diagnostics'
             /\ diagnostics'[actor'[b].reference] = actor'[b].target
      BY <2>13, <3>1 DEF Records, ExplainInv, OthersStay
    <3>5. \A s \in Servers : Explained(status[s], s)'
      BY <2>13, <3>1 DEF Records, ExplainInv, Explained
    <3> QED
      BY <3>3, <3>4, <3>5 DEF ExplainInv
  <2> QED
    BY <1>3, <2>6, <2>7, <2>8, <2>9, <2>10, <2>11, <2>12, <2>13 DEF Works
<1> QED
  BY <1>2, <1>3, StepEffects

\* For any number of pollers' workers and handlers at once: "Docker unavailable"
\* names a diagnostic of that very server.
THEOREM UnavailableIsExplainedHolds == Spec => []UnavailableIsExplained
<1>1. Init => ExplainInv
  BY IdleType DEF Init, ExplainInv, Explained, NotChecked
<1>2. ExplainInv => UnavailableIsExplained
  BY DEF ExplainInv, Explained, UnavailableIsExplained
<1> QED
  BY <1>1, <1>2, ExplainStep, TypeHolds, PTL DEF Spec


-----------------------------------------------------------------------------
(* Outages                                                                 *)

\* "checking" is there only while a worker checks, or after a cancelled poll.
Concluding == {"check", "ok", "failed", "mark"}

Attended(s) ==
    /\ s \in todo => status[s].state # "checking"
    /\ \A w \in Workers :
          actor[w].target = s /\ actor[w].pc = "read" => status[s].state # "checking"
    /\ ~cancelled /\ status[s].state = "checking" =>
          \E w \in Workers : actor[w].target = s /\ actor[w].pc \in Concluding

AttendedInv == \A s \in Servers : Attended(s)

LEMMA AttendedStep ==
    TypeInv /\ PollOwnsItsChecks /\ AttendedInv /\ [Next]_vars => AttendedInv'
<1> SUFFICES ASSUME TypeInv, PollOwnsItsChecks, AttendedInv, [Next]_vars, NEW s \in Servers
             PROVE  Attended(s)'
  BY DEF AttendedInv
<1>1. /\ \A w \in Workers : w \in Actors /\ w \notin Handlers
      /\ TypeOK /\ Attended(s)
  BY ConstantsAssumption DEF Actors, TypeInv, AttendedInv
<1>2. CASE Elsewhere
  <2>1. poller = "waiting" => \A w \in Workers : actor[w].pc = "idle"
    BY DEF PollOwnsItsChecks
  <2>2. poller = "waiting" /\ ~cancelled => status[s].state # "checking"
    BY <1>1, <2>1 DEF Attended, Concluding
  <2> QED
    BY <1>1, <1>2, <2>1, <2>2 DEF Elsewhere, Attended
<1>3. ASSUME NEW a \in Actors, Works(a) PROVE Attended(s)'
  <2>1. actor[a].pc # "idle" => actor[a].target \in Servers
    BY DEF TypeInv
  \* a's server gets another status than "checking".
  <2>2. ASSUME NEW st, st.state # "checking", OthersStay(a), UNCHANGED <<todo, cancelled>>,
               actor[a].pc # "idle", status' = [status EXCEPT ![actor[a].target] = st],
               actor'[a].pc \in {"idle", "summary"}
        PROVE  Attended(s)'
    <3>1. CASE s = actor[a].target
      <4>1. status'[s].state # "checking"
        BY <1>1, <2>2, <3>1 DEF TypeOK
      <4> QED
        BY <4>1 DEF Attended
    <3>2. CASE s # actor[a].target
      <4>1. status'[s] = status[s]
        BY <1>1, <2>2, <3>2 DEF TypeOK
      <4> QED
        BY <1>1, <2>2, <3>2, <4>1 DEF Attended, OthersStay
    <3> QED
      BY <3>1, <3>2
  \* The table and the poller stay, and a goes on.
  <2>3. ASSUME OthersStay(a), UNCHANGED <<status, todo, cancelled>>, actor[a].pc # "idle",
               actor'[a].target = actor[a].target, actor'[a].pc # "read",
               actor[a].pc \in Concluding => a \in Handlers \/ actor'[a].pc \in Concluding
        PROVE  Attended(s)'
    <3>1. ASSUME NEW w \in Workers, actor[w].target = s, actor[w].pc \in Concluding
          PROVE  actor'[w].target = s /\ actor'[w].pc \in Concluding
      BY <1>1, <2>3, <3>1 DEF OthersStay
    <3>2. \A w \in Workers : actor'[w].target = s /\ actor'[w].pc = "read" =>
             actor[w].target = s /\ actor[w].pc = "read"
      BY <1>1, <2>3 DEF OthersStay
    <3> QED
      BY <1>1, <2>3, <3>1, <3>2 DEF Attended
  <2>4. ASSUME NEW r \in Servers, Engages(a, r) PROVE Attended(s)'
    <3>1. ASSUME NEW w \in Workers, actor[w].target = s, actor[w].pc \in Concluding
          PROVE  actor'[w].target = s /\ actor'[w].pc \in Concluding
      BY <1>1, <2>4, <3>1 DEF OthersStay, Engages, Concluding
    <3>2. ASSUME NEW w \in Workers, actor'[w].target = s, actor'[w].pc = "read"
          PROVE  status[s].state # "checking"
      BY <1>1, <2>4, <3>2 DEF OthersStay, Engages, Attended
    <3>3. /\ s \in todo' => s \in todo
          /\ cancelled' = cancelled /\ status' = status
      BY <2>4 DEF Engages
    <3> QED
      BY <1>1, <3>1, <3>2, <3>3 DEF Attended
  <2>5. CASE Reads(a)
    BY <2>3, <2>5 DEF Reads, Concluding
  <2>6. CASE Announces(a)
    <3>1. CASE s = actor[a].target
      <4>1. s \notin todo /\ \A w \in Workers : actor[w].pc # "idle" /\ actor[w].target = s => w = a
        BY <2>6, <3>1 DEF Announces, PollOwnsItsChecks
      <4>2. \A w \in Workers : actor'[w].target = s => actor'[w].pc # "read"
        BY <1>1, <2>6, <3>1, <4>1 DEF Announces, Proceeds, OthersStay
      <4>3. a \in Workers /\ actor'[a].target = s /\ actor'[a].pc \in Concluding
        BY <2>6, <3>1 DEF Announces, Proceeds, Concluding
      <4>4. s \notin todo'
        BY <2>6, <4>1 DEF Announces
      <4> QED
        BY <4>2, <4>3, <4>4 DEF Attended
    <3>2. CASE s # actor[a].target
      <4>1. status'[s] = status[s] /\ UNCHANGED <<todo, cancelled>>
        BY <1>1, <2>6, <3>2 DEF Announces, TypeOK
      <4> QED
        BY <1>1, <2>6, <3>2, <4>1 DEF Announces, Proceeds, OthersStay, Attended
    <3> QED
      BY <3>1, <3>2
  <2>7. ASSUME NEW outcome \in {"ok", "failed"}, Answers(a, outcome) PROVE Attended(s)'
    BY <2>3, <2>7 DEF Answers, Proceeds, Concluding
  <2>8. CASE Passes(a)
    <3>1. CASE a \in Handlers
      <4>1. \A w \in Workers : actor'[w] = actor[w]
        BY <1>1, <2>8, <3>1 DEF Passes, Proceeds, Leaves, OthersStay
      <4> QED
        BY <1>1, <2>8, <4>1 DEF Passes, Attended
    <3>2. CASE cancelled /\ Leaves(a)
      BY <1>1, <2>8, <3>2 DEF Passes, Leaves, OthersStay, Attended
    <3> QED
      BY <2>8, <3>1, <3>2 DEF Passes
  <2>9. CASE Connects(a)
    <3>1. [state |-> "connected", reference |-> 0].state # "checking"
      OBVIOUS
    <3> QED
      BY <2>2, <2>9, <3>1 DEF Connects, Proceeds, Leaves
  <2>10. ASSUME NEW ref \in Nat, Fails(a, ref) PROVE Attended(s)'
    <3>1. [state |-> "unavailable", reference |-> ref].state # "checking"
      OBVIOUS
    <3> QED
      BY <2>2, <2>10, <3>1 DEF Fails, Leaves
  <2>11. CASE Records(a)
    BY <2>3, <2>11 DEF Records, Concluding
  <2> QED
    BY <1>3, <2>4, <2>5, <2>6, <2>7, <2>8, <2>9, <2>10, <2>11 DEF Works
<1> QED
  BY <1>2, <1>3, StepEffects


\* A status that says that an outage has been recorded.
Known(st) == st.state = "unavailable" /\ st.reference # 0

\* While the last diagnostic that a worker recorded of s is newer than its last
\* success, the status tells of it, or will: a worker that is going to fail knows.
Outage(s) ==
    /\ polledAt[s] <= Len(diagnostics)
    /\ polledAt[s] > connectedAt[s] =>
          /\ \/ \E w \in Workers : actor[w].target = s /\ actor[w].pc = "mark"
             \/ status[s].state = "checking"
             \/ Known(status[s])
          /\ \A w \in Workers :
                actor[w].target = s /\ actor[w].pc \in {"announce", "check", "failed"} =>
                    Known(actor[w].previous)

OutageInv ==
    /\ PollOwnsItsChecks
    /\ AttendedInv
    /\ ExplainInv
    /\ \A s \in Servers : Outage(s)

LEMMA OutageStep == TypeInv /\ OutageInv /\ [Next]_vars => OutageInv'
<1> SUFFICES ASSUME TypeInv, OutageInv, [Next]_vars, NEW s \in Servers PROVE Outage(s)'
  BY PollStep, AttendedStep, ExplainStep DEF OutageInv
<1>1. /\ \A w \in Workers : w \in Actors /\ w \notin Handlers
      /\ TypeOK /\ Outage(s) /\ Attended(s) /\ PollOwnsItsChecks
      /\ Len(diagnostics) \in Nat /\ polledAt[s] \in Nat /\ connectedAt[s] \in Nat
  BY ConstantsAssumption DEF Actors, TypeInv, TypeOK, OutageInv, AttendedInv
<1>2. CASE Elsewhere
  <2>1. Len(diagnostics') >= Len(diagnostics) /\ Len(diagnostics') \in Nat
    BY <1>1, <1>2, Appending DEF Elsewhere
  <2>2. polledAt'[s] = polledAt[s] /\ polledAt'[s] <= Len(diagnostics')
    BY <1>1, <1>2, <2>1 DEF Elsewhere, auxVars, Outage
  <2> QED
    BY <1>1, <1>2, <2>2 DEF Elsewhere, auxVars, Outage
<1>3. ASSUME NEW a \in Actors, Works(a) PROVE Outage(s)'
  <2>1. actor[a].pc # "idle" => actor[a].target \in Servers
    BY DEF TypeInv
  <2>2. \A v, w \in Workers :
            actor[v].pc # "idle" /\ actor[v].target = s
            /\ actor[w].pc # "idle" /\ actor[w].target = s => v = w
    <3>1. PollOwnsItsChecks
      BY DEF OutageInv
    <3> QED
      BY <3>1 DEF PollOwnsItsChecks
  \* The history stays, and so do the workers that are about to mark s.
  <2>3. ASSUME OthersStay(a), UNCHANGED <<status, diagnostics, connectedAt, polledAt>>,
               actor[a].pc = "mark" => a \in Handlers,
               a \in Workers => \/ actor'[a].target # s
                                \/ actor'[a].pc \notin {"announce", "check", "failed"}
                                \/ polledAt[s] > connectedAt[s] => Known(actor'[a].previous)
        PROVE  Outage(s)'
    <3>1. ASSUME NEW w \in Workers, actor[w].target = s, actor[w].pc = "mark"
          PROVE  actor'[w].target = s /\ actor'[w].pc = "mark"
      BY <1>1, <2>3, <3>1 DEF OthersStay
    <3>2. ASSUME NEW w \in Workers, polledAt[s] > connectedAt[s], actor'[w].target = s,
                 actor'[w].pc \in {"announce", "check", "failed"}
          PROVE  Known(actor'[w].previous)
      BY <1>1, <2>3, <3>2 DEF OthersStay, Outage
    <3> QED
      BY <1>1, <2>3, <3>1, <3>2 DEF Outage
  \* Work on another server.
  <2>4. ASSUME OthersStay(a), actor[a].pc # "idle", actor[a].target # s, actor'[a].target # s,
               status'[s] = status[s], polledAt'[s] = polledAt[s],
               connectedAt'[s] = connectedAt[s], polledAt'[s] <= Len(diagnostics')
        PROVE  Outage(s)'
    <3>1. \A w \in Workers : actor[w].target = s => actor'[w] = actor[w]
      BY <1>1, <2>4 DEF OthersStay
    <3>2. \A w \in Workers : actor'[w].target = s => actor'[w] = actor[w]
      BY <1>1, <2>4 DEF OthersStay
    <3> QED
      BY <2>4, <3>1, <3>2, <1>1 DEF Outage
  <2>5. NoServer # s
    BY ConstantsAssumption
  <2>6. ASSUME NEW r \in Servers, Engages(a, r) PROVE Outage(s)'
    BY <2>3, <2>6 DEF Engages
  <2>7. CASE Reads(a)
    <3>1. ASSUME actor[a].target = s, polledAt[s] > connectedAt[s] PROVE Known(status[s])
      <4>1. status[s].state # "checking"
        BY <1>1, <2>7, <3>1 DEF Reads, Attended
      <4>2. ~\E w \in Workers : actor[w].target = s /\ actor[w].pc = "mark"
        BY <2>2, <2>7, <3>1 DEF Reads
      <4> QED
        BY <1>1, <3>1, <4>1, <4>2 DEF Outage
    <3>2. UNCHANGED <<status, diagnostics, connectedAt, polledAt>> /\ actor[a].pc = "read"
          /\ OthersStay(a)
      BY <2>7 DEF Reads, auxVars
    <3>3. actor'[a].target = s /\ polledAt[s] > connectedAt[s] => Known(actor'[a].previous)
      BY <2>7, <3>1 DEF Reads
    <3> QED
      BY <2>3, <3>2, <3>3
  <2>8. CASE Announces(a)
    <3>1. CASE actor[a].target = s
      <4>1. /\ status'[s].state = "checking"
            /\ UNCHANGED <<diagnostics, connectedAt, polledAt>>
        BY <1>1, <2>8, <3>1 DEF Announces, TypeOK, auxVars
      <4>2. ASSUME NEW w \in Workers, polledAt[s] > connectedAt[s], actor'[w].target = s,
                   actor'[w].pc \in {"announce", "check", "failed"}
            PROVE  Known(actor'[w].previous)
        BY <1>1, <2>8, <4>2 DEF Announces, Proceeds, OthersStay, Outage
      <4> QED
        BY <1>1, <4>1, <4>2 DEF Outage
    <3>2. CASE actor[a].target # s
      <4>1. status'[s] = status[s] /\ UNCHANGED <<diagnostics, connectedAt, polledAt>>
        BY <1>1, <2>8, <3>2 DEF Announces, TypeOK, auxVars
      <4> QED
        BY <1>1, <2>4, <2>8, <3>2, <4>1 DEF Announces, Proceeds, Outage
    <3> QED
      BY <3>1, <3>2
  <2>9. ASSUME NEW outcome \in {"ok", "failed"}, Answers(a, outcome) PROVE Outage(s)'
    <3>1. OthersStay(a) /\ UNCHANGED <<status, diagnostics, connectedAt, polledAt>>
          /\ actor[a].pc # "mark"
      BY <2>9 DEF Answers, Proceeds
    <3>2. a \in Workers /\ actor'[a].target = s /\ polledAt[s] > connectedAt[s] =>
             Known(actor'[a].previous)
      BY <1>1, <2>9 DEF Answers, Proceeds, Outage
    <3> QED
      BY <2>3, <3>1, <3>2
  <2>10. CASE Passes(a)
    <3>1. OthersStay(a) /\ UNCHANGED <<status, diagnostics, connectedAt, polledAt>>
          /\ actor[a].pc # "mark" /\ (a \in Workers => actor'[a].pc = "idle")
      BY <1>1, <2>10 DEF Passes, Proceeds, Leaves, auxVars
    <3> QED
      BY <2>3, <3>1
  <2>11. CASE Connects(a)
    <3>1. CASE actor[a].target = s
      <4>1. connectedAt'[s] = Len(diagnostics) /\ UNCHANGED <<diagnostics, polledAt>>
        BY <1>1, <2>11, <3>1 DEF Connects, TypeOK
      <4> QED
        BY <1>1, <4>1 DEF Outage
    <3>2. CASE actor[a].target # s
      <4>1. /\ status'[s] = status[s] /\ connectedAt'[s] = connectedAt[s]
            /\ UNCHANGED <<diagnostics, polledAt>>
        BY <1>1, <2>11, <3>2 DEF Connects, TypeOK
      <4>2. OthersStay(a) /\ actor'[a].target # s /\ actor[a].pc # "idle"
        BY <2>5, <2>11, <3>2 DEF Connects, Proceeds, Leaves
      <4> QED
        BY <1>1, <2>4, <3>2, <4>1, <4>2 DEF Outage
    <3> QED
      BY <3>1, <3>2
  <2>12. ASSUME NEW ref \in Nat, Fails(a, ref) PROVE Outage(s)'
    <3>1. UNCHANGED <<diagnostics, connectedAt, polledAt>> /\ Leaves(a) /\ actor[a].pc # "idle"
      BY <2>12 DEF Fails, auxVars
    <3>2. CASE actor[a].target = s
      <4>1. ref # 0
        <5>1. CASE actor[a].pc = "mark"
          <6>1. ref \in DOMAIN diagnostics
            BY <2>12, <5>1 DEF Fails, OutageInv, ExplainInv
          <6> QED
            BY <1>1, <6>1 DEF TypeOK
        <5> QED
          BY <2>12, <5>1 DEF Fails, KnownOutage
      <4>2. status'[s] = [state |-> "unavailable", reference |-> ref]
        BY <1>1, <2>12, <3>2 DEF Fails, TypeOK
      <4>3. Known(status'[s])
        BY <4>1, <4>2 DEF Known
      <4>4. ASSUME NEW w \in Workers, polledAt[s] > connectedAt[s], actor'[w].target = s,
                   actor'[w].pc \in {"announce", "check", "failed"}
            PROVE  Known(actor'[w].previous)
        BY <1>1, <3>1, <4>4 DEF Leaves, OthersStay, Outage
      <4> QED
        BY <1>1, <3>1, <4>3, <4>4 DEF Outage
    <3>3. CASE actor[a].target # s
      <4>1. status'[s] = status[s]
        BY <1>1, <2>12, <3>3 DEF Fails, TypeOK
      <4> QED
        BY <1>1, <2>4, <2>5, <3>1, <3>3, <4>1 DEF Leaves, Outage
    <3> QED
      BY <3>2, <3>3
  <2>13. CASE Records(a)
    <3>1. /\ Len(diagnostics') = Len(diagnostics) + 1
          /\ status' = status /\ connectedAt' = connectedAt /\ OthersStay(a)
          /\ actor[a].pc # "idle" /\ actor'[a].pc = "mark" /\ actor'[a].target = actor[a].target
      BY <2>1, <2>13, Appending DEF Records
    <3>2. CASE actor[a].target = s /\ a \in Workers
      <4>1. polledAt'[s] = Len(diagnostics')
        BY <1>1, <2>13, <3>2 DEF Records, TypeOK
      <4>2. \A w \in Workers : actor'[w].target = s =>
               actor'[w].pc \notin {"announce", "check", "failed"}
        BY <1>1, <2>2, <3>1, <3>2 DEF OthersStay
      <4> QED
        BY <1>1, <3>1, <3>2, <4>1, <4>2 DEF Outage
    <3>3. CASE actor[a].target # s
      <4>1. polledAt'[s] = polledAt[s]
        BY <1>1, <2>13, <3>3 DEF Records, TypeOK
      <4> QED
        BY <1>1, <2>4, <3>1, <3>3, <4>1 DEF Outage
    <3>4. CASE a \notin Workers
      <4>1. polledAt'[s] = polledAt[s] /\ \A w \in Workers : actor'[w] = actor[w]
        BY <1>1, <2>13, <3>1, <3>4 DEF Records, OthersStay
      <4> QED
        BY <1>1, <3>1, <4>1 DEF Outage
    <3> QED
      BY <3>2, <3>3, <3>4
  <2> QED
    BY <1>3, <2>6, <2>7, <2>8, <2>9, <2>10, <2>11, <2>12, <2>13 DEF Works
<1> QED
  BY <1>2, <1>3, StepEffects

LEMMA OutageHolds == Spec => [](TypeInv /\ OutageInv)
<1>1. Init => OutageInv
  <2> SUFFICES ASSUME Init PROVE OutageInv
    OBVIOUS
  <2>1. /\ \A w \in Workers : actor[w].pc = "idle"
        /\ \A s \in Servers : status[s] = NotChecked /\ polledAt[s] = 0 /\ connectedAt[s] = 0
        /\ diagnostics = <<>> /\ \A a \in Actors : actor[a] = Idle
    BY IdleType DEF Init, Actors
  <2>2. PollOwnsItsChecks
    BY <2>1 DEF PollOwnsItsChecks
  <2>3. AttendedInv
    BY <2>1 DEF AttendedInv, Attended, NotChecked
  <2>4. ExplainInv
    BY <2>1, IdleType DEF ExplainInv, Explained, NotChecked
  <2>5. \A s \in Servers : Outage(s)
    BY <2>1 DEF Outage
  <2> QED
    BY <2>2, <2>3, <2>4, <2>5 DEF OutageInv
<1> QED
  BY <1>1, OutageStep, TypeHolds, PTL DEF Spec

\* While the poller is not cancelled a status "checking" is never left behind:
\* the worker that wrote it is about to conclude it, and no worker will restore
\* it as the status it read before.  What ChecksConclude needs beside fairness.
\* (pollDockerStatuses and
\* checkDockerStatus.)
THEOREM CheckingIsAttended == Spec => []AttendedInv
<1>1. OutageInv => AttendedInv
  BY DEF OutageInv
<1> QED
  BY <1>1, OutageHolds, PTL

\* For any number of workers and handlers: between two diagnostics that workers
\* record of one server somebody found it connected.
THEOREM OneDiagnosticPerOutageHolds == Spec => OneDiagnosticPerOutage
<1> DEFINE A == \A s \in Servers :
                   polledAt'[s] # polledAt[s] /\ polledAt[s] # 0 => connectedAt[s] >= polledAt[s]
<1>1. TypeInv /\ OutageInv /\ [Next]_vars => [A]_vars
  <2> SUFFICES ASSUME TypeInv, OutageInv, [Next]_vars, NEW s \in Servers,
                      polledAt'[s] # polledAt[s]
               PROVE  connectedAt[s] >= polledAt[s]
    OBVIOUS
  <2>1. ~Elsewhere
    BY DEF Elsewhere, auxVars
  <2>2. PICK a \in Actors : Works(a)
    BY <2>1, StepEffects
  <2>3. Records(a) /\ a \in Workers /\ ~KnownOutage(a)
    BY <2>2 DEF Works, Engages, Reads, Announces, Answers, Passes, Connects, Fails, Records, auxVars
  <2>4. actor[a].target = s /\ actor[a].pc = "failed" /\ ~Known(actor[a].previous)
    BY <2>3 DEF Records, TypeInv, TypeOK, KnownOutage, Known
  <2>5. ~(polledAt[s] > connectedAt[s]) /\ polledAt[s] \in Nat /\ connectedAt[s] \in Nat
    BY <2>3, <2>4 DEF OutageInv, Outage, TypeInv, TypeOK
  <2> QED
    BY <2>5
<1> QED
  BY <1>1, OutageHolds, PTL DEF Spec, OneDiagnosticPerOutage


-----------------------------------------------------------------------------
(* Uncontested servers                                                     *)

\* Of a server that nobody works on beside a: the status agrees with the last check,
\* but for a's mark that is still due.
Uncontested(s) ==
    /\ \A a, b \in Actors : actor[a].target = s /\ actor[b].target = s => a = b
    /\ \A a \in Actors : actor[a].target = s =>
          /\ actor[a].pc = "ok" => latest[s] = "ok"
          /\ actor[a].pc \in {"failed", "mark"} => latest[s] = "failed"
    /\ (\A a \in Actors : actor[a].target = s => actor[a].pc \notin {"ok", "failed", "mark"}) =>
          Agrees(s)

SequentialInv == \A s \in Servers \ overlapped : Uncontested(s)

LEMMA SequentialStep == TypeInv /\ SequentialInv /\ [Next]_vars => SequentialInv'
<1> SUFFICES ASSUME TypeInv, SequentialInv, [Next]_vars, NEW s \in Servers, s \notin overlapped'
             PROVE  Uncontested(s)'
  BY DEF SequentialInv
<1>1. TypeOK /\ s # NoServer
  BY ConstantsAssumption DEF TypeInv
<1>2. CASE Elsewhere
  <2>1. UNCHANGED <<status, actor, latest, overlapped>>
    BY <1>2 DEF Elsewhere, auxVars
  <2> QED
    BY <2>1 DEF SequentialInv, Uncontested, Agrees
<1>3. ASSUME NEW a \in Actors, Works(a) PROVE Uncontested(s)'
  <2>1. actor[a].pc # "idle" => actor[a].target \in Servers
    BY DEF TypeInv
  <2>2. s \notin overlapped => Uncontested(s)
    BY DEF SequentialInv
  \* a works elsewhere, before and after.
  <2>3. ASSUME OthersStay(a), actor[a].target # s, actor'[a].target # s,
               status'[s] = status[s], latest'[s] = latest[s], s \notin overlapped
        PROVE  Uncontested(s)'
    <3>1. \A b \in Actors : actor'[b].target = s \/ actor[b].target = s => actor'[b] = actor[b]
      BY <2>3 DEF OthersStay
    <3> QED
      BY <2>2, <2>3, <3>1 DEF Uncontested, Agrees
  \* a works on s, and what it found is what its mark will say.
  <2>4. ASSUME OthersStay(a), actor[a].target = s, s \notin overlapped,
               actor'[a].pc # "idle" => actor'[a].target = s,
               actor'[a].pc = "ok" => latest'[s] = "ok",
               actor'[a].pc \in {"failed", "mark"} => latest'[s] = "failed",
               actor'[a].pc \notin {"ok", "failed", "mark"} => Agrees(s)'
        PROVE  Uncontested(s)'
    <3>1. \A b \in Actors : actor'[b].target = s => b = a
      BY <2>2, <2>4 DEF Uncontested, OthersStay
    <3> QED
      BY <1>1, <2>4, <3>1 DEF Uncontested
  <2>5. actor[a].target = s /\ actor[a].pc \notin {"ok", "failed", "mark"} /\ s \notin overlapped
           => Agrees(s)
    BY <2>2 DEF Uncontested
  <2>6. ASSUME NEW r \in Servers, Engages(a, r) PROVE Uncontested(s)'
    <3>1. s \notin overlapped /\ UNCHANGED <<status, latest>>
      BY <2>6 DEF Engages
    <3>2. actor[a].target = NoServer
      BY <2>6 DEF Engages, TypeInv
    <3>3. CASE r # s
      BY <1>1, <2>3, <2>6, <3>1, <3>2, <3>3 DEF Engages
    <3>4. CASE r = s
      <4>1. Busy(s) = {}
        BY <2>6, <3>4 DEF Engages
      <4>2. \A b \in Actors : actor[b].target # s
        BY <4>1 DEF Busy
      <4>3. \A b \in Actors : actor'[b].target = s => b = a
        BY <2>6, <4>2 DEF Engages, OthersStay
      <4>4. Agrees(s)'
        BY <2>2, <3>1, <4>2 DEF Uncontested, Agrees
      <4> QED
        BY <2>6, <4>3, <4>4 DEF Engages, Uncontested
    <3> QED
      BY <3>3, <3>4
  <2>7. CASE Reads(a)
    <3>1. UNCHANGED <<status, latest, overlapped>>
      BY <2>7 DEF Reads, auxVars
    <3>2. CASE actor[a].target = s
      BY <2>4, <2>5, <2>7, <3>1, <3>2 DEF Reads, Agrees
    <3>3. CASE actor[a].target # s
      BY <2>3, <2>7, <3>1, <3>3 DEF Reads
    <3> QED
      BY <3>2, <3>3
  <2>8. CASE Announces(a)
    <3>1. UNCHANGED <<latest, overlapped>>
      BY <2>8 DEF Announces, auxVars
    <3>2. CASE actor[a].target = s
      <4>1. status'[s].state = "checking"
        BY <1>1, <2>8, <3>2 DEF Announces, TypeOK
      <4>2. Agrees(s)'
        BY <4>1 DEF Agrees
      <4> QED
        BY <2>4, <2>8, <3>1, <3>2, <4>2 DEF Announces, Proceeds
    <3>3. CASE actor[a].target # s
      <4>1. status'[s] = status[s]
        BY <1>1, <2>8, <3>3 DEF Announces, TypeOK
      <4> QED
        BY <2>3, <2>8, <3>1, <3>3, <4>1 DEF Announces, Proceeds
    <3> QED
      BY <3>2, <3>3
  <2>9. ASSUME NEW outcome \in {"ok", "failed"}, Answers(a, outcome) PROVE Uncontested(s)'
    <3>1. UNCHANGED <<status, overlapped>>
      BY <2>9 DEF Answers
    <3>2. CASE actor[a].target = s
      <4>1. latest'[s] = outcome
        BY <1>1, <2>9, <3>2 DEF Answers, TypeOK
      <4> QED
        BY <2>4, <2>9, <3>1, <3>2, <4>1 DEF Answers, Proceeds
    <3>3. CASE actor[a].target # s
      <4>1. latest'[s] = latest[s]
        BY <1>1, <2>9, <3>3 DEF Answers, TypeOK
      <4> QED
        BY <2>3, <2>9, <3>1, <3>3, <4>1 DEF Answers, Proceeds
    <3> QED
      BY <3>2, <3>3
  <2>10. CASE Passes(a)
    <3>1. UNCHANGED <<status, latest, overlapped>>
      BY <2>10 DEF Passes, auxVars
    <3>2. CASE actor[a].target = s
      <4>1. Agrees(s)'
        BY <2>5, <2>10, <3>1, <3>2 DEF Passes, Agrees
      <4> QED
        BY <2>4, <2>10, <3>1, <3>2, <4>1 DEF Passes, Proceeds, Leaves
    <3>3. CASE actor[a].target # s
      BY <1>1, <2>3, <2>10, <3>1, <3>3 DEF Passes, Proceeds, Leaves
    <3> QED
      BY <3>2, <3>3
  <2>11. CASE Connects(a)
    <3>1. UNCHANGED <<latest, overlapped>>
      BY <2>11 DEF Connects
    <3>2. CASE actor[a].target = s
      <4>1. status'[s].state = "connected" /\ latest'[s] = "ok"
        BY <1>1, <2>2, <2>11, <3>1, <3>2 DEF Connects, TypeOK, Uncontested
      <4>2. Agrees(s)'
        BY <4>1 DEF Agrees
      <4> QED
        BY <2>4, <2>11, <3>1, <3>2, <4>2 DEF Connects, Proceeds, Leaves
    <3>3. CASE actor[a].target # s
      <4>1. status'[s] = status[s]
        BY <1>1, <2>11, <3>3 DEF Connects, TypeOK
      <4> QED
        BY <1>1, <2>3, <2>11, <3>1, <3>3, <4>1 DEF Connects, Proceeds, Leaves
    <3> QED
      BY <3>2, <3>3
  <2>12. ASSUME NEW ref \in Nat, Fails(a, ref) PROVE Uncontested(s)'
    <3>1. UNCHANGED <<latest, overlapped>>
      BY <2>12 DEF Fails, auxVars
    <3>2. CASE actor[a].target = s
      <4>1. status'[s].state = "unavailable" /\ latest'[s] = "failed"
        BY <1>1, <2>2, <2>12, <3>1, <3>2 DEF Fails, TypeOK, Uncontested
      <4>2. Agrees(s)'
        BY <4>1 DEF Agrees
      <4> QED
        BY <2>4, <2>12, <3>1, <3>2, <4>2 DEF Fails, Leaves
    <3>3. CASE actor[a].target # s
      <4>1. status'[s] = status[s]
        BY <1>1, <2>12, <3>3 DEF Fails, TypeOK
      <4> QED
        BY <1>1, <2>3, <2>12, <3>1, <3>3, <4>1 DEF Fails, Leaves
    <3> QED
      BY <3>2, <3>3
  <2>13. CASE Records(a)
    <3>1. UNCHANGED <<status, latest, overlapped>>
      BY <2>13 DEF Records
    <3>2. CASE actor[a].target = s
      <4>1. latest[s] = "failed"
        BY <2>2, <2>13, <3>1, <3>2 DEF Records, Uncontested
      <4> QED
        BY <2>4, <2>13, <3>1, <3>2, <4>1 DEF Records
    <3>3. CASE actor[a].target # s
      BY <2>3, <2>13, <3>1, <3>3 DEF Records
    <3> QED
      BY <3>2, <3>3
  <2> QED
    BY <1>3, <2>6, <2>7, <2>8, <2>9, <2>10, <2>11, <2>12, <2>13 DEF Works
<1> QED
  BY <1>2, <1>3, StepEffects

\* For any number of workers and handlers: the status of a server that no two of them
\* worked on at once is what its last check found.
THEOREM SequentialStatusIsLatestHolds == Spec => []SequentialStatusIsLatest
<1>1. Init => SequentialInv
  <2>1. ASSUME Init
        PROVE  /\ \A a \in Actors : actor[a].target = NoServer
               /\ \A s \in Servers : status[s] = NotChecked
    BY <2>1, IdleType DEF Init
  <2> QED
    BY <2>1, ConstantsAssumption DEF SequentialInv, Uncontested, Agrees, NotChecked
<1>2. SequentialInv => SequentialStatusIsLatest
  <2> SUFFICES ASSUME SequentialInv, NEW s \in Servers \ overlapped, Busy(s) = {}
               PROVE  Agrees(s)
    BY DEF SequentialStatusIsLatest
  <2>1. \A a \in Actors : actor[a].target # s
    BY DEF Busy
  <2> QED
    BY <2>1 DEF SequentialInv, Uncontested
<1> QED
  BY <1>1, <1>2, SequentialStep, TypeHolds, PTL DEF Spec

-----------------------------------------------------------------------------
(* ContainerLogs: texts and their concatenation.  What holds of every      *)
(* number is proved from the least number of which it does not hold.       *)

\* A set of naturals has a least element.
LEMMA Least ==
    ASSUME NEW S, S \subseteq Nat, S # {}
    PROVE  \E m \in S : \A k \in S : m <= k
<1>1. \E m \in S : \A k \in S : <<k, m>> \notin OpToRel(<, Nat)
  BY NatLessThanWellFounded, WFMin, Zenon
<1>2. PICK m \in S : \A k \in S : <<k, m>> \notin OpToRel(<, Nat)
  BY <1>1
<1>3. \A k \in S : ~(k < m)
  BY <1>2 DEF OpToRel
<1> QED
  BY <1>3

\* What does not hold of all of 1..n fails first somewhere.
LEMMA FirstFailure ==
    ASSUME NEW n \in Nat, NEW Bad, Bad \subseteq 1..n, Bad # {}
    PROVE  \E k \in Bad : /\ k \in 1..n /\ k \in Nat /\ k - 1 \in 0..n
                          /\ k # 1 => k - 1 \in 1..n /\ k - 1 \notin Bad
<1>1. Bad \subseteq Nat
  OBVIOUS
<1>2. PICK k \in Bad : \A j \in Bad : k <= j
  BY <1>1, Least
<1>3. k \in 1..n /\ k - 1 < k /\ k - 1 \in 0..n /\ (k # 1 => k - 1 \in 1..n)
  OBVIOUS
<1>4. k - 1 \notin Bad
  BY <1>2, <1>3
<1> QED
  BY <1>3, <1>4

Bytes == {"header", "feed", "text", "invalid", "fffd1", "fffd2", "fffd3"}

\* g concatenates the first n elements of s one after the other.
Concatenates(g, s, n) ==
    /\ g = [i \in 1..n |-> g[i]]
    /\ \A i \in 1..n : g[i] = IF i = 1 THEN s[i] ELSE g[i - 1] \o s[i]

\* There is such a function for every n.
LEMMA ConcatenationExists ==
    ASSUME NEW s, NEW n \in Nat
    PROVE  \E g : Concatenates(g, s, n)
<1> DEFINE Bad == {k \in Nat : ~\E g : Concatenates(g, s, k)}
<1> SUFFICES ASSUME Bad # {} PROVE FALSE
  OBVIOUS
<1>1. PICK k \in Bad : \A j \in Bad : k <= j
  <2>1. Bad \subseteq Nat
    OBVIOUS
  <2> HIDE DEF Bad
  <2> QED
    BY <2>1, Least
<1>2. k # 0
  <2>1. Concatenates(<<>>, s, 0)
    BY DEF Concatenates
  <2> QED
    BY <2>1, <1>1
<1>3. k - 1 \in Nat /\ k - 1 \notin Bad
  BY <1>1, <1>2
<1>4. PICK g : Concatenates(g, s, k - 1)
  BY <1>3
<1> DEFINE h == [i \in 1..k |-> IF i < k THEN g[i] ELSE IF k = 1 THEN s[k] ELSE g[k - 1] \o s[k]]
<1>5. Concatenates(h, s, k)
  <2> SUFFICES ASSUME NEW i \in 1..k PROVE h[i] = IF i = 1 THEN s[i] ELSE h[i - 1] \o s[i]
    BY DEF Concatenates
  <2>1. CASE i < k
    <3>1. i \in 1..(k - 1) /\ i - 1 < k /\ (i # 1 => i - 1 \in 1..k)
      BY <2>1, <1>1
    <3>2. g[i] = IF i = 1 THEN s[i] ELSE g[i - 1] \o s[i]
      BY <3>1, <1>4 DEF Concatenates
    <3> QED
      BY <2>1, <3>1, <3>2
  <2>2. CASE i = k
    <3>1. i # 1 => i - 1 \in 1..k /\ i - 1 < k
      BY <2>2, <1>1
    <3> QED
      BY <2>2, <3>1
  <2> QED
    BY <2>1, <2>2, <1>1
<1> QED
  BY <1>1, <1>5

\* FlattenSeq concatenates all elements.
LEMMA Flattened ==
    ASSUME NEW s \in Seq(Seq(Bytes)), s # <<>>
    PROVE  \E g : Concatenates(g, s, Len(s)) /\ FlattenSeq(s) = g[Len(s)]
<1> DEFINE F(g) == [i \in 1..Len(s) |-> IF i = 1 THEN s[i] ELSE g[i - 1] \o s[i]]
<1> DEFINE h == CHOOSE g : g = F(g)
<1>1. \E g : g = F(g)
  <2>1. PICK g : Concatenates(g, s, Len(s))
    <3>1. Len(s) \in Nat
      OBVIOUS
    <3> QED
      BY <3>1, ConcatenationExists
  <2>2. g = F(g)
    BY <2>1 DEF Concatenates
  <2> QED
    BY <2>2
<1>2. h = F(h)
  BY <1>1
<1>3. FlattenSeq(s) = h[Len(s)]
  BY DEF FlattenSeq
<1>4. Concatenates(h, s, Len(s))
  BY <1>2 DEF Concatenates
<1> QED
  BY <1>3, <1>4

\* A concatenation is no longer than its parts.
LEMMA FlattenedLength ==
    ASSUME NEW s \in Seq(Seq(Bytes)), NEW w \in [0..Len(s) -> Nat], w[0] = 0,
           \A i \in 1..Len(s) : w[i - 1] + Len(s[i]) <= w[i]
    PROVE  FlattenSeq(s) \in Seq(Bytes) /\ Len(FlattenSeq(s)) <= w[Len(s)]
<1>0. Len(s) \in Nat
  OBVIOUS
<1>1. CASE s = <<>>
  <2>1. FlattenSeq(s) = <<>> /\ Len(s) = 0
    BY <1>1 DEF FlattenSeq
  <2> QED
    BY <2>1
<1>2. CASE s # <<>>
  <2>1. PICK g : Concatenates(g, s, Len(s)) /\ FlattenSeq(s) = g[Len(s)]
    BY <1>2, Flattened
  <2> DEFINE Bad == {i \in 1..Len(s) : ~(g[i] \in Seq(Bytes) /\ Len(g[i]) <= w[i])}
  <2>2. Bad = {}
    <3> SUFFICES ASSUME Bad # {} PROVE FALSE
      OBVIOUS
    <3>1. PICK k \in Bad : /\ k \in 1..Len(s) /\ k \in Nat /\ k - 1 \in 0..Len(s)
                           /\ k # 1 => k - 1 \in 1..Len(s) /\ k - 1 \notin Bad
      <4>1. Bad \subseteq 1..Len(s) /\ Bad # {}
        OBVIOUS
      <4> HIDE DEF Bad
      <4> QED
        BY <1>0, <4>1, FirstFailure
    <3>1a. g[k] = IF k = 1 THEN s[k] ELSE g[k - 1] \o s[k]
      BY <2>1, <3>1 DEF Concatenates
    <3>1b. k \in 1..Len(s) /\ ~(g[k] \in Seq(Bytes) /\ Len(g[k]) <= w[k])
      OBVIOUS
    <3> HIDE DEF Bad
    <3>2. /\ s[k] \in Seq(Bytes) /\ Len(s[k]) \in Nat
          /\ w[k - 1] + Len(s[k]) <= w[k] /\ w[k] \in Nat /\ w[k - 1] \in Nat
      <4>1. k \in 0..Len(s) /\ k - 1 \in 0..Len(s)
        BY <1>0, <3>1
      <4>2. s[k] \in Seq(Bytes) /\ Len(s[k]) \in Nat
        BY <1>0, <3>1
      <4>3. w[k - 1] \in Nat /\ w[k] \in Nat
        BY <4>1
      <4>4. w[k - 1] + Len(s[k]) <= w[k]
        BY <3>1
      <4> QED
        BY <4>2, <4>3, <4>4
    <3>3. CASE k = 1
      BY <3>1a, <3>2, <3>3, <3>1b
    <3>4. CASE k # 1
      <4>1. k - 1 \in 1..Len(s) /\ k - 1 \notin Bad
        BY <3>1, <3>4
      <4>2. g[k - 1] \in Seq(Bytes) /\ Len(g[k - 1]) <= w[k - 1] /\ Len(g[k - 1]) \in Nat
        BY <4>1 DEF Bad
      <4>3. g[k] \in Seq(Bytes) /\ Len(g[k]) = Len(g[k - 1]) + Len(s[k])
        BY <3>1a, <3>2, <3>4, <4>2
      <4>4. Len(g[k]) <= w[k]
        <5> DEFINE before == Len(g[k - 1])
                   part == Len(s[k])
                   limit == w[k - 1]
        <5>1. Len(g[k]) = before + part
          BY <4>3
        <5>2. before \in Nat /\ part \in Nat /\ limit \in Nat /\ w[k] \in Nat
          BY <3>2, <4>2
        <5>3. before <= limit /\ limit + part <= w[k]
          BY <3>2, <4>2
        <5> HIDE DEF before, part, limit
        <5>4. before + part <= w[k]
          BY <5>2, <5>3
        <5> QED
          BY <5>1, <5>4
      <4> QED
        BY <4>3, <4>4, <3>1b
    <3> QED
      BY <3>3, <3>4
  <2>3. Len(s) \in 1..Len(s)
    BY <1>0, <1>2
  <2> QED
    BY <2>1, <2>2, <2>3
<1> QED
  BY <1>1, <1>2

\* The parts of a sequence, cut at the positions c, make up the sequence.
LEMMA FlattenedIs ==
    ASSUME NEW s \in Seq(Seq(Bytes)), NEW t \in Seq(Bytes),
           NEW c \in [0..Len(s) -> 0..Len(t)], c[0] = 0, c[Len(s)] = Len(t),
           \A i \in 1..Len(s) : c[i - 1] <= c[i] /\ s[i] = SubSeq(t, c[i - 1] + 1, c[i])
    PROVE  FlattenSeq(s) = t
<1>0. Len(s) \in Nat /\ Len(t) \in Nat
  OBVIOUS
<1>1. CASE s = <<>>
  <2>1. FlattenSeq(s) = <<>> /\ Len(s) = 0
    BY <1>1 DEF FlattenSeq
  <2> QED
    BY <2>1
<1>2. CASE s # <<>>
  <2>1. PICK g : Concatenates(g, s, Len(s)) /\ FlattenSeq(s) = g[Len(s)]
    BY <1>2, Flattened
  <2> DEFINE Bad == {i \in 1..Len(s) : g[i] # SubSeq(t, 1, c[i])}
  <2>2. Bad = {}
    <3> SUFFICES ASSUME Bad # {} PROVE FALSE
      OBVIOUS
    <3>1. PICK k \in Bad : /\ k \in 1..Len(s) /\ k \in Nat /\ k - 1 \in 0..Len(s)
                           /\ k # 1 => k - 1 \in 1..Len(s) /\ k - 1 \notin Bad
      <4>1. Bad \subseteq 1..Len(s) /\ Bad # {}
        OBVIOUS
      <4> HIDE DEF Bad
      <4> QED
        BY <1>0, <4>1, FirstFailure
    <3>1a. g[k] = IF k = 1 THEN s[k] ELSE g[k - 1] \o s[k]
      BY <2>1, <3>1 DEF Concatenates
    <3>1b. k \in 1..Len(s) /\ g[k] # SubSeq(t, 1, c[k])
      OBVIOUS
    <3> HIDE DEF Bad
    <3>2. /\ s[k] = SubSeq(t, c[k - 1] + 1, c[k])
          /\ c[k - 1] \in 0..Len(t) /\ c[k] \in 0..Len(t) /\ c[k - 1] <= c[k]
      <4>1. k \in 0..Len(s) /\ k - 1 \in 0..Len(s)
        BY <1>0, <3>1
      <4> QED
        BY <4>1, <3>1
    <3>3. CASE k = 1
      <4>1. k - 1 = 0 /\ c[k - 1] + 1 = 1
        BY <3>3
      <4> QED
        BY <3>1a, <3>2, <3>3, <3>1b, <4>1
    <3>4. CASE k # 1
      <4>1. k - 1 \in 1..Len(s) /\ k - 1 \notin Bad
        BY <3>1, <3>4
      <4>2. g[k] = SubSeq(t, 1, c[k - 1]) \o SubSeq(t, c[k - 1] + 1, c[k])
        BY <3>1a, <3>2, <3>4, <4>1 DEF Bad
      <4>3. 1 \in 1..(Len(t) + 1) /\ c[k - 1] \in (1 - 1)..Len(t) /\ c[k] \in c[k - 1]..Len(t)
        BY <1>0, <3>2
      <4>4. SubSeq(t, 1, c[k - 1]) \o SubSeq(t, c[k - 1] + 1, c[k]) = SubSeq(t, 1, c[k])
        BY <4>3, ConcatAdjacentSubSeq
      <4> QED
        BY <3>1b, <4>2, <4>4
    <3> QED
      BY <3>3, <3>4
  <2>3. Len(s) \in 1..Len(s)
    BY <1>0, <1>2
  <2>4. SubSeq(t, 1, Len(t)) = t
    OBVIOUS
  <2> QED
    BY <2>1, <2>2, <2>3, <2>4
<1> QED
  BY <1>1, <1>2

\* The headers are taken out.
LEMMA DemultiplexedIs ==
    ASSUME NEW data \in Seq(Bytes)
    PROVE  Demultiplexed(data) \in Seq(Bytes) /\ Len(Demultiplexed(data)) <= Len(data)
<1> DEFINE s == [i \in 1..Len(data) |-> IF data[i] = "header" THEN <<>> ELSE <<data[i]>>]
<1> DEFINE w == [i \in 0..Len(data) |-> i]
<1>1. Len(data) \in Nat
  OBVIOUS
<1>2. s \in Seq(Seq(Bytes)) /\ Len(s) = Len(data) /\ \A i \in 1..Len(s) : Len(s[i]) <= 1
  BY <1>1
<1>3. w \in [0..Len(s) -> Nat] /\ w[0] = 0 /\ w[Len(s)] = Len(data)
  BY <1>1, <1>2
<1>4. \A i \in 1..Len(s) : w[i - 1] + Len(s[i]) <= w[i]
  BY <1>1, <1>2
<1>5. Demultiplexed(data) = FlattenSeq(s)
  BY DEF Demultiplexed
<1> HIDE DEF s, w
<1> QED
  BY <1>2, <1>3, <1>4, <1>5, FlattenedLength

\* Replacing runs of invalid bytes does not quite double a text.
LEMMA ToValidUTF8Is ==
    ASSUME NEW data \in Seq(Bytes)
    PROVE  ToValidUTF8(data) \in Seq(Bytes) /\ Len(ToValidUTF8(data)) <= 2 * Len(data) + 1
<1> DEFINE s == [i \in 1..Len(data) |->
    IF data[i] # "invalid" THEN <<data[i]>>
    ELSE IF i > 1 /\ data[i - 1] = "invalid" THEN <<>> ELSE Replacement]
<1> DEFINE w == [i \in 0..Len(data) |->
    IF i # 0 /\ data[i] = "invalid" THEN 2 * i + 1 ELSE 2 * i]
<1>1. Len(data) \in Nat
  OBVIOUS
<1>2. Replacement \in Seq(Bytes) /\ Len(Replacement) = 3
  BY DEF Replacement, Bytes
<1>3. /\ s \in Seq(Seq(Bytes)) /\ Len(s) = Len(data)
      /\ \A i \in 1..Len(s) : Len(s[i]) = IF data[i] # "invalid" THEN 1
                                        ELSE IF i > 1 /\ data[i - 1] = "invalid" THEN 0 ELSE 3
  <2>1. \A i \in 1..Len(data) : /\ data[i] \in Bytes
                                /\ <<data[i]>> \in Seq(Bytes) /\ Len(<<data[i]>>) = 1
    BY <1>1
  <2>2. <<>> \in Seq(Bytes) /\ Len(<<>>) = 0
    OBVIOUS
  <2>3. \A i \in 1..Len(data) : s[i] \in Seq(Bytes)
    BY <1>2, <2>1, <2>2
  <2>4. s \in Seq(Seq(Bytes)) /\ Len(s) = Len(data)
    <3>1. s \in [1..Len(data) -> Seq(Bytes)]
      BY <2>3
    <3> QED
      BY <1>1, <3>1
  <2>5. \A i \in 1..Len(data) : Len(s[i]) = IF data[i] # "invalid" THEN 1
                                        ELSE IF i > 1 /\ data[i - 1] = "invalid" THEN 0 ELSE 3
    <3> TAKE i \in 1..Len(data)
    <3>1. CASE data[i] # "invalid"
      BY <2>1, <3>1
    <3>2. CASE data[i] = "invalid" /\ i > 1 /\ data[i - 1] = "invalid"
      BY <2>2, <3>2
    <3>3. CASE data[i] = "invalid" /\ ~(i > 1 /\ data[i - 1] = "invalid")
      BY <1>2, <3>3
    <3> QED
      BY <3>1, <3>2, <3>3
  <2> QED
    BY <2>4, <2>5
<1>4. w \in [0..Len(s) -> Nat] /\ w[0] = 0 /\ w[Len(s)] <= 2 * Len(data) + 1
  BY <1>1, <1>3
<1>5. ASSUME NEW i \in 1..Len(s) PROVE w[i - 1] + Len(s[i]) <= w[i]
  <2>1. i \in Nat /\ i - 1 \in 0..Len(data) /\ i \in 0..Len(data) /\ (i - 1 # 0 <=> i > 1)
    BY <1>1, <1>3
  <2>2. /\ w[i] = IF data[i] = "invalid" THEN 2 * i + 1 ELSE 2 * i
        /\ w[i - 1] = IF i > 1 /\ data[i - 1] = "invalid" THEN 2 * (i - 1) + 1 ELSE 2 * (i - 1)
    BY <2>1
  <2>3. Len(s[i]) = IF data[i] # "invalid" THEN 1
                    ELSE IF i > 1 /\ data[i - 1] = "invalid" THEN 0 ELSE 3
    BY <1>3
  <2> HIDE DEF s, w
  <2> QED
    BY <2>1, <2>2, <2>3
<1>6. ToValidUTF8(data) = FlattenSeq(s)
  BY DEF ToValidUTF8
<1> HIDE DEF s, w
<1> QED
  <2>1. FlattenSeq(s) \in Seq(Bytes) /\ Len(FlattenSeq(s)) <= w[Len(s)]
    BY <1>3, <1>4, <1>5, FlattenedLength
  <2>2. Len(FlattenSeq(s)) \in Nat /\ w[Len(s)] \in Nat
    BY <1>3, <1>4, <2>1
  <2> QED
    BY <1>1, <1>4, <1>6, <2>1, <2>2

-----------------------------------------------------------------------------
(* Parts of a text                                                         *)

\* What follows the first a bytes of d, up to the b-th.
Part(d, a, b) == SubSeq(d, a + 1, b)

\* A part has the bytes between its two positions.
LEMMA PartIs ==
    ASSUME NEW d \in Seq(Bytes), NEW a \in Nat, NEW b \in Nat, a <= b, b <= Len(d)
    PROVE  /\ Part(d, a, b) \in Seq(Bytes) /\ Len(Part(d, a, b)) = b - a
           /\ \A i \in 1..(b - a) : Part(d, a, b)[i] = d[a + i]
<1>1. Len(d) \in Nat /\ a + 1 \in Int /\ b \in Int /\ b - (a + 1) + 1 = b - a
  OBVIOUS
<1>2. \A i \in (a + 1)..b : d[i] \in Bytes
  BY <1>1
<1>3. /\ SubSeq(d, a + 1, b) \in Seq(Bytes)
      /\ Len(SubSeq(d, a + 1, b)) = IF a + 1 <= b THEN b - (a + 1) + 1 ELSE 0
      /\ \A i \in 1..(b - (a + 1) + 1) : SubSeq(d, a + 1, b)[i] = d[a + 1 + i - 1]
  BY <1>1, <1>2, SubSeqProperties
<1>4. Len(SubSeq(d, a + 1, b)) = b - a
  BY <1>3
<1>5. \A i \in 1..(b - a) : a + 1 + i - 1 = a + i
  OBVIOUS
<1>6. \A i \in 1..(b - a) : SubSeq(d, a + 1, b)[i] = d[a + i]
  BY <1>1, <1>3, <1>5
<1> QED
  BY <1>3, <1>4, <1>6 DEF Part

\* Texts are equal if they agree byte by byte.
LEMMA SameText ==
    ASSUME NEW x \in Seq(Bytes), NEW y \in Seq(Bytes), Len(x) = Len(y),
           \A i \in 1..Len(x) : x[i] = y[i]
    PROVE  x = y
BY SeqEqual

\* A part of a part is a part of the text.
LEMMA PartOfPart ==
    ASSUME NEW d \in Seq(Bytes), NEW a \in Nat, NEW b \in Nat, a <= b, b <= Len(d),
           NEW i \in Nat, NEW j \in Nat, i <= j, j <= b - a
    PROVE  Part(Part(d, a, b), i, j) = Part(d, a + i, a + j)
<1>1. /\ Len(d) \in Nat /\ a + i \in Nat /\ a + j \in Nat /\ a + i <= a + j
      /\ a + j <= Len(d) /\ (a + j) - (a + i) = j - i
  OBVIOUS
<1>2. /\ Part(d, a, b) \in Seq(Bytes) /\ Len(Part(d, a, b)) = b - a
      /\ \A k \in 1..(b - a) : Part(d, a, b)[k] = d[a + k]
  BY PartIs
<1>3. /\ Part(Part(d, a, b), i, j) \in Seq(Bytes) /\ Len(Part(Part(d, a, b), i, j)) = j - i
      /\ \A k \in 1..(j - i) : Part(Part(d, a, b), i, j)[k] = Part(d, a, b)[i + k]
  <2>1. j <= Len(Part(d, a, b))
    BY <1>2
  <2> QED
    BY <1>2, <2>1, PartIs
<1>4. /\ Part(d, a + i, a + j) \in Seq(Bytes) /\ Len(Part(d, a + i, a + j)) = j - i
      /\ \A k \in 1..(j - i) : Part(d, a + i, a + j)[k] = d[a + i + k]
  <2>1. /\ Part(d, a + i, a + j) \in Seq(Bytes)
        /\ Len(Part(d, a + i, a + j)) = (a + j) - (a + i)
        /\ \A k \in 1..((a + j) - (a + i)) : Part(d, a + i, a + j)[k] = d[a + i + k]
    BY <1>1, PartIs
  <2> QED
    BY <1>1, <2>1
<1>5. \A k \in 1..(j - i) : i + k \in 1..(b - a) /\ a + (i + k) = a + i + k
  OBVIOUS
<1>6. \A k \in 1..(j - i) : Part(Part(d, a, b), i, j)[k] = Part(d, a + i, a + j)[k]
  BY <1>2, <1>3, <1>4, <1>5
<1> HIDE DEF Part
<1> QED
  BY <1>3, <1>4, <1>6, SameText

\* A part with the byte before it is the part that begins there.
LEMMA PartGrows ==
    ASSUME NEW d \in Seq(Bytes), NEW a \in Nat \ {0}, NEW b \in Nat, a <= b, b <= Len(d)
    PROVE  <<d[a]>> \o Part(d, a, b) = Part(d, a - 1, b)
<1>1. Len(d) \in Nat /\ a - 1 \in Nat /\ a - 1 <= b /\ d[a] \in Bytes
  OBVIOUS
<1>2. /\ Part(d, a, b) \in Seq(Bytes) /\ Len(Part(d, a, b)) = b - a
      /\ \A k \in 1..(b - a) : Part(d, a, b)[k] = d[a + k]
  BY PartIs
<1>3. /\ Part(d, a - 1, b) \in Seq(Bytes) /\ Len(Part(d, a - 1, b)) = b - (a - 1)
      /\ \A k \in 1..(b - (a - 1)) : Part(d, a - 1, b)[k] = d[a - 1 + k]
  BY <1>1, PartIs
<1> DEFINE x == <<d[a]>> \o Part(d, a, b)
<1>4. <<d[a]>> \in Seq(Bytes) /\ Len(<<d[a]>>) = 1 /\ <<d[a]>>[1] = d[a]
  BY <1>1
<1>5. /\ x \in Seq(Bytes) /\ Len(x) = 1 + (b - a)
      /\ \A k \in 1..(1 + (b - a)) : x[k] = IF k <= 1 THEN <<d[a]>>[k] ELSE Part(d, a, b)[k - 1]
  <2> DEFINE u == <<d[a]>>
             v == Part(d, a, b)
  <2>1. u \in Seq(Bytes) /\ v \in Seq(Bytes) /\ Len(u) = 1 /\ Len(v) = b - a
    BY <1>2, <1>4
  <2> HIDE DEF u, v
  <2>2. /\ u \o v \in Seq(Bytes) /\ Len(u \o v) = Len(u) + Len(v)
        /\ \A k \in 1..(Len(u) + Len(v)) : (u \o v)[k] = IF k <= Len(u) THEN u[k] ELSE v[k - Len(u)]
    BY <2>1, ConcatProperties
  <2>3. /\ u \o v \in Seq(Bytes) /\ Len(u \o v) = 1 + (b - a)
        /\ \A k \in 1..(1 + (b - a)) : (u \o v)[k] = IF k <= 1 THEN u[k] ELSE v[k - 1]
    BY <2>1, <2>2
  <2> QED
    BY <2>3 DEF u, v
<1> HIDE DEF x
<1>6. ASSUME NEW k \in 1..(1 + (b - a)) PROVE x[k] = Part(d, a - 1, b)[k]
  <2>1. Part(d, a - 1, b)[k] = d[a - 1 + k]
    BY <1>3
  <2>2. CASE k = 1
    <3>1. a - 1 + k = a
      BY <2>2
    <3> QED
      BY <1>4, <1>5, <2>1, <2>2, <3>1
  <2>3. CASE k # 1
    <3>1. k - 1 \in 1..(b - a) /\ a + (k - 1) = a - 1 + k /\ ~(k <= 1)
      BY <2>3
    <3> QED
      BY <1>2, <1>5, <2>1, <3>1
  <2> QED
    BY <2>2, <2>3
<1>7. Len(x) = Len(Part(d, a - 1, b))
  BY <1>3, <1>5
<1>8. x = Part(d, a - 1, b)
  <2> HIDE DEF Part
  <2> QED
    BY <1>3, <1>5, <1>6, <1>7, SameText
<1> QED
  BY <1>8 DEF x

-----------------------------------------------------------------------------
(* The lines of a text                                                     *)

\* The line feeds of d up to position p.
Upto(d, p) == {j \in Feeds(d) : j <= p}

\* The line feeds of a text can be counted, from none at its beginning to all at its end.
LEMMA FeedsCounted ==
    ASSUME NEW d \in Seq(Bytes)
    PROVE  /\ Len(d) \in Nat /\ Feeds(d) \subseteq 1..Len(d)
           /\ IsFiniteSet(Feeds(d)) /\ Cardinality(Feeds(d)) \in Nat
           /\ \A p \in Int : Cardinality(Upto(d, p)) \in Nat
           /\ Cardinality(Upto(d, 0)) = 0 /\ Upto(d, Len(d)) = Feeds(d)
<1>1. Len(d) \in Nat /\ Feeds(d) \subseteq 1..Len(d)
  BY DEF Feeds
<1>2. IsFiniteSet(1..Len(d))
  BY <1>1, FS_Interval
<1>3. \A S \in SUBSET (1..Len(d)) : IsFiniteSet(S) /\ Cardinality(S) \in Nat
  <2> TAKE S \in SUBSET (1..Len(d))
  <2>1. IsFiniteSet(S)
    BY <1>2, FS_Subset
  <2> QED
    BY <2>1, FS_CardinalityType
<1>4. \A p \in Int : Upto(d, p) \in SUBSET (1..Len(d))
  BY <1>1 DEF Upto
<1>5. Upto(d, 0) = {} /\ Upto(d, Len(d)) = Feeds(d)
  BY <1>1 DEF Upto
<1>6. Cardinality(Upto(d, 0)) = 0
  BY <1>5, FS_EmptySet
<1> QED
  BY <1>1, <1>3, <1>4, <1>5, <1>6

\* Counting further meets no fewer line feeds, and more if it ends on one.
LEMMA CountGrows ==
    ASSUME NEW d \in Seq(Bytes), NEW p \in Int, NEW q \in Int, p <= q
    PROVE  /\ Cardinality(Upto(d, p)) <= Cardinality(Upto(d, q))
           /\ q \in Feeds(d) /\ p < q => Cardinality(Upto(d, p)) < Cardinality(Upto(d, q))
<1>1. Feeds(d) \subseteq Int /\ IsFiniteSet(Feeds(d))
  BY FeedsCounted
<1>2. Upto(d, p) \in SUBSET Upto(d, q) /\ Upto(d, q) \in SUBSET Feeds(d)
  BY <1>1 DEF Upto
<1>3. IsFiniteSet(Upto(d, q))
  BY <1>1, <1>2, FS_Subset
<1>4. /\ Cardinality(Upto(d, p)) <= Cardinality(Upto(d, q))
      /\ Cardinality(Upto(d, q)) = Cardinality(Upto(d, p)) => Upto(d, q) = Upto(d, p)
  BY <1>2, <1>3, FS_Subset
<1>5. q \in Feeds(d) /\ p < q => q \in Upto(d, q) /\ q \notin Upto(d, p)
  BY <1>1 DEF Upto
<1>6. Cardinality(Upto(d, p)) \in Nat /\ Cardinality(Upto(d, q)) \in Nat
  BY FeedsCounted
<1> HIDE DEF Upto
<1> QED
  BY <1>4, <1>5, <1>6

\* Every line but the last ends at a line feed, the k-th at the k-th.
LEMMA LineEndIsFeed ==
    ASSUME NEW d \in Seq(Bytes), NEW k \in 1..Cardinality(Feeds(d))
    PROVE  LineEnd(d, k) \in Feeds(d) /\ Cardinality(Upto(d, LineEnd(d, k))) = k
<1> DEFINE m == Cardinality(Feeds(d))
<1>1. /\ Len(d) \in Nat /\ Feeds(d) \subseteq 1..Len(d) /\ m \in Nat /\ IsFiniteSet(Feeds(d))
      /\ \A p \in Int : Cardinality(Upto(d, p)) \in Nat
      /\ Cardinality(Upto(d, 0)) = 0 /\ Cardinality(Upto(d, Len(d))) = m
  BY FeedsCounted
<1>2. k \in Nat /\ k # 0 /\ k <= m /\ ~(k > m)
  BY <1>1
<1>3. \E i \in Feeds(d) : Cardinality(Upto(d, i)) = k
  <2> DEFINE P == {p \in 0..Len(d) : Cardinality(Upto(d, p)) >= k}
  <2>1. P \subseteq Nat /\ P # {}
    <3>1. 0..Len(d) \subseteq Nat /\ Len(d) \in 0..Len(d)
      BY <1>1
    <3>2. Cardinality(Upto(d, Len(d))) >= k
      BY <1>1, <1>2
    <3>3. Len(d) \in P
      BY <3>1, <3>2
    <3> QED
      BY <3>1, <3>3
  <2>2. PICK p \in P : \A q \in P : p <= q
    <3> HIDE DEF P
    <3> QED
      BY <2>1, Least
  <2>3. p \in 0..Len(d) /\ Cardinality(Upto(d, p)) >= k /\ p # 0
    BY <1>1, <1>2
  <2>4. p - 1 \in 0..Len(d) /\ p - 1 \in Int /\ p \in Int /\ ~(p <= p - 1)
    BY <1>1, <2>3
  <2>4a. p - 1 \notin P
    <3> HIDE DEF P
    <3> QED
      BY <2>2, <2>4
  <2> DEFINE here == Cardinality(Upto(d, p))
             before == Cardinality(Upto(d, p - 1))
  <2>4b. here \in Nat /\ before \in Nat /\ k \in Nat
    BY <1>1, <1>2, <2>4
  <2>5. before < k /\ here >= k
    BY <1>1, <1>2, <2>3, <2>4, <2>4a, <2>4b
  <2> HIDE DEF P
  <2>6. Upto(d, p) = IF p \in Feeds(d) THEN Upto(d, p - 1) \union {p} ELSE Upto(d, p - 1)
    BY <1>1, <2>4 DEF Upto
  <2>7. p \in Feeds(d)
    BY <2>5, <2>6, <2>4b
  <2>8. IsFiniteSet(Upto(d, p - 1))
    <3>1. Upto(d, p - 1) \in SUBSET Feeds(d)
      BY DEF Upto
    <3> QED
      BY <1>1, <3>1, FS_Subset
  <2>9. here = before \/ here = before + 1
    BY <2>6, <2>7, <2>8, FS_AddElement
  <2>10. here = k
    <3> HIDE DEF here, before
    <3> QED
      BY <2>4b, <2>5, <2>9
  <2> QED
    BY <2>7, <2>10
<1>4. LineEnd(d, k) = CHOOSE i \in Feeds(d) : Cardinality(Upto(d, i)) = k
  BY <1>2 DEF LineEnd, Upto
<1> QED
  BY <1>3, <1>4

\* The lines follow each other, from the beginning to the end of the text.
LEMMA LineEndsGrow ==
    ASSUME NEW d \in Seq(Bytes)
    PROVE  /\ LineEnd(d, 0) = 0
           /\ LineEnd(d, Cardinality(Feeds(d)) + 1) = Len(d) + 1
           /\ \A k \in 0..(Cardinality(Feeds(d)) + 1) : LineEnd(d, k) \in 0..(Len(d) + 1)
           /\ \A k \in 0..Cardinality(Feeds(d)) : Cardinality(Upto(d, LineEnd(d, k))) = k
           /\ \A k, l \in 0..(Cardinality(Feeds(d)) + 1) : k < l => LineEnd(d, k) < LineEnd(d, l)
<1> DEFINE m == Cardinality(Feeds(d))
<1>1. /\ Len(d) \in Nat /\ Feeds(d) \subseteq 1..Len(d) /\ m \in Nat
      /\ \A p \in Int : Cardinality(Upto(d, p)) \in Nat
      /\ Cardinality(Upto(d, 0)) = 0
  BY FeedsCounted
<1>2. LineEnd(d, 0) = 0
  BY DEF LineEnd
<1>3. LineEnd(d, m + 1) = Len(d) + 1
  <2>1. m + 1 # 0 /\ m + 1 > m
    BY <1>1
  <2> QED
    BY <2>1 DEF LineEnd
<1>4. \A k \in 1..m : LineEnd(d, k) \in Feeds(d) /\ Cardinality(Upto(d, LineEnd(d, k))) = k
  BY LineEndIsFeed
<1> HIDE DEF m
<1>5. \A k \in 0..m : LineEnd(d, k) \in 0..Len(d) /\ Cardinality(Upto(d, LineEnd(d, k))) = k
  BY <1>1, <1>2, <1>4
<1>6. \A k \in 0..(m + 1) : LineEnd(d, k) \in 0..(Len(d) + 1)
  <2> TAKE k \in 0..(m + 1)
  <2>1. CASE k = m + 1
    <3>1. Len(d) + 1 \in 0..(Len(d) + 1)
      BY <1>1
    <3> QED
      BY <1>3, <2>1, <3>1, Zenon
  <2>2. CASE k # m + 1
    <3>1. k \in 0..m
      BY <1>1, <2>2
    <3>2. LineEnd(d, k) \in 0..Len(d)
      BY <1>5, <3>1
    <3> QED
      BY <1>1, <3>2
  <2> QED
    BY <2>1, <2>2
<1>7. ASSUME NEW k \in 0..(m + 1), NEW l \in 0..(m + 1), k < l
      PROVE  LineEnd(d, k) < LineEnd(d, l)
  <2>1. k \in 0..m /\ LineEnd(d, k) \in 0..Len(d)
    BY <1>1, <1>5, <1>7
  <2>2. CASE l = m + 1
    BY <1>1, <1>3, <2>1, <2>2
  <2>3. CASE l # m + 1
    <3>1. l \in 0..m /\ LineEnd(d, l) \in 0..Len(d)
      BY <1>1, <1>5, <2>3
    <3>2. ASSUME LineEnd(d, l) <= LineEnd(d, k) PROVE FALSE
      <4>1. Cardinality(Upto(d, LineEnd(d, l))) <= Cardinality(Upto(d, LineEnd(d, k)))
        BY <2>1, <3>1, <3>2, CountGrows
      <4>2. l <= k
        BY <1>5, <2>1, <3>1, <4>1
      <4> QED
        BY <1>1, <1>7, <4>2
    <3> QED
      BY <1>1, <2>1, <3>1, <3>2
  <2> QED
    BY <2>2, <2>3
<1> QED
  BY <1>2, <1>3, <1>5, <1>6, <1>7 DEF m

\* The last line feed may be the end of the text.
LEMMA LastFeed ==
    ASSUME NEW d \in Seq(Bytes), EndsWithFeed(d)
    PROVE  /\ Cardinality(Feeds(d)) \in Nat \ {0}
           /\ LineEnd(d, Cardinality(Feeds(d))) = Len(d)
<1> DEFINE m == Cardinality(Feeds(d))
<1>1. /\ Len(d) \in Nat /\ Feeds(d) \subseteq 1..Len(d) /\ m \in Nat
      /\ IsFiniteSet(Feeds(d)) /\ Upto(d, Len(d)) = Feeds(d)
  BY FeedsCounted
<1>2. Len(d) \in Feeds(d)
  BY <1>1 DEF EndsWithFeed, Feeds, Last
<1>3. m # 0
  BY <1>1, <1>2, FS_EmptySet
<1>4. LineEnd(d, m) \in Feeds(d) /\ Cardinality(Upto(d, LineEnd(d, m))) = m
  <2>1. m \in 1..m
    BY <1>1, <1>3
  <2> QED
    BY <2>1, LineEndIsFeed
<1>5. LineEnd(d, m) \in 1..Len(d)
  BY <1>1, <1>4
<1>6. ASSUME LineEnd(d, m) < Len(d) PROVE FALSE
  <2>1. Cardinality(Upto(d, LineEnd(d, m))) < Cardinality(Upto(d, Len(d)))
    BY <1>1, <1>2, <1>5, <1>6, CountGrows
  <2> QED
    BY <1>1, <1>4, <2>1
<1> HIDE DEF m
<1>7. LineEnd(d, m) = Len(d)
  BY <1>1, <1>5, <1>6
<1> QED
  BY <1>1, <1>3, <1>7 DEF m

\* Whether what follows the last line feed is a line.
LinesOf(d) == IF EndsWithFeed(d) THEN Front(Lines(d)) ELSE Lines(d)

\* The lines that BoundLogLines chooses from, each between two ends of lines.
LEMMA LinesAre ==
    ASSUME NEW d \in Seq(Bytes)
    PROVE  LET lines == LinesOf(d)
               m == Cardinality(Feeds(d)) IN
           /\ m \in Nat
           /\ Len(lines) = IF EndsWithFeed(d) THEN m ELSE m + 1
           /\ Len(lines) \in Nat \ {0}
           /\ \A k \in 1..Len(lines) :
                  lines[k] = SubSeq(d, LineEnd(d, k - 1) + 1, LineEnd(d, k) - 1)
           /\ lines \in Seq(Seq(Bytes))
           /\ LineEnd(d, Len(lines)) = IF EndsWithFeed(d) THEN Len(d) ELSE Len(d) + 1
<1> DEFINE m == Cardinality(Feeds(d))
           line(k) == SubSeq(d, LineEnd(d, k - 1) + 1, LineEnd(d, k) - 1)
<1>1. m \in Nat /\ Len(d) \in Nat
  BY FeedsCounted
<1>2. \A k \in 0..(m + 1) : LineEnd(d, k) \in 0..(Len(d) + 1)
  BY LineEndsGrow
<1>3. ASSUME NEW k \in 1..(m + 1) PROVE line(k) \in Seq(Bytes)
  <2>1. /\ LineEnd(d, k - 1) \in 0..(Len(d) + 1) /\ LineEnd(d, k) \in 0..(Len(d) + 1)
        /\ LineEnd(d, k - 1) < LineEnd(d, k)
    <3>1. k \in 0..(m + 1) /\ k - 1 \in 0..(m + 1) /\ k - 1 < k
      BY <1>1
    <3> QED
      BY <3>1, LineEndsGrow
  <2>2. /\ LineEnd(d, k - 1) \in Nat /\ LineEnd(d, k) - 1 \in Nat
        /\ LineEnd(d, k - 1) <= LineEnd(d, k) - 1 /\ LineEnd(d, k) - 1 <= Len(d)
    BY <1>1, <2>1
  <2> QED
    BY <2>2, PartIs DEF Part
<1>4. Lines(d) = [k \in 1..(m + 1) |-> line(k)]
  BY DEF Lines
<1> HIDE DEF m, line
<1>5. /\ Lines(d) \in Seq(Seq(Bytes)) /\ Len(Lines(d)) = m + 1
      /\ \A k \in 1..(m + 1) : Lines(d)[k] = line(k)
  <2>1. Lines(d) \in [1..(m + 1) -> Seq(Bytes)]
    BY <1>3, <1>4
  <2> QED
    BY <1>1, <1>4, <2>1
<1>6. CASE EndsWithFeed(d)
  <2>1. m \in Nat \ {0} /\ LineEnd(d, m) = Len(d)
    BY <1>6, LastFeed DEF m
  <2>2. LinesOf(d) = SubSeq(Lines(d), 1, m)
    BY <1>1, <1>5, <1>6 DEF LinesOf, Front
  <2>3. \A k \in 1..m : Lines(d)[k] \in Seq(Bytes)
    BY <1>1, <1>3, <1>5
  <2>4. /\ LinesOf(d) \in Seq(Seq(Bytes)) /\ Len(LinesOf(d)) = m
        /\ \A k \in 1..m : LinesOf(d)[k] = Lines(d)[k]
    BY <1>1, <1>5, <2>1, <2>2, <2>3
  <2>5. \A k \in 1..m : LinesOf(d)[k] = line(k)
    BY <1>1, <1>5, <2>4
  <2> QED
    BY <1>6, <2>1, <2>4, <2>5 DEF m, line
<1>7. CASE ~EndsWithFeed(d)
  <2>1. LinesOf(d) = Lines(d) /\ m + 1 \in Nat \ {0}
    BY <1>1, <1>7 DEF LinesOf
  <2>2. LineEnd(d, m + 1) = Len(d) + 1
    BY LineEndsGrow DEF m
  <2> QED
    BY <1>1, <1>5, <1>7, <2>1, <2>2 DEF m, line
<1> QED
  BY <1>6, <1>7

\* Joining consecutive lines gives back that part of the text.
LEMMA JoinedIs ==
    ASSUME NEW d \in Seq(Bytes), NEW first \in 1..Len(LinesOf(d))
    PROVE  Joined(SubSeq(LinesOf(d), first, Len(LinesOf(d)))) =
               Part(d, LineEnd(d, first - 1), LineEnd(d, Len(LinesOf(d))) - 1)
<1> DEFINE m == Cardinality(Feeds(d))
           lines == LinesOf(d)
           last == Len(lines)
           E(k) == LineEnd(d, k)
           some == SubSeq(lines, first, last)
           count == last - first + 1
           start == E(first - 1)
           t == Part(d, start, E(last) - 1)
           c == [i \in 0..count |-> IF i = 0 THEN 0 ELSE E(first + i - 1) - 1 - start]
           s == [i \in 1..count |-> (IF i = 1 THEN <<>> ELSE <<"feed">>) \o some[i]]
<1>1. /\ m \in Nat /\ last \in Nat \ {0} /\ (last = m \/ last = m + 1)
      /\ lines \in Seq(Seq(Bytes))
      /\ \A k \in 1..last : lines[k] = Part(d, E(k - 1), E(k) - 1)
  BY LinesAre DEF Part
<1>2. Len(d) \in Nat
  OBVIOUS
<1>3. /\ \A k \in 0..(m + 1) : E(k) \in 0..(Len(d) + 1)
      /\ \A k, l \in 0..(m + 1) : k < l => E(k) < E(l)
      /\ \A k \in 1..m : d[E(k)] = "feed"
  BY LineEndsGrow, LineEndIsFeed DEF Feeds
<1> HIDE DEF E
<1>3a. first \in 1..last /\ last = Len(lines)
  OBVIOUS
<1> HIDE DEF m, last, lines
<1>4. /\ first \in Nat /\ 1 <= first /\ first <= last
      /\ count \in Nat \ {0} /\ first - 1 \in 0..(m + 1) /\ last \in 0..(m + 1)
  BY <1>1, <1>3a
<1>5. /\ start \in Nat /\ E(last) - 1 \in Nat /\ start <= E(last) - 1
      /\ E(last) - 1 <= Len(d)
  <2>1. first - 1 < last
    BY <1>4
  <2>2. E(first - 1) \in 0..(Len(d) + 1) /\ E(last) \in 0..(Len(d) + 1) /\ E(first - 1) < E(last)
    BY <1>3, <1>4, <2>1
  <2> DEFINE z == E(last)
  <2>3. start \in 0..(Len(d) + 1) /\ z \in 0..(Len(d) + 1) /\ start < z
    BY <2>2
  <2> HIDE DEF start, z
  <2>4. start \in Nat /\ z - 1 \in Nat /\ start <= z - 1 /\ z - 1 <= Len(d)
    BY <1>2, <2>3
  <2> QED
    BY <2>4 DEF z
<1>6. t \in Seq(Bytes) /\ Len(t) = E(last) - 1 - start
  BY <1>5, PartIs
<1>7. /\ some \in Seq(Seq(Bytes)) /\ Len(some) = count
      /\ \A i \in 1..count : some[i] = lines[first + i - 1]
  <2>1. \A i \in first..last : lines[i] \in Seq(Bytes)
    BY <1>1, <1>4, <1>3a
  <2> QED
    BY <1>1, <1>4, <2>1, SubSeqProperties
<1>8. Joined(some) = FlattenSeq(s)
  BY <1>7 DEF Joined
\* The i-th part of t, and what precedes it.
<1>9. ASSUME NEW i \in 1..count
      PROVE  /\ E(first + i - 1) \in Nat \ {0} /\ E(first + i - 2) \in Nat
             /\ start <= E(first + i - 2) /\ E(first + i - 2) < E(first + i - 1)
             /\ E(first + i - 1) <= E(last)
             /\ some[i] = Part(d, E(first + i - 2), E(first + i - 1) - 1)
             /\ i # 1 => d[E(first + i - 2)] = "feed" /\ E(first + i - 2) > start
  <2>1. /\ first + i - 1 \in 1..last /\ first + i - 1 \in 0..(m + 1)
        /\ first + i - 2 \in 0..(m + 1) /\ first + i - 2 < first + i - 1
        /\ (first + i - 1) - 1 = first + i - 2
        /\ (first - 1 = first + i - 2 \/ first - 1 < first + i - 2)
        /\ (first + i - 1 = last \/ first + i - 1 < last)
        /\ i # 1 => first + i - 2 \in 1..m /\ first - 1 < first + i - 2
    BY <1>1, <1>4
  <2>2. some[i] = Part(d, E(first + i - 2), E(first + i - 1) - 1)
    BY <1>1, <1>7, <2>1
  <2>3. E(first + i - 2) < E(first + i - 1) /\ E(first + i - 1) \in Nat /\ E(first + i - 2) \in Nat
    BY <1>3, <2>1
  <2>4. i # 1 => d[E(first + i - 2)] = "feed" /\ E(first + i - 2) > start
    BY <1>3, <1>4, <1>5, <2>1, <2>3
  <2>5. start <= E(first + i - 2)
    BY <1>3, <1>4, <1>5, <2>1, <2>3
  <2>6. E(first + i - 1) <= E(last)
    BY <1>3, <1>4, <1>5, <2>1, <2>3
  <2> QED
    BY <2>2, <2>3, <2>4, <2>5, <2>6
<1>10. /\ c \in [0..count -> 0..Len(t)] /\ c[0] = 0 /\ c[count] = Len(t)
       /\ \A i \in 1..count : c[i] = E(first + i - 1) - 1 - start
       /\ \A i \in 1..count : c[i - 1] = IF i = 1 THEN 0 ELSE E(first + i - 2) - 1 - start
  <2>1. \A i \in 1..count : i # 0 /\ i \in 0..count /\ c[i] = E(first + i - 1) - 1 - start
    BY <1>4
  <2>2. ASSUME NEW i \in 1..count PROVE E(first + i - 1) - 1 - start \in 0..Len(t)
    <3>1. /\ E(first + i - 1) \in Nat /\ E(first + i - 2) \in Nat /\ E(last) \in Nat
          /\ start <= E(first + i - 2) /\ E(first + i - 2) < E(first + i - 1)
          /\ E(first + i - 1) <= E(last)
      <4>1. E(last) \in Nat
        BY <1>3, <1>4
      <4> QED
        BY <1>9, <4>1
    <3> DEFINE x == E(first + i - 1)
               y == E(first + i - 2)
               z == E(last)
    <3>2. x \in Nat /\ y \in Nat /\ z \in Nat /\ start \in Nat /\ start <= y /\ y < x /\ x <= z
          /\ Len(t) = z - 1 - start
      BY <3>1, <1>5, <1>6
    <3> HIDE DEF x, y, z, start, t
    <3>3. x - 1 - start \in 0..Len(t)
      BY <3>2
    <3> QED
      BY <3>3 DEF x
  <2>3. c[0] = 0 /\ 0 \in 0..Len(t)
    BY <1>4, <1>5, <1>6
  <2>4. c[count] = Len(t)
    <3>1. first + count - 1 = last /\ count \in 1..count
      BY <1>4
    <3> QED
      BY <1>6, <2>1, <3>1
  <2>5. \A i \in 0..count : c[i] \in 0..Len(t)
    <3> TAKE i \in 0..count
    <3>1. CASE i = 0
      BY <2>3, <3>1
    <3>2. CASE i # 0
      <4>1. i \in 1..count
        BY <1>4, <3>2
      <4> QED
        BY <2>1, <2>2, <4>1
    <3> QED
      BY <3>1, <3>2
  <2>6. \A i \in 1..count : c[i - 1] = IF i = 1 THEN 0 ELSE E(first + i - 2) - 1 - start
    <3> TAKE i \in 1..count
    <3>1. CASE i = 1
      BY <2>3, <3>1
    <3>2. CASE i # 1
      <4>1. i - 1 \in 1..count /\ first + (i - 1) - 1 = first + i - 2
        BY <1>4, <3>2
      <4> QED
        BY <2>1, <3>2, <4>1
    <3> QED
      BY <3>1, <3>2
  <2> QED
    BY <2>1, <2>3, <2>4, <2>5, <2>6
<1>11. s \in Seq(Seq(Bytes)) /\ Len(s) = count
  <2>1. <<>> \in Seq(Bytes) /\ <<"feed">> \in Seq(Bytes)
    BY DEF Bytes
  <2>2. \A i \in 1..count : some[i] \in Seq(Bytes)
    BY <1>7
  <2>3. ASSUME NEW i \in 1..count
        PROVE  (IF i = 1 THEN <<>> ELSE <<"feed">>) \o some[i] \in Seq(Bytes)
    <3> DEFINE u == IF i = 1 THEN <<>> ELSE <<"feed">>
               v == some[i]
    <3>1. u \in Seq(Bytes) /\ v \in Seq(Bytes)
      BY <2>1, <2>2
    <3> HIDE DEF u, v
    <3>2. u \o v \in Seq(Bytes)
      BY <3>1, ConcatProperties
    <3> QED
      BY <3>2 DEF u, v
  <2> HIDE DEF some
  <2>4. s \in [1..count -> Seq(Bytes)]
    BY <2>3
  <2>5. count \in Nat
    BY <1>4
  <2> HIDE DEF s, count
  <2> QED
    BY <2>4, <2>5
<1>12. ASSUME NEW i \in 1..count
       PROVE  c[i - 1] <= c[i] /\ s[i] = Part(t, c[i - 1], c[i])
  <2> DEFINE x == E(first + i - 1)
             y == E(first + i - 2)
             z == E(last)
  <2>1. /\ x \in Nat \ {0} /\ y \in Nat /\ start <= y /\ y < x /\ x <= z
        /\ some[i] = Part(d, y, x - 1)
        /\ i # 1 => d[y] = "feed" /\ y > start
    BY <1>9
  <2>2. c[i] = x - 1 - start /\ c[i - 1] = IF i = 1 THEN 0 ELSE y - 1 - start
    BY <1>10
  <2>3. /\ start \in Nat /\ z - 1 \in Nat /\ start <= z - 1 /\ z - 1 <= Len(d)
        /\ t = Part(d, start, z - 1)
    BY <1>5
  <2>4. z \in Nat
    BY <1>3, <1>4
  <2>5. s[i] = (IF i = 1 THEN <<>> ELSE <<"feed">>) \o some[i]
    OBVIOUS
  <2>6. i = 1 => y = start
    <3>1. i = 1 => first + i - 2 = first - 1
      BY <1>4
    <3> QED
      BY <3>1
  <2> HIDE DEF x, y, z, c, s, t, start, some
  <2>7. \A a, b \in Nat : a <= b /\ b <= (z - 1) - start =>
            Part(t, a, b) = Part(d, start + a, start + b)
    BY <2>3, PartOfPart
  <2>8. CASE i = 1
    <3>1. /\ 0 \in Nat /\ x - 1 - start \in Nat /\ 0 <= x - 1 - start
          /\ x - 1 - start <= (z - 1) - start
          /\ start + 0 = start /\ start + (x - 1 - start) = x - 1
      BY <2>1, <2>3, <2>4, <2>6, <2>8
    <3>2. Part(t, 0, x - 1 - start) = Part(d, y, x - 1)
      BY <2>6, <2>7, <2>8, <3>1
    <3>3. some[i] \in Seq(Bytes)
      BY <1>7 DEF some
    <3>4. s[i] = some[i]
      BY <2>5, <2>8, <3>3, ConcatEmptySeq
    <3> QED
      BY <2>1, <2>2, <2>8, <3>1, <3>2, <3>4
  <2>9. CASE i # 1
    <3>1. /\ y - 1 - start \in Nat /\ x - 1 - start \in Nat /\ y - 1 - start <= x - 1 - start
          /\ x - 1 - start <= (z - 1) - start
          /\ start + (y - 1 - start) = y - 1 /\ start + (x - 1 - start) = x - 1
          /\ y \in Nat \ {0} /\ x - 1 \in Nat /\ y <= x - 1 /\ x - 1 <= Len(d)
      BY <1>2, <2>1, <2>3, <2>4, <2>9
    <3>2. Part(t, y - 1 - start, x - 1 - start) = Part(d, y - 1, x - 1)
      BY <2>7, <3>1
    <3>3. <<d[y]>> \o Part(d, y, x - 1) = Part(d, y - 1, x - 1)
      BY <3>1, PartGrows
    <3>4. s[i] = Part(d, y - 1, x - 1)
      BY <2>1, <2>5, <2>9, <3>3
    <3> QED
      BY <2>2, <2>9, <3>1, <3>2, <3>4
  <2> QED
    BY <2>8, <2>9
<1>13. FlattenSeq(s) = t
  <2> HIDE DEF s, t, c, count
  <2>1. \A i \in 1..Len(s) : c[i - 1] <= c[i] /\ s[i] = SubSeq(t, c[i - 1] + 1, c[i])
    BY <1>11, <1>12 DEF Part
  <2> QED
    BY <1>6, <1>10, <1>11, <2>1, FlattenedIs
<1> QED
  BY <1>8, <1>13 DEF some, lines, last, E

\* The number of lines that are left out.
Omitted(d, maximum) ==
    IF Len(LinesOf(d)) > maximum THEN Len(LinesOf(d)) - maximum ELSE 0

\* What remains is the text after the line feed of the last line left out.
LEMMA BoundLogLinesIs ==
    ASSUME NEW d \in Seq(Bytes), NEW maximum \in Nat \ {0}
    PROVE  /\ Omitted(d, maximum) \in 0..Cardinality(Feeds(d))
           /\ Omitted(d, maximum) < Len(LinesOf(d))
           /\ LineEnd(d, Omitted(d, maximum)) \in 0..Len(d)
           /\ BoundLogLines(d, maximum) = Part(d, LineEnd(d, Omitted(d, maximum)), Len(d))
<1> DEFINE m == Cardinality(Feeds(d))
           lines == LinesOf(d)
           last == Len(lines)
           first == IF last > maximum THEN last - maximum + 1 ELSE 1
           k == Omitted(d, maximum)
           E(i) == LineEnd(d, i)
           ending == IF EndsWithFeed(d) THEN <<"feed">> ELSE <<>>
<1>1. /\ m \in Nat /\ last \in Nat \ {0} /\ last = IF EndsWithFeed(d) THEN m ELSE m + 1
      /\ E(last) = IF EndsWithFeed(d) THEN Len(d) ELSE Len(d) + 1
  BY LinesAre
<1>2. Len(d) \in Nat /\ (EndsWithFeed(d) => d[Len(d)] = "feed")
  BY DEF EndsWithFeed, Last
<1>3. /\ \A i \in 0..(m + 1) : E(i) \in 0..(Len(d) + 1)
      /\ \A i, j \in 0..(m + 1) : i < j => E(i) < E(j)
  BY LineEndsGrow
<1>4. BoundLogLines(d, maximum) = Joined(SubSeq(lines, first, last)) \o ending
  BY DEF BoundLogLines, LinesOf
<1>5. k = IF last > maximum THEN last - maximum ELSE 0
  BY DEF Omitted
<1>6. first \in 1..last => Joined(SubSeq(lines, first, last)) = Part(d, E(first - 1), E(last) - 1)
  BY JoinedIs
<1> HIDE DEF m, lines, last, k, E, ending
<1>7. /\ first \in 1..last /\ first - 1 = k /\ k \in 0..m /\ k < last
      /\ k \in 0..(m + 1) /\ last \in 0..(m + 1)
  BY <1>1, <1>5
<1> DEFINE start == E(k)
           end == E(last)
<1>8. start \in Nat /\ end \in Nat /\ start < end /\ end <= Len(d) + 1
  BY <1>2, <1>3, <1>7
<1>9. BoundLogLines(d, maximum) = Part(d, start, end - 1) \o ending
  BY <1>4, <1>6, <1>7
<1> HIDE DEF start, end, first
<1>10. /\ start <= Len(d) /\ end - 1 \in Nat /\ start <= end - 1 /\ end - 1 <= Len(d)
  BY <1>2, <1>8
<1>11. Part(d, start, end - 1) \o ending = Part(d, start, Len(d))
  <2>1. CASE EndsWithFeed(d)
    <3>1. end = Len(d) /\ ending = <<"feed">> /\ d[end] = "feed"
      BY <1>1, <1>2, <2>1 DEF end, ending
    <3>3. SubSeq(d, start + 1, end - 1) \o SubSeq(d, end - 1 + 1, end) = SubSeq(d, start + 1, end)
      <4> DEFINE from == start + 1
                 cut == end - 1
      <4>1. /\ from \in 1..(Len(d) + 1) /\ cut \in Nat /\ from - 1 <= cut
            /\ cut <= Len(d) /\ cut <= end /\ end <= Len(d) /\ end \in Nat
        BY <1>2, <1>8, <1>10, <3>1
      <4> HIDE DEF from, cut
      <4>2. cut \in (from - 1)..Len(d) /\ end \in cut..Len(d)
        BY <1>2, <4>1
      <4>3. SubSeq(d, from, cut) \o SubSeq(d, cut + 1, end) = SubSeq(d, from, end)
        BY <4>1, <4>2, ConcatAdjacentSubSeq
      <4> QED
        BY <4>3 DEF from, cut
    <3>4. SubSeq(d, end - 1 + 1, end) = <<"feed">>
      <4>1. end - 1 + 1 = end /\ end \in 1..Len(d)
        BY <1>2, <1>8, <3>1
      <4>2. /\ \A i \in end..end : d[i] \in Bytes
            /\ end \in Int /\ end <= end /\ end - end + 1 = 1 /\ 1 \in 1..(end - end + 1)
            /\ end + 1 - 1 = end
        BY <1>8, <4>1
      <4>3. /\ SubSeq(d, end, end) \in Seq(Bytes) /\ Len(SubSeq(d, end, end)) = 1
            /\ SubSeq(d, end, end)[1] = d[end]
        BY <4>2, SubSeqProperties
      <4>4. <<"feed">> \in Seq(Bytes) /\ Len(<<"feed">>) = 1 /\ <<"feed">>[1] = "feed"
        BY DEF Bytes
      <4>5. \A i \in 1..1 : SubSeq(d, end, end)[i] = <<"feed">>[i]
        BY <3>1, <4>3, <4>4
      <4>6. SubSeq(d, end, end) = <<"feed">>
        BY <4>3, <4>4, <4>5, SameText
      <4> QED
        BY <4>1, <4>6
    <3> QED
      BY <3>1, <3>3, <3>4 DEF Part
  <2>2. CASE ~EndsWithFeed(d)
    <3>1. end - 1 = Len(d) /\ ending = <<>>
      BY <1>1, <1>2, <2>2 DEF end, ending
    <3>2. Part(d, start, end - 1) \in Seq(Bytes)
      BY <1>8, <1>10, PartIs
    <3>3. Part(d, start, end - 1) \o <<>> = Part(d, start, end - 1)
      BY <3>2, ConcatEmptySeq
    <3> QED
      BY <3>1, <3>3
  <2> QED
    BY <2>1, <2>2
<1>12. start \in 0..Len(d)
  BY <1>2, <1>8, <1>10
<1>13. BoundLogLines(d, maximum) = Part(d, start, Len(d))
  BY <1>9, <1>11
<1> QED
  BY <1>7, <1>12, <1>13 DEF start, E, k, m, last, lines

\* The line feeds of the end of a text.
LEMMA FeedsOfPart ==
    ASSUME NEW d \in Seq(Bytes), NEW a \in 0..Len(d)
    PROVE  LET rest == Part(d, a, Len(d)) IN
           /\ Cardinality(Feeds(rest)) = Cardinality(Feeds(d)) - Cardinality(Upto(d, a))
           /\ a # Len(d) => (EndsWithFeed(rest) <=> EndsWithFeed(d))
<1> DEFINE rest == Part(d, a, Len(d))
           Later == Feeds(d) \ Upto(d, a)
<1>1. /\ Len(d) \in Nat /\ Feeds(d) \subseteq 1..Len(d) /\ IsFiniteSet(Feeds(d))
      /\ Cardinality(Feeds(d)) \in Nat
  BY FeedsCounted
<1>2. /\ rest \in Seq(Bytes) /\ Len(rest) = Len(d) - a
      /\ \A i \in 1..(Len(d) - a) : rest[i] = d[a + i]
  <2> DEFINE b == Len(d)
  <2>1. a \in Nat /\ b \in Nat /\ a <= b /\ b <= Len(d)
    BY <1>1
  <2> HIDE DEF b
  <2>2. /\ Part(d, a, b) \in Seq(Bytes) /\ Len(Part(d, a, b)) = b - a
        /\ \A i \in 1..(b - a) : Part(d, a, b)[i] = d[a + i]
    BY <2>1, PartIs
  <2> QED
    BY <2>2 DEF b
<1> HIDE DEF rest
<1>3. Cardinality(Later) = Cardinality(Feeds(d)) - Cardinality(Upto(d, a))
  <2>1. Feeds(d) \intersect Upto(d, a) = Upto(d, a)
    BY DEF Upto
  <2> QED
    BY <1>1, <2>1, FS_Difference
<1>4. Cardinality(Feeds(rest)) = Cardinality(Later)
  <2> DEFINE f == [i \in Feeds(rest) |-> a + i]
  <2>1. /\ Feeds(rest) \subseteq 1..(Len(d) - a) /\ IsFiniteSet(Feeds(rest))
    BY <1>2, FeedsCounted
  <2>2. \A i \in Feeds(rest) : a + i \in Later
    BY <1>1, <1>2, <2>1 DEF Feeds, Upto
  <2>3. \A j \in Later : j - a \in Feeds(rest) /\ a + (j - a) = j
    BY <1>1, <1>2 DEF Feeds, Upto
  <2>4. \A i, j \in Feeds(rest) : a + i = a + j => i = j
    BY <1>1, <2>1
  <2> HIDE DEF Later
  <2>5. f \in Injection(Feeds(rest), Later)
    BY <2>2, <2>4 DEF Injection, IsInjective
  <2>6. f \in Surjection(Feeds(rest), Later)
    BY <2>2, <2>3 DEF Surjection
  <2>7. ExistsBijection(Feeds(rest), Later)
    BY <2>5, <2>6 DEF ExistsBijection, Bijection
  <2> QED
    BY <2>1, <2>7, FS_Bijection
<1>5. ASSUME a # Len(d) PROVE EndsWithFeed(rest) <=> EndsWithFeed(d)
  <2>1. Len(rest) = Len(d) - a /\ Len(d) - a \in 1..(Len(d) - a) /\ a + (Len(d) - a) = Len(d)
    BY <1>1, <1>2, <1>5
  <2>2. rest[Len(rest)] = d[Len(d)]
    BY <1>2, <2>1
  <2>3. rest # <<>> /\ d # <<>>
    BY <1>1, <1>2, <2>1
  <2> QED
    BY <2>2, <2>3 DEF EndsWithFeed, Last
<1> QED
  BY <1>3, <1>4, <1>5 DEF rest

\* A text has as many lines as bytes.Split finds in it without the last line feed.
LEMMA LineCountIs ==
    ASSUME NEW d \in Seq(Bytes), d # <<>>
    PROVE  LineCount(d) = Len(LinesOf(d))
<1>1. Len(LinesOf(d)) = IF EndsWithFeed(d) THEN Cardinality(Feeds(d)) ELSE Cardinality(Feeds(d)) + 1
  BY LinesAre
<1>2. Cardinality(Feeds(d)) \in Nat
  BY FeedsCounted
<1> QED
  BY <1>1, <1>2 DEF LineCount

\* No more lines remain than the maximum, and no fewer if there are that many.
LEMMA LinesRemain ==
    ASSUME NEW d \in Seq(Bytes), NEW maximum \in Nat \ {0}
    PROVE  LineCount(BoundLogLines(d, maximum)) =
               IF LineCount(d) < maximum THEN LineCount(d) ELSE maximum
<1> DEFINE k == Omitted(d, maximum)
           a == LineEnd(d, k)
           rest == BoundLogLines(d, maximum)
           m == Cardinality(Feeds(d))
           count == Len(LinesOf(d))
<1>1. /\ k \in 0..m /\ k < count /\ a \in 0..Len(d) /\ rest = Part(d, a, Len(d))
  BY BoundLogLinesIs
<1>2. m \in Nat /\ count \in Nat \ {0} /\ count = IF EndsWithFeed(d) THEN m ELSE m + 1
  BY LinesAre
<1>3. Cardinality(Upto(d, a)) = k
  BY <1>1, LineEndsGrow
<1>4. /\ Cardinality(Feeds(rest)) = m - k
      /\ a # Len(d) => (EndsWithFeed(rest) <=> EndsWithFeed(d))
  BY <1>1, <1>3, FeedsOfPart
<1>5. k = IF count > maximum THEN count - maximum ELSE 0
  BY DEF Omitted
<1>6. Len(d) \in Nat
  OBVIOUS
<1>7. /\ rest \in Seq(Bytes) /\ Len(rest) = Len(d) - a
  <2> HIDE DEF k, a
  <2> DEFINE b == Len(d)
  <2>1. a \in Nat /\ b \in Nat /\ a <= b /\ b <= Len(d)
    BY <1>1, <1>6
  <2> HIDE DEF b
  <2>2. Part(d, a, b) \in Seq(Bytes) /\ Len(Part(d, a, b)) = b - a
    BY <2>1, PartIs
  <2> QED
    BY <1>1, <2>2 DEF b
<1>8. CASE d = <<>>
  <2>1. Len(d) = 0 /\ Feeds(d) = {} /\ rest = <<>>
    BY <1>1, <1>6, <1>7, <1>8 DEF Feeds
  <2>2. LineCount(<<>>) = 0
    BY <1>8, <2>1, FS_EmptySet DEF LineCount
  <2> QED
    BY <1>8, <2>1, <2>2
<1>9. CASE d # <<>>
  <2>1. LineCount(d) = count
    BY <1>9, LineCountIs
  <2>2. a # Len(d)
    <3>1. CASE EndsWithFeed(d)
      <4>1. LineEnd(d, m) = Len(d) /\ k < m
        BY <1>1, <1>2, <3>1, LastFeed
      <4>2. k \in 0..(m + 1) /\ m \in 0..(m + 1) /\ a \in Int
        BY <1>1, <1>2, <1>6
      <4>3. a < LineEnd(d, m)
        BY <4>1, <4>2, LineEndsGrow
      <4> QED
        BY <4>1, <4>2, <4>3
    <3>2. CASE ~EndsWithFeed(d)
      <4>1. CASE k = 0
        <5>1. a = 0
          BY <4>1, LineEndsGrow
        <5>2. Len(d) # 0
          BY <1>9
        <5> QED
          BY <5>1, <5>2
      <4>2. CASE k # 0
        <5>1. a \in Feeds(d)
          BY <1>1, <1>2, <4>2, LineEndIsFeed
        <5> QED
          BY <1>9, <3>2, <5>1 DEF Feeds, EndsWithFeed, Last
      <4> QED
        BY <4>1, <4>2
    <3> QED
      BY <3>1, <3>2
  <2>3. rest # <<>> /\ (EndsWithFeed(rest) <=> EndsWithFeed(d))
    <3>1. Len(rest) # 0
      BY <1>1, <1>6, <1>7, <2>2
    <3> QED
      BY <1>4, <2>2, <3>1
  <2>4. LineCount(rest) = (m - k) + IF EndsWithFeed(d) THEN 0 ELSE 1
    BY <1>4, <2>3 DEF LineCount
  <2> HIDE DEF k, a, rest, m, count
  <2>5. LineCount(rest) = count - k
    BY <1>1, <1>2, <2>4
  <2>6. count - k = IF count < maximum THEN count ELSE maximum
    BY <1>2, <1>5
  <2> QED
    BY <2>1, <2>5, <2>6 DEF rest
<1> QED
  BY <1>8, <1>9

-----------------------------------------------------------------------------
(* The call                                                                *)

\* What the user is told, and what the Error Log says, of an error.
IsExplained(error) ==
    /\ error.cause = "deadline" => SafeDiagnostic(error) = "timeout"
    /\ IsExpected(error) <=> error.cause = None
    /\ SafeDiagnostic(error) # "not_found"

CallInv ==
    /\ tty \in BOOLEAN
    /\ step = "read" => stream \in Logs
    /\ step # "done" => shown = None /\ failure = None
    /\ shown # None => /\ stream \in Logs /\ Len(stream) <= MaxLogBytes
                       /\ shown = BoundLogLines(Text, LogTailLines)
    /\ failure # None => IsExplained(failure)

\* A call begins without a text and without an error.
LEMMA CallStarts == CallInit => CallInv
BY DEF CallInit, CallInv

\* The limits are numbers.
LEMMA Limits ==
    /\ LogTailLines \in Nat \ {0} /\ MaxLogBytes \in Nat /\ MaxStream \in Nat
    /\ \A n \in 0..MaxStream : n \in Nat
<1>1. LogTailLines \in Nat \ {0} /\ MaxLogBytes \in Nat /\ MaxStream \in Nat
  BY LogAssumption
<1> QED
  BY <1>1

\* What Docker sends is a text.
LEMMA LogsAreBytes == \A log \in Logs : log \in Seq(Bytes)
<1> TAKE log \in Logs
<1>1. PICK n \in 0..MaxStream : log \in [1..n -> {"header", "feed", "text", "invalid"}]
  BY DEF Logs
<1>2. n \in Nat
  BY Limits
<1>3. log \in [1..n -> Bytes]
  BY <1>1 DEF Bytes
<1> QED
  BY <1>2, <1>3

\* An error of the backend goes to the Error Log, under its name.
LEMMA BackendIsExplained ==
    ASSUME NEW e, e.is = "backend", e.kind # "not_found", e.cause # None
    PROVE  IsExplained(e)
<1>1. ~IsExpected(e)
  BY DEF IsExpected
<1>2. e.cause = "deadline" => SafeDiagnostic(e) = "timeout"
  BY DEF SafeDiagnostic
<1>3. SafeDiagnostic(e) # "not_found"
  BY DEF SafeDiagnostic
<1> QED
  BY <1>1, <1>2, <1>3 DEF IsExplained

\* An error that is shown to the user as it is has no cause.
LEMMA ExpectedIsExplained ==
    ASSUME NEW e, e.cause = None, e.kind = None,
           e.is \in {"server not found", "not a Docker server", "container not found", "invalid id"}
    PROVE  IsExplained(e)
<1>1. IsExpected(e)
  BY DEF IsExpected
<1>2. e.cause # "too large" /\ e.cause # "deadline"
  BY LogAssumption
<1>3. SafeDiagnostic(e) = "operation failed"
  BY <1>2 DEF SafeDiagnostic
<1> QED
  BY <1>1, <1>2, <1>3 DEF IsExplained

\* Whatever the registry, Docker or the reader fails with is explained.
LEMMA ErrorsAreExplained ==
    /\ \A is \in {"server not found", "not a Docker server", "invalid id"} :
           IsExplained(Error(is, None, None))
    /\ \A cause \in Causes : /\ IsExplained(Error("backend", None, cause))
                             /\ IsExplained(MapOperationError("protocol", cause))
    /\ \A cause \in DockerCauses :
           IsExplained(MapOperationError(ClassifyClientFailure(cause), cause))
    /\ IsExplained(MapOperationError(None, "too large"))
<1>1. Causes \subseteq {"other", "deadline", "cancelled"}
  BY DEF Causes
<1>2. DockerCauses \subseteq
          {"other", "deadline", "cancelled", "permission", "not found", "unavailable"}
  BY <1>1 DEF DockerCauses
<1>3. \A is, kind, cause : /\ Error(is, kind, cause).is = is /\ Error(is, kind, cause).kind = kind
                           /\ Error(is, kind, cause).cause = cause
  BY DEF Error
<1>4. /\ None # "other" /\ None # "deadline" /\ None # "cancelled" /\ None # "permission"
      /\ None # "not found" /\ None # "unavailable" /\ None # "too large" /\ None # "not_found"
  BY LogAssumption
<1>5. \A kind, cause : kind # "not_found" /\ cause # None =>
          IsExplained(Error("backend", kind, cause))
  BY <1>3, BackendIsExplained
<1>6. \A is \in {"server not found", "not a Docker server", "container not found", "invalid id"} :
          IsExplained(Error(is, None, None))
  <2> TAKE is \in {"server not found", "not a Docker server", "container not found", "invalid id"}
  <2> DEFINE e == Error(is, None, None)
  <2>1. e.cause = None /\ e.kind = None /\ e.is = is
    BY DEF Error
  <2> HIDE DEF e
  <2>2. IsExplained(e)
    BY <2>1, ExpectedIsExplained
  <2> QED
    BY <2>2 DEF e
<1>7. \A kind, cause : cause # None => IsExplained(MapOperationError(kind, cause))
  BY <1>5, <1>6 DEF MapOperationError
<1> QED
  BY <1>1, <1>2, <1>4, <1>5, <1>6, <1>7

\* What was read is what was sent if it is within the limit.
LEMMA AllWasRead ==
    ASSUME stream \in Logs, Len(LimitReader) <= MaxLogBytes
    PROVE  LimitReader = stream /\ Len(stream) <= MaxLogBytes
<1> DEFINE n == Len(stream)
<1>1. stream \in Seq(Bytes) /\ n \in Nat /\ MaxLogBytes \in Nat
  BY LogsAreBytes, Limits
<1>2. LimitReader = SubSeq(stream, 1, IF n < MaxLogBytes + 1 THEN n ELSE MaxLogBytes + 1)
  BY DEF LimitReader, Prefix
<1>3. CASE n < MaxLogBytes + 1
  <2>1. LimitReader = SubSeq(stream, 1, Len(stream))
    BY <1>2, <1>3
  <2>2. LimitReader = stream
    BY <1>1, <2>1, SubSeqFull
  <2>3. n <= MaxLogBytes
    BY <1>1, <1>3
  <2> QED
    BY <2>2, <2>3
<1>4. CASE ~(n < MaxLogBytes + 1)
  <2> DEFINE b == MaxLogBytes + 1
  <2>1. LimitReader = Part(stream, 0, b)
    <3>1. 0 + 1 = 1
      OBVIOUS
    <3>2. LimitReader = SubSeq(stream, 1, b)
      BY <1>2, <1>4
    <3> HIDE DEF b, n
    <3> QED
      BY <3>1, <3>2 DEF Part
  <2>2. b \in Nat /\ 0 \in Nat /\ 0 <= b /\ b <= Len(stream)
    BY <1>1, <1>4
  <2> HIDE DEF b
  <2>3. Len(Part(stream, 0, b)) = b - 0
    BY <1>1, <2>2, PartIs
  <2>4. Len(LimitReader) = b
    BY <2>1, <2>2, <2>3
  <2>5. b > MaxLogBytes
    BY <1>1 DEF b
  <2> QED
    BY <1>1, <2>2, <2>4, <2>5
<1> QED
  BY <1>3, <1>4

\* Every step of a call keeps the invariant.
LEMMA CallSteps == CallInv /\ [CallNext]_callVars => CallInv'
<1> SUFFICES ASSUME CallInv, [CallNext]_callVars PROVE CallInv'
  OBVIOUS
<1>1. ASSUME tty' = tty, stream' = stream, failure' = failure, shown' = shown,
             step' = step \/ (step' = "inspect" /\ step # "done")
      PROVE  CallInv'
  BY <1>1 DEF CallInv, Text
\* An error ends the call.
<1>2. ASSUME NEW error, IsExplained(error), step # "done", End(error), UNCHANGED <<tty, stream>>
      PROVE  CallInv'
  BY <1>2 DEF CallInv, End, IsExplained, SafeDiagnostic, IsExpected
<1>3. CASE GetDockerServer
  BY <1>1, <1>2, <1>3, ErrorsAreExplained DEF GetDockerServer, Continue
<1>4. CASE ContainerInspect
  <2>1. CASE Continue("logs") /\ tty' \in BOOLEAN
    BY <1>4, <2>1 DEF ContainerInspect, CallInv, Continue
  <2>2. CASE FailsWith(DockerCauses) /\ UNCHANGED tty
    BY <1>2, <1>4, <2>2, ErrorsAreExplained DEF ContainerInspect, FailsWith
  <2> QED
    BY <1>4, <2>1, <2>2 DEF ContainerInspect
<1>5. CASE ContainerLogs
  <2>1. CASE Continue("read") /\ stream' \in Logs
    BY <1>5, <2>1 DEF ContainerLogs, CallInv, Continue, Logs
  <2>2. CASE FailsWith(DockerCauses) /\ UNCHANGED stream
    BY <1>2, <1>5, <2>2, ErrorsAreExplained DEF ContainerLogs, FailsWith
  <2> QED
    BY <1>5, <2>1, <2>2 DEF ContainerLogs
<1>6. CASE ReadLogs
  <2> DEFINE Show(text) == /\ step' = "done" /\ UNCHANGED failure
                           /\ shown' = BoundLogLines(ToValidUTF8(text), LogTailLines)
  <2>1. /\ step = "read" /\ stream \in Logs /\ failure = None
        /\ UNCHANGED <<timedOut, left, tty, stream>>
    BY <1>6 DEF ReadLogs, CallInv
  <2>2. ASSUME NEW cause \in Causes, End(MapOperationError("protocol", cause))
        PROVE  CallInv'
    BY <1>2, <2>1, <2>2, ErrorsAreExplained
  <2>3. ASSUME End(MapOperationError(None, "too large")) PROVE CallInv'
    BY <1>2, <2>1, <2>3, ErrorsAreExplained
  <2>4. ASSUME NEW text, Show(text), Len(stream) <= MaxLogBytes,
               text = IF tty THEN stream ELSE Demultiplexed(stream)
        PROVE  CallInv'
    <3>1. tty' = tty /\ stream' = stream /\ failure' = None /\ step' = "done"
      BY <2>1, <2>4
    <3>2. Text' = ToValidUTF8(text)
      BY <2>4, <3>1 DEF Text
    <3>3. shown' = BoundLogLines(Text', LogTailLines)
      BY <2>4, <3>2
    <3>4. (stream \in Logs)' /\ (Len(stream) <= MaxLogBytes)'
      BY <2>1, <2>4, <3>1
    <3> QED
      BY <3>1, <3>3, <3>4 DEF CallInv
  <2>5. "other" \in Causes
    BY DEF Causes
  <2>6. CASE Len(LimitReader) <= MaxLogBytes
    <3>1. LimitReader = stream /\ Len(stream) <= MaxLogBytes
      BY <2>1, <2>6, AllWasRead
    <3> QED
      BY <1>6, <2>2, <2>3, <2>4, <2>5, <3>1 DEF ReadLogs
  <2>7. CASE ~(Len(LimitReader) <= MaxLogBytes)
    BY <1>6, <2>2, <2>3, <2>7 DEF ReadLogs
  <2> QED
    BY <2>6, <2>7
<1>7. CASE Timeout \/ Leave
  BY <1>1, <1>7 DEF Timeout, Leave
<1>8. CASE UNCHANGED callVars
  BY <1>1, <1>8 DEF callVars
<1> QED
  BY <1>3, <1>4, <1>5, <1>6, <1>7, <1>8 DEF CallNext

\* The invariant of a call: what is shown is the end of the whole log that was sent,
\* which was within the limit, and every error is explained.
THEOREM CallInvariantHolds == ViewLogs => []CallInv
<1> QED
  BY CallStarts, CallSteps, PTL DEF ViewLogs

\* Whatever fails, and whenever, ViewLogs returns one of its errors, of which
\* "not found" has no kind.  (mapOperationError and classifyClientFailure.)
LEMMA ErrorsAreTyped ==
    /\ \A is \in {"server not found", "not a Docker server", "invalid id"} :
           Error(is, None, None) \in Errors
    /\ \A cause \in Causes : /\ Error("backend", None, cause) \in Errors
                             /\ MapOperationError("protocol", cause) \in Errors
    /\ \A cause \in DockerCauses :
           MapOperationError(ClassifyClientFailure(cause), cause) \in Errors
    /\ MapOperationError(None, "too large") \in Errors
<1>1. Causes \subseteq {"other", "deadline", "cancelled"}
  BY DEF Causes
<1>2. DockerCauses \subseteq
          {"other", "deadline", "cancelled", "permission", "not found", "unavailable"}
  BY <1>1 DEF DockerCauses
<1>3. \A cause \in DockerCauses : ClassifyClientFailure(cause) \in
          {"timeout", "permission_denied", "not_found", "unavailable", "protocol"}
  BY <1>2 DEF ClassifyClientFailure
<1>4. None # "not_found"
  BY LogAssumption
<1> QED
  BY <1>1, <1>2, <1>3, <1>4 DEF Error, MapOperationError, Errors

\* A log view goes through its steps in any of its ways without leaving its types.
THEOREM CallTypeCorrect == ViewLogs => []CallTypeOK
<1>1. CallInit => CallTypeOK
  BY DEF CallInit, CallTypeOK
<1>2. CallTypeOK /\ [CallNext]_callVars => CallTypeOK'
  <2> SUFFICES ASSUME CallTypeOK, [CallNext]_callVars PROVE CallTypeOK'
    OBVIOUS
  <2>1. ASSUME NEW error \in Errors, End(error), timedOut' = timedOut, left' = left,
               tty' = tty, stream' = stream
        PROVE  CallTypeOK'
    BY <2>1 DEF CallTypeOK, End
  <2>2. CASE GetDockerServer
    <3>1. CASE Continue("inspect")
      BY <2>2, <3>1 DEF GetDockerServer, CallTypeOK, Continue
    <3> QED
      BY <2>1, <2>2, <3>1, ErrorsAreTyped DEF GetDockerServer
  <2>3. CASE ContainerInspect
    <3>1. CASE Continue("logs") /\ tty' \in BOOLEAN
      BY <2>3, <3>1 DEF ContainerInspect, CallTypeOK, Continue
    <3> QED
      BY <2>1, <2>3, <3>1, ErrorsAreTyped DEF ContainerInspect, FailsWith
  <2>4. CASE ContainerLogs
    <3>1. CASE Continue("read") /\ stream' \in Logs
      BY <2>4, <3>1 DEF ContainerLogs, CallTypeOK, Continue
    <3> QED
      BY <2>1, <2>4, <3>1, ErrorsAreTyped DEF ContainerLogs, FailsWith
  <2>5. CASE ReadLogs
    <3>1. CASE step' = "done" /\ failure' = failure
      BY <2>5, <3>1 DEF ReadLogs, CallTypeOK
    <3>2. "other" \in Causes
      BY DEF Causes
    <3>3. CASE ~(step' = "done" /\ failure' = failure)
      BY <2>1, <2>5, <3>2, <3>3, ErrorsAreTyped DEF ReadLogs
    <3> QED
      BY <3>1, <3>3
  <2>6. CASE Timeout \/ Leave
    <3>1. /\ UNCHANGED <<step, tty, stream, failure>>
          /\ timedOut' \in {timedOut, TRUE} /\ left' \in {left, TRUE}
      BY <2>6 DEF Timeout, Leave
    <3> QED
      BY <3>1 DEF CallTypeOK
  <2>7. CASE UNCHANGED callVars
    BY <2>7 DEF callVars, CallTypeOK
  <2> QED
    BY <2>2, <2>3, <2>4, <2>5, <2>6, <2>7 DEF CallNext
<1> QED
  BY <1>1, <1>2, PTL DEF ViewLogs

\* A deadline is named as such in the Error Log, in whichever step it struck, and the
\* user is told that the container does not exist only if Docker or its identifier
\* said so (mapOperationError, safeDiagnostic, operationErrorPresentation).
THEOREM FailureIsExplainedHolds == ViewLogs => []FailureIsExplained
<1>1. CallInv => FailureIsExplained
  BY DEF CallInv, FailureIsExplained, IsExplained
<1> QED
  BY <1>1, CallInvariantHolds, PTL

\* The text that the page shows the end of.
LEMMA TextIs ==
    ASSUME CallInv, shown # None
    PROVE  /\ Text \in Seq(Bytes) /\ Len(Text) <= 2 * MaxLogBytes + 1
           /\ LineEnd(Text, Omitted(Text, LogTailLines)) \in 0..Len(Text)
           /\ shown = Part(Text, LineEnd(Text, Omitted(Text, LogTailLines)), Len(Text))
<1>1. stream \in Logs /\ Len(stream) <= MaxLogBytes /\ shown = BoundLogLines(Text, LogTailLines)
  BY DEF CallInv
<1>2. stream \in Seq(Bytes)
  BY <1>1, LogsAreBytes
<1> DEFINE data == IF tty THEN stream ELSE Demultiplexed(stream)
<1>3. data \in Seq(Bytes) /\ Len(data) \in Nat /\ Len(data) <= MaxLogBytes
  <2>1. /\ Demultiplexed(stream) \in Seq(Bytes)
        /\ Len(Demultiplexed(stream)) <= Len(stream)
    BY <1>2, DemultiplexedIs
  <2>2. Len(stream) \in Nat /\ MaxLogBytes \in Nat
    BY <1>2, Limits
  <2>3. Len(Demultiplexed(stream)) \in Nat
    BY <2>1
  <2>4. Len(Demultiplexed(stream)) <= MaxLogBytes
    BY <1>1, <2>1, <2>2, <2>3
  <2>5. CASE tty
    BY <1>1, <1>2, <2>2, <2>5
  <2>6. CASE ~tty
    BY <2>1, <2>3, <2>4, <2>6
  <2> QED
    BY <2>5, <2>6
<1>4. Text = ToValidUTF8(data)
  BY DEF Text
<1> HIDE DEF data
<1>5. Text \in Seq(Bytes) /\ Len(Text) <= 2 * Len(data) + 1 /\ Len(Text) \in Nat
  BY <1>3, <1>4, ToValidUTF8Is
<1>6. Len(Text) <= 2 * MaxLogBytes + 1
  <2> DEFINE n == Len(data)
             l == Len(Text)
  <2>1. n \in Nat /\ l \in Nat /\ MaxLogBytes \in Nat /\ n <= MaxLogBytes /\ l <= 2 * n + 1
    BY <1>3, <1>5, Limits
  <2> HIDE DEF n, l
  <2>2. l <= 2 * MaxLogBytes + 1
    BY <2>1
  <2> QED
    BY <2>2 DEF l
<1>7. /\ LineEnd(Text, Omitted(Text, LogTailLines)) \in 0..Len(Text)
      /\ BoundLogLines(Text, LogTailLines) =
             Part(Text, LineEnd(Text, Omitted(Text, LogTailLines)), Len(Text))
  BY <1>5, Limits, BoundLogLinesIs
<1> QED
  BY <1>1, <1>5, <1>6, <1>7

\* Whatever Docker sends and however it is replaced (strings.ToValidUTF8), the shown
\* text is not much longer than twice the limit of readLogs.
THEOREM ShownIsBoundedHolds == ViewLogs => []ShownIsBounded
<1>1. CallInv => ShownIsBounded
  <2> SUFFICES ASSUME CallInv, shown # None PROVE Len(shown) <= 2 * MaxLogBytes + 1
    BY DEF ShownIsBounded
  <2> DEFINE a == LineEnd(Text, Omitted(Text, LogTailLines))
             b == Len(Text)
  <2>1. /\ Text \in Seq(Bytes) /\ b <= 2 * MaxLogBytes + 1 /\ a \in 0..b /\ shown = Part(Text, a, b)
    BY TextIs
  <2>2. b \in Nat /\ b <= Len(Text)
    BY <2>1
  <2> HIDE DEF a, b
  <2>3. a \in Nat /\ a <= b
    BY <2>1, <2>2
  <2>4. Len(shown) = b - a
    BY <2>1, <2>2, <2>3, PartIs
  <2> QED
    BY <2>1, <2>2, <2>3, <2>4, Limits
<1> QED
  BY <1>1, CallInvariantHolds, PTL

\* What remains of a text is a suffix of it.
LEMMA PartIsSuffix ==
    ASSUME NEW d \in Seq(Bytes), NEW a \in Nat, a <= Len(d)
    PROVE  IsSuffix(Part(d, a, Len(d)), d)
<1> DEFINE b == Len(d)
           rest == Part(d, a, b)
<1>1. b \in Nat /\ a <= b /\ b <= Len(d)
  OBVIOUS
<1>2. /\ rest \in Seq(Bytes) /\ Len(rest) = b - a
      /\ \A i \in 1..(b - a) : rest[i] = d[a + i]
  <2> HIDE DEF b
  <2> QED
    BY <1>1, PartIs
<1> HIDE DEF rest
<1>3. /\ Reverse(rest) \in Seq(Bytes) /\ Len(Reverse(rest)) = b - a
      /\ \A i \in 1..(b - a) : Reverse(rest)[i] = rest[b - a - i + 1]
  BY <1>1, <1>2 DEF Reverse
<1>4. /\ Reverse(d) \in Seq(Bytes) /\ Len(Reverse(d)) = b
      /\ \A i \in 1..b : Reverse(d)[i] = d[b - i + 1]
  BY <1>1 DEF Reverse
<1> DEFINE x == Reverse(rest)
           y == Reverse(d)
           n == b - a
<1> HIDE DEF x, y, b
<1>5. n \in Nat /\ n <= Len(y) /\ 0 <= n /\ n - 0 = n
  BY <1>1, <1>4 DEF y
<1>6. Part(x, 0, n) = Part(y, 0, n)
  <2>1. x \in Seq(Bytes) /\ y \in Seq(Bytes) /\ Len(x) = n
    BY <1>3, <1>4 DEF x, y
  <2>2. \A i \in 1..n : x[i] = y[i]
    <3> TAKE i \in 1..n
    <3>1. /\ b - a - i + 1 \in 1..(b - a) /\ a + (b - a - i + 1) = b - i + 1 /\ i \in 1..b
      BY <1>1
    <3> QED
      BY <1>2, <1>3, <1>4, <3>1 DEF x, y
  <2> HIDE DEF n
  <2>3. /\ Part(x, 0, n) \in Seq(Bytes) /\ Len(Part(x, 0, n)) = n
        /\ \A i \in 1..n : Part(x, 0, n)[i] = x[0 + i]
    <3> DEFINE o == 0
    <3>1. o \in Nat /\ n \in Nat /\ o <= n /\ n <= Len(x) /\ n - o = n
      BY <1>5, <2>1
    <3> HIDE DEF o
    <3>2. /\ Part(x, o, n) \in Seq(Bytes) /\ Len(Part(x, o, n)) = n - o
          /\ \A i \in 1..(n - o) : Part(x, o, n)[i] = x[o + i]
      BY <2>1, <3>1, PartIs
    <3> QED
      BY <3>1, <3>2 DEF o
  <2>4. /\ Part(y, 0, n) \in Seq(Bytes) /\ Len(Part(y, 0, n)) = n
        /\ \A i \in 1..n : Part(y, 0, n)[i] = y[0 + i]
    <3> DEFINE o == 0
    <3>1. o \in Nat /\ n \in Nat /\ o <= n /\ n <= Len(y) /\ n - o = n
      BY <1>5
    <3> HIDE DEF o
    <3>2. /\ Part(y, o, n) \in Seq(Bytes) /\ Len(Part(y, o, n)) = n - o
          /\ \A i \in 1..(n - o) : Part(y, o, n)[i] = y[o + i]
      BY <2>1, <3>1, PartIs
    <3> QED
      BY <3>1, <3>2 DEF o
  <2>5. \A i \in 1..n : Part(x, 0, n)[i] = Part(y, 0, n)[i]
    BY <1>5, <2>2, <2>3, <2>4
  <2> HIDE DEF Part
  <2> QED
    BY <2>3, <2>4, <2>5, SameText
<1>7. Len(x) = n
  BY <1>3 DEF x
<1>8. IsPrefix(x, y)
  BY <1>5, <1>6, <1>7 DEF IsPrefix, Part
<1> QED
  BY <1>8 DEF IsSuffix, x, y, rest, b

\* The page shows whole lines from the end of the log that was sent, with nothing after
\* them missing, and as many as there are up to LogTailLines (boundLogLines).
THEOREM ShownIsTheEndHolds == ViewLogs => []ShownIsTheEnd
<1>1. CallInv => ShownIsTheEnd
  <2> SUFFICES ASSUME CallInv, shown # None PROVE ShownIsTheEnd
    BY DEF ShownIsTheEnd
  <2> DEFINE k == Omitted(Text, LogTailLines)
             a == LineEnd(Text, k)
             t == Text
  <2>1. /\ t \in Seq(Bytes) /\ a \in 0..Len(t) /\ shown = Part(t, a, Len(t))
    BY TextIs
  <2>2. shown = BoundLogLines(t, LogTailLines)
    BY DEF CallInv
  <2>3. LogTailLines \in Nat \ {0}
    BY Limits
  <2>4. /\ k \in 0..Cardinality(Feeds(t))
        /\ k = 0 => a = 0
        /\ k # 0 => a \in Feeds(t)
    <3>1. k \in 0..Cardinality(Feeds(t))
      BY <2>1, <2>3, BoundLogLinesIs
    <3>2. k = 0 => a = 0
      BY DEF LineEnd
    <3>3. Cardinality(Feeds(t)) \in Nat
      BY <2>1, FeedsCounted
    <3>4. k # 0 => k \in 1..Cardinality(Feeds(t))
      BY <3>1, <3>3
    <3> QED
      BY <2>1, <3>1, <3>2, <3>4, LineEndIsFeed
  <2>5. LineCount(shown) = IF LineCount(t) < LogTailLines THEN LineCount(t) ELSE LogTailLines
    BY <2>1, <2>2, <2>3, LinesRemain
  <2> HIDE DEF k, a, t
  <2>6. Len(t) \in Nat /\ a \in Nat /\ a <= Len(t)
    BY <2>1
  <2>7. IsSuffix(shown, t)
    BY <2>1, <2>6, PartIsSuffix
  <2>8. Len(shown) = Len(t) - a
    <3> DEFINE b == Len(t)
    <3>1. b \in Nat /\ a <= b /\ b <= Len(t)
      BY <2>6
    <3> HIDE DEF b
    <3>2. Len(Part(t, a, b)) = b - a
      BY <2>1, <2>6, <3>1, PartIs
    <3> QED
      BY <2>1, <3>2 DEF b
  <2>9. ASSUME shown # t PROVE t[Len(t) - Len(shown)] = "feed"
    <3>1. a # 0
      <4>1. SubSeq(t, 1, Len(t)) = t
        BY <2>1, SubSeqFull
      <4> QED
        BY <2>1, <2>9, <4>1 DEF Part
    <3>2. a \in Feeds(t)
      BY <2>4, <3>1
    <3>3. Len(t) - Len(shown) = a
      BY <2>6, <2>8
    <3> QED
      BY <3>2, <3>3 DEF Feeds
  <2> QED
    BY <2>5, <2>7, <2>9 DEF ShownIsTheEnd, t
<1> QED
  BY <1>1, CallInvariantHolds, PTL
=============================================================================
