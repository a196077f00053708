--------------------------- MODULE Records_proofs ---------------------------
(***************************************************************************)
(* Proofs about the two records GoPanel keeps of what it does: the audit   *)
(* log and the diagnostics.                                                *)
(*                                                                         *)
(* Registration, for any set of requests: its safety invariants, the       *)
(* finality of a verdict, and that it implements AuditedOperation.         *)
(*                                                                         *)
(* Recorder, for any window size, any callers and any supply of            *)
(* references: the records are the newest MaxRecords of the history, and   *)
(* a reference that was shown can be traced.                               *)
(***************************************************************************)
EXTENDS Registration, Recorder, TLAPS

-----------------------------------------------------------------------------
(* Registration *)

\* The inductive invariant of Registration.
RegistrationInv == TypeOK /\ AuditTruth /\ HandlerInv /\ ReplyIsTruthful /\ UnresolvedIsFlagged

\* One step of any handler, client or of the process keeps the types.
LEMMA RegistrationTypeStep == TypeOK /\ [Next]_vars => TypeOK'
<1> SUFFICES ASSUME TypeOK, [Next]_vars PROVE TypeOK'
  OBVIOUS
<1> USE DEF TypeOK, Calls, ServiceErrors, Pages
<1>1. ASSUME NEW r \in Requests, Submit(r) PROVE TypeOK'
  BY <1>1 DEF Submit, Proceed, FailWithoutEffect, Fail
<1>2. ASSUME NEW r \in Requests, RecordAttempt(r) PROVE TypeOK'
  BY <1>2 DEF RecordAttempt, Proceed, FailAfterEffect, FailWithoutEffect, Fail
<1>3. ASSUME NEW r \in Requests, Create(r) PROVE TypeOK'
  BY <1>3 DEF Create, Proceed, FailAfterEffect, FailWithoutEffect, Fail
<1>4. ASSUME NEW r \in Requests, RecordSuccess(r) PROVE TypeOK'
  BY <1>4 DEF RecordSuccess, SetResult, Proceed, FailAfterEffect, FailWithoutEffect, Fail
<1>5. ASSUME NEW r \in Requests, RecordFailed(r) PROVE TypeOK'
  BY <1>5 DEF RecordFailed, SetResult, Proceed, FailAfterEffect, FailWithoutEffect, Fail
<1>6. ASSUME NEW r \in Requests, Respond(r) PROVE TypeOK'
  BY <1>6 DEF Respond
<1>7. ASSUME NEW r \in Requests, Cancel(r) PROVE TypeOK'
  BY <1>7 DEF Cancel
<1>8. CASE ClosePool
  BY <1>8 DEF ClosePool
<1>9. CASE Restart
  BY <1>9 DEF Restart
<1>10. CASE UNCHANGED vars
  BY <1>10 DEF vars
<1> QED
  BY <1>1, <1>2, <1>3, <1>4, <1>5, <1>6, <1>7, <1>8, <1>9, <1>10 DEF Next, Handle

\* Every variable of the model keeps its type, whichever handlers, clients and
\* restarts interleave.  (All steps of Service.Create and of its handler.)
THEOREM RegistrationTypeCorrect == Spec => []TypeOK
<1>1. Init => TypeOK
  BY DEF Init, TypeOK, Calls, ServiceErrors, Pages
<1> QED
  BY <1>1, RegistrationTypeStep, PTL DEF Spec

\* The invariants hold together: each needs what Located and Concluded say of
\* the handler's position, and those two need the types.
LEMMA InitRegistration == Init => RegistrationInv
  BY DEF Init, RegistrationInv, TypeOK, AuditTruth, HandlerInv, Located, Concluded, Reported,
         ReplyIsTruthful, UnresolvedIsFlagged, Calls, ServiceErrors, Pages

\* No step of any handler, client or of the process leaves it.
LEMMA NextRegistration == RegistrationInv /\ TypeOK' /\ [Next]_vars => RegistrationInv'
<1> SUFFICES ASSUME RegistrationInv, TypeOK', [Next]_vars
             PROVE  AuditTruth' /\ HandlerInv' /\ ReplyIsTruthful' /\ UnresolvedIsFlagged'
  BY DEF RegistrationInv
<1> USE DEF RegistrationInv, TypeOK, AuditTruth, HandlerInv, Located, Concluded, Reported,
            ReplyIsTruthful, UnresolvedIsFlagged, IntegrityFailure
<1> DEFINE Goal == AuditTruth' /\ HandlerInv' /\ ReplyIsTruthful' /\ UnresolvedIsFlagged'
<1>1. ASSUME NEW r \in Requests, Submit(r) PROVE Goal
  BY <1>1 DEF Submit, Proceed, FailWithoutEffect, Fail
<1>2. ASSUME NEW r \in Requests, RecordAttempt(r) PROVE Goal
  BY <1>2 DEF RecordAttempt, Executes, Proceed, FailAfterEffect, FailWithoutEffect, Fail
<1>3. ASSUME NEW r \in Requests, Create(r) PROVE Goal
  BY <1>3 DEF Create, Executes, Proceed, FailAfterEffect, FailWithoutEffect, Fail
<1>4. ASSUME NEW r \in Requests, RecordSuccess(r) PROVE Goal
  BY <1>4 DEF RecordSuccess, SetResult, Executes, Proceed, FailAfterEffect, FailWithoutEffect, Fail
<1>5. ASSUME NEW r \in Requests, RecordFailed(r) PROVE Goal
  BY <1>5 DEF RecordFailed, SetResult, Executes, Proceed, FailAfterEffect, FailWithoutEffect, Fail
<1>6. ASSUME NEW r \in Requests, Respond(r) PROVE Goal
  BY <1>6 DEF Respond, Presents, Pages, ServiceErrors
<1>7. ASSUME NEW r \in Requests, Cancel(r) PROVE Goal
  BY <1>7 DEF Cancel
<1>8. CASE ClosePool
  BY <1>8 DEF ClosePool
<1>9. CASE Restart
  BY <1>9 DEF Restart, Calls
<1>10. CASE UNCHANGED vars
  BY <1>10 DEF vars
<1> QED
  BY <1>1, <1>2, <1>3, <1>4, <1>5, <1>6, <1>7, <1>8, <1>9, <1>10 DEF Next, Handle

\* The whole invariant holds in every reachable state.
THEOREM RegistrationInvariantHolds == Spec => []RegistrationInv
<1>1. TypeOK /\ [Next]_vars => TypeOK'
  BY RegistrationTypeStep
<1>2. RegistrationInv => TypeOK
  BY DEF RegistrationInv
<1> QED
  BY InitRegistration, NextRegistration, <1>1, <1>2, PTL DEF Spec

\* For any number of concurrent requests the audit log agrees with the servers
\* table.  (GP-013 and GP-014, over Service.Create and creationFailure.)
THEOREM AuditTruthHolds == Spec => []AuditTruth
<1>1. RegistrationInv => AuditTruth
  BY DEF RegistrationInv
<1> QED
  BY <1>1, RegistrationInvariantHolds, PTL

\* For any number of concurrent requests a connected client is told the truth.
\* (handleCreateFailure and respondToCreate.)
THEOREM RepliesAreTruthful == Spec => []ReplyIsTruthful
<1>1. RegistrationInv => ReplyIsTruthful
  BY DEF RegistrationInv
<1> QED
  BY <1>1, RegistrationInvariantHolds, PTL

\* Every acknowledged row left open by a finished request was logged.
THEOREM UnresolvedAreFlagged == Spec => []UnresolvedIsFlagged
<1>1. RegistrationInv => UnresolvedIsFlagged
  BY DEF RegistrationInv
<1> QED
  BY <1>1, RegistrationInvariantHolds, PTL

\* No step changes a verdict or the row it speaks of.
THEOREM VerdictsAreFinal == Spec => VerdictIsFinal
<1>1. RegistrationInv /\ [Next]_vars =>
        [\A r \in Requests :
            audit[r] \in {"success", "failed"} =>
                audit'[r] = audit[r] /\ row'[r] = row[r]]_vars
  <2> SUFFICES ASSUME RegistrationInv, Next, NEW q \in Requests, audit[q] \in {"success", "failed"}
               PROVE  audit'[q] = audit[q] /\ row'[q] = row[q]
    OBVIOUS
  <2> USE DEF RegistrationInv, TypeOK, HandlerInv, Located
  <2>1. ASSUME NEW r \in Requests, RecordAttempt(r) PROVE audit'[q] = audit[q] /\ row'[q] = row[q]
    BY <2>1 DEF RecordAttempt
  <2>2. ASSUME NEW r \in Requests, Create(r) PROVE audit'[q] = audit[q] /\ row'[q] = row[q]
    BY <2>2 DEF Create
  <2>3. ASSUME NEW r \in Requests, RecordSuccess(r) PROVE audit'[q] = audit[q] /\ row'[q] = row[q]
    BY <2>3 DEF RecordSuccess, SetResult
  <2>4. ASSUME NEW r \in Requests, RecordFailed(r) PROVE audit'[q] = audit[q] /\ row'[q] = row[q]
    BY <2>4 DEF RecordFailed, SetResult
  <2>5. CASE UNCHANGED <<audit, row>>
    BY <2>5
  <2> QED
    BY <2>1, <2>2, <2>3, <2>4, <2>5
       DEF Next, Handle, Submit, Respond, Cancel, ClosePool, Restart
<1> QED
  BY <1>1, RegistrationInvariantHolds, PTL DEF Spec, VerdictIsFinal

\* The calls a handler has still to make, from each of its positions.
CallsLeft ==
    [RecordAttempt |-> 4, Create |-> 3, RecordSuccess |-> 2, RecordFailed |-> 2,
     Respond |-> 1, done |-> 0, gone |-> 0]

\* A handler that started never makes a call twice or goes back to an earlier
\* one, and makes none after it ended: whatever its calls return, at most four
\* of them are left.  With the fairness of FairSpec that is why it ends.
\* (Service.Create, creationFailure and HandleCreate.)
THEOREM HandlersAdvance ==
    Spec => [][\A r \in Requests :
                  pc[r] # "idle" =>
                      pc'[r] = pc[r] \/ CallsLeft[pc'[r]] < CallsLeft[pc[r]]]_vars
<1> DEFINE Advances(r) == pc'[r] = pc[r] \/ CallsLeft[pc'[r]] < CallsLeft[pc[r]]
<1>1. TypeOK /\ [Next]_vars => [\A r \in Requests : pc[r] # "idle" => Advances(r)]_vars
  <2> SUFFICES ASSUME TypeOK, Next, NEW q \in Requests, pc[q] # "idle"
               PROVE  Advances(q)
    OBVIOUS
  <2> USE DEF TypeOK, Calls, CallsLeft
  <2>1. ASSUME NEW r \in Requests, Submit(r) PROVE Advances(q)
    BY <2>1 DEF Submit, Proceed, FailWithoutEffect, Fail
  <2>2. ASSUME NEW r \in Requests, RecordAttempt(r) PROVE Advances(q)
    BY <2>2 DEF RecordAttempt, Proceed, FailAfterEffect, FailWithoutEffect, Fail
  <2>3. ASSUME NEW r \in Requests, Create(r) PROVE Advances(q)
    BY <2>3 DEF Create, Proceed, FailAfterEffect, FailWithoutEffect, Fail
  <2>4. ASSUME NEW r \in Requests, RecordSuccess(r) PROVE Advances(q)
    BY <2>4 DEF RecordSuccess, Proceed, FailAfterEffect, FailWithoutEffect, Fail
  <2>5. ASSUME NEW r \in Requests, RecordFailed(r) PROVE Advances(q)
    BY <2>5 DEF RecordFailed, Proceed, FailAfterEffect, FailWithoutEffect, Fail
  <2>6. ASSUME NEW r \in Requests, Respond(r) PROVE Advances(q)
    BY <2>6 DEF Respond
  <2>7. CASE Restart
    BY <2>7 DEF Restart
  <2>8. CASE UNCHANGED pc
    BY <2>8
  <2> QED
    BY <2>1, <2>2, <2>3, <2>4, <2>5, <2>6, <2>7, <2>8 DEF Next, Handle, Cancel, ClosePool
<1> QED
  BY <1>1, RegistrationTypeCorrect, PTL DEF Spec

\* Every behaviour of Registration is one of the abstract audited operation:
\* each database call that takes effect is one abstract step, every other step
\* stutters.
THEOREM Refinement == Spec => ImplementsAuditedOperation
<1>1. Init => Audited!Init
  BY DEF Init, Audited!Init
<1>2. RegistrationInv /\ [Next]_vars => [Audited!Next]_Audited!vars
  <2> SUFFICES ASSUME RegistrationInv, Next PROVE [Audited!Next]_Audited!vars
    BY DEF vars, Audited!vars
  <2> USE DEF RegistrationInv, TypeOK, HandlerInv, Located, Audited!vars, Audited!Next, Audited!Verdicts
  <2>1. ASSUME NEW r \in Requests, RecordAttempt(r) PROVE [Audited!Next]_Audited!vars
    BY <2>1 DEF RecordAttempt, Audited!Attempt
  <2>2. ASSUME NEW r \in Requests, Create(r) PROVE [Audited!Next]_Audited!vars
    BY <2>2 DEF Create, Audited!Apply
  <2>3. ASSUME NEW r \in Requests, RecordSuccess(r) PROVE [Audited!Next]_Audited!vars
    BY <2>3 DEF RecordSuccess, SetResult, Audited!Conclude
  <2>4. ASSUME NEW r \in Requests, RecordFailed(r) PROVE [Audited!Next]_Audited!vars
    BY <2>4 DEF RecordFailed, SetResult, Executes, Audited!Conclude
  <2>5. CASE UNCHANGED <<audit, row>>
    BY <2>5
  <2> QED
    BY <2>1, <2>2, <2>3, <2>4, <2>5
       DEF Next, Handle, Submit, Respond, Cancel, ClosePool, Restart
<1> QED
  BY <1>1, <1>2, RegistrationInvariantHolds, PTL DEF Spec, ImplementsAuditedOperation, Audited!Spec

-----------------------------------------------------------------------------
(* Recorder *)

\* A history no longer than the window is its own window.
LEMMA NewestOfShort ==
    ASSUME NEW S, NEW h \in Seq(S), Len(h) <= MaxRecords
    PROVE  Newest(h) = h
  BY MaxRecordsAssumption DEF Newest

\* A longer one is cut to its last MaxRecords elements.
LEMMA NewestOfLong ==
    ASSUME NEW S, NEW h \in Seq(S), Len(h) >= MaxRecords
    PROVE  Newest(h) = [i \in 1..MaxRecords |-> h[(Len(h) - MaxRecords) + i]]
  BY MaxRecordsAssumption DEF Newest

\* Appending to the window of a history gives the window of the longer
\* history, whether or not the window is full.
LEMMA AppendedNewest ==
    ASSUME NEW S, NEW h \in Seq(S), NEW x \in S
    PROVE  Appended(Newest(h), x) = Newest(Append(h, x))
<1> USE MaxRecordsAssumption
<1>1. PICK g \in Seq(S) :
         /\ g = Append(h, x)
         /\ Len(g) = Len(h) + 1
         /\ \A i \in 1..Len(h) : g[i] = h[i]
         /\ g[Len(h) + 1] = x
  <2>1. Append(h, x) \in Seq(S) /\ Len(Append(h, x)) = Len(h) + 1
    OBVIOUS
  <2>2. \A i \in 1..Len(h) : Append(h, x)[i] = h[i]
    OBVIOUS
  <2>3. Append(h, x)[Len(h) + 1] = x
    OBVIOUS
  <2> QED
    BY <2>1, <2>2, <2>3, Zenon
<1>2. CASE Len(h) < MaxRecords
  <2>1. Newest(h) = h
    BY <1>2, NewestOfShort
  <2>2. Newest(g) = g
    <3>1. Len(g) <= MaxRecords
      BY <1>1, <1>2
    <3> QED
      BY <3>1, NewestOfShort, Zenon
  <2> QED
    BY <2>1, <2>2, <1>1, <1>2 DEF Appended
<1>3. CASE Len(h) >= MaxRecords
  <2>1. Newest(h) = [i \in 1..MaxRecords |-> h[(Len(h) - MaxRecords) + i]]
    BY <1>3, NewestOfLong
  <2>2. Newest(g) = [i \in 1..MaxRecords |-> g[(Len(g) - MaxRecords) + i]]
    <3>1. Len(g) >= MaxRecords
      BY <1>1, <1>3
    <3> QED
      BY <3>1, NewestOfLong, Zenon
  <2>3. Appended(Newest(h), x)
          = [i \in 1..MaxRecords |-> IF i = MaxRecords THEN x ELSE Newest(h)[i + 1]]
    BY <2>1 DEF Appended
  <2>4. ASSUME NEW i \in 1..MaxRecords
        PROVE  (IF i = MaxRecords THEN x ELSE Newest(h)[i + 1])
                 = g[(Len(g) - MaxRecords) + i]
    <3>1. CASE i = MaxRecords
      BY <3>1, <1>1
    <3>2. CASE i # MaxRecords
      <4>1. i + 1 \in 1..MaxRecords /\ (Len(h) - MaxRecords) + (i + 1) \in 1..Len(h)
        BY <3>2, <1>3
      <4>2. (Len(g) - MaxRecords) + i = (Len(h) - MaxRecords) + (i + 1)
        BY <1>1
      <4> QED
        BY <3>2, <4>1, <4>2, <2>1, <1>1
    <3> QED
      BY <3>1, <3>2
  <2>5. Newest(g) = [i \in 1..MaxRecords |-> IF i = MaxRecords THEN x ELSE Newest(h)[i + 1]]
    BY <2>2, <2>4
  <2> QED
    BY <2>3, <2>5, <1>1
<1> QED
  BY <1>2, <1>3

\* A history's element is in its window exactly when fewer than MaxRecords
\* elements follow it, provided that it occurs once.
LEMMA InWindow ==
    ASSUME NEW S, NEW h \in Seq(S), NEW i \in 1..Len(h),
           \A j, k \in DOMAIN h : h[j] = h[k] => j = k
    PROVE  (\E j \in DOMAIN Newest(h) : Newest(h)[j] = h[i]) <=> Len(h) - i < MaxRecords
<1> USE MaxRecordsAssumption
<1>1. CASE Len(h) <= MaxRecords
  <2>1. Newest(h) = h
    BY <1>1, NewestOfShort
  <2> QED
    BY <2>1, <1>1
<1>2. CASE Len(h) > MaxRecords
  <2> DEFINE d == Len(h) - MaxRecords
  <2>1. Newest(h) = [j \in 1..MaxRecords |-> h[d + j]]
    <3>1. Len(h) >= MaxRecords
      BY <1>2
    <3> QED
      BY <3>1, NewestOfLong, Zenon
  <2>2. ASSUME NEW j \in 1..MaxRecords, h[d + j] = h[i] PROVE i > d
    <3>1. d + j \in DOMAIN h /\ i \in DOMAIN h
      BY <1>2
    <3>2. d + j = i
      BY <3>1, <2>2
    <3> QED
      BY <3>2, <1>2
  <2>3. ASSUME i > d PROVE \E j \in 1..MaxRecords : h[d + j] = h[i]
    <3>1. i - d \in 1..MaxRecords /\ d + (i - d) = i
      BY <2>3, <1>2
    <3> QED
      BY <3>1
  <2>4. i > d <=> Len(h) - i < MaxRecords
    BY <1>2
  <2> QED
    BY <2>1, <2>2, <2>3, <2>4
<1> QED
  BY <1>1, <1>2

-----------------------------------------------------------------------------

\* A goroutine inside Record, and no other, holds a reference.
HoldsReference == \A c \in Callers : recording[c] # "idle" <=> drawn[c] \in References

\* No two failures share a reference.
ReferencesAreUnique ==
    /\ \A i, j \in DOMAIN history : history[i] = history[j] => i = j
    /\ \A c, d \in Callers : drawn[c] = drawn[d] => c = d \/ drawn[c] = NoReference

\* How far the record of each goroutine has come.
Progress ==
    \A c \in Callers :
        /\ recording[c] = "append" => drawn[c] \notin Elements(history)
        /\ recording[c] \in {"log", "return"} => drawn[c] \in Elements(history)
        /\ recording[c] = "return" => drawn[c] \in logged

\* What a user was shown was appended and logged.
ShownWasRecorded == shown \subseteq logged /\ shown \subseteq Elements(history)

\* The inductive invariant of Recorder.
RecorderInv ==
    /\ RecorderTypeOK
    /\ HoldsReference
    /\ ReferencesAreUnique
    /\ Progress
    /\ ShownWasRecorded
    /\ KeepsTheNewest

\* The page is a sequence of the same records.
LEMMA ReversedType ==
    ASSUME NEW S, NEW s \in Seq(S)
    PROVE  Reversed(s) \in Seq(S)
  BY DEF Reversed

\* An empty recorder satisfies it.
LEMMA InitRecorder == NewRecorder => RecorderInv
<1> SUFFICES ASSUME NewRecorder PROVE RecorderInv
  OBVIOUS
<1>1. Newest(<<>>) = <<>>
  BY MaxRecordsAssumption DEF Newest
<1> QED
  BY <1>1, NoReferenceAssumption
     DEF NewRecorder, RecorderInv, RecorderTypeOK, HoldsReference, ReferencesAreUnique, Progress,
         ShownWasRecorded, KeepsTheNewest, Elements

\* No step of any goroutine leaves it.
LEMMA NextRecorder == RecorderInv /\ [RecorderNext]_recorderVars => RecorderInv'
<1> SUFFICES ASSUME RecorderInv, [RecorderNext]_recorderVars PROVE RecorderInv'
  OBVIOUS
<1> USE NoReferenceAssumption
<1> USE DEF RecorderInv, RecorderTypeOK, HoldsReference, ReferencesAreUnique, Progress, ShownWasRecorded
<1>1. ASSUME NEW c \in Callers, Build(c) PROVE RecorderInv'
  <2>1. PICK reference \in Unused : drawn' = [drawn EXCEPT ![c] = reference]
    BY <1>1 DEF Build
  <2>2. reference \in References /\ reference \notin Elements(history)
    BY <2>1 DEF Unused
  <2>3. \A d \in Callers : drawn[d] # reference
    BY <2>1 DEF Unused, Elements
  <2> QED
    BY <1>1, <2>1, <2>2, <2>3 DEF Build, KeepsTheNewest, Elements
<1>2. ASSUME NEW c \in Callers, AppendRecord(c) PROVE RecorderInv'
  <2> DEFINE x == drawn[c]
  <2>1. x \in References /\ x \notin Elements(history)
    BY <1>2 DEF AppendRecord
  <2>2. /\ history' = Append(history, x)
        /\ history' \in Seq(References)
        /\ Len(history') = Len(history) + 1
        /\ history'[Len(history) + 1] = x
        /\ \A i \in 1..Len(history) : history'[i] = history[i]
    BY <1>2, <2>1 DEF AppendRecord
  <2>3. Elements(history') = Elements(history) \union {x}
    <3>1. DOMAIN history' = DOMAIN history \union {Len(history) + 1}
      BY <2>2
    <3> QED
      BY <3>1, <2>2 DEF Elements
  <2>4. records' = Newest(history')
    BY <1>2, <2>1, <2>2, AppendedNewest DEF AppendRecord, KeepsTheNewest
  <2>5. records' \in Seq(References)
    BY <1>2, <2>1, MaxRecordsAssumption DEF AppendRecord, Appended
  <2>6. \A i, j \in DOMAIN history' : history'[i] = history'[j] => i = j
    BY <2>1, <2>2 DEF Elements
  <2>7. HoldsReference' /\ ShownWasRecorded' /\ Progress'
    BY <1>2, <2>1, <2>3 DEF AppendRecord
  <2> QED
    BY <1>2, <2>2, <2>4, <2>5, <2>6, <2>7 DEF AppendRecord, KeepsTheNewest
<1>3. ASSUME NEW c \in Callers, LogRecord(c) PROVE RecorderInv'
  BY <1>3 DEF LogRecord, KeepsTheNewest, Elements
<1>4. ASSUME NEW c \in Callers, Return(c) PROVE RecorderInv'
  BY <1>4 DEF Return, KeepsTheNewest, Elements
<1>5. CASE TakeSnapshot
  BY <1>5 DEF TakeSnapshot, KeepsTheNewest, Elements
<1>6. CASE RenderList
  BY <1>6, ReversedType DEF RenderList, KeepsTheNewest, Elements
<1>7. CASE UNCHANGED recorderVars
  BY <1>7 DEF recorderVars, KeepsTheNewest, Elements
<1> QED
  BY <1>1, <1>2, <1>3, <1>4, <1>5, <1>6, <1>7 DEF RecorderNext

\* The whole invariant holds in every reachable state.
THEOREM RecorderInvariantHolds == RecorderSpec => []RecorderInv
  BY InitRecorder, NextRecorder, PTL DEF RecorderSpec

\* Every variable keeps its type: no record is built without a reference.
THEOREM RecorderTypeCorrect == RecorderSpec => []RecorderTypeOK
<1>1. RecorderInv => RecorderTypeOK
  BY DEF RecorderInv
<1> QED
  BY <1>1, RecorderInvariantHolds, PTL

\* For any window size and any number of goroutines the recorder holds exactly
\* the newest records, in order.  (appendRecord.)
THEOREM KeepsTheNewestHolds == RecorderSpec => []KeepsTheNewest
<1>1. RecorderInv => KeepsTheNewest
  BY DEF RecorderInv
<1> QED
  BY <1>1, RecorderInvariantHolds, PTL

\* A reference that was shown is logged, and found by Lookup exactly until
\* MaxRecords later failures have been recorded.  (Record, Lookup; GP-021.)
THEOREM ShownIsTraceableHolds == RecorderSpec => []ShownIsTraceable
<1>1. RecorderInv => ShownIsTraceable
  <2> SUFFICES ASSUME RecorderInv, NEW reference \in shown
               PROVE  /\ reference \in logged
                      /\ \E i \in DOMAIN history :
                            /\ history[i] = reference
                            /\ Found(reference) <=> Len(history) - i < MaxRecords
    BY DEF ShownIsTraceable
  <2>1. PICK i \in DOMAIN history : history[i] = reference
    BY DEF RecorderInv, ShownWasRecorded, Elements
  <2>2. history \in Seq(References) /\ i \in 1..Len(history)
    BY DEF RecorderInv, RecorderTypeOK
  <2>3. \A j, k \in DOMAIN history : history[j] = history[k] => j = k
    BY DEF RecorderInv, ReferencesAreUnique
  <2>4. (\E j \in DOMAIN Newest(history) : Newest(history)[j] = history[i])
           <=> Len(history) - i < MaxRecords
    BY <2>2, <2>3, InWindow, Zenon
  <2> QED
    BY <2>1, <2>4 DEF RecorderInv, ShownWasRecorded, KeepsTheNewest, Found
<1> QED
  BY <1>1, RecorderInvariantHolds, PTL

=============================================================================
