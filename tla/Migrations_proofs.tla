------------------------- MODULE Migrations_proofs -------------------------
(***************************************************************************)
(* Proofs about Migrations, for any processes, builds and migrations.      *)
(*                                                                         *)
(* The invariant says where a process stands in the history: what it has   *)
(* found or applied so far is there for good (Located), and the row it is  *)
(* about to commit is the next one (Staged).                               *)
(***************************************************************************)
EXTENDS Migrations, SequenceTheorems, TLAPS

\* The first n migrations of the database are those of the build.
HasFirst(n, build) ==
    /\ n <= Len(schema)
    /\ \A v \in 1..n : schema[v] = build[v]

Located(p) ==
    /\ proc[p].next # 0
    /\ proc[p].pc \in {"apply", "record", "commit", "ready"} =>
          HasFirst(proc[p].next - 1, proc[p].build)
    /\ proc[p].pc = "ready" => proc[p].next > Len(proc[p].build)

Staged(p) ==
    proc[p].pc \in {"record", "commit"} =>
        /\ writer = p
        /\ proc[p].next <= Len(proc[p].build)
        /\ staged.schema = Append(schema, Candidate(p))
        /\ proc[p].pc = "record" => staged.recorded = recorded
        /\ proc[p].pc = "commit" =>
              /\ proc[p].next = Len(schema) + 1
              /\ staged.recorded = staged.schema

IInv ==
    /\ TypeOK
    /\ RecordedIsApplied
    /\ \A p \in Processes : Located(p) /\ Staged(p)

\* A table without gaps that gets the next version is a longer sequence.
LEMMA WithNext ==
    ASSUME NEW S, NEW s \in Seq(S), NEW e \in S
    PROVE  /\ Append(s, e) \in Seq(S)
           /\ Len(Append(s, e)) = Len(s) + 1
           /\ \A v \in 1..Len(s) : Append(s, e)[v] = s[v]
           /\ Append(s, e)[Len(s) + 1] = e
           /\ With(s, Len(s) + 1, e) = Append(s, e)
  <1> DEFINE r == With(s, Len(s) + 1, e)
  <1>1. Len(s) \in Nat /\ DOMAIN s = 1..Len(s)
    BY LenProperties
  <1>2. DOMAIN s \union {Len(s) + 1} = 1..(Len(s) + 1)
    BY <1>1
  <1>3. r = [v \in 1..(Len(s) + 1) |-> IF v = Len(s) + 1 THEN e ELSE s[v]]
    BY <1>2 DEF With
  <1>4. \A v \in 1..(Len(s) + 1) : (IF v = Len(s) + 1 THEN e ELSE s[v]) \in S
    BY <1>1, ElementOfSeq
  <1>5. r \in Seq(S) /\ Len(r) = Len(s) + 1
    <2>1. r \in [1..(Len(s) + 1) -> S]
      BY <1>3, <1>4
    <2> QED
      BY <2>1, <1>1, SeqDef, LenProperties
  <1>6. /\ Append(s, e) \in Seq(S)
        /\ Len(Append(s, e)) = Len(s) + 1
        /\ \A v \in 1..Len(s) : Append(s, e)[v] = s[v]
        /\ Append(s, e)[Len(s) + 1] = e
    BY AppendProperties
  <1>7. \A v \in 1..Len(r) : r[v] = Append(s, e)[v]
    BY <1>1, <1>3, <1>5, <1>6
  <1>8. r = Append(s, e)
    BY <1>5, <1>6, <1>7, SeqEqual
  <1> QED
    BY <1>6, <1>8

\* A process with a candidate has a build that embeds it.
LEMMA CandidateIsEmbedded ==
    ASSUME TypeOK, NEW p \in Processes, proc[p].next # 0,
           proc[p].next <= Len(proc[p].build)
    PROVE  /\ proc[p].build \in Builds
           /\ proc[p].build \in Seq(Migrations)
           /\ Candidate(p) \in Migrations
  <1>1. proc[p].build \in Builds \union {<<>>} /\ proc[p].next \in Nat
    BY DEF TypeOK
  <1>2. proc[p].build # <<>>
    BY <1>1
  <1>3. proc[p].build \in Seq(Migrations)
    BY <1>1, <1>2, MigrationsAssumption
  <1>4. proc[p].next \in 1..Len(proc[p].build)
    BY <1>1, <1>3
  <1> QED
    BY <1>1, <1>2, <1>3, <1>4 DEF Candidate

THEOREM Initially == Init => IInv
  <1> SUFFICES ASSUME Init PROVE IInv
    OBVIOUS
  <1>1. TypeOK
    BY MigrationsAssumption DEF Init, TypeOK, Off
  <1>2. RecordedIsApplied
    BY DEF Init, RecordedIsApplied
  <1>3. ASSUME NEW p \in Processes PROVE Located(p) /\ Staged(p)
    <2>1. proc[p].pc = "off" /\ proc[p].next = 1
      BY DEF Init, Off
    <2> QED
      BY <2>1 DEF Located, Staged
  <1> QED
    BY <1>1, <1>2, <1>3 DEF IInv

\* What a commit does to the database: it adds the candidate, which is the next
\* migration of the process's build.
CommitStep(p) ==
    /\ schema \in Seq(Migrations) /\ schema' \in Seq(Migrations)
    /\ Len(schema) \in Nat
    /\ Len(schema') = Len(schema) + 1
    /\ recorded' = schema'
    /\ writer = p
    /\ proc[p].build \in Builds /\ proc[p].build \in Seq(Migrations)
    /\ proc[p].next = Len(schema) + 1
    /\ proc[p].next <= Len(proc[p].build)
    /\ \A v \in 1..Len(schema) : schema[v] = proc[p].build[v]
    /\ \A v \in 1..Len(schema) : schema'[v] = schema[v]
    /\ schema'[Len(schema) + 1] = proc[p].build[Len(schema) + 1]

LEMMA Committed ==
    ASSUME TypeOK, NEW p \in Processes, Located(p), Staged(p), Commit(p)
    PROVE  CommitStep(p)
  <1>1. /\ schema \in Seq(Migrations) /\ Len(schema) \in Nat
        /\ writer = p
        /\ proc[p].next = Len(schema) + 1
        /\ proc[p].next <= Len(proc[p].build)
        /\ HasFirst(proc[p].next - 1, proc[p].build)
        /\ schema' = Append(schema, Candidate(p)) /\ recorded' = schema'
    BY DEF TypeOK, Commit, Located, Staged
  <1>2. /\ proc[p].build \in Builds /\ proc[p].build \in Seq(Migrations)
        /\ Candidate(p) \in Migrations
    BY <1>1, CandidateIsEmbedded
  <1>3. /\ schema' \in Seq(Migrations)
        /\ Len(schema') = Len(schema) + 1
        /\ \A v \in 1..Len(schema) : schema'[v] = schema[v]
        /\ schema'[Len(schema) + 1] = Candidate(p)
    BY <1>1, <1>2, WithNext
  <1> QED
    BY <1>1, <1>2, <1>3 DEF CommitStep, HasFirst, Candidate

\* Every step keeps the invariant: steps that are not commits leave the file
\* alone, and a commit adds the row that Staged describes.
LEMMA Inductive == IInv /\ [Next]_vars => IInv'
  <1> SUFFICES ASSUME IInv, [Next]_vars PROVE IInv'
    OBVIOUS
  <1>t. TypeOK /\ RecordedIsApplied /\ \A q \in Processes : Located(q) /\ Staged(q)
    BY DEF IInv
  <1>1. ASSUME NEW p \in Processes, Start(p) PROVE IInv'
    <2>1. TypeOK'
      BY <1>t, <1>1, MigrationsAssumption DEF TypeOK, Start, file
    <2>2. ASSUME NEW q \in Processes PROVE Located(q)' /\ Staged(q)'
      <3>1. CASE q = p
        BY <1>t, <1>1, <3>1 DEF TypeOK, Start, Located, Staged
      <3>2. CASE q # p
        BY <1>t, <1>1, <3>2 DEF TypeOK, Start, file, Located, Staged, HasFirst, Candidate
      <3> QED
        BY <3>1, <3>2
    <2> QED
      BY <1>t, <1>1, <2>1, <2>2 DEF IInv, RecordedIsApplied, Start, file
  <1>2. ASSUME NEW p \in Processes, EnsureMigrationTable(p) PROVE IInv'
    <2>1. TypeOK'
      BY <1>t, <1>2 DEF TypeOK, EnsureMigrationTable, Goto, file
    <2>2. ASSUME NEW q \in Processes PROVE Located(q)' /\ Staged(q)'
      BY <1>t, <1>2 DEF TypeOK, EnsureMigrationTable, Goto, file, Located, Staged, HasFirst, Candidate
    <2> QED
      BY <1>t, <1>2, <2>1, <2>2 DEF IInv, RecordedIsApplied, EnsureMigrationTable, file
  <1>3. ASSUME NEW p \in Processes, ReadApplied(p) PROVE IInv'
    <2>1. PICK n \in 0..Len(schema) :
             /\ Compatible(n, proc[p].build)
             /\ proc' = [proc EXCEPT ![p] =
                            [pc |-> "apply", build |-> proc[p].build, next |-> n + 1]]
      BY <1>3 DEF ReadApplied
    <2>2. HasFirst(n, proc[p].build) /\ n <= Len(proc[p].build) /\ n \in Nat
      BY <1>t, <2>1 DEF Compatible, HasFirst, RecordedIsApplied, TypeOK
    <2>3. TypeOK'
      <3> DEFINE r == [pc |-> "apply", build |-> proc[p].build, next |-> n + 1]
      <3>1. r.next <= Len(r.build) + 1
        <4>1. proc[p].build \in Seq(Migrations)
          BY <1>t, MigrationsAssumption, EmptySeq DEF TypeOK
        <4> QED
          BY <2>2, <4>1, LenProperties
      <3>2. \A q \in Processes : proc'[q].next <= Len(proc'[q].build) + 1
        BY <1>t, <2>1, <3>1 DEF TypeOK
      <3> QED
        BY <1>t, <1>3, <2>1, <2>2, <3>2 DEF TypeOK, ReadApplied, file
    <2>4. ASSUME NEW q \in Processes PROVE Located(q)' /\ Staged(q)'
      <3>1. CASE q = p
        BY <1>t, <1>3, <2>1, <2>2, <3>1 DEF TypeOK, ReadApplied, file, Located, Staged, HasFirst
      <3>2. CASE q # p
        BY <1>t, <1>3, <2>1, <3>2 DEF TypeOK, ReadApplied, file, Located, Staged, HasFirst, Candidate
      <3> QED
        BY <3>1, <3>2
    <2> QED
      BY <1>t, <1>3, <2>3, <2>4 DEF IInv, RecordedIsApplied, ReadApplied, file
  <1>4. ASSUME NEW p \in Processes, Execute(p) PROVE IInv'
    <2>1. Candidate(p) \in Migrations /\ schema \in Seq(Migrations)
      BY <1>t, <1>4, CandidateIsEmbedded DEF Execute, Located, TypeOK
    <2>2. Append(schema, Candidate(p)) \in Seq(Migrations)
      BY <2>1, WithNext
    <2>3. TypeOK'
      BY <1>t, <1>4, <2>2 DEF TypeOK, Execute, Goto
    <2>4. ASSUME NEW q \in Processes PROVE Located(q)' /\ Staged(q)'
      <3>1. CASE q = p
        BY <1>t, <1>4, <3>1 DEF TypeOK, Execute, Goto, Located, Staged, HasFirst, Candidate
      <3>2. CASE q # p
        <4>1. proc'[q] = proc[q]
          BY <1>4, <3>2 DEF Execute, Goto, TypeOK
        <4>2. proc[q].pc \notin {"record", "commit"}
          BY <1>t, <1>4, MigrationsAssumption DEF Staged, Execute
        <4> QED
          BY <1>t, <1>4, <4>1, <4>2 DEF Execute, Located, Staged, HasFirst
      <3> QED
        BY <3>1, <3>2
    <2> QED
      BY <1>t, <1>4, <2>3, <2>4 DEF IInv, RecordedIsApplied, Execute
  <1>5. ASSUME NEW p \in Processes, Record(p) PROVE IInv'
    <2>1. /\ Candidate(p) \in Migrations /\ schema \in Seq(Migrations)
          /\ proc[p].next \in Nat \ {0}
          /\ HasFirst(proc[p].next - 1, proc[p].build)
          /\ writer = p /\ proc[p].next <= Len(proc[p].build)
          /\ staged.schema = Append(schema, Candidate(p))
          /\ staged.recorded = schema
      BY <1>t, <1>5, CandidateIsEmbedded
         DEF Record, Located, Staged, TypeOK, RecordedIsApplied
    <2>2. proc[p].next = Len(schema) + 1
      <3>1. Len(schema) \in Nat /\ DOMAIN schema = 1..Len(schema)
        BY <2>1, LenProperties
      <3>2. proc[p].next \notin 1..Len(schema)
        BY <1>5, <2>1, <3>1 DEF Record
      <3> QED
        BY <2>1, <3>1, <3>2 DEF HasFirst
    <2>3. With(schema, proc[p].next, Candidate(p)) = Append(schema, Candidate(p))
      BY <2>1, <2>2, WithNext
    <2>4. staged' = [schema |-> staged.schema, recorded |-> staged.schema]
      BY <1>t, <1>5, <2>1, <2>3 DEF Record, TypeOK
    <2>5. TypeOK'
      <3>1. proc' = [proc EXCEPT ![p].pc = "commit"] /\ UNCHANGED <<schema, recorded, writer>>
        BY <1>5 DEF Record, Goto
      <3> QED
        BY <1>t, <2>4, <3>1 DEF TypeOK
    <2>6. ASSUME NEW q \in Processes PROVE Located(q)' /\ Staged(q)'
      <3>1. CASE q = p
        <4>1. proc'[p] = [proc[p] EXCEPT !.pc = "commit"]
          BY <1>t, <1>5 DEF Record, Goto, TypeOK
        <4>2. /\ proc'[p].pc = "commit"
              /\ proc'[p].next = proc[p].next /\ proc'[p].build = proc[p].build
          BY <1>t, <4>1 DEF TypeOK
        <4>3. UNCHANGED <<schema, recorded, writer>>
          BY <1>5 DEF Record
        <4>4. staged'.schema = staged.schema /\ staged'.recorded = staged.schema
          BY <2>4
        <4>5. Candidate(p)' = Candidate(p)
          BY <4>2 DEF Candidate
        <4>6. Located(p)'
          BY <2>1, <4>2, <4>3 DEF Located, HasFirst
        <4>7. Staged(p)'
          BY <2>1, <2>2, <4>2, <4>3, <4>4, <4>5 DEF Staged
        <4> QED
          BY <3>1, <4>6, <4>7
      <3>2. CASE q # p
        <4>1. proc'[q] = proc[q] /\ proc[q].pc \notin {"record", "commit"}
          BY <1>t, <1>5, <2>1, <3>2 DEF Record, Goto, TypeOK, Staged
        <4> QED
          BY <1>t, <1>5, <4>1 DEF Record, Located, Staged, HasFirst
      <3> QED
        BY <3>1, <3>2
    <2> QED
      BY <1>t, <1>5, <2>5, <2>6 DEF IInv, RecordedIsApplied, Record
  <1>6. ASSUME NEW p \in Processes, Commit(p) PROVE IInv'
    <2>1. CommitStep(p)
      BY <1>t, <1>6, Committed
    <2>2. TypeOK'
      BY <1>t, <1>6, <2>1 DEF TypeOK, Commit, CommitStep
    <2>3. ASSUME NEW q \in Processes PROVE Located(q)' /\ Staged(q)'
      <3>1. CASE q = p
        BY <1>t, <1>6, <2>1, <3>1 DEF TypeOK, Commit, CommitStep, Located, Staged, HasFirst
      <3>2. CASE q # p
        <4>1. proc'[q] = proc[q] /\ proc[q].pc \notin {"record", "commit"}
          BY <1>t, <1>6, <2>1, <3>2 DEF Commit, CommitStep, TypeOK, Staged
        <4>2. Len(schema) \in Nat /\ Len(schema') = Len(schema) + 1
          BY <2>1 DEF CommitStep
        <4>3. \A v \in 1..Len(schema) : schema'[v] = schema[v]
          BY <2>1 DEF CommitStep
        <4>4. proc[q].next \in Nat
          BY <1>t DEF TypeOK
        <4> QED
          BY <1>t, <4>1, <4>2, <4>3, <4>4 DEF Located, Staged, HasFirst
      <3> QED
        BY <3>1, <3>2
    <2> QED
      BY <2>1, <2>2, <2>3 DEF IInv, RecordedIsApplied, CommitStep
  <1>7. ASSUME NEW p \in Processes, Finish(p) PROVE IInv'
    <2>1. TypeOK'
      BY <1>t, <1>7 DEF TypeOK, Finish, Goto, file
    <2>2. ASSUME NEW q \in Processes PROVE Located(q)' /\ Staged(q)'
      BY <1>t, <1>7 DEF TypeOK, Finish, Goto, file, Located, Staged, HasFirst, Candidate
    <2> QED
      BY <1>t, <1>7, <2>1, <2>2 DEF IInv, RecordedIsApplied, Finish, file
  <1>8. ASSUME NEW p \in Processes, Fail(p) PROVE IInv'
    <2>1. TypeOK'
      BY <1>t, <1>8, MigrationsAssumption DEF TypeOK, Fail, Goto, Release
    <2>2. ASSUME NEW q \in Processes PROVE Located(q)' /\ Staged(q)'
      <3>1. CASE q = p
        BY <1>t, <1>8, <3>1 DEF TypeOK, Fail, Goto, Release, Located, Staged
      <3>2. CASE q # p
        <4>1. proc'[q] = proc[q] /\ (writer = q => writer' = q)
          BY <1>t, <1>8, <3>2 DEF TypeOK, Fail, Goto, Release
        <4> QED
          BY <1>t, <1>8, <4>1 DEF Fail, Located, Staged, HasFirst, Candidate
      <3> QED
        BY <3>1, <3>2
    <2> QED
      BY <1>t, <1>8, <2>1, <2>2 DEF IInv, RecordedIsApplied, Fail
  <1>9. ASSUME NEW p \in Processes, Stop(p) PROVE IInv'
    <2>1. TypeOK'
      BY <1>t, <1>9, MigrationsAssumption DEF TypeOK, Stop, Release, Off
    <2>2. ASSUME NEW q \in Processes PROVE Located(q)' /\ Staged(q)'
      <3>1. CASE q = p
        BY <1>t, <1>9, <3>1 DEF TypeOK, Stop, Release, Off, Located, Staged
      <3>2. CASE q # p
        <4>1. proc'[q] = proc[q] /\ (writer = q => writer' = q)
          BY <1>t, <1>9, <3>2 DEF TypeOK, Stop, Release, Off
        <4> QED
          BY <1>t, <1>9, <4>1 DEF Stop, Located, Staged, HasFirst, Candidate
      <3> QED
        BY <3>1, <3>2
    <2> QED
      BY <1>t, <1>9, <2>1, <2>2 DEF IInv, RecordedIsApplied, Stop
  <1>10. CASE UNCHANGED vars
    BY <1>t, <1>10 DEF vars, IInv, TypeOK, RecordedIsApplied, Located, Staged, HasFirst, Candidate
  <1> QED
    BY <1>1, <1>2, <1>3, <1>4, <1>5, <1>6, <1>7, <1>8, <1>9, <1>10 DEF Next

\* The types, and that no process is further than its build goes.
THEOREM TypeCorrect == Spec => []TypeOK
  <1> QED
    BY Initially, Inductive, PTL DEF Spec, IInv

\* The schema has exactly the effects of the recorded migrations, whichever
\* processes run, fail and crash.  (applyMigration.)
THEOREM RecordedIsAppliedHolds == Spec => []RecordedIsApplied
  <1> QED
    BY Initially, Inductive, PTL DEF Spec, IInv

\* A process that has migrated finds the whole history of its build.
THEOREM ReadyHasItsSchemaHolds == Spec => []ReadyHasItsSchema
  <1>1. IInv => ReadyHasItsSchema
    <2> SUFFICES ASSUME IInv, NEW p \in Processes, proc[p].pc = "ready"
                 PROVE  Has(proc[p].build)
      BY DEF ReadyHasItsSchema
    <2>1. /\ HasFirst(proc[p].next - 1, proc[p].build)
          /\ proc[p].next > Len(proc[p].build)
          /\ proc[p].next <= Len(proc[p].build) + 1
          /\ proc[p].next \in Nat /\ proc[p].build \in Seq(Migrations)
      BY MigrationsAssumption, EmptySeq DEF IInv, TypeOK, Located
    <2>2. Len(proc[p].build) = proc[p].next - 1
      BY <2>1, LenProperties
    <2> QED
      BY <2>1, <2>2 DEF Has, HasFirst
  <1> QED
    BY <1>1, Initially, Inductive, PTL DEF Spec

\* A commit is a step of SchemaHistory, and every other step a stutter.
LEMMA StepRefines == IInv /\ [Next]_vars => [Promise!Grow]_schema
  <1> SUFFICES ASSUME IInv, [Next]_vars, schema' # schema PROVE Promise!Grow
    OBVIOUS
  <1>1. PICK p \in Processes : Commit(p)
    BY DEF vars, file, Next, Start, EnsureMigrationTable, ReadApplied, Execute, Record,
           Finish, Fail, Stop
  <1>2. CommitStep(p)
    BY <1>1, Committed DEF IInv
  <1> DEFINE h == proc[p].build
  <1>3. h \in Builds /\ Len(schema) < Len(h)
    BY <1>2, LenProperties DEF CommitStep
  <1>4. schema' = [v \in 1..(Len(schema) + 1) |-> h[v]]
    <2>1. schema' = [v \in 1..(Len(schema) + 1) |-> schema'[v]]
      <3>1. schema' \in Seq(Migrations) /\ Len(schema') = Len(schema) + 1
        BY <1>2 DEF CommitStep
      <3>2. schema' \in [1..(Len(schema) + 1) -> Migrations]
        BY <3>1, LenProperties
      <3> QED
        BY <3>2
    <2>2. \A v \in 1..(Len(schema) + 1) : schema'[v] = h[v]
      BY <1>2 DEF CommitStep
    <2> QED
      BY <2>1, <2>2
  <1> QED
    BY <1>2, <1>3, <1>4 DEF Promise!Grow, CommitStep

\* Migrations implements SchemaHistory: the history of a database only grows,
\* one migration at a time, along one build.
THEOREM Refinement == Spec => ImplementsSchemaHistory
  <1>1. Init => Promise!Init
    BY DEF Init, Promise!Init
  <1> QED
    BY <1>1, Initially, Inductive, StepRefines, PTL
       DEF Spec, ImplementsSchemaHistory, Promise!Spec

=============================================================================
