------------------------------ MODULE Recorder ------------------------------
(***************************************************************************)
(* diagnostic.Recorder and its Error Log page.  Every failure of the       *)
(* program is recorded by some goroutine (a request handler, the Docker    *)
(* poller, session cleanup, the lifecycle), and the reference it gets back *)
(* is shown to a user or kept in a status; administrators read the records *)
(* concurrently.                                                           *)
(***************************************************************************)
EXTENDS RecordWindow

CONSTANTS
    Callers,            \* goroutines that record failures
    References,         \* references newReference can draw; it repeats none
    NoReference

ASSUME NoReferenceAssumption == NoReference \notin References

VARIABLES
    records,            \* Recorder.records
    recording,          \* recording[c]: what c does next inside Record
    drawn,              \* drawn[c]: the identifier of the record c builds
    logged,             \* references named by the structured log
    shown,              \* references Record returned: users may see them
    snapshot,           \* what Snapshot returned to the Error Log page
    page,               \* the Error Log page, first row first
    history             \* auxiliary: all records appended, in lock order

recorderVars == <<records, recording, drawn, logged, shown, snapshot, page, history>>

NewRecorder ==
    /\ records = <<>>
    /\ recording = [c \in Callers |-> "idle"]
    /\ drawn = [c \in Callers |-> NoReference]
    /\ logged = {}
    /\ shown = {}
    /\ snapshot = <<>>
    /\ page = <<>>
    /\ history = <<>>

Elements(sequence) == {sequence[i] : i \in DOMAIN sequence}

Unused == References \ (Elements(history) \union Elements(drawn))

\* buildRecord: 128 random bits, or a digest of the time and a process-wide
\* counter.  The records are immutable, so the identifier stands for all of it.
Build(c) ==
    /\ recording[c] = "idle"
    /\ \E reference \in Unused : drawn' = [drawn EXCEPT ![c] = reference]
    /\ recording' = [recording EXCEPT ![c] = "append"]
    /\ UNCHANGED <<records, logged, shown, snapshot, page, history>>

\* appendRecord, under the write lock
AppendRecord(c) ==
    /\ recording[c] = "append"
    /\ records' = Appended(records, drawn[c])
    /\ history' = Append(history, drawn[c])
    /\ recording' = [recording EXCEPT ![c] = "log"]
    /\ UNCHANGED <<drawn, logged, shown, snapshot, page>>

\* logRecord, after the lock is released
LogRecord(c) ==
    /\ recording[c] = "log"
    /\ logged' = logged \union {drawn[c]}
    /\ recording' = [recording EXCEPT ![c] = "return"]
    /\ UNCHANGED <<records, drawn, shown, snapshot, page, history>>

\* Record returns and its caller shows the reference.
Return(c) ==
    /\ recording[c] = "return"
    /\ shown' = shown \union {drawn[c]}
    /\ drawn' = [drawn EXCEPT ![c] = NoReference]
    /\ recording' = [recording EXCEPT ![c] = "idle"]
    /\ UNCHANGED <<records, logged, snapshot, page, history>>

\* Snapshot, under the read lock: a copy
TakeSnapshot ==
    /\ snapshot' = records
    /\ UNCHANGED <<records, recording, drawn, logged, shown, page, history>>

Reversed(sequence) == [i \in DOMAIN sequence |-> sequence[Len(sequence) + 1 - i]]

\* (faulty variant: Snapshot returned the recorder's own slice, so that the
\* page reverses the records themselves)
RenderSharedSlice ==
    /\ page' = Reversed(records)
    /\ records' = Reversed(records)
    /\ UNCHANGED <<recording, drawn, logged, shown, snapshot, history>>

\* HandleList reverses the snapshot in place and renders it.
RenderList ==
    /\ page' = Reversed(snapshot)
    /\ UNCHANGED <<records, recording, drawn, logged, shown, snapshot, history>>

\* (faulty variant: the scan stops before the oldest record)
FoundAboveFirst(reference) ==
    \E i \in DOMAIN records : i > 1 /\ records[i] = reference

\* Lookup's result for GET /errors/{id}: the scan from the newest record down
Found(reference) == \E i \in DOMAIN records : records[i] = reference

RecorderNext ==
    \/ \E c \in Callers : Build(c) \/ AppendRecord(c) \/ LogRecord(c) \/ Return(c)
    \/ TakeSnapshot
    \/ RenderList

RecorderSpec == NewRecorder /\ [][RecorderNext]_recorderVars

-----------------------------------------------------------------------------
(* Properties.                                                             *)

RecorderTypeOK ==
    /\ records \in Seq(References)
    /\ recording \in [Callers -> {"idle", "append", "log", "return"}]
    /\ drawn \in [Callers -> References \union {NoReference}]
    /\ logged \subseteq References
    /\ shown \subseteq References
    /\ snapshot \in Seq(References)
    /\ page \in Seq(References)
    /\ history \in Seq(References)

\* The recorder keeps exactly the newest MaxRecords records, in the order they
\* were recorded, whoever records and reads meanwhile.  (appendRecord's shift
\* in place and Snapshot's copy; operations.md: "evicts the oldest first".)
KeepsTheNewest == records = Newest(history)

\* A reference a user was given leads somewhere: it is in the structured log,
\* and in the Error Log unless MaxRecords later failures pushed it out.
\* (The order append, log, return in Record; GP-021.)
ShownIsTraceable ==
    \A reference \in shown :
        /\ reference \in logged
        /\ \E i \in DOMAIN history :
              /\ history[i] = reference
              /\ Found(reference) <=> Len(history) - i < MaxRecords

=============================================================================
