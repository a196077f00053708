---------------------------- MODULE RecordWindow ----------------------------
(***************************************************************************)
(* The bounded in-memory list of diagnostics, as a pure operation and as   *)
(* what it is meant to be: the newest MaxRecords of everything recorded.   *)
(***************************************************************************)
EXTENDS Naturals, Sequences

CONSTANT MaxRecords     \* diagnostic.MaxRecords

ASSUME MaxRecordsAssumption == MaxRecords \in Nat \ {0}

\* (faulty variant: the list is cleared once it is full)
AppendedAfterClear(records, record) ==
    IF Len(records) = MaxRecords THEN <<record>> ELSE Append(records, record)

\* Recorder.appendRecord: a full slice is shifted in place and its last cell
\* overwritten.
Appended(records, record) ==
    IF Len(records) = MaxRecords
    THEN [i \in 1..MaxRecords |-> IF i = MaxRecords THEN record ELSE records[i + 1]]
    ELSE Append(records, record)

\* The newest MaxRecords elements of a history, oldest first.
Newest(history) ==
    LET dropped == IF Len(history) <= MaxRecords THEN 0 ELSE Len(history) - MaxRecords
    IN  [i \in 1..(Len(history) - dropped) |-> history[dropped + i]]

=============================================================================
