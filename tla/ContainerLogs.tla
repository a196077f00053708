---------------------------- MODULE ContainerLogs ----------------------------
(***************************************************************************)
(* GET .../containers/{id}/logs, from the registry lookup over the three   *)
(* answers of Docker to the text or the error that is shown.  The deadline *)
(* may pass, and the client leave, between any two steps.                  *)
(*                                                                         *)
(* A log is a sequence of bytes of five kinds: a header of Docker's        *)
(* multiplexed format (eight bytes in truth), a line feed, a byte of       *)
(* valid text, one that is not valid UTF-8, and those of U+FFFD.           *)
(***************************************************************************)
EXTENDS Naturals, SequencesExt

CONSTANTS LogTailLines, MaxLogBytes,
          MaxStream,            \* bound on what Docker sends
          None

ASSUME LogAssumption ==
    /\ LogTailLines \in Nat \ {0} /\ MaxLogBytes \in Nat
    /\ MaxStream \in Nat
    /\ None \notin {"other", "deadline", "cancelled", "permission", "not found", "unavailable",
                   "too large", "not_found"}

VARIABLES
    step,       \* the next step of the call
    timedOut,   \* the deadline of the Docker calls has passed
    left,       \* the client has left, so that the request's context is cancelled
    tty,        \* Config.Tty of the inspected container
    stream,     \* what Docker sends: the log as it is now, or None
    failure,    \* the error the call ended with, or None
    shown       \* the text of the log page, or None

callVars == <<step, timedOut, left, tty, stream, failure, shown>>

Logs == UNION {[1..n -> {"header", "feed", "text", "invalid"}] : n \in 0..MaxStream}

CallInit ==
    /\ step = "lookup"
    /\ timedOut = FALSE /\ left = FALSE /\ tty = FALSE
    /\ stream = None /\ failure = None /\ shown = None

-----------------------------------------------------------------------------
(* Text *)

\* stdcopy.StdCopy: the payloads without their headers; the first byte must be one.
Demultiplexes(data) == data = <<>> \/ data[1] = "header"
Demultiplexed(data) == FlattenSeq([i \in 1..Len(data) |->
    IF data[i] = "header" THEN <<>> ELSE <<data[i]>>])

Replacement == <<"fffd1", "fffd2", "fffd3">>

\* (faulty variant: every byte is replaced)
ToValidUTF8ByBytes(data) == FlattenSeq([i \in 1..Len(data) |->
    IF data[i] # "invalid" THEN <<data[i]>> ELSE Replacement])

\* strings.ToValidUTF8: a run of invalid bytes becomes one replacement.
ToValidUTF8(data) == FlattenSeq([i \in 1..Len(data) |->
    IF data[i] # "invalid" THEN <<data[i]>>
    ELSE IF i > 1 /\ data[i - 1] = "invalid" THEN <<>> ELSE Replacement])

Feeds(data) == {i \in 1..Len(data) : data[i] = "feed"}

\* Where line k ends: at the k-th line feed, or with the data.
LineEnd(data, k) ==
    IF k = 0 THEN 0
    ELSE IF k > Cardinality(Feeds(data)) THEN Len(data) + 1
    ELSE CHOOSE i \in Feeds(data) : Cardinality({j \in Feeds(data) : j <= i}) = k

\* bytes.Split and bytes.Join
Lines(data) ==
    [k \in 1..(Cardinality(Feeds(data)) + 1) |->
        SubSeq(data, LineEnd(data, k - 1) + 1, LineEnd(data, k) - 1)]
Joined(lines) ==
    FlattenSeq([i \in 1..Len(lines) |-> (IF i = 1 THEN <<>> ELSE <<"feed">>) \o lines[i]])

EndsWithFeed(data) == data # <<>> /\ Last(data) = "feed"

\* (faulty variant: what follows the last line feed counts as a line)
BoundLogLinesWithEmptyLast(data, maximum) ==
    LET lines == Lines(data)
        first == IF Len(lines) > maximum THEN Len(lines) - maximum + 1 ELSE 1 IN
    Joined(SubSeq(lines, first, Len(lines)))

BoundLogLines(data, maximum) ==
    LET lines == IF EndsWithFeed(data) THEN Front(Lines(data)) ELSE Lines(data)
        first == IF Len(lines) > maximum THEN Len(lines) - maximum + 1 ELSE 1 IN
    Joined(SubSeq(lines, first, Len(lines))) \o IF EndsWithFeed(data) THEN <<"feed">> ELSE <<>>

-----------------------------------------------------------------------------
(* Errors *)

\* How an error is made: its sentinel or wrapper, the kind of a clientFailure in
\* it (or None), and the cause that errors.Is finds at the end of the chain.
Error(is, kind, cause) == [is |-> is, kind |-> kind, cause |-> cause]

ClassifyClientFailure(cause) ==
    CASE cause = "deadline"    -> "timeout"
      [] cause = "permission"  -> "permission_denied"
      [] cause = "not found"   -> "not_found"
      [] cause = "unavailable" -> "unavailable"
      [] OTHER                 -> "protocol"

\* Service.ViewLogs maps what Client.ViewLogs returns.
MapOperationError(kind, cause) ==
    IF kind = "not_found" THEN Error("container not found", None, None)
                          ELSE Error("backend", kind, cause)

\* (faulty variant: the causes are not looked at)
SafeDiagnosticByKind(error) ==
    IF error.cause = "too large" THEN "log response exceeded the limit"
    ELSE IF error.kind = None THEN "operation failed"
    ELSE error.kind

SafeDiagnostic(error) ==
    IF error.cause = "too large" THEN "log response exceeded the limit"
    ELSE IF error.cause = "deadline" THEN "timeout"
    ELSE IF error.kind = None THEN "operation failed"
    ELSE error.kind

\* operationErrorPresentation: these need no look into the Error Log.
IsExpected(error) ==
    error.is \in {"server not found", "not a Docker server", "container not found", "invalid id"}

-----------------------------------------------------------------------------
(* The steps *)

Continue(next) == step' = next /\ UNCHANGED <<failure, shown>>
End(error) == step' = "done" /\ failure' = error /\ UNCHANGED shown

\* The deadline, from the first call of Docker on; the client.
Timeout ==
    /\ step \in {"inspect", "logs", "read"}
    /\ timedOut' = TRUE
    /\ UNCHANGED <<step, left, tty, stream, failure, shown>>
Leave ==
    /\ left' = TRUE
    /\ UNCHANGED <<step, timedOut, tty, stream, failure, shown>>

\* Why a call may fail, with an ended context too.
Causes == {"other"} \union (IF timedOut THEN {"deadline"} ELSE {})
                    \union (IF left THEN {"cancelled"} ELSE {})
DockerCauses == Causes \union {"permission", "not found", "unavailable"}

\* The registry, and the pattern of the identifier.
GetDockerServer ==
    /\ step = "lookup"
    /\ \/ ~left /\ Continue("inspect")
       \/ \E is \in {"server not found", "not a Docker server", "invalid id"} :
              ~left /\ End(Error(is, None, None))
       \/ \E cause \in Causes : End(Error("backend", None, cause))
    /\ UNCHANGED <<timedOut, left, tty, stream>>

FailsWith(causes) ==
    \E cause \in causes : End(MapOperationError(ClassifyClientFailure(cause), cause))

ContainerInspect ==
    /\ step = "inspect"
    /\ \/ Continue("logs") /\ tty' \in BOOLEAN
       \/ FailsWith(DockerCauses) /\ UNCHANGED tty
    /\ UNCHANGED <<timedOut, left, stream>>

\* Docker is asked for LogTailLines lines, and may send more.
ContainerLogs ==
    /\ step = "logs"
    /\ \/ Continue("read") /\ stream' \in Logs
       \/ FailsWith(DockerCauses) /\ UNCHANGED stream
    /\ UNCHANGED <<timedOut, left, tty>>

Prefix(data, length) == SubSeq(data, 1, IF Len(data) < length THEN Len(data) ELSE length)

\* (faulty variant: the limit is reached rather than exceeded)
LimitReaderAtLimit == Prefix(stream, MaxLogBytes)

LimitReader == Prefix(stream, MaxLogBytes + 1)

\* readLogs: a failure to read or close; a log that is too large; the text.
ReadLogs ==
    /\ step = "read"
    /\ LET data == LimitReader
           Show(text) == /\ step' = "done" /\ UNCHANGED failure
                         /\ shown' = BoundLogLines(ToValidUTF8(text), LogTailLines) IN
       \/ \E cause \in Causes : End(MapOperationError("protocol", cause))
       \/ /\ Len(data) > MaxLogBytes
          /\ End(MapOperationError(None, "too large"))
       \/ /\ Len(data) <= MaxLogBytes
          /\ IF tty THEN Show(data)
             ELSE IF Demultiplexes(data) THEN Show(Demultiplexed(data))
             ELSE End(MapOperationError("protocol", "other"))
    /\ UNCHANGED <<timedOut, left, tty, stream>>

CallNext == GetDockerServer \/ ContainerInspect \/ ContainerLogs \/ ReadLogs \/ Timeout \/ Leave

ViewLogs == CallInit /\ [][CallNext]_callVars

-----------------------------------------------------------------------------
(* Properties *)

\* The errors that ViewLogs returns.
Errors == [is : {"server not found", "not a Docker server", "container not found",
                 "invalid id", "backend"},
           kind : {None, "timeout", "permission_denied", "unavailable", "protocol"},
           cause : {None, "other", "deadline", "cancelled", "permission", "not found",
                    "unavailable", "too large"}]

CallTypeOK ==
    /\ step \in {"lookup", "inspect", "logs", "read", "done"}
    /\ timedOut \in BOOLEAN /\ left \in BOOLEAN /\ tty \in BOOLEAN
    /\ stream \in Logs \union {None}
    /\ failure \in Errors \union {None}

\* What Docker holds of the container's log, as text.
Text == ToValidUTF8(IF tty THEN stream ELSE Demultiplexed(stream))
LineCount(text) ==
    Cardinality(Feeds(text)) + IF text = <<>> \/ EndsWithFeed(text) THEN 0 ELSE 1

\* The page shows the end of the log that was sent: whole lines, with nothing
\* after them missing, and as many as there are up to LogTailLines.
ShownIsTheEnd == shown # None =>
    /\ IsSuffix(shown, Text)
    /\ LineCount(shown) = IF LineCount(Text) < LogTailLines THEN LineCount(Text) ELSE LogTailLines
    /\ shown # Text => Text[Len(Text) - Len(shown)] = "feed"

\* What docs/maintainers/integrations.md says of a log view: it "caps decoded output"
\* at MaxLogBytes.  It does not: readLogs checks the size of what it read, and
\* replacing invalid bytes makes that text longer.
DecodedOutputIsCapped == shown # None => Len(shown) <= MaxLogBytes

\* How far the code exceeds that cap: a shown text has at most one byte more than
\* twice as many, of a stream in which every other byte is invalid.
ShownIsBounded == shown # None => Len(shown) <= 2 * MaxLogBytes + 1

\* The Error Log names a deadline as such, in whichever step it struck; and the
\* user is told that the container does not exist only if Docker or its
\* identifier said so, never for a failure that goes to the Error Log.
FailureIsExplained == failure # None =>
    /\ failure.cause = "deadline" => SafeDiagnostic(failure) = "timeout"
    /\ IsExpected(failure) <=> failure.cause = None
    /\ SafeDiagnostic(failure) # "not_found"
=============================================================================
