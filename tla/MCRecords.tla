------------------------------ MODULE MCRecords ------------------------------
(***************************************************************************)
(* The two kinds of records the program keeps of its operations: audit     *)
(* rows (Registration) and the diagnostics of the Error Log (Recorder).    *)
(* The modules share no variable, so no step of one depends on the other,  *)
(* and each property speaks of one.  TLC therefore explores each of them   *)
(* while the other is at rest, instead of the product of their states.     *)
(***************************************************************************)
EXTENDS Registration, Recorder

RecordsInit == Init /\ NewRecorder

RecordsNext ==
    \/ NewRecorder /\ Next /\ UNCHANGED recorderVars
    \/ Init /\ RecorderNext /\ UNCHANGED vars

RecordsSpec ==
    /\ RecordsInit /\ [][RecordsNext]_<<vars, recorderVars>>
    /\ \A r \in Requests : WF_vars(Handle(r))

=============================================================================
