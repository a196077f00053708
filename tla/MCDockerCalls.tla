---------------------------- MODULE MCDockerCalls ----------------------------
(***************************************************************************)
(* The calls of Docker: the poller's checks (DockerStatus without          *)
(* handlers) and one log view (ContainerLogs).  The modules share no       *)
(* variable: what a log view's failure does to the status is already a     *)
(* handler of DockerStatus.  TLC explores each of them while the other is  *)
(* at rest, instead of the product of their states.                        *)
(***************************************************************************)
EXTENDS DockerStatus, ContainerLogs

CallsInit == Init /\ CallInit

CallsNext ==
    \/ CallInit /\ Next /\ UNCHANGED callVars
    \/ Init /\ CallNext /\ UNCHANGED vars

CallsSpec ==
    /\ CallsInit /\ [][CallsNext]_<<vars, callVars>>
    /\ WF_vars(Dispatch)
    /\ \A w \in Workers : WF_vars(CheckDockerStatus(w))

=============================================================================
