-------------------------- MODULE AuditedOperation --------------------------
(***************************************************************************)
(* What an audited control operation promises, whatever carries it out     *)
(* (GP-013 and GP-014 of docs/INVARIANTS.md): a durable "attempted" row is *)
(* written first, the effect happens at most once and only under that row, *)
(* and the row moves to a verdict that agrees with the effect and stays.   *)
(* An operation may also stop for ever at any point; the row then stays as *)
(* it is, which is why "attempted" means "outcome not established".        *)
(***************************************************************************)

CONSTANT Operations     \* accepted operations, one audit identifier each

VARIABLES
    audit,              \* audit[o]: the result column of o's row, or "none"
    effect              \* effect[o]: the operation changed durable state

vars == <<audit, effect>>

Verdicts == {"success", "failed"}

Init ==
    /\ audit = [o \in Operations |-> "none"]
    /\ effect = [o \in Operations |-> FALSE]

Attempt(o) ==
    /\ audit[o] = "none"
    /\ audit' = [audit EXCEPT ![o] = "attempted"]
    /\ UNCHANGED effect

Apply(o) ==
    /\ audit[o] = "attempted"
    /\ ~effect[o]
    /\ effect' = [effect EXCEPT ![o] = TRUE]
    /\ UNCHANGED audit

Conclude(o, verdict) ==
    /\ audit[o] = "attempted"
    /\ effect[o] = (verdict = "success")
    /\ audit' = [audit EXCEPT ![o] = verdict]
    /\ UNCHANGED effect

Next ==
    \E o \in Operations :
        \/ Attempt(o)
        \/ Apply(o)
        \/ \E verdict \in Verdicts : Conclude(o, verdict)

Spec == Init /\ [][Next]_vars

=============================================================================
