--------------------------- MODULE SchemaHistory ---------------------------
(***************************************************************************)
(* What the migration mechanism promises (docs/maintainers/operations.md,  *)
(* Migration Policy): the history of a database grows by one migration at  *)
(* a time, in numeric order, and is always the beginning of what some      *)
(* build embeds; nothing is ever taken back.                               *)
(***************************************************************************)
EXTENDS Naturals, Sequences

CONSTANTS
    Migrations,         \* migrations, by file name
    Histories           \* the sequences of migrations that builds embed

VARIABLE history        \* the migrations of the database, by version

Init == history = <<>>

Grow ==
    \E h \in Histories :
        /\ Len(history) < Len(h)
        /\ \A v \in 1..Len(history) : history[v] = h[v]
        /\ history' = [v \in 1..Len(history) + 1 |-> h[v]]

Spec == Init /\ [][Grow]_history

=============================================================================
