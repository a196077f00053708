---------------------------- MODULE MCMigrations ----------------------------
(* Migrations with an older, a newer and a diverging build. *)
EXTENDS Migrations, TLC

CONSTANTS m1, m2, m3, x2

MCBuilds == {<<m1, m2>>, <<m1, m2, m3>>, <<m1, x2>>}

ProcessSymmetry == Permutations(Processes)

=============================================================================
