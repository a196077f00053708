--------------------------- MODULE MCLoginLimiter ---------------------------
(* LoginLimiter with small limits. *)
EXTENDS LoginLimiter, TLC

LoginSymmetry == Permutations(Logins) \union Permutations(Accounts)

=============================================================================
