----------------------------- MODULE MCSessions -----------------------------
(* Sessions with a few users, logins and requests. *)
EXTENDS Sessions, TLC

ActorSymmetry == Permutations(Users) \union Permutations(Logins)
                     \union Permutations(Requests)

=============================================================================
