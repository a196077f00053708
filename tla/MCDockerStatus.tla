--------------------------- MODULE MCDockerStatus ---------------------------
(* DockerStatus with a few servers, workers and handlers. *)
EXTENDS DockerStatus, TLC

ActorSymmetry == Permutations(Workers) \union Permutations(Handlers)
                     \union Permutations(Servers)

=============================================================================
