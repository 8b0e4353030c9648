---------------------------- MODULE MCServerCore ----------------------------
(* Instances of ServerCore. *)
EXTENDS ServerCore, TLC

Symmetry == Permutations(Conns) \cup Permutations(Fds)
=============================================================================
