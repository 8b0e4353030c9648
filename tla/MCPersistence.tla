--------------------------- MODULE MCPersistence ---------------------------
(***************************************************************************)
(* Small instances of Persistence for TLC.                                 *)
(***************************************************************************)
EXTENDS Persistence, TLC

\* Keys, names and sessions are interchangeable; none is used in an order.
Symmetry ==
    Permutations(Keys) \cup Permutations(Names) \cup Permutations(Sessions)
=============================================================================
