------------------------ MODULE MCClientDataManager ------------------------
(***************************************************************************)
(* Small instances of ClientDataManager for TLC.                           *)
(***************************************************************************)
EXTENDS ClientDataManager, TLC

\* Keys, names and sessions are interchangeable; none is used in an order.
Symmetry ==
    Permutations(Keys) \cup Permutations(Names) \cup Permutations(Sessions)
=============================================================================
