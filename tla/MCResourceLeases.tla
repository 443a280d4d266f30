-------------------------- MODULE MCResourceLeases --------------------------
(***************************************************************************)
(* ResourceLeases for TLC.  Sessions are interchangeable: no definition    *)
(* orders or names them.                                                   *)
(***************************************************************************)
EXTENDS ResourceLeases, TLC

Symmetry == Permutations(Sessions)
=============================================================================
