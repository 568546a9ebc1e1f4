------------------------------ MODULE MCSession ------------------------------
(***************************************************************************)
(* Instances of Session.  The stations are interchangeable.                *)
(***************************************************************************)
EXTENDS Session, TLC

Symmetry == Permutations(Stations)
=============================================================================
