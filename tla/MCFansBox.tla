------------------------------ MODULE MCFansBox ------------------------------
(***************************************************************************)
(* Model checking of FansBox.                                              *)
(***************************************************************************)
EXTENDS FansBox
=============================================================================
