----------------------------- MODULE MCMainLoop -----------------------------
(***************************************************************************)
(* Model checking of MainLoop.                                             *)
(***************************************************************************)
EXTENDS MainLoop

CONSTANTS c1, c2

MCConns == {c1, c2}
MCHosts == {c2}

\* Two connections, or one and several edits of the blocklist.
MCBounds == {[connects |-> 2, edits |-> 0], [connects |-> 1, edits |-> 3]}
=============================================================================
