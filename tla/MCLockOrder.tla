----------------------------- MODULE MCLockOrder -----------------------------
(* LockOrder on a small instance. *)
EXTENDS LockOrder

CONSTANTS t1, w1, r1

MCTcp == {t1}
MCLws == {w1}
MCRouters == {r1}
=============================================================================
