---------------------------- MODULE MCLogonServer ----------------------------
(* LogonServer on a small instance. *)
EXTENDS LogonRegistry

CONSTANTS t1, w1, ac1, atc1, atc2

MCTcpOne == {t1}
MCLwsOne == {w1}
MCIdents == {ac1, atc1}
MCThreeIdents == {ac1, atc1, atc2}
MCTargets == {atc1, NoIdent}
=============================================================================
