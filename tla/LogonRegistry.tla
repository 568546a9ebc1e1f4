---------------------------- MODULE LogonRegistry ----------------------------
(***************************************************************************)
(* The logon life cycle implements the registry that forwarding relies on. *)
(***************************************************************************)
EXTENDS LogonServer

Reg == INSTANCE Registry

\* To the rest of the server all of LogonServer is a registry of who is
\* logged on: a step adds one connection under one callsign, as the last
\* one, or takes away one or all of a connection's callsigns, or closes it.
\* forward_msg_cb, msg_auto_assign_from and the queue rely on nothing else.
KeepsRegistry == Reg!RegistrySpec
=============================================================================
