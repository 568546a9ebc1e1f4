------------------------------- MODULE Registry -------------------------------
(***************************************************************************)
(* Who is logged on: the open connections and the table conns_by_from, as  *)
(* the rest of the server sees them.  LogonServer implements this module;  *)
(* StoreForward is built on it.                                            *)
(***************************************************************************)
EXTENDS Lists

CONSTANTS Conns, Idents

VARIABLES live,           \* connections in conns_tcp and conns_lws
          conns_by_from   \* callsign -> the connections logged on as it

registry == <<live, conns_by_from>>

RegistryInit ==
    /\ live = {}
    /\ conns_by_from = [id \in Idents |-> <<>>]

LoggedOnAs(c) ==
    {id \in Idents : \E i \in DOMAIN conns_by_from[id] : conns_by_from[id][i] = c}

\* The table without some connections under some callsigns.
Without(cs, ids) ==
    [id \in Idents |-> IF id \in ids THEN Excluding(conns_by_from[id], cs)
                       ELSE conns_by_from[id]]

\* handle_accepts, conn_established_lws
Open(c) ==
    /\ c \notin live
    /\ live' = live \cup {c}
    /\ UNCHANGED conns_by_from

\* complete_logon: the newest connection of a callsign is the last one.
LogOn(c, id) ==
    /\ c \in live
    /\ id \notin LoggedOnAs(c)
    /\ conns_by_from' = [conns_by_from EXCEPT ![id] = Append(@, c)]
    /\ UNCHANGED live

\* conn_remove_ident, for one identity, and conn_reset_logon, for all.
LogOff(c, ids) ==
    /\ ids # {} /\ ids \subseteq LoggedOnAs(c)
    /\ conns_by_from' = Without({c}, ids)
    /\ UNCHANGED live

\* close_conn
Shut(c) ==
    /\ c \in live
    /\ live' = live \ {c}
    /\ conns_by_from' = Without({c}, LoggedOnAs(c))

RegistryNext ==
    \E c \in Conns :
        \/ Open(c)
        \/ \E id \in Idents : LogOn(c, id)
        \/ \E ids \in {{id} : id \in Idents} \cup {LoggedOnAs(c)} : LogOff(c, ids)
        \/ Shut(c)

RegistrySpec == RegistryInit /\ [][RegistryNext]_registry
=============================================================================
