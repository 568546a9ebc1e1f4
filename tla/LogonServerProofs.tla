-------------------------- MODULE LogonServerProofs --------------------------
(***************************************************************************)
(* Proofs, for any number of connections, callsigns and sessions, of the   *)
(* safety properties of LogonServer: IInv is inductive, and implies them;  *)
(* and that the server implements Registry.                                *)
(***************************************************************************)
EXTENDS LogonRegistry, ListLemmas

-----------------------------------------------------------------------------
(* The shared pieces of the handlers, as functions of a conn_t. *)

\* conn_reset_logon leaves a connection without identity and logon.
LEMMA ResetFacts ==
    ASSUME NEW r \in ConnRecord
    PROVE  /\ ResetLogon(r) \in ConnRecord
           /\ ResetLogon(r).from_list = <<>>
           /\ ResetLogon(r).logon_status = "NONE"
           /\ ResetLogon(r).logon_success = FALSE
<1> DEFINE forgotten == [r EXCEPT !.is_atc = FALSE, !.to = NoIdent,
                                  !.logon_from = NoIdent, !.logon_to = NoIdent]
           q == IF r.logon_status = "COMPLETE" THEN forgotten ELSE r
<1>1. forgotten \in ConnRecord
  BY Zenon DEF ConnRecord, Targets
<1>2. q \in ConnRecord
  BY <1>1
<1>3. ResetLogon(r) = [q EXCEPT !.from_list = <<>>, !.logon_status = "NONE",
                                !.logon_success = FALSE]
  BY DEF ResetLogon
<1>4. <<>> \in Seq(Idents)
  OBVIOUS
<1> HIDE DEF q
<1>5. "NONE" \in Statuses /\ FALSE \in BOOLEAN
  BY DEF Statuses
<1>6. ResetLogon(r) \in ConnRecord
  BY Zenon, <1>2, <1>3, <1>4, <1>5 DEF ConnRecord
<1>7. /\ ResetLogon(r).from_list = <<>>
      /\ ResetLogon(r).logon_status = "NONE"
      /\ ResetLogon(r).logon_success = FALSE
  BY <1>2, <1>3 DEF ConnRecord
<1> QED
  BY <1>6, <1>7

\* Clearing before a LOGON or LOGOFF of `from': an aircraft loses all its
\* identities, an ATC station that one, and who has none left is nobody.
LEMMA ClearFacts ==
    ASSUME NEW r \in ConnRecord, NEW from \in Idents, IsInjective(r.from_list)
    PROVE  LET q == ClearPrevious(r, from)
           IN  /\ q \in ConnRecord
               /\ IsInjective(q.from_list)
               /\ \A x : Has(q.from_list, x) <=>
                            (r.is_atc /\ x # from /\ Has(r.from_list, x))
               /\ q.from_list = <<>> => q.logon_status = "NONE" /\ ~q.is_atc
               /\ q.from_list # <<>> => /\ r.is_atc /\ q.is_atc
                                        /\ q.logon_status = r.logon_status
<1> DEFINE cleared == IF r.is_atc
                      THEN [r EXCEPT !.from_list = RemoveFirst(@, from)]
                      ELSE ResetLogon(r)
           q == ClearPrevious(r, from)
<1>1. /\ RemoveFirst(r.from_list, from) \in Seq(Idents)
      /\ IsInjective(RemoveFirst(r.from_list, from))
      /\ \A x : Has(RemoveFirst(r.from_list, from), x) <=>
                   (x # from /\ Has(r.from_list, x))
  BY RemoveFirstFacts DEF ConnRecord
<1>2. /\ cleared \in ConnRecord
      /\ cleared.from_list =
            IF r.is_atc THEN RemoveFirst(r.from_list, from) ELSE <<>>
      /\ r.is_atc => cleared.is_atc /\ cleared.logon_status = r.logon_status
  BY Zenon, <1>1, ResetFacts DEF ConnRecord
<1>3. /\ IsInjective(cleared.from_list)
      /\ \A x : Has(cleared.from_list, x) <=>
                   (r.is_atc /\ x # from /\ Has(r.from_list, x))
  BY <1>1, <1>2 DEF IsInjective, Has
<1>4. q = IF cleared.from_list = <<>>
          THEN [cleared EXCEPT !.idle = 0, !.logon_status = "NONE",
                               !.logon_success = FALSE, !.is_atc = FALSE]
          ELSE cleared
  BY DEF ClearPrevious
<1> HIDE DEF cleared, q
<1>5. /\ q \in ConnRecord
      /\ q.from_list = cleared.from_list
      /\ q.from_list = <<>> => q.logon_status = "NONE" /\ ~q.is_atc
      /\ q.from_list # <<>> => q = cleared
  <2>1. CASE cleared.from_list = <<>>
    <3>1. 0 \in 0 .. GraceTime + 1 /\ "NONE" \in Statuses
      BY BoundsAssumption DEF Statuses
    <3>2. q = [cleared EXCEPT !.idle = 0, !.logon_status = "NONE",
                              !.logon_success = FALSE, !.is_atc = FALSE]
      BY <1>4, <2>1
    <3>3. /\ q \in ConnRecord
          /\ q.from_list = cleared.from_list
          /\ q.logon_status = "NONE" /\ ~q.is_atc
      BY Zenon, <1>2, <3>1, <3>2 DEF ConnRecord
    <3> QED
      BY <2>1, <3>3
  <2>2. CASE cleared.from_list # <<>>
    BY <1>2, <1>4, <2>2
  <2> QED
    BY <2>1, <2>2
<1> QED
  BY <1>2, <1>3, <1>5 DEF q

-----------------------------------------------------------------------------
(* The table conns_by_from. *)

\* Taking a connection out of the table under some of its callsigns, and
\* the callsigns off its list, keeps the two in agreement.
LEMMA TableClear ==
    ASSUME TypeOK, TableMatchesFromLists, NEW c \in Conns, NEW ids \in SUBSET Idents,
           conns_by_from' = TableWithout(c, ids),
           conn' \in [Conns -> ConnRecord],
           \A d \in Conns \ {c} : conn'[d] = conn[d],
           IsInjective(conn'[c].from_list),
           \A id \in Idents : Has(conn'[c].from_list, id) <=>
                                 (HoldsIdent(c, id) /\ id \notin ids),
           live \ {c} \subseteq live',
           c \in live' \/ conn'[c].from_list = <<>>
    PROVE  /\ conns_by_from' \in [Idents -> Seq(Conns)]
           /\ TableMatchesFromLists'
<1>1. ASSUME NEW id \in Idents
      PROVE  /\ conns_by_from'[id] \in Seq(Conns)
             /\ IsInjective(conns_by_from'[id])
             /\ \A d \in Conns : Has(conns_by_from'[id], d) <=>
                   (Has(conns_by_from[id], d) /\ ~(d = c /\ id \in ids))
  <2>1. conns_by_from[id] \in Seq(Conns) /\ IsInjective(conns_by_from[id])
    BY DEF TypeOK, TableMatchesFromLists
  <2>2. conns_by_from'[id] = IF id \in ids THEN RemoveFirst(conns_by_from[id], c)
                                           ELSE conns_by_from[id]
    BY DEF TableWithout
  <2> QED
    BY <2>1, <2>2, RemoveFirstFacts
<1>2. conns_by_from' \in [Idents -> Seq(Conns)]
  BY <1>1 DEF TableWithout
<1>3. ASSUME NEW d \in Conns, NEW id \in Idents
      PROVE  Registered(d, id)' <=> HoldsIdent(d, id)'
  <2>1. Has(conns_by_from[id], d) <=> Has(conn[d].from_list, id)
    BY DEF TableMatchesFromLists, Registered, HoldsIdent, Has
  <2>2. Has(conns_by_from'[id], d) <=> Has(conn'[d].from_list, id)
    BY <1>1, <2>1 DEF HoldsIdent, Has
  <2> QED
    BY <2>2 DEF Registered, HoldsIdent, Has
<1>4. \A d \in Conns : IsInjective(conn'[d].from_list)
  BY DEF TableMatchesFromLists
<1>5. \A d \in Conns \ live' : conn'[d].from_list = <<>>
  BY DEF TableMatchesFromLists
<1> QED
  BY <1>1, <1>2, <1>3, <1>4, <1>5 DEF TableMatchesFromLists

-----------------------------------------------------------------------------
(* The grants. *)

\* The grants behind a connection's identities stand as long as neither the
\* connection nor they change.
LEMMA GrantsKept ==
    ASSUME NEW d \in Conns, GrantsOf(d), conn'[d] = conn[d],
           \A g \in authed : g[1] = d => g \in authed'
    PROVE  GrantsOf(d)'
<1>1. \A id, to, atc : <<d, id, to, atc>> \in authed =>
                          <<d, id, to, atc>> \in authed'
  OBVIOUS
<1> QED
  BY Zenon, <1>1 DEF GrantsOf, InProgress

\* Clearing before a LOGON or LOGOFF of `from' keeps the grants behind the
\* identities that stay; they were all granted as ATC.
LEMMA GrantsAfterClearing ==
    ASSUME IInv, NEW c \in Conns, NEW from \in Idents,
           GrantsAfterClear(c, from) \subseteq authed'
    PROVE  /\ \A d \in Conns \ {c} : \A g \in authed : g[1] = d => g \in authed'
           /\ \A x : Has(ClearPrevious(conn[c], from).from_list, x) =>
                        \E to \in Targets : <<c, x, to, TRUE>> \in authed'
<1>1. \A d \in Conns \ {c} : \A g \in authed : g[1] = d => g \in authed'
  BY DEF GrantsAfterClear
<1>2. ASSUME NEW x, Has(ClearPrevious(conn[c], from).from_list, x)
      PROVE  \E to \in Targets : <<c, x, to, TRUE>> \in authed'
  <2>1. conn[c].is_atc /\ x # from /\ Has(conn[c].from_list, x)
    BY Zenon, <1>2, ClearFacts DEF IInv, TypeOK, TableMatchesFromLists
  <2>2. PICK to \in Targets : <<c, x, to, TRUE>> \in authed
    BY Zenon, <2>1 DEF IInv, GrantsStand, GrantsOf, Has
  <2>3. <<c, x, to, TRUE>> \in GrantsAfterClear(c, from)
    BY <2>1, <2>2 DEF GrantsAfterClear
  <2> QED
    BY Zenon, <2>3
<1> QED
  BY Zenon, <1>1, <1>2

-----------------------------------------------------------------------------
(* The sessions. *)

\* auth_sess_kill marks the session that works for the connection, if any:
\* afterwards no session will call back to it, and no other is disturbed.
LEMMA KillFacts ==
    ASSUME IInv, NEW c \in Conns
    PROVE  LET S == SessionsAfterReset(c)
           IN  /\ DOMAIN S = DOMAIN sessions
               /\ S \in [DOMAIN sessions -> Session]
               /\ \A k \in DOMAIN sessions :
                     /\ sessions[k].conn # c => S[k] = sessions[k]
                     /\ ~S[k].kill => S[k] = sessions[k] /\ S[k].conn # c
<1>1. sessions \in [DOMAIN sessions -> Session]
  BY DEF IInv, TypeOK
<1>2. CASE conn[c].logon_status = "STARTED"
  <2>1. c \in live
    BY <1>2 DEF IInv, ClosedIsFresh, FreshConn
  <2>2. /\ conn[c].auth_key \in DOMAIN sessions
        /\ sessions[conn[c].auth_key].conn = c
    BY <1>2, <2>1 DEF IInv, StartedLogonHasSession
  <2>3. SessionsAfterReset(c) = [sessions EXCEPT ![conn[c].auth_key].kill = TRUE]
    BY <1>2, <2>2 DEF SessionsAfterReset
  <2>4. \A k \in DOMAIN sessions : ~sessions[k].kill /\ sessions[k].conn = c =>
                                      k = conn[c].auth_key
    BY DEF IInv, CallbackFindsItsLogon
  <2>5. PICK key : key = conn[c].auth_key
    OBVIOUS
  <2>6. PICK S : S = SessionsAfterReset(c)
    OBVIOUS
  <2>7. /\ S \in [DOMAIN sessions -> Session]
        /\ DOMAIN S = DOMAIN sessions
        /\ \A k \in DOMAIN sessions \ {key} : S[k] = sessions[k]
    <3>1. S = [sessions EXCEPT ![key] = [sessions[key] EXCEPT !.kill = TRUE]]
      BY <2>2, <2>3, <2>5, <2>6
    <3>2. [sessions[key] EXCEPT !.kill = TRUE] \in Session
      BY <1>1, <2>2, <2>5, Zenon DEF Session
    <3> QED
      BY <1>1, <2>2, <2>5, <3>1, <3>2, Zenon
  <2>8. S[key].kill
    BY <1>1, <2>2, <2>3, <2>5, <2>6 DEF Session
  <2>9. ASSUME NEW k \in DOMAIN sessions
        PROVE  /\ sessions[k].conn # c => S[k] = sessions[k]
               /\ ~S[k].kill => S[k] = sessions[k] /\ S[k].conn # c
    BY <2>2, <2>4, <2>5, <2>7, <2>8
  <2> QED
    BY <2>6, <2>7, <2>9
<1>3. CASE conn[c].logon_status # "STARTED"
  <2>1. SessionsAfterReset(c) = sessions
    BY <1>3 DEF SessionsAfterReset
  <2>2. \A k \in DOMAIN sessions : ~sessions[k].kill => sessions[k].conn # c
    BY <1>3 DEF IInv, CallbackFindsItsLogon
  <2> QED
    BY <1>1, <2>1, <2>2
<1> QED
  BY <1>2, <1>3
-----------------------------------------------------------------------------
(* The steps. *)

\* Steps that touch only kill_wsi, the clock or the output of connections
\* that are open.
LEMMA FrameStep ==
    ASSUME IInv, conn' \in [Conns -> ConnRecord],
           UNCHANGED <<auth_mode, live, conns_by_from, sessions, next_sess_key,
                       authed>>,
           \A c \in Conns \ live : conn'[c] = conn[c],
           \A c \in Conns :
              /\ conn'[c].logon_status = conn[c].logon_status
              /\ conn'[c].logon_success = conn[c].logon_success
              /\ conn'[c].is_atc = conn[c].is_atc
              /\ conn'[c].from_list = conn[c].from_list
              /\ conn'[c].to = conn[c].to
              /\ conn'[c].logon_from = conn[c].logon_from
              /\ conn'[c].logon_to = conn[c].logon_to
              /\ conn'[c].auth_key = conn[c].auth_key
    PROVE  IInv'
<1> USE DEF IInv
<1>1. TypeOK'
  BY DEF TypeOK
<1>2. TableMatchesFromLists'
  BY DEF TableMatchesFromLists, Registered, HoldsIdent
<1>3. CallbackFindsItsLogon'
  <2>1. \A k \in DOMAIN sessions : sessions[k].conn \in Conns
    BY DEF TypeOK, Session
  <2> QED
    BY <2>1 DEF CallbackFindsItsLogon
<1>4. StartedLogonHasSession'
  BY DEF StartedLogonHasSession, TypeOK
<1>5. LoggedOnHasIdentity'
  BY DEF LoggedOnHasIdentity
<1>6. ClosedIsFresh'
  BY DEF ClosedIsFresh
<1>7. PendingIsNew'
  BY DEF PendingIsNew, InProgress, HoldsIdent
<1>8. GrantsStand'
  BY Zenon DEF GrantsStand, GrantsOf, InProgress
<1> QED
  BY <1>1, <1>2, <1>3, <1>4, <1>5, <1>6, <1>7, <1>8

\* Accepting a connection into a zeroed slot.
LEMMA AcceptStep ==
    ASSUME IInv, NEW c \in Conns, Accept(c)
    PROVE  IInv'
<1> USE DEF IInv
<1>1. conn' = conn
  BY DEF Accept, ClosedIsFresh, TypeOK
<1>2. /\ c \notin live
      /\ live' = live \cup {c}
      /\ UNCHANGED <<auth_mode, conns_by_from, sessions, next_sess_key, authed>>
  BY DEF Accept
<1>3. conn[c] = FreshConn
  BY <1>2 DEF ClosedIsFresh
<1>4. TypeOK'
  BY <1>1, <1>2 DEF TypeOK
<1>5. TableMatchesFromLists'
  BY <1>1, <1>2 DEF TableMatchesFromLists, Registered, HoldsIdent
<1>6. CallbackFindsItsLogon'
  BY <1>1, <1>2 DEF CallbackFindsItsLogon
<1>7. StartedLogonHasSession'
  BY <1>1, <1>2, <1>3 DEF StartedLogonHasSession, FreshConn
<1>8. LoggedOnHasIdentity' /\ ClosedIsFresh'
  BY <1>1, <1>2 DEF LoggedOnHasIdentity, ClosedIsFresh
<1>9. PendingIsNew' /\ GrantsStand'
  BY Zenon, <1>1, <1>2 DEF PendingIsNew, InProgress, HoldsIdent, GrantsStand, GrantsOf
<1> QED
  BY <1>4, <1>5, <1>6, <1>7, <1>8, <1>9

\* conn_reset_logon, in close_conn and in conn_send_msg: the connection loses
\* its identities, its logon and its session.
LEMMA ResetStep ==
    ASSUME IInv, NEW c \in live, NEW q \in ConnRecord,
           conn' = [conn EXCEPT ![c] = q],
           q.from_list = <<>>, q.logon_status = "NONE",
           conns_by_from' = TableWithout(c, HeldIdents(c)),
           sessions' = SessionsAfterReset(c),
           authed' = GrantsAfterReset(c),
           UNCHANGED <<auth_mode, next_sess_key>>,
           live' = live \/ (live' = live \ {c} /\ q = FreshConn)
    PROVE  IInv'
<1> USE DEF IInv
<1>1. /\ c \in Conns
      /\ conn' \in [Conns -> ConnRecord]
      /\ conn'[c] = q
      /\ \A d \in Conns \ {c} : conn'[d] = conn[d]
  BY DEF TypeOK
<1>2. /\ live' \subseteq Conns
      /\ live \ {c} \subseteq live'
      /\ live' \subseteq live
  BY DEF TypeOK
<1>3. IsInjective(<<>>) /\ \A x : ~Has(<<>>, x)
  BY DEF IsInjective, Has
<1>4. HeldIdents(c) \in SUBSET Idents
  BY DEF HeldIdents
<1>5. /\ conns_by_from' \in [Idents -> Seq(Conns)]
      /\ TableMatchesFromLists'
  <2>1. \A id \in Idents : Has(conn'[c].from_list, id) <=>
                              (HoldsIdent(c, id) /\ id \notin HeldIdents(c))
    BY <1>1, <1>3 DEF HeldIdents
  <2> QED
    BY <1>1, <1>2, <1>3, <1>4, <2>1, TableClear
<1>6. /\ DOMAIN sessions' = DOMAIN sessions
      /\ sessions' \in [DOMAIN sessions -> Session]
      /\ \A k \in DOMAIN sessions :
            /\ sessions[k].conn # c => sessions'[k] = sessions[k]
            /\ ~sessions'[k].kill => sessions'[k] = sessions[k] /\ sessions'[k].conn # c
  BY <1>1, KillFacts
<1>7. TypeOK'
  BY <1>1, <1>2, <1>5, <1>6 DEF TypeOK, GrantsAfterReset
<1>8. CallbackFindsItsLogon'
  <2> SUFFICES ASSUME NEW k \in DOMAIN sessions, ~sessions'[k].kill
               PROVE  LET d == sessions'[k].conn
                      IN  /\ d \in live'
                          /\ conn'[d].logon_status = "STARTED"
                          /\ conn'[d].auth_key = k
                          /\ conn'[d].logon_from = sessions'[k].from
                          /\ conn'[d].logon_to = sessions'[k].to
    BY <1>6 DEF CallbackFindsItsLogon
  <2>1. sessions'[k] = sessions[k] /\ sessions[k].conn # c
    BY <1>6
  <2>2. sessions[k].conn \in Conns
    BY DEF TypeOK, Session
  <2> QED
    BY <1>1, <1>2, <2>1, <2>2, SMTT(30) DEF CallbackFindsItsLogon
<1>9. StartedLogonHasSession'
  <2> SUFFICES ASSUME NEW d \in live', conn'[d].logon_status = "STARTED"
               PROVE  /\ conn'[d].auth_key \in DOMAIN sessions'
                      /\ sessions'[conn'[d].auth_key].conn = d
                      /\ ~sessions'[conn'[d].auth_key].kill
    BY DEF StartedLogonHasSession
  <2>1. d # c /\ d \in live /\ d \in Conns
    BY <1>1, <1>2
  <2> QED
    BY <1>1, <1>6, <2>1 DEF StartedLogonHasSession
<1>10. LoggedOnHasIdentity'
  BY <1>1 DEF LoggedOnHasIdentity
<1>11. ClosedIsFresh'
  BY <1>1, <1>2 DEF ClosedIsFresh
<1>12. PendingIsNew'
  BY <1>1 DEF PendingIsNew, InProgress, HoldsIdent
<1>13. GrantsStand'
  <2>1. ASSUME NEW d \in Conns \ {c} PROVE GrantsOf(d)'
    <3>1. \A g \in authed : g[1] = d => g \in authed'
      BY DEF GrantsAfterReset
    <3> QED
      BY <1>1, <3>1, GrantsKept DEF GrantsStand
  <2>2. GrantsOf(c)'
    <3>1. DOMAIN conn'[c].from_list = {} /\ conn'[c].logon_status = "NONE"
      BY <1>1
    <3> QED
      BY Zenon, <3>1 DEF GrantsOf, InProgress
  <2> QED
    BY <2>1, <2>2 DEF GrantsStand
<1> QED
  BY <1>5, <1>7, <1>8, <1>9, <1>10, <1>11, <1>12, <1>13
\* What LOGON and LOGOFF have in common: the part of the invariant that
\* clearing the previous logon has to keep.
LEMMA ClearStep ==
    ASSUME IInv, NEW c \in live, NEW from \in Idents, NEW q \in ConnRecord,
           conn' = [conn EXCEPT ![c] = q],
           q.from_list = ClearPrevious(conn[c], from).from_list,
           conns_by_from' = TableWithout(c, ClearedIdents(c, from)),
           live' = live,
           GrantsAfterClear(c, from) \subseteq authed'
    PROVE  /\ conn' \in [Conns -> ConnRecord]
           /\ conn'[c] = q
           /\ \A d \in Conns \ {c} : conn'[d] = conn[d] /\ GrantsOf(d)'
           /\ conns_by_from' \in [Idents -> Seq(Conns)]
           /\ TableMatchesFromLists'
           /\ ClosedIsFresh'
           /\ ~Has(q.from_list, from)
           /\ \A i \in DOMAIN q.from_list : \E to \in Targets :
                 <<c, q.from_list[i], to, TRUE>> \in authed'
<1> USE DEF IInv
<1>1. /\ c \in Conns
      /\ conn[c] \in ConnRecord
      /\ IsInjective(conn[c].from_list)
      /\ conn' \in [Conns -> ConnRecord]
      /\ conn'[c] = q
      /\ \A d \in Conns \ {c} : conn'[d] = conn[d]
  BY DEF TypeOK, TableMatchesFromLists
<1>2. /\ IsInjective(q.from_list)
      /\ \A x : Has(q.from_list, x) <=>
                   (conn[c].is_atc /\ x # from /\ Has(conn[c].from_list, x))
  BY Zenon, <1>1, ClearFacts
<1>3. /\ conns_by_from' \in [Idents -> Seq(Conns)]
      /\ TableMatchesFromLists'
  <2>1. ClearedIdents(c, from) \in SUBSET Idents
    BY DEF ClearedIdents, HeldIdents
  <2>2. \A id \in Idents : Has(conn'[c].from_list, id) <=>
                              (HoldsIdent(c, id) /\ id \notin ClearedIdents(c, from))
    BY <1>1, <1>2, ZenonT(30) DEF ClearedIdents, HeldIdents, HoldsIdent, Has
  <2> QED
    BY <1>1, <1>2, <2>1, <2>2, TableClear
<1>4. ClosedIsFresh'
  BY <1>1 DEF ClosedIsFresh
<1>5. /\ \A d \in Conns \ {c} : \A g \in authed : g[1] = d => g \in authed'
      /\ \A x : Has(q.from_list, x) =>
                   \E to \in Targets : <<c, x, to, TRUE>> \in authed'
  BY Zenon, <1>1, GrantsAfterClearing
<1>6. \A d \in Conns \ {c} : GrantsOf(d)'
  BY <1>1, <1>5, GrantsKept DEF GrantsStand
<1>7. \A i \in DOMAIN q.from_list : \E to \in Targets :
         <<c, q.from_list[i], to, TRUE>> \in authed'
  BY Zenon, <1>5 DEF Has
<1> QED
  BY Zenon, <1>1, <1>2, <1>3, <1>4, <1>6, <1>7

\* GrantsAfterClear only drops grants.
LEMMA GrantsTyped ==
    ASSUME TypeOK, NEW c \in Conns, NEW from \in Idents
    PROVE  GrantsAfterClear(c, from) \subseteq Conns \X Idents \X Targets \X BOOLEAN
  BY DEF TypeOK, GrantsAfterClear

\* A LOGOFF, which an aircraft and an ATC station may send only while the
\* connection is LOGON_COMPLETE.
LEMMA ProcessLogoffStep ==
    ASSUME IInv, NEW c \in Conns, NEW from \in Idents, ProcessLogoff(c, from)
    PROVE  IInv'
<1> USE DEF IInv
<1>1. /\ c \in live
      /\ conn[c].logon_status = "COMPLETE"
      /\ conn' = [conn EXCEPT ![c] = ClearPrevious(conn[c], from)]
      /\ conns_by_from' = TableWithout(c, ClearedIdents(c, from))
      /\ authed' = GrantsAfterClear(c, from)
      /\ UNCHANGED <<auth_mode, live, sessions, next_sess_key>>
  BY DEF ProcessLogoff, TypeOK
<1>2. PICK q : q = ClearPrevious(conn[c], from)
  OBVIOUS
<1>3. conn[c] \in ConnRecord /\ IsInjective(conn[c].from_list)
  BY DEF TypeOK, TableMatchesFromLists
<1>4. /\ q \in ConnRecord
      /\ q.from_list = <<>> => q.logon_status = "NONE" /\ ~q.is_atc
      /\ q.from_list # <<>> => q.is_atc /\ q.logon_status = "COMPLETE"
  BY <1>1, <1>2, <1>3, ClearFacts
<1>5. /\ conn' \in [Conns -> ConnRecord]
      /\ conn'[c] = q
      /\ \A d \in Conns \ {c} : conn'[d] = conn[d] /\ GrantsOf(d)'
      /\ conns_by_from' \in [Idents -> Seq(Conns)]
      /\ TableMatchesFromLists'
      /\ ClosedIsFresh'
      /\ \A i \in DOMAIN q.from_list : \E to \in Targets :
            <<c, q.from_list[i], to, TRUE>> \in authed'
  BY Zenon, <1>1, <1>2, <1>4, ClearStep
<1>6. q.logon_status \in {"NONE", "COMPLETE"}
  BY <1>4
<1>7. TypeOK'
  BY <1>1, <1>5, GrantsTyped, SMTT(30) DEF TypeOK
<1>8. CallbackFindsItsLogon'
  <2>1. \A k \in DOMAIN sessions : sessions[k].conn \in Conns
    BY DEF TypeOK, Session
  <2> QED
    BY <1>1, <1>5, <2>1 DEF CallbackFindsItsLogon
<1>9. StartedLogonHasSession'
  BY <1>1, <1>5, <1>6 DEF StartedLogonHasSession, TypeOK
<1>10. LoggedOnHasIdentity'
  BY <1>4, <1>5 DEF LoggedOnHasIdentity
<1>11. PendingIsNew'
  BY <1>5, <1>6 DEF PendingIsNew, InProgress, HoldsIdent
<1>12. GrantsOf(c)'
  BY Zenon, <1>4, <1>5, <1>6 DEF GrantsOf, InProgress
<1> QED
  BY <1>5, <1>7, <1>8, <1>9, <1>10, <1>11, <1>12 DEF GrantsStand
\* process_logon_msg up to auth_sess_open: the record of a logon begun.
LEMMA BeginFacts ==
    ASSUME IInv, NEW c \in live, NEW from \in Idents, NEW to \in LogonTargets
    PROVE  LET q == BeginLogon(c, from, to)
           IN  /\ q \in ConnRecord
               /\ q.from_list = ClearPrevious(conn[c], from).from_list
               /\ q.logon_status = "STARTED"
               /\ q.logon_from = from
               /\ q.logon_to = to
<1>1. conn[c] \in ConnRecord /\ IsInjective(conn[c].from_list)
  BY DEF IInv, TypeOK, TableMatchesFromLists
<1>2. PICK p : p = ClearPrevious(conn[c], from)
  OBVIOUS
<1>3. p \in ConnRecord
  BY <1>1, <1>2, ClearFacts
<1>4. BeginLogon(c, from, to) =
         [p EXCEPT !.logon_to = to, !.logon_from = from, !.logon_status = "STARTED"]
  BY <1>2 DEF BeginLogon
<1>5. to \in Targets /\ from \in Targets /\ "STARTED" \in Statuses
  BY IdentAssumption DEF Targets, Statuses
<1> QED
  BY Zenon, <1>2, <1>3, <1>4, <1>5 DEF ConnRecord

\* logon_done_cb changes the status and the two results, nothing else.
LEMMA DoneFacts ==
    ASSUME NEW r \in ConnRecord, NEW result \in BOOLEAN, NEW is_atc \in BOOLEAN
    PROVE  LET n == LogonDone(r, result, is_atc)
           IN  /\ n \in ConnRecord
               /\ n.from_list = r.from_list
               /\ n.logon_status = "COMPLETING"
               /\ n.logon_from = r.logon_from
               /\ n.logon_to = r.logon_to
               /\ n.logon_success = result
               /\ n.is_atc = is_atc
               /\ n.to = r.to
  BY Zenon DEF LogonDone, ConnRecord, Statuses

\* A LOGON handed to the remote authenticator.
LEMMA ProcessLogonRpcStep ==
    ASSUME IInv, NEW c \in Conns, NEW from \in Idents, NEW to \in LogonTargets,
           ProcessLogonRpc(c, from, to)
    PROVE  IInv'
<1> USE DEF IInv
<1>1. /\ c \in live
      /\ ~InProgress(c)
      /\ conn' = [conn EXCEPT ![c] = [BeginLogon(c, from, to) EXCEPT
                                         !.auth_key = next_sess_key]]
      /\ conns_by_from' = TableWithout(c, ClearedIdents(c, from))
      /\ sessions' = [k \in DOMAIN sessions \cup {next_sess_key} |->
                         IF k = next_sess_key
                         THEN [conn |-> c, from |-> from, to |-> to,
                               kill |-> FALSE]
                         ELSE sessions[k]]
      /\ next_sess_key' = next_sess_key + 1
      /\ authed' = GrantsAfterClear(c, from)
      /\ UNCHANGED <<auth_mode, live>>
  BY DEF ProcessLogonRpc
<1>2. PICK q : q = [BeginLogon(c, from, to) EXCEPT !.auth_key = next_sess_key]
  BY Zenon
<1>3. /\ q \in ConnRecord
      /\ q.from_list = ClearPrevious(conn[c], from).from_list
      /\ q.logon_status = "STARTED"
      /\ q.logon_from = from
      /\ q.logon_to = to
      /\ q.auth_key = next_sess_key
  <2>1. PICK p : p = BeginLogon(c, from, to)
    OBVIOUS
  <2>2. /\ p \in ConnRecord
        /\ p.from_list = ClearPrevious(conn[c], from).from_list
        /\ p.logon_status = "STARTED"
        /\ p.logon_from = from
        /\ p.logon_to = to
    BY <1>1, <2>1, BeginFacts
  <2>3. q = [p EXCEPT !.auth_key = next_sess_key]
    BY <1>2, <2>1
  <2>4. next_sess_key \in Nat
    BY DEF TypeOK
  <2> QED
    BY <2>2, <2>3, <2>4 DEF ConnRecord
<1>4. /\ conn' \in [Conns -> ConnRecord]
      /\ conn'[c] = q
      /\ \A d \in Conns \ {c} : conn'[d] = conn[d] /\ GrantsOf(d)'
      /\ conns_by_from' \in [Idents -> Seq(Conns)]
      /\ TableMatchesFromLists'
      /\ ClosedIsFresh'
      /\ ~Has(q.from_list, from)
      /\ \A i \in DOMAIN q.from_list : \E t \in Targets :
            <<c, q.from_list[i], t, TRUE>> \in authed'
  BY Zenon, <1>1, <1>2, <1>3, ClearStep
<1>5. /\ next_sess_key \in Nat
      /\ next_sess_key \notin DOMAIN sessions
      /\ DOMAIN sessions \subseteq 0 .. next_sess_key - 1
  BY DEF TypeOK
<1>6. /\ DOMAIN sessions' = DOMAIN sessions \cup {next_sess_key}
      /\ sessions'[next_sess_key] = [conn |-> c, from |-> from, to |-> to,
                                     kill |-> FALSE]
      /\ \A k \in DOMAIN sessions : sessions'[k] = sessions[k]
  BY <1>1, <1>5
<1>7. TypeOK'
  <2>1. sessions' \in [DOMAIN sessions' -> Session]
    <3>1. to \in Targets
      BY IdentAssumption DEF Targets
    <3>2. [conn |-> c, from |-> from, to |-> to, kill |-> FALSE] \in Session
      BY <3>1 DEF Session
    <3>3. \A k \in DOMAIN sessions : sessions[k] \in Session
      BY DEF TypeOK
    <3> QED
      BY <1>1, <1>5, <1>6, <3>2, <3>3
  <2>2. DOMAIN sessions' \subseteq 0 .. next_sess_key' - 1
    BY <1>1, <1>5, <1>6
  <2> QED
    <3>1. authed' \subseteq Conns \X Idents \X Targets \X BOOLEAN
      BY <1>1, GrantsTyped
    <3>2. /\ auth_mode' \in {"rpc", "file", "none"}
          /\ live' \subseteq Conns
          /\ next_sess_key' \in Nat
      BY <1>1, <1>5 DEF TypeOK
    <3> QED
      BY <1>4, <2>1, <2>2, <3>1, <3>2 DEF TypeOK
<1>8. CallbackFindsItsLogon'
  <2>1. ASSUME NEW k \in DOMAIN sessions, ~sessions[k].kill
        PROVE  sessions[k].conn \in Conns \ {c}
    BY <1>1, <2>1 DEF CallbackFindsItsLogon, InProgress, TypeOK, Session
  <2> SUFFICES ASSUME NEW k \in DOMAIN sessions', ~sessions'[k].kill
               PROVE  LET d == sessions'[k].conn
                      IN  /\ d \in live'
                          /\ conn'[d].logon_status = "STARTED"
                          /\ conn'[d].auth_key = k
                          /\ conn'[d].logon_from = sessions'[k].from
                          /\ conn'[d].logon_to = sessions'[k].to
    BY DEF CallbackFindsItsLogon
  <2>2. CASE k = next_sess_key
    <3>1. sessions'[k].conn = c /\ sessions'[k].from = from /\ sessions'[k].to = to
      BY <1>6, <2>2
    <3> QED
      BY Zenon, <1>1, <1>3, <1>4, <2>2, <3>1
  <2>3. CASE k # next_sess_key
    <3>1. k \in DOMAIN sessions /\ sessions'[k] = sessions[k]
      BY <1>6, <2>3
    <3>2. sessions[k].conn \in Conns \ {c}
      BY <2>1, <3>1, SMTT(30)
    <3> QED
      BY <1>1, <1>4, <3>1, <3>2, SMTT(30) DEF CallbackFindsItsLogon
  <2> QED
    BY <2>2, <2>3
<1>9. StartedLogonHasSession'
  <2>1. ASSUME NEW d \in live, d # c, conn'[d].logon_status = "STARTED"
        PROVE  /\ conn'[d].auth_key \in DOMAIN sessions'
               /\ sessions'[conn'[d].auth_key].conn = d
               /\ ~sessions'[conn'[d].auth_key].kill
    BY <1>4, <1>6, <2>1, SMTT(30) DEF StartedLogonHasSession, TypeOK
  <2> QED
    BY <1>1, <1>3, <1>4, <1>6, <2>1, SMTT(30) DEF StartedLogonHasSession
<1>10. LoggedOnHasIdentity'
  BY <1>3, <1>4 DEF LoggedOnHasIdentity
<1>11. PendingIsNew'
  BY <1>3, <1>4 DEF PendingIsNew, InProgress, HoldsIdent, Has
<1>12. GrantsOf(c)'
  <2>1. \A i \in DOMAIN q.from_list : \E t \in Targets, atc \in BOOLEAN :
           <<c, q.from_list[i], t, atc>> \in authed'
    BY Zenon, <1>4
  <2> QED
    BY Zenon, <1>3, <1>4, <2>1 DEF GrantsOf, InProgress
<1> QED
  BY <1>4, <1>7, <1>8, <1>9, <1>10, <1>11, <1>12 DEF GrantsStand

\* A LOGON answered by a local authenticator within auth_sess_open.
LEMMA ProcessLogonLocalStep ==
    ASSUME IInv, NEW c \in Conns, NEW from \in Idents, NEW to \in LogonTargets,
           NEW result \in BOOLEAN, NEW is_atc \in BOOLEAN,
           ProcessLogonLocal(c, from, to, result, is_atc)
    PROVE  IInv'
<1> USE DEF IInv
<1>1. /\ c \in live
      /\ ~InProgress(c)
      /\ conn' = [conn EXCEPT ![c] =
                     [LogonDone(BeginLogon(c, from, to), result, is_atc) EXCEPT
                         !.auth_key = 0]]
      /\ conns_by_from' = TableWithout(c, ClearedIdents(c, from))
      /\ authed' = GrantsAfterClear(c, from)
                     \cup Grant(c, from, to, result, is_atc)
      /\ UNCHANGED <<auth_mode, live, sessions, next_sess_key>>
  BY DEF ProcessLogonLocal
<1>2. PICK q : q = [LogonDone(BeginLogon(c, from, to), result, is_atc) EXCEPT
                       !.auth_key = 0]
  BY Zenon
<1>3. /\ q \in ConnRecord
      /\ q.from_list = ClearPrevious(conn[c], from).from_list
      /\ q.logon_status = "COMPLETING"
      /\ q.logon_from = from
      /\ q.logon_to = to
      /\ q.logon_success = result
      /\ q.is_atc = is_atc
  <2>1. PICK p : p = BeginLogon(c, from, to)
    OBVIOUS
  <2>2. /\ p \in ConnRecord
        /\ p.from_list = ClearPrevious(conn[c], from).from_list
        /\ p.logon_from = from
        /\ p.logon_to = to
    BY <1>1, <2>1, BeginFacts
  <2>3. PICK n : n = LogonDone(p, result, is_atc)
    OBVIOUS
  <2>4. /\ n \in ConnRecord
        /\ n.from_list = p.from_list
        /\ n.logon_status = "COMPLETING"
        /\ n.logon_from = p.logon_from
        /\ n.logon_to = p.logon_to
        /\ n.logon_success = result
        /\ n.is_atc = is_atc
    BY <2>2, <2>3, DoneFacts
  <2>5. q = [n EXCEPT !.auth_key = 0]
    BY <1>2, <2>1, <2>3
  <2>6. /\ q \in ConnRecord
        /\ q.from_list = n.from_list
        /\ q.logon_status = n.logon_status
        /\ q.logon_from = n.logon_from
        /\ q.logon_to = n.logon_to
        /\ q.logon_success = n.logon_success
        /\ q.is_atc = n.is_atc
    BY <2>4, <2>5 DEF ConnRecord
  <2> QED
    BY <2>2, <2>4, <2>6
<1>4. /\ conn' \in [Conns -> ConnRecord]
      /\ conn'[c] = q
      /\ \A d \in Conns \ {c} : conn'[d] = conn[d] /\ GrantsOf(d)'
      /\ conns_by_from' \in [Idents -> Seq(Conns)]
      /\ TableMatchesFromLists'
      /\ ClosedIsFresh'
      /\ ~Has(q.from_list, from)
      /\ \A i \in DOMAIN q.from_list : \E t \in Targets :
            <<c, q.from_list[i], t, TRUE>> \in authed'
  BY Zenon, <1>1, <1>2, <1>3, ClearStep
<1>5. TypeOK'
  <2>1. to \in Targets
    BY IdentAssumption DEF Targets
  <2>2. authed' \subseteq Conns \X Idents \X Targets \X BOOLEAN
    BY <1>1, <2>1, GrantsTyped DEF Grant
  <2> QED
    BY <1>1, <1>4, <2>2 DEF TypeOK
<1>6. CallbackFindsItsLogon'
  <2>1. ASSUME NEW k \in DOMAIN sessions, ~sessions[k].kill
        PROVE  sessions[k].conn \in Conns \ {c}
    BY <1>1, <2>1, ZenonT(30) DEF CallbackFindsItsLogon, InProgress, TypeOK, Session
  <2> QED
    BY <1>1, <1>4, <2>1 DEF CallbackFindsItsLogon
<1>7. StartedLogonHasSession'
  BY Zenon, <1>1, <1>3, <1>4 DEF StartedLogonHasSession, TypeOK
<1>8. LoggedOnHasIdentity'
  BY <1>3, <1>4 DEF LoggedOnHasIdentity
<1>9. PendingIsNew'
  BY <1>3, <1>4, SMTT(30) DEF PendingIsNew, InProgress, HoldsIdent, Has
<1>10. GrantsOf(c)'
  <2>1. result => <<c, from, to, is_atc>> \in authed'
    BY <1>1 DEF Grant
  <2> QED
    BY Zenon, <1>3, <1>4, <2>1 DEF GrantsOf, InProgress
<1> QED
  BY <1>4, <1>5, <1>6, <1>7, <1>8, <1>9, <1>10 DEF GrantsStand

\* The end of an auth_worker: its session leaves the tree, and unless it was
\* killed the connection it was opened for has its result.
LEMMA AuthWorkerStep ==
    ASSUME IInv, NEW k \in DOMAIN sessions, NEW result \in BOOLEAN,
           NEW is_atc \in BOOLEAN, AuthWorker(k, result, is_atc)
    PROVE  IInv'
<1> USE DEF IInv
<1>1. /\ DOMAIN sessions' = DOMAIN sessions \ {k}
      /\ \A j \in DOMAIN sessions \ {k} : sessions'[j] = sessions[j]
      /\ \A j \in DOMAIN sessions : sessions[j] \in Session
      /\ sessions' \in [DOMAIN sessions' -> Session]
      /\ DOMAIN sessions' \subseteq 0 .. next_sess_key - 1
  BY DEF AuthWorker, TypeOK
<1>2. UNCHANGED <<auth_mode, live, conns_by_from, next_sess_key>>
  BY DEF AuthWorker
<1>3. CASE sessions[k].kill
  <2>1. UNCHANGED <<conn, authed>>
    BY <1>3 DEF AuthWorker
  <2>2. TypeOK'
    BY <1>1, <1>2, <2>1 DEF TypeOK
  <2>3. CallbackFindsItsLogon'
    BY <1>1, <1>2, <2>1 DEF CallbackFindsItsLogon
  <2>4. StartedLogonHasSession'
    BY <1>1, <1>2, <1>3, <2>1, SMTT(30) DEF StartedLogonHasSession
  <2>5. TableMatchesFromLists' /\ LoggedOnHasIdentity' /\ ClosedIsFresh'
    BY <1>2, <2>1 DEF TableMatchesFromLists, Registered, HoldsIdent,
                      LoggedOnHasIdentity, ClosedIsFresh
  <2>6. PendingIsNew' /\ GrantsStand'
    BY Zenon, <1>2, <2>1 DEF PendingIsNew, InProgress, HoldsIdent, GrantsStand, GrantsOf
  <2> QED
    BY <2>2, <2>3, <2>4, <2>5, <2>6
<1>4. CASE ~sessions[k].kill
  <2>1. PICK c \in Conns : c = sessions[k].conn
    BY <1>1 DEF Session
  <2>2. /\ c \in live
        /\ conn[c] \in ConnRecord
        /\ conn[c].logon_status = "STARTED"
        /\ conn[c].auth_key = k
        /\ conn[c].logon_from = sessions[k].from
        /\ conn[c].logon_to = sessions[k].to
        /\ sessions[k].from \in Idents
        /\ sessions[k].to \in Targets
    BY <1>1, <1>4, <2>1 DEF CallbackFindsItsLogon, TypeOK, Session
  <2>3. PICK q : q = LogonDone(conn[c], result, is_atc)
    OBVIOUS
  <2>4. /\ q \in ConnRecord
        /\ q.from_list = conn[c].from_list
        /\ q.logon_status = "COMPLETING"
        /\ q.logon_from = sessions[k].from
        /\ q.logon_to = sessions[k].to
        /\ q.logon_success = result
        /\ q.is_atc = is_atc
    BY <2>2, <2>3, DoneFacts
  <2>5. /\ conn' = [conn EXCEPT ![c] = q]
        /\ authed' = authed \cup Grant(c, sessions[k].from, sessions[k].to,
                                      result, is_atc)
    BY <1>4, <2>1, <2>3 DEF AuthWorker, TypeOK
  <2>6. /\ conn' \in [Conns -> ConnRecord]
        /\ conn'[c] = q
        /\ \A d \in Conns \ {c} : conn'[d] = conn[d]
    BY <2>4, <2>5 DEF TypeOK
  <2>7. authed' \subseteq Conns \X Idents \X Targets \X BOOLEAN
    BY <2>2, <2>5 DEF Grant, TypeOK
  <2>8. TypeOK'
    BY <1>1, <1>2, <2>6, <2>7, SMTT(30) DEF TypeOK
  <2>9. TableMatchesFromLists'
    BY <1>2, <2>4, <2>6, SMTT(30) DEF TableMatchesFromLists, Registered, HoldsIdent
  <2>10. CallbackFindsItsLogon'
    <3>1. ASSUME NEW j \in DOMAIN sessions \ {k}, ~sessions[j].kill
          PROVE  sessions[j].conn \in Conns \ {c}
      BY <1>1, <2>2, <3>1 DEF CallbackFindsItsLogon, Session
    <3> QED
      BY <1>1, <1>2, <2>6, <3>1 DEF CallbackFindsItsLogon
  <2>11. StartedLogonHasSession'
    <3> SUFFICES ASSUME NEW d \in live, conn'[d].logon_status = "STARTED"
                 PROVE  /\ conn'[d].auth_key \in DOMAIN sessions'
                        /\ sessions'[conn'[d].auth_key].conn = d
                        /\ ~sessions'[conn'[d].auth_key].kill
      BY <1>2 DEF StartedLogonHasSession
    <3>1. d \in Conns \ {c}
      BY <2>4, <2>6 DEF TypeOK
    <3>2. /\ conn'[d].auth_key \in DOMAIN sessions
          /\ sessions[conn'[d].auth_key].conn = d
          /\ ~sessions[conn'[d].auth_key].kill
      BY <2>6, <3>1 DEF StartedLogonHasSession
    <3> QED
      BY <1>1, <2>1, <3>1, <3>2, SMTT(30)
  <2>12. LoggedOnHasIdentity' /\ ClosedIsFresh'
    BY <1>2, <2>2, <2>4, <2>6, SMTT(30) DEF LoggedOnHasIdentity, ClosedIsFresh
  <2>13. PendingIsNew'
    BY <2>2, <2>4, <2>6 DEF PendingIsNew, InProgress, HoldsIdent
  <2>14. \A d \in Conns \ {c} : GrantsOf(d)'
    BY <2>5, <2>6, GrantsKept DEF GrantsStand
  <2>15. GrantsOf(c)'
    <3>1. \A i \in DOMAIN q.from_list : \E t \in Targets :
             <<c, q.from_list[i], t, TRUE>> \in authed'
      BY Zenon, <2>2, <2>4, <2>5 DEF GrantsStand, GrantsOf, InProgress
    <3>2. result => <<c, sessions[k].from, sessions[k].to, is_atc>> \in authed'
      BY <2>5 DEF Grant
    <3> QED
      BY Zenon, <2>4, <2>6, <3>1, <3>2 DEF GrantsOf, InProgress
  <2> QED
    BY <2>8, <2>9, <2>10, <2>11, <2>12, <2>13, <2>14, <2>15, SMTT(30) DEF GrantsStand
<1> QED
  BY <1>3, <1>4

\* complete_logon without success, or without the station to log on to: the
\* connection keeps what it has, and has no logon under way.
LEMMA RefusedStep ==
    ASSUME IInv, NEW c \in live, NEW q \in ConnRecord,
           conn' = [conn EXCEPT ![c] = q],
           q.from_list = conn[c].from_list, q.logon_status = "NONE",
           q.is_atc = conn[c].is_atc,
           conn[c].logon_status = "COMPLETING",
           UNCHANGED <<auth_mode, live, conns_by_from, sessions, next_sess_key,
                       authed>>
    PROVE  IInv'
<1> USE DEF IInv
<1>1. /\ c \in Conns
      /\ conn' \in [Conns -> ConnRecord]
      /\ conn'[c] = q
      /\ \A d \in Conns \ {c} : conn'[d] = conn[d]
  BY DEF TypeOK
<1>2. TypeOK'
  BY <1>1 DEF TypeOK
<1>3. TableMatchesFromLists'
  BY <1>1 DEF TableMatchesFromLists, Registered, HoldsIdent
<1>4. CallbackFindsItsLogon'
  <2>1. \A k \in DOMAIN sessions : ~sessions[k].kill =>
                                      sessions[k].conn \in Conns \ {c}
    BY DEF CallbackFindsItsLogon, TypeOK, Session
  <2> QED
    BY <1>1, <2>1 DEF CallbackFindsItsLogon
<1>5. StartedLogonHasSession'
  BY <1>1 DEF StartedLogonHasSession, TypeOK
<1>6. LoggedOnHasIdentity' /\ ClosedIsFresh'
  BY <1>1 DEF LoggedOnHasIdentity, ClosedIsFresh
<1>7. PendingIsNew'
  BY <1>1 DEF PendingIsNew, InProgress, HoldsIdent
<1>8. \A d \in Conns \ {c} : GrantsOf(d)'
  BY <1>1, GrantsKept DEF GrantsStand
<1>9. GrantsOf(c)'
  BY Zenon, <1>1 DEF GrantsStand, GrantsOf, InProgress
<1> QED
  BY <1>1, <1>2, <1>3, <1>4, <1>5, <1>6, <1>7, <1>8, <1>9 DEF GrantsStand

\* complete_logon with success: the identity goes on the connection's list
\* and the connection under it into the table.
LEMMA RegisteredStep ==
    ASSUME IInv, NEW c \in live, NEW q \in ConnRecord,
           conn[c].logon_status = "COMPLETING",
           conn[c].logon_success,
           conn[c].is_atc \/ conn[c].logon_to # NoIdent,
           conn' = [conn EXCEPT ![c] = q],
           q.from_list = Append(conn[c].from_list, conn[c].logon_from),
           q.logon_status = "COMPLETE",
           q.is_atc = conn[c].is_atc,
           q.to = conn[c].logon_to,
           conns_by_from' = [conns_by_from EXCEPT
                                ![conn[c].logon_from] = Append(@, c)],
           UNCHANGED <<auth_mode, live, sessions, next_sess_key, authed>>
    PROVE  IInv'
<1> USE DEF IInv
<1>1. /\ c \in Conns
      /\ conn[c] \in ConnRecord
      /\ conn' \in [Conns -> ConnRecord]
      /\ conn'[c] = q
      /\ \A d \in Conns \ {c} : conn'[d] = conn[d]
  BY DEF TypeOK
<1>2. PICK from : from = conn[c].logon_from
  OBVIOUS
<1>3. from \in Idents /\ ~Has(conn[c].from_list, from)
  BY <1>1, <1>2, SMTT(30) DEF PendingIsNew, InProgress, HoldsIdent, Has
<1>4. ~Has(conns_by_from[from], c)
  BY <1>1, <1>3, SMTT(30) DEF TableMatchesFromLists, Registered, HoldsIdent, Has
<1>5. /\ q.from_list \in Seq(Idents)
      /\ IsInjective(q.from_list)
      /\ \A x : Has(q.from_list, x) <=> (x = from \/ Has(conn[c].from_list, x))
      /\ Last(q.from_list) = from
      /\ q.from_list # <<>>
  <2>1. conn[c].from_list \in Seq(Idents) /\ IsInjective(conn[c].from_list)
    BY <1>1 DEF ConnRecord, TableMatchesFromLists
  <2>2. q.from_list = Append(conn[c].from_list, from)
    BY <1>2
  <2>3. Last(q.from_list) = from /\ q.from_list # <<>>
    BY <1>3, <2>1, <2>2 DEF Last
  <2> QED
    BY <1>3, <2>1, <2>2, <2>3, AppendFacts, SMTT(30)
<1>6. PICK w : w = Append(conns_by_from[from], c)
  BY Zenon
<1>7. /\ w \in Seq(Conns)
      /\ IsInjective(w)
      /\ \A d : Has(w, d) <=> (d = c \/ Has(conns_by_from[from], d))
  BY <1>1, <1>3, <1>4, <1>6, AppendFacts, SMTT(30) DEF TypeOK, TableMatchesFromLists
<1>8. /\ conns_by_from' \in [Idents -> Seq(Conns)]
      /\ conns_by_from'[from] = w
      /\ \A id \in Idents \ {from} : conns_by_from'[id] = conns_by_from[id]
  BY <1>2, <1>3, <1>6, <1>7, SMTT(30) DEF TypeOK
<1>9. TableMatchesFromLists'
  <2>1. ASSUME NEW d \in Conns, NEW id \in Idents
        PROVE  Registered(d, id)' <=> HoldsIdent(d, id)'
    <3>1. Has(conns_by_from[id], d) <=> Has(conn[d].from_list, id)
      BY DEF TableMatchesFromLists, Registered, HoldsIdent, Has
    <3>2. Has(conns_by_from'[id], d) <=>
             (Has(conns_by_from[id], d) \/ (id = from /\ d = c))
      BY Zenon, <1>7, <1>8
    <3>3. Has(conn'[d].from_list, id) <=>
             (Has(conn[d].from_list, id) \/ (id = from /\ d = c))
      BY Zenon, <1>1, <1>5
    <3> QED
      BY <3>1, <3>2, <3>3, SMTT(30) DEF Registered, HoldsIdent, Has
  <2>2. \A id \in Idents : IsInjective(conns_by_from'[id])
    BY Zenon, <1>7, <1>8 DEF TableMatchesFromLists
  <2>3. \A d \in Conns : IsInjective(conn'[d].from_list)
    BY Zenon, <1>1, <1>5 DEF TableMatchesFromLists
  <2>4. \A d \in Conns \ live' : conn'[d].from_list = <<>>
    BY <1>1 DEF TableMatchesFromLists
  <2> QED
    BY <2>1, <2>2, <2>3, <2>4, SMTT(30) DEF TableMatchesFromLists
<1>10. TypeOK'
  BY <1>1, <1>8, SMTT(30) DEF TypeOK
<1>11. CallbackFindsItsLogon'
  <2>1. \A k \in DOMAIN sessions : ~sessions[k].kill =>
                                      sessions[k].conn \in Conns \ {c}
    BY Zenon DEF CallbackFindsItsLogon, TypeOK, Session
  <2> QED
    BY <1>1, <2>1, SMTT(30) DEF CallbackFindsItsLogon
<1>12. StartedLogonHasSession'
  BY <1>1, SMTT(30) DEF StartedLogonHasSession, TypeOK
<1>13. LoggedOnHasIdentity' /\ ClosedIsFresh'
  BY <1>1, <1>5 DEF LoggedOnHasIdentity, ClosedIsFresh
<1>14. PendingIsNew'
  BY <1>1 DEF PendingIsNew, InProgress, HoldsIdent
<1>15. \A d \in Conns \ {c} : GrantsOf(d)'
  BY <1>1, GrantsKept DEF GrantsStand
<1>16. GrantsOf(c)'
  <2>1. /\ <<c, from, q.to, q.is_atc>> \in authed
        /\ q.to \in Targets
        /\ q.is_atc \in BOOLEAN
        /\ ~q.is_atc => q.to # NoIdent
    BY Zenon, <1>1, <1>2 DEF GrantsStand, GrantsOf, ConnRecord
  <2>2. \A x : Has(conn[c].from_list, x) =>
                  \E t \in Targets : <<c, x, t, TRUE>> \in authed
    BY Zenon, <1>1 DEF GrantsStand, GrantsOf, InProgress, Has
  <2>3. ASSUME NEW i \in DOMAIN q.from_list
        PROVE  /\ \E t \in Targets, atc \in BOOLEAN :
                      <<c, q.from_list[i], t, atc>> \in authed
               /\ q.is_atc => \E t \in Targets :
                                 <<c, q.from_list[i], t, TRUE>> \in authed
    <3>1. q.from_list[i] = from \/ Has(conn[c].from_list, q.from_list[i])
      BY Zenon, <1>5, <2>3 DEF Has
    <3> QED
      BY Zenon, <2>1, <2>2, <3>1
  <2> QED
    BY Zenon, <1>1, <1>5, <2>1, <2>3 DEF GrantsOf, InProgress
<1> QED
  BY <1>1, <1>9, <1>10, <1>11, <1>12, <1>13, <1>14, <1>15, <1>16, SMTT(30) DEF GrantsStand

\* complete_logon, in its three outcomes.
LEMMA CompleteLogonStep ==
    ASSUME IInv, NEW c \in Conns, CompleteLogon(c)
    PROVE  /\ IInv'
           /\ conn'[c].outbuf = "answer"
<1> DEFINE done(s) == [s EXCEPT !.logon_to = NoIdent, !.logon_from = NoIdent]
<1>1. PICK r : r = conn[c]
  OBVIOUS
<1>2. /\ r \in ConnRecord
      /\ c \in live
      /\ r.logon_status = "COMPLETING"
      /\ UNCHANGED <<auth_mode, live, sessions, next_sess_key, authed>>
      /\ conn \in [Conns -> ConnRecord]
  BY <1>1 DEF IInv, TypeOK, CompleteLogon
<1>3. CASE /\ conn' = [conn EXCEPT ![c] =
                  Send(done([r EXCEPT !.logon_status = "NONE"]), "answer")]
           /\ UNCHANGED conns_by_from
  <2>1. PICK q : q = Send(done([r EXCEPT !.logon_status = "NONE"]), "answer")
    OBVIOUS
  <2>2. /\ q \in ConnRecord
        /\ q.from_list = r.from_list
        /\ q.logon_status = "NONE"
        /\ q.is_atc = r.is_atc
        /\ q.outbuf = "answer"
    BY Zenon, <1>2, <2>1 DEF Send, ConnRecord, Statuses, Outputs, Targets
  <2>3. conn' = [conn EXCEPT ![c] = q]
    BY <1>3, <2>1
  <2>4. IInv'
    BY Zenon, <1>1, <1>2, <1>3, <2>2, <2>3, RefusedStep
  <2> QED
    BY <1>2, <2>2, <2>3, <2>4
<1>4. CASE /\ r.logon_success
           /\ ~LacksTarget(r)
           /\ conn' = [conn EXCEPT ![c] =
                 Send(done([r EXCEPT
                             !.logon_status = "COMPLETE",
                             !.to = r.logon_to,
                             !.from_list = Append(@, r.logon_from)]),
                      "answer")]
           /\ conns_by_from' =
                 [conns_by_from EXCEPT ![r.logon_from] = Append(@, c)]
  <2>1. PICK p : p = [r EXCEPT !.logon_status = "COMPLETE",
                               !.to = r.logon_to,
                               !.from_list = Append(r.from_list, r.logon_from)]
    OBVIOUS
  <2>2. /\ p \in ConnRecord
        /\ p.from_list = Append(r.from_list, r.logon_from)
        /\ p.logon_status = "COMPLETE"
        /\ p.is_atc = r.is_atc
        /\ p.to = r.logon_to
    <3>1. Append(r.from_list, r.logon_from) \in Seq(Idents)
      BY <1>1, <1>2 DEF IInv, PendingIsNew, InProgress, ConnRecord
    <3> QED
      BY Zenon, <1>2, <2>1, <3>1 DEF ConnRecord, Statuses
  <2>3. PICK q : q = Send(done(p), "answer")
    OBVIOUS
  <2>4. /\ q \in ConnRecord
        /\ q.from_list = p.from_list
        /\ q.logon_status = p.logon_status
        /\ q.is_atc = p.is_atc
        /\ q.to = p.to
        /\ q.outbuf = "answer"
    BY Zenon, <2>2, <2>3 DEF Send, ConnRecord, Outputs, Targets
  <2>5. conn' = [conn EXCEPT ![c] = q]
    <3>1. [r EXCEPT !.logon_status = "COMPLETE", !.to = r.logon_to,
                    !.from_list = Append(@, r.logon_from)] = p
      BY <1>2, <2>1 DEF ConnRecord
    <3> QED
      BY Zenon, <1>4, <2>3, <3>1
  <2>6. r.is_atc \/ r.logon_to # NoIdent
    BY <1>4 DEF LacksTarget
  <2>7. IInv'
    <3>1. /\ conn[c].logon_status = "COMPLETING"
          /\ conn[c].logon_success
          /\ conn[c].is_atc \/ conn[c].logon_to # NoIdent
          /\ q.from_list = Append(conn[c].from_list, conn[c].logon_from)
          /\ q.logon_status = "COMPLETE"
          /\ q.is_atc = conn[c].is_atc
          /\ q.to = conn[c].logon_to
      BY <1>1, <1>2, <1>4, <2>2, <2>4, <2>6
    <3>2. conns_by_from' = [conns_by_from EXCEPT
                               ![conn[c].logon_from] = Append(@, c)]
      BY <1>1, <1>4
    <3> QED
      BY Zenon, <1>2, <2>4, <2>5, <3>1, <3>2, RegisteredStep
  <2> QED
    BY <1>2, <2>4, <2>5, <2>7
<1> QED
  BY <1>1, <1>3, <1>4 DEF CompleteLogon

\* close_conn, on whichever thread.
LEMMA CloseStep ==
    ASSUME IInv, NEW c \in live, Close(c)
    PROVE  IInv'
<1>1. FreshConn \in ConnRecord /\ FreshConn.from_list = <<>>
      /\ FreshConn.logon_status = "NONE"
  <2>1. 0 \in 0 .. GraceTime + 1 /\ <<>> \in Seq(Idents)
    BY BoundsAssumption
  <2> QED
    BY <2>1 DEF FreshConn, ConnRecord, Statuses, Targets, Outputs
<1> QED
  BY Zenon, <1>1, ResetStep DEF Close

\* An END SERVICE sent to a connection found in the table.
LEMMA SendEndSvcStep ==
    ASSUME IInv, NEW c \in Conns, SendEndSvc(c)
    PROVE  IInv' /\ conn[c].from_list # <<>>
<1>1. PICK id \in Idents : Registered(c, id)
  BY DEF SendEndSvc
<1>2. HoldsIdent(c, id) /\ conn[c] \in ConnRecord
  BY <1>1 DEF IInv, TableMatchesFromLists, TypeOK
<1>3. conn[c].from_list # <<>>
  BY <1>2 DEF HoldsIdent
<1>4. c \in live
  BY <1>3 DEF IInv, TableMatchesFromLists
<1>5. PICK p : p = Send(conn[c], "notice")
  OBVIOUS
<1>6. p \in ConnRecord
  BY <1>2, <1>5 DEF Send, ConnRecord, Outputs
<1>7. PICK n : n = ResetLogon(p)
  OBVIOUS
<1>8. n \in ConnRecord /\ n.from_list = <<>> /\ n.logon_status = "NONE"
  BY Zenon, <1>6, <1>7, ResetFacts
<1>9. PICK q : q = [n EXCEPT !.idle = 0]
  BY Zenon
<1>10. q \in ConnRecord /\ q.from_list = <<>> /\ q.logon_status = "NONE"
  <2>1. 0 \in 0 .. GraceTime + 1
    BY BoundsAssumption
  <2> QED
    BY <1>8, <1>9, <2>1 DEF ConnRecord
<1>11. conn' = [conn EXCEPT ![c] = q]
  BY <1>5, <1>7, <1>9 DEF SendEndSvc, IInv, TypeOK
<1>12. IInv'
  BY Zenon, <1>4, <1>10, <1>11, ResetStep DEF SendEndSvc
<1> QED
  BY <1>3, <1>12

\* The clock, the output buffers, the mark for libwebsockets and the refusal
\* of a second logon leave the logons alone.
LEMMA QuietStep ==
    ASSUME IInv,
           \/ \E c \in Conns : KillWsi(c) \/ RefuseLogon(c) \/ WriteOutput(c)
           \/ Tick
           \/ UNCHANGED vars
    PROVE  /\ IInv'
           /\ \A c \in Conns : conn'[c].logon_status = conn[c].logon_status
<1>1. conn \in [Conns -> ConnRecord] /\ live \subseteq Conns
  BY DEF IInv, TypeOK
<1>2. ASSUME NEW c \in live, NEW q \in ConnRecord,
             conn' = [conn EXCEPT ![c] = q],
             UNCHANGED <<auth_mode, live, conns_by_from, sessions,
                         next_sess_key, authed>>,
             \E v \in BOOLEAN, o \in Outputs :
                q = [conn[c] EXCEPT !.kill_wsi = v]
                \/ q = [conn[c] EXCEPT !.outbuf = o]
      PROVE  /\ IInv'
             /\ \A d \in Conns : conn'[d].logon_status = conn[d].logon_status
  <2>1. /\ q.logon_status = conn[c].logon_status
        /\ q.logon_success = conn[c].logon_success
        /\ q.is_atc = conn[c].is_atc
        /\ q.from_list = conn[c].from_list
        /\ q.to = conn[c].to
        /\ q.logon_from = conn[c].logon_from
        /\ q.logon_to = conn[c].logon_to
        /\ q.auth_key = conn[c].auth_key
    BY Zenon, <1>1, <1>2 DEF ConnRecord
  <2>2. /\ conn' \in [Conns -> ConnRecord]
        /\ conn'[c] = q
        /\ \A d \in Conns \ {c} : conn'[d] = conn[d]
    BY <1>1, <1>2
  <2> QED
    BY <1>1, <1>2, <2>1, <2>2, FrameStep
<1>3. ASSUME NEW c \in Conns, KillWsi(c)
      PROVE  /\ IInv'
             /\ \A d \in Conns : conn'[d].logon_status = conn[d].logon_status
  <2>1. PICK q : q = [conn[c] EXCEPT !.kill_wsi = TRUE]
    BY Zenon
  <2>2. q \in ConnRecord
    BY Zenon, <1>1, <2>1 DEF ConnRecord
  <2> QED
    BY Zenon, <1>1, <1>2, <1>3, <2>1, <2>2 DEF KillWsi, Outputs
<1>4. ASSUME NEW c \in Conns, NEW o \in Outputs, c \in live,
             conn' = [conn EXCEPT ![c].outbuf = o],
             UNCHANGED <<auth_mode, live, conns_by_from, sessions,
                         next_sess_key, authed>>
      PROVE  /\ IInv'
             /\ \A d \in Conns : conn'[d].logon_status = conn[d].logon_status
  <2>1. PICK q : q = [conn[c] EXCEPT !.outbuf = o]
    BY Zenon
  <2>2. q \in ConnRecord
    BY Zenon, <1>1, <2>1 DEF ConnRecord
  <2> QED
    BY Zenon, <1>1, <1>2, <1>4, <2>1, <2>2
<1>5. ASSUME NEW c \in Conns, RefuseLogon(c) \/ WriteOutput(c)
      PROVE  /\ IInv'
             /\ \A d \in Conns : conn'[d].logon_status = conn[d].logon_status
  BY <1>1, <1>4, <1>5 DEF RefuseLogon, WriteOutput, Send, Outputs
<1>6. CASE Tick
  <2>1. /\ conn' = [c \in Conns |->
                      IF c \in live /\ conn[c].idle <= GraceTime
                      THEN [conn[c] EXCEPT !.idle = conn[c].idle + 1]
                      ELSE conn[c]]
        /\ UNCHANGED <<auth_mode, live, conns_by_from, sessions,
                       next_sess_key, authed>>
    BY <1>1, <1>6, SMTT(30) DEF Tick, ConnRecord
  <2>2. ASSUME NEW c \in Conns
        PROVE  /\ conn'[c] \in ConnRecord
               /\ c \notin live => conn'[c] = conn[c]
               /\ conn'[c].logon_status = conn[c].logon_status
               /\ conn'[c].logon_success = conn[c].logon_success
               /\ conn'[c].is_atc = conn[c].is_atc
               /\ conn'[c].from_list = conn[c].from_list
               /\ conn'[c].to = conn[c].to
               /\ conn'[c].logon_from = conn[c].logon_from
               /\ conn'[c].logon_to = conn[c].logon_to
               /\ conn'[c].auth_key = conn[c].auth_key
    <3>1. CASE c \in live /\ conn[c].idle <= GraceTime
      <4>1. PICK n : n = conn[c].idle + 1
        OBVIOUS
      <4>2. n \in 0 .. GraceTime + 1
        BY <1>1, <3>1, <4>1, BoundsAssumption DEF ConnRecord
      <4>3. conn'[c] = [conn[c] EXCEPT !.idle = n]
        BY <2>1, <3>1, <4>1
      <4> QED
        BY Zenon, <1>1, <3>1, <4>2, <4>3 DEF ConnRecord
    <3>2. CASE ~(c \in live /\ conn[c].idle <= GraceTime)
      <4>1. conn'[c] = conn[c]
        BY <2>1, <3>2
      <4> QED
        BY <1>1, <4>1
    <3> QED
      BY <3>1, <3>2
  <2>3. conn' \in [Conns -> ConnRecord]
    BY <2>1, <2>2
  <2> QED
    BY <2>1, <2>2, <2>3, FrameStep
<1>7. CASE UNCHANGED vars
  BY <1>1, <1>7, FrameStep DEF vars
<1> QED
  BY <1>3, <1>5, <1>6, <1>7
-----------------------------------------------------------------------------
(* The theorems. *)

\* The initial state, with no connections and no sessions, is consistent.
LEMMA InitIInv == Init => IInv
<1> SUFFICES ASSUME Init PROVE IInv
  OBVIOUS
<1>1. /\ live = {}
      /\ conn = [c \in Conns |-> FreshConn]
      /\ conns_by_from = [id \in Idents |-> <<>>]
      /\ DOMAIN sessions = {}
      /\ sessions \in [DOMAIN sessions -> Session]
      /\ next_sess_key = 0
      /\ authed = {}
      /\ auth_mode \in {"rpc", "file", "none"}
  BY ModesAssumption DEF Init
<1>2. /\ FreshConn \in ConnRecord
      /\ FreshConn.from_list = <<>>
      /\ FreshConn.logon_status = "NONE"
  <2>1. 0 \in 0 .. GraceTime + 1 /\ <<>> \in Seq(Idents)
    BY BoundsAssumption
  <2> QED
    BY <2>1 DEF FreshConn, ConnRecord, Statuses, Targets, Outputs
<1>3. \A c \in Conns : conn[c] = FreshConn
  BY <1>1
<1>4. TypeOK
  BY <1>1, <1>2 DEF TypeOK
<1>5. TableMatchesFromLists
  <2>1. IsInjective(<<>>) /\ DOMAIN <<>> = {}
    BY DEF IsInjective
  <2> QED
    BY <1>1, <1>2, <1>3, <2>1 DEF TableMatchesFromLists, Registered, HoldsIdent
<1>6. CallbackFindsItsLogon /\ StartedLogonHasSession
  BY <1>1 DEF CallbackFindsItsLogon, StartedLogonHasSession
<1>7. LoggedOnHasIdentity /\ ClosedIsFresh /\ PendingIsNew
  BY <1>2, <1>3 DEF LoggedOnHasIdentity, ClosedIsFresh, PendingIsNew, InProgress
<1>8. GrantsStand
  <2>1. \A c \in Conns : /\ DOMAIN conn[c].from_list = {}
                         /\ conn[c].logon_status = "NONE"
    BY <1>2, <1>3
  <2> QED
    BY Zenon, <2>1 DEF GrantsStand, GrantsOf, InProgress
<1> QED
  BY <1>4, <1>5, <1>6, <1>7, <1>8 DEF IInv

\* Every handler keeps the invariant.
LEMMA NextIInv == IInv /\ [Next]_vars => IInv'
<1> SUFFICES ASSUME IInv, [Next]_vars PROVE IInv'
  OBVIOUS
<1>1. ASSUME NEW c \in Conns, Accept(c) PROVE IInv'
  BY <1>1, AcceptStep
<1>2. ASSUME NEW c \in Conns,
             CloseConn(c) \/ (c \in live /\ Close(c)) \/ LwsWriteableKilled(c)
      PROVE  IInv'
  BY <1>2, CloseStep DEF CloseConn, LwsWriteableKilled
<1>3. ASSUME NEW c \in Conns, KillWsi(c) \/ RefuseLogon(c) \/ WriteOutput(c)
      PROVE  IInv'
  BY <1>3, QuietStep
<1>4. ASSUME NEW c \in Conns, CloseTimedout(c) PROVE IInv'
  BY <1>2, <1>3, <1>4 DEF CloseTimedout
<1>5. ASSUME NEW c \in Conns, CompleteLogon(c) PROVE IInv'
  BY <1>5, CompleteLogonStep
<1>6. ASSUME NEW c \in Conns, SendEndSvc(c) PROVE IInv'
  BY <1>6, SendEndSvcStep
<1>7. ASSUME NEW c \in Conns, NEW from \in Idents, NEW to \in LogonTargets,
             ProcessLogonRpc(c, from, to)
      PROVE  IInv'
  BY <1>7, ProcessLogonRpcStep
<1>8. ASSUME NEW c \in Conns, NEW from \in Idents, NEW to \in LogonTargets,
             NEW result \in BOOLEAN, NEW is_atc \in BOOLEAN,
             ProcessLogonLocal(c, from, to, result, is_atc)
      PROVE  IInv'
  BY <1>8, ProcessLogonLocalStep
<1>9. ASSUME NEW c \in Conns, NEW from \in Idents, ProcessLogoff(c, from)
      PROVE  IInv'
  BY <1>9, ProcessLogoffStep
<1>10. ASSUME NEW k \in DOMAIN sessions, NEW result \in BOOLEAN,
              NEW is_atc \in BOOLEAN, AuthWorker(k, result, is_atc)
       PROVE  IInv'
  BY <1>10, AuthWorkerStep
<1>11. CASE Tick \/ UNCHANGED vars
  BY <1>11, QuietStep
<1> QED
  BY <1>1, <1>2, <1>3, <1>4, <1>5, <1>6, <1>7, <1>8, <1>9, <1>10, <1>11, SMTT(30) DEF Next

\* IInv is an invariant of the server.
THEOREM Invariance == Spec => []IInv
  BY InitIInv, NextIInv, PTL DEF Spec

\* Type correctness.
THEOREM TypeCorrect == Spec => []TypeOK
<1>1. IInv => TypeOK
  BY DEF IInv
<1> QED
  BY <1>1, Invariance, PTL

\* For any number of connections and callsigns: the table conns_by_from and
\* the connections' lists of identities agree, so conns_by_from_remove finds
\* the entry it asserts and no entry outlives its connection.
THEOREM TableIsConsistent == Spec => []TableMatchesFromLists
<1>1. IInv => TableMatchesFromLists
  BY DEF IInv
<1> QED
  BY <1>1, Invariance, PTL

\* However many authentication sessions are open or killed, a callback finds
\* its connection open and waiting for it: the assertion of logon_done_cb.
THEOREM CallbacksAreSafe == Spec => []CallbackFindsItsLogon
<1>1. IInv => CallbackFindsItsLogon
  BY DEF IInv
<1> QED
  BY <1>1, Invariance, PTL

\* No logon is left STARTED without a session that works on it.
THEOREM LogonsAreWorkedOn == Spec => []StartedLogonHasSession
<1>1. IInv => StartedLogonHasSession
  BY DEF IInv
<1> QED
  BY <1>1, Invariance, PTL

\* A connection that is LOGON_COMPLETE has an identity, as forward_msg asserts.
THEOREM LoggedOnIsSomebody == Spec => []LoggedOnHasIdentity
<1>1. IInv => LoggedOnHasIdentity
  BY DEF IInv
<1> QED
  BY <1>1, Invariance, PTL

\* Identities, roles and data authorities all come from the authenticator.
THEOREM IdentitiesGranted == Spec => []IdentitiesWereGranted
<1>1. IInv => IdentitiesWereGranted
  BY Zenon DEF IInv, GrantsStand, GrantsOf, IdentitiesWereGranted
<1> QED
  BY <1>1, Invariance, PTL

\* A step that changes one connection answers the logons of all if it does
\* not end that one's logon in silence.
LEMMA OneConnStep ==
    ASSUME IInv, NEW c \in Conns, NEW q, conn' = [conn EXCEPT ![c] = q],
           c \in live => EndsAnswered(c)
    PROVE  \A d \in live : EndsAnswered(d)
<1>1. ASSUME NEW d \in live, d # c PROVE EndsAnswered(d)
  <2>1. conn'[d] = conn[d]
    BY <1>1 DEF IInv, TypeOK
  <2> QED
    BY <2>1 DEF EndsAnswered, InProgress
<1> QED
  BY <1>1

\* No handler ends the logon of a connection without identities in silence.
LEMMA NextAnswers ==
    IInv /\ [Next]_vars => [\A c \in live : EndsAnswered(c)]_vars
<1> SUFFICES ASSUME IInv, Next PROVE \A d \in live : EndsAnswered(d)
  OBVIOUS
<1>1. conn \in [Conns -> ConnRecord] /\ live \subseteq Conns
  BY DEF IInv, TypeOK
<1>2. ASSUME NEW c \in Conns, Accept(c)
      PROVE  \A d \in live : EndsAnswered(d)
  BY Zenon, <1>2, OneConnStep DEF Accept
<1>3. ASSUME NEW c \in live, Close(c)
      PROVE  \A d \in live : EndsAnswered(d)
  BY Zenon, <1>1, <1>3, OneConnStep DEF Close, EndsAnswered
<1>4. ASSUME NEW c \in Conns, CloseConn(c) \/ LwsWriteableKilled(c)
      PROVE  \A d \in live : EndsAnswered(d)
  BY <1>3, <1>4 DEF CloseConn, LwsWriteableKilled
<1>5. ASSUME \/ \E c \in Conns : KillWsi(c) \/ RefuseLogon(c) \/ WriteOutput(c)
             \/ Tick
      PROVE  \A d \in live : EndsAnswered(d)
  BY <1>1, <1>5, QuietStep DEF EndsAnswered, InProgress
<1>6. ASSUME NEW c \in Conns, CloseTimedout(c)
      PROVE  \A d \in live : EndsAnswered(d)
  BY <1>3, <1>5, <1>6 DEF CloseTimedout
<1>7. ASSUME NEW c \in Conns, CompleteLogon(c)
      PROVE  \A d \in live : EndsAnswered(d)
  <2>1. EndsAnswered(c)
    BY <1>7, CompleteLogonStep DEF EndsAnswered
  <2>2. PICK q : conn' = [conn EXCEPT ![c] = q]
    BY <1>7 DEF CompleteLogon
  <2> QED
    BY Zenon, <2>1, <2>2, OneConnStep
<1>8. ASSUME NEW c \in Conns, SendEndSvc(c)
      PROVE  \A d \in live : EndsAnswered(d)
  <2>1. EndsAnswered(c)
    BY <1>8, SendEndSvcStep DEF EndsAnswered
  <2>2. PICK q : conn' = [conn EXCEPT ![c] = q]
    BY Zenon, <1>1, <1>8 DEF SendEndSvc
  <2> QED
    BY Zenon, <2>1, <2>2, OneConnStep
<1>9. ASSUME NEW c \in Conns, NEW from \in Idents, NEW to \in LogonTargets,
             ProcessLogonRpc(c, from, to)
      PROVE  \A d \in live : EndsAnswered(d)
  BY Zenon, <1>9, OneConnStep DEF ProcessLogonRpc, EndsAnswered
<1>10. ASSUME NEW c \in Conns, NEW from \in Idents, NEW to \in LogonTargets,
              NEW result \in BOOLEAN, NEW is_atc \in BOOLEAN,
              ProcessLogonLocal(c, from, to, result, is_atc)
       PROVE  \A d \in live : EndsAnswered(d)
  BY Zenon, <1>10, OneConnStep DEF ProcessLogonLocal, EndsAnswered
<1>11. ASSUME NEW c \in Conns, NEW from \in Idents, ProcessLogoff(c, from)
       PROVE  \A d \in live : EndsAnswered(d)
  <2>1. EndsAnswered(c)
    BY <1>11 DEF ProcessLogoff, EndsAnswered, InProgress
  <2>2. PICK q : conn' = [conn EXCEPT ![c] = q]
    BY Zenon, <1>1, <1>11 DEF ProcessLogoff
  <2> QED
    BY Zenon, <2>1, <2>2, OneConnStep
<1>12. ASSUME NEW k \in DOMAIN sessions, NEW result \in BOOLEAN,
              NEW is_atc \in BOOLEAN, AuthWorker(k, result, is_atc)
       PROVE  \A d \in live : EndsAnswered(d)
  <2>1. CASE sessions[k].kill
    BY <1>12, <2>1 DEF AuthWorker, EndsAnswered, InProgress
  <2>2. CASE ~sessions[k].kill
    <3>1. PICK c \in Conns : c = sessions[k].conn
      BY DEF IInv, TypeOK, Session
    <3>2. PICK q : q = LogonDone(conn[c], result, is_atc)
      OBVIOUS
    <3>3. conn' = [conn EXCEPT ![c] = q]
      BY <1>1, <1>12, <2>2, <3>1, <3>2, SMTT(30) DEF AuthWorker
    <3>4. q.logon_status = "COMPLETING"
      BY <1>1, <3>2, DoneFacts
    <3>5. EndsAnswered(c)
      BY <1>1, <3>3, <3>4 DEF EndsAnswered, InProgress
    <3> QED
      BY Zenon, <3>3, <3>5, OneConnStep
  <2> QED
    BY <2>1, <2>2
<1> QED
  BY <1>2, <1>4, <1>5, <1>6, <1>7, <1>8, <1>9, <1>10, <1>11, <1>12, SMTT(30) DEF Next

\* A logon on a connection without identities never ends in silence: it is
\* answered, or the connection is closed.
THEOREM LogonsAreAnswered == Spec => LogonIsAnswered
  BY Invariance, NextAnswers, PTL DEF Spec, LogonIsAnswered

-----------------------------------------------------------------------------
(* The registry of callsigns.                                              *)

\* What Registry calls by the names used here.
LEMMA RegFacts ==
    /\ \A s, es : Reg!Excluding(s, es) = Excluding(s, es)
    /\ \A c : Reg!LoggedOnAs(c) = {id \in Idents : Registered(c, id)}
<1>1. \A s, es : Reg!Excluding(s, es) = Excluding(s, es)
  BY Zenon DEF Reg!Excluding, Excluding, Reg!Chosen, Chosen
<1>2. \A c : Reg!LoggedOnAs(c) = {id \in Idents : Registered(c, id)}
  BY Zenon DEF Reg!LoggedOnAs, Registered
<1> QED
  BY <1>1, <1>2

\* The callsigns of a connection, and taking it out of the table.
LEMMA RegTable ==
    ASSUME IInv, NEW c \in Conns, NEW ids \in SUBSET Idents
    PROVE  /\ Reg!LoggedOnAs(c) = HeldIdents(c)
           /\ Reg!Without({c}, ids) = TableWithout(c, ids)
<1>1. Reg!LoggedOnAs(c) = HeldIdents(c)
  BY RegFacts DEF IInv, TableMatchesFromLists, HeldIdents
<1>2. ASSUME NEW id \in Idents
      PROVE  Reg!Excluding(conns_by_from[id], {c}) = RemoveFirst(conns_by_from[id], c)
  <2>1. conns_by_from[id] \in Seq(Conns) /\ IsInjective(conns_by_from[id])
    BY DEF IInv, TypeOK, TableMatchesFromLists
  <2> QED
    BY <2>1, RegFacts, RemoveFirstExcludes
<1>3. Reg!Without({c}, ids) = TableWithout(c, ids)
  BY <1>2, Zenon DEF Reg!Without, TableWithout
<1> QED
  BY <1>1, <1>3, SMTT(30)

\* A connection loses none, one or all of its callsigns.
LEMMA RegLogOff ==
    ASSUME IInv, NEW c \in Conns, NEW ids \in SUBSET HeldIdents(c), UNCHANGED live,
           conns_by_from' = TableWithout(c, ids),
           ids = {} \/ (\E id \in Idents : ids = {id}) \/ ids = HeldIdents(c)
    PROVE  [Reg!RegistryNext]_(Reg!registry)
<1>0. ids \in SUBSET Idents
  BY DEF HeldIdents
<1>1. CASE ids = {}
  <2>1. TableWithout(c, {}) = conns_by_from
    BY DEF TableWithout, IInv, TypeOK
  <2> QED
    BY <1>1, <2>1 DEF Reg!registry
<1>2. CASE ids # {}
  <2>1. Reg!LogOff(c, ids)
    BY <1>0, <1>2, RegTable DEF Reg!LogOff
  <2>2. ids \in {{id} : id \in Idents} \cup {Reg!LoggedOnAs(c)}
    BY <1>0, <1>2, RegTable, Zenon
  <2> QED
    BY <2>1, <2>2, Zenon DEF Reg!RegistryNext
<1> QED
  BY <1>1, <1>2

\* At first nobody is logged on.
LEMMA RegInit == Init => Reg!RegistryInit
  BY DEF Init, Reg!RegistryInit

\* Every step of the server is a step of the registry, or none.
LEMMA RegNext ==
    ASSUME IInv, [Next]_vars
    PROVE  [Reg!RegistryNext]_(Reg!registry)
<1>0. ASSUME UNCHANGED <<live, conns_by_from>> PROVE [Reg!RegistryNext]_(Reg!registry)
  BY <1>0 DEF Reg!registry
<1>1. ASSUME NEW c \in Conns, Accept(c) PROVE [Reg!RegistryNext]_(Reg!registry)
  <2>1. Reg!Open(c)
    BY <1>1 DEF Accept, Reg!Open
  <2> QED
    BY <2>1, Zenon DEF Reg!RegistryNext
<1>2. ASSUME NEW c \in Conns, c \in live, Close(c) PROVE [Reg!RegistryNext]_(Reg!registry)
  <2>1. HeldIdents(c) \in SUBSET Idents
    BY DEF HeldIdents
  <2>2. Reg!Shut(c)
    BY <1>2, <2>1, RegTable, Zenon DEF Close, Reg!Shut
  <2> QED
    BY <2>2, Zenon DEF Reg!RegistryNext
<1>3. ASSUME NEW c \in Conns, KillWsi(c) \/ RefuseLogon(c) \/ WriteOutput(c)
      PROVE  [Reg!RegistryNext]_(Reg!registry)
  BY <1>0, <1>3 DEF KillWsi, RefuseLogon, WriteOutput
<1>4. ASSUME NEW c \in Conns, CloseConn(c) \/ CloseTimedout(c) \/ LwsWriteableKilled(c)
      PROVE  [Reg!RegistryNext]_(Reg!registry)
  BY <1>2, <1>3, <1>4, Zenon DEF CloseConn, CloseTimedout, LwsWriteableKilled, KillWsi
<1>5. ASSUME NEW c \in Conns, CompleteLogon(c) PROVE [Reg!RegistryNext]_(Reg!registry)
  <2>1. UNCHANGED live /\ c \in live /\ InProgress(c)
    BY <1>5 DEF CompleteLogon, InProgress
  <2>2. PICK id \in Idents : id = conn[c].logon_from /\ ~HoldsIdent(c, id)
    BY <2>1 DEF IInv, PendingIsNew
  <2>3. \/ UNCHANGED conns_by_from
        \/ conns_by_from' = [conns_by_from EXCEPT ![id] = Append(@, c)]
    BY <1>5, <2>2, Zenon DEF CompleteLogon
  <2>4. CASE UNCHANGED conns_by_from
    BY <1>0, <2>1, <2>4
  <2>5. CASE conns_by_from' = [conns_by_from EXCEPT ![id] = Append(@, c)]
    <3>1. id \notin Reg!LoggedOnAs(c)
      BY <2>2, RegTable, Zenon DEF HeldIdents
    <3>2. Reg!LogOn(c, id)
      BY <2>1, <2>5, <3>1, Zenon DEF Reg!LogOn
    <3> QED
      BY <3>2, Zenon DEF Reg!RegistryNext
  <2> QED
    BY <2>3, <2>4, <2>5
<1>6. ASSUME NEW c \in Conns, SendEndSvc(c) PROVE [Reg!RegistryNext]_(Reg!registry)
  BY <1>6, RegLogOff DEF SendEndSvc
<1>7. ASSUME NEW c \in Conns, NEW from \in Idents, UNCHANGED live,
             conns_by_from' = TableWithout(c, ClearedIdents(c, from))
      PROVE  [Reg!RegistryNext]_(Reg!registry)
  <2>1. PICK ids : ids = ClearedIdents(c, from)
    OBVIOUS
  <2>2. /\ ids \in SUBSET HeldIdents(c)
        /\ ids = {} \/ ids = {from} \/ ids = HeldIdents(c)
    BY <2>1 DEF ClearedIdents
  <2> QED
    BY <1>7, <2>1, <2>2, RegLogOff
<1>8. ASSUME NEW c \in Conns, NEW from \in Idents, NEW to \in LogonTargets,
             ProcessLogonRpc(c, from, to)
      PROVE  [Reg!RegistryNext]_(Reg!registry)
  BY <1>7, <1>8 DEF ProcessLogonRpc
<1>9. ASSUME NEW c \in Conns, NEW from \in Idents, NEW to \in LogonTargets,
             NEW result \in BOOLEAN, NEW is_atc \in BOOLEAN,
             ProcessLogonLocal(c, from, to, result, is_atc)
      PROVE  [Reg!RegistryNext]_(Reg!registry)
  BY <1>7, <1>9 DEF ProcessLogonLocal
<1>10. ASSUME NEW c \in Conns, NEW from \in Idents, ProcessLogoff(c, from)
       PROVE  [Reg!RegistryNext]_(Reg!registry)
  BY <1>7, <1>10 DEF ProcessLogoff
<1>11. ASSUME NEW k \in DOMAIN sessions, NEW result \in BOOLEAN, NEW is_atc \in BOOLEAN,
              AuthWorker(k, result, is_atc)
       PROVE  [Reg!RegistryNext]_(Reg!registry)
  BY <1>0, <1>11 DEF AuthWorker
<1>12. CASE Tick \/ UNCHANGED vars
  BY <1>0, <1>12 DEF Tick, vars
<1> QED
  BY <1>1, <1>3, <1>4, <1>5, <1>6, <1>8, <1>9, <1>10, <1>11, <1>12, Zenon DEF Next

\* However handlers, the authenticator's workers, timeouts and closing connections
\* interleave, conns_by_from changes only as a registry of callsigns may: one callsign
\* is added for a connection that is open and does not hold it, one or all of a
\* connection's are taken away, and all of them when it is closed.
THEOREM LogonKeepsRegistry == Spec => KeepsRegistry
<1>1. IInv /\ [Next]_vars => [Reg!RegistryNext]_(Reg!registry)
  BY RegNext
<1> QED
  BY <1>1, RegInit, Invariance, PTL DEF Spec, KeepsRegistry, Reg!RegistrySpec
=============================================================================
