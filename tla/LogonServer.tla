----------------------------- MODULE LogonServer -----------------------------
(***************************************************************************)
(* The logon life cycle of a connection to cpdlcd: accepting, the LOGON    *)
(* and LOGOFF messages, the background authentication sessions of auth.c,  *)
(* the completion of a logon by the main thread, the termination of the    *)
(* service by an uplinked END SERVICE, the logon grace time and closing.   *)
(*                                                                         *)
(* Three kinds of threads interleave: the main thread (poll loop), one     *)
(* auth_worker per authentication session, and the libwebsockets service   *)
(* thread, which opens and closes WebSocket connections.  A handler holds  *)
(* conn->lock from its first read to its last write of a connection, so    *)
(* one action is one handler.  (The order in which the handlers take       *)
(* several locks is the subject of the module LockOrder.)                  *)
(***************************************************************************)
EXTENDS Lists

CONSTANTS TcpConns,      \* conn_t slots accepted by handle_accepts
          LwsConns,      \* conn_t slots established by libwebsockets
          Idents,        \* callsigns, the keys of conns_by_from
          NoIdent,       \* the empty string
          AuthModes,     \* the configured authenticators to start with
          GraceTime,     \* LOGON_GRACE_TIME, in ticks of the clock
          LogonTargets,  \* the TO= fields of LOGON messages
          MaxSessions    \* bound: authentication sessions ever opened

ASSUME ConnsAssumption == TcpConns \cap LwsConns = {}
ASSUME IdentAssumption == /\ NoIdent \notin Idents
                          /\ LogonTargets \subseteq Idents \cup {NoIdent}
ASSUME ModesAssumption == AuthModes \subseteq {"rpc", "file", "none"}
ASSUME BoundsAssumption == /\ GraceTime \in Nat
                           /\ MaxSessions \in Nat

VARIABLES auth_mode,      \* which branch auth_sess_open takes
          live,           \* connections in conns_tcp and conns_lws
          conn,           \* the conn_t of each slot
          conns_by_from,  \* callsign -> the connections logged on as it
          sessions,       \* the AVL tree of auth sessions, by key
          next_sess_key,
          authed          \* history: the authenticator's grants that stand

vars == <<auth_mode, live, conn, conns_by_from, sessions, next_sess_key,
          authed>>

Conns == TcpConns \cup LwsConns
Targets == Idents \cup {NoIdent}
Statuses == {"NONE", "STARTED", "COMPLETING", "COMPLETE"}
Outputs == {"empty", "answer", "notice"}

(***************************************************************************)
(* The fields of conn_t that survive from one handler to the next.  The    *)
(* time since logoff_time is kept as idle, which stops at GraceTime + 1:   *)
(* the code only compares it with the grace time.  Of outbuf, the newest   *)
(* message is kept, and of that whether it answers a logon (SUCCESS,       *)
(* FAILURE or an error) or is a notice of another kind.                    *)
(***************************************************************************)
ConnRecord ==
    [logon_status  : Statuses,
     logon_success : BOOLEAN,
     is_atc        : BOOLEAN,
     from_list     : Seq(Idents),
     to            : Targets,
     logon_from    : Targets,
     logon_to      : Targets,
     auth_key      : Nat,
     kill_wsi      : BOOLEAN,
     idle          : 0 .. GraceTime + 1,
     outbuf        : Outputs]

FreshConn ==
    [logon_status  |-> "NONE",
     logon_success |-> FALSE,
     is_atc        |-> FALSE,
     from_list     |-> <<>>,
     to            |-> NoIdent,
     logon_from    |-> NoIdent,
     logon_to      |-> NoIdent,
     auth_key      |-> 0,
     kill_wsi      |-> FALSE,
     idle          |-> 0,
     outbuf        |-> "empty"]

Session == [conn : Conns, from : Idents, to : Targets, kill : BOOLEAN]

TypeOK ==
    /\ auth_mode \in {"rpc", "file", "none"}
    /\ live \subseteq Conns
    /\ conn \in [Conns -> ConnRecord]
    /\ conns_by_from \in [Idents -> Seq(Conns)]
    /\ next_sess_key \in Nat
    /\ DOMAIN sessions \subseteq 0 .. next_sess_key - 1
    /\ sessions \in [DOMAIN sessions -> Session]
    /\ authed \subseteq Conns \X Idents \X Targets \X BOOLEAN

Init ==
    /\ auth_mode \in AuthModes
    /\ live = {}
    /\ conn = [c \in Conns |-> FreshConn]
    /\ conns_by_from = [id \in Idents |-> <<>>]
    /\ sessions = [k \in {} |-> 0]
    /\ next_sess_key = 0
    /\ authed = {}

-----------------------------------------------------------------------------
(* Pieces the handlers share. *)

Registered(c, id) == \E i \in DOMAIN conns_by_from[id] : conns_by_from[id][i] = c
HoldsIdent(c, id) == \E i \in DOMAIN conn[c].from_list : conn[c].from_list[i] = id
InProgress(c) == conn[c].logon_status \in {"STARTED", "COMPLETING"}

\* Mutant: a connection with output waiting takes no more.
SendWhenDrained(r, message) ==
    IF r.outbuf = "empty" THEN [r EXCEPT !.outbuf = message] ELSE r

\* conn_send_buf: append to the connection's output buffer.
Send(r, message) == [r EXCEPT !.outbuf = message]

\* conns_by_from_remove, for each callsign of a set.
TableWithout(c, ids) ==
    [id \in Idents |-> IF id \in ids THEN RemoveFirst(conns_by_from[id], c)
                                     ELSE conns_by_from[id]]

\* Mutant: only the first identity of a connection is looked at.
HeadIdent(c) ==
    {id \in Idents : conn[c].from_list # <<>> /\ id = Head(conn[c].from_list)}

HeldIdents(c) == {id \in Idents : HoldsIdent(c, id)}

\* Mutant: a connection whose service has ended still counts as authenticated.
ResetKeepsSuccess(r) ==
    LET forgotten == [r EXCEPT !.is_atc = FALSE, !.to = NoIdent,
                               !.logon_from = NoIdent, !.logon_to = NoIdent]
    IN  [(IF r.logon_status = "COMPLETE" THEN forgotten ELSE r)
            EXCEPT !.from_list = <<>>, !.logon_status = "NONE"]

\* conn_reset_logon, as it changes the conn_t.
ResetLogon(r) ==
    LET forgotten == [r EXCEPT !.is_atc = FALSE, !.to = NoIdent,
                               !.logon_from = NoIdent, !.logon_to = NoIdent]
    IN  [(IF r.logon_status = "COMPLETE" THEN forgotten ELSE r)
            EXCEPT !.from_list = <<>>, !.logon_status = "NONE",
                   !.logon_success = FALSE]

\* Mutants: the session is left running; it is killed in whatever state.
SessionsLeft(c) == sessions
SessionKilledAnyway(c) ==
    IF conn[c].auth_key \in DOMAIN sessions
    THEN [sessions EXCEPT ![conn[c].auth_key].kill = TRUE]
    ELSE sessions

\* auth_sess_kill, called by conn_reset_logon while a logon is STARTED.
SessionsAfterReset(c) ==
    IF conn[c].logon_status = "STARTED" /\ conn[c].auth_key \in DOMAIN sessions
    THEN [sessions EXCEPT ![conn[c].auth_key].kill = TRUE]
    ELSE sessions

\* Mutant: the status of an ATC station outlives its last identity.
ClearedButComplete(r, from) ==
    IF r.is_atc THEN [r EXCEPT !.from_list = RemoveFirst(@, from)]
                ELSE ResetLogon(r)

\* The part of process_logon_msg that LOGON and LOGOFF have in common:
\* clearing the previous logon, or just one identity of an ATC station.
ClearPrevious(r, from) ==
    LET cleared == IF r.is_atc
                   THEN [r EXCEPT !.from_list = RemoveFirst(@, from)]
                   ELSE ResetLogon(r)
    IN  IF cleared.from_list = <<>>
        THEN [cleared EXCEPT !.idle = 0, !.logon_status = "NONE",
                             !.logon_success = FALSE, !.is_atc = FALSE]
        ELSE cleared

ClearedIdents(c, from) ==
    IF conn[c].is_atc THEN {from} \cap HeldIdents(c) ELSE HeldIdents(c)

\* logon_done_cb: only record the result; the main thread acts on it.
LogonDone(r, result, is_atc) ==
    [r EXCEPT !.logon_status = "COMPLETING", !.logon_success = result,
              !.is_atc = is_atc]

\* A grant is for one connection and stands until its identity is given up.
Grant(c, from, to, result, is_atc) ==
    IF result THEN {<<c, from, to, is_atc>>} ELSE {}

GrantsAfterClear(c, from) ==
    {g \in authed : g[1] = c => conn[c].is_atc /\ g[2] # from}

GrantsAfterReset(c) == {g \in authed : g[1] # c}

-----------------------------------------------------------------------------
(* Connections come and go. *)

\* handle_accepts (TCP) and conn_established_lws: a zeroed conn_t.
Accept(c) ==
    /\ c \notin live
    /\ live' = live \cup {c}
    /\ conn' = [conn EXCEPT ![c] = FreshConn]
    /\ UNCHANGED <<auth_mode, conns_by_from, sessions, next_sess_key, authed>>

\* close_conn, whatever called it: end of file, a read, write or decoding
\* error, the grace time, or LWS_CALLBACK_CLOSED on the LWS thread.
Close(c) ==
    /\ live' = live \ {c}
    /\ conns_by_from' = TableWithout(c, HeldIdents(c))
    /\ sessions' = SessionsAfterReset(c)
    /\ conn' = [conn EXCEPT ![c] = FreshConn]
    /\ authed' = GrantsAfterReset(c)
    /\ UNCHANGED <<auth_mode, next_sess_key>>

CloseConn(c) == c \in live /\ Close(c)

\* An LWS connection is not closed by the main thread, only marked: here
\* by handle_lws_input after a decoding error.
KillWsi(c) ==
    /\ c \in live \cap LwsConns
    /\ conn' = [conn EXCEPT ![c].kill_wsi = TRUE]
    /\ UNCHANGED <<auth_mode, live, conns_by_from, sessions, next_sess_key,
                   authed>>

TimedOut(c) ==
    /\ ~conn[c].logon_success
    /\ conn[c].idle > GraceTime

\* close_timedout_conns, for one connection.
CloseTimedout(c) ==
    /\ c \in live
    /\ TimedOut(c)
    /\ \/ c \in TcpConns /\ Close(c)
       \/ KillWsi(c)

-----------------------------------------------------------------------------
(* LOGON and LOGOFF. *)

\* Mutant: the identity is taken over before the check.
OverwritesPending(c) ==
    /\ c \in live
    /\ InProgress(c)
    /\ \E from \in Idents :
          conn' = [conn EXCEPT ![c] =
                      [Send(@, "notice") EXCEPT !.logon_from = from]]
    /\ UNCHANGED <<auth_mode, live, conns_by_from, sessions, next_sess_key,
                   authed>>

\* process_logon_msg while another logon is under way: an error message.
RefuseLogon(c) ==
    /\ c \in live
    /\ InProgress(c)
    /\ conn' = [conn EXCEPT ![c] = Send(@, "notice")]
    /\ UNCHANGED <<auth_mode, live, conns_by_from, sessions, next_sess_key,
                   authed>>

\* process_logon_msg up to auth_sess_open.
BeginLogon(c, from, to) ==
    [ClearPrevious(conn[c], from) EXCEPT !.logon_to = to, !.logon_from = from,
                                         !.logon_status = "STARTED"]

\* process_logon_msg with an authenticator reached by RPC: auth_sess_open
\* adds a session and starts its worker.
ProcessLogonRpc(c, from, to) ==
    /\ c \in live
    /\ ~InProgress(c)
    /\ auth_mode = "rpc"
    /\ next_sess_key < MaxSessions
    /\ conn' = [conn EXCEPT ![c] = [BeginLogon(c, from, to) EXCEPT
                                       !.auth_key = next_sess_key]]
    /\ conns_by_from' = TableWithout(c, ClearedIdents(c, from))
    /\ sessions' = [k \in DOMAIN sessions \cup {next_sess_key} |->
                       IF k = next_sess_key
                       THEN [conn |-> c, from |-> from, to |-> to,
                             kill |-> FALSE]
                       ELSE sessions[k]]
    /\ next_sess_key' = next_sess_key + 1
    /\ authed' = GrantsAfterClear(c, from)
    /\ UNCHANGED <<auth_mode, live>>

\* The results auth_sess_open can have at once: everybody is an ATC station
\* when there is no authenticator, and what the user list says otherwise.
LocalResults ==
    IF auth_mode = "none" THEN {<<TRUE, TRUE>>}
    ELSE {<<TRUE, TRUE>>, <<TRUE, FALSE>>, <<FALSE, FALSE>>}

\* process_logon_msg with a local authenticator: auth_sess_open calls
\* logon_done_cb before it returns, and the key is 0.
ProcessLogonLocal(c, from, to, result, is_atc) ==
    /\ c \in live
    /\ ~InProgress(c)
    /\ auth_mode # "rpc"
    /\ <<result, is_atc>> \in LocalResults
    /\ conn' = [conn EXCEPT ![c] =
                   [LogonDone(BeginLogon(c, from, to), result, is_atc) EXCEPT
                       !.auth_key = 0]]
    /\ conns_by_from' = TableWithout(c, ClearedIdents(c, from))
    /\ authed' = GrantsAfterClear(c, from)
                   \cup Grant(c, from, to, result, is_atc)
    /\ UNCHANGED <<auth_mode, live, sessions, next_sess_key>>

\* process_logon_msg with a LOGOFF, which conn_process_msg lets through
\* only on a connection that is logged on.
ProcessLogoff(c, from) ==
    /\ c \in live
    /\ conn[c].logon_status = "COMPLETE"
    /\ conn' = [conn EXCEPT ![c] = ClearPrevious(@, from)]
    /\ conns_by_from' = TableWithout(c, ClearedIdents(c, from))
    /\ authed' = GrantsAfterClear(c, from)
    /\ UNCHANGED <<auth_mode, live, sessions, next_sess_key>>

\* The end of auth_worker: unless the session was killed, logon_done_cb;
\* then the session leaves the tree.
AuthWorker(k, result, is_atc) ==
    LET sess == sessions[k]
    IN  /\ k \in DOMAIN sessions
        /\ IF sess.kill
           THEN UNCHANGED <<conn, authed>>
           ELSE /\ conn' = [conn EXCEPT ![sess.conn] =
                               LogonDone(@, result, is_atc)]
                /\ authed' = authed \cup Grant(sess.conn, sess.from, sess.to,
                                               result, is_atc)
        /\ sessions' = [j \in DOMAIN sessions \ {k} |-> sessions[j]]
        /\ UNCHANGED <<auth_mode, live, conns_by_from, next_sess_key>>

LacksTarget(r) == r.logon_success /\ ~r.is_atc /\ r.logon_to = NoIdent

\* Mutant: the newest connection is put first.
NewestFirst(c) ==
    LET r == conn[c]
        done(s) == [s EXCEPT !.logon_to = NoIdent, !.logon_from = NoIdent]
    IN  /\ c \in live
        /\ r.logon_status = "COMPLETING"
        /\ \/ /\ LacksTarget(r) \/ ~r.logon_success
              /\ conn' = [conn EXCEPT ![c] =
                    Send(done([r EXCEPT !.logon_status = "NONE"]), "answer")]
              /\ UNCHANGED conns_by_from
           \/ /\ r.logon_success
              /\ ~LacksTarget(r)
              /\ conn' = [conn EXCEPT ![c] =
                    Send(done([r EXCEPT !.logon_status = "COMPLETE",
                                        !.to = r.logon_to,
                                        !.from_list = Append(@, r.logon_from)]),
                         "answer")]
              /\ conns_by_from' =
                    [conns_by_from EXCEPT ![r.logon_from] = <<c>> \o @]
        /\ UNCHANGED <<auth_mode, live, sessions, next_sess_key, authed>>

\* Mutant: only a logon that was granted is completed.
RefusalForgotten(c) ==
    LET r == conn[c]
        done(s) == [s EXCEPT !.logon_to = NoIdent, !.logon_from = NoIdent]
    IN  /\ c \in live
        /\ r.logon_status = "COMPLETING"
        /\ r.logon_success
        /\ ~LacksTarget(r)
        /\ conn' = [conn EXCEPT ![c] =
              Send(done([r EXCEPT !.logon_status = "COMPLETE",
                                  !.to = r.logon_to,
                                  !.from_list = Append(@, r.logon_from)]),
                   "answer")]
        /\ conns_by_from' =
              [conns_by_from EXCEPT ![r.logon_from] = Append(@, c)]
        /\ UNCHANGED <<auth_mode, live, sessions, next_sess_key, authed>>

\* complete_logon: register the identity, or report why not.
CompleteLogon(c) ==
    LET r == conn[c]
        done(s) == [s EXCEPT !.logon_to = NoIdent, !.logon_from = NoIdent]
    IN  /\ c \in live
        /\ r.logon_status = "COMPLETING"
        /\ \/ /\ LacksTarget(r)
              /\ conn' = [conn EXCEPT ![c] =
                    Send(done([r EXCEPT !.logon_status = "NONE"]), "answer")]
              /\ UNCHANGED conns_by_from
           \/ /\ r.logon_success
              /\ ~LacksTarget(r)
              /\ conn' = [conn EXCEPT ![c] =
                    Send(done([r EXCEPT
                                !.logon_status = "COMPLETE",
                                !.to = r.logon_to,
                                !.from_list = Append(@, r.logon_from)]),
                         "answer")]
              /\ conns_by_from' =
                    [conns_by_from EXCEPT ![r.logon_from] = Append(@, c)]
           \/ /\ ~r.logon_success
              /\ conn' = [conn EXCEPT ![c] =
                    Send(done([r EXCEPT !.logon_status = "NONE"]), "answer")]
              /\ UNCHANGED conns_by_from
        /\ UNCHANGED <<auth_mode, live, sessions, next_sess_key, authed>>

\* conn_send_msg of a message with an END SERVICE segment to a connection
\* found in conns_by_from: forward_msg_cb does this for each recipient.
SendEndSvc(c) ==
    /\ \E id \in Idents : Registered(c, id)
    /\ conn' = [conn EXCEPT ![c] =
                   [ResetLogon(Send(@, "notice")) EXCEPT !.idle = 0]]
    /\ conns_by_from' = TableWithout(c, HeldIdents(c))
    /\ sessions' = SessionsAfterReset(c)
    /\ authed' = GrantsAfterReset(c)
    /\ UNCHANGED <<auth_mode, live, next_sess_key>>

-----------------------------------------------------------------------------
(* Output and the clock. *)

\* conn_write_output and do_lws_output, when they drain the buffer.
WriteOutput(c) ==
    /\ c \in live
    /\ ~conn[c].kill_wsi
    /\ conn[c].outbuf # "empty"
    /\ conn' = [conn EXCEPT ![c].outbuf = "empty"]
    /\ UNCHANGED <<auth_mode, live, conns_by_from, sessions, next_sess_key,
                   authed>>

\* LWS_CALLBACK_SERVER_WRITEABLE on a connection marked by the main thread:
\* the callback returns -1 and libwebsockets closes it.  It comes only when
\* conn_send_buf has asked for it, hence with output waiting.
LwsWriteableKilled(c) ==
    /\ c \in live \cap LwsConns
    /\ conn[c].kill_wsi
    /\ conn[c].outbuf # "empty"
    /\ Close(c)

\* One second passes on the server.
Tick ==
    /\ \E c \in live : conn[c].idle <= GraceTime
    /\ conn' = [c \in Conns |->
                   IF c \in live /\ conn[c].idle <= GraceTime
                   THEN [conn[c] EXCEPT !.idle = @ + 1]
                   ELSE conn[c]]
    /\ UNCHANGED <<auth_mode, live, conns_by_from, sessions, next_sess_key,
                   authed>>

Next ==
    \/ \E c \in Conns :
          \/ Accept(c)
          \/ CloseConn(c)
          \/ KillWsi(c)
          \/ CloseTimedout(c)
          \/ RefuseLogon(c)
          \/ CompleteLogon(c)
          \/ SendEndSvc(c)
          \/ WriteOutput(c)
          \/ LwsWriteableKilled(c)
    \/ \E c \in Conns, from \in Idents, to \in LogonTargets :
          ProcessLogonRpc(c, from, to)
    \/ \E c \in Conns, from \in Idents, to \in LogonTargets,
          result, is_atc \in BOOLEAN :
          ProcessLogonLocal(c, from, to, result, is_atc)
    \/ \E c \in Conns, from \in Idents : ProcessLogoff(c, from)
    \/ \E k \in DOMAIN sessions, result, is_atc \in BOOLEAN :
          AuthWorker(k, result, is_atc)
    \/ Tick

Spec == Init /\ [][Next]_vars

(***************************************************************************)
(* The main thread never waits longer than POLL_TIMEOUT, and every pass of *)
(* its loop runs complete_logons and close_timedout_conns over all the     *)
(* connections; an RPC ends within its CURLOPT_TIMEOUT; the clock runs;    *)
(* libwebsockets delivers a callback it was asked for.  Nothing is assumed *)
(* of the peers: neither their messages, nor that they read or disconnect. *)
(***************************************************************************)
WorkerEnds(k) == \E result, is_atc \in BOOLEAN : AuthWorker(k, result, is_atc)

Fairness ==
    /\ \A c \in Conns : /\ WF_vars(CompleteLogon(c))
                        /\ WF_vars(CloseTimedout(c))
                        /\ WF_vars(LwsWriteableKilled(c))
    /\ \A k \in 0 .. MaxSessions - 1 : WF_vars(WorkerEnds(k))
    /\ WF_vars(Tick)

FairSpec == Spec /\ Fairness

-----------------------------------------------------------------------------
(* Safety. *)

\* The table conns_by_from and the connections' from_lists say the same: a
\* connection is found under a callsign exactly when the callsign is on its
\* own list, at most once, and a connection that was closed is nowhere in
\* the table (conns_by_from_remove asserts that the entry is there, and
\* forward_msg_cb follows the pointers it finds).
TableMatchesFromLists ==
    /\ \A c \in Conns, id \in Idents : Registered(c, id) <=> HoldsIdent(c, id)
    /\ \A id \in Idents : IsInjective(conns_by_from[id])
    /\ \A c \in Conns : IsInjective(conn[c].from_list)
    /\ \A c \in Conns \ live : conn[c].from_list = <<>>

\* A session that was not killed belongs to a connection that is still open
\* and still waits for this very session, so logon_done_cb never touches a
\* freed connection, nor one in another state than LOGON_STARTED (which it
\* asserts), nor one that has begun another logon since.
CallbackFindsItsLogon ==
    \A k \in DOMAIN sessions :
        LET c == sessions[k].conn
        IN  ~sessions[k].kill => /\ c \in live
                                 /\ conn[c].logon_status = "STARTED"
                                 /\ conn[c].auth_key = k
                                 /\ conn[c].logon_from = sessions[k].from
                                 /\ conn[c].logon_to = sessions[k].to

\* A connection that waits for an authentication has a session that will
\* call it back: no logon is left STARTED with nobody working on it.
StartedLogonHasSession ==
    \A c \in live : conn[c].logon_status = "STARTED" =>
        /\ conn[c].auth_key \in DOMAIN sessions
        /\ sessions[conn[c].auth_key].conn = c
        /\ ~sessions[conn[c].auth_key].kill

\* A connection is LOGON_COMPLETE only while it holds an identity: what
\* forward_msg asserts before it stamps a message with its sender.
LoggedOnHasIdentity ==
    \A c \in Conns : conn[c].logon_status = "COMPLETE" =>
                        conn[c].from_list # <<>>

\* Nobody gets an identity, a role or a data authority other than by asking
\* the authenticator for it on this connection: every identity was granted,
\* an ATC station was granted each of its identities as ATC, and an aircraft
\* was granted its latest identity together with the station it talks to,
\* whatever was sent while the authenticator was working.
IdentitiesWereGranted ==
    \A c \in Conns : LET r == conn[c] IN
        /\ \A i \in DOMAIN r.from_list : \E to \in Targets, atc \in BOOLEAN :
               <<c, r.from_list[i], to, atc>> \in authed
        /\ r.logon_status = "COMPLETE" /\ r.is_atc =>
               \A i \in DOMAIN r.from_list : \E to \in Targets :
                   <<c, r.from_list[i], to, TRUE>> \in authed
        /\ r.logon_status = "COMPLETE" /\ ~r.is_atc =>
               /\ <<c, Last(r.from_list), r.to, FALSE>> \in authed
               /\ r.to # NoIdent

EndsAnswered(c) ==
    InProgress(c) /\ conn[c].from_list = <<>> /\ ~InProgress(c)'
        => c \notin live' \/ conn'[c].outbuf = "answer"

\* A logon on a connection that holds no identity yet is always answered
\* (SUCCESS, FAILURE or an error message) unless the connection is closed:
\* neither a kill nor a second LOGON makes it disappear silently.
LogonIsAnswered == [][\A c \in live : EndsAnswered(c)]_vars

-----------------------------------------------------------------------------
(* The strengthening that makes the safety properties inductive. *)

\* A closed slot is zeroed.
ClosedIsFresh == \A c \in Conns \ live : conn[c] = FreshConn

\* A logon under way is for an identity the connection does not hold.
PendingIsNew ==
    \A c \in Conns : InProgress(c) => /\ conn[c].logon_from \in Idents
                                      /\ ~HoldsIdent(c, conn[c].logon_from)

\* The grants behind the identities, also between two logons: what an ATC
\* station holds while it asks for more was all granted as ATC, and a result
\* not yet acted upon is the one for the logon that waits for it.
GrantsOf(c) ==
    LET r == conn[c] IN
        /\ \A i \in DOMAIN r.from_list : \E to \in Targets, atc \in BOOLEAN :
               <<c, r.from_list[i], to, atc>> \in authed
        /\ InProgress(c) \/ r.is_atc =>
               \A i \in DOMAIN r.from_list : \E to \in Targets :
                   <<c, r.from_list[i], to, TRUE>> \in authed
        /\ r.logon_status = "COMPLETING" /\ r.logon_success =>
               <<c, r.logon_from, r.logon_to, r.is_atc>> \in authed
        /\ r.logon_status = "COMPLETE" /\ ~r.is_atc =>
               /\ <<c, Last(r.from_list), r.to, FALSE>> \in authed
               /\ r.to # NoIdent

GrantsStand == \A c \in Conns : GrantsOf(c)

IInv ==
    /\ TypeOK
    /\ TableMatchesFromLists
    /\ CallbackFindsItsLogon
    /\ StartedLogonHasSession
    /\ LoggedOnHasIdentity
    /\ ClosedIsFresh
    /\ PendingIsNew
    /\ GrantsStand

-----------------------------------------------------------------------------
(* Liveness. *)

\* Every logon comes to an end: what process_logon_msg has started, or
\* logon_done_cb has handed over, is completed, refused or cut short.
LogonEnds == \A c \in Conns : InProgress(c) ~> ~InProgress(c)

\* A connection that is not logged on, and one that the authenticator granted a
\* logon without a TO=, which complete_logon then refused without taking back
\* logon_success.
Lingers(c) == c \in live /\ conn[c].logon_status # "COMPLETE"
WithoutStation(c) == \E id \in Idents : <<c, id, NoIdent, FALSE>> \in authed

\* "If no logon is completed within this time period ..., the connection is
\* terminated" (cpdlcd.c): a TCP connection that is not logged on, because it never
\* was, was refused, logged off or had its service ended, comes to a logon or is closed.  Only one that was
\* granted a logon without a TO= is not held to it.  (A LOGON renews the grace time:
\* the bound on them stands for a client that stops asking.)
GraceTimeIsKept ==
    \A c \in TcpConns : Lingers(c) ~> ~Lingers(c) \/ WithoutStation(c)
=============================================================================
