------------------------------ MODULE LockOrder ------------------------------
(***************************************************************************)
(* The mutexes of cpdlcd and the order in which its threads take them.     *)
(*                                                                         *)
(* A thread is a stack of things still to do: entering and leaving a lock, *)
(* and calls, which are replaced by what the function does in the state at *)
(* that moment.  Of the data only that is kept which decides on locking:   *)
(* the logon status, whether a connection is in conns_by_from, and the     *)
(* authentication session that runs for it.  Mutexes are recursive.        *)
(***************************************************************************)
EXTENDS Lists

CONSTANTS TcpConns, LwsConns,
          Routers     \* threads of the message router, if it is configured

Conns == TcpConns \cup LwsConns
Workers == {<<"auth_worker", c>> : c \in Conns}
Main == <<"main">>
LwsWorker == <<"lws_worker">>
Threads == {Main, LwsWorker} \cup Workers \cup Routers
Nobody == <<>>

\* conns_tcp_lock, conns_lws_lock, conns_by_from_lock, msg_log_lock, the lock
\* of auth.c, and conn->lock of each connection.
Locks == {"tcp", "lws", "by_from", "log", "auth"} \cup Conns

ASSUME ThreadsAssumption ==
    /\ TcpConns \cap LwsConns = {} /\ IsFiniteSet(Conns)
    /\ Conns \cap {"tcp", "lws", "by_from", "log", "auth"} = {}
    /\ Routers \cap ({Main, LwsWorker, Nobody} \cup Workers) = {}

VARIABLES todo,      \* thread -> what it has yet to do
          owner,     \* lock -> the thread inside
          depth,     \* lock -> how many times it was entered
          table,     \* connections in conns_by_from
          status,    \* conn->logon_status
          session,   \* connection -> none, running or killed
          routed     \* is the router configured?

vars == <<todo, owner, depth, table, status, session, routed>>

Enter(l) == <<"enter", l>>
Exit(l) == <<"exit", l>>
Call(f, c) == <<f, c>>
Guarded(l, body) == <<Enter(l)>> \o body \o <<Exit(l)>>

Each(f, cs) == LET s == CHOOSE w \in Arrangements(cs) : TRUE IN [i \in DOMAIN s |-> Call(f, s[i])]

\* Functions with a body, and the changes of state at the bottom of the calls.
Compound == {"conn_send_buf", "conn_send_msg", "conn_send_end_svc",
             "conn_reset_logon", "remove_idents", "kill_session",
             "forward_msg", "forward_to_each", "queued_to_each",
             "conn_process_msg", "process_logon_msg", "process_logoff_msg",
             "complete_logon", "logon_result", "auth_done"}
Simple == {"conns_by_from_remove", "auth_sess_kill", "clear_logon",
           "auth_sess_open", "logon_done_cb", "session_ends", "htbl_set"}

TypeOK ==
    /\ todo \in [Threads -> Seq(({"enter", "exit"} \X Locks)
                                \cup ((Compound \cup Simple) \X Conns))]
    /\ owner \in [Locks -> Threads \cup {Nobody}]
    /\ depth \in [Locks -> Nat]
    /\ \A l \in Locks : owner[l] = Nobody <=> depth[l] = 0
    /\ table \subseteq Conns
    /\ status \in [Conns -> {"NONE", "STARTED", "COMPLETING", "COMPLETE"}]
    /\ session \in [Conns -> {"none", "running", "killed"}]
    /\ routed \in BOOLEAN

Init ==
    /\ todo = [t \in Threads |-> <<>>]
    /\ owner = [l \in Locks |-> Nobody]
    /\ depth = [l \in Locks |-> 0]
    /\ table = {}
    /\ status = [c \in Conns |-> "NONE"]
    /\ session = [c \in Conns |-> "none"]
    /\ routed \in BOOLEAN

-----------------------------------------------------------------------------
(* Locks. *)

Wants(t, l) == todo[t] # <<>> /\ Head(todo[t]) = Enter(l)

MutexEnter(t, l) ==
    /\ Wants(t, l)
    /\ owner[l] \in {t, Nobody}
    /\ owner' = [owner EXCEPT ![l] = t]
    /\ depth' = [depth EXCEPT ![l] = @ + 1]
    /\ todo' = [todo EXCEPT ![t] = Tail(@)]
    /\ UNCHANGED <<table, status, session, routed>>

MutexExit(t, l) ==
    /\ todo[t] # <<>> /\ Head(todo[t]) = Exit(l)
    /\ owner' = [owner EXCEPT ![l] = IF depth[l] = 1 THEN Nobody ELSE t]
    /\ depth' = [depth EXCEPT ![l] = @ - 1]
    /\ todo' = [todo EXCEPT ![t] = Tail(@)]
    /\ UNCHANGED <<table, status, session, routed>>

-----------------------------------------------------------------------------
(* What the functions do: the locks they take and the calls they make, a   *)
(* set of bodies where the message or the answer decides.                  *)

ConnSendBuf(c) == {Guarded(c, <<>>)}

\* conn_log_buf, then conn_send_buf; an END SERVICE also ends the logon.
LogAndSend(c) == Guarded("log", <<>>) \o <<Call("conn_send_buf", c)>>
ConnSendMsg(c) == {LogAndSend(c)}
ConnSendEndSvc(c) == {LogAndSend(c) \o <<Call("conn_reset_logon", c)>>}

\* Mutant: the logon is reset without conn->lock.
ResetUnlocked(c) ==
    {<<Call("remove_idents", c), Call("kill_session", c), Call("clear_logon", c)>>}

ConnResetLogon(c) ==
    {Guarded(c, <<Call("remove_idents", c), Call("kill_session", c),
                  Call("clear_logon", c)>>)}
RemoveIdents(c) ==
    {IF c \in table THEN Guarded("by_from", <<Call("conns_by_from_remove", c)>>)
     ELSE <<>>}
KillSession(c) ==
    {IF status[c] = "STARTED" THEN Guarded("auth", <<Call("auth_sess_kill", c)>>)
     ELSE <<>>}

\* Mutant: conns_by_from_lock is left twice.
ForwardLeavesTwice(c) ==
    {Guarded("log", <<>>) \o Guarded("by_from", <<Call("forward_to_each", c)>>)
     \o <<Exit("by_from")>>}

\* forward_msg_cb: to all the connections of the recipient, or to the queue.
\* The message is an END SERVICE or not; of a recipient there is but one.
ForwardMsgCb(c) ==
    {Guarded("log", <<>>) \o Guarded("by_from", <<Call("forward_to_each", c)>>)}
ForwardToEach == {Each(f, table) : f \in {"conn_send_msg", "conn_send_end_svc"}}

\* Mutant: the list of connections is locked inside conns_by_from_lock.
QueuedUnderListLock == {Guarded("lws", Each("conn_send_buf", table))}

\* The part of handle_queued_msgs inside conns_by_from_lock.
QueuedToEach == {Each("conn_send_buf", table)}

\* conn_process_msg, for what is neither LOGON nor LOGOFF: refused, or
\* forwarded, by an ATC station perhaps after msg_auto_assign_from.  To a
\* router it is only handed as a task.
ConnProcessMsg(c) ==
    LET forward == IF routed THEN <<>> ELSE <<Call("forward_msg", c)>>
        refuse == Guarded("log", <<>>) \o <<Call("conn_send_msg", c)>>
    IN  IF status[c] # "COMPLETE" THEN {refuse}
        ELSE {refuse, forward, Guarded("by_from", <<>>) \o forward}

\* process_logon_msg, for a LOGON.  An aircraft loses its logon first, an ATC
\* station only the identity it logs on with, if it has that.
ProcessLogonMsg(c) ==
    LET open == Guarded("auth", <<Call("auth_sess_open", c)>>)
    IN  IF status[c] \in {"STARTED", "COMPLETING"}
        THEN {<<Call("conn_send_msg", c)>>}
        ELSE {<<Call("conn_reset_logon", c)>> \o open} \cup
             (IF c \in table THEN {open} ELSE {})

ProcessLogoffMsg(c) ==
    IF status[c] # "COMPLETE" THEN {<<>>}
    ELSE {<<Call("conn_reset_logon", c)>>, <<>>}

CompleteLogon(c) == {Guarded(c, <<Call("logon_result", c)>>)}

\* complete_logon, inside conn->lock: granted or not.
LogonResult(c) ==
    LET grant == Guarded("by_from", <<Call("htbl_set", c)>>)
    IN  IF status[c] # "COMPLETING" THEN {<<>>}
        ELSE {done \o <<Call("conn_send_msg", c)>> :
                 done \in {grant, <<Call("clear_logon", c)>>}}

\* auth_worker calls logon_done_cb unless the session was killed.
AuthDone(c) ==
    {IF session[c] = "killed" THEN <<>>
     ELSE Guarded(c, <<Call("logon_done_cb", c)>>)}

Bodies(f, c) ==
    CASE f = "conn_send_buf"      -> ConnSendBuf(c)
      [] f = "conn_send_msg"      -> ConnSendMsg(c)
      [] f = "conn_send_end_svc"  -> ConnSendEndSvc(c)
      [] f = "conn_reset_logon"   -> ConnResetLogon(c)
      [] f = "remove_idents"      -> RemoveIdents(c)
      [] f = "kill_session"       -> KillSession(c)
      [] f = "forward_msg"        -> ForwardMsgCb(c)
      [] f = "forward_to_each"    -> ForwardToEach
      [] f = "queued_to_each"     -> QueuedToEach
      [] f = "conn_process_msg"   -> ConnProcessMsg(c)
      [] f = "process_logon_msg"  -> ProcessLogonMsg(c)
      [] f = "process_logoff_msg" -> ProcessLogoffMsg(c)
      [] f = "complete_logon"     -> CompleteLogon(c)
      [] f = "logon_result"       -> LogonResult(c)
      [] f = "auth_done"          -> AuthDone(c)

CallFunction(t, f, c) ==
    /\ todo[t] # <<>> /\ Head(todo[t]) = Call(f, c)
    /\ f \in Compound
    /\ \E body \in Bodies(f, c) : todo' = [todo EXCEPT ![t] = body \o Tail(@)]
    /\ UNCHANGED <<owner, depth, table, status, session, routed>>

Effect(t, f, c) ==
    /\ todo[t] # <<>> /\ Head(todo[t]) = Call(f, c)
    /\ f \in Simple
    /\ todo' = [todo EXCEPT ![t] = Tail(@)]
    /\ table' = CASE f = "htbl_set" -> table \cup {c}
                  [] f = "conns_by_from_remove" -> table \ {c}
                  [] OTHER -> table
    /\ status' = [status EXCEPT ![c] =
                     CASE f = "clear_logon" -> "NONE"
                       [] f = "auth_sess_open" -> "STARTED"
                       [] f = "logon_done_cb" -> "COMPLETING"
                       [] f = "htbl_set" -> "COMPLETE"
                       [] OTHER -> @]
    /\ session' = [session EXCEPT ![c] =
                      CASE f = "auth_sess_open" -> "running"
                        [] f = "auth_sess_kill" /\ @ = "running" -> "killed"
                        [] f = "session_ends" -> "none"
                        [] OTHER -> @]
    /\ UNCHANGED <<owner, depth, routed>>

-----------------------------------------------------------------------------
(* What the threads do. *)

Start(t, script) ==
    /\ todo[t] = <<>>
    /\ todo' = [todo EXCEPT ![t] = script]
    /\ UNCHANGED <<owner, depth, table, status, session, routed>>

ListLock(c) == IF c \in TcpConns THEN "tcp" ELSE "lws"

\* conn_read_input and handle_lws_input.  (One session at a time is run for
\* a connection: a LOGON comes when the last worker has finished.)
ReadInput(c) ==
    \E f \in {"conn_process_msg", "process_logon_msg", "process_logoff_msg"} :
        /\ f = "process_logon_msg" => session[c] = "none"
        /\ Start(Main, Guarded(ListLock(c), Guarded(c, <<Call(f, c)>>)))

\* close_conn, by the thread that serves the connection.
CloseConn(c) ==
    Start(IF c \in TcpConns THEN Main ELSE LwsWorker,
          Guarded(ListLock(c), <<Call("conn_reset_logon", c)>>))

CompleteLogons ==
    Start(Main, Guarded("tcp", Each("complete_logon", TcpConns))
                \o Guarded("lws", Each("complete_logon", LwsConns)))

\* handle_queued_msgs, for one message.
HandleQueuedMsg(c) == Start(Main, Guarded("by_from", <<Call("queued_to_each", c)>>))

\* cpdlc_lws_cb: input is appended, output written.
LwsInputOutput(c) == Start(LwsWorker, Guarded(c, <<>>))

RouterProc(t, c) == routed /\ Start(t, <<Call("forward_msg", c)>>)

AuthWorker(c) ==
    /\ session[c] # "none"
    /\ Start(<<"auth_worker", c>>,
             Guarded("auth", <<Call("auth_done", c), Call("session_ends", c)>>))

Proceed(t) ==
    \/ \E l \in Locks : MutexEnter(t, l) \/ MutexExit(t, l)
    \/ \E c \in Conns : \/ \E f \in Compound : CallFunction(t, f, c)
                        \/ \E f \in Simple : Effect(t, f, c)

Next ==
    \/ \E t \in Threads : Proceed(t)
    \/ \E c \in Conns : ReadInput(c) \/ CloseConn(c) \/ AuthWorker(c)
                         \/ HandleQueuedMsg(c)
    \/ \E c \in LwsConns : LwsInputOutput(c)
    \/ \E t \in Routers, c \in Conns : RouterProc(t, c)
    \/ CompleteLogons

Spec == Init /\ [][Next]_vars

\* Threads run, and a mutex that is free again and again is had some time.
Fairness == \A t \in Threads : SF_vars(Proceed(t))

FairSpec == Spec /\ Fairness

-----------------------------------------------------------------------------

WaitsFor(t, l) == Wants(t, l) /\ owner[l] \notin {t, Nobody}

\* Threads that wait for one another, in a circle.
Deadlocked(ts) ==
    /\ ts # {}
    /\ \A t \in ts : \E l \in Locks : WaitsFor(t, l) /\ owner[l] \in ts

\* The list locks, the log's lock and the lock of the table never deadlock
\* among themselves: whenever threads wait for one another in a circle, one
\* of them waits for the lock of a connection.
DeadlocksNeedAConnection ==
    \A ts \in SUBSET Threads :
        Deadlocked(ts) => \E t \in ts, c \in Conns : WaitsFor(t, c)

\* A logon status changes only inside that connection's lock, the table only
\* inside conns_by_from_lock and a session only inside the lock of auth.c,
\* whichever of the threads makes the change and however deep in its calls.
ChangesAreGuarded ==
    [][\A t \in Threads : todo'[t] # todo[t] =>
          /\ table' # table => owner["by_from"] = t
          /\ session' # session => owner["auth"] = t
          /\ \A c \in Conns : status'[c] # status[c] => owner[c] = t]_vars

Killing(t) == Wants(t, "auth") /\ \E c \in Conns :
                 Len(todo[t]) > 1 /\ todo[t][2] = Call("auth_sess_kill", c)

\* "If the session is still in progress, it is marked as `killed'.  This
\* will tell the session to terminate early": auth_sess_kill comes to an end.
KillMarksTheSession == \A t \in Threads : Killing(t) ~> ~Killing(t)
=============================================================================
