----------------------------- MODULE StoreForward -----------------------------
(***************************************************************************)
(* How cpdlcd forwards messages: the checks of conn_process_msg, the       *)
(* optional routing by RPC on a pool of threads (msg_router.c), immediate  *)
(* delivery or storing by forward_msg_cb, the sender quota of msgquota.c,  *)
(* and the sweep of handle_queued_msgs over the stored messages.           *)
(*                                                                         *)
(* The main thread is in one of three phases of its loop: reading input,   *)
(* completing logons, sweeping the queue.  (Closing of connections at the  *)
(* end of the loop is counted with the input phase of the next turn.)      *)
(* Router threads and the libwebsockets thread run beside it.  Everything  *)
(* between the lock and the unlock of conns_by_from_lock is one action.    *)
(***************************************************************************)
EXTENDS Registry

CONSTANTS LwsConns,    \* those of Conns that belong to libwebsockets
          NoIdent,     \* the empty string
          AUTO,        \* the string AUTO
          Logons,      \* the logons the authenticator grants
          Inputs,      \* the messages a peer may send
          QueueMax,    \* queued_msg_max_bytes; 0 means no limit
          QuotaMax,    \* msgquota_max
          Routed,      \* is the RPC router configured?
          MaxThreads,  \* router threads
          MaxMsgs      \* bound: messages forwarded

Targets == Idents \cup {NoIdent}
Kinds == {"text", "not_cda", "end_svc"}
Input == [kind : Kinds, dl : BOOLEAN, to : Targets, from : Targets \cup {AUTO},
          bytes : Nat \ {0}]

ASSUME ConstsAssumption ==
    /\ NoIdent \notin Idents /\ AUTO \notin Targets
    /\ LwsConns \subseteq Conns
    /\ Logons \subseteq [id : Idents, is_atc : BOOLEAN, to : Targets]
    /\ \A g \in Logons : g.is_atc \/ g.to # NoIdent
    /\ Inputs \subseteq Input
    /\ \A m \in Inputs : /\ m.kind = "not_cda" => m.dl
                         /\ m.kind = "end_svc" => ~m.dl
    /\ QueueMax \in Nat /\ QuotaMax \in Nat \ {0}
    /\ Routed \in BOOLEAN
    /\ MaxThreads \in Nat \ {0} /\ MaxMsgs \in Nat

VARIABLES station,           \* is_atc and to of each conn_t
          phase,             \* where the main thread is
          count,             \* messages that have entered forward_msg
          tasks,             \* those msg_router has not passed on yet
          queued_msgs,       \* the list of queued_msg_t
          queued_msg_bytes,
          quota,             \* msgquota.c: callsign -> bytes
          old,               \* queued messages beyond QUEUED_MSG_TIMEOUT
          due,               \* the same, as of handle_queued_msgs' `now'
          qmsg, next_qmsg,   \* the sweep's cursors; 0 is NULL, -1 not read yet
          got,               \* history: callsign -> messages sent to it
          told,              \* history: refused, and the sender told so
          lost               \* history: expired, discarded, nobody to tell

store == <<queued_msgs, queued_msg_bytes, quota>>
sweep == <<due, qmsg, next_qmsg>>
fates == <<got, told, lost>>
vars == <<registry, station, phase, count, tasks, store, old, sweep, fates>>

Message == [id : Nat \ {0}, from : Idents, to : Idents, bytes : Nat \ {0},
            end_svc : BOOLEAN, is_atc : BOOLEAN, is_lws : BOOLEAN]
QueuedMsg == [msg : Message, is_atc : BOOLEAN]

NoStation == [is_atc |-> FALSE, to |-> NoIdent]

Queued(id) == \E i \in DOMAIN queued_msgs : queued_msgs[i].msg.id = id
QueuedIds == {queued_msgs[i].msg.id : i \in DOMAIN queued_msgs}

TypeOK ==
    /\ live \subseteq Conns
    /\ conns_by_from \in [Idents -> Seq(Conns)]
    /\ station \in [Conns -> [is_atc : BOOLEAN, to : Targets]]
    /\ phase \in {"input", "complete", "queued"}
    /\ count \in 0 .. MaxMsgs
    /\ tasks \in Seq(Message)
    /\ queued_msgs \in Seq(QueuedMsg)
    /\ queued_msg_bytes \in Nat
    /\ quota \in [Idents -> Nat]
    /\ old \subseteq QueuedIds
    /\ due \subseteq QueuedIds
    /\ qmsg \in QueuedIds \cup {0}
    /\ next_qmsg \in QueuedIds \cup {0, -1}
    /\ got \in [Idents -> Seq(Message)]
    /\ told \subseteq 1 .. count
    /\ lost \subseteq 1 .. count

Init ==
    /\ RegistryInit
    /\ station = [c \in Conns |-> NoStation]
    /\ phase = "input"
    /\ count = 0
    /\ tasks = <<>>
    /\ queued_msgs = <<>>
    /\ queued_msg_bytes = 0
    /\ quota = [id \in Idents |-> 0]
    /\ old = {} /\ due = {}
    /\ qmsg = 0 /\ next_qmsg = -1
    /\ got = [id \in Idents |-> <<>>]
    /\ told = {} /\ lost = {}

-----------------------------------------------------------------------------
(* Connections.  The logon itself is the business of LogonServer. *)

\* Without a router the main thread passes its message on itself.
MainIsFree == Routed \/ tasks = <<>>

\* The main thread holds conns_lws_lock while it works on LWS input.
LwsLocked == ~MainIsFree /\ Head(tasks).is_lws

rest == <<phase, count, tasks, store, old, sweep, fates>>

OpenConn(c) ==
    /\ c \in LwsConns \/ (phase = "input" /\ MainIsFree)
    /\ c \in LwsConns => ~LwsLocked
    /\ Open(c)
    /\ UNCHANGED <<station, rest>>

\* complete_logons; only an ATC station adds to the identities it has.
LogOnConn(c, g) ==
    /\ phase = "complete"
    /\ station[c].is_atc \/ LoggedOnAs(c) = {}
    /\ LogOn(c, g.id)
    /\ station' = [station EXCEPT ![c] = [is_atc |-> g.is_atc, to |-> g.to]]
    /\ UNCHANGED rest

\* process_logon_msg: one identity of an ATC station, all of an aircraft's.
LogOffConn(c, ids) ==
    /\ phase = "input" /\ MainIsFree
    /\ station[c].is_atc \/ ids = LoggedOnAs(c)
    /\ LogOff(c, ids)
    /\ station' = IF ids = LoggedOnAs(c)
                  THEN [station EXCEPT ![c] = NoStation] ELSE station
    /\ UNCHANGED rest

ShutConn(c) ==
    /\ IF c \in LwsConns THEN ~LwsLocked ELSE phase = "input" /\ MainIsFree
    /\ Shut(c)
    /\ station' = [station EXCEPT ![c] = NoStation]
    /\ UNCHANGED rest

-----------------------------------------------------------------------------
(* Messages come in. *)

Recipient(c, m) == IF m.to # NoIdent THEN m.to ELSE station[c].to

\* Mutant: nobody checks that there is a recipient.
AdmittedWithoutTo(c, m) ==
    LET s == station[c]
    IN  /\ LoggedOnAs(c) # {}
        /\ s.is_atc \/ m.to \in {NoIdent, s.to} \/ m.kind = "not_cda"
        /\ m.dl <=> ~s.is_atc
        /\ s.is_atc /\ m.from = AUTO => conns_by_from[Recipient(c, m)] # <<>>

\* conn_process_msg gets as far as forward_msg.  Its early returns answer
\* the sender or, for a DM73, nobody, and change nothing that is kept here;
\* a connection that is busy with a further logon is refused as well.
Admitted(c, m) ==
    LET s == station[c]
    IN  /\ LoggedOnAs(c) # {}
        /\ s.is_atc \/ m.to \in {NoIdent, s.to} \/ m.kind = "not_cda"
        /\ Recipient(c, m) # NoIdent
        /\ m.dl <=> ~s.is_atc
        /\ s.is_atc /\ m.from = AUTO => conns_by_from[Recipient(c, m)] # <<>>

\* msg_auto_assign_from, then forward_msg: an ATC station's own FROM= is
\* kept, anybody else's is replaced by an identity of the connection.
Stamps(c, m) ==
    LET given == IF m.from = AUTO
                 THEN station[Last(conns_by_from[Recipient(c, m)])].to
                 ELSE m.from
    IN  IF ~station[c].is_atc THEN LoggedOnAs(c)
        ELSE IF given = NoIdent THEN LoggedOnAs(c)
        ELSE {given}

\* conn_process_msg up to the call of msg_router, or its taskq_submit.
ConnProcessMsg(c, m) ==
    /\ phase = "input" /\ MainIsFree
    /\ count < MaxMsgs
    /\ Admitted(c, m)
    /\ \E from \in Stamps(c, m) :
          tasks' = Append(tasks, [id      |-> count + 1,
                                  from    |-> from,
                                  to      |-> Recipient(c, m),
                                  bytes   |-> m.bytes,
                                  end_svc |-> m.kind = "end_svc",
                                  is_atc  |-> station[c].is_atc,
                                  is_lws  |-> c \in LwsConns])
    /\ count' = count + 1
    /\ UNCHANGED <<registry, station, phase, store, old, sweep, fates>>

-----------------------------------------------------------------------------
(* Messages go out. *)

\* msgquota_incr.
WithinQuota(m) == quota[m.from] + m.bytes <= QuotaMax
QuotaIncr(m, is_atc) ==
    IF is_atc THEN quota ELSE [quota EXCEPT ![m.from] = @ + m.bytes]
\* Mutant: the quota is never given back.
QuotaKept(q) == quota

\* msgquota_decr.
QuotaDecr(q) ==
    IF q.is_atc THEN quota ELSE [quota EXCEPT ![q.msg.from] = @ - q.msg.bytes]

\* Mutant: only the sender's quota counts.
FitsAnyQueue(m, is_atc) == is_atc \/ WithinQuota(m)

\* store_msg's reasons to return false.
Fits(m, is_atc) ==
    /\ QueueMax # 0 => queued_msg_bytes + m.bytes <= QueueMax
    /\ is_atc \/ WithinQuota(m)

\* Mutant: a message is put at the head of the queue.
StoreAtHead(m, is_atc) ==
    /\ Fits(m, is_atc)
    /\ queued_msgs' = <<[msg |-> m, is_atc |-> is_atc]>> \o queued_msgs
    /\ queued_msg_bytes' = queued_msg_bytes + m.bytes
    /\ quota' = QuotaIncr(m, is_atc)

StoreMsg(m, is_atc) ==
    /\ Fits(m, is_atc)
    /\ queued_msgs' = Append(queued_msgs, [msg |-> m, is_atc |-> is_atc])
    /\ queued_msg_bytes' = queued_msg_bytes + m.bytes
    /\ quota' = QuotaIncr(m, is_atc)

\* forward_msg_cb on a recipient that is logged on: conn_send_msg to each
\* of its connections, which an END SERVICE logs off.
Deliver(m) ==
    LET conns == Range(conns_by_from[m.to])
    IN  /\ conns # {}
        /\ got' = [got EXCEPT ![m.to] = Append(@, m)]
        /\ IF m.end_svc
           THEN /\ conns_by_from' = Without(conns, Idents)
                /\ station' = [c \in Conns |-> IF c \in conns THEN NoStation
                                                             ELSE station[c]]
           ELSE UNCHANGED <<conns_by_from, station>>
        /\ UNCHANGED <<live, store, told, lost>>

\* forward_msg_cb, otherwise: store_msg, which is told that no sender is an
\* ATC station, or send_error_msg_to the connections of the sender.
StoreOrRefuse(m) ==
    /\ conns_by_from[m.to] = <<>>
    /\ \/ StoreMsg(m, FALSE) /\ UNCHANGED <<told, lost>>
       \/ /\ ~Fits(m, FALSE)
          /\ IF conns_by_from[m.from] # <<>>
             THEN told' = told \cup {m.id} /\ UNCHANGED lost
             ELSE lost' = lost \cup {m.id} /\ UNCHANGED told
          /\ UNCHANGED store
    /\ UNCHANGED <<registry, station, got>>

ForwardMsgCb(m) == Deliver(m) \/ StoreOrRefuse(m)

\* msg_router without a router: the main thread calls forward_msg_cb.
PassThrough ==
    /\ ~Routed
    /\ tasks # <<>>
    /\ ForwardMsgCb(Head(tasks))
    /\ tasks' = Tail(tasks)
    /\ UNCHANGED <<phase, count, old, sweep>>

\* Mutant: the oldest task is freed, not the one that is done.
RouterFreesHead(i) ==
    /\ Routed
    /\ i \in DOMAIN tasks /\ i <= MaxThreads
    /\ \/ \E to \in Idents : ForwardMsgCb([tasks[i] EXCEPT !.to = to])
       \/ /\ lost' = lost \cup {tasks[i].id}
          /\ UNCHANGED <<registry, station, store, got, told>>
    /\ tasks' = Tail(tasks)
    /\ UNCHANGED <<phase, count, old, sweep>>

\* router_proc of one of the threads, which took their tasks in order: the
\* RPC names the recipient, or fails and the message is discarded.
RouterProc(i) ==
    /\ Routed
    /\ i \in DOMAIN tasks /\ i <= MaxThreads
    /\ \/ \E to \in Idents : ForwardMsgCb([tasks[i] EXCEPT !.to = to])
       \/ /\ lost' = lost \cup {tasks[i].id}
          /\ UNCHANGED <<registry, station, store, got, told>>
    /\ tasks' = RemoveAt(tasks, i)
    /\ UNCHANGED <<phase, count, old, sweep>>

-----------------------------------------------------------------------------
(* The main loop and the sweep over the queue. *)

PositionOf(id) == CHOOSE i \in DOMAIN queued_msgs : queued_msgs[i].msg.id = id
IdAt(i) == IF i \in DOMAIN queued_msgs THEN queued_msgs[i].msg.id ELSE 0

\* poll_sockets and handle_lws_input are done.
EndInput ==
    /\ phase = "input" /\ MainIsFree
    /\ phase' = "complete"
    /\ UNCHANGED <<registry, station, count, tasks, store, old, sweep, fates>>

\* handle_queued_msgs begins: the time and the head of the list.
StartSweep ==
    /\ phase = "complete"
    /\ phase' = "queued"
    /\ due' = old
    /\ qmsg' = IdAt(1)
    /\ UNCHANGED <<registry, station, count, tasks, store, old, next_qmsg, fates>>

\* Mutant: the successor of the successor.
SweepSkipsOne ==
    /\ phase = "queued"
    /\ qmsg # 0 /\ next_qmsg = -1
    /\ next_qmsg' = IdAt(PositionOf(qmsg) + 2)
    /\ UNCHANGED <<registry, station, phase, count, tasks, store, old, due, qmsg,
                   fates>>

\* The next message is looked up before the lock is taken: router threads
\* may append behind it in the meantime.
SweepNext ==
    /\ phase = "queued"
    /\ qmsg # 0 /\ next_qmsg = -1
    /\ next_qmsg' = IdAt(PositionOf(qmsg) + 1)
    /\ UNCHANGED <<registry, station, phase, count, tasks, store, old, due, qmsg,
                   fates>>

\* dequeue_msg
DequeueMsg(q) ==
    /\ queued_msgs' = RemoveAt(queued_msgs, PositionOf(qmsg))
    /\ queued_msg_bytes' = queued_msg_bytes - q.msg.bytes
    /\ quota' = QuotaDecr(q)
    /\ old' = old \ {qmsg}
    /\ due' = due \ {qmsg}

\* Mutant: the age of a message is not looked at.
SweepDeliversOnly ==
    LET q == queued_msgs[PositionOf(qmsg)]
    IN  /\ phase = "queued"
        /\ qmsg # 0 /\ next_qmsg # -1
        /\ \/ /\ conns_by_from[q.msg.to] # <<>>
              /\ got' = [got EXCEPT ![q.msg.to] = Append(@, q.msg)]
              /\ DequeueMsg(q)
           \/ /\ conns_by_from[q.msg.to] = <<>>
              /\ UNCHANGED <<store, old, due, got>>
        /\ qmsg' = next_qmsg
        /\ next_qmsg' = -1
        /\ UNCHANGED <<registry, station, phase, count, tasks, told, lost>>

\* The body of handle_queued_msgs' loop: deliver, expire or leave.
SweepMsg ==
    LET q == queued_msgs[PositionOf(qmsg)]
    IN  /\ phase = "queued"
        /\ qmsg # 0 /\ next_qmsg # -1
        /\ \/ /\ conns_by_from[q.msg.to] # <<>>
              /\ got' = [got EXCEPT ![q.msg.to] = Append(@, q.msg)]
              /\ DequeueMsg(q)
              /\ UNCHANGED lost
           \/ /\ conns_by_from[q.msg.to] = <<>>
              /\ qmsg \in due
              /\ lost' = lost \cup {qmsg}
              /\ DequeueMsg(q)
              /\ UNCHANGED got
           \/ /\ conns_by_from[q.msg.to] = <<>>
              /\ qmsg \notin due
              /\ UNCHANGED <<store, old, due, got, lost>>
        /\ qmsg' = next_qmsg
        /\ next_qmsg' = -1
        /\ UNCHANGED <<registry, station, phase, count, tasks, told>>

EndSweep ==
    /\ phase = "queued"
    /\ qmsg = 0
    /\ phase' = "input"
    /\ due' = {}
    /\ UNCHANGED <<registry, station, count, tasks, store, old, qmsg,
                   next_qmsg, fates>>

\* QUEUED_MSG_TIMEOUT passes for the oldest message it had not passed for.
Age ==
    /\ \E i \in DOMAIN queued_msgs :
          /\ IdAt(i) \notin old
          /\ \A j \in 1 .. i - 1 : IdAt(j) \in old
          /\ old' = old \cup {IdAt(i)}
    /\ UNCHANGED <<registry, station, phase, count, tasks, store, sweep, fates>>

Next ==
    \/ \E c \in Conns :
          \/ OpenConn(c)
          \/ \E g \in Logons : LogOnConn(c, g)
          \/ \E ids \in {{id} : id \in Idents} \cup {LoggedOnAs(c)} :
                LogOffConn(c, ids)
          \/ ShutConn(c)
          \/ \E m \in Inputs : ConnProcessMsg(c, m)
    \/ PassThrough
    \/ \E i \in 1 .. MaxThreads : RouterProc(i)
    \/ EndInput
    \/ StartSweep
    \/ SweepNext
    \/ SweepMsg
    \/ EndSweep
    \/ Age

Spec == Init /\ [][Next]_vars

(***************************************************************************)
(* poll_sockets waits no longer than POLL_TIMEOUT, so the loop goes round; *)
(* an RPC ends within its timeout, so router threads get through their     *)
(* tasks; the clock runs.  Nothing is assumed of the stations.             *)
(***************************************************************************)
Fairness ==
    /\ WF_vars(PassThrough) /\ WF_vars(EndInput) /\ WF_vars(StartSweep)
    /\ WF_vars(SweepNext) /\ WF_vars(SweepMsg) /\ WF_vars(EndSweep)
    /\ WF_vars(RouterProc(1))
    /\ WF_vars(Age)

FairSpec == Spec /\ Fairness

-----------------------------------------------------------------------------
(* Safety. *)

Bytes == [i \in DOMAIN queued_msgs |-> queued_msgs[i].msg.bytes]
QuotaOf(id) ==
    {i \in DOMAIN queued_msgs : queued_msgs[i].msg.from = id /\ ~queued_msgs[i].is_atc}

\* The accounting of store_msg and dequeue_msg: the counters are the sums of
\* what is queued, in total and for each sender, and both limits hold.
QueueIsAccounted ==
    /\ queued_msg_bytes = SumFunction(Bytes)
    /\ QueueMax # 0 => queued_msg_bytes <= QueueMax
    /\ \A id \in Idents :
          /\ quota[id] = SumFunctionOnSet(Bytes, QuotaOf(id))
          /\ quota[id] <= QuotaMax

Ids(ms) == [i \in DOMAIN ms |-> ms[i].id]
IdsOf(ms) == Range(Ids(ms))

\* Every message that was let in is in exactly one place: with the router,
\* in the queue, delivered to one callsign, refused to its sender, or gone.
\* Nothing is lost, and nothing is delivered twice.
EveryMessageOnce ==
    LET places == <<IdsOf(tasks), QueuedIds, told, lost>>
        delivered == UNION {IdsOf(got[id]) : id \in Idents}
    IN  /\ 1 .. count = delivered \cup UNION Range(places)
        /\ \A i, j \in DOMAIN places : i # j => places[i] \cap places[j] = {}
        /\ \A i \in DOMAIN places : places[i] \cap delivered = {}
        /\ IsInjective(Ids(tasks))
        /\ \A i, j \in DOMAIN queued_msgs :
              queued_msgs[i].msg.id = queued_msgs[j].msg.id => i = j
        /\ \A a, b \in Idents : \A i \in DOMAIN got[a], j \in DOMAIN got[b] :
              got[a][i].id = got[b][j].id => a = b /\ i = j

\* Without a router, nothing waits for a station that is logged on once the
\* loop has come round to reading input again.
NothingWaitsForThePresent ==
    ~Routed /\ phase = "input" =>
        \A i \in DOMAIN queued_msgs : conns_by_from[queued_msgs[i].msg.to] = <<>>

\* The numbers of the messages stored for a callsign, oldest first.
MailboxOf(id) ==
    Chosen([i \in DOMAIN queued_msgs |-> queued_msgs[i].msg.id],
           {i \in DOMAIN queued_msgs : queued_msgs[i].msg.to = id})

-----------------------------------------------------------------------------
(* Liveness. *)

\* Every message is settled: it is delivered, refused, or dropped, at the
\* latest when QUEUED_MSG_TIMEOUT has passed.
MessagesAreSettled ==
    \A id \in 1 .. MaxMsgs :
        (id \in IdsOf(tasks) \cup QueuedIds) ~> (id \notin IdsOf(tasks) \cup QueuedIds)
=============================================================================
