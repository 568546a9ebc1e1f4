------------------------------- MODULE Session -------------------------------
(***************************************************************************)
(* An aircraft's session: the client library of module ClientLink between  *)
(* the FANS box that drives it (src/fans/fans_logon_status.c and the       *)
(* periodic fans_update of src/fans/fans.c) and the server at the other    *)
(* end of the socket (src/cpdlcd/cpdlcd.c), reduced to what one connection *)
(* sees of it.                                                             *)
(*                                                                         *)
(* The box runs on the application's thread.  It asks the client for its   *)
(* status with one call and acts on the answer with another, so the status *)
(* may have changed in between: each of its reactions is two steps.        *)
(***************************************************************************)
EXTENDS ClientLink

CONSTANTS
    MaxKeys,        \* bound: how often the pilot presses LSK R5
    MaxMsgs,        \* bound: messages the aircraft and the stations send
    MaxCloses,      \* bound: connections the server closes
    MaxErrors,      \* bound: error messages the server sends
    QueueFull       \* the server may be unable to store a message

ASSUME SessionAssumption ==
    /\ {MaxKeys, MaxMsgs, MaxCloses, MaxErrors} \subseteq Nat
    /\ QueueFull \in BOOLEAN

VARIABLES
    srv,            \* the server's connection: its logon status, `to' and, as history,
                    \* the station whose END SERVICE ended the last logon
    box,            \* what the box is about to do, and the station it logs on to
    entered,        \* history: the stations the pilot logged on to
    named,          \* history: <<s, t>> when station s named t in a UM160
    early,          \* history: a logon was requested over another one
    left            \* what is left of the bounds

vars == <<linkVars, srv, box, entered, named, early, left>>

LoggedOff == [st |-> "none", to |-> None, by |-> None]
BoxSteps == {"idle", "logon", "logoff", "late", "fail"}

TypeOK ==
    /\ pc \in Pcs /\ status \in Statuses
    /\ {started, failure, sock, session, handshaken, wantOut, newMsgs, fault, peer}
         \subseteq BOOLEAN
    /\ addrs \in 0..Addresses
    /\ logon \in [do: BOOLEAN, to: Stations \cup {None}, nda: Stations \cup {None}]
    /\ sending \in Seq(OutMsg) /\ hand \in OutMsg \cup {None}
    /\ nextTok \in Nat /\ sent \subseteq Nat /\ keepalive \in Nat \cup {None}
    /\ inbox \in Seq(InMsg) /\ up \in Seq(OutMsg) /\ down \in Seq(InMsg)
    /\ srv \in [st: {"none", "started", "complete"},
                to: Stations \cup {None}, by: Stations \cup {None}]
    /\ box \in [to: Stations \cup {None}, pc: BoxSteps]

Init ==
    /\ LinkInit
    /\ srv = LoggedOff
    /\ box = [to |-> None, pc |-> "idle"]
    /\ entered = {} /\ named = {} /\ early = FALSE
    /\ left = [keys |-> MaxKeys, msgs |-> MaxMsgs,  closes |-> MaxCloses, errors |-> MaxErrors]

\* A step of the client.  The server forgets a connection that is closed.
Client(A) ==
    /\ A
    /\ srv' = IF peer' THEN srv ELSE LoggedOff
    /\ UNCHANGED <<entered, named, early>>

-----------------------------------------------------------------------------
(* The box.                                                                *)

\* Mutant: only a LOGON that is not answered is timed out.
AwaitsAnswer == {"IN_PROG"}

InProgress == {"CONNECTING", "HANDSHAKING", "IN_PROG"}

\* LSK R5, with station s entered: can_send_logon decides between a logon and
\* a logoff.
PressR5(s) ==
    /\ box.pc = "idle" /\ LockFree /\ left.keys > 0
    /\ box' = IF status \in {"NONE", "AVAIL"} THEN [pc |-> "logon", to |-> s]
                                              ELSE [pc |-> "logoff", to |-> None]
    /\ left' = [left EXCEPT !.keys = @ - 1]
    /\ UNCHANGED <<linkVars, srv, entered, named, early>>

\* update_logon_timeout: the logon has taken longer than LOGON_TIMEOUT, or has
\* failed.
UpdateLogonTimeout ==
    /\ box.pc = "idle" /\ LockFree
    /\ \/ status \in InProgress /\ box' = [box EXCEPT !.pc = "late"]
       \/ failure /\ box' = [box EXCEPT !.pc = "fail"]
    /\ UNCHANGED <<linkVars, srv, entered, named, early, left>>

\* What the box does on what it has read.
React ==
    /\ \/ /\ box.pc = "logon" /\ cpdlc_client_logon(box.to)
          /\ entered' = entered \cup {box.to}
          /\ early' = (early \/ logon.do \/ status \notin {"NONE", "AVAIL"})
       \/ /\ box.pc \in {"logoff", "late"} /\ cpdlc_client_logoff
          /\ UNCHANGED <<entered, early>>
       \/ /\ box.pc = "fail" /\ cpdlc_client_reset_logon_failure
          /\ UNCHANGED <<entered, early>>
    /\ box' = [pc |-> "idle", to |-> None]
    /\ UNCHANGED <<srv, named, left>>

\* The message list sends, asks after and collects messages.
SendMsg ==
    /\ left.msgs > 0
    /\ Client(cpdlc_client_send_msg("msg"))
    /\ left' = [left EXCEPT !.msgs = @ - 1]
    /\ UNCHANGED box

AskStatus ==
    /\ \E tok \in sent : Client(cpdlc_client_get_msg_status(tok))
    /\ UNCHANGED <<box, left>>

Collect ==
    /\ Client(cpdlc_client_recv_msg)
    /\ UNCHANGED <<box, left>>

-----------------------------------------------------------------------------
(* The server's end of the connection.                                     *)

Answer(kind) == down' = Append(down, [kind |-> kind, from |-> None, arg |-> None])

\* send_error_msg never sets a FROM.
SendError ==
    /\ left.errors > 0
    /\ left' = [left EXCEPT !.errors = @ - 1]
    /\ Answer("error")

ServerKeeps ==
    /\ UNCHANGED <<pc, started, status, failure, addrs, sock, session, handshaken, logon,
                   inbox, newMsgs, queueVars, box, entered, early>>

\* process_logon_msg for a LOGON.
SrvLogon(m) ==
    /\ m.kind = "logon"
    /\ \/ srv.st = "started" /\ SendError /\ UNCHANGED srv
       \/ /\ srv.st # "started" /\ srv' = [st |-> "started", to |-> m.to, by |-> None]
          /\ UNCHANGED <<down, left>>

\* conn_process_msg before the logon is complete.
SrvRefuses(m) ==
    /\ m.kind # "logon" /\ srv.st # "complete"
    /\ SendError
    /\ UNCHANGED srv

\* conn_process_msg once it is: the connection's own requests, and messages to
\* be forwarded, which must be for the station the aircraft is logged on to
\* unless they are NOT CURRENT DATA AUTHORITY.
SrvAccepts(m) ==
    /\ m.kind # "logon" /\ srv.st = "complete" /\ UNCHANGED srv
    /\ LET to == IF m.to = None THEN srv.to ELSE m.to
       IN  \/ m.kind = "ping" /\ Answer("pong") /\ UNCHANGED left
           \/ m.kind = "version" /\ UNCHANGED <<down, left>>
           \/ m.kind = "msg" /\ to = srv.to /\ UNCHANGED <<down, left>>
           \/ m.kind = "msg" /\ (to # srv.to \/ QueueFull) /\ SendError
           \/ m.kind = "notcda" /\ UNCHANGED <<down, left>>
           \/ m.kind = "notcda" /\ QueueFull /\ SendError

SrvReceives ==
    /\ ~fault /\ peer /\ up # <<>>
    /\ LET m == Head(up) IN SrvLogon(m) \/ SrvRefuses(m) \/ SrvAccepts(m)
    /\ up' = Tail(up)
    /\ ServerKeeps /\ UNCHANGED <<peer, named>>

\* complete_logon.
SrvDecides ==
    /\ ~fault /\ peer /\ srv.st = "started"
    /\ \/ srv' = [srv EXCEPT !.st = "complete"] /\ Answer("success")
       \/ srv' = LoggedOff /\ Answer("failure")
    /\ ServerKeeps /\ UNCHANGED <<up, peer, named, left>>

\* forward_msg_cb and conn_send_msg: a station's message reaches the aircraft
\* while the server lists it; END SERVICE ends the aircraft's logon, whichever
\* station sent it.
SrvForwards(s, kind, arg) ==
    /\ ~fault /\ peer /\ srv.st = "complete" /\ left.msgs > 0
    /\ kind = "nda" <=> arg # None
    /\ down' = Append(down, [kind |-> kind, from |-> s, arg |-> arg])
    /\ srv' = IF kind = "end" THEN [LoggedOff EXCEPT !.by = s] ELSE srv
    /\ named' = IF kind = "nda" THEN named \cup {<<s, arg>>} ELSE named
    /\ left' = [left EXCEPT !.msgs = @ - 1]
    /\ ServerKeeps /\ UNCHANGED <<up, peer>>

\* close_conn, for whatever reason; what was sent before still arrives.
SrvCloses ==
    /\ ~fault /\ peer /\ left.closes > 0
    /\ peer' = FALSE /\ up' = <<>> /\ srv' = LoggedOff
    /\ left' = [left EXCEPT !.closes = @ - 1]
    /\ ServerKeeps /\ UNCHANGED <<down, named>>

Server ==
    \/ SrvReceives \/ SrvDecides \/ SrvCloses
    \/ \E s \in Stations, arg \in Stations \cup {None} :
          \E kind \in {"text", "end", "nda"} : SrvForwards(s, kind, arg)

-----------------------------------------------------------------------------
ClientWorks == Client(Worker) /\ UNCHANGED <<box, left>>

\* Past the damage of a list the program's behaviour is undefined.
Undefined == fault /\ UNCHANGED vars

Next ==
    \/ ClientWorks
    \/ (\E s \in Stations : PressR5(s)) \/ UpdateLogonTimeout \/ React
    \/ SendMsg \/ AskStatus \/ Collect
    \/ Server
    \/ Undefined

Spec == Init /\ [][Next]_vars

\* The worker runs.  fans_update runs over and over, so a logon that takes too
\* long is noticed and acted upon whenever the client's lock is to be had.
\* Nothing is assumed of the network or the server.
FairSpec ==
    /\ Spec
    /\ WF_vars(ClientWorks)
    /\ SF_vars(UpdateLogonTimeout) /\ SF_vars(React)

-----------------------------------------------------------------------------
(* Properties.                                                             *)

\* The messages queued, the one in the worker's hand first.
Outgoing == (IF hand = None THEN <<>> ELSE <<hand>>) \o sending

\* Messages wait in the order in which their tokens were given out, and none
\* between the oldest that waits and the newest is missing, although the worker
\* takes a message off the list and puts it back (do_msg_output).
InTurn ==
    ~fault => \A i \in DOMAIN Outgoing :
                 Outgoing[i].tok = nextTok - 1 - Len(Outgoing) + i

\* What the worker and the calls assert or rely on: which of socket, TLS
\* session and logon target exist in which state of the link, and that a
\* client without a worker holds nothing of an earlier link.
LinkIsConsistent ==
    /\ status \in {"CONNECTING", "HANDSHAKING"} => sock
    /\ status \in LinkUp => sock /\ (Encrypted <=> handshaken)
    /\ handshaken => session
    /\ pc \in {"start", "resolve"} => status = "NONE"
    /\ ~started => /\ pc = "off" /\ status = "NONE"
                   /\ ~sock /\ ~session /\ ~peer
                   /\ Outgoing = <<>> /\ sent = {} /\ inbox = <<>>
                   /\ logon.to = None /\ logon.nda = None

\* The station the aircraft takes its clearances from is one the pilot logged
\* on to, or one that such a station named in a NEXT DATA AUTHORITY message
\* (handle_nda, handle_end_svc, send_logon), never one that some other station
\* put forward.
AuthorityWasNamed ==
    /\ logon.nda # None => <<logon.to, logon.nda>> \in named /\ logon.nda # logon.to
    /\ logon.to # None => \/ logon.to \in entered
                          \/ \E s \in Stations : <<s, logon.to>> \in named

\* Nothing under way between client and server can still change their minds
\* about the logon.
Settled ==
    /\ peer /\ ~logon.do /\ ~fault
    /\ \A i \in DOMAIN Outgoing : Outgoing[i].kind # "logon"
    /\ \A i \in DOMAIN up : up[i].kind # "logon"
    /\ \A i \in DOMAIN down : down[i].kind \notin {"success", "failure", "end"}
    /\ srv.st # "started"

\* "LOGON complete, ready for operation" (cpdlc_client.h): client and server
\* agree on whether the aircraft is logged on and to whom, in every settled
\* state in which no logon was requested over another one.  They part in one
\* way only: the server has ended the logon for the END SERVICE of a station
\* that the client takes no orders from.
Agreement ==
    Settled /\ ~early =>
        /\ status = "AVAIL" => srv.st = "none"
        /\ status = "COMPLETE" => \/ srv.st = "complete" /\ srv.to = logon.to
                                  \/ srv.st = "none" /\ srv.by \notin {None, logon.to}

\* A logon comes to an end: it succeeds, fails, or the box gives it up.
AttemptEnds ==
    pc = "start" ~> \/ status = "COMPLETE" \/ pc = "off" \/ fault
                    \/ status = "AVAIL" /\ ~logon.do

\* A logoff takes the link down once it is established.
LogoffIsHeeded ==
    (pc \in {"poll", "rx", "tx", "after", "cb"} /\ status = "NONE") ~> (pc = "off" \/ fault)

\* "You simply pass in CPDLC messages and the client takes care of serializing
\* them over the wire and sending them to the server" (cpdlc_client.c): sending
\* messages does not damage the list of outgoing ones.
QueueIsSound == ~fault
=============================================================================
