----------------------------- MODULE ClientLink -----------------------------
(***************************************************************************)
(* The client library's link to the server (src/src/cpdlc_client.c): the   *)
(* background thread that connects, performs the TLS handshake, logs on    *)
(* and moves messages, and the calls that applications make into it from   *)
(* their own threads.                                                      *)
(*                                                                         *)
(* The client has one lock.  The worker holds it except where the code     *)
(* drops it: around getaddrinfo, poll, gnutls_handshake, the callbacks     *)
(* and, when a bit rate is simulated, before every read and write.  A step *)
(* of the worker runs from one such place to the next, or to the next      *)
(* message; an application's call is one step, possible whenever the       *)
(* worker does not hold the lock.                                          *)
(*                                                                         *)
(* The other end of the socket is left to the module that extends this     *)
(* one: it reads `up', appends to `down' and may close the socket.         *)
(***************************************************************************)
EXTENDS Integers, Sequences, FiniteSets

CONSTANTS
    Stations,       \* the ATC stations an aircraft can log on to
    None,           \* the NULL pointer and the empty string
    Addresses,      \* how many addresses the server's name resolves to
    Encrypted,      \* FALSE: unenc_local, no TLS and no keepalive
    Arinc622,       \* fmt_arinc622: confirm a logon with a version message
    Delay,          \* a bit rate is simulated in both directions
    MaxTokens       \* bound: no PING once this many tokens are given out

ASSUME LinkAssumption ==
    /\ None \notin Stations
    /\ Addresses \in Nat \ {0}
    /\ MaxTokens \in Nat
    /\ {Encrypted, Arinc622, Delay} \subseteq BOOLEAN

VARIABLES
    pc,             \* where the worker is; "off" when it does not exist
    started,        \* worker_started
    status,         \* logon_status
    failure,        \* logon_failure is not empty
    addrs,          \* the addresses left to try, from ai_cur on
    sock,           \* sock is valid
    session,        \* the TLS session exists
    handshaken,     \* handshake_completed
    logon,          \* logon.do_logon, logon.to and logon.nda
    sending,        \* outmsgbufs.sending
    hand,           \* the outgoing message do_msg_output took off the list
    wantOut,        \* POLLOUT was asked for
    sent,           \* the tokens in outmsgbufs.sent
    nextTok,        \* next_tok
    keepalive,      \* keepalive_token
    inbox,          \* inmsgbufs
    newMsgs,        \* new_msgs of the current iteration
    fault,          \* a list of outgoing messages has been damaged
    up, down,       \* what is under way in each direction of the socket
    peer            \* the other end has not closed the socket

linkVars == <<pc, started, status, failure, addrs, sock, session, handshaken,
              logon, sending, hand, wantOut, sent, nextTok, keepalive, inbox,
              newMsgs, fault, up, down, peer>>

queueVars == <<sending, hand, wantOut, sent, nextTok, keepalive, fault>>
netVars == <<up, down, peer>>

-----------------------------------------------------------------------------
Statuses == {"NONE", "CONNECTING", "HANDSHAKING", "AVAIL", "IN_PROG", "COMPLETE"}
LinkUp == {"AVAIL", "IN_PROG", "COMPLETE"}

OutKinds == {"logon", "msg", "version", "notcda", "ping"}
InKinds == {"success", "failure", "text", "end", "nda", "error", "pong"}

\* An outgoing message: what is queued and to whom it is addressed.
OutMsg == [tok: Nat, kind: OutKinds, to: Stations \cup {None}]

\* A message from the server; `arg' is the station a UM160 names.
InMsg == [kind: InKinds, from: Stations \cup {None}, arg: Stations \cup {None}]

Pcs == {"off", "start", "resolve", "conn", "tls", "top", "poll", "rx", "tx", "after", "cb"}

\* Only cpdlc_client_send_msg asks for a message to be tracked.
Tracked(m) == m.kind \in {"msg", "version"}

\* The worker is at a place where it has dropped the lock.
LockFree ==
    /\ ~fault
    /\ \/ pc \in {"off", "start", "resolve", "conn", "tls", "poll", "cb"}
       \/ Delay /\ pc \in {"rx", "tx"}

LinkInit ==
    /\ pc = "off" /\ started = FALSE
    /\ status = "NONE" /\ failure = FALSE
    /\ addrs = 0 /\ sock = FALSE /\ session = FALSE /\ handshaken = FALSE
    /\ logon = [do |-> FALSE, to |-> None, nda |-> None]
    /\ sending = <<>> /\ hand = None /\ wantOut = FALSE
    /\ sent = {} /\ nextTok = 0 /\ keepalive = None
    /\ inbox = <<>> /\ newMsgs = FALSE /\ fault = FALSE
    /\ up = <<>> /\ down = <<>> /\ peer = FALSE

-----------------------------------------------------------------------------
(* Helpers.  Each says what the C function does to the variables named.    *)

\* send_msg_impl: give the message the next token, queue it last.
send_msg_impl(kind, to) ==
    /\ sending' = Append(sending, [tok |-> nextTok, kind |-> kind, to |-> to])
    /\ nextTok' = nextTok + 1

\* Closing the socket loses what was still under way.
CloseSocket == sock' = FALSE /\ peer' = FALSE /\ up' = <<>> /\ down' = <<>>

\* Mutant: handshake_completed is left as it was, as in the OpenSSL build.
reset_keeps_handshake ==
    /\ status' = "NONE"
    /\ logon' = [logon EXCEPT !.to = None, !.nda = None]
    /\ session' = FALSE /\ UNCHANGED handshaken
    /\ CloseSocket
    /\ sending' = <<>> /\ hand' = None /\ sent' = {}
    /\ inbox' = <<>>

\* reset_link_state of the GnuTLS build.  It does not touch logon.do_logon,
\* next_tok or keepalive_token.
reset_link_state ==
    /\ status' = "NONE"
    /\ logon' = [logon EXCEPT !.to = None, !.nda = None]
    /\ session' = FALSE /\ handshaken' = FALSE
    /\ CloseSocket
    /\ sending' = <<>> /\ hand' = None /\ sent' = {}
    /\ inbox' = <<>>

\* The status of a link whose connection is complete.
Connected == IF Encrypted THEN "HANDSHAKING" ELSE "AVAIL"

\* Mutant: ai_cur is moved on twice.
init_conn_skips(n, failed) ==
    \E k \in 0..n :
        \/ /\ k = n
           /\ status' = "NONE" /\ addrs' = 0 /\ failure' = (failed \/ n > 0)
           /\ CloseSocket
        \/ /\ k < n
           /\ status' \in {"CONNECTING", Connected}
           /\ addrs' = n - k - 2 /\ failure' = FALSE
           /\ sock' = TRUE /\ peer' = (status' = Connected)
           /\ up' = <<>> /\ down' = <<>>

\* init_conn with n addresses left and logon_failure as `failed' says: the
\* first k are refused at once, the next one is connected or connecting.
init_conn(n, failed) ==
    \E k \in 0..n :
        \/ /\ k = n
           /\ status' = "NONE" /\ addrs' = 0 /\ failure' = (failed \/ n > 0)
           /\ CloseSocket
        \/ /\ k < n
           /\ status' \in {"CONNECTING", Connected}
           /\ addrs' = n - k - 1 /\ failure' = FALSE
           /\ sock' = TRUE /\ peer' = (status' = Connected)
           /\ up' = <<>> /\ down' = <<>>

-----------------------------------------------------------------------------
(* The worker: logon_worker and what it calls.                             *)

WorkerKeeps(next) ==
    /\ pc' = next
    /\ UNCHANGED <<started, newMsgs>>

\* The new thread takes the lock; resolve_host drops it in getaddrinfo, or
\* gives up when no host is set.
WorkerStart ==
    /\ pc = "start" /\ ~fault
    /\ \/ WorkerKeeps("resolve") /\ UNCHANGED failure
       \/ WorkerKeeps("top") /\ failure' = TRUE
    /\ UNCHANGED <<status, addrs, sock, session, handshaken, logon, inbox, queueVars, netVars>>

\* getaddrinfo returns.
Resolved ==
    /\ pc = "resolve" /\ ~fault
    /\ WorkerKeeps("top")
    /\ \/ init_conn(Addresses, failure)
       \/ failure' = TRUE /\ UNCHANGED <<status, addrs, sock, netVars>>
    /\ UNCHANGED <<session, handshaken, logon, inbox, queueVars>>

\* The loop's condition fails, or check_keepalive gave up: the worker tears
\* the link down and ends without having let go of the lock.
Leave ==
    /\ reset_link_state
    /\ pc' = "off" /\ started' = FALSE /\ newMsgs' = FALSE
    /\ UNCHANGED <<failure, addrs, wantOut, nextTok, keepalive, fault>>

\* Mutant: the loop only ends on a failure.
LoopEndsOnFailure == pc = "top" /\ ~fault /\ failure /\ Leave

LoopEnds ==
    /\ pc = "top" /\ ~fault
    /\ status = "NONE" \/ failure
    /\ Leave

\* The loop's switch, where it leads to a place that drops the lock.
LoopWaits ==
    /\ pc = "top" /\ ~fault /\ status # "NONE" /\ ~failure
    /\ CASE status = "CONNECTING" -> WorkerKeeps("conn") /\ UNCHANGED <<session, wantOut>>
         [] status = "HANDSHAKING" -> WorkerKeeps("tls") /\ session' = TRUE /\ UNCHANGED wantOut
         [] OTHER -> /\ ~logon.do
                     /\ WorkerKeeps("poll")
                     /\ wantOut' = (sending # <<>>) /\ UNCHANGED session
    /\ UNCHANGED <<status, failure, addrs, sock, handshaken, logon, sending, hand, sent,
                   nextTok, keepalive, inbox, fault, netVars>>

\* send_logon: the next data authority, if there is one, becomes the current
\* one.
send_logon ==
    /\ pc = "top" /\ ~fault /\ status \in LinkUp /\ ~failure
    /\ logon.do
    /\ LET to == IF logon.nda # None THEN logon.nda ELSE logon.to
       IN  /\ logon' = [do |-> FALSE, to |-> to, nda |-> None]
           /\ send_msg_impl("logon", to)
    /\ status' = "IN_PROG"
    /\ WorkerKeeps("top")
    /\ UNCHANGED <<failure, addrs, sock, session, handshaken, hand, wantOut, sent, keepalive,
                   inbox, fault, netVars>>

\* complete_conn after its poll.  It does not look at logon_status.
ConnWaits ==
    /\ pc = "conn" /\ ~fault
    /\ WorkerKeeps("top")
    /\ UNCHANGED <<status, failure, addrs, sock, session, handshaken, logon, inbox, queueVars, netVars>>

ConnDone ==
    /\ pc = "conn" /\ ~fault
    /\ WorkerKeeps("top")
    /\ \/ status' = Connected /\ peer' = TRUE /\ UNCHANGED <<failure, addrs, sock, up, down>>
       \/ init_conn(addrs, TRUE)
    /\ UNCHANGED <<session, handshaken, logon, inbox, queueVars>>

\* tls_handshake_gnutls cannot set up credentials or session (TLS_CHK).
TlsSetupFails ==
    /\ pc = "top" /\ ~fault /\ status = "HANDSHAKING" /\ ~failure /\ ~session
    /\ status' = "NONE" /\ failure' = TRUE
    /\ session' \in BOOLEAN
    /\ WorkerKeeps("top")
    /\ UNCHANGED <<addrs, sock, handshaken, logon, inbox, queueVars, netVars>>

\* tls_handshake after gnutls_handshake: to be continued, done, or failed.
TlsWaits ==
    /\ pc = "tls" /\ ~fault
    /\ WorkerKeeps("top")
    /\ UNCHANGED <<status, failure, addrs, sock, session, handshaken, logon, inbox, queueVars, netVars>>

TlsDone ==
    /\ pc = "tls" /\ ~fault
    /\ WorkerKeeps("top")
    /\ \/ /\ handshaken' = TRUE /\ status' = "AVAIL"
          /\ UNCHANGED <<failure, sock, session, logon, sending, hand, sent, inbox, netVars>>
       \/ failure' = TRUE /\ reset_link_state
    /\ UNCHANGED <<addrs, wantOut, nextTok, keepalive, fault>>

-----------------------------------------------------------------------------
(* poll_for_msgs, do_msg_input and do_msg_output.                          *)

\* Where poll_for_msgs goes once there is nothing left to read: it takes the
\* first message off the list if poll was asked about POLLOUT.
EndInput(st) ==
    IF st # "NONE" /\ wantOut /\ sending # <<>>
    THEN /\ pc' = "tx" /\ hand' = Head(sending) /\ sending' = Tail(sending)
    ELSE /\ pc' = "after" /\ UNCHANGED <<hand, sending>>

\* poll returns: an error or a logoff meanwhile, something to read, or not.
PollDone ==
    /\ pc = "poll" /\ ~fault
    /\ \/ /\ status' = "NONE" /\ pc' = "after"
          /\ UNCHANGED <<hand, sending>>
       \/ /\ status # "NONE"
          /\ UNCHANGED status
          /\ IF down # <<>> \/ ~peer
             THEN pc' = "rx" /\ UNCHANGED <<hand, sending>>
             ELSE EndInput(status)
    /\ UNCHANGED <<started, newMsgs, failure, addrs, sock, session, handshaken, logon,
                   wantOut, sent, nextTok, keepalive, inbox, fault, netVars>>

\* do_msg_input stops: nothing more to read, the rate was set to 0, or the
\* other end has closed the socket.
RxEnds ==
    /\ pc = "rx" /\ ~fault
    /\ \/ down = <<>> /\ status' = IF peer THEN status ELSE "NONE"
       \/ Delay /\ UNCHANGED status
    /\ EndInput(status')
    /\ UNCHANGED <<started, newMsgs, failure, addrs, sock, session, handshaken, logon,
                   wantOut, sent, nextTok, keepalive, inbox, fault, netVars>>

\* Input that sanitize_input or cpdlc_msg_decode refuses ends the link; the
\* decoder also sets the reason.
RxGarbage ==
    /\ pc = "rx" /\ ~fault /\ down # <<>>
    /\ status' = "NONE" /\ failure' \in {failure, TRUE}
    /\ EndInput("NONE")
    /\ UNCHANGED <<started, newMsgs, addrs, sock, session, handshaken, logon,
                   wantOut, sent, nextTok, keepalive, inbox, fault, netVars>>

\* Mutant: the answer's logon data is not looked at.
RxAnyAnswer(m) ==
    /\ status = "IN_PROG" /\ m.kind \in {"success", "failure"}
    /\ status' = "COMPLETE" /\ failure' = FALSE
    /\ UNCHANGED <<sending, nextTok, logon, inbox, newMsgs>>

\* process_msg while the answer to a LOGON is awaited.
RxLogonAnswer(m) ==
    /\ status = "IN_PROG" /\ m.kind \in {"success", "failure"}
    /\ \/ /\ m.kind = "success"
          /\ status' = "COMPLETE" /\ failure' = FALSE
          /\ IF Arinc622 THEN send_msg_impl("version", logon.to)
                         ELSE UNCHANGED <<sending, nextTok>>
       \/ /\ m.kind = "failure"
          /\ status' = "AVAIL" /\ failure' = TRUE
          /\ UNCHANGED <<sending, nextTok>>
    /\ UNCHANGED <<logon, inbox, newMsgs>>

\* A PONG, a LOGON out of turn, or anything before the logon is complete.
RxDiscard(m) ==
    /\ \/ m.kind = "pong"
       \/ m.kind \in {"success", "failure"} /\ status # "IN_PROG"
       \/ status # "COMPLETE" /\ m.kind \notin {"success", "failure"}
    /\ UNCHANGED <<status, failure, sending, nextTok, logon, inbox, newMsgs>>

Uplinks == {"text", "end", "nda", "error"}

\* queue_incoming_msg refuses a message that is not from the station that
\* logon.to names and tells its sender so.
RxStranger(m) ==
    /\ status = "COMPLETE" /\ m.kind \in Uplinks /\ m.from # logon.to
    /\ send_msg_impl("notcda", m.from)
    /\ UNCHANGED <<status, failure, logon, inbox, newMsgs>>

\* Mutant: queue_incoming_msg does not look at FROM=.
RxFromAnyone(m) ==
    /\ status = "COMPLETE" /\ m.kind \in Uplinks
    /\ logon' = IF m.kind = "nda" /\ m.arg # logon.to THEN [logon EXCEPT !.nda = m.arg]
                                                      ELSE logon
    /\ inbox' = Append(inbox, m) /\ newMsgs' = TRUE
    /\ UNCHANGED <<status, failure, sending, nextTok>>

\* handle_end_svc and handle_nda, then the message is queued.
RxUplink(m) ==
    /\ status = "COMPLETE" /\ m.kind \in Uplinks /\ m.from = logon.to
    /\ CASE m.kind = "end" /\ logon.nda # None ->
              status' = "AVAIL" /\ logon' = [logon EXCEPT !.do = TRUE]
         [] m.kind = "end" /\ logon.nda = None -> status' = "NONE" /\ UNCHANGED logon
         [] m.kind = "nda" ->
              /\ logon' = [logon EXCEPT !.nda = IF m.arg = logon.to THEN None ELSE m.arg]
              /\ UNCHANGED status
         [] OTHER -> UNCHANGED <<status, logon>>
    /\ inbox' = Append(inbox, m) /\ newMsgs' = TRUE
    /\ UNCHANGED <<failure, sending, nextTok>>

\* One message of do_msg_input and process_input.
Rx ==
    /\ pc = "rx" /\ ~fault /\ down # <<>>
    /\ LET m == Head(down)
       IN  RxLogonAnswer(m) \/ RxDiscard(m) \/ RxStranger(m) \/ RxUplink(m)
    /\ down' = Tail(down)
    /\ UNCHANGED <<pc, started, addrs, sock, session, handshaken, hand, wantOut, sent,
                   keepalive, fault, up, peer>>

\* Mutant: the message goes back to the tail of the list.
TxStopsAtTail ==
    /\ pc = "tx" /\ ~fault
    /\ status' \in {status, "NONE"}
    /\ sending' = Append(sending, hand) /\ hand' = None
    /\ pc' = "after"
    /\ UNCHANGED <<started, newMsgs, failure, addrs, sock, session, handshaken, logon,
                   wantOut, sent, nextTok, keepalive, inbox, fault, netVars>>

\* do_msg_output cannot write all of the message: the rate was set to 0, the
\* socket is full, or it is broken.  The message goes back to the head.
TxStops ==
    /\ pc = "tx" /\ ~fault
    /\ status' \in {status, "NONE"}
    /\ sending' = <<hand>> \o sending /\ hand' = None
    /\ pc' = "after"
    /\ UNCHANGED <<started, newMsgs, failure, addrs, sock, session, handshaken, logon,
                   wantOut, sent, nextTok, keepalive, inbox, fault, netVars>>

\* The message is written.  A tracked one moves to the list of sent messages.
\* The loop then looks at the next message without taking it off the list:
\* whatever becomes of that one, it is linked a second time or freed while
\* still linked, and from there the behaviour is undefined.
TxDone ==
    /\ pc = "tx" /\ ~fault
    /\ up' = IF peer THEN Append(up, hand) ELSE up
    /\ hand' = None
    /\ sent' = IF Tracked(hand) THEN sent \cup {hand.tok} ELSE sent
    /\ fault' = (sending # <<>>)
    /\ pc' = "after"
    /\ UNCHANGED <<started, newMsgs, status, failure, addrs, sock, session, handshaken, logon,
                   sending, wantOut, nextTok, keepalive, inbox, down, peer>>

-----------------------------------------------------------------------------
(* The end of an iteration: check_keepalive and the callback.              *)

InSending(tok) == \E i \in DOMAIN sending : sending[i].tok = tok

\* check_keepalive lets the link go on.  The times that decide whether a PING
\* is due and whether it is overdue are left open.
KeepaliveGoesOn ==
    \/ /\ status # "COMPLETE" \/ ~Encrypted
       /\ UNCHANGED <<keepalive, sending, nextTok>>
    \/ /\ status = "COMPLETE" /\ Encrypted /\ keepalive # None
       /\ keepalive' = IF InSending(keepalive) THEN keepalive ELSE None
       /\ UNCHANGED <<sending, nextTok>>
    \/ /\ status = "COMPLETE" /\ Encrypted /\ keepalive = None
       /\ \/ UNCHANGED <<keepalive, sending, nextTok>>
          \/ /\ nextTok < MaxTokens
             /\ send_msg_impl("ping", None) /\ keepalive' = nextTok

\* The rest of the iteration.  The callback for received messages is made
\* without the lock; the one for sent messages is never made, because
\* do_msg_output does not count the tokens it returns.
IterationEnds ==
    /\ pc = "after" /\ ~fault
    /\ KeepaliveGoesOn
    /\ pc' = IF newMsgs THEN "cb" ELSE "top"
    /\ newMsgs' = FALSE
    /\ UNCHANGED <<started, status, failure, addrs, sock, session, handshaken, logon, hand,
                   wantOut, sent, inbox, fault, netVars>>

\* A PING that could not be written for KEEPALIVE_TIMEOUT_LIM ends the link.
KeepaliveGivesUp ==
    /\ pc = "after" /\ ~fault
    /\ status = "COMPLETE" /\ Encrypted /\ keepalive # None /\ InSending(keepalive)
    /\ Leave

CallbackReturns ==
    /\ pc = "cb" /\ ~fault
    /\ WorkerKeeps("top")
    /\ UNCHANGED <<status, failure, addrs, sock, session, handshaken, logon, inbox, queueVars, netVars>>

Worker ==
    \/ WorkerStart \/ Resolved
    \/ LoopEnds \/ LoopWaits \/ send_logon
    \/ ConnWaits \/ ConnDone \/ TlsSetupFails \/ TlsWaits \/ TlsDone
    \/ PollDone \/ Rx \/ RxEnds \/ RxGarbage \/ TxStops \/ TxDone
    \/ IterationEnds \/ KeepaliveGivesUp \/ CallbackReturns

-----------------------------------------------------------------------------
(* The calls of the application.                                           *)

\* cpdlc_client_logon starts a worker only if there is none.
cpdlc_client_logon(to) ==
    /\ LockFree
    /\ logon' = [do |-> TRUE, to |-> to, nda |-> None]
    /\ failure' = FALSE
    /\ started' = TRUE
    /\ pc' = IF started THEN pc ELSE "start"
    /\ UNCHANGED <<status, addrs, sock, session, handshaken, inbox, newMsgs, queueVars, netVars>>

\* cpdlc_client_logoff without an identity, as the box calls it: the worker is to
\* notice.
cpdlc_client_logoff ==
    /\ LockFree
    /\ status' = "NONE" /\ failure' = FALSE
    /\ UNCHANGED <<pc, started, addrs, sock, session, handshaken, logon, inbox, newMsgs,
                   queueVars, netVars>>

\* cpdlc_client_send_msg: nothing is queued before the logon is complete.
cpdlc_client_send_msg(kind) ==
    /\ LockFree /\ status = "COMPLETE"
    /\ send_msg_impl(kind, logon.to)
    /\ UNCHANGED <<pc, started, status, failure, addrs, sock, session, handshaken, logon, hand,
                   wantOut, sent, keepalive, inbox, newMsgs, fault, netVars>>

\* cpdlc_client_get_msg_status: a sent message is forgotten once asked about.
cpdlc_client_get_msg_status(tok) ==
    /\ LockFree
    /\ sent' = sent \ {tok}
    /\ UNCHANGED <<pc, started, status, failure, addrs, sock, session, handshaken, logon, sending,
                   hand, wantOut, nextTok, keepalive, inbox, newMsgs, fault, netVars>>

cpdlc_client_recv_msg ==
    /\ LockFree /\ inbox # <<>>
    /\ inbox' = Tail(inbox)
    /\ UNCHANGED <<pc, started, status, failure, addrs, sock, session, handshaken, logon, newMsgs,
                   queueVars, netVars>>

cpdlc_client_reset_logon_failure ==
    /\ LockFree
    /\ failure' = FALSE
    /\ UNCHANGED <<pc, started, status, addrs, sock, session, handshaken, logon, inbox, newMsgs,
                   queueVars, netVars>>
=============================================================================
