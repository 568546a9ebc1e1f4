---------------------------- MODULE SessionProofs ----------------------------
(***************************************************************************)
(* Proofs, for any set of stations, any number of addresses, messages and  *)
(* faults, with and without TLS, of what the client keeps to: the types of *)
(* its state, which resources its link holds in which state, the order of  *)
(* its outgoing messages, where its data authorities come from, and that   *)
(* it and the server agree on the logon.                                   *)
(***************************************************************************)
EXTENDS Session, TLAPS

USE LinkAssumption, SessionAssumption

-----------------------------------------------------------------------------
(* Types.                                                                  *)

TypeInv ==
    /\ pc \in Pcs /\ status \in Statuses
    /\ started \in BOOLEAN /\ failure \in BOOLEAN /\ sock \in BOOLEAN
    /\ session \in BOOLEAN /\ handshaken \in BOOLEAN /\ wantOut \in BOOLEAN
    /\ newMsgs \in BOOLEAN /\ fault \in BOOLEAN /\ peer \in BOOLEAN
    /\ addrs \in 0..Addresses
    /\ logon \in [do: BOOLEAN, to: Stations \cup {None}, nda: Stations \cup {None}]
    /\ sending \in Seq(OutMsg) /\ hand \in OutMsg \cup {None}
    /\ pc = "tx" => hand \in OutMsg
    /\ nextTok \in Nat /\ sent \subseteq Nat /\ keepalive \in Nat \cup {None}
    /\ inbox \in Seq(InMsg) /\ up \in Seq(OutMsg) /\ down \in Seq(InMsg)

\* A message that send_msg_impl queues is one.
LEMMA SendTypes ==
    ASSUME TypeInv, NEW kind \in OutKinds, NEW to \in Stations \cup {None},
           send_msg_impl(kind, to)
    PROVE  sending' \in Seq(OutMsg) /\ nextTok' \in Nat
<1>1. [tok |-> nextTok, kind |-> kind, to |-> to] \in OutMsg
  BY DEF TypeInv, OutMsg
<1> QED
  BY <1>1 DEF TypeInv, send_msg_impl

\* init_conn ends with a status it can end with, and an empty socket.
LEMMA InitConnTypes ==
    ASSUME NEW n \in 0..Addresses, NEW failed \in BOOLEAN, init_conn(n, failed)
    PROVE  /\ status' \in {"NONE", "CONNECTING", Connected}
           /\ status' # "NONE" => sock'
           /\ addrs' \in 0..Addresses
           /\ failure' \in BOOLEAN /\ sock' \in BOOLEAN /\ peer' \in BOOLEAN
           /\ up' \in Seq(OutMsg) /\ down' \in Seq(InMsg) /\ down' = <<>>
<1> <<>> \in Seq(OutMsg) /\ <<>> \in Seq(InMsg)
  OBVIOUS
<1>1. PICK k \in 0..n :
          \/ /\ k = n
             /\ status' = "NONE" /\ addrs' = 0 /\ failure' = (failed \/ n > 0)
             /\ CloseSocket
          \/ /\ k < n
             /\ status' \in {"CONNECTING", Connected}
             /\ addrs' = n - k - 1 /\ failure' = FALSE
             /\ sock' = TRUE /\ peer' = (status' = Connected)
             /\ up' = <<>> /\ down' = <<>>
  BY Zenon DEF init_conn
<1>2. CASE k = n /\ CloseSocket /\ status' = "NONE" /\ addrs' = 0 /\ failure' = (failed \/ n > 0)
  <2>1. addrs' \in 0..Addresses
    BY <1>2
  <2>2. failure' \in BOOLEAN
    BY <1>2, Zenon
  <2> QED
    BY <1>2, <2>1, <2>2, Zenon DEF CloseSocket
<1>3. CASE /\ k < n
           /\ status' \in {"CONNECTING", Connected}
           /\ addrs' = n - k - 1 /\ failure' = FALSE
           /\ sock' = TRUE /\ peer' = (status' = Connected)
           /\ up' = <<>> /\ down' = <<>>
  <2>1. addrs' \in 0..Addresses
    BY <1>3
  <2> QED
    BY <1>3, <2>1, Zenon
<1> QED
  BY <1>1, <1>2, <1>3, Zenon

\* reset_link_state leaves values of the types.
LEMMA ResetTypes ==
    ASSUME TypeInv, reset_link_state
    PROVE  /\ status' = "NONE" /\ logon'.to = None /\ logon'.nda = None
           /\ logon' \in [do: BOOLEAN, to: Stations \cup {None}, nda: Stations \cup {None}]
           /\ ~session' /\ ~handshaken' /\ ~sock' /\ ~peer'
           /\ session' \in BOOLEAN /\ handshaken' \in BOOLEAN /\ sock' \in BOOLEAN
           /\ peer' \in BOOLEAN
           /\ sending' = <<>> /\ hand' = None /\ sent' = {} /\ inbox' = <<>>
           /\ sending' \in Seq(OutMsg) /\ inbox' \in Seq(InMsg) /\ sent' \subseteq Nat
           /\ up' \in Seq(OutMsg) /\ down' \in Seq(InMsg) /\ down' = <<>>
<1>1. /\ status' = "NONE" /\ logon'.to = None /\ logon'.nda = None
      /\ logon' \in [do: BOOLEAN, to: Stations \cup {None}, nda: Stations \cup {None}]
      /\ sending' = <<>> /\ hand' = None /\ sent' = {} /\ inbox' = <<>>
      /\ up' = <<>> /\ down' = <<>>
  BY Zenon DEF TypeInv, reset_link_state, CloseSocket
<1>2. /\ ~session' /\ ~handshaken' /\ ~sock' /\ ~peer'
      /\ session' \in BOOLEAN /\ handshaken' \in BOOLEAN /\ sock' \in BOOLEAN
      /\ peer' \in BOOLEAN
  BY Zenon DEF reset_link_state, CloseSocket
<1>3. <<>> \in Seq(OutMsg) /\ <<>> \in Seq(InMsg)
  OBVIOUS
<1>4. sent' \subseteq Nat
  BY <1>1
<1> QED
  BY <1>1, <1>2, <1>3, <1>4, Zenon

\* So does the end of the input.
LEMMA EndInputTypes ==
    ASSUME TypeInv, NEW st, EndInput(st)
    PROVE  /\ pc' \in {"tx", "after"}
           /\ pc' = "tx" => hand' \in OutMsg
           /\ hand' \in OutMsg \cup {None} /\ sending' \in Seq(OutMsg)
<1>1. sending \in Seq(OutMsg) /\ hand \in OutMsg \cup {None}
  BY DEF TypeInv
<1>2. CASE pc' = "tx" /\ hand' = Head(sending) /\ sending' = Tail(sending) /\ sending # <<>>
  BY <1>1, <1>2
<1>3. CASE pc' = "after" /\ hand' = hand /\ sending' = sending
  BY <1>1, <1>3
<1> QED
  BY <1>2, <1>3, Zenon DEF EndInput

\* So does a received message.
LEMMA RxTypes ==
    ASSUME TypeInv, Rx
    PROVE  TypeInv'
<1> DEFINE m == Head(down)
<1>1. m \in InMsg /\ down' \in Seq(InMsg)
  BY DEF Rx, TypeInv
<1>2. /\ RxLogonAnswer(m) \/ RxDiscard(m) \/ RxStranger(m) \/ RxUplink(m)
      /\ UNCHANGED <<pc, started, addrs, sock, session, handshaken, hand, wantOut, sent,
                     keepalive, fault, up, peer>>
  BY Zenon DEF Rx
<1> SUFFICES /\ status' \in Statuses /\ failure' \in BOOLEAN /\ newMsgs' \in BOOLEAN
             /\ logon' \in [do: BOOLEAN, to: Stations \cup {None}, nda: Stations \cup {None}]
             /\ sending' \in Seq(OutMsg) /\ nextTok' \in Nat /\ inbox' \in Seq(InMsg)
  BY <1>1, <1>2 DEF TypeInv
<1> HIDE DEF m
<1> USE DEF TypeInv, Statuses
<1>3. CASE RxLogonAnswer(m)
  <2>1. failure' \in BOOLEAN
    BY <1>3, Zenon DEF RxLogonAnswer
  <2>2. sending' \in Seq(OutMsg) /\ nextTok' \in Nat
    BY <1>3, SendTypes DEF RxLogonAnswer, OutKinds
  <2> QED
    BY <1>3, <2>1, <2>2 DEF RxLogonAnswer
<1>4. CASE RxDiscard(m)
  BY <1>4 DEF RxDiscard
<1>5. CASE RxStranger(m)
  BY <1>1, <1>5, SendTypes DEF RxStranger, OutKinds, InMsg
<1>6. CASE RxUplink(m)
  <2>1. newMsgs' \in BOOLEAN
    BY <1>6, Zenon DEF RxUplink
  <2>2. inbox' \in Seq(InMsg)
    BY <1>1, <1>6 DEF RxUplink
  <2>3. logon' \in [do: BOOLEAN, to: Stations \cup {None}, nda: Stations \cup {None}]
    <3>1. m.kind \in Uplinks /\ m.arg \in Stations \cup {None}
      BY <1>1, <1>6 DEF RxUplink, InMsg
    <3>2. CASE m.kind = "end" /\ logon.nda # None
      <4>1. logon' = [logon EXCEPT !.do = TRUE]
        BY <1>6, <3>2 DEF RxUplink
      <4> QED
        BY <4>1, Zenon
    <3>3. CASE m.kind = "nda"
      <4>1. logon' = [logon EXCEPT !.nda = IF m.arg = logon.to THEN None ELSE m.arg]
        BY <1>6, <3>3 DEF RxUplink
      <4> QED
        BY <3>1, <4>1, Zenon
    <3>4. CASE (m.kind # "end" \/ logon.nda = None) /\ m.kind # "nda"
      BY <1>6, <3>4, Zenon DEF RxUplink
    <3> QED
      BY <3>2, <3>3, <3>4
  <2>4. status' \in Statuses
    BY <1>6 DEF RxUplink, Uplinks
  <2> QED
    BY <1>6, <2>1, <2>2, <2>3, <2>4 DEF RxUplink
<1> QED
  BY <1>2, <1>3, <1>4, <1>5, <1>6

\* So does every step of the worker.
LEMMA WorkerTypes ==
    ASSUME TypeInv, Worker
    PROVE  TypeInv'
<1> USE DEF TypeInv, WorkerKeeps, queueVars, netVars, Pcs, Statuses
<1>1. CASE WorkerStart
  <2>1. failure' \in BOOLEAN /\ pc' \in Pcs \ {"tx"}
    BY <1>1, Zenon DEF WorkerStart
  <2> QED
    BY <1>1, <2>1 DEF WorkerStart
<1>2. CASE Resolved
  <2>1. CASE init_conn(Addresses, failure)
    <3>1. Addresses \in 0..Addresses
      OBVIOUS
    <3> QED
      BY <1>2, <2>1, <3>1, InitConnTypes DEF Resolved, Connected
  <2>2. CASE failure' = TRUE /\ UNCHANGED <<status, addrs, sock, netVars>>
    <3>1. failure' \in BOOLEAN
      BY <2>2, Zenon
    <3> QED
      BY <1>2, <2>2, <3>1 DEF Resolved
  <2> QED
    BY <1>2, <2>1, <2>2, Zenon DEF Resolved
<1>3. CASE LoopEnds
  <2>1. started' \in BOOLEAN /\ newMsgs' \in BOOLEAN
    BY <1>3, Zenon DEF LoopEnds, Leave
  <2> QED
    BY <1>3, <2>1, ResetTypes DEF LoopEnds, Leave
<1>4. CASE LoopWaits
  <2>1. CASE status = "CONNECTING"
    BY <1>4, <2>1 DEF LoopWaits
  <2>2. CASE status = "HANDSHAKING"
    <3>1. session' \in BOOLEAN
      BY <1>4, <2>2, Zenon DEF LoopWaits
    <3> QED
      BY <1>4, <2>2, <3>1 DEF LoopWaits
  <2>3. CASE status \notin {"CONNECTING", "HANDSHAKING"}
    <3>1. wantOut' \in BOOLEAN
      BY <1>4, <2>3, Zenon DEF LoopWaits
    <3> QED
      BY <1>4, <2>3, <3>1 DEF LoopWaits
  <2> QED
    BY <2>1, <2>2, <2>3
<1>5. CASE send_logon
  BY <1>5, SendTypes DEF send_logon, OutKinds
<1>6. CASE ConnWaits
  BY <1>6 DEF ConnWaits
<1>7. CASE ConnDone
  <2>1. CASE init_conn(addrs, TRUE)
    BY <1>7, <2>1, InitConnTypes, ZenonT(30) DEF ConnDone, Connected
  <2>2. CASE status' = Connected /\ peer' = TRUE /\ UNCHANGED <<failure, addrs, sock, up, down>>
    <3>1. peer' \in BOOLEAN
      BY <2>2, Zenon
    <3> QED
      BY <1>7, <2>2, <3>1 DEF ConnDone, Connected
  <2> QED
    BY <1>7, <2>1, <2>2, Zenon DEF ConnDone
<1>8. CASE TlsSetupFails
  BY <1>8 DEF TlsSetupFails
<1>9. CASE TlsWaits
  BY <1>9 DEF TlsWaits
<1>10. CASE TlsDone
  <2>1. CASE /\ handshaken' = TRUE /\ status' = "AVAIL"
             /\ UNCHANGED <<failure, sock, session, logon, sending, hand, sent, inbox, netVars>>
    <3>1. handshaken' \in BOOLEAN
      BY <2>1, Zenon
    <3> QED
      BY <1>10, <2>1, <3>1 DEF TlsDone
  <2>2. CASE failure' = TRUE /\ reset_link_state
    <3>1. failure' \in BOOLEAN
      BY <2>2, Zenon
    <3> QED
      BY <1>10, <2>2, <3>1, ResetTypes DEF TlsDone
  <2> QED
    BY <1>10, <2>1, <2>2, Zenon DEF TlsDone
<1>11. CASE PollDone
  BY <1>11, EndInputTypes DEF PollDone
<1>12. CASE Rx
  BY <1>12, RxTypes
<1>13. CASE RxEnds
  BY <1>13, EndInputTypes DEF RxEnds
<1>14. CASE RxGarbage
  <2>1. failure' \in BOOLEAN
    BY <1>14, Zenon DEF RxGarbage
  <2> QED
    BY <1>14, <2>1, EndInputTypes DEF RxGarbage
<1>15. CASE TxStops
  BY <1>15 DEF TxStops
<1>16. CASE TxDone
  <2>1. hand \in OutMsg /\ hand.tok \in Nat
    BY <1>16 DEF TxDone, OutMsg
  <2>2. up' \in Seq(OutMsg)
    BY <1>16, <2>1 DEF TxDone
  <2>4. sent' = sent \/ sent' = sent \cup {hand.tok}
    BY <1>16, Zenon DEF TxDone
  <2>5. sent' \subseteq Nat
    BY <2>1, <2>4, Zenon
  <2>3. fault' \in BOOLEAN
    BY <1>16, Zenon DEF TxDone
  <2> QED
    BY <1>16, <2>1, <2>2, <2>3, <2>5 DEF TxDone
<1>17. CASE IterationEnds
  <2>1. newMsgs' \in BOOLEAN /\ pc' \in Pcs \ {"tx"}
    BY <1>17, Zenon DEF IterationEnds
  <2>2. sending' \in Seq(OutMsg) /\ nextTok' \in Nat /\ keepalive' \in Nat \cup {None}
    BY <1>17, SendTypes, Zenon DEF IterationEnds, KeepaliveGoesOn, OutKinds
  <2> QED
    BY <1>17, <2>1, <2>2 DEF IterationEnds
<1>18. CASE KeepaliveGivesUp
  <2>1. started' \in BOOLEAN /\ newMsgs' \in BOOLEAN
    BY <1>18, Zenon DEF KeepaliveGivesUp, Leave
  <2> QED
    BY <1>18, <2>1, ResetTypes DEF KeepaliveGivesUp, Leave
<1>19. CASE CallbackReturns
  BY <1>19 DEF CallbackReturns
<1> QED
  BY <1>1, <1>2, <1>3, <1>4, <1>5, <1>6, <1>7, <1>8, <1>9, <1>10, <1>11, <1>12, <1>13,
     <1>14, <1>15, <1>16, <1>17, <1>18, <1>19, Zenon DEF Worker

SrvRecord == [st: {"none", "started", "complete"}, to: Stations \cup {None}, by: Stations \cup {None}]

EndTypes ==
    /\ srv \in SrvRecord
    /\ box \in [to: Stations \cup {None}, pc: BoxSteps]

\* What the server appends to its answers.
LEMMA DownTypes ==
    ASSUME TypeInv, NEW kind \in InKinds, NEW from \in Stations \cup {None},
           NEW arg \in Stations \cup {None}
    PROVE  Append(down, [kind |-> kind, from |-> from, arg |-> arg]) \in Seq(InMsg)
<1>1. [kind |-> kind, from |-> from, arg |-> arg] \in InMsg
  BY DEF InMsg
<1> QED
  BY <1>1 DEF TypeInv

\* An answer is a message.
LEMMA AnswerTypes ==
    ASSUME TypeInv, NEW kind \in InKinds, Answer(kind)
    PROVE  down' \in Seq(InMsg)
  BY DownTypes DEF Answer

\* The server keeps the types.
LEMMA ServerTypes ==
    ASSUME TypeInv, EndTypes, Server
    PROVE  TypeInv' /\ EndTypes'
<1> USE DEF TypeInv, EndTypes, SrvRecord, ServerKeeps, queueVars, InKinds, LoggedOff
<1>1. CASE SrvReceives
  <2> DEFINE m == Head(up)
  <2>1. m \in OutMsg /\ up' \in Seq(OutMsg)
    BY <1>1 DEF SrvReceives
  <2>2. SrvLogon(m) \/ SrvRefuses(m) \/ SrvAccepts(m)
    BY <1>1, Zenon DEF SrvReceives
  <2> HIDE DEF m
  <2>3. down' = down \/ Answer("error") \/ Answer("pong")
    BY <2>2, Zenon DEF SrvLogon, SrvRefuses, SrvAccepts, SendError
  <2>4. down' \in Seq(InMsg)
    BY <2>3, AnswerTypes
  <2>5. srv' \in SrvRecord
    BY <2>1, <2>2 DEF SrvLogon, SrvRefuses, SrvAccepts, OutMsg
  <2> QED
    BY <1>1, <2>1, <2>4, <2>5 DEF SrvReceives
<1>2. CASE SrvDecides
  <2>1. down' \in Seq(InMsg)
    BY <1>2, AnswerTypes DEF SrvDecides
  <2>2. srv' = [srv EXCEPT !.st = "complete"] \/ srv' = LoggedOff
    BY <1>2, Zenon DEF SrvDecides
  <2>3. srv' \in SrvRecord
    BY <2>2, SMTT(30)
  <2> QED
    BY <1>2, <2>1, <2>3 DEF SrvDecides
<1>3. CASE SrvCloses
  <2>1. peer' \in BOOLEAN
    BY <1>3, Zenon DEF SrvCloses
  <2> QED
    BY <1>3, <2>1 DEF SrvCloses
<1>4. ASSUME NEW s \in Stations, NEW arg \in Stations \cup {None},
             NEW kind \in {"text", "end", "nda"}, SrvForwards(s, kind, arg)
      PROVE  TypeInv' /\ EndTypes'
  <2>1. down' \in Seq(InMsg)
    BY <1>4, DownTypes, Zenon DEF SrvForwards
  <2> QED
    BY <1>4, <2>1 DEF SrvForwards
<1> HIDE DEF TypeInv, EndTypes
<1> QED
  BY <1>1, <1>2, <1>3, <1>4, Zenon DEF Server

\* So does the box.
LEMMA BoxTypes ==
    ASSUME TypeInv, EndTypes,
           \/ \E s \in Stations : PressR5(s)
           \/ UpdateLogonTimeout \/ React \/ SendMsg \/ AskStatus \/ Collect
    PROVE  TypeInv' /\ EndTypes'
<1> USE DEF TypeInv, EndTypes, SrvRecord, linkVars, queueVars, netVars, LoggedOff, Pcs, Statuses,
           BoxSteps
<1>1. ASSUME NEW s \in Stations, PressR5(s)
      PROVE  TypeInv' /\ EndTypes'
  BY <1>1 DEF PressR5
<1>2. CASE UpdateLogonTimeout
  BY <1>2, SMTT(30) DEF UpdateLogonTimeout
<1>3. CASE React
  <2>1. CASE cpdlc_client_logon(box.to)
    <3>1. started' \in BOOLEAN /\ failure' \in BOOLEAN
      BY <2>1, Zenon DEF cpdlc_client_logon
    <3>2. logon' \in [do: BOOLEAN, to: Stations \cup {None}, nda: Stations \cup {None}]
      BY <2>1, Zenon DEF cpdlc_client_logon
    <3> QED
      BY <1>3, <2>1, <3>1, <3>2 DEF React, cpdlc_client_logon
  <2>2. CASE cpdlc_client_logoff
    <3>1. failure' \in BOOLEAN
      BY <2>2, Zenon DEF cpdlc_client_logoff
    <3> QED
      BY <1>3, <2>2, <3>1 DEF React, cpdlc_client_logoff
  <2>3. CASE cpdlc_client_reset_logon_failure
    <3>1. failure' \in BOOLEAN
      BY <2>3, Zenon DEF cpdlc_client_reset_logon_failure
    <3> QED
      BY <1>3, <2>3, <3>1 DEF React, cpdlc_client_reset_logon_failure
  <2> QED
    BY <1>3, <2>1, <2>2, <2>3, Zenon DEF React
<1>4. CASE SendMsg
  <2>1. sending' \in Seq(OutMsg) /\ nextTok' \in Nat
    BY <1>4, SendTypes DEF SendMsg, Client, cpdlc_client_send_msg, OutKinds
  <2> QED
    BY <1>4, <2>1 DEF SendMsg, Client, cpdlc_client_send_msg
<1>5. CASE AskStatus
  BY <1>5 DEF AskStatus, Client, cpdlc_client_get_msg_status
<1>6. CASE Collect
  BY <1>6 DEF Collect, Client, cpdlc_client_recv_msg
<1> QED
  BY <1>1, <1>2, <1>3, <1>4, <1>5, <1>6, Zenon

\* Every step keeps them.
LEMMA StepTypes ==
    ASSUME TypeInv, EndTypes, [Next]_vars
    PROVE  TypeInv' /\ EndTypes'
<1>1. CASE ClientWorks
  BY <1>1, WorkerTypes DEF ClientWorks, Client, EndTypes, SrvRecord, LoggedOff
<1>2. CASE Server
  BY <1>2, ServerTypes
<1>3. CASE UNCHANGED vars
  BY <1>3 DEF vars, linkVars, TypeInv, EndTypes
<1> QED
  BY <1>1, <1>2, <1>3, BoxTypes, Zenon DEF Next, Undefined

\* The types are an invariant.
LEMMA TypesHold == Spec => [](TypeInv /\ EndTypes)
<1>1. Init => TypeInv /\ EndTypes
  <2> SUFFICES ASSUME Init PROVE TypeInv /\ EndTypes
    OBVIOUS
  <2>1. /\ started \in BOOLEAN /\ failure \in BOOLEAN /\ sock \in BOOLEAN
        /\ session \in BOOLEAN /\ handshaken \in BOOLEAN /\ wantOut \in BOOLEAN
        /\ newMsgs \in BOOLEAN /\ fault \in BOOLEAN /\ peer \in BOOLEAN
    BY Zenon DEF Init, LinkInit
  <2>2. <<>> \in Seq(OutMsg) /\ <<>> \in Seq(InMsg)
    OBVIOUS
  <2>3. logon \in [do: BOOLEAN, to: Stations \cup {None}, nda: Stations \cup {None}]
    BY DEF Init, LinkInit
  <2>4. EndTypes
    BY DEF Init, EndTypes, SrvRecord, LoggedOff, BoxSteps
  <2> QED
    BY <2>1, <2>2, <2>3, <2>4 DEF Init, LinkInit, TypeInv, Pcs, Statuses
<1> QED
  BY <1>1, StepTypes, PTL DEF Spec

\* The state of client, box and server has its types.
THEOREM TypesCorrect == Spec => []TypeOK
<1>1. TypeInv /\ EndTypes => TypeOK
  BY DEF TypeInv, EndTypes, SrvRecord, TypeOK
<1> QED
  BY <1>1, TypesHold, PTL

-----------------------------------------------------------------------------
(* The link.                                                               *)

\* LinkIsConsistent is not inductive: complete_conn and tls_handshake set a status
\* without looking at the one a logoff has left, so what their socket and their TLS
\* session are must be known from where the worker is.
Held ==
    /\ status # "NONE" => sock
    /\ status \in LinkUp => (Encrypted => handshaken)
    /\ handshaken => session
    /\ session \/ status = "HANDSHAKING" => Encrypted
    /\ pc \in {"start", "resolve"} => status = "NONE"
    /\ pc \in {"conn", "tls"} => sock
    /\ pc = "tls" => session

Idle ==
    /\ pc = "off" /\ status = "NONE"
    /\ ~sock /\ ~session /\ ~peer
    /\ sending = <<>> /\ hand = None /\ sent = {} /\ inbox = <<>>
    /\ logon.to = None /\ logon.nda = None

LinkInv == Held /\ (started <=> pc # "off") /\ (~started => Idle)

\* A worker that ends leaves nothing behind.
LEMMA LeaveLink ==
    ASSUME TypeInv, Leave
    PROVE  LinkInv'
<1>1. pc' = "off" /\ ~started'
  BY Zenon DEF Leave
<1> QED
  BY <1>1, ResetTypes DEF Leave, LinkInv, Held, Idle, LinkUp

\* The worker keeps the link consistent.
LEMMA WorkerLink ==
    ASSUME TypeInv, LinkInv, Worker
    PROVE  LinkInv'
<1>1. CASE LoopEnds \/ KeepaliveGivesUp
  BY <1>1, LeaveLink DEF LoopEnds, KeepaliveGivesUp
<1>2. SUFFICES ASSUME ~(LoopEnds \/ KeepaliveGivesUp)
               PROVE  Held' /\ started' = started /\ pc # "off" /\ pc' # "off"
  BY <1>1 DEF LinkInv, TypeInv
<1> USE DEF TypeInv, LinkInv, Held, LinkUp, WorkerKeeps, Statuses
<1>3. CASE WorkerStart
  BY <1>3, Zenon DEF WorkerStart
<1>4. CASE Resolved
  BY <1>4, InitConnTypes, SMTT(30) DEF Resolved, Connected
<1>5. CASE LoopWaits
  BY <1>5, Zenon DEF LoopWaits
<1>6. CASE send_logon
  BY <1>6 DEF send_logon
<1>7. CASE ConnWaits
  BY <1>7 DEF ConnWaits
<1>8. CASE ConnDone
  <2>1. CASE init_conn(addrs, TRUE)
    BY <1>8, <2>1, InitConnTypes, Zenon DEF ConnDone, Connected
  <2>2. CASE status' = Connected /\ peer' = TRUE /\ UNCHANGED <<failure, addrs, sock, up, down>>
    BY <1>8, <2>2 DEF ConnDone, Connected
  <2> QED
    BY <1>8, <2>1, <2>2, Zenon DEF ConnDone
<1>9. CASE TlsSetupFails
  BY <1>9 DEF TlsSetupFails
<1>10. CASE TlsWaits
  BY <1>10 DEF TlsWaits
<1>11. CASE TlsDone
  <2>1. CASE failure' = TRUE /\ reset_link_state
    BY <1>11, <2>1, ResetTypes, Zenon DEF TlsDone
  <2>2. CASE /\ handshaken' = TRUE /\ status' = "AVAIL"
             /\ UNCHANGED <<failure, sock, session, logon, sending, hand, sent, inbox, netVars>>
    <3>1. handshaken'
      BY <2>2, Zenon
    <3> QED
      BY <1>11, <2>2, <3>1 DEF TlsDone
  <2> QED
    BY <1>11, <2>1, <2>2, Zenon DEF TlsDone
<1>12. CASE PollDone
  BY <1>12 DEF PollDone, EndInput
<1>13. CASE Rx
  BY <1>13, Zenon DEF Rx, RxLogonAnswer, RxDiscard, RxStranger, RxUplink
<1>14. CASE RxEnds
  BY <1>14 DEF RxEnds, EndInput
<1>15. CASE RxGarbage
  BY <1>15 DEF RxGarbage, EndInput
<1>16. CASE TxStops
  BY <1>16 DEF TxStops
<1>17. CASE TxDone
  BY <1>17 DEF TxDone
<1>18. CASE IterationEnds
  BY <1>18 DEF IterationEnds
<1>19. CASE CallbackReturns
  BY <1>19 DEF CallbackReturns
<1> QED
  BY <1>2, <1>3, <1>4, <1>5, <1>6, <1>7, <1>8, <1>9, <1>10, <1>11, <1>12, <1>13, <1>14, <1>15,
     <1>16, <1>17, <1>18, <1>19, Zenon DEF Worker

\* So does every step.
LEMMA StepLink ==
    ASSUME TypeInv, LinkInv, [Next]_vars
    PROVE  LinkInv'
<1> USE DEF TypeInv, LinkInv, Held, Idle, LinkUp
<1>1. CASE ClientWorks
  BY <1>1, WorkerLink DEF ClientWorks, Client
<1>2. CASE Server
  <2>1. /\ peer /\ (peer' = peer \/ ~peer')
        /\ ServerKeeps
    BY <1>2, Zenon DEF Server, SrvReceives, SrvDecides, SrvCloses, SrvForwards
  <2> QED
    BY <2>1 DEF ServerKeeps, queueVars
<1>3. CASE React
  <2>1. CASE cpdlc_client_logon(box.to)
    <3>1. started'
      BY <2>1, Zenon DEF cpdlc_client_logon
    <3> QED
      BY <2>1, <3>1 DEF cpdlc_client_logon
  <2>2. CASE cpdlc_client_logoff
    BY <2>2 DEF cpdlc_client_logoff, queueVars, netVars
  <2>3. CASE cpdlc_client_reset_logon_failure
    BY <2>3 DEF cpdlc_client_reset_logon_failure, queueVars, netVars
  <2> QED
    BY <1>3, <2>1, <2>2, <2>3, Zenon DEF React
<1>4. CASE SendMsg
  BY <1>4 DEF SendMsg, Client, cpdlc_client_send_msg, netVars
<1>5. CASE AskStatus
  BY <1>5 DEF AskStatus, Client, cpdlc_client_get_msg_status, netVars
<1>6. CASE Collect
  BY <1>6 DEF Collect, Client, cpdlc_client_recv_msg, queueVars, netVars
<1>7. CASE UNCHANGED linkVars
  BY <1>7 DEF linkVars
<1> HIDE DEF TypeInv, LinkInv
<1> QED
  BY <1>1, <1>2, <1>3, <1>4, <1>5, <1>6, <1>7, Zenon
     DEF Next, Undefined, vars, PressR5, UpdateLogonTimeout

\* In every state of the link the client holds the socket and the TLS session that
\* its code relies on, and nothing of an earlier link once its worker has ended,
\* whenever the box logs on, logs off or the server closes.
THEOREM LinkStaysConsistent == Spec => []LinkIsConsistent
<1>1. Init => LinkInv
  BY DEF Init, LinkInit, LinkInv, Held, Idle, LinkUp
<1>2. TypeInv /\ LinkInv => LinkIsConsistent
  BY DEF TypeInv, LinkInv, Held, Idle, LinkIsConsistent, LinkUp, Outgoing
<1> QED
  BY <1>1, <1>2, TypesHold, StepLink, PTL DEF Spec

-----------------------------------------------------------------------------
(* The outgoing messages.                                                  *)

\* The messages of a queue q carry the tokens given out last.
Consecutive(q, next) == \A i \in 1..Len(q) : q[i].tok = next - 1 - Len(q) + i

TurnInv ==
    /\ pc # "tx" => hand = None
    /\ ~fault => /\ Consecutive(sending, nextTok)
                 /\ pc = "tx" => hand.tok = nextTok - 1 - Len(sending)

\* A message queued last is in turn.
LEMMA SendTurn ==
    ASSUME TypeInv, Consecutive(sending, nextTok), NEW kind, NEW to,
           send_msg_impl(kind, to)
    PROVE  /\ Consecutive(sending', nextTok')
           /\ nextTok' - 1 - Len(sending') = nextTok - 1 - Len(sending)
<1>1. /\ sending \in Seq(OutMsg) /\ nextTok \in Nat /\ nextTok' = nextTok + 1
      /\ sending' = Append(sending, [tok |-> nextTok, kind |-> kind, to |-> to])
  BY DEF TypeInv, send_msg_impl
<1>2. /\ Len(sending) \in Nat /\ Len(sending') = Len(sending) + 1
      /\ \A i \in 1..Len(sending) : sending'[i] = sending[i]
      /\ sending'[Len(sending) + 1].tok = nextTok
  BY <1>1, SMTT(30)
<1>3. ASSUME NEW i \in 1..Len(sending')
      PROVE  sending'[i].tok = nextTok' - 1 - Len(sending') + i
  <2>1. CASE i \in 1..Len(sending)
    BY <1>1, <1>2, <2>1, SMTT(30) DEF Consecutive
  <2>2. CASE i = Len(sending) + 1
    BY <1>1, <1>2, <2>2
  <2> QED
    BY <1>2, <2>1, <2>2, SMTT(30)
<1>4. Consecutive(sending', nextTok')
  BY <1>3, Zenon DEF Consecutive
<1>5. nextTok' - 1 - Len(sending') = nextTok - 1 - Len(sending)
  BY <1>1, <1>2
<1> QED
  BY <1>4, <1>5, Zenon

\* Taking the first message into the hand keeps the order.
LEMMA EndInputTurn ==
    ASSUME TypeInv, Consecutive(sending, nextTok), hand = None, NEW st, EndInput(st)
    PROVE  /\ Consecutive(sending', nextTok)
           /\ pc' = "tx" => hand'.tok = nextTok - 1 - Len(sending')
           /\ pc' # "tx" => hand' = None
<1>1. sending \in Seq(OutMsg)
  BY DEF TypeInv
<1>2. CASE pc' = "tx" /\ hand' = Head(sending) /\ sending' = Tail(sending) /\ sending # <<>>
  <2>1. /\ Len(sending') = Len(sending) - 1 /\ hand' = sending[1] /\ Len(sending) \in Nat \ {0}
        /\ \A i \in 1..Len(sending') : sending'[i] = sending[i + 1]
    BY <1>1, <1>2
  <2> QED
    BY <1>2, <2>1 DEF Consecutive, TypeInv
<1>3. CASE pc' = "after" /\ hand' = hand /\ sending' = sending
  BY <1>3
<1> QED
  BY <1>2, <1>3, Zenon DEF EndInput

\* The worker keeps the order.
LEMMA WorkerTurn ==
    ASSUME TypeInv, TurnInv, Worker
    PROVE  TurnInv'
<1> ~fault /\ Consecutive(sending, nextTok)
  BY Zenon DEF TurnInv, Worker, WorkerStart, Resolved, LoopEnds, LoopWaits, send_logon, ConnWaits,
         ConnDone, TlsSetupFails, TlsWaits, TlsDone, PollDone, Rx, RxEnds, RxGarbage, TxStops,
         TxDone, IterationEnds, KeepaliveGivesUp, CallbackReturns
<1>1. CASE LoopEnds \/ KeepaliveGivesUp \/ (TlsDone /\ reset_link_state)
  <2>1. sending' = <<>> /\ hand' = None /\ pc' # "tx"
    BY <1>1 DEF LoopEnds, KeepaliveGivesUp, TlsDone, Leave, reset_link_state, WorkerKeeps
  <2> QED
    BY <2>1 DEF TurnInv, Consecutive
<1>2. CASE PollDone \/ RxEnds \/ RxGarbage
  <2>1. /\ pc # "tx" /\ nextTok' = nextTok /\ fault' = fault
        /\ \/ pc' \in {"rx", "after"} /\ hand' = hand /\ sending' = sending
           \/ \E st : EndInput(st)
    BY <1>2, Zenon DEF PollDone, RxEnds, RxGarbage
  <2> QED
    BY <2>1, EndInputTurn DEF TurnInv
<1>3. CASE send_logon \/ IterationEnds \/ Rx
  <2>1. pc # "tx" /\ pc' # "tx" /\ hand' = hand /\ fault' = fault
    BY <1>3 DEF send_logon, IterationEnds, Rx, WorkerKeeps
  <2>2. \/ sending' = sending /\ nextTok' = nextTok
        \/ \E kind, to : send_msg_impl(kind, to)
    BY <1>3, Zenon DEF send_logon, IterationEnds, KeepaliveGoesOn, Rx, RxLogonAnswer, RxDiscard,
                       RxStranger, RxUplink
  <2> QED
    BY <2>1, <2>2, SendTurn DEF TurnInv
<1>4. CASE TxStops
  <2>1. sending \in Seq(OutMsg) /\ hand \in OutMsg /\ hand.tok = nextTok - 1 - Len(sending)
    BY <1>4 DEF TxStops, TypeInv, TurnInv
  <2>2. sending' = <<hand>> \o sending /\ hand' = None /\ pc' = "after" /\ nextTok' = nextTok
    BY <1>4 DEF TxStops
  <2>3. /\ Len(sending') = Len(sending) + 1 /\ sending'[1] = hand
        /\ \A i \in 2..Len(sending') : sending'[i] = sending[i - 1]
    BY <2>1, <2>2
  <2>4. Consecutive(sending', nextTok')
    <3> SUFFICES ASSUME NEW i \in 1..Len(sending')
                 PROVE  sending'[i].tok = nextTok' - 1 - Len(sending') + i
      BY DEF Consecutive
    <3>1. Len(sending) \in Nat /\ nextTok \in Nat
      BY <2>1 DEF TypeInv
    <3>2. CASE i = 1
      BY <2>1, <2>2, <2>3, <3>1, <3>2
    <3>3. CASE i \in 2..Len(sending')
      <4>1. sending[i - 1].tok = nextTok - 1 - Len(sending) + (i - 1)
        <5>1. i - 1 \in 1..Len(sending)
          BY <2>3, <3>1, <3>3
        <5> QED
          BY <5>1 DEF Consecutive
      <4> QED
        BY <2>2, <2>3, <3>1, <3>3, <4>1
    <3> QED
      BY <2>3, <3>1, <3>2, <3>3
  <2> QED
    BY <2>2, <2>4 DEF TurnInv
<1>5. CASE TxDone
  <2>1. hand' = None /\ pc' = "after" /\ (~fault' => sending' = <<>>)
    BY <1>5, Zenon DEF TxDone
  <2> QED
    BY <2>1 DEF TurnInv, Consecutive
<1>6. CASE \/ WorkerStart \/ Resolved \/ LoopWaits \/ ConnWaits \/ ConnDone
           \/ TlsSetupFails \/ TlsWaits \/ (TlsDone /\ ~reset_link_state) \/ CallbackReturns
  <2>1. pc # "tx" /\ pc' # "tx"
    BY <1>6, Zenon DEF WorkerStart, Resolved, LoopWaits, ConnWaits, ConnDone, TlsSetupFails, TlsWaits,
                TlsDone, CallbackReturns, WorkerKeeps
  <2>2. UNCHANGED <<hand, sending, nextTok, fault>>
    BY <1>6, Zenon DEF WorkerStart, Resolved, LoopWaits, ConnWaits, ConnDone, TlsSetupFails, TlsWaits,
                TlsDone, CallbackReturns, WorkerKeeps, queueVars
  <2> QED
    BY <2>1, <2>2 DEF TurnInv
<1> QED
  BY <1>1, <1>2, <1>3, <1>4, <1>5, <1>6, Zenon DEF Worker

\* So does every step.
LEMMA StepTurn ==
    ASSUME TypeInv, LinkInv, TurnInv, [Next]_vars
    PROVE  TurnInv'
<1>1. CASE ClientWorks
  BY <1>1, WorkerTurn DEF ClientWorks, Client
<1>2. CASE SendMsg
  <2>1. ~fault /\ UNCHANGED <<pc, hand, fault>> /\ send_msg_impl("msg", logon.to)
    BY <1>2 DEF SendMsg, Client, cpdlc_client_send_msg, LockFree
  <2> QED
    BY <2>1, SendTurn DEF TurnInv
<1> DEFINE Quiet == /\ pc' = pc \/ (pc = "off" /\ pc' = "start")
                    /\ UNCHANGED <<hand, sending, nextTok, fault>>
<1>3. CASE Quiet
  BY <1>3, SMTT(30) DEF TurnInv
<1>4. React => Quiet
  BY DEF React, cpdlc_client_logon, cpdlc_client_logoff, cpdlc_client_reset_logon_failure,
         queueVars, LinkInv
<1>5. Server => Quiet
  BY Zenon DEF Server, SrvReceives, SrvDecides, SrvCloses, SrvForwards, ServerKeeps, queueVars
<1>6. AskStatus \/ Collect => Quiet
  BY DEF AskStatus, Collect, Client, cpdlc_client_get_msg_status, cpdlc_client_recv_msg, queueVars
<1>7. UNCHANGED linkVars => Quiet
  BY DEF linkVars
<1> HIDE DEF Quiet
<1> QED
  BY <1>1, <1>2, <1>3, <1>4, <1>5, <1>6, <1>7, Zenon
     DEF Next, Undefined, vars, PressR5, UpdateLogonTimeout

\* Messages leave in the order of their tokens: taking a message off the list and
\* putting it back, while the application queues others, neither reorders nor loses
\* any, for any number of messages.
THEOREM MessagesStayInTurn == Spec => []InTurn
<1>1. Init => LinkInv /\ TurnInv
  BY DEF Init, LinkInit, LinkInv, Held, Idle, LinkUp, TurnInv, Consecutive
<1>2. TypeInv /\ TurnInv => InTurn
  <2> SUFFICES ASSUME TypeInv, TurnInv, ~fault, NEW i \in DOMAIN Outgoing
               PROVE  Outgoing[i].tok = nextTok - 1 - Len(Outgoing) + i
    BY DEF InTurn
  <2>1. sending \in Seq(OutMsg) /\ Len(sending) \in Nat /\ nextTok \in Nat
    BY DEF TypeInv
  <2>2. CASE hand = None
    <3>1. Outgoing = sending
      BY <2>1, <2>2 DEF Outgoing
    <3> QED
      BY <2>1, <3>1 DEF TurnInv, Consecutive
  <2>3. CASE hand # None
    <3>1. /\ Outgoing = <<hand>> \o sending
          /\ hand.tok = nextTok - 1 - Len(sending)
      BY <2>3 DEF Outgoing, TurnInv
    <3>2. Len(Outgoing) = Len(sending) + 1 /\ i \in 1..Len(sending) + 1
      BY <2>1, <3>1
    <3>3. CASE i = 1
      BY <2>1, <3>1, <3>2, <3>3
    <3>4. CASE i \in 2..Len(sending) + 1
      <4>1. Outgoing[i] = sending[i - 1] /\ i - 1 \in 1..Len(sending)
        BY <2>1, <3>1, <3>4
      <4>2. sending[i - 1].tok = nextTok - 1 - Len(sending) + (i - 1)
        BY <4>1 DEF TurnInv, Consecutive
      <4> QED
        BY <2>1, <3>2, <3>4, <4>1, <4>2
    <3> QED
      BY <2>1, <3>2, <3>3, <3>4
  <2> QED
    BY <2>2, <2>3
<1> QED
  BY <1>1, <1>2, TypesHold, StepLink, StepTurn, PTL DEF Spec

-----------------------------------------------------------------------------
(* The data authorities.                                                   *)

\* A UM160 under way comes from a station that did name the one it names.
DownNamed == \A i \in 1..Len(down) : down[i].kind = "nda" => <<down[i].from, down[i].arg>> \in named

NameInv == named \subseteq Stations \X Stations /\ DownNamed /\ AuthorityWasNamed

\* What a step of the worker does to the messages under way to the client.
LEMMA WorkerDown ==
    ASSUME TypeInv, DownNamed, Worker, named' = named
    PROVE  DownNamed'
<1>1. \/ down' = down \/ down' = <<>>
      \/ down # <<>> /\ down' = Tail(down)
  <2>1. ASSUME NEW n, NEW failed, init_conn(n, failed) PROVE down' = <<>>
    BY <2>1, Zenon DEF init_conn, CloseSocket
  <2> QED
    BY <2>1, Zenon
       DEF Worker, WorkerStart, Resolved, LoopEnds, Leave, LoopWaits, send_logon, ConnWaits,
           ConnDone, TlsSetupFails, TlsWaits, TlsDone, PollDone, Rx, RxEnds, RxGarbage, TxStops,
           TxDone, IterationEnds, KeepaliveGivesUp, CallbackReturns, netVars, reset_link_state,
           CloseSocket
<1>2. CASE down' = down
  BY <1>2 DEF DownNamed
<1>3. CASE down' = <<>>
  BY <1>3 DEF DownNamed
<1>4. CASE down # <<>> /\ down' = Tail(down)
  <2>1. /\ Len(down) \in Nat \ {0} /\ Len(down') = Len(down) - 1
        /\ \A i \in 1..Len(down') : down'[i] = down[i + 1]
    BY <1>4 DEF TypeInv
  <2> QED
    BY <2>1, SMTT(30) DEF DownNamed
<1> QED
  BY <1>1, <1>2, <1>3, <1>4

\* The worker takes its authorities from what the pilot and such messages named.
LEMMA WorkerNames ==
    ASSUME TypeInv, NameInv, Worker, named' = named, entered' = entered
    PROVE  AuthorityWasNamed'
<1>1. CASE logon' = logon
  BY <1>1 DEF NameInv, AuthorityWasNamed
<1>2. CASE reset_link_state
  BY <1>2, ResetTypes DEF AuthorityWasNamed
<1>3. CASE send_logon
  <2>1. /\ logon'.to = IF logon.nda # None THEN logon.nda ELSE logon.to
        /\ logon'.nda = None
    BY <1>3 DEF send_logon
  <2>2. CASE logon.nda # None
    <3>1. <<logon.to, logon.nda>> \in named /\ logon.to \in Stations
      BY <2>2 DEF NameInv, AuthorityWasNamed
    <3> QED
      BY <2>1, <2>2, <3>1 DEF AuthorityWasNamed
  <2>3. CASE logon.nda = None
    BY <2>1, <2>3, Zenon DEF NameInv, AuthorityWasNamed
  <2> QED
    BY <2>2, <2>3, Zenon
<1>4. CASE Rx
  <2> DEFINE m == Head(down)
  <2>1. m \in InMsg /\ (m.kind = "nda" => <<m.from, m.arg>> \in named)
    <3>1. down \in Seq(InMsg) /\ down # <<>>
      BY <1>4 DEF TypeInv, Rx
    <3>2. m = down[1] /\ 1 \in 1..Len(down) /\ m \in InMsg
      BY <3>1
    <3> QED
      BY <3>2, Zenon DEF NameInv, DownNamed
  <2>2. RxLogonAnswer(m) \/ RxDiscard(m) \/ RxStranger(m) \/ RxUplink(m)
    BY <1>4, Zenon DEF Rx
  <2> HIDE DEF m
  <2>3. CASE RxLogonAnswer(m) \/ RxDiscard(m) \/ RxStranger(m)
    BY <1>1, <2>3, Zenon DEF RxLogonAnswer, RxDiscard, RxStranger
  <2>4. CASE RxUplink(m)
    <3>1. logon \in [do: BOOLEAN, to: Stations \cup {None}, nda: Stations \cup {None}]
      BY DEF TypeInv
    <3>2. CASE m.kind = "end" /\ logon.nda # None
      <4>1. logon' = [logon EXCEPT !.do = TRUE]
        BY <2>4, <3>2 DEF RxUplink
      <4>2. logon'.to = logon.to /\ logon'.nda = logon.nda
        BY <3>1, <4>1, SMTT(30)
      <4> QED
        BY <4>2, Zenon DEF NameInv, AuthorityWasNamed
    <3>3. CASE m.kind = "nda"
      <4>1. logon' = [logon EXCEPT !.nda = IF m.arg = logon.to THEN None ELSE m.arg]
        BY <2>4, <3>3 DEF RxUplink
      <4>2. logon'.to = logon.to /\ logon'.nda = IF m.arg = logon.to THEN None ELSE m.arg
        BY <3>1, <4>1
      <4>3. m.from = logon.to
        BY <2>4 DEF RxUplink
      <4> QED
        BY <2>1, <3>3, <4>2, <4>3 DEF NameInv, AuthorityWasNamed
    <3>4. CASE (m.kind # "end" \/ logon.nda = None) /\ m.kind # "nda"
      BY <1>1, <2>4, <3>4, SMTT(30) DEF RxUplink
    <3> QED
      BY <3>2, <3>3, <3>4, Zenon
  <2> QED
    BY <2>2, <2>3, <2>4, Zenon
<1> QED
  BY <1>1, <1>2, <1>3, <1>4, Zenon
     DEF Worker, WorkerStart, Resolved, LoopEnds, Leave, LoopWaits, ConnWaits,
         ConnDone, TlsSetupFails, TlsWaits, TlsDone, PollDone, RxEnds, RxGarbage, TxStops,
         TxDone, IterationEnds, KeepaliveGivesUp, CallbackReturns

\* What the server sends is recorded when it names a station.
LEMMA ServerNames ==
    ASSUME TypeInv, NameInv, Server
    PROVE  NameInv'
<1>1. logon' = logon /\ entered' = entered
  BY Zenon DEF Server, SrvReceives, SrvDecides, SrvCloses, SrvForwards, ServerKeeps
<1>2. down \in Seq(InMsg)
  BY DEF TypeInv
<1>3. \/ down' = down /\ named' = named
      \/ \E kind \in InKinds \ {"nda"} : Answer(kind) /\ named' = named
      \/ \E s \in Stations, arg \in Stations \cup {None}, kind \in {"text", "end", "nda"} :
            SrvForwards(s, kind, arg)
  BY Zenon DEF Server, SrvReceives, SrvLogon, SrvRefuses, SrvAccepts, SendError, SrvDecides,
               SrvCloses, InKinds
<1>4. CASE down' = down /\ named' = named
  BY <1>1, <1>4, Zenon DEF NameInv, DownNamed, AuthorityWasNamed
<1>5. ASSUME NEW kind \in InKinds, NEW from, NEW arg, named \subseteq named',
             down' = Append(down, [kind |-> kind, from |-> from, arg |-> arg]),
             kind = "nda" => <<from, arg>> \in named'
      PROVE  DownNamed'
  <2>1. /\ Len(down) \in Nat /\ Len(down') = Len(down) + 1
        /\ \A i \in 1..Len(down) : down'[i] = down[i]
        /\ down'[Len(down) + 1] = [kind |-> kind, from |-> from, arg |-> arg]
    BY <1>2, <1>5
  <2>2. ASSUME NEW i \in 1..Len(down'), down'[i].kind = "nda"
        PROVE  <<down'[i].from, down'[i].arg>> \in named'
    <3>1. CASE i \in 1..Len(down)
      BY <1>5, <2>1, <2>2, <3>1, SMTT(30) DEF NameInv, DownNamed
    <3>2. CASE i = Len(down) + 1
      BY <1>5, <2>1, <2>2, <3>2
    <3> QED
      BY <2>1, <3>1, <3>2, SMTT(30)
  <2> QED
    BY <2>2 DEF DownNamed
<1>6. ASSUME NEW kind \in InKinds \ {"nda"}, Answer(kind), named' = named
      PROVE  NameInv'
  <2>1. DownNamed'
    BY <1>5, <1>6, Zenon DEF Answer
  <2> QED
    BY <1>1, <1>6, <2>1, Zenon DEF NameInv, AuthorityWasNamed
<1>7. ASSUME NEW s \in Stations, NEW arg \in Stations \cup {None},
             NEW kind \in {"text", "end", "nda"}, SrvForwards(s, kind, arg)
      PROVE  NameInv'
  <2>1. /\ down' = Append(down, [kind |-> kind, from |-> s, arg |-> arg])
        /\ kind \in InKinds /\ named \subseteq named'
        /\ kind = "nda" => <<s, arg>> \in named'
        /\ named' \subseteq Stations \X Stations
    BY <1>7 DEF SrvForwards, InKinds, NameInv
  <2>2. DownNamed'
    BY <1>5, <2>1
  <2> QED
    BY <1>1, <2>1, <2>2, Zenon DEF NameInv, AuthorityWasNamed
<1> QED
  BY <1>3, <1>4, <1>6, <1>7

\* Every step keeps the authorities named.
LEMMA StepNames ==
    ASSUME TypeInv, EndTypes, NameInv, [Next]_vars
    PROVE  NameInv'
<1>1. CASE ClientWorks
  <2>1. Worker /\ named' = named /\ entered' = entered
    BY <1>1, Zenon DEF ClientWorks, Client
  <2> QED
    BY <2>1, WorkerDown, WorkerNames DEF NameInv
<1>2. CASE Server
  BY <1>2, ServerNames, Zenon
<1> DEFINE Quiet == logon' = logon /\ down' = down /\ named' = named /\ entered' = entered
<1>3. CASE Quiet
  BY <1>3, Zenon DEF NameInv, DownNamed, AuthorityWasNamed
<1>4. CASE React
  <2>1. CASE cpdlc_client_logon(box.to) /\ entered' = entered \cup {box.to}
    <3>1. logon' = [do |-> TRUE, to |-> box.to, nda |-> None]
      BY <2>1, Zenon DEF cpdlc_client_logon
    <3>2. down' = down /\ named' = named
      BY <1>4, <2>1, Zenon DEF React, cpdlc_client_logon, netVars
    <3>3. logon'.to = box.to /\ logon'.nda = None
      BY <3>1
    <3> QED
      BY <2>1, <3>2, <3>3, SMTT(30) DEF NameInv, DownNamed, AuthorityWasNamed
  <2>2. CASE /\ cpdlc_client_logoff \/ cpdlc_client_reset_logon_failure
             /\ UNCHANGED <<entered, early>>
    BY <1>3, <1>4, <2>2, Zenon
       DEF React, cpdlc_client_logoff, cpdlc_client_reset_logon_failure, netVars
  <2> QED
    BY <1>4, <2>1, <2>2, Zenon DEF React
<1>5. SendMsg \/ AskStatus \/ Collect => Quiet
  BY Zenon DEF SendMsg, AskStatus, Collect, Client, cpdlc_client_send_msg, cpdlc_client_get_msg_status,
         cpdlc_client_recv_msg, netVars
<1>6. UNCHANGED <<linkVars, named, entered>> => Quiet
  BY Zenon DEF linkVars
<1> HIDE DEF Quiet
<1>7. UNCHANGED vars \/ UpdateLogonTimeout \/ (\E s \in Stations : PressR5(s)) => Quiet
  BY <1>6 DEF vars, UpdateLogonTimeout, PressR5
<1> QED
  BY <1>1, <1>2, <1>3, <1>4, <1>5, <1>7, Zenon DEF Next, Undefined

\* The pilot, or a station the pilot's logon led to, chose every station the aircraft
\* takes for its data authority, whatever other stations send and however logons,
\* logoffs and END SERVICE messages interleave.
THEOREM AuthoritiesAreNamed == Spec => []AuthorityWasNamed
<1>1. Init => NameInv
  BY DEF Init, LinkInit, NameInv, DownNamed, AuthorityWasNamed
<1>2. NameInv => AuthorityWasNamed
  BY DEF NameInv
<1> QED
  BY <1>1, <1>2, TypesHold, StepNames, PTL DEF Spec

-----------------------------------------------------------------------------
(* The logon's two ends.                                                   *)

\* No LOGON is among the messages of q; exactly one is, and it is addressed to `to'.
LogonFree(q) == \A i \in 1..Len(q) : q[i].kind # "logon"
OneLogon(q, to) ==
    \E i \in 1..Len(q) : /\ q[i].kind = "logon" /\ q[i].to = to
                         /\ \A j \in 1..Len(q) : q[j].kind = "logon" => j = i

\* The same of everything on its way to the server.
HandFree == pc = "tx" => hand.kind # "logon"
NoneOut == LogonFree(sending) /\ HandFree /\ LogonFree(up)
OneOut(to) ==
    \/ OneLogon(sending, to) /\ HandFree /\ LogonFree(up)
    \/ LogonFree(sending) /\ pc = "tx" /\ hand.kind = "logon" /\ hand.to = to /\ LogonFree(up)
    \/ LogonFree(sending) /\ HandFree /\ OneLogon(up, to)

\* The messages of the server that change what the client takes its logon for: there
\* is none among q, one, or a success and the END SERVICE of the same logon.
Turning == {"success", "failure", "end"}
Calm(q) == \A i \in 1..Len(q) : q[i].kind \notin Turning
Only(q, kind, from) ==
    \E i \in 1..Len(q) : /\ q[i].kind = kind /\ q[i].from = from
                         /\ \A j \in 1..Len(q) : q[j].kind \in Turning => j = i
Both(q, from) ==
    \E i, k \in 1..Len(q) : /\ i < k /\ q[i].kind = "success"
                            /\ q[k].kind = "end" /\ q[k].from = from
                            /\ \A j \in 1..Len(q) : q[j].kind \in Turning => j \in {i, k}

\* The server has the aircraft logged on to the client's station.
Serves == srv.st = "complete" /\ srv.to = logon.to

\* No logon is under way.
Available == NoneOut /\ Calm(down) /\ srv.st = "none"

\* The LOGON is on its way, or being decided, or its answer is, perhaps with the END
\* SERVICE that the server sent after it.
Awaiting ==
    \/ OneOut(logon.to) /\ Calm(down) /\ srv.st = "none"
    \/ /\ NoneOut
       /\ \/ Calm(down) /\ srv.st = "started" /\ srv.to = logon.to
          \/ Only(down, "success", None) /\ Serves
          \/ Both(down, logon.to) /\ srv.st = "none"
          \/ Only(down, "failure", None) /\ srv.st = "none"

\* The server agrees, or the END SERVICE is on its way.
Complete ==
    /\ NoneOut
    /\ \/ Calm(down) /\ Serves
       \/ Only(down, "end", logon.to) /\ srv.st = "none"

Matched ==
    /\ status = "AVAIL" => Available
    /\ status = "IN_PROG" => ~logon.do /\ Awaiting
    /\ status = "COMPLETE" => ~logon.do /\ Complete

\* Another station's END SERVICE has ended the logon at the server, and nothing is
\* under way that would end it at the client.
Quiet(q, to) ==
    \A i \in 1..Len(q) : q[i].kind # "failure" /\ (q[i].kind = "end" => q[i].from # to)
Parted ==
    /\ status \in {"IN_PROG", "COMPLETE"} /\ ~logon.do
    /\ srv.st = "none" /\ srv.by \notin {None, logon.to}
    /\ NoneOut /\ Quiet(down, logon.to)

Dialogue == Matched \/ Parted

\* Nothing has passed over the link yet.
Unused == sending = <<>> /\ up = <<>> /\ down = <<>> /\ srv = LoggedOff

\* Where the worker has no link yet, and where it moves messages.
Unlinked == {"off", "start", "resolve", "conn", "tls"}
Working == {"poll", "rx", "tx", "after", "cb"}

\* Agreement is not inductive: it says nothing while messages are under way.  What has
\* to be known is that the client's view differs from the server's only by what is
\* under way between them, and that this always belongs to one logon.
AgreeInv ==
    /\ pc \in Unlinked \/ status \in {"CONNECTING", "HANDSHAKING"} => Unused
    /\ pc \in Unlinked => status \notin LinkUp
    /\ pc \in Working => status \notin {"CONNECTING", "HANDSHAKING"}
    /\ ~peer => srv = LoggedOff
    /\ peer /\ ~early /\ ~fault => Dialogue

\* What appending an element to a sequence does.
LEMMA SeqFacts ==
    ASSUME NEW S, NEW q \in Seq(S), NEW m \in S
    PROVE  /\ Len(q) \in Nat /\ Len(Append(q, m)) = Len(q) + 1
           /\ \A i \in 1..Len(q) : Append(q, m)[i] = q[i]
           /\ Append(q, m)[Len(q) + 1] = m
  OBVIOUS

\* What taking the first one off does.
LEMMA TailFacts ==
    ASSUME NEW S, NEW q \in Seq(S), q # <<>>
    PROVE  /\ Len(q) \in Nat \ {0} /\ Len(Tail(q)) = Len(q) - 1
           /\ \A i \in 1..(Len(q) - 1) : Tail(q)[i] = q[i + 1]
           /\ Head(q) = q[1]
  BY SMTT(30)

\* A message is appended to a queue of outgoing ones.
LEMMA LogonAppend ==
    ASSUME NEW q \in Seq(OutMsg), NEW m \in OutMsg
    PROVE  /\ LogonFree(q) /\ m.kind # "logon" => LogonFree(Append(q, m))
           /\ LogonFree(q) /\ m.kind = "logon" => OneLogon(Append(q, m), m.to)
           /\ \A to : OneLogon(q, to) /\ m.kind # "logon" => OneLogon(Append(q, m), to)
<1> DEFINE r == Append(q, m)
<1>1. /\ Len(q) \in Nat /\ Len(r) = Len(q) + 1
      /\ \A i \in 1..Len(q) : r[i] = q[i]
      /\ r[Len(q) + 1] = m
  BY SeqFacts
<1> HIDE DEF r
<1>2. \A i \in 1..Len(r) : i \in 1..Len(q) \/ i = Len(q) + 1
  BY <1>1
<1>3. LogonFree(q) /\ m.kind # "logon" => LogonFree(r)
  BY <1>1, <1>2 DEF LogonFree
<1>4. ASSUME LogonFree(q), m.kind = "logon" PROVE OneLogon(r, m.to)
  <2>1. Len(q) + 1 \in 1..Len(r)
    BY <1>1
  <2>2. \A j \in 1..Len(r) : r[j].kind = "logon" => j = Len(q) + 1
    BY <1>1, <1>2, <1>4 DEF LogonFree
  <2> QED
    BY <1>1, <1>4, <2>1, <2>2, Zenon DEF OneLogon
<1>5. ASSUME NEW to, OneLogon(q, to), m.kind # "logon" PROVE OneLogon(r, to)
  <2>1. PICK i \in 1..Len(q) : /\ q[i].kind = "logon" /\ q[i].to = to
                               /\ \A j \in 1..Len(q) : q[j].kind = "logon" => j = i
    BY <1>5, Zenon DEF OneLogon
  <2>2. i \in 1..Len(r) /\ r[i].kind = "logon" /\ r[i].to = to
    BY <1>1, <2>1
  <2>3. \A j \in 1..Len(r) : r[j].kind = "logon" => j = i
    BY <1>1, <1>2, <1>5, <2>1
  <2> QED
    BY <2>2, <2>3, Zenon DEF OneLogon
<1> QED
  BY <1>3, <1>4, <1>5, Zenon DEF r

\* The first one is taken off.
LEMMA LogonTail ==
    ASSUME NEW q \in Seq(OutMsg), q # <<>>
    PROVE  /\ LogonFree(q) => Head(q).kind # "logon" /\ LogonFree(Tail(q))
           /\ \A to : OneLogon(q, to) =>
                 \/ Head(q).kind = "logon" /\ Head(q).to = to /\ LogonFree(Tail(q))
                 \/ Head(q).kind # "logon" /\ OneLogon(Tail(q), to)
<1> DEFINE r == Tail(q)
<1>1. /\ Len(q) \in Nat \ {0} /\ Len(r) = Len(q) - 1
      /\ \A i \in 1..(Len(q) - 1) : r[i] = q[i + 1]
      /\ Head(q) = q[1]
  BY TailFacts
<1> HIDE DEF r
<1>2. \A i \in 1..Len(r) : i + 1 \in 1..Len(q) /\ r[i] = q[i + 1]
  BY <1>1
<1>3. LogonFree(q) => Head(q).kind # "logon" /\ LogonFree(r)
  BY <1>1, <1>2, SMTT(30) DEF LogonFree
<1>4. ASSUME NEW to, OneLogon(q, to)
      PROVE  \/ Head(q).kind = "logon" /\ Head(q).to = to /\ LogonFree(r)
             \/ Head(q).kind # "logon" /\ OneLogon(r, to)
  <2>1. PICK i \in 1..Len(q) : /\ q[i].kind = "logon" /\ q[i].to = to
                               /\ \A j \in 1..Len(q) : q[j].kind = "logon" => j = i
    BY <1>4, Zenon DEF OneLogon
  <2>2. CASE i = 1
    <3>1. Head(q).kind = "logon" /\ Head(q).to = to
      BY <1>1, <2>1, <2>2
    <3>2. ASSUME NEW j \in 1..Len(r) PROVE r[j].kind # "logon"
      <4>1. j + 1 \in 1..Len(q) /\ r[j] = q[j + 1] /\ j + 1 # 1
        BY <1>1, <1>2
      <4> QED
        BY <2>1, <2>2, <4>1, Zenon
    <3> QED
      BY <3>1, <3>2 DEF LogonFree
  <2>3. CASE i # 1
    <3>1. i - 1 \in 1..Len(r) /\ r[i - 1] = q[i] /\ 1 \in 1..Len(q)
      BY <1>1, <2>3
    <3>2. ASSUME NEW j \in 1..Len(r), r[j].kind = "logon" PROVE j = i - 1
      <4>1. j + 1 \in 1..Len(q) /\ q[j + 1].kind = "logon"
        BY <1>2, <3>2
      <4>2. j + 1 = i
        BY <2>1, <4>1, Zenon
      <4> QED
        BY <4>2
    <3>3. OneLogon(r, to)
      BY <2>1, <3>1, <3>2, Zenon DEF OneLogon
    <3> QED
      BY <1>1, <2>1, <2>3, <3>1, <3>3
  <2> QED
    BY <2>2, <2>3
<1> QED
  BY <1>3, <1>4 DEF r

\* Putting the message in hand back to the head of the list.
LEMMA LogonBack ==
    ASSUME NEW q \in Seq(OutMsg), NEW m \in OutMsg
    PROVE  /\ LogonFree(q) /\ m.kind # "logon" => LogonFree(<<m>> \o q)
           /\ LogonFree(q) /\ m.kind = "logon" => OneLogon(<<m>> \o q, m.to)
           /\ \A to : OneLogon(q, to) /\ m.kind # "logon" => OneLogon(<<m>> \o q, to)
<1> DEFINE r == <<m>> \o q
<1>1. /\ Len(q) \in Nat /\ Len(r) = Len(q) + 1 /\ r[1] = m
      /\ \A i \in 2..Len(r) : r[i] = q[i - 1]
  OBVIOUS
<1> HIDE DEF r
<1>2. \A i \in 1..Len(r) : i = 1 \/ (i - 1 \in 1..Len(q) /\ r[i] = q[i - 1])
  BY <1>1
<1>3. LogonFree(q) /\ m.kind # "logon" => LogonFree(r)
  BY <1>1, <1>2, Zenon DEF LogonFree
<1>4. ASSUME LogonFree(q), m.kind = "logon" PROVE OneLogon(r, m.to)
  <2>1. 1 \in 1..Len(r)
    BY <1>1
  <2>2. \A j \in 1..Len(r) : r[j].kind = "logon" => j = 1
    BY <1>1, <1>2, <1>4 DEF LogonFree
  <2> QED
    BY <1>1, <1>4, <2>1, <2>2, Zenon DEF OneLogon
<1>5. ASSUME NEW to, OneLogon(q, to), m.kind # "logon" PROVE OneLogon(r, to)
  <2>1. PICK i \in 1..Len(q) : /\ q[i].kind = "logon" /\ q[i].to = to
                               /\ \A j \in 1..Len(q) : q[j].kind = "logon" => j = i
    BY <1>5, Zenon DEF OneLogon
  <2>2. i + 1 \in 1..Len(r) /\ r[i + 1].kind = "logon" /\ r[i + 1].to = to
    <3>1. i + 1 \in 2..Len(r) /\ (i + 1) - 1 = i
      BY <1>1
    <3>2. r[i + 1] = q[i]
      BY <1>1, <3>1
    <3> QED
      BY <2>1, <3>1, <3>2
  <2>3. \A j \in 1..Len(r) : r[j].kind = "logon" => j = i + 1
    BY <1>1, <1>2, <1>5, <2>1, SMTT(30)
  <2> QED
    BY <2>2, <2>3, Zenon DEF OneLogon
<1> QED
  BY <1>3, <1>4, <1>5 DEF r

\* A message is appended to those on their way to the client.
LEMMA TurningAppend ==
    ASSUME NEW q \in Seq(InMsg), NEW m \in InMsg
    PROVE  /\ m.kind \notin Turning =>
                 /\ Calm(q) => Calm(Append(q, m))
                 /\ \A kind, from : Only(q, kind, from) => Only(Append(q, m), kind, from)
                 /\ \A from : Both(q, from) => Both(Append(q, m), from)
           /\ m.kind \in Turning /\ Calm(q) => Only(Append(q, m), m.kind, m.from)
           /\ m.kind = "end" /\ Only(q, "success", None) => Both(Append(q, m), m.from)
<1> DEFINE r == Append(q, m)
<1>1. /\ Len(q) \in Nat /\ Len(r) = Len(q) + 1
      /\ \A i \in 1..Len(q) : r[i] = q[i]
      /\ r[Len(q) + 1] = m
  BY SeqFacts
<1> HIDE DEF r
<1>2. \A i \in 1..Len(r) : i \in 1..Len(q) \/ i = Len(q) + 1
  BY <1>1
<1>3. Calm(q) /\ m.kind \notin Turning => Calm(r)
  BY <1>1, <1>2, SMTT(30) DEF Calm
<1>4. ASSUME NEW kind, NEW from, Only(q, kind, from), m.kind \notin Turning
      PROVE  Only(r, kind, from)
  <2>1. PICK i \in 1..Len(q) : /\ q[i].kind = kind /\ q[i].from = from
                               /\ \A j \in 1..Len(q) : q[j].kind \in Turning => j = i
    BY <1>4, Zenon DEF Only
  <2>2. i \in 1..Len(r) /\ r[i].kind = kind /\ r[i].from = from
    BY <1>1, <2>1
  <2>3. \A j \in 1..Len(r) : r[j].kind \in Turning => j = i
    BY <1>1, <1>2, <1>4, <2>1
  <2> QED
    BY <2>2, <2>3, Zenon DEF Only
<1>5. ASSUME NEW from, Both(q, from), m.kind \notin Turning PROVE Both(r, from)
  <2>1. PICK i \in 1..Len(q), k \in 1..Len(q) :
               /\ i < k /\ q[i].kind = "success" /\ q[k].kind = "end" /\ q[k].from = from
               /\ \A j \in 1..Len(q) : q[j].kind \in Turning => j \in {i, k}
    BY <1>5, Zenon DEF Both
  <2>2. /\ i \in 1..Len(r) /\ k \in 1..Len(r)
        /\ r[i].kind = "success" /\ r[k].kind = "end" /\ r[k].from = from
    BY <1>1, <2>1
  <2>3. \A j \in 1..Len(r) : r[j].kind \in Turning => j \in {i, k}
    BY <1>1, <1>2, <1>5, <2>1, Zenon
  <2> QED
    BY <2>1, <2>2, <2>3, Zenon DEF Both
<1>6. ASSUME Calm(q), m.kind \in Turning PROVE Only(r, m.kind, m.from)
  <2>1. Len(q) + 1 \in 1..Len(r)
    BY <1>1
  <2>2. \A j \in 1..Len(r) : r[j].kind \in Turning => j = Len(q) + 1
    BY <1>1, <1>2, <1>6 DEF Calm
  <2> QED
    BY <1>1, <2>1, <2>2, Zenon DEF Only
<1>7. ASSUME Only(q, "success", None), m.kind = "end" PROVE Both(r, m.from)
  <2>1. PICK i \in 1..Len(q) : /\ q[i].kind = "success" /\ q[i].from = None
                               /\ \A j \in 1..Len(q) : q[j].kind \in Turning => j = i
    BY <1>7, Zenon DEF Only
  <2>2. /\ i \in 1..Len(r) /\ Len(q) + 1 \in 1..Len(r) /\ i < Len(q) + 1
        /\ r[i].kind = "success" /\ r[Len(q) + 1].kind = "end" /\ r[Len(q) + 1].from = m.from
    BY <1>1, <1>7, <2>1
  <2>3. \A j \in 1..Len(r) : r[j].kind \in Turning => j \in {i, Len(q) + 1}
    BY <1>1, <1>2, <2>1, Zenon
  <2> QED
    BY <2>2, <2>3, Zenon DEF Both
<1> QED
  BY <1>3, <1>4, <1>5, <1>6, <1>7, Zenon DEF r

\* The first of these is read.
LEMMA TurningTail ==
    ASSUME NEW q \in Seq(InMsg), q # <<>>
    PROVE  /\ Calm(q) => Head(q).kind \notin Turning /\ Calm(Tail(q))
           /\ \A kind \in Turning : \A from : Only(q, kind, from) =>
                 \/ Head(q).kind = kind /\ Head(q).from = from /\ Calm(Tail(q))
                 \/ Head(q).kind \notin Turning /\ Only(Tail(q), kind, from)
           /\ \A from : Both(q, from) =>
                 \/ Head(q).kind = "success" /\ Only(Tail(q), "end", from)
                 \/ Head(q).kind \notin Turning /\ Both(Tail(q), from)
<1> DEFINE r == Tail(q)
<1>1. /\ Len(q) \in Nat \ {0} /\ Len(r) = Len(q) - 1
      /\ \A i \in 1..(Len(q) - 1) : r[i] = q[i + 1]
      /\ Head(q) = q[1]
  BY TailFacts
<1> HIDE DEF r
<1>2. \A i \in 1..Len(r) : i + 1 \in 1..Len(q) /\ r[i] = q[i + 1]
  BY <1>1
<1>3. \A i \in 1..Len(q) : i # 1 => i - 1 \in 1..Len(r) /\ r[i - 1] = q[i] /\ 1 \in 1..Len(q)
  BY <1>1
<1>4. ASSUME Calm(q) PROVE Head(q).kind \notin Turning /\ Calm(r)
  <2>1. 1 \in 1..Len(q)
    BY <1>1
  <2>2. Head(q).kind \notin Turning
    BY <1>1, <1>4, <2>1 DEF Calm
  <2>3. Calm(r)
    BY <1>2, <1>4, Zenon DEF Calm
  <2> QED
    BY <2>2, <2>3
<1>5. ASSUME NEW kind \in Turning, NEW from, Only(q, kind, from)
      PROVE  \/ Head(q).kind = kind /\ Head(q).from = from /\ Calm(r)
             \/ Head(q).kind \notin Turning /\ Only(r, kind, from)
  <2>1. PICK i \in 1..Len(q) : /\ q[i].kind = kind /\ q[i].from = from
                               /\ \A j \in 1..Len(q) : q[j].kind \in Turning => j = i
    BY <1>5, Zenon DEF Only
  <2>2. CASE i = 1
    BY <1>1, <1>2, <2>1, <2>2, SMTT(30) DEF Calm
  <2>3. CASE i # 1
    <3>1. i - 1 \in 1..Len(r) /\ r[i - 1] = q[i] /\ 1 \in 1..Len(q)
      BY <1>3, <2>3, SMTT(30)
    <3>2. ASSUME NEW j \in 1..Len(r), r[j].kind \in Turning PROVE j = i - 1
      <4>1. j + 1 \in 1..Len(q) /\ q[j + 1].kind \in Turning
        BY <1>2, <3>2
      <4>2. j + 1 = i
        BY <2>1, <4>1
      <4> QED
        BY <4>2
    <3>3. Only(r, kind, from)
      BY <2>1, <3>1, <3>2, Zenon DEF Only
    <3> QED
      BY <1>1, <2>1, <2>3, <3>1, <3>3
  <2> QED
    BY <2>2, <2>3
<1>6. ASSUME NEW from, Both(q, from)
      PROVE  \/ Head(q).kind = "success" /\ Only(r, "end", from)
             \/ Head(q).kind \notin Turning /\ Both(r, from)
  <2>1. PICK i \in 1..Len(q), k \in 1..Len(q) :
               /\ i < k /\ q[i].kind = "success" /\ q[k].kind = "end" /\ q[k].from = from
               /\ \A j \in 1..Len(q) : q[j].kind \in Turning => j \in {i, k}
    BY <1>6, Zenon DEF Both
  <2>2. k - 1 \in 1..Len(r) /\ r[k - 1] = q[k] /\ 1 \in 1..Len(q)
    BY <1>3, <2>1
  <2>3. CASE i = 1
    <3>1. \A j \in 1..Len(r) : r[j].kind \in Turning => j = k - 1
      BY <1>1, <1>2, <2>1, <2>3, SMTT(30)
    <3>2. Only(r, "end", from)
      BY <2>1, <2>2, <3>1, Zenon DEF Only
    <3> QED
      BY <1>1, <2>1, <2>3, <3>2
  <2>4. CASE i # 1
    <3>1. i - 1 \in 1..Len(r) /\ r[i - 1] = q[i] /\ i - 1 < k - 1
      BY <1>3, <2>1, <2>4, SMTT(30)
    <3>2. ASSUME NEW j \in 1..Len(r), r[j].kind \in Turning PROVE j \in {i - 1, k - 1}
      <4>1. j + 1 \in 1..Len(q) /\ q[j + 1].kind \in Turning
        BY <1>2, <3>2, SMTT(30)
      <4>2. j + 1 \in {i, k}
        BY <2>1, <4>1
      <4> QED
        BY <4>2
    <3>3. Both(r, from)
      BY <2>1, <2>2, <3>1, <3>2, ZenonT(30) DEF Both
    <3> QED
      BY <1>1, <2>1, <2>2, <2>4, <3>3
  <2> QED
    BY <2>3, <2>4
<1> QED
  BY <1>4, <1>5, <1>6 DEF r

\* A message that does not end the logon is appended.
LEMMA QuietAppend ==
    ASSUME NEW q \in Seq(InMsg), NEW kind \in InKinds, NEW from \in Stations \cup {None},
           NEW arg \in Stations \cup {None}, NEW to,
           kind # "failure", kind = "end" => from # to, Quiet(q, to)
    PROVE  Quiet(Append(q, [kind |-> kind, from |-> from, arg |-> arg]), to)
<1> DEFINE m == [kind |-> kind, from |-> from, arg |-> arg]
           r == Append(q, m)
<1>1. m \in InMsg /\ m.kind = kind /\ m.from = from
  BY DEF InMsg
<1> HIDE DEF m
<1>2. /\ Len(q) \in Nat /\ Len(r) = Len(q) + 1
      /\ \A i \in 1..Len(q) : r[i] = q[i]
      /\ r[Len(q) + 1] = m
  BY <1>1, SeqFacts
<1> HIDE DEF r
<1>3. \A i \in 1..Len(r) : i \in 1..Len(q) \/ i = Len(q) + 1
  BY <1>2
<1>4. Quiet(r, to)
  BY <1>1, <1>2, <1>3 DEF Quiet
<1> QED
  BY <1>4 DEF r, m

\* The first is read.
LEMMA QuietTail ==
    ASSUME NEW q \in Seq(InMsg), q # <<>>, NEW to, Quiet(q, to)
    PROVE  /\ Head(q).kind # "failure" /\ (Head(q).kind = "end" => Head(q).from # to)
           /\ Quiet(Tail(q), to)
<1> DEFINE r == Tail(q)
<1>1. /\ Len(q) \in Nat \ {0} /\ Len(r) = Len(q) - 1
      /\ \A i \in 1..(Len(q) - 1) : r[i] = q[i + 1]
      /\ Head(q) = q[1]
  BY TailFacts
<1> HIDE DEF r
<1>2. 1 \in 1..Len(q) /\ \A i \in 1..Len(r) : i + 1 \in 1..Len(q) /\ r[i] = q[i + 1]
  BY <1>1
<1>3. Quiet(r, to)
  BY <1>2, Zenon DEF Quiet
<1> QED
  BY <1>1, <1>2, <1>3 DEF Quiet, r

\* Neither a success alone nor the lack of an answer ends a logon at the client.
LEMMA QuietBefore ==
    ASSUME NEW q, NEW to, Calm(q) \/ Only(q, "success", None)
    PROVE  Quiet(q, to)
<1>1. CASE Calm(q)
  BY <1>1 DEF Calm, Quiet, Turning
<1>2. CASE Only(q, "success", None)
  <2>1. PICK i \in 1..Len(q) : /\ q[i].kind = "success"
                               /\ \A j \in 1..Len(q) : q[j].kind \in Turning => j = i
    BY <1>2, Zenon DEF Only
  <2>2. \A j \in 1..Len(q) : q[j].kind \in Turning => q[j].kind = "success"
    BY <2>1, Zenon
  <2> QED
    BY <2>2 DEF Quiet, Turning
<1> QED
  BY <1>1, <1>2

\* Steps that leave the dialogue alone.
LEMMA AgreeSame ==
    ASSUME AgreeInv, UNCHANGED <<status, logon, sending, up, down, srv, peer, fault>>,
           early => early',
           \/ pc' = pc /\ hand' = hand
           \/ pc # "tx" /\ pc' # "tx",
           pc' \in Unlinked => pc \in Unlinked \/ status \in {"CONNECTING", "HANDSHAKING"},
           pc' \in Working => pc \in Working \/ status \notin {"CONNECTING", "HANDSHAKING"}
    PROVE  AgreeInv'
<1>1. NoneOut => NoneOut'
  BY Zenon DEF NoneOut, HandFree, LogonFree
<1>2. ASSUME NEW to, OneOut(to) PROVE OneOut(to)'
  BY <1>2, Zenon DEF OneOut, HandFree, LogonFree, OneLogon
<1>3. Dialogue => Dialogue'
  <2>1. Matched => Matched'
    BY <1>1, <1>2, Zenon DEF Matched, Available, Awaiting, Complete, Serves, Calm, Only, Both
  <2>2. Parted => Parted'
    BY <1>1, Zenon DEF Parted, Quiet
  <2> QED
    BY <2>1, <2>2, Zenon DEF Dialogue
<1>4. Unused => Unused'
  BY DEF Unused
<1> QED
  BY <1>3, <1>4 DEF AgreeInv, Unlinked, Working, LinkUp

\* The link is given up.
LEMMA AgreeDown ==
    ASSUME AgreeInv, status' = "NONE", pc' \notin Unlinked, ~peer' => srv' = LoggedOff
    PROVE  AgreeInv'
<1>1. Dialogue'
  BY DEF Dialogue, Matched
<1> QED
  BY <1>1 DEF AgreeInv, LinkUp, Unlinked

\* A link over which nothing has passed.
LEMMA AgreeUnused ==
    ASSUME Unused', pc' \in {"off", "top"}, status' \notin {"IN_PROG", "COMPLETE"},
           pc' = "off" => status' = "NONE"
    PROVE  AgreeInv'
<1>1. Available'
  BY DEF Available, Unused, NoneOut, HandFree, LogonFree, Calm, LoggedOff
<1>2. Dialogue'
  BY <1>1 DEF Dialogue, Matched
<1> QED
  BY <1>2 DEF AgreeInv, LinkUp, Unlinked, Unused, Working

\* Steps that only move what is on its way to the server.
LEMMA AgreeOut ==
    ASSUME AgreeInv, ~fault, UNCHANGED <<status, logon, down, srv, peer, early>>,
           NoneOut => NoneOut',
           \A to : OneOut(to) => OneOut(to)',
           status \notin {"CONNECTING", "HANDSHAKING"}, pc' \notin Unlinked
    PROVE  AgreeInv'
<1>1. Dialogue => Dialogue'
  <2>1. Matched => Matched'
    BY Zenon DEF Matched, Available, Awaiting, Complete, Serves
  <2>2. Parted => Parted'
    BY Zenon DEF Parted
  <2> QED
    BY <2>1, <2>2, Zenon DEF Dialogue
<1> QED
  BY <1>1 DEF AgreeInv, LinkUp, Unlinked

\* A message other than a LOGON is queued.
LEMMA OutSend ==
    ASSUME TypeInv, NEW kind \in OutKinds \ {"logon"}, NEW dest \in Stations \cup {None},
           send_msg_impl(kind, dest), up' = up,
           \/ pc' = pc /\ hand' = hand
           \/ pc # "tx" /\ pc' # "tx"
    PROVE  (NoneOut => NoneOut') /\ \A to : OneOut(to) => OneOut(to)'
<1> DEFINE m == [tok |-> nextTok, kind |-> kind, to |-> dest]
<1>1. m \in OutMsg /\ m.kind # "logon" /\ sending \in Seq(OutMsg)
  BY Zenon DEF TypeInv, OutMsg
<1>2. sending' = Append(sending, m)
  BY Zenon DEF send_msg_impl
<1> HIDE DEF m
<1>3. /\ LogonFree(sending) => LogonFree(sending')
      /\ \A to : OneLogon(sending, to) => OneLogon(sending', to)
  BY <1>1, <1>2, LogonAppend
<1>4. HandFree = HandFree'
  BY DEF HandFree
<1>5. NoneOut => NoneOut'
  BY <1>3, <1>4, Zenon DEF NoneOut
<1>6. ASSUME NEW to, OneOut(to) PROVE OneOut(to)'
  BY <1>3, <1>4, <1>6 DEF OneOut
<1> QED
  BY <1>5, <1>6, Zenon

\* The worker takes the first message off the list.
LEMMA OutTake ==
    ASSUME TypeInv, pc # "tx", NEW st, EndInput(st), up' = up
    PROVE  (NoneOut => NoneOut') /\ \A to : OneOut(to) => OneOut(to)'
<1> HandFree /\ sending \in Seq(OutMsg)
  BY DEF HandFree, TypeInv
<1>1. CASE pc' = "tx" /\ hand' = Head(sending) /\ sending' = Tail(sending) /\ sending # <<>>
  <2>1. /\ LogonFree(sending) => HandFree' /\ LogonFree(sending')
        /\ \A to : OneLogon(sending, to) =>
              \/ hand'.kind = "logon" /\ hand'.to = to /\ LogonFree(sending')
              \/ HandFree' /\ OneLogon(sending', to)
    BY <1>1, LogonTail, Zenon DEF HandFree
  <2>2. NoneOut => NoneOut'
    BY <2>1, Zenon DEF NoneOut
  <2>3. ASSUME NEW to, OneOut(to) PROVE OneOut(to)'
    BY <1>1, <2>1, <2>3, ZenonT(30) DEF OneOut
  <2> QED
    BY <2>2, <2>3, Zenon
<1>2. CASE pc' = "after" /\ hand' = hand /\ sending' = sending
  BY <1>2 DEF NoneOut, OneOut, HandFree
<1> QED
  BY <1>1, <1>2, Zenon DEF EndInput

\* It puts the message back.
LEMMA OutBack ==
    ASSUME TypeInv, TxStops
    PROVE  (NoneOut => NoneOut') /\ \A to : OneOut(to) => OneOut(to)'
<1>1. /\ sending \in Seq(OutMsg) /\ hand \in OutMsg /\ pc = "tx" /\ up' = up
      /\ sending' = <<hand>> \o sending /\ HandFree'
  BY Zenon DEF TxStops, TypeInv, netVars, HandFree
<1>2. /\ LogonFree(sending) /\ hand.kind # "logon" => LogonFree(sending')
      /\ LogonFree(sending) /\ hand.kind = "logon" => OneLogon(sending', hand.to)
      /\ \A to : OneLogon(sending, to) /\ hand.kind # "logon" => OneLogon(sending', to)
  BY <1>1, LogonBack, Zenon
<1>3. NoneOut => NoneOut'
  BY <1>1, <1>2, ZenonT(30) DEF NoneOut, HandFree
<1>4. ASSUME NEW to, OneOut(to) PROVE OneOut(to)'
  BY <1>1, <1>2, <1>4 DEF OneOut, HandFree
<1> QED
  BY <1>3, <1>4, Zenon

\* It has written it.
LEMMA OutWritten ==
    ASSUME TypeInv, peer, TxDone
    PROVE  (NoneOut => NoneOut') /\ \A to : OneOut(to) => OneOut(to)'
<1>1. /\ up \in Seq(OutMsg) /\ hand \in OutMsg /\ pc = "tx" /\ sending' = sending
      /\ up' = Append(up, hand) /\ HandFree'
  BY Zenon DEF TxDone, TypeInv, HandFree
<1>2. /\ LogonFree(up) /\ hand.kind # "logon" => LogonFree(up')
      /\ LogonFree(up) /\ hand.kind = "logon" => OneLogon(up', hand.to)
      /\ \A to : OneLogon(up, to) /\ hand.kind # "logon" => OneLogon(up', to)
  BY <1>1, LogonAppend, Zenon
<1>3. NoneOut => NoneOut'
  BY <1>1, <1>2, Zenon DEF NoneOut, HandFree
<1>4. ASSUME NEW to, OneOut(to) PROVE OneOut(to)'
  BY <1>1, <1>2, <1>4, Zenon DEF OneOut, HandFree
<1> QED
  BY <1>3, <1>4, Zenon

\* The server has read one: the LOGON, if one was on its way, or another message.
LEMMA OutRead ==
    ASSUME TypeInv, up # <<>>, up' = Tail(up), UNCHANGED <<sending, hand, pc>>
    PROVE  /\ NoneOut => NoneOut' /\ Head(up).kind # "logon"
           /\ \A to : OneOut(to) => \/ Head(up).kind = "logon" /\ Head(up).to = to /\ NoneOut'
                                    \/ Head(up).kind # "logon" /\ OneOut(to)'
<1>1. up \in Seq(OutMsg)
  BY ZenonT(30) DEF TypeInv
<1>2. /\ LogonFree(up) => Head(up).kind # "logon" /\ LogonFree(up')
      /\ \A to : OneLogon(up, to) =>
            \/ Head(up).kind = "logon" /\ Head(up).to = to /\ LogonFree(up')
            \/ Head(up).kind # "logon" /\ OneLogon(up', to)
  BY <1>1, LogonTail, ZenonT(30)
<1>3. /\ LogonFree(sending) = LogonFree(sending') /\ HandFree = HandFree'
      /\ \A to : OneLogon(sending, to) = OneLogon(sending', to)
  BY DEF HandFree
<1>4. NoneOut => NoneOut' /\ Head(up).kind # "logon"
  BY <1>2, <1>3, Zenon DEF NoneOut
<1>5. ASSUME NEW to, OneOut(to)
      PROVE  \/ Head(up).kind = "logon" /\ Head(up).to = to /\ NoneOut'
             \/ Head(up).kind # "logon" /\ OneOut(to)'
  BY <1>2, <1>3, <1>5, Zenon DEF OneOut, NoneOut
<1> QED
  BY <1>4, <1>5, Zenon

\* The client reads a message of the server.
LEMMA RxAgrees ==
    ASSUME TypeInv, AgreeInv, Rx, srv' = srv, early' = early
    PROVE  AgreeInv'
<1> DEFINE m == Head(down)
<1>1. /\ pc = "rx" /\ pc' = "rx" /\ ~fault /\ down # <<>> /\ down' = Tail(down)
      /\ UNCHANGED <<up, hand, peer>> /\ down \in Seq(InMsg)
      /\ logon \in [do: BOOLEAN, to: Stations \cup {None}, nda: Stations \cup {None}]
  BY DEF Rx, TypeInv
<1>2. RxLogonAnswer(m) \/ RxDiscard(m) \/ RxStranger(m) \/ RxUplink(m)
  BY Zenon DEF Rx
<1>3. m \in InMsg
  BY <1>1, SMTT(30)
<1>4. /\ Calm(down) => m.kind \notin Turning /\ Calm(down')
      /\ \A kind \in Turning : \A from : Only(down, kind, from) =>
            \/ m.kind = kind /\ m.from = from /\ Calm(down')
            \/ m.kind \notin Turning /\ Only(down', kind, from)
      /\ \A from : Both(down, from) =>
            \/ m.kind = "success" /\ Only(down', "end", from)
            \/ m.kind \notin Turning /\ Both(down', from)
  BY <1>1, TurningTail
<1> HIDE DEF m
<1>5. (NoneOut => NoneOut') /\ \A to : OneOut(to) => OneOut(to)'
  <2>1. CASE sending' = sending
    BY <1>1, <2>1, Zenon DEF NoneOut, OneOut, HandFree
  <2>2. ASSUME NEW kind \in {"version", "notcda"}, NEW to \in Stations \cup {None},
               send_msg_impl(kind, to)
        PROVE  (NoneOut => NoneOut') /\ \A t : OneOut(t) => OneOut(t)'
    BY <1>1, <2>2, OutSend, Zenon DEF OutKinds
  <2>3. logon.to \in Stations \cup {None} /\ m.from \in Stations \cup {None}
    BY <1>1, <1>3 DEF InMsg
  <2> QED
    BY <1>2, <2>1, <2>2, <2>3, Zenon DEF RxLogonAnswer, RxDiscard, RxStranger, RxUplink
<1>6. "success" \in Turning /\ "failure" \in Turning /\ "end" \in Turning
  BY Zenon DEF Turning
<1>7. ASSUME Matched PROVE Matched'
  <2>1. CASE RxLogonAnswer(m)
    <3>1. /\ status = "IN_PROG" /\ m.kind \in {"success", "failure"} /\ logon' = logon
          /\ m.kind = "success" => status' = "COMPLETE"
          /\ m.kind = "failure" => status' = "AVAIL"
      BY <2>1, Zenon DEF RxLogonAnswer
    <3>2. m.kind \in Turning /\ ~logon.do /\ Awaiting
      BY <1>7, <3>1 DEF Turning, Matched
    <3>3. /\ NoneOut
          /\ \/ Only(down, "success", None) /\ Serves
             \/ Both(down, logon.to) /\ srv.st = "none"
             \/ Only(down, "failure", None) /\ srv.st = "none"
      BY <1>4, <3>2, Zenon DEF Awaiting
    <3>4. CASE Only(down, "success", None) /\ Serves
      <4>1. m.kind = "success" /\ Calm(down')
        BY <1>4, <1>6, <3>2, <3>4, Zenon
      <4>2. Complete' /\ ~logon'.do /\ status' = "COMPLETE"
        BY <1>5, <3>1, <3>2, <3>3, <3>4, <4>1, Zenon DEF Complete, Serves
      <4> QED
        BY <4>2, Zenon DEF Matched
    <3>5. CASE Both(down, logon.to) /\ srv.st = "none"
      <4>1. m.kind = "success" /\ Only(down', "end", logon.to)
        BY <1>4, <3>2, <3>5, ZenonT(30)
      <4>2. Complete' /\ ~logon'.do /\ status' = "COMPLETE"
        BY <1>5, <3>1, <3>2, <3>3, <3>5, <4>1 DEF Complete
      <4> QED
        BY <4>2 DEF Matched
    <3>6. CASE Only(down, "failure", None) /\ srv.st = "none"
      <4>1. m.kind = "failure" /\ Calm(down')
        BY <1>4, <1>6, <3>2, <3>6, Zenon
      <4>2. Available' /\ status' = "AVAIL"
        BY <1>5, <3>1, <3>3, <3>6, <4>1, Zenon DEF Available
      <4> QED
        BY <4>2, Zenon DEF Matched
    <3> QED
      BY <3>3, <3>4, <3>5, <3>6, ZenonT(30)
  <2>2. ASSUME m.kind \notin Turning, status' = status, logon'.to = logon.to, logon'.do = logon.do
        PROVE  Matched'
    <3>1. /\ Calm(down) => Calm(down')
          /\ \A kind \in Turning : \A from : Only(down, kind, from) => Only(down', kind, from)
          /\ \A from : Both(down, from) => Both(down', from)
      BY <1>4, <1>6, <2>2, Zenon
    <3>2. Available => Available'
      BY <1>5, <3>1, Zenon DEF Available
    <3>3. Awaiting => Awaiting'
      BY <1>5, <1>6, <2>2, <3>1, ZenonT(30) DEF Awaiting, Serves
    <3>4. Complete => Complete'
      BY <1>5, <1>6, <2>2, <3>1, Zenon DEF Complete, Serves
    <3> QED
      BY <1>7, <2>2, <3>2, <3>3, <3>4, Zenon DEF Matched
  <2>3. CASE RxDiscard(m)
    <3>1. /\ UNCHANGED <<status, logon>>
          /\ \/ m.kind = "pong"
             \/ m.kind \in {"success", "failure"} /\ status # "IN_PROG"
             \/ status # "COMPLETE" /\ m.kind \notin {"success", "failure"}
      BY <2>3, Zenon DEF RxDiscard
    <3>2. CASE m.kind \notin Turning
      BY <2>2, <3>1, <3>2, Zenon
    <3>3. CASE m.kind \in Turning
      <4>1. status # "AVAIL"
        BY <1>4, <1>7, <3>3 DEF Matched, Available
      <4>2. status # "IN_PROG"
        <5> SUFFICES ASSUME status = "IN_PROG" PROVE FALSE
          BY Zenon
        <5>1. m.kind = "end" /\ Awaiting
          BY <1>7, <3>1, <3>3, Zenon DEF Turning, Matched
        <5>2. ~Calm(down)
          BY <1>4, <3>3, Zenon
        <5>3. ~Only(down, "success", None) /\ ~Only(down, "failure", None)
          BY <1>4, <1>6, <3>3, <5>1, ZenonT(30)
        <5>4. ~Both(down, logon.to)
          BY <1>4, <3>3, <5>1
        <5> QED
          BY <5>1, <5>2, <5>3, <5>4, Zenon DEF Awaiting
      <4>3. status # "COMPLETE"
        <5> SUFFICES ASSUME status = "COMPLETE" PROVE FALSE
          BY Zenon
        <5>1. m.kind \in {"success", "failure"} /\ Complete
          BY <1>7, <3>1, <3>3, Zenon DEF Turning, Matched
        <5>2. ~Calm(down) /\ ~Only(down, "end", logon.to)
          BY <1>4, <1>6, <3>3, <5>1, Zenon
        <5> QED
          BY <5>1, <5>2, Zenon DEF Complete
      <4> QED
        BY <3>1, <4>1, <4>2, <4>3, Zenon DEF Matched
    <3> QED
      BY <3>2, <3>3, Zenon
  <2>4. CASE RxStranger(m)
    <3>1. /\ UNCHANGED <<status, logon>> /\ status = "COMPLETE"
          /\ m.kind \in Uplinks /\ m.from # logon.to
      BY <2>4 DEF RxStranger
    <3>2. m.kind \notin Turning
      <4> SUFFICES ASSUME m.kind \in Turning PROVE FALSE
        OBVIOUS
      <4>1. Complete
        BY <1>7, <3>1, Zenon DEF Matched
      <4>2. ~Calm(down) /\ ~Only(down, "end", logon.to)
        BY <1>4, <1>6, <3>1, Zenon
      <4> QED
        BY <4>1, <4>2, Zenon DEF Complete
    <3> QED
      BY <2>2, <3>1, <3>2
  <2>5. CASE RxUplink(m)
    <3>1. status = "COMPLETE" /\ m.kind \in Uplinks /\ m.from = logon.to /\ Complete /\ ~logon.do
      BY <1>7, <2>5, Zenon DEF RxUplink, Matched
    <3>2. CASE m.kind = "end"
      <4>1. status' \in {"AVAIL", "NONE"}
        BY <2>5, <3>2, Zenon DEF RxUplink
      <4>2. ~Calm(down)
        BY <1>4, <1>6, <3>2
      <4>3. NoneOut /\ Only(down, "end", logon.to) /\ srv.st = "none"
        BY <3>1, <4>2, Zenon DEF Complete
      <4>4. Calm(down')
        BY <1>4, <1>6, <3>2, <4>3, Zenon
      <4>5. Available'
        BY <1>5, <4>3, <4>4 DEF Available
      <4> QED
        BY <4>1, <4>5 DEF Matched
    <3>3. CASE m.kind # "end"
      <4>1. m.kind \notin Turning
        BY <3>1, <3>3 DEF Uplinks, Turning
      <4>2. /\ status' = status
            /\ \/ logon' = logon
               \/ \E n : logon' = [logon EXCEPT !.nda = n]
        BY <2>5, <3>3 DEF RxUplink
      <4>3. logon'.to = logon.to /\ logon'.do = logon.do
        BY <1>1, <4>2
      <4> QED
        BY <2>2, <4>1, <4>2, <4>3
    <3> QED
      BY <3>2, <3>3
  <2> QED
    BY <1>2, <2>1, <2>3, <2>4, <2>5, Zenon
<1>p. ASSUME Parted PROVE Parted'
  <2>1. /\ m.kind # "failure" /\ (m.kind = "end" => m.from # logon.to)
        /\ Quiet(down', logon.to)
    BY <1>1, <1>p, QuietTail, Zenon DEF Parted, m
  <2>2. /\ status' \in {status, "COMPLETE"}
        /\ \/ logon' = logon
           \/ \E n : logon' = [logon EXCEPT !.nda = n]
    BY <1>2, <2>1, Zenon DEF RxLogonAnswer, RxDiscard, RxStranger, RxUplink
  <2>3. logon'.to = logon.to /\ logon'.do = logon.do
    BY <1>1, <2>2
  <2> QED
    BY <1>5, <1>p, <2>1, <2>2, <2>3, Zenon DEF Parted
<1>8. status' \notin {"CONNECTING", "HANDSHAKING"}
  <2>1. status \notin {"CONNECTING", "HANDSHAKING"}
    BY <1>1 DEF AgreeInv, Working
  <2> QED
    BY <1>2, <2>1, Zenon DEF RxLogonAnswer, RxDiscard, RxStranger, RxUplink
<1>9. fault' = fault
  BY Zenon DEF Rx
<1> QED
  BY <1>1, <1>7, <1>p, <1>8, <1>9, Zenon DEF AgreeInv, Unlinked, Dialogue

\* send_logon, when no logon was requested over another one.
LEMMA SendLogonAgrees ==
    ASSUME TypeInv, AgreeInv, send_logon, srv' = srv, early' = early
    PROVE  AgreeInv'
<1> DEFINE to == IF logon.nda # None THEN logon.nda ELSE logon.to
           m == [tok |-> nextTok, kind |-> "logon", to |-> to]
<1>1. /\ pc = "top" /\ pc' = "top" /\ status \in LinkUp /\ logon.do
      /\ logon' = [do |-> FALSE, to |-> to, nda |-> None] /\ status' = "IN_PROG"
      /\ sending' = Append(sending, m)
      /\ UNCHANGED <<hand, up, down, peer, fault>>
  BY Zenon DEF send_logon, send_msg_impl, WorkerKeeps, netVars
<1>2. m \in OutMsg /\ m.kind = "logon" /\ m.to = to /\ sending \in Seq(OutMsg)
  BY Zenon DEF TypeInv, OutMsg, OutKinds
<1>3. logon'.to = to /\ ~logon'.do
  BY <1>1, Zenon
<1> HIDE DEF to, m
<1>4. ASSUME Dialogue PROVE Dialogue'
  <2>1. Available
    BY <1>1, <1>4, Zenon DEF Dialogue, Matched, Parted, LinkUp
  <2>2. OneLogon(sending', to)
    BY <1>1, <1>2, <2>1, LogonAppend, Zenon DEF Available, NoneOut
  <2>3. LogonFree(up') /\ HandFree' /\ Calm(down') /\ srv'.st = "none"
    BY <1>1, <2>1 DEF Available, NoneOut, HandFree
  <2>4. OneLogon(sending', logon'.to)
    BY <1>3, <2>2, Zenon
  <2>5. OneOut(logon.to)'
    BY <2>3, <2>4, Zenon DEF OneOut
  <2>6. Awaiting'
    BY <2>3, <2>5, Zenon DEF Awaiting
  <2> QED
    BY <1>1, <1>3, <2>6, Zenon DEF Dialogue, Matched
<1> QED
  BY <1>1, <1>4, Zenon DEF AgreeInv, Unlinked

\* The worker keeps the two views together.
LEMMA WorkerAgrees ==
    ASSUME TypeInv, LinkInv, TurnInv, AgreeInv, Worker,
           srv' = (IF peer' THEN srv ELSE LoggedOff), early' = early
    PROVE  AgreeInv'
<1>1. CASE LoopEnds \/ KeepaliveGivesUp \/ (TlsDone /\ reset_link_state)
  <2>1. /\ status' = "NONE" /\ pc' \in {"off", "top"} /\ ~peer'
        /\ sending' = <<>> /\ up' = <<>> /\ down' = <<>>
    BY <1>1 DEF LoopEnds, KeepaliveGivesUp, TlsDone, Leave, reset_link_state, CloseSocket,
                WorkerKeeps
  <2>2. Unused'
    BY <2>1, Zenon DEF Unused
  <2> QED
    BY <2>1, <2>2, AgreeUnused
<1>2. ASSUME peer' = peer PROVE srv' = srv
  BY <1>2, Zenon DEF AgreeInv
<1>3. CASE WorkerStart \/ ConnWaits \/ TlsWaits \/ CallbackReturns
  <2>1. /\ UNCHANGED <<status, logon, sending, up, down, peer, fault>>
        /\ pc # "tx" /\ pc' \in {"resolve", "top"} /\ (pc' = "resolve" => pc = "start")
    BY <1>3, Zenon DEF WorkerStart, ConnWaits, TlsWaits, CallbackReturns, queueVars, netVars, WorkerKeeps
  <2> QED
    BY <1>2, <2>1, AgreeSame, Zenon DEF Unlinked, Working
<1>4. CASE LoopWaits
  <2>1. /\ UNCHANGED <<status, logon, sending, up, down, peer, fault>>
        /\ pc = "top"
        /\ \/ status = "CONNECTING" /\ pc' = "conn"
           \/ status = "HANDSHAKING" /\ pc' = "tls"
           \/ status \notin {"CONNECTING", "HANDSHAKING"} /\ pc' = "poll"
    BY <1>4 DEF LoopWaits, netVars, WorkerKeeps
  <2> QED
    BY <1>2, <2>1, AgreeSame, Zenon DEF Unlinked, Working
<1>5. CASE Resolved
  <2>1. pc = "resolve" /\ pc' = "top" /\ status = "NONE" /\ sending' = sending /\ Unused
    BY <1>5, Zenon DEF Resolved, WorkerKeeps, queueVars, AgreeInv, Unlinked, LinkInv, Held
  <2>2. CASE init_conn(Addresses, failure)
    <3>1. status' \in {"NONE", "CONNECTING", Connected} /\ up' = <<>> /\ down' = <<>>
      <4>1. up' = <<>>
        BY <2>2, Zenon DEF init_conn, CloseSocket
      <4>2. Addresses \in 0..Addresses /\ failure \in BOOLEAN
        BY DEF TypeInv
      <4> QED
        BY <2>2, <4>1, <4>2, InitConnTypes
    <3>2. Unused'
      BY <2>1, <3>1, Zenon DEF Unused
    <3> QED
      BY <2>1, <3>1, <3>2, AgreeUnused, Zenon DEF Connected
  <2>3. CASE UNCHANGED <<status, addrs, sock, netVars>>
    <3>1. Unused'
      BY <2>1, <2>3 DEF Unused, netVars
    <3> QED
      BY <2>1, <2>3, <3>1, AgreeUnused
  <2> QED
    BY <1>5, <2>2, <2>3, Zenon DEF Resolved
<1>6. CASE ConnDone
  <2>1. pc = "conn" /\ pc' = "top" /\ sending' = sending /\ Unused
    BY <1>6 DEF ConnDone, WorkerKeeps, queueVars, AgreeInv, Unlinked
  <2>2. CASE init_conn(addrs, TRUE)
    <3>1. status' \in {"NONE", "CONNECTING", Connected} /\ up' = <<>> /\ down' = <<>>
      <4>1. up' = <<>>
        BY <2>2, Zenon DEF init_conn, CloseSocket
      <4> QED
        BY <2>2, <4>1, InitConnTypes, Zenon DEF TypeInv
    <3>2. Unused'
      BY <2>1, <3>1 DEF Unused
    <3> QED
      BY <2>1, <3>1, <3>2, AgreeUnused, Zenon DEF Connected
  <2>3. CASE status' = Connected /\ UNCHANGED <<up, down>>
    <3>1. Unused'
      BY <2>1, <2>3 DEF Unused
    <3> QED
      BY <2>1, <2>3, <3>1, AgreeUnused DEF Connected
  <2> QED
    BY <1>6, <2>2, <2>3, Zenon DEF ConnDone
<1>7. CASE TlsDone /\ ~reset_link_state
  <2>1. /\ pc = "tls" /\ pc' = "top" /\ status' = "AVAIL" /\ Unused
        /\ UNCHANGED <<sending, up, down>>
    BY <1>7 DEF TlsDone, WorkerKeeps, netVars, AgreeInv, Unlinked
  <2>2. Unused'
    BY <2>1, Zenon DEF Unused
  <2> QED
    BY <2>1, <2>2, AgreeUnused, Zenon
<1>8. CASE TlsSetupFails \/ RxGarbage
  <2>1. status' = "NONE" /\ peer' = peer /\ pc' \in {"top", "tx", "after"}
    BY <1>8, Zenon DEF TlsSetupFails, RxGarbage, WorkerKeeps, EndInput, netVars
  <2> QED
    BY <1>2, <2>1, AgreeDown, Zenon DEF Unlinked, AgreeInv
<1>9. CASE send_logon
  <2>1. peer' = peer
    BY <1>9 DEF send_logon, netVars
  <2> QED
    BY <1>2, <1>9, <2>1, SendLogonAgrees, SMTT(30)
<1>10. CASE Rx
  <2>1. peer' = peer
    BY <1>10, Zenon DEF Rx
  <2> QED
    BY <1>2, <1>10, <2>1, RxAgrees, SMTT(30)
<1>11. CASE PollDone \/ RxEnds
  <2>1. /\ pc \in {"poll", "rx"} /\ ~fault /\ peer' = peer /\ up' = up /\ down' = down
        /\ logon' = logon /\ fault' = fault
    BY <1>11, ZenonT(30) DEF PollDone, RxEnds, netVars
  <2>2. /\ status' \in {status, "NONE"}
        /\ \/ pc' \in {"rx", "after"} /\ hand' = hand /\ sending' = sending
           \/ \E st : EndInput(st)
    BY <1>11, Zenon DEF PollDone, RxEnds
  <2>3. pc' \in {"rx", "tx", "after"}
    BY <2>2, Zenon DEF EndInput
  <2>4. CASE status' = "NONE"
    BY <1>2, <2>1, <2>3, <2>4, AgreeDown, Zenon DEF Unlinked, AgreeInv
  <2>5. CASE status' = status
    <3>1. (NoneOut => NoneOut') /\ \A to : OneOut(to) => OneOut(to)'
      <4>1. CASE pc' \in {"rx", "after"} /\ hand' = hand /\ sending' = sending
        BY <2>1, <4>1, ZenonT(30) DEF NoneOut, OneOut, HandFree
      <4>2. ASSUME NEW st, EndInput(st)
            PROVE  (NoneOut => NoneOut') /\ \A to : OneOut(to) => OneOut(to)'
        <5>1. pc # "tx" /\ up' = up
          BY <2>1, Zenon
        <5> QED
          BY <4>2, <5>1, OutTake, Zenon
      <4> QED
        BY <2>2, <4>1, <4>2, Zenon
    <3>2. status \notin {"CONNECTING", "HANDSHAKING"}
      BY <2>1, Zenon DEF AgreeInv, Working
    <3>3. pc' \notin Unlinked
      BY <2>3 DEF Unlinked
    <3> QED
      BY <1>2, <2>1, <2>5, <3>1, <3>2, <3>3, AgreeOut, Zenon
  <2> QED
    BY <2>2, <2>4, <2>5, Zenon
<1>12. CASE TxStops
  <2>1. /\ pc = "tx" /\ pc' = "after" /\ ~fault /\ status' \in {status, "NONE"}
        /\ UNCHANGED <<logon, down, peer, fault>>
    BY <1>12, Zenon DEF TxStops, netVars
  <2>2. CASE status' = "NONE"
    BY <1>2, <2>1, <2>2, AgreeDown, Zenon DEF Unlinked, AgreeInv
  <2>3. CASE status' = status
    <3>1. (NoneOut => NoneOut') /\ \A to : OneOut(to) => OneOut(to)'
      BY <1>12, OutBack, Zenon
    <3>2. status \notin {"CONNECTING", "HANDSHAKING"} /\ pc' \notin Unlinked
      BY <2>1 DEF AgreeInv, Unlinked, Working
    <3> QED
      BY <1>2, <2>1, <2>3, <3>1, <3>2, AgreeOut, Zenon
  <2> QED
    BY <2>1, <2>2, <2>3, Zenon
<1>13. CASE TxDone
  <2>1. /\ pc = "tx" /\ pc' = "after" /\ ~fault
        /\ UNCHANGED <<status, logon, down, peer>>
    BY <1>13, Zenon DEF TxDone
  <2>2. status \notin {"CONNECTING", "HANDSHAKING"} /\ pc' \notin Unlinked
    BY <2>1, Zenon DEF AgreeInv, Unlinked, Working
  <2>3. CASE peer
    <3>1. (NoneOut => NoneOut') /\ \A to : OneOut(to) => OneOut(to)'
      BY <1>13, <2>3, OutWritten, Zenon
    <3> QED
      BY <1>2, <2>1, <2>2, <3>1, AgreeOut, Zenon
  <2>4. CASE ~peer
    BY <1>2, <2>1, <2>2, <2>4 DEF AgreeInv, Unlinked
  <2> QED
    BY <2>3, <2>4, Zenon
<1>14. CASE IterationEnds
  <2>1. /\ pc = "after" /\ pc' \in {"cb", "top"} /\ ~fault
        /\ UNCHANGED <<status, logon, hand, up, down, peer, fault>>
    BY <1>14, Zenon DEF IterationEnds, netVars
  <2>2. status \notin {"CONNECTING", "HANDSHAKING"} /\ pc' \notin Unlinked
    BY <2>1, Zenon DEF AgreeInv, Unlinked, Working
  <2>3. CASE sending' = sending
    BY <1>2, <2>1, <2>2, <2>3, AgreeSame, Zenon DEF Working, Unlinked
  <2>4. CASE send_msg_impl("ping", None)
    <3>1. (NoneOut => NoneOut') /\ \A to : OneOut(to) => OneOut(to)'
      BY <2>1, <2>4, OutSend, Zenon DEF OutKinds
    <3> QED
      BY <1>2, <2>1, <2>2, <3>1, AgreeOut, ZenonT(30)
  <2> QED
    BY <1>14, <2>3, <2>4, Zenon DEF IterationEnds, KeepaliveGoesOn
<1> QED
  BY <1>1, <1>3, <1>4, <1>5, <1>6, <1>7, <1>8, <1>9, <1>10, <1>11, <1>12, <1>13, <1>14, Zenon
     DEF Worker

\* So does the server.
LEMMA ServerAgrees ==
    ASSUME TypeInv, EndTypes, AgreeInv, Server
    PROVE  AgreeInv'
<1> down \in Seq(InMsg)
  BY Zenon DEF TypeInv
<1>1. CASE SrvCloses
  <2>1. /\ UNCHANGED <<pc, status, sending, down>> /\ ~peer' /\ up' = <<>> /\ srv' = LoggedOff
    BY <1>1 DEF SrvCloses, ServerKeeps, queueVars
  <2> QED
    BY <2>1 DEF AgreeInv, Unused
<1>2. SUFFICES ASSUME \/ SrvReceives \/ SrvDecides
                      \/ \E s \in Stations, arg \in Stations \cup {None} :
                            \E kind \in {"text", "end", "nda"} : SrvForwards(s, kind, arg)
               PROVE  AgreeInv'
  BY <1>1, Zenon DEF Server
<1>3. UNCHANGED <<pc, status, logon, sending, hand, early, fault, peer>> /\ peer /\ ~fault
  BY <1>2, Zenon DEF SrvReceives, SrvDecides, SrvForwards, ServerKeeps, queueVars
<1>4. ~Unused
  <2>1. up # <<>> \/ srv.st \in {"started", "complete"}
    BY <1>2, Zenon DEF SrvReceives, SrvDecides, SrvForwards
  <2>2. LoggedOff.st = "none"
    BY DEF LoggedOff
  <2> QED
    BY <2>1, <2>2 DEF Unused
<1>5. SUFFICES Dialogue => Dialogue'
  BY <1>3, <1>4 DEF AgreeInv
<1>p. ASSUME Parted PROVE Parted'
  <2>1. SrvReceives
    BY <1>2, <1>p, Zenon DEF SrvDecides, SrvForwards, Parted
  <2>2. Head(up).kind # "logon" /\ NoneOut'
    BY <1>3, <1>p, <2>1, OutRead, Zenon DEF Parted, SrvReceives
  <2>3. SrvRefuses(Head(up))
    BY <1>p, <2>1, <2>2, Zenon DEF SrvReceives, SrvLogon, SrvAccepts, Parted
  <2>4. srv' = srv /\ Answer("error")
    BY <2>3, Zenon DEF SrvRefuses, SendError
  <2>5. Quiet(down', logon.to)
    BY <1>p, <2>4, QuietAppend, Zenon DEF Parted, Answer, InKinds
  <2> QED
    BY <1>3, <1>p, <2>2, <2>4, <2>5, Zenon DEF Parted
<1>6. SUFFICES ASSUME Matched PROVE Dialogue'
  BY <1>p, Zenon DEF Dialogue
<1>7. /\ "success" \in Turning /\ "failure" \in Turning /\ "end" \in Turning
      /\ "error" \notin Turning /\ "pong" \notin Turning /\ "text" \notin Turning
      /\ "nda" \notin Turning
  BY Zenon DEF Turning
<1>8. ASSUME NEW kind \in InKinds, NEW from \in Stations \cup {None},
             NEW arg \in Stations \cup {None},
             down' = Append(down, [kind |-> kind, from |-> from, arg |-> arg])
      PROVE  /\ kind \notin Turning =>
                   /\ Calm(down) => Calm(down')
                   /\ \A k, f : Only(down, k, f) => Only(down', k, f)
                   /\ \A f : Both(down, f) => Both(down', f)
             /\ kind \in Turning /\ Calm(down) => Only(down', kind, from)
             /\ kind = "end" /\ Only(down, "success", None) => Both(down', from)
  <2> DEFINE m == [kind |-> kind, from |-> from, arg |-> arg]
  <2>1. m \in InMsg /\ m.kind = kind /\ m.from = from
    BY Zenon DEF InMsg
  <2> HIDE DEF m
  <2>2. down' = Append(down, m)
    BY <1>8, Zenon DEF m
  <2> QED
    BY <2>1, <2>2, TurningAppend, Zenon
<1>9. ASSUME NEW kind \in {"error", "pong", "success", "failure"}, Answer(kind)
      PROVE  /\ kind \notin Turning =>
                   /\ Calm(down) => Calm(down')
                   /\ \A k, f : Only(down, k, f) => Only(down', k, f)
                   /\ \A f : Both(down, f) => Both(down', f)
             /\ kind \in Turning /\ Calm(down) => Only(down', kind, None)
  BY <1>8, <1>9, Zenon DEF Answer, InKinds
<1>10. up' = up => (NoneOut => NoneOut')
  BY <1>3, Zenon DEF NoneOut, HandFree
<1>11. CASE SrvReceives
  <2> DEFINE m == Head(up)
  <2>1. up # <<>> /\ up' = Tail(up)
    BY <1>11 DEF SrvReceives
  <2>2. SrvLogon(m) \/ SrvRefuses(m) \/ SrvAccepts(m)
    BY <1>11, Zenon DEF SrvReceives
  <2>3. /\ NoneOut => NoneOut' /\ m.kind # "logon"
        /\ \A to : OneOut(to) => \/ m.kind = "logon" /\ m.to = to /\ NoneOut'
                                 \/ m.kind # "logon" /\ OneOut(to)'
    BY <1>3, <2>1, OutRead, Zenon
  <2> HIDE DEF m
  <2>4. CASE SrvLogon(m)
    <3>1. m.kind = "logon" /\ ~NoneOut
      BY <2>3, <2>4, Zenon DEF SrvLogon
    <3>2. status \notin {"AVAIL", "COMPLETE"}
      BY <1>6, <3>1, Zenon DEF Dialogue, Matched, Available, Complete
    <3>3. CASE status = "IN_PROG"
      <4>1. ~logon.do /\ OneOut(logon.to) /\ Calm(down) /\ srv.st = "none"
        BY <1>6, <3>1, <3>3, Zenon DEF Dialogue, Matched, Awaiting
      <4>2. srv' = [st |-> "started", to |-> m.to, by |-> None] /\ down' = down
        BY <2>4, <4>1, Zenon DEF SrvLogon
      <4>3. m.to = logon.to /\ NoneOut'
        BY <2>3, <3>1, <4>1, Zenon
      <4>4. Awaiting'
        BY <1>3, <4>1, <4>2, <4>3, Zenon DEF Awaiting
      <4> QED
        BY <1>3, <3>3, <4>1, <4>4 DEF Dialogue, Matched
    <3> QED
      BY <1>3, <3>2, <3>3, Zenon DEF Dialogue, Matched
  <2>5. CASE SrvRefuses(m) \/ SrvAccepts(m)
    <3>1. m.kind # "logon" /\ srv' = srv
      BY <2>5 DEF SrvRefuses, SrvAccepts
    <3>2. down' = down \/ Answer("error") \/ Answer("pong")
      BY <2>5, Zenon DEF SrvRefuses, SrvAccepts, SendError
    <3>3. /\ Calm(down) => Calm(down')
          /\ \A k, f : Only(down, k, f) => Only(down', k, f)
          /\ \A f : Both(down, f) => Both(down', f)
      BY <1>7, <1>9, <3>2, Zenon
    <3>4. Available => Available'
      BY <2>3, <3>1, <3>3, Zenon DEF Available
    <3>5. Awaiting => Awaiting'
      BY <1>3, <2>3, <3>1, <3>3, Zenon DEF Awaiting, Serves
    <3>6. Complete => Complete'
      BY <1>3, <2>3, <3>1, <3>3, Zenon DEF Complete, Serves
    <3> QED
      BY <1>3, <1>6, <3>4, <3>5, <3>6, Zenon DEF Dialogue, Matched
  <2> QED
    BY <2>2, <2>4, <2>5
<1>12. CASE SrvDecides
  <2>1. /\ srv.st = "started" /\ up' = up
        /\ \/ srv' = [srv EXCEPT !.st = "complete"] /\ Answer("success")
           \/ srv' = LoggedOff /\ Answer("failure")
    BY <1>12 DEF SrvDecides
  <2>2. status \notin {"AVAIL", "COMPLETE"}
    BY <1>6, <2>1 DEF Dialogue, Matched, Available, Complete, Serves
  <2>3. CASE status = "IN_PROG"
    <3>1. ~logon.do /\ NoneOut /\ Calm(down) /\ srv.to = logon.to
      BY <1>6, <2>1, <2>3 DEF Dialogue, Matched, Awaiting, Serves
    <3>2. NoneOut'
      BY <1>10, <2>1, <3>1, Zenon
    <3>3. CASE srv' = [srv EXCEPT !.st = "complete"] /\ Answer("success")
      <4>1. Only(down', "success", None)
        BY <1>7, <1>9, <3>1, <3>3
      <4>2. Serves'
        BY <1>3, <3>1, <3>3, Zenon DEF Serves, EndTypes, SrvRecord
      <4> QED
        BY <1>3, <2>3, <3>1, <3>2, <4>1, <4>2, Zenon DEF Dialogue, Matched, Awaiting
    <3>4. CASE srv' = LoggedOff /\ Answer("failure")
      <4>1. Only(down', "failure", None) /\ srv'.st = "none"
        BY <1>7, <1>9, <3>1, <3>4, Zenon DEF LoggedOff
      <4> QED
        BY <1>3, <2>3, <3>1, <3>2, <4>1, Zenon DEF Dialogue, Matched, Awaiting
    <3> QED
      BY <2>1, <3>3, <3>4
  <2> QED
    BY <1>3, <2>2, <2>3 DEF Dialogue, Matched
<1>13. ASSUME NEW s \in Stations, NEW arg \in Stations \cup {None},
              NEW kind \in {"text", "end", "nda"}, SrvForwards(s, kind, arg)
       PROVE  Dialogue'
  <2>1. /\ srv.st = "complete" /\ up' = up
        /\ down' = Append(down, [kind |-> kind, from |-> s, arg |-> arg])
        /\ srv' = IF kind = "end" THEN [LoggedOff EXCEPT !.by = s] ELSE srv
    BY <1>13, Zenon DEF SrvForwards
  <2>2. /\ kind \notin Turning =>
                   /\ Calm(down) => Calm(down')
                   /\ \A k, f : Only(down, k, f) => Only(down', k, f)
                   /\ \A f : Both(down, f) => Both(down', f)
        /\ kind \in Turning /\ Calm(down) => Only(down', kind, s)
        /\ kind = "end" /\ Only(down, "success", None) => Both(down', s)
    BY <1>8, <2>1, Zenon DEF InKinds
  <2>e. ASSUME kind = "end", s # srv.to, status \in {"IN_PROG", "COMPLETE"}
        PROVE  Parted'
    <3>1. /\ ~logon.do /\ NoneOut /\ Serves
          /\ Calm(down) \/ Only(down, "success", None)
      BY <1>6, <2>1, <2>e, Zenon DEF Matched, Awaiting, Complete
    <3>2. Quiet(down', logon.to)
      <4>1. Quiet(down, logon.to) /\ s # logon.to
        BY <2>e, <3>1, QuietBefore, Zenon DEF Serves
      <4>2. kind # "failure" /\ kind \in InKinds
        BY <2>e, Zenon DEF InKinds
      <4> QED
        BY <2>1, <4>1, <4>2, QuietAppend, Zenon
    <3>3. srv'.st = "none" /\ srv'.by = s
      BY <2>1, <2>e DEF LoggedOff
    <3>4. NoneOut'
      BY <1>10, <2>1, <3>1, Zenon
    <3> QED
      BY <1>3, <2>e, <3>1, <3>2, <3>3, <3>4 DEF Parted, Serves
  <2>s. kind = "end" => srv'.st = "none"
    BY <2>1 DEF LoggedOff
  <2>3. status # "AVAIL"
    BY <1>6, <2>1, Zenon DEF Dialogue, Matched, Available
  <2>4. CASE status = "IN_PROG"
    <3>1. ~logon.do /\ NoneOut /\ Only(down, "success", None) /\ Serves
      BY <1>6, <2>1, <2>4, Zenon DEF Dialogue, Matched, Awaiting
    <3>2. NoneOut'
      BY <1>10, <2>1, <3>1, Zenon
    <3>3. CASE kind = "end"
      <4> SUFFICES ASSUME s = srv.to PROVE Dialogue'
        BY <2>4, <2>e, <3>3, Zenon DEF Dialogue
      <4>1. Both(down', logon.to) /\ srv'.st = "none"
        BY <2>2, <2>s, <3>1, <3>3, Zenon DEF Serves
      <4> QED
        BY <1>3, <2>4, <3>1, <3>2, <4>1, Zenon DEF Dialogue, Matched, Awaiting
    <3>4. CASE kind # "end"
      <4>1. Only(down', "success", None) /\ Serves'
        BY <1>3, <1>7, <2>1, <2>2, <3>1, <3>4, Zenon DEF Serves
      <4> QED
        BY <1>3, <2>4, <3>1, <3>2, <4>1, Zenon DEF Dialogue, Matched, Awaiting
    <3> QED
      BY <3>3, <3>4, Zenon
  <2>5. CASE status = "COMPLETE"
    <3>1. ~logon.do /\ NoneOut /\ Calm(down) /\ Serves
      BY <1>6, <2>1, <2>5, Zenon DEF Dialogue, Matched, Complete
    <3>2. NoneOut'
      BY <1>10, <2>1, <3>1, Zenon
    <3>3. CASE kind = "end"
      <4> SUFFICES ASSUME s = srv.to PROVE Dialogue'
        BY <2>5, <2>e, <3>3, Zenon DEF Dialogue
      <4>1. Only(down', "end", logon.to) /\ srv'.st = "none"
        BY <1>7, <2>2, <2>s, <3>1, <3>3, Zenon DEF Serves
      <4> QED
        BY <1>3, <2>5, <3>1, <3>2, <4>1, Zenon DEF Dialogue, Matched, Complete
    <3>4. CASE kind # "end"
      <4>1. Calm(down') /\ Serves'
        BY <1>3, <1>7, <2>1, <2>2, <3>1, <3>4, Zenon DEF Serves
      <4> QED
        BY <1>3, <2>5, <3>1, <3>2, <4>1, Zenon DEF Dialogue, Matched, Complete
    <3> QED
      BY <3>3, <3>4
  <2> QED
    BY <1>3, <2>3, <2>4, <2>5, Zenon DEF Dialogue, Matched
<1> QED
  BY <1>2, <1>11, <1>12, <1>13, Zenon

\* So do the calls of the box.
LEMMA BoxAgrees ==
    ASSUME TypeInv, LinkInv, AgreeInv, React \/ SendMsg \/ AskStatus \/ Collect
    PROVE  AgreeInv'
<1>1. CASE React /\ box.pc = "logon" /\ cpdlc_client_logon(box.to)
              /\ early' = (early \/ logon.do \/ status \notin {"NONE", "AVAIL"})
  <2>1. /\ UNCHANGED <<status, sending, hand, up, down, srv, peer, fault>>
        /\ pc' = IF started THEN pc ELSE "start"
    BY <1>1, Zenon DEF React, cpdlc_client_logon, queueVars, netVars
  <2>2. pc' = pc \/ (pc = "off" /\ pc' = "start" /\ status = "NONE")
    BY <2>1, Zenon DEF LinkInv, Idle
  <2>3. NoneOut => NoneOut'
    BY <2>1, <2>2, Zenon DEF NoneOut, HandFree
  <2>4. Available => Available'
    BY <2>1, <2>3, Zenon DEF Available
  <2>5. Unused => Unused'
    BY <2>1 DEF Unused
  <2>6. ~early' => ~early /\ status \in {"NONE", "AVAIL"}
    BY <1>1, Zenon
  <2>7. ~early' /\ Dialogue => Dialogue'
    BY <2>1, <2>4, <2>6, Zenon DEF Dialogue, Matched, Parted
  <2> QED
    BY <2>1, <2>2, <2>5, <2>6, <2>7, Zenon DEF AgreeInv, Unlinked, LinkUp
<1>2. CASE React /\ cpdlc_client_logoff
  <2>1. UNCHANGED <<pc, sending, up, down, srv, peer>> /\ status' = "NONE"
    BY <1>2, Zenon DEF React, cpdlc_client_logoff, queueVars, netVars
  <2> QED
    BY <2>1, Zenon DEF AgreeInv, Unused, Dialogue, Matched, LinkUp
<1>3. CASE \/ React /\ cpdlc_client_reset_logon_failure /\ UNCHANGED <<entered, early>>
           \/ AskStatus \/ Collect
  <2>1. UNCHANGED <<pc, status, logon, sending, hand, up, down, peer, fault, early>>
    BY <1>3, Zenon DEF React, cpdlc_client_reset_logon_failure, AskStatus, Collect, Client,
                cpdlc_client_get_msg_status, cpdlc_client_recv_msg, queueVars, netVars
  <2>2. srv' = srv \/ srv' = (IF peer' THEN srv ELSE LoggedOff)
    BY <1>3, Zenon DEF React, AskStatus, Collect, Client
  <2>3. srv' = srv
    BY <2>1, <2>2, Zenon DEF AgreeInv
  <2> QED
    BY <2>1, <2>3, AgreeSame, Zenon
<1>4. CASE SendMsg
  <2>1. /\ UNCHANGED <<pc, status, logon, hand, up, down, peer, early>> /\ ~fault
        /\ status = "COMPLETE" /\ send_msg_impl("msg", logon.to)
        /\ srv' = IF peer' THEN srv ELSE LoggedOff
    BY <1>4, Zenon DEF SendMsg, Client, cpdlc_client_send_msg, netVars, LockFree
  <2>2. srv' = srv /\ pc \notin Unlinked
    BY <2>1, Zenon DEF AgreeInv, LinkUp
  <2>3. (NoneOut => NoneOut') /\ \A to : OneOut(to) => OneOut(to)'
    <3>1. logon.to \in Stations \cup {None} /\ "msg" \in OutKinds \ {"logon"}
      BY DEF TypeInv, OutKinds
    <3> QED
      BY <2>1, <3>1, OutSend, Zenon
  <2> QED
    BY <2>1, <2>2, <2>3, AgreeOut
<1> QED
  BY <1>1, <1>2, <1>3, <1>4, Zenon DEF React

\* So does every step.
LEMMA StepAgrees ==
    ASSUME TypeInv, EndTypes, LinkInv, TurnInv, AgreeInv, [Next]_vars
    PROVE  AgreeInv'
<1>1. CASE ClientWorks
  BY <1>1, WorkerAgrees, Zenon DEF ClientWorks, Client
<1>2. CASE Server
  BY <1>2, ServerAgrees, Zenon
<1>3. CASE UNCHANGED <<linkVars, srv, early>>
  BY <1>3, AgreeSame, ZenonT(30) DEF linkVars
<1>4. CASE UNCHANGED vars
  BY <1>3, <1>4, Zenon DEF vars
<1> QED
  BY <1>1, <1>2, <1>3, <1>4, BoxAgrees, Zenon DEF Next, Undefined, PressR5, UpdateLogonTimeout

\* Once nothing under way can change their minds, client and server agree on whether
\* the aircraft is logged on and to whom, however messages, answers, END SERVICE and
\* logoffs cross each other, for any number of stations and messages; the END SERVICE
\* of a station the aircraft is not logged on to is all that parts them.
THEOREM EndsAgree == Spec => []Agreement
<1>1. Init => LinkInv /\ TurnInv /\ AgreeInv
  <2>1. Init => LinkInv /\ TurnInv
    BY DEF Init, LinkInit, LinkInv, Held, Idle, LinkUp, TurnInv, Consecutive
  <2>2. Init => AgreeInv
    BY ZenonT(30) DEF Init, LinkInit, AgreeInv, Unused, Dialogue, Matched, LinkUp, LoggedOff, Unlinked
  <2> QED
    BY <2>1, <2>2, Zenon
<1>2. TypeInv /\ AgreeInv => Agreement
  <2> SUFFICES ASSUME TypeInv, AgreeInv, Settled, ~early
               PROVE  /\ status = "AVAIL" => srv.st = "none"
                      /\ status = "COMPLETE" => \/ srv.st = "complete" /\ srv.to = logon.to
                                                \/ srv.st = "none" /\ srv.by \notin {None, logon.to}
    BY Zenon DEF Agreement
  <2>1. Dialogue
    BY DEF AgreeInv, Settled
  <2>2. CASE status = "AVAIL"
    BY <2>1, <2>2, Zenon DEF Dialogue, Matched, Parted, Available
  <2>3. CASE status = "COMPLETE"
    <3>1. ~Only(down, "end", logon.to)
      <4>1. down \in Seq(InMsg)
        BY Zenon DEF TypeInv
      <4>2. DOMAIN down = 1..Len(down)
        BY <4>1
      <4>3. \A i \in DOMAIN down : down[i].kind \notin {"success", "failure", "end"}
        BY Zenon DEF Settled
      <4>4. \A i \in 1..Len(down) : down[i].kind # "end"
        BY <4>2, <4>3, Zenon
      <4> QED
        BY <4>4, Zenon DEF Only
    <3> QED
      BY <2>1, <2>3, <3>1, Zenon DEF Dialogue, Matched, Parted, Complete, Serves
  <2> QED
    BY <2>2, <2>3
<1> QED
  BY <1>1, <1>2, TypesHold, StepLink, StepTurn, StepAgrees, PTL DEF Spec
=============================================================================
