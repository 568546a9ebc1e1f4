---------------------------- MODULE MailboxProofs ----------------------------
(***************************************************************************)
(* StoreForward without a router: the main thread passes messages on       *)
(* itself.  Direct is what then holds beyond IInv, and the server          *)
(* implements Mailbox, so messages are received in order of arrival.       *)
(***************************************************************************)
EXTENDS StoreMailbox, StoreForwardProofs

-----------------------------------------------------------------------------
(* Without a router. *)

\* The message at position i is one the sweep has been past.
Behind(i) == \A p \in DOMAIN queued_msgs : queued_msgs[p].msg.id = qmsg => i < p

\* Nobody is there to take the message at position i.
Absent(i) == conns_by_from[queued_msgs[i].msg.to] = <<>>

\* Messages age in the order in which they were stored.
InOrder(aged) ==
    \A i, j \in DOMAIN queued_msgs :
        i < j /\ queued_msgs[j].msg.id \in aged => queued_msgs[i].msg.id \in aged

Direct ==
    /\ tasks # <<>> => phase = "input" /\ Len(tasks) = 1 /\ tasks[1].id = count
    /\ phase = "input" => \A i \in DOMAIN queued_msgs : Absent(i)
    /\ phase = "queued" =>
          \A i \in DOMAIN queued_msgs :
              Behind(i) => Absent(i) /\ queued_msgs[i].msg.id \notin due
    /\ next_qmsg # -1 =>
          \A p \in DOMAIN queued_msgs : queued_msgs[p].msg.id = qmsg => next_qmsg = IdAt(p + 1)
    /\ InOrder(old) /\ InOrder(due)

\* A message that is stored goes behind the others.
LEMMA StoredDirect ==
    ASSUME IInv, Direct, NEW q \in QueuedMsg, queued_msgs' = Append(queued_msgs, q),
           ~Queued(q.msg.id), conns_by_from[q.msg.to] = <<>>, q.msg.to \in Idents,
           \A id \in Idents : conns_by_from[id] = <<>> => conns_by_from'[id] = <<>>,
           phase = "input", tasks' = <<>>, UNCHANGED <<phase, old, due, qmsg, next_qmsg>>
    PROVE  Direct'
<1> PICK N : N = Len(queued_msgs)
  BY Zenon
<1>1. /\ queued_msgs \in Seq(QueuedMsg) /\ N \in Nat /\ DOMAIN queued_msgs = 1 .. N
      /\ DOMAIN queued_msgs' = 1 .. N + 1
      /\ \A n \in 1 .. N : queued_msgs'[n] = queued_msgs[n]
      /\ queued_msgs'[N + 1] = q
  <2>1. queued_msgs \in Seq(QueuedMsg)
    BY Zenon DEF IInv, Once, Bookkeeping
  <2>2. /\ queued_msgs' \in Seq(QueuedMsg) /\ Len(queued_msgs') = N + 1
        /\ \A n \in 1 .. N : queued_msgs'[n] = queued_msgs[n]
        /\ queued_msgs'[N + 1] = q
    BY <2>1, AppendPlaces, SMTT(30)
  <2> QED
    BY <2>1, <2>2, SMTT(30)
<1>2. \A n \in 1 .. N : queued_msgs[n].msg.to \in Idents
  <2>1. \A n \in 1 .. N : queued_msgs[n] \in QueuedMsg
    BY <1>1, SMTT(30)
  <2> QED
    BY <2>1, Zenon DEF QueuedMsg, Message
<1>3. q.msg.id \notin old /\ q.msg.id \notin due
  BY Zenon DEF IInv, Cursors
<1>4. ASSUME NEW i \in 1 .. N + 1 PROVE Absent(i)'
  <2>1. CASE i = N + 1
    BY <1>1, <2>1, Zenon DEF Absent
  <2>2. CASE i \in 1 .. N
    <3>1. Absent(i)
      BY <1>1, <2>2, Zenon DEF Direct
    <3> QED
      BY <1>1, <1>2, <2>2, <3>1, Zenon DEF Absent
  <2> QED
    BY <1>1, <2>1, <2>2, SMTT(30)
<1>5. ASSUME NEW aged, q.msg.id \notin aged, InOrder(aged), UNCHANGED aged PROVE InOrder(aged)'
  <2>1. ASSUME NEW i \in 1 .. N + 1, NEW j \in 1 .. N + 1, i < j,
               queued_msgs'[j].msg.id \in aged
        PROVE  queued_msgs'[i].msg.id \in aged
    <3>1. j # N + 1
      BY <1>1, <1>5, <2>1, Zenon
    <3>2. i \in 1 .. N /\ j \in 1 .. N
      BY <1>1, <2>1, <3>1, SMTT(30)
    <3> QED
      BY <1>1, <1>5, <2>1, <3>2, Zenon DEF InOrder
  <2> QED
    BY <1>1, <1>5, <2>1, Zenon DEF InOrder
<1>6. InOrder(old)' /\ InOrder(due)'
  BY <1>3, <1>5, Zenon DEF Direct
<1>7. qmsg = 0 /\ next_qmsg = -1
  BY Zenon DEF IInv, Cursors
<1> QED
  BY <1>1, <1>4, <1>6, <1>7, Zenon DEF Direct

\* The sweep moves on from the message at position p.
LEMMA SweptDirect ==
    ASSUME IInv, Direct, ~Routed, NEW p, Swept(p)
    PROVE  Direct'
<1> PICK N : N = Len(queued_msgs)
  BY Zenon
<1>0. /\ queued_msgs \in Seq(QueuedMsg) /\ DistinctQueue
      /\ N \in Nat /\ DOMAIN queued_msgs = 1 .. N
  BY SMTT(30) DEF IInv, Once, Bookkeeping
<1>1. /\ p \in 1 .. N /\ queued_msgs[p].msg.id = qmsg /\ phase = "queued" /\ phase' = "queued"
      /\ next_qmsg # -1 /\ qmsg' = next_qmsg /\ next_qmsg' = -1
      /\ tasks' = tasks /\ conns_by_from' = conns_by_from
  BY <1>0 DEF Swept, registry
<1>2. tasks' = <<>>
  BY <1>1, Zenon DEF Direct
<1>3. next_qmsg = IF p < N THEN queued_msgs[p + 1].msg.id ELSE 0
  <2>1. next_qmsg = IdAt(p + 1)
    BY <1>0, <1>1, Zenon DEF Direct
  <2>2. p + 1 \in 1 .. N <=> p < N
    BY <1>0, <1>1
  <2> QED
    BY <1>0, <2>1, <2>2, Zenon DEF IdAt
<1>4. \A i \in 1 .. N : i < p => Absent(i) /\ queued_msgs[i].msg.id \notin due
  BY <1>0, <1>1, Zenon DEF Direct, Behind, DistinctQueue
<1>5. CASE UNCHANGED <<store, old, due, got, lost>> /\ Absent(p) /\ qmsg \notin due
  <2>1. queued_msgs' = queued_msgs /\ old' = old /\ due' = due
    BY <1>5 DEF store
  <2>2. ASSUME NEW i \in 1 .. N, Behind(i)' PROVE i <= p
    <3>1. CASE p < N
      <4>1. i < p + 1
        BY <1>0, <1>1, <1>3, <2>1, <2>2, <3>1, SMTT(30) DEF Behind
      <4> QED
        BY <1>1, <4>1, SMTT(30)
    <3> QED
      BY <1>1, <3>1
  <2>3. \A i \in 1 .. N : i <= p => Absent(i) /\ queued_msgs[i].msg.id \notin due
    BY <1>1, <1>4, <1>5, SMTT(30)
  <2>4. \A i \in 1 .. N : Behind(i)' => Absent(i)' /\ queued_msgs'[i].msg.id \notin due'
    BY <1>1, <2>1, <2>2, <2>3, Zenon DEF Absent
  <2>5. InOrder(old)' /\ InOrder(due)'
    BY <2>1, Zenon DEF Direct, InOrder
  <2> QED
    BY <1>0, <1>1, <1>2, <2>1, <2>4, <2>5, Zenon DEF Direct
<1>6. CASE DequeueMsg(queued_msgs[p]) /\ PositionOf(qmsg) = p
  <2>1. /\ queued_msgs' = RemoveAt(queued_msgs, p)
        /\ old' = old \ {qmsg} /\ due' = due \ {qmsg}
    BY <1>6 DEF DequeueMsg
  <2>2. DOMAIN queued_msgs' = 1 .. N - 1 /\ LacksAt(queued_msgs, p, queued_msgs')
    BY <1>0, <1>1, <2>1, RemoveAtPlaces, Zenon
  <2>3. /\ \A n \in 1 .. N - 1 : /\ Shifted(p, n) \in 1 .. N /\ Shifted(p, n) # p
                                 /\ queued_msgs'[n] = queued_msgs[Shifted(p, n)]
        /\ \A m, n \in 1 .. N - 1 : m < n => Shifted(p, m) < Shifted(p, n)
    BY <1>0, <2>2, Zenon DEF LacksAt
  <2>4. \A n \in 1 .. N - 1 : queued_msgs'[n].msg.id # qmsg
    BY <1>0, <1>1, <2>3, ZenonT(30) DEF DistinctQueue
  <2>5. ASSUME NEW aged, InOrder(aged) 
        PROVE  \A i, j \in 1 .. N - 1 : i < j /\ queued_msgs'[j].msg.id \in aged \ {qmsg} => 
                    queued_msgs'[i].msg.id \in aged \ {qmsg}
    <3>1. SUFFICES ASSUME NEW i \in 1 .. N - 1, NEW j \in 1 .. N - 1, i < j,
                          queued_msgs'[j].msg.id \in aged
                   PROVE  queued_msgs'[i].msg.id \in aged
      BY <2>4, Zenon
    <3>2. Shifted(p, i) < Shifted(p, j) /\ Shifted(p, i) \in 1 .. N /\ Shifted(p, j) \in 1 .. N
      BY <2>3, <3>1
    <3> QED
      BY <1>0, <2>3, <2>5, <3>1, <3>2, Zenon DEF InOrder
  <2>6. InOrder(old)' /\ InOrder(due)'
    BY <2>1, <2>2, <2>5, ZenonT(30) DEF Direct, InOrder
  <2>7. ASSUME NEW i \in 1 .. N - 1, Behind(i)' PROVE i < p
    <3>1. CASE p < N
      <4>1. p \in 1 .. N - 1 /\ Shifted(p, p) = p + 1
        BY <1>0, <1>1, <3>1, SMTT(30) DEF Shifted
      <4>2. queued_msgs'[p].msg.id = qmsg'
        BY <1>1, <1>3, <2>3, <3>1, <4>1, Zenon
      <4> QED
        BY <2>2, <2>7, <4>1, <4>2, Zenon DEF Behind
    <3> QED
      BY <1>0, <1>1, <3>1
  <2>8. ASSUME NEW i \in 1 .. N - 1, Behind(i)'
        PROVE  Absent(i)' /\ queued_msgs'[i].msg.id \notin due'
    <3>1. i < p /\ Shifted(p, i) = i /\ i \in 1 .. N
      BY <2>7, <2>8, SMTT(30) DEF Shifted
    <3>2. queued_msgs'[i] = queued_msgs[i]
      BY <2>3, <3>1, Zenon
    <3> QED
      BY <1>1, <1>4, <2>1, <3>1, <3>2, Zenon DEF Absent
  <2> QED
    BY <1>1, <1>2, <2>2, <2>6, <2>8, Zenon DEF Direct
<1> QED
  BY <1>1, <1>5, <1>6, Zenon DEF Swept, Absent

\* Direct holds when the server starts.
LEMMA InitDirect == Init => Direct
BY SMTT(30) DEF Init, Direct, InOrder

\* Every step keeps Direct when there is no router.
LEMMA NextDirect == ~Routed /\ IInv /\ Direct /\ [Next]_vars => Direct'
<1> SUFFICES ASSUME ~Routed, IInv, Direct, [Next]_vars PROVE Direct'
  OBVIOUS
<1>0. /\ queued_msgs \in Seq(QueuedMsg) /\ DistinctQueue
      /\ tasks \in Seq(Message)
      /\ \A i \in DOMAIN queued_msgs : queued_msgs[i].msg.to \in Idents
  <2>1. /\ queued_msgs \in Seq(QueuedMsg) /\ DistinctQueue
        /\ tasks \in Seq(Message)
    BY DEF IInv, Once, Bookkeeping
  <2>2. \A i \in DOMAIN queued_msgs : queued_msgs[i] \in QueuedMsg
    BY <2>1, SMTT(30)
  <2> QED
    BY <2>1, <2>2 DEF QueuedMsg, Message
<1>1. ASSUME UNCHANGED <<queued_msgs, old, due, qmsg, next_qmsg, phase>>,
             \/ phase = "complete"
             \/ \A id \in Idents : conns_by_from[id] = <<>> => conns_by_from'[id] = <<>>,
             tasks' # <<>> => phase = "input" /\ Len(tasks') = 1 /\ tasks'[1].id = count'
      PROVE  Direct'
  <2>1. CASE phase = "complete"
    BY <1>1, <2>1, Zenon DEF Direct, InOrder, IdAt
  <2>2. CASE \A id \in Idents : conns_by_from[id] = <<>> => conns_by_from'[id] = <<>>
    <3>1. \A i \in DOMAIN queued_msgs : Absent(i) => Absent(i)'
      BY <1>0, <1>1, <2>2, Zenon DEF Absent
    <3>2. \A i : Behind(i)' <=> Behind(i)
      BY <1>1, Zenon DEF Behind
    <3>3. InOrder(old)' /\ InOrder(due)'
      BY <1>1, Zenon DEF Direct, InOrder
    <3> QED
      BY <1>1, <3>1, <3>2, <3>3, Zenon DEF Direct, IdAt
  <2> QED
    BY <1>1, <2>1, <2>2, Zenon
<1>2. ASSUME NEW c \in Conns,
             \/ OpenConn(c)
             \/ \E g \in Logons : LogOnConn(c, g)
             \/ \E ids : LogOffConn(c, ids)
             \/ ShutConn(c)
      PROVE  Direct'
  <2>1. /\ UNCHANGED rest
        /\ \/ phase = "complete"
           \/ \A id \in Idents : conns_by_from[id] = <<>> => conns_by_from'[id] = <<>>
    BY <1>2, ConnSteps, Zenon DEF IInv
  <2>2. UNCHANGED <<queued_msgs, old, due, qmsg, next_qmsg, phase, tasks, count>>
    BY <2>1, Zenon DEF rest, store, sweep
  <2> QED
    BY <1>1, <2>1, <2>2, Zenon DEF Direct
<1>3. ASSUME NEW c \in Conns, NEW m \in Inputs, ConnProcessMsg(c, m) PROVE Direct'
  <2>1. PICK e \in Message : e.id = count + 1 /\ tasks' = Append(tasks, e)
    BY <1>3, Submitted, Zenon DEF IInv
  <2>2. /\ count' = count + 1 /\ tasks = <<>> /\ phase = "input"
        /\ UNCHANGED <<registry, phase, store, old, sweep>>
    BY <1>3 DEF ConnProcessMsg, MainIsFree
  <2>3. UNCHANGED <<conns_by_from, queued_msgs, old, due, qmsg, next_qmsg, phase>>
    BY <2>2 DEF registry, store, sweep
  <2>4. Len(tasks') = 1 /\ tasks'[1] = e
    BY <2>1, <2>2, SMTT(30)
  <2> QED
    BY <1>1, <2>1, <2>2, <2>3, <2>4, Zenon
<1>4. CASE PassThrough
  <2>1. PICK m : m = tasks[1]
    OBVIOUS
  <2>2. Passed(1, m)
    BY <1>0, <1>4, <2>1, PassedOn, Zenon
  <2>3. /\ tasks # <<>> /\ phase = "input" /\ Len(tasks) = 1
    BY <1>4 DEF PassThrough, Direct
  <2>4. tasks' = <<>>
    BY <1>0, <1>4, <2>3, SMTT(30) DEF PassThrough
  <2>5. UNCHANGED <<phase, old, due, qmsg, next_qmsg>>
    BY <2>2, Zenon DEF Passed, sweep
  <2>6. /\ \A id \in Idents : conns_by_from[id] = <<>> => conns_by_from'[id] = <<>>
        /\ \/ UNCHANGED queued_msgs
           \/ /\ conns_by_from[m.to] = <<>>
              /\ queued_msgs' = Append(queued_msgs, [msg |-> m, is_atc |-> FALSE])
    BY <2>2, PassedEffect, Zenon
  <2>7. CASE UNCHANGED queued_msgs
    BY <1>1, <2>4, <2>5, <2>6, <2>7, Zenon
  <2>8. CASE /\ conns_by_from[m.to] = <<>>
             /\ queued_msgs' = Append(queued_msgs, [msg |-> m, is_atc |-> FALSE])
    <3>1. m \in Message /\ m.to \in Idents /\ InTasks(m.id)
      BY <2>1, <2>2, Zenon DEF Passed, Message, InTasks
    <3>2. ~Queued(m.id)
      BY <3>1, Zenon DEF IInv, Once, OnePlace, NoPlace
    <3>3. PICK q : q = [msg |-> m, is_atc |-> FALSE]
      BY Zenon
    <3>4. q \in QueuedMsg
      BY <3>1, <3>3, Zenon DEF QueuedMsg
    <3>5. q.msg = m
      BY <3>3
    <3> QED
      BY <2>3, <2>4, <2>5, <2>6, <2>8, <3>1, <3>2, <3>3, <3>4, <3>5, StoredDirect, Zenon
  <2> QED
    BY <2>6, <2>7, <2>8
<1>5. ASSUME NEW i, RouterProc(i) PROVE Direct'
  BY <1>5, Zenon DEF RouterProc
<1>6. CASE EndInput
  <2>1. tasks' = <<>> /\ phase' = "complete"
    BY <1>6 DEF EndInput, MainIsFree, Direct
  <2>2. UNCHANGED <<queued_msgs, old, due, qmsg, next_qmsg>>
    BY <1>6, Zenon DEF EndInput, store, sweep
  <2>3. InOrder(old)' /\ InOrder(due)'
    BY <2>2, Zenon DEF Direct, InOrder
  <2> QED
    BY <2>1, <2>2, <2>3, Zenon DEF Direct, IdAt
<1>7. CASE StartSweep
  <2>1. /\ tasks' = <<>> /\ phase' = "queued" /\ next_qmsg' = -1
        /\ queued_msgs' = queued_msgs /\ old' = old /\ due' = old /\ qmsg' = IdAt(1)
    BY <1>7, Zenon DEF StartSweep, store, Direct, IInv, Cursors
  <2>2. InOrder(old)' /\ InOrder(due)'
    BY <2>1 DEF Direct, InOrder
  <2>3. ASSUME NEW i \in DOMAIN queued_msgs PROVE ~(Behind(i)')
    <3>1. i \in Nat \ {0} /\ 1 \in DOMAIN queued_msgs
      BY <1>0, <2>3, SMTT(30)
    <3> QED
      BY <2>1, <3>1 DEF Behind, IdAt
  <2> QED
    BY <2>1, <2>2, <2>3, Zenon DEF Direct
<1>8. CASE SweepNext
  <2>1. /\ UNCHANGED <<queued_msgs, old, due, qmsg, phase, tasks, count, conns_by_from>>
        /\ phase = "queued"
        /\ Queued(qmsg) /\ next_qmsg' = IdAt(PositionOf(qmsg) + 1)
    BY <1>8, Zenon DEF SweepNext, store, registry, IInv, Cursors
  <2>2. \A p \in DOMAIN queued_msgs :
           queued_msgs[p].msg.id = qmsg => next_qmsg' = IdAt(p + 1)
    BY <1>0, <2>1, Position, Zenon DEF DistinctQueue
  <2>3. InOrder(old)' /\ InOrder(due)'
    BY <2>1, Zenon DEF Direct, InOrder
  <2>4. \A i : (Behind(i)' <=> Behind(i)) /\ (Absent(i)' <=> Absent(i))
    BY <2>1, Zenon DEF Behind, Absent
  <2>5. \A j : IdAt(j)' = IdAt(j)
    BY <2>1 DEF IdAt
  <2> QED
    BY <2>1, <2>2, <2>3, <2>4, <2>5, Zenon DEF Direct
<1>9. CASE SweepMsg
  BY <1>9, SweepMsgIsSwept, SweptDirect, Zenon
<1>10. CASE EndSweep
  <2>1. /\ UNCHANGED <<queued_msgs, old, qmsg, next_qmsg, tasks, count, conns_by_from>>
        /\ due' = {} /\ phase = "queued" /\ phase' = "input" /\ qmsg = 0 /\ next_qmsg = -1
    BY <1>10, Zenon DEF EndSweep, store, registry, IInv, Cursors
  <2>2. \A i \in DOMAIN queued_msgs : Absent(i)
    <3>1. \A i \in DOMAIN queued_msgs : queued_msgs[i].msg.id # 0
      BY <1>0, QueuedPositive, Zenon DEF Queued
    <3> QED
      BY <2>1, <3>1, Zenon DEF Direct, Behind
  <2>3. InOrder(old)' /\ InOrder(due)'
    BY <2>1, Zenon DEF Direct, InOrder
  <2> QED
    BY <2>1, <2>2, <2>3, Zenon DEF Direct, Absent
<1>11. CASE Age
  <2>1. PICK k \in DOMAIN queued_msgs :
          /\ \A j \in 1 .. k - 1 : IdAt(j) \in old
          /\ old' = old \cup {IdAt(k)}
    BY <1>11 DEF Age
  <2>2. UNCHANGED <<queued_msgs, due, qmsg, next_qmsg, phase, tasks, count, conns_by_from>>
    BY <1>11, Zenon DEF Age, store, registry, sweep
  <2>3. InOrder(due)'
    BY <2>2 DEF Direct, InOrder
  <2>4. InOrder(old)'
    <3>1. ASSUME NEW i \in DOMAIN queued_msgs, NEW j \in DOMAIN queued_msgs, i < j,
                 queued_msgs[j].msg.id \in old'
          PROVE  queued_msgs[i].msg.id \in old'
      <4>1. CASE queued_msgs[j].msg.id \in old
        BY <2>1, <3>1, <4>1, Zenon DEF Direct, InOrder
      <4>2. CASE queued_msgs[j].msg.id = IdAt(k)
        <5>1. j = k
          BY <1>0, <2>1, <4>2, Zenon DEF IdAt, DistinctQueue
        <5>2. i \in 1 .. k - 1 /\ IdAt(i) = queued_msgs[i].msg.id
          BY <1>0, <2>1, <3>1, <5>1, SMTT(30) DEF IdAt
        <5> QED
          BY <2>1, <5>2, Zenon
      <4> QED
        BY <2>1, <3>1, <4>1, <4>2, Zenon
    <3> QED
      BY <2>2, <3>1, Zenon DEF InOrder
  <2>5. \A i : (Behind(i)' <=> Behind(i)) /\ (Absent(i)' <=> Absent(i))
    BY <2>2, Zenon DEF Behind, Absent
  <2>6. \A j : IdAt(j)' = IdAt(j)
    BY <2>2, Zenon DEF IdAt
  <2> QED
    BY <2>2, <2>3, <2>4, <2>5, <2>6, Zenon DEF Direct
<1>12. CASE UNCHANGED vars
  <2>1. UNCHANGED <<queued_msgs, old, due, qmsg, next_qmsg, phase, tasks, count, conns_by_from>>
    BY <1>12 DEF vars, store, sweep, registry
  <2> QED
    BY <1>1, <2>1, Zenon DEF Direct
<1> QED
  BY <1>2, <1>3, <1>4, <1>5, <1>6, <1>7, <1>8, <1>9, <1>10, <1>11, <1>12, Zenon DEF Next

\* IInv and Direct hold in every state when there is no router.
LEMMA DirectInvariance == ~Routed => (Spec => [](IInv /\ Direct))
<1> SUFFICES ASSUME ~Routed PROVE Spec => [](IInv /\ Direct)
  OBVIOUS
<1>1. IInv /\ Direct /\ [Next]_vars => Direct'
  BY NextDirect
<1> QED
  BY <1>1, InitIInv, NextIInv, InitDirect, PTL DEF Spec

\* Without a router, when the main loop is back at reading input no message
\* is queued for a callsign that is logged on.
THEOREM NothingWaits == Spec => []NothingWaitsForThePresent
<1>1. CASE Routed
  <2>1. NothingWaitsForThePresent
    BY <1>1 DEF NothingWaitsForThePresent
  <2> QED
    BY <2>1, PTL
<1>2. CASE ~Routed
  <2>1. Direct => NothingWaitsForThePresent
    BY DEF Direct, Absent, NothingWaitsForThePresent
  <2>2. Spec => [](IInv /\ Direct)
    BY <1>2, DirectInvariance
  <2> QED
    BY <2>1, <2>2, PTL
<1> QED
  BY <1>1, <1>2

-----------------------------------------------------------------------------
(* Messages in the order of their arrival. *)

\* Numbers in increasing order.
Rising(s) == \A i, j \in DOMAIN s : i < j => s[i] < s[j]

\* b is what waits for a callsign and r what it received, after n messages:
\* both in the order of arrival, what it received before what waits.
InLine(n, b, r) ==
    /\ b \in Seq(1 .. n) /\ r \in Seq(1 .. n)
    /\ Rising(b) /\ Rising(r)
    /\ \A i \in DOMAIN r, j \in DOMAIN b : r[i] < b[j]

\* A list of numbers stays rising with a larger one behind it.
LEMMA RisingAppend ==
    ASSUME NEW S \in SUBSET Nat, NEW s \in Seq(S), NEW e \in S, Rising(s),
           \A i \in DOMAIN s : s[i] < e
    PROVE  /\ Append(s, e) \in Seq(S) /\ Rising(Append(s, e))
           /\ \A i \in DOMAIN Append(s, e) :
                 \/ Append(s, e)[i] = e
                 \/ \E k \in DOMAIN s : Append(s, e)[i] = s[k]
<1>1. PICK t : t = Append(s, e)
  BY Zenon
<1>2. PICK n \in Nat : n = Len(s) /\ DOMAIN s = 1 .. n
  OBVIOUS
<1>3. /\ t \in Seq(S) /\ Len(t) = n + 1 /\ DOMAIN t = 1 .. n + 1
      /\ \A i \in 1 .. n : t[i] = s[i]
      /\ t[n + 1] = e
  BY <1>1, <1>2, AppendPlaces
<1>4. Rising(t)
  <2>1. SUFFICES ASSUME NEW i \in 1 .. n + 1, NEW j \in 1 .. n + 1, i < j
                 PROVE  t[i] < t[j]
    BY <1>3 DEF Rising
  <2>2. i \in 1 .. n /\ (j \in 1 .. n \/ j = n + 1)
    BY <1>2, <2>1
  <2> QED
    BY <1>2, <1>3, <2>1, <2>2, SMTT(30) DEF Rising
<1>5. ASSUME NEW i \in 1 .. n + 1 PROVE t[i] = e \/ \E k \in DOMAIN s : t[i] = s[k]
  <2>1. i \in 1 .. n \/ i = n + 1
    BY <1>2
  <2> QED
    BY <1>2, <1>3, <2>1
<1> QED
  BY <1>1, <1>3, <1>4, <1>5

\* A list of numbers stays rising without the first.
LEMMA RisingTail ==
    ASSUME NEW S \in SUBSET Nat, NEW s \in Seq(S), s # <<>>, Rising(s)
    PROVE  /\ Tail(s) \in Seq(S) /\ Rising(Tail(s)) /\ Head(s) \in S
           /\ \A i \in DOMAIN Tail(s) :
                 /\ Head(s) < Tail(s)[i]
                 /\ \E k \in DOMAIN s : Tail(s)[i] = s[k]
<1>1. PICK t : t = Tail(s)
  BY Zenon
<1>2. PICK n \in Nat : n + 1 = Len(s) /\ DOMAIN s = 1 .. n + 1
  <2>1. Len(s) \in Nat /\ Len(s) # 0 /\ DOMAIN s = 1 .. Len(s)
    OBVIOUS
  <2>2. Len(s) - 1 \in Nat /\ (Len(s) - 1) + 1 = Len(s)
    BY <2>1
  <2> QED
    BY <2>1, <2>2, Zenon
<1>3. /\ t \in Seq(S) /\ DOMAIN t = 1 .. n
      /\ \A i \in 1 .. n : t[i] = s[i + 1]
      /\ Head(s) = s[1] /\ s[1] \in S
  BY <1>1, <1>2
<1>4. Rising(t)
  <2>1. SUFFICES ASSUME NEW i \in 1 .. n, NEW j \in 1 .. n, i < j
                 PROVE  t[i] < t[j]
    BY <1>3 DEF Rising
  <2>2. i + 1 \in 1 .. n + 1 /\ j + 1 \in 1 .. n + 1 /\ i + 1 < j + 1
    BY <1>2, <2>1
  <2>3. s[i + 1] < s[j + 1]
    BY <1>2, <2>2 DEF Rising
  <2> QED
    BY <1>3, <2>3
<1>5. ASSUME NEW i \in 1 .. n PROVE Head(s) < t[i] /\ \E k \in DOMAIN s : t[i] = s[k]
  <2>1. i + 1 \in 1 .. n + 1 /\ 1 \in 1 .. n + 1 /\ 1 < i + 1
    BY <1>2
  <2>2. s[1] < s[i + 1]
    BY <1>2, <2>1 DEF Rising
  <2> QED
    BY <1>2, <1>3, <2>1, <2>2, Zenon
<1> QED
  BY <1>1, <1>3, <1>4, <1>5

\* What becomes of a line: more messages come in, the latest is passed on or
\* kept, the first is handed over or expires.
LEMMA LineMoves ==
    ASSUME NEW n \in Nat, NEW b, NEW r, InLine(n, b, r)
    PROVE  /\ InLine(n + 1, b, r)
           /\ b = <<>> /\ n > 0 /\ n \notin Range(r) => InLine(n, b, Append(r, n))
           /\ n > 0 /\ n \notin Range(b) \cup Range(r) => InLine(n, Append(b, n), r)
           /\ b # <<>> => InLine(n, Tail(b), r) /\ InLine(n, Tail(b), Append(r, Head(b)))
<1>0. /\ b \in Seq(1 .. n) /\ r \in Seq(1 .. n) /\ Rising(b) /\ Rising(r)
      /\ \A i \in DOMAIN r, j \in DOMAIN b : r[i] < b[j]
      /\ \A i \in DOMAIN r : r[i] \in 1 .. n
      /\ \A j \in DOMAIN b : b[j] \in 1 .. n
      /\ 1 .. n \in SUBSET Nat
  BY DEF InLine
<1>1. InLine(n + 1, b, r)
  <2>1. b \in Seq(1 .. n + 1) /\ r \in Seq(1 .. n + 1)
    <3>1. \A x \in 1 .. n : x \in 1 .. n + 1
      OBVIOUS
    <3> QED
      BY <1>0, <3>1
  <2> QED
    BY <1>0, <2>1 DEF InLine
<1>2. ASSUME b = <<>>, n > 0, n \notin Range(r) PROVE InLine(n, b, Append(r, n))
  <2>1. n \in 1 .. n /\ \A i \in DOMAIN r : r[i] < n
    BY <1>0, <1>2 DEF Range
  <2>2. Append(r, n) \in Seq(1 .. n) /\ Rising(Append(r, n))
    BY <1>0, <2>1, RisingAppend, Zenon
  <2> QED
    BY <1>0, <1>2, <2>2 DEF InLine
<1>3. ASSUME n > 0, n \notin Range(b) \cup Range(r) PROVE InLine(n, Append(b, n), r)
  <2>1. n \in 1 .. n /\ (\A i \in DOMAIN r : r[i] < n) /\ (\A j \in DOMAIN b : b[j] < n)
    BY <1>0, <1>3 DEF Range
  <2>2. PICK t : t = Append(b, n)
    BY Zenon
  <2>3. /\ t \in Seq(1 .. n) /\ Rising(t)
        /\ \A j \in DOMAIN t : t[j] = n \/ \E k \in DOMAIN b : t[j] = b[k]
    BY <1>0, <2>1, <2>2, RisingAppend, Zenon
  <2>4. \A i \in DOMAIN r, j \in DOMAIN t : r[i] < t[j]
    BY <1>0, <2>1, <2>3, Zenon
  <2> QED
    BY <1>0, <2>2, <2>3, <2>4, Zenon DEF InLine
<1>4. ASSUME b # <<>> PROVE InLine(n, Tail(b), r) /\ InLine(n, Tail(b), Append(r, Head(b)))
  <2>1. PICK t, h : t = Tail(b) /\ h = Head(b)
    BY Zenon
  <2>2. /\ t \in Seq(1 .. n) /\ Rising(t) /\ h \in 1 .. n
        /\ \A j \in DOMAIN t : h < t[j]
        /\ \A j \in DOMAIN t : \E k \in DOMAIN b : t[j] = b[k]
    BY <1>0, <1>4, <2>1, RisingTail, Zenon
  <2>3. \A i \in DOMAIN r, j \in DOMAIN t : r[i] < t[j]
    BY <1>0, <2>2
  <2>4. 1 \in DOMAIN b /\ h = b[1]
    BY <1>0, <1>4, <2>1, SMTT(30)
  <2>5. \A i \in DOMAIN r : r[i] < h
    BY <1>0, <2>4
  <2>6. PICK q : q = Append(r, h)
    BY Zenon
  <2>7. /\ q \in Seq(1 .. n) /\ Rising(q)
        /\ \A i \in DOMAIN q : q[i] = h \/ \E k \in DOMAIN r : q[i] = r[k]
    BY <1>0, <2>2, <2>5, <2>6, RisingAppend, Zenon
  <2>8. \A i \in DOMAIN q, j \in DOMAIN t : q[i] < t[j]
    BY <2>2, <2>3, <2>7, Zenon
  <2> QED
    BY <1>0, <2>1, <2>2, <2>3, <2>6, <2>7, <2>8, Zenon DEF InLine
<1> QED
  BY <1>1, <1>2, <1>3, <1>4, SMTT(30)

-----------------------------------------------------------------------------
(* What each step is to the mailboxes. *)

\* The numbers of the queued messages, and the positions of those for id.
Numbers == [i \in DOMAIN queued_msgs |-> queued_msgs[i].msg.id]
ForIdent(id) == {i \in DOMAIN queued_msgs : queued_msgs[i].msg.to = id}

\* The numbers of the queued messages, as a list.
LEMMA NumbersType ==
    ASSUME queued_msgs \in Seq(QueuedMsg)
    PROVE  /\ Numbers \in Seq(Nat) /\ Len(Numbers) = Len(queued_msgs)
           /\ DOMAIN Numbers = DOMAIN queued_msgs
           /\ \A i \in DOMAIN queued_msgs : Numbers[i] = queued_msgs[i].msg.id
<1>1. \A i \in DOMAIN queued_msgs : queued_msgs[i].msg.id \in Nat
  BY QueuedPositive DEF Queued
<1> QED
  BY <1>1 DEF Numbers

\* A mailbox holds the numbers of the messages queued for its callsign.
LEMMA MailboxFacts ==
    ASSUME queued_msgs \in Seq(QueuedMsg), NEW id
    PROVE  /\ MailboxOf(id) \in Seq(Nat)
           /\ \A n \in Range(MailboxOf(id)) : Queued(n)
           /\ ForIdent(id) = {} => MailboxOf(id) = <<>>
<1>1. PICK t : t = MailboxOf(id)
  OBVIOUS
<1>2. t = Chosen(Numbers, ForIdent(id))
  BY <1>1 DEF MailboxOf, Numbers, ForIdent
<1>6. PICK s : s = Numbers
  OBVIOUS
<1>7. /\ s \in Seq(Nat) /\ DOMAIN s = DOMAIN queued_msgs
      /\ \A i \in DOMAIN queued_msgs : s[i] = queued_msgs[i].msg.id
  BY <1>6, NumbersType
<1>8. PICK I : I = ForIdent(id)
  OBVIOUS
<1>9. t = Chosen(s, I)
  BY <1>2, <1>6, <1>8, SMTT(30)
<1>3. /\ t \in Seq(Nat)
      /\ \A k \in DOMAIN t : \E i \in DOMAIN s : i \in I /\ t[k] = s[i]
  BY <1>7, <1>9, ChosenFacts, SMTT(30)
<1>4. \A n \in Range(t) : Queued(n)
  BY <1>3, <1>7, ZenonT(30) DEF Range, Queued
<1>5. ASSUME ForIdent(id) = {} PROVE t = <<>>
  <2>1. \A k \in DOMAIN t : FALSE
    BY <1>3, <1>5, <1>8, Zenon
  <2> QED
    BY <1>3, <2>1
<1> QED
  BY <1>1, <1>3, <1>4, <1>5, SMTT(30)

\* What a list of numbers that grows at its end chooses, as store_msg grows the queue.
LEMMA NumberAppended ==
    ASSUME NEW s \in Seq(Nat), NEW e \in Nat, NEW I, NEW J, AgreeUpTo(Len(s), I, J)
    PROVE  /\ Len(s) + 1 \in J => Chosen(Append(s, e), J) = Append(Chosen(s, I), e)
           /\ Len(s) + 1 \notin J => Chosen(Append(s, e), J) = Chosen(s, I)
  BY ChosenAppend, SMTT(30)

\* store_msg puts a message into one mailbox.
LEMMA MailboxStored ==
    ASSUME queued_msgs \in Seq(QueuedMsg), NEW q \in QueuedMsg,
           queued_msgs' = Append(queued_msgs, q), NEW id
    PROVE  MailboxOf(id)' = IF id = q.msg.to THEN Append(MailboxOf(id), q.msg.id)
                                             ELSE MailboxOf(id)
<1> PICK N : N = Len(queued_msgs)
  OBVIOUS
<1>s. PICK s : s = Numbers
  OBVIOUS
<1>r. PICK r : r = Numbers'
  OBVIOUS
<1>I. PICK I : I = ForIdent(id)
  OBVIOUS
<1>J. PICK J : J = ForIdent(id)'
  OBVIOUS
<1>1. /\ queued_msgs' \in Seq(QueuedMsg) /\ Len(queued_msgs') = N + 1
      /\ \A n \in 1 .. N : queued_msgs'[n] = queued_msgs[n]
      /\ queued_msgs'[N + 1] = q
  BY AppendPlaces
<1>2. N \in Nat /\ DOMAIN queued_msgs = 1 .. N /\ DOMAIN queued_msgs' = 1 .. N + 1
  BY <1>1
<1>3. /\ s \in Seq(Nat) /\ Len(s) = N /\ DOMAIN s = 1 .. N
      /\ \A i \in 1 .. N : s[i] = queued_msgs[i].msg.id
  BY <1>2, <1>s, NumbersType, Zenon
<1>4. q.msg.id \in Nat
  BY DEF QueuedMsg, Message
<1>5. r = Append(s, q.msg.id)
  <2>1. r = [i \in 1 .. N + 1 |-> queued_msgs'[i].msg.id]
    BY <1>2, <1>r, SMTT(30) DEF Numbers
  <2> QED
    BY <1>1, <1>2, <1>3, <1>4, <2>1, SMTT(30)
<1>6. AgreeUpTo(Len(s), I, J)
  BY <1>1, <1>2, <1>3, <1>I, <1>J, SMTT(30) DEF ForIdent, AgreeUpTo
<1>7. Len(s) + 1 \in J <=> id = q.msg.to
  BY <1>1, <1>2, <1>3, <1>I, <1>J, SMTT(30) DEF ForIdent
<1>8. Chosen(r, J) = IF Len(s) + 1 \in J THEN Append(Chosen(s, I), q.msg.id) ELSE Chosen(s, I)
  <2>1. PICK e \in Nat : e = q.msg.id
    BY <1>4
  <2>2. s \in Seq(Nat) /\ r = Append(s, e)
    BY <1>3, <1>5, <2>1, SMTT(30)
  <2>3. /\ Len(s) + 1 \in J => Chosen(Append(s, e), J) = Append(Chosen(s, I), e)
        /\ Len(s) + 1 \notin J => Chosen(Append(s, e), J) = Chosen(s, I)
    BY <1>6, <2>1, <2>2, NumberAppended, SMTT(30)
  <2> QED
    BY <2>1, <2>2, <2>3, Zenon
<1>9. MailboxOf(id)' = Chosen(r, J) /\ MailboxOf(id) = Chosen(s, I)
  BY <1>s, <1>r, <1>I, <1>J, SMTT(30) DEF MailboxOf, Numbers, ForIdent
<1> QED
  BY <1>7, <1>8, <1>9, SMTT(30)

\* dequeue_msg of the first message for a callsign takes it from the head of
\* the callsign's mailbox.
LEMMA MailboxServed ==
    ASSUME queued_msgs \in Seq(QueuedMsg), NEW p \in DOMAIN queued_msgs,
           queued_msgs' = RemoveAt(queued_msgs, p),
           \A i \in DOMAIN queued_msgs : i < p => queued_msgs[i].msg.to # queued_msgs[p].msg.to,
           NEW id
    PROVE  IF id = queued_msgs[p].msg.to
           THEN /\ MailboxOf(id) # <<>>
                /\ Head(MailboxOf(id)) = queued_msgs[p].msg.id
                /\ MailboxOf(id)' = Tail(MailboxOf(id))
           ELSE MailboxOf(id)' = MailboxOf(id)
<1>N. PICK N : N = Len(queued_msgs)
  OBVIOUS
<1>s. PICK s : s = Numbers
  OBVIOUS
<1>r. PICK r : r = Numbers'
  OBVIOUS
<1>I. PICK I : I = ForIdent(id)
  OBVIOUS
<1>J. PICK J : J = ForIdent(id)'
  OBVIOUS
<1>1. N \in Nat /\ DOMAIN queued_msgs = 1 .. N /\ p \in 1 .. N
  BY <1>N
<1>2. /\ queued_msgs' \in Seq(QueuedMsg) /\ DOMAIN queued_msgs' = 1 .. N - 1
      /\ LacksAt(queued_msgs, p, queued_msgs')
  BY <1>N, RemoveAtPlaces
<1>3. \A n \in 1 .. N - 1 : /\ Shifted(p, n) \in 1 .. N
                            /\ queued_msgs'[n] = queued_msgs[Shifted(p, n)]
  BY <1>1, <1>2, Zenon DEF LacksAt
<1>4. /\ s \in Seq(Nat) /\ Len(s) = N /\ DOMAIN s = 1 .. N
      /\ \A i \in 1 .. N : s[i] = queued_msgs[i].msg.id
  BY <1>N, <1>s, <1>1, NumbersType, SMTT(30)
<1>5. r = RemoveAt(s, p)
  <2>1. r = [i \in 1 .. N - 1 |-> queued_msgs'[i].msg.id]
    BY <1>2, <1>r DEF Numbers
  <2>2. PICK t : t = RemoveAt(s, p)
    OBVIOUS
  <2>3. t \in Seq(Nat) /\ DOMAIN t = 1 .. N - 1 /\ LacksAt(s, p, t)
    BY <1>1, <1>4, <2>2, RemoveAtPlaces, Zenon
  <2>4. \A n \in 1 .. N - 1 : t[n] = queued_msgs'[n].msg.id
    <3>1. \A n \in 1 .. N - 1 : t[n] = s[Shifted(p, n)]
      BY <2>3 DEF LacksAt
    <3> QED
      BY <1>3, <1>4, <3>1, Zenon
  <2>5. t = [i \in 1 .. N - 1 |-> t[i]]
    BY <2>3
  <2> QED
    BY <2>1, <2>2, <2>4, <2>5, SMTT(30)
<1>6. MoveUp(Len(s), p, I, J)
  BY <1>I, <1>J, <1>1, <1>2, <1>3, <1>4, SMTT(30) DEF ForIdent, MoveUp
<1>7. p \in I <=> id = queued_msgs[p].msg.to
  BY <1>I DEF ForIdent
<1>8. p \in I => Leads(p, I)
  BY <1>I, <1>1, <1>7, SMTT(30) DEF ForIdent, Leads
<1>9. MailboxOf(id)' = Chosen(r, J) /\ MailboxOf(id) = Chosen(s, I)
  BY <1>s, <1>r, <1>I, <1>J, SMTT(30) DEF MailboxOf, Numbers, ForIdent
<1>10. p \in 1 .. Len(s) /\ s[p] = queued_msgs[p].msg.id
  BY <1>1, <1>4, SMTT(30)
<1>11. CASE p \in I
  <2>1. /\ Chosen(s, I) # <<>>
        /\ Head(Chosen(s, I)) = s[p]
        /\ Tail(Chosen(s, I)) = Chosen(RemoveAt(s, p), J)
    <3>1. s \in Seq(Nat) /\ p \in 1 .. Len(s) /\ Leads(p, I)
      BY <1>4, <1>8, <1>10, <1>11, SMTT(30)
    <3> QED
      BY <1>6, <3>1, ChosenRemoveFirst, SMTT(30)
  <2> QED
    BY <1>5, <1>7, <1>9, <1>10, <1>11, <2>1, SMTT(30)
<1>12. CASE p \notin I
  <2>1. Chosen(RemoveAt(s, p), J) = Chosen(s, I)
    BY <1>4, <1>6, <1>10, <1>12, ChosenRemoveOther, Zenon
  <2> QED
    BY <1>5, <1>7, <1>9, <1>12, <2>1, SMTT(30)
<1> QED
  BY <1>11, <1>12

-----------------------------------------------------------------------------
(* The steps of the mailboxes. *)

Box == [id \in Idents |-> MailboxOf(id)]
Received == [id \in Idents |-> Ids(got[id])]

\* Append, under a name that stays folded.
Added(s, e) == Append(s, e)

\* The numbers of a list of messages.
LEMMA IdsList ==
    ASSUME NEW s \in Seq(Message)
    PROVE  /\ Ids(s) \in Seq(Nat) /\ Len(Ids(s)) = Len(s)
           /\ \A i \in 1 .. Len(s) : Ids(s)[i] = s[i].id
<1>1. \A i \in 1 .. Len(s) : s[i].id \in Nat
  <2>1. \A i \in 1 .. Len(s) : s[i] \in Message
    OBVIOUS
  <2> QED
    BY <2>1, Zenon DEF Message
<1>2. Ids(s) = [i \in 1 .. Len(s) |-> s[i].id]
  BY DEF Ids
<1> QED
  BY <1>1, <1>2

\* What a delivery does to the list of what a callsign received.
LEMMA ReceivedAdded ==
    ASSUME got \in [Idents -> Seq(Message)], NEW a \in Idents, NEW m \in Message,
           got' = [got EXCEPT ![a] = Append(@, m)]
    PROVE  Received' = [Received EXCEPT ![a] = Append(@, m.id)]
<1>1. ASSUME NEW s \in Seq(Message) PROVE Ids(Append(s, m)) = Append(Ids(s), m.id)
  <2>2. /\ Ids(s) \in Seq(Nat) /\ Len(Ids(s)) = Len(s)
        /\ \A i \in 1 .. Len(s) : Ids(s)[i] = s[i].id
    BY IdsList
  <2>3. m.id \in Nat
    BY DEF Message
  <2>4. PICK r : r = Added(s, m)
    OBVIOUS
  <2>a. PICK w : w = Added(Ids(s), m.id)
    OBVIOUS
  <2>5. /\ Len(r) = Len(s) + 1 /\ r[Len(s) + 1] = m
        /\ \A i \in 1 .. Len(s) : r[i] = s[i]
    BY <2>4, AppendPlaces DEF Added
  <2>6. /\ w \in Seq(Nat) /\ Len(w) = Len(s) + 1 /\ w[Len(s) + 1] = m.id
        /\ \A i \in 1 .. Len(s) : w[i] = s[i].id
    <3>1. PICK t \in Seq(Nat), x \in Nat : t = Ids(s) /\ x = m.id
      BY <2>2, <2>3
    <3>2. /\ w \in Seq(Nat) /\ Len(w) = Len(t) + 1 /\ w[Len(t) + 1] = x
          /\ \A i \in 1 .. Len(t) : w[i] = t[i]
      BY <2>a, <3>1, AppendPlaces DEF Added
    <3> QED
      BY <2>2, <3>1, <3>2
  <2>7. w = [i \in 1 .. Len(s) + 1 |-> w[i]]
    BY <2>6
  <2>8. Ids(r) = [i \in 1 .. Len(s) + 1 |-> r[i].id]
    BY <2>5 DEF Ids
  <2>9. \A i \in 1 .. Len(s) + 1 : r[i].id = w[i]
    <3>0. Len(s) \in Nat
      OBVIOUS
    <3>1. \A i \in 1 .. Len(s) + 1 : i \in 1 .. Len(s) \/ i = Len(s) + 1
      BY <3>0, SMTT(30)
    <3> QED
      BY <2>5, <2>6, <3>1, Zenon
  <2>10. Ids(r) = w
    BY <2>7, <2>8, <2>9
  <2> QED
    BY <2>4, <2>a, <2>10, SMTT(30) DEF Added
<1>2. \A id \in Idents : got'[id] = IF id = a THEN Append(got[a], m) ELSE got[id]
  OBVIOUS
<1>3. got[a] \in Seq(Message)
  OBVIOUS
<1>4. \A id \in Idents : Ids(got'[id]) = IF id = a THEN Append(Ids(got[a]), m.id) ELSE Ids(got[id])
  BY <1>1, <1>2, <1>3, Zenon
<1>5. Received' = [id \in Idents |-> Ids(got'[id])]
  BY DEF Received, Ids
<1> QED
  BY <1>4, <1>5, Zenon DEF Received

\* Mailboxes change with the queue only.
LEMMA BoxSame == UNCHANGED queued_msgs => UNCHANGED Box
BY DEF Box, MailboxOf

\* What was received changes with got only.
LEMMA ReceivedSame == UNCHANGED got => UNCHANGED Received
BY DEF Received, Ids

\* The message that is being passed on is in no mailbox, and with nobody.
LEMMA Unsettled ==
    ASSUME IInv, Direct, tasks # <<>>
    PROVE  /\ count > 0
           /\ \A id \in Idents : count \notin Range(Box[id]) \cup Range(Received[id])
<1>1. tasks \in Seq(Message) /\ queued_msgs \in Seq(QueuedMsg)
  BY DEF IInv, Once, Bookkeeping
<1>2. InTasks(count) /\ count > 0
  <2>1. 1 \in DOMAIN tasks /\ tasks[1].id = count
    BY <1>1 DEF Direct
  <2>2. tasks[1] \in Message
    BY <1>1, <2>1
  <2> QED
    BY <2>1, <2>2 DEF InTasks, Message
<1>3. ~Queued(count) /\ ~InGot(count)
  BY <1>2, Zenon DEF IInv, Once, OnePlace, NoPlace
<1>4. ASSUME NEW id \in Idents PROVE count \notin Range(Box[id])
  <2>1. Box[id] = MailboxOf(id)
    BY DEF Box
  <2>2. \A n \in Range(MailboxOf(id)) : Queued(n)
    BY <1>1, MailboxFacts
  <2> QED
    BY <1>3, <2>1, <2>2
<1>5. ASSUME NEW id \in Idents PROVE count \notin Range(Received[id])
  BY <1>3, Zenon DEF Received, Ids, Range, InGot
<1> QED
  BY <1>2, <1>4, <1>5

\* msg_router's call of forward_msg_cb, to the mailboxes.
LEMMA PassThroughStep ==
    ASSUME ~Routed, IInv, Direct, PassThrough
    PROVE  \E id \in Idents :
              /\ count' = count
              /\ \/ UNCHANGED <<Box, Received>>
                 \/ /\ Box[id] = <<>> /\ Box' = Box
                    /\ Received' = [Received EXCEPT ![id] = Append(@, count)]
                 \/ /\ Box' = [Box EXCEPT ![id] = Append(@, count)]
                    /\ Received' = Received
<1>0. /\ queued_msgs \in Seq(QueuedMsg) /\ tasks \in Seq(Message)
      /\ got \in [Idents -> Seq(Message)]
  BY DEF IInv, Once, Bookkeeping
<1>1. PICK m : m = tasks[1]
  OBVIOUS
<1>2. Passed(1, m)
  BY <1>0, <1>1, PassedOn, SMTT(30)
<1>3. m \in Message /\ m.to \in Idents /\ m.id = count /\ count' = count /\ phase = "input"
  BY <1>1, <1>2 DEF Passed, Message, Direct, PassThrough
<1>4. Box \in [Idents -> Seq(Nat)]
  BY <1>0, MailboxFacts DEF Box
<1>5. CASE Deliver(m)
  <2>1. /\ conns_by_from[m.to] # <<>> /\ queued_msgs' = queued_msgs
        /\ got' = [got EXCEPT ![m.to] = Append(@, m)]
    BY <1>5 DEF Deliver, store, Range
  <2>2. ForIdent(m.to) = {}
    BY <1>3, <2>1 DEF ForIdent, Direct, Absent
  <2>3. Box[m.to] = <<>> /\ Box' = Box
    BY <1>0, <1>3, <2>1, <2>2, BoxSame, MailboxFacts, SMTT(30) DEF Box
  <2>4. Received' = [Received EXCEPT ![m.to] = Append(@, count)]
    BY <1>0, <1>3, <2>1, ReceivedAdded, Zenon
  <2> QED
    BY <1>3, <2>3, <2>4, Zenon
<1>6. CASE got' = got
  <2>1. Received' = Received
    BY <1>6, ReceivedSame
  <2>2. CASE UNCHANGED queued_msgs
    BY <1>3, <2>1, <2>2, BoxSame, SMTT(30)
  <2>3. CASE queued_msgs' = Append(queued_msgs, [msg |-> m, is_atc |-> FALSE])
    <3>1. PICK q : q = [msg |-> m, is_atc |-> FALSE]
      BY Zenon
    <3>2. q \in QueuedMsg
      BY <1>3, <3>1, Zenon DEF QueuedMsg
    <3>3. q.msg = m
      BY <3>1
    <3>4. \A id : MailboxOf(id)' = IF id = m.to THEN Append(MailboxOf(id), count)
                                                ELSE MailboxOf(id)
      BY <1>0, <1>3, <2>3, <3>1, <3>2, <3>3, MailboxStored, SMTT(30)
    <3>5. Box' = [Box EXCEPT ![m.to] = Append(@, count)]
      BY <1>3, <3>4, ZenonT(30) DEF Box
    <3> QED
      BY <1>3, <2>1, <3>5, Zenon
  <2> QED
    BY <1>2, <2>2, <2>3, PassedEffect, SMTT(30)
<1> QED
  BY <1>2, <1>5, <1>6, Zenon DEF Passed, ForwardMsgCb, StoreOrRefuse, Dropped

\* A turn of handle_queued_msgs' loop, to the mailboxes: it serves or drops
\* the oldest message for a callsign.
LEMMA SweepMsgStep ==
    ASSUME ~Routed, IInv, Direct, SweepMsg
    PROVE  \E id \in Idents :
              /\ count' = count
              /\ \/ UNCHANGED <<Box, Received>>
                 \/ /\ Box[id] # <<>> /\ Box' = [Box EXCEPT ![id] = Tail(@)]
                    /\ \/ Received' = [Received EXCEPT ![id] = Append(@, Head(Box[id]))]
                       \/ Received' = Received
<1>0. /\ queued_msgs \in Seq(QueuedMsg) /\ DistinctQueue
      /\ got \in [Idents -> Seq(Message)]
  BY DEF IInv, Once, Bookkeeping
<1>1. PICK p : Swept(p)
  BY SweepMsgIsSwept
<1>2. PICK m : m = queued_msgs[p].msg
  OBVIOUS
<1>3. /\ p \in DOMAIN queued_msgs /\ m.id = qmsg /\ phase = "queued"
      /\ m \in Message /\ m.to \in Idents /\ count' = count
  <2>1. p \in DOMAIN queued_msgs /\ m.id = qmsg /\ phase = "queued" /\ count' = count
    BY <1>1, <1>2, Zenon DEF Swept
  <2>2. queued_msgs[p] \in QueuedMsg
    BY <1>0, <2>1, SMTT(30)
  <2> QED
    BY <1>2, <2>1, <2>2, SMTT(30) DEF QueuedMsg, Message
<1>4. \A i \in DOMAIN queued_msgs : i < p => Absent(i) /\ queued_msgs[i].msg.id \notin due
  BY <1>0, <1>2, <1>3, Zenon DEF Direct, Behind, DistinctQueue
<1>5. ASSUME queued_msgs' = RemoveAt(queued_msgs, p),
             \A i \in DOMAIN queued_msgs : i < p => queued_msgs[i].msg.to # m.to
      PROVE  /\ Box[m.to] # <<>> /\ Head(Box[m.to]) = m.id
             /\ Box' = [Box EXCEPT ![m.to] = Tail(@)]
  <2>1. ASSUME NEW id
        PROVE  IF id = m.to
               THEN /\ MailboxOf(id) # <<>>
                    /\ Head(MailboxOf(id)) = m.id
                    /\ MailboxOf(id)' = Tail(MailboxOf(id))
               ELSE MailboxOf(id)' = MailboxOf(id)
    BY <1>0, <1>2, <1>3, <1>5, MailboxServed, SMTT(30)
  <2> QED
    BY <1>3, <2>1, Zenon DEF Box
<1>6. CASE /\ conns_by_from[m.to] # <<>> /\ Delivered(m)
           /\ queued_msgs' = RemoveAt(queued_msgs, p)
  <2>1. \A i \in DOMAIN queued_msgs : i < p => queued_msgs[i].msg.to # m.to
    BY <1>4, <1>6 DEF Absent
  <2>2. Received' = [Received EXCEPT ![m.to] = Append(@, m.id)]
    BY <1>0, <1>3, <1>6, ReceivedAdded, Zenon DEF Delivered
  <2> QED
    BY <1>3, <1>5, <1>6, <2>1, <2>2, Zenon
<1>7. CASE m.id \in due /\ got' = got /\ queued_msgs' = RemoveAt(queued_msgs, p)
  <2>1. \A i \in DOMAIN queued_msgs : ~(i < p)
    BY <1>2, <1>3, <1>4, <1>7, SMTT(30) DEF Direct, InOrder
  <2>2. Received' = Received
    BY <1>7, ReceivedSame
  <2> QED
    BY <1>3, <1>5, <1>7, <2>1, <2>2, ZenonT(30)
<1>8. CASE queued_msgs' = queued_msgs /\ got' = got
  BY <1>3, <1>8, BoxSame, ReceivedSame, SMTT(30)
<1> QED
  BY <1>1, <1>2, <1>3, <1>6, <1>7, <1>8, SMTT(30) DEF Swept, DequeueMsg, store

\* No other step but that of conn_process_msg is seen at the mailboxes.
LEMMA OtherSteps ==
    ASSUME ~Routed, IInv, [Next]_vars
    PROVE  \/ PassThrough \/ SweepMsg
           \/ count' \in {count, count + 1} /\ UNCHANGED <<Box, Received>>
<1>1. ASSUME UNCHANGED <<queued_msgs, got>> PROVE UNCHANGED <<Box, Received>>
  BY <1>1, BoxSame, ReceivedSame, SMTT(30)
<1>2. \/ PassThrough \/ SweepMsg
      \/ count' \in {count, count + 1} /\ UNCHANGED <<queued_msgs, got>>
  <2>1. ASSUME NEW c \in Conns,
               \/ OpenConn(c)
               \/ \E g \in Logons : LogOnConn(c, g)
               \/ \E ids : LogOffConn(c, ids)
               \/ ShutConn(c)
        PROVE  UNCHANGED <<count, queued_msgs, got>>
    BY <2>1, SMTT(30) DEF OpenConn, LogOnConn, LogOffConn, ShutConn, rest, store, fates
  <2>2. ASSUME NEW c \in Conns, NEW m \in Inputs, ConnProcessMsg(c, m)
        PROVE  count' = count + 1 /\ UNCHANGED <<queued_msgs, got>>
    BY <2>2, SMTT(30) DEF ConnProcessMsg, store, fates
  <2>3. ASSUME EndInput \/ StartSweep \/ SweepNext \/ EndSweep \/ Age \/ UNCHANGED vars
        PROVE  UNCHANGED <<count, queued_msgs, got>>
    BY <2>3 DEF EndInput, StartSweep, SweepNext, EndSweep, Age, vars, store, fates
  <2>4. \A i : ~RouterProc(i)
    BY DEF RouterProc
  <2> QED
    BY <2>1, <2>2, <2>3, <2>4, SMTT(30) DEF Next
<1> QED
  BY <1>1, <1>2

\* All mailboxes are empty at first.
LEMMA InitBoxes == Init => /\ Box = [id \in Idents |-> <<>>]
                           /\ Received = [id \in Idents |-> <<>>]
<1> SUFFICES ASSUME Init
             PROVE  /\ Box = [id \in Idents |-> <<>>]
                    /\ Received = [id \in Idents |-> <<>>]
  OBVIOUS
<1>1. queued_msgs = <<>> /\ queued_msgs \in Seq(QueuedMsg)
  BY DEF Init
<1>2. \A id : ForIdent(id) = {}
  BY <1>1 DEF ForIdent
<1>3. \A id : MailboxOf(id) = <<>>
  BY <1>1, <1>2, MailboxFacts, SMTT(30)
<1>4. \A id \in Idents : Ids(got[id]) = <<>>
  BY DEF Init, Ids
<1> QED
  BY <1>3, <1>4 DEF Box, Received

\* The server starts with empty mailboxes.
LEMMA InitMailbox == Init => Mail!MailInit
BY InitBoxes DEF Mail!MailInit, Init, Box, Received

\* Every step of the server is a step of the mailboxes, or none.
LEMMA NextMailbox == ~Routed /\ IInv /\ Direct /\ [Next]_vars => [Mail!MailNext]_(Mail!mail)
<1> SUFFICES ASSUME ~Routed, IInv, Direct, [Next]_vars
             PROVE  [Mail!MailNext]_(Mail!mail)
  OBVIOUS
<1>1. ASSUME UNCHANGED <<count, Box, Received>> PROVE UNCHANGED Mail!mail
  BY <1>1 DEF Mail!mail, Box, Received
<1>2. CASE PassThrough
  <2>1. ~Mail!Settled(count) /\ count > 0
    <3>1. count > 0 /\ \A id \in Idents : count \notin Range(Box[id]) \cup Range(Received[id])
      BY <1>2, Unsettled DEF PassThrough
    <3>2. Mail!Settled(count) =
            \E id \in Idents : count \in Range(Box[id]) \cup Range(Received[id])
      BY Zenon DEF Mail!Settled, Mail!Range, Range, Box, Received
    <3> QED
      BY <3>1, <3>2
  <2>2. PICK id \in Idents :
              /\ count' = count
              /\ \/ UNCHANGED <<Box, Received>>
                 \/ /\ Box[id] = <<>> /\ Box' = Box
                    /\ Received' = [Received EXCEPT ![id] = Append(@, count)]
                 \/ /\ Box' = [Box EXCEPT ![id] = Append(@, count)]
                    /\ Received' = Received
    BY <1>2, PassThroughStep, SMTT(30)
  <2>3. UNCHANGED <<count, Box, Received>> \/ Mail!Pass(id) \/ Mail!Keep(id)
    BY <2>2 DEF Mail!Pass, Mail!Keep, Box, Received
  <2> QED
    BY <1>1, <2>1, <2>3, SMTT(30) DEF Mail!MailNext
<1>3. CASE SweepMsg
  <2>1. PICK id \in Idents :
              /\ count' = count
              /\ \/ UNCHANGED <<Box, Received>>
                 \/ /\ Box[id] # <<>> /\ Box' = [Box EXCEPT ![id] = Tail(@)]
                    /\ \/ Received' = [Received EXCEPT ![id] = Append(@, Head(Box[id]))]
                       \/ Received' = Received
    BY <1>3, SweepMsgStep, SMTT(30)
  <2>2. UNCHANGED <<count, Box, Received>> \/ Mail!Hand(id) \/ Mail!Expire(id)
    BY <2>1 DEF Mail!Hand, Mail!Expire, Box, Received
  <2> QED
    BY <1>1, <2>2 DEF Mail!MailNext
<1>4. CASE count' = count /\ UNCHANGED <<Box, Received>>
  BY <1>1, <1>4, SMTT(30)
<1>5. CASE count' = count + 1 /\ UNCHANGED <<Box, Received>>
  BY <1>5 DEF Mail!MailNext, Mail!Arrive, Box, Received
<1> QED
  BY <1>2, <1>3, <1>4, <1>5, OtherSteps, SMTT(30)

\* Without a router, storing and forwarding implements one mailbox for each
\* callsign: a message never overtakes another one for the same callsign,
\* whether it is passed on at once, stored and swept, or expires.
THEOREM StoreServesMailboxes == ~Routed => (Spec => ServesMailboxes)
<1> SUFFICES ASSUME ~Routed PROVE Spec => ServesMailboxes
  OBVIOUS
<1>1. Spec => [](IInv /\ Direct)
  BY DirectInvariance
<1>2. IInv /\ Direct /\ [Next]_vars => [Mail!MailNext]_(Mail!mail)
  BY NextMailbox
<1> QED
  BY <1>1, <1>2, InitMailbox, PTL DEF Spec, ServesMailboxes, Mail!MailSpec

-----------------------------------------------------------------------------
(* The order in which messages are received. *)

\* What waits for each callsign and what it received, in line.
Lines == \A id \in Idents : InLine(count, Box[id], Received[id])

\* A line of nothing is in order.
LEMMA InitLines == Init => Lines
<1> SUFFICES ASSUME Init, NEW id \in Idents PROVE InLine(count, Box[id], Received[id])
  BY DEF Lines
<1>1. Box[id] = <<>> /\ Received[id] = <<>>
  BY InitBoxes
<1>2. InLine(count, <<>>, <<>>)
  BY DEF InLine, Rising
<1> QED
  BY <1>1, <1>2

\* The steps of the mailboxes keep every line in order.
LEMMA MailKeepsLines ==
    ASSUME Lines, count \in Nat, Box \in [Idents -> Seq(Nat)],
           Received \in [Idents -> Seq(Nat)], [Mail!MailNext]_(Mail!mail)
    PROVE  Lines'
<1> SUFFICES ASSUME NEW id \in Idents
             PROVE  InLine(count', Box'[id], Received'[id])
  BY DEF Lines
<1>1. PICK n, b, r : n \in Nat /\ n = count /\ b = Box[id] /\ r = Received[id]
  OBVIOUS
<1>2. InLine(n, b, r)
  BY <1>1 DEF Lines
<1>3. CASE Mail!Arrive
  <2>1. count' = n + 1 /\ Box' = Box /\ Received' = Received
    BY <1>1, <1>3, SMTT(30) DEF Mail!Arrive, Box, Received
  <2> QED
    BY <1>1, <1>2, <2>1, LineMoves, Zenon
<1>4. ASSUME NEW d \in Idents, count > 0, ~Mail!Settled(count), Mail!Pass(d) \/ Mail!Keep(d)
      PROVE  InLine(count', Box'[id], Received'[id])
  <2>1. n \notin Range(b) \cup Range(r)
    BY <1>1, <1>4, Zenon DEF Mail!Settled, Mail!Range, Range, Box, Received
  <2>2. CASE Mail!Pass(d)
    <3>1. /\ Box[d] = <<>> /\ count' = count /\ Box' = Box
          /\ Received' = [Received EXCEPT ![d] = Append(@, count)]
      BY <2>2 DEF Mail!Pass, Box, Received
    <3>2. CASE d = id
      <4>1. Received'[id] = Append(r, n) /\ b = <<>>
        BY <1>1, <3>1, <3>2
      <4> QED
        BY <1>1, <1>2, <1>4, <2>1, <3>1, <4>1, LineMoves, SMTT(30)
    <3>3. CASE d # id
      BY <1>1, <1>2, <3>1, <3>3, SMTT(30)
    <3> QED
      BY <3>2, <3>3, SMTT(30)
  <2>3. CASE Mail!Keep(d)
    <3>1. /\ count' = count /\ Received' = Received
          /\ Box' = [Box EXCEPT ![d] = Append(@, count)]
      BY <2>3 DEF Mail!Keep, Box, Received
    <3>2. CASE d = id
      <4>1. Box'[id] = Append(b, n)
        BY <1>1, <3>1, <3>2
      <4> QED
        BY <1>1, <1>2, <1>4, <2>1, <3>1, <4>1, LineMoves, SMTT(30)
    <3>3. CASE d # id
      BY <1>1, <1>2, <3>1, <3>3, SMTT(30)
    <3> QED
      BY <3>2, <3>3, SMTT(30)
  <2> QED
    BY <1>4, <2>2, <2>3
<1>5. ASSUME NEW d \in Idents, Mail!Hand(d) \/ Mail!Expire(d)
      PROVE  InLine(count', Box'[id], Received'[id])
  <2>1. /\ Box[d] # <<>> /\ count' = count
        /\ Box' = [Box EXCEPT ![d] = Tail(@)]
        /\ \/ Received' = [Received EXCEPT ![d] = Append(@, Head(Box[d]))]
           \/ Received' = Received
    BY <1>5 DEF Mail!Hand, Mail!Expire, Box, Received
  <2>2. CASE d = id
    <3>1. /\ b # <<>> /\ Box'[id] = Tail(b)
          /\ Received'[id] = Append(r, Head(b)) \/ Received'[id] = r
      BY <1>1, <2>1, <2>2
    <3>2. InLine(n, Tail(b), r) /\ InLine(n, Tail(b), Append(r, Head(b)))
      BY <1>1, <1>2, <3>1, LineMoves, Zenon
    <3> QED
      BY <1>1, <2>1, <3>1, <3>2, Zenon
  <2>3. CASE d # id
    BY <1>1, <1>2, <2>1, <2>3, SMTT(30)
  <2> QED
    BY <2>2, <2>3, SMTT(30)
<1>6. CASE UNCHANGED Mail!mail
  <2>1. count' = count /\ Box' = Box /\ Received' = Received
    BY <1>6, SMTT(30) DEF Mail!mail, Box, Received
  <2> QED
    BY <1>1, <1>2, <2>1, SMTT(30)
<1> QED
  BY <1>3, <1>4, <1>5, <1>6, Zenon DEF Mail!MailNext

\* Without a router, messages reach a callsign in the order in which
\* conn_process_msg let them in, and nothing still queued for it is older
\* than what it received.
THEOREM ReceivedInOrderOfArrival == Spec => []InOrderOfArrival
<1>1. CASE Routed
  <2>1. InOrderOfArrival
    BY <1>1 DEF InOrderOfArrival
  <2> QED
    BY <2>1, PTL
<1>2. CASE ~Routed
  <2>1. Spec => [](IInv /\ Direct)
    BY <1>2, DirectInvariance
  <2>2. IInv /\ Direct /\ Lines /\ [Next]_vars => Lines'
    <3> SUFFICES ASSUME IInv, Direct, Lines, [Next]_vars PROVE Lines'
      OBVIOUS
    <3>1. [Mail!MailNext]_(Mail!mail)
      BY <1>2, NextMailbox
    <3>2. /\ count \in Nat /\ queued_msgs \in Seq(QueuedMsg)
          /\ got \in [Idents -> Seq(Message)]
      BY DEF IInv, Typed, Once, Bookkeeping
    <3>3. Box \in [Idents -> Seq(Nat)]
      BY <3>2, MailboxFacts DEF Box
    <3>4. Received \in [Idents -> Seq(Nat)]
      BY <3>2, IdsList DEF Received
    <3> QED
      BY <3>1, <3>2, <3>3, <3>4, MailKeepsLines, SMTT(30)
  <2>3. Spec => [](IInv /\ Lines)
    BY <2>1, <2>2, InitLines, PTL DEF Spec
  <2>4. IInv /\ Lines => InOrderOfArrival
    <3> SUFFICES ASSUME IInv, Lines, NEW id \in Idents
                 PROVE  /\ Rising(Received[id])
                        /\ \A i \in DOMAIN Received[id], j \in DOMAIN Box[id] :
                              Received[id][i] < Box[id][j]
      BY DEF InOrderOfArrival, Rising, Received, Box
    <3> QED
      BY DEF Lines, InLine
  <2> QED
    BY <2>3, <2>4, PTL
<1> QED
  BY <1>1, <1>2
=============================================================================
