---------------------------- MODULE FansBoxProofs ----------------------------
(***************************************************************************)
(* Proofs about the message list and the FANS box, for any number of       *)
(* messages, keys and changes of the logon.  Grown says what a step may do *)
(* to the list: StepGrows shows it for every step once and for all, and    *)
(* the conjuncts of the inductive invariant IInv are preserved by whatever *)
(* does no more than that and moves the box on as its actions do.          *)
(***************************************************************************)
EXTENDS FansBox, ListLemmas, FiniteSetTheorems

\* The kinds of the answers that settle a thread.
Verdicts == {"accept", "roger", "reject"}

\* A thread's newest uplink has a number.
LEMMA NewestTyped ==
    ASSUME NEW t, t.talk \in Seq(Bucket)
    PROVE  NewestUplink(t) \in Nat \cup {None}
<1> DEFINE ups == {k \in DOMAIN t.talk : ~t.talk[k].sent}
           back == {Len(t.talk) - k : k \in ups}
<1>1. NewestUplink(t) = IF ups = {} THEN None
                        ELSE t.talk[CHOOSE k \in ups : \A j \in ups : j <= k].min
  BY Zenon DEF NewestUplink
<1>2. ups \subseteq 1 .. Len(t.talk) /\ Len(t.talk) \in Nat
  OBVIOUS
<1> HIDE DEF ups
<1>3. CASE ups = {}
  BY <1>1, <1>3
<1>4. CASE ups # {}
  <2>0. \A k \in ups : Len(t.talk) - k \in Nat
    BY <1>2
  <2>1. back \subseteq Nat /\ back # {}
    BY <1>4, <2>0
  <2>2. PICK n \in back : \A m \in back : n <= m
    BY <2>1, LeastNatural, Zenon
  <2>3. PICK k \in ups : n = Len(t.talk) - k
    BY <2>2
  <2>4. ASSUME NEW j \in ups
        PROVE  j <= k
    <3>1. Len(t.talk) - j \in back
      OBVIOUS
    <3>2. Len(t.talk) - k <= Len(t.talk) - j
      BY <2>2, <2>3, <3>1
    <3> QED
      BY <1>2, <3>2
  <2>5. (CHOOSE l \in ups : \A j \in ups : j <= l) \in ups
    BY <2>4
  <2>6. ASSUME NEW l \in ups
        PROVE  t.talk[l].min \in Nat
    <3>1. t.talk[l] \in Bucket
      BY <1>2
    <3> QED
      BY <3>1 DEF Bucket
  <2> QED
    BY <1>1, <1>4, <2>5, <2>6
<1> QED
  BY <1>3, <1>4

\* The fields of a thread.
LEMMA ThreadFields ==
    ASSUME NEW t \in Thread
    PROVE  /\ t.status \in ThrStatuses /\ t.talk \in Seq(Bucket) /\ t.dirty \in BOOLEAN
           /\ t.late \in BOOLEAN /\ t.shown \in BOOLEAN
           /\ t = [status |-> t.status, talk |-> t.talk, dirty |-> t.dirty, late |-> t.late,
                   shown |-> t.shown]
  BY DEF Thread

\* A thread is put together from its fields.
LEMMA MakeThread ==
    ASSUME NEW st \in ThrStatuses, NEW ta \in Seq(Bucket), NEW d \in BOOLEAN, NEW l \in BOOLEAN,
           NEW sh \in BOOLEAN
    PROVE  [status |-> st, talk |-> ta, dirty |-> d, late |-> l, shown |-> sh] \in Thread
  BY Zenon DEF Thread

\* b is put behind the messages of t, which gives u.
Adds(t, b, u) ==
    /\ b \in Bucket /\ u.talk = Append(t.talk, b) /\ u.talk \in Seq(Bucket)
    /\ Len(u.talk) = Len(t.talk) + 1 /\ u.talk[Len(t.talk) + 1] = b
    /\ \A k \in 1 .. Len(t.talk) : u.talk[k] = t.talk[k]

\* What Append1 makes of a thread.
LEMMA Append1Facts ==
    ASSUME NEW t \in Thread, NEW b \in Bucket, NEW u, u = Append1(t, b)
    PROVE  /\ u \in Thread /\ Adds(t, b, u) /\ ~u.late
           /\ u.status = t.status /\ u.dirty = t.dirty /\ u.shown = t.shown
<1>1. PICK ta : ta = Append(t.talk, b)
  BY Zenon
<1>0. u = [t EXCEPT !.talk = ta, !.late = FALSE]
  BY <1>1 DEF Append1
<1>a. t = [status |-> t.status, talk |-> t.talk, dirty |-> t.dirty, late |-> t.late,
           shown |-> t.shown]
  BY ThreadFields
<1>2. u = [status |-> t.status, talk |-> ta, dirty |-> t.dirty, late |-> FALSE,
           shown |-> t.shown]
  BY <1>0, <1>a, Zenon
<1>3. /\ t.status \in ThrStatuses /\ t.talk \in Seq(Bucket) /\ t.dirty \in BOOLEAN
      /\ t.shown \in BOOLEAN
  BY ThreadFields
<1>4. /\ ta \in Seq(Bucket) /\ Len(ta) = Len(t.talk) + 1 /\ ta[Len(t.talk) + 1] = b
      /\ \A k \in 1 .. Len(t.talk) : ta[k] = t.talk[k]
  BY <1>1, <1>3, AppendPlaces
<1>5. u \in Thread
  BY <1>2, <1>3, <1>4, MakeThread, Zenon
<1>6. /\ u.talk = ta /\ u.status = t.status /\ u.dirty = t.dirty /\ u.shown = t.shown
      /\ u.late = FALSE
  BY <1>2
<1> QED
  BY <1>1, <1>4, <1>5, <1>6 DEF Adds

\* A message of ours.
LEMMA SendImplFacts ==
    ASSUME NEW t \in Thread, NEW kind \in DownKinds, NEW m \in Nat, online \in BOOLEAN,
           NEW u, u = msglist_send_impl(t, kind, m)
    PROVE  /\ u \in Thread /\ ~u.late
           /\ u.status = t.status /\ u.dirty = t.dirty /\ u.shown = t.shown
           /\ \E b : Adds(t, b, u) /\ b.sent /\ b.kind = kind /\ b.min = m
<1>1. PICK x : x = NewestUplink(t)
  OBVIOUS
<1>2. x \in Nat \cup {None}
  BY <1>1, NewestTyped, ThreadFields
<1>3. PICK b : b = [kind |-> kind, sent |-> TRUE, min |-> m, mrn |-> x, tok |-> online]
  BY Zenon
<1>4. b \in Bucket
  BY <1>2, <1>3, Zenon DEF Bucket
<1>5. u = Append1(t, b)
  BY <1>1, <1>3 DEF msglist_send_impl
<1>6. b.sent /\ b.kind = kind /\ b.min = m
  BY <1>3
<1> QED
  BY <1>4, <1>5, <1>6, Append1Facts

\* Decided gives a status or nothing.
LEMMA DecidedTyped ==
    ASSUME NEW t, NEW sending
    PROVE  Decided(t, sending) \in ThrStatuses \cup {None}
  BY DEF Decided, ThrStatuses, Final

\* Concluded gives a status.
LEMMA ConcludedTyped ==
    ASSUME NEW t \in Thread
    PROVE  Concluded(t) \in ThrStatuses
  BY ThreadFields DEF Concluded, ThrStatuses, Final

\* What thr_status_upd makes of a thread.
Updated(t, u, m) ==
    /\ u \in Thread /\ u.shown = t.shown
    /\ t.status \in Final => u = t
    /\ u.dirty \/ ~t.dirty \/ u.status \in {"TIMEDOUT", "CONN_ENDED"}
    /\ \/ u.talk = t.talk
       \/ TimesOut(t) /\ \E b : Adds(t, b, u) /\ b.sent /\ b.kind = "error" /\ b.min = m

\* thr_status_upd updates a thread, and settles it after a verdict.
LEMMA UpdFacts ==
    ASSUME online \in BOOLEAN, NEW t \in Thread, NEW sending, NEW m \in Nat,
           NEW u, u = thr_status_upd(t, sending, m)
    PROVE  /\ Updated(t, u, m)
           /\ LastMsg(t).kind \in Verdicts /\ ~t.late => u.status \in Final
<1>0. /\ t.status \in ThrStatuses /\ t.talk \in Seq(Bucket) /\ t.dirty \in BOOLEAN
      /\ t.late \in BOOLEAN /\ t.shown \in BOOLEAN
      /\ t = [status |-> t.status, talk |-> t.talk, dirty |-> t.dirty, late |-> t.late,
                   shown |-> t.shown]
  BY ThreadFields
<1>1. CASE t.status \in Final
  BY <1>0, <1>1 DEF thr_status_upd, Updated
<1>2. CASE t.status \notin Final /\ Decided(t, sending) # None
  <2>1. PICK st : st = Decided(t, sending)
    OBVIOUS
  <2>2. st \in ThrStatuses
    BY <1>2, <2>1, DecidedTyped
  <2>3. u = [status |-> st, talk |-> t.talk, dirty |-> t.dirty, late |-> t.late,
             shown |-> t.shown]
    BY <1>0, <1>2, <2>1 DEF thr_status_upd
  <2>4. u \in Thread
    BY <1>0, <2>2, <2>3, MakeThread
  <2>5. u.talk = t.talk /\ u.dirty = t.dirty /\ u.shown = t.shown /\ u.status = st
    BY <2>3
  <2>6. LastMsg(t).kind \in Verdicts => st \in Final
    BY <1>2, <2>1 DEF Decided, Verdicts, Final
  <2> QED
    BY <1>2, <2>4, <2>5, <2>6 DEF Updated
<1>3. CASE t.status \notin Final /\ Decided(t, sending) = None /\ TimesOut(t)
  <2>1. PICK v : v = msglist_send_impl(t, "error", m)
    OBVIOUS
  <2>2. /\ v \in Thread /\ v.shown = t.shown
        /\ \E b : Adds(t, b, v) /\ b.sent /\ b.kind = "error" /\ b.min = m
    <3>1. "error" \in DownKinds
      BY DEF DownKinds
    <3> QED
      BY <2>1, <3>1, SendImplFacts
  <2>3. u = [v EXCEPT !.status = "TIMEDOUT", !.dirty = FALSE]
    BY <1>3, <2>1 DEF thr_status_upd
  <2>4. /\ v.talk \in Seq(Bucket) /\ v.late \in BOOLEAN /\ v.shown \in BOOLEAN
        /\ v = [status |-> v.status, talk |-> v.talk, dirty |-> v.dirty, late |-> v.late,
                   shown |-> v.shown]
    BY <2>2, ThreadFields
  <2>5. u = [status |-> "TIMEDOUT", talk |-> v.talk, dirty |-> FALSE, late |-> v.late,
             shown |-> v.shown]
    BY <2>3, <2>4, Zenon
  <2>6. u \in Thread
    <3>1. "TIMEDOUT" \in ThrStatuses /\ FALSE \in BOOLEAN
      BY DEF ThrStatuses, Final
    <3> QED
      BY <2>4, <2>5, <3>1, MakeThread, Zenon
  <2>7. u.talk = v.talk /\ u.shown = t.shown /\ u.status = "TIMEDOUT"
    BY <2>2, <2>5
  <2>8. \E b : Adds(t, b, u) /\ b.sent /\ b.kind = "error" /\ b.min = m
    BY <2>2, <2>7 DEF Adds
  <2> QED
    BY <1>3, <2>6, <2>7, <2>8, Zenon DEF Updated, TimesOut
<1>4. CASE t.status \notin Final /\ Decided(t, sending) = None /\ ~TimesOut(t)
  <2>1. PICK st : st = Concluded(t)
    OBVIOUS
  <2>2. PICK d : d = (t.dirty /\ st # "CONN_ENDED")
    OBVIOUS
  <2>3. st \in ThrStatuses /\ d \in BOOLEAN
    BY <2>1, <2>2, ConcludedTyped
  <2>4. u = [status |-> st, talk |-> t.talk, dirty |-> d, late |-> t.late, shown |-> t.shown]
    BY <1>0, <1>4, <2>1, <2>2, Zenon DEF thr_status_upd
  <2>5. u \in Thread
    BY <1>0, <2>3, <2>4, MakeThread
  <2>6. u.talk = t.talk /\ u.dirty = d /\ u.shown = t.shown /\ u.status = st
    BY <2>4
  <2>7. LastMsg(t).kind \in Verdicts => st \in Final
    <3>1. None \notin ThrStatuses
      BY MsgListAssumption
    <3> QED
      BY <1>4, <2>1, <3>1 DEF Decided, Concluded, Verdicts, Final, ThrStatuses
  <2>8. u.dirty \/ ~t.dirty \/ u.status \in {"TIMEDOUT", "CONN_ENDED"}
    BY <2>2, <2>6, Zenon
  <2> QED
    BY <1>4, <2>5, <2>6, <2>7, <2>8 DEF Updated
<1> QED
  BY <1>1, <1>2, <1>3, <1>4

\* The types of the message list.
ListTyped ==
    /\ thr \in Seq(Thread) /\ min \in Nat /\ uplinks \in 0..MaxUplinks /\ online \in BOOLEAN

\* The thread at place j before a step, a new one where there was none.
Old(j) == IF j \in DOMAIN thr THEN thr[j] ELSE NewThread

\* All of the thread's uplinks have been put on the screen, or the pilot is told of it.
Noticed(t) ==
    \/ t.dirty \/ t.status \in {"TIMEDOUT", "CONN_ENDED"}
    \/ t.shown \/ \A k \in DOMAIN t.talk : t.talk[k].sent

\* Thread t holds what msg refers to.
Matches(msg, t) == \E k \in DOMAIN t.talk : msg_matches_bucket(msg, t.talk[k])

\* The pilot decides in thread j, and the box goes on to draw it.
Judges(j, kind) ==
    /\ j = cur /\ j \in DOMAIN thr
    /\ \/ step = "answer" /\ kind = answer
       \/ step = "idle" /\ page = "rej"
    /\ page' = "thr" /\ step' = "update"

\* Some message the uplink b refers to.
Refers(b) ==
    \E i \in DOMAIN thr : \E k \in DOMAIN thr[i].talk :
       /\ thr[i].talk[k].min = b.mrn
       /\ IF b.kind = "disregard" THEN thr[i].talk[k].kind \in Timed ELSE thr[i].talk[k].sent

\* b is a message of ours, sent in thread j with a new number; a verdict settles the thread.
Sends(j, b) ==
    /\ b.sent /\ b.kind \in DownKinds /\ min <= b.min /\ b.min < min'
    /\ b.kind \in Verdicts => thr'[j].status \in Final /\ Judges(j, b.kind)

\* b is an uplink, filed in thread j: the one that holds what it refers to, or a new one.
Gets(j, b) ==
    /\ ~b.sent /\ b.kind \in UpKinds /\ b.min = uplinks /\ uplinks' = uplinks + 1
    /\ b.mrn # None =>
         /\ Refers(b)
         /\ IF j \in DOMAIN thr THEN Matches(b, thr[j])
            ELSE \A i \in DOMAIN thr : Matches(b, thr[i]) => thr[i].status = "CLOSED"

\* What a step does to the thread at place j.
Turned(j) ==
    /\ Old(j).status \in Final => thr'[j].status = Old(j).status
    /\ Noticed(Old(j)) => Noticed(thr'[j]) \/ (step = "draw" /\ step' = "read" /\ cur' = j)
    /\ \/ j \in DOMAIN thr /\ thr'[j].talk = thr[j].talk
       \/ \E b : Adds(Old(j), b, thr'[j]) /\ (Sends(j, b) \/ Gets(j, b))

\* What a step does to the list.
Grown ==
    /\ ListTyped' /\ min <= min' /\ uplinks <= uplinks' /\ Len(thr) <= Len(thr')
    /\ \A j \in DOMAIN thr' : Turned(j)

\* A new thread is one, and has nothing to notice.
LEMMA NewTyped == NewThread \in Thread /\ NewThread.talk = <<>> /\ Noticed(NewThread)
<1>1. <<>> \in Seq(Bucket) /\ "OPEN" \in ThrStatuses /\ FALSE \in BOOLEAN
  BY DEF ThrStatuses
<1>2. NewThread \in Thread
  BY <1>1, MakeThread, Zenon DEF NewThread
<1>3. NewThread.talk = <<>>
  BY DEF NewThread
<1> QED
  BY <1>2, <1>3 DEF Noticed

\* The places of the list and what is there.
LEMMA ListDomain ==
    ASSUME ListTyped
    PROVE  /\ Len(thr) \in Nat /\ DOMAIN thr = 1 .. Len(thr)
           /\ \A j \in DOMAIN thr : thr[j] \in Thread
  BY DEF ListTyped

\* The thread at place p is the only one that changed, or it is new.
PutAt(i, p, u) ==
    /\ thr' \in Seq(Thread) /\ Len(thr) <= Len(thr')
    /\ p \in DOMAIN thr' /\ thr'[p] = u
    /\ i = 0 => p \notin DOMAIN thr /\ Old(p) = NewThread
    /\ i # 0 => p = i /\ p \in DOMAIN thr /\ Old(p) = thr[i]
    /\ \A j \in DOMAIN thr' : j # p => j \in DOMAIN thr /\ thr'[j] = thr[j]

\* Put replaces one thread or appends it.
LEMMA PutFacts ==
    ASSUME ListTyped, NEW i \in 0..Len(thr), NEW u \in Thread, Put(i, u)
    PROVE  \E p : PutAt(i, p, u)
<1>1. Len(thr) \in Nat /\ DOMAIN thr = 1 .. Len(thr) /\ thr \in Seq(Thread)
  BY ListDomain DEF ListTyped
<1>2. CASE i = 0
  <2>1. thr' = Append(thr, u)
    BY <1>1, <1>2 DEF Put
  <2>2. /\ thr' \in Seq(Thread) /\ Len(thr') = Len(thr) + 1 /\ thr'[Len(thr) + 1] = u
        /\ \A j \in 1 .. Len(thr) : thr'[j] = thr[j]
    BY <1>1, <2>1, AppendPlaces
  <2>3. DOMAIN thr' = 1 .. Len(thr) + 1
    BY <2>2
  <2>4. PICK p : p = Len(thr) + 1
    OBVIOUS
  <2>5. p \notin DOMAIN thr /\ p \in DOMAIN thr' /\ \A j \in DOMAIN thr' : j # p => j \in DOMAIN thr
    BY <1>1, <2>3, <2>4
  <2>6. PutAt(i, p, u)
    BY <1>1, <1>2, <2>2, <2>4, <2>5 DEF PutAt, Old
  <2> QED
    BY <2>6
<1>3. CASE i # 0
  <2>0. i \in DOMAIN thr
    BY <1>1, <1>3
  <2>1. i \in DOMAIN thr /\ thr' = [thr EXCEPT ![i] = u]
    BY <2>0 DEF Put
  <2>2. thr' \in Seq(Thread) /\ Len(thr') = Len(thr) /\ DOMAIN thr' = DOMAIN thr
    BY <1>1, <2>1
  <2>3. PutAt(i, i, u)
    BY <1>1, <1>3, <2>1, <2>2 DEF PutAt, Old
  <2> QED
    BY <2>3
<1> QED
  BY <1>2, <1>3

\* A thread that stays as it is.
LEMMA Stays ==
    ASSUME NEW j \in DOMAIN thr, thr'[j] = thr[j]
    PROVE  Turned(j)
  BY DEF Turned, Old

\* A message of ours is nothing to notice.
LEMMA AddsNoticed ==
    ASSUME NEW t \in Thread, NEW u \in Thread, NEW b, Adds(t, b, u), b.sent,
           \A k \in DOMAIN t.talk : t.talk[k].sent
    PROVE  \A k \in DOMAIN u.talk : u.talk[k].sent
<1>1. /\ Len(t.talk) \in Nat /\ DOMAIN t.talk = 1 .. Len(t.talk)
      /\ DOMAIN u.talk = 1 .. Len(t.talk) + 1
  BY ThreadFields DEF Adds
<1>2. ASSUME NEW k \in DOMAIN u.talk PROVE u.talk[k].sent
  <2>1. CASE k = Len(t.talk) + 1
    BY <2>1 DEF Adds
  <2>2. CASE k # Len(t.talk) + 1
    <3>1. k \in 1 .. Len(t.talk)
      BY <1>1, <2>2
    <3> QED
      BY <1>1, <3>1 DEF Adds
  <2> QED
    BY <2>1, <2>2
<1> QED
  BY <1>2

\* A message of the kind is now the last of thread i.
Sent(kind, i) ==
    i # 0 => LET k == Len(thr[i].talk) + 1
             IN  Len(thr'[i].talk) = k /\ thr'[i].talk[k].sent /\ thr'[i].talk[k].kind = kind

\* Sending a message, in a thread or in a new one.
LEMMA SendTurns ==
    ASSUME ListTyped, NEW kind \in DownKinds, NEW i \in 0..Len(thr), cpdlc_msglist_send(kind, i),
           kind \in Verdicts => Judges(i, kind)
    PROVE  Grown /\ Sent(kind, i)
<1>1. PICK t : t = IF i = 0 THEN NewThread ELSE thr[i]
  OBVIOUS
<1>2. PICK v : v = msglist_send_impl(t, kind, min)
  OBVIOUS
<1>3. PICK sending \in BOOLEAN : Put(i, thr_status_upd(v, sending, min + 1))
  BY <1>1, <1>2, Zenon DEF cpdlc_msglist_send
<1>4. PICK u : u = thr_status_upd(v, sending, min + 1)
  OBVIOUS
<1>5. t \in Thread
  BY <1>1, NewTyped, ListDomain
<1>6. min \in Nat /\ min + 1 \in Nat /\ online \in BOOLEAN
  BY DEF ListTyped
<1>7. /\ v \in Thread /\ ~v.late
      /\ v.status = t.status /\ v.dirty = t.dirty /\ v.shown = t.shown
      /\ \E b : Adds(t, b, v) /\ b.sent /\ b.kind = kind /\ b.min = min
  BY <1>2, <1>5, <1>6, SendImplFacts, SMTT(30)
<1>8. PICK b : Adds(t, b, v) /\ b.sent /\ b.kind = kind /\ b.min = min
  BY <1>7
<1>9. Updated(v, u, min + 1) /\ (LastMsg(v).kind \in Verdicts /\ ~v.late => u.status \in Final)
  BY <1>4, <1>6, <1>7, UpdFacts
<1>10. u.talk = v.talk
  BY <1>7, <1>9, Zenon DEF Updated, TimesOut
<1>11. Adds(t, b, u) /\ LastMsg(v) = b
  BY <1>8, <1>10 DEF Adds, LastMsg
<1>12. u \in Thread
  BY <1>9 DEF Updated
<1>13. Put(i, u)
  BY <1>3, <1>4
<1>14. PICK p : PutAt(i, p, u)
  BY <1>12, <1>13, PutFacts
<1>15. Old(p) = t /\ thr'[p] = u
  BY <1>1, <1>14 DEF PutAt
<1>16. min' = min + 1 /\ uplinks' = uplinks /\ online' = online
  BY DEF cpdlc_msglist_send
<1>17. kind \in Verdicts => u.status \in Final /\ Judges(p, kind)
  <2>1. ASSUME kind \in Verdicts PROVE i # 0
    BY <2>1, ListDomain DEF Judges
  <2> QED
    BY <1>7, <1>8, <1>9, <1>11, <1>14, <2>1 DEF PutAt
<1>18. Sends(p, b)
  BY <1>6, <1>8, <1>15, <1>16, <1>17, SMTT(30) DEF Sends
<1>19. t.status \in Final => u.status = t.status
  BY <1>7, <1>9 DEF Updated
<1>20. Noticed(t) => Noticed(u)
  <2>1. u.shown = t.shown /\ (u.dirty \/ ~t.dirty \/ u.status \in {"TIMEDOUT", "CONN_ENDED"})
    BY <1>7, <1>9 DEF Updated
  <2>2. t.status \in {"TIMEDOUT", "CONN_ENDED"} => u.status = t.status
    BY <1>19 DEF Final
  <2> QED
    BY <1>5, <1>8, <1>11, <1>12, <2>1, <2>2, AddsNoticed, Zenon DEF Noticed
<1>21. Turned(p)
  BY <1>11, <1>15, <1>18, <1>19, <1>20, Zenon DEF Turned
<1>22. ASSUME NEW j \in DOMAIN thr' PROVE Turned(j)
  BY <1>14, <1>21, Stays DEF PutAt
<1>23. Grown
  BY <1>6, <1>14, <1>16, <1>22, SMTT(30) DEF Grown, ListTyped, PutAt
<1>24. Sent(kind, i)
  BY <1>1, <1>8, <1>11, <1>14 DEF Sent, PutAt, Adds
<1> QED
  BY <1>23, <1>24

\* What an uplink may refer to is a message of some thread.
LEMMA ReferableFacts ==
    ASSUME ListTyped, NEW b, b.mrn \in Referable(b.kind)
    PROVE  b.mrn = None \/ (Refers(b) /\ b.mrn \in Nat)
<1> DEFINE all == UNION {{thr[i].talk[k] : k \in DOMAIN thr[i].talk} : i \in DOMAIN thr}
<1>1. ASSUME NEW c \in all
      PROVE  c.min \in Nat /\ \E i \in DOMAIN thr : \E k \in DOMAIN thr[i].talk : thr[i].talk[k] = c
  <2>1. PICK i \in DOMAIN thr : c \in {thr[i].talk[k] : k \in DOMAIN thr[i].talk}
    OBVIOUS
  <2>2. PICK k \in DOMAIN thr[i].talk : c = thr[i].talk[k]
    BY <2>1
  <2>3. thr[i].talk \in Seq(Bucket)
    BY ListDomain, ThreadFields
  <2>4. c \in Bucket
    BY <2>2, <2>3
  <2> QED
    BY <2>2, <2>4 DEF Bucket
<1>2. Referable(b.kind) =
        IF b.kind = "disregard" THEN {c.min : c \in {d \in all : d.kind \in Timed}}
        ELSE {c.min : c \in {d \in all : d.sent /\ d.tok}}
             \cup (IF b.kind \in {"clr", "rep", "mgmt"} THEN {None} ELSE {})
  BY Zenon DEF Referable
<1> HIDE DEF all
<1>3. CASE b.kind = "disregard"
  <2>1. PICK c \in all : c.kind \in Timed /\ b.mrn = c.min
    BY <1>2, <1>3
  <2> QED
    BY <1>1, <1>3, <2>1 DEF Refers
<1>4. CASE b.kind # "disregard" /\ b.mrn # None
  <2>1. PICK c \in all : c.sent /\ b.mrn = c.min
    BY <1>2, <1>4
  <2> QED
    BY <1>1, <1>4, <2>1, SMTT(30) DEF Refers
<1> QED
  BY <1>3, <1>4

\* The thread found holds what the uplink refers to; none is found when only closed ones do.
LEMMA FindFacts ==
    ASSUME ListTyped, NEW b, NEW i, i = msg_thr_find_by_mrn(b)
    PROVE  /\ i \in 0..Len(thr)
           /\ i # 0 => b.mrn # None /\ Matches(b, thr[i])
           /\ i = 0 /\ b.mrn # None =>
                \A j \in DOMAIN thr : Matches(b, thr[j]) => thr[j].status = "CLOSED"
<1> DEFINE found == {j \in DOMAIN thr :
                       /\ b.mrn # None
                       /\ thr[j].status # "CLOSED"
                       /\ \E k \in DOMAIN thr[j].talk : msg_matches_bucket(b, thr[j].talk[k])}
<1>1. Len(thr) \in Nat /\ DOMAIN thr = 1..Len(thr)
  BY ListDomain
<1>2. \A j : j \in found <=> j \in DOMAIN thr /\ b.mrn # None /\ thr[j].status # "CLOSED"
                             /\ Matches(b, thr[j])
  BY DEF Matches
<1>3. i = IF found = {} THEN 0 ELSE CHOOSE j \in found : \A l \in found : j <= l
  BY Zenon DEF msg_thr_find_by_mrn
<1> HIDE DEF found
<1>4. CASE found = {}
  BY <1>1, <1>2, <1>3, <1>4
<1>5. CASE found # {}
  <2>1. found \subseteq Nat
    BY <1>1, <1>2
  <2>2. \E j \in found : \A l \in found : j <= l
    BY <1>5, <2>1, LeastNatural, Zenon
  <2>3. i \in found
    BY <1>3, <1>5, <2>2
  <2>4. i \in DOMAIN thr /\ i # 0
    BY <1>1, <1>2, <2>3
  <2> QED
    BY <1>1, <1>2, <2>3, <2>4
<1> QED
  BY <1>4, <1>5

\* What AddUplink makes of a thread.
LEMMA AddUplinkFacts ==
    ASSUME NEW t \in Thread, NEW b \in Bucket, NEW u, u = AddUplink(t, b)
    PROVE  u \in Thread /\ Adds(t, b, u) /\ ~u.late /\ u.status = t.status /\ u.dirty
<1>1. PICK v : v = Append1(t, b)
  OBVIOUS
<1>2. v \in Thread /\ Adds(t, b, v) /\ ~v.late /\ v.status = t.status
  BY <1>1, Append1Facts
<1>3. u = [v EXCEPT !.dirty = TRUE, !.shown = FALSE]
  BY <1>1 DEF AddUplink
<1>4. /\ v.status \in ThrStatuses /\ v.talk \in Seq(Bucket) /\ v.late \in BOOLEAN
      /\ v = [status |-> v.status, talk |-> v.talk, dirty |-> v.dirty, late |-> v.late,
              shown |-> v.shown]
  BY <1>2, ThreadFields
<1>5. u = [status |-> v.status, talk |-> v.talk, dirty |-> TRUE, late |-> v.late,
           shown |-> FALSE]
  BY <1>3, <1>4, Zenon
<1>6. u \in Thread
  BY <1>4, <1>5, MakeThread, Zenon
<1>7. u.talk = v.talk /\ u.dirty = TRUE /\ u.late = v.late /\ u.status = v.status
  BY <1>5
<1> QED
  BY <1>2, <1>6, <1>7 DEF Adds

\* Receiving a message.
LEMMA RecvTurns ==
    ASSUME ListTyped, msg_recv_cb
    PROVE  Grown
<1>0. PICK kind \in Uplinks : \E mrn \in Referable(kind) :
         LET msg == [kind |-> kind, sent |-> FALSE, min |-> uplinks, mrn |-> mrn,
                     tok |-> FALSE]
             i == msg_thr_find_by_mrn(msg)
             t == IF i = 0 THEN NewThread ELSE thr[i]
         IN  Put(i, thr_status_upd(AddUplink(t, msg), FALSE, min))
  BY Zenon DEF msg_recv_cb
<1>1. PICK mrn \in Referable(kind) :
         LET msg == [kind |-> kind, sent |-> FALSE, min |-> uplinks, mrn |-> mrn,
                     tok |-> FALSE]
             i == msg_thr_find_by_mrn(msg)
             t == IF i = 0 THEN NewThread ELSE thr[i]
         IN  Put(i, thr_status_upd(AddUplink(t, msg), FALSE, min))
  BY <1>0, Zenon
<1>2. PICK b : b = [kind |-> kind, sent |-> FALSE, min |-> uplinks, mrn |-> mrn, tok |-> FALSE]
  BY Zenon
<1>3. PICK i : i = msg_thr_find_by_mrn(b)
  OBVIOUS
<1>4. PICK t : t = IF i = 0 THEN NewThread ELSE thr[i]
  OBVIOUS
<1>5. PICK v : v = AddUplink(t, b)
  OBVIOUS
<1>6. PICK u : u = thr_status_upd(v, FALSE, min)
  BY Zenon
<1>7. Put(i, u)
  BY <1>1, <1>2, <1>3, <1>4, <1>5, <1>6, Zenon
<1>8. b.kind = kind /\ ~b.sent /\ b.min = uplinks /\ b.mrn = mrn /\ b.mrn \in Referable(b.kind)
  BY <1>2
<1>9. b.mrn = None \/ (Refers(b) /\ b.mrn \in Nat)
  BY <1>8, ReferableFacts
<1>10. uplinks \in Nat /\ min \in Nat /\ online \in BOOLEAN /\ kind \in UpKinds
  BY MsgListAssumption DEF ListTyped
<1>11. b \in Bucket
  <2>1. mrn \in Nat \cup {None}
    BY <1>8, <1>9
  <2> QED
    BY <1>2, <1>10, <2>1, Zenon DEF Bucket
<1>12. /\ i \in 0..Len(thr)
       /\ i # 0 => b.mrn # None /\ Matches(b, thr[i])
       /\ i = 0 /\ b.mrn # None =>
            \A j \in DOMAIN thr : Matches(b, thr[j]) => thr[j].status = "CLOSED"
  BY <1>3, FindFacts
<1>13. t \in Thread
  BY <1>4, <1>12, NewTyped, ListDomain
<1>14. v \in Thread /\ Adds(t, b, v) /\ ~v.late /\ v.status = t.status /\ v.dirty
  BY <1>5, <1>11, <1>13, AddUplinkFacts
<1>15. Updated(v, u, min)
  BY <1>6, <1>10, <1>14, UpdFacts, Zenon
<1>16. u \in Thread /\ u.talk = v.talk
  BY <1>14, <1>15, Zenon DEF Updated, TimesOut
<1>17. Adds(t, b, u)
  BY <1>14, <1>16 DEF Adds
<1>18. PICK p : PutAt(i, p, u)
  BY <1>7, <1>12, <1>16, PutFacts
<1>19. Old(p) = t /\ thr'[p] = u
  BY <1>4, <1>18 DEF PutAt
<1>20. min' = min /\ uplinks' = uplinks + 1 /\ online' = online /\ uplinks < MaxUplinks
  BY DEF msg_recv_cb
<1>21. Gets(p, b)
  BY <1>8, <1>9, <1>10, <1>12, <1>18, <1>20, Zenon DEF Gets, PutAt
<1>22. t.status \in Final => u.status = t.status
  BY <1>14, <1>15 DEF Updated
<1>23. Noticed(u)
  BY <1>14, <1>15 DEF Updated, Noticed
<1>24. Turned(p)
  BY <1>17, <1>19, <1>21, <1>22, <1>23, Zenon DEF Turned
<1>25. ASSUME NEW j \in DOMAIN thr' PROVE Turned(j)
  BY <1>18, <1>24, Stays DEF PutAt
<1>26. uplinks' \in 0..MaxUplinks /\ uplinks <= uplinks'
  BY <1>10, <1>20, MsgListAssumption
<1> QED
  BY <1>10, <1>18, <1>20, <1>25, <1>26 DEF Grown, ListTyped, PutAt

\* The threads are replaced in their places.
LEMMA MapTurns ==
    ASSUME ListTyped, ListTyped', DOMAIN thr' = DOMAIN thr, min <= min', uplinks' = uplinks,
           \A j \in DOMAIN thr : Turned(j)
    PROVE  Grown
<1>1. Len(thr') = Len(thr) /\ Len(thr) \in Nat /\ uplinks \in Nat
  BY DEF ListTyped
<1> QED
  BY <1>1 DEF Grown

\* The update of all threads; the errors that time-outs send are numbered apart.
LEMMA UpdateTurns ==
    ASSUME ListTyped, cpdlc_msglist_update
    PROVE  Grown
<1> DEFINE late(i) == {j \in DOMAIN thr : j > i /\ TimesOut(thr[j])}
           before(i) == Cardinality(late(i))
<1>1. PICK sending \in BOOLEAN :
        thr' = [i \in DOMAIN thr |-> thr_status_upd(thr[i], sending, min + before(i))]
  BY Zenon DEF cpdlc_msglist_update
<1>2. min' = min + before(0) /\ uplinks' = uplinks /\ online' = online
  BY Zenon DEF cpdlc_msglist_update
<1>3. Len(thr) \in Nat /\ DOMAIN thr = 1 .. Len(thr) /\ \A j \in DOMAIN thr : thr[j] \in Thread
  BY ListDomain
<1>4. min \in Nat /\ online \in BOOLEAN /\ uplinks \in 0..MaxUplinks
  BY DEF ListTyped
<1>5. IsFiniteSet(DOMAIN thr)
  BY <1>3, FS_Interval
<1>6. ASSUME NEW i
      PROVE  IsFiniteSet(late(i)) /\ before(i) \in Nat
  <2>1. late(i) \subseteq DOMAIN thr
    OBVIOUS
  <2> QED
    BY <1>5, <2>1, FS_Subset, FS_CardinalityType
<1>7. ASSUME NEW i \in DOMAIN thr, TimesOut(thr[i])
      PROVE  before(i) < before(0)
  <2>1. i \notin late(i) /\ late(i) \cup {i} \subseteq late(0)
    BY <1>3, <1>7
  <2> HIDE DEF late
  <2>2. Cardinality(late(i) \cup {i}) = Cardinality(late(i)) + 1
    BY <1>6, <2>1, FS_AddElement, Zenon
  <2>3. Cardinality(late(i) \cup {i}) <= Cardinality(late(0))
    BY <1>6, <2>1, FS_Subset
  <2>4. Cardinality(late(i)) \in Nat /\ Cardinality(late(0)) \in Nat
    BY <1>6
  <2> QED
    BY <2>2, <2>3, <2>4
<1>a. before(0) \in Nat /\ \A i : before(i) \in Nat
  BY <1>6
<1>b. \A i \in DOMAIN thr : TimesOut(thr[i]) => before(i) < before(0)
  BY <1>7
<1> HIDE DEF before
<1>8. ASSUME NEW j \in DOMAIN thr
      PROVE  thr'[j] \in Thread /\ Turned(j)
  <2>1. PICK t, u : t = thr[j] /\ u = thr'[j]
    OBVIOUS
  <2>2. u = thr_status_upd(t, sending, min + before(j))
    BY <1>1, <2>1
  <2>3. t \in Thread /\ min + before(j) \in Nat
    BY <1>3, <1>4, <1>a, <2>1
  <2>4. Updated(t, u, min + before(j))
    BY <1>4, <2>2, <2>3, UpdFacts
  <2>5. u \in Thread /\ (t.status \in Final => u.status = t.status)
    BY <2>4 DEF Updated
  <2>6. \/ u.talk = t.talk
        \/ \E b : Adds(t, b, u) /\ b.sent /\ Sends(j, b)
    <3>1. CASE u.talk # t.talk
      <4>1. TimesOut(t)
        BY <2>4, <3>1 DEF Updated
      <4>2. PICK b : Adds(t, b, u) /\ b.sent /\ b.kind = "error" /\ b.min = min + before(j)
        BY <2>4, <3>1 DEF Updated
      <4>3. min <= b.min /\ b.min < min'
        BY <1>2, <1>4, <1>a, <1>b, <2>1, <4>1, <4>2, SMTT(30)
      <4>4. Sends(j, b)
        BY <4>2, <4>3 DEF Sends, DownKinds, Verdicts
      <4> QED
        BY <4>2, <4>4
    <3> QED
      BY <3>1
  <2>7. Noticed(t) => Noticed(u)
    <3>1. u.shown = t.shown /\ (u.dirty \/ ~t.dirty \/ u.status \in {"TIMEDOUT", "CONN_ENDED"})
      BY <2>4 DEF Updated
    <3>2. t.status \in {"TIMEDOUT", "CONN_ENDED"} => u.status = t.status
      BY <2>5 DEF Final
    <3>3. (\A k \in DOMAIN t.talk : t.talk[k].sent) => \A k \in DOMAIN u.talk : u.talk[k].sent
      BY <2>3, <2>5, <2>6, AddsNoticed
    <3> QED
      BY <3>1, <3>2, <3>3, Zenon DEF Noticed
  <2>8. Old(j) = t
    BY <2>1 DEF Old
  <2>9. Turned(j)
    BY <2>1, <2>5, <2>6, <2>7, <2>8, Zenon DEF Turned
  <2> QED
    BY <2>1, <2>5, <2>9
<1>9. thr' \in [1 .. Len(thr) -> Thread] /\ DOMAIN thr' = DOMAIN thr
  BY <1>1, <1>3, <1>8
<1>10. thr' \in Seq(Thread)
  BY <1>3, <1>9
<1>11. min' \in Nat /\ min <= min'
  BY <1>2, <1>4, <1>a
<1>12. ListTyped'
  BY <1>2, <1>4, <1>10, <1>11, Zenon DEF ListTyped
<1> QED
  BY <1>2, <1>8, <1>9, <1>11, <1>12, MapTurns

\* Only one thread changes, in its fields other than the messages.
LEMMA FieldTurns ==
    ASSUME ListTyped, NEW i, NEW u, thr' = [thr EXCEPT ![i] = u],
           UNCHANGED <<min, uplinks, online>>,
           i \in DOMAIN thr =>
              /\ u \in Thread /\ u.talk = thr[i].talk
              /\ thr[i].status \in Final => u.status = thr[i].status
              /\ u.shown \/ ~thr[i].shown
              /\ u.dirty \/ ~thr[i].dirty \/ (step = "draw" /\ step' = "read" /\ cur' = i)
    PROVE  Grown
<1>1. Len(thr) \in Nat /\ DOMAIN thr = 1 .. Len(thr) /\ \A j \in DOMAIN thr : thr[j] \in Thread
  BY ListDomain
<1>2. thr' \in [1 .. Len(thr) -> Thread] /\ DOMAIN thr' = DOMAIN thr
  BY <1>1, Zenon
<1>3. thr' \in Seq(Thread)
  BY <1>1, <1>2
<1>4. ListTyped' /\ min <= min'
  BY <1>3 DEF ListTyped
<1>5. ASSUME NEW j \in DOMAIN thr PROVE Turned(j)
  <2>1. CASE j # i
    <3>1. thr'[j] = thr[j]
      BY <2>1
    <3> QED
      BY <3>1, Stays
  <2>2. CASE j = i
    <3>1. thr'[j] = u /\ Old(j) = thr[j]
      BY <2>2 DEF Old
    <3> QED
      BY <2>2, <3>1 DEF Turned, Noticed, Final
  <2> QED
    BY <2>1, <2>2
<1> QED
  BY <1>2, <1>4, <1>5, MapTurns, Zenon

\* Where the box is: it answers only in a thread, and accepts or not after adding reports.
Control ==
    /\ page \in Pages /\ cur \in 0..Len(thr) /\ step \in Steps
    /\ answer \in DownKinds \cup {None}
    /\ left \in [keys: 0..MaxKeys, changes: 0..MaxChanges]
    /\ page \in {"thr", "rej"} => cur # 0
    /\ step \in {"generate", "answer"} => page = "thr" /\ answer \in {"accept", "roger", "stby"}
    /\ step = "generate" => answer # "stby"

\* The logon changes, or nothing of the list.
LEMMA OthersTurn ==
    ASSUME ListTyped, UNCHANGED <<thr, min, uplinks>>, online' \in BOOLEAN
    PROVE  Grown
<1>1. ListTyped' /\ min <= min'
  BY DEF ListTyped
<1>2. ASSUME NEW j \in DOMAIN thr PROVE Turned(j)
  BY Stays
<1> QED
  BY <1>1, <1>2, MapTurns

\* The steps of the box that send.
LEMMA SendsTurn ==
    ASSUME ListTyped, Control
    PROVE  /\ send_quick_resp => Grown /\ Sent(answer, cur)
           /\ SendReject => Grown
           /\ SendRequest => Grown
           /\ SendReport => Grown
           /\ report_update => Grown
<1>1. /\ cur \in 0..Len(thr) /\ 0 \in 0..Len(thr)
      /\ cur # 0 => cur \in DOMAIN thr
  BY ListDomain DEF Control
<1>2. ASSUME send_quick_resp PROVE Grown /\ Sent(answer, cur)
  <2>1. /\ step = "answer" /\ cpdlc_msglist_send(answer, cur)
        /\ page' = page /\ step' = "update"
    BY <1>2 DEF send_quick_resp
  <2>2. answer \in DownKinds /\ cur # 0 /\ page = "thr"
    BY <2>1 DEF Control, DownKinds
  <2>3. Judges(cur, answer)
    BY <1>1, <2>1, <2>2 DEF Judges
  <2> QED
    BY <1>1, <2>1, <2>2, <2>3, SendTurns, Zenon
<1>3. ASSUME SendReject PROVE Grown
  <2>1. /\ step = "idle" /\ page = "rej" /\ cpdlc_msglist_send("reject", cur)
        /\ page' = "thr" /\ step' = "update"
    BY <1>3 DEF SendReject
  <2>2. "reject" \in DownKinds /\ cur # 0
    BY <2>1 DEF Control, DownKinds
  <2>3. Judges(cur, "reject")
    BY <1>1, <2>1, <2>2 DEF Judges
  <2> QED
    BY <1>1, <2>1, <2>2, <2>3, SendTurns, Zenon
<1>4. ASSUME NEW kind \in {"req", "report"}, cpdlc_msglist_send(kind, 0) PROVE Grown
  <2>1. kind \in DownKinds /\ kind \notin Verdicts
    BY DEF DownKinds, Verdicts
  <2> QED
    BY <1>1, <1>4, <2>1, SendTurns
<1>5. SendRequest => Grown
  BY <1>4 DEF SendRequest
<1>6. SendReport => Grown
  BY <1>4 DEF SendReport
<1>7. report_update => Grown
  BY <1>4 DEF report_update
<1> QED
  BY <1>2, <1>3, <1>5, <1>6, <1>7, Zenon

\* A thread with other fields.
LEMMA OtherFields ==
    ASSUME NEW t \in Thread
    PROVE  /\ [t EXCEPT !.dirty = FALSE] =
                [status |-> t.status, talk |-> t.talk, dirty |-> FALSE, late |-> t.late,
                 shown |-> t.shown]
           /\ [t EXCEPT !.shown = TRUE] =
                [status |-> t.status, talk |-> t.talk, dirty |-> t.dirty, late |-> t.late,
                 shown |-> TRUE]
           /\ [t EXCEPT !.late = TRUE] =
                [status |-> t.status, talk |-> t.talk, dirty |-> t.dirty, late |-> TRUE,
                 shown |-> t.shown]
           /\ \A st : [t EXCEPT !.status = st] =
                [status |-> st, talk |-> t.talk, dirty |-> t.dirty, late |-> t.late,
                 shown |-> t.shown]
<1>1. t = [status |-> t.status, talk |-> t.talk, dirty |-> t.dirty, late |-> t.late,
           shown |-> t.shown]
  BY ThreadFields
<1>2. ASSUME NEW st
      PROVE  [t EXCEPT !.status = st] =
                [status |-> st, talk |-> t.talk, dirty |-> t.dirty, late |-> t.late,
                 shown |-> t.shown]
  BY <1>1
<1>3. ASSUME NEW x
      PROVE  [t EXCEPT !.dirty = x] =
        [status |-> t.status, talk |-> t.talk, dirty |-> x, late |-> t.late,
         shown |-> t.shown]
  BY <1>1
<1>4. ASSUME NEW x
      PROVE  [t EXCEPT !.shown = x] =
        [status |-> t.status, talk |-> t.talk, dirty |-> t.dirty, late |-> t.late,
         shown |-> x]
  BY <1>1
<1>5. ASSUME NEW x
      PROVE  [t EXCEPT !.late = x] =
        [status |-> t.status, talk |-> t.talk, dirty |-> t.dirty, late |-> x,
         shown |-> t.shown]
  BY <1>1
<1> QED
  BY <1>2, <1>3, <1>4, <1>5, Zenon

\* The steps that change a thread's fields.
LEMMA FieldsTurn ==
    ASSUME ListTyped
    PROVE  /\ MarkSeen => Grown
           /\ ReadThread => Grown
           /\ CloseRequest => Grown
           /\ \A i \in DOMAIN thr : Time(i) => Grown
<1>0. \A j \in DOMAIN thr : thr[j] \in Thread
  BY ListDomain
<1>1. ASSUME MarkSeen PROVE Grown
  <2>1. PICK u : u = [thr[cur] EXCEPT !.dirty = FALSE]
    BY Zenon
  <2>2. /\ thr' = [thr EXCEPT ![cur] = u] /\ UNCHANGED <<min, uplinks, online>>
        /\ step = "draw" /\ step' = "read" /\ cur' = cur
    BY <1>1, <2>1 DEF MarkSeen, cpdlc_msglist_thr_mark_seen
  <2>3. ASSUME cur \in DOMAIN thr
        PROVE  u \in Thread /\ u.talk = thr[cur].talk /\ u.status = thr[cur].status
               /\ u.shown = thr[cur].shown
    <3>1. PICK t \in Thread : t = thr[cur]
      BY <1>0, <2>3
    <3>2. u = [status |-> t.status, talk |-> t.talk, dirty |-> FALSE, late |-> t.late,
               shown |-> t.shown]
      BY <2>1, <3>1, OtherFields, Zenon
    <3>3. u \in Thread
      BY <3>2, MakeThread, ThreadFields, Zenon
    <3> QED
      BY <3>1, <3>2, <3>3
  <2> QED
    BY <2>2, <2>3, FieldTurns, Zenon
<1>2. ASSUME ReadThread PROVE Grown
  <2>1. PICK u : u = [thr[cur] EXCEPT !.shown = TRUE]
    BY Zenon
  <2>2. /\ thr' = [thr EXCEPT ![cur] = u] /\ UNCHANGED <<min, uplinks, online>>
    BY <1>2, <2>1 DEF ReadThread
  <2>3. ASSUME cur \in DOMAIN thr
        PROVE  u \in Thread /\ u.talk = thr[cur].talk /\ u.status = thr[cur].status
               /\ u.shown = TRUE /\ u.dirty = thr[cur].dirty
    <3>1. PICK t \in Thread : t = thr[cur]
      BY <1>0, <2>3
    <3>2. u = [status |-> t.status, talk |-> t.talk, dirty |-> t.dirty, late |-> t.late,
               shown |-> TRUE]
      BY <2>1, <3>1, OtherFields, Zenon
    <3>3. u \in Thread
      BY <3>2, MakeThread, ThreadFields, Zenon
    <3> QED
      BY <3>1, <3>2, <3>3
  <2> QED
    BY <2>2, <2>3, FieldTurns, Zenon
<1>3. ASSUME NEW i \in DOMAIN thr, Time(i) PROVE Grown
  <2>1. PICK u : u = [thr[i] EXCEPT !.late = TRUE]
    BY Zenon
  <2>2. /\ thr' = [thr EXCEPT ![i] = u] /\ UNCHANGED <<min, uplinks, online>>
    BY <1>3, <2>1 DEF Time, Late
  <2>3. u \in Thread /\ u.talk = thr[i].talk /\ u.status = thr[i].status
        /\ u.shown = thr[i].shown /\ u.dirty = thr[i].dirty
    <3>1. PICK t \in Thread : t = thr[i]
      BY <1>0
    <3>2. u = [status |-> t.status, talk |-> t.talk, dirty |-> t.dirty, late |-> TRUE,
               shown |-> t.shown]
      BY <2>1, <3>1, OtherFields, Zenon
    <3>3. u \in Thread
      BY <3>2, MakeThread, ThreadFields, Zenon
    <3> QED
      BY <3>1, <3>2, <3>3
  <2> QED
    BY <2>2, <2>3, FieldTurns, Zenon
<1>4. ASSUME CloseRequest PROVE Grown
  <2>0. PICK i : i = NewestRequest
    OBVIOUS
  <2>1. PICK st : st = IF thr[i].status \in Final THEN thr[i].status ELSE "CLOSED"
    OBVIOUS
  <2>2. PICK u : u = [thr[i] EXCEPT !.status = st]
    BY Zenon
  <2>3. /\ thr' = [thr EXCEPT ![i] = u] /\ UNCHANGED <<min, uplinks, online>>
    BY <1>4, <2>0, <2>1, <2>2 DEF CloseRequest, cpdlc_msglist_thr_close
  <2>4. ASSUME i \in DOMAIN thr
        PROVE  u \in Thread /\ u.talk = thr[i].talk
               /\ (thr[i].status \in Final => u.status = thr[i].status)
               /\ u.shown = thr[i].shown /\ u.dirty = thr[i].dirty
    <3>1. PICK t \in Thread : t = thr[i]
      BY <1>0, <2>4
    <3>2. u = [status |-> st, talk |-> t.talk, dirty |-> t.dirty, late |-> t.late,
               shown |-> t.shown]
      BY <2>2, <3>1, OtherFields, Zenon
    <3>3. st \in ThrStatuses
      BY <2>1, <3>1 DEF ThrStatuses, Final
    <3>4. u \in Thread
      BY <3>2, <3>3, MakeThread, ThreadFields
    <3> QED
      BY <2>1, <3>1, <3>2, <3>4
  <2> QED
    BY <2>3, <2>4, FieldTurns, Zenon
<1> QED
  BY <1>1, <1>2, <1>3, <1>4

\* Every step of the program changes the list in the ways of Grown.
LEMMA StepGrows ==
    ASSUME ListTyped, Control, [Next]_vars
    PROVE  Grown
<1>0. online \in BOOLEAN
  BY DEF ListTyped
<1>1. CASE UNCHANGED listVars
  BY <1>0, <1>1, OthersTurn DEF listVars
<1>2. CASE Receive
  BY <1>2, RecvTurns DEF Receive
<1>3. CASE Update
  BY <1>3, UpdateTurns DEF Update
<1>4. CASE Link
  <2>1. online' = ~online /\ UNCHANGED <<thr, min, uplinks>>
    BY <1>4 DEF Link, LinkChanges
  <2>2. online' \in BOOLEAN
    BY <2>1
  <2> QED
    BY <2>1, <2>2, OthersTurn
<1>5. CASE BoxWorks
  BY <1>1, <1>3, <1>5, SendsTurn, FieldsTurn, Zenon
     DEF BoxWorks, fans_reports_generate, DropReports, BeginReports, PassReport, EndReports
<1>6. CASE Keys
  BY <1>1, <1>6, SendsTurn, Zenon
     DEF Keys, ShowThread, TurnPage, Turn, ShowReport, PressAccept, PressStandby, fans_rej,
         ArmReport
<1>7. CASE \E i \in DOMAIN thr : Time(i)
  BY <1>7, FieldsTurn
<1>8. CASE UNCHANGED vars
  BY <1>1, <1>8 DEF vars
<1> QED
  BY <1>2, <1>4, <1>5, <1>6, <1>7, <1>8, Zenon DEF Next

\* Control is inductive.
LEMMA ControlStep ==
    ASSUME ListTyped, Control, Grown, [Next]_vars
    PROVE  Control'
<1>1. /\ Len(thr) \in Nat /\ Len(thr') \in Nat /\ Len(thr) <= Len(thr')
      /\ DOMAIN thr = 1 .. Len(thr)
  BY ListDomain DEF Grown, ListTyped
<1>2. \A n \in 0..Len(thr) : n \in 0..Len(thr')
  BY <1>1, SMTT(30)
<1> USE FansBoxAssumption DEF Control, Pages, Steps
<1>3. CASE fans_reports_generate \/ send_quick_resp \/ CloseRequest
  BY <1>2, <1>3, Zenon DEF fans_reports_generate, send_quick_resp, CloseRequest
<1>4. CASE Update
  BY <1>2, <1>4 DEF Update
<1>5. CASE MarkSeen \/ ReadThread \/ DropReports \/ BeginReports \/ report_update
  BY <1>2, <1>5 DEF MarkSeen, ReadThread, DropReports, BeginReports, report_update
<1>6. CASE PassReport \/ EndReports
  BY <1>2, <1>6 DEF PassReport, EndReports
<1>7. CASE \E i \in DOMAIN thr : ShowThread(i)
  BY <1>1, <1>2, <1>7 DEF ShowThread
<1>8. CASE TurnPage
  BY <1>1, <1>2, <1>8 DEF TurnPage, Turn
<1>9. CASE ShowReport
  BY <1>1, <1>2, <1>9 DEF ShowReport
<1>10. CASE PressAccept
  BY <1>2, <1>10 DEF PressAccept, Presses, DownKinds
<1>11. CASE PressStandby
  BY <1>2, <1>11 DEF PressStandby, Presses, DownKinds
<1>12. CASE fans_rej
  BY <1>2, <1>12 DEF fans_rej, Turn
<1>13. CASE SendReject \/ SendRequest
  BY <1>2, <1>13 DEF SendReject, SendRequest, Presses
<1>14. CASE ArmReport \/ SendReport
  BY <1>2, <1>14 DEF ArmReport, SendReport, Presses
<1>15. CASE Receive \/ (\E i \in DOMAIN thr : Time(i)) \/ UNCHANGED vars
  BY <1>2, <1>15 DEF Receive, Time, vars, boxVars
<1>16. CASE Link
  BY <1>2, <1>16 DEF Link
<1> QED
  BY <1>3, <1>4, <1>5, <1>6, <1>7, <1>8, <1>9, <1>10, <1>11, <1>12, <1>13, <1>14, <1>15, <1>16,
     Zenon DEF Next, BoxWorks, Keys

\* The message k of thread j is the one a step put there.
Fresh(j, k) ==
    LET b == thr'[j].talk[k] IN
    /\ k = Len(thr'[j].talk) /\ k = Len(Old(j).talk) + 1
    /\ b \in Bucket /\ (Sends(j, b) \/ Gets(j, b))

\* It was there before.
Stayed(j, k) ==
    /\ j \in DOMAIN thr /\ k \in DOMAIN thr[j].talk
    /\ thr'[j].talk[k] = thr[j].talk[k]

\* The messages of a thread.
LEMMA TalkDomain ==
    ASSUME ListTyped, NEW j \in DOMAIN thr
    PROVE  /\ thr[j].talk \in Seq(Bucket) /\ Len(thr[j].talk) \in Nat
           /\ DOMAIN thr[j].talk = 1 .. Len(thr[j].talk)
           /\ \A k \in DOMAIN thr[j].talk : thr[j].talk[k] \in Bucket
<1>1. thr[j].talk \in Seq(Bucket)
  BY ListDomain, ThreadFields
<1> QED
  BY <1>1

\* The messages of a thread after a step.
LEMMA TalkDomainNext ==
    ASSUME Grown, NEW j \in DOMAIN thr'
    PROVE  /\ thr'[j].talk \in Seq(Bucket) /\ Len(thr'[j].talk) \in Nat
           /\ DOMAIN thr'[j].talk = 1 .. Len(thr'[j].talk)
<1>1. thr' \in Seq(Thread)
  BY DEF Grown, ListTyped
<1>2. thr'[j] \in Thread
  BY <1>1
<1>3. thr'[j].talk \in Seq(Bucket)
  BY <1>2, ThreadFields
<1> QED
  BY <1>3

\* A message was there before or is the one just put there.
LEMMA FreshOrStayed ==
    ASSUME ListTyped, Grown, NEW j \in DOMAIN thr', NEW k \in DOMAIN thr'[j].talk
    PROVE  Stayed(j, k) \/ Fresh(j, k)
<1>1. Turned(j)
  BY DEF Grown
<1>2. CASE j \in DOMAIN thr /\ thr'[j].talk = thr[j].talk
  BY <1>2 DEF Stayed
<1>3. CASE \E b : Adds(Old(j), b, thr'[j]) /\ (Sends(j, b) \/ Gets(j, b))
  <2>1. PICK b : Adds(Old(j), b, thr'[j]) /\ (Sends(j, b) \/ Gets(j, b))
    BY <1>3
  <2>2. Old(j).talk \in Seq(Bucket)
    BY TalkDomain, NewTyped, ThreadFields DEF Old
  <2>3. Len(Old(j).talk) \in Nat /\ DOMAIN thr'[j].talk = 1 .. Len(Old(j).talk) + 1
    BY <2>1, <2>2 DEF Adds
  <2>4. CASE k = Len(Old(j).talk) + 1
    BY <2>1, <2>4 DEF Adds, Fresh
  <2>5. CASE k # Len(Old(j).talk) + 1
    <3>1. k \in 1 .. Len(Old(j).talk)
      BY <2>3, <2>5
    <3>2. j \in DOMAIN thr
      BY <2>3, <3>1, NewTyped DEF Old
    <3>3. Old(j) = thr[j] /\ DOMAIN thr[j].talk = 1 .. Len(thr[j].talk)
      BY <3>2, TalkDomain DEF Old
    <3>4. thr'[j].talk[k] = thr[j].talk[k]
      BY <2>1, <3>1, <3>3, Zenon DEF Adds
    <3> QED
      BY <3>1, <3>2, <3>3, <3>4 DEF Stayed
  <2> QED
    BY <2>4, <2>5
<1> QED
  BY <1>1, <1>2, <1>3 DEF Turned

\* No message leaves.
LEMMA AllStay ==
    ASSUME ListTyped, Grown, NEW j \in DOMAIN thr
    PROVE  /\ j \in DOMAIN thr'
           /\ thr[j].status \in Final => thr'[j].status = thr[j].status
           /\ \A k \in DOMAIN thr[j].talk :
                k \in DOMAIN thr'[j].talk /\ thr'[j].talk[k] = thr[j].talk[k]
<1>1. j \in DOMAIN thr'
  <2>1. /\ thr' \in Seq(Thread) /\ Len(thr) <= Len(thr')
        /\ Len(thr) \in Nat /\ DOMAIN thr = 1 .. Len(thr)
    BY ListDomain DEF Grown, ListTyped
  <2> QED
    BY <2>1
<1>2. Turned(j) /\ Old(j) = thr[j]
  BY <1>1 DEF Grown, Old
<1>3. DOMAIN thr[j].talk = 1 .. Len(thr[j].talk) /\ Len(thr[j].talk) \in Nat
  BY TalkDomain
<1>4. ASSUME NEW b, Adds(thr[j], b, thr'[j]), NEW k \in DOMAIN thr[j].talk
      PROVE  k \in DOMAIN thr'[j].talk /\ thr'[j].talk[k] = thr[j].talk[k]
  BY <1>3, <1>4 DEF Adds
<1> QED
  BY <1>1, <1>2, <1>4 DEF Turned

-----------------------------------------------------------------------------

\* The verdicts of the pilot.
IsVerdict(b) == b.sent /\ b.kind \in Verdicts

\* A thread with a verdict is settled, and has one.
Settled ==
    \A i \in DOMAIN thr : \A k \in DOMAIN thr[i].talk :
        IsVerdict(thr[i].talk[k]) =>
            /\ thr[i].status \in Final
            /\ \A l \in DOMAIN thr[i].talk : IsVerdict(thr[i].talk[l]) => l = k

\* The pilot is about to give a verdict.
Deciding == page = "rej" \/ (step \in {"generate", "answer"} /\ answer \in Verdicts)

\* As long as the pilot is about to give a verdict, the thread has none.
Undecided == Deciding => \A k \in DOMAIN thr[cur].talk : ~IsVerdict(thr[cur].talk[k])

\* The pilot comes to decide in a thread that is not settled only.
LEMMA DecidingStep ==
    ASSUME Control, [Next]_vars, Deciding'
    PROVE  cur' = cur /\ (Deciding \/ thr[cur].status \notin Final)
<1> USE DEF Deciding, Verdicts, Control
<1>1. CASE fans_reports_generate \/ send_quick_resp \/ CloseRequest
  BY <1>1, Zenon DEF fans_reports_generate, send_quick_resp, CloseRequest
<1>2. CASE Update \/ MarkSeen \/ ReadThread
  BY <1>2 DEF Update, MarkSeen, ReadThread
<1>3. CASE DropReports \/ BeginReports \/ report_update \/ PassReport \/ EndReports
  BY <1>3 DEF DropReports, BeginReports, report_update, PassReport, EndReports
<1>4. CASE (\E i \in DOMAIN thr : ShowThread(i)) \/ TurnPage \/ ShowReport
  BY <1>4 DEF ShowThread, TurnPage, Turn, ShowReport
<1>5. CASE PressAccept
  BY <1>5 DEF PressAccept, msg_can_resp
<1>6. CASE PressStandby
  BY <1>6 DEF PressStandby
<1>7. CASE fans_rej
  BY <1>7 DEF fans_rej, Turn, msg_can_resp
<1>8. CASE SendReject \/ SendRequest \/ ArmReport \/ SendReport
  BY <1>8 DEF SendReject, SendRequest, ArmReport, SendReport
<1>9. CASE Receive \/ (\E i \in DOMAIN thr : Time(i)) \/ UNCHANGED vars \/ Link
  BY <1>9 DEF Receive, Time, vars, boxVars, Link
<1> QED
  BY <1>1, <1>2, <1>3, <1>4, <1>5, <1>6, <1>7, <1>8, <1>9, Zenon DEF Next, BoxWorks, Keys

\* A verdict is given when the pilot was about to, and then they are no more.
LEMMA VerdictGiven ==
    ASSUME ListTyped, Control, Grown, NEW j \in DOMAIN thr', NEW k, Fresh(j, k),
           IsVerdict(thr'[j].talk[k])
    PROVE  j = cur /\ j \in DOMAIN thr /\ Deciding /\ ~Deciding' /\ thr'[j].status \in Final
<1>1. thr'[j].talk[k].sent /\ thr'[j].talk[k].kind \in Verdicts
  BY Zenon DEF IsVerdict
<1>2. Sends(j, thr'[j].talk[k])
  BY <1>1 DEF Fresh, Gets
<1>3. thr'[j].status \in Final /\ Judges(j, thr'[j].talk[k].kind)
  BY <1>1, <1>2 DEF Sends
<1> QED
  BY <1>1, <1>3 DEF Judges, Deciding

\* A step adds a verdict to a thread without one only, and settles it.
LEMMA SettledStep ==
    ASSUME ListTyped, Control, Grown, Settled, Undecided
    PROVE  Settled'
<1>1. ASSUME NEW i \in DOMAIN thr', NEW k \in DOMAIN thr'[i].talk, IsVerdict(thr'[i].talk[k])
      PROVE  thr'[i].status \in Final
  <2>1. CASE Stayed(i, k)
    BY <1>1, <2>1, AllStay DEF Stayed, Settled
  <2>2. CASE Fresh(i, k)
    BY <1>1, <2>2, VerdictGiven
  <2> QED
    BY <2>1, <2>2, FreshOrStayed, Zenon
<1>2. ASSUME NEW i \in DOMAIN thr', NEW k \in DOMAIN thr'[i].talk, IsVerdict(thr'[i].talk[k]),
             NEW l \in DOMAIN thr'[i].talk, IsVerdict(thr'[i].talk[l]), Fresh(i, k)
      PROVE  l = k
  <2>1. CASE Fresh(i, l)
    BY <1>2, <2>1 DEF Fresh
  <2>2. CASE Stayed(i, l)
    <3>1. i = cur /\ Deciding
      BY <1>2, VerdictGiven
    <3>2. IsVerdict(thr[i].talk[l]) /\ l \in DOMAIN thr[i].talk
      BY <1>2, <2>2 DEF Stayed
    <3> QED
      BY <3>1, <3>2 DEF Undecided
  <2> QED
    BY <2>1, <2>2, FreshOrStayed, Zenon
<1>3. ASSUME NEW i \in DOMAIN thr', NEW k \in DOMAIN thr'[i].talk, IsVerdict(thr'[i].talk[k]),
             NEW l \in DOMAIN thr'[i].talk, IsVerdict(thr'[i].talk[l])
      PROVE  l = k
  <2>1. CASE Fresh(i, k) \/ Fresh(i, l)
    BY <1>2, <1>3, <2>1, Zenon
  <2>2. CASE Stayed(i, k) /\ Stayed(i, l)
    <3>1. /\ IsVerdict(thr[i].talk[l]) /\ l \in DOMAIN thr[i].talk
          /\ IsVerdict(thr[i].talk[k]) /\ k \in DOMAIN thr[i].talk /\ i \in DOMAIN thr
      BY <1>3, <2>2 DEF Stayed
    <3> QED
      BY <3>1 DEF Settled
  <2> QED
    BY <2>1, <2>2, FreshOrStayed
<1> QED
  BY <1>1, <1>3 DEF Settled, IsVerdict

\* Undecided is inductive.
LEMMA UndecidedStep ==
    ASSUME ListTyped, Control, Grown, Control', [Next]_vars, Settled, Undecided
    PROVE  Undecided'
<1>1. SUFFICES ASSUME Deciding', NEW k \in DOMAIN thr'[cur'].talk, IsVerdict(thr'[cur'].talk[k])
               PROVE  FALSE
  BY DEF Undecided, IsVerdict
<1>2. cur' = cur /\ (Deciding \/ thr[cur].status \notin Final)
  BY <1>1, DecidingStep
<1>3. cur' \in DOMAIN thr'
  <2>1. cur' # 0 /\ cur' \in 0 .. Len(thr')
    BY <1>1 DEF Control, Deciding
  <2>2. thr' \in Seq(Thread)
    BY DEF Grown, ListTyped
  <2> QED
    BY <2>1, <2>2, SMTT(30)
<1>4. ~Fresh(cur', k)
  BY <1>1, <1>3, VerdictGiven
<1>5. Stayed(cur', k)
  BY <1>1, <1>3, <1>4, FreshOrStayed, Zenon
<1>6. IsVerdict(thr[cur].talk[k]) /\ k \in DOMAIN thr[cur].talk /\ cur \in DOMAIN thr
  BY <1>1, <1>2, <1>5 DEF Stayed
<1> QED
  BY <1>2, <1>6, Zenon DEF Undecided, Settled

\* A thread stays on the screen until it has been read.
LEMMA ReadStep ==
    ASSUME step = "read", [Next]_vars
    PROVE  \/ ReadThread
           \/ step' = step /\ cur' = cur
<1>1. CASE BoxWorks
  BY <1>1 DEF BoxWorks, fans_reports_generate, send_quick_resp, CloseRequest, Update, MarkSeen,
              DropReports, BeginReports, report_update, PassReport, EndReports
<1>2. CASE Keys
  BY <1>2 DEF Keys, ShowThread, TurnPage, ShowReport, PressAccept, PressStandby, fans_rej,
              SendReject, SendRequest, ArmReport, SendReport
<1>3. CASE Receive \/ (\E i \in DOMAIN thr : Time(i)) \/ UNCHANGED vars \/ Link
  BY <1>3 DEF Receive, Time, vars, boxVars, Link
<1> QED
  BY <1>1, <1>2, <1>3, Zenon DEF Next

\* All threads have been noticed but the one that is being read.
Missed(i) == ~Noticed(thr[i]) /\ ~(step = "read" /\ cur = i)

\* A step leaves no thread unnoticed.
LEMMA NoticedStep ==
    ASSUME ListTyped, Grown, [Next]_vars, \A i \in DOMAIN thr : ~Missed(i)
    PROVE  \A i \in DOMAIN thr' : Noticed(thr'[i]) \/ (step' = "read" /\ cur' = i)
<1>1. SUFFICES ASSUME NEW i \in DOMAIN thr'
               PROVE  Noticed(thr'[i]) \/ (step' = "read" /\ cur' = i)
  BY Zenon
<1>2. Noticed(Old(i)) => Noticed(thr'[i]) \/ (step' = "read" /\ cur' = i)
  BY DEF Grown, Turned
<1>3. CASE Noticed(Old(i))
  BY <1>2, <1>3
<1>4. CASE ~Noticed(Old(i))
  <2>1. i \in DOMAIN thr /\ Old(i) = thr[i]
    BY <1>4, NewTyped DEF Old
  <2>2. step = "read" /\ cur = i
    BY <1>4, <2>1, Zenon DEF Missed
  <2>3. CASE ReadThread
    <3>1. PICK u : u = [thr[i] EXCEPT !.shown = TRUE]
      BY Zenon
    <3>2. thr'[i] = u
      BY <2>1, <2>2, <2>3, <3>1 DEF ReadThread
    <3>3. thr[i] \in Thread
      BY <2>1, ListDomain
    <3>4. PICK t \in Thread : t = thr[i]
      BY <3>3
    <3>5. u = [status |-> t.status, talk |-> t.talk, dirty |-> t.dirty, late |-> t.late,
               shown |-> TRUE]
      BY <3>1, <3>4, OtherFields, Zenon
    <3>6. u.shown
      BY <3>5
    <3> QED
      BY <3>2, <3>6 DEF Noticed
  <2> QED
    BY <2>2, <2>3, ReadStep, Zenon
<1> QED
  BY <1>3, <1>4

-----------------------------------------------------------------------------

\* A message of a thread: its number was given out, and so was the one it refers to.
Known(b, m, u) ==
    /\ b.sent => b.kind \in DownKinds /\ b.min < m
    /\ ~b.sent => b.kind \in UpKinds /\ b.min < u
    /\ ~b.sent /\ b.mrn # None => b.mrn < IF b.kind = "disregard" THEN u ELSE m

\* The numbers of all messages were given out.
Numbered == \A i \in DOMAIN thr : \A k \in DOMAIN thr[i].talk : Known(thr[i].talk[k], min, uplinks)

\* Numbers that were given out stay so.
LEMMA KnownLater ==
    ASSUME NEW b \in Bucket, NEW m \in Nat, NEW n \in Nat, NEW u \in Nat, NEW v \in Nat,
           m <= n, u <= v, Known(b, m, u)
    PROVE  Known(b, n, v)
<1>1. b.min \in Nat /\ b.mrn \in Nat \cup {None} /\ None \notin Nat
  BY MsgListAssumption DEF Bucket
<1> QED
  BY <1>1 DEF Known

\* What an uplink refers to has a number already.
LEMMA RefersBack ==
    ASSUME ListTyped, Numbered, NEW b \in Bucket, b.mrn # None, Refers(b)
    PROVE  b.mrn \in Nat /\ b.mrn < IF b.kind = "disregard" THEN uplinks ELSE min
<1>1. PICK i \in DOMAIN thr : \E k \in DOMAIN thr[i].talk :
        /\ thr[i].talk[k].min = b.mrn
        /\ IF b.kind = "disregard" THEN thr[i].talk[k].kind \in Timed ELSE thr[i].talk[k].sent
  BY Zenon DEF Refers
<1>2. PICK k \in DOMAIN thr[i].talk :
        /\ thr[i].talk[k].min = b.mrn
        /\ IF b.kind = "disregard" THEN thr[i].talk[k].kind \in Timed ELSE thr[i].talk[k].sent
  BY <1>1, Zenon
<1>3. PICK c \in Bucket : c = thr[i].talk[k]
  BY TalkDomain
<1>4. Known(c, min, uplinks)
  BY <1>3 DEF Numbered
<1>5. /\ c.min = b.mrn
      /\ IF b.kind = "disregard" THEN c.kind \in Timed ELSE c.sent
  BY <1>2, <1>3, Zenon
<1>6. b.mrn \in Nat
  BY <1>5, Zenon DEF Bucket
<1> QED
  BY <1>4, <1>5, <1>6 DEF Known, Timed, DownKinds

\* Numbered is inductive.
LEMMA NumberedStep ==
    ASSUME ListTyped, Grown, Numbered
    PROVE  Numbered'
<1>0. /\ min \in Nat /\ min' \in Nat /\ uplinks \in Nat /\ uplinks' \in Nat
      /\ min <= min' /\ uplinks <= uplinks'
  BY MsgListAssumption DEF Grown, ListTyped
<1>1. ASSUME NEW i \in DOMAIN thr', NEW k \in DOMAIN thr'[i].talk
      PROVE  Known(thr'[i].talk[k], min', uplinks')
  <2>1. PICK b : b = thr'[i].talk[k]
    OBVIOUS
  <2>2. CASE Stayed(i, k)
    <3>1. b \in Bucket /\ Known(b, min, uplinks)
      BY <2>1, <2>2, TalkDomain DEF Stayed, Numbered
    <3> QED
      BY <1>0, <2>1, <3>1, KnownLater, Zenon
  <2>3. CASE Fresh(i, k)
    <3>1. b \in Bucket /\ (Sends(i, b) \/ Gets(i, b))
      BY <2>1, <2>3, Zenon DEF Fresh
    <3>2. CASE Sends(i, b)
      BY <1>0, <2>1, <3>2, ZenonT(30) DEF Sends, Known
    <3>3. CASE Gets(i, b)
      <4>1. b.mrn # None => b.mrn \in Nat /\ b.mrn < IF b.kind = "disregard" THEN uplinks ELSE min
        BY <3>1, <3>3, RefersBack, Zenon DEF Gets
      <4> QED
        BY <1>0, <2>1, <3>3, <4>1, SMTT(30) DEF Gets, Known
    <3> QED
      BY <3>1, <3>2, <3>3
  <2> QED
    BY <2>2, <2>3, FreshOrStayed
<1> QED
  BY <1>1 DEF Numbered, Known

\* A message that is put into a thread is not one that an earlier uplink refers to.
LEMMA MatchesBack ==
    ASSUME ListTyped, Grown, NEW b \in Bucket, ~b.sent, b.mrn \in Nat,
           b.mrn < IF b.kind = "disregard" THEN uplinks ELSE min,
           NEW j \in DOMAIN thr', Matches(b, thr'[j])
    PROVE  j \in DOMAIN thr /\ Matches(b, thr[j])
<1>1. PICK k \in DOMAIN thr'[j].talk : msg_matches_bucket(b, thr'[j].talk[k])
  BY DEF Matches
<1>2. CASE Stayed(j, k)
  BY <1>1, <1>2, Zenon DEF Stayed, Matches
<1>3. CASE Fresh(j, k)
  <2>1. PICK c \in Bucket : c = thr'[j].talk[k]
    BY <1>3, Zenon DEF Fresh
  <2>2. (Sends(j, c) \/ Gets(j, c)) /\ c.min = b.mrn /\ (c.sent <=> b.kind # "disregard")
    BY <1>1, <1>3, <2>1, Zenon DEF Fresh, msg_matches_bucket
  <2>3. min \in Nat /\ uplinks \in Nat /\ c.min \in Nat
    BY MsgListAssumption, SMTT(30) DEF ListTyped, Bucket
  <2>4. CASE Sends(j, c)
    BY <2>2, <2>3, <2>4, SMTT(30) DEF Sends
  <2>5. CASE Gets(j, c)
    BY <2>2, <2>3, <2>5, SMTT(30) DEF Gets
  <2> QED
    BY <2>2, <2>4, <2>5, Zenon
<1> QED
  BY <1>2, <1>3, FreshOrStayed

\* A thread keeps what an uplink refers to.
LEMMA MatchesStay ==
    ASSUME ListTyped, Grown, NEW b, NEW j \in DOMAIN thr, Matches(b, thr[j])
    PROVE  j \in DOMAIN thr' /\ Matches(b, thr'[j])
<1>1. PICK k \in DOMAIN thr[j].talk : msg_matches_bucket(b, thr[j].talk[k])
  BY ZenonT(30) DEF Matches
<1> QED
  BY <1>1, AllStay DEF Matches

\* The uplink b, message k of thread i, is where it belongs.
Placed(b, i, k) ==
    IF k > 1 THEN Matches(b, thr[i])
    ELSE \A j \in 1 .. i - 1 : Matches(b, thr[j]) => thr[j].status = "CLOSED"

\* Every uplink that refers to a message is where it belongs.
AllPlaced ==
    \A i \in DOMAIN thr : \A k \in DOMAIN thr[i].talk :
       ~thr[i].talk[k].sent /\ thr[i].talk[k].mrn # None => Placed(thr[i].talk[k], i, k)

\* AllPlaced is inductive.
LEMMA PlacedStep ==
    ASSUME ListTyped, Grown, Numbered, AllPlaced
    PROVE  AllPlaced'
<1>0. /\ Len(thr) \in Nat /\ DOMAIN thr = 1 .. Len(thr)
      /\ Len(thr') \in Nat /\ DOMAIN thr' = 1 .. Len(thr')
  BY ListDomain DEF Grown, ListTyped
<1>1. ASSUME NEW b \in Bucket, ~b.sent, b.mrn \in Nat,
             b.mrn < IF b.kind = "disregard" THEN uplinks ELSE min,
             NEW i \in DOMAIN thr',
             \A j \in DOMAIN thr : j < i /\ Matches(b, thr[j]) => thr[j].status = "CLOSED"
      PROVE  \A j \in 1 .. i - 1 : Matches(b, thr'[j]) => thr'[j].status = "CLOSED"
  <2>1. SUFFICES ASSUME NEW j \in 1 .. i - 1, Matches(b, thr'[j])
                 PROVE  thr'[j].status = "CLOSED"
    OBVIOUS
  <2>2. j \in DOMAIN thr' /\ j < i
    BY <1>0, SMTT(30)
  <2>3. j \in DOMAIN thr /\ Matches(b, thr[j])
    BY <1>1, <2>1, <2>2, MatchesBack, Zenon
  <2>4. thr[j].status = "CLOSED"
    BY <1>1, <2>2, <2>3, Zenon
  <2> QED
    BY <2>3, <2>4, AllStay, Zenon DEF Final
<1>2. ASSUME NEW i \in DOMAIN thr', NEW k \in DOMAIN thr'[i].talk,
             ~thr'[i].talk[k].sent, thr'[i].talk[k].mrn # None
      PROVE  IF k > 1 THEN Matches(thr'[i].talk[k], thr'[i])
             ELSE \A j \in 1 .. i - 1 :
                    Matches(thr'[i].talk[k], thr'[j]) => thr'[j].status = "CLOSED"
  <2>1. PICK b : b = thr'[i].talk[k]
    OBVIOUS
  <2>2. ~b.sent /\ b.mrn # None
    BY <1>2, <2>1, Zenon
  <2>3. CASE Stayed(i, k)
    <3>1. i \in DOMAIN thr /\ k \in DOMAIN thr[i].talk /\ b = thr[i].talk[k] /\ b \in Bucket
      BY <2>1, <2>3, TalkDomain, Zenon DEF Stayed
    <3>2. Placed(b, i, k) /\ Known(b, min, uplinks)
      BY <2>2, <3>1, Zenon DEF AllPlaced, Numbered
    <3>3. b.mrn \in Nat /\ b.mrn < IF b.kind = "disregard" THEN uplinks ELSE min
      BY <2>2, <3>1, <3>2, Zenon DEF Known, Bucket
    <3>4. CASE k > 1
      BY <2>1, <3>1, <3>2, <3>4, MatchesStay, Zenon DEF Placed
    <3>5. CASE ~(k > 1)
      <4>1. \A j \in DOMAIN thr : j < i /\ Matches(b, thr[j]) => thr[j].status = "CLOSED"
        BY <1>0, <3>2, <3>5, SMTT(30) DEF Placed
      <4> QED
        BY <1>1, <2>1, <2>2, <3>1, <3>3, <3>5, <4>1, Zenon
    <3> QED
      BY <3>4, <3>5
  <2>4. CASE Fresh(i, k)
    <3>1. b \in Bucket /\ Gets(i, b) /\ k = Len(Old(i).talk) + 1
      BY <2>1, <2>2, <2>4, Zenon DEF Fresh, Sends
    <3>2. b.mrn \in Nat /\ b.mrn < IF b.kind = "disregard" THEN uplinks ELSE min
      BY <2>2, <3>1, RefersBack, Zenon DEF Gets
    <3>3. CASE i \in DOMAIN thr
      <4>1. Matches(b, thr[i]) /\ Len(thr[i].talk) \in Nat /\ k = Len(thr[i].talk) + 1
            /\ DOMAIN thr[i].talk = 1 .. Len(thr[i].talk)
        BY <2>2, <3>1, <3>3, TalkDomain, Zenon DEF Gets, Old
      <4>2. k > 1
        BY <4>1, SMTT(30) DEF Matches
      <4> QED
        BY <2>1, <3>3, <4>1, <4>2, MatchesStay, Zenon
    <3>4. CASE i \notin DOMAIN thr
      <4>1. k = 1
        BY <3>1, <3>4, NewTyped, SMTT(30) DEF Old
      <4>2. \A j \in DOMAIN thr : Matches(b, thr[j]) => thr[j].status = "CLOSED"
        BY <2>2, <3>1, <3>4, Zenon DEF Gets
      <4> QED
        BY <1>1, <2>1, <2>2, <3>1, <3>2, <4>1, <4>2, SMTT(30)
    <3> QED
      BY <3>3, <3>4, Zenon
  <2> QED
    BY <2>3, <2>4, FreshOrStayed
<1> QED
  BY <1>2, Zenon DEF AllPlaced, Placed, Matches, msg_matches_bucket

\* The list of reports and the place in it.
DueTyped ==
    /\ due \in Seq(Report) /\ at \in 0..Len(due) + 1
    /\ step # "walk" => at = 0
    /\ sel = None \/ sel \in Nat \X Nat

\* Reports have left the list, or their fields other than their origin have changed.
Thinned ==
    \E f : \A n \in DOMAIN due' :
       /\ f[n] \in DOMAIN due /\ due'[n].of = due[f[n]].of
       /\ \A m \in DOMAIN due' : f[m] = f[n] => m = n

\* The report whose origin is o is in the list.
IsDue(o) == \E n \in DOMAIN due : due[n].of = o

\* The places of the list of reports and what is there.
LEMMA DueDomain ==
    ASSUME DueTyped
    PROVE  /\ due \in Seq(Report) /\ Len(due) \in Nat /\ DOMAIN due = 1 .. Len(due)
           /\ \A n \in DOMAIN due : due[n] \in Report /\ due[n].of \in Nat \X Nat
<1>1. due \in Seq(Report) /\ Len(due) \in Nat /\ DOMAIN due = 1 .. Len(due)
  BY DEF DueTyped
<1>2. \A n \in DOMAIN due : due[n] \in Report
  BY <1>1
<1>3. \A r \in Report : r.of \in Nat \X Nat
  BY DEF Report
<1> QED
  BY <1>1, <1>2, <1>3, Zenon

\* A report leaves the list.
LEMMA RemovalThins ==
    ASSUME DueTyped, NEW p \in DOMAIN due, due' = RemoveAt(due, p)
    PROVE  /\ Thinned /\ due' \in Seq(Report) /\ Len(due') = Len(due) - 1
           /\ \A n \in DOMAIN due : n # p => \E m \in DOMAIN due' : due'[m].of = due[n].of
<1>1. /\ due' \in Seq(Report) /\ DOMAIN due' = 1 .. Len(due) - 1
      /\ LacksAt(due, p, due')
  BY DueDomain, RemoveAtPlaces, Zenon
<1>2. Len(due') = Len(due) - 1
  BY <1>1, DueDomain, RemoveAtFacts, Zenon
<1>3. /\ DOMAIN due' \subseteq Nat
      /\ \A n \in DOMAIN due' : /\ Shifted(p, n) \in DOMAIN due
                                /\ due'[n] = due[Shifted(p, n)]
      /\ \A m, n \in DOMAIN due' : m < n <=> Shifted(p, m) < Shifted(p, n)
      /\ \A k \in DOMAIN due : k # p => \E n \in DOMAIN due' : Shifted(p, n) = k
  BY <1>1, Zenon DEF LacksAt
<1>4. PICK f : f = [n \in DOMAIN due' |-> Shifted(p, n)]
  BY Zenon
<1>5. \A n \in DOMAIN due' : f[n] = Shifted(p, n)
  BY <1>4
<1>6. \A n \in DOMAIN due' : f[n] \in DOMAIN due /\ due'[n].of = due[f[n]].of
  BY <1>3, <1>5
<1>7. ASSUME NEW n \in DOMAIN due', NEW m \in DOMAIN due', f[m] = f[n]
      PROVE  m = n
  <2>1. m \in Nat /\ n \in Nat /\ ~(m < n) /\ ~(n < m)
    <3>1. f[m] \in Nat /\ f[n] \in Nat
      BY <1>6, <1>7, DueDomain, SMTT(30)
    <3> QED
      BY <1>3, <1>5, <1>7, <3>1, SMTT(30)
  <2> QED
    BY <2>1
<1>8. Thinned
  BY <1>6, <1>7, ZenonT(30) DEF Thinned
<1>9. \A n \in DOMAIN due : n # p => \E m \in DOMAIN due' : due'[m].of = due[n].of
  BY <1>3
<1> QED
  BY <1>1, <1>2, <1>8, <1>9, Zenon

\* A report with its other field changed.
LEMMA ArmingThins ==
    ASSUME DueTyped, NEW p \in DOMAIN due, NEW a \in BOOLEAN,
           due' = [due EXCEPT ![p].armed = a]
    PROVE  /\ Thinned /\ due' \in Seq(Report) /\ Len(due') = Len(due)
           /\ DOMAIN due' = DOMAIN due
           /\ \A n \in DOMAIN due : due'[n].of = due[n].of
<1>1. PICK r : r = [due[p] EXCEPT !.armed = a]
  OBVIOUS
<1>2. due' = [due EXCEPT ![p] = r]
  BY <1>1
<1>3. PICK q \in Report : q = due[p]
  BY DueDomain
<1>4. q = [of |-> q.of, armed |-> q.armed] /\ q.of \in Nat \X Nat
  BY DEF Report
<1>5. r = [of |-> q.of, armed |-> a]
  BY <1>1, <1>3, <1>4, Zenon
<1>6. r \in Report /\ r.of = due[p].of
  BY <1>3, <1>4, <1>5 DEF Report
<1>7. due \in Seq(Report) /\ p \in 1 .. Len(due) /\ Len(due) \in Nat
  BY DueDomain
<1>8. due' \in Seq(Report) /\ Len(due') = Len(due) /\ DOMAIN due' = DOMAIN due
  BY <1>2, <1>6, <1>7, SMTT(30)
<1>9. \A n \in DOMAIN due : due'[n].of = due[n].of
  BY <1>2, <1>6, <1>7, Zenon
<1>10. Thinned
  <2>1. PICK f : f = [n \in DOMAIN due |-> n]
    BY Zenon
  <2>2. \A n \in DOMAIN due' : f[n] = n
    BY <1>8, <2>1
  <2>3. \A n \in DOMAIN due' : f[n] \in DOMAIN due /\ due'[n].of = due[f[n]].of
    BY <1>8, <1>9, <2>2
  <2>4. \A m, n \in DOMAIN due' : f[m] = f[n] => m = n
    BY <2>2
  <2> QED
    BY <2>3, <2>4 DEF Thinned
<1> QED
  BY <1>8, <1>9, <1>10, Zenon

\* The list stays as it is.
LEMMA SameThins ==
    ASSUME due' = due
    PROVE  Thinned
<1>1. PICK f : f = [n \in DOMAIN due |-> n]
  BY Zenon
<1> QED
  BY <1>1 DEF Thinned

\* The reports added when an uplink is accepted: those the thread asks for, each once.
Added ==
    /\ due' \in Seq(Report) /\ Len(due) <= Len(due')
    /\ \A n \in DOMAIN due : n \in DOMAIN due' /\ due'[n] = due[n]
    /\ \A n \in DOMAIN due' : n \notin DOMAIN due =>
         /\ due'[n].of[1] = cur
         /\ due'[n].of[2] \in DOMAIN thr[cur].talk
         /\ \A m \in DOMAIN due' : m \notin DOMAIN due /\ due'[m].of = due'[n].of => m = n

\* fans_reports_generate adds what the thread asks for.
LEMMA GenerateAdds ==
    ASSUME ListTyped, DueTyped, cur \in DOMAIN thr, fans_reports_generate
    PROVE  Added
<1>1. PICK talk : talk = thr[cur].talk
  OBVIOUS
<1>2. talk \in Seq(Bucket) /\ Len(talk) \in Nat /\ DOMAIN talk = 1 .. Len(talk)
  BY <1>1, TalkDomain
<1>3. PICK s : s = [k \in DOMAIN talk |-> k]
  BY Zenon
<1>4. PICK I : I = {k \in DOMAIN talk : talk[k].kind = "rep"}
  BY Zenon
<1>5. PICK asks : asks = Chosen(s, I)
  OBVIOUS
<1>6. PICK new : new = [n \in DOMAIN asks |-> [of |-> <<cur, asks[n]>>, armed |-> TRUE]]
  BY Zenon
<1>7. due' = due \o new
  BY <1>1, <1>3, <1>4, <1>5, <1>6, Zenon DEF fans_reports_generate
<1>8. s \in Seq(1 .. Len(talk)) /\ IsInjective(s)
  BY <1>2, <1>3 DEF IsInjective
<1>9. asks \in Seq(1 .. Len(talk)) /\ IsInjective(asks)
  BY <1>5, <1>8, ChosenFacts, Zenon
<1>10. /\ Len(asks) \in Nat /\ DOMAIN asks = 1 .. Len(asks)
       /\ \A n \in 1 .. Len(asks) : asks[n] \in 1 .. Len(talk)
  BY <1>9
<1>11. ASSUME NEW n \in 1 .. Len(asks)
       PROVE  [of |-> <<cur, asks[n]>>, armed |-> TRUE] \in Report
  <2>1. cur \in Nat /\ asks[n] \in Nat
    BY <1>2, <1>10, ListDomain, SMTT(30)
  <2>2. <<cur, asks[n]>> \in Nat \X Nat
    BY <2>1
  <2> QED
    BY <2>2, Zenon DEF Report
<1>12. new \in Seq(Report) /\ Len(new) = Len(asks) /\ DOMAIN new = 1 .. Len(asks)
  BY <1>6, <1>10, <1>11, SMTT(30)
<1>13. ASSUME NEW n \in 1 .. Len(new)
       PROVE  new[n].of[1] = cur /\ new[n].of[2] = asks[n]
  <2>1. new[n] = [of |-> <<cur, asks[n]>>, armed |-> TRUE]
    BY <1>6, <1>10, <1>12, Zenon
  <2>2. new[n].of = <<cur, asks[n]>>
    BY <2>1
  <2> QED
    BY <2>2
<1>14. due \in Seq(Report) /\ Len(due) \in Nat /\ DOMAIN due = 1 .. Len(due)
  BY DueDomain, Zenon
<1>15. /\ due' \in Seq(Report) /\ Len(due') = Len(due) + Len(asks)
       /\ \A n \in 1 .. Len(due) : due'[n] = due[n]
       /\ \A n \in 1 .. Len(new) : due'[Len(due) + n] = new[n]
  <2>1. /\ due' \in Seq(Report) /\ Len(due') = Len(due) + Len(new)
        /\ \A i \in 1 .. Len(due) + Len(new) :
             due'[i] = IF i <= Len(due) THEN due[i] ELSE new[i - Len(due)]
    BY <1>7, <1>12, <1>14, ConcatPlaces, ZenonT(30)
  <2>2. Len(new) \in Nat
    BY <1>10, <1>12
  <2>3. \A n \in 1 .. Len(due) : n \in 1 .. Len(due) + Len(new) /\ n <= Len(due)
    BY <1>14, <2>2
  <2>4. \A n \in 1 .. Len(new) :
          /\ Len(due) + n \in 1 .. Len(due) + Len(new)
          /\ ~(Len(due) + n <= Len(due)) /\ (Len(due) + n) - Len(due) = n
    BY <1>14, <2>2
  <2>5. \A n \in 1 .. Len(due) : due'[n] = due[n]
    BY <2>1, <2>3
  <2>6. ASSUME NEW n \in 1 .. Len(new) PROVE due'[Len(due) + n] = new[n]
    <3>1. PICK i : i = Len(due) + n
      OBVIOUS
    <3>2. i \in 1 .. Len(due) + Len(new) /\ ~(i <= Len(due)) /\ i - Len(due) = n
      BY <2>4, <3>1
    <3> QED
      BY <2>1, <3>1, <3>2
  <2> QED
    BY <1>12, <2>1, <2>5, <2>6, Zenon
<1>16. DOMAIN due' = 1 .. Len(due) + Len(asks)
  BY <1>15
<1>17. ASSUME NEW n \in DOMAIN due', n \notin DOMAIN due
       PROVE  /\ n - Len(due) \in 1 .. Len(asks)
              /\ due'[n].of[1] = cur /\ due'[n].of[2] = asks[n - Len(due)]
  <2>1. n - Len(due) \in 1 .. Len(asks) /\ n = Len(due) + (n - Len(due))
    BY <1>10, <1>14, <1>16, <1>17, SMTT(30)
  <2>2. due'[n] = new[n - Len(due)]
    BY <1>12, <1>15, <2>1, Zenon
  <2> QED
    BY <1>12, <1>13, <2>1, <2>2, Zenon
<1>18. ASSUME NEW n \in DOMAIN due', n \notin DOMAIN due,
              NEW m \in DOMAIN due', m \notin DOMAIN due,
              due'[m].of = due'[n].of
       PROVE  m = n
  <2>1. asks[m - Len(due)] = asks[n - Len(due)]
    BY <1>17, <1>18, Zenon
  <2>2. m - Len(due) = n - Len(due)
    BY <1>9, <1>10, <1>17, <1>18, <2>1, Zenon DEF IsInjective
  <2> QED
    BY <1>14, <1>16, <2>2, SMTT(30)
<1>19. \A n \in DOMAIN due : n \in DOMAIN due' /\ due'[n] = due[n]
  BY <1>10, <1>14, <1>15, <1>16, SMTT(30)
<1>20. Len(due) <= Len(due')
  BY <1>10, <1>14, <1>15, SMTT(30)
<1>21. ASSUME NEW n \in DOMAIN due', n \notin DOMAIN due
       PROVE  due'[n].of[1] = cur /\ due'[n].of[2] \in DOMAIN thr[cur].talk
  BY <1>1, <1>2, <1>10, <1>17, <1>21, Zenon
<1> QED
  BY <1>15, <1>18, <1>19, <1>20, <1>21, Zenon DEF Added

\* What a step does to the list of reports.
DueTurned ==
    \/ Thinned
    \/ Added /\ step = "generate" /\ step' = "answer" /\ cur' = cur /\ answer' = answer

\* The report selected is one of the list.
SelStays == (sel = None \/ IsDue(sel)) => (sel' = None \/ \E n \in DOMAIN due' : due'[n].of = sel')

\* What every step does to the list of reports.
LEMMA DueStep ==
    ASSUME ListTyped, Control, DueTyped, [Next]_vars
    PROVE  DueTyped' /\ DueTurned /\ SelStays
<1>0. /\ due \in Seq(Report) /\ Len(due) \in Nat /\ DOMAIN due = 1 .. Len(due)
      /\ \A n \in DOMAIN due : due[n] \in Report /\ due[n].of \in Nat \X Nat
  BY DueDomain
<1>1. ASSUME due' = due, sel' = sel, at' = at, step' # "walk" => at = 0
      PROVE  DueTyped' /\ DueTurned /\ SelStays
  BY <1>1, SameThins, Zenon DEF DueTyped, DueTurned, SelStays, IsDue
<1>2. CASE fans_reports_generate
  <2>1. /\ step = "generate" /\ step' = "answer" /\ UNCHANGED <<cur, answer, at, sel>>
    BY <1>2, Zenon DEF fans_reports_generate
  <2>2. cur \in DOMAIN thr
    BY <2>1, ListDomain DEF Control
  <2>3. Added
    BY <1>2, <2>2, GenerateAdds, Zenon
  <2>4. Len(due') \in Nat
    BY <2>3 DEF Added
  <2>5. at' = 0 /\ at' \in 0 .. Len(due') + 1
    BY <2>1, <2>4 DEF DueTyped
  <2> QED
    BY <2>1, <2>3, <2>5, Zenon DEF DueTyped, DueTurned, SelStays, IsDue, Added
<1>3. CASE ArmReport
  <2>1. /\ step' = "update" /\ step = "idle" /\ UNCHANGED <<at, sel>>
        /\ \E k \in DOMAIN due : due' = [due EXCEPT ![k].armed = ~due[k].armed]
    BY <1>3, Zenon DEF ArmReport
  <2>2. PICK k \in DOMAIN due : due' = [due EXCEPT ![k].armed = ~due[k].armed]
    BY <2>1, Zenon
  <2>3. PICK a \in BOOLEAN : a = ~due[k].armed
    BY Zenon
  <2>4. due' = [due EXCEPT ![k].armed = a]
    BY <2>2, <2>3
  <2>5. /\ Thinned /\ due' \in Seq(Report) /\ Len(due') = Len(due)
        /\ DOMAIN due' = DOMAIN due
        /\ \A n \in DOMAIN due : due'[n].of = due[n].of
    BY <2>4, ArmingThins, Zenon
  <2> QED
    BY <2>1, <2>5 DEF DueTyped, DueTurned, SelStays, IsDue
<1>4. CASE PassReport
  <2>1. /\ step' = "walk" /\ at' = at + 1 /\ sel' = sel /\ at \in DOMAIN due
        /\ \E a \in {due[at].armed, FALSE} : due' = [due EXCEPT ![at].armed = a]
    BY <1>4, Zenon DEF PassReport
  <2>2. PICK a \in {due[at].armed, FALSE} : due' = [due EXCEPT ![at].armed = a]
    BY <2>1, Zenon
  <2>3. a \in BOOLEAN
    BY <1>0, <2>1, <2>2, Zenon DEF Report
  <2>5. /\ Thinned /\ due' \in Seq(Report) /\ Len(due') = Len(due)
        /\ DOMAIN due' = DOMAIN due
        /\ \A n \in DOMAIN due : due'[n].of = due[n].of
    BY <2>1, <2>2, <2>3, ArmingThins, Zenon
  <2>6. at' \in 0 .. Len(due') + 1
    BY <1>0, <2>1, <2>5, SMTT(30)
  <2> QED
    BY <2>1, <2>5, <2>6, Zenon DEF DueTyped, DueTurned, SelStays, IsDue
<1>5. CASE SendReport
  <2>1. /\ step' = "update" /\ step = "idle" /\ at' = at /\ sel' = None
        /\ \E k \in DOMAIN due : due' = RemoveAt(due, k)
    BY <1>5 DEF SendReport, Without
  <2>2. PICK k \in DOMAIN due : due' = RemoveAt(due, k)
    BY <2>1
  <2>3. Thinned /\ due' \in Seq(Report)
    BY <2>2, RemovalThins
  <2>4. at' = 0 /\ at' \in 0 .. Len(due') + 1
    <3>1. Len(due') \in Nat /\ at = 0
      BY <2>1, <2>3, SMTT(30) DEF DueTyped
    <3> QED
      BY <2>1, <3>1
  <2> QED
    BY <2>1, <2>3, <2>4 DEF DueTyped, DueTurned, SelStays
<1>6. CASE report_update
  <2>1. /\ step' = "walk" /\ at' = at /\ sel' = IF sel = due[at].of THEN None ELSE sel
        /\ at \in DOMAIN due /\ due' = RemoveAt(due, at)
    BY <1>6, Zenon DEF report_update
  <2>2. /\ Thinned /\ due' \in Seq(Report) /\ Len(due') = Len(due) - 1
        /\ \A n \in DOMAIN due : n # at => \E m \in DOMAIN due' : due'[m].of = due[n].of
    BY <2>1, RemovalThins, Zenon
  <2>3. at' \in 0 .. Len(due') + 1
    BY <1>0, <2>1, <2>2, SMTT(30)
  <2>4. SelStays
    BY <2>1, <2>2, Zenon DEF SelStays, IsDue
  <2> QED
    BY <2>1, <2>2, <2>3, <2>4, Zenon DEF DueTyped, DueTurned
<1>7. CASE DropReports
  <2>1. /\ step' = "idle" /\ at' = at /\ sel' = None /\ due' = <<>> /\ step = "reports"
    BY <1>7 DEF DropReports
  <2>2. Thinned
    BY <2>1 DEF Thinned
  <2>3. due' \in Seq(Report) /\ Len(due') = 0
    BY <2>1
  <2>4. at = 0
    BY <2>1 DEF DueTyped
  <2>5. at' = 0 /\ at' \in 0 .. Len(due') + 1
    BY <2>1, <2>3, <2>4, SMTT(30)
  <2> QED
    BY <2>1, <2>2, <2>3, <2>5, Zenon DEF DueTyped, DueTurned, SelStays
<1>8. CASE BeginReports
  <2>1. /\ due' = due /\ sel' = sel
        /\ (due = <<>> /\ step' = "idle" /\ at' = 0) \/ (due # <<>> /\ step' = "walk" /\ at' = 1)
    BY <1>8 DEF BeginReports
  <2>2. at' \in 0 .. Len(due') + 1 /\ (step' # "walk" => at' = 0)
    BY <1>0, <2>1, SMTT(30)
  <2> QED
    BY <2>1, <2>2, SameThins, Zenon DEF DueTyped, DueTurned, SelStays, IsDue
<1>9. CASE EndReports
  <2>1. due' = due /\ sel' = sel /\ step' = "idle" /\ at' = 0
    BY <1>9 DEF EndReports
  <2>2. at' \in 0 .. Len(due') + 1
    BY <1>0, <2>1, SMTT(30)
  <2> QED
    BY <2>1, <2>2, SameThins, Zenon DEF DueTyped, DueTurned, SelStays, IsDue
<1>10. CASE ShowReport
  <2>1. /\ due' = due /\ step' = "update" /\ at' = at /\ step = "idle"
        /\ \E k \in DOMAIN due : sel' = due[k].of
    BY <1>10 DEF ShowReport
  <2>2. PICK k \in DOMAIN due : sel' = due[k].of
    BY <2>1
  <2>3. sel' \in Nat \X Nat
    BY <1>0, <2>2, Zenon
  <2> QED
    BY <2>1, <2>2, <2>3, SameThins, Zenon DEF DueTyped, DueTurned, SelStays
<1>11. CASE send_quick_resp \/ CloseRequest \/ Update \/ MarkSeen \/ ReadThread
  <2>1. step # "walk" /\ step' # "walk" /\ UNCHANGED <<due, at, sel>>
    BY <1>11 DEF send_quick_resp, CloseRequest, Update, MarkSeen, ReadThread
  <2> QED
    BY <1>1, <2>1 DEF DueTyped
<1>12. CASE (\E i \in DOMAIN thr : ShowThread(i)) \/ TurnPage \/ PressAccept \/ PressStandby
  <2>1. step # "walk" /\ UNCHANGED <<due, at, sel>>
    BY <1>12, Zenon DEF ShowThread, TurnPage, Turn, PressAccept, PressStandby
  <2> QED
    BY <1>1, <2>1, Zenon DEF DueTyped
<1>13. CASE fans_rej \/ SendReject \/ SendRequest
  <2>1. step # "walk" /\ UNCHANGED <<due, at, sel>>
    BY <1>13 DEF fans_rej, Turn, SendReject, SendRequest
  <2> QED
    BY <1>1, <2>1 DEF DueTyped
<1>14. CASE Receive \/ (\E i \in DOMAIN thr : Time(i)) \/ UNCHANGED vars \/ Link
  <2>1. UNCHANGED <<due, at, sel, step>>
    BY <1>14 DEF Receive, Time, vars, boxVars, Link
  <2> QED
    BY <1>1, <2>1 DEF DueTyped
<1> QED
  BY <1>2, <1>3, <1>4, <1>5, <1>6, <1>7, <1>8, <1>9, <1>10, <1>11, <1>12, <1>13, <1>14, Zenon
     DEF Next, BoxWorks, Keys

-----------------------------------------------------------------------------

\* The pilot has decided to accept in thread i, and the box is about to send it.
Accepting(i) == step = "answer" /\ cur = i /\ answer \in {"accept", "roger"}

\* The uplink o was accepted.
Accepted(o) ==
    \E k \in DOMAIN thr[o[1]].talk :
       /\ k > o[2] /\ thr[o[1]].talk[k].sent
       /\ thr[o[1]].talk[k].kind \in {"accept", "roger"}

\* What makes a report due.
Founded(o) ==
    /\ o[1] \in DOMAIN thr /\ o[2] \in DOMAIN thr[o[1]].talk
    /\ Accepting(o[1]) \/ Accepted(o)

\* Every report in the list is founded and is there once.
Reports ==
    /\ \A n \in DOMAIN due : Founded(due[n].of)
    /\ \A n, m \in DOMAIN due : due[n].of = due[m].of => n = m

\* The box that is about to answer goes on to do so.
LEMMA AnswerStep ==
    ASSUME step = "answer", [Next]_vars
    PROVE  \/ send_quick_resp
           \/ step' = step /\ cur' = cur /\ answer' = answer
<1>1. CASE BoxWorks
  BY <1>1 DEF BoxWorks, fans_reports_generate, ReadThread, CloseRequest, Update, MarkSeen,
              DropReports, BeginReports, report_update, PassReport, EndReports
<1>2. CASE Keys
  BY <1>2 DEF Keys, ShowThread, TurnPage, ShowReport, PressAccept, PressStandby, fans_rej,
              SendReject, SendRequest, ArmReport, SendReport
<1>3. CASE Receive \/ (\E i \in DOMAIN thr : Time(i)) \/ UNCHANGED vars \/ Link
  BY <1>3, Zenon DEF Receive, Time, vars, boxVars, Link
<1> QED
  BY <1>1, <1>2, <1>3, Zenon DEF Next

\* What makes a report due stays true.
LEMMA FoundedStep ==
    ASSUME ListTyped, Control, Grown, [Next]_vars, NEW o, Founded(o)
    PROVE  Founded(o)'
<1>1. o[1] \in DOMAIN thr /\ o[2] \in DOMAIN thr[o[1]].talk
  BY DEF Founded
<1>2. PICK i : i = o[1]
  OBVIOUS
<1>3. PICK k : k = o[2]
  BY Zenon
<1>4. /\ i \in DOMAIN thr /\ k \in DOMAIN thr[i].talk
      /\ i \in DOMAIN thr'
      /\ \A l \in DOMAIN thr[i].talk :
           l \in DOMAIN thr'[i].talk /\ thr'[i].talk[l] = thr[i].talk[l]
  BY <1>1, <1>2, <1>3, AllStay, Zenon
<1>5. ASSUME NEW l \in DOMAIN thr'[i].talk, l > k, thr'[i].talk[l].sent,
             thr'[i].talk[l].kind \in {"accept", "roger"}
      PROVE  Founded(o)'
  BY <1>2, <1>3, <1>4, <1>5, Zenon DEF Founded, Accepted
<1>6. CASE Accepted(o)
  <2>1. PICK l \in DOMAIN thr[i].talk : /\ l > k /\ thr[i].talk[l].sent
                                        /\ thr[i].talk[l].kind \in {"accept", "roger"}
    BY <1>2, <1>3, <1>6, Zenon DEF Accepted
  <2> QED
    BY <1>4, <1>5, <2>1, Zenon
<1>7. CASE Accepting(o[1])
  <2>1. step = "answer" /\ cur = i /\ answer \in {"accept", "roger"}
    BY <1>2, <1>7, Zenon DEF Accepting
  <2>2. CASE send_quick_resp
    <3>1. Sent(answer, cur)
      BY <2>2, SendsTurn, Zenon
    <3>2. i # 0 /\ Len(thr[i].talk) \in Nat /\ DOMAIN thr[i].talk = 1 .. Len(thr[i].talk)
      BY <1>4, TalkDomain, ListDomain
    <3>3. PICK l : l = Len(thr[i].talk) + 1
      BY Zenon
    <3>4. /\ Len(thr'[i].talk) = l /\ thr'[i].talk[l].sent
          /\ thr'[i].talk[l].kind \in {"accept", "roger"}
      BY <2>1, <3>1, <3>2, <3>3, Zenon DEF Sent
    <3>5. DOMAIN thr'[i].talk = 1 .. l
      BY <1>4, <3>4, TalkDomainNext, Zenon
    <3>6. l \in DOMAIN thr'[i].talk /\ l > k
      BY <1>4, <3>2, <3>3, <3>5, SMTT(30)
    <3> QED
      BY <1>5, <3>4, <3>6
  <2>3. CASE step' = step /\ cur' = cur /\ answer' = answer
    BY <1>2, <1>3, <1>4, <2>1, <2>3, Zenon DEF Founded, Accepting
  <2> QED
    BY <2>1, <2>2, <2>3, AnswerStep, Zenon
<1> QED
  BY <1>6, <1>7, Zenon DEF Founded

\* Reports is inductive: an accepted thread asks for its reports once.
LEMMA ReportsStep ==
    ASSUME ListTyped, Control, Grown, [Next]_vars, DueTyped, Undecided, DueTurned, Reports
    PROVE  Reports'
<1>0. ASSUME NEW o, Founded(o) PROVE Founded(o)'
  BY <1>0, FoundedStep, Zenon
<1>1. ASSUME NEW n \in DOMAIN due', NEW o, o = due'[n].of, Founded(o)'
      PROVE  Founded(due[n].of)'
  BY <1>1, Zenon DEF Founded, Accepting, Accepted
<1>2. CASE Thinned
  <2>1. PICK f : \A n \in DOMAIN due' :
            /\ f[n] \in DOMAIN due /\ due'[n].of = due[f[n]].of
            /\ \A m \in DOMAIN due' : f[m] = f[n] => m = n
    BY <1>2 DEF Thinned
  <2>2. \A n, m \in DOMAIN due' : due'[n].of = due'[m].of => n = m
    BY <2>1 DEF Reports
  <2>3. ASSUME NEW n \in DOMAIN due' PROVE Founded(due[n].of)'
    <3>1. PICK o : o = due[f[n]].of
      BY Zenon
    <3>2. Founded(o) /\ o = due'[n].of
      BY <2>1, <3>1, Zenon DEF Reports
    <3> QED
      BY <1>0, <1>1, <3>2, Zenon
  <2> QED
    BY <2>2, <2>3, Zenon DEF Reports
<1>3. CASE Added /\ step = "generate" /\ step' = "answer" /\ cur' = cur /\ answer' = answer
  <2>1. answer \in {"accept", "roger"} /\ cur \in DOMAIN thr
    BY <1>3, ListDomain, SMTT(30) DEF Control
  <2>2. ASSUME NEW n \in DOMAIN due' PROVE Founded(due[n].of)'
    <3>1. PICK o : o = due'[n].of
      OBVIOUS
    <3>2. CASE n \in DOMAIN due
      <4>1. o = due[n].of /\ Founded(o)
        BY <1>3, <3>1, <3>2 DEF Added, Reports
      <4> QED
        BY <1>0, <1>1, <3>1, <4>1, Zenon
    <3>3. CASE n \notin DOMAIN due
      <4>1. o[1] = cur /\ o[2] \in DOMAIN thr[cur].talk
        BY <1>3, <3>1, <3>3, Zenon DEF Added
      <4>2. cur \in DOMAIN thr' /\ o[2] \in DOMAIN thr'[cur].talk
        BY <2>1, <4>1, AllStay, Zenon
      <4>3. Founded(o)'
        BY <1>3, <2>1, <4>1, <4>2, Zenon DEF Founded, Accepting
      <4> QED
        BY <1>1, <3>1, <4>3, Zenon
    <3> QED
      BY <3>2, <3>3
  <2>3. ASSUME NEW n \in DOMAIN due, NEW m \in DOMAIN due', m \notin DOMAIN due
        PROVE  due'[m].of # due[n].of
    <3>1. PICK o : o = due[n].of
      OBVIOUS
    <3>2. SUFFICES ASSUME o = due'[m].of PROVE FALSE
      BY <3>1, Zenon
    <3>3. Founded(o) /\ o[1] = cur
      BY <1>3, <2>3, <3>1, <3>2, ZenonT(30) DEF Added, Reports
    <3>4. Accepted(o)
      BY <1>3, <3>3, SMTT(30) DEF Founded, Accepting
    <3>5. PICK k \in DOMAIN thr[cur].talk : /\ thr[cur].talk[k].sent
                                            /\ thr[cur].talk[k].kind \in {"accept", "roger"}
      BY <3>3, <3>4, SMTT(30) DEF Accepted
    <3> QED
      BY <1>3, <2>1, <3>5, Zenon DEF Undecided, Deciding, IsVerdict, Verdicts
  <2>4. ASSUME NEW n \in DOMAIN due', NEW m \in DOMAIN due', due'[n].of = due'[m].of
        PROVE  n = m
    <3>1. CASE n \in DOMAIN due /\ m \in DOMAIN due
      BY <1>3, <2>4, <3>1, Zenon DEF Added, Reports
    <3>2. CASE n \notin DOMAIN due /\ m \notin DOMAIN due
      BY <1>3, <2>4, <3>2, Zenon DEF Added
    <3>3. CASE n \in DOMAIN due /\ m \notin DOMAIN due
      BY <1>3, <2>3, <2>4, <3>3, SMTT(30) DEF Added
    <3>4. CASE n \notin DOMAIN due /\ m \in DOMAIN due
      BY <1>3, <2>3, <2>4, <3>4, SMTT(30) DEF Added
    <3> QED
      BY <3>1, <3>2, <3>3, <3>4, SMTT(30)
  <2> QED
    BY <2>2, <2>4, Zenon DEF Reports
<1> QED
  BY <1>2, <1>3 DEF DueTurned

\* No thread is missed.
NoneMissed == \A i \in DOMAIN thr : ~Missed(i)

\* The inductive invariant.
IInv ==
    /\ ListTyped /\ Control /\ Settled /\ Undecided /\ NoneMissed
    /\ Numbered /\ AllPlaced /\ DueTyped /\ Reports /\ SelectedIsDue

\* The inductive invariant holds initially.
LEMMA InvInit == Init => IInv
<1>1. SUFFICES ASSUME Init PROVE IInv
  OBVIOUS
<1>2. /\ thr = <<>> /\ min = 0 /\ uplinks = 0 /\ online = TRUE
      /\ page = "menu" /\ cur = 0 /\ step = "idle" /\ answer = None
      /\ due = <<>> /\ at = 0 /\ sel = None
      /\ left = [keys |-> MaxKeys, changes |-> MaxChanges]
  BY <1>1 DEF Init, ListInit
<1>3. ListTyped
  BY <1>2, MsgListAssumption, SMTT(30) DEF ListTyped
<1>4. Control
  BY <1>2, FansBoxAssumption DEF Control, Pages, Steps
<1>5. DueTyped
  BY <1>2 DEF DueTyped
<1>6. DOMAIN thr = {} /\ DOMAIN due = {}
  BY <1>2
<1>7. Settled /\ NoneMissed /\ Numbered /\ AllPlaced /\ Reports
  BY <1>6, Zenon DEF Settled, NoneMissed, Numbered, AllPlaced, Reports
<1>8. Undecided /\ SelectedIsDue
  BY <1>2 DEF Undecided, Deciding, SelectedIsDue
<1> QED
  BY <1>3, <1>4, <1>5, <1>7, <1>8, Zenon DEF IInv

\* Every step keeps the inductive invariant.
LEMMA InvStep == IInv /\ [Next]_vars => IInv' /\ Grown
<1>1. SUFFICES ASSUME IInv, [Next]_vars PROVE IInv' /\ Grown
  OBVIOUS
<1>2. /\ ListTyped /\ Control /\ Settled /\ Undecided /\ NoneMissed
      /\ Numbered /\ AllPlaced /\ DueTyped /\ Reports /\ SelectedIsDue
  BY <1>1 DEF IInv
<1>3. Grown
  BY <1>1, <1>2, StepGrows
<1>4. ListTyped'
  BY <1>3 DEF Grown
<1>5. Control'
  BY <1>1, <1>2, <1>3, ControlStep, SMTT(30)
<1>6. Settled'
  BY <1>2, <1>3, SettledStep
<1>7. Undecided'
  BY <1>1, <1>2, <1>3, <1>5, UndecidedStep, ZenonT(30)
<1>8. NoneMissed'
  <2>1. \A i \in DOMAIN thr' : Noticed(thr'[i]) \/ (step' = "read" /\ cur' = i)
    BY <1>1, <1>2, <1>3, NoticedStep, Zenon DEF NoneMissed
  <2> QED
    BY <2>1 DEF NoneMissed, Missed, Noticed
<1>9. Numbered'
  BY <1>2, <1>3, NumberedStep, Zenon
<1>10. AllPlaced'
  BY <1>2, <1>3, PlacedStep
<1>11. DueTyped' /\ DueTurned /\ SelStays
  BY <1>1, <1>2, DueStep, Zenon
<1>12. Reports'
  BY <1>1, <1>2, <1>3, <1>11, ReportsStep, Zenon
<1>13. SelectedIsDue'
  BY <1>2, <1>11 DEF SelectedIsDue, SelStays, IsDue
<1> QED
  BY <1>3, <1>4, <1>5, <1>6, <1>7, <1>8, <1>9, <1>10, <1>11, <1>12, <1>13, Zenon DEF IInv

\* The inductive invariant holds throughout.
THEOREM InvHolds == Spec => []IInv
<1>1. IInv /\ [Next]_vars => IInv'
  BY InvStep
<1> QED
  BY <1>1, InvInit, PTL DEF Spec

\* The box and the list stay within their types: the place of the walk in the list of
\* reports and the thread on the screen always exist (reports_due, thr_id).
THEOREM FansBoxTypeOK == Spec => []TypeOK
<1>1. IInv => TypeOK
  BY DEF IInv, TypeOK, ListTyped, Control, DueTyped
<1> QED
  BY <1>1, InvHolds, PTL

\* An uplink is filed with what it refers to, or on its own when only closed threads hold
\* that (msg_thr_find_by_mrn), for any number of messages.
THEOREM UplinksAreFiled == Spec => []Filed
<1>1. IInv => Filed
  <2>1. SUFFICES ASSUME IInv PROVE Filed
    OBVIOUS
  <2>2. ListTyped /\ AllPlaced
    BY <2>1 DEF IInv
  <2>3. Len(thr) \in Nat /\ DOMAIN thr = 1 .. Len(thr)
    BY <2>2, ListDomain, Zenon
  <2>4. ASSUME NEW msg, NEW j \in DOMAIN thr
        PROVE  Matches(msg, thr[j]) <=>
                 \E n \in DOMAIN thr[j].talk : /\ thr[j].talk[n].min = msg.mrn
                                               /\ thr[j].talk[n].sent = (msg.kind # "disregard")
    <3>1. ASSUME NEW n \in DOMAIN thr[j].talk
          PROVE  (thr[j].talk[n].sent <=> msg.kind # "disregard") <=>
                   (thr[j].talk[n].sent = (msg.kind # "disregard"))
      <4>1. thr[j].talk[n] \in Bucket
        BY <2>2, TalkDomain
      <4>2. thr[j].talk[n].sent \in BOOLEAN
        BY <4>1, Zenon DEF Bucket
      <4> QED
        BY <4>2
    <3> QED
      BY <3>1 DEF Matches, msg_matches_bucket
  <2>5. ASSUME NEW i \in DOMAIN thr, NEW k \in DOMAIN thr[i].talk,
               ~thr[i].talk[k].sent, thr[i].talk[k].mrn # None
        PROVE  Placed(thr[i].talk[k], i, k)
    BY <2>2, <2>5 DEF AllPlaced
  <2>6. \A i \in DOMAIN thr : \A j \in 1 .. i - 1 : j \in DOMAIN thr
    BY <2>3, SMTT(30)
  <2> QED
    BY <2>4, <2>5, <2>6 DEF Filed, Placed
<1> QED
  BY <1>1, InvHolds, PTL

\* A thread not marked as new was put on the screen whole, in every interleaving of the
\* drawing of a page with the receipt of messages.
THEOREM NothingGoesUnseen == Spec => []NothingIsMissed
<1>1. IInv => NothingIsMissed
  BY DEF IInv, NoneMissed, Missed, Noticed, NothingIsMissed
<1> QED
  BY <1>1, InvHolds, PTL

\* A set whose elements are all equal has at most one.
LEMMA AtMostOne ==
    ASSUME NEW S, \A k, l \in S : k = l
    PROVE  Cardinality(S) <= 1
<1>1. CASE S = {}
  BY <1>1, FS_EmptySet
<1>2. CASE S # {}
  <2>1. PICK x : x \in S
    BY <1>2
  <2>2. S = {x}
    BY <2>1, Zenon
  <2> QED
    BY <2>2, FS_Singleton
<1> QED
  BY <1>1, <1>2, Zenon

\* The pilot gives one verdict in a thread at most, whatever is received between a key and
\* the sending of the answer (send_quick_resp, fans_rej).
THEOREM VerdictsAreSingle == Spec => []OneVerdict
<1>1. IInv => OneVerdict
  <2>1. SUFFICES ASSUME IInv, NEW i \in DOMAIN thr
                 PROVE  Cardinality({k \in DOMAIN thr[i].talk :
                           /\ thr[i].talk[k].sent
                           /\ thr[i].talk[k].kind \in {"accept", "roger", "reject"}}) <= 1
    BY DEF OneVerdict
  <2>2. PICK S : S = {k \in DOMAIN thr[i].talk :
                   thr[i].talk[k].sent /\ thr[i].talk[k].kind \in {"accept", "roger", "reject"}}
    BY Zenon
  <2>3. \A k \in S : k \in DOMAIN thr[i].talk /\ IsVerdict(thr[i].talk[k])
    BY <2>2 DEF IsVerdict, Verdicts
  <2>4. \A k, l \in S : k = l
    BY <2>1, <2>3 DEF IInv, Settled
  <2>5. Cardinality(S) <= 1
    BY <2>4, AtMostOne, SMTT(30)
  <2> QED
    BY <2>2, <2>5, Zenon
<1> QED
  BY <1>1, InvHolds, PTL

\* A report is due when the uplink that asks for it was accepted, and it is due once
\* (fans_reports_generate, report_update).
THEOREM ReportsAreFounded == Spec => []ReportsFollowAcceptance
<1>1. IInv => ReportsFollowAcceptance
  BY Zenon DEF IInv, Reports, Founded, Accepting, Accepted, ReportsFollowAcceptance
<1> QED
  BY <1>1, InvHolds, PTL

\* The report on the screen is in the list of those due.
THEOREM SelectionIsDue == Spec => []SelectedIsDue
<1>1. IInv => SelectedIsDue
  BY DEF IInv
<1> QED
  BY <1>1, InvHolds, PTL

\* A list that keeps its elements is a prefix of what it becomes.
LEMMA PrefixWhenKept ==
    ASSUME NEW S, NEW s \in Seq(S), NEW t \in Seq(S), Len(s) <= Len(t),
           \A k \in 1 .. Len(s) : t[k] = s[k]
    PROVE  IsPrefix(s, t)
  BY DEF IsPrefix

\* No message leaves its thread.
LEMMA TalksGrow ==
    ASSUME ListTyped, Grown, NEW i \in DOMAIN thr
    PROVE  IsPrefix(thr[i].talk, thr'[i].talk)
<1>1. PICK s \in Seq(Bucket) : s = thr[i].talk
  BY TalkDomain, Zenon
<1>2. i \in DOMAIN thr' /\ \A k \in DOMAIN s : k \in DOMAIN thr'[i].talk /\ thr'[i].talk[k] = s[k]
  BY <1>1, AllStay, Zenon
<1>3. PICK t \in Seq(Bucket) : t = thr'[i].talk
  BY <1>2, TalkDomainNext, Zenon
<1>4. Len(s) \in Nat /\ Len(t) \in Nat /\ DOMAIN s = 1 .. Len(s) /\ DOMAIN t = 1 .. Len(t)
  OBVIOUS
<1>5. Len(s) <= Len(t)
  <2>1. CASE Len(s) = 0
    BY <1>4, <2>1
  <2>2. CASE Len(s) # 0
    <3>1. Len(s) \in DOMAIN s
      BY <1>4, <2>2, SMTT(30)
    <3>2. Len(s) \in DOMAIN t
      BY <1>2, <1>3, <3>1, Zenon
    <3> QED
      BY <1>4, <3>2
  <2> QED
    BY <2>1, <2>2, Zenon
<1>6. IsPrefix(s, t)
  BY <1>2, <1>3, <1>4, <1>5, PrefixWhenKept, Zenon
<1> QED
  BY <1>1, <1>3, <1>6, Zenon

\* The outcome of a thread and its messages stay, for any number of messages sent and
\* received, of time-outs and of changes of the logon.
THEOREM OutcomesAreFinal == Spec => OutcomeIsFinal
<1>1. IInv /\ [Next]_vars =>
        [\A i \in DOMAIN thr :
           /\ thr[i].status \in Final => thr'[i].status = thr[i].status
           /\ IsPrefix(thr[i].talk, thr'[i].talk)]_thr
  <2>1. SUFFICES ASSUME IInv, [Next]_vars, NEW i \in DOMAIN thr
                 PROVE  /\ thr[i].status \in Final => thr'[i].status = thr[i].status
                        /\ IsPrefix(thr[i].talk, thr'[i].talk)
    OBVIOUS
  <2>2. ListTyped /\ Grown
    BY <2>1, InvStep DEF IInv
  <2> QED
    BY <2>2, AllStay, TalksGrow, Zenon
<1> QED
  BY <1>1, InvHolds, PTL DEF Spec, OutcomeIsFinal
=============================================================================
