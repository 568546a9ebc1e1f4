------------------------------- MODULE MsgList -------------------------------
(***************************************************************************)
(* The message list (src/src/cpdlc_msglist.c): it files the messages of an *)
(* aircraft's client into threads and gives each thread a status.  The     *)
(* client calls it back from its own thread with what was received; the    *)
(* FANS box calls it from the application's thread.  Every call holds the  *)
(* list's lock from beginning to end and is one step here.                 *)
(*                                                                         *)
(* thr holds the threads in the order of their creation (the code inserts  *)
(* at the head of its list), so thr[i] is the thread of identifier i - 1.  *)
(* Messages are told apart by their kind.  The code treats WILCO and       *)
(* AFFIRM alike, and UNABLE and NEGATIVE; "clr" is an uplink that calls    *)
(* for one of them, "rep" one that asks for a report and calls for ROGER.  *)
(* Assertions are those of a release build: they check nothing.            *)
(***************************************************************************)
EXTENDS Integers, Sequences, FiniteSets

CONSTANTS
    Uplinks,        \* the kinds of messages the station sends
    None,           \* no message reference number, no status
    MaxUplinks      \* bound: messages received

VARIABLES
    thr,            \* the threads, oldest first
    min,            \* the MIN of the next message sent
    uplinks,        \* the MIN of the station's next message
    online          \* the client's logon status is CPDLC_LOGON_COMPLETE

listVars == <<thr, min, uplinks, online>>

UpKinds == {"clr", "rep", "accept", "reject", "stby", "disregard", "mgmt"}
DownKinds == {"req", "accept", "roger", "reject", "stby", "error", "report"}
NeedsResponse == {"clr", "rep", "disregard", "req"}
Timed == {"clr", "rep"}

Final == {"CLOSED", "ACCEPTED", "REJECTED", "TIMEDOUT", "DISREGARD", "CONN_ENDED"}
ThrStatuses == Final \cup {"OPEN", "PENDING", "STANDBY"}

ASSUME MsgListAssumption ==
    MaxUplinks \in Nat /\ None \notin Nat \cup ThrStatuses /\ Uplinks \subseteq UpKinds

\* A message in a thread.  tok: the client took it (its token is valid).
Bucket == [kind: UpKinds \cup DownKinds, sent: BOOLEAN, min: Nat,
           mrn: Nat \cup {None}, tok: BOOLEAN]

\* late: the last message is older than the shortest time-out of the thread.
\* shown: all its messages have been put on the box's screen (history).
Thread == [status: ThrStatuses, talk: Seq(Bucket), dirty: BOOLEAN, late: BOOLEAN,
           shown: BOOLEAN]

NewThread == [status |-> "OPEN", talk |-> <<>>, dirty |-> FALSE, late |-> FALSE,
              shown |-> FALSE]

ListInit == thr = <<>> /\ min = 0 /\ uplinks = 0 /\ online = TRUE

LastMsg(t) == t.talk[Len(t.talk)]

Append1(t, b) == [t EXCEPT !.talk = Append(@, b), !.late = FALSE]

\* The MIN of the newest uplink of a thread.
NewestUplink(t) ==
    LET ups == {k \in DOMAIN t.talk : ~t.talk[k].sent}
    IN  IF ups = {} THEN None
        ELSE t.talk[CHOOSE k \in ups : \A j \in ups : j <= k].min

\* A message of our own goes into a thread.
msglist_send_impl(t, kind, m) ==
    Append1(t, [kind |-> kind, sent |-> TRUE, min |-> m, mrn |-> NewestUplink(t),
                tok |-> online])

\* The first branches of thr_status_upd: the status the last message gives a
\* thread before any time-out is considered, None when they say nothing.  A request
\* is pending while the client answers that it is sending it, and open afterwards.
Decided(t, sending) ==
    LET last == LastMsg(t) IN
    IF Len(t.talk) = 1 /\ last.kind \notin NeedsResponse THEN "CLOSED"
    ELSE IF last.kind = "req" THEN (IF last.tok /\ sending THEN "PENDING" ELSE "OPEN")
    ELSE IF last.kind = "stby" THEN "STANDBY"
    ELSE IF last.kind = "accept" THEN "ACCEPTED"
    ELSE None

\* Mutant: only the messages of the other side make a thread time out.
TimesOutUnlessSeen(t) ==
    /\ t.status \notin Final \cup {"STANDBY"}
    /\ Decided(t, TRUE) = None
    /\ t.late /\ t.dirty

TimesOut(t) ==
    /\ t.status \notin Final \cup {"STANDBY"}
    /\ Decided(t, TRUE) = None
    /\ t.late

\* Its last branches.
Concluded(t) ==
    LET last == LastMsg(t) IN
    IF last.kind \in {"reject", "error"} THEN "REJECTED"
    ELSE IF last.kind \in {"roger", "mgmt"} THEN "CLOSED"
    ELSE IF last.kind = "disregard" THEN "DISREGARD"
    ELSE IF ~online THEN "CONN_ENDED"
    ELSE t.status

\* The new value of a thread.  sending is what the client says of a request, m the
\* MIN of the error message that a time-out sends.
thr_status_upd(t, sending, m) ==
    IF t.status \in Final THEN t
    ELSE IF Decided(t, sending) # None THEN [t EXCEPT !.status = Decided(t, sending)]
    ELSE IF TimesOut(t)
    THEN [msglist_send_impl(t, "error", m) EXCEPT !.status = "TIMEDOUT", !.dirty = FALSE]
    ELSE [t EXCEPT !.status = Concluded(t), !.dirty = @ /\ Concluded(t) # "CONN_ENDED"]

\* Mutant: the two directions' numbers are mixed up.
MatchesAny(msg, b) == b.min = msg.mrn

\* A DISREGARD refers to a message received, any other uplink to one sent.
msg_matches_bucket(msg, b) ==
    b.min = msg.mrn /\ (b.sent <=> msg.kind # "disregard")

\* The oldest thread that holds what an uplink refers to, 0 if there is none.
\* Threads that were closed are skipped.
msg_thr_find_by_mrn(msg) ==
    LET found == {i \in DOMAIN thr :
                    /\ msg.mrn # None
                    /\ thr[i].status # "CLOSED"
                    /\ \E k \in DOMAIN thr[i].talk : msg_matches_bucket(msg, thr[i].talk[k])}
    IN  IF found = {} THEN 0 ELSE CHOOSE i \in found : \A j \in found : i <= j

\* Put a thread back into the list, at its end when it is new.
Put(i, t) == thr' = IF i \in DOMAIN thr THEN [thr EXCEPT ![i] = t] ELSE Append(thr, t)

-----------------------------------------------------------------------------

\* What the station may refer to: messages it was sent, or its own that it takes back.
Referable(kind) ==
    LET all == UNION {{thr[i].talk[k] : k \in DOMAIN thr[i].talk} : i \in DOMAIN thr}
    IN  IF kind = "disregard" THEN {b.min : b \in {c \in all : c.kind \in Timed}}
        ELSE {b.min : b \in {c \in all : c.sent /\ c.tok}}
             \cup (IF kind \in {"clr", "rep", "mgmt"} THEN {None} ELSE {})

\* Mutant: only a new thread is marked as new.
AddOld(t, msg) == [Append1(t, msg) EXCEPT !.dirty = @ \/ t.talk = <<>>, !.shown = FALSE]

AddUplink(t, msg) == [Append1(t, msg) EXCEPT !.dirty = TRUE, !.shown = FALSE]

\* The client's worker calls back with a message received, which may be after the message,
\* or one behind it, has ended the logon.
msg_recv_cb ==
    /\ uplinks < MaxUplinks
    /\ \E kind \in Uplinks : \E mrn \in Referable(kind) :
         LET msg == [kind |-> kind, sent |-> FALSE, min |-> uplinks, mrn |-> mrn,
                     tok |-> FALSE]
             i == msg_thr_find_by_mrn(msg)
             t == IF i = 0 THEN NewThread ELSE thr[i]
         IN  Put(i, thr_status_upd(AddUplink(t, msg), FALSE, min))
    /\ uplinks' = uplinks + 1
    /\ UNCHANGED <<min, online>>

\* A thread of its own for a message of ours when i is 0.
cpdlc_msglist_send(kind, i) ==
    /\ \E sending \in BOOLEAN :
         LET t == IF i = 0 THEN NewThread ELSE thr[i]
         IN  Put(i, thr_status_upd(msglist_send_impl(t, kind, min), sending, min + 1))
    /\ min' = min + 1
    /\ UNCHANGED <<uplinks, online>>

\* Every thread, the newest first: an older thread's error gets the greater MIN.
cpdlc_msglist_update ==
    LET errorsBefore(i) == Cardinality({j \in DOMAIN thr : j > i /\ TimesOut(thr[j])})
    IN  /\ \E sending \in BOOLEAN :
              thr' = [i \in DOMAIN thr |->
                        thr_status_upd(thr[i], sending, min + errorsBefore(i))]
        /\ min' = min + errorsBefore(0)
        /\ UNCHANGED <<uplinks, online>>

\* Mutant: a settled thread is closed too.
CloseAnyway(i) ==
    /\ thr' = [thr EXCEPT ![i].status = "CLOSED"]
    /\ UNCHANGED <<min, uplinks, online>>

cpdlc_msglist_thr_close(i) ==
    /\ thr' = [thr EXCEPT ![i].status = IF @ \in Final THEN @ ELSE "CLOSED"]
    /\ UNCHANGED <<min, uplinks, online>>

cpdlc_msglist_thr_mark_seen(i) ==
    /\ thr' = [thr EXCEPT ![i].dirty = FALSE]
    /\ UNCHANGED <<min, uplinks, online>>

\* The clock passes the time-out of a thread (where that makes a difference).
Late(i) ==
    /\ ~thr[i].late
    /\ \E k \in DOMAIN thr[i].talk : thr[i].talk[k].kind \in Timed
    /\ TimesOut([thr[i] EXCEPT !.late = TRUE])
    /\ thr' = [thr EXCEPT ![i].late = TRUE]
    /\ UNCHANGED <<min, uplinks, online>>

LinkChanges ==
    /\ online' = ~online
    /\ UNCHANGED <<thr, min, uplinks>>
=============================================================================
