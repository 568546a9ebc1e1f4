------------------------------- MODULE FansBox -------------------------------
(***************************************************************************)
(* The pilot's side of the messages: the pages of the FANS box that show   *)
(* threads, answer and reject uplinks, send requests and keep the reports  *)
(* due (src/fans/fans_msg.c, fans_rej.c, fans_vrfy.c, fans_reports.c and   *)
(* the periodic fans_update of fans.c), over the message list of module    *)
(* MsgList.                                                                *)
(*                                                                         *)
(* The box works on the application's thread, with several calls to the    *)
(* list for one key or one screen; the client's worker may file a message  *)
(* between any two of them.  step says which call comes next.  After every *)
(* key, and periodically, the box updates the list, draws its page and     *)
(* looks after the reports.                                                *)
(***************************************************************************)
EXTENDS MsgList, Lists

CONSTANTS
    MaxKeys,        \* bound: keys that do something other than turn pages
    MaxChanges      \* bound: how often the logon is lost or completed

ASSUME FansBoxAssumption == MaxKeys \in Nat /\ MaxChanges \in Nat

VARIABLES
    page,           \* the page shown
    cur,            \* box->thr_id, as an index into thr; 0 on pages that do not use it
    step,           \* the box's next call
    answer,         \* the answer it is about to send
    due,            \* box->reports_due
    at,             \* the place in due of the next report to look at
    sel,            \* the report box->report points to, by its origin; None for NULL
    left            \* what is left of the bounds

boxVars == <<page, cur, step, answer, due, at, sel, left>>
vars == <<listVars, boxVars>>

\* The pages of a thread, of its rejection, of a report, and all others.
Pages == {"thr", "rej", "report", "menu"}
Steps == {"idle", "generate", "answer", "close", "update", "draw", "read", "reports",
          "walk"}

\* A report is identified by the uplink that asks for it: <<thread, message>>.
Report == [of: (Nat \X Nat), armed: BOOLEAN]

\* The variables have their types; the box shows a thread that exists, and the walk over the
\* reports due, which takes reports off the list it walks, does not get past its end.
TypeOK ==
    /\ thr \in Seq(Thread) /\ min \in Nat /\ uplinks \in 0..MaxUplinks /\ online \in BOOLEAN
    /\ page \in Pages /\ cur \in 0..Len(thr) /\ step \in Steps
    /\ answer \in DownKinds \cup {None}
    /\ due \in Seq(Report) /\ at \in 0..Len(due) + 1
    /\ sel = None \/ sel \in Nat \X Nat
    /\ left \in [keys: 0..MaxKeys, changes: 0..MaxChanges]

Init ==
    /\ ListInit
    /\ page = "menu" /\ cur = 0 /\ step = "idle" /\ answer = None
    /\ due = <<>> /\ at = 0 /\ sel = None
    /\ left = [keys |-> MaxKeys, changes |-> MaxChanges]

Presses == left.keys > 0 /\ left' = [left EXCEPT !.keys = @ - 1]

-----------------------------------------------------------------------------
(* Pages.  The screen is drawn anew after each key.                        *)

Turn(p) ==
    /\ page' = p /\ step' = "update"
    /\ cur' = IF p = "menu" THEN 0 ELSE cur
    /\ UNCHANGED <<listVars, answer, due, at, sel, left>>

\* A thread chosen in the message log, or, with the key R6, the newest dirty one.
ShowThread(i) ==
    /\ step = "idle"
    /\ \/ page = "menu"
       \/ thr[i].dirty /\ \A j \in DOMAIN thr : thr[j].dirty => j <= i
    /\ page' = "thr" /\ cur' = i /\ step' = "update"
    /\ UNCHANGED <<listVars, answer, due, at, sel, left>>

\* The keys L6 and IDX.
TurnPage ==
    /\ step = "idle"
    /\ \/ page \in {"thr", "report"} /\ Turn("menu")
       \/ page = "rej" /\ \E p \in {"thr", "menu"} : Turn(p)

\* The selector of the page of reports due.
ShowReport ==
    /\ step = "idle" /\ page = "menu"
    /\ \E k \in DOMAIN due : sel' = due[k].of
    /\ page' = "report" /\ step' = "update"
    /\ UNCHANGED <<listVars, cur, answer, due, at, left>>

-----------------------------------------------------------------------------
(* Answers to uplinks.                                                     *)

LastUplink(t) == Max({0} \cup {k \in DOMAIN t.talk : ~t.talk[k].sent})

\* Mutant: a thread that is done can be answered again.
can_resp_done(kinds) ==
    /\ online
    /\ LastUplink(thr[cur]) # 0
    /\ thr[cur].talk[LastUplink(thr[cur])].kind \in kinds

\* msg_can_wilco, msg_can_affirm and msg_can_roger.
msg_can_resp(kinds) ==
    /\ thr[cur].status \notin Final
    /\ online
    /\ LastUplink(thr[cur]) # 0
    /\ thr[cur].talk[LastUplink(thr[cur])].kind \in kinds

Roger == {"rep", "disregard"}

\* L4: the box decides on its answer, adds the reports and sends the answer.
PressAccept ==
    /\ step = "idle" /\ page = "thr" /\ Presses
    /\ \/ msg_can_resp({"clr"}) /\ answer' = "accept"
       \/ msg_can_resp(Roger) /\ answer' = "roger"
    /\ step' = "generate"
    /\ UNCHANGED <<listVars, page, cur, due, at, sel>>

\* Every uplink of the thread that asks for a report.
fans_reports_generate ==
    /\ step = "generate"
    /\ LET talk == thr[cur].talk
           asks == Chosen([k \in DOMAIN talk |-> k], {k \in DOMAIN talk : talk[k].kind = "rep"})
       IN  due' = due \o [n \in DOMAIN asks |-> [of |-> <<cur, asks[n]>>, armed |-> TRUE]]
    /\ step' = "answer"
    /\ UNCHANGED <<listVars, page, cur, answer, at, sel, left>>

\* Mutant: the reports are added for a standby too.
StandbyReports ==
    /\ step = "idle" /\ page = "thr" /\ Presses
    /\ msg_can_resp({"clr"} \cup Roger) /\ thr[cur].status # "STANDBY"
    /\ answer' = "stby" /\ step' = "generate"
    /\ UNCHANGED <<listVars, page, cur, due, at, sel>>

\* L5.
PressStandby ==
    /\ step = "idle" /\ page = "thr" /\ Presses
    /\ msg_can_resp({"clr"} \cup Roger) /\ thr[cur].status # "STANDBY"
    /\ answer' = "stby" /\ step' = "answer"
    /\ UNCHANGED <<listVars, page, cur, due, at, sel>>

send_quick_resp ==
    /\ step = "answer"
    /\ cpdlc_msglist_send(answer, cur)
    /\ answer' = None /\ step' = "update"
    /\ UNCHANGED <<page, cur, due, at, sel, left>>

\* R5 opens the reject page.
fans_rej ==
    /\ step = "idle" /\ page = "thr"
    /\ msg_can_resp({"clr"} \cup Roger)
    /\ Turn("rej")

\* R5 on that page sends the rejection, whatever has become of the thread.
SendReject ==
    /\ step = "idle" /\ page = "rej" /\ Presses
    /\ cpdlc_msglist_send("reject", cur)
    /\ page' = "thr" /\ step' = "update"
    /\ UNCHANGED <<cur, answer, due, at, sel>>

\* R5 on the verify page of a request: the request's thread is closed after it.
SendRequest ==
    /\ step = "idle" /\ page = "menu" /\ Presses
    /\ cpdlc_msglist_send("req", 0)
    /\ step' = "close"
    /\ UNCHANGED <<page, cur, answer, due, at, sel>>

NewestRequest == Max({0} \cup {i \in DOMAIN thr : thr[i].talk[1].kind = "req"})

CloseRequest ==
    /\ step = "close"
    /\ cpdlc_msglist_thr_close(NewestRequest)
    /\ step' = "update"
    /\ UNCHANGED <<page, cur, answer, due, at, sel, left>>

-----------------------------------------------------------------------------
(* Reports.                                                                *)

Without(k) == due' = RemoveAt(due, k)
Selected(k) == k \in DOMAIN due /\ due[k].of = sel

\* R1 on the page of a report.
ArmReport ==
    /\ step = "idle" /\ page = "report" /\ Presses
    /\ \E k \in DOMAIN due : Selected(k) /\ due' = [due EXCEPT ![k].armed = ~@]
    /\ step' = "update"
    /\ UNCHANGED <<listVars, page, cur, answer, at, sel>>

\* R5, on a report that is not armed.
SendReport ==
    /\ step = "idle" /\ page = "report" /\ Presses
    /\ \E k \in DOMAIN due : Selected(k) /\ ~due[k].armed /\ Without(k)
    /\ cpdlc_msglist_send("report", 0)
    /\ sel' = None /\ step' = "update"
    /\ UNCHANGED <<page, cur, answer, at>>

-----------------------------------------------------------------------------
(* fans_update.                                                            *)

\* The threads are updated and the page drawn.  The page of a report that is gone
\* gives way to the list of reports.
Update ==
    /\ step \in {"idle", "update"}
    /\ cpdlc_msglist_update
    /\ page' = IF page = "report" /\ sel = None THEN "menu" ELSE page
    /\ step' = IF page = "thr" THEN "draw" ELSE "reports"
    /\ UNCHANGED <<cur, answer, due, at, sel, left>>

\* A thread on the screen is marked seen, and then its text is read.
MarkSeen ==
    /\ step = "draw"
    /\ cpdlc_msglist_thr_mark_seen(cur)
    /\ step' = "read"
    /\ UNCHANGED <<page, cur, answer, due, at, sel, left>>

ReadThread ==
    /\ step = "read"
    /\ thr' = [thr EXCEPT ![cur].shown = TRUE]
    /\ step' = "reports"
    /\ UNCHANGED <<min, uplinks, online, page, cur, answer, due, at, sel, left>>

\* Without a logon no report is due any more.
DropReports ==
    /\ step = "reports" /\ ~online
    /\ due' = <<>> /\ sel' = None /\ step' = "idle"
    /\ UNCHANGED <<listVars, page, cur, answer, at, left>>

\* Otherwise they are looked at one after the other.
BeginReports ==
    /\ step = "reports" /\ online
    /\ IF due = <<>> THEN step' = "idle" /\ at' = 0 ELSE step' = "walk" /\ at' = 1
    /\ UNCHANGED <<listVars, page, cur, answer, due, sel, left>>

\* Mutant: the selection outlives the report.
KeepsSelection ==
    /\ step = "walk" /\ at \in DOMAIN due /\ due[at].armed
    /\ cpdlc_msglist_send("report", 0)
    /\ due' = RemoveAt(due, at)
    /\ UNCHANGED <<page, cur, step, answer, at, sel, left>>

\* Mutant: the next report is looked up from one that was removed.
NextAfterRemoval ==
    /\ step = "walk" /\ at \in DOMAIN due /\ due[at].armed
    /\ cpdlc_msglist_send("report", 0)
    /\ due' = RemoveAt(due, at) /\ at' = at + 1
    /\ sel' = IF sel = due[at].of THEN None ELSE sel
    /\ UNCHANGED <<page, cur, step, answer, left>>

\* A report whose event has come is sent and taken off the list; the walk has looked up
\* the next one before.
report_update ==
    /\ step = "walk" /\ at \in DOMAIN due /\ due[at].armed
    /\ cpdlc_msglist_send("report", 0)
    /\ due' = RemoveAt(due, at)
    /\ sel' = IF sel = due[at].of THEN None ELSE sel
    /\ UNCHANGED <<page, cur, step, answer, at, left>>

\* The others stay; one whose event cannot be recognised is left to the pilot.
PassReport ==
    /\ step = "walk" /\ at \in DOMAIN due
    /\ \E armed \in {due[at].armed, FALSE} : due' = [due EXCEPT ![at].armed = armed]
    /\ at' = at + 1
    /\ UNCHANGED <<listVars, page, cur, step, answer, sel, left>>

EndReports ==
    /\ step = "walk" /\ at \notin DOMAIN due
    /\ step' = "idle" /\ at' = 0
    /\ UNCHANGED <<listVars, page, cur, answer, due, sel, left>>

-----------------------------------------------------------------------------

\* What goes on by itself once the application calls fans_update.
BoxWorks ==
    \/ fans_reports_generate \/ send_quick_resp \/ CloseRequest
    \/ Update \/ MarkSeen \/ ReadThread
    \/ DropReports \/ BeginReports \/ report_update \/ PassReport \/ EndReports

Keys ==
    \/ \E i \in DOMAIN thr : ShowThread(i)
    \/ TurnPage \/ ShowReport
    \/ PressAccept \/ PressStandby \/ fans_rej \/ SendReject \/ SendRequest
    \/ ArmReport \/ SendReport

Receive == msg_recv_cb /\ UNCHANGED boxVars

Time(i) == Late(i) /\ UNCHANGED boxVars

Link ==
    /\ left.changes > 0 /\ left' = [left EXCEPT !.changes = @ - 1]
    /\ LinkChanges
    /\ UNCHANGED <<page, cur, step, answer, due, at, sel>>

Next == BoxWorks \/ Keys \/ Receive \/ Link \/ \E i \in DOMAIN thr : Time(i)

Spec == Init /\ [][Next]_vars

\* At most one thread for every uplink, every key and every report asked for.
MaxThreads == 2 * MaxUplinks + MaxKeys

\* The application keeps calling fans_update, and time passes.
FairSpec ==
    /\ Spec /\ WF_vars(BoxWorks)
    /\ WF_vars(\E i \in DOMAIN thr : Time(i))

-----------------------------------------------------------------------------
(* Properties.                                                             *)

\* A thread that is settled keeps its outcome for ever, and no message leaves its
\* thread, whatever arrives or is sent afterwards.
OutcomeIsFinal ==
    [][\A i \in DOMAIN thr :
         /\ thr[i].status \in Final => thr'[i].status = thr[i].status
         /\ IsPrefix(thr[i].talk, thr'[i].talk)]_thr

\* An uplink that refers to a message is in that message's thread, and only when that
\* thread is closed in a thread of its own: the two sides number their messages
\* independently (msg_thr_find_by_mrn).
Filed ==
    \A i \in DOMAIN thr : \A k \in DOMAIN thr[i].talk :
        LET msg == thr[i].talk[k]
            Holds(j) == \E n \in DOMAIN thr[j].talk :
                          /\ thr[j].talk[n].min = msg.mrn
                          /\ thr[j].talk[n].sent = (msg.kind # "disregard")
        IN  ~msg.sent /\ msg.mrn # None =>
               IF k > 1 THEN Holds(i)
               ELSE \A j \in 1..i - 1 : Holds(j) => thr[j].status = "CLOSED"

\* A thread that is not marked as new has had all its uplinks put on the screen, unless
\* it timed out or the logon ended, and however the draw and the receipt interleave.
NothingIsMissed ==
    \A i \in DOMAIN thr :
        \/ thr[i].dirty \/ thr[i].status \in {"TIMEDOUT", "CONN_ENDED"}
        \/ step = "read" /\ cur = i
        \/ thr[i].shown \/ \A k \in DOMAIN thr[i].talk : thr[i].talk[k].sent

\* The pilot gives at most one verdict in a thread: no acceptance is followed by a
\* rejection, or the other way round, or sent twice.
OneVerdict ==
    \A i \in DOMAIN thr :
        Cardinality({k \in DOMAIN thr[i].talk :
            thr[i].talk[k].sent /\ thr[i].talk[k].kind \in {"accept", "roger", "reject"}}) <= 1

\* A report is due because the pilot accepted the uplink that asks for it, and it is
\* due once.
ReportsFollowAcceptance ==
    /\ \A n \in DOMAIN due :
         LET i == due[n].of[1] IN
         \/ step = "answer" /\ cur = i
         \/ \E k \in DOMAIN thr[i].talk :
               /\ k > due[n].of[2] /\ thr[i].talk[k].sent
               /\ thr[i].talk[k].kind \in {"accept", "roger"}
    /\ \A n, m \in DOMAIN due : due[n].of = due[m].of => n = m

\* The report on the screen is one that is still due: the box never holds on to a
\* report that was sent by itself or dropped with the logon.
SelectedIsDue == sel = None \/ \E n \in DOMAIN due : due[n].of = sel

\* An uplink that calls for an answer does not stay unanswered: the pilot answers it,
\* puts the station on standby, or the thread ends without them.
AnswerIsDue(i) ==
    /\ i \in DOMAIN thr
    /\ thr[i].status \notin Final \cup {"STANDBY"}
    /\ ~LastMsg(thr[i]).sent /\ LastMsg(thr[i]).kind \in Timed

UplinksAreSettled ==
    \A i \in 1..MaxThreads :
        AnswerIsDue(i) ~> i \in DOMAIN thr /\ thr[i].status \in Final \cup {"STANDBY"}
=============================================================================
