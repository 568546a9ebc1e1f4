------------------------------ MODULE MainLoop ------------------------------
(***************************************************************************)
(* The server's main thread (the loop at the end of main in                *)
(* src/cpdlcd/cpdlcd.c): it polls the sockets, reads and writes the TCP    *)
(* connections, completes logons, applies the blocklist                    *)
(* (src/cpdlcd/blocklist.c), closes connections that never log on and      *)
(* keeps the file with the list of logons.  Beside it run the clients, the *)
(* threads that take logons away (the WebSocket worker, a message router), *)
(* and whoever edits the blocklist.                                        *)
(*                                                                         *)
(* What messages say is left to the other modules: here a connection has   *)
(* or has not input to read, output to write and a logon.  Connections     *)
(* stand for their addresses, too.                                         *)
(***************************************************************************)
EXTENDS Lists

CONSTANTS
    Conns,          \* the TCP clients
    None,           \* no client
    Hosts,          \* the clients that the blocklist's file names by host name, not by address
    Bounds          \* bounds: how many connections are made, and how often the blocklist's
                    \* file is edited; the set has the combinations that may occur

ASSUME MainLoopAssumption ==
    /\ Bounds \subseteq [connects: Nat, edits: Nat]
    /\ IsFiniteSet(Conns) /\ None \notin Conns /\ Hosts \subseteq Conns

VARIABLES
    pc,             \* where the main thread is
    conns,          \* conns_tcp
    dirty,          \* conns_tcp_dirty
    pfds,           \* the connections of the poll set, in its order
    results,        \* the events poll returned for each of them
    listening,      \* poll returned an event on the listening socket
    todo,           \* the connections the loop has not come to yet
    nr,             \* the place in pfds of the first of them
    seen,           \* polls_seen
    res,            \* poll_res
    waiting,        \* clients whose connection was not accepted yet
    input,          \* connections with something to read
    ended,          \* connections whose client is gone
    output,         \* connections with something in outbuf
    table,          \* conns_by_from: the connections that are logged on
    changed,        \* conns_by_from_changed
    leaving,        \* the other thread removed an entry and is about to set changed
    tmp,            \* what was written to the temporary file
    list,           \* the logon list file
    stale,          \* history: the last attempt to write the list failed
    file,           \* the blocklist file: its entries, its modification time in seconds and, as
                    \* history, that it was edited again in the second of the version in use
    stamp,          \* the modification time that stat returned
    blocked,        \* the blocklist's table
    updated,        \* update_time
    left            \* what is left of the bounds

pollVars == <<pfds, results, listening, todo, nr, seen, res>>
netVars == <<waiting, input, ended, output>>
logonVars == <<table, changed, leaving>>
listVars == <<tmp, list, stale>>
blockVars == <<stamp, blocked, updated>>
vars == <<pc, conns, dirty, pollVars, netVars, logonVars, listVars, blockVars, file, left>>

Steps == {"poll", "wait", "accept", "conns", "logons", "stat", "read", "blocked", "timeouts",
          "list", "write", "rename"}
Events == SUBSET {"in", "out"}

TypeOK ==
    /\ pc \in Steps /\ {dirty, listening, changed, stale} \subseteq BOOLEAN
    /\ \A s \in {conns, pfds, todo} : s \in Seq(Conns) /\ IsInjective(s)
    /\ results \in Seq(Events) /\ Len(results) = Len(pfds)
    /\ nr \in 1..Cardinality(Conns) + 1
    /\ seen \in Nat /\ res \in Nat
    /\ \A s \in {waiting, input, ended, output, table, tmp, list, blocked} : s \subseteq Conns
    /\ leaving \in Conns \cup {None}
    /\ file \in [names: SUBSET Conns, mtime: Nat, again: BOOLEAN]
    /\ stamp \in Nat /\ updated \in Nat
    /\ left \in [connects: Nat, edits: Nat]

Init ==
    /\ pc = "poll" /\ conns = <<>> /\ dirty = FALSE
    /\ pfds = <<>> /\ results = <<>> /\ listening = FALSE
    /\ todo = <<>> /\ nr = 1 /\ seen = 0 /\ res = 0
    /\ waiting = {} /\ input = {} /\ ended = {} /\ output = {}
    /\ table = {} /\ changed = TRUE /\ leaving = None
    /\ tmp = {} /\ list = {} /\ stale = FALSE
    /\ file = [names |-> {}, mtime |-> 0, again |-> FALSE] /\ stamp = 0 /\ blocked = {} /\ updated = 0
    /\ left \in Bounds

Linked == Range(conns)

\* close_conn for the connections cs: they lose their logon and leave the list.  A thread
\* that ends a logon holds the locks this takes.
CloseConns(cs) ==
    /\ cs \cap (table \cup {leaving}) # {} => leaving = None
    /\ conns' = Excluding(conns, cs)
    /\ dirty' = (dirty \/ cs # {})
    /\ table' = table \ cs
    /\ changed' = (changed \/ table \cap cs # {})
    /\ input' = input \ cs /\ ended' = ended \ cs /\ output' = output \ cs

-----------------------------------------------------------------------------
(* poll_sockets.                                                           *)

\* The poll set is made: input is polled for on every connection, output where there
\* is some.
MakePollSet ==
    /\ pc = "poll" /\ pc' = "wait"
    /\ dirty' = FALSE
    /\ pfds' = conns
    /\ results' = [k \in DOMAIN conns |-> IF conns[k] \in output THEN {"out"} ELSE {}]
    /\ UNCHANGED <<conns, listening, todo, nr, seen, res, netVars, logonVars, listVars,
                   blockVars, file, left>>

\* poll times out, or fails, which it may do whatever there is to read.
PollReturnsNothing ==
    /\ pc = "wait" /\ pc' = "logons"
    /\ pfds' = <<>> /\ results' = <<>>
    /\ UNCHANGED <<conns, dirty, listening, todo, nr, seen, res, netVars, logonVars, listVars,
                   blockVars, file, left>>

\* poll returns.  A socket may or may not be ready for output; another thread may have
\* written to the wakeup pipe, which is drained and counts as one event.  A socket with
\* nothing but an error is counted, too, and not looked at.  Were conns_tcp changed
\* meanwhile, the poll would be repeated; no thread but this one changes it.
PollReturns ==
    /\ pc = "wait" /\ pc' = "accept" /\ ~dirty
    /\ listening' = (waiting # {})
    /\ \E writable \in SUBSET DOMAIN pfds, woken \in {0, 1} :
         /\ results' = [k \in DOMAIN pfds |->
                          (IF pfds[k] \in input \cup ended THEN {"in"} ELSE {})
                          \cup (IF k \in writable THEN results[k] ELSE {})]
         /\ \E failed \in SUBSET {k \in DOMAIN pfds : results'[k] = {}} :
              res' = Cardinality({k \in DOMAIN pfds : results'[k] # {}}) + Cardinality(failed)
                       + (IF waiting # {} THEN 1 ELSE 0) + woken
         /\ seen' = woken
    /\ res' > 0
    /\ UNCHANGED <<conns, dirty, pfds, todo, nr, netVars, logonVars, listVars, blockVars,
                   file, left>>

PassEnds ==
    /\ pc' = "logons"
    /\ pfds' = <<>> /\ results' = <<>> /\ listening' = FALSE /\ todo' = <<>>
    /\ nr' = 1 /\ seen' = 0 /\ res' = 0

\* Mutant: a client that was accepted is accepted again in the next pass.
AcceptsAgain ==
    /\ pc = "accept" /\ listening
    /\ \E new \in Arrangements(waiting \ blocked) :
         /\ conns' = conns \o new
         /\ dirty' = (dirty \/ new # <<>>)
         /\ IF seen + 1 >= res
            THEN PassEnds
            ELSE /\ pc' = "conns" /\ todo' = conns' /\ seen' = seen + 1
                 /\ UNCHANGED <<pfds, results, listening, nr, res>>
    /\ input' = input \ (waiting \cap blocked) /\ ended' = ended \ (waiting \cap blocked)
    /\ UNCHANGED <<waiting, output, logonVars, listVars, blockVars, file, left>>

\* handle_accepts, for all the clients that wait, in the order they came in.
Accept ==
    /\ pc = "accept" /\ listening
    /\ \E new \in Arrangements(waiting \ blocked) :
         /\ conns' = conns \o new
         /\ dirty' = (dirty \/ new # <<>>)
         /\ IF seen + 1 >= res
            THEN PassEnds
            ELSE /\ pc' = "conns" /\ todo' = conns' /\ seen' = seen + 1
                 /\ UNCHANGED <<pfds, results, listening, nr, res>>
    /\ waiting' = {}
    /\ input' = input \ (waiting \cap blocked) /\ ended' = ended \ (waiting \cap blocked)
    /\ UNCHANGED <<output, logonVars, listVars, blockVars, file, left>>

NothingToAccept ==
    /\ pc = "accept" /\ ~listening
    /\ IF seen = res
       THEN PassEnds
       ELSE pc' = "conns" /\ todo' = conns /\ UNCHANGED <<pfds, results, listening, nr, seen, res>>
    /\ UNCHANGED <<conns, dirty, netVars, logonVars, listVars, blockVars, file, left>>

\* The events the loop finds for its connection: past the end of the array, anything.
Found == IF nr \in DOMAIN results THEN {results[nr]} ELSE Events

Advance(n) == todo' = Tail(todo) /\ nr' = n /\ UNCHANGED <<pfds, results, listening, res>>

PassConn ==
    /\ pc = "conns" /\ todo # <<>> /\ {} \in Found
    /\ Advance(nr + 1)
    /\ UNCHANGED <<pc, conns, dirty, seen, netVars, logonVars, listVars, blockVars, file, left>>

\* Mutant: the place in the poll set does not advance past a closed connection.
CloseStays ==
    /\ pc = "conns" /\ todo # <<>> /\ \E ev \in Found : ev # {}
    /\ Head(todo) \in ended
    /\ CloseConns({Head(todo)})
    /\ seen' = seen + 1
    /\ Advance(nr)
    /\ UNCHANGED <<pc, waiting, leaving, listVars, blockVars, file, left>>

\* Reading or writing fails: the connection is closed and the loop goes on, without
\* looking at the count.  Reading finds the end of input, or input that is refused.
ConnFails ==
    /\ pc = "conns" /\ todo # <<>>
    /\ \E ev \in Found :
         \/ "in" \in ev /\ Head(todo) \in ended \cup input
         \/ "out" \in ev /\ Head(todo) \in output
    /\ CloseConns({Head(todo)})
    /\ seen' = seen + 1
    /\ Advance(nr + 1)
    /\ UNCHANGED <<pc, waiting, leaving, listVars, blockVars, file, left>>

\* Mutant: one event too few is waited for.
EarlyExit == seen + 1 >= res - 1

\* Nothing else can have happened once as many events were seen as poll returned.
AllSeen == seen + 1 >= res

\* Otherwise the input is drained, which may answer messages and end the logon, and as much
\* output written as the socket takes.
ConnWorks ==
    /\ pc = "conns" /\ todo # <<>>
    /\ \E ev \in Found :
         /\ ev # {}
         /\ "in" \in ev => Head(todo) \notin ended
         /\ input' = IF "in" \in ev THEN input \ {Head(todo)} ELSE input
         /\ output' \in {output}
              \cup (IF "out" \in ev THEN {output \ {Head(todo)}} ELSE {})
              \cup (IF "in" \in ev /\ Head(todo) \in input THEN {output \cup {Head(todo)}}
                    ELSE {})
         /\ \/ UNCHANGED <<table, changed>>
            \/ /\ "in" \in ev /\ Head(todo) \in input \cap table /\ leaving = None
               /\ table' = table \ {Head(todo)} /\ changed' = TRUE
    /\ IF AllSeen THEN PassEnds
       ELSE seen' = seen + 1 /\ Advance(nr + 1) /\ UNCHANGED pc
    /\ UNCHANGED <<conns, dirty, waiting, ended, leaving, listVars, blockVars, file, left>>

ConnsDone ==
    /\ pc = "conns" /\ todo = <<>>
    /\ PassEnds
    /\ UNCHANGED <<conns, dirty, netVars, logonVars, listVars, blockVars, file, left>>

-----------------------------------------------------------------------------
(* The rest of the loop.                                                   *)

\* complete_logons: logons complete, and are answered.
CompleteLogons ==
    /\ pc = "logons" /\ pc' = "stat"
    /\ \E new \in SUBSET (Linked \ table) :
         /\ new # {} => leaving = None
         /\ table' = table \cup new
         /\ changed' = (changed \/ new # {})
         /\ output' = output \cup new
    /\ UNCHANGED <<conns, dirty, pollVars, waiting, input, ended, leaving, listVars, blockVars,
                   file, left>>

\* Mutant: the new time is kept before the file was read.
StatKeepsTime ==
    /\ pc = "stat"
    /\ \/ pc' = "read" /\ stamp' = file.mtime /\ file.mtime # updated
       \/ pc' = "timeouts" /\ stamp' = 0
    /\ updated' = file.mtime
    /\ UNCHANGED <<conns, dirty, pollVars, netVars, logonVars, listVars, blocked, file, left>>

\* blocklist_refresh: has the file changed?  Times are compared in seconds.  A file that is
\* not there leaves the table as it is.
StatBlocklist ==
    /\ pc = "stat"
    /\ \/ pc' = "read" /\ stamp' = file.mtime /\ file.mtime # updated
       \/ pc' = "timeouts" /\ stamp' = 0
    /\ UNCHANGED <<conns, dirty, pollVars, netVars, logonVars, listVars, blocked, updated, file,
                   left>>

CannotOpenBlocklist ==
    /\ pc = "read" /\ pc' = "timeouts" /\ stamp' = 0
    /\ UNCHANGED <<conns, dirty, pollVars, netVars, logonVars, listVars, blocked, updated, file,
                   left>>

\* blocklist_refresh_impl reads the file.  The time kept is the one of before.  An entry is
\* skipped when its name cannot be resolved, and the addresses of a host that follow one
\* already in the table are; an entry that is an address gets into the table.
ReadBlocklist ==
    /\ pc = "read" /\ pc' = "blocked"
    /\ \E skipped \in SUBSET (file.names \cap Hosts) : blocked' = file.names \ skipped
    /\ updated' = stamp /\ stamp' = 0
    /\ UNCHANGED <<conns, dirty, pollVars, netVars, logonVars, listVars, file, left>>

close_blocked_conns ==
    /\ pc = "blocked" /\ pc' = "timeouts"
    /\ CloseConns(Linked \cap blocked)
    /\ UNCHANGED <<pollVars, waiting, leaving, listVars, blockVars, file, left>>

close_timedout_conns ==
    /\ pc = "timeouts" /\ pc' = "list"
    /\ \E late \in SUBSET (Linked \ table) : CloseConns(late)
    /\ UNCHANGED <<pollVars, waiting, leaving, listVars, blockVars, file, left>>

\* write_logon_list: the mark goes first.
BeginList ==
    /\ pc = "list"
    /\ pc' = IF changed THEN "write" ELSE "poll"
    /\ changed' = FALSE
    /\ UNCHANGED <<conns, dirty, pollVars, netVars, table, leaving, listVars, blockVars, file,
                   left>>

\* The temporary file is written, or cannot be opened.
WriteList ==
    /\ pc = "write"
    /\ \/ pc' = "rename" /\ tmp' = table /\ UNCHANGED stale
       \/ pc' = "poll" /\ stale' = TRUE /\ UNCHANGED tmp
    /\ UNCHANGED <<conns, dirty, pollVars, netVars, logonVars, list, blockVars, file, left>>

\* Mutant: the mark is cleared once the list was written.
RenameClears ==
    /\ pc = "rename" /\ pc' = "poll"
    /\ list' = tmp /\ stale' = FALSE /\ tmp' = {}
    /\ changed' = FALSE
    /\ UNCHANGED <<conns, dirty, pollVars, netVars, table, leaving, blockVars, file, left>>

RenameList ==
    /\ pc = "rename" /\ pc' = "poll"
    /\ \/ list' = tmp /\ stale' = FALSE
       \/ stale' = TRUE /\ UNCHANGED list
    /\ tmp' = {}
    /\ UNCHANGED <<conns, dirty, pollVars, netVars, logonVars, blockVars, file, left>>

MainThread ==
    \/ MakePollSet \/ PollReturnsNothing \/ PollReturns
    \/ Accept \/ NothingToAccept \/ PassConn \/ ConnFails \/ ConnWorks \/ ConnsDone
    \/ CompleteLogons \/ StatBlocklist \/ CannotOpenBlocklist \/ ReadBlocklist
    \/ close_blocked_conns \/ close_timedout_conns
    \/ BeginList \/ WriteList \/ RenameList

-----------------------------------------------------------------------------
(* Everyone else.                                                          *)

Connect(c) ==
    /\ c \notin Linked \cup waiting /\ left.connects > 0
    /\ waiting' = waiting \cup {c}
    /\ left' = [left EXCEPT !.connects = @ - 1]
    /\ UNCHANGED <<pc, conns, dirty, pollVars, input, ended, output, logonVars, listVars,
                   blockVars, file>>

\* A client sends something, or leaves.
ClientSends(c) ==
    /\ c \in Linked \cup waiting
    /\ \/ input' = input \cup {c} /\ UNCHANGED ended
       \/ ended' = ended \cup {c} /\ UNCHANGED input
    /\ UNCHANGED <<pc, conns, dirty, pollVars, waiting, output, logonVars, listVars, blockVars,
                   file, left>>

\* Another thread forwards a message to a connection.
Forward(c) ==
    /\ c \in table
    /\ output' = output \cup {c}
    /\ UNCHANGED <<pc, conns, dirty, pollVars, waiting, input, ended, logonVars, listVars,
                   blockVars, file, left>>

\* The message ends the logon (conn_reset_logon): the entry goes, then the mark is set.
LogonEnds(c) ==
    /\ leaving = None /\ c \in table
    /\ table' = table \ {c} /\ leaving' = c
    /\ UNCHANGED <<pc, conns, dirty, pollVars, netVars, changed, listVars, blockVars, file, left>>

LogonEnded ==
    /\ leaving # None /\ leaving' = None
    /\ changed' = TRUE
    /\ UNCHANGED <<pc, conns, dirty, pollVars, netVars, table, listVars, blockVars, file, left>>

EditBlocklist ==
    /\ left.edits > 0 /\ left' = [left EXCEPT !.edits = @ - 1]
    /\ \E names \in SUBSET Conns \ {file.names}, time \in {file.mtime, file.mtime + 1} :
         file' = [names |-> names, mtime |-> time, again |-> time = updated]
    /\ UNCHANGED <<pc, conns, dirty, pollVars, netVars, logonVars, listVars, blockVars>>

Next ==
    \/ MainThread
    \/ \E c \in Conns : Connect(c) \/ ClientSends(c) \/ Forward(c) \/ LogonEnds(c)
    \/ LogonEnded \/ EditBlocklist

Spec == Init /\ [][Next]_vars

-----------------------------------------------------------------------------
(* Properties.                                                             *)

\* The loop over the connections looks at a connection's own poll results, although
\* connections are closed and accepted in the same pass (poll_sockets pairs them by
\* position).
OwnResults ==
    pc = "conns" /\ todo # <<>> /\ nr \in DOMAIN pfds => Head(todo) = pfds[nr]

\* The logon list is what the table was when it was last changed, unless it could not be
\* written, however the removals of other threads fall between the steps of writing it.
ListIsCurrent ==
    ~changed /\ leaving = None /\ pc \notin {"write", "rename"} =>
        stale \/ list = table

\* Once blocklist_refresh takes the table for up to date, no connection of a client whose
\* address is in the blocklist's file is left when the loop begins again: whether the client
\* connected before or after it was listed, although the file could not be read at first,
\* and although it was edited between stat and reading it, in the same second or not.  What
\* goes unnoticed is only an edit in the second of the version that was read before.
BlockedClientsAreGone ==
    pc = "poll" /\ updated = file.mtime /\ ~file.again => Linked \cap (file.names \ Hosts) = {}

\* A pass over the poll results ends only when every connection with an event was served or
\* closed, so the early exit leaves nobody out, whatever connections were accepted and closed
\* on the way.
NobodyIsSkipped ==
    [][pc' = "logons" /\ pc \in {"accept", "conns"} =>
         \A k \in DOMAIN results :
            results[k] # {} => pc = "conns" /\ k <= nr]_vars
=============================================================================
