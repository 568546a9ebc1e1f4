# A formal model of libcpdlc

libcpdlc carries controller-pilot data link messages (CPDLC).  The repository
holds a server, `cpdlcd`, that logs stations on and forwards or stores the
messages between them; a client library; a list of message threads on top of
the client; a codec for the messages; and the FANS-1/A pages of a cockpit
display.  This project models the places where threads, callbacks,
timeouts and limits meet: in the server, who is logged on, what becomes of a
message, which locks are held meanwhile and how the main loop gets round; in the
aircraft, how the client gets and keeps a link, and how the pilot's keys and
the station's messages meet in the threads of the message list.

## Inventory

| part | state | operations | what is hard | status |
|---|---|---|---|---|
| logon life cycle (`cpdlcd.c`, `auth.c`) | `conn_t`, `conns_by_from`, the tree of sessions | accept, LOGON, LOGOFF, callback of a worker, completion, END SERVICE, grace time, close | a callback that comes after a reset, a close or a new logon; several identities on one connection | `LogonServer`, `LogonRegistry`, proofs |
| store and forward (`cpdlcd.c`, `msg_router.c`, `msgquota.c`) | router tasks, `queued_msgs`, byte count, quotas | admit, route, forward, store, sweep, expire | router threads beside the sweep; limits; order across a logon | `StoreForward`, `Mailbox`, proofs |
| locks (`cpdlcd.c`, `auth.c`) | five kinds of mutex | every handler of four kinds of thread | nesting in both orders | `LockOrder`, proofs |
| main loop (`cpdlcd.c`) | `conns_tcp`, poll array | poll, accept, serve, close, the phases after it | positions of two lists that change while one is walked; an early exit by a count | `MainLoop`, proofs |
| block list (`blocklist.c`) | table of addresses, its time | refresh, check, closing of connections | a file edited while it is read or twice in a second, unreadable or missing for a while; names that cannot be looked up | in `MainLoop`, proofs |
| logon list file (`cpdlcd.c`) | changed flag, two files | write, rename | removals by other threads between the steps; failures | in `MainLoop`, proofs |
| client link (`cpdlc_client.c`) | link and logon status, queues in and out, worker | logon, logoff, send, receive, poll, keep-alive | lock dropped around polls and callbacks; logoff and logon in quick succession | `ClientLink`, `Session`, proofs |
| FANS logon page (`fans_logon_status.c`, `fans.c`) | a timer | keys, time-out of a logon | a status that is stale when it is acted upon | in `Session`, proofs |
| message threads (`cpdlc_msglist.c`) | threads of messages, MIN | send, receive, update, close, mark seen | time-outs against late answers; numbers of two sides | `MsgList`, proofs |
| FANS message, reject, verify and report pages | page, thread shown, reports due | keys, periodic update | messages filed between the calls one key makes; automatic reports beside editing | `FansBox`, proofs |
| FANS request pages, scratchpad; codec; message table; ARINC 622 codec, ASN.1 code; RPC; TLS; configuration; GUI; simulator interface | | | | not modelled, see the end |

## Modules

**`LogonServer`.**  One action is one handler: `Accept` (handle_accepts,
conn_established_lws), `ProcessLogonRpc` and `ProcessLogonLocal`
(process_logon_msg with the three branches of auth_sess_open), `RefuseLogon`,
`ProcessLogoff`, `AuthWorker` (the end of auth_worker with logon_done_cb),
`CompleteLogon`, `SendEndSvc`, `CloseTimedout`, `KillWsi`, `CloseConn`,
`LwsWriteableKilled`, `WriteOutput` and the clock `Tick`.  `conn` has the fields
of `conn_t` that outlive a handler; `conns_by_from` and `from_list` are
sequences as in the code; `sessions` is the tree of authentication sessions
by key.  A handler holds `conn->lock` from its first read to its last write,
so it is one step.  `authed` is a history variable: the grants of the
authenticator that nothing has withdrawn.  Of the output only the kind of the
newest message is kept.

**`Registry`** is the abstract view: which connections are open and under which
callsigns each can be reached.  **`LogonRegistry`** states that `LogonServer`
implements it; the mapping is the identity on `live` and `conns_by_from`.

**`StoreForward`** uses `Registry` for the logons and adds the passage of a
message: `ConnProcessMsg` (with `Admitted`, the chain of refusals of
conn_process_msg, and `Stamps` for the sender's name), `PassThrough` or
`RouterProc` (msg_router.c), `ForwardMsgCb` (delivery, storing or refusal),
and the sweep in its real steps: reading the next pointer without the lock
(`SweepNext`), then one message inside it (`SweepMsg`).  The main thread moves
through the phases of its loop: input, completion of logons, sweep.  Router
threads and the websocket thread run in all of them.  `got`, `told` and `lost`
are histories of what became of each message.

**`Mailbox`** is what a station may rely on: one queue per callsign, first in
first out, in which messages also may expire.  **`StoreMailbox`** states that
`StoreForward` implements it; a callsign's mailbox is what of the queue is for it.

**`Lists`** has what taking elements out of a list leaves: by position (`RemoveAt`), by
value (`RemoveFirst`), or all that are not wanted (`Chosen`, `Excluding`, which are
SelectSeq as a recursive function of positions, in a form that can be reasoned about).
It defines the few operators the models need itself, because SequencesExt brings in the
whole of Bags, and the prover carries everything in scope into every step of a proof.

**`LockOrder`** keeps of the same handlers only the locks.  A thread is a stack
of things to do; a call is replaced by the body of the function as the state
then demands.  `CompleteLogon` is the first lock of complete_logon and `LogonResult`
the rest, which depends on the state found inside it.  Its connections stay: one
that is closed is a new one next.
All connections in the table are recipients of the messages that are sent.

**`MainLoop`** is the main thread beside its clients and one thread that
ends logons.  `MakePollSet`, `PollReturns` and `PollReturnsNothing`, `Accept`, and
`PassConn`, `ConnFails`, `ConnWorks` and `ConnsDone` for each connection in turn,
are poll_sockets; then come `CompleteLogons`, the block list (`StatBlocklist`,
`ReadBlocklist`, `CannotOpenBlocklist`, `close_blocked_conns`),
`close_timedout_conns` and the logon list (`BeginList`, `WriteList`,
`RenameList`).  The events a connection is served for are those at the place `nr`
of the poll array, as in the code; past its end they are arbitrary.  A poll may fail, and
counts sockets that have nothing but an error.  The time of the block list's file is in
seconds, so that two edits may have the same one (`file.again` remembers it); entries that
are host names (`Hosts`) may be skipped when the file is read.
`LogonEnds` and `LogonEnded` are conn_reset_logon in another thread: the entry
goes first and the mark is set after it.

**`ClientLink`** is the client library.  The worker's program counter has one value
for each place where the code drops the client's lock (resolving, the polls of a
connection and of a link, the handshake, the callback; with a simulated bit rate
also before every read and write) and for each message in between.  Calls of
the application are single steps, possible where the lock is free.  A list of
messages that the code links twice is `fault`, and nothing is claimed after it.

**`Session`** composes it with the box that logs on and off and the server's end of the
connection: what the server accepts, answers and forwards, and that it may
close at any time.  `srv.by` is a history: the station whose END SERVICE ended the last
logon at the server.  A reaction of the box is two steps, because it asks for the status
with one call and acts with another.  Client and server run over the two
directions of one socket (`up`, `down`), which closing empties.

**`MsgList`** has the threads of messages and the calls of cpdlc_msglist.c, each a
single step under the list's lock.  **`FansBox`** extends it with the pages: what
a key does is split where it calls the list more than once (`generate`, `answer`,
`close`, `update`, `draw`, `read`, `reports`, `walk`), and `Receive`, the client's
callback, may come between any two.

**`LogonServerProofs`**, **`StoreForwardProofs`** and **`MailboxProofs`**,
**`LockOrderProofs`**, **`MainLoopProofs`**, **`SessionProofs`** and **`FansBoxProofs`** hold the
proofs, with **`ListLemmas`** for the facts about lists they share.  Definitions with the comment "Mutant" are not
used by any specification: each is a plausible error in the definition that
follows it, and makes a property fail.

## Runs

All passing runs end by exhausting the state space.

| run | instance | shows |
|---|---|---|
| `logon` | a TCP and a websocket connection, 2 callsigns, 2 sessions, with fairness | the table and the lists agree, callbacks find their logon, a started logon has its session, `IInv`; a logon on a connection without identities never ends in silence; `KeepsRegistry`; every logon ends; a TCP connection that is not logged on comes to a logon or is closed, save one whose logon was granted without TO= |
| `identities` | 1 connection, 3 callsigns, 4 sessions, all authenticators | a station that is logged on has an identity; identities, role and data authority were granted |
| `direct` | 2 connections, 7 kinds of input, queue limit 3, quota 2, no router | the counters are exact and within limits; nothing waits for a station that is there once the sweep is over; `StoreForward` implements `Mailbox`, so messages reach a callsign in order |
| `routed` | 2 router threads that also rewrite or discard, messages of size 1 and 2, queue limit 2, with fairness | counters under concurrency, messages appended behind the sweep included; each message is in exactly one place; every message is delivered, refused or dropped |
| `locks` | a websocket connection; messages routed by a thread, or not | a circle of waiting threads always includes one waiting for a connection's lock; shared state changes inside its lock |
| `mainloop` | 2 clients, one in the block list by host name; two connections, or one and three edits of the block list | a connection is served for its own poll results; the early exit skips nobody; the logon list is current unless writing failed; a client whose address is in an up-to-date block list has no connection |
| `session` | 2 stations, TLS, a simulated bit rate, 2 keys, 2 messages, a server that closes and refuses | what the link holds in which state; outgoing messages in order; data authorities were chosen by the pilot or by the one before; client and server agree on the logon, unless another station's END SERVICE ended it at the server |
| `attempt` | 1 station, 2 addresses, with fairness | a logon comes to an end; a logoff takes an established link down |
| `crew` | 2 uplinks of 4 kinds, 2 keys, a change of the logon | outcomes are final; uplinks are in the right thread; nothing is marked seen that was not shown; one verdict per thread; reports follow acceptance; the report on the screen is due |
| `answers` | 2 uplinks of all kinds, a key, with fairness | an uplink that calls for an answer is settled, on standby or timed out in the end |

Two runs end in a counterexample, where the code and its own words differ:

| run | what happens |
|---|---|
| `locks_kill` | closing a connection while the answer to its logon arrives: auth_sess_kill waits for a lock the worker holds, which waits for the connection's lock, and the mark that the comment speaks of is never set |
| `pair` | two messages are queued when the socket takes output: do_msg_output writes the first and looks at the second without taking it off the list (`cpdlc_client.c:1632`), so that one is linked twice or freed while linked |

**Bounds.**  `MaxSessions` bounds the logons ever started and, in `StoreForward`,
`MaxMsgs` the messages ever forwarded.  Two logons show a killed session beside its
successor; four on one connection show an ATC station gaining and losing
several identities.  Two connections are enough for two recipients of a
callsign and for a session that belongs to another connection.  Two messages
fill the queue of limit 3 (sizes 1 and 2), exceed the quota of 2, and show
one that waits while another arrives.  In `routed` the limit is 2, so that two messages of
size 1 fit, one of them added by a router while the sweep is at the other, and one of size 2 leaves no room.  `GraceTime` is 0 or 1 tick: the code only
compares.  `GraceTimeIsKept` is true of the code only if a client stops asking in the end, as
every refused LOGON starts the grace time anew; `MaxSessions` stands for that.  In `LockOrder` a connection has at most one session at a time, and
the depth of locks is bounded by the calls.

In `MainLoop`, `Bounds` is a set of pairs, which keeps the instance small.  Two connections
without edits have one accepted in the pass that closes another, and a client come
back.  One connection with three edits has an edit fall before, between stat and reading, or after
it, and in the same second or a later one.  In `Session`, `MaxKeys` 2 is a logon and either a logoff or a second
logon over it; `MaxMsgs` 2 is a NEXT DATA AUTHORITY and the END SERVICE that follows, or two
messages of the aircraft, or one of each side; `MaxCloses` and `MaxErrors` 1 a fault of the
server at any point; `MaxTokens` stops the keep-alive from sending for ever.
`Addresses` 2 has a first address refused.  In `FansBox`, `MaxUplinks` 2 is an
uplink and one that refers to it or overtakes the answer; `MaxKeys` 2 an answer
and a second one, or a request and an answer; `MaxChanges` 1 a logon lost.

A run of `LogonServer` may stop once its logons are used up, one of `Session` once its
keys are, and one of `LockOrder` in a real deadlock, so TLC's own deadlock check is
off there; it is on for `StoreForward`, `MainLoop` and `FansBox`.

**Fairness.**  The main loop visits every phase within its poll timeout, so
`CompleteLogon`, `CloseTimedout` and the steps of the sweep are weakly fair.  A
worker or router thread waits only for an RPC, which has a timeout of 10 s.
The clock advances.  libwebsockets calls back a connection with output.  No
fairness is assumed of peers: input, logoffs and closing may never come.  In
`LockOrder` a thread that could proceed again and again does so in the end
(strong fairness, as a mutex may be taken by others in between); the deadlock
appears all the same.  In `Session` the client's worker runs (weak fairness: its
polls have timeouts), and fans_update, which the application calls over and over,
gets the client's lock again and again, so noticing and acting on a late logon
are strongly fair.  Nothing is assumed of the network or the server: that a
logon ends rests on the box's time-out alone.  In `FansBox` fans_update goes on and time
passes; the pilot need not do anything.

## Proofs

Every safety property the passing runs check, every action property and both refinements
are proved for all values of the constants; the runs' bounds appear in the theorems
only as constants that may be any natural number.  None of the properties is
inductive alone, so each part below names the invariant that is, and says what it adds
and why.  Of these invariants the run `logon` checks the logon server's `IInv`.  The others are not
in the runs, but TLC was given them on the instances of `direct` and `routed`,
`mainloop`, `session` (with and without ARINC 622 and TLS) and `crew`, and found no
violation.  Two parts are not among what it was given: it cannot evaluate the second
half of `Once`, which speaks of all numbers, and `Runs`, which speaks of functions
to the naturals.  These rest on their proofs.

**The logon server** (`LogonServerProofs`).  For every set of connections and
callsigns, every number of sessions and every grace time, from the assumptions that
the two kinds of connection are disjoint and that the empty string is not a callsign:

- `Invariance`: `Spec => []IInv`, and from it `TypeCorrect`,
  `TableIsConsistent`, `CallbacksAreSafe`, `LogonsAreWorkedOn`,
  `LoggedOnIsSomebody`, `IdentitiesGranted`;
- `LogonsAreAnswered`: the action property `LogonIsAnswered`;
- `LogonKeepsRegistry`: the refinement `KeepsRegistry`.

The table agrees with the
lists only if a closed connection is as new (`ClosedIsFresh`) and if the
identity a pending logon will register is not registered yet (`PendingIsNew`).
A callback finds its logon because a STARTED connection has exactly the one
live session its `auth_key` names, and a reset kills it; that needs both
`CallbackFindsItsLogon` and `StartedLogonHasSession`, as `auth_sess_kill` goes
by the key.  Grants stand (`GrantsStand`) for sessions and pending logons as
well as for registered identities.  `IInv` is the conjunction, and TLC checks it
in `logon`.

The proof has a lemma per handler (`AcceptStep`, `ProcessLogonRpcStep`,
`AuthWorkerStep`, `CompleteLogonStep`, ...).  Three patterns are shared:
`ResetStep` (the connection gives up everything), `ClearStep` (it gives up what
a new LOGON or LOGOFF replaces) and `FrameStep` (other connections are as
before).  For the refinement, `RegNext` goes through the handlers again: each adds
one callsign, takes away one or all of a connection's, or leaves the table alone.
The code takes out one entry of a list where `Registry` takes out all of a connection's;
they are the same because no list holds a connection twice, which `IInv` says.

**Store and forward** (`StoreForwardProofs`, `MailboxProofs`).  For every set of
connections, callsigns, inputs and logons, any limits, and any number of router threads:

- `StoreTypeOK`, `StoreIsAccounted` (`QueueIsAccounted`), `EachMessageOnce`
  (`EveryMessageOnce`), from `IInv`: `Once` says of every number where its
  message is, and that no list holds it twice; `Accounted` that byte count and quotas are
  sums over the queue; `Cursors` that the sweep's two pointers and the marks of the
  clock are at messages that are still queued, and that the two pointers differ.
- `MessagesOnlyMoveOn` (`MessagesMoveOn`, an action property): a message goes from the
  router into the queue once at most, leaves the queue delivered or too old, and stays
  delivered, refused or dropped.
- In `MailboxProofs`, `NothingWaits` (`NothingWaitsForThePresent`) and, without router threads,
  `StoreServesMailboxes` (the refinement `ServesMailboxes`), from `IInv` and `Direct`: there
  is at most one message between admission and forwarding, what the sweep is
  past has nobody to go to, the successor it looked up is still the next one, and
  messages age in the order of the queue.
- `ReceivedInOrderOfArrival` (`InOrderOfArrival`): without router threads, a callsign
  receives messages in the order they came in, and has none that is younger than one still
  queued for it.  It follows from the refinement: the steps of `Mailbox` keep what
  a callsign received, what waits for it and what is yet to come in line (`Lines`).

`MessagesMoveOn` and `InOrderOfArrival` are not among the properties of the runs.  TLC
finds no violation of the first, for the numbers of messages there can be, on the instances of `direct` (528184 distinct states) and
`routed` (287098), nor of the second on that of `direct`.

A step moves one message from one place to another; `OneMoves` and its like say
what that does to `Once`, and the sums change by the lemmas at the beginning of
`StoreForwardProofs` (inductions over the size of what is summed over).  To a
mailbox a step is an arrival at the end, a departure from the head, an
expiry, or nothing.

**The locks** (`LockOrderProofs`).  For any finite set of connections, whose names are not
those of the other locks, and any router threads that are not the main, websocket or worker
threads: `LockOrderTypeOK`, `OnlyConnectionsDeadlock` (`DeadlocksNeedAConnection`),
`ChangesUnderTheirLocks` (`ChangesAreGuarded`) and `NoLockIsLeft` (`LocksAreReturned`): a
thread that holds a lock has something left to do, so every way through a handler leaves
the locks it entered.  No run checks the last; TLC finds no violation of it on the instance
of `locks` (65962 distinct states).

The invariant `LocksInv` says of every thread that what is on its stack can be run
from the locks it holds down to none (`Runs`): a lock is entered only
behind the locks of lower rank, and left by its holder.  A call
on the stack stands for any of its bodies, so `Runs` asks of it only what the
function needs of its caller (`Ready`), and `BodiesRun` shows for each function that
its body, in whatever state it comes to run, keeps to that.  In a circle of threads that wait
for locks of no connection the ranks would have to rise all the way round.

**The main loop** (`MainLoopProofs`).  For any finite set of connections, any of
them named by host, and any number of connections made and of edits of the block list:

- `ResultsAreTheirOwn` (`OwnResults`) and `NoEventIsSkipped` (the action property
  `NobodyIsSkipped`), from `Poll`: what is left of `conns_tcp` lies, position by
  position, on what is left of the poll array, with accepted connections behind its
  end; and the number of events not seen yet is the number of entries left that have one.
- `BlockedAreGone` (`BlockedClientsAreGone`), from `Blocklist`: a table whose time is
  the file's, or a reading under way with that time, stands for the file's present entries
  unless it was edited again in that second; the table holds those of them that are
  addresses, and except between reading and closing nobody it names is connected.
- `MainLoopTypeOK`.
- `ListStaysCurrent` (`ListIsCurrent`), from `ListInv`: as long as no change is marked or
  about to be, the temporary file holds the table before it is renamed, and the list does
  otherwise, unless writing it failed.

**The session** (`SessionProofs`).  For every set of stations, any number of addresses,
keys, messages, closings and errors, with and without TLS, ARINC 622 and a bit rate:

- `TypesCorrect`: `TypeOK`.  To be inductive it also says that the worker has a
  message in hand while it writes.
- `LinkStaysConsistent`: `LinkIsConsistent`.  complete_conn and tls_handshake set
  the status without looking at what a logoff made of it meanwhile, so the
  invariant (`LinkInv`) knows the socket and the TLS session from where the worker
  is, and that a worker exists exactly when `worker_started` says so.
- `MessagesStayInTurn`: `InTurn`, from `TurnInv`, which speaks of the list and of the
  message in hand apart.
- `AuthoritiesAreNamed`: `AuthorityWasNamed`.  The invariant (`NameInv`) adds that every
  UM160 on its way is from a station that did name the one it names.
- `EndsAgree`: `Agreement`.  The invariant (`AgreeInv`) says for each status of the client
  what may be under way: while it waits for an answer, exactly one of a LOGON on its way
  (in the list, in the worker's hand or on the wire), a logon being decided, a failure, or
  a success, perhaps with an END SERVICE behind it; once it is logged on, either the server
  has it logged on to the same station or the END SERVICE that ended that is on its way
  (`Matched`), or a station other than its data authority ended it (`Parted`) and no END
  SERVICE of the data authority follows; otherwise nothing.  It holds as long as no logon is
  requested over another and the list of outgoing messages is sound, and needs that a link on which nothing was sent is empty, because the
  worker sets AVAIL without looking at the status.

**The message threads and the pages** (`FansBoxProofs`).  For any number of uplinks, keys and
changes of the logon, and any kinds of uplink:

- `FansBoxTypeOK`, `UplinksAreFiled` (`Filed`), `NothingGoesUnseen` (`NothingIsMissed`),
  `VerdictsAreSingle` (`OneVerdict`), `ReportsAreFounded` (`ReportsFollowAcceptance`) and
  `SelectionIsDue` (`SelectedIsDue`), from `IInv`;
- `OutcomesAreFinal`: the action property `OutcomeIsFinal`.

`Grown` says what a step may do to the list of threads: messages are appended to
threads, threads to the list, and a thread's outcome changes as its status allows.
`StepGrows` shows it once for every step, and the parts of `IInv` are kept by whatever
does no more than that.  `IInv` adds to the properties where the box is between the calls of a
key (`Control`), that a thread with a verdict is settled and the one the box is about to
answer has none (`Settled`, `Undecided`), that numbers of messages are below the next
ones (`Numbered`), so that a new message never matches an old reference, and that
the box is just accepting where a report is due before its answer is sent (`Reports`).

**Lists** (`ListLemmas`).  What `Chosen`, `Excluding`, `RemoveAt` and `RemoveFirst` leave of a
list, and what a list holds, place by place, after the elementary operations.  The former are
inductions over the length of a list.  The library's induction theorems cannot be used,
so the module has its own over sets of numbers (`NatSetInduction`, from
`LeastNatural`): the set of lengths up to which a statement holds contains 0, and n + 1
with n.

**Only model-checked:** liveness (`LogonEnds`, `GraceTimeIsKept`, `MessagesAreSettled`,
`AttemptEnds`, `LogoffIsHeeded`, and that uplinks are settled), which rests on fairness, for which the prover
has no rules.  The two runs that end in a counterexample are TLC's as well.

## What the code does otherwise than one might expect

Met while modelling, and part of the models unless it says otherwise; the two runs
above show two more.

In the server (`cpdlcd.c`):

- An aircraft LOGON without TO= that the authenticator grants is refused
  afterwards but leaves `logon_success` set (1163-1169), so the connection is never
  timed out (2350), against the comment at 92-95.  `GraceTimeIsKept` excepts it.
- A failed second logon leaves a station that is logged on to the grace time, and
  a further identity granted as an aircraft turns an ATC connection into an
  aircraft with several identities (1137).
- A silent websocket connection beyond its grace time is marked, but libwebsockets
  closes it only with its next event (2364).
- Stored messages of ATC stations are charged to a quota (1679), against
  1552-1554: the router's callback does not say who sent them.
- A stored END SERVICE is sent by the sweep as any other message (2296) and does not
  end the logon of the one it reaches, as it does when it is forwarded (1439-1442).
- An END SERVICE ends the logon of the aircraft it is forwarded to, whichever station it is
  from (1422-1446).  The client heeds only its data authority's (`cpdlc_client.c`
  1344-1356) and stays COMPLETE, until the server closes the connection after the grace time.
  `Agreement` has this as the only way to differ once everything has arrived.
- A router thread forwards past messages that still wait for the sweep (1669), even
  if it is the only one.
- handle_queued_msgs and forward_msg_cb take `conn->lock` inside
  `conns_by_from_lock` (2296), conn_reset_logon the other way round (1050-1057): a
  delivery to a websocket connection that is closing can deadlock.
- send_error_msg sets no FROM= (1462-1502), so an aircraft that is logged on
  answers an error of the server with NOT CURRENT DATA AUTHORITY
  (`cpdlc_client.c:1344`).
- Connections accepted in a pass are looked at in the same pass, past the end of the
  poll results.  What is found there does no harm: reading finds nothing.
  The repetition of a poll whose list has changed cannot happen, because only
  the main thread changes it.
- A failed write of the logon list is not repeated until the next change; the list is
  walked without the table's lock (2411).
- An edit of the block list in the second of the version in use has the same time and is
  missed (`blocklist.c:195`), and an entry whose name cannot be looked up is skipped until the
  next edit (133-137).  `BlockedClientsAreGone` excepts both.

In the client (`cpdlc_client.c`):

- A logoff while the worker resolves, connects or shakes hands is overwritten by
  the status that follows (1028, 1269).  `LogoffIsHeeded` is about established links.
- A logon requested while another is under way takes the first answer for its own, so
  client and server may differ on the data authority.  `Agreement` excepts it.
- A logon requested while the old worker is leaving is lost: `worker_started` is still set
  (1991), so no other is started, and reset_link_state (475, called at 746) resets the status
  and frees the addressee.  The client is then in status NONE without a failure.  The model
  has this, and no property excludes it: `AttemptEnds` is about a worker that has started.
- Tokens returned by do_msg_output are not counted (1744): the callback for sent
  messages is never made.  A message counts as sent once it is written.
- Not in the model: the OpenSSL build never clears `handshake_completed`, and
  cpdlc_client_set_host during a session clears `unenc_local` (602-605).

In the aircraft's box:

- An answer filed between sending a request and closing its thread (`fans_vrfy.c`
  97-101) lands in the thread that is closed next.
- The reject page sends without looking at its thread again (`fans_rej.c:144`); with
  assertions on, msglist_send_impl would fail at one that has ended.
- An accepted thread still receives uplinks that refer to it.
- Not in the model: MRNs are matched across stations; MINs wrap at 64 in ARINC 622
  format; the number of subpages that decides what counts as reviewed may be stale
  (`fans_msg.c` 364-368).

## Abstractions and limits

- A message is a record of what decides its fate: on the server direction, TO=,
  FROM=, size and kind, on the link kind and addressee, in the threads kind, MIN and MRN.
  Encoding and formats are left out.
- Reading a socket yields whole messages; partial reads are left out.  TLS is the
  state of its session and the outcome of its handshake.
- Freed connections are slots that may be used again.
- The authenticator is an input: any answer, or none before its timeout.
- `StoreForward` admits a connection's messages if it has an identity, where the code asks for
  its logon status (1739).  The status is not COMPLETE, and messages are refused, also while
  an ATC station waits for the answer to a further LOGON and after its failure.  A refused message
  changes nothing that is kept, so the model only admits more than the code.
- In `LockOrder` the log's lock, inside which nothing is called, is left out, and
  taking one identity out of the table is like taking out all of them.
- In the client a message with several segments is treated as one message per segment (1359-1374), and
  a message that cannot be decoded ends the link at once; the code goes on reading
  (1607), but what it cannot decode stays at the front of the buffer, so every later try fails too.
- In `Session` the server is reduced to one connection, and any station may send to the
  aircraft while it is logged on, an END SERVICE included.  `LogonServer` and `StoreForward` have what
  happens behind it.
- In `MsgList` answers the code treats alike are one kind, and a thread is late or
  not; the box's clock only passes time-outs that make a difference.
- The GnuTLS build of the client, and release builds (assertions check nothing), are
  modelled.
- libacfutils (lists, hash tables, AVL trees, mutexes, task queues) is not part
  of the sources here and is modelled from its use: lists keep order, a
  multi-valued table keeps a list per key, mutexes are recursive, a task queue
  hands out tasks in order.

## Not modelled

- The websocket service's filter of new connections by the block list, and the notification of
  logons by RPC: calls into libraries, without state of their own.  RPC over libcurl and the simulator interface are I/O.
- In the client, changing host, keys or bit rate during a session and the OpenSSL
  build; a logoff on behalf of one identity, which the box never asks for.
- In the message list, the reviewed flag, and removal of threads, which nothing calls.
- The FANS request pages, the scratchpad and the widgets: drafts that only the
  application's thread touches, checked field by field, up to the verify page, which is
  modelled.
- The message codec, the table of message types, the ARINC 622 codec and the
  generated ASN.1 code: no state, and inputs that are strings and structures of every
  argument type, which a model would only transliterate.  Together with the
  generated code they are most of the lines under `src/`.
- Configuration, TLS set-up and daemon mode run once before the loop.  The graphical
  display, the test program and the portability wrappers.
