--------------------------- MODULE MainLoopProofs ---------------------------
(***************************************************************************)
(* Proofs, for any number of connections and any number of edits, about    *)
(* the server's main thread: it pairs connections with their poll results  *)
(* rightly and leaves none out, nobody on the blocklist stays connected,   *)
(* and the file with the list of logons is current.                        *)
(*                                                                         *)
(* The invariant has a part for each of these.  Kept: the connections and  *)
(* those not accepted yet.  Poll: how the loop over the connections stands *)
(* to the poll set, and how many events it has still to see.  Blocklist:   *)
(* how the table in memory stands to the file.  ListInv: what the          *)
(* temporary file holds while the list of logons is written.               *)
(***************************************************************************)
EXTENDS MainLoop, ListLemmas, FiniteSetTheorems

\* t is the list s, without repetitions, with the elements of W behind it, none of which it has.
Joins(S, s, W, n, t) ==
    /\ IsFiniteSet(S) /\ s \in Seq(S) /\ IsInjective(s)
    /\ W \in SUBSET S /\ W \cap Range(s) = {} /\ n \in Arrangements(W) /\ t = s \o n

\* A function on 1 .. n is a list of length n.
LEMMA FunctionIsList ==
    ASSUME NEW S, NEW n \in Nat, NEW f \in [1 .. n -> S]
    PROVE  f \in Seq(S) /\ Len(f) = n /\ DOMAIN f = 1 .. n
  OBVIOUS

\* What handle_accepts leaves: the old connections in their places, the new ones behind.
LEMMA Linking ==
    ASSUME NEW S, NEW s, NEW W, NEW n, NEW t, Joins(S, s, W, n, t)
    PROVE  /\ t \in Seq(S) /\ IsInjective(t)
           /\ Range(t) \subseteq Range(s) \cup W
           /\ Len(s) <= Len(t)
           /\ \A k \in DOMAIN s : t[k] = s[k]
<1> /\ IsFiniteSet(S) /\ s \in Seq(S) /\ IsInjective(s)
    /\ W \in SUBSET S /\ W \cap Range(s) = {} /\ n \in Arrangements(W) /\ t = s \o n
  BY DEF Joins
<1>0. IsFiniteSet(W)
  BY FS_Subset
<1>1. PICK m \in Nat : m = Cardinality(W)
  BY <1>0, FS_CardinalityType
<1>2. n \in [1 .. m -> W] /\ \A i, j \in 1 .. m : i # j => n[i] # n[j]
  BY <1>1 DEF Arrangements, Injection, IsInjective
<1>3. n \in Seq(W) /\ Len(n) = m /\ DOMAIN n = 1 .. m
  BY <1>2, FunctionIsList
<1>4. n \in Seq(S)
  BY <1>2, <1>3
<1>5. /\ t \in Seq(S) /\ Len(t) = Len(s) + m
      /\ \A i \in 1 .. Len(s) + m : t[i] = IF i <= Len(s) THEN s[i] ELSE n[i - Len(s)]
  BY <1>3, <1>4, ConcatPlaces, ZenonT(30)
<1>6. DOMAIN t = 1 .. Len(s) + m /\ DOMAIN s = 1 .. Len(s) /\ Len(s) \in Nat
  BY <1>5
<1>7. ASSUME NEW i \in 1 .. Len(s) + m
      PROVE  IF i <= Len(s)
             THEN t[i] = s[i] /\ t[i] \in Range(s) /\ t[i] \notin W /\ i \in DOMAIN s
             ELSE t[i] = n[i - Len(s)] /\ i - Len(s) \in 1 .. m /\ t[i] \in W
  <2>1. CASE i <= Len(s)
    <3>1. i \in DOMAIN s /\ t[i] = s[i]
      BY <1>5, <1>6, <2>1
    <3>2. t[i] \in Range(s)
      BY <3>1 DEF Range
    <3> QED
      BY <2>1, <3>1, <3>2
  <2>2. CASE ~(i <= Len(s))
    <3>1. i - Len(s) \in 1 .. m /\ t[i] = n[i - Len(s)]
      BY <1>1, <1>5, <1>6, <2>2
    <3> QED
      BY <1>2, <2>2, <3>1
  <2> QED
    BY <2>1, <2>2, Zenon
<1>8. Range(t) \subseteq Range(s) \cup W
  BY <1>6, <1>7 DEF Range
<1>9. \A i, j \in DOMAIN s : s[i] = s[j] => i = j
  BY DEF IsInjective
<1>10. ASSUME NEW i \in 1 .. Len(s) + m, NEW j \in 1 .. Len(s) + m, t[i] = t[j]
       PROVE  i = j
  <2>1. CASE i <= Len(s) /\ j <= Len(s)
    BY <1>7, <1>9, <1>10, <2>1
  <2>2. CASE i > Len(s) /\ j > Len(s)
    BY <1>2, <1>6, <1>7, <1>10, <2>2
  <2>3. CASE (i <= Len(s)) # (j <= Len(s))
    BY <1>6, <1>7, <1>10, <2>3
  <2> QED
    BY <1>6, <2>1, <2>2, <2>3
<1>11. IsInjective(t)
  BY <1>6, <1>10 DEF IsInjective
<1> QED
  BY <1>5, <1>6, <1>8, <1>11

\* A list without repetitions is no longer than its set of elements.
LEMMA ListFits ==
    ASSUME NEW S, IsFiniteSet(S), NEW s \in Seq(S), IsInjective(s)
    PROVE  Len(s) <= Cardinality(S) /\ Cardinality(S) \in Nat
<1>1. s \in [1 .. Len(s) -> S] /\ Len(s) \in Nat
  OBVIOUS
<1>2. s \in Injection(1 .. Len(s), S)
  BY <1>1 DEF Injection
<1>3. Cardinality(1 .. Len(s)) <= Cardinality(S)
  BY <1>2, FS_Injection
<1> QED
  BY <1>1, <1>3, FS_Interval, FS_CardinalityType

\* The loop goes on to the next element.
LEMMA TailKeeps ==
    ASSUME NEW S, NEW s \in Seq(S), s # <<>>, IsInjective(s), NEW t, t = Tail(s)
    PROVE  /\ t \in Seq(S) /\ IsInjective(t) /\ Len(t) = Len(s) - 1 /\ Len(s) >= 1
           /\ \A k \in DOMAIN t : k + 1 \in DOMAIN s /\ t[k] = s[k + 1]
<1>1. /\ t \in Seq(S) /\ Len(t) = Len(s) - 1 /\ Len(s) \in Nat /\ Len(s) >= 1
      /\ DOMAIN s = 1 .. Len(s) /\ DOMAIN t = 1 .. Len(t)
  OBVIOUS
<1>2. \A k \in DOMAIN t : k + 1 \in DOMAIN s /\ t[k] = s[k + 1]
  BY <1>1
<1> QED
  BY <1>1, <1>2 DEF IsInjective

-----------------------------------------------------------------------------
\* Every connection is listed once, and those not accepted yet are not listed.
Kept ==
    /\ conns \in Seq(Conns) /\ IsInjective(conns)
    /\ waiting \subseteq Conns /\ waiting \cap Linked = {}

\* The types of what a pass works with.  Every connection of the pass has a place in nr + Len(todo).
PollTyped ==
    /\ pc \in Steps
    /\ pfds \in Seq(Conns) /\ IsInjective(pfds)
    /\ results \in Seq(Events) /\ Len(results) = Len(pfds)
    /\ todo \in Seq(Conns) /\ IsInjective(todo)
    /\ nr \in Nat /\ nr >= 1 /\ nr + Len(todo) <= Cardinality(Conns) + 1
    /\ seen \in Nat /\ res \in Nat /\ listening \in BOOLEAN

\* The connections of the poll set that have an event and were not come to.
Pending == {k \in DOMAIN results : k >= nr /\ results[k] # {}}

\* Up to the loop over the connections, the poll set lists them all.  In the loop, what is left of
\* the list lies on what is left of the poll set, and the events not seen yet are those pending:
\* past the end of the poll set, where the loop finds anything, none is.
Passing ==
    /\ pc \in {"wait", "accept"} => pfds = conns
    /\ pc # "conns" => todo = <<>> /\ nr = 1
    /\ pc = "accept" => res >= seen + Cardinality(Pending) + (IF listening THEN 1 ELSE 0)
    /\ pc = "conns" =>
         /\ Len(pfds) < nr + Len(todo)
         /\ \A k \in DOMAIN todo : nr - 1 + k \in DOMAIN pfds => todo[k] = pfds[nr - 1 + k]
         /\ nr \in DOMAIN results => res >= seen + Cardinality(Pending)

\* close_conn takes exactly the connections closed off the list.
LEMMA Closing ==
    ASSUME Kept, NEW cs, CloseConns(cs), waiting' = waiting
    PROVE  Kept' /\ Linked' = Linked \ cs
<1>1. conns' = Excluding(conns, cs) /\ conns \in Seq(Conns) /\ IsInjective(conns)
  BY DEF CloseConns, Kept
<1>2. conns' \in Seq(Conns) /\ IsInjective(conns') /\ Range(conns') = Range(conns) \ cs
  BY <1>1, ExcludingFacts
<1> QED
  BY <1>2 DEF Kept, Linked

\* No step lists a connection twice, or one that was not accepted.
LEMMA KeptStep ==
    ASSUME Kept, [Next]_vars
    PROVE  Kept'
<1> USE MainLoopAssumption
<1>1. CASE UNCHANGED <<conns, waiting>>
  BY <1>1 DEF Kept, Linked
<1>2. CASE Accept
  <2>1. PICK new \in Arrangements(waiting \ blocked) : conns' = conns \o new
    BY <1>2 DEF Accept
  <2>2. waiting \ blocked \in SUBSET Conns /\ (waiting \ blocked) \cap Range(conns) = {}
    BY DEF Kept, Linked
  <2>3. Joins(Conns, conns, waiting \ blocked, new, conns')
    BY <2>1, <2>2 DEF Kept, Joins
  <2>4. conns' \in Seq(Conns) /\ IsInjective(conns')
    BY <2>3, Linking
  <2> QED
    BY <1>2, <2>4 DEF Accept, Kept
<1>3. CASE ConnFails
  BY <1>3, Closing DEF ConnFails
<1>4. CASE close_blocked_conns
  BY <1>4, Closing DEF close_blocked_conns
<1>5. CASE close_timedout_conns
  BY <1>5, Closing DEF close_timedout_conns
<1>6. CASE \E c \in Conns : Connect(c)
  BY <1>6 DEF Connect, Kept, Linked
<1>7. CASE \E c \in Conns : ClientSends(c) \/ Forward(c) \/ LogonEnds(c)
  BY <1>1, <1>7 DEF ClientSends, Forward, LogonEnds, netVars
<1>8. CASE MakePollSet \/ PollReturnsNothing \/ PollReturns \/ NothingToAccept \/ PassConn
           \/ ConnWorks \/ ConnsDone
  BY <1>1, <1>8 DEF MakePollSet, PollReturnsNothing, PollReturns, NothingToAccept, PassConn,
         ConnWorks, ConnsDone, netVars
<1>9. CASE CompleteLogons \/ StatBlocklist \/ CannotOpenBlocklist \/ ReadBlocklist \/ BeginList
           \/ WriteList \/ RenameList \/ LogonEnded \/ EditBlocklist
  BY <1>1, <1>9 DEF CompleteLogons, StatBlocklist, CannotOpenBlocklist, ReadBlocklist,
         BeginList, WriteList,
         RenameList, LogonEnded, EditBlocklist, netVars
<1>10. CASE UNCHANGED vars
  BY <1>1, <1>10 DEF vars, netVars
<1> QED
  BY <1>2, <1>3, <1>4, <1>5, <1>6, <1>7, <1>8, <1>9, <1>10 DEF Next, MainThread

\* Polling: what was set up, and what is left of it.
Poll == PollTyped /\ Passing

\* After the pass there is nothing of it left.
LEMMA Ends ==
    ASSUME PassEnds
    PROVE  Poll'
<1>1. /\ pc' = "logons" /\ pfds' = <<>> /\ results' = <<>> /\ todo' = <<>>
      /\ nr' = 1 /\ seen' = 0 /\ res' = 0 /\ listening' = FALSE
  BY DEF PassEnds
<1>2. Cardinality(Conns) \in Nat
  BY MainLoopAssumption, FS_CardinalityType
<1>3. IsInjective(<<>>)
  BY DEF IsInjective
<1>4. /\ pfds' \in Seq(Conns) /\ results' \in Seq(Events) /\ todo' \in Seq(Conns)
      /\ Len(pfds') = 0 /\ Len(results') = 0 /\ Len(todo') = 0
  BY <1>1
<1>5. IsInjective(pfds') /\ IsInjective(todo')
  BY <1>1, <1>3
<1>6. nr' + Len(todo') <= Cardinality(Conns) + 1 /\ Len(results') = Len(pfds')
  BY <1>1, <1>2, <1>4
<1>7. nr' \in Nat /\ nr' >= 1 /\ seen' \in Nat /\ res' \in Nat /\ pc' \in Steps
  BY <1>1 DEF Steps
<1>8. PollTyped'
  BY <1>1, <1>4, <1>5, <1>6, <1>7, Zenon DEF PollTyped
<1>9. Passing'
  BY <1>1 DEF Passing
<1> QED
  BY <1>8, <1>9 DEF Poll

\* The steps outside of poll_sockets leave it alone.
LEMMA Elsewhere ==
    ASSUME Poll, UNCHANGED pollVars, pc' \in Steps,
           pc \notin {"wait", "accept", "conns"}, pc' \notin {"wait", "accept", "conns"}
    PROVE  Poll'
  BY DEF Poll, PollTyped, Passing, pollVars

\* So do the clients and the other threads.
LEMMA Untouched ==
    ASSUME Poll, UNCHANGED <<pc, conns, pollVars>>
    PROVE  Poll'
<1>1. PollTyped'
  BY DEF Poll, PollTyped, pollVars
<1>2. Pending' = Pending
  BY DEF Pending, pollVars
<1>3. Passing'
  BY <1>2 DEF Poll, Passing, pollVars
<1> QED
  BY <1>1, <1>3 DEF Poll

\* The poll set lists the connections in their order.
LEMMA MakesPollSet ==
    ASSUME Poll, Kept, MakePollSet
    PROVE  Poll'
<1>1. /\ pc = "poll" /\ pc' = "wait" /\ pfds' = conns /\ conns' = conns
      /\ results' = [k \in DOMAIN conns |-> IF conns[k] \in output THEN {"out"} ELSE {}]
      /\ UNCHANGED <<listening, todo, nr, seen, res>>
  BY DEF MakePollSet
<1>2. /\ conns \in Seq(Conns) /\ IsInjective(conns) /\ DOMAIN conns = 1 .. Len(conns)
      /\ Len(conns) \in Nat
  BY DEF Kept
<1>3. results' \in [1 .. Len(conns) -> Events]
  BY <1>1, <1>2 DEF Events
<1>4. results' \in Seq(Events) /\ Len(results') = Len(conns)
  BY <1>2, <1>3, FunctionIsList
<1>5. PollTyped'
  BY <1>1, <1>2, <1>4 DEF Poll, PollTyped, Steps
<1>6. Passing'
  BY <1>1 DEF Poll, Passing
<1> QED
  BY <1>5, <1>6 DEF Poll

\* poll counts the connections with an event, the listening socket and the wakeup pipe.
LEMMA Returns ==
    ASSUME Poll, Kept, PollReturns
    PROVE  Poll'
<1>1. /\ pc = "wait" /\ pc' = "accept" /\ listening' = (waiting # {})
      /\ UNCHANGED <<conns, pfds, todo, nr>>
  BY DEF PollReturns
<1>2. PICK writable \in SUBSET DOMAIN pfds, woken \in {0, 1} :
         /\ results' = [k \in DOMAIN pfds |->
                          (IF pfds[k] \in input \cup ended THEN {"in"} ELSE {})
                          \cup (IF k \in writable THEN results[k] ELSE {})]
         /\ \E failed \in SUBSET {k \in DOMAIN pfds : results'[k] = {}} :
              res' = Cardinality({k \in DOMAIN pfds : results'[k] # {}}) + Cardinality(failed)
                       + (IF waiting # {} THEN 1 ELSE 0) + woken
         /\ seen' = woken
  BY Zenon DEF PollReturns
<1>f. PICK failed \in SUBSET DOMAIN pfds :
         res' = Cardinality({k \in DOMAIN pfds : results'[k] # {}}) + Cardinality(failed)
                  + (IF waiting # {} THEN 1 ELSE 0) + woken
  BY <1>2, Zenon
<1>3. /\ pfds \in Seq(Conns) /\ Len(pfds) \in Nat /\ DOMAIN pfds = 1 .. Len(pfds)
      /\ DOMAIN results = DOMAIN pfds /\ \A k \in DOMAIN results : results[k] \in Events
  BY DEF Poll, PollTyped
<1>4. results' \in [1 .. Len(pfds) -> Events]
  BY <1>2, <1>3 DEF Events
<1>5. results' \in Seq(Events) /\ Len(results') = Len(pfds) /\ DOMAIN results' = DOMAIN pfds
  BY <1>3, <1>4, FunctionIsList
<1>6. nr' = 1 /\ todo' = <<>> /\ pfds' = conns'
  BY <1>1 DEF Poll, Passing
<1>7. Pending' = {k \in DOMAIN pfds : results'[k] # {}}
  BY <1>3, <1>5, <1>6 DEF Pending
<1>8. IsFiniteSet(DOMAIN pfds)
  BY <1>3, FS_Interval
<1>9. Cardinality(Pending') \in Nat
  BY <1>7, <1>8, FS_Subset, FS_CardinalityType
<1>10. /\ seen' \in Nat /\ res' \in Nat
       /\ res' >= seen' + Cardinality(Pending') + (IF listening' THEN 1 ELSE 0)
  <2>1. /\ res' = Cardinality(Pending') + Cardinality(failed) + (IF waiting # {} THEN 1 ELSE 0)
                   + woken
        /\ seen' = woken /\ Cardinality(failed) \in Nat
    BY <1>2, <1>7, <1>8, <1>f, FS_Subset, FS_CardinalityType
  <2>2. CASE waiting = {}
    <3>1. (IF listening' THEN 1 ELSE 0) = 0 /\ (IF waiting # {} THEN 1 ELSE 0) = 0
      BY <1>1, <2>2, Zenon
    <3> QED
      BY <1>9, <2>1, <3>1
  <2>3. CASE waiting # {}
    <3>1. (IF listening' THEN 1 ELSE 0) = 1 /\ (IF waiting # {} THEN 1 ELSE 0) = 1
      BY <1>1, <2>3, Zenon
    <3> QED
      BY <1>9, <2>1, <3>1
  <2> QED
    BY <2>2, <2>3
<1>11. listening' \in BOOLEAN
  BY <1>1
<1>12. PollTyped'
  BY <1>1, <1>5, <1>10, <1>11 DEF Poll, PollTyped, Steps
<1>13. Passing'
  BY <1>1, <1>6, <1>10 DEF Passing
<1> QED
  BY <1>12, <1>13 DEF Poll

\* The loop over the connections begins: t is the list it goes over.
Begins(t) ==
    /\ t \in Seq(Conns) /\ IsInjective(t) /\ Len(conns) <= Len(t)
    /\ \A k \in DOMAIN conns : t[k] = conns[k]
    /\ pc = "accept" /\ pc' = "conns" /\ todo' = t
    /\ UNCHANGED <<pfds, results, listening, nr, res>>

\* The loop begins with the first connection, and the first place of the poll set.
LEMMA Beginning ==
    ASSUME Poll, Kept, Begins(todo'), seen' \in Nat, res >= seen' + Cardinality(Pending)
    PROVE  Poll'
<1>1. /\ todo' \in Seq(Conns) /\ IsInjective(todo') /\ Len(conns) <= Len(todo')
      /\ \A k \in DOMAIN conns : todo'[k] = conns[k]
      /\ pc = "accept" /\ pc' = "conns"
      /\ UNCHANGED <<pfds, results, listening, nr, res>>
  BY DEF Begins
<1>2. nr = 1 /\ pfds = conns
  BY <1>1 DEF Poll, Passing
<1>3. Len(todo') <= Cardinality(Conns) /\ Cardinality(Conns) \in Nat /\ Len(todo') \in Nat
  BY <1>1, ListFits, MainLoopAssumption
<1>4. PollTyped'
  BY <1>1, <1>2, <1>3 DEF Poll, PollTyped, Steps
<1>5. Pending' = Pending
  BY <1>1 DEF Pending
<1>6. pfds \in Seq(Conns)
  BY DEF Poll, PollTyped
<1>7. Len(pfds') < nr' + Len(todo')
  BY <1>1, <1>2, <1>3, <1>6
<1>8. \A k \in DOMAIN todo' : nr' - 1 + k \in DOMAIN pfds' => todo'[k] = pfds'[nr' - 1 + k]
  BY <1>1, <1>2
<1>9. Passing'
  BY <1>1, <1>5, <1>7, <1>8 DEF Passing
<1> QED
  BY <1>4, <1>9 DEF Poll

\* The connections with an event that were not come to can be counted.
LEMMA PendingFinite ==
    ASSUME Poll
    PROVE  IsFiniteSet(Pending) /\ Cardinality(Pending) \in Nat
<1>1. DOMAIN results = 1 .. Len(results) /\ Len(results) \in Nat
  BY DEF Poll, PollTyped
<1>2. IsFiniteSet(1 .. Len(results))
  BY <1>1, FS_Interval
<1>3. Pending \subseteq 1 .. Len(results)
  BY <1>1 DEF Pending
<1> QED
  BY <1>2, <1>3, FS_Subset, FS_CardinalityType, Zenon

\* handle_accepts appends, so the places of the others stay.
LEMMA Accepts ==
    ASSUME Poll, Kept, Accept
    PROVE  Poll'
<1>1. PICK new \in Arrangements(waiting \ blocked) :
         /\ conns' = conns \o new
         /\ IF seen + 1 >= res
            THEN PassEnds
            ELSE /\ pc' = "conns" /\ todo' = conns' /\ seen' = seen + 1
                 /\ UNCHANGED <<pfds, results, listening, nr, res>>
  BY Zenon DEF Accept
<1>2. pc = "accept" /\ listening
  BY DEF Accept
<1>3. CASE seen + 1 >= res
  BY <1>1, <1>3, Ends
<1>4. CASE ~(seen + 1 >= res)
  <2>1. /\ pc' = "conns" /\ todo' = conns' /\ seen' = seen + 1
        /\ UNCHANGED <<pfds, results, listening, nr, res>>
    BY <1>1, <1>4
  <2>2. Joins(Conns, conns, waiting \ blocked, new, conns')
    BY <1>1, MainLoopAssumption DEF Kept, Joins, Linked
  <2>3. /\ conns' \in Seq(Conns) /\ IsInjective(conns') /\ Len(conns) <= Len(conns')
        /\ \A k \in DOMAIN conns : conns'[k] = conns[k]
    BY <2>2, Linking
  <2>4. Begins(todo')
    BY <1>2, <2>1, <2>3 DEF Begins
  <2>5. res >= seen + Cardinality(Pending) + 1 /\ seen \in Nat
    BY <1>2 DEF Poll, Passing, PollTyped
  <2>6. seen' \in Nat /\ res >= seen' + Cardinality(Pending)
    BY <2>1, <2>5, PendingFinite
  <2> QED
    BY <2>4, <2>6, Beginning
<1> QED
  BY <1>3, <1>4

\* Without an event on the listening socket the loop begins at once.
LEMMA AcceptsNothing ==
    ASSUME Poll, Kept, NothingToAccept
    PROVE  Poll'
<1>1. CASE seen = res
  BY <1>1, Ends DEF NothingToAccept
<1>2. CASE seen # res
  <2>1. /\ pc = "accept" /\ ~listening /\ pc' = "conns" /\ todo' = conns /\ seen' = seen
        /\ UNCHANGED <<pfds, results, listening, nr, res>>
    BY <1>2 DEF NothingToAccept
  <2>2. Begins(todo')
    BY <2>1 DEF Begins, Kept
  <2>3. res >= seen + Cardinality(Pending) /\ seen \in Nat
    BY <2>1, PendingFinite DEF Poll, Passing, PollTyped
  <2> QED
    BY <2>1, <2>2, <2>3, Beginning
<1> QED
  BY <1>1, <1>2

\* The loop goes on to the next connection, having counted an event if there was one.
Goes ==
    /\ pc = "conns" /\ pc' = "conns" /\ todo # <<>>
    /\ Advance(nr + 1)
    /\ \/ seen' = seen /\ {} \in Found
       \/ seen' = seen + 1 /\ \E ev \in Found : ev # {}

\* A step of the loop moves on in the list and in the poll set, whether or not the
\* connection was closed, and counts the event that it takes off.
LEMMA Going ==
    ASSUME Poll, Goes
    PROVE  Poll'
<1>1. /\ pc = "conns" /\ pc' = "conns" /\ todo # <<>> /\ todo' = Tail(todo) /\ nr' = nr + 1
      /\ UNCHANGED <<pfds, results, listening, res>>
  BY DEF Goes, Advance
<1>2. /\ pfds \in Seq(Conns) /\ results \in Seq(Events) /\ Len(results) = Len(pfds)
      /\ todo \in Seq(Conns) /\ IsInjective(todo) /\ nr \in Nat /\ seen \in Nat /\ res \in Nat
      /\ DOMAIN pfds = 1 .. Len(pfds) /\ DOMAIN results = 1 .. Len(pfds) /\ Len(pfds) \in Nat
      /\ nr >= 1 /\ nr + Len(todo) <= Cardinality(Conns) + 1 /\ Len(todo) \in Nat
  BY DEF Poll, PollTyped
<1>3. Cardinality(Conns) \in Nat
  BY MainLoopAssumption, FS_CardinalityType
<1>4. /\ todo' \in Seq(Conns) /\ IsInjective(todo') /\ Len(todo') = Len(todo) - 1 /\ Len(todo) >= 1
      /\ \A k \in DOMAIN todo' : k + 1 \in DOMAIN todo /\ todo'[k] = todo[k + 1]
  BY <1>1, <1>2, TailKeeps, ZenonT(30)
<1>5. seen' \in Nat
  BY <1>2 DEF Goes
<1>6. PollTyped'
  BY <1>1, <1>2, <1>3, <1>4, <1>5 DEF Poll, PollTyped
<1>7. /\ Len(pfds) < nr + Len(todo)
      /\ \A k \in DOMAIN todo : nr - 1 + k \in DOMAIN pfds => todo[k] = pfds[nr - 1 + k]
      /\ nr \in DOMAIN results => res >= seen + Cardinality(Pending)
  BY <1>1 DEF Poll, Passing
<1>8. Len(pfds') < nr' + Len(todo')
  BY <1>1, <1>2, <1>4, <1>7
<1>9. ASSUME NEW k \in DOMAIN todo', nr' - 1 + k \in DOMAIN pfds'
      PROVE  todo'[k] = pfds'[nr' - 1 + k]
  <2>1. k \in Nat
    BY <1>4
  <2>2. nr' - 1 + k = nr - 1 + (k + 1)
    BY <1>1, <1>2, <2>1
  <2>3. k + 1 \in DOMAIN todo /\ todo'[k] = todo[k + 1]
    BY <1>4
  <2>4. nr - 1 + (k + 1) \in DOMAIN pfds
    BY <1>1, <1>9, <2>2
  <2>5. todo[k + 1] = pfds[nr - 1 + (k + 1)]
    BY <1>7, <2>3, <2>4
  <2> QED
    BY <1>1, <2>2, <2>3, <2>5
<1>10. ASSUME nr' \in DOMAIN results'
       PROVE  res' >= seen' + Cardinality(Pending')
  <2>1. nr \in DOMAIN results /\ nr + 1 \in DOMAIN results
    BY <1>1, <1>2, <1>10
  <2>2. res >= seen + Cardinality(Pending)
    BY <1>7, <2>1
  <2>3. Found = {results[nr]}
    BY <2>1 DEF Found
  <2>4. Pending' = Pending \ {nr}
    BY <1>1, <1>2 DEF Pending
  <2>5. IsFiniteSet(Pending) /\ Cardinality(Pending) \in Nat
    BY PendingFinite
  <2>6. CASE seen' = seen /\ results[nr] = {}
    <3>1. nr \notin Pending
      BY <2>6 DEF Pending
    <3> QED
      BY <1>1, <2>2, <2>4, <2>6, <3>1, Zenon
  <2>7. CASE seen' = seen + 1 /\ results[nr] # {}
    <3>1. nr \in Pending
      BY <1>2, <2>1, <2>7 DEF Pending
    <3>2. Cardinality(Pending') = Cardinality(Pending) - 1
      BY <2>4, <2>5, <3>1, FS_RemoveElement, Zenon
    <3> QED
      BY <1>1, <1>2, <2>2, <2>5, <2>7, <3>2
  <2> QED
    BY <2>3, <2>6, <2>7 DEF Goes
<1>11. Passing'
  BY <1>1, <1>8, <1>9, <1>10 DEF Passing
<1> QED
  BY <1>6, <1>11 DEF Poll

\* No step breaks Poll.
LEMMA PollStep ==
    ASSUME Poll, Kept, [Next]_vars
    PROVE  Poll'
<1>1. CASE MakePollSet
  BY <1>1, MakesPollSet
<1>2. CASE PollReturnsNothing
  <2>1. /\ pc = "wait" /\ pc' = "logons" /\ pfds' = <<>> /\ results' = <<>>
        /\ UNCHANGED <<listening, todo, nr, seen, res>>
    BY <1>2 DEF PollReturnsNothing
  <2>2. /\ IsInjective(<<>>) /\ pfds' \in Seq(Conns) /\ results' \in Seq(Events)
        /\ Len(pfds') = Len(results')
    BY <2>1 DEF IsInjective
  <2>3. PollTyped'
    BY <2>1, <2>2 DEF Poll, PollTyped, Steps
  <2> QED
    BY <2>1, <2>3 DEF Poll, Passing
<1>3. CASE PollReturns
  BY <1>3, Returns
<1>4. CASE Accept
  BY <1>4, Accepts
<1>5. CASE NothingToAccept
  BY <1>5, AcceptsNothing
<1>6. CASE PassConn
  <2>1. Goes
    BY <1>6 DEF PassConn, Goes
  <2> QED
    BY <2>1, Going
<1>7. CASE ConnFails
  <2>1. Goes
    BY <1>7 DEF ConnFails, Goes
  <2> QED
    BY <2>1, Going
<1>8. CASE ConnWorks
  <2>1. CASE AllSeen
    BY <1>8, <2>1, Ends DEF ConnWorks
  <2>2. CASE ~AllSeen
    <3>1. Goes
      BY <1>8, <2>2 DEF ConnWorks, Goes
    <3> QED
      BY <3>1, Going
  <2> QED
    BY <2>1, <2>2
<1>9. CASE ConnsDone
  BY <1>9, Ends DEF ConnsDone
<1>10. CASE CompleteLogons \/ StatBlocklist \/ CannotOpenBlocklist \/ ReadBlocklist
  BY <1>10, Elsewhere
     DEF CompleteLogons, StatBlocklist, CannotOpenBlocklist, ReadBlocklist, Steps
<1>11. CASE close_blocked_conns \/ close_timedout_conns
  BY <1>11, Elsewhere DEF close_blocked_conns, close_timedout_conns, Steps
<1>12. CASE BeginList \/ WriteList \/ RenameList
  BY <1>12, Elsewhere DEF BeginList, WriteList, RenameList, Steps
<1>13. CASE \E c \in Conns : Connect(c) \/ ClientSends(c) \/ Forward(c) \/ LogonEnds(c)
  BY <1>13, Untouched DEF Connect, ClientSends, Forward, LogonEnds
<1>14. CASE LogonEnded \/ EditBlocklist \/ UNCHANGED vars
  BY <1>14, Untouched DEF LogonEnded, EditBlocklist, vars
<1> QED
  BY <1>1, <1>2, <1>3, <1>4, <1>5, <1>6, <1>7, <1>8, <1>9, <1>10, <1>11, <1>12, <1>13, <1>14, SMTT(30)
     DEF Next, MainThread

\* Kept and Poll hold when the server starts.
LEMMA PollInit ==
    ASSUME Init
    PROVE  Kept /\ Poll
<1>1. /\ pc = "poll" /\ conns = <<>> /\ pfds = <<>> /\ results = <<>> /\ todo = <<>>
      /\ nr = 1 /\ seen = 0 /\ res = 0 /\ listening = FALSE /\ waiting = {}
  BY DEF Init
<1>2. Cardinality(Conns) \in Nat
  BY MainLoopAssumption, FS_CardinalityType
<1>3. IsInjective(<<>>) /\ <<>> \in Seq(Conns) /\ <<>> \in Seq(Events) /\ Len(<<>>) = 0
  BY DEF IsInjective
<1>4. nr + Len(todo) <= Cardinality(Conns) + 1 /\ Len(results) = Len(pfds)
  BY <1>1, <1>2, <1>3
<1>5. nr \in Nat /\ nr >= 1 /\ seen \in Nat /\ res \in Nat /\ pc \in Steps
  BY <1>1 DEF Steps
<1>6. PollTyped
  BY <1>1, <1>3, <1>4, <1>5, Zenon DEF PollTyped
<1>7. Passing
  BY <1>1 DEF Passing
<1>8. Kept
  BY <1>1, <1>3 DEF Kept
<1> QED
  BY <1>6, <1>7, <1>8 DEF Poll

\* poll_sockets pairs connections and poll results by their places in two lists, of which one
\* changes in the loop.  It looks at a connection's own results all the same.
THEOREM ResultsAreTheirOwn == Spec => []OwnResults
<1>1. Init => Kept /\ Poll
  BY PollInit
<1>2. Kept /\ Poll /\ [Next]_vars => Kept' /\ Poll'
  BY KeptStep, PollStep
<1>3. Kept /\ Poll => OwnResults
  <2> SUFFICES ASSUME Poll, pc = "conns", todo # <<>>, nr \in DOMAIN pfds
               PROVE  Head(todo) = pfds[nr]
    BY DEF OwnResults
  <2>1. todo \in Seq(Conns) /\ nr \in Nat
    BY DEF Poll, PollTyped
  <2>2. 1 \in DOMAIN todo /\ Head(todo) = todo[1]
    BY <2>1
  <2>3. nr - 1 + 1 = nr
    BY <2>1
  <2> QED
    BY <2>2, <2>3 DEF Poll, Passing
<1> QED
  BY <1>1, <1>2, <1>3, PTL DEF Spec

\* Nothing is counted, nothing is pending.
LEMMA FewPending ==
    ASSUME Poll, Cardinality(Pending) <= 0
    PROVE  Pending = {}
  BY PendingFinite, FS_EmptySet

\* A pass that ends has come to every connection with an event: the count leaves none.
LEMMA PassIsComplete ==
    ASSUME Poll, Kept, Next, pc' = "logons", pc \in {"accept", "conns"},
           NEW k \in DOMAIN results, results[k] # {}
    PROVE  pc = "conns" /\ k <= nr
<1>0. /\ DOMAIN results = 1 .. Len(pfds) /\ Len(pfds) \in Nat /\ k \in Nat /\ k >= 1
      /\ nr \in Nat /\ seen \in Nat /\ res \in Nat /\ todo \in Seq(Conns)
  BY DEF Poll, PollTyped
<1>a. IsFiniteSet(Pending) /\ Cardinality(Pending) \in Nat
  BY PendingFinite
<1>1. CASE pc = "accept"
  <2>1. nr = 1 /\ res >= seen + Cardinality(Pending) + (IF listening THEN 1 ELSE 0)
    BY <1>1 DEF Poll, Passing
  <2>2. k \in Pending
    BY <1>0, <2>1, SMTT(30) DEF Pending
  <2>3. Accept \/ NothingToAccept
    BY <1>1, Zenon DEF Next, MainThread, MakePollSet, PollReturnsNothing, PollReturns, PassConn, ConnFails,
         ConnWorks, ConnsDone, CompleteLogons, StatBlocklist, CannotOpenBlocklist,
         ReadBlocklist, close_blocked_conns, close_timedout_conns, BeginList, WriteList,
         RenameList, Connect, ClientSends, Forward, LogonEnds, LogonEnded, EditBlocklist
  <2>4. CASE Accept
    <3>1. listening /\ seen + 1 >= res
      BY <2>4 DEF Accept
    <3>2. res >= seen + Cardinality(Pending) + 1
      BY <2>1, <3>1
    <3>3. Cardinality(Pending) <= 0
      BY <1>0, <1>a, <3>1, <3>2
    <3> QED
      BY <2>2, <3>3, FewPending
  <2>5. CASE NothingToAccept
    <3>1. ~listening /\ seen = res
      BY <2>5 DEF NothingToAccept
    <3>2. res >= seen + Cardinality(Pending) + 0
      BY <2>1, <3>1
    <3>3. Cardinality(Pending) <= 0
      BY <1>0, <1>a, <3>1, <3>2
    <3> QED
      BY <2>2, <3>3, FewPending
  <2> QED
    BY <2>3, <2>4, <2>5
<1>2. CASE pc = "conns"
  <2>0. SUFFICES ASSUME k > nr
                 PROVE  FALSE
    BY <1>0, <1>2
  <2>1. nr >= 1 /\ nr \in DOMAIN results
    BY <1>0, <2>0 DEF Poll, PollTyped
  <2>2. res >= seen + Cardinality(Pending) /\ Len(pfds) < nr + Len(todo)
    BY <1>2, <2>1 DEF Poll, Passing
  <2>3. todo # <<>>
    BY <1>0, <2>0, <2>2, SMTT(30)
  <2>4. ConnWorks /\ AllSeen
    BY <1>2, <2>3, Zenon DEF Next, MainThread, MakePollSet, PollReturnsNothing, PollReturns, PassConn,
         ConnFails, ConnWorks, ConnsDone, CompleteLogons, Accept, NothingToAccept, StatBlocklist,
         CannotOpenBlocklist, ReadBlocklist, close_blocked_conns, close_timedout_conns, BeginList,
         WriteList, RenameList, Connect, ClientSends, Forward, LogonEnds, LogonEnded, EditBlocklist
  <2>5. results[nr] # {}
    BY <2>1, <2>4 DEF ConnWorks, Found
  <2>6. {k, nr} \subseteq Pending
    BY <1>0, <2>0, <2>1, <2>5 DEF Pending
  <2>7. Cardinality(Pending) <= 1
    BY <1>0, <1>a, <2>2, <2>4 DEF AllSeen
  <2>8. Cardinality(Pending \ {nr}) = Cardinality(Pending) - 1 /\ IsFiniteSet(Pending \ {nr})
    BY <1>a, <2>6, FS_RemoveElement
  <2>9. Cardinality(Pending \ {nr}) = 0
    BY <1>a, <2>7, <2>8, FS_CardinalityType
  <2>10. Pending \ {nr} = {}
    BY <2>8, <2>9, FS_EmptySet
  <2> QED
    BY <1>0, <2>0, <2>6, <2>10
<1> QED
  BY <1>1, <1>2

\* The loop stops when polls_seen reaches poll_res.  By then it has served or closed every
\* connection that had an event, for any number of connections, accepted and closed in any order.
THEOREM NoEventIsSkipped == Spec => NobodyIsSkipped
<1>1. Init => Kept /\ Poll
  BY PollInit
<1>2. Kept /\ Poll /\ [Next]_vars => Kept' /\ Poll'
  BY KeptStep, PollStep
<1>3. Kept /\ Poll /\ [Next]_vars =>
        [pc' = "logons" /\ pc \in {"accept", "conns"} =>
           \A k \in DOMAIN results : results[k] # {} => pc = "conns" /\ k <= nr]_vars
  BY PassIsComplete
<1> QED
  BY <1>1, <1>2, <1>3, PTL DEF Spec, NobodyIsSkipped

\* The blocklist: a table that is taken for up to date holds the addresses in the file, unless
\* the file was edited again in the second of that version, and but for the moment after it was
\* read nobody the table has is connected.
Blocklist ==
    /\ file \in [names: SUBSET Conns, mtime: Nat, again: BOOLEAN]
    /\ left \in [connects: Nat, edits: Nat]
    /\ stamp \in Nat /\ updated \in Nat /\ blocked \subseteq Conns
    /\ stamp <= file.mtime /\ updated <= file.mtime
    /\ updated = file.mtime /\ ~file.again => file.names \ Hosts \subseteq blocked
    /\ pc # "blocked" => Linked \cap blocked = {}

\* Steps that connect nobody who is blocked keep Blocklist.
LEMMA SameBlocklist ==
    ASSUME Blocklist, UNCHANGED <<blockVars, file, left>>, pc # "blocked",
           Linked' \cap blocked \subseteq Linked
    PROVE  Blocklist'
  BY DEF Blocklist, blockVars

\* No step breaks Blocklist: the time kept with the table is the one from before the file was
\* read, so an edit in between shows.
LEMMA BlocklistStep ==
    ASSUME Blocklist, Kept, [Next]_vars
    PROVE  Blocklist'
<1> USE MainLoopAssumption
<1>1. CASE MakePollSet \/ PollReturnsNothing \/ PollReturns \/ NothingToAccept \/ PassConn
           \/ ConnWorks \/ ConnsDone
  <2>1. conns' = conns /\ pc # "blocked" /\ UNCHANGED <<blockVars, file, left>>
    BY <1>1, SMTT(30) DEF MakePollSet, PollReturnsNothing, PollReturns, NothingToAccept, PassConn,
         ConnWorks, ConnsDone
  <2> QED
    BY <2>1, SameBlocklist, SMTT(30) DEF Linked
<1>2. CASE CompleteLogons \/ BeginList \/ WriteList \/ RenameList
  <2>1. conns' = conns /\ pc # "blocked" /\ UNCHANGED <<blockVars, file, left>>
    BY <1>2 DEF CompleteLogons, BeginList, WriteList, RenameList
  <2> QED
    BY <2>1, SameBlocklist, SMTT(30) DEF Linked
<1>3. CASE Accept
  <2>1. PICK new \in Arrangements(waiting \ blocked) : conns' = conns \o new
    BY <1>3 DEF Accept
  <2>2. Joins(Conns, conns, waiting \ blocked, new, conns')
    BY <2>1 DEF Kept, Joins, Linked
  <2>3. Linked' \subseteq Linked \cup (waiting \ blocked)
    BY <2>2, Linking DEF Linked
  <2>4. pc # "blocked" /\ UNCHANGED <<blockVars, file, left>>
    BY <1>3 DEF Accept
  <2> QED
    BY <2>3, <2>4, SameBlocklist
<1>4. CASE ConnFails
  <2>1. Linked' = Linked \ {Head(todo)}
    BY <1>4, Closing DEF ConnFails
  <2> QED
    BY <1>4, <2>1, SameBlocklist DEF ConnFails
<1>5. CASE close_timedout_conns
  <2>1. Linked' \subseteq Linked
    BY <1>5, Closing DEF close_timedout_conns
  <2> QED
    BY <1>5, <2>1, SameBlocklist DEF close_timedout_conns
<1>6. CASE close_blocked_conns
  <2>1. Linked' = Linked \ (Linked \cap blocked)
    BY <1>6, Closing DEF close_blocked_conns
  <2> QED
    BY <1>6, <2>1 DEF close_blocked_conns, Blocklist, blockVars
<1>7. CASE StatBlocklist
  BY <1>7 DEF StatBlocklist, Blocklist, Linked
<1>8. CASE CannotOpenBlocklist
  BY <1>8 DEF CannotOpenBlocklist, Blocklist, Linked
<1>9. CASE ReadBlocklist
  BY <1>9 DEF ReadBlocklist, Blocklist
<1>10. CASE \E c \in Conns : Connect(c)
  BY <1>10 DEF Connect, Blocklist, blockVars, Linked
<1>11. CASE \E c \in Conns : ClientSends(c) \/ Forward(c) \/ LogonEnds(c)
  BY <1>11 DEF ClientSends, Forward, LogonEnds, Blocklist, blockVars, Linked
<1>12. CASE LogonEnded \/ UNCHANGED vars
  BY <1>12 DEF LogonEnded, vars, Blocklist, blockVars, Linked
<1>13. CASE EditBlocklist
  <2>1. PICK names \in SUBSET Conns, time \in {file.mtime, file.mtime + 1} :
           file' = [names |-> names, mtime |-> time, again |-> time = updated]
    BY <1>13, Zenon DEF EditBlocklist
  <2>2. UNCHANGED <<pc, conns, blockVars>> /\ left' = [left EXCEPT !.edits = @ - 1] /\ left.edits > 0
    BY <1>13 DEF EditBlocklist
  <2>3. file.mtime \in Nat /\ time \in Nat /\ time >= file.mtime
    BY <2>1 DEF Blocklist
  <2>4. /\ file' \in [names: SUBSET Conns, mtime: Nat, again: BOOLEAN]
        /\ file'.mtime = time /\ file'.again = (time = updated)
    BY <2>1, <2>3
  <2>5. left' \in [connects: Nat, edits: Nat]
    BY <2>2 DEF Blocklist
  <2> QED
    BY <2>2, <2>3, <2>4, <2>5, SMTT(30) DEF Blocklist, blockVars, Linked
<1> QED
  BY <1>1, <1>2, <1>3, <1>4, <1>5, <1>6, <1>7, <1>8, <1>9, <1>10, <1>11, <1>12, <1>13, SMTT(30)
     DEF Next, MainThread

\* Blocklist holds when the server starts.
LEMMA BlocklistInit ==
    ASSUME Init
    PROVE  Blocklist
  BY MainLoopAssumption DEF Init, Blocklist

\* Once blocklist_refresh takes the table for up to date and the loop begins again, no client
\* whose address is in the file is connected, however edits, failed reads and new clients
\* interleave, but for edits in the second of the version that was read before.
THEOREM BlockedAreGone == Spec => []BlockedClientsAreGone
<1>1. Init => Kept /\ Blocklist
  BY PollInit, BlocklistInit
<1>2. Kept /\ Blocklist /\ [Next]_vars => Kept' /\ Blocklist'
  BY KeptStep, BlocklistStep
<1>3. Blocklist => BlockedClientsAreGone
  BY DEF Blocklist, BlockedClientsAreGone
<1> QED
  BY <1>1, <1>2, <1>3, PTL DEF Spec

-----------------------------------------------------------------------------
\* The types of the marks.
Marks ==
    dirty \in BOOLEAN /\ changed \in BOOLEAN /\ stale \in BOOLEAN /\ leaving \in Conns \cup {None}

\* The sets of clients.
Clients ==
    /\ input \subseteq Conns /\ ended \subseteq Conns /\ output \subseteq Conns
    /\ table \subseteq Conns /\ tmp \subseteq Conns /\ list \subseteq Conns

\* Closing connections takes clients away, and adds none.
LEMMA ClosingClients ==
    ASSUME Clients, NEW cs, CloseConns(cs), UNCHANGED listVars
    PROVE  Clients' /\ dirty' \in BOOLEAN /\ changed' \in BOOLEAN
<1>1. Clients'
  BY DEF Clients, CloseConns, listVars
<1>2. dirty' = (dirty \/ cs # {}) /\ changed' = (changed \/ table \cap cs # {})
  BY DEF CloseConns
<1> QED
  BY <1>1, <1>2

\* The sets are sets of clients, and the marks are set or not.
LEMMA ClientsStep ==
    ASSUME Clients, Marks, Kept, Poll, [Next]_vars
    PROVE  Clients' /\ Marks'
<1>0. Linked \subseteq Conns
  BY SMTT(30) DEF Linked, Kept, Range
<1>1. CASE MakePollSet \/ PollReturnsNothing \/ PollReturns \/ NothingToAccept \/ PassConn
           \/ ConnsDone
  BY <1>1, Zenon DEF MakePollSet, PollReturnsNothing, PollReturns, NothingToAccept, PassConn,
         ConnsDone, Clients, Marks, netVars, logonVars, listVars
<1>2. CASE Accept
  <2>1. PICK new \in Arrangements(waiting \ blocked) : dirty' = (dirty \/ new # <<>>)
    BY <1>2 DEF Accept
  <2>2. dirty' \in BOOLEAN
    BY <2>1
  <2> QED
    BY <1>2, <2>2 DEF Accept, Clients, Marks, logonVars, listVars
<1>3. CASE ConnFails
  BY <1>3, ClosingClients DEF ConnFails, Marks, listVars
<1>4. CASE ConnWorks
  <2>1. Head(todo) \in Conns
    BY <1>4 DEF ConnWorks, Poll, PollTyped
  <2>2. PICK ev \in Found :
         /\ input' = IF "in" \in ev THEN input \ {Head(todo)} ELSE input
         /\ output' \in {output}
              \cup (IF "out" \in ev THEN {output \ {Head(todo)}} ELSE {})
              \cup (IF "in" \in ev /\ Head(todo) \in input THEN {output \cup {Head(todo)}}
                    ELSE {})
         /\ \/ UNCHANGED <<table, changed>>
            \/ table' = table \ {Head(todo)} /\ changed' = TRUE
    BY <1>4 DEF ConnWorks
  <2>3. input' \subseteq Conns /\ output' \subseteq Conns
    BY <2>1, <2>2 DEF Clients
  <2>4. table' \subseteq Conns /\ changed' \in BOOLEAN
    BY <2>2, Zenon DEF Clients, Marks
  <2> QED
    BY <1>4, <2>3, <2>4 DEF ConnWorks, Clients, Marks, listVars
<1>5. CASE CompleteLogons
  <2>1. PICK new \in SUBSET (Linked \ table) :
         /\ table' = table \cup new
         /\ changed' = (changed \/ new # {})
         /\ output' = output \cup new
    BY <1>5 DEF CompleteLogons
  <2>2. changed' \in BOOLEAN
    BY <2>1
  <2> QED
    BY <1>0, <1>5, <2>1, <2>2 DEF CompleteLogons, Clients, Marks, listVars
<1>6. CASE StatBlocklist \/ CannotOpenBlocklist \/ ReadBlocklist \/ EditBlocklist
  BY <1>6 DEF StatBlocklist, CannotOpenBlocklist, ReadBlocklist, EditBlocklist, Clients, Marks,
         netVars, logonVars, listVars
<1>7. CASE close_blocked_conns
  BY <1>7, ClosingClients DEF close_blocked_conns, Marks, listVars
<1>8. CASE close_timedout_conns
  BY <1>8, ClosingClients DEF close_timedout_conns, Marks, listVars
<1>9. CASE BeginList \/ WriteList \/ RenameList
  BY <1>9, Zenon DEF BeginList, WriteList, RenameList, Clients, Marks, netVars, logonVars, listVars
<1>10. CASE \E c \in Conns : Connect(c) \/ Forward(c) \/ LogonEnds(c)
  BY <1>10 DEF Connect, Forward, LogonEnds, Clients, Marks, netVars, logonVars, listVars
<1>11. CASE \E c \in Conns : ClientSends(c)
  BY <1>11 DEF ClientSends, Clients, Marks, logonVars, listVars
<1>12. CASE LogonEnded \/ UNCHANGED vars
  BY <1>12, Zenon DEF LogonEnded, vars, Clients, Marks, netVars, logonVars, listVars
<1> QED
  BY <1>1, <1>2, <1>3, <1>4, <1>5, <1>6, <1>7, <1>8, <1>9, <1>10, <1>11, <1>12, SMTT(30)
     DEF Next, MainThread

\* The variables have their types, every list is without repetitions, and the place in the poll
\* set stays within bounds.
THEOREM MainLoopTypeOK == Spec => []TypeOK
<1> DEFINE I == Kept /\ Poll /\ Blocklist /\ Clients /\ Marks
<1>1. Init => I
  <2>1. Init => Clients /\ Marks
    BY Zenon DEF Init, Clients, Marks
  <2> QED
    BY <2>1, PollInit, BlocklistInit
<1>2. I /\ [Next]_vars => I'
  BY KeptStep, PollStep, BlocklistStep, ClientsStep, SMTT(30)
<1>3. I => TypeOK
  <2> SUFFICES ASSUME I PROVE TypeOK
    OBVIOUS
  <2>1. /\ pc \in Steps /\ {dirty, listening, changed, stale} \subseteq BOOLEAN
        /\ leaving \in Conns \cup {None}
    BY DEF Poll, PollTyped, Marks
  <2>2. \A s \in {conns, pfds, todo} : s \in Seq(Conns) /\ IsInjective(s)
    BY DEF Poll, PollTyped, Kept
  <2>3. /\ results \in Seq(Events) /\ Len(results) = Len(pfds) /\ seen \in Nat /\ res \in Nat
    BY DEF Poll, PollTyped
  <2>4. nr \in 1..Cardinality(Conns) + 1
    <3>1. /\ nr \in Nat /\ nr >= 1 /\ nr + Len(todo) <= Cardinality(Conns) + 1
          /\ Len(todo) \in Nat
      BY DEF Poll, PollTyped
    <3>2. Cardinality(Conns) \in Nat
      BY MainLoopAssumption, FS_CardinalityType
    <3> QED
      BY <3>1, <3>2
  <2>5. \A s \in {waiting, input, ended, output, table, tmp, list, blocked} : s \subseteq Conns
    BY DEF Kept, Clients, Blocklist
  <2>6. /\ file \in [names: SUBSET Conns, mtime: Nat, again: BOOLEAN]
        /\ stamp \in Nat /\ updated \in Nat
        /\ left \in [connects: Nat, edits: Nat]
    BY DEF Blocklist
  <2> QED
    BY <2>1, <2>2, <2>3, <2>4, <2>5, <2>6 DEF TypeOK
<1> QED
  BY <1>1, <1>2, <1>3, PTL DEF Spec

-----------------------------------------------------------------------------
(* The list of logons.                                                     *)

\* As long as no change is marked or about to be marked, the file about to be renamed
\* holds the table, and otherwise the list does.
ListInv ==
    ~changed /\ leaving = None =>
        /\ pc = "rename" => tmp = table
        /\ pc \notin {"write", "rename"} => stale \/ list = table

\* Closing connections marks the change if it is one.
LEMMA ClosingMarks ==
    ASSUME NEW cs, CloseConns(cs), ~changed', leaving' = leaving
    PROVE  ~changed /\ table' = table
  BY Zenon DEF CloseConns

\* No step of the main thread or of another thread breaks ListInv.
LEMMA ListStep ==
    ASSUME ListInv, [Next]_vars
    PROVE  ListInv'
<1> SUFFICES ASSUME ~changed', leaving' = None
             PROVE  /\ pc' = "rename" => tmp' = table'
                    /\ pc' \notin {"write", "rename"} => stale' \/ list' = table'
  BY DEF ListInv
<1> USE MainLoopAssumption
<1>1. CASE UNCHANGED vars
  BY <1>1, SMTT(30) DEF ListInv, vars, logonVars, listVars
<1>2. CASE MakePollSet \/ PollReturnsNothing \/ PollReturns
  BY <1>2, Zenon DEF ListInv, MakePollSet, PollReturnsNothing, PollReturns, logonVars, listVars
<1>3. CASE Accept
  BY <1>3, Zenon DEF ListInv, Accept, PassEnds, logonVars, listVars
<1>4. CASE NothingToAccept
  BY <1>4 DEF ListInv, NothingToAccept, PassEnds, logonVars, listVars
<1>5. CASE PassConn \/ ConnsDone
  BY <1>5 DEF ListInv, PassConn, ConnsDone, PassEnds, logonVars, listVars
<1>6. CASE ConnFails
  BY <1>6, ClosingMarks DEF ListInv, ConnFails, listVars
<1>7. CASE ConnWorks
  BY <1>7 DEF ListInv, ConnWorks, PassEnds, listVars
<1>8. CASE CompleteLogons
  BY <1>8, Zenon DEF ListInv, CompleteLogons, listVars
<1>9. CASE StatBlocklist \/ CannotOpenBlocklist \/ ReadBlocklist
  BY <1>9 DEF ListInv, StatBlocklist, CannotOpenBlocklist, ReadBlocklist, logonVars, listVars
<1>10. CASE close_blocked_conns
  BY <1>10, ClosingMarks DEF ListInv, close_blocked_conns, listVars
<1>11. CASE close_timedout_conns
  BY <1>11, ClosingMarks DEF ListInv, close_timedout_conns, listVars
<1>12. CASE BeginList
  BY <1>12 DEF ListInv, BeginList, listVars
<1>13. CASE WriteList
  BY <1>13 DEF ListInv, WriteList, logonVars
<1>14. CASE RenameList
  BY <1>14 DEF ListInv, RenameList, logonVars
<1>15. CASE \E c \in Conns : Connect(c) \/ ClientSends(c) \/ Forward(c)
  BY <1>15 DEF ListInv, Connect, ClientSends, Forward, logonVars, listVars
<1>16. CASE \E c \in Conns : LogonEnds(c)
  BY <1>16 DEF LogonEnds
<1>17. CASE LogonEnded
  BY <1>17 DEF LogonEnded
<1>18. CASE EditBlocklist
  BY <1>18 DEF ListInv, EditBlocklist, logonVars, listVars
<1> QED
  BY <1>1, <1>2, <1>3, <1>4, <1>5, <1>6, <1>7, <1>8, <1>9, <1>10, <1>11, <1>12, <1>13, <1>14,
     <1>15, <1>16, <1>17, <1>18, SMTT(30) DEF Next, MainThread

\* However removals of other threads fall between clearing the mark, writing the
\* temporary file and renaming it (write_logon_list), the list is the table whenever no
\* change is marked, unless it could not be written.
THEOREM ListStaysCurrent == Spec => []ListIsCurrent
<1>1. Init => ListInv
  BY DEF Init, ListInv
<1>2. ListInv /\ [Next]_vars => ListInv'
  BY ListStep
<1>3. ListInv => ListIsCurrent
  BY DEF ListInv, ListIsCurrent
<1> QED
  BY <1>1, <1>2, <1>3, PTL DEF Spec
=============================================================================
