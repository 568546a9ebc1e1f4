-------------------------- MODULE LockOrderProofs --------------------------
(***************************************************************************)
(* That the locks of cpdlcd which belong to no connection are taken in     *)
(* one order, and that what they guard is changed inside them only, for    *)
(* any number of connections and router threads.                           *)
(*                                                                         *)
(* The inductive invariant says of each thread that what it has yet to do  *)
(* may be done with the locks it holds, and ends with none: Runs.  A call  *)
(* on the stack of a thread stands for what the function will do, so Runs  *)
(* asks of it only what a function needs of its caller (Ready), and each   *)
(* function is shown to do no more than that allows, in whatever state it  *)
(* comes to run (BodiesRun).                                               *)
(***************************************************************************)
EXTENDS LockOrder, FiniteSetTheorems, TLAPS


\* The locks that belong to no connection, and their order: those of the lists of
\* connections first, then that of the table, then those of the log and of auth.c.
Global == {"tcp", "lws", "by_from", "log", "auth"}

Rank(l) == IF l \in {"tcp", "lws"} THEN 0 ELSE IF l = "by_from" THEN 1 ELSE 2

\* What a thread has to do.
Item == ({"enter", "exit"} \X Locks) \cup ((Compound \cup Simple) \X Conns)

\* How many times each lock is held.
Held == [Locks -> Nat]
Zero == [l \in Locks |-> 0]
Plus(A, l) == [A EXCEPT ![l] = @ + 1]

\* With A held, l may be entered.
InOrder(l, A) ==
    l \in Global => \A m \in Global : A[m] > 0 => m = l \/ Rank(m) < Rank(l)

\* Neither the log's lock nor that of auth.c is held.
Free(A) == A["auth"] = 0 /\ A["log"] = 0

\* With A held, f may be called for connection c.
Ready(f, c, A) ==
    /\ f \in Compound \ {"conn_send_buf", "queued_to_each", "auth_done"} => Free(A)
    /\ f \in {"process_logon_msg", "logon_result", "clear_logon", "logon_done_cb",
              "auth_sess_open", "htbl_set"} => A[c] > 0
    /\ f \in {"conns_by_from_remove", "htbl_set"} => A["by_from"] > 0
    /\ f \in {"auth_sess_open", "auth_sess_kill", "session_ends"} => A["auth"] > 0

\* x may be done with A held, and B is held afterwards.
Does(x, A, B) ==
    \/ \E l \in Locks : x = Enter(l) /\ InOrder(l, A) /\ B = Plus(A, l)
    \/ \E l \in Locks : x = Exit(l) /\ A = Plus(B, l)
    \/ \E f \in Compound \cup Simple : \E c \in Conns :
          x = Call(f, c) /\ Ready(f, c, A) /\ B = A

\* g says what is held before each item of s and at the end.
Along(s, A, B, g) ==
    /\ g \in [1 .. Len(s) + 1 -> Held]
    /\ g[1] = A /\ g[Len(s) + 1] = B
    /\ \A k \in 1 .. Len(s) : Does(s[k], g[k], g[k + 1])

\* The items of s may be done one after the other with A held, and B is held afterwards.
Runs(s, A, B) == s \in Seq(Item) /\ \E g : Along(s, A, B, g)

\* An item is one of three.
LEMMA DoesItem ==
    ASSUME NEW x, NEW A, NEW B, Does(x, A, B)
    PROVE  x \in Item
<1>1. CASE \E l \in Locks : x = Enter(l)
  BY <1>1 DEF Enter, Item
<1>2. CASE \E l \in Locks : x = Exit(l)
  BY <1>2 DEF Exit, Item
<1>3. CASE \E f \in Compound \cup Simple : \E c \in Conns : x = Call(f, c)
  BY <1>3 DEF Call, Item
<1> QED
  BY <1>1, <1>2, <1>3, Zenon DEF Does

\* What is held before and after.
LEMMA RunsHeld ==
    ASSUME NEW s, NEW A, NEW B, Runs(s, A, B)
    PROVE  A \in Held /\ B \in Held /\ s \in Seq(Item) /\ Len(s) \in Nat
<1>1. s \in Seq(Item) /\ Len(s) \in Nat
  BY DEF Runs
<1>2. PICK g : Along(s, A, B, g)
  BY DEF Runs
<1>3. 1 \in 1 .. Len(s) + 1 /\ Len(s) + 1 \in 1 .. Len(s) + 1
  BY <1>1
<1> QED
  BY <1>1, <1>2, <1>3 DEF Along

\* Nothing to do changes nothing.
LEMMA RunsEmpty ==
    ASSUME NEW A \in Held
    PROVE  Runs(<<>>, A, A)
<1>1. PICK g : g = [k \in 1 .. 1 |-> A]
  BY Zenon
<1>2. PICK s : s = <<>>
  OBVIOUS
<1>3. s \in Seq(Item) /\ Len(s) = 0 /\ 1 .. Len(s) = {}
  BY <1>2
<1>4. g \in [1 .. Len(s) + 1 -> Held] /\ g[1] = A /\ g[Len(s) + 1] = A
  BY <1>1, <1>3
<1>5. Along(s, A, A, g)
  BY <1>3, <1>4 DEF Along
<1> QED
  BY <1>2, <1>3, <1>5 DEF Runs

\* And with nothing to do, what is held is what is held at the end.
LEMMA EmptyRuns ==
    ASSUME NEW A, NEW B, Runs(<<>>, A, B)
    PROVE  A = B
<1>1. PICK s : s = <<>>
  OBVIOUS
<1>2. PICK g : Along(s, A, B, g)
  BY <1>1 DEF Runs
<1>3. Len(s) = 0
  BY <1>1
<1> QED
  BY <1>2, <1>3 DEF Along

\* One item.
LEMMA RunsOne ==
    ASSUME NEW x, NEW A \in Held, NEW B \in Held, Does(x, A, B)
    PROVE  Runs(<<x>>, A, B)
<1>1. PICK s : s = <<x>>
  BY Zenon
<1>2. s \in Seq(Item) /\ Len(s) = 1 /\ s[1] = x
  BY <1>1, DoesItem
<1>3. PICK g : g = [k \in 1 .. 2 |-> IF k = 1 THEN A ELSE B]
  BY Zenon
<1>4. g \in [1 .. 2 -> Held] /\ g[1] = A /\ g[2] = B
  BY <1>3
<1>5. \A k \in 1 .. 1 : Does(s[k], g[k], g[k + 1])
  BY <1>2, <1>4
<1>6. Along(s, A, B, g)
  BY <1>2, <1>4, <1>5 DEF Along
<1> QED
  BY <1>1, <1>2, <1>6 DEF Runs

\* One list of items after the other.
LEMMA RunsThen ==
    ASSUME NEW s, NEW t, NEW A, NEW B, NEW C, Runs(s, A, B), Runs(t, B, C)
    PROVE  Runs(s \o t, A, C)
<1>1. s \in Seq(Item) /\ t \in Seq(Item) /\ Len(s) \in Nat /\ Len(t) \in Nat
  BY RunsHeld
<1>2. PICK u : u = s \o t
  BY Zenon
<1>3. /\ u \in Seq(Item) /\ Len(u) = Len(s) + Len(t)
      /\ \A i \in 1 .. Len(s) + Len(t) : u[i] = IF i <= Len(s) THEN s[i] ELSE t[i - Len(s)]
  BY <1>1, <1>2
<1>4. PICK m \in Nat, n \in Nat : m = Len(s) /\ n = Len(t)
  BY <1>1
<1>5. PICK g : Along(s, A, B, g)
  BY DEF Runs
<1>6. PICK h : Along(t, B, C, h)
  BY DEF Runs
<1>7. /\ g \in [1 .. m + 1 -> Held] /\ g[1] = A /\ g[m + 1] = B
      /\ \A k \in 1 .. m : Does(s[k], g[k], g[k + 1])
  BY <1>4, <1>5 DEF Along
<1>8. /\ h \in [1 .. n + 1 -> Held] /\ h[1] = B /\ h[n + 1] = C
      /\ \A k \in 1 .. n : Does(t[k], h[k], h[k + 1])
  BY <1>4, <1>6 DEF Along
<1>9. PICK e : e = [k \in 1 .. m + n + 1 |-> IF k <= m THEN g[k] ELSE h[k - m]]
  BY Zenon
<1>10. e \in [1 .. m + n + 1 -> Held]
  <2>1. \A k \in 1 .. m + n + 1 : IF k <= m THEN g[k] \in Held ELSE h[k - m] \in Held
    <3>1. \A k \in 1 .. m + n + 1 : /\ k <= m => k \in 1 .. m + 1
                                    /\ ~(k <= m) => k - m \in 1 .. n + 1
      OBVIOUS
    <3> QED
      BY <1>7, <1>8, <3>1
  <2> QED
    BY <1>9, <2>1
<1>11. \A k \in 1 .. m + n + 1 : e[k] = IF k <= m THEN g[k] ELSE h[k - m]
  BY <1>9
<1>12. e[1] = A
  BY <1>7, <1>8, <1>11
<1>13. e[m + n + 1] = C
  BY <1>8, <1>11
<1>14. \A k \in 1 .. m + n : u[k] = IF k <= m THEN s[k] ELSE t[k - m]
  BY <1>3, <1>4
<1>15. ASSUME NEW k \in 1 .. m + n
       PROVE  Does(u[k], e[k], e[k + 1])
  <2>1. CASE k <= m
    <3>1. k \in 1 .. m /\ e[k] = g[k] /\ u[k] = s[k]
      BY <1>11, <1>14, <2>1
    <3>2. e[k + 1] = g[k + 1]
      <4>1. CASE k = m
        BY <1>7, <1>8, <1>11, <4>1
      <4>2. CASE k # m
        BY <1>11, <2>1, <4>2
      <4> QED
        BY <4>1, <4>2
    <3> QED
      BY <1>7, <3>1, <3>2
  <2>2. CASE ~(k <= m)
    <3>1. k - m \in 1 .. n /\ e[k] = h[k - m] /\ u[k] = t[k - m] /\ e[k + 1] = h[(k - m) + 1]
      BY <1>11, <1>14, <2>2
    <3> QED
      BY <1>8, <3>1
  <2> QED
    BY <2>1, <2>2
<1>16. Along(u, A, C, e)
  <2>1. Len(u) = m + n /\ Len(u) + 1 = m + n + 1
    BY <1>3, <1>4
  <2> QED
    BY <1>10, <1>12, <1>13, <1>15, <2>1 DEF Along
<1> QED
  BY <1>2, <1>3, <1>16 DEF Runs

\* The first item and the rest.
LEMMA RunsHead ==
    ASSUME NEW s, NEW A, NEW B, Runs(s, A, B), s # <<>>
    PROVE  \E M \in Held : Does(Head(s), A, M) /\ Runs(Tail(s), M, B)
<1>1. s \in Seq(Item) /\ Len(s) \in Nat
  BY RunsHeld
<1>2. PICK u : u = Tail(s)
  BY Zenon
<1>3. /\ u \in Seq(Item) /\ Len(u) = Len(s) - 1 /\ Len(s) > 0 /\ Head(s) = s[1]
      /\ \A i \in 1 .. Len(s) - 1 : u[i] = s[i + 1]
  <2>1. Len(s) # 0
    BY <1>1
  <2> QED
    BY <1>1, <1>2, <2>1
<1>4. PICK n \in Nat : n = Len(s) - 1
  BY <1>1, <1>3
<1>5. PICK g : Along(s, A, B, g)
  BY DEF Runs
<1>6. Len(s) = n + 1 /\ Len(u) = n
  BY <1>1, <1>3, <1>4
<1>7. /\ g \in [1 .. n + 2 -> Held] /\ g[1] = A /\ g[n + 2] = B
      /\ \A k \in 1 .. n + 1 : Does(s[k], g[k], g[k + 1])
  BY <1>5, <1>6 DEF Along
<1>8. PICK h : h = [k \in 1 .. n + 1 |-> g[k + 1]]
  BY Zenon
<1>9. h \in [1 .. n + 1 -> Held] /\ h[1] = g[2] /\ h[n + 1] = B
  BY <1>7, <1>8
<1>10. ASSUME NEW k \in 1 .. n PROVE Does(u[k], h[k], h[k + 1])
  <2>1. u[k] = s[k + 1] /\ h[k] = g[k + 1] /\ h[k + 1] = g[(k + 1) + 1] /\ k + 1 \in 1 .. n + 1
    BY <1>3, <1>4, <1>8
  <2> QED
    BY <1>7, <2>1
<1>11. Along(u, g[2], B, h)
  BY <1>6, <1>9, <1>10 DEF Along
<1>12. Runs(u, g[2], B) /\ g[2] \in Held
  BY <1>3, <1>7, <1>11 DEF Runs
<1>13. Does(s[1], A, g[2])
  BY <1>7
<1> QED
  BY <1>2, <1>3, <1>12, <1>13

\* Calls that may all be made with A held.
LEMMA RunsAll ==
    ASSUME NEW A \in Held, NEW n \in Nat, NEW s, DOMAIN s = 1 .. n, s = [k \in 1 .. n |-> s[k]],
           \A k \in 1 .. n : Does(s[k], A, A)
    PROVE  Runs(s, A, A)
<1>1. \A k \in 1 .. n : s[k] \in Item
  BY DoesItem
<1>2. s \in Seq(Item) /\ Len(s) = n
  BY <1>1
<1>3. PICK g : g = [k \in 1 .. n + 1 |-> A]
  BY Zenon
<1>4. g \in [1 .. n + 1 -> Held] /\ \A k \in 1 .. n + 1 : g[k] = A
  BY <1>3
<1>5. Along(s, A, A, g)
  BY <1>2, <1>4 DEF Along
<1> QED
  BY <1>2, <1>5, Zenon DEF Runs

\* What is held after one more lock was entered.
LEMMA PlusHeld ==
    ASSUME NEW A \in Held, NEW l \in Locks
    PROVE  /\ Plus(A, l) \in Held
           /\ \A m \in Locks : Plus(A, l)[m] = IF m = l THEN A[m] + 1 ELSE A[m]
  BY DEF Plus, Held

\* A body inside a lock.
LEMMA RunsGuarded ==
    ASSUME NEW A \in Held, NEW l \in Locks, InOrder(l, A), NEW body,
           Runs(body, Plus(A, l), Plus(A, l))
    PROVE  Runs(Guarded(l, body), A, A)
<1>1. Plus(A, l) \in Held
  BY PlusHeld
<1>2. Does(Enter(l), A, Plus(A, l))
  BY DEF Does
<1>3. Does(Exit(l), Plus(A, l), A)
  BY DEF Does
<1>4. Runs(<<Enter(l)>>, A, Plus(A, l)) /\ Runs(<<Exit(l)>>, Plus(A, l), A)
  BY <1>1, <1>2, <1>3, RunsOne
<1>5. Runs(<<Enter(l)>> \o body, A, Plus(A, l))
  BY <1>4, RunsThen
<1>6. Runs((<<Enter(l)>> \o body) \o <<Exit(l)>>, A, A)
  BY <1>4, <1>5, RunsThen
<1> QED
  BY <1>6 DEF Guarded

\* One call that may be made.
LEMMA RunsCall ==
    ASSUME NEW A \in Held, NEW f \in Compound \cup Simple, NEW c \in Conns, Ready(f, c, A)
    PROVE  Runs(<<Call(f, c)>>, A, A)
<1>1. Does(Call(f, c), A, A)
  BY DEF Does
<1> QED
  BY <1>1, RunsOne

-----------------------------------------------------------------------------

\* The order in which a set of connections is walked through.
LEMMA WalkFacts ==
    ASSUME NEW cs \in SUBSET Conns, NEW s, s = CHOOSE w \in Arrangements(cs) : TRUE
    PROVE  \E n \in Nat : s \in [1 .. n -> cs]
<1>1. IsFiniteSet(cs)
  BY ThreadsAssumption, FS_Subset
<1>2. Cardinality(cs) \in Nat /\ ExistsBijection(1 .. Cardinality(cs), cs)
  BY <1>1, FS_CardinalityType
<1>3. Arrangements(cs) # {}
  BY <1>2 DEF ExistsBijection, Bijection, Arrangements
<1>4. s \in [1 .. Cardinality(cs) -> cs]
  BY <1>3 DEF Arrangements, Injection
<1> QED
  BY <1>2, <1>4, Zenon

\* The same call for each of a set of connections.
LEMMA RunsEach ==
    ASSUME NEW A \in Held, NEW f \in Compound \cup Simple, NEW cs \in SUBSET Conns,
           \A c \in cs : Ready(f, c, A)
    PROVE  Runs(Each(f, cs), A, A)
<1>1. PICK s : s = CHOOSE w \in Arrangements(cs) : TRUE
  OBVIOUS
<1>2. PICK n \in Nat : s \in [1 .. n -> cs]
  BY <1>1, WalkFacts, Zenon
<1>3. PICK u : u = [i \in 1 .. n |-> Call(f, s[i])]
  BY Zenon
<1>4. Each(f, cs) = u
  <2>1. DOMAIN s = 1 .. n
    BY <1>2
  <2>2. Each(f, cs) = [i \in DOMAIN s |-> Call(f, s[i])]
    BY <1>1 DEF Each
  <2> QED
    BY <1>3, <2>1, <2>2
<1>5. ASSUME NEW k \in 1 .. n PROVE Does(u[k], A, A)
  <2>1. s[k] \in cs /\ u[k] = Call(f, s[k])
    BY <1>2, <1>3
  <2>2. s[k] \in Conns /\ Ready(f, s[k], A)
    BY <2>1
  <2> QED
    BY <2>1, <2>2 DEF Does
<1>6. DOMAIN u = 1 .. n /\ u = [k \in 1 .. n |-> u[k]]
  BY <1>3
<1> QED
  BY <1>4, <1>5, <1>6, RunsAll

-----------------------------------------------------------------------------

\* The global locks are locks, and no connections.
LEMMA LocksFacts ==
    /\ "tcp" \in Locks /\ "lws" \in Locks /\ "by_from" \in Locks /\ "log" \in Locks
    /\ "auth" \in Locks /\ Conns \subseteq Locks /\ Global \subseteq Locks
    /\ \A c \in Conns : c \notin Global
  BY ThreadsAssumption DEF Locks, Global

\* Inside the lock of a connection.
LEMMA InsideConn ==
    ASSUME NEW A \in Held, NEW c \in Conns
    PROVE  /\ Plus(A, c) \in Held /\ Plus(A, c)[c] > 0
           /\ \A m \in Global : Plus(A, c)[m] = A[m]
           /\ Free(A) => Free(Plus(A, c))
           /\ InOrder(c, A)
<1>1. c \in Locks /\ c \notin Global /\ Global \subseteq Locks
  BY LocksFacts
<1>2. /\ Plus(A, c) \in Held
      /\ \A m \in Locks : Plus(A, c)[m] = IF m = c THEN A[m] + 1 ELSE A[m]
  BY <1>1, PlusHeld
<1>3. A[c] \in Nat
  BY <1>1 DEF Held
<1> QED
  BY <1>1, <1>2, <1>3 DEF Free, InOrder, Global

\* Inside a global lock.
LEMMA InsideGlobal ==
    ASSUME NEW A \in Held, NEW l \in Global
    PROVE  /\ Plus(A, l) \in Held /\ Plus(A, l)[l] > 0
           /\ \A m \in Locks : A[m] > 0 => Plus(A, l)[m] > 0
           /\ Free(A) /\ l \notin {"log", "auth"} => Free(Plus(A, l))
<1>1. l \in Locks /\ Global \subseteq Locks
  BY LocksFacts
<1>2. /\ Plus(A, l) \in Held
      /\ \A m \in Locks : Plus(A, l)[m] = IF m = l THEN A[m] + 1 ELSE A[m]
  BY <1>1, PlusHeld
<1>3. \A m \in Locks : A[m] \in Nat
  BY DEF Held
<1> QED
  BY <1>1, <1>2, <1>3 DEF Free, Global

\* The locks of the table, the log and auth.c may be entered when the latter two are free.
LEMMA FreeInOrder ==
    ASSUME NEW A \in Held, Free(A)
    PROVE  InOrder("by_from", A) /\ InOrder("log", A) /\ InOrder("auth", A)
  BY DEF Free, InOrder, Rank, Global

\* A line is written to the log.
LEMMA RunsLog ==
    ASSUME NEW A \in Held, Free(A)
    PROVE  Runs(Guarded("log", <<>>), A, A)
<1>1. "log" \in Locks /\ "log" \in Global
  BY LocksFacts DEF Global
<1>2. Plus(A, "log") \in Held
  BY <1>1, InsideGlobal
<1> QED
  BY <1>1, <1>2, RunsEmpty, RunsGuarded, FreeInOrder

\* One call inside the lock of the connection.
LEMMA RunsInConn ==
    ASSUME NEW A \in Held, NEW c \in Conns, NEW f \in Compound \cup Simple,
           Ready(f, c, Plus(A, c))
    PROVE  Runs(Guarded(c, <<Call(f, c)>>), A, A)
<1>1. Plus(A, c) \in Held /\ InOrder(c, A) /\ c \in Locks
  BY InsideConn, LocksFacts
<1>2. Runs(<<Call(f, c)>>, Plus(A, c), Plus(A, c))
  BY <1>1, RunsCall
<1> QED
  BY <1>1, <1>2, RunsGuarded

\* One call inside a global lock.
LEMMA RunsInGlobal ==
    ASSUME NEW A \in Held, NEW l \in Global, InOrder(l, A), NEW c \in Conns,
           NEW f \in Compound \cup Simple, Ready(f, c, Plus(A, l))
    PROVE  Runs(Guarded(l, <<Call(f, c)>>), A, A)
<1>1. Plus(A, l) \in Held /\ l \in Locks
  BY InsideGlobal, LocksFacts
<1>2. Runs(<<Call(f, c)>>, Plus(A, l), Plus(A, l))
  BY <1>1, RunsCall
<1> QED
  BY <1>1, <1>2, RunsGuarded

\* Two calls.
LEMMA RunsTwo ==
    ASSUME NEW A \in Held, NEW x, NEW y, Does(x, A, A), Does(y, A, A)
    PROVE  Runs(<<x, y>>, A, A)
<1>1. PICK s : s = <<x, y>>
  BY Zenon
<1>2. DOMAIN s = 1 .. 2 /\ s[1] = x /\ s[2] = y
  BY <1>1
<1>3. s = [k \in 1 .. 2 |-> s[k]]
  BY <1>1
<1>4. \A k \in 1 .. 2 : Does(s[k], A, A)
  <2>1. \A k \in 1 .. 2 : k = 1 \/ k = 2
    OBVIOUS
  <2> QED
    BY <1>2, <2>1
<1> QED
  BY <1>1, <1>2, <1>3, <1>4, RunsAll, Zenon

\* And three of them.
LEMMA RunsThree ==
    ASSUME NEW A \in Held, NEW x, NEW y, NEW z, Does(x, A, A), Does(y, A, A), Does(z, A, A)
    PROVE  Runs(<<x, y, z>>, A, A)
<1>1. PICK s : s = <<x, y, z>>
  BY Zenon
<1>2. DOMAIN s = 1 .. 3 /\ s[1] = x /\ s[2] = y /\ s[3] = z
  BY <1>1
<1>3. s = [k \in 1 .. 3 |-> s[k]]
  BY <1>1
<1>4. \A k \in 1 .. 3 : Does(s[k], A, A)
  <2>1. \A k \in 1 .. 3 : k = 1 \/ k = 2 \/ k = 3
    OBVIOUS
  <2> QED
    BY <1>2, <2>1
<1> QED
  BY <1>1, <1>2, <1>3, <1>4, RunsAll, Zenon

-----------------------------------------------------------------------------

\* What the calls need, spelled out.
LEMMA ReadyFacts ==
    ASSUME NEW A \in Held, NEW c \in Conns
    PROVE  /\ Ready("conn_send_buf", c, A) /\ Ready("queued_to_each", c, A)
           /\ Ready("auth_done", c, A)
           /\ \A f \in {"conn_send_msg", "conn_send_end_svc", "conn_reset_logon", "remove_idents",
                        "kill_session", "forward_msg", "forward_to_each", "conn_process_msg",
                        "process_logoff_msg", "complete_logon"} : Free(A) => Ready(f, c, A)
           /\ \A f \in {"process_logon_msg", "logon_result"} :
                 Free(A) /\ A[c] > 0 => Ready(f, c, A)
           /\ \A f \in {"clear_logon", "logon_done_cb"} : A[c] > 0 => Ready(f, c, A)
           /\ A["by_from"] > 0 => Ready("conns_by_from_remove", c, A)
           /\ A["by_from"] > 0 /\ A[c] > 0 => Ready("htbl_set", c, A)
           /\ A["auth"] > 0 => Ready("auth_sess_kill", c, A) /\ Ready("session_ends", c, A)
           /\ A["auth"] > 0 /\ A[c] > 0 => Ready("auth_sess_open", c, A)
  BY DEF Ready, Compound

\* conn_log_buf and conn_send_buf.
LEMMA LogAndSendRuns ==
    ASSUME NEW A \in Held, NEW c \in Conns, Free(A)
    PROVE  Runs(LogAndSend(c), A, A)
<1>1. "conn_send_buf" \in Compound
  BY DEF Compound
<1>2. Runs(<<Call("conn_send_buf", c)>>, A, A)
  BY <1>1, ReadyFacts, RunsCall
<1> QED
  BY <1>2, RunsLog, RunsThen DEF LogAndSend

\* Sending: conn->lock inside whatever is held, and the log before it.
LEMMA SendBodies ==
    ASSUME NEW A \in Held, NEW c \in Conns
    PROVE  /\ \A body \in ConnSendBuf(c) : Runs(body, A, A)
           /\ Free(A) => \A body \in ConnSendMsg(c) : Runs(body, A, A)
           /\ Free(A) => \A body \in ConnSendEndSvc(c) : Runs(body, A, A)
<1>1. Runs(Guarded(c, <<>>), A, A)
  BY InsideConn, LocksFacts, RunsEmpty, RunsGuarded
<1>2. ASSUME Free(A) PROVE Runs(LogAndSend(c) \o <<Call("conn_reset_logon", c)>>, A, A)
  <2>1. "conn_reset_logon" \in Compound
    BY DEF Compound
  <2>2. Runs(<<Call("conn_reset_logon", c)>>, A, A)
    BY <1>2, <2>1, ReadyFacts, RunsCall
  <2> QED
    BY <1>2, <2>2, LogAndSendRuns, RunsThen
<1> QED
  BY <1>1, <1>2, LogAndSendRuns DEF ConnSendBuf, ConnSendMsg, ConnSendEndSvc

\* conn_reset_logon, and the two locks it takes inside conn->lock.
LEMMA ResetBodies ==
    ASSUME NEW A \in Held, NEW c \in Conns, Free(A)
    PROVE  /\ \A body \in ConnResetLogon(c) : Runs(body, A, A)
           /\ \A body \in RemoveIdents(c) : Runs(body, A, A)
           /\ \A body \in KillSession(c) : Runs(body, A, A)
<1>0. /\ "remove_idents" \in Compound /\ "kill_session" \in Compound /\ "clear_logon" \in Simple
      /\ "conns_by_from_remove" \in Simple /\ "auth_sess_kill" \in Simple
      /\ "by_from" \in Global /\ "auth" \in Global
  BY DEF Compound, Simple, Global
<1>1. \A body \in ConnResetLogon(c) : Runs(body, A, A)
  <2>1. PICK B : B = Plus(A, c)
    OBVIOUS
  <2>2. B \in Held /\ Free(B) /\ B[c] > 0
    BY <2>1, InsideConn
  <2>3. /\ Does(Call("remove_idents", c), B, B) /\ Does(Call("kill_session", c), B, B)
        /\ Does(Call("clear_logon", c), B, B)
    BY <1>0, <2>2, ReadyFacts DEF Does
  <2>4. Runs(<<Call("remove_idents", c), Call("kill_session", c), Call("clear_logon", c)>>, B, B)
    BY <2>2, <2>3, RunsThree
  <2> QED
    BY <2>1, <2>4, InsideConn, LocksFacts, RunsGuarded DEF ConnResetLogon
<1>2. \A body \in RemoveIdents(c) : Runs(body, A, A)
  <2>1. Runs(Guarded("by_from", <<Call("conns_by_from_remove", c)>>), A, A)
    BY <1>0, InsideGlobal, FreeInOrder, ReadyFacts, RunsInGlobal
  <2> QED
    BY <2>1, RunsEmpty DEF RemoveIdents
<1>3. \A body \in KillSession(c) : Runs(body, A, A)
  <2>1. Runs(Guarded("auth", <<Call("auth_sess_kill", c)>>), A, A)
    BY <1>0, InsideGlobal, FreeInOrder, ReadyFacts, RunsInGlobal
  <2> QED
    BY <2>1, RunsEmpty DEF KillSession
<1> QED
  BY <1>1, <1>2, <1>3

-----------------------------------------------------------------------------

\* Forwarding, to the connections in the table.
LEMMA ForwardBodies ==
    ASSUME NEW A \in Held, NEW c \in Conns, table \subseteq Conns
    PROVE  /\ Free(A) => \A body \in ForwardMsgCb(c) : Runs(body, A, A)
           /\ Free(A) => \A body \in ForwardToEach : Runs(body, A, A)
           /\ \A body \in QueuedToEach : Runs(body, A, A)
<1>0. /\ "forward_to_each" \in Compound /\ "conn_send_msg" \in Compound
      /\ "conn_send_end_svc" \in Compound /\ "conn_send_buf" \in Compound
      /\ "by_from" \in Global /\ "by_from" \notin {"log", "auth"}
  BY DEF Compound, Global
<1>1. ASSUME Free(A) PROVE \A body \in ForwardMsgCb(c) : Runs(body, A, A)
  <2>1. Plus(A, "by_from") \in Held /\ Free(Plus(A, "by_from"))
    BY <1>0, <1>1, InsideGlobal
  <2>2. Ready("forward_to_each", c, Plus(A, "by_from"))
    BY <2>1, ReadyFacts
  <2>3. Runs(Guarded("by_from", <<Call("forward_to_each", c)>>), A, A)
    BY <1>0, <1>1, <2>2, FreeInOrder, RunsInGlobal
  <2> QED
    BY <1>1, <2>3, RunsLog, RunsThen, Zenon DEF ForwardMsgCb
<1>2. ASSUME Free(A) PROVE \A body \in ForwardToEach : Runs(body, A, A)
  <2>1. ASSUME NEW f \in {"conn_send_msg", "conn_send_end_svc"}
        PROVE  Runs(Each(f, table), A, A)
    <3>1. f \in Compound \cup Simple
      BY <1>0
    <3>2. \A d \in table : Ready(f, d, A)
      BY <1>2, ReadyFacts
    <3> QED
      BY <3>1, <3>2, RunsEach
  <2> QED
    BY <2>1 DEF ForwardToEach
<1>3. \A body \in QueuedToEach : Runs(body, A, A)
  <2>1. \A d \in table : Ready("conn_send_buf", d, A)
    BY ReadyFacts
  <2>2. Runs(Each("conn_send_buf", table), A, A)
    BY <1>0, <2>1, RunsEach
  <2> QED
    BY <2>2 DEF QueuedToEach
<1> QED
  BY <1>1, <1>2, <1>3

\* conn_process_msg for what is neither LOGON nor LOGOFF.
LEMMA ProcessMsgBodies ==
    ASSUME NEW A \in Held, NEW c \in Conns, Free(A)
    PROVE  \A body \in ConnProcessMsg(c) : Runs(body, A, A)
<1>0. "forward_msg" \in Compound /\ "conn_send_msg" \in Compound /\ "by_from" \in Global
  BY DEF Compound, Global
<1>1. PICK fwd : fwd = IF routed THEN <<>> ELSE <<Call("forward_msg", c)>>
  BY Zenon
<1>2. PICK ref : ref = Guarded("log", <<>>) \o <<Call("conn_send_msg", c)>>
  BY Zenon
<1>3. Runs(fwd, A, A)
  <2>1. Runs(<<Call("forward_msg", c)>>, A, A)
    BY <1>0, ReadyFacts, RunsCall
  <2> QED
    BY <1>1, <2>1, RunsEmpty
<1>4. Runs(ref, A, A)
  <2>1. Runs(<<Call("conn_send_msg", c)>>, A, A)
    BY <1>0, ReadyFacts, RunsCall
  <2> QED
    BY <1>2, <2>1, RunsLog, RunsThen
<1>5. Runs(Guarded("by_from", <<>>) \o fwd, A, A)
  <2>1. Runs(Guarded("by_from", <<>>), A, A)
    BY <1>0, LocksFacts, InsideGlobal, RunsEmpty, FreeInOrder, RunsGuarded
  <2> QED
    BY <1>3, <2>1, RunsThen
<1>6. ConnProcessMsg(c) \subseteq {ref, fwd, Guarded("by_from", <<>>) \o fwd}
  BY <1>1, <1>2, Zenon DEF ConnProcessMsg
<1> QED
  BY <1>3, <1>4, <1>5, <1>6, Zenon

\* LOGON and LOGOFF.
LEMMA LogonMsgBodies ==
    ASSUME NEW A \in Held, NEW c \in Conns, Free(A)
    PROVE  /\ A[c] > 0 => \A body \in ProcessLogonMsg(c) : Runs(body, A, A)
           /\ \A body \in ProcessLogoffMsg(c) : Runs(body, A, A)
<1>0. /\ "conn_reset_logon" \in Compound /\ "conn_send_msg" \in Compound
      /\ "auth_sess_open" \in Simple /\ "auth" \in Global /\ c \in Locks
  BY LocksFacts DEF Compound, Simple, Global
<1>1. Runs(<<Call("conn_reset_logon", c)>>, A, A) /\ Runs(<<Call("conn_send_msg", c)>>, A, A)
  BY <1>0, ReadyFacts, RunsCall
<1>2. ASSUME A[c] > 0 PROVE \A body \in ProcessLogonMsg(c) : Runs(body, A, A)
  <2>1. PICK open : open = Guarded("auth", <<Call("auth_sess_open", c)>>)
    OBVIOUS
  <2>2. Runs(open, A, A)
    <3>1. Plus(A, "auth") \in Held /\ Plus(A, "auth")["auth"] > 0 /\ Plus(A, "auth")[c] > 0
      BY <1>0, <1>2, InsideGlobal
    <3>2. Ready("auth_sess_open", c, Plus(A, "auth"))
      BY <3>1, ReadyFacts
    <3> QED
      BY <1>0, <2>1, <3>2, FreeInOrder, RunsInGlobal
  <2>3. Runs(<<Call("conn_reset_logon", c)>> \o open, A, A)
    BY <1>1, <2>2, RunsThen
  <2>4. ProcessLogonMsg(c) \subseteq {<<Call("conn_send_msg", c)>>,
                                      <<Call("conn_reset_logon", c)>> \o open, open}
    BY <2>1, Zenon DEF ProcessLogonMsg
  <2> QED
    BY <1>1, <2>2, <2>3, <2>4, Zenon
<1>3. \A body \in ProcessLogoffMsg(c) : Runs(body, A, A)
  BY <1>1, RunsEmpty DEF ProcessLogoffMsg
<1> QED
  BY <1>2, <1>3

\* complete_logon, outside and inside conn->lock.
LEMMA LogonResultBodies ==
    ASSUME NEW A \in Held, NEW c \in Conns, Free(A)
    PROVE  /\ \A body \in CompleteLogon(c) : Runs(body, A, A)
           /\ A[c] > 0 => \A body \in LogonResult(c) : Runs(body, A, A)
<1>0. /\ "logon_result" \in Compound /\ "conn_send_msg" \in Compound /\ "htbl_set" \in Simple
      /\ "clear_logon" \in Simple /\ "by_from" \in Global /\ c \in Locks
  BY LocksFacts DEF Compound, Simple, Global
<1>1. \A body \in CompleteLogon(c) : Runs(body, A, A)
  <2>1. Plus(A, c) \in Held /\ Free(Plus(A, c)) /\ Plus(A, c)[c] > 0
    BY InsideConn
  <2>2. Ready("logon_result", c, Plus(A, c))
    BY <2>1, ReadyFacts
  <2>3. Runs(Guarded(c, <<Call("logon_result", c)>>), A, A)
    BY <1>0, <2>2, RunsInConn
  <2> QED
    BY <2>3 DEF CompleteLogon
<1>2. ASSUME A[c] > 0 PROVE \A body \in LogonResult(c) : Runs(body, A, A)
  <2>1. PICK grant : grant = Guarded("by_from", <<Call("htbl_set", c)>>)
    OBVIOUS
  <2>2. Runs(grant, A, A)
    <3>1. /\ Plus(A, "by_from") \in Held /\ Plus(A, "by_from")["by_from"] > 0
          /\ Plus(A, "by_from")[c] > 0
      BY <1>0, <1>2, InsideGlobal
    <3>2. Ready("htbl_set", c, Plus(A, "by_from"))
      BY <3>1, ReadyFacts
    <3> QED
      BY <1>0, <2>1, <3>2, FreeInOrder, RunsInGlobal
  <2>3. Runs(<<Call("clear_logon", c)>>, A, A) /\ Runs(<<Call("conn_send_msg", c)>>, A, A)
    BY <1>0, <1>2, ReadyFacts, RunsCall
  <2>4. /\ Runs(grant \o <<Call("conn_send_msg", c)>>, A, A)
        /\ Runs(<<Call("clear_logon", c)>> \o <<Call("conn_send_msg", c)>>, A, A)
    BY <2>2, <2>3, RunsThen
  <2>5. ASSUME NEW body \in LogonResult(c)
        PROVE  \/ body = <<>> \/ body = grant \o <<Call("conn_send_msg", c)>>
               \/ body = <<Call("clear_logon", c)>> \o <<Call("conn_send_msg", c)>>
    BY <2>1, Zenon DEF LogonResult
  <2> QED
    BY <2>4, <2>5, RunsEmpty, Zenon
<1> QED
  BY <1>1, <1>2

\* The result of an authentication, which comes with the lock of auth.c held.
LEMMA AuthDoneBodies ==
    ASSUME NEW A \in Held, NEW c \in Conns
    PROVE  \A body \in AuthDone(c) : Runs(body, A, A)
<1>0. "logon_done_cb" \in Simple
  BY DEF Simple
<1>1. Plus(A, c) \in Held /\ Plus(A, c)[c] > 0
  BY InsideConn
<1>2. Runs(Guarded(c, <<Call("logon_done_cb", c)>>), A, A)
  BY <1>0, <1>1, ReadyFacts, RunsInConn
<1> QED
  BY <1>2, RunsEmpty DEF AuthDone

\* What a function does may be done when it may be called, and leaves the locks as they were.
LEMMA BodiesRun ==
    ASSUME NEW A \in Held, NEW c \in Conns, NEW f \in Compound, Ready(f, c, A),
           table \subseteq Conns, NEW body \in Bodies(f, c)
    PROVE  Runs(body, A, A)
<1>1. CASE f = "conn_send_buf"
  BY <1>1, SendBodies DEF Bodies
<1>2. CASE f = "conn_send_msg"
  BY <1>2, SendBodies DEF Bodies, Ready, Compound
<1>3. CASE f = "conn_send_end_svc"
  BY <1>3, SendBodies DEF Bodies, Ready, Compound
<1>4. CASE f = "conn_reset_logon"
  BY <1>4, ResetBodies DEF Bodies, Ready, Compound
<1>5. CASE f = "remove_idents"
  BY <1>5, ResetBodies DEF Bodies, Ready, Compound
<1>6. CASE f = "kill_session"
  BY <1>6, ResetBodies DEF Bodies, Ready, Compound
<1>7. CASE f = "forward_msg"
  BY <1>7, ForwardBodies DEF Bodies, Ready, Compound
<1>8. CASE f = "forward_to_each"
  BY <1>8, ForwardBodies DEF Bodies, Ready, Compound
<1>9. CASE f = "queued_to_each"
  BY <1>9, ForwardBodies DEF Bodies
<1>10. CASE f = "conn_process_msg"
  BY <1>10, ProcessMsgBodies DEF Bodies, Ready, Compound
<1>11. CASE f = "process_logon_msg"
  BY <1>11, LogonMsgBodies DEF Bodies, Ready, Compound
<1>12. CASE f = "process_logoff_msg"
  BY <1>12, LogonMsgBodies DEF Bodies, Ready, Compound
<1>13. CASE f = "complete_logon"
  BY <1>13, LogonResultBodies DEF Bodies, Ready, Compound
<1>14. CASE f = "logon_result"
  BY <1>14, LogonResultBodies DEF Bodies, Ready, Compound
<1>15. CASE f = "auth_done"
  BY <1>15, AuthDoneBodies DEF Bodies
<1> QED
  BY <1>1, <1>2, <1>3, <1>4, <1>5, <1>6, <1>7, <1>8, <1>9, <1>10, <1>11, <1>12, <1>13, <1>14,
     <1>15 DEF Compound

-----------------------------------------------------------------------------

\* How many times thread t holds each lock.
Holding(t) == [l \in Locks |-> IF owner[l] = t THEN depth[l] ELSE 0]

\* The locks: nobody is inside exactly those that were left as often as entered.
Mutexes ==
    /\ owner \in [Locks -> Threads \cup {Nobody}]
    /\ depth \in [Locks -> Nat]
    /\ \A l \in Locks : owner[l] = Nobody <=> depth[l] = 0

\* The data that decides on locking.
Data ==
    /\ table \subseteq Conns
    /\ status \in [Conns -> {"NONE", "STARTED", "COMPLETING", "COMPLETE"}]
    /\ session \in [Conns -> {"none", "running", "killed"}]
    /\ routed \in BOOLEAN

\* Every thread may do what it has to do, and holds nothing at the end.
Orderly ==
    /\ todo \in [Threads -> Seq(Item)]
    /\ \A t \in Threads : Runs(todo[t], Holding(t), Zero)

\* The inductive invariant.
LocksInv == Mutexes /\ Data /\ Orderly

\* A lock that nobody holds is held by no thread.
LEMMA NobodyIsNoThread == Nobody \notin Threads
<1>1. Nobody # Main /\ Nobody # LwsWorker
  BY DEF Nobody, Main, LwsWorker
<1>2. Nobody \notin Workers
  BY DEF Nobody, Workers
<1>3. Nobody \notin Routers
  BY ThreadsAssumption
<1> QED
  BY <1>1, <1>2, <1>3 DEF Threads

\* With nothing held any lock may be entered.
LEMMA ZeroFacts ==
    /\ Zero \in Held /\ Free(Zero)
    /\ \A l \in Locks : InOrder(l, Zero)
<1>1. Global \subseteq Locks /\ "auth" \in Locks /\ "log" \in Locks
  BY LocksFacts
<1>2. \A l \in Locks : Zero[l] = 0
  BY DEF Zero
<1>3. Zero \in Held
  BY DEF Zero, Held
<1> QED
  BY <1>1, <1>2, <1>3 DEF Free, InOrder

\* What a thread does that has a lock to enter,
LEMMA DoesEnter ==
    ASSUME NEW l \in Locks, NEW A, NEW M, Does(Enter(l), A, M)
    PROVE  InOrder(l, A) /\ M = Plus(A, l)
<1>1. \A m \in Locks : Enter(l) = Enter(m) => m = l
  BY DEF Enter
<1>2. \A m \in Locks : Enter(l) # Exit(m)
  BY DEF Enter, Exit
<1>3. \A f \in Compound \cup Simple : \A c \in Conns : Enter(l) # Call(f, c)
  <2>1. "enter" \notin Compound \cup Simple
    BY DEF Compound, Simple
  <2> QED
    BY <2>1 DEF Enter, Call
<1> QED
  BY <1>1, <1>2, <1>3, Zenon DEF Does

\* a lock to leave,
LEMMA DoesExit ==
    ASSUME NEW l \in Locks, NEW A, NEW M, Does(Exit(l), A, M)
    PROVE  A = Plus(M, l)
<1>1. \A m \in Locks : Exit(l) = Exit(m) => m = l
  BY DEF Exit
<1>2. \A m \in Locks : Exit(l) # Enter(m)
  BY DEF Enter, Exit
<1>3. \A f \in Compound \cup Simple : \A c \in Conns : Exit(l) # Call(f, c)
  <2>1. "exit" \notin Compound \cup Simple
    BY DEF Compound, Simple
  <2> QED
    BY <2>1 DEF Exit, Call
<1> QED
  BY <1>1, <1>2, <1>3, Zenon DEF Does

\* or a function to call.
LEMMA DoesCall ==
    ASSUME NEW f \in Compound \cup Simple, NEW c \in Conns, NEW A, NEW M, Does(Call(f, c), A, M)
    PROVE  Ready(f, c, A) /\ M = A
<1>1. \A g \in Compound \cup Simple : \A d \in Conns : Call(f, c) = Call(g, d) => g = f /\ d = c
  BY DEF Call
<1>2. "enter" \notin Compound \cup Simple /\ "exit" \notin Compound \cup Simple
  BY DEF Compound, Simple
<1>3. \A m \in Locks : Call(f, c) # Enter(m)
  BY <1>2 DEF Enter, Call
<1>4. \A m \in Locks : Call(f, c) # Exit(m)
  BY <1>2 DEF Exit, Call
<1> QED
  BY <1>1, <1>3, <1>4, Zenon DEF Does

-----------------------------------------------------------------------------

\* What a thread holds, lock by lock.
LEMMA HoldingFacts ==
    ASSUME Mutexes, NEW t \in Threads
    PROVE  /\ Holding(t) \in Held
           /\ \A l \in Locks : Holding(t)[l] = IF owner[l] = t THEN depth[l] ELSE 0
  BY DEF Mutexes, Holding, Held

\* A thread takes its next item.
LEMMA NextItem ==
    ASSUME Orderly, NEW t \in Threads, todo[t] # <<>>
    PROVE  \E M \in Held : Does(Head(todo[t]), Holding(t), M) /\ Runs(Tail(todo[t]), M, Zero)
  BY RunsHead DEF Orderly

\* One thread has something else to do, and what the others hold stays.
LEMMA OrderlyKept ==
    ASSUME Orderly, NEW t \in Threads, NEW s, todo' = [todo EXCEPT ![t] = s],
           \A u \in Threads \ {t} : Holding(u)' = Holding(u), Runs(s, Holding(t)', Zero)
    PROVE  Orderly'
<1>1. s \in Seq(Item)
  BY RunsHeld
<1>2. todo' \in [Threads -> Seq(Item)]
  BY <1>1 DEF Orderly
<1>3. \A u \in Threads : todo'[u] = IF u = t THEN s ELSE todo[u]
  BY DEF Orderly
<1>4. ASSUME NEW u \in Threads PROVE Runs(todo'[u], Holding(u)', Zero)
  <2>1. CASE u = t
    BY <1>3, <2>1
  <2>2. CASE u # t
    <3>1. todo'[u] = todo[u] /\ Holding(u)' = Holding(u)
      BY <1>3, <2>2
    <3> QED
      BY <3>1 DEF Orderly
  <2> QED
    BY <2>1, <2>2
<1> QED
  BY <1>2, <1>4 DEF Orderly

\* Steps that leave the locks alone.
LEMMA HoldingStays ==
    ASSUME UNCHANGED <<owner, depth>>
    PROVE  /\ \A u \in Threads : Holding(u)' = Holding(u)
           /\ Mutexes => Mutexes'
  BY DEF Holding, Mutexes

\* A thread enters a lock: that is one more it holds, and nobody else held it.
LEMMA EnterKeeps ==
    ASSUME LocksInv, NEW t \in Threads, NEW l \in Locks, MutexEnter(t, l)
    PROVE  LocksInv'
<1>1. Mutexes /\ Data /\ Orderly /\ todo[t] # <<>> /\ Head(todo[t]) = Enter(l)
  BY DEF LocksInv, MutexEnter, Wants
<1>2. PICK M \in Held : Does(Enter(l), Holding(t), M) /\ Runs(Tail(todo[t]), M, Zero)
  BY <1>1, NextItem
<1>3. M = Plus(Holding(t), l)
  BY <1>2, DoesEnter
<1>4. /\ owner[l] \in {t, Nobody} /\ owner' = [owner EXCEPT ![l] = t]
      /\ depth' = [depth EXCEPT ![l] = @ + 1] /\ todo' = [todo EXCEPT ![t] = Tail(@)]
      /\ UNCHANGED <<table, status, session, routed>>
  BY DEF MutexEnter
<1>5. t # Nobody
  BY NobodyIsNoThread
<1>6. /\ \A m \in Locks : owner'[m] = IF m = l THEN t ELSE owner[m]
      /\ \A m \in Locks : depth'[m] = IF m = l THEN depth[m] + 1 ELSE depth[m]
  BY <1>1, <1>4 DEF Mutexes
<1>7. Mutexes'
  <2>1. owner' \in [Locks -> Threads \cup {Nobody}] /\ depth' \in [Locks -> Nat]
    BY <1>1, <1>4 DEF Mutexes
  <2>2. \A m \in Locks : owner'[m] = Nobody <=> depth'[m] = 0
    BY <1>1, <1>5, <1>6 DEF Mutexes
  <2> QED
    BY <2>1, <2>2 DEF Mutexes
<1>8. Holding(t)' = M
  <2>1. \A m \in Locks : M[m] = IF m = l THEN Holding(t)[m] + 1 ELSE Holding(t)[m]
    BY <1>1, <1>3, HoldingFacts, PlusHeld
  <2>2. \A m \in Locks : M[m] = IF owner'[m] = t THEN depth'[m] ELSE 0
    BY <1>1, <1>4, <1>6, <2>1, HoldingFacts DEF Mutexes
  <2> QED
    BY <1>2, <2>2 DEF Holding, Held
<1>9. ASSUME NEW u \in Threads \ {t} PROVE Holding(u)' = Holding(u)
  <2>1. u # Nobody
    BY NobodyIsNoThread
  <2>2. \A m \in Locks : (IF owner'[m] = u THEN depth'[m] ELSE 0)
                       = (IF owner[m] = u THEN depth[m] ELSE 0)
    BY <1>4, <1>6, <2>1
  <2> QED
    BY <2>2 DEF Holding
<1>10. Orderly'
  BY <1>1, <1>2, <1>4, <1>8, <1>9, OrderlyKept, Zenon
<1>11. Data'
  BY <1>1, <1>4 DEF Data
<1> QED
  BY <1>7, <1>10, <1>11 DEF LocksInv

\* A thread leaves a lock: it held it, so that the count does not drop below zero.
LEMMA ExitKeeps ==
    ASSUME LocksInv, NEW t \in Threads, NEW l \in Locks, MutexExit(t, l)
    PROVE  LocksInv'
<1>1. Mutexes /\ Data /\ Orderly /\ todo[t] # <<>> /\ Head(todo[t]) = Exit(l)
  BY DEF LocksInv, MutexExit
<1>2. PICK M \in Held : Does(Exit(l), Holding(t), M) /\ Runs(Tail(todo[t]), M, Zero)
  BY <1>1, NextItem
<1>3. Holding(t) = Plus(M, l)
  BY <1>2, DoesExit
<1>4. /\ owner' = [owner EXCEPT ![l] = IF depth[l] = 1 THEN Nobody ELSE t]
      /\ depth' = [depth EXCEPT ![l] = @ - 1] /\ todo' = [todo EXCEPT ![t] = Tail(@)]
      /\ UNCHANGED <<table, status, session, routed>>
  BY DEF MutexExit
<1>5. t # Nobody
  BY NobodyIsNoThread
<1>6. /\ \A m \in Locks : Holding(t)[m] = IF m = l THEN M[m] + 1 ELSE M[m]
      /\ \A m \in Locks : M[m] \in Nat
  BY <1>3, PlusHeld DEF Held
<1>7. owner[l] = t /\ depth[l] = M[l] + 1 /\ M[l] \in Nat
  BY <1>1, <1>6, HoldingFacts
<1>8. /\ \A m \in Locks : owner'[m] = IF m = l THEN IF M[l] = 0 THEN Nobody ELSE t ELSE owner[m]
      /\ \A m \in Locks : depth'[m] = IF m = l THEN M[l] ELSE depth[m]
  BY <1>1, <1>4, <1>7 DEF Mutexes
<1>9. Mutexes'
  <2>1. owner' \in [Locks -> Threads \cup {Nobody}]
    BY <1>1, <1>4 DEF Mutexes
  <2>2. depth' \in [Locks -> Nat]
    BY <1>1, <1>4, <1>7 DEF Mutexes
  <2>3. \A m \in Locks : owner'[m] = Nobody <=> depth'[m] = 0
    BY <1>1, <1>5, <1>8 DEF Mutexes
  <2> QED
    BY <2>1, <2>2, <2>3 DEF Mutexes
<1>10. Holding(t)' = M
  <2>1. \A m \in Locks : m # l => M[m] = IF owner[m] = t THEN depth[m] ELSE 0
    BY <1>1, <1>6, HoldingFacts
  <2>2. \A m \in Locks : M[m] = IF owner'[m] = t THEN depth'[m] ELSE 0
    BY <1>5, <1>8, <2>1
  <2> QED
    BY <1>2, <2>2 DEF Holding, Held
<1>11. ASSUME NEW u \in Threads \ {t} PROVE Holding(u)' = Holding(u)
  <2>1. u # Nobody
    BY NobodyIsNoThread
  <2>2. \A m \in Locks : (IF owner'[m] = u THEN depth'[m] ELSE 0)
                       = (IF owner[m] = u THEN depth[m] ELSE 0)
    BY <1>7, <1>8, <2>1
  <2> QED
    BY <2>2 DEF Holding
<1>12. Orderly'
  BY <1>1, <1>2, <1>4, <1>10, <1>11, OrderlyKept, Zenon
<1>13. Data'
  BY <1>1, <1>4 DEF Data
<1> QED
  BY <1>9, <1>12, <1>13 DEF LocksInv

\* A call is replaced by what the function does.
LEMMA CallKeeps ==
    ASSUME LocksInv, NEW t \in Threads, NEW f \in Compound, NEW c \in Conns, CallFunction(t, f, c)
    PROVE  LocksInv'
<1>1. Mutexes /\ Data /\ Orderly /\ todo[t] # <<>> /\ Head(todo[t]) = Call(f, c)
  BY DEF LocksInv, CallFunction
<1>2. PICK M \in Held : Does(Call(f, c), Holding(t), M) /\ Runs(Tail(todo[t]), M, Zero)
  BY <1>1, NextItem
<1>3. Ready(f, c, Holding(t)) /\ M = Holding(t)
  BY <1>2, DoesCall
<1>4. UNCHANGED <<owner, depth, table, status, session, routed>>
  BY DEF CallFunction
<1>5. PICK body \in Bodies(f, c) : todo' = [todo EXCEPT ![t] = body \o Tail(@)]
  BY Zenon DEF CallFunction
<1>6. Runs(body, M, M)
  <2>1. table \subseteq Conns
    BY <1>1 DEF Data
  <2> QED
    BY <1>3, <2>1, BodiesRun
<1>7. Runs(body \o Tail(todo[t]), M, Zero)
  BY <1>2, <1>6, RunsThen
<1>8. Mutexes' /\ \A u \in Threads : Holding(u)' = Holding(u)
  BY <1>1, <1>4, HoldingStays
<1>9. todo' = [todo EXCEPT ![t] = body \o Tail(todo[t])]
  BY <1>5
<1>10. Orderly'
  BY <1>1, <1>3, <1>7, <1>8, <1>9, OrderlyKept, Zenon
<1>11. Data'
  BY <1>1, <1>4 DEF Data
<1> QED
  BY <1>8, <1>10, <1>11 DEF LocksInv

\* A change of state at the bottom of the calls, which comes with its locks held.
LEMMA EffectKeeps ==
    ASSUME LocksInv, NEW t \in Threads, NEW f \in Simple, NEW c \in Conns, Effect(t, f, c)
    PROVE  LocksInv' /\ Ready(f, c, Holding(t))
<1>1. Mutexes /\ Data /\ Orderly /\ todo[t] # <<>> /\ Head(todo[t]) = Call(f, c)
  BY DEF LocksInv, Effect
<1>2. PICK M \in Held : Does(Call(f, c), Holding(t), M) /\ Runs(Tail(todo[t]), M, Zero)
  BY <1>1, NextItem
<1>3. Ready(f, c, Holding(t)) /\ M = Holding(t)
  BY <1>2, DoesCall
<1>4. UNCHANGED <<owner, depth, routed>> /\ todo' = [todo EXCEPT ![t] = Tail(@)]
  BY DEF Effect
<1>5. Mutexes' /\ \A u \in Threads : Holding(u)' = Holding(u)
  BY <1>1, <1>4, HoldingStays
<1>6. Orderly'
  BY <1>1, <1>2, <1>3, <1>4, <1>5, OrderlyKept, Zenon
<1>7. Data'
  <2>1. table' \subseteq Conns
    BY <1>1 DEF Data, Effect
  <2>2. status' \in [Conns -> {"NONE", "STARTED", "COMPLETING", "COMPLETE"}]
    BY <1>1 DEF Data, Effect
  <2>3. session' \in [Conns -> {"none", "running", "killed"}]
    BY <1>1 DEF Data, Effect
  <2> QED
    BY <1>1, <1>4, <2>1, <2>2, <2>3 DEF Data
<1> QED
  BY <1>3, <1>5, <1>6, <1>7 DEF LocksInv

-----------------------------------------------------------------------------

\* A thread that has nothing to do holds nothing, and may start what runs from there.
LEMMA StartKeeps ==
    ASSUME LocksInv, NEW t \in Threads, NEW s, Start(t, s), Runs(s, Zero, Zero)
    PROVE  LocksInv'
<1>1. /\ Mutexes /\ Data /\ Orderly /\ todo[t] = <<>> /\ todo' = [todo EXCEPT ![t] = s]
      /\ UNCHANGED <<owner, depth, table, status, session, routed>>
  BY DEF LocksInv, Start
<1>2. Holding(t) = Zero
  <2>1. Runs(<<>>, Holding(t), Zero)
    BY <1>1 DEF Orderly
  <2> QED
    BY <2>1, EmptyRuns
<1>3. Mutexes' /\ \A u \in Threads : Holding(u)' = Holding(u)
  BY <1>1, HoldingStays
<1>4. Orderly'
  BY <1>1, <1>2, <1>3, OrderlyKept, Zenon
<1>5. Data'
  BY <1>1 DEF Data
<1> QED
  BY <1>3, <1>4, <1>5 DEF LocksInv

\* The lock of the list a connection is in.
LEMMA ListLockFacts ==
    ASSUME NEW c \in Conns
    PROVE  /\ ListLock(c) \in Global /\ ListLock(c) \in Locks
           /\ Plus(Zero, ListLock(c)) \in Held /\ Free(Plus(Zero, ListLock(c)))
           /\ InOrder(ListLock(c), Zero)
<1>1. ListLock(c) \in Global /\ ListLock(c) \notin {"log", "auth"}
  BY DEF ListLock, Global
<1>2. ListLock(c) \in Locks
  BY <1>1, LocksFacts
<1> QED
  BY <1>1, <1>2, ZeroFacts, InsideGlobal

\* The threads.
LEMMA ThreadsFacts ==
    /\ Main \in Threads /\ LwsWorker \in Threads /\ Routers \subseteq Threads
    /\ \A c \in Conns : <<"auth_worker", c>> \in Threads
  BY DEF Threads, Workers

\* conn_read_input and handle_lws_input.
LEMMA ReadInputKeeps ==
    ASSUME LocksInv, NEW c \in Conns, ReadInput(c)
    PROVE  LocksInv'
<1>1. PICK f \in {"conn_process_msg", "process_logon_msg", "process_logoff_msg"} :
          Start(Main, Guarded(ListLock(c), Guarded(c, <<Call(f, c)>>)))
  BY DEF ReadInput
<1>2. PICK A \in Held : A = Plus(Zero, ListLock(c)) /\ Free(A)
  BY ListLockFacts
<1>3. Plus(A, c) \in Held /\ Free(Plus(A, c)) /\ Plus(A, c)[c] > 0
  BY <1>2, InsideConn
<1>4. Ready(f, c, Plus(A, c)) /\ f \in Compound \cup Simple
  BY <1>3, ReadyFacts DEF Compound
<1>5. Runs(Guarded(c, <<Call(f, c)>>), A, A)
  BY <1>4, RunsInConn
<1>6. Runs(Guarded(ListLock(c), Guarded(c, <<Call(f, c)>>)), Zero, Zero)
  BY <1>2, <1>5, ListLockFacts, ZeroFacts, RunsGuarded
<1> QED
  BY <1>1, <1>6, ThreadsFacts, StartKeeps

\* close_conn.
LEMMA CloseConnKeeps ==
    ASSUME LocksInv, NEW c \in Conns, CloseConn(c)
    PROVE  LocksInv'
<1>1. "conn_reset_logon" \in Compound
  BY DEF Compound
<1>2. Ready("conn_reset_logon", c, Plus(Zero, ListLock(c)))
  BY ListLockFacts, ReadyFacts
<1>3. Runs(Guarded(ListLock(c), <<Call("conn_reset_logon", c)>>), Zero, Zero)
  BY <1>1, <1>2, ListLockFacts, ZeroFacts, RunsInGlobal
<1>4. PICK t \in Threads : Start(t, Guarded(ListLock(c), <<Call("conn_reset_logon", c)>>))
  BY ThreadsFacts DEF CloseConn
<1> QED
  BY <1>3, <1>4, StartKeeps

\* complete_logons, for the one list and then for the other.
LEMMA CompleteLogonsKeep ==
    ASSUME LocksInv, CompleteLogons
    PROVE  LocksInv'
<1>1. ASSUME NEW l \in {"tcp", "lws"}, NEW cs \in SUBSET Conns
      PROVE  Runs(Guarded(l, Each("complete_logon", cs)), Zero, Zero)
  <2>1. l \in Global /\ l \notin {"log", "auth"} /\ l \in Locks /\ "complete_logon" \in Compound
    BY LocksFacts DEF Global, Compound
  <2>2. PICK A \in Held : A = Plus(Zero, l) /\ Free(A)
    BY <2>1, ZeroFacts, InsideGlobal
  <2>3. \A c \in cs : Ready("complete_logon", c, A)
    BY <2>2, ReadyFacts
  <2>4. Runs(Each("complete_logon", cs), A, A)
    BY <2>1, <2>3, RunsEach
  <2> QED
    BY <2>1, <2>2, <2>4, ZeroFacts, RunsGuarded
<1>2. /\ Runs(Guarded("tcp", Each("complete_logon", TcpConns)), Zero, Zero)
      /\ Runs(Guarded("lws", Each("complete_logon", LwsConns)), Zero, Zero)
  BY <1>1 DEF Conns
<1>3. Runs(Guarded("tcp", Each("complete_logon", TcpConns))
           \o Guarded("lws", Each("complete_logon", LwsConns)), Zero, Zero)
  BY <1>2, RunsThen
<1> QED
  BY <1>3, ThreadsFacts, StartKeeps DEF CompleteLogons

\* handle_queued_msgs, cpdlc_lws_cb, auth_worker and the router.
LEMMA OtherStartsKeep ==
    ASSUME LocksInv, NEW c \in Conns
    PROVE  /\ HandleQueuedMsg(c) => LocksInv'
           /\ LwsInputOutput(c) => LocksInv'
           /\ AuthWorker(c) => LocksInv'
           /\ \A t \in Routers : RouterProc(t, c) => LocksInv'
<1>0. /\ "queued_to_each" \in Compound /\ "auth_done" \in Compound /\ "forward_msg" \in Compound
      /\ "session_ends" \in Simple /\ "by_from" \in Global /\ "auth" \in Global /\ c \in Locks
      /\ "auth" \in Locks
  BY LocksFacts DEF Compound, Simple, Global
<1>1. HandleQueuedMsg(c) => LocksInv'
  <2>1. Ready("queued_to_each", c, Plus(Zero, "by_from"))
    BY <1>0, ZeroFacts, InsideGlobal, ReadyFacts
  <2>2. Runs(Guarded("by_from", <<Call("queued_to_each", c)>>), Zero, Zero)
    BY <1>0, <2>1, ZeroFacts, FreeInOrder, RunsInGlobal
  <2> QED
    BY <2>2, ThreadsFacts, StartKeeps DEF HandleQueuedMsg
<1>2. LwsInputOutput(c) => LocksInv'
  <2>1. Runs(Guarded(c, <<>>), Zero, Zero)
    BY <1>0, ZeroFacts, InsideConn, RunsEmpty, RunsGuarded
  <2> QED
    BY <2>1, ThreadsFacts, StartKeeps DEF LwsInputOutput
<1>3. AuthWorker(c) => LocksInv'
  <2>1. PICK A \in Held : A = Plus(Zero, "auth") /\ A["auth"] > 0
    BY <1>0, ZeroFacts, InsideGlobal
  <2>2. Does(Call("auth_done", c), A, A) /\ Does(Call("session_ends", c), A, A)
    BY <1>0, <2>1, ReadyFacts DEF Does
  <2>3. Runs(<<Call("auth_done", c), Call("session_ends", c)>>, A, A)
    BY <2>2, RunsTwo
  <2>4. Runs(Guarded("auth", <<Call("auth_done", c), Call("session_ends", c)>>), Zero, Zero)
    BY <1>0, <2>1, <2>3, ZeroFacts, RunsGuarded
  <2> QED
    BY <2>4, ThreadsFacts, StartKeeps DEF AuthWorker
<1>4. ASSUME NEW t \in Routers, RouterProc(t, c) PROVE LocksInv'
  <2>1. Runs(<<Call("forward_msg", c)>>, Zero, Zero)
    BY <1>0, ZeroFacts, ReadyFacts, RunsCall
  <2> QED
    BY <1>4, <2>1, ThreadsFacts, StartKeeps DEF RouterProc
<1> QED
  BY <1>1, <1>2, <1>3, <1>4

-----------------------------------------------------------------------------

\* The invariant holds at the start.
LEMMA InitLocksInv == Init => LocksInv
<1> SUFFICES ASSUME Init PROVE LocksInv
  OBVIOUS
<1>1. Mutexes
  BY DEF Init, Mutexes
<1>2. Data
  BY DEF Init, Data
<1>3. ASSUME NEW t \in Threads PROVE todo[t] = <<>> /\ Holding(t) = Zero
  <2>1. t # Nobody
    BY NobodyIsNoThread
  <2> QED
    BY <2>1 DEF Init, Holding, Zero
<1>4. todo \in [Threads -> Seq(Item)]
  BY DEF Init
<1>5. Orderly
  BY <1>3, <1>4, ZeroFacts, RunsEmpty DEF Orderly
<1> QED
  BY <1>1, <1>2, <1>5 DEF LocksInv

\* Every step keeps the invariant.
LEMMA StepLocksInv ==
    ASSUME LocksInv, [Next]_vars
    PROVE  LocksInv'
<1>1. ASSUME NEW t \in Threads, Proceed(t) PROVE LocksInv'
  <2>1. ASSUME NEW l \in Locks, MutexEnter(t, l) \/ MutexExit(t, l) PROVE LocksInv'
    BY <2>1, EnterKeeps, ExitKeeps
  <2>2. ASSUME NEW c \in Conns, NEW f \in Compound, CallFunction(t, f, c) PROVE LocksInv'
    BY <2>2, CallKeeps
  <2>3. ASSUME NEW c \in Conns, NEW f \in Simple, Effect(t, f, c) PROVE LocksInv'
    BY <2>3, EffectKeeps
  <2> QED
    BY <1>1, <2>1, <2>2, <2>3, Zenon DEF Proceed
<1>2. ASSUME NEW c \in Conns, ReadInput(c) \/ CloseConn(c) \/ AuthWorker(c) \/ HandleQueuedMsg(c)
      PROVE  LocksInv'
  BY <1>2, ReadInputKeeps, CloseConnKeeps, OtherStartsKeep
<1>3. ASSUME NEW c \in LwsConns, LwsInputOutput(c) PROVE LocksInv'
  BY <1>3, OtherStartsKeep DEF Conns
<1>4. ASSUME NEW t \in Routers, NEW c \in Conns, RouterProc(t, c) PROVE LocksInv'
  BY <1>4, OtherStartsKeep
<1>5. CASE CompleteLogons
  BY <1>5, CompleteLogonsKeep
<1>6. CASE UNCHANGED vars
  BY <1>6 DEF vars, LocksInv, Mutexes, Data, Orderly, Holding
<1> QED
  BY <1>1, <1>2, <1>3, <1>4, <1>5, <1>6, Zenon DEF Next

\* The invariant holds throughout.
THEOREM LocksInvHolds == Spec => []LocksInv
<1>1. LocksInv /\ [Next]_vars => LocksInv'
  BY StepLocksInv
<1> QED
  BY <1>1, InitLocksInv, PTL DEF Spec

\* Every state is of its type: above all, a mutex is left only by a thread inside it, and the
\* stacks hold nothing but locks and calls, whatever the functions put there.
THEOREM LockOrderTypeOK == Spec => []TypeOK
<1>1. LocksInv => TypeOK
  BY DEF LocksInv, Mutexes, Data, Orderly, TypeOK, Item
<1> QED
  BY <1>1, LocksInvHolds, PTL

\* A lock that is held is held by a thread that has something left to do:
\* whoever comes to the end of a handler has left every lock it entered.
LocksAreReturned ==
    \A l \in Locks : owner[l] # Nobody => owner[l] \in Threads /\ todo[owner[l]] # <<>>

\* Every way through the handlers, early returns and nested calls included,
\* leaves the locks it entered, on whichever thread it runs.  For any number
\* of connections and routers.
THEOREM NoLockIsLeft == Spec => []LocksAreReturned
<1>1. ASSUME LocksInv, NEW l \in Locks, owner[l] # Nobody
      PROVE  owner[l] \in Threads /\ todo[owner[l]] # <<>>
  <2>1. PICK t \in Threads : owner[l] = t
    BY <1>1 DEF LocksInv, Mutexes
  <2>2. depth[l] \in Nat /\ depth[l] # 0
    BY <1>1 DEF LocksInv, Mutexes
  <2>3. Holding(t)[l] # Zero[l]
    BY <2>1, <2>2 DEF Holding, Zero
  <2>4. PICK g : Along(todo[t], Holding(t), Zero, g)
    BY <1>1 DEF LocksInv, Orderly, Runs
  <2>5. todo[t] = <<>> => Holding(t) = Zero
    BY <2>4 DEF Along
  <2> QED
    BY <2>1, <2>3, <2>5
<1>2. LocksInv => LocksAreReturned
  BY <1>1 DEF LocksAreReturned
<1> QED
  BY <1>2, LocksInvHolds, PTL

\* A thread that waits for a global lock holds none but such as come before it.
LEMMA WaitsInOrder ==
    ASSUME LocksInv, NEW t \in Threads, NEW l \in Global, Wants(t, l), NEW m \in Global,
           owner[m] = t
    PROVE  m = l \/ Rank(m) < Rank(l)
<1>1. Mutexes /\ Orderly /\ todo[t] # <<>> /\ Head(todo[t]) = Enter(l) /\ l \in Locks /\ m \in Locks
  BY LocksFacts DEF LocksInv, Wants
<1>2. PICK M \in Held : Does(Enter(l), Holding(t), M)
  BY <1>1, NextItem
<1>3. InOrder(l, Holding(t))
  BY <1>1, <1>2, DoesEnter
<1>4. Holding(t)[m] > 0
  <2>1. depth[m] \in Nat /\ depth[m] # 0
    BY <1>1, NobodyIsNoThread DEF Mutexes
  <2> QED
    BY <1>1, <2>1, HoldingFacts
<1> QED
  BY <1>3, <1>4 DEF InOrder

\* Of threads that wait for one another, each for a global lock, each would wait for one
\* that comes after the one the last waits for; but there are three ranks only.
LEMMA NoCircle ==
    ASSUME LocksInv
    PROVE  DeadlocksNeedAConnection
<1> SUFFICES ASSUME NEW ts \in SUBSET Threads, Deadlocked(ts),
                    \A t \in ts : \A c \in Conns : ~WaitsFor(t, c)
             PROVE  FALSE
  BY DEF DeadlocksNeedAConnection
<1> DEFINE Closed(l) == l \in Global /\ owner[l] \in ts /\ \E t \in ts : WaitsFor(t, l)
<1>1. ASSUME NEW t \in ts PROVE \E l : Closed(l) /\ WaitsFor(t, l)
  <2>1. PICK l \in Locks : WaitsFor(t, l) /\ owner[l] \in ts
    BY DEF Deadlocked
  <2>2. l \in Global
    BY <2>1 DEF Locks, Global
  <2> QED
    BY <2>1, <2>2
<1>2. ASSUME NEW l, Closed(l) PROVE \E m : Closed(m) /\ Rank(l) < Rank(m)
  <2>1. PICK u \in ts : owner[l] = u
    BY <1>2
  <2>2. PICK m : Closed(m) /\ WaitsFor(u, m)
    BY <1>1
  <2>3. Wants(u, m) /\ owner[m] # u /\ m \in Global /\ l \in Global /\ u \in Threads
    BY <1>2, <2>2 DEF WaitsFor
  <2>4. l = m \/ Rank(l) < Rank(m)
    BY <2>1, <2>3, WaitsInOrder
  <2> QED
    BY <2>1, <2>2, <2>3, <2>4
<1>3. \A l : Rank(l) \in {0, 1, 2}
  BY DEF Rank
<1>4. PICK k : Closed(k)
  BY <1>1 DEF Deadlocked
<1>5. PICK l : Closed(l) /\ Rank(k) < Rank(l)
  BY <1>2, <1>4
<1>6. PICK m : Closed(m) /\ Rank(l) < Rank(m)
  BY <1>2, <1>5
<1>7. PICK n : Closed(n) /\ Rank(m) < Rank(n)
  BY <1>2, <1>6
<1> HIDE DEF Closed
<1>8. /\ Rank(k) \in {0, 1, 2} /\ Rank(l) \in {0, 1, 2}
      /\ Rank(m) \in {0, 1, 2} /\ Rank(n) \in {0, 1, 2}
  BY <1>3
<1> QED
  BY <1>5, <1>6, <1>7, <1>8

\* The list locks, conns_by_from_lock, msg_log_lock and the lock of auth.c never deadlock
\* among themselves: in every circle of threads that wait for one another, one waits for
\* conn->lock.  For any number of connections and routers.
THEOREM OnlyConnectionsDeadlock == Spec => []DeadlocksNeedAConnection
  BY NoCircle, LocksInvHolds, PTL

\* What a change of state needs held is the lock that guards it.
LEMMA EffectGuarded ==
    ASSUME LocksInv, NEW t \in Threads, NEW f \in Simple, NEW c \in Conns, Effect(t, f, c)
    PROVE  /\ table' # table => owner["by_from"] = t
           /\ session' # session => owner["auth"] = t
           /\ \A d \in Conns : status'[d] # status[d] => owner[d] = t
<1>1. Ready(f, c, Holding(t)) /\ Mutexes /\ Data
  BY EffectKeeps DEF LocksInv
<1>2. \A l \in Locks : Holding(t)[l] > 0 => owner[l] = t
  BY <1>1, HoldingFacts
<1>3. "by_from" \in Locks /\ "auth" \in Locks /\ c \in Locks
  BY LocksFacts
<1>4. ASSUME table' # table PROVE owner["by_from"] = t
  <2>1. f \in {"htbl_set", "conns_by_from_remove"}
    BY <1>4 DEF Effect, Simple
  <2> QED
    BY <1>1, <1>2, <1>3, <2>1 DEF Ready
<1>5. ASSUME session' # session PROVE owner["auth"] = t
  <2>1. f \in {"auth_sess_open", "auth_sess_kill", "session_ends"}
    BY <1>1, <1>5 DEF Effect, Data
  <2> QED
    BY <1>1, <1>2, <1>3, <2>1 DEF Ready
<1>6. ASSUME NEW d \in Conns, status'[d] # status[d] PROVE owner[d] = t
  <2>1. d = c /\ f \in {"clear_logon", "auth_sess_open", "logon_done_cb", "htbl_set"}
    BY <1>1, <1>6 DEF Effect, Data
  <2> QED
    BY <1>1, <1>2, <1>3, <2>1 DEF Ready
<1> QED
  BY <1>4, <1>5, <1>6

\* No other step changes the table, a session or a status.
LEMMA StepGuarded ==
    ASSUME LocksInv, Next
    PROVE  \A t \in Threads : todo'[t] # todo[t] =>
              /\ table' # table => owner["by_from"] = t
              /\ session' # session => owner["auth"] = t
              /\ \A c \in Conns : status'[c] # status[c] => owner[c] = t
<1>1. CASE UNCHANGED <<table, status, session>>
  BY <1>1
<1>2. CASE \E u \in Threads : \E d \in Conns : \E f \in Simple : Effect(u, f, d)
  <2>1. PICK u \in Threads, d \in Conns, f \in Simple : Effect(u, f, d)
    BY <1>2
  <2>2. ASSUME NEW t \in Threads, todo'[t] # todo[t] PROVE t = u
    BY <2>1, <2>2 DEF Effect, LocksInv, Orderly
  <2> QED
    BY <2>1, <2>2, EffectGuarded
<1>3. \/ UNCHANGED <<table, status, session>>
      \/ \E u \in Threads : \E d \in Conns : \E f \in Simple : Effect(u, f, d)
  <2>1. ASSUME NEW u \in Threads, Proceed(u)
        PROVE  \/ UNCHANGED <<table, status, session>>
               \/ \E d \in Conns : \E f \in Simple : Effect(u, f, d)
    BY <2>1 DEF Proceed, MutexEnter, MutexExit, CallFunction
  <2>2. ASSUME NEW c \in Conns, \/ ReadInput(c) \/ CloseConn(c) \/ AuthWorker(c)
                                \/ HandleQueuedMsg(c)
        PROVE  UNCHANGED <<table, status, session>>
    BY <2>2 DEF ReadInput, CloseConn, AuthWorker, HandleQueuedMsg, Start
  <2>3. ASSUME NEW c \in LwsConns, LwsInputOutput(c) PROVE UNCHANGED <<table, status, session>>
    BY <2>3 DEF LwsInputOutput, Start
  <2>4. ASSUME NEW t \in Routers, NEW c \in Conns, RouterProc(t, c)
        PROVE  UNCHANGED <<table, status, session>>
    BY <2>4 DEF RouterProc, Start
  <2>5. CASE CompleteLogons
    BY <2>5 DEF CompleteLogons, Start
  <2> QED
    BY <2>1, <2>2, <2>3, <2>4, <2>5, Zenon DEF Next
<1> QED
  BY <1>1, <1>2, <1>3

\* conn->logon_status changes inside conn->lock only, conns_by_from inside its lock and a
\* session inside the lock of auth.c, by whichever thread and however deep in its calls.
THEOREM ChangesUnderTheirLocks == Spec => ChangesAreGuarded
<1>1. LocksInv /\ [Next]_vars =>
         [\A t \in Threads : todo'[t] # todo[t] =>
             /\ table' # table => owner["by_from"] = t
             /\ session' # session => owner["auth"] = t
             /\ \A c \in Conns : status'[c] # status[c] => owner[c] = t]_vars
  BY StepGuarded
<1> QED
  BY <1>1, LocksInvHolds, PTL DEF Spec, ChangesAreGuarded
=============================================================================
