-------------------------- MODULE StoreForwardProofs --------------------------
(***************************************************************************)
(* Proofs about StoreForward, for any number of stations, callsigns,       *)
(* messages and router threads and any limits.                             *)
(*                                                                         *)
(* IInv is the inductive invariant: where each message is (Once), the      *)
(* accounts (Accounted) and what the sweep's cursors may point at          *)
(* (Cursors).  MailboxProofs adds what holds without a router.             *)
(***************************************************************************)
EXTENDS StoreForward, ListLemmas, FiniteSetTheorems

-----------------------------------------------------------------------------
(* Sums. *)

Pick(X) == CHOOSE x \in X : TRUE

\* it[X] is the sum over X, for the subsets of T.
SumsBy(w, T, it) ==
    \A X \in SUBSET T : it[X] = IF X = {} THEN 0 ELSE w[Pick(X)] + it[X \ {Pick(X)}]

\* Taking an element from a finite set makes it smaller by one.
LEMMA Picked ==
    ASSUME NEW X, IsFiniteSet(X), X # {}
    PROVE  /\ Pick(X) \in X
           /\ IsFiniteSet(X \ {Pick(X)})
           /\ Cardinality(X) \in Nat \ {0}
           /\ Cardinality(X \ {Pick(X)}) = Cardinality(X) - 1
<1>1. Pick(X) \in X
  BY DEF Pick
<1>2. Cardinality(X) \in Nat /\ Cardinality(X) # 0
  BY FS_CardinalityType, FS_EmptySet
<1> QED
  BY <1>1, <1>2, FS_RemoveElement

\* The recursive function behind SumFunctionOnSet exists.
LEMMA SumExists ==
    ASSUME NEW w, NEW T, IsFiniteSet(T)
    PROVE  \E it : SumsBy(w, T, it) /\ it[T] = SumFunctionOnSet(w, T)
<1> DEFINE Up(n) == {X \in SUBSET T : Cardinality(X) <= n}
           step(it, X) == IF X = {} THEN 0 ELSE w[Pick(X)] + it[X \ {Pick(X)}]
           G == {n \in Nat : \E it : it = [X \in Up(n) |-> step(it, X)]}
<1>0. \A X \in SUBSET T : IsFiniteSet(X) /\ Cardinality(X) \in Nat
                          /\ Cardinality(X) <= Cardinality(T)
  BY FS_Subset, FS_CardinalityType
<1>1. 0 \in G
  <2> DEFINE v == [X \in Up(0) |-> 0]
  <2>1. ASSUME NEW X \in Up(0) PROVE X = {}
    <3>1. IsFiniteSet(X) /\ Cardinality(X) = 0
      BY <1>0
    <3> QED
      BY <3>1, FS_EmptySet
  <2>2. v = [X \in Up(0) |-> step(v, X)]
    BY <2>1
  <2>3. 0 \in Nat
    OBVIOUS
  <2> HIDE DEF v, step, Up
  <2> QED
    BY <2>2, <2>3, Zenon
<1>2. ASSUME NEW n \in Nat, n \in G PROVE n + 1 \in G
  <2>1. PICK it : it = [X \in Up(n) |-> step(it, X)]
    BY <1>2, Zenon
  <2> DEFINE v == [X \in Up(n + 1) |-> IF X \in Up(n) THEN it[X] ELSE step(it, X)]
  <2>2. ASSUME NEW X \in Up(n + 1) PROVE v[X] = step(v, X)
    <3>1. CASE X = {}
      <4>1. X \in Up(n)
        BY <3>1, FS_EmptySet
      <4> QED
        BY <2>1, <3>1, <4>1
    <3>2. CASE X # {}
      <4>1. IsFiniteSet(X) /\ X \in SUBSET T /\ Cardinality(X) <= n + 1
        BY <1>0
      <4>2. PICK Y : Y = X \ {Pick(X)}
        BY Zenon
      <4>3. Cardinality(Y) = Cardinality(X) - 1 /\ Cardinality(X) \in Nat \ {0} /\ Y \in SUBSET T
        BY <3>2, <4>1, <4>2, Picked, Zenon
      <4>4. Y \in Up(n) /\ Y \in Up(n + 1)
        BY <4>1, <4>3
      <4>5. v[Y] = it[Y]
        BY <4>4
      <4>6. v[X] = step(it, X)
        BY <2>1, Zenon
      <4> HIDE DEF v
      <4> QED
        BY <3>2, <4>2, <4>5, <4>6
    <3> QED
      BY <3>1, <3>2
  <2>3. v = [X \in Up(n + 1) |-> step(v, X)]
    BY <2>2, Zenon
  <2>4. n + 1 \in Nat
    OBVIOUS
  <2> HIDE DEF v, step, Up
  <2> QED
    BY <2>3, <2>4, Zenon
<1>3. Cardinality(T) \in G
  BY <1>1, <1>2, NatSetInduction, FS_CardinalityType, Zenon
<1>4. Up(Cardinality(T)) = SUBSET T
  BY <1>0
<1>5. PICK u : u = [X \in SUBSET T |-> step(u, X)]
  BY <1>3, <1>4, Zenon
<1> DEFINE f == CHOOSE it : it = [X \in SUBSET T |-> step(it, X)]
<1>6. f = [X \in SUBSET T |-> step(f, X)]
  BY <1>5, Zenon
<1>7. SumFunctionOnSet(w, T) = f[T]
  BY DEF SumFunctionOnSet, FoldFunctionOnSet, MapThenFoldSet, Pick
<1> HIDE DEF f
<1>8. SumsBy(w, T, f)
  BY <1>6, Zenon DEF SumsBy
<1> QED
  BY <1>7, <1>8

\* Whatever the sum is over, its values for the subsets are the same.
LEMMA SumUnique ==
    ASSUME NEW w, NEW T, IsFiniteSet(T), NEW f, SumsBy(w, T, f), NEW U \in SUBSET T
    PROVE  f[U] = SumFunctionOnSet(w, U)
<1>1. IsFiniteSet(U)
  BY FS_Subset
<1>2. PICK g : SumsBy(w, U, g) /\ g[U] = SumFunctionOnSet(w, U)
  BY <1>1, SumExists
<1> DEFINE G == {n \in Nat : \A X \in SUBSET U : Cardinality(X) = n => f[X] = g[X]}
<1>0. \A X \in SUBSET U : IsFiniteSet(X) /\ Cardinality(X) \in Nat
  BY <1>1, FS_Subset, FS_CardinalityType
<1>3. 0 \in G
  <2> SUFFICES ASSUME NEW X \in SUBSET U, Cardinality(X) = 0 PROVE f[X] = g[X]
    OBVIOUS
  <2>1. X = {}
    BY <1>0, FS_EmptySet
  <2> QED
    BY <1>2, <2>1, Zenon DEF SumsBy
<1>4. ASSUME NEW n \in Nat, n \in G PROVE n + 1 \in G
  <2> SUFFICES ASSUME NEW X \in SUBSET U, Cardinality(X) = n + 1 PROVE f[X] = g[X]
    OBVIOUS
  <2>1. X # {}
    BY FS_EmptySet
  <2>2. PICK Y : Y = X \ {Pick(X)}
    BY Zenon
  <2>3. Cardinality(Y) = n /\ Y \in SUBSET U
    BY <1>0, <2>1, <2>2, Picked
  <2>4. f[Y] = g[Y]
    BY <1>4, <2>3
  <2>5. f[X] = w[Pick(X)] + f[Y] /\ g[X] = w[Pick(X)] + g[Y]
    BY <1>2, <2>1, <2>2, Zenon DEF SumsBy
  <2> QED
    BY <2>4, <2>5
<1>5. Cardinality(U) \in G
  BY <1>0, <1>3, <1>4, NatSetInduction, Zenon
<1> QED
  BY <1>0, <1>2, <1>5

\* The sum over a finite set, one element at a time, in any order.
LEMMA SumFacts ==
    ASSUME NEW w, NEW T, IsFiniteSet(T), \A x \in T : w[x] \in Nat
    PROVE  /\ SumFunctionOnSet(w, T) \in Nat
           /\ T = {} => SumFunctionOnSet(w, T) = 0
           /\ \A x \in T : SumFunctionOnSet(w, T) = w[x] + SumFunctionOnSet(w, T \ {x})
<1>1. PICK f : SumsBy(w, T, f) /\ f[T] = SumFunctionOnSet(w, T)
  BY SumExists
<1>2. \A X \in SUBSET T : f[X] = SumFunctionOnSet(w, X)
  BY <1>1, SumUnique, Zenon
<1> DEFINE Good(X) == f[X] \in Nat /\ \A x \in X : f[X] = w[x] + f[X \ {x}]
           G == {n \in Nat : \A X \in SUBSET T : Cardinality(X) <= n => Good(X)}
<1>0. \A X \in SUBSET T : IsFiniteSet(X) /\ Cardinality(X) \in Nat
  BY FS_Subset, FS_CardinalityType
<1>3. f[{}] = 0
  BY <1>1, Zenon DEF SumsBy
<1>4. 0 \in G
  <2> SUFFICES ASSUME NEW X \in SUBSET T, Cardinality(X) <= 0 PROVE Good(X)
    OBVIOUS
  <2>1. X = {}
    BY <1>0, FS_EmptySet
  <2> QED
    BY <1>3, <2>1
<1>5. ASSUME NEW n \in Nat, n \in G PROVE n + 1 \in G
  <2> SUFFICES ASSUME NEW X \in SUBSET T, Cardinality(X) <= n + 1 PROVE Good(X)
    OBVIOUS
  <2>0. \A Y \in SUBSET T : Cardinality(Y) <= n => Good(Y)
    BY <1>5
  <2>1. CASE X = {}
    BY <1>3, <2>1
  <2>2. CASE X # {}
    <3>1. PICK c \in X : c = Pick(X)
      BY <2>2 DEF Pick
    <3>2. \A x \in X : /\ X \ {x} \in SUBSET T
                       /\ Cardinality(X \ {x}) <= n
      BY <1>0, FS_RemoveElement
    <3>3. f[X] = w[c] + f[X \ {c}]
      BY <1>1, <2>2, <3>1, Zenon DEF SumsBy
    <3>4. \A x \in X : Good(X \ {x})
      BY <2>0, <3>2
    <3>5. w[c] \in Nat /\ f[X] \in Nat
      BY <3>3, <3>4
    <3>6. ASSUME NEW x \in X, x # c PROVE f[X] = w[x] + f[X \ {x}]
      <4>1. PICK Z : Z = X \ {c, x}
        BY Zenon
      <4>2. Z = (X \ {c}) \ {x} /\ Z = (X \ {x}) \ {c} /\ x \in X \ {c} /\ c \in X \ {x}
        BY <3>6, <4>1
      <4>3. f[X \ {c}] = w[x] + f[Z] /\ f[X \ {x}] = w[c] + f[Z]
        BY <3>4, <4>2, Zenon
      <4>4. Z \in SUBSET T /\ Cardinality(Z) <= n
        <5>1. IsFiniteSet(X \ {c}) /\ Cardinality(X \ {c}) \in Nat /\ Cardinality(X \ {c}) <= n
          BY <1>0, <3>2
        <5>2. Cardinality(Z) <= Cardinality(X \ {c}) /\ Cardinality(Z) \in Nat
          BY <1>0, <4>1, <4>2, <5>1, FS_Subset
        <5> QED
          BY <4>1, <5>1, <5>2
      <4>5. f[Z] \in Nat /\ w[x] \in Nat
        BY <2>0, <4>4
      <4> QED
        BY <3>3, <3>5, <4>3, <4>5
    <3> QED
      BY <3>3, <3>5, <3>6, Zenon
  <2> QED
    BY <2>1, <2>2, Zenon
<1>6. Cardinality(T) \in G
  BY <1>0, <1>4, <1>5, NatSetInduction, Zenon
<1>7. Good(T)
  BY <1>0, <1>6
<1>8. \A x \in T : T \ {x} \in SUBSET T
  OBVIOUS
<1> QED
  BY <1>1, <1>2, <1>3, <1>7, <1>8, Zenon

\* b is a bijection between two finite sets, under which summands agree.
Renames(b, w, T, v, U) ==
    /\ IsFiniteSet(T)
    /\ \A x \in T : w[x] \in Nat
    /\ b \in [T -> U]
    /\ IsInjective(b)
    /\ \A y \in U : \E x \in T : b[x] = y
    /\ \A x \in T : v[b[x]] = w[x]

\* Renaming what is summed up changes nothing.
LEMMA SumRenamed ==
    ASSUME NEW b, NEW w, NEW T, NEW v, NEW U, Renames(b, w, T, v, U)
    PROVE  SumFunctionOnSet(v, U) = SumFunctionOnSet(w, T)
<1> USE DEF Renames
<1> DEFINE Im(X) == {b[x] : x \in X}
           G == {n \in Nat : \A X \in SUBSET T : Cardinality(X) = n =>
                    IsFiniteSet(Im(X)) /\ SumFunctionOnSet(v, Im(X)) = SumFunctionOnSet(w, X)}
<1>0. \A X \in SUBSET T : IsFiniteSet(X) /\ Cardinality(X) \in Nat
  BY FS_Subset, FS_CardinalityType
<1>1. 0 \in G
  <2> SUFFICES ASSUME NEW X \in SUBSET T, Cardinality(X) = 0
               PROVE  IsFiniteSet(Im(X)) /\ SumFunctionOnSet(v, Im(X)) = SumFunctionOnSet(w, X)
    OBVIOUS
  <2>1. X = {} /\ Im(X) = {}
    BY <1>0, FS_EmptySet
  <2>2. \A f : SumFunctionOnSet(f, {}) = 0
    BY SumFacts, FS_EmptySet
  <2> QED
    BY <2>1, <2>2, FS_EmptySet
<1>2. ASSUME NEW n \in Nat, n \in G PROVE n + 1 \in G
  <2> SUFFICES ASSUME NEW X \in SUBSET T, Cardinality(X) = n + 1
               PROVE  IsFiniteSet(Im(X)) /\ SumFunctionOnSet(v, Im(X)) = SumFunctionOnSet(w, X)
    OBVIOUS
  <2>1. IsFiniteSet(X) /\ X # {}
    BY <1>0, FS_EmptySet
  <2>2. PICK x \in X : TRUE
    BY <2>1
  <2>3. PICK Y \in SUBSET T : Y = X \ {x}
    BY Zenon
  <2>4. Cardinality(Y) = n
    <3>1. Cardinality(X \ {x}) = Cardinality(X) - 1
      BY <2>1, <2>2, FS_RemoveElement, Zenon
    <3> QED
      BY <2>3, <3>1
  <2>5. IsFiniteSet(Im(Y)) /\ SumFunctionOnSet(v, Im(Y)) = SumFunctionOnSet(w, Y)
    BY <1>2, <2>4
  <2>6. Im(X) = Im(Y) \cup {b[x]} /\ Im(Y) = Im(X) \ {b[x]} /\ b[x] \in Im(X)
    BY <2>2, <2>3 DEF IsInjective
  <2>7. IsFiniteSet(Im(X))
    <3> HIDE DEF Im
    <3> QED
      BY <2>5, <2>6, FS_AddElement
  <2>8. \A y \in Im(X) : v[y] \in Nat
    OBVIOUS
  <2>9. SumFunctionOnSet(v, Im(X)) = v[b[x]] + SumFunctionOnSet(v, Im(Y))
    BY <2>6, <2>7, <2>8, SumFacts
  <2>10. SumFunctionOnSet(w, X) = w[x] + SumFunctionOnSet(w, Y)
    BY <2>1, <2>2, <2>3, SumFacts
  <2>11. v[b[x]] = w[x]
    BY <2>2
  <2> QED
    BY <2>5, <2>7, <2>9, <2>10, <2>11
<1>3. Cardinality(T) \in G
  BY <1>0, <1>1, <1>2, NatSetInduction, Zenon
<1>4. Im(T) = U
  OBVIOUS
<1> QED
  BY <1>0, <1>3, <1>4

\* The weights v are the weights w of N elements, and one more.
Longer(N, w, v) ==
    /\ N \in Nat
    /\ \A n \in 1 .. N : w[n] \in Nat /\ v[n] = w[n]
    /\ v[N + 1] \in Nat

\* Sums over the positions of a list at whose end an element is added.
LEMMA SumAppended ==
    ASSUME NEW N, NEW w, NEW v, Longer(N, w, v), NEW I \in SUBSET (1 .. N)
    PROVE  /\ SumFunctionOnSet(w, I) \in Nat
           /\ SumFunctionOnSet(v, I) = SumFunctionOnSet(w, I)
           /\ SumFunctionOnSet(v, I \cup {N + 1}) = SumFunctionOnSet(w, I) + v[N + 1]
<1> USE DEF Longer
<1>1. IsFiniteSet(I) /\ IsFiniteSet(I \cup {N + 1})
  <2>1. IsFiniteSet(1 .. N)
    BY FS_Interval
  <2>2. IsFiniteSet(I)
    BY <2>1, FS_Subset, Zenon
  <2> QED
    BY <2>2, FS_AddElement
<1>2. SumFunctionOnSet(w, I) \in Nat
  BY <1>1, SumFacts, Zenon
<1>3. SumFunctionOnSet(v, I) = SumFunctionOnSet(w, I)
  <2>1. PICK b : b = [n \in I |-> n]
    BY Zenon
  <2>2. b \in [I -> I] /\ IsInjective(b)
    BY <2>1 DEF IsInjective
  <2>3. \A y \in I : \E x \in I : b[x] = y
    BY <2>1
  <2>4. \A x \in I : w[x] \in Nat
    OBVIOUS
  <2>5. \A x \in I : v[b[x]] = w[x]
    BY <2>1
  <2>6. Renames(b, w, I, v, I)
    BY <1>1, <2>2, <2>3, <2>4, <2>5, Zenon DEF Renames
  <2> QED
    BY <2>6, SumRenamed
<1>4. PICK J : J = I \cup {N + 1}
  BY Zenon
<1>5. /\ J \ {N + 1} = I /\ N + 1 \in J /\ IsFiniteSet(J)
      /\ \A x \in J : v[x] \in Nat
  BY <1>1, <1>4
<1>6. SumFunctionOnSet(v, J) = v[N + 1] + SumFunctionOnSet(v, J \ {N + 1})
  BY <1>5, SumFacts, ZenonT(30)
<1> QED
  BY <1>2, <1>3, <1>4, <1>5, <1>6

\* The weights v are the weights w of N elements but for the i-th.
Shorter(N, i, w, v) ==
    /\ N \in Nat /\ i \in 1 .. N
    /\ \A n \in 1 .. N : w[n] \in Nat
    /\ \A n \in 1 .. N - 1 : v[n] = w[Shifted(i, n)]

\* Where the elements at positions I are after that.
MovedUp(N, i, I) == {n \in 1 .. N - 1 : Shifted(i, n) \in I}

\* Sums over the positions of a list that an element leaves.
LEMMA SumRemoved ==
    ASSUME NEW N, NEW i, NEW w, NEW v, Shorter(N, i, w, v), NEW I \in SUBSET (1 .. N),
           NEW J, J = MovedUp(N, i, I)
    PROVE  /\ SumFunctionOnSet(v, J) \in Nat
           /\ i \in I => SumFunctionOnSet(w, I) = w[i] + SumFunctionOnSet(v, J)
           /\ i \notin I => SumFunctionOnSet(w, I) = SumFunctionOnSet(v, J)
<1> USE DEF Shorter, MovedUp
<1>1. IsFiniteSet(I) /\ IsFiniteSet(J)
  <2>1. IsFiniteSet(1 .. N) /\ IsFiniteSet(1 .. N - 1)
    BY FS_Interval
  <2>2. J \in SUBSET (1 .. N - 1)
    OBVIOUS
  <2> QED
    BY <2>1, <2>2, FS_Subset, Zenon
<1>2. PICK b : b = [n \in J |-> Shifted(i, n)]
  BY Zenon
<1>3. \A n \in 1 .. N - 1 : Shifted(i, n) \in (1 .. N) \ {i}
  BY DEF Shifted
<1>4. b \in [J -> I \ {i}]
  BY <1>2, <1>3
<1>5. IsInjective(b)
  <2>1. \A m, n \in 1 .. N - 1 : Shifted(i, m) = Shifted(i, n) => m = n
    BY DEF Shifted
  <2> QED
    BY <1>2, <2>1 DEF IsInjective
<1>6. ASSUME NEW y \in I \ {i} PROVE \E x \in J : b[x] = y
  <2>1. CASE y < i
    <3>1. y \in 1 .. N - 1 /\ Shifted(i, y) = y
      BY <2>1 DEF Shifted
    <3> QED
      BY <1>2, <3>1
  <2>2. CASE y > i
    <3>1. y - 1 \in 1 .. N - 1 /\ Shifted(i, y - 1) = y
      BY <2>2 DEF Shifted
    <3> QED
      BY <1>2, <3>1
  <2> QED
    BY <2>1, <2>2
<1>7. \A x \in J : v[x] \in Nat
  BY <1>3
<1>12. \A x \in J : w[b[x]] = v[x]
  BY <1>2
<1>8. SumFunctionOnSet(w, I \ {i}) = SumFunctionOnSet(v, J)
  <2>1. Renames(b, v, J, w, I \ {i})
    BY <1>1, <1>4, <1>5, <1>6, <1>7, <1>12, Zenon DEF Renames
  <2> QED
    BY <2>1, SumRenamed
<1>9. SumFunctionOnSet(v, J) \in Nat
  BY <1>1, <1>7, SumFacts
<1>10. i \in I => SumFunctionOnSet(w, I) = w[i] + SumFunctionOnSet(w, I \ {i})
  BY <1>1, SumFacts, Zenon
<1>11. i \notin I => I \ {i} = I
  OBVIOUS
<1> QED
  BY <1>8, <1>9, <1>10, <1>11, Zenon

-----------------------------------------------------------------------------
(* Where a message is. *)

InTasks(n) == \E i \in DOMAIN tasks : tasks[i].id = n
InGot(n) == \E a \in Idents : \E i \in DOMAIN got[a] : got[a][i].id = n

\* Message n is nowhere, or is in exactly one place.
NoPlace(n) == ~InTasks(n) /\ ~Queued(n) /\ ~InGot(n) /\ n \notin told /\ n \notin lost
OnePlace(n) ==
    \/ InTasks(n) /\ ~Queued(n) /\ ~InGot(n) /\ n \notin told /\ n \notin lost
    \/ ~InTasks(n) /\ Queued(n) /\ ~InGot(n) /\ n \notin told /\ n \notin lost
    \/ ~InTasks(n) /\ ~Queued(n) /\ InGot(n) /\ n \notin told /\ n \notin lost
    \/ ~InTasks(n) /\ ~Queued(n) /\ ~InGot(n) /\ n \in told /\ n \notin lost
    \/ ~InTasks(n) /\ ~Queued(n) /\ ~InGot(n) /\ n \notin told /\ n \in lost

\* No list holds a message twice.
DistinctTasks == \A i, j \in DOMAIN tasks : tasks[i].id = tasks[j].id => i = j
DistinctQueue ==
    \A i, j \in DOMAIN queued_msgs : queued_msgs[i].msg.id = queued_msgs[j].msg.id => i = j
DistinctGot ==
    \A a, b \in Idents : \A i \in DOMAIN got[a], j \in DOMAIN got[b] :
        got[a][i].id = got[b][j].id => a = b /\ i = j

Bookkeeping ==
    /\ tasks \in Seq(Message) /\ DistinctTasks
    /\ queued_msgs \in Seq(QueuedMsg) /\ DistinctQueue
    /\ got \in [Idents -> Seq(Message)] /\ DistinctGot

Once ==
    /\ Bookkeeping
    /\ \A n : IF n \in 1 .. count THEN OnePlace(n) ELSE NoPlace(n)

\* taskq_submit, or the call of msg_router.
LEMMA TaskAdded ==
    ASSUME tasks \in Seq(Message), DistinctTasks,
           NEW m \in Message, tasks' = Append(tasks, m), ~InTasks(m.id)
    PROVE  /\ tasks' \in Seq(Message) /\ DistinctTasks'
           /\ \A n : InTasks(n)' <=> InTasks(n) \/ n = m.id
<1>1. /\ tasks' \in Seq(Message)
      /\ Len(tasks') = Len(tasks) + 1
      /\ \A i \in 1 .. Len(tasks) : tasks'[i] = tasks[i]
      /\ tasks'[Len(tasks) + 1] = m
      /\ Len(tasks) \in Nat
      /\ DOMAIN tasks = 1 .. Len(tasks)
      /\ DOMAIN tasks' = 1 .. Len(tasks')
  BY AppendPlaces
<1>2. DistinctTasks'
  BY <1>1 DEF DistinctTasks, InTasks
<1>3. \A n : InTasks(n)' <=> InTasks(n) \/ n = m.id
  BY <1>1 DEF InTasks
<1> QED
  BY <1>1, <1>2, <1>3

\* A task is done.
LEMMA TaskRemoved ==
    ASSUME tasks \in Seq(Message), DistinctTasks,
           NEW i \in DOMAIN tasks, tasks' = RemoveAt(tasks, i)
    PROVE  /\ tasks' \in Seq(Message) /\ DistinctTasks'
           /\ \A n : InTasks(n)' <=> InTasks(n) /\ n # tasks[i].id
<1>1. tasks' \in Seq(Message) /\ LacksAt(tasks, i, tasks')
  BY RemoveAtPlaces
<1>2. DistinctTasks'
  BY <1>1 DEF DistinctTasks, LacksAt
<1>3. \A n : InTasks(n)' => InTasks(n) /\ n # tasks[i].id
  BY <1>1 DEF InTasks, DistinctTasks, LacksAt
<1>4. \A n : InTasks(n) /\ n # tasks[i].id => InTasks(n)'
  BY <1>1 DEF InTasks, LacksAt
<1> QED
  BY <1>1, <1>2, <1>3, <1>4

\* store_msg
LEMMA QueueAdded ==
    ASSUME queued_msgs \in Seq(QueuedMsg), DistinctQueue,
           NEW q \in QueuedMsg, queued_msgs' = Append(queued_msgs, q), ~Queued(q.msg.id)
    PROVE  /\ queued_msgs' \in Seq(QueuedMsg) /\ DistinctQueue'
           /\ \A n : Queued(n)' <=> Queued(n) \/ n = q.msg.id
<1>1. /\ queued_msgs' \in Seq(QueuedMsg)
      /\ Len(queued_msgs') = Len(queued_msgs) + 1
      /\ \A i \in 1 .. Len(queued_msgs) : queued_msgs'[i] = queued_msgs[i]
      /\ queued_msgs'[Len(queued_msgs) + 1] = q
      /\ Len(queued_msgs) \in Nat
      /\ DOMAIN queued_msgs = 1 .. Len(queued_msgs)
      /\ DOMAIN queued_msgs' = 1 .. Len(queued_msgs')
  BY AppendPlaces
<1>2. DistinctQueue'
  BY <1>1 DEF DistinctQueue, Queued
<1>3. \A n : Queued(n)' <=> Queued(n) \/ n = q.msg.id
  BY <1>1 DEF Queued
<1> QED
  BY <1>1, <1>2, <1>3

\* dequeue_msg
LEMMA QueueRemoved ==
    ASSUME queued_msgs \in Seq(QueuedMsg), DistinctQueue,
           NEW i \in DOMAIN queued_msgs, queued_msgs' = RemoveAt(queued_msgs, i)
    PROVE  /\ queued_msgs' \in Seq(QueuedMsg) /\ DistinctQueue'
           /\ \A n : Queued(n)' <=> Queued(n) /\ n # queued_msgs[i].msg.id
<1>1. queued_msgs' \in Seq(QueuedMsg) /\ LacksAt(queued_msgs, i, queued_msgs')
  BY RemoveAtPlaces
<1>2. DistinctQueue'
  BY <1>1 DEF DistinctQueue, LacksAt
<1>3. \A n : Queued(n)' => Queued(n) /\ n # queued_msgs[i].msg.id
  BY <1>1 DEF Queued, DistinctQueue, LacksAt
<1>4. \A n : Queued(n) /\ n # queued_msgs[i].msg.id => Queued(n)'
  BY <1>1 DEF Queued, LacksAt
<1> QED
  BY <1>1, <1>2, <1>3, <1>4, Zenon

\* conn_send_msg to the connections of a callsign.
LEMMA GotAdded ==
    ASSUME got \in [Idents -> Seq(Message)], DistinctGot,
           NEW a \in Idents, NEW m \in Message,
           got' = [got EXCEPT ![a] = Append(@, m)], ~InGot(m.id)
    PROVE  /\ got' \in [Idents -> Seq(Message)] /\ DistinctGot'
           /\ \A n : InGot(n)' <=> InGot(n) \/ n = m.id
<1>1. PICK s \in Seq(Message) : s = got[a]
  OBVIOUS
<1>2. PICK t : t = Append(s, m)
  BY Zenon
<1>3. /\ t \in Seq(Message)
      /\ DOMAIN t = 1 .. Len(s) + 1
      /\ DOMAIN s = 1 .. Len(s)
      /\ Len(s) \in Nat
      /\ \A i \in 1 .. Len(s) : t[i] = s[i]
      /\ t[Len(s) + 1] = m
  BY <1>2, AppendPlaces
<1>4. got' = [got EXCEPT ![a] = t]
  BY <1>1, <1>2
<1>5. got' \in [Idents -> Seq(Message)]
  BY <1>3, <1>4
<1>6. got'[a] = t /\ \A b \in Idents : b # a => got'[b] = got[b]
  BY <1>4
<1>7. \A b \in Idents : \A i \in DOMAIN got'[b] :
        \/ i \in DOMAIN got[b] /\ got'[b][i] = got[b][i]
        \/ b = a /\ i = Len(s) + 1 /\ got'[b][i] = m
  BY <1>1, <1>3, <1>6
<1>8. \A b \in Idents : \A i \in DOMAIN got[b] :
        i \in DOMAIN got'[b] /\ got'[b][i] = got[b][i]
  BY <1>1, <1>3, <1>6
<1>9. Len(s) + 1 \in DOMAIN got'[a] /\ got'[a][Len(s) + 1] = m
  BY <1>3, <1>6
<1>10. DistinctGot'
  BY <1>7 DEF DistinctGot, InGot
<1>11. \A n : InGot(n)' <=> InGot(n) \/ n = m.id
  BY <1>7, <1>8, <1>9 DEF InGot
<1> QED
  BY <1>5, <1>10, <1>11

\* A step leaves message n where it is.
Stays(n) ==
    /\ InTasks(n)' <=> InTasks(n)
    /\ Queued(n)' <=> Queued(n)
    /\ InGot(n)' <=> InGot(n)
    /\ n \in told' <=> n \in told
    /\ n \in lost' <=> n \in lost

\* A step that moves one message from one place to another.
LEMMA OneMoves ==
    ASSUME Once, Bookkeeping', NEW k, \A n : n # k => Stays(n),
           \A n : n # k => (n \in 1 .. count' <=> n \in 1 .. count),
           k \in 1 .. count', OnePlace(k)'
    PROVE  Once'
<1>1. ASSUME NEW n, n # k
      PROVE  IF n \in 1 .. count' THEN OnePlace(n)' ELSE NoPlace(n)'
  <2>1. IF n \in 1 .. count THEN OnePlace(n) ELSE NoPlace(n)
    BY DEF Once
  <2>2. Stays(n) /\ (n \in 1 .. count' <=> n \in 1 .. count)
    BY <1>1
  <2> HIDE DEF InTasks, InGot, Queued
  <2>3. OnePlace(n) => OnePlace(n)'
    BY <2>2, Zenon DEF OnePlace, Stays
  <2>4. NoPlace(n) => NoPlace(n)'
    BY <2>2, Zenon DEF NoPlace, Stays
  <2> QED
    BY <2>1, <2>2, <2>3, <2>4, Zenon
<1> QED
  BY <1>1, Zenon DEF Once

\* A step that moves no message.
LEMMA NoneMoves ==
    ASSUME Once, UNCHANGED <<count, tasks, queued_msgs, fates>>
    PROVE  Once'
<1>1. /\ count' = count /\ tasks' = tasks /\ queued_msgs' = queued_msgs
      /\ got' = got /\ told' = told /\ lost' = lost
  BY DEF fates
<1>2. Bookkeeping'
  BY <1>1 DEF Once, Bookkeeping, DistinctTasks, DistinctQueue, DistinctGot
<1>3. \A n : (InTasks(n)' <=> InTasks(n)) /\ (Queued(n)' <=> Queued(n)) /\ (InGot(n)' <=> InGot(n))
  BY <1>1 DEF InTasks, Queued, InGot
<1>4. \A n : (OnePlace(n)' <=> OnePlace(n)) /\ (NoPlace(n)' <=> NoPlace(n))
  BY <1>1, <1>3, Zenon DEF OnePlace, NoPlace
<1> QED
  BY <1>1, <1>2, <1>4, Zenon DEF Once

-----------------------------------------------------------------------------
(* The moves. *)

Delivered(m) == m.to \in Idents /\ got' = [got EXCEPT ![m.to] = Append(@, m)]

\* forward_msg_cb of the task at position i: it is delivered, stored, refused
\* or dropped, and what happened to the others stands.
Forwarded(i, m) ==
    /\ m \in Message /\ m.id = tasks[i].id
    /\ \/ Delivered(m) /\ UNCHANGED <<queued_msgs, told, lost>>
       \/ /\ queued_msgs' = Append(queued_msgs, [msg |-> m, is_atc |-> FALSE])
          /\ UNCHANGED fates
       \/ told' = told \cup {m.id} /\ UNCHANGED <<queued_msgs, got, lost>>
       \/ lost' = lost \cup {m.id} /\ UNCHANGED <<queued_msgs, got, told>>

\* msg_router hands a task over: the message moves, and only that one.
LEMMA TaskMoves ==
    ASSUME Once, NEW i \in DOMAIN tasks, NEW m, Forwarded(i, m),
           tasks' = RemoveAt(tasks, i), UNCHANGED count
    PROVE  /\ Once' /\ InTasks(tasks[i].id)
           /\ \A n : n # tasks[i].id => Stays(n)
<1> PICK k : k = tasks[i].id
  OBVIOUS
<1>0. Bookkeeping /\ m \in Message /\ m.id = k
  BY Zenon DEF Once, Forwarded
<1>1. /\ tasks' \in Seq(Message) /\ DistinctTasks'
      /\ \A n : InTasks(n)' <=> InTasks(n) /\ n # k
  BY <1>0, TaskRemoved DEF Bookkeeping
<1>2. k \in 1 .. count /\ InTasks(k) /\ ~Queued(k) /\ ~InGot(k) /\ k \notin told /\ k \notin lost
  <2>1. InTasks(k)
    BY DEF InTasks
  <2>2. k \in 1 .. count /\ OnePlace(k)
    BY <2>1, Zenon DEF Once, NoPlace
  <2> QED
    BY <2>1, <2>2, Zenon DEF OnePlace
<1>3. CASE Delivered(m) /\ UNCHANGED <<queued_msgs, told, lost>>
  <2>1. /\ got' \in [Idents -> Seq(Message)] /\ DistinctGot'
        /\ \A n : InGot(n)' <=> InGot(n) \/ n = k
    BY <1>0, <1>2, <1>3, GotAdded, Zenon DEF Bookkeeping, Delivered
  <2>2. Bookkeeping' /\ \A n : Queued(n)' <=> Queued(n)
    BY <1>0, <1>1, <1>3, <2>1, Zenon DEF Bookkeeping, DistinctQueue, Queued
  <2>3. \A n : n # k => Stays(n)
    BY <1>1, <1>3, <2>1, <2>2, Zenon DEF Stays
  <2>4. OnePlace(k)'
    BY <1>1, <1>2, <1>3, <2>1, <2>2, Zenon DEF OnePlace
  <2> QED
    BY <1>2, <2>2, <2>3, <2>4, OneMoves
<1>4. CASE /\ queued_msgs' = Append(queued_msgs, [msg |-> m, is_atc |-> FALSE])
           /\ UNCHANGED fates
  <2>0. [msg |-> m, is_atc |-> FALSE] \in QueuedMsg
    BY <1>0, Zenon DEF QueuedMsg
  <2>1. PICK q \in QueuedMsg : q = [msg |-> m, is_atc |-> FALSE]
    BY <2>0
  <2>7. q.msg.id = k
    BY <1>0, <2>1
  <2>2. /\ queued_msgs' \in Seq(QueuedMsg) /\ DistinctQueue'
        /\ \A n : Queued(n)' <=> Queued(n) \/ n = k
    BY <1>0, <1>2, <1>4, <2>1, <2>7, QueueAdded, Zenon DEF Bookkeeping
  <2>4. got' = got /\ told' = told /\ lost' = lost
    BY <1>4, Zenon DEF fates
  <2>8. DistinctGot' /\ \A n : InGot(n)' <=> InGot(n)
    BY <1>0, <2>4 DEF Bookkeeping, DistinctGot, InGot
  <2>3. Bookkeeping' /\ \A n : InGot(n)' <=> InGot(n)
    BY <1>0, <1>1, <2>2, <2>4, <2>8, Zenon DEF Bookkeeping
  <2>5. \A n : n # k => Stays(n)
    BY <1>1, <2>2, <2>3, <2>4, Zenon DEF Stays
  <2>6. OnePlace(k)'
    BY <1>1, <1>2, <2>2, <2>3, <2>4, Zenon DEF OnePlace
  <2> QED
    BY <1>2, <2>3, <2>5, <2>6, OneMoves
<1>5. CASE told' = told \cup {m.id} /\ UNCHANGED <<queued_msgs, got, lost>>
  <2>1. Bookkeeping' /\ \A n : (InGot(n)' <=> InGot(n)) /\ (Queued(n)' <=> Queued(n))
    BY <1>0, <1>1, <1>5
    DEF Bookkeeping, DistinctGot, InGot, DistinctQueue, Queued
  <2>2. lost' = lost /\ \A n : n \in told' <=> n \in told \/ n = k
    BY <1>0, <1>5
  <2>3. \A n : n # k => Stays(n)
    BY <1>1, <2>1, <2>2, Zenon DEF Stays
  <2>4. OnePlace(k)'
    BY <1>1, <1>2, <2>1, <2>2, Zenon DEF OnePlace
  <2> QED
    BY <1>2, <2>1, <2>3, <2>4, OneMoves, Zenon
<1>6. CASE lost' = lost \cup {m.id} /\ UNCHANGED <<queued_msgs, got, told>>
  <2>1. Bookkeeping' /\ \A n : (InGot(n)' <=> InGot(n)) /\ (Queued(n)' <=> Queued(n))
    BY <1>0, <1>1, <1>6
    DEF Bookkeeping, DistinctGot, InGot, DistinctQueue, Queued
  <2>2. told' = told /\ \A n : n \in lost' <=> n \in lost \/ n = k
    BY <1>0, <1>6
  <2>3. \A n : n # k => Stays(n)
    BY <1>1, <2>1, <2>2, Zenon DEF Stays
  <2>4. OnePlace(k)'
    BY <1>1, <1>2, <2>1, <2>2, Zenon DEF OnePlace
  <2> QED
    BY <1>2, <2>1, <2>3, <2>4, OneMoves, SMTT(30)
<1> QED
  BY <1>3, <1>4, <1>5, <1>6 DEF Forwarded

\* The sweep takes the message at position i from the queue, and delivers it
\* or drops it.
LEMMA QueueMoves ==
    ASSUME Once, NEW i \in DOMAIN queued_msgs, queued_msgs' = RemoveAt(queued_msgs, i),
           \/ Delivered(queued_msgs[i].msg) /\ UNCHANGED lost
           \/ lost' = lost \cup {queued_msgs[i].msg.id} /\ UNCHANGED got,
           UNCHANGED <<count, tasks, told>>
    PROVE  /\ Once' /\ Queued(queued_msgs[i].msg.id)
           /\ \A n : n # queued_msgs[i].msg.id => Stays(n)
<1> PICK m : m = queued_msgs[i].msg
  OBVIOUS
<1> PICK k : k = m.id
  OBVIOUS
<1>0. Bookkeeping /\ m \in Message
  <2>1. queued_msgs[i] \in QueuedMsg
    BY DEF Once, Bookkeeping
  <2> QED
    BY <2>1 DEF Once, QueuedMsg
<1>1. /\ queued_msgs' \in Seq(QueuedMsg) /\ DistinctQueue'
      /\ \A n : Queued(n)' <=> Queued(n) /\ n # k
  BY <1>0, QueueRemoved DEF Bookkeeping
<1>2. k \in 1 .. count /\ ~InTasks(k) /\ Queued(k) /\ ~InGot(k) /\ k \notin told /\ k \notin lost
  <2>1. Queued(k)
    BY DEF Queued
  <2>2. k \in 1 .. count /\ OnePlace(k)
    BY <2>1, Zenon DEF Once, NoPlace
  <2> QED
    BY <2>1, <2>2, Zenon DEF OnePlace
<1>3. \A n : InTasks(n)' <=> InTasks(n)
  BY Zenon DEF InTasks
<1>4. CASE Delivered(m) /\ UNCHANGED lost
  <2>1. /\ got' \in [Idents -> Seq(Message)] /\ DistinctGot'
        /\ \A n : InGot(n)' <=> InGot(n) \/ n = k
    BY <1>0, <1>2, <1>4, GotAdded, Zenon DEF Bookkeeping, Delivered
  <2>2. Bookkeeping'
    BY <1>0, <1>1, <2>1, Zenon DEF Bookkeeping, DistinctTasks
  <2>3. \A n : n # k => Stays(n)
    BY <1>1, <1>3, <1>4, <2>1, Zenon DEF Stays
  <2>4. OnePlace(k)'
    BY <1>1, <1>2, <1>3, <1>4, <2>1, Zenon DEF OnePlace
  <2> QED
    BY <1>2, <2>2, <2>3, <2>4, OneMoves
<1>5. CASE lost' = lost \cup {k} /\ UNCHANGED got
  <2>1. Bookkeeping' /\ \A n : InGot(n)' <=> InGot(n)
    BY <1>0, <1>1, <1>5 DEF Bookkeeping, DistinctTasks, DistinctGot, InGot
  <2>2. \A n : n \in lost' <=> n \in lost \/ n = k
    BY <1>5
  <2>3. \A n : n # k => Stays(n)
    BY <1>1, <1>3, <2>1, <2>2, Zenon DEF Stays
  <2>4. OnePlace(k)'
    BY <1>1, <1>2, <1>3, <2>1, <2>2, Zenon DEF OnePlace
  <2> QED
    BY <1>2, <2>1, <2>3, <2>4, OneMoves, Zenon
<1> QED
  BY <1>4, <1>5

\* The counters are naturals, and account for the queue.
Accounted ==
    /\ queued_msg_bytes \in Nat
    /\ quota \in [Idents -> Nat]
    /\ QueueIsAccounted

\* What the sums are taken over.
LEMMA Weights ==
    ASSUME queued_msgs \in Seq(QueuedMsg), NEW N, N = Len(queued_msgs), NEW w, w = Bytes
    PROVE  /\ N \in Nat /\ DOMAIN queued_msgs = 1 .. N /\ DOMAIN w = 1 .. N
           /\ \A n \in 1 .. N : w[n] = queued_msgs[n].msg.bytes /\ w[n] \in Nat
           /\ SumFunction(w) = SumFunctionOnSet(w, 1 .. N)
           /\ \A id : QuotaOf(id) \in SUBSET (1 .. N)
<1>1. N \in Nat /\ DOMAIN queued_msgs = 1 .. N
  OBVIOUS
<1>2. ASSUME NEW n \in 1 .. N PROVE queued_msgs[n].msg.bytes \in Nat
  <2>1. queued_msgs[n] \in QueuedMsg
    BY <1>1
  <2>2. queued_msgs[n].msg \in Message
    BY <2>1 DEF QueuedMsg
  <2> QED
    BY <2>2 DEF Message
<1>3. /\ DOMAIN w = 1 .. N
      /\ \A n \in 1 .. N : w[n] = queued_msgs[n].msg.bytes
  BY <1>1 DEF Bytes
<1>4. \A id : QuotaOf(id) \in SUBSET (1 .. N)
  BY <1>1 DEF QuotaOf
<1>5. SumFunction(w) = SumFunctionOnSet(w, 1 .. N)
  BY <1>3, Zenon DEF SumFunction
<1> QED
  BY <1>1, <1>2, <1>3, <1>4, <1>5

\* store_msg keeps the accounts.
LEMMA StoreAccounts ==
    ASSUME queued_msgs \in Seq(QueuedMsg), Accounted, NEW m \in Message, StoreMsg(m, FALSE)
    PROVE  Accounted'
<1> PICK N : N = Len(queued_msgs)
  OBVIOUS
<1> PICK w : w = Bytes
  OBVIOUS
<1> PICK v : v = Bytes'
  OBVIOUS
<1> PICK e : e = [msg |-> m, is_atc |-> FALSE]
  BY Zenon
<1>1. /\ N \in Nat /\ DOMAIN queued_msgs = 1 .. N /\ DOMAIN w = 1 .. N
      /\ \A n \in 1 .. N : w[n] = queued_msgs[n].msg.bytes /\ w[n] \in Nat
      /\ SumFunction(w) = SumFunctionOnSet(w, 1 .. N)
      /\ \A id : QuotaOf(id) \in SUBSET (1 .. N)
  BY Weights
<1>2. m.bytes \in Nat /\ m.from \in Idents /\ e.msg = m /\ e.is_atc = FALSE
  BY DEF Message
<1>3. /\ queued_msgs' \in Seq(QueuedMsg)
      /\ Len(queued_msgs') = N + 1
      /\ \A n \in 1 .. N : queued_msgs'[n] = queued_msgs[n]
      /\ queued_msgs'[N + 1] = e
  <2>1. e \in QueuedMsg
    BY Zenon DEF QueuedMsg
  <2>2. queued_msgs' = Append(queued_msgs, e)
    BY DEF StoreMsg
  <2> QED
    BY <2>1, <2>2, AppendPlaces
<1>4. DOMAIN queued_msgs' = 1 .. N + 1
  BY <1>1, <1>3, SMTT(30)
<1>5. /\ DOMAIN v = 1 .. N + 1
      /\ \A n \in 1 .. N : v[n] = w[n]
      /\ v[N + 1] = m.bytes
  BY <1>1, <1>2, <1>3, <1>4, SMTT(30) DEF Bytes
<1>6. ASSUME NEW I \in SUBSET (1 .. N)
      PROVE  /\ SumFunctionOnSet(w, I) \in Nat
             /\ SumFunctionOnSet(v, I) = SumFunctionOnSet(w, I)
             /\ SumFunctionOnSet(v, I \cup {N + 1}) = SumFunctionOnSet(w, I) + m.bytes
  <2>1. \A n \in 1 .. N : w[n] \in Nat /\ v[n] = w[n]
    BY <1>1, <1>5
  <2>2. v[N + 1] \in Nat
    BY <1>2, <1>5
  <2>3. Longer(N, w, v)
    BY <1>1, <2>1, <2>2, Zenon DEF Longer
  <2> QED
    BY <1>5, <2>3, SumAppended, SMTT(30)
<1>7. SumFunction(v) = SumFunction(w) + m.bytes
  <2>1. DOMAIN v = (1 .. N) \cup {N + 1}
    BY <1>1, <1>5
  <2>2. SumFunction(v) = SumFunctionOnSet(v, (1 .. N) \cup {N + 1})
    BY <2>1, Zenon DEF SumFunction
  <2> QED
    BY <1>1, <1>6, <2>2
<1>8. queued_msg_bytes' = queued_msg_bytes + m.bytes /\ queued_msg_bytes \in Nat
  BY DEF StoreMsg, Accounted
<1>9. quota' = [quota EXCEPT ![m.from] = @ + m.bytes] /\ quota \in [Idents -> Nat]
  BY DEF StoreMsg, Accounted, QuotaIncr
<1>10. queued_msg_bytes' = SumFunction(v) /\ queued_msg_bytes' \in Nat
  BY <1>2, <1>7, <1>8 DEF Accounted, QueueIsAccounted
<1>11. QueueMax # 0 => queued_msg_bytes' <= QueueMax
  BY <1>8 DEF StoreMsg, Fits
<1>12. quota' \in [Idents -> Nat]
  BY <1>2, <1>9, SMTT(30)
<1>13. ASSUME NEW id \in Idents
       PROVE  quota'[id] = SumFunctionOnSet(v, QuotaOf(id)') /\ quota'[id] <= QuotaMax
  <2>0. /\ quota[id] = SumFunctionOnSet(w, QuotaOf(id)) /\ quota[id] <= QuotaMax
        /\ quota[id] \in Nat
    BY <1>9 DEF Accounted, QueueIsAccounted
  <2>1. CASE id = m.from
    <3>1. QuotaOf(id)' = QuotaOf(id) \cup {N + 1}
      BY <1>1, <1>2, <1>3, <1>4, <2>1, SMTT(30) DEF QuotaOf
    <3>2. SumFunctionOnSet(v, QuotaOf(id) \cup {N + 1}) = quota[id] + m.bytes
      BY <1>1, <1>6, <2>0
    <3>3. quota'[id] = quota[id] + m.bytes
      BY <1>9, <2>1
    <3>4. quota[id] + m.bytes <= QuotaMax
      BY <2>1 DEF StoreMsg, Fits, WithinQuota
    <3> QED
      BY <3>1, <3>2, <3>3, <3>4, ZenonT(30)
  <2>2. CASE id # m.from
    <3>1. QuotaOf(id)' = QuotaOf(id)
      BY <1>1, <1>2, <1>3, <1>4, <2>2 DEF QuotaOf
    <3>2. SumFunctionOnSet(v, QuotaOf(id)) = quota[id]
      BY <1>1, <1>6, <2>0, Zenon
    <3>3. quota'[id] = quota[id]
      BY <1>9, <2>2, Zenon
    <3> QED
      BY <2>0, <3>1, <3>2, <3>3, Zenon
  <2> QED
    BY <2>1, <2>2
<1> QED
  BY <1>10, <1>11, <1>12, <1>13 DEF Accounted, QueueIsAccounted

\* dequeue_msg keeps the accounts.
LEMMA DequeueAccounts ==
    ASSUME queued_msgs \in Seq(QueuedMsg), Accounted,
           NEW i \in DOMAIN queued_msgs, NEW q, q = queued_msgs[i],
           queued_msgs' = RemoveAt(queued_msgs, i),
           queued_msg_bytes' = queued_msg_bytes - q.msg.bytes,
           quota' = QuotaDecr(q)
    PROVE  Accounted'
<1> PICK N : N = Len(queued_msgs)
  OBVIOUS
<1> PICK w : w = Bytes
  OBVIOUS
<1> PICK v : v = Bytes'
  OBVIOUS
<1>1. /\ N \in Nat /\ DOMAIN queued_msgs = 1 .. N /\ DOMAIN w = 1 .. N
      /\ \A n \in 1 .. N : w[n] = queued_msgs[n].msg.bytes /\ w[n] \in Nat
      /\ SumFunction(w) = SumFunctionOnSet(w, 1 .. N)
      /\ \A id : QuotaOf(id) \in SUBSET (1 .. N)
  BY Weights, SMTT(30)
<1>2. i \in 1 .. N /\ q.msg.bytes = w[i] /\ w[i] \in Nat
  BY <1>1
<1>3. DOMAIN queued_msgs' = 1 .. N - 1 /\ LacksAt(queued_msgs, i, queued_msgs')
  BY RemoveAtPlaces
<1>4. \A n \in 1 .. N - 1 : Shifted(i, n) \in 1 .. N /\ queued_msgs'[n] = queued_msgs[Shifted(i, n)]
  BY <1>1, <1>3, Zenon DEF LacksAt
<1>5. DOMAIN v = 1 .. N - 1 /\ \A n \in 1 .. N - 1 : v[n] = w[Shifted(i, n)]
  BY <1>1, <1>3, <1>4, Zenon DEF Bytes
<1>6. ASSUME NEW I \in SUBSET (1 .. N), NEW J, J = MovedUp(N, i, I)
      PROVE  /\ SumFunctionOnSet(v, J) \in Nat
             /\ i \in I => SumFunctionOnSet(w, I) = w[i] + SumFunctionOnSet(v, J)
             /\ i \notin I => SumFunctionOnSet(w, I) = SumFunctionOnSet(v, J)
  <2>1. \A n \in 1 .. N : w[n] \in Nat
    BY <1>1
  <2>2. Shorter(N, i, w, v)
    BY <1>1, <1>2, <1>5, <2>1, Zenon DEF Shorter
  <2> QED
    BY <1>6, <2>2, SumRemoved, SMTT(30)
<1>7. SumFunction(w) = w[i] + SumFunction(v) /\ SumFunction(v) \in Nat
  <2>1. 1 .. N - 1 = MovedUp(N, i, 1 .. N)
    BY <1>4 DEF MovedUp
  <2>2. SumFunction(v) = SumFunctionOnSet(v, 1 .. N - 1)
    BY <1>5, Zenon DEF SumFunction
  <2>3. 1 .. N \in SUBSET (1 .. N)
    OBVIOUS
  <2> QED
    BY <1>1, <1>2, <1>6, <2>1, <2>2, <2>3, SMTT(30)
<1>8. /\ queued_msg_bytes = SumFunction(w) /\ quota \in [Idents -> Nat]
      /\ QueueMax # 0 => SumFunction(w) <= QueueMax
  BY DEF Accounted, QueueIsAccounted
<1>9. queued_msg_bytes' = SumFunction(v) /\ queued_msg_bytes' \in Nat
  BY <1>2, <1>7, <1>8, SMTT(30)
<1>10. QueueMax # 0 => queued_msg_bytes' <= QueueMax
  BY <1>2, <1>7, <1>8, <1>9, ConstsAssumption, SMTT(30)
<1>11. ASSUME NEW id \in Idents
       PROVE  /\ quota'[id] = SumFunctionOnSet(v, QuotaOf(id)')
              /\ quota'[id] <= QuotaMax /\ quota'[id] \in Nat
  <2>0. /\ quota[id] = SumFunctionOnSet(w, QuotaOf(id)) /\ quota[id] <= QuotaMax
        /\ quota[id] \in Nat
    BY <1>8 DEF Accounted, QueueIsAccounted
  <2>1. QuotaOf(id)' = MovedUp(N, i, QuotaOf(id))
    BY <1>1, <1>3, <1>4, Zenon DEF QuotaOf, MovedUp
  <2>2. /\ SumFunctionOnSet(v, QuotaOf(id)') \in Nat
        /\ i \in QuotaOf(id) => quota[id] = w[i] + SumFunctionOnSet(v, QuotaOf(id)')
        /\ i \notin QuotaOf(id) => quota[id] = SumFunctionOnSet(v, QuotaOf(id)')
    BY <1>1, <1>6, <2>0, <2>1, SMTT(30)
  <2>3. CASE i \in QuotaOf(id)
    <3>1. q.msg.from = id /\ ~q.is_atc
      BY <2>3, Zenon DEF QuotaOf
    <3>2. quota'[id] = quota[id] - w[i]
      BY <1>2, <1>8, <3>1, Zenon DEF QuotaDecr
    <3> QED
      BY <1>2, <2>0, <2>2, <2>3, <3>2, ConstsAssumption, SMTT(30)
  <2>4. CASE i \notin QuotaOf(id)
    <3>1. q.msg.from # id \/ q.is_atc
      BY <2>4 DEF QuotaOf
    <3>2. quota'[id] = quota[id]
      BY <1>8, <3>1 DEF QuotaDecr
    <3> QED
      BY <2>0, <2>2, <2>4, <3>2, SMTT(30)
  <2> QED
    BY <2>3, <2>4
<1>12. quota' \in [Idents -> Nat]
  <2>1. DOMAIN quota' = Idents /\ quota' = [x \in DOMAIN quota' |-> quota'[x]]
    BY <1>8, Zenon DEF QuotaDecr
  <2> QED
    BY <1>11, <2>1
<1> QED
  BY <1>9, <1>10, <1>11, <1>12 DEF Accounted, QueueIsAccounted

Typed ==
    /\ live \subseteq Conns
    /\ conns_by_from \in [Idents -> Seq(Conns)]
    /\ station \in [Conns -> [is_atc : BOOLEAN, to : Targets]]
    /\ phase \in {"input", "complete", "queued"}
    /\ count \in 0 .. MaxMsgs

\* What the sweep and the clock point at is in the queue; the successor that
\* was looked up is another message than the one at hand.
Cursors ==
    /\ \A n \in old : Queued(n)
    /\ \A n \in due : Queued(n)
    /\ qmsg = 0 \/ Queued(qmsg)
    /\ next_qmsg \in {0, -1} \/ Queued(next_qmsg)
    /\ next_qmsg # qmsg
    /\ phase # "queued" => qmsg = 0
    /\ qmsg = 0 => next_qmsg = -1

IInv == Typed /\ Once /\ Accounted /\ Cursors

\* The numbers of queued messages are positive, so never NULL.
LEMMA QueuedPositive ==
    ASSUME queued_msgs \in Seq(QueuedMsg)
    PROVE  \A n : Queued(n) => n \in Nat \ {0}
<1>1. \A i \in DOMAIN queued_msgs : queued_msgs[i] \in QueuedMsg
  OBVIOUS
<1>2. \A q \in QueuedMsg : q.msg \in Message
  BY DEF QueuedMsg
<1>3. \A m \in Message : m.id \in Nat \ {0}
  BY DEF Message
<1> QED
  BY <1>1, <1>2, <1>3 DEF Queued

\* Registering and unregistering keeps the table's type.
LEMMA WithoutType ==
    ASSUME conns_by_from \in [Idents -> Seq(Conns)], NEW cs, NEW ids
    PROVE  /\ Without(cs, ids) \in [Idents -> Seq(Conns)]
           /\ \A id \in Idents : conns_by_from[id] = <<>> => Without(cs, ids)[id] = <<>>
<1>1. ASSUME NEW id \in Idents
      PROVE  /\ Excluding(conns_by_from[id], cs) \in Seq(Conns)
             /\ conns_by_from[id] = <<>> => Excluding(conns_by_from[id], cs) = <<>>
  <2>1. conns_by_from[id] \in Seq(Conns)
    OBVIOUS
  <2> QED
    BY <2>1, ExcludingFacts
<1> QED
  BY <1>1 DEF Without

-----------------------------------------------------------------------------
(* Connections come and go. *)

\* No step on a connection touches a message, and none but complete_logon
\* gives a callsign its first connection.
LEMMA ConnSteps ==
    ASSUME Typed, NEW c \in Conns,
           \/ OpenConn(c)
           \/ \E g \in Logons : LogOnConn(c, g)
           \/ \E ids : LogOffConn(c, ids)
           \/ ShutConn(c)
    PROVE  /\ Typed'
           /\ UNCHANGED rest
           /\ \/ phase = "complete"
              \/ \A id \in Idents : conns_by_from[id] = <<>> => conns_by_from'[id] = <<>>
<1>0. /\ conns_by_from \in [Idents -> Seq(Conns)]
      /\ station \in [Conns -> [is_atc : BOOLEAN, to : Targets]]
      /\ live \subseteq Conns
  BY DEF Typed
<1>1. NoStation \in [is_atc : BOOLEAN, to : Targets]
  BY Zenon DEF NoStation, Targets
<1>2. CASE OpenConn(c)
  BY <1>2, ZenonT(30) DEF OpenConn, Open, Typed, rest
<1>3. ASSUME NEW g \in Logons, LogOnConn(c, g)
      PROVE  Typed' /\ UNCHANGED rest /\ phase = "complete"
  <2>1. g.id \in Idents /\ [is_atc |-> g.is_atc, to |-> g.to] \in [is_atc : BOOLEAN, to : Targets]
    BY ConstsAssumption
  <2>2. station' \in [Conns -> [is_atc : BOOLEAN, to : Targets]]
    BY <1>0, <1>3, <2>1, Zenon DEF LogOnConn
  <2>3. conns_by_from' \in [Idents -> Seq(Conns)]
    <3>1. Append(conns_by_from[g.id], c) \in Seq(Conns)
      BY <1>0, <2>1
    <3> QED
      BY <1>0, <1>3, <2>1, <3>1, Zenon DEF LogOnConn, LogOn
  <2> QED
    BY <1>3, <2>2, <2>3, Zenon DEF LogOnConn, LogOn, Typed, rest
<1>4. ASSUME NEW ids, LogOffConn(c, ids)
      PROVE  /\ Typed' /\ UNCHANGED rest
             /\ \A id \in Idents : conns_by_from[id] = <<>> => conns_by_from'[id] = <<>>
  <2>1. conns_by_from' = Without({c}, ids) /\ live' = live /\ UNCHANGED rest
    BY <1>4 DEF LogOffConn, LogOff
  <2>2. station' \in [Conns -> [is_atc : BOOLEAN, to : Targets]]
    BY <1>0, <1>1, <1>4, Zenon DEF LogOffConn
  <2> QED
    BY <1>0, <2>1, <2>2, WithoutType DEF Typed, rest
<1>5. CASE ShutConn(c)
  <2>1. conns_by_from' = Without({c}, LoggedOnAs(c)) /\ live' \subseteq live /\ UNCHANGED rest
    BY <1>5 DEF ShutConn, Shut
  <2>2. station' \in [Conns -> [is_atc : BOOLEAN, to : Targets]]
    BY <1>0, <1>1, <1>5, Zenon DEF ShutConn
  <2> QED
    BY <1>0, <2>1, <2>2, WithoutType, Zenon DEF Typed, rest
<1> QED
  BY <1>2, <1>3, <1>4, <1>5 DEF OpenConn, Open

-----------------------------------------------------------------------------
(* Messages come in. *)

\* conn_process_msg hands on one complete message, numbered anew.
LEMMA Submitted ==
    ASSUME Typed, NEW c \in Conns, NEW m \in Inputs, ConnProcessMsg(c, m)
    PROVE  \E e \in Message : e.id = count + 1 /\ tasks' = Append(tasks, e)
<1>0. /\ conns_by_from \in [Idents -> Seq(Conns)]
      /\ station \in [Conns -> [is_atc : BOOLEAN, to : Targets]]
      /\ count \in Nat
  BY ConstsAssumption DEF Typed
<1>1. /\ m \in Input /\ m.to \in Targets /\ m.from \in Targets \cup {AUTO}
      /\ m.bytes \in Nat \ {0}
  <2>1. m \in Input
    BY ConstsAssumption
  <2> QED
    BY <2>1 DEF Input
<1>2. station[c] \in [is_atc : BOOLEAN, to : Targets]
  BY <1>0
<1>3. station[c].is_atc \in BOOLEAN /\ station[c].to \in Targets
  BY <1>2, Zenon
<1>4. Recipient(c, m) \in Idents
  BY <1>1, <1>3 DEF Recipient, Targets, ConnProcessMsg, Admitted
<1>5. ASSUME NEW from \in Stamps(c, m) PROVE from \in Idents
  <2>1. LoggedOnAs(c) \subseteq Idents
    BY Zenon DEF LoggedOnAs
  <2>2. CASE m.from # AUTO
    BY <1>1, <2>1, <2>2 DEF Stamps, Targets
  <2>3. CASE m.from = AUTO
    <3>1. CASE ~station[c].is_atc
      BY <2>1, <3>1, Zenon DEF Stamps
    <3>2. CASE station[c].is_atc
      <4>1. PICK s \in Seq(Conns) : s = conns_by_from[Recipient(c, m)]
        BY <1>0, <1>4, Zenon
      <4>2. s # <<>>
        BY <2>3, <3>2, <4>1, Zenon DEF ConnProcessMsg, Admitted
      <4>3. Last(s) \in Conns
        BY <4>2 DEF Last
      <4>4. station[Last(s)].to \in Targets
        <5>1. station[Last(s)] \in [is_atc : BOOLEAN, to : Targets]
          BY <1>0, <4>3
        <5> QED
          BY <5>1, Zenon
      <4> QED
        BY <2>1, <2>3, <3>2, <4>1, <4>4, Zenon DEF Stamps, Targets
    <3> QED
      BY <3>1, <3>2, Zenon
  <2> QED
    BY <2>2, <2>3
<1>6. PICK from \in Stamps(c, m) :
        tasks' = Append(tasks, [id      |-> count + 1,
                                from    |-> from,
                                to      |-> Recipient(c, m),
                                bytes   |-> m.bytes,
                                end_svc |-> m.kind = "end_svc",
                                is_atc  |-> station[c].is_atc,
                                is_lws  |-> c \in LwsConns])
  BY Zenon DEF ConnProcessMsg
<1>7. PICK e : e = [id      |-> count + 1,
                    from    |-> from,
                    to      |-> Recipient(c, m),
                    bytes   |-> m.bytes,
                    end_svc |-> m.kind = "end_svc",
                    is_atc  |-> station[c].is_atc,
                    is_lws  |-> c \in LwsConns]
  BY Zenon
<1>8. (m.kind = "end_svc") \in BOOLEAN /\ (c \in LwsConns) \in BOOLEAN
  OBVIOUS
<1>9. count + 1 \in Nat \ {0}
  BY <1>0
<1>10. e \in Message
  BY <1>1, <1>3, <1>4, <1>5, <1>7, <1>8, <1>9, Zenon DEF Message
<1>11. e.id = count + 1
  BY <1>7, Zenon
<1> QED
  BY <1>6, <1>7, <1>10, <1>11, Zenon

\* A new message is with msg_router, and nowhere else.
LEMMA SubmitOnce ==
    ASSUME Typed, Once, NEW e \in Message, e.id = count + 1, tasks' = Append(tasks, e),
           count' = count + 1, UNCHANGED <<queued_msgs, fates>>
    PROVE  /\ Once' /\ NoPlace(e.id)
           /\ \A n : n # e.id => Stays(n)
<1> PICK k : k = e.id
  OBVIOUS
<1>0. count \in Nat /\ k = count + 1
  BY ConstsAssumption DEF Typed
<1>1. k \in 1 .. count' /\ k \notin 1 .. count
  BY <1>0
<1>2. ~InTasks(k) /\ ~Queued(k) /\ ~InGot(k) /\ k \notin told /\ k \notin lost
  BY <1>1, Zenon DEF Once, NoPlace
<1>3. \A n : n # k => (n \in 1 .. count' <=> n \in 1 .. count)
  BY <1>0, SMTT(30)
<1>4. /\ tasks' \in Seq(Message) /\ DistinctTasks'
      /\ \A n : InTasks(n)' <=> InTasks(n) \/ n = k
  BY <1>2, TaskAdded DEF Once, Bookkeeping
<1>5. queued_msgs' = queued_msgs /\ got' = got /\ told' = told /\ lost' = lost
  BY Zenon DEF fates
<1>6. Bookkeeping' /\ \A n : (InGot(n)' <=> InGot(n)) /\ (Queued(n)' <=> Queued(n))
  BY <1>4, <1>5 DEF Once, Bookkeeping, DistinctGot, InGot, DistinctQueue, Queued
<1>7. \A n : n # k => Stays(n)
  BY <1>4, <1>5, <1>6, Zenon DEF Stays
<1>8. OnePlace(k)'
  BY <1>2, <1>4, <1>5, <1>6, Zenon DEF OnePlace
<1>9. NoPlace(k)
  BY <1>2, Zenon DEF NoPlace
<1> QED
  BY <1>1, <1>3, <1>6, <1>7, <1>8, <1>9, OneMoves, Zenon

-----------------------------------------------------------------------------
(* Messages go out. *)

Dropped(m) == lost' = lost \cup {m.id} /\ UNCHANGED <<registry, station, store, got, told>>

\* msg_router is done with the task at position i, which had become m.
Passed(i, m) ==
    /\ i \in DOMAIN tasks
    /\ m \in Message /\ m.id = tasks[i].id
    /\ ForwardMsgCb(m) \/ Dropped(m)
    /\ tasks' = RemoveAt(tasks, i)
    /\ UNCHANGED <<phase, count, old, sweep>>

\* PassThrough and RouterProc differ in who calls, not in what is done.
LEMMA PassedOn ==
    ASSUME tasks \in Seq(Message)
    PROVE  /\ PassThrough => ~Routed /\ Passed(1, tasks[1])
           /\ \A i : RouterProc(i) => Routed /\ \E m : Passed(i, m)
<1>1. ASSUME PassThrough PROVE ~Routed /\ Passed(1, tasks[1])
  <2>1. 1 \in DOMAIN tasks /\ Head(tasks) = tasks[1] /\ Tail(tasks) = RemoveAt(tasks, 1)
    BY <1>1, TailPlaces DEF PassThrough
  <2>2. tasks[1] \in Message
    BY <2>1
  <2> QED
    BY <1>1, <2>1, <2>2 DEF PassThrough, Passed
<1>2. ASSUME NEW i, RouterProc(i) PROVE Routed /\ \E m : Passed(i, m)
  <2>0. i \in DOMAIN tasks /\ Routed
    BY <1>2 DEF RouterProc
  <2>1. tasks[i] \in Message
    BY <2>0
  <2>2. ASSUME NEW to \in Idents
        PROVE  [tasks[i] EXCEPT !.to = to] \in Message /\ [tasks[i] EXCEPT !.to = to].id = tasks[i].id
    BY <2>1, Zenon DEF Message
  <2>3. CASE \E to \in Idents : ForwardMsgCb([tasks[i] EXCEPT !.to = to])
    <3>1. PICK to \in Idents : ForwardMsgCb([tasks[i] EXCEPT !.to = to])
      BY <2>3
    <3>2. Passed(i, [tasks[i] EXCEPT !.to = to])
      BY <1>2, <2>0, <2>2, <3>1, Zenon DEF RouterProc, Passed
    <3> QED
      BY <2>0, <3>2
  <2>4. CASE Dropped(tasks[i])
    BY <1>2, <2>0, <2>1, <2>4, ZenonT(30) DEF RouterProc, Passed
  <2> QED
    BY <1>2, <2>3, <2>4, Zenon DEF RouterProc, Dropped
<1> QED
  BY <1>1, <1>2

\* What that may do to the rest of the state.
LEMMA PassedEffect ==
    ASSUME IInv, NEW i, NEW m, Passed(i, m)
    PROVE  /\ Forwarded(i, m)
           /\ Typed'
           /\ Accounted'
           /\ \A id \in Idents : conns_by_from[id] = <<>> => conns_by_from'[id] = <<>>
           /\ \/ UNCHANGED queued_msgs
              \/ /\ conns_by_from[m.to] = <<>>
                 /\ queued_msgs' = Append(queued_msgs, [msg |-> m, is_atc |-> FALSE])
<1>0. /\ conns_by_from \in [Idents -> Seq(Conns)]
      /\ station \in [Conns -> [is_atc : BOOLEAN, to : Targets]]
      /\ queued_msgs \in Seq(QueuedMsg)
      /\ m \in Message /\ m.id = tasks[i].id /\ m.to \in Idents
      /\ UNCHANGED <<phase, count>>
  BY Zenon DEF IInv, Once, Bookkeeping, Typed, Passed, Message
<1>1. NoStation \in [is_atc : BOOLEAN, to : Targets]
  BY Zenon DEF NoStation, Targets
<1>2. CASE Deliver(m)
  <2>1. /\ Delivered(m) /\ UNCHANGED <<live, queued_msgs, told, lost>>
        /\ queued_msg_bytes' = queued_msg_bytes /\ quota' = quota
    BY <1>0, <1>2, ZenonT(30) DEF Deliver, Delivered, store
  <2>2. Forwarded(i, m)
    BY <1>0, <2>1 DEF Forwarded
  <2>3. /\ conns_by_from' \in [Idents -> Seq(Conns)]
        /\ station' \in [Conns -> [is_atc : BOOLEAN, to : Targets]]
        /\ \A id \in Idents : conns_by_from[id] = <<>> => conns_by_from'[id] = <<>>
    <3>1. CASE m.end_svc
      <4>1. PICK cs : /\ conns_by_from' = Without(cs, Idents)
                      /\ station' = [c \in Conns |-> IF c \in cs THEN NoStation
                                                               ELSE station[c]]
        BY <1>2, <3>1 DEF Deliver
      <4>2. station' \in [Conns -> [is_atc : BOOLEAN, to : Targets]]
        BY <1>0, <1>1, <4>1, Zenon
      <4> QED
        BY <1>0, <4>1, <4>2, WithoutType, SMTT(30)
    <3>2. CASE ~m.end_svc
      BY <1>0, <1>2, <3>2, Zenon DEF Deliver
    <3> QED
      BY <3>1, <3>2, Zenon
  <2>4. Typed'
    BY <1>0, <2>1, <2>3, Zenon DEF IInv, Typed
  <2>5. Accounted'
    BY <2>1, Zenon DEF IInv, Accounted, QueueIsAccounted, Bytes, QuotaOf
  <2> QED
    BY <2>1, <2>2, <2>3, <2>4, <2>5, Zenon
<1>3. CASE StoreOrRefuse(m)
  <2>1. UNCHANGED <<registry, station, got>> /\ conns_by_from[m.to] = <<>>
    BY <1>3, Zenon DEF StoreOrRefuse
  <2>2. Typed' /\ \A id \in Idents : conns_by_from[id] = <<>> => conns_by_from'[id] = <<>>
    BY <1>0, <2>1, Zenon DEF IInv, Typed, registry
  <2>3. CASE StoreMsg(m, FALSE) /\ UNCHANGED <<told, lost>>
    <3>1. queued_msgs' = Append(queued_msgs, [msg |-> m, is_atc |-> FALSE])
      BY <2>3, Zenon DEF StoreMsg
    <3>2. Forwarded(i, m)
      BY <1>0, <2>1, <2>3, <3>1 DEF Forwarded, fates
    <3>3. Accounted'
      BY <1>0, <2>3, StoreAccounts, Zenon DEF IInv
    <3> QED
      BY <2>1, <2>2, <3>1, <3>2, <3>3, Zenon
  <2>4. CASE /\ IF conns_by_from[m.from] # <<>>
                THEN told' = told \cup {m.id} /\ UNCHANGED lost
                ELSE lost' = lost \cup {m.id} /\ UNCHANGED told
             /\ UNCHANGED store
    <3>1. UNCHANGED <<queued_msgs, queued_msg_bytes, quota>>
      BY <2>4, Zenon DEF store
    <3>2. Forwarded(i, m)
      BY <1>0, <2>1, <2>4, <3>1 DEF Forwarded
    <3>3. Accounted'
      BY <3>1, Zenon DEF IInv, Accounted, QueueIsAccounted, Bytes, QuotaOf
    <3> QED
      BY <2>2, <3>1, <3>2, <3>3, Zenon
  <2> QED
    BY <1>3, <2>3, <2>4, Zenon DEF StoreOrRefuse
<1>4. CASE Dropped(m)
  <2>1. /\ UNCHANGED <<queued_msgs, queued_msg_bytes, quota, got, told, station>>
        /\ UNCHANGED <<conns_by_from, live>>
        /\ lost' = lost \cup {m.id}
    BY <1>4, Zenon DEF Dropped, registry, store
  <2>2. Forwarded(i, m)
    BY <1>0, <2>1, Zenon DEF Forwarded
  <2>3. Typed'
    BY <1>0, <2>1, Zenon DEF IInv, Typed
  <2>4. Accounted'
    BY <2>1, Zenon DEF IInv, Accounted, QueueIsAccounted, Bytes, QuotaOf
  <2> QED
    BY <2>1, <2>2, <2>3, <2>4, Zenon
<1> QED
  BY <1>2, <1>3, <1>4 DEF Passed, ForwardMsgCb

\* forward_msg_cb keeps the invariant, on whichever thread.
LEMMA PassedKeeps ==
    ASSUME IInv, NEW i, NEW m, Passed(i, m)
    PROVE  IInv'
<1>1. Forwarded(i, m) /\ Typed' /\ Accounted'
  BY PassedEffect, Zenon
<1>2. Once'
  BY <1>1, TaskMoves, Zenon DEF IInv, Passed
<1>3. \A n : Queued(n) => Queued(n)'
  <2>1. CASE UNCHANGED queued_msgs
    BY <2>1 DEF Queued
  <2>2. CASE queued_msgs' = Append(queued_msgs, [msg |-> m, is_atc |-> FALSE])
    <3>1. queued_msgs \in Seq(QueuedMsg)
      BY DEF IInv, Once, Bookkeeping
    <3>2. /\ \A j \in DOMAIN queued_msgs : queued_msgs'[j] = queued_msgs[j]
          /\ DOMAIN queued_msgs \subseteq DOMAIN queued_msgs'
      BY <2>2, <3>1
    <3> QED
      BY <3>2 DEF Queued
  <2> QED
    BY <2>1, <2>2, PassedEffect, Zenon
<1>4. Cursors'
  <2>1. UNCHANGED <<phase, old, due, qmsg, next_qmsg>>
    BY DEF Passed, sweep
  <2> QED
    BY <1>3, <2>1, Zenon DEF IInv, Cursors
<1> QED
  BY <1>1, <1>2, <1>4 DEF IInv

-----------------------------------------------------------------------------
(* The sweep. *)

\* The list position of the message at hand.
LEMMA Position ==
    ASSUME NEW n, Queued(n)
    PROVE  PositionOf(n) \in DOMAIN queued_msgs /\ queued_msgs[PositionOf(n)].msg.id = n
BY DEF Queued, PositionOf

\* dequeue_msg is called for the message at position p, which is then with
\* its recipient or gone; or it is left where it is.
Swept(p) ==
    /\ p \in DOMAIN queued_msgs
    /\ queued_msgs[p].msg.id = qmsg
    /\ \/ /\ Delivered(queued_msgs[p].msg) /\ UNCHANGED lost
          /\ conns_by_from[queued_msgs[p].msg.to] # <<>>
          /\ DequeueMsg(queued_msgs[p]) /\ PositionOf(qmsg) = p
       \/ /\ lost' = lost \cup {queued_msgs[p].msg.id} /\ UNCHANGED got
          /\ conns_by_from[queued_msgs[p].msg.to] = <<>> /\ qmsg \in due
          /\ DequeueMsg(queued_msgs[p]) /\ PositionOf(qmsg) = p
       \/ /\ conns_by_from[queued_msgs[p].msg.to] = <<>> /\ qmsg \notin due
          /\ UNCHANGED <<store, old, due, got, lost>>
    /\ phase = "queued" /\ next_qmsg # -1
    /\ qmsg' = next_qmsg /\ next_qmsg' = -1
    /\ UNCHANGED <<registry, station, phase, count, tasks, told>>

\* The loop body of handle_queued_msgs, at the position of its cursor.
LEMMA SweepMsgIsSwept ==
    ASSUME IInv, SweepMsg
    PROVE  Swept(PositionOf(qmsg))
<1> PICK p : p = PositionOf(qmsg)
  BY Zenon
<1>1. p \in DOMAIN queued_msgs /\ queued_msgs[p].msg.id = qmsg
  BY Position, Zenon DEF IInv, Cursors, SweepMsg
<1>2. queued_msgs[p].msg.to \in Idents
  <2>1. queued_msgs[p] \in QueuedMsg
    BY <1>1 DEF IInv, Once, Bookkeeping
  <2> QED
    BY <2>1 DEF QueuedMsg, Message
<1> QED
  BY <1>1, <1>2, Zenon DEF SweepMsg, Swept, Delivered

\* The loop body of handle_queued_msgs keeps the invariant.
LEMMA SweptKeeps ==
    ASSUME IInv, NEW p, Swept(p)
    PROVE  IInv'
<1>0. queued_msgs \in Seq(QueuedMsg) /\ DistinctQueue
  BY Zenon DEF IInv, Once, Bookkeeping
<1>1. Typed'
  BY DEF IInv, Typed, Swept, registry
<1>2. next_qmsg # qmsg /\ (next_qmsg = 0 \/ Queued(next_qmsg))
  BY Zenon DEF IInv, Cursors, Swept
<1>3. CASE UNCHANGED <<store, old, due, got, lost>>
  <2>1. UNCHANGED <<queued_msgs, queued_msg_bytes, quota>>
    BY <1>3, Zenon DEF store
  <2>2. Once'
    BY <1>3, <2>1, NoneMoves, Zenon DEF IInv, Swept, fates
  <2>3. Accounted'
    BY <2>1, Zenon DEF IInv, Accounted, QueueIsAccounted, Bytes, QuotaOf
  <2>4. \A n : Queued(n)' <=> Queued(n)
    BY <2>1, Zenon DEF Queued
  <2>6. next_qmsg' # qmsg'
    BY <1>0, <1>2, QueuedPositive, Zenon DEF Swept
  <2>7. Cursors'
    BY <1>2, <1>3, <2>4, <2>6, Zenon DEF IInv, Cursors, Swept
  <2> QED
    BY <1>1, <2>2, <2>3, <2>7 DEF IInv
<1>4. CASE /\ DequeueMsg(queued_msgs[p]) /\ PositionOf(qmsg) = p
           /\ \/ Delivered(queued_msgs[p].msg) /\ UNCHANGED lost
              \/ lost' = lost \cup {queued_msgs[p].msg.id} /\ UNCHANGED got
  <2>1. /\ queued_msgs' = RemoveAt(queued_msgs, p)
        /\ p \in DOMAIN queued_msgs
        /\ UNCHANGED <<count, tasks, told>>
    BY <1>4, Zenon DEF DequeueMsg, Swept
  <2>2. Once'
    BY <1>4, <2>1, QueueMoves, Zenon DEF IInv
  <2>3. Accounted'
    BY <1>0, <1>4, <2>1, DequeueAccounts, Zenon DEF IInv, DequeueMsg
  <2>4. \A n : Queued(n)' <=> Queued(n) /\ n # qmsg
    BY <1>0, <2>1, QueueRemoved, ZenonT(30) DEF Swept
  <2>6. next_qmsg' # qmsg'
    BY <1>0, <1>2, QueuedPositive, Zenon DEF Swept
  <2>7. old' = old \ {qmsg} /\ due' = due \ {qmsg}
    BY <1>4, Zenon DEF DequeueMsg
  <2>8. Cursors'
    BY <1>2, <2>4, <2>6, <2>7, Zenon DEF IInv, Cursors, Swept
  <2> QED
    BY <1>1, <2>2, <2>3, <2>8 DEF IInv
<1> QED
  BY <1>3, <1>4, Zenon DEF Swept

\* The list's next element after an element, if any, is another message.
LEMMA Successor ==
    ASSUME queued_msgs \in Seq(QueuedMsg), DistinctQueue
    PROVE  /\ \A j : IdAt(j) = 0 \/ Queued(IdAt(j))
           /\ \A n : Queued(n) => IdAt(PositionOf(n) + 1) # n
           /\ \A j : IdAt(j) # -1
<1>1. \A j : IdAt(j) = 0 \/ Queued(IdAt(j))
  BY DEF IdAt, Queued
<1>2. ASSUME NEW n, Queued(n) PROVE IdAt(PositionOf(n) + 1) # n
  <2>1. PICK p \in DOMAIN queued_msgs : p = PositionOf(n) /\ queued_msgs[p].msg.id = n
    BY <1>2, Position
  <2>2. p + 1 # p
    BY <2>1
  <2>3. n # 0
    BY <1>2, QueuedPositive
  <2> QED
    BY <2>1, <2>2, <2>3, Zenon DEF IdAt, DistinctQueue
<1>3. \A j : IdAt(j) # -1
  BY <1>1, QueuedPositive
<1> QED
  BY <1>1, <1>2, <1>3

-----------------------------------------------------------------------------
(* The invariant is inductive. *)

\* The invariant holds when the server starts.
LEMMA InitIInv == Init => IInv
<1> SUFFICES ASSUME Init PROVE IInv
  OBVIOUS
<1> USE DEF Init
<1>1. Typed
  <2>1. NoStation \in [is_atc : BOOLEAN, to : Targets]
    BY Zenon DEF NoStation, Targets
  <2>2. station \in [Conns -> [is_atc : BOOLEAN, to : Targets]]
    BY <2>1, Zenon
  <2> QED
    BY <2>2, ConstsAssumption DEF Typed, RegistryInit
<1>2. Once
  <2>1. Bookkeeping
    BY DEF Bookkeeping, DistinctTasks, DistinctQueue, DistinctGot
  <2>2. \A n : n \notin 1 .. count /\ NoPlace(n)
    BY SMTT(30) DEF NoPlace, InTasks, Queued, InGot
  <2> QED
    BY <2>1, <2>2, Zenon DEF Once
<1>3. Accounted
  <2>1. Bytes = <<>> /\ DOMAIN Bytes = {} /\ \A id : QuotaOf(id) = {}
    BY SMTT(30) DEF Bytes, QuotaOf
  <2>2. \A w : SumFunctionOnSet(w, {}) = 0
    BY SumFacts, FS_EmptySet, Zenon
  <2>3. SumFunction(Bytes) = 0
    BY <2>1, <2>2 DEF SumFunction
  <2>4. queued_msg_bytes = SumFunction(Bytes) /\ queued_msg_bytes = 0
    BY <2>3
  <2>5. quota \in [Idents -> Nat]
    OBVIOUS
  <2>6. \A id \in Idents : quota[id] = SumFunctionOnSet(Bytes, QuotaOf(id)) /\ quota[id] = 0
    BY <2>1, <2>2, Zenon
  <2> HIDE DEF Init
  <2> QED
    BY <2>4, <2>5, <2>6, ConstsAssumption, SMTT(30) DEF Accounted, QueueIsAccounted
<1>4. Cursors
  BY DEF Cursors
<1> QED
  BY <1>1, <1>2, <1>3, <1>4 DEF IInv

\* Every step keeps the invariant.
LEMMA NextIInv == IInv /\ [Next]_vars => IInv'
<1> SUFFICES ASSUME IInv, [Next]_vars PROVE IInv'
  OBVIOUS
<1>0. /\ queued_msgs \in Seq(QueuedMsg) /\ DistinctQueue
      /\ tasks \in Seq(Message)
  BY DEF IInv, Once, Bookkeeping
<1>1. ASSUME UNCHANGED rest, Typed' PROVE IInv'
  <2>1. UNCHANGED <<phase, count, tasks, queued_msgs, queued_msg_bytes, quota, old, sweep, fates>>
    BY <1>1 DEF rest, store
  <2>2. Once'
    BY <2>1, NoneMoves, Zenon DEF IInv
  <2>3. Accounted'
    BY <2>1, Zenon DEF IInv, Accounted, QueueIsAccounted, Bytes, QuotaOf
  <2>4. Cursors'
    BY <2>1, ZenonT(30) DEF IInv, Cursors, Queued, sweep
  <2> QED
    BY <1>1, <2>2, <2>3, <2>4, Zenon DEF IInv
<1>2. ASSUME NEW c \in Conns,
             \/ OpenConn(c)
             \/ \E g \in Logons : LogOnConn(c, g)
             \/ \E ids : LogOffConn(c, ids)
             \/ ShutConn(c)
      PROVE  IInv'
  BY <1>1, <1>2, ConnSteps DEF IInv
<1>3. ASSUME NEW c \in Conns, NEW m \in Inputs, ConnProcessMsg(c, m) PROVE IInv'
  <2>1. PICK e \in Message : e.id = count + 1 /\ tasks' = Append(tasks, e)
    BY <1>3, Submitted, Zenon DEF IInv
  <2>2. /\ count' = count + 1 /\ count < MaxMsgs
        /\ UNCHANGED <<registry, station, phase, store, old, sweep, fates>>
    BY <1>3 DEF ConnProcessMsg
  <2>3. UNCHANGED <<live, conns_by_from, queued_msgs, queued_msg_bytes, quota>>
    BY <2>2, Zenon DEF registry, store
  <2>4. Typed'
    BY <2>2, <2>3, ConstsAssumption, SMTT(30) DEF IInv, Typed
  <2>5. Once'
    BY <2>1, <2>2, <2>3, SubmitOnce, Zenon DEF IInv
  <2>6. Accounted'
    BY <2>3, Zenon DEF IInv, Accounted, QueueIsAccounted, Bytes, QuotaOf
  <2>7. Cursors'
    BY <2>2, <2>3 DEF IInv, Cursors, Queued, sweep
  <2> QED
    BY <2>4, <2>5, <2>6, <2>7, Zenon DEF IInv
<1>4. CASE PassThrough
  BY <1>0, <1>4, PassedOn, PassedKeeps
<1>5. ASSUME NEW i, RouterProc(i) PROVE IInv'
  BY <1>0, <1>5, PassedOn, PassedKeeps, Zenon
<1>6. ASSUME UNCHANGED <<registry, station, count, tasks, store, fates>>,
             phase' \in {"input", "complete", "queued"}, Cursors'
      PROVE  IInv'
  <2>1. UNCHANGED <<live, conns_by_from, queued_msgs, queued_msg_bytes, quota>>
    BY <1>6, Zenon DEF registry, store
  <2>2. Typed'
    BY <1>6, <2>1 DEF IInv, Typed
  <2>3. Once'
    BY <1>6, <2>1, NoneMoves, Zenon DEF IInv
  <2>4. Accounted'
    BY <2>1 DEF IInv, Accounted, QueueIsAccounted, Bytes, QuotaOf
  <2> QED
    BY <1>6, <2>2, <2>3, <2>4, Zenon DEF IInv
<1>7. UNCHANGED queued_msgs => \A n : Queued(n)' <=> Queued(n)
  BY DEF Queued
<1>8. CASE EndInput
  <2>1. Cursors'
    BY <1>7, <1>8, Zenon DEF EndInput, store, sweep, IInv, Cursors
  <2> QED
    BY <1>6, <1>8, <2>1, Zenon DEF EndInput
<1>9. CASE StartSweep
  <2>1. next_qmsg = -1 /\ next_qmsg' = -1 /\ qmsg' = IdAt(1)
    BY <1>9, Zenon DEF StartSweep, IInv, Cursors
  <2>2. Cursors'
    BY <1>0, <1>7, <1>9, <2>1, Successor, Zenon DEF StartSweep, store, IInv, Cursors
  <2> QED
    BY <1>6, <1>9, <2>2, Zenon DEF StartSweep
<1>10. CASE SweepNext
  <2>1. Queued(qmsg) /\ next_qmsg' = IdAt(PositionOf(qmsg) + 1) /\ qmsg' = qmsg
    BY <1>10 DEF SweepNext, IInv, Cursors
  <2>2. next_qmsg' # qmsg' /\ (next_qmsg' = 0 \/ Queued(next_qmsg'))
    BY <1>0, <2>1, Successor, Zenon
  <2>3. Cursors'
    BY <1>7, <1>10, <2>1, <2>2, Zenon DEF SweepNext, store, IInv, Cursors
  <2>4. phase' \in {"input", "complete", "queued"}
    BY <1>10 DEF SweepNext
  <2> QED
    BY <1>6, <1>10, <2>3, <2>4, Zenon DEF SweepNext
<1>11. CASE SweepMsg
  BY <1>11, SweepMsgIsSwept, SweptKeeps, Zenon
<1>12. CASE EndSweep
  <2>1. Cursors'
    BY <1>7, <1>12 DEF EndSweep, store, IInv, Cursors
  <2> QED
    BY <1>6, <1>12, <2>1, Zenon DEF EndSweep
<1>13. CASE Age
  <2>1. PICK j \in DOMAIN queued_msgs : old' = old \cup {IdAt(j)}
    BY <1>13 DEF Age
  <2>2. Queued(IdAt(j))
    BY <2>1, Zenon DEF Queued, IdAt
  <2>3. Cursors'
    BY <1>7, <1>13, <2>1, <2>2, Zenon DEF Age, store, sweep, IInv, Cursors
  <2>4. phase' \in {"input", "complete", "queued"}
    BY <1>13 DEF Age, IInv, Typed
  <2> QED
    BY <1>6, <1>13, <2>3, <2>4, Zenon DEF Age
<1>14. CASE UNCHANGED vars
  <2>1. UNCHANGED <<registry, station>> /\ UNCHANGED rest
    BY <1>14 DEF vars, rest
  <2>2. Typed'
    BY <2>1 DEF IInv, Typed, registry, rest
  <2> QED
    BY <1>1, <2>1, <2>2
<1> QED
  BY <1>2, <1>3, <1>4, <1>5, <1>8, <1>9, <1>10, <1>11, <1>12, <1>13, <1>14, Zenon DEF Next

\* The invariant holds in every state of every behaviour.
LEMMA Invariance == Spec => []IInv
BY InitIInv, NextIInv, PTL DEF Spec

\* Every variable has its type; in particular the counters of store_msg and
\* msgquota never go below zero, and neither the sweep nor the clock ever
\* points at a message that has left the queue.
THEOREM StoreTypeOK == Spec => []TypeOK
<1>1. ASSUME IInv PROVE TypeOK
  <2>1. /\ queued_msgs \in Seq(QueuedMsg) /\ tasks \in Seq(Message)
        /\ got \in [Idents -> Seq(Message)]
    BY <1>1 DEF IInv, Once, Bookkeeping
  <2>2. \A n : n \in QueuedIds <=> Queued(n)
    BY DEF QueuedIds, Queued
  <2>3. told \subseteq 1 .. count /\ lost \subseteq 1 .. count
    BY <1>1, Zenon DEF IInv, Once, NoPlace
  <2> QED
    BY <1>1, <2>1, <2>2, <2>3, Zenon DEF TypeOK, IInv, Typed, Accounted, Cursors
<1> QED
  BY <1>1, Invariance, PTL

\* queued_msg_bytes and every sender's quota are the sums of what is queued,
\* and neither goes over its limit, with router threads storing and the main
\* thread dequeuing in any order.
THEOREM StoreIsAccounted == Spec => []QueueIsAccounted
<1>1. IInv => QueueIsAccounted
  BY DEF IInv, Accounted
<1> QED
  BY <1>1, Invariance, PTL

\* A message that conn_process_msg let in is in exactly one place at any
\* time: no message is lost without a trace, delivered twice, or delivered and
\* still queued, whatever the router threads and the sweep do.
THEOREM EachMessageOnce == Spec => []EveryMessageOnce
<1>1. ASSUME IInv PROVE EveryMessageOnce
  <2> DEFINE places == <<IdsOf(tasks), QueuedIds, told, lost>>
             delivered == UNION {IdsOf(got[id]) : id \in Idents}
  <2>0. /\ Bookkeeping
        /\ \A n : IF n \in 1 .. count THEN OnePlace(n) ELSE NoPlace(n)
    BY <1>1 DEF IInv, Once
  <2>1. \A n : n \in IdsOf(tasks) <=> InTasks(n)
    BY DEF IdsOf, Ids, Range, InTasks
  <2>2. \A n : n \in QueuedIds <=> Queued(n)
    BY DEF QueuedIds, Queued
  <2>3. \A n : n \in delivered <=> InGot(n)
    <3>1. \A id, n : n \in IdsOf(got[id]) <=> \E i \in DOMAIN got[id] : got[id][i].id = n
      BY Zenon DEF IdsOf, Ids, Range
    <3>2. \A n : n \in delivered <=> \E id \in Idents : n \in IdsOf(got[id])
      OBVIOUS
    <3> QED
      BY <3>1, <3>2, Zenon DEF InGot
  <2>4. UNION Range(places) = IdsOf(tasks) \cup QueuedIds \cup told \cup lost
    <3>1. Range(places) = {IdsOf(tasks), QueuedIds, told, lost}
      BY DEF Range
    <3> QED
      BY <3>1
  <2> HIDE DEF delivered
  <2>5. \A n : n \in 1 .. count <=> n \in delivered \cup UNION Range(places)
    <3> HIDE DEF places
    <3>1. \A n : n \in UNION Range(places)
                   <=> InTasks(n) \/ Queued(n) \/ n \in told \/ n \in lost
      BY <2>1, <2>2, <2>4, Zenon
    <3>2. \A n : n \in delivered \cup UNION Range(places)
                   <=> InGot(n) \/ InTasks(n) \/ Queued(n) \/ n \in told \/ n \in lost
      BY <2>3, <3>1
    <3> QED
      BY <2>0, <3>2, Zenon DEF OnePlace, NoPlace
  <2>6. \A n : n \in IdsOf(tasks) =>
                 n \notin QueuedIds /\ n \notin told /\ n \notin lost /\ n \notin delivered
    BY <2>0, <2>1, <2>2, <2>3, Zenon DEF OnePlace, NoPlace
  <2>7. \A n : n \in QueuedIds => n \notin told /\ n \notin lost /\ n \notin delivered
    BY <2>0, <2>2, <2>3, Zenon DEF OnePlace, NoPlace
  <2>8. \A n : n \in told => n \notin lost /\ n \notin delivered
    BY <2>0, <2>3, Zenon DEF OnePlace, NoPlace
  <2>9. \A n : n \in lost => n \notin delivered
    BY <2>0, <2>3, Zenon DEF OnePlace, NoPlace
  <2>10. /\ DOMAIN places = 1 .. 4 /\ places[1] = IdsOf(tasks) /\ places[2] = QueuedIds
         /\ places[3] = told /\ places[4] = lost
    OBVIOUS
  <2> HIDE DEF places
  <2>11. \A i, j \in 1 .. 4 : i # j => places[i] \cap places[j] = {}
    BY <2>6, <2>7, <2>8, <2>10, SMTT(30)
  <2>12. \A i \in 1 .. 4 : places[i] \cap delivered = {}
    BY <2>6, <2>7, <2>8, <2>9, <2>10, SMTT(30)
  <2>13. IsInjective(Ids(tasks))
    BY <2>0 DEF Bookkeeping, DistinctTasks, IsInjective, Ids
  <2>14. 1 .. count = delivered \cup UNION Range(places)
    BY <2>5
  <2> QED
    BY <2>0, <2>10, <2>11, <2>12, <2>13, <2>14, Zenon
    DEF EveryMessageOnce, places, delivered, Bookkeeping, DistinctQueue, DistinctGot
<1> QED
  BY <1>1, Invariance, PTL

\* A message goes one way: let in, it waits for the router; from there it may
\* go into the queue, once; it leaves the queue delivered, or dropped when the
\* sweep found it too old; and what was delivered, refused or dropped stays so.
MovesOn(n) ==
    /\ InTasks(n)' => InTasks(n) \/ (NoPlace(n) /\ count' = count + 1 /\ n = count')
    /\ Queued(n)' => Queued(n) \/ InTasks(n)
    /\ Queued(n) => Queued(n)' \/ InGot(n)' \/ (n \in due /\ n \in lost')
    /\ InGot(n) => InGot(n)'
    /\ n \in told => n \in told'
    /\ n \in lost => n \in lost'

MessagesMoveOn == [][\A n : MovesOn(n)]_vars

\* A message that stays where it is does not go back.
LEMMA StaysMovesOn == \A n : Stays(n) => MovesOn(n)
<1> SUFFICES ASSUME NEW n, Stays(n) PROVE MovesOn(n)
  OBVIOUS
<1> QED
  BY Zenon DEF Stays, MovesOn

\* A step that leaves all lists and fates alone.
LEMMA UnmovedStay ==
    ASSUME UNCHANGED <<tasks, queued_msgs, fates>>
    PROVE  \A n : MovesOn(n)
<1>1. \A n : Stays(n)
  BY DEF Stays, InTasks, Queued, InGot, fates
<1> QED
  BY <1>1, StaysMovesOn, Zenon

\* No step takes a message back, with router threads and the sweep in any
\* order: none is stored again, none is dropped before QUEUED_MSG_TIMEOUT, and
\* none that was settled comes back.
THEOREM MessagesOnlyMoveOn == Spec => MessagesMoveOn
<1>1. ASSUME IInv, [Next]_vars PROVE \A n : MovesOn(n)
  <2>0. /\ tasks \in Seq(Message) /\ Once
        /\ \A n : IF n \in 1 .. count THEN OnePlace(n) ELSE NoPlace(n)
    BY <1>1, Zenon DEF IInv, Once, Bookkeeping
  <2>1. ASSUME NEW c \in Conns,
               \/ OpenConn(c)
               \/ \E g \in Logons : LogOnConn(c, g)
               \/ \E ids : LogOffConn(c, ids)
               \/ ShutConn(c)
        PROVE  UNCHANGED <<tasks, queued_msgs, fates>>
    BY <2>1 DEF OpenConn, LogOnConn, LogOffConn, ShutConn, rest, store
  <2>2. ASSUME NEW c \in Conns, NEW m \in Inputs, ConnProcessMsg(c, m)
        PROVE  \A n : MovesOn(n)
    <3>1. PICK e \in Message : e.id = count + 1 /\ tasks' = Append(tasks, e)
      BY <1>1, <2>2, Submitted, Zenon DEF IInv
    <3>2. count' = count + 1 /\ UNCHANGED <<queued_msgs, fates>>
      BY <2>2 DEF ConnProcessMsg, store
    <3>3. NoPlace(e.id) /\ \A n : n # e.id => Stays(n)
      BY <1>1, <3>1, <3>2, SubmitOnce, Zenon DEF IInv
    <3>4. Queued(e.id)' <=> Queued(e.id)
      BY <3>2 DEF Queued
    <3>5. MovesOn(e.id)
      BY <3>1, <3>2, <3>3, <3>4, Zenon DEF MovesOn, NoPlace
    <3> QED
      BY <3>3, <3>5, StaysMovesOn, Zenon
  <2>3. ASSUME NEW i, NEW m, Passed(i, m)
        PROVE  \A n : MovesOn(n)
    <3>1. PICK k : k = tasks[i].id
      OBVIOUS
    <3>0. /\ Forwarded(i, m) /\ i \in DOMAIN tasks
          /\ tasks' = RemoveAt(tasks, i) /\ count' = count
      BY <1>1, <2>3, PassedEffect, Zenon DEF Passed
    <3>2. InTasks(k) /\ \A n : n # k => Stays(n)
      BY <2>0, <3>0, <3>1, TaskMoves
    <3>3. ~Queued(k) /\ ~InGot(k) /\ k \notin told /\ k \notin lost
      BY <2>0, <3>2, Zenon DEF OnePlace, NoPlace
    <3>4. MovesOn(k)
      BY <3>2, <3>3, Zenon DEF MovesOn
    <3> QED
      BY <3>2, <3>4, StaysMovesOn
  <2>4. CASE PassThrough \/ \E i : RouterProc(i)
    BY <2>0, <2>3, <2>4, PassedOn
  <2>5. CASE SweepMsg
    <3>1. PICK p : Swept(p)
      BY <1>1, <2>5, SweepMsgIsSwept, Zenon
    <3>2. CASE UNCHANGED <<store, got, lost>>
      BY <3>1, <3>2, UnmovedStay, Zenon DEF Swept, store, fates
    <3>3. CASE /\ DequeueMsg(queued_msgs[p]) /\ PositionOf(qmsg) = p
               /\ \/ Delivered(queued_msgs[p].msg) /\ UNCHANGED lost
                  \/ lost' = lost \cup {queued_msgs[p].msg.id} /\ UNCHANGED got /\ qmsg \in due
      <4>0. PICK m, k : m = queued_msgs[p].msg /\ k = m.id
        BY Zenon
      <4>1. /\ queued_msgs' = RemoveAt(queued_msgs, p) /\ p \in DOMAIN queued_msgs
            /\ k = qmsg /\ UNCHANGED <<count, tasks, told>>
        BY <3>1, <3>3, <4>0, Zenon DEF DequeueMsg, Swept
      <4>2. Queued(k) /\ \A n : n # k => Stays(n)
        BY <2>0, <3>3, <4>0, <4>1, QueueMoves, Zenon
      <4>3. ~InTasks(k) /\ ~InGot(k) /\ k \notin told /\ k \notin lost
        BY <2>0, <4>2, Zenon DEF OnePlace, NoPlace
      <4>4. ~InTasks(k)'
        BY <4>1, <4>3, Zenon DEF InTasks
      <4>5. InGot(k)' \/ (k \in due /\ k \in lost')
        <5>1. CASE lost' = lost \cup {k} /\ qmsg \in due
          BY <4>1, <5>1
        <5>2. CASE Delivered(m)
          <6>1. queued_msgs[p] \in QueuedMsg
            BY <2>0, <4>1 DEF Once, Bookkeeping
          <6>2. m \in Message
            BY <4>0, <6>1 DEF QueuedMsg
          <6>3. got \in [Idents -> Seq(Message)] /\ DistinctGot
            BY <2>0 DEF Once, Bookkeeping
          <6>4. \A n : InGot(n)' <=> InGot(n) \/ n = m.id
            BY <4>0, <4>3, <5>2, <6>2, <6>3, GotAdded, Zenon DEF Delivered
          <6> QED
            BY <4>0, <6>4, Zenon
        <5> QED
          BY <3>3, <4>0, <5>1, <5>2, Zenon
      <4>6. MovesOn(k)
        BY <4>2, <4>3, <4>4, <4>5, Zenon DEF MovesOn
      <4> QED
        BY <4>2, <4>6, StaysMovesOn
    <3> QED
      BY <3>1, <3>2, <3>3, Zenon DEF Swept
  <2>6. CASE EndInput \/ StartSweep \/ SweepNext \/ EndSweep \/ Age \/ UNCHANGED vars
    <3>1. UNCHANGED <<tasks, queued_msgs, fates>>
      BY <2>6, Zenon DEF EndInput, StartSweep, SweepNext, EndSweep, Age, vars, store
    <3> QED
      BY <3>1, UnmovedStay, Zenon
  <2> QED
    BY <1>1, <2>1, <2>2, <2>4, <2>5, <2>6, UnmovedStay, Zenon DEF Next
<1> QED
  BY <1>1, Invariance, PTL DEF Spec, MessagesMoveOn
=============================================================================
