----------------------------- MODULE ListLemmas ------------------------------
(***************************************************************************)
(* Facts about the lists the server keeps (from_list, the lists of         *)
(* connections in conns_by_from, the message queue), for the proofs.       *)
(***************************************************************************)
EXTENDS Lists, WellFoundedInduction, TLAPS

\* x is an element of the list s.
Has(s, x) == \E i \in DOMAIN s : s[i] = x

-----------------------------------------------------------------------------
(* Lists, place by place. *)

\* Two lists, one after the other.
LEMMA ConcatPlaces ==
    ASSUME NEW S, NEW s \in Seq(S), NEW t \in Seq(S)
    PROVE  /\ s \o t \in Seq(S)
           /\ Len(s \o t) = Len(s) + Len(t)
           /\ \A i \in 1 .. Len(s) + Len(t) :
                 (s \o t)[i] = IF i <= Len(s) THEN s[i] ELSE t[i - Len(s)]
  OBVIOUS

\* An element added at the end of a list.
LEMMA AppendPlaces ==
    ASSUME NEW S, NEW s \in Seq(S), NEW e \in S
    PROVE  /\ Append(s, e) \in Seq(S)
           /\ Append(s, e) # <<>>
           /\ Len(Append(s, e)) = Len(s) + 1
           /\ \A i \in 1 .. Len(s) : Append(s, e)[i] = s[i]
           /\ Append(s, e)[Len(s) + 1] = e
  OBVIOUS

\* The head of a list and what follows it.
LEMMA HeadAndTail ==
    ASSUME NEW S, NEW s \in Seq(S), s # <<>>
    PROVE  /\ Head(s) \in S
           /\ Head(s) = s[1]
           /\ Tail(s) \in Seq(S)
           /\ Len(s) \in Nat \ {0}
           /\ Len(Tail(s)) = Len(s) - 1
           /\ \A i \in 1 .. Len(s) - 1 : Tail(s)[i] = s[i + 1]
  OBVIOUS

\* The head of a list, and what follows it, when an element is added.
LEMMA AppendHeadTail ==
    ASSUME NEW S, NEW s \in Seq(S), NEW e \in S
    PROVE  /\ Head(Append(s, e)) = IF s = <<>> THEN e ELSE Head(s)
           /\ Tail(Append(s, e)) = IF s = <<>> THEN <<>> ELSE Append(Tail(s), e)
<1>1. CASE s = <<>>
  BY <1>1
<1>2. CASE s # <<>>
  BY <1>2
<1> QED
  BY <1>1, <1>2

\* Lists that agree at every place are the same list.
LEMMA SameList ==
    ASSUME NEW S, NEW s \in Seq(S), NEW t \in Seq(S), Len(s) = Len(t),
           \A i \in 1 .. Len(s) : s[i] = t[i]
    PROVE  s = t
  OBVIOUS

-----------------------------------------------------------------------------
(* Elements that leave a list. *)

\* The i-th element leaves the list, those after it move up: list_remove of
\* libacfutils.
LEMMA RemoveAtFacts ==
    ASSUME NEW S, NEW s \in Seq(S), NEW i \in 1 .. Len(s)
    PROVE  /\ RemoveAt(s, i) \in Seq(S)
           /\ Len(RemoveAt(s, i)) = Len(s) - 1
           /\ \A j \in 1 .. Len(s) - 1 :
                 RemoveAt(s, i)[j] = IF j < i THEN s[j] ELSE s[j + 1]
<1>1. PICK u : u = SubSeq(s, 1, i - 1)
  BY Zenon
<1>2. PICK v : v = SubSeq(s, i + 1, Len(s))
  BY Zenon
<1>3. u \in Seq(S) /\ Len(u) = i - 1 /\ \A j \in 1 .. i - 1 : u[j] = s[j]
  BY <1>1
<1>4. /\ v \in Seq(S)
      /\ Len(v) = Len(s) - i
      /\ \A j \in 1 .. Len(s) - i : v[j] = s[j + i]
  BY <1>2
<1>5. /\ u \o v \in Seq(S)
      /\ Len(u \o v) = Len(u) + Len(v)
      /\ \A j \in 1 .. Len(u) + Len(v) :
            (u \o v)[j] = IF j <= Len(u) THEN u[j] ELSE v[j - Len(u)]
  BY <1>3, <1>4, ConcatPlaces, Zenon
<1>6. Len(u) + Len(v) = Len(s) - 1
  BY <1>3, <1>4
<1>7. ASSUME NEW j \in 1 .. Len(s) - 1
      PROVE  (u \o v)[j] = IF j < i THEN s[j] ELSE s[j + 1]
  <2>1. CASE j < i
    BY <1>3, <1>5, <1>6, <2>1
  <2>2. CASE ~(j < i)
    <3>1. /\ j - (i - 1) \in 1 .. Len(s) - i
          /\ (j - (i - 1)) + i = j + 1
          /\ ~(j <= Len(u))
      BY <1>3, <2>2
    <3>2. (u \o v)[j] = v[j - (i - 1)]
      BY <1>3, <1>5, <1>6, <3>1
    <3> QED
      BY <1>4, <2>2, <3>1, <3>2
  <2> QED
    BY <2>1, <2>2, Zenon
<1>8. RemoveAt(s, i) = u \o v
  BY <1>1, <1>2 DEF RemoveAt
<1> QED
  BY <1>5, <1>6, <1>7, <1>8

\* Removing the first occurrence of e from a list without duplicates, as
\* conns_by_from_remove and conn_remove_ident do, leaves exactly the other
\* elements, once each.
LEMMA RemoveFirstFacts ==
    ASSUME NEW S, NEW s \in Seq(S), NEW e, IsInjective(s)
    PROVE  /\ RemoveFirst(s, e) \in Seq(S)
           /\ IsInjective(RemoveFirst(s, e))
           /\ \A x : Has(RemoveFirst(s, e), x) <=> (x # e /\ Has(s, x))
<1>1. CASE ~ \E i \in 1 .. Len(s) : s[i] = e
  <2>1. RemoveFirst(s, e) = s
    BY <1>1 DEF RemoveFirst
  <2> QED
    BY <2>1, <1>1 DEF Has
<1>2. CASE \E i \in 1 .. Len(s) : s[i] = e
  <2>1. PICK i \in 1 .. Len(s) : s[i] = e
    BY <1>2
  <2>2. {j \in DOMAIN s : s[j] = e} = {i}
    BY <2>1 DEF IsInjective
  <2>3. Min({i}) = i
    BY <2>1 DEF Min
  <2>5. PICK t : t = RemoveFirst(s, e)
    OBVIOUS
  <2>6. t = RemoveAt(s, i)
    BY <2>2, <2>3, <2>5, Zenon DEF RemoveFirst
  <2>7. /\ t \in Seq(S)
        /\ Len(t) = Len(s) - 1
        /\ \A j \in 1 .. Len(s) - 1 : t[j] = IF j < i THEN s[j] ELSE s[j + 1]
    BY <2>6, RemoveAtFacts
  <2>8. IsInjective(t)
    <3>0. DOMAIN t = 1 .. Len(t)
      BY <2>7
    <3> SUFFICES ASSUME NEW a \in 1 .. Len(t), NEW b \in 1 .. Len(t), t[a] = t[b]
                 PROVE  a = b
      BY <3>0, Zenon DEF IsInjective
    <3> DEFINE at(j) == IF j < i THEN j ELSE j + 1
    <3>1. /\ at(a) \in DOMAIN s /\ at(b) \in DOMAIN s
          /\ s[at(a)] = t[a] /\ s[at(b)] = t[b]
      BY <2>7
    <3>2. at(a) = at(b)
      BY <3>1 DEF IsInjective
    <3> QED
      BY <3>2, <2>7
  <2>9. ASSUME NEW x PROVE Has(t, x) <=> (x # e /\ Has(s, x))
    <3>1. ASSUME NEW j \in DOMAIN t, t[j] = x PROVE x # e /\ Has(s, x)
      <4> DEFINE k == IF j < i THEN j ELSE j + 1
      <4>1. k \in DOMAIN s /\ k # i /\ s[k] = x
        BY <2>7, <3>1
      <4> QED
        BY <2>1, <4>1 DEF Has, IsInjective
    <3>2. ASSUME x # e, NEW k \in DOMAIN s, s[k] = x PROVE Has(t, x)
      <4> DEFINE j == IF k < i THEN k ELSE k - 1
      <4>1. k # i
        BY <2>1, <3>2
      <4>2. j \in DOMAIN t /\ t[j] = x
        BY <2>7, <3>2, <4>1
      <4> QED
        BY <4>2 DEF Has
    <3> QED
      BY <3>1, <3>2 DEF Has
  <2> QED
    BY <2>5, <2>7, <2>8, <2>9
<1> QED
  BY <1>1, <1>2

\* Appending to a list an element it does not have, as list_insert_tail and
\* htbl_set do in complete_logon.
LEMMA AppendFacts ==
    ASSUME NEW S, NEW s \in Seq(S), NEW e \in S, IsInjective(s), ~Has(s, e)
    PROVE  /\ Append(s, e) \in Seq(S)
           /\ IsInjective(Append(s, e))
           /\ Append(s, e) # <<>>
           /\ Last(Append(s, e)) = e
           /\ \A x : Has(Append(s, e), x) <=> (x = e \/ Has(s, x))
<1>1. /\ Append(s, e) \in Seq(S)
      /\ Len(Append(s, e)) = Len(s) + 1
      /\ \A i \in 1 .. Len(s) : Append(s, e)[i] = s[i]
      /\ Append(s, e)[Len(s) + 1] = e
  OBVIOUS
<1>2. IsInjective(Append(s, e))
  BY <1>1 DEF IsInjective, Has
<1>3. Append(s, e) # <<>> /\ Last(Append(s, e)) = e
  BY <1>1 DEF Last
<1>4. \A x : Has(Append(s, e), x) <=> (x = e \/ Has(s, x))
  BY <1>1 DEF Has
<1> QED
  BY <1>1, <1>2, <1>3, <1>4

-----------------------------------------------------------------------------
(* Induction. *)

\* Every set of naturals that is not empty has a least element.
LEMMA LeastNatural ==
    ASSUME NEW B, B \subseteq Nat, B # {}
    PROVE  \E i \in B : \A j \in B : i <= j
<1>1. PICK i \in B : \A j \in B : ~(<<j, i>> \in OpToRel(<, Nat))
  BY NatLessThanWellFounded, WFMin, Zenon
<1>2. ASSUME NEW j \in B PROVE i <= j
  <2>1. i \in Nat /\ j \in Nat
    OBVIOUS
  <2>2. j < i => <<j, i>> \in OpToRel(<, Nat)
    BY <2>1, Zenon DEF OpToRel
  <2>3. ~(j < i)
    BY <1>1, <2>2, Zenon
  <2> QED
    BY <2>1, <2>3
<1> QED
  BY <1>2

\* Induction over the naturals, for a set S: what holds is put into S.
LEMMA NatSetInduction ==
    ASSUME NEW S, 0 \in S, \A n \in Nat : n \in S => n + 1 \in S
    PROVE  \A n \in Nat : n \in S
<1> SUFFICES ASSUME NEW m \in Nat, m \notin S PROVE FALSE
  OBVIOUS
<1> DEFINE B == {n \in Nat : n \notin S}
<1>1. PICK i \in B : \A j \in B : i <= j
  BY LeastNatural, Zenon
<1>2. i \in Nat /\ i # 0 /\ i - 1 \in Nat
  BY <1>1
<1>3. i - 1 \in S
  BY <1>1, <1>2
<1> QED
  BY <1>1, <1>2, <1>3

-----------------------------------------------------------------------------
(* Elements chosen from a list. *)

\* u[n] is what is chosen from the first n elements.
ChoosesBy(s, I, u) ==
    /\ u = [n \in 0 .. Len(s) |-> u[n]]
    /\ u[0] = <<>>
    /\ \A n \in 1 .. Len(s) : u[n] = IF n \in I THEN Append(u[n - 1], s[n]) ELSE u[n - 1]

\* The recursive function behind Chosen exists, and ends in what was chosen.
LEMMA ChosenExists ==
    ASSUME NEW S, NEW s \in Seq(S), NEW I
    PROVE  \E u : ChoosesBy(s, I, u) /\ u[Len(s)] = Chosen(s, I)
<1> DEFINE step(u, n) == IF n = 0 THEN <<>>
                         ELSE IF n \in I THEN Append(u[n - 1], s[n]) ELSE u[n - 1]
           G == {m \in Nat : \E u : u = [n \in 0 .. m |-> step(u, n)]}
<1>1. 0 \in G
  <2> DEFINE v == [n \in 0 .. 0 |-> <<>>]
  <2>1. v = [n \in 0 .. 0 |-> step(v, n)]
    OBVIOUS
  <2> QED
    BY <2>1, Zenon
<1>2. ASSUME NEW m \in Nat, m \in G PROVE m + 1 \in G
  <2>1. PICK u : u = [n \in 0 .. m |-> step(u, n)]
    BY <1>2, Zenon
  <2> DEFINE v == [n \in 0 .. m + 1 |-> IF n = m + 1 THEN step(u, n) ELSE u[n]]
  <2>2. ASSUME NEW n \in 0 .. m + 1 PROVE v[n] = step(v, n)
    <3>1. CASE n = m + 1
      BY <3>1
    <3>2. CASE n # m + 1
      <4>1. n \in 0 .. m /\ v[n] = u[n]
        BY <3>2
      <4>3. u[n] = step(u, n)
        BY <2>1, <4>1, Zenon
      <4>2. n # 0 => n - 1 \in 0 .. m + 1 /\ n - 1 # m + 1 /\ v[n - 1] = u[n - 1]
        OBVIOUS
      <4> HIDE DEF v
      <4> QED
        BY <4>1, <4>2, <4>3
    <3> QED
      BY <3>1, <3>2
  <2>3. v = [n \in 0 .. m + 1 |-> step(v, n)]
    BY <2>2, Zenon
  <2>4. m + 1 \in Nat
    OBVIOUS
  <2> HIDE DEF v, step
  <2> QED
    BY <2>3, <2>4, Zenon
<1>3. Len(s) \in G
  <2>1. Len(s) \in Nat
    OBVIOUS
  <2> HIDE DEF G
  <2> QED
    BY <1>1, <1>2, <2>1, NatSetInduction
<1>4. PICK u : u = [n \in 0 .. Len(s) |-> step(u, n)]
  BY <1>3, SMTT(30)
<1> DEFINE w == CHOOSE v : v = [n \in 0 .. Len(s) |-> step(v, n)]
<1>5. w = [n \in 0 .. Len(s) |-> step(w, n)]
  BY <1>4, Zenon
<1>6. Chosen(s, I) = w[Len(s)]
  BY DEF Chosen
<1> HIDE DEF w
<1>7. ChoosesBy(s, I, w)
  <2>1. w = [n \in 0 .. Len(s) |-> w[n]] /\ Len(s) \in Nat
    BY <1>5
  <2>2. \A n \in 0 .. Len(s) : w[n] = step(w, n)
    BY <1>5, Zenon
  <2> QED
    BY <2>1, <2>2 DEF ChoosesBy
<1> QED
  BY <1>6, <1>7

\* The positions g of the elements of t in s, in order.
Places(s, I, n, t, g) ==
    /\ g \in [1 .. Len(t) -> 1 .. n]
    /\ \A k \in 1 .. Len(t) : g[k] \in I /\ t[k] = s[g[k]]
    /\ \A j, k \in 1 .. Len(t) : j < k => g[j] < g[k]
    /\ \A i \in 1 .. n : i \in I => \E k \in 1 .. Len(t) : g[k] = i

\* Chosen keeps the order: g tells where each element chosen came from.
LEMMA ChosenPlaces ==
    ASSUME NEW S, NEW s \in Seq(S), NEW I
    PROVE  /\ Chosen(s, I) \in Seq(S)
           /\ \E g : Places(s, I, Len(s), Chosen(s, I), g)
<1>1. PICK u : ChoosesBy(s, I, u) /\ u[Len(s)] = Chosen(s, I)
  BY ChosenExists
<1>0. Len(s) \in Nat /\ \A n \in 1 .. Len(s) : s[n] \in S
  OBVIOUS
<1> DEFINE G == {n \in Nat : n <= Len(s) => u[n] \in Seq(S) /\ \E g : Places(s, I, n, u[n], g)}
<1>2. 0 \in G
  <2>1. u[0] = <<>> /\ <<>> \in Seq(S) /\ Len(<<>>) = 0
    BY <1>1 DEF ChoosesBy
  <2>2. Places(s, I, 0, <<>>, [k \in 1 .. 0 |-> 0])
    BY <2>1 DEF Places
  <2> QED
    BY <2>1, <2>2, Zenon
<1>3. ASSUME NEW n \in Nat, n \in G PROVE n + 1 \in G
  <2> SUFFICES ASSUME n + 1 <= Len(s)
               PROVE  u[n + 1] \in Seq(S) /\ \E g : Places(s, I, n + 1, u[n + 1], g)
    OBVIOUS
  <2>1. u[n] \in Seq(S) /\ \E g : Places(s, I, n, u[n], g)
    BY <1>3
  <2>2. PICK g : Places(s, I, n, u[n], g)
    BY <2>1
  <2>3. PICK t \in Seq(S) : t = u[n]
    BY <2>1
  <2>4. n + 1 \in 1 .. Len(s) /\ (n + 1) - 1 = n /\ s[n + 1] \in S
    BY <1>0
  <2>5. u[n + 1] = IF n + 1 \in I THEN Append(t, s[n + 1]) ELSE t
    BY <1>1, <2>3, <2>4, Zenon DEF ChoosesBy
  <2>6. CASE n + 1 \notin I
    <3>1. Places(s, I, n + 1, t, g)
      BY <2>2, <2>3, <2>6 DEF Places
    <3> QED
      BY <2>5, <2>6, <3>1
  <2>7. CASE n + 1 \in I
    <3> DEFINE r == Append(t, s[n + 1])
               h == [k \in 1 .. Len(t) + 1 |-> IF k = Len(t) + 1 THEN n + 1 ELSE g[k]]
    <3>1. /\ r \in Seq(S) /\ Len(r) = Len(t) + 1
          /\ \A k \in 1 .. Len(t) : r[k] = t[k]
          /\ r[Len(t) + 1] = s[n + 1]
          /\ Len(t) \in Nat
      BY <2>4, AppendPlaces
    <3> HIDE DEF r
    <3>2. /\ g \in [1 .. Len(t) -> 1 .. n]
          /\ \A k \in 1 .. Len(t) : g[k] \in I /\ t[k] = s[g[k]]
          /\ \A j, k \in 1 .. Len(t) : j < k => g[j] < g[k]
          /\ \A i \in 1 .. n : i \in I => \E k \in 1 .. Len(t) : g[k] = i
      BY <2>2, <2>3 DEF Places
    <3>3. /\ \A k \in 1 .. Len(t) : h[k] = g[k]
          /\ h[Len(t) + 1] = n + 1
          /\ h \in [1 .. Len(t) + 1 -> 1 .. n + 1]
      BY <3>1, <3>2
    <3> HIDE DEF h
    <3>4. \A k \in 1 .. Len(t) + 1 : h[k] \in I /\ r[k] = s[h[k]]
      BY <2>7, <3>1, <3>2, <3>3
    <3>5. ASSUME NEW j \in 1 .. Len(t) + 1, NEW k \in 1 .. Len(t) + 1, j < k
          PROVE  h[j] < h[k]
      <4>0. j \in 1 .. Len(t)
        BY <3>1, <3>5
      <4>1. h[j] = g[j] /\ g[j] \in 1 .. n
        BY <3>2, <3>3, <4>0
      <4>2. CASE k = Len(t) + 1
        BY <3>3, <4>1, <4>2
      <4>3. CASE k # Len(t) + 1
        <5>1. k \in 1 .. Len(t) /\ h[k] = g[k]
          BY <3>1, <3>3, <4>3
        <5> QED
          BY <3>2, <3>5, <4>0, <4>1, <5>1
      <4> QED
        BY <4>2, <4>3
    <3>6. ASSUME NEW i \in 1 .. n + 1, i \in I
          PROVE  \E k \in 1 .. Len(t) + 1 : h[k] = i
      <4>1. CASE i = n + 1
        <5>1. Len(t) + 1 \in 1 .. Len(t) + 1
          BY <3>1
        <5> QED
          BY <3>3, <4>1, <5>1
      <4>2. CASE i # n + 1
        <5>1. i \in 1 .. n
          BY <4>2
        <5>2. PICK k \in 1 .. Len(t) : g[k] = i
          BY <3>2, <3>6, <5>1
        <5>3. k \in 1 .. Len(t) + 1 /\ h[k] = i
          BY <3>1, <3>3, <5>2
        <5> QED
          BY <5>3
      <4> QED
        BY <4>1, <4>2
    <3>7. Places(s, I, n + 1, r, h)
      BY <3>1, <3>3, <3>4, <3>5, <3>6 DEF Places
    <3>8. u[n + 1] = r
      BY <2>5, <2>7 DEF r
    <3> QED
      BY <3>1, <3>7, <3>8
  <2> QED
    BY <2>6, <2>7
<1>4. Len(s) \in G
  BY <1>0, <1>2, <1>3, NatSetInduction, Zenon
<1> QED
  BY <1>0, <1>1, <1>4

\* What is left is a list of the same kind, without duplicates if there were none, and has
\* exactly the elements at the positions chosen.
LEMMA ChosenFacts ==
    ASSUME NEW S, NEW s \in Seq(S), NEW I, NEW t, t = Chosen(s, I)
    PROVE  /\ t \in Seq(S)
           /\ IsInjective(s) => IsInjective(t)
           /\ \A i \in DOMAIN s : i \in I => \E k \in DOMAIN t : t[k] = s[i]
           /\ \A k \in DOMAIN t : \E i \in DOMAIN s : i \in I /\ t[k] = s[i]
<1>2. t \in Seq(S) /\ \E g : Places(s, I, Len(s), t, g)
  BY ChosenPlaces
<1>3. PICK g : Places(s, I, Len(s), t, g)
  BY <1>2
<1>4. DOMAIN t = 1 .. Len(t) /\ DOMAIN s = 1 .. Len(s) /\ Len(t) \in Nat
  BY <1>2
<1>5. ASSUME IsInjective(s), NEW j \in 1 .. Len(t), NEW k \in 1 .. Len(t), t[j] = t[k]
      PROVE  j = k
  <2>1. g[j] = g[k]
    BY <1>3, <1>4, <1>5, SMTT(30) DEF IsInjective, Places
  <2>2. g[j] \in Int /\ (j < k => g[j] < g[k]) /\ (k < j => g[k] < g[j])
    BY <1>3 DEF Places
  <2> QED
    BY <2>1, <2>2
<1>6. IsInjective(s) => IsInjective(t)
  BY <1>4, <1>5 DEF IsInjective
<1>7. \A i \in 1 .. Len(s) : i \in I => \E k \in 1 .. Len(t) : t[k] = s[i]
  BY <1>3 DEF Places
<1>8. \A k \in 1 .. Len(t) : \E i \in 1 .. Len(s) : i \in I /\ t[k] = s[i]
  BY <1>3 DEF Places
<1> QED
  BY <1>2, <1>4, <1>6, <1>7, <1>8, ZenonT(30)

\* What is left of a list of which some elements are removed, wherever they
\* are: the lists of conns_by_from after a logoff, conns after close_conn.
LEMMA ExcludingFacts ==
    ASSUME NEW S, NEW s \in Seq(S), NEW es
    PROVE  /\ Excluding(s, es) \in Seq(S)
           /\ IsInjective(s) => IsInjective(Excluding(s, es))
           /\ Range(Excluding(s, es)) = Range(s) \ es
           /\ s = <<>> => Excluding(s, es) = <<>>
<1>0. PICK I : I = {i \in DOMAIN s : s[i] \notin es}
  BY Zenon
<1>1. PICK t : t = Excluding(s, es)
  OBVIOUS
<1>2. t = Chosen(s, I)
  BY <1>0, <1>1 DEF Excluding
<1>3. /\ t \in Seq(S)
      /\ IsInjective(s) => IsInjective(t)
      /\ \A i \in DOMAIN s : i \in I => \E k \in DOMAIN t : t[k] = s[i]
      /\ \A k \in DOMAIN t : \E i \in DOMAIN s : i \in I /\ t[k] = s[i]
  BY <1>2, ChosenFacts
<1>4. Range(t) = Range(s) \ es
  BY <1>0, <1>3 DEF Range
<1>5. ASSUME s = <<>> PROVE t = <<>>
  <2>1. DOMAIN s = {}
    BY <1>5
  <2>2. DOMAIN t = {}
    BY <1>3, <2>1, Zenon
  <2> QED
    BY <1>3, <2>2
<1> QED
  BY <1>1, <1>3, <1>4, <1>5

\* I and J agree on the first n positions.
AgreeUpTo(n, I, J) == \A i \in 1 .. n : i \in I <=> i \in J

\* A list that grows at its end.
LEMMA ChosenAppend ==
    ASSUME NEW S, NEW s \in Seq(S), NEW e \in S, NEW I, NEW J, AgreeUpTo(Len(s), I, J)
    PROVE  /\ Len(s) + 1 \in J => Chosen(Append(s, e), J) = Append(Chosen(s, I), e)
           /\ Len(s) + 1 \notin J => Chosen(Append(s, e), J) = Chosen(s, I)
<1> USE DEF AgreeUpTo
<1>1. PICK r \in Seq(S) : r = Append(s, e)
  BY AppendPlaces, Zenon
<1>2. /\ Len(r) = Len(s) + 1 /\ Len(s) \in Nat
      /\ \A i \in 1 .. Len(s) : r[i] = s[i]
      /\ r[Len(s) + 1] = e
  BY <1>1
<1>3. PICK u : ChoosesBy(s, I, u) /\ u[Len(s)] = Chosen(s, I)
  BY ChosenExists
<1>4. PICK v : ChoosesBy(r, J, v) /\ v[Len(r)] = Chosen(r, J)
  BY ChosenExists
<1> DEFINE G == {n \in Nat : n <= Len(s) => v[n] = u[n]}
<1>5. 0 \in G
  BY <1>3, <1>4 DEF ChoosesBy
<1>6. ASSUME NEW n \in Nat, n \in G PROVE n + 1 \in G
  <2> SUFFICES ASSUME n + 1 <= Len(s) PROVE v[n + 1] = u[n + 1]
    OBVIOUS
  <2>1. n + 1 \in 1 .. Len(s) /\ n + 1 \in 1 .. Len(r) /\ (n + 1) - 1 = n /\ n <= Len(s)
    BY <1>2
  <2>2. v[n] = u[n]
    BY <1>6, <2>1
  <2>3. v[n + 1] = IF n + 1 \in J THEN Append(v[n], r[n + 1]) ELSE v[n]
    BY <1>4, <2>1, Zenon DEF ChoosesBy
  <2>4. u[n + 1] = IF n + 1 \in I THEN Append(u[n], s[n + 1]) ELSE u[n]
    BY <1>3, <2>1, Zenon DEF ChoosesBy
  <2> QED
    BY <1>2, <2>1, <2>2, <2>3, <2>4
<1>7. Len(s) \in G
  BY <1>2, <1>5, <1>6, NatSetInduction, Zenon
<1>8. v[Len(s)] = Chosen(s, I)
  BY <1>2, <1>3, <1>7
<1>9. Len(r) \in 1 .. Len(r) /\ Len(r) - 1 = Len(s)
  BY <1>2
<1>10. v[Len(r)] = IF Len(r) \in J THEN Append(v[Len(s)], r[Len(r)]) ELSE v[Len(s)]
  BY <1>4, <1>9, Zenon DEF ChoosesBy
<1> QED
  BY <1>1, <1>2, <1>4, <1>8, <1>10

\* Where the positions after i have moved up by one.
Shifted(i, n) == IF n < i THEN n ELSE n + 1

\* The i-th of n elements leaves; what was at positions I is then at J.
MoveUp(n, i, I, J) == \A k \in 1 .. n - 1 : k \in J <=> Shifted(i, k) \in I

\* An element leaves the list that was not chosen.
LEMMA ChosenRemoveOther ==
    ASSUME NEW S, NEW s \in Seq(S), NEW i \in 1 .. Len(s), NEW I, NEW J,
           MoveUp(Len(s), i, I, J),
           i \notin I
    PROVE  Chosen(RemoveAt(s, i), J) = Chosen(s, I)
<1> USE DEF MoveUp
<1>1. PICK r \in Seq(S) : r = RemoveAt(s, i)
  BY RemoveAtFacts
<1>2. /\ Len(r) = Len(s) - 1 /\ Len(s) \in Nat /\ Len(r) \in Nat
      /\ \A n \in 1 .. Len(s) - 1 : r[n] = s[Shifted(i, n)]
  <2>1. /\ Len(r) = Len(s) - 1
        /\ \A n \in 1 .. Len(s) - 1 : r[n] = IF n < i THEN s[n] ELSE s[n + 1]
    BY <1>1, RemoveAtFacts, Zenon
  <2>2. Len(s) \in Nat /\ Len(r) \in Nat
    OBVIOUS
  <2> QED
    BY <2>1, <2>2 DEF Shifted
<1>3. PICK u : ChoosesBy(s, I, u) /\ u[Len(s)] = Chosen(s, I)
  BY ChosenExists
<1>4. PICK v : ChoosesBy(r, J, v) /\ v[Len(r)] = Chosen(r, J)
  BY ChosenExists
<1> DEFINE G == {n \in Nat : n <= Len(r) => v[n] = u[Shifted(i, n)]}
<1>5. u[i] = u[i - 1]
  BY <1>3, Zenon DEF ChoosesBy
<1>6. 0 \in G
  <2>1. Shifted(i, 0) = 0
    BY DEF Shifted
  <2> QED
    BY <1>3, <1>4, <2>1 DEF ChoosesBy
<1>7. ASSUME NEW n \in Nat, n \in G PROVE n + 1 \in G
  <2> SUFFICES ASSUME n + 1 <= Len(r) PROVE v[n + 1] = u[Shifted(i, n + 1)]
    OBVIOUS
  <2>1. n + 1 \in 1 .. Len(r) /\ (n + 1) - 1 = n /\ n <= Len(r)
    BY <1>2
  <2>2. v[n] = u[Shifted(i, n)]
    BY <1>7, <2>1
  <2>3. v[n + 1] = IF n + 1 \in J THEN Append(v[n], r[n + 1]) ELSE v[n]
    BY <1>4, <2>1, Zenon DEF ChoosesBy
  <2>4. PICK m \in 1 .. Len(s) : m = Shifted(i, n + 1)
    BY <1>2, <2>1 DEF Shifted
  <2>5. u[m] = IF m \in I THEN Append(u[m - 1], s[m]) ELSE u[m - 1]
    BY <1>3, <2>4, Zenon DEF ChoosesBy
  <2>6. (n + 1 \in J <=> m \in I) /\ r[n + 1] = s[m]
    BY <1>2, <2>1, <2>4
  <2>7. u[m - 1] = u[Shifted(i, n)]
    <3>1. CASE n + 1 < i
      BY <2>4, <3>1 DEF Shifted
    <3>2. CASE n + 1 = i
      <4>1. m - 1 = i /\ Shifted(i, n) = i - 1
        BY <2>4, <3>2 DEF Shifted
      <4> QED
        BY <1>5, <4>1
    <3>3. CASE n + 1 > i
      BY <2>4, <3>3 DEF Shifted
    <3> QED
      BY <3>1, <3>2, <3>3
  <2> QED
    BY <2>2, <2>3, <2>4, <2>5, <2>6, <2>7
<1>8. Len(r) \in G
  BY <1>2, <1>6, <1>7, NatSetInduction, Zenon
<1>9. v[Len(r)] = u[Shifted(i, Len(r))]
  BY <1>2, <1>8
<1>10. u[Shifted(i, Len(r))] = u[Len(s)]
  BY <1>2, <1>5 DEF Shifted
<1> QED
  BY <1>1, <1>3, <1>4, <1>9, <1>10

\* The i-th element is chosen, none before it is.
Leads(i, I) == i \in I /\ I \cap (1 .. i - 1) = {}

\* The first of the elements chosen leaves the list.
LEMMA ChosenRemoveFirst ==
    ASSUME NEW S, NEW s \in Seq(S), NEW i \in 1 .. Len(s), NEW I, NEW J,
           MoveUp(Len(s), i, I, J),
           Leads(i, I)
    PROVE  /\ Chosen(s, I) # <<>>
           /\ Head(Chosen(s, I)) = s[i]
           /\ Tail(Chosen(s, I)) = Chosen(RemoveAt(s, i), J)
<1> USE DEF MoveUp, Leads
<1>1. PICK r \in Seq(S) : r = RemoveAt(s, i)
  BY RemoveAtFacts
<1>2. /\ Len(r) = Len(s) - 1 /\ Len(s) \in Nat /\ Len(r) \in Nat
      /\ \A n \in 1 .. Len(s) - 1 : r[n] = s[Shifted(i, n)]
  <2>1. /\ Len(r) = Len(s) - 1
        /\ \A n \in 1 .. Len(s) - 1 : r[n] = IF n < i THEN s[n] ELSE s[n + 1]
    BY <1>1, RemoveAtFacts, Zenon
  <2>2. Len(s) \in Nat /\ Len(r) \in Nat
    OBVIOUS
  <2> QED
    BY <2>1, <2>2 DEF Shifted
<1>3. PICK u : ChoosesBy(s, I, u) /\ u[Len(s)] = Chosen(s, I)
  BY ChosenExists
<1>4. PICK v : ChoosesBy(r, J, v) /\ v[Len(r)] = Chosen(r, J)
  BY ChosenExists
<1> DEFINE Before(n) == u[n] = <<>> /\ v[n] = <<>>
           After(n) == /\ u[n] \in Seq(S) /\ u[n] # <<>>
                       /\ Head(u[n]) = s[i] /\ Tail(u[n]) = v[n - 1]
           G == {n \in Nat : n <= Len(s) => IF n < i THEN Before(n) ELSE After(n)}
<1>5. 0 \in G
  BY <1>3, <1>4 DEF ChoosesBy
<1>6. ASSUME NEW n \in Nat, n \in G PROVE n + 1 \in G
  <2> SUFFICES ASSUME n + 1 <= Len(s)
               PROVE  IF n + 1 < i THEN Before(n + 1) ELSE After(n + 1)
    OBVIOUS
  <2>1. n + 1 \in 1 .. Len(s) /\ (n + 1) - 1 = n /\ n <= Len(s) /\ s[n + 1] \in S
    BY <1>2
  <2>2. IF n < i THEN Before(n) ELSE After(n)
    BY <1>6, <2>1
  <2>3. u[n + 1] = IF n + 1 \in I THEN Append(u[n], s[n + 1]) ELSE u[n]
    BY <1>3, <2>1, Zenon DEF ChoosesBy
  <2>4. CASE n + 1 < i
    <3>1. n + 1 \in 1 .. Len(r) /\ n + 1 \in 1 .. i - 1 /\ n < i /\ Shifted(i, n + 1) = n + 1
      BY <1>2, <2>4 DEF Shifted
    <3>2. n + 1 \notin I /\ n + 1 \notin J
      BY <1>2, <3>1
    <3>3. v[n + 1] = v[n]
      BY <1>4, <2>1, <3>1, <3>2, Zenon DEF ChoosesBy
    <3> QED
      BY <2>2, <2>3, <2>4, <3>1, <3>2, <3>3
  <2>5. CASE n + 1 = i
    <3>1. u[n] = <<>> /\ v[n] = <<>>
      BY <2>2, <2>5
    <3>2. u[n + 1] = Append(<<>>, s[i])
      BY <2>3, <2>5, <3>1
    <3>3. <<>> \in Seq(S) /\ s[i] \in S
      BY <2>1, <2>5
    <3>4. /\ Append(<<>>, s[i]) \in Seq(S) /\ Append(<<>>, s[i]) # <<>>
          /\ Head(Append(<<>>, s[i])) = s[i] /\ Tail(Append(<<>>, s[i])) = <<>>
      BY <3>3, AppendPlaces, AppendHeadTail
    <3>5. After(n + 1)
      BY <2>1, <3>1, <3>2, <3>4
    <3> QED
      BY <2>5, <3>5
  <2>6. CASE n + 1 > i
    <3>1. After(n) /\ n \in 1 .. Len(r) /\ Shifted(i, n) = n + 1
      BY <1>2, <2>1, <2>2, <2>6 DEF Shifted
    <3>2. v[n] = IF n + 1 \in I THEN Append(v[n - 1], s[n + 1]) ELSE v[n - 1]
      BY <1>2, <1>4, <3>1, Zenon DEF ChoosesBy
    <3>3. CASE n + 1 \notin I
      BY <2>1, <2>3, <2>6, <3>1, <3>2, <3>3
    <3>4. CASE n + 1 \in I
      <4>1. PICK t \in Seq(S) : t = u[n]
        BY <3>1
      <4>2. /\ Append(t, s[n + 1]) \in Seq(S) /\ Append(t, s[n + 1]) # <<>>
            /\ Head(Append(t, s[n + 1])) = Head(t)
            /\ Tail(Append(t, s[n + 1])) = Append(Tail(t), s[n + 1])
        <5>1. t # <<>> /\ s[n + 1] \in S
          BY <2>1, <3>1, <4>1
        <5>2. PICK e \in S : e = s[n + 1]
          BY <5>1
        <5>3. Append(t, e) \in Seq(S) /\ Append(t, e) # <<>>
          BY AppendPlaces
        <5>4. Head(Append(t, e)) = Head(t) /\ Tail(Append(t, e)) = Append(Tail(t), e)
          BY <5>1, AppendHeadTail
        <5> QED
          BY <5>2, <5>3, <5>4, Zenon
      <4>3. u[n + 1] = Append(t, s[n + 1]) /\ v[n] = Append(Tail(t), s[n + 1])
        BY <2>3, <3>1, <3>2, <3>4, <4>1, Zenon
      <4>4. After(n + 1)
        BY <2>1, <3>1, <4>1, <4>2, <4>3, Zenon
      <4> QED
        BY <2>6, <4>4
    <3> QED
      BY <3>3, <3>4
  <2> QED
    BY <2>4, <2>5, <2>6
<1>7. Len(s) \in G
  BY <1>2, <1>5, <1>6, NatSetInduction, Zenon
<1>8. After(Len(s))
  BY <1>2, <1>7
<1> QED
  BY <1>1, <1>2, <1>3, <1>4, <1>8

\* All of a list is chosen.
LEMMA ChosenAll ==
    ASSUME NEW S, NEW s \in Seq(S), NEW I, \A n \in 1 .. Len(s) : n \in I
    PROVE  Chosen(s, I) = s
<1>1. PICK u : ChoosesBy(s, I, u) /\ u[Len(s)] = Chosen(s, I)
  BY ChosenExists
<1>0. Len(s) \in Nat /\ \A n \in 1 .. Len(s) : s[n] \in S
  OBVIOUS
<1> DEFINE G == {n \in Nat : n <= Len(s) => /\ u[n] \in Seq(S) /\ Len(u[n]) = n
                                            /\ \A k \in 1 .. n : u[n][k] = s[k]}
<1>2. 0 \in G
  BY <1>1 DEF ChoosesBy
<1>3. ASSUME NEW n \in Nat, n \in G PROVE n + 1 \in G
  <2>1. CASE ~(n + 1 <= Len(s))
    BY <2>1
  <2>2. CASE n + 1 <= Len(s)
    <3>1. n + 1 \in 1 .. Len(s) /\ (n + 1) - 1 = n
      BY <1>0, <2>2
    <3>2. PICK v \in Seq(S) : v = u[n] /\ Len(v) = n /\ \A k \in 1 .. n : v[k] = s[k]
      BY <1>0, <1>3, <2>2
    <3>3. u[n + 1] = Append(v, s[n + 1])
      BY <1>1, <3>1, <3>2, Zenon DEF ChoosesBy
    <3>4. PICK e \in S : e = s[n + 1]
      BY <1>0, <3>1
    <3>5. /\ u[n + 1] \in Seq(S) /\ Len(u[n + 1]) = n + 1
          /\ \A k \in 1 .. n : u[n + 1][k] = v[k]
          /\ u[n + 1][n + 1] = e
      BY <3>2, <3>3, <3>4, AppendPlaces
    <3>6. \A k \in 1 .. n + 1 : u[n + 1][k] = s[k]
      <4>1. \A k \in 1 .. n + 1 : k \in 1 .. n \/ k = n + 1
        OBVIOUS
      <4> QED
        BY <3>2, <3>4, <3>5, <4>1
    <3> QED
      BY <3>5, <3>6
  <2> QED
    BY <2>1, <2>2
<1>4. Len(s) \in G
  BY <1>0, <1>2, <1>3, NatSetInduction, Zenon
<1>5. PICK t \in Seq(S) : t = Chosen(s, I) /\ Len(t) = Len(s) /\ \A k \in 1 .. Len(s) : t[k] = s[k]
  BY <1>0, <1>1, <1>4
<1>6. t = s
  BY <1>5, SameList
<1> QED
  BY <1>5, <1>6

\* From a list without duplicates, removing the first e leaves what is not e.
LEMMA RemoveFirstExcludes ==
    ASSUME NEW S, NEW s \in Seq(S), NEW e, IsInjective(s)
    PROVE  RemoveFirst(s, e) = Excluding(s, {e})
<1>0. PICK I : I = {i \in DOMAIN s : s[i] \notin {e}}
  BY Zenon
<1>1. Excluding(s, {e}) = Chosen(s, I)
  BY <1>0 DEF Excluding
<1>2. DOMAIN s = 1 .. Len(s) /\ Len(s) \in Nat
  OBVIOUS
<1>3. CASE ~ \E i \in 1 .. Len(s) : s[i] = e
  <2>1. RemoveFirst(s, e) = s
    BY <1>3 DEF RemoveFirst
  <2>2. \A n \in 1 .. Len(s) : n \in I
    BY <1>0, <1>2, <1>3
  <2>3. Chosen(s, I) = s
    BY <2>2, ChosenAll
  <2> QED
    BY <1>1, <2>1, <2>3
<1>4. CASE \E i \in 1 .. Len(s) : s[i] = e
  <2>1. PICK i \in 1 .. Len(s) : s[i] = e /\ RemoveFirst(s, e) = RemoveAt(s, i)
    <3>1. PICK i \in 1 .. Len(s) : s[i] = e
      BY <1>4
    <3>2. {j \in DOMAIN s : s[j] = e} = {i}
      BY <3>1 DEF IsInjective
    <3>3. Min({i}) = i
      BY <3>1 DEF Min
    <3> QED
      BY <3>1, <3>2, <3>3, Zenon DEF RemoveFirst
  <2>2. PICK r \in Seq(S) : r = RemoveAt(s, i)
    BY RemoveAtFacts
  <2>3. Len(r) = Len(s) - 1
    BY <2>2, RemoveAtFacts
  <2>4. \A j \in 1 .. Len(s) : j \in I <=> j # i
    BY <1>0, <1>2, <2>1 DEF IsInjective
  <2>5. MoveUp(Len(s), i, I, 1 .. Len(r))
    <3>1. ASSUME NEW k \in 1 .. Len(s) - 1
          PROVE  k \in 1 .. Len(r) /\ Shifted(i, k) \in 1 .. Len(s) /\ Shifted(i, k) # i
      BY <1>2, <2>3 DEF Shifted
    <3> QED
      BY <2>4, <3>1 DEF MoveUp
  <2>6. i \notin I
    BY <2>4
  <2>7. Chosen(r, 1 .. Len(r)) = Chosen(s, I)
    BY <2>2, <2>5, <2>6, ChosenRemoveOther
  <2>8. Chosen(r, 1 .. Len(r)) = r
    BY ChosenAll
  <2> QED
    BY <1>1, <2>1, <2>2, <2>7, <2>8
<1> QED
  BY <1>3, <1>4

\* The list r is s without its i-th element, position by position.
LacksAt(s, i, r) ==
    /\ DOMAIN r \subseteq Nat
    /\ \A n \in DOMAIN r : /\ Shifted(i, n) \in DOMAIN s
                           /\ Shifted(i, n) # i
                           /\ r[n] = s[Shifted(i, n)]
    /\ \A m, n \in DOMAIN r : m < n <=> Shifted(i, m) < Shifted(i, n)
    /\ \A k \in DOMAIN s : k # i => \E n \in DOMAIN r : Shifted(i, n) = k

\* What an element's leaving does to the positions of the others.
LEMMA RemoveAtPlaces ==
    ASSUME NEW S, NEW s \in Seq(S), NEW i \in DOMAIN s, NEW r, r = RemoveAt(s, i)
    PROVE  r \in Seq(S) /\ DOMAIN r = 1 .. Len(s) - 1 /\ LacksAt(s, i, r)
<1>1. /\ DOMAIN s = 1 .. Len(s) /\ Len(s) \in Nat /\ i \in 1 .. Len(s)
      /\ r \in Seq(S)
      /\ Len(r) = Len(s) - 1
      /\ \A j \in 1 .. Len(s) - 1 : r[j] = IF j < i THEN s[j] ELSE s[j + 1]
  BY RemoveAtFacts
<1>2. DOMAIN r = 1 .. Len(s) - 1
  BY <1>1
<1>3. ASSUME NEW n \in DOMAIN r
      PROVE  Shifted(i, n) \in DOMAIN s /\ Shifted(i, n) # i /\ r[n] = s[Shifted(i, n)]
  BY <1>1, <1>2 DEF Shifted
<1>4. \A m, n \in DOMAIN r : m < n <=> Shifted(i, m) < Shifted(i, n)
  BY <1>1, <1>2 DEF Shifted
<1>5. ASSUME NEW k \in DOMAIN s, k # i PROVE \E n \in DOMAIN r : Shifted(i, n) = k
  <2>1. CASE k < i
    <3>1. k \in DOMAIN r /\ Shifted(i, k) = k
      BY <1>1, <1>2, <2>1 DEF Shifted
    <3> QED
      BY <3>1
  <2>2. CASE k > i
    <3>1. k - 1 \in DOMAIN r /\ Shifted(i, k - 1) = k
      BY <1>1, <1>2, <2>2 DEF Shifted
    <3> QED
      BY <3>1
  <2> QED
    BY <1>1, <1>5, <2>1, <2>2
<1>6. DOMAIN r \subseteq Nat
  BY <1>1, <1>2
<1>7. LacksAt(s, i, r)
  BY <1>3, <1>4, <1>5, <1>6, Zenon DEF LacksAt
<1> QED
  BY <1>1, <1>2, <1>7

\* The head leaves as any other element does.
LEMMA TailPlaces ==
    ASSUME NEW S, NEW s \in Seq(S), s # <<>>
    PROVE  1 \in DOMAIN s /\ Head(s) = s[1] /\ Tail(s) = RemoveAt(s, 1)
<1>1. PICK r : r = RemoveAt(s, 1)
  OBVIOUS
<1>2. PICK t : t = Tail(s)
  BY Zenon
<1>3. /\ t \in Seq(S) /\ Len(t) = Len(s) - 1 /\ Head(s) = s[1] /\ Len(s) \in Nat \ {0}
      /\ \A n \in 1 .. Len(s) - 1 : t[n] = s[n + 1]
  BY <1>2, HeadAndTail
<1>4. /\ r \in Seq(S) /\ Len(r) = Len(s) - 1
      /\ \A j \in 1 .. Len(s) - 1 : r[j] = IF j < 1 THEN s[j] ELSE s[j + 1]
  BY <1>1, <1>3, RemoveAtFacts
<1>5. t = r
  BY <1>3, <1>4, SameList
<1> QED
  BY <1>1, <1>2, <1>3, <1>5
=============================================================================
