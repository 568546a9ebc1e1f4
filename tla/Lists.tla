-------------------------------- MODULE Lists --------------------------------
(***************************************************************************)
(* The operations on the lists of libacfutils: appending is Append, and    *)
(* what list_remove leaves, of one element or while walking a list.  The   *)
(* elements a walk keeps are given by a recursive function of positions,   *)
(* so that ListLemmas can reason about them.                               *)
(***************************************************************************)
EXTENDS Sequences, FiniteSetsExt

\* The element at the end of s.
Last(s) == s[Len(s)]

\* t begins with s.
IsPrefix(s, t) == Len(s) <= Len(t) /\ \A k \in DOMAIN s : t[k] = s[k]

\* s without the element at position i.
RemoveAt(s, i) == SubSeq(s, 1, i - 1) \o SubSeq(s, i + 1, Len(s))

\* s without the first of its elements that is e, if there is one.
RemoveFirst(s, e) ==
    LET at == {i \in DOMAIN s : s[i] = e}
    IN  IF at = {} THEN s ELSE RemoveAt(s, Min(at))

\* The elements of s at the positions I, in their order.
Chosen(s, I) ==
    LET upto[n \in 0 .. Len(s)] ==
            IF n = 0 THEN <<>>
            ELSE IF n \in I THEN Append(upto[n - 1], s[n])
            ELSE upto[n - 1]
    IN  upto[Len(s)]

\* What is left of s without the elements of es.
Excluding(s, es) == Chosen(s, {i \in DOMAIN s : s[i] \notin es})

\* The lists of all elements of the finite set S, each once.
Arrangements(S) == Injection(1 .. Cardinality(S), S)
=============================================================================
