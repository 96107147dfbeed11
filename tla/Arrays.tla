------------------------------- MODULE Arrays -------------------------------
(***************************************************************************)
(* The two methods of arrays whose order the code relies on: filter, and   *)
(* sort with a comparison of keys.  An entry's place in the result is the  *)
(* number of entries that come before it, so no definition is recursive    *)
(* and proofs can speak of the results.                                    *)
(***************************************************************************)
EXTENDS Integers, Sequences, FiniteSets

\* R, a set of pairs, is a total order on S.
IsTotalOrder(S, R) ==
    /\ \A x \in S : <<x, x>> \in R
    /\ \A x, y \in S : <<x, y>> \in R \/ <<y, x>> \in R
    /\ \A x, y \in S : <<x, y>> \in R /\ <<y, x>> \in R => x = y
    /\ \A x, y, z \in S : <<x, y>> \in R /\ <<y, z>> \in R => <<x, z>> \in R

UpTo(S, R, x) == {y \in S : <<y, x>> \in R}

\* The members of S, first to last in the order R.
InOrder(S, R) ==
    [k \in 1..Cardinality(S) |-> CHOOSE x \in S : Cardinality(UpTo(S, R, x)) = k]

Upwards(P) == {p \in P \X P : p[1] <= p[2]}

\* s.filter(...) when P are the positions that pass.
Filtered(s, P) ==
    LET at == InOrder(P, Upwards(P)) IN [k \in DOMAIN at |-> s[at[k]]]

\* The positions by their keys, and those of equal keys as they stand.
ByKey(key) ==
    {p \in (DOMAIN key) \X (DOMAIN key) :
        key[p[1]] < key[p[2]] \/ (key[p[1]] = key[p[2]] /\ p[1] <= p[2])}

\* s.sort((a, b) => a.key - b.key) when key has the keys of the entries.
Sorted(s, key) ==
    LET at == InOrder(DOMAIN key, ByKey(key)) IN [k \in DOMAIN at |-> s[at[k]]]
=============================================================================
