-------------------------------- MODULE Sorting --------------------------------
(***************************************************************************)
(* Python's sorted(), list.sort() and the slice [:n] after them, as used   *)
(* by filtering.py, ranking.py and the providers.                          *)
(***************************************************************************)
EXTENDS Integers, FiniteSets

\* The elements of the finite set S in the strict order R.
Ordering(S, R) ==
    LET place(i) == Cardinality({j \in S : j = i \/ <<j, i>> \in R})
    IN  [k \in 1 .. Cardinality(S) |-> CHOOSE i \in S : place(i) = k]

\* The order of the positions in S by key, ties in the order they have (a stable
\* sort).
ByKey(S, key) ==
    {p \in S \X S : key[p[1]] < key[p[2]] \/ (key[p[1]] = key[p[2]] /\ p[1] < p[2])}

\* The first n positions in S by key, all of them if there are no more.
Leading(S, key, n) ==
    LET order == Ordering(S, ByKey(S, key))
    IN  [k \in {k \in DOMAIN order : k <= n} |-> order[k]]

================================================================================
