----------------------------- MODULE MCAccounts -----------------------------
(* Instances of Accounts for TLC: an administrator, an investigator and, when *)
(* accounts are created, room for one more.                                   *)
EXTENDS Accounts, TLC

Person(email, role) ==
    [email |-> email, password |-> "old", role |-> role, active |-> TRUE, version |-> 0]

\* a runs the system, u uses it.
MCFounders ==
    [id \in Id |-> CASE id = "a" -> Person("a@x", "admin")
                     [] id = "u" -> Person("u@x", "investigator")
                     [] OTHER -> Absent]

\* The same when one change is left to a within the bound, and all to u.
MCSeasoned ==
    [id \in Id |-> IF id = "a" THEN [MCFounders[id] EXCEPT !.version = MaxVersion - 1]
                  ELSE MCFounders[id]]

\* u alone.
MCAlone == [id \in Id |-> Person("u@x", "investigator")]

\* Requests are interchangeable, and so are reset tokens.
MCSymmetry == Permutations(Request) \cup Permutations(Reset)

\* Reset tokens are interchangeable: one order of issue stands for the others.
\* (Liveness forbids declaring the symmetry.)
MCOrder == CHOOSE f \in [Reset -> 1..Cardinality(Reset)] : \A t, u \in Reset : f[t] = f[u] => t = u

MCIssuedInOrder ==
    \A t, u \in Reset : MCOrder[t] < MCOrder[u] /\ resets[u] # Absent => resets[t] # Absent

=============================================================================
