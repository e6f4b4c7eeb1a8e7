------------------------------ MODULE Canonical ------------------------------
(***************************************************************************)
(* The conversion of one upstream row, whatever the row is: what the       *)
(* search of run_discovery sees of it.  The upstreams are outside the      *)
(* repository; their rows are inputs.                                      *)
(***************************************************************************)
EXTENDS Rows

CONSTANT
    Queried         \* the address asked about

ASSUME CanonicalConstantsOK ==
    /\ Queried \in Party /\ Nobody \notin Party
    /\ Sats \subseteq Nat /\ Many \in Nat

VARIABLES
    row,        \* the upstream row
    tx          \* the CanonicalTransaction it becomes, <<>> before

vars == <<row, tx>>

Init == row \in Row /\ tx = <<>>

Convert == tx = <<>> /\ tx' = ToCanonical(row, Queried) /\ UNCHANGED row

Next == Convert

Spec == Init /\ [][Next]_vars

Converted == tx # <<>>

-----------------------------------------------------------------------------
(* Properties. *)

\* A hop that the search follows joins an address that paid in the transaction to
\* one that was paid in it, whatever inputs, outputs and change it has.
HopsAreReal ==
    Converted /\ IsHop(tx, Queried) => tx.from \in Payers(row) /\ tx.to \in Payees(row)

\* What the queried address paid for is never shown as income: if it is among the
\* inputs of a Bitcoin transaction with a value, the transaction leaves it, and
\* change does not make the transaction a receipt.
SpendingIsNotIncome ==
    Converted /\ row.chain = "bitcoin" /\ ValueOf(row.ins, Queried) > 0 =>
      tx.from = Queried /\ tx.to # Queried

==============================================================================
