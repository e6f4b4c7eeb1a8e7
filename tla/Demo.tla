---------------------------------- MODULE Demo ----------------------------------
(***************************************************************************)
(* The demo provider's answers from its dataset (providers/demo.py).  The  *)
(* rows of the JSON files, in the order of the file, are indexed by        *)
(* address and chain, once for each end of a transfer; a query takes the   *)
(* list of its address, and goes through the lists of the other chains too.*)
(* A list is the set of its rows' places in the file, which order it.      *)
(***************************************************************************)
EXTENDS Sorting, SequencesExt

CONSTANTS
    DemoAddress,    \* addresses, and NoAddress for a missing end
    NoAddress,
    DemoChain       \* chains of the dataset

NoTime == 0         \* block_timestamp = None; it sorts before every time

DemoRow == [chain : DemoChain, from : DemoAddress \cup {NoAddress},
            to : DemoAddress \cup {NoAddress}, time : Nat]

ASSUME DemoConstantsOK == NoAddress \notin DemoAddress

\* Row i is filed at 2i - 1 under its sender and at 2i under its recipient, if they
\* are not missing; a self-transfer twice under one address.
RowAt(dataset, k) == dataset[(k + 1) \div 2]

EndAt(dataset, k) ==
    IF k % 2 = 1 THEN RowAt(dataset, k).from ELSE RowAt(dataset, k).to

Filed(dataset) == {k \in 1 .. 2 * Len(dataset) : EndAt(dataset, k) # NoAddress}

\* tx_by_address[a, c]
Indexed(dataset, a, c) ==
    {k \in Filed(dataset) : EndAt(dataset, k) = a /\ RowAt(dataset, k).chain = c}

\* Both ends of the window are included; 0 is none.
Inside(row, from, till) ==
    row.time = NoTime \/ ((from = 0 \/ row.time >= from) /\ (till = 0 \/ row.time <= till))

\* What the list of the address, and its lists for the other chains, have of this
\* chain and within the window.
Kept(dataset, a, c, from, till) ==
    {k \in UNION {Indexed(dataset, a, chain) : chain \in DemoChain} :
       RowAt(dataset, k).chain = c /\ Inside(RowAt(dataset, k), from, till)}

TimeOf(dataset) == [k \in 1 .. 2 * Len(dataset) |-> RowAt(dataset, k).time]

RowsAt(dataset, places) == [i \in DOMAIN places |-> RowAt(dataset, places[i])]

\* Mutant: the answer ends at the limit, as it came from the file.
QueryAsFiled(dataset, a, c, from, till, limit) ==
    LET kept == Kept(dataset, a, c, from, till)
        filed == Leading(kept, [k \in kept |-> k], limit)
    IN  RowsAt(dataset, Leading(Range(filed), TimeOf(dataset), limit))

\* get_transactions.  value.sort and out.sort, by block_timestamp or datetime.min,
\* are both stable: rows of one time stay as they were filed.
Query(dataset, a, c, from, till, limit) ==
    RowsAt(dataset, Leading(Kept(dataset, a, c, from, till), TimeOf(dataset), limit))

\* healthcheck: bool(self._dataset.transactions)
Loaded(dataset) == dataset # <<>>

================================================================================
