------------------------------- MODULE Explorer -------------------------------
(***************************************************************************)
(* One get_transactions call of the Ethereum and BNB Chain providers       *)
(* (providers/ethereum.py, providers/bnb.py): three lists of the block     *)
(* explorer are read one after the other, each with one retry after a rate *)
(* limit, and merged, sorted, filtered and cut to the limit.  The explorer *)
(* is outside the repository: it lists the oldest rows first, one page of  *)
(* them is asked for, and its lists grow while the call runs.              *)
(***************************************************************************)
EXTENDS SequencesExt, Sorting

CONSTANTS
    Ledger,         \* the address's rows, in the order the explorer lists them
    Offset,         \* rows of the page, 1000 in the code
    Limits, Starts, Ends,   \* what the caller may ask for; a start of 0 is none
    Replies         \* what the explorer may answer besides rows

NoStamp == 0            \* a row without a readable timestamp
Kinds == <<"normal", "token", "internal">>
Row == DOMAIN Ledger

ASSUME ExplorerConstantsOK ==
    /\ Ledger \in Seq([kind : ToSet(Kinds), stamp : Nat])
    /\ \A r, s \in Row : r < s /\ Ledger[r].stamp # NoStamp /\ Ledger[s].stamp # NoStamp
                           => Ledger[r].stamp <= Ledger[s].stamp
    /\ Offset \in Nat \ {0} /\ Limits \cup Starts \cup Ends \subseteq Nat
    /\ Replies \subseteq {"limited", "error", "unreachable", "odd"}

VARIABLES
    ask,        \* the provider's chain, and the caller's limit and window
    listed,     \* the explorer has rows 1 .. listed
    began,      \* listed when the call began
    turn,       \* index in Kinds of the list being read
    attempt,    \* attempts made on it
    got,        \* rows read so far, in the order of txs.extend
    outcome,    \* "open", "failed" (ProviderError) or "answered"
    answer,
    odd         \* history: some reply had status 1 and no list

vars == <<ask, listed, began, turn, attempt, got, outcome, answer, odd>>

Asked == [chain : {"ethereum", "bnb"}, limit : Limits, from : Starts, till : Ends]

Stamp(r) == Ledger[r].stamp

-----------------------------------------------------------------------------
(* The explorer. *)

\* Page 1 of a list, oldest rows first.
Page(kind) ==
    LET rows == {r \in 1 .. listed : Ledger[r].kind = kind}
    IN  Leading(rows, [r \in rows |-> r], Offset)

Grow ==
    /\ listed < Len(Ledger)
    /\ listed' = listed + 1
    /\ UNCHANGED <<ask, began, turn, attempt, got, outcome, answer, odd>>

-----------------------------------------------------------------------------
(* The answer. *)

\* BNB Chain excludes the start, Ethereum includes it.
AfterStart(r) ==
    \/ ask.from = 0
    \/ ask.chain = "ethereum" /\ Stamp(r) >= ask.from
    \/ ask.chain = "bnb" /\ Stamp(r) > ask.from

InWindow(r) == Stamp(r) = NoStamp \/ (AfterStart(r) /\ Stamp(r) <= ask.till)

\* A stable sort by time, a row without one first; then the rows of the window are
\* kept and cut to the limit.
Answer(s) ==
    LET kept == {i \in DOMAIN s : InWindow(s[i])}
        best == Leading(kept, [i \in kept |-> Stamp(s[i])], ask.limit)
    IN  [k \in DOMAIN best |-> s[best[k]]]

-----------------------------------------------------------------------------
(* The call. *)

Init ==
    /\ ask \in Asked
    /\ listed \in 0 .. Len(Ledger) /\ began = listed
    /\ turn = 1 /\ attempt = 0 /\ got = <<>>
    /\ outcome = "open" /\ answer = <<>> /\ odd = FALSE

Asking == outcome = "open" /\ turn <= Len(Kinds)

\* The list returns rows: go on to the next one.
Take(rows) ==
    /\ got' = got \o rows
    /\ turn' = turn + 1 /\ attempt' = 0
    /\ UNCHANGED <<ask, listed, began, outcome, answer>>

\* The page, or "no transactions found".
Receive == Asking /\ Take(Page(Kinds[turn])) /\ UNCHANGED odd

\* Status 1 and a result that is no list counts as an empty list.
ReceiveOdd == Asking /\ "odd" \in Replies /\ Take(<<>>) /\ odd' = TRUE

Raise ==
    /\ outcome' = "failed"
    /\ UNCHANGED <<ask, listed, began, turn, attempt, got, answer, odd>>

\* Mutant: a second rate limit starts the attempts over.
LimitedForever ==
    /\ Asking /\ "limited" \in Replies
    /\ attempt' = 1 - attempt
    /\ UNCHANGED <<ask, listed, began, turn, got, outcome, answer, odd>>

\* Mutant: the retry is itself retried.
LimitedTwice ==
    /\ Asking /\ "limited" \in Replies
    /\ IF attempt <= 1
       THEN attempt' = attempt + 1 /\ UNCHANGED <<ask, listed, began, turn, got, outcome, answer, odd>>
       ELSE Raise

\* A rate limit, or any "NOTOK", is tried again once, a second later.
Limited ==
    /\ Asking /\ "limited" \in Replies
    /\ IF attempt = 0
       THEN attempt' = 1 /\ UNCHANGED <<ask, listed, began, turn, got, outcome, answer, odd>>
       ELSE Raise

Fail == Asking /\ Replies \cap {"error", "unreachable"} # {} /\ Raise

Finish ==
    /\ outcome = "open" /\ turn > Len(Kinds)
    /\ outcome' = "answered" /\ answer' = Answer(got)
    /\ UNCHANGED <<ask, listed, began, turn, attempt, got, odd>>

Call == Receive \/ ReceiveOdd \/ Limited \/ Fail \/ Finish

Next == Call \/ Grow

Spec == Init /\ [][Next]_vars

\* Every request is answered or times out (10 s), and the event loop resumes the call.
FairSpec == Spec /\ WF_vars(Call)

-----------------------------------------------------------------------------
(* Properties. *)

\* Type invariant; an attempt beyond the second is never made.
TypeOK ==
    /\ ask \in Asked
    /\ began \in 0 .. listed /\ listed \in 0 .. Len(Ledger)
    /\ turn \in 1 .. Len(Kinds) + 1 /\ attempt \in {0, 1}
    /\ ToSet(got) \subseteq 1 .. listed /\ ToSet(answer) \subseteq ToSet(got)
    /\ outcome \in {"open", "failed", "answered"} /\ odd \in BOOLEAN

\* r is on the first page of its list, as it was when the call began.
OnFirstPage(r) == Cardinality({q \in 1 .. r : Ledger[q].kind = Ledger[r].kind}) <= Offset

\* The rows a caller may count on: those of the window on the first pages, or of
\* the whole history when the limit is at most a page and there is no start.
Owed ==
    {r \in 1 .. began :
       Stamp(r) # NoStamp /\ InWindow(r) /\ (OnFirstPage(r) \/ (ask.limit <= Offset /\ ask.from = 0))}

Promised == INSTANCE History WITH
              Time    <- [r \in Row |-> Stamp(r)],
              limit   <- ask.limit,
              wanted  <- {r \in Row : InWindow(r)},
              owed    <- Owed,
              oldest  <- TRUE,
              listed  <- 1 .. listed,
              outcome <- IF outcome = "answered" /\ odd THEN "garbled" ELSE outcome

\* The call keeps the promise of get_transactions: it ends, and its answer is the
\* beginning of what was asked for, though three lists were read at three times
\* while new rows came in, and each may have been read twice.
PromiseKept == Promised!Spec

==============================================================================
