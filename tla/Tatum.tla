-------------------------------- MODULE Tatum --------------------------------
(***************************************************************************)
(* One get_transactions call of the Bitcoin and Tron providers             *)
(* (providers/bitcoin.py, providers/tron.py): pages are fetched until the  *)
(* limit is reached or the service has no more, by offset for Bitcoin and  *)
(* by cursor for Tron, each page with one retry after HTTP 429; then the   *)
(* rows are sorted, filtered and cut to the limit.  The service (Tatum) is *)
(* outside the repository: Tron asks for the oldest rows first; in which   *)
(* order Bitcoin's are listed the code does not say, so both are modelled. *)
(* Its list grows while the call runs.                                     *)
(***************************************************************************)
EXTENDS SequencesExt, Sorting

CONSTANTS
    Height,         \* rows the address has in the end; row r has timestamp r,
    Undated,        \* unless it has none
    PageSize,       \* 50 in the code
    Limits, Starts, Ends,   \* what the caller may ask for; a start of 0 is none
    Replies         \* what the service may answer besides a page

ASSUME TatumConstantsOK ==
    /\ Height \in Nat /\ Undated \subseteq 1 .. Height /\ PageSize \in Nat \ {0}
    /\ Limits \cup Starts \cup Ends \subseteq Nat
    /\ Replies \subseteq {"limited", "refused", "odd"}

VARIABLES
    ask,        \* the provider's chain, and the caller's limit and window
    newestFirst, \* the order in which the service lists the rows
    listed,     \* the service has rows 1 .. listed
    began,      \* listed when the call began
    place,      \* offset of the next page, or rows before the cursor
    attempt,    \* attempts made on the page
    rows,       \* rows fetched so far
    outcome,    \* "open", "fetched", "failed" (ProviderError) or "answered"
    answer,
    odd         \* history: some reply was not of the expected shape

given == <<ask, newestFirst>>
vars == <<given, listed, began, place, attempt, rows, outcome, answer, odd>>

Asked == [chain : {"bitcoin", "tron"}, limit : Limits, from : Starts, till : Ends]

\* Pages are asked for by cursor (Tron) or by offset (Bitcoin).
ByCursor == ask.chain = "tron"

Lesser(m, n) == IF m < n THEN m ELSE n

-----------------------------------------------------------------------------
(* The service. *)

Listing == [i \in 1 .. listed |-> IF newestFirst THEN listed + 1 - i ELSE i]

\* min(PageSize, ask.limit) rows of the listing.
Batch == SubSeq(Listing, place + 1, Lesser(place + Lesser(PageSize, ask.limit), listed))

\* No next cursor comes with the last page.
HasNext == place + Len(Batch) < listed

Grow ==
    /\ listed < Height
    /\ listed' = listed + 1
    /\ UNCHANGED <<given, began, place, attempt, rows, outcome, answer, odd>>

-----------------------------------------------------------------------------
(* The call. *)

Init ==
    /\ ask \in Asked
    /\ newestFirst \in (IF ByCursor THEN {FALSE} ELSE BOOLEAN)
    /\ listed \in 0 .. Height /\ began = listed
    /\ place = 0 /\ attempt = 0 /\ rows = <<>>
    /\ outcome = "open" /\ answer = <<>> /\ odd = FALSE

Asking == outcome = "open" /\ Len(rows) < ask.limit

\* Mutant: a full page ends the loop too.
LastIfFull(batch) ==
    batch = <<>> \/ (IF ByCursor THEN ~HasNext ELSE Len(batch) <= PageSize)

\* The loop breaks after this page.
IsLast(batch) ==
    batch = <<>> \/ (IF ByCursor THEN ~HasNext ELSE Len(batch) < PageSize)

\* Mutant: the next offset is one row past a full page, however much the page held.
FetchBehind ==
    /\ Asking
    /\ rows' = rows \o Batch /\ attempt' = 0
    /\ place' = place + PageSize + 1
    /\ outcome' = IF IsLast(Batch) THEN "fetched" ELSE "open"
    /\ UNCHANGED <<given, listed, began, answer, odd>>

Fetch ==
    /\ Asking
    /\ rows' = rows \o Batch /\ attempt' = 0
    /\ place' = place + Len(Batch)
    /\ outcome' = IF IsLast(Batch) THEN "fetched" ELSE "open"
    /\ UNCHANGED <<given, listed, began, answer, odd>>

\* A body of another shape ends the loop with what there is; Tron takes the
\* rows of a bare list first.
FetchOdd ==
    /\ Asking /\ "odd" \in Replies
    /\ rows' = rows \/ (ByCursor /\ rows' = rows \o Batch)
    /\ outcome' = "fetched" /\ odd' = TRUE
    /\ UNCHANGED <<given, listed, began, place, attempt, answer>>

Raise ==
    /\ outcome' = "failed"
    /\ UNCHANGED <<given, listed, began, place, attempt, rows, answer, odd>>

\* HTTP 429 is tried again once, a second later.
Limited ==
    /\ Asking /\ "limited" \in Replies
    /\ IF attempt = 0
       THEN attempt' = 1 /\ UNCHANGED <<given, listed, began, place, rows, outcome, answer, odd>>
       ELSE Raise

\* Any other HTTP error, no connection, no JSON, no API key.
Fail == Asking /\ "refused" \in Replies /\ Raise

\* block_timestamp, or datetime.min in its place.
Stamp(r) == IF r \in Undated THEN 0 ELSE r

AfterStart(r) == ask.from = 0 \/ (IF ByCursor THEN r > ask.from ELSE r >= ask.from)

\* A row without a timestamp is in every window.
InWindow(r) == r \in Undated \/ (AfterStart(r) /\ r <= ask.till)

\* The rows are sorted; those of the window are kept, and cut to the limit.
Answer(s) ==
    LET kept == {i \in DOMAIN s : InWindow(s[i])}
        best == Leading(kept, [i \in kept |-> Stamp(s[i])], ask.limit)
    IN  [k \in DOMAIN best |-> s[best[k]]]

Finish ==
    /\ outcome = "fetched" \/ (outcome = "open" /\ Len(rows) >= ask.limit)
    /\ outcome' = "answered" /\ answer' = Answer(rows)
    /\ UNCHANGED <<given, listed, began, place, attempt, rows, odd>>

Call == Fetch \/ FetchOdd \/ Limited \/ Fail \/ Finish

Next == Call \/ Grow

Spec == Init /\ [][Next]_vars

\* Every request is answered or times out (10 s), and the event loop resumes the call.
FairSpec == Spec /\ WF_vars(Call)

-----------------------------------------------------------------------------
(* Properties. *)

\* Type invariant; the loop never holds a page more than it needs.
TypeOK ==
    /\ ask \in Asked /\ newestFirst \in BOOLEAN
    /\ began \in 0 .. listed /\ listed \in 0 .. Height
    /\ place \in 0 .. listed /\ attempt \in {0, 1}
    /\ ToSet(rows) \subseteq 1 .. listed /\ ToSet(answer) \subseteq ToSet(rows)
    /\ Len(rows) < ask.limit + PageSize
    /\ outcome \in {"open", "fetched", "failed", "answered"} /\ odd \in BOOLEAN

\* The pages leave no gap between them, though the list grows while they are
\* fetched: a row that was listed when the call began and lies between two
\* fetched ones was fetched.  (Newest first, rows that come in between shift the
\* offsets: then a row is fetched twice, but none of these is lost.)
PagesLeaveNoGap ==
    \A r, q \in ToSet(rows) : (r .. q) \cap (1 .. began) \subseteq ToSet(rows)

\* The rows a caller may count on: dated ones.  Rows before the start are fetched
\* before they are dropped, and newest first so are those after the end: then
\* nothing is owed.
Owed ==
    IF ask.from # 0 \/ (newestFirst /\ ask.till < Height) THEN {}
    ELSE {r \in 1 .. began : r \notin Undated /\ r <= ask.till}

Promised == INSTANCE History WITH
              Time    <- [r \in 1 .. Height |-> Stamp(r)],
              limit   <- ask.limit,
              wanted  <- {r \in 1 .. Height : InWindow(r)},
              owed    <- Owed,
              oldest  <- ~newestFirst,
              listed  <- 1 .. listed,
              outcome <- IF outcome = "fetched" THEN "open"
                         ELSE IF outcome = "answered" /\ odd THEN "garbled" ELSE outcome

\* The call keeps the promise of get_transactions: it ends, an answer shorter than
\* the limit holds all that was listed when it began, and a full one is the
\* beginning of the history if the service lists the oldest rows first, though
\* pages are read one by one while the list grows.
PromiseKept == Promised!Spec

==============================================================================
