-------------------------------- MODULE History --------------------------------
(***************************************************************************)
(* What one get_transactions call of a live provider promises its caller,  *)
(* whichever upstream it pages through: the call fails or answers, once;   *)
(* an answer is in order of time and within what was asked for; and a row  *)
(* the caller may count on is left out only when the answer is full.       *)
(* Explorer and Tatum implement this; LiveSearch relies on nothing else.   *)
(***************************************************************************)
EXTENDS Integers, Sequences

CONSTANTS
    Time           \* the time of each row, 0 if it has none

VARIABLES
    limit,          \* most rows of an answer
    wanted,         \* the rows of the address and the window asked for
    owed,           \* those the caller may count on
    oldest,         \* must a full answer be the oldest rows owed?
    listed,         \* the rows the upstream has
    outcome,        \* "open", "answered", "failed"; "garbled" if a reply of an
                    \* unexpected shape has ended the reading early
    answer

terms == <<limit, wanted, owed, oldest>>
vars == <<terms, listed, outcome, answer>>

Rows(s) == {s[i] : i \in DOMAIN s}

\* What was listed before the call is owed, not what came in since.
Init ==
    /\ owed \subseteq listed \cap wanted
    /\ outcome = "open" /\ answer = <<>>

\* Blocks are added, also while the call is open.
Grow ==
    /\ listed \subseteq listed'
    /\ UNCHANGED <<terms, outcome, answer>>

Sound(s) ==
    /\ Rows(s) \subseteq listed \cap wanted
    /\ Len(s) <= limit
    /\ \A i \in 1 .. Len(s) - 1 : Time[s[i]] <= Time[s[i + 1]]

Complete(s) ==
    \A r \in owed \ Rows(s) :
      /\ Len(s) = limit
      /\ oldest => \A q \in Rows(s) : Time[q] <= Time[r]

End ==
    /\ outcome = "open"
    /\ \/ outcome' = "answered" /\ Sound(answer') /\ Complete(answer')
       \/ outcome' = "garbled" /\ Sound(answer')
       \/ outcome' = "failed" /\ UNCHANGED answer
    /\ UNCHANGED <<terms, listed>>

Next == Grow \/ End

Spec == Init /\ [][Next]_vars /\ <>(outcome # "open")

================================================================================
