SPECIFICATION FairSpec
CONSTANTS
    Ledger <- MCMixed
    Offset = 2
    Limits = {2, 4}
    Starts = {0, 1}
    Ends = {4, 9}
    Replies = {"limited", "error", "unreachable", "odd"}
CHECK_DEADLOCK FALSE
INVARIANT TypeOK
PROPERTY PromiseKept
