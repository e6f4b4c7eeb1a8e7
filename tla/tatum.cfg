SPECIFICATION FairSpec
CONSTANTS
    Height = 7
    Undated = {2, 7}
    PageSize = 2
    Limits <- MCLimits
    Starts = {0, 3}
    Ends = {6, 9}
    Replies = {"limited", "refused", "odd"}
CHECK_DEADLOCK FALSE
INVARIANTS
    TypeOK
    PagesLeaveNoGap
PROPERTY PromiseKept
