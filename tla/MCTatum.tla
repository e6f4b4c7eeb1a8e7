-------------------------------- MODULE MCTatum --------------------------------
(* An instance of Tatum for TLC: every limit around the page size, with and    *)
(* without a window.                                                           *)
EXTENDS Tatum

MCLimits == {0, PageSize - 1, 2 * PageSize, 2 * PageSize + 1}

==============================================================================
