SPECIFICATION Spec
CONSTANTS
    Party = {q, a, b}
    Nobody = Nobody
    Queried = q
    Sats = {0, 1, 2}
    Many = 2
SYMMETRY MCSymmetry
CHECK_DEADLOCK FALSE
INVARIANTS
    HopsAreReal
    SpendingIsNotIncome
