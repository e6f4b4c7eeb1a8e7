SPECIFICATION Spec
CONSTANTS
    Id = {"u"}
    Email = {"u@x"}
    Password = {"old", "new"}
    Role = {"admin", "investigator"}
    Reset = {t1}
    Request = {r1, r2}
    Absent = Absent
    Founders <- MCAlone
    Kinds = {"issue", "confirm"}
    Overlap = TRUE
    MaxVersion = 2
    MaxTokens = 0
SYMMETRY MCSymmetry
INVARIANT ResetSingleUse
