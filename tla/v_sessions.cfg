SPECIFICATION Spec
CONSTANTS
    Id = {"a", "u"}
    Email = {"a@x", "u@x"}
    Password = {"old", "new"}
    Role = {"admin", "investigator"}
    Reset = {t1}
    Request = {r1, r2, r3}
    Absent = Absent
    Founders <- MCFounders
    Kinds = {"login", "change", "admin"}
    Overlap = TRUE
    MaxVersion = 2
    MaxTokens = 2
SYMMETRY MCSymmetry
INVARIANT TokensAreCurrent
