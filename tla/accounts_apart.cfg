SPECIFICATION Spec
CONSTANTS
    Id = {"a", "u"}
    Email = {"a@x", "u@x"}
    Password = {"old", "new"}
    Role = {"admin", "investigator"}
    Reset = {t1, t2}
    Request = {r1, r2}
    Absent = Absent
    Founders <- MCSeasoned
    Kinds = {"login", "change", "admin", "issue", "confirm", "expire"}
    Overlap = FALSE
    MaxVersion = 2
    MaxTokens = 2
SYMMETRY MCSymmetry
INVARIANTS
    TypeOK
    TokensAreCurrent
PROPERTIES
    OneAtATime
