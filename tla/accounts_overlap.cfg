SPECIFICATION FairSpec
CONSTANTS
    Id = {"a", "n", "o"}
    Email = {"a@x", "n@x"}
    Password = {"old"}
    Role = {"admin"}
    Reset = {t1, t2, t3}
    Request = {r1, r2}
    Absent = Absent
    Founders <- MCFounders
    Kinds = {"login", "admin", "issue", "confirm"}
    Overlap = TRUE
    MaxVersion = 1
    MaxTokens = 1
CONSTRAINT MCIssuedInOrder
INVARIANTS
    UniqueEmails
    LiveResetsBounded
PROPERTIES
    StaleCopiesDoNotUndo
    UsedResetsRetire
    VersionsGrow
    RequestsFinish
