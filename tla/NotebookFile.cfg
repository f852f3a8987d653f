\* Two sessions, and files enough for a creation after a failed one.
SPECIFICATION Spec
CONSTANTS
    Sessions = {s1, s2}
    NoOne = NoOne
    MaxFiles = 4
INVARIANTS
    LocksGivenBack
    CreatorOpensFirst
    NoDraftPublished
PROPERTIES
    NothingOverwritten
    RefinesOwnership
    CallsReturn
