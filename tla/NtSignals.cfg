SPECIFICATION Spec
CONSTANTS
    Children = {"c1", "c2"}
    Main = "main"
    Console = "console"
    MaxKeys = 1
    PastCrossing = FALSE
    Garbage = "garbage"
INVARIANTS NoEndIsSleptThrough
PROPERTIES BlockedMeansBlocked EveryEndIsReaped
CHECK_DEADLOCK FALSE
