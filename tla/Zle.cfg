CONSTANTS
    UNDOCT = 2
    KRINGCT = 2
    Past <- MCPast
    CharKeys = {"a", " "}
    Movements <- MCMovements
    Sessions <- MCSessions
    History <- MCHistory
    MaxLen = 10
    MaxCount = 22
    MaxStack = 3
    Quirks = {}
SPECIFICATION Spec
INVARIANTS UndoGoesBack NoKillIsLost
 
CHECK_DEADLOCK FALSE
