CONSTANTS
  Signals = {SIGCHLD, SIGINT, SIGWINCH}
  ChildSignal = SIGCHLD
  NoSignal = NoSignal
  MAX_QUEUE_SIZE = 4
  MaxRaised = 1
  MaxNesting = 2
SPECIFICATION FairSpec
INVARIANTS CriticalSectionsUninterrupted ProgramKeepsItsMask OneRunPerCatch
PROPERTY Drains
CONSTRAINT NotOverrun
