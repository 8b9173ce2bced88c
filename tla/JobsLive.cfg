CONSTANTS
  MAXJOB = 3
  Pids = {p1}
  NoPid = NoPid
  MaxProcs = 1
  NOTIFY = TRUE
  Ops = {"fg", "wait"}
SPECIFICATION FairSpec
PROPERTY WaitEnds
