CONSTANTS
  MAXJOB = 3
  Pids = {p1, p2, p3}
  NoPid = NoPid
  MaxProcs = 2
  NOTIFY = FALSE
  Ops = {}
SPECIFICATION Spec
SYMMETRY PidSymmetry
INVARIANT RoomForACommand
