CONSTANTS
  MAXJOB = 4
  Pids = {p1, p2}
  NoPid = NoPid
  MaxProcs = 2
  NOTIFY = TRUE
  Ops = {"fg", "bg", "wait", "disown", "jobs", "waitall"}
SPECIFICATION Spec
SYMMETRY PidSymmetry
INVARIANTS RunningIsUnreaped AllReaped TableTellsTheTruth CurrentSuitable
PROPERTY ForgottenWhenEnded
