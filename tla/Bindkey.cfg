SPECIFICATION MCSpec
CONSTANTS
  Names = {"a", "b", "c"}
  Values = {"1"}
  hasher <- MCHasher
  InitialSize = 1
  CommandWords = {"n", "m"}
  Stem <- MCStem
  Shells <- MCShells
  Drive = "c:"
  Disk <- MCDisk
  Size <- MCSize
  Worlds <- MCWorlds
  Parts = {"any keymaps"}
INVARIANT KeysRunWhatWasBound
CHECK_DEADLOCK FALSE
