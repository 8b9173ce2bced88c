SPECIFICATION MCSpec
CONSTANTS
  Names = {"a", "b", "c"}
  Values = {"1"}
  hasher <- MCHasher
  InitialSize = 1
  CommandWords = {"n", "m"}
  Stem <- MCStem
  Shells <- MCShells
  Drive = "c:"
  Disk <- MCDisk
  Size <- MCSize
  Worlds <- MCWorlds
  Parts = {"hashtable", "malloc", "redirections", "commands", "directories", "keymaps", "params"}
INVARIANTS TableWellFormed BlocksHeldApart DescriptorsAreAsTold CommandsAreFound StackMeansWhatItSays CacheTellsTheTable KeysRunWhatWasBound EnvironTells
PROPERTIES Answers FunctionsHaveScopes
CHECK_DEADLOCK FALSE
