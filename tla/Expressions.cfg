SPECIFICATION Spec
CONSTANTS
    EXTENDEDGLOB = TRUE
    STACKSZ = 100
    LVCOUNT = 32
    Vocabularies <- MCVocabularies
    Lettering <- MCLettering
INVARIANTS PatternsAreUnderstood ArithmeticMeansWhatItSays BracesMakeTheseWords CompctlReadsBack LinesAreKept GlobFindsFiles
CHECK_DEADLOCK FALSE
