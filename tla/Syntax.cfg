SPECIFICATION Spec
CONSTANTS
    SHORTLOOPS = TRUE
    CSHJUNKIELOOPS = FALSE
    Vocabularies <- MCVocabularies
INVARIANT TreeIsKept
CHECK_DEADLOCK FALSE
