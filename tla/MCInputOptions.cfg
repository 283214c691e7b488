CONSTANTS
    OptionLists <- MCOptionLists
    ExistingFiles <- MCExistingFiles
    UnopenableFiles <- MCUnopenableFiles
    MaxOptions = 3
SPECIFICATION OptSpec
INVARIANT ParseMatchesReference
\* The parse ends in a return: the final state has no successor.
CHECK_DEADLOCK FALSE
