CONSTANTS
    OptionLists <- MCOptionLists
    ExistingFiles <- MCExistingFiles
    UnopenableFiles <- MCUnopenableFiles
    MaxOptions = 2
SPECIFICATION OptSpec
INVARIANT InputSourceNamed
\* The parse ends in a return: the final state has no successor.
CHECK_DEADLOCK FALSE
