CONSTANTS
    Slots = 2
    MaxFrames = 4
SPECIFICATION FairSpec
INVARIANTS OnlyOldestDamaged
PROPERTIES ReaderReturns KilledReaderReturns KilledWriterLeaves
CHECK_DEADLOCK FALSE
