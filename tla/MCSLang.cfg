SPECIFICATION ScSpec
CONSTANTS
    MaxTricky = 5
    Sources <- MCSources
INVARIANTS
    RegionsRight
    NothingLost
    LoopsAdvance
