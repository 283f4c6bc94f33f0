SPECIFICATION FairSpec
CONSTANTS
    MaxCrashes = 3
INVARIANTS TypeOK KeyKept ServesWhole
PROPERTIES UpgradesEnd
