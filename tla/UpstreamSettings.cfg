SPECIFICATION FairSpec
CONSTANTS
    Request = {"r1", "r2"}
    Reward = {"ref_1"}
    Sites <- MCSites
    MaxAssets = 3
INVARIANTS TypeOK NoSecondApply NotFoundOnlyIfUnserved
PROPERTIES OkWasTrue UnsavedOnlyIfDisturbed RetriesDoNotUndo RequestsEnd
