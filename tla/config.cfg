SPECIFICATION Spec
CONSTANTS
    page = page
    login = login
    v1 = v1
    v2 = v2
    Savers <- TwoSavers
    Values <- TwoValues
    Nothing = Nothing
    MaxKeys = 2
SYMMETRY ValueSymmetry
INVARIANTS MemoryIsFile NothingInClear SealedUnderWrittenKey OthersKept
\* The operator may leave a file torn, or run out of keys within the bound.
CHECK_DEADLOCK FALSE
