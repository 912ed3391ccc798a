CONSTANTS
    k1 = k1  k2 = k2
    Pubkeys = {k1, k2}
    Nominee <- MCNominee
    TimeOf <- MCTimeOf
    FinalizeDepth = 2
    TraceLimit = 2
    NumBlocksInEpoch = 2
    NumBlocksToClearMemory = 5
    KeptEpochs = 1
    LastHeight = 0
    FirstHeight = 1
    FirstTip = 3
    MaxTip = 11
    MaxBranches = 2
    MaxReorg = 2
SPECIFICATION Spec
CHECK_DEADLOCK FALSE
INVARIANTS TypeOK FinalizedOnBestChain
    EpochsPartition MemoryBounded
PROPERTIES AllEpochsSent ImplementsEpochSource
