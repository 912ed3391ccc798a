CONSTANTS
    alice = alice  bob = bob
    Senders = {alice, bob}
    Txs <- MCTxs
    InitialBalance <- MCInitialBalance
    Prices = {1, 2}
    TestAccounts = {bob}
    MaxTxGasLimit = 8
    RecheckThreshold = 0
    SigCacheSize = 1
    MaxBlockTxs = 2
SPECIFICATION Spec
CHECK_DEADLOCK FALSE
INVARIANTS TypeOK NoStaleNonce PayableUnlessOvertaken AdmittedTogether
PROPERTY BusyEnds
