CONSTANTS
    a1 = a1  a2 = a2  a3 = a3  t1 = t1
    Chain <- MCChain
    Txs = {1, 2, 3, 4}
    Slow = {2}
    Sender <- MCSender
    Recipient <- MCRecipient
    TxLogs <- MCTxLogs
    Word32 = 16
    MaxCrashes = 2
    MaxStops = 1
SPECIFICATION Spec
CHECK_DEADLOCK FALSE
INVARIANTS
    TypeOK HistoryFaithful LostOnlyByCrashes
    PublishedAreStored ReceiptInItsBlock RangesInclusive
PROPERTIES DecidedAreExecuted
