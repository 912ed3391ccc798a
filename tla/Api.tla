--------------------------------- MODULE Api ---------------------------------
(***************************************************************************)
(* What a node answers from its history store: api/backend.go,             *)
(* rpc/api/eth_api.go, eth_api_utils.go, sbch_api.go and GetLogs of        *)
(* rpc/api/filters. A request reads the store as it is between two steps   *)
(* of Node and changes nothing. An answer of at most one thing is a set,   *)
(* empty for null and for an error.                                        *)
(*                                                                         *)
(* External: moeingdb's range queries, from the start height up to, not    *)
(* including, the end height, or down from below the start height to the   *)
(* end height if the start is above it; limit 0 is no limit.               *)
(***************************************************************************)
EXTENDS Node, LogFilter

CONSTANTS
    Sender,         \* [Txs -> addresses]
    Recipient,      \* [Txs -> addresses]
    TxLogs,         \* [Txs -> sequences of logs]
    Word32          \* 2^32

(* Heights fit into 32 bits, and no two blocks have the same hash. A       *)
(* transaction has a list of logs, a log a list of topics.                 *)
ASSUME ApiAssumption ==
    /\ Word32 \in Nat /\ Word32 > Len(Chain) + 1
    /\ \A m, n \in DOMAIN Chain : Chain[m].Hash = Chain[n].Hash => m = n
    /\ \A x \in Txs : /\ TxLogs[x] \in Seq(ToSet(TxLogs[x]))
                      /\ \A log \in ToSet(TxLogs[x]) : Len(log.Topics) \in Nat

uint32(n) == n % Word32

-----------------------------------------------------------------------------
(* The backend.                                                            *)
LatestHeight == IF DOMAIN history = {} THEN 0 ELSE Max(DOMAIN history)

BlockByNumber(n) == IF n \in DOMAIN history THEN {history[n]} ELSE {}

BlockByHash(hash) == {b \in Range(history) : b.info.Hash = hash}

CurrentBlock == BlockByNumber(LatestHeight)

GetTransaction(hash) ==
    {t \in UNION {ToSet(b.txs) : b \in Range(history)} : t.tx = hash}

GetTxListByHeight(n) ==
    IF n \in DOMAIN history THEN history[n].txs ELSE <<>>

(* The header has no bloom here.                                           *)
HeaderByHash(hash) ==
    {[Number |-> b.info.Number, BlockHash |-> b.info.Hash, Bloom |-> {}] :
        b \in BlockByHash(hash)}

LogsOfTxs(txs) ==
    FlattenSeq([i \in 1 .. Len(txs) |->
        [j \in 1 .. Len(TxLogs[txs[i].tx]) |->
            [Address |-> TxLogs[txs[i].tx][j].Address,
             Topics |-> TxLogs[txs[i].tx][j].Topics,
             TxHash |-> txs[i].tx]]])

(* GetLogs of the backend: the logs of the block's transactions.           *)
LogsOfBlock(hash) ==
    FlattenSeq(SetToSeq({LogsOfTxs(b.txs) : b \in BlockByHash(hash)}))

-----------------------------------------------------------------------------
(* eth_api_utils.go                                                        *)
txToRpcResp(t) ==
    [hash |-> t.tx, blockHash |-> t.BlockHash, blockNumber |-> t.BlockNumber,
     transactionIndex |-> t.TransactionIndex,
     from |-> Sender[t.tx], to |-> Recipient[t.tx]]

txsToRpcResp(txs) == [i \in 1 .. Len(txs) |-> txToRpcResp(txs[i])]

txToReceiptRpcResp(t) ==
    [transactionHash |-> t.tx, blockHash |-> t.BlockHash,
     blockNumber |-> t.BlockNumber, transactionIndex |-> t.TransactionIndex,
     from |-> Sender[t.tx], to |-> Recipient[t.tx], logs |-> TxLogs[t.tx]]

blockToRpcResp(b, txs) ==
    [number |-> b.info.Number, hash |-> b.info.Hash,
     timestamp |-> b.info.Timestamp,
     transactions |-> IF txs # <<>> THEN txsToRpcResp(txs)
                      ELSE [i \in 1 .. Len(b.txs) |-> b.txs[i].tx]]

-----------------------------------------------------------------------------
(* eth_api.go                                                              *)
getBlockByNum(n) == IF n <= 0 THEN CurrentBlock ELSE BlockByNumber(n)

getTxByIdx(b, idx) ==
    IF idx >= Len(b.txs) THEN {}
    ELSE {txToRpcResp(t) : t \in GetTransaction(b.txs[idx + 1].tx)}

FullTxs(b, fullTx) ==
    IF fullTx THEN GetTxListByHeight(uint32(b.info.Number)) ELSE <<>>

GetBlockByHash(hash, fullTx) ==
    {blockToRpcResp(b, FullTxs(b, fullTx)) : b \in BlockByHash(hash)}

GetBlockByNumber(n, fullTx) ==
    {blockToRpcResp(b, FullTxs(b, fullTx)) : b \in getBlockByNum(n)}

GetBlockTransactionCountByHash(hash) ==
    {Len(b.txs) : b \in BlockByHash(hash)}

GetBlockTransactionCountByNumber(n) == {Len(b.txs) : b \in getBlockByNum(n)}

GetTransactionByBlockHashAndIndex(hash, idx) ==
    UNION {getTxByIdx(b, idx) : b \in BlockByHash(hash)}

GetTransactionByBlockNumberAndIndex(n, idx) ==
    UNION {getTxByIdx(b, idx) : b \in getBlockByNum(n)}

GetTransactionByHash(hash) == {txToRpcResp(t) : t \in GetTransaction(hash)}

GetTransactionReceipt(hash) ==
    {txToReceiptRpcResp(t) : t \in GetTransaction(hash)}

-----------------------------------------------------------------------------
(* external: heights in the order in which moeingdb visits them.           *)
Visited(start, end) ==
    IF start <= end THEN [i \in 1 .. end - start |-> start + i - 1]
    ELSE [i \in 1 .. start - end |-> start - i]

Limited(s, limit) ==
    IF limit = 0 \/ Len(s) <= limit THEN s ELSE SubSeq(s, 1, limit)

(* external: the transactions of src or dst, in a block ...                *)
Hits(n, src, dst) ==
    {t \in ToSet(GetTxListByHeight(n)) :
        Sender[t.tx] \in src \/ Recipient[t.tx] \in dst}

(* ... and in a range of heights.                                          *)
QueryTx(src, dst, start, end, limit) ==
    LET heights == Visited(start, end)
    IN  Limited(FlattenSeq([i \in 1 .. Len(heights) |->
                    Selected(GetTxListByHeight(heights[i]),
                             Hits(heights[i], src, dst))]),
                limit)

(* external: the logs in a range of heights.                               *)
QueryLogs(addresses, topics, start, end) ==
    LET heights == Visited(start, end)
    IN  FlattenSeq([i \in 1 .. Len(heights) |->
            filterLogs(LogsOfTxs(GetTxListByHeight(heights[i])),
                       NilBlock, NilBlock, addresses, topics)])

(* sbch_api.go                                                             *)
Resolved(n) == IF n = LatestBlockNumber THEN LatestHeight ELSE n

FaultyPrepareHeightRange(start, end) ==
    <<uint32(Resolved(start)), uint32(Resolved(end) + 1)>>

prepareHeightRange(start, end) ==
    IF Resolved(start) > Resolved(end)
    THEN <<uint32(Resolved(start) + 1), uint32(Resolved(end))>>
    ELSE <<uint32(Resolved(start)), uint32(Resolved(end) + 1)>>

QueryTxBySrc(addr, start, end, limit) ==
    LET r == prepareHeightRange(start, end)
    IN  txsToRpcResp(QueryTx({addr}, {}, r[1], r[2], limit))

QueryTxByDst(addr, start, end, limit) ==
    LET r == prepareHeightRange(start, end)
    IN  txsToRpcResp(QueryTx({}, {addr}, r[1], r[2], limit))

QueryTxByAddr(addr, start, end, limit) ==
    LET r == prepareHeightRange(start, end)
    IN  txsToRpcResp(QueryTx({addr}, {addr}, r[1], r[2], limit))

sbchGetTxListByHeight(n) ==
    LET txs == GetTxListByHeight(uint32(Resolved(n)))
    IN  [i \in 1 .. Len(txs) |-> txToReceiptRpcResp(txs[i])]

-----------------------------------------------------------------------------
(* rpc/api/filters: checkMatches, blockLogs and Logs of a block filter.    *)
checkMatches(header, addresses, topics) ==
    filterLogs(LogsOfBlock(header.BlockHash), NilBlock, NilBlock, addresses,
               topics)

blockLogs(header, addresses, topics) ==
    IF bloomFilter(header.Bloom, addresses, topics)
    THEN checkMatches(header, addresses, topics)
    ELSE <<>>

BlockFilterLogs(hash, addresses, topics) ==
    {blockLogs(h, addresses, topics) : h \in HeaderByHash(hash)}

OrCurrent(n) == IF n = NilBlock THEN LatestHeight ELSE n

(* GetLogs for a range of heights.                                         *)
GetLogs(from, to, addresses, topics) ==
    QueryLogs(addresses, topics, uint32(OrCurrent(from)),
              uint32(OrCurrent(to) + 1))

-----------------------------------------------------------------------------
(* A transaction has one place: the receipt names a block, by its number,  *)
(* that lists the transaction at the receipt's index, and the requests by  *)
(* hash, by block and index and for full blocks return the same. The       *)
(* block hash in it is that of the block, or zero where the process that   *)
(* executed the block had been restarted at it (reload).                   *)
ReceiptInItsBlock ==
    \A x \in Txs : \A r \in GetTransactionReceipt(x) :
        LET n == r.blockNumber
            i == r.transactionIndex
        IN  /\ Cardinality(GetTransactionReceipt(x)) = 1
            /\ \E b \in GetBlockByNumber(n, FALSE) :
                  /\ b.number = n
                  /\ b.transactions[i + 1] = x
                  /\ \/ r.blockHash = b.hash
                     \/ r.blockHash = 0 /\ n \in reloaded
            /\ GetTransactionByBlockNumberAndIndex(n, i)
                  = GetTransactionByHash(x)
            /\ GetTransactionByBlockHashAndIndex(Chain[n].Hash, i)
                  = GetTransactionByHash(x)
            /\ \A b \in GetBlockByHash(Chain[n].Hash, TRUE) :
                  {b.transactions[i + 1]} = GetTransactionByHash(x)
            /\ sbchGetTxListByHeight(n)[i + 1] = r
            /\ \A c \in GetBlockTransactionCountByHash(Chain[n].Hash)
                        \cup GetBlockTransactionCountByNumber(n) : i < c

Addresses == Range(Sender) \cup Range(Recipient)

Between(m, n) ==
    {h \in DOMAIN history : (m <= h /\ h <= n) \/ (n <= h /\ h <= m)}

AllLogs(n) == LogsOfTxs(GetTxListByHeight(n))

(* eth_getLogs of a range returns the logs of both ends and of every block *)
(* between, and for a block hash without criteria those of that block.     *)
LogsOfRange ==
    /\ \A m, n \in DOMAIN Chain :
        m <= n => ToSet(GetLogs(m, n, {}, <<>>)) =
                    UNION {ToSet(AllLogs(h)) : h \in Between(m, n)}
    /\ \A n \in DOMAIN history :
        BlockFilterLogs(history[n].info.Hash, {}, <<>>) = {AllLogs(n)}

(* sbch_queryTx...: both ends of the range are included, whichever is      *)
(* larger and also when one is "latest", and the blocks come in the order  *)
(* from the first to the second; a limit keeps the first of these. So are  *)
(* both ends of eth_getLogs.                                               *)
RangesInclusive ==
  /\ LogsOfRange
  /\ \A m, n \in {LatestBlockNumber} \cup DOMAIN Chain :
        LET heights == Between(Resolved(m), Resolved(n))
        IN  \A a \in Addresses :
              LET found == QueryTxByAddr(a, m, n, 0)
              IN  /\ {t.hash : t \in ToSet(found)} =
                        UNION {{x \in ExecutedIn(history[h]) :
                                    a \in {Sender[x], Recipient[x]}} :
                                h \in heights}
                  /\ ToSet(found) = ToSet(QueryTxBySrc(a, m, n, 0))
                                    \cup ToSet(QueryTxByDst(a, m, n, 0))
                  /\ \A i \in 2 .. Len(found) :
                        IF Resolved(m) <= Resolved(n)
                        THEN found[i - 1].blockNumber <= found[i].blockNumber
                        ELSE found[i - 1].blockNumber >= found[i].blockNumber
                  /\ \A k \in 1 .. Len(found) :
                        QueryTxByAddr(a, m, n, k) = SubSeq(found, 1, k)
=============================================================================
