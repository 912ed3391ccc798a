------------------------------- MODULE Mempool -------------------------------
(***************************************************************************)
(* app/app.go, CheckTx: which transactions enter Tendermint's mempool and  *)
(* which ones stay in it after a block; api/backend.go and                 *)
(* rpc/api/eth_api.go: how they are sent.                                  *)
(*                                                                         *)
(* The node uses Tendermint's local ABCI client, which runs one ABCI call  *)
(* at a time, and Tendermint rechecks the mempool before it lets new       *)
(* transactions in after a Commit. Only postCommit runs beside them; what  *)
(* it does is seen by the next Commit.                                     *)
(*                                                                         *)
(* External: Tendermint (mempool, which blocks are decided); the           *)
(* transaction engine, which charges gas in Prepare and runs transactions  *)
(* in postCommit, where a wrong nonce makes one fail (TestIncorrectNonceErr)*)
(* and some may wait for a later block; CheckNonce and DeductTxFee of      *)
(* moeingevm's Context.                                                    *)
(***************************************************************************)
EXTENDS Integers, Sequences, SequencesExt, FiniteSets, FiniteSetsExt

CONSTANTS
    Senders,
    Txs,                \* the transactions that are ever sent
    InitialBalance,     \* [Senders -> Nat]
    Prices,             \* values of the minimum gas price
    TestAccounts,       \* senders whose keys the node has (testKeys)
    MaxTxGasLimit,
    RecheckThreshold,
    SigCacheSize,
    MaxBlockTxs         \* bound: transactions in a block

Account == [nonce : Nat, balance : Nat]

(* form tells whether the bytes decode and carry a signature. Executing a  *)
(* transaction moves value from its sender, and loss from the account of   *)
(* each victim through the SEP206 contract.                                *)
Tx == [id : Nat, From : Senders, nonce : Nat, gas : Nat, price : Nat,
       value : Nat, victims : SUBSET Senders, loss : Nat,
       form : {"signed", "unsigned", "undecodable"}]

ASSUME MempoolAssumption ==
    /\ IsFiniteSet(Senders)
    /\ IsFiniteSet(Txs)
    /\ Txs \subseteq Tx
    /\ InitialBalance \in [Senders -> Nat]
    /\ Prices \subseteq Nat /\ Prices # {}
    /\ {MaxTxGasLimit, RecheckThreshold, SigCacheSize, MaxBlockTxs}
          \subseteq Nat

VARIABLES
    accounts,           \* the committed state (app.root)
    checkTrunk,         \* what CheckTx has made of it since
    lastMinGasPrice, touchedAddrs, sep206SenderSet, recheckCounter, sigCache,
    mempool,            \* Tendermint's mempool, in order
    toRecheck,          \* what is left of it to recheck
    standby,            \* prepared and not yet executed transactions
    included,           \* transactions of all blocks
    admitted,           \* admitted since the last Commit (history)
    overtaken           \* what late executions have passed by in the
                        \* mempool and nobody has checked since (history)

poolVars == <<mempool, toRecheck>>
appVars == <<accounts, lastMinGasPrice, touchedAddrs, sep206SenderSet>>
chainVars == <<standby, included>>
vars == <<appVars, checkTrunk, recheckCounter, sigCache, poolVars, chainVars,
          admitted, overtaken>>

Fee(tx) == tx.gas * tx.price

Fees(S) == MapThenSumSet(Fee, S)

From(S, s) == {tx \in S : tx.From = s}

-----------------------------------------------------------------------------
(* checkTx: what is wrong with a transaction.                              *)
checkTx(tx) ==
    IF tx.gas > MaxTxGasLimit THEN "GasLimitInvalid"
    ELSE IF tx.nonce # checkTrunk[tx.From].nonce THEN "AccountNonceMismatch"
    ELSE IF tx.price < lastMinGasPrice THEN "InvalidMinGasPrice"
    ELSE IF Fee(tx) > checkTrunk[tx.From].balance THEN "CannotPayGasFee"
    ELSE "OK"

FaultyDeducted(tx) == checkTrunk

(* DeductTxFee in the context of CheckTx, closed as dirty.                 *)
Deducted(tx) ==
    [checkTrunk EXCEPT ![tx.From].nonce = @ + 1,
                       ![tx.From].balance = @ - Fee(tx)]

FaultyFull == Cardinality(sigCache) > SigCacheSize + 1

(* The signature cache takes a new entry; when it is over its size it      *)
(* loses one, the oldest of a few that Go's map iteration happens to give. *)
Full == Cardinality(sigCache) > SigCacheSize

CacheSender(tx) ==
    IF tx \in sigCache THEN UNCHANGED sigCache
    ELSE IF Full
    THEN \E old \in sigCache : sigCache' = (sigCache \ {old}) \cup {tx}
    ELSE sigCache' = sigCache \cup {tx}

FaultyPassesUntouched(tx) == tx.From \notin sep206SenderSet

(* Rechecking: a sender that was neither touched nor lost coins passes.    *)
Passes(tx) == tx.From \notin touchedAddrs \cup sep206SenderSet

Verdict(tx, rechecking) ==
    IF rechecking /\ Passes(tx) THEN "OK"
    ELSE IF tx.From \in touchedAddrs THEN "HasPendingTx"
    ELSE checkTx(tx)

(* The checks after the cache. A transaction that is passed without them   *)
(* leaves checkTrunk alone.                                                *)
Check(tx, rechecking) ==
    IF tx.form # "signed" \/ Verdict(tx, rechecking) # "OK"
       \/ (rechecking /\ Passes(tx))
    THEN UNCHANGED <<checkTrunk, admitted>>
    ELSE /\ checkTrunk' = Deducted(tx)
         /\ admitted' = admitted \cup {tx}

Accepted(tx, rechecking) ==
    tx.form = "signed" /\ Verdict(tx, rechecking) = "OK"

(* external: what is left of a mempool without the transactions of S.      *)
Without(pool, S) ==
    FoldLeft(LAMBDA kept, tx : IF tx \in S THEN kept ELSE Append(kept, tx),
             <<>>, pool)

Busy == recheckCounter > RecheckThreshold

(* A new transaction. Tendermint does not check again what it has in its   *)
(* mempool or has seen in a block; what is refused may be sent again.      *)
CheckTx(tx) ==
    /\ toRecheck = <<>>
    /\ tx \notin ToSet(mempool) \cup included
    /\ ~Busy
    /\ IF tx.form = "signed" THEN CacheSender(tx) ELSE UNCHANGED sigCache
    /\ Check(tx, FALSE)
    /\ mempool' = IF Accepted(tx, FALSE) THEN Append(mempool, tx) ELSE mempool
    /\ UNCHANGED <<appVars, recheckCounter, toRecheck, chainVars, overtaken>>

(* eth_sendRawTransaction decodes first; broadcastTxSync hands on to       *)
(* Tendermint's mempool and returns its verdict.                           *)
SendRawTransaction(tx) == tx.form # "undecodable" /\ CheckTx(tx)

(* eth_sendTransaction signs with a test key, with the committed nonce.    *)
SendTransaction(tx) ==
    /\ tx.From \in TestAccounts
    /\ tx.nonce = accounts[tx.From].nonce
    /\ tx.form = "signed"
    /\ CheckTx(tx)

(* From a peer, any bytes.                                                 *)
Gossip(tx) == CheckTx(tx)

Recheck ==
    LET tx == Head(toRecheck)
    IN  /\ toRecheck # <<>>
        /\ toRecheck' = Tail(toRecheck)
        /\ recheckCounter' = recheckCounter + 1
        /\ CacheSender(tx)
        /\ Check(tx, TRUE)
        /\ mempool' = IF Accepted(tx, TRUE) THEN mempool
                      ELSE Without(mempool, {tx})
        /\ overtaken' = IF Passes(tx) THEN overtaken ELSE overtaken \ {tx}
        /\ UNCHANGED <<appVars, chainVars>>

-----------------------------------------------------------------------------
(* external: the engine runs a transaction.                                *)
Run(state, tx) ==
    IF tx.nonce # state[tx.From].nonce THEN state
    ELSE [s \in Senders |->
            LET paid == IF s = tx.From THEN tx.value ELSE 0
                lost == IF s \in tx.victims THEN tx.loss ELSE 0
                out == IF paid + lost <= state[s].balance THEN paid + lost
                       ELSE 0
            IN  [nonce |-> state[s].nonce + (IF s = tx.From THEN 1 ELSE 0),
                 balance |-> state[s].balance - out]]

(* Prepare charges the gas of the block's transactions.                    *)
Payable(state, block) ==
    {tx \in block :
        /\ tx.price >= lastMinGasPrice
        /\ Fees(From(block, tx.From)) <= state[tx.From].balance}

Prepare(state, block) ==
    [s \in Senders |->
        [state[s] EXCEPT !.balance =
            @ - Fees(From(Payable(state, block), s))]]

FaultyLostCoins(ran) == {}

(* getSep206SenderSet: who sent coins through SEP206 in the transactions   *)
(* that were executed since the last Commit.                               *)
LostCoins(ran) == UNION {tx.victims : tx \in ran}

FaultyResetCounter == recheckCounter

ResetCounter == 0

(* A block and its Commit. Executed since the last Commit: the standby     *)
(* transactions of order. Tendermint drops the block's transactions from   *)
(* the mempool and starts to recheck the others. An execution overtakes    *)
(* those of its sender when it comes later than it should, in a block      *)
(* after which its sender was not touched any more.                        *)
Commit(block, order, price) ==
    LET ran == ToSet(order)
        trunk == FoldLeft(Run, accounts, order)
        left == Without(mempool, block)
        touched == {tx.From : tx \in block}
    IN  /\ toRecheck = <<>>
        /\ accounts' = Prepare(trunk, block)
        /\ checkTrunk' = accounts'
        /\ lastMinGasPrice' = price
        /\ touchedAddrs' = touched
        /\ sep206SenderSet' = LostCoins(ran)
        /\ recheckCounter' = ResetCounter
        /\ mempool' = left
        /\ toRecheck' = left
        /\ standby' = (standby \ ran) \cup Payable(trunk, block)
        /\ included' = included \cup block
        /\ admitted' = {}
        /\ overtaken' = {tx \in ToSet(left) :
                            \/ tx \in overtaken
                            \/ /\ tx.From \notin touchedAddrs
                               /\ From(ran, tx.From) # {}}
        /\ UNCHANGED sigCache

(* Blocks of at most MaxBlockTxs transactions, of this node's mempool or   *)
(* of another proposer's, which has checked them too.                      *)
Blocks ==
    {b \in SUBSET {tx \in Txs \ included : tx.form = "signed"} :
        Cardinality(b) <= MaxBlockTxs}

CommitSome(blocks) ==
    \E block \in blocks, price \in Prices :
        \E ran \in SUBSET standby :
            \E order \in SetToSeqs(ran) : Commit(block, order, price)

Init ==
    /\ accounts = [s \in Senders |-> [nonce |-> 0,
                                      balance |-> InitialBalance[s]]]
    /\ checkTrunk = accounts
    /\ lastMinGasPrice \in Prices
    /\ touchedAddrs = {}
    /\ sep206SenderSet = {}
    /\ recheckCounter = 0
    /\ sigCache = {}
    /\ mempool = <<>>
    /\ toRecheck = <<>>
    /\ standby = {}
    /\ included = {}
    /\ admitted = {}
    /\ overtaken = {}

Next ==
    \/ \E tx \in Txs :
          SendRawTransaction(tx) \/ SendTransaction(tx) \/ Gossip(tx)
    \/ Recheck
    \/ CommitSome(Blocks)

(* Tendermint keeps making blocks, empty ones too, and proposers take the  *)
(* oldest transactions of their mempools, so that the first one of this    *)
(* node's mempool gets into a block in the end.                            *)
CommitOldest ==
    CommitSome({b \in Blocks : mempool = <<>> \/ mempool[1] \in b})

Spec == Init /\ [][Next]_vars /\ WF_vars(Recheck) /\ SF_vars(CommitOldest)

-----------------------------------------------------------------------------
(* Properties.                                                             *)

(* The types of all variables.                                             *)
TypeOK ==
    /\ accounts \in [Senders -> Account]
    /\ checkTrunk \in [Senders -> Account]
    /\ lastMinGasPrice \in Prices
    /\ touchedAddrs \subseteq Senders
    /\ sep206SenderSet \subseteq Senders
    /\ recheckCounter \in 0 .. Cardinality(Txs)
    /\ sigCache \subseteq Txs
    /\ Cardinality(sigCache) <= SigCacheSize + 1
    /\ mempool \in Seq(Txs)
    /\ toRecheck \in Seq(Txs)
    /\ standby \subseteq Txs
    /\ included \subseteq Txs
    /\ admitted \subseteq Txs
    /\ overtaken \subseteq Txs

Rechecked == toRecheck = <<>>

(* "if the sender is touched, it is most likely to have an uncertain       *)
(* nonce, so we reject it": after rechecking the mempool holds no          *)
(* transaction with a nonce that is already used, except those that an     *)
(* execution later than in the block after its own has overtaken.          *)
NoStaleNonce ==
    Rechecked => \A i \in DOMAIN mempool :
        \/ mempool[i] \in overtaken
        \/ mempool[i].nonce >= accounts[mempool[i].From].nonce

CanPay(tx) == Fee(tx) <= accounts[tx.From].balance

(* "During rechecking, if the sender has not not been touched or lose      *)
(* balance, the tx can pass": after rechecking the senders can pay for     *)
(* every transaction in the mempool, although most are passed without      *)
(* looking at balances, except for those that a late execution of the same *)
(* sender has overtaken.                                                   *)
PayableUnlessOvertaken ==
    Rechecked => \A i \in DOMAIN mempool :
        mempool[i] \in overtaken \/ CanPay(mempool[i])

(* What checkTx admits between two blocks fits together: the nonces of a   *)
(* sender continue the committed one without gap or repetition, and he can *)
(* pay for all of it.                                                      *)
AdmittedTogether ==
    \A s \in Senders :
        LET mine == From(admitted, s)
            first == accounts[s].nonce
        IN  /\ {tx.nonce : tx \in mine} = first .. first + Cardinality(mine) - 1
            /\ Fees(mine) <= accounts[s].balance

(* "Refuse to accept new TXs to drain the remain TXs": a busy mempool      *)
(* takes new transactions again in the end.                                *)
BusyEnds == Busy ~> (~Busy /\ Rechecked)
=============================================================================
