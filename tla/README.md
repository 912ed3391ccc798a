# A TLA+ model of smartBCH

smartBCH is an EVM-compatible side chain of Bitcoin Cash (BCH): a Tendermint
application that executes transactions, whose validators stake coins in a
built-in contract and are elected by BCH miners. This directory models the part
that is smartBCH's own: the staking rules, the block pipeline that drives them,
the watcher that turns main-chain blocks into elections, the mempool's checks,
what a node keeps through crashes and restarts, and the filters and queries of
its API. The virtual machine, the stores and Tendermint are libraries and are modelled by what the
code relies on.

## 1. Inventory

| Component | Source | State | Operations | Interacts with |
|---|---|---|---|---|
| staking information | `staking/types/types.go` | the list of validators, pending rewards, epoch number | look-ups, AddValidator, useless/active validators, rewards of a validator | called by the contract and the application |
| staking contract | `staking/staking.go` | StakingInfo and the minimum gas price in the store; balances | createValidator, editValidator, retire, gas-price votes, Slash, DistributeFee, SwitchEpoch | Execute is called by the transaction engine, the others by Commit |
| ABCI application | `app/app.go` | block in progress, validators on duty, epochs waiting, votes, evidence, gas accounts, `app.mtx` | InitChain, BeginBlock, DeliverTx, EndBlock, Commit, postCommit, CheckTx | Tendermint (ABCI), engine, watcher (EpochChan), history store, subscribers |
| main-chain watcher | `staking/watcher.go` | remembered blocks, finalized blocks, epochs | Run, addBlock, generateNewEpoch, ClearOldData | BCH node by RPC; EpochChan to Commit |
| BCH RPC client | `staking/rpcclient.go` | the last error | getblock by height or hash, nominations in coinbase transactions | watcher |
| mempool checks | `app/app.go` CheckTx | signature cache, touched addresses, last gas price | CheckTx, recheck | Tendermint's mempool; Commit replaces its state |
| history store, block feeds | `app/app.go` refresh, publishNewBlock | history blocks | AddBlock, feeds of headers and logs | event system |
| event and filter system | `rpc/api/filters` | subscriptions, polling filters, timeouts | install, uninstall, poll, timeout, event loop | RPC clients, block feeds |
| API backend | `api/` | none of its own | reads of state and history | stores |
| JSON-RPC API | `rpc/` | none | translation | backend |

### What is hard

* **Concurrency.** `postCommit` executes a block in a goroutine that holds
  `app.mtx`; the next block's BeginBlock, DeliverTx and EndBlock run meanwhile
  and only its Commit waits. The watcher is a third goroutine, joined by a
  channel of capacity 1. Filters, timeouts and the event loop are more.
* **Ordering.** The engine executes transactions in its own order and leaves
  some for later blocks; epochs arrive early, late, or several at a time;
  Tendermint applies validator updates two blocks later.
* **Failure.** BCH reorganizations between two RPC calls, evidence of double
  signing, validators that stop signing; failing requests; crashes between the
  writes of state and history, and restarts from what is on disk.
* **Agreement.** Nodes learn of an epoch at different moments, each from its own
  watcher, and must apply it in the same block.
* **Arithmetic.** Amounts are 256-bit and wrap; shares are rounded down; block
  numbers of requests, of which some are negative, become 32-bit heights.

`PROJECT.json` lists these hazards line by line with the properties that cover
them.

### What makes each component correct

* Staking information: one entry per address, key and place; every pending
  reward has its validator; one reward per validator and epoch; rewards live
  one epoch.
* Staking contract: coins are moved, never made; what the contract owes and what
  it holds move together; retirement is final; the gas price obeys its limits;
  a block never panics (that slashing takes the stake does not hold, see 3.2; that a
  switch removes all useless validators and that shares stay within the fee does not
  always hold, see 3.3).
* Application: the system account covers refunds and fees however execution is
  interleaved; what EndBlock reports is registered.
* Watcher: finalized blocks form one chain that stays best; epochs partition the
  finalized heights and each is sent once; memory stays bounded; it always gets
  to the tip (that it waits there does not hold, see 3.3).
* RPC client: a block fetched in three requests is the block of one
  moment (that nil means there is none does not hold, see 3.3).
* Mempool: what it holds after a recheck fits the committed state (but for what
  late executions have overtaken, see 3.1), what is
  admitted between two blocks fits together, and a busy mempool opens again.
* State and history on disk: they agree up to what a crash can lose; every decided
  transaction is executed in the end, once.
* Several nodes: the same blocks lead to the same state.
* Event system: no deadlock, nothing lost while a filter is there, nothing
  delivered after an uninstall.
* API: the answers to different requests about one block agree with each other;
  ranges include both ends.
* Codec: what is stored is read back.

## 2. Modules

```
StakingTypes --- Staking --- App --- MCApp      EpochSource ... Watcher --- MCWatcher
                              |        |                           |
                          AppProof   Codec                    WatcherProof
LogFilter --- Filters --- MCFilters             RpcClient --- MCRpcClient
    |            |                                  |
    |       FiltersProof                        RpcClientProof
   Api --- MCNode                               Replicas --- MCReplicas
    | \                                             |
    |  NodeProof                                ReplicasProof
   Node                                         Mempool --- MCMempool
                                                    |
                                                MempoolProof
```

(lines: extends, from right to left or upwards; dots: is refined by; Api extends
LogFilter and Node; ProofLemmas, about finite sets, intervals, folds and sums, is
extended by AppProof, WatcherProof, NodeProof, FiltersProof and MempoolProof)

**StakingTypes** (`staking/types/types.go`). Coins with wrapping arithmetic
(`Word` is 2^256 in the code), validators, rewards, and the queries and updates
of `StakingInfo`. The Go slice of validators is a set whose elements carry their
place `idx`: only the relative order matters to the code, for the choice of the
active validators and for the deletion loop of clearUp. Pending rewards are a
set, since the code only searches and sums them.

**Staking** (`staking/staking.go`). Functions from a `World` (the stored info,
balances, burnt counter, gas prices, panic) to the next: `Execute` with the
operations of a transaction, `Slash`, `DistributeFee`, `SwitchEpoch` =
`endEpoch`, update of powers, `clearUp`, allocation of entries for the new
epoch. `clearUp` keeps Go's deletion from the slice that is ranged over:
`Deleted` says which elements really disappear, `DeletionOutOfBounds` when the
loop slices beyond the end. `Slash` keeps its loss: only balances and the burnt
counter are stored. A panic is a value of `world.panic` and stops everything.

**App** (`app/app.go`). One action per ABCI call, and the goroutine:

| Action | Code |
|---|---|
| `BeginBlock(proposer, signers, evidence)` | BeginBlock |
| `DeliverTx(tx)` | DeliverTx |
| `EndBlock` | EndBlock, and Tendermint's validator sets of the next blocks |
| `Commit` | Commit up to `go app.postCommit`: receive an epoch, switch if due, slash, settle the system account, pay the block reward, refresh prices, prepare the collected transactions |
| `ExecuteTx(tx)` | postCommit, one transaction of the engine |
| `EndPostCommit` | the end of postCommit, releasing `app.mtx` |
| `SendEpoch` | the watcher's send |

External parts: Tendermint (`tm`: the validator sets of the previous, the
current and the next block; any signers with more than two thirds of the power;
evidence against its validators) and moeingevm's engine (`engine`: collected and
standby transactions; it charges the gas of all senders that can pay, and may
execute any subset of the standby queue in any order per block). A panic in
Commit leaves the state as it was, with the panic recorded. Before its properties App
names what the code takes for granted (`OrdinaryRewards`, `EmptySystemAcc`, `PayableGas`,
`ClearUpInBounds`, `KnownSigners`): hypotheses of theorems in section 4,
no part of the specification.

**Watcher** (`staking/watcher.go`). `Fetch` and `Trace` are the turns of Run's
outer and inner loop, each one RPC call with the addBlock that follows;
`FetchNil` and `TraceNil` are the turns in which the client returns nil and the process
panics: for a height above the tip, or because a request for an existing block was not
answered, which may happen at any height and hash. `EpochSent` is the part of
generateNewEpoch from the blocking send on; `Receive` is Commit's receive. The
BCH node (`Mine`, `Reorg`) moves between any two of them. Hashes are pairs of a
height and a branch. The nominations and timestamps of blocks are operator
constants. `Epoch.Duration` is never read and left out.

**EpochSource** is the abstract specification of the watcher: epochs that start
every EpochLength heights come one by one, in order, through a channel that
holds one. It is all that App's Commit relies on. Watcher implements it
(`ImplementsEpochSource`), with the epochs replaced by the heights they start at.

**RpcClient** (`staking/rpcclient.go`). One action per request (`getBlockHashOfHeight`,
`getBlock`, `getTx`), `Unreachable` for one that fails, and the node's moves in
between. An error object decodes and leaves a zero result, since no response's
Error is looked at; another form of error does not decode. The scripts of the
coinbase outputs are two kinds: a well-formed nomination or not.

**Codec** (`staking/types/types_gen.go`). The generated methods differ only in the
fields of their type, so a type is described by its fields and one encoder and
one decoder, over the tokens that msgp writes, stand for all of them. MCApp
checks it on the StakingInfo of every state of a run.

**Mempool** (`app/app.go` CheckTx, refresh; `eth_sendRawTransaction`,
`eth_sendTransaction`). `CheckTx` is a new transaction, from the API or from a peer,
`Recheck` one turn of Tendermint's recheck, `Commit` what a block replaces:
checkTrunk, touchedAddrs, sep206SenderSet, lastMinGasPrice, recheckCounter.
The node uses Tendermint's local client, which makes one ABCI call at a time, so
these do not overlap; execution does, and is seen at the next Commit. External:
the engine, which charges gas when a block is prepared and runs any part of the
waiting transactions, in any order, until the next block.

**Node** (`app/app.go` refresh, publishNewBlock, NewApp, reload, Stop). Commit is split
where a crash makes a difference: `CommitRoot` (state on disk), `AddBlock` (history
of the block before), `PublishNewBlock`, `StartPostCommit`; `PostCommit` executes in
memory; `Flush` is the end of AddBlock in the background; `Crash` may fall anywhere,
`Stop` between blocks; `Restart` takes over what is on disk and executes what was
waiting. External: Tendermint's decided chain, and moeingdb.

**Api** (`api/backend.go`, `rpc/api/eth_api.go`, `eth_api_utils.go`, `sbch_api.go`,
eth_getLogs) defines, over Node's history store, what every request returns. It has
no actions: a request changes nothing, and its properties are invariants of Node.

**LogFilter** (`rpc/api/filters/geth_filter.go`) is the matching of logs, used by Api
and Filters.

**Filters** (`rpc/api/filters`). Processes: publishing (inside Commit), the event loop,
one goroutine per filter, timeoutLoop, and the clients' calls. A send on a channel
without buffer is one joint step of sender and receiver (`SendToRoutine`,
`SendToUnsubscribe`, `Install`, `Uninstall`). Only timeoutLoop holds `filtersMu` for
more than a step (`holder`). A poll that finds neither events nor an expired timer
changes nothing and is left out.

**Replicas** has the part of Commit that handles epochs for each of several nodes,
which commit the same blocks at their own pace. A node's state is the sequence of
what changed it, so that equal states mean that the same happened in the same order.
`Lag` bounds how late a watcher delivers; `EpochSwitchDelay` is the code's answer to
it, and the run has them equal, the tightest case that holds.

Operators named `Faulty...` are variants with a plausible mistake (a dropped
guard, an off-by-one, a missing reset). They are used by nothing; replacing the
definition that follows them makes the property they are meant for fail, which
shows that the property can fail (`PROJECT.json`, "mutants").

## 3. Runs

`tlc -config X.cfg M` for each. Deadlock is not checked: the models stop at
their last block, or when the process has panicked, as the program does.

### 3.1 Runs that pass

| Run | Instance | Shows |
|---|---|---|
| `app_registry` (MCApp_registry) | 2 genesis validators, a third account that registers with its own or with a reused key, one retirement, 3 epochs, 5 blocks, at most 2 active | the registry, rewards and validators on duty stay consistent: `TypeOK`, `UniqueValidators`, `RewardsHaveValidators`, `OneRewardPerEpoch`, `RewardWindow`, `DutyRegistered`, `ImmatureRewardsKept`, `RetirementIsFinal`; `DebtSettled`, also where clearUp pays back a validator and keeps it |
| `app_coins` (MCApp_coins) | a registration, an edit that raises a stake, two votes on the gas price, evidence in any block, 3 epochs of which the last removes a validator, 3 blocks | `SupplyConserved`, `SystemAccCovers`, `PriceBounded` |
| `app_signing` (MCApp_signing) | all keys sign every block, no evidence, 2 epochs, 7 blocks | `NoCrash`: if validators keep signing while Tendermint counts them, no block panics; `StakeBacked`; `StoredInfoDecodes` |
| `watcher_follow` (MCWatcher_follow) | depth 2, epochs of 2 blocks, memory dropped every 5 heights, any request without an answer, 2 reorganizations of up to 2 blocks, tip 11 | `TypeOK`, `FinalizedOnBestChain`, `EpochsPartition`, `MemoryBounded`, `AllEpochsSent`, and the refinement `ImplementsEpochSource` |
| `rpc_fetch` (MCRpcClient_fetch) | 2 calls, 2 reorganizations and a failing request at any moment, both forms of error | `FetchIsAtomic`: a call of several requests returns the block of one moment, which is what lets Watcher take it as one step |
| `filters_polling` (MCFilters_polling) | a block and a logs filter of clients that poll and uninstall at will; or one filter that is not polled; or a refused one; 3 blocks, channels of size 1 | `TypeOK`, `NothingLost`, `CommitNotBlocked`, `FilterRemoved` |
| `mempool_check` (MCMempool_check) | 5 transactions of 2 senders: two with the same nonce, one that takes coins of the other sender, one that does not decode; 2 prices, cache of size 1 | `TypeOK`, `NoStaleNonce`, `PayableUnlessOvertaken`, `AdmittedTogether`, `BusyEnds` |
| `node_restart` (MCNode_restart) | 5 blocks, one without transactions, one transaction that waits a block longer, 2 crashes at any step, 1 stop | `TypeOK`, `HistoryFaithful`, `LostOnlyByCrashes`, `PublishedAreStored`, `DecidedAreExecuted`; of the API `ReceiptInItsBlock`, `RangesInclusive` |
| `replicas_agree` (MCReplicas_agree) | 3 nodes, 2 epochs of which the second ends before the first takes effect, 10 blocks, 4 of them with staking transactions | `SameState`, `SameValidators` |

Why the bounds are enough. A reward lives for one epoch after its own, and a validator is
removed at the earliest at the second switch after it lost its power, so three switches in
five blocks contain the whole life of a validator: registration, duty, retirement, last
reward, removal, and the reuse of its key. In `app_coins` three blocks with an epoch each
reach the removal of a validator, whose stake is paid back in the last Commit; a1 and a2
sign every block, which halves the choices of signers. The gas price refers only to the
price at the last block. The code allows 16% per block, which takes four votes of 5% to
exceed; `MaxMinGasPriceDeltaRate` is 6 in `app_coins`, so that two do, in one block, and not
in two. The limits of the price are out of reach of two votes: that they hold is proved only
(`PriceBoundedHolds`). In the watcher, 11 blocks with depth 2 and epochs of 2 give four
epochs, more than `KeptEpochs`, and two drops of the memory; a reorganization is as deep as
the confirmations allow. Amounts are small; `Word` is 4096, large enough that nothing wraps
unless the code's own arithmetic goes below zero. A block takes one unit of time and
EpochSwitchDelay is 0; end times and arrivals are what makes epochs early or late.

What the contract owes and holds. `StakeBacked` compares the two as integers: the
contract holds exactly the stakes and rewards on record, less the genesis stakes that
InitChain records without paying them in, plus what genesis.json allots to it. It is
what the code should do, and the code does it in `app_signing`, where validators are
removed one at a time, all on duty vote and nobody is slashed; the three ways in which it
fails are `app_slash` (3.2) and the first two of 3.3. `DebtSettled` is about all
steps, also beside these: the difference between the two moves only by the stakes that
clearUp pays back and keeps on record, as it does in `app_registry`, and in a Commit that
slashes. It is a congruence modulo `Word`, so a wrap-around is for `StakeBacked` to find,
not for it: an empty contract's balance wraps when the first genesis stake is paid back, as
in `app_registry`, where genesis allots nothing to the contract; `app_signing` allots the stakes.
Edits and other receivers of rewards are in `app_coins`, not in `app_registry`; that they
keep to `DebtSettled` is proved (`DebtSettledHolds`).

In the filters, channels of size 1 are full after one event (10 in the source: more
events, the same waits), and three blocks are more than channel and event loop
hold. In the mempool, the two senders and three nonces contain every way in which
a block makes a waiting transaction stale: its nonce used by another one, its
sender's coins spent by himself or taken by another, the price raised. In Node two
crashes fit into the writing of one block or of two successive ones, and five
blocks leave room for the executions of both. In Replicas three nodes are more than
the two that a disagreement takes.

Fairness. `watcher_follow`: weak fairness of the watcher's steps (Run
is a loop in its own goroutine, and every RPC call returns, with a block or with nil)
and of `Receive` (every Commit polls the channel, and blocks go on being committed).
Nothing is assumed of the BCH node: it may leave any request unanswered, and then Run
panics, which `AllEpochsSent` names as the one other end (`Unanswered`). The end that
should be reached is that the tip is added and every complete epoch sent; it says nothing of
what Run does when it then asks for more (3.3). `filters_polling`: weak fairness of
publishing, the event loop and timeoutLoop's scan once it has begun, strong
fairness of whoever waits for `filtersMu`, because Go's mutex starves nobody.
Nothing is assumed of clients or timers. `mempool_check`: weak fairness of Recheck,
and strong fairness of a Commit with the oldest transaction of the mempool, which
is what proposers take. `node_restart`: weak fairness of blocks, Commit, postCommit
and the restart by an operator; crashes are bounded. App, Replicas and RpcClient are
checked for safety only: whether blocks come is up to Tendermint.

What the conditions in some properties leave out. CheckTx passes a rechecked transaction
whose sender is neither in touchedAddrs nor in sep206SenderSet ("the tx can pass").
`NoStaleNonce` and
`PayableUnlessOvertaken` make an exception for transactions that are `overtaken`: another
transaction of the same sender was executed later than in the block after its own, so that
its sender was in the touchedAddrs of an earlier block only, and since then the overtaken
one has not been checked. That is a departure of the code from its comment: a sender's
transaction waits in the engine for a block longer, he sends another one with the same
nonce, the first runs and spends his coins, and the second passes every recheck with a
used nonce and a fee that he cannot pay, until a block takes it and its execution fails,
or its sender is touched. Without the exception TLC finds this within seconds.
`ReceiptInItsBlock` allows block hash 0 in receipts of the block at
which the node was restarted: reload executes it with nothing but its number (timestamp
and miner are zero too). `LostOnlyByCrashes` allows two blocks per crash: the one whose
AddBlock had not begun and the one still being written. `SameValidators` speaks of nodes
with no epoch waiting: a node whose watcher delivered early keeps its currValidators
until the switch, while those of another still follow the transactions, and the two
return different validator updates for the same block; without the condition TLC
finds this in eight states.

### 3.2 Runs that find a disagreement

Each states what a comment says of the code, and TLC shows what the code does.

| Run | Property | What happens |
|---|---|---|
| `app_absent` (MCApp_absent) | `VotersRegistered` | EndBlock never reports power 0, so Tendermint keeps a removed validator, whose next vote finds no entry; this is why `app_signing` has validators sign as long as they are counted |
| `app_slash` (MCApp_slash) | `StakeBacked` | Slash burns the coins and does not save the reduced stake and the cleared rewards, so that the contract owes more than it holds. A Slash that saved them would satisfy the property |
| `filters_timeout` (MCFilters_timeout) | `CommitNotBlocked` | timeoutLoop unsubscribes under filtersMu; with a second filter it, the event loop and that filter's goroutine wait for each other, and Commit with them; this is why `filters_polling` has no second filter beside one that is not polled |

### 3.3 Other departures

The model has these behaviours too, as the code does; there is no run for them.

* Of two neighbours in the list that become useless in one switch, clearUp's loop skips the
  second ("Remove the useless validators from info and return StakedCoins to them"): it is
  paid back and stays registered with its stake, to be paid back again at a later switch.
  This happens in `app_registry`; `PaidAndKept` is the set of those skipped.
* When validators with more power than those on duty retire and go on voting, their power
  counts in votedPower and not in totalVotingPower: the proposer's extra fee exceeds the
  rest of the fee, and what remains wraps around. It takes one validator with nine tenths
  of the power that retires, in an instance without epochs or evidence, for TLC to
  find `StakeBacked` violated.
* At the tip of the main chain the watcher gets nil for the next height, sleeps ("this case
  only means height is latest block"), and hands nil to addBlock, which panics. So Watcher
  ends there: `FetchNil` stands for both the tip and a request that is not answered.
* eth_getLogs converts only a number that is not given: up to "latest", which is -1, it asks
  the store for a range that ends at -1 + 1 = 0. `RangesInclusive` speaks of eth_getLogs
  between two heights.
* `allBurnt` grows even if the transfer of the slashed coins to the black hole fails.
* clearUp panics (slice bounds out of range) when the last validator of the list is useless
  and another one was deleted before it. TLC meets it on `app_registry`, where it
  ends the behaviour; neither `app_coins` nor `app_signing` does.
* The genesis stakes are recorded and not paid in. If genesis.json allots nothing to the
  contract, its balance wraps around when the first of them is paid back.
* A stake of exactly InitialStakingAmount is refused.
* The watcher panics on any request for a block that is not answered. One that starts above
  height 0 traces back below its start and panics. A reorganization one block
  deeper than the confirmations that replaces the newest final block goes
  unnoticed. addBlock's "impossible" return happens after the memory was dropped.
* The first nomination of a key in an epoch counts twice; but GetValidatorPubKey
  shadows its result `ok`, so that no block has a nomination.
* An answer "no block at this height" in the form of an error object makes the
  RPC client panic; a request that fails yields nil although the height is there.
* Published logs have block number 0 and never match a filter with a first block.
  Headers by hash have no bloom, so that eth_getLogs for a block hash with an
  address or a topic returns nothing.
* The signature cache holds one entry more than its size.

## 4. Proofs

`tlapm M.tla` for each of AppProof, WatcherProof, RpcClientProof, ReplicasProof,
NodeProof, FiltersProof, MempoolProof and ProofLemmas checks them. They hold for
every value of the constants that the assumptions of the modules allow, without
bound on blocks, nodes, filters or crashes: the bounds of the runs are constants
too, and any natural number will do. TLC evaluates the assumptions on every run.
Each theorem has the form `Spec => []P`, or `Spec => []` of an action property, or
`Spec => ImplementsEpochSource`; the ones about coins and panics have hypotheses, which
the next table names: about the constants (`ASSUME C PROVE Spec => []P`) or about all
states of a behaviour (`Spec /\ []Q => []P`).

| Module | Theorems | Conditions beside the types of the constants |
|---|---|---|
| AppProof | `UniqueValidatorsHolds`, `RewardsHaveValidatorsHolds`, `OneRewardPerEpochHolds`, `RewardWindowHolds`, `DutyRegisteredHolds`, `PriceBoundedHolds`, `ImmatureRewardsKeptHolds`, `RetirementIsFinalHolds` | genesis validators are finitely many and differ in address, key and place; the default gas price lies within its limits |
| AppProof | `TypeOKHolds` | and transactions are finitely many, and none is sent by an account of the chain itself |
| AppProof | `SupplyConservedHolds` | and `OrdinaryRewards`, `EmptySystemAcc` |
| AppProof | `DebtSettledHolds` | those of `TypeOKHolds` |
| AppProof | `SystemAccCoversHolds` | `OrdinaryRewards`, `EmptySystemAcc`, `PayableGas` |
| AppProof | `NoCrashHolds` | the same, and `[]KnownSigners`, `[]ClearUpInBounds` |
| WatcherProof | `TypeCorrect`, `MemoryBoundedHolds`, `RefinesEpochSource` | none |
| WatcherProof | `FinalizedOnBestChainHolds`, `EpochsPartitionHolds` | `MaxReorg <= FinalizeDepth` |
| RpcClientProof | `FetchIsAtomicHolds` | none |
| ReplicasProof | `SameStateHolds`, `SameValidatorsHolds` | `Lag <= EpochSwitchDelay` |
| NodeProof | `TypeCorrect`, `HistoryFaithfulHolds`, `PublishedAreStoredHolds`, `LostOnlyByCrashesHolds` | `DecidedOnce` |
| NodeProof | `ReceiptInItsBlockHolds`, `RangesInclusiveHolds` | and blocks differ in their hashes, and heights fit into 32 bits |
| FiltersProof | `TypeCorrect`, `UninstalledIsSilentHolds`, `NothingLostHolds` | none |
| MempoolProof | `TypeCorrect`, `NoStaleNonceHolds`, `PayableUnlessOvertakenHolds`, `AdmittedTogetherHolds` | none |

The conditions. `MaxReorg <= FinalizeDepth` is what the code's ten confirmations are
for ("a block need 10 confirmation to finalize"), and `Lag <= EpochSwitchDelay` what its
delay of a switch is for. Both are as weak as they can be: with one more block of
reorganization, or one more of lag, TLC finds a violation. They are hypotheses of the
theorems, not assumptions of the modules. `DecidedOnce` says that no transaction is
decided twice; in the program the second one has a nonce that is used, and never
gets into the queue. `ReceiptInItsBlock` compares the answers to requests by block hash
with those by height, which takes that hashes tell blocks apart.

Of the conditions on App, `OrdinaryRewards` says that nobody names an account of the chain
itself as the receiver of his rewards. The code does not refuse it; a payment to the
staking contract would be overwritten by its own debit, and one to the system account or
to the black hole be taken for gas or for burnt coins. `EmptySystemAcc` says that genesis
allots nothing to the account that holds the gas, and `PayableGas` that the gas of all transactions
together is less than 2^256, so that the system account does not wrap around. MCApp
assumes these three, so that TLC evaluates them on all App runs. The other
two are about behaviours. `ClearUpInBounds` excludes that clearUp's loop panics (3.3); TLC
finds states of the `app_registry` instance that violate it, and none of `app_coins` and
`app_signing`. `KnownSigners` says that the
proposer and the voters of the last block are still registered when the fees are
distributed; it holds in `app_signing`, and `app_absent` shows what happens when
it does not. So `NoCrashHolds` says that these are the only ways to a panic. That a
transaction is not sent by the staking contract, the system account or the black hole is
an assumption of the module: nobody has their keys.

### 4.1 Staking and App

The inductive invariant `Inv` (AppProof) is the conjunction of

* `WorldShape`: the record of the world has its fields;
* `Registry`: validators are well typed, finitely many and distinct; every reward
  has its validator, is the only one of its epoch, and is of the current epoch or
  the one before;
* `Prices`: the gas price is within its limits and within the change per block;
* `DutyRegistered`;
* the types of epochList, epochChan and sentEpochs.

The parts of `Registry` need each other. A reward keeps its validator because only
validators without rewards are removed and addresses are unique. A reward is
alone in its epoch because a switch finds no entry of the epoch it begins, which
follows from the window in which entries live; and the window holds because
endEpoch takes every entry that is old enough. A new validator gets a fresh
place because a finite set has a maximum (`FiniteSetHasMax` in ProofLemmas, by a
least counterexample), which is why finiteness is part of `Registry`.

There is one lemma per operation of Staking (`CreateRegistry`, `EditRegistry`,
`MinGasPriceVote`, `EndEpochRegistry`, `VotingPowerRegistry`, `ClearUpRegistry`,
`AllocateRegistry`, `SwitchEpochRegistry`, `DistributeFeeRegistry`): it preserves
`Registry` and says what happened to validators and rewards. They are combined
per action (`CommitInv`, `ExecuteTxInv`, `OtherStepInv`) into `SpecInv`.

The coins. The code adds and subtracts words, so what holds of sums holds modulo `Word`:
`Same(a, b)` is that congruence, `Ledger` that all amounts are words. There is again a lemma
per operation, which says what it does to the sum of all balances, to the balance of the
system account and to `Debt`, what the staking contract owes less what it holds (`DebtKept`,
and `DebtGrows` by an amount). A transfer keeps the first; createValidator and editValidator
add the same to stakes and balance; endEpoch turns rewards into payments, which takes that
every reward has one validator (`Registry`) and that payments to ordinary accounts are
summed by receiver (`SumByGroup`); clearUp pays back the stakes of the useless validators
and takes those of the deleted ones off the record (`ClearUpCoins`), so that the debt grows
by those of the others; DistributeFee splits a fee into shares whose sum is the fee, the
rest going to the proposer; the shares wrap around together with the rest, so this holds
modulo `Word` for any powers; Slash moves coins from the contract to the black hole.
`DebtSettledHolds` needs no more than `TypeInv`: a Commit without evidence changes the debt
in clearUp only (`CommitDebt`), and the execution of a transaction not at all. The
invariants, checked by TLC before they were proved:

* `TypeInv`: `TypeOK`, `Inv`, and the rewards are finitely many;
* `MoneyInv`: with it, rewards go to ordinary accounts; Commit finds the fee and the refund
  that the engine counted, and no refund without a fee (`GasAccounts`); nothing is in the
  system account before the first Commit (`Fresh => Unspent`), which pays no reward and
  empties it; and the supply is that of genesis, plus refunds that execution has credited
  and Commit has not yet taken from the system account;
* `CoverInv`: with `MoneyInv`, a transaction waits in one place only (`WaitOnce`: delivered, or
  charged and not executed), and the system account holds the gas of those that wait and
  the fees and refunds of those that ran.

`CoverInv` is what `SystemAccCovers` is after, for the interleaving of postCommit with the
next block: whatever part of the queue ran, in whatever order, the check in the next
Commit finds the coins. `NoCrash` follows from the parts: endEpoch finds the validator of
every reward (`Registry`), SwitchEpoch pays back without failing, Commit can settle the
system account (`CoverInv`); what is left are the two hypotheses (`SwitchSurvives`,
`PaySurvives`, `CommitSurvives`).

### 4.2 Watcher and RpcClient

`IInv` of WatcherProof: `NodeOK` (a hash names one block, whose parent is one lower),
`LoopOK` (where Run is), `StoreOK` (finalized blocks are known, one per height, without
gap from the oldest kept one to latestFinalizedHeight), `EpochsOK` (while an epoch is
being sent, latestFinalizedHeight = lastEpochEndHeight + NumBlocksInEpoch; otherwise
it is less; lastEpochEndHeight is where the epochs sent so far end). `EpochsOK` gives
the refinement: the send is the abstract Send because the waiting epoch starts after
all that were sent. `Ancestors` is a recursive function; that it follows the parents
is `AncestorsRecursion` (by `IntervalInduction`, an induction written with a set), and
`WayUp` that it is a single line.

`FinalOK` adds what finality needs: a witness F of where the branch of each known block
leaves the best chain, never more than FinalizeDepth below the block (`Forks`), and that
finalized blocks, and those of the epochs made of them, are on the best chain, at least
FinalizeDepth below its tip. The block that addBlock finalizes is FinalizeDepth below
one it was given, hence below that one's fork and on the best chain; and a
reorganization of at most FinalizeDepth blocks forks above everything finalized.

`IInv` of RpcClientProof: `NodeOK` (a new branch has a new name and a new block a new
height, so what the node says of a block never changes, `KnownStays`) and `CallOK`
(what the requests so far have returned are parts of one block, which was the right
answer when the first of them was given).

### 4.3 Replicas

Which epoch takes effect in a block is a function of the blocks alone. `History(f)`
says that f gives, for every decided height, the number of epochs that took effect up
to it and the state, computed without looking at a watcher. `InStep(f, n)` says that
node n is in the state that f has at its height and has the other epochs, as far as
its watcher has delivered them, waiting in order. The step that needs the condition:
when an epoch is due, it has been sent on every node. The invariant is
`\E f : History(f) /\ \A n : InStep(f, n)`; a new decided block extends f.

### 4.4 Node and Api

The invariant follows a transaction through Commit: it waits in the queue on disk
until the Commit that makes the block durable in which it ran takes it out, and from
then on it is in the history or on its way there, and nowhere else; in between it may
run several times in memory. `DiskOK` says this of what survives a crash (`QueueOK`,
`StoreOK`, the latter with the set of transactions the history may not contain),
`RunningOK` what of it the process remembers in each phase of Commit, `PublishedOK` that
the heights told to subscribers end with the one stored last, `DownOK` that nothing but
the disk is left when it is down. For `LostOnlyByCrashes` a crash is shown to take at
most two blocks out of what will be written (`Missing`), and every other step none.

The answers of Api follow from `IInv` without more about the states. `RangesInclusive` needs
what FlattenSeq does: its result is in order, contains nothing that is not in one of the
parts, and all of them (`Gathered`, shown for the first n parts by induction, `Flattened`).
`Tour` says that the heights prepareHeightRange leads to are those between the two
numbers, both included, ascending or descending (`TourUp`, `TourDown`: the end above the
last height, or the start above the first, as the direction requires; `Uint32Fits`:
nothing is cut off). A block's transactions carry its number (`BlockOK`), hence the
order of the answer (`FoundFacts`). A filter without criteria keeps a sequence of logs
as it is (`LogsFacts`, with `FlattenedOnes`).

### 4.5 Filters

The invariant follows an event from publishNewBlock to the poll. `ChannelsOK`: what a
channel holds is what was published and not yet taken, in order. `LoopOK`: what the
event loop is sending is the last event it took, to installed filters, to each once.
`LifeOK`: the life of a filter, in particular that timeoutLoop's scan covers registered
filters only, and that a filter without a goroutine was given nothing. `DeliveryOK`:
`NothingLost`, and the same for a filter that is subscribed but not yet registered; it
is the reason why no event is missed in between: the event loop waits with it until
the goroutine exists. `NothingLost` is stated as "ascending, with exactly the elements of
Owed", which determines the sequence; `AscendingMore` and `AscendingTail` are how it
changes at its ends, `DeliveredMore` and `DeliveredMoves` how an event moves from one
part of it to the next.

### 4.6 Mempool

`Inv` is the conjunction of

* `TypeOK`, whose ranges are part of the claim: balances are never negative, because
  Prepare charges a sender only if he can pay for all he has in the block;
* `PoolInv`: no transaction is twice in the mempool, and the counter has room for the
  rechecks that are left;
* `TouchedInv`: what the mempool holds of touched senders is still to be rechecked;
* `UsableInv`: `NoStaleNonce` and `PayableUnlessOvertaken` with what is still to be
  rechecked: a used nonce belongs to an overtaken transaction or to a touched sender, a fee
  that cannot be paid to one of these or to a sender that lost coins and whose transaction
  is still to be rechecked;
* `TrunkInv`: checkTrunk is the committed state with the transactions admitted since,
  whose nonces are consecutive.

The step that matters is Commit. A transaction that stays in the mempool, whose sender is
not touched by the new block and that is not overtaken has the nonce it had: its sender was
not touched by the last block either (`TouchedInv`), so an execution of his would have been a
late one. And he has the balance he had, unless he is in the new sep206SenderSet. So
each of the two sets that refresh replaces is needed, and for executions in their turn one
block's worth of them is enough.

The accounts after a block are a fold over the transactions that ran, the mempool a
fold over the old one, and fees a sum. `FoldExists` (ProofLemmas) says that such a fold
is defined on all subsets of a finite set, and `SubsetInduction`, an induction written
with a set, what it preserves: `RunAllKeeps`, `WithoutLaws`, and the laws of sums
(`SumEmpty`, `SumAdd`, `SumRemove`, `SumSame`, `SumMonotonic`), used here as `FeesLaws`. App's
coins need more of them: of disjoint unions, images and groups (`SumUnion`, `SumImage`,
`SumByGroup`) and modulo a number (`SumSameMod`, with the laws `SameMod...`).

### 4.7 Only model-checked

* Liveness: `AllEpochsSent`, `CommitNotBlocked`, `FilterRemoved`, `BusyEnds`,
  `DecidedAreExecuted`. Fairness is beyond this prover.
* `StoredInfoDecodes` (MCApp), whose decoder is recursive.
* `StakeBacked`, which does not hold of every behaviour: its conditions (no evidence, no two
  useless neighbours, no retired voters) are choices of the instance `app_signing`. What is
  proved of the contract's coins is `DebtSettled`, modulo the word.
* `VotersRegistered`, which does not hold (3.2).

All other invariants and action properties of the runs are stated by a theorem. One more
invariant has a theorem and no run of its own, `UninstalledIsSilent`: what is sent after
an uninstall is a matter of the single event loop, and part of the invariant that proves
`NothingLost`.

## 5. Not modelled

* The virtual machine and ordinary transactions: a library. App's transactions are
  calls of the staking contract with their gas; Mempool's and Node's are what they do
  to nonces and balances, or only their order. With them eth_call and estimateGas.
* Requests that are a constant or a single read of the state (chain id, gas price,
  balances, code, storage, net_, web3_, tm_, txpool_): nothing can come between.
  sbch_queryLogs passes its range on as it is, so that its end is not included, unlike
  those of the other sbch_ queries.
* Subscriptions over websockets: the event system of Filters, with the client's channel
  instead of a filter. Removed logs, pending logs and transactions: nothing in the
  source publishes them. Light mode: commented out.
* sumVotingPower, the read-only call of the staking contract. Its loop skips the last
  address of the list and multiplies an offset in bytes by 32 again, so that from the
  second turn on it reads beyond the list.
* Command line, configuration, start-up, helpers, test tools: no state of their own.
* A restart together with epochs. NewApp starts the watcher at height 0 (a todo in the
  source), so that it sends all epochs again, and the epochs that were waiting are
  lost: there is no agreement to check. For the same reason `readonlyStakingInfo`, which
  is nil until the first Commit after a restart, is not a variable.

## 6. What could follow

Modelled as far as the source carries it, and proved except for 4.7. Two things would be
next if the code changed: should EndBlock report power 0, `KnownSigners` could be proved
instead of assumed (from Tendermint's delay of two blocks and the one epoch that a
validator stays on record); should clearUp collect the validators before it deletes,
`ClearUpInBounds` would hold by definition and `PaidAndKept` be empty; and with a Slash that saves
its info and a votedPower of active validators, `StakeBacked` could be an invariant.
