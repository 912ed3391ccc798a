-------------------------------- MODULE App ---------------------------------
(***************************************************************************)
(* app/app.go: the ABCI application, driven block by block by Tendermint.  *)
(*                                                                         *)
(* Tendermint calls BeginBlock, DeliverTx*, EndBlock and Commit. Commit    *)
(* takes app.mtx, settles the previous block (epoch switch, slashing,      *)
(* fees) and starts postCommit in a goroutine, which executes the block's  *)
(* transactions and releases app.mtx: the next block's BeginBlock,         *)
(* DeliverTx and EndBlock interleave with it, the next Commit waits for    *)
(* it. The watcher's epochs arrive through EpochChan, of capacity 1, at    *)
(* any moment.                                                             *)
(*                                                                         *)
(* External, modelled from how app.go uses it: Tendermint (tm), and the    *)
(* transaction engine of moeingevm (engine), which charges a block's       *)
(* transactions in Prepare, runs them in Execute in an order of its own    *)
(* and may leave some in its standby queue for the next block.             *)
(***************************************************************************)
EXTENDS Staking, Sequences, SequencesExt, TLC

CONSTANTS
    Genesis,            \* the validators of genesis.json
    GenesisBalance,     \* the allocations of genesis.json
    Txs,                \* the transactions that users may send, once each
    Epochs,             \* what the watcher sends, in order
    Reliable,           \* keys whose owners sign every block
    Evidences,          \* lists of double signers a block may report
    MaxHeight,          \* bound: the last block
    EpochSwitchDelay    \* 100*10*60 seconds in the source

ASSUME GenesisAssumption ==
    /\ Genesis \subseteq Validator
    /\ IsFiniteSet(Genesis)
    /\ DistinctValidators(Genesis)
    /\ GenesisBalance \in [Accounts -> Coins]

(* An epoch, as Commit uses it: when it ended, and who was nominated.      *)
Epoch == [EndTime : Nat, power : Nominations]

ASSUME EpochsAssumption == Epochs \in Seq(Epoch)

(* Without a gas price there is nothing to give back either.               *)
ASSUME TxsAssumption ==
    /\ Txs \subseteq StakingTx
    /\ IsFiniteSet(Txs)
    /\ \A tx \in Txs : /\ tx.From \notin ReservedAccounts
                       /\ tx.fee = 0 => tx.refund = 0

(* The evidence names keys, and there is a last block.                     *)
ASSUME BlocksAssumption ==
    /\ Evidences \subseteq Seq(Pubkeys)
    /\ MaxHeight \in Nat

VARIABLES
    world,          \* what the store holds
    phase,          \* which ABCI call Tendermint makes next
    mtx,            \* app.mtx is held (by postCommit)
    block,          \* app.block
    currValidators, lastProposer, lastCommitInfo, slashValidators,
    epochList, lastGasFee, lastGasRefund,
    epochChan,      \* watcher.EpochChan
    sentEpochs,     \* how many of Epochs the watcher has sent
    engine,         \* the transaction engine
    tm,             \* Tendermint's validator sets
    sent            \* the transactions sent so far

watcherVars == <<epochChan, sentEpochs>>
chainVars == <<tm, sent>>
feeVars == <<lastGasFee, lastGasRefund>>
blockVars == <<block, lastProposer, lastCommitInfo, slashValidators>>
dutyVars == <<currValidators, epochList>>
vars == <<world, phase, mtx, blockVars, dutyVars, feeVars, watcherVars,
          engine, chainVars>>

-----------------------------------------------------------------------------
(* InitChain. The genesis stakes are recorded, not paid in, and there are  *)
(* no reward entries yet. The active filter does not truncate.             *)
GenesisInfo ==
    [CurrEpochNum |-> 0, Validators |-> Genesis, PendingRewards |-> {}]

(* external: Tendermint. A validator set maps keys to powers; the set of   *)
(* block H+2 is that of H+1 with the updates of EndBlock(H). An update     *)
(* never has power 0 here, so no key ever leaves.                          *)
ValidatorUpdates(vals) ==
    [k \in {v.Pubkey : v \in vals} |->
        (CHOOSE v \in vals : v.Pubkey = k).VotingPower]

Updated(valset, updates) ==
    [k \in DOMAIN valset \cup DOMAIN updates |->
        IF k \in DOMAIN updates THEN updates[k] ELSE valset[k]]

SetPower(valset, keys) == SumFunctionOnSet(valset, keys)

(* The signers of a commit: more than two thirds of the power, and among   *)
(* them all the reliable keys.                                             *)
Commits(valset) ==
    {S \in SUBSET DOMAIN valset :
        /\ Reliable \cap DOMAIN valset \subseteq S
        /\ \/ DOMAIN valset = {}
           \/ 3 * SetPower(valset, S) > 2 * SetPower(valset, DOMAIN valset)}

Init ==
    LET active == OnDuty(GenesisInfo, MinimumStakingAmount)
        valset == ValidatorUpdates(active)
    IN  /\ world = [info |-> GenesisInfo, balance |-> GenesisBalance,
                    allBurnt |-> 0, minGasPrice |-> DefaultMinGasPrice,
                    lastMinGasPrice |-> DefaultMinGasPrice, panic |-> NoPanic]
        /\ currValidators = active
        /\ phase = "begin"
        /\ mtx = FALSE
        /\ block = [Number |-> 0, Timestamp |-> 0]
        /\ lastProposer = CHOOSE k \in Pubkeys : TRUE  \* zero; not read
        /\ lastCommitInfo = {}
        /\ slashValidators = <<>>
        /\ epochList = <<>>
        /\ lastGasFee = 0
        /\ lastGasRefund = 0
        /\ epochChan = <<>>
        /\ sentEpochs = 0
        /\ engine = [collected |-> {}, standby |-> {}, fee |-> 0, refund |-> 0]
        /\ tm = [prev |-> <<>>, cur |-> valset, next |-> valset]
        /\ sent = {}

Running == world.panic = NoPanic

-----------------------------------------------------------------------------
(* The watcher's send on EpochChan, which blocks while the channel is full. *)
SendEpoch ==
    /\ Running
    /\ sentEpochs < Len(Epochs)
    /\ epochChan = <<>>
    /\ epochChan' = <<Epochs[sentEpochs + 1]>>
    /\ sentEpochs' = sentEpochs + 1
    /\ UNCHANGED <<world, phase, mtx, blockVars, dutyVars, feeVars, engine,
                   chainVars>>

(* One block per unit of time. The votes are those for the previous block, *)
(* the proposer is this block's.                                           *)
BeginBlock(proposer, signers, evidence) ==
    /\ Running
    /\ phase = "begin"
    /\ block.Number < MaxHeight
    /\ ToSet(evidence) \subseteq DOMAIN tm.prev
    /\ block' = [Number |-> block.Number + 1, Timestamp |-> block.Timestamp + 1]
    /\ lastProposer' = proposer
    /\ lastCommitInfo' = lastCommitInfo \cup signers
    /\ slashValidators' = slashValidators \o evidence
    /\ phase' = "deliver"
    /\ UNCHANGED <<world, mtx, dutyVars, feeVars, watcherVars, engine,
                   chainVars>>

(* The transactions of a block, collected by the engine.                   *)
DeliverTx(tx) ==
    /\ Running
    /\ phase = "deliver"
    /\ engine' = [engine EXCEPT !.collected = @ \cup {tx}]
    /\ sent' = sent \cup {tx}
    /\ UNCHANGED <<world, phase, mtx, blockVars, dutyVars, feeVars,
                   watcherVars, tm>>

(* EndBlock returns the whole of currValidators as updates.                *)
EndBlock ==
    /\ Running
    /\ phase = "deliver"
    /\ tm' = [prev |-> tm.cur, cur |-> tm.next,
              next |-> Updated(tm.next, ValidatorUpdates(currValidators))]
    /\ phase' = "commit"
    /\ UNCHANGED <<world, mtx, blockVars, dutyVars, feeVars, watcherVars,
                   engine, sent>>

-----------------------------------------------------------------------------
(* The steps of Commit. At most one epoch is received; the oldest one in   *)
(* the list takes effect once the block is EpochSwitchDelay past its end.  *)
(* With epochs waiting in the list currValidators is left as it was.       *)
EpochsAtCommit == epochList \o epochChan

EpochDue ==
    /\ EpochsAtCommit # <<>>
    /\ block.Timestamp > Head(EpochsAtCommit).EndTime + EpochSwitchDelay

SwitchIfDue(w) ==
    IF EpochDue THEN SwitchEpoch(w, Head(EpochsAtCommit).power) ELSE w

FaultyDutyNotSwitched(w) ==
    IF EpochsAtCommit = <<>>
    THEN GetActiveValidators(w.info, MinimumStakingAmount)
    ELSE currValidators

ValidatorsAtCommit(w) ==
    IF EpochDue \/ EpochsAtCommit = <<>>
    THEN GetActiveValidators(w.info, MinimumStakingAmount)
    ELSE currValidators

(* Slash stores nothing but balances and allBurnt.                         *)
SlashAll(w) ==
    LET slashed == FoldLeft(LAMBDA x, k : Slash(x, k, SlashedStakingAmount),
                            w, slashValidators)
    IN  [w EXCEPT !.balance = slashed.balance, !.allBurnt = slashed.allBurnt]

FaultyNoRefundDue == 0

(* The system account returns what was refunded to senders, and pays the   *)
(* block reward: the fees of the last block, or all it has when no         *)
(* transaction is waiting in the engine.                                   *)
RefundDue == IF lastGasFee # 0 THEN lastGasRefund ELSE 0

BlockReward(w) ==
    IF engine.standby # {} THEN lastGasFee
    ELSE w.balance[SystemAddress] - RefundDue

SettleSystemAcc(w) ==
    IF w.balance[SystemAddress] < RefundDue + lastGasFee
    THEN [w EXCEPT !.panic = "system balance"]
    ELSE [w EXCEPT !.balance[SystemAddress] = @ - RefundDue - BlockReward(w)]

(* A proposer or voter that is not registered has no entry in              *)
(* pubkeyMapByConsAddr or valMapByPubkey. The first block has no voters.   *)
PayBlockReward(w, reward) ==
    IF block.Number = 1 THEN w
    ELSE DistributeFee(w, reward, lastProposer, lastCommitInfo)

(* external: the engine charges the gas of the transactions whose senders  *)
(* can pay for all they sent in this block.                                *)
Gas(S) == SumFunction([tx \in S |-> tx.fee + tx.refund])

Prepared(w) ==
    LET From(a) == {tx \in engine.collected : tx.From = a}
    IN  {tx \in engine.collected : Gas(From(tx.From)) <= w.balance[tx.From]}

Prepare(w) ==
    [w EXCEPT !.balance =
        [a \in Accounts |->
            IF a = SystemAddress THEN Add(w.balance[a], Gas(Prepared(w)))
            ELSE Sub(w.balance[a], Gas({tx \in Prepared(w) : tx.From = a}))]]

(* refresh: the price limits of the next block refer to the price now.     *)
RefreshMinGasPrice(w) == [w EXCEPT !.lastMinGasPrice = w.minGasPrice]

Commit ==
    LET switched == SwitchIfDue(world)
        settled == SettleSystemAcc(SlashAll(switched))
        paid == PayBlockReward(settled, BlockReward(SlashAll(switched)))
        crash == IF switched.panic # NoPanic THEN switched.panic
                 ELSE IF settled.panic # NoPanic THEN settled.panic
                 ELSE paid.panic
    IN  /\ Running
        /\ phase = "commit"
        /\ ~mtx
        /\ IF crash # NoPanic
           THEN /\ world' = [world EXCEPT !.panic = crash]
                /\ UNCHANGED <<phase, mtx, blockVars, dutyVars, feeVars,
                               watcherVars, engine, chainVars>>
           ELSE /\ world' = RefreshMinGasPrice(Prepare(paid))
                /\ currValidators' = ValidatorsAtCommit(switched)
                /\ epochList' = IF EpochDue THEN Tail(EpochsAtCommit)
                                ELSE EpochsAtCommit
                /\ epochChan' = <<>>
                /\ slashValidators' = <<>>
                /\ lastCommitInfo' = {}
                /\ engine' = [collected |-> {},
                              standby |-> engine.standby \cup Prepared(paid),
                              fee |-> 0, refund |-> 0]
                /\ mtx' = TRUE
                /\ phase' = "begin"
                /\ UNCHANGED <<block, lastProposer, feeVars, sentEpochs,
                               chainVars>>

-----------------------------------------------------------------------------
(* postCommit runs in its own goroutine under app.mtx. The engine executes *)
(* standby transactions one after another; each pays its sender's refund.  *)
ExecuteTx(tx) ==
    LET done == Execute(world, tx)
    IN  /\ Running
        /\ mtx
        /\ tx \in engine.standby
        /\ world' = [done EXCEPT !.balance[tx.From] = Add(@, tx.refund)]
        /\ engine' = [engine EXCEPT !.standby = @ \ {tx},
                                    !.fee = @ + tx.fee,
                                    !.refund = @ + tx.refund]
        /\ UNCHANGED <<phase, mtx, blockVars, dutyVars, feeVars, watcherVars,
                       chainVars>>

(* postCommit takes over the engine's account of the gas and unlocks.      *)
EndPostCommit ==
    /\ Running
    /\ mtx
    /\ lastGasFee' = engine.fee
    /\ lastGasRefund' = engine.refund
    /\ mtx' = FALSE
    /\ UNCHANGED <<world, phase, blockVars, dutyVars, watcherVars, engine,
                   chainVars>>

Next ==
    \/ SendEpoch
    \/ \E proposer \in DOMAIN tm.cur, signers \in Commits(tm.prev),
          evidence \in Evidences : BeginBlock(proposer, signers, evidence)
    \/ \E tx \in Txs \ sent : DeliverTx(tx)
    \/ EndBlock
    \/ Commit
    \/ \E tx \in Txs : ExecuteTx(tx)
    \/ EndPostCommit

Spec == Init /\ [][Next]_vars

-----------------------------------------------------------------------------
(* What the coins need to add up, and the code does not check. Rewards go  *)
(* to accounts that somebody has a key for; genesis.json allots nothing to *)
(* the account that holds the gas; and the gas of all transactions         *)
(* together fits in a word.                                                *)
OrdinaryRewards ==
    \A x \in Genesis \cup Txs : x.RewardTo \notin ReservedAccounts

EmptySystemAcc == GenesisBalance[SystemAddress] = 0

PayableGas == Gas(Txs) < Word

(* What a Commit needs not to panic, and does not check either: clearUp    *)
(* stays within the list that it deletes from, and the proposer and the    *)
(* voters are still registered when the block reward is distributed.       *)
ClearUpInBounds ==
    EpochDue =>
        ~DeletionOutOfBounds(
            updateVotingPower(endEpoch(world), Head(EpochsAtCommit).power).info)

KnownSigners ==
    phase = "commit" =>
        lastCommitInfo \cup {lastProposer}
            \subseteq {v.Pubkey : v \in SwitchIfDue(world).info.Validators}

-----------------------------------------------------------------------------
(* Properties.                                                             *)

(* The types of all variables.                                             *)
TypeOK ==
    /\ world \in World
    /\ phase \in {"begin", "deliver", "commit"}
    /\ mtx \in BOOLEAN
    /\ block \in [Number : 0 .. MaxHeight, Timestamp : Nat]
    /\ currValidators \subseteq Validator
    /\ lastProposer \in Pubkeys
    /\ lastCommitInfo \subseteq Pubkeys
    /\ slashValidators \in Seq(Pubkeys)
    /\ epochList \in Seq(Epoch)
    /\ lastGasFee \in Nat
    /\ lastGasRefund \in Nat
    /\ epochChan \in Seq(Epoch) /\ Len(epochChan) <= 1
    /\ sentEpochs \in 0 .. Len(Epochs)
    /\ engine \in [collected : SUBSET Txs, standby : SUBSET Txs,
                   fee : Nat, refund : Nat]
    /\ DOMAIN tm = {"prev", "cur", "next"}
    /\ \A x \in DOMAIN tm : DOMAIN tm[x] \subseteq Pubkeys
    /\ sent \subseteq Txs

(* AddValidator, "Pubkey and Address must be unique": whatever is created, *)
(* edited, retired and cleared up, no two registered validators share an   *)
(* address, a key or a place in the list.                                  *)
UniqueValidators == DistinctValidators(world.info.Validators)

(* A pending reward always belongs to a registered validator: endEpoch     *)
(* looks the validator up without a check when the reward is mature.       *)
RewardsHaveValidators == RewardsRegistered(world.info)

(* A validator has at most one reward entry per epoch, although both       *)
(* SwitchEpoch and DistributeFee append entries.                           *)
OneRewardPerEpoch == DistinctRewards(world.info)

(* Rewards wait for EpochCountBeforeRewardMature epochs and not longer:    *)
(* every entry is of the current epoch or the one before it.               *)
RewardWindow == RecentRewards(world.info, EpochCountBeforeRewardMature)

(* Staking, fees, payouts and burning move coins and never make or destroy *)
(* them. Refunds are paid to senders when a transaction is executed and    *)
(* taken from the system account in the next Commit.                       *)
UnsettledRefund == IF mtx \/ engine.fee # 0 THEN engine.refund ELSE 0

SupplyOf(balance) == SumFunctionOnSet(balance, Accounts)

SupplyConserved ==
    (SupplyOf(world.balance) - UnsettledRefund) % Word
        = SupplyOf(GenesisBalance) % Word

(* Commit, "invariant check for fund safe": the system account holds       *)
(* exactly the gas of the waiting transactions and what the last block is  *)
(* to pay, so neither of its panics is reached.                            *)
SystemAccCovers ==
    /\ world.panic # "system balance"
    /\ world.balance[SystemAddress]
          = Gas(engine.standby) + engine.fee + engine.refund

(* The keys and powers that EndBlock reports are those of registered       *)
(* validators, also while currValidators is left alone because an epoch is *)
(* waiting.                                                                *)
DutyRegistered ==
    \A c \in currValidators :
        /\ c.VotingPower > 0
        /\ \E v \in world.info.Validators :
              /\ v.Address = c.Address
              /\ v.Pubkey = c.Pubkey
              /\ v.VotingPower = c.VotingPower

(* The minimum gas price stays within its limits and never moves by more   *)
(* than MaxMinGasPriceDeltaRate percent of the last block's price, however *)
(* many validators vote on it in a block.                                  *)
PriceBounded ==
    /\ world.minGasPrice >= MinMinGasPrice
    /\ world.minGasPrice <= MaxMinGasPrice
    /\ WithinBlockDelta(world.minGasPrice, world.lastMinGasPrice)

(* A reward of the current epoch is never dropped by a step: not when a    *)
(* fee is added, not by an epoch switch, not by the removal of validators. *)
ImmatureRewardsKept ==
    [][\A pr \in world.info.PendingRewards :
          pr.EpochNum = world.info.CurrEpochNum =>
            \E q \in world'.info.PendingRewards :
                q.Address = pr.Address /\ q.EpochNum = pr.EpochNum]_vars

(* SwitchEpoch, "someone who call retire() before switchEpoch missed this  *)
(* update": a retiring validator stays retiring as long as it is           *)
(* registered, and its power can only fall to 0. (No step removes a        *)
(* validator and registers its address again.)                             *)
RetirementIsFinal ==
    [][\A v \in world.info.Validators, u \in world'.info.Validators :
          v.IsRetiring /\ u.Address = v.Address =>
            /\ u.IsRetiring
            /\ u.VotingPower \in {0, v.VotingPower}]_vars

(* What the staking contract owes, the stakes and the pending rewards, and *)
(* how much more than it holds that is.                                    *)
Owed(info) == StakeOf(info.Validators) + AmountOf(info.PendingRewards)

Debt(w) == Owed(w.info) - w.balance[StakingContractAddress]

(* DistributeFee, "the collected fee is saved as stakingAcc's balance,     *)
(* just as the staked coins": the contract holds exactly the stakes and    *)
(* the rewards that are on record, as integers and not modulo Word. What   *)
(* is left is what genesis.json begins with: InitChain records the genesis *)
(* stakes without paying them in, whatever it allots to the contract.      *)
StakeBacked ==
    Debt(world) = StakeOf(Genesis) - GenesisBalance[StakingContractAddress]

(* The validators that clearUp pays back in this Commit and fails to       *)
(* delete.                                                                 *)
PaidAndKept ==
    LET info == updateVotingPower(endEpoch(world),
                                  Head(EpochsAtCommit).power).info
    IN  IF EpochDue THEN GetUselessValidators(info) \ Deleted(info) ELSE {}

(* No step lets what the contract owes and what it holds drift apart: not  *)
(* a registration, an edit, a fee, a payout of rewards or a switch,        *)
(* whatever the contract held before. The equation is modulo Word, because *)
(* an empty contract's balance wraps around when the first genesis stake   *)
(* is paid back. The stakes that clearUp pays back and keeps on record add *)
(* to the debt; a Commit that slashes is left to StakeBacked.              *)
DebtMoves ==
    LET settles == ~mtx /\ mtx'
        added == IF settles THEN StakeOf(PaidAndKept) ELSE 0
    IN  \/ settles /\ slashValidators # <<>>
        \/ Debt(world') % Word = (Debt(world) + added) % Word

DebtSettled == [][DebtMoves]_vars

(* No block makes the process panic.                                       *)
NoCrash == Running

(* Slash, "If tendermint works fine, we'll never reach here": the votes    *)
(* and the evidence that a Commit handles come from registered validators. *)
VotersRegistered ==
    phase = "commit" =>
        lastCommitInfo \cup ToSet(slashValidators)
            \subseteq {v.Pubkey : v \in world.info.Validators}
=============================================================================
