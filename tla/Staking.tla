------------------------------ MODULE Staking -------------------------------
(***************************************************************************)
(* staking/staking.go: the staking contract. Every Go function that takes  *)
(* a ctx is an operator from a world to a world, where a world is what the *)
(* functions read and write through ctx:                                   *)
(*   info                   the StakingInfo in the contract's storage      *)
(*   balance                the balances of all accounts                   *)
(*   allBurnt               the slot that counts burnt coins               *)
(*   minGasPrice,                                                          *)
(*   lastMinGasPrice        the two gas price slots                        *)
(*   panic                  what made the function panic, or NoPanic       *)
(* A panic ends the process, and the writes of its ctx are lost: the       *)
(* callers discard every other field of a world that panicked.             *)
(***************************************************************************)
EXTENDS StakingTypes

CONSTANTS
    StakingContractAddress, \* 0x2710; it has no private key
    BlackHoleAddress,       \* where burnt coins go (external: ebp)
    SystemAddress,          \* holds prepaid gas (external: ebp)
    ZeroAddress,            \* twenty zero bytes
    InitialStakingAmount,   \* 1000 coins in the source
    MinimumStakingAmount,   \* 800 coins in the source
    SlashedStakingAmount,   \* 10 coins in the source
    DefaultMinGasPrice,     \* 0 in the source
    MinMinGasPrice,         \* 0 in the source
    MaxMinGasPrice,         \* 500 in the source
    MaxMinGasPriceDeltaRate \* 16 in the source, percent

ASSUME AddressAssumption ==
    {StakingContractAddress, BlackHoleAddress, SystemAddress, ZeroAddress}
        \subseteq Accounts

(* The accounts that the chain itself uses. Nobody has a key for them, so  *)
(* none of them sends a transaction (App!TxsAssumption).                   *)
ReservedAccounts == {StakingContractAddress, BlackHoleAddress, SystemAddress}

ASSUME ReservedAssumption ==
    /\ StakingContractAddress # BlackHoleAddress
    /\ StakingContractAddress # SystemAddress
    /\ BlackHoleAddress # SystemAddress

ASSUME StakingAmountAssumption ==
    /\ {InitialStakingAmount, MinimumStakingAmount, SlashedStakingAmount}
          \subseteq Coins
    /\ MinimumStakingAmount <= InitialStakingAmount

ASSUME GasPriceAssumption ==
    /\ {DefaultMinGasPrice, MinMinGasPrice, MaxMinGasPrice,
        MaxMinGasPriceDeltaRate} \subseteq Nat
    /\ MinMinGasPrice <= DefaultMinGasPrice
    /\ DefaultMinGasPrice <= MaxMinGasPrice

EpochCountBeforeRewardMature == 1

BaseProposerPercentage == 15

ExtraProposerPercentage == 15

MinGasPriceDeltaRate == 5

NoPanic == "none"

World ==
    [info : StakingInfo, balance : [Accounts -> Coins], allBurnt : Coins,
     minGasPrice : Nat, lastMinGasPrice : Nat,
     panic : {NoPanic, "nil validator", "slice bounds", "system balance"}]

(* A transaction to the staking contract. wellFormed stands for the length *)
(* and selector checks on its data; fee and refund are what the engine     *)
(* charges for its gas and gives back.                                     *)
StakingTx ==
    [op : {"createValidator", "editValidator", "retire",
           "increaseMinGasPrice", "decreaseMinGasPrice"},
     wellFormed : BOOLEAN, From : Accounts, Value : Coins,
     RewardTo : Accounts, Pubkey : Pubkeys, fee : Coins, refund : Coins]

-----------------------------------------------------------------------------
FaultyPayInNoDebit(balance, from, coins) ==
    [balance EXCEPT ![StakingContractAddress] = Add(@, coins)]

(* An amount moves from one account into the staking contract.             *)
PayIn(balance, from, coins) ==
    [balance EXCEPT ![from] = Sub(@, coins),
                    ![StakingContractAddress] = Add(@, coins)]

(* The staking contract pays owed[a] to every account a and the total out  *)
(* of its own balance. Its account object is loaded before the payments    *)
(* and stored after them, so a payment to the contract itself is           *)
(* overwritten.                                                            *)
PayOut(balance, owed, total) ==
    [a \in Accounts |->
        IF a = StakingContractAddress THEN Sub(balance[a], total)
        ELSE Add(balance[a], owed[a])]

(* createValidator. An amount equal to InitialStakingAmount is rejected.   *)
Create(w, tx) ==
    IF /\ tx.Value > InitialStakingAmount
       /\ CanAddValidator(w.info, tx.From, tx.Pubkey)
    THEN [w EXCEPT
            !.info = AddValidator(@, tx.From, tx.Pubkey, tx.Value, tx.RewardTo),
            !.balance = PayIn(@, tx.From, tx.Value)]
    ELSE w

(* editValidator and retire: a call to retire carries no arguments.        *)
Edited(v, tx) ==
    [v EXCEPT
        !.RewardTo = IF tx.op = "retire" \/ tx.RewardTo = ZeroAddress
                     THEN @ ELSE tx.RewardTo,
        !.StakedCoins = Add(@, tx.Value),
        !.IsRetiring = @ \/ tx.op = "retire"]

Edit(w, tx) ==
    IF GetValidatorByAddr(w.info, tx.From) = {} THEN w
    ELSE [w EXCEPT
            !.info.Validators =
                {IF v.Address = tx.From THEN Edited(v, tx) ELSE v : v \in @},
            !.balance = PayIn(@, tx.From, tx.Value)]

externalOp(w, tx) ==
    IF w.balance[tx.From] < tx.Value THEN w
    ELSE IF tx.op = "createValidator" THEN Create(w, tx) ELSE Edit(w, tx)

PriceStep(mGP, isIncrease) ==
    LET delta == (MinGasPriceDeltaRate * mGP) \div 100
    IN  IF isIncrease THEN mGP + delta ELSE mGP - delta

WithinBlockDelta(mGP, lastMGP) ==
    /\ 100 * (mGP - lastMGP) <= MaxMinGasPriceDeltaRate * lastMGP
    /\ 100 * (lastMGP - mGP) <= MaxMinGasPriceDeltaRate * lastMGP

FaultyPriceNoBlockDelta(w, sender, isIncrease) ==
    LET mGP == PriceStep(w.minGasPrice, isIncrease)
    IN  IF /\ \E v \in GetActiveValidators(w.info, MinimumStakingAmount) :
                  sender \in {v.Address, v.RewardTo}
           /\ mGP >= MinMinGasPrice
           /\ mGP <= MaxMinGasPrice
        THEN [w EXCEPT !.minGasPrice = mGP]
        ELSE w

handleMinGasPrice(w, sender, isIncrease) ==
    LET mGP == PriceStep(w.minGasPrice, isIncrease)
    IN  IF /\ \E v \in GetActiveValidators(w.info, MinimumStakingAmount) :
                  sender \in {v.Address, v.RewardTo}
           /\ mGP >= MinMinGasPrice
           /\ mGP <= MaxMinGasPrice
           /\ WithinBlockDelta(mGP, w.lastMinGasPrice)
        THEN [w EXCEPT !.minGasPrice = mGP]
        ELSE w

(* The contract's entry point, called by the engine for every transaction  *)
(* that is sent to it. Data that is too short, for the selector or for its *)
(* arguments, and an unknown selector change nothing.                      *)
Execute(w, tx) ==
    CASE ~tx.wellFormed -> w
      [] tx.wellFormed /\ tx.op = "increaseMinGasPrice" ->
            handleMinGasPrice(w, tx.From, TRUE)
      [] tx.wellFormed /\ tx.op = "decreaseMinGasPrice" ->
            handleMinGasPrice(w, tx.From, FALSE)
      [] OTHER -> externalOp(w, tx)

-----------------------------------------------------------------------------
(* Slash: the stake and the pending rewards of the validator are burnt out *)
(* of the contract's balance, if it covers them (the error of the transfer *)
(* is ignored), and counted in allBurnt either way. The validator list     *)
(* with the reduced stake and the reward list without the cleared entries  *)
(* are local copies: info is not saved.                                    *)
TransferFromSenderAccToBlackHoleAcc(balance, sender, coins) ==
    IF balance[sender] < coins THEN balance
    ELSE [balance EXCEPT ![sender] = @ - coins,
                         ![BlackHoleAddress] = Add(@, coins)]

TotalSlashed(info, val, amount) ==
    Add(IF val.StakedCoins < amount THEN val.StakedCoins ELSE amount,
        AmountOf(RewardsOf(info, val.Address)))

Slash(w, pubkey, amount) ==
    IF GetValidatorByPubkey(w.info, pubkey) = {} THEN w
    ELSE LET val == CHOOSE v \in GetValidatorByPubkey(w.info, pubkey) : TRUE
             total == TotalSlashed(w.info, val, amount)
         IN  [w EXCEPT
                !.balance = TransferFromSenderAccToBlackHoleAcc(
                                @, StakingContractAddress, total),
                !.allBurnt = Add(@, total)]

-----------------------------------------------------------------------------
(* DistributeFee. fee = [base, extra, shared]: the proposer's two parts    *)
(* and what the other voters share by their power; votedPower counts every *)
(* voter, totalVotingPower only the validators on duty.                    *)
FeeParts(info, collectedFee, voters) ==
    LET totalVotingPower ==
            PowerOf(GetActiveValidators(info, MinimumStakingAmount))
        base == Div(Mul(collectedFee, BaseProposerPercentage), 100)
        rest == Sub(collectedFee, base)
        extra == Div(Mul(Mul(rest, ExtraProposerPercentage), PowerOf(voters)),
                     100 * totalVotingPower)
    IN  [base |-> base, extra |-> extra, shared |-> Sub(rest, extra)]

VoterShare(shared, v, voters) ==
    Div(Mul(shared, v.VotingPower), PowerOf(voters))

FaultyGainNoRemainder(info, collectedFee, v, proposerVal, voters) ==
    LET fee == FeeParts(info, collectedFee, voters)
    IN  IF v = proposerVal THEN Add(fee.base, fee.extra)
        ELSE VoterShare(fee.shared, v, voters)

(* What is left of shared when the other voters have their shares goes to  *)
(* the proposer.                                                           *)
Gain(info, collectedFee, v, proposerVal, voters) ==
    LET fee == FeeParts(info, collectedFee, voters)
        Share(x) == VoterShare(fee.shared, x, voters)
        others == voters \ {proposerVal}
        remainedFee == Sub(fee.shared, SumFunction([x \in others |-> Share(x)]))
    IN  IF v = proposerVal
        THEN Add(Add(fee.base, fee.extra), remainedFee)
        ELSE Share(v)

(* v's entry of the current epoch, found or made, with coins added to it.  *)
Credit(info, v, coins) ==
    LET old == AmountOf(GetCurrRewardMapByAddr(info, v.Address))
    IN  [Address |-> v.Address, EpochNum |-> info.CurrEpochNum,
         Amount |-> Add(old, coins)]

FaultyOtherRewardsAll(info, earners) == info.PendingRewards

(* The entries that are not those of the earners in the current epoch.     *)
OtherRewards(info, earners) ==
    {pr \in info.PendingRewards :
        \/ pr.EpochNum # info.CurrEpochNum
        \/ \A v \in earners : v.Address # pr.Address}

(* proposer and voters are public keys. A key that belongs to no validator *)
(* makes Go dereference a nil *Validator.                                  *)
DistributeFee(w, collectedFee, proposer, voters) ==
    LET Vals(keys) == {v \in w.info.Validators : v.Pubkey \in keys}
        earners == Vals(voters \cup {proposer})
        proposerVal == CHOOSE v \in Vals({proposer}) : TRUE
        credited == {Credit(w.info, v,
                            Gain(w.info, collectedFee, v, proposerVal,
                                 Vals(voters))) : v \in earners}
    IN  IF \E k \in voters \cup {proposer} : Vals({k}) = {}
        THEN [w EXCEPT !.panic = "nil validator"]
        ELSE [w EXCEPT
                !.balance[StakingContractAddress] = Add(@, collectedFee),
                !.info.PendingRewards =
                    OtherRewards(w.info, earners) \cup credited]

-----------------------------------------------------------------------------
FaultyMatureLate(info) ==
    {pr \in info.PendingRewards :
        pr.EpochNum + 1 < info.CurrEpochNum - EpochCountBeforeRewardMature}

FaultyMatureAtOnce(info) ==
    {pr \in info.PendingRewards : pr.EpochNum < info.CurrEpochNum}

(* endEpoch: the next epoch begins, and the rewards that are older than    *)
(* the epoch before it are paid to their validators' rewardTo.             *)
Mature(info) ==
    {pr \in info.PendingRewards :
        pr.EpochNum < info.CurrEpochNum - EpochCountBeforeRewardMature}

RewardTo(info, pr) ==
    {v.RewardTo : v \in GetValidatorByAddr(info, pr.Address)}

endEpoch(w) ==
    LET info == [w.info EXCEPT !.CurrEpochNum = @ + 1]
        mature == Mature(info)
        owed == [a \in Accounts |->
                    AmountOf({pr \in mature : a \in RewardTo(info, pr)})]
    IN  IF \E pr \in mature : GetValidatorByAddr(info, pr.Address) = {}
        THEN [w EXCEPT !.panic = "nil validator"]
        ELSE [w EXCEPT
                !.info = [info EXCEPT !.PendingRewards = @ \ mature],
                !.balance = PayOut(@, owed, AmountOf(mature))]

(* pubkey2power: how often each key was nominated in the epoch, 0 for the  *)
(* keys that Go's map does not hold.                                       *)
Nominations == [Pubkeys -> Nat]

FaultyNewPowerRetiring(v, pubkey2power) ==
    IF v.StakedCoins >= MinimumStakingAmount THEN pubkey2power[v.Pubkey] ELSE 0

(* The powers of the old epoch go; a validator gets the nominations of its *)
(* key unless it is retiring or has too little at stake.                   *)
NewPower(v, pubkey2power) ==
    IF ~v.IsRetiring /\ v.StakedCoins >= MinimumStakingAmount
    THEN pubkey2power[v.Pubkey]
    ELSE 0

updateVotingPower(w, pubkey2power) ==
    [w EXCEPT !.info.Validators =
        {[v EXCEPT !.VotingPower = NewPower(v, pubkey2power)] : v \in @}]

(* clearUp deletes from the slice it ranges over. Deleting element i moves *)
(* element i+1 into its place, where the loop does not look again: of a    *)
(* run of adjacent useless validators only the first, third, ... go. The   *)
(* loop still runs over the old length, whose tail keeps showing the last  *)
(* element: when that one is useless and another was deleted before it,    *)
(* the slice expression Validators[i+1:] is out of bounds.                 *)
UselessRunBefore(info, v) ==
    LET useless == GetUselessValidators(info)
    IN  {u \in useless :
            /\ u.idx < v.idx
            /\ \A x \in info.Validators :
                  u.idx < x.idx /\ x.idx < v.idx => x \in useless}

Deleted(info) ==
    {v \in GetUselessValidators(info) :
        Cardinality(UselessRunBefore(info, v)) % 2 = 0}

DeletionOutOfBounds(info) ==
    \E u, v \in GetUselessValidators(info) :
        /\ u.idx < v.idx
        /\ \A x \in info.Validators : x.idx <= v.idx

(* Every useless validator is paid back, deleted or not.                   *)
clearUp(w) ==
    LET useless == GetUselessValidators(w.info)
        owed == [a \in Accounts |->
                    StakeOf({v \in useless : v.RewardTo = a})]
    IN  IF DeletionOutOfBounds(w.info)
        THEN [w EXCEPT !.panic = "slice bounds"]
        ELSE [w EXCEPT
                !.info.Validators = @ \ Deleted(w.info),
                !.balance = PayOut(@, owed, StakeOf(useless))]

(* New reward entries for the validators that will be on duty.             *)
AllocateRewards(w) ==
    [w EXCEPT !.info.PendingRewards = @ \cup
        {[Address |-> v.Address, EpochNum |-> w.info.CurrEpochNum,
          Amount |-> 0] :
            v \in GetActiveValidators(w.info, MinimumStakingAmount)}]

(* SwitchEpoch. pubkey2power: the nominations of the epoch.                *)
SwitchEpoch(w, pubkey2power) ==
    LET ended == endEpoch(w)
        cleared == clearUp(updateVotingPower(ended, pubkey2power))
    IN  CASE ended.panic # NoPanic -> ended
          [] ended.panic = NoPanic /\ cleared.panic # NoPanic -> cleared
          [] OTHER -> AllocateRewards(cleared)
=============================================================================
