------------------------------ MODULE AppProof ------------------------------
(***************************************************************************)
(* The theorems about App, for every choice of accounts, keys, genesis,    *)
(* transactions, epochs and bounds.                                        *)
(*                                                                         *)
(* None of the properties of the registry is inductive alone. A reward     *)
(* finds its validator because only validators without rewards are         *)
(* removed, and addresses are unique; it is alone in its epoch because an  *)
(* epoch switch finds no entry of the epoch it begins, which follows from  *)
(* the window in which entries live. Inv is their conjunction, with the    *)
(* types that the arithmetic needs.                                        *)
(*                                                                         *)
(* First come lemmas about the operators of Staking: they take a world in  *)
(* which the registry (the validators and the pending rewards) is in order *)
(* and show that the operator returns such a world. Amounts of coins play  *)
(* no part in them.                                                        *)
(*                                                                         *)
(* The second half is about the coins. Again each operator has its lemma:  *)
(* what it does to the sum of all balances, to the balance of the system   *)
(* account and to what the staking contract owes, all modulo the word. The *)
(* types follow (an amount is a word because of how it is computed), then  *)
(* what the lemmas add up to: the invariants MoneyInv and CoverInv, and    *)
(* what a step does to the debt. Last, with the coins accounted for: when  *)
(* a step can panic.                                                       *)
(***************************************************************************)
EXTENDS App, ProofLemmas

(* The fields of a world: an EXCEPT changes a field only if it is there.   *)
WorldShape(w) ==
    /\ DOMAIN w = {"info", "balance", "allBurnt", "minGasPrice",
                   "lastMinGasPrice", "panic"}
    /\ DOMAIN w.info = {"CurrEpochNum", "Validators", "PendingRewards"}

(* The registry is in order.                                               *)
Registry(info) ==
    /\ info.CurrEpochNum \in Nat
    /\ info.Validators \subseteq Validator
    /\ IsFiniteSet(info.Validators)
    /\ DistinctValidators(info.Validators)
    /\ RewardsRegistered(info)
    /\ DistinctRewards(info)
    /\ RecentRewards(info, 1)

(* What no transaction changes: the epoch, the rewards, the address, key   *)
(* and power of a validator that is there, and that it is retiring.        *)
Continues(i, j) ==
    /\ j.CurrEpochNum = i.CurrEpochNum
    /\ j.PendingRewards = i.PendingRewards
    /\ \A v \in i.Validators : \E u \in j.Validators :
          /\ u.Address = v.Address
          /\ u.Pubkey = v.Pubkey
          /\ u.VotingPower = v.VotingPower
          /\ v.IsRetiring => u.IsRetiring

(* The gas prices, untouched and within their limits.                      *)
SamePrices(w, u) ==
    /\ u.minGasPrice = w.minGasPrice
    /\ u.lastMinGasPrice = w.lastMinGasPrice

(* What an epoch switch does to the validators that it leaves.             *)
Reappointed(i, j) ==
    \A u \in j.Validators : \E v \in i.Validators :
        /\ u.Address = v.Address
        /\ v.IsRetiring => u.IsRetiring /\ u.VotingPower = 0

Prices(w) ==
    /\ w.minGasPrice \in Nat
    /\ w.lastMinGasPrice \in Nat
    /\ w.minGasPrice >= MinMinGasPrice
    /\ w.minGasPrice <= MaxMinGasPrice
    /\ WithinBlockDelta(w.minGasPrice, w.lastMinGasPrice)

(* What App!RetirementIsFinal and App!ImmatureRewardsKept say of a step.   *)
Retired(i, j) ==
    \A v \in i.Validators, u \in j.Validators :
        v.IsRetiring /\ u.Address = v.Address =>
            u.IsRetiring /\ u.VotingPower \in {0, v.VotingPower}

EntriesKept(i, j) ==
    \A pr \in i.PendingRewards : \E q \in j.PendingRewards :
        q.Address = pr.Address /\ q.EpochNum = pr.EpochNum

RewardsKept(i, j) ==
    \A pr \in i.PendingRewards : pr.EpochNum = i.CurrEpochNum =>
        \E q \in j.PendingRewards :
            q.Address = pr.Address /\ q.EpochNum = pr.EpochNum

-----------------------------------------------------------------------------

(* NextIdx is greater than every idx in use.                               *)
LEMMA NextIdxFresh ==
    ASSUME NEW info, info.Validators \subseteq Validator,
           IsFiniteSet(info.Validators)
    PROVE  /\ NextIdx(info) \in Nat \ {0}
           /\ \A v \in info.Validators : v.idx < NextIdx(info)
<1> DEFINE V == info.Validators
           I == {v.idx : v \in V}
           f == [v \in V |-> v.idx]
<1>1. f \in Surjection(V, I)
  BY DEF Surjection
<1>2. IsFiniteSet(I)
  <2> HIDE DEF f, I
  <2> QED
    BY <1>1, FS_Surjection
<1>3. I \subseteq Nat
  BY DEF Validator
<1>4. IsFiniteSet({0} \cup I) /\ {0} \cup I \subseteq Nat
  <2> HIDE DEF I
  <2>1. {0} \cup I = I \cup {0}
    OBVIOUS
  <2> QED
    BY <2>1, <1>2, <1>3, FS_AddElement
<1>5. \E x \in {0} \cup I : \A y \in {0} \cup I : x >= y
  <2> HIDE DEF I
  <2> QED
    BY <1>4, FiniteSetHasMax
<1>6. /\ Max({0} \cup I) \in {0} \cup I
      /\ \A y \in {0} \cup I : Max({0} \cup I) >= y
  <2> HIDE DEF I
  <2> QED
    BY <1>5 DEF Max
<1>7. NextIdx(info) = 1 + Max({0} \cup I)
  BY DEF NextIdx
<1>8. \A v \in V : v.idx \in {0} \cup I
  OBVIOUS
<1> HIDE DEF I, V
<1> DEFINE m == Max({0} \cup I)
<1>9. m \in Nat
  BY <1>4, <1>6
<1>10. /\ NextIdx(info) \in Nat \ {0}
      /\ \A v \in V : v.idx < NextIdx(info)
  <2> HIDE DEF m
  <2>1. \A v \in V : v.idx <= m /\ v.idx \in Nat
    BY <1>4, <1>6, <1>8 DEF m
  <2>2. NextIdx(info) = 1 + m
    BY <1>7 DEF m
  <2> QED
    BY <1>9, <2>1, <2>2
<1> QED
  BY <1>10 DEF V

(* createValidator registers a validator with a new address, key and place *)
(* or leaves the registry alone.                                           *)
LEMMA CreateRegistry ==
    ASSUME NEW w, NEW tx \in StakingTx, WorldShape(w), Registry(w.info),
           NEW u, u = Create(w, tx)
    PROVE  /\ WorldShape(u) /\ Registry(u.info) /\ Continues(w.info, u.info)
           /\ SamePrices(w, u) /\ u.panic = w.panic
<1> DEFINE info == w.info
           new == [Address |-> tx.From, Pubkey |-> tx.Pubkey,
                   RewardTo |-> tx.RewardTo, VotingPower |-> 0,
                   StakedCoins |-> tx.Value, IsRetiring |-> FALSE,
                   idx |-> NextIdx(info)]
<1>1. CASE u = w
  BY <1>1 DEF SamePrices, Continues
<1>2. CASE u # w
  <2>1. /\ CanAddValidator(info, tx.From, tx.Pubkey)
        /\ u = [w EXCEPT
                  !.info = [w.info EXCEPT !.Validators = @ \cup {new}],
                  !.balance = PayIn(@, tx.From, tx.Value)]
    BY <1>2 DEF Create, AddValidator
  <2>2. WorldShape(u) /\ SamePrices(w, u) /\ u.panic = w.panic
    BY <2>1 DEF WorldShape, SamePrices
  <2>3. /\ u.info.Validators = info.Validators \cup {new}
        /\ u.info.PendingRewards = info.PendingRewards
        /\ u.info.CurrEpochNum = info.CurrEpochNum
    BY <2>1 DEF WorldShape
  <2>4. /\ NextIdx(info) \in Nat \ {0}
        /\ \A v \in info.Validators : v.idx < NextIdx(info)
    BY NextIdxFresh DEF Registry
  <2>5. new \in Validator
    BY <2>4 DEF StakingTx, Validator
  <2>6. DistinctValidators(u.info.Validators)
    <3>1. \A v \in info.Validators :
            v.Address # new.Address /\ v.Pubkey # new.Pubkey /\ v.idx # new.idx
      BY <2>1, <2>4 DEF CanAddValidator, Registry, Validator
    <3> HIDE DEF new
    <3> QED
      BY <2>3, <3>1 DEF DistinctValidators, Registry
  <2>7. IsFiniteSet(u.info.Validators)
    <3> HIDE DEF new
    <3> QED
      BY <2>3, FS_AddElement DEF Registry
  <2>8. Registry(u.info)
    BY <2>3, <2>5, <2>6, <2>7
       DEF Registry, RewardsRegistered, DistinctRewards, RecentRewards
  <2>9. Continues(w.info, u.info)
    BY <2>3 DEF Continues
  <2> QED
    BY <2>2, <2>8, <2>9
<1> QED
  BY <1>1, <1>2

(* W is the list V with every entry v replaced by f[v], which has the      *)
(* address, the key and the place of v.                                    *)
InPlace(f, V, W) ==
    /\ f \in [V -> Validator]
    /\ W = {f[v] : v \in V}
    /\ \A v \in V : /\ f[v].Address = v.Address
                    /\ f[v].Pubkey = v.Pubkey
                    /\ f[v].idx = v.idx

(* Changing entries in place keeps addresses, keys and places unique.      *)
LEMMA ChangedInPlace ==
    ASSUME NEW V, NEW W, NEW f, InPlace(f, V, W),
           IsFiniteSet(V), DistinctValidators(V)
    PROVE  /\ IsFiniteSet(W)
           /\ W \subseteq Validator
           /\ DistinctValidators(W)
<1>1. f \in Surjection(V, W)
  BY DEF Surjection, InPlace
<1>2. IsFiniteSet(W)
  BY <1>1, FS_Surjection
<1>3. DistinctValidators(W)
  <2>1. SUFFICES ASSUME NEW x \in W, NEW y \in W,
                        \/ x.Address = y.Address
                        \/ x.Pubkey = y.Pubkey
                        \/ x.idx = y.idx
                 PROVE  x = y
    BY DEF DistinctValidators
  <2>2. PICK v \in V, z \in V : x = f[v] /\ y = f[z]
    BY DEF InPlace
  <2>3. v = z
    BY <2>1, <2>2 DEF DistinctValidators, InPlace
  <2> QED
    BY <2>2, <2>3
<1>4. W \subseteq Validator
  BY DEF InPlace
<1> QED
  BY <1>2, <1>3, <1>4

(* editValidator and retire change one entry of the list in place.         *)
LEMMA EditRegistry ==
    ASSUME NEW w, NEW tx \in StakingTx, WorldShape(w), Registry(w.info),
           NEW u, u = Edit(w, tx)
    PROVE  /\ WorldShape(u) /\ Registry(u.info) /\ Continues(w.info, u.info)
           /\ SamePrices(w, u) /\ u.panic = w.panic
<1> DEFINE V == w.info.Validators
           g(v) == IF v.Address = tx.From THEN Edited(v, tx) ELSE v
           f == [v \in V |-> g(v)]
<1>1. CASE u = w
  BY <1>1 DEF SamePrices, Continues
<1>2. CASE u # w
  <2>1. u = [w EXCEPT !.info.Validators = {g(v) : v \in @},
                      !.balance = PayIn(@, tx.From, tx.Value)]
    BY <1>2 DEF Edit
  <2>2. WorldShape(u) /\ SamePrices(w, u) /\ u.panic = w.panic
    BY <2>1 DEF WorldShape, SamePrices
  <2>3. /\ u.info.Validators = {f[v] : v \in V}
        /\ u.info.PendingRewards = w.info.PendingRewards
        /\ u.info.CurrEpochNum = w.info.CurrEpochNum
    <3>1. u.info = [w.info EXCEPT !.Validators = {g(v) : v \in V}]
      BY <2>1 DEF WorldShape
    <3>2. {g(v) : v \in V} = {f[v] : v \in V}
      OBVIOUS
    <3> QED
      BY <3>1, <3>2 DEF WorldShape
  <2>4. \A v \in Validator :
            /\ Edited(v, tx) \in Validator
            /\ Edited(v, tx).Address = v.Address
            /\ Edited(v, tx).Pubkey = v.Pubkey
            /\ Edited(v, tx).idx = v.idx
            /\ Edited(v, tx).VotingPower = v.VotingPower
            /\ v.IsRetiring => Edited(v, tx).IsRetiring
    <3>1. SUFFICES ASSUME NEW v \in Validator
                   PROVE  /\ Edited(v, tx) \in Validator
                          /\ Edited(v, tx).Address = v.Address
                          /\ Edited(v, tx).Pubkey = v.Pubkey
                          /\ Edited(v, tx).idx = v.idx
                          /\ Edited(v, tx).VotingPower = v.VotingPower
                          /\ v.IsRetiring => Edited(v, tx).IsRetiring
      OBVIOUS
    <3>2. Add(v.StakedCoins, tx.Value) \in Coins
      BY WordAssumption DEF Add, Coins, Validator, StakingTx
    <3>3. (v.IsRetiring \/ tx.op = "retire") \in BOOLEAN
      OBVIOUS
    <3> QED
      BY <3>2, <3>3 DEF Edited, Validator, StakingTx
  <2>5. V \subseteq Validator
    BY DEF Registry
  <2>6. \A v \in V : /\ f[v] \in Validator
                     /\ f[v].Address = v.Address
                     /\ f[v].Pubkey = v.Pubkey
                     /\ f[v].idx = v.idx
                     /\ f[v].VotingPower = v.VotingPower
                     /\ v.IsRetiring => f[v].IsRetiring
    BY <2>4, <2>5
  <2>7. f \in [V -> Validator]
    BY <2>6
  <2> HIDE DEF f
  <2>8. DistinctValidators(V)
    BY DEF Registry, DistinctValidators
  <2>9. /\ IsFiniteSet(u.info.Validators)
        /\ u.info.Validators \subseteq Validator
        /\ DistinctValidators(u.info.Validators)
    <3>1. InPlace(f, V, u.info.Validators)
      BY <2>3, <2>6, <2>7 DEF InPlace
    <3> QED
      BY <2>8, <3>1, ChangedInPlace DEF Registry
  <2>10. Registry(u.info)
    BY <2>3, <2>6, <2>9
       DEF Registry, DistinctValidators, RewardsRegistered, DistinctRewards,
           RecentRewards
  <2>11. Continues(w.info, u.info)
    BY <2>3, <2>6 DEF Continues
  <2> QED
    BY <2>2, <2>10, <2>11
<1> QED
  BY <1>1, <1>2

(* A vote on the gas price leaves the registry alone and the price within  *)
(* its limits.                                                             *)
LEMMA MinGasPriceVote ==
    ASSUME NEW w, WorldShape(w), Prices(w), NEW sender, NEW isIncrease,
           NEW u, u = handleMinGasPrice(w, sender, isIncrease)
    PROVE  /\ WorldShape(u) /\ u.info = w.info /\ Prices(u)
           /\ u.panic = w.panic
<1> DEFINE mGP == PriceStep(w.minGasPrice, isIncrease)
<1>1. mGP \in Int
  BY DEF PriceStep, Prices, MinGasPriceDeltaRate
<1>2. CASE u = w
  BY <1>2
<1>3. CASE u # w
  <2> HIDE DEF mGP
  <2>1. /\ u = [w EXCEPT !.minGasPrice = mGP]
        /\ mGP >= MinMinGasPrice
        /\ mGP <= MaxMinGasPrice
        /\ WithinBlockDelta(mGP, w.lastMinGasPrice)
    BY <1>3 DEF handleMinGasPrice, mGP
  <2>2. mGP \in Nat
    BY <1>1, <2>1, GasPriceAssumption
  <2> QED
    BY <2>1, <2>2 DEF WorldShape, Prices
<1> QED
  BY <1>2, <1>3

(* Every transaction keeps the registry in order and the prices bounded.   *)
LEMMA ExecuteRegistry ==
    ASSUME NEW w, NEW tx \in StakingTx,
           WorldShape(w), Registry(w.info), Prices(w),
           NEW u, u = Execute(w, tx)
    PROVE  /\ WorldShape(u) /\ Registry(u.info) /\ Continues(w.info, u.info)
           /\ Prices(u) /\ u.panic = w.panic
<1>1. Continues(w.info, w.info)
  BY DEF Continues
<1>2. CASE ~tx.wellFormed
  BY <1>1, <1>2 DEF Execute
<1>3. CASE tx.wellFormed /\ tx.op = "increaseMinGasPrice"
  <2>1. PICK isIncrease : u = handleMinGasPrice(w, tx.From, isIncrease)
    BY <1>3 DEF Execute
  <2> QED
    BY <1>1, <2>1, MinGasPriceVote
<1>4. CASE tx.wellFormed /\ tx.op = "decreaseMinGasPrice"
  <2>1. PICK isIncrease : u = handleMinGasPrice(w, tx.From, isIncrease)
    BY <1>4 DEF Execute
  <2> QED
    BY <1>1, <2>1, MinGasPriceVote
<1>5. CASE /\ tx.wellFormed
           /\ tx.op \notin {"increaseMinGasPrice", "decreaseMinGasPrice"}
  <2>1. u = externalOp(w, tx)
    BY <1>5 DEF Execute
  <2>2. u = w \/ u = Create(w, tx) \/ u = Edit(w, tx)
    BY <2>1 DEF externalOp
  <2>3. CASE u = w
    BY <1>1, <2>3
  <2>4. ASSUME SamePrices(w, u)
        PROVE  Prices(u)
    BY <2>4 DEF SamePrices, Prices
  <2>5. CASE u = Create(w, tx)
    BY <2>4, <2>5, CreateRegistry
  <2>6. CASE u = Edit(w, tx)
    BY <2>4, <2>6, EditRegistry
  <2> QED
    BY <2>2, <2>3, <2>5, <2>6
<1> QED
  BY <1>2, <1>3, <1>4, <1>5

-----------------------------------------------------------------------------
(* The next epoch begins: the mature rewards go, so that none is older     *)
(* than the epoch before, and none is of the new epoch.                    *)
LEMMA EndEpochRegistry ==
    ASSUME NEW w, WorldShape(w), Registry(w.info), w.panic = NoPanic,
           NEW u, u = endEpoch(w), u.panic = NoPanic
    PROVE  /\ WorldShape(u) /\ Registry(u.info) /\ SamePrices(w, u)
           /\ u.info.Validators = w.info.Validators
           /\ RewardsKept(w.info, u.info)
           /\ \A pr \in u.info.PendingRewards :
                 pr.EpochNum # u.info.CurrEpochNum
<1> DEFINE info == [w.info EXCEPT !.CurrEpochNum = @ + 1]
           mature == Mature(info)
           owed == [a \in Accounts |->
                       AmountOf({pr \in mature : a \in RewardTo(info, pr)})]
           paid == PayOut(w.balance, owed, AmountOf(mature))
<1>1. u = [w EXCEPT !.info = [info EXCEPT !.PendingRewards = @ \ mature],
                    !.balance = paid]
  <2>1. CASE \E pr \in mature : GetValidatorByAddr(info, pr.Address) = {}
    <3>1. u = [w EXCEPT !.panic = "nil validator"]
      BY <2>1 DEF endEpoch
    <3> QED
      BY <3>1 DEF WorldShape, NoPanic
  <2>2. CASE ~ \E pr \in mature : GetValidatorByAddr(info, pr.Address) = {}
    BY <2>2 DEF endEpoch
  <2> QED
    BY <2>1, <2>2
<1> HIDE DEF paid
<1>2. WorldShape(u) /\ SamePrices(w, u)
  BY <1>1 DEF WorldShape, SamePrices
<1>3. /\ u.info.CurrEpochNum = w.info.CurrEpochNum + 1
      /\ u.info.Validators = w.info.Validators
      /\ u.info.PendingRewards = w.info.PendingRewards \ mature
  BY <1>1, ZenonT(40) DEF WorldShape
<1>4. \A pr : pr \in mature <=> /\ pr \in w.info.PendingRewards
                               /\ pr.EpochNum < w.info.CurrEpochNum
  <2>1. /\ info.PendingRewards = w.info.PendingRewards
        /\ info.CurrEpochNum = w.info.CurrEpochNum + 1
    BY DEF WorldShape
  <2> HIDE DEF info
  <2>2. info.CurrEpochNum - 1 = w.info.CurrEpochNum
    BY <2>1 DEF Registry
  <2> QED
    BY <2>1, <2>2 DEF Mature, EpochCountBeforeRewardMature
<1> HIDE DEF mature
<1>5. \A pr \in u.info.PendingRewards :
          /\ pr \in w.info.PendingRewards
          /\ pr.EpochNum = w.info.CurrEpochNum
  BY <1>3, <1>4 DEF Registry, RecentRewards
<1>6. /\ RewardsRegistered(u.info)
      /\ DistinctRewards(u.info)
      /\ RecentRewards(u.info, 1)
  BY <1>3, <1>5
     DEF Registry, RewardsRegistered, DistinctRewards, RecentRewards
<1>7. Registry(u.info)
  BY <1>3, <1>6 DEF Registry
<1>8. RewardsKept(w.info, u.info)
  BY <1>3, <1>4 DEF RewardsKept, Registry
<1>9. \A pr \in u.info.PendingRewards : pr.EpochNum # u.info.CurrEpochNum
  BY <1>3, <1>5 DEF Registry
<1> QED
  BY <1>2, <1>3, <1>7, <1>8, <1>9

(* The powers of the new epoch replace those of the old one, in place; a   *)
(* retiring validator gets none.                                           *)
LEMMA VotingPowerRegistry ==
    ASSUME NEW w, WorldShape(w), Registry(w.info),
           NEW power \in Nominations,
           NEW u, u = updateVotingPower(w, power)
    PROVE  /\ WorldShape(u) /\ Registry(u.info) /\ SamePrices(w, u)
           /\ u.panic = w.panic
           /\ u.info.CurrEpochNum = w.info.CurrEpochNum
           /\ u.info.PendingRewards = w.info.PendingRewards
           /\ Reappointed(w.info, u.info)
<1> DEFINE V == w.info.Validators
           g(v) == [v EXCEPT !.VotingPower = NewPower(v, power)]
           f == [v \in V |-> g(v)]
<1>1. u = [w EXCEPT !.info.Validators = {g(v) : v \in @}]
  BY DEF updateVotingPower
<1>2. WorldShape(u) /\ SamePrices(w, u) /\ u.panic = w.panic
  BY <1>1 DEF WorldShape, SamePrices
<1>3. /\ u.info.Validators = {f[v] : v \in V}
      /\ u.info.PendingRewards = w.info.PendingRewards
      /\ u.info.CurrEpochNum = w.info.CurrEpochNum
  <2>1. u.info = [w.info EXCEPT !.Validators = {g(v) : v \in V}]
    BY <1>1 DEF WorldShape
  <2>2. {g(v) : v \in V} = {f[v] : v \in V}
    OBVIOUS
  <2> QED
    BY <2>1, <2>2 DEF WorldShape
<1>4. V \subseteq Validator /\ IsFiniteSet(V) /\ DistinctValidators(V)
  BY DEF Registry
<1>5. \A v \in V : NewPower(v, power) \in Nat
  BY <1>4 DEF NewPower, Nominations, Validator
<1>6. \A v \in V : /\ f[v] \in Validator
                   /\ f[v].Address = v.Address
                   /\ f[v].Pubkey = v.Pubkey
                   /\ f[v].idx = v.idx
                   /\ f[v].IsRetiring = v.IsRetiring
                   /\ f[v].VotingPower = NewPower(v, power)
  BY <1>4, <1>5 DEF Validator
<1>7. f \in [V -> Validator]
  BY <1>6
<1>8. \A v \in V : v.IsRetiring => NewPower(v, power) = 0
  BY DEF NewPower
<1> HIDE DEF f
<1>9. /\ IsFiniteSet(u.info.Validators)
      /\ u.info.Validators \subseteq Validator
      /\ DistinctValidators(u.info.Validators)
  <2>1. InPlace(f, V, u.info.Validators)
    BY <1>3, <1>6, <1>7 DEF InPlace
  <2> QED
    BY <1>4, <2>1, ChangedInPlace
<1>10. Registry(u.info)
  BY <1>3, <1>6, <1>9
     DEF Registry, RewardsRegistered, DistinctRewards, RecentRewards
<1>11. Reappointed(w.info, u.info)
  BY <1>3, <1>6, <1>8 DEF Reappointed
<1> QED
  BY <1>2, <1>3, <1>10, <1>11

(* Only validators without pending rewards are removed.                    *)
LEMMA ClearUpRegistry ==
    ASSUME NEW w, WorldShape(w), Registry(w.info), w.panic = NoPanic,
           NEW u, u = clearUp(w), u.panic = NoPanic
    PROVE  /\ WorldShape(u) /\ Registry(u.info) /\ SamePrices(w, u)
           /\ u.info.CurrEpochNum = w.info.CurrEpochNum
           /\ u.info.PendingRewards = w.info.PendingRewards
           /\ u.info.Validators \subseteq w.info.Validators
<1> DEFINE useless == GetUselessValidators(w.info)
           owed == [a \in Accounts |->
                       StakeOf({v \in useless : v.RewardTo = a})]
           paid == PayOut(w.balance, owed, StakeOf(useless))
<1>1. u = [w EXCEPT !.info.Validators = @ \ Deleted(w.info),
                    !.balance = paid]
  <2>1. CASE DeletionOutOfBounds(w.info)
    <3>1. u = [w EXCEPT !.panic = "slice bounds"]
      BY <2>1 DEF clearUp
    <3> QED
      BY <3>1 DEF WorldShape, NoPanic
  <2>2. CASE ~DeletionOutOfBounds(w.info)
    BY <2>2 DEF clearUp
  <2> QED
    BY <2>1, <2>2
<1> HIDE DEF paid
<1>2. WorldShape(u) /\ SamePrices(w, u)
  BY <1>1 DEF WorldShape, SamePrices
<1>3. /\ u.info.CurrEpochNum = w.info.CurrEpochNum
      /\ u.info.PendingRewards = w.info.PendingRewards
      /\ u.info.Validators = w.info.Validators \ Deleted(w.info)
  BY <1>1 DEF WorldShape
<1>4. \A v \in Deleted(w.info), pr \in w.info.PendingRewards :
          pr.Address # v.Address
  BY DEF Deleted, GetUselessValidators
<1>5. RewardsRegistered(u.info)
  BY <1>3, <1>4 DEF Registry, RewardsRegistered
<1>6. /\ IsFiniteSet(u.info.Validators)
      /\ u.info.Validators \subseteq Validator
      /\ DistinctValidators(u.info.Validators)
  <2>1. u.info.Validators \in SUBSET w.info.Validators
    BY <1>3
  <2> QED
    BY <2>1, FS_Subset DEF Registry, DistinctValidators
<1>7. Registry(u.info)
  BY <1>3, <1>5, <1>6 DEF Registry, DistinctRewards, RecentRewards
<1> QED
  BY <1>2, <1>3, <1>7

(* The new epoch has no rewards yet, so each validator on duty gets its    *)
(* first entry.                                                            *)
LEMMA AllocateRegistry ==
    ASSUME NEW w, WorldShape(w), Registry(w.info),
           \A pr \in w.info.PendingRewards :
               pr.EpochNum # w.info.CurrEpochNum,
           NEW u, u = AllocateRewards(w)
    PROVE  /\ WorldShape(u) /\ Registry(u.info) /\ SamePrices(w, u)
           /\ u.panic = w.panic
           /\ u.info.CurrEpochNum = w.info.CurrEpochNum
           /\ u.info.Validators = w.info.Validators
           /\ w.info.PendingRewards \subseteq u.info.PendingRewards
<1> DEFINE entry(v) == [Address |-> v.Address,
                        EpochNum |-> w.info.CurrEpochNum, Amount |-> 0]
           active == GetActiveValidators(w.info, MinimumStakingAmount)
           new == {entry(v) : v \in active}
<1>1. u = [w EXCEPT !.info.PendingRewards = @ \cup new]
  BY DEF AllocateRewards
<1>2. active \subseteq w.info.Validators
  BY DEF GetActiveValidators, OnDuty
<1>3. \A pr \in new : /\ pr.EpochNum = w.info.CurrEpochNum
                      /\ \E v \in w.info.Validators : v.Address = pr.Address
                      /\ \A q \in new : q.Address = pr.Address => q = pr
  BY <1>2
<1> HIDE DEF new
<1>4. WorldShape(u) /\ SamePrices(w, u) /\ u.panic = w.panic
  BY <1>1 DEF WorldShape, SamePrices
<1>5. /\ u.info.CurrEpochNum = w.info.CurrEpochNum
      /\ u.info.Validators = w.info.Validators
      /\ u.info.PendingRewards = w.info.PendingRewards \cup new
  BY <1>1 DEF WorldShape
<1>6. RewardsRegistered(u.info) /\ RecentRewards(u.info, 1)
  BY <1>3, <1>5 DEF Registry, RewardsRegistered, RecentRewards
<1>7. DistinctRewards(u.info)
  BY <1>3, <1>5 DEF Registry, DistinctRewards
<1>8. Registry(u.info)
  BY <1>5, <1>6, <1>7 DEF Registry
<1> QED
  BY <1>4, <1>5, <1>8

(* A whole epoch switch keeps the registry in order, the current rewards   *)
(* and the retirements.                                                    *)
LEMMA SwitchEpochRegistry ==
    ASSUME NEW w, WorldShape(w), Registry(w.info), w.panic = NoPanic,
           NEW power \in Nominations,
           NEW u, u = SwitchEpoch(w, power), u.panic = NoPanic
    PROVE  /\ WorldShape(u) /\ Registry(u.info) /\ SamePrices(w, u)
           /\ RewardsKept(w.info, u.info)
           /\ Reappointed(w.info, u.info)
<1> DEFINE ended == endEpoch(w)
           powered == updateVotingPower(ended, power)
           cleared == clearUp(powered)
<1>1. /\ ended.panic = NoPanic
      /\ cleared.panic = NoPanic
      /\ u = AllocateRewards(cleared)
  <2> HIDE DEF ended, powered, cleared
  <2>1. u = CASE ended.panic # NoPanic -> ended
              [] ended.panic = NoPanic /\ cleared.panic # NoPanic -> cleared
              [] OTHER -> AllocateRewards(cleared)
    BY DEF SwitchEpoch, ended, powered, cleared
  <2> QED
    BY <2>1
<1> HIDE DEF ended, powered, cleared
<1>2. /\ WorldShape(ended) /\ Registry(ended.info) /\ SamePrices(w, ended)
      /\ ended.info.Validators = w.info.Validators
      /\ RewardsKept(w.info, ended.info)
      /\ \A pr \in ended.info.PendingRewards :
            pr.EpochNum # ended.info.CurrEpochNum
  BY <1>1, EndEpochRegistry DEF ended
<1>3. /\ WorldShape(powered) /\ Registry(powered.info)
      /\ SamePrices(ended, powered) /\ powered.panic = NoPanic
      /\ powered.info.CurrEpochNum = ended.info.CurrEpochNum
      /\ powered.info.PendingRewards = ended.info.PendingRewards
      /\ Reappointed(ended.info, powered.info)
  BY <1>1, <1>2, VotingPowerRegistry DEF powered
<1>4. /\ WorldShape(cleared) /\ Registry(cleared.info)
      /\ SamePrices(powered, cleared)
      /\ cleared.info.CurrEpochNum = powered.info.CurrEpochNum
      /\ cleared.info.PendingRewards = powered.info.PendingRewards
      /\ cleared.info.Validators \subseteq powered.info.Validators
  BY <1>1, <1>3, ClearUpRegistry DEF cleared
<1>5. /\ WorldShape(u) /\ Registry(u.info) /\ SamePrices(cleared, u)
      /\ u.info.Validators = cleared.info.Validators
      /\ cleared.info.PendingRewards \subseteq u.info.PendingRewards
  BY <1>1, <1>2, <1>3, <1>4, AllocateRegistry
<1>6. SamePrices(w, u)
  BY <1>2, <1>3, <1>4, <1>5 DEF SamePrices
<1>7. RewardsKept(w.info, u.info)
  BY <1>2, <1>3, <1>4, <1>5 DEF RewardsKept
<1>8. Reappointed(w.info, u.info)
  BY <1>2, <1>3, <1>4, <1>5 DEF Reappointed
<1> QED
  BY <1>5, <1>6, <1>7, <1>8

-----------------------------------------------------------------------------
(* A fee adds to the entries of its earners for the current epoch: each    *)
(* has one afterwards, and no other entry changes.                         *)
LEMMA DistributeFeeRegistry ==
    ASSUME NEW w, WorldShape(w), Registry(w.info), w.panic = NoPanic,
           NEW collectedFee, NEW proposer, NEW voters,
           NEW u, u = DistributeFee(w, collectedFee, proposer, voters),
           u.panic = NoPanic
    PROVE  /\ WorldShape(u) /\ Registry(u.info) /\ SamePrices(w, u)
           /\ u.info.CurrEpochNum = w.info.CurrEpochNum
           /\ u.info.Validators = w.info.Validators
           /\ EntriesKept(w.info, u.info)
<1> DEFINE info == w.info
           Vals(keys) == {v \in info.Validators : v.Pubkey \in keys}
           earners == Vals(voters \cup {proposer})
           proposerVal == CHOOSE v \in Vals({proposer}) : TRUE
           c(v) == Credit(info, v, Gain(info, collectedFee, v, proposerVal,
                                        Vals(voters)))
           credited == {c(v) : v \in earners}
           others == OtherRewards(info, earners)
           funded == [w.balance EXCEPT ![StakingContractAddress] =
                         Add(@, collectedFee)]
<1>1. u = [w EXCEPT !.balance[StakingContractAddress] = Add(@, collectedFee),
                    !.info.PendingRewards = others \cup credited]
  <2>1. CASE \E k \in voters \cup {proposer} : Vals({k}) = {}
    <3>1. u = [w EXCEPT !.panic = "nil validator"]
      BY <2>1 DEF DistributeFee
    <3> QED
      BY <3>1 DEF WorldShape, NoPanic
  <2>2. CASE ~ \E k \in voters \cup {proposer} : Vals({k}) = {}
    BY <2>2 DEF DistributeFee
  <2> QED
    BY <2>1, <2>2
<1>2. earners \subseteq info.Validators
  OBVIOUS
<1>3. \A v : /\ c(v).Address = v.Address
             /\ c(v).EpochNum = info.CurrEpochNum
  BY DEF Credit
<1> HIDE DEF c, earners
<1>4. \A q \in credited :
          /\ q.EpochNum = info.CurrEpochNum
          /\ \E v \in earners : q = c(v) /\ v.Address = q.Address
  BY <1>3
<1>5. \A v \in earners : \E q \in credited :
          q.Address = v.Address /\ q.EpochNum = info.CurrEpochNum
  BY <1>3
<1>6. \A p, q \in credited : p.Address = q.Address => p = q
  BY <1>2, <1>4 DEF Registry, DistinctValidators
<1>7. \A pr \in others :
          /\ pr \in info.PendingRewards
          /\ \/ pr.EpochNum # info.CurrEpochNum
             \/ \A v \in earners : v.Address # pr.Address
  BY DEF OtherRewards
<1>8. \A pr \in info.PendingRewards :
          \/ pr \in others
          \/ /\ pr.EpochNum = info.CurrEpochNum
             /\ \E v \in earners : v.Address = pr.Address
  BY DEF OtherRewards
<1> HIDE DEF credited, others
<1>9. WorldShape(u) /\ SamePrices(w, u)
  BY <1>1 DEF WorldShape, SamePrices
<1>10. /\ u.info.CurrEpochNum = info.CurrEpochNum
       /\ u.info.Validators = info.Validators
       /\ u.info.PendingRewards = others \cup credited
  BY <1>1 DEF WorldShape
<1>11. RewardsRegistered(u.info) /\ RecentRewards(u.info, 1)
  BY <1>2, <1>4, <1>7, <1>10 DEF Registry, RewardsRegistered, RecentRewards
<1>12. DistinctRewards(u.info)
  BY <1>4, <1>6, <1>7, <1>10 DEF Registry, DistinctRewards
<1>13. Registry(u.info)
  BY <1>10, <1>11, <1>12 DEF Registry
<1>14. EntriesKept(w.info, u.info)
  BY <1>5, <1>8, <1>10 DEF EntriesKept
<1> QED
  BY <1>9, <1>10, <1>13, <1>14

-----------------------------------------------------------------------------
(* Slashing, settling the system account and charging gas move coins only. *)
LEMMA CoinsOnly ==
    ASSUME NEW w, WorldShape(w)
    PROVE  /\ LET u == SlashAll(w)
              IN  /\ WorldShape(u) /\ SamePrices(w, u)
                  /\ u.info = w.info /\ u.panic = w.panic
           /\ LET u == SettleSystemAcc(w)
              IN  /\ WorldShape(u) /\ SamePrices(w, u)
                  /\ u.info = w.info
           /\ LET u == Prepare(w)
              IN  /\ WorldShape(u) /\ SamePrices(w, u)
                  /\ u.info = w.info
<1>1. PICK b, c : SlashAll(w) = [w EXCEPT !.balance = b, !.allBurnt = c]
  BY Zenon DEF SlashAll
<1>2. \/ SettleSystemAcc(w) = [w EXCEPT !.panic = "system balance"]
      \/ \E e : SettleSystemAcc(w) = [w EXCEPT !.balance = e]
  BY DEF SettleSystemAcc
<1>3. PICK d : Prepare(w) = [w EXCEPT !.balance = d]
  BY Zenon DEF Prepare
<1>4. /\ WorldShape(SlashAll(w)) /\ SamePrices(w, SlashAll(w))
      /\ SlashAll(w).info = w.info /\ SlashAll(w).panic = w.panic
  BY <1>1 DEF WorldShape, SamePrices
<1>5. /\ WorldShape(SettleSystemAcc(w)) /\ SamePrices(w, SettleSystemAcc(w))
      /\ SettleSystemAcc(w).info = w.info
  BY <1>2 DEF WorldShape, SamePrices
<1>6. /\ WorldShape(Prepare(w)) /\ SamePrices(w, Prepare(w))
      /\ Prepare(w).info = w.info
  BY <1>3 DEF WorldShape, SamePrices
<1> QED
  BY <1>4, <1>5, <1>6

-----------------------------------------------------------------------------
(* The inductive invariant.                                                *)
Inv ==
    /\ WorldShape(world)
    /\ Registry(world.info)
    /\ Prices(world)
    /\ DutyRegistered
    /\ epochList \in Seq(Epoch)
    /\ epochChan \in Seq(Epoch)
    /\ sentEpochs \in Nat

(* What a step does to the registry.                                       *)
StepOK ==
    /\ Retired(world.info, world'.info)
    /\ RewardsKept(world.info, world'.info)

(* The genesis state satisfies the invariant.                              *)
LEMMA InitInv == Init => Inv
<1> SUFFICES ASSUME Init
             PROVE  Inv
  OBVIOUS
<1>1. world = [info |-> GenesisInfo, balance |-> GenesisBalance,
               allBurnt |-> 0, minGasPrice |-> DefaultMinGasPrice,
               lastMinGasPrice |-> DefaultMinGasPrice, panic |-> NoPanic]
  BY DEF Init
<1>2. WorldShape(world)
  BY <1>1 DEF WorldShape, GenesisInfo
<1>3. Registry(world.info)
  BY <1>1, GenesisAssumption
     DEF Registry, GenesisInfo, RewardsRegistered, DistinctRewards,
         RecentRewards
<1>4. Prices(world)
  <2>1. MaxMinGasPriceDeltaRate * DefaultMinGasPrice \in Nat
    BY GasPriceAssumption
  <2> QED
    BY <1>1, <2>1, GasPriceAssumption DEF Prices, WithinBlockDelta
<1>5. DutyRegistered
  <2>1. currValidators = OnDuty(GenesisInfo, MinimumStakingAmount)
    BY DEF Init
  <2> QED
    BY <1>1, <2>1 DEF DutyRegistered, OnDuty, GenesisInfo
<1>6. epochList \in Seq(Epoch) /\ epochChan \in Seq(Epoch) /\ sentEpochs \in Nat
  BY DEF Init
<1> QED
  BY <1>2, <1>3, <1>4, <1>5, <1>6 DEF Inv

(* Commit: the epoch switch, the block reward and the refreshed gas price. *)
LEMMA CommitInv ==
    ASSUME Inv, Commit
    PROVE  Inv' /\ StepOK
<1> DEFINE switched == SwitchIfDue(world)
           slashed == SlashAll(switched)
           settled == SettleSystemAcc(slashed)
           paid == PayBlockReward(settled, BlockReward(slashed))
           crash == IF switched.panic # NoPanic THEN switched.panic
                    ELSE IF settled.panic # NoPanic THEN settled.panic
                    ELSE paid.panic
<1> HIDE DEF switched, slashed, settled, paid
<1>1. /\ world.panic = NoPanic
      /\ \/ /\ world' = [world EXCEPT !.panic = crash]
            /\ UNCHANGED <<dutyVars, watcherVars>>
         \/ /\ switched.panic = NoPanic
            /\ settled.panic = NoPanic
            /\ paid.panic = NoPanic
            /\ world' = RefreshMinGasPrice(Prepare(paid))
            /\ currValidators' = ValidatorsAtCommit(switched)
            /\ epochList' = IF EpochDue THEN Tail(EpochsAtCommit)
                            ELSE EpochsAtCommit
            /\ epochChan' = <<>>
            /\ sentEpochs' = sentEpochs
  BY DEF Commit, Running, switched, slashed, settled, paid
<1>2. CASE /\ world' = [world EXCEPT !.panic = crash]
           /\ UNCHANGED <<dutyVars, watcherVars>>
  <2> HIDE DEF crash
  <2>1. WorldShape(world') /\ world'.info = world.info /\ SamePrices(world, world')
    BY <1>2 DEF Inv, WorldShape, SamePrices
  <2>2. Inv'
    BY <1>2, <2>1
       DEF Inv, dutyVars, watcherVars, SamePrices, Prices, DutyRegistered
  <2>3. StepOK
    BY <2>1 DEF StepOK, Retired, RewardsKept, Inv, Registry, DistinctValidators
  <2> QED
    BY <2>2, <2>3
<1>3. CASE /\ switched.panic = NoPanic
           /\ settled.panic = NoPanic
           /\ paid.panic = NoPanic
           /\ world' = RefreshMinGasPrice(Prepare(paid))
           /\ currValidators' = ValidatorsAtCommit(switched)
           /\ epochList' = IF EpochDue THEN Tail(EpochsAtCommit)
                           ELSE EpochsAtCommit
           /\ epochChan' = <<>>
           /\ sentEpochs' = sentEpochs
  <2>1. EpochsAtCommit \in Seq(Epoch)
    BY DEF EpochsAtCommit, Inv
  <2>2. /\ WorldShape(switched) /\ Registry(switched.info)
        /\ SamePrices(world, switched)
        /\ RewardsKept(world.info, switched.info)
        /\ Retired(world.info, switched.info)
        /\ ~EpochDue => switched = world
    <3>1. CASE EpochDue
      <4>1. /\ Head(EpochsAtCommit) \in Epoch
            /\ switched = SwitchEpoch(world, Head(EpochsAtCommit).power)
        BY <2>1, <3>1 DEF EpochDue, switched, SwitchIfDue
      <4>2. Head(EpochsAtCommit).power \in Nominations
        BY <4>1 DEF Epoch
      <4>3. /\ WorldShape(switched) /\ Registry(switched.info)
            /\ SamePrices(world, switched)
            /\ RewardsKept(world.info, switched.info)
            /\ Reappointed(world.info, switched.info)
        BY <1>1, <1>3, <4>1, <4>2, SwitchEpochRegistry DEF Inv
      <4>4. Retired(world.info, switched.info)
        BY <4>3 DEF Inv, Registry, DistinctValidators, Reappointed, Retired
      <4> QED
        BY <3>1, <4>3, <4>4
    <3>2. CASE ~EpochDue
      <4>1. switched = world
        BY <3>2 DEF switched, SwitchIfDue
      <4> QED
        BY <4>1
           DEF Inv, SamePrices, RewardsKept, Retired, Registry,
               DistinctValidators
    <3> QED
      BY <3>1, <3>2
  <2>3. /\ WorldShape(slashed) /\ SamePrices(switched, slashed)
        /\ slashed.info = switched.info
    BY <2>2, CoinsOnly DEF slashed
  <2>4. /\ WorldShape(settled) /\ SamePrices(slashed, settled)
        /\ settled.info = switched.info
    BY <2>3, CoinsOnly DEF settled
  <2>5. /\ WorldShape(paid) /\ Registry(paid.info) /\ SamePrices(settled, paid)
        /\ paid.info.CurrEpochNum = switched.info.CurrEpochNum
        /\ paid.info.Validators = switched.info.Validators
        /\ EntriesKept(switched.info, paid.info)
    <3>1. CASE paid = settled
      BY <3>1, <2>2, <2>4 DEF SamePrices, EntriesKept
    <3>2. CASE paid = DistributeFee(settled, BlockReward(slashed),
                                    lastProposer, lastCommitInfo)
      <4>1. Registry(settled.info)
        BY <2>2, <2>4
      <4> QED
        BY <1>3, <2>4, <3>2, <4>1, DistributeFeeRegistry
    <3> QED
      BY <3>1, <3>2 DEF paid, PayBlockReward
  <2>6. /\ WorldShape(world')
        /\ world'.info = paid.info
        /\ world'.minGasPrice = world.minGasPrice
        /\ world'.lastMinGasPrice = world.minGasPrice
    <3>1. /\ WorldShape(Prepare(paid)) /\ SamePrices(paid, Prepare(paid))
          /\ Prepare(paid).info = paid.info
      BY <2>5, CoinsOnly
    <3>2. Prepare(paid).minGasPrice = world.minGasPrice
      BY <2>2, <2>3, <2>4, <2>5, <3>1 DEF SamePrices
    <3> QED
      BY <1>3, <3>1, <3>2 DEF RefreshMinGasPrice, WorldShape
  <2>7. Prices(world')
    <3>1. MaxMinGasPriceDeltaRate * world.minGasPrice \in Nat
      BY GasPriceAssumption DEF Inv, Prices
    <3> QED
      BY <2>6, <3>1 DEF Inv, Prices, WithinBlockDelta
  <2>8. DutyRegistered'
    <3>1. CASE currValidators'
                   = GetActiveValidators(switched.info, MinimumStakingAmount)
      BY <2>5, <2>6, <3>1 DEF DutyRegistered, GetActiveValidators, OnDuty
    <3>2. CASE ~EpochDue /\ currValidators' = currValidators
      BY <2>2, <2>5, <2>6, <3>2 DEF Inv, DutyRegistered
    <3> QED
      BY <1>3, <3>1, <3>2 DEF ValidatorsAtCommit
  <2>9. /\ epochList' \in Seq(Epoch)
        /\ epochChan' \in Seq(Epoch)
        /\ sentEpochs' \in Nat
    BY <1>3, <2>1 DEF Inv, EpochDue
  <2>10. Inv'
    BY <2>5, <2>6, <2>7, <2>8, <2>9 DEF Inv
  <2>11. RewardsKept(world.info, world'.info)
    BY <2>2, <2>5, <2>6 DEF RewardsKept, EntriesKept
  <2>12. Retired(world.info, world'.info)
    BY <2>2, <2>5, <2>6 DEF Retired
  <2> QED
    BY <2>10, <2>11, <2>12 DEF StepOK
<1> QED
  BY <1>1, <1>2, <1>3

(* ExecuteTx: the contract's transaction, then the refund.                 *)
LEMMA ExecuteTxInv ==
    ASSUME Inv, NEW tx \in Txs, ExecuteTx(tx)
    PROVE  Inv' /\ StepOK
<1> DEFINE done == Execute(world, tx)
<1>1. /\ world' = [done EXCEPT !.balance[tx.From] = Add(@, tx.refund)]
      /\ UNCHANGED <<dutyVars, watcherVars>>
  BY DEF ExecuteTx
<1>2. /\ WorldShape(done) /\ Registry(done.info)
      /\ Continues(world.info, done.info)
      /\ Prices(done) /\ done.panic = world.panic
  <2>1. tx \in StakingTx
    BY TxsAssumption
  <2> QED
    BY <2>1, ExecuteRegistry DEF Inv
<1> HIDE DEF done
<1>3. WorldShape(world') /\ world'.info = done.info /\ SamePrices(done, world')
  BY <1>1, <1>2 DEF WorldShape, SamePrices
<1>4. Prices(world')
  BY <1>2, <1>3 DEF Prices, SamePrices
<1>5. DutyRegistered'
  BY <1>1, <1>2, <1>3 DEF Inv, DutyRegistered, Continues, dutyVars
<1>6. Inv'
  BY <1>1, <1>2, <1>3, <1>4, <1>5 DEF Inv, dutyVars, watcherVars
<1>7. Retired(world.info, world'.info)
  <2>1. SUFFICES ASSUME NEW v \in world.info.Validators,
                        NEW u \in world'.info.Validators,
                        v.IsRetiring, u.Address = v.Address
                 PROVE  u.IsRetiring /\ u.VotingPower = v.VotingPower
    BY DEF Retired
  <2>2. PICK x \in done.info.Validators :
            /\ x.Address = v.Address
            /\ x.VotingPower = v.VotingPower
            /\ x.IsRetiring
    BY <1>2, <2>1 DEF Continues
  <2>3. x = u
    BY <1>2, <1>3, <2>1, <2>2 DEF Registry, DistinctValidators
  <2> QED
    BY <2>2, <2>3
<1>8. RewardsKept(world.info, world'.info)
  BY <1>2, <1>3 DEF RewardsKept, Continues
<1> QED
  BY <1>6, <1>7, <1>8 DEF StepOK

(* Steps that leave the world and the validators on duty alone.            *)
LEMMA OtherStepInv ==
    ASSUME Inv, world' = world, UNCHANGED dutyVars,
           epochChan' \in Seq(Epoch), sentEpochs' \in Nat
    PROVE  Inv' /\ StepOK
<1>1. Inv'
  BY DEF Inv, dutyVars, DutyRegistered
<1>2. StepOK
  BY DEF StepOK, Retired, RewardsKept, Inv, Registry, DistinctValidators
<1> QED
  BY <1>1, <1>2

(* Every step keeps the invariant.                                         *)
LEMMA NextInv ==
    ASSUME Inv, [Next]_vars
    PROVE  Inv' /\ StepOK
<1>1. ASSUME SendEpoch PROVE Inv' /\ StepOK
  <2>1. /\ world' = world /\ UNCHANGED dutyVars
        /\ sentEpochs < Len(Epochs)
        /\ epochChan' = <<Epochs[sentEpochs + 1]>>
        /\ sentEpochs' = sentEpochs + 1
    BY <1>1 DEF SendEpoch
  <2>2. Epochs[sentEpochs + 1] \in Epoch
    <3>1. sentEpochs + 1 \in 1 .. Len(Epochs)
      BY <2>1, EpochsAssumption DEF Inv
    <3> QED
      BY <3>1, EpochsAssumption
  <2>3. epochChan' \in Seq(Epoch) /\ sentEpochs' \in Nat
    BY <2>1, <2>2 DEF Inv
  <2> QED
    BY <2>1, <2>3, OtherStepInv
<1>2. ASSUME world' = world, UNCHANGED <<dutyVars, watcherVars>>
      PROVE  Inv' /\ StepOK
  <2>1. epochChan' \in Seq(Epoch) /\ sentEpochs' \in Nat
    BY <1>2 DEF Inv, watcherVars
  <2> QED
    BY <1>2, <2>1, OtherStepInv
<1>3. ASSUME NEW proposer, NEW signers, NEW evidence,
             BeginBlock(proposer, signers, evidence)
      PROVE  Inv' /\ StepOK
  BY <1>2, <1>3 DEF BeginBlock
<1>4. ASSUME NEW tx, DeliverTx(tx)
      PROVE  Inv' /\ StepOK
  BY <1>2, <1>4 DEF DeliverTx
<1>5. ASSUME EndBlock PROVE Inv' /\ StepOK
  BY <1>2, <1>5 DEF EndBlock
<1>6. ASSUME EndPostCommit PROVE Inv' /\ StepOK
  BY <1>2, <1>6 DEF EndPostCommit
<1>7. CASE UNCHANGED vars
  BY <1>2, <1>7 DEF vars
<1> QED
  BY <1>1, <1>3, <1>4, <1>5, <1>6, <1>7, CommitInv, ExecuteTxInv DEF Next

(* The invariant holds in every reachable state.                           *)
THEOREM SpecInv == Spec => []Inv
<1>1. Init => Inv
  BY InitInv
<1>2. Inv /\ [Next]_vars => Inv'
  BY NextInv
<1> QED
  BY <1>1, <1>2, PTL DEF Spec

-----------------------------------------------------------------------------
(* Whatever createValidator, editValidator, retire and SwitchEpoch do, no  *)
(* two validators share an address, a key or a place in the list.          *)
THEOREM UniqueValidatorsHolds == Spec => []UniqueValidators
<1>1. Inv => UniqueValidators
  BY DEF Inv, Registry, UniqueValidators
<1> QED
  BY <1>1, SpecInv, PTL

(* Every pending reward belongs to a registered validator: the lookup in   *)
(* endEpoch never yields nil.                                              *)
THEOREM RewardsHaveValidatorsHolds == Spec => []RewardsHaveValidators
<1>1. Inv => RewardsHaveValidators
  BY DEF Inv, Registry, RewardsHaveValidators
<1> QED
  BY <1>1, SpecInv, PTL

(* SwitchEpoch and DistributeFee together never make two reward entries    *)
(* for one validator and epoch.                                            *)
THEOREM OneRewardPerEpochHolds == Spec => []OneRewardPerEpoch
<1>1. Inv => OneRewardPerEpoch
  BY DEF Inv, Registry, OneRewardPerEpoch
<1> QED
  BY <1>1, SpecInv, PTL

(* endEpoch pays every reward once it is older than the previous epoch.    *)
THEOREM RewardWindowHolds == Spec => []RewardWindow
<1>1. Inv => RewardWindow
  BY DEF Inv, Registry, RewardWindow, EpochCountBeforeRewardMature
<1> QED
  BY <1>1, SpecInv, PTL

(* EndBlock reports keys and powers of registered validators only, also in *)
(* the blocks in which Commit leaves currValidators as it was.             *)
THEOREM DutyRegisteredHolds == Spec => []DutyRegistered
<1>1. Inv => DutyRegistered
  BY DEF Inv
<1> QED
  BY <1>1, SpecInv, PTL

(* handleMinGasPrice keeps the price within its absolute limits and within *)
(* the limit of change per block.                                          *)
THEOREM PriceBoundedHolds == Spec => []PriceBounded
<1>1. Inv => PriceBounded
  BY DEF Inv, Prices, PriceBounded
<1> QED
  BY <1>1, SpecInv, PTL

(* No step drops a reward entry of the current epoch.                      *)
THEOREM ImmatureRewardsKeptHolds == Spec => ImmatureRewardsKept
<1>1. Inv /\ [Next]_vars =>
        [\A pr \in world.info.PendingRewards :
            pr.EpochNum = world.info.CurrEpochNum =>
              \E q \in world'.info.PendingRewards :
                  q.Address = pr.Address /\ q.EpochNum = pr.EpochNum]_vars
  BY NextInv DEF StepOK, RewardsKept
<1> QED
  BY <1>1, SpecInv, PTL DEF Spec, ImmatureRewardsKept

(* A retiring validator stays retiring while it is registered, and no      *)
(* epoch gives it power again.                                             *)
THEOREM RetirementIsFinalHolds == Spec => RetirementIsFinal
<1>1. Inv /\ [Next]_vars =>
        [\A v \in world.info.Validators, u \in world'.info.Validators :
            v.IsRetiring /\ u.Address = v.Address =>
              /\ u.IsRetiring
              /\ u.VotingPower \in {0, v.VotingPower}]_vars
  BY NextInv DEF StepOK, Retired
<1> QED
  BY <1>1, SpecInv, PTL DEF Spec, RetirementIsFinal

-----------------------------------------------------------------------------
(* The coins. Amounts are words, so that every equation between them holds *)
(* modulo Word.                                                            *)
Same(a, b) == SameMod(Word, a, b)

(* The accounts and the reward entries of a world.                         *)
Ledger(w) ==
    /\ w.balance \in [Accounts -> Coins]
    /\ w.allBurnt \in Coins
    /\ w.info.PendingRewards \subseteq PendingReward
    /\ IsFiniteSet(w.info.PendingRewards)

(* Rewards go to accounts that somebody has a key for.                     *)
Ordinary(info) == \A v \in info.Validators : v.RewardTo \notin ReservedAccounts

(* What nearly every operator keeps.                                       *)
Conserves(w, u) ==
    /\ Ordinary(u.info)
    /\ Same(SupplyOf(u.balance), SupplyOf(w.balance))
    /\ u.balance[SystemAddress] = w.balance[SystemAddress]

DebtKept(w, u) == Same(Debt(u), Debt(w))

DebtGrows(w, u, n) == Same(Debt(u), Debt(w) + n)

(* The staking information is a record: a function, and not only something *)
(* that has fields.                                                        *)
Formed(info) == info = [x \in DOMAIN info |-> info[x]]

(* The sums of the model, as sums of four functions.                       *)
stake == [v \in Validator |-> v.StakedCoins]

power == [v \in Validator |-> v.VotingPower]

amount == [pr \in PendingReward |-> pr.Amount]

gas == [tx \in StakingTx |-> tx.fee + tx.refund]

(* The stakes of some validators.                                          *)
LEMMA StakeSum ==
    ASSUME NEW S, IsFiniteSet(S), S \subseteq Validator
    PROVE  /\ Integral(stake, S)
           /\ StakeOf(S) = SumFunctionOnSet(stake, S)
           /\ StakeOf(S) \in Int
<1> DEFINE f == [v \in S |-> v.StakedCoins]
<1>1. Integral(stake, S) /\ Agree(f, stake, S)
  BY DEF Integral, Agree, stake, Validator, Coins
<1>2. StakeOf(S) = SumFunctionOnSet(f, S)
  BY DEF StakeOf, SumFunction
<1> HIDE DEF f
<1> QED
  BY <1>1, <1>2, SumSame, SumRemove

(* The powers of some validators.                                          *)
LEMMA PowerSum ==
    ASSUME NEW S, IsFiniteSet(S), S \subseteq Validator
    PROVE  PowerOf(S) \in Nat
<1> DEFINE f == [v \in S |-> v.VotingPower]
<1>1. \A v \in S : f[v] \in Nat
  BY DEF Validator
<1>2. PowerOf(S) = SumFunctionOnSet(f, S)
  BY DEF PowerOf, SumFunction
<1> HIDE DEF f
<1> QED
  BY <1>1, <1>2, SumMonotonic

(* The amounts of some reward entries.                                     *)
LEMMA AmountSum ==
    ASSUME NEW S, IsFiniteSet(S), S \subseteq PendingReward
    PROVE  /\ Integral(amount, S)
           /\ AmountOf(S) = SumFunctionOnSet(amount, S)
           /\ AmountOf(S) \in Int
<1> DEFINE f == [pr \in S |-> pr.Amount]
<1>1. Integral(amount, S) /\ Agree(f, amount, S)
  BY DEF Integral, Agree, amount, PendingReward, Coins
<1>2. AmountOf(S) = SumFunctionOnSet(f, S)
  BY DEF AmountOf, SumFunction
<1> HIDE DEF f
<1> QED
  BY <1>1, <1>2, SumSame, SumRemove

(* The gas of some transactions.                                           *)
LEMMA GasSum ==
    ASSUME NEW S, S \subseteq Txs
    PROVE  /\ IsFiniteSet(S) /\ S \subseteq StakingTx
           /\ Integral(gas, S)
           /\ Gas(S) = SumFunctionOnSet(gas, S)
           /\ Gas(S) \in Nat
<1> DEFINE f == [tx \in S |-> tx.fee + tx.refund]
<1>0. IsFiniteSet(S) /\ S \subseteq StakingTx
  BY TxsAssumption, FS_Subset
<1>1. Integral(gas, S) /\ Agree(f, gas, S) /\ \A tx \in S : f[tx] \in Nat
  BY <1>0 DEF Integral, Agree, gas, StakingTx, Coins
<1>2. Gas(S) = SumFunctionOnSet(f, S)
  BY DEF Gas, SumFunction
<1> HIDE DEF f
<1>3. Gas(S) \in Nat
  BY <1>0, <1>1, <1>2, SumMonotonic
<1>4. SumFunctionOnSet(f, S) = SumFunctionOnSet(gas, S)
  BY <1>0, <1>1, SumSame
<1> QED
  BY <1>0, <1>1, <1>2, <1>3, <1>4

(* The word operations return words, congruent to what they stand for.     *)
LEMMA WordOps ==
    ASSUME NEW a \in Int, NEW b \in Int
    PROVE  /\ Add(a, b) \in Coins /\ Same(Add(a, b), a + b)
           /\ Sub(a, b) \in Coins /\ Same(Sub(a, b), a - b)
           /\ Mul(a, b) \in Coins
<1>1. a + b \in Int /\ a - b \in Int /\ a * b \in Int
  OBVIOUS
<1> QED
  BY <1>1, SameModRem, WordAssumption DEF Add, Sub, Mul, Coins, Same

(* The laws of congruence, for words.                                      *)
LEMMA SameRefl ==
    ASSUME NEW a \in Int
    PROVE  Same(a, a)
BY SameModRefl, WordAssumption DEF Same

(* Congruences can be turned round ...                                     *)
LEMMA SameSym ==
    ASSUME NEW a, NEW b, Same(a, b)
    PROVE  Same(b, a)
BY SameModSym, WordAssumption DEF Same

(* ... and chained, ...                                                    *)
LEMMA SameTrans ==
    ASSUME NEW a, NEW b, NEW c, Same(a, b), Same(b, c)
    PROVE  Same(a, c)
BY SameModTrans, WordAssumption DEF Same

(* ... added and subtracted, ...                                           *)
LEMMA SamePlus ==
    ASSUME NEW a, NEW b, NEW c, NEW d, Same(a, b), Same(c, d)
    PROVE  Same(a + c, b + d) /\ Same(a - c, b - d)
BY SameModPlus, WordAssumption DEF Same

(* ... also with the same number on both sides.                            *)
LEMMA SameShift ==
    ASSUME NEW a, NEW b, Same(a, b), NEW n \in Int
    PROVE  /\ a \in Int /\ b \in Int
           /\ Same(a + n, b + n) /\ Same(n + a, n + b)
           /\ Same(a - n, b - n) /\ Same(n - a, n - b)
<1>1. Same(n, n)
  BY SameRefl
<1>2. a \in Int /\ b \in Int
  BY DEF Same, SameMod
<1> QED
  BY <1>1, <1>2, SamePlus

(* Words are integers, and so is their sum.                                *)
LEMMA SupplyIsInt ==
    ASSUME NEW b \in [Accounts -> Coins]
    PROVE  /\ Integral(b, Accounts)
           /\ SupplyOf(b) \in Int
<1>1. Integral(b, Accounts)
  BY DEF Integral, Coins
<1> QED
  BY <1>1, AccountsAssumption, SumRemove DEF SupplyOf

(* Moving coins from one account to another.                               *)
LEMMA Moved ==
    ASSUME NEW b \in [Accounts -> Coins], NEW from \in Accounts,
           NEW to \in Accounts, from # to, NEW n \in Int,
           NEW c \in [Accounts -> Coins], Same(c[from], b[from] - n),
           Same(c[to], b[to] + n),
           \A a \in Accounts \ {from, to} : c[a] = b[a]
    PROVE  Same(SupplyOf(c), SupplyOf(b))
<1> DEFINE h == [b EXCEPT ![from] = c[from]]
<1>1. /\ h \in [Accounts -> Coins]
      /\ h[from] = c[from] /\ h[to] = b[to]
      /\ Agree(h, b, Accounts \ {from})
      /\ Agree(c, h, Accounts \ {to})
  BY DEF Agree
<1> HIDE DEF h
<1>2. /\ Integral(b, Accounts) /\ Integral(c, Accounts) /\ Integral(h, Accounts)
      /\ SupplyOf(b) \in Int /\ SupplyOf(h) \in Int
      /\ b[from] \in Int /\ b[to] \in Int /\ c[from] \in Int /\ c[to] \in Int
  BY <1>1, SupplyIsInt DEF Integral
<1>3. SupplyOf(h) = SupplyOf(b) + c[from] - b[from]
  BY <1>1, <1>2, AccountsAssumption, SumUpdate DEF SupplyOf
<1>4. SupplyOf(c) = SupplyOf(h) + c[to] - b[to]
  BY <1>1, <1>2, AccountsAssumption, SumUpdate DEF SupplyOf
<1>5. SupplyOf(c) = SupplyOf(b) + ((c[from] - b[from]) + (c[to] - b[to]))
  BY <1>2, <1>3, <1>4
<1>6. Same(c[from] + c[to], (b[from] - n) + (b[to] + n))
  BY SamePlus
<1>7. Same((SupplyOf(b) - (b[from] + b[to])) + (c[from] + c[to]),
           (SupplyOf(b) - (b[from] + b[to])) + ((b[from] - n) + (b[to] + n)))
  BY <1>2, <1>6, SameShift
<1> QED
  BY <1>2, <1>5, <1>7

(* Coins that come into the contract leave the sender.                     *)
LEMMA PayInCoins ==
    ASSUME NEW b \in [Accounts -> Coins], NEW from \in Accounts,
           from \notin ReservedAccounts, NEW n \in Coins,
           NEW c, c = PayIn(b, from, n)
    PROVE  /\ c \in [Accounts -> Coins]
           /\ Same(SupplyOf(c), SupplyOf(b))
           /\ Same(c[StakingContractAddress], b[StakingContractAddress] + n)
           /\ c[BlackHoleAddress] = b[BlackHoleAddress]
           /\ c[SystemAddress] = b[SystemAddress]
<1> DEFINE to == StakingContractAddress
<1>1. /\ to \in Accounts /\ from # to
      /\ BlackHoleAddress \in Accounts \ {from, to}
      /\ SystemAddress \in Accounts \ {from, to}
  BY AddressAssumption, ReservedAssumption DEF ReservedAccounts
<1>2. c = [b EXCEPT ![from] = Sub(b[from], n), ![to] = Add(b[to], n)]
  BY <1>1 DEF PayIn
<1>i. b[from] \in Int /\ b[to] \in Int /\ n \in Int
  BY <1>1 DEF Coins
<1>3. /\ Sub(b[from], n) \in Coins /\ Same(Sub(b[from], n), b[from] - n)
      /\ Add(b[to], n) \in Coins /\ Same(Add(b[to], n), b[to] + n)
  BY <1>i, WordOps
<1> HIDE DEF to
<1>4. /\ c \in [Accounts -> Coins]
      /\ Same(c[from], b[from] - n)
      /\ Same(c[to], b[to] + n)
      /\ \A a \in Accounts \ {from, to} : c[a] = b[a]
  BY <1>1, <1>2, <1>3
<1>5. n \in Int
  BY DEF Coins
<1>6. Same(SupplyOf(c), SupplyOf(b))
  BY <1>1, <1>4, <1>5, Moved
<1> QED
  BY <1>1, <1>4, <1>6 DEF to

(* What is owed and what is held grow together.                            *)
LEMMA DebtBalanced ==
    ASSUME NEW w, Ledger(w), NEW u, Ledger(u),
           NEW x, x = StakeOf(w.info.Validators)
                      + AmountOf(w.info.PendingRewards), x \in Int,
           NEW y, y = StakeOf(u.info.Validators)
                      + AmountOf(u.info.PendingRewards), y \in Int,
           NEW n \in Int, Same(y, x + n),
           Same(u.balance[StakingContractAddress],
                w.balance[StakingContractAddress] + n)
    PROVE  DebtKept(w, u)
<1> DEFINE p == w.balance[StakingContractAddress]
           q == u.balance[StakingContractAddress]
<1>1. p \in Int /\ q \in Int
  BY AddressAssumption DEF Ledger, Coins
<1>2. Debt(w) = x - p /\ Debt(u) = y - q
  BY DEF Debt, Owed
<1>3. Same(q, p + n)
  OBVIOUS
<1> HIDE DEF p, q
<1>4. Same(y - q, (x + n) - (p + n))
  BY <1>3, SamePlus
<1>5. (x + n) - (p + n) = x - p
  BY <1>1
<1> QED
  BY <1>2, <1>4, <1>5 DEF DebtKept

(* What is owed is an integer.                                             *)
LEMMA OwedIsInt ==
    ASSUME NEW w, Registry(w.info), Ledger(w)
    PROVE  /\ StakeOf(w.info.Validators) \in Int
           /\ AmountOf(w.info.PendingRewards) \in Int
BY StakeSum, AmountSum DEF Registry, Ledger

(* createValidator takes the stake that it records.                        *)
LEMMA CreateCoins ==
    ASSUME NEW w, WorldShape(w), Registry(w.info), Ledger(w), NEW tx \in Txs,
           NEW u, u = Create(w, tx)
    PROVE  /\ Ledger(u)
           /\ DebtKept(w, u)
           /\ Ordinary(w.info) /\ tx.RewardTo \notin ReservedAccounts
                => Conserves(w, u)
<1> DEFINE info == w.info
           V == info.Validators
           new == [Address |-> tx.From, Pubkey |-> tx.Pubkey,
                   RewardTo |-> tx.RewardTo, VotingPower |-> 0,
                   StakedCoins |-> tx.Value, IsRetiring |-> FALSE,
                   idx |-> NextIdx(info)]
<1>0. /\ StakeOf(V) \in Int /\ AmountOf(w.info.PendingRewards) \in Int
      /\ SupplyOf(w.balance) \in Int
  BY OwedIsInt, SupplyIsInt DEF Ledger
<1>1. CASE u = w
  <2>1. Debt(w) \in Int
    BY <1>0, AddressAssumption DEF Debt, Owed, Ledger, Coins
  <2> QED
    BY <1>0, <1>1, <2>1, SameRefl DEF Conserves, DebtKept
<1>2. CASE u # w
  <2>1. /\ CanAddValidator(info, tx.From, tx.Pubkey)
        /\ u = [w EXCEPT
                  !.info = [w.info EXCEPT !.Validators = @ \cup {new}],
                  !.balance = PayIn(@, tx.From, tx.Value)]
    BY <1>2 DEF Create, AddValidator
  <2>2. /\ u.info.Validators = V \cup {new}
        /\ u.info.PendingRewards = info.PendingRewards
        /\ u.balance = PayIn(w.balance, tx.From, tx.Value)
        /\ u.allBurnt = w.allBurnt
    BY <2>1 DEF WorldShape
  <2>3. /\ tx.From \in Accounts /\ tx.From \notin ReservedAccounts
        /\ tx.Value \in Coins /\ tx.Value \in Int
    BY TxsAssumption DEF StakingTx, Coins
  <2>4. /\ u.balance \in [Accounts -> Coins]
        /\ Same(SupplyOf(u.balance), SupplyOf(w.balance))
        /\ Same(u.balance[StakingContractAddress],
                w.balance[StakingContractAddress] + tx.Value)
        /\ u.balance[BlackHoleAddress] = w.balance[BlackHoleAddress]
        /\ u.balance[SystemAddress] = w.balance[SystemAddress]
    <3>1. w.balance \in [Accounts -> Coins]
      BY DEF Ledger
    <3> QED
      BY <2>2, <2>3, <3>1, PayInCoins
  <2>5. Ledger(u)
    BY <2>2, <2>4 DEF Ledger
  <2>6. Registry(u.info)
    BY TxsAssumption, CreateRegistry
  <2>7. StakeOf(u.info.Validators) = StakeOf(V) + tx.Value
    <3>1. /\ IsFiniteSet(V) /\ V \subseteq Validator
          /\ IsFiniteSet(V \cup {new}) /\ V \cup {new} \subseteq Validator
      BY <2>2, <2>6 DEF Registry
    <3>2. new \notin V /\ stake[new] = tx.Value
      BY <2>1, <3>1 DEF CanAddValidator, stake
    <3> HIDE DEF new
    <3>3. SumFunctionOnSet(stake, V \cup {new})
            = stake[new] + SumFunctionOnSet(stake, V)
      BY <3>1, <3>2, StakeSum, SumAdd
    <3>4. /\ StakeOf(V) = SumFunctionOnSet(stake, V)
          /\ StakeOf(V \cup {new}) = SumFunctionOnSet(stake, V \cup {new})
      BY <3>1, StakeSum
    <3> QED
      BY <1>0, <2>2, <2>3, <3>2, <3>3, <3>4
  <2>8. DebtKept(w, u)
    <3> DEFINE x == StakeOf(V) + AmountOf(info.PendingRewards)
               y == StakeOf(u.info.Validators) + AmountOf(u.info.PendingRewards)
    <3>1. x \in Int /\ y = x + tx.Value /\ y \in Int
      BY <1>0, <2>2, <2>3, <2>7
    <3>2. Same(y, x + tx.Value)
      BY <3>1, SameRefl
    <3> QED
      BY <2>3, <2>4, <2>5, <3>1, <3>2, DebtBalanced
  <2>9. ASSUME Ordinary(w.info), tx.RewardTo \notin ReservedAccounts
        PROVE  Conserves(w, u)
    BY <2>2, <2>4, <2>9 DEF Conserves, Ordinary
  <2> QED
    BY <2>5, <2>8, <2>9
<1> QED
  BY <1>1, <1>2

(* editValidator takes the coins that it adds to a stake; retire may too.  *)
LEMMA EditCoins ==
    ASSUME NEW w, WorldShape(w), Registry(w.info), Ledger(w), NEW tx \in Txs,
           NEW u, u = Edit(w, tx)
    PROVE  /\ Ledger(u)
           /\ DebtKept(w, u)
           /\ Ordinary(w.info) /\ tx.RewardTo \notin ReservedAccounts
                => Conserves(w, u)
<1> DEFINE V == w.info.Validators
           g(v) == IF v.Address = tx.From THEN Edited(v, tx) ELSE v
           f == [v \in V |-> g(v)]
<1>0. /\ StakeOf(V) \in Int /\ AmountOf(w.info.PendingRewards) \in Int
      /\ SupplyOf(w.balance) \in Int
  BY OwedIsInt, SupplyIsInt DEF Ledger
<1>1. CASE GetValidatorByAddr(w.info, tx.From) = {}
  <2>1. Debt(w) \in Int /\ u = w
    BY <1>0, <1>1, AddressAssumption DEF Debt, Owed, Ledger, Coins, Edit
  <2> QED
    BY <1>0, <2>1, SameRefl DEF Conserves, DebtKept
<1>2. CASE GetValidatorByAddr(w.info, tx.From) # {}
  <2>0. PICK x \in V : x.Address = tx.From
    BY <1>2 DEF GetValidatorByAddr
  <2>1. u = [w EXCEPT !.info.Validators = {g(v) : v \in @},
                      !.balance = PayIn(@, tx.From, tx.Value)]
    BY <1>2 DEF Edit
  <2>2. /\ u.info.Validators = {f[v] : v \in V}
        /\ u.info.PendingRewards = w.info.PendingRewards
        /\ u.balance = PayIn(w.balance, tx.From, tx.Value)
        /\ u.allBurnt = w.allBurnt
    <3>1. u.info = [w.info EXCEPT !.Validators = {g(v) : v \in V}]
      BY <2>1 DEF WorldShape
    <3>2. {g(v) : v \in V} = {f[v] : v \in V}
      OBVIOUS
    <3>3. /\ u.balance = PayIn(w.balance, tx.From, tx.Value)
          /\ u.allBurnt = w.allBurnt
      BY <2>1 DEF WorldShape
    <3> QED
      BY <3>1, <3>2, <3>3 DEF WorldShape
  <2>3. /\ tx.From \in Accounts /\ tx.From \notin ReservedAccounts
        /\ tx.Value \in Coins /\ tx.Value \in Int
    BY TxsAssumption DEF StakingTx, Coins
  <2>4. /\ u.balance \in [Accounts -> Coins]
        /\ Same(SupplyOf(u.balance), SupplyOf(w.balance))
        /\ Same(u.balance[StakingContractAddress],
                w.balance[StakingContractAddress] + tx.Value)
        /\ u.balance[BlackHoleAddress] = w.balance[BlackHoleAddress]
        /\ u.balance[SystemAddress] = w.balance[SystemAddress]
    <3>1. w.balance \in [Accounts -> Coins]
      BY DEF Ledger
    <3> QED
      BY <2>2, <2>3, <3>1, PayInCoins
  <2>5. Ledger(u)
    BY <2>2, <2>4 DEF Ledger
  <2>6. /\ V \subseteq Validator /\ IsFiniteSet(V) /\ DistinctValidators(V)
        /\ u.info.Validators \subseteq Validator
        /\ IsFiniteSet(u.info.Validators)
    BY TxsAssumption, EditRegistry DEF Registry
  <2>7. \A v \in V :
          /\ f[v].Address = v.Address
          /\ f[v].StakedCoins = IF v = x THEN Add(v.StakedCoins, tx.Value)
                                ELSE v.StakedCoins
          /\ f[v].RewardTo \in {v.RewardTo, tx.RewardTo}
    <3>1. SUFFICES ASSUME NEW v \in V
                   PROVE  /\ f[v].Address = v.Address
                          /\ f[v].StakedCoins =
                                IF v = x THEN Add(v.StakedCoins, tx.Value)
                                ELSE v.StakedCoins
                          /\ f[v].RewardTo \in {v.RewardTo, tx.RewardTo}
      OBVIOUS
    <3>2. v.Address = tx.From <=> v = x
      BY <2>0, <2>6 DEF DistinctValidators
    <3>3. v \in Validator
      BY <2>6
    <3> QED
      BY <3>2, <3>3 DEF Edited, Validator
  <2>8. DOMAIN f = V
    OBVIOUS
  <2> HIDE DEF f
  <2>9. Same(StakeOf(u.info.Validators), StakeOf(V) + tx.Value)
    <3> DEFINE h == [v \in V |-> f[v].StakedCoins]
    <3>1. OneToOne(f, V)
      BY <2>6, <2>7 DEF OneToOne, DistinctValidators
    <3>2. \A v \in V : f[v] \in Validator /\ stake[f[v]] = h[v]
      BY <2>2, <2>6 DEF stake
    <3>3. Integral(h, V)
      BY <3>2 DEF Integral, Validator, Coins
    <3>4. Agree(h, stake, V \ {x}) /\ h[x] \in Int
      BY <2>0, <2>6, <2>7, <3>3 DEF Agree, stake, Integral
    <3>5. h[x] = Add(stake[x], tx.Value) /\ stake[x] \in Int
      BY <2>0, <2>6, <2>7 DEF stake, Validator, Coins
    <3> HIDE DEF h
    <3>6. SumFunctionOnSet(stake, {f[v] : v \in V}) = SumFunctionOnSet(h, V)
      BY <2>6, <2>8, <3>1, <3>2, <3>3, SumImage
    <3>7. SumFunctionOnSet(h, V)
            = SumFunctionOnSet(stake, V) + h[x] - stake[x]
      BY <2>0, <2>6, <3>4, StakeSum, SumUpdate
    <3>8. /\ StakeOf(V) = SumFunctionOnSet(stake, V)
          /\ StakeOf(u.info.Validators)
               = SumFunctionOnSet(stake, {f[v] : v \in V})
      BY <2>2, <2>6, StakeSum
    <3>9. StakeOf(u.info.Validators) = (StakeOf(V) - stake[x]) + h[x]
      BY <1>0, <3>4, <3>5, <3>6, <3>7, <3>8
    <3>10. Same(h[x], stake[x] + tx.Value)
      BY <2>3, <3>5, WordOps
    <3>11. Same((StakeOf(V) - stake[x]) + h[x],
                (StakeOf(V) - stake[x]) + (stake[x] + tx.Value))
      <4>1. StakeOf(V) - stake[x] \in Int
        BY <1>0, <3>5
      <4> QED
        BY <3>10, <4>1, SameShift
    <3>12. (StakeOf(V) - stake[x]) + (stake[x] + tx.Value)
             = StakeOf(V) + tx.Value
      BY <1>0, <2>3, <3>5
    <3> QED
      BY <3>9, <3>11, <3>12
  <2>10. DebtKept(w, u)
    <3> DEFINE a == AmountOf(w.info.PendingRewards)
               s == StakeOf(V)
               t == StakeOf(u.info.Validators)
    <3>1. s \in Int /\ a \in Int /\ t \in Int /\ Same(t, s + tx.Value)
      BY <1>0, <2>9 DEF Same, SameMod
    <3>2. a = AmountOf(u.info.PendingRewards)
      BY <2>2
    <3>3. Same(t + a, (s + a) + tx.Value) /\ t + a \in Int /\ s + a \in Int
      <4> HIDE DEF a, s, t
      <4>1. Same(t + a, (s + tx.Value) + a)
        BY <3>1, SameShift
      <4>2. (s + tx.Value) + a = (s + a) + tx.Value
        BY <2>3, <3>1
      <4> QED
        BY <3>1, <4>1, <4>2
    <3> QED
      BY <2>3, <2>4, <2>5, <3>2, <3>3, DebtBalanced
  <2>11. ASSUME Ordinary(w.info), tx.RewardTo \notin ReservedAccounts
         PROVE  Conserves(w, u)
    BY <2>2, <2>4, <2>7, <2>11 DEF Conserves, Ordinary
  <2> QED
    BY <2>5, <2>10, <2>11
<1> QED
  BY <1>1, <1>2

(* A transaction to the contract conserves the supply, and the contract    *)
(* takes in what it will owe.                                              *)
LEMMA ExecuteCoins ==
    ASSUME NEW w, WorldShape(w), Registry(w.info), Ledger(w), NEW tx \in Txs,
           NEW u, u = Execute(w, tx)
    PROVE  /\ Ledger(u)
           /\ DebtKept(w, u)
           /\ Ordinary(w.info) /\ tx.RewardTo \notin ReservedAccounts
                => Conserves(w, u)
<1>1. ASSUME Ledger(u), u.info = w.info, u.balance = w.balance
      PROVE  /\ Ledger(u)
             /\ DebtKept(w, u)
             /\ Ordinary(w.info) => Conserves(w, u)
  <2>1. /\ StakeOf(w.info.Validators) \in Int
        /\ AmountOf(w.info.PendingRewards) \in Int
        /\ SupplyOf(w.balance) \in Int
    BY OwedIsInt, SupplyIsInt DEF Ledger
  <2>2. Debt(w) \in Int /\ Debt(u) = Debt(w)
    BY <1>1, <2>1, AddressAssumption DEF Debt, Owed, Ledger, Coins
  <2> QED
    BY <1>1, <2>1, <2>2, SameRefl DEF Conserves, DebtKept
<1>2. ASSUME NEW isIncrease, u = handleMinGasPrice(w, tx.From, isIncrease)
      PROVE  Ledger(u) /\ u.info = w.info /\ u.balance = w.balance
  <2>1. u = w \/ \E p : u = [w EXCEPT !.minGasPrice = p]
    BY <1>2 DEF handleMinGasPrice
  <2> QED
    BY <2>1 DEF WorldShape, Ledger
<1>3. CASE u = w
  BY <1>1, <1>3
<1>4. CASE \E isIncrease : u = handleMinGasPrice(w, tx.From, isIncrease)
  BY <1>1, <1>2, <1>4
<1>5. CASE u = Create(w, tx)
  BY <1>5, CreateCoins
<1>6. CASE u = Edit(w, tx)
  BY <1>6, EditCoins
<1>7. \/ u = w
      \/ \E isIncrease : u = handleMinGasPrice(w, tx.From, isIncrease)
      \/ u = externalOp(w, tx)
  BY DEF Execute
<1>8. CASE u = externalOp(w, tx)
  BY <1>3, <1>5, <1>6, <1>8 DEF externalOp
<1> QED
  BY <1>3, <1>4, <1>7, <1>8

-----------------------------------------------------------------------------
(* Coins that the contract pays out reach the accounts they are owed to,   *)
(* unless they are owed to the contract itself.                            *)
LEMMA PayOutCoins ==
    ASSUME NEW b \in [Accounts -> Coins], NEW owed \in [Accounts -> Int],
           NEW total \in Int, NEW c, c = PayOut(b, owed, total)
    PROVE  /\ c \in [Accounts -> Coins]
           /\ Same(c[StakingContractAddress],
                   b[StakingContractAddress] + (0 - total))
           /\ \A a \in Accounts \ {StakingContractAddress} :
                 owed[a] = 0 => c[a] = b[a]
           /\ /\ owed[StakingContractAddress] = 0
              /\ SumFunctionOnSet(owed, Accounts) = total
              => Same(SupplyOf(c), SupplyOf(b))
<1> DEFINE from == StakingContractAddress
           h == [a \in Accounts |-> b[a] + owed[a]]
           d == [a \in Accounts |-> IF a = from THEN b[a] - total ELSE h[a]]
<1>1. \A a \in Accounts : b[a] \in Int /\ owed[a] \in Int
  BY DEF Coins
<1>2. from \in Accounts
  BY AddressAssumption
<1>3. \A a \in Accounts : c[a] = IF a = from THEN Sub(b[a], total)
                                 ELSE Add(b[a], owed[a])
  BY DEF PayOut
<1>4. ASSUME NEW a \in Accounts
      PROVE  c[a] \in Coins /\ Same(c[a], d[a])
  <2>1. /\ Sub(b[a], total) \in Coins /\ Same(Sub(b[a], total), b[a] - total)
        /\ Add(b[a], owed[a]) \in Coins
        /\ Same(Add(b[a], owed[a]), b[a] + owed[a])
    BY <1>1, WordOps
  <2> QED
    BY <1>3, <2>1
<1>5. DOMAIN c = Accounts /\ c = [a \in Accounts |-> c[a]]
  BY DEF PayOut
<1>6. c \in [Accounts -> Coins]
  BY <1>4, <1>5
<1>7. Same(c[from], b[from] + (0 - total))
  <2>1. d[from] = b[from] + (0 - total)
    BY <1>1, <1>2
  <2> QED
    BY <1>2, <1>4, <2>1
<1>8. ASSUME NEW a \in Accounts \ {from}, owed[a] = 0
      PROVE  c[a] = b[a]
  <2>1. c[a] = (b[a] + 0) % Word
    BY <1>3, <1>8 DEF Add
  <2>2. b[a] \in 0 .. Word - 1
    BY DEF Coins
  <2> QED
    BY <2>1, <2>2, WordAssumption
<1>9. ASSUME owed[from] = 0, SumFunctionOnSet(owed, Accounts) = total
      PROVE  Same(SupplyOf(c), SupplyOf(b))
  <2>1. /\ Integral(b, Accounts) /\ Integral(owed, Accounts)
        /\ AddsUp(h, b, owed, Accounts)
    BY <1>1 DEF Integral, AddsUp
  <2>2. /\ Integral(h, Accounts)
        /\ d[from] = b[from] - total /\ d[from] \in Int
        /\ h[from] = b[from] /\ h[from] \in Int
        /\ Agree(d, h, Accounts \ {from})
        /\ from \in Accounts
    BY <1>1, <1>2, <1>9 DEF Integral, Agree
  <2>3. Congruent(Word, c, d, Accounts)
    BY <1>4 DEF Congruent, Same
  <2> HIDE DEF d, h, from
  <2>4. SumFunctionOnSet(h, Accounts) = SupplyOf(b) + total
    BY <1>9, <2>1, AccountsAssumption, SumPlus DEF SupplyOf
  <2>5. SumFunctionOnSet(d, Accounts)
          = SumFunctionOnSet(h, Accounts) + d[from] - h[from]
    <3>1. /\ IsFiniteSet(Accounts) /\ from \in Accounts
          /\ Integral(h, Accounts) /\ d[from] \in Int
          /\ Agree(d, h, Accounts \ {from})
      BY <2>2, AccountsAssumption
    <3> QED
      BY <3>1, SumUpdate
  <2>6. SupplyOf(b) \in Int
    BY SupplyIsInt
  <2>7. SumFunctionOnSet(d, Accounts) = SupplyOf(b)
    <3>1. b[from] \in Int
      BY <2>2
    <3> QED
      BY <2>2, <2>4, <2>5, <2>6, <3>1
  <2>8. Same(SupplyOf(c), SumFunctionOnSet(d, Accounts))
    BY <2>3, AccountsAssumption, WordAssumption, SumSameMod
       DEF SupplyOf, Same
  <2> QED
    BY <2>7, <2>8
<1> QED
  BY <1>6, <1>7, <1>8, <1>9

(* Reward entries that go take their amounts out of the sum.               *)
LEMMA AmountWithout ==
    ASSUME NEW S, IsFiniteSet(S), S \subseteq PendingReward,
           NEW R, R \subseteq S
    PROVE  /\ IsFiniteSet(R) /\ R \subseteq PendingReward
           /\ IsFiniteSet(S \ R) /\ S \ R \subseteq PendingReward
           /\ AmountOf(S) = AmountOf(S \ R) + AmountOf(R)
<1>1. /\ IsFiniteSet(R) /\ R \subseteq PendingReward
      /\ IsFiniteSet(S \ R) /\ S \ R \subseteq PendingReward
  BY FS_Subset
<1>2. S = (S \ R) \cup R /\ (S \ R) \cap R = {}
  OBVIOUS
<1>3. SumFunctionOnSet(amount, (S \ R) \cup R)
        = SumFunctionOnSet(amount, S \ R) + SumFunctionOnSet(amount, R)
  BY <1>1, <1>2, AmountSum, SumUnion
<1>4. SumFunctionOnSet(amount, S)
        = SumFunctionOnSet(amount, S \ R) + SumFunctionOnSet(amount, R)
  BY <1>2, <1>3
<1>5. /\ AmountOf(S) = SumFunctionOnSet(amount, S)
      /\ AmountOf(R) = SumFunctionOnSet(amount, R)
      /\ AmountOf(S \ R) = SumFunctionOnSet(amount, S \ R)
  BY <1>1, AmountSum
<1> QED
  BY <1>1, <1>4, <1>5

(* Validators that go take their stakes out of the sum.                    *)
LEMMA StakeWithout ==
    ASSUME NEW S, IsFiniteSet(S), S \subseteq Validator,
           NEW R, R \subseteq S
    PROVE  /\ IsFiniteSet(R) /\ R \subseteq Validator
           /\ IsFiniteSet(S \ R) /\ S \ R \subseteq Validator
           /\ StakeOf(S) = StakeOf(S \ R) + StakeOf(R)
<1>1. /\ IsFiniteSet(R) /\ R \subseteq Validator
      /\ IsFiniteSet(S \ R) /\ S \ R \subseteq Validator
  BY FS_Subset
<1>2. S = (S \ R) \cup R /\ (S \ R) \cap R = {}
  OBVIOUS
<1>3. SumFunctionOnSet(stake, (S \ R) \cup R)
        = SumFunctionOnSet(stake, S \ R) + SumFunctionOnSet(stake, R)
  BY <1>1, <1>2, StakeSum, SumUnion
<1>4. SumFunctionOnSet(stake, S)
        = SumFunctionOnSet(stake, S \ R) + SumFunctionOnSet(stake, R)
  BY <1>2, <1>3
<1>5. /\ StakeOf(S) = SumFunctionOnSet(stake, S)
      /\ StakeOf(R) = SumFunctionOnSet(stake, R)
      /\ StakeOf(S \ R) = SumFunctionOnSet(stake, S \ R)
  BY <1>1, StakeSum
<1> QED
  BY <1>1, <1>4, <1>5

(* The mature rewards, account by account, are all of them.                *)
LEMMA RewardsOwed ==
    ASSUME NEW info, Registry(info), NEW M, M \subseteq info.PendingRewards,
           IsFiniteSet(M), M \subseteq PendingReward,
           NEW owed,
           owed = [a \in Accounts |->
                      AmountOf({pr \in M : a \in RewardTo(info, pr)})]
    PROVE  /\ owed \in [Accounts -> Int]
           /\ SumFunctionOnSet(owed, Accounts) = AmountOf(M)
           /\ Ordinary(info) => \A a \in ReservedAccounts : owed[a] = 0
<1> DEFINE key == [pr \in M |->
                      (CHOOSE v \in info.Validators :
                          v.Address = pr.Address).RewardTo]
<1>1. ASSUME NEW pr \in M
      PROVE  /\ key[pr] \in Accounts
             /\ RewardTo(info, pr) = {key[pr]}
             /\ Ordinary(info) => key[pr] \notin ReservedAccounts
  <2>1. \E v \in info.Validators : v.Address = pr.Address
    BY DEF Registry, RewardsRegistered
  <2> DEFINE x == CHOOSE v \in info.Validators : v.Address = pr.Address
  <2>2. x \in info.Validators /\ x.Address = pr.Address
    BY <2>1
  <2>3. key[pr] = x.RewardTo
    OBVIOUS
  <2> HIDE DEF x, key
  <2>4. \A v \in info.Validators : v.Address = pr.Address <=> v = x
    BY <2>2 DEF Registry, DistinctValidators
  <2>5. x.RewardTo \in Accounts
    BY <2>2 DEF Registry, Validator
  <2> QED
    BY <2>2, <2>3, <2>4, <2>5 DEF RewardTo, GetValidatorByAddr, Ordinary
<1>2. key \in [M -> Accounts]
  BY <1>1
<1> HIDE DEF key
<1>3. ASSUME NEW a \in Accounts
      PROVE  /\ owed[a] = SumFunctionOnSet(amount, {pr \in M : key[pr] = a})
             /\ owed[a] \in Int
  <2>1. {pr \in M : a \in RewardTo(info, pr)} = {pr \in M : key[pr] = a}
    BY <1>1
  <2> DEFINE S == {pr \in M : key[pr] = a}
  <2>2. IsFiniteSet(S) /\ S \subseteq PendingReward
    BY FS_Subset
  <2>3. owed[a] = AmountOf(S)
    BY <2>1
  <2> HIDE DEF S
  <2>4. owed[a] = SumFunctionOnSet(amount, S) /\ owed[a] \in Int
    BY <2>2, <2>3, AmountSum
  <2> QED
    BY <2>4 DEF S
<1>4. owed \in [Accounts -> Int]
  BY <1>3
<1>5. Groups(owed, amount, key, M, Accounts)
  <2>1. owed = [a \in Accounts |-> owed[a]]
    OBVIOUS
  <2> DEFINE t == [a \in Accounts |->
                     SumFunctionOnSet(amount, {pr \in M : key[pr] = a})]
  <2>2. owed = t
    BY <1>3, <2>1
  <2> QED
    BY <2>2 DEF Groups
<1>6. SumFunctionOnSet(owed, Accounts) = AmountOf(M)
  <2>1. Integral(amount, M) /\ AmountOf(M) = SumFunctionOnSet(amount, M)
    BY AmountSum
  <2> QED
    BY <1>2, <1>5, <2>1, AccountsAssumption, SumByGroup
<1>7. ASSUME Ordinary(info), NEW a \in ReservedAccounts
      PROVE  owed[a] = 0
  <2>1. a \in Accounts
    BY AddressAssumption DEF ReservedAccounts
  <2>2. {pr \in M : key[pr] = a} = {}
    BY <1>1, <1>7
  <2> QED
    BY <1>3, <2>1, <2>2, SumEmpty
<1> QED
  BY <1>4, <1>6, <1>7

(* The stakes to be paid back, account by account, are all of them.        *)
LEMMA StakesOwed ==
    ASSUME NEW info, Registry(info), NEW U, U \subseteq info.Validators,
           NEW owed,
           owed = [a \in Accounts |-> StakeOf({v \in U : v.RewardTo = a})]
    PROVE  /\ owed \in [Accounts -> Int]
           /\ SumFunctionOnSet(owed, Accounts) = StakeOf(U)
           /\ Ordinary(info) => \A a \in ReservedAccounts : owed[a] = 0
<1> DEFINE key == [v \in U |-> v.RewardTo]
<1>0. IsFiniteSet(U) /\ U \subseteq Validator
  BY FS_Subset DEF Registry
<1>1. key \in [U -> Accounts] /\ \A v \in U : key[v] = v.RewardTo
  BY <1>0 DEF Validator
<1> HIDE DEF key
<1>2. ASSUME NEW a \in Accounts
      PROVE  /\ owed[a] = SumFunctionOnSet(stake, {v \in U : key[v] = a})
             /\ owed[a] \in Int
  <2>1. {v \in U : v.RewardTo = a} = {v \in U : key[v] = a}
    BY <1>1
  <2> DEFINE S == {v \in U : key[v] = a}
  <2>2. IsFiniteSet(S) /\ S \subseteq Validator
    BY <1>0, FS_Subset
  <2>3. owed[a] = StakeOf(S)
    BY <2>1
  <2> HIDE DEF S
  <2>4. owed[a] = SumFunctionOnSet(stake, S) /\ owed[a] \in Int
    BY <2>2, <2>3, StakeSum
  <2> QED
    BY <2>4 DEF S
<1>3. owed \in [Accounts -> Int]
  BY <1>2
<1>4. Groups(owed, stake, key, U, Accounts)
  <2> DEFINE t == [a \in Accounts |->
                     SumFunctionOnSet(stake, {v \in U : key[v] = a})]
  <2>1. owed = [a \in Accounts |-> owed[a]]
    OBVIOUS
  <2>2. owed = t
    BY <1>2, <2>1
  <2> QED
    BY <2>2 DEF Groups
<1>5. SumFunctionOnSet(owed, Accounts) = StakeOf(U)
  <2>1. Integral(stake, U) /\ StakeOf(U) = SumFunctionOnSet(stake, U)
    BY <1>0, StakeSum
  <2> QED
    BY <1>0, <1>1, <1>4, <2>1, AccountsAssumption, SumByGroup
<1>6. ASSUME Ordinary(info), NEW a \in ReservedAccounts
      PROVE  owed[a] = 0
  <2>1. a \in Accounts
    BY AddressAssumption DEF ReservedAccounts
  <2>2. {v \in U : key[v] = a} = {}
    BY <1>1, <1>6 DEF Ordinary
  <2> QED
    BY <1>2, <2>1, <2>2, SumEmpty
<1> QED
  BY <1>3, <1>5, <1>6

(* endEpoch pays the rewards that it takes off the list.                   *)
LEMMA EndEpochCoins ==
    ASSUME NEW w, WorldShape(w), Registry(w.info), Ledger(w),
           w.panic = NoPanic, NEW u, u = endEpoch(w), u.panic = NoPanic
    PROVE  /\ Ledger(u)
           /\ DebtKept(w, u)
           /\ Ordinary(w.info) => Conserves(w, u)
<1> DEFINE info == [w.info EXCEPT !.CurrEpochNum = @ + 1]
           mature == Mature(info)
           owed == [a \in Accounts |->
                       AmountOf({pr \in mature : a \in RewardTo(info, pr)})]
           owedNow == [a \in Accounts |->
                       AmountOf({pr \in mature : a \in RewardTo(w.info, pr)})]
           total == AmountOf(mature)
           paid == PayOut(w.balance, owed, total)
<1>1. u = [w EXCEPT !.info = [info EXCEPT !.PendingRewards = @ \ mature],
                    !.balance = paid]
  <2>1. CASE \E pr \in mature : GetValidatorByAddr(info, pr.Address) = {}
    <3>1. u = [w EXCEPT !.panic = "nil validator"]
      BY <2>1 DEF endEpoch
    <3> QED
      BY <3>1 DEF WorldShape, NoPanic
  <2>2. CASE ~ \E pr \in mature : GetValidatorByAddr(info, pr.Address) = {}
    BY <2>2 DEF endEpoch
  <2> QED
    BY <2>1, <2>2
<1> HIDE DEF paid
<1>2. /\ u.info.Validators = w.info.Validators
      /\ u.info.PendingRewards = w.info.PendingRewards \ mature
      /\ u.balance = paid
      /\ u.allBurnt = w.allBurnt
  BY <1>1, ZenonT(40) DEF WorldShape
<1>3. /\ info.Validators = w.info.Validators
      /\ info.PendingRewards = w.info.PendingRewards
  BY DEF WorldShape
<1>4. owed = owedNow
  BY <1>3 DEF RewardTo, GetValidatorByAddr
<1>5. mature \subseteq w.info.PendingRewards
  BY <1>3 DEF Mature
<1> HIDE DEF mature, info, owed
<1>6. /\ IsFiniteSet(mature) /\ mature \subseteq PendingReward
      /\ u.info.PendingRewards \subseteq PendingReward
      /\ IsFiniteSet(u.info.PendingRewards)
      /\ AmountOf(w.info.PendingRewards)
           = AmountOf(u.info.PendingRewards) + total
  BY <1>2, <1>5, AmountWithout DEF Ledger
<1>7. /\ owed \in [Accounts -> Int]
      /\ SumFunctionOnSet(owed, Accounts) = total
      /\ Ordinary(w.info) => \A a \in ReservedAccounts : owed[a] = 0
  BY <1>4, <1>5, <1>6, RewardsOwed
<1>8. total \in Int
  BY <1>6, AmountSum
<1> HIDE DEF total
<1>9. /\ u.balance \in [Accounts -> Coins]
      /\ Same(u.balance[StakingContractAddress],
              w.balance[StakingContractAddress] + (0 - total))
      /\ \A a \in Accounts \ {StakingContractAddress} :
            owed[a] = 0 => u.balance[a] = w.balance[a]
      /\ owed[StakingContractAddress] = 0
           => Same(SupplyOf(u.balance), SupplyOf(w.balance))
  <2>1. w.balance \in [Accounts -> Coins]
    BY DEF Ledger
  <2> QED
    BY <1>2, <1>7, <1>8, <2>1, PayOutCoins DEF paid
<1>10. Ledger(u)
  BY <1>2, <1>6, <1>9 DEF Ledger
<1>11. ASSUME Ordinary(w.info)
       PROVE  Conserves(w, u)
  <2>1. /\ u.balance[SystemAddress] = w.balance[SystemAddress]
        /\ Same(SupplyOf(u.balance), SupplyOf(w.balance))
    BY <1>7, <1>9, <1>11, AddressAssumption, ReservedAssumption
       DEF ReservedAccounts
  <2> QED
    BY <1>2, <1>11, <2>1 DEF Conserves, Ordinary
<1>12. DebtKept(w, u)
  <2> DEFINE x == StakeOf(w.info.Validators) + AmountOf(w.info.PendingRewards)
             y == StakeOf(u.info.Validators) + AmountOf(u.info.PendingRewards)
  <2>3. /\ x \in Int /\ y \in Int /\ y = x + (0 - total)
    <3>1. /\ StakeOf(w.info.Validators) \in Int
          /\ AmountOf(w.info.PendingRewards) \in Int
          /\ AmountOf(u.info.PendingRewards) \in Int
      BY <1>6, OwedIsInt, AmountSum
    <3> QED
      BY <1>2, <1>6, <1>8, <3>1
  <2>4. Same(y, x + (0 - total)) /\ 0 - total \in Int
    BY <1>8, <2>3, SameRefl
  <2> QED
    BY <1>9, <1>10, <2>3, <2>4, DebtBalanced
<1> QED
  BY <1>10, <1>11, <1>12

(* Appointing validators for the next epoch leaves all coins alone.        *)
LEMMA VotingPowerCoins ==
    ASSUME NEW w, WorldShape(w), Registry(w.info), Ledger(w),
           NEW pow \in Nominations, NEW u, u = updateVotingPower(w, pow)
    PROVE  /\ Ledger(u)
           /\ DebtKept(w, u)
           /\ Ordinary(w.info) => Conserves(w, u)
<1> DEFINE V == w.info.Validators
           g(v) == [v EXCEPT !.VotingPower = NewPower(v, pow)]
           f == [v \in V |-> g(v)]
<1>1. u = [w EXCEPT !.info.Validators = {g(v) : v \in @}]
  BY DEF updateVotingPower
<1>2. /\ u.info.Validators = {f[v] : v \in V}
      /\ u.info.PendingRewards = w.info.PendingRewards
      /\ u.balance = w.balance
      /\ u.allBurnt = w.allBurnt
  <2>1. u.info = [w.info EXCEPT !.Validators = {g(v) : v \in V}]
    BY <1>1 DEF WorldShape
  <2>2. {g(v) : v \in V} = {f[v] : v \in V}
    OBVIOUS
  <2>3. u.balance = w.balance /\ u.allBurnt = w.allBurnt
    BY <1>1 DEF WorldShape
  <2> QED
    BY <2>1, <2>2, <2>3 DEF WorldShape
<1>3. /\ V \subseteq Validator /\ IsFiniteSet(V) /\ DistinctValidators(V)
      /\ u.info.Validators \subseteq Validator
      /\ IsFiniteSet(u.info.Validators)
  BY VotingPowerRegistry DEF Registry
<1>4. \A v \in V : /\ f[v].Address = v.Address
                   /\ f[v].StakedCoins = v.StakedCoins
                   /\ f[v].RewardTo = v.RewardTo
  BY <1>3 DEF Validator
<1>5. DOMAIN f = V
  OBVIOUS
<1> HIDE DEF f
<1>6. StakeOf(u.info.Validators) = StakeOf(V)
  <2>1. OneToOne(f, V)
    BY <1>3, <1>4 DEF OneToOne, DistinctValidators
  <2>2. \A v \in V : stake[f[v]] = stake[v]
    BY <1>2, <1>3, <1>4 DEF stake
  <2>3. Integral(stake, V) /\ StakeOf(V) = SumFunctionOnSet(stake, V)
    BY <1>3, StakeSum
  <2>4. SumFunctionOnSet(stake, {f[v] : v \in V}) = SumFunctionOnSet(stake, V)
    BY <1>3, <1>5, <2>1, <2>2, <2>3, SumImage
  <2>5. StakeOf(u.info.Validators)
          = SumFunctionOnSet(stake, u.info.Validators)
    BY <1>3, StakeSum
  <2> QED
    BY <1>2, <2>3, <2>4, <2>5
<1>7. Ledger(u)
  BY <1>2 DEF Ledger
<1>8. /\ StakeOf(V) \in Int /\ AmountOf(w.info.PendingRewards) \in Int
      /\ SupplyOf(w.balance) \in Int
  BY OwedIsInt, SupplyIsInt DEF Ledger
<1>9. Debt(w) \in Int /\ Debt(u) = Debt(w)
  BY <1>2, <1>6, <1>8, AddressAssumption DEF Debt, Owed, Ledger, Coins
<1>10. DebtKept(w, u)
  BY <1>9, SameRefl DEF DebtKept
<1>11. ASSUME Ordinary(w.info)
       PROVE  Conserves(w, u)
  BY <1>2, <1>4, <1>8, <1>11, SameRefl DEF Conserves, Ordinary
<1> QED
  BY <1>7, <1>10, <1>11

(* clearUp pays back the stakes of all useless validators: more than it    *)
(* takes off the list, by the stakes of those that it fails to delete.     *)
LEMMA ClearUpCoins ==
    ASSUME NEW w, WorldShape(w), Registry(w.info), Ledger(w),
           w.panic = NoPanic, NEW u, u = clearUp(w), u.panic = NoPanic
    PROVE  /\ Ledger(u)
           /\ Ordinary(w.info) => Conserves(w, u)
           /\ DebtGrows(w, u, StakeOf(GetUselessValidators(w.info)
                                         \ Deleted(w.info)))
<1> DEFINE useless == GetUselessValidators(w.info)
           owed == [a \in Accounts |->
                       StakeOf({v \in useless : v.RewardTo = a})]
           total == StakeOf(useless)
           paid == PayOut(w.balance, owed, total)
<1>1. u = [w EXCEPT !.info.Validators = @ \ Deleted(w.info),
                    !.balance = paid]
  <2>1. CASE DeletionOutOfBounds(w.info)
    <3>1. u = [w EXCEPT !.panic = "slice bounds"]
      BY <2>1 DEF clearUp
    <3> QED
      BY <3>1 DEF WorldShape, NoPanic
  <2>2. CASE ~DeletionOutOfBounds(w.info)
    BY <2>2 DEF clearUp
  <2> QED
    BY <2>1, <2>2
<1> HIDE DEF paid
<1>2. /\ u.info.Validators = w.info.Validators \ Deleted(w.info)
      /\ u.info.PendingRewards = w.info.PendingRewards
      /\ u.balance = paid
      /\ u.allBurnt = w.allBurnt
  BY <1>1 DEF WorldShape
<1>3. /\ useless \subseteq w.info.Validators
      /\ Deleted(w.info) \subseteq useless
  BY DEF GetUselessValidators, Deleted
<1> HIDE DEF useless
<1>4. /\ w.info.Validators \subseteq Validator
      /\ IsFiniteSet(w.info.Validators)
      /\ IsFiniteSet(useless) /\ useless \subseteq Validator
      /\ StakeOf(w.info.Validators)
           = StakeOf(w.info.Validators \ useless) + total
  BY <1>3, StakeWithout DEF Registry
<1>o. owed = [a \in Accounts |-> StakeOf({v \in useless : v.RewardTo = a})]
  OBVIOUS
<1> HIDE DEF owed
<1>5. /\ owed \in [Accounts -> Int]
      /\ SumFunctionOnSet(owed, Accounts) = total
      /\ Ordinary(w.info) => \A a \in ReservedAccounts : owed[a] = 0
  BY <1>3, <1>o, StakesOwed
<1>6. total \in Int
  BY <1>4, StakeSum
<1> HIDE DEF total
<1>7. /\ u.balance \in [Accounts -> Coins]
      /\ Same(u.balance[StakingContractAddress],
              w.balance[StakingContractAddress] + (0 - total))
      /\ \A a \in Accounts \ {StakingContractAddress} :
            owed[a] = 0 => u.balance[a] = w.balance[a]
      /\ owed[StakingContractAddress] = 0
           => Same(SupplyOf(u.balance), SupplyOf(w.balance))
  <2>1. w.balance \in [Accounts -> Coins]
    BY DEF Ledger
  <2> QED
    BY <1>2, <1>5, <1>6, <2>1, PayOutCoins DEF paid
<1>8. Ledger(u)
  BY <1>2, <1>7 DEF Ledger
<1>9. ASSUME Ordinary(w.info)
      PROVE  Conserves(w, u)
  <2>1. /\ u.balance[SystemAddress] = w.balance[SystemAddress]
        /\ Same(SupplyOf(u.balance), SupplyOf(w.balance))
    BY <1>5, <1>7, <1>9, AddressAssumption, ReservedAssumption
       DEF ReservedAccounts
  <2> QED
    BY <1>2, <1>9, <2>1 DEF Conserves, Ordinary
<1>10. DebtGrows(w, u, StakeOf(useless \ Deleted(w.info)))
  <2> DEFINE s == StakeOf(w.info.Validators)
             t == StakeOf(u.info.Validators)
             a == AmountOf(w.info.PendingRewards)
             kept == StakeOf(useless \ Deleted(w.info))
             gone == StakeOf(Deleted(w.info))
             p == w.balance[StakingContractAddress]
             q == u.balance[StakingContractAddress]
  <2>1. /\ s = t + gone /\ total = kept + gone
        /\ t \in Int /\ gone \in Int /\ kept \in Int /\ a \in Int
    <3>1. Deleted(w.info) \subseteq w.info.Validators
      BY <1>3
    <3>2. /\ s = t + gone
          /\ t \in Int /\ gone \in Int
      BY <1>2, <1>4, <3>1, StakeWithout, StakeSum
    <3>3. total = kept + gone /\ kept \in Int
      BY <1>3, <1>4, StakeWithout, StakeSum DEF total
    <3> QED
      BY <3>2, <3>3, OwedIsInt
  <2>2. p \in Int /\ q \in Int /\ Same(q, p + (0 - total))
    BY <1>7, AddressAssumption DEF Ledger, Coins
  <2>3. Debt(w) = (s + a) - p /\ Debt(u) = (t + a) - q
    BY <1>2 DEF Debt, Owed
  <2> HIDE DEF s, t, a, kept, gone, p, q
  <2>4. t + a \in Int
    BY <2>1
  <2>5. Same((t + a) - q, (t + a) - (p + (0 - total)))
    BY <2>2, <2>4, SameShift
  <2>6. (t + a) - (p + (0 - total)) = ((s + a) - p) + kept
    BY <2>1, <2>2
  <2> QED
    BY <2>3, <2>5, <2>6 DEF DebtGrows, kept
<1> QED
  BY <1>8, <1>9, <1>10 DEF useless

(* The new entries are empty.                                              *)
LEMMA AllocateCoins ==
    ASSUME NEW w, WorldShape(w), Registry(w.info), Ledger(w),
           \A pr \in w.info.PendingRewards :
               pr.EpochNum # w.info.CurrEpochNum,
           NEW u, u = AllocateRewards(w)
    PROVE  /\ Ledger(u) /\ Formed(u.info)
           /\ DebtKept(w, u)
           /\ Ordinary(w.info) => Conserves(w, u)
<1> DEFINE entry(v) == [Address |-> v.Address,
                        EpochNum |-> w.info.CurrEpochNum, Amount |-> 0]
           active == GetActiveValidators(w.info, MinimumStakingAmount)
           f == [v \in active |-> entry(v)]
           new == {entry(v) : v \in active}
           P == w.info.PendingRewards
<1>1. u = [w EXCEPT !.info.PendingRewards = @ \cup new]
  BY DEF AllocateRewards
<1>2. active \subseteq w.info.Validators
  BY DEF GetActiveValidators, OnDuty
<1>3. /\ w.info.Validators \subseteq Validator
      /\ IsFiniteSet(w.info.Validators)
      /\ w.info.CurrEpochNum \in Nat
  BY DEF Registry
<1>4. new \subseteq PendingReward /\ \A pr \in new : amount[pr] = 0
  <2>1. 0 \in Coins
    BY WordAssumption DEF Coins
  <2> QED
    BY <1>2, <1>3, <2>1 DEF PendingReward, Validator, amount
<1>5. IsFiniteSet(new)
  <2>1. new = {f[v] : v \in active} /\ DOMAIN f = active
    OBVIOUS
  <2>2. IsFiniteSet(active)
    BY <1>2, <1>3, FS_Subset
  <2> HIDE DEF f, new, active
  <2> QED
    BY <2>1, <2>2, FiniteImage
<1>6. P \cap new = {}
  OBVIOUS
<1> HIDE DEF new
<1>7. /\ u.info.Validators = w.info.Validators
      /\ u.info.PendingRewards = P \cup new
      /\ u.balance = w.balance
      /\ u.allBurnt = w.allBurnt
  BY <1>1 DEF WorldShape
<1>f. Formed(u.info)
  <2>1. u.info = [w.info EXCEPT !.PendingRewards = P \cup new]
    BY <1>1 DEF WorldShape
  <2> QED
    BY <2>1 DEF Formed
<1>8. P \subseteq PendingReward /\ IsFiniteSet(P)
  BY DEF Ledger
<1>9. /\ P \cup new \subseteq PendingReward
      /\ IsFiniteSet(P \cup new)
  BY <1>4, <1>5, <1>8, FS_Union
<1>10. AmountOf(P \cup new) = AmountOf(P)
  <2>1. SumFunctionOnSet(amount, P \cup new)
          = SumFunctionOnSet(amount, P) + SumFunctionOnSet(amount, new)
    BY <1>5, <1>6, <1>8, <1>9, AmountSum, SumUnion
  <2>2. SumFunctionOnSet(amount, new) = 0
    BY <1>4, <1>5, SumZero
  <2>3. /\ AmountOf(P) = SumFunctionOnSet(amount, P) /\ AmountOf(P) \in Int
        /\ AmountOf(P \cup new) = SumFunctionOnSet(amount, P \cup new)
    BY <1>8, <1>9, AmountSum
  <2> QED
    BY <2>1, <2>2, <2>3
<1>11. Ledger(u)
  BY <1>7, <1>9 DEF Ledger
<1>12. /\ StakeOf(w.info.Validators) \in Int /\ AmountOf(P) \in Int
       /\ SupplyOf(w.balance) \in Int
  BY OwedIsInt, SupplyIsInt DEF Ledger
<1>13. Debt(w) \in Int /\ Debt(u) = Debt(w)
  BY <1>7, <1>10, <1>12, AddressAssumption DEF Debt, Owed, Ledger, Coins
<1>14. DebtKept(w, u)
  BY <1>13, SameRefl DEF DebtKept
<1>15. ASSUME Ordinary(w.info)
       PROVE  Conserves(w, u)
  BY <1>7, <1>12, <1>15, SameRefl DEF Conserves, Ordinary
<1> QED
  BY <1>f, <1>11, <1>14, <1>15

(* One step after another.                                                 *)
LEMMA ConservesTrans ==
    ASSUME NEW w, NEW u, NEW x
    PROVE  /\ Conserves(w, u) /\ Conserves(u, x) => Conserves(w, x)
           /\ DebtKept(w, u) /\ DebtKept(u, x) => DebtKept(w, x)
           /\ \A n : DebtKept(w, u) /\ DebtGrows(u, x, n) /\ n \in Int
                       => DebtGrows(w, x, n)
           /\ \A n : DebtGrows(w, u, n) /\ DebtKept(u, x)
                       => DebtGrows(w, x, n)
BY SameTrans, SameShift DEF Conserves, DebtKept, DebtGrows

(* A whole epoch switch.                                                   *)
LEMMA SwitchEpochCoins ==
    ASSUME NEW w, WorldShape(w), Registry(w.info), Ledger(w),
           w.panic = NoPanic, NEW pow \in Nominations,
           NEW u, u = SwitchEpoch(w, pow), u.panic = NoPanic
    PROVE  /\ Ledger(u) /\ Formed(u.info)
           /\ Ordinary(w.info) => Conserves(w, u)
           /\ LET info == updateVotingPower(endEpoch(w), pow).info
              IN  DebtGrows(w, u, StakeOf(GetUselessValidators(info)
                                            \ Deleted(info)))
<1> DEFINE ended == endEpoch(w)
           powered == updateVotingPower(ended, pow)
           cleared == clearUp(powered)
<1>1. /\ ended.panic = NoPanic
      /\ cleared.panic = NoPanic
      /\ u = AllocateRewards(cleared)
  <2> HIDE DEF ended, powered, cleared
  <2>1. u = CASE ended.panic # NoPanic -> ended
              [] ended.panic = NoPanic /\ cleared.panic # NoPanic -> cleared
              [] OTHER -> AllocateRewards(cleared)
    BY DEF SwitchEpoch, ended, powered, cleared
  <2> QED
    BY <2>1
<1> DEFINE kept == GetUselessValidators(powered.info) \ Deleted(powered.info)
<1> HIDE DEF ended, powered, cleared, kept
<1>3. /\ WorldShape(ended) /\ Registry(ended.info) /\ Ledger(ended)
      /\ \A pr \in ended.info.PendingRewards :
            pr.EpochNum # ended.info.CurrEpochNum
      /\ DebtKept(w, ended)
      /\ Ordinary(w.info) => Conserves(w, ended)
  BY <1>1, EndEpochRegistry, EndEpochCoins DEF ended
<1>4. /\ WorldShape(powered) /\ Registry(powered.info) /\ Ledger(powered)
      /\ powered.panic = NoPanic
      /\ powered.info.CurrEpochNum = ended.info.CurrEpochNum
      /\ powered.info.PendingRewards = ended.info.PendingRewards
      /\ DebtKept(ended, powered)
      /\ Ordinary(ended.info) => Conserves(ended, powered)
  BY <1>1, <1>3, VotingPowerRegistry, VotingPowerCoins DEF powered
<1>5. /\ WorldShape(cleared) /\ Registry(cleared.info) /\ Ledger(cleared)
      /\ cleared.info.CurrEpochNum = powered.info.CurrEpochNum
      /\ cleared.info.PendingRewards = powered.info.PendingRewards
      /\ DebtGrows(powered, cleared, StakeOf(kept))
      /\ Ordinary(powered.info) => Conserves(powered, cleared)
  BY <1>1, <1>4, ClearUpRegistry, ClearUpCoins DEF cleared, kept
<1>6. /\ Ledger(u) /\ Formed(u.info)
      /\ DebtKept(cleared, u)
      /\ Ordinary(cleared.info) => Conserves(cleared, u)
  BY <1>1, <1>3, <1>4, <1>5, AllocateCoins
<1>7. ASSUME Ordinary(w.info)
      PROVE  Conserves(w, u)
  <2>1. /\ Conserves(w, ended) /\ Conserves(ended, powered)
        /\ Conserves(powered, cleared) /\ Conserves(cleared, u)
    BY <1>3, <1>4, <1>5, <1>6, <1>7 DEF Conserves
  <2>2. Conserves(w, powered)
    BY <2>1, ConservesTrans
  <2>3. Conserves(w, cleared)
    BY <2>1, <2>2, ConservesTrans
  <2> QED
    BY <2>1, <2>3, ConservesTrans
<1>8. DebtGrows(w, u, StakeOf(kept))
  <2>1. StakeOf(kept) \in Int
    <3>1. kept \subseteq powered.info.Validators
      BY DEF kept, GetUselessValidators
    <3> QED
      BY <1>4, <3>1, FS_Subset, StakeSum DEF Registry
  <2>2. DebtKept(w, powered)
    BY <1>3, <1>4, ConservesTrans
  <2>3. DebtGrows(w, cleared, StakeOf(kept))
    BY <1>5, <2>1, <2>2, ConservesTrans
  <2> QED
    BY <1>6, <2>3, ConservesTrans
<1> QED
  BY <1>6, <1>7, <1>8 DEF kept, powered, ended

-----------------------------------------------------------------------------
(* Burning moves coins from the contract to the black hole, or nothing.    *)
LEMMA BurnCoins ==
    ASSUME NEW b \in [Accounts -> Coins], NEW n \in Coins,
           NEW c, c = TransferFromSenderAccToBlackHoleAcc(
                          b, StakingContractAddress, n)
    PROVE  /\ c \in [Accounts -> Coins]
           /\ Same(SupplyOf(c), SupplyOf(b))
           /\ Same(c[StakingContractAddress] + c[BlackHoleAddress],
                   b[StakingContractAddress] + b[BlackHoleAddress])
           /\ c[SystemAddress] = b[SystemAddress]
<1> DEFINE from == StakingContractAddress
           to == BlackHoleAddress
<1>1. /\ from \in Accounts /\ to \in Accounts /\ from # to
      /\ SystemAddress \in Accounts \ {from, to}
  BY AddressAssumption, ReservedAssumption
<1>2. b[from] \in Int /\ b[to] \in Int /\ n \in Int
  BY <1>1 DEF Coins
<1>3. CASE b[from] < n
  <2>1. c = b
    BY <1>3 DEF TransferFromSenderAccToBlackHoleAcc
  <2>2. b[from] + b[to] \in Int /\ SupplyOf(b) \in Int
    BY <1>2, SupplyIsInt
  <2> QED
    BY <2>1, <2>2, SameRefl
<1>4. CASE ~ (b[from] < n)
  <2>1. c = [b EXCEPT ![from] = b[from] - n, ![to] = Add(b[to], n)]
    BY <1>1, <1>4 DEF TransferFromSenderAccToBlackHoleAcc
  <2>2. b[from] - n \in Coins /\ Same(b[from] - n, b[from] - n)
    <3>1. b[from] \in 0 .. Word - 1 /\ n \in 0 .. Word - 1
      BY <1>1 DEF Coins
    <3> DEFINE d == b[from] - n
    <3>2. d \in 0 .. Word - 1 /\ d \in Int
      BY <1>4, <3>1, WordAssumption
    <3> HIDE DEF d
    <3>3. Same(d, d)
      BY <3>2, SameRefl
    <3> QED
      BY <3>2, <3>3 DEF d, Coins
  <2>3. Add(b[to], n) \in Coins /\ Same(Add(b[to], n), b[to] + n)
    BY <1>2, WordOps
  <2> HIDE DEF from, to
  <2>4. /\ c \in [Accounts -> Coins]
        /\ c[from] = b[from] - n /\ c[to] = Add(b[to], n)
        /\ \A a \in Accounts \ {from, to} : c[a] = b[a]
    BY <1>1, <2>1, <2>2, <2>3
  <2>5. Same(SupplyOf(c), SupplyOf(b))
    BY <1>1, <1>2, <2>2, <2>3, <2>4, Moved
  <2>6. Same(c[from] + c[to], (b[from] - n) + (b[to] + n))
    BY <2>2, <2>3, <2>4, SamePlus
  <2>7. (b[from] - n) + (b[to] + n) = b[from] + b[to]
    BY <1>2
  <2> QED
    BY <1>1, <2>4, <2>5, <2>6, <2>7 DEF from, to
<1> QED
  BY <1>3, <1>4

(* The world w with other coins.                                           *)
Recoin(w, b, n) == [w EXCEPT !.balance = b, !.allBurnt = n]

Recoined(w) ==
    {w} \cup {Recoin(w, c[1], c[2]) : c \in [Accounts -> Coins] \X Coins}

(* It is w in everything else.                                             *)
LEMMA RecoinedIs ==
    ASSUME NEW w, WorldShape(w), Ledger(w), NEW u, u \in Recoined(w)
    PROVE  /\ u.info = w.info
           /\ u.balance \in [Accounts -> Coins] /\ u.allBurnt \in Coins
           /\ \A b, n : [u EXCEPT !.balance = b, !.allBurnt = n]
                          = Recoin(w, b, n)
<1>1. CASE u = w
  BY <1>1 DEF Ledger, Recoin
<1>2. CASE \E b \in [Accounts -> Coins], n \in Coins : u = Recoin(w, b, n)
  BY <1>2 DEF Recoin, WorldShape
<1>3. \/ u = w
      \/ \E b \in [Accounts -> Coins], n \in Coins : u = Recoin(w, b, n)
  BY DEF Recoined
<1> QED
  BY <1>1, <1>2, <1>3

(* What any number of slashes keep.                                        *)
Slashed(w, u) ==
    /\ u \in Recoined(w)
    /\ Same(SupplyOf(u.balance), SupplyOf(w.balance))
    /\ Same(u.balance[StakingContractAddress] + u.balance[BlackHoleAddress],
            w.balance[StakingContractAddress] + w.balance[BlackHoleAddress])
    /\ u.balance[SystemAddress] = w.balance[SystemAddress]

(* A world is one of its own, and slashing adds nothing to begin with.     *)
LEMMA SlashedRefl ==
    ASSUME NEW w, WorldShape(w), Ledger(w)
    PROVE  Slashed(w, w)
<1>2. w \in Recoined(w)
  BY DEF Recoined
<1>3. /\ w.balance[StakingContractAddress] \in Int
      /\ w.balance[BlackHoleAddress] \in Int
      /\ SupplyOf(w.balance) \in Int
  BY AddressAssumption, SupplyIsInt DEF Ledger, Coins
<1>4. w.balance[StakingContractAddress] + w.balance[BlackHoleAddress] \in Int
  BY <1>3
<1> QED
  BY <1>2, <1>3, <1>4, SameRefl DEF Slashed

(* One more slash.                                                         *)
LEMMA SlashStep ==
    ASSUME NEW w, WorldShape(w), Registry(w.info), Ledger(w),
           NEW x, Slashed(w, x), NEW k,
           NEW u, u = Slash(x, k, SlashedStakingAmount)
    PROVE  Slashed(w, u)
<1> DEFINE b == x.balance
           n == x.allBurnt
<1>1. /\ x.info = w.info
      /\ b \in [Accounts -> Coins] /\ n \in Coins
      /\ \A d, m : [x EXCEPT !.balance = d, !.allBurnt = m] = Recoin(w, d, m)
  BY RecoinedIs DEF Slashed
<1>2. x.info = w.info /\ x.balance = b /\ x.allBurnt = n
  BY <1>1
<1> HIDE DEF b, n
<1>3. CASE u = x
  BY <1>3
<1>4. CASE u # x
  <2> DEFINE val == CHOOSE v \in GetValidatorByPubkey(x.info, k) : TRUE
             total == TotalSlashed(x.info, val, SlashedStakingAmount)
             c == TransferFromSenderAccToBlackHoleAcc(
                      b, StakingContractAddress, total)
  <2>1. /\ GetValidatorByPubkey(x.info, k) # {}
        /\ u = [x EXCEPT !.balance = c, !.allBurnt = Add(@, total)]
    BY <1>2, <1>4 DEF Slash
  <2>2. val \in w.info.Validators
    BY <1>2, <2>1 DEF GetValidatorByPubkey
  <2>3. total \in Coins
    <3>1. val.StakedCoins \in Int /\ SlashedStakingAmount \in Int
      BY <2>2, StakingAmountAssumption DEF Registry, Validator, Coins
    <3>2. AmountOf(RewardsOf(x.info, val.Address)) \in Int
      <4>1. RewardsOf(x.info, val.Address) \in SUBSET w.info.PendingRewards
        BY <1>2 DEF RewardsOf
      <4> HIDE DEF val
      <4> QED
        BY <4>1, FS_Subset, AmountSum DEF Ledger
    <3> HIDE DEF val
    <3>3. (IF val.StakedCoins < SlashedStakingAmount THEN val.StakedCoins
           ELSE SlashedStakingAmount) \in Int
      BY <3>1
    <3> QED
      BY <3>2, <3>3, WordOps DEF TotalSlashed
  <2> HIDE DEF val, total
  <2>4. /\ c \in [Accounts -> Coins]
        /\ Same(SupplyOf(c), SupplyOf(b))
        /\ Same(c[StakingContractAddress] + c[BlackHoleAddress],
                b[StakingContractAddress] + b[BlackHoleAddress])
        /\ c[SystemAddress] = b[SystemAddress]
    BY <1>1, <2>3, BurnCoins
  <2> HIDE DEF c
  <2>5. Add(n, total) \in Coins
    <3>1. n \in Coins /\ total \in Coins
      BY <1>1, <2>3
    <3>2. n \in Int /\ total \in Int
      BY <3>1 DEF Coins
    <3> QED
      BY <3>2, WordOps
  <2>6. /\ u = Recoin(w, c, Add(n, total))
        /\ u.balance = c
    <3>1. u = [x EXCEPT !.balance = c, !.allBurnt = Add(n, total)]
      BY <1>2, <2>1
    <3>2. u = Recoin(w, c, Add(n, total))
      BY <1>1, <3>1
    <3> QED
      BY <3>2 DEF WorldShape, Recoin
  <2>7. u \in Recoined(w)
    <3> DEFINE p == <<c, Add(n, total)>>
    <3>1. /\ p \in [Accounts -> Coins] \X Coins
          /\ p[1] = c /\ p[2] = Add(n, total)
      BY <2>4, <2>5
    <3> HIDE DEF p
    <3> QED
      BY <2>6, <3>1 DEF Recoined
  <2> QED
    BY <1>2, <2>4, <2>6, <2>7, SameTrans DEF Slashed
<1> QED
  BY <1>3, <1>4

(* The table that FoldLeft fills when it slashes the keys of a sequence.   *)
SlashTable(w, keys, it) ==
    it = [s \in SUBSET DOMAIN keys |->
            IF s = {} THEN w
            ELSE Slash(it[s \ {Max(s)}], keys[Max(s)], SlashedStakingAmount)]

(* A whole list of slashes, which may be empty.                            *)
LEMMA SlashedAll ==
    ASSUME NEW w, WorldShape(w), Registry(w.info), Ledger(w),
           NEW K, NEW keys \in Seq(K)
    PROVE  LET result == FoldLeft(LAMBDA x, k :
                                      Slash(x, k, SlashedStakingAmount),
                                  w, keys)
           IN  Slashed(w, result) /\ (keys = <<>> => result = w)
<1> DEFINE V == {x \in Recoined(w) : Slashed(w, x)}
           D == DOMAIN keys
           g == [i \in D |-> [v \in V |-> Slash(v, keys[i],
                                                SlashedStakingAmount)]]
           pick == [s \in SUBSET D |-> Max(s)]
<1>1. D = 1 .. Len(keys) /\ D \subseteq Nat /\ IsFiniteSet(D)
  <2>1. Len(keys) \in Nat /\ D = 1 .. Len(keys)
    OBVIOUS
  <2> QED
    BY <2>1, FS_Interval
<1>2. ASSUME NEW s \in SUBSET D, s # {}
      PROVE  Max(s) \in s /\ Max(s) \in D
  <2>1. IsFiniteSet(s) /\ s \subseteq Nat
    BY <1>1, FS_Subset
  <2> QED
    BY <1>2, <2>1, MaxOfFiniteSet
<1>3. \A v \in V, i \in D : Slash(v, keys[i], SlashedStakingAmount) \in V
  <2>1. ASSUME NEW v \in V, NEW i \in D
        PROVE  Slashed(w, Slash(v, keys[i], SlashedStakingAmount))
    BY SlashStep
  <2> QED
    BY <2>1 DEF Slashed
<1>4. w \in V
  BY SlashedRefl DEF Slashed
<1>5. \E it : SlashTable(w, keys, it) /\ it[D] \in V
  <2>1. g \in [D -> [V -> V]]
    BY <1>3
  <2>2. Picks(D, pick)
    BY <1>2 DEF Picks
  <2>3. PICK it \in [SUBSET D -> V] : Folding(D, w, g, pick, it)
    <3> HIDE DEF g, pick, D, V
    <3> QED
      BY <1>1, <1>4, <2>1, <2>2, FoldExists
  <2>4. ASSUME NEW s \in SUBSET D
        PROVE  it[s] = IF s = {} THEN w
                       ELSE Slash(it[s \ {Max(s)}], keys[Max(s)],
                                  SlashedStakingAmount)
    <3>1. CASE s = {}
      BY <2>3, <3>1 DEF Folding
    <3>2. CASE s # {}
      <4>1. Max(s) \in D /\ it[s \ {Max(s)}] \in V /\ pick[s] = Max(s)
        BY <1>2, <3>2
      <4>2. it[s] = g[Max(s)][it[s \ {Max(s)}]]
        BY <2>3, <3>2, <4>1 DEF Folding
      <4> HIDE DEF V
      <4> QED
        BY <3>2, <4>1, <4>2
    <3> QED
      BY <3>1, <3>2
  <2>5. SlashTable(w, keys, it)
    BY <2>4 DEF SlashTable
  <2>6. it[D] \in V
    OBVIOUS
  <2> QED
    BY <2>5, <2>6
<1> DEFINE result == FoldLeft(LAMBDA x, k : Slash(x, k, SlashedStakingAmount),
                              w, keys)
<1>6. PICK it : SlashTable(w, keys, it) /\ result = it[D]
  BY <1>5 DEF FoldLeft, MapThenFoldSet, SlashTable
<1>7. ASSUME NEW i, SlashTable(w, keys, i), NEW j, SlashTable(w, keys, j)
      PROVE  i[D] = j[D]
  <2> DEFINE T == {s \in SUBSET D : i[s] = j[s]}
  <2>1. ASSUME NEW s \in SUBSET D, \A x \in s : s \ {x} \in T
        PROVE  s \in T
    <3>1. CASE s = {}
      <4>1. i[s] = w /\ j[s] = w
        BY <1>7, <3>1 DEF SlashTable
      <4> QED
        BY <4>1
    <3>2. CASE s # {}
      <4> DEFINE r == s \ {Max(s)}
      <4>1. /\ i[s] = Slash(i[r], keys[Max(s)], SlashedStakingAmount)
            /\ j[s] = Slash(j[r], keys[Max(s)], SlashedStakingAmount)
        BY <1>7, <3>2 DEF SlashTable
      <4>2. i[r] = j[r]
        BY <1>2, <2>1, <3>2
      <4>3. i[s] = j[s]
        BY <4>1, <4>2
      <4> QED
        BY <4>3
    <3> QED
      BY <3>1, <3>2
  <2>2. Inductive(D, T)
    BY <2>1 DEF Inductive
  <2> HIDE DEF T, D
  <2>3. D \in T
    BY <1>1, <2>2, SubsetInduction, D \in SUBSET D
  <2> QED
    BY <2>3 DEF T
<1> HIDE DEF result
<1>8. result \in V
  <2> HIDE DEF D, V
  <2> QED
    BY <1>5, <1>6, <1>7
<1>9. ASSUME keys = <<>>
      PROVE  result = w
  <2>1. D = {}
    BY <1>1, <1>9
  <2>2. it[{}] = w
    BY <1>6 DEF SlashTable
  <2> QED
    BY <1>6, <2>1, <2>2
<1> QED
  BY <1>8, <1>9 DEF result

(* The slashes of a block.                                                 *)
LEMMA SlashAllCoins ==
    ASSUME NEW w, WorldShape(w), Registry(w.info), Ledger(w),
           NEW K, slashValidators \in Seq(K), NEW u, u = SlashAll(w)
    PROVE  /\ Ledger(u)
           /\ slashValidators = <<>> => DebtKept(w, u)
           /\ Ordinary(w.info) => Conserves(w, u)
<1> DEFINE x == FoldLeft(LAMBDA y, k : Slash(y, k, SlashedStakingAmount),
                         w, slashValidators)
<1>1. /\ Slashed(w, x)
      /\ slashValidators = <<>> => x = w
  BY SlashedAll
<1>2. u = [w EXCEPT !.balance = x.balance, !.allBurnt = x.allBurnt]
  BY DEF SlashAll
<1> HIDE DEF x
<1>3. x.balance \in [Accounts -> Coins] /\ x.allBurnt \in Coins
  BY <1>1, RecoinedIs DEF Slashed
<1>4. /\ u.info = w.info /\ u.balance = x.balance /\ u.allBurnt = x.allBurnt
  BY <1>2 DEF WorldShape
<1>5. Ledger(u)
  BY <1>3, <1>4 DEF Ledger
<1>6. ASSUME Ordinary(w.info)
      PROVE  Conserves(w, u)
  BY <1>1, <1>4, <1>6 DEF Slashed, Conserves
<1>7. ASSUME slashValidators = <<>>
      PROVE  DebtKept(w, u)
  <2>1. Debt(w) \in Int
    BY OwedIsInt, AddressAssumption DEF Debt, Owed, Ledger, Coins
  <2>2. Debt(u) = Debt(w)
    BY <1>1, <1>4, <1>7 DEF Debt, Owed
  <2> QED
    BY <2>1, <2>2, SameRefl DEF DebtKept
<1> QED
  BY <1>5, <1>6, <1>7

-----------------------------------------------------------------------------
(* What Commit takes out of the system account: the refunds of the last    *)
(* block and the block reward. No other account is touched.                *)
LEMMA SettleCoins ==
    ASSUME NEW w, WorldShape(w), Ledger(w), w.panic = NoPanic,
           lastGasFee \in Nat, lastGasRefund \in Nat,
           NEW u, u = SettleSystemAcc(w), u.panic = NoPanic
    PROVE  /\ Ledger(u)
           /\ BlockReward(w) \in Coins /\ RefundDue \in Nat
           /\ w.balance[SystemAddress] >= RefundDue + lastGasFee
           /\ \A a \in Accounts \ {SystemAddress} : u.balance[a] = w.balance[a]
           /\ u.balance[SystemAddress]
                = w.balance[SystemAddress] - (RefundDue + BlockReward(w))
           /\ SupplyOf(u.balance)
                = SupplyOf(w.balance) - (RefundDue + BlockReward(w))
<1> DEFINE b == w.balance
           due == RefundDue
           reward == BlockReward(w)
           left == b[SystemAddress] - due - reward
<1>1. due \in Nat
  BY DEF RefundDue
<1>2. SystemAddress \in Accounts /\ b \in [Accounts -> Coins]
  BY AddressAssumption DEF Ledger
<1>3. /\ ~ (b[SystemAddress] < due + lastGasFee)
      /\ u = [w EXCEPT !.balance[SystemAddress] = left]
  <2>1. CASE b[SystemAddress] < due + lastGasFee
    <3>1. u = [w EXCEPT !.panic = "system balance"]
      BY <2>1 DEF SettleSystemAcc
    <3> QED
      BY <3>1 DEF WorldShape, NoPanic
  <2>2. CASE ~ (b[SystemAddress] < due + lastGasFee)
    BY <2>2 DEF SettleSystemAcc
  <2> QED
    BY <2>1, <2>2
<1>4. reward = lastGasFee \/ reward = b[SystemAddress] - due
  BY DEF BlockReward
<1> HIDE DEF reward, due
<1>5. b[SystemAddress] \in 0 .. Word - 1
  BY <1>2 DEF Coins
<1>6. /\ reward \in 0 .. Word - 1
      /\ left \in 0 .. Word - 1
      /\ left = b[SystemAddress] - (due + reward)
  BY <1>1, <1>3, <1>4, <1>5, WordAssumption
<1> HIDE DEF left
<1>7. /\ u.info = w.info /\ u.allBurnt = w.allBurnt
      /\ u.balance = [b EXCEPT ![SystemAddress] = left]
  BY <1>3 DEF WorldShape
<1> DEFINE c == u.balance
<1>8. /\ c \in [Accounts -> Coins] /\ c[SystemAddress] = left
      /\ \A a \in Accounts \ {SystemAddress} : c[a] = b[a]
  BY <1>2, <1>6, <1>7 DEF Coins
<1>9. Ledger(u)
  BY <1>7, <1>8 DEF Ledger
<1> HIDE DEF b, c
<1>10. SupplyOf(c) = SupplyOf(b) + left - b[SystemAddress]
  <2>1. /\ Integral(b, Accounts) /\ c[SystemAddress] \in Int
        /\ Agree(c, b, Accounts \ {SystemAddress})
    BY <1>2, <1>6, <1>8, SupplyIsInt DEF Agree
  <2> QED
    BY <1>2, <1>8, <2>1, AccountsAssumption, SumUpdate DEF SupplyOf
<1>11. SupplyOf(b) \in Int
  BY <1>2, SupplyIsInt
<1>12. SupplyOf(c) = SupplyOf(b) - (due + reward)
  BY <1>1, <1>5, <1>6, <1>10, <1>11
<1>13. b[SystemAddress] >= due + lastGasFee
  BY <1>1, <1>3, <1>5
<1> QED
  BY <1>1, <1>6, <1>8, <1>9, <1>12, <1>13 DEF b, c, due, reward, Coins

(* The gas that the engine charges in advance goes to the system account.  *)
LEMMA PrepareCoins ==
    ASSUME NEW w, WorldShape(w), Ledger(w), engine.collected \subseteq Txs,
           NEW u, u = Prepare(w)
    PROVE  /\ Ledger(u)
           /\ Prepared(w) \subseteq engine.collected
           /\ Same(SupplyOf(u.balance), SupplyOf(w.balance))
           /\ u.balance[StakingContractAddress]
                = w.balance[StakingContractAddress]
           /\ u.balance[BlackHoleAddress] = w.balance[BlackHoleAddress]
           /\ u.balance[SystemAddress]
                = Add(w.balance[SystemAddress], Gas(Prepared(w)))
<1> DEFINE S == Prepared(w)
           b == w.balance
           c == u.balance
           G == Gas(S)
           key == [tx \in S |-> tx.From]
           t == [a \in Accounts |->
                   SumFunctionOnSet(gas, {tx \in S : key[tx] = a})]
           h == [a \in Accounts |-> b[a] - t[a]]
           d == [a \in Accounts |-> IF a = SystemAddress THEN b[a] + G ELSE h[a]]
<1>1. S \subseteq engine.collected /\ S \subseteq Txs
  BY DEF Prepared
<1>2. u.info = w.info /\ u.allBurnt = w.allBurnt
      /\ c = [a \in Accounts |->
               IF a = SystemAddress THEN Add(b[a], G)
               ELSE Sub(b[a], Gas({tx \in S : tx.From = a}))]
  BY DEF Prepare, WorldShape
<1> HIDE DEF S
<1>3. /\ IsFiniteSet(S) /\ Integral(gas, S) /\ S \subseteq StakingTx
      /\ G = SumFunctionOnSet(gas, S) /\ G \in Nat
  BY <1>1, GasSum
<1>4. key \in [S -> Accounts] /\ \A tx \in S : key[tx] \notin ReservedAccounts
  BY <1>1, <1>3, TxsAssumption DEF StakingTx
<1>5. ASSUME NEW a \in Accounts
      PROVE  /\ Gas({tx \in S : tx.From = a}) = t[a]
             /\ t[a] \in Nat
  <2> DEFINE R == {tx \in S : tx.From = a}
  <2>1. R \subseteq Txs /\ R = {tx \in S : key[tx] = a}
    BY <1>1
  <2>2. t[a] = SumFunctionOnSet(gas, R)
    BY <2>1
  <2> HIDE DEF R, t
  <2>3. Gas(R) = SumFunctionOnSet(gas, R) /\ Gas(R) \in Nat
    BY <2>1, GasSum
  <2> QED
    BY <2>2, <2>3 DEF R
<1>6. \A a \in ReservedAccounts : t[a] = 0
  <2>1. ASSUME NEW a \in ReservedAccounts
        PROVE  t[a] = 0
    <3>1. a \in Accounts
      BY AddressAssumption DEF ReservedAccounts
    <3>2. {tx \in S : key[tx] = a} = {}
      BY <1>4
    <3>3. t[a] = SumFunctionOnSet(gas, {})
      BY <3>1, <3>2
    <3> QED
      BY <3>3, SumEmpty
  <2> QED
    BY <2>1
<1>7. Groups(t, gas, key, S, Accounts)
  BY DEF Groups
<1> HIDE DEF t, key
<1>8. SumFunctionOnSet(t, Accounts) = G
  BY <1>3, <1>4, <1>7, AccountsAssumption, SumByGroup
<1>9. \A a \in Accounts : b[a] \in Int /\ b[a] \in Coins
  BY DEF Ledger, Coins
<1>10. ASSUME NEW a \in Accounts
       PROVE  /\ c[a] \in Coins /\ Same(c[a], d[a])
              /\ c[a] = IF a = SystemAddress THEN Add(b[a], G)
                        ELSE Sub(b[a], t[a])
  <2>1. c[a] = IF a = SystemAddress THEN Add(b[a], G) ELSE Sub(b[a], t[a])
    BY <1>2, <1>5
  <2> HIDE DEF c
  <2>2. /\ Add(b[a], G) \in Coins /\ Same(Add(b[a], G), b[a] + G)
        /\ Sub(b[a], t[a]) \in Coins /\ Same(Sub(b[a], t[a]), b[a] - t[a])
    <3>1. G \in Int
      BY <1>3
    <3> HIDE DEF b, G
    <3>2. b[a] \in Int /\ t[a] \in Nat
      BY <1>5, <1>9
    <3>3. t[a] \in Int
      BY <3>2
    <3> QED
      BY <3>1, <3>2, <3>3, WordOps
  <2> HIDE DEF b, G
  <2> QED
    BY <2>1, <2>2
<1>11. c \in [Accounts -> Coins]
  <2>1. c = [a \in Accounts |-> c[a]]
    BY <1>2
  <2> HIDE DEF c
  <2> QED
    BY <1>10, <2>1
<1>12. Ledger(u)
  BY <1>2, <1>11 DEF Ledger
<1>13. SystemAddress \in Accounts /\ t[SystemAddress] = 0
  BY <1>6, AddressAssumption DEF ReservedAccounts
<1>14. Same(SupplyOf(c), SupplyOf(b))
  <2>1. /\ Integral(h, Accounts) /\ Integral(t, Accounts)
        /\ AddsUp(b, h, t, Accounts)
    <3> HIDE DEF b
    <3>1. \A a \in Accounts : /\ b[a] \in Int /\ t[a] \in Int
                              /\ h[a] = b[a] - t[a]
      <4>1. \A a \in Accounts : t[a] \in Nat
        BY <1>5
      <4>2. \A a \in Accounts : h[a] = b[a] - t[a]
        OBVIOUS
      <4> QED
        BY <1>9, <4>1, <4>2
    <3> HIDE DEF h
    <3>2. \A a \in Accounts : h[a] \in Int /\ b[a] = h[a] + t[a]
      BY <3>1
    <3> QED
      BY <3>1, <3>2 DEF Integral, AddsUp
  <2>2. /\ d[SystemAddress] = b[SystemAddress] + G /\ d[SystemAddress] \in Int
        /\ h[SystemAddress] = b[SystemAddress] /\ h[SystemAddress] \in Int
        /\ Agree(d, h, Accounts \ {SystemAddress})
    BY <1>3, <1>9, <1>13 DEF Agree
  <2>3. Congruent(Word, c, d, Accounts)
    BY <1>10 DEF Congruent, Same
  <2> HIDE DEF b, c, d, h, G
  <2>4. SupplyOf(b) = SumFunctionOnSet(h, Accounts) + G
    BY <1>8, <2>1, AccountsAssumption, SumPlus DEF SupplyOf
  <2>5. SumFunctionOnSet(d, Accounts)
          = SumFunctionOnSet(h, Accounts) + d[SystemAddress] - h[SystemAddress]
    <3>1. /\ IsFiniteSet(Accounts) /\ SystemAddress \in Accounts
          /\ Integral(h, Accounts) /\ d[SystemAddress] \in Int
          /\ Agree(d, h, Accounts \ {SystemAddress})
      BY <1>13, <2>1, <2>2, AccountsAssumption
    <3> QED
      BY <3>1, SumUpdate
  <2>6. SumFunctionOnSet(h, Accounts) \in Int
    BY <2>1, AccountsAssumption, SumRemove
  <2>7. SumFunctionOnSet(d, Accounts) = SupplyOf(b)
    BY <1>3, <2>2, <2>4, <2>5, <2>6
  <2>8. Same(SupplyOf(c), SumFunctionOnSet(d, Accounts))
    BY <2>3, AccountsAssumption, WordAssumption, SumSameMod
       DEF SupplyOf, Same
  <2> QED
    BY <2>7, <2>8
<1>15. ASSUME NEW a \in {StakingContractAddress, BlackHoleAddress}
       PROVE  c[a] = b[a]
  <2>1. a \in Accounts /\ a # SystemAddress /\ t[a] = 0
    BY <1>6, AddressAssumption, ReservedAssumption DEF ReservedAccounts
  <2>2. c[a] = (b[a] - 0) % Word /\ b[a] \in 0 .. Word - 1
    BY <1>9, <1>10, <2>1 DEF Sub, Coins
  <2> HIDE DEF b, c
  <2> QED
    BY <2>2, WordAssumption
<1> QED
  BY <1>1, <1>10, <1>12, <1>13, <1>14, <1>15 DEF S

(* The parts of a fee are words, or at least integers.                     *)
LEMMA FeePartsCoins ==
    ASSUME NEW info, info.Validators \subseteq Validator,
           IsFiniteSet(info.Validators), NEW fee \in Coins,
           NEW voters, voters \subseteq info.Validators
    PROVE  LET parts == FeeParts(info, fee, voters)
           IN  /\ parts.base \in Int /\ parts.extra \in Int
               /\ parts.shared \in Int
               /\ Same((parts.base + parts.extra) + parts.shared, fee)
               /\ \A v \in voters : VoterShare(parts.shared, v, voters) \in Int
<1> DEFINE active == GetActiveValidators(info, MinimumStakingAmount)
           total == PowerOf(active)
           voted == PowerOf(voters)
           base == Div(Mul(fee, BaseProposerPercentage), 100)
           rest == Sub(fee, base)
           big == Mul(Mul(rest, ExtraProposerPercentage), voted)
           extra == Div(big, 100 * total)
           shared == Sub(rest, extra)
<1>1. total \in Nat
  <2>1. active \subseteq info.Validators
    BY DEF GetActiveValidators, OnDuty
  <2> HIDE DEF active
  <2>2. IsFiniteSet(active) /\ active \subseteq Validator
    BY <2>1, FS_Subset
  <2> QED
    BY <2>2, PowerSum
<1>2. voted \in Nat
  <2>1. IsFiniteSet(voters) /\ voters \subseteq Validator
    BY FS_Subset
  <2> QED
    BY <2>1, PowerSum
<1>3. FeeParts(info, fee, voters)
        = [base |-> base, extra |-> extra, shared |-> shared]
  BY DEF FeeParts
<1> HIDE DEF total, voted
<1>4. ASSUME NEW x \in Int, NEW n \in Nat
      PROVE  Div(x, n) \in Int
  <2>1. CASE n = 0
    BY <2>1 DEF Div
  <2>2. CASE n # 0
    <3>1. n \in Nat \ {0}
      BY <2>2
    <3>2. x \div n \in Int
      BY <3>1
    <3> QED
      BY <2>2, <3>2 DEF Div
  <2> QED
    BY <2>1, <2>2
<1>5. fee \in Int /\ BaseProposerPercentage \in Int
      /\ ExtraProposerPercentage \in Int
  BY DEF Coins, BaseProposerPercentage, ExtraProposerPercentage
<1>i. \A x \in Coins : x \in Int
  BY DEF Coins
<1>6. base \in Int
  <2>1. Mul(fee, BaseProposerPercentage) \in Int
    BY <1>5, <1>i, WordOps
  <2> QED
    BY <1>4, <2>1
<1> HIDE DEF base
<1>7. rest \in Int /\ Same(rest, fee - base)
  BY <1>5, <1>6, <1>i, WordOps
<1> HIDE DEF rest
<1>8. extra \in Int
  <2>1. Mul(rest, ExtraProposerPercentage) \in Int
    BY <1>5, <1>7, <1>i, WordOps
  <2>2. big \in Int
    BY <1>2, <1>i, <2>1, WordOps
  <2>3. 100 * total \in Nat
    BY <1>1
  <2> HIDE DEF big
  <2> QED
    BY <1>4, <2>2, <2>3
<1> HIDE DEF extra
<1>9. shared \in Int /\ Same(shared, rest - extra)
  BY <1>7, <1>8, <1>i, WordOps
<1> HIDE DEF shared
<1>10. Same((base + extra) + shared, fee)
  <2>1. Same((base + extra) + shared, (base + extra) + (rest - extra))
    <3>1. base + extra \in Int
      BY <1>6, <1>8
    <3> QED
      BY <1>9, <3>1, SameShift
  <2>2. (base + extra) + (rest - extra) = base + rest
    BY <1>6, <1>7, <1>8
  <2>3. Same(base + rest, base + (fee - base))
    BY <1>6, <1>7, SameShift
  <2>4. base + (fee - base) = fee
    BY <1>5, <1>6
  <2>5. Same(base + rest, fee)
    BY <2>3, <2>4
  <2>6. Same((base + extra) + shared, base + rest)
    BY <2>1, <2>2
  <2> QED
    BY <2>5, <2>6, SameTrans
<1>11. ASSUME NEW v \in voters
       PROVE  VoterShare(shared, v, voters) \in Int
  <2>1. v.VotingPower \in Int
    BY DEF Validator
  <2>2. Mul(shared, v.VotingPower) \in Int
    BY <1>9, <1>i, <2>1, WordOps
  <2> QED
    BY <1>2, <1>4, <2>2 DEF VoterShare, voted
<1> DEFINE parts == FeeParts(info, fee, voters)
<1>12. parts.base = base /\ parts.extra = extra /\ parts.shared = shared
  BY <1>3
<1> HIDE DEF parts
<1>13. /\ parts.base \in Int /\ parts.extra \in Int /\ parts.shared \in Int
       /\ Same((parts.base + parts.extra) + parts.shared, fee)
       /\ \A v \in voters : VoterShare(parts.shared, v, voters) \in Int
  BY <1>6, <1>8, <1>9, <1>10, <1>11, <1>12
<1> QED
  BY <1>13 DEF parts

(* g says what each of the earners E gains of a fee.                       *)
Gains(info, fee, voters, P, E, g) ==
    /\ E = voters \cup {P}
    /\ g = [v \in E |-> Gain(info, fee, v, P, voters)]

(* The gains of the proposer and of the other voters are the whole fee.    *)
LEMMA GainsAddUp ==
    ASSUME NEW info, info.Validators \subseteq Validator,
           IsFiniteSet(info.Validators), NEW fee \in Coins,
           NEW voters, voters \subseteq info.Validators,
           NEW P \in info.Validators, NEW E, NEW g,
           Gains(info, fee, voters, P, E, g)
    PROVE  Integral(g, E) /\ Same(SumFunctionOnSet(g, E), fee)
<1> DEFINE parts == FeeParts(info, fee, voters)
           base == parts.base
           extra == parts.extra
           shared == parts.shared
           others == voters \ {P}
           share == [x \in others |-> VoterShare(shared, x, voters)]
           sum == SumFunctionOnSet(share, others)
           remained == Sub(shared, sum)
<1>0. /\ E = voters \cup {P}
      /\ g = [v \in E |-> Gain(info, fee, v, P, voters)]
  BY DEF Gains
<1>1. /\ base \in Int /\ extra \in Int /\ shared \in Int
      /\ Same((base + extra) + shared, fee)
      /\ \A v \in voters : VoterShare(shared, v, voters) \in Int
  BY FeePartsCoins
<1>2. SumFunction([x \in others |-> VoterShare(shared, x, voters)]) = sum
  BY DEF SumFunction
<1>3. /\ g[P] = Add(Add(base, extra), remained)
      /\ \A v \in others : g[v] = share[v]
  <2>1. P \in E /\ \A v \in others : v \in E /\ v # P
    BY <1>0
  <2>2. \A v \in E :
          Gain(info, fee, v, P, voters)
            = IF v = P THEN Add(Add(base, extra), remained)
              ELSE VoterShare(shared, v, voters)
    BY <1>2 DEF Gain
  <2>3. \A v \in others : share[v] = VoterShare(shared, v, voters)
    OBVIOUS
  <2> HIDE DEF remained, base, extra, shared, share, parts
  <2> QED
    BY <1>0, <2>1, <2>2, <2>3
<1> HIDE DEF parts, base, extra, shared
<1>4. Integral(share, others)
  BY <1>1 DEF Integral
<1>5. /\ E \ {P} = others /\ P \in E /\ IsFiniteSet(E) /\ IsFiniteSet(others)
  <2>1. E \subseteq info.Validators /\ others \subseteq info.Validators
    BY <1>0
  <2>2. IsFiniteSet(E) /\ IsFiniteSet(others)
    <3> HIDE DEF others
    <3> QED
      BY <2>1, FS_Subset
  <2> QED
    BY <1>0, <2>2
<1> HIDE DEF share, others
<1>6. sum \in Int
  BY <1>4, <1>5, SumRemove
<1>7. Agree(g, share, others)
  BY <1>3 DEF Agree
<1>8. SumFunctionOnSet(g, others) = sum
  <2>1. Integral(g, others)
    BY <1>4, <1>7 DEF Integral, Agree
  <2> QED
    BY <1>4, <1>5, <1>7, <2>1, SumSame
<1> HIDE DEF sum
<1>i. \A x \in Coins : x \in Int
  BY DEF Coins
<1>9. remained \in Int /\ Same(remained, shared - sum)
  BY <1>1, <1>6, <1>i, WordOps
<1> HIDE DEF remained
<1> DEFINE front == Add(base, extra)
<1>10. front \in Int /\ Same(front, base + extra)
  BY <1>1, <1>i, WordOps
<1> HIDE DEF front
<1>11. g[P] \in Int /\ Same(g[P], front + remained)
  <2>1. g[P] = Add(front, remained)
    BY <1>3 DEF front
  <2>2. Add(front, remained) \in Coins
        /\ Same(Add(front, remained), front + remained)
    BY <1>9, <1>10, WordOps
  <2> QED
    BY <1>i, <2>1, <2>2
<1>12. Integral(g, E)
  BY <1>4, <1>5, <1>7, <1>11 DEF Integral, Agree
<1>13. SumFunctionOnSet(g, E) = g[P] + sum
  BY <1>5, <1>8, <1>12, SumRemove
<1>14. Same(g[P] + sum, fee)
  <2>1. Same(front + remained, (base + extra) + (shared - sum))
    BY <1>9, <1>10, SamePlus
  <2>2. Same(g[P], (base + extra) + (shared - sum))
    BY <1>11, <2>1, SameTrans
  <2>3. Same(g[P] + sum, ((base + extra) + (shared - sum)) + sum)
    BY <1>6, <2>2, SameShift
  <2>4. ((base + extra) + (shared - sum)) + sum = (base + extra) + shared
    BY <1>1, <1>6
  <2>5. Same(g[P] + sum, (base + extra) + shared)
    BY <2>3, <2>4
  <2> QED
    BY <1>1, <2>5, SameTrans
<1> QED
  BY <1>12, <1>13, <1>14

(* new are the reward entries when each earner v has got g[v]: c[v] is its *)
(* entry of the current epoch.                                             *)
Credits(info, E, g, c, new) ==
    /\ c = [v \in E |-> Credit(info, v, g[v])]
    /\ new = OtherRewards(info, E) \cup {c[v] : v \in E}

(* Crediting each earner c[v] in place of its entries of the current epoch *)
(* adds the credits to the pending rewards.                                *)
LEMMA CreditsAddUp ==
    ASSUME NEW info, Registry(info), info.PendingRewards \subseteq PendingReward,
           IsFiniteSet(info.PendingRewards),
           NEW E, E \subseteq info.Validators,
           NEW g, Integral(g, E),
           NEW c, NEW new, Credits(info, E, g, c, new)
    PROVE  /\ new \subseteq PendingReward /\ IsFiniteSet(new)
           /\ Same(AmountOf(new),
                   AmountOf(info.PendingRewards) + SumFunctionOnSet(g, E))
<1> DEFINE A == info.PendingRewards
           others == OtherRewards(info, E)
           old == A \ others
           credited == {c[v] : v \in E}
           key == [pr \in old |-> CHOOSE v \in E : v.Address = pr.Address]
           was == [v \in E |-> SumFunctionOnSet(amount,
                                                {pr \in old : key[pr] = v})]
           now == [v \in E |-> c[v].Amount]
           both == [v \in E |-> was[v] + g[v]]
<1>1. E \subseteq Validator /\ IsFiniteSet(E)
  BY FS_Subset DEF Registry
<1>2. others \subseteq A /\ old \subseteq A /\ A \ old = others
  BY DEF OtherRewards
<1>3. \A pr \in A : pr \in old <=>
          /\ pr.EpochNum = info.CurrEpochNum
          /\ \E v \in E : v.Address = pr.Address
  BY DEF OtherRewards
<1> HIDE DEF others
<1>4. /\ IsFiniteSet(old) /\ old \subseteq PendingReward
      /\ IsFiniteSet(others) /\ others \subseteq PendingReward
      /\ AmountOf(A) = AmountOf(others) + AmountOf(old)
      /\ AmountOf(old) = SumFunctionOnSet(amount, old)
      /\ AmountOf(old) \in Int /\ AmountOf(others) \in Int
      /\ Integral(amount, old)
  <2> HIDE DEF old
  <2> QED
    BY <1>2, AmountWithout, AmountSum
<1> HIDE DEF old
<1>5. \A x, y \in E : x.Address = y.Address => x = y
  BY DEF Registry, DistinctValidators
<1>6. ASSUME NEW pr \in old
      PROVE  key[pr] \in E /\ \A v \in E : key[pr] = v <=> v.Address = pr.Address
  <2>1. \E v \in E : v.Address = pr.Address
    BY <1>2, <1>3
  <2> DEFINE x == CHOOSE v \in E : v.Address = pr.Address
  <2>2. x \in E /\ x.Address = pr.Address /\ key[pr] = x
    BY <2>1
  <2> HIDE DEF x, key
  <2> QED
    BY <1>5, <2>2
<1>7. key \in [old -> E]
  BY <1>6
<1> HIDE DEF key
<1>8. SumFunctionOnSet(was, E) = AmountOf(old)
  <2>1. Groups(was, amount, key, old, E)
    BY DEF Groups
  <2> HIDE DEF was
  <2> QED
    BY <1>1, <1>4, <1>7, <2>1, SumByGroup
<1>9. ASSUME NEW v \in E
      PROVE  /\ was[v] \in Int
             /\ c[v] = [Address |-> v.Address, EpochNum |-> info.CurrEpochNum,
                        Amount |-> Add(was[v], g[v])]
  <2> DEFINE R == {pr \in old : key[pr] = v}
             Q == GetCurrRewardMapByAddr(info, v.Address)
  <2>1. R = Q
    BY <1>2, <1>3, <1>6 DEF GetCurrRewardMapByAddr
  <2>2. IsFiniteSet(R) /\ R \subseteq PendingReward
    BY <1>4, FS_Subset
  <2>3. was[v] = SumFunctionOnSet(amount, R)
    OBVIOUS
  <2>4. c[v] = [Address |-> v.Address, EpochNum |-> info.CurrEpochNum,
                Amount |-> Add(AmountOf(Q), g[v])]
    BY DEF Credit, Credits
  <2> HIDE DEF R, Q, was
  <2>5. AmountOf(R) = SumFunctionOnSet(amount, R) /\ AmountOf(R) \in Int
    BY <2>2, AmountSum
  <2> QED
    BY <2>1, <2>3, <2>4, <2>5
<1> HIDE DEF was
<1>10. ASSUME NEW v \in E
       PROVE  /\ c[v] \in PendingReward
              /\ now[v] \in Int /\ Same(now[v], both[v])
              /\ c[v].Address = v.Address
              /\ c[v].EpochNum = info.CurrEpochNum
              /\ amount[c[v]] = now[v]
  <2>1. was[v] \in Int /\ g[v] \in Int
    BY <1>9 DEF Integral
  <2>2. /\ Add(was[v], g[v]) \in Coins
        /\ Same(Add(was[v], g[v]), was[v] + g[v])
    BY <2>1, WordOps
  <2>3. v.Address \in Accounts /\ info.CurrEpochNum \in Nat
    BY <1>1 DEF Validator, Registry
  <2> DEFINE e == Add(was[v], g[v])
             r == [Address |-> v.Address, EpochNum |-> info.CurrEpochNum,
                   Amount |-> e]
  <2>4. c[v] = r /\ now[v] = c[v].Amount /\ both[v] = was[v] + g[v]
    BY <1>9
  <2>5. e \in Coins /\ e \in Int /\ Same(e, was[v] + g[v])
    BY <2>2 DEF Coins
  <2> HIDE DEF e, now, both
  <2>6. r \in PendingReward /\ r.Amount = e /\ amount[r] = e
    BY <2>3, <2>5 DEF PendingReward, amount
  <2>7. r.Address = v.Address /\ r.EpochNum = info.CurrEpochNum
    OBVIOUS
  <2> HIDE DEF r
  <2> QED
    BY <2>4, <2>5, <2>6, <2>7
<1>11. DOMAIN c = E
  BY DEF Credits
<1> HIDE DEF now
<1>12. /\ credited \subseteq PendingReward
       /\ IsFiniteSet(credited)
  BY <1>1, <1>10, <1>11, FiniteImage
<1>13. others \cap credited = {}
  BY <1>2, <1>3, <1>10 DEF old
<1>14. SumFunctionOnSet(amount, credited) = SumFunctionOnSet(now, E)
  <2>1. OneToOne(c, E) /\ Integral(now, E)
    BY <1>5, <1>10 DEF OneToOne, Integral
  <2>2. \A v \in E : amount[c[v]] = now[v]
    BY <1>10
  <2> QED
    BY <1>1, <1>11, <2>1, <2>2, SumImage
<1>15. Same(SumFunctionOnSet(now, E), AmountOf(old) + SumFunctionOnSet(g, E))
  <2>1. Congruent(Word, now, both, E)
    BY <1>10 DEF Congruent, Same
  <2>2. AddsUp(both, was, g, E) /\ Integral(was, E)
    BY <1>9 DEF AddsUp, Integral
  <2> HIDE DEF both
  <2>3. SumFunctionOnSet(both, E) = AmountOf(old) + SumFunctionOnSet(g, E)
    BY <1>1, <1>8, <2>2, SumPlus
  <2>4. Same(SumFunctionOnSet(now, E), SumFunctionOnSet(both, E))
    BY <1>1, <2>1, WordAssumption, SumSameMod DEF Same
  <2> QED
    BY <2>3, <2>4
<1> HIDE DEF credited
<1>16. new = others \cup credited
  BY DEF others, credited, Credits
<1>17. new \subseteq PendingReward /\ IsFiniteSet(new)
  <2>1. IsFiniteSet(others \cup credited)
    BY <1>4, <1>12, FS_Union
  <2> QED
    BY <1>4, <1>12, <1>16, <2>1
<1>18. AmountOf(new) = AmountOf(others) + SumFunctionOnSet(now, E)
  <2>1. /\ AmountOf(new) = SumFunctionOnSet(amount, others \cup credited)
        /\ Integral(amount, others \cup credited)
        /\ AmountOf(others) = SumFunctionOnSet(amount, others)
    BY <1>4, <1>16, <1>17, AmountSum
  <2>2. SumFunctionOnSet(amount, others \cup credited)
          = SumFunctionOnSet(amount, others) + SumFunctionOnSet(amount, credited)
    BY <1>4, <1>12, <1>13, <2>1, SumUnion
  <2> QED
    BY <1>14, <2>1, <2>2
<1>19. Same(AmountOf(new), AmountOf(A) + SumFunctionOnSet(g, E))
  <2> DEFINE p == AmountOf(others)
             q == AmountOf(old)
             s == SumFunctionOnSet(g, E)
             z == SumFunctionOnSet(now, E)
  <2>1. p \in Int /\ q \in Int /\ s \in Int /\ AmountOf(A) = p + q
    BY <1>1, <1>4, SumRemove
  <2>2. AmountOf(new) = p + z /\ Same(z, q + s)
    BY <1>15, <1>18
  <2> HIDE DEF p, q, s, z
  <2>3. Same(p + z, p + (q + s))
    BY <2>1, <2>2, SameShift
  <2>4. p + (q + s) = (p + q) + s
    BY <2>1
  <2> QED
    BY <2>1, <2>2, <2>3, <2>4 DEF s
<1> QED
  BY <1>17, <1>19

(* A change of one balance changes the supply by as much.                  *)
LEMMA SupplyUpdate ==
    ASSUME NEW b \in [Accounts -> Coins], NEW c \in [Accounts -> Coins],
           NEW a \in Accounts, Agree(c, b, Accounts \ {a})
    PROVE  /\ SupplyOf(b) \in Int /\ b[a] \in Int /\ c[a] \in Int
           /\ SupplyOf(c) = SupplyOf(b) + c[a] - b[a]
<1>1. Integral(b, Accounts) /\ SupplyOf(b) \in Int /\ Integral(c, Accounts)
  BY SupplyIsInt
<1>2. b[a] \in Int /\ c[a] \in Int
  BY DEF Coins
<1>3. SupplyOf(c) = SupplyOf(b) + c[a] - b[a]
  BY <1>1, <1>2, AccountsAssumption, SumUpdate DEF SupplyOf
<1> QED
  BY <1>1, <1>2, <1>3

(* Coins that an account is given.                                         *)
LEMMA GivenCoins ==
    ASSUME NEW b \in [Accounts -> Coins], NEW a \in Accounts, NEW n \in Int,
           NEW c, c = [b EXCEPT ![a] = Add(b[a], n)]
    PROVE  /\ c \in [Accounts -> Coins]
           /\ Same(c[a], b[a] + n)
           /\ \A x \in Accounts \ {a} : c[x] = b[x]
           /\ Same(SupplyOf(c), SupplyOf(b) + n)
<1>1. b[a] \in Int
  BY DEF Coins
<1>2. Add(b[a], n) \in Coins /\ Same(Add(b[a], n), b[a] + n)
  BY <1>1, WordOps
<1>3. /\ c \in [Accounts -> Coins] /\ c[a] = Add(b[a], n)
      /\ \A x \in Accounts \ {a} : c[x] = b[x]
  BY <1>2
<1>4. Same(c[a], b[a] + n)
  BY <1>2, <1>3
<1>5. Agree(c, b, Accounts \ {a})
  BY <1>3 DEF Agree
<1>6. /\ SupplyOf(b) \in Int /\ c[a] \in Int
      /\ SupplyOf(c) = SupplyOf(b) + c[a] - b[a]
  BY <1>3, <1>5, SupplyUpdate
<1>8. SupplyOf(c) = (SupplyOf(b) - b[a]) + c[a]
  BY <1>1, <1>6
<1>9. Same((SupplyOf(b) - b[a]) + c[a], (SupplyOf(b) - b[a]) + (b[a] + n))
  <2>1. SupplyOf(b) - b[a] \in Int
    BY <1>1, <1>6
  <2> QED
    BY <1>4, <2>1, SameShift
<1>10. (SupplyOf(b) - b[a]) + (b[a] + n) = SupplyOf(b) + n
  BY <1>1, <1>6
<1> QED
  BY <1>3, <1>4, <1>8, <1>9, <1>10

(* A fee reaches the contract's balance and its reward entries alike.      *)
LEMMA DistributeFeeCoins ==
    ASSUME NEW w, WorldShape(w), Registry(w.info), Ledger(w),
           w.panic = NoPanic,
           NEW fee \in Coins, NEW proposer, NEW voters,
           NEW u, u = DistributeFee(w, fee, proposer, voters),
           u.panic = NoPanic
    PROVE  /\ Ledger(u) /\ Formed(u.info)
           /\ DebtKept(w, u)
           /\ Same(SupplyOf(u.balance), SupplyOf(w.balance) + fee)
           /\ u.balance[SystemAddress] = w.balance[SystemAddress]
           /\ Ordinary(w.info) => Ordinary(u.info)
<1> DEFINE info == w.info
           b == w.balance
           Vals(keys) == {v \in info.Validators : v.Pubkey \in keys}
           earners == Vals(voters \cup {proposer})
           V == Vals(voters)
           P == CHOOSE v \in Vals({proposer}) : TRUE
           g == [v \in earners |-> Gain(info, fee, v, P, V)]
           c == [v \in earners |-> Credit(info, v, g[v])]
           new == OtherRewards(info, earners) \cup {c[v] : v \in earners}
           funded == [b EXCEPT ![StakingContractAddress] = Add(@, fee)]
<1>1. /\ ~ \E k \in voters \cup {proposer} : Vals({k}) = {}
      /\ u = [w EXCEPT !.balance = funded, !.info.PendingRewards = new]
  <2>1. CASE \E k \in voters \cup {proposer} : Vals({k}) = {}
    <3>1. u = [w EXCEPT !.panic = "nil validator"]
      BY <2>1 DEF DistributeFee
    <3> QED
      BY <3>1 DEF WorldShape, NoPanic
  <2>2. CASE ~ \E k \in voters \cup {proposer} : Vals({k}) = {}
    <3>1. {Credit(info, v, Gain(info, fee, v, P, V)) : v \in earners}
            = {c[v] : v \in earners}
      OBVIOUS
    <3>2. u = [w EXCEPT
                !.balance[StakingContractAddress] = Add(@, fee),
                !.info.PendingRewards =
                    OtherRewards(info, earners)
                      \cup {Credit(info, v, Gain(info, fee, v, P, V))
                              : v \in earners}]
      BY <2>2 DEF DistributeFee
    <3> QED
      BY <2>2, <3>1, <3>2
  <2> QED
    BY <2>1, <2>2
<1>2. /\ earners \subseteq info.Validators /\ V \subseteq info.Validators
      /\ P \in info.Validators /\ earners = V \cup {P}
  <2>1. Vals({proposer}) # {}
    BY <1>1
  <2>2. P \in Vals({proposer})
    BY <2>1
  <2>3. P \in info.Validators /\ P.Pubkey = proposer
    BY <2>2
  <2> HIDE DEF P
  <2>4. \A v \in info.Validators : v.Pubkey = proposer <=> v = P
    BY <2>3 DEF Registry, DistinctValidators
  <2> QED
    BY <2>3, <2>4
<1>3. info.Validators \subseteq Validator /\ IsFiniteSet(info.Validators)
  BY DEF Registry
<1> HIDE DEF earners, V, P, funded
<1>4. Integral(g, earners) /\ Same(SumFunctionOnSet(g, earners), fee)
  <2>1. Gains(info, fee, V, P, earners, g)
    BY <1>2 DEF Gains
  <2> HIDE DEF g
  <2> QED
    BY <1>2, <1>3, <2>1, GainsAddUp
<1> HIDE DEF g
<1>5. /\ new \subseteq PendingReward /\ IsFiniteSet(new)
      /\ Same(AmountOf(new), AmountOf(info.PendingRewards)
                               + SumFunctionOnSet(g, earners))
  <2>1. Credits(info, earners, g, c, new)
    BY DEF Credits
  <2> HIDE DEF c, new
  <2>3. info.PendingRewards \subseteq PendingReward
        /\ IsFiniteSet(info.PendingRewards)
    BY DEF Ledger
  <2> QED
    BY <1>2, <1>4, <2>1, <2>3, CreditsAddUp
<1> HIDE DEF new
<1>6. /\ u.info.Validators = info.Validators
      /\ u.info.PendingRewards = new
      /\ u.balance = funded /\ u.allBurnt = w.allBurnt
  BY <1>1 DEF WorldShape
<1>f. Formed(u.info)
  <2>1. u.info = [w.info EXCEPT !.PendingRewards = new]
    BY <1>1 DEF WorldShape
  <2> QED
    BY <2>1 DEF Formed
<1> DEFINE C == StakingContractAddress
<1>7. /\ b \in [Accounts -> Coins] /\ C \in Accounts
      /\ SystemAddress \in Accounts \ {C} /\ BlackHoleAddress \in Accounts \ {C}
  BY AddressAssumption, ReservedAssumption DEF Ledger
<1>8. fee \in Int
  BY DEF Coins
<1>9. funded = [b EXCEPT ![C] = Add(b[C], fee)]
  BY <1>7 DEF funded
<1> HIDE DEF b, C
<1>10. /\ funded \in [Accounts -> Coins]
       /\ Same(funded[C], b[C] + fee)
       /\ \A a \in Accounts \ {C} : funded[a] = b[a]
       /\ Same(SupplyOf(funded), SupplyOf(b) + fee)
  BY <1>7, <1>8, <1>9, GivenCoins
<1>11. Ledger(u)
  BY <1>5, <1>6, <1>10 DEF Ledger
<1>13. DebtKept(w, u)
  <2> DEFINE s == StakeOf(info.Validators)
             p == AmountOf(info.PendingRewards)
             q == AmountOf(new)
             x == s + p
             y == s + q
  <2>1. s \in Int /\ p \in Int /\ q \in Int
    BY <1>5, OwedIsInt, AmountSum
  <2>2. Same(q, p + SumFunctionOnSet(g, earners))
    BY <1>5
  <2>3. x = StakeOf(w.info.Validators) + AmountOf(w.info.PendingRewards)
        /\ y = StakeOf(u.info.Validators) + AmountOf(u.info.PendingRewards)
    BY <1>6
  <2>4. x \in Int /\ y \in Int
    BY <2>1
  <2> HIDE DEF p, q, s
  <2>5. Same(p + SumFunctionOnSet(g, earners), p + fee)
    BY <1>4, <2>1, SameShift
  <2>6. Same(q, p + fee)
    BY <2>2, <2>5, SameTrans
  <2>7. Same(s + q, s + (p + fee))
    BY <2>1, <2>6, SameShift
  <2>8. s + (p + fee) = (s + p) + fee
    BY <1>8, <2>1
  <2>9. Same(y, x + fee)
    BY <2>7, <2>8
  <2>10. /\ Same(u.balance[StakingContractAddress],
                 w.balance[StakingContractAddress] + fee)
         /\ u.balance[BlackHoleAddress] = w.balance[BlackHoleAddress]
    BY <1>6, <1>7, <1>10 DEF b, C
  <2> HIDE DEF x, y
  <2> QED
    BY <1>8, <1>11, <2>3, <2>4, <2>9, <2>10, DebtBalanced
<1>14. Ordinary(w.info) => Ordinary(u.info)
  BY <1>6 DEF Ordinary
<1>15. u.balance[SystemAddress] = w.balance[SystemAddress]
  BY <1>6, <1>7, <1>10 DEF b
<1> QED
  BY <1>f, <1>6, <1>10, <1>11, <1>13, <1>14, <1>15 DEF b

(* The staking information stays a record.                                 *)
LEMMA ExecuteFormed ==
    ASSUME NEW w, WorldShape(w), Formed(w.info), NEW tx,
           NEW u, u = Execute(w, tx)
    PROVE  Formed(u.info)
<1>1. \/ u = w
      \/ \E isIncrease : u = handleMinGasPrice(w, tx.From, isIncrease)
      \/ u = Create(w, tx)
      \/ u = Edit(w, tx)
  BY DEF Execute, externalOp
<1>2. ASSUME NEW isIncrease, u = handleMinGasPrice(w, tx.From, isIncrease)
      PROVE  u.info = w.info
  <2>1. u = w \/ \E p : u = [w EXCEPT !.minGasPrice = p]
    BY <1>2 DEF handleMinGasPrice
  <2> QED
    BY <2>1 DEF WorldShape
<1>3. CASE u = Create(w, tx)
  <2>1. \/ u = w
        \/ \E V, b : u = [w EXCEPT !.info = [w.info EXCEPT !.Validators = V],
                                   !.balance = b]
    BY <1>3 DEF Create, AddValidator
  <2>2. u.info = w.info \/ \E V : u.info = [w.info EXCEPT !.Validators = V]
    BY <2>1 DEF WorldShape
  <2> QED
    BY <2>2 DEF Formed
<1>4. CASE u = Edit(w, tx)
  <2>1. \/ u = w
        \/ \E V, b : u = [w EXCEPT !.info = [w.info EXCEPT !.Validators = V],
                                   !.balance = b]
    BY <1>4 DEF Edit
  <2>2. u.info = w.info \/ \E V : u.info = [w.info EXCEPT !.Validators = V]
    BY <2>1 DEF WorldShape
  <2> QED
    BY <2>2 DEF Formed
<1> QED
  BY <1>1, <1>2, <1>3, <1>4

(* A sender gets back the gas that its transaction did not use.            *)
Refunded(w, tx) == [w EXCEPT !.balance[tx.From] = Add(@, tx.refund)]

(* A transaction's coins, with the refund of its gas.                      *)
LEMMA ExecuteTxCoins ==
    ASSUME NEW w, WorldShape(w), Registry(w.info), Prices(w), Ledger(w),
           NEW tx \in Txs, NEW done, done = Execute(w, tx),
           NEW u, u = Refunded(done, tx)
    PROVE  /\ Ledger(u)
           /\ Formed(w.info) => Formed(u.info)
           /\ DebtKept(w, u)
           /\ Ordinary(w.info) /\ tx.RewardTo \notin ReservedAccounts =>
                /\ Ordinary(u.info)
                /\ Same(SupplyOf(u.balance), SupplyOf(w.balance) + tx.refund)
                /\ u.balance[SystemAddress] = w.balance[SystemAddress]
<1> DEFINE b == done.balance
           c == u.balance
           a == tx.From
<1>1. /\ Ledger(done) /\ DebtKept(w, done)
      /\ Ordinary(w.info) /\ tx.RewardTo \notin ReservedAccounts
           => Conserves(w, done)
  BY ExecuteCoins
<1>2. WorldShape(done)
  BY TxsAssumption, ExecuteRegistry
<1>3. /\ u.info = done.info /\ u.allBurnt = done.allBurnt
      /\ c = [b EXCEPT ![a] = Add(b[a], tx.refund)]
  BY <1>2 DEF WorldShape, Refunded
<1>4. /\ a \in Accounts /\ a \notin ReservedAccounts
      /\ tx.refund \in Int /\ b \in [Accounts -> Coins]
  BY <1>1, TxsAssumption DEF StakingTx, Coins, Ledger
<1> HIDE DEF a, b, c
<1>5. /\ c \in [Accounts -> Coins]
      /\ \A x \in Accounts \ {a} : c[x] = b[x]
      /\ Same(SupplyOf(c), SupplyOf(b) + tx.refund)
  BY <1>3, <1>4, GivenCoins
<1>6. \A x \in ReservedAccounts : c[x] = b[x]
  <2>1. ReservedAccounts \subseteq Accounts \ {a}
    BY <1>4, AddressAssumption DEF ReservedAccounts
  <2> QED
    BY <1>5, <2>1
<1>7. Ledger(u)
  BY <1>1, <1>3, <1>5 DEF Ledger, c
<1>f. Formed(w.info) => Formed(u.info)
  BY <1>3, ExecuteFormed
<1>8. Debt(u) = Debt(done)
  BY <1>3, <1>6 DEF Debt, Owed, ReservedAccounts, b, c
<1>9. DebtKept(w, u)
  BY <1>1, <1>8 DEF DebtKept
<1>10. ASSUME Ordinary(w.info), tx.RewardTo \notin ReservedAccounts
       PROVE  /\ Ordinary(u.info)
              /\ Same(SupplyOf(c), SupplyOf(w.balance) + tx.refund)
              /\ c[SystemAddress] = w.balance[SystemAddress]
  <2>1. Conserves(w, done)
    BY <1>1, <1>10
  <2>2. Ordinary(u.info) /\ c[SystemAddress] = w.balance[SystemAddress]
    BY <1>3, <1>6, <2>1 DEF Conserves, Ordinary, ReservedAccounts, b
  <2>3. Same(SupplyOf(b), SupplyOf(w.balance))
    BY <2>1 DEF Conserves, b
  <2>4. Same(SupplyOf(b) + tx.refund, SupplyOf(w.balance) + tx.refund)
    BY <1>4, <2>3, SameShift
  <2> QED
    BY <1>5, <2>2, <2>4, SameTrans
<1> QED
  BY <1>f, <1>7, <1>9, <1>10 DEF c

(* The blocks before the first Commit: nobody has paid for gas yet.        *)
Fresh == block.Number = 0 \/ (block.Number = 1 /\ phase # "begin")

(* The epoch switch of a Commit, if there is one.                          *)
LEMMA SwitchIfDueCoins ==
    ASSUME Inv, Ledger(world), world.panic = NoPanic,
           NEW switched, switched = SwitchIfDue(world),
           switched.panic = NoPanic
    PROVE  /\ WorldShape(switched) /\ Registry(switched.info)
           /\ Ledger(switched)
           /\ Formed(world.info) => Formed(switched.info)
           /\ Ordinary(world.info) => Conserves(world, switched)
           /\ DebtGrows(world, switched, StakeOf(PaidAndKept))
<1>1. WorldShape(world) /\ Registry(world.info)
  BY DEF Inv
<1>2. CASE EpochDue
  <2>1. /\ Head(EpochsAtCommit) \in Epoch
        /\ switched = SwitchEpoch(world, Head(EpochsAtCommit).power)
    BY <1>2 DEF EpochDue, SwitchIfDue, EpochsAtCommit, Inv
  <2>2. Head(EpochsAtCommit).power \in Nominations
    BY <2>1 DEF Epoch
  <2>3. WorldShape(switched) /\ Registry(switched.info)
    BY <1>1, <2>1, <2>2, SwitchEpochRegistry
  <2> DEFINE info == updateVotingPower(endEpoch(world),
                                       Head(EpochsAtCommit).power).info
             kept == GetUselessValidators(info) \ Deleted(info)
  <2>4. /\ Ledger(switched) /\ Formed(switched.info)
        /\ Ordinary(world.info) => Conserves(world, switched)
        /\ DebtGrows(world, switched, StakeOf(kept))
    BY <1>1, <2>1, <2>2, SwitchEpochCoins
  <2>5. kept = PaidAndKept
    BY <1>2 DEF PaidAndKept
  <2> HIDE DEF kept
  <2> QED
    BY <2>3, <2>4, <2>5
<1>3. CASE ~EpochDue
  <2>1. switched = world
    BY <1>3 DEF SwitchIfDue
  <2>2. /\ StakeOf(world.info.Validators) \in Int
        /\ AmountOf(world.info.PendingRewards) \in Int
        /\ SupplyOf(world.balance) \in Int
    BY <1>1, OwedIsInt, SupplyIsInt DEF Ledger
  <2>3. Debt(world) \in Int
    BY <2>2, AddressAssumption DEF Debt, Owed, Ledger, Coins
  <2>4. StakeOf(PaidAndKept) = 0
    <3>1. PaidAndKept = {}
      BY <1>3 DEF PaidAndKept
    <3>2. StakeOf({}) = SumFunctionOnSet(stake, {})
      BY StakeSum, FS_EmptySet
    <3> QED
      BY <3>1, <3>2, SumEmpty
  <2>5. DebtGrows(world, switched, StakeOf(PaidAndKept))
    BY <2>1, <2>3, <2>4, SameRefl DEF DebtGrows
  <2> QED
    BY <1>1, <2>1, <2>2, <2>5, SameRefl DEF Conserves
<1> QED
  BY <1>2, <1>3

(* What the steps of a Commit that does not panic do to the coins.         *)
LEMMA CommitCoins ==
    ASSUME Inv, Ledger(world), world.panic = NoPanic,
           slashValidators \in Seq(Pubkeys), engine.collected \subseteq Txs,
           lastGasFee \in Nat, lastGasRefund \in Nat,
           NEW switched, switched = SwitchIfDue(world),
           switched.panic = NoPanic,
           NEW slashed, slashed = SlashAll(switched),
           NEW settled, settled = SettleSystemAcc(slashed),
           settled.panic = NoPanic,
           NEW paid, paid = PayBlockReward(settled, BlockReward(slashed)),
           paid.panic = NoPanic,
           NEW u, u = RefreshMinGasPrice(Prepare(paid))
    PROVE  /\ WorldShape(paid) /\ Ledger(u)
           /\ Formed(world.info) => Formed(u.info)
           /\ BlockReward(slashed) \in Coins /\ RefundDue \in Nat
           /\ Prepared(paid) \subseteq engine.collected
           /\ Ordinary(world.info) =>
                /\ Ordinary(u.info)
                /\ slashed.balance[SystemAddress] = world.balance[SystemAddress]
                /\ u.balance[SystemAddress]
                     = Add(world.balance[SystemAddress]
                             - (RefundDue + BlockReward(slashed)),
                           Gas(Prepared(paid)))
                /\ (block.Number = 1 => BlockReward(slashed) = 0)
                     => Same(SupplyOf(u.balance),
                             SupplyOf(world.balance) - RefundDue)
           /\ slashValidators = <<>>
                => DebtGrows(world, u, StakeOf(PaidAndKept))
<1>2. /\ WorldShape(switched) /\ Registry(switched.info) /\ Ledger(switched)
      /\ Formed(world.info) => Formed(switched.info)
      /\ Ordinary(world.info) => Conserves(world, switched)
      /\ DebtGrows(world, switched, StakeOf(PaidAndKept))
  BY SwitchIfDueCoins
<1>3. /\ WorldShape(slashed) /\ slashed.info = switched.info
      /\ slashed.panic = NoPanic /\ Ledger(slashed)
      /\ slashValidators = <<>> => DebtKept(switched, slashed)
      /\ Ordinary(switched.info) => Conserves(switched, slashed)
  BY <1>2, CoinsOnly, SlashAllCoins
<1> DEFINE reward == BlockReward(slashed)
           sys == world.balance[SystemAddress]
<1>4. /\ WorldShape(settled) /\ settled.info = switched.info
      /\ Ledger(settled)
      /\ reward \in Coins /\ RefundDue \in Nat
      /\ \A a \in Accounts \ {SystemAddress} :
            settled.balance[a] = slashed.balance[a]
      /\ settled.balance[SystemAddress]
           = slashed.balance[SystemAddress] - (RefundDue + reward)
      /\ SupplyOf(settled.balance)
           = SupplyOf(slashed.balance) - (RefundDue + reward)
  BY <1>3, CoinsOnly, SettleCoins
<1>5. Debt(settled) = Debt(slashed)
  BY <1>3, <1>4, AddressAssumption, ReservedAssumption DEF Debt, Owed
<1> HIDE DEF reward
<1>6. reward \in Int /\ RefundDue \in Int /\ SupplyOf(slashed.balance) \in Int
      /\ SupplyOf(settled.balance) \in Int /\ Debt(settled) \in Int
  <2>1. reward \in Int /\ RefundDue \in Int
    BY <1>4 DEF Coins
  <2>2. SupplyOf(slashed.balance) \in Int /\ SupplyOf(settled.balance) \in Int
    BY <1>3, <1>4, SupplyIsInt DEF Ledger
  <2>3. Debt(settled) \in Int
    <3>1. /\ StakeOf(settled.info.Validators) \in Int
          /\ AmountOf(settled.info.PendingRewards) \in Int
      BY <1>2, <1>4, OwedIsInt
    <3> QED
      BY <1>4, <3>1, AddressAssumption DEF Debt, Owed, Ledger, Coins
  <2> QED
    BY <2>1, <2>2, <2>3
<1>7. /\ WorldShape(paid) /\ Ledger(paid) /\ DebtKept(settled, paid)
      /\ paid.balance[SystemAddress] = settled.balance[SystemAddress]
      /\ Formed(settled.info) => Formed(paid.info)
      /\ Ordinary(settled.info) => Ordinary(paid.info)
      /\ block.Number = 1 => paid = settled
      /\ block.Number # 1 => Same(SupplyOf(paid.balance),
                                  SupplyOf(settled.balance) + reward)
  <2>1. CASE block.Number = 1
    <3>1. paid = settled
      BY <2>1 DEF PayBlockReward
    <3> QED
      BY <1>4, <1>6, <2>1, <3>1, SameRefl DEF DebtKept
  <2>2. CASE block.Number # 1
    <3>1. paid = DistributeFee(settled, reward, lastProposer, lastCommitInfo)
      BY <2>2 DEF PayBlockReward, reward
    <3>2. Registry(settled.info)
      BY <1>2, <1>4
    <3>3. WorldShape(paid)
      BY <1>4, <3>1, <3>2, DistributeFeeRegistry
    <3> QED
      BY <1>4, <2>2, <3>1, <3>2, <3>3, DistributeFeeCoins
  <2> QED
    BY <2>1, <2>2
<1> DEFINE prepared == Prepare(paid)
<1>8. /\ WorldShape(prepared) /\ prepared.info = paid.info
      /\ Ledger(prepared)
      /\ Prepared(paid) \subseteq engine.collected
      /\ Same(SupplyOf(prepared.balance), SupplyOf(paid.balance))
      /\ prepared.balance[StakingContractAddress]
           = paid.balance[StakingContractAddress]
      /\ prepared.balance[SystemAddress]
           = Add(paid.balance[SystemAddress], Gas(Prepared(paid)))
  BY <1>7, CoinsOnly, PrepareCoins
<1> HIDE DEF prepared
<1>9. /\ u.info = paid.info /\ u.balance = prepared.balance
      /\ u.allBurnt = prepared.allBurnt
  BY <1>8 DEF RefreshMinGasPrice, WorldShape, prepared
<1>10. Ledger(u)
  BY <1>8, <1>9 DEF Ledger
<1>11. ASSUME slashValidators = <<>>
       PROVE  DebtGrows(world, u, StakeOf(PaidAndKept))
  <2>1. Debt(u) = Debt(paid)
    BY <1>8, <1>9 DEF Debt, Owed
  <2>2. DebtKept(switched, paid)
    BY <1>3, <1>5, <1>7, <1>11, SameTrans DEF DebtKept
  <2>3. DebtKept(switched, u)
    BY <2>1, <2>2 DEF DebtKept
  <2> QED
    BY <1>2, <2>3, ConservesTrans
<1>12. ASSUME Ordinary(world.info)
       PROVE  /\ Ordinary(u.info)
              /\ slashed.balance[SystemAddress] = sys
              /\ u.balance[SystemAddress]
                   = Add(sys - (RefundDue + reward), Gas(Prepared(paid)))
              /\ (block.Number = 1 => reward = 0)
                   => Same(SupplyOf(u.balance),
                           SupplyOf(world.balance) - RefundDue)
  <2>1. Conserves(world, switched) /\ Conserves(switched, slashed)
    BY <1>2, <1>3, <1>12 DEF Conserves
  <2>2. Conserves(world, slashed)
    BY <2>1, ConservesTrans
  <2>3. Ordinary(u.info)
    BY <1>3, <1>4, <1>7, <1>9, <2>2 DEF Conserves
  <2>4. slashed.balance[SystemAddress] = sys
    BY <2>2 DEF Conserves
  <2>5. u.balance[SystemAddress]
          = Add(sys - (RefundDue + reward), Gas(Prepared(paid)))
    BY <1>4, <1>7, <1>8, <1>9, <2>4
  <2>6. ASSUME block.Number = 1 => reward = 0
        PROVE  Same(SupplyOf(u.balance), SupplyOf(world.balance) - RefundDue)
    <3> DEFINE x == SupplyOf(world.balance)
               y == SupplyOf(slashed.balance)
               z == SupplyOf(settled.balance)
               p == SupplyOf(paid.balance)
    <3>1. y \in Int /\ z = y - (RefundDue + reward) /\ Same(y, x)
      BY <1>4, <1>6, <2>2 DEF Conserves
    <3>2. Same(p, y - RefundDue)
      <4>1. CASE block.Number = 1
        <5>1. p = z /\ reward = 0
          BY <1>7, <2>6, <4>1
        <5> HIDE DEF x, y, z, p
        <5>2. p = y - RefundDue /\ y - RefundDue \in Int
          BY <1>6, <3>1, <5>1
        <5> QED
          BY <5>2, SameRefl
      <4>2. CASE block.Number # 1
        <5>1. Same(p, z + reward)
          BY <1>7, <4>2
        <5> HIDE DEF x, y, z, p
        <5>2. z + reward = y - RefundDue
          BY <1>6, <3>1
        <5> QED
          BY <5>1, <5>2
      <4> QED
        BY <4>1, <4>2
    <3>3. Same(y - RefundDue, x - RefundDue)
      <4> HIDE DEF x, y
      <4> QED
        BY <1>6, <3>1, SameShift
    <3>4. Same(SupplyOf(u.balance), p)
      BY <1>8, <1>9
    <3> HIDE DEF x, y, z, p
    <3>5. Same(p, x - RefundDue)
      BY <3>2, <3>3, SameTrans
    <3>6. Same(SupplyOf(u.balance), x - RefundDue)
      BY <3>4, <3>5, SameTrans
    <3> QED
      BY <3>6 DEF x
  <2> QED
    BY <2>3, <2>4, <2>5, <2>6
<1>13. Formed(world.info) => Formed(u.info)
  BY <1>2, <1>4, <1>7, <1>9
<1> QED
  BY <1>4, <1>7, <1>8, <1>10, <1>11, <1>12, <1>13 DEF reward

-----------------------------------------------------------------------------
(* The panics of a Commit, by the step that meets them.                    *)
KnownPanics(switched, settled, paid) ==
    /\ switched.panic \in {NoPanic, "nil validator", "slice bounds"}
    /\ switched.panic = NoPanic =>
         settled.panic \in {NoPanic, "system balance"}
    /\ switched.panic = NoPanic /\ settled.panic = NoPanic =>
         paid.panic \in {NoPanic, "nil validator"}

(* What makes the steps of a Commit panic.                                 *)
LEMMA PanicKinds ==
    ASSUME Inv, Ledger(world), world.panic = NoPanic,
           NEW switched, switched = SwitchIfDue(world),
           NEW settled, settled = SettleSystemAcc(SlashAll(switched)),
           NEW reward, NEW paid, paid = PayBlockReward(settled, reward)
    PROVE  KnownPanics(switched, settled, paid)
<1>1. WorldShape(world) /\ Registry(world.info)
  BY DEF Inv
<1>2. switched.panic \in {NoPanic, "nil validator", "slice bounds"}
  <2>1. CASE ~EpochDue
    BY <2>1 DEF SwitchIfDue
  <2>2. CASE EpochDue
    <3> DEFINE pow == Head(EpochsAtCommit).power
               ended == endEpoch(world)
               powered == updateVotingPower(ended, pow)
               cleared == clearUp(powered)
    <3>1. /\ Head(EpochsAtCommit) \in Epoch
          /\ switched = SwitchEpoch(world, pow)
      BY <2>2 DEF EpochDue, SwitchIfDue, EpochsAtCommit, Inv
    <3>2. pow \in Nominations
      BY <3>1 DEF Epoch
    <3> HIDE DEF pow
    <3>3. ended.panic \in {NoPanic, "nil validator"}
      <4>1. \/ ended = [world EXCEPT !.panic = "nil validator"]
            \/ \E i, b : ended = [world EXCEPT !.info = i, !.balance = b]
        BY DEF endEpoch
      <4> QED
        BY <1>1, <4>1 DEF WorldShape
    <3>4. \/ switched = ended /\ ended.panic # NoPanic
          \/ ended.panic = NoPanic /\ switched = cleared
          \/ /\ ended.panic = NoPanic /\ cleared.panic = NoPanic
             /\ switched = AllocateRewards(cleared)
      <4> HIDE DEF ended, powered, cleared
      <4>1. switched
              = CASE ended.panic # NoPanic -> ended
                  [] ended.panic = NoPanic /\ cleared.panic # NoPanic -> cleared
                  [] OTHER -> AllocateRewards(cleared)
        BY <3>1 DEF SwitchEpoch, ended, powered, cleared
      <4> QED
        BY <4>1
    <3> HIDE DEF ended, powered, cleared
    <3>5. ASSUME ended.panic = NoPanic
          PROVE  /\ WorldShape(powered) /\ Registry(powered.info)
                 /\ powered.panic = NoPanic
      <4>1. WorldShape(ended) /\ Registry(ended.info)
        BY <1>1, <3>5, EndEpochRegistry DEF ended
      <4> QED
        BY <3>2, <3>5, <4>1, VotingPowerRegistry DEF powered
    <3>6. ASSUME ended.panic = NoPanic
          PROVE  cleared.panic \in {NoPanic, "slice bounds"}
      <4>1. \/ cleared = [powered EXCEPT !.panic = "slice bounds"]
            \/ \E v, b : cleared = [powered EXCEPT !.info.Validators = v,
                                                   !.balance = b]
        BY DEF clearUp, cleared
      <4> QED
        BY <3>5, <3>6, <4>1 DEF WorldShape
    <3>7. ASSUME ended.panic = NoPanic, cleared.panic = NoPanic
          PROVE  AllocateRewards(cleared).panic = NoPanic
      <4>1. WorldShape(cleared)
        BY <3>5, <3>7, ClearUpRegistry DEF cleared
      <4>2. \E p : AllocateRewards(cleared)
                     = [cleared EXCEPT !.info.PendingRewards = p]
        BY DEF AllocateRewards
      <4> QED
        BY <3>7, <4>1, <4>2 DEF WorldShape
    <3> QED
      BY <3>3, <3>4, <3>6, <3>7
  <2> QED
    BY <2>1, <2>2
<1>3. ASSUME switched.panic = NoPanic
      PROVE  WorldShape(settled) /\ settled.panic \in {NoPanic, "system balance"}
  <2> DEFINE slashed == SlashAll(switched)
  <2>1. WorldShape(switched)
    BY <1>3, SwitchIfDueCoins
  <2>2. WorldShape(slashed) /\ slashed.panic = NoPanic
    BY <1>3, <2>1, CoinsOnly
  <2> HIDE DEF slashed
  <2>3. settled = SettleSystemAcc(slashed)
    BY DEF slashed
  <2>4. WorldShape(settled)
    BY <2>2, <2>3, CoinsOnly
  <2>5. \/ settled = [slashed EXCEPT !.panic = "system balance"]
        \/ \E e : settled = [slashed EXCEPT !.balance = e]
    BY <2>3 DEF SettleSystemAcc
  <2> QED
    BY <2>2, <2>4, <2>5 DEF WorldShape
<1>4. ASSUME switched.panic = NoPanic, settled.panic = NoPanic
      PROVE  paid.panic \in {NoPanic, "nil validator"}
  <2>1. \/ paid = settled
        \/ paid = [settled EXCEPT !.panic = "nil validator"]
        \/ \E b, p : paid = [settled EXCEPT !.balance = b,
                                            !.info.PendingRewards = p]
    BY DEF PayBlockReward, DistributeFee
  <2> QED
    BY <1>3, <1>4, <2>1 DEF WorldShape
<1> QED
  BY <1>2, <1>3, <1>4 DEF KnownPanics

(* A world whose parts are in order is of the type of worlds.              *)
LEMMA WorldTyped ==
    ASSUME NEW w, WorldShape(w), Formed(w), Formed(w.info),
           Registry(w.info), Prices(w), Ledger(w),
           w.panic \in {NoPanic, "nil validator", "slice bounds",
                        "system balance"}
    PROVE  w \in World
<1>1. w.info \in StakingInfo
  BY DEF WorldShape, Formed, Registry, Ledger, StakingInfo
<1> QED
  BY <1>1 DEF World, WorldShape, Formed, Prices, Ledger

(* The type invariant, as an induction needs it.                           *)
TypeInv ==
    /\ TypeOK
    /\ Inv
    /\ IsFiniteSet(world.info.PendingRewards)

(* What it says of the world.                                              *)
LEMMA TypedWorld ==
    ASSUME TypeInv
    PROVE  Ledger(world) /\ Formed(world) /\ Formed(world.info)
<1>1. world \in World
  BY DEF TypeInv, TypeOK
<1>2. Ledger(world)
  BY <1>1 DEF World, StakingInfo, Ledger, TypeInv
<1>3. Formed(world) /\ Formed(world.info)
  BY <1>1 DEF World, StakingInfo, Formed
<1> QED
  BY <1>2, <1>3

(* Tendermint's validator sets, by their keys.                             *)
SetsTyped ==
    /\ DOMAIN tm = {"prev", "cur", "next"}
    /\ \A x \in DOMAIN tm : DOMAIN tm[x] \subseteq Pubkeys

(* Types at genesis.                                                       *)
LEMMA InitType == Init => TypeInv
<1> SUFFICES ASSUME Init
             PROVE  TypeInv
  OBVIOUS
<1>1. world = [info |-> GenesisInfo, balance |-> GenesisBalance,
               allBurnt |-> 0, minGasPrice |-> DefaultMinGasPrice,
               lastMinGasPrice |-> DefaultMinGasPrice, panic |-> NoPanic]
  BY DEF Init
<1>2. Inv
  BY InitInv
<1>3. world.info.PendingRewards = {} /\ IsFiniteSet(world.info.PendingRewards)
  BY <1>1, FS_EmptySet DEF GenesisInfo
<1>4. world \in World
  <2>1. 0 \in Coins
    BY WordAssumption DEF Coins
  <2>2. GenesisInfo \in StakingInfo
    BY GenesisAssumption DEF GenesisInfo, StakingInfo
  <2> QED
    BY <1>1, <2>1, <2>2, GenesisAssumption, GasPriceAssumption DEF World
<1>5. currValidators \subseteq Validator
  BY GenesisAssumption DEF Init, OnDuty, GenesisInfo
<1>6. SetsTyped
  <2> DEFINE active == OnDuty(GenesisInfo, MinimumStakingAmount)
             valset == ValidatorUpdates(active)
  <2>1. DOMAIN valset \subseteq Pubkeys
    BY GenesisAssumption DEF ValidatorUpdates, OnDuty, GenesisInfo, Validator
  <2>2. tm = [prev |-> <<>>, cur |-> valset, next |-> valset]
    BY DEF Init
  <2>3. DOMAIN <<>> \subseteq Pubkeys
    OBVIOUS
  <2> HIDE DEF valset
  <2> QED
    BY <2>1, <2>2, <2>3 DEF SetsTyped
<1>7. lastProposer \in Pubkeys
  BY PubkeysAssumption DEF Init
<1>8. /\ phase \in {"begin", "deliver", "commit"}
      /\ mtx \in BOOLEAN
      /\ block \in [Number : 0 .. MaxHeight, Timestamp : Nat]
      /\ lastCommitInfo \subseteq Pubkeys
      /\ slashValidators \in Seq(Pubkeys)
      /\ epochList \in Seq(Epoch)
      /\ lastGasFee \in Nat
      /\ lastGasRefund \in Nat
      /\ epochChan \in Seq(Epoch) /\ Len(epochChan) <= 1
      /\ sentEpochs \in 0 .. Len(Epochs)
      /\ sent \subseteq Txs
  <2>1. /\ phase = "begin" /\ mtx = FALSE /\ lastCommitInfo = {}
        /\ block = [Number |-> 0, Timestamp |-> 0]
        /\ slashValidators = <<>> /\ epochList = <<>> /\ epochChan = <<>>
        /\ lastGasFee = 0 /\ lastGasRefund = 0
        /\ sentEpochs = 0 /\ sent = {}
    BY DEF Init
  <2>2. block \in [Number : 0 .. MaxHeight, Timestamp : Nat]
    BY <2>1, BlocksAssumption
  <2>3. sentEpochs \in 0 .. Len(Epochs)
    BY <2>1, EpochsAssumption
  <2>4. /\ slashValidators \in Seq(Pubkeys) /\ epochList \in Seq(Epoch)
        /\ epochChan \in Seq(Epoch) /\ Len(epochChan) <= 1
    BY <2>1
  <2> QED
    BY <2>1, <2>2, <2>3, <2>4
<1>9. engine \in [collected : SUBSET Txs, standby : SUBSET Txs,
                  fee : Nat, refund : Nat]
  BY DEF Init
<1> QED
  BY <1>2, <1>3, <1>4, <1>5, <1>6, <1>7, <1>8, <1>9
     DEF TypeInv, TypeOK, SetsTyped

(* The last steps of a Commit do not panic.                                *)
LEMMA Refreshed ==
    ASSUME NEW paid, WorldShape(paid), paid.panic = NoPanic,
           NEW u, u = RefreshMinGasPrice(Prepare(paid))
    PROVE  u.panic = NoPanic /\ Formed(u)
<1>1. PICK d : Prepare(paid) = [paid EXCEPT !.balance = d]
  BY Zenon DEF Prepare
<1>2. WorldShape(Prepare(paid)) /\ Prepare(paid).panic = NoPanic
  BY <1>1 DEF WorldShape
<1>3. \E p : u = [Prepare(paid) EXCEPT !.lastMinGasPrice = p]
  BY DEF RefreshMinGasPrice
<1> QED
  BY <1>2, <1>3 DEF WorldShape, Formed

(* Types after a Commit.                                                   *)
LEMMA CommitType ==
    ASSUME TypeInv, Commit
    PROVE  TypeInv'
<1> DEFINE switched == SwitchIfDue(world)
           slashed == SlashAll(switched)
           settled == SettleSystemAcc(slashed)
           paid == PayBlockReward(settled, BlockReward(slashed))
           crash == IF switched.panic # NoPanic THEN switched.panic
                    ELSE IF settled.panic # NoPanic THEN settled.panic
                    ELSE paid.panic
<1>1. TypeOK /\ Inv /\ Ledger(world) /\ Formed(world) /\ Formed(world.info)
  BY TypedWorld DEF TypeInv
<1>2. Inv'
  BY <1>1, CommitInv
<1>3. world.panic = NoPanic
  BY DEF Commit, Running
<1>4. KnownPanics(switched, settled, paid)
  <2> DEFINE reward == BlockReward(slashed)
  <2>1. /\ switched = SwitchIfDue(world)
        /\ settled = SettleSystemAcc(SlashAll(switched))
        /\ paid = PayBlockReward(settled, reward)
    OBVIOUS
  <2> HIDE DEF switched, slashed, settled, paid, crash, reward
  <2>2. Inv /\ Ledger(world) /\ world.panic = NoPanic
    BY <1>1, <1>3
  <2> QED
    BY <2>1, <2>2, PanicKinds
<1> HIDE DEF switched, slashed, settled, paid
<1>5. crash \in {NoPanic, "nil validator", "slice bounds", "system balance"}
  BY <1>4 DEF KnownPanics
<1>6. CASE crash # NoPanic
  <2>1. /\ world' = [world EXCEPT !.panic = crash]
        /\ UNCHANGED <<phase, mtx, blockVars, dutyVars, feeVars,
                       watcherVars, engine, chainVars>>
    BY <1>6 DEF Commit, switched, slashed, settled, paid
  <2> HIDE DEF crash
  <2>2. world' \in World /\ world'.info = world.info
    BY <1>1, <1>5, <2>1 DEF TypeOK, World
  <2>3. TypeOK'
    BY <1>1, <2>1, <2>2
       DEF TypeOK, blockVars, dutyVars, feeVars, watcherVars, chainVars
  <2> QED
    BY <1>2, <2>2, <2>3 DEF TypeInv
<1>7. CASE crash = NoPanic
  <2>1. /\ switched.panic = NoPanic
        /\ settled.panic = NoPanic
        /\ paid.panic = NoPanic
    BY <1>4, <1>7 DEF KnownPanics
  <2>2. /\ world' = RefreshMinGasPrice(Prepare(paid))
        /\ currValidators' = ValidatorsAtCommit(switched)
        /\ epochChan' = <<>>
        /\ slashValidators' = <<>>
        /\ lastCommitInfo' = {}
        /\ engine' = [collected |-> {},
                      standby |-> engine.standby \cup Prepared(paid),
                      fee |-> 0, refund |-> 0]
        /\ mtx' = TRUE
        /\ phase' = "begin"
        /\ UNCHANGED <<block, lastProposer, feeVars, sentEpochs, chainVars>>
    BY <1>7 DEF Commit, switched, slashed, settled, paid
  <2> HIDE DEF crash
  <2>3. /\ engine.collected \subseteq Txs /\ engine.standby \subseteq Txs
        /\ slashValidators \in Seq(Pubkeys)
        /\ lastGasFee \in Nat /\ lastGasRefund \in Nat
        /\ currValidators \subseteq Validator
    BY <1>1 DEF TypeOK
  <2>4. /\ WorldShape(switched) /\ Registry(switched.info)
    BY <1>1, <1>3, <2>1, SwitchIfDueCoins DEF switched
  <2>5. /\ WorldShape(paid) /\ Ledger(world') /\ Formed(world'.info)
        /\ Prepared(paid) \subseteq engine.collected
    BY <1>1, <1>3, <2>1, <2>2, <2>3, CommitCoins
       DEF switched, slashed, settled, paid
  <2>6. world'.panic = NoPanic /\ Formed(world')
    BY <2>1, <2>2, <2>5, Refreshed
  <2>7. world' \in World
    <3>1. WorldShape(world') /\ Registry(world'.info) /\ Prices(world')
      BY <1>2 DEF Inv, Prices
    <3> QED
      BY <2>5, <2>6, <3>1, WorldTyped
  <2>8. currValidators' \subseteq Validator
    <3>1. \/ currValidators' = currValidators
          \/ currValidators'
               = GetActiveValidators(switched.info, MinimumStakingAmount)
      BY <2>2 DEF ValidatorsAtCommit
    <3>2. GetActiveValidators(switched.info, MinimumStakingAmount)
            \subseteq switched.info.Validators
      BY DEF GetActiveValidators, OnDuty
    <3> QED
      BY <2>3, <2>4, <3>1, <3>2 DEF Registry
  <2>9. engine' \in [collected : SUBSET Txs, standby : SUBSET Txs,
                     fee : Nat, refund : Nat]
    <3>1. engine.standby \cup Prepared(paid) \subseteq Txs
      BY <2>3, <2>5
    <3> QED
      BY <2>2, <3>1
  <2>10. /\ epochChan' \in Seq(Epoch) /\ Len(epochChan') <= 1
         /\ slashValidators' \in Seq(Pubkeys)
         /\ lastCommitInfo' \subseteq Pubkeys
    BY <2>2
  <2>11. epochList' \in Seq(Epoch)
    BY <1>2 DEF Inv
  <2>12. TypeOK'
    BY <1>1, <2>2, <2>7, <2>8, <2>9, <2>10, <2>11
       DEF TypeOK, feeVars, chainVars
  <2>13. IsFiniteSet(world'.info.PendingRewards)
    BY <2>5 DEF Ledger
  <2> QED
    BY <1>2, <2>12, <2>13 DEF TypeInv
<1> QED
  BY <1>6, <1>7

(* Types after a transaction.                                              *)
LEMMA ExecuteTxType ==
    ASSUME TypeInv, NEW tx \in Txs, ExecuteTx(tx)
    PROVE  TypeInv'
<1> DEFINE done == Execute(world, tx)
<1>1. TypeOK /\ Inv /\ Ledger(world) /\ Formed(world) /\ Formed(world.info)
  BY TypedWorld DEF TypeInv
<1>2. Inv'
  BY <1>1, ExecuteTxInv
<1>3. /\ world.panic = NoPanic
      /\ world' = [done EXCEPT !.balance[tx.From] = Add(@, tx.refund)]
      /\ engine' = [engine EXCEPT !.standby = @ \ {tx},
                                  !.fee = @ + tx.fee,
                                  !.refund = @ + tx.refund]
      /\ UNCHANGED <<phase, mtx, blockVars, dutyVars, feeVars, watcherVars,
                     chainVars>>
  BY DEF ExecuteTx, Running
<1>4. WorldShape(done) /\ done.panic = NoPanic
  BY <1>1, <1>3, TxsAssumption, ExecuteRegistry DEF Inv
<1>5. Ledger(world') /\ Formed(world'.info)
  <2>1. done = Execute(world, tx)
    OBVIOUS
  <2>2. WorldShape(world) /\ Registry(world.info) /\ Prices(world)
    BY <1>1 DEF Inv
  <2> HIDE DEF done
  <2>3. world' = Refunded(done, tx)
    BY <1>3 DEF Refunded
  <2> QED
    BY <1>1, <2>1, <2>2, <2>3, ExecuteTxCoins
<1> HIDE DEF done
<1>6. world'.panic = NoPanic /\ Formed(world')
  BY <1>3, <1>4 DEF WorldShape, Formed
<1>7. world' \in World
  BY <1>2, <1>5, <1>6, WorldTyped DEF Inv
<1>8. engine' \in [collected : SUBSET Txs, standby : SUBSET Txs,
                   fee : Nat, refund : Nat]
  <2>1. tx.fee \in Nat /\ tx.refund \in Nat
    BY TxsAssumption DEF StakingTx, Coins
  <2>2. engine \in [collected : SUBSET Txs, standby : SUBSET Txs,
                    fee : Nat, refund : Nat]
    BY <1>1 DEF TypeOK
  <2>3. /\ engine.fee + tx.fee \in Nat
        /\ engine.refund + tx.refund \in Nat
        /\ engine.standby \ {tx} \subseteq Txs
    BY <2>1, <2>2
  <2>4. engine' = [engine EXCEPT !.standby = engine.standby \ {tx},
                                 !.fee = engine.fee + tx.fee,
                                 !.refund = engine.refund + tx.refund]
    BY <1>3
  <2> QED
    BY <2>2, <2>3, <2>4
<1>9. TypeOK'
  BY <1>1, <1>3, <1>7, <1>8
     DEF TypeOK, blockVars, dutyVars, feeVars, watcherVars, chainVars
<1>10. IsFiniteSet(world'.info.PendingRewards)
  BY <1>5 DEF Ledger
<1> QED
  BY <1>2, <1>9, <1>10 DEF TypeInv

(* Types after any other step.                                             *)
LEMMA OtherStepType ==
    ASSUME TypeInv, [Next]_vars,
           ~Commit, \A tx \in Txs : ~ExecuteTx(tx)
    PROVE  TypeInv'
<1>1. TypeOK /\ Inv /\ IsFiniteSet(world.info.PendingRewards)
  BY DEF TypeInv
<1>2. Inv'
  BY <1>1, NextInv
<1>3. SUFFICES TypeOK' /\ world' = world
  BY <1>1, <1>2 DEF TypeInv
<1>4. CASE SendEpoch
  <2>1. /\ sentEpochs < Len(Epochs)
        /\ epochChan' = <<Epochs[sentEpochs + 1]>>
        /\ sentEpochs' = sentEpochs + 1
        /\ UNCHANGED <<world, phase, mtx, blockVars, dutyVars, feeVars,
                       engine, chainVars>>
    BY <1>4 DEF SendEpoch
  <2>2. sentEpochs' \in 0 .. Len(Epochs)
    BY <1>1, <2>1, EpochsAssumption DEF TypeOK
  <2>3. epochChan' \in Seq(Epoch) /\ Len(epochChan') <= 1
    BY <1>2, <2>1 DEF Inv
  <2> QED
    BY <1>1, <2>1, <2>2, <2>3
       DEF TypeOK, blockVars, dutyVars, feeVars, chainVars
<1>5. ASSUME NEW proposer \in DOMAIN tm.cur, NEW signers \in Commits(tm.prev),
             NEW evidence \in Evidences, BeginBlock(proposer, signers, evidence)
      PROVE  TypeOK' /\ world' = world
  <2>1. /\ block.Number < MaxHeight
        /\ block' = [Number |-> block.Number + 1,
                     Timestamp |-> block.Timestamp + 1]
        /\ lastProposer' = proposer
        /\ lastCommitInfo' = lastCommitInfo \cup signers
        /\ slashValidators' = slashValidators \o evidence
        /\ phase' = "deliver"
        /\ UNCHANGED <<world, mtx, dutyVars, feeVars, watcherVars, engine,
                       chainVars>>
    BY <1>5 DEF BeginBlock
  <2>2. block' \in [Number : 0 .. MaxHeight, Timestamp : Nat]
    BY <1>1, <2>1, BlocksAssumption DEF TypeOK
  <2>3. DOMAIN tm.cur \subseteq Pubkeys /\ DOMAIN tm.prev \subseteq Pubkeys
    BY <1>1 DEF TypeOK
  <2>4. signers \subseteq DOMAIN tm.prev
    BY <1>5 DEF Commits
  <2>5. lastProposer' \in Pubkeys /\ lastCommitInfo' \subseteq Pubkeys
    BY <1>1, <1>5, <2>1, <2>3, <2>4 DEF TypeOK
  <2>6. slashValidators' \in Seq(Pubkeys)
    <3>1. evidence \in Seq(Pubkeys) /\ slashValidators \in Seq(Pubkeys)
      BY <1>1, <1>5, BlocksAssumption DEF TypeOK
    <3> QED
      BY <2>1, <3>1
  <2> QED
    BY <1>1, <2>1, <2>2, <2>5, <2>6
       DEF TypeOK, dutyVars, feeVars, watcherVars, chainVars
<1>6. ASSUME NEW tx \in Txs \ sent, DeliverTx(tx)
      PROVE  TypeOK' /\ world' = world
  <2>1. /\ engine' = [engine EXCEPT !.collected = @ \cup {tx}]
        /\ sent' = sent \cup {tx}
        /\ UNCHANGED <<world, phase, mtx, blockVars, dutyVars, feeVars,
                       watcherVars, tm>>
    BY <1>6 DEF DeliverTx
  <2>2. engine' \in [collected : SUBSET Txs, standby : SUBSET Txs,
                     fee : Nat, refund : Nat]
    BY <1>1, <2>1 DEF TypeOK
  <2> QED
    BY <1>1, <2>1, <2>2
       DEF TypeOK, blockVars, dutyVars, feeVars, watcherVars
<1>7. CASE EndBlock
  <2> DEFINE ups == ValidatorUpdates(currValidators)
             merged == Updated(tm.next, ups)
  <2>1. /\ tm' = [prev |-> tm.cur, cur |-> tm.next, next |-> merged]
        /\ phase' = "commit"
        /\ UNCHANGED <<world, mtx, blockVars, dutyVars, feeVars, watcherVars,
                       engine, sent>>
    BY <1>7 DEF EndBlock
  <2>2. DOMAIN ups \subseteq Pubkeys
    BY <1>1 DEF TypeOK, ValidatorUpdates, Validator
  <2>3. /\ DOMAIN tm.cur \subseteq Pubkeys
        /\ DOMAIN tm.next \subseteq Pubkeys
    BY <1>1 DEF TypeOK
  <2> HIDE DEF ups
  <2>4. DOMAIN merged \subseteq Pubkeys
    BY <2>2, <2>3 DEF Updated
  <2> HIDE DEF merged
  <2>5. SetsTyped'
    BY <2>1, <2>3, <2>4 DEF SetsTyped
  <2> QED
    BY <1>1, <2>1, <2>5
       DEF TypeOK, SetsTyped, blockVars, dutyVars, feeVars, watcherVars
<1>8. CASE EndPostCommit
  <2>1. /\ lastGasFee' = engine.fee
        /\ lastGasRefund' = engine.refund
        /\ mtx' = FALSE
        /\ UNCHANGED <<world, phase, blockVars, dutyVars, watcherVars, engine,
                       chainVars>>
    BY <1>8 DEF EndPostCommit
  <2> QED
    BY <1>1, <2>1 DEF TypeOK, blockVars, dutyVars, watcherVars, chainVars
<1>9. CASE UNCHANGED vars
  BY <1>1, <1>9 DEF TypeOK, vars, blockVars, dutyVars, feeVars, watcherVars,
                    chainVars
<1> QED
  BY <1>4, <1>5, <1>6, <1>7, <1>8, <1>9 DEF Next

(* Every step keeps the types.                                             *)
LEMMA NextType ==
    ASSUME TypeInv, [Next]_vars
    PROVE  TypeInv'
<1>1. CASE Commit
  BY <1>1, CommitType
<1>2. CASE \E tx \in Txs : ExecuteTx(tx)
  BY <1>2, ExecuteTxType
<1>3. CASE ~Commit /\ \A tx \in Txs : ~ExecuteTx(tx)
  BY <1>3, OtherStepType
<1> QED
  BY <1>1, <1>2, <1>3

(* The types, with what they rest on, hold in every reachable state.       *)
THEOREM TypeInvHolds == Spec => []TypeInv
<1>1. Init => TypeInv
  BY InitType
<1>2. TypeInv /\ [Next]_vars => TypeInv'
  BY NextType
<1> QED
  BY <1>1, <1>2, PTL DEF Spec

(* Every variable of the application keeps its type: balances and rewards  *)
(* stay within a word, Commit panics for no other reason than those named, *)
(* EpochChan never holds two epochs, Tendermint's sets hold keys only.     *)
THEOREM TypeOKHolds == Spec => []TypeOK
<1>1. TypeInv => TypeOK
  BY DEF TypeInv
<1> QED
  BY <1>1, TypeInvHolds, PTL

-----------------------------------------------------------------------------
(* The money invariant. The gas refunded to senders since the last Commit  *)
(* is more than there was, until the next Commit takes it from the system  *)
(* account. Before the first Commit that account is empty, which matters   *)
(* because the first block pays no reward and the account is emptied.      *)
GasAccounts ==
    /\ ~mtx => lastGasFee = engine.fee /\ lastGasRefund = engine.refund
    /\ engine.fee = 0 => engine.refund = 0

Unspent ==
    /\ world.balance[SystemAddress] = 0
    /\ ~mtx
    /\ lastGasFee = 0 /\ lastGasRefund = 0
    /\ engine.standby = {} /\ engine.fee = 0 /\ engine.refund = 0

MoneyInv ==
    /\ TypeInv
    /\ Ordinary(world.info)
    /\ GasAccounts
    /\ block.Number = 0 => phase = "begin"
    /\ Fresh => Unspent
    /\ Same(SupplyOf(world.balance) - engine.refund, SupplyOf(GenesisBalance))

(* What there is to the types when coins are counted.                      *)
LEMMA CountedTypes ==
    ASSUME TypeInv
    PROVE  /\ Inv /\ Ledger(world)
           /\ engine.fee \in Nat /\ engine.refund \in Nat
           /\ engine.collected \subseteq Txs /\ engine.standby \subseteq Txs
           /\ lastGasFee \in Nat /\ lastGasRefund \in Nat
           /\ block.Number \in Nat
           /\ slashValidators \in Seq(Pubkeys)
           /\ SupplyOf(world.balance) \in Int
           /\ world.balance[SystemAddress] \in Coins
<1>1. Inv /\ Ledger(world)
  BY TypedWorld DEF TypeInv
<1>2. SupplyOf(world.balance) \in Int /\ world.balance[SystemAddress] \in Coins
  BY <1>1, SupplyIsInt, AddressAssumption DEF Ledger
<1> QED
  BY <1>1, <1>2 DEF TypeInv, TypeOK

(* At genesis the supply is what genesis.json allots.                      *)
LEMMA InitMoney ==
    ASSUME OrdinaryRewards, EmptySystemAcc, Init
    PROVE  MoneyInv
<1>1. TypeInv
  BY InitType
<1>2. /\ world.info.Validators = Genesis /\ world.balance = GenesisBalance
      /\ phase = "begin" /\ mtx = FALSE
      /\ lastGasFee = 0 /\ lastGasRefund = 0
      /\ engine.standby = {} /\ engine.fee = 0 /\ engine.refund = 0
  BY DEF Init, GenesisInfo
<1>3. Ordinary(world.info)
  BY <1>2 DEF Ordinary, OrdinaryRewards
<1>4. world.balance[SystemAddress] = 0
  BY <1>2 DEF EmptySystemAcc
<1>5. SupplyOf(world.balance) \in Int
  BY <1>1, CountedTypes
<1>6. SupplyOf(world.balance) - engine.refund = SupplyOf(world.balance)
  BY <1>2, <1>5
<1>7. Same(SupplyOf(world.balance), SupplyOf(GenesisBalance))
  BY <1>2, <1>5, SameRefl
<1> QED
  BY <1>1, <1>2, <1>3, <1>4, <1>6, <1>7 DEF MoneyInv, GasAccounts, Unspent

(* What a Commit finds: the refund it takes back is the one outstanding,   *)
(* and in the first block there is nothing to distribute.                  *)
LEMMA CommitFinds ==
    ASSUME MoneyInv, ~mtx, phase = "commit"
    PROVE  /\ RefundDue = engine.refund /\ lastGasFee = engine.fee
           /\ block.Number # 0
           /\ block.Number = 1 => Unspent
<1>1. /\ lastGasFee = engine.fee /\ lastGasRefund = engine.refund
      /\ engine.fee = 0 => engine.refund = 0
  BY DEF MoneyInv, GasAccounts
<1>2. RefundDue = engine.refund
  BY <1>1 DEF RefundDue
<1>3. block.Number # 0 /\ (block.Number = 1 => Unspent)
  BY DEF MoneyInv, Fresh
<1> QED
  BY <1>1, <1>2, <1>3

(* The cases of a Commit, and what the one that does not panic does.       *)
LEMMA CommitMoney ==
    ASSUME MoneyInv, Commit
    PROVE  /\ ~mtx /\ phase = "commit"
           /\ \/ /\ \E p : world' = [world EXCEPT !.panic = p]
                 /\ UNCHANGED <<phase, mtx, blockVars, feeVars, engine, sent>>
              \/ /\ mtx' /\ phase' = "begin"
                 /\ UNCHANGED <<block, feeVars, sent>>
                 /\ engine'.fee = 0 /\ engine'.refund = 0
                 /\ Ordinary(world'.info)
                 /\ Same(SupplyOf(world'.balance),
                         SupplyOf(world.balance) - engine.refund)
<1> DEFINE switched == SwitchIfDue(world)
           slashed == SlashAll(switched)
           settled == SettleSystemAcc(slashed)
           paid == PayBlockReward(settled, BlockReward(slashed))
           crash == IF switched.panic # NoPanic THEN switched.panic
                    ELSE IF settled.panic # NoPanic THEN settled.panic
                    ELSE paid.panic
<1>1. /\ Inv /\ Ledger(world)
      /\ engine.refund \in Nat /\ engine.collected \subseteq Txs
      /\ lastGasFee \in Nat /\ lastGasRefund \in Nat
      /\ slashValidators \in Seq(Pubkeys)
  BY CountedTypes DEF MoneyInv
<1>2. ~mtx /\ phase = "commit" /\ world.panic = NoPanic
  BY DEF Commit, Running
<1>3. /\ RefundDue = engine.refund
      /\ block.Number = 1 => Unspent
  BY <1>2, CommitFinds
<1>4. CASE crash # NoPanic
  <2>1. /\ world' = [world EXCEPT !.panic = crash]
        /\ UNCHANGED <<phase, mtx, blockVars, dutyVars, feeVars,
                       watcherVars, engine, chainVars>>
    BY <1>4 DEF Commit
  <2> HIDE DEF crash
  <2> QED
    BY <1>2, <2>1 DEF chainVars
<1>5. CASE crash = NoPanic
  <2>1. /\ world' = RefreshMinGasPrice(Prepare(paid))
        /\ engine' = [collected |-> {},
                      standby |-> engine.standby \cup Prepared(paid),
                      fee |-> 0, refund |-> 0]
        /\ mtx' = TRUE
        /\ phase' = "begin"
        /\ UNCHANGED <<block, lastProposer, feeVars, sentEpochs, chainVars>>
    BY <1>5 DEF Commit
  <2>2. /\ switched.panic = NoPanic
        /\ settled.panic = NoPanic
        /\ paid.panic = NoPanic
    <3> HIDE DEF switched, slashed, settled, paid
    <3> QED
      BY <1>5
  <2> HIDE DEF crash
  <2>3. /\ switched = SwitchIfDue(world) /\ slashed = SlashAll(switched)
        /\ settled = SettleSystemAcc(slashed)
        /\ paid = PayBlockReward(settled, BlockReward(slashed))
    OBVIOUS
  <2> HIDE DEF switched, slashed, settled, paid
  <2>4. Ordinary(world.info)
    BY DEF MoneyInv
  <2>5. /\ BlockReward(slashed) \in Coins
        /\ Ordinary(world'.info)
        /\ slashed.balance[SystemAddress] = world.balance[SystemAddress]
        /\ (block.Number = 1 => BlockReward(slashed) = 0)
             => Same(SupplyOf(world'.balance),
                     SupplyOf(world.balance) - RefundDue)
    BY <1>1, <1>2, <2>1, <2>2, <2>3, <2>4, CommitCoins
  <2>6. block.Number = 1 => BlockReward(slashed) = 0
    BY <1>3, <2>5 DEF Unspent, BlockReward
  <2>7. Same(SupplyOf(world'.balance), SupplyOf(world.balance) - engine.refund)
    BY <1>3, <2>5, <2>6
  <2> QED
    BY <1>2, <2>1, <2>5, <2>7 DEF chainVars
<1> QED
  BY <1>4, <1>5

(* What the other steps leave alone. A block is begun, ended or received   *)
(* without a coin being moved.                                             *)
LEMMA OtherStepMoney ==
    ASSUME MoneyInv, [Next]_vars,
           ~Commit, \A tx \in Txs : ~ExecuteTx(tx)
    PROVE  /\ world' = world
           /\ engine'.fee = engine.fee /\ engine'.refund = engine.refund
           /\ engine'.standby = engine.standby
           /\ \/ UNCHANGED <<mtx, lastGasFee, lastGasRefund>>
              \/ /\ mtx /\ ~mtx' /\ UNCHANGED <<block, phase>>
                 /\ lastGasFee' = engine.fee /\ lastGasRefund' = engine.refund
           /\ block'.Number = 0 => phase' = "begin"
           /\ Fresh' => Fresh
<1>1. block.Number \in Nat /\ (block.Number = 0 => phase = "begin")
  BY CountedTypes DEF MoneyInv
<1>2. CASE SendEpoch
  BY <1>1, <1>2 DEF SendEpoch, blockVars, feeVars, Fresh
<1>3. ASSUME NEW proposer \in DOMAIN tm.cur, NEW signers \in Commits(tm.prev),
             NEW evidence \in Evidences, BeginBlock(proposer, signers, evidence)
      PROVE  /\ UNCHANGED <<world, engine, mtx, lastGasFee, lastGasRefund>>
             /\ block'.Number # 0
             /\ Fresh' => Fresh
  <2>1. /\ block' = [Number |-> block.Number + 1,
                     Timestamp |-> block.Timestamp + 1]
        /\ UNCHANGED <<world, mtx, feeVars, engine>>
    BY <1>3 DEF BeginBlock
  <2>2. block'.Number = block.Number + 1
    BY <2>1
  <2> QED
    BY <1>1, <2>1, <2>2 DEF feeVars, Fresh
<1>4. ASSUME NEW tx \in Txs \ sent, DeliverTx(tx)
      PROVE  /\ UNCHANGED <<world, phase, mtx, block, lastGasFee, lastGasRefund>>
             /\ engine'.fee = engine.fee /\ engine'.refund = engine.refund
             /\ engine'.standby = engine.standby
  <2>1. engine \in [collected : SUBSET Txs, standby : SUBSET Txs,
                    fee : Nat, refund : Nat]
    BY DEF MoneyInv, TypeInv, TypeOK
  <2> QED
    BY <1>4, <2>1 DEF DeliverTx, blockVars, feeVars
<1>5. CASE EndBlock
  <2>1. /\ phase = "deliver" /\ phase' = "commit"
        /\ UNCHANGED <<world, mtx, blockVars, feeVars, engine>>
    BY <1>5 DEF EndBlock
  <2> QED
    BY <1>1, <2>1 DEF blockVars, feeVars, Fresh
<1>6. CASE EndPostCommit
  BY <1>1, <1>6 DEF EndPostCommit, blockVars, Fresh
<1>7. CASE UNCHANGED vars
  BY <1>1, <1>7 DEF vars, blockVars, feeVars, Fresh
<1>8. ASSUME NEW tx \in Txs \ sent, DeliverTx(tx)
      PROVE  /\ block'.Number = 0 => phase' = "begin"
             /\ Fresh' => Fresh
  BY <1>1, <1>4, <1>8 DEF Fresh
<1> QED
  BY <1>2, <1>3, <1>4, <1>5, <1>6, <1>7, <1>8 DEF Next

(* Every step keeps the supply.                                            *)
LEMMA NextMoney ==
    ASSUME OrdinaryRewards, MoneyInv, [Next]_vars
    PROVE  MoneyInv'
<1>1. TypeInv /\ TypeInv'
  BY NextType DEF MoneyInv
<1>2. /\ Inv /\ Ledger(world)
      /\ engine.fee \in Nat /\ engine.refund \in Nat
      /\ block.Number \in Nat
      /\ SupplyOf(world.balance) \in Int
  BY <1>1, CountedTypes
<1>3. /\ Ordinary(world.info) /\ GasAccounts
      /\ block.Number = 0 => phase = "begin"
      /\ Fresh => Unspent
      /\ Same(SupplyOf(world.balance) - engine.refund,
              SupplyOf(GenesisBalance))
  BY DEF MoneyInv
<1>4. CASE Commit
  <2>1. CASE /\ \E p : world' = [world EXCEPT !.panic = p]
             /\ UNCHANGED <<phase, mtx, blockVars, feeVars, engine, sent>>
    <3>1. world'.info = world.info /\ world'.balance = world.balance
      BY <1>2, <2>1 DEF Inv, WorldShape
    <3>2. GasAccounts' /\ (Fresh' => Unspent')
      BY <1>3, <2>1, <3>1 DEF GasAccounts, Fresh, Unspent, blockVars, feeVars
    <3> QED
      BY <1>1, <1>3, <2>1, <3>1, <3>2 DEF MoneyInv, blockVars
  <2>2. CASE /\ mtx' /\ phase' = "begin"
             /\ UNCHANGED <<block, feeVars, sent>>
             /\ engine'.fee = 0 /\ engine'.refund = 0
             /\ Ordinary(world'.info)
             /\ Same(SupplyOf(world'.balance),
                     SupplyOf(world.balance) - engine.refund)
    <3>1. block.Number # 0
      BY <1>4, CommitMoney, CommitFinds
    <3>2. GasAccounts' /\ ~Fresh'
      BY <2>2, <3>1 DEF GasAccounts, Fresh
    <3>3. SupplyOf(world'.balance) - engine'.refund = SupplyOf(world'.balance)
      BY <2>2 DEF Same, SameMod
    <3>4. Same(SupplyOf(world'.balance), SupplyOf(GenesisBalance))
      BY <1>3, <2>2, SameTrans
    <3> QED
      BY <1>1, <2>2, <3>1, <3>2, <3>3, <3>4 DEF MoneyInv
  <2> QED
    BY <1>4, <2>1, <2>2, CommitMoney
<1>5. ASSUME NEW tx \in Txs, ExecuteTx(tx)
      PROVE  MoneyInv'
  <2>1. /\ mtx /\ UNCHANGED <<phase, mtx, blockVars, feeVars>>
        /\ world' = Refunded(Execute(world, tx), tx)
        /\ engine' = [engine EXCEPT !.standby = @ \ {tx},
                                    !.fee = @ + tx.fee,
                                    !.refund = @ + tx.refund]
    BY <1>5 DEF ExecuteTx, Refunded
  <2>2. engine \in [collected : SUBSET Txs, standby : SUBSET Txs,
                    fee : Nat, refund : Nat]
    BY <1>1 DEF TypeInv, TypeOK
  <2>3. /\ engine'.fee = engine.fee + tx.fee
        /\ engine'.refund = engine.refund + tx.refund
    BY <2>1, <2>2
  <2>4. /\ tx.fee \in Nat /\ tx.refund \in Nat
        /\ tx.fee = 0 => tx.refund = 0
        /\ tx.RewardTo \notin ReservedAccounts
    BY TxsAssumption DEF StakingTx, Coins, OrdinaryRewards
  <2>5. /\ Ordinary(world'.info)
        /\ Same(SupplyOf(world'.balance), SupplyOf(world.balance) + tx.refund)
    <3>1. WorldShape(world) /\ Registry(world.info) /\ Prices(world)
      BY <1>2 DEF Inv
    <3> QED
      BY <1>2, <1>3, <2>1, <2>4, <3>1, ExecuteTxCoins
  <2>6. GasAccounts'
    BY <1>2, <1>3, <2>1, <2>3, <2>4 DEF GasAccounts
  <2>7. ~Fresh /\ ~Fresh'
    BY <1>3, <2>1 DEF Fresh, Unspent, blockVars
  <2>8. Same(SupplyOf(world'.balance) - engine'.refund,
             SupplyOf(GenesisBalance))
    <3> DEFINE before == SupplyOf(world.balance)
               after == SupplyOf(world'.balance)
    <3>1. Same(after, before + tx.refund) /\ before \in Int
      BY <1>2, <2>5
    <3> HIDE DEF before, after
    <3>2. /\ after \in Int
          /\ Same(after - engine'.refund, (before + tx.refund) - engine'.refund)
      <4>1. engine'.refund \in Int
        BY <1>2, <2>3, <2>4
      <4> QED
        BY <3>1, <4>1, SameShift
    <3>3. (before + tx.refund) - engine'.refund = before - engine.refund
      BY <1>2, <2>3, <2>4, <3>1
    <3> QED
      BY <1>3, <3>2, <3>3, SameTrans DEF before, after
  <2> QED
    BY <1>1, <1>3, <2>1, <2>5, <2>6, <2>7, <2>8 DEF MoneyInv, blockVars
<1>6. CASE ~Commit /\ \A tx \in Txs : ~ExecuteTx(tx)
  <2>1. /\ world' = world
        /\ engine'.fee = engine.fee /\ engine'.refund = engine.refund
        /\ engine'.standby = engine.standby
        /\ \/ UNCHANGED <<mtx, lastGasFee, lastGasRefund>>
           \/ /\ mtx /\ ~mtx' /\ UNCHANGED <<block, phase>>
              /\ lastGasFee' = engine.fee /\ lastGasRefund' = engine.refund
        /\ block'.Number = 0 => phase' = "begin"
        /\ Fresh' => Fresh
    BY <1>6, OtherStepMoney
  <2>2. GasAccounts'
    BY <1>3, <2>1 DEF GasAccounts
  <2>3. Fresh' => Unspent'
    BY <1>3, <2>1 DEF Unspent
  <2> QED
    BY <1>1, <1>3, <2>1, <2>2, <2>3 DEF MoneyInv
<1> QED
  BY <1>4, <1>5, <1>6

(* The money invariant holds in every reachable state.                     *)
THEOREM MoneyInvHolds ==
    ASSUME OrdinaryRewards, EmptySystemAcc
    PROVE  Spec => []MoneyInv
<1>1. Init => MoneyInv
  BY InitMoney
<1>2. MoneyInv /\ [Next]_vars => MoneyInv'
  BY NextMoney
<1> QED
  BY <1>1, <1>2, PTL DEF Spec

(* No coin is made or destroyed: over all accounts together, staking, fees *)
(* and their distribution, matured rewards, stakes paid back, slashing and *)
(* burning cancel out, up to the refunds that the next Commit settles.     *)
THEOREM SupplyConservedHolds ==
    ASSUME OrdinaryRewards, EmptySystemAcc
    PROVE  Spec => []SupplyConserved
<1>1. MoneyInv => SupplyConserved
  <2>1. SUFFICES ASSUME MoneyInv
                 PROVE  SupplyConserved
    OBVIOUS
  <2>2. UnsettledRefund = engine.refund
    BY <2>1 DEF MoneyInv, GasAccounts, UnsettledRefund
  <2>3. Same(SupplyOf(world.balance) - UnsettledRefund,
             SupplyOf(GenesisBalance))
    BY <2>1, <2>2 DEF MoneyInv
  <2> QED
    BY <2>3, SameModEqual, WordAssumption DEF Same, SupplyConserved
<1> QED
  BY <1>1, MoneyInvHolds, PTL

-----------------------------------------------------------------------------
(* What the contract owes and what it holds, over a step. Nothing is       *)
(* supposed of genesis.json or of the rewards' receivers here: a payment   *)
(* to the contract itself is overwritten and taken off its balance alike.  *)
(* A Commit that does not panic settles a block; one that does changes     *)
(* nothing but the panic.                                                  *)
LEMMA CommitDebt ==
    ASSUME TypeInv, Commit
    PROVE  \/ mtx' = mtx /\ Debt(world') = Debt(world)
           \/ /\ ~mtx /\ mtx'
              /\ slashValidators = <<>>
                    => DebtGrows(world, world', StakeOf(PaidAndKept))
<1> DEFINE switched == SwitchIfDue(world)
           slashed == SlashAll(switched)
           settled == SettleSystemAcc(slashed)
           paid == PayBlockReward(settled, BlockReward(slashed))
           crash == IF switched.panic # NoPanic THEN switched.panic
                    ELSE IF settled.panic # NoPanic THEN settled.panic
                    ELSE paid.panic
<1>1. /\ Inv /\ Ledger(world) /\ engine.collected \subseteq Txs
      /\ lastGasFee \in Nat /\ lastGasRefund \in Nat
      /\ slashValidators \in Seq(Pubkeys)
  BY CountedTypes
<1>2. ~mtx /\ world.panic = NoPanic
  BY DEF Commit, Running
<1>3. CASE crash # NoPanic
  <2>1. world' = [world EXCEPT !.panic = crash] /\ mtx' = mtx
    BY <1>3 DEF Commit
  <2> HIDE DEF crash
  <2>2. world'.info = world.info /\ world'.balance = world.balance
    BY <1>1, <2>1 DEF Inv, WorldShape
  <2> QED
    BY <2>1, <2>2 DEF Debt
<1>4. CASE crash = NoPanic
  <2>1. world' = RefreshMinGasPrice(Prepare(paid)) /\ mtx'
    BY <1>4 DEF Commit
  <2>2. /\ switched.panic = NoPanic
        /\ settled.panic = NoPanic
        /\ paid.panic = NoPanic
    <3> HIDE DEF switched, slashed, settled, paid
    <3> QED
      BY <1>4
  <2> HIDE DEF crash
  <2>3. /\ switched = SwitchIfDue(world) /\ slashed = SlashAll(switched)
        /\ settled = SettleSystemAcc(slashed)
        /\ paid = PayBlockReward(settled, BlockReward(slashed))
    OBVIOUS
  <2> HIDE DEF switched, slashed, settled, paid
  <2>4. slashValidators = <<>>
          => DebtGrows(world, world', StakeOf(PaidAndKept))
    BY <1>1, <1>2, <2>1, <2>2, <2>3, CommitCoins
  <2> QED
    BY <1>2, <2>1, <2>4
<1> QED
  BY <1>3, <1>4

(* Whatever happens, the contract takes in what it comes to owe and gives  *)
(* out what it ceases to owe: registrations, edits, fees and their shares, *)
(* matured rewards, epoch switches and removals. Two things add to its     *)
(* debt, and no third: the stakes that clearUp pays back and fails to take *)
(* off the list, by exactly their amount, and a Commit that slashes.       *)
THEOREM DebtSettledHolds == Spec => DebtSettled
<1>1. ASSUME TypeInv, Next
      PROVE  DebtMoves
  <2>1. WorldShape(world) /\ Registry(world.info) /\ Ledger(world)
    BY <1>1, CountedTypes DEF Inv
  <2>2. Debt(world) \in Int
    BY <2>1, OwedIsInt, AddressAssumption DEF Debt, Owed, Ledger, Coins
  <2>3. ASSUME ~(~mtx /\ mtx'), Same(Debt(world'), Debt(world))
        PROVE  DebtMoves
    <3>1. Debt(world') % Word = Debt(world) % Word
      BY <2>3, SameModEqual, WordAssumption DEF Same
    <3>2. Debt(world) + 0 = Debt(world)
      BY <2>2
    <3> QED
      BY <2>3, <3>1, <3>2, Zenon DEF DebtMoves
  <2>4. CASE Commit
    <3>1. CASE mtx' = mtx /\ Debt(world') = Debt(world)
      BY <2>2, <2>3, <3>1, SameRefl
    <3>2. CASE /\ ~mtx /\ mtx'
               /\ slashValidators = <<>>
                     => DebtGrows(world, world', StakeOf(PaidAndKept))
      <4>1. slashValidators = <<>> =>
              Debt(world') % Word = (Debt(world) + StakeOf(PaidAndKept)) % Word
        BY <3>2, SameModEqual, WordAssumption DEF DebtGrows, Same
      <4> QED
        BY <3>2, <4>1, Zenon DEF DebtMoves
    <3> QED
      BY <1>1, <2>4, <3>1, <3>2, CommitDebt
  <2>5. ASSUME NEW tx \in Txs, ExecuteTx(tx)
        PROVE  DebtMoves
    <3>1. world' = Refunded(Execute(world, tx), tx) /\ mtx' = mtx
      BY <2>5 DEF ExecuteTx, Refunded
    <3>2. Prices(world)
      BY <1>1, CountedTypes DEF Inv
    <3>3. DebtKept(world, world')
      BY <2>1, <3>1, <3>2, ExecuteTxCoins
    <3> QED
      BY <2>3, <3>1, <3>3 DEF DebtKept
  <2>6. CASE ~Commit /\ \A tx \in Txs : ~ExecuteTx(tx)
    <3>1. world' = world /\ ~(~mtx /\ mtx')
      BY <1>1, <2>6
         DEF Next, SendEpoch, BeginBlock, DeliverTx, EndBlock, EndPostCommit
    <3> QED
      BY <2>2, <2>3, <3>1, SameRefl
  <2> QED
    BY <2>4, <2>5, <2>6
<1>2. TypeInv /\ [Next]_vars => [DebtMoves]_vars
  BY <1>1
<1> QED
  BY <1>2, TypeInvHolds, PTL DEF Spec, DebtSettled

-----------------------------------------------------------------------------
(* The system account. A transaction waits in one place only: delivered    *)
(* and not yet charged, or charged and not yet executed.                   *)
WaitOnce ==
    /\ engine.collected \cup engine.standby \subseteq sent
    /\ engine.collected \cap engine.standby = {}

CoverInv == MoneyInv /\ WaitOnce /\ SystemAccCovers

(* Two groups of transactions that have nothing in common: the gas of both *)
(* is a word.                                                              *)
LEMMA GasOfBoth ==
    ASSUME PayableGas, NEW A, A \subseteq Txs, NEW B, B \subseteq Txs,
           A \cap B = {}
    PROVE  /\ Gas(A) \in Nat /\ Gas(B) \in Nat
           /\ Gas(A \cup B) = Gas(A) + Gas(B)
           /\ Gas(A \cup B) < Word
<1>1. A \cup B \subseteq Txs
  OBVIOUS
<1>2. /\ IsFiniteSet(A) /\ IsFiniteSet(B) /\ Integral(gas, A \cup B)
      /\ Gas(A) \in Nat /\ Gas(A) = SumFunctionOnSet(gas, A)
      /\ Gas(B) \in Nat /\ Gas(B) = SumFunctionOnSet(gas, B)
      /\ Gas(A \cup B) = SumFunctionOnSet(gas, A \cup B)
      /\ Gas(Txs) = SumFunctionOnSet(gas, Txs)
  BY <1>1, GasSum
<1>3. Gas(A \cup B) = Gas(A) + Gas(B)
  BY <1>2, SumUnion
<1>4. \A tx \in Txs : gas[tx] \in Nat
  BY TxsAssumption DEF gas, StakingTx, Coins
<1>5. SumFunctionOnSet(gas, A \cup B) <= SumFunctionOnSet(gas, Txs)
  BY <1>1, <1>4, SumMonotonic, TxsAssumption
<1>6. Gas(Txs) < Word /\ Gas(Txs) \in Nat
  BY GasSum DEF PayableGas
<1> QED
  BY <1>2, <1>3, <1>5, <1>6, WordAssumption

(* The account holds nothing at genesis and nobody waits.                  *)
LEMMA InitCover ==
    ASSUME OrdinaryRewards, EmptySystemAcc, Init
    PROVE  CoverInv
<1>1. MoneyInv
  BY InitMoney
<1>2. /\ world.panic = NoPanic /\ world.balance = GenesisBalance
      /\ engine.collected = {} /\ engine.standby = {}
      /\ engine.fee = 0 /\ engine.refund = 0
  BY DEF Init
<1>3. world.balance[SystemAddress] = 0
  BY <1>2 DEF EmptySystemAcc
<1>4. Gas({}) = 0
  <2>1. Gas({}) = SumFunctionOnSet(gas, {})
    BY GasSum
  <2> QED
    BY <2>1, SumEmpty
<1>5. SystemAccCovers
  BY <1>2, <1>3, <1>4 DEF SystemAccCovers, NoPanic
<1> QED
  BY <1>1, <1>2, <1>5 DEF CoverInv, WaitOnce

(* A Commit finds enough in the account.                                   *)
LEMMA SettleCovered ==
    ASSUME CoverInv, ~mtx, phase = "commit", world.panic = NoPanic,
           NEW switched, switched = SwitchIfDue(world),
           switched.panic = NoPanic,
           NEW slashed, slashed = SlashAll(switched),
           NEW settled, settled = SettleSystemAcc(slashed)
    PROVE  /\ settled.panic = NoPanic
           /\ slashed.balance[SystemAddress] = world.balance[SystemAddress]
<1>1. /\ Inv /\ Ledger(world) /\ Ordinary(world.info)
      /\ engine.fee \in Nat /\ engine.refund \in Nat
      /\ slashValidators \in Seq(Pubkeys)
      /\ RefundDue = engine.refund /\ lastGasFee = engine.fee
      /\ engine.standby \subseteq Txs
  BY CountedTypes, CommitFinds DEF CoverInv, MoneyInv
<1>2. /\ Gas(engine.standby) \in Nat
      /\ world.balance[SystemAddress]
           = Gas(engine.standby) + engine.fee + engine.refund
  BY <1>1, GasSum DEF CoverInv, SystemAccCovers
<1>3. /\ WorldShape(switched) /\ Registry(switched.info) /\ Ledger(switched)
      /\ Conserves(world, switched)
  BY <1>1, SwitchIfDueCoins
<1>4. WorldShape(slashed) /\ slashed.panic = NoPanic
  BY <1>3, CoinsOnly
<1>5. Conserves(switched, slashed)
  BY <1>1, <1>3, SlashAllCoins DEF Conserves
<1>6. slashed.balance[SystemAddress] = world.balance[SystemAddress]
  BY <1>3, <1>5 DEF Conserves
<1>7. ~(slashed.balance[SystemAddress] < RefundDue + lastGasFee)
  BY <1>1, <1>2, <1>6
<1>8. \E e : settled = [slashed EXCEPT !.balance = e]
  BY <1>7 DEF SettleSystemAcc
<1> QED
  BY <1>4, <1>6, <1>8 DEF WorldShape

(* A Commit takes the last block's fees and refunds out of the account and *)
(* puts the gas of this block in.                                          *)
LEMMA CommitCover ==
    ASSUME OrdinaryRewards, PayableGas, CoverInv, Commit
    PROVE  WaitOnce' /\ SystemAccCovers'
<1> DEFINE switched == SwitchIfDue(world)
           slashed == SlashAll(switched)
           settled == SettleSystemAcc(slashed)
           paid == PayBlockReward(settled, BlockReward(slashed))
           crash == IF switched.panic # NoPanic THEN switched.panic
                    ELSE IF settled.panic # NoPanic THEN settled.panic
                    ELSE paid.panic
           sys == world.balance[SystemAddress]
<1>1. MoneyInv /\ WaitOnce /\ SystemAccCovers /\ TypeInv
  BY DEF CoverInv, MoneyInv
<1>2. /\ Inv /\ Ledger(world)
      /\ engine.fee \in Nat /\ engine.refund \in Nat
      /\ engine.collected \subseteq Txs /\ engine.standby \subseteq Txs
      /\ lastGasFee \in Nat /\ lastGasRefund \in Nat
      /\ slashValidators \in Seq(Pubkeys)
      /\ sys \in Coins
  BY <1>1, CountedTypes
<1>3. /\ ~mtx /\ phase = "commit" /\ world.panic = NoPanic
      /\ RefundDue = engine.refund /\ lastGasFee = engine.fee
      /\ Ordinary(world.info)
  BY <1>1, CommitFinds DEF Commit, Running, MoneyInv
<1>4. /\ Gas(engine.standby) \in Nat
      /\ sys = Gas(engine.standby) + engine.fee + engine.refund
  BY <1>1, <1>2, GasSum DEF SystemAccCovers
<1>5. /\ switched = SwitchIfDue(world) /\ slashed = SlashAll(switched)
      /\ settled = SettleSystemAcc(slashed)
      /\ paid = PayBlockReward(settled, BlockReward(slashed))
  OBVIOUS
<1>6. ASSUME switched.panic = NoPanic
      PROVE  /\ settled.panic = NoPanic
             /\ slashed.balance[SystemAddress] = sys
  <2> HIDE DEF switched, slashed, settled, paid, crash
  <2> QED
    BY <1>3, <1>5, <1>6, SettleCovered
<1>7. CASE crash # NoPanic
  <2>1. /\ world' = [world EXCEPT !.panic = crash]
        /\ UNCHANGED <<engine, chainVars>>
    BY <1>7 DEF Commit
  <2>2. KnownPanics(switched, settled, paid)
    <3> DEFINE reward == BlockReward(slashed)
    <3>1. settled = SettleSystemAcc(SlashAll(switched))
      OBVIOUS
    <3>2. paid = PayBlockReward(settled, reward)
      OBVIOUS
    <3> HIDE DEF switched, slashed, settled, paid, crash, reward
    <3> QED
      BY <1>2, <1>3, <1>5, <3>1, <3>2, PanicKinds
  <2>3. crash # "system balance"
    <3> HIDE DEF switched, slashed, settled, paid
    <3> QED
      BY <1>6, <2>2 DEF KnownPanics, NoPanic
  <2> HIDE DEF crash
  <2>4. world'.balance = world.balance /\ world'.panic = crash
    BY <1>2, <2>1 DEF Inv, WorldShape
  <2> QED
    BY <1>1, <2>1, <2>3, <2>4 DEF WaitOnce, SystemAccCovers, chainVars
<1>8. CASE crash = NoPanic
  <2>1. /\ world' = RefreshMinGasPrice(Prepare(paid))
        /\ engine' = [collected |-> {},
                      standby |-> engine.standby \cup Prepared(paid),
                      fee |-> 0, refund |-> 0]
        /\ UNCHANGED chainVars
    BY <1>8 DEF Commit
  <2>2. /\ switched.panic = NoPanic
        /\ settled.panic = NoPanic
        /\ paid.panic = NoPanic
    <3> HIDE DEF switched, slashed, settled, paid
    <3> QED
      BY <1>8
  <2> HIDE DEF crash, switched, slashed, settled, paid, sys
  <2> DEFINE charged == Prepared(paid)
             reward == BlockReward(slashed)
  <2>3. /\ charged \subseteq engine.collected
        /\ reward \in Coins
        /\ world'.balance[SystemAddress]
             = Add(sys - (RefundDue + reward), Gas(charged))
    BY <1>2, <1>3, <1>5, <2>1, <2>2, CommitCoins DEF sys
  <2>4. engine'.standby = engine.standby \cup charged
    BY <2>1
  <2>5. WaitOnce'
    BY <1>1, <2>1, <2>3 DEF WaitOnce, chainVars
  <2>6. /\ Gas(charged) \in Nat
        /\ Gas(engine.standby \cup charged) = Gas(engine.standby) + Gas(charged)
        /\ Gas(engine.standby \cup charged) < Word
    <3>1. engine.standby \cap charged = {} /\ charged \subseteq Txs
      BY <1>1, <1>2, <2>3 DEF WaitOnce
    <3> QED
      BY <1>2, <3>1, GasOfBoth
  <2>7. sys - (RefundDue + reward) = Gas(engine.standby)
    <3>1. CASE engine.standby # {}
      <4>1. reward = engine.fee
        BY <1>3, <3>1 DEF BlockReward
      <4> QED
        BY <1>2, <1>3, <1>4, <4>1
    <3>2. CASE engine.standby = {}
      <4>1. reward = sys - engine.refund
        BY <1>3, <1>6, <2>2, <3>2 DEF BlockReward
      <4>2. Gas({}) = 0
        <5>1. Gas({}) = SumFunctionOnSet(gas, {})
          BY GasSum
        <5> QED
          BY <5>1, SumEmpty
      <4>3. Gas(engine.standby) = 0
        BY <3>2, <4>2
      <4>4. sys \in Int
        BY <1>2, <1>4
      <4> QED
        BY <1>2, <1>3, <4>1, <4>3, <4>4
    <3> QED
      BY <3>1, <3>2
  <2> HIDE DEF charged, reward
  <2>8. Add(Gas(engine.standby), Gas(charged)) = Gas(engine.standby \cup charged)
    <3> DEFINE total == Gas(engine.standby \cup charged)
    <3>1. total \in Nat /\ total < Word
      BY <1>4, <2>6
    <3>2. Add(Gas(engine.standby), Gas(charged)) = total % Word
      BY <2>6 DEF Add
    <3> HIDE DEF total
    <3>3. total % Word = total
      BY <3>1, WordAssumption
    <3> QED
      BY <3>2, <3>3 DEF total
  <2>9. world'.panic = NoPanic
    <3>1. WorldShape(paid)
      BY <1>2, <1>3, <1>5, <2>1, <2>2, CommitCoins
    <3> QED
      BY <2>1, <2>2, <3>1, Refreshed
  <2>10. /\ world'.balance[SystemAddress] = Gas(engine'.standby)
         /\ engine'.fee = 0 /\ engine'.refund = 0
    BY <2>1, <2>3, <2>4, <2>7, <2>8
  <2>11. Gas(engine'.standby) \in Nat
    BY <1>4, <2>4, <2>6
  <2> QED
    BY <2>5, <2>9, <2>10, <2>11 DEF SystemAccCovers, NoPanic
<1> QED
  BY <1>7, <1>8

(* Every step keeps the account and the places in order.                   *)
LEMMA NextCover ==
    ASSUME OrdinaryRewards, PayableGas, CoverInv, [Next]_vars
    PROVE  CoverInv'
<1>1. MoneyInv /\ WaitOnce /\ SystemAccCovers /\ TypeInv /\ MoneyInv'
  BY NextMoney DEF CoverInv, MoneyInv
<1>2. /\ Inv /\ Ledger(world) /\ Ordinary(world.info)
      /\ engine.fee \in Nat /\ engine.refund \in Nat
      /\ engine.standby \subseteq Txs
  BY <1>1, CountedTypes DEF MoneyInv
<1>3. CASE Commit
  BY <1>1, <1>3, CommitCover DEF CoverInv
<1>4. ASSUME NEW tx \in Txs, ExecuteTx(tx)
      PROVE  WaitOnce' /\ SystemAccCovers'
  <2>1. /\ tx \in engine.standby /\ UNCHANGED chainVars
        /\ world.panic = NoPanic
        /\ world' = Refunded(Execute(world, tx), tx)
        /\ engine' = [engine EXCEPT !.standby = @ \ {tx},
                                    !.fee = @ + tx.fee,
                                    !.refund = @ + tx.refund]
    BY <1>4 DEF ExecuteTx, Running, Refunded
  <2>2. engine \in [collected : SUBSET Txs, standby : SUBSET Txs,
                    fee : Nat, refund : Nat]
    BY <1>1 DEF TypeInv, TypeOK
  <2>3. /\ engine'.collected = engine.collected
        /\ engine'.standby = engine.standby \ {tx}
        /\ engine'.fee = engine.fee + tx.fee
        /\ engine'.refund = engine.refund + tx.refund
    BY <2>1, <2>2
  <2>4. WaitOnce'
    BY <1>1, <2>1, <2>3 DEF WaitOnce, chainVars
  <2>5. WorldShape(world) /\ Registry(world.info) /\ Prices(world)
    BY <1>2 DEF Inv
  <2>6. world'.balance[SystemAddress] = world.balance[SystemAddress]
    <3>1. tx.RewardTo \notin ReservedAccounts
      BY DEF OrdinaryRewards
    <3> QED
      BY <1>2, <2>1, <2>5, <3>1, ExecuteTxCoins
  <2>7. world'.panic = NoPanic
    <3> DEFINE done == Execute(world, tx)
    <3>1. WorldShape(done) /\ done.panic = NoPanic
      BY <2>1, <2>5, TxsAssumption, ExecuteRegistry
    <3>2. world' = Refunded(done, tx)
      BY <2>1
    <3> HIDE DEF done
    <3> QED
      BY <3>1, <3>2 DEF WorldShape, Refunded
  <2>8. /\ tx.fee \in Nat /\ tx.refund \in Nat
        /\ gas[tx] = tx.fee + tx.refund
    BY TxsAssumption DEF StakingTx, Coins, gas
  <2>9. /\ Gas(engine.standby) = gas[tx] + Gas(engine.standby \ {tx})
        /\ Gas(engine.standby \ {tx}) \in Nat
    <3>1. engine.standby \ {tx} \subseteq Txs
      BY <1>2
    <3>2. /\ IsFiniteSet(engine.standby) /\ Integral(gas, engine.standby)
          /\ Gas(engine.standby) = SumFunctionOnSet(gas, engine.standby)
          /\ Gas(engine.standby \ {tx})
               = SumFunctionOnSet(gas, engine.standby \ {tx})
          /\ Gas(engine.standby \ {tx}) \in Nat
      BY <1>2, <3>1, GasSum
    <3> QED
      BY <2>1, <3>2, SumRemove
  <2>10. world'.balance[SystemAddress]
           = Gas(engine'.standby) + engine'.fee + engine'.refund
    <3>1. world.balance[SystemAddress]
            = Gas(engine.standby) + engine.fee + engine.refund
      BY <1>1 DEF SystemAccCovers
    <3> QED
      BY <1>2, <2>3, <2>6, <2>8, <2>9, <3>1
  <2> QED
    BY <2>4, <2>7, <2>10 DEF SystemAccCovers, NoPanic
<1>5. CASE ~Commit /\ \A tx \in Txs : ~ExecuteTx(tx)
  <2>1. /\ world' = world
        /\ engine'.fee = engine.fee /\ engine'.refund = engine.refund
        /\ engine'.standby = engine.standby
    BY <1>1, <1>5, OtherStepMoney
  <2>2. SystemAccCovers'
    BY <1>1, <2>1 DEF SystemAccCovers
  <2>3. \/ engine'.collected = engine.collected /\ sent' = sent
        \/ \E tx \in Txs \ sent :
              /\ engine'.collected = engine.collected \cup {tx}
              /\ sent' = sent \cup {tx}
    <3>1. engine \in [collected : SUBSET Txs, standby : SUBSET Txs,
                      fee : Nat, refund : Nat]
      BY <1>1 DEF TypeInv, TypeOK
    <3>2. \/ UNCHANGED <<engine, sent>>
          \/ \E tx \in Txs \ sent :
                /\ engine' = [engine EXCEPT !.collected = @ \cup {tx}]
                /\ sent' = sent \cup {tx}
      BY <1>5 DEF Next, SendEpoch, BeginBlock, DeliverTx, EndBlock,
                  EndPostCommit, vars, chainVars
    <3> QED
      BY <3>1, <3>2
  <2>4. WaitOnce'
    BY <1>1, <2>1, <2>3 DEF WaitOnce
  <2> QED
    BY <1>1, <2>2, <2>4 DEF CoverInv
<1> QED
  BY <1>1, <1>3, <1>4, <1>5 DEF CoverInv

(* The system account always holds exactly the gas of the transactions in  *)
(* the engine and what the last block is to pay out and take back, so that *)
(* Commit's check of its balance never panics.                             *)
THEOREM SystemAccCoversHolds ==
    ASSUME OrdinaryRewards, EmptySystemAcc, PayableGas
    PROVE  Spec => []SystemAccCovers
<1>1. Init => CoverInv
  BY InitCover
<1>2. CoverInv /\ [Next]_vars => CoverInv'
  BY NextCover
<1>3. CoverInv => SystemAccCovers
  BY DEF CoverInv
<1> QED
  BY <1>1, <1>2, <1>3, PTL DEF Spec

-----------------------------------------------------------------------------
(* Crashes. An epoch switch panics in clearUp only: every mature reward    *)
(* finds its validator.                                                    *)
LEMMA SwitchSurvives ==
    ASSUME Inv, ClearUpInBounds, world.panic = NoPanic,
           NEW switched, switched = SwitchIfDue(world)
    PROVE  switched.panic = NoPanic
<1>1. WorldShape(world) /\ Registry(world.info)
  BY DEF Inv
<1>2. CASE ~EpochDue
  BY <1>2 DEF SwitchIfDue
<1>3. CASE EpochDue
  <2> DEFINE pow == Head(EpochsAtCommit).power
             ended == endEpoch(world)
             powered == updateVotingPower(ended, pow)
             cleared == clearUp(powered)
  <2>1. /\ Head(EpochsAtCommit) \in Epoch
        /\ switched = SwitchEpoch(world, pow)
        /\ ~DeletionOutOfBounds(powered.info)
    BY <1>3 DEF EpochDue, SwitchIfDue, EpochsAtCommit, Inv, ClearUpInBounds
  <2>2. pow \in Nominations
    BY <2>1 DEF Epoch
  <2> HIDE DEF pow
  <2>3. ended.panic = NoPanic
    <3> DEFINE info == [world.info EXCEPT !.CurrEpochNum = @ + 1]
    <3>1. /\ info.Validators = world.info.Validators
          /\ info.PendingRewards = world.info.PendingRewards
      BY <1>1 DEF WorldShape
    <3>2. \A pr \in Mature(info) : GetValidatorByAddr(info, pr.Address) # {}
      <4>1. SUFFICES ASSUME NEW pr \in Mature(info)
                     PROVE  GetValidatorByAddr(info, pr.Address) # {}
        OBVIOUS
      <4> HIDE DEF info
      <4>2. pr \in world.info.PendingRewards
        BY <3>1, <4>1 DEF Mature
      <4>3. PICK v \in world.info.Validators : v.Address = pr.Address
        BY <1>1, <4>2 DEF Registry, RewardsRegistered
      <4> QED
        BY <3>1, <4>3 DEF GetValidatorByAddr
    <3>3. \E i, b : ended = [world EXCEPT !.info = i, !.balance = b]
      BY <3>2 DEF endEpoch
    <3> QED
      BY <1>1, <3>3 DEF WorldShape
  <2> HIDE DEF ended
  <2>4. WorldShape(powered) /\ powered.panic = NoPanic
    <3>1. WorldShape(ended) /\ Registry(ended.info)
      BY <1>1, <2>3, EndEpochRegistry DEF ended
    <3> QED
      BY <2>2, <2>3, <3>1, VotingPowerRegistry
  <2> HIDE DEF powered
  <2>5. WorldShape(cleared) /\ cleared.panic = NoPanic
    <3>1. \E v, b : cleared = [powered EXCEPT !.info.Validators = v,
                                              !.balance = b]
      BY <2>1 DEF clearUp
    <3> QED
      BY <2>4, <3>1 DEF WorldShape
  <2> HIDE DEF cleared
  <2>6. switched = AllocateRewards(cleared)
    BY <2>1, <2>3, <2>5 DEF SwitchEpoch, ended, powered, cleared
  <2>7. \E p : switched = [cleared EXCEPT !.info.PendingRewards = p]
    BY <2>6 DEF AllocateRewards
  <2> QED
    BY <2>5, <2>7 DEF WorldShape
<1> QED
  BY <1>2, <1>3

(* A block reward is distributed if proposer and voters are registered.    *)
LEMMA PaySurvives ==
    ASSUME NEW w, WorldShape(w), w.panic = NoPanic,
           lastCommitInfo \cup {lastProposer}
             \subseteq {v.Pubkey : v \in w.info.Validators},
           NEW reward, NEW paid, paid = PayBlockReward(w, reward)
    PROVE  paid.panic = NoPanic
<1>1. CASE block.Number = 1
  BY <1>1 DEF PayBlockReward
<1>2. CASE block.Number # 1
  <2>1. \A k \in lastCommitInfo \cup {lastProposer} :
            {v \in w.info.Validators : v.Pubkey \in {k}} # {}
    OBVIOUS
  <2>2. \E b, p : paid = [w EXCEPT !.balance = b, !.info.PendingRewards = p]
    BY <1>2, <2>1 DEF PayBlockReward, DistributeFee
  <2> QED
    BY <2>2 DEF WorldShape
<1> QED
  BY <1>1, <1>2

(* A Commit does not panic where the signers are known and clearUp stays   *)
(* within the list.                                                        *)
LEMMA CommitSurvives ==
    ASSUME OrdinaryRewards, CoverInv, KnownSigners, ClearUpInBounds, Commit
    PROVE  Running'
<1> DEFINE switched == SwitchIfDue(world)
           slashed == SlashAll(switched)
           settled == SettleSystemAcc(slashed)
           paid == PayBlockReward(settled, BlockReward(slashed))
           crash == IF switched.panic # NoPanic THEN switched.panic
                    ELSE IF settled.panic # NoPanic THEN settled.panic
                    ELSE paid.panic
<1>1. /\ Inv /\ world.panic = NoPanic /\ phase = "commit" /\ ~mtx
      /\ Ledger(world) /\ lastGasFee \in Nat /\ lastGasRefund \in Nat
      /\ engine.collected \subseteq Txs /\ slashValidators \in Seq(Pubkeys)
  BY CountedTypes DEF CoverInv, MoneyInv, Commit, Running
<1>2. /\ switched = SwitchIfDue(world) /\ slashed = SlashAll(switched)
      /\ settled = SettleSystemAcc(slashed)
      /\ paid = PayBlockReward(settled, BlockReward(slashed))
  OBVIOUS
<1>3. Commit /\ (crash = NoPanic => world' = RefreshMinGasPrice(Prepare(paid)))
  BY DEF Commit
<1> HIDE DEF switched, slashed, settled, paid, crash
<1>4. switched.panic = NoPanic
  BY <1>1, <1>2, SwitchSurvives
<1>5. settled.panic = NoPanic
  BY <1>1, <1>2, <1>4, SettleCovered
<1>6. /\ WorldShape(settled)
      /\ settled.info = switched.info
  <2>1. WorldShape(switched)
    BY <1>1, <1>2, <1>4, SwitchIfDueCoins
  <2>2. WorldShape(slashed) /\ slashed.info = switched.info
    BY <1>2, <2>1, CoinsOnly
  <2> QED
    BY <1>2, <2>2, CoinsOnly
<1>7. paid.panic = NoPanic
  <2>1. lastCommitInfo \cup {lastProposer}
          \subseteq {v.Pubkey : v \in settled.info.Validators}
    BY <1>1, <1>2, <1>6 DEF KnownSigners
  <2> QED
    BY <1>2, <1>5, <1>6, <2>1, PaySurvives
<1>8. world' = RefreshMinGasPrice(Prepare(paid))
  BY <1>3, <1>4, <1>5, <1>7 DEF crash
<1>9. WorldShape(paid)
  BY <1>1, <1>2, <1>4, <1>5, <1>7, <1>8, CommitCoins
<1> QED
  BY <1>7, <1>8, <1>9, Refreshed DEF Running

(* No other step panics.                                                   *)
LEMMA NextSurvives ==
    ASSUME OrdinaryRewards, CoverInv, KnownSigners, ClearUpInBounds, Running,
           [Next]_vars
    PROVE  Running'
<1>1. CASE Commit
  BY <1>1, CommitSurvives
<1>2. ASSUME NEW tx \in Txs, ExecuteTx(tx)
      PROVE  Running'
  <2> DEFINE done == Execute(world, tx)
  <2>1. world' = Refunded(done, tx)
    BY <1>2 DEF ExecuteTx, Refunded
  <2>2. Inv /\ world.panic = NoPanic
    BY CountedTypes DEF CoverInv, MoneyInv, Running
  <2>3. WorldShape(done) /\ done.panic = NoPanic
    BY <2>2, TxsAssumption, ExecuteRegistry DEF Inv
  <2> HIDE DEF done
  <2> QED
    BY <2>1, <2>3 DEF WorldShape, Refunded, Running
<1>3. CASE ~Commit /\ \A tx \in Txs : ~ExecuteTx(tx)
  <2>1. world' = world
    BY <1>3, OtherStepMoney DEF CoverInv
  <2> QED
    BY <2>1 DEF Running
<1> QED
  BY <1>1, <1>2, <1>3

(* The panics of a Commit have two causes and no other: the proposer or a  *)
(* voter that is no longer registered, and clearUp's deletion at the end   *)
(* of the list. Without them the process never panics: every reward that   *)
(* matures has its validator and the system account covers what is due.    *)
THEOREM NoCrashHolds ==
    ASSUME OrdinaryRewards, EmptySystemAcc, PayableGas
    PROVE  Spec /\ []KnownSigners /\ []ClearUpInBounds => []NoCrash
<1>1. Init => CoverInv /\ Running
  <2>1. Init => Running
    BY DEF Init, Running
  <2> QED
    BY <2>1, InitCover
<1>2. CoverInv /\ Running /\ KnownSigners /\ ClearUpInBounds /\ [Next]_vars
        => (CoverInv /\ Running)'
  BY NextCover, NextSurvives
<1>3. Running => NoCrash
  BY DEF NoCrash
<1> QED
  BY <1>1, <1>2, <1>3, PTL DEF Spec
=============================================================================
