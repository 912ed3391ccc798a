---------------------------- MODULE StakingTypes ----------------------------
(***************************************************************************)
(* staking/types/types.go: the staking information that the staking        *)
(* contract keeps in one storage slot, and the queries and updates on it.  *)
(*                                                                         *)
(* A StakingInfo is a record [CurrEpochNum, Validators, PendingRewards].   *)
(* The two Go slices are modelled as sets:                                 *)
(*  - a validator carries idx, its place in the order of creation; the     *)
(*    slice only ever grows at its end and loses elements, so list order   *)
(*    is idx order;                                                        *)
(*  - the order of PendingRewards is never observed, and the entries of    *)
(*    one validator differ in their epoch (App!OneRewardPerEpoch), so a    *)
(*    set loses nothing.                                                   *)
(* The introduction string of a validator is never read and is left out.   *)
(* Addresses and public keys are opaque values; a consensus address is the *)
(* hash of a public key, hence identified with it.                         *)
(*                                                                         *)
(* Here and in the other modules a definition named Faulty... is a         *)
(* plausible mistake in the definition after it. No specification uses     *)
(* them: PROJECT.json lists which property notices which mistake.          *)
(***************************************************************************)
EXTENDS Integers, FiniteSets, FiniteSetsExt

CONSTANTS
    Accounts,               \* addresses that hold coins
    Pubkeys,                \* validators' Tendermint public keys
    MaxActiveValidatorNum,  \* 30 in the source
    Word                    \* 2^256 in the source: coins are uint256

(* An address is twenty bytes long. Keys there are.                        *)
ASSUME AccountsAssumption == IsFiniteSet(Accounts)

ASSUME PubkeysAssumption == Pubkeys # {}

ASSUME WordAssumption == Word \in Nat \ {0}

ASSUME MaxActiveAssumption == MaxActiveValidatorNum \in Nat \ {0}

Coins == 0 .. Word - 1

Validator ==
    [Address : Accounts, Pubkey : Pubkeys, RewardTo : Accounts,
     VotingPower : Nat, StakedCoins : Coins, IsRetiring : BOOLEAN,
     idx : Nat \ {0}]

PendingReward == [Address : Accounts, EpochNum : Nat, Amount : Coins]

StakingInfo ==
    [CurrEpochNum : Nat, Validators : SUBSET Validator,
     PendingRewards : SUBSET PendingReward]

(* uint256 arithmetic wraps around, and uint256's Div returns 0 for a zero *)
(* divisor.                                                                *)
Add(a, b) == (a + b) % Word

FaultySubSigned(a, b) == a - b

Sub(a, b) == (a - b) % Word

Mul(a, b) == (a * b) % Word

Div(a, b) == IF b = 0 THEN 0 ELSE a \div b

StakeOf(S) == SumFunction([v \in S |-> v.StakedCoins])

PowerOf(S) == SumFunction([v \in S |-> v.VotingPower])

AmountOf(S) == SumFunction([pr \in S |-> pr.Amount])

-----------------------------------------------------------------------------
(* The lookups that Go does in the maps GetValMapByAddr, GetValMapByPubkey *)
(* and with GetValidatorByAddr, GetValidatorByPubkey: the set of matches,  *)
(* empty where Go yields nil.                                              *)
GetValidatorByAddr(info, addr) ==
    {v \in info.Validators : v.Address = addr}

GetValidatorByPubkey(info, pubkey) ==
    {v \in info.Validators : v.Pubkey = pubkey}

GetCurrRewardMapByAddr(info, addr) ==
    {pr \in info.PendingRewards :
        pr.EpochNum = info.CurrEpochNum /\ pr.Address = addr}

NextIdx(info) == 1 + Max({0} \cup {v.idx : v \in info.Validators})

FaultyCanAddIgnoringPubkey(info, addr, pubkey) ==
    \A v \in info.Validators : v.Address # addr

(* AddValidator: nothing happens when the address or the key is taken.     *)
CanAddValidator(info, addr, pubkey) ==
    \A v \in info.Validators : v.Address # addr /\ v.Pubkey # pubkey

AddValidator(info, addr, pubkey, stakedCoins, rewardTo) ==
    [info EXCEPT !.Validators = @ \cup
        {[Address |-> addr, Pubkey |-> pubkey, RewardTo |-> rewardTo,
          VotingPower |-> 0, StakedCoins |-> stakedCoins,
          IsRetiring |-> FALSE, idx |-> NextIdx(info)]}]

FaultyUselessIgnoringRewards(info) ==
    {v \in info.Validators : v.VotingPower = 0}

(* No voting power and no pending reward entry.                            *)
GetUselessValidators(info) ==
    {v \in info.Validators :
        /\ v.VotingPower = 0
        /\ \A pr \in info.PendingRewards : pr.Address # v.Address}

(* The entries that ClearRewardsOf accumulates into totalCleared. What it   *)
(* does to the list itself is lost: its only caller, Slash, never saves it. *)
RewardsOf(info, addr) == {pr \in info.PendingRewards : pr.Address = addr}

(* Stable sort by descending power: of two equals the older comes first.   *)
Before(v, w) ==
    \/ v.VotingPower > w.VotingPower
    \/ v.VotingPower = w.VotingPower /\ v.idx < w.idx

OnDuty(info, minStakedCoins) ==
    {v \in info.Validators :
        /\ v.StakedCoins >= minStakedCoins
        /\ ~v.IsRetiring
        /\ v.VotingPower > 0}

GetActiveValidators(info, minStakedCoins) ==
    LET res == OnDuty(info, minStakedCoins)
    IN  {v \in res :
            Cardinality({w \in res : Before(w, v)}) < MaxActiveValidatorNum}

-----------------------------------------------------------------------------
(* What the functions rely on without checking it: no two validators share *)
(* an address, a key or a place in the list; a reward's validator is       *)
(* there; a validator has one entry per epoch, of the current epoch or of  *)
(* the mature ones that are due at the next switch.                        *)
DistinctValidators(vals) ==
    \A v, w \in vals :
        v.Address = w.Address \/ v.Pubkey = w.Pubkey \/ v.idx = w.idx
          => v = w

RewardsRegistered(info) ==
    \A pr \in info.PendingRewards :
        \E v \in info.Validators : v.Address = pr.Address

DistinctRewards(info) ==
    \A p, q \in info.PendingRewards :
        p.Address = q.Address /\ p.EpochNum = q.EpochNum => p = q

RecentRewards(info, epochs) ==
    \A pr \in info.PendingRewards :
        pr.EpochNum \in info.CurrEpochNum - epochs .. info.CurrEpochNum
=============================================================================
