------------------------------- MODULE MCApp --------------------------------
(***************************************************************************)
(* Instances of App for TLC: three accounts a1, a2, a3 that may run a      *)
(* validator each, with the keys k1, k2, k3. Amounts are scaled down, Word *)
(* with them.                                                              *)
(***************************************************************************)
EXTENDS App, Codec

CONSTANTS a1, a2, a3, k1, k2, k3, stakingAcc, blackHole, systemAcc, zeroAcc

MCAccounts == {a1, a2, a3, stakingAcc, blackHole, systemAcc, zeroAcc}

(* The instances meet what the theorems about the coins suppose.           *)
ASSUME CoinsAssumption == OrdinaryRewards /\ EmptySystemAcc /\ PayableGas

Val(addr, key, power, stake, i) ==
    [Address |-> addr, Pubkey |-> key, RewardTo |-> addr,
     VotingPower |-> power, StakedCoins |-> stake, IsRetiring |-> FALSE,
     idx |-> i]

Balances(f) == [a \in MCAccounts |-> IF a \in DOMAIN f THEN f[a] ELSE 0]

Tx(op, from, value, rewardTo, key) ==
    [op |-> op, wellFormed |-> TRUE, From |-> from, Value |-> value,
     RewardTo |-> rewardTo, Pubkey |-> key, fee |-> 20, refund |-> 3]

Ep(endTime, power) ==
    [EndTime |-> endTime,
     power |-> [k \in {k1, k2, k3} |->
                   IF k \in DOMAIN power THEN power[k] ELSE 0]]

-----------------------------------------------------------------------------
(* Registrations come and go: a3 registers, with a key of its own or with  *)
(* k2, which is free again once a2, retired, has been removed.             *)
GenesisAll == {Val(a1, k1, 3, 12, 1), Val(a2, k2, 1, 12, 2)}

BalanceAll == Balances(a1 :> 100 @@ a2 :> 60 @@ a3 :> 60)

(* genesis.json allots the genesis stakes to the contract, so that paying  *)
(* them back does not wrap its balance.                                    *)
BalanceFunded == [BalanceAll EXCEPT ![stakingAcc] = 24]

TxsAll == {Tx("createValidator", a3, 11, a3, k3),
           Tx("createValidator", a3, 11, a3, k2),
           Tx("retire", a2, 0, zeroAcc, k2)}

EpochsAll == <<Ep(0, k1 :> 2 @@ k3 :> 1),
               Ep(3, k1 :> 2),
               Ep(3, k1 :> 1 @@ k2 :> 2)>>

NoEpochs == <<>>

NoEvidence == {<<>>}

(* Coins: a3 registers, a1 raises its stake and moves its rewards to a3,   *)
(* k2 may be slashed in any block. One validator at a time can become      *)
(* useless: k1 and k3 are nominated in every epoch, k2 only in the first,  *)
(* so that a2 is paid back and removed. a1 and a2 vote on the gas price:   *)
(* one vote is within the limit of a block, two are not.                   *)
TxsCoins == {Tx("createValidator", a3, 11, a3, k3),
             Tx("editValidator", a1, 5, a3, k1),
             Tx("increaseMinGasPrice", a1, 0, zeroAcc, k3),
             Tx("increaseMinGasPrice", a2, 0, zeroAcc, k3)}

EpochsCoins == <<Ep(0, k1 :> 3 @@ k2 :> 1 @@ k3 :> 1),
                 Ep(1, k1 :> 3 @@ k3 :> 1),
                 Ep(2, k1 :> 3 @@ k3 :> 2)>>

EvidenceK2 == {<<>>, <<k2>>}

(* The first epoch takes effect in block 3 at the earliest, when the first *)
(* votes have made reward entries; k2 and k3 lose their nominations.       *)
EpochsSpaced == <<Ep(2, k1 :> 3 @@ k3 :> 1),
                  Ep(3, k1 :> 3)>>

-----------------------------------------------------------------------------
(* k2 loses its nominations, and Tendermint is not told.                   *)
EpochsAbsent == <<Ep(2, k1 :> 3),
                  Ep(3, k1 :> 3)>>

NoTxs == {}

-----------------------------------------------------------------------------
(* StakingInfo as LoadStakingAcc and SaveStakingInfo move it: lists in the *)
(* order of idx, and an introduction.                                      *)
AsStored(info) ==
    [CurrEpochNum |-> info.CurrEpochNum,
     Validators |->
        LET vals == SetToSortSeq(info.Validators, LAMBDA v, w : v.idx < w.idx)
        IN  [i \in 1 .. Len(vals) |->
                [f \in ToSet(ValidatorFields) |->
                    IF f = "Introduction" THEN "hi" ELSE vals[i][f]]],
     PendingRewards |-> SetToSeq(info.PendingRewards)]

EmptyInfo == [CurrEpochNum |-> 0, Validators |-> <<>>, PendingRewards |-> <<>>]

(* The types of the codec that nothing stores: blocks of the main chain,   *)
(* with up to two nominations, and epochs.                                 *)
Nominated == [Pubkey : {k1, k2}, NominatedCount : {0, 1}]

BlocksToCode ==
    [Height : {1, 2}, Timestamp : {5}, HashId : {7}, ParentBlk : {8},
     Nominations : {<<>>} \cup {<<n>> : n \in Nominated}
                   \cup {<<m, n>> : m, n \in Nominated}]

OtherTypesDecode ==
    /\ \A blk, used \in BlocksToCode :
          UnmarshalMsg(BCHBlockCodec, used, MarshalMsg(BCHBlockCodec, blk))
            = [z |-> blk, bts |-> <<>>]
    /\ \A e \in [ToSet(EpochFields) -> {0, 1}] :
          DecodeFlat(EpochFields, [z |-> Zero(EpochFields),
                                   bts |-> EncodeFlat(EpochFields, e)])
            = [z |-> e, bts |-> <<>>]

(* UnmarshalMsg of what MarshalMsg wrote returns it, whatever the object   *)
(* that it is read into held before (longer or shorter lists, or nothing), *)
(* takes exactly the bytes that were written, and skips a field that this  *)
(* version does not know; and so for the other types.                      *)
StoredInfoDecodes ==
    LET info == AsStored(world.info)
        bts == MarshalMsg(StakingInfoCodec, info)
        newer == <<Header("map", bts[1].n + 1), Key("Unknown"), Scalar(1)>>
                 \o Rest(bts, 1)
    IN  /\ OtherTypesDecode
        /\ phase = "deliver" /\ ~mtx =>
            \A used \in {EmptyInfo, AsStored(GenesisInfo)},
               msg \in {bts, newer} :
                UnmarshalMsg(StakingInfoCodec, used, msg \o bts)
                    = [z |-> info, bts |-> bts]
=============================================================================
