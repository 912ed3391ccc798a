-------------------------------- MODULE Codec --------------------------------
(***************************************************************************)
(* staking/types/types_gen.go: the msgp codec of the staking types, in     *)
(* which StakingInfo is kept in the contract's storage slot.               *)
(*                                                                         *)
(* The generated methods differ only in the fields of their type, so a     *)
(* type is described by its fields, in the order in which they are         *)
(* written, and one pair of operators encodes and decodes all types. A     *)
(* byte string is the sequence of the tokens msgp writes: the header of a  *)
(* map or an array with its length, a key, a scalar. DecodeMsg and         *)
(* UnmarshalMsg differ in where they read from, EncodeMsg and MarshalMsg   *)
(* in where they write to.                                                 *)
(***************************************************************************)
EXTENDS Integers, Sequences, SequencesExt, FiniteSets

Header(kind, n) == [kind |-> kind, n |-> n]

Scalar(x) == [kind |-> "scalar", x |-> x]

Key(name) == [kind |-> "key", x |-> name]

(* The types without lists.                                                *)
NominationFields == <<"Pubkey", "NominatedCount">>

EpochFields == <<"StartHeight", "EndTime", "Duration">>

PendingRewardFields == <<"Address", "EpochNum", "Amount">>

ValidatorFields ==
    <<"Address", "Pubkey", "RewardTo", "VotingPower", "Introduction",
      "StakedCoins", "IsRetiring">>

(* The types with lists: their scalar fields, then the lists with the      *)
(* fields of their elements.                                               *)
BCHBlockCodec ==
    [scalars |-> <<"Height", "Timestamp", "HashId", "ParentBlk">>,
     lists |-> << <<"Nominations", NominationFields>> >>]

StakingInfoCodec ==
    [scalars |-> <<"CurrEpochNum">>,
     lists |-> << <<"Validators", ValidatorFields>>,
                  <<"PendingRewards", PendingRewardFields>> >>]

-----------------------------------------------------------------------------
EncodeFields(fields, z) ==
    FlattenSeq([i \in 1 .. Len(fields) |->
        <<Key(fields[i]), Scalar(z[fields[i]])>>])

EncodeFlat(fields, z) ==
    <<Header("map", Len(fields))>> \o EncodeFields(fields, z)

EncodeList(name, fields, s) ==
    <<Key(name), Header("array", Len(s))>>
    \o FlattenSeq([i \in 1 .. Len(s) |-> EncodeFlat(fields, s[i])])

MarshalMsg(codec, z) ==
    <<Header("map", Len(codec.scalars) + Len(codec.lists))>>
    \o EncodeFields(codec.scalars, z)
    \o FlattenSeq([i \in 1 .. Len(codec.lists) |->
            EncodeList(codec.lists[i][1], codec.lists[i][2],
                       z[codec.lists[i][1]])])

-----------------------------------------------------------------------------
(* Decoding takes tokens off bts and writes fields of z. A field that is   *)
(* not in the message keeps its value, an unknown one is skipped.          *)
Rest(bts, k) == SubSeq(bts, k + 1, Len(bts))

Count(n) == [i \in 1 .. n |-> i]

DecodeField(fields, st) ==
    LET key == st.bts[1].x
    IN  [z |-> IF key \in ToSet(fields)
               THEN [st.z EXCEPT ![key] = st.bts[2].x] ELSE st.z,
         bts |-> Rest(st.bts, 2)]

DecodeFlat(fields, st) ==
    FoldLeft(LAMBDA acc, i : DecodeField(fields, acc),
             [z |-> st.z, bts |-> Rest(st.bts, 1)], Count(st.bts[1].n))

Zero(fields) == [f \in ToSet(fields) |-> 0]

FaultyResized(old, n, fields) ==
    [i \in 1 .. (IF Len(old) > n THEN Len(old) ELSE n) |->
        IF i <= Len(old) THEN old[i] ELSE Zero(fields)]

(* A list that is long enough is cut and its elements are decoded into,    *)
(* otherwise a new one is made.                                            *)
Resized(old, n, fields) ==
    IF Len(old) >= n THEN SubSeq(old, 1, n)
    ELSE [i \in 1 .. n |-> Zero(fields)]

DecodeElement(fields, acc, i) ==
    LET one == DecodeFlat(fields, [z |-> acc.z[i], bts |-> acc.bts])
    IN  [z |-> [acc.z EXCEPT ![i] = one.z], bts |-> one.bts]

DecodeList(fields, old, bts) ==
    FoldLeft(LAMBDA acc, i : DecodeElement(fields, acc, i),
             [z |-> Resized(old, bts[1].n, fields), bts |-> Rest(bts, 1)],
             Count(bts[1].n))

ListNames(codec) == {codec.lists[i][1] : i \in DOMAIN codec.lists}

ElementFields(codec, name) ==
    codec.lists[CHOOSE i \in DOMAIN codec.lists : codec.lists[i][1] = name][2]

DecodeEntry(codec, st) ==
    LET key == st.bts[1].x
    IN  IF key \notin ListNames(codec) THEN DecodeField(codec.scalars, st)
        ELSE LET list == DecodeList(ElementFields(codec, key), st.z[key],
                                    Rest(st.bts, 1))
             IN  [z |-> [st.z EXCEPT ![key] = list.z], bts |-> list.bts]

UnmarshalMsg(codec, z, bts) ==
    FoldLeft(LAMBDA acc, i : DecodeEntry(codec, acc),
             [z |-> z, bts |-> Rest(bts, 1)], Count(bts[1].n))
=============================================================================
