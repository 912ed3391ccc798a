--------------------------- MODULE RpcClientProof ---------------------------
(***************************************************************************)
(* GetBlockByHeight and GetBlockByHash are atomic, for every chain, every  *)
(* number of reorganizations and every moment at which they strike.        *)
(*                                                                         *)
(* The argument: what the node says of a block never changes, because a    *)
(* branch that a reorganization starts has a new name and a block that is  *)
(* mined has a new height (NodeOK, KnownStays). So the parts that a call   *)
(* collects from answers at different moments belong to one block, and     *)
(* that block was the right answer when the first of them was given        *)
(* (CallOK).                                                               *)
(***************************************************************************)
EXTENDS RpcClient, TLAPS

(* The tip is the highest block known, on the youngest branch.             *)
NodeOK ==
    /\ chain \in Seq(Nat)
    /\ Tip >= 1
    /\ parents = [h \in DOMAIN parents |-> parents[h]]
    /\ \A h \in DOMAIN parents : /\ h \in Nat \X Nat
                                 /\ h[1] <= Tip
                                 /\ h[2] <= chain[Tip]
    /\ \A i \in 1 .. Tip : HashAt(chain, i) \in DOMAIN parents

Wanted == IF call.op = "height" THEN call.arg ELSE call.arg[1]

(* A block that the running call may return.                               *)
Answer(h) ==
    /\ h \in seen
    /\ h \in DOMAIN parents
    /\ h[1] = Wanted

CallOK ==
    /\ pc = "getblockhash" => Right(chain) \subseteq seen
    /\ pc = "getblock" /\ hash # ZeroHash => Answer(hash)
    /\ pc = "getrawtransaction" => /\ Answer(info.Hash)
                                   /\ info = BlockOf(info.Hash)
    /\ result.kind = "block" =>
            /\ Answer(result.block.HashId)
            /\ result.block.ParentBlk = Parent(result.block.HashId)
            /\ result.block.Height = Wanted
            /\ pc \notin {"getblockhash", "getblock", "getrawtransaction"}

IInv == NodeOK /\ CallOK

-----------------------------------------------------------------------------
(* The branch that Reorg starts is the one after the tip's.                *)
LEMMA NewBranch ==
    ASSUME NodeOK
    PROVE  /\ Max({h[2] : h \in DOMAIN parents}) = chain[Tip]
           /\ chain[Tip] \in Nat
<1> DEFINE S == {h[2] : h \in DOMAIN parents}
           b == chain[Tip]
<1>1. Tip \in 1 .. Tip /\ b \in Nat
  BY DEF NodeOK, Tip
<1>2. b \in S
  <2>1. <<Tip, b>> \in DOMAIN parents
    BY <1>1 DEF NodeOK, HashAt
  <2> QED
    BY <2>1
<1>3. \A y \in S : y \in Nat /\ y <= b
  BY DEF NodeOK
<1>4. \A x \in S : (\A y \in S : x >= y) => x = b
  <2> HIDE DEF S, b
  <2> QED
    BY <1>1, <1>2, <1>3
<1>5. Max(S) \in S /\ \A y \in S : Max(S) >= y
  <2> HIDE DEF S, b
  <2>1. \A y \in S : b >= y
    BY <1>1, <1>3
  <2> QED
    BY <2>1, <1>2 DEF Max
<1> QED
  BY <1>1, <1>4, <1>5

(* A step of the node keeps NodeOK, and what the node says of a block that *)
(* it knows (external: bitcoind).                                          *)
LEMMA KnownStays ==
    ASSUME NodeOK, NodeMoves
    PROVE  /\ NodeOK'
           /\ DOMAIN parents \subseteq DOMAIN parents'
           /\ \A h \in DOMAIN parents : parents'[h] = parents[h]
<1> USE DEF Tip, HashAt
<1>1. Tip \in Nat /\ chain[Tip] \in Nat /\ Tip \in 1 .. Tip
  BY DEF NodeOK
<1>2. CASE Mine(chain[Tip])
  <2> DEFINE new == <<Tip + 1, chain[Tip]>>
  <2>1. /\ chain' = Append(chain, chain[Tip])
        /\ parents' = [h \in DOMAIN parents \cup {new} |->
                        IF h = new THEN chain[Tip] ELSE parents[h]]
    BY <1>2 DEF Mine
  <2>2. new \notin DOMAIN parents
    BY <1>1 DEF NodeOK
  <2>3. /\ chain' \in Seq(Nat)
        /\ Len(chain') = Tip + 1
        /\ \A i \in 1 .. Tip : chain'[i] = chain[i]
        /\ chain'[Tip + 1] = chain[Tip]
    BY <2>1, <1>1 DEF NodeOK
  <2>4. \A i \in 1 .. Tip + 1 : HashAt(chain', i) \in DOMAIN parents'
    BY <2>1, <2>3, <1>1 DEF NodeOK
  <2>5. \A h \in DOMAIN parents' : /\ h \in Nat \X Nat
                                   /\ h[1] <= Tip + 1
                                   /\ h[2] <= chain'[Tip + 1]
    BY <2>1, <2>3, <1>1 DEF NodeOK
  <2> QED
    BY <1>1, <2>1, <2>2, <2>3, <2>4, <2>5 DEF NodeOK
<1>3. ASSUME NEW depth \in 1 .. Tip, Reorg(depth)
      PROVE  /\ NodeOK'
             /\ DOMAIN parents \subseteq DOMAIN parents'
             /\ \A h \in DOMAIN parents : parents'[h] = parents[h]
  <2> DEFINE b == 1 + chain[Tip]
             fork == Tip - depth
             new == {<<i, b>> : i \in fork + 1 .. Tip + 1}
  <2>1. /\ fork \in Nat /\ fork >= 1 /\ fork <= Tip
        /\ chain' = [i \in 1 .. Tip + 1 |-> IF i <= fork THEN chain[i] ELSE b]
        /\ parents' = [h \in DOMAIN parents \cup new |->
                        IF h \notin new THEN parents[h]
                        ELSE IF h[1] = fork + 1 THEN chain[fork] ELSE b]
    <3>1. Max({h[2] : h \in DOMAIN parents}) = chain[Tip]
      BY NewBranch
    <3>2. Tip - depth >= 1
      BY <1>3 DEF Reorg
    <3>3. fork \in Nat /\ fork >= 1 /\ fork <= Tip
      BY <3>2, <1>1
    <3> HIDE DEF Tip
    <3> QED
      BY <1>3, <3>1, <3>3 DEF Reorg
  <2>2. new \cap DOMAIN parents = {}
    <3>1. \A h \in new : h[2] = b
      OBVIOUS
    <3>2. \A h \in DOMAIN parents : h[2] \in Nat /\ h[2] <= chain[Tip]
      BY DEF NodeOK
    <3>3. \A x \in Nat : x <= chain[Tip] => x # b
      BY <1>1
    <3> HIDE DEF b, new
    <3> QED
      BY <3>1, <3>2, <3>3
  <2>3. /\ chain' \in Seq(Nat)
        /\ Len(chain') = Tip + 1
        /\ \A i \in 1 .. fork : chain'[i] = chain[i]
        /\ \A i \in fork + 1 .. Tip + 1 : chain'[i] = b
    <3>1. \A i \in 1 .. Tip + 1 :
              (IF i <= fork THEN chain[i] ELSE b) \in Nat
      <4>1. \A i \in 1 .. Tip : chain[i] \in Nat
        BY DEF NodeOK
      <4>2. \A i \in 1 .. Tip + 1 : i <= fork => i \in 1 .. Tip
        BY <1>1, <2>1
      <4>3. b \in Nat
        BY <1>1
      <4> HIDE DEF b, fork, Tip
      <4> QED
        BY <4>1, <4>2, <4>3
    <3> HIDE DEF b, fork
    <3>2. chain' \in [1 .. Tip + 1 -> Nat]
      <4>1. \A i \in 1 .. Tip + 1 : chain'[i] \in Nat
        BY <2>1, <3>1
      <4>2. chain' = [i \in 1 .. Tip + 1 |-> chain'[i]]
        BY <2>1
      <4> HIDE DEF Tip
      <4> QED
        BY <4>1, <4>2
    <3>3. chain' \in Seq(Nat) /\ Len(chain') = Tip + 1
      BY <3>2, <1>1
    <3>4. (\A i \in 1 .. fork : chain'[i] = chain[i])
          /\ \A i \in fork + 1 .. Tip + 1 : chain'[i] = b
      BY <2>1, <1>1
    <3> QED
      BY <3>3, <3>4
  <2>4. \A i \in 1 .. Tip + 1 : HashAt(chain', i) \in DOMAIN parents'
    <3>1. DOMAIN parents' = DOMAIN parents \cup new
      BY <2>1
    <3>2. \A i \in 1 .. fork : <<i, chain[i]>> \in DOMAIN parents
      BY <2>1, <1>1 DEF NodeOK
    <3>3. \A i \in fork + 1 .. Tip + 1 : <<i, b>> \in new
      OBVIOUS
    <3>4. \A i \in 1 .. Tip + 1 : i \in 1 .. fork \/ i \in fork + 1 .. Tip + 1
      BY <2>1, <1>1
    <3> HIDE DEF b, fork, new
    <3> QED
      BY <2>3, <3>1, <3>2, <3>3, <3>4
  <2>5. \A h \in DOMAIN parents' : /\ h \in Nat \X Nat
                                   /\ h[1] <= Tip + 1
                                   /\ h[2] <= b
    <3>1. \A h \in new : h \in Nat \X Nat /\ h[1] <= Tip + 1 /\ h[2] <= b
      BY <1>1, <2>1
    <3>2. \A h \in DOMAIN parents : h \in Nat \X Nat /\ h[1] <= Tip + 1 /\ h[2] <= b
      BY <1>1 DEF NodeOK
    <3> QED
      BY <2>1, <3>1, <3>2
  <2>6. chain'[Tip + 1] = b
    BY <2>1, <2>3, <1>1
  <2>7. /\ DOMAIN parents \subseteq DOMAIN parents'
        /\ \A h \in DOMAIN parents : parents'[h] = parents[h]
        /\ parents' = [h \in DOMAIN parents' |-> parents'[h]]
    <3> HIDE DEF b, fork, new
    <3> QED
      BY <2>1, <2>2
  <2> HIDE DEF b, fork, new
  <2> QED
    BY <1>1, <2>3, <2>4, <2>5, <2>6, <2>7 DEF NodeOK
<1> QED
  BY <1>2, <1>3 DEF NodeMoves

-----------------------------------------------------------------------------
(* IInv holds when the node and the client start.                          *)
LEMMA InitIInv == Init => IInv
<1> SUFFICES ASSUME Init PROVE IInv
  OBVIOUS
<1>1. FirstTip \in Nat /\ FirstTip >= 1
  BY RpcClientAssumption
<1>2. chain = [h \in 1 .. FirstTip |-> 0] /\ Len(chain) = FirstTip
      /\ chain \in Seq(Nat)
  BY <1>1 DEF Init
<1>3. parents = [h \in (1 .. FirstTip) \X {0} |-> 0]
  BY DEF Init
<1>4. \A i \in 1 .. FirstTip : chain[i] = 0
  BY <1>2
<1>5. NodeOK
  BY <1>1, <1>2, <1>3, <1>4 DEF NodeOK, Tip, HashAt
<1>6. pc = "idle" /\ result.kind = "none"
  BY DEF Init
<1>7. CallOK
  BY <1>6 DEF CallOK
<1> QED
  BY <1>5, <1>7 DEF IInv

(* A step of the node keeps what the running call relies on.               *)
LEMMA MoveIInv ==
    ASSUME IInv, NodeMoves
    PROVE  IInv'
<1>1. NodeOK' /\ DOMAIN parents \subseteq DOMAIN parents'
      /\ \A h \in DOMAIN parents : parents'[h] = parents[h]
  BY KnownStays DEF IInv
<1>2. Moved
  BY DEF NodeMoves, Mine, Reorg
<1>3. /\ UNCHANGED <<call, pc, hash, info, result>>
      /\ pc # "idle" => seen' = seen \cup Right(chain')
      /\ seen \subseteq seen'
  BY <1>2 DEF Moved, callVars
<1>4. Wanted' = Wanted /\ Right(chain)' = Right(chain')
  BY <1>3 DEF Wanted, Right
<1>5. \A h : Answer(h) => Answer(h)' /\ Parent(h)' = Parent(h)
                          /\ BlockOf(h)' = BlockOf(h)
  BY <1>1, <1>3, <1>4 DEF Answer, Parent, BlockOf
<1>6. pc = "getblockhash" => Right(chain)' \subseteq seen'
  BY <1>3, <1>4
<1>7. CallOK'
  BY <1>3, <1>4, <1>5, <1>6 DEF IInv, CallOK
<1> QED
  BY <1>1, <1>7 DEF IInv

(* So does every step of the client.                                       *)
LEMMA ClientIInv ==
    ASSUME IInv, Client
    PROVE  IInv'
<1>1. UNCHANGED <<chain, parents, call, seen>>
  BY DEF Client, Unreachable, Fail, Refused, getBlockHashOfHeight, getBlock,
         getTx, nodeVars
<1>2. NodeOK'
  BY <1>1 DEF IInv, NodeOK, Tip, HashAt
<1> SUFFICES CallOK'
  BY <1>2 DEF IInv
<1>3. /\ Wanted' = Wanted
      /\ \A h : Answer(h)' <=> Answer(h)
      /\ \A h : Parent(h)' = Parent(h) /\ BlockOf(h)' = BlockOf(h)
  BY <1>1 DEF Wanted, Answer, Parent, BlockOf
<1>4. Fail => CallOK'
  BY DEF Fail, CallOK
<1>5. CASE Unreachable
  BY <1>5, <1>4 DEF Unreachable
<1>6. CASE getBlockHashOfHeight
  <2>1. CASE Refused(HeightKnown)
    BY <2>1, <1>4 DEF Refused
  <2>2. CASE /\ \E h \in Decoded(HeightKnown, <<call.arg, chain[call.arg]>>,
                                 ZeroHash) : hash' = h
             /\ pc' = "getblock"
             /\ UNCHANGED <<nodeVars, call, info, result, seen, counters>>
    <3>1. pc = "getblockhash" /\ result.kind # "block"
      BY <1>6 DEF getBlockHashOfHeight, IInv, CallOK
    <3>2. hash' # ZeroHash => HeightKnown /\ hash' = HashAt(chain, call.arg)
      BY <2>2 DEF Decoded, HashAt
    <3>3. ASSUME HeightKnown, hash' = HashAt(chain, call.arg)
          PROVE  /\ hash' \in seen
                 /\ hash' \in DOMAIN parents
                 /\ hash'[1] = Wanted
      <4>1. hash' \in Right(chain)
        BY <3>3 DEF HeightKnown, Right
      <4>2. hash' \in seen
        BY <4>1, <3>1 DEF IInv, CallOK
      <4>3. call.arg \in 1 .. Tip
        BY <3>3 DEF HeightKnown, IInv, NodeOK, Tip
      <4>4. hash' \in DOMAIN parents
        BY <4>3, <3>3 DEF IInv, NodeOK
      <4> QED
        BY <4>2, <4>4, <3>3 DEF Wanted, HeightKnown, HashAt
    <3>4. (hash # ZeroHash => Answer(hash))'
      BY <3>2, <3>3, <1>1 DEF Answer, Wanted
    <3> QED
      BY <2>2, <3>1, <3>4 DEF CallOK
  <2> QED
    BY <1>6, <2>1, <2>2 DEF getBlockHashOfHeight
<1>7. CASE getBlock
  <2>1. CASE Refused(hash \in DOMAIN parents)
    BY <2>1, <1>4 DEF Refused
  <2>2. ASSUME NEW bi \in Decoded(hash \in DOMAIN parents, BlockOf(hash),
                                  ZeroInfo),
               info' = bi,
               IF bi.Tx = <<>>
               THEN pc' = "panicked" /\ result' = [kind |-> "panic"]
               ELSE pc' = "getrawtransaction" /\ UNCHANGED result
        PROVE  CallOK'
    <3>1. pc = "getblock" /\ result.kind # "block"
      BY <1>7 DEF getBlock, IInv, CallOK
    <3>2. CASE bi.Tx = <<>>
      BY <2>2, <3>2 DEF CallOK
    <3>3. CASE bi.Tx # <<>>
      <4>1. hash \in DOMAIN parents /\ bi = BlockOf(hash)
        BY <3>3, <2>2 DEF Decoded, ZeroInfo
      <4>2. hash # ZeroHash
        BY <4>1 DEF IInv, NodeOK, ZeroHash
      <4>3. Answer(hash) /\ bi.Hash = hash
        BY <4>1, <4>2, <3>1 DEF IInv, CallOK, BlockOf
      <4> QED
        BY <2>2, <3>1, <3>3, <4>1, <4>3, <1>3 DEF CallOK
    <3> QED
      BY <3>2, <3>3
  <2> QED
    BY <1>7, <2>1, <2>2 DEF getBlock
<1>8. CASE getTx
  <2>1. /\ pc = "getrawtransaction"
        /\ result' = [kind |-> "block",
                      block |-> NewBCHBlock(info, Vouts(info.Tx[1]))]
        /\ pc' = "idle"
    BY <1>8 DEF getTx
  <2>2. Answer(info.Hash) /\ info = BlockOf(info.Hash)
    BY <2>1 DEF IInv, CallOK
  <2>3. /\ result'.block.HashId = info.Hash
        /\ result'.block.ParentBlk = info.Previous
        /\ result'.block.Height = info.Height
    BY <2>1 DEF NewBCHBlock
  <2>4. /\ info.Previous = Parent(info.Hash)
        /\ info.Height = Wanted
    BY <2>2 DEF BlockOf, Answer
  <2> QED
    BY <2>1, <2>2, <2>3, <2>4, <1>3 DEF CallOK
<1> QED
  BY <1>5, <1>6, <1>7, <1>8 DEF Client

(* FetchIsAtomic holds of every behaviour: what a call of RpcClient        *)
(* returns is the block that one look at the chain, at some moment of the  *)
(* call, would have given, however often the chain was reorganized between *)
(* the two or three requests of the call.                                  *)
THEOREM FetchIsAtomicHolds == Spec => []FetchIsAtomic
<1>1. Init => IInv
  BY InitIInv
<1>2. IInv /\ [Next]_vars => IInv'
  <2> SUFFICES ASSUME IInv, [Next]_vars PROVE IInv'
    OBVIOUS
  <2>1. CASE NodeMoves
    BY <2>1, MoveIInv
  <2>2. CASE Client
    BY <2>2, ClientIInv
  <2>3. ASSUME NEW h, GetBlockByHeight(h) PROVE IInv'
    <3>1. UNCHANGED <<chain, parents>> /\ pc' = "getblockhash"
          /\ result' = [kind |-> "none"]
          /\ call' = [op |-> "height", arg |-> h]
          /\ seen' = IF h \in DOMAIN chain THEN {HashAt(chain, h)} ELSE {}
      BY <2>3 DEF GetBlockByHeight, Begin, nodeVars
    <3>2. NodeOK'
      BY <3>1 DEF IInv, NodeOK, Tip, HashAt
    <3>3. (Right(chain) \subseteq seen)'
      BY <3>1 DEF Right, HashAt
    <3> QED
      BY <3>1, <3>2, <3>3 DEF IInv, CallOK
  <2>4. ASSUME NEW h \in DOMAIN parents, GetBlockByHash(h) PROVE IInv'
    <3>1. UNCHANGED <<chain, parents>> /\ pc' = "getblock"
          /\ result' = [kind |-> "none"] /\ hash' = h
          /\ call' = [op |-> "hash", arg |-> h]
          /\ seen' = {h}
      BY <2>4 DEF GetBlockByHash, Begin, nodeVars
    <3>2. NodeOK'
      BY <3>1 DEF IInv, NodeOK, Tip, HashAt
    <3>3. Answer(h)'
      BY <3>1 DEF Answer, Wanted
    <3> QED
      BY <3>1, <3>2, <3>3 DEF IInv, CallOK
  <2>5. CASE UNCHANGED vars
    BY <2>5 DEF vars, nodeVars, callVars, IInv, NodeOK, CallOK, Tip, HashAt,
                Answer, Wanted, Right, Parent, BlockOf
  <2> QED
    BY <2>1, <2>2, <2>3, <2>4, <2>5 DEF Next
<1>3. IInv => FetchIsAtomic
  BY DEF IInv, CallOK, FetchIsAtomic, Answer, Wanted
<1> QED
  BY <1>1, <1>2, <1>3, PTL DEF Spec
=============================================================================
