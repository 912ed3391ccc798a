------------------------------ MODULE RpcClient ------------------------------
(***************************************************************************)
(* staking/rpcclient.go: how the watcher gets a block of the main chain.   *)
(* GetBlockByHeight takes three requests, for the hash at a height, for    *)
(* the block and for its coinbase transaction; GetBlockByHash takes the    *)
(* last two. Watcher models each as one step; here the node may move       *)
(* between any two requests.                                               *)
(*                                                                         *)
(* External: the BCH node, which knows the blocks of all branches. A       *)
(* request it cannot serve is answered with an error, either the object    *)
(* that JsonRpcError describes, which decodes and leaves the result at its *)
(* zero value, or something else (mocknode sends a text), which does not   *)
(* decode. A request may fail on its way. A hash is the pair of a height   *)
(* and a branch.                                                           *)
(***************************************************************************)
EXTENDS Integers, Sequences, FiniteSets, FiniteSetsExt

CONSTANTS
    FirstTip, MaxTip,   \* the best chain's height at the start, and a bound
    MaxBranches,        \* bound: reorganizations
    MaxFailures,        \* bound: requests that fail
    MaxCalls,           \* bound: calls of the watcher
    ErrorForms,         \* subset of {"object", "other"}
    Vouts(_)            \* outputs of a block's coinbase transaction, in order

ASSUME RpcClientAssumption ==
    /\ {FirstTip, MaxTip, MaxBranches, MaxFailures, MaxCalls} \subseteq Nat
    /\ 0 < FirstTip /\ FirstTip <= MaxTip
    /\ ErrorForms \subseteq {"object", "other"}

VARIABLES
    chain,      \* the best chain: the branch of the block at each height
    parents,    \* for each known block the branch of its parent
    call,       \* the call that runs, or "none"
    pc,         \* the request it waits for
    hash,       \* the hash it asks for
    info,       \* the BlockInfo it got
    result,     \* what the last call ended with
    seen,       \* blocks that were the right answer since it began (history)
    failures, calls

nodeVars == <<chain, parents>>
callVars == <<call, pc, hash, info, result>>
counters == <<failures, calls>>
vars == <<nodeVars, callVars, seen, counters>>

Tip == Len(chain)

HashAt(c, h) == <<h, c[h]>>

(* The zero values: no hash, and a block without transactions.             *)
ZeroHash == <<>>

ZeroInfo == [Hash |-> ZeroHash, Previous |-> ZeroHash, Height |-> 0,
             Tx |-> <<>>]

-----------------------------------------------------------------------------
(* external: the node                                                      *)
Parent(h) == IF h[1] = 1 THEN ZeroHash ELSE <<h[1] - 1, parents[h]>>

BlockOf(h) ==
    [Hash |-> h, Previous |-> Parent(h), Height |-> h[1], Tx |-> <<h>>]

Right(c) == IF call.op = "height" /\ call.arg \in DOMAIN c
            THEN {HashAt(c, call.arg)} ELSE {}

Moved ==
    /\ seen' = IF pc = "idle" THEN seen ELSE seen \cup Right(chain')
    /\ UNCHANGED <<callVars, counters>>

Mine(b) ==
    /\ chain' = Append(chain, b)
    /\ parents' = [h \in DOMAIN parents \cup {<<Tip + 1, b>>} |->
                    IF h = <<Tip + 1, b>> THEN chain[Tip] ELSE parents[h]]
    /\ Moved

(* The last depth blocks are replaced by depth + 1 blocks of a new branch. *)
Reorg(depth) ==
    LET b == 1 + Max({h[2] : h \in DOMAIN parents})
        fork == Tip - depth
        new == {<<i, b>> : i \in fork + 1 .. Tip + 1}
    IN  /\ b <= MaxBranches
        /\ fork >= 1
        /\ chain' = [i \in 1 .. Tip + 1 |-> IF i <= fork THEN chain[i] ELSE b]
        /\ parents' = [h \in DOMAIN parents \cup new |->
                        IF h \notin new THEN parents[h]
                        ELSE IF h[1] = fork + 1 THEN chain[fork] ELSE b]
        /\ Moved

NodeMoves ==
    /\ Tip < MaxTip
    /\ Mine(chain[Tip]) \/ \E depth \in 1 .. Tip : Reorg(depth)

-----------------------------------------------------------------------------
(* The calls of the watcher.                                               *)
Begin(op, arg, request) ==
    /\ pc = "idle"
    /\ calls < MaxCalls
    /\ calls' = calls + 1
    /\ call' = [op |-> op, arg |-> arg]
    /\ pc' = request
    /\ result' = [kind |-> "none"]
    /\ info' = ZeroInfo

GetBlockByHeight(h) ==
    /\ Begin("height", h, "getblockhash")
    /\ hash' = ZeroHash
    /\ seen' = IF h \in DOMAIN chain THEN {HashAt(chain, h)} ELSE {}
    /\ UNCHANGED <<nodeVars, failures>>

GetBlockByHash(h) ==
    /\ Begin("hash", h, "getblock")
    /\ hash' = h
    /\ seen' = {h}
    /\ UNCHANGED <<nodeVars, failures>>

(* nil, with client.err set.                                               *)
Fail ==
    /\ pc' = "idle"
    /\ result' = [kind |-> "nil"]
    /\ UNCHANGED <<nodeVars, call, hash, info, seen, calls>>

Unreachable ==
    /\ pc # "idle" /\ pc # "panicked"
    /\ failures < MaxFailures
    /\ failures' = failures + 1
    /\ Fail

(* What json.Unmarshal makes of an answer: the results it may leave, where *)
(* an error object is a result at its zero value.                          *)
Decoded(known, value, zero) ==
    IF known THEN {value} ELSE {zero : form \in ErrorForms \cap {"object"}}

Refused(known) ==
    /\ ~known
    /\ "other" \in ErrorForms
    /\ Fail
    /\ UNCHANGED failures

HeightKnown == call.op = "height" /\ call.arg \in DOMAIN chain

(* getBlockHashOfHeight                                                    *)
getBlockHashOfHeight ==
    /\ pc = "getblockhash"
    /\ \/ Refused(HeightKnown)
       \/ /\ \E h \in Decoded(HeightKnown, <<call.arg, chain[call.arg]>>,
                              ZeroHash) : hash' = h
          /\ pc' = "getblock"
          /\ UNCHANGED <<nodeVars, call, info, result, seen, counters>>

(* getBlock, and getBCHBlock up to bi.Tx[0].                               *)
getBlock ==
    /\ pc = "getblock"
    /\ \/ Refused(hash \in DOMAIN parents)
       \/ \E bi \in Decoded(hash \in DOMAIN parents, BlockOf(hash), ZeroInfo) :
            /\ info' = bi
            /\ IF bi.Tx = <<>>
               THEN /\ pc' = "panicked"
                    /\ result' = [kind |-> "panic"]
               ELSE /\ pc' = "getrawtransaction"
                    /\ UNCHANGED result
            /\ UNCHANGED <<nodeVars, call, hash, seen, counters>>

(* Whether an output is a script that nominates a key: OP_RETURN with the  *)
(* identifier and the version, then 64 hexadecimal digits.                 *)
Nominates(vout) == vout.script = "nomination"

(* GetValidatorPubKey: the key of the first such output. The ok that it    *)
(* returns is not the one the loop assigns.                                *)
GetValidatorPubKey(vouts) ==
    LET found == {i \in DOMAIN vouts : Nominates(vouts[i])}
    IN  [pubKey |-> IF found = {} THEN {}
                    ELSE {vouts[Min(found)].key},
         ok |-> FALSE]

FaultyNewBCHBlock(bi, vouts) ==
    [Height |-> bi.Height, HashId |-> bi.Hash, ParentBlk |-> bi.Hash,
     Nominations |-> {}]

NewBCHBlock(bi, vouts) ==
    LET found == GetValidatorPubKey(vouts)
    IN  [Height |-> bi.Height, HashId |-> bi.Hash, ParentBlk |-> bi.Previous,
         Nominations |-> IF found.ok THEN found.pubKey ELSE {}]

(* getTx of the coinbase transaction, which the node has, and the block    *)
(* that getBCHBlock returns.                                               *)
getTx ==
    /\ pc = "getrawtransaction"
    /\ result' = [kind |-> "block",
                  block |-> NewBCHBlock(info, Vouts(info.Tx[1]))]
    /\ pc' = "idle"
    /\ UNCHANGED <<nodeVars, call, hash, info, seen, counters>>

Client == Unreachable \/ getBlockHashOfHeight \/ getBlock \/ getTx

Init ==
    /\ chain = [h \in 1 .. FirstTip |-> 0]
    /\ parents = [h \in (1 .. FirstTip) \X {0} |-> 0]
    /\ call = [op |-> "none"]
    /\ pc = "idle"
    /\ hash = ZeroHash
    /\ info = ZeroInfo
    /\ result = [kind |-> "none"]
    /\ seen = {}
    /\ failures = 0
    /\ calls = 0

(* The watcher asks for heights up to the one after the tip, and for the   *)
(* parents of blocks it knows.                                             *)
Next ==
    \/ NodeMoves
    \/ \E h \in 1 .. Tip + 1 : GetBlockByHeight(h)
    \/ \E h \in DOMAIN parents : GetBlockByHash(h)
    \/ Client

Spec == Init /\ [][Next]_vars

-----------------------------------------------------------------------------
(* GetBlockByHeight and GetBlockByHash, although made of several requests, *)
(* return what a single look at the node's chain at some moment of the     *)
(* call would have: the block that was best at the height, or the one with *)
(* the hash, with its own height and parent. This is what lets Watcher     *)
(* take each call as one step.                                             *)
FetchIsAtomic ==
    result.kind = "block" =>
        LET blk == result.block
        IN  /\ blk.HashId \in seen
            /\ blk.ParentBlk = Parent(blk.HashId)
            /\ blk.Height = IF call.op = "height" THEN call.arg
                            ELSE call.arg[1]
=============================================================================
