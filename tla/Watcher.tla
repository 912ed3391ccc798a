------------------------------ MODULE Watcher -------------------------------
(***************************************************************************)
(* staking/watcher.go: a goroutine that follows the blocks of the Bitcoin  *)
(* Cash main chain, finalizes them and sends an epoch through EpochChan    *)
(* for every NumBlocksInEpoch finalized blocks.                            *)
(*                                                                         *)
(* External: the BCH node (blocks, chain, tip, branch), which extends its  *)
(* best chain and reorganizes it between any two RPC calls, and remembers  *)
(* the blocks of abandoned branches; the receiver of EpochChan, which is   *)
(* App's Commit. A block hash is modelled as the pair of its height and    *)
(* the branch it was mined on, which no two blocks share.                  *)
(***************************************************************************)
EXTENDS Integers, Sequences, FiniteSets, FiniteSetsExt

CONSTANTS
    FinalizeDepth,          \* 10 in addBlock: confirmations needed
    TraceLimit,             \* 10 in Run: blocks fetched by hash in a row
    NumBlocksInEpoch,       \* 2016
    NumBlocksToClearMemory, \* 100000
    KeptEpochs,             \* 5 in ClearOldData
    LastHeight,             \* NewWatcher's argument, 0 in NewApp
    FirstHeight,            \* the height of the block that has no parent
    FirstTip,               \* the height of the best chain at start
    MaxTip,                 \* bound: the highest block
    MaxBranches,            \* bound: reorganizations
    MaxReorg,               \* how many blocks a reorganization replaces
    Pubkeys,
    Nominee(_),             \* the keys nominated by the block with a hash
    TimeOf(_)               \* its timestamp

ASSUME WatcherConstants ==
    /\ {FinalizeDepth, TraceLimit, NumBlocksInEpoch, NumBlocksToClearMemory,
        KeptEpochs} \subseteq Nat \ {0}
    /\ {LastHeight, FirstHeight, FirstTip, MaxTip, MaxBranches, MaxReorg}
          \subseteq Nat
    /\ FirstHeight <= FirstTip
    /\ FirstTip <= MaxTip

(* The block hash of 32 zero bytes, and the absence of a missing hash.     *)
ZeroHash == <<>>

NoHash == <<-1>>

Hashes == (FirstHeight .. MaxTip) \X (0 .. MaxBranches)

ASSUME WatcherTimes == \A x \in Hashes : TimeOf(x) \in Nat

BCHBlock ==
    [Height : FirstHeight .. MaxTip, HashId : Hashes,
     ParentBlk : Hashes \cup {ZeroHash}]

VARIABLES
    blocks, chain, tip, branch,     \* the BCH node
    height,                         \* Run's local variable, before height++
    missingBlockHash, traceLeft,    \* Run's inner loop
    pc,                             \* "run", or "send": blocked on EpochChan
    hashToBlock, heightToFinalizedBlock,
    latestFinalizedHeight, lastEpochEndHeight, epochList,
    EpochChan,
    received,                       \* what Commit received so far
    panic

nodeVars == <<blocks, chain, tip, branch>>
loopVars == <<height, missingBlockHash, traceLeft, pc>>
epochVars == <<lastEpochEndHeight, epochList>>
storeVars == <<hashToBlock, heightToFinalizedBlock, latestFinalizedHeight>>
chanVars == <<EpochChan, received>>
vars == <<nodeVars, loopVars, epochVars, storeVars, chanVars, panic>>

-----------------------------------------------------------------------------
(* external: the BCH node                                                  *)
NewBlock(h, b, parent) ==
    [Height |-> h, HashId |-> <<h, b>>, ParentBlk |-> parent]

ParentHash(h, b) == IF h = FirstHeight THEN ZeroHash ELSE <<h - 1, b>>

ChainUpTo(h) == [i \in FirstHeight .. h |-> NewBlock(i, 0, ParentHash(i, 0))]

BestChain(c) == {c[h] : h \in DOMAIN c}

Running == panic = "none"

(* A new block on top of the best chain.                                   *)
Mine ==
    /\ Running
    /\ tip < MaxTip
    /\ tip' = tip + 1
    /\ chain' = [h \in FirstHeight .. tip + 1 |->
                    IF h <= tip THEN chain[h]
                    ELSE NewBlock(h, branch, chain[tip].HashId)]
    /\ blocks' = blocks \cup BestChain(chain')
    /\ UNCHANGED <<branch, loopVars, epochVars, storeVars, chanVars, panic>>

(* A longer branch replaces the last depth blocks.                         *)
Reorg(depth) ==
    LET fork == tip - depth
    IN  /\ Running
        /\ tip < MaxTip
        /\ branch < MaxBranches
        /\ fork >= FirstHeight
        /\ tip' = tip + 1
        /\ branch' = branch + 1
        /\ chain' = [h \in FirstHeight .. tip + 1 |->
                        IF h <= fork THEN chain[h]
                        ELSE NewBlock(h, branch + 1,
                                      IF h = fork + 1 THEN chain[fork].HashId
                                      ELSE <<h - 1, branch + 1>>)]
        /\ blocks' = blocks \cup BestChain(chain')
        /\ UNCHANGED <<loopVars, epochVars, storeVars, chanVars, panic>>

-----------------------------------------------------------------------------
(* addBlock. Ancestors(known, blk)[k] holds blk's k-th ancestor if it and  *)
(* those in between are in hashToBlock, and nothing otherwise.             *)
Ancestors(known, blk) ==
    LET up[k \in 0 .. FinalizeDepth] ==
            IF k = 0 THEN {blk}
            ELSE LET parents == {b.ParentBlk : b \in up[k - 1]}
                 IN  {p \in known : p.HashId \in parents}
    IN  up

FaultyRememberLinked(blk) ==
    IF \/ blk.ParentBlk = ZeroHash
       \/ \E p \in hashToBlock : p.HashId = blk.ParentBlk
    THEN hashToBlock \cup {blk}
    ELSE hashToBlock

(* hashToBlock with the new block in it.                                   *)
Remember(blk) == hashToBlock \cup {blk}

(* The hash that addBlock returns: the first one it cannot find on the way *)
(* up, unless the way ends at the first block of the chain.                *)
MissingParent(up) ==
    {b.ParentBlk : b \in UNION {up[k] : k \in
        {k \in 0 .. FinalizeDepth - 1 : up[k] # {} /\ up[k + 1] = {}}}}

FaultyMissingZeroHash(up) ==
    IF MissingParent(up) = {} THEN NoHash
    ELSE CHOOSE h \in MissingParent(up) : TRUE

Missing(up) ==
    IF MissingParent(up) \subseteq {ZeroHash} THEN NoHash
    ELSE CHOOSE h \in MissingParent(up) : TRUE

FaultyCandidateEarly(up) == up[FinalizeDepth - 1]

(* The block that blk's arrival finalizes: its tenth ancestor.             *)
Candidate(up) == up[FinalizeDepth]

AtHeight(h) == {b \in heightToFinalizedBlock : b.Height = h}

Settled(c) == AtHeight(c.Height) # {}

AddBlockPanic(up) ==
    IF \E c \in Candidate(up) : Settled(c) /\ c \notin heightToFinalizedBlock
    THEN "Deep Reorganization"
    ELSE IF \E c \in Candidate(up) :
                ~Settled(c) /\ c.Height # latestFinalizedHeight + 1
    THEN "Height Skipped"
    ELSE "none"

NewlyFinalized(up) == {c \in Candidate(up) : ~Settled(c)}

-----------------------------------------------------------------------------
FaultyEpochBlocksOverlap(finalized, latest) ==
    {b \in finalized : b.Height >= lastEpochEndHeight /\ b.Height <= latest}

(* generateNewEpoch up to the send. A block nominates at most one key. The *)
(* first nomination of a key enters the map with the count 1 it has in its *)
(* block and is then incremented like the others.                          *)
EpochBlocks(finalized, latest) ==
    {b \in finalized : b.Height > lastEpochEndHeight /\ b.Height <= latest}

NominatedCount(S, k) ==
    LET n == Cardinality({b \in S : k \in Nominee(b.HashId)})
    IN  IF n = 0 THEN 0 ELSE n + 1

NewEpoch(S) ==
    [StartHeight |-> lastEpochEndHeight + 1,
     EndTime |-> Max({0} \cup {TimeOf(b.HashId) : b \in S}),
     ValMapByPubkey |-> [k \in Pubkeys |-> NominatedCount(S, k)]]

FaultyOldBlocksLate ==
    LET from == epochList[Len(epochList)].StartHeight
                    - (KeptEpochs + 1) * NumBlocksInEpoch
    IN  {b \in heightToFinalizedBlock :
            /\ b.Height <= from
            /\ \A h \in b.Height .. from : AtHeight(h) # {}}

(* ClearOldData: from KeptEpochs epochs before the last one downwards, as  *)
(* far as there are blocks.                                                *)
OldBlocks ==
    LET from == epochList[Len(epochList)].StartHeight
                    - KeptEpochs * NumBlocksInEpoch
    IN  {b \in heightToFinalizedBlock :
            /\ b.Height <= from
            /\ \A h \in b.Height .. from : AtHeight(h) # {}}

RecentEpochs(list) ==
    IF Len(list) > KeptEpochs
    THEN SubSeq(list, Len(list) - KeptEpochs + 1, Len(list))
    ELSE list

-----------------------------------------------------------------------------
(* The rest of addBlock. clears: the memory of blocks is dropped when the  *)
(* call returns with nothing missing; when the call is going to wait for   *)
(* EpochChan, that is left to EpochSent.                                   *)
AddBlock(blk, clears) ==
    LET up == Ancestors(Remember(blk), blk)
        new == NewlyFinalized(up)
        finalized == heightToFinalizedBlock \cup new
        latest == latestFinalizedHeight + Cardinality(new)
        ready == new # {} /\ latest - lastEpochEndHeight = NumBlocksInEpoch
        S == EpochBlocks(finalized, latest)
        hole == ready /\ \E h \in lastEpochEndHeight + 1 .. latest :
                             \A b \in S : b.Height # h
    IN  IF AddBlockPanic(up) # "none" \/ hole
        THEN /\ panic' = IF AddBlockPanic(up) # "none" THEN AddBlockPanic(up)
                         ELSE "Missing Block"
             /\ UNCHANGED <<missingBlockHash, pc, storeVars, epochList>>
        ELSE /\ missingBlockHash' = Missing(up)
             /\ heightToFinalizedBlock' = finalized
             /\ latestFinalizedHeight' = latest
             /\ epochList' = IF ready THEN Append(epochList, NewEpoch(S))
                             ELSE epochList
             /\ pc' = IF ready THEN "send" ELSE "run"
             /\ hashToBlock' = IF clears /\ ~ready /\ Missing(up) = NoHash
                               THEN {} ELSE Remember(blk)
             /\ UNCHANGED panic

ClearsAt(h) == h % NumBlocksToClearMemory = 0

Tracing == missingBlockHash # NoHash /\ traceLeft > 0

(* One turn of Run's outer loop: the next block by its height. The height  *)
(* is fetched again when an ancestor was missing.                          *)
NextHeight(missing) == IF missing = NoHash THEN height + 1 ELSE height

Fetch ==
    /\ Running
    /\ pc = "run"
    /\ ~Tracing
    /\ height + 1 \in DOMAIN chain
    /\ AddBlock(chain[height + 1], ClearsAt(height + 1))
    /\ height' = NextHeight(missingBlockHash')
    /\ traceLeft' = TraceLimit
    /\ UNCHANGED <<nodeVars, lastEpochEndHeight, chanVars>>

(* GetBlockByHeight answers nil, because the node has no such block yet or *)
(* because a request fails: Run waits for five minutes, and then hands the *)
(* nil block to addBlock, which dereferences it.                           *)
FetchNil ==
    /\ Running
    /\ pc = "run"
    /\ ~Tracing
    /\ panic' = "nil block"
    /\ UNCHANGED <<nodeVars, loopVars, epochVars, storeVars, chanVars>>

(* One turn of the inner loop: the missing block by its hash.              *)
Trace ==
    /\ Running
    /\ pc = "run"
    /\ Tracing
    /\ \E blk \in blocks :
          /\ blk.HashId = missingBlockHash
          /\ AddBlock(blk, FALSE)
    /\ traceLeft' = traceLeft - 1
    /\ UNCHANGED <<nodeVars, height, lastEpochEndHeight, chanVars>>

(* GetBlockByHash answers nil, because a request fails.                    *)
TraceNil ==
    /\ Running
    /\ pc = "run"
    /\ Tracing
    /\ panic' = "no parent block"
    /\ UNCHANGED <<nodeVars, loopVars, epochVars, storeVars, chanVars>>

FaultyEpochToSend == epochList[1]

EpochToSend == epochList[Len(epochList)]

(* The send on EpochChan, which waits while the channel is full, and the   *)
(* end of generateNewEpoch. If Run's outer loop called addBlock, it may    *)
(* drop the memory of blocks next.                                         *)
EpochSent ==
    /\ Running
    /\ pc = "send"
    /\ EpochChan = <<>>
    /\ EpochChan' = <<EpochToSend>>
    /\ lastEpochEndHeight' = latestFinalizedHeight
    /\ heightToFinalizedBlock' = heightToFinalizedBlock \ OldBlocks
    /\ hashToBlock' = IF traceLeft = TraceLimit /\ ClearsAt(height) THEN {}
                      ELSE hashToBlock \ OldBlocks
    /\ epochList' = RecentEpochs(epochList)
    /\ pc' = "run"
    /\ UNCHANGED <<nodeVars, height, missingBlockHash, traceLeft,
                   latestFinalizedHeight, received, panic>>

(* Commit's non-blocking receive. A panic of the watcher ends the process. *)
Receive ==
    /\ Running
    /\ EpochChan # <<>>
    /\ received' = received \o EpochChan
    /\ EpochChan' = <<>>
    /\ UNCHANGED <<nodeVars, loopVars, epochVars, storeVars, panic>>

(* NewWatcher *)
Init ==
    /\ tip = FirstTip
    /\ chain = ChainUpTo(FirstTip)
    /\ blocks = BestChain(chain)
    /\ branch = 0
    /\ height = LastHeight
    /\ missingBlockHash = NoHash
    /\ traceLeft = 0
    /\ pc = "run"
    /\ hashToBlock = {}
    /\ heightToFinalizedBlock = {}
    /\ latestFinalizedHeight = LastHeight
    /\ lastEpochEndHeight = LastHeight
    /\ epochList = <<>>
    /\ EpochChan = <<>>
    /\ received = <<>>
    /\ panic = "none"

WatcherStep == Fetch \/ FetchNil \/ Trace \/ TraceNil \/ EpochSent

Next ==
    \/ Mine
    \/ \E depth \in 1 .. MaxReorg : Reorg(depth)
    \/ WatcherStep
    \/ Receive

(* The watcher's goroutine is scheduled, and blocks are committed so that  *)
(* EpochChan is read; nothing is assumed of the BCH node, which may fail   *)
(* to answer any request.                                                  *)
Spec == Init /\ [][Next]_vars /\ WF_vars(WatcherStep) /\ WF_vars(Receive)

-----------------------------------------------------------------------------
(* Properties.                                                             *)

Epoch == [StartHeight : Int, EndTime : Nat, ValMapByPubkey : [Pubkeys -> Nat]]

(* The types of all variables.                                             *)
TypeOK ==
    /\ blocks \subseteq BCHBlock
    /\ tip \in FirstHeight .. MaxTip
    /\ chain \in [FirstHeight .. tip -> BCHBlock]
    /\ branch \in 0 .. MaxBranches
    /\ height \in Nat
    /\ missingBlockHash \in Hashes \cup {NoHash}
    /\ traceLeft \in 0 .. TraceLimit
    /\ pc \in {"run", "send"}
    /\ hashToBlock \subseteq BCHBlock
    /\ heightToFinalizedBlock \subseteq BCHBlock
    /\ latestFinalizedHeight \in Nat
    /\ lastEpochEndHeight \in Nat
    /\ epochList \in Seq(Epoch)
    /\ EpochChan \in Seq(Epoch)
    /\ received \in Seq(Epoch)
    /\ panic \in {"none", "nil block", "no parent block",
                  "Deep Reorganization", "Height Skipped", "Missing Block"}

(* addBlock, "a block need 10 confirmation to finalize": what is finalized *)
(* stays on the best chain of the node, whatever is reorganized later.     *)
FinalizedOnBestChain == heightToFinalizedBlock \subseteq BestChain(chain)

(* The epochs that Commit receives are consecutive, without gap, overlap   *)
(* or repetition, and each one's end time and nominated keys are those of  *)
(* its blocks on the best chain.                                           *)
EpochsPartition ==
    \A i \in 1 .. Len(received) :
        LET start == LastHeight + 1 + (i - 1) * NumBlocksInEpoch
            hashes == {chain[h].HashId :
                        h \in start .. start + NumBlocksInEpoch - 1}
        IN  /\ received[i].StartHeight = start
            /\ received[i].EndTime = Max({0} \cup {TimeOf(x) : x \in hashes})
            /\ \A k \in Pubkeys :
                  received[i].ValMapByPubkey[k] > 0
                    <=> \E x \in hashes : k \in Nominee(x)

(* ClearOldData keeps the finalized blocks of the KeptEpochs epochs before *)
(* the last one, the last one and the one being collected, and drops the   *)
(* rest.                                                                   *)
MemoryBounded ==
    /\ Cardinality(heightToFinalizedBlock)
          <= (KeptEpochs + 2) * NumBlocksInEpoch - 1
    /\ Len(epochList) <= KeptEpochs + 1

(* The watcher stopped because the node did not answer a request for a     *)
(* block that it has.                                                      *)
Unanswered ==
    \/ panic = "nil block" /\ height + 1 \in DOMAIN chain
    \/ panic = "no parent block"

(* Run has added the tip of the best chain and has nothing to trace.       *)
AtTip == height = tip /\ pc = "run" /\ ~Tracing

(* Run reaches the tip of the best chain, unless a request is not          *)
(* answered, and by then it has finalized all blocks that are deep enough  *)
(* and sent every complete epoch: neither a reorganization, nor the        *)
(* dropping of the memory, nor a full EpochChan holds it up for ever, and  *)
(* while reorganizations stay within the confirmation depth none of the    *)
(* panics "Deep Reorganization", "Height Skipped" and "Missing Block"      *)
(* stops it. What the watcher does when it then asks for more is left open.*)
AllEpochsSent ==
    <>(\/ Unanswered
       \/ /\ AtTip
          /\ Len(received) + Len(EpochChan)
                = (height - FinalizeDepth - LastHeight) \div NumBlocksInEpoch)

-----------------------------------------------------------------------------
(* The watcher implements EpochSource: whatever the node reorganizes and   *)
(* the watcher forgets, what passes through EpochChan is the sequence of   *)
(* epochs that app.go relies on.                                           *)
Starts(s) == [i \in 1 .. Len(s) |-> s[i].StartHeight]

Source == INSTANCE EpochSource
            WITH EpochLength <- NumBlocksInEpoch,
                 chan <- Starts(EpochChan),
                 received <- Starts(received)

ImplementsEpochSource == Source!Spec
=============================================================================
