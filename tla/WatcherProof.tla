---------------------------- MODULE WatcherProof -----------------------------
(***************************************************************************)
(* The theorems about Watcher, for every chain, every depth of finality,   *)
(* length of an epoch and number of kept epochs.                           *)
(***************************************************************************)
EXTENDS Watcher, ProofLemmas, SequenceTheorems

(* What the main chain is made of: a block is known by its hash, and its   *)
(* parent is one lower.                                                    *)
NodeOK ==
    /\ tip \in FirstHeight .. MaxTip
    /\ branch \in 0 .. MaxBranches
    /\ blocks \subseteq BCHBlock
    /\ chain \in [FirstHeight .. tip -> blocks]
    /\ \A h \in FirstHeight .. tip : chain[h].Height = h
    /\ \A h \in FirstHeight + 1 .. tip :
          chain[h].ParentBlk = chain[h - 1].HashId
    /\ \A b \in blocks :
          /\ b.HashId[1] = b.Height
          /\ b.HashId[2] <= branch
          /\ b.Height <= tip
          /\ b.ParentBlk # ZeroHash => /\ b.ParentBlk[1] = b.Height - 1
                                       /\ b.ParentBlk[2] <= branch
    /\ \A a, b \in blocks : a.HashId = b.HashId => a = b

-----------------------------------------------------------------------------
(* The constants, one by one.                                              *)
LEMMA Constants ==
    /\ FinalizeDepth \in Nat /\ FinalizeDepth >= 1
    /\ TraceLimit \in Nat /\ TraceLimit >= 1
    /\ NumBlocksInEpoch \in Nat /\ NumBlocksInEpoch >= 1
    /\ NumBlocksToClearMemory \in Nat /\ NumBlocksToClearMemory >= 1
    /\ KeptEpochs \in Nat /\ KeptEpochs >= 1
    /\ LastHeight \in Nat /\ FirstHeight \in Nat /\ FirstTip \in Nat
    /\ MaxTip \in Nat /\ MaxBranches \in Nat /\ MaxReorg \in Nat
    /\ FirstHeight <= FirstTip /\ FirstTip <= MaxTip
BY WatcherConstants

(* A hash is not the zero hash.                                            *)
LEMMA HashesNotZero == ZeroHash \notin Hashes
BY Constants DEF Hashes, ZeroHash

(* A block's parent is one lower than the block.                           *)
LEMMA ParentBelow ==
    ASSUME NodeOK, NEW a \in blocks, NEW b \in blocks, b.ParentBlk = a.HashId
    PROVE  a.Height = b.Height - 1
<1>1. a.HashId \in Hashes
  BY DEF NodeOK, BCHBlock
<1>2. b.ParentBlk # ZeroHash
  BY <1>1, HashesNotZero
<1> QED
  BY <1>2 DEF NodeOK

(* The fields of a block.                                                  *)
LEMMA BlockFields ==
    ASSUME NEW h, NEW b, NEW parent
    PROVE  /\ NewBlock(h, b, parent).Height = h
           /\ NewBlock(h, b, parent).HashId = <<h, b>>
           /\ NewBlock(h, b, parent).ParentBlk = parent
           /\ /\ h \in FirstHeight .. MaxTip
              /\ <<h, b>> \in Hashes
              /\ parent \in Hashes \cup {ZeroHash}
              => NewBlock(h, b, parent) \in BCHBlock
BY DEF NewBlock, BCHBlock

(* The chain that the watcher starts on is in order.                       *)
LEMMA InitNodeOK == Init => NodeOK
<1> SUFFICES ASSUME Init PROVE NodeOK
  OBVIOUS
<1>1. /\ tip = FirstTip /\ branch = 0 /\ chain = ChainUpTo(FirstTip)
      /\ blocks = {chain[h] : h \in FirstHeight .. FirstTip}
  BY DEF Init, BestChain, ChainUpTo
<1>2. \A h \in FirstHeight .. FirstTip :
          /\ chain[h] = NewBlock(h, 0, ParentHash(h, 0))
          /\ chain[h].Height = h /\ chain[h].HashId = <<h, 0>>
          /\ chain[h].ParentBlk = ParentHash(h, 0)
  <2> TAKE h \in FirstHeight .. FirstTip
  <2>1. chain[h] = NewBlock(h, 0, ParentHash(h, 0))
    BY <1>1 DEF ChainUpTo
  <2>2. PICK parent : parent = ParentHash(h, 0)
    OBVIOUS
  <2>3. chain[h] = NewBlock(h, 0, parent)
    BY <2>1, <2>2
  <2> QED
    BY <2>2, <2>3 DEF NewBlock
<1>3. \A h \in FirstHeight .. FirstTip : chain[h] \in BCHBlock
  <2> TAKE h \in FirstHeight .. FirstTip
  <2>1. <<h, 0>> \in Hashes
    BY Constants DEF Hashes
  <2>2. ParentHash(h, 0) \in Hashes \cup {ZeroHash}
    <3>1. h # FirstHeight => <<h - 1, 0>> \in Hashes
      BY Constants DEF Hashes
    <3> QED
      BY <3>1 DEF ParentHash
  <2>3. h \in FirstHeight .. MaxTip
    BY Constants
  <2> QED
    BY <1>2, <2>1, <2>2, <2>3, BlockFields
<1>4. chain \in [FirstHeight .. FirstTip -> blocks]
  BY <1>1 DEF ChainUpTo
<1>5. \A b \in blocks : \E h \in FirstHeight .. FirstTip : b = chain[h]
  BY <1>1
<1>6. ASSUME NEW b \in blocks
      PROVE  /\ b.HashId[1] = b.Height /\ b.HashId[2] <= branch
             /\ b.Height <= tip
             /\ b.ParentBlk # ZeroHash => /\ b.ParentBlk[1] = b.Height - 1
                                          /\ b.ParentBlk[2] <= branch
  <2>1. PICK h \in FirstHeight .. FirstTip : b = chain[h]
    BY <1>5
  <2>2. /\ b.Height = h /\ b.HashId = <<h, 0>>
        /\ b.ParentBlk = ParentHash(h, 0)
    BY <2>1, <1>2
  <2>3. ParentHash(h, 0) # ZeroHash => /\ ParentHash(h, 0)[1] = h - 1
                                       /\ ParentHash(h, 0)[2] = 0
    BY DEF ParentHash
  <2>4. b.HashId[1] = h /\ b.HashId[2] = 0
    BY <2>2
  <2> QED
    BY <2>2, <2>3, <2>4, <1>1, Constants
<1>7. ASSUME NEW a \in blocks, NEW b \in blocks, a.HashId = b.HashId
      PROVE  a = b
  <2>1. PICK h \in FirstHeight .. FirstTip : a = chain[h]
    BY <1>5
  <2>2. PICK i \in FirstHeight .. FirstTip : b = chain[i]
    BY <1>5
  <2>3. <<h, 0>> = <<i, 0>>
    BY <2>1, <2>2, <1>2, <1>7
  <2>4. h = i
    BY <2>3
  <2> QED
    BY <2>1, <2>2, <2>4
<1>8. \A h \in FirstHeight + 1 .. tip : chain[h].ParentBlk = chain[h - 1].HashId
  <2> TAKE h \in FirstHeight + 1 .. tip
  <2>1. /\ h \in FirstHeight .. FirstTip /\ h - 1 \in FirstHeight .. FirstTip
        /\ h # FirstHeight
    BY <1>1, Constants
  <2>2. chain[h].ParentBlk = <<h - 1, 0>>
    BY <2>1, <1>2 DEF ParentHash
  <2> QED
    BY <2>1, <2>2, <1>2
<1>9. blocks \subseteq BCHBlock
  BY <1>3, <1>5
<1> QED
  BY <1>1, <1>2, <1>4, <1>6, <1>7, <1>8, <1>9, Constants DEF NodeOK

-----------------------------------------------------------------------------
(* What Mine and Reorg have in common: blocks of branch b on top of the    *)
(* chain up to fork.                                                       *)
Grown(fork, b) ==
    /\ fork \in FirstHeight .. tip
    /\ tip < MaxTip /\ tip' = tip + 1
    /\ b \in branch .. MaxBranches /\ branch' = b
    /\ fork < tip => b > branch
    /\ DOMAIN chain' = FirstHeight .. tip + 1
    /\ chain' = [h \in FirstHeight .. tip + 1 |-> chain'[h]]
    /\ \A h \in FirstHeight .. fork : chain'[h] = chain[h]
    /\ \A h \in fork + 1 .. tip + 1 :
          chain'[h] = NewBlock(h, b, IF h = fork + 1 THEN chain[fork].HashId
                                     ELSE <<h - 1, b>>)
    /\ blocks' = blocks \cup BestChain(chain')

(* A new block grows the chain on its tip.                                 *)
LEMMA MineGrows ==
    ASSUME NodeOK, Mine
    PROVE  Grown(tip, branch)
<1>1. tip \in Nat /\ branch \in Nat /\ FirstHeight \in Nat
  BY Constants DEF NodeOK
<1>2. /\ tip < MaxTip /\ tip' = tip + 1 /\ branch' = branch
      /\ chain' = [h \in FirstHeight .. tip + 1 |->
                    IF h <= tip THEN chain[h]
                    ELSE NewBlock(h, branch, chain[tip].HashId)]
      /\ blocks' = blocks \cup BestChain(chain')
  BY DEF Mine
<1>3. \A h \in FirstHeight .. tip : chain'[h] = chain[h]
  BY <1>1, <1>2
<1>4. ASSUME NEW h \in tip + 1 .. tip + 1
      PROVE  chain'[h] = NewBlock(h, branch, chain[tip].HashId) /\ h = tip + 1
  <2>1. h = tip + 1 /\ h \in FirstHeight .. tip + 1 /\ ~ (h <= tip)
    BY <1>1 DEF NodeOK
  <2> QED
    BY <2>1, <1>2
<1>5. DOMAIN chain' = FirstHeight .. tip + 1
      /\ chain' = [h \in FirstHeight .. tip + 1 |-> chain'[h]]
  BY <1>2
<1>6. tip \in FirstHeight .. tip /\ branch \in branch .. MaxBranches
  BY <1>1 DEF NodeOK
<1> QED
  BY <1>1, <1>2, <1>3, <1>4, <1>5, <1>6 DEF Grown

(* A reorganization grows a new branch below the tip.                      *)
LEMMA ReorgGrows ==
    ASSUME NodeOK, NEW depth \in 1 .. MaxReorg, Reorg(depth)
    PROVE  Grown(tip - depth, branch + 1)
<1>1. /\ tip \in Nat /\ branch \in Nat /\ FirstHeight \in Nat
      /\ depth \in Nat /\ depth >= 1
  BY Constants DEF NodeOK
<1>2. PICK fork : fork = tip - depth
  OBVIOUS
<1>3. /\ fork >= FirstHeight /\ tip < MaxTip /\ tip' = tip + 1
      /\ branch < MaxBranches /\ branch' = branch + 1
      /\ chain' = [h \in FirstHeight .. tip + 1 |->
                    IF h <= fork THEN chain[h]
                    ELSE NewBlock(h, branch + 1,
                                  IF h = fork + 1 THEN chain[fork].HashId
                                  ELSE <<h - 1, branch + 1>>)]
      /\ blocks' = blocks \cup BestChain(chain')
  BY <1>2 DEF Reorg
<1>4. fork \in Nat /\ fork < tip
  BY <1>1, <1>2, <1>3
<1>5. \A h \in FirstHeight .. fork : chain'[h] = chain[h]
  BY <1>1, <1>3, <1>4
<1>6. \A h \in fork + 1 .. tip + 1 :
        chain'[h] = NewBlock(h, branch + 1,
                             IF h = fork + 1 THEN chain[fork].HashId
                             ELSE <<h - 1, branch + 1>>)
  <2> TAKE h \in fork + 1 .. tip + 1
  <2>1. h \in FirstHeight .. tip + 1 /\ ~ (h <= fork)
    BY <1>1, <1>3, <1>4
  <2>2. chain'[h] = IF h <= fork THEN chain[h]
                    ELSE NewBlock(h, branch + 1,
                                  IF h = fork + 1 THEN chain[fork].HashId
                                  ELSE <<h - 1, branch + 1>>)
    BY <2>1, <1>3, Zenon
  <2> QED
    BY <2>1, <2>2, Zenon
<1>7. DOMAIN chain' = FirstHeight .. tip + 1
      /\ chain' = [h \in FirstHeight .. tip + 1 |-> chain'[h]]
  BY <1>3
<1>8. fork \in FirstHeight .. tip /\ branch + 1 \in branch .. MaxBranches
  BY <1>1, <1>3, <1>4, Constants DEF NodeOK
<1>9. Grown(fork, branch + 1)
  BY <1>1, <1>3, <1>5, <1>6, <1>7, <1>8 DEF Grown
<1> QED
  BY <1>2, <1>9

(* The new blocks are new, and the node stays in order.                    *)
LEMMA GrownFacts ==
    ASSUME NodeOK, NEW fork, NEW b, Grown(fork, b)
    PROVE  /\ NodeOK'
           /\ \A x \in blocks' :
                x \in blocks \/ \E h \in fork + 1 .. tip + 1 : x = chain'[h]
           /\ \A h \in fork + 1 .. tip + 1 : \A a \in blocks :
                /\ a.HashId # chain'[h].HashId
                /\ a.ParentBlk # chain'[h].HashId
<1>1. /\ tip \in Nat /\ branch \in Nat /\ FirstHeight \in Nat
      /\ fork \in Nat /\ FirstHeight <= fork /\ fork <= tip
      /\ b \in Nat /\ branch <= b /\ b <= MaxBranches
      /\ tip + 1 <= MaxTip /\ MaxTip \in Nat /\ MaxBranches \in Nat
      /\ tip' = tip + 1 /\ branch' = b
      /\ fork < tip => branch < b
  BY Constants, SMTT(20) DEF NodeOK, Grown
<1>2. \A h \in FirstHeight .. tip + 1 :
          h \in FirstHeight .. fork \/ h \in fork + 1 .. tip + 1
  BY <1>1
<1>3. \A h \in FirstHeight .. fork :
          /\ h \in FirstHeight .. tip
          /\ chain'[h] = chain[h]
          /\ chain[h] \in blocks
  BY <1>1 DEF Grown, NodeOK
<1>4. ASSUME NEW h \in fork + 1 .. tip + 1
      PROVE  /\ chain'[h].Height = h
             /\ chain'[h].HashId = <<h, b>>
             /\ chain'[h].ParentBlk = IF h = fork + 1 THEN chain[fork].HashId
                                      ELSE <<h - 1, b>>
             /\ chain'[h].ParentBlk \in Hashes
             /\ chain'[h].ParentBlk[1] = h - 1
             /\ chain'[h].ParentBlk[2] <= b
             /\ chain'[h] \in BCHBlock
  <2>1. PICK parent : parent = IF h = fork + 1 THEN chain[fork].HashId
                               ELSE <<h - 1, b>>
    OBVIOUS
  <2>2. chain'[h] = NewBlock(h, b, parent)
    BY <2>1 DEF Grown
  <2>3. /\ chain[fork].HashId \in Hashes
        /\ chain[fork].HashId[1] = fork
        /\ chain[fork].HashId[2] <= branch
        /\ chain[fork].HashId[2] \in Nat
    <3>1. fork \in FirstHeight .. tip
      BY <1>1
    <3>2. chain[fork] \in blocks /\ chain[fork].Height = fork
      BY <3>1 DEF NodeOK
    <3>3. chain[fork].HashId \in Hashes
      BY <3>2 DEF NodeOK, BCHBlock
    <3> QED
      BY <3>2, <3>3 DEF NodeOK, Hashes
  <2>4. h # fork + 1 => <<h - 1, b>> \in Hashes
    BY <1>1 DEF Hashes
  <2>5. /\ parent \in Hashes /\ parent[1] = h - 1 /\ parent[2] <= b
    <3>1. CASE h = fork + 1
      BY <3>1, <2>1, <2>3, <1>1
    <3>2. CASE h # fork + 1
      BY <3>2, <2>1, <2>4, <1>1
    <3> QED
      BY <3>1, <3>2
  <2>6. <<h, b>> \in Hashes /\ h \in FirstHeight .. MaxTip
    BY <1>1 DEF Hashes
  <2>7. chain'[h] \in BCHBlock
    BY <2>2, <2>5, <2>6, BlockFields
  <2>8. /\ chain'[h].Height = h
        /\ chain'[h].HashId = <<h, b>>
        /\ chain'[h].ParentBlk = parent
    BY <2>2 DEF NewBlock
  <2> QED
    BY <2>1, <2>5, <2>7, <2>8
<1>5. /\ DOMAIN chain' = FirstHeight .. tip + 1
      /\ chain' = [h \in FirstHeight .. tip + 1 |-> chain'[h]]
      /\ blocks' = blocks \cup {chain'[h] : h \in FirstHeight .. tip + 1}
  BY DEF Grown, BestChain
<1>6. \A x \in blocks' :
          x \in blocks \/ \E h \in fork + 1 .. tip + 1 : x = chain'[h]
  BY <1>2, <1>3, <1>5
<1>7. ASSUME NEW h \in fork + 1 .. tip + 1, NEW a \in blocks
      PROVE  a.HashId # chain'[h].HashId /\ a.ParentBlk # chain'[h].HashId
  <2>1. chain'[h].HashId = <<h, b>> /\ <<h, b>>[1] = h /\ <<h, b>>[2] = b
    BY <1>4
  <2>2. /\ a.HashId[1] = a.Height /\ a.HashId[2] <= branch
        /\ a.Height <= tip /\ a.Height \in Nat
        /\ a.HashId[2] \in Nat
    <3>1. a \in BCHBlock
      BY DEF NodeOK
    <3>2. a.HashId \in Hashes /\ a.Height \in FirstHeight .. MaxTip
      BY <3>1 DEF BCHBlock
    <3> QED
      BY <3>2, <1>1 DEF NodeOK, Hashes
  <2>3. a.ParentBlk # ZeroHash => /\ a.ParentBlk[1] = a.Height - 1
                                  /\ a.ParentBlk[2] <= branch
    BY DEF NodeOK
  <2>4. <<h, b>> # ZeroHash
    BY DEF ZeroHash
  <2>5. h = tip + 1 \/ branch < b
    BY <1>1
  <2>6. a.HashId # <<h, b>>
    BY <2>1, <2>2, <2>5, <1>1
  <2>7. ASSUME a.ParentBlk = <<h, b>> PROVE FALSE
    <3>1. h = a.Height - 1 /\ b <= branch
      BY <2>1, <2>3, <2>4, <2>7
    <3> QED
      BY <3>1, <2>2, <2>5, <1>1
  <2> QED
    BY <2>1, <2>6, <2>7
<1>8. NodeOK'
  <2>1. (tip \in FirstHeight .. MaxTip)' /\ (branch \in 0 .. MaxBranches)'
    BY <1>1
  <2>2. (blocks \subseteq BCHBlock)'
    <3>1. \A x \in blocks' : x \in BCHBlock
      <4>1. blocks \subseteq BCHBlock
        BY DEF NodeOK
      <4>2. \A h \in fork + 1 .. tip + 1 : chain'[h] \in BCHBlock
        BY <1>4, Zenon
      <4> QED
        BY <4>1, <4>2, <1>6
    <3> QED
      BY <3>1 DEF BCHBlock, Hashes, ZeroHash
  <2>3. (chain \in [FirstHeight .. tip -> blocks])'
    <3>1. \A h \in FirstHeight .. tip + 1 : chain'[h] \in blocks'
      BY <1>5
    <3> QED
      BY <3>1, <1>1, <1>5
  <2>4. (\A h \in FirstHeight .. tip : chain[h].Height = h)'
    BY <1>1, <1>2, <1>3, <1>4, ZenonT(40) DEF NodeOK
  <2>5. ASSUME NEW h \in FirstHeight + 1 .. tip + 1
        PROVE  chain'[h].ParentBlk = chain'[h - 1].HashId
    <3>1. CASE h <= fork
      <4>1. /\ h \in FirstHeight .. fork /\ h - 1 \in FirstHeight .. fork
            /\ h \in FirstHeight + 1 .. tip
        BY <3>1, <1>1
      <4> QED
        BY <4>1, <1>3 DEF NodeOK
    <3>2. CASE h = fork + 1
      <4>1. h \in fork + 1 .. tip + 1 /\ h - 1 = fork /\ fork \in FirstHeight .. fork
        BY <3>2, <1>1
      <4> QED
        BY <4>1, <3>2, <1>3, <1>4
    <3>3. CASE h > fork + 1
      <4>1. /\ h \in fork + 1 .. tip + 1 /\ h - 1 \in fork + 1 .. tip + 1
            /\ h # fork + 1
        BY <3>3, <1>1
      <4> QED
        BY <4>1, <1>4
    <3> QED
      BY <3>1, <3>2, <3>3, <1>1
  <2>6. ASSUME NEW x \in blocks'
        PROVE  /\ x.HashId[1] = x.Height /\ x.HashId[2] <= b
               /\ x.Height <= tip + 1
               /\ x.ParentBlk # ZeroHash => /\ x.ParentBlk[1] = x.Height - 1
                                            /\ x.ParentBlk[2] <= b
    <3>1. CASE x \in blocks
      <4>1. /\ x.Height \in Nat /\ x.HashId[2] \in Nat
            /\ x.ParentBlk # ZeroHash => x.ParentBlk[2] \in Nat
        <5>1. x \in BCHBlock
          BY <3>1 DEF NodeOK
        <5>2. /\ x.Height \in FirstHeight .. MaxTip /\ x.HashId \in Hashes
              /\ x.ParentBlk \in Hashes \cup {ZeroHash}
          BY <5>1 DEF BCHBlock
        <5> QED
          BY <5>2, <1>1 DEF Hashes
      <4> QED
        BY <3>1, <4>1, <1>1, SMTT(20) DEF NodeOK
    <3>2. CASE x \notin blocks
      <4>1. PICK h \in fork + 1 .. tip + 1 : x = chain'[h]
        BY <3>2, <1>6
      <4>2. /\ x.Height = h /\ x.HashId[1] = h /\ x.HashId[2] = b
            /\ x.ParentBlk[1] = h - 1 /\ x.ParentBlk[2] <= b
        <5>1. /\ chain'[h].Height = h /\ chain'[h].HashId = <<h, b>>
              /\ chain'[h].ParentBlk[1] = h - 1
              /\ chain'[h].ParentBlk[2] <= b
          BY <1>4, Zenon
        <5> QED
          BY <4>1, <5>1
      <4>3. h <= tip + 1 /\ b <= b
        BY <1>1
      <4> QED
        BY <4>2, <4>3, Zenon
    <3> QED
      BY <3>1, <3>2
  <2>7. ASSUME NEW x \in blocks', NEW y \in blocks', x.HashId = y.HashId
        PROVE  x = y
    <3>1. CASE x \in blocks /\ y \in blocks
      BY <3>1, <2>7 DEF NodeOK
    <3>2. CASE x \in blocks /\ y \notin blocks
      BY <3>2, <2>7, <1>6, <1>7
    <3>3. CASE x \notin blocks /\ y \in blocks
      BY <3>3, <2>7, <1>6, <1>7
    <3>4. CASE x \notin blocks /\ y \notin blocks
      <4>1. PICK h \in fork + 1 .. tip + 1 : x = chain'[h]
        BY <3>4, <1>6
      <4>2. PICK i \in fork + 1 .. tip + 1 : y = chain'[i]
        BY <3>4, <1>6
      <4>3. <<h, b>> = <<i, b>>
        BY <4>1, <4>2, <1>4, <2>7
      <4>4. h = i
        BY <4>3
      <4> QED
        BY <4>1, <4>2, <4>4
    <3> QED
      BY <3>1, <3>2, <3>3, <3>4
  <2> QED
    BY <2>1, <2>2, <2>3, <2>4, <2>5, <2>6, <2>7, <1>1 DEF NodeOK
<1> QED
  BY <1>6, <1>7, <1>8

-----------------------------------------------------------------------------
(* F[x] is the height at which the branch of block x leaves the best       *)
(* chain. No branch is longer than FinalizeDepth, so the ancestor of a     *)
(* block that the watcher finalizes is on the best chain.                  *)
Forks(F) ==
    /\ \A x \in blocks : /\ F[x] \in Int
                         /\ F[x] <= x.Height
                         /\ x.Height - F[x] <= FinalizeDepth
                         /\ F[x] = x.Height => x = chain[x.Height]
    /\ \A h \in FirstHeight .. tip : F[chain[h]] = h
    /\ \A x, y \in blocks : x.ParentBlk = y.HashId =>
          F[y] = IF F[x] < y.Height THEN F[x] ELSE y.Height

(* A block's height is a number.                                           *)
LEMMA HeightsAreNat ==
    ASSUME NodeOK
    PROVE  \A x \in blocks : x.Height \in Nat
<1>1. \A x \in blocks : x.Height \in FirstHeight .. MaxTip
  BY DEF NodeOK, BCHBlock
<1> QED
  BY <1>1, Constants

(* The first chain has no forks.                                           *)
LEMMA InitForks == Init => \E F : Forks(F)
<1> SUFFICES ASSUME Init PROVE \E F : Forks(F)
  OBVIOUS
<1> DEFINE F == [x \in blocks |-> x.Height]
<1>1. NodeOK
  BY InitNodeOK
<1>2. \A x \in blocks : F[x] = x.Height /\ x.Height \in Nat
  BY <1>1, HeightsAreNat
<1>3. \A x \in blocks : x = chain[x.Height]
  <2> TAKE x \in blocks
  <2>1. PICK h \in DOMAIN chain : x = chain[h]
    BY DEF Init, BestChain
  <2>2. h \in FirstHeight .. tip
    BY <1>1, <2>1 DEF NodeOK
  <2> QED
    BY <1>1, <2>1, <2>2 DEF NodeOK
<1>4. \A h \in FirstHeight .. tip : F[chain[h]] = h
  BY <1>1, <1>2 DEF NodeOK
<1>5. \A x, y \in blocks : x.ParentBlk = y.HashId => y.Height = x.Height - 1
  BY <1>1, ParentBelow
<1> HIDE DEF F
<1>6. \A x \in blocks : /\ F[x] \in Int /\ F[x] <= x.Height
                        /\ x.Height - F[x] <= FinalizeDepth
  BY <1>2, Constants
<1>7. \A x, y \in blocks : x.ParentBlk = y.HashId =>
          F[y] = IF F[x] < y.Height THEN F[x] ELSE y.Height
  BY <1>2, <1>5
<1>8. Forks(F)
  BY <1>3, <1>4, <1>6, <1>7 DEF Forks
<1> QED
  BY <1>8

(* A fork that is not deeper than the confirmations keeps this so.         *)
LEMMA GrownForks ==
    ASSUME NodeOK, NEW F, Forks(F), NEW fork, NEW b, Grown(fork, b),
           tip - fork <= FinalizeDepth
    PROVE  \E G : Forks(G)'
<1> DEFINE H == [x \in blocks' |-> IF x \in blocks
                                   THEN IF F[x] < fork THEN F[x] ELSE fork
                                   ELSE x.Height]
<1>1. PICK G : G = H
  OBVIOUS
<1>2. /\ NodeOK'
      /\ \A x \in blocks' :
            x \in blocks \/ \E h \in fork + 1 .. tip + 1 : x = chain'[h]
      /\ \A h \in fork + 1 .. tip + 1 : \A x \in blocks :
            /\ x.HashId # chain'[h].HashId
            /\ x.ParentBlk # chain'[h].HashId
  BY GrownFacts
<1>3. /\ tip \in Nat /\ fork \in Nat /\ fork <= tip /\ FirstHeight <= fork
      /\ tip' = tip + 1 /\ FirstHeight \in Nat /\ FinalizeDepth \in Nat
  BY Constants, SMTT(20) DEF NodeOK, Grown
<1>4. /\ blocks \subseteq blocks'
      /\ \A h \in FirstHeight .. fork : chain'[h] = chain[h]
  BY DEF Grown
<1>5. /\ \A x \in blocks : G[x] = IF F[x] < fork THEN F[x] ELSE fork
      /\ \A x \in blocks' : x \notin blocks => G[x] = x.Height
  BY <1>1, <1>4
<1>6. /\ \A x \in blocks' : x.Height \in Nat
      /\ \A x \in blocks : x.Height <= tip
      /\ \A h \in FirstHeight .. tip + 1 : /\ chain'[h] \in blocks'
                                           /\ chain'[h].Height = h
      /\ \A x, y \in blocks' : x.ParentBlk = y.HashId => y.Height = x.Height - 1
  <2>1. \A x \in blocks' : x.Height \in Nat
    <3>1. \A x \in blocks' : x.Height \in FirstHeight .. MaxTip
      BY <1>2 DEF NodeOK, BCHBlock
    <3> QED
      BY <3>1, Constants
  <2>2. \A x \in blocks : x.Height <= tip
    BY DEF NodeOK
  <2>3. \A h \in FirstHeight .. tip + 1 : chain'[h] \in blocks' /\ chain'[h].Height = h
    BY <1>2, <1>3 DEF NodeOK
  <2>4. ASSUME NEW x \in blocks', NEW y \in blocks', x.ParentBlk = y.HashId
        PROVE  y.Height = x.Height - 1
    <3>1. y.HashId \in Hashes
      BY <1>2 DEF NodeOK, BCHBlock, Hashes
    <3>2. x.ParentBlk # ZeroHash
      BY <3>1, <2>4, HashesNotZero
    <3>3. x.ParentBlk[1] = x.Height - 1 /\ y.HashId[1] = y.Height
      BY <1>2, <3>2 DEF NodeOK, ZeroHash
    <3> QED
      BY <3>3, <2>4
  <2> QED
    BY <2>1, <2>2, <2>3, <2>4
<1>7. \A x \in blocks : /\ F[x] \in Int /\ F[x] <= x.Height
                        /\ x.Height - F[x] <= FinalizeDepth
                        /\ F[x] = x.Height => x = chain[x.Height]
  BY DEF Forks
<1>8. ASSUME NEW x \in blocks'
      PROVE  /\ G[x] \in Int /\ G[x] <= x.Height
             /\ x.Height - G[x] <= FinalizeDepth
             /\ G[x] = x.Height => x = chain'[x.Height]
  <2>1. CASE x \in blocks
    <3>1. x.Height \in Nat /\ x.Height <= tip
      BY <2>1, <1>6
    <3>2. G[x] = IF F[x] < fork THEN F[x] ELSE fork
      BY <2>1, <1>5
    <3>3. G[x] \in Int /\ x.Height - G[x] <= FinalizeDepth
      BY <3>1, <3>2, <2>1, <1>3, <1>7
    <3>4. G[x] <= x.Height
      BY <3>1, <3>2, <2>1, <1>3, <1>7
    <3>5. G[x] = x.Height => x = chain'[x.Height]
      <4>1. SUFFICES ASSUME G[x] = x.Height PROVE x = chain'[x.Height]
        OBVIOUS
      <4>2. F[x] = x.Height /\ x.Height <= fork
        <5>1. F[x] \in Int /\ F[x] <= x.Height
          BY <2>1, <1>7
        <5> QED
          BY <5>1, <4>1, <3>1, <3>2, <1>3
      <4>3. x.Height \in FirstHeight .. fork
        <5>1. x.Height \in FirstHeight .. MaxTip
          BY <2>1 DEF NodeOK, BCHBlock
        <5> QED
          BY <5>1, <4>2, <1>3
      <4> QED
        BY <4>2, <4>3, <2>1, <1>4, <1>7
    <3> QED
      BY <3>3, <3>4, <3>5
  <2>2. CASE x \notin blocks
    <3>1. PICK h \in fork + 1 .. tip + 1 : x = chain'[h]
      BY <2>2, <1>2
    <3>2. h \in FirstHeight .. tip + 1
      BY <1>3
    <3>3. x.Height = h /\ G[x] = h /\ h \in Nat
      BY <3>1, <3>2, <2>2, <1>3, <1>5, <1>6
    <3> QED
      BY <3>1, <3>3, <1>3
  <2> QED
    BY <2>1, <2>2
<1>9. ASSUME NEW h \in FirstHeight .. tip + 1
      PROVE  G[chain'[h]] = h
  <2>1. CASE h <= fork
    <3>1. h \in FirstHeight .. tip /\ h \in FirstHeight .. fork
      BY <2>1, <1>3
    <3>2. chain'[h] = chain[h] /\ chain[h] \in blocks /\ F[chain[h]] = h
      BY <3>1, <1>4 DEF NodeOK, Forks
    <3> QED
      BY <3>2, <2>1, <1>3, <1>5
  <2>2. CASE h > fork
    <3>1. h \in fork + 1 .. tip + 1
      BY <2>2, <1>3
    <3>2. chain'[h] \notin blocks
      BY <3>1, <1>2
    <3> QED
      BY <3>2, <1>5, <1>6
  <2> QED
    BY <2>1, <2>2, <1>3
<1>10. ASSUME NEW x \in blocks', NEW y \in blocks', x.ParentBlk = y.HashId
       PROVE  G[y] = IF G[x] < y.Height THEN G[x] ELSE y.Height
  <2>1. y.Height = x.Height - 1 /\ x.Height \in Nat /\ y.Height \in Nat
    BY <1>6, <1>10
  <2>2. CASE x \in blocks
    <3>1. y \in blocks
      BY <2>2, <1>2, <1>10
    <3>2. F[y] = IF F[x] < y.Height THEN F[x] ELSE y.Height
      BY <3>1, <2>2, <1>10 DEF Forks
    <3>3. /\ G[x] = IF F[x] < fork THEN F[x] ELSE fork
          /\ G[y] = IF F[y] < fork THEN F[y] ELSE fork
          /\ F[x] \in Int /\ F[y] \in Int
      BY <3>1, <2>2, <1>5, <1>7
    <3> QED
      BY <3>2, <3>3, <2>1, <1>3
  <2>3. CASE x \notin blocks
    <3>1. PICK h \in fork + 1 .. tip + 1 : x = chain'[h]
      BY <2>3, <1>2
    <3>2. h \in FirstHeight .. tip + 1 /\ h \in Nat /\ x.Height = h
      BY <3>1, <1>3, <1>6
    <3>3. G[x] = h
      BY <3>2, <2>3, <1>5
    <3>4. h - 1 \in FirstHeight .. tip + 1
      BY <1>3
    <3>5. chain'[h].ParentBlk = chain'[h - 1].HashId
      BY <3>2, <1>2, <1>3 DEF NodeOK
    <3>6. y = chain'[h - 1]
      BY <3>1, <3>4, <3>5, <1>2, <1>6, <1>10 DEF NodeOK
    <3>7. G[y] = h - 1
      BY <3>4, <3>6, <1>9
    <3> QED
      BY <3>2, <3>3, <3>7, <2>1
  <2> QED
    BY <2>2, <2>3
<1>11. Forks(G)'
  BY <1>3, <1>8, <1>9, <1>10 DEF Forks
<1> QED
  BY <1>11

-----------------------------------------------------------------------------
(* The way up that addBlock follows: the recursion has a solution, so the  *)
(* recursive function is one.                                              *)
Parents(known, U) == {p \in known : p.HashId \in {b.ParentBlk : b \in U}}

IsWayUp(known, blk, up, n) ==
    up = [k \in 0 .. n |->
            IF k = 0 THEN {blk} ELSE Parents(known, up[k - 1])]

(* The recursive function follows the parents up to FinalizeDepth, by      *)
(* IntervalInduction on the set of steps up to which it does.              *)
LEMMA AncestorsRecursion ==
    ASSUME NEW known, NEW blk
    PROVE  IsWayUp(known, blk, Ancestors(known, blk), FinalizeDepth)
<1> DEFINE T == {n \in 0 .. FinalizeDepth : \E g : IsWayUp(known, blk, g, n)}
<1>1. FinalizeDepth \in Nat
  BY Constants
<1>2. 0 \in T
  <2> DEFINE g == [k \in 0 .. 0 |-> {blk}]
  <2>1. \A k \in 0 .. 0 : k = 0
    OBVIOUS
  <2>2. IsWayUp(known, blk, g, 0)
    BY <2>1 DEF IsWayUp
  <2> HIDE DEF g
  <2> QED
    BY <1>1, <2>2
<1>3. ASSUME NEW n \in 0 .. FinalizeDepth, n \in T, n < FinalizeDepth
      PROVE  n + 1 \in T
  <2>1. PICK g : IsWayUp(known, blk, g, n)
    BY <1>3
  <2> DEFINE e(f, k) == IF k = 0 THEN {blk} ELSE Parents(known, f[k - 1])
             f == [k \in 0 .. n + 1 |-> IF k = n + 1 THEN Parents(known, g[n])
                                        ELSE g[k]]
  <2>2. \A k \in 0 .. n : g[k] = e(g, k)
    <3>1. g = [k \in 0 .. n |-> e(g, k)]
      BY <2>1 DEF IsWayUp
    <3> HIDE DEF e
    <3> QED
      BY <3>1
  <2>3. /\ f[n + 1] = Parents(known, g[n])
        /\ \A k \in 0 .. n : f[k] = g[k]
    BY <1>1
  <2>4. ASSUME NEW k \in 0 .. n + 1 PROVE f[k] = e(f, k)
    <3> HIDE DEF f
    <3>1. CASE k = n + 1
      <4>1. k # 0 /\ k - 1 = n /\ n \in 0 .. n
        BY <3>1
      <4> QED
        BY <4>1, <3>1, <2>3
    <3>2. CASE k # n + 1
      <4>1. k \in 0 .. n /\ (k # 0 => k - 1 \in 0 .. n)
        BY <3>2
      <4>2. f[k] = e(g, k)
        BY <4>1, <2>2, <2>3, Zenon
      <4>3. k # 0 => f[k - 1] = g[k - 1]
        BY <4>1, <2>3
      <4> QED
        BY <4>2, <4>3
    <3> QED
      BY <3>1, <3>2
  <2>5. f = [k \in 0 .. n + 1 |-> f[k]]
    OBVIOUS
  <2>6. f = [k \in 0 .. n + 1 |-> e(f, k)]
    <3> HIDE DEF f, e
    <3> QED
      BY <2>4, <2>5
  <2>7. IsWayUp(known, blk, f, n + 1)
    <3> HIDE DEF f
    <3> QED
      BY <2>6, Zenon DEF IsWayUp
  <2>8. n + 1 \in 0 .. FinalizeDepth
    BY <1>1, <1>3
  <2> HIDE DEF f
  <2> QED
    BY <2>7, <2>8
<1>4. FinalizeDepth \in T
  <2>1. FinalizeDepth \in 0 .. FinalizeDepth
    BY <1>1
  <2> HIDE DEF T
  <2> QED
    BY <2>1, <1>1, <1>2, <1>3, IntervalInduction
<1>5. PICK g : IsWayUp(known, blk, g, FinalizeDepth)
  BY <1>4
<1> QED
  BY <1>5, Zenon DEF Ancestors, IsWayUp, Parents

(* The way up of a block: one block at each step, each one lower.          *)
Linear(known, blk, up) ==
    /\ up[0] = {blk}
    /\ \A k \in 1 .. FinalizeDepth : up[k] = Parents(known, up[k - 1])
    /\ \A k \in 0 .. FinalizeDepth :
          /\ up[k] \subseteq known
          /\ \A x, y \in up[k] : x = y
          /\ \A x \in up[k] : x.Height = blk.Height - k

(* Parents are unique, so that the way up is a single line.                *)
LEMMA WayUp ==
    ASSUME NodeOK, NEW known, known \subseteq blocks, NEW blk \in known
    PROVE  Linear(known, blk, Ancestors(known, blk))
<1> PICK up : up = Ancestors(known, blk)
  OBVIOUS
<1> SUFFICES Linear(known, blk, up)
  OBVIOUS
<1>1. IsWayUp(known, blk, up, FinalizeDepth) /\ FinalizeDepth \in Nat
  BY AncestorsRecursion, Constants
<1>2. \A k \in 0 .. FinalizeDepth :
          up[k] = IF k = 0 THEN {blk} ELSE Parents(known, up[k - 1])
  BY <1>1, Zenon DEF IsWayUp
<1>3. /\ up[0] = {blk}
      /\ \A k \in 1 .. FinalizeDepth : up[k] = Parents(known, up[k - 1])
  <2>1. 0 \in 0 .. FinalizeDepth
    BY <1>1
  <2>2. \A k \in 1 .. FinalizeDepth : k \in 0 .. FinalizeDepth /\ k # 0
    BY <1>1
  <2> QED
    BY <2>1, <2>2, <1>2
<1>4. \A x \in blocks : x.Height \in Nat
  BY HeightsAreNat
<1> DEFINE Good(k) == /\ up[k] \subseteq known
                      /\ \A x, y \in up[k] : x = y
                      /\ \A x \in up[k] : x.Height = blk.Height - k
           T == {k \in 0 .. FinalizeDepth : Good(k)}
<1>5. 0 \in T
  BY <1>1, <1>3, <1>4
<1>6. ASSUME NEW k \in 0 .. FinalizeDepth, k \in T, k < FinalizeDepth
      PROVE  k + 1 \in T
  <2>1. k + 1 \in 1 .. FinalizeDepth /\ (k + 1) - 1 = k /\ k \in Nat
    BY <1>1, <1>6
  <2>2. up[k + 1] = {p \in known : p.HashId \in {b.ParentBlk : b \in up[k]}}
    BY <2>1, <1>3 DEF Parents
  <2>3. Good(k)
    BY <1>6
  <2>4. \A p \in up[k + 1] : p \in known /\ \E b \in up[k] : b.ParentBlk = p.HashId
    BY <2>2
  <2>5. ASSUME NEW x \in up[k + 1], NEW y \in up[k + 1]
        PROVE  x = y
    <3>1. x.HashId = y.HashId
      BY <2>3, <2>4
    <3> QED
      BY <3>1, <2>4 DEF NodeOK
  <2>6. ASSUME NEW x \in up[k + 1] PROVE x.Height = blk.Height - (k + 1)
    <3>1. PICK b \in up[k] : b.ParentBlk = x.HashId
      BY <2>4
    <3>2. x.Height = b.Height - 1 /\ b.Height = blk.Height - k
      BY <3>1, <2>3, <2>4, ParentBelow
    <3> QED
      BY <3>2, <2>1, <1>4
  <2>7. Good(k + 1)
    BY <2>4, <2>5, <2>6
  <2> HIDE DEF Good
  <2> QED
    BY <2>1, <2>7
<1>7. \A k \in 0 .. FinalizeDepth : Good(k)
  <2>1. 0 .. FinalizeDepth \subseteq T
    <3> HIDE DEF T
    <3> QED
      BY <1>1, <1>5, <1>6, IntervalInduction
  <2> HIDE DEF Good
  <2> QED
    BY <2>1
<1> QED
  BY <1>3, <1>7 DEF Linear

(* All on one branch: where the way leaves the branch of blk it is on the  *)
(* best chain.                                                             *)
LEMMA WayUpForks ==
    ASSUME NodeOK, NEW known, known \subseteq blocks, NEW blk \in known,
           NEW up, up = Ancestors(known, blk), NEW F, Forks(F)
    PROVE  \A k \in 0 .. FinalizeDepth : \A x \in up[k] :
              F[x] = IF F[blk] < x.Height THEN F[blk] ELSE x.Height
<1>a. FinalizeDepth \in Nat
  BY Constants
<1>w. Linear(known, blk, up)
  BY WayUp
<1>b. /\ up[0] = {blk}
      /\ \A k \in 1 .. FinalizeDepth : up[k] = Parents(known, up[k - 1])
  BY <1>w, Zenon DEF Linear
<1>c. \A x \in blocks : x.Height \in Nat
  BY HeightsAreNat
<1>d. \A k \in 0 .. FinalizeDepth : up[k] \subseteq known
  BY <1>w, Zenon DEF Linear
<1> DEFINE Joined(k) == \A x \in up[k] :
              F[x] = IF F[blk] < x.Height THEN F[blk] ELSE x.Height
           U == {k \in 0 .. FinalizeDepth : Joined(k)}
<1>1. \A x \in blocks : F[x] \in Int /\ F[x] <= x.Height
  BY DEF Forks
<1>2. 0 \in U
  BY <1>a, <1>b, <1>c, <1>1
<1>3. ASSUME NEW k \in 0 .. FinalizeDepth, k \in U, k < FinalizeDepth
      PROVE  k + 1 \in U
  <2>1. k + 1 \in 1 .. FinalizeDepth /\ (k + 1) - 1 = k /\ k \in Nat
        /\ k + 1 \in 0 .. FinalizeDepth
    BY <1>a, <1>3
  <2>2. up[k + 1] = {p \in known : p.HashId \in {b.ParentBlk : b \in up[k]}}
    BY <2>1, <1>b DEF Parents
  <2>3. ASSUME NEW x \in up[k + 1]
        PROVE  F[x] = IF F[blk] < x.Height THEN F[blk] ELSE x.Height
    <3>1. PICK b \in up[k] : b.ParentBlk = x.HashId
      BY <2>2
    <3>2. x \in blocks /\ b \in blocks
      BY <2>1, <1>d
    <3>3. x.Height = b.Height - 1
      BY <3>1, <3>2, ParentBelow
    <3>4. F[x] = IF F[b] < x.Height THEN F[b] ELSE x.Height
      BY <3>1, <3>2 DEF Forks
    <3>5. F[b] = IF F[blk] < b.Height THEN F[blk] ELSE b.Height
      BY <1>3
    <3>6. /\ F[blk] \in Int /\ F[b] \in Int
          /\ b.Height \in Nat /\ x.Height \in Nat
      BY <3>2, <1>1, <1>c
    <3> QED
      BY <3>3, <3>4, <3>5, <3>6
  <2> QED
    BY <2>1, <2>3
<1>4. 0 .. FinalizeDepth \subseteq U
  <2> HIDE DEF U
  <2> QED
    BY <1>a, <1>2, <1>3, IntervalInduction
<1> HIDE DEF Joined
<1>5. \A k \in 0 .. FinalizeDepth : Joined(k)
  BY <1>4
<1> QED
  BY <1>5 DEF Joined

(* The hash that addBlock misses is one hash, and not the zero hash.       *)
LEMMA MissingType ==
    ASSUME NodeOK, NEW known, known \subseteq blocks, NEW blk \in known,
           NEW up, up = Ancestors(known, blk)
    PROVE  Missing(up) \in Hashes \cup {NoHash}
<1>w. Linear(known, blk, up)
  BY WayUp
<1>1. /\ FinalizeDepth \in Nat
      /\ \A k \in 1 .. FinalizeDepth : up[k] = Parents(known, up[k - 1])
      /\ \A k \in 0 .. FinalizeDepth : /\ up[k] \subseteq known
                                       /\ \A x, y \in up[k] : x = y
  BY <1>w, Constants, Zenon DEF Linear
<1> DEFINE Last == {k \in 0 .. FinalizeDepth - 1 : up[k] # {} /\ up[k + 1] = {}}
<1>2. ASSUME NEW i \in Last, NEW j \in Last, i < j PROVE FALSE
  <2> DEFINE T == {k \in 0 .. FinalizeDepth : k > i => up[k] = {}}
  <2>1. 0 \in T
    BY <1>1
  <2>2. ASSUME NEW k \in 0 .. FinalizeDepth, k \in T, k < FinalizeDepth
        PROVE  k + 1 \in T
    <3>1. k + 1 \in 1 .. FinalizeDepth /\ (k + 1) - 1 = k
      BY <1>1, <2>2
    <3>2. up[k + 1] = Parents(known, up[k])
      BY <3>1, <1>1
    <3>3. CASE k > i
      BY <3>1, <3>2, <3>3, <2>2 DEF Parents
    <3>4. CASE k = i
      BY <3>1, <3>4
    <3>5. CASE k < i
      BY <3>1, <3>5
    <3> QED
      BY <3>3, <3>4, <3>5
  <2>3. 0 .. FinalizeDepth \subseteq T
    <3> HIDE DEF T
    <3> QED
      BY <1>1, <2>1, <2>2, IntervalInduction
  <2>4. j \in 0 .. FinalizeDepth /\ j > i
    BY <1>1, <1>2
  <2> QED
    BY <2>3, <2>4
<1>3. \A i, j \in Last : i = j
  BY <1>2
<1>4. \A x \in MissingParent(up) :
          \E k \in Last : \E b \in up[k] : x = b.ParentBlk
  BY DEF MissingParent
<1>5. \A k \in Last : k \in 0 .. FinalizeDepth
  BY <1>1
<1> HIDE DEF Last
<1>6. \A x, y \in MissingParent(up) : x = y
  BY <1>1, <1>3, <1>4, <1>5
<1>7. \A x \in MissingParent(up) : x \in Hashes \cup {ZeroHash}
  <2>1. \A b \in blocks : b.ParentBlk \in Hashes \cup {ZeroHash}
    BY DEF NodeOK, BCHBlock
  <2> QED
    BY <2>1, <1>1, <1>4, <1>5
<1>8. CASE MissingParent(up) \subseteq {ZeroHash}
  BY <1>8 DEF Missing
<1>9. CASE ~ (MissingParent(up) \subseteq {ZeroHash})
  <2>1. PICK x \in MissingParent(up) : x # ZeroHash
    BY <1>9
  <2>2. (CHOOSE h \in MissingParent(up) : TRUE) \in MissingParent(up)
    BY <2>1
  <2>3. (CHOOSE h \in MissingParent(up) : TRUE) = x
    BY <2>2, <1>6
  <2>4. Missing(up) = x
    BY <1>9, <2>3 DEF Missing
  <2> QED
    BY <2>1, <2>4, <1>7
<1> QED
  BY <1>8, <1>9

-----------------------------------------------------------------------------
(* What a call of addBlock that does not panic does: it finalizes the      *)
(* blocks in new, one or none.                                             *)
Adds(blk, new) ==
    /\ new \subseteq blocks
    /\ \A c, d \in new : c = d
    /\ \A c \in new :
          /\ c.Height = latestFinalizedHeight + 1
          /\ c.Height = blk.Height - FinalizeDepth
          /\ AtHeight(c.Height) = {}
          /\ \A F : Forks(F) => c = chain[c.Height]
    /\ missingBlockHash' \in Hashes \cup {NoHash}
    /\ hashToBlock' \subseteq hashToBlock \cup {blk}
    /\ heightToFinalizedBlock' = heightToFinalizedBlock \cup new
    /\ latestFinalizedHeight' = IF new = {} THEN latestFinalizedHeight
                                ELSE latestFinalizedHeight + 1
    /\ panic' = panic

(* And what it does to the epochs.                                         *)
Collects(new) ==
    \/ /\ pc' = "run" /\ epochList' = epochList
       /\ new # {} =>
            latestFinalizedHeight' - lastEpochEndHeight # NumBlocksInEpoch
    \/ LET S == EpochBlocks(heightToFinalizedBlock', latestFinalizedHeight')
       IN  /\ pc' = "send" /\ epochList' = Append(epochList, NewEpoch(S))
           /\ latestFinalizedHeight' - lastEpochEndHeight = NumBlocksInEpoch
           /\ \A h \in lastEpochEndHeight + 1 .. latestFinalizedHeight' :
                 \E b \in S : b.Height = h

Panicked ==
    /\ panic' \in {"Deep Reorganization", "Height Skipped", "Missing Block"}
    /\ UNCHANGED <<missingBlockHash, pc, storeVars, epochList>>

(* addBlock panics, or remembers the block and finalizes at most one.      *)
LEMMA AddBlockAdds ==
    ASSUME NodeOK, hashToBlock \subseteq blocks, latestFinalizedHeight \in Nat,
           NEW blk \in blocks, NEW clears, AddBlock(blk, clears)
    PROVE  Panicked \/ \E new : Adds(blk, new) /\ Collects(new)
<1>1. PICK known : known = hashToBlock \cup {blk}
  OBVIOUS
<1>2. PICK up : up = Ancestors(known, blk)
  OBVIOUS
<1>3. PICK new : new = NewlyFinalized(up)
  OBVIOUS
<1>4. PICK finalized : finalized = heightToFinalizedBlock \cup new
  OBVIOUS
<1>5. PICK latest : latest = latestFinalizedHeight + Cardinality(new)
  OBVIOUS
<1>6. PICK S : S = EpochBlocks(finalized, latest)
  OBVIOUS
<1> DEFINE ready == new # {} /\ latest - lastEpochEndHeight = NumBlocksInEpoch
           hole == ready /\ \E h \in lastEpochEndHeight + 1 .. latest :
                               \A b \in S : b.Height # h
<1>7. IF AddBlockPanic(up) # "none" \/ hole
      THEN /\ panic' = IF AddBlockPanic(up) # "none" THEN AddBlockPanic(up)
                       ELSE "Missing Block"
           /\ UNCHANGED <<missingBlockHash, pc, storeVars, epochList>>
      ELSE /\ missingBlockHash' = Missing(up)
           /\ heightToFinalizedBlock' = finalized
           /\ latestFinalizedHeight' = latest
           /\ epochList' = IF ready THEN Append(epochList, NewEpoch(S))
                           ELSE epochList
           /\ pc' = IF ready THEN "send" ELSE "run"
           /\ hashToBlock' = IF clears /\ ~ready /\ Missing(up) = NoHash
                             THEN {} ELSE known
           /\ UNCHANGED panic
  BY <1>1, <1>2, <1>3, <1>4, <1>5, <1>6, Zenon DEF AddBlock, Remember
<1>8. CASE AddBlockPanic(up) # "none" \/ hole
  <2>1. /\ panic' = IF AddBlockPanic(up) # "none" THEN AddBlockPanic(up)
                    ELSE "Missing Block"
        /\ UNCHANGED <<missingBlockHash, pc, storeVars, epochList>>
    BY <1>7, <1>8, Zenon
  <2>2. AddBlockPanic(up) \in {"none", "Deep Reorganization", "Height Skipped"}
    BY DEF AddBlockPanic
  <2> QED
    BY <2>1, <2>2 DEF Panicked
<1>9. CASE ~ (AddBlockPanic(up) # "none" \/ hole)
  <2>1. /\ missingBlockHash' = Missing(up)
        /\ heightToFinalizedBlock' = finalized
        /\ latestFinalizedHeight' = latest
        /\ epochList' = IF ready THEN Append(epochList, NewEpoch(S))
                        ELSE epochList
        /\ pc' = IF ready THEN "send" ELSE "run"
        /\ hashToBlock' = IF clears /\ ~ready /\ Missing(up) = NoHash
                          THEN {} ELSE known
        /\ panic' = panic
    BY <1>7, <1>9, Zenon
  <2>2. known \subseteq blocks /\ blk \in known
    BY <1>1
  <2>3. \A F : Forks(F) => \A x \in up[FinalizeDepth] :
                    F[x] = IF F[blk] < x.Height THEN F[blk] ELSE x.Height
    <3>1. FinalizeDepth \in 0 .. FinalizeDepth
      BY Constants
    <3> QED
      BY <3>1, <2>2, <1>2, WayUpForks
  <2>4. /\ up[FinalizeDepth] \subseteq blocks
        /\ \A x, y \in up[FinalizeDepth] : x = y
        /\ \A x \in up[FinalizeDepth] : x.Height = blk.Height - FinalizeDepth
    <3>1. FinalizeDepth \in 0 .. FinalizeDepth
      BY Constants
    <3>w. Linear(known, blk, up)
      BY <2>2, <1>2, WayUp
    <3>2. \A k \in 0 .. FinalizeDepth :
            /\ up[k] \subseteq known
            /\ \A x, y \in up[k] : x = y
            /\ \A x \in up[k] : x.Height = blk.Height - k
      BY <3>w, Zenon DEF Linear
    <3> QED
      BY <3>1, <3>2, <2>2
  <2>5. new \subseteq up[FinalizeDepth]
        /\ \A c \in new : AtHeight(c.Height) = {}
                          /\ c.Height = latestFinalizedHeight + 1
    BY <1>3, <1>9 DEF NewlyFinalized, Candidate, Settled, AddBlockPanic
  <2>6. ASSUME NEW c \in new, NEW F, Forks(F) PROVE c = chain[c.Height]
    <3>1. F[c] = IF F[blk] < c.Height THEN F[blk] ELSE c.Height
      BY <2>3, <2>5, <2>6
    <3>2. /\ F[blk] \in Int /\ blk.Height - F[blk] <= FinalizeDepth
          /\ F[c] = c.Height => c = chain[c.Height]
      BY <2>4, <2>5, <2>6 DEF Forks
    <3>3. /\ c.Height = blk.Height - FinalizeDepth /\ blk.Height \in Nat
          /\ c.Height \in Nat /\ FinalizeDepth \in Nat
      BY <2>4, <2>5, HeightsAreNat, Constants
    <3> QED
      BY <3>1, <3>2, <3>3
  <2>7. latest = IF new = {} THEN latestFinalizedHeight
                 ELSE latestFinalizedHeight + 1
    <3>1. CASE new = {}
      BY <3>1, <1>5, FS_EmptySet
    <3>2. CASE new # {}
      <4>1. PICK c : new = {c}
        BY <3>2, <2>4, <2>5
      <4>2. Cardinality(new) = 1
        BY <4>1, FS_Singleton
      <4> QED
        BY <4>2, <3>2, <1>5
    <3> QED
      BY <3>1, <3>2
  <2>8. Missing(up) \in Hashes \cup {NoHash}
    BY <2>2, <1>2, MissingType
  <2>9. hashToBlock' \subseteq hashToBlock \cup {blk}
    BY <2>1, <1>1
  <2>10. Adds(blk, new)
    BY <2>1, <2>4, <2>5, <2>6, <2>7, <2>8, <2>9, <1>4 DEF Adds
  <2>11. Collects(new)
    <3>1. CASE ready
      <4>1. ~ \E h \in lastEpochEndHeight + 1 .. latest : \A b \in S : b.Height # h
        BY <3>1, <1>9
      <4>2. S = EpochBlocks(heightToFinalizedBlock', latestFinalizedHeight')
        BY <2>1, <1>6, Zenon
      <4>3. /\ pc' = "send" /\ epochList' = Append(epochList, NewEpoch(S))
            /\ latestFinalizedHeight' - lastEpochEndHeight = NumBlocksInEpoch
        BY <3>1, <2>1
      <4> QED
        BY <4>1, <4>2, <4>3, <2>1, Zenon DEF Collects
    <3>2. CASE ~ ready
      <4>1. pc' = "run" /\ epochList' = epochList
        BY <3>2, <2>1
      <4>2. new # {} =>
              latestFinalizedHeight' - lastEpochEndHeight # NumBlocksInEpoch
        BY <3>2, <2>1
      <4> QED
        BY <4>1, <4>2 DEF Collects
    <3> QED
      BY <3>1, <3>2
  <2> QED
    BY <2>10, <2>11
<1> QED
  BY <1>8, <1>9

-----------------------------------------------------------------------------
(* The inductive invariant. The finalized blocks that are kept are one for *)
(* each height of an interval that ends at latestFinalizedHeight: this is  *)
(* why ClearOldData, which walks down from a height as far as it finds     *)
(* blocks, gets all that are lower.                                        *)
LoopOK ==
    /\ height \in Nat
    /\ missingBlockHash \in Hashes \cup {NoHash}
    /\ traceLeft \in 0 .. TraceLimit
    /\ panic \in {"none", "nil block", "no parent block",
                  "Deep Reorganization", "Height Skipped", "Missing Block"}

StoreOK ==
    /\ hashToBlock \subseteq blocks
    /\ heightToFinalizedBlock \subseteq blocks
    /\ IsFiniteSet(heightToFinalizedBlock)
    /\ \A x, y \in heightToFinalizedBlock : x.Height = y.Height => x = y
    /\ \A x \in heightToFinalizedBlock :
          /\ x.Height <= latestFinalizedHeight
          /\ x.Height > lastEpochEndHeight + 1
                            - (KeptEpochs + 1) * NumBlocksInEpoch
          /\ \A h \in x.Height .. latestFinalizedHeight : AtHeight(h) # {}

(* The epoch being collected starts after all that were sent, and the one  *)
(* that waits for EpochChan is the last of epochList.                      *)
EpochsOK ==
    /\ latestFinalizedHeight \in Nat
    /\ lastEpochEndHeight \in Nat
    /\ lastEpochEndHeight <= latestFinalizedHeight
    /\ epochList \in Seq(Epoch)
    /\ EpochChan \in Seq(Epoch)
    /\ received \in Seq(Epoch)
    /\ Len(EpochChan) <= 1
    /\ lastEpochEndHeight =
          LastHeight + (Len(received) + Len(EpochChan)) * NumBlocksInEpoch
    /\ \/ /\ pc = "run"
          /\ latestFinalizedHeight < lastEpochEndHeight + NumBlocksInEpoch
          /\ Len(epochList) <= KeptEpochs
       \/ /\ pc = "send"
          /\ latestFinalizedHeight = lastEpochEndHeight + NumBlocksInEpoch
          /\ Len(epochList) \in 1 .. KeptEpochs + 1
          /\ EpochToSend.StartHeight = lastEpochEndHeight + 1

IInv == NodeOK /\ LoopOK /\ StoreOK /\ EpochsOK

(* What generateNewEpoch makes of finalized blocks is an epoch.            *)
LEMMA NewEpochType ==
    ASSUME NEW S, IsFiniteSet(S), S \subseteq BCHBlock,
           lastEpochEndHeight \in Nat
    PROVE  NewEpoch(S) \in Epoch /\ NewEpoch(S).StartHeight = lastEpochEndHeight + 1
<1> DEFINE f == [b \in S |-> TimeOf(b.HashId)]
           I == {f[b] : b \in S}
           J == {TimeOf(b.HashId) : b \in S}
           M == {0} \cup J
<1>1. IsFiniteSet(I)
  <2>1. DOMAIN f = S
    OBVIOUS
  <2> HIDE DEF f
  <2> QED
    BY <2>1, FiniteImage
<1>2. I = J
  OBVIOUS
<1>3. J \subseteq Nat
  BY WatcherTimes DEF BCHBlock
<1>4. IsFiniteSet(M) /\ M \subseteq Nat /\ M # {}
  <2> HIDE DEF I, J
  <2>1. M = J \cup {0}
    OBVIOUS
  <2> QED
    BY <2>1, <1>1, <1>2, <1>3, FS_AddElement
<1>5. Max(M) \in Nat
  <2> HIDE DEF M
  <2> QED
    BY <1>4, MaxOfFiniteSet
<1>6. ASSUME NEW k PROVE NominatedCount(S, k) \in Nat
  <2> DEFINE N == {b \in S : k \in Nominee(b.HashId)}
  <2>1. IsFiniteSet(N)
    <3>1. N \subseteq S
      OBVIOUS
    <3> HIDE DEF N
    <3> QED
      BY <3>1, FS_Subset
  <2>2. Cardinality(N) \in Nat
    <3> HIDE DEF N
    <3> QED
      BY <2>1, FS_CardinalityType
  <2> QED
    BY <2>2 DEF NominatedCount
<1>7. PICK m \in Nat : m = Max(M)
  BY <1>5
<1>8. NewEpoch(S) = [StartHeight |-> lastEpochEndHeight + 1, EndTime |-> m,
                     ValMapByPubkey |-> [k \in Pubkeys |-> NominatedCount(S, k)]]
  BY <1>7, Zenon DEF NewEpoch
<1>9. [k \in Pubkeys |-> NominatedCount(S, k)] \in [Pubkeys -> Nat]
  BY <1>6
<1> QED
  BY <1>8, <1>9 DEF Epoch

(* NewWatcher.                                                             *)
LEMMA InitIInv == Init => IInv
<1> SUFFICES ASSUME Init PROVE IInv
  OBVIOUS
<1>1. NodeOK
  BY InitNodeOK
<1>2. LoopOK
  BY Constants DEF Init, LoopOK
<1>3. StoreOK
  BY FS_EmptySet DEF Init, StoreOK
<1>4. EpochsOK
  <2>1. /\ latestFinalizedHeight = LastHeight /\ lastEpochEndHeight = LastHeight
        /\ epochList = <<>> /\ EpochChan = <<>> /\ received = <<>> /\ pc = "run"
    BY DEF Init
  <2>2. 0 * NumBlocksInEpoch = 0 /\ LastHeight < LastHeight + NumBlocksInEpoch
    BY Constants
  <2> QED
    BY <2>1, <2>2, Constants DEF EpochsOK
<1> QED
  BY <1>1, <1>2, <1>3, <1>4 DEF IInv

(* The node moves.                                                         *)
LEMMA GrownIInv ==
    ASSUME IInv, NEW fork, NEW b, Grown(fork, b),
           UNCHANGED <<loopVars, epochVars, storeVars, chanVars, panic>>
    PROVE  IInv'
<1>1. NodeOK'
  BY GrownFacts DEF IInv
<1>2. blocks \subseteq blocks'
  BY DEF Grown
<1>3. UNCHANGED <<height, missingBlockHash, traceLeft, pc, lastEpochEndHeight,
                  epochList, hashToBlock, heightToFinalizedBlock,
                  latestFinalizedHeight, EpochChan, received, panic>>
  BY DEF loopVars, epochVars, storeVars, chanVars
<1>4. LoopOK'
  BY <1>3 DEF IInv, LoopOK
<1>5. StoreOK'
  BY <1>2, <1>3 DEF IInv, StoreOK, AtHeight
<1>6. EpochsOK'
  BY <1>3 DEF IInv, EpochsOK, EpochToSend
<1> QED
  BY <1>1, <1>4, <1>5, <1>6 DEF IInv

(* addBlock, called by Fetch or by Trace.                                  *)
LEMMA AddStore ==
    ASSUME IInv, NEW blk \in blocks, NEW new, Adds(blk, new),
           UNCHANGED <<nodeVars, lastEpochEndHeight>>
    PROVE  StoreOK'
<1> DEFINE fin == heightToFinalizedBlock
<1>1. /\ new \subseteq blocks
      /\ \A c, d \in new : c = d
      /\ \A c \in new : /\ c.Height = latestFinalizedHeight + 1
                        /\ AtHeight(c.Height) = {}
      /\ hashToBlock' \subseteq hashToBlock \cup {blk}
      /\ fin' = fin \cup new
      /\ latestFinalizedHeight' = IF new = {} THEN latestFinalizedHeight
                                  ELSE latestFinalizedHeight + 1
  BY DEF Adds
<1>2. /\ latestFinalizedHeight \in Nat /\ lastEpochEndHeight \in Nat
      /\ lastEpochEndHeight <= latestFinalizedHeight
  BY DEF IInv, EpochsOK
<1>3. blocks' = blocks /\ lastEpochEndHeight' = lastEpochEndHeight
  BY DEF nodeVars
<1>4. /\ hashToBlock \subseteq blocks /\ fin \subseteq blocks
      /\ IsFiniteSet(fin)
      /\ \A x, y \in fin : x.Height = y.Height => x = y
      /\ \A x \in fin : x.Height <= latestFinalizedHeight
  BY DEF IInv, StoreOK
<1>5. \A x \in fin : \A h \in x.Height .. latestFinalizedHeight : AtHeight(h) # {}
  BY DEF IInv, StoreOK
<1>6. PICK m \in Int : /\ m = lastEpochEndHeight + 1
                                - (KeptEpochs + 1) * NumBlocksInEpoch
                       /\ m <= lastEpochEndHeight
  <2>1. (KeptEpochs + 1) * NumBlocksInEpoch \in Nat
        /\ (KeptEpochs + 1) * NumBlocksInEpoch >= 1
    BY Constants
  <2> QED
    BY <2>1, <1>2
<1>7. \A x \in fin : x.Height > m
  BY <1>6 DEF IInv, StoreOK
<1>8. \A x \in blocks : x.Height \in Nat
  BY HeightsAreNat DEF IInv
<1>9. IsFiniteSet(fin')
  <2>1. CASE new = {}
    BY <2>1, <1>1, <1>4
  <2>2. CASE new # {}
    <3>1. PICK c \in new : TRUE
      BY <2>2
    <3>2. \A d \in new : d = c
      BY <1>1
    <3>3. fin' = fin \cup {c}
      BY <3>1, <3>2, <1>1
    <3> QED
      BY <3>3, <1>4, FS_AddElement
  <2> QED
    BY <2>1, <2>2
<1>10. \A c \in new : \A x \in fin : x.Height # c.Height
  BY <1>1 DEF AtHeight
<1>11. \A h : AtHeight(h) \subseteq AtHeight(h)'
  BY <1>1 DEF AtHeight
<1>12. ASSUME NEW x \in fin'
       PROVE  /\ x.Height <= latestFinalizedHeight'
              /\ x.Height > m
              /\ \A h \in x.Height .. latestFinalizedHeight' :
                    \E y \in fin' : y.Height = h
  <2>1. x.Height <= latestFinalizedHeight' /\ x.Height > m
    BY <1>1, <1>2, <1>4, <1>6, <1>7, <1>8
  <2>2. ASSUME NEW h \in x.Height .. latestFinalizedHeight'
        PROVE  \E y \in fin' : y.Height = h
    <3>1. x.Height \in Nat
      BY <1>1, <1>4, <1>8
    <3>2. CASE h <= latestFinalizedHeight
      <4>1. x \in fin
        BY <3>1, <3>2, <1>1, <1>2
      <4>2. h \in x.Height .. latestFinalizedHeight
        BY <3>1, <3>2, <1>2
      <4> QED
        BY <4>1, <4>2, <1>1, <1>5 DEF AtHeight
    <3>3. CASE h > latestFinalizedHeight
      <4>1. new # {} /\ h = latestFinalizedHeight + 1
        BY <3>1, <3>3, <1>1, <1>2
      <4> QED
        BY <4>1, <1>1
    <3> QED
      BY <3>1, <3>2, <3>3, <1>1, <1>2
  <2> QED
    BY <2>1, <2>2
<1>13. \A x, y \in fin' : x.Height = y.Height => x = y
  BY <1>1, <1>4, <1>10
<1>14. \A h : (\E y \in fin' : y.Height = h) => AtHeight(h)' # {}
  BY DEF AtHeight
<1> QED
  BY <1>1, <1>3, <1>4, <1>6, <1>9, <1>12, <1>13, <1>14 DEF StoreOK

(* addBlock keeps the epochs a partition of what is finalized.             *)
LEMMA AddEpochs ==
    ASSUME IInv, pc = "run", NEW blk \in blocks, NEW new, Adds(blk, new),
           Collects(new), UNCHANGED <<nodeVars, lastEpochEndHeight, chanVars>>,
           StoreOK'
    PROVE  EpochsOK'
<1>1. /\ latestFinalizedHeight' = IF new = {} THEN latestFinalizedHeight
                                  ELSE latestFinalizedHeight + 1
      /\ UNCHANGED <<lastEpochEndHeight, EpochChan, received>>
  BY DEF Adds, chanVars
<1>2. /\ latestFinalizedHeight \in Nat /\ lastEpochEndHeight \in Nat
      /\ lastEpochEndHeight <= latestFinalizedHeight
      /\ latestFinalizedHeight < lastEpochEndHeight + NumBlocksInEpoch
      /\ epochList \in Seq(Epoch) /\ Len(epochList) <= KeptEpochs
      /\ EpochChan \in Seq(Epoch) /\ received \in Seq(Epoch)
      /\ Len(EpochChan) <= 1
      /\ lastEpochEndHeight =
            LastHeight + (Len(received) + Len(EpochChan)) * NumBlocksInEpoch
  BY DEF IInv, EpochsOK
<1>3. /\ latestFinalizedHeight' \in Nat
      /\ lastEpochEndHeight <= latestFinalizedHeight'
      /\ latestFinalizedHeight' <= lastEpochEndHeight + NumBlocksInEpoch
  BY <1>1, <1>2, Constants
<1>4. CASE /\ pc' = "run" /\ epochList' = epochList
           /\ new # {} =>
                latestFinalizedHeight' - lastEpochEndHeight # NumBlocksInEpoch
  <2>1. latestFinalizedHeight' < lastEpochEndHeight + NumBlocksInEpoch
    BY <1>1, <1>2, <1>3, <1>4, Constants, SMTT(20)
  <2> QED
    BY <2>1, <1>1, <1>2, <1>3, <1>4 DEF EpochsOK
<1>5. ASSUME NEW S,
             S = EpochBlocks(heightToFinalizedBlock', latestFinalizedHeight'),
             pc' = "send", epochList' = Append(epochList, NewEpoch(S)),
             latestFinalizedHeight' - lastEpochEndHeight = NumBlocksInEpoch
      PROVE  EpochsOK'
  <2>1. S \subseteq heightToFinalizedBlock'
    BY <1>5 DEF EpochBlocks
  <2>2. heightToFinalizedBlock' \subseteq BCHBlock
        /\ IsFiniteSet(heightToFinalizedBlock')
    <3>1. blocks' = blocks /\ blocks \subseteq BCHBlock
      BY DEF nodeVars, IInv, NodeOK
    <3> QED
      BY <3>1 DEF StoreOK
  <2>3. IsFiniteSet(S) /\ S \subseteq BCHBlock
    BY <2>1, <2>2, FS_Subset
  <2>4. /\ NewEpoch(S) \in Epoch
        /\ NewEpoch(S).StartHeight = lastEpochEndHeight + 1
    BY <2>3, <1>2, NewEpochType
  <2>5. PICK e \in Epoch : e = NewEpoch(S)
    BY <2>4
  <2>6. /\ epochList' \in Seq(Epoch) /\ Len(epochList') = Len(epochList) + 1
        /\ epochList'[Len(epochList')] = e
    BY <2>5, <1>2, <1>5
  <2>7. Len(epochList') \in 1 .. KeptEpochs + 1
    BY <2>6, <1>2, Constants
  <2>8. latestFinalizedHeight' = lastEpochEndHeight + NumBlocksInEpoch
    <3>1. latestFinalizedHeight' - lastEpochEndHeight = NumBlocksInEpoch
      BY <1>5
    <3>2. /\ latestFinalizedHeight' \in Nat /\ lastEpochEndHeight \in Nat
          /\ NumBlocksInEpoch \in Nat
      BY <1>2, <1>3, Constants, Zenon
    <3>3. \A x, y, n \in Nat : x - y = n => x = y + n
      OBVIOUS
    <3> QED
      BY <3>1, <3>2, <3>3, ZenonT(40)
  <2>9. EpochToSend'.StartHeight = lastEpochEndHeight + 1
    BY <2>4, <2>5, <2>6 DEF EpochToSend
  <2> QED
    BY <2>6, <2>7, <2>8, <2>9, <1>1, <1>2, <1>3, <1>5 DEF EpochsOK
<1> QED
  BY <1>4, <1>5 DEF Collects

(* addBlock keeps the invariant, whichever loop of Run called it.          *)
LEMMA AddIInv ==
    ASSUME IInv, pc = "run", NEW blk \in blocks, NEW clears,
           AddBlock(blk, clears),
           height' \in Nat, traceLeft' \in 0 .. TraceLimit,
           UNCHANGED <<nodeVars, lastEpochEndHeight, chanVars>>
    PROVE  IInv'
<1>1. NodeOK /\ hashToBlock \subseteq blocks /\ latestFinalizedHeight \in Nat
  BY DEF IInv, StoreOK, EpochsOK
<1>2. NodeOK'
  BY <1>1 DEF nodeVars, NodeOK
<1>3. CASE Panicked
  <2>1. /\ UNCHANGED <<missingBlockHash, pc, hashToBlock, epochList,
                       heightToFinalizedBlock, latestFinalizedHeight>>
        /\ UNCHANGED <<blocks, lastEpochEndHeight, EpochChan, received>>
        /\ panic' \in {"Deep Reorganization", "Height Skipped", "Missing Block"}
    BY <1>3 DEF Panicked, storeVars, nodeVars, chanVars
  <2>2. LoopOK'
    BY <2>1 DEF IInv, LoopOK
  <2>3. StoreOK'
    BY <2>1, ZenonT(40) DEF IInv, StoreOK, AtHeight
  <2>4. EpochsOK'
    BY <2>1 DEF IInv, EpochsOK, EpochToSend
  <2> QED
    BY <1>2, <2>2, <2>3, <2>4 DEF IInv
<1>4. ASSUME NEW new, Adds(blk, new), Collects(new) PROVE IInv'
  <2>1. LoopOK'
    BY <1>4 DEF IInv, LoopOK, Adds
  <2>2. StoreOK'
    BY <1>4, AddStore
  <2>3. EpochsOK'
    BY <1>4, <2>2, AddEpochs
  <2> QED
    BY <1>2, <2>1, <2>2, <2>3 DEF IInv
<1> QED
  BY <1>1, <1>3, <1>4, AddBlockAdds

(* The end of generateNewEpoch. ClearOldData leaves the blocks above the   *)
(* height it starts from, and only those.                                  *)
LEMMA SentStore ==
    ASSUME IInv, EpochSent
    PROVE  StoreOK'
<1> DEFINE fin == heightToFinalizedBlock
<1>1. /\ pc = "send" /\ lastEpochEndHeight' = latestFinalizedHeight
      /\ fin' = fin \ OldBlocks
      /\ hashToBlock' \subseteq hashToBlock
      /\ UNCHANGED <<blocks, latestFinalizedHeight>>
  BY DEF EpochSent, nodeVars
<1>2. /\ lastEpochEndHeight \in Nat
      /\ latestFinalizedHeight = lastEpochEndHeight + NumBlocksInEpoch
      /\ EpochToSend.StartHeight = lastEpochEndHeight + 1
  BY <1>1 DEF IInv, EpochsOK
<1>3. PICK k \in Nat : k = KeptEpochs * NumBlocksInEpoch
  BY Constants
<1>4. PICK from : from = (lastEpochEndHeight + 1) - k
  OBVIOUS
<1>5. /\ NumBlocksInEpoch \in Nat
      /\ (KeptEpochs + 1) * NumBlocksInEpoch = k + NumBlocksInEpoch
  BY <1>3, Constants
<1>6. /\ from \in Int /\ from <= latestFinalizedHeight
      /\ from = latestFinalizedHeight + 1
                    - (KeptEpochs + 1) * NumBlocksInEpoch
      /\ latestFinalizedHeight \in Nat
  <2>1. NumBlocksInEpoch >= 1
    BY Constants
  <2>2. from = (lastEpochEndHeight + NumBlocksInEpoch) + 1
                    - (k + NumBlocksInEpoch)
    BY <1>2, <1>4, <1>5
  <2>3. from \in Int /\ from <= lastEpochEndHeight + NumBlocksInEpoch
    BY <1>2, <1>4, <1>5, <2>1
  <2> QED
    BY <2>2, <2>3, <1>2, <1>5
<1>7. OldBlocks = {b \in fin : /\ b.Height <= from
                               /\ \A h \in b.Height .. from : AtHeight(h) # {}}
  BY <1>2, <1>3, <1>4 DEF OldBlocks, EpochToSend
<1>8. /\ hashToBlock \subseteq blocks /\ fin \subseteq blocks
      /\ IsFiniteSet(fin)
      /\ \A x, y \in fin : x.Height = y.Height => x = y
      /\ \A x \in fin : x.Height <= latestFinalizedHeight
  BY DEF IInv, StoreOK
<1>9. \A x \in fin : \A h \in x.Height .. latestFinalizedHeight : AtHeight(h) # {}
  BY DEF IInv, StoreOK
<1>10. \A x \in fin : x.Height \in Nat
  BY <1>8, HeightsAreNat DEF IInv
<1>11. \A x \in fin' : x \in fin /\ x.Height > from
  <2> TAKE x \in fin'
  <2>1. x \in fin /\ x \notin OldBlocks
    BY <1>1
  <2>2. ASSUME x.Height <= from PROVE FALSE
    <3>1. \A h \in x.Height .. from : h \in x.Height .. latestFinalizedHeight
      BY <2>1, <1>6, <1>10
    <3>2. x \in OldBlocks
      BY <3>1, <2>1, <2>2, <1>7, <1>9
    <3> QED
      BY <3>2, <2>1
  <2> QED
    BY <2>1, <2>2, <1>6, <1>10
<1>12. ASSUME NEW x \in fin', NEW h \in x.Height .. latestFinalizedHeight
       PROVE  AtHeight(h)' # {}
  <2>1. PICK y \in fin : y.Height = h
    BY <1>9, <1>11 DEF AtHeight
  <2>2. h > from
    BY <1>6, <1>10, <1>11
  <2>3. y \notin OldBlocks
    BY <2>1, <2>2, <1>6, <1>7, <1>10
  <2>4. y \in fin' /\ y.Height = h
    BY <2>1, <2>3, <1>1
  <2> QED
    BY <2>4 DEF AtHeight
<1>13. IsFiniteSet(fin')
  <2>1. fin' \subseteq fin
    BY <1>1
  <2> QED
    BY <2>1, <1>8, FS_Subset
<1> QED
  BY <1>1, <1>6, <1>8, <1>11, <1>12, <1>13 DEF StoreOK

(* The send of an epoch moves it from the watcher to the channel.          *)
LEMMA SentEpochs ==
    ASSUME IInv, EpochSent
    PROVE  EpochsOK'
<1>1. /\ pc = "send" /\ EpochChan = <<>> /\ EpochChan' = <<EpochToSend>>
      /\ lastEpochEndHeight' = latestFinalizedHeight
      /\ epochList' = RecentEpochs(epochList) /\ pc' = "run"
      /\ UNCHANGED <<latestFinalizedHeight, received>>
  BY DEF EpochSent
<1>2. /\ lastEpochEndHeight \in Nat /\ latestFinalizedHeight \in Nat
      /\ latestFinalizedHeight = lastEpochEndHeight + NumBlocksInEpoch
      /\ epochList \in Seq(Epoch) /\ received \in Seq(Epoch)
      /\ Len(epochList) \in 1 .. KeptEpochs + 1
      /\ lastEpochEndHeight =
            LastHeight + (Len(received) + Len(EpochChan)) * NumBlocksInEpoch
  BY <1>1 DEF IInv, EpochsOK
<1>3. EpochToSend \in Epoch
  BY <1>2 DEF EpochToSend
<1>4. /\ EpochChan' \in Seq(Epoch) /\ Len(EpochChan') = 1 /\ Len(EpochChan) = 0
  BY <1>1, <1>3
<1>5. lastEpochEndHeight' =
        LastHeight + (Len(received') + Len(EpochChan')) * NumBlocksInEpoch
  <2>1. Len(received) \in Nat /\ NumBlocksInEpoch \in Nat /\ LastHeight \in Nat
    BY <1>2, Constants
  <2>2. (Len(received) + 1) * NumBlocksInEpoch
          = (Len(received) + 0) * NumBlocksInEpoch + NumBlocksInEpoch
    BY <2>1
  <2>3. PICK p \in Nat : p = (Len(received) + 0) * NumBlocksInEpoch
    BY <2>1
  <2> QED
    BY <2>1, <2>2, <2>3, <1>1, <1>2, <1>4
<1>6. epochList' \in Seq(Epoch) /\ Len(epochList') <= KeptEpochs
  <2>1. CASE Len(epochList) > KeptEpochs
    <3>1. epochList' = SubSeq(epochList, (Len(epochList) - KeptEpochs) + 1,
                              Len(epochList))
      BY <2>1, <1>1 DEF RecentEpochs
    <3> QED
      BY <3>1, <2>1, <1>2, Constants
  <2>2. CASE ~ (Len(epochList) > KeptEpochs)
    BY <2>2, <1>1, <1>2, Constants DEF RecentEpochs
  <2> QED
    BY <2>1, <2>2
<1>7. latestFinalizedHeight < latestFinalizedHeight + NumBlocksInEpoch
      /\ latestFinalizedHeight <= latestFinalizedHeight
  BY <1>2, Constants
<1> QED
  BY <1>1, <1>2, <1>4, <1>5, <1>6, <1>7 DEF EpochsOK

(* Commit's receive.                                                       *)
LEMMA ReceiveEpochs ==
    ASSUME IInv, Receive
    PROVE  EpochsOK' /\ Len(EpochChan) = 1 /\ received' = received \o EpochChan
           /\ EpochChan' = <<>>
<1>1. /\ EpochChan # <<>> /\ received' = received \o EpochChan
      /\ EpochChan' = <<>>
      /\ UNCHANGED <<latestFinalizedHeight, lastEpochEndHeight, epochList, pc>>
  BY DEF Receive, loopVars, epochVars, storeVars
<1>2. /\ EpochChan \in Seq(Epoch) /\ received \in Seq(Epoch)
      /\ Len(EpochChan) <= 1
      /\ lastEpochEndHeight =
            LastHeight + (Len(received) + Len(EpochChan)) * NumBlocksInEpoch
  BY DEF IInv, EpochsOK
<1>3. Len(EpochChan) = 1
  <2>1. EpochChan \in Seq(Epoch) /\ EpochChan # <<>> /\ Len(EpochChan) <= 1
    BY <1>1, <1>2
  <2>2. Len(EpochChan) # 0 /\ Len(EpochChan) \in Nat
    BY <2>1
  <2>3. \A x \in Nat : x <= 1 /\ x # 0 => x = 1
    OBVIOUS
  <2> QED
    BY <2>1, <2>2, <2>3, Zenon
<1>4. /\ received' \in Seq(Epoch)
      /\ Len(received') + Len(EpochChan') = Len(received) + Len(EpochChan)
      /\ Len(EpochChan') <= 1 /\ EpochChan' \in Seq(Epoch)
  BY <1>1, <1>2
<1>5. EpochsOK'
  BY <1>1, <1>2, <1>4 DEF IInv, EpochsOK, EpochToSend
<1> QED
  BY <1>1, <1>3, <1>5

-----------------------------------------------------------------------------
(* IInv is an invariant: it holds at the start, and every action keeps it. *)
LEMMA NextIInv == IInv /\ [Next]_vars => IInv'
<1> SUFFICES ASSUME IInv, [Next]_vars PROVE IInv'
  OBVIOUS
<1>1. CASE Mine
  <2>1. UNCHANGED <<loopVars, epochVars, storeVars, chanVars, panic>>
    BY <1>1 DEF Mine
  <2> QED
    BY <1>1, <2>1, MineGrows, GrownIInv DEF IInv
<1>2. ASSUME NEW depth \in 1 .. MaxReorg, Reorg(depth) PROVE IInv'
  <2>1. UNCHANGED <<loopVars, epochVars, storeVars, chanVars, panic>>
    BY <1>2 DEF Reorg
  <2> QED
    BY <1>2, <2>1, ReorgGrows, GrownIInv DEF IInv
<1>3. CASE Fetch
  <2>1. /\ pc = "run" /\ height + 1 \in DOMAIN chain
        /\ AddBlock(chain[height + 1], ClearsAt(height + 1))
        /\ height' = NextHeight(missingBlockHash') /\ traceLeft' = TraceLimit
        /\ UNCHANGED <<nodeVars, lastEpochEndHeight, chanVars>>
    BY <1>3 DEF Fetch
  <2>2. chain[height + 1] \in blocks
    BY <2>1 DEF IInv, NodeOK
  <2>3. height' \in Nat /\ traceLeft' \in 0 .. TraceLimit
    <3>1. height \in Nat
      BY DEF IInv, LoopOK
    <3>2. NextHeight(missingBlockHash') \in Nat
      BY <3>1 DEF NextHeight
    <3>3. TraceLimit \in 0 .. TraceLimit
      BY Constants
    <3> QED
      BY <2>1, <3>2, <3>3, Zenon
  <2> QED
    BY <2>1, <2>2, <2>3, AddIInv
<1>4. CASE FetchNil \/ TraceNil
  <2>1. /\ panic' \in {"nil block", "no parent block"}
        /\ UNCHANGED <<nodeVars, loopVars, epochVars, storeVars, chanVars>>
    BY <1>4 DEF FetchNil, TraceNil
  <2>2. NodeOK' /\ StoreOK' /\ EpochsOK' /\ LoopOK'
    BY <2>1, ZenonT(40)
       DEF IInv, NodeOK, StoreOK, AtHeight, EpochsOK, EpochToSend, LoopOK,
           nodeVars, loopVars, epochVars, storeVars, chanVars
  <2> QED
    BY <2>2 DEF IInv
<1>5. CASE Trace
  <2>1. PICK blk \in blocks : AddBlock(blk, FALSE)
    BY <1>5 DEF Trace
  <2>2. /\ pc = "run" /\ traceLeft > 0 /\ traceLeft' = traceLeft - 1
        /\ height' = height
        /\ UNCHANGED <<nodeVars, lastEpochEndHeight, chanVars>>
    BY <1>5 DEF Trace, Tracing
  <2>3. height' \in Nat /\ traceLeft' \in 0 .. TraceLimit
    <3>1. height \in Nat /\ traceLeft \in 0 .. TraceLimit
      BY DEF IInv, LoopOK
    <3>2. traceLeft - 1 \in 0 .. TraceLimit
      BY <3>1, <2>2, Constants
    <3> QED
      BY <2>2, <3>1, <3>2, Zenon
  <2> QED
    BY <2>1, <2>2, <2>3, AddIInv
<1>6. CASE EpochSent
  <2>1. NodeOK' /\ LoopOK'
    BY <1>6 DEF EpochSent, IInv, NodeOK, LoopOK, nodeVars
  <2> QED
    BY <1>6, <2>1, SentStore, SentEpochs DEF IInv
<1>7. CASE Receive
  <2>1. NodeOK' /\ LoopOK' /\ StoreOK'
    BY <1>7, ZenonT(40)
       DEF Receive, IInv, NodeOK, LoopOK, StoreOK, AtHeight, nodeVars,
           loopVars, epochVars, storeVars
  <2> QED
    BY <1>7, <2>1, ReceiveEpochs DEF IInv
<1>8. CASE UNCHANGED vars
  <2>1. NodeOK' /\ StoreOK' /\ EpochsOK' /\ LoopOK'
    BY <1>8, ZenonT(40)
       DEF IInv, NodeOK, StoreOK, AtHeight, EpochsOK, EpochToSend, LoopOK,
           vars, nodeVars, loopVars, epochVars, storeVars, chanVars
  <2> QED
    BY <2>1 DEF IInv
<1> QED
  BY <1>1, <1>2, <1>3, <1>4, <1>5, <1>6, <1>7, <1>8 DEF Next, WatcherStep

(* The invariant holds in every reachable state.                           *)
LEMMA IInvHolds == Spec => []IInv
BY InitIInv, NextIInv, PTL DEF Spec

(* TypeOK: in particular, the hash that Run asks for when an ancestor is   *)
(* missing is never the zero hash of the first block's parent, and every   *)
(* epoch that generateNewEpoch makes is well formed.                       *)
THEOREM TypeCorrect == Spec => []TypeOK
<1>1. IInv => TypeOK
  <2> SUFFICES ASSUME IInv PROVE TypeOK
    OBVIOUS
  <2>1. /\ blocks \subseteq BCHBlock /\ tip \in FirstHeight .. MaxTip
        /\ chain \in [FirstHeight .. tip -> BCHBlock]
        /\ branch \in 0 .. MaxBranches
    BY DEF IInv, NodeOK
  <2>2. hashToBlock \subseteq BCHBlock /\ heightToFinalizedBlock \subseteq BCHBlock
    BY <2>1 DEF IInv, StoreOK
  <2>3. pc \in {"run", "send"}
    BY DEF IInv, EpochsOK
  <2> QED
    BY <2>1, <2>2, <2>3 DEF IInv, LoopOK, EpochsOK, TypeOK
<1> QED
  BY <1>1, IInvHolds, PTL

(* MemoryBounded: ClearOldData never falls behind, so that the watcher     *)
(* keeps a bounded number of finalized blocks and of epochs however long   *)
(* it runs.                                                                *)
THEOREM MemoryBoundedHolds == Spec => []MemoryBounded
<1>1. IInv => MemoryBounded
  <2> SUFFICES ASSUME IInv PROVE MemoryBounded
    OBVIOUS
  <2> DEFINE fin == heightToFinalizedBlock
  <2>1. PICK p \in Nat : p = (KeptEpochs + 1) * NumBlocksInEpoch
    BY Constants
  <2>2. (KeptEpochs + 2) * NumBlocksInEpoch - 1 = p + NumBlocksInEpoch - 1
    BY <2>1, Constants
  <2>3. PICK low \in Int, top \in Nat :
          /\ low = lastEpochEndHeight + 1 - p
          /\ top = latestFinalizedHeight
          /\ top - low <= p + NumBlocksInEpoch - 1
    <3>1. /\ lastEpochEndHeight \in Nat /\ latestFinalizedHeight \in Nat
          /\ latestFinalizedHeight <= lastEpochEndHeight + NumBlocksInEpoch
      BY Constants DEF IInv, EpochsOK
    <3> QED
      BY <3>1, Constants
  <2>4. p + NumBlocksInEpoch - 1 \in Nat
    BY Constants
  <2>5. \A x \in fin : x.Height \in low + 1 .. top
    <3>1. \A x \in fin : x.Height \in Nat
      BY HeightsAreNat DEF IInv, StoreOK
    <3>2. \A x \in fin : x.Height <= latestFinalizedHeight
                         /\ x.Height > lastEpochEndHeight + 1 - p
      BY <2>1 DEF IInv, StoreOK
    <3> QED
      BY <3>1, <3>2, <2>3
  <2>6. Cardinality(fin) <= p + NumBlocksInEpoch - 1
    <3> DEFINE I == low + 1 .. top
               f == [x \in fin |-> x.Height]
    <3>1. /\ IsFiniteSet(I)
          /\ Cardinality(I) = IF low + 1 > top THEN 0 ELSE top - (low + 1) + 1
      <4>1. low + 1 \in Int /\ top \in Int
        OBVIOUS
      <4> QED
        BY <4>1, FS_Interval, Zenon
    <3>2. f \in Injection(fin, I)
      <4>1. f \in [fin -> I]
        BY <2>5
      <4>2. \A x, y \in fin : f[x] = f[y] => x = y
        BY DEF IInv, StoreOK
      <4> QED
        BY <4>1, <4>2 DEF Injection, IsInjective
    <3> HIDE DEF I, f
    <3>3. Cardinality(fin) <= Cardinality(I)
      BY <3>1, <3>2, FS_Injection
    <3>4. Cardinality(fin) \in Nat /\ Cardinality(I) \in Nat
      BY <3>1, FS_CardinalityType DEF IInv, StoreOK
    <3>5. Cardinality(I) <= p + NumBlocksInEpoch - 1
      BY <3>1, <2>3, <2>4
    <3> QED
      BY <3>3, <3>4, <3>5, <2>4
  <2>7. Len(epochList) <= KeptEpochs + 1
    BY Constants DEF IInv, EpochsOK
  <2> QED
    BY <2>2, <2>6, <2>7 DEF MemoryBounded
<1> QED
  BY <1>1, IInvHolds, PTL

-----------------------------------------------------------------------------
(* The head of a sequence of one number.                                   *)
LEMMA HeadOfOne ==
    \A v \in Seq(Int) : Len(v) = 1 => v[1] \in Int /\ Head(v) = v[1]
OBVIOUS

(* The start heights of epochs, as a sequence.                             *)
LEMMA StartsFacts ==
    /\ Starts(<<>>) = <<>>
    /\ \A e : Starts(<<e>>) = <<e.StartHeight>>
    /\ \A s \in Seq(Epoch) : Starts(s) \in Seq(Int) /\ Len(Starts(s)) = Len(s)
    /\ \A s, t \in Seq(Epoch) :
          Len(t) = 1 => Starts(s \o t) = Append(Starts(s), Head(Starts(t)))
<1>1. Starts(<<>>) = <<>>
  BY DEF Starts
<1>2. ASSUME NEW e PROVE Starts(<<e>>) = <<e.StartHeight>>
  BY DEF Starts
<1>3. ASSUME NEW s \in Seq(Epoch)
      PROVE  Starts(s) \in Seq(Int) /\ Len(Starts(s)) = Len(s)
  <2>1. \A i \in 1 .. Len(s) : s[i] \in Epoch
    OBVIOUS
  <2>2. \A i \in 1 .. Len(s) : s[i].StartHeight \in Int
    BY <2>1 DEF Epoch
  <2> QED
    BY <2>2 DEF Starts
<1>4. ASSUME NEW s \in Seq(Epoch), NEW t \in Seq(Epoch), Len(t) = 1
      PROVE  Starts(s \o t) = Append(Starts(s), Head(Starts(t)))
  <2>1. PICK n \in Nat : n = Len(s) /\ n + 1 = Len(s) + Len(t)
    BY <1>4
  <2>2. /\ s \o t \in Seq(Epoch) /\ Len(s \o t) = n + 1
        /\ \A i \in 1 .. n + 1 : (s \o t)[i] = IF i <= n THEN s[i] ELSE t[i - n]
    BY <2>1, ConcatProperties
  <2>3. PICK u \in Seq(Int) : u = Starts(s) /\ Len(u) = n
    BY <2>1, <1>3
  <2>4. \A i \in 1 .. n : u[i] = s[i].StartHeight
    BY <2>1, <2>3 DEF Starts
  <2>5. PICK x \in Int : x = t[1].StartHeight /\ Head(Starts(t)) = x
    <3>1. Starts(t) \in Seq(Int) /\ Len(Starts(t)) = 1
      BY <1>3, <1>4
    <3>2. Starts(t)[1] = t[1].StartHeight
      BY <1>4 DEF Starts
    <3> QED
      BY <3>1, <3>2, HeadOfOne, Zenon
  <2>6. /\ Append(u, x) \in Seq(Int) /\ Len(Append(u, x)) = n + 1
        /\ \A i \in 1 .. n + 1 : Append(u, x)[i] = IF i <= n THEN u[i] ELSE x
    <3>1. Len(u) = n
      BY <2>3
    <3>2. Append(u, x) \in Seq(Int) /\ Len(Append(u, x)) = n + 1
          /\ Append(u, x)[n + 1] = x
          /\ \A i \in 1 .. n : Append(u, x)[i] = u[i]
      BY <3>1, AppendProperties
    <3> QED
      BY <3>2
  <2>7. /\ Starts(s \o t) \in Seq(Int) /\ Len(Starts(s \o t)) = n + 1
        /\ \A i \in 1 .. n + 1 : Starts(s \o t)[i] = (s \o t)[i].StartHeight
    <3>1. Starts(s \o t) \in Seq(Int) /\ Len(Starts(s \o t)) = n + 1
      BY <2>2, <1>3, Zenon
    <3>2. Starts(s \o t) = [i \in 1 .. n + 1 |-> (s \o t)[i].StartHeight]
      BY <2>2 DEF Starts
    <3>3. \A i \in 1 .. n + 1 : Starts(s \o t)[i] = (s \o t)[i].StartHeight
      BY <3>2, Zenon
    <3> QED
      BY <3>1, <3>3, Zenon
  <2>8. ASSUME NEW i \in 1 .. n + 1
        PROVE  Starts(s \o t)[i] = Append(u, x)[i]
    <3>1. CASE i <= n
      <4>1. i \in 1 .. n
        BY <3>1
      <4>2. Append(u, x)[i] = u[i]
        BY <3>1, <2>6
      <4>3. (s \o t)[i] = s[i]
        BY <3>1, <2>2
      <4> QED
        BY <4>1, <4>2, <4>3, <2>4, <2>7, Zenon
    <3>2. CASE ~ (i <= n)
      <4>1. i - n = 1
        BY <3>2
      <4>2. Starts(s \o t)[i] = t[1].StartHeight
        BY <3>2, <4>1, <2>2, <2>7
      <4> QED
        BY <3>2, <4>2, <2>5, <2>6
    <3> QED
      BY <3>1, <3>2
  <2>9. Starts(s \o t) = Append(u, x)
    BY <2>6, <2>7, <2>8, SeqEqual
  <2> QED
    BY <2>3, <2>5, <2>9
<1> QED
  BY <1>1, <1>2, <1>3, <1>4

(* ImplementsEpochSource: for every chain and every reorganization, what   *)
(* passes through EpochChan is the sequence of epochs that app.go relies   *)
(* on. The send is the abstract Send because the epoch that waits starts   *)
(* after all that were sent (EpochsOK), Commit's receive is the abstract   *)
(* Receive, and every other step leaves the channel alone.                 *)
THEOREM RefinesEpochSource == Spec => ImplementsEpochSource
<1>1. Init => Source!Init
  BY StartsFacts DEF Init, Source!Init
<1>2. IInv /\ [Next]_vars => [Source!Next]_(Source!vars)
  <2> SUFFICES ASSUME IInv, [Next]_vars
               PROVE  Source!Next \/ UNCHANGED Source!vars
    OBVIOUS
  <2>1. CASE EpochSent
    <3>1. /\ pc = "send" /\ EpochChan = <<>> /\ EpochChan' = <<EpochToSend>>
          /\ received' = received
      BY <2>1 DEF EpochSent
    <3>2. /\ received \in Seq(Epoch)
          /\ EpochToSend.StartHeight = lastEpochEndHeight + 1
          /\ lastEpochEndHeight =
                LastHeight + (Len(received) + Len(EpochChan)) * NumBlocksInEpoch
      BY <3>1 DEF IInv, EpochsOK
    <3>3. PICK n \in Nat : n = Len(received) /\ n = Len(Starts(received))
      BY <3>2, StartsFacts
    <3>4. EpochToSend.StartHeight = Source!StartOf(Len(Starts(received)) + 1)
      <4>1. PICK p \in Nat : p = n * NumBlocksInEpoch
        BY Constants
      <4>2. Len(received) + Len(EpochChan) = n
        BY <3>1, <3>3
      <4>3. lastEpochEndHeight = LastHeight + p
        BY <3>2, <4>1, <4>2, Zenon
      <4>4. (n + 1) - 1 = n
        OBVIOUS
      <4>5. Source!StartOf(n + 1) = LastHeight + 1 + p
        BY <4>1, <4>4 DEF Source!StartOf
      <4>6. LastHeight + p + 1 = LastHeight + 1 + p
        BY Constants
      <4> QED
        BY <3>2, <3>3, <4>3, <4>5, <4>6
    <3>5. /\ Starts(EpochChan) = <<>>
          /\ Starts(EpochChan)' = <<EpochToSend.StartHeight>>
          /\ Starts(received)' = Starts(received)
      BY <3>1, StartsFacts
    <3>6. Source!Send
      BY <3>4, <3>5 DEF Source!Send
    <3> QED
      BY <3>6 DEF Source!Next
  <2>2. CASE Receive
    <3>1. /\ Len(EpochChan) = 1 /\ received' = received \o EpochChan
          /\ EpochChan' = <<>>
      BY <2>2, ReceiveEpochs
    <3>2. EpochChan \in Seq(Epoch) /\ received \in Seq(Epoch)
      BY DEF IInv, EpochsOK
    <3>3. Starts(received)' = Append(Starts(received), Head(Starts(EpochChan)))
      BY <3>1, <3>2, StartsFacts
    <3>4. Starts(EpochChan) \in Seq(Int) /\ Len(Starts(EpochChan)) = 1
      BY <3>1, <3>2, StartsFacts
    <3>5. Starts(EpochChan) # <<>> /\ Tail(Starts(EpochChan)) = <<>>
      <4>1. Starts(EpochChan) # <<>>
        BY <3>4, SMTT(20)
      <4>2. Tail(Starts(EpochChan)) \in Seq(Int)
            /\ Len(Tail(Starts(EpochChan))) = 0
        BY <3>4, <4>1, HeadTailProperties
      <4>3. 0 \notin Nat \ {0}
        OBVIOUS
      <4> QED
        BY <4>1, <4>2, <4>3, EmptySeq, Zenon
    <3>6. Starts(EpochChan)' = <<>>
      BY <3>1, StartsFacts
    <3>7. Source!Receive
      BY <3>3, <3>5, <3>6 DEF Source!Receive
    <3> QED
      BY <3>7 DEF Source!Next
  <2>3. CASE UNCHANGED chanVars
    BY <2>3 DEF chanVars, Starts, Source!vars
  <2>4. EpochSent \/ Receive \/ UNCHANGED chanVars
    BY DEF Next, WatcherStep, Mine, Reorg, Fetch, FetchNil, Trace, TraceNil,
           vars
  <2> QED
    BY <2>1, <2>2, <2>3, <2>4
<1> QED
  BY <1>1, <1>2, IInvHolds, PTL DEF Spec, ImplementsEpochSource, Source!Spec

-----------------------------------------------------------------------------
(* As long as no reorganization is deeper than the confirmations that      *)
(* addBlock asks for, what is finalized is FinalizeDepth blocks below the  *)
(* tip and on the best chain, and so are the blocks of every epoch that    *)
(* waits, was sent or was received. Its content is read off chain c.       *)
Describes(c, e, start) ==
    LET hashes == {c[h].HashId : h \in start .. start + NumBlocksInEpoch - 1}
    IN  /\ e.StartHeight = start
        /\ e.EndTime = Max({0} \cup {TimeOf(x) : x \in hashes})
        /\ \A k \in Pubkeys :
              e.ValMapByPubkey[k] > 0 <=> \E x \in hashes : k \in Nominee(x)

Final(c, t, e, start) ==
    /\ FirstHeight <= start
    /\ start + NumBlocksInEpoch - 1 <= t - FinalizeDepth
    /\ Describes(c, e, start)

OnBestChain ==
    \A x \in heightToFinalizedBlock :
        x.Height <= tip - FinalizeDepth /\ x = chain[x.Height]

EpochsFinal ==
    /\ \A i \in 1 .. Len(received) :
          Final(chain, tip, received[i],
                LastHeight + 1 + (i - 1) * NumBlocksInEpoch)
    /\ EpochChan # <<>> =>
          Final(chain, tip, EpochChan[1],
                lastEpochEndHeight + 1 - NumBlocksInEpoch)
    /\ pc = "send" => Final(chain, tip, EpochToSend, lastEpochEndHeight + 1)

FinalOK == (\E F : Forks(F)) /\ OnBestChain /\ EpochsFinal

(* What the epoch says does not change when the chain grows above it.      *)
LEMMA GrownFinal ==
    ASSUME NodeOK, NEW fork, NEW b, Grown(fork, b),
           tip - fork <= FinalizeDepth,
           NEW e, NEW start \in Int, Final(chain, tip, e, start)
    PROVE  Final(chain', tip', e, start)
<1>1. /\ FirstHeight \in Nat /\ FinalizeDepth \in Nat /\ tip \in Int
      /\ fork \in Int /\ NumBlocksInEpoch \in Nat
  BY Constants DEF NodeOK, Grown
<1>2. /\ FirstHeight <= start
      /\ start + NumBlocksInEpoch - 1 <= tip - FinalizeDepth
      /\ Describes(chain, e, start)
  BY DEF Final
<1>3. /\ tip' = tip + 1
      /\ \A h \in FirstHeight .. fork : chain'[h] = chain[h]
  BY DEF Grown
<1>4. start .. start + NumBlocksInEpoch - 1 \subseteq FirstHeight .. fork
  BY <1>1, <1>2
<1>5. PICK I : I = start .. start + NumBlocksInEpoch - 1
  OBVIOUS
<1>6. \A h \in I : chain'[h] = chain[h]
  BY <1>3, <1>4, <1>5
<1>7. {chain'[h].HashId : h \in I} = {chain[h].HashId : h \in I}
  BY <1>6
<1>8. Describes(chain', e, start)
  BY <1>2, <1>5, <1>7, Zenon DEF Describes
<1>9. start + NumBlocksInEpoch - 1 <= tip' - FinalizeDepth
  BY <1>1, <1>2, <1>3
<1> QED
  BY <1>2, <1>8, <1>9 DEF Final

(* Where the epochs start, as a number.                                    *)
LEMMA StartsAreInt ==
    ASSUME EpochsOK
    PROVE  /\ \A i \in 1 .. Len(received) :
                 LastHeight + 1 + (i - 1) * NumBlocksInEpoch \in Int
           /\ lastEpochEndHeight + 1 - NumBlocksInEpoch \in Int
           /\ lastEpochEndHeight + 1 \in Int
<1>1. lastEpochEndHeight \in Nat /\ received \in Seq(Epoch)
  BY DEF EpochsOK
<1>2. \A i \in 1 .. Len(received) : (i - 1) * NumBlocksInEpoch \in Int
  BY <1>1, Constants
<1>3. \A i \in 1 .. Len(received) :
         LastHeight + 1 + (i - 1) * NumBlocksInEpoch \in Int
  BY <1>2, Constants
<1> QED
  BY <1>1, <1>3, Constants

(* The node moves.                                                         *)
LEMMA GrownFinalOK ==
    ASSUME IInv, FinalOK, NEW fork, NEW b, Grown(fork, b),
           tip - fork <= FinalizeDepth,
           UNCHANGED <<loopVars, epochVars, storeVars, chanVars, panic>>
    PROVE  FinalOK'
<1>1. NodeOK /\ heightToFinalizedBlock \subseteq blocks /\ EpochsOK
  BY DEF IInv, StoreOK
<1>2. UNCHANGED <<heightToFinalizedBlock, lastEpochEndHeight, epochList, pc,
                  EpochChan, received>>
  BY DEF loopVars, epochVars, storeVars, chanVars
<1>3. \E G : Forks(G)'
  BY <1>1, GrownForks DEF FinalOK
<1>4. OnBestChain'
  <2> SUFFICES ASSUME NEW x \in heightToFinalizedBlock
               PROVE  x.Height <= tip' - FinalizeDepth /\ x = chain'[x.Height]
    BY <1>2 DEF OnBestChain
  <2>1. x.Height <= tip - FinalizeDepth /\ x = chain[x.Height]
    BY DEF FinalOK, OnBestChain
  <2>2. x.Height \in FirstHeight .. MaxTip
    BY <1>1 DEF NodeOK, BCHBlock
  <2>3. /\ FirstHeight \in Nat /\ FinalizeDepth \in Nat /\ tip \in Int
        /\ fork \in Int /\ MaxTip \in Nat /\ tip' = tip + 1
    BY <1>1, Constants DEF NodeOK, Grown
  <2>4. x.Height \in FirstHeight .. fork /\ x.Height <= tip' - FinalizeDepth
    BY <2>1, <2>2, <2>3
  <2>5. chain'[x.Height] = chain[x.Height]
    BY <2>4 DEF Grown
  <2> QED
    BY <2>1, <2>4, <2>5
<1>5. EpochsFinal'
  <2>1. \A e : \A start \in Int :
           Final(chain, tip, e, start) => Final(chain', tip', e, start)
    BY <1>1, GrownFinal
  <2>2. EpochsFinal
    BY DEF FinalOK
  <2>3. ASSUME NEW i \in 1 .. Len(received)
        PROVE  Final(chain', tip', received[i],
                     LastHeight + 1 + (i - 1) * NumBlocksInEpoch)
    <3>1. PICK start \in Int :
             start = LastHeight + 1 + (i - 1) * NumBlocksInEpoch
      BY <1>1, StartsAreInt
    <3>2. Final(chain, tip, received[i], start)
      BY <2>2, <3>1, Zenon DEF EpochsFinal
    <3> QED
      BY <3>1, <3>2, <2>1, Zenon
  <2>4. EpochChan # <<>> => Final(chain', tip', EpochChan[1],
                                  lastEpochEndHeight + 1 - NumBlocksInEpoch)
    <3>1. PICK start \in Int : start = lastEpochEndHeight + 1 - NumBlocksInEpoch
      BY <1>1, StartsAreInt
    <3>2. EpochChan # <<>> => Final(chain, tip, EpochChan[1], start)
      BY <2>2, <3>1, Zenon DEF EpochsFinal
    <3> QED
      BY <3>1, <3>2, <2>1, Zenon
  <2>5. pc = "send" => Final(chain', tip', EpochToSend, lastEpochEndHeight + 1)
    <3>1. PICK start \in Int : start = lastEpochEndHeight + 1
      BY <1>1, StartsAreInt
    <3>2. pc = "send" => Final(chain, tip, EpochToSend, start)
      BY <2>2, <3>1, Zenon DEF EpochsFinal
    <3> QED
      BY <3>1, <3>2, <2>1, Zenon
  <2>6. EpochToSend' = EpochToSend
    BY <1>2 DEF EpochToSend
  <2> QED
    BY <1>2, <2>3, <2>4, <2>5, <2>6 DEF EpochsFinal
<1> QED
  BY <1>3, <1>4, <1>5 DEF FinalOK

(* An epoch made of the blocks of chain c at its heights describes them.   *)
LEMMA NewEpochDescribes ==
    ASSUME NEW c, NEW S, IsFiniteSet(S), lastEpochEndHeight \in Nat,
           S = {c[h] : h \in lastEpochEndHeight + 1 ..
                             (lastEpochEndHeight + 1) + NumBlocksInEpoch - 1}
    PROVE  Describes(c, NewEpoch(S), lastEpochEndHeight + 1)
<1>1. PICK start : start = lastEpochEndHeight + 1
  OBVIOUS
<1>2. PICK I : I = start .. start + NumBlocksInEpoch - 1
  OBVIOUS
<1>3. PICK hashes : hashes = {c[h].HashId : h \in I}
  OBVIOUS
<1>4. S = {c[h] : h \in I}
  BY <1>1, <1>2, Zenon
<1>5. {TimeOf(b.HashId) : b \in S} = {TimeOf(x) : x \in hashes}
  BY <1>3, <1>4
<1>6. PICK m : m = Max({0} \cup {TimeOf(x) : x \in hashes})
  OBVIOUS
<1>7. NewEpoch(S) = [StartHeight |-> start, EndTime |-> m,
                     ValMapByPubkey |-> [k \in Pubkeys |-> NominatedCount(S, k)]]
  BY <1>1, <1>5, <1>6, Zenon DEF NewEpoch
<1>8. ASSUME NEW k \in Pubkeys
      PROVE  NominatedCount(S, k) > 0 <=> \E x \in hashes : k \in Nominee(x)
  <2> DEFINE N == {b \in S : k \in Nominee(b.HashId)}
  <2>1. (\E x \in hashes : k \in Nominee(x)) <=> N # {}
    BY <1>3, <1>4
  <2>2. NominatedCount(S, k) = IF Cardinality(N) = 0 THEN 0
                               ELSE Cardinality(N) + 1
    BY DEF NominatedCount
  <2>3. N \subseteq S
    OBVIOUS
  <2> HIDE DEF N
  <2>4. IsFiniteSet(N)
    BY <2>3, FS_Subset
  <2>5. Cardinality(N) \in Nat /\ (Cardinality(N) = 0 <=> N = {})
    BY <2>4, FS_CardinalityType, FS_EmptySet
  <2>6. NominatedCount(S, k) > 0 <=> Cardinality(N) # 0
    BY <2>2, <2>5
  <2> QED
    BY <2>1, <2>5, <2>6, Zenon
<1>9. PICK e : e = NewEpoch(S)
  OBVIOUS
<1>10. /\ e.StartHeight = start /\ e.EndTime = m
       /\ \A k \in Pubkeys : e.ValMapByPubkey[k] = NominatedCount(S, k)
  BY <1>7, <1>9
<1>11. \A k \in Pubkeys :
          e.ValMapByPubkey[k] > 0 <=> \E x \in hashes : k \in Nominee(x)
  BY <1>8, <1>10
<1>12. Describes(c, e, start)
  BY <1>2, <1>3, <1>6, <1>10, <1>11, Zenon DEF Describes
<1> QED
  BY <1>1, <1>9, <1>12

(* addBlock: what it finalizes is on the best chain, and the epoch that is *)
(* complete has no hole.                                                   *)
LEMMA AddFinalOK ==
    ASSUME IInv, FinalOK, pc = "run", NEW blk \in blocks, NEW new,
           Adds(blk, new), Collects(new), StoreOK',
           UNCHANGED <<nodeVars, lastEpochEndHeight, chanVars>>
    PROVE  FinalOK'
<1>1. PICK F : Forks(F)
  BY DEF FinalOK
<1>2. UNCHANGED <<blocks, chain, tip, branch, lastEpochEndHeight, EpochChan,
                  received>>
  BY DEF nodeVars, chanVars
<1>3. Forks(F)'
  BY <1>1, <1>2 DEF Forks
<1>4. heightToFinalizedBlock' = heightToFinalizedBlock \cup new
      /\ \A c \in new : c.Height = blk.Height - FinalizeDepth
                        /\ c = chain[c.Height]
  BY <1>1 DEF Adds
<1>5. NodeOK /\ tip \in Int /\ FinalizeDepth \in Nat
  BY Constants DEF IInv, NodeOK
<1>6. ASSUME NEW x \in heightToFinalizedBlock'
      PROVE  x.Height <= tip - FinalizeDepth /\ x = chain[x.Height]
  <2>1. CASE x \in heightToFinalizedBlock
    BY <2>1 DEF FinalOK, OnBestChain
  <2>2. CASE x \in new
    <3>1. blk.Height \in Nat /\ blk.Height <= tip
      BY <1>5, HeightsAreNat DEF NodeOK
    <3> QED
      BY <2>2, <3>1, <1>4, <1>5
  <2> QED
    BY <2>1, <2>2, <1>4
<1>7. OnBestChain'
  BY <1>2, <1>6 DEF OnBestChain
<1>8. pc' = "send" => Final(chain, tip, EpochToSend', lastEpochEndHeight + 1)
  <2> SUFFICES ASSUME pc' = "send"
               PROVE  Final(chain, tip, EpochToSend', lastEpochEndHeight + 1)
    OBVIOUS
  <2>1. PICK S :
          /\ S = EpochBlocks(heightToFinalizedBlock', latestFinalizedHeight')
          /\ epochList' = Append(epochList, NewEpoch(S))
          /\ latestFinalizedHeight' - lastEpochEndHeight = NumBlocksInEpoch
          /\ \A h \in lastEpochEndHeight + 1 .. latestFinalizedHeight' :
                \E b \in S : b.Height = h
    BY DEF Collects
  <2>2. /\ lastEpochEndHeight \in Nat /\ latestFinalizedHeight' \in Nat
        /\ NumBlocksInEpoch \in Nat /\ NumBlocksInEpoch >= 1
    <3>1. latestFinalizedHeight \in Nat /\ lastEpochEndHeight \in Nat
      BY DEF IInv, EpochsOK
    <3>2. latestFinalizedHeight' = IF new = {} THEN latestFinalizedHeight
                                   ELSE latestFinalizedHeight + 1
      BY DEF Adds
    <3> QED
      BY <3>1, <3>2, Constants
  <2>3. PICK start \in Nat, last \in Nat :
          /\ start = lastEpochEndHeight + 1
          /\ last = latestFinalizedHeight'
          /\ last = start + NumBlocksInEpoch - 1
          /\ start <= last
    <3>1. \A x, y, n \in Nat : x - y = n => x = y + n
      OBVIOUS
    <3>2. /\ lastEpochEndHeight + 1 \in Nat
          /\ latestFinalizedHeight' = (lastEpochEndHeight + 1) + NumBlocksInEpoch - 1
          /\ lastEpochEndHeight + 1 <= latestFinalizedHeight'
      <4>1. latestFinalizedHeight' - lastEpochEndHeight = NumBlocksInEpoch
        BY <2>1
      <4>2. latestFinalizedHeight' \in Nat
        BY <2>2
      <4>3. lastEpochEndHeight \in Nat
        BY <2>2
      <4>4. NumBlocksInEpoch \in Nat /\ NumBlocksInEpoch >= 1
        BY <2>2
      <4>5. latestFinalizedHeight' = lastEpochEndHeight + NumBlocksInEpoch
        BY <3>1, <4>1, <4>2, <4>3, <4>4, ZenonT(40)
      <4> QED
        BY <4>3, <4>4, <4>5
    <3>3. PICK start \in Nat : start = lastEpochEndHeight + 1
      BY <3>2
    <3>4. PICK last \in Nat : last = latestFinalizedHeight'
      BY <2>2
    <3>5. last = start + NumBlocksInEpoch - 1 /\ start <= last
      BY <3>2, <3>3, <3>4, Zenon
    <3> QED
      BY <3>3, <3>4, <3>5, Zenon
  <2>4. S \subseteq heightToFinalizedBlock'
        /\ \A x \in heightToFinalizedBlock' :
              x \in S <=> x.Height > lastEpochEndHeight /\ x.Height <= last
    BY <2>1, <2>3 DEF EpochBlocks
  <2>5. heightToFinalizedBlock' \subseteq blocks
        /\ IsFiniteSet(heightToFinalizedBlock')
    BY <1>2 DEF StoreOK
  <2>6. \A x \in heightToFinalizedBlock' :
           x.Height \in Nat /\ FirstHeight <= x.Height
    <3>1. \A x \in blocks : x.Height \in FirstHeight .. MaxTip
      BY <1>5 DEF NodeOK, BCHBlock
    <3> QED
      BY <3>1, <2>5, Constants
  <2>7. S = {chain[h] : h \in start .. last}
    <3>1. ASSUME NEW x \in S PROVE x \in {chain[h] : h \in start .. last}
      <4>1. x.Height > lastEpochEndHeight /\ x.Height <= last /\ x.Height \in Nat
        BY <2>4, <2>6
      <4>2. x.Height \in start .. last
        BY <4>1, <2>2, <2>3
      <4>3. x = chain[x.Height]
        BY <1>6, <2>4
      <4> QED
        BY <4>2, <4>3
    <3>2. ASSUME NEW h \in start .. last PROVE chain[h] \in S
      <4>1. h \in lastEpochEndHeight + 1 .. latestFinalizedHeight'
        BY <2>3
      <4>2. PICK x \in S : x.Height = h
        BY <4>1, <2>1
      <4>3. x = chain[x.Height]
        BY <1>6, <2>4
      <4> QED
        BY <4>2, <4>3
    <3> QED
      BY <3>1, <3>2
  <2>8. FirstHeight <= start /\ last <= tip - FinalizeDepth
    <3>1. PICK x \in S : x.Height = start
      <4>1. start \in lastEpochEndHeight + 1 .. latestFinalizedHeight'
        BY <2>3
      <4> QED
        BY <4>1, <2>1
    <3>2. PICK y \in S : y.Height = last
      <4>1. last \in lastEpochEndHeight + 1 .. latestFinalizedHeight'
        BY <2>3
      <4> QED
        BY <4>1, <2>1
    <3> QED
      BY <3>1, <3>2, <2>4, <2>6, <1>6
  <2>9. IsFiniteSet(S)
    BY <2>4, <2>5, FS_Subset
  <2>10. Describes(chain, NewEpoch(S), start)
    <3>1. S = {chain[h] : h \in lastEpochEndHeight + 1 ..
                             (lastEpochEndHeight + 1) + NumBlocksInEpoch - 1}
      BY <2>3, <2>7, Zenon
    <3> QED
      BY <3>1, <2>2, <2>3, <2>9, NewEpochDescribes, Zenon
  <2>11. EpochToSend' = NewEpoch(S)
    <3>1. epochList \in Seq(Epoch)
      BY DEF IInv, EpochsOK
    <3>2. NewEpoch(S) \in Epoch
      <4>1. S \subseteq BCHBlock
        BY <2>4, <2>5, <1>5 DEF NodeOK
      <4> QED
        BY <4>1, <2>2, <2>9, NewEpochType
    <3>3. PICK e \in Epoch : e = NewEpoch(S)
      BY <3>2
    <3>4. Append(epochList, e)[Len(Append(epochList, e))] = e
      BY <3>1, AppendProperties
    <3> QED
      BY <2>1, <3>3, <3>4, Zenon DEF EpochToSend
  <2>12. start + NumBlocksInEpoch - 1 <= tip - FinalizeDepth
    <3>1. last = start + NumBlocksInEpoch - 1
      BY <2>3
    <3> QED
      BY <3>1, <2>8, Zenon
  <2>13. Final(chain, tip, NewEpoch(S), start)
    BY <2>8, <2>10, <2>12 DEF Final
  <2> QED
    BY <2>3, <2>11, <2>13
<1>9. EpochsFinal'
  BY <1>2, <1>8 DEF FinalOK, EpochsFinal
<1> QED
  BY <1>3, <1>7, <1>9 DEF FinalOK

(* The send and the receive move an epoch along.                           *)
LEMMA SentFinalOK ==
    ASSUME IInv, FinalOK, EpochSent
    PROVE  FinalOK'
<1>1. /\ pc = "send" /\ EpochChan' = <<EpochToSend>> /\ pc' = "run"
      /\ lastEpochEndHeight' = latestFinalizedHeight
      /\ heightToFinalizedBlock' \subseteq heightToFinalizedBlock
      /\ UNCHANGED <<blocks, chain, tip, branch, received>>
  BY DEF EpochSent, nodeVars
<1>2. /\ lastEpochEndHeight \in Nat
      /\ latestFinalizedHeight = lastEpochEndHeight + NumBlocksInEpoch
  BY <1>1 DEF IInv, EpochsOK
<1>3. lastEpochEndHeight' + 1 - NumBlocksInEpoch = lastEpochEndHeight + 1
  BY <1>1, <1>2, Constants
<1>4. Final(chain, tip, EpochToSend, lastEpochEndHeight + 1)
  BY <1>1 DEF FinalOK, EpochsFinal
<1>5. EpochChan'[1] = EpochToSend
  BY <1>1
<1>6. Final(chain', tip', EpochChan'[1],
            lastEpochEndHeight' + 1 - NumBlocksInEpoch)
  BY <1>1, <1>3, <1>4, <1>5
<1>7. EpochsFinal'
  BY <1>1, <1>6 DEF FinalOK, EpochsFinal
<1>8. (\E F : Forks(F)) => \E F : Forks(F)'
  BY <1>1 DEF Forks
<1>9. OnBestChain'
  BY <1>1 DEF FinalOK, OnBestChain
<1> QED
  BY <1>7, <1>8, <1>9 DEF FinalOK

(* Commit receives an epoch, whose blocks stay final.                      *)
LEMMA ReceiveFinalOK ==
    ASSUME IInv, FinalOK, Receive
    PROVE  FinalOK'
<1>1. /\ Len(EpochChan) = 1 /\ received' = received \o EpochChan
      /\ EpochChan' = <<>>
  BY ReceiveEpochs
<1>2. UNCHANGED <<blocks, chain, tip, branch, pc, epochList,
                  lastEpochEndHeight, heightToFinalizedBlock>>
  BY DEF Receive, nodeVars, loopVars, epochVars, storeVars
<1>3. /\ EpochChan \in Seq(Epoch) /\ received \in Seq(Epoch)
      /\ lastEpochEndHeight =
            LastHeight + (Len(received) + Len(EpochChan)) * NumBlocksInEpoch
  BY DEF IInv, EpochsOK
<1>4. PICK n \in Nat : n = Len(received)
  BY <1>3
<1>5. EpochChan # <<>>
  BY DEF Receive
<1>6. LastHeight + 1 + ((n + 1) - 1) * NumBlocksInEpoch
        = lastEpochEndHeight + 1 - NumBlocksInEpoch
  <2>1. PICK p \in Nat : p = n * NumBlocksInEpoch
    BY Constants
  <2>2. (n + 1) * NumBlocksInEpoch = p + NumBlocksInEpoch
    BY <2>1, Constants
  <2>3. (n + 1) - 1 = n /\ Len(received) + Len(EpochChan) = n + 1
    BY <1>1, <1>4
  <2>4. lastEpochEndHeight = LastHeight + (p + NumBlocksInEpoch)
    BY <1>3, <2>2, <2>3, Zenon
  <2>5. LastHeight + 1 + p
          = LastHeight + (p + NumBlocksInEpoch) + 1 - NumBlocksInEpoch
    BY Constants
  <2> QED
    BY <2>1, <2>3, <2>4, <2>5, Zenon
<1>7. /\ Len(received') = n + 1 /\ received'[n + 1] = EpochChan[1]
      /\ \A i \in 1 .. n : received'[i] = received[i]
  <2>1. /\ Len(received \o EpochChan) = n + 1
        /\ \A i \in 1 .. n + 1 : (received \o EpochChan)[i] =
              IF i <= n THEN received[i] ELSE EpochChan[i - n]
    <3>1. Len(received) + Len(EpochChan) = n + 1
      BY <1>1, <1>4
    <3>2. /\ Len(received \o EpochChan) = Len(received) + Len(EpochChan)
          /\ \A i \in 1 .. Len(received) + Len(EpochChan) :
                (received \o EpochChan)[i] =
                   IF i <= Len(received) THEN received[i]
                   ELSE EpochChan[i - Len(received)]
      BY <1>3, ConcatProperties, Zenon
    <3> QED
      BY <3>1, <3>2, <1>4, Zenon
  <2>2. (n + 1) - n = 1 /\ ~ (n + 1 <= n) /\ n + 1 \in 1 .. n + 1
    OBVIOUS
  <2>3. \A i \in 1 .. n : i <= n /\ i \in 1 .. n + 1
    OBVIOUS
  <2> QED
    BY <1>1, <2>1, <2>2, <2>3
<1>8. ASSUME NEW i \in 1 .. n + 1
      PROVE  Final(chain, tip, received'[i],
                   LastHeight + 1 + (i - 1) * NumBlocksInEpoch)
  <2>1. CASE i = n + 1
    <3>1. Final(chain, tip, EpochChan[1],
                lastEpochEndHeight + 1 - NumBlocksInEpoch)
      BY <1>5 DEF FinalOK, EpochsFinal
    <3> QED
      BY <2>1, <3>1, <1>6, <1>7, Zenon
  <2>2. CASE i \in 1 .. n
    BY <2>2, <1>4, <1>7, Zenon DEF FinalOK, EpochsFinal
  <2>3. i = n + 1 \/ i \in 1 .. n
    OBVIOUS
  <2> QED
    BY <2>1, <2>2, <2>3
<1>9. EpochToSend' = EpochToSend
  BY <1>2 DEF EpochToSend
<1>10. EpochsFinal'
  BY <1>1, <1>2, <1>7, <1>8, <1>9, Zenon DEF FinalOK, EpochsFinal
<1>11. (\E F : Forks(F)) => \E F : Forks(F)'
  BY <1>2 DEF Forks
<1>12. OnBestChain'
  BY <1>2 DEF FinalOK, OnBestChain
<1> QED
  BY <1>10, <1>11, <1>12 DEF FinalOK

(* The steps that leave everything but the loop and the panic alone.       *)
LEMMA UnchangedFinalOK ==
    ASSUME FinalOK,
           UNCHANGED <<blocks, chain, tip, pc, heightToFinalizedBlock,
                       lastEpochEndHeight, epochList, EpochChan, received>>
    PROVE  FinalOK'
<1>1. (\E F : Forks(F)) => \E F : Forks(F)'
  BY DEF Forks
<1>2. OnBestChain'
  BY DEF FinalOK, OnBestChain
<1>3. EpochToSend' = EpochToSend
  BY DEF EpochToSend
<1>4. EpochsFinal'
  BY <1>3 DEF FinalOK, EpochsFinal
<1> QED
  BY <1>1, <1>2, <1>4 DEF FinalOK

(* A turn of either loop of Run.                                           *)
LEMMA TurnFinalOK ==
    ASSUME IInv, FinalOK, pc = "run", NEW blk \in blocks, NEW clears,
           AddBlock(blk, clears),
           UNCHANGED <<nodeVars, lastEpochEndHeight, chanVars>>
    PROVE  FinalOK'
<1>1. NodeOK /\ hashToBlock \subseteq blocks /\ latestFinalizedHeight \in Nat
  BY DEF IInv, StoreOK, EpochsOK
<1>2. CASE Panicked
  <2>1. UNCHANGED <<blocks, chain, tip, pc, heightToFinalizedBlock,
                    lastEpochEndHeight, epochList, EpochChan, received>>
    BY <1>2 DEF Panicked, storeVars, nodeVars, chanVars
  <2> QED
    BY <2>1, UnchangedFinalOK
<1>3. ASSUME NEW new, Adds(blk, new), Collects(new) PROVE FinalOK'
  <2>1. StoreOK'
    BY <1>3, AddStore
  <2> QED
    BY <1>3, <2>1, AddFinalOK
<1> QED
  BY <1>1, <1>2, <1>3, AddBlockAdds

(* FinalOK is an invariant.                                                *)
LEMMA FinalOKHolds ==
    ASSUME MaxReorg <= FinalizeDepth
    PROVE  Spec => []FinalOK
<1>1. Init => FinalOK
  <2> SUFFICES ASSUME Init PROVE FinalOK
    OBVIOUS
  <2>1. /\ heightToFinalizedBlock = {} /\ received = <<>> /\ EpochChan = <<>>
        /\ pc = "run"
    BY DEF Init
  <2>2. EpochsFinal
    BY <2>1 DEF EpochsFinal
  <2> QED
    BY <2>1, <2>2, InitForks DEF FinalOK, OnBestChain
<1>2. IInv /\ FinalOK /\ [Next]_vars => FinalOK'
  <2> SUFFICES ASSUME IInv, FinalOK, [Next]_vars PROVE FinalOK'
    OBVIOUS
  <2>1. /\ tip \in Int /\ FinalizeDepth \in Nat /\ MaxReorg \in Nat
        /\ FinalizeDepth >= 1
    BY Constants DEF IInv, NodeOK
  <2>2. CASE Mine
    <3>1. UNCHANGED <<loopVars, epochVars, storeVars, chanVars, panic>>
      BY <2>2 DEF Mine
    <3>2. tip - tip <= FinalizeDepth
      BY <2>1
    <3> QED
      BY <2>2, <3>1, <3>2, MineGrows, GrownFinalOK DEF IInv
  <2>3. ASSUME NEW depth \in 1 .. MaxReorg, Reorg(depth) PROVE FinalOK'
    <3>1. UNCHANGED <<loopVars, epochVars, storeVars, chanVars, panic>>
      BY <2>3 DEF Reorg
    <3>2. tip - (tip - depth) <= FinalizeDepth
      BY <2>1
    <3> QED
      BY <2>3, <3>1, <3>2, ReorgGrows, GrownFinalOK DEF IInv
  <2>4. CASE Fetch
    <3>1. /\ pc = "run" /\ height + 1 \in DOMAIN chain
          /\ AddBlock(chain[height + 1], ClearsAt(height + 1))
          /\ UNCHANGED <<nodeVars, lastEpochEndHeight, chanVars>>
      BY <2>4 DEF Fetch
    <3>2. chain[height + 1] \in blocks
      BY <3>1 DEF IInv, NodeOK
    <3> QED
      BY <3>1, <3>2, TurnFinalOK
  <2>5. CASE FetchNil \/ TraceNil
    <3>1. UNCHANGED <<blocks, chain, tip, pc, heightToFinalizedBlock,
                      lastEpochEndHeight, epochList, EpochChan, received>>
      BY <2>5 DEF FetchNil, TraceNil, nodeVars, loopVars, epochVars,
                  storeVars, chanVars
    <3> QED
      BY <3>1, UnchangedFinalOK
  <2>6. CASE Trace
    <3>1. PICK blk \in blocks : AddBlock(blk, FALSE)
      BY <2>6 DEF Trace
    <3>2. pc = "run" /\ UNCHANGED <<nodeVars, lastEpochEndHeight, chanVars>>
      BY <2>6 DEF Trace
    <3> QED
      BY <3>1, <3>2, TurnFinalOK
  <2>7. CASE EpochSent
    BY <2>7, SentFinalOK
  <2>8. CASE Receive
    BY <2>8, ReceiveFinalOK
  <2>9. CASE UNCHANGED vars
    BY <2>9, UnchangedFinalOK
       DEF vars, nodeVars, loopVars, epochVars, storeVars, chanVars
  <2> QED
    BY <2>2, <2>3, <2>4, <2>5, <2>6, <2>7, <2>8, <2>9 DEF Next, WatcherStep
<1> QED
  BY <1>1, <1>2, IInvHolds, PTL DEF Spec

(* FinalizedOnBestChain: "a block need 10 confirmation to finalize" is     *)
(* enough. While no reorganization replaces more blocks than that, what    *)
(* addBlock finalizes stays on the best chain, on whatever branch Run      *)
(* fetched the block by whose arrival it was finalized.                    *)
THEOREM FinalizedOnBestChainHolds ==
    ASSUME MaxReorg <= FinalizeDepth
    PROVE  Spec => []FinalizedOnBestChain
<1>1. IInv /\ FinalOK => FinalizedOnBestChain
  <2> SUFFICES ASSUME IInv, FinalOK, NEW x \in heightToFinalizedBlock
               PROVE  x \in BestChain(chain)
    BY DEF FinalizedOnBestChain
  <2>1. x \in blocks /\ x.Height <= tip - FinalizeDepth /\ x = chain[x.Height]
    BY DEF IInv, StoreOK, FinalOK, OnBestChain
  <2>2. /\ x.Height \in FirstHeight .. MaxTip
        /\ tip \in Int /\ DOMAIN chain = FirstHeight .. tip
    BY <2>1 DEF IInv, NodeOK, BCHBlock
  <2>3. x.Height \in FirstHeight .. tip
    BY <2>1, <2>2, Constants
  <2> QED
    BY <2>1, <2>2, <2>3 DEF BestChain
<1> QED
  BY <1>1, IInvHolds, FinalOKHolds, PTL

(* EpochsPartition: under the same condition the epochs that Commit        *)
(* receives partition the best chain above LastHeight, and each one's end  *)
(* time and nominated keys are those of its blocks there.                  *)
THEOREM EpochsPartitionHolds ==
    ASSUME MaxReorg <= FinalizeDepth
    PROVE  Spec => []EpochsPartition
<1>1. FinalOK => EpochsPartition
  BY Zenon DEF FinalOK, EpochsFinal, Final, Describes, EpochsPartition
<1> QED
  BY <1>1, FinalOKHolds, PTL
=============================================================================
