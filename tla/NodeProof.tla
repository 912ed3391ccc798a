------------------------------ MODULE NodeProof ------------------------------
(***************************************************************************)
(* The theorems about Node and Api, for every chain, every set of slow     *)
(* transactions and every number of crashes and stops.                     *)
(*                                                                         *)
(* The inductive invariant follows a transaction through Commit: it waits  *)
(* in the queue on disk until the Commit that stores the block in which it *)
(* ran takes it out, and from then on it is in the history and nowhere     *)
(* else. In between it may run several times in memory.                    *)
(*                                                                         *)
(* The answers of Api need no more of the states than that; what they need *)
(* is how FlattenSeq and a selection put sequences together, which comes   *)
(* with the last theorem.                                                  *)
(***************************************************************************)
EXTENDS Api, ProofLemmas, SequenceTheorems

Top == root.info.Number

Live(queue) == {e.tx : e \in queue}

TxsOf(run) == {run[i].tx : i \in 1 .. Len(run)}

Decided(x, n) == \E m \in 1 .. n : x \in ToSet(Chain[m].txs)

(* A queue holds transactions that were decided when they joined it.       *)
QueueOK(queue, n) ==
    /\ IsFiniteSet(queue)
    /\ \A e \in queue : /\ e \in [tx : Txs, since : DOMAIN Chain]
                        /\ e.since <= n
                        /\ e.tx \in ToSet(Chain[e.since].txs)

(* What ran after block n was decided, each transaction once. Where the    *)
(* process was restarted at n, n is marked, and the header was not known.  *)
RunOK(run, n, marked) ==
    /\ run \in Seq(Executions)
    /\ \A i \in 1 .. Len(run) :
          /\ Decided(run[i].tx, n)
          /\ run[i].info \in {Header(n), Reloaded(n)}
          /\ run[i].info = Reloaded(n) => n \in marked
    /\ \A i, j \in 1 .. Len(run) : run[i].tx = run[j].tx => i = j

(* A stored block: its header was decided, and its transactions know their *)
(* place in it.                                                            *)
PlaceOK(t, i, n, marked) ==
    /\ t.BlockNumber = n
    /\ t.BlockHash = Chain[n].Hash \/ (t.BlockHash = 0 /\ n \in marked)
    /\ t.TransactionIndex = i - 1

BlockOK(b, n, marked) ==
    /\ b.info = Header(n)
    /\ b.txs \in Seq(ToSet(b.txs))
    /\ Len(b.txs) \in Nat /\ DOMAIN b.txs = 1 .. Len(b.txs)
    /\ \A i \in 1 .. Len(b.txs) :
          Decided(b.txs[i].tx, n) /\ PlaceOK(b.txs[i], i, n, marked)
    /\ \A i, j \in 1 .. Len(b.txs) : b.txs[i].tx = b.txs[j].tx => i = j

(* A history up to height n, none of whose transactions is in txs.         *)
StoreOK(store, n, txs, marked) ==
    /\ DOMAIN store \subseteq 1 .. n
    /\ \A k \in DOMAIN store :
          BlockOK(store[k], k, marked) /\ ExecutedIn(store[k]) \cap txs = {}
    /\ \A k, l \in DOMAIN store :
          k # l => ExecutedIn(store[k]) \cap ExecutedIn(store[l]) = {}

DiskOK ==
    /\ Top \in 0 .. Len(Chain)
    /\ root.info = IF Top = 0 THEN NoInfo ELSE Header(Top)
    /\ root.ran \subseteq Executions
    /\ QueueOK(root.standby, Top)
    /\ StoreOK(Written, Top - 1, Live(root.standby), reloaded)
    /\ adding = {} \/ \E b \in adding : adding = {b}

(* What of it the process remembers: all of it while postCommit is to run  *)
(* and while Commit is at work, and later what did not run yet.            *)
RunningOK ==
    /\ mtx => /\ phase \in {"begin", "commit"}
              /\ Top # 0
              /\ blockInfo = Header(Top)
              /\ committed = <<>>
              /\ standby = root.standby
    /\ phase \in {"begin", "commit"} =>
          /\ RunOK(committed, Top, reloaded)
          /\ standby \subseteq root.standby
          /\ TxsOf(committed) \subseteq Live(root.standby)
          /\ TxsOf(committed) \cap Live(standby) = {}
    /\ phase = "history" =>
          /\ Top > 1
          /\ prevBlkInfo = Header(Top - 1)
          /\ RunOK(committed, Top - 1, reloaded)
          /\ TxsOf(committed) \cap Live(root.standby) = {}
          /\ StoreOK(Written, Top - 2, TxsOf(committed), reloaded)
    /\ phase = "publish" =>
          prevBlkInfo.Number = Top - 1 /\ Top - 1 \in DOMAIN Written
    /\ phase \in {"history", "publish", "execute"} =>
          /\ standby = root.standby
          /\ Top # 0
    /\ committed \in Seq(Executions)

PhaseOK ==
    /\ phase \in {"begin", "commit", "history", "publish", "execute"}
    /\ phase = "begin" => block.Number = Top
    /\ phase = "commit" => Top < Len(Chain) /\ block = Header(Top + 1)
    /\ phase \in {"history", "publish", "execute"} => block = Header(Top)

(* The heights told to subscribers end with the one that was stored last.  *)
PublishedOK ==
    /\ published \in Seq(Nat)
    /\ ToSet(published) \subseteq DOMAIN Written
    /\ \A i \in 2 .. Len(published) : published[i] = published[i - 1] + 1
    /\ published # <<>> =>
          published[Len(published)] =
             IF phase \in {"history", "publish"} THEN Top - 2 ELSE Top - 1

DownOK ==
    /\ phase = "begin"
    /\ mtx = FALSE
    /\ block = NoInfo
    /\ adding = {}
    /\ committed = <<>>
    /\ published = <<>>

IInv ==
    /\ DiskOK
    /\ up \in BOOLEAN /\ mtx \in BOOLEAN
    /\ crashes \in 0 .. MaxCrashes /\ stops \in 0 .. MaxStops
    /\ IF up THEN PhaseOK /\ RunningOK /\ PublishedOK ELSE DownOK

-----------------------------------------------------------------------------
(* The decided blocks.                                                     *)
LEMMA ChainFacts ==
    /\ Len(Chain) \in Nat /\ DOMAIN Chain = 1 .. Len(Chain)
    /\ \A n \in 1 .. Len(Chain) :
          /\ Chain[n].txs \in Seq(Txs)
          /\ Chain[n].Hash \in Nat /\ Chain[n].Hash # 0
          /\ DOMAIN Chain[n].txs = 1 .. Len(Chain[n].txs)
          /\ Len(Chain[n].txs) \in Nat
    /\ MaxCrashes \in Nat /\ MaxStops \in Nat
<1>1. Chain \in Seq([Hash : Nat \ {0}, Timestamp : Nat, txs : Seq(Txs)])
  BY NodeAssumption, Zenon
<1>2. Len(Chain) \in Nat /\ DOMAIN Chain = 1 .. Len(Chain)
  BY <1>1, LenProperties, Zenon
<1>3. ASSUME NEW n \in 1 .. Len(Chain)
      PROVE  Chain[n] \in [Hash : Nat \ {0}, Timestamp : Nat, txs : Seq(Txs)]
  BY <1>1, ElementOfSeq, Zenon
<1>4. ASSUME NEW n \in 1 .. Len(Chain)
      PROVE  /\ Chain[n].txs \in Seq(Txs)
             /\ Chain[n].Hash \in Nat /\ Chain[n].Hash # 0
             /\ DOMAIN Chain[n].txs = 1 .. Len(Chain[n].txs)
             /\ Len(Chain[n].txs) \in Nat
  <2>1. PICK b \in [Hash : Nat \ {0}, Timestamp : Nat, txs : Seq(Txs)] :
           b = Chain[n]
    BY <1>3
  <2>2. b.txs \in Seq(Txs) /\ b.Hash \in Nat /\ b.Hash # 0
    OBVIOUS
  <2> QED
    BY <2>1, <2>2
<1> QED
  BY <1>2, <1>4, NodeAssumption

(* A transaction is decided at one height only.                            *)
LEMMA DecidedAtOne ==
    ASSUME NEW n \in 1 .. Len(Chain), NEW m \in 1 .. Len(Chain),
           NEW x \in ToSet(Chain[n].txs), x \in ToSet(Chain[m].txs)
    PROVE  n = m
BY DecidedOnce, ChainFacts, SMTT(20) DEF ToSet

(* So what was decided up to n is not decided again later.                 *)
LEMMA NotDecidedAgain ==
    ASSUME NEW n \in 0 .. Len(Chain), NEW k \in 1 .. Len(Chain), k > n,
           NEW x, Decided(x, n)
    PROVE  x \notin ToSet(Chain[k].txs)
<1>1. PICK m \in 1 .. n : x \in ToSet(Chain[m].txs)
  BY DEF Decided
<1>2. m \in 1 .. Len(Chain) /\ m # k
  BY ChainFacts
<1> QED
  BY <1>1, <1>2, DecidedAtOne

(* The sequence made of a finite set has each of its elements once.        *)
LEMMA SetToSeqFacts ==
    ASSUME NEW S, IsFiniteSet(S)
    PROVE  /\ SetToSeq(S) \in Seq(S)
           /\ \A i, j \in 1 .. Len(SetToSeq(S)) :
                 SetToSeq(S)[i] = SetToSeq(S)[j] => i = j
<1>1. PICK n \in Nat : ExistsBijection(1 .. n, S)
  BY FS_NatBijection
<1>2. Cardinality(S) = n
  BY <1>1, FS_CountingElements
<1>3. PICK f \in [1 .. n -> S] : IsInjective(f)
  BY <1>1 DEF ExistsBijection, Bijection, Injection
<1>4. PICK g : g = CHOOSE h \in [1 .. n -> S] : IsInjective(h)
  OBVIOUS
<1>5. g \in [1 .. n -> S] /\ IsInjective(g)
  BY <1>3, <1>4
<1>6. SetToSeq(S) = g
  BY <1>2, <1>4 DEF SetToSeq
<1>7. g \in Seq(S) /\ Len(g) = n
  BY <1>5
<1>8. \A i, j \in 1 .. n : g[i] = g[j] => i = j
  BY <1>5 DEF IsInjective
<1> QED
  BY <1>6, <1>7, <1>8

-----------------------------------------------------------------------------
(* external: what Execute runs, and what it leaves.                        *)
LEMMA ExecutedFacts ==
    ASSUME NEW n \in 1 .. Len(Chain), NEW queue, QueueOK(queue, n),
           NEW marked, NEW info \in {Header(n), Reloaded(n)},
           info = Reloaded(n) => n \in marked
    PROVE  /\ RunOK(Executed(queue, info), n, marked)
           /\ TxsOf(Executed(queue, info)) \subseteq Live(queue)
           /\ TxsOf(Executed(queue, info))
                 \cap Live(queue \ Ready(queue, info.Number)) = {}
           /\ queue \ Ready(queue, info.Number) \subseteq queue
<1>1. info.Number = n
  BY DEF Header, Reloaded
<1>2. PICK ready : ready = Ready(queue, n)
  OBVIOUS
<1>3. ready \subseteq queue
  BY <1>2 DEF Ready
<1> DEFINE f == [e \in ready |-> e.tx]
           I == {f[e] : e \in ready}
<1>4. IsFiniteSet(ready)
  BY <1>3, FS_Subset DEF QueueOK
<1>5. IsFiniteSet(I)
  <2>1. DOMAIN f = ready
    OBVIOUS
  <2> HIDE DEF f
  <2> QED
    BY <2>1, <1>4, FiniteImage
<1>6. I = Live(ready)
  BY DEF Live
<1>7. PICK txs : txs = SetToSeq(Live(ready))
  OBVIOUS
<1>8. /\ txs \in Seq(Live(ready))
      /\ \A i, j \in 1 .. Len(txs) : txs[i] = txs[j] => i = j
  <2> HIDE DEF I
  <2> QED
    BY <1>5, <1>6, <1>7, SetToSeqFacts
<1>9. PICK k \in Nat : k = Len(txs)
  BY <1>8
<1>10. PICK run : run = [i \in 1 .. k |-> [tx |-> txs[i], info |-> info]]
  OBVIOUS
<1>11. Executed(queue, info) = run
  BY <1>1, <1>2, <1>7, <1>9, <1>10, Zenon DEF Executed, Live
<1>12. ASSUME NEW i \in 1 .. k
       PROVE  /\ run[i] = [tx |-> txs[i], info |-> info]
              /\ run[i].tx = txs[i] /\ run[i].info = info
              /\ \E e \in ready : txs[i] = e.tx
  <2>1. txs[i] \in Live(ready)
    BY <1>8, <1>9
  <2> QED
    BY <2>1, <1>10 DEF Live
<1>13. info \in {Header(m) : m \in DOMAIN Chain}
                \cup [Number : DOMAIN Chain, Hash : {0}, Timestamp : {0}]
  <2>1. n \in DOMAIN Chain
    BY ChainFacts
  <2>2. Reloaded(n) \in [Number : DOMAIN Chain, Hash : {0}, Timestamp : {0}]
    BY <2>1 DEF Reloaded
  <2> QED
    BY <2>1, <2>2
<1>14. ASSUME NEW i \in 1 .. k
       PROVE  run[i] \in Executions /\ Decided(run[i].tx, n)
  <2>1. PICK e \in ready : txs[i] = e.tx
    BY <1>12
  <2>2. /\ e \in [tx : Txs, since : DOMAIN Chain] /\ e.since <= n
        /\ e.tx \in ToSet(Chain[e.since].txs)
    BY <1>3 DEF QueueOK
  <2>3. e.tx \in Txs /\ e.since \in 1 .. n
    <3>1. e.since \in DOMAIN Chain /\ e.tx \in Txs
      BY <2>2
    <3> QED
      BY <2>2, <3>1, ChainFacts
  <2>4. run[i] \in Executions
    <3>1. PICK infos : infos = {Header(m) : m \in DOMAIN Chain}
                \cup [Number : DOMAIN Chain, Hash : {0}, Timestamp : {0}]
      OBVIOUS
    <3>2. Executions = [tx : Txs, info : infos]
      BY <3>1 DEF Executions
    <3>3. txs[i] \in Txs /\ info \in infos
      BY <2>1, <2>3, <3>1, <1>13
    <3>4. [tx |-> txs[i], info |-> info] \in [tx : Txs, info : infos]
      BY <3>3
    <3> QED
      BY <3>2, <3>4, <1>12
  <2> QED
    BY <2>1, <2>2, <2>3, <2>4, <1>12 DEF Decided
<1>15. run \in Seq(Executions) /\ Len(run) = k
  <2>1. run \in [1 .. k -> Executions]
    BY <1>10, <1>14
  <2> QED
    BY <2>1
<1>16. RunOK(run, n, marked)
  <2>1. \A i \in 1 .. Len(run) :
          /\ Decided(run[i].tx, n)
          /\ run[i].info \in {Header(n), Reloaded(n)}
          /\ run[i].info = Reloaded(n) => n \in marked
    BY <1>12, <1>14, <1>15
  <2>2. \A i, j \in 1 .. Len(run) : run[i].tx = run[j].tx => i = j
    <3>1. \A i, j \in 1 .. k : txs[i] = txs[j] => i = j
      BY <1>8, <1>9, Zenon
    <3>2. \A i \in 1 .. k : run[i].tx = txs[i]
      BY <1>12, Zenon
    <3> QED
      BY <3>1, <3>2, <1>15, ZenonT(40)
  <2> QED
    BY <1>15, <2>1, <2>2 DEF RunOK
<1>17. TxsOf(run) \subseteq Live(ready)
  BY <1>12, <1>15 DEF TxsOf, Live
<1>18. Live(ready) \subseteq Live(queue)
  BY <1>3 DEF Live
<1>19. Live(ready) \cap Live(queue \ ready) = {}
  <2> SUFFICES ASSUME NEW d \in ready, NEW e \in queue \ ready, d.tx = e.tx
               PROVE  FALSE
    BY DEF Live
  <2>1. /\ d \in [tx : Txs, since : DOMAIN Chain]
        /\ e \in [tx : Txs, since : DOMAIN Chain]
        /\ d.tx \in ToSet(Chain[d.since].txs)
        /\ e.tx \in ToSet(Chain[e.since].txs)
    BY <1>3 DEF QueueOK
  <2>2. d.since \in 1 .. Len(Chain) /\ e.since \in 1 .. Len(Chain)
    BY <2>1, ChainFacts
  <2>3. d.since = e.since
    BY <2>1, <2>2, DecidedAtOne
  <2>4. /\ d = [tx |-> d.tx, since |-> d.since]
        /\ e = [tx |-> e.tx, since |-> e.since]
    BY <2>1
  <2>5. d = e
    BY <2>3, <2>4, Zenon
  <2> QED
    BY <2>5
<1> QED
  BY <1>1, <1>2, <1>11, <1>16, <1>17, <1>18, <1>19

(* Prepare.                                                                *)
LEMMA WaitingFacts ==
    ASSUME NEW n \in 0 .. Len(Chain) - 1, QueueOK(standby, n)
    PROVE  /\ QueueOK(Waiting(n + 1), n + 1)
           /\ Live(Waiting(n + 1)) \subseteq
                 Live(standby) \cup ToSet(Chain[n + 1].txs)
<1>1. PICK k : k = n + 1
  OBVIOUS
<1>2. k \in 1 .. Len(Chain) /\ k \in Nat
  BY <1>1, ChainFacts
<1>3. PICK txs \in Seq(Txs) : txs = Chain[k].txs
  BY <1>2, ChainFacts
<1>4. Len(txs) \in Nat /\ DOMAIN txs = 1 .. Len(txs)
  BY LenProperties, Zenon
<1> DEFINE f == [i \in 1 .. Len(txs) |-> [tx |-> txs[i], since |-> k]]
           New == {f[i] : i \in 1 .. Len(txs)}
<1>5. IsFiniteSet(New)
  <2>1. IsFiniteSet(1 .. Len(txs))
    BY <1>4, FS_Interval
  <2>2. DOMAIN f = 1 .. Len(txs)
    OBVIOUS
  <2> HIDE DEF f
  <2> QED
    BY <2>1, <2>2, FiniteImage
<1>6. Waiting(k) = standby \cup New
  BY <1>3, <1>4 DEF Waiting
<1>7. ASSUME NEW e \in New
      PROVE  /\ e \in [tx : Txs, since : DOMAIN Chain] /\ e.since <= k
             /\ e.tx \in ToSet(Chain[e.since].txs) /\ e.since = k
  <2>1. PICK i \in 1 .. Len(txs) : e = [tx |-> txs[i], since |-> k]
    OBVIOUS
  <2>2. txs[i] \in Txs /\ txs[i] \in ToSet(txs)
    BY <1>4 DEF ToSet
  <2>3. e.since = k /\ e.tx = txs[i]
    BY <2>1
  <2>4. k \in DOMAIN Chain
    BY <1>2, ChainFacts
  <2> QED
    BY <2>1, <2>2, <2>3, <2>4, <1>2, <1>3
<1> HIDE DEF f, New
<1>8. IsFiniteSet(standby \cup New)
  BY <1>5, FS_Union DEF QueueOK
<1>9. ASSUME NEW e \in standby
      PROVE  /\ e \in [tx : Txs, since : DOMAIN Chain] /\ e.since <= k
             /\ e.tx \in ToSet(Chain[e.since].txs)
  <2>1. /\ e \in [tx : Txs, since : DOMAIN Chain] /\ e.since <= n
        /\ e.tx \in ToSet(Chain[e.since].txs)
    BY DEF QueueOK
  <2>2. e.since \in 1 .. Len(Chain)
    BY <2>1, ChainFacts
  <2>3. e.since <= k
    BY <1>1, <2>1, <2>2, ChainFacts
  <2> QED
    BY <2>1, <2>3
<1>10. QueueOK(Waiting(k), k)
  BY <1>6, <1>7, <1>8, <1>9 DEF QueueOK
<1>11. Live(Waiting(k)) \subseteq Live(standby) \cup ToSet(Chain[k].txs)
  BY <1>6, <1>7 DEF Live
<1> QED
  BY <1>1, <1>10, <1>11

(* The history with the block that AddBlock is writing, in this state and  *)
(* in the next.                                                            *)
With(store, blocks) ==
    [n \in DOMAIN store \cup {b.info.Number : b \in blocks} |->
        IF n \in DOMAIN store THEN store[n]
        ELSE CHOOSE b \in blocks : b.info.Number = n]

Joined(store, blocks, all) ==
    /\ blocks = {} => DOMAIN all = DOMAIN store
    /\ \A b : blocks = {b} =>
          /\ DOMAIN all = DOMAIN store \cup {b.info.Number}
          /\ b.info.Number \notin DOMAIN store => all[b.info.Number] = b
    /\ DOMAIN store \subseteq DOMAIN all
    /\ \A n \in DOMAIN store : all[n] = store[n]

(* A block that is written joins the blocks that are there; where two have *)
(* the same number, the older one stays.                                   *)
LEMMA WithFacts ==
    ASSUME NEW store, NEW blocks
    PROVE  Joined(store, blocks, With(store, blocks))
<1>1. PICK all : all = With(store, blocks)
  OBVIOUS
<1>2. /\ DOMAIN store \subseteq DOMAIN all
      /\ \A n \in DOMAIN store : all[n] = store[n]
  BY <1>1 DEF With
<1>3. ASSUME blocks = {}
      PROVE  DOMAIN all = DOMAIN store
  BY <1>1, <1>3 DEF With
<1>4. ASSUME NEW b, blocks = {b}
      PROVE  /\ DOMAIN all = DOMAIN store \cup {b.info.Number}
             /\ b.info.Number \notin DOMAIN store => all[b.info.Number] = b
  <2>1. DOMAIN all = DOMAIN store \cup {b.info.Number}
    BY <1>1, <1>4 DEF With
  <2>2. ASSUME b.info.Number \notin DOMAIN store
        PROVE  all[b.info.Number] = b
    <3>1. all[b.info.Number]
            = CHOOSE c \in blocks : c.info.Number = b.info.Number
      BY <1>1, <2>1, <2>2 DEF With
    <3>2. (CHOOSE c \in blocks : c.info.Number = b.info.Number) \in blocks
      BY <1>4
    <3> QED
      BY <3>1, <3>2, <1>4
  <2> QED
    BY <2>1, <2>2
<1>5. Joined(store, blocks, all)
  BY <1>2, <1>3, <1>4 DEF Joined
<1> QED
  BY <1>1, <1>5

(* What is on disk, and what AddBlock is writing in the background, before *)
(* and after a step.                                                       *)
LEMMA WrittenFacts ==
    Joined(history, adding, Written) /\ Joined(history', adding', Written')
<1>1. Written = With(history, adding) /\ Written' = With(history', adding')
  BY DEF Written, With
<1> QED
  BY <1>1, WithFacts

(* A table over 1 .. k is a sequence of its entries.                       *)
LEMMA SeqOfItself ==
    ASSUME NEW k \in Nat, NEW f, f = [i \in 1 .. k |-> f[i]]
    PROVE  f \in Seq(ToSet(f)) /\ Len(f) = k
<1>1. \A i \in 1 .. k : f[i] \in ToSet(f)
  BY DEF ToSet
<1> DEFINE E == ToSet(f)
<1> HIDE DEF E
<1>2. f \in [1 .. k -> E]
  BY <1>1 DEF E
<1>3. f \in Seq(E) /\ Len(f) = k
  BY <1>2
<1> QED
  BY <1>3 DEF E

(* What refresh stores of what ran.                                        *)
LEMMA RecordedFacts ==
    ASSUME NEW n \in 1 .. Len(Chain), NEW marked, NEW b,
           RunOK(committed, n, marked),
           b = [info |-> Header(n), txs |-> Recorded]
    PROVE  BlockOK(b, n, marked) /\ ExecutedIn(b) = TxsOf(committed)
<1>1. PICK k \in Nat : k = Len(committed)
  BY DEF RunOK
<1>2. b.info = Header(n) /\ b.txs = Recorded
  OBVIOUS
<1>3. PICK txs : txs = b.txs
  OBVIOUS
<1>4. txs = [i \in 1 .. k |->
                [tx |-> committed[i].tx, BlockNumber |-> committed[i].info.Number,
                 BlockHash |-> committed[i].info.Hash,
                 TransactionIndex |-> i - 1]]
  BY <1>1, <1>2, <1>3 DEF Recorded
<1>5. DOMAIN txs = 1 .. k /\ Len(txs) = k
  BY <1>4
<1>6. ASSUME NEW i \in 1 .. k
      PROVE  /\ txs[i].tx = committed[i].tx
             /\ txs[i].BlockNumber = committed[i].info.Number
             /\ txs[i].BlockHash = committed[i].info.Hash
             /\ txs[i].TransactionIndex = i - 1
  BY <1>4
<1>7. ASSUME NEW i \in 1 .. k
      PROVE  Decided(txs[i].tx, n) /\ PlaceOK(txs[i], i, n, marked)
  <2>1. /\ Decided(committed[i].tx, n)
        /\ committed[i].info \in {Header(n), Reloaded(n)}
        /\ committed[i].info = Reloaded(n) => n \in marked
    BY <1>1 DEF RunOK
  <2>2. Header(n).Number = n /\ Header(n).Hash = Chain[n].Hash
    BY DEF Header
  <2>3. Reloaded(n).Number = n /\ Reloaded(n).Hash = 0
    BY DEF Reloaded
  <2>4. CASE committed[i].info = Header(n)
    BY <2>1, <2>2, <2>4, <1>6 DEF PlaceOK
  <2>5. CASE committed[i].info = Reloaded(n)
    BY <2>1, <2>3, <2>5, <1>6 DEF PlaceOK
  <2> QED
    BY <2>1, <2>4, <2>5
<1>8. \A i, j \in 1 .. k : txs[i].tx = txs[j].tx => i = j
  BY <1>1, <1>6 DEF RunOK
<1>9. BlockOK(b, n, marked)
  <2>1. txs \in Seq(ToSet(txs))
    BY <1>4, SeqOfItself
  <2> QED
    BY <1>2, <1>3, <1>5, <1>7, <1>8, <2>1 DEF BlockOK
<1>10. {txs[i].tx : i \in DOMAIN txs} = {committed[i].tx : i \in 1 .. k}
  BY <1>5, <1>6, ZenonT(40)
<1> QED
  BY <1>1, <1>3, <1>9, <1>10 DEF ExecutedIn, TxsOf

(* A part of a history is in order if the whole is, and more restarts and  *)
(* fewer transactions to keep apart do no harm.                            *)
LEMMA StoreSub ==
    ASSUME NEW w, NEW v, NEW n, NEW T, NEW U, NEW r, NEW s,
           StoreOK(w, n, T, r), DOMAIN v \subseteq DOMAIN w,
           \A k \in DOMAIN v : v[k] = w[k], U \subseteq T, r \subseteq s
    PROVE  StoreOK(v, n, U, s)
<1>1. ASSUME NEW k \in DOMAIN v
      PROVE  BlockOK(v[k], k, s) /\ ExecutedIn(v[k]) \cap U = {}
  <2>1. BlockOK(v[k], k, r) /\ ExecutedIn(v[k]) \cap T = {}
    BY DEF StoreOK
  <2>2. BlockOK(v[k], k, s)
    BY <2>1 DEF BlockOK, PlaceOK
  <2> QED
    BY <2>1, <2>2
<1>2. \A k, l \in DOMAIN v :
         k # l => ExecutedIn(v[k]) \cap ExecutedIn(v[l]) = {}
  BY DEF StoreOK
<1>3. DOMAIN v \subseteq 1 .. n
  BY DEF StoreOK
<1> QED
  BY <1>1, <1>2, <1>3 DEF StoreOK

(* A step that leaves the disk alone.                                      *)
LEMMA SameDisk ==
    UNCHANGED <<history, adding>> => Written' = Written
BY DEF Written

(* A step that touches neither state nor history on disk.                  *)
LEMMA DiskKept ==
    ASSUME DiskOK, UNCHANGED diskVars, reloaded \subseteq reloaded'
    PROVE  DiskOK' /\ Written' = Written /\ Top' = Top
<1>1. root' = root /\ history' = history /\ adding' = adding
  BY DEF diskVars
<1>2. Written' = Written
  BY <1>1, SameDisk
<1>3. Top' = Top
  BY <1>1 DEF Top
<1>4. StoreOK(Written, Top - 1, Live(root.standby), reloaded')
  BY StoreSub DEF DiskOK
<1> QED
  BY <1>1, <1>2, <1>3, <1>4 DEF DiskOK

(* Nothing was published, or it stays in the store.                        *)
LEMMA PublishedKept ==
    ASSUME PublishedOK, published' = published,
           DOMAIN Written \subseteq DOMAIN Written',
           published = <<>>
             \/ (IF phase \in {"history", "publish"} THEN Top - 2 ELSE Top - 1)
                  = (IF phase \in {"history", "publish"} THEN Top - 2
                     ELSE Top - 1)'
    PROVE  PublishedOK'
BY DEF PublishedOK

(* The numbers of headers.                                                 *)
LEMMA Numbers ==
    /\ \A n : Header(n).Number = n /\ Header(n).Hash = Chain[n].Hash
    /\ \A n : Reloaded(n).Number = n /\ Reloaded(n).Hash = 0
    /\ NoInfo.Number = 0 /\ NoInfo.Hash = 0
    /\ \A n \in 1 .. Len(Chain) : Header(n) # NoInfo /\ Header(n) # Reloaded(n)
<1>1. /\ \A n : Header(n).Number = n /\ Header(n).Hash = Chain[n].Hash
      /\ \A n : Reloaded(n).Number = n /\ Reloaded(n).Hash = 0
      /\ NoInfo.Number = 0 /\ NoInfo.Hash = 0
  BY DEF Header, Reloaded, NoInfo
<1>2. \A n \in 1 .. Len(Chain) : Header(n).Hash # 0
  BY <1>1, ChainFacts
<1> QED
  BY <1>1, <1>2

(* Nothing ran.                                                            *)
LEMMA EmptyRun ==
    ASSUME NEW n, NEW marked
    PROVE  RunOK(<<>>, n, marked) /\ TxsOf(<<>>) = {}
BY DEF RunOK, TxsOf

(* The first state: genesis, nothing stored.                               *)
LEMMA InitIInv == Init => IInv
<1> SUFFICES ASSUME Init PROVE IInv
  OBVIOUS
<1>1. /\ root = [info |-> NoInfo, standby |-> {}, ran |-> {}]
      /\ history = <<>> /\ adding = {} /\ up = TRUE /\ phase = "begin"
      /\ mtx = FALSE /\ block = NoInfo /\ standby = {} /\ committed = <<>>
      /\ published = <<>> /\ crashes = 0 /\ stops = 0
  BY DEF Init
<1>2. root.info = NoInfo /\ root.standby = {} /\ root.ran = {}
  BY <1>1
<1>3. Top = 0
  BY <1>2, Numbers DEF Top
<1>4. DOMAIN Written = {}
  BY <1>1, WrittenFacts DEF Joined
<1>5. DiskOK
  <2>1. QueueOK(root.standby, Top)
    BY <1>2, FS_EmptySet DEF QueueOK
  <2>2. StoreOK(Written, Top - 1, Live(root.standby), reloaded)
    BY <1>4 DEF StoreOK
  <2>3. 0 \in 0 .. Len(Chain)
    BY ChainFacts
  <2> QED
    BY <1>1, <1>2, <1>3, <2>1, <2>2, <2>3 DEF DiskOK
<1>6. PhaseOK
  BY <1>1, <1>3, Numbers DEF PhaseOK
<1>7. RunningOK
  <2>1. RunOK(committed, Top, reloaded) /\ TxsOf(committed) = {}
    BY <1>1, EmptyRun
  <2>2. committed \in Seq(Executions)
    BY <1>1
  <2> QED
    BY <1>1, <1>2, <2>1, <2>2 DEF RunningOK
<1>8. PublishedOK
  BY <1>1 DEF PublishedOK, ToSet
<1>9. 0 \in 0 .. MaxCrashes /\ 0 \in 0 .. MaxStops
  BY ChainFacts
<1>10. up \in BOOLEAN /\ mtx \in BOOLEAN
  BY <1>1, Zenon
<1> QED
  BY <1>1, <1>5, <1>6, <1>7, <1>8, <1>9, <1>10, Zenon DEF IInv

-----------------------------------------------------------------------------
(* The steps of a block, one by one.                                       *)
LEMMA NextBlockIInv ==
    ASSUME IInv, NextBlock
    PROVE  IInv'
<1>1. /\ up /\ phase = "begin" /\ block.Number < Len(Chain)
      /\ block' = Header(block.Number + 1) /\ phase' = "commit"
      /\ UNCHANGED <<diskVars, up, mtx, blockInfo, committed, standby,
                     published, reloaded, crashes, stops>>
  BY DEF NextBlock, engineVars, faults
<1>2. DiskOK /\ PhaseOK /\ RunningOK /\ PublishedOK
  BY <1>1 DEF IInv
<1>3. DiskOK' /\ Written' = Written /\ Top' = Top /\ root' = root
  BY <1>1, <1>2, DiskKept DEF diskVars
<1>4. PhaseOK'
  <2>1. block.Number = Top
    BY <1>1, <1>2 DEF PhaseOK
  <2> QED
    BY <1>1, <1>3, <2>1 DEF PhaseOK
<1>5. RunningOK'
  BY <1>1, <1>2, <1>3 DEF RunningOK
<1>6. PublishedOK'
  BY <1>1, <1>2, <1>3, PublishedKept
<1> QED
  BY <1>1, <1>3, <1>4, <1>5, <1>6 DEF IInv

(* Commit writes the state, of which the history knows nothing yet.        *)
LEMMA CommitRootIInv ==
    ASSUME IInv, CommitRoot
    PROVE  IInv'
<1>1. /\ up /\ phase = "commit" /\ ~mtx
      /\ prevBlkInfo' = root.info
      /\ root' = [info |-> block, standby |-> Waiting(block.Number),
                  ran |-> root.ran \cup ToSet(committed)]
      /\ standby' = Waiting(block.Number)
      /\ phase' = IF root.info = NoInfo THEN "execute" ELSE "history"
      /\ UNCHANGED <<history, adding, up, mtx, block, blockInfo, committed,
                     published, reloaded, crashes, stops>>
  BY DEF CommitRoot, PrevBlkInfo, faults
<1>2. DiskOK /\ PhaseOK /\ RunningOK /\ PublishedOK
  BY <1>1 DEF IInv
<1>3. PICK n \in 0 .. Len(Chain) - 1 : n = Top
  BY <1>1, <1>2, ChainFacts DEF DiskOK, PhaseOK
<1>4. block = Header(n + 1) /\ block.Number = n + 1
  BY <1>1, <1>2, <1>3, Numbers DEF PhaseOK
<1>5. /\ root'.info = Header(n + 1) /\ root'.standby = Waiting(n + 1)
      /\ root'.ran = root.ran \cup ToSet(committed)
      /\ standby' = Waiting(n + 1)
  BY <1>1, <1>4
<1>6. Top' = n + 1 /\ n \in Nat /\ n + 1 \in 1 .. Len(Chain)
  BY <1>5, Numbers, ChainFacts DEF Top
<1>7. Written' = Written
  BY <1>1, SameDisk
<1>8. /\ RunOK(committed, n, reloaded) /\ standby \subseteq root.standby
      /\ TxsOf(committed) \subseteq Live(root.standby)
      /\ TxsOf(committed) \cap Live(standby) = {}
      /\ committed \in Seq(Executions)
      /\ root.ran \subseteq Executions
      /\ QueueOK(root.standby, n)
      /\ StoreOK(Written, n - 1, Live(root.standby), reloaded)
      /\ adding = {} \/ \E b \in adding : adding = {b}
  BY <1>1, <1>2, <1>3 DEF RunningOK, DiskOK
<1>9. QueueOK(standby, n)
  BY <1>8, FS_Subset DEF QueueOK
<1>10. /\ QueueOK(Waiting(n + 1), n + 1)
       /\ Live(Waiting(n + 1)) \subseteq
             Live(standby) \cup ToSet(Chain[n + 1].txs)
  BY <1>9, WaitingFacts
<1>11. Live(standby) \subseteq Live(root.standby)
  BY <1>8 DEF Live
<1>12. ASSUME NEW x, Decided(x, n) PROVE x \notin ToSet(Chain[n + 1].txs)
  <2>1. n \in 0 .. Len(Chain) /\ n + 1 > n
    BY <1>6, ChainFacts
  <2> QED
    BY <2>1, <1>6, <1>12, NotDecidedAgain
<1>13. StoreOK(Written, n, Live(Waiting(n + 1)), reloaded)
  <2>1. ASSUME NEW k \in DOMAIN Written, NEW x \in ExecutedIn(Written[k])
        PROVE  x \notin ToSet(Chain[n + 1].txs)
    <3>1. /\ BlockOK(Written[k], k, reloaded) /\ k \in 1 .. n - 1
      BY <1>8 DEF StoreOK
    <3>2. PICK i \in 1 .. Len(Written[k].txs) : x = Written[k].txs[i].tx
      BY <3>1 DEF BlockOK, ExecutedIn
    <3>3. Decided(x, k)
      BY <3>1, <3>2 DEF BlockOK
    <3>4. Decided(x, n)
      BY <3>1, <3>3, <1>6 DEF Decided
    <3> QED
      BY <3>4, <1>12
  <2>2. ASSUME NEW k \in DOMAIN Written
        PROVE  ExecutedIn(Written[k]) \cap Live(Waiting(n + 1)) = {}
    <3>1. ExecutedIn(Written[k]) \cap Live(root.standby) = {}
      BY <1>8 DEF StoreOK
    <3> QED
      BY <3>1, <2>1, <1>10, <1>11
  <2>3. DOMAIN Written \subseteq 1 .. n
    BY <1>6, <1>8 DEF StoreOK
  <2> QED
    BY <1>8, <2>2, <2>3 DEF StoreOK
<1>14. DiskOK'
  <2>1. root'.ran \subseteq Executions
    BY <1>5, <1>8 DEF ToSet
  <2>2. /\ Top' \in 0 .. Len(Chain) /\ Top' # 0 /\ Top' - 1 = n
    BY <1>6
  <2> QED
    BY <1>1, <1>5, <1>6, <1>7, <1>8, <1>10, <1>13, <2>1, <2>2 DEF DiskOK
<1>15. PhaseOK'
  BY <1>1, <1>4, <1>6 DEF PhaseOK
<1>16. ASSUME n = 0
       PROVE  root.info = NoInfo /\ published = <<>>
  <2>1. root.info = NoInfo
    BY <1>2, <1>3, <1>16 DEF DiskOK
  <2>2. DOMAIN Written = {}
    <3>1. 1 .. n - 1 = {}
      BY <1>16
    <3>2. DOMAIN Written \subseteq 1 .. n - 1
      BY <1>8 DEF StoreOK
    <3> QED
      BY <3>1, <3>2, Zenon
  <2>3. published \in Seq(Nat) /\ ToSet(published) = {}
    BY <1>2, <2>2 DEF PublishedOK
  <2>4. ASSUME published # <<>> PROVE FALSE
    <3>1. Len(published) \in Nat \ {0}
      BY <2>3, <2>4, EmptySeq, Zenon
    <3>2. 1 \in DOMAIN published
      BY <2>3, <3>1, LenProperties
    <3> QED
      BY <2>3, <3>2 DEF ToSet
  <2> QED
    BY <2>1, <2>4
<1>17. ASSUME n # 0
       PROVE  root.info = Header(n) /\ root.info # NoInfo
  <2>1. root.info = Header(n)
    BY <1>2, <1>3, <1>17 DEF DiskOK
  <2> QED
    BY <2>1, <1>3, <1>17, Numbers
<1>18. RunningOK'
  <2>1. ASSUME n # 0
        PROVE  /\ Top' > 1 /\ prevBlkInfo' = Header(Top' - 1)
               /\ RunOK(committed, Top' - 1, reloaded)
               /\ TxsOf(committed) \cap Live(Waiting(n + 1)) = {}
               /\ StoreOK(Written, Top' - 2, TxsOf(committed), reloaded)
    <3>1. Top' > 1 /\ Top' - 1 = n /\ Top' - 2 = n - 1
      BY <1>6, <2>1
    <3>2. prevBlkInfo' = Header(n)
      BY <1>1, <1>17, <2>1
    <3>3. TxsOf(committed) \cap Live(Waiting(n + 1)) = {}
      <4>1. \A x \in TxsOf(committed) : Decided(x, n)
        BY <1>8 DEF TxsOf, RunOK
      <4> QED
        BY <4>1, <1>8, <1>10, <1>12
    <3>4. StoreOK(Written, n - 1, TxsOf(committed), reloaded)
      BY <1>8, StoreSub
    <3> QED
      BY <3>1, <3>2, <3>3, <3>4, <1>8
  <2>2. phase' = IF n = 0 THEN "execute" ELSE "history"
    BY <1>1, <1>16, <1>17
  <2>3. Top' # 0 /\ standby' = root'.standby
    BY <1>5, <1>6
  <2>4. ~mtx' /\ committed' = committed /\ reloaded' = reloaded
    BY <1>1
  <2>5. CASE n = 0
    BY <1>8, <2>2, <2>3, <2>4, <2>5 DEF RunningOK
  <2>6. CASE n # 0
    <3>1. TxsOf(committed) \cap Live(root'.standby) = {}
      BY <2>1, <2>6, <1>5
    <3> QED
      BY <1>7, <1>8, <2>1, <2>2, <2>3, <2>4, <2>6, <3>1 DEF RunningOK
  <2> QED
    BY <2>5, <2>6
<1>19. PublishedOK'
  <2>1. CASE n = 0
    <3>1. published = <<>> /\ published' = published
      BY <1>1, <1>16, <2>1
    <3> QED
      BY <1>2, <1>7, <3>1, PublishedKept
  <2>2. CASE n # 0
    <3>1. Top - 1 = Top' - 2
      BY <1>3, <1>6
    <3>2. phase' = "history"
      BY <1>1, <1>17, <2>2
    <3> QED
      BY <1>1, <1>2, <1>7, <3>1, <3>2, PublishedKept
  <2> QED
    BY <2>1, <2>2
<1> QED
  BY <1>1, <1>14, <1>15, <1>18, <1>19 DEF IInv

(* Commit hands the block before to the history store.                     *)
LEMMA AddBlockIInv ==
    ASSUME IInv, AddBlock
    PROVE  /\ IInv'
           /\ DOMAIN Written' = DOMAIN Written \cup {Top - 1}
           /\ \A k \in DOMAIN Written : Written'[k] = Written[k]
           /\ ExecutedIn(Written'[Top - 1]) = TxsOf(committed)
           /\ prevBlkInfo.Number = Top - 1
<1>1. /\ up /\ phase = "history" /\ history' = Written
      /\ adding' = {[info |-> prevBlkInfo, txs |-> Recorded]}
      /\ phase' = "publish"
      /\ UNCHANGED <<root, up, mtx, block, prevBlkInfo, blockInfo, standby,
                     committed, published, reloaded, crashes, stops>>
  BY DEF AddBlock, HistoryBlock, blockVars, engineVars, faults
<1>2. DiskOK /\ PhaseOK /\ RunningOK /\ PublishedOK
  BY <1>1 DEF IInv
<1>3. PICK n \in Nat : n = Top - 1 /\ n \in 1 .. Len(Chain) /\ Top - 2 = n - 1
  <2>1. Top \in 0 .. Len(Chain) /\ Top > 1
    BY <1>1, <1>2 DEF RunningOK, DiskOK
  <2> QED
    BY <2>1, ChainFacts
<1>4. /\ prevBlkInfo = Header(n) /\ RunOK(committed, n, reloaded)
      /\ TxsOf(committed) \cap Live(root.standby) = {}
      /\ StoreOK(Written, n - 1, TxsOf(committed), reloaded)
      /\ StoreOK(Written, n, Live(root.standby), reloaded)
      /\ standby = root.standby /\ Top # 0 /\ committed \in Seq(Executions)
  BY <1>1, <1>2, <1>3 DEF RunningOK, DiskOK
<1>5. PICK b : b = [info |-> Header(n), txs |-> Recorded]
  OBVIOUS
<1>6. BlockOK(b, n, reloaded) /\ ExecutedIn(b) = TxsOf(committed)
  BY <1>3, <1>4, <1>5, RecordedFacts
<1>7. adding' = {b} /\ b.info.Number = n
  BY <1>1, <1>4, <1>5, Numbers
<1>8. n \notin DOMAIN Written
  <2>1. DOMAIN Written \subseteq 1 .. n - 1
    BY <1>4 DEF StoreOK
  <2> QED
    BY <2>1
<1>9. /\ DOMAIN Written' = DOMAIN Written \cup {n}
      /\ \A k \in DOMAIN Written : Written'[k] = Written[k]
      /\ Written'[n] = b
  <2>1. /\ \A c : adding' = {c} =>
             /\ DOMAIN Written' = DOMAIN history' \cup {c.info.Number}
             /\ c.info.Number \notin DOMAIN history' =>
                   Written'[c.info.Number] = c
        /\ \A k \in DOMAIN history' : Written'[k] = history'[k]
    BY WrittenFacts DEF Joined
  <2> QED
    BY <2>1, <1>1, <1>7, <1>8
<1>10. Top' = Top
  BY <1>1 DEF Top
<1>11. StoreOK(Written', n, Live(root.standby), reloaded)
  <2>1. DOMAIN Written' \subseteq 1 .. n
    BY <1>3, <1>4, <1>9 DEF StoreOK
  <2>2. ASSUME NEW k \in DOMAIN Written'
        PROVE  /\ BlockOK(Written'[k], k, reloaded)
               /\ ExecutedIn(Written'[k]) \cap Live(root.standby) = {}
    <3>1. CASE k = n
      BY <3>1, <1>4, <1>6, <1>9
    <3>2. CASE k \in DOMAIN Written
      BY <3>2, <1>4, <1>9 DEF StoreOK
    <3> QED
      BY <3>1, <3>2, <1>9
  <2>3. ASSUME NEW k \in DOMAIN Written', NEW l \in DOMAIN Written', k # l
        PROVE  ExecutedIn(Written'[k]) \cap ExecutedIn(Written'[l]) = {}
    <3>1. \A j \in DOMAIN Written :
             ExecutedIn(Written[j]) \cap TxsOf(committed) = {}
      BY <1>4 DEF StoreOK
    <3>2. CASE k \in DOMAIN Written /\ l \in DOMAIN Written
      BY <3>2, <2>3, <1>4, <1>9 DEF StoreOK
    <3>3. CASE k = n
      BY <3>1, <3>3, <2>3, <1>6, <1>9
    <3>4. CASE l = n
      BY <3>1, <3>4, <2>3, <1>6, <1>9
    <3> QED
      BY <3>2, <3>3, <3>4, <1>9
  <2> QED
    BY <2>1, <2>2, <2>3 DEF StoreOK
<1>12. DiskOK'
  BY <1>1, <1>2, <1>3, <1>7, <1>10, <1>11 DEF DiskOK
<1>13. PhaseOK'
  BY <1>1, <1>2, <1>10 DEF PhaseOK
<1>14. RunningOK'
  <2>1. ~mtx
    BY <1>1, <1>2 DEF RunningOK
  <2>2. prevBlkInfo'.Number = Top' - 1 /\ Top' - 1 \in DOMAIN Written'
    BY <1>1, <1>3, <1>4, <1>9, <1>10, Numbers
  <2> QED
    <3>1. ~mtx' /\ phase' = "publish" /\ Top' # 0
      BY <1>1, <1>4, <1>10, <2>1
    <3>2. standby' = root'.standby /\ committed' \in Seq(Executions)
      BY <1>1, <1>4
    <3> QED
      BY <3>1, <3>2, <2>2 DEF RunningOK
<1>15. PublishedOK'
  <2>1. DOMAIN Written \subseteq DOMAIN Written'
    BY <1>9
  <2> QED
    BY <1>1, <1>2, <1>10, <2>1, PublishedKept
<1>16. IInv'
  BY <1>1, <1>12, <1>13, <1>14, <1>15 DEF IInv
<1> QED
  BY <1>3, <1>4, <1>6, <1>9, <1>16, Numbers

(* Whether the block being written gets to the disk or not.                *)
LEMMA Closed ==
    ASSUME DiskOK, adding' = {}, history' \in {history, Written},
           reloaded' = reloaded, root' = root
    PROVE  /\ DiskOK'
           /\ history' = Written => /\ DOMAIN Written' = DOMAIN Written
                                    /\ \A k \in DOMAIN Written :
                                          Written'[k] = Written[k]
           /\ history' = history => DOMAIN Written' = DOMAIN history
<1>1. /\ DOMAIN Written' = DOMAIN history'
      /\ \A k \in DOMAIN history' : Written'[k] = history'[k]
  BY WrittenFacts DEF Joined
<1>2. /\ DOMAIN history \subseteq DOMAIN Written
      /\ \A k \in DOMAIN history : Written[k] = history[k]
  BY WrittenFacts DEF Joined
<1>3. /\ DOMAIN Written' \subseteq DOMAIN Written
      /\ \A k \in DOMAIN Written' : Written'[k] = Written[k]
  <2>1. CASE history' = history
    BY <2>1, <1>1, <1>2
  <2>2. CASE history' = Written
    BY <2>2, <1>1
  <2> QED
    BY <2>1, <2>2
<1>4. StoreOK(Written', Top - 1, Live(root.standby), reloaded)
  BY <1>3, StoreSub DEF DiskOK
<1>5. Top' = Top
  BY DEF Top
<1>6. DiskOK'
  BY <1>4, <1>5 DEF DiskOK
<1> QED
  BY <1>1, <1>6

(* The history store ends its writing in the background.                   *)
LEMMA FlushIInv ==
    ASSUME IInv, Flush
    PROVE  /\ IInv'
           /\ DOMAIN Written' = DOMAIN Written
           /\ \A k \in DOMAIN Written : Written'[k] = Written[k]
<1>1. /\ adding # {} /\ history' = Written /\ adding' = {}
      /\ UNCHANGED <<root, up, phase, mtx, block, prevBlkInfo, blockInfo,
                     standby, committed, published, reloaded, crashes, stops>>
  BY DEF Flush, blockVars, engineVars, faults
<1>2. up /\ DiskOK /\ PhaseOK /\ RunningOK /\ PublishedOK
  BY <1>1 DEF IInv, DownOK
<1>3. /\ DiskOK' /\ DOMAIN Written' = DOMAIN Written
      /\ \A k \in DOMAIN Written : Written'[k] = Written[k]
  BY <1>1, <1>2, Closed
<1>4. Top' = Top
  BY <1>1 DEF Top
<1>5. PhaseOK'
  BY <1>1, <1>2, <1>4 DEF PhaseOK
<1>6. RunningOK'
  <2>1. phase = "history" =>
           StoreOK(Written', Top - 2, TxsOf(committed), reloaded)
    <3>1. phase = "history" =>
             StoreOK(Written, Top - 2, TxsOf(committed), reloaded)
      BY <1>2 DEF RunningOK
    <3>2. StoreOK(Written, Top - 2, TxsOf(committed), reloaded)
            => StoreOK(Written', Top - 2, TxsOf(committed), reloaded)
      BY <1>3, StoreSub
    <3> QED
      BY <3>1, <3>2
  <2> QED
    BY <1>1, <1>2, <1>3, <1>4, <2>1 DEF RunningOK
<1>7. PublishedOK'
  BY <1>1, <1>2, <1>3, <1>4, PublishedKept
<1> QED
  BY <1>1, <1>2, <1>3, <1>5, <1>6, <1>7 DEF IInv

(* Commit publishes the block it has just stored.                          *)
LEMMA PublishIInv ==
    ASSUME IInv, PublishNewBlock
    PROVE  IInv'
<1>1. /\ up /\ phase = "publish"
      /\ published' = Append(published, prevBlkInfo.Number)
      /\ phase' = "execute"
      /\ UNCHANGED <<diskVars, up, mtx, block, prevBlkInfo, blockInfo, standby,
                     committed, reloaded, crashes, stops>>
  BY DEF PublishNewBlock, ToPublish, blockVars, engineVars, faults
<1>2. DiskOK /\ PhaseOK /\ RunningOK /\ PublishedOK
  BY <1>1 DEF IInv
<1>3. DiskOK' /\ Written' = Written /\ Top' = Top /\ root' = root
  BY <1>1, <1>2, DiskKept DEF diskVars
<1>4. PhaseOK'
  BY <1>1, <1>2, <1>3 DEF PhaseOK
<1>5. RunningOK'
  <2>1. /\ ~mtx /\ standby = root.standby /\ Top # 0
        /\ committed \in Seq(Executions)
    BY <1>1, <1>2 DEF RunningOK
  <2> QED
    BY <1>1, <1>3, <2>1 DEF RunningOK
<1>6. PublishedOK'
  <2>1. PICK n \in Nat : n = Top - 1 /\ n = prevBlkInfo.Number
                         /\ n \in DOMAIN Written
    <3>1. Top \in 0 .. Len(Chain) /\ Top # 0 /\ prevBlkInfo.Number = Top - 1
          /\ Top - 1 \in DOMAIN Written
      BY <1>1, <1>2 DEF RunningOK, DiskOK
    <3> QED
      BY <3>1, ChainFacts
  <2>2. PICK p \in Seq(Nat) : p = published
    BY <1>2 DEF PublishedOK
  <2>3. PICK q \in Seq(Nat) : q = Append(p, n)
    <3>1. Append(p, n) \in Seq(Nat)
      BY AppendProperties, Zenon
    <3> QED
      BY <3>1, Zenon
  <2>4. PICK l \in Nat : l = Len(p)
    BY LenProperties
  <2>5. /\ Len(q) = l + 1 /\ q[l + 1] = n /\ \A i \in 1 .. l : q[i] = p[i]
    BY <2>3, <2>4, AppendProperties
  <2>6. published' = q
    BY <1>1, <2>1, <2>2, <2>3
  <2>7. ToSet(q) \subseteq DOMAIN Written
    <3>1. \A i \in 1 .. l : p[i] \in DOMAIN Written
      <4>1. DOMAIN p = 1 .. l
        BY <2>4, LenProperties, Zenon
      <4>2. ToSet(p) \subseteq DOMAIN Written
        BY <1>2, <2>2, Zenon DEF PublishedOK
      <4> QED
        BY <4>1, <4>2, Zenon DEF ToSet
    <3>2. DOMAIN q = 1 .. Len(q)
      BY LenProperties, Zenon
    <3>3. ASSUME NEW i \in 1 .. l + 1 PROVE q[i] \in DOMAIN Written
      <4>1. CASE i = l + 1
        BY <4>1, <2>1, <2>5
      <4>2. CASE i # l + 1
        BY <4>2, <3>1, <2>5
      <4> QED
        BY <4>1, <4>2
    <3> QED
      BY <3>2, <3>3, <2>5, Zenon DEF ToSet
  <2>8. /\ \A i \in 2 .. l : p[i] = p[i - 1] + 1
        /\ l # 0 => p[l] = n - 1
    <3>1. p # <<>> => p[Len(p)] = Top - 2
      BY <1>1, <1>2, <2>2 DEF PublishedOK
    <3>2. l # 0 => p # <<>>
      BY <2>4
    <3>3. Top - 2 = n - 1
      <4>1. Top \in 0 .. Len(Chain)
        BY <1>2 DEF DiskOK
      <4> QED
        BY <4>1, <2>1, ChainFacts
    <3> QED
      BY <1>2, <2>2, <2>4, <3>1, <3>2, <3>3 DEF PublishedOK
  <2>9. ASSUME NEW i \in 2 .. l + 1 PROVE q[i] = q[i - 1] + 1
    <3>1. CASE i = l + 1
      <4>1. l # 0 /\ l \in 1 .. l /\ i - 1 = l
        BY <3>1
      <4>2. q[i - 1] = n - 1 /\ q[i] = n
        BY <3>1, <4>1, <2>5, <2>8
      <4> QED
        BY <4>2
    <3>2. CASE i # l + 1
      <4>1. i \in 2 .. l /\ i \in 1 .. l /\ i - 1 \in 1 .. l
        BY <3>2
      <4> QED
        BY <4>1, <2>5, <2>8
    <3> QED
      BY <3>1, <3>2
  <2> QED
    BY <1>1, <1>3, <2>1, <2>5, <2>6, <2>7, <2>9 DEF PublishedOK
<1> QED
  BY <1>1, <1>3, <1>4, <1>5, <1>6 DEF IInv

(* Commit starts postCommit, which holds the mutex.                        *)
LEMMA StartPostCommitIInv ==
    ASSUME IInv, StartPostCommit
    PROVE  IInv'
<1>1. /\ up /\ phase = "execute" /\ blockInfo' = block /\ committed' = <<>>
      /\ mtx' = TRUE /\ phase' = "begin"
      /\ UNCHANGED <<diskVars, up, block, standby, published, reloaded,
                     crashes, stops>>
  BY DEF StartPostCommit, faults
<1>2. DiskOK /\ PhaseOK /\ RunningOK /\ PublishedOK
  BY <1>1 DEF IInv
<1>3. DiskOK' /\ Written' = Written /\ Top' = Top /\ root' = root
  BY <1>1, <1>2, DiskKept DEF diskVars
<1>4. block = Header(Top) /\ standby = root.standby /\ Top # 0
  BY <1>1, <1>2 DEF PhaseOK, RunningOK
<1>5. PhaseOK'
  BY <1>1, <1>3, <1>4, Numbers DEF PhaseOK
<1>6. RunningOK'
  <2>1. RunOK(committed', Top', reloaded') /\ TxsOf(committed') = {}
    BY <1>1, EmptyRun
  <2>2. committed' \in Seq(Executions)
    BY <1>1
  <2> QED
    BY <1>1, <1>3, <1>4, <2>1, <2>2 DEF RunningOK
<1>7. PublishedOK'
  BY <1>1, <1>2, <1>3, PublishedKept
<1> QED
  BY <1>1, <1>3, <1>5, <1>6, <1>7, Zenon DEF IInv

(* postCommit runs what is due, each transaction once.                     *)
LEMMA PostCommitIInv ==
    ASSUME IInv, PostCommit
    PROVE  IInv'
<1>1. /\ up /\ mtx /\ committed' = Executed(standby, blockInfo)
      /\ standby' = standby \ Ready(standby, blockInfo.Number)
      /\ mtx' = FALSE
      /\ UNCHANGED <<diskVars, up, phase, block, prevBlkInfo, blockInfo,
                     published, reloaded, crashes, stops>>
  BY DEF PostCommit, blockVars, faults
<1>2. DiskOK /\ PhaseOK /\ RunningOK /\ PublishedOK
  BY <1>1 DEF IInv
<1>3. DiskOK' /\ Written' = Written /\ Top' = Top /\ root' = root
  BY <1>1, <1>2, DiskKept DEF diskVars
<1>4. PICK n \in 1 .. Len(Chain) : n = Top
  BY <1>1, <1>2, ChainFacts DEF DiskOK, RunningOK
<1>5. /\ blockInfo = Header(n) /\ standby = root.standby
      /\ phase \in {"begin", "commit"} /\ QueueOK(standby, n)
  BY <1>1, <1>2, <1>4 DEF DiskOK, RunningOK
<1>6. /\ RunOK(committed', n, reloaded)
      /\ TxsOf(committed') \subseteq Live(standby)
      /\ TxsOf(committed') \cap Live(standby') = {}
      /\ standby' \subseteq standby
  BY <1>1, <1>5, ExecutedFacts, Numbers
<1>7. committed' \in Seq(Executions)
  BY <1>6 DEF RunOK
<1>8. PhaseOK'
  BY <1>1, <1>2, <1>3 DEF PhaseOK
<1>9. RunningOK'
  BY <1>1, <1>3, <1>4, <1>5, <1>6, <1>7 DEF RunningOK
<1>10. PublishedOK'
  BY <1>1, <1>2, <1>3, PublishedKept
<1> QED
  BY <1>1, <1>3, <1>8, <1>9, <1>10, Zenon DEF IInv

(* The process ends, and what was in memory is gone.                       *)
LEMMA DownIInv ==
    ASSUME IInv, Down, history' \in {history, Written}, reloaded' = reloaded,
           crashes' \in 0 .. MaxCrashes, stops' \in 0 .. MaxStops
    PROVE  IInv'
<1>1. /\ up' = FALSE /\ phase' = "begin" /\ mtx' = FALSE /\ block' = NoInfo
      /\ committed' = <<>> /\ published' = <<>> /\ adding' = {}
      /\ root' = root
  BY DEF Down
<1>2. DiskOK'
  BY <1>1, Closed DEF IInv
<1>3. DownOK'
  BY <1>1 DEF DownOK
<1> QED
  BY <1>1, <1>2, <1>3, Zenon DEF IInv

(* NewApp takes over what is on disk and reload runs what was waiting.     *)
LEMMA RestartIInv ==
    ASSUME IInv, Restart
    PROVE  IInv' /\ Written' = Written
<1>1. PICK n : n = Top
  OBVIOUS
<1>2. /\ ~up /\ up' = TRUE /\ block' = Reloaded(n)
      /\ committed' = IF n = 0 THEN <<>>
                      ELSE Executed(root.standby, Reloaded(n))
      /\ standby' = IF n = 0 THEN {} ELSE root.standby \ Ready(root.standby, n)
      /\ reloaded' = reloaded \cup {n}
      /\ UNCHANGED <<diskVars, phase, mtx, published, crashes, stops>>
  BY <1>1 DEF Restart, Top
<1>3. DiskOK /\ DownOK
  BY <1>2 DEF IInv
<1>4. DiskOK' /\ Written' = Written /\ Top' = Top /\ root' = root
  BY <1>2, <1>3, DiskKept DEF diskVars
<1>5. phase' = "begin" /\ mtx' = FALSE /\ published' = <<>>
  BY <1>2, <1>3 DEF DownOK
<1>6. PhaseOK'
  BY <1>1, <1>2, <1>4, <1>5, Numbers DEF PhaseOK
<1>7. /\ RunOK(committed', n, reloaded')
      /\ TxsOf(committed') \subseteq Live(root.standby)
      /\ TxsOf(committed') \cap Live(standby') = {}
      /\ standby' \subseteq root.standby
  <2>1. CASE n = 0
    BY <1>2, <2>1, EmptyRun
  <2>2. CASE n # 0
    <3>1. n \in 1 .. Len(Chain) /\ QueueOK(root.standby, n)
      BY <1>1, <1>3, <2>2, ChainFacts DEF DiskOK
    <3>2. Reloaded(n).Number = n
      BY Numbers
    <3>3. n \in reloaded'
      BY <1>2
    <3> QED
      BY <1>2, <2>2, <3>1, <3>2, <3>3, ExecutedFacts
  <2> QED
    BY <2>1, <2>2
<1>8. committed' \in Seq(Executions)
  BY <1>7 DEF RunOK
<1>9. RunningOK'
  BY <1>1, <1>4, <1>5, <1>7, <1>8 DEF RunningOK
<1>10. PublishedOK'
  BY <1>5 DEF PublishedOK, ToSet
<1>11. mtx' \in BOOLEAN /\ crashes' \in 0 .. MaxCrashes /\ stops' \in 0 .. MaxStops
  BY <1>2, <1>5, Zenon DEF IInv
<1> QED
  BY <1>2, <1>4, <1>6, <1>9, <1>10, <1>11, Zenon DEF IInv

(* Every step of the node keeps the invariant.                             *)
LEMMA NextIInv ==
    ASSUME IInv, [Next]_vars
    PROVE  IInv'
<1>1. CASE NextBlock
  BY <1>1, NextBlockIInv
<1>2. CASE CommitRoot
  BY <1>2, CommitRootIInv
<1>3. CASE AddBlock
  BY <1>3, AddBlockIInv
<1>4. CASE PublishNewBlock
  BY <1>4, PublishIInv
<1>5. CASE StartPostCommit
  BY <1>5, StartPostCommitIInv
<1>6. CASE Flush
  BY <1>6, FlushIInv
<1>7. CASE PostCommit
  BY <1>7, PostCommitIInv
<1>8. CASE Stop
  <2>1. stops < MaxStops /\ Down /\ history' = Written /\ stops' = stops + 1
        /\ reloaded' = reloaded /\ crashes' = crashes
    BY <1>8 DEF Stop
  <2>2. crashes \in 0 .. MaxCrashes /\ stops \in 0 .. MaxStops
    BY DEF IInv
  <2>3. crashes' \in 0 .. MaxCrashes /\ stops' \in 0 .. MaxStops
    BY <2>1, <2>2, ChainFacts
  <2> QED
    BY <2>1, <2>3, DownIInv
<1>9. CASE Crash
  <2>1. crashes < MaxCrashes /\ Down /\ history' \in {history, Written}
        /\ crashes' = crashes + 1 /\ reloaded' = reloaded /\ stops' = stops
    BY <1>9 DEF Crash
  <2>2. crashes \in 0 .. MaxCrashes /\ stops \in 0 .. MaxStops
    BY DEF IInv
  <2>3. crashes' \in 0 .. MaxCrashes /\ stops' \in 0 .. MaxStops
    BY <2>1, <2>2, ChainFacts
  <2> QED
    BY <2>1, <2>3, DownIInv
<1>10. CASE Restart
  BY <1>10, RestartIInv
<1>11. CASE UNCHANGED vars
  <2>1. UNCHANGED <<diskVars, up, phase, mtx, block, prevBlkInfo, blockInfo,
                    standby, committed, published, reloaded, crashes, stops>>
    BY <1>11 DEF vars, blockVars, engineVars, faults
  <2>2. DiskOK' /\ Written' = Written /\ Top' = Top /\ root' = root
        /\ adding' = adding
    BY <2>1, DiskKept DEF diskVars, IInv
  <2>3. PhaseOK => PhaseOK'
    BY <2>1, <2>2 DEF PhaseOK
  <2>4. RunningOK => RunningOK'
    BY <2>1, <2>2 DEF RunningOK
  <2>5. PublishedOK => PublishedOK'
    BY <2>1, <2>2 DEF PublishedOK
  <2>6. DownOK => DownOK'
    BY <2>1, <2>2 DEF DownOK
  <2> QED
    BY <2>1, <2>2, <2>3, <2>4, <2>5, <2>6, Zenon DEF IInv
<1> QED
  BY <1>1, <1>2, <1>3, <1>4, <1>5, <1>6, <1>7, <1>8, <1>9, <1>10, <1>11
     DEF Next, CommitStep

(* The invariant holds in every reachable state.                           *)
LEMMA IInvHolds == Spec => []IInv
<1>1. Init => IInv
  BY InitIInv
<1>2. IInv /\ [Next]_vars => IInv'
  BY NextIInv
<1> QED
  BY <1>1, <1>2, PTL DEF Spec

-----------------------------------------------------------------------------
(* The type of every variable; AddBlock never stores a block under another *)
(* height than its own.                                                    *)
THEOREM TypeCorrect == Spec => []TypeOK
<1>1. IInv => TypeOK
  <2> SUFFICES ASSUME IInv PROVE TypeOK
    OBVIOUS
  <2>1. DiskOK
    BY DEF IInv
  <2>2. Top \in 0 .. Len(Chain)
    BY <2>1 DEF DiskOK
  <2>3. root.info \in {NoInfo} \cup {Header(n) : n \in DOMAIN Chain}
    <3>1. CASE Top = 0
      BY <3>1, <2>1 DEF DiskOK
    <3>2. CASE Top # 0
      <4>1. Top \in DOMAIN Chain
        BY <3>2, <2>2, ChainFacts
      <4> QED
        BY <3>2, <4>1, <2>1 DEF DiskOK
    <3> QED
      BY <3>1, <3>2
  <2>4. root.standby \subseteq [tx : Txs, since : DOMAIN Chain]
    BY <2>1 DEF DiskOK, QueueOK
  <2>5. ASSUME NEW n \in DOMAIN history PROVE history[n].info.Number = n
    <3>1. n \in DOMAIN Written /\ Written[n] = history[n]
      BY WrittenFacts DEF Joined
    <3>2. BlockOK(Written[n], n, reloaded)
      BY <2>1, <3>1 DEF DiskOK, StoreOK
    <3> QED
      BY <3>1, <3>2, Numbers DEF BlockOK
  <2>6. Cardinality(adding) <= 1
    <3>1. CASE adding = {}
      BY <3>1, FS_EmptySet
    <3>2. ASSUME NEW b, adding = {b} PROVE Cardinality(adding) <= 1
      BY <3>2, FS_Singleton
    <3> QED
      BY <3>1, <3>2, <2>1 DEF DiskOK
  <2>7. phase \in {"begin", "commit", "history", "publish", "execute"}
    BY DEF IInv, PhaseOK, DownOK
  <2>8. block.Number \in 0 .. Len(Chain)
    <3>1. CASE ~up
      BY <3>1, Numbers, ChainFacts DEF IInv, DownOK
    <3>2. CASE up
      <4>1. PhaseOK
        BY <3>2 DEF IInv
      <4>2. \/ block.Number = Top
            \/ Top < Len(Chain) /\ block = Header(Top + 1)
            \/ block = Header(Top)
        BY <4>1 DEF PhaseOK
      <4> QED
        BY <4>2, <2>2, Numbers, ChainFacts
    <3> QED
      BY <3>1, <3>2
  <2>9. ToSet(committed) \subseteq Executions
    <3>1. committed \in Seq(Executions)
      <4>1. CASE up
        BY <4>1 DEF IInv, RunningOK
      <4>2. CASE ~up
        BY <4>2 DEF IInv, DownOK
      <4> QED
        BY <4>1, <4>2
    <3> QED
      BY <3>1 DEF ToSet
  <2>10. /\ up \in BOOLEAN /\ mtx \in BOOLEAN
         /\ crashes \in 0 .. MaxCrashes /\ stops \in 0 .. MaxStops
    BY Zenon DEF IInv
  <2>11. root.ran \subseteq Executions
    BY <2>1 DEF DiskOK
  <2> QED
    BY <2>3, <2>4, <2>5, <2>6, <2>7, <2>8, <2>9, <2>10, <2>11, Zenon
       DEF TypeOK
<1> QED
  BY <1>1, IInvHolds, PTL

(* As many transactions as entries: a block lists none twice.              *)
LEMMA ExecutedOnce ==
    ASSUME NEW b, NEW n, NEW marked, BlockOK(b, n, marked)
    PROVE  Cardinality(ExecutedIn(b)) = Len(b.txs)
<1>1. PICK l \in Nat : l = Len(b.txs)
  BY DEF BlockOK
<1>2. /\ DOMAIN b.txs = 1 .. l
      /\ \A i, j \in 1 .. l : b.txs[i].tx = b.txs[j].tx => i = j
  BY <1>1 DEF BlockOK
<1>3. PICK f : f = [i \in 1 .. l |-> b.txs[i].tx]
  OBVIOUS
<1>4. PICK S : S = ExecutedIn(b)
  OBVIOUS
<1>5. f \in [1 .. l -> S]
  BY <1>2, <1>3, <1>4 DEF ExecutedIn
<1>6. \A i, j \in 1 .. l : f[i] = f[j] => i = j
  BY <1>2, <1>3
<1>7. \A x \in S : \E i \in 1 .. l : f[i] = x
  BY <1>2, <1>3, <1>4 DEF ExecutedIn
<1>8. f \in Bijection(1 .. l, S)
  BY <1>5, <1>6, <1>7 DEF Bijection, Injection, Surjection, IsInjective
<1>9. ExistsBijection(1 .. l, S)
  BY <1>8 DEF ExistsBijection
<1>10. Cardinality(S) = l
  BY <1>9, FS_CountingElements
<1> QED
  BY <1>1, <1>4, <1>10

(* refresh: whatever stops and crashes there were, a block of the history  *)
(* store has the header decided for its height, and its transactions ran   *)
(* once, after they were decided, and are in no other block.               *)
THEOREM HistoryFaithfulHolds == Spec => []HistoryFaithful
<1>1. IInv => HistoryFaithful
  <2> SUFFICES ASSUME IInv, NEW n \in DOMAIN Written
               PROVE  /\ Written[n].info = Header(n)
                      /\ \A x \in ExecutedIn(Written[n]) :
                            \E m \in 1 .. n : x \in ToSet(Chain[m].txs)
                      /\ Cardinality(ExecutedIn(Written[n]))
                            = Len(Written[n].txs)
                      /\ \A m \in DOMAIN Written \ {n} :
                            ExecutedIn(Written[m])
                               \cap ExecutedIn(Written[n]) = {}
    BY DEF HistoryFaithful
  <2>1. StoreOK(Written, Top - 1, Live(root.standby), reloaded)
    BY DEF IInv, DiskOK
  <2>2. BlockOK(Written[n], n, reloaded)
    BY <2>1 DEF StoreOK
  <2>3. \A x \in ExecutedIn(Written[n]) :
           \E m \in 1 .. n : x \in ToSet(Chain[m].txs)
    BY <2>2 DEF BlockOK, ExecutedIn, Decided
  <2>4. Cardinality(ExecutedIn(Written[n])) = Len(Written[n].txs)
    BY <2>2, ExecutedOnce
  <2>5. \A m \in DOMAIN Written \ {n} :
           ExecutedIn(Written[m]) \cap ExecutedIn(Written[n]) = {}
    BY <2>1 DEF StoreOK
  <2> QED
    BY <2>2, <2>3, <2>4, <2>5 DEF BlockOK
<1> QED
  BY <1>1, IInvHolds, PTL

(* publishNewBlock: the heights told to subscribers are consecutive and    *)
(* stored, or being stored, when they are told.                            *)
THEOREM PublishedAreStoredHolds == Spec => []PublishedAreStored
<1>1. IInv => PublishedAreStored
  <2> SUFFICES ASSUME IInv PROVE PublishedAreStored
    OBVIOUS
  <2>1. CASE up
    BY <2>1 DEF IInv, PublishedOK, PublishedAreStored
  <2>2. CASE ~up
    <3>1. published = <<>>
      BY <2>2 DEF IInv, DownOK
    <3> QED
      BY <3>1 DEF PublishedAreStored, ToSet
  <2> QED
    BY <2>1, <2>2
<1> QED
  BY <1>1, IInvHolds, PTL

-----------------------------------------------------------------------------
(* The transactions of the blocks of a history.                            *)
Stored(store) == UNION {ExecutedIn(store[n]) : n \in DOMAIN store}

(* What must be in the history, were there no crashes.                     *)
Accounted(ran, store, rest) == Live(ran) \subseteq Stored(store) \cup rest

(* What Commit has made durable and is about to store.                     *)
InCommit == IF phase = "history" THEN TxsOf(committed) ELSE {}

(* The run of a process as a set.                                          *)
LEMMA RunTxs ==
    ASSUME NEW run \in Seq(Executions)
    PROVE  /\ Live(ToSet(run)) = TxsOf(run)
           /\ {e.tx : e \in ToSet(run)} = TxsOf(run)
<1>1. DOMAIN run = 1 .. Len(run)
  BY LenProperties, Zenon
<1> QED
  BY <1>1 DEF Live, ToSet, TxsOf

(* The blocks that are missing are finitely many.                          *)
LEMMA MissingFinite ==
    ASSUME IInv
    PROVE  /\ IsFiniteSet(Missing)
           /\ Cardinality(Missing) \in Nat
           /\ Top \in Nat /\ crashes \in Nat
<1>1. Top \in Nat /\ crashes \in Nat
  <2>1. Top \in 0 .. Len(Chain) /\ crashes \in 0 .. MaxCrashes
    BY DEF IInv, DiskOK
  <2> QED
    BY <2>1, ChainFacts
<1>2. PICK t \in Int : t = Top - 1
  BY <1>1
<1>3. IsFiniteSet(1 .. t)
  BY FS_Interval
<1>4. Missing \subseteq 1 .. t
  BY <1>2 DEF Missing, Top
<1>5. IsFiniteSet(Missing)
  BY <1>3, <1>4, FS_Subset, Zenon
<1> QED
  BY <1>1, <1>5, FS_CardinalityType, Zenon

(* The property, in the terms of this module.                              *)
LEMMA LostParts ==
    ASSUME IInv
    PROVE  LostOnlyByCrashes <=>
             /\ Cardinality(Missing) <= 2 * crashes
             /\ crashes = 0 => Accounted(root.ran, Written, InCommit)
<1>1. committed \in Seq(Executions)
  <2>1. CASE up
    BY <2>1 DEF IInv, RunningOK
  <2>2. CASE ~up
    BY <2>2 DEF IInv, DownOK
  <2> QED
    BY <2>1, <2>2
<1>2. {e.tx : e \in ToSet(committed)} = TxsOf(committed)
  BY <1>1, RunTxs
<1> QED
  BY <1>2, Zenon DEF LostOnlyByCrashes, Accounted, InCommit, Stored, Live

(* The same parts in the next state.                                       *)
LEMMA LostPartsNext ==
    ASSUME IInv'
    PROVE  LostOnlyByCrashes' <=>
             /\ Cardinality(Missing') <= 2 * crashes'
             /\ crashes' = 0 => Accounted(root'.ran, Written', InCommit')
<1>1. committed' \in Seq(Executions)
  <2>1. CASE up'
    BY <2>1 DEF IInv, RunningOK
  <2>2. CASE ~up'
    BY <2>2 DEF IInv, DownOK
  <2> QED
    BY <2>1, <2>2
<1>2. {e.tx : e \in ToSet(committed')} = TxsOf(committed')
  BY <1>1, RunTxs
<1> QED
  BY <1>2, Zenon DEF LostOnlyByCrashes, Accounted, InCommit, Stored, Live

(* Storing more, and as much as before of what is on its way.              *)
LEMMA StoredMore ==
    ASSUME NEW w, NEW v, DOMAIN w \subseteq DOMAIN v,
           \A k \in DOMAIN w : v[k] = w[k]
    PROVE  Stored(w) \subseteq Stored(v)
BY DEF Stored

(* No block gets lost in a step that loses nothing.                        *)
LEMMA NothingMissed ==
    ASSUME IInv, IInv', LostOnlyByCrashes, crashes' = crashes,
           Missing' \subseteq Missing,
           crashes = 0 /\ Accounted(root.ran, Written, InCommit)
              => Accounted(root'.ran, Written', InCommit')
    PROVE  LostOnlyByCrashes'
<1>1. /\ Cardinality(Missing) <= 2 * crashes
      /\ crashes = 0 => Accounted(root.ran, Written, InCommit)
  BY LostParts
<1>2. Cardinality(Missing') <= Cardinality(Missing)
      /\ Cardinality(Missing') \in Nat
  BY MissingFinite, FS_Subset, FS_CardinalityType
<1>3. PICK a \in Nat, b \in Nat, c \in Nat :
         a = Cardinality(Missing) /\ b = Cardinality(Missing') /\ c = crashes
  BY <1>2, MissingFinite
<1>4. b <= 2 * c
  BY <1>1, <1>2, <1>3
<1>5. Cardinality(Missing') <= 2 * crashes'
  BY <1>3, <1>4
<1> QED
  BY <1>1, <1>5, LostPartsNext

(* The store, the state and what is on its way stay the same.              *)
LEMMA NothingMoved ==
    ASSUME IInv, IInv', LostOnlyByCrashes, crashes' = crashes, root' = root,
           DOMAIN Written' = DOMAIN Written,
           \A k \in DOMAIN Written : Written'[k] = Written[k],
           \/ phase # "history" /\ phase' # "history"
           \/ UNCHANGED <<phase, committed, prevBlkInfo>>
    PROVE  LostOnlyByCrashes'
<1>1. InCommit' = InCommit /\ BeingWritten' = BeingWritten
  BY DEF InCommit, BeingWritten
<1>2. Missing' \subseteq Missing
  BY <1>1 DEF Missing
<1>3. Stored(Written) \subseteq Stored(Written')
  BY StoredMore
<1>4. Accounted(root.ran, Written, InCommit)
        => Accounted(root'.ran, Written', InCommit')
  BY <1>1, <1>3 DEF Accounted
<1> QED
  BY <1>2, <1>4, NothingMissed

(* CommitRoot puts the block before on its way, with what ran in it.       *)
LEMMA CommitRootLost ==
    ASSUME IInv, IInv', LostOnlyByCrashes, CommitRoot
    PROVE  LostOnlyByCrashes'
<1>1. /\ up /\ phase = "commit"
      /\ prevBlkInfo' = root.info
      /\ root' = [info |-> block, standby |-> Waiting(block.Number),
                  ran |-> root.ran \cup ToSet(committed)]
      /\ phase' = IF root.info = NoInfo THEN "execute" ELSE "history"
      /\ UNCHANGED <<history, adding, committed, reloaded, crashes>>
  BY DEF CommitRoot, PrevBlkInfo, faults
<1>2. DiskOK /\ PhaseOK /\ RunningOK
  BY <1>1 DEF IInv
<1>3. PICK n \in Nat : n = Top
  BY MissingFinite
<1>4. root'.info.Number = n + 1 /\ root.info.Number = n
  BY <1>1, <1>2, <1>3, Numbers DEF PhaseOK, Top
<1>5. Written' = Written
  BY <1>1, SameDisk
<1>6. BeingWritten = {} /\ InCommit = {}
  BY <1>1 DEF BeingWritten, InCommit
<1>7. n # 0 => phase' = "history"
  <2>1. n # 0 => root.info = Header(n) /\ n \in 1 .. Len(Chain)
    BY <1>2, <1>3 DEF DiskOK
  <2> QED
    BY <2>1, <1>1, Numbers
<1>8. n = 0 => phase' = "execute" /\ TxsOf(committed) = {}
  <2>1. n = 0 => root.info = NoInfo
    BY <1>2, <1>3 DEF DiskOK
  <2>2. n = 0 => root.standby = {}
    <3>1. \A e \in root.standby : e.since \in 1 .. Len(Chain) /\ e.since <= n
      BY <1>2, <1>3, ChainFacts DEF DiskOK, QueueOK
    <3> QED
      BY <3>1, ChainFacts
  <2>3. TxsOf(committed) \subseteq Live(root.standby)
    BY <1>1, <1>2 DEF RunningOK
  <2> QED
    BY <2>1, <2>2, <2>3, <1>1 DEF Live
<1>9. Missing' \subseteq Missing
  <2>1. Missing = (1 .. n - 1) \ DOMAIN Written
    BY <1>4, <1>6 DEF Missing
  <2>2. Missing' = (1 .. n) \ (DOMAIN Written \cup BeingWritten')
    BY <1>4, <1>5 DEF Missing
  <2>3. CASE n = 0
    BY <2>2, <2>3
  <2>4. CASE n # 0
    <3>1. BeingWritten' = {n}
      BY <1>1, <1>4, <1>7, <2>4 DEF BeingWritten
    <3> QED
      BY <2>1, <2>2, <3>1
  <2> QED
    BY <2>3, <2>4
<1>10. ASSUME Accounted(root.ran, Written, InCommit)
       PROVE  Accounted(root'.ran, Written', InCommit')
  <2>1. committed \in Seq(Executions)
    BY <1>2 DEF RunningOK
  <2>2. Live(ToSet(committed)) = TxsOf(committed)
    BY <2>1, RunTxs
  <2>3. root'.ran = root.ran \cup ToSet(committed)
    BY <1>1
  <2>4. Live(root'.ran) \subseteq Live(root.ran) \cup TxsOf(committed)
    BY <2>2, <2>3 DEF Live
  <2>5. TxsOf(committed) \subseteq InCommit'
    BY <1>1, <1>7, <1>8 DEF InCommit
  <2> QED
    BY <1>5, <1>6, <1>10, <2>4, <2>5 DEF Accounted
<1> QED
  BY <1>1, <1>9, <1>10, NothingMissed

(* AddBlock stores what was on its way.                                    *)
LEMMA AddBlockLost ==
    ASSUME IInv, IInv', LostOnlyByCrashes, AddBlock
    PROVE  LostOnlyByCrashes'
<1>1. /\ up /\ phase = "history" /\ phase' = "publish"
      /\ UNCHANGED <<root, committed, crashes>>
  BY DEF AddBlock, engineVars, faults
<1>2. /\ DOMAIN Written' = DOMAIN Written \cup {Top - 1}
      /\ \A k \in DOMAIN Written : Written'[k] = Written[k]
      /\ ExecutedIn(Written'[Top - 1]) = TxsOf(committed)
      /\ prevBlkInfo.Number = Top - 1
  BY AddBlockIInv
<1>3. Missing' \subseteq Missing
  BY <1>1, <1>2 DEF Missing, BeingWritten
<1>4. InCommit = TxsOf(committed) /\ InCommit' = {}
  BY <1>1 DEF InCommit
<1>5. Stored(Written) \subseteq Stored(Written')
  BY <1>2, StoredMore
<1>6. TxsOf(committed) \subseteq Stored(Written')
  BY <1>2 DEF Stored
<1>7. Accounted(root.ran, Written, InCommit)
        => Accounted(root'.ran, Written', InCommit')
  BY <1>1, <1>4, <1>5, <1>6 DEF Accounted
<1> QED
  BY <1>1, <1>3, <1>7, NothingMissed

(* One more element.                                                       *)
LEMMA OneMore ==
    ASSUME NEW S, IsFiniteSet(S), NEW a
    PROVE  /\ IsFiniteSet(S \cup {a})
           /\ Cardinality(S \cup {a}) <= Cardinality(S) + 1
<1>1. /\ IsFiniteSet(S \cup {a})
      /\ Cardinality(S \cup {a}) = IF a \in S THEN Cardinality(S)
                                   ELSE Cardinality(S) + 1
  BY FS_AddElement, Zenon
<1>2. Cardinality(S) \in Nat
  BY FS_CardinalityType, Zenon
<1> QED
  BY <1>1, <1>2

(* Two more elements.                                                      *)
LEMMA TwoMore ==
    ASSUME NEW S, IsFiniteSet(S), NEW a, NEW b,
           NEW T, T \subseteq S \cup {a, b}
    PROVE  Cardinality(T) <= Cardinality(S) + 2
<1>1. /\ IsFiniteSet(S \cup {a})
      /\ Cardinality(S) \in Nat
      /\ Cardinality(S \cup {a}) <= Cardinality(S) + 1
  BY FS_CardinalityType, OneMore
<1>2. /\ IsFiniteSet((S \cup {a}) \cup {b})
      /\ Cardinality(S \cup {a}) \in Nat
      /\ Cardinality((S \cup {a}) \cup {b}) <= Cardinality(S \cup {a}) + 1
  BY <1>1, FS_CardinalityType, OneMore
<1>3. T \subseteq (S \cup {a}) \cup {b}
  OBVIOUS
<1>4. /\ Cardinality(T) <= Cardinality((S \cup {a}) \cup {b})
      /\ Cardinality(T) \in Nat
      /\ Cardinality((S \cup {a}) \cup {b}) \in Nat
  BY <1>2, <1>3, FS_Subset, FS_CardinalityType
<1> QED
  BY <1>1, <1>2, <1>4

(* A crash loses the block whose writing has not ended, and the one whose  *)
(* writing has not begun.                                                  *)
LEMMA CrashLost ==
    ASSUME IInv, IInv', LostOnlyByCrashes, Crash
    PROVE  LostOnlyByCrashes'
<1>1. /\ phase' = "begin" /\ adding' = {} /\ root' = root
      /\ history' \in {history, Written} /\ crashes' = crashes + 1
  BY DEF Crash, Down
<1>2. DOMAIN Written' = DOMAIN history'
  BY <1>1, WrittenFacts DEF Joined
<1>3. PICK a : DOMAIN Written \subseteq DOMAIN history \cup {a}
  <2>1. adding = {} \/ \E b \in adding : adding = {b}
    BY DEF IInv, DiskOK
  <2>2. CASE adding = {}
    BY <2>2, WrittenFacts DEF Joined
  <2>3. ASSUME NEW b, adding = {b}
        PROVE  DOMAIN Written \subseteq DOMAIN history \cup {b.info.Number}
    BY <2>3, WrittenFacts DEF Joined
  <2> QED
    BY <2>1, <2>2, <2>3
<1>4. DOMAIN Written \subseteq DOMAIN Written' \cup {a}
  BY <1>1, <1>2, <1>3
<1>5. PICK b : BeingWritten \subseteq {b}
  BY DEF BeingWritten
<1>6. Missing' \subseteq Missing \cup {a, b}
  BY <1>1, <1>4, <1>5 DEF Missing
<1>7. Cardinality(Missing') <= Cardinality(Missing) + 2
  BY <1>6, MissingFinite, TwoMore
<1>8. Cardinality(Missing) <= 2 * crashes
  BY LostParts
<1>9. Cardinality(Missing') \in Nat
  <2>1. IsFiniteSet(Missing \cup {a})
    BY MissingFinite, FS_AddElement, Zenon
  <2>2. IsFiniteSet((Missing \cup {a}) \cup {b})
    BY <2>1, FS_AddElement, Zenon
  <2>3. Missing' \subseteq (Missing \cup {a}) \cup {b}
    BY <1>6
  <2> QED
    BY <2>2, <2>3, FS_Subset, FS_CardinalityType, Zenon
<1>10. PICK p \in Nat, q \in Nat, c \in Nat :
          p = Cardinality(Missing) /\ q = Cardinality(Missing') /\ c = crashes
  BY <1>9, MissingFinite
<1>11. q <= 2 * (c + 1)
  BY <1>7, <1>8, <1>10
<1>12. Cardinality(Missing') <= 2 * crashes' /\ crashes' # 0
  BY <1>1, <1>10, <1>11
<1> QED
  BY <1>12, LostPartsNext

(* The other steps lose nothing.                                           *)
LEMMA NextLost ==
    ASSUME IInv, LostOnlyByCrashes, [Next]_vars
    PROVE  LostOnlyByCrashes'
<1>0. IInv'
  BY NextIInv
<1>1. CASE NextBlock
  <2>1. /\ phase = "begin" /\ phase' = "commit" /\ crashes' = crashes
        /\ UNCHANGED <<root, history, adding>>
    BY <1>1 DEF NextBlock, diskVars, faults
  <2>2. Written' = Written
    BY <2>1, SameDisk
  <2> QED
    BY <1>0, <2>1, <2>2, NothingMoved
<1>2. CASE CommitRoot
  BY <1>0, <1>2, CommitRootLost
<1>3. CASE AddBlock
  BY <1>0, <1>3, AddBlockLost
<1>4. CASE PublishNewBlock
  <2>1. /\ phase = "publish" /\ phase' = "execute" /\ crashes' = crashes
        /\ UNCHANGED <<root, history, adding>>
    BY <1>4 DEF PublishNewBlock, diskVars, faults
  <2>2. Written' = Written
    BY <2>1, SameDisk
  <2> QED
    BY <1>0, <2>1, <2>2, NothingMoved
<1>5. CASE StartPostCommit
  <2>1. /\ phase = "execute" /\ phase' = "begin" /\ crashes' = crashes
        /\ UNCHANGED <<root, history, adding>>
    BY <1>5 DEF StartPostCommit, diskVars, faults
  <2>2. Written' = Written
    BY <2>1, SameDisk
  <2> QED
    BY <1>0, <2>1, <2>2, NothingMoved
<1>6. CASE Flush
  <2>1. UNCHANGED <<root, phase, committed, prevBlkInfo, crashes>>
    BY <1>6 DEF Flush, blockVars, engineVars, faults
  <2> QED
    BY <1>0, <1>6, <2>1, FlushIInv, NothingMoved
<1>7. CASE PostCommit
  <2>1. /\ up /\ mtx /\ phase' = phase /\ crashes' = crashes
        /\ UNCHANGED <<root, history, adding>>
    BY <1>7 DEF PostCommit, diskVars, faults
  <2>2. Written' = Written
    BY <2>1, SameDisk
  <2>3. phase # "history"
    BY <2>1 DEF IInv, RunningOK
  <2> QED
    BY <1>0, <2>1, <2>2, <2>3, NothingMoved
<1>8. CASE Stop
  <2>1. /\ phase = "begin" /\ phase' = "begin" /\ crashes' = crashes
        /\ root' = root /\ adding' = {} /\ history' = Written
        /\ reloaded' = reloaded
    BY <1>8 DEF Stop, Down
  <2>2. /\ DOMAIN Written' = DOMAIN Written
        /\ \A k \in DOMAIN Written : Written'[k] = Written[k]
    BY <2>1, Closed DEF IInv
  <2> QED
    BY <1>0, <2>1, <2>2, NothingMoved
<1>9. CASE Crash
  BY <1>0, <1>9, CrashLost
<1>10. CASE Restart
  <2>1. ~up /\ crashes' = crashes /\ root' = root /\ phase' = phase
    BY <1>10 DEF Restart, diskVars
  <2>2. phase # "history"
    BY <2>1 DEF IInv, DownOK
  <2>3. Written' = Written
    BY <1>10, RestartIInv
  <2> QED
    BY <1>0, <2>1, <2>2, <2>3, NothingMoved
<1>11. CASE UNCHANGED vars
  <2>1. UNCHANGED <<root, history, adding, phase, committed, prevBlkInfo,
                    crashes>>
    BY <1>11 DEF vars, diskVars, blockVars, engineVars, faults
  <2>2. Written' = Written
    BY <2>1, SameDisk
  <2> QED
    BY <1>0, <2>1, <2>2, NothingMoved
<1> QED
  BY <1>1, <1>2, <1>3, <1>4, <1>5, <1>6, <1>7, <1>8, <1>9, <1>10, <1>11
     DEF Next, CommitStep

(* refresh: a crash leaves out of the history at most the block that Commit *)
(* had made durable and the block whose writing had not ended, and nothing *)
(* but a crash leaves one out; without crashes, what changed the state on  *)
(* disk is in the history.                                                 *)
THEOREM LostOnlyByCrashesHolds == Spec => []LostOnlyByCrashes
<1>1. Init => LostOnlyByCrashes
  <2> SUFFICES ASSUME Init PROVE LostOnlyByCrashes
    OBVIOUS
  <2>1. IInv
    BY InitIInv
  <2>2. /\ root.info = NoInfo /\ root.ran = {} /\ crashes = 0
    BY DEF Init
  <2>3. root.info.Number = 0
    BY <2>2, Numbers
  <2>4. Missing = {}
    BY <2>3 DEF Missing
  <2>5. Cardinality(Missing) <= 2 * crashes
    BY <2>2, <2>4, FS_EmptySet
  <2>6. Accounted(root.ran, Written, InCommit)
    BY <2>2 DEF Accounted, Live
  <2> QED
    BY <2>1, <2>5, <2>6, LostParts
<1>2. IInv /\ LostOnlyByCrashes /\ [Next]_vars => LostOnlyByCrashes'
  BY NextLost
<1> QED
  BY <1>1, <1>2, IInvHolds, PTL DEF Spec

-----------------------------------------------------------------------------
(* The stored blocks: the history is part of what is written.              *)
LEMMA HistoryOK ==
    ASSUME IInv
    PROVE  /\ DOMAIN history \subseteq 1 .. Len(Chain)
           /\ \A k \in DOMAIN history : BlockOK(history[k], k, reloaded)
           /\ \A k, l \in DOMAIN history :
                 k # l =>
                   ExecutedIn(history[k]) \cap ExecutedIn(history[l]) = {}
<1>1. /\ DOMAIN history \subseteq DOMAIN Written
      /\ \A k \in DOMAIN history : Written[k] = history[k]
  BY WrittenFacts DEF Joined
<1>2. StoreOK(Written, Top - 1, Live(root.standby), reloaded)
  BY DEF IInv, DiskOK
<1>3. DOMAIN Written \subseteq 1 .. Len(Chain)
  <2>1. DOMAIN Written \subseteq 1 .. Top - 1 /\ Top \in 0 .. Len(Chain)
    BY <1>2 DEF StoreOK, IInv, DiskOK
  <2> QED
    BY <2>1, ChainFacts
<1> QED
  BY <1>1, <1>2, <1>3 DEF StoreOK

(* A height is its own 32-bit word.                                        *)
LEMMA Uint32OfHeight ==
    ASSUME NEW k \in 1 .. Len(Chain)
    PROVE  uint32(k) = k
<1>1. k \in Nat /\ Word32 \in Nat /\ k < Word32
  BY ApiAssumption, ChainFacts
<1> QED
  BY <1>1 DEF uint32

(* A transaction of the history has one place in it.                       *)
LEMMA OnePlace ==
    ASSUME IInv, NEW x, NEW t \in GetTransaction(x)
    PROVE  /\ GetTransaction(x) = {t}
           /\ \E k \in DOMAIN history : \E j \in 1 .. Len(history[k].txs) :
                 t = history[k].txs[j] /\ t.tx = x
<1>1. ASSUME NEW u \in GetTransaction(x)
      PROVE  \E k \in DOMAIN history : \E j \in 1 .. Len(history[k].txs) :
                u = history[k].txs[j] /\ u.tx = x
  <2>1. PICK b \in Range(history) : u \in ToSet(b.txs) /\ u.tx = x
    BY DEF GetTransaction
  <2>2. PICK k \in DOMAIN history : b = history[k]
    BY <2>1 DEF Range
  <2>3. DOMAIN b.txs = 1 .. Len(b.txs)
    BY <2>2, HistoryOK DEF BlockOK
  <2> QED
    BY <2>1, <2>2, <2>3 DEF ToSet
<1>2. ASSUME NEW u \in GetTransaction(x), NEW v \in GetTransaction(x)
      PROVE  u = v
  <2>1. PICK k \in DOMAIN history : \E j \in 1 .. Len(history[k].txs) :
                u = history[k].txs[j] /\ u.tx = x
    BY <1>1
  <2>2. PICK i \in 1 .. Len(history[k].txs) :
                u = history[k].txs[i] /\ u.tx = x
    BY <2>1
  <2>3. PICK l \in DOMAIN history : \E j \in 1 .. Len(history[l].txs) :
                v = history[l].txs[j] /\ v.tx = x
    BY <1>1
  <2>4. PICK j \in 1 .. Len(history[l].txs) :
                v = history[l].txs[j] /\ v.tx = x
    BY <2>3
  <2>5. BlockOK(history[k], k, reloaded) /\ BlockOK(history[l], l, reloaded)
    BY HistoryOK
  <2>6. x \in ExecutedIn(history[k]) /\ x \in ExecutedIn(history[l])
    BY <2>2, <2>4, <2>5 DEF ExecutedIn, BlockOK
  <2>7. k = l
    BY <2>6, HistoryOK
  <2>8. i = j
    BY <2>2, <2>4, <2>5, <2>7 DEF BlockOK
  <2> QED
    BY <2>2, <2>4, <2>7, <2>8
<1> QED
  BY <1>1, <1>2

(* The requests by number and by hash find the block.                      *)
LEMMA BlockFound ==
    ASSUME IInv, NEW k \in DOMAIN history
    PROVE  /\ getBlockByNum(k) = {history[k]}
           /\ BlockByHash(Chain[k].Hash) = {history[k]}
           /\ GetTxListByHeight(uint32(k)) = history[k].txs
           /\ Resolved(k) = k
<1>1. k \in 1 .. Len(Chain) /\ k \in Nat /\ k > 0 /\ k # -1
  BY HistoryOK, ChainFacts
<1>2. getBlockByNum(k) = {history[k]}
  BY <1>1 DEF getBlockByNum, BlockByNumber
<1>3. uint32(k) = k
  BY <1>1, Uint32OfHeight
<1>4. GetTxListByHeight(uint32(k)) = history[k].txs
  BY <1>3 DEF GetTxListByHeight
<1>5. Resolved(k) = k
  BY <1>1 DEF Resolved, LatestBlockNumber
<1>6. \A l \in DOMAIN history : history[l].info.Hash = Chain[l].Hash
  BY HistoryOK, Numbers DEF BlockOK
<1>7. \A l \in DOMAIN history : Chain[l].Hash = Chain[k].Hash => l = k
  BY HistoryOK, ChainFacts, ApiAssumption
<1>8. BlockByHash(Chain[k].Hash) = {history[k]}
  BY <1>6, <1>7 DEF BlockByHash, Range
<1> QED
  BY <1>2, <1>4, <1>5, <1>8

(* The parts of an answer.                                                 *)
LEMMA Answers ==
    /\ \A t : /\ txToReceiptRpcResp(t).blockNumber = t.BlockNumber
              /\ txToReceiptRpcResp(t).transactionIndex = t.TransactionIndex
              /\ txToReceiptRpcResp(t).blockHash = t.BlockHash
    /\ \A b, txs : /\ blockToRpcResp(b, txs).number = b.info.Number
                   /\ blockToRpcResp(b, txs).hash = b.info.Hash
                   /\ blockToRpcResp(b, txs).transactions =
                         IF txs # <<>> THEN txsToRpcResp(txs)
                         ELSE [i \in 1 .. Len(b.txs) |-> b.txs[i].tx]
BY DEF txToReceiptRpcResp, blockToRpcResp

(* Whatever crashes and restarts there were, a transaction has one place:  *)
(* the receipt names the block that lists it at the receipt's index, and   *)
(* all requests for it return the same. The block hash in it is that of    *)
(* the block, or zero where the process was restarted at that height.      *)
THEOREM ReceiptInItsBlockHolds == Spec => []ReceiptInItsBlock
<1>1. IInv => ReceiptInItsBlock
  <2> SUFFICES ASSUME IInv, NEW x \in Txs, NEW r \in GetTransactionReceipt(x)
               PROVE  /\ Cardinality(GetTransactionReceipt(x)) = 1
                      /\ \E b \in GetBlockByNumber(r.blockNumber, FALSE) :
                            /\ b.number = r.blockNumber
                            /\ b.transactions[r.transactionIndex + 1] = x
                            /\ \/ r.blockHash = b.hash
                               \/ r.blockHash = 0 /\ r.blockNumber \in reloaded
                      /\ GetTransactionByBlockNumberAndIndex(r.blockNumber,
                            r.transactionIndex) = GetTransactionByHash(x)
                      /\ GetTransactionByBlockHashAndIndex(
                            Chain[r.blockNumber].Hash, r.transactionIndex)
                            = GetTransactionByHash(x)
                      /\ \A b \in GetBlockByHash(Chain[r.blockNumber].Hash,
                                                 TRUE) :
                            {b.transactions[r.transactionIndex + 1]}
                               = GetTransactionByHash(x)
                      /\ sbchGetTxListByHeight(r.blockNumber)[
                            r.transactionIndex + 1] = r
                      /\ \A c \in GetBlockTransactionCountByHash(
                                     Chain[r.blockNumber].Hash)
                                  \cup GetBlockTransactionCountByNumber(
                                     r.blockNumber) :
                            r.transactionIndex < c
    BY Zenon DEF ReceiptInItsBlock
  <2>1. PICK t \in GetTransaction(x) : r = txToReceiptRpcResp(t)
    BY DEF GetTransactionReceipt
  <2>2. GetTransaction(x) = {t}
    BY OnePlace, Zenon
  <2>3. PICK k \in DOMAIN history : \E j \in 1 .. Len(history[k].txs) :
           t = history[k].txs[j] /\ t.tx = x
    BY OnePlace, Zenon
  <2>4. PICK j \in 1 .. Len(history[k].txs) :
           t = history[k].txs[j] /\ t.tx = x
    BY <2>3, Zenon
  <2>5. PICK B : B = history[k]
    OBVIOUS
  <2>6. /\ B.info = Header(k) /\ Len(B.txs) \in Nat
        /\ DOMAIN B.txs = 1 .. Len(B.txs)
        /\ PlaceOK(t, j, k, reloaded)
    <3>1. BlockOK(B, k, reloaded)
      BY <2>5, HistoryOK
    <3> QED
      BY <3>1, <2>4, <2>5 DEF BlockOK
  <2>7. PICK l \in Nat : l = Len(B.txs) /\ j \in 1 .. l
    BY <2>4, <2>5, <2>6
  <2>8. PICK i \in Nat : i = j - 1 /\ i + 1 = j /\ i < l
    BY <2>7
  <2>9. /\ r.blockNumber = k /\ r.transactionIndex = i
        /\ r.blockHash = t.BlockHash
    BY <2>1, <2>6, <2>8, Answers DEF PlaceOK
  <2>10. /\ getBlockByNum(k) = {B} /\ BlockByHash(Chain[k].Hash) = {B}
         /\ GetTxListByHeight(uint32(k)) = B.txs /\ Resolved(k) = k
    BY <2>5, BlockFound
  <2>11. B.txs[i + 1] = t
    BY <2>4, <2>5, <2>8
  <2>12. /\ B.info.Number = k /\ B.info.Hash = Chain[k].Hash
    BY <2>6, Numbers
  <2>13. GetTransactionByHash(x) = {txToRpcResp(t)}
    BY <2>2 DEF GetTransactionByHash
  <2>14. Cardinality(GetTransactionReceipt(x)) = 1
    <3>1. GetTransactionReceipt(x) = {r}
      BY <2>1, <2>2 DEF GetTransactionReceipt
    <3> QED
      BY <3>1, FS_Singleton
  <2>15. \E b \in GetBlockByNumber(k, FALSE) :
            /\ b.number = k
            /\ b.transactions[i + 1] = x
            /\ \/ r.blockHash = b.hash
               \/ r.blockHash = 0 /\ k \in reloaded
    <3>1. PICK b : b = blockToRpcResp(B, <<>>)
      OBVIOUS
    <3>2. b \in GetBlockByNumber(k, FALSE)
      BY <2>10, <3>1 DEF GetBlockByNumber, FullTxs
    <3>3. /\ b.number = k /\ b.hash = Chain[k].Hash
          /\ b.transactions = [m \in 1 .. l |-> B.txs[m].tx]
      BY <3>1, <2>7, <2>12, Answers
    <3>4. b.transactions[i + 1] = x
      BY <3>3, <2>4, <2>7, <2>8, <2>11
    <3>5. r.blockHash = b.hash \/ (r.blockHash = 0 /\ k \in reloaded)
      BY <3>3, <2>6, <2>9 DEF PlaceOK
    <3> QED
      BY <3>2, <3>3, <3>4, <3>5
  <2>16. getTxByIdx(B, i) = {txToRpcResp(t)}
    <3>1. ~(i >= Len(B.txs))
      BY <2>7, <2>8
    <3>2. GetTransaction(B.txs[i + 1].tx) = {t}
      BY <2>2, <2>4, <2>11
    <3> QED
      BY <3>1, <3>2 DEF getTxByIdx
  <2>17. /\ GetTransactionByBlockNumberAndIndex(k, i) = {txToRpcResp(t)}
         /\ GetTransactionByBlockHashAndIndex(Chain[k].Hash, i)
               = {txToRpcResp(t)}
    BY <2>10, <2>16 DEF GetTransactionByBlockNumberAndIndex,
                        GetTransactionByBlockHashAndIndex
  <2>18. ASSUME NEW b \in GetBlockByHash(Chain[k].Hash, TRUE)
         PROVE  {b.transactions[i + 1]} = {txToRpcResp(t)}
    <3>1. b = blockToRpcResp(B, FullTxs(B, TRUE))
      BY <2>10 DEF GetBlockByHash
    <3>2. FullTxs(B, TRUE) = B.txs
      BY <2>10, <2>12 DEF FullTxs
    <3>3. B.txs # <<>>
      <4>1. 1 \in DOMAIN B.txs
        BY <2>6, <2>7
      <4>2. DOMAIN <<>> = {}
        OBVIOUS
      <4> QED
        BY <4>1, <4>2, Zenon
    <3>4. b.transactions = txsToRpcResp(B.txs)
      <4>1. b.transactions = IF B.txs # <<>> THEN txsToRpcResp(B.txs)
                 ELSE [m \in 1 .. Len(B.txs) |-> B.txs[m].tx]
        <5>1. blockToRpcResp(B, B.txs).transactions =
                 IF B.txs # <<>> THEN txsToRpcResp(B.txs)
                 ELSE [m \in 1 .. Len(B.txs) |-> B.txs[m].tx]
          BY DEF blockToRpcResp
        <5> QED
          BY <5>1, <3>1, <3>2, Zenon
      <4> QED
        BY <4>1, <3>3, Zenon
    <3>5. i + 1 \in 1 .. Len(B.txs)
      BY <2>7, <2>8
    <3>6. b.transactions[i + 1] = txToRpcResp(t)
      BY <3>4, <3>5, <2>11 DEF txsToRpcResp
    <3> QED
      BY <3>6
  <2>19. sbchGetTxListByHeight(k)[i + 1] = r
    <3>1. sbchGetTxListByHeight(k)
            = [m \in 1 .. Len(B.txs) |-> txToReceiptRpcResp(B.txs[m])]
      BY <2>10 DEF sbchGetTxListByHeight
    <3>2. i + 1 \in 1 .. Len(B.txs)
      BY <2>7, <2>8
    <3> QED
      BY <3>1, <3>2, <2>1, <2>11
  <2>20. \A c \in GetBlockTransactionCountByHash(Chain[k].Hash)
                  \cup GetBlockTransactionCountByNumber(k) : i < c
    BY <2>7, <2>8, <2>10 DEF GetBlockTransactionCountByHash,
                             GetBlockTransactionCountByNumber
  <2> QED
    BY <2>9, <2>13, <2>14, <2>15, <2>17, <2>18, <2>19, <2>20, Zenon
<1> QED
  BY <1>1, IInvHolds, PTL

-----------------------------------------------------------------------------
(* FlattenSeq. Its table of the first parts put together, and what is in   *)
(* such a part: every element comes from one of the sequences, in order,   *)
(* and none is left out.                                                   *)
FlattenTable(s, f) ==
    f = [i \in 1 .. Len(s) |-> IF i = 1 THEN s[i] ELSE f[i - 1] \o s[i]]

InOrder(p, n) == \A j, k \in 1 .. n : j <= k => p[j] <= p[k]

Located(s, flat, p) ==
    /\ InOrder(p, Len(flat))
    /\ \A j \in 1 .. Len(flat) :
          \E k \in 1 .. Len(s[p[j]]) : flat[j] = s[p[j]][k]

Complete(s, flat, n) ==
    \A i \in 1 .. n : \A k \in 1 .. Len(s[i]) :
        \E j \in 1 .. Len(flat) : flat[j] = s[i][k]

Gathered(s, flat, n) ==
    /\ \E p \in [1 .. Len(flat) -> 1 .. n] : Located(s, flat, p)
    /\ Complete(s, flat, n)

(* The table exists.                                                       *)
LEMMA FlattenTableExists ==
    ASSUME NEW S, NEW s \in Seq(Seq(S))
    PROVE  \E f \in [1 .. Len(s) -> Seq(S)] : FlattenTable(s, f)
<1> DEFINE Entry(f, i) == IF i = 1 THEN s[i] ELSE f[i - 1] \o s[i]
           T == {n \in 0 .. Len(s) :
                   \E f \in [1 .. n -> Seq(S)] :
                      \A i \in 1 .. n : f[i] = Entry(f, i)}
<1>1. Len(s) \in Nat /\ \A i \in 1 .. Len(s) : s[i] \in Seq(S)
  OBVIOUS
<1>2. 0 \in T
  <2> DEFINE none == [i \in 1 .. 0 |-> <<>>]
  <2>1. none \in [1 .. 0 -> Seq(S)]
    OBVIOUS
  <2>2. \A i \in 1 .. 0 : none[i] = Entry(none, i)
    OBVIOUS
  <2> HIDE DEF none
  <2>3. 0 \in 0 .. Len(s)
    BY <1>1
  <2>4. \E f \in [1 .. 0 -> Seq(S)] : \A i \in 1 .. 0 : f[i] = Entry(f, i)
    <3> HIDE DEF Entry
    <3> QED
      BY <2>1, <2>2, Zenon
  <2> QED
    BY <2>3, <2>4
<1>3. ASSUME NEW n \in 0 .. Len(s), n \in T, n < Len(s)
      PROVE  n + 1 \in T
  <2>1. PICK f \in [1 .. n -> Seq(S)] : \A i \in 1 .. n : f[i] = Entry(f, i)
    BY <1>3
  <2> DEFINE last == Entry(f, n + 1)
             g == [i \in 1 .. n + 1 |-> IF i = n + 1 THEN last ELSE f[i]]
  <2>2. last \in Seq(S)
    <3>1. CASE n = 0
      BY <1>1, <1>3, <3>1
    <3>2. CASE n # 0
      <4>1. f[n] \in Seq(S) /\ s[n + 1] \in Seq(S)
        BY <1>1, <1>3, <3>2
      <4>2. f[n] \o s[n + 1] \in Seq(S)
        BY <4>1
      <4>3. n + 1 # 1 /\ (n + 1) - 1 = n
        BY <3>2
      <4>4. last = f[n] \o s[n + 1]
        BY <4>3, Zenon
      <4> QED
        BY <4>2, <4>4
    <3> QED
      BY <3>1, <3>2
  <2>3. g \in [1 .. n + 1 -> Seq(S)]
    <3> HIDE DEF last
    <3> QED
      BY <2>2
  <2>4. ASSUME NEW i \in 1 .. n + 1
        PROVE  g[i] = Entry(g, i)
    <3>1. CASE i = n + 1
      <4>1. g[i] = last
        BY <3>1
      <4>2. n # 0 => g[n] = f[n]
        BY <1>3
      <4> QED
        BY <1>3, <3>1, <4>1, <4>2
    <3>2. CASE i # n + 1
      <4>1. i \in 1 .. n /\ g[i] = f[i]
        BY <1>3, <3>2
      <4>2. i # 1 => g[i - 1] = f[i - 1]
        BY <1>3, <4>1
      <4> QED
        BY <2>1, <4>1, <4>2
    <3> QED
      BY <3>1, <3>2
  <2>5. n + 1 \in 0 .. Len(s)
    BY <1>1, <1>3
  <2> HIDE DEF g
  <2> QED
    BY <2>3, <2>4, <2>5
<1> HIDE DEF T
<1>4. Len(s) \in T
  <2>1. 0 .. Len(s) \subseteq T
    BY <1>1, <1>2, <1>3, IntervalInduction
  <2> QED
    BY <1>1, <2>1
<1>5. PICK f \in [1 .. Len(s) -> Seq(S)] :
          \A i \in 1 .. Len(s) : f[i] = Entry(f, i)
  BY <1>4 DEF T
<1>6. f = [i \in 1 .. Len(s) |-> Entry(f, i)]
  BY <1>5
<1> QED
  BY <1>6 DEF FlattenTable

(* It is the one that FlattenSeq reads.                                    *)
LEMMA FlattenRead ==
    ASSUME NEW s, NEW f, FlattenTable(s, f), Len(s) # 0
    PROVE  \E g : FlattenTable(s, g) /\ FlattenSeq(s) = g[Len(s)]
<1> DEFINE g == CHOOSE h : h = [i \in 1 .. Len(s) |->
                                  IF i = 1 THEN s[i] ELSE h[i - 1] \o s[i]]
<1>1. FlattenTable(s, g)
  BY DEF FlattenTable
<1>2. FlattenSeq(s) = g[Len(s)]
  BY DEF FlattenSeq
<1> QED
  BY <1>1, <1>2

(* One sequence more.                                                      *)
LEMMA GatheredMore ==
    ASSUME NEW S, NEW s \in Seq(Seq(S)), NEW n \in Nat, n < Len(s),
           NEW flat \in Seq(S), Gathered(s, flat, n)
    PROVE  Gathered(s, flat \o s[n + 1], n + 1)
<1> DEFINE t == s[n + 1]
           more == flat \o t
           l == Len(flat)
<1>1. t \in Seq(S) /\ Len(t) \in Nat /\ l \in Nat
  OBVIOUS
<1>2. PICK p \in [1 .. l -> 1 .. n] : Located(s, flat, p)
  BY DEF Gathered
<1> DEFINE q == [j \in 1 .. l + Len(t) |-> IF j <= l THEN p[j] ELSE n + 1]
<1>3. /\ Len(more) = l + Len(t)
      /\ \A j \in 1 .. l : more[j] = flat[j]
      /\ \A j \in 1 .. Len(t) : more[l + j] = t[j]
  BY <1>1
<1>4. \A j \in 1 .. l + Len(t) : ~(j <= l) => j - l \in 1 .. Len(t)
  BY <1>1
<1> HIDE DEF more, l
<1>5. q \in [1 .. Len(more) -> 1 .. n + 1]
  BY <1>1, <1>3
<1>6. InOrder(q, Len(more))
  <2>1. SUFFICES ASSUME NEW j \in 1 .. Len(more), NEW k \in 1 .. Len(more),
                        j <= k
                 PROVE  q[j] <= q[k]
    BY DEF InOrder
  <2>2. q[j] \in 1 .. n + 1
    BY <1>5
  <2>3. CASE k <= l
    <3>1. j \in 1 .. l /\ k \in 1 .. l
      BY <1>1, <2>1, <2>3
    <3>2. q[j] = p[j] /\ q[k] = p[k]
      BY <1>1, <1>3, <2>3, <3>1
    <3> HIDE DEF q
    <3> QED
      BY <1>2, <2>1, <3>1, <3>2 DEF Located, InOrder, l
  <2>4. CASE ~(k <= l)
    <3>1. q[k] = n + 1
      BY <1>3, <2>4
    <3> HIDE DEF q
    <3> QED
      BY <2>2, <3>1
  <2> QED
    BY <2>3, <2>4
<1>7. ASSUME NEW j \in 1 .. Len(more)
      PROVE  \E k \in 1 .. Len(s[q[j]]) : more[j] = s[q[j]][k]
  <2>1. CASE j <= l
    <3>1. j \in 1 .. l
      BY <1>1, <1>3, <2>1
    <3>2. more[j] = flat[j]
      BY <1>3, <3>1, Zenon
    <3>3. j \in 1 .. l + Len(t)
      BY <1>3
    <3>4. q[j] = p[j]
      BY <2>1, <3>3, Zenon
    <3> HIDE DEF q
    <3> QED
      BY <1>2, <3>1, <3>2, <3>4 DEF Located, l
  <2>2. CASE ~(j <= l)
    <3>1. q[j] = n + 1 /\ j - l \in 1 .. Len(t)
      BY <1>3, <1>4, <2>2
    <3>2. more[l + (j - l)] = t[j - l]
      BY <1>3, <3>1
    <3>3. l + (j - l) = j
      BY <1>1
    <3> HIDE DEF q
    <3> QED
      BY <3>1, <3>2, <3>3
  <2> QED
    BY <2>1, <2>2
<1>8. Located(s, more, q)
  BY <1>6, <1>7 DEF Located
<1>9. Complete(s, more, n + 1)
  <2>1. SUFFICES ASSUME NEW i \in 1 .. n + 1, NEW k \in 1 .. Len(s[i])
                 PROVE  \E j \in 1 .. Len(more) : more[j] = s[i][k]
    BY DEF Complete
  <2>2. CASE i = n + 1
    <3>1. l + k \in 1 .. Len(more) /\ more[l + k] = t[k]
      BY <1>1, <1>3, <2>2
    <3> QED
      BY <2>2, <3>1
  <2>3. CASE i # n + 1
    <3>1. i \in 1 .. n
      BY <2>3
    <3>2. PICK j \in 1 .. l : flat[j] = s[i][k]
      BY <3>1 DEF Gathered, Complete, l
    <3>3. more[j] = flat[j]
      BY <1>3, Zenon
    <3> HIDE DEF t, q
    <3>4. j \in 1 .. Len(more)
      BY <1>1, <1>3
    <3> QED
      BY <3>2, <3>3, <3>4
  <2> QED
    BY <2>2, <2>3
<1> HIDE DEF q
<1>10. Gathered(s, more, n + 1)
  BY <1>5, <1>8, <1>9 DEF Gathered
<1> QED
  BY <1>10 DEF more

(* What FlattenSeq returns.                                                *)
LEMMA Flattened ==
    ASSUME NEW S, NEW s \in Seq(Seq(S))
    PROVE  FlattenSeq(s) \in Seq(S) /\ Gathered(s, FlattenSeq(s), Len(s))
<1>1. Len(s) \in Nat /\ \A i \in 1 .. Len(s) : s[i] \in Seq(S)
  OBVIOUS
<1>2. CASE Len(s) = 0
  <2>1. s = <<>>
    BY <1>2
  <2>2. FlattenSeq(s) = <<>>
    BY <1>2, <2>1 DEF FlattenSeq
  <2>3. <<>> \in Seq(S) /\ Len(<<>>) = 0
    OBVIOUS
  <2> DEFINE p == [j \in 1 .. 0 |-> 0]
  <2>4. p \in [1 .. Len(<<>>) -> 1 .. 0]
    BY <2>3
  <2>5. Located(s, <<>>, p)
    BY <2>3 DEF Located, InOrder
  <2> HIDE DEF p
  <2>6. Complete(s, <<>>, 0)
    BY DEF Complete
  <2>7. Gathered(s, <<>>, 0)
    BY <2>4, <2>5, <2>6 DEF Gathered
  <2> QED
    BY <1>2, <2>2, <2>3, <2>7
<1>3. CASE Len(s) # 0
  <2>1. PICK f \in [1 .. Len(s) -> Seq(S)] : FlattenTable(s, f)
    BY FlattenTableExists
  <2>2. PICK g : FlattenTable(s, g) /\ FlattenSeq(s) = g[Len(s)]
    BY <1>3, <2>1, FlattenRead
  <2>3. \A i \in 1 .. Len(s) : g[i] = IF i = 1 THEN s[i] ELSE g[i - 1] \o s[i]
    BY <2>2 DEF FlattenTable
  <2> DEFINE T == {n \in 0 .. Len(s) :
                     n # 0 => g[n] \in Seq(S) /\ Gathered(s, g[n], n)}
  <2>4. 0 \in T
    BY <1>1
  <2>5. ASSUME NEW n \in 0 .. Len(s), n \in T, n < Len(s)
        PROVE  n + 1 \in T
    <3>1. n + 1 \in 1 .. Len(s) /\ n + 1 \in 0 .. Len(s)
      BY <1>1, <2>5
    <3>2. CASE n = 0
      <4>0. 1 \in 1 .. Len(s)
        BY <3>1, <3>2
      <4>1. g[1] = s[1] /\ 1 \in 1 .. Len(s)
        BY <2>3, <4>0, Zenon
      <4>2. Gathered(s, s[1], 1)
        <5>1. s[1] \in Seq(S)
          BY <1>1, <4>1
        <5>2. Len(s[1]) \in Nat
          BY <5>1
        <5> DEFINE p == [j \in 1 .. Len(s[1]) |-> 1]
        <5>3. p \in [1 .. Len(s[1]) -> 1 .. 1]
          OBVIOUS
        <5>4. Located(s, s[1], p)
          <6>1. \A j \in 1 .. Len(s[1]) : p[j] = 1
            OBVIOUS
          <6> HIDE DEF p
          <6>2. InOrder(p, Len(s[1]))
            BY <6>1 DEF InOrder
          <6>3. ASSUME NEW j \in 1 .. Len(s[1])
                PROVE  \E k \in 1 .. Len(s[p[j]]) : s[1][j] = s[p[j]][k]
            BY <6>1, Zenon
          <6> QED
            BY <6>2, <6>3, Zenon DEF Located
        <5>5. Complete(s, s[1], 1)
          BY DEF Complete
        <5> HIDE DEF p
        <5> QED
          BY <5>3, <5>4, <5>5 DEF Gathered
      <4>3. s[1] \in Seq(S)
        BY <1>1, <4>1
      <4> QED
        BY <3>1, <3>2, <4>1, <4>2, <4>3
    <3>3. CASE n # 0
      <4>1. g[n] \in Seq(S) /\ Gathered(s, g[n], n)
        BY <2>5, <3>3
      <4>2. n + 1 # 1 /\ (n + 1) - 1 = n
        BY <3>3
      <4>3. g[n + 1] = g[n] \o s[n + 1]
        BY <2>3, <3>1, <4>2, Zenon
      <4>4. n \in Nat
        OBVIOUS
      <4>5. Gathered(s, g[n + 1], n + 1)
        BY <2>5, <4>1, <4>3, <4>4, GatheredMore
      <4>6. g[n + 1] \in Seq(S)
        BY <1>1, <3>1, <4>1, <4>3
      <4> QED
        BY <3>1, <4>5, <4>6
    <3> QED
      BY <3>2, <3>3
  <2> HIDE DEF T
  <2>6. 0 .. Len(s) \subseteq T
    BY <1>1, <2>4, <2>5, IntervalInduction
  <2>7. Len(s) \in T
    BY <1>1, <2>6
  <2> QED
    BY <1>3, <2>2, <2>7 DEF T
<1> QED
  BY <1>2, <1>3

(* A sequence cut into single elements and put together again.             *)
LEMMA FlattenedOnes ==
    ASSUME NEW S, NEW e \in Seq(S), NEW s,
           s = [i \in 1 .. Len(e) |-> <<e[i]>>]
    PROVE  FlattenSeq(s) = e
<1>1. Len(e) \in Nat /\ \A i \in 1 .. Len(e) : e[i] \in S
  OBVIOUS
<1>2. s \in Seq(Seq(S)) /\ Len(s) = Len(e)
  BY <1>1
<1>3. \A i \in 1 .. Len(e) : s[i] = <<e[i]>>
  OBVIOUS
<1>4. CASE Len(e) = 0
  <2>1. s = <<>> /\ e = <<>>
    BY <1>2, <1>4
  <2> QED
    BY <1>2, <1>4, <2>1 DEF FlattenSeq
<1>5. CASE Len(e) # 0
  <2>1. PICK f \in [1 .. Len(s) -> Seq(S)] : FlattenTable(s, f)
    BY <1>2, FlattenTableExists
  <2>2. PICK g : FlattenTable(s, g) /\ FlattenSeq(s) = g[Len(s)]
    BY <1>2, <1>5, <2>1, FlattenRead
  <2>3. \A i \in 1 .. Len(e) : g[i] = IF i = 1 THEN s[i] ELSE g[i - 1] \o s[i]
    BY <1>2, <2>2 DEF FlattenTable
  <2> DEFINE Prefix(q, n) == /\ q \in Seq(S) /\ Len(q) = n
                             /\ \A i \in 1 .. n : q[i] = e[i]
             T == {n \in 0 .. Len(e) : n # 0 => Prefix(g[n], n)}
  <2>4. 0 \in T
    BY <1>1
  <2>5. ASSUME NEW n \in 0 .. Len(e), n \in T, n < Len(e)
        PROVE  n + 1 \in T
    <3>1. n + 1 \in 1 .. Len(e) /\ n + 1 \in 0 .. Len(e)
      BY <1>1, <2>5
    <3>2. CASE n = 0
      <4>1. g[1] = <<e[1]>> /\ 1 \in 1 .. Len(e)
        BY <1>3, <2>3, <3>1, <3>2
      <4>2. Prefix(g[1], 1)
        BY <1>1, <4>1
      <4> QED
        BY <3>1, <3>2, <4>2
    <3>3. CASE n # 0
      <4>1. Prefix(g[n], n)
        BY <2>5, <3>3
      <4>2. n + 1 # 1 /\ (n + 1) - 1 = n
        BY <3>3
      <4>3. g[n + 1] = g[n] \o <<e[n + 1]>>
        BY <1>3, <2>3, <3>1, <4>2, Zenon
      <4>4. Prefix(g[n + 1], n + 1)
        BY <1>1, <3>1, <4>1, <4>3
      <4> QED
        BY <3>1, <4>4
    <3> QED
      BY <3>2, <3>3
  <2> HIDE DEF T
  <2>6. 0 .. Len(e) \subseteq T
    BY <1>1, <2>4, <2>5, IntervalInduction
  <2>7. Len(e) \in T
    BY <1>1, <2>6
  <2>8. Prefix(g[Len(e)], Len(e))
    BY <1>5, <2>7 DEF T
  <2>9. g[Len(e)] = e
    BY <1>1, <2>8
  <2> QED
    BY <1>2, <2>2, <2>9
<1> QED
  BY <1>4, <1>5

(* One sequence is itself.                                                 *)
LEMMA FlattenedOne ==
    ASSUME NEW S, NEW q \in Seq(S)
    PROVE  FlattenSeq(<<q>>) = q
<1> DEFINE s == <<q>>
<1>1. s \in Seq(Seq(S)) /\ Len(s) = 1 /\ s[1] = q
  OBVIOUS
<1> HIDE DEF s
<1>2. PICK f \in [1 .. Len(s) -> Seq(S)] : FlattenTable(s, f)
  BY <1>1, FlattenTableExists
<1>2a. Len(s) # 0
  BY <1>1
<1>3. PICK g : FlattenTable(s, g) /\ FlattenSeq(s) = g[Len(s)]
  BY <1>2, <1>2a, FlattenRead, Zenon
<1>4. g[1] = s[1]
  BY <1>1, <1>3 DEF FlattenTable
<1> QED
  BY <1>1, <1>3, <1>4 DEF s

(* The elements of a sequence.                                             *)
LEMMA ElementsOf ==
    ASSUME NEW S, NEW q \in Seq(S)
    PROVE  ToSet(q) = {q[i] : i \in 1 .. Len(q)}
<1>1. DOMAIN q = 1 .. Len(q)
  BY LenProperties
<1> QED
  BY <1>1, Zenon DEF ToSet

(* The elements of sequences put together.                                 *)
LEMMA FlattenedSet ==
    ASSUME NEW S, NEW s \in Seq(Seq(S))
    PROVE  ToSet(FlattenSeq(s)) = UNION {ToSet(s[i]) : i \in 1 .. Len(s)}
<1>1. PICK flat \in Seq(S) : flat = FlattenSeq(s) /\ Gathered(s, flat, Len(s))
  BY Flattened
<1>2. Len(s) \in Nat /\ \A i \in 1 .. Len(s) : s[i] \in Seq(S)
  OBVIOUS
<1>3. /\ \A i \in 1 .. Len(s) : ToSet(s[i]) = {s[i][k] : k \in 1 .. Len(s[i])}
      /\ ToSet(flat) = {flat[j] : j \in 1 .. Len(flat)}
  BY <1>2, ElementsOf, Zenon
<1>4. ASSUME NEW j \in 1 .. Len(flat)
      PROVE  \E i \in 1 .. Len(s) : flat[j] \in ToSet(s[i])
  <2>1. PICK p \in [1 .. Len(flat) -> 1 .. Len(s)] : Located(s, flat, p)
    BY <1>1 DEF Gathered
  <2>2. p[j] \in 1 .. Len(s)
    BY <2>1
  <2>3. PICK k \in 1 .. Len(s[p[j]]) : flat[j] = s[p[j]][k]
    BY <2>1 DEF Located
  <2> QED
    BY <1>3, <2>2, <2>3
<1>5. ASSUME NEW i \in 1 .. Len(s), NEW x \in ToSet(s[i])
      PROVE  x \in ToSet(flat)
  <2>1. PICK k \in 1 .. Len(s[i]) : x = s[i][k]
    BY <1>3
  <2>2. PICK j \in 1 .. Len(flat) : flat[j] = s[i][k]
    BY <1>1 DEF Gathered, Complete
  <2> QED
    BY <1>3, <2>1, <2>2
<1>6. \A x \in ToSet(flat) : \E i \in 1 .. Len(s) : x \in ToSet(s[i])
  BY <1>3, <1>4
<1>7. ToSet(flat) = UNION {ToSet(s[i]) : i \in 1 .. Len(s)}
  BY <1>5, <1>6, Zenon
<1> QED
  BY <1>1, <1>7

(* What a selection keeps.                                                 *)
LEMMA SelectedFacts ==
    ASSUME NEW E, NEW s \in Seq(E), NEW S
    PROVE  /\ Selected(s, S) \in Seq(E)
           /\ ToSet(Selected(s, S)) = ToSet(s) \cap S
<1> DEFINE parts == [i \in 1 .. Len(s) |->
                        IF s[i] \in S THEN <<s[i]>> ELSE <<>>]
<1>1. Len(s) \in Nat /\ \A i \in 1 .. Len(s) : s[i] \in E
  OBVIOUS
<1>2. \A i \in 1 .. Len(s) : <<s[i]>> \in Seq(E) /\ <<>> \in Seq(E)
  BY <1>1
<1>3. parts \in Seq(Seq(E)) /\ Len(parts) = Len(s)
  BY <1>1, <1>2
<1>4. ASSUME NEW i \in 1 .. Len(s)
      PROVE  ToSet(parts[i]) = {s[i]} \cap S
  <2>1. CASE s[i] \in S
    <3>1. parts[i] = <<s[i]>>
      BY <2>1
    <3>2. DOMAIN <<s[i]>> = {1} /\ <<s[i]>>[1] = s[i]
      OBVIOUS
    <3>3. ToSet(<<s[i]>>) = {s[i]}
      BY <3>2 DEF ToSet
    <3> QED
      BY <2>1, <3>1, <3>3
  <2>2. CASE s[i] \notin S
    <3>1. parts[i] = <<>> /\ ToSet(<<>>) = {}
      BY <2>2 DEF ToSet
    <3> QED
      BY <2>2, <3>1
  <2> QED
    BY <2>1, <2>2
<1>5. Selected(s, S) = FlattenSeq(parts)
  BY DEF Selected
<1>6. ToSet(s) = {s[i] : i \in 1 .. Len(s)}
  BY DEF ToSet
<1> HIDE DEF parts
<1>7. FlattenSeq(parts) \in Seq(E)
  BY <1>3, Flattened
<1>8. ToSet(FlattenSeq(parts)) = UNION {ToSet(parts[i]) : i \in 1 .. Len(parts)}
  BY <1>3, FlattenedSet
<1>9. ToSet(FlattenSeq(parts)) = UNION {ToSet(parts[i]) : i \in 1 .. Len(s)}
  BY <1>3, <1>8
<1>10. UNION {ToSet(parts[i]) : i \in 1 .. Len(s)} = ToSet(s) \cap S
  BY <1>4, <1>6
<1> QED
  BY <1>5, <1>7, <1>9, <1>10

(* It is the same sequence if everything is kept.                          *)
LEMMA SelectedAll ==
    ASSUME NEW E, NEW s \in Seq(E), NEW S, ToSet(s) \subseteq S
    PROVE  Selected(s, S) = s
<1> DEFINE parts == [i \in 1 .. Len(s) |->
                        IF s[i] \in S THEN <<s[i]>> ELSE <<>>]
<1>1. \A i \in 1 .. Len(s) : s[i] \in S
  BY DEF ToSet
<1>2. parts = [i \in 1 .. Len(s) |-> <<s[i]>>]
  BY <1>1
<1>3. Selected(s, S) = FlattenSeq(parts)
  BY DEF Selected
<1> HIDE DEF parts
<1> QED
  BY <1>2, <1>3, FlattenedOnes

-----------------------------------------------------------------------------
(* The heights that a request visits, from a to b.                         *)
Tour(heights, a, b) ==
    /\ heights \in Seq(Nat)
    /\ ToSet(heights) = {k \in Nat : (a <= k /\ k <= b) \/ (b <= k /\ k <= a)}
    /\ \A j, k \in 1 .. Len(heights) :
          j <= k => IF a <= b THEN heights[j] <= heights[k]
                    ELSE heights[j] >= heights[k]

(* Upwards the end of the range is one above the last height, downwards    *)
(* the start of it is one above the first.                                 *)
LEMMA TourUp ==
    ASSUME NEW a \in Nat, NEW b \in Nat, a <= b
    PROVE  Tour(Visited(a, b + 1), a, b)
<1> DEFINE h == [i \in 1 .. (b + 1) - a |-> a + i - 1]
<1>1. Visited(a, b + 1) = h
  BY DEF Visited
<1>2. (b + 1) - a \in Nat
  OBVIOUS
<1>3. \A i \in 1 .. (b + 1) - a : h[i] = a + i - 1 /\ h[i] \in Nat
  OBVIOUS
<1>4. h \in Seq(Nat) /\ Len(h) = (b + 1) - a
  BY <1>2, <1>3
<1>5. ToSet(h) = {h[i] : i \in 1 .. (b + 1) - a}
  BY <1>4 DEF ToSet
<1> HIDE DEF h
<1>6. ASSUME NEW k \in Nat, a <= k, k <= b
      PROVE  k \in ToSet(h)
  <2>1. k - a + 1 \in 1 .. (b + 1) - a
    BY <1>6
  <2>2. h[(k - a) + 1] = k
    BY <1>3, <2>1
  <2> QED
    BY <1>5, <2>1, <2>2
<1>7. ASSUME NEW k \in ToSet(h)
      PROVE  k \in Nat /\ a <= k /\ k <= b
  <2>1. PICK i \in 1 .. (b + 1) - a : k = h[i]
    BY <1>5
  <2> QED
    BY <1>2, <1>3, <2>1
<1>8. \A j, k \in 1 .. Len(h) : j <= k => h[j] <= h[k]
  BY <1>2, <1>3, <1>4
<1>9. ToSet(h) = {k \in Nat : (a <= k /\ k <= b) \/ (b <= k /\ k <= a)}
  BY <1>6, <1>7
<1> QED
  BY <1>1, <1>4, <1>8, <1>9 DEF Tour

(* Downwards.                                                              *)
LEMMA TourDown ==
    ASSUME NEW a \in Nat, NEW b \in Nat, a > b
    PROVE  Tour(Visited(a + 1, b), a, b)
<1> DEFINE h == [i \in 1 .. (a + 1) - b |-> (a + 1) - i]
<1>1. Visited(a + 1, b) = h
  BY DEF Visited
<1>2. (a + 1) - b \in Nat
  OBVIOUS
<1>3. \A i \in 1 .. (a + 1) - b : h[i] = (a + 1) - i /\ h[i] \in Nat
  OBVIOUS
<1>4. h \in Seq(Nat) /\ Len(h) = (a + 1) - b
  BY <1>2, <1>3
<1>5. ToSet(h) = {h[i] : i \in 1 .. (a + 1) - b}
  BY <1>4 DEF ToSet
<1> HIDE DEF h
<1>6. ASSUME NEW k \in Nat, b <= k, k <= a
      PROVE  k \in ToSet(h)
  <2>1. (a + 1) - k \in 1 .. (a + 1) - b
    BY <1>6
  <2>2. h[(a + 1) - k] = k
    BY <1>3, <2>1
  <2> QED
    BY <1>5, <2>1, <2>2
<1>7. ASSUME NEW k \in ToSet(h)
      PROVE  k \in Nat /\ b <= k /\ k <= a
  <2>1. PICK i \in 1 .. (a + 1) - b : k = h[i]
    BY <1>5
  <2> QED
    BY <1>2, <1>3, <2>1
<1>8. \A j, k \in 1 .. Len(h) : j <= k => h[j] >= h[k]
  BY <1>2, <1>3, <1>4
<1>9. ToSet(h) = {k \in Nat : (a <= k /\ k <= b) \/ (b <= k /\ k <= a)}
  BY <1>6, <1>7
<1> QED
  BY <1>1, <1>4, <1>8, <1>9 DEF Tour

(* The latest height is one of the chain, or zero, and so are the ends of  *)
(* a range.                                                                *)
LEMMA ResolvedFacts ==
    ASSUME IInv, NEW m \in {LatestBlockNumber} \cup DOMAIN Chain
    PROVE  Resolved(m) \in 0 .. Len(Chain)
<1>1. LatestHeight \in 0 .. Len(Chain)
  <2>1. CASE DOMAIN history = {}
    BY <2>1, ChainFacts DEF LatestHeight
  <2>2. CASE DOMAIN history # {}
    <3>1. DOMAIN history \subseteq 1 .. Len(Chain)
      BY HistoryOK
    <3>2. IsFiniteSet(DOMAIN history) /\ DOMAIN history \subseteq Nat
      <4>1. IsFiniteSet(1 .. Len(Chain))
        BY ChainFacts, FS_Interval
      <4> QED
        BY <3>1, <4>1, FS_Subset
    <3>3. Max(DOMAIN history) \in DOMAIN history
      BY <2>2, <3>2, MaxOfFiniteSet
    <3> QED
      BY <2>2, <3>1, <3>3, ChainFacts DEF LatestHeight
  <2> QED
    BY <2>1, <2>2
<1> QED
  BY <1>1, ChainFacts DEF Resolved

(* Heights up to one above the chain fit into 32 bits.                     *)
LEMMA Uint32Fits ==
    ASSUME NEW k \in 0 .. Len(Chain)
    PROVE  uint32(k) = k /\ uint32(k + 1) = k + 1
<1>1. k \in Nat /\ Word32 \in Nat /\ k + 1 < Word32
  BY ApiAssumption, ChainFacts
<1> QED
  BY <1>1 DEF uint32

(* prepareHeightRange: a request visits the heights from its first to its  *)
(* second number.                                                          *)
LEMMA RangeToured ==
    ASSUME IInv, NEW m \in {LatestBlockNumber} \cup DOMAIN Chain,
           NEW n \in {LatestBlockNumber} \cup DOMAIN Chain
    PROVE  Tour(Visited(prepareHeightRange(m, n)[1],
                        prepareHeightRange(m, n)[2]),
                Resolved(m), Resolved(n))
<1>1. PICK a \in 0 .. Len(Chain) : a = Resolved(m)
  BY ResolvedFacts
<1>2. PICK b \in 0 .. Len(Chain) : b = Resolved(n)
  BY ResolvedFacts
<1>3. a \in Nat /\ b \in Nat
  OBVIOUS
<1>4. /\ uint32(a) = a /\ uint32(a + 1) = a + 1
      /\ uint32(b) = b /\ uint32(b + 1) = b + 1
  BY Uint32Fits
<1>5. CASE a > b
  <2>1. prepareHeightRange(m, n) = <<a + 1, b>>
    BY <1>1, <1>2, <1>4, <1>5 DEF prepareHeightRange
  <2>2. Tour(Visited(a + 1, b), a, b)
    BY <1>3, <1>5, TourDown
  <2> QED
    BY <1>1, <1>2, <2>1, <2>2
<1>6. CASE ~(a > b)
  <2>1. prepareHeightRange(m, n) = <<a, b + 1>>
    BY <1>1, <1>2, <1>4, <1>6 DEF prepareHeightRange
  <2>2. a <= b
    BY <1>3, <1>6
  <2>3. Tour(Visited(a, b + 1), a, b)
    BY <1>3, <2>2, TourUp
  <2> QED
    BY <1>1, <1>2, <2>1, <2>3
<1> QED
  BY <1>5, <1>6

(* All transactions of the history.                                        *)
HistoryTxs == UNION {ToSet(history[k].txs) : k \in DOMAIN history}

(* The transactions of one height.                                         *)
LEMMA TxsAtHeight ==
    ASSUME IInv, NEW h \in Nat
    PROVE  /\ GetTxListByHeight(h) \in Seq(HistoryTxs)
           /\ h \notin DOMAIN history => GetTxListByHeight(h) = <<>>
           /\ h \in DOMAIN history =>
                 {t.tx : t \in ToSet(GetTxListByHeight(h))} =
                    ExecutedIn(history[h])
           /\ \A t \in ToSet(GetTxListByHeight(h)) :
                 t.BlockNumber = h /\ t.tx \in Txs
<1>1. CASE h \notin DOMAIN history
  <2>1. GetTxListByHeight(h) = <<>>
    BY <1>1 DEF GetTxListByHeight
  <2> QED
    BY <1>1, <2>1 DEF ToSet
<1>2. CASE h \in DOMAIN history
  <2>1. PICK txs : txs = history[h].txs
    OBVIOUS
  <2>2. GetTxListByHeight(h) = txs
    BY <1>2, <2>1 DEF GetTxListByHeight
  <2>3. BlockOK(history[h], h, reloaded) /\ h \in 1 .. Len(Chain)
    BY <1>2, HistoryOK
  <2>4. /\ txs \in Seq(ToSet(txs))
        /\ DOMAIN txs = 1 .. Len(txs)
        /\ \A i \in 1 .. Len(txs) :
              Decided(txs[i].tx, h) /\ txs[i].BlockNumber = h
    BY <2>1, <2>3 DEF BlockOK, PlaceOK
  <2>5. ToSet(txs) \subseteq HistoryTxs
    BY <1>2, <2>1 DEF HistoryTxs
  <2>6. txs \in Seq(HistoryTxs)
    <3>1. PICK E : E = ToSet(txs)
      OBVIOUS
    <3> QED
      BY <2>4, <2>5, <3>1
  <2>7. {t.tx : t \in ToSet(txs)} = ExecutedIn(history[h])
    BY <2>1 DEF ToSet, ExecutedIn
  <2>8. ASSUME NEW t \in ToSet(txs)
        PROVE  t.BlockNumber = h /\ t.tx \in Txs
    <3>1. PICK i \in 1 .. Len(txs) : t = txs[i]
      BY <2>4 DEF ToSet
    <3>2. PICK m \in 1 .. h : t.tx \in ToSet(Chain[m].txs)
      BY <2>4, <3>1 DEF Decided
    <3>3. m \in 1 .. Len(Chain)
      BY <2>3, ChainFacts
    <3>4. Chain[m].txs \in Seq(Txs)
      BY <3>3, ChainFacts
    <3>5. t.tx \in Txs
      BY <3>2, <3>4 DEF ToSet
    <3> QED
      BY <2>4, <3>1, <3>5
  <2> QED
    BY <1>2, <2>2, <2>6, <2>7, <2>8
<1> QED
  BY <1>1, <1>2

(* The blocks between two heights are the stored ones of the tour.         *)
LEMMA TourBetween ==
    ASSUME IInv, NEW heights, NEW a \in Nat, NEW b \in Nat,
           Tour(heights, a, b)
    PROVE  /\ Between(a, b) = ToSet(heights) \cap DOMAIN history
           /\ Len(heights) \in Nat
           /\ \A i \in 1 .. Len(heights) : heights[i] \in Nat
           /\ ToSet(heights) = {heights[i] : i \in 1 .. Len(heights)}
<1>1. DOMAIN history \subseteq Nat
  BY HistoryOK, ChainFacts
<1>2. ToSet(heights) = {k \in Nat : (a <= k /\ k <= b) \/ (b <= k /\ k <= a)}
  BY DEF Tour
<1>3. heights \in Seq(Nat)
  BY DEF Tour
<1>4. Between(a, b) = ToSet(heights) \cap DOMAIN history
  BY <1>1, <1>2 DEF Between
<1> QED
  BY <1>3, <1>4 DEF ToSet

(* The transactions that a tour finds before the limit applies.            *)
Found(heights, src, dst) ==
    FlattenSeq([i \in 1 .. Len(heights) |->
        Selected(GetTxListByHeight(heights[i]), Hits(heights[i], src, dst))])

(* They are those of the blocks between its ends, block by block.          *)
LEMMA FoundFacts ==
    ASSUME IInv, NEW heights, NEW a \in Nat, NEW b \in Nat,
           Tour(heights, a, b), NEW src, NEW dst
    PROVE  /\ Found(heights, src, dst) \in Seq(HistoryTxs)
           /\ ToSet(Found(heights, src, dst)) =
                 UNION {Hits(h, src, dst) : h \in Between(a, b)}
           /\ \A j, k \in 1 .. Len(Found(heights, src, dst)) :
                 j <= k =>
                   IF a <= b
                   THEN Found(heights, src, dst)[j].BlockNumber
                           <= Found(heights, src, dst)[k].BlockNumber
                   ELSE Found(heights, src, dst)[j].BlockNumber
                           >= Found(heights, src, dst)[k].BlockNumber
<1> DEFINE At(h) == Selected(GetTxListByHeight(h), Hits(h, src, dst))
           parts == [i \in 1 .. Len(heights) |-> At(heights[i])]
<1>1. /\ Between(a, b) = ToSet(heights) \cap DOMAIN history
      /\ Len(heights) \in Nat
      /\ \A i \in 1 .. Len(heights) : heights[i] \in Nat
      /\ ToSet(heights) = {heights[i] : i \in 1 .. Len(heights)}
  BY TourBetween
<1>2. ASSUME NEW h \in Nat
      PROVE  /\ At(h) \in Seq(HistoryTxs)
             /\ ToSet(At(h)) = Hits(h, src, dst)
             /\ h \notin DOMAIN history => Hits(h, src, dst) = {}
             /\ \A t \in Hits(h, src, dst) : t.BlockNumber = h
  <2>1. GetTxListByHeight(h) \in Seq(HistoryTxs)
    BY TxsAtHeight
  <2>2. /\ At(h) \in Seq(HistoryTxs)
        /\ ToSet(At(h)) = ToSet(GetTxListByHeight(h)) \cap Hits(h, src, dst)
    BY <2>1, SelectedFacts
  <2>3. Hits(h, src, dst) \subseteq ToSet(GetTxListByHeight(h))
    BY DEF Hits
  <2>4. ToSet(<<>>) = {}
    BY DEF ToSet
  <2> HIDE DEF At
  <2> QED
    BY <2>2, <2>3, <2>4, TxsAtHeight
<1> HIDE DEF At
<1>3. \A i \in 1 .. Len(heights) : parts[i] = At(heights[i])
  OBVIOUS
<1>4. parts \in Seq(Seq(HistoryTxs)) /\ Len(parts) = Len(heights)
  <2>1. PICK Q : Q = Seq(HistoryTxs)
    OBVIOUS
  <2>2. \A i \in 1 .. Len(heights) : At(heights[i]) \in Q
    BY <1>1, <1>2, <2>1
  <2>3. parts \in Seq(Q) /\ Len(parts) = Len(heights)
    BY <1>1, <2>2
  <2> QED
    BY <2>1, <2>3
<1>5. Found(heights, src, dst) = FlattenSeq(parts)
  BY DEF Found, At
<1> HIDE DEF parts
<1>6. PICK flat \in Seq(HistoryTxs) :
        flat = FlattenSeq(parts) /\ Gathered(parts, flat, Len(parts))
  BY <1>4, Flattened
<1>7. ToSet(flat) = UNION {ToSet(parts[i]) : i \in 1 .. Len(parts)}
  BY <1>4, <1>6, FlattenedSet
<1>8. ToSet(flat) = UNION {Hits(h, src, dst) : h \in Between(a, b)}
  <2>1. \A i \in 1 .. Len(heights) :
           ToSet(parts[i]) = Hits(heights[i], src, dst)
    BY <1>1, <1>2, <1>3
  <2>2. ToSet(flat) = UNION {Hits(heights[i], src, dst) :
                               i \in 1 .. Len(heights)}
    BY <1>4, <1>7, <2>1
  <2>3. ToSet(flat) = UNION {Hits(h, src, dst) : h \in ToSet(heights)}
    BY <1>1, <2>2
  <2>4. \A h \in ToSet(heights) :
           h \notin DOMAIN history => Hits(h, src, dst) = {}
    BY <1>1, <1>2
  <2> QED
    BY <1>1, <2>3, <2>4
<1>9. PICK p \in [1 .. Len(flat) -> 1 .. Len(heights)] :
         Located(parts, flat, p)
  BY <1>4, <1>6 DEF Gathered
<1>10. ASSUME NEW j \in 1 .. Len(flat)
       PROVE  /\ p[j] \in 1 .. Len(heights)
              /\ flat[j].BlockNumber = heights[p[j]]
  <2>1. p[j] \in 1 .. Len(heights)
    BY <1>9
  <2>2. PICK k \in 1 .. Len(parts[p[j]]) : flat[j] = parts[p[j]][k]
    BY <1>9 DEF Located
  <2>3. heights[p[j]] \in Nat /\ parts[p[j]] = At(heights[p[j]])
    BY <1>1, <1>3, <2>1
  <2>4. parts[p[j]] \in Seq(HistoryTxs)
    BY <1>2, <2>3
  <2>5. flat[j] \in ToSet(parts[p[j]])
    BY <2>2, <2>4 DEF ToSet
  <2> QED
    BY <1>2, <2>1, <2>3, <2>5
<1>11. ASSUME NEW j \in 1 .. Len(flat), NEW k \in 1 .. Len(flat), j <= k
       PROVE  IF a <= b THEN flat[j].BlockNumber <= flat[k].BlockNumber
              ELSE flat[j].BlockNumber >= flat[k].BlockNumber
  <2>1. p[j] <= p[k]
    BY <1>9, <1>11 DEF Located, InOrder
  <2>2. IF a <= b THEN heights[p[j]] <= heights[p[k]]
        ELSE heights[p[j]] >= heights[p[k]]
    BY <1>10, <2>1 DEF Tour
  <2> QED
    BY <1>10, <2>2
<1> QED
  BY <1>5, <1>6, <1>8, <1>11

(* A query without a limit, and with one.                                  *)
LEMMA QueryTxFound ==
    ASSUME NEW src, NEW dst, NEW start, NEW end, NEW E,
           Found(Visited(start, end), src, dst) \in Seq(E),
           NEW k \in 1 .. Len(Found(Visited(start, end), src, dst))
    PROVE  QueryTx(src, dst, start, end, k) =
              SubSeq(Found(Visited(start, end), src, dst), 1, k)
<1> DEFINE flat == Found(Visited(start, end), src, dst)
<1>1. QueryTx(src, dst, start, end, k) = Limited(flat, k)
  BY DEF QueryTx, Found
<1> HIDE DEF flat
<1>2. flat \in Seq(E) /\ k \in 1 .. Len(flat)
  BY DEF flat
<1>3. CASE Len(flat) <= k
  <2>1. Len(flat) = k
    BY <1>2, <1>3
  <2>2. SubSeq(flat, 1, k) = flat
    BY <1>2, <2>1
  <2> QED
    BY <1>1, <1>3, <2>2 DEF Limited, flat
<1>4. CASE ~(Len(flat) <= k)
  <2>1. k # 0
    BY <1>2
  <2> QED
    BY <1>1, <1>4, <2>1 DEF Limited, flat
<1> QED
  BY <1>3, <1>4

(* The answer to a query has an entry for every transaction found.         *)
LEMMA Responses ==
    ASSUME NEW E, NEW flat \in Seq(E)
    PROVE  /\ Len(txsToRpcResp(flat)) = Len(flat)
           /\ \A i \in 1 .. Len(flat) :
                 txsToRpcResp(flat)[i] = txToRpcResp(flat[i])
           /\ ToSet(txsToRpcResp(flat)) = {txToRpcResp(t) : t \in ToSet(flat)}
           /\ \A k \in 1 .. Len(flat) :
                 txsToRpcResp(SubSeq(flat, 1, k)) =
                    SubSeq(txsToRpcResp(flat), 1, k)
<1> DEFINE found == [i \in 1 .. Len(flat) |-> txToRpcResp(flat[i])]
           F == {txToRpcResp(t) : t \in E}
<1>1. Len(flat) \in Nat /\ \A i \in 1 .. Len(flat) : flat[i] \in E
  OBVIOUS
<1>2. found \in Seq(F) /\ Len(found) = Len(flat) /\ txsToRpcResp(flat) = found
  BY <1>1 DEF txsToRpcResp
<1>3. \A i \in 1 .. Len(flat) : found[i] = txToRpcResp(flat[i])
  OBVIOUS
<1> HIDE DEF found, F
<1>4. ToSet(found) = {found[i] : i \in 1 .. Len(flat)}
  BY <1>2 DEF ToSet
<1>5. ToSet(flat) = {flat[i] : i \in 1 .. Len(flat)}
  BY DEF ToSet
<1>6. ToSet(found) = {txToRpcResp(t) : t \in ToSet(flat)}
  BY <1>3, <1>4, <1>5
<1>7. ASSUME NEW k \in 1 .. Len(flat)
      PROVE  txsToRpcResp(SubSeq(flat, 1, k)) = SubSeq(found, 1, k)
  <2> DEFINE cut == SubSeq(flat, 1, k)
             rest == SubSeq(found, 1, k)
  <2>1. Len(cut) = k /\ \A i \in 1 .. k : cut[i] = flat[i]
    BY <1>1
  <2>2. rest = [i \in 1 .. k |-> found[i]]
    BY <1>1, <1>2
  <2> HIDE DEF cut, rest
  <2>3. txsToRpcResp(cut) = [i \in 1 .. k |-> txToRpcResp(cut[i])]
    BY <2>1 DEF txsToRpcResp
  <2>4. \A i \in 1 .. k : txToRpcResp(cut[i]) = found[i]
    BY <1>1, <1>3, <2>1
  <2>5. txsToRpcResp(cut) = rest
    BY <2>2, <2>3, <2>4
  <2> QED
    BY <2>5 DEF cut, rest
<1> QED
  BY <1>2, <1>3, <1>6, <1>7

(* The logs of transactions, and a filter without criteria keeps them all. *)
LEMMA LogsFacts ==
    ASSUME NEW E, NEW txs \in Seq(E), \A t \in ToSet(txs) : t.tx \in Txs
    PROVE  /\ LogsOfTxs(txs) \in Seq(ToSet(LogsOfTxs(txs)))
           /\ Len(txs) = 0 => ToSet(LogsOfTxs(txs)) = {}
           /\ filterLogs(LogsOfTxs(txs), NilBlock, NilBlock, {}, <<>>)
                 = LogsOfTxs(txs)
<1> DEFINE Entry(x, j) == [Address |-> TxLogs[x][j].Address,
                           Topics |-> TxLogs[x][j].Topics,
                           TxHash |-> x]
           part(x) == [j \in 1 .. Len(TxLogs[x]) |-> Entry(x, j)]
           parts == [i \in 1 .. Len(txs) |-> part(txs[i].tx)]
           L == UNION {ToSet(parts[i]) : i \in 1 .. Len(txs)}
           logs == LogsOfTxs(txs)
<1>1. Len(txs) \in Nat /\ \A i \in 1 .. Len(txs) : txs[i].tx \in Txs
  BY DEF ToSet
<1>2. ASSUME NEW x \in Txs
      PROVE  /\ Len(TxLogs[x]) \in Nat
             /\ \A j \in 1 .. Len(TxLogs[x]) : Len(TxLogs[x][j].Topics) \in Nat
  <2>1. PICK A : A = ToSet(TxLogs[x])
    OBVIOUS
  <2>2. TxLogs[x] \in Seq(A) /\ \A log \in A : Len(log.Topics) \in Nat
    BY <2>1, ApiAssumption
  <2> QED
    BY <2>2
<1>3. logs = FlattenSeq(parts)
  BY DEF LogsOfTxs
<1>4. \A i \in 1 .. Len(txs) : parts[i] = part(txs[i].tx)
  OBVIOUS
<1>5. ASSUME NEW x \in Txs
      PROVE  /\ part(x) \in Seq(ToSet(part(x)))
             /\ \A l \in ToSet(part(x)) : Len(l.Topics) \in Nat
  <2>1. PICK k \in Nat : k = Len(TxLogs[x])
    BY <1>2
  <2>2. part(x) = [j \in 1 .. k |-> part(x)[j]]
    BY <2>1
  <2>3. part(x) \in Seq(ToSet(part(x)))
    <3> HIDE DEF part
    <3> QED
      BY <2>2, SeqOfItself
  <2>4. \A j \in 1 .. k : part(x)[j].Topics = TxLogs[x][j].Topics
    BY <2>1
  <2>5. DOMAIN part(x) = 1 .. k
    BY <2>1
  <2> HIDE DEF part
  <2>6. \A l \in ToSet(part(x)) : Len(l.Topics) \in Nat
    BY <1>2, <2>1, <2>4, <2>5 DEF ToSet
  <2> QED
    BY <2>3, <2>6
<1> HIDE DEF part
<1>6. ASSUME NEW i \in 1 .. Len(txs)
      PROVE  /\ parts[i] \in Seq(L)
             /\ \A l \in ToSet(parts[i]) : Len(l.Topics) \in Nat
  <2>1. PICK q : q = parts[i]
    OBVIOUS
  <2>2. PICK A : A = ToSet(q)
    OBVIOUS
  <2>3. q \in Seq(A) /\ \A l \in A : Len(l.Topics) \in Nat
    BY <1>1, <1>4, <1>5, <2>1, <2>2
  <2>4. A \subseteq L
    BY <2>1, <2>2
  <2> HIDE DEF L
  <2>5. q \in Seq(L)
    BY <2>3, <2>4
  <2> QED
    BY <2>1, <2>2, <2>3, <2>5
<1>7. \A l \in L : Len(l.Topics) \in Nat
  BY <1>6
<1>8. Len(parts) = Len(txs) /\ parts = [i \in 1 .. Len(txs) |-> parts[i]]
  BY <1>1
<1>9. parts \in Seq(Seq(L))
  <2>1. PICK Q : Q = Seq(L)
    OBVIOUS
  <2> HIDE DEF parts, L
  <2>2. parts \in Seq(Q)
    BY <1>1, <1>6, <1>8, <2>1
  <2> QED
    BY <2>1, <2>2
<1>10. ToSet(FlattenSeq(parts)) = L
  <2>1. ToSet(FlattenSeq(parts))
           = UNION {ToSet(parts[i]) : i \in 1 .. Len(parts)}
    <3> HIDE DEF parts, L
    <3> QED
      BY <1>9, FlattenedSet
  <2> HIDE DEF parts
  <2> QED
    BY <1>8, <2>1
<1>11. logs \in Seq(L)
  <2> HIDE DEF parts, L, logs
  <2> QED
    BY <1>3, <1>9, Flattened
<1>12. Len(txs) = 0 => L = {}
  OBVIOUS
<1> HIDE DEF parts, L, logs
<1>13. ToSet(logs) = L
  BY <1>3, <1>10
<1>14. filterLogs(logs, NilBlock, NilBlock, {}, <<>>) = logs
  <2> DEFINE kept == {log \in ToSet(logs) :
                        /\ InBlockRange(log, NilBlock, NilBlock)
                        /\ {} = {} \/ includes({}, log.Address)
                        /\ TopicsMatch(log, <<>>)}
  <2>1. filterLogs(logs, NilBlock, NilBlock, {}, <<>>) = Selected(logs, kept)
    BY DEF filterLogs
  <2>2. ASSUME NEW log \in ToSet(logs)
        PROVE  log \in kept
    <3>1. Len(log.Topics) \in Nat
      BY <1>7, <1>13
    <3>2. InBlockRange(log, NilBlock, NilBlock)
      BY DEF InBlockRange, NilBlock
    <3>3. TopicsMatch(log, <<>>)
      BY <3>1 DEF TopicsMatch
    <3> QED
      BY <3>2, <3>3
  <2> HIDE DEF kept
  <2>3. ToSet(logs) \subseteq kept
    BY <2>2
  <2> QED
    BY <1>11, <2>1, <2>3, SelectedAll
<1> QED
  BY <1>11, <1>12, <1>13, <1>14 DEF logs

(* The logs of a height.                                                   *)
LEMMA LogsAtHeight ==
    ASSUME IInv, NEW h \in Nat
    PROVE  /\ AllLogs(h) \in Seq(ToSet(AllLogs(h)))
           /\ h \notin DOMAIN history => ToSet(AllLogs(h)) = {}
           /\ filterLogs(AllLogs(h), NilBlock, NilBlock, {}, <<>>) = AllLogs(h)
<1>1. PICK txs : txs = GetTxListByHeight(h)
  OBVIOUS
<1>2. txs \in Seq(HistoryTxs) /\ \A t \in ToSet(txs) : t.tx \in Txs
  BY <1>1, TxsAtHeight
<1>3. h \notin DOMAIN history => Len(txs) = 0
  BY <1>1, TxsAtHeight
<1>4. /\ LogsOfTxs(txs) \in Seq(ToSet(LogsOfTxs(txs)))
      /\ Len(txs) = 0 => ToSet(LogsOfTxs(txs)) = {}
      /\ filterLogs(LogsOfTxs(txs), NilBlock, NilBlock, {}, <<>>)
            = LogsOfTxs(txs)
  BY <1>2, LogsFacts
<1> QED
  BY <1>1, <1>3, <1>4 DEF AllLogs

(* eth_getLogs of a range.                                                 *)
LEMMA LogsBetween ==
    ASSUME IInv, NEW m \in DOMAIN Chain, NEW n \in DOMAIN Chain, m <= n
    PROVE  ToSet(GetLogs(m, n, {}, <<>>)) =
              UNION {ToSet(AllLogs(h)) : h \in Between(m, n)}
<1>1. /\ m \in 1 .. Len(Chain) /\ n \in 1 .. Len(Chain)
      /\ m \in 0 .. Len(Chain) /\ n \in 0 .. Len(Chain)
      /\ m \in Nat /\ n \in Nat /\ m # NilBlock /\ n # NilBlock
  BY ChainFacts DEF NilBlock
<1>2. uint32(OrCurrent(m)) = m /\ uint32(OrCurrent(n) + 1) = n + 1
  BY <1>1, Uint32Fits DEF OrCurrent
<1>3. PICK heights : heights = Visited(m, n + 1)
  OBVIOUS
<1>4. Tour(heights, m, n)
  BY <1>1, <1>3, TourUp
<1>5. /\ Between(m, n) = ToSet(heights) \cap DOMAIN history
      /\ Len(heights) \in Nat
      /\ \A i \in 1 .. Len(heights) : heights[i] \in Nat
      /\ ToSet(heights) = {heights[i] : i \in 1 .. Len(heights)}
  BY <1>1, <1>4, TourBetween
<1> DEFINE parts == [i \in 1 .. Len(heights) |-> AllLogs(heights[i])]
           L == UNION {ToSet(AllLogs(h)) : h \in Nat}
<1>6. GetLogs(m, n, {}, <<>>) = FlattenSeq(parts)
  <2>1. GetLogs(m, n, {}, <<>>) =
           FlattenSeq([i \in 1 .. Len(heights) |->
              filterLogs(AllLogs(heights[i]), NilBlock, NilBlock, {}, <<>>)])
    BY <1>2, <1>3 DEF GetLogs, QueryLogs, AllLogs
  <2>2. \A i \in 1 .. Len(heights) :
           filterLogs(AllLogs(heights[i]), NilBlock, NilBlock, {}, <<>>)
             = AllLogs(heights[i])
    BY <1>5, LogsAtHeight
  <2>3. [i \in 1 .. Len(heights) |->
              filterLogs(AllLogs(heights[i]), NilBlock, NilBlock, {}, <<>>)]
           = parts
    BY <2>2
  <2> QED
    BY <2>1, <2>3, Zenon
<1>7. ASSUME NEW h \in Nat
      PROVE  AllLogs(h) \in Seq(L)
  <2>1. PICK q : q = AllLogs(h)
    OBVIOUS
  <2>2. PICK A : A = ToSet(q)
    OBVIOUS
  <2>3. q \in Seq(A) /\ A \subseteq L
    BY <2>1, <2>2, LogsAtHeight
  <2> HIDE DEF L
  <2>4. q \in Seq(L)
    BY <2>3
  <2> QED
    BY <2>1, <2>4
<1> HIDE DEF L
<1>8. \A i \in 1 .. Len(heights) : parts[i] = AllLogs(heights[i])
  OBVIOUS
<1>9. parts \in Seq(Seq(L)) /\ Len(parts) = Len(heights)
  <2>1. PICK Q : Q = Seq(L)
    OBVIOUS
  <2>2. \A i \in 1 .. Len(heights) : AllLogs(heights[i]) \in Q
    BY <1>5, <1>7, <2>1
  <2>3. parts \in Seq(Q) /\ Len(parts) = Len(heights)
    BY <1>5, <2>2
  <2> QED
    BY <2>1, <2>3
<1> HIDE DEF parts
<1>10. ToSet(FlattenSeq(parts))
          = UNION {ToSet(parts[i]) : i \in 1 .. Len(parts)}
  BY <1>9, FlattenedSet
<1>11. ToSet(FlattenSeq(parts))
          = UNION {ToSet(AllLogs(heights[i])) : i \in 1 .. Len(heights)}
  BY <1>8, <1>9, <1>10
<1>12. ToSet(FlattenSeq(parts))
          = UNION {ToSet(AllLogs(h)) : h \in ToSet(heights)}
  BY <1>5, <1>11
<1>13. \A h \in ToSet(heights) : h \notin DOMAIN history => ToSet(AllLogs(h)) = {}
  BY <1>5, LogsAtHeight
<1> QED
  BY <1>5, <1>6, <1>12, <1>13

(* ... and of a block.                                                     *)
LEMMA LogsOfOneBlock ==
    ASSUME IInv, NEW n \in DOMAIN history
    PROVE  BlockFilterLogs(history[n].info.Hash, {}, <<>>) = {AllLogs(n)}
<1>1. PICK hash : hash = history[n].info.Hash
  OBVIOUS
<1>2. BlockByHash(hash) = {history[n]}
  <2>1. n \in 1 .. Len(Chain) /\ history[n].info = Header(n)
    BY HistoryOK DEF BlockOK
  <2>2. hash = Chain[n].Hash
    BY <1>1, <2>1, Numbers
  <2> QED
    BY <2>2, BlockFound
<1>3. PICK logs : logs = AllLogs(n)
  OBVIOUS
<1>4. LogsOfTxs(history[n].txs) = logs
  BY <1>3 DEF AllLogs, GetTxListByHeight
<1>5. n \in Nat
  BY HistoryOK, ChainFacts
<1>6. PICK L : logs \in Seq(L)
  BY <1>3, <1>5, LogsAtHeight
<1>7. filterLogs(logs, NilBlock, NilBlock, {}, <<>>) = logs
  BY <1>3, <1>5, LogsAtHeight
<1>8. SetToSeq({logs}) = <<logs>>
  <2>1. Cardinality({logs}) = 1
    BY FS_Singleton
  <2> DEFINE f == [i \in 1 .. 1 |-> logs]
  <2>2. f \in [1 .. 1 -> {logs}] /\ IsInjective(f)
    BY DEF IsInjective
  <2>3. \A g \in [1 .. 1 -> {logs}] : g = <<logs>>
    OBVIOUS
  <2>4. SetToSeq({logs}) \in [1 .. 1 -> {logs}]
    <3> HIDE DEF f
    <3> QED
      BY <2>1, <2>2 DEF SetToSeq
  <2> QED
    BY <2>3, <2>4
<1>9. LogsOfBlock(hash) = logs
  <2>1. {LogsOfTxs(b.txs) : b \in BlockByHash(hash)} = {logs}
    BY <1>2, <1>4
  <2> QED
    BY <1>6, <1>8, <2>1, FlattenedOne DEF LogsOfBlock
<1>10. ASSUME NEW h \in HeaderByHash(hash)
       PROVE  blockLogs(h, {}, <<>>) = logs
  <2>1. h.BlockHash = hash
    BY <1>1, <1>2 DEF HeaderByHash
  <2>2. bloomFilter(h.Bloom, {}, <<>>)
    BY DEF bloomFilter
  <2> QED
    BY <1>7, <1>9, <2>1, <2>2 DEF blockLogs, checkMatches
<1>11. HeaderByHash(hash) # {}
  BY <1>2 DEF HeaderByHash
<1> QED
  BY <1>1, <1>3, <1>10, <1>11 DEF BlockFilterLogs

(* What sbch_queryTx... finds, for all limits.                             *)
AnswerOK(flat, m, n, src, dst) ==
    /\ flat \in Seq(HistoryTxs)
    /\ ToSet(flat) = UNION {Hits(h, src, dst) :
                              h \in Between(Resolved(m), Resolved(n))}
    /\ \A j, k \in 1 .. Len(flat) :
          j <= k => IF Resolved(m) <= Resolved(n)
                    THEN flat[j].BlockNumber <= flat[k].BlockNumber
                    ELSE flat[j].BlockNumber >= flat[k].BlockNumber
    /\ LET r == prepareHeightRange(m, n)
       IN  /\ QueryTx(src, dst, r[1], r[2], 0) = flat
           /\ \A k \in 1 .. Len(flat) :
                 QueryTx(src, dst, r[1], r[2], k) = SubSeq(flat, 1, k)

(* It finds such an answer.                                                *)
LEMMA TxsBetween ==
    ASSUME IInv, NEW m \in {LatestBlockNumber} \cup DOMAIN Chain,
           NEW n \in {LatestBlockNumber} \cup DOMAIN Chain,
           NEW src, NEW dst
    PROVE  \E flat : AnswerOK(flat, m, n, src, dst)
<1> DEFINE r == prepareHeightRange(m, n)
           heights == Visited(r[1], r[2])
           flat == Found(heights, src, dst)
<1>1. Tour(heights, Resolved(m), Resolved(n))
  BY RangeToured
<1>2. Resolved(m) \in Nat /\ Resolved(n) \in Nat
  BY ResolvedFacts, ChainFacts
<1>3. QueryTx(src, dst, r[1], r[2], 0) = flat
  BY DEF QueryTx, Found, Limited
<1> HIDE DEF r
<1>4. /\ flat \in Seq(HistoryTxs)
      /\ ToSet(flat) = UNION {Hits(h, src, dst) :
                                h \in Between(Resolved(m), Resolved(n))}
      /\ \A j, k \in 1 .. Len(flat) :
            j <= k => IF Resolved(m) <= Resolved(n)
                      THEN flat[j].BlockNumber <= flat[k].BlockNumber
                      ELSE flat[j].BlockNumber >= flat[k].BlockNumber
  <2> HIDE DEF heights
  <2> QED
    BY <1>1, <1>2, FoundFacts
<1>5. \A k \in 1 .. Len(flat) :
         QueryTx(src, dst, r[1], r[2], k) = SubSeq(flat, 1, k)
  BY <1>4, QueryTxFound
<1> HIDE DEF heights, flat
<1> QED
  BY <1>3, <1>4, <1>5 DEF AnswerOK, r

(* Whatever crashes and restarts there were, a range of heights includes   *)
(* both its ends: sbch_queryTx... finds what was executed in them, from    *)
(* the first to the second, a limit keeps the first of it, and eth_getLogs *)
(* returns the logs of every block of the range and of a single block.     *)
THEOREM RangesInclusiveHolds == Spec => []RangesInclusive
<1>1. IInv => RangesInclusive
  <2> SUFFICES ASSUME IInv PROVE RangesInclusive
    OBVIOUS
  <2>1. LogsOfRange
    BY LogsBetween, LogsOfOneBlock DEF LogsOfRange
  <2>2. ASSUME NEW m \in {LatestBlockNumber} \cup DOMAIN Chain,
               NEW n \in {LatestBlockNumber} \cup DOMAIN Chain,
               NEW a \in Addresses
        PROVE  LET heights == Between(Resolved(m), Resolved(n))
                   found == QueryTxByAddr(a, m, n, 0)
               IN  /\ {t.hash : t \in ToSet(found)} =
                         UNION {{x \in ExecutedIn(history[h]) :
                                     a \in {Sender[x], Recipient[x]}} :
                                 h \in heights}
                   /\ ToSet(found) = ToSet(QueryTxBySrc(a, m, n, 0))
                                     \cup ToSet(QueryTxByDst(a, m, n, 0))
                   /\ \A i \in 2 .. Len(found) :
                         IF Resolved(m) <= Resolved(n)
                         THEN found[i - 1].blockNumber <= found[i].blockNumber
                         ELSE found[i - 1].blockNumber >= found[i].blockNumber
                   /\ \A k \in 1 .. Len(found) :
                         QueryTxByAddr(a, m, n, k) = SubSeq(found, 1, k)
    <3> DEFINE heights == Between(Resolved(m), Resolved(n))
               HitsOf(s, d) == UNION {Hits(h, s, d) : h \in heights}
               found == QueryTxByAddr(a, m, n, 0)
    <3>1. PICK flat : AnswerOK(flat, m, n, {a}, {a})
      BY TxsBetween
    <3>2. PICK sent : AnswerOK(sent, m, n, {a}, {})
      BY TxsBetween
    <3>3. PICK received : AnswerOK(received, m, n, {}, {a})
      BY TxsBetween
    <3>3a. /\ flat \in Seq(HistoryTxs) /\ ToSet(flat) = HitsOf({a}, {a})
           /\ sent \in Seq(HistoryTxs) /\ ToSet(sent) = HitsOf({a}, {})
           /\ received \in Seq(HistoryTxs) /\ ToSet(received) = HitsOf({}, {a})
      BY <3>1, <3>2, <3>3 DEF AnswerOK
    <3>4. /\ found = txsToRpcResp(flat)
          /\ QueryTxBySrc(a, m, n, 0) = txsToRpcResp(sent)
          /\ QueryTxByDst(a, m, n, 0) = txsToRpcResp(received)
          /\ \A k \in 1 .. Len(flat) :
                QueryTxByAddr(a, m, n, k) = txsToRpcResp(SubSeq(flat, 1, k))
      BY <3>1, <3>2, <3>3
         DEF AnswerOK, QueryTxByAddr, QueryTxBySrc, QueryTxByDst
    <3> HIDE DEF found
    <3>5. /\ Len(txsToRpcResp(flat)) = Len(flat)
          /\ \A i \in 1 .. Len(flat) :
                txsToRpcResp(flat)[i] = txToRpcResp(flat[i])
          /\ ToSet(txsToRpcResp(flat)) = {txToRpcResp(t) : t \in ToSet(flat)}
          /\ \A k \in 1 .. Len(flat) :
                txsToRpcResp(SubSeq(flat, 1, k)) =
                   SubSeq(txsToRpcResp(flat), 1, k)
          /\ ToSet(txsToRpcResp(sent)) = {txToRpcResp(t) : t \in ToSet(sent)}
          /\ ToSet(txsToRpcResp(received))
                = {txToRpcResp(t) : t \in ToSet(received)}
      BY <3>3a, Responses
    <3>6. \A t : /\ txToRpcResp(t).hash = t.tx
                 /\ txToRpcResp(t).blockNumber = t.BlockNumber
      BY DEF txToRpcResp
    <3>7. {t.hash : t \in ToSet(found)} =
             UNION {{x \in ExecutedIn(history[h]) :
                         a \in {Sender[x], Recipient[x]}} : h \in heights}
      <4>1. {t.hash : t \in ToSet(found)} = {t.tx : t \in HitsOf({a}, {a})}
        <5>1. PICK F : F = ToSet(flat)
          OBVIOUS
        <5>2. ToSet(found) = {txToRpcResp(t) : t \in F}
          BY <3>4, <3>5, <5>1
        <5>3. {t.hash : t \in ToSet(found)} = {t.tx : t \in F}
          BY <3>6, <5>2
        <5> HIDE DEF HitsOf
        <5> QED
          BY <3>3a, <5>1, <5>3, Zenon
      <4>2. ASSUME NEW h \in heights
            PROVE  {t.tx : t \in Hits(h, {a}, {a})} =
                      {x \in ExecutedIn(history[h]) :
                          a \in {Sender[x], Recipient[x]}}
        <5>1. h \in DOMAIN history /\ h \in Nat
          BY HistoryOK, ChainFacts DEF Between
        <5>2. {t.tx : t \in ToSet(GetTxListByHeight(h))}
                 = ExecutedIn(history[h])
          BY <5>1, TxsAtHeight
        <5> QED
          BY <5>2 DEF Hits
      <4> HIDE DEF heights
      <4>3. {t.tx : t \in HitsOf({a}, {a})} =
               UNION {{t.tx : t \in Hits(h, {a}, {a})} : h \in heights}
        OBVIOUS
      <4>4. UNION {{t.tx : t \in Hits(h, {a}, {a})} : h \in heights} =
               UNION {{x \in ExecutedIn(history[h]) :
                         a \in {Sender[x], Recipient[x]}} : h \in heights}
        BY <4>2
      <4> HIDE DEF HitsOf
      <4> QED
        BY <4>1, <4>3, <4>4, Zenon
    <3>8. ToSet(found) = ToSet(QueryTxBySrc(a, m, n, 0))
                            \cup ToSet(QueryTxByDst(a, m, n, 0))
      <4>1. \A h : Hits(h, {a}, {a}) = Hits(h, {a}, {}) \cup Hits(h, {}, {a})
        BY DEF Hits
      <4> HIDE DEF heights
      <4>2. HitsOf({a}, {a}) = HitsOf({a}, {}) \cup HitsOf({}, {a})
        BY <4>1
      <4> HIDE DEF HitsOf
      <4>3. PICK F, G, H : /\ F = ToSet(flat) /\ G = ToSet(sent)
                           /\ H = ToSet(received)
        OBVIOUS
      <4>4. F = G \cup H
        BY <3>3a, <4>2, <4>3, Zenon
      <4>5. /\ ToSet(found) = {txToRpcResp(t) : t \in F}
            /\ ToSet(QueryTxBySrc(a, m, n, 0)) = {txToRpcResp(t) : t \in G}
            /\ ToSet(QueryTxByDst(a, m, n, 0)) = {txToRpcResp(t) : t \in H}
        BY <3>4, <3>5, <4>3
      <4> QED
        BY <4>4, <4>5
    <3>9. ASSUME NEW i \in 2 .. Len(found)
          PROVE  IF Resolved(m) <= Resolved(n)
                 THEN found[i - 1].blockNumber <= found[i].blockNumber
                 ELSE found[i - 1].blockNumber >= found[i].blockNumber
      <4>1. Len(found) = Len(flat) /\ Len(flat) \in Nat
        BY <3>3a, <3>4, <3>5
      <4>2. i \in 1 .. Len(flat) /\ i - 1 \in 1 .. Len(flat) /\ i - 1 <= i
        BY <4>1
      <4>3. /\ found[i].blockNumber = flat[i].BlockNumber
            /\ found[i - 1].blockNumber = flat[i - 1].BlockNumber
        BY <3>4, <3>5, <3>6, <4>2
      <4> QED
        BY <3>1, <4>2, <4>3 DEF AnswerOK
    <3>10. \A k \in 1 .. Len(found) :
              QueryTxByAddr(a, m, n, k) = SubSeq(found, 1, k)
      BY <3>4, <3>5
    <3> HIDE DEF heights
    <3> QED
      BY <3>7, <3>8, <3>9, <3>10 DEF found, heights
  <2> QED
    BY <2>1, <2>2 DEF RangesInclusive
<1> QED
  BY <1>1, IInvHolds, PTL
=============================================================================
