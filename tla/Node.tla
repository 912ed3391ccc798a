-------------------------------- MODULE Node ---------------------------------
(***************************************************************************)
(* What a node keeps on disk through stops, crashes and restarts:          *)
(* app/app.go (NewApp, reload, refresh, publishNewBlock).                  *)
(*                                                                         *)
(* Commit of block H+1 makes the state durable, with the header of H+1 and *)
(* the transactions waiting for execution in it, and only then writes      *)
(* block H, with the transactions executed since the Commit of H, into the *)
(* history store. postCommit executes in memory. A crash may fall between  *)
(* any two steps.                                                          *)
(*                                                                         *)
(* External: Tendermint, which has decided Chain and resumes after the     *)
(* height that Info reports; the engine, which executes all waiting        *)
(* transactions, the Slow ones one block later; moeingdb, whose AddBlock   *)
(* first completes the block before (AddBlockFotTest, "To Flush").         *)
(***************************************************************************)
EXTENDS Integers, Sequences, SequencesExt, FiniteSets

CONSTANTS
    Chain,          \* blocks: hash, timestamp and transactions
    Txs, Slow,
    MaxCrashes,     \* bounds
    MaxStops

ASSUME NodeAssumption ==
    /\ Chain \in Seq([Hash : Nat \ {0}, Timestamp : Nat, txs : Seq(Txs)])
    /\ Slow \subseteq Txs
    /\ MaxCrashes \in Nat
    /\ MaxStops \in Nat

(* A transaction is decided once: of one that is decided again the nonce   *)
(* is used, and the engine's Prepare leaves it out.                        *)
ASSUME DecidedOnce ==
    \A n, m \in DOMAIN Chain :
        \A i \in DOMAIN Chain[n].txs, j \in DOMAIN Chain[m].txs :
            Chain[n].txs[i] = Chain[m].txs[j] => n = m /\ i = j

NoInfo == [Number |-> 0, Hash |-> 0, Timestamp |-> 0]

Header(n) ==
    [Number |-> n, Hash |-> Chain[n].Hash, Timestamp |-> Chain[n].Timestamp]

VARIABLES
    root,           \* on disk: CurrBlockBasicInfo, standby, executions
    history,        \* on disk: the history store
    adding,         \* the block that AddBlock is still writing
    up,             \* the process runs
    phase,          \* where Tendermint and Commit are
    mtx,            \* held by postCommit
    block,          \* app.block (and app.currHeight)
    prevBlkInfo,    \* refresh's local variable
    blockInfo,      \* app.blockInfo
    standby,        \* the engine's queue, in memory
    committed,      \* txEngine.CommittedTxs, with the info they ran with
    published,      \* heights sent to subscribers by this process
    reloaded,       \* heights at which the process was restarted
    crashes, stops

diskVars == <<root, history, adding>>
blockVars == <<block, prevBlkInfo, blockInfo>>
engineVars == <<standby, committed>>
faults == <<reloaded, crashes, stops>>
vars == <<diskVars, up, phase, mtx, blockVars, engineVars, published, faults>>

-----------------------------------------------------------------------------
(* BeginBlock, DeliverTx and EndBlock of the next block, which may run     *)
(* while postCommit still executes the last one.                           *)
NextBlock ==
    /\ up
    /\ phase = "begin"
    /\ block.Number < Len(Chain)
    /\ block' = Header(block.Number + 1)
    /\ phase' = "commit"
    /\ UNCHANGED <<diskVars, up, mtx, prevBlkInfo, blockInfo, engineVars,
                   published, faults>>

FaultyWaiting(n) ==
    {[tx |-> Chain[n].txs[i], since |-> n] : i \in DOMAIN Chain[n].txs}

(* Prepare: the transactions of block n join those that still wait.        *)
Waiting(n) ==
    standby \cup {[tx |-> Chain[n].txs[i], since |-> n] :
                    i \in DOMAIN Chain[n].txs}

FaultyPrevBlkInfo == blockInfo

(* refresh reads the header of the block before from the state.            *)
PrevBlkInfo == root.info

(* Commit up to trunk.Close(true): the new state is on disk.               *)
CommitRoot ==
    /\ up
    /\ phase = "commit"
    /\ ~mtx
    /\ prevBlkInfo' = PrevBlkInfo
    /\ root' = [info |-> block, standby |-> Waiting(block.Number),
                ran |-> root.ran \cup ToSet(committed)]
    /\ standby' = Waiting(block.Number)
    /\ phase' = IF PrevBlkInfo = NoInfo THEN "execute" ELSE "history"
    /\ UNCHANGED <<history, adding, up, mtx, block, blockInfo, committed,
                   published, faults>>

FaultyRecorded ==
    LET decided == SelectSeq(committed, LAMBDA e :
                        e.tx \in ToSet(Chain[prevBlkInfo.Number].txs))
    IN  [i \in 1 .. Len(decided) |->
            [tx |-> decided[i].tx, BlockNumber |-> decided[i].info.Number,
             BlockHash |-> decided[i].info.Hash, TransactionIndex |-> i - 1]]

(* A transaction as the engine recorded it when it ran.                    *)
Recorded ==
    [i \in 1 .. Len(committed) |->
        [tx |-> committed[i].tx, BlockNumber |-> committed[i].info.Number,
         BlockHash |-> committed[i].info.Hash, TransactionIndex |-> i - 1]]

HistoryBlock == {[info |-> prevBlkInfo, txs |-> Recorded]}

Written == [n \in DOMAIN history \cup {b.info.Number : b \in adding} |->
                IF n \in DOMAIN history THEN history[n]
                ELSE CHOOSE b \in adding : b.info.Number = n]

(* historyStore.AddBlock                                                   *)
AddBlock ==
    /\ up
    /\ phase = "history"
    /\ history' = Written
    /\ adding' = HistoryBlock
    /\ phase' = "publish"
    /\ UNCHANGED <<root, up, mtx, blockVars, engineVars, published, faults>>

(* It ends in the background.                                              *)
Flush ==
    /\ adding # {}
    /\ history' = Written
    /\ adding' = {}
    /\ UNCHANGED <<root, up, phase, mtx, blockVars, engineVars, published,
                   faults>>

FaultyToPublish == block.Number

ToPublish == prevBlkInfo.Number

PublishNewBlock ==
    /\ up
    /\ phase = "publish"
    /\ published' = Append(published, ToPublish)
    /\ phase' = "execute"
    /\ UNCHANGED <<diskVars, up, mtx, blockVars, engineVars, faults>>

(* The end of Commit: syncBlockInfo, and postCommit is started.            *)
StartPostCommit ==
    /\ up
    /\ phase = "execute"
    /\ blockInfo' = block
    /\ committed' = <<>>
    /\ mtx' = TRUE
    /\ phase' = "begin"
    /\ UNCHANGED <<diskVars, up, block, prevBlkInfo, standby, published,
                   faults>>

-----------------------------------------------------------------------------
(* external: Execute, in an order that only the engine knows.              *)
Ready(queue, n) == {e \in queue : e.tx \notin Slow \/ e.since < n}

Executed(queue, info) ==
    LET txs == SetToSeq({e.tx : e \in Ready(queue, info.Number)})
    IN  [i \in 1 .. Len(txs) |->
            [tx |-> txs[i], info |-> info]]

(* postCommit                                                              *)
PostCommit ==
    /\ up
    /\ mtx
    /\ committed' = Executed(standby, blockInfo)
    /\ standby' = standby \ Ready(standby, blockInfo.Number)
    /\ mtx' = FALSE
    /\ UNCHANGED <<diskVars, up, phase, blockVars, published, faults>>

-----------------------------------------------------------------------------
Down ==
    /\ up
    /\ up' = FALSE
    /\ phase' = "begin"
    /\ mtx' = FALSE
    /\ block' = NoInfo
    /\ prevBlkInfo' = NoInfo
    /\ blockInfo' = NoInfo
    /\ standby' = {}
    /\ committed' = <<>>
    /\ published' = <<>>
    /\ adding' = {}
    /\ UNCHANGED root

(* app.Stop closes the history store.                                      *)
Stop ==
    /\ phase = "begin"
    /\ stops < MaxStops
    /\ Down
    /\ history' = Written
    /\ stops' = stops + 1
    /\ UNCHANGED <<reloaded, crashes>>

(* The block that is being written may or may not get to the disk.         *)
Crash ==
    /\ crashes < MaxCrashes
    /\ Down
    /\ history' \in {history, Written}
    /\ crashes' = crashes + 1
    /\ UNCHANGED <<reloaded, stops>>

FaultyReloaded(n) == NoInfo

(* NewApp and reload: of the last block only the number is taken from the  *)
(* state, and what was waiting is executed with that.                      *)
Reloaded(n) == [Number |-> n, Hash |-> 0, Timestamp |-> 0]

Restart ==
    LET n == root.info.Number
    IN  /\ ~up
        /\ up' = TRUE
        /\ block' = Reloaded(n)
        /\ blockInfo' = Reloaded(n)
        /\ committed' = IF n = 0 THEN <<>>
                        ELSE Executed(root.standby, Reloaded(n))
        /\ standby' = IF n = 0 THEN {}
                      ELSE root.standby \ Ready(root.standby, n)
        /\ reloaded' = reloaded \cup {n}
        /\ UNCHANGED <<diskVars, phase, mtx, prevBlkInfo, published, crashes,
                       stops>>

Init ==
    /\ root = [info |-> NoInfo, standby |-> {}, ran |-> {}]
    /\ history = <<>>
    /\ adding = {}
    /\ up = TRUE
    /\ phase = "begin"
    /\ mtx = FALSE
    /\ block = NoInfo
    /\ prevBlkInfo = NoInfo
    /\ blockInfo = NoInfo
    /\ standby = {}
    /\ committed = <<>>
    /\ published = <<>>
    /\ reloaded = {}
    /\ crashes = 0
    /\ stops = 0

CommitStep ==
    CommitRoot \/ AddBlock \/ PublishNewBlock \/ StartPostCommit

Next ==
    \/ NextBlock
    \/ CommitStep
    \/ Flush
    \/ PostCommit
    \/ Stop
    \/ Crash
    \/ Restart

(* Blocks keep coming, goroutines run and the operator restarts the node.  *)
Spec ==
    /\ Init
    /\ [][Next]_vars
    /\ WF_vars(NextBlock)
    /\ WF_vars(CommitStep)
    /\ WF_vars(PostCommit)
    /\ WF_vars(Flush)
    /\ WF_vars(Restart)

-----------------------------------------------------------------------------
Executions ==
    [tx : Txs, info : {Header(n) : n \in DOMAIN Chain}
                      \cup [Number : DOMAIN Chain, Hash : {0},
                           Timestamp : {0}]]

(* The type of every variable; the history store never gets a block of     *)
(* another height than the one it is stored under.                         *)
TypeOK ==
    /\ root.info \in {NoInfo} \cup {Header(n) : n \in DOMAIN Chain}
    /\ root.standby \subseteq [tx : Txs, since : DOMAIN Chain]
    /\ root.ran \subseteq Executions
    /\ \A n \in DOMAIN history : history[n].info.Number = n
    /\ Cardinality(adding) <= 1
    /\ phase \in {"begin", "commit", "history", "publish", "execute"}
    /\ up \in BOOLEAN /\ mtx \in BOOLEAN
    /\ block.Number \in 0 .. Len(Chain)
    /\ ToSet(committed) \subseteq Executions
    /\ crashes \in 0 .. MaxCrashes /\ stops \in 0 .. MaxStops

ExecutedIn(b) == {b.txs[i].tx : i \in DOMAIN b.txs}

(* refresh: a block of the history store has the header that was decided   *)
(* for its height, and the transactions it lists were executed once, after *)
(* they were decided and in no other block, also when the process was      *)
(* stopped or crashed while they waited, ran or were written.              *)
HistoryFaithful ==
    \A n \in DOMAIN Written :
        /\ Written[n].info = Header(n)
        /\ \A x \in ExecutedIn(Written[n]) :
              \E m \in 1 .. n : x \in ToSet(Chain[m].txs)
        /\ Cardinality(ExecutedIn(Written[n])) = Len(Written[n].txs)
        /\ \A m \in DOMAIN Written \ {n} :
              ExecutedIn(Written[m]) \cap ExecutedIn(Written[n]) = {}

BeingWritten == IF phase = "history" THEN {prevBlkInfo.Number} ELSE {}

Missing ==
    (1 .. root.info.Number - 1) \ (DOMAIN Written \cup BeingWritten)

(* refresh commits the state before it stores the block before: a crash    *)
(* leaves that block, and the one whose writing had not ended, out of the  *)
(* history for ever; nothing else leaves one out, neither a block without  *)
(* transactions nor app.Stop. So too a transaction that changed the state  *)
(* on disk is in the history, unless a crash lost its block.               *)
LostOnlyByCrashes ==
    /\ Cardinality(Missing) <= 2 * crashes
    /\ crashes = 0 =>
        {e.tx : e \in root.ran} \subseteq
            (UNION {ExecutedIn(Written[n]) : n \in DOMAIN Written})
            \cup (IF phase = "history" THEN {e.tx : e \in ToSet(committed)}
                  ELSE {})

(* publishNewBlock: subscribers are told of consecutive heights, each in   *)
(* the history store, or being written to it, when they are told.          *)
PublishedAreStored ==
    /\ ToSet(published) \subseteq DOMAIN Written
    /\ \A i \in 2 .. Len(published) : published[i] = published[i - 1] + 1

(* A transaction that was decided two or more blocks before the last is in *)
(* the end executed in the state on disk, whatever stops and crashes there *)
(* were while it waited: what is lost of an execution in memory is done    *)
(* again by reload.                                                        *)
DecidedAreExecuted ==
    \A n \in 1 .. Len(Chain) - 2 : \A x \in ToSet(Chain[n].txs) :
        <>(x \in {e.tx : e \in root.ran})
=============================================================================
