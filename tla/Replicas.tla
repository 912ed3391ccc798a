------------------------------ MODULE Replicas -------------------------------
(***************************************************************************)
(* Several nodes that commit the same blocks, each with a main chain       *)
(* watcher of its own: do they compute the same state, and return the same *)
(* validator updates to Tendermint? The part of app.go's Commit that reads *)
(* EpochChan, keeps epochList and sets currValidators is modelled here for *)
(* each node; App has the rest of Commit, for one node.                    *)
(*                                                                         *)
(* A node's state is the sequence of what changed it: epochs that took     *)
(* effect and transactions that were executed. Which validators are active *)
(* depends on all of it, so currValidators is the state it was read from.  *)
(*                                                                         *)
(* External: Tendermint decides a block per unit of time, its timestamp    *)
(* being its height; the watchers (EpochSource), which send the i-th epoch *)
(* once the main chain has got to its end, and before the node commits a   *)
(* block that is more than Lag younger.                                    *)
(***************************************************************************)
EXTENDS Integers, Sequences, FiniteSets

CONSTANTS
    Nodes,
    EndTime,            \* the end times of the epochs, in order
    Changing,           \* heights of blocks with staking transactions
    Lag,                \* bound on a watcher's delay
    EpochSwitchDelay,   \* 100*10*60 seconds in the source
    MaxHeight           \* bound

ASSUME ReplicasAssumption ==
    /\ EndTime \in Seq(Nat)
    /\ Changing \subseteq Nat
    /\ Lag \in Nat
    /\ EpochSwitchDelay \in Nat
    /\ MaxHeight \in Nat

VARIABLES
    decided,        \* the height of the last decided block
    height,         \* app.currHeight of each node
    state,          \* what each node's store went through
    epochChan,      \* watcher.EpochChan, with the number of an epoch
    sent,           \* how many epochs each watcher has sent
    epochList,
    currValidators

vars == <<decided, height, state, epochChan, sent, epochList, currValidators>>

Init ==
    /\ decided = 0
    /\ height = [n \in Nodes |-> 0]
    /\ state = [n \in Nodes |-> <<>>]
    /\ epochChan = [n \in Nodes |-> <<>>]
    /\ sent = [n \in Nodes |-> 0]
    /\ epochList = [n \in Nodes |-> <<>>]
    /\ currValidators = [n \in Nodes |-> <<>>]

-----------------------------------------------------------------------------
Decide ==
    /\ decided < MaxHeight
    /\ decided' = decided + 1
    /\ UNCHANGED <<height, state, epochChan, sent, epochList, currValidators>>

(* A watcher is ahead of a node that catches up with the chain.            *)
SendEpoch(n) ==
    /\ sent[n] < Len(EndTime)
    /\ EndTime[sent[n] + 1] <= decided
    /\ epochChan[n] = <<>>
    /\ epochChan' = [epochChan EXCEPT ![n] = <<sent[n] + 1>>]
    /\ sent' = [sent EXCEPT ![n] = @ + 1]
    /\ UNCHANGED <<decided, height, state, epochList, currValidators>>

InTime(n, h) ==
    \A i \in DOMAIN EndTime : EndTime[i] + Lag < h => i <= sent[n]

-----------------------------------------------------------------------------
EpochsAtCommit(n) == epochList[n] \o epochChan[n]

FaultyEpochDue(list, h) ==
    /\ list # <<>>
    /\ h > EndTime[Head(list)]

EpochDue(list, h) ==
    /\ list # <<>>
    /\ h > EndTime[Head(list)] + EpochSwitchDelay

Switched(list, h, st) ==
    IF EpochDue(list, h) THEN Append(st, <<"epoch", Head(list)>>) ELSE st

FaultyValidatorsAtCommit(list, h, st, curr) ==
    IF list = <<>> THEN st ELSE curr

(* While an epoch waits, currValidators is left as it was.                 *)
ValidatorsAtCommit(list, h, st, curr) ==
    IF EpochDue(list, h) \/ list = <<>> THEN st ELSE curr

Ran(h, st) == IF h \in Changing THEN Append(st, <<"txs", h>>) ELSE st

(* Commit, and the execution of the block's transactions by postCommit.    *)
Commit(n) ==
    LET h == height[n] + 1
        list == EpochsAtCommit(n)
        switched == Switched(list, h, state[n])
    IN  /\ h <= decided
        /\ InTime(n, h)
        /\ height' = [height EXCEPT ![n] = h]
        /\ epochChan' = [epochChan EXCEPT ![n] = <<>>]
        /\ epochList' = [epochList EXCEPT ![n] =
                            IF EpochDue(list, h) THEN Tail(list) ELSE list]
        /\ currValidators' = [currValidators EXCEPT ![n] =
                                ValidatorsAtCommit(list, h, switched, @)]
        /\ state' = [state EXCEPT ![n] = Ran(h, switched)]
        /\ UNCHANGED <<decided, sent>>

Next ==
    \/ Decide
    \/ \E n \in Nodes : SendEpoch(n) \/ Commit(n)

Spec == Init /\ [][Next]_vars

-----------------------------------------------------------------------------
(* Nodes that have committed the same blocks are in the same state: every  *)
(* epoch takes effect in the same block everywhere, although each watcher  *)
(* delivers it at another moment and no node asks another.                 *)
SameState ==
    \A m, n \in Nodes : height[m] = height[n] => state[m] = state[n]

(* EndBlock of two nodes returns the same validator updates, unless an     *)
(* epoch waits in the list of one of them: that node's currValidators stay *)
(* as they were, and the other's follow the transactions.                  *)
SameValidators ==
    \A m, n \in Nodes :
        /\ height[m] = height[n]
        /\ epochList[m] = <<>>
        /\ epochList[n] = <<>>
        => currValidators[m] = currValidators[n]
=============================================================================
