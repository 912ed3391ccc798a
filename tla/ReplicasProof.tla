---------------------------- MODULE ReplicasProof ----------------------------
(***************************************************************************)
(* Nodes that commit the same blocks are in the same state, for any number *)
(* of nodes, epochs and blocks, provided that no watcher is later than     *)
(* EpochSwitchDelay.                                                       *)
(*                                                                         *)
(* The argument: which epoch takes effect in a block is a function of the  *)
(* blocks alone. A history f says, for every decided height, how many      *)
(* epochs took effect up to it and what the state then is; it is computed  *)
(* from the blocks' timestamps without looking at any watcher (Following). *)
(* Every node's state is the one that f has at its height (InStep).        *)
(***************************************************************************)
EXTENDS Replicas, TLAPS

(* The block at height h after a block that left r: epoch r.k + 1 takes    *)
(* effect if its delay is over.                                            *)
Due(h, r) == r.k < Len(EndTime) /\ h > EndTime[r.k + 1] + EpochSwitchDelay

Entered(h, r) ==
    IF Due(h, r) THEN Append(r.st, <<"epoch", r.k + 1>>) ELSE r.st

Following(h, r) ==
    [k  |-> IF Due(h, r) THEN r.k + 1 ELSE r.k,
     sw |-> Entered(h, r),
     st |-> Ran(h, Entered(h, r))]

History(f) ==
    /\ f[0] = [k |-> 0, sw |-> <<>>, st |-> <<>>]
    /\ \A h \in 1 .. decided : f[h] = Following(h, f[h - 1])
    /\ \A h \in 0 .. decided : f[h].k \in 0 .. Len(EndTime)

(* The epochs after the k-th, up to the m-th, in order.                    *)
Consecutive(list, k, m) ==
    /\ list \in Seq(Nat)
    /\ Len(list) = m - k
    /\ \A i \in 1 .. m - k : list[i] = k + i

(* A node's epochs are the ones that were sent and have not taken effect.  *)
Waiting(n, k) ==
    /\ epochList[n] \in Seq(Nat)
    /\ epochChan[n] \in Seq(Nat)
    /\ sent[n] \in k .. Len(EndTime)
    /\ Consecutive(EpochsAtCommit(n), k, sent[n])

InStep(f, n) ==
    /\ height[n] \in 0 .. decided
    /\ state[n] = f[height[n]].st
    /\ Waiting(n, f[height[n]].k)
    /\ epochList[n] = <<>> => currValidators[n] = f[height[n]].sw

PerNode ==
    /\ DOMAIN height = Nodes
    /\ DOMAIN state = Nodes
    /\ DOMAIN epochChan = Nodes
    /\ DOMAIN sent = Nodes
    /\ DOMAIN epochList = Nodes
    /\ DOMAIN currValidators = Nodes

IInv ==
    /\ decided \in Nat
    /\ PerNode
    /\ \E f : History(f) /\ \A n \in Nodes : InStep(f, n)

-----------------------------------------------------------------------------
(* What sending an epoch and letting one take effect do to those that      *)
(* wait.                                                                   *)
LEMMA ConsecutiveGrows ==
    ASSUME NEW k \in Nat, NEW m \in Nat, k <= m,
           NEW list, Consecutive(list, k, m)
    PROVE  Consecutive(list \o <<m + 1>>, k, m + 1)
<1>1. PICK longer : longer = list \o <<m + 1>>
  OBVIOUS
<1>2. /\ list \in Seq(Nat)
      /\ Len(list) = m - k
      /\ \A i \in 1 .. m - k : list[i] = k + i
  BY DEF Consecutive
<1>3. /\ longer \in Seq(Nat)
      /\ Len(longer) = (m - k) + 1
      /\ \A i \in 1 .. m - k : longer[i] = list[i]
      /\ longer[(m - k) + 1] = m + 1
  <2>1. PICK d \in Nat : d = m - k
    OBVIOUS
  <2>2. list \in Seq(Nat) /\ Len(list) = d
    BY <1>2, <2>1
  <2>3. /\ longer \in Seq(Nat)
        /\ Len(longer) = d + 1
        /\ \A i \in 1 .. d : longer[i] = list[i]
        /\ longer[d + 1] = m + 1
    BY <2>2, <1>1
  <2> QED
    BY <2>1, <2>3
<1>4. \A i \in 1 .. (m + 1) - k : i \in 1 .. m - k \/ i = (m - k) + 1
  OBVIOUS
<1>5. k + ((m - k) + 1) = m + 1 /\ (m - k) + 1 = (m + 1) - k
  OBVIOUS
<1>6. \A i \in 1 .. (m + 1) - k : longer[i] = k + i
  BY <1>2, <1>3, <1>4, <1>5
<1>7. Consecutive(longer, k, m + 1)
  BY <1>3, <1>5, <1>6 DEF Consecutive
<1> QED
  BY <1>1, <1>7

(* The first epoch of a list of consecutive ones is taken off.             *)
LEMMA ConsecutiveShrinks ==
    ASSUME NEW k \in Nat, NEW m \in Nat, k <= m,
           NEW list, Consecutive(list, k, m), list # <<>>
    PROVE  /\ k < m
           /\ Head(list) = k + 1
           /\ Consecutive(Tail(list), k + 1, m)
<1> PICK d \in Nat : d = m - k
  OBVIOUS
<1>1. list \in Seq(Nat) /\ Len(list) = d /\ \A i \in 1 .. d : list[i] = k + i
  BY DEF Consecutive
<1>2. d # 0
  BY <1>1
<1>3. k < m /\ Head(list) = k + 1
  BY <1>1, <1>2
<1>4. /\ Tail(list) \in Seq(Nat)
      /\ Len(Tail(list)) = d - 1
      /\ \A i \in 1 .. d - 1 : Tail(list)[i] = list[i + 1]
  BY <1>1, <1>2
<1>5. \A i \in 1 .. d - 1 : list[i + 1] = (k + 1) + i
  BY <1>1, <1>2
<1>6. d - 1 = m - (k + 1)
  OBVIOUS
<1> QED
  BY <1>3, <1>4, <1>5, <1>6 DEF Consecutive

-----------------------------------------------------------------------------
(* At the start every node is at height 0.                                 *)
LEMMA InitIInv == Init => IInv
<1> SUFFICES ASSUME Init PROVE IInv
  OBVIOUS
<1> DEFINE f == [h \in {0} |-> [k |-> 0, sw |-> <<>>, st |-> <<>>]]
<1>1. decided = 0 /\ PerNode
  BY DEF Init, PerNode
<1>2. Len(EndTime) \in Nat
  BY ReplicasAssumption
<1>3. History(f)
  BY <1>1, <1>2 DEF History
<1>4. ASSUME NEW n \in Nodes PROVE InStep(f, n)
  <2>1. /\ height[n] = 0 /\ sent[n] = 0 /\ state[n] = <<>>
        /\ epochList[n] = <<>> /\ epochChan[n] = <<>>
        /\ currValidators[n] = <<>>
    BY DEF Init
  <2>2. EpochsAtCommit(n) = <<>>
    BY <2>1 DEF EpochsAtCommit
  <2>3. Waiting(n, 0)
    BY <2>1, <2>2, <1>2 DEF Waiting, Consecutive
  <2> QED
    BY <1>1, <2>1, <2>3 DEF InStep
<1> QED
  BY <1>1, <1>3, <1>4 DEF IInv

(* A new block extends the history and moves no node.                      *)
LEMMA DecideIInv ==
    ASSUME IInv, Decide
    PROVE  IInv'
<1>1. /\ decided \in Nat /\ decided' = decided + 1
      /\ UNCHANGED <<height, state, epochChan, sent, epochList,
                     currValidators>>
  BY DEF IInv, Decide
<1>2. PICK f : History(f) /\ \A n \in Nodes : InStep(f, n)
  BY DEF IInv
<1>3. PICK h : h = decided + 1
  OBVIOUS
<1>4. PICK g : /\ \A i \in 0 .. decided : g[i] = f[i]
               /\ g[h] = Following(h, f[decided])
  <2> DEFINE next == Following(h, f[decided])
             g == [i \in 0 .. h |-> IF i = h THEN next ELSE f[i]]
  <2>1. /\ \A i \in 0 .. decided : g[i] = f[i]
        /\ g[h] = next
    <3> HIDE DEF next
    <3> QED
      BY <1>1, <1>3
  <2> QED
    BY <2>1
<1>5. g[h].k \in 0 .. Len(EndTime)
  <2>1. Len(EndTime) \in Nat
    BY ReplicasAssumption
  <2>2. f[decided].k \in 0 .. Len(EndTime)
    BY <1>1, <1>2 DEF History
  <2>3. g[h].k = IF Due(h, f[decided]) THEN f[decided].k + 1 ELSE f[decided].k
    BY <1>4 DEF Following
  <2> QED
    BY <2>1, <2>2, <2>3 DEF Due
<1>6. History(g)'
  <2>1. g[0] = [k |-> 0, sw |-> <<>>, st |-> <<>>]
    BY <1>1, <1>2, <1>4 DEF History
  <2>2. ASSUME NEW i \in 1 .. h PROVE g[i] = Following(i, g[i - 1])
    <3>1. CASE i = h
      <4>1. i - 1 = decided /\ decided \in 0 .. decided
        BY <3>1, <1>1, <1>3
      <4> QED
        BY <3>1, <4>1, <1>4
    <3>2. CASE i # h
      <4>1. i \in 1 .. decided /\ i - 1 \in 0 .. decided /\ i \in 0 .. decided
        BY <3>2, <1>1, <1>3
      <4> QED
        BY <4>1, <1>2, <1>4 DEF History
    <3> QED
      BY <3>1, <3>2
  <2>3. \A i \in 0 .. h : g[i].k \in 0 .. Len(EndTime)
    <3>1. \A i \in 0 .. h : i \in 0 .. decided \/ i = h
      BY <1>1, <1>3
    <3> QED
      BY <3>1, <1>2, <1>4, <1>5 DEF History
  <2> QED
    BY <2>1, <2>2, <2>3, <1>1, <1>3 DEF History
<1>7. ASSUME NEW n \in Nodes PROVE InStep(g, n)'
  <2>1. InStep(f, n) /\ g[height[n]] = f[height[n]]
    BY <1>2, <1>4 DEF InStep
  <2>2. height[n] \in 0 .. decided'
    BY <2>1, <1>1 DEF InStep
  <2>3. Waiting(n, g[height[n]].k)'
    BY <2>1, <1>1 DEF InStep, Waiting, EpochsAtCommit
  <2> QED
    BY <2>1, <2>2, <2>3, <1>1 DEF InStep
<1>8. PerNode'
  BY <1>1 DEF IInv, PerNode
<1> QED
  BY <1>1, <1>6, <1>7, <1>8 DEF IInv

(* A watcher's epoch goes to the end of what waits.                        *)
LEMMA SendIInv ==
    ASSUME IInv, NEW n \in Nodes, SendEpoch(n)
    PROVE  IInv'
<1>1. PICK f : History(f) /\ \A m \in Nodes : InStep(f, m)
  BY DEF IInv
<1> PICK k : k = f[height[n]].k
  OBVIOUS
<1>2. /\ sent[n] < Len(EndTime)
      /\ epochChan[n] = <<>>
      /\ epochChan' = [epochChan EXCEPT ![n] = <<sent[n] + 1>>]
      /\ sent' = [sent EXCEPT ![n] = sent[n] + 1]
      /\ UNCHANGED <<decided, height, state, epochList, currValidators>>
  BY DEF SendEpoch
<1>3. PerNode' /\ decided' \in Nat
  BY <1>2 DEF IInv, PerNode
<1>4. History(f)'
  BY <1>1, <1>2 DEF History
<1>5. ASSUME NEW m \in Nodes, m # n PROVE InStep(f, m)'
  <2>1. epochChan'[m] = epochChan[m] /\ sent'[m] = sent[m]
    BY <1>2, <1>5 DEF IInv, PerNode
  <2> QED
    BY <1>1, <1>2, <2>1 DEF InStep, Waiting, EpochsAtCommit
<1>6. Waiting(n, k)'
  <2>1. /\ Waiting(n, k)
        /\ k \in Nat /\ Len(EndTime) \in Nat
    BY <1>1, ReplicasAssumption DEF InStep, History
  <2>2. epochChan'[n] = <<sent[n] + 1>> /\ sent'[n] = sent[n] + 1
    BY <1>2 DEF IInv, PerNode
  <2> DEFINE list == epochList[n]
  <2>3. list \in Seq(Nat) /\ sent[n] \in k .. Len(EndTime)
    BY <2>1 DEF Waiting
  <2>4. EpochsAtCommit(n) = list
    BY <2>3, <1>2 DEF EpochsAtCommit
  <2>5. EpochsAtCommit(n)' = list \o <<sent[n] + 1>>
    BY <1>2, <2>2 DEF EpochsAtCommit
  <2>6. Consecutive(EpochsAtCommit(n), k, sent[n])'
    <3>1. Consecutive(list \o <<sent[n] + 1>>, k, sent[n] + 1)
      <4>1. Consecutive(list, k, sent[n])
        BY <2>1, <2>4 DEF Waiting
      <4>2. sent[n] \in Nat /\ k <= sent[n]
        BY <2>1, <2>3
      <4> HIDE DEF list
      <4> QED
        BY <2>1, <4>1, <4>2, ConsecutiveGrows
    <3> QED
      BY <3>1, <2>2, <2>5 DEF Consecutive
  <2>7. epochChan'[n] \in Seq(Nat) /\ sent'[n] \in k .. Len(EndTime)
    BY <2>1, <2>2, <2>3, <1>2
  <2> QED
    BY <1>2, <2>3, <2>6, <2>7 DEF Waiting
<1>7. InStep(f, n)'
  <2>1. InStep(f, n)
    BY <1>1
  <2> QED
    BY <2>1, <1>2, <1>6 DEF InStep
<1> QED
  BY <1>3, <1>4, <1>5, <1>7 DEF IInv

(* Of the epochs that wait, the head takes effect in the block that the    *)
(* history says. This is where a watcher must not be later than the delay: *)
(* an epoch that is due has been sent.                                     *)
LEMMA SameDue ==
    ASSUME Lag <= EpochSwitchDelay,
           NEW n \in Nodes, NEW h \in Nat, InTime(n, h),
           NEW r, r.k \in Nat, Waiting(n, r.k)
    PROVE  /\ EpochDue(EpochsAtCommit(n), h) <=> Due(h, r)
           /\ Due(h, r) => /\ Head(EpochsAtCommit(n)) = r.k + 1
                           /\ r.k < sent[n]
<1> PICK list : list = EpochsAtCommit(n)
  OBVIOUS
<1> PICK k : k = r.k
  OBVIOUS
<1>1. /\ k \in Nat /\ sent[n] \in Nat /\ k <= sent[n]
      /\ sent[n] <= Len(EndTime) /\ Len(EndTime) \in Nat
      /\ Consecutive(list, k, sent[n])
  BY ReplicasAssumption DEF Waiting
<1>2. list # <<>> => k < sent[n] /\ Head(list) = k + 1
  BY <1>1, ConsecutiveShrinks
<1>3. k < sent[n] => list # <<>>
  BY <1>1 DEF Consecutive
<1>4. ASSUME k < Len(EndTime), h > EndTime[k + 1] + EpochSwitchDelay
      PROVE  k < sent[n]
  <2>1. k + 1 \in 1 .. Len(EndTime) /\ EndTime[k + 1] \in Nat
    BY <1>1, <1>4, ReplicasAssumption, SMTT(20)
  <2>2. EndTime[k + 1] + Lag < h
    BY <2>1, <1>4, ReplicasAssumption
  <2>3. k + 1 \in DOMAIN EndTime
    BY <2>1, ReplicasAssumption
  <2>4. k + 1 <= sent[n]
    BY <2>2, <2>3 DEF InTime
  <2> QED
    BY <2>4, <1>1
<1>5. Due(h, r) <=> k < Len(EndTime) /\ h > EndTime[k + 1] + EpochSwitchDelay
  BY DEF Due
<1>6. EpochDue(list, h) <=> /\ list # <<>>
                            /\ h > EndTime[Head(list)] + EpochSwitchDelay
  BY DEF EpochDue
<1>7. k < sent[n] => k < Len(EndTime)
  BY <1>1
<1>8. EpochDue(list, h) <=> Due(h, r)
  BY <1>2, <1>3, <1>4, <1>5, <1>6, <1>7
<1>9. Due(h, r) => Head(list) = k + 1 /\ k < sent[n]
  BY <1>2, <1>6, <1>8
<1> QED
  BY <1>8, <1>9

(* Commit takes the node to what the history has at the next height.       *)
LEMMA CommitIInv ==
    ASSUME Lag <= EpochSwitchDelay,
           IInv, NEW n \in Nodes, Commit(n)
    PROVE  IInv'
<1>1. PICK f : History(f) /\ \A m \in Nodes : InStep(f, m)
  BY DEF IInv
<1>2. PICK h : h = height[n] + 1
  OBVIOUS
<1>3. PICK list : list = EpochsAtCommit(n)
  OBVIOUS
<1>4. PICK switched : switched = Switched(list, h, state[n])
  OBVIOUS
<1>5. PICK r : r = f[height[n]]
  OBVIOUS
<1>6. /\ h <= decided
      /\ InTime(n, h)
      /\ height' = [height EXCEPT ![n] = h]
      /\ epochChan' = [epochChan EXCEPT ![n] = <<>>]
      /\ epochList' = [epochList EXCEPT ![n] =
                          IF EpochDue(list, h) THEN Tail(list) ELSE list]
      /\ currValidators' = [currValidators EXCEPT ![n] =
              ValidatorsAtCommit(list, h, switched, currValidators[n])]
      /\ state' = [state EXCEPT ![n] = Ran(h, switched)]
      /\ UNCHANGED <<decided, sent>>
  BY <1>2, <1>3, <1>4, Zenon DEF Commit
<1>7. /\ height'[n] = h
      /\ epochChan'[n] = <<>>
      /\ epochList'[n] = IF EpochDue(list, h) THEN Tail(list) ELSE list
      /\ currValidators'[n] =
            ValidatorsAtCommit(list, h, switched, currValidators[n])
      /\ state'[n] = Ran(h, switched)
      /\ sent'[n] = sent[n]
  BY <1>6 DEF IInv, PerNode
<1>8. PerNode' /\ decided' \in Nat
  BY <1>6 DEF IInv, PerNode
<1>9. History(f)'
  BY <1>1, <1>6 DEF History
<1>10. ASSUME NEW m \in Nodes, m # n PROVE InStep(f, m)'
  <2>1. /\ height'[m] = height[m] /\ epochChan'[m] = epochChan[m]
        /\ epochList'[m] = epochList[m] /\ state'[m] = state[m]
        /\ currValidators'[m] = currValidators[m] /\ sent'[m] = sent[m]
    BY <1>6, <1>10 DEF IInv, PerNode
  <2> QED
    BY <1>1, <1>6, <2>1 DEF InStep, Waiting, EpochsAtCommit
<1>11. InStep(f, n)'
  <2>1. /\ InStep(f, n) /\ decided \in Nat /\ height[n] \in 0 .. decided
        /\ h \in 1 .. decided /\ h - 1 = height[n]
    BY <1>1, <1>2, <1>6 DEF InStep, IInv
  <2>2. f[h] = Following(h, r)
    BY <2>1, <1>1, <1>5 DEF History
  <2>3. /\ state[n] = r.st /\ Waiting(n, r.k) /\ r.k \in Nat
    BY <2>1, <1>1, <1>5 DEF InStep, History
  <2>4. /\ EpochDue(list, h) <=> Due(h, r)
        /\ Due(h, r) => Head(list) = r.k + 1 /\ r.k < sent[n]
    BY <2>1, <2>3, <1>3, <1>6, SameDue
  <2>5. switched = Entered(h, r)
    BY <2>3, <2>4, <1>4 DEF Switched, Entered
  <2>6. /\ f[h].sw = switched /\ f[h].st = Ran(h, switched)
        /\ f[h].k = IF Due(h, r) THEN r.k + 1 ELSE r.k
    BY <2>2, <2>5 DEF Following
  <2>7. /\ Consecutive(list, r.k, sent[n])
        /\ sent[n] \in Nat /\ r.k <= sent[n] /\ sent[n] <= Len(EndTime)
        /\ Len(EndTime) \in Nat
    BY <2>3, <1>3, ReplicasAssumption DEF Waiting
  <2>8. Consecutive(epochList'[n], f[h].k, sent[n])
    <3>1. CASE Due(h, r)
      <4>1. list # <<>>
        BY <3>1, <2>4 DEF EpochDue
      <4> QED
        BY <3>1, <4>1, <2>3, <2>4, <2>6, <2>7, <1>7, ConsecutiveShrinks
    <3>2. CASE ~ Due(h, r)
      BY <3>2, <2>4, <2>6, <2>7, <1>7
    <3> QED
      BY <3>1, <3>2
  <2>9. EpochsAtCommit(n)' = epochList'[n]
    BY <2>8, <1>7 DEF EpochsAtCommit, Consecutive
  <2>10. Waiting(n, f[h].k)'
    <3>1. sent[n] \in f[h].k .. Len(EndTime)
      BY <2>3, <2>4, <2>6, <2>7
    <3> QED
      BY <3>1, <2>8, <2>9, <1>7 DEF Waiting, Consecutive
  <2>11. epochList'[n] = <<>> => currValidators'[n] = f[h].sw
    <3>1. CASE EpochDue(list, h)
      BY <3>1, <2>6, <1>7 DEF ValidatorsAtCommit
    <3>2. CASE ~ EpochDue(list, h)
      BY <3>2, <2>6, <1>7 DEF ValidatorsAtCommit
    <3> QED
      BY <3>1, <3>2
  <2> QED
    BY <2>1, <2>6, <2>10, <2>11, <1>6, <1>7 DEF InStep
<1> QED
  BY <1>8, <1>9, <1>10, <1>11 DEF IInv

-----------------------------------------------------------------------------
(* IInv holds throughout, if no watcher is later than the delay.           *)
LEMMA IInvHolds ==
    ASSUME Lag <= EpochSwitchDelay
    PROVE  Spec => []IInv
<1>1. Init => IInv
  BY InitIInv
<1>2. IInv /\ [Next]_vars => IInv'
  <2> SUFFICES ASSUME IInv, [Next]_vars PROVE IInv'
    OBVIOUS
  <2>1. CASE Decide
    BY <2>1, DecideIInv
  <2>2. ASSUME NEW n \in Nodes, SendEpoch(n) PROVE IInv'
    BY <2>2, SendIInv
  <2>3. ASSUME NEW n \in Nodes, Commit(n) PROVE IInv'
    BY <2>3, CommitIInv
  <2>4. CASE UNCHANGED vars
    BY <2>4 DEF vars, IInv, PerNode, History, InStep, Waiting, EpochsAtCommit
  <2> QED
    BY <2>1, <2>2, <2>3, <2>4 DEF Next
<1> QED
  BY <1>1, <1>2, PTL DEF Spec

(* SameState: the epochs change the state in the same block on every node  *)
(* (Commit of app.go), whenever each watcher delivers them, as long as     *)
(* none is later than EpochSwitchDelay.                                    *)
THEOREM SameStateHolds ==
    ASSUME Lag <= EpochSwitchDelay
    PROVE  Spec => []SameState
<1>1. IInv => SameState
  BY DEF IInv, InStep, SameState
<1> QED
  BY <1>1, IInvHolds, PTL

(* SameValidators: and EndBlock returns the same validator updates on all  *)
(* nodes where no epoch waits.                                             *)
THEOREM SameValidatorsHolds ==
    ASSUME Lag <= EpochSwitchDelay
    PROVE  Spec => []SameValidators
<1>1. IInv => SameValidators
  BY DEF IInv, InStep, SameValidators
<1> QED
  BY <1>1, IInvHolds, PTL
=============================================================================
