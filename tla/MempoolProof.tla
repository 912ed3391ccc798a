---------------------------- MODULE MempoolProof ----------------------------
(***************************************************************************)
(* The theorems about Mempool, for every set of senders and transactions,  *)
(* every balance, price and bound.                                         *)
(*                                                                         *)
(* NoStaleNonce and PayableUnlessOvertaken speak of a mempool that is      *)
(* rechecked; the invariant also says why the transactions that are still  *)
(* to be rechecked may be bad. AdmittedTogether follows from what          *)
(* checkTrunk is.                                                          *)
(***************************************************************************)
EXTENDS Mempool, ProofLemmas

(* No transaction is twice in a mempool.                                   *)
Distinct(pool) == \A i, j \in DOMAIN pool : pool[i] = pool[j] => i = j

(* The mempool is without duplicates, and the rechecks that are left fit   *)
(* into the counter's range.                                               *)
PoolInv ==
    /\ Distinct(mempool)
    /\ recheckCounter + Len(toRecheck) <= Cardinality(Txs)

(* What is in the mempool of a sender that the last block touched is still *)
(* to be rechecked, so that after the rechecks an execution in its turn,   *)
(* of a transaction of the last block, passes nothing by.                  *)
TouchedInv ==
    \A tx \in ToSet(mempool) :
        tx.From \in touchedAddrs => tx \in ToSet(toRecheck)

(* NoStaleNonce and PayableUnlessOvertaken with the transactions still to  *)
(* be rechecked: of those that are not overtaken only the ones of touched  *)
(* senders have used nonces, and only they and the ones of senders that    *)
(* lost coins cannot be paid.                                              *)
UsableInv ==
    \A tx \in ToSet(mempool) :
        \/ tx \in overtaken
        \/ tx.From \in touchedAddrs
        \/ /\ tx.nonce >= accounts[tx.From].nonce
           /\ \/ CanPay(tx)
              \/ tx \in ToSet(toRecheck) /\ tx.From \in sep206SenderSet

(* checkTrunk is the committed state with what was admitted since.         *)
TrunkInv ==
    \A s \in Senders :
        LET mine == From(admitted, s)
        IN  /\ checkTrunk[s].nonce = accounts[s].nonce + Cardinality(mine)
            /\ checkTrunk[s].balance = accounts[s].balance - Fees(mine)
            /\ {tx.nonce : tx \in mine}
                  = accounts[s].nonce .. checkTrunk[s].nonce - 1

Inv == TypeOK /\ PoolInv /\ TouchedInv /\ UsableInv /\ TrunkInv

-----------------------------------------------------------------------------
(* Lemmas about the operators of Mempool.                                  *)

(* The components of a transaction.                                        *)
LEMMA TxType ==
    ASSUME NEW tx \in Txs
    PROVE  /\ tx.From \in Senders
           /\ tx.nonce \in Nat /\ tx.gas \in Nat /\ tx.price \in Nat
           /\ tx.value \in Nat /\ tx.loss \in Nat
           /\ tx.victims \subseteq Senders
           /\ Fee(tx) \in Nat
<1>1. tx \in Tx
  BY MempoolAssumption
<1>2. /\ tx.From \in Senders
      /\ tx.nonce \in Nat /\ tx.gas \in Nat /\ tx.price \in Nat
      /\ tx.value \in Nat /\ tx.loss \in Nat
      /\ tx.victims \subseteq Senders
  BY <1>1 DEF Tx
<1>3. Fee(tx) \in Nat
  BY <1>2 DEF Fee
<1> QED
  BY <1>2, <1>3

(* The fees as a function, and the table of sums that Fees looks up.       *)
fees == [tx \in Txs |-> Fee(tx)]

FeesTable(S, it) ==
    it = [s \in SUBSET S |-> IF s = {} THEN 0
                             ELSE Fee(Pick(s)) + it[s \ {Pick(s)}]]

(* Fees is a sum.                                                          *)
LEMMA FeesIsSum ==
    ASSUME NEW S \in SUBSET Txs
    PROVE  Fees(S) = SumFunctionOnSet(fees, S)
<1>1. IsFiniteSet(S) /\ Integral(fees, S)
  BY FS_Subset, MempoolAssumption, TxType DEF Integral, fees
<1>2. ASSUME NEW it PROVE FeesTable(S, it) <=> Sums(fees, S, it)
  <2>1. \A s \in SUBSET S : s # {} => fees[Pick(s)] = Fee(Pick(s))
    BY DEF Pick, fees
  <2> DEFINE a == [s \in SUBSET S |-> IF s = {} THEN 0
                                      ELSE Fee(Pick(s)) + it[s \ {Pick(s)}]]
             b == [s \in SUBSET S |-> IF s = {} THEN 0
                                      ELSE fees[Pick(s)] + it[s \ {Pick(s)}]]
  <2>2. a = b
    BY <2>1
  <2> QED
    BY <2>2 DEF FeesTable, Sums
<1>3. \E it : FeesTable(S, it)
  BY <1>1, <1>2, SumsExist
<1>4. PICK it : FeesTable(S, it) /\ Fees(S) = it[S]
  BY <1>3 DEF Fees, MapThenSumSet, MapThenFoldSet, FeesTable, Pick
<1>5. Agree(fees, fees, S) /\ S \subseteq S
  BY DEF Agree
<1>6. SumFunctionOnSet(fees, S) = it[S]
  BY <1>1, <1>2, <1>4, <1>5, SumFromTable
<1> QED
  BY <1>4, <1>6

(* What the proofs need of Fees.                                           *)
LEMMA FeesLaws ==
    /\ Fees({}) = 0
    /\ \A S \in SUBSET Txs :
          /\ Fees(S) \in Nat
          /\ \A R \in SUBSET S : Fees(R) <= Fees(S)
          /\ \A tx \in Txs \ S : Fees(S \cup {tx}) = Fees(S) + Fee(tx)
<1>1. Fees({}) = 0
  BY FeesIsSum, SumEmpty
<1>2. ASSUME NEW S \in SUBSET Txs
      PROVE  /\ Fees(S) \in Nat
             /\ \A R \in SUBSET S : Fees(R) <= Fees(S)
             /\ \A tx \in Txs \ S : Fees(S \cup {tx}) = Fees(S) + Fee(tx)
  <2>1. IsFiniteSet(S) /\ \A x \in S : fees[x] \in Nat
    BY FS_Subset, MempoolAssumption, TxType DEF fees
  <2>2. /\ SumFunctionOnSet(fees, S) \in Nat
        /\ \A R \in SUBSET S : /\ SumFunctionOnSet(fees, R) \in Nat
                               /\ SumFunctionOnSet(fees, R)
                                    <= SumFunctionOnSet(fees, S)
    BY <2>1, SumMonotonic
  <2>3. \A R \in SUBSET S : Fees(R) = SumFunctionOnSet(fees, R)
    BY FeesIsSum
  <2>4. ASSUME NEW tx \in Txs \ S
        PROVE  Fees(S \cup {tx}) = Fees(S) + Fee(tx)
    <3>1. Integral(fees, S \cup {tx}) /\ fees[tx] = Fee(tx)
      BY TxType DEF Integral, fees
    <3>2. SumFunctionOnSet(fees, S \cup {tx})
            = fees[tx] + SumFunctionOnSet(fees, S)
      BY <2>1, <3>1, SumAdd
    <3>3. Fees(S \cup {tx}) = SumFunctionOnSet(fees, S \cup {tx})
      BY FeesIsSum
    <3>4. Fees(S) = SumFunctionOnSet(fees, S) /\ Fees(S) \in Nat
      BY <2>2, <2>3
    <3> QED
      BY <3>1, <3>2, <3>3, <3>4, TxType
  <2> QED
    BY <2>2, <2>3, <2>4
<1> QED
  BY <1>1, <1>2

(* Running the transactions of ran leads from state to next: accounts stay *)
(* accounts, the nonces of others stay, and so do the balances of those    *)
(* that they take nothing of.                                              *)
Kept(state, next, ran) ==
    /\ next \in [Senders -> Account]
    /\ \A s \in Senders :
          (\A tx \in ran : tx.From # s) =>
              /\ next[s].nonce = state[s].nonce
              /\ (\A tx \in ran : s \notin tx.victims) =>
                     next[s].balance = state[s].balance

(* One transaction in the engine.                                          *)
LEMMA RunKeeps ==
    ASSUME NEW state \in [Senders -> Account], NEW tx \in Txs
    PROVE  Kept(state, Run(state, tx), {tx})
<1>1. CASE tx.nonce # state[tx.From].nonce
  BY <1>1 DEF Run, Kept
<1>2. CASE tx.nonce = state[tx.From].nonce
  <2> DEFINE paid(s) == IF s = tx.From THEN tx.value ELSE 0
             lost(s) == IF s \in tx.victims THEN tx.loss ELSE 0
             out(s) == IF paid(s) + lost(s) <= state[s].balance
                       THEN paid(s) + lost(s) ELSE 0
  <2>1. Run(state, tx) =
          [s \in Senders |->
             [nonce |-> state[s].nonce + (IF s = tx.From THEN 1 ELSE 0),
              balance |-> state[s].balance - out(s)]]
    BY <1>2 DEF Run
  <2>2. ASSUME NEW s \in Senders
        PROVE  /\ state[s].nonce \in Nat /\ state[s].balance \in Nat
               /\ state[s].nonce + (IF s = tx.From THEN 1 ELSE 0) \in Nat
               /\ state[s].balance - out(s) \in Nat
               /\ s # tx.From /\ s \notin tx.victims => out(s) = 0
    <3>1. state[s].nonce \in Nat /\ state[s].balance \in Nat
      BY DEF Account
    <3>2. paid(s) \in Nat /\ lost(s) \in Nat
      BY TxType
    <3>3. s # tx.From /\ s \notin tx.victims => paid(s) = 0 /\ lost(s) = 0
      OBVIOUS
    <3> HIDE DEF paid, lost
    <3> QED
      BY <3>1, <3>2, <3>3
  <2> HIDE DEF out
  <2>3. Run(state, tx) \in [Senders -> Account]
    BY <2>1, <2>2 DEF Account
  <2>4. \A s \in Senders : tx.From # s =>
            /\ Run(state, tx)[s].nonce = state[s].nonce
            /\ s \notin tx.victims =>
                   Run(state, tx)[s].balance = state[s].balance
    BY <2>1, <2>2
  <2> QED
    BY <2>3, <2>4 DEF Kept
<1> QED
  BY <1>1, <1>2

(* The table that FoldLeft fills when it runs order.                       *)
RunTable(state, order, it) ==
    it = [s \in SUBSET DOMAIN order |->
            IF s = {} THEN state
            ELSE Run(it[s \ {Max(s)}], order[Max(s)])]

(* The transactions of a sequence, one after another.                      *)
LEMMA RunAllKeeps ==
    ASSUME NEW state \in [Senders -> Account], NEW order \in Seq(Txs)
    PROVE  Kept(state, FoldLeft(Run, state, order), ToSet(order))
<1> DEFINE V == [Senders -> Account]
           D == DOMAIN order
           g == [i \in D |-> [v \in V |-> Run(v, order[i])]]
           pick == [s \in SUBSET D |-> Max(s)]
<1>1. /\ D = 1 .. Len(order) /\ D \subseteq Nat /\ IsFiniteSet(D)
      /\ \A i \in D : order[i] \in Txs
  <2>1. Len(order) \in Nat /\ D = 1 .. Len(order)
    OBVIOUS
  <2> QED
    BY <2>1, FS_Interval, SMTT(20)
<1>2. ASSUME NEW s \in SUBSET D, s # {}
      PROVE  Max(s) \in s /\ Max(s) \in D /\ order[Max(s)] \in Txs
  <2>1. IsFiniteSet(s) /\ s \subseteq Nat
    BY <1>1, FS_Subset
  <2>2. Max(s) \in s
    BY <1>2, <2>1, MaxOfFiniteSet
  <2> QED
    BY <1>1, <2>2
<1>3. \E it : RunTable(state, order, it)
  <2>1. g \in [D -> [V -> V]]
    BY <1>1, RunKeeps DEF Kept
  <2>2. Picks(D, pick)
    BY <1>2 DEF Picks
  <2>3. PICK it \in [SUBSET D -> V] : Folding(D, state, g, pick, it)
    <3> HIDE DEF g, pick, D
    <3> QED
      BY <1>1, <2>1, <2>2, FoldExists
  <2>4. ASSUME NEW s \in SUBSET D
        PROVE  it[s] = IF s = {} THEN state
                       ELSE Run(it[s \ {Max(s)}], order[Max(s)])
    <3>1. CASE s = {}
      BY <2>3, <3>1 DEF Folding
    <3>2. CASE s # {}
      <4>1. Max(s) \in D /\ it[s \ {Max(s)}] \in V /\ pick[s] = Max(s)
        BY <1>2, <3>2
      <4>2. it[s] = g[Max(s)][it[s \ {Max(s)}]]
        BY <2>3, <3>2, <4>1 DEF Folding
      <4> QED
        BY <3>2, <4>1, <4>2
    <3> QED
      BY <3>1, <3>2
  <2>5. RunTable(state, order, it)
    BY <2>4 DEF RunTable
  <2> QED
    BY <2>5
<1>4. PICK it : /\ RunTable(state, order, it)
                /\ FoldLeft(Run, state, order) = it[D]
  BY <1>3 DEF FoldLeft, MapThenFoldSet, RunTable
<1> DEFINE Of(s) == {order[i] : i \in s}
           T == {s \in SUBSET D : Kept(state, it[s], Of(s))}
<1>5. ASSUME NEW s \in SUBSET D, \A x \in s : s \ {x} \in T
      PROVE  s \in T
  <2>1. CASE s = {}
    <3>1. it[s] = state
      BY <1>4, <2>1 DEF RunTable
    <3> QED
      BY <3>1 DEF Kept
  <2>2. CASE s # {}
    <3> DEFINE m == Max(s)
               r == s \ {m}
    <3>1. m \in s /\ order[m] \in Txs
      BY <1>2, <2>2
    <3>2. it[s] = Run(it[r], order[m])
      BY <1>4, <2>2 DEF RunTable
    <3>3. r \in T
      BY <1>5, <3>1
    <3>4. Kept(state, it[r], Of(r)) /\ it[r] \in V
      BY <3>3 DEF Kept
    <3>5. Kept(it[r], it[s], {order[m]})
      BY <3>1, <3>2, <3>4, RunKeeps
    <3>6. Of(r) \subseteq Of(s) /\ order[m] \in Of(s)
      BY <3>1
    <3> HIDE DEF Of, r, m
    <3>7. Kept(state, it[s], Of(s))
      BY <3>4, <3>5, <3>6 DEF Kept
    <3> QED
      BY <3>7
  <2> QED
    BY <2>1, <2>2
<1>6. Inductive(D, T)
  BY <1>5 DEF Inductive
<1>7. D \in T
  <2> HIDE DEF T, D
  <2> QED
    BY <1>1, <1>6, SubsetInduction, D \in SUBSET D
<1>8. Of(D) = ToSet(order)
  BY DEF ToSet
<1> QED
  BY <1>4, <1>7, <1>8

-----------------------------------------------------------------------------
(* An empty mempool.                                                       *)
LEMMA EmptyPool ==
    <<>> \in Seq(Txs) /\ ToSet(<<>>) = {} /\ Distinct(<<>>)
BY DEF ToSet, Distinct

(* A transaction joins the mempool.                                        *)
LEMMA AppendLaws ==
    ASSUME NEW pool \in Seq(Txs), NEW tx \in Txs
    PROVE  /\ Append(pool, tx) \in Seq(Txs)
           /\ ToSet(Append(pool, tx)) = ToSet(pool) \cup {tx}
           /\ Distinct(pool) /\ tx \notin ToSet(pool)
                => Distinct(Append(pool, tx))
<1> DEFINE n == Len(pool)
           q == Append(pool, tx)
<1>1. /\ n \in Nat /\ q \in Seq(Txs)
      /\ DOMAIN pool = 1 .. n /\ DOMAIN q = 1 .. n + 1
      /\ q[n + 1] = tx /\ \A i \in 1 .. n : q[i] = pool[i]
  OBVIOUS
<1> HIDE DEF n, q
<1>2. ToSet(q) = ToSet(pool) \cup {tx}
  <2>1. 1 .. n + 1 = (1 .. n) \cup {n + 1}
    BY <1>1
  <2>2. {q[i] : i \in 1 .. n} = {pool[i] : i \in 1 .. n}
    BY <1>1
  <2> QED
    BY <1>1, <2>1, <2>2 DEF ToSet
<1>3. ASSUME Distinct(pool), tx \notin ToSet(pool),
             NEW i \in DOMAIN q, NEW j \in DOMAIN q, q[i] = q[j]
      PROVE  i = j
  <2>1. \A k \in 1 .. n : pool[k] # tx
    BY <1>1, <1>3 DEF ToSet
  <2>2. i \in 1 .. n \/ i = n + 1
    BY <1>1
  <2>3. j \in 1 .. n \/ j = n + 1
    BY <1>1
  <2> QED
    BY <1>1, <1>3, <2>1, <2>2, <2>3 DEF Distinct
<1>4. Distinct(pool) /\ tx \notin ToSet(pool) => Distinct(q)
  BY <1>3 DEF Distinct
<1> QED
  BY <1>1, <1>2, <1>4 DEF q

(* One step of Without, and the table that FoldLeft fills with it.         *)
Drop(kept, tx, S) == IF tx \in S THEN kept ELSE Append(kept, tx)

WithoutTable(pool, S, it) ==
    it = [s \in SUBSET DOMAIN pool |->
            IF s = {} THEN <<>>
            ELSE Drop(it[s \ {Max(s)}], pool[Max(s)], S)]

(* A mempool loses the transactions of S and no other, and holds none      *)
(* twice if it did not.                                                    *)
LEMMA WithoutLaws ==
    ASSUME NEW pool \in Seq(Txs), NEW S
    PROVE  /\ Without(pool, S) \in Seq(Txs)
           /\ ToSet(Without(pool, S)) = ToSet(pool) \ S
           /\ Distinct(pool) => Distinct(Without(pool, S))
<1> DEFINE V == Seq(Txs)
           D == DOMAIN pool
           g == [i \in D |-> [v \in V |-> Drop(v, pool[i], S)]]
           pick == [s \in SUBSET D |-> Max(s)]
<1>1. /\ D = 1 .. Len(pool) /\ D \subseteq Nat /\ IsFiniteSet(D)
      /\ \A i \in D : pool[i] \in Txs
  <2>1. Len(pool) \in Nat /\ D = 1 .. Len(pool)
    OBVIOUS
  <2> QED
    BY <2>1, FS_Interval, SMTT(20)
<1>2. ASSUME NEW s \in SUBSET D, s # {}
      PROVE  Max(s) \in s /\ Max(s) \in D /\ pool[Max(s)] \in Txs
  <2>1. IsFiniteSet(s) /\ s \subseteq Nat
    BY <1>1, FS_Subset
  <2>2. Max(s) \in s
    BY <1>2, <2>1, MaxOfFiniteSet
  <2> QED
    BY <1>1, <2>2
<1>3. \E it : WithoutTable(pool, S, it)
  <2>1. g \in [D -> [V -> V]]
    BY <1>1 DEF Drop
  <2>2. Picks(D, pick)
    BY <1>2 DEF Picks
  <2>3. <<>> \in V
    OBVIOUS
  <2>4. PICK it \in [SUBSET D -> V] : Folding(D, <<>>, g, pick, it)
    <3> HIDE DEF g, pick, D, V
    <3> QED
      BY <1>1, <2>1, <2>2, <2>3, FoldExists
  <2>5. ASSUME NEW s \in SUBSET D
        PROVE  it[s] = IF s = {} THEN <<>>
                       ELSE Drop(it[s \ {Max(s)}], pool[Max(s)], S)
    <3>1. CASE s = {}
      BY <2>4, <3>1 DEF Folding
    <3>2. CASE s # {}
      <4>1. Max(s) \in D /\ it[s \ {Max(s)}] \in V /\ pick[s] = Max(s)
        BY <1>2, <3>2
      <4>2. it[s] = g[Max(s)][it[s \ {Max(s)}]]
        BY <2>4, <3>2, <4>1 DEF Folding
      <4> QED
        BY <3>2, <4>1, <4>2
    <3> QED
      BY <3>1, <3>2
  <2>6. WithoutTable(pool, S, it)
    BY <2>5 DEF WithoutTable
  <2> QED
    BY <2>6
<1>4. PICK it : WithoutTable(pool, S, it) /\ Without(pool, S) = it[D]
  BY <1>3 DEF Without, FoldLeft, MapThenFoldSet, WithoutTable, Drop
<1> DEFINE Of(s) == {pool[i] : i \in s}
           Good(s) == /\ it[s] \in Seq(Txs)
                      /\ ToSet(it[s]) = Of(s) \ S
                      /\ Distinct(pool) => Distinct(it[s])
           T == {s \in SUBSET D : Good(s)}
<1>5. ASSUME NEW s \in SUBSET D, \A x \in s : s \ {x} \in T
      PROVE  s \in T
  <2>1. CASE s = {}
    <3>1. it[s] = <<>>
      BY <1>4, <2>1 DEF WithoutTable
    <3> QED
      BY <2>1, <3>1, EmptyPool
  <2>2. CASE s # {}
    <3> DEFINE m == Max(s)
               r == s \ {m}
    <3>1. m \in s /\ pool[m] \in Txs /\ m \in D
      BY <1>2, <2>2
    <3>2. it[s] = Drop(it[r], pool[m], S)
      BY <1>4, <2>2 DEF WithoutTable
    <3>3. r \in T
      BY <1>5, <3>1
    <3>4. Of(s) = Of(r) \cup {pool[m]}
      BY <3>1
    <3>5. CASE pool[m] \in S
      <4>1. it[s] = it[r]
        BY <3>2, <3>5 DEF Drop
      <4> QED
        BY <3>3, <3>4, <3>5, <4>1
    <3>6. CASE pool[m] \notin S
      <4>1. it[s] = Append(it[r], pool[m]) /\ it[r] \in Seq(Txs)
        BY <3>2, <3>3, <3>6 DEF Drop
      <4>2. it[s] \in Seq(Txs)
        BY <3>1, <4>1
      <4>3. ToSet(it[s]) = ToSet(it[r]) \cup {pool[m]}
        BY <3>1, <4>1, AppendLaws
      <4>4. ASSUME Distinct(pool) PROVE Distinct(it[s])
        <5>1. \A i \in r : pool[i] # pool[m]
          BY <4>4, <3>1 DEF Distinct
        <5>2. pool[m] \notin Of(r)
          BY <5>1
        <5>3. pool[m] \notin ToSet(it[r]) /\ Distinct(it[r])
          BY <3>3, <4>4, <5>2
        <5> QED
          BY <3>1, <4>1, <5>3, AppendLaws
      <4> QED
        BY <3>3, <3>4, <3>6, <4>2, <4>3, <4>4
    <3> QED
      BY <3>5, <3>6
  <2> QED
    BY <2>1, <2>2
<1>6. Inductive(D, T)
  BY <1>5 DEF Inductive
<1>7. D \in T
  <2> HIDE DEF T, D
  <2> QED
    BY <1>1, <1>6, SubsetInduction, D \in SUBSET D
<1>8. Of(D) = ToSet(pool)
  BY DEF ToSet
<1> QED
  BY <1>4, <1>7, <1>8

(* A mempool that holds no transaction twice is not longer than the set of *)
(* all transactions.                                                       *)
LEMMA DistinctLength ==
    ASSUME NEW pool \in Seq(Txs), Distinct(pool)
    PROVE  Len(pool) \in Nat /\ Len(pool) <= Cardinality(Txs)
<1>1. Len(pool) \in Nat /\ DOMAIN pool = 1 .. Len(pool)
  OBVIOUS
<1>2. pool \in Injection(1 .. Len(pool), Txs)
  <2>1. pool \in [1 .. Len(pool) -> Txs]
    BY <1>1
  <2>2. \A i, j \in 1 .. Len(pool) : pool[i] = pool[j] => i = j
    BY <1>1 DEF Distinct
  <2> QED
    BY <2>1, <2>2 DEF Injection, IsInjective
<1>3. Cardinality(1 .. Len(pool)) <= Cardinality(Txs)
  BY <1>2, FS_Injection, MempoolAssumption
<1>4. Cardinality(1 .. Len(pool)) = Len(pool)
  <2>1. ASSUME NEW n \in Nat PROVE Cardinality(1 .. n) = n
    <3>1. Cardinality(1 .. n) = IF 1 > n THEN 0 ELSE n - 1 + 1
      BY FS_Interval
    <3> QED
      BY <3>1
  <2> QED
    BY <1>1, <2>1
<1> QED
  BY <1>1, <1>3, <1>4

-----------------------------------------------------------------------------
(* The checks.                                                             *)

(* A checked transaction fits checkTrunk.                                  *)
LEMMA CheckedFits ==
    ASSUME NEW tx \in Txs, NEW rechecking \in BOOLEAN,
           Verdict(tx, rechecking) = "OK", ~(rechecking /\ Passes(tx))
    PROVE  /\ tx.From \notin touchedAddrs
           /\ tx.nonce = checkTrunk[tx.From].nonce
           /\ ~(Fee(tx) > checkTrunk[tx.From].balance)
<1>1. tx.From \notin touchedAddrs /\ checkTx(tx) = "OK"
  BY DEF Verdict
<1> QED
  BY <1>1 DEF checkTx

(* The account types of the two states, and that checkTrunk promises less  *)
(* than the committed state.                                               *)
LEMMA TrunkBelow ==
    ASSUME TypeOK, TrunkInv, NEW s \in Senders
    PROVE  /\ accounts[s].nonce \in Nat /\ accounts[s].balance \in Nat
           /\ checkTrunk[s].nonce \in Nat /\ checkTrunk[s].balance \in Nat
           /\ checkTrunk[s].nonce >= accounts[s].nonce
           /\ checkTrunk[s].balance <= accounts[s].balance
<1> DEFINE mine == From(admitted, s)
<1>1. /\ accounts[s].nonce \in Nat /\ accounts[s].balance \in Nat
      /\ checkTrunk[s].nonce \in Nat /\ checkTrunk[s].balance \in Nat
  BY DEF TypeOK, Account
<1>2. mine \in SUBSET Txs
  BY DEF TypeOK, From
<1>3. IsFiniteSet(mine)
  BY <1>2, FS_Subset, MempoolAssumption
<1>4. Cardinality(mine) \in Nat /\ Fees(mine) \in Nat
  BY <1>2, <1>3, FS_CardinalityType, FeesLaws
<1>5. /\ checkTrunk[s].nonce = accounts[s].nonce + Cardinality(mine)
      /\ checkTrunk[s].balance = accounts[s].balance - Fees(mine)
  BY DEF TrunkInv
<1> HIDE DEF mine
<1> QED
  BY <1>1, <1>4, <1>5

(* What is accepted has a fresh nonce and is paid for, or was passed in    *)
(* the recheck of a sender that nothing happened to.                       *)
LEMMA AcceptedUsable ==
    ASSUME TypeOK, TrunkInv, NEW tx \in Txs, NEW rechecking \in BOOLEAN,
           Accepted(tx, rechecking)
    PROVE  /\ tx.From \notin touchedAddrs
           /\ \/ rechecking /\ Passes(tx)
              \/ /\ tx.nonce >= accounts[tx.From].nonce
                 /\ Fee(tx) <= accounts[tx.From].balance
<1>1. CASE rechecking /\ Passes(tx)
  BY <1>1 DEF Passes
<1>2. CASE ~(rechecking /\ Passes(tx))
  <2>1. /\ tx.From \notin touchedAddrs
        /\ tx.nonce = checkTrunk[tx.From].nonce
        /\ ~(Fee(tx) > checkTrunk[tx.From].balance)
    BY <1>2, CheckedFits DEF Accepted
  <2>2. tx.From \in Senders /\ Fee(tx) \in Nat /\ tx.nonce \in Nat
    BY TxType
  <2> QED
    BY <2>1, <2>2, TrunkBelow
<1> QED
  BY <1>1, <1>2

(* A check keeps checkTrunk what it is.                                    *)
LEMMA CheckKeepsTrunk ==
    ASSUME TypeOK, TrunkInv, NEW tx \in Txs, NEW rechecking \in BOOLEAN,
           Check(tx, rechecking), accounts' = accounts
    PROVE  /\ checkTrunk' \in [Senders -> Account]
           /\ admitted' \subseteq Txs
           /\ TrunkInv'
<1>1. CASE UNCHANGED <<checkTrunk, admitted>>
  BY <1>1 DEF TypeOK, TrunkInv
<1>2. CASE ~UNCHANGED <<checkTrunk, admitted>>
  <2>1. /\ Verdict(tx, rechecking) = "OK" /\ ~(rechecking /\ Passes(tx))
        /\ checkTrunk' = Deducted(tx)
        /\ admitted' = admitted \cup {tx}
    BY <1>2 DEF Check
  <2> DEFINE a == tx.From
             old == From(admitted, a)
  <2>2. /\ a \in Senders /\ Fee(tx) \in Nat /\ tx.nonce \in Nat
        /\ tx.nonce = checkTrunk[a].nonce
        /\ ~(Fee(tx) > checkTrunk[a].balance)
    BY <2>1, TxType, CheckedFits
  <2>3. /\ accounts[a].nonce \in Nat /\ accounts[a].balance \in Nat
        /\ checkTrunk[a].nonce \in Nat /\ checkTrunk[a].balance \in Nat
        /\ checkTrunk[a].nonce >= accounts[a].nonce
    BY <2>2, TrunkBelow
  <2>4. /\ checkTrunk'[a] = [nonce |-> checkTrunk[a].nonce + 1,
                             balance |-> checkTrunk[a].balance - Fee(tx)]
        /\ \A s \in Senders \ {a} : checkTrunk'[s] = checkTrunk[s]
        /\ checkTrunk' = [s \in Senders |-> checkTrunk'[s]]
    BY <2>1, <2>2 DEF Deducted, TypeOK, Account
  <2>5. checkTrunk' \in [Senders -> Account]
    <3>1. checkTrunk[a].balance - Fee(tx) \in Nat
      BY <2>2, <2>3
    <3>2. checkTrunk'[a] \in Account
      BY <2>3, <2>4, <3>1 DEF Account
    <3>3. \A s \in Senders : checkTrunk'[s] \in Account
      BY <2>4, <3>2 DEF TypeOK
    <3> QED
      BY <2>4, <3>3
  <2>6. admitted' \subseteq Txs
    BY <2>1 DEF TypeOK
  <2>7. ASSUME NEW s \in Senders, s # a
        PROVE  /\ From(admitted', s) = From(admitted, s)
               /\ checkTrunk'[s] = checkTrunk[s]
    BY <2>1, <2>4, <2>7 DEF From
  <2>8. /\ old \in SUBSET Txs /\ IsFiniteSet(old)
        /\ From(admitted', a) = old \cup {tx}
        /\ checkTrunk[a].nonce = accounts[a].nonce + Cardinality(old)
        /\ checkTrunk[a].balance = accounts[a].balance - Fees(old)
        /\ {t.nonce : t \in old}
              = accounts[a].nonce .. checkTrunk[a].nonce - 1
    <3>1. old \in SUBSET Txs
      BY DEF From, TypeOK
    <3>2. IsFiniteSet(old)
      BY <3>1, FS_Subset, MempoolAssumption
    <3>3. From(admitted', a) = old \cup {tx}
      BY <2>1 DEF From
    <3> QED
      BY <2>2, <3>1, <3>2, <3>3 DEF TrunkInv
  <2> HIDE DEF old
  <2>9. tx \notin old
    <3>1. SUFFICES ASSUME tx \in old PROVE FALSE
      OBVIOUS
    <3>2. tx.nonce \in accounts[a].nonce .. checkTrunk[a].nonce - 1
      BY <2>8, <3>1
    <3> QED
      BY <2>2, <2>3, <3>2
  <2>10. /\ Cardinality(old \cup {tx}) = Cardinality(old) + 1
         /\ Cardinality(old) \in Nat
         /\ Fees(old \cup {tx}) = Fees(old) + Fee(tx)
         /\ Fees(old) \in Nat
    <3>1. /\ Cardinality(old \cup {tx}) = Cardinality(old) + 1
          /\ Cardinality(old) \in Nat
      BY <2>8, <2>9, FS_AddElement, FS_CardinalityType
    <3>2. tx \in Txs \ old
      BY <2>9
    <3> QED
      BY <2>8, <3>1, <3>2, FeesLaws
  <2>11. {t.nonce : t \in old \cup {tx}}
            = accounts[a].nonce .. checkTrunk'[a].nonce - 1
    <3>1. {t.nonce : t \in old \cup {tx}}
            = {t.nonce : t \in old} \cup {tx.nonce}
      OBVIOUS
    <3>2. (accounts[a].nonce .. checkTrunk[a].nonce - 1)
              \cup {checkTrunk[a].nonce}
            = accounts[a].nonce .. checkTrunk[a].nonce
      BY <2>3
    <3>3. checkTrunk'[a].nonce - 1 = checkTrunk[a].nonce
      BY <2>3, <2>4
    <3> QED
      BY <2>2, <2>8, <3>1, <3>2, <3>3
  <2>12. TrunkInv'
    <3>1. SUFFICES ASSUME NEW s \in Senders
          PROVE /\ checkTrunk'[s].nonce
                     = accounts[s].nonce + Cardinality(From(admitted', s))
                /\ checkTrunk'[s].balance
                     = accounts[s].balance - Fees(From(admitted', s))
                /\ {t.nonce : t \in From(admitted', s)}
                     = accounts[s].nonce .. checkTrunk'[s].nonce - 1
      BY DEF TrunkInv, From, Fees
    <3>2. CASE s # a
      BY <2>7, <3>2 DEF TrunkInv
    <3>3. CASE s = a
      <4>1. checkTrunk'[a].nonce
              = accounts[a].nonce + Cardinality(old \cup {tx})
        BY <2>3, <2>4, <2>8, <2>10
      <4>2. checkTrunk'[a].balance
              = accounts[a].balance - Fees(old \cup {tx})
        BY <2>2, <2>3, <2>4, <2>8, <2>10
      <4> QED
        BY <2>8, <2>11, <3>3, <4>1, <4>2
    <3> QED
      BY <3>2, <3>3
  <2> QED
    BY <2>5, <2>6, <2>12
<1> QED
  BY <1>1, <1>2

(* The signature cache stays within its size.                              *)
LEMMA CacheKept ==
    ASSUME TypeOK, NEW tx \in Txs, CacheSender(tx) \/ UNCHANGED sigCache
    PROVE  sigCache' \subseteq Txs /\ Cardinality(sigCache') <= SigCacheSize + 1
<1>1. sigCache \subseteq Txs /\ IsFiniteSet(sigCache) /\ SigCacheSize \in Nat
  BY FS_Subset, MempoolAssumption DEF TypeOK
<1>2. Cardinality(sigCache) \in Nat /\ Cardinality(sigCache) <= SigCacheSize + 1
  BY <1>1, FS_CardinalityType DEF TypeOK
<1>3. CASE UNCHANGED sigCache
  BY <1>1, <1>2, <1>3
<1>4. CASE tx \notin sigCache /\ Full /\ CacheSender(tx)
  <2>1. PICK old \in sigCache : sigCache' = (sigCache \ {old}) \cup {tx}
    BY <1>4 DEF CacheSender
  <2>2. /\ IsFiniteSet(sigCache \ {old})
        /\ Cardinality(sigCache \ {old}) = Cardinality(sigCache) - 1
    BY <1>1, FS_RemoveElement
  <2>3. Cardinality(sigCache') = Cardinality(sigCache)
    <3>1. tx \notin sigCache \ {old}
      BY <1>4
    <3>2. Cardinality((sigCache \ {old}) \cup {tx})
            = Cardinality(sigCache \ {old}) + 1
      BY <2>2, <3>1, FS_AddElement
    <3> QED
      BY <1>2, <2>1, <2>2, <3>2
  <2> QED
    BY <1>1, <1>2, <2>1, <2>3
<1>5. CASE tx \notin sigCache /\ ~Full /\ CacheSender(tx)
  <2>1. sigCache' = sigCache \cup {tx} /\ ~(Cardinality(sigCache) > SigCacheSize)
    BY <1>5 DEF CacheSender, Full
  <2>2. Cardinality(sigCache \cup {tx}) = Cardinality(sigCache) + 1
    BY <1>1, <1>5, FS_AddElement
  <2>3. Cardinality(sigCache') <= SigCacheSize + 1
    BY <1>1, <1>2, <2>1, <2>2
  <2> QED
    BY <1>1, <2>1, <2>3
<1> QED
  BY <1>3, <1>4, <1>5 DEF CacheSender

-----------------------------------------------------------------------------
(* The invariant.                                                          *)

(* Every initial state satisfies it.                                       *)
LEMMA InitInv == Init => Inv
<1> SUFFICES ASSUME Init PROVE Inv
  OBVIOUS
<1> USE MempoolAssumption DEF Init
<1>1. accounts \in [Senders -> Account] /\ checkTrunk = accounts
  BY DEF Account
<1>2. Cardinality(Txs) \in Nat /\ Cardinality({}) = 0
  BY FS_CardinalityType, FS_EmptySet
<1>3. TypeOK
  BY <1>1, <1>2, EmptyPool DEF TypeOK
<1>4. PoolInv
  BY <1>2, EmptyPool DEF PoolInv
<1>5. TouchedInv /\ UsableInv
  BY EmptyPool DEF TouchedInv, UsableInv
<1>6. TrunkInv
  <2>1. ASSUME NEW s \in Senders
        PROVE  /\ From(admitted, s) = {}
               /\ checkTrunk[s].nonce = 0 /\ accounts[s].nonce = 0
               /\ checkTrunk[s].balance = accounts[s].balance
               /\ accounts[s].balance \in Nat
    BY DEF From
  <2>2. 0 .. 0 - 1 = {} /\ Fees({}) = 0
    BY FeesLaws
  <2>3. ASSUME NEW s \in Senders
        PROVE  /\ {tx.nonce : tx \in From(admitted, s)} = 0 .. 0 - 1
               /\ Cardinality(From(admitted, s)) = 0
               /\ Fees(From(admitted, s)) = 0
    BY <1>2, <2>1, <2>2
  <2> QED
    BY <2>1, <2>3 DEF TrunkInv
<1> QED
  BY <1>3, <1>4, <1>5, <1>6 DEF Inv

(* A new transaction.                                                      *)
LEMMA CheckTxInv ==
    ASSUME Inv, NEW tx \in Txs, CheckTx(tx)
    PROVE  Inv'
<1> USE DEF Inv
<1>1. /\ UNCHANGED <<accounts, lastMinGasPrice, touchedAddrs, sep206SenderSet>>
      /\ UNCHANGED <<recheckCounter, toRecheck, standby, included, overtaken>>
      /\ toRecheck = <<>> /\ tx \notin ToSet(mempool)
      /\ CacheSender(tx) \/ UNCHANGED sigCache
      /\ Check(tx, FALSE)
      /\ mempool' = IF Accepted(tx, FALSE) THEN Append(mempool, tx)
                    ELSE mempool
  BY DEF CheckTx, appVars, chainVars
<1>2. /\ checkTrunk' \in [Senders -> Account]
      /\ admitted' \subseteq Txs
      /\ TrunkInv'
  BY <1>1, CheckKeepsTrunk
<1>3. mempool \in Seq(Txs) /\ Distinct(mempool)
  BY DEF TypeOK, PoolInv
<1>4. /\ mempool' \in Seq(Txs) /\ Distinct(mempool')
      /\ ToSet(mempool') \subseteq ToSet(mempool) \cup {tx}
      /\ tx \in ToSet(mempool') => Accepted(tx, FALSE)
  <2>1. CASE Accepted(tx, FALSE)
    BY <1>1, <1>3, <2>1, AppendLaws
  <2>2. CASE ~Accepted(tx, FALSE)
    BY <1>1, <1>3, <2>2
  <2> QED
    BY <2>1, <2>2
<1>5. TypeOK'
  <2>1. sigCache' \subseteq Txs /\ Cardinality(sigCache') <= SigCacheSize + 1
    BY <1>1, CacheKept
  <2> QED
    BY <1>1, <1>2, <1>4, <2>1 DEF TypeOK
<1>6. PoolInv'
  BY <1>1, <1>4 DEF PoolInv
<1>7. Accepted(tx, FALSE) =>
          /\ tx.From \notin touchedAddrs
          /\ tx.nonce >= accounts[tx.From].nonce
          /\ Fee(tx) <= accounts[tx.From].balance
  BY AcceptedUsable
<1>8. TouchedInv'
  BY <1>1, <1>4, <1>7 DEF TouchedInv
<1>9. UsableInv'
  BY <1>1, <1>4, <1>7 DEF UsableInv, CanPay, Fee
<1> QED
  BY <1>2, <1>5, <1>6, <1>8, <1>9

(* The first of the transactions that are still to be rechecked.           *)
LEMMA TailLaws ==
    ASSUME NEW pool \in Seq(Txs), pool # <<>>
    PROVE  /\ Head(pool) \in Txs /\ Tail(pool) \in Seq(Txs)
           /\ Len(pool) \in Nat /\ Len(Tail(pool)) = Len(pool) - 1
           /\ ToSet(pool) \subseteq ToSet(Tail(pool)) \cup {Head(pool)}
<1> DEFINE n == Len(pool)
           q == Tail(pool)
<1>1. /\ n \in Nat /\ n > 0 /\ DOMAIN pool = 1 .. n
      /\ Head(pool) = pool[1] /\ Head(pool) \in Txs
      /\ q \in Seq(Txs) /\ Len(q) = n - 1 /\ DOMAIN q = 1 .. n - 1
      /\ \A i \in 1 .. n - 1 : q[i] = pool[i + 1]
  OBVIOUS
<1> HIDE DEF n, q
<1>2. ASSUME NEW i \in 1 .. n, i # 1 PROVE pool[i] \in ToSet(q)
  <2>1. i - 1 \in 1 .. n - 1 /\ (i - 1) + 1 = i
    BY <1>1, <1>2
  <2>2. q[i - 1] = pool[i]
    BY <1>1, <2>1
  <2> QED
    BY <1>1, <2>1, <2>2 DEF ToSet
<1>3. ToSet(pool) \subseteq ToSet(q) \cup {Head(pool)}
  BY <1>1, <1>2 DEF ToSet
<1> QED
  BY <1>1, <1>3 DEF n, q

(* A recheck.                                                              *)
LEMMA RecheckInv ==
    ASSUME Inv, Recheck
    PROVE  Inv'
<1> USE DEF Inv
<1> DEFINE tx == Head(toRecheck)
<1>1. /\ UNCHANGED <<accounts, lastMinGasPrice, touchedAddrs, sep206SenderSet>>
      /\ UNCHANGED <<standby, included>>
      /\ overtaken' = IF Passes(tx) THEN overtaken ELSE overtaken \ {tx}
      /\ toRecheck # <<>> /\ toRecheck' = Tail(toRecheck)
      /\ recheckCounter' = recheckCounter + 1
      /\ CacheSender(tx) /\ Check(tx, TRUE)
      /\ mempool' = IF Accepted(tx, TRUE) THEN mempool
                    ELSE Without(mempool, {tx})
  BY DEF Recheck, appVars, chainVars
<1>2. /\ tx \in Txs /\ toRecheck' \in Seq(Txs)
      /\ Len(toRecheck) \in Nat /\ Len(toRecheck') = Len(toRecheck) - 1
      /\ ToSet(toRecheck) \subseteq ToSet(toRecheck') \cup {tx}
  BY <1>1, TailLaws DEF TypeOK
<1> HIDE DEF tx
<1>3. /\ checkTrunk' \in [Senders -> Account]
      /\ admitted' \subseteq Txs
      /\ TrunkInv'
  BY <1>1, <1>2, CheckKeepsTrunk
<1>4. mempool \in Seq(Txs) /\ Distinct(mempool)
  BY DEF TypeOK, PoolInv
<1>5. /\ mempool' \in Seq(Txs) /\ Distinct(mempool')
      /\ ToSet(mempool') \subseteq ToSet(mempool)
      /\ tx \in ToSet(mempool') => Accepted(tx, TRUE)
  <2>1. CASE Accepted(tx, TRUE)
    BY <1>1, <1>4, <2>1
  <2>2. CASE ~Accepted(tx, TRUE)
    <3>1. mempool' = Without(mempool, {tx})
      BY <1>1, <2>2
    <3>2. /\ Without(mempool, {tx}) \in Seq(Txs)
          /\ ToSet(Without(mempool, {tx})) = ToSet(mempool) \ {tx}
          /\ Distinct(Without(mempool, {tx}))
      BY <1>4, WithoutLaws
    <3> QED
      BY <3>1, <3>2
  <2> QED
    BY <2>1, <2>2
<1>6. recheckCounter' + Len(toRecheck') <= Cardinality(Txs)
      /\ recheckCounter' \in 0 .. Cardinality(Txs)
  <2>1. /\ recheckCounter \in Nat
        /\ recheckCounter + Len(toRecheck) <= Cardinality(Txs)
        /\ Cardinality(Txs) \in Nat /\ Len(toRecheck') \in Nat
    BY <1>2, FS_CardinalityType, MempoolAssumption DEF TypeOK, PoolInv
  <2> QED
    BY <1>1, <1>2, <2>1
<1>7. TypeOK'
  <2>1. sigCache' \subseteq Txs /\ Cardinality(sigCache') <= SigCacheSize + 1
    BY <1>1, <1>2, CacheKept
  <2> QED
    BY <1>1, <1>2, <1>3, <1>5, <1>6, <2>1 DEF TypeOK
<1>8. PoolInv'
  BY <1>5, <1>6 DEF PoolInv
<1>9. tx \in ToSet(mempool') =>
          /\ tx.From \notin touchedAddrs
          /\ \/ Passes(tx)
             \/ /\ tx.nonce >= accounts[tx.From].nonce
                /\ Fee(tx) <= accounts[tx.From].balance
  BY <1>2, <1>5, AcceptedUsable
<1>10. TouchedInv'
  BY <1>1, <1>2, <1>5, <1>9 DEF TouchedInv
<1>11. UsableInv'
  <2> SUFFICES ASSUME NEW t \in ToSet(mempool'),
                      t.From \notin touchedAddrs, t \notin overtaken'
               PROVE  /\ t.nonce >= accounts[t.From].nonce
                      /\ \/ Fee(t) <= accounts[t.From].balance
                         \/ /\ t \in ToSet(toRecheck')
                            /\ t.From \in sep206SenderSet
    BY <1>1 DEF UsableInv, CanPay, Fee
  <2>1. t \notin overtaken =>
            /\ t.nonce >= accounts[t.From].nonce
            /\ \/ Fee(t) <= accounts[t.From].balance
               \/ t \in ToSet(toRecheck) /\ t.From \in sep206SenderSet
    BY <1>5 DEF UsableInv, CanPay
  <2>2. CASE t # tx
    <3>1. t \notin overtaken
      BY <1>1, <2>2
    <3> QED
      BY <1>2, <2>1, <2>2, <3>1
  <2>3. CASE t = tx /\ Passes(tx)
    <3>1. t \notin overtaken /\ t.From \notin sep206SenderSet
      BY <1>1, <2>3 DEF Passes
    <3> QED
      BY <2>1, <3>1
  <2>4. CASE t = tx /\ ~Passes(tx)
    BY <1>9, <2>4
  <2> QED
    BY <2>2, <2>3, <2>4
<1> QED
  BY <1>3, <1>7, <1>8, <1>10, <1>11

(* Prepare charges nobody more than he has, and nobody who has nothing in  *)
(* the block.                                                              *)
LEMMA PrepareKeeps ==
    ASSUME NEW state \in [Senders -> Account], NEW block \in SUBSET Txs
    PROVE  /\ Prepare(state, block) \in [Senders -> Account]
           /\ \A s \in Senders :
                 /\ Prepare(state, block)[s].nonce = state[s].nonce
                 /\ (\A tx \in block : tx.From # s) =>
                       Prepare(state, block)[s].balance = state[s].balance
<1> DEFINE pay(s) == From(Payable(state, block), s)
<1>1. ASSUME NEW s \in Senders
      PROVE  /\ state[s].nonce \in Nat /\ state[s].balance \in Nat
             /\ state[s] = [nonce |-> state[s].nonce,
                            balance |-> state[s].balance]
             /\ Fees(pay(s)) \in Nat /\ Fees(pay(s)) <= state[s].balance
             /\ (\A tx \in block : tx.From # s) => Fees(pay(s)) = 0
  <2>1. /\ state[s].nonce \in Nat /\ state[s].balance \in Nat
        /\ state[s] = [nonce |-> state[s].nonce, balance |-> state[s].balance]
    BY DEF Account
  <2>2. /\ pay(s) \in SUBSET From(block, s)
        /\ From(block, s) \in SUBSET Txs /\ pay(s) \in SUBSET Txs
    BY DEF From, Payable
  <2>3. /\ Fees(pay(s)) \in Nat /\ Fees(From(block, s)) \in Nat
        /\ Fees(pay(s)) <= Fees(From(block, s))
    BY <2>2, FeesLaws
  <2>4. CASE pay(s) = {}
    BY <2>1, <2>4, FeesLaws
  <2>5. CASE pay(s) # {}
    <3>1. PICK tx \in block :
              /\ tx.From = s
              /\ Fees(From(block, tx.From)) <= state[tx.From].balance
      BY <2>5 DEF From, Payable
    <3>2. Fees(From(block, s)) <= state[s].balance
      BY <3>1
    <3> HIDE DEF pay
    <3>3. Fees(pay(s)) <= state[s].balance
      BY <2>1, <2>3, <3>2
    <3> QED
      BY <2>1, <2>3, <3>1, <3>3
  <2> QED
    BY <2>4, <2>5
<1>2. Prepare(state, block) =
        [s \in Senders |-> [state[s] EXCEPT !.balance = @ - Fees(pay(s))]]
  BY DEF Prepare
<1> HIDE DEF pay
<1>3. ASSUME NEW s \in Senders
      PROVE  /\ Prepare(state, block)[s]
                  = [nonce |-> state[s].nonce,
                     balance |-> state[s].balance - Fees(pay(s))]
             /\ state[s].balance - Fees(pay(s)) \in Nat
  BY <1>1, <1>2
<1>4. ASSUME NEW s \in Senders PROVE Prepare(state, block)[s] \in Account
  <2> DEFINE n == state[s].nonce
             b == state[s].balance - Fees(pay(s))
  <2>1. n \in Nat /\ b \in Nat
    BY <1>1, <1>3
  <2>2. Prepare(state, block)[s] = [nonce |-> n, balance |-> b]
    BY <1>3
  <2> HIDE DEF n, b
  <2> QED
    BY <2>1, <2>2 DEF Account
<1>5. Prepare(state, block) \in [Senders -> Account]
  BY <1>2, <1>4
<1>6. ASSUME NEW s \in Senders
      PROVE  /\ Prepare(state, block)[s].nonce = state[s].nonce
             /\ (\A tx \in block : tx.From # s) =>
                   Prepare(state, block)[s].balance = state[s].balance
  <2> DEFINE n == state[s].nonce
             b == state[s].balance - Fees(pay(s))
  <2>1. Prepare(state, block)[s] = [nonce |-> n, balance |-> b]
    BY <1>3
  <2>2. (\A tx \in block : tx.From # s) => b = state[s].balance
    BY <1>1
  <2> HIDE DEF b
  <2> QED
    BY <2>1, <2>2
<1> QED
  BY <1>5, <1>6

(* A block and its Commit.                                                 *)
LEMMA CommitInv ==
    ASSUME Inv, NEW block \in SUBSET Txs, NEW price \in Prices,
           NEW ran \in SUBSET standby, NEW order \in SetToSeqs(ran),
           Commit(block, order, price)
    PROVE  Inv'
<1> USE DEF Inv
<1> DEFINE trunk == FoldLeft(Run, accounts, order)
           left == Without(mempool, block)
           touched == {tx.From : tx \in block}
<1>1. /\ toRecheck = <<>>
      /\ accounts' = Prepare(trunk, block) /\ checkTrunk' = accounts'
      /\ lastMinGasPrice' = price /\ touchedAddrs' = touched
      /\ sep206SenderSet' = LostCoins(ToSet(order))
      /\ recheckCounter' = 0
      /\ mempool' = left /\ toRecheck' = left
      /\ standby' = (standby \ ToSet(order)) \cup Payable(trunk, block)
      /\ included' = included \cup block /\ admitted' = {}
      /\ overtaken' = {tx \in ToSet(left) :
                          \/ tx \in overtaken
                          \/ /\ tx.From \notin touchedAddrs
                             /\ From(ToSet(order), tx.From) # {}}
      /\ UNCHANGED sigCache
  BY DEF Commit, ResetCounter
<1>2. order \in Seq(Txs) /\ ToSet(order) \subseteq standby
  <2>1. ran \subseteq Txs /\ IsFiniteSet(ran)
    BY FS_Subset, MempoolAssumption DEF TypeOK
  <2>2. Cardinality(ran) \in Nat /\ order \in [1 .. Cardinality(ran) -> ran]
    BY <2>1, FS_CardinalityType DEF SetToSeqs
  <2>3. order \in Seq(Txs)
    BY <2>1, <2>2
  <2>4. ToSet(order) \subseteq ran
    BY <2>2 DEF ToSet
  <2> QED
    BY <2>3, <2>4
<1>3. Kept(accounts, trunk, ToSet(order))
  BY <1>2, RunAllKeeps DEF TypeOK
<1>4. trunk \in [Senders -> Account]
  BY <1>3 DEF Kept
<1> HIDE DEF trunk
<1>5. /\ accounts' \in [Senders -> Account]
      /\ \A s \in Senders :
            /\ accounts'[s].nonce = trunk[s].nonce
            /\ s \notin touched => accounts'[s].balance = trunk[s].balance
  BY <1>1, <1>4, PrepareKeeps
<1>6. /\ left \in Seq(Txs) /\ Distinct(left)
      /\ ToSet(left) \subseteq ToSet(mempool)
  <2>1. mempool \in Seq(Txs) /\ Distinct(mempool)
    BY DEF TypeOK, PoolInv
  <2> QED
    BY <2>1, WithoutLaws
<1>7. Len(left) \in Nat /\ Len(left) <= Cardinality(Txs)
  BY <1>6, DistinctLength
<1> HIDE DEF left
<1>8. /\ Payable(trunk, block) \subseteq block /\ standby \subseteq Txs
      /\ touched \subseteq Senders
  BY TxType DEF Payable, TypeOK
<1>9. TypeOK'
  <2>1. LostCoins(ToSet(order)) \subseteq Senders
    BY <1>2, <1>8, TxType DEF LostCoins
  <2>2. overtaken' \subseteq Txs
    <3>1. ToSet(left) \subseteq Txs
      BY <1>6 DEF ToSet
    <3> QED
      BY <1>1, <3>1
  <2>3. 0 \in 0 .. Cardinality(Txs)
    BY FS_CardinalityType, MempoolAssumption
  <2> HIDE DEF touched
  <2> QED
    BY <1>1, <1>5, <1>6, <1>8, <2>1, <2>2, <2>3 DEF TypeOK
<1>10. PoolInv'
  BY <1>1, <1>6, <1>7 DEF PoolInv
<1>11. TouchedInv'
  BY <1>1 DEF TouchedInv
<1>12. UsableInv'
  <2> SUFFICES ASSUME NEW tx \in ToSet(left),
                      tx.From \notin touched, tx \notin overtaken'
               PROVE  /\ tx.nonce >= accounts'[tx.From].nonce
                      /\ \/ Fee(tx) <= accounts'[tx.From].balance
                         \/ tx.From \in LostCoins(ToSet(order))
    BY <1>1 DEF UsableInv, CanPay, Fee
  <2>1. tx \in ToSet(mempool) /\ tx \in Txs /\ tx.From \in Senders
    <3>1. tx \in Txs
      BY <1>6 DEF ToSet
    <3> QED
      BY <1>6, <3>1, TxType
  <2>2. tx.From \notin touchedAddrs
    BY <1>1, <2>1, EmptyPool DEF TouchedInv
  <2>3. /\ tx.nonce >= accounts[tx.From].nonce
        /\ Fee(tx) <= accounts[tx.From].balance
    <3>1. tx \notin overtaken
      BY <1>1
    <3> QED
      BY <1>1, <2>1, <2>2, <3>1, EmptyPool DEF UsableInv, CanPay
  <2>4. \A t \in ToSet(order) : t.From # tx.From
    <3>1. From(ToSet(order), tx.From) = {}
      BY <1>1, <2>2
    <3> QED
      BY <3>1 DEF From
  <2>5. /\ trunk[tx.From].nonce = accounts[tx.From].nonce
        /\ (\A t \in ToSet(order) : tx.From \notin t.victims) =>
              trunk[tx.From].balance = accounts[tx.From].balance
    BY <1>3, <2>1, <2>4 DEF Kept
  <2>6. /\ accounts'[tx.From].nonce = trunk[tx.From].nonce
        /\ accounts'[tx.From].balance = trunk[tx.From].balance
    BY <1>5, <2>1
  <2>7. tx.From \notin LostCoins(ToSet(order)) =>
            \A t \in ToSet(order) : tx.From \notin t.victims
    BY DEF LostCoins
  <2> QED
    BY <2>3, <2>5, <2>6, <2>7
<1>13. TrunkInv'
  <2>1. SUFFICES ASSUME NEW s \in Senders
        PROVE /\ accounts'[s].nonce
                   = accounts'[s].nonce + Cardinality(From({}, s))
              /\ accounts'[s].balance
                   = accounts'[s].balance - Fees(From({}, s))
              /\ {t.nonce : t \in From({}, s)}
                   = accounts'[s].nonce .. accounts'[s].nonce - 1
    BY <1>1 DEF TrunkInv, From, Fees
  <2>2. From({}, s) = {} /\ Cardinality({}) = 0 /\ Fees({}) = 0
    BY FS_EmptySet, FeesLaws DEF From
  <2>3. accounts'[s].nonce \in Nat /\ accounts'[s].balance \in Nat
    BY <1>5 DEF Account
  <2>4. accounts'[s].nonce .. accounts'[s].nonce - 1 = {}
    BY <2>3
  <2>5. {t.nonce : t \in From({}, s)} = {}
    BY <2>2
  <2> QED
    BY <2>2, <2>3, <2>4, <2>5
<1> QED
  BY <1>9, <1>10, <1>11, <1>12, <1>13

(* Every step keeps the invariant.                                         *)
LEMMA NextInv == Inv /\ [Next]_vars => Inv'
<1> SUFFICES ASSUME Inv, [Next]_vars PROVE Inv'
  OBVIOUS
<1>1. ASSUME NEW tx \in Txs,
             SendRawTransaction(tx) \/ SendTransaction(tx) \/ Gossip(tx)
      PROVE  Inv'
  BY <1>1, CheckTxInv DEF SendRawTransaction, SendTransaction, Gossip
<1>2. CASE Recheck
  BY <1>2, RecheckInv
<1>3. CASE CommitSome(Blocks)
  <2>1. PICK block \in Blocks, price \in Prices :
            \E ran \in SUBSET standby : \E order \in SetToSeqs(ran) :
                Commit(block, order, price)
    BY <1>3 DEF CommitSome
  <2>2. PICK ran \in SUBSET standby : \E order \in SetToSeqs(ran) :
            Commit(block, order, price)
    BY <2>1
  <2>3. PICK order \in SetToSeqs(ran) : Commit(block, order, price)
    BY <2>2
  <2>4. block \in SUBSET Txs
    BY DEF Blocks
  <2> QED
    BY <2>3, <2>4, CommitInv
<1>4. CASE UNCHANGED vars
  <2>1. /\ UNCHANGED <<accounts, lastMinGasPrice, touchedAddrs, sep206SenderSet>>
        /\ UNCHANGED <<checkTrunk, recheckCounter, sigCache, mempool, toRecheck>>
        /\ UNCHANGED <<standby, included, overtaken, admitted>>
    BY <1>4 DEF vars, appVars, poolVars, chainVars
  <2>2. TypeOK'
    BY <2>1 DEF Inv, TypeOK
  <2>3. PoolInv' /\ TouchedInv' /\ UsableInv' /\ TrunkInv'
    BY <2>1 DEF Inv, PoolInv, TouchedInv, UsableInv, CanPay, TrunkInv
  <2> QED
    BY <2>2, <2>3 DEF Inv
<1> QED
  BY <1>1, <1>2, <1>3, <1>4 DEF Next

(* The invariant holds in every reachable state.                           *)
LEMMA InvHolds == Spec => []Inv
BY InitInv, NextInv, PTL DEF Spec

-----------------------------------------------------------------------------
(* The theorems.                                                           *)

(* The types, with what they bound: no balance in the state or in the      *)
(* state that CheckTx works on ever becomes negative, the recheck counter  *)
(* never exceeds the number of transactions, and the signature cache grows *)
(* at most one beyond its size.                                            *)
THEOREM TypeCorrect == Spec => []TypeOK
<1>1. Inv => TypeOK
  BY DEF Inv
<1> QED
  BY <1>1, InvHolds, PTL

(* The elements of the mempool, by their places.                           *)
LEMMA Places ==
    ASSUME NEW i \in DOMAIN mempool
    PROVE  mempool[i] \in ToSet(mempool)
BY DEF ToSet

(* After a recheck no transaction in the mempool has a used nonce, except  *)
(* those that a late execution has overtaken: touchedAddrs of one block is *)
(* enough for executions in their turn, although the engine runs a block's *)
(* transactions while the next one is made.                                *)
THEOREM NoStaleNonceHolds == Spec => []NoStaleNonce
<1>1. Inv => NoStaleNonce
  <2> SUFFICES ASSUME Inv, Rechecked, NEW i \in DOMAIN mempool,
                      mempool[i] \notin overtaken
               PROVE  mempool[i].nonce >= accounts[mempool[i].From].nonce
    BY DEF NoStaleNonce
  <2>1. ToSet(toRecheck) = {}
    BY EmptyPool DEF Rechecked
  <2>2. mempool[i].From \notin touchedAddrs
    BY <2>1, Places DEF Inv, TouchedInv
  <2> QED
    BY <2>2, Places DEF Inv, UsableInv
<1> QED
  BY <1>1, InvHolds, PTL

(* After a recheck every transaction in the mempool is paid for by its     *)
(* sender, unless a late execution has overtaken it: the senders that were *)
(* neither touched nor lost coins through SEP206 need no look at their     *)
(* balance, except that those two sets do not know of late executions.     *)
THEOREM PayableUnlessOvertakenHolds == Spec => []PayableUnlessOvertaken
<1>1. Inv => PayableUnlessOvertaken
  <2> SUFFICES ASSUME Inv, Rechecked, NEW i \in DOMAIN mempool,
                      mempool[i] \notin overtaken
               PROVE  CanPay(mempool[i])
    BY DEF PayableUnlessOvertaken
  <2>1. ToSet(toRecheck) = {}
    BY EmptyPool DEF Rechecked
  <2>2. mempool[i].From \notin touchedAddrs
    BY <2>1, Places DEF Inv, TouchedInv
  <2> QED
    BY <2>1, <2>2, Places DEF Inv, UsableInv
<1> QED
  BY <1>1, InvHolds, PTL

(* What CheckTx admits between two Commits can be executed together: the   *)
(* nonces of a sender are consecutive from the committed one on, and the   *)
(* sum of his fees is covered.                                             *)
THEOREM AdmittedTogetherHolds == Spec => []AdmittedTogether
<1>1. Inv => AdmittedTogether
  <2> SUFFICES ASSUME Inv, NEW s \in Senders
               PROVE  LET mine == From(admitted, s)
                          first == accounts[s].nonce
                      IN  /\ {tx.nonce : tx \in mine}
                               = first .. first + Cardinality(mine) - 1
                          /\ Fees(mine) <= accounts[s].balance
    BY DEF AdmittedTogether
  <2> DEFINE mine == From(admitted, s)
  <2>1. /\ checkTrunk[s].nonce = accounts[s].nonce + Cardinality(mine)
        /\ checkTrunk[s].balance = accounts[s].balance - Fees(mine)
        /\ {tx.nonce : tx \in mine}
              = accounts[s].nonce .. checkTrunk[s].nonce - 1
    BY DEF Inv, TrunkInv
  <2>2. /\ accounts[s].balance \in Nat /\ checkTrunk[s].balance \in Nat
        /\ accounts[s].nonce \in Nat
    BY TrunkBelow DEF Inv
  <2>3. Fees(mine) \in Nat /\ Cardinality(mine) \in Nat
    <3>1. mine \in SUBSET Txs
      BY DEF From, Inv, TypeOK
    <3>2. IsFiniteSet(mine)
      BY <3>1, FS_Subset, MempoolAssumption
    <3> QED
      BY <3>1, <3>2, FeesLaws, FS_CardinalityType
  <2> HIDE DEF mine
  <2>4. Fees(mine) <= accounts[s].balance
    BY <2>1, <2>2, <2>3
  <2>5. {tx.nonce : tx \in mine}
          = accounts[s].nonce .. accounts[s].nonce + Cardinality(mine) - 1
    <3>1. checkTrunk[s].nonce - 1
            = accounts[s].nonce + Cardinality(mine) - 1
      BY <2>1, <2>2, <2>3
    <3> QED
      BY <2>1, <3>1, Zenon
  <2> QED
    BY <2>4, <2>5 DEF mine
<1> QED
  BY <1>1, InvHolds, PTL
=============================================================================
