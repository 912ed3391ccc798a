---------------------------- MODULE FiltersProof -----------------------------
(***************************************************************************)
(* The theorems about Filters, for every set of filters, every chain of    *)
(* blocks, every channel size and whatever the clients do.                 *)
(*                                                                         *)
(* The inductive invariant follows an event from publishNewBlock to the    *)
(* poll: what a channel holds is what was published and not yet taken, in  *)
(* order; what eventLoop sends is the last event it took, to installed     *)
(* filters that want it; and a filter that is installed but not yet        *)
(* registered keeps the event loop waiting with the first event, instead   *)
(* of missing it.                                                          *)
(***************************************************************************)
EXTENDS Filters, ProofLemmas, SequenceTheorems

Blocks == 1 .. MaxBlock

(* The last block whose chain event was sent.                              *)
Sent == IF publishing = "logs" THEN published + 1 ELSE published

ChannelsOK ==
    /\ publishing = "logs" =>
          published < MaxBlock /\ LogsOf[published + 1] # <<>>
    /\ taken["blocks"] + Len(chainCh) = Sent
    /\ \A i \in 1 .. Len(chainCh) : chainCh[i] = taken["blocks"] + i
    /\ taken["logs"] <= published
    /\ Ascending(logsCh, {n \in taken["logs"] + 1 .. published :
                             LogsOf[n] # <<>>})

LoopOK ==
    /\ \A i, j \in 1 .. Len(loop.left) : loop.left[i] = loop.left[j] => i = j
    /\ \A f \in ToSet(loop.left) :
          f \in index /\ loop.event = taken[Kind[f]] /\ loop.event # 0
    /\ \A f \in Filters : start[f] <= taken[Kind[f]]

(* The life of a filter.                                                   *)
LifeOK ==
    /\ scan \subseteq DOMAIN filters
    /\ scan # {} => holder
    /\ \A f \in DOMAIN filters : call[f] = "created"
    /\ \A f \in DOMAIN filters : unsub[f] = "none" => f \in index
    /\ \A f \in Filters :
          unsub[f] # "none" => call[f] \in {"created", "uninstalling", "done"}
    /\ \A f \in Filters :
          call[f] \in {"none", "refused", "subscribe", "register"} =>
             routine[f].pc = "none" /\ got[f] = <<>>
    /\ \A f \in Filters :
          call[f] \in {"none", "refused", "subscribe"} => f \notin index
    /\ \A f \in Filters : call[f] = "register" => f \in index
    /\ \A f \in Filters : routine[f].pc = "append" => routine[f].event # 0

Awaits(f) == call[f] = "register" \/ (f \in DOMAIN filters /\ unsub[f] = "none")

Events(f) == IF f \in DOMAIN filters THEN filters[f].events ELSE <<>>

Delivered(f) == got[f] \o Events(f) \o InFlight(f)

DeliveryOK == \A f \in Filters : Awaits(f) => Ascending(Delivered(f), Owed(f))

IInv ==
    TypeOK /\ ChannelsOK /\ LoopOK /\ LifeOK /\ UninstalledIsSilent
    /\ DeliveryOK

-----------------------------------------------------------------------------
(* The constants.                                                          *)
LEMMA ConstantFacts ==
    /\ MaxBlock \in Nat
    /\ ChanSize \in Nat /\ ChanSize # 0
    /\ IsFiniteSet(Filters)
    /\ \A f \in Filters : Kind[f] \in {"blocks", "logs"}
    /\ Blocks \subseteq Nat
BY FiltersAssumption DEF MaxBlock, Blocks

(* The elements of a sequence.                                             *)
LEMMA Elements ==
    ASSUME NEW S, NEW s \in Seq(S)
    PROVE  /\ Len(s) \in Nat /\ DOMAIN s = 1 .. Len(s)
           /\ ToSet(s) = {s[i] : i \in 1 .. Len(s)}
           /\ \A x : x \in ToSet(s) <=> \E i \in 1 .. Len(s) : s[i] = x
           /\ ToSet(s) \subseteq S
<1>1. Len(s) \in Nat /\ DOMAIN s = 1 .. Len(s)
  BY LenProperties, Zenon
<1>2. ToSet(s) = {s[i] : i \in 1 .. Len(s)}
  BY <1>1, Zenon DEF ToSet
<1>3. \A i \in 1 .. Len(s) : s[i] \in S
  BY ElementOfSeq, Zenon
<1> QED
  BY <1>1, <1>2, <1>3, Zenon

(* A new last element that is larger than all others.                      *)
LEMMA AscendingMore ==
    ASSUME NEW s \in Seq(Nat), NEW S, Ascending(s, S), NEW n \in Nat,
           \A m \in S : m < n
    PROVE  Ascending(s \o <<n>>, S \cup {n})
<1>1. PICK l \in Nat : l = Len(s)
  BY LenProperties
<1>2. PICK t \in Seq(Nat) : t = s \o <<n>> /\ t = Append(s, n)
  <2>1. Append(s, n) = s \o <<n>>
    BY AppendIsConcat
  <2>2. Append(s, n) \in Seq(Nat)
    BY AppendProperties, Zenon
  <2> QED
    BY <2>1, <2>2, Zenon
<1>3. Len(t) = l + 1 /\ t[l + 1] = n /\ \A i \in 1 .. l : t[i] = s[i]
  BY <1>2, <1>1, AppendProperties
<1>4. /\ \A x : x \in S <=> \E i \in 1 .. l : s[i] = x
      /\ \A i, j \in 1 .. l : i < j => s[i] < s[j]
  BY <1>1, Elements, Zenon DEF Ascending
<1>5. \A x : x \in ToSet(t) <=> \E i \in 1 .. l + 1 : t[i] = x
  BY <1>3, Elements, SMTT(20)
<1>6. \A x : x \in ToSet(t) <=> x \in S \cup {n}
  <2> TAKE x
  <2>1. ASSUME x \in ToSet(t) PROVE x \in S \cup {n}
    <3>1. PICK i \in 1 .. l + 1 : t[i] = x
      BY <2>1, <1>5
    <3>2. CASE i = l + 1
      BY <3>1, <3>2, <1>3
    <3>3. CASE i # l + 1
      <4>1. i \in 1 .. l
        BY <3>3
      <4> QED
        BY <3>1, <4>1, <1>3, <1>4
    <3> QED
      BY <3>2, <3>3
  <2>2. ASSUME x \in S PROVE x \in ToSet(t)
    <3>1. PICK i \in 1 .. l : s[i] = x
      BY <2>2, <1>4
    <3>2. i \in 1 .. l + 1 /\ t[i] = x
      BY <3>1, <1>3
    <3> QED
      BY <3>2, <1>5
  <2>3. n \in ToSet(t)
    <3>1. l + 1 \in 1 .. l + 1
      OBVIOUS
    <3> QED
      BY <3>1, <1>3, <1>5
  <2> QED
    BY <2>1, <2>2, <2>3
<1>7. ASSUME NEW i \in 1 .. l + 1, NEW j \in 1 .. l + 1, i < j
      PROVE  t[i] < t[j]
  <2>1. i \in 1 .. l
    BY <1>7
  <2>2. CASE j = l + 1
    <3>1. s[i] \in S
      BY <2>1, <1>4
    <3> QED
      BY <2>1, <2>2, <3>1, <1>3
  <2>3. CASE j # l + 1
    <3>1. j \in 1 .. l
      BY <2>3
    <3> QED
      BY <2>1, <3>1, <1>3, <1>4, <1>7
  <2> QED
    BY <2>2, <2>3
<1>8. ToSet(t) = S \cup {n}
  BY <1>6, Zenon
<1> QED
  BY <1>2, <1>3, <1>7, <1>8 DEF Ascending

(* Without its first element, which is the least.                          *)
LEMMA AscendingTail ==
    ASSUME NEW s \in Seq(Nat), s # <<>>, NEW S, Ascending(s, S)
    PROVE  /\ Head(s) \in S
           /\ \A m \in S : Head(s) <= m
           /\ Ascending(Tail(s), S \ {Head(s)})
<1>1. PICK l \in Nat : l = Len(s) /\ l # 0
  BY EmptySeq, LenProperties
<1>2. PICK h \in Nat : h = Head(s) /\ h = s[1]
  <2>1. Head(s) \in Nat /\ Head(s) = s[1]
    BY <1>1, HeadTailProperties
  <2> QED
    BY <2>1
<1>3. PICK t \in Seq(Nat) : t = Tail(s)
  BY HeadTailProperties
<1>4. Len(t) = l - 1 /\ \A i \in 1 .. l - 1 : t[i] = s[i + 1]
  BY <1>1, <1>3, HeadTailProperties
<1>5. /\ \A x : x \in S <=> \E i \in 1 .. l : s[i] = x
      /\ \A i, j \in 1 .. l : i < j => s[i] < s[j]
  BY <1>1, Elements, Zenon DEF Ascending
<1>6. \A x : x \in ToSet(t) <=> \E i \in 1 .. l - 1 : t[i] = x
  BY <1>4, Elements, ZenonT(40)
<1>7. \A i \in 2 .. l : h < s[i] /\ s[i] \in Nat
  <2>1. \A i \in 1 .. l : s[i] \in Nat
    BY <1>1, ElementOfSeq, Zenon
  <2> QED
    BY <1>1, <1>2, <1>5, <2>1
<1>8. h \in S /\ \A m \in S : h <= m
  <2>1. 1 \in 1 .. l
    BY <1>1
  <2>2. h \in S
    BY <2>1, <1>2, <1>5
  <2>3. ASSUME NEW m \in S PROVE h <= m
    <3>1. PICK i \in 1 .. l : s[i] = m
      BY <1>5
    <3>2. CASE i = 1
      BY <3>1, <3>2, <1>2
    <3>3. CASE i # 1
      <4>1. i \in 2 .. l
        BY <3>3
      <4> QED
        BY <3>1, <4>1, <1>7
    <3> QED
      BY <3>2, <3>3
  <2> QED
    BY <2>2, <2>3
<1>9. \A x : x \in ToSet(t) <=> x \in S \ {h}
  <2> TAKE x
  <2>1. ASSUME x \in ToSet(t) PROVE x \in S \ {h}
    <3>1. PICK i \in 1 .. l - 1 : t[i] = x
      BY <2>1, <1>6
    <3>2. i + 1 \in 2 .. l /\ i + 1 \in 1 .. l /\ s[i + 1] = x
      BY <3>1, <1>4
    <3>3. x \in S
      BY <3>2, <1>5
    <3>4. h < x
      BY <3>2, <1>7
    <3> QED
      BY <3>3, <3>4
  <2>2. ASSUME x \in S \ {h} PROVE x \in ToSet(t)
    <3>1. PICK i \in 1 .. l : s[i] = x
      BY <2>2, <1>5
    <3>2. i # 1
      BY <2>2, <3>1, <1>2
    <3>3. i - 1 \in 1 .. l - 1 /\ (i - 1) + 1 = i
      BY <3>2
    <3>4. t[i - 1] = x
      BY <3>1, <3>3, <1>4
    <3> QED
      BY <3>3, <3>4, <1>6
  <2> QED
    BY <2>1, <2>2
<1>10. ASSUME NEW i \in 1 .. l - 1, NEW j \in 1 .. l - 1, i < j
       PROVE  t[i] < t[j]
  <2>1. i + 1 \in 1 .. l /\ j + 1 \in 1 .. l /\ i + 1 < j + 1
    BY <1>10
  <2>2. s[i + 1] < s[j + 1]
    BY <2>1, <1>5
  <2> QED
    BY <2>2, <1>4
<1>11. ToSet(t) = S \ {h}
  BY <1>9, Zenon
<1>12. Ascending(t, S \ {h})
  BY <1>4, <1>10, <1>11 DEF Ascending
<1> QED
  BY <1>2, <1>3, <1>8, <1>12

(* Concatenation is associative.                                           *)
Regroups(S) == \A p, q, r \in Seq(S) : (p \o q) \o r = p \o (q \o r)

(* For the sequences over any set.                                         *)
LEMMA Associative ==
    ASSUME NEW S
    PROVE  Regroups(S)
<1> SUFFICES ASSUME NEW p \in Seq(S), NEW q \in Seq(S), NEW r \in Seq(S)
             PROVE  (p \o q) \o r = p \o (q \o r)
  BY DEF Regroups
<1> QED
  BY ConcatAssociative, SMTT(20)

(* An event moves from one part of what was delivered to the next.         *)
LEMMA ConcatFacts ==
    ASSUME NEW S, NEW a \in Seq(S), NEW b \in Seq(S), NEW c \in Seq(S),
           NEW x \in S
    PROVE  /\ a \o Append(b, x) \o c = a \o b \o (<<x>> \o c)
           /\ a \o b \o c = (a \o b) \o <<>> \o c
           /\ a \o b \o (c \o <<x>>) = (a \o b \o c) \o <<x>>
           /\ a \o b \o c \in Seq(S)
<1>0. Regroups(S)
  BY Associative, Zenon
<1>1. PICK ab \in Seq(S) : ab = a \o b
  <2>1. a \o b \in Seq(S)
    BY ConcatProperties, Zenon
  <2> QED
    BY <2>1, Zenon
<1>2. PICK u \in Seq(S) : u = <<x>>
  <2>1. <<x>> \in [1 .. 1 -> S]
    OBVIOUS
  <2>2. <<x>> \in Seq(S)
    BY <2>1, SeqDef
  <2> QED
    BY <2>2
<1>3. Append(b, x) = b \o u
  BY <1>2, AppendIsConcat
<1>4. a \o (b \o u) = ab \o u
  <2>1. (a \o b) \o u = a \o (b \o u)
    BY <1>0, ZenonT(40) DEF Regroups
  <2> QED
    BY <2>1, <1>1, Zenon
<1>5. (ab \o u) \o c = ab \o (u \o c)
  BY <1>0, ZenonT(40) DEF Regroups
<1>6. ab \o <<>> = ab
  BY <1>1, ConcatEmptySeq, Zenon
<1>7. (ab \o c) \o u = ab \o (c \o u)
  BY <1>0, ZenonT(40) DEF Regroups
<1>8. ab \o c \in Seq(S)
  BY <1>1, ConcatProperties, Zenon
<1>9. a \o Append(b, x) \o c = ab \o (u \o c)
  BY <1>3, <1>4, <1>5, Zenon
<1> QED
  BY <1>1, <1>2, <1>6, <1>7, <1>8, <1>9, Zenon

(* The same for the events of a filter.                                    *)
LEMMA DeliveredMore ==
    ASSUME NEW g \in Seq(Blocks), NEW e \in Seq(Blocks), NEW a \in Seq(Blocks),
           NEW n \in Blocks
    PROVE  g \o e \o (a \o <<n>>) = (g \o e \o a) \o <<n>>
<1>1. Regroups(Blocks)
  BY Associative, Zenon
<1>2. PICK ge \in Seq(Blocks) : ge = g \o e
  <2>1. g \o e \in Seq(Blocks)
    BY ConcatProperties, Zenon
  <2> QED
    BY <2>1, Zenon
<1>3. PICK u \in Seq(Blocks) : u = <<n>>
  <2>1. <<n>> \in [1 .. 1 -> Blocks]
    OBVIOUS
  <2>2. <<n>> \in Seq(Blocks)
    BY <2>1, SeqDef
  <2> QED
    BY <2>2
<1>4. ge \o (a \o u) = (ge \o a) \o u
  BY <1>1, ZenonT(40) DEF Regroups
<1> QED
  BY <1>2, <1>3, <1>4, Zenon

(* handleChainEvent and handleLogs send to each recipient once.            *)
LEMMA OrderFacts ==
    ASSUME NEW R \in SUBSET Filters, NEW order \in SetToSeqs(R)
    PROVE  /\ order \in Seq(Filters)
           /\ ToSet(order) = R
           /\ \A i, j \in 1 .. Len(order) : order[i] = order[j] => i = j
<1>1. IsFiniteSet(R)
  BY ConstantFacts, FS_Subset
<1>2. PICK n \in Nat : n = Cardinality(R)
  BY <1>1, FS_CardinalityType
<1>3. /\ order \in [1 .. n -> R]
      /\ \A i, j \in 1 .. n : i # j => order[i] # order[j]
  BY <1>2, Zenon DEF SetToSeqs
<1>4. order \in Seq(R) /\ Len(order) = n
  BY <1>3
<1>5. order \in Seq(Filters)
  BY <1>4, SeqMonotonic, Zenon
<1>6. order \in Injection(1 .. n, R)
  BY <1>3 DEF Injection, IsInjective
<1>7. IsFiniteSet(1 .. n) /\ Cardinality(1 .. n) = n
  BY FS_Interval
<1>8. \A x \in R : \E i \in 1 .. n : order[i] = x
  <2> DEFINE T == {order[i] : i \in 1 .. n}
  <2>1. T \subseteq R
    BY <1>3
  <2>2. order \in Bijection(1 .. n, T)
    BY <1>3 DEF Bijection, Injection, Surjection, IsInjective
  <2>3. ExistsBijection(1 .. n, T)
    BY <2>2 DEF ExistsBijection
  <2> HIDE DEF T
  <2>4. IsFiniteSet(T) /\ Cardinality(T) = n
    BY <2>1, <2>3, <1>1, FS_CountingElements, FS_Subset
  <2>5. T = R
    BY <2>1, <2>4, <1>1, <1>2, FS_Subset
  <2> QED
    BY <2>5 DEF T
<1>9. \A x : x \in ToSet(order) <=> x \in R
  BY <1>3, <1>8 DEF ToSet
<1>10. ToSet(order) = R
  BY <1>9, Zenon
<1> QED
  BY <1>3, <1>4, <1>5, <1>10

(* What the first half of the invariant says of the parts of Delivered.    *)
LEMMA Parts ==
    ASSUME TypeOK, LoopOK, LifeOK, NEW f \in Filters
    PROVE  /\ got[f] \in Seq(Blocks) /\ Events(f) \in Seq(Blocks)
           /\ InFlight(f) \in Seq(Blocks)
           /\ routine[f].pc = "append" => routine[f].event \in Blocks
           /\ f \in ToSet(loop.left) => loop.event \in Blocks
<1>1. got[f] \in Seq(Blocks)
  BY DEF TypeOK, Blocks
<1>2. Events(f) \in Seq(Blocks)
  <2>1. CASE f \in DOMAIN filters
    <3>1. filters[f] \in [events : Seq(1 .. MaxBlock), expired : BOOLEAN]
      BY <2>1 DEF TypeOK
    <3>2. filters[f].events \in Seq(1 .. MaxBlock)
      BY <3>1
    <3> QED
      BY <2>1, <3>2 DEF Events, Blocks
  <2>2. CASE f \notin DOMAIN filters
    BY <2>2 DEF Events
  <2> QED
    BY <2>1, <2>2
<1>3. routine[f].pc = "append" => routine[f].event \in Blocks
  <2>1. routine[f].event \in 0 .. MaxBlock
    BY DEF TypeOK
  <2> QED
    BY <2>1, ConstantFacts DEF LifeOK, Blocks
<1>4. f \in ToSet(loop.left) => loop.event \in Blocks
  <2>1. loop.event \in 0 .. MaxBlock
    BY DEF TypeOK
  <2> QED
    BY <2>1, ConstantFacts DEF LoopOK, Blocks
<1>5. InFlight(f) \in Seq(Blocks)
  <2>1. \A x \in Blocks : <<x>> \in Seq(Blocks)
    OBVIOUS
  <2>2. PICK a \in Seq(Blocks) :
           a = IF routine[f].pc = "append" THEN <<routine[f].event>> ELSE <<>>
    <3>1. /\ routine[f].pc = "append" => <<routine[f].event>> \in Seq(Blocks)
          /\ <<>> \in Seq(Blocks)
      BY <2>1, <1>3, EmptySeq, Zenon
    <3> QED
      BY <3>1
  <2>3. PICK b \in Seq(Blocks) :
           b = IF f \in ToSet(loop.left) THEN <<loop.event>> ELSE <<>>
    <3>1. /\ f \in ToSet(loop.left) => <<loop.event>> \in Seq(Blocks)
          /\ <<>> \in Seq(Blocks)
      BY <2>1, <1>4, EmptySeq, Zenon
    <3> QED
      BY <3>1
  <2>4. InFlight(f) = a \o b
    BY <2>2, <2>3, Zenon DEF InFlight
  <2>5. a \o b \in Seq(Blocks)
    BY ConcatProperties
  <2> QED
    BY <2>4, <2>5
<1> QED
  BY <1>1, <1>2, <1>3, <1>4, <1>5

-----------------------------------------------------------------------------
(* The channels and what was taken from them stay the same.                *)
LEMMA ChannelsKept ==
    ASSUME ChannelsOK,
           UNCHANGED <<published, publishing, chainCh, logsCh, taken>>
    PROVE  ChannelsOK'
<1>1. Sent' = Sent
  BY DEF Sent
<1> QED
  BY <1>1 DEF ChannelsOK

(* So does the event loop.                                                 *)
LEMMA LoopKept ==
    ASSUME LoopOK, UNCHANGED <<loop, index, taken, start>>
    PROVE  LoopOK'
BY DEF LoopOK

(* Nothing is delivered, and nothing more is owed.                         *)
LEMMA DeliveryKept ==
    ASSUME DeliveryOK, UNCHANGED <<taken, start>>,
           \A f \in Filters :
              Awaits(f)' => Awaits(f) /\ Delivered(f)' = Delivered(f)
    PROVE  DeliveryOK'
<1> SUFFICES ASSUME NEW f \in Filters, Awaits(f)'
             PROVE  Ascending(Delivered(f), Owed(f))'
  BY DEF DeliveryOK
<1>1. Ascending(Delivered(f), Owed(f))
  BY DEF DeliveryOK
<1>2. Delivered(f)' = Delivered(f)
  OBVIOUS
<1>3. Owed(f)' = Owed(f)
  BY DEF Owed
<1> QED
  BY <1>1, <1>2, <1>3 DEF Ascending

(* All that makes up what was delivered stays the same.                    *)
LEMMA SameDelivered ==
    ASSUME UNCHANGED <<got, filters, routine, loop>>, NEW f
    PROVE  Delivered(f)' = Delivered(f) /\ Events(f)' = Events(f)
BY DEF Delivered, Events, InFlight

(* The first state.                                                        *)
LEMMA InitIInv == Init => IInv
<1> SUFFICES ASSUME Init PROVE IInv
  OBVIOUS
<1>1. ToSet(loop.left) = {} /\ Len(loop.left) = 0 /\ DOMAIN filters = {}
  BY DEF Init, ToSet
<1>2. TypeOK
  <2>1. \A f \in Filters : got[f] = <<>>
    BY DEF Init
  <2>2. got \in [Filters -> Seq(1 .. MaxBlock)]
    BY <2>1 DEF Init
  <2>3. loop \in [event : 0 .. MaxBlock, left : Seq(Filters)]
    BY ConstantFacts DEF Init
  <2>4. /\ chainCh \in Seq(1 .. MaxBlock) /\ Len(chainCh) <= ChanSize
        /\ logsCh \in Seq(1 .. MaxBlock) /\ Len(logsCh) <= ChanSize
    BY ConstantFacts DEF Init
  <2> QED
    BY <1>1, <2>2, <2>3, <2>4, ConstantFacts DEF Init, TypeOK
<1>3. ChannelsOK
  <2>1. {n \in 1 .. 0 : LogsOf[n] # <<>>} = {}
    OBVIOUS
  <2>2. Ascending(<<>>, {})
    BY DEF Ascending, ToSet
  <2> QED
    BY <2>1, <2>2 DEF Init, ChannelsOK, Sent
<1>4. LoopOK
  BY <1>1, ConstantFacts DEF Init, LoopOK
<1>5. LifeOK
  BY <1>1 DEF Init, LifeOK
<1>6. UninstalledIsSilent
  BY DEF Init, UninstalledIsSilent
<1>7. DeliveryOK
  BY <1>1 DEF Init, DeliveryOK, Awaits
<1> QED
  BY <1>2, <1>3, <1>4, <1>5, <1>6, <1>7 DEF IInv

-----------------------------------------------------------------------------
(* What does not touch the filters keeps their part of the invariant.      *)
LEMMA FiltersKept ==
    ASSUME IInv, UNCHANGED <<loop, index, taken, start, call, filters, routine,
                             unsub, scan, holder, got>>
    PROVE  LoopOK' /\ LifeOK' /\ UninstalledIsSilent' /\ DeliveryOK'
<1>1. LoopOK'
  BY LoopKept DEF IInv
<1>2. LifeOK'
  BY DEF IInv, LifeOK
<1>3. UninstalledIsSilent'
  BY DEF IInv, UninstalledIsSilent
<1>4. DeliveryOK'
  BY SameDelivered, DeliveryKept DEF IInv, Awaits
<1> QED
  BY <1>1, <1>2, <1>3, <1>4

(* publishNewBlock sends the chain event of the next block.                *)
LEMMA PublishChainEventIInv ==
    ASSUME IInv, PublishChainEvent
    PROVE  IInv'
<1>1. /\ publishing = "chain" /\ published < MaxBlock
      /\ Len(chainCh) < ChanSize
      /\ chainCh' = Append(chainCh, published + 1)
      /\ IF LogsOf[published + 1] # <<>>
         THEN publishing' = "logs" /\ published' = published
         ELSE published' = published + 1 /\ publishing' = publishing
      /\ UNCHANGED <<clients, logsCh, loop, index, taken, start, call, filters,
                     holder, scan, got, routine, unsub>>
  BY DEF PublishChainEvent, HasRoom, loopVars, apiVars
<1>2. TypeOK /\ ChannelsOK
  BY DEF IInv
<1>3. PICK p \in Nat : p = published /\ p < MaxBlock /\ p + 1 \in Blocks
  BY <1>1, <1>2, ConstantFacts DEF TypeOK, Blocks
<1>4. PICK l \in Nat : l = Len(chainCh) /\ l < ChanSize
  BY <1>1, <1>2, LenProperties DEF TypeOK
<1>5. PICK b \in Nat : b = taken["blocks"]
  BY <1>2, ConstantFacts DEF TypeOK
<1>6. PICK c \in Nat : c = taken["logs"]
  BY <1>2, ConstantFacts DEF TypeOK
<1>7. /\ chainCh' \in Seq(Blocks) /\ Len(chainCh') = l + 1
      /\ \A i \in 1 .. l : chainCh'[i] = chainCh[i]
      /\ chainCh'[l + 1] = p + 1
  <2>1. chainCh \in Seq(Blocks)
    BY <1>2 DEF TypeOK, Blocks
  <2>2. chainCh' = Append(chainCh, p + 1)
    BY <1>1, <1>3
  <2> QED
    BY <2>1, <2>2, <1>3, <1>4, AppendProperties
<1>8. TypeOK'
  <2>1. published' \in 0 .. MaxBlock /\ publishing' \in {"chain", "logs"}
    BY <1>1, <1>3, ConstantFacts
  <2>2. chainCh' \in Seq(1 .. MaxBlock) /\ Len(chainCh') <= ChanSize
    BY <1>4, <1>7, ConstantFacts DEF Blocks
  <2> QED
    BY <1>1, <1>2, <2>1, <2>2, Zenon DEF TypeOK
<1>9. /\ b + l = p
      /\ \A i \in 1 .. l : chainCh[i] = b + i
      /\ c <= p
      /\ Ascending(logsCh, {n \in c + 1 .. p : LogsOf[n] # <<>>})
  BY <1>1, <1>2, <1>3, <1>4, <1>5, <1>6 DEF ChannelsOK, Sent
<1>10. Sent' = p + 1
  BY <1>1, <1>3 DEF Sent
<1>11. ASSUME NEW i \in 1 .. l + 1 PROVE chainCh'[i] = b + i
  <2>1. CASE i = l + 1
    BY <2>1, <1>7, <1>9
  <2>2. CASE i # l + 1
    <3>1. i \in 1 .. l
      BY <2>2
    <3> QED
      BY <3>1, <1>7, <1>9
  <2> QED
    BY <2>1, <2>2
<1>12. {n \in c + 1 .. published' : LogsOf[n] # <<>>}
         = {n \in c + 1 .. p : LogsOf[n] # <<>>}
  <2>1. CASE LogsOf[p + 1] # <<>>
    BY <2>1, <1>1, <1>3
  <2>2. CASE LogsOf[p + 1] = <<>>
    <3>1. published' = p + 1
      BY <2>2, <1>1, <1>3
    <3>2. \A n : n \in c + 1 .. p + 1 /\ LogsOf[n] # <<>>
                   <=> n \in c + 1 .. p /\ LogsOf[n] # <<>>
      <4>1. \A n \in Int : n \in c + 1 .. p + 1 <=> n \in c + 1 .. p
                                                \/ (n = p + 1 /\ c <= p)
        OBVIOUS
      <4>2. c + 1 .. p + 1 \subseteq Int /\ c + 1 .. p \subseteq Int
        OBVIOUS
      <4> QED
        BY <4>1, <4>2, <2>2, Zenon
    <3> QED
      BY <3>1, <3>2
  <2> QED
    BY <2>1, <2>2
<1>13. ChannelsOK'
  <2>1. publishing' = "logs" =>
           published' < MaxBlock /\ LogsOf[published' + 1] # <<>>
    BY <1>1, <1>3
  <2>2. taken'["blocks"] + Len(chainCh') = Sent'
    <3>1. b + (l + 1) = p + 1
      BY <1>9
    <3>2. taken'["blocks"] = b /\ Len(chainCh') = l + 1
      BY <1>1, <1>5, <1>7, Zenon
    <3> QED
      BY <3>1, <3>2, <1>10, Zenon
  <2>3. taken'["logs"] <= published'
    BY <1>1, <1>3, <1>6, <1>9
  <2>4. \A i \in 1 .. Len(chainCh') : chainCh'[i] = taken'["blocks"] + i
    BY <1>1, <1>5, <1>7, <1>11
  <2>5. Ascending(logsCh', {n \in taken'["logs"] + 1 .. published' :
                               LogsOf[n] # <<>>})
    <3>1. taken'["logs"] = c /\ logsCh' = logsCh
      BY <1>1, <1>6
    <3> QED
      BY <3>1, <1>9, <1>12, Zenon
  <2> QED
    BY <2>1, <2>2, <2>3, <2>4, <2>5 DEF ChannelsOK
<1> QED
  BY <1>1, <1>8, <1>13, FiltersKept DEF IInv

(* publishNewBlock sends the logs.                                         *)
LEMMA PublishLogsIInv ==
    ASSUME IInv, PublishLogs
    PROVE  IInv'
<1>1. /\ publishing = "logs" /\ Len(logsCh) < ChanSize
      /\ logsCh' = Append(logsCh, published + 1)
      /\ published' = published + 1 /\ publishing' = "chain"
      /\ UNCHANGED <<clients, chainCh, loop, index, taken, start, call, filters,
                     holder, scan, got, routine, unsub>>
  BY DEF PublishLogs, HasRoom, loopVars, apiVars
<1>2. TypeOK /\ ChannelsOK
  BY DEF IInv
<1>3. PICK p \in Nat : p = published /\ p < MaxBlock /\ p + 1 \in Blocks
  <2>1. published \in 0 .. MaxBlock /\ published < MaxBlock
    BY <1>1, <1>2 DEF TypeOK, ChannelsOK
  <2> QED
    BY <2>1, ConstantFacts DEF Blocks
<1>4. PICK l \in Nat : l = Len(logsCh) /\ l < ChanSize
  BY <1>1, <1>2, LenProperties DEF TypeOK
<1>5. PICK b \in Nat : b = taken["blocks"]
  BY <1>2, ConstantFacts DEF TypeOK
<1>6. PICK c \in Nat : c = taken["logs"]
  BY <1>2, ConstantFacts DEF TypeOK
<1>7. logsCh \in Seq(Blocks) /\ logsCh \in Seq(Nat)
  <2>1. logsCh \in Seq(Blocks)
    BY <1>2 DEF TypeOK, Blocks
  <2> QED
    BY <2>1, ConstantFacts, SeqMonotonic, Zenon
<1>8. /\ logsCh' \in Seq(Blocks) /\ Len(logsCh') = l + 1
      /\ logsCh' = logsCh \o <<p + 1>>
  <2>1. logsCh' = Append(logsCh, p + 1)
    BY <1>1, <1>3
  <2> QED
    BY <2>1, <1>3, <1>4, <1>7, AppendProperties, AppendIsConcat
<1>9. TypeOK'
  <2>1. published' \in 0 .. MaxBlock /\ publishing' \in {"chain", "logs"}
    BY <1>1, <1>3, ConstantFacts
  <2>2. logsCh' \in Seq(1 .. MaxBlock) /\ Len(logsCh') <= ChanSize
    BY <1>4, <1>8, ConstantFacts DEF Blocks
  <2> QED
    BY <1>1, <1>2, <2>1, <2>2, Zenon DEF TypeOK
<1>10. /\ b + Len(chainCh) = p + 1 /\ LogsOf[p + 1] # <<>>
       /\ \A i \in 1 .. Len(chainCh) : chainCh[i] = b + i
       /\ c <= p
       /\ Ascending(logsCh, {n \in c + 1 .. p : LogsOf[n] # <<>>})
  BY <1>1, <1>2, <1>3, <1>5, <1>6 DEF ChannelsOK, Sent
<1>11. Sent' = p + 1
  BY <1>1, <1>3 DEF Sent
<1>12. PICK S : S = {n \in c + 1 .. p : LogsOf[n] # <<>>}
  OBVIOUS
<1>13. {n \in c + 1 .. p + 1 : LogsOf[n] # <<>>} = S \cup {p + 1}
  <2>1. c + 1 .. p + 1 = (c + 1 .. p) \cup {p + 1}
    BY <1>10
  <2> QED
    BY <2>1, <1>10, <1>12, Zenon
<1>14. Ascending(logsCh', S \cup {p + 1})
  <2>1. \A m \in S : m < p + 1
    BY <1>12
  <2>2. Ascending(logsCh, S)
    BY <1>10, <1>12
  <2> QED
    BY <2>1, <2>2, <1>7, <1>8, AscendingMore
<1>15. ChannelsOK'
  <2>1. publishing' # "logs"
    BY <1>1
  <2>2. taken'["blocks"] + Len(chainCh') = Sent'
    BY <1>1, <1>5, <1>10, <1>11
  <2>3. taken'["logs"] <= published'
    BY <1>1, <1>3, <1>6, <1>10
  <2>4. \A i \in 1 .. Len(chainCh') : chainCh'[i] = taken'["blocks"] + i
    BY <1>1, <1>5, <1>10
  <2>5. Ascending(logsCh', {n \in taken'["logs"] + 1 .. published' :
                               LogsOf[n] # <<>>})
    BY <1>1, <1>3, <1>6, <1>13, <1>14
  <2> QED
    BY <2>1, <2>2, <2>3, <2>4, <2>5 DEF ChannelsOK
<1> QED
  BY <1>1, <1>9, <1>15, FiltersKept DEF IInv

-----------------------------------------------------------------------------
(* The events of B after from and up to n, and that B has none between k   *)
(* and n.                                                                  *)
After(from, n, B) == {m \in from + 1 .. n : m \in B}

NoneBetween(k, n, B) == \A m \in k + 1 .. n - 1 : m \notin B

(* What eventLoop owes to a filter once it has taken event n of its kind,  *)
(* and no event in between.                                                *)
LEMMA OwedMore ==
    ASSUME NEW from \in Nat, NEW k \in Nat, NEW n \in Nat, from <= k, k < n,
           NEW B, NoneBetween(k, n, B)
    PROVE  After(from, n, B)
             = After(from, k, B) \cup (IF n \in B THEN {n} ELSE {})
<1>1. \A m : m \in from + 1 .. n <=>
               m \in from + 1 .. k \/ m \in k + 1 .. n - 1 \/ m = n
  OBVIOUS
<1> QED
  BY <1>1, Zenon DEF After, NoneBetween

(* handleChainEvent and handleLogs, for whatever kind of event.            *)
LEMMA BroadcastIInv ==
    ASSUME IInv, Idle, NEW kind \in {"blocks", "logs"}, NEW n \in Blocks,
           Broadcast(kind, n),
           UNCHANGED <<index, start, call, filters, holder, scan, got, routine,
                       unsub>>,
           taken[kind] < n,
           \A m \in taken[kind] + 1 .. n - 1 :
              kind = "logs" /\ LogsOf[m] = <<>>,
           kind = "logs" => LogsOf[n] # <<>>
    PROVE  /\ loop' \in [event : 0 .. MaxBlock, left : Seq(Filters)]
           /\ taken' = [taken EXCEPT ![kind] = n]
           /\ LoopOK' /\ LifeOK' /\ UninstalledIsSilent' /\ DeliveryOK'
<1>1. PICK order \in SetToSeqs(Recipients(kind, n)) :
         loop' = [event |-> n, left |-> order]
  BY DEF Broadcast
<1>2. taken' = [taken EXCEPT ![kind] = n]
  BY DEF Broadcast
<1>3. TypeOK /\ LoopOK /\ LifeOK /\ UninstalledIsSilent /\ DeliveryOK
  BY DEF IInv
<1>4. PICK R \in SUBSET Filters : R = Recipients(kind, n)
  BY <1>3 DEF Recipients, TypeOK
<1>5. /\ order \in Seq(Filters) /\ ToSet(order) = R
      /\ \A i, j \in 1 .. Len(order) : order[i] = order[j] => i = j
  BY <1>1, <1>4, OrderFacts
<1>6. loop'.event = n /\ loop'.left = order /\ loop.left = <<>>
  BY <1>1 DEF Idle
<1>7. n \in Nat /\ n # 0 /\ n \in 0 .. MaxBlock
  BY ConstantFacts DEF Blocks
<1>8. loop' \in [event : 0 .. MaxBlock, left : Seq(Filters)]
  BY <1>1, <1>5, <1>7
<1>9. /\ taken'[kind] = n
      /\ \A k \in {"blocks", "logs"} : k # kind => taken'[k] = taken[k]
      /\ taken \in [{"blocks", "logs"} -> 0 .. MaxBlock]
  BY <1>2, <1>3 DEF TypeOK
<1>10. \A f \in R : f \in index /\ Kind[f] = kind /\ Wants(f, n)
  BY <1>4 DEF Recipients
<1>11. \A f \in Filters : start[f] \in Nat /\ taken[Kind[f]] \in Nat
                          /\ start[f] <= taken[Kind[f]]
  <2>1. \A f \in Filters : start[f] \in 0 .. MaxBlock
    BY <1>3 DEF TypeOK
  <2>2. \A f \in Filters : taken[Kind[f]] \in 0 .. MaxBlock
    BY <1>9, ConstantFacts
  <2> QED
    BY <1>3, <2>1, <2>2, ConstantFacts DEF LoopOK
<1>12. LoopOK'
  <2>1. \A f \in Filters : start'[f] <= taken'[Kind[f]]
    <3> TAKE f \in Filters
    <3>1. CASE Kind[f] = kind
      BY <3>1, <1>7, <1>9, <1>11
    <3>2. CASE Kind[f] # kind
      BY <3>2, <1>9, <1>11, ConstantFacts
    <3> QED
      BY <3>1, <3>2
  <2>2. \A f \in ToSet(loop'.left) :
           f \in index' /\ loop'.event = taken'[Kind[f]] /\ loop'.event # 0
    BY <1>5, <1>6, <1>7, <1>9, <1>10
  <2>3. \A i, j \in 1 .. Len(loop'.left) :
           loop'.left[i] = loop'.left[j] => i = j
    BY <1>5, <1>6
  <2> QED
    BY <2>1, <2>2, <2>3 DEF LoopOK
<1>13. LifeOK'
  BY <1>3 DEF LifeOK
<1>14. UninstalledIsSilent'
  BY <1>3, <1>5, <1>6, <1>10 DEF UninstalledIsSilent
<1>15. ToSet(loop.left) = {}
  BY <1>6 DEF ToSet
<1>16. DeliveryOK'
  <2> SUFFICES ASSUME NEW f \in Filters, Awaits(f)'
               PROVE  Ascending(Delivered(f)', Owed(f)')
    BY DEF DeliveryOK, Ascending
  <2>1. Awaits(f)
    BY DEF Awaits
  <2>2. f \in index
    BY <2>1, <1>3 DEF Awaits, LifeOK
  <2>3. Ascending(Delivered(f), Owed(f))
    BY <2>1, <1>3 DEF DeliveryOK
  <2>4. PICK a \in Seq(Blocks) : a = InFlight(f)
    BY <1>3, Parts
  <2>5. PICK g \in Seq(Blocks) : g = got[f]
    BY <1>3, Parts
  <2>6. PICK e \in Seq(Blocks) : e = Events(f)
    BY <1>3, Parts
  <2>7. got'[f] = g /\ Events(f)' = e
    BY <2>5, <2>6 DEF Events
  <2>8. Delivered(f) = g \o e \o a /\ Delivered(f)' = g \o e \o InFlight(f)'
    BY <2>4, <2>5, <2>6, <2>7, Zenon DEF Delivered
  <2>9. PICK h \in Seq(Blocks) : h = g \o e \o a
    <3>1. g \o e \o a \in Seq(Blocks)
      BY ConcatFacts
    <3> QED
      BY <3>1
  <2>10. InFlight(f)' = IF f \in R THEN a \o <<n>> ELSE a
    <3>1. PICK r : r = IF routine[f].pc = "append" THEN <<routine[f].event>>
                       ELSE <<>>
      OBVIOUS
    <3>2. r \in Seq(Blocks)
      <4>1. routine[f].pc = "append" => routine[f].event \in Blocks
        BY <1>3, Parts
      <4>2. routine[f].pc = "append" => <<routine[f].event>> \in Seq(Blocks)
        BY <4>1
      <4>3. <<>> \in Seq(Blocks)
        OBVIOUS
      <4> QED
        BY <3>1, <4>2, <4>3, Zenon
    <3>3. r \o <<>> = r
      BY <3>2, ConcatEmptySeq, Zenon
    <3>4. a = r
      BY <2>4, <3>1, <3>3, <1>15, Zenon DEF InFlight
    <3>5. InFlight(f)' = r \o (IF f \in R THEN <<n>> ELSE <<>>)
      BY <3>1, <1>5, <1>6, Zenon DEF InFlight
    <3>6. CASE f \in R
      BY <3>4, <3>5, <3>6, Zenon
    <3>7. CASE f \notin R
      BY <3>3, <3>4, <3>5, <3>7, Zenon
    <3> QED
      BY <3>6, <3>7
  <2>11. Delivered(f)' = IF f \in R THEN h \o <<n>> ELSE h
    <3>1. g \o e \o (a \o <<n>>) = (g \o e \o a) \o <<n>>
      BY DeliveredMore, SMTT(20)
    <3>2. CASE f \in R
      BY <3>1, <3>2, <2>8, <2>9, <2>10, Zenon
    <3>3. CASE f \notin R
      BY <3>3, <2>8, <2>9, <2>10, Zenon
    <3> QED
      BY <3>2, <3>3
  <2>12. Owed(f)' = {m \in start[f] + 1 .. taken'[Kind[f]] :
                       Kind[f] = "logs" => LogsOf[m] # <<>> /\ Wants(f, m)}
    BY DEF Owed
  <2>13. f \in R <=> Kind[f] = kind /\ Wants(f, n)
    BY <2>2, <1>4 DEF Recipients
  <2>14. Owed(f)' = IF f \in R THEN Owed(f) \cup {n} ELSE Owed(f)
    <3>1. CASE Kind[f] # kind
      BY <3>1, <2>12, <2>13, <1>9, ConstantFacts DEF Owed
    <3>2. CASE Kind[f] = kind
      <4>1. PICK from \in Nat, k \in Nat :
               from = start[f] /\ k = taken[kind] /\ from <= k /\ k < n
        BY <1>11, <3>2
      <4>2. PICK B : \A m \in Nat : m \in B <=>
               (kind = "logs" => LogsOf[m] # <<>> /\ Wants(f, m))
        <5>1. PICK B : B = {m \in Nat : kind = "logs" =>
                              LogsOf[m] # <<>> /\ Wants(f, m)}
          OBVIOUS
        <5>2. \A m \in Nat : m \in B <=>
                 (kind = "logs" => LogsOf[m] # <<>> /\ Wants(f, m))
          BY <5>1, Zenon
        <5> QED
          BY <5>2, Zenon
      <4>3. NoneBetween(k, n, B)
        <5>1. k + 1 .. n - 1 \subseteq Nat
          OBVIOUS
        <5>2. \A m \in k + 1 .. n - 1 : kind = "logs" /\ LogsOf[m] = <<>>
          BY <4>1
        <5> QED
          BY <5>1, <5>2, <4>2, Zenon DEF NoneBetween
      <4>4. After(from, n, B)
              = After(from, k, B) \cup (IF n \in B THEN {n} ELSE {})
        <5>1. n \in Nat
          BY <1>7
        <5>2. from <= k /\ k < n
          BY <4>1
        <5> QED
          BY <4>3, <5>1, <5>2, OwedMore
      <4>5. from + 1 .. n \subseteq Nat /\ from + 1 .. k \subseteq Nat
        OBVIOUS
      <4>6. Owed(f)' = After(from, n, B)
        <5>1. Owed(f)' = {m \in from + 1 .. n : kind = "logs" =>
                                LogsOf[m] # <<>> /\ Wants(f, m)}
          BY <2>12, <3>2, <4>1, <1>9
        <5> QED
          BY <5>1, <4>2, <4>5, Zenon DEF After
      <4>7. Owed(f) = After(from, k, B)
        <5>1. Owed(f) = {m \in from + 1 .. k : kind = "logs" =>
                                LogsOf[m] # <<>> /\ Wants(f, m)}
          BY <3>2, <4>1 DEF Owed
        <5> QED
          BY <5>1, <4>2, <4>5, Zenon DEF After
      <4>8. n \in B <=> f \in R
        <5>1. kind = "blocks" => Wants(f, n)
          BY <3>2 DEF Wants
        <5> QED
          BY <5>1, <2>13, <3>2, <4>2, <1>7
      <4> QED
        BY <4>4, <4>6, <4>7, <4>8
    <3> QED
      BY <3>1, <3>2
  <2>15. CASE f \in R
    <3>1. \A m \in Owed(f) : m < n
      <4>1. Kind[f] = kind
        BY <2>13, <2>15
      <4>2. PICK from \in Nat, k \in Nat :
               from = start[f] /\ k = taken[kind] /\ k < n
        BY <4>1, <1>11
      <4>3. Owed(f) \subseteq from + 1 .. k
        BY <4>1, <4>2 DEF Owed
      <4> QED
        BY <4>2, <4>3, <1>7
    <3>2. h \in Seq(Nat)
      BY ConstantFacts, SeqMonotonic
    <3>3. Ascending(h, Owed(f))
      BY <2>3, <2>8, <2>9, Zenon
    <3>4. Ascending(h \o <<n>>, Owed(f) \cup {n})
      BY <3>1, <3>2, <3>3, <1>7, AscendingMore
    <3> QED
      BY <3>4, <2>11, <2>14, <2>15, Zenon
  <2>16. CASE f \notin R
    BY <2>3, <2>8, <2>9, <2>11, <2>14, <2>16, Zenon
  <2> QED
    BY <2>15, <2>16
<1> QED
  BY <1>2, <1>8, <1>12, <1>13, <1>14, <1>16

(* eventLoop takes a chain event.                                          *)
LEMMA TakeChainEventIInv ==
    ASSUME IInv, TakeChainEvent
    PROVE  IInv'
<1>1. /\ Idle /\ chainCh # <<>> /\ Broadcast("blocks", Head(chainCh))
      /\ chainCh' = Tail(chainCh)
      /\ UNCHANGED <<clients, published, publishing, logsCh, index, start, call,
                     filters, holder, scan, got, routine, unsub>>
  BY DEF TakeChainEvent, publishVars, apiVars
<1>2. TypeOK /\ ChannelsOK
  BY DEF IInv
<1>3. chainCh \in Seq(Blocks) /\ Len(chainCh) <= ChanSize
  BY <1>2 DEF TypeOK, Blocks
<1>4. PICK l \in Nat : l = Len(chainCh) /\ l # 0
  BY <1>1, <1>3, EmptySeq, LenProperties
<1>5. PICK b \in Nat : b = taken["blocks"]
  BY <1>2, ConstantFacts DEF TypeOK
<1>6. /\ b + l = Sent /\ \A i \in 1 .. l : chainCh[i] = b + i
  BY <1>2, <1>4, <1>5 DEF ChannelsOK
<1>7. PICK n \in Blocks : n = Head(chainCh) /\ n = b + 1
  <2>1. Head(chainCh) \in Blocks
    BY <1>1, <1>3, HeadTailProperties
  <2>2. Head(chainCh) = chainCh[1]
    BY <1>3, <1>4
  <2>3. chainCh[1] = b + 1
    BY <1>4, <1>6
  <2> QED
    BY <2>1, <2>2, <2>3
<1>8. /\ loop' \in [event : 0 .. MaxBlock, left : Seq(Filters)]
      /\ taken' = [taken EXCEPT !["blocks"] = n]
      /\ LoopOK' /\ LifeOK' /\ UninstalledIsSilent' /\ DeliveryOK'
  <2>1. taken["blocks"] < n
    BY <1>5, <1>7
  <2>2. taken["blocks"] + 1 .. n - 1 = {}
    BY <1>5, <1>7
  <2>3. Broadcast("blocks", n)
    BY <1>1, <1>7
  <2>4. \A m \in taken["blocks"] + 1 .. n - 1 :
           "blocks" = "logs" /\ LogsOf[m] = <<>>
    BY <2>2
  <2> QED
    BY <1>1, <2>1, <2>3, <2>4, BroadcastIInv
<1>9. /\ chainCh' \in Seq(Blocks) /\ Len(chainCh') = l - 1
      /\ \A i \in 1 .. l - 1 : chainCh'[i] = chainCh[i + 1]
  BY <1>1, <1>3, <1>4, HeadTailProperties
<1>10. taken'["blocks"] = n /\ taken'["logs"] = taken["logs"]
       /\ taken' \in [{"blocks", "logs"} -> 0 .. MaxBlock]
  <2>1. n \in 0 .. MaxBlock
    BY ConstantFacts DEF Blocks
  <2> QED
    BY <1>2, <1>8, <2>1 DEF TypeOK
<1>11. TypeOK'
  <2>1. chainCh' \in Seq(1 .. MaxBlock) /\ Len(chainCh') <= ChanSize
    BY <1>3, <1>4, <1>9, ConstantFacts DEF Blocks
  <2> QED
    BY <1>1, <1>2, <1>8, <1>10, <2>1, Zenon DEF TypeOK
<1>12. ChannelsOK'
  <2>1. Sent' = Sent
    BY <1>1 DEF Sent
  <2>2. n + (l - 1) = Sent
    <3>1. n + (l - 1) = b + l
      BY <1>7
    <3> QED
      BY <3>1, <1>6
  <2>3. taken'["blocks"] + Len(chainCh') = Sent'
    BY <2>1, <2>2, <1>9, <1>10, Zenon
  <2>4. \A i \in 1 .. l - 1 : chainCh'[i] = n + i
    <3> TAKE i \in 1 .. l - 1
    <3>1. i + 1 \in 1 .. l /\ n + i = b + (i + 1)
      BY <1>7
    <3> QED
      BY <3>1, <1>6, <1>9
  <2>5. \A i \in 1 .. Len(chainCh') : chainCh'[i] = taken'["blocks"] + i
    BY <2>4, <1>9, <1>10, Zenon
  <2> QED
    BY <1>1, <1>2, <1>10, <2>3, <2>5, Zenon DEF ChannelsOK
<1> QED
  BY <1>8, <1>11, <1>12 DEF IInv

(* eventLoop takes the logs of a block.                                    *)
LEMMA TakeLogsIInv ==
    ASSUME IInv, TakeLogs
    PROVE  IInv'
<1>1. /\ Idle /\ logsCh # <<>> /\ Broadcast("logs", Head(logsCh))
      /\ logsCh' = Tail(logsCh)
      /\ UNCHANGED <<clients, published, publishing, chainCh, index, start, call,
                     filters, holder, scan, got, routine, unsub>>
  BY DEF TakeLogs, publishVars, apiVars
<1>2. TypeOK /\ ChannelsOK
  BY DEF IInv
<1>3. logsCh \in Seq(Blocks) /\ Len(logsCh) <= ChanSize
  BY <1>2 DEF TypeOK, Blocks
<1>4. logsCh \in Seq(Nat)
  BY <1>3, ConstantFacts, SeqMonotonic, Zenon
<1>5. PICK c \in Nat : c = taken["logs"]
  BY <1>2, ConstantFacts DEF TypeOK
<1>6. PICK p \in Nat : p = published
  BY <1>2, ConstantFacts DEF TypeOK
<1>7. PICK S : S = {m \in c + 1 .. p : LogsOf[m] # <<>>}
  OBVIOUS
<1>8. Ascending(logsCh, S)
  BY <1>2, <1>5, <1>6, <1>7 DEF ChannelsOK
<1>9. PICK n \in Blocks : n = Head(logsCh)
  BY <1>1, <1>3, HeadTailProperties
<1>10. /\ n \in S /\ \A m \in S : n <= m
       /\ Ascending(logsCh', S \ {n})
  BY <1>1, <1>4, <1>8, <1>9, AscendingTail
<1>11. n \in Nat /\ c < n /\ n <= p /\ LogsOf[n] # <<>>
  BY <1>7, <1>10, ConstantFacts
<1>12. \A m \in c + 1 .. n - 1 : LogsOf[m] = <<>>
  <2> SUFFICES ASSUME NEW m \in c + 1 .. n - 1, LogsOf[m] # <<>>
               PROVE  FALSE
    OBVIOUS
  <2>1. m \in c + 1 .. p /\ m < n /\ m \in Nat
    BY <1>11
  <2>2. m \in S
    BY <2>1, <1>7
  <2>3. n <= m
    BY <2>2, <1>10
  <2> QED
    BY <2>1, <2>3, <1>11
<1>13. /\ loop' \in [event : 0 .. MaxBlock, left : Seq(Filters)]
       /\ taken' = [taken EXCEPT !["logs"] = n]
       /\ LoopOK' /\ LifeOK' /\ UninstalledIsSilent' /\ DeliveryOK'
  <2>1. taken["logs"] < n
    BY <1>5, <1>11
  <2>2. Broadcast("logs", n)
    BY <1>1, <1>9
  <2>3. \A m \in taken["logs"] + 1 .. n - 1 :
           "logs" = "logs" /\ LogsOf[m] = <<>>
    BY <1>5, <1>12
  <2> QED
    BY <1>1, <1>11, <2>1, <2>2, <2>3, BroadcastIInv
<1>14. taken'["logs"] = n /\ taken'["blocks"] = taken["blocks"]
       /\ taken' \in [{"blocks", "logs"} -> 0 .. MaxBlock]
  <2>1. n \in 0 .. MaxBlock
    BY ConstantFacts DEF Blocks
  <2> QED
    BY <1>2, <1>13, <2>1 DEF TypeOK
<1>15. TypeOK'
  <2>1. logsCh' \in Seq(Blocks) /\ Len(logsCh') = Len(logsCh) - 1
    BY <1>1, <1>3, HeadTailProperties
  <2>2. Len(logsCh) \in Nat
    BY <1>3, LenProperties
  <2>3. logsCh' \in Seq(1 .. MaxBlock) /\ Len(logsCh') <= ChanSize
    BY <1>3, <2>1, <2>2, ConstantFacts DEF Blocks
  <2> QED
    BY <1>1, <1>2, <1>13, <1>14, <2>3, Zenon DEF TypeOK
<1>16. ChannelsOK'
  <2>1. Sent' = Sent
    BY <1>1 DEF Sent
  <2>2. S \ {n} = {m \in n + 1 .. p : LogsOf[m] # <<>>}
    <3>1. \A m : m \in c + 1 .. p <=>
                 m \in c + 1 .. n - 1 \/ m = n \/ m \in n + 1 .. p
      BY <1>11
    <3>2. n \notin n + 1 .. p /\ n \notin c + 1 .. n - 1
      BY <1>11
    <3> QED
      BY <3>1, <3>2, <1>7, <1>12, Zenon
  <2>3. Ascending(logsCh', {m \in taken'["logs"] + 1 .. published' :
                               LogsOf[m] # <<>>})
    BY <1>1, <1>6, <1>10, <1>14, <2>2, Zenon
  <2>4. taken'["logs"] <= published'
    BY <1>1, <1>6, <1>11, <1>14
  <2> QED
    BY <1>1, <1>2, <1>14, <2>1, <2>3, <2>4, Zenon DEF ChannelsOK
<1> QED
  BY <1>13, <1>15, <1>16 DEF IInv

(* The recipients without the first.                                       *)
LEMMA NextRecipient ==
    ASSUME NEW s \in Seq(Filters), s # <<>>,
           \A i, j \in 1 .. Len(s) : s[i] = s[j] => i = j
    PROVE  /\ Head(s) \in Filters /\ Head(s) \in ToSet(s)
           /\ Tail(s) \in Seq(Filters)
           /\ \A x : x \in ToSet(Tail(s)) <=> x \in ToSet(s) /\ x # Head(s)
           /\ \A i, j \in 1 .. Len(Tail(s)) :
                 Tail(s)[i] = Tail(s)[j] => i = j
<1>1. PICK l \in Nat : l = Len(s) /\ l # 0
  BY EmptySeq, LenProperties
<1>2. PICK h \in Filters : h = Head(s) /\ h = s[1]
  <2>1. Head(s) \in Filters /\ Head(s) = s[1]
    BY <1>1, HeadTailProperties
  <2> QED
    BY <2>1
<1>3. PICK t \in Seq(Filters) : t = Tail(s)
  BY HeadTailProperties
<1>4. Len(t) = l - 1 /\ \A i \in 1 .. l - 1 : t[i] = s[i + 1]
  BY <1>1, <1>3, HeadTailProperties
<1>5. /\ \A x : x \in ToSet(s) <=> \E i \in 1 .. l : s[i] = x
      /\ \A i, j \in 1 .. l : s[i] = s[j] => i = j
  BY <1>1, Elements, Zenon
<1>6. \A x : x \in ToSet(t) <=> \E i \in 1 .. l - 1 : t[i] = x
  BY <1>4, Elements
<1>7. \A x : x \in ToSet(t) <=> x \in ToSet(s) /\ x # h
  <2> TAKE x
  <2>1. ASSUME x \in ToSet(t) PROVE x \in ToSet(s) /\ x # h
    <3>1. PICK i \in 1 .. l - 1 : t[i] = x
      BY <2>1, <1>6
    <3>2. i + 1 \in 1 .. l /\ i + 1 # 1 /\ 1 \in 1 .. l /\ s[i + 1] = x
      BY <3>1, <1>4
    <3> QED
      BY <3>2, <1>2, <1>5
  <2>2. ASSUME x \in ToSet(s), x # h PROVE x \in ToSet(t)
    <3>1. PICK i \in 1 .. l : s[i] = x
      BY <2>2, <1>5
    <3>2. i # 1
      BY <2>2, <3>1, <1>2
    <3>3. i - 1 \in 1 .. l - 1 /\ (i - 1) + 1 = i
      BY <3>2
    <3>4. t[i - 1] = x
      BY <3>1, <3>3, <1>4
    <3> QED
      BY <3>3, <3>4, <1>6
  <2> QED
    BY <2>1, <2>2
<1>8. ASSUME NEW i \in 1 .. l - 1, NEW j \in 1 .. l - 1, t[i] = t[j]
      PROVE  i = j
  <2>1. i + 1 \in 1 .. l /\ j + 1 \in 1 .. l /\ s[i + 1] = s[j + 1]
    BY <1>4, <1>8
  <2>2. i + 1 = j + 1
    BY <2>1, <1>5
  <2> QED
    BY <2>2
<1>9. h \in ToSet(s)
  <2>1. 1 \in 1 .. l
    BY <1>1
  <2> QED
    BY <2>1, <1>2, <1>5
<1> QED
  BY <1>2, <1>3, <1>4, <1>7, <1>8, <1>9, Zenon

(* What changes when the event loop has served the next recipient.         *)
LEMMA SentIInv ==
    ASSUME IInv, ~Idle, loop' = [loop EXCEPT !.left = Tail(@)],
           UNCHANGED <<index, taken, start, unsub>>
    PROVE  /\ Head(loop.left) \in Filters /\ Head(loop.left) \in ToSet(loop.left)
           /\ loop' \in [event : 0 .. MaxBlock, left : Seq(Filters)]
           /\ loop'.event = loop.event
           /\ \A f : f \in ToSet(loop'.left) <=>
                       f \in ToSet(loop.left) /\ f # Head(loop.left)
           /\ LoopOK' /\ UninstalledIsSilent'
<1>1. TypeOK /\ LoopOK /\ UninstalledIsSilent
  BY DEF IInv
<1>2. PICK left \in Seq(Filters) : left = loop.left /\ left # <<>>
  BY <1>1 DEF TypeOK, Idle
<1>3. loop'.left = Tail(left) /\ loop'.event = loop.event
  BY <1>1, <1>2 DEF TypeOK
<1>4. \A i, j \in 1 .. Len(left) : left[i] = left[j] => i = j
  BY <1>1, <1>2 DEF LoopOK
<1>5. /\ Head(left) \in Filters /\ Head(left) \in ToSet(left)
      /\ Tail(left) \in Seq(Filters)
      /\ \A x : x \in ToSet(Tail(left)) <=> x \in ToSet(left) /\ x # Head(left)
      /\ \A i, j \in 1 .. Len(Tail(left)) :
            Tail(left)[i] = Tail(left)[j] => i = j
  BY <1>2, <1>4, NextRecipient
<1>6. loop' \in [event : 0 .. MaxBlock, left : Seq(Filters)]
  BY <1>1, <1>2, <1>5 DEF TypeOK
<1>7. LoopOK'
  BY <1>1, <1>2, <1>3, <1>5 DEF LoopOK
<1>8. UninstalledIsSilent'
  BY <1>1, <1>2, <1>3, <1>5 DEF UninstalledIsSilent
<1> QED
  BY <1>2, <1>3, <1>5, <1>6, <1>7, <1>8

(* The event goes to the goroutine of the filter.                          *)
LEMMA SendToRoutineIInv ==
    ASSUME IInv, SendToRoutine
    PROVE  IInv'
<1>1. PICK f : f = Head(loop.left)
  OBVIOUS
<1>2. /\ ~Idle /\ routine[f].pc = "select"
      /\ routine' = [routine EXCEPT ![f] = [pc |-> "append",
                                            event |-> loop.event]]
      /\ loop' = [loop EXCEPT !.left = Tail(@)]
      /\ UNCHANGED <<clients, published, publishing, chainCh, logsCh, index,
                     taken, start, call, filters, holder, scan, got, unsub>>
  BY <1>1 DEF SendToRoutine, publishVars, chanVars, apiVars
<1>3. TypeOK /\ LoopOK /\ LifeOK /\ ChannelsOK /\ DeliveryOK
  BY DEF IInv
<1>4. /\ f \in Filters /\ f \in ToSet(loop.left)
      /\ loop' \in [event : 0 .. MaxBlock, left : Seq(Filters)]
      /\ loop'.event = loop.event
      /\ \A g : g \in ToSet(loop'.left) <=> g \in ToSet(loop.left) /\ g # f
      /\ LoopOK' /\ UninstalledIsSilent'
  BY <1>1, <1>2, SentIInv
<1>5. loop.event \in Blocks
  BY <1>3, <1>4, Parts
<1>6. /\ routine'[f] = [pc |-> "append", event |-> loop.event]
      /\ \A g \in Filters : g # f => routine'[g] = routine[g]
      /\ routine' \in [Filters -> [pc : {"none", "select", "append", "done"},
                                   event : 0 .. MaxBlock]]
  <2>1. loop.event \in 0 .. MaxBlock
    BY <1>3 DEF TypeOK
  <2> QED
    BY <1>2, <1>3, <1>4, <2>1 DEF TypeOK
<1>7. TypeOK'
  BY <1>2, <1>3, <1>4, <1>6, Zenon DEF TypeOK
<1>8. ChannelsOK'
  BY <1>2, <1>3, ChannelsKept
<1>9. LifeOK'
  <2>1. call[f] \notin {"none", "refused", "subscribe", "register"}
    BY <1>2, <1>3, <1>4 DEF LifeOK
  <2>2. \A g \in Filters :
           call[g] \in {"none", "refused", "subscribe", "register"} =>
             routine'[g].pc = "none" /\ got[g] = <<>>
    BY <2>1, <1>3, <1>6 DEF LifeOK
  <2>3. routine'[f].event = loop.event /\ loop.event # 0
    BY <1>3, <1>4, <1>6 DEF LoopOK
  <2>4. \A g \in Filters : routine'[g].pc = "append" => routine'[g].event # 0
    BY <2>3, <1>3, <1>6 DEF LifeOK
  <2> QED
    BY <1>2, <1>3, <2>2, <2>4 DEF LifeOK
<1>10. DeliveryOK'
  <2>1. ASSUME NEW g \in Filters PROVE InFlight(g)' = InFlight(g)
    <3>1. CASE g # f
      <4>1. routine'[g] = routine[g]
            /\ (g \in ToSet(loop'.left) <=> g \in ToSet(loop.left))
        BY <3>1, <1>4, <1>6
      <4> QED
        BY <4>1, <1>4, Zenon DEF InFlight
    <3>2. CASE g = f
      <4>1. PICK u \in Seq(Blocks) : u = <<loop.event>>
        <5>1. \A x \in Blocks : <<x>> \in Seq(Blocks)
          OBVIOUS
        <5> QED
          BY <5>1, <1>5, Zenon
      <4>2. routine[f].pc # "append"
        BY <1>2
      <4>3. routine'[f].pc = "append" /\ routine'[f].event = loop.event
        BY <1>6
      <4>4. InFlight(g) = <<>> \o u
        BY <3>2, <4>1, <4>2, <1>4, Zenon DEF InFlight
      <4>5. InFlight(g)' = u \o <<>>
        BY <3>2, <4>1, <4>3, <1>4, Zenon DEF InFlight
      <4>6. u \o <<>> = u /\ <<>> \o u = u
        BY ConcatEmptySeq
      <4> QED
        BY <4>4, <4>5, <4>6, Zenon
    <3> QED
      BY <3>1, <3>2
  <2>2. ASSUME NEW g \in Filters PROVE Delivered(g)' = Delivered(g)
    BY <2>1, <1>2, Zenon DEF Delivered, Events
  <2>3. ASSUME NEW g \in Filters PROVE Awaits(g)' => Awaits(g)
    BY <1>2 DEF Awaits
  <2> QED
    BY <2>2, <2>3, <1>2, <1>3, DeliveryKept
<1> QED
  BY <1>4, <1>7, <1>8, <1>9, <1>10 DEF IInv

(* The event goes to Unsubscribe, which drops it.                          *)
LEMMA SendToUnsubscribeIInv ==
    ASSUME IInv, SendToUnsubscribe
    PROVE  IInv'
<1>1. PICK f : f = Head(loop.left)
  OBVIOUS
<1>2. /\ ~Idle /\ unsub[f] = "uninstall"
      /\ loop' = [loop EXCEPT !.left = Tail(@)]
      /\ UNCHANGED <<clients, published, publishing, chainCh, logsCh, index,
                     taken, start, call, filters, holder, scan, got, routine,
                     unsub>>
  BY <1>1 DEF SendToUnsubscribe, Consumes, publishVars, chanVars, apiVars
<1>3. TypeOK /\ LoopOK /\ LifeOK /\ ChannelsOK /\ DeliveryOK
  BY DEF IInv
<1>4. /\ f \in Filters /\ f \in ToSet(loop.left)
      /\ loop' \in [event : 0 .. MaxBlock, left : Seq(Filters)]
      /\ loop'.event = loop.event
      /\ \A g : g \in ToSet(loop'.left) <=> g \in ToSet(loop.left) /\ g # f
      /\ LoopOK' /\ UninstalledIsSilent'
  BY <1>1, <1>2, SentIInv
<1>5. TypeOK'
  BY <1>2, <1>3, <1>4, Zenon DEF TypeOK
<1>6. ChannelsOK'
  BY <1>2, <1>3, ChannelsKept
<1>7. LifeOK'
  BY <1>2, <1>3 DEF LifeOK
<1>8. DeliveryOK'
  <2>1. ~Awaits(f)
    BY <1>2, <1>3, <1>4 DEF Awaits, LifeOK
  <2>2. ASSUME NEW g \in Filters, g # f PROVE Delivered(g)' = Delivered(g)
    <3>1. InFlight(g)' = InFlight(g)
      BY <2>2, <1>2, <1>4, Zenon DEF InFlight
    <3> QED
      BY <3>1, <1>2, Zenon DEF Delivered, Events
  <2>3. ASSUME NEW g \in Filters PROVE Awaits(g)' => Awaits(g)
    BY <1>2 DEF Awaits
  <2> QED
    BY <2>1, <2>2, <2>3, <1>2, <1>3, DeliveryKept
<1> QED
  BY <1>4, <1>5, <1>6, <1>7, <1>8 DEF IInv

-----------------------------------------------------------------------------
(* What a step of one filter leaves of another.                            *)
LEMMA OtherFilter ==
    ASSUME loop' = loop, NEW g, got'[g] = got[g], routine'[g] = routine[g],
           g \in DOMAIN filters' <=> g \in DOMAIN filters,
           g \in DOMAIN filters => filters'[g].events = filters[g].events
    PROVE  Delivered(g)' = Delivered(g)
<1>1. InFlight(g)' = InFlight(g)
  BY Zenon DEF InFlight
<1>2. Events(g)' = Events(g)
  BY Zenon DEF Events
<1> QED
  BY <1>1, <1>2, Zenon DEF Delivered

(* The event loop installs a subscription: nothing is owed to it yet.      *)
LEMMA InstallIInv ==
    ASSUME IInv, NEW f \in Filters, Install(f)
    PROVE  IInv'
<1>1. /\ Idle /\ call[f] = "subscribe" /\ index' = index \cup {f}
      /\ start' = [start EXCEPT ![f] = taken[Kind[f]]]
      /\ call' = [call EXCEPT ![f] = "register"]
      /\ UNCHANGED <<clients, published, publishing, chainCh, logsCh, loop,
                     taken, filters, holder, scan, got, routine, unsub>>
  BY DEF Install, publishVars, chanVars, apiVars
<1>2. TypeOK /\ ChannelsOK /\ LoopOK /\ LifeOK /\ UninstalledIsSilent
      /\ DeliveryOK
  BY DEF IInv
<1>3. /\ call'[f] = "register" /\ \A g \in Filters : g # f => call'[g] = call[g]
      /\ start'[f] = taken[Kind[f]]
      /\ \A g \in Filters : g # f => start'[g] = start[g]
      /\ taken[Kind[f]] \in 0 .. MaxBlock
  BY <1>1, <1>2, ConstantFacts DEF TypeOK
<1>4. TypeOK'
  <2>1. call' \in [Filters -> {"none", "refused", "subscribe", "register",
                               "created", "uninstalling", "done"}]
    BY <1>1, <1>2 DEF TypeOK
  <2>2. start' \in [Filters -> 0 .. MaxBlock]
    BY <1>1, <1>2, <1>3 DEF TypeOK
  <2>3. index' \subseteq Filters
    BY <1>1, <1>2 DEF TypeOK
  <2> QED
    BY <1>1, <1>2, <2>1, <2>2, <2>3, Zenon DEF TypeOK
<1>5. ChannelsOK'
  BY <1>1, <1>2, ChannelsKept
<1>6. LoopOK'
  <2>1. \A g \in Filters : start'[g] <= taken[Kind[g]]
    BY <1>2, <1>3, ConstantFacts DEF LoopOK
  <2>2. \A g \in ToSet(loop.left) : g \in index'
    BY <1>1, <1>2 DEF LoopOK
  <2> QED
    BY <1>1, <1>2, <2>1, <2>2 DEF LoopOK
<1>7. unsub[f] = "none" /\ f \notin DOMAIN filters /\ routine[f].pc = "none"
      /\ got[f] = <<>>
  BY <1>1, <1>2 DEF LifeOK, TypeOK
<1>8. LifeOK'
  BY <1>1, <1>2, <1>3, <1>7 DEF LifeOK, TypeOK
<1>9. ToSet(loop.left) = {}
  BY <1>1 DEF Idle, ToSet
<1>10. UninstalledIsSilent'
  BY <1>1, <1>2, <1>7 DEF UninstalledIsSilent
<1>11. DeliveryOK'
  <2> SUFFICES ASSUME NEW g \in Filters, Awaits(g)'
               PROVE  Ascending(Delivered(g)', Owed(g)')
    BY DEF DeliveryOK, Ascending
  <2>1. Delivered(g)' = Delivered(g)
    BY <1>1, SameDelivered
  <2>2. CASE g = f
    <3>1. InFlight(f) = <<>> \o <<>>
      BY <1>7, <1>9, Zenon DEF InFlight
    <3>2. Events(f) = <<>>
      BY <1>7, Zenon DEF Events
    <3>3. Delivered(f) = <<>> \o <<>> \o (<<>> \o <<>>)
      BY <1>7, <3>1, <3>2, Zenon DEF Delivered
    <3>4. <<>> \o <<>> = <<>>
      <4>1. <<>> \in Seq(Blocks)
        OBVIOUS
      <4> QED
        BY <4>1, ConcatEmptySeq
    <3>5. Delivered(f) = <<>>
      BY <3>3, <3>4, Zenon
    <3>6. Owed(f)' = {}
      <4>1. PICK t \in Nat : t = taken[Kind[f]]
        BY <1>3, ConstantFacts
      <4>2. t + 1 .. t = {}
        OBVIOUS
      <4> QED
        BY <4>1, <4>2, <1>1, <1>3 DEF Owed
    <3>7. Ascending(<<>>, {})
      BY DEF Ascending, ToSet
    <3> QED
      BY <2>1, <2>2, <3>5, <3>6, <3>7, Zenon
  <2>3. CASE g # f
    <3>1. Owed(g)' = Owed(g)
      BY <1>1, <1>3, <2>3 DEF Owed
    <3>2. Awaits(g)
      BY <1>1, <1>3, <2>3 DEF Awaits
    <3>3. Ascending(Delivered(g), Owed(g))
      BY <3>2, <1>2 DEF DeliveryOK
    <3> QED
      BY <2>1, <3>1, <3>3, Zenon
  <2> QED
    BY <2>2, <2>3
<1> QED
  BY <1>4, <1>5, <1>6, <1>8, <1>10, <1>11 DEF IInv

(* The event loop removes a subscription, while it has nothing to send.    *)
LEMMA UninstallIInv ==
    ASSUME IInv, NEW f \in Filters, Uninstall(f)
    PROVE  IInv'
<1>1. /\ Idle /\ unsub[f] = "uninstall" /\ index' = index \ {f}
      /\ unsub' = [unsub EXCEPT ![f] = "closed"]
      /\ UNCHANGED <<clients, published, publishing, chainCh, logsCh, loop,
                     taken, start, call, filters, holder, scan, got, routine>>
  BY DEF Uninstall, Uninstalled, publishVars, chanVars, apiVars
<1>2. TypeOK /\ ChannelsOK /\ LoopOK /\ LifeOK /\ UninstalledIsSilent
      /\ DeliveryOK
  BY DEF IInv
<1>3. /\ unsub'[f] = "closed"
      /\ \A g \in Filters : g # f => unsub'[g] = unsub[g]
      /\ unsub' \in [Filters -> {"none", "uninstall", "closed"}]
  BY <1>1, <1>2 DEF TypeOK
<1>4. TypeOK'
  <2>1. index' \subseteq Filters
    BY <1>1, <1>2 DEF TypeOK
  <2> QED
    BY <1>1, <1>2, <1>3, <2>1, Zenon DEF TypeOK
<1>5. ChannelsOK'
  BY <1>1, <1>2, ChannelsKept
<1>6. ToSet(loop.left) = {}
  BY <1>1 DEF Idle, ToSet
<1>7. LoopOK'
  BY <1>1, <1>2, <1>6 DEF LoopOK
<1>8. call[f] \in {"created", "uninstalling", "done"}
  BY <1>1, <1>2 DEF LifeOK
<1>9. LifeOK'
  BY <1>1, <1>2, <1>3, <1>8 DEF LifeOK, TypeOK
<1>10. UninstalledIsSilent'
  BY <1>1, <1>2, <1>3, <1>6 DEF UninstalledIsSilent
<1>11. DeliveryOK'
  <2>1. ASSUME NEW g \in Filters PROVE Awaits(g)' => Awaits(g)
    BY <1>1, <1>3, <1>8 DEF Awaits
  <2> QED
    BY <2>1, <1>1, <1>2, SameDelivered, DeliveryKept
<1> QED
  BY <1>4, <1>5, <1>7, <1>9, <1>10, <1>11 DEF IInv

-----------------------------------------------------------------------------
(* A client calls NewFilter, or a call returns.                            *)
LEMMA CallIInv ==
    ASSUME IInv, NEW f \in Filters, NewFilter(f) \/ UninstallReturn(f)
    PROVE  IInv'
<1>1. PICK c \in {"subscribe", "refused", "done"} :
         call' = [call EXCEPT ![f] = c]
         /\ IF c = "done" THEN call[f] = "uninstalling" ELSE call[f] = "none"
  BY DEF NewFilter, UninstallReturn
<1>2. UNCHANGED <<clients, published, publishing, chainCh, logsCh, loop, index,
                  taken, start, filters, holder, scan, got, routine, unsub>>
  BY DEF NewFilter, UninstallReturn, publishVars, chanVars, loopVars, apiVars
<1>3. TypeOK /\ ChannelsOK /\ LoopOK /\ LifeOK /\ UninstalledIsSilent
      /\ DeliveryOK
  BY DEF IInv
<1>4. /\ call'[f] = c /\ \A g \in Filters : g # f => call'[g] = call[g]
      /\ call' \in [Filters -> {"none", "refused", "subscribe", "register",
                                "created", "uninstalling", "done"}]
  BY <1>1, <1>3 DEF TypeOK
<1>5. TypeOK'
  BY <1>2, <1>3, <1>4, Zenon DEF TypeOK
<1>6. ChannelsOK' /\ LoopOK'
  BY <1>2, <1>3, ChannelsKept, LoopKept
<1>7. DOMAIN filters \subseteq Filters
  BY <1>3 DEF TypeOK
<1>8. LifeOK'
  <2>1. f \notin DOMAIN filters
    BY <1>1, <1>3 DEF LifeOK
  <2>2. CASE c = "done"
    BY <1>1, <1>2, <1>3, <1>4, <1>7, <2>1, <2>2 DEF LifeOK
  <2>3. CASE c # "done"
    BY <1>1, <1>2, <1>3, <1>4, <1>7, <2>1, <2>3 DEF LifeOK
  <2> QED
    BY <2>2, <2>3
<1>9. UninstalledIsSilent'
  BY <1>2, <1>3 DEF UninstalledIsSilent
<1>10. DeliveryOK'
  <2>1. ASSUME NEW g \in Filters PROVE Awaits(g)' => Awaits(g)
    BY <1>2, <1>4 DEF Awaits
  <2> QED
    BY <2>1, <1>2, <1>3, SameDelivered, DeliveryKept
<1> QED
  BY <1>5, <1>6, <1>8, <1>9, <1>10 DEF IInv

Routines ==
    [Filters -> [pc : {"none", "select", "append", "done"},
                 event : 0 .. MaxBlock]]

(* A goroutine moves on, with what it has in hand.                         *)
LEMMA NextPc ==
    ASSUME NEW rs \in Routines, NEW f \in Filters, NEW p
    PROVE  [rs EXCEPT ![f].pc = p]
             = [rs EXCEPT ![f] = [pc |-> p, event |-> rs[f].event]]
<1>1. PICK r \in [pc : {"none", "select", "append", "done"},
                  event : 0 .. MaxBlock] : r = rs[f]
  BY DEF Routines
<1>2. [r EXCEPT !.pc = p] = [pc |-> p, event |-> r.event]
  OBVIOUS
<1>3. [rs[f] EXCEPT !.pc = p] = [pc |-> p, event |-> rs[f].event]
  BY <1>1, <1>2, Zenon
<1>4. [rs EXCEPT ![f].pc = p] = [rs EXCEPT ![f] = [rs[f] EXCEPT !.pc = p]]
  BY DEF Routines
<1> QED
  BY <1>3, <1>4, Zenon

(* The second half of NewFilter: the goroutine starts to listen.           *)
LEMMA RegisterIInv ==
    ASSUME IInv, NEW f \in Filters, Register(f)
    PROVE  IInv'
<1>1. /\ call[f] = "register" /\ ~holder
      /\ filters' = [g \in DOMAIN filters \cup {f} |->
                       IF g = f THEN [events |-> <<>>, expired |-> FALSE]
                       ELSE filters[g]]
      /\ routine' = [routine EXCEPT ![f].pc = "select"]
      /\ call' = [call EXCEPT ![f] = "created"]
      /\ UNCHANGED <<clients, published, publishing, chainCh, logsCh, loop,
                     index, taken, start, holder, scan, got, unsub>>
  BY DEF Register, publishVars, chanVars, loopVars
<1>2. TypeOK /\ ChannelsOK /\ LoopOK /\ LifeOK /\ UninstalledIsSilent
      /\ DeliveryOK
  BY DEF IInv
<1>3. /\ DOMAIN filters' = DOMAIN filters \cup {f}
      /\ filters'[f] = [events |-> <<>>, expired |-> FALSE]
      /\ \A g \in DOMAIN filters : g # f => filters'[g] = filters[g]
  BY <1>1
<1>4. f \notin DOMAIN filters /\ f \in index /\ routine[f].pc = "none"
      /\ got[f] = <<>> /\ unsub[f] = "none"
  BY <1>1, <1>2 DEF LifeOK, TypeOK
<1>5. /\ call'[f] = "created" /\ \A g \in Filters : g # f => call'[g] = call[g]
      /\ call' \in [Filters -> {"none", "refused", "subscribe", "register",
                                "created", "uninstalling", "done"}]
  BY <1>1, <1>2 DEF TypeOK
<1>6. /\ routine'[f].pc = "select"
      /\ \A g \in Filters : g # f => routine'[g] = routine[g]
      /\ routine' \in [Filters -> [pc : {"none", "select", "append", "done"},
                                   event : 0 .. MaxBlock]]
  <2>1. routine \in [Filters -> [pc : {"none", "select", "append", "done"},
                                 event : 0 .. MaxBlock]]
    BY <1>2 DEF TypeOK
  <2>2. routine' = [routine EXCEPT ![f] = [pc |-> "select",
                                           event |-> routine[f].event]]
    <3>1. [routine EXCEPT ![f].pc = "select"]
             = [routine EXCEPT ![f] = [pc |-> "select",
                                       event |-> routine[f].event]]
      <4>1. routine \in Routines
        BY <2>1, Zenon DEF Routines
      <4> QED
        BY <4>1, NextPc, Zenon
    <3> QED
      BY <1>1, <3>1, Zenon
  <2>3. routine[f].event \in 0 .. MaxBlock
    BY <2>1
  <2> QED
    BY <2>1, <2>2, <2>3
<1>7. TypeOK'
  <2>1. DOMAIN filters' \subseteq Filters
    BY <1>2, <1>3 DEF TypeOK
  <2>2. ASSUME NEW g \in DOMAIN filters'
        PROVE  filters'[g] \in [events : Seq(1 .. MaxBlock), expired : BOOLEAN]
    <3>1. CASE g = f
      BY <3>1, <1>3
    <3>2. CASE g # f
      BY <3>2, <1>2, <1>3 DEF TypeOK
    <3> QED
      BY <3>1, <3>2
  <2> QED
    BY <1>1, <1>2, <1>5, <1>6, <2>1, <2>2, Zenon DEF TypeOK
<1>8. ChannelsOK' /\ LoopOK'
  BY <1>1, <1>2, ChannelsKept, LoopKept
<1>9. LifeOK'
  <2>1. \A g \in DOMAIN filters' : call'[g] = "created"
    BY <1>2, <1>3, <1>5 DEF LifeOK, TypeOK
  <2>2. \A g \in DOMAIN filters' : unsub[g] = "none" => g \in index
    BY <1>2, <1>3, <1>4 DEF LifeOK
  <2> QED
    BY <1>1, <1>2, <1>3, <1>5, <1>6, <2>1, <2>2 DEF LifeOK
<1>10. UninstalledIsSilent'
  BY <1>1, <1>2 DEF UninstalledIsSilent
<1>11. DeliveryOK'
  <2>1. ASSUME NEW g \in Filters
        PROVE  Awaits(g)' => Awaits(g) /\ Delivered(g)' = Delivered(g)
    <3>1. CASE g = f
      <4>1. Awaits(f)
        BY <1>1 DEF Awaits
      <4>2. InFlight(f)' = InFlight(f)
        BY <1>1, <1>4, <1>6, Zenon DEF InFlight
      <4>3. Events(f)' = Events(f)
        BY <1>3, <1>4 DEF Events
      <4> QED
        BY <3>1, <4>1, <4>2, <4>3, <1>1, Zenon DEF Delivered
    <3>2. CASE g # f
      <4>1. Delivered(g)' = Delivered(g)
        BY <3>2, <1>1, <1>3, <1>6, OtherFilter
      <4>2. Awaits(g)' => Awaits(g)
        BY <3>2, <1>1, <1>3, <1>5 DEF Awaits
      <4> QED
        BY <4>1, <4>2
    <3> QED
      BY <3>1, <3>2
  <2> QED
    BY <2>1, <1>1, <1>2, DeliveryKept
<1> QED
  BY <1>7, <1>8, <1>9, <1>10, <1>11 DEF IInv

(* A filter is deleted.                                                    *)
LEMMA WithoutFacts ==
    ASSUME TypeOK, NEW f, filters' = Without(f)
    PROVE  /\ DOMAIN filters' = DOMAIN filters \ {f}
           /\ \A g \in DOMAIN filters' : filters'[g] = filters[g]
           /\ DOMAIN filters' \subseteq Filters
           /\ \A g \in DOMAIN filters' :
                 filters'[g] \in [events : Seq(1 .. MaxBlock),
                                  expired : BOOLEAN]
<1>1. /\ DOMAIN filters' = DOMAIN filters \ {f}
      /\ \A g \in DOMAIN filters' : filters'[g] = filters[g]
  BY DEF Without
<1> QED
  BY <1>1 DEF TypeOK

(* The client uninstalls its filter.                                       *)
LEMMA UninstallFilterIInv ==
    ASSUME IInv, NEW f \in Filters, UninstallFilter(f)
    PROVE  IInv'
<1>1. /\ call[f] = "created" /\ ~holder /\ f \in DOMAIN filters
      /\ filters' = Without(f)
      /\ unsub' = [unsub EXCEPT ![f] = "uninstall"]
      /\ call' = [call EXCEPT ![f] = "uninstalling"]
      /\ UNCHANGED <<clients, published, publishing, chainCh, logsCh, loop,
                     index, taken, start, holder, scan, got, routine>>
  BY DEF UninstallFilter, publishVars, chanVars, loopVars
<1>2. TypeOK /\ ChannelsOK /\ LoopOK /\ LifeOK /\ UninstalledIsSilent
      /\ DeliveryOK
  BY DEF IInv
<1>3. /\ DOMAIN filters' = DOMAIN filters \ {f}
      /\ \A g \in DOMAIN filters' : filters'[g] = filters[g]
      /\ DOMAIN filters' \subseteq Filters
      /\ \A g \in DOMAIN filters' :
            filters'[g] \in [events : Seq(1 .. MaxBlock), expired : BOOLEAN]
  BY <1>1, <1>2, WithoutFacts
<1>4. /\ unsub'[f] = "uninstall"
      /\ \A g \in Filters : g # f => unsub'[g] = unsub[g]
      /\ unsub' \in [Filters -> {"none", "uninstall", "closed"}]
  BY <1>1, <1>2 DEF TypeOK
<1>5. /\ call'[f] = "uninstalling"
      /\ \A g \in Filters : g # f => call'[g] = call[g]
      /\ call' \in [Filters -> {"none", "refused", "subscribe", "register",
                                "created", "uninstalling", "done"}]
  BY <1>1, <1>2 DEF TypeOK
<1>6. TypeOK'
  BY <1>1, <1>2, <1>3, <1>4, <1>5, Zenon DEF TypeOK
<1>7. ChannelsOK' /\ LoopOK'
  BY <1>1, <1>2, ChannelsKept, LoopKept
<1>8. LifeOK'
  BY <1>1, <1>2, <1>3, <1>4, <1>5 DEF LifeOK
<1>9. UninstalledIsSilent'
  BY <1>1, <1>2, <1>4 DEF UninstalledIsSilent
<1>10. DeliveryOK'
  <2>1. ASSUME NEW g \in Filters
        PROVE  Awaits(g)' => Awaits(g) /\ Delivered(g)' = Delivered(g)
    <3>1. CASE g = f
      BY <3>1, <1>3, <1>5 DEF Awaits
    <3>2. CASE g # f
      <4>1. Delivered(g)' = Delivered(g)
        BY <3>2, <1>1, <1>3, OtherFilter
      <4>2. Awaits(g)' => Awaits(g)
        BY <3>2, <1>3, <1>4, <1>5 DEF Awaits
      <4> QED
        BY <4>1, <4>2
    <3> QED
      BY <3>1, <3>2
  <2> QED
    BY <2>1, <1>1, <1>2, DeliveryKept
<1> QED
  BY <1>6, <1>7, <1>8, <1>9, <1>10 DEF IInv

(* timeoutLoop, or the goroutine at its end, deletes a filter whose        *)
(* subscription is closed.                                                 *)
LEMMA DeleteIInv ==
    ASSUME IInv, NEW f \in Filters, unsub[f] = "closed",
           filters' = Without(f),
           \/ ~holder /\ scan' = scan
           \/ scan' = scan \ {f},
           \A g \in Filters : g # f => routine'[g] = routine[g],
           routine'[f].pc \in {routine[f].pc, "done"},
           routine'[f].event = routine[f].event,
           routine' \in [Filters -> [pc : {"none", "select", "append", "done"},
                                     event : 0 .. MaxBlock]],
           UNCHANGED <<clients, published, publishing, chainCh, logsCh, loop,
                       index, taken, start, holder, call, got, unsub>>
    PROVE  IInv'
<1>1. TypeOK /\ ChannelsOK /\ LoopOK /\ LifeOK /\ UninstalledIsSilent
      /\ DeliveryOK
  BY DEF IInv
<1>2. /\ DOMAIN filters' = DOMAIN filters \ {f}
      /\ \A g \in DOMAIN filters' : filters'[g] = filters[g]
      /\ DOMAIN filters' \subseteq Filters
      /\ \A g \in DOMAIN filters' :
            filters'[g] \in [events : Seq(1 .. MaxBlock), expired : BOOLEAN]
  BY <1>1, WithoutFacts
<1>3. TypeOK'
  <2>1. scan' \subseteq Filters
    BY <1>1 DEF TypeOK
  <2> QED
    BY <1>1, <1>2, <2>1, Zenon DEF TypeOK
<1>4. ChannelsOK' /\ LoopOK'
  BY <1>1, ChannelsKept, LoopKept
<1>5. call[f] \in {"created", "uninstalling", "done"}
  BY <1>1 DEF LifeOK
<1>6. LifeOK'
  <2>1. scan' \subseteq DOMAIN filters' /\ (scan' # {} => holder')
    BY <1>1, <1>2 DEF LifeOK
  <2>2. \A g \in Filters :
           call[g] \in {"none", "refused", "subscribe", "register"} =>
             routine'[g].pc = "none" /\ got[g] = <<>>
    BY <1>1, <1>5 DEF LifeOK
  <2>3. \A g \in Filters : routine'[g].pc = "append" => routine'[g].event # 0
    BY <1>1 DEF LifeOK
  <2> QED
    BY <1>1, <1>2, <2>1, <2>2, <2>3 DEF LifeOK
<1>7. UninstalledIsSilent'
  BY <1>1 DEF UninstalledIsSilent
<1>8. DeliveryOK'
  <2>1. ASSUME NEW g \in Filters
        PROVE  Awaits(g)' => Awaits(g) /\ Delivered(g)' = Delivered(g)
    <3>1. CASE g = f
      BY <3>1, <1>2, <1>5 DEF Awaits
    <3>2. CASE g # f
      <4>1. Delivered(g)' = Delivered(g)
        BY <3>2, <1>2, OtherFilter
      <4>2. Awaits(g)' => Awaits(g)
        BY <3>2, <1>2 DEF Awaits
      <4> QED
        BY <4>1, <4>2
    <3> QED
      BY <3>1, <3>2
  <2> QED
    BY <2>1, <1>1, DeliveryKept
<1> QED
  BY <1>3, <1>4, <1>6, <1>7, <1>8 DEF IInv

(* The goroutine of a filter ends.                                         *)
LEMMA EndRoutineIInv ==
    ASSUME IInv, NEW f \in Filters, EndRoutine(f)
    PROVE  IInv'
<1>1. /\ unsub[f] = "closed" /\ ~holder /\ filters' = Without(f)
      /\ routine' = [routine EXCEPT ![f].pc = "done"]
      /\ UNCHANGED <<clients, published, publishing, chainCh, logsCh, loop,
                     index, taken, start, holder, scan, call, got, unsub>>
  BY DEF EndRoutine, publishVars, chanVars, loopVars
<1>2. routine \in [Filters -> [pc : {"none", "select", "append", "done"},
                               event : 0 .. MaxBlock]]
  BY DEF IInv, TypeOK
<1>3. routine' = [routine EXCEPT ![f] = [pc |-> "done",
                                         event |-> routine[f].event]]
  <2>1. [routine EXCEPT ![f].pc = "done"]
           = [routine EXCEPT ![f] = [pc |-> "done",
                                     event |-> routine[f].event]]
    <3>1. routine \in Routines
      BY <1>2, Zenon DEF Routines
    <3> QED
      BY <3>1, NextPc, Zenon
  <2> QED
    BY <1>1, <2>1, Zenon
<1>4. routine[f].event \in 0 .. MaxBlock
  BY <1>2
<1>5. /\ \A g \in Filters : g # f => routine'[g] = routine[g]
      /\ routine'[f].pc = "done" /\ routine'[f].event = routine[f].event
      /\ routine' \in [Filters -> [pc : {"none", "select", "append", "done"},
                                   event : 0 .. MaxBlock]]
  BY <1>2, <1>3, <1>4
<1> QED
  BY <1>1, <1>5, DeleteIInv

(* timeoutLoop deletes the filter that it has unsubscribed.                *)
LEMMA RemoveExpiredIInv ==
    ASSUME IInv, NEW f \in Filters, RemoveExpired(f)
    PROVE  IInv'
<1>1. /\ unsub[f] = "closed" /\ filters' = Without(f) /\ scan' = scan \ {f}
      /\ UNCHANGED <<clients, published, publishing, chainCh, logsCh, loop,
                     index, taken, start, holder, call, got, routine, unsub>>
  BY DEF RemoveExpired, publishVars, chanVars, loopVars
<1>2. routine' \in [Filters -> [pc : {"none", "select", "append", "done"},
                                event : 0 .. MaxBlock]]
  BY <1>1 DEF IInv, TypeOK
<1> QED
  BY <1>1, <1>2, DeleteIInv

-----------------------------------------------------------------------------
(* A filter's entry changes, and the filters stay the same.                *)
LEMMA EntryFacts ==
    ASSUME TypeOK, NEW f \in DOMAIN filters,
           NEW entry \in [events : Seq(1 .. MaxBlock), expired : BOOLEAN],
           filters' = [filters EXCEPT ![f] = entry]
    PROVE  /\ DOMAIN filters' = DOMAIN filters
           /\ filters'[f] = entry
           /\ \A g \in DOMAIN filters : g # f => filters'[g] = filters[g]
           /\ DOMAIN filters' \subseteq Filters
           /\ \A g \in DOMAIN filters' :
                 filters'[g] \in [events : Seq(1 .. MaxBlock),
                                  expired : BOOLEAN]
<1>1. /\ DOMAIN filters' = DOMAIN filters
      /\ filters'[f] = entry
      /\ \A g \in DOMAIN filters : g # f => filters'[g] = filters[g]
  OBVIOUS
<1>2. ASSUME NEW g \in DOMAIN filters'
      PROVE  filters'[g] \in [events : Seq(1 .. MaxBlock), expired : BOOLEAN]
  <2>1. CASE g = f
    BY <1>1, <2>1
  <2>2. CASE g # f
    BY <1>1, <2>2 DEF TypeOK
  <2> QED
    BY <2>1, <2>2
<1> QED
  BY <1>1, <1>2 DEF TypeOK

(* The parts of an entry.                                                  *)
LEMMA EntryParts ==
    ASSUME TypeOK, NEW f \in DOMAIN filters
    PROVE  /\ filters[f].events \in Seq(1 .. MaxBlock)
           /\ filters[f] = [events |-> filters[f].events,
                            expired |-> filters[f].expired]
<1>1. PICK r \in [events : Seq(1 .. MaxBlock), expired : BOOLEAN] :
         r = filters[f]
  BY DEF TypeOK
<1>2. /\ r.events \in Seq(1 .. MaxBlock)
      /\ r = [events |-> r.events, expired |-> r.expired]
  OBVIOUS
<1> QED
  BY <1>1, <1>2, Zenon

(* What an entry is when some of its fields change.                        *)
LEMMA EntryUpdates ==
    ASSUME NEW r \in [events : Seq(1 .. MaxBlock), expired : BOOLEAN],
           NEW e \in Seq(1 .. MaxBlock), NEW x \in BOOLEAN
    PROVE  /\ [r EXCEPT !.events = e]
                 \in [events : Seq(1 .. MaxBlock), expired : BOOLEAN]
           /\ [r EXCEPT !.events = e].events = e
           /\ [r EXCEPT !.expired = x]
                 \in [events : Seq(1 .. MaxBlock), expired : BOOLEAN]
           /\ [r EXCEPT !.expired = x].events = r.events
<1> DEFINE Entries == [events : Seq(1 .. MaxBlock), expired : BOOLEAN]
<1>1. [r EXCEPT !.events = e] = [events |-> e, expired |-> r.expired]
  OBVIOUS
<1>2. [r EXCEPT !.expired = x] = [events |-> r.events, expired |-> x]
  OBVIOUS
<1>3. r.events \in Seq(1 .. MaxBlock) /\ r.expired \in BOOLEAN
  OBVIOUS
<1>4. /\ [events |-> e, expired |-> r.expired] \in Entries
      /\ [events |-> r.events, expired |-> x] \in Entries
  BY <1>3, Zenon
<1> QED
  BY <1>1, <1>2, <1>4, Zenon

(* GetFilterChanges leaves an empty entry.                                 *)
LEMMA PolledEntry ==
    ASSUME NEW r \in [events : Seq(1 .. MaxBlock), expired : BOOLEAN]
    PROVE  Polled(r) = [events |-> <<>>, expired |-> FALSE]
<1>1. PICK e : e = <<>>
  OBVIOUS
<1>2. PICK x : x = FALSE
  OBVIOUS
<1>3. [r EXCEPT !.events = e] = [events |-> e, expired |-> r.expired]
  OBVIOUS
<1>4. [[events |-> e, expired |-> r.expired] EXCEPT !.expired = x]
         = [events |-> e, expired |-> x]
  OBVIOUS
<1>5. [r EXCEPT !.events = e, !.expired = x] = [events |-> e, expired |-> x]
  BY <1>3, <1>4
<1> QED
  BY <1>1, <1>2, <1>5, Zenon DEF Polled

(* A poll moves the events of the filter to its client.                    *)
LEMMA GetFilterChangesIInv ==
    ASSUME IInv, NEW f \in Filters, GetFilterChanges(f)
    PROVE  IInv'
<1>1. /\ f \in DOMAIN filters /\ call[f] = "created"
      /\ got' = [got EXCEPT ![f] = @ \o filters[f].events]
      /\ filters' = [filters EXCEPT ![f] = Polled(@)]
      /\ UNCHANGED <<clients, published, publishing, chainCh, logsCh, loop,
                     index, taken, start, call, holder, scan, routine, unsub>>
  BY DEF GetFilterChanges, publishVars, chanVars, loopVars
<1>2. TypeOK /\ ChannelsOK /\ LoopOK /\ LifeOK /\ UninstalledIsSilent
      /\ DeliveryOK
  BY DEF IInv
<1>3. PICK entry \in [events : Seq(1 .. MaxBlock), expired : BOOLEAN] :
         entry = [events |-> <<>>, expired |-> FALSE]
  <2>1. <<>> \in Seq(1 .. MaxBlock) /\ FALSE \in BOOLEAN
    BY EmptySeq, Zenon
  <2>2. [events |-> <<>>, expired |-> FALSE]
           \in [events : Seq(1 .. MaxBlock), expired : BOOLEAN]
    BY <2>1, Zenon
  <2> QED
    BY <2>2, Zenon
<1>4. Polled(filters[f]) = entry
  <2>1. PICK r \in [events : Seq(1 .. MaxBlock), expired : BOOLEAN] :
           r = filters[f]
    <3>1. filters[f] \in [events : Seq(1 .. MaxBlock), expired : BOOLEAN]
      BY <1>1, <1>2, Zenon DEF TypeOK
    <3> QED
      BY <3>1, Zenon
  <2> QED
    BY <2>1, <1>3, PolledEntry, Zenon
<1>5. filters' = [filters EXCEPT ![f] = entry]
  BY <1>1, <1>4
<1>6. /\ DOMAIN filters' = DOMAIN filters
      /\ filters'[f] = entry
      /\ \A g \in DOMAIN filters : g # f => filters'[g] = filters[g]
      /\ DOMAIN filters' \subseteq Filters
      /\ \A g \in DOMAIN filters' :
            filters'[g] \in [events : Seq(1 .. MaxBlock), expired : BOOLEAN]
  BY <1>1, <1>2, <1>5, EntryFacts
<1>7. PICK a \in Seq(Blocks) : a = got[f]
  BY <1>2, Parts
<1>8. PICK b \in Seq(Blocks) : b = Events(f) /\ b = filters[f].events
  BY <1>1, <1>2, Parts DEF Events
<1>9. PICK ab \in Seq(Blocks) : ab = a \o b
  <2>1. a \o b \in Seq(Blocks)
    BY ConcatProperties
  <2> QED
    BY <2>1
<1>10. /\ got'[f] = ab
       /\ \A g \in Filters : g # f => got'[g] = got[g]
       /\ got' \in [Filters -> Seq(1 .. MaxBlock)]
  <2>1. got \in [Filters -> Seq(1 .. MaxBlock)] /\ ab \in Seq(1 .. MaxBlock)
    BY <1>2, <1>9 DEF TypeOK, Blocks
  <2>2. got' = [got EXCEPT ![f] = ab]
    BY <1>1, <1>7, <1>8, <1>9
  <2> QED
    BY <2>1, <2>2
<1>11. TypeOK'
  BY <1>1, <1>2, <1>6, <1>10, Zenon DEF TypeOK
<1>12. ChannelsOK' /\ LoopOK'
  BY <1>1, <1>2, ChannelsKept, LoopKept
<1>13. LifeOK'
  BY <1>1, <1>2, <1>6, <1>10, SMTT(20) DEF LifeOK
<1>14. UninstalledIsSilent'
  BY <1>1, <1>2 DEF UninstalledIsSilent
<1>15. DeliveryOK'
  <2>1. ASSUME NEW g \in Filters PROVE Delivered(g)' = Delivered(g)
    <3>1. CASE g = f
      <4>1. Events(f)' = <<>>
        BY <1>1, <1>3, <1>6 DEF Events
      <4>2. InFlight(f)' = InFlight(f)
        BY <1>1, Zenon DEF InFlight
      <4>3. Delivered(f)' = ab \o <<>> \o InFlight(f)
        BY <1>10, <4>1, <4>2, Zenon DEF Delivered
      <4>4. ab \o <<>> = ab
        BY ConcatEmptySeq
      <4>5. Delivered(f) = ab \o InFlight(f)
        BY <1>7, <1>8, <1>9, Zenon DEF Delivered
      <4> QED
        BY <3>1, <4>3, <4>4, <4>5, Zenon
    <3>2. CASE g # f
      BY <3>2, <1>1, <1>6, <1>10, OtherFilter
    <3> QED
      BY <3>1, <3>2
  <2>2. ASSUME NEW g \in Filters PROVE Awaits(g)' => Awaits(g)
    BY <1>1, <1>6 DEF Awaits
  <2> QED
    BY <2>1, <2>2, <1>1, <1>2, DeliveryKept
<1> QED
  BY <1>11, <1>12, <1>13, <1>14, <1>15 DEF IInv

(* A goroutine appends what it has in hand to its filter: the event moves  *)
(* from one part of what was delivered to the next.                        *)
LEMMA DeliveredMoves ==
    ASSUME NEW g \in Seq(Blocks), NEW e \in Seq(Blocks), NEW c \in Seq(Blocks),
           NEW n \in Blocks
    PROVE  g \o Append(e, n) \o (<<>> \o c) = g \o e \o (<<n>> \o c)
<1>1. Regroups(Blocks)
  BY Associative, Zenon
<1>2. PICK u \in Seq(Blocks) : u = <<n>>
  <2>1. <<n>> \in [1 .. 1 -> Blocks]
    OBVIOUS
  <2>2. <<n>> \in Seq(Blocks)
    BY <2>1, SeqDef
  <2> QED
    BY <2>2
<1>3. Append(e, n) = e \o u
  BY <1>2, AppendIsConcat
<1>4. <<>> \o c = c
  BY ConcatEmptySeq
<1>5. PICK ge \in Seq(Blocks) : ge = g \o e
  <2>1. g \o e \in Seq(Blocks)
    BY ConcatProperties, Zenon
  <2> QED
    BY <2>1, Zenon
<1>6. g \o (e \o u) = ge \o u
  <2>1. (g \o e) \o u = g \o (e \o u)
    BY <1>1, ZenonT(40) DEF Regroups
  <2> QED
    BY <2>1, <1>5, Zenon
<1>7. (ge \o u) \o c = ge \o (u \o c)
  BY <1>1, ZenonT(40) DEF Regroups
<1> QED
  BY <1>2, <1>3, <1>4, <1>5, <1>6, <1>7, Zenon

(* What a goroutine does with its filter, if the filter is still there.    *)
LEMMA AppendEventFacts ==
    ASSUME TypeOK, LoopOK, LifeOK, NEW f \in DOMAIN filters, f \in Filters,
           routine[f].pc = "append",
           filters' = [filters EXCEPT ![f].events = Append(@, routine[f].event)]
    PROVE  /\ DOMAIN filters' = DOMAIN filters
           /\ filters'[f].events = Append(filters[f].events, routine[f].event)
           /\ \A g \in DOMAIN filters : g # f => filters'[g] = filters[g]
           /\ DOMAIN filters' \subseteq Filters
           /\ \A g \in DOMAIN filters' :
                 filters'[g] \in [events : Seq(1 .. MaxBlock),
                                  expired : BOOLEAN]
<1>1. PICK n \in 1 .. MaxBlock : n = routine[f].event
  BY Parts DEF Blocks
<1>2. PICK r \in [events : Seq(1 .. MaxBlock), expired : BOOLEAN] :
         r = filters[f]
  BY DEF TypeOK
<1>3. PICK es \in Seq(1 .. MaxBlock) : es = Append(r.events, n)
  <2>1. r.events \in Seq(1 .. MaxBlock)
    OBVIOUS
  <2>2. Append(r.events, n) \in Seq(1 .. MaxBlock)
    BY <2>1, AppendProperties, Zenon
  <2> QED
    BY <2>2, Zenon
<1>4. PICK entry \in [events : Seq(1 .. MaxBlock), expired : BOOLEAN] :
         entry = [r EXCEPT !.events = es] /\ entry.events = es
  <2>1. PICK x \in BOOLEAN : x = TRUE
    OBVIOUS
  <2>2. /\ [r EXCEPT !.events = es]
              \in [events : Seq(1 .. MaxBlock), expired : BOOLEAN]
        /\ [r EXCEPT !.events = es].events = es
    BY <2>1, EntryUpdates, Zenon
  <2> QED
    BY <2>2, Zenon
<1>5. filters' = [filters EXCEPT ![f] = entry]
  <2>1. filters' = [filters EXCEPT ![f] =
                      [filters[f] EXCEPT !.events =
                          Append(filters[f].events, routine[f].event)]]
    OBVIOUS
  <2> QED
    BY <2>1, <1>1, <1>2, <1>3, <1>4, Zenon
<1>6. /\ DOMAIN filters' = DOMAIN filters
      /\ filters'[f] = entry
      /\ \A g \in DOMAIN filters : g # f => filters'[g] = filters[g]
      /\ DOMAIN filters' \subseteq Filters
      /\ \A g \in DOMAIN filters' :
            filters'[g] \in [events : Seq(1 .. MaxBlock), expired : BOOLEAN]
  BY <1>5, EntryFacts
<1>7. filters'[f].events = Append(filters[f].events, routine[f].event)
  BY <1>1, <1>2, <1>3, <1>4, <1>6, Zenon
<1> QED
  BY <1>6, <1>7

(* The goroutine of a filter stores the event it has in hand.              *)
LEMMA AppendEventIInv ==
    ASSUME IInv, NEW f \in Filters, AppendEvent(f)
    PROVE  IInv'
<1>1. /\ routine[f].pc = "append" /\ ~holder
      /\ filters' = IF f \in DOMAIN filters
                    THEN [filters EXCEPT ![f].events =
                              Append(@, routine[f].event)]
                    ELSE filters
      /\ routine' = [routine EXCEPT ![f] = [pc |-> "select", event |-> 0]]
      /\ UNCHANGED <<clients, published, publishing, chainCh, logsCh, loop,
                     index, taken, start, call, holder, scan, got, unsub>>
  BY DEF AppendEvent, publishVars, chanVars, loopVars
<1>2. TypeOK /\ ChannelsOK /\ LoopOK /\ LifeOK /\ UninstalledIsSilent
      /\ DeliveryOK
  BY DEF IInv
<1>3. /\ DOMAIN filters' = DOMAIN filters
      /\ f \in DOMAIN filters =>
            filters'[f].events = Append(filters[f].events, routine[f].event)
      /\ \A g \in DOMAIN filters : g # f => filters'[g] = filters[g]
      /\ DOMAIN filters' \subseteq Filters
      /\ \A g \in DOMAIN filters' :
            filters'[g] \in [events : Seq(1 .. MaxBlock), expired : BOOLEAN]
  <2>1. CASE f \in DOMAIN filters
    <3>1. filters' = [filters EXCEPT ![f].events =
                        Append(@, routine[f].event)]
      BY <2>1, <1>1
    <3> QED
      BY <2>1, <3>1, <1>1, <1>2, AppendEventFacts
  <2>2. CASE f \notin DOMAIN filters
    <3>1. filters' = filters
      BY <2>2, <1>1
    <3> QED
      BY <2>2, <3>1, <1>2, Zenon DEF TypeOK
  <2> QED
    BY <2>1, <2>2
<1>4. /\ routine'[f] = [pc |-> "select", event |-> 0]
      /\ \A g \in Filters : g # f => routine'[g] = routine[g]
      /\ routine' \in [Filters -> [pc : {"none", "select", "append", "done"},
                                   event : 0 .. MaxBlock]]
  <2>1. 0 \in 0 .. MaxBlock
    BY ConstantFacts
  <2> QED
    BY <1>1, <1>2, <2>1 DEF TypeOK
<1>5. TypeOK'
  BY <1>1, <1>2, <1>3, <1>4, Zenon DEF TypeOK
<1>6. ChannelsOK' /\ LoopOK'
  BY <1>1, <1>2, ChannelsKept, LoopKept
<1>7. call[f] \notin {"none", "refused", "subscribe", "register"}
  BY <1>1, <1>2 DEF LifeOK
<1>8. LifeOK'
  <2>1. \A g \in Filters :
           call[g] \in {"none", "refused", "subscribe", "register"} =>
             routine'[g].pc = "none" /\ got[g] = <<>>
    BY <1>2, <1>4, <1>7 DEF LifeOK
  <2>2. \A g \in Filters : routine'[g].pc = "append" => routine'[g].event # 0
    BY <1>2, <1>4 DEF LifeOK
  <2> QED
    BY <1>1, <1>2, <1>3, <2>1, <2>2 DEF LifeOK
<1>9. UninstalledIsSilent'
  BY <1>1, <1>2 DEF UninstalledIsSilent
<1>10. DeliveryOK'
  <2>1. ASSUME NEW g \in Filters
        PROVE  Awaits(g)' => Awaits(g) /\ Delivered(g)' = Delivered(g)
    <3>0. Awaits(g)' => Awaits(g)
      BY <1>1, <1>3 DEF Awaits
    <3>1. CASE g = f /\ f \in DOMAIN filters
      <4>1. PICK c \in Seq(Blocks) :
               c = IF f \in ToSet(loop.left) THEN <<loop.event>> ELSE <<>>
        <5>1. \A x \in Blocks : <<x>> \in Seq(Blocks)
          OBVIOUS
        <5>2. /\ f \in ToSet(loop.left) => <<loop.event>> \in Seq(Blocks)
              /\ <<>> \in Seq(Blocks)
          BY <5>1, <1>2, Parts, EmptySeq, Zenon
        <5> QED
          BY <5>2
      <4>2. PICK n \in Blocks : n = routine[f].event
        BY <1>1, <1>2, Parts
      <4>3. PICK a \in Seq(Blocks) : a = got[f]
        BY <1>2, Parts
      <4>4. PICK b \in Seq(Blocks) : b = Events(f) /\ b = filters[f].events
        BY <3>1, <1>2, Parts DEF Events
      <4>5. InFlight(f) = <<n>> \o c
        BY <1>1, <4>1, <4>2, Zenon DEF InFlight
      <4>6. routine'[f].pc # "append"
        BY <1>4
      <4>7. InFlight(f)' = <<>> \o c
        BY <1>1, <4>1, <4>6, Zenon DEF InFlight
      <4>8. Events(f)' = Append(b, n)
        BY <3>1, <1>3, <4>2, <4>4, Zenon DEF Events
      <4>9. Delivered(f)' = a \o Append(b, n) \o (<<>> \o c)
        BY <1>1, <4>3, <4>7, <4>8, Zenon DEF Delivered
      <4>10. Delivered(f) = a \o b \o (<<n>> \o c)
        BY <4>3, <4>4, <4>5, Zenon DEF Delivered
      <4>11. a \o Append(b, n) \o (<<>> \o c) = a \o b \o (<<n>> \o c)
        BY DeliveredMoves, ZenonT(40)
      <4>12. Delivered(f)' = Delivered(f)
        BY <4>9, <4>10, <4>11, Zenon
      <4> QED
        BY <3>0, <3>1, <4>12, Zenon
    <3>2. CASE g = f /\ f \notin DOMAIN filters
      BY <3>2, <1>1, <1>3, <1>7 DEF Awaits
    <3>3. CASE g # f
      <4>1. Delivered(g)' = Delivered(g)
        BY <3>3, <1>1, <1>3, <1>4, OtherFilter
      <4> QED
        BY <3>0, <4>1
    <3> QED
      BY <3>1, <3>2, <3>3
  <2> QED
    BY <2>1, <1>1, <1>2, DeliveryKept
<1> QED
  BY <1>5, <1>6, <1>8, <1>9, <1>10 DEF IInv

-----------------------------------------------------------------------------
(* The timer of a filter fires: its events stay.                           *)
LEMMA ExpireIInv ==
    ASSUME IInv, NEW f \in Filters, Expire(f)
    PROVE  IInv'
<1>1. /\ f \in DOMAIN filters
      /\ filters' = [filters EXCEPT ![f].expired = TRUE]
      /\ UNCHANGED <<clients, published, publishing, chainCh, logsCh, loop,
                     index, taken, start, call, holder, scan, got, routine,
                     unsub>>
  BY DEF Expire, publishVars, chanVars, loopVars
<1>2. TypeOK /\ ChannelsOK /\ LoopOK /\ LifeOK /\ UninstalledIsSilent
      /\ DeliveryOK
  BY DEF IInv
<1>3. PICK r \in [events : Seq(1 .. MaxBlock), expired : BOOLEAN] :
         r = filters[f]
  <2>1. filters[f] \in [events : Seq(1 .. MaxBlock), expired : BOOLEAN]
    BY <1>1, <1>2, Zenon DEF TypeOK
  <2> QED
    BY <2>1, Zenon
<1>4. PICK entry \in [events : Seq(1 .. MaxBlock), expired : BOOLEAN] :
         entry = [r EXCEPT !.expired = TRUE] /\ entry.events = r.events
  <2>1. TRUE \in BOOLEAN /\ <<>> \in Seq(1 .. MaxBlock)
    BY EmptySeq, Zenon
  <2> QED
    BY <2>1, EntryUpdates, Zenon
<1>5. filters' = [filters EXCEPT ![f] = entry]
  <2>1. filters' = [filters EXCEPT ![f] = [filters[f] EXCEPT !.expired = TRUE]]
    BY <1>1
  <2> QED
    BY <2>1, <1>3, <1>4, Zenon
<1>6. /\ DOMAIN filters' = DOMAIN filters
      /\ filters'[f] = entry
      /\ \A g \in DOMAIN filters : g # f => filters'[g] = filters[g]
      /\ DOMAIN filters' \subseteq Filters
      /\ \A g \in DOMAIN filters' :
            filters'[g] \in [events : Seq(1 .. MaxBlock), expired : BOOLEAN]
  BY <1>1, <1>2, <1>5, EntryFacts
<1>7. \A g \in DOMAIN filters : filters'[g].events = filters[g].events
  BY <1>3, <1>4, <1>6, Zenon
<1>8. TypeOK'
  BY <1>1, <1>2, <1>6, Zenon DEF TypeOK
<1>9. ChannelsOK' /\ LoopOK'
  BY <1>1, <1>2, ChannelsKept, LoopKept
<1>10. LifeOK'
  BY <1>1, <1>2, <1>6 DEF LifeOK
<1>11. UninstalledIsSilent'
  BY <1>1, <1>2 DEF UninstalledIsSilent
<1>12. DeliveryOK'
  <2>1. ASSUME NEW g \in Filters PROVE Delivered(g)' = Delivered(g)
    BY <1>1, <1>6, <1>7, OtherFilter
  <2>2. ASSUME NEW g \in Filters PROVE Awaits(g)' => Awaits(g)
    BY <1>1, <1>6 DEF Awaits
  <2> QED
    BY <2>1, <2>2, <1>1, <1>2, DeliveryKept
<1> QED
  BY <1>8, <1>9, <1>10, <1>11, <1>12 DEF IInv

(* timeoutLoop takes and releases filtersMu, and looks at a filter.        *)
LEMMA TimeoutIInv ==
    ASSUME IInv, \/ Tick \/ EndScan \/ \E f \in Filters : CheckDeadline(f)
    PROVE  IInv'
<1>1. UNCHANGED <<clients, published, publishing, chainCh, logsCh, loop, index,
                  taken, start, call, filters, got, routine>>
  BY DEF Tick, EndScan, CheckDeadline, publishVars, chanVars, loopVars
<1>2. TypeOK /\ ChannelsOK /\ LoopOK /\ LifeOK /\ UninstalledIsSilent
      /\ DeliveryOK
  BY DEF IInv
<1>3. holder' \in BOOLEAN /\ scan' \subseteq DOMAIN filters
      /\ (scan' # {} => holder')
  <2>1. CASE Tick
    BY <2>1 DEF Tick
  <2>2. CASE EndScan
    BY <2>2 DEF EndScan
  <2>3. CASE \E f \in Filters : CheckDeadline(f)
    <3>1. scan' \subseteq scan /\ holder' = holder
      BY <2>3 DEF CheckDeadline
    <3>2. holder \in BOOLEAN /\ scan \subseteq DOMAIN filters
          /\ (scan # {} => holder)
      BY <1>2, Zenon DEF TypeOK, LifeOK
    <3> QED
      BY <3>1, <3>2, Zenon
  <2> QED
    BY <2>1, <2>2, <2>3
<1>4. /\ unsub' \in [Filters -> {"none", "uninstall", "closed"}]
      /\ \A g \in Filters :
            \/ unsub'[g] = unsub[g]
            \/ g \in DOMAIN filters /\ unsub'[g] = "uninstall"
  <2>0. unsub \in [Filters -> {"none", "uninstall", "closed"}]
        /\ scan \subseteq DOMAIN filters
    BY <1>2 DEF TypeOK, LifeOK
  <2>1. CASE Tick \/ EndScan
    BY <2>0, <2>1 DEF Tick, EndScan
  <2>2. CASE \E f \in Filters : CheckDeadline(f)
    <3>1. PICK f \in Filters : CheckDeadline(f)
      BY <2>2
    <3>2. f \in scan /\ (unsub' = [unsub EXCEPT ![f] = "uninstall"]
                         \/ unsub' = unsub)
      BY <3>1 DEF CheckDeadline
    <3> QED
      BY <2>0, <3>2
  <2> QED
    BY <2>1, <2>2
<1>5. TypeOK'
  <2>1. scan' \subseteq Filters
    BY <1>2, <1>3 DEF TypeOK
  <2> QED
    BY <1>1, <1>2, <1>3, <1>4, <2>1, Zenon DEF TypeOK
<1>6. ChannelsOK' /\ LoopOK'
  BY <1>1, <1>2, ChannelsKept, LoopKept
<1>7. LifeOK'
  <2>1. DOMAIN filters \subseteq Filters
    BY <1>2 DEF TypeOK
  <2>2. \A g \in DOMAIN filters : unsub'[g] = "none" => g \in index
    BY <1>2, <1>4, <2>1 DEF LifeOK
  <2>3. \A g \in Filters :
           unsub'[g] # "none" => call[g] \in {"created", "uninstalling", "done"}
    BY <1>2, <1>4 DEF LifeOK
  <2> QED
    BY <1>1, <1>2, <1>3, <2>2, <2>3, Zenon DEF LifeOK
<1>8. UninstalledIsSilent'
  BY <1>1, <1>2, <1>4 DEF UninstalledIsSilent
<1>9. DeliveryOK'
  <2>1. ASSUME NEW g \in Filters PROVE Awaits(g)' => Awaits(g)
    BY <1>1, <1>4 DEF Awaits
  <2> QED
    BY <2>1, <1>1, <1>2, SameDelivered, DeliveryKept
<1> QED
  BY <1>5, <1>6, <1>7, <1>8, <1>9 DEF IInv

-----------------------------------------------------------------------------
(* Every step keeps the invariant.                                         *)
LEMMA NextIInv ==
    ASSUME IInv, [Next]_vars
    PROVE  IInv'
<1>1. CASE Publish
  BY <1>1, PublishChainEventIInv, PublishLogsIInv DEF Publish
<1>2. CASE EventLoop
  BY <1>2, TakeChainEventIInv, TakeLogsIInv, SendToRoutineIInv,
     SendToUnsubscribeIInv, InstallIInv, UninstallIInv DEF EventLoop
<1>3. CASE Tick \/ Scan
  BY <1>3, TimeoutIInv, RemoveExpiredIInv DEF Scan
<1>4. ASSUME NEW f \in Filters,
             \/ NewFilter(f) \/ UninstallFilter(f) \/ GetFilterChanges(f)
             \/ Call(f) \/ Routine(f) \/ Expire(f)
      PROVE  IInv'
  BY <1>4, CallIInv, UninstallFilterIInv, GetFilterChangesIInv, RegisterIInv,
     AppendEventIInv, EndRoutineIInv, ExpireIInv DEF Call, Routine
<1>5. CASE UNCHANGED vars
  <2>1. UNCHANGED <<clients, published, publishing, chainCh, logsCh, loop,
                    index, taken, start, call, filters, holder, scan, got,
                    routine, unsub>>
    BY <1>5 DEF vars, publishVars, chanVars, loopVars, apiVars
  <2>2. TypeOK /\ ChannelsOK /\ LoopOK /\ LifeOK /\ UninstalledIsSilent
        /\ DeliveryOK
    BY DEF IInv
  <2>3. TypeOK'
    BY <2>1, <2>2, Zenon DEF TypeOK
  <2>4. ChannelsOK' /\ LoopOK'
    BY <2>1, <2>2, ChannelsKept, LoopKept
  <2>5. LifeOK' /\ UninstalledIsSilent'
    BY <2>1, <2>2, Zenon DEF LifeOK, UninstalledIsSilent
  <2>6. DeliveryOK'
    <3>1. ASSUME NEW g \in Filters PROVE Awaits(g)' => Awaits(g)
      BY <2>1 DEF Awaits
    <3> QED
      BY <3>1, <2>1, <2>2, SameDelivered, DeliveryKept
  <2> QED
    BY <2>3, <2>4, <2>5, <2>6 DEF IInv
<1> QED
  BY <1>1, <1>2, <1>3, <1>4, <1>5 DEF Next

(* The invariant holds in every reachable state.                           *)
LEMMA IInvHolds == Spec => []IInv
<1>1. Init => IInv
  BY InitIInv
<1>2. IInv /\ [Next]_vars => IInv'
  BY NextIInv
<1> QED
  BY <1>1, <1>2, PTL DEF Spec

(* The types hold: in particular no channel holds more than ChanSize       *)
(* events, however slow the event loop is.                                 *)
THEOREM TypeCorrect == Spec => []TypeOK
<1>1. IInv => TypeOK
  BY DEF IInv
<1> QED
  BY <1>1, IInvHolds, PTL

(* After Unsubscribe has returned, eventLoop neither holds nor uses the    *)
(* subscription's channel, whichever of UninstallFilter and timeoutLoop    *)
(* called it.                                                              *)
THEOREM UninstalledIsSilentHolds == Spec => []UninstalledIsSilent
<1>1. IInv => UninstalledIsSilent
  BY DEF IInv
<1> QED
  BY <1>1, IInvHolds, PTL

(* Polling a filter loses, repeats and reorders no event, however          *)
(* publishNewBlock, eventLoop, the goroutines and the polls interleave.    *)
THEOREM NothingLostHolds == Spec => []NothingLost
<1>1. IInv => NothingLost
  <2> SUFFICES ASSUME IInv, NEW f \in DOMAIN filters, unsub[f] = "none"
               PROVE  Ascending(got[f] \o filters[f].events \o InFlight(f),
                                Owed(f))
    BY Zenon DEF NothingLost
  <2>1. f \in Filters
    BY DEF IInv, TypeOK
  <2>2. Awaits(f)
    BY DEF Awaits
  <2>3. Ascending(Delivered(f), Owed(f))
    BY <2>1, <2>2, Zenon DEF IInv, DeliveryOK
  <2>4. Delivered(f) = got[f] \o filters[f].events \o InFlight(f)
    BY Zenon DEF Delivered, Events
  <2> QED
    BY <2>3, <2>4, Zenon
<1> QED
  BY <1>1, IInvHolds, PTL
=============================================================================
