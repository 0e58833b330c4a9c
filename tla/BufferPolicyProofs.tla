------------------------- MODULE BufferPolicyProofs -------------------------
(***************************************************************************)
(* What the calls of a buffer policy do to its counters, for every number  *)
(* of VCs and partitions and all seven policies.  The counters are judged  *)
(* against the sender's occupancies (occ), the VCs with an unfinished      *)
(* packet (open) and those of them that have sent a flit of it (begun).    *)
(***************************************************************************)
EXTENDS BufferPolicy, FoldLemmas

Part(i) == {v \in VC : PrivateMap[v] = i}
HeldBy(q, occ) == [v \in VC |-> occ[v] + q.reserved[v]]
Excesses(a) == [i \in Partition |-> Excess(a[i])]

(* The values max_held_slots can take while 1 to NumVCs VCs are active. *)
LimitsOf(policy) ==
  {IF policy = "limited" THEN HeldSlots ELSE BufSize}
    \cup IF policy \in Limited
         THEN {SlotLimit(policy, [active |-> n, held |-> HeldSlots]) : n \in 1..NumVCs} ELSE {}

Counters(policy) ==
  [private : [Partition -> Nat], shared : Nat, reserved : [VC -> 0..1], active : Nat,
   held : LimitsOf(policy), sent : [VC -> Seq(Nat)], limit : [VC -> Nat \ {0}],
   rtt : [VC -> Int], pending : [VC -> Nat]]

(* Partitions hold what their VCs hold, the shared space what is beyond. *)
Sums(a, s, h) == /\ \A i \in Partition : a[i] = Sum(h, Part(i))
                 /\ s = Sum(Excesses(a), Partition)

(* A slot is reserved for a packet that has begun and holds no slot, and   *)
(* only for an unfinished one.                                             *)
Reserves(q, occ, open, begun) ==
  /\ \A v \in VC : q.reserved[v] = 1 => occ[v] = 0 /\ v \in open
  /\ \A v \in begun : occ[v] = 0 => q.reserved[v] = 1

Accounts(q, occ, open, begun) ==
  /\ Reserves(q, occ, open, begun)
  /\ Sums(q.private, q.shared, HeldBy(q, occ))
  /\ q.shared <= SharedSize

Probes(policy, q, occ) ==
  \A v \in VC :
    /\ policy = "feedback" => Len(q.sent[v]) = occ[v]
    /\ policy = "simplefeedback" =>
         /\ Len(q.sent[v]) <= 1
         /\ q.sent[v] = <<>> => q.pending[v] = 0
         /\ q.sent[v] # <<>> => q.pending[v] < occ[v]

Balanced(policy, q, occ, open, begun) ==
  /\ policy = "private" => q.shared = 0
  /\ q.active = IF policy \in Limited THEN Cardinality(open) ELSE 0
  /\ policy # "private" => Accounts(q, occ, open, begun)
  /\ Probes(policy, q, occ)

-----------------------------------------------------------------------------
(* VCs and partitions are finitely many, as many as configured. *)
LEMMA Finite == IsFiniteSet(VC) /\ IsFiniteSet(Partition)
                /\ Cardinality(VC) = NumVCs /\ Cardinality(Partition) = NumPrivate
<1>1. NumVCs \in Nat /\ NumPrivate \in Nat
  BY SizeAssumption
<1>2. IsFiniteSet(0..NumVCs - 1) /\ Cardinality(0..NumVCs - 1) = NumVCs
  BY <1>1, FS_Interval
<1>3. IsFiniteSet(0..NumPrivate - 1) /\ Cardinality(0..NumPrivate - 1) = NumPrivate
  BY <1>1, FS_Interval
<1>4. QED
  BY <1>2, <1>3 DEF VC, Partition

(* Every VC is in a partition: start_vc and end_vc leave no gap. *)
LEMMA EveryVCInPartition == PrivateMap \in [VC -> Partition]
<1> DEFINE start(i) == (i * NumVCs) \div NumPrivate
<1> SUFFICES ASSUME NEW v \in VC
             PROVE  \E i \in Partition : start(i) <= v /\ v <= start(i + 1) - 1
  BY DEF PrivateMap
<1>1. NumVCs \in Nat \ {0} /\ NumPrivate \in Nat \ {0} /\ v \in Nat /\ v <= NumVCs - 1
  BY SizeAssumption DEF VC
<1>2. \A i \in Nat : start(i) \in Nat
  BY <1>1
<1>3. start(NumPrivate) = NumVCs /\ start(0) = 0
  BY <1>1
<1> DEFINE T == {n \in Nat : v < start(n)}
<1>4. PICK n \in T : \A m \in T : n <= m
  <2>1. T \subseteq Nat /\ NumPrivate \in T
    BY <1>1, <1>3
  <2> HIDE DEF T
  <2>2. QED
    BY <2>1, LeastNatural
<1>5. n \in Nat /\ v < start(n) /\ n # 0 /\ n <= NumPrivate
  BY <1>1, <1>3, <1>4
<1>6. n - 1 \in Partition /\ (n - 1) + 1 = n /\ n - 1 \in Nat
  BY <1>1, <1>5 DEF Partition
<1>7. ~(v < start(n - 1))
  BY <1>4, <1>6
<1> HIDE DEF start
<1>8. start(n - 1) <= v /\ v <= start(n) - 1
  BY <1>1, <1>2, <1>5, <1>6, <1>7
<1>9. QED
  BY <1>6, <1>8

(* The sizes of the buffer and of its divisions are natural numbers. *)
LEMMA BufferSizes == /\ SharedSize \in Nat /\ PrivateSize \in Nat /\ NumPrivate \in Nat /\ BufSize \in Nat
                /\ SharedSize = BufSize - NumPrivate * PrivateSize
BY SizeAssumption DEF SharedSize

(* What a partition holds fits its own slots and its excess. *)
LEMMA ExcessType == \A n \in Int : Excess(n) \in Nat /\ n <= PrivateSize + Excess(n)
BY BufferSizes DEF Excess

(* The sums that the accounts are about exist. *)
LEMMA SumsOfNats ==
  ASSUME NEW h \in [VC -> Nat], NEW a \in [Partition -> Nat]
  PROVE  /\ Summable(h, VC) /\ Sum(h, VC) \in Nat
         /\ \A i : Summable(h, Part(i)) /\ Sum(h, Part(i)) \in Nat
         /\ Summable(Excesses(a), Partition) /\ Sum(Excesses(a), Partition) \in Nat
<1>1. \A i : Part(i) \subseteq VC /\ IsFiniteSet(Part(i))
  BY Finite, FS_Subset DEF Part
<1>2. \A i : Summable(h, Part(i)) /\ Sum(h, Part(i)) \in Nat
  <2> TAKE i
  <2>1. QED
    BY <1>1, SumNat
<1>3. Summable(h, VC) /\ Sum(h, VC) \in Nat
  BY Finite, SumNat
<1>4. \A i \in Partition : Excesses(a)[i] \in Nat
  BY ExcessType DEF Excesses
<1>5. Summable(Excesses(a), Partition) /\ Sum(Excesses(a), Partition) \in Nat
  BY <1>4, Finite, SumNat
<1>6. QED
  BY <1>2, <1>3, <1>5

(* One VC holds more or less: its partition and the shared space follow. *)
LEMMA MoveSlot ==
  ASSUME NEW a \in [Partition -> Nat], NEW s, NEW h \in [VC -> Nat], Sums(a, s, h),
         NEW v \in VC, NEW d \in Int, h[v] + d \in Nat
  PROVE  LET i == PrivateMap[v]
             a2 == [a EXCEPT ![i] = a[i] + d]
             s2 == s + Excess(a[i] + d) - Excess(a[i])
         IN  /\ i \in Partition /\ a[i] + d \in Nat
             /\ a2 \in [Partition -> Nat] /\ s2 \in Nat
             /\ Sums(a2, s2, [h EXCEPT ![v] = h[v] + d])
<1> DEFINE i == PrivateMap[v]
           a2 == [a EXCEPT ![i] = a[i] + d]
           h2 == [h EXCEPT ![v] = h[v] + d]
           s2 == s + Excess(a[i] + d) - Excess(a[i])
<1>1. i \in Partition /\ v \in Part(i) /\ \A j \in Partition : v \in Part(j) => j = i
  BY EveryVCInPartition DEF Part
<1>2. h2 \in [VC -> Nat] /\ h2[v] = h[v] + d /\ \A w \in VC \ {v} : h2[w] = h[w]
  OBVIOUS
<1>3. \A j : Part(j) \subseteq VC
  BY DEF Part
<1>4. h[v] \in Int /\ h2[v] \in Int
  OBVIOUS
<1> HIDE DEF h2, i
<1>5. Sum(h2, Part(i)) = a[i] + d /\ a[i] + d \in Nat
  <2>1. \A w \in Part(i) \ {v} : h2[w] = h[w]
    BY <1>2, <1>3
  <2>2. Summable(h, Part(i)) /\ Sum(h, Part(i)) \in Nat
    BY SumsOfNats
  <2>a. DiffersAt(h, h2, Part(i), v)
    BY <1>1, <1>4, <2>1, <2>2 DEF DiffersAt
  <2>3. Sum(h2, Part(i)) = Sum(h, Part(i)) - h[v] + h2[v]
    BY <2>a, SumChange
  <2>4. a[i] = Sum(h, Part(i))
    BY <1>1 DEF Sums
  <2>5. Sum(h2, Part(i)) \in Nat
    BY <1>2, SumsOfNats
  <2>6. QED
    BY <1>2, <1>4, <2>2, <2>3, <2>4, <2>5
<1>6. a2 \in [Partition -> Nat] /\ a2[i] = a[i] + d /\ \A j \in Partition \ {i} : a2[j] = a[j]
  BY <1>1, <1>5
<1> HIDE DEF a2
<1>7. \A j \in Partition : a2[j] = Sum(h2, Part(j))
  <2> SUFFICES ASSUME NEW j \in Partition, j # i PROVE a2[j] = Sum(h2, Part(j))
    BY <1>5, <1>6
  <2>1. \A w \in Part(j) : h2[w] = h[w]
    BY <1>1, <1>2, <1>3
  <2>2. Summable(h, Part(j))
    BY SumsOfNats
  <2>3. Sum(h2, Part(j)) = Sum(h, Part(j))
    BY <2>1, <2>2, SumEqual
  <2>4. QED
    BY <1>6, <2>3 DEF Sums
<1>8. s2 = Sum(Excesses(a2), Partition) /\ s2 \in Nat
  <2>1. /\ Excesses(a2)[i] = Excess(a[i] + d) /\ Excesses(a)[i] = Excess(a[i])
        /\ Excesses(a2)[i] \in Int /\ Excesses(a)[i] \in Int
        /\ \A j \in Partition \ {i} : Excesses(a2)[j] = Excesses(a)[j]
    BY <1>1, <1>5, <1>6, ExcessType DEF Excesses
  <2>2. Summable(Excesses(a), Partition) /\ Sum(Excesses(a), Partition) \in Nat
    BY SumsOfNats
  <2>3. Sum(Excesses(a2), Partition) \in Nat
    BY <1>6, SumsOfNats
  <2>4. Sum(Excesses(a2), Partition) = Sum(Excesses(a), Partition) - Excesses(a)[i] + Excesses(a2)[i]
    <3>1. DiffersAt(Excesses(a), Excesses(a2), Partition, i)
      BY <1>1, <2>1, <2>2 DEF DiffersAt
    <3>2. QED
      BY <3>1, SumChange
  <2>5. s = Sum(Excesses(a), Partition)
    BY DEF Sums
  <2>6. s2 = Sum(Excesses(a), Partition) + Excesses(a2)[i] - Excesses(a)[i]
    BY <2>1, <2>5
  <2>7. QED
    BY <2>1, <2>2, <2>3, <2>4, <2>6
<1>9. Sums(a2, s2, h2)
  BY <1>7, <1>8 DEF Sums
<1>10. QED
  BY <1>1, <1>5, <1>6, <1>8, <1>9 DEF i, a2, h2

-----------------------------------------------------------------------------
(* The calls of SharedBufferPolicy, on which those of the others build.    *)
SameTimes(r, q) == r.sent = q.sent /\ r.limit = q.limit /\ r.rtt = q.rtt /\ r.pending = q.pending

(* The types of the counters, one by one. *)
LEMMA Fields ==
  ASSUME NEW policy, NEW q \in Counters(policy)
  PROVE  /\ q.private \in [Partition -> Nat] /\ q.shared \in Nat
         /\ q.reserved \in [VC -> 0..1] /\ q.active \in Nat /\ q.held \in LimitsOf(policy)
         /\ q.sent \in [VC -> Seq(Nat)] /\ q.limit \in [VC -> Nat \ {0}]
         /\ q.rtt \in [VC -> Int] /\ q.pending \in [VC -> Nat]
BY DEF Counters

(* A credit for VC v: it has a slot to give back, and has been given up if *)
(* its packet has gone altogether.                                         *)
Credited(occ, open, begun, v, available, empty) ==
  /\ occ \in [VC -> Nat] /\ open \in SUBSET VC /\ begun \in SUBSET open
  /\ v \in VC /\ occ[v] > 0 /\ available \in BOOLEAN
  /\ empty \in BOOLEAN /\ (empty <=> occ[v] = 1)
  /\ empty => (available <=> v \notin open)

(* The counters r that a call of the shared policy has made of q. *)
Kept(policy, r, q, occ, open, begun) ==
  /\ r \in Counters(policy) /\ Accounts(r, occ, open, begun)
  /\ SameTimes(r, q) /\ r.active = q.active /\ r.held = q.held

(* FreeSlotFor frees the slot, or reserves it for an unfinished packet. *)
LEMMA SharedFree ==
  ASSUME NEW policy, NEW q \in Counters(policy), NEW occ, NEW open, NEW begun, NEW v,
         NEW available, NEW empty,
         Accounts(q, occ, open, begun), Credited(occ, open, begun, v, available, empty)
  PROVE  Kept(policy, SharedFreeSlotFor(q, v, available, empty), q,
              [occ EXCEPT ![v] = occ[v] - 1], open, begun)
<1> USE DEF Credited, Kept
<1> DEFINE r == SharedFreeSlotFor(q, v, available, empty)
           occ2 == [occ EXCEPT ![v] = occ[v] - 1]
           h == HeldBy(q, occ)
           i == PrivateMap[v]
<1>1. /\ q.private \in [Partition -> Nat] /\ q.shared \in Nat /\ q.reserved \in [VC -> 0..1]
      /\ Sums(q.private, q.shared, h) /\ q.shared <= SharedSize
      /\ Reserves(q, occ, open, begun)
  BY Fields DEF Accounts
<1>2. q.reserved[v] = 0
  BY <1>1 DEF Reserves
<1>3. /\ occ2 \in [VC -> Nat] /\ occ2[v] = occ[v] - 1 /\ \A w \in VC \ {v} : occ2[w] = occ[w]
  OBVIOUS
<1>4. h \in [VC -> Nat] /\ h[v] = occ[v]
  BY <1>1, <1>2 DEF HeldBy
<1> HIDE DEF h, occ2
<1>5. CASE ~available /\ empty
  <2>1. r = [q EXCEPT !.reserved[v] = q.reserved[v] + 1]
    BY <1>5 DEF SharedFreeSlotFor
  <2>2. /\ r \in Counters(policy) /\ SameTimes(r, q) /\ r.active = q.active /\ r.held = q.held
        /\ r.private = q.private /\ r.shared = q.shared
        /\ r.reserved = [q.reserved EXCEPT ![v] = 1]
    <3>1. r = [q EXCEPT !.reserved = [q.reserved EXCEPT ![v] = 1]]
      BY <1>2, <2>1 DEF Counters
    <3>2. [q.reserved EXCEPT ![v] = 1] \in [VC -> 0..1]
      BY <1>1
    <3> HIDE DEF r
    <3>3. QED
      BY <3>1, <3>2 DEF Counters, SameTimes
  <2>0. occ[v] = 1
    BY <1>5
  <2>3. HeldBy(r, occ2) = h
    BY <1>1, <1>2, <1>3, <2>0, <2>2 DEF HeldBy, h
  <2>4. Reserves(r, occ2, open, begun)
    <3>1. \A w \in VC : r.reserved[w] = IF w = v THEN 1 ELSE q.reserved[w]
      BY <1>1, <2>2
    <3>2. v \in open /\ occ2[v] = 0
      BY <1>3, <1>5
    <3>3. QED
      BY <1>1, <1>3, <3>1, <3>2 DEF Reserves
  <2>5. QED
    BY <1>1, <2>2, <2>3, <2>4 DEF Accounts, occ2
<1>6. CASE ~(~available /\ empty)
  <2>1. r = [q EXCEPT !.private[i] = q.private[i] - 1,
                      !.shared = q.shared - (Excess(q.private[i]) - Excess(q.private[i] - 1))]
    BY <1>6 DEF SharedFreeSlotFor, ProcessFreeSlots
  <2> DEFINE a2 == [q.private EXCEPT ![i] = q.private[i] + (-1)]
             s2 == q.shared + Excess(q.private[i] + (-1)) - Excess(q.private[i])
             h2 == [h EXCEPT ![v] = h[v] + (-1)]
  <2>2. /\ i \in Partition /\ q.private[i] + (-1) \in Nat
        /\ a2 \in [Partition -> Nat] /\ s2 \in Nat /\ Sums(a2, s2, h2)
    <3>1. h[v] + (-1) \in Nat /\ -1 \in Int
      BY <1>4
    <3>2. QED
      BY <1>1, <1>4, <3>1, MoveSlot
  <2>3. q.private[i] \in Nat /\ q.private[i] + (-1) = q.private[i] - 1
    BY <1>1, <2>2
  <2>4. /\ Excess(q.private[i]) \in Nat /\ Excess(q.private[i] - 1) \in Nat
        /\ Excess(q.private[i] - 1) <= Excess(q.private[i])
    BY <2>2, <2>3, ExcessType, BufferSizes DEF Excess
  <2>5. /\ s2 = q.shared - (Excess(q.private[i]) - Excess(q.private[i] - 1))
        /\ s2 <= q.shared
    BY <1>1, <2>3, <2>4
  <2>6. r.private = a2 /\ r.shared = s2
    BY <2>1, <2>3, <2>5 DEF Counters
  <2>7. /\ r.reserved = q.reserved /\ SameTimes(r, q) /\ r.active = q.active /\ r.held = q.held
    BY <2>1 DEF SameTimes, Counters
  <2>8. r \in Counters(policy)
    <3> HIDE DEF a2, s2
    <3>1. r = [q EXCEPT !.private = a2, !.shared = s2]
      BY <2>1, <2>3, <2>5 DEF Counters, a2, s2
    <3>2. QED
      BY <2>2, <3>1 DEF Counters
  <2>9. HeldBy(r, occ2) = h2
    BY <1>1, <1>2, <1>3, <1>4, <2>7 DEF HeldBy, h
  <2>10. Reserves(r, occ2, open, begun)
    BY <1>1, <1>2, <1>3, <1>6, <2>7 DEF Reserves
  <2> HIDE DEF r, a2, s2, h2
  <2>11. Sums(r.private, r.shared, HeldBy(r, occ2)) /\ r.shared <= SharedSize
    BY <1>1, <2>2, <2>5, <2>6, <2>9, BufferSizes
  <2>12. QED
    BY <2>7, <2>8, <2>10, <2>11 DEF Accounts, r, occ2
<1>7. QED
  BY <1>5, <1>6

(* The sender asks IsFullFor before; after the tail nothing is reserved.   *)
Opened(open, v, tail) == IF tail THEN open \ {v} ELSE open
Begun(begun, v, tail) == IF tail THEN begun \ {v} ELSE begun \cup {v}

(* SendingFlit takes the reserved slot or a free one. *)
LEMMA SharedSend ==
  ASSUME NEW policy, NEW q \in Counters(policy), NEW occ \in [VC -> Nat],
         NEW open \in SUBSET VC, NEW begun \in SUBSET open, Accounts(q, occ, open, begun),
         NEW v \in open, NEW tail \in BOOLEAN, ~SharedIsFullFor(q, v)
  PROVE  Kept(policy, SharedSendingFlit(q, v, tail), q,
              [occ EXCEPT ![v] = occ[v] + 1], Opened(open, v, tail), Begun(begun, v, tail))
<1> USE DEF Kept
<1> DEFINE i == PrivateMap[v]
           taken == IF q.reserved[v] > 0
               THEN [q EXCEPT !.reserved[v] = @ - 1]
               ELSE [q EXCEPT !.private[i] = @ + 1,
                              !.shared = IF q.private[i] + 1 > PrivateSize
                                         THEN @ + 1 ELSE @]
           r == SharedSendingFlit(q, v, tail)
           occ2 == [occ EXCEPT ![v] = occ[v] + 1]
           h == HeldBy(q, occ)
<1>1. /\ q.private \in [Partition -> Nat] /\ q.shared \in Nat /\ q.reserved \in [VC -> 0..1]
      /\ Sums(q.private, q.shared, h) /\ q.shared <= SharedSize
      /\ Reserves(q, occ, open, begun) /\ v \in VC
  BY Fields DEF Accounts
<1>2. /\ occ2 \in [VC -> Nat] /\ occ2[v] = occ[v] + 1 /\ \A w \in VC \ {v} : occ2[w] = occ[w]
  BY <1>1
<1>3. h \in [VC -> Nat] /\ h[v] = occ[v] + q.reserved[v]
  BY <1>1 DEF HeldBy
<1>4. i \in Partition
  BY <1>1, EveryVCInPartition
<1> HIDE DEF h, occ2, i
(* The flit takes the reserved slot, or one of the partition or of the shared space. *)
<1>5. /\ taken \in Counters(policy) /\ taken.reserved = [q.reserved EXCEPT ![v] = 0]
      /\ Sums(taken.private, taken.shared, HeldBy(taken, occ2)) /\ taken.shared <= SharedSize
      /\ SameTimes(taken, q) /\ taken.active = q.active /\ taken.held = q.held
  <2>1. CASE q.reserved[v] > 0
    <3>1. q.reserved[v] = 1
      BY <1>1, <2>1
    <3>2. taken = [q EXCEPT !.reserved = [q.reserved EXCEPT ![v] = 0]]
      BY <2>1, <3>1 DEF Counters
    <3>3. [q.reserved EXCEPT ![v] = 0] \in [VC -> 0..1]
      BY <1>1
    <3> HIDE DEF taken
    <3>4. /\ taken \in Counters(policy) /\ taken.reserved = [q.reserved EXCEPT ![v] = 0]
          /\ taken.private = q.private /\ taken.shared = q.shared
          /\ SameTimes(taken, q) /\ taken.active = q.active /\ taken.held = q.held
      BY <3>2, <3>3 DEF Counters, SameTimes
    <3>5. HeldBy(taken, occ2) = h
      BY <1>1, <1>2, <3>1, <3>4 DEF HeldBy, h
    <3>6. QED
      BY <1>1, <3>4, <3>5
  <2>2. CASE ~(q.reserved[v] > 0)
    <3> DEFINE a2 == [q.private EXCEPT ![i] = q.private[i] + 1]
               s2 == q.shared + Excess(q.private[i] + 1) - Excess(q.private[i])
               h2 == [h EXCEPT ![v] = h[v] + 1]
    <3>0. q.reserved[v] = 0 /\ [q.reserved EXCEPT ![v] = 0] = q.reserved
      BY <1>1, <2>2
    <3>1. /\ a2 \in [Partition -> Nat] /\ s2 \in Nat /\ Sums(a2, s2, h2)
      <4>1. h[v] + 1 \in Nat /\ 1 \in Int
        BY <1>3, <1>1
      <4>2. QED
        BY <1>1, <1>3, <4>1, MoveSlot DEF i
    <3>2. q.private[i] \in Nat
      BY <1>1, <1>4
    <3>3. s2 = IF q.private[i] + 1 > PrivateSize THEN q.shared + 1 ELSE q.shared
      BY <1>1, <3>2, BufferSizes DEF Excess
    <3>4. s2 <= SharedSize
      <4>1. q.private[i] < PrivateSize \/ q.shared < SharedSize
        BY <1>1, <3>0, <3>2, BufferSizes DEF SharedIsFullFor, i
      <4>2. QED
        BY <1>1, <3>2, <3>3, <4>1, BufferSizes
    <3>5. taken = [q EXCEPT !.private = a2, !.shared = s2]
      BY <2>2, <3>3 DEF Counters
    <3> HIDE DEF taken, a2, s2
    <3>6. /\ taken \in Counters(policy) /\ taken.reserved = q.reserved
          /\ taken.private = a2 /\ taken.shared = s2
          /\ SameTimes(taken, q) /\ taken.active = q.active /\ taken.held = q.held
      BY <3>1, <3>5 DEF Counters, SameTimes
    <3>7. HeldBy(taken, occ2) = h2
      BY <1>1, <1>2, <1>3, <3>0, <3>6 DEF HeldBy, h
    <3>8. QED
      BY <3>0, <3>1, <3>4, <3>6, <3>7
  <2>3. QED
    BY <2>1, <2>2
<1>6. taken.reserved[v] = 0
  BY <1>1, <1>5
<1>7. r = taken
  <2>1. r = IF tail THEN [ProcessFreeSlots(taken, v, taken.reserved[v]) EXCEPT !.reserved[v] = 0] ELSE taken
    BY DEF SharedSendingFlit, i
  <2> HIDE DEF taken, r
  <2>2. taken.private \in [Partition -> Nat] /\ taken.shared \in Nat /\ taken.reserved \in [VC -> 0..1]
    BY <1>5, Fields
  <2>3. taken.private[i] \in Nat /\ taken.private[i] - 0 = taken.private[i]
    BY <1>4, <2>2
  <2>4. /\ Excess(taken.private[i]) \in Nat
        /\ taken.shared - (Excess(taken.private[i]) - Excess(taken.private[i])) = taken.shared
    BY <2>2, <2>3, ExcessType
  <2>5. ProcessFreeSlots(taken, v, 0) = [taken EXCEPT !.private[i] = taken.private[i], !.shared = taken.shared]
    BY <2>3, <2>4 DEF ProcessFreeSlots, i
  <2>6. ProcessFreeSlots(taken, v, 0) = taken
    <3>1. [taken.private EXCEPT ![i] = taken.private[i]] = taken.private
      BY <2>2
    <3>2. ProcessFreeSlots(taken, v, 0) = [taken EXCEPT !.private = taken.private, !.shared = taken.shared]
      BY <1>5, <2>5, <3>1 DEF Counters
    <3>3. QED
      BY <1>5, <3>2 DEF Counters
  <2>7. [taken EXCEPT !.reserved[v] = 0] = taken
    BY <1>1, <1>5, <1>6 DEF Counters
  <2>8. QED
    BY <1>6, <2>1, <2>6, <2>7
<1>8. Reserves(r, occ2, Opened(open, v, tail), Begun(begun, v, tail))
  <2> HIDE DEF taken, r
  <2>1. \A w \in VC : r.reserved[w] = IF w = v THEN 0 ELSE q.reserved[w]
    BY <1>1, <1>5, <1>7
  <2>2. occ2[v] # 0 /\ occ[v] \in Nat
    BY <1>1, <1>2
  <2>3. QED
    BY <1>1, <1>2, <2>1, <2>2 DEF Reserves, Opened, Begun
<1> HIDE DEF taken, r
<1>9. QED
  BY <1>5, <1>7, <1>8 DEF Accounts, r, occ2

-----------------------------------------------------------------------------
(* What each virtual call preserves.                                       *)

(* A round trip, whatever was measured, leaves a VC at least one slot.     *)
LEMMA LimitPositive ==
  ASSUME NEW r \in Int
  PROVE  ComputeLimit(r) \in Nat \ {0}
BY FeedbackAssumption DEF ComputeLimit, AtLeast

(* The round trip is averaged in integers. *)
LEMMA RTTType ==
  ASSUME NEW policy, NEW q \in Counters(policy), NEW v \in VC, NEW last \in Nat
  PROVE  ComputeRTT(q, v, last) \in Int
<1>1. q.rtt[v] \in Int
  BY Fields
<1>2. 2 ^ AgingScale \in Nat \ {0}
  BY FeedbackAssumption
<1> DEFINE k == 2 ^ AgingScale
<1>3. q.rtt[v] * k + last - q.rtt[v] \in Int
  BY <1>1, <1>2
<1> HIDE DEF k
<1>4. \A n \in Int : n \div k \in Int
  BY <1>2 DEF k
<1>5. QED
  BY <1>1, <1>3, <1>4 DEF ComputeRTT, k

(* A credit, under each policy. *)
LEMMA FreeSlot ==
  ASSUME NEW policy \in Policies, NEW q \in Counters(policy),
         NEW occ, NEW open, NEW begun, NEW v \in VC,
         NEW available, NEW empty,
         Balanced(policy, q, occ, open, begun), Credited(occ, open, begun, v, available, empty)
  PROVE  LET r == PolicyFreeSlotFor(policy, q, v, available, empty)
         IN  /\ r \in Counters(policy) /\ r.held = q.held
             /\ Balanced(policy, r, [occ EXCEPT ![v] = occ[v] - 1], open, begun)
<1> DEFINE r == PolicyFreeSlotFor(policy, q, v, available, empty)
           s == SharedFreeSlotFor(q, v, available, empty)
           occ2 == [occ EXCEPT ![v] = occ[v] - 1]
<1>1. occ2 \in [VC -> Nat] /\ occ2[v] = occ[v] - 1 /\ \A w \in VC \ {v} : occ2[w] = occ[w]
  BY DEF Credited
<1>o. occ \in [VC -> Nat] /\ occ[v] \in Nat /\ occ[v] > 0
  BY DEF Credited
<1>2. policy # "private" => /\ s \in Counters(policy) /\ Accounts(s, occ2, open, begun)
                            /\ SameTimes(s, q) /\ s.active = q.active /\ s.held = q.held
  <2> SUFFICES ASSUME policy # "private"
               PROVE  /\ s \in Counters(policy) /\ Accounts(s, occ2, open, begun)
                      /\ SameTimes(s, q) /\ s.active = q.active /\ s.held = q.held
    OBVIOUS
  <2>1. Accounts(q, occ, open, begun)
    BY DEF Balanced
  <2>2. Kept(policy, s, q, occ2, open, begun)
    BY <2>1, SharedFree
  <2>3. QED
    BY <2>2 DEF Kept
<1> HIDE DEF s, occ2
<1>3. CASE policy = "private"
  <2>1. r = q
    BY <1>3 DEF PolicyFreeSlotFor, Limited
  <2>2. QED
    BY <1>3, <2>1 DEF Balanced, Probes, Limited, occ2
<1>4. CASE policy \in Limited \cup {"shared"}
  <2>1. r = s
    BY <1>4 DEF PolicyFreeSlotFor, Limited, s
  <2> HIDE DEF r
  <2>2. QED
    BY <1>2, <1>4, <2>1 DEF Balanced, Probes, Limited, occ2, r
<1>5. ASSUME policy # "private", policy \notin Limited, NEW x, x \in Counters(policy),
             x.private = s.private, x.shared = s.shared, x.reserved = s.reserved,
             x.active = s.active, x.held = s.held, Probes(policy, x, occ2)
      PROVE  x.held = q.held /\ Balanced(policy, x, occ2, open, begun)
  BY <1>2, <1>5 DEF Balanced, Accounts, Reserves, HeldBy
(* A probe's credit is timed. *)
<1>6. ASSUME policy \in Feedback, q.sent[v] # <<>>
      PROVE  LET x == FeedbackFreeSlotFor(q, v, available, empty)
             IN  /\ x \in Counters(policy) /\ x.sent = [q.sent EXCEPT ![v] = Tail(q.sent[v])]
                 /\ x.pending = q.pending
                 /\ x.private = s.private /\ x.shared = s.shared /\ x.reserved = s.reserved
                 /\ x.active = s.active /\ x.held = s.held
  <2> DEFINE rtt == ComputeRTT(q, v, Head(q.sent[v]))
             x == FeedbackFreeSlotFor(q, v, available, empty)
  <2>1. s \in Counters(policy) /\ SameTimes(s, q)
    BY <1>2, <1>6 DEF Feedback
  <2>2. q.sent \in [VC -> Seq(Nat)] /\ Head(q.sent[v]) \in Nat /\ Tail(q.sent[v]) \in Seq(Nat)
    BY <1>6, Fields
  <2>3. rtt \in Int /\ ComputeLimit(rtt) \in Nat \ {0}
    BY <2>2, RTTType, LimitPositive
  <2> HIDE DEF rtt
  <2>4. x = [s EXCEPT !.sent[v] = Tail(s.sent[v]), !.rtt[v] = rtt, !.limit[v] = ComputeLimit(rtt)]
    BY DEF FeedbackFreeSlotFor, s, rtt
  <2>5. /\ [q.sent EXCEPT ![v] = Tail(q.sent[v])] \in [VC -> Seq(Nat)]
        /\ [q.rtt EXCEPT ![v] = rtt] \in [VC -> Int]
        /\ [q.limit EXCEPT ![v] = ComputeLimit(rtt)] \in [VC -> Nat \ {0}]
    BY <2>2, <2>3, Fields
  <2>6. x = [s EXCEPT !.sent = [q.sent EXCEPT ![v] = Tail(q.sent[v])],
                      !.rtt = [q.rtt EXCEPT ![v] = rtt],
                      !.limit = [q.limit EXCEPT ![v] = ComputeLimit(rtt)]]
    BY <2>1, <2>4 DEF Counters, SameTimes
  <2> HIDE DEF x
  <2>7. /\ x \in Counters(policy) /\ x.sent = [q.sent EXCEPT ![v] = Tail(q.sent[v])]
        /\ x.pending = q.pending
        /\ x.private = s.private /\ x.shared = s.shared /\ x.reserved = s.reserved
        /\ x.active = s.active /\ x.held = s.held
    BY <2>1, <2>5, <2>6 DEF Counters, SameTimes
  <2>8. QED
    BY <2>7 DEF x
<1>7. CASE policy = "feedback"
  <2>1. Len(q.sent[v]) = occ[v] /\ q.sent \in [VC -> Seq(Nat)]
    BY <1>7, Fields DEF Balanced, Probes
  <2>2. q.sent[v] # <<>> /\ Len(Tail(q.sent[v])) = Len(q.sent[v]) - 1
    BY <1>o, <2>1
  <2>3. r = FeedbackFreeSlotFor(q, v, available, empty)
    BY <1>7 DEF PolicyFreeSlotFor, Limited
  <2> HIDE DEF r
  <2>4. /\ r \in Counters(policy) /\ r.sent = [q.sent EXCEPT ![v] = Tail(q.sent[v])]
        /\ r.private = s.private /\ r.shared = s.shared /\ r.reserved = s.reserved
        /\ r.active = s.active /\ r.held = s.held
    BY <1>6, <1>7, <2>2, <2>3 DEF Feedback
  <2>5. Probes(policy, r, occ2)
    BY <1>1, <1>7, <2>1, <2>2, <2>4 DEF Balanced, Probes
  <2>6. QED
    BY <1>5, <1>7, <2>4, <2>5 DEF Limited, r, occ2
<1>8. CASE policy = "simplefeedback" /\ q.sent[v] # <<>> /\ q.pending[v] = 0
  <2>1. Len(q.sent[v]) <= 1 /\ q.sent \in [VC -> Seq(Nat)]
    BY <1>8, Fields DEF Balanced, Probes
  <2>2. Tail(q.sent[v]) = <<>> /\ Len(Tail(q.sent[v])) <= 1
    BY <1>8, <2>1
  <2>3. r = FeedbackFreeSlotFor(q, v, available, empty)
    BY <1>8 DEF PolicyFreeSlotFor, ProbeFreeSlotFor, Limited
  <2> HIDE DEF r
  <2>4. /\ r \in Counters(policy) /\ r.sent = [q.sent EXCEPT ![v] = Tail(q.sent[v])]
        /\ r.pending = q.pending
        /\ r.private = s.private /\ r.shared = s.shared /\ r.reserved = s.reserved
        /\ r.active = s.active /\ r.held = s.held
    BY <1>6, <1>8, <2>3 DEF Feedback
  <2>5. Probes(policy, r, occ2)
    BY <1>o, <1>1, <1>8, <2>1, <2>2, <2>4, SMTT(30) DEF Balanced, Probes
  <2>6. QED
    BY <1>5, <1>8, <2>4, <2>5 DEF Limited, r, occ2
<1>9. CASE policy = "simplefeedback" /\ ~(q.sent[v] # <<>> /\ q.pending[v] = 0)
  <2> DEFINE n == IF q.pending[v] > 0 THEN q.pending[v] - 1 ELSE q.pending[v]
  <2>1. q.pending \in [VC -> Nat] /\ n \in Nat /\ [q.pending EXCEPT ![v] = n] \in [VC -> Nat]
    BY Fields
  <2>2. s \in Counters(policy) /\ SameTimes(s, q)
    BY <1>2, <1>9
  <2>3. r = [s EXCEPT !.pending = [q.pending EXCEPT ![v] = n]]
    BY <1>9, <2>2 DEF PolicyFreeSlotFor, ProbeFreeSlotFor, Limited, Counters, SameTimes, s
  <2> HIDE DEF r, n
  <2>4. /\ r \in Counters(policy) /\ r.sent = q.sent /\ r.pending = [q.pending EXCEPT ![v] = n]
        /\ r.private = s.private /\ r.shared = s.shared /\ r.reserved = s.reserved
        /\ r.active = s.active /\ r.held = s.held
    BY <2>1, <2>2, <2>3 DEF Counters, SameTimes
  <2>5. Probes(policy, r, occ2)
    <3>1. q.sent[v] = <<>> => n = 0
      BY <1>9 DEF Balanced, Probes, n
    <3>2. q.sent[v] # <<>> => n < occ2[v]
      BY <1>o, <1>1, <1>9, <2>1 DEF Balanced, Probes, n
    <3>3. QED
      BY <1>1, <1>9, <2>1, <2>4, <3>1, <3>2 DEF Balanced, Probes
  <2>6. QED
    BY <1>5, <1>9, <2>4, <2>5 DEF Limited, r, occ2
<1>10. QED
  BY <1>3, <1>4, <1>7, <1>8, <1>9 DEF Policies, Limited
(* max_held_slots is recomputed while 1 to NumVCs VCs are active. *)
LEMMA LimitRecomputed ==
  ASSUME NEW policy \in Limited, NEW q, q.held \in LimitsOf(policy), q.active \in 1..NumVCs
  PROVE  SlotLimit(policy, q) \in LimitsOf(policy)
<1>1. CASE policy = "limited"
  BY <1>1 DEF SlotLimit
<1>2. CASE policy # "limited"
  <2> DEFINE x == [active |-> q.active, held |-> HeldSlots]
  <2>1. SlotLimit(policy, q) = SlotLimit(policy, x)
    BY <1>2 DEF SlotLimit, Limited
  <2>2. QED
    BY <2>1 DEF LimitsOf
<1>3. QED
  BY <1>1, <1>2

(* The VCs in use are counted. *)
LEMMA OpenCount ==
  ASSUME NEW open \in SUBSET VC
  PROVE  /\ IsFiniteSet(open) /\ Cardinality(open) \in 0..NumVCs
         /\ \A v \in open : Cardinality(open \ {v}) = Cardinality(open) - 1
         /\ \A v \in VC \ open : /\ Cardinality(open \cup {v}) = Cardinality(open) + 1
                                /\ Cardinality(open) + 1 <= NumVCs
<1>1. IsFiniteSet(VC) /\ Cardinality(VC) = NumVCs
  BY Finite
<1>2. \A s \in SUBSET VC : IsFiniteSet(s) /\ Cardinality(s) \in Nat /\ Cardinality(s) <= NumVCs
  BY <1>1, FS_Subset, FS_CardinalityType
<1>3. \A v \in open : Cardinality(open \ {v}) = Cardinality(open) - 1
  BY <1>2, FS_RemoveElement
<1>4. \A v \in VC \ open : Cardinality(open \cup {v}) = Cardinality(open) + 1
  BY <1>2, FS_AddElement
<1>5. \A v \in VC \ open : open \cup {v} \in SUBSET VC
  OBVIOUS
<1>6. NumVCs \in Nat
  BY SizeAssumption
<1>7. QED
  BY <1>2, <1>3, <1>4, <1>5, <1>6

(* A VC is given to a packet. *)
LEMMA TakeSlots ==
  ASSUME NEW policy \in Policies, NEW q \in Counters(policy),
         NEW occ, NEW open \in SUBSET VC, NEW begun,
         Balanced(policy, q, occ, open, begun), NEW v \in VC \ open
  PROVE  LET r == PolicyTakeBuffer(policy, q)
         IN  r \in Counters(policy) /\ Balanced(policy, r, occ, open \cup {v}, begun)
<1> DEFINE r == PolicyTakeBuffer(policy, q)
           n == q.active + 1
           counted == [q EXCEPT !.active = n]
<1>1. CASE policy \notin Limited
  <2>1. r = q
    BY <1>1 DEF PolicyTakeBuffer
  <2>2. QED
    BY <1>1, <2>1 DEF Balanced, Accounts, Reserves
<1>2. CASE policy \in Limited
  <2>1. q.active = Cardinality(open) /\ Accounts(q, occ, open, begun) /\ Probes(policy, q, occ)
        /\ policy # "private"
    BY <1>2 DEF Balanced, Limited
  <2>2. n = Cardinality(open \cup {v}) /\ n \in 1..NumVCs
    BY <2>1, OpenCount
  <2>3. counted.active = n /\ counted.held = q.held /\ counted \in Counters(policy)
    <3>1. n \in Nat
      BY <2>2
    <3> HIDE DEF n
    <3>2. QED
      BY <3>1 DEF Counters
  <2> HIDE DEF n, counted
  <2>4. SlotLimit(policy, counted) \in LimitsOf(policy)
    BY <1>2, <2>2, <2>3, Fields, LimitRecomputed
  <2>5. r = [counted EXCEPT !.held = SlotLimit(policy, counted)]
    BY <1>2 DEF PolicyTakeBuffer, counted, n
  <2> DEFINE m == SlotLimit(policy, counted)
  <2> HIDE DEF r, m
  <2>6. r = [counted EXCEPT !.held = m] /\ m \in LimitsOf(policy)
    BY <2>4, <2>5 DEF m
  <2>7. /\ r \in Counters(policy) /\ r.active = n
        /\ r.private = counted.private /\ r.shared = counted.shared
        /\ r.reserved = counted.reserved /\ r.sent = counted.sent /\ r.pending = counted.pending
    BY <2>3, <2>6 DEF Counters
  <2>8. /\ r.private = q.private /\ r.shared = q.shared
        /\ r.reserved = q.reserved /\ r.sent = q.sent /\ r.pending = q.pending
    BY <2>7 DEF counted, Counters
  <2>9. Accounts(r, occ, open \cup {v}, begun) /\ Probes(policy, r, occ)
    BY <2>1, <2>8 DEF Accounts, Reserves, HeldBy, Probes
  <2>10. QED
    BY <1>2, <2>2, <2>1, <2>7, <2>9 DEF Balanced, r
<1>3. QED
  BY <1>1, <1>2

(* A flit is sent on a VC that is not full. *)
LEMMA SendSlot ==
  ASSUME NEW policy \in Policies, NEW q \in Counters(policy), NEW occ \in [VC -> Nat],
         NEW open \in SUBSET VC, NEW begun \in SUBSET open, Balanced(policy, q, occ, open, begun),
         NEW v \in open, NEW tail \in BOOLEAN, ~PolicyIsFullFor(policy, q, v, occ[v])
  PROVE  LET r == PolicySendingFlit(policy, q, v, tail, occ[v] + 1)
         IN  /\ r \in Counters(policy)
             /\ Balanced(policy, r, [occ EXCEPT ![v] = occ[v] + 1],
                         Opened(open, v, tail), Begun(begun, v, tail))
<1> DEFINE r == PolicySendingFlit(policy, q, v, tail, occ[v] + 1)
           s == SharedSendingFlit(q, v, tail)
           occ2 == [occ EXCEPT ![v] = occ[v] + 1]
           open2 == Opened(open, v, tail)
           begun2 == Begun(begun, v, tail)
<1>1. occ2 \in [VC -> Nat] /\ occ2[v] = occ[v] + 1 /\ \A w \in VC \ {v} : occ2[w] = occ[w]
  OBVIOUS
<1>o. v \in VC /\ occ[v] \in Nat
  OBVIOUS
<1>2. policy # "private" => /\ s \in Counters(policy) /\ Accounts(s, occ2, open2, begun2)
                            /\ SameTimes(s, q) /\ s.active = q.active /\ s.held = q.held
  <2> SUFFICES ASSUME policy # "private"
               PROVE  /\ s \in Counters(policy) /\ Accounts(s, occ2, open2, begun2)
                      /\ SameTimes(s, q) /\ s.active = q.active /\ s.held = q.held
    OBVIOUS
  <2>1. Accounts(q, occ, open, begun)
    BY DEF Balanced
  <2>2. ~SharedIsFullFor(q, v)
    BY DEF PolicyIsFullFor, LimitedIsFullFor, Policies, Limited, Feedback
  <2>3. Kept(policy, s, q, occ2, open2, begun2)
    BY <2>1, <2>2, SharedSend
  <2>4. QED
    BY <2>3 DEF Kept
<1> HIDE DEF s, occ2, open2, begun2
<1>3. CASE policy = "private"
  <2>1. r = q
    BY <1>3 DEF PolicySendingFlit, Limited
  <2>2. QED
    BY <1>3, <2>1 DEF Balanced, Probes, Limited, occ2, open2, begun2
<1>4. CASE policy = "shared"
  <2>1. r = s
    BY <1>4 DEF PolicySendingFlit, Limited, s
  <2> HIDE DEF r
  <2>2. QED
    BY <1>2, <1>4, <2>1 DEF Balanced, Probes, Limited, occ2, open2, begun2, r
<1>5. CASE policy \in Limited
  <2>1. r = LimitedSendingFlit(policy, q, v, tail)
    BY <1>5 DEF PolicySendingFlit, Limited
  <2>2. /\ s \in Counters(policy) /\ Accounts(s, occ2, open2, begun2)
        /\ s.active = Cardinality(open) /\ s.held = q.held
    BY <1>2, <1>5 DEF Balanced, Limited
  <2> HIDE DEF r
  <2>3. CASE ~tail
    <3>1. r = s /\ open2 = open
      BY <2>1, <2>3 DEF LimitedSendingFlit, s, open2, Opened
    <3>2. QED
      BY <1>5, <2>2, <3>1 DEF Balanced, Probes, Limited, occ2, open2, begun2, r
  <2>4. CASE tail
    <3> DEFINE n == s.active - 1
               done == [s EXCEPT !.active = n]
    <3>1. n = Cardinality(open2) /\ n \in 0..NumVCs
      <4>1. open2 = open \ {v}
        BY <2>4 DEF open2, Opened
      <4>2. Cardinality(open2) = Cardinality(open) - 1
        BY <4>1, OpenCount
      <4>3. open2 \in SUBSET VC
        BY <4>1
      <4>4. Cardinality(open2) \in 0..NumVCs
        BY <4>3, OpenCount
      <4>5. QED
        BY <2>2, <4>2, <4>4
    <3>2. r = IF done.active = 0 THEN done ELSE [done EXCEPT !.held = SlotLimit(policy, done)]
      BY <2>1, <2>4 DEF LimitedSendingFlit, s
    <3>3. /\ done \in Counters(policy) /\ done.active = n
          /\ done.private = s.private /\ done.shared = s.shared /\ done.reserved = s.reserved
      <4>1. n \in Nat
        BY <3>1
      <4> HIDE DEF n
      <4>2. QED
        BY <2>2, <4>1 DEF Counters
    <3> HIDE DEF n, done
    <3>4. /\ r \in Counters(policy) /\ r.active = n
          /\ r.private = s.private /\ r.shared = s.shared /\ r.reserved = s.reserved
      <4>1. CASE n = 0
        BY <3>2, <3>3, <4>1
      <4>2. CASE n # 0
        <5> DEFINE m == SlotLimit(policy, done)
        <5>1. m \in LimitsOf(policy)
          <6>1. done.active \in 1..NumVCs /\ done.held \in LimitsOf(policy)
            BY <3>1, <3>3, <4>2, Fields
          <6>2. QED
            BY <1>5, <6>1, LimitRecomputed
        <5>2. r = [done EXCEPT !.held = m]
          BY <3>2, <3>3, <4>2
        <5> HIDE DEF m
        <5>3. QED
          BY <3>3, <5>1, <5>2 DEF Counters
      <4>3. QED
        BY <4>1, <4>2
    <3>5. Accounts(r, occ2, open2, begun2) /\ Probes(policy, r, occ2)
      BY <1>5, <2>2, <3>4 DEF Accounts, Reserves, HeldBy, Probes, Limited
    <3>6. QED
      BY <1>5, <3>1, <3>4, <3>5 DEF Balanced, Limited, occ2, open2, begun2, r
  <2>5. QED
    BY <2>3, <2>4
<1>6. ASSUME policy # "private", policy \notin Limited, NEW x, x \in Counters(policy),
             x.private = s.private, x.shared = s.shared, x.reserved = s.reserved,
             x.active = s.active, Probes(policy, x, occ2)
      PROVE  Balanced(policy, x, occ2, open2, begun2)
  BY <1>2, <1>6 DEF Balanced, Accounts, Reserves, HeldBy
(* The flit's time of sending is noted. *)
<1>7. ASSUME policy \in Feedback
      PROVE  LET x == FeedbackSendingFlit(q, v, tail)
             IN  /\ x \in Counters(policy) /\ x.sent = [q.sent EXCEPT ![v] = Append(q.sent[v], 0)]
                 /\ x.pending = q.pending
                 /\ x.private = s.private /\ x.shared = s.shared /\ x.reserved = s.reserved
                 /\ x.active = s.active
  <2> DEFINE x == FeedbackSendingFlit(q, v, tail)
             times == [q.sent EXCEPT ![v] = Append(q.sent[v], 0)]
  <2>1. s \in Counters(policy) /\ SameTimes(s, q)
    BY <1>2, <1>7 DEF Feedback
  <2>2. q.sent \in [VC -> Seq(Nat)]
    BY Fields
  <2>3. Append(q.sent[v], 0) \in Seq(Nat)
    BY <1>o, <2>2
  <2>4. times \in [VC -> Seq(Nat)]
    BY <2>2, <2>3
  <2>5. x = [s EXCEPT !.sent = times]
    BY <2>1 DEF FeedbackSendingFlit, s, Counters, SameTimes
  <2> HIDE DEF x, times
  <2>6. /\ x \in Counters(policy) /\ x.sent = times /\ x.pending = q.pending
        /\ x.private = s.private /\ x.shared = s.shared /\ x.reserved = s.reserved
        /\ x.active = s.active
    BY <2>1, <2>4, <2>5 DEF Counters, SameTimes
  <2>7. QED
    BY <2>6 DEF x, times
<1>8. CASE policy = "feedback"
  <2>1. Len(q.sent[v]) = occ[v] /\ q.sent \in [VC -> Seq(Nat)]
    BY <1>8, Fields DEF Balanced, Probes
  <2>2. Len(Append(q.sent[v], 0)) = Len(q.sent[v]) + 1
    BY <1>o, <2>1
  <2>3. r = FeedbackSendingFlit(q, v, tail)
    BY <1>8 DEF PolicySendingFlit, Limited
  <2> HIDE DEF r
  <2>4. /\ r \in Counters(policy) /\ r.sent = [q.sent EXCEPT ![v] = Append(q.sent[v], 0)]
        /\ r.private = s.private /\ r.shared = s.shared /\ r.reserved = s.reserved
        /\ r.active = s.active
    BY <1>7, <1>8, <2>3 DEF Feedback
  <2>5. Probes(policy, r, occ2)
    BY <1>1, <1>8, <2>1, <2>2, <2>4 DEF Balanced, Probes
  <2>6. QED
    BY <1>6, <1>8, <2>4, <2>5 DEF Limited, r, occ2, open2, begun2
<1>9. CASE policy = "simplefeedback" /\ q.sent[v] = <<>>
  <2> DEFINE x == FeedbackSendingFlit(q, v, tail)
             later == [q.pending EXCEPT ![v] = occ[v]]
  <2>1. q.sent \in [VC -> Seq(Nat)] /\ q.pending \in [VC -> Nat] /\ later \in [VC -> Nat]
    BY Fields
  <2>2. Append(q.sent[v], 0) # <<>> /\ Len(Append(q.sent[v], 0)) = 1
    BY <1>9
  <2>3. /\ x \in Counters(policy) /\ x.sent = [q.sent EXCEPT ![v] = Append(q.sent[v], 0)]
        /\ x.pending = q.pending
        /\ x.private = s.private /\ x.shared = s.shared /\ x.reserved = s.reserved
        /\ x.active = s.active
    BY <1>7, <1>9 DEF Feedback
  <2>4. r = [x EXCEPT !.pending[v] = (occ[v] + 1) - 1]
    BY <1>9 DEF PolicySendingFlit, ProbeSendingFlit, Limited
  <2>a. (occ[v] + 1) - 1 = occ[v]
    BY <1>o
  <2> HIDE DEF r, x
  <2>5. r = [x EXCEPT !.pending = later]
    BY <2>3, <2>4, <2>a DEF Counters
  <2> HIDE DEF later
  <2>6. /\ r \in Counters(policy) /\ r.pending = later
        /\ r.sent = [q.sent EXCEPT ![v] = Append(q.sent[v], 0)]
        /\ r.private = s.private /\ r.shared = s.shared /\ r.reserved = s.reserved
        /\ r.active = s.active
    BY <2>1, <2>3, <2>5 DEF Counters
  <2>7. Probes(policy, r, occ2)
    BY <1>o, <1>1, <1>9, <2>1, <2>2, <2>6 DEF Balanced, Probes, later
  <2>8. QED
    BY <1>6, <1>9, <2>6, <2>7 DEF Limited, r, occ2, open2, begun2
<1>10. CASE policy = "simplefeedback" /\ q.sent[v] # <<>>
  <2>1. r = s
    BY <1>10 DEF PolicySendingFlit, ProbeSendingFlit, Limited, s
  <2> HIDE DEF r
  <2>2. s \in Counters(policy) /\ SameTimes(s, q) /\ q.pending \in [VC -> Nat]
    BY <1>2, <1>10, Fields
  <2>3. Probes(policy, r, occ2)
    BY <1>o, <1>1, <1>10, <2>1, <2>2 DEF Balanced, Probes, SameTimes
  <2>4. QED
    BY <1>6, <1>10, <2>1, <2>2, <2>3 DEF Limited, r, occ2, open2, begun2
<1>11. QED
  BY <1>3, <1>4, <1>5, <1>8, <1>9, <1>10 DEF Policies, Limited

(* A cycle passes: only the ages of the probes change. *)
LEMMA OlderSlots ==
  ASSUME NEW policy \in Policies, NEW q \in Counters(policy), NEW occ, NEW open, NEW begun,
         Balanced(policy, q, occ, open, begun)
  PROVE  Older(q) \in Counters(policy) /\ Balanced(policy, Older(q), occ, open, begun)
<1> DEFINE r == Older(q)
           age(x) == [j \in DOMAIN x |-> AtMost(x[j] + 1, MaxAge)]
           older == [w \in VC |-> age(q.sent[w])]
<1>1. q.sent \in [VC -> Seq(Nat)]
  BY Fields
<1>2. \A w \in VC : older[w] \in Seq(Nat) /\ Len(older[w]) = Len(q.sent[w])
  <2> SUFFICES ASSUME NEW w \in VC
               PROVE  older[w] \in Seq(Nat) /\ Len(older[w]) = Len(q.sent[w])
    OBVIOUS
  <2> DEFINE x == q.sent[w]
  <2>1. x \in Seq(Nat) /\ DOMAIN x = 1..Len(x) /\ Len(x) \in Nat
    BY <1>1
  <2>2. \A j \in DOMAIN x : AtMost(x[j] + 1, MaxAge) \in Nat
    BY <2>1, FeedbackAssumption DEF AtMost
  <2>3. age(x) \in [1..Len(x) -> Nat]
    BY <2>1, <2>2
  <2>4. older[w] = age(x)
    OBVIOUS
  <2> HIDE DEF older, age, x
  <2>5. age(x) \in Seq(Nat) /\ Len(age(x)) = Len(x)
    BY <2>1, <2>3, SMTT(30)
  <2>6. QED
    BY <2>4, <2>5 DEF x
<1>3. r = [q EXCEPT !.sent = older]
  BY <1>1 DEF Older
<1>4. older \in [VC -> Seq(Nat)]
  BY <1>2
<1>e. \A w \in VC : older[w] = <<>> <=> q.sent[w] = <<>>
  <2> SUFFICES ASSUME NEW w \in VC PROVE older[w] = <<>> <=> q.sent[w] = <<>>
    OBVIOUS
  <2>1. \A x \in Seq(Nat) : x = <<>> <=> Len(x) = 0
    OBVIOUS
  <2> HIDE DEF older
  <2>2. QED
    BY <1>1, <1>2, <2>1
<1> HIDE DEF r, older
<1>5. /\ r \in Counters(policy) /\ r.sent = older /\ r.pending = q.pending
      /\ r.private = q.private /\ r.shared = q.shared /\ r.reserved = q.reserved
      /\ r.active = q.active
  BY <1>3, <1>4 DEF Counters
<1>6. Probes(policy, r, occ)
  BY <1>2, <1>e, <1>5 DEF Balanced, Probes
<1>7. Balanced(policy, r, occ, open, begun)
  BY <1>5, <1>6 DEF Balanced, Accounts, Reserves, HeldBy
<1>8. QED
  BY <1>5, <1>7 DEF r

-----------------------------------------------------------------------------
(* What the accounts are good for.                                         *)

(* The partitions and the shared space together are the whole buffer. *)
LEMMA WithinBuffer ==
  ASSUME NEW policy, NEW q \in Counters(policy), NEW occ \in [VC -> Nat],
         NEW open, NEW begun, Accounts(q, occ, open, begun)
  PROVE  Sum(occ, VC) <= BufSize
<1> DEFINE a == q.private
           h == HeldBy(q, occ)
           e == Excesses(a)
           k == [i \in Partition |-> PrivateSize]
           u == [i \in Partition |-> PrivateSize + e[i]]
<1>1. a \in [Partition -> Nat] /\ q.shared \in Nat /\ q.reserved \in [VC -> 0..1]
  BY Fields
<1>2. Sums(a, q.shared, h) /\ q.shared <= SharedSize
  BY DEF Accounts
<1>3. h \in [VC -> Nat] /\ \A v \in VC : occ[v] <= h[v]
  BY <1>1 DEF HeldBy
<1>4. e \in [Partition -> Nat] /\ \A i \in Partition : a[i] <= PrivateSize + e[i]
  BY <1>1, ExcessType DEF Excesses
<1>5. \A i \in Partition : k[i] = PrivateSize /\ u[i] = k[i] + e[i] /\ k[i] \in Nat
  BY BufferSizes
<1> HIDE DEF h, e, k, u, a
<1>6. Summable(occ, VC) /\ Summable(h, VC) /\ Summable(e, Partition) /\ Summable(k, Partition)
      /\ Summable(a, Partition)
  BY <1>1, <1>3, <1>4, <1>5, Finite, SumNat
<1>7. Sum(occ, VC) <= Sum(h, VC)
  BY <1>3, <1>6, SumAtMost
<1>8. Sum(a, Partition) = Sum(h, VC)
  <2>1. \A i \in Partition : a[i] = Sum(h, {v \in VC : PrivateMap[v] = i})
    BY <1>2 DEF Sums, Part
  <2>2. SumsOfParts(h, VC, Partition, PrivateMap, a)
    BY <1>6, <2>1, EveryVCInPartition, Finite DEF SumsOfParts
  <2>3. QED
    BY <2>2, SumByParts
<1>9. Summable(u, Partition) /\ Sum(u, Partition) = Sum(k, Partition) + Sum(e, Partition)
  BY <1>5, <1>6, SumAdd
<1>10. Sum(k, Partition) = NumPrivate * PrivateSize
  <2>1. Sum(k, Partition) = Cardinality(Partition) * PrivateSize
    <3>1. PrivateSize \in Int
      BY BufferSizes
    <3>2. QED
      BY <1>5, <1>6, <3>1, SumConstant
  <2>2. QED
    BY <2>1, Finite
<1>11. Sum(a, Partition) <= Sum(u, Partition)
  <2>1. \A i \in Partition : a[i] <= u[i]
    BY <1>4, <1>5
  <2>2. QED
    BY <1>6, <1>9, <2>1, SumAtMost
<1>12. q.shared = Sum(e, Partition)
  BY <1>2 DEF Sums, e
<1>13. /\ Sum(occ, VC) \in Int /\ Sum(h, VC) \in Int /\ NumPrivate * PrivateSize \in Int
  BY <1>6, SumType, BufferSizes
<1>14. QED
  BY <1>1, <1>2, <1>7, <1>8, <1>9, <1>10, <1>11, <1>12, <1>13, BufferSizes

(* A packet that has begun, and holds no slot, is given one. *)
LEMMA StartedNotFull ==
  ASSUME NEW policy \in Policies, NEW q \in Counters(policy), NEW occ, NEW open, NEW begun,
         Balanced(policy, q, occ, open, begun), NEW v \in begun, v \in VC, occ[v] = 0,
         LimitsOf(policy) \subseteq Nat \ {0}, policy = "private" => VcBufSize > 0
  PROVE  ~PolicyIsFullFor(policy, q, v, occ[v])
<1>1. policy # "private" => ~SharedIsFullFor(q, v)
  BY DEF Balanced, Accounts, Reserves, SharedIsFullFor
<1>2. CASE policy = "private"
  <2>1. VcBufSize \in Int
    BY SizeAssumption DEF VcBufSize
  <2>2. QED
    BY <1>2, <2>1 DEF PolicyIsFullFor, Limited, Feedback
<1>3. CASE policy = "shared"
  BY <1>1, <1>3 DEF PolicyIsFullFor, Limited, Feedback
<1>4. CASE policy \in Limited
  <2>1. q.held \in Nat \ {0}
    BY Fields
  <2>2. PolicyIsFullFor(policy, q, v, occ[v]) <=> LimitedIsFullFor(q, v, occ[v])
    BY <1>4 DEF PolicyIsFullFor, Limited, Feedback
  <2>3. QED
    BY <1>1, <1>4, <2>1, <2>2 DEF LimitedIsFullFor, Limited
<1>5. CASE policy \in Feedback
  <2>1. ComputeMaxSlots(q, v) \in Nat \ {0}
    <3>1. q.limit[v] \in Nat \ {0} /\ q.sent[v] \in Seq(Nat)
      BY Fields
    <3>2. CASE q.sent[v] = <<>>
      BY <3>1, <3>2 DEF ComputeMaxSlots
    <3>3. CASE q.sent[v] # <<>>
      <4> DEFINE n == ComputeLimit(ComputeRTT(q, v, Head(q.sent[v])))
      <4>1. Head(q.sent[v]) \in Nat
        BY <3>1, <3>3
      <4>2. ComputeRTT(q, v, Head(q.sent[v])) \in Int
        BY <4>1, RTTType
      <4>3. n \in Nat \ {0}
        BY <4>2, LimitPositive
      <4>4. ComputeMaxSlots(q, v) = AtMost(q.limit[v], n)
        BY <3>3 DEF ComputeMaxSlots
      <4> HIDE DEF n
      <4>5. QED
        BY <3>1, <4>3, <4>4 DEF AtMost
    <3>4. QED
      BY <3>2, <3>3
  <2>2. PolicyIsFullFor(policy, q, v, occ[v])
          <=> (SharedIsFullFor(q, v) \/ occ[v] >= ComputeMaxSlots(q, v))
    BY <1>5 DEF PolicyIsFullFor, Limited, Feedback
  <2>3. policy # "private"
    BY <1>5 DEF Feedback
  <2>4. QED
    BY <1>1, <2>1, <2>2, <2>3
<1>6. QED
  BY <1>2, <1>3, <1>4, <1>5 DEF Policies, Limited, Feedback

(* The counters of an empty buffer. *)
LEMMA StartsBalanced ==
  ASSUME NEW policy \in Policies
  PROVE  /\ Empty(policy) \in Counters(policy)
         /\ Balanced(policy, Empty(policy), [v \in VC |-> 0], {}, {})
<1> DEFINE q == Empty(policy)
           occ == [v \in VC |-> 0]
           a == [i \in Partition |-> 0]
<1>1. /\ q.private = a /\ q.shared = 0 /\ q.reserved = [v \in VC |-> 0] /\ q.active = 0
      /\ q.sent = [v \in VC |-> <<>>] /\ q.pending = [v \in VC |-> 0]
  BY DEF Empty
<1>2. q \in Counters(policy)
  <2>1. BufSize \in Nat \ {0}
    BY SizeAssumption
  <2>2. (IF policy = "limited" THEN HeldSlots ELSE BufSize) \in LimitsOf(policy)
    BY DEF LimitsOf
  <2>3. <<>> \in Seq(Nat)
    OBVIOUS
  <2>4. QED
    BY <2>1, <2>2, <2>3 DEF Empty, Counters
<1>3. Sums(a, 0, HeldBy(q, occ))
  <2> DEFINE h == HeldBy(q, occ)
  <2>1. h = occ
    BY <1>1 DEF HeldBy
  <2> HIDE DEF q
  <2>2. \A i \in Partition : a[i] = Sum(occ, Part(i))
    <3> SUFFICES ASSUME NEW i \in Partition PROVE Sum(occ, Part(i)) = 0
      OBVIOUS
    <3>1. \A v \in Part(i) : occ[v] = 0
      BY DEF Part
    <3>a. occ \in [VC -> Nat] /\ a \in [Partition -> Nat]
      OBVIOUS
    <3>2. Summable(occ, Part(i)) /\ IsFiniteSet(Part(i))
      BY <3>a, SumsOfNats DEF Summable
    <3> HIDE DEF occ
    <3>3. Sum(occ, Part(i)) = Cardinality(Part(i)) * 0
      BY <3>1, <3>2, SumConstant
    <3>4. QED
      BY <3>2, <3>3, FS_CardinalityType
  <2>3. Sum(Excesses(a), Partition) = 0
    <3>1. \A i \in Partition : Excesses(a)[i] = 0
      BY BufferSizes DEF Excesses, Excess
    <3>a. occ \in [VC -> Nat] /\ a \in [Partition -> Nat]
      OBVIOUS
    <3>2. Summable(Excesses(a), Partition)
      BY <3>a, SumsOfNats
    <3> HIDE DEF a
    <3>3. Sum(Excesses(a), Partition) = Cardinality(Partition) * 0
      BY <3>1, <3>2, SumConstant
    <3>4. QED
      BY <3>3, Finite, FS_CardinalityType
  <2>4. QED
    BY <2>1, <2>2, <2>3 DEF Sums
<1>4. Cardinality({}) = 0
  BY FS_EmptySet
<1>5. Accounts(q, occ, {}, {})
  BY <1>1, <1>3, BufferSizes DEF Accounts, Reserves
<1>6. Probes(policy, q, occ)
  BY <1>1 DEF Probes
<1> HIDE DEF q, occ
<1>7. Balanced(policy, q, occ, {}, {})
  BY <1>1, <1>4, <1>5, <1>6 DEF Balanced
<1>8. QED
  BY <1>2, <1>7 DEF q, occ
=============================================================================
