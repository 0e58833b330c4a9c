----------------------------- MODULE LinkProofs -----------------------------
(***************************************************************************)
(* Theorems about one hop, for every number of VCs, buffer size, buffer    *)
(* policy, channel latency and setting of wait_for_tail_credit: the types  *)
(* are respected, no credit is ever lost or returned twice, and no error   *)
(* is ever reported for a virtual channel.  Then those that concern the    *)
(* whole buffer, under all seven policies: the counters of a policy are    *)
(* what the occupancies make them, the buffer does not overflow, every     *)
(* timed credit is a probe's, and a packet that has started is never shut  *)
(* out.  Last those about the order of flits: packets are not interleaved  *)
(* on a VC, and the hop implements one bounded queue per VC.               *)
(***************************************************************************)
EXTENDS Link, BufferPolicyProofs, SequenceTheorems

-----------------------------------------------------------------------------
(* Counting the items of a channel's queue.                                *)

(* The counted positions are finitely many, so a count is a natural number. *)
LEMMA CountType ==
  ASSUME NEW E, NEW q \in Seq(E), NEW S
  PROVE  CountItems(q, S) \in Nat
<1>1. DOMAIN q = 1..Len(q) /\ Len(q) \in Nat
  OBVIOUS
<1>2. IsFiniteSet(1..Len(q))
  BY <1>1, FS_Interval
<1>3. IsFiniteSet({i \in DOMAIN q : q[i].item \in S})
  BY <1>1, <1>2, FS_Subset
<1>4. QED
  BY <1>3, FS_CardinalityType DEF CountItems

(* ReadInputs appends one entry: the count grows by that entry. *)
LEMMA CountAppend ==
  ASSUME NEW E, NEW q \in Seq(E), NEW e \in E, NEW S
  PROVE  CountItems(Append(q, e), S) = CountItems(q, S) + CountOne(e.item, S)
<1> DEFINE old == {i \in DOMAIN q : q[i].item \in S}
           new == {i \in DOMAIN Append(q, e) : Append(q, e)[i].item \in S}
           n   == Len(q) + 1
<1>1. DOMAIN q = 1..Len(q) /\ Len(q) \in Nat
  OBVIOUS
<1>2. DOMAIN Append(q, e) = 1..n
  OBVIOUS
<1>3. \A i \in 1..Len(q) : Append(q, e)[i] = q[i]
  OBVIOUS
<1>4. Append(q, e)[n] = e
  OBVIOUS
<1>5. IsFiniteSet(old)
  <2>1. IsFiniteSet(1..Len(q))
    BY <1>1, FS_Interval
  <2>2. QED
    BY <1>1, <2>1, FS_Subset
<1>6. n \notin old
  BY <1>1
<1>a. CountItems(q, S) = Cardinality(old) /\ CountItems(Append(q, e), S) = Cardinality(new)
  BY DEF CountItems
<1>7. CASE e.item \in S
  <2>1. new = old \cup {n}
    BY <1>1, <1>2, <1>3, <1>4, <1>7
  <2>2. Cardinality(old \cup {n}) = Cardinality(old) + 1
    BY <1>5, <1>6, FS_AddElement
  <2> HIDE DEF old, new
  <2>3. QED
    BY <2>1, <2>2, <1>a, <1>7 DEF CountOne
<1>8. CASE e.item \notin S
  <2>1. new = old
    BY <1>1, <1>2, <1>3, <1>4, <1>8
  <2>2. Cardinality(old) \in Nat
    BY <1>5, FS_CardinalityType
  <2> HIDE DEF old, new
  <2>3. QED
    BY <2>1, <2>2, <1>a, <1>8 DEF CountOne
<1>9. QED
  BY <1>7, <1>8

(* WriteOutputs delivers the front entry: the rest counts that much less. *)
LEMMA CountTail ==
  ASSUME NEW E, NEW q \in Seq(E), q # <<>>, NEW S
  PROVE  CountItems(q, S) = CountItems(Tail(q), S) + CountOne(Head(q).item, S)
<1> DEFINE all  == {i \in DOMAIN q : q[i].item \in S}
           rest == {i \in DOMAIN Tail(q) : Tail(q)[i].item \in S}
           late == all \ {1}
           up   == [i \in rest |-> i + 1]
<1>1. Len(q) \in Nat \ {0} /\ DOMAIN q = 1..Len(q) /\ Head(q) = q[1]
  OBVIOUS
<1>2. DOMAIN Tail(q) = 1..(Len(q) - 1)
  BY <1>1
<1>3. \A i \in 1..(Len(q) - 1) : Tail(q)[i] = q[i + 1]
  BY <1>1
<1>4. IsFiniteSet(all) /\ IsFiniteSet(rest) /\ IsFiniteSet(late)
  <2>1. IsFiniteSet(1..Len(q)) /\ IsFiniteSet(1..(Len(q) - 1))
    BY <1>1, FS_Interval
  <2>2. all \subseteq 1..Len(q) /\ rest \subseteq 1..(Len(q) - 1) /\ late \subseteq 1..Len(q)
    BY <1>1, <1>2
  <2>3. QED
    BY <2>1, <2>2, FS_Subset
<1>5. up \in Bijection(rest, late)
  <2>1. \A i \in rest : i + 1 \in late
    BY <1>1, <1>2, <1>3
  <2>a. up \in [rest -> late]
    BY <2>1
  <2>2. \A j \in late : \E i \in rest : i + 1 = j
    <3> SUFFICES ASSUME NEW j \in late PROVE \E i \in rest : i + 1 = j
      OBVIOUS
    <3>1. j - 1 \in 1..(Len(q) - 1) /\ (j - 1) + 1 = j
      BY <1>1
    <3>2. j - 1 \in rest
      BY <3>1, <1>2, <1>3
    <3>3. QED
      BY <3>1, <3>2
  <2>3. \A i, j \in rest : i + 1 = j + 1 => i = j
    BY <1>2
  <2>4. QED
    BY <2>a, <2>2, <2>3 DEF Bijection, Injection, Surjection, IsInjective
<1>6. Cardinality(rest) = Cardinality(late) /\ Cardinality(late) \in Nat
  <2> HIDE DEF rest, late, up
  <2>1. ExistsBijection(rest, late)
    BY <1>5 DEF ExistsBijection
  <2>2. Cardinality(rest) = Cardinality(late)
    BY <1>4, <2>1, FS_Bijection
  <2>3. Cardinality(late) \in Nat
    BY <1>4, FS_CardinalityType
  <2>4. QED
    BY <2>2, <2>3
<1>a. CountItems(q, S) = Cardinality(all) /\ CountItems(Tail(q), S) = Cardinality(rest)
  BY DEF CountItems
<1>7. CASE Head(q).item \in S
  <2>1. 1 \in all
    BY <1>1, <1>7
  <2>2. Cardinality(late) = Cardinality(all) - 1
    BY <2>1, <1>4, FS_RemoveElement
  <2>3. Cardinality(all) \in Nat
    BY <1>4, FS_CardinalityType
  <2> HIDE DEF all, rest, late
  <2>4. QED
    BY <2>2, <2>3, <1>6, <1>a, <1>7 DEF CountOne
<1>8. CASE Head(q).item \notin S
  <2>1. late = all
    BY <1>1, <1>8
  <2> HIDE DEF all, rest, late
  <2>2. QED
    BY <2>1, <1>6, <1>a, <1>8 DEF CountOne
<1>9. QED
  BY <1>7, <1>8

Aged(q) == [i \in DOMAIN q |-> [q[i] EXCEPT !.due = @ - 1]]

(* Ageing changes the times of the entries, not their items. *)
LEMMA CountAge ==
  ASSUME NEW I, NEW q \in Seq([due : Int, item : I])
  PROVE  /\ Aged(q) \in Seq([due : Int, item : I])
         /\ DOMAIN Aged(q) = DOMAIN q
         /\ \A i \in DOMAIN q : Aged(q)[i].due = q[i].due - 1
         /\ \A S : CountItems(Aged(q), S) = CountItems(q, S)
<1> DEFINE E == [due : Int, item : I]
           a == Aged(q)
<1>1. DOMAIN q = 1..Len(q) /\ Len(q) \in Nat
  OBVIOUS
<1>2. \A i \in DOMAIN q : q[i] \in E
  <2>1. q \in Seq(E)
    OBVIOUS
  <2> HIDE DEF E
  <2>2. QED
    BY <2>1
<1>3. \A i \in DOMAIN q : a[i] \in E /\ a[i].item = q[i].item /\ a[i].due = q[i].due - 1
  BY <1>2 DEF Aged
<1>4. a \in Seq(E) /\ DOMAIN a = DOMAIN q
  <2>1. a \in [1..Len(q) -> E] /\ DOMAIN a = DOMAIN q
    BY <1>1, <1>3 DEF Aged
  <2> HIDE DEF E, a
  <2>2. a \in Seq(E)
    BY <1>1, <2>1, SeqDef, SMTT(30)
  <2>3. QED
    BY <2>1, <2>2
<1>5. \A S : {i \in DOMAIN a : a[i].item \in S} = {i \in DOMAIN q : q[i].item \in S}
  BY <1>3, <1>4
<1>6. QED
  BY <1>3, <1>4, <1>5 DEF CountItems

-----------------------------------------------------------------------------
(* The two steps of a channel, whatever it carries.                        *)

Timely(q, last) == /\ \A i \in DOMAIN q : q[i].due \in 0..last
                   /\ \A i, j \in DOMAIN q : i < j => q[i].due < q[j].due

Sent(q, d, in) == Append(q, [due |-> d - 1, item |-> in])

(* ReadInputs loses nothing, and the new entry is the last to be due. *)
LEMMA ReadSent ==
  ASSUME NEW I, NEW d \in Nat \ {0},
         NEW q \in Seq([due : Int, item : I]), NEW in \in I, Timely(q, d - 2)
  PROVE  /\ Sent(q, d, in) \in Seq([due : Int, item : I])
         /\ Timely(Sent(q, d, in), d - 1)
<1> DEFINE E == [due : Int, item : I]
           e == [due |-> d - 1, item |-> in]
<1>1. q \in Seq(E) /\ e \in E /\ e.item = in /\ e.due = d - 1
  OBVIOUS
<1> HIDE DEF E, e
<1>2. /\ Append(q, e) \in Seq(E) /\ DOMAIN q = 1..Len(q) /\ Len(q) \in Nat
      /\ DOMAIN Append(q, e) = 1..(Len(q) + 1)
      /\ \A i \in 1..Len(q) : Append(q, e)[i] = q[i]
      /\ Append(q, e)[Len(q) + 1] = e
  BY <1>1
<1>3. Timely(Append(q, e), d - 1)
  BY <1>1, <1>2, SMTT(30) DEF Timely
<1>4. QED
  BY <1>2, <1>3 DEF E, e, Sent

LEMMA CountSent ==
  ASSUME NEW I, NEW d \in Nat, NEW q \in Seq([due : Int, item : I]), NEW in \in I, NEW S
  PROVE  CountItems(Sent(q, d, in), S) = CountItems(q, S) + CountOne(in, S)
<1> DEFINE E == [due : Int, item : I]
           e == [due |-> d - 1, item |-> in]
<1>1. q \in Seq(E) /\ e \in E /\ e.item = in
  OBVIOUS
<1> HIDE DEF E, e
<1>2. CountItems(Append(q, e), S) = CountItems(q, S) + CountOne(in, S)
  BY <1>1, CountAppend
<1>3. QED
  BY <1>2 DEF e, Sent

(* When nothing was sent, ReadInputs leaves the queue alone. *)
LEMMA ReadNothing ==
  ASSUME NEW I, NEW none, none \notin I, NEW d \in Nat \ {0},
         NEW q \in Seq([due : Int, item : I]), Timely(q, d - 2)
  PROVE  /\ Timely(q, d - 1)
         /\ \A S \in SUBSET I : CountItems(q, S) = CountItems(q, S) + CountOne(none, S)
<1> DEFINE E == [due : Int, item : I]
<1>1. \A S : CountItems(q, S) \in Nat
  <2>1. q \in Seq(E)
    OBVIOUS
  <2> HIDE DEF E
  <2>2. QED
    BY <2>1, CountType
<1>2. \A S \in SUBSET I : CountOne(none, S) = 0
  BY DEF CountOne
<1>3. \A S \in SUBSET I : CountItems(q, S) = CountItems(q, S) + CountOne(none, S)
  BY <1>1, <1>2
<1>4. QED
  BY <1>3 DEF Timely

(* Without its front entry a timely queue is one cycle ahead. *)
LEMMA TailTimely ==
  ASSUME NEW E, NEW q \in Seq(E), q # <<>>, NEW d \in Nat, Timely(q, d)
  PROVE  /\ \A i \in DOMAIN Tail(q) : Tail(q)[i].due \in 1..d
         /\ \A i, j \in DOMAIN Tail(q) : i < j => Tail(q)[i].due < Tail(q)[j].due
<1>1. /\ DOMAIN q = 1..Len(q) /\ Len(q) \in Nat \ {0} /\ 1 \in DOMAIN q
      /\ DOMAIN Tail(q) = 1..(Len(q) - 1)
      /\ \A i \in 1..(Len(q) - 1) : Tail(q)[i] = q[i + 1]
  OBVIOUS
<1>2. \A i \in DOMAIN Tail(q) : i + 1 \in DOMAIN q /\ 1 < i + 1 /\ Tail(q)[i] = q[i + 1]
  BY <1>1
<1>3. \A i \in DOMAIN Tail(q) : Tail(q)[i].due \in 1..d
  <2> SUFFICES ASSUME NEW i \in DOMAIN Tail(q) PROVE Tail(q)[i].due \in 1..d
    OBVIOUS
  <2>1. q[1].due \in 0..d /\ q[i + 1].due \in 0..d /\ q[1].due < q[i + 1].due
    BY <1>1, <1>2 DEF Timely
  <2>2. QED
    BY <1>2, <2>1
<1>4. \A i, j \in DOMAIN Tail(q) : i < j => Tail(q)[i].due < Tail(q)[j].due
  <2> SUFFICES ASSUME NEW i \in DOMAIN Tail(q), NEW j \in DOMAIN Tail(q), i < j
               PROVE  Tail(q)[i].due < Tail(q)[j].due
    OBVIOUS
  <2>1. i + 1 < j + 1
    BY <1>1
  <2>2. q[i + 1].due < q[j + 1].due
    BY <1>2, <2>1 DEF Timely
  <2>3. QED
    BY <1>2, <2>2
<1>5. QED
  BY <1>3, <1>4

(* A timely queue whose front is not due has nothing due. *)
LEMMA NothingDue ==
  ASSUME NEW E, NEW q \in Seq(E), NEW d \in Nat, Timely(q, d),
         q # <<>> => ~(Head(q).due <= 0)
  PROVE  \A i \in DOMAIN q : q[i].due \in 1..d
<1> SUFFICES ASSUME NEW i \in DOMAIN q PROVE q[i].due \in 1..d
  OBVIOUS
<1>1. q # <<>> /\ Head(q) = q[1] /\ 1 \in DOMAIN q /\ DOMAIN q = 1..Len(q)
  OBVIOUS
<1>2. q[1].due \in 0..d /\ q[i].due \in 0..d
  BY <1>1 DEF Timely
<1>3. i = 1 \/ q[1].due < q[i].due
  BY <1>1 DEF Timely
<1>4. QED
  BY <1>1, <1>2, <1>3

(* A cycle passes for a queue in which nothing is due any more. *)
LEMMA AgedTimely ==
  ASSUME NEW I, NEW q \in Seq([due : Int, item : I]), NEW d \in Nat \ {0},
         \A i \in DOMAIN q : q[i].due \in 1..(d - 1),
         \A i, j \in DOMAIN q : i < j => q[i].due < q[j].due
  PROVE  Timely(Aged(q), d - 2)
<1>1. /\ DOMAIN Aged(q) = DOMAIN q
      /\ \A i \in DOMAIN q : Aged(q)[i].due = q[i].due - 1
  BY CountAge
<1>2. \A i \in DOMAIN q : Aged(q)[i].due \in 0..(d - 2)
  BY <1>1, SMTT(30)
<1>3. \A i, j \in DOMAIN q : i < j => Aged(q)[i].due < Aged(q)[j].due
  <2> SUFFICES ASSUME NEW i \in DOMAIN q, NEW j \in DOMAIN q, i < j
               PROVE  Aged(q)[i].due < Aged(q)[j].due
    OBVIOUS
  <2>1. q[i].due < q[j].due /\ q[i].due \in Int /\ q[j].due \in Int
    OBVIOUS
  <2>2. QED
    BY <1>1, <2>1
<1>4. QED
  BY <1>1, <1>2, <1>3 DEF Timely

(* WriteOutputs loses nothing: the entry that leaves is shown to the reader. *)
LEMMA WriteArrived ==
  ASSUME NEW I, NEW d \in Nat \ {0},
         NEW q \in Seq([due : Int, item : I]), Timely(q, d - 1), q # <<>>
  PROVE  /\ Aged(Tail(q)) \in Seq([due : Int, item : I])
         /\ Head(q).item \in I
         /\ Timely(Aged(Tail(q)), d - 2)
         /\ \A S : CountItems(Aged(Tail(q)), S) + CountOne(Head(q).item, S) = CountItems(q, S)
<1> DEFINE E == [due : Int, item : I]
<1>1. q \in Seq(E) /\ d - 1 \in Nat
  OBVIOUS
<1>2. Tail(q) \in Seq(E) /\ Head(q) \in E
  <2> HIDE DEF E
  <2>1. QED
    BY <1>1
<1>3. Aged(Tail(q)) \in Seq(E) /\ \A S : CountItems(Aged(Tail(q)), S) = CountItems(Tail(q), S)
  BY <1>2, CountAge
<1>4. \A S : CountItems(q, S) = CountItems(Tail(q), S) + CountOne(Head(q).item, S)
  <2> HIDE DEF E
  <2>1. QED
    BY <1>1, CountTail
<1>5. /\ \A i \in DOMAIN Tail(q) : Tail(q)[i].due \in 1..(d - 1)
      /\ \A i, j \in DOMAIN Tail(q) : i < j => Tail(q)[i].due < Tail(q)[j].due
  <2> HIDE DEF E
  <2>1. QED
    BY <1>1, TailTimely
<1>6. Timely(Aged(Tail(q)), d - 2)
  BY <1>2, <1>5, AgedTimely
<1>7. QED
  BY <1>2, <1>3, <1>4, <1>6

(* When nothing is due, WriteOutputs only lets the cycle pass. *)
LEMMA WriteIdle ==
  ASSUME NEW I, NEW d \in Nat \ {0},
         NEW q \in Seq([due : Int, item : I]), Timely(q, d - 1),
         q # <<>> => ~(Head(q).due <= 0)
  PROVE  /\ Aged(q) \in Seq([due : Int, item : I])
         /\ Timely(Aged(q), d - 2)
         /\ \A S : CountItems(Aged(q), S) = CountItems(q, S)
<1> DEFINE E == [due : Int, item : I]
<1>1. q \in Seq(E) /\ d - 1 \in Nat
  OBVIOUS
<1>2. \A i \in DOMAIN q : q[i].due \in 1..(d - 1)
  <2> HIDE DEF E
  <2>1. QED
    BY <1>1, NothingDue
<1>3. \A i, j \in DOMAIN q : i < j => q[i].due < q[j].due
  BY DEF Timely
<1>4. Timely(Aged(q), d - 2)
  BY <1>2, <1>3, AgedTimely
<1>5. QED
  BY <1>4, CountAge

-----------------------------------------------------------------------------
(* The inductive invariant: types, conservation and absence of errors      *)
(* support each other.  Conservation alone does not survive a step, as a   *)
(* credit that is in two places or a flit found too late would break it,   *)
(* and an occupancy is above zero because the credit that lowers it was    *)
(* counted in it.                                                          *)

IInv == TypeOK /\ CreditConservation /\ NoVCError

USE DEF Flits!Entry, Credits!Entry

(* Abbreviations for what CreditConservation counts. *)
FlitCount(v)   == CountChannel(fIn, fWait, fOut, FlitsFor(v))
CreditCount(v) == CountChannel(cIn, cWait, cOut, CreditsFor(v))

LEMMA Sizes == VcBufSize \in Nat /\ FlitDelay \in Nat \ {0} /\ CreditDelay \in Nat \ {0}
BY SizeAssumption, LinkAssumption DEF VcBufSize

LEMMA CountTypes ==
  ASSUME TypeOK, NEW v \in VC
  PROVE  /\ FlitCount(v) \in Nat /\ CreditCount(v) \in Nat
         /\ CountItems(fWait, FlitsFor(v)) \in Nat
         /\ CountItems(cWait, CreditsFor(v)) \in Nat
<1>1. /\ CountItems(fWait, FlitsFor(v)) \in Nat
      /\ CountItems(cWait, CreditsFor(v)) \in Nat
  <2>1. fWait \in Seq(Flits!Entry) /\ cWait \in Seq(Credits!Entry)
    BY DEF TypeOK, Flits!TypeOK, Credits!TypeOK
  <2> HIDE DEF Flits!Entry, Credits!Entry
  <2>2. QED
    BY <2>1, CountType
<1>2. \A x, S : CountOne(x, S) \in 0..1
  BY DEF CountOne
<1>3. QED
  BY <1>1, <1>2 DEF FlitCount, CreditCount, CountChannel

LEMMA InitInv == Init => IInv
<1> SUFFICES ASSUME Init PROVE IInv
  OBVIOUS
<1>1. TypeOK
  BY DEF Init, StateInit, TypeOK, Flits!Init, Credits!Init, Flits!TypeOK, Credits!TypeOK, Pid
<1>2. CreditConservation
  <2> SUFFICES ASSUME NEW v \in VC
               PROVE  vcOcc[v] = FlitCount(v) + Len(buf[v]) + CreditCount(v)
    BY DEF CreditConservation, FlitCount, CreditCount
  <2>1. vcOcc[v] = 0 /\ Len(buf[v]) = 0
    BY DEF Init, StateInit
  <2>2. \A S : {i \in DOMAIN <<>> : <<>>[i].item \in S} = {}
    OBVIOUS
  <2>3. \A S : CountItems(<<>>, S) = 0
    BY <2>2, FS_EmptySet DEF CountItems
  <2>4. CountOne(NoItem, FlitsFor(v)) = 0 /\ CountOne(NoItem, CreditsFor(v)) = 0
    BY NoItemAssumption DEF CountOne, FlitsFor, CreditsFor
  <2>5. /\ fIn = NoItem /\ fWait = <<>> /\ fOut = NoItem
        /\ cIn = NoItem /\ cWait = <<>> /\ cOut = NoItem
    BY DEF Init, Flits!Init, Credits!Init
  <2>6. QED
    BY <2>1, <2>3, <2>4, <2>5 DEF FlitCount, CreditCount, CountChannel
<1>3. NoVCError
  BY Sizes DEF Init, StateInit, Flits!Init, Credits!Init, NoVCError, OnTime
<1>4. QED
  BY <1>1, <1>2, <1>3 DEF IInv

LEMMA AllocateInv ==
  ASSUME IInv, NEW v \in VC, AllocateVC(v)
  PROVE  IInv'
<1>1. /\ inUse' = [inUse EXCEPT ![v] = TRUE]
      /\ tailSent' = [tailSent EXCEPT ![v] = FALSE]
      /\ pid' = [pid EXCEPT ![v] = 1 - @]
      /\ UNCHANGED <<config, occupancy, vcOcc, lastPid, fIn, fWait, fOut,
                     cIn, cWait, cOut, buf, bufOcc, expected, phase>>
  BY DEF AllocateVC, TakeBuffer, flitVars, creditVars, bufferVars
<1>2. TypeOK'
  <2>1. pid' \in [VC -> Pid]
    <3>1. pid \in [VC -> 0..1] /\ pid' = [pid EXCEPT ![v] = 1 - pid[v]]
      BY <1>1 DEF IInv, TypeOK, Pid
    <3>2. 1 - pid[v] \in 0..1
      BY <3>1
    <3>3. QED
      BY <3>1, <3>2 DEF Pid
  <2>2. QED
    BY <1>1, <2>1 DEF IInv, TypeOK, Flits!TypeOK, Credits!TypeOK
<1>3. CreditConservation'
  BY <1>1 DEF IInv, CreditConservation, CountChannel
<1>4. NoVCError'
  BY <1>1 DEF IInv, TypeOK, NoVCError, OnTime
<1>5. QED
  BY <1>2, <1>3, <1>4 DEF IInv

LEMMA SendInv ==
  ASSUME IInv, NEW v \in VC, NEW tail \in BOOLEAN, SendFlit(v, tail)
  PROVE  IInv'
<1> DEFINE f == [vc |-> v, pid |-> pid[v], tail |-> tail]
<1>1. f \in Flit
  BY DEF IInv, TypeOK, Flit
<1>2. /\ phase = "evaluate" /\ phase' = phase /\ fIn = NoItem /\ fIn' = f
      /\ config' = config /\ occupancy' = occupancy + 1
      /\ vcOcc' = [vcOcc EXCEPT ![v] = @ + 1]
      /\ tailSent' = [tailSent EXCEPT ![v] = @ \/ tail]
      /\ inUse' = [inUse EXCEPT ![v] = @ /\ (tail => config.waitTail)]
      /\ lastPid' = [lastPid EXCEPT ![v] = pid[v]]
      /\ inUse[v] /\ ~IsFullFor(v)
      /\ UNCHANGED <<pid, fWait, fOut, cIn, cWait, cOut, buf, bufOcc, expected>>
  BY DEF SendFlit, SendingFlit, Flits!Send, creditVars, bufferVars
<1>3. TypeOK'
  BY <1>1, <1>2 DEF IInv, TypeOK, Flits!TypeOK, Credits!TypeOK
<1>4. CreditConservation'
  <2> SUFFICES ASSUME NEW w \in VC
               PROVE  (vcOcc[w] = FlitCount(w) + Len(buf[w]) + CreditCount(w))'
    BY DEF CreditConservation, FlitCount, CreditCount
  <2>1. vcOcc[w] = FlitCount(w) + Len(buf[w]) + CreditCount(w)
    BY DEF IInv, CreditConservation, FlitCount, CreditCount
  <2>2. CountOne(fIn, FlitsFor(w)) = 0
    BY <1>2, NoItemAssumption DEF CountOne, FlitsFor
  <2>3. CountOne(f, FlitsFor(w)) = IF v = w THEN 1 ELSE 0
    BY <1>1 DEF CountOne, FlitsFor
  <2>4. FlitCount(w)' = FlitCount(w) + IF v = w THEN 1 ELSE 0
    <3>1. CountItems(fWait, FlitsFor(w)) \in Nat
      BY CountTypes DEF IInv
    <3>2. QED
      BY <1>2, <2>2, <2>3, <3>1 DEF FlitCount, CountChannel
  <2>5. CreditCount(w)' = CreditCount(w) /\ Len(buf[w])' = Len(buf[w])
    BY <1>2 DEF CreditCount, CountChannel
  <2>6. vcOcc'[w] = vcOcc[w] + IF v = w THEN 1 ELSE 0
    BY <1>2 DEF IInv, TypeOK
  <2>7. FlitCount(w) \in Nat /\ CreditCount(w) \in Nat /\ Len(buf[w]) \in Nat
    BY CountTypes DEF IInv, TypeOK
  <2>8. QED
    BY <2>1, <2>4, <2>5, <2>6, <2>7
<1>5. NoVCError'
  <2> SUFFICES ASSUME NEW w \in VC
               PROVE  /\ vcOcc'[w] >= 0
                      /\ config.policy = "private" =>
                           vcOcc'[w] <= VcBufSize /\ Len(buf[w]) <= VcBufSize
                      /\ config.waitTail /\ vcOcc'[w] > 0 => inUse'[w]
    BY <1>2 DEF IInv, NoVCError, OnTime
  <2>1. config.policy = "private" => vcOcc[v] < VcBufSize
    BY <1>2, Sizes DEF IsFullFor, PolicyIsFullFor, Limited, Feedback, IInv, TypeOK
  <2>2. QED
    BY <1>2, <2>1, Sizes DEF IInv, TypeOK, NoVCError
<1>6. QED
  BY <1>3, <1>4, <1>5 DEF IInv
LEMMA RemoveInv ==
  ASSUME IInv, NEW v \in VC, RemoveFlit(v)
  PROVE  IInv'
<1> DEFINE c == [vc |-> IF cIn = NoItem THEN {v} ELSE cIn.vc \cup {v}]
<1>1. /\ phase = "evaluate" /\ buf[v] # <<>>
      /\ cIn # NoItem => v \notin cIn.vc
      /\ buf' = [buf EXCEPT ![v] = Tail(@)]
      /\ bufOcc' = bufOcc - 1
      /\ cIn' = c
      /\ UNCHANGED <<config, occupancy, vcOcc, inUse, tailSent, lastPid, p, pid,
                     fIn, fWait, fOut, cWait, cOut, expected, phase>>
  BY DEF RemoveFlit, Credits!Send, stateVars, flitVars
<1>2. cIn \in Credit \cup {NoItem} /\ buf \in [VC -> Seq(Flit)]
  BY DEF IInv, TypeOK, Credits!TypeOK
<1>3. c \in Credit
  <2>0. \A X : X \cup {v} # {} /\ {v} # {}
    OBVIOUS
  <2>1. CASE cIn = NoItem
    BY <2>0, <2>1 DEF Credit
  <2>2. CASE cIn # NoItem
    <3>1. cIn.vc \in SUBSET VC
      BY <1>2, <2>2 DEF Credit
    <3>2. cIn.vc \cup {v} \in (SUBSET VC) \ {{}}
      BY <2>0, <3>1
    <3>3. QED
      BY <2>2, <3>2 DEF Credit
  <2>3. QED
    BY <2>1, <2>2
<1>4. TypeOK'
  <2>1. buf' \in [VC -> Seq(Flit)]
    BY <1>1, <1>2
  <2>2. bufOcc' \in Int
    BY <1>1 DEF IInv, TypeOK
  <2>3. QED
    BY <1>1, <1>3, <2>1, <2>2 DEF IInv, TypeOK, Flits!TypeOK, Credits!TypeOK
<1>5. CreditConservation'
  <2> SUFFICES ASSUME NEW w \in VC
               PROVE  (vcOcc[w] = FlitCount(w) + Len(buf[w]) + CreditCount(w))'
    BY DEF CreditConservation, FlitCount, CreditCount
  <2>1. vcOcc[w] = FlitCount(w) + Len(buf[w]) + CreditCount(w)
    BY DEF IInv, CreditConservation, FlitCount, CreditCount
  <2>2. Len(buf[w])' = Len(buf[w]) - IF v = w THEN 1 ELSE 0
    <3>1. Len(Tail(buf[v])) = Len(buf[v]) - 1
      BY <1>1, <1>2
    <3>2. Len(buf[w]) \in Nat
      BY <1>2
    <3>3. CASE v = w
      BY <1>1, <1>2, <3>1, <3>3
    <3>4. CASE v # w
      BY <1>1, <1>2, <3>2, <3>4
    <3>5. QED
      BY <3>3, <3>4
  <2>3. CountOne(c, CreditsFor(w)) = CountOne(cIn, CreditsFor(w)) + IF v = w THEN 1 ELSE 0
    <3>1. CASE cIn = NoItem
      BY <1>3, <3>1, NoItemAssumption DEF CountOne, CreditsFor
    <3>2. CASE cIn # NoItem
      BY <1>1, <1>2, <1>3, <3>2 DEF CountOne, CreditsFor
    <3>3. QED
      BY <3>1, <3>2
  <2>4. CreditCount(w)' = CreditCount(w) + IF v = w THEN 1 ELSE 0
    <3>1. CountItems(cWait, CreditsFor(w)) \in Nat /\ CountOne(cIn, CreditsFor(w)) \in 0..1
      BY CountTypes DEF IInv, CountOne
    <3>2. QED
      BY <1>1, <2>3, <3>1 DEF CreditCount, CountChannel
  <2>5. FlitCount(w)' = FlitCount(w) /\ vcOcc'[w] = vcOcc[w]
    BY <1>1 DEF FlitCount, CountChannel
  <2>6. FlitCount(w) \in Nat /\ CreditCount(w) \in Nat /\ Len(buf[w]) \in Nat
    BY <1>2, CountTypes DEF IInv
  <2>7. FlitCount(w)' + Len(buf[w])' + CreditCount(w)' = FlitCount(w) + Len(buf[w]) + CreditCount(w)
    <3>1. CASE v = w
      BY <2>2, <2>4, <2>5, <2>6, <3>1, SMTT(30)
    <3>2. CASE v # w
      BY <2>2, <2>4, <2>5, <2>6, <3>2
    <3>3. QED
      BY <3>1, <3>2
  <2>8. QED
    BY <2>1, <2>5, <2>7
<1>6. NoVCError'
  <2>1. \A w \in VC : Len(buf'[w]) <= Len(buf[w]) /\ Len(buf[w]) \in Nat /\ Len(buf'[w]) \in Nat
    BY <1>1, <1>2
  <2>2. QED
    BY <1>1, <2>1, Sizes DEF IInv, TypeOK, NoVCError, OnTime
<1>7. QED
  BY <1>4, <1>5, <1>6 DEF IInv

LEMMA WriteInv ==
  ASSUME IInv, WriteOutputs
  PROVE  IInv'
<1>1. /\ phase = "evaluate" /\ phase' = "read"
      /\ UNCHANGED <<config, occupancy, vcOcc, inUse, tailSent, lastPid, pid,
                     fIn, cIn, buf, bufOcc, expected>>
      /\ Flits!WriteOutputs /\ Credits!WriteOutputs
  BY DEF WriteOutputs, bufferVars
<1>2. /\ fWait \in Seq([due : Int, item : Flit]) /\ cWait \in Seq([due : Int, item : Credit])
      /\ Timely(fWait, FlitDelay - 1) /\ Timely(cWait, CreditDelay - 1)
  BY <1>1 DEF IInv, TypeOK, Flits!TypeOK, Credits!TypeOK, NoVCError, OnTime, Timely
<1>3. /\ fWait' \in Seq([due : Int, item : Flit]) /\ fOut' \in Flit \cup {NoItem}
      /\ Timely(fWait', FlitDelay - 2)
      /\ \A S \in SUBSET Flit : CountItems(fWait', S) + CountOne(fOut', S) = CountItems(fWait, S)
  <2>0. FlitDelay \in Nat \ {0} /\ NoItem \notin Flit
    BY Sizes, NoItemAssumption
  <2>1. CASE fWait # <<>> /\ Head(fWait).due <= 0
    <3>1. fWait' = Aged(Tail(fWait)) /\ fOut' = Head(fWait).item
      BY <1>1, <2>1 DEF Flits!WriteOutputs, Flits!Arrived, Flits!Age, Aged
    <3>2. QED
      BY <1>2, <2>0, <2>1, <3>1, WriteArrived
  <2>2. CASE ~(fWait # <<>> /\ Head(fWait).due <= 0)
    <3>1. fWait' = Aged(fWait) /\ fOut' = NoItem
      BY <1>1, <2>2 DEF Flits!WriteOutputs, Flits!Arrived, Flits!Age, Aged
    <3>2. /\ Aged(fWait) \in Seq([due : Int, item : Flit]) /\ Timely(Aged(fWait), FlitDelay - 2)
          /\ \A S : CountItems(Aged(fWait), S) = CountItems(fWait, S)
      BY <1>2, <2>0, <2>2, WriteIdle
    <3>3. \A S \in SUBSET Flit : CountOne(NoItem, S) = 0 /\ CountItems(fWait, S) \in Nat
      BY <1>2, <2>0, CountType DEF CountOne
    <3>4. QED
      BY <3>1, <3>2, <3>3
  <2>3. QED
    BY <2>1, <2>2
<1>4. /\ cWait' \in Seq([due : Int, item : Credit]) /\ cOut' \in Credit \cup {NoItem}
      /\ Timely(cWait', CreditDelay - 2)
      /\ \A S \in SUBSET Credit : CountItems(cWait', S) + CountOne(cOut', S) = CountItems(cWait, S)
  <2>0. CreditDelay \in Nat \ {0} /\ NoItem \notin Credit
    BY Sizes, NoItemAssumption
  <2>1. CASE cWait # <<>> /\ Head(cWait).due <= 0
    <3>1. cWait' = Aged(Tail(cWait)) /\ cOut' = Head(cWait).item
      BY <1>1, <2>1 DEF Credits!WriteOutputs, Credits!Arrived, Credits!Age, Aged
    <3>2. QED
      BY <1>2, <2>0, <2>1, <3>1, WriteArrived
  <2>2. CASE ~(cWait # <<>> /\ Head(cWait).due <= 0)
    <3>1. cWait' = Aged(cWait) /\ cOut' = NoItem
      BY <1>1, <2>2 DEF Credits!WriteOutputs, Credits!Arrived, Credits!Age, Aged
    <3>2. /\ Aged(cWait) \in Seq([due : Int, item : Credit]) /\ Timely(Aged(cWait), CreditDelay - 2)
          /\ \A S : CountItems(Aged(cWait), S) = CountItems(cWait, S)
      BY <1>2, <2>0, <2>2, WriteIdle
    <3>3. \A S \in SUBSET Credit : CountOne(NoItem, S) = 0 /\ CountItems(cWait, S) \in Nat
      BY <1>2, <2>0, CountType DEF CountOne
    <3>4. QED
      BY <3>1, <3>2, <3>3
  <2>3. QED
    BY <2>1, <2>2
<1>5. TypeOK'
  BY <1>1, <1>3, <1>4 DEF IInv, TypeOK, Flits!TypeOK, Credits!TypeOK
<1>6. CreditConservation'
  <2> SUFFICES ASSUME NEW w \in VC
               PROVE  (vcOcc[w] = FlitCount(w) + Len(buf[w]) + CreditCount(w))'
    BY DEF CreditConservation, FlitCount, CreditCount
  <2>1. FlitsFor(w) \in SUBSET Flit /\ CreditsFor(w) \in SUBSET Credit
    BY DEF FlitsFor, CreditsFor
  <2>2. \A x, S : CountOne(x, S) \in 0..1
    BY DEF CountOne
  <2>3. /\ CountItems(fWait', FlitsFor(w)) \in Nat /\ CountItems(cWait', CreditsFor(w)) \in Nat
    BY <1>3, <1>4, CountType
  <2>4. FlitCount(w)' = FlitCount(w)
    BY <1>1, <1>3, <2>1, <2>2, <2>3 DEF FlitCount, CountChannel
  <2>5. CreditCount(w)' = CreditCount(w)
    BY <1>1, <1>4, <2>1, <2>2, <2>3 DEF CreditCount, CountChannel
  <2>6. QED
    BY <1>1, <2>4, <2>5 DEF IInv, CreditConservation, FlitCount, CreditCount
<1>7. NoVCError'
  <2>1. OnTime(fWait, FlitDelay)' /\ OnTime(cWait, CreditDelay)'
    BY <1>1, <1>3, <1>4 DEF OnTime, Timely
  <2>2. QED
    BY <1>1, <2>1 DEF IInv, NoVCError
<1>8. QED
  BY <1>5, <1>6, <1>7 DEF IInv

LEMMA ReadInv ==
  ASSUME IInv, ReadInputs
  PROVE  IInv'
<1>1. /\ phase = "read" /\ phase' = "evaluate"
      /\ UNCHANGED <<pid, fOut, cOut>>
      /\ Flits!ReadInputs /\ Credits!ReadInputs
  BY DEF ReadInputs
<1>2. /\ fWait \in Seq([due : Int, item : Flit]) /\ cWait \in Seq([due : Int, item : Credit])
      /\ fIn \in Flit \cup {NoItem} /\ cIn \in Credit \cup {NoItem}
      /\ fOut \in Flit \cup {NoItem} /\ cOut \in Credit \cup {NoItem}
      /\ Timely(fWait, FlitDelay - 2) /\ Timely(cWait, CreditDelay - 2)
  BY <1>1 DEF IInv, TypeOK, Flits!TypeOK, Credits!TypeOK, NoVCError, OnTime, Timely
<1>3. /\ fWait' \in Seq([due : Int, item : Flit]) /\ fIn' = NoItem
      /\ Timely(fWait', FlitDelay - 1)
      /\ \A S \in SUBSET Flit : CountItems(fWait', S) = CountItems(fWait, S) + CountOne(fIn, S)
  <2>0. FlitDelay \in Nat \ {0} /\ NoItem \notin Flit
    BY Sizes, NoItemAssumption
  <2>1. CASE fIn = NoItem
    <3>1. fWait' = fWait /\ fIn' = NoItem
      BY <1>1, <2>1 DEF Flits!ReadInputs
    <3>2. QED
      BY <1>2, <2>0, <2>1, <3>1, ReadNothing
  <2>2. CASE fIn # NoItem
    <3>1. fWait' = Sent(fWait, FlitDelay, fIn) /\ fIn' = NoItem
      BY <1>1, <2>2 DEF Flits!ReadInputs, Sent
    <3>2. fIn \in Flit
      BY <1>2, <2>2
    <3>3. Sent(fWait, FlitDelay, fIn) \in Seq([due : Int, item : Flit])
      BY <1>2, <2>0, <3>2, ReadSent
    <3>4. Timely(Sent(fWait, FlitDelay, fIn), FlitDelay - 1)
      BY <1>2, <2>0, <3>2, ReadSent
    <3>5. \A S : CountItems(Sent(fWait, FlitDelay, fIn), S) = CountItems(fWait, S) + CountOne(fIn, S)
      <4> SUFFICES ASSUME NEW S
                   PROVE  CountItems(Sent(fWait, FlitDelay, fIn), S) = CountItems(fWait, S) + CountOne(fIn, S)
        OBVIOUS
      <4>1. QED
        BY <1>2, <2>0, <3>2, CountSent
    <3>6. QED
      BY <3>1, <3>3, <3>4, <3>5
  <2>3. QED
    BY <2>1, <2>2
<1>4. /\ cWait' \in Seq([due : Int, item : Credit]) /\ cIn' = NoItem
      /\ Timely(cWait', CreditDelay - 1)
      /\ \A S \in SUBSET Credit : CountItems(cWait', S) = CountItems(cWait, S) + CountOne(cIn, S)
  <2>0. CreditDelay \in Nat \ {0} /\ NoItem \notin Credit
    BY Sizes, NoItemAssumption
  <2>1. CASE cIn = NoItem
    <3>1. cWait' = cWait /\ cIn' = NoItem
      BY <1>1, <2>1 DEF Credits!ReadInputs
    <3>2. QED
      BY <1>2, <2>0, <2>1, <3>1, ReadNothing
  <2>2. CASE cIn # NoItem
    <3>1. cWait' = Sent(cWait, CreditDelay, cIn) /\ cIn' = NoItem
      BY <1>1, <2>2 DEF Credits!ReadInputs, Sent
    <3>2. cIn \in Credit
      BY <1>2, <2>2
    <3>3. Sent(cWait, CreditDelay, cIn) \in Seq([due : Int, item : Credit])
      BY <1>2, <2>0, <3>2, ReadSent
    <3>4. Timely(Sent(cWait, CreditDelay, cIn), CreditDelay - 1)
      BY <1>2, <2>0, <3>2, ReadSent
    <3>5. \A S : CountItems(Sent(cWait, CreditDelay, cIn), S) = CountItems(cWait, S) + CountOne(cIn, S)
      <4> SUFFICES ASSUME NEW S
                   PROVE  CountItems(Sent(cWait, CreditDelay, cIn), S) = CountItems(cWait, S) + CountOne(cIn, S)
        OBVIOUS
      <4>1. QED
        BY <1>2, <2>0, <3>2, CountSent
    <3>6. QED
      BY <3>1, <3>3, <3>4, <3>5
  <2>3. QED
    BY <2>1, <2>2
(* The buffer gains the flit that arrives. *)
<1>5. /\ buf' \in [VC -> Seq(Flit)] /\ bufOcc' \in Int
      /\ expected' \in [VC -> Pid \cup {-1}]
      /\ \A w \in VC : Len(buf'[w]) = Len(buf[w]) + CountOne(fOut, FlitsFor(w))
  <2>0. /\ buf \in [VC -> Seq(Flit)] /\ bufOcc \in Int /\ expected \in [VC -> Pid \cup {-1}]
    BY DEF IInv, TypeOK
  <2>1. CASE fOut = NoItem
    <3>1. UNCHANGED bufferVars
      BY <2>1 DEF ReadInputs, Flits!Receive
    <3>2. \A w \in VC : CountOne(fOut, FlitsFor(w)) = 0 /\ Len(buf[w]) \in Nat
      BY <2>0, <2>1, NoItemAssumption DEF CountOne, FlitsFor
    <3>3. QED
      BY <2>0, <3>1, <3>2 DEF bufferVars
  <2>2. CASE fOut # NoItem
    <3>1. AddFlit(fOut)
      BY <2>2 DEF ReadInputs, Flits!Receive
    <3>2. fOut \in Flit /\ fOut.vc \in VC /\ fOut.pid \in Pid
      BY <1>2, <2>2 DEF Flit
    <3>3. /\ buf' = [buf EXCEPT ![fOut.vc] = Append(buf[fOut.vc], fOut)]
          /\ bufOcc' = bufOcc + 1
          /\ expected' = [expected EXCEPT ![fOut.vc] = IF fOut.tail THEN -1 ELSE fOut.pid]
      BY <3>1 DEF AddFlit
    <3>4. /\ Append(buf[fOut.vc], fOut) \in Seq(Flit)
          /\ Len(Append(buf[fOut.vc], fOut)) = Len(buf[fOut.vc]) + 1
      BY <2>0, <3>2
    <3>5. \A w \in VC : Len(buf'[w]) = Len(buf[w]) + CountOne(fOut, FlitsFor(w))
      <4> SUFFICES ASSUME NEW w \in VC
                   PROVE  Len(buf'[w]) = Len(buf[w]) + CountOne(fOut, FlitsFor(w))
        OBVIOUS
      <4>1. CountOne(fOut, FlitsFor(w)) = IF fOut.vc = w THEN 1 ELSE 0
        BY <3>2 DEF CountOne, FlitsFor
      <4>2. Len(buf[w]) \in Nat
        BY <2>0
      <4>3. CASE fOut.vc = w
        BY <2>0, <3>3, <3>4, <4>1, <4>3
      <4>4. CASE fOut.vc # w
        BY <2>0, <3>3, <4>1, <4>2, <4>4
      <4>5. QED
        BY <4>3, <4>4
    <3>6. QED
      BY <2>0, <3>2, <3>3, <3>4, <3>5
  <2>3. QED
    BY <2>1, <2>2
(* The sender takes back the slots the credit names. *)
<1>6. /\ config' = config /\ occupancy' \in Int /\ vcOcc' \in [VC -> Int]
      /\ inUse' \in [VC -> BOOLEAN] /\ tailSent' = tailSent /\ lastPid' = lastPid
      /\ \A w \in VC : vcOcc'[w] = vcOcc[w] - CountOne(cOut, CreditsFor(w))
      /\ \A w \in VC : config.waitTail /\ inUse[w] /\ vcOcc'[w] > 0 => inUse'[w]
  <2>0. /\ occupancy \in Int /\ vcOcc \in [VC -> Int] /\ inUse \in [VC -> BOOLEAN]
    BY DEF IInv, TypeOK
  <2>1. CASE cOut = NoItem
    <3>1. UNCHANGED stateVars
      BY <2>1 DEF ReadInputs, Credits!Receive
    <3>2. \A w \in VC : CountOne(cOut, CreditsFor(w)) = 0
      BY <2>1, NoItemAssumption DEF CountOne, CreditsFor
    <3>3. QED
      BY <2>0, <3>1, <3>2 DEF stateVars
  <2>2. CASE cOut # NoItem
    <3> DEFINE c == cOut.vc
               kept(v) == inUse[v] /\ v \notin Released(c)
    <3>1. ProcessCredit(c)
      BY <2>2 DEF ReadInputs, Credits!Receive
    <3>2. cOut \in Credit /\ c \in SUBSET VC
      BY <1>2, <2>2 DEF Credit
    <3>3. /\ occupancy' = occupancy - Cardinality(c)
          /\ vcOcc' = [v \in VC |-> IF v \in c THEN vcOcc[v] - 1 ELSE vcOcc[v]]
          /\ inUse' = [v \in VC |-> inUse[v] /\ v \notin Released(c)]
          /\ UNCHANGED <<config, tailSent, lastPid>>
      BY <3>1 DEF ProcessCredit
    <3>4. occupancy' \in Int
      <4>1. IsFiniteSet(VC)
        BY SizeAssumption, FS_Interval DEF VC
      <4>2. Cardinality(c) \in Nat
        BY <3>2, <4>1, FS_Subset, FS_CardinalityType
      <4>3. QED
        BY <2>0, <3>3, <4>2
    <3>5. \A w \in VC : CountOne(cOut, CreditsFor(w)) = IF w \in c THEN 1 ELSE 0
      BY <3>2 DEF CountOne, CreditsFor
    <3>6. \A w \in VC : vcOcc'[w] = vcOcc[w] - CountOne(cOut, CreditsFor(w))
      BY <2>0, <3>3, <3>5
    <3>7. \A w \in VC : config.waitTail /\ inUse[w] /\ vcOcc'[w] > 0 => inUse'[w]
      BY <2>0, <3>2, <3>3 DEF Released
    <3>8. QED
      BY <2>0, <3>3, <3>4, <3>6, <3>7
  <2>3. QED
    BY <2>1, <2>2
<1>7. TypeOK'
  BY <1>1, <1>2, <1>3, <1>4, <1>5, <1>6 DEF IInv, TypeOK, Flits!TypeOK, Credits!TypeOK
<1>8. \A w \in VC : /\ (vcOcc[w] = FlitCount(w) + Len(buf[w]) + CreditCount(w))'
                   /\ vcOcc'[w] >= 0 /\ Len(buf'[w]) \in Nat /\ Len(buf'[w]) <= vcOcc'[w]
  <2> SUFFICES ASSUME NEW w \in VC
               PROVE  /\ vcOcc'[w] = FlitCount(w)' + Len(buf'[w]) + CreditCount(w)'
                      /\ vcOcc'[w] >= 0 /\ Len(buf'[w]) \in Nat /\ Len(buf'[w]) <= vcOcc'[w]
    OBVIOUS
  <2>1. vcOcc[w] = FlitCount(w) + Len(buf[w]) + CreditCount(w)
    BY DEF IInv, CreditConservation, FlitCount, CreditCount
  <2>2. FlitsFor(w) \in SUBSET Flit /\ CreditsFor(w) \in SUBSET Credit
    BY DEF FlitsFor, CreditsFor
  <2>3. \A x, S : CountOne(x, S) \in 0..1
    BY DEF CountOne
  <2>4. CountOne(NoItem, FlitsFor(w)) = 0 /\ CountOne(NoItem, CreditsFor(w)) = 0
    BY <2>2, NoItemAssumption DEF CountOne
  <2>5. /\ CountItems(fWait, FlitsFor(w)) \in Nat /\ CountItems(cWait, CreditsFor(w)) \in Nat
        /\ FlitCount(w) \in Nat /\ CreditCount(w) \in Nat
    BY CountTypes DEF IInv
  <2>6. FlitCount(w) = FlitCount(w)' + CountOne(fOut, FlitsFor(w)) /\ FlitCount(w)' \in Nat
    BY <1>1, <1>3, <2>2, <2>3, <2>4, <2>5 DEF FlitCount, CountChannel
  <2>7. CreditCount(w) = CreditCount(w)' + CountOne(cOut, CreditsFor(w)) /\ CreditCount(w)' \in Nat
    BY <1>1, <1>4, <2>2, <2>3, <2>4, <2>5 DEF CreditCount, CountChannel
  <2>8. Len(buf[w]) \in Nat /\ vcOcc[w] \in Int
    BY DEF IInv, TypeOK
  <2>9. /\ Len(buf'[w]) = Len(buf[w]) + CountOne(fOut, FlitsFor(w))
        /\ vcOcc'[w] = vcOcc[w] - CountOne(cOut, CreditsFor(w))
    BY <1>5, <1>6
  <2>c. CountOne(fOut, FlitsFor(w)) \in Nat /\ CountOne(cOut, CreditsFor(w)) \in Nat
    BY DEF CountOne
  <2>d. FlitCount(w) - CountOne(fOut, FlitsFor(w)) = FlitCount(w)'
    BY <2>6, <2>c
  <2>e. CreditCount(w) - CountOne(cOut, CreditsFor(w)) = CreditCount(w)'
    BY <2>7, <2>c
  <2>f. \A a, b, c, f, k \in Nat : (a + b + c) - k = (a - f) + (b + f) + (c - k)
    OBVIOUS
  <2>a. vcOcc'[w] = FlitCount(w)' + Len(buf'[w]) + CreditCount(w)' /\ Len(buf'[w]) \in Nat
    <3>1. Len(buf'[w]) \in Nat
      BY <2>8, <2>9, <2>c
    <3>2. vcOcc'[w] = (FlitCount(w) + Len(buf[w]) + CreditCount(w)) - CountOne(cOut, CreditsFor(w))
      BY <2>1, <2>9
    <3>3. FlitCount(w)' + Len(buf'[w]) + CreditCount(w)'
          = (FlitCount(w) - CountOne(fOut, FlitsFor(w))) + (Len(buf[w]) + CountOne(fOut, FlitsFor(w)))
            + (CreditCount(w) - CountOne(cOut, CreditsFor(w)))
      BY <2>d, <2>e, <2>9
    <3>4. QED
      BY <3>1, <3>2, <3>3, <2>5, <2>8, <2>c, <2>f, SMTT(30)
  <2>b. QED
    BY <2>6, <2>7, <2>a
<1>9. CreditConservation'
  BY <1>8 DEF CreditConservation, FlitCount, CreditCount
<1>10. NoVCError'
  <2>1. OnTime(fWait, FlitDelay)' /\ OnTime(cWait, CreditDelay)'
    BY <1>1, <1>3, <1>4 DEF OnTime, Timely
  <2>2. \A w \in VC : vcOcc'[w] <= vcOcc[w] /\ vcOcc[w] \in Int /\ vcOcc'[w] \in Int
    <3>1. \A x, S : CountOne(x, S) \in Nat
      BY DEF CountOne
    <3>2. vcOcc \in [VC -> Int]
      BY DEF IInv, TypeOK
    <3>3. QED
      BY <1>6, <3>1, <3>2
  <2>3. \A w \in VC : Len(buf'[w]) <= vcOcc'[w] /\ Len(buf'[w]) \in Nat
    BY <1>8
  <2>4. \A w \in VC : config'.policy = "private" => vcOcc'[w] <= VcBufSize /\ Len(buf'[w]) <= VcBufSize
    BY <1>6, <2>2, <2>3, Sizes DEF IInv, NoVCError
  <2>5. \A w \in VC : config'.waitTail /\ vcOcc'[w] > 0 => inUse'[w]
    BY <1>6, <2>2 DEF IInv, NoVCError
  <2>6. QED
    BY <1>8, <2>1, <2>4, <2>5 DEF NoVCError
<1>11. QED
  BY <1>7, <1>9, <1>10 DEF IInv

(***************************************************************************)
(* The types are respected, credits are conserved and no error is reported *)
(* for a virtual channel, in every reachable state of every hop.           *)
(***************************************************************************)
THEOREM LinkInvariant == Spec => []IInv
<1>1. IInv /\ UNCHANGED vars => IInv'
  BY DEF IInv, TypeOK, CreditConservation, NoVCError, CountChannel, OnTime, vars, stateVars,
         flitVars, creditVars, bufferVars, Flits!TypeOK, Credits!TypeOK
<1>2. IInv /\ [Next]_vars => IInv'
  BY <1>1, AllocateInv, SendInv, RemoveInv, WriteInv, ReadInv DEF Next
<1>3. QED
  BY <1>2, InitInv, PTL DEF Spec

(***************************************************************************)
(* Every variable keeps its type (Link).                                   *)
(***************************************************************************)
THEOREM LinkTypes == Spec => []TypeOK
BY LinkInvariant, PTL DEF IInv

(***************************************************************************)
(* No credit is lost or returned twice: the sender's occupancy of a VC is  *)
(* at all times what is on the channels and in the receiver's buffer.      *)
(***************************************************************************)
THEOREM LinkConservesCredits == Spec => []CreditConservation
BY LinkInvariant, PTL DEF IInv

(***************************************************************************)
(* No VC with private slots overflows at either end, no occupancy falls    *)
(* below zero, no credit comes for an idle VC under wait_for_tail_credit,  *)
(* and the channels deliver on time.                                       *)
(***************************************************************************)
THEOREM LinkNeverOverflowsVC == Spec => []NoVCError
BY LinkInvariant, PTL DEF IInv

-----------------------------------------------------------------------------
(* The shared part of the buffer, by the policy's counters. *)

(* The VCs with an unfinished packet, and those that have sent part of it. *)
Open == {v \in VC : inUse[v] /\ ~tailSent[v]}
Started == {v \in Open : lastPid[v] = pid[v]}
Lengths == [v \in VC |-> Len(buf[v])]

SInv ==
  /\ p \in Counters(config.policy)
  /\ Balanced(config.policy, p, vcOcc, Open, Started)
  /\ \A v \in VC : v \notin Open => lastPid[v] \in {-1, pid[v]}
  /\ ~config.waitTail => \A v \in VC : inUse[v] => ~tailSent[v]
  /\ occupancy = Sum(vcOcc, VC)
  /\ bufOcc = Sum(Lengths, VC)

-----------------------------------------------------------------------------
(* What LinkInvariant says of the numbers: none is negative. *)
LEMMA Naturals ==
  ASSUME IInv
  PROVE  /\ config.policy \in Policies /\ config.policy \in TestedPolicies
         /\ config.waitTail \in BOOLEAN
         /\ vcOcc \in [VC -> Nat] /\ Open \in SUBSET VC /\ Started \in SUBSET Open
         /\ Lengths \in [VC -> Nat] /\ \A v \in VC : Lengths[v] <= vcOcc[v]
         /\ Summable(vcOcc, VC) /\ Summable(Lengths, VC)
<1>1. /\ config.policy \in TestedPolicies /\ config.waitTail \in BOOLEAN
      /\ vcOcc \in [VC -> Int] /\ buf \in [VC -> Seq(Flit)]
  BY DEF IInv, TypeOK
<1>2. \A v \in VC : /\ FlitCount(v) \in Nat /\ CreditCount(v) \in Nat /\ Len(buf[v]) \in Nat
                   /\ vcOcc[v] = FlitCount(v) + Len(buf[v]) + CreditCount(v)
  BY <1>1, CountTypes DEF IInv, CreditConservation, FlitCount, CreditCount
<1>3. \A v \in VC : vcOcc[v] \in Nat /\ Len(buf[v]) <= vcOcc[v]
  BY <1>2
<1>4. Summable(vcOcc, VC) /\ Summable(Lengths, VC)
  BY <1>2, <1>3, Finite DEF Summable, Lengths
<1>5. QED
  BY <1>1, <1>2, <1>3, <1>4, LinkAssumption DEF Open, Started, Lengths

(* The invariant holds at the start, when everything is empty. *)
LEMMA SharedInit ==
  ASSUME Init
  PROVE  SInv
<1>1. IInv
  BY InitInv
<1>2. /\ p = Empty(config.policy) /\ vcOcc = [v \in VC |-> 0] /\ occupancy = 0 /\ bufOcc = 0
      /\ lastPid = [v \in VC |-> -1] /\ Open = {} /\ Started = {}
      /\ \A v \in VC : ~inUse[v] /\ Lengths[v] = 0 /\ vcOcc[v] = 0
  BY DEF Init, StateInit, Open, Started, Lengths
<1>3. p \in Counters(config.policy) /\ Balanced(config.policy, p, vcOcc, Open, Started)
  BY <1>1, <1>2, Naturals, StartsBalanced
<1>4. Sum(vcOcc, VC) = Cardinality(VC) * 0 /\ Sum(Lengths, VC) = Cardinality(VC) * 0
  BY <1>1, <1>2, Naturals, SumConstant
<1>5. Cardinality(VC) \in Nat
  BY Finite, FS_CardinalityType
<1>6. QED
  BY <1>2, <1>3, <1>4, <1>5 DEF SInv

(* A packet that takes a VC has not begun: its id is new. *)
LEMMA SharedAllocate ==
  ASSUME IInv, SInv, NEW v \in VC, AllocateVC(v)
  PROVE  SInv'
<1>1. /\ ~inUse[v]
      /\ inUse' = [inUse EXCEPT ![v] = TRUE]
      /\ tailSent' = [tailSent EXCEPT ![v] = FALSE]
      /\ pid' = [pid EXCEPT ![v] = 1 - pid[v]]
      /\ p' = PolicyTakeBuffer(config.policy, p)
      /\ UNCHANGED <<config, occupancy, vcOcc, lastPid, buf, bufOcc>>
  BY DEF AllocateVC, TakeBuffer, IsAvailableFor, bufferVars
<1>2. /\ inUse \in [VC -> BOOLEAN] /\ tailSent \in [VC -> BOOLEAN]
      /\ pid \in [VC -> 0..1] /\ lastPid \in [VC -> {0, 1, -1}]
  BY DEF IInv, TypeOK, Pid
<1>3. v \in VC \ Open /\ Open' = Open \cup {v}
  BY <1>1, <1>2 DEF Open
<1>4. lastPid[v] \in {-1, pid[v]} /\ pid[v] \in 0..1
  BY <1>2, <1>3 DEF SInv
<1>5. Started' = Started
  <2>1. lastPid'[v] # pid'[v]
    BY <1>1, <1>2, <1>4
  <2>2. \A w \in VC \ {v} : lastPid'[w] = lastPid[w] /\ pid'[w] = pid[w]
    BY <1>1, <1>2
  <2>3. QED
    BY <1>3, <2>1, <2>2 DEF Started, Open
<1>6. p' \in Counters(config.policy) /\ Balanced(config.policy, p', vcOcc, Open', Started)
  BY <1>1, <1>3, Naturals, TakeSlots DEF SInv
<1>7. Lengths' = Lengths
  BY <1>1 DEF Lengths
<1>8. \A w \in VC : w \notin Open' => lastPid'[w] \in {-1, pid'[w]}
  BY <1>1, <1>2, <1>3 DEF SInv
<1>9. ~config.waitTail => \A w \in VC : inUse'[w] => ~tailSent'[w]
  BY <1>1, <1>2 DEF SInv
<1>10. QED
  BY <1>1, <1>5, <1>6, <1>7, <1>8, <1>9 DEF SInv

(* A flit is counted at the sender, in total, for its VC and by the policy. *)
LEMMA SharedSending ==
  ASSUME IInv, SInv, IInv', NEW v \in VC, NEW tail \in BOOLEAN, SendFlit(v, tail)
  PROVE  SInv'
<1>1. /\ inUse[v] /\ ~tailSent[v] /\ ~PolicyIsFullFor(config.policy, p, v, vcOcc[v])
      /\ occupancy' = occupancy + 1
      /\ vcOcc' = [vcOcc EXCEPT ![v] = vcOcc[v] + 1]
      /\ p' = PolicySendingFlit(config.policy, p, v, tail, vcOcc[v] + 1)
      /\ tailSent' = [tailSent EXCEPT ![v] = tailSent[v] \/ tail]
      /\ inUse' = [inUse EXCEPT ![v] = inUse[v] /\ (tail => config.waitTail)]
      /\ lastPid' = [lastPid EXCEPT ![v] = pid[v]]
      /\ UNCHANGED <<config, pid, buf, bufOcc>>
  BY DEF SendFlit, SendingFlit, IsFullFor, bufferVars
<1>2. /\ inUse \in [VC -> BOOLEAN] /\ tailSent \in [VC -> BOOLEAN]
      /\ pid \in [VC -> 0..1] /\ lastPid \in [VC -> {0, 1, -1}] /\ config.waitTail \in BOOLEAN
  BY DEF IInv, TypeOK, Pid
<1>3. v \in Open /\ Open' = Opened(Open, v, tail)
  BY <1>1, <1>2 DEF Open, Opened
<1>4. Started' = Begun(Started, v, tail)
  BY <1>1, <1>2, <1>3 DEF Started, Begun, Opened
<1>5. p' \in Counters(config.policy) /\ Balanced(config.policy, p', vcOcc', Open', Started')
  BY <1>1, <1>3, <1>4, Naturals, SendSlot DEF SInv
<1>6. Lengths' = Lengths
  BY <1>1 DEF Lengths
<1>7. occupancy' = Sum(vcOcc', VC)
  <2>1. Summable(vcOcc, VC) /\ vcOcc \in [VC -> Nat]
    BY Naturals
  <2>2. DiffersAt(vcOcc, vcOcc', VC, v) /\ vcOcc'[v] = vcOcc[v] + 1 /\ vcOcc[v] \in Int
    BY <1>1, <2>1 DEF DiffersAt
  <2>3. Sum(vcOcc', VC) = Sum(vcOcc, VC) - vcOcc[v] + vcOcc'[v]
    BY <2>2, SumChange
  <2>4. Sum(vcOcc, VC) \in Int
    BY <2>1, SumType
  <2>5. QED
    BY <1>1, <2>2, <2>3, <2>4 DEF SInv
<1>8. \A w \in VC : w \notin Open' => lastPid'[w] \in {-1, pid'[w]}
  BY <1>1, <1>2, <1>3 DEF SInv, Opened
<1>9. ~config.waitTail => \A w \in VC : inUse'[w] => ~tailSent'[w]
  BY <1>1, <1>2 DEF SInv
<1>10. QED
  BY <1>1, <1>5, <1>6, <1>7, <1>8, <1>9 DEF SInv

(* The receiver's count follows its queues. *)
LEMMA SharedRemove ==
  ASSUME IInv, SInv, NEW v \in VC, RemoveFlit(v)
  PROVE  SInv'
<1>1. /\ buf[v] # <<>> /\ buf' = [buf EXCEPT ![v] = Tail(buf[v])] /\ bufOcc' = bufOcc - 1
      /\ UNCHANGED <<config, occupancy, vcOcc, inUse, tailSent, lastPid, p, pid>>
  BY DEF RemoveFlit, stateVars
<1>2. buf \in [VC -> Seq(Flit)] /\ Summable(Lengths, VC)
  BY Naturals DEF IInv, TypeOK
<1>3. Len(Tail(buf[v])) = Len(buf[v]) - 1 /\ Len(buf[v]) \in Nat
  BY <1>1, <1>2
<1>4. DiffersAt(Lengths, Lengths', VC, v) /\ Lengths'[v] = Lengths[v] - 1 /\ Lengths[v] \in Int
  BY <1>1, <1>2, <1>3 DEF DiffersAt, Lengths
<1>5. Sum(Lengths', VC) = Sum(Lengths, VC) - Lengths[v] + Lengths'[v]
  BY <1>4, SumChange
<1>6. Sum(Lengths, VC) \in Int
  BY <1>2, SumType
<1>7. bufOcc' = Sum(Lengths', VC)
  BY <1>1, <1>4, <1>5, <1>6 DEF SInv
<1>8. Open' = Open /\ Started' = Started
  BY <1>1 DEF Open, Started
<1>9. QED
  BY <1>1, <1>7, <1>8 DEF SInv

(* Probes grow older. *)
LEMMA SharedWrite ==
  ASSUME IInv, SInv, WriteOutputs
  PROVE  SInv'
<1>1. /\ p' = Older(p)
      /\ UNCHANGED <<config, occupancy, vcOcc, inUse, tailSent, lastPid, pid, buf, bufOcc>>
  BY DEF WriteOutputs, bufferVars
<1>2. Open' = Open /\ Started' = Started /\ Lengths' = Lengths
  BY <1>1 DEF Open, Started, Lengths
<1>3. p' \in Counters(config.policy) /\ Balanced(config.policy, p', vcOcc, Open, Started)
  BY <1>1, Naturals, OlderSlots DEF SInv
<1>4. QED
  BY <1>1, <1>2, <1>3 DEF SInv

(* The policy is told of the VCs of a credit one by one; however far it    *)
(* has got, the counters balance what is left.                             *)
LEMMA CreditSlots ==
  ASSUME IInv, SInv, NEW c \in SUBSET VC, \A v \in c : vcOcc[v] > 0, ProcessCredit(c)
  PROVE  p' \in Counters(config.policy) /\ Balanced(config.policy, p', vcOcc', Open, Started)
<1> DEFINE kept(v) == inUse[v] /\ v \notin Released(c)
           gone(v) == ~kept(v)
           last(v) == vcOcc[v] = 1
           free(v, q) == PolicyFreeSlotFor(config.policy, q, v, gone(v), last(v))
           R == Counters(config.policy)
           F == [z \in c \X R |-> IF free(z[1], z[2]) \in R THEN free(z[1], z[2]) ELSE p]
           step(s, r) == IF s = {} THEN p ELSE free(Pick(s), r[s \ {Pick(s)}])
           iter == CHOOSE r : r = [s \in SUBSET c |-> step(s, r)]
           after(s) == [v \in VC |-> IF v \in s THEN vcOcc[v] - 1 ELSE vcOcc[v]]
<1>0. /\ config.policy \in Policies /\ vcOcc \in [VC -> Nat]
      /\ Open \in SUBSET VC /\ Started \in SUBSET Open
      /\ inUse \in [VC -> BOOLEAN] /\ tailSent \in [VC -> BOOLEAN] /\ config.waitTail \in BOOLEAN
  BY Naturals DEF IInv, TypeOK
<1>1. p' = iter[c] /\ vcOcc' = after(c)
  BY DEF ProcessCredit, FoldSet, MapThenFoldSet, Pick
<1>2. F \in [c \X R -> R] /\ p \in R /\ IsFiniteSet(c)
  <2>1. p \in R /\ IsFiniteSet(c)
    BY Finite, FS_Subset DEF SInv
  <2> HIDE DEF R, free
  <2>2. QED
    BY <2>1
<1>3. PICK g \in [SUBSET c -> R] : IsFold(g, c, F, p)
  <2> HIDE DEF R, F
  <2>1. QED
    BY <1>2, FoldExists
(* A VC given up with this credit has no unfinished packet. *)
<1>4. \A v \in c : last(v) => (gone(v) <=> v \notin Open)
  BY <1>0 DEF SInv, Released, Open
<1>5. \A v \in c : last(v) \in BOOLEAN /\ gone(v) \in BOOLEAN /\ vcOcc[v] > 0
  OBVIOUS
<1> DEFINE Good(s) == Balanced(config.policy, g[s], after(s), Open, Started)
           Step(s) == s # {} => g[s] = free(Pick(s), g[s \ {Pick(s)}])
<1>6. \A s \in SUBSET c : Good(s) /\ Step(s)
  <2> DEFINE Bad == {s \in SUBSET c : ~(Good(s) /\ Step(s))}
  <2> SUFFICES ASSUME Bad # {} PROVE FALSE
    OBVIOUS
  <2>1. PICK s \in Bad : \A r \in Bad : r \subseteq s => r = s
    <3>1. Bad \subseteq SUBSET c
      OBVIOUS
    <3> HIDE DEF Bad
    <3>2. QED
      BY <1>2, <3>1, MinimalSubset
  <2>2. s \in SUBSET c /\ ~(Good(s) /\ Step(s))
    OBVIOUS
  <2>3. CASE s = {}
    <3>1. g[s] = p
      BY <1>3, <2>2, <2>3 DEF IsFold
    <3>2. after(s) = vcOcc
      BY <1>0, <2>3
    <3>3. QED
      BY <2>2, <2>3, <3>1, <3>2 DEF SInv
  <2>4. CASE s # {}
    <3> DEFINE x == Pick(s)
               r == s \ {x}
               q == g[r]
    <3>1. x \in s /\ x \in c /\ x \in VC /\ r \in SUBSET c /\ ~(s \subseteq r)
      BY <2>2, <2>4, Picked
    <3>2. Good(r) /\ q \in R
      <4>1. r \notin Bad
        BY <2>1, <3>1
      <4>2. QED
        BY <3>1, <4>1
    <3>3. after(r)[x] = vcOcc[x] /\ after(s) = [after(r) EXCEPT ![x] = after(r)[x] - 1]
          /\ after(r) \in [VC -> Nat]
      <4>1. \A v \in c : vcOcc[v] \in Nat /\ vcOcc[v] - 1 \in Nat
        BY <1>0
      <4>2. \A v \in VC : after(r)[v] \in Nat
        BY <1>0, <3>1, <4>1
      <4>3. after(r)[x] = vcOcc[x]
        BY <3>1
      <4>4. after(s) = [after(r) EXCEPT ![x] = vcOcc[x] - 1]
        BY <2>2, <3>1
      <4>5. QED
        BY <4>2, <4>3, <4>4
    <3> HIDE DEF after, gone, last, x, r, q, R, F, Good, Bad
    <3>4. Credited(after(r), Open, Started, x, gone(x), last(x))
      <4>1. last(x) <=> after(r)[x] = 1
        BY <3>3 DEF last
      <4>2. QED
        BY <1>0, <1>4, <1>5, <3>1, <3>3, <4>1 DEF Credited
    <3>5. /\ free(x, q) \in R
          /\ Balanced(config.policy, free(x, q), after(s), Open, Started)
      <4>1. q \in Counters(config.policy) /\ Balanced(config.policy, q, after(r), Open, Started)
        BY <3>2 DEF R, Good, q
      <4> DEFINE left == after(r)
                 none == gone(x)
                 only == last(x)
                 told == PolicyFreeSlotFor(config.policy, q, x, none, only)
      <4>2. Credited(left, Open, Started, x, none, only)
        BY <3>4
      <4> HIDE DEF left, none, only
      <4>3. /\ told \in Counters(config.policy)
            /\ Balanced(config.policy, told, [left EXCEPT ![x] = left[x] - 1], Open, Started)
        BY <1>0, <3>1, <4>1, <4>2, FreeSlot DEF left
      <4>4. told = free(x, q)
        BY DEF none, only
      <4> HIDE DEF told, free
      <4>5. QED
        BY <3>3, <4>3, <4>4 DEF R, left
    <3>6. g[s] = free(x, q)
      <4>1. g[s] = F[<<x, q>>]
        BY <1>3, <2>2, <2>4 DEF IsFold, x, r, q
      <4>2. F[<<x, q>>] = free(x, q)
        <5> HIDE DEF free
        <5>1. QED
          BY <3>1, <3>2, <3>5 DEF F
      <4>3. QED
        BY <4>1, <4>2
    <3>7. QED
      <4> HIDE DEF free
      <4>1. QED
        BY <2>2, <3>5, <3>6 DEF Good, x, r, q
  <2>5. QED
    BY <2>3, <2>4
<1>7. g = [s \in SUBSET c |-> step(s, g)]
  <2>1. \A s \in SUBSET c : g[s] = step(s, g)
    <3> SUFFICES ASSUME NEW s \in SUBSET c PROVE g[s] = step(s, g)
      OBVIOUS
    <3>1. CASE s = {}
      BY <1>3, <3>1 DEF IsFold
    <3>2. CASE s # {}
      BY <1>6, <3>2
    <3>3. QED
      BY <3>1, <3>2
  <2> HIDE DEF step
  <2>2. QED
    BY <2>1
<1>8. iter = [s \in SUBSET c |-> step(s, iter)]
  <2> HIDE DEF step
  <2>1. QED
    BY <1>7
<1> HIDE DEF free
<1>9. iter[c] = g[c]
  <2> DEFINE Bad == {s \in SUBSET c : iter[s] # g[s]}
  <2> SUFFICES Bad = {}
    OBVIOUS
  <2> SUFFICES ASSUME Bad # {} PROVE FALSE
    OBVIOUS
  <2>2. PICK s \in Bad : \A r \in Bad : r \subseteq s => r = s
    <3>1. Bad \subseteq SUBSET c
      OBVIOUS
    <3> HIDE DEF Bad
    <3>2. QED
      BY <1>2, <3>1, MinimalSubset
  <2>3. s \in SUBSET c /\ iter[s] # g[s]
    OBVIOUS
  <2>4. iter[s] = step(s, iter) /\ g[s] = step(s, g)
    <3> HIDE DEF step, iter
    <3>1. QED
      BY <1>7, <1>8, <2>3
  <2>5. s # {}
    BY <2>3, <2>4
  <2>6. iter[s \ {Pick(s)}] = g[s \ {Pick(s)}]
    <3>1. s \ {Pick(s)} \in SUBSET c /\ ~(s \subseteq s \ {Pick(s)})
      BY <2>3, <2>5, Picked
    <3> HIDE DEF iter
    <3>2. QED
      BY <2>2, <3>1
  <2> HIDE DEF iter
  <2>7. QED
    BY <2>3, <2>4, <2>5, <2>6
<1>10. c \in SUBSET c
  OBVIOUS
<1> HIDE DEF iter, after
<1>11. p' = g[c] /\ g[c] \in R /\ Good(c)
  BY <1>1, <1>6, <1>9, <1>10
<1>12. QED
  BY <1>1, <1>11

(* A flit arrives and a credit is processed. *)
LEMMA SharedRead ==
  ASSUME IInv, SInv, IInv', ReadInputs
  PROVE  SInv'
<1>1. phase = "read" /\ phase' = "evaluate" /\ UNCHANGED <<pid, fOut, cOut>>
  BY DEF ReadInputs
<1>2. bufOcc' = Sum(Lengths', VC)
  <2>1. Summable(Lengths, VC) /\ buf \in [VC -> Seq(Flit)] /\ fOut \in Flit \cup {NoItem}
    BY Naturals DEF IInv, TypeOK, Flits!TypeOK
  <2>2. CASE fOut = NoItem
    <3>1. buf' = buf /\ bufOcc' = bufOcc
      BY <2>2 DEF ReadInputs, Flits!Receive, bufferVars
    <3>2. QED
      BY <3>1 DEF SInv, Lengths
  <2>3. CASE fOut # NoItem
    <3> DEFINE v == fOut.vc
    <3>1. buf' = [buf EXCEPT ![v] = Append(buf[v], fOut)] /\ bufOcc' = bufOcc + 1
      BY <2>3 DEF ReadInputs, Flits!Receive, AddFlit
    <3>2. fOut \in Flit /\ v \in VC
      BY <2>1, <2>3 DEF Flit
    <3>3. Len(Append(buf[v], fOut)) = Len(buf[v]) + 1 /\ Len(buf[v]) \in Nat
      BY <2>1, <3>2
    <3>4. DiffersAt(Lengths, Lengths', VC, v) /\ Lengths'[v] = Lengths[v] + 1 /\ Lengths[v] \in Int
      BY <2>1, <3>1, <3>2, <3>3 DEF DiffersAt, Lengths
    <3>5. Sum(Lengths', VC) = Sum(Lengths, VC) - Lengths[v] + Lengths'[v]
      BY <3>4, SumChange
    <3>6. Sum(Lengths, VC) \in Int
      BY <2>1, SumType
    <3>7. QED
      BY <3>1, <3>4, <3>5, <3>6 DEF SInv
  <2>4. QED
    BY <2>2, <2>3
<1>3. CASE cOut = NoItem
  <2>1. UNCHANGED stateVars
    BY <1>3 DEF ReadInputs, Credits!Receive
  <2>2. Open' = Open /\ Started' = Started
    BY <1>1, <2>1 DEF stateVars, Open, Started
  <2>3. QED
    BY <1>1, <1>2, <2>1, <2>2 DEF SInv, stateVars
<1>4. CASE cOut # NoItem
  <2> DEFINE c == cOut.vc
  <2>1. ProcessCredit(c)
    BY <1>4 DEF ReadInputs, Credits!Receive
  <2>2. cOut \in Credit /\ c \in SUBSET VC
    BY <1>4 DEF IInv, TypeOK, Credits!TypeOK, Credit
  <2>3. \A v \in c : vcOcc[v] > 0
    <3> SUFFICES ASSUME NEW v \in c PROVE vcOcc[v] > 0
      OBVIOUS
    <3>1. v \in VC /\ vcOcc[v] = FlitCount(v) + Len(buf[v]) + CreditCount(v)
      BY <2>2 DEF IInv, CreditConservation, FlitCount, CreditCount
    <3>2. /\ FlitCount(v) \in Nat /\ Len(buf[v]) \in Nat
          /\ CountItems(cWait, CreditsFor(v)) \in Nat
      BY <3>1, CountTypes DEF IInv, TypeOK
    <3>3. CountOne(cOut, CreditsFor(v)) = 1 /\ CountOne(cIn, CreditsFor(v)) \in 0..1
      BY <2>2 DEF CountOne, CreditsFor
    <3>4. CreditCount(v) \in Nat /\ CreditCount(v) >= 1
      BY <1>1, <3>2, <3>3 DEF CreditCount, CountChannel
    <3>5. QED
      BY <3>1, <3>2, <3>4
  <2>4. /\ occupancy' = occupancy - Cardinality(c)
        /\ vcOcc' = [v \in VC |-> IF v \in c THEN vcOcc[v] - 1 ELSE vcOcc[v]]
        /\ inUse' = [v \in VC |-> inUse[v] /\ v \notin Released(c)]
        /\ UNCHANGED <<config, tailSent, lastPid>>
    BY <2>1 DEF ProcessCredit
  <2>5. p' \in Counters(config.policy) /\ Balanced(config.policy, p', vcOcc', Open, Started)
    BY <2>1, <2>2, <2>3, CreditSlots
  <2>6. inUse \in [VC -> BOOLEAN] /\ tailSent \in [VC -> BOOLEAN]
    BY DEF IInv, TypeOK
  <2>7. \A v \in Released(c) : tailSent[v]
    BY DEF Released
  <2>8. Open' = Open
    BY <2>4, <2>6, <2>7 DEF Open
  <2>9. Started' = Started
    BY <1>1, <2>4, <2>8 DEF Started
  <2>10. occupancy' = Sum(vcOcc', VC)
    <3>1. Summable(vcOcc, VC)
      BY Naturals
    <3>2. Sum(vcOcc', VC) = Sum(vcOcc, VC) - Cardinality(c)
      BY <2>2, <2>4, <3>1, SumLess
    <3>3. QED
      BY <2>4, <3>2 DEF SInv
  <2>11. \A v \in VC : v \notin Open' => lastPid'[v] \in {-1, pid'[v]}
    BY <1>1, <2>4, <2>8 DEF SInv
  <2>12. ~config'.waitTail => \A v \in VC : inUse'[v] => ~tailSent'[v]
    BY <2>4 DEF SInv
  <2>13. QED
    BY <1>2, <2>4, <2>5, <2>8, <2>9, <2>10, <2>11, <2>12 DEF SInv
<1>5. QED
  BY <1>3, <1>4

-----------------------------------------------------------------------------
(* What the code asserts of its configuration when it computes the limits: *)
(* _max_held_slots > 0, whatever the number of active VCs, and, for        *)
(* private slots, _vc_buf_size > 0.                                        *)
PolicyAssertions ==
  \A policy \in TestedPolicies : /\ LimitsOf(policy) \subseteq Nat \ {0}
                                 /\ policy = "private" => VcBufSize > 0

(* Under every policy the VCs together hold no more than the buffer. *)
LEMMA WithinBufSize ==
  ASSUME IInv, SInv
  PROVE  Sum(vcOcc, VC) <= BufSize /\ Sum(Lengths, VC) <= BufSize
<1>1. Summable(vcOcc, VC) /\ Summable(Lengths, VC) /\ vcOcc \in [VC -> Nat]
      /\ \A v \in VC : Lengths[v] <= vcOcc[v]
  BY Naturals
<1>2. Sum(vcOcc, VC) \in Int /\ Sum(Lengths, VC) \in Int /\ BufSize \in Nat
  BY <1>1, SumType, SizeAssumption
<1>3. Sum(Lengths, VC) <= Sum(vcOcc, VC)
  BY <1>1, SumAtMost
<1>4. CASE config.policy # "private"
  <2>1. Accounts(p, vcOcc, Open, Started)
    BY <1>4 DEF SInv, Balanced
  <2>2. p \in Counters(config.policy)
    BY DEF SInv
  <2>3. Sum(vcOcc, VC) <= BufSize
    BY <1>1, <2>1, <2>2, WithinBuffer
  <2>4. QED
    BY <1>2, <1>3, <2>3
<1>5. CASE config.policy = "private"
  <2> DEFINE full == [v \in VC |-> VcBufSize]
  <2>0. VcBufSize \in Nat /\ NumVCs * VcBufSize <= BufSize /\ NumVCs * VcBufSize \in Nat
    BY SizeAssumption DEF VcBufSize
  <2>1. \A v \in VC : full[v] = VcBufSize /\ vcOcc[v] <= full[v] /\ full[v] \in Nat
    BY <1>5, <2>0 DEF IInv, NoVCError
  <2> HIDE DEF full
  <2>2. Summable(full, VC)
    BY <2>1, Finite, SumNat
  <2>3. Sum(vcOcc, VC) <= Sum(full, VC)
    BY <1>1, <2>1, <2>2, SumAtMost
  <2>4. Sum(full, VC) = Cardinality(VC) * VcBufSize
    BY <2>0, <2>1, <2>2, SumConstant
  <2>5. QED
    BY <1>2, <1>3, <2>0, <2>3, <2>4, Finite
<1>6. QED
  BY <1>4, <1>5

(* Both invariants hold in every reachable state. *)
LEMMA SharedInvariant == Spec => [](IInv /\ SInv)
<1>1. Init => IInv /\ SInv
  BY InitInv, SharedInit
<1>2. IInv /\ SInv /\ IInv' /\ [Next]_vars => SInv'
  <2> SUFFICES ASSUME IInv, SInv, IInv', [Next]_vars PROVE SInv'
    OBVIOUS
  <2>1. CASE ReadInputs
    BY <2>1, SharedRead
  <2>2. ASSUME NEW v \in VC, AllocateVC(v) PROVE SInv'
    BY <2>2, SharedAllocate
  <2>3. ASSUME NEW v \in VC, NEW tail \in BOOLEAN, SendFlit(v, tail) PROVE SInv'
    BY <2>3, SharedSending
  <2>4. ASSUME NEW v \in VC, RemoveFlit(v) PROVE SInv'
    BY <2>4, SharedRemove
  <2>5. CASE WriteOutputs
    BY <2>5, SharedWrite
  <2>6. CASE UNCHANGED vars
    BY <2>6 DEF SInv, Open, Started, Lengths, vars, stateVars, bufferVars
  <2>7. QED
    BY <2>1, <2>2, <2>3, <2>4, <2>5, <2>6 DEF Next
<1>3. QED
  BY <1>1, <1>2, LinkInvariant, PTL DEF Spec

(***************************************************************************)
(* The counters of the shared policies are what the occupancies make them: *)
(* no call of SendingFlit, FreeSlotFor or TakeBuffer miscounts a slot, for *)
(* every division of the buffer into partitions.                           *)
(***************************************************************************)
THEOREM LinkSharedAccounting == Spec => []SharedAccounting
<1>1. IInv /\ SInv => SharedAccounting
  <2> SUFFICES ASSUME IInv, SInv, config.policy # "private"
               PROVE  SharedAccounting
    BY DEF SharedAccounting
  <2>1. Accounts(p, vcOcc, Open, Started) /\ p \in Counters(config.policy)
    BY DEF SInv, Balanced
  <2>2. Sums(p.private, p.shared, HeldBy(p, vcOcc)) /\ p.reserved \in [VC -> 0..1]
        /\ Reserves(p, vcOcc, Open, Started)
    BY <2>1, Fields DEF Accounts
  <2>3. \A v \in VC : p.reserved[v] > 0 =>
          p.reserved[v] = 1 /\ vcOcc[v] = 0 /\ inUse[v] /\ ~tailSent[v]
    BY <2>2 DEF Reserves, Open
  <2>4. config.policy \in Limited => p.active = Cardinality({v \in VC : inUse[v] /\ ~tailSent[v]})
    BY DEF SInv, Balanced, Open
  <2>5. QED
    BY <2>2, <2>3, <2>4 DEF SharedAccounting, Sums, HeldBy, Excesses, Part, Sum
<1>2. QED
  BY <1>1, SharedInvariant, PTL

(***************************************************************************)
(* No feedback policy ever times a credit that is not a probe's.           *)
(***************************************************************************)
THEOREM LinkProbesOutstanding == Spec => []ProbesOutstanding
<1>1. SInv => ProbesOutstanding
  BY DEF SInv, Balanced, Probes, ProbesOutstanding
<1>2. QED
  BY <1>1, SharedInvariant, PTL

(***************************************************************************)
(* No error is reported for the buffer as a whole at either end, under any *)
(* policy whose own assertions hold of its configuration.                  *)
(***************************************************************************)
THEOREM LinkNeverOverflowsBuffer ==
  ASSUME PolicyAssertions
  PROVE  Spec => []NoBufferError
<1>1. IInv /\ SInv => NoBufferError
  <2> SUFFICES ASSUME IInv, SInv PROVE NoBufferError
    OBVIOUS
  <2>1. /\ p.shared \in Nat /\ p.private \in [Partition -> Nat]
        /\ p.active \in Nat /\ p.held \in LimitsOf(config.policy)
    BY Fields DEF SInv
  <2>2. p.held \in Nat \ {0}
    BY <2>1, Naturals DEF PolicyAssertions
  <2>3. p.active \in 0..NumVCs
    <3>1. Cardinality(Open) \in 0..NumVCs /\ 0 \in 0..NumVCs
      BY Naturals, OpenCount, SizeAssumption
    <3>2. QED
      BY <3>1 DEF SInv, Balanced
  <2>4. p.shared \in 0..SharedSize
    BY <2>1, BufferSizes DEF SInv, Balanced, Accounts
  <2>5. Sum(vcOcc, VC) <= BufSize /\ Sum(Lengths, VC) <= BufSize
    BY WithinBufSize
  <2>6. QED
    BY <2>1, <2>2, <2>3, <2>4, <2>5 DEF NoBufferError, SInv, Sum, Lengths
<1>2. QED
  BY <1>1, SharedInvariant, PTL

(***************************************************************************)
(* A packet that has sent a flit and got every slot back is never told     *)
(* that its VC is full, whatever the other VCs hold.                       *)
(***************************************************************************)
THEOREM LinkNeverShutsOut ==
  ASSUME PolicyAssertions
  PROVE  Spec => []StartedPacketNeverShutOut
<1>1. IInv /\ SInv => StartedPacketNeverShutOut
  <2> SUFFICES ASSUME IInv, SInv, NEW v \in VC, v \in Started, vcOcc[v] = 0
               PROVE  ~IsFullFor(v)
    BY DEF StartedPacketNeverShutOut, Started, Open
  <2>1. /\ config.policy \in Policies
        /\ LimitsOf(config.policy) \subseteq Nat \ {0}
        /\ config.policy = "private" => VcBufSize > 0
    BY Naturals DEF PolicyAssertions
  <2>2. QED
    BY <2>1, StartedNotFull DEF SInv, IsFullFor
<1>2. QED
  BY <1>1, SharedInvariant, PTL

-----------------------------------------------------------------------------
(* The flits of one VC among those under way.                              *)

OfVC(x, v) == IF x.vc = v THEN <<x>> ELSE <<>>

(* f gives, for every length, what a prefix of q holds of VC v. *)
Selects(f, q, v) ==
  /\ f \in [0 .. Len(q) -> Seq(Flit)] /\ f[0] = <<>>
  /\ \A k \in 1 .. Len(q) : f[k] = f[k - 1] \o OfVC(q[k], v)

LEMMA OfVCType ==
  ASSUME NEW x \in Flit, NEW v
  PROVE  OfVC(x, v) \in Seq(Flit) /\ Len(OfVC(x, v)) = IF x.vc = v THEN 1 ELSE 0
BY DEF OfVC

LEMMA Selection ==
  ASSUME NEW q \in Seq(Flit), NEW v
  PROVE  \E f : Selects(f, q, v) /\ OnVC(q, v) = f[Len(q)]
<1> DEFINE n == Len(q)
           T == Seq(Flit)
           next(k, s) == s \o OfVC(q[k], v)
           step == [k \in 1 .. n |-> [s \in T |-> next(k, s)]]
           body(g) == [k \in 0 .. n |-> IF k = 0 THEN <<>> ELSE next(k, g[k - 1])]
           kept == CHOOSE g : g = body(g)
<1>1. n \in Nat /\ <<>> \in T
  OBVIOUS
<1>2. OnVC(q, v) = kept[n]
  BY DEF OnVC, OfVC
<1>3. ASSUME NEW k \in 1 .. n, NEW s \in T PROVE next(k, s) \in T
  <2>1. q[k] \in Flit
    OBVIOUS
  <2>2. OfVC(q[k], v) \in T
    BY <2>1, OfVCType
  <2> HIDE DEF n
  <2> QED
    BY <2>2
<1> HIDE DEF next, T
<1>4. step \in [1 .. n -> [T -> T]] /\ \A k \in 1 .. n, s \in T : step[k][s] = next(k, s)
  BY <1>3
<1> HIDE DEF n, step
<1>5. PICK f : IsIteration(f, n, T, <<>>, step)
  BY <1>1, <1>4, Iterates
<1>6. \A k \in 1 .. n : f[k] = next(k, f[k - 1])
  <2> SUFFICES ASSUME NEW k \in 1 .. n PROVE f[k] = next(k, f[k - 1])
    OBVIOUS
  <2>1. f[k - 1] \in T /\ f[k] = step[k][f[k - 1]]
    BY <1>1, <1>5 DEF IsIteration
  <2> QED
    BY <1>4, <2>1
<1>7. f = body(f)
  <2>1. \A k \in 0 .. n : f[k] = IF k = 0 THEN <<>> ELSE next(k, f[k - 1])
    BY <1>1, <1>5, <1>6 DEF IsIteration
  <2> QED
    BY <1>5, <2>1 DEF IsIteration
<1>8. kept = body(kept)
  <2> HIDE DEF body
  <2> QED
    BY <1>7
<1> HIDE DEF kept
<1>9. kept[0] = <<>> /\ \A k \in 1 .. n : kept[k] = next(k, kept[k - 1])
  BY <1>1, <1>8
<1> DEFINE S == [k \in 0 .. n |-> {f[k]}]
<1>10. kept[n] = f[n]
  <2>1. kept[0] \in S[0]
    BY <1>1, <1>5, <1>9 DEF IsIteration
  <2>2. \A k \in 1 .. n : kept[k - 1] \in S[k - 1] => kept[k] \in S[k]
    BY <1>1, <1>6, <1>9
  <2> HIDE DEF S
  <2>3. \A k \in 0 .. n : kept[k] \in S[k]
    BY <1>1, <2>1, <2>2, IteratesThrough
  <2> QED
    BY <1>1, <2>3 DEF S
<1>11. Selects(f, q, v)
  BY <1>5, <1>6 DEF Selects, IsIteration, n, T, next
<1> QED
  BY <1>2, <1>10, <1>11 DEF n

(* The sequences of flits, under a name whose definition most steps leave   *)
(* alone.                                                                   *)
FlitLines == Seq(Flit)

LEMMA LinesAssociate ==
  \A s, t, u \in FlitLines : (s \o t) \o u = s \o (t \o u)
BY ConcatAssociative, SMTT(30) DEF FlitLines

(* Selecting distributes over concatenation. *)
LEMMA OnVCConcat ==
  ASSUME NEW a \in Seq(Flit), NEW b \in Seq(Flit), NEW v
  PROVE  OnVC(a \o b, v) = OnVC(a, v) \o OnVC(b, v)
<1> DEFINE m == Len(a)
           n == Len(b)
           T == Seq(Flit)
<1>1. /\ m \in Nat /\ n \in Nat /\ a \o b \in Seq(Flit) /\ Len(a \o b) = m + n
      /\ \A k \in 1 .. m : (a \o b)[k] = a[k]
      /\ \A k \in 1 .. n : (a \o b)[m + k] = b[k] /\ b[k] \in Flit
  OBVIOUS
<1>2. PICK f : Selects(f, a, v) /\ OnVC(a, v) = f[m]
  BY Selection
<1>3. PICK g : Selects(g, b, v) /\ OnVC(b, v) = g[n]
  BY Selection
<1>4. PICK h : Selects(h, a \o b, v) /\ OnVC(a \o b, v) = h[m + n]
  BY <1>1, Selection
<1> HIDE DEF m, n
<1> DEFINE q == a \o b
<1>a. /\ \A k \in 1 .. m : k \in 1 .. m + n /\ q[k] = a[k] /\ a[k] \in Flit
      /\ \A k \in 1 .. n : q[m + k] = b[k] /\ b[k] \in Flit
  BY <1>1 DEF m
<1>b. m \in Nat /\ n \in Nat
  BY <1>1
<1> HIDE DEF q
<1>5. h[0] = <<>> /\ f[0] = <<>> /\ g[0] = <<>>
  BY <1>2, <1>3, <1>4 DEF Selects
<1>6. \A k \in 1 .. m + n : h[k] = h[k - 1] \o OfVC(q[k], v)
  BY <1>1, <1>4 DEF Selects, q
<1>7. h[m] = f[m]
  <2> DEFINE S == [k \in 0 .. m |-> {f[k]}]
  <2>1. h[0] \in S[0]
    BY <1>1, <1>5
  <2>2. ASSUME NEW k \in 1 .. m, h[k - 1] \in S[k - 1] PROVE h[k] \in S[k]
    <3>1. f[k] = f[k - 1] \o OfVC(a[k], v)
      BY <1>2 DEF Selects, m
    <3>2. h[k] = h[k - 1] \o OfVC(a[k], v)
      BY <1>6, <1>a
    <3>3. k - 1 \in 0 .. m /\ k \in 0 .. m
      BY <1>b
    <3>4. h[k - 1] = f[k - 1]
      BY <2>2, <3>3
    <3>5. h[k] = f[k]
      BY ONLY <3>1, <3>2, <3>4
    <3> QED
      BY <3>3, <3>5
  <2> HIDE DEF S
  <2>3. \A k \in 0 .. m : h[k] \in S[k]
    BY <1>1, <2>1, <2>2, IteratesThrough
  <2> QED
    BY <1>1, <2>3 DEF S
<1>8. h[m + n] = f[m] \o g[n]
  <2> DEFINE S == [k \in 0 .. n |-> {f[m] \o g[k]}]
             e == [k \in 0 .. n |-> h[m + k]]
  <2>0. f[m] \in T
    BY <1>1, <1>2 DEF Selects, m
  <2>1. e[0] \in S[0]
    <3>1. f[m] \o <<>> = f[m]
      BY <2>0
    <3>2. e[0] = h[m] /\ S[0] = {f[m] \o g[0]}
      <4>1. 0 \in 0 .. n /\ m + 0 = m
        BY <1>b
      <4> QED
        BY ONLY <4>1
    <3> QED
      BY <1>5, <1>7, <3>1, <3>2
  <2>2. ASSUME NEW k \in 1 .. n, e[k - 1] \in S[k - 1] PROVE e[k] \in S[k]
    <3>1. g[k] = g[k - 1] \o OfVC(b[k], v) /\ g[k - 1] \in T
      <4>1. k - 1 \in 0 .. n
        BY <1>b
      <4> QED
        BY <1>3, <4>1 DEF Selects, n
    <3>2. h[m + k] = h[m + (k - 1)] \o OfVC(b[k], v)
      <4>1. m + k \in 1 .. m + n /\ (m + k) - 1 = m + (k - 1)
        BY <1>b
      <4>2. q[m + k] = b[k]
        BY <1>a
      <4> QED
        BY <1>6, <4>1, <4>2
    <3>3. h[m + (k - 1)] = f[m] \o g[k - 1]
      <4>1. k - 1 \in 0 .. n
        BY <1>1
      <4> QED
        BY <2>2, <4>1
    <3>4. OfVC(b[k], v) \in T
      BY <1>1, OfVCType
    <3>5. (f[m] \o g[k - 1]) \o OfVC(b[k], v) = f[m] \o (g[k - 1] \o OfVC(b[k], v))
      <4> DEFINE x == f[m]
                 y == g[k - 1]
                 z == OfVC(b[k], v)
      <4>1. x \in FlitLines /\ y \in FlitLines /\ z \in FlitLines
        BY <2>0, <3>1, <3>4 DEF FlitLines
      <4> HIDE DEF x, y, z
      <4>2. (x \o y) \o z = x \o (y \o z)
        BY <4>1, LinesAssociate, Zenon
      <4> QED
        BY <4>2 DEF x, y, z
    <3>6. k \in 0 .. n
      BY <1>1
    <3> QED
      BY <3>1, <3>2, <3>3, <3>5, <3>6
  <2>3. n \in 0 .. n /\ e[n] = h[m + n] /\ S[n] = {f[m] \o g[n]}
    BY <1>b
  <2> HIDE DEF S, e
  <2>4. \A k \in 0 .. n : e[k] \in S[k]
    BY <1>b, <2>1, <2>2, IteratesThrough
  <2> QED
    BY <2>3, <2>4
<1> QED
  BY <1>2, <1>3, <1>4, <1>7, <1>8

LEMMA LinesJoin ==
  ASSUME NEW s \in FlitLines, NEW t \in FlitLines, NEW v
  PROVE  OnVC(s \o t, v) = OnVC(s, v) \o OnVC(t, v)
BY OnVCConcat DEF FlitLines

LEMMA OnVCShort ==
  ASSUME NEW v
  PROVE  /\ OnVC(<<>>, v) = <<>>
         /\ \A x \in Flit : OnVC(<<x>>, v) = OfVC(x, v)
<1>1. OnVC(<<>>, v) = <<>>
  <2>1. <<>> \in Seq(Flit) /\ Len(<<>>) = 0
    OBVIOUS
  <2>2. PICK f : Selects(f, <<>>, v) /\ OnVC(<<>>, v) = f[0]
    BY <2>1, Selection
  <2> QED
    BY <2>2 DEF Selects
<1>2. ASSUME NEW x \in Flit PROVE OnVC(<<x>>, v) = OfVC(x, v)
  <2>1. <<x>> \in Seq(Flit) /\ Len(<<x>>) = 1 /\ <<x>>[1] = x
    OBVIOUS
  <2>2. PICK f : Selects(f, <<x>>, v) /\ OnVC(<<x>>, v) = f[1]
    BY <2>1, Selection
  <2>3. f[0] = <<>> /\ f[1] = f[1 - 1] \o OfVC(<<x>>[1], v)
    BY <2>1, <2>2 DEF Selects
  <2>4. f[1] = <<>> \o OfVC(x, v)
    <3>1. 1 - 1 = 0
      OBVIOUS
    <3> QED
      BY ONLY <2>1, <2>3, <3>1
  <2>5. OfVC(x, v) \in Seq(Flit)
    BY OfVCType
  <2> QED
    BY <2>2, <2>4, <2>5
<1> QED
  BY <1>1, <1>2

(* The flits selected are flits of the VC, and as many as there are. *)
LEMMA OnVCType ==
  ASSUME NEW q \in Seq(Flit), NEW v
  PROVE  OnVC(q, v) \in Seq(Flit)
<1>1. PICK f : Selects(f, q, v) /\ OnVC(q, v) = f[Len(q)]
  BY Selection
<1> QED
  BY <1>1 DEF Selects

(* The items of a channel's queue. *)
Items(q) == [i \in DOMAIN q |-> q[i].item]

LEMMA ItemsType ==
  ASSUME NEW q \in Seq([due : Int, item : Flit])
  PROVE  /\ Items(q) \in Seq(Flit) /\ Len(Items(q)) = Len(q)
         /\ \A i \in 1 .. Len(q) : Items(q)[i] = q[i].item /\ q[i].item \in Flit
<1> DEFINE E == [due : Int, item : Flit]
<1>1. DOMAIN q = 1 .. Len(q) /\ Len(q) \in Nat
  OBVIOUS
<1>2. \A i \in 1 .. Len(q) : q[i] \in E
  <2>1. q \in Seq(E)
    OBVIOUS
  <2> HIDE DEF E
  <2> QED
    BY <2>1
<1>3. \A i \in 1 .. Len(q) : q[i].item \in Flit
  BY <1>2
<1>4. Items(q) \in [1 .. Len(q) -> Flit] /\ \A i \in 1 .. Len(q) : Items(q)[i] = q[i].item
  BY <1>1, <1>3 DEF Items
<1>5. Items(q) \in Seq(Flit) /\ Len(Items(q)) = Len(q)
  BY <1>1, <1>4, SeqDef, SMTT(30)
<1> QED
  BY <1>3, <1>4, <1>5

LEMMA ItemsAppend ==
  ASSUME NEW q \in Seq([due : Int, item : Flit]), NEW e \in [due : Int, item : Flit]
  PROVE  Items(Append(q, e)) = Items(q) \o <<e.item>>
<1> DEFINE E == [due : Int, item : Flit]
           a == Append(q, e)
           b == Items(q) \o <<e.item>>
           n == Len(q) + 1
<1>1. /\ a \in Seq(E) /\ Len(a) = n /\ Len(q) \in Nat /\ a[n] = e
      /\ \A i \in 1 .. Len(q) : a[i] = q[i]
  <2>1. q \in Seq(E) /\ e \in E
    OBVIOUS
  <2> HIDE DEF E
  <2> QED
    BY <2>1
<1>2. e.item \in Flit
  OBVIOUS
<1>3. /\ Items(a) \in Seq(Flit) /\ Len(Items(a)) = n
      /\ \A i \in 1 .. n : Items(a)[i] = a[i].item
  <2>1. a \in Seq([due : Int, item : Flit])
    BY <1>1
  <2> HIDE DEF a, n
  <2> QED
    BY <1>1, <2>1, ItemsType
<1>4. /\ Items(q) \in Seq(Flit) /\ Len(Items(q)) = Len(q)
      /\ \A i \in 1 .. Len(q) : Items(q)[i] = q[i].item
  BY ItemsType
<1>5. /\ b \in Seq(Flit) /\ Len(b) = n /\ b[n] = e.item
      /\ \A i \in 1 .. Len(q) : b[i] = Items(q)[i]
  <2> DEFINE t == Items(q)
             x == e.item
  <2>1. t \in Seq(Flit) /\ x \in Flit /\ Len(t) = Len(q)
    BY <1>2, <1>4
  <2> HIDE DEF t, x
  <2>2. /\ t \o <<x>> \in Seq(Flit) /\ Len(t \o <<x>>) = n /\ (t \o <<x>>)[n] = x
        /\ \A i \in 1 .. Len(q) : (t \o <<x>>)[i] = t[i]
    BY <1>1, <2>1
  <2> QED
    BY <2>2 DEF t, x
<1>6. \A i \in 1 .. n : Items(a)[i] = b[i]
  <2> SUFFICES ASSUME NEW i \in 1 .. n PROVE Items(a)[i] = b[i]
    OBVIOUS
  <2> HIDE DEF a, b
  <2>1. CASE i = n
    BY <1>1, <1>3, <1>5, <2>1
  <2>2. CASE i # n
    <3>1. i \in 1 .. Len(q)
      BY <1>1, <2>2
    <3> HIDE DEF n
    <3> QED
      BY <1>1, <1>3, <1>4, <1>5, <3>1
  <2> QED
    BY <2>1, <2>2
<1> HIDE DEF a, b, n
<1>7. Items(a) = b
  BY <1>3, <1>5, <1>6, SeqEqual
<1> QED
  BY <1>7 DEF a, b

LEMMA ItemsTail ==
  ASSUME NEW q \in Seq([due : Int, item : Flit]), q # <<>>
  PROVE  Items(q) = <<Head(q).item>> \o Items(Tail(q))
<1> DEFINE E == [due : Int, item : Flit]
           a == Tail(q)
           n == Len(q)
           x == Head(q).item
           b == <<x>> \o Items(a)
<1>1. /\ a \in Seq(E) /\ n \in Nat \ {0} /\ Len(a) = n - 1 /\ Head(q) = q[1] /\ Head(q) \in E
      /\ \A i \in 1 .. n - 1 : a[i] = q[i + 1]
  <2>1. q \in Seq(E)
    OBVIOUS
  <2> HIDE DEF E
  <2> QED
    BY <2>1
<1>2. x \in Flit /\ x = q[1].item
  BY <1>1
<1>3. /\ Items(a) \in Seq(Flit) /\ Len(Items(a)) = n - 1
      /\ \A i \in 1 .. n - 1 : Items(a)[i] = a[i].item
  <2>1. a \in Seq([due : Int, item : Flit])
    BY <1>1
  <2> HIDE DEF a, n
  <2> QED
    BY <1>1, <2>1, ItemsType
<1>4. /\ Items(q) \in Seq(Flit) /\ Len(Items(q)) = n
      /\ \A i \in 1 .. n : Items(q)[i] = q[i].item
  BY ItemsType
<1>5. /\ b \in Seq(Flit) /\ Len(b) = n /\ b[1] = x
      /\ \A i \in 1 .. n - 1 : b[i + 1] = Items(a)[i]
  <2> DEFINE t == Items(a)
  <2>1. t \in Seq(Flit) /\ x \in Flit /\ Len(t) = n - 1 /\ n \in Nat \ {0}
    BY <1>1, <1>2, <1>3, Zenon
  <2> HIDE DEF t, x, n
  <2>2. /\ <<x>> \o t \in Seq(Flit) /\ Len(<<x>> \o t) = n /\ (<<x>> \o t)[1] = x
        /\ \A i \in 1 .. n - 1 : (<<x>> \o t)[i + 1] = t[i]
    BY <2>1
  <2> QED
    BY <2>2 DEF t
<1>6. \A i \in 1 .. n : Items(q)[i] = b[i]
  <2> SUFFICES ASSUME NEW i \in 1 .. n PROVE Items(q)[i] = b[i]
    OBVIOUS
  <2> HIDE DEF a, b, n, x
  <2>1. CASE i = 1
    BY <1>2, <1>4, <1>5, <2>1
  <2>2. CASE i # 1
    <3>1. i - 1 \in 1 .. n - 1 /\ (i - 1) + 1 = i
      BY <1>1, <2>2
    <3>2. Items(q)[i] = q[(i - 1) + 1].item
      BY <1>4, <3>1
    <3>3. b[(i - 1) + 1] = Items(a)[i - 1]
      BY <1>5, <3>1
    <3>4. Items(a)[i - 1] = a[i - 1].item
      BY <1>3, <3>1
    <3>5. a[i - 1] = q[(i - 1) + 1]
      BY <1>1, <3>1
    <3> QED
      BY ONLY <3>1, <3>2, <3>3, <3>4, <3>5
  <2> QED
    BY <2>1, <2>2
<1> HIDE DEF a, b, n
<1>7. Items(q) = b
  BY <1>4, <1>5, <1>6, SeqEqual
<1> QED
  BY <1>7 DEF a, b, x

(* Ageing leaves the items alone. *)
LEMMA ItemsAged ==
  ASSUME NEW q \in Seq([due : Int, item : Flit])
  PROVE  Items(Aged(q)) = Items(q)
<1> DEFINE E == [due : Int, item : Flit]
<1>1. \A i \in DOMAIN q : q[i] \in E
  <2>1. q \in Seq(E)
    OBVIOUS
  <2> HIDE DEF E
  <2> QED
    BY <2>1
<1>2. DOMAIN Aged(q) = DOMAIN q /\ \A i \in DOMAIN q : Aged(q)[i].item = q[i].item
  BY <1>1 DEF Aged
<1> QED
  BY <1>2 DEF Items

(* The items selected are as many as CreditConservation counts. *)
LEMMA SelectedCount ==
  ASSUME NEW q \in Seq([due : Int, item : Flit]), NEW v
  PROVE  Len(OnVC(Items(q), v)) = CountItems(q, FlitsFor(v))
<1> DEFINE E == [due : Int, item : Flit]
           n == Len(q)
           S == [k \in 0 .. n |-> {s \in Seq(Flit) : Len(s) = CountItems(SubSeq(q, 1, k), FlitsFor(v))}]
<1>1. n \in Nat /\ q \in Seq(E)
  OBVIOUS
<1>2. /\ Items(q) \in Seq(Flit) /\ Len(Items(q)) = n
      /\ \A i \in 1 .. n : Items(q)[i] = q[i].item /\ q[i].item \in Flit
  BY ItemsType
<1>3. PICK f : Selects(f, Items(q), v) /\ OnVC(Items(q), v) = f[n]
  BY <1>2, Selection
<1>4. f[0] \in S[0]
  <2>1. SubSeq(q, 1, 0) = <<>>
    BY <1>1
  <2>2. {i \in DOMAIN <<>> : <<>>[i].item \in FlitsFor(v)} = {}
    OBVIOUS
  <2>3. CountItems(SubSeq(q, 1, 0), FlitsFor(v)) = 0
    BY <2>1, <2>2, FS_EmptySet DEF CountItems
  <2>4. f[0] = <<>> /\ <<>> \in Seq(Flit) /\ Len(<<>>) = 0
    BY <1>3 DEF Selects
  <2>5. 0 \in 0 .. n
    BY <1>1
  <2> QED
    BY <2>3, <2>4, <2>5
<1>5. ASSUME NEW k \in 1 .. n, f[k - 1] \in S[k - 1] PROVE f[k] \in S[k]
  <2>1. k - 1 \in 0 .. n /\ k \in 0 .. n
    BY <1>1
  <2>2. f[k - 1] \in Seq(Flit) /\ Len(f[k - 1]) = CountItems(SubSeq(q, 1, k - 1), FlitsFor(v))
    BY <1>5, <2>1
  <2>3. f[k] = f[k - 1] \o OfVC(q[k].item, v) /\ q[k].item \in Flit /\ q[k] \in E
    <3>1. f[k] = f[k - 1] \o OfVC(Items(q)[k], v)
      BY <1>2, <1>3 DEF Selects
    <3>2. Items(q)[k] = q[k].item /\ q[k].item \in Flit
      BY <1>2
    <3>3. q[k] \in E
      <4> HIDE DEF E
      <4> QED
        BY <1>1
    <3> HIDE DEF E
    <3> QED
      BY <3>1, <3>2, <3>3
  <2>4. Len(OfVC(q[k].item, v)) = CountOne(q[k].item, FlitsFor(v))
        /\ OfVC(q[k].item, v) \in Seq(Flit)
    BY <2>3, OfVCType DEF CountOne, FlitsFor
  <2>5. SubSeq(q, 1, k) = Append(SubSeq(q, 1, k - 1), q[k]) /\ SubSeq(q, 1, k - 1) \in Seq(E)
    <3> HIDE DEF E
    <3> QED
      BY <1>1
  <2>6. CountItems(SubSeq(q, 1, k), FlitsFor(v))
          = CountItems(SubSeq(q, 1, k - 1), FlitsFor(v)) + CountOne(q[k].item, FlitsFor(v))
    <3> DEFINE s == SubSeq(q, 1, k - 1)
               x == q[k]
               R == FlitsFor(v)
    <3>1. s \in Seq(E) /\ x \in E
      BY <2>3, <2>5
    <3> HIDE DEF E, s, x, R
    <3>2. CountItems(Append(s, x), R) = CountItems(s, R) + CountOne(x.item, R)
      BY <3>1, CountAppend
    <3> QED
      BY <2>5, <3>2 DEF s, x, R
  <2>7. f[k] \in Seq(Flit) /\ Len(f[k]) = Len(f[k - 1]) + Len(OfVC(q[k].item, v))
    <3> DEFINE s == f[k - 1]
               t == OfVC(q[k].item, v)
    <3>1. s \in Seq(Flit) /\ t \in Seq(Flit) /\ f[k] = s \o t
      BY <2>2, <2>3, <2>4
    <3> HIDE DEF s, t
    <3>2. f[k] \in Seq(Flit) /\ Len(f[k]) = Len(s) + Len(t)
      BY <3>1
    <3> QED
      BY <3>2 DEF s, t
  <2> QED
    BY <2>1, <2>2, <2>4, <2>6, <2>7
<1>6. \A k \in 0 .. n : f[k] \in S[k]
  <2> HIDE DEF S, n
  <2> QED
    BY <1>1, <1>4, <1>5, IteratesThrough
<1>7. SubSeq(q, 1, n) = q /\ n \in 0 .. n
  BY <1>1
<1>8. f[n] \in S[n]
  BY <1>6, <1>7
<1> HIDE DEF n
<1> QED
  BY <1>3, <1>7, <1>8

-----------------------------------------------------------------------------
(* What each step does to the flits under way.                             *)

Just(x) == IF x = NoItem THEN <<>> ELSE <<x>>
Shown == IF phase = "evaluate" THEN <<>> ELSE Just(fOut)

LEMMA JustType == \A x \in Flit \cup {NoItem} : Just(x) \in Seq(Flit)
BY DEF Just

LEMMA UnderWay ==
  ASSUME TypeOK
  PROVE  /\ InFlight = Shown \o (Items(fWait) \o Just(fIn))
         /\ Shown \in Seq(Flit) /\ Items(fWait) \in Seq(Flit) /\ Just(fIn) \in Seq(Flit)
         /\ InFlight \in Seq(Flit)
         /\ \A v \in VC : FlitsOf(v) \in Seq(Flit)
<1>1. /\ fWait \in Seq([due : Int, item : Flit]) /\ fIn \in Flit \cup {NoItem}
      /\ fOut \in Flit \cup {NoItem}
  BY DEF TypeOK, Flits!TypeOK
<1>2. Shown \in Seq(Flit) /\ Items(fWait) \in Seq(Flit) /\ Just(fIn) \in Seq(Flit)
  <2>1. Items(fWait) \in Seq(Flit)
    BY <1>1, ItemsType
  <2>2. Just(fIn) \in Seq(Flit) /\ Just(fOut) \in Seq(Flit) /\ <<>> \in Seq(Flit)
    BY <1>1, JustType
  <2> QED
    BY <2>1, <2>2 DEF Shown
<1>3. InFlight = Shown \o (Items(fWait) \o Just(fIn))
  BY DEF InFlight, Flits!Pending, Items, Shown, Just
<1>4. InFlight \in Seq(Flit)
  BY <1>2, <1>3
<1> QED
  BY <1>2, <1>3, <1>4, OnVCType DEF FlitsOf

(* As many as CreditConservation counts. *)
LEMMA FlitsCounted ==
  ASSUME TypeOK, NEW v \in VC
  PROVE  Len(FlitsOf(v)) = FlitCount(v)
<1> DEFINE a == OnVC(Shown, v)
           b == OnVC(Items(fWait), v)
           c == OnVC(Just(fIn), v)
<1>1. /\ fWait \in Seq([due : Int, item : Flit]) /\ fIn \in Flit \cup {NoItem}
      /\ fOut \in Flit \cup {NoItem}
  BY DEF TypeOK, Flits!TypeOK
<1>2. /\ Shown \in Seq(Flit) /\ Items(fWait) \in Seq(Flit) /\ Just(fIn) \in Seq(Flit)
      /\ InFlight = Shown \o (Items(fWait) \o Just(fIn))
  BY UnderWay
<1>3. a \in Seq(Flit) /\ b \in Seq(Flit) /\ c \in Seq(Flit)
  BY <1>2, OnVCType
<1>4. FlitsOf(v) = a \o (b \o c)
  <2> DEFINE x == Shown
             y == Items(fWait)
             z == Just(fIn)
  <2>1. x \in FlitLines /\ y \in FlitLines /\ z \in FlitLines
    BY <1>2 DEF FlitLines
  <2>2. FlitsOf(v) = OnVC(x \o (y \o z), v)
    BY <1>2 DEF FlitsOf
  <2>3. a = OnVC(x, v) /\ b = OnVC(y, v) /\ c = OnVC(z, v)
    OBVIOUS
  <2> HIDE DEF a, b, c, x, y, z
  <2>j. \A s, t \in FlitLines : OnVC(s \o t, v) = OnVC(s, v) \o OnVC(t, v)
    BY LinesJoin
  <2>4. OnVC(y \o z, v) = OnVC(y, v) \o OnVC(z, v)
    BY <2>1, <2>j, Zenon
  <2>5. y \o z \in FlitLines
    BY <2>1 DEF FlitLines
  <2>6. OnVC(x \o (y \o z), v) = OnVC(x, v) \o OnVC(y \o z, v)
    BY <2>1, <2>5, <2>j, Zenon
  <2> QED
    BY <2>2, <2>3, <2>4, <2>6, Zenon
<1>5. \A x \in Flit \cup {NoItem} : Len(OnVC(Just(x), v)) = CountOne(x, FlitsFor(v))
  <2> SUFFICES ASSUME NEW x \in Flit \cup {NoItem}
               PROVE  Len(OnVC(Just(x), v)) = CountOne(x, FlitsFor(v))
    OBVIOUS
  <2>1. CASE x = NoItem
    <3>1. Just(x) = <<>> /\ OnVC(<<>>, v) = <<>> /\ Len(<<>>) = 0
      BY <2>1, OnVCShort DEF Just
    <3>2. CountOne(x, FlitsFor(v)) = 0
      BY <2>1, NoItemAssumption DEF CountOne, FlitsFor
    <3> QED
      BY <3>1, <3>2
  <2>2. CASE x # NoItem
    <3>1. x \in Flit /\ Just(x) = <<x>>
      BY <2>2 DEF Just
    <3>2. OnVC(Just(x), v) = OfVC(x, v)
      BY <3>1, OnVCShort
    <3> QED
      BY <3>1, <3>2, OfVCType DEF CountOne, FlitsFor
  <2> QED
    BY <2>1, <2>2
<1>6. Len(c) = CountOne(fIn, FlitsFor(v))
  BY <1>1, <1>5
<1>7. Len(a) = IF phase = "read" THEN CountOne(fOut, FlitsFor(v)) ELSE 0
  <2>1. phase \in {"read", "evaluate"}
    BY DEF TypeOK
  <2>2. CASE phase = "read"
    <3>1. Shown = Just(fOut)
      BY <2>2 DEF Shown
    <3> QED
      BY <1>1, <1>5, <2>2, <3>1
  <2>3. CASE phase = "evaluate"
    <3>1. Shown = <<>> /\ OnVC(<<>>, v) = <<>> /\ Len(<<>>) = 0
      BY <2>3, OnVCShort DEF Shown
    <3> QED
      BY <2>3, <3>1
  <2> QED
    BY <2>1, <2>2, <2>3
<1>8. Len(b) = CountItems(fWait, FlitsFor(v))
  BY <1>1, SelectedCount
<1> HIDE DEF a, b, c
<1>9. Len(a \o (b \o c)) = Len(a) + (Len(b) + Len(c)) /\ Len(a) \in Nat /\ Len(b) \in Nat /\ Len(c) \in Nat
  BY <1>3
<1> QED
  BY <1>4, <1>6, <1>7, <1>8, <1>9 DEF FlitCount, CountChannel

(* A flit sent joins those under way at the end. *)
LEMMA SentLast ==
  ASSUME TypeOK, NEW v \in VC, NEW tail \in BOOLEAN, SendFlit(v, tail), NEW w \in VC
  PROVE  FlitsOf(w)' = FlitsOf(w) \o OfVC([vc |-> v, pid |-> pid[v], tail |-> tail], w)
<1> DEFINE f == [vc |-> v, pid |-> pid[v], tail |-> tail]
           a == Shown
           b == Items(fWait)
<1>1. f \in Flit
  BY DEF TypeOK, Flit
<1>2. fIn = NoItem /\ fIn' = f /\ UNCHANGED <<phase, fWait, fOut>>
  BY DEF SendFlit, Flits!Send
<1>3. /\ a \in Seq(Flit) /\ b \in Seq(Flit)
      /\ InFlight = a \o (b \o Just(fIn))
  BY UnderWay
<1>4. InFlight' = a \o (b \o Just(f))
  BY <1>2 DEF InFlight, Flits!Pending, Items, Shown, Just
<1>5. Just(fIn) = <<>> /\ Just(f) = <<f>>
  BY <1>1, <1>2, NoItemAssumption DEF Just
<1> HIDE DEF f, a, b
<1>6. /\ a \o (b \o <<>>) = a \o b /\ a \o b \in Seq(Flit) /\ <<f>> \in Seq(Flit)
      /\ a \o (b \o <<f>>) = (a \o b) \o <<f>>
  <2> DEFINE t == <<f>>
  <2>1. t \in Seq(Flit)
    BY <1>1
  <2> HIDE DEF t
  <2>2. a \o (b \o t) = (a \o b) \o t
    <3>1. a \in FlitLines /\ b \in FlitLines /\ t \in FlitLines
      BY <1>3, <2>1 DEF FlitLines
    <3> QED
      BY <3>1, LinesAssociate, Zenon
  <2>3. a \o (b \o <<>>) = a \o b /\ a \o b \in Seq(Flit)
    BY <1>3
  <2> QED
    BY <2>1, <2>2, <2>3 DEF t
<1>7. InFlight' = InFlight \o <<f>> /\ InFlight \in Seq(Flit)
  BY <1>3, <1>4, <1>5, <1>6
<1>8. OnVC(InFlight \o <<f>>, w) = OnVC(InFlight, w) \o OnVC(<<f>>, w)
  <2> DEFINE t == <<f>>
             s == InFlight
  <2>1. s \in FlitLines /\ t \in FlitLines
    BY <1>6, <1>7 DEF FlitLines
  <2> HIDE DEF s, t
  <2>2. OnVC(s \o t, w) = OnVC(s, w) \o OnVC(t, w)
    BY <2>1, LinesJoin, Zenon
  <2> QED
    BY <2>2 DEF s, t
<1>9. OnVC(<<f>>, w) = OfVC(f, w)
  BY <1>1, OnVCShort
<1>10. FlitsOf(w)' = OnVC(InFlight', w)
  BY DEF FlitsOf
<1> QED
  BY <1>7, <1>8, <1>9, <1>10 DEF FlitsOf, f

(* The flit that the receiver reads is the first of those under way. *)
LEMMA ReadFirst ==
  ASSUME TypeOK, ReadInputs, NEW w \in VC
  PROVE  /\ FlitsOf(w) = OnVC(Just(fOut), w) \o FlitsOf(w)'
         /\ FlitsOf(w)' \in Seq(Flit)
<1> DEFINE a == Just(fOut)
           b == Items(fWait)
           c == Just(fIn)
<1>1. phase = "read" /\ phase' = "evaluate" /\ UNCHANGED fOut /\ Flits!ReadInputs
  BY DEF ReadInputs
<1>2. /\ fWait \in Seq([due : Int, item : Flit]) /\ fIn \in Flit \cup {NoItem}
      /\ fOut \in Flit \cup {NoItem}
  BY DEF TypeOK, Flits!TypeOK
<1>3. /\ a \in Seq(Flit) /\ b \in Seq(Flit) /\ c \in Seq(Flit)
      /\ InFlight = a \o (b \o c)
  BY <1>1, UnderWay DEF Shown
<1>4. fIn' = NoItem /\ Items(fWait') = b \o c
  <2>1. CASE fIn = NoItem
    <3>1. fWait' = fWait /\ fIn' = NoItem /\ c = <<>>
      BY <1>1, <2>1 DEF Flits!ReadInputs, Just
    <3> HIDE DEF c
    <3>2. b \o <<>> = b
      <4> HIDE DEF b
      <4> QED
        BY <1>3
    <3> QED
      BY <3>1, <3>2
  <2>2. CASE fIn # NoItem
    <3> DEFINE e == [due |-> FlitDelay - 1, item |-> fIn]
    <3>1. fIn \in Flit /\ c = <<fIn>> /\ fIn' = NoItem /\ fWait' = Append(fWait, e)
      BY <1>1, <1>2, <2>2 DEF Flits!ReadInputs, Just
    <3>2. e \in [due : Int, item : Flit] /\ e.item = fIn
      BY <3>1, Sizes
    <3> HIDE DEF e
    <3>3. Items(Append(fWait, e)) = Items(fWait) \o <<e.item>>
      BY <1>2, <3>2, ItemsAppend
    <3> HIDE DEF c
    <3> QED
      BY <3>1, <3>2, <3>3
  <2> QED
    BY <2>1, <2>2
<1>5. InFlight' = <<>> \o ((b \o c) \o <<>>)
  <2>1. Items(fWait)' = b \o c
    BY <1>4
  <2> HIDE DEF b, c
  <2>2. InFlight' = <<>> \o (Items(fWait)' \o <<>>)
    BY <1>1, <1>4 DEF InFlight, Flits!Pending, Items
  <2> QED
    BY <2>1, <2>2
<1> HIDE DEF a, b, c
<1>6. InFlight' = b \o c /\ InFlight' \in Seq(Flit)
  <2> DEFINE t == b \o c
  <2>1. t \in Seq(Flit)
    BY <1>3
  <2> HIDE DEF t
  <2>2. <<>> \o (t \o <<>>) = t
    BY <2>1
  <2> QED
    BY <1>5, <2>1, <2>2 DEF t
<1>7. InFlight = a \o InFlight'
  BY <1>3, <1>6
<1> DEFINE t == InFlight'
<1>8. t \in Seq(Flit) /\ FlitsOf(w)' = OnVC(t, w) /\ FlitsOf(w) = OnVC(a \o t, w)
  BY <1>6, <1>7 DEF FlitsOf
<1> HIDE DEF t
<1>9. OnVC(a \o t, w) = OnVC(a, w) \o OnVC(t, w) /\ OnVC(t, w) \in Seq(Flit)
  <2>1. OnVC(a \o t, w) = OnVC(a, w) \o OnVC(t, w)
    <3>1. a \in FlitLines /\ t \in FlitLines
      BY <1>3, <1>8 DEF FlitLines
    <3> QED
      BY <3>1, LinesJoin, Zenon
  <2>2. OnVC(t, w) \in Seq(Flit)
    BY <1>8, OnVCType
  <2> QED
    BY <2>1, <2>2
<1> QED
  BY <1>8, <1>9 DEF a

(* The flit that a channel delivers stays the first of those under way. *)
LEMMA WriteSame ==
  ASSUME TypeOK, WriteOutputs
  PROVE  InFlight' = InFlight
<1> DEFINE b == Items(fWait)
           c == Just(fIn)
<1>1. phase = "evaluate" /\ phase' = "read" /\ UNCHANGED fIn /\ Flits!WriteOutputs
  BY DEF WriteOutputs
<1>2. fWait \in Seq([due : Int, item : Flit]) /\ fIn \in Flit \cup {NoItem}
  BY DEF TypeOK, Flits!TypeOK
<1>3. b \in Seq(Flit) /\ c \in Seq(Flit)
  BY UnderWay
<1>4. InFlight = b \o c
  <2>1. InFlight = <<>> \o (b \o c)
    BY <1>1, UnderWay DEF Shown
  <2> HIDE DEF b, c
  <2> QED
    BY <1>3, <2>1
<1>5. InFlight' = Just(fOut') \o (Items(fWait') \o c)
  BY <1>1 DEF InFlight, Flits!Pending, Items, Just
<1>6. CASE fWait # <<>> /\ Head(fWait).due <= 0
  <2>1. fWait' = Aged(Tail(fWait)) /\ fOut' = Head(fWait).item
    BY <1>1, <1>6 DEF Flits!WriteOutputs, Flits!Arrived, Flits!Age, Aged
  <2>2. Tail(fWait) \in Seq([due : Int, item : Flit]) /\ Head(fWait).item \in Flit
    <3> DEFINE E == [due : Int, item : Flit]
    <3>1. fWait \in Seq(E)
      BY <1>2
    <3> HIDE DEF E
    <3>2. Tail(fWait) \in Seq(E) /\ Head(fWait) \in E
      BY <1>6, <3>1
    <3> QED
      BY <3>2 DEF E
  <2> DEFINE x == Head(fWait).item
             t == Items(Tail(fWait))
  <2>3. Items(fWait') = t /\ b = <<x>> \o t
    BY <1>2, <1>6, <2>1, <2>2, ItemsAged, ItemsTail
  <2>4. Just(fOut') = <<x>>
    BY <2>1, <2>2, NoItemAssumption DEF Just
  <2>5. t \in Seq(Flit) /\ <<x>> \in Seq(Flit)
    <3>1. t \in Seq(Flit)
      BY <2>2, ItemsType
    <3>2. x \in Flit
      BY <2>2
    <3> HIDE DEF x, t
    <3> QED
      BY <3>1, <3>2
  <2> DEFINE y == <<x>>
  <2> HIDE DEF b, c, t, x, y
  <2>6. y \o (t \o c) = (y \o t) \o c
    <3>1. y \in FlitLines /\ t \in FlitLines /\ c \in FlitLines
      BY <1>3, <2>5 DEF y, FlitLines
    <3> QED
      BY <3>1, LinesAssociate, Zenon
  <2> QED
    BY <1>4, <1>5, <2>3, <2>4, <2>6 DEF y
<1>7. CASE ~(fWait # <<>> /\ Head(fWait).due <= 0)
  <2>1. fWait' = Aged(fWait) /\ fOut' = NoItem
    BY <1>1, <1>7 DEF Flits!WriteOutputs, Flits!Arrived, Flits!Age, Aged
  <2>2. Items(fWait') = b /\ Just(fOut') = <<>>
    BY <1>2, <2>1, ItemsAged DEF Just
  <2> HIDE DEF b, c
  <2>3. <<>> \o (b \o c) = b \o c
    BY <1>3
  <2> QED
    BY <1>4, <1>5, <2>2, <2>3
<1> QED
  BY <1>6, <1>7

-----------------------------------------------------------------------------
(* Packets are not interleaved.  The flits of a VC are read as a chain:    *)
(* each one opens a packet, goes on with it or ends it, and so does the    *)
(* next flit that the sender will send on this VC.                         *)

(* The packet that is open behind flit i of the sequence q, -1 if none;    *)
(* before the first it is the one that the receiver expects.               *)
OpenAfter(q, e, i) == IF i = 0 THEN e ELSE IF q[i].tail THEN -1 ELSE q[i].pid

Chained(q, e) == \A i \in 1 .. Len(q) : OpenAfter(q, e, i - 1) \in {-1, q[i].pid}

OInv ==
  \A v \in VC :
    LET last == OpenAfter(FlitsOf(v), expected[v], Len(FlitsOf(v)))
    IN  /\ Chained(FlitsOf(v), expected[v])
        /\ last # -1 => v \in Open /\ pid[v] = last

(* A flit that goes on with the open packet, or starts one, lengthens the chain. *)
LEMMA ChainGrows ==
  ASSUME NEW q \in Seq(Flit), NEW e, NEW f \in Flit, Chained(q, e),
         OpenAfter(q, e, Len(q)) \in {-1, f.pid}
  PROVE  /\ Chained(q \o <<f>>, e)
         /\ Len(q \o <<f>>) = Len(q) + 1
         /\ OpenAfter(q \o <<f>>, e, Len(q) + 1) = IF f.tail THEN -1 ELSE f.pid
<1> DEFINE r == q \o <<f>>
           n == Len(q)
<1>1. /\ n \in Nat /\ Len(r) = n + 1 /\ r[n + 1] = f
      /\ \A i \in 1 .. n : r[i] = q[i]
  OBVIOUS
<1> HIDE DEF r, n
<1>2. \A i \in 0 .. n : OpenAfter(r, e, i) = OpenAfter(q, e, i)
  BY <1>1 DEF OpenAfter
<1>3. ASSUME NEW i \in 1 .. n + 1 PROVE OpenAfter(r, e, i - 1) \in {-1, r[i].pid}
  <2>1. i - 1 \in 0 .. n
    BY <1>1
  <2>2. OpenAfter(r, e, i - 1) = OpenAfter(q, e, i - 1)
    BY <1>2, <2>1
  <2>3. CASE i = n + 1
    <3>1. i - 1 = n
      BY <1>1, <2>3
    <3> QED
      BY <1>1, <2>2, <2>3, <3>1 DEF n
  <2>4. CASE i # n + 1
    <3>1. i \in 1 .. n
      BY <1>1, <2>4
    <3> QED
      BY <1>1, <2>2, <3>1 DEF Chained, n
  <2> QED
    BY <2>3, <2>4
<1>4. OpenAfter(r, e, n + 1) = IF f.tail THEN -1 ELSE f.pid
  BY <1>1 DEF OpenAfter
<1> QED
  BY <1>1, <1>3, <1>4 DEF Chained, r, n

(* The first flit leaves a chain for the one that expects what it leaves open. *)
LEMMA ChainMoves ==
  ASSUME NEW q \in Seq(Flit), NEW e, NEW f \in Flit, Chained(<<f>> \o q, e)
  PROVE  LET d == IF f.tail THEN -1 ELSE f.pid
         IN  /\ Chained(q, d)
             /\ OpenAfter(q, d, Len(q)) = OpenAfter(<<f>> \o q, e, Len(<<f>> \o q))
<1> DEFINE r == <<f>> \o q
           n == Len(q)
           d == IF f.tail THEN -1 ELSE f.pid
<1>1. /\ n \in Nat /\ Len(r) = n + 1 /\ r[1] = f
      /\ \A i \in 1 .. n : r[i + 1] = q[i]
  OBVIOUS
<1> HIDE DEF r, n
<1>2. \A i \in 0 .. n : OpenAfter(q, d, i) = OpenAfter(r, e, i + 1)
  <2> SUFFICES ASSUME NEW i \in 0 .. n PROVE OpenAfter(q, d, i) = OpenAfter(r, e, i + 1)
    OBVIOUS
  <2>1. CASE i = 0
    BY <1>1, <2>1 DEF OpenAfter
  <2>2. CASE i # 0
    <3>1. i \in 1 .. n /\ i + 1 # 0
      BY <1>1, <2>2
    <3> QED
      BY <1>1, <2>2, <3>1 DEF OpenAfter
  <2> QED
    BY <2>1, <2>2
<1> HIDE DEF d
<1>3. ASSUME NEW i \in 1 .. n PROVE OpenAfter(q, d, i - 1) \in {-1, q[i].pid}
  <2>1. i - 1 \in 0 .. n /\ (i - 1) + 1 = i /\ i + 1 \in 1 .. n + 1 /\ (i + 1) - 1 = i
    BY <1>1
  <2>2. OpenAfter(q, d, i - 1) = OpenAfter(r, e, i)
    BY <1>2, <2>1
  <2>3. OpenAfter(r, e, i) \in {-1, r[i + 1].pid}
    BY <1>1, <2>1 DEF Chained, r
  <2> QED
    BY <1>1, <2>2, <2>3
<1>4. OpenAfter(q, d, n) = OpenAfter(r, e, n + 1)
  BY <1>1, <1>2
<1> QED
  BY <1>1, <1>3, <1>4 DEF Chained, r, n, d

LEMMA OrderInit == Init => OInv
<1> SUFFICES ASSUME Init, NEW v \in VC
             PROVE  FlitsOf(v) = <<>> /\ expected[v] = -1
  BY DEF OInv, Chained, OpenAfter
<1>1. fIn = NoItem /\ fWait = <<>> /\ fOut = NoItem /\ phase = "read"
  BY DEF Init, Flits!Init
<1>2. InFlight = <<>> \o (Items(<<>>) \o <<>>)
  BY <1>1 DEF InFlight, Flits!Pending, Items
<1>3. Items(<<>>) = <<>>
  <2>1. <<>> \in Seq([due : Int, item : Flit]) /\ Len(<<>>) = 0
    OBVIOUS
  <2>2. Items(<<>>) \in Seq(Flit) /\ Len(Items(<<>>)) = 0
    BY <2>1, ItemsType
  <2> QED
    BY <2>2
<1>4. InFlight = <<>>
  BY <1>2, <1>3
<1> QED
  BY <1>4, OnVCShort DEF FlitsOf, Init

LEMMA OrderStep ==
  ASSUME IInv, OInv, [Next]_vars
  PROVE  OInv'
<1> DEFINE F(v) == FlitsOf(v)
           last(v) == OpenAfter(F(v), expected[v], Len(F(v)))
<1>1. TypeOK /\ pid \in [VC -> Pid] /\ inUse \in [VC -> BOOLEAN] /\ tailSent \in [VC -> BOOLEAN]
      /\ expected \in [VC -> Pid \cup {-1}]
  BY DEF IInv, TypeOK
<1>2. \A v \in VC : F(v) \in Seq(Flit)
  BY <1>1, UnderWay
<1>3. \A v \in VC : Chained(F(v), expected[v]) /\ (last(v) # -1 => v \in Open /\ pid[v] = last(v))
  BY DEF OInv
<1> SUFFICES ASSUME NEW w \in VC
             PROVE  Chained(F(w)', expected'[w]) /\ (last(w)' # -1 => w \in Open' /\ pid'[w] = last(w)')
  BY DEF OInv
(* A step that leaves the flits and the packets of the VC alone. *)
<1>4. ASSUME F(w)' = F(w), expected'[w] = expected[w], pid'[w] = pid[w], w \in Open => w \in Open'
      PROVE  Chained(F(w)', expected'[w]) /\ (last(w)' # -1 => w \in Open' /\ pid'[w] = last(w)')
  <2>1. last(w)' = last(w)
    BY <1>4
  <2> QED
    BY <1>3, <1>4, <2>1
<1>5. CASE ReadInputs
  <2>1. pid' = pid /\ fOut \in Flit \cup {NoItem}
    BY <1>1, <1>5 DEF ReadInputs, TypeOK, Flits!TypeOK
  <2>2. F(w) = OnVC(Just(fOut), w) \o F(w)' /\ F(w)' \in Seq(Flit)
    BY <1>1, <1>5, ReadFirst
  <2>3. w \in Open => w \in Open'
    <3>1. CASE cOut = NoItem
      <4>1. inUse' = inUse /\ tailSent' = tailSent
        BY <1>5, <3>1 DEF ReadInputs, Credits!Receive, stateVars
      <4> QED
        BY <4>1 DEF Open
    <3>2. CASE cOut # NoItem
      <4>1. /\ inUse' = [v \in VC |-> inUse[v] /\ v \notin Released(cOut.vc)]
            /\ tailSent' = tailSent
        BY <1>5, <3>2 DEF ReadInputs, Credits!Receive, ProcessCredit
      <4> QED
        BY <4>1 DEF Open, Released
    <3> QED
      BY <3>1, <3>2
  <2>4. CASE fOut = NoItem \/ fOut.vc # w
    <3>1. OnVC(Just(fOut), w) = <<>>
      <4>1. CASE fOut = NoItem
        BY <4>1, OnVCShort DEF Just
      <4>2. CASE fOut # NoItem
        <5>1. fOut \in Flit /\ Just(fOut) = <<fOut>>
          BY <2>1, <4>2 DEF Just
        <5> QED
          BY <2>4, <4>2, <5>1, OnVCShort DEF OfVC
      <4> QED
        BY <4>1, <4>2
    <3>2. F(w)' = F(w)
      <4> DEFINE q == F(w)'
      <4>1. q \in Seq(Flit) /\ F(w) = <<>> \o q
        BY <2>2, <3>1
      <4> HIDE DEF q
      <4> QED
        BY <4>1 DEF q
    <3>3. expected'[w] = expected[w]
      <4>1. CASE fOut = NoItem
        BY <1>5, <4>1 DEF ReadInputs, Flits!Receive, bufferVars
      <4>2. CASE fOut # NoItem
        <5>1. expected' = [expected EXCEPT ![fOut.vc] = IF fOut.tail THEN -1 ELSE fOut.pid]
          BY <1>5, <4>2 DEF ReadInputs, Flits!Receive, AddFlit
        <5> QED
          BY <1>1, <2>4, <4>2, <5>1
      <4> QED
        BY <4>1, <4>2
    <3> HIDE DEF F, last
    <3> QED
      BY <1>4, <2>1, <2>3, <3>2, <3>3
  <2>5. CASE fOut # NoItem /\ fOut.vc = w
    <3> DEFINE d == IF fOut.tail THEN -1 ELSE fOut.pid
               q == F(w)'
    <3>1. fOut \in Flit /\ OnVC(Just(fOut), w) = <<fOut>>
      <4>1. fOut \in Flit /\ Just(fOut) = <<fOut>>
        BY <2>1, <2>5 DEF Just
      <4> QED
        BY <2>5, <4>1, OnVCShort DEF OfVC
    <3>2. expected'[w] = d
      <4>1. expected' = [expected EXCEPT ![fOut.vc] = d]
        BY <1>5, <2>5 DEF ReadInputs, Flits!Receive, AddFlit
      <4> QED
        BY <1>1, <2>5, <4>1
    <3>3. F(w) = <<fOut>> \o q /\ q \in Seq(Flit)
      BY <2>2, <3>1
    <3>4. last(w)' = OpenAfter(q, d, Len(q))
      BY <3>2
    <3> HIDE DEF q
    <3>5. Chained(q, d) /\ OpenAfter(q, d, Len(q)) = OpenAfter(<<fOut>> \o q, expected[w], Len(<<fOut>> \o q))
      <4>1. Chained(<<fOut>> \o q, expected[w])
        BY <1>3, <3>3
      <4> QED
        BY <3>1, <3>3, <4>1, ChainMoves
    <3>6. OpenAfter(q, d, Len(q)) = last(w)
      BY <3>3, <3>5
    <3> HIDE DEF last, d, F
    <3>7. last(w)' = last(w)
      BY <3>4, <3>6
    <3> QED
      BY <1>3, <2>1, <2>3, <3>2, <3>5, <3>7 DEF q
  <2> QED
    BY <2>4, <2>5
<1>6. ASSUME NEW v \in VC, AllocateVC(v) PROVE Chained(F(w)', expected'[w]) /\ (last(w)' # -1 => w \in Open' /\ pid'[w] = last(w)')
  <2>1. /\ ~inUse[v] /\ pid' = [pid EXCEPT ![v] = 1 - @] /\ expected' = expected
        /\ inUse' = [inUse EXCEPT ![v] = TRUE] /\ tailSent' = [tailSent EXCEPT ![v] = FALSE]
        /\ UNCHANGED <<phase, fIn, fWait, fOut>>
    BY <1>6 DEF AllocateVC, IsAvailableFor, TakeBuffer, flitVars, bufferVars
  <2>2. F(w)' = F(w)
    BY <2>1 DEF FlitsOf, InFlight, Flits!Pending
  <2>3. last(w)' = last(w) /\ Chained(F(w)', expected'[w])
    BY <1>3, <2>1, <2>2
  <2> HIDE DEF F, last
  <2>4. CASE w = v
    <3>1. last(w) = -1
      BY <1>3, <2>1, <2>4 DEF Open
    <3> QED
      BY <2>3, <3>1
  <2>5. CASE w # v
    <3>1. pid'[w] = pid[w] /\ (w \in Open => w \in Open')
      BY <1>1, <2>1, <2>5 DEF Open
    <3> QED
      BY <1>3, <2>3, <3>1
  <2> QED
    BY <2>4, <2>5
<1>7. ASSUME NEW v \in VC, NEW tail \in BOOLEAN, SendFlit(v, tail)
      PROVE  Chained(F(w)', expected'[w]) /\ (last(w)' # -1 => w \in Open' /\ pid'[w] = last(w)')
  <2> DEFINE f == [vc |-> v, pid |-> pid[v], tail |-> tail]
  <2>1. f \in Flit /\ f.vc = v /\ f.pid = pid[v] /\ f.tail = tail
    BY <1>1 DEF Flit
  <2>2. /\ inUse[v] /\ ~tailSent[v] /\ pid' = pid /\ expected' = expected
        /\ tailSent' = [tailSent EXCEPT ![v] = @ \/ tail]
        /\ inUse' = [inUse EXCEPT ![v] = @ /\ (tail => config.waitTail)]
    BY <1>7 DEF SendFlit, SendingFlit, bufferVars
  <2>3. F(w)' = F(w) \o OfVC(f, w)
    BY <1>1, <1>7, SentLast
  <2> HIDE DEF f
  <2>4. CASE w = v
    <3>1. F(w)' = F(w) \o <<f>>
      BY <2>1, <2>3, <2>4 DEF OfVC
    <3>2. last(w) \in {-1, f.pid}
      <4> HIDE DEF last
      <4> QED
        BY <1>3, <2>1, <2>4
    <3> DEFINE q == F(w)
               e == expected[w]
    <3>3. q \in Seq(Flit) /\ Chained(q, e) /\ OpenAfter(q, e, Len(q)) \in {-1, f.pid}
      BY <1>2, <1>3, <3>2
    <3>4. Chained(F(w)', expected'[w]) /\ last(w)' = OpenAfter(q \o <<f>>, e, Len(q) + 1)
          /\ OpenAfter(q \o <<f>>, e, Len(q) + 1) = IF f.tail THEN -1 ELSE f.pid
      <4>1. /\ Chained(q \o <<f>>, e) /\ Len(q \o <<f>>) = Len(q) + 1
            /\ OpenAfter(q \o <<f>>, e, Len(q) + 1) = IF f.tail THEN -1 ELSE f.pid
        <5> HIDE DEF q, e
        <5> QED
          BY <2>1, <3>3, ChainGrows
      <4> QED
        BY <2>2, <3>1, <4>1
    <3>5. CASE tail
      BY <2>1, <3>4, <3>5
    <3>6. CASE ~tail
      <4>1. last(w)' = pid[v] /\ w \in Open'
        BY <1>1, <2>1, <2>2, <2>4, <3>4, <3>6 DEF Open
      <4> QED
        BY <2>2, <2>4, <3>4, <4>1
    <3> QED
      BY <3>5, <3>6
  <2>5. CASE w # v
    <3>1. OfVC(f, w) = <<>>
      BY <2>1, <2>5 DEF OfVC
    <3>2. F(w)' = F(w)
      <4> DEFINE q == F(w)
      <4>1. q \in Seq(Flit) /\ F(w)' = q \o <<>>
        BY <1>2, <2>3, <3>1
      <4> HIDE DEF q
      <4>2. q \o <<>> = q
        BY <4>1
      <4> QED
        BY <4>1, <4>2 DEF q
    <3>3. w \in Open => w \in Open'
      BY <1>1, <2>2, <2>5 DEF Open
    <3> HIDE DEF F, last
    <3> QED
      BY <1>4, <2>2, <3>2, <3>3
  <2> QED
    BY <2>4, <2>5
<1>8. ASSUME NEW v \in VC, RemoveFlit(v)
      PROVE  Chained(F(w)', expected'[w]) /\ (last(w)' # -1 => w \in Open' /\ pid'[w] = last(w)')
  <2>1. UNCHANGED <<inUse, tailSent, pid, expected, phase, fIn, fWait, fOut>>
    BY <1>8 DEF RemoveFlit, stateVars, flitVars
  <2>2. F(w)' = F(w)
    BY <2>1 DEF FlitsOf, InFlight, Flits!Pending
  <2>3. w \in Open => w \in Open'
    BY <2>1 DEF Open
  <2> HIDE DEF F, last
  <2> QED
    BY <1>4, <2>1, <2>2, <2>3
<1>9. CASE WriteOutputs
  <2>1. UNCHANGED <<inUse, tailSent, pid, expected>>
    BY <1>9 DEF WriteOutputs, bufferVars
  <2>2. F(w)' = F(w)
    <3>1. InFlight' = InFlight
      BY <1>1, <1>9, WriteSame
    <3> QED
      BY <3>1 DEF FlitsOf
  <2>3. w \in Open => w \in Open'
    BY <2>1 DEF Open
  <2> HIDE DEF F, last
  <2> QED
    BY <1>4, <2>1, <2>2, <2>3
<1>10. CASE UNCHANGED vars
  <2>1. UNCHANGED <<inUse, tailSent, pid, expected, phase, fIn, fWait, fOut>>
    BY <1>10 DEF vars, stateVars, flitVars, bufferVars
  <2>2. F(w)' = F(w)
    BY <2>1 DEF FlitsOf, InFlight, Flits!Pending
  <2>3. w \in Open => w \in Open'
    BY <2>1 DEF Open
  <2> HIDE DEF F, last
  <2> QED
    BY <1>4, <2>1, <2>2, <2>3
<1> HIDE DEF F, last
<1> QED
  BY <1>5, <1>6, <1>7, <1>8, <1>9, <1>10 DEF Next

(***************************************************************************)
(* No packet's flits are interleaved with another's on their VC: VC::      *)
(* AddFlit never meets an unexpected packet id, with and without           *)
(* wait_for_tail_credit.                                                   *)
(***************************************************************************)
THEOREM LinkPacketsContiguous == Spec => []PacketsContiguous
<1>1. IInv /\ OInv => PacketsContiguous
  <2> SUFFICES ASSUME IInv, OInv, NEW v \in VC, FlitsOf(v) # <<>>, expected[v] # -1
               PROVE  Head(FlitsOf(v)).pid = expected[v]
    BY DEF PacketsContiguous
  <2> DEFINE q == FlitsOf(v)
  <2>1. q \in Seq(Flit) /\ Chained(q, expected[v])
    BY UnderWay DEF IInv, OInv
  <2> HIDE DEF q
  <2>2. q # <<>>
    BY DEF q
  <2>3. 1 \in 1 .. Len(q) /\ Head(q) = q[1] /\ 1 - 1 = 0
    BY <2>1, <2>2
  <2>4. OpenAfter(q, expected[v], 1 - 1) \in {-1, q[1].pid}
    BY <2>1, <2>3 DEF Chained
  <2>5. OpenAfter(q, expected[v], 0) = expected[v]
    BY DEF OpenAfter
  <2>6. Head(q).pid = expected[v]
    BY <2>3, <2>4, <2>5
  <2> QED
    BY <2>6 DEF q
<1> QED
  BY <1>1, OrderInit, OrderStep, LinkInvariant, PTL DEF Spec

-----------------------------------------------------------------------------
(* One hop implements a bounded queue per VC.                              *)

Capacity == IF config.policy = "private" THEN VcBufSize ELSE BufSize
Queue(v) == buf[v] \o FlitsOf(v)
CapInv == \A v \in VC : vcOcc[v] <= Capacity

(* No VC holds more than its slots, or than the buffer's. *)
LEMMA WithinCapacity ==
  ASSUME IInv, SInv, NEW v \in VC
  PROVE  vcOcc[v] <= Capacity
<1>1. CASE config.policy = "private"
  BY <1>1 DEF IInv, NoVCError, Capacity
<1>2. CASE config.policy # "private"
  <2> DEFINE rest == VC \ {v}
  <2>1. vcOcc \in [VC -> Nat] /\ Summable(vcOcc, VC)
    BY Naturals
  <2>2. IsFiniteSet(rest)
    BY Finite, FS_Subset
  <2>3. Sum(vcOcc, rest) \in Nat
    <3>1. \A x \in rest : vcOcc[x] \in Nat
      BY <2>1
    <3> HIDE DEF rest
    <3> QED
      BY <2>2, <3>1, SumNat
  <2>4. Sum(vcOcc, VC) = vcOcc[v] + Sum(vcOcc, rest)
    BY <2>1, SumRemove
  <2>5. Sum(vcOcc, VC) <= BufSize
    BY WithinBufSize
  <2> HIDE DEF rest
  <2> QED
    BY <1>2, <2>1, <2>3, <2>4, <2>5, SizeAssumption DEF Capacity
<1> QED
  BY <1>1, <1>2

LEMMA QueueType ==
  ASSUME IInv, NEW v \in VC
  PROVE  /\ Queue(v) \in Seq(Flit) /\ buf[v] \in Seq(Flit) /\ FlitsOf(v) \in Seq(Flit)
         /\ Len(Queue(v)) \in Nat /\ Len(Queue(v)) <= vcOcc[v]
<1> DEFINE a == buf[v]
           b == FlitsOf(v)
<1>1. a \in Seq(Flit) /\ b \in Seq(Flit)
  BY UnderWay DEF IInv, TypeOK
<1>2. Len(b) = FlitCount(v)
  BY FlitsCounted DEF IInv
<1>3. vcOcc[v] = FlitCount(v) + Len(a) + CreditCount(v)
  BY DEF IInv, CreditConservation, FlitCount, CreditCount
<1>4. FlitCount(v) \in Nat /\ CreditCount(v) \in Nat
  BY CountTypes DEF IInv
<1> HIDE DEF a, b
<1>5. a \o b \in Seq(Flit) /\ Len(a \o b) = Len(a) + Len(b) /\ Len(a) \in Nat /\ Len(b) \in Nat
  BY <1>1
<1>6. Len(a \o b) \in Nat /\ Len(a \o b) <= vcOcc[v]
  BY <1>2, <1>3, <1>4, <1>5
<1> QED
  BY <1>1, <1>5, <1>6 DEF Queue, a, b

(* A step that leaves the queues alone, appends to one or takes its first. *)
LEMMA FifoStep ==
  ASSUME IInv, CapInv', [Next]_vars
  PROVE  [Fifo!Next]_(Fifo!vars)
<1> DEFINE queue == [v \in VC |-> Queue(v)]
<1>0. config' = config
  BY ZenonT(30) DEF Next, ReadInputs, AllocateVC, SendFlit, RemoveFlit, WriteOutputs, ProcessCredit, TakeBuffer,
         SendingFlit, stateVars, vars
<1>a. Capacity' = Capacity
  BY <1>0 DEF Capacity
<1>b. \A v \in VC : /\ Queue(v) \in Seq(Flit) /\ buf[v] \in Seq(Flit) /\ FlitsOf(v) \in Seq(Flit)
                    /\ Len(Queue(v)) \in Nat /\ Len(Queue(v)) <= vcOcc[v]
  BY QueueType
<1>c. TypeOK /\ buf \in [VC -> Seq(Flit)]
  BY DEF IInv, TypeOK
<1>1. ASSUME \A v \in VC : Queue(v)' = Queue(v) PROVE [Fifo!Next]_(Fifo!vars)
  <2>1. queue' = queue
    BY <1>1
  <2> HIDE DEF queue
  <2> QED
    BY <1>a, <2>1 DEF Fifo!vars, Capacity, queue, Queue
<1>2. CASE ReadInputs
  <2> SUFFICES ASSUME NEW w \in VC PROVE Queue(w)' = Queue(w)
    BY <1>1
  <2>1. fOut \in Flit \cup {NoItem}
    BY <1>c DEF TypeOK, Flits!TypeOK
  <2> DEFINE q == FlitsOf(w)'
             a == OnVC(Just(fOut), w)
             b == buf[w]
  <2>2. FlitsOf(w) = a \o q /\ q \in Seq(Flit)
    BY <1>2, <1>c, ReadFirst
  <2>3. a \in Seq(Flit) /\ b \in Seq(Flit)
    <3>1. Just(fOut) \in Seq(Flit)
      BY <2>1, JustType
    <3> QED
      BY <1>b, <3>1, OnVCType
  <2>4. buf'[w] = b \o a
    <3>1. CASE fOut = NoItem
      <4>1. buf' = buf /\ a = <<>>
        BY <1>2, <3>1, OnVCShort DEF ReadInputs, Flits!Receive, bufferVars, Just
      <4> HIDE DEF a
      <4>2. b \o <<>> = b
        <5> HIDE DEF b
        <5> QED
          BY <2>3
      <4> QED
        BY <4>1, <4>2
    <3>2. CASE fOut # NoItem
      <4>1. fOut \in Flit /\ fOut.vc \in VC
        BY <2>1, <3>2 DEF Flit
      <4>2. buf' = [buf EXCEPT ![fOut.vc] = Append(buf[fOut.vc], fOut)]
        BY <1>2, <3>2 DEF ReadInputs, Flits!Receive, AddFlit
      <4>3. a = OfVC(fOut, w)
        BY <3>2, <4>1, OnVCShort DEF Just
      <4>4. CASE fOut.vc = w
        <5>1. buf'[w] = Append(b, fOut) /\ a = <<fOut>>
          BY <1>c, <4>1, <4>2, <4>3, <4>4 DEF OfVC
        <5>2. Append(b, fOut) = b \o <<fOut>>
          <6> HIDE DEF b
          <6> QED
            BY <2>3, <4>1, AppendIsConcat
        <5> HIDE DEF a, b
        <5> QED
          BY <5>1, <5>2
      <4>5. CASE fOut.vc # w
        <5>1. buf'[w] = b /\ a = <<>>
          BY <1>c, <4>1, <4>2, <4>3, <4>5 DEF OfVC
        <5>2. b \o <<>> = b
          <6> HIDE DEF b
          <6> QED
            BY <2>3
        <5> HIDE DEF a, b
        <5> QED
          BY <5>1, <5>2
      <4> QED
        BY <4>4, <4>5
    <3> QED
      BY <3>1, <3>2
  <2>5. Queue(w)' = buf'[w] \o q
    BY DEF Queue
  <2>6. Queue(w) = b \o (a \o q)
    BY <2>2 DEF Queue
  <2> HIDE DEF a, b, q
  <2>7. (b \o a) \o q = b \o (a \o q)
    <3>1. a \in FlitLines /\ b \in FlitLines /\ q \in FlitLines
      BY <2>2, <2>3 DEF FlitLines
    <3> QED
      BY <3>1, LinesAssociate, Zenon
  <2> QED
    BY <2>4, <2>5, <2>6, <2>7
<1>3. ASSUME NEW v \in VC, AllocateVC(v) PROVE [Fifo!Next]_(Fifo!vars)
  <2>1. UNCHANGED <<buf, phase, fIn, fWait, fOut>>
    BY <1>3 DEF AllocateVC, flitVars, bufferVars
  <2> QED
    BY <1>1, <2>1 DEF Queue, FlitsOf, InFlight, Flits!Pending
<1>4. ASSUME NEW v \in VC, NEW tail \in BOOLEAN, SendFlit(v, tail) PROVE [Fifo!Next]_(Fifo!vars)
  <2> DEFINE f == [vc |-> v, pid |-> pid[v], tail |-> tail]
  <2>1. f \in Flit /\ f.vc = v
    BY <1>c DEF TypeOK, Flit
  <2>2. buf' = buf /\ vcOcc' = [vcOcc EXCEPT ![v] = @ + 1]
    BY <1>4 DEF SendFlit, SendingFlit, bufferVars
  <2>3. \A w \in VC : FlitsOf(w)' = FlitsOf(w) \o OfVC(f, w)
    BY <1>4, <1>c, SentLast
  <2> HIDE DEF f
  <2>4. Queue(v)' = Append(Queue(v), f)
    <3> DEFINE a == buf[v]
               b == FlitsOf(v)
               t == <<f>>
    <3>1. FlitsOf(v)' = b \o t /\ buf'[v] = a
      BY <2>1, <2>2, <2>3 DEF OfVC
    <3>2. a \in Seq(Flit) /\ b \in Seq(Flit) /\ t \in Seq(Flit) /\ a \o b \in Seq(Flit)
      BY <1>b, <2>1 DEF Queue
    <3>3. Queue(v)' = buf'[v] \o FlitsOf(v)' /\ Queue(v) = a \o b
      BY DEF Queue
    <3> HIDE DEF a, b
    <3>4. Append(a \o b, f) = (a \o b) \o t
      BY <2>1, <3>2, AppendIsConcat
    <3> HIDE DEF t
    <3>5. (a \o b) \o t = a \o (b \o t)
      <4>1. a \in FlitLines /\ b \in FlitLines /\ t \in FlitLines
        BY <3>2 DEF FlitLines
      <4> QED
        BY <4>1, LinesAssociate, Zenon
    <3> QED
      BY <3>1, <3>3, <3>4, <3>5
  <2>5. \A w \in VC : w # v => Queue(w)' = Queue(w)
    <3> SUFFICES ASSUME NEW w \in VC, w # v PROVE Queue(w)' = Queue(w)
      OBVIOUS
    <3> DEFINE b == FlitsOf(w)
    <3>1. FlitsOf(w)' = b \o <<>> /\ b \in Seq(Flit)
      BY <1>b, <2>1, <2>3 DEF OfVC
    <3>2. b \o <<>> = b
      <4> HIDE DEF b
      <4> QED
        BY <3>1
    <3> QED
      BY <2>2, <3>1, <3>2 DEF Queue
  <2>6. Len(Queue(v)) < Capacity
    <3>1. vcOcc'[v] <= Capacity'
      BY DEF CapInv
    <3>2. vcOcc[v] \in Int /\ vcOcc'[v] = vcOcc[v] + 1
      BY <2>2 DEF IInv, TypeOK
    <3>3. Capacity \in Nat
      BY Sizes, SizeAssumption DEF Capacity
    <3> QED
      BY <1>a, <1>b, <3>1, <3>2, <3>3
  <2>7. queue' = [queue EXCEPT ![v] = Append(@, f)] /\ queue[v] = Queue(v)
    BY <2>4, <2>5
  <2>8. PICK g \in Flit : g = f
    BY <2>1
  <2>9. Fifo!Enter(v, g)
    <3> HIDE DEF queue
    <3>1. Len(queue[v]) < Capacity /\ queue' = [queue EXCEPT ![v] = Append(@, g)] /\ Capacity' = Capacity
      BY <1>a, <2>6, <2>7, <2>8
    <3> QED
      BY <3>1 DEF Fifo!Enter, queue, Queue, Capacity
  <2> HIDE DEF queue
  <2> QED
    BY <2>1, <2>8, <2>9 DEF Fifo!Next
<1>5. ASSUME NEW v \in VC, RemoveFlit(v) PROVE [Fifo!Next]_(Fifo!vars)
  <2>1. /\ buf[v] # <<>> /\ buf' = [buf EXCEPT ![v] = Tail(@)]
        /\ UNCHANGED <<phase, fIn, fWait, fOut>>
    BY <1>5 DEF RemoveFlit, flitVars
  <2>2. \A w \in VC : FlitsOf(w)' = FlitsOf(w)
    BY <2>1 DEF FlitsOf, InFlight, Flits!Pending
  <2>3. Queue(v)' = Tail(Queue(v)) /\ Queue(v) # <<>>
    <3> DEFINE a == buf[v]
               b == FlitsOf(v)
    <3>1. a \in Seq(Flit) /\ b \in Seq(Flit) /\ a # <<>>
      BY <1>b, <2>1
    <3>2. Queue(v) = a \o b /\ Queue(v)' = Tail(a) \o b
      BY <1>c, <2>1, <2>2 DEF Queue
    <3> HIDE DEF a, b
    <3>3. Tail(a \o b) = Tail(a) \o b /\ a \o b # <<>>
      BY <3>1
    <3> QED
      BY <3>2, <3>3
  <2>4. \A w \in VC : w # v => Queue(w)' = Queue(w)
    BY <1>c, <2>1, <2>2 DEF Queue
  <2>5. queue' = [queue EXCEPT ![v] = Tail(@)] /\ queue[v] # <<>>
    BY <2>3, <2>4
  <2>6. Fifo!Leave(v)
    <3> HIDE DEF queue
    <3> QED
      BY <1>a, <2>5 DEF Fifo!Leave, queue, Queue, Capacity
  <2> QED
    BY <2>6 DEF Fifo!Next
<1>6. CASE WriteOutputs
  <2>1. buf' = buf /\ InFlight' = InFlight
    BY <1>6, <1>c, WriteSame DEF WriteOutputs, bufferVars
  <2> QED
    BY <1>1, <2>1 DEF Queue, FlitsOf
<1>7. CASE UNCHANGED vars
  <2>1. UNCHANGED <<buf, phase, fIn, fWait, fOut>>
    BY <1>7 DEF vars, flitVars, bufferVars
  <2> QED
    BY <1>1, <2>1 DEF Queue, FlitsOf, InFlight, Flits!Pending
<1> QED
  BY <1>2, <1>3, <1>4, <1>5, <1>6, <1>7 DEF Next

(***************************************************************************)
(* One hop implements the abstract queues: no flit of a VC is lost,        *)
(* duplicated or overtaken by another of its VC, and no VC ever holds more *)
(* flits than the slots it may use, under every policy.                    *)
(***************************************************************************)
THEOREM LinkImplementsQueues == Spec => Fifo!Safety
<1>1. Init => Fifo!Init
  <2> SUFFICES ASSUME Init PROVE Fifo!Init
    OBVIOUS
  <2>1. Capacity \in Nat
    BY Sizes, SizeAssumption DEF Capacity
  <2>2. \A v \in VC : FlitsOf(v) = <<>>
    <3>1. fIn = NoItem /\ fWait = <<>> /\ fOut = NoItem /\ phase = "read"
      BY DEF Init, Flits!Init
    <3>2. Items(<<>>) = <<>>
      <4>1. <<>> \in Seq([due : Int, item : Flit]) /\ Len(<<>>) = 0
        OBVIOUS
      <4>2. Items(<<>>) \in Seq(Flit) /\ Len(Items(<<>>)) = 0
        BY <4>1, ItemsType
      <4> QED
        BY <4>2
    <3>3. InFlight = <<>> \o (Items(<<>>) \o <<>>)
      BY <3>1 DEF InFlight, Flits!Pending, Items
    <3>4. InFlight = <<>>
      BY <3>2, <3>3
    <3> QED
      BY <3>4, OnVCShort DEF FlitsOf
  <2>3. \A v \in VC : Queue(v) = <<>>
    BY <2>2 DEF Queue, Init
  <2> QED
    BY <2>1, <2>3 DEF Fifo!Init, Capacity, Queue
<1>2. IInv /\ CapInv' /\ [Next]_vars => [Fifo!Next]_(Fifo!vars)
  BY FifoStep
<1>3. IInv /\ SInv => CapInv
  BY WithinCapacity DEF CapInv
<1> QED
  BY <1>1, <1>2, <1>3, SharedInvariant, PTL DEF Spec, Fifo!Safety
=============================================================================
