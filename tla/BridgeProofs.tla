----------------------------- MODULE BridgeProofs -----------------------------
(***************************************************************************)
(* Theorems about the bridge.  An inductive invariant (IInv) holds with    *)
(* any traffic, clock ratio and credit width: as long as the design reads  *)
(* its credits in time, no other assertion fails and the credits are       *)
(* right.  With one network cycle per clock cycle it does read them.       *)
(***************************************************************************)
EXTENDS Bridge, FoldLemmas, SequenceTheorems

-----------------------------------------------------------------------------
(* Sequences of flit numbers that increase. *)

(* Flit numbers increase in the order of sending. *)
Increasing(s) == \A a, b \in DOMAIN s : a < b => s[a] < s[b]

(* What Append does to the elements. *)
LEMMA AppendRange ==
  ASSUME NEW s \in Seq(Nat), NEW e \in Nat
  PROVE  Range(Append(s, e)) = Range(s) \cup {e}
<1> DEFINE t == Append(s, e)
<1>1. /\ DOMAIN t = 1 .. Len(s) + 1 /\ DOMAIN s = 1 .. Len(s) /\ Len(s) \in Nat
      /\ t[Len(s) + 1] = e /\ \A k \in 1 .. Len(s) : t[k] = s[k]
  OBVIOUS
<1>2. ASSUME NEW x \in Range(t) PROVE x \in Range(s) \cup {e}
  <2>1. PICK k \in DOMAIN t : x = t[k]
    BY DEF Range
  <2>2. CASE k = Len(s) + 1
    BY <1>1, <2>1, <2>2
  <2>3. CASE k \in 1 .. Len(s)
    BY <1>1, <2>1, <2>3 DEF Range
  <2> QED
    BY <1>1, <2>2, <2>3
<1>3. ASSUME NEW x \in Range(s) PROVE x \in Range(t)
  <2>1. PICK k \in 1 .. Len(s) : x = s[k]
    BY <1>1 DEF Range
  <2>2. k \in DOMAIN t /\ t[k] = x
    BY <1>1, <2>1
  <2> QED
    BY <2>2 DEF Range
<1>4. e \in Range(t)
  <2>1. Len(s) + 1 \in DOMAIN t
    BY <1>1
  <2> QED
    BY <1>1, <2>1 DEF Range
<1> QED
  BY <1>2, <1>3, <1>4

(* What Append does to the elements and to the order. *)
LEMMA AppendIncreasing ==
  ASSUME NEW s \in Seq(Nat), NEW e \in Nat, Increasing(s), \A x \in Range(s) : x < e
  PROVE  /\ Append(s, e) \in Seq(Nat) /\ Len(Append(s, e)) = Len(s) + 1 /\ Append(s, e) # <<>>
         /\ Range(Append(s, e)) = Range(s) \cup {e}
         /\ Increasing(Append(s, e))
         /\ Append(s, e)[Len(s) + 1] = e /\ \A k \in 1 .. Len(s) : Append(s, e)[k] = s[k]
<1> DEFINE t == Append(s, e)
<1>1. /\ t \in Seq(Nat) /\ Len(t) = Len(s) + 1 /\ DOMAIN t = 1 .. Len(s) + 1 /\ DOMAIN s = 1 .. Len(s)
      /\ t[Len(s) + 1] = e /\ \A k \in 1 .. Len(s) : t[k] = s[k]
      /\ Len(s) \in Nat
  OBVIOUS
<1>2. t # <<>>
  BY <1>1
<1>3. Range(t) = Range(s) \cup {e}
  BY AppendRange
<1>4. Increasing(t)
  <2> SUFFICES ASSUME NEW a \in DOMAIN t, NEW b \in DOMAIN t, a < b PROVE t[a] < t[b]
    BY DEF Increasing
  <2>1. a \in 1 .. Len(s)
    BY <1>1
  <2>2. CASE b = Len(s) + 1
    BY <1>1, <2>1, <2>2 DEF Range
  <2>3. CASE b \in 1 .. Len(s)
    BY <1>1, <2>1, <2>3 DEF Increasing
  <2> QED
    BY <1>1, <2>2, <2>3
<1> QED
  BY <1>1, <1>2, <1>3, <1>4

(* What Tail does: the head is less than all that remain. *)
LEMMA TailIncreasing ==
  ASSUME NEW s \in Seq(Nat), s # <<>>, Increasing(s)
  PROVE  /\ Head(s) \in Range(s) /\ Head(s) = s[1] /\ Tail(s) \in Seq(Nat)
         /\ Len(s) \in Nat \ {0} /\ Len(Tail(s)) = Len(s) - 1
         /\ \A k \in 1 .. Len(s) - 1 : Tail(s)[k] = s[k + 1]
         /\ Range(Tail(s)) = Range(s) \ {Head(s)}
         /\ Increasing(Tail(s))
         /\ \A x \in Range(Tail(s)) : Head(s) < x
<1> DEFINE t == Tail(s)
<1>1. /\ Len(s) \in Nat \ {0} /\ Head(s) = s[1] /\ t \in Seq(Nat) /\ Len(t) = Len(s) - 1
      /\ DOMAIN s = 1 .. Len(s) /\ DOMAIN t = 1 .. Len(s) - 1
      /\ \A k \in 1 .. Len(s) - 1 : t[k] = s[k + 1]
  BY HeadTailProperties
<1>2. Head(s) \in Range(s)
  BY <1>1 DEF Range
<1>3. \A x \in Range(t) : Head(s) < x /\ x \in Range(s)
  <2> SUFFICES ASSUME NEW k \in 1 .. Len(s) - 1 PROVE Head(s) < t[k] /\ t[k] \in Range(s)
    BY <1>1 DEF Range
  <2>1. 1 \in DOMAIN s /\ k + 1 \in DOMAIN s /\ 1 < k + 1 /\ t[k] = s[k + 1]
    BY <1>1
  <2> QED
    BY <1>1, <2>1 DEF Range, Increasing
<1>4. \A x \in Range(s) : x = Head(s) \/ x \in Range(t)
  <2> SUFFICES ASSUME NEW k \in 1 .. Len(s), k # 1 PROVE s[k] \in Range(t)
    BY <1>1 DEF Range
  <2>1. k - 1 \in DOMAIN t /\ t[k - 1] = s[k]
    BY <1>1
  <2> QED
    BY <2>1 DEF Range
<1>5. s \in [1 .. Len(s) -> Nat] /\ Head(s) \in Nat
  BY <1>1
<1>6. Range(t) = Range(s) \ {Head(s)}
  BY <1>3, <1>4, <1>5
<1>7. Increasing(t)
  <2> SUFFICES ASSUME NEW a \in 1 .. Len(s) - 1, NEW b \in 1 .. Len(s) - 1, a < b PROVE t[a] < t[b]
    BY <1>1 DEF Increasing
  <2>1. a + 1 \in DOMAIN s /\ b + 1 \in DOMAIN s /\ a + 1 < b + 1 /\ t[a] = s[a + 1] /\ t[b] = s[b + 1]
    BY <1>1
  <2> QED
    BY <2>1 DEF Increasing
<1> QED
  BY <1>1, <1>2, <1>3, <1>6, <1>7

(* Append to a sequence is Append to what it ends. *)
LEMMA AppendToConcat ==
  ASSUME NEW s \in Seq(Nat), NEW t \in Seq(Nat), NEW e \in Nat
  PROVE  s \o Append(t, e) = Append(s \o t, e)
<1>1. <<e>> \in Seq(Nat) /\ s \o t \in Seq(Nat)
  OBVIOUS
<1>2. Append(t, e) = t \o <<e>> /\ Append(s \o t, e) = (s \o t) \o <<e>>
  BY <1>1, AppendIsConcat
<1>3. (s \o t) \o <<e>> = s \o (t \o <<e>>)
  BY <1>1, ConcatAssociative, SMTT(30)
<1> QED
  BY <1>2, <1>3

(* A loop that visits the ports of S comes to each of them once. *)
LEMMA AscendingVisits ==
  ASSUME NEW S \in SUBSET Node
  PROVE  /\ IsFiniteSet(S) /\ Cardinality(S) \in Nat
         /\ DOMAIN Ascending(S) = 1 .. Cardinality(S)
         /\ \A n \in S : Place(S, n) \in 1 .. Cardinality(S) /\ Ascending(S)[Place(S, n)] = n
         /\ \A n, m \in S : Place(S, n) = Place(S, m) => n = m
         /\ \A k \in 1 .. Cardinality(S) : Ascending(S)[k] \in S /\ Place(S, Ascending(S)[k]) = k
<1> DEFINE upTo(n) == {m \in S : m <= n}
           place == [n \in S |-> Place(S, n)]
           C == Cardinality(S)
<1>1. IsFiniteSet(Node) /\ Node \subseteq Int
  BY FS_Interval, BridgeAssumption DEF Node
<1>2. IsFiniteSet(S) /\ C \in Nat /\ S \subseteq Int
  BY <1>1, FS_Subset, FS_CardinalityType
<1>3. \A n : IsFiniteSet(upTo(n)) /\ Place(S, n) = Cardinality(upTo(n)) /\ Place(S, n) \in Nat /\ Place(S, n) <= C
  <2> TAKE n
  <2>1. upTo(n) \subseteq S
    OBVIOUS
  <2> QED
    BY <1>2, <2>1, FS_Subset, FS_CardinalityType DEF Place
<1>4. \A n \in S : Place(S, n) # 0
  <2> TAKE n \in S
  <2>1. n \in upTo(n)
    BY <1>2
  <2> QED
    BY <1>3, <2>1, FS_EmptySet
<1>5. \A n, m \in S : n < m => Place(S, n) # Place(S, m)
  <2> SUFFICES ASSUME NEW n \in S, NEW m \in S, n < m, Place(S, n) = Place(S, m) PROVE FALSE
    OBVIOUS
  <2>1. n \in Int /\ m \in Int
    BY <1>2
  <2>2. ASSUME NEW x \in upTo(n) PROVE x \in upTo(m)
    <3>1. x \in S /\ x \in Int /\ x <= n
      BY <1>2
    <3> QED
      BY <2>1, <3>1
  <2>3. m \in upTo(m) /\ m \notin upTo(n)
    BY <2>1
  <2>4. upTo(n) \in SUBSET upTo(m)
    BY <2>2
  <2> QED
    BY <1>3, <2>3, <2>4, FS_Subset
<1>6. \A n, m \in S : Place(S, n) = Place(S, m) => n = m
  BY <1>2, <1>5
<1>13. \A n \in S : Place(S, n) \in 1 .. C
  <2> TAKE n \in S
  <2> HIDE DEF C
  <2>1. Place(S, n) \in Nat /\ Place(S, n) <= C /\ Place(S, n) # 0 /\ C \in Nat
    BY <1>2, <1>3, <1>4
  <2> QED
    BY <2>1
<1>7. place \in Injection(S, 1 .. C)
  BY <1>6, <1>13 DEF Injection, IsInjective
<1>8. Cardinality(1 .. C) = C /\ IsFiniteSet(1 .. C)
  BY <1>2, FS_Interval
<1>9. place \in Surjection(S, 1 .. C)
  BY <1>7, <1>8, FS_Injection
<1>10. \A k \in 1 .. C : \E n \in S : Place(S, n) = k
  BY <1>9 DEF Surjection
<1>11. DOMAIN Ascending(S) = 1 .. C /\ \A k \in 1 .. C : Ascending(S)[k] = CHOOSE n \in S : Place(S, n) = k
  BY DEF Ascending
<1>12. \A k \in 1 .. C : Ascending(S)[k] \in S /\ Place(S, Ascending(S)[k]) = k
  BY <1>10, <1>11
<1>14. \A n \in S : Ascending(S)[Place(S, n)] = n
  BY <1>6, <1>12, <1>13
<1> QED
  BY <1>2, <1>6, <1>11, <1>12, <1>13, <1>14

-----------------------------------------------------------------------------
(* The invariant. *)

(* A flit, and the numbers of all that were sent. *)
Flit == [src : Node, dest : Node, pid : Nat, vc : VC, word : VC, head : BOOLEAN, tail : BOOLEAN]
Id == DOMAIN sent

(* The flits in each place of the network: each in the sequence of its source and VC. *)
InQueue == {i \in Id : i \in Range(Queued[sent[i].src])}
InEntry == {i \in Id : i \in Range(entry[sent[i].src][sent[i].vc])}
InInner == {i \in Id : i \in Range(inner[sent[i].src][sent[i].vc])}
InFlits == {i \in Id : \E d \in Node : flits[d] = i}
InReply == {i \in Id : \E k \in DOMAIN replyBuf : replyBuf[k].fid = i}

(* The flits the server has got since its last network cycle. *)
Requested == UNION {Range(requestBuf[n]) : n \in Node}

(* The types of the variables. The network may take the count of an        *)
(* ejection port anywhere: that it stays within the buffer is a result     *)
(* (InStepEjectCredits).                                                   *)
Typed ==
  /\ sending \in [Node -> [vc : VC, dest : Node] \cup {None}]
  /\ credits \in [Node -> [VC -> 0..VcBufSize]] /\ held \in [Node -> [VC -> Nat]]
  /\ received \in [Node -> Seq(Nat)] /\ \A n \in Node : Range(received[n]) \subseteq Id
  /\ sent \in Seq(Flit) /\ nextPid \in Nat
  /\ pId \in [Node -> Nat] /\ destTable \in [Node -> Node]
  /\ dataSet \subseteq [fid : Id, dest : Node]
  /\ nocToRtl \subseteq Node \X VC /\ rtlToNoc \subseteq Node \X VC
  /\ inFlight \subseteq Id
  /\ requestBuf \in [Node -> Seq(Nat)] /\ partial \in [Node -> Seq(Nat)]
  /\ replyBuf \in Seq([fid : Nat, vc : VC]) /\ \A k \in DOMAIN replyBuf : replyBuf[k].fid \in Id
  /\ entry \in [Node -> [VC -> Seq(Nat)]] /\ inner \in [Node -> [VC -> Seq(Nat)]]
  /\ Range(origDest) \subseteq Node /\ Range(packetVc) \subseteq VC
  /\ occ \in [Node -> [VC -> 0..VcBufSize]] /\ prevOcc \in [Node -> [VC -> 0..VcBufSize]]
  /\ inUse \in [Node -> [VC -> BOOLEAN]]
  /\ flits \in [Node -> Id \cup {None}]
  /\ ejOcc \in [Node -> [VC -> Int]] /\ creditSlot \in [Node -> SUBSET VC]
  /\ clock \in {"inject", "return", "receive", "step"} /\ stepsLeft \in 0..Speedup
  /\ phase \in {"serve", "work", "read"} /\ quit \in BOOLEAN
  /\ failed \in Assertions \cup {None}

(* The flits in the queue of a port, and in the buffers of a source and    *)
(* VC, are its own, in the order of sending; what the sender takes as      *)
(* occupied is what the first buffer holds.                                *)
Streams ==
  /\ \A n \in Node : Increasing(Queued[n]) /\ \A i \in Range(Queued[n]) : i \in Id /\ sent[i].src = n
  /\ \A n \in Node, v \in VC :
       /\ Increasing(entry[n][v]) /\ Increasing(inner[n][v])
       /\ \A i \in Range(entry[n][v]) \cup Range(inner[n][v]) :
            i \in Id /\ sent[i].src = n /\ sent[i].vc = v
       /\ occ[n][v] = Len(entry[n][v])

(* In each stream the flits in A were sent before those in B. *)
Ahead(s, A, B) == \A i \in A, j \in B : s[i].src = s[j].src /\ s[i].vc = s[j].vc => i < j

(* Every flit that is on its way to its port and not answered yet. *)
InNetwork == InQueue \cup InEntry \cup InInner \cup InFlits

(* No flit overtakes another of its stream, and the one read at a port is  *)
(* bound for it.                                                           *)
Order ==
  /\ Ahead(sent, InEntry, InQueue)
  /\ Ahead(sent, InInner, InQueue \cup InEntry)
  /\ Ahead(sent, InFlits, InQueue \cup InEntry \cup InInner)
  /\ Ahead(sent, InReply, InNetwork)
  /\ \A d \in Node : flits[d] # None => BoundIn(sent, flits[d]) = d

(* A packet is a head flit and those that follow it up to the tail, from   *)
(* one port and on one VC; its head carries the VC it goes on.             *)
Packets ==
  /\ \A i \in Id : /\ sent[i].pid < nextPid
                   /\ sent[i].head => sent[i].word = sent[i].vc
                   /\ \E j \in 1..i : sent[j].head /\ sent[j].pid = sent[i].pid
  /\ \A i, j \in Id : i < j /\ sent[i].pid = sent[j].pid =>
       sent[i].src = sent[j].src /\ sent[i].vc = sent[j].vc /\ ~sent[i].tail /\ ~sent[j].head

(* The packet that a port is in the middle of is the last it began, and    *)
(* has had no tail yet.                                                    *)
Unfinished == \A n \in Node : sending[n] # None =>
  /\ \E i \in Id : sent[i].pid = pId[n] /\ sent[i].src = n /\ sent[i].vc = sending[n].vc
  /\ \A i \in Id : sent[i].pid = pId[n] => ~sent[i].tail

(* In the queue of a port a packet ends before the next begins. *)
Lined == \A n \in Node : LET q == Queued[n] IN
  /\ \A k \in 1 .. Len(q) - 1 :
       IF sent[q[k + 1]].head THEN sent[q[k]].tail
       ELSE ~sent[q[k]].tail /\ sent[q[k + 1]].pid = sent[q[k]].pid
  /\ q # <<>> => IF sending[n] = None THEN sent[q[Len(q)]].tail
                 ELSE ~sent[q[Len(q)]].tail /\ sent[q[Len(q)]].pid = pId[n]

(* Whether a packet of port n is half in the network, its number and VC. *)
Begun(n) == IF Queued[n] = <<>> THEN sending[n] # None ELSE ~Foremost(n).head
BegunPid(n) == IF Queued[n] = <<>> THEN pId[n] ELSE Foremost(n).pid
BegunVc(n) == IF Queued[n] = <<>> THEN sending[n].vc ELSE Foremost(n).vc

(* The injection buffer holds a VC for the packet that is half in the      *)
(* network and for no other, and _current_packet_vc knows that packet.     *)
Entered == \A n \in Node :
  IF Begun(n) THEN BegunPid(n) \in DOMAIN packetVc /\ \A v \in VC : inUse[n][v] <=> v = BegunVc(n)
  ELSE \A v \in VC : ~inUse[n][v]

(* _current_packet_vc holds the VC a packet was sent on, for every packet  *)
(* that has entered the network: the answers take it from there.           *)
PacketVcs ==
  /\ \A p \in DOMAIN packetVc : \E i \in Id : sent[i].pid = p /\ sent[i].vc = packetVc[p]
  /\ \A i \in InEntry \cup InInner \cup InFlits : sent[i].pid \in DOMAIN packetVc

(* What _RetireFlit and EnqueueFeS2ReplyFlit look up is there. *)
Known == \A i \in InNetwork : i \in inFlight \cup Requested /\ sent[i].pid \in DOMAIN origDest

(* Where the clocked process and the server stand: the design's credits    *)
(* are passed on and the flits read are retired before the next come.      *)
Rounds ==
  /\ clock = "return" => phase = "serve" /\ ~quit
  /\ clock \in {"inject", "return"} /\ phase # "work" => rtlToNoc = {}
  /\ phase = "read" => flits = PerNode(None)
  /\ phase # "read" => creditSlot = PerNode({})
  /\ clock = "step" => stepsLeft > 0
  /\ failed \in {None, "EnqueueCreditFromNoc"}

(* _buffer_occupancy is the occupancy at the end of the injection loop; a  *)
(* flit may have left since.                                               *)
Sampled == \A n \in Node, v \in VC :
  occ[n][v] = prevOcc[n][v] \/ (phase # "read" /\ occ[n][v] = prevOcc[n][v] - 1)

(* Until an assertion fails the design's credits are right. *)
SenderCreditsKept == failed = None => SenderCredits

IInv == /\ Typed /\ Streams /\ Order /\ Packets /\ Unfinished /\ Lined /\ Entered /\ PacketVcs
        /\ Known /\ Rounds /\ Sampled /\ SenderCreditsKept

(* One network cycle per clock cycle (CLOCK_SPEEDUP is 1 unless set), and  *)
(* a design that does not end the simulation: the clocked process and the  *)
(* server take turns.                                                      *)
InStep == Speedup = 1 /\ MayQuit = FALSE

(* When _Step runs, the design has read what the last one left. *)
NothingUnread ==
  /\ failed = None /\ quit = FALSE
  /\ clock = "step" => stepsLeft = 1 /\ phase = "serve"
  /\ phase # "serve" => clock = "inject"
  /\ clock = "step" \/ phase = "work" => nocToRtl = {} /\ replyBuf = <<>>

-----------------------------------------------------------------------------
(* What ClockInject does: flits are added to sent, and queued at their port. *)

Injected(words) ==
  /\ \A i \in Id : i \in Id' /\ sent'[i] = sent[i]
  /\ \A n \in Active(words) : /\ IdOf(words, n) \in Id' /\ IdOf(words, n) \in Nat
                              /\ \A i \in Id : i < IdOf(words, n)
                              /\ sent'[IdOf(words, n)] = FlitOf(words, n)
  /\ \A i \in Id' : i \in Id \/ (sent'[i].src \in Active(words) /\ i = IdOf(words, sent'[i].src))
  /\ \A n \in Node : Queued'[n] = IF n \in Active(words) THEN Append(Queued[n], IdOf(words, n))
                                                         ELSE Queued[n]

(* The flits added are typed; a head flit begins a packet with a number of *)
(* its own, any other flit goes on with the packet its port is in.         *)
AddedFlits(words) ==
  \A n \in Active(words) :
    /\ n \in Node /\ FlitOf(words, n) \in Flit /\ words[n] \in Word
    /\ FlitOf(words, n).src = n /\ FlitOf(words, n).tail = words[n].tail
    /\ FlitOf(words, n).head = words[n].head
    /\ words[n].head <=> sending[n] = None
    /\ IF words[n].head
       THEN /\ FlitOf(words, n).pid = PidOf(words, n)
            /\ PidOf(words, n) >= nextPid /\ PidOf(words, n) < nextPid'
            /\ FlitOf(words, n).vc = words[n].vc /\ FlitOf(words, n).word = words[n].vc
            /\ FlitOf(words, n).dest = words[n].dest /\ <<n, words[n].dest>> \in Traffic
            /\ \A m \in Active(words) :
                 words[m].head /\ PidOf(words, n) = PidOf(words, m) => n = m
       ELSE /\ FlitOf(words, n).pid = pId[n] /\ FlitOf(words, n).vc = sending[n].vc
            /\ FlitOf(words, n).dest = destTable[n]

(* ClockInject adds the flits that AddedFlits describes. *)
LEMMA InjectAdds ==
  ASSUME Typed, NEW words \in [Node -> Word \cup {None}], ClockInject(words)
  PROVE  AddedFlits(words) /\ nextPid' \in Nat /\ nextPid <= nextPid'
<1> DEFINE H == Heads(words)
           below(n) == {m \in H : m < n}
<1>1. Active(words) \subseteq Node /\ H \subseteq Active(words) /\ Node \subseteq Int /\ IsFiniteSet(Node)
  <2>1. NumNodes - 1 \in Int
    BY BridgeAssumption
  <2>2. Node \subseteq Int /\ IsFiniteSet(Node)
    BY <2>1, FS_Interval DEF Node
  <2>3. Active(words) \subseteq Node /\ H \subseteq Active(words)
    BY DEF Active, Heads
  <2> QED
    BY <2>2, <2>3
<1>2. /\ nextPid \in Nat /\ pId \in [Node -> Nat] /\ destTable \in [Node -> Node]
      /\ sending \in [Node -> [vc : VC, dest : Node] \cup {None}]
      /\ nextPid' = nextPid + Cardinality(H)
  BY DEF Typed, ClockInject, Inject
<1>3. IsFiniteSet(H) /\ Cardinality(H) \in Nat /\ \A x \in H : x \in Int
  BY <1>1, FS_Subset, FS_CardinalityType
<1>4. ASSUME NEW n \in H
      PROVE  IsFiniteSet(below(n)) /\ Cardinality(below(n)) \in Nat /\ Cardinality(below(n)) < Cardinality(H)
  <2>1. n \in Int
    BY <1>3
  <2>2. below(n) \in SUBSET H /\ n \notin below(n)
    BY <2>1
  <2> QED
    BY <1>3, <2>2, FS_Subset, FS_CardinalityType
<1>5. ASSUME NEW n \in H, NEW m \in H, n < m
      PROVE  Cardinality(below(n)) < Cardinality(below(m))
  <2>1. n \in Int /\ m \in Int
    BY <1>3
  <2>2. ASSUME NEW x \in below(n) PROVE x \in below(m)
    <3>1. x \in H /\ x \in Int /\ x < n
      BY <1>3
    <3> QED
      BY <1>5, <2>1, <3>1
  <2>3. below(n) \in SUBSET below(m)
    BY <2>2
  <2>4. n \in below(m) /\ n \notin below(n)
    BY <1>5, <2>1
  <2>5. /\ Cardinality(below(n)) <= Cardinality(below(m))
        /\ Cardinality(below(n)) = Cardinality(below(m)) => below(n) = below(m)
        /\ Cardinality(below(n)) \in Nat /\ Cardinality(below(m)) \in Nat
    <3>1. IsFiniteSet(below(m)) /\ Cardinality(below(n)) \in Nat /\ Cardinality(below(m)) \in Nat
      BY <1>4
    <3> HIDE DEF below
    <3> QED
      BY <2>3, <3>1, FS_Subset
  <2> QED
    BY <2>4, <2>5
<1>6. \A n \in H : PidOf(words, n) = nextPid + Cardinality(below(n))
  BY DEF PidOf
<1>7. \A n, m \in H : PidOf(words, n) = PidOf(words, m) => n = m
  <2> SUFFICES ASSUME NEW n \in H, NEW m \in H, PidOf(words, n) = PidOf(words, m), n # m PROVE FALSE
    OBVIOUS
  <2>1. n \in Int /\ m \in Int
    BY <1>3
  <2> HIDE DEF below, H
  <2> QED
    BY <1>2, <1>4, <1>5, <1>6, <2>1
<1>8. ASSUME NEW n \in Active(words)
      PROVE  n \in Node /\ words[n] \in Word /\ words[n] # None /\ MaySend(n, words[n]) /\ (n \in H <=> words[n].head)
  BY DEF Active, Heads, ClockInject
<1>9. ASSUME NEW n \in Active(words) PROVE words[n].head <=> sending[n] = None
  BY <1>8 DEF MaySend
<1>10. AddedFlits(words)
  <2> SUFFICES ASSUME NEW n \in Active(words)
               PROVE  AddedFlits(words)!(n)
    BY DEF AddedFlits
  <2>1. /\ n \in Node /\ words[n] \in Word /\ words[n].head \in BOOLEAN /\ words[n].tail \in BOOLEAN
        /\ words[n].vc \in VC /\ words[n].dest \in Node
    BY <1>8 DEF Word
  <2>2. CASE words[n].head
    <3>1. n \in H /\ sending[n] = None /\ <<n, words[n].dest>> \in Traffic
      BY <1>8, <1>9, <2>2 DEF MaySend
    <3>2. /\ PidOf(words, n) \in Nat /\ PidOf(words, n) >= nextPid /\ PidOf(words, n) < nextPid'
      <4>1. PidOf(words, n) = nextPid + Cardinality(below(n)) /\ Cardinality(below(n)) \in Nat
            /\ Cardinality(below(n)) < Cardinality(H)
        BY <1>4, <1>6, <3>1
      <4> HIDE DEF below, H
      <4> QED
        BY <1>2, <1>3, <4>1
    <3>3. DestOf(words, n) = words[n].dest /\ VcOf(words, n) = words[n].vc
      BY <3>1 DEF DestOf, VcOf
    <3>4. \A m \in Active(words) : words[m].head /\ PidOf(words, n) = PidOf(words, m) => n = m
      BY <1>7, <1>8, <3>1
    <3> QED
      BY <1>9, <2>1, <2>2, <3>1, <3>2, <3>3, <3>4 DEF FlitOf, Flit
  <2>3. CASE ~words[n].head
    <3>1. n \notin H /\ sending[n] \in [vc : VC, dest : Node]
      BY <1>2, <1>8, <1>9, <2>1, <2>3
    <3>2. /\ PidOf(words, n) = pId[n] /\ pId[n] \in Nat /\ DestOf(words, n) = destTable[n]
          /\ destTable[n] \in Node /\ VcOf(words, n) = sending[n].vc /\ sending[n].vc \in VC
      BY <1>2, <2>1, <3>1 DEF PidOf, DestOf, VcOf
    <3> QED
      BY <1>9, <2>1, <2>3, <3>2 DEF FlitOf, Flit
  <2> QED
    BY <2>2, <2>3
<1> QED
  BY <1>2, <1>3, <1>10

(* ClockInject adds them after all others, in port order. *)
LEMMA InjectEffect ==
  ASSUME Typed, NEW words \in [Node -> Word \cup {None}], ClockInject(words)
  PROVE  Injected(words) /\ sent' \in Seq(Flit)
<1> DEFINE A == Active(words)
           ports == Ascending(A)
           added == [k \in DOMAIN ports |-> FlitOf(words, ports[k])]
<1>1. A \in SUBSET Node
  BY DEF Active
<1>2. /\ Cardinality(A) \in Nat /\ DOMAIN ports = 1 .. Cardinality(A)
      /\ \A n \in A : Place(A, n) \in 1 .. Cardinality(A) /\ ports[Place(A, n)] = n
      /\ \A k \in 1 .. Cardinality(A) : ports[k] \in A /\ Place(A, ports[k]) = k
  BY <1>1, AscendingVisits
<1>3. /\ sent \in Seq(Flit) /\ sent' = sent \o added
      /\ requestBuf' = [n \in Node |-> IF n \in A THEN Append(requestBuf[n], IdOf(words, n)) ELSE requestBuf[n]]
      /\ partial' = partial
      /\ requestBuf \in [Node -> Seq(Nat)] /\ partial \in [Node -> Seq(Nat)]
  BY DEF Typed, ClockInject, Inject, manager
<1>4. \A n \in A : FlitOf(words, n) \in Flit /\ FlitOf(words, n).src = n
  BY InjectAdds DEF AddedFlits
<1> HIDE DEF A, ports
<1>5. added \in Seq(Flit) /\ Len(added) = Cardinality(A)
  <2>1. added \in [1 .. Cardinality(A) -> Flit]
    BY <1>2, <1>4
  <2> QED
    BY <1>2, <2>1, IsASeq
<1>6. /\ sent' \in Seq(Flit) /\ Len(sent) \in Nat /\ Id = 1 .. Len(sent)
      /\ Id' = 1 .. Len(sent) + Cardinality(A)
      /\ \A i \in Id : sent'[i] = sent[i]
      /\ \A k \in 1 .. Cardinality(A) : sent'[Len(sent) + k] = FlitOf(words, ports[k])
  <2>1. /\ sent' \in Seq(Flit) /\ Len(sent) \in Nat /\ Len(sent') = Len(sent) + Len(added)
        /\ DOMAIN sent = 1 .. Len(sent) /\ DOMAIN sent' = 1 .. Len(sent')
    BY <1>3, <1>5, ConcatProperties, LenProperties
  <2>2. \A i \in 1 .. Len(sent) + Len(added) :
          sent'[i] = IF i <= Len(sent) THEN sent[i] ELSE added[i - Len(sent)]
    BY <1>3, <1>5, ConcatProperties
  <2>3. \A k \in 1 .. Cardinality(A) : added[k] = FlitOf(words, ports[k])
    BY <1>2
  <2> HIDE DEF added
  <2>4. \A k \in 1 .. Cardinality(A) : sent'[Len(sent) + k] = added[k]
    BY <1>2, <1>5, <2>1, <2>2
  <2> QED
    BY <1>2, <1>5, <2>1, <2>2, <2>3, <2>4 DEF Id
<1>7. \A i \in Id : i \in Id' /\ sent'[i] = sent[i]
  BY <1>2, <1>6
<1>8. ASSUME NEW n \in A
      PROVE  /\ IdOf(words, n) \in Id' /\ IdOf(words, n) \in Nat
             /\ \A i \in Id : i < IdOf(words, n)
             /\ sent'[IdOf(words, n)] = FlitOf(words, n)
  <2>1. IdOf(words, n) = Len(sent) + Place(A, n)
    BY DEF IdOf, A
  <2> QED
    BY <1>2, <1>6, <2>1
<1>9. \A i \in Id' : i \in Id \/ (sent'[i].src \in A /\ i = IdOf(words, sent'[i].src))
  <2> SUFFICES ASSUME NEW i \in Id', i \notin Id
               PROVE  sent'[i].src \in A /\ i = IdOf(words, sent'[i].src)
    OBVIOUS
  <2>1. PICK k \in 1 .. Cardinality(A) : i = Len(sent) + k
    <3>1. i - Len(sent) \in 1 .. Cardinality(A) /\ i = Len(sent) + (i - Len(sent))
      BY <1>2, <1>6
    <3> QED
      BY <3>1
  <2>2. sent'[i] = FlitOf(words, ports[k]) /\ ports[k] \in A /\ Place(A, ports[k]) = k
    BY <1>2, <1>6, <2>1
  <2> QED
    BY <1>4, <2>1, <2>2 DEF IdOf, A
<1>10. \A n \in Node : Queued'[n] = IF n \in A THEN Append(Queued[n], IdOf(words, n)) ELSE Queued[n]
  <2> TAKE n \in Node
  <2>1. Queued'[n] = partial[n] \o requestBuf'[n] /\ Queued[n] = partial[n] \o requestBuf[n]
    BY <1>3 DEF Queued
  <2>2. CASE n \notin A
    BY <1>3, <2>1, <2>2
  <2>3. CASE n \in A
    <3>1. partial[n] \in Seq(Nat) /\ requestBuf[n] \in Seq(Nat) /\ IdOf(words, n) \in Nat
      BY <1>3, <1>8, <2>3
    <3>2. partial[n] \o Append(requestBuf[n], IdOf(words, n)) = Append(partial[n] \o requestBuf[n], IdOf(words, n))
      BY <3>1, AppendToConcat
    <3> QED
      BY <1>3, <2>1, <2>3, <3>2, Zenon
  <2> QED
    BY <2>2, <2>3
<1>11. Injected(words)
  <2> USE DEF A
  <2> SUFFICES /\ Injected(words)!1 /\ Injected(words)!2 /\ Injected(words)!3 /\ Injected(words)!4
    BY DEF Injected
  <2>1. Injected(words)!1
    BY <1>7
  <2>2. Injected(words)!2
    <3> TAKE n \in Active(words)
    <3> QED
      BY <1>8
  <2>3. Injected(words)!3
    BY <1>9
  <2>4. Injected(words)!4
    BY <1>10
  <2> QED
    BY <2>1, <2>2, <2>3, <2>4
<1> QED
  BY <1>6, <1>11

-----------------------------------------------------------------------------
(* The numbers of the flits sent, and what a flit is made of. *)
LEMMA FlitTypes ==
  ASSUME Typed
  PROVE  /\ Id = 1 .. Len(sent) /\ Len(sent) \in Nat
         /\ \A i \in Id : /\ i \in Nat /\ sent[i] \in Flit /\ sent[i].src \in Node /\ sent[i].vc \in VC
                        /\ sent[i].pid \in Nat /\ sent[i].dest \in Node
                        /\ sent[i].head \in BOOLEAN /\ sent[i].tail \in BOOLEAN
<1>1. sent \in Seq(Flit)
  BY DEF Typed
<1>2. Id = 1 .. Len(sent) /\ Len(sent) \in Nat
  BY <1>1 DEF Id
<1>3. ASSUME NEW i \in Id
      PROVE  /\ i \in Nat /\ sent[i] \in Flit /\ sent[i].src \in Node /\ sent[i].vc \in VC
             /\ sent[i].pid \in Nat /\ sent[i].dest \in Node
             /\ sent[i].head \in BOOLEAN /\ sent[i].tail \in BOOLEAN
  <2>1. i \in Nat /\ sent[i] \in Flit
    BY <1>1, <1>2
  <2> QED
    BY <2>1 DEF Flit
<1> QED
  BY <1>2, <1>3

(* Flits of one packet have the same source and VC. *)
LEMMA SamePacket ==
  ASSUME Typed, Packets, NEW i \in Id, NEW j \in Id, sent[i].pid = sent[j].pid
  PROVE  sent[i].src = sent[j].src /\ sent[i].vc = sent[j].vc
<1>1. i \in Nat /\ j \in Nat
  BY DEF Typed, Id
<1>2. CASE i = j
  BY <1>2
<1>3. CASE i < j
  BY <1>3 DEF Packets
<1>4. CASE j < i
  BY <1>4 DEF Packets
<1> QED
  BY <1>1, <1>2, <1>3, <1>4

(* A flit added belongs to a packet of its own, or to the unfinished one of its port. *)
LEMMA AddedPids ==
  ASSUME Typed, Packets, Unfinished, NEW words, AddedFlits(words)
  PROVE  /\ \A n \in Active(words), i \in Id :
              FlitOf(words, n).pid = sent[i].pid =>
                /\ ~words[n].head /\ sent[i].src = n /\ sent[i].vc = FlitOf(words, n).vc /\ ~sent[i].tail
         /\ \A n, m \in Active(words) : FlitOf(words, n).pid = FlitOf(words, m).pid => n = m
         /\ \A n \in Active(words) : ~words[n].head =>
              \E i \in Id : sent[i].pid = FlitOf(words, n).pid
         /\ \A n \in Active(words), m \in Node :
              sending[m] # None /\ FlitOf(words, n).pid = pId[m] => n = m
<1>1. \A i \in Id : sent[i] \in Flit /\ sent[i].pid \in Nat /\ sent[i].pid < nextPid
  BY FlitTypes DEF Packets
<1>2. nextPid \in Nat
  BY DEF Typed
<1>3. ASSUME NEW n \in Node, sending[n] # None
      PROVE  /\ \E i \in Id : sent[i].pid = pId[n] /\ sent[i].src = n /\ sent[i].vc = sending[n].vc
             /\ \A i \in Id : sent[i].pid = pId[n] => ~sent[i].tail /\ sent[i].src = n /\ sent[i].vc = sending[n].vc
  <2>1. PICK j \in Id : sent[j].pid = pId[n] /\ sent[j].src = n /\ sent[j].vc = sending[n].vc
    BY <1>3 DEF Unfinished
  <2>2. ASSUME NEW i \in Id, sent[i].pid = pId[n]
        PROVE  ~sent[i].tail /\ sent[i].src = n /\ sent[i].vc = sending[n].vc
    <3>1. sent[i].src = sent[j].src /\ sent[i].vc = sent[j].vc
      BY <2>1, <2>2, SamePacket
    <3> QED
      BY <1>3, <2>1, <2>2, <3>1 DEF Unfinished
  <2> QED
    BY <2>1, <2>2
<1>4. ASSUME NEW n \in Active(words), words[n].head
      PROVE  FlitOf(words, n).pid = PidOf(words, n) /\ PidOf(words, n) >= nextPid
  BY <1>4 DEF AddedFlits
<1>5. ASSUME NEW n \in Active(words), ~words[n].head
      PROVE  /\ n \in Node /\ sending[n] # None
             /\ FlitOf(words, n).pid = pId[n] /\ FlitOf(words, n).vc = sending[n].vc
  BY <1>5 DEF AddedFlits
<1>6. ASSUME NEW n \in Active(words)
      PROVE  FlitOf(words, n).pid \in Nat /\ FlitOf(words, n) \in Flit
  BY DEF AddedFlits, Flit
<1>7. ASSUME NEW n \in Active(words), NEW i \in Id, FlitOf(words, n).pid = sent[i].pid
      PROVE  ~words[n].head /\ sent[i].src = n /\ sent[i].vc = FlitOf(words, n).vc /\ ~sent[i].tail
  <2>1. ~words[n].head
    BY <1>1, <1>2, <1>4, <1>6, <1>7
  <2> QED
    BY <1>3, <1>5, <1>7, <2>1
<1>8. ASSUME NEW n \in Active(words), ~words[n].head
      PROVE  \E i \in Id : sent[i].pid = FlitOf(words, n).pid
  BY <1>3, <1>5, <1>8
<1>9. ASSUME NEW n \in Active(words), NEW m \in Active(words), FlitOf(words, n).pid = FlitOf(words, m).pid
      PROVE  n = m
  <2>1. CASE ~words[n].head
    <3>1. PICK i \in Id : sent[i].pid = FlitOf(words, n).pid
      BY <1>8, <2>1
    <3> QED
      BY <1>7, <1>9, <3>1
  <2>2. CASE ~words[m].head
    <3>1. PICK i \in Id : sent[i].pid = FlitOf(words, m).pid
      BY <1>8, <2>2
    <3> QED
      BY <1>7, <1>9, <3>1
  <2>3. CASE words[n].head /\ words[m].head
    <3>1. PidOf(words, n) = PidOf(words, m)
      BY <1>4, <1>9, <2>3
    <3> QED
      BY <2>3, <3>1 DEF AddedFlits
  <2> QED
    BY <2>1, <2>2, <2>3
<1>10. ASSUME NEW n \in Active(words), NEW m \in Node, sending[m] # None, FlitOf(words, n).pid = pId[m]
       PROVE  n = m
  <2>1. PICK i \in Id : sent[i].pid = pId[m] /\ sent[i].src = m
    BY <1>3, <1>10
  <2> QED
    BY <1>7, <1>10, <2>1
<1> QED
  BY <1>7, <1>8, <1>9, <1>10

(* They go on with their packet or begin a new one. *)
LEMMA InjectPackets ==
  ASSUME Typed, Packets, Unfinished,
         NEW words \in [Node -> Word \cup {None}], ClockInject(words)
  PROVE  Packets' /\ Unfinished'
<1>1. Injected(words) /\ AddedFlits(words) /\ sent' \in Seq(Flit) /\ nextPid' \in Nat /\ nextPid <= nextPid'
  BY InjectEffect, InjectAdds
<1>2. /\ sent \in Seq(Flit) /\ Id = 1 .. Len(sent) /\ Id' = 1 .. Len(sent') /\ Len(sent) \in Nat
      /\ Len(sent') \in Nat /\ nextPid \in Nat
  BY <1>1 DEF Typed, Id
<1>3. \A i \in Id : sent[i].pid \in Nat /\ sent[i].pid < nextPid /\ sent[i] \in Flit
  BY FlitTypes DEF Packets
<1> DEFINE A == Active(words)
           id(n) == IdOf(words, n)
           f(n) == FlitOf(words, n)
           Begins(i) == /\ sent'[i].pid < nextPid'
                        /\ sent'[i].head => sent'[i].word = sent'[i].vc
                        /\ \E j \in 1..i : sent'[j].head /\ sent'[j].pid = sent'[i].pid
           Follows(i, j) == /\ sent'[i].src = sent'[j].src /\ sent'[i].vc = sent'[j].vc
                            /\ ~sent'[i].tail /\ ~sent'[j].head
<1>4. \A i \in Id : i \in Id' /\ sent'[i] = sent[i]
  BY <1>1 DEF Injected
<1>5. \A i \in Id' : i \in Id \/ \E n \in A : i = id(n)
  BY <1>1 DEF Injected
<1>6. ASSUME NEW n \in A
      PROVE  /\ id(n) \in Id' /\ id(n) \in Nat /\ (\A i \in Id : i < id(n)) /\ sent'[id(n)] = f(n)
             /\ n \in Node /\ f(n) \in Flit /\ f(n).src = n
  BY <1>1 DEF Injected, AddedFlits
<1>7. /\ \A n \in A, i \in Id : f(n).pid = sent[i].pid =>
           ~words[n].head /\ sent[i].src = n /\ sent[i].vc = f(n).vc /\ ~sent[i].tail
      /\ \A n, m \in A : f(n).pid = f(m).pid => n = m
      /\ \A n \in A : ~words[n].head => \E i \in Id : sent[i].pid = f(n).pid
      /\ \A n \in A, m \in Node : sending[m] # None /\ f(n).pid = pId[m] => n = m
  BY <1>1, AddedPids
<1>8. ASSUME NEW n \in A
      PROVE  /\ f(n).head = words[n].head /\ f(n).tail = words[n].tail
             /\ words[n].head <=> sending[n] = None
             /\ words[n].head => f(n).pid < nextPid' /\ f(n).word = f(n).vc /\ f(n).vc = words[n].vc
             /\ ~words[n].head => f(n).pid = pId[n] /\ f(n).vc = sending[n].vc
             /\ words[n].head \in BOOLEAN
  <2>1. words[n] \in Word
    BY <1>1 DEF AddedFlits
  <2>2. words[n].head \in BOOLEAN
    BY <2>1 DEF Word
  <2>3. f(n).head = words[n].head /\ f(n).tail = words[n].tail /\ (words[n].head <=> sending[n] = None)
    BY <1>1 DEF AddedFlits
  <2>4. words[n].head => f(n).pid < nextPid' /\ f(n).word = f(n).vc /\ f(n).vc = words[n].vc
    <3> SUFFICES ASSUME words[n].head PROVE f(n).pid < nextPid' /\ f(n).word = f(n).vc /\ f(n).vc = words[n].vc
      OBVIOUS
    <3>1. n \in Active(words)
      BY DEF A
    <3>2. /\ FlitOf(words, n).pid = PidOf(words, n) /\ PidOf(words, n) < nextPid'
          /\ FlitOf(words, n).vc = words[n].vc /\ FlitOf(words, n).word = words[n].vc
      BY <1>1, <3>1 DEF AddedFlits
    <3> QED
      BY <3>2
  <2>5. ~words[n].head => f(n).pid = pId[n] /\ f(n).vc = sending[n].vc
    BY <1>1 DEF AddedFlits
  <2> QED
    BY <2>2, <2>3, <2>4, <2>5
<1> HIDE DEF A, id, f
<1>9. ASSUME NEW i \in Id'
      PROVE  Begins(i)
  <2>1. CASE i \in Id
    <3>1. PICK j \in 1..i : sent[j].head /\ sent[j].pid = sent[i].pid
      BY <2>1 DEF Packets
    <3>2. j \in Id
      BY <1>2, <2>1, <3>1
    <3>3. sent'[i] = sent[i] /\ sent'[j] = sent[j]
      BY <1>4, <2>1, <3>2
    <3>4. sent[i].head => sent[i].word = sent[i].vc
      BY <2>1 DEF Packets
    <3> QED
      BY <1>1, <1>2, <1>3, <2>1, <3>1, <3>3, <3>4
  <2>2. ASSUME NEW n \in A, i = id(n)
        PROVE  Begins(i)
    <3>1. sent'[i] = f(n)
      BY <1>6, <2>2
    <3>2. CASE words[n].head
      <4>1. i \in 1..i
        BY <1>6, <1>2
      <4> QED
        BY <1>8, <2>2, <3>1, <3>2, <4>1
    <3>3. CASE ~words[n].head
      <4>1. PICK k \in Id : sent[k].pid = f(n).pid
        BY <1>7, <3>3
      <4>2. PICK j \in 1..k : sent[j].head /\ sent[j].pid = sent[k].pid
        BY DEF Packets
      <4>3. j \in Id /\ k < i /\ j \in 1..i
        BY <1>2, <1>6, <2>2, <4>1, <4>2
      <4>4. sent'[j] = sent[j]
        BY <1>4, <4>3
      <4> QED
        BY <1>1, <1>2, <1>3, <1>8, <3>1, <3>3, <4>1, <4>2, <4>3, <4>4, SMTT(30)
    <3> QED
      BY <1>8, <3>2, <3>3
  <2> QED
    BY <1>5, <2>1, <2>2
<1>10. ASSUME NEW i \in Id', NEW j \in Id', i < j, sent'[i].pid = sent'[j].pid
       PROVE  Follows(i, j)
  <2>1. CASE i \in Id /\ j \in Id
    <3>1. sent'[i] = sent[i] /\ sent'[j] = sent[j]
      BY <1>4, <2>1
    <3> QED
      BY <1>10, <2>1, <3>1 DEF Packets
  <2>2. ASSUME i \in Id, NEW n \in A, j = id(n)
        PROVE  Follows(i, j)
    <3>1. sent'[i] = sent[i] /\ sent'[j] = f(n) /\ f(n).pid = sent[i].pid
      BY <1>4, <1>6, <1>10, <2>2
    <3>2. ~words[n].head /\ sent[i].src = n /\ sent[i].vc = f(n).vc /\ ~sent[i].tail
      BY <1>7, <2>2, <3>1
    <3> QED
      BY <1>6, <1>8, <3>1, <3>2
  <2>3. ASSUME j \in Id, NEW n \in A, i = id(n) PROVE FALSE
    BY <1>2, <1>6, <1>10, <2>3
  <2>4. ASSUME NEW n \in A, i = id(n), NEW m \in A, j = id(m) PROVE FALSE
    <3>1. f(n).pid = f(m).pid
      BY <1>6, <1>10, <2>4
    <3>2. n = m
      BY <1>7, <3>1
    <3> QED
      BY <1>6, <1>10, <2>4, <3>2
  <2> QED
    BY <1>5, <2>1, <2>2, <2>3, <2>4
<1>11. Packets'
  BY <1>9, <1>10 DEF Packets
<1>12. ASSUME NEW n \in Node, sending'[n] # None
       PROVE  /\ \E i \in Id' : sent'[i].pid = pId'[n] /\ sent'[i].src = n /\ sent'[i].vc = sending'[n].vc
              /\ \A i \in Id' : sent'[i].pid = pId'[n] => ~sent'[i].tail
  <2>1. /\ pId'[n] = PidOf(words, n)
        /\ sending'[n] = IF n \notin A THEN sending[n] ELSE IF words[n].tail THEN None
                         ELSE IF words[n].head THEN [vc |-> words[n].vc, dest |-> words[n].dest] ELSE sending[n]
    BY DEF ClockInject, Inject, A
  <2>2. CASE n \notin A
    <3>1. pId'[n] = pId[n] /\ sending'[n] = sending[n]
      BY <2>1, <2>2 DEF PidOf, Heads, A
    <3>2. PICK i \in Id : sent[i].pid = pId[n] /\ sent[i].src = n /\ sent[i].vc = sending[n].vc
      BY <1>12, <3>1 DEF Unfinished
    <3>3. i \in Id' /\ sent'[i] = sent[i]
      BY <1>4
    <3>4. ASSUME NEW k \in Id', sent'[k].pid = pId'[n] PROVE ~sent'[k].tail
      <4>1. CASE k \in Id
        BY <1>4, <1>12, <3>1, <3>4, <4>1 DEF Unfinished
      <4>2. ASSUME NEW m \in A, k = id(m) PROVE FALSE
        <5>1. f(m).pid = pId[n]
          BY <1>6, <3>1, <3>4, <4>2
        <5>2. m = n
          BY <1>7, <1>12, <3>1, <5>1
        <5> QED
          BY <2>2, <4>2, <5>2
      <4> QED
        BY <1>5, <4>1, <4>2
    <3> QED
      BY <3>1, <3>2, <3>3, <3>4
  <2>3. CASE n \in A
    <3>1. f(n).pid = pId'[n]
      BY <2>1 DEF f, FlitOf
    <3>2. ~words[n].tail /\ f(n).vc = sending'[n].vc
      <4>1. ~words[n].tail
        BY <1>12, <2>1, <2>3
      <4>2. CASE words[n].head
        BY <1>8, <2>1, <2>3, <4>1, <4>2
      <4>3. CASE ~words[n].head
        BY <1>8, <2>1, <2>3, <4>1, <4>3
      <4> QED
        BY <4>1, <4>2, <4>3
    <3>3. id(n) \in Id' /\ sent'[id(n)] = f(n) /\ f(n).src = n
      BY <1>6, <2>3
    <3>4. ASSUME NEW k \in Id', sent'[k].pid = pId'[n] PROVE ~sent'[k].tail
      <4>1. CASE k \in Id
        BY <1>4, <1>7, <2>3, <3>1, <3>4, <4>1
      <4>2. ASSUME NEW m \in A, k = id(m) PROVE ~sent'[k].tail
        <5>1. f(m).pid = f(n).pid
          BY <1>6, <3>1, <3>4, <4>2
        <5>2. m = n
          BY <1>7, <2>3, <5>1
        <5> QED
          BY <1>6, <1>8, <2>3, <3>2, <4>2, <5>2
      <4> QED
        BY <1>5, <4>1, <4>2
    <3> QED
      BY <3>1, <3>2, <3>3, <3>4
  <2> QED
    BY <2>2, <2>3
<1>13. Unfinished'
  BY <1>12 DEF Unfinished
<1> QED
  BY <1>11, <1>13

(* Order is kept when flits leave places, or ones sent later come in behind. *)
LEMMA StaysAhead ==
  ASSUME NEW s, NEW t, NEW A, NEW B, NEW C, NEW D, Ahead(s, A, B), C \subseteq A,
         \A j \in D : j \in B \/ \A i \in A : i < j,
         \A i \in A \cup B : t[i] = s[i]
  PROVE  Ahead(t, C, D)
BY DEF Ahead

(* The queue of a port after ClockInject. *)
LEMMA InjectQueue ==
  ASSUME Typed, Streams, NEW words, Injected(words), NEW n \in Node
  PROVE  /\ Queued[n] \in Seq(Nat) /\ Increasing(Queued'[n]) /\ Queued'[n] \in Seq(Nat)
         /\ IF n \in Active(words)
            THEN /\ Range(Queued'[n]) = Range(Queued[n]) \cup {IdOf(words, n)}
                 /\ Len(Queued'[n]) = Len(Queued[n]) + 1 /\ Queued'[n] # <<>>
                 /\ Queued'[n][Len(Queued[n]) + 1] = IdOf(words, n)
                 /\ \A k \in 1 .. Len(Queued[n]) : Queued'[n][k] = Queued[n][k]
            ELSE Queued'[n] = Queued[n]
<1>1. Queued[n] \in Seq(Nat)
  BY DEF Typed, Queued
<1>2. CASE n \in Active(words)
  <2>1. IdOf(words, n) \in Nat /\ \A x \in Range(Queued[n]) : x < IdOf(words, n)
    BY <1>2 DEF Injected, Streams
  <2>2. Queued'[n] = Append(Queued[n], IdOf(words, n))
    BY <1>2 DEF Injected
  <2>3. Increasing(Queued[n])
    BY DEF Streams
  <2> QED
    BY <1>1, <1>2, <2>1, <2>2, <2>3, AppendIncreasing
<1>3. CASE n \notin Active(words)
  BY <1>1, <1>3 DEF Injected, Streams
<1> QED
  BY <1>2, <1>3

(* A flit added is the last of its queue. *)
LEMMA InjectStreams ==
  ASSUME Typed, Streams, NEW words \in [Node -> Word \cup {None}], ClockInject(words)
  PROVE  Streams'
<1>1. Injected(words) /\ AddedFlits(words)
  BY InjectEffect, InjectAdds
<1>2. UNCHANGED <<entry, inner, occ>>
  BY DEF ClockInject, network, manager
<1>3. \A i \in Id : i \in Id' /\ sent'[i] = sent[i]
  BY <1>1 DEF Injected
<1>4. ASSUME NEW n \in Node
      PROVE  Increasing(Queued'[n]) /\ \A i \in Range(Queued'[n]) : i \in Id' /\ sent'[i].src = n
  <2>1. Increasing(Queued'[n])
    BY <1>1, InjectQueue
  <2>2. \A i \in Range(Queued[n]) : i \in Id' /\ sent'[i].src = n
    BY <1>3 DEF Streams
  <2>3. \A i \in Range(Queued'[n]) : i \in Range(Queued[n]) \/ (n \in Active(words) /\ i = IdOf(words, n))
    <3>1. CASE n \in Active(words)
      <4>1. Range(Queued'[n]) = Range(Queued[n]) \cup {IdOf(words, n)}
        BY <1>1, <3>1, InjectQueue
      <4> QED
        BY <3>1, <4>1
    <3>2. CASE n \notin Active(words)
      <4>1. Queued'[n] = Queued[n]
        BY <1>1, <3>2, InjectQueue
      <4> QED
        BY <4>1
    <3> QED
      BY <3>1, <3>2
  <2>4. n \in Active(words) => IdOf(words, n) \in Id' /\ sent'[IdOf(words, n)].src = n
    BY <1>1, ZenonT(40) DEF Injected, AddedFlits
  <2> QED
    BY <2>1, <2>2, <2>3, <2>4
<1>5. ASSUME NEW n \in Node, NEW v \in VC
      PROVE  /\ Increasing(entry'[n][v]) /\ Increasing(inner'[n][v])
             /\ \A i \in Range(entry'[n][v]) \cup Range(inner'[n][v]) :
                  i \in Id' /\ sent'[i].src = n /\ sent'[i].vc = v
             /\ occ'[n][v] = Len(entry'[n][v])
  BY <1>2, <1>3 DEF Streams
<1> QED
  BY <1>4, <1>5 DEF Streams

(* Where the flits are after ClockInject. *)
LEMMA InjectPlaces ==
  ASSUME Typed, Streams, NEW words \in [Node -> Word \cup {None}], ClockInject(words)
  PROVE  /\ InQueue \subseteq InQueue'
         /\ \A j \in InQueue' : j \in InQueue \/ (j \in Id' \ Id /\ sent'[j].src \in Active(words))
         /\ \A j \in Id' : j \in Id \/ (j \in InQueue' /\ j = IdOf(words, sent'[j].src))
         /\ InEntry' = InEntry /\ InInner' = InInner /\ InFlits' = InFlits /\ InReply' = InReply
<1>1. Injected(words) /\ AddedFlits(words)
  BY InjectEffect, InjectAdds
<1>2. UNCHANGED <<entry, inner, flits, replyBuf>>
  BY DEF ClockInject, network, manager
<1>3. \A i \in Id : i \in Id' /\ sent'[i] = sent[i] /\ sent[i].src \in Node /\ sent[i].vc \in VC
  BY <1>1, FlitTypes DEF Injected
<1>4. \A n \in Node : \A i \in Range(Queued[n]) : i \in Id /\ sent[i].src = n
  BY DEF Streams
<1>5. \A n \in Node : /\ \A i \in Range(Queued[n]) : i \in Range(Queued'[n])
                      /\ \A i \in Range(Queued'[n]) : i \in Range(Queued[n]) \/ (n \in Active(words) /\ i = IdOf(words, n))
                      /\ n \in Active(words) => IdOf(words, n) \in Range(Queued'[n])
  <2> TAKE n \in Node
  <2>1. CASE n \in Active(words)
    <3>1. Range(Queued'[n]) = Range(Queued[n]) \cup {IdOf(words, n)}
      BY <1>1, <2>1, InjectQueue
    <3> QED
      BY <2>1, <3>1
  <2>2. CASE n \notin Active(words)
    <3>1. Queued'[n] = Queued[n]
      BY <1>1, <2>2, InjectQueue
    <3> QED
      BY <2>2, <3>1
  <2> QED
    BY <2>1, <2>2
<1>6. \A j \in Id' : j \in Id \/ (sent'[j].src \in Active(words) /\ j = IdOf(words, sent'[j].src))
  BY <1>1 DEF Injected
<1>7. \A n \in Active(words) : n \in Node /\ IdOf(words, n) \in Id' \ Id /\ sent'[IdOf(words, n)].src = n
  <2> SUFFICES ASSUME NEW n \in Active(words)
               PROVE  n \in Node /\ IdOf(words, n) \in Id' \ Id /\ sent'[IdOf(words, n)].src = n
    OBVIOUS
  <2>1. n \in Node /\ IdOf(words, n) \in Id' /\ sent'[IdOf(words, n)].src = n
    BY <1>1 DEF Injected, AddedFlits
  <2>2. IdOf(words, n) \in Nat /\ \A i \in Id : i < IdOf(words, n)
    BY <1>1 DEF Injected
  <2>3. IdOf(words, n) \notin Id
    BY <2>2
  <2> QED
    BY <2>1, <2>3
<1>8. InQueue \subseteq InQueue'
  BY <1>3, <1>5 DEF InQueue
<1>9. ASSUME NEW j \in InQueue'
      PROVE  j \in InQueue \/ (j \in Id' \ Id /\ sent'[j].src \in Active(words))
  <2>1. j \in Id' /\ j \in Range(Queued'[sent'[j].src])
    BY DEF InQueue
  <2>2. CASE j \in Id
    <3>1. sent'[j] = sent[j] /\ sent[j].src \in Node
      BY <1>3, <2>2
    <3>2. j \in Range(Queued[sent[j].src])
      BY <1>5, <1>7, <2>1, <2>2, <3>1
    <3> QED
      BY <2>2, <3>2 DEF InQueue
  <2>3. CASE j \notin Id
    BY <1>6, <2>1, <2>3
  <2> QED
    BY <2>2, <2>3
<1>10. ASSUME NEW j \in Id', j \notin Id PROVE j \in InQueue' /\ j = IdOf(words, sent'[j].src)
  <2>1. sent'[j].src \in Active(words) /\ j = IdOf(words, sent'[j].src)
    BY <1>6, <1>10
  <2>2. j \in Range(Queued'[sent'[j].src])
    BY <1>5, <1>7, <2>1
  <2> QED
    BY <2>1, <2>2 DEF InQueue
<1>11. \A n \in Node, v \in VC : \A i \in Range(entry[n][v]) \cup Range(inner[n][v]) : i \in Id
  BY DEF Streams
<1>12. \A i \in Id' \ Id : sent'[i].src \in Node /\ sent'[i].vc \in VC
  <2> SUFFICES ASSUME NEW i \in Id', i \notin Id PROVE sent'[i].src \in Node /\ sent'[i].vc \in VC
    OBVIOUS
  <2>1. PICK n \in Active(words) : i = IdOf(words, n)
    BY <1>6
  <2>2. sent'[i] = FlitOf(words, n) /\ FlitOf(words, n) \in Flit
    BY <1>1, <2>1 DEF Injected, AddedFlits
  <2> QED
    BY <2>2 DEF Flit
<1>13. InEntry' = InEntry
  BY <1>2, <1>3, <1>11, <1>12 DEF InEntry
<1>14. InInner' = InInner
  BY <1>2, <1>3, <1>11, <1>12 DEF InInner
<1>15. InFlits' = InFlits
  <2>1. \A d \in Node : flits[d] \in Id \cup {None}
    BY DEF Typed
  <2>2. \A i \in Id' : i # None
    BY NoneAssumption, <1>1, InjectEffect DEF Id
  <2> QED
    BY <1>2, <1>3, <2>1, <2>2 DEF InFlits
<1>16. InReply' = InReply
  <2>1. \A k \in DOMAIN replyBuf : replyBuf[k].fid \in Id
    BY DEF Typed
  <2> QED
    BY <1>2, <1>3, <2>1 DEF InReply
<1> QED
  BY <1>8, <1>9, <1>10, <1>13, <1>14, <1>15, <1>16

(* The head of a packet says what port its flits are bound for. *)
LEMMA HeadOfPacket ==
  ASSUME NEW s, NEW i \in Nat, NEW j \in 1..i, s[j].head, s[j].pid = s[i].pid,
         \A k \in 1..i : s[k].head /\ s[k].pid = s[i].pid => k = j
  PROVE  BoundIn(s, i) = s[j].dest
<1>1. (CHOOSE k \in 1..i : s[k].head /\ s[k].pid = s[i].pid) = j
  OBVIOUS
<1> QED
  BY <1>1 DEF BoundIn

(* A flit is bound for the port its packet's head names. *)
LEMMA BoundOf ==
  ASSUME Typed, Packets, NEW i \in Id, NEW j \in 1..i, sent[j].head, sent[j].pid = sent[i].pid
  PROVE  j \in Id /\ BoundIn(sent, i) = sent[j].dest
<1>1. /\ Id = 1 .. Len(sent) /\ Len(sent) \in Nat /\ i \in Nat
  BY FlitTypes
<1>2. ASSUME NEW k \in 1..i, sent[k].head, sent[k].pid = sent[i].pid PROVE k = j
  <2>1. k \in Id /\ j \in Id /\ k \in Nat /\ j \in Nat
    BY <1>1
  <2>2. ~(k < j) /\ ~(j < k)
    BY <1>2, <2>1 DEF Packets
  <2> QED
    BY <2>1, <2>2
<1>3. j \in Id
  BY <1>1
<1> QED
  BY <1>1, <1>2, <1>3, HeadOfPacket

(* All flits of a packet are bound for one port. *)
LEMMA SameBound ==
  ASSUME Typed, Packets
  PROVE  /\ \A i \in Id : BoundIn(sent, i) \in Node
         /\ \A i, j \in Id : sent[i].pid = sent[j].pid => BoundIn(sent, i) = BoundIn(sent, j)
<1>1. ASSUME NEW i \in Id
      PROVE  \E j \in 1..i : j \in Id /\ sent[j].head /\ sent[j].pid = sent[i].pid /\ BoundIn(sent, i) = sent[j].dest
  <2>1. PICK j \in 1..i : sent[j].head /\ sent[j].pid = sent[i].pid
    BY DEF Packets
  <2> QED
    BY <2>1, BoundOf
<1>2. ASSUME NEW i \in Id, NEW j \in Id, sent[i].pid = sent[j].pid
      PROVE  BoundIn(sent, i) = BoundIn(sent, j)
  <2>1. PICK a \in 1..i : a \in Id /\ sent[a].head /\ sent[a].pid = sent[i].pid /\ BoundIn(sent, i) = sent[a].dest
    BY <1>1
  <2>2. PICK b \in 1..j : b \in Id /\ sent[b].head /\ sent[b].pid = sent[j].pid /\ BoundIn(sent, j) = sent[b].dest
    BY <1>1
  <2>3. a \in Id /\ b \in Id /\ sent[a].pid = sent[b].pid /\ sent[a].head /\ sent[b].head
    BY <1>2, <2>1, <2>2
  <2>4. ~(a < b) /\ ~(b < a)
    BY <2>3 DEF Packets
  <2>5. a \in Nat /\ b \in Nat
    BY <2>3, FlitTypes
  <2>6. a = b
    BY <2>4, <2>5
  <2> QED
    BY <2>1, <2>2, <2>6
<1>3. \A i \in Id : BoundIn(sent, i) \in Node
  BY <1>1, FlitTypes
<1> QED
  BY <1>2, <1>3

(* ClockInject leaves the ports alone that earlier flits are bound for. *)
LEMMA InjectBound ==
  ASSUME Typed, Packets, NEW words, Injected(words), NEW i \in Id
  PROVE  BoundIn(sent', i) = BoundIn(sent, i)
<1>1. PICK j \in 1..i : sent[j].head /\ sent[j].pid = sent[i].pid
  BY DEF Packets
<1>2. j \in Id /\ BoundIn(sent, i) = sent[j].dest
  BY <1>1, BoundOf
<1>3. Id = 1 .. Len(sent) /\ Len(sent) \in Nat /\ i \in Nat
  BY FlitTypes
<1>4. \A k \in 1..i : k \in Id /\ sent'[k] = sent[k]
  BY <1>3 DEF Injected
<1>5. ASSUME NEW k \in 1..i, sent'[k].head, sent'[k].pid = sent'[i].pid PROVE k = j
  <2>1. sent[k].head /\ sent[k].pid = sent[i].pid /\ k \in Id /\ k \in Nat /\ j \in Nat
    BY <1>3, <1>4, <1>5
  <2>2. ~(k < j) /\ ~(j < k)
    BY <1>1, <1>2, <2>1 DEF Packets
  <2> QED
    BY <2>1, <2>2
<1>6. sent'[j].head /\ sent'[j].pid = sent'[i].pid /\ sent'[j].dest = sent[j].dest
  <2>1. i \in 1..i
    BY <1>3, FlitTypes
  <2>2. sent'[i] = sent[i] /\ sent'[j] = sent[j]
    BY <1>4, <2>1
  <2> QED
    BY <1>1, <2>2
<1> QED
  BY <1>2, <1>3, <1>5, <1>6, HeadOfPacket

(* A flit added is behind all others. *)
LEMMA InjectOrder ==
  ASSUME Typed, Streams, Packets, Order,
         NEW words \in [Node -> Word \cup {None}], ClockInject(words)
  PROVE  Order'
<1>1. Injected(words)
  BY InjectEffect
<1>2. /\ InQueue \subseteq InQueue'
      /\ \A j \in InQueue' : j \in InQueue \/ j \in Id' \ Id
      /\ InEntry' = InEntry /\ InInner' = InInner /\ InFlits' = InFlits /\ InReply' = InReply
      /\ \A j \in Id' : j \in Id \/ (j = IdOf(words, sent'[j].src) /\ sent'[j].src \in Active(words))
  <2>1. /\ InQueue \subseteq InQueue'
        /\ \A j \in InQueue' : j \in InQueue \/ j \in Id' \ Id
        /\ InEntry' = InEntry /\ InInner' = InInner /\ InFlits' = InFlits /\ InReply' = InReply
    BY InjectPlaces
  <2>2. \A j \in Id' : j \in Id \/ (j = IdOf(words, sent'[j].src) /\ sent'[j].src \in Active(words))
    BY <1>1 DEF Injected
  <2> QED
    BY <2>1, <2>2
<1>3. /\ InQueue \subseteq Id /\ InEntry \subseteq Id /\ InInner \subseteq Id /\ InFlits \subseteq Id
      /\ InReply \subseteq Id
  BY DEF InQueue, InEntry, InInner, InFlits, InReply
<1>4. \A i \in Id : sent'[i] = sent[i]
  BY <1>1 DEF Injected
<1>5. \A i \in Id, j \in Id' \ Id : i < j
  BY <1>1, <1>2 DEF Injected
<1>6. Ahead(sent', InEntry', InQueue')
  <2> SUFFICES Ahead(sent', InEntry, InQueue')
    BY <1>2
  <2>1. Ahead(sent, InEntry, InQueue)
    BY DEF Order
  <2>2. \A j \in InQueue' : j \in InQueue \/ \A i \in InEntry : i < j
    BY <1>2, <1>3, <1>5
  <2> QED
    BY <1>3, <1>4, <2>1, <2>2, StaysAhead
<1>7. Ahead(sent', InInner', InQueue' \cup InEntry')
  <2> SUFFICES Ahead(sent', InInner, InQueue' \cup InEntry)
    BY <1>2
  <2>1. Ahead(sent, InInner, InQueue \cup InEntry)
    BY DEF Order
  <2>2. \A j \in InQueue' \cup InEntry : j \in InQueue \cup InEntry \/ \A i \in InInner : i < j
    BY <1>2, <1>3, <1>5
  <2>3. \A i \in InInner \cup (InQueue \cup InEntry) : sent'[i] = sent[i]
    BY <1>3, <1>4
  <2> QED
    BY <2>1, <2>2, <2>3, StaysAhead
<1>8. Ahead(sent', InFlits', InQueue' \cup InEntry' \cup InInner')
  <2> SUFFICES Ahead(sent', InFlits, InQueue' \cup InEntry \cup InInner)
    BY <1>2
  <2>1. Ahead(sent, InFlits, InQueue \cup InEntry \cup InInner)
    BY DEF Order
  <2>2. \A j \in InQueue' \cup InEntry \cup InInner :
          j \in InQueue \cup InEntry \cup InInner \/ \A i \in InFlits : i < j
    BY <1>2, <1>3, <1>5
  <2>3. \A i \in InFlits \cup (InQueue \cup InEntry \cup InInner) : sent'[i] = sent[i]
    BY <1>3, <1>4
  <2> QED
    BY <2>1, <2>2, <2>3, StaysAhead
<1>9. Ahead(sent', InReply', InNetwork')
  <2> SUFFICES Ahead(sent', InReply, InNetwork')
    BY <1>2
  <2>1. Ahead(sent, InReply, InNetwork)
    BY DEF Order
  <2>2. \A j \in InNetwork' : j \in InNetwork \/ \A i \in InReply : i < j
    BY <1>2, <1>3, <1>5 DEF InNetwork
  <2>3. \A i \in InReply \cup InNetwork : sent'[i] = sent[i]
    BY <1>3, <1>4 DEF InNetwork
  <2> QED
    BY <2>1, <2>2, <2>3, StaysAhead
<1>10. \A d \in Node : flits'[d] # None => BoundIn(sent', flits'[d]) = d
  <2> SUFFICES ASSUME NEW d \in Node, flits[d] # None PROVE BoundIn(sent', flits[d]) = d
    BY DEF ClockInject, manager
  <2>1. flits[d] \in Id /\ BoundIn(sent, flits[d]) = d
    BY DEF Typed, Order
  <2> QED
    BY <1>1, <2>1, InjectBound
<1> QED
  BY <1>6, <1>7, <1>8, <1>9, <1>10 DEF Order

(* At each port the design sends whole packets one after the other. *)
LEMMA InjectLined ==
  ASSUME Typed, Streams, Lined, NEW words \in [Node -> Word \cup {None}], ClockInject(words)
  PROVE  Lined'
<1>1. Injected(words) /\ AddedFlits(words)
  BY InjectEffect, InjectAdds
<1>2. \A i \in Id : sent'[i] = sent[i]
  BY <1>1 DEF Injected
<1> DEFINE Joined(s, a, b) == IF s[b].head THEN s[a].tail ELSE ~s[a].tail /\ s[b].pid = s[a].pid
           Ends(s, a, none, p) == IF none THEN s[a].tail ELSE ~s[a].tail /\ s[a].pid = p
<1> SUFFICES ASSUME NEW n \in Node
             PROVE  /\ \A k \in 1 .. Len(Queued'[n]) - 1 : Joined(sent', Queued'[n][k], Queued'[n][k + 1])
                    /\ Queued'[n] # <<>> =>
                         Ends(sent', Queued'[n][Len(Queued'[n])], sending'[n] = None, pId'[n])
  BY DEF Lined
<1> DEFINE q == Queued[n]
           r == Queued'[n]
<1>3. q \in Seq(Nat) /\ Len(q) \in Nat /\ \A k \in 1 .. Len(q) : q[k] \in Id
  <2>1. q \in Seq(Nat)
    BY DEF Typed, Queued
  <2>2. \A k \in 1 .. Len(q) : q[k] \in Range(q)
    BY <2>1 DEF Range
  <2> QED
    BY <2>1, <2>2 DEF Streams
<1>4. /\ \A k \in 1 .. Len(q) - 1 : Joined(sent, q[k], q[k + 1])
      /\ q # <<>> => Ends(sent, q[Len(q)], sending[n] = None, pId[n])
  BY DEF Lined
<1>5. /\ pId'[n] = PidOf(words, n)
      /\ sending'[n] = IF n \notin Active(words) THEN sending[n] ELSE IF words[n].tail THEN None
                       ELSE IF words[n].head THEN [vc |-> words[n].vc, dest |-> words[n].dest] ELSE sending[n]
  BY DEF ClockInject, Inject
<1>6. \A k \in 1 .. Len(q) - 1 : Joined(sent', q[k], q[k + 1])
  <2> TAKE k \in 1 .. Len(q) - 1
  <2>1. q[k] \in Id /\ q[k + 1] \in Id
    BY <1>3
  <2> QED
    BY <1>2, <1>4, <2>1
<1>7. CASE n \notin Active(words)
  <2>1. r = q /\ pId'[n] = pId[n] /\ sending'[n] = sending[n]
    BY <1>1, <1>5, <1>7 DEF Injected, PidOf, Heads
  <2>2. q # <<>> => q[Len(q)] \in Id
    BY <1>3
  <2> QED
    BY <1>2, <1>4, <1>6, <2>1, <2>2
<1>8. CASE n \in Active(words)
  <2> DEFINE e == IdOf(words, n)
             f == FlitOf(words, n)
  <2>1. /\ Len(r) = Len(q) + 1 /\ r # <<>> /\ r[Len(q) + 1] = e
        /\ \A k \in 1 .. Len(q) : r[k] = q[k]
    BY <1>1, <1>8, InjectQueue
  <2>2. sent'[e] = f /\ f.head = words[n].head /\ f.tail = words[n].tail /\ f.pid = pId'[n]
    BY <1>1, <1>5, <1>8 DEF Injected, AddedFlits, FlitOf
  <2>3. (words[n].head <=> sending[n] = None) /\ (~words[n].head => f.pid = pId[n]) /\ words[n] \in Word
    BY <1>1, <1>8 DEF AddedFlits
  <2> HIDE DEF e, f, q, r
  <2>4. ASSUME NEW k \in 1 .. Len(r) - 1 PROVE Joined(sent', r[k], r[k + 1])
    <3>1. CASE k \in 1 .. Len(q) - 1
      <4>1. r[k] = q[k] /\ r[k + 1] = q[k + 1]
        BY <1>3, <2>1, <3>1
      <4> HIDE DEF Joined
      <4> QED
        BY <1>6, <3>1, <4>1
    <3>2. CASE k = Len(q)
      <4>1. q # <<>> /\ r[k] = q[Len(q)] /\ r[k + 1] = e /\ q[Len(q)] \in Id
        BY <1>3, <2>1, <2>4, <3>2
      <4>2. Ends(sent, q[Len(q)], sending[n] = None, pId[n]) /\ sent'[q[Len(q)]] = sent[q[Len(q)]]
        BY <1>2, <1>4, <4>1
      <4> QED
        BY <2>2, <2>3, <4>1, <4>2
    <3> QED
      BY <1>3, <2>1, <3>1, <3>2
  <2>5. Ends(sent', r[Len(r)], sending'[n] = None, pId'[n])
    <3>1. r[Len(r)] = e
      BY <2>1
    <3>2. sending'[n] = None <=> words[n].tail
      <4>1. [vc |-> words[n].vc, dest |-> words[n].dest] # None
        BY <2>3, NoneAssumption DEF Word
      <4> QED
        BY <1>5, <1>8, <2>3, <4>1
    <3> QED
      BY <2>2, <2>3, <3>1, <3>2
  <2> QED
    BY <2>1, <2>4, <2>5 DEF r
<1> QED
  BY <1>7, <1>8

(* The packet that is half in the network stays the same: a flit added to  *)
(* an empty queue goes on with it, or begins another when there is none.   *)
LEMMA InjectEntered ==
  ASSUME Typed, Streams, Entered, NEW words \in [Node -> Word \cup {None}], ClockInject(words)
  PROVE  Entered'
<1>1. Injected(words) /\ AddedFlits(words)
  BY InjectEffect, InjectAdds
<1>2. \A i \in Id : sent'[i] = sent[i]
  BY <1>1 DEF Injected
<1>3. UNCHANGED <<packetVc, inUse>>
  BY DEF ClockInject, manager
<1>4. ASSUME NEW n \in Node
      PROVE  /\ (Begun(n) <=> Begun(n)')
             /\ Begun(n) => BegunPid(n) = BegunPid(n)' /\ BegunVc(n) = BegunVc(n)'
  <2> DEFINE q == Queued[n]
             r == Queued'[n]
  <2>1. q \in Seq(Nat) /\ r \in Seq(Nat)
    BY <1>1, InjectQueue
  <2>2. /\ pId'[n] = PidOf(words, n)
        /\ n \notin Active(words) => sending'[n] = sending[n]
    BY DEF ClockInject, Inject
  <2>3. CASE q # <<>>
    <3>1. r # <<>> /\ r[1] = q[1] /\ Head(q) \in Id
      <4>1. 1 \in 1 .. Len(q) /\ Head(q) = q[1]
        BY <2>1, <2>3
      <4>2. Head(q) \in Range(q)
        BY <2>1, <4>1 DEF Range
      <4>3. Head(q) \in Id
        BY <4>2 DEF Streams
      <4> QED
        BY <1>1, <2>3, <4>1, <4>3, InjectQueue
    <3>2. Head(r) = Head(q) /\ sent'[Head(r)] = sent[Head(q)]
      BY <1>2, <2>1, <2>3, <3>1
    <3> QED
      BY <2>3, <3>1, <3>2 DEF Begun, BegunPid, BegunVc, Foremost
  <2>4. CASE q = <<>> /\ n \notin Active(words)
    <3>1. r = <<>> /\ pId'[n] = pId[n] /\ sending'[n] = sending[n]
      BY <1>1, <2>2, <2>4 DEF Injected, PidOf, Heads
    <3> QED
      BY <2>4, <3>1 DEF Begun, BegunPid, BegunVc
  <2>5. CASE q = <<>> /\ n \in Active(words)
    <3>1. r # <<>> /\ r[1] = IdOf(words, n)
      <4>1. Len(q) = 0
        BY <2>5
      <4> QED
        BY <1>1, <2>5, <4>1, InjectQueue
    <3>2. Head(r) = IdOf(words, n) /\ sent'[Head(r)] = FlitOf(words, n)
      BY <1>1, <2>1, <2>5, <3>1 DEF Injected
    <3>3. /\ FlitOf(words, n).head = words[n].head /\ (words[n].head <=> sending[n] = None)
          /\ ~words[n].head => FlitOf(words, n).pid = pId[n] /\ FlitOf(words, n).vc = sending[n].vc
      BY <1>1, <2>5 DEF AddedFlits
    <3> QED
      BY <2>5, <3>1, <3>2, <3>3 DEF Begun, BegunPid, BegunVc, Foremost
  <2> QED
    BY <2>3, <2>4, <2>5
<1> QED
  BY <1>3, <1>4 DEF Entered

(* Flits that are added have not entered the network. *)
LEMMA InjectPacketVcs ==
  ASSUME Typed, Streams, PacketVcs, NEW words \in [Node -> Word \cup {None}], ClockInject(words)
  PROVE  PacketVcs'
<1>1. Injected(words)
  BY InjectEffect
<1>2. \A i \in Id : i \in Id' /\ sent'[i] = sent[i]
  BY <1>1 DEF Injected
<1>3. packetVc' = packetVc
  BY DEF ClockInject, manager
<1>4. InEntry' = InEntry /\ InInner' = InInner /\ InFlits' = InFlits
  BY InjectPlaces
<1>5. InEntry \cup InInner \cup InFlits \subseteq Id
  BY DEF InEntry, InInner, InFlits
<1>6. \A p \in DOMAIN packetVc : \E i \in Id' : sent'[i].pid = p /\ sent'[i].vc = packetVc[p]
  BY <1>2 DEF PacketVcs
<1>7. \A i \in InEntry \cup InInner \cup InFlits : sent'[i].pid \in DOMAIN packetVc
  BY <1>2, <1>5 DEF PacketVcs
<1> QED
  BY <1>3, <1>4, <1>6, <1>7 DEF PacketVcs

(* queueFlit and the server note each flit and its packet. *)
LEMMA InjectKnown ==
  ASSUME Typed, Streams, Known, NEW words \in [Node -> Word \cup {None}], ClockInject(words)
  PROVE  Known'
<1>1. Injected(words) /\ AddedFlits(words)
  BY InjectEffect, InjectAdds
<1>2. \A i \in Id : i \in Id' /\ sent'[i] = sent[i]
  BY <1>1 DEF Injected
<1>3. /\ inFlight' = inFlight
      /\ requestBuf' = [n \in Node |-> IF n \in Active(words) THEN Append(requestBuf[n], IdOf(words, n))
                                                           ELSE requestBuf[n]]
      /\ requestBuf \in [Node -> Seq(Nat)]
      /\ DOMAIN origDest' = DOMAIN origDest \cup {PidOf(words, n) : n \in Active(words)}
  <2> DEFINE added == [p \in {PidOf(words, n) : n \in Active(words)} |->
                         DestOf(words, CHOOSE n \in Active(words) : PidOf(words, n) = p)]
  <2>1. origDest' = Over(added, origDest)
    BY DEF ClockInject, Inject
  <2>2. DOMAIN added = {PidOf(words, n) : n \in Active(words)}
    OBVIOUS
  <2> HIDE DEF added
  <2>3. DOMAIN Over(added, origDest) = DOMAIN added \cup DOMAIN origDest
    BY DEF Over
  <2>4. /\ inFlight' = inFlight
        /\ requestBuf' = [n \in Node |-> IF n \in Active(words) THEN Append(requestBuf[n], IdOf(words, n))
                                                             ELSE requestBuf[n]]
        /\ requestBuf \in [Node -> Seq(Nat)]
    BY DEF ClockInject, Inject, manager, Typed
  <2> QED
    BY <2>1, <2>2, <2>3, <2>4
<1>4. ASSUME NEW n \in Node
      PROVE  /\ Range(requestBuf[n]) \subseteq Range(requestBuf'[n])
             /\ n \in Active(words) => IdOf(words, n) \in Range(requestBuf'[n])
  <2>1. CASE n \in Active(words)
    <3>1. requestBuf[n] \in Seq(Nat) /\ IdOf(words, n) \in Nat /\ requestBuf'[n] = Append(requestBuf[n], IdOf(words, n))
      BY <1>1, <1>3, <2>1 DEF Injected
    <3>2. Range(Append(requestBuf[n], IdOf(words, n))) = Range(requestBuf[n]) \cup {IdOf(words, n)}
      BY <3>1, AppendRange
    <3> QED
      BY <3>1, <3>2
  <2>2. CASE n \notin Active(words)
    BY <1>3, <2>2
  <2> QED
    BY <2>1, <2>2
<1>5. Requested \subseteq Requested'
  BY <1>4 DEF Requested
<1>6. ASSUME NEW i \in InNetwork'
      PROVE  i \in inFlight' \cup Requested' /\ sent'[i].pid \in DOMAIN origDest'
  <2>1. CASE i \in InNetwork
    <3>1. i \in Id
      BY <2>1 DEF InNetwork, InQueue, InEntry, InInner, InFlits
    <3> QED
      BY <1>2, <1>3, <1>5, <2>1, <3>1 DEF Known
  <2>2. CASE i \notin InNetwork
    <3>1. i \in Id' \ Id /\ sent'[i].src \in Active(words) /\ i \in InQueue'
      <4>1. i \in InQueue' \/ i \in InEntry \/ i \in InInner \/ i \in InFlits
        BY <1>6, InjectPlaces DEF InNetwork
      <4> QED
        BY <2>2, <4>1, InjectPlaces DEF InNetwork
    <3>2. PICK n \in Active(words) : i = IdOf(words, n)
      BY <3>1, InjectPlaces
    <3>3. sent'[i].pid = PidOf(words, n) /\ n \in Node
      <4>1. sent'[i] = FlitOf(words, n) /\ n \in Node
        BY <1>1, <3>2 DEF Injected, AddedFlits
      <4>2. FlitOf(words, n).pid = PidOf(words, n)
        BY DEF FlitOf
      <4> QED
        BY <4>1, <4>2
    <3> QED
      BY <1>3, <1>4, <3>2, <3>3 DEF Requested
  <2> QED
    BY <2>1, <2>2
<1> QED
  BY <1>6 DEF Known

(* The elements of a sequence are finite in number. *)
LEMMA RangeFinite ==
  ASSUME NEW s \in Seq(Nat)
  PROVE  IsFiniteSet(Range(s))
<1>1. DOMAIN s = 1 .. Len(s) /\ Len(s) \in Nat
  OBVIOUS
<1>2. IsFiniteSet(1 .. Len(s))
  BY <1>1, FS_Interval
<1>3. s \in Surjection(1 .. Len(s), Range(s))
  BY <1>1 DEF Surjection, Range
<1> QED
  BY <1>2, <1>3, FS_Surjection

(* ClockInject keeps the types. *)
LEMMA InjectTyped ==
  ASSUME Typed, NEW words \in [Node -> Word \cup {None}], ClockInject(words)
  PROVE  Typed'
<1>1. Injected(words) /\ AddedFlits(words) /\ sent' \in Seq(Flit) /\ nextPid' \in Nat
  BY InjectEffect, InjectAdds
<1>2. /\ \A i \in Id : i \in Id' /\ sent'[i] = sent[i]
      /\ \A n \in Active(words) : /\ IdOf(words, n) \in Id' /\ IdOf(words, n) \in Nat
                                  /\ FlitOf(words, n) \in Flit /\ words[n] \in Word /\ n \in Node
  BY <1>1 DEF Injected, AddedFlits
<1>3. \A n \in Node : PidOf(words, n) \in Nat
  <2> TAKE n \in Node
  <2>1. CASE n \in Heads(words)
    <3>1. n \in Active(words) /\ FlitOf(words, n).pid = PidOf(words, n)
      BY <2>1 DEF Heads, FlitOf
    <3> QED
      BY <1>2, <3>1 DEF Flit
  <2>2. CASE n \notin Heads(words)
    BY <2>2 DEF PidOf, Typed
  <2> QED
    BY <2>1, <2>2
<1>4. \A n \in Active(words) : DestOf(words, n) \in Node /\ VcOf(words, n) \in VC
  <2> SUFFICES ASSUME NEW n \in Active(words) PROVE DestOf(words, n) \in Node /\ VcOf(words, n) \in VC
    OBVIOUS
  <2>1. FlitOf(words, n).dest = DestOf(words, n) /\ FlitOf(words, n).vc = VcOf(words, n)
    BY DEF FlitOf
  <2> QED
    BY <1>2, <2>1 DEF Flit
<1>5. \A x \in Node : x % DestTableSize \in Node
  <2> TAKE x \in Node
  <2>1. x \in Nat /\ DestTableSize \in Nat \ {0} /\ NumNodes \in Nat
    BY BridgeAssumption DEF Node
  <2>2. x % DestTableSize \in 0 .. DestTableSize - 1
    BY <2>1
  <2>3. x % DestTableSize <= x
    <3>1. CASE x < DestTableSize
      BY <2>1, <3>1
    <3>2. CASE ~(x < DestTableSize)
      BY <2>1, <2>2, <3>2
    <3> QED
      BY <3>1, <3>2
  <2> QED
    BY <2>1, <2>2, <2>3 DEF Node
<1>6. sending' \in [Node -> [vc : VC, dest : Node] \cup {None}]
  <2>1. sending' = [n \in Node |->
            IF n \notin Active(words) THEN sending[n]
            ELSE IF words[n].tail THEN None
            ELSE IF words[n].head THEN [vc |-> words[n].vc, dest |-> words[n].dest] ELSE sending[n]]
    BY DEF ClockInject, Inject
  <2>2. sending \in [Node -> [vc : VC, dest : Node] \cup {None}]
    BY DEF Typed
  <2>3. \A n \in Active(words) : [vc |-> words[n].vc, dest |-> words[n].dest] \in [vc : VC, dest : Node]
    BY <1>2 DEF Word
  <2> QED
    BY <2>1, <2>2, <2>3
<1>7. credits' \in [Node -> [VC -> 0..VcBufSize]]
  <2>1. credits' = [n \in Node |-> [v \in VC |->
            IF n \in Active(words) /\ VcOf(words, n) = v THEN credits[n][v] - 1 ELSE credits[n][v]]]
    BY DEF ClockInject, Inject
  <2>2. \A n \in Active(words) : credits[n][VcOf(words, n)] > 0
    <3> SUFFICES ASSUME NEW n \in Active(words) PROVE credits[n][VcOf(words, n)] > 0
      OBVIOUS
    <3>1. n \in Node /\ words[n] # None /\ MaySend(n, words[n]) /\ (words[n].head <=> sending[n] = None)
      BY <1>1 DEF Active, ClockInject, AddedFlits
    <3>2. VcOf(words, n) = IF words[n].head THEN words[n].vc ELSE sending[n].vc
      BY DEF VcOf, Heads
    <3> QED
      BY <3>1, <3>2 DEF MaySend
  <2>3. credits \in [Node -> [VC -> 0..VcBufSize]] /\ VcBufSize \in Nat
    BY BridgeAssumption DEF Typed
  <2>4. ASSUME NEW n \in Node, NEW v \in VC
        PROVE  (IF n \in Active(words) /\ VcOf(words, n) = v THEN credits[n][v] - 1 ELSE credits[n][v]) \in 0..VcBufSize
    <3>1. credits[n][v] \in 0..VcBufSize
      BY <2>3
    <3>2. CASE n \in Active(words) /\ VcOf(words, n) = v
      BY <2>2, <2>3, <3>1, <3>2
    <3>3. CASE ~(n \in Active(words) /\ VcOf(words, n) = v)
      BY <3>1, <3>3
    <3> QED
      BY <3>2, <3>3
  <2> QED
    BY <2>1, <2>4
<1>8. pId' \in [Node -> Nat] /\ destTable' \in [Node -> Node]
  <2>1. /\ pId' = [n \in Node |-> PidOf(words, n)]
        /\ destTable' = [n \in Node |-> IF n \in Heads(words) THEN words[n].dest % DestTableSize ELSE destTable[n]]
        /\ destTable \in [Node -> Node]
    BY DEF ClockInject, Inject, Typed
  <2>2. \A n \in Heads(words) : words[n].dest \in Node
    BY <1>2 DEF Heads, Word
  <2> QED
    BY <1>3, <1>5, <2>1, <2>2
<1>9. dataSet' \subseteq [fid : Id', dest : Node]
  <2>1. dataSet' = dataSet \cup {[fid |-> IdOf(words, n), dest |-> DestOf(words, n)] : n \in Active(words)}
    BY DEF ClockInject, Inject
  <2>2. dataSet \subseteq [fid : Id, dest : Node]
    BY DEF Typed
  <2> QED
    BY <1>2, <1>4, <2>1, <2>2
<1>10. requestBuf' \in [Node -> Seq(Nat)]
  <2>1. /\ requestBuf' = [n \in Node |-> IF n \in Active(words) THEN Append(requestBuf[n], IdOf(words, n)) ELSE requestBuf[n]]
        /\ requestBuf \in [Node -> Seq(Nat)]
    BY DEF ClockInject, Inject, Typed
  <2> QED
    BY <1>2, <2>1
<1>11. Range(origDest') \subseteq Node
  <2> DEFINE added == [p \in {PidOf(words, n) : n \in Active(words)} |->
                         DestOf(words, CHOOSE n \in Active(words) : PidOf(words, n) = p)]
  <2>1. origDest' = Over(added, origDest)
    BY DEF ClockInject, Inject
  <2>2. ASSUME NEW p \in DOMAIN added PROVE added[p] \in Node
    <3>1. \E n \in Active(words) : PidOf(words, n) = p
      OBVIOUS
    <3>2. (CHOOSE n \in Active(words) : PidOf(words, n) = p) \in Active(words)
      BY <3>1
    <3> QED
      BY <1>4, <3>2
  <2>3. \A p \in DOMAIN origDest : origDest[p] \in Node
    BY DEF Typed, Range
  <2> HIDE DEF added
  <2> QED
    BY <2>1, <2>2, <2>3 DEF Over, Range
<1>12. UNCHANGED <<held, received, replyBuf, nocToRtl, rtlToNoc, inFlight, partial, packetVc, occ, inUse,
                   prevOcc, flits, entry, inner, ejOcc, creditSlot, stepsLeft, phase, quit, failed>>
  BY DEF ClockInject, manager, network
<1>13. /\ \A n \in Node : Range(received'[n]) \subseteq Id'
       /\ inFlight' \subseteq Id' /\ \A k \in DOMAIN replyBuf' : replyBuf'[k].fid \in Id'
       /\ flits' \in [Node -> Id' \cup {None}]
  BY <1>2, <1>12 DEF Typed
<1>14. clock' = "return"
  BY DEF ClockInject
<1> QED
  BY <1>1, <1>6, <1>7, <1>8, <1>9, <1>10, <1>11, <1>12, <1>13, <1>14 DEF Typed

(* ClockInject and the state of the server. *)
LEMMA InjectRounds ==
  ASSUME Rounds, Sampled, NEW words \in [Node -> Word \cup {None}], ClockInject(words)
  PROVE  Rounds' /\ Sampled'
<1>1. /\ phase = "serve" /\ clock = "inject" /\ clock' = "return" /\ ~quit /\ failed = None
      /\ UNCHANGED <<rtlToNoc, occ, prevOcc, flits, creditSlot, stepsLeft, phase, quit, failed>>
  BY DEF ClockInject, Serving, manager, network
<1>2. Rounds'
  BY <1>1 DEF Rounds
<1>3. Sampled'
  BY <1>1 DEF Sampled
<1> QED
  BY <1>2, <1>3

(* The queued flits of a port that go on VC v. *)
QueuedOn(n, v) == {i \in Range(Queued[n]) : sent[i].vc = v}

(* They are finite in number. *)
LEMMA QueuedFinite ==
  ASSUME Typed, NEW n \in Node, NEW v
  PROVE  IsFiniteSet(QueuedOn(n, v)) /\ Cardinality(QueuedOn(n, v)) \in Nat
<1>1. Queued[n] \in Seq(Nat)
  BY DEF Typed, Queued
<1>2. IsFiniteSet(Range(Queued[n])) /\ QueuedOn(n, v) \in SUBSET Range(Queued[n])
  BY <1>1, RangeFinite DEF QueuedOn
<1> QED
  BY <1>2, FS_Subset, FS_CardinalityType

(* A flit is queued for each credit the design uses. *)
LEMMA InjectCredits ==
  ASSUME Typed, Streams, SenderCredits, NEW words \in [Node -> Word \cup {None}], ClockInject(words)
  PROVE  SenderCredits'
<1>1. Injected(words)
  BY InjectEffect
<1>2. \A i \in Id : i \in Id' /\ sent'[i] = sent[i]
  BY <1>1 DEF Injected
<1>3. /\ credits' = [n \in Node |-> [v \in VC |->
            IF n \in Active(words) /\ VcOf(words, n) = v THEN credits[n][v] - 1 ELSE credits[n][v]]]
      /\ credits \in [Node -> [VC -> 0..VcBufSize]] /\ prevOcc \in [Node -> [VC -> 0..VcBufSize]]
      /\ prevOcc' = prevOcc /\ nocToRtl' = nocToRtl /\ VcBufSize \in Nat
  BY BridgeAssumption DEF ClockInject, Inject, Typed, manager
<1> SUFFICES ASSUME NEW n \in Node, NEW v \in VC
             PROVE  credits'[n][v] + Cardinality(QueuedOn(n, v)') + prevOcc'[n][v] + One(<<n, v>> \in nocToRtl')
                      = VcBufSize
  BY DEF SenderCredits, QueuedOn
<1>4. credits[n][v] + Cardinality(QueuedOn(n, v)) + prevOcc[n][v] + One(<<n, v>> \in nocToRtl) = VcBufSize
  BY DEF SenderCredits, QueuedOn
<1>5. IsFiniteSet(QueuedOn(n, v)) /\ Cardinality(QueuedOn(n, v)) \in Nat
  BY QueuedFinite
<1>6. \A i \in Range(Queued[n]) : i \in Id
  BY DEF Streams
<1>7. credits[n][v] \in Nat /\ prevOcc[n][v] \in Nat /\ One(<<n, v>> \in nocToRtl) \in Nat
  BY <1>3 DEF One
<1>8. CASE n \notin Active(words)
  <2>1. Queued'[n] = Queued[n]
    BY <1>1, <1>8, InjectQueue
  <2>2. QueuedOn(n, v)' = QueuedOn(n, v)
    BY <1>2, <1>6, <2>1 DEF QueuedOn
  <2>3. credits'[n][v] = credits[n][v]
    BY <1>3, <1>8
  <2> QED
    BY <1>3, <1>4, <2>2, <2>3
<1>9. CASE n \in Active(words)
  <2> DEFINE e == IdOf(words, n)
  <2>1. Range(Queued'[n]) = Range(Queued[n]) \cup {e}
    BY <1>1, <1>9, InjectQueue
  <2>2. sent'[e].vc = VcOf(words, n) /\ e \notin Range(Queued[n])
    <3>1. sent'[e] = FlitOf(words, n) /\ e \in Nat /\ \A i \in Id : i < e
      BY <1>1, <1>9 DEF Injected
    <3>2. FlitOf(words, n).vc = VcOf(words, n)
      BY DEF FlitOf
    <3>3. e \notin Id
      BY <3>1
    <3> QED
      BY <1>6, <3>1, <3>2, <3>3
  <2> HIDE DEF e
  <2>3. CASE VcOf(words, n) = v
    <3>1. QueuedOn(n, v)' = QueuedOn(n, v) \cup {e} /\ e \notin QueuedOn(n, v)
      BY <1>2, <1>6, <2>1, <2>2, <2>3 DEF QueuedOn
    <3>2. Cardinality(QueuedOn(n, v)') = Cardinality(QueuedOn(n, v)) + 1
      BY <1>5, <3>1, FS_AddElement
    <3>3. credits'[n][v] = credits[n][v] - 1
      BY <1>3, <1>9, <2>3
    <3> QED
      BY <1>3, <1>4, <1>5, <1>7, <3>2, <3>3
  <2>4. CASE VcOf(words, n) # v
    <3>1. QueuedOn(n, v)' = QueuedOn(n, v)
      BY <1>2, <1>6, <2>1, <2>2, <2>4 DEF QueuedOn
    <3>2. credits'[n][v] = credits[n][v]
      BY <1>3, <1>9, <2>4
    <3> QED
      BY <1>3, <1>4, <3>1, <3>2
  <2> QED
    BY <2>3, <2>4
<1> QED
  BY <1>8, <1>9

(* A finite set of numbers has a greatest. *)
LEMMA MaxOf ==
  ASSUME NEW S, IsFiniteSet(S), S \subseteq Int, S # {}
  PROVE  Max(S) \in S /\ \A x \in S : x <= Max(S)
<1> DEFINE from(x) == {y \in S : x <= y}
           Froms == {from(x) : x \in S}
<1>1. Froms \subseteq SUBSET S /\ Froms # {}
  OBVIOUS
<1>2. PICK T \in Froms : \A U \in Froms : U \subseteq T => U = T
  <2> HIDE DEF Froms
  <2>1. Froms \subseteq SUBSET S
    BY <1>1
  <2>2. Froms # {}
    BY <1>1
  <2>3. \E T \in Froms : \A U \in Froms : U \subseteq T => U = T
    BY ONLY IsFiniteSet(S), <2>1, <2>2, MinimalSubset
  <2> QED
    BY <2>3
<1>3. PICK x \in S : T = from(x)
  OBVIOUS
<1>4. ASSUME NEW y \in S PROVE y <= x
  <2> SUFFICES ASSUME x < y PROVE FALSE
    OBVIOUS
  <2>1. from(y) \subseteq T /\ x \in T /\ x \notin from(y)
    <3>1. x \in Int /\ y \in Int
      OBVIOUS
    <3>2. x \in from(x) /\ x \notin from(y)
      BY <3>1
    <3>3. \A z \in from(y) : z \in from(x)
      <4> TAKE z \in from(y)
      <4>1. z \in S /\ z \in Int /\ y <= z
        OBVIOUS
      <4> QED
        BY <3>1, <4>1
    <3> QED
      BY <1>3, <3>2, <3>3
  <2>2. from(y) \in Froms
    OBVIOUS
  <2> HIDE DEF from, Froms
  <2> QED
    BY <1>2, <2>1, <2>2
<1> QED
  BY <1>3, <1>4 DEF Max

-----------------------------------------------------------------------------
(* What depends on the places of flits and on the packets, and nothing else. *)
Flow == Streams /\ Order /\ Packets /\ Unfinished /\ Lined /\ Entered /\ PacketVcs /\ Known

(* Steps that move no flit, but for those the design takes, keep it. *)
LEMMA StillFlow ==
  ASSUME Flow, Typed,
         UNCHANGED <<sent, nextPid, sending, pId, partial, requestBuf, entry, inner, flits>>,
         UNCHANGED <<packetVc, inUse, inFlight, origDest, occ>>,
         replyBuf' = replyBuf \/ replyBuf' = <<>>
  PROVE  Flow'
<1>1. Queued' = Queued
  BY DEF Queued
<1>2. InQueue' = InQueue /\ Id' = Id
  BY <1>1 DEF InQueue, Id
<1>3. InEntry' = InEntry /\ InInner' = InInner /\ InFlits' = InFlits
  BY DEF InEntry, InInner, InFlits, Id
<1>4. InReply' \subseteq InReply
  BY DEF InReply, Id
<1>5. InNetwork' = InNetwork /\ Requested' = Requested
  BY <1>2, <1>3 DEF InNetwork, Requested
<1>6. Order'
  <2>1. Ahead(sent, InReply, InNetwork)
    BY DEF Flow, Order
  <2>2. Ahead(sent, InReply', InNetwork)
    BY <1>4, <2>1 DEF Ahead
  <2> QED
    BY <1>2, <1>3, <1>5, <2>2 DEF Flow, Order
<1>7. Streams'
  BY <1>1, <1>2 DEF Flow, Streams
<1>8. Packets'
  BY <1>2 DEF Flow, Packets
<1>9. Unfinished'
  BY <1>2 DEF Flow, Unfinished
<1>10. Lined'
  BY <1>1 DEF Flow, Lined
<1>11. Entered'
  <2>1. \A n \in Node : (Begun(n)' <=> Begun(n)) /\ BegunPid(n)' = BegunPid(n) /\ BegunVc(n)' = BegunVc(n)
    BY <1>1 DEF Begun, BegunPid, BegunVc, Foremost
  <2> QED
    BY <2>1 DEF Flow, Entered
<1>12. PacketVcs'
  BY <1>2, <1>3 DEF Flow, PacketVcs
<1>13. Known'
  BY <1>5 DEF Flow, Known
<1> QED
  BY <1>6, <1>7, <1>8, <1>9, <1>10, <1>11, <1>12, <1>13 DEF Flow

(* ClockReturn. *)
LEMMA ReturnKeeps ==
  ASSUME IInv, NEW freed \in SUBSET (Node \X VC), ClockReturn(freed)
  PROVE  IInv'
<1>1. Flow /\ Typed /\ Rounds /\ Sampled /\ SenderCreditsKept
  BY DEF IInv, Flow
<1>2. /\ UNCHANGED <<sending, credits, received, sent, nextPid, pId, destTable, dataSet>>
      /\ UNCHANGED <<requestBuf, replyBuf, origDest, nocToRtl>>
      /\ UNCHANGED <<inFlight, partial, packetVc, occ, inUse, prevOcc, flits>>
      /\ UNCHANGED <<entry, inner, owner, ejOcc, creditSlot, stepsLeft, phase, quit>>
      /\ phase = "serve" /\ failed = None /\ clock = "return" /\ clock' = "receive"
  BY DEF ClockReturn, Serving, wrapper, manager, network
<1>3. failed' = None
  BY <1>1, <1>2 DEF ClockReturn, Rounds
<1>4. Flow'
  BY <1>1, <1>2, StillFlow
<1>5. Typed'
  <2>1. held' \in [Node -> [VC -> Nat]]
    <3>1. /\ held' = [n \in Node |-> [v \in VC |-> IF <<n, v>> \in freed THEN held[n][v] - 1 ELSE held[n][v]]]
          /\ \A n \in Node, v \in VC : <<n, v>> \in freed => held[n][v] > 0
      BY DEF ClockReturn
    <3>2. held \in [Node -> [VC -> Nat]]
      BY <1>1 DEF Typed
    <3> QED
      BY <3>1, <3>2
  <2>2. rtlToNoc' \subseteq Node \X VC
    BY <1>1 DEF Typed, ClockReturn
  <2>3. Id' = Id
    BY <1>2 DEF Id
  <2> QED
    BY <1>1, <1>2, <1>3, <2>1, <2>2, <2>3 DEF Typed
<1>6. Rounds' /\ Sampled'
  BY <1>1, <1>2, <1>3 DEF Rounds, Sampled
<1>7. SenderCreditsKept'
  <2>1. Queued' = Queued
    BY <1>2 DEF Queued
  <2> QED
    BY <1>1, <1>2, <2>1 DEF SenderCreditsKept, SenderCredits
<1> QED
  BY <1>4, <1>5, <1>6, <1>7 DEF IInv, Flow

(* ClockReceive: every credit that was on its way is the design's. *)
LEMMA ReceiveKeeps ==
  ASSUME IInv, ClockReceive
  PROVE  IInv'
<1>1. Flow /\ Typed /\ Rounds /\ Sampled /\ SenderCreditsKept
  BY DEF IInv, Flow
<1>2. /\ UNCHANGED <<sending, sent, nextPid, pId, destTable, requestBuf, origDest, rtlToNoc>>
      /\ UNCHANGED <<inFlight, partial, packetVc, occ, inUse, prevOcc, flits>>
      /\ UNCHANGED <<entry, inner, owner, ejOcc, creditSlot, phase, quit, failed>>
      /\ phase = "serve" /\ failed = None /\ clock = "receive" /\ clock' = "step"
      /\ stepsLeft' = Speedup /\ replyBuf' = <<>> /\ nocToRtl' = {} /\ dataSet' \subseteq dataSet
  BY DEF ClockReceive, Serving, manager, network
<1>3. Flow'
  BY <1>1, <1>2, StillFlow
<1>4. /\ credits' = [n \in Node |-> [v \in VC |->
              IF <<n, v>> \in nocToRtl THEN credits[n][v] + 1 ELSE credits[n][v]]]
      /\ credits \in [Node -> [VC -> 0..VcBufSize]] /\ prevOcc \in [Node -> [VC -> 0..VcBufSize]]
      /\ VcBufSize \in Nat
  BY <1>1, BridgeAssumption DEF ClockReceive, Typed
<1>5. ASSUME NEW n \in Node, NEW v \in VC
      PROVE  /\ credits'[n][v] \in 0..VcBufSize
             /\ credits'[n][v] = credits[n][v] + One(<<n, v>> \in nocToRtl)
             /\ credits'[n][v] + Cardinality(QueuedOn(n, v)) + prevOcc[n][v] = VcBufSize
  <2>1. credits[n][v] + Cardinality(QueuedOn(n, v)) + prevOcc[n][v] + One(<<n, v>> \in nocToRtl) = VcBufSize
    BY <1>1, <1>2 DEF SenderCreditsKept, SenderCredits, QueuedOn
  <2>2. Cardinality(QueuedOn(n, v)) \in Nat
    BY <1>1, QueuedFinite
  <2>3. credits'[n][v] = credits[n][v] + One(<<n, v>> \in nocToRtl)
    BY <1>4 DEF One
  <2>4. One(<<n, v>> \in nocToRtl) \in Nat /\ credits[n][v] \in Nat /\ prevOcc[n][v] \in Nat
    BY <1>4 DEF One
  <2> QED
    BY <1>4, <2>1, <2>2, <2>3, <2>4
<1>6. SenderCredits'
  <2>1. Queued' = Queued
    BY <1>2 DEF Queued
  <2>2. \A n \in Node, v \in VC : QueuedOn(n, v)' = QueuedOn(n, v)
    BY <1>2, <2>1 DEF QueuedOn
  <2> SUFFICES ASSUME NEW n \in Node, NEW v \in VC
               PROVE  credits'[n][v] + Cardinality(QueuedOn(n, v)') + prevOcc'[n][v] + One(<<n, v>> \in nocToRtl')
                        = VcBufSize
    BY DEF SenderCredits, QueuedOn
  <2>3. One(<<n, v>> \in nocToRtl') = 0
    BY <1>2 DEF One
  <2>4. Cardinality(QueuedOn(n, v)) \in Nat /\ prevOcc[n][v] \in Nat /\ credits'[n][v] \in Nat
    BY <1>1, <1>4, <1>5, QueuedFinite
  <2>5. /\ credits'[n][v] + Cardinality(QueuedOn(n, v)) + prevOcc[n][v] = VcBufSize
        /\ prevOcc'[n][v] = prevOcc[n][v] /\ Cardinality(QueuedOn(n, v)') = Cardinality(QueuedOn(n, v))
    BY <1>2, <1>5, <2>2
  <2> QED
    BY <2>3, <2>4, <2>5
<1>7. Typed'
  <2> DEFINE out(n) == {k \in DOMAIN replyBuf : PortOf(replyBuf[k]) = n}
  <2>1. /\ received' = [n \in Node |-> IF out(n) = {} THEN received[n]
                                       ELSE Append(received[n], replyBuf[Max(out(n))].fid)]
        /\ held' = [n \in Node |-> [v \in VC |->
              IF out(n) # {} /\ replyBuf[Max(out(n))].vc = v THEN held[n][v] + 1 ELSE held[n][v]]]
    BY DEF ClockReceive
  <2>2. ASSUME NEW n \in Node, out(n) # {} PROVE Max(out(n)) \in DOMAIN replyBuf
    <3>1. DOMAIN replyBuf = 1 .. Len(replyBuf) /\ Len(replyBuf) \in Nat
      BY <1>1 DEF Typed
    <3>2. out(n) \in SUBSET (1 .. Len(replyBuf)) /\ IsFiniteSet(1 .. Len(replyBuf))
      BY <3>1, FS_Interval
    <3>3. IsFiniteSet(out(n)) /\ out(n) \subseteq Int
      BY <3>1, <3>2, FS_Subset
    <3> HIDE DEF out
    <3>4. Max(out(n)) \in out(n)
      BY <2>2, <3>3, MaxOf
    <3> QED
      BY <3>1, <3>2, <3>4
  <2>3. \A k \in DOMAIN replyBuf : replyBuf[k].fid \in Id /\ replyBuf[k].fid \in Nat
    BY <1>1, FlitTypes DEF Typed
  <2>4. /\ received \in [Node -> Seq(Nat)] /\ \A n \in Node : Range(received[n]) \subseteq Id
        /\ held \in [Node -> [VC -> Nat]]
    BY <1>1 DEF Typed
  <2> HIDE DEF out
  <2>5. ASSUME NEW n \in Node PROVE received'[n] \in Seq(Nat) /\ Range(received'[n]) \subseteq Id
    <3>1. CASE out(n) = {}
      BY <2>1, <2>4, <3>1
    <3>2. CASE out(n) # {}
      <4>1. received'[n] = Append(received[n], replyBuf[Max(out(n))].fid)
        BY <2>1, <3>2
      <4>2. received[n] \in Seq(Nat) /\ replyBuf[Max(out(n))].fid \in Nat /\ replyBuf[Max(out(n))].fid \in Id
        BY <2>2, <2>3, <2>4, <3>2
      <4>3. Range(received'[n]) = Range(received[n]) \cup {replyBuf[Max(out(n))].fid}
        BY <4>1, <4>2, AppendRange
      <4> QED
        BY <2>4, <4>1, <4>2, <4>3
    <3> QED
      BY <3>1, <3>2
  <2>6. received' \in [Node -> Seq(Nat)] /\ \A n \in Node : Range(received'[n]) \subseteq Id
    BY <2>1, <2>5
  <2>7. held' \in [Node -> [VC -> Nat]]
    BY <2>1, <2>4
  <2>8. credits' \in [Node -> [VC -> 0..VcBufSize]]
    BY <1>4, <1>5
  <2>9. Id' = Id /\ stepsLeft' \in 0..Speedup
    BY <1>2, BridgeAssumption DEF Id
  <2>10. replyBuf' \in Seq([fid : Nat, vc : VC]) /\ DOMAIN replyBuf' = {}
    BY <1>2
  <2> QED
    BY <1>1, <1>2, <2>6, <2>7, <2>8, <2>9, <2>10 DEF Typed
<1>8. Rounds' /\ Sampled'
  BY <1>1, <1>2, BridgeAssumption DEF Rounds, Sampled
<1> QED
  BY <1>3, <1>6, <1>7, <1>8 DEF IInv, Flow, SenderCreditsKept

(* ClockStep and ClockQuit only pass the turn on. *)
LEMMA TurnKeeps ==
  ASSUME IInv, ClockStep \/ ClockQuit
  PROVE  IInv'
<1>1. Flow /\ Typed /\ Rounds /\ Sampled /\ SenderCreditsKept
  BY DEF IInv, Flow
<1>2. /\ UNCHANGED <<sending, credits, held, received, sent, nextPid, pId, destTable, dataSet>>
      /\ UNCHANGED <<requestBuf, replyBuf, origDest, nocToRtl, rtlToNoc>>
      /\ UNCHANGED <<inFlight, partial, packetVc, occ, inUse, prevOcc, flits>>
      /\ UNCHANGED <<entry, inner, owner, ejOcc, creditSlot, failed>>
      /\ phase = "serve" /\ phase' = "work"
  BY DEF ClockStep, ClockQuit, Serving, design, wrapper, interface, manager, network
<1>3. Flow'
  BY <1>1, <1>2, StillFlow
<1>4. /\ clock' \in {"inject", "step"} /\ stepsLeft' \in 0..Speedup /\ quit' \in BOOLEAN
      /\ clock' = "step" => stepsLeft' > 0
  <2>1. stepsLeft \in 0..Speedup /\ Speedup \in Nat /\ quit \in BOOLEAN
    BY <1>1, BridgeAssumption DEF Typed
  <2>2. CASE ClockStep
    <3>1. /\ clock = "step" /\ stepsLeft' = stepsLeft - 1
          /\ clock' = (IF stepsLeft = 1 THEN "inject" ELSE "step") /\ quit' = quit
      BY <2>2 DEF ClockStep
    <3>2. stepsLeft > 0
      BY <1>1, <3>1 DEF Rounds
    <3> QED
      BY <2>1, <3>1, <3>2
  <2>3. CASE ClockQuit
    BY <2>1, <2>3 DEF ClockQuit
  <2> QED
    BY <2>2, <2>3
<1>5. Typed'
  <2>1. Id' = Id
    BY <1>2 DEF Id
  <2> QED
    BY <1>1, <1>2, <1>4, <2>1 DEF Typed
<1>6. Rounds' /\ Sampled'
  BY <1>1, <1>2, <1>4 DEF Rounds, Sampled
<1>7. SenderCreditsKept'
  <2>1. Queued' = Queued
    BY <1>2 DEF Queued
  <2> QED
    BY <1>1, <1>2, <2>1 DEF SenderCreditsKept, SenderCredits
<1> QED
  BY <1>3, <1>5, <1>6, <1>7 DEF IInv, Flow

(* ClockInject. *)
LEMMA InjectKeeps ==
  ASSUME IInv, NEW words \in [Node -> Word \cup {None}], ClockInject(words)
  PROVE  IInv'
<1>1. /\ Typed /\ Streams /\ Order /\ Packets /\ Unfinished /\ Lined /\ Entered /\ PacketVcs
      /\ Known /\ Rounds /\ Sampled /\ SenderCredits
  BY DEF IInv, SenderCreditsKept, ClockInject, Serving
<1>2. Typed' /\ Streams' /\ Order'
  BY <1>1, InjectTyped, InjectStreams, InjectOrder
<1>3. Packets' /\ Unfinished' /\ Lined'
  BY <1>1, InjectPackets, InjectLined
<1>4. Entered' /\ PacketVcs' /\ Known'
  BY <1>1, InjectEntered, InjectPacketVcs, InjectKnown
<1>5. Rounds' /\ Sampled' /\ SenderCredits'
  BY <1>1, InjectRounds, InjectCredits
<1> QED
  BY <1>2, <1>3, <1>4, <1>5 DEF IInv, SenderCreditsKept

-----------------------------------------------------------------------------
(* What Work does: flits leave the queues for the network, the others read *)
(* in this network cycle are retired.                                      *)

(* The flit at the front of a queue, and the VC it goes on. *)
(* The flit at the front of port n's queue. *)
Front(n) ==
  /\ Head(Queued[n]) \in Id /\ Head(Queued[n]) \in Range(Queued[n]) /\ Head(Queued[n]) \in InQueue
  /\ Foremost(n) \in Flit /\ Foremost(n).src = n
  /\ ForemostVc(n) = Foremost(n).vc /\ Foremost(n).vc \in VC
  /\ ~Foremost(n).head => Foremost(n).pid \in DOMAIN packetVc

(* It goes on the VC its packet was sent on: a head flit names it, for any *)
(* other _current_packet_vc knows it.                                      *)
LEMMA FrontOfQueue ==
  ASSUME Typed, Streams, Packets, Entered, PacketVcs, NEW n \in Node, Queued[n] # <<>>
  PROVE  Front(n)
<1>1. Queued[n] \in Seq(Nat)
  BY DEF Typed, Queued
<1>2. Head(Queued[n]) \in Range(Queued[n])
  BY <1>1 DEF Range
<1>3. Head(Queued[n]) \in Id /\ Foremost(n).src = n
  BY <1>2 DEF Streams, Foremost
<1>4. Foremost(n) \in Flit /\ Foremost(n).vc \in VC /\ Foremost(n).head \in BOOLEAN
  BY <1>3, FlitTypes DEF Foremost
<1>5. Head(Queued[n]) \in InQueue
  BY <1>2, <1>3 DEF InQueue, Foremost
<1>6. CASE Foremost(n).head
  <2>1. Foremost(n).word = Foremost(n).vc
    BY <1>3, <1>6 DEF Packets, Foremost
  <2> QED
    BY <1>2, <1>3, <1>4, <1>5, <1>6, <2>1 DEF Front, ForemostVc
<1>7. CASE ~Foremost(n).head
  <2>1. Begun(n) /\ BegunPid(n) = Foremost(n).pid
    BY <1>7 DEF Begun, BegunPid
  <2>2. Foremost(n).pid \in DOMAIN packetVc
    BY <2>1 DEF Entered
  <2>3. PICK i \in Id : sent[i].pid = Foremost(n).pid /\ sent[i].vc = packetVc[Foremost(n).pid]
    BY <2>2 DEF PacketVcs
  <2>4. sent[i].vc = Foremost(n).vc
    BY <1>3, <2>3, SamePacket DEF Foremost
  <2> QED
    BY <1>2, <1>3, <1>4, <1>5, <1>7, <2>2, <2>3, <2>4 DEF Front, ForemostVc
<1> QED
  BY <1>4, <1>6, <1>7

(* What the injection loop does to the queues and the first buffers. *)
Advanced ==
  /\ \A n \in Node : Queued'[n] = IF n \in Entering THEN Tail(Queued[n]) ELSE Queued[n]
  /\ \A n \in Node, v \in VC :
       /\ entry'[n][v] = IF Enters(n, v) THEN Append(entry[n][v], Head(Queued[n])) ELSE entry[n][v]
       /\ occ'[n][v] = IF Enters(n, v) THEN occ[n][v] + 1 ELSE occ[n][v]
       /\ prevOcc'[n][v] = occ'[n][v]
  /\ \A n \in Entering : n \in Node /\ Queued[n] # <<>> /\ ~IsFullFor(n, ForemostVc(n))

(* The injection loop, and what the rest of _Step leaves alone. *)
LEMMA WorkAdvances ==
  ASSUME Typed, Work
  PROVE  /\ Advanced
         /\ UNCHANGED <<sending, credits, held, received, sent, nextPid, pId, destTable, dataSet>>
         /\ UNCHANGED <<inner, owner, ejOcc, clock, stepsLeft, quit>>
         /\ phase = "work" /\ failed = None /\ phase' = "read"
         /\ requestBuf' = PerNode(<<>>) /\ rtlToNoc' = {} /\ flits' = PerNode(None)
<1>1. /\ partial' = [n \in Node |-> IF n \in Entering THEN Tail(Queued[n]) ELSE Queued[n]]
      /\ requestBuf' = PerNode(<<>>) /\ occ' = NextOcc /\ prevOcc' = NextOcc
      /\ entry' = [n \in Node |-> [v \in VC |->
                     IF Enters(n, v) THEN Append(entry[n][v], Head(Queued[n])) ELSE entry[n][v]]]
      /\ phase = "work" /\ failed = None /\ phase' = "read" /\ rtlToNoc' = {} /\ flits' = PerNode(None)
      /\ UNCHANGED <<design, wrapper, inner, owner, ejOcc, clock, stepsLeft, quit>>
  BY DEF Work
<1>2. ASSUME NEW n \in Node PROVE Queued'[n] = IF n \in Entering THEN Tail(Queued[n]) ELSE Queued[n]
  <2>1. partial[n] \in Seq(Nat) /\ requestBuf[n] \in Seq(Nat) /\ Queued[n] = partial[n] \o requestBuf[n]
    BY DEF Typed, Queued
  <2>2. Queued[n] \in Seq(Nat)
    BY <2>1
  <2>3. Queued'[n] = partial'[n] \o requestBuf'[n] /\ requestBuf'[n] = <<>>
    BY <1>1 DEF Queued, PerNode
  <2>4. partial'[n] = IF n \in Entering THEN Tail(Queued[n]) ELSE Queued[n]
    BY <1>1
  <2>5. n \in Entering => Queued[n] # <<>>
    BY DEF Entering
  <2>6. partial'[n] \in Seq(Nat)
    BY <2>2, <2>4, <2>5
  <2> QED
    BY <2>3, <2>4, <2>6
<1>3. \A n \in Node, v \in VC :
       /\ entry'[n][v] = IF Enters(n, v) THEN Append(entry[n][v], Head(Queued[n])) ELSE entry[n][v]
       /\ occ'[n][v] = IF Enters(n, v) THEN occ[n][v] + 1 ELSE occ[n][v]
       /\ prevOcc'[n][v] = occ'[n][v]
  BY <1>1 DEF NextOcc
<1>4. ASSUME NEW n \in Entering PROVE n \in Node /\ Queued[n] # <<>> /\ ~IsFullFor(n, ForemostVc(n))
  BY DEF Entering
<1> QED
  BY <1>1, <1>2, <1>3, <1>4 DEF Advanced, design, wrapper

(* Every flit retired is an answer, behind those that are there already. *)
Answered ==
  /\ replyBuf' \in Seq([fid : Nat, vc : VC])
  /\ \A k \in DOMAIN replyBuf : k \in DOMAIN replyBuf' /\ replyBuf'[k] = replyBuf[k]
  /\ \A n \in Retiring : /\ Len(replyBuf) + Place(Retiring, n) \in DOMAIN replyBuf'
                         /\ replyBuf'[Len(replyBuf) + Place(Retiring, n)] = Reply(n)
  /\ \A k \in DOMAIN replyBuf' :
       k \in DOMAIN replyBuf \/ \E n \in Retiring : /\ k = Len(replyBuf) + Place(Retiring, n)
                                                 /\ k \notin DOMAIN replyBuf
                                                 /\ replyBuf'[k] = Reply(n)

(* _RetireFlit answers for the flits read, in port order. *)
LEMMA WorkAnswers ==
  ASSUME Typed, PacketVcs, Work
  PROVE  Answered
<1> DEFINE ports == Ascending(Retiring)
           C == Cardinality(Retiring)
           added == [k \in DOMAIN ports |-> Reply(ports[k])]
           L == Len(replyBuf)
<1>1. replyBuf' = replyBuf \o added
  BY DEF Work
<1>2. Retiring \in SUBSET Node
  BY DEF Retiring
<1>3. /\ DOMAIN ports = 1 .. C /\ C \in Nat
      /\ \A k \in 1 .. C : ports[k] \in Retiring /\ Place(Retiring, ports[k]) = k
      /\ \A n \in Retiring : Place(Retiring, n) \in 1 .. C /\ ports[Place(Retiring, n)] = n
  BY <1>2, AscendingVisits
<1>4. ASSUME NEW n \in Retiring PROVE Reply(n) \in [fid : Nat, vc : VC]
  <2>1. n \in Node /\ flits[n] \in Id
    BY DEF Typed, Retiring
  <2>2. flits[n] \in InFlits /\ flits[n] \in Nat
    BY <2>1, FlitTypes DEF InFlits
  <2>3. sent[flits[n]].pid \in DOMAIN packetVc
    BY <2>2 DEF PacketVcs
  <2>4. packetVc[sent[flits[n]].pid] \in VC
    BY <2>3 DEF Typed, Range
  <2> QED
    BY <2>2, <2>4 DEF Reply
<1> HIDE DEF ports, C
<1>5. added \in Seq([fid : Nat, vc : VC]) /\ Len(added) = C /\ \A k \in 1 .. C : added[k] = Reply(ports[k])
  <2>1. added \in [1 .. C -> [fid : Nat, vc : VC]]
    BY <1>3, <1>4
  <2> QED
    BY <1>3, <2>1, IsASeq
<1>6. replyBuf \in Seq([fid : Nat, vc : VC]) /\ L \in Nat /\ DOMAIN replyBuf = 1 .. L
  BY DEF Typed
<1> HIDE DEF added
<1>7. /\ replyBuf' \in Seq([fid : Nat, vc : VC]) /\ DOMAIN replyBuf' = 1 .. L + C
      /\ \A k \in 1 .. L + C : replyBuf'[k] = IF k <= L THEN replyBuf[k] ELSE added[k - L]
  <2>1. /\ replyBuf \o added \in Seq([fid : Nat, vc : VC]) /\ Len(replyBuf \o added) = L + C
        /\ \A k \in 1 .. L + C : (replyBuf \o added)[k] = IF k <= L THEN replyBuf[k] ELSE added[k - L]
    BY <1>5, <1>6, ConcatProperties
  <2>2. DOMAIN (replyBuf \o added) = 1 .. L + C
    BY <2>1
  <2> QED
    BY <1>1, <2>1, <2>2
<1> HIDE DEF L
<1>8. \A k \in DOMAIN replyBuf : k \in DOMAIN replyBuf' /\ replyBuf'[k] = replyBuf[k]
  BY <1>3, <1>6, <1>7
<1>9. ASSUME NEW n \in Retiring
      PROVE  L + Place(Retiring, n) \in DOMAIN replyBuf' /\ replyBuf'[L + Place(Retiring, n)] = Reply(n)
  <2>1. Place(Retiring, n) \in 1 .. C /\ ports[Place(Retiring, n)] = n
    BY <1>3
  <2>2. /\ L + Place(Retiring, n) \in 1 .. L + C /\ ~(L + Place(Retiring, n) <= L)
        /\ L + Place(Retiring, n) - L = Place(Retiring, n)
    BY <1>3, <1>6, <2>1
  <2>3. added[Place(Retiring, n)] = Reply(n)
    BY <1>5, <2>1
  <2>4. PICK x \in 1 .. L + C : x = L + Place(Retiring, n)
    BY <2>2
  <2>5. replyBuf'[x] = added[x - L]
    BY <1>6, <1>7, <2>2, <2>4
  <2>6. x - L = Place(Retiring, n)
    BY <1>3, <1>6, <2>1, <2>4
  <2> QED
    BY <1>7, <2>3, <2>4, <2>5, <2>6
<1>10. ASSUME NEW k \in DOMAIN replyBuf', k \notin DOMAIN replyBuf
       PROVE  \E n \in Retiring : k = L + Place(Retiring, n) /\ k \notin DOMAIN replyBuf /\ replyBuf'[k] = Reply(n)
  <2>1. /\ k - L \in 1 .. C /\ k = L + (k - L)
    BY <1>3, <1>6, <1>7, <1>10
  <2>2. ports[k - L] \in Retiring /\ Place(Retiring, ports[k - L]) = k - L
    BY <1>3, <2>1
  <2>3. replyBuf'[k] = Reply(ports[k - L])
    BY <1>9, <2>1, <2>2
  <2> QED
    BY <1>10, <2>1, <2>2, <2>3
<1> QED
  BY <1>7, <1>8, <1>9, <1>10 DEF Answered, L

(* The places of the flits after Work. *)
LEMMA WorkPlaces ==
  ASSUME Typed, Streams, Packets, Entered, PacketVcs, Work
  PROVE  /\ InQueue' \subseteq InQueue
         /\ \A i \in InEntry' : i \in InEntry \/ \E n \in Entering : i = Head(Queued[n])
         /\ \A n \in Entering : \A j \in InQueue' : sent[j].src = n => j \in Range(Tail(Queued[n]))
         /\ InInner' = InInner /\ InFlits' = {}
         /\ \A i \in InReply' : i \in InReply \cup InFlits
<1>1. /\ Advanced /\ sent' = sent /\ inner' = inner /\ flits' = PerNode(None)
  BY WorkAdvances
<1>2. Id' = Id /\ \A i \in Id : sent[i].src \in Node /\ sent[i].vc \in VC
  BY <1>1, FlitTypes DEF Id
<1>3. ASSUME NEW n \in Entering PROVE Front(n) /\ n \in Node
  <2>1. n \in Node /\ Queued[n] # <<>>
    BY DEF Entering
  <2> QED
    BY <2>1, FrontOfQueue
<1>4. ASSUME NEW n \in Entering
      PROVE  Range(Tail(Queued[n])) \subseteq Range(Queued[n]) /\ Queued'[n] = Tail(Queued[n])
  <2>1. Queued[n] \in Seq(Nat) /\ Queued[n] # <<>> /\ Increasing(Queued[n]) /\ n \in Node
    BY DEF Entering, Typed, Queued, Streams
  <2>2. Range(Tail(Queued[n])) = Range(Queued[n]) \ {Head(Queued[n])}
    BY <2>1, TailIncreasing
  <2> QED
    BY <1>1, <2>1, <2>2 DEF Advanced
<1>5. \A n \in Node : Range(Queued'[n]) \subseteq Range(Queued[n])
  <2> TAKE n \in Node
  <2>1. CASE n \in Entering
    <3>1. Queued'[n] = Tail(Queued[n]) /\ Range(Tail(Queued[n])) \subseteq Range(Queued[n])
      BY <1>4, <2>1
    <3> QED
      BY <3>1
  <2>2. CASE n \notin Entering
    <3>1. Queued'[n] = Queued[n]
      BY <1>1, <2>2 DEF Advanced
    <3> QED
      BY <3>1
  <2> QED
    BY <2>1, <2>2
<1>6. InQueue' \subseteq InQueue
  BY <1>1, <1>2, <1>5 DEF InQueue
<1>7. ASSUME NEW i \in InEntry' PROVE i \in InEntry \/ \E n \in Entering : i = Head(Queued[n])
  <2> DEFINE n == sent[i].src
             v == sent[i].vc
  <2>1. i \in Id /\ i \in Range(entry'[n][v]) /\ n \in Node /\ v \in VC
    BY <1>1, <1>2 DEF InEntry
  <2>2. CASE Enters(n, v)
    <3>1. n \in Entering /\ entry'[n][v] = Append(entry[n][v], Head(Queued[n]))
      BY <1>1, <2>1, <2>2, Zenon DEF Advanced, Enters
    <3>2. entry[n][v] \in Seq(Nat) /\ Head(Queued[n]) \in Nat
      <4>1. entry[n][v] \in Seq(Nat)
        BY <2>1 DEF Typed
      <4>2. Head(Queued[n]) \in Id
        BY <1>3, <3>1, Zenon DEF Front
      <4> QED
        BY <4>1, <4>2, FlitTypes
    <3>3. Range(entry'[n][v]) = Range(entry[n][v]) \cup {Head(Queued[n])}
      BY <3>1, <3>2, AppendRange, Zenon
    <3> QED
      BY <2>1, <3>1, <3>3, Zenon DEF InEntry
  <2>3. CASE ~Enters(n, v)
    <3>1. entry'[n][v] = entry[n][v]
      BY <1>1, <2>1, <2>3 DEF Advanced
    <3> QED
      BY <2>1, <3>1 DEF InEntry
  <2> QED
    BY <2>2, <2>3
<1>8. ASSUME NEW n \in Entering, NEW j \in InQueue', sent[j].src = n PROVE j \in Range(Tail(Queued[n]))
  BY <1>1, <1>4, <1>8 DEF InQueue
<1>9. InInner' = InInner
  BY <1>1, <1>2 DEF InInner
<1>10. InFlits' = {}
  <2>1. \A i \in Id : i # None
    BY NoneAssumption, FlitTypes
  <2> QED
    BY <1>1, <1>2, <2>1 DEF InFlits, PerNode
<1>11. ASSUME NEW i \in InReply' PROVE i \in InReply \cup InFlits
  <2>1. i \in Id
    BY <1>2 DEF InReply
  <2>2. PICK k \in DOMAIN replyBuf' : replyBuf'[k].fid = i
    BY DEF InReply
  <2>3. Answered
    BY WorkAnswers
  <2>4. CASE k \in DOMAIN replyBuf
    BY <2>1, <2>2, <2>3, <2>4 DEF Answered, InReply
  <2>5. ASSUME NEW n \in Retiring, replyBuf'[k] = Reply(n) PROVE i \in InFlits
    <3>1. flits[n] = i /\ n \in Node
      BY <2>2, <2>5 DEF Reply, Retiring
    <3> QED
      BY <2>1, <3>1 DEF InFlits
  <2> QED
    BY <2>2, <2>3, <2>4, <2>5 DEF Answered
<1> QED
  BY <1>6, <1>7, <1>8, <1>9, <1>10, <1>11

(* A flit goes in behind those of its source and VC that are there. *)
LEMMA WorkStreams ==
  ASSUME Typed, Streams, Packets, Entered, PacketVcs, Order, Work
  PROVE  Streams'
<1>1. Advanced /\ sent' = sent /\ inner' = inner
  BY WorkAdvances
<1>2. Id' = Id
  BY <1>1 DEF Id
<1>3. ASSUME NEW n \in Node
      PROVE  Increasing(Queued'[n]) /\ \A i \in Range(Queued'[n]) : i \in Id /\ sent[i].src = n
  <2>1. /\ Queued[n] \in Seq(Nat) /\ Increasing(Queued[n])
        /\ \A i \in Range(Queued[n]) : i \in Id /\ sent[i].src = n
    BY DEF Typed, Queued, Streams
  <2>2. CASE n \in Entering
    <3>1. Queued'[n] = Tail(Queued[n]) /\ Queued[n] # <<>>
      BY <1>1, <2>2 DEF Advanced
    <3>2. Increasing(Tail(Queued[n])) /\ Range(Tail(Queued[n])) = Range(Queued[n]) \ {Head(Queued[n])}
      BY <2>1, <3>1, TailIncreasing
    <3> QED
      BY <2>1, <3>1, <3>2
  <2>3. CASE n \notin Entering
    <3>1. Queued'[n] = Queued[n]
      BY <1>1, <2>3 DEF Advanced
    <3> QED
      BY <2>1, <3>1
  <2> QED
    BY <2>2, <2>3
<1>4. ASSUME NEW n \in Node, NEW v \in VC
      PROVE  /\ Increasing(entry'[n][v]) /\ \A i \in Range(entry'[n][v]) : i \in Id /\ sent[i].src = n /\ sent[i].vc = v
             /\ occ'[n][v] = Len(entry'[n][v])
  <2>1. /\ entry[n][v] \in Seq(Nat) /\ Increasing(entry[n][v]) /\ occ[n][v] = Len(entry[n][v])
        /\ \A i \in Range(entry[n][v]) : i \in Id /\ sent[i].src = n /\ sent[i].vc = v
    BY SMTT(30) DEF Typed, Streams
  <2>2. CASE Enters(n, v)
    <3> DEFINE e == Head(Queued[n])
    <3>1. /\ entry'[n][v] = Append(entry[n][v], e) /\ occ'[n][v] = occ[n][v] + 1
          /\ Queued[n] # <<>> /\ ForemostVc(n) = v
      BY <1>1, <2>2 DEF Advanced, Enters
    <3>2. Front(n)
      BY <3>1, FrontOfQueue
    <3>3. e \in Id /\ e \in Nat /\ sent[e].src = n /\ sent[e].vc = v /\ e \in InQueue
      BY <3>1, <3>2, FlitTypes, Zenon DEF Front, Foremost
    <3>4. \A i \in Range(entry[n][v]) : i < e
      <4> TAKE i \in Range(entry[n][v])
      <4>1. i \in InEntry /\ sent[i].src = n /\ sent[i].vc = v
        BY <2>1 DEF InEntry
      <4> QED
        BY <3>3, <4>1 DEF Order, Ahead
    <3> HIDE DEF e
    <3>5. /\ Increasing(entry'[n][v]) /\ Range(entry'[n][v]) = Range(entry[n][v]) \cup {e}
          /\ Len(entry'[n][v]) = Len(entry[n][v]) + 1
      BY <2>1, <3>1, <3>3, <3>4, AppendIncreasing
    <3> QED
      BY <2>1, <3>1, <3>3, <3>5
  <2>3. CASE ~Enters(n, v)
    <3>1. entry'[n][v] = entry[n][v] /\ occ'[n][v] = occ[n][v]
      BY <1>1, <2>3 DEF Advanced
    <3> QED
      BY <2>1, <3>1
  <2> QED
    BY <2>2, <2>3
<1>5. \A n \in Node, v \in VC :
        Increasing(inner[n][v]) /\ \A i \in Range(inner[n][v]) : i \in Id /\ sent[i].src = n /\ sent[i].vc = v
  BY DEF Streams
<1> QED
  BY <1>1, <1>2, <1>3, <1>4, <1>5 DEF Streams

(* The flits keep their order on the way into the network and out of it. *)
LEMMA WorkOrder ==
  ASSUME Typed, Streams, Packets, Entered, PacketVcs, Order, Work
  PROVE  Order'
<1>1. sent' = sent /\ flits' = PerNode(None)
  BY WorkAdvances
<1>2. /\ InQueue' \subseteq InQueue /\ InInner' = InInner /\ InFlits' = {}
      /\ \A i \in InEntry' : i \in InEntry \/ \E n \in Entering : i = Head(Queued[n])
      /\ \A n \in Entering : \A j \in InQueue' : sent[j].src = n => j \in Range(Tail(Queued[n]))
      /\ \A i \in InReply' : i \in InReply \cup InFlits
  BY WorkPlaces
<1>3. ASSUME NEW n \in Entering
      PROVE  /\ Head(Queued[n]) \in InQueue /\ sent[Head(Queued[n])].src = n
             /\ \A x \in Range(Tail(Queued[n])) : Head(Queued[n]) < x
  <2>1. Queued[n] \in Seq(Nat) /\ Queued[n] # <<>> /\ Increasing(Queued[n]) /\ n \in Node
    BY DEF Entering, Typed, Queued, Streams
  <2>2. Front(n)
    BY <2>1, FrontOfQueue
  <2>3. \A x \in Range(Tail(Queued[n])) : Head(Queued[n]) < x
    BY <2>1, TailIncreasing
  <2> QED
    BY <2>2, <2>3 DEF Front, Foremost
<1>4. /\ Ahead(sent, InEntry, InQueue) /\ Ahead(sent, InInner, InQueue \cup InEntry)
      /\ Ahead(sent, InFlits, InQueue \cup InEntry \cup InInner) /\ Ahead(sent, InReply, InNetwork)
  BY DEF Order
<1>5. \A i \in InEntry' : i \in InQueue \cup InEntry
  BY <1>2, <1>3
<1>6. Ahead(sent, InEntry', InQueue')
  <2> SUFFICES ASSUME NEW i \in InEntry', NEW j \in InQueue', sent[i].src = sent[j].src, sent[i].vc = sent[j].vc
               PROVE  i < j
    BY DEF Ahead
  <2>1. CASE i \in InEntry
    BY <1>2, <1>4, <2>1 DEF Ahead
  <2>2. ASSUME NEW n \in Entering, i = Head(Queued[n]) PROVE i < j
    BY <1>2, <1>3, <2>2
  <2> QED
    BY <1>2, <2>1, <2>2
<1>7. Ahead(sent, InInner, InQueue' \cup InEntry')
  BY <1>2, <1>4, <1>5 DEF Ahead
<1>8. Ahead(sent, InReply', InQueue' \cup InEntry' \cup InInner)
  <2> SUFFICES ASSUME NEW i \in InReply', NEW j \in InQueue \cup InEntry \cup InInner,
                      sent[i].src = sent[j].src, sent[i].vc = sent[j].vc
               PROVE  i < j
    BY <1>2, <1>5 DEF Ahead
  <2>1. j \in InNetwork
    BY DEF InNetwork
  <2> QED
    BY <1>2, <1>4, <2>1 DEF Ahead
<1>9. \A d \in Node : flits'[d] = None
  BY <1>1 DEF PerNode
<1> QED
  BY <1>1, <1>2, <1>6, <1>7, <1>8, <1>9 DEF Order, InNetwork, Ahead

(* The rest of a queue is made of the same packets. *)
LEMMA WorkLined ==
  ASSUME Typed, Lined, Work
  PROVE  Lined'
<1>1. Advanced /\ UNCHANGED <<sent, sending, pId>>
  BY WorkAdvances
<1> SUFFICES ASSUME NEW n \in Node
             PROVE  Lined!(n)'
  BY DEF Lined
<1>2. CASE n \notin Entering
  BY <1>1, <1>2 DEF Advanced, Lined
<1>3. CASE n \in Entering
  <2> DEFINE q == Queued[n]
             r == Queued'[n]
  <2>1. q \in Seq(Nat) /\ q # <<>> /\ r = Tail(q)
    <3>1. q \in Seq(Nat)
      BY DEF Typed, Queued
    <3>2. r = Tail(q) /\ q # <<>>
      BY <1>1, <1>3 DEF Advanced
    <3> QED
      BY <3>1, <3>2
  <2>2. /\ Len(q) \in Nat \ {0} /\ Len(r) = Len(q) - 1 /\ r \in Seq(Nat)
        /\ \A k \in 1 .. Len(r) : r[k] = q[k + 1]
    BY <2>1, HeadTailProperties
  <2>3. /\ \A k \in 1 .. Len(q) - 1 :
             IF sent[q[k + 1]].head THEN sent[q[k]].tail
             ELSE ~sent[q[k]].tail /\ sent[q[k + 1]].pid = sent[q[k]].pid
        /\ IF sending[n] = None THEN sent[q[Len(q)]].tail
           ELSE ~sent[q[Len(q)]].tail /\ sent[q[Len(q)]].pid = pId[n]
    BY <2>1 DEF Lined
  <2> HIDE DEF q, r
  <2>4. ASSUME NEW k \in 1 .. Len(r) - 1
        PROVE  IF sent[r[k + 1]].head THEN sent[r[k]].tail
               ELSE ~sent[r[k]].tail /\ sent[r[k + 1]].pid = sent[r[k]].pid
    <3>1. PICK m \in 1 .. Len(q) - 1 : m = k + 1
      BY <2>2
    <3>2. k \in 1 .. Len(r) /\ m \in 1 .. Len(r)
      BY <2>2, <3>1
    <3>3. r[k] = q[m] /\ r[m] = q[m + 1]
      BY <2>2, <3>1, <3>2
    <3> QED
      BY <2>3, <3>1, <3>3
  <2>5. r # <<>> => r[Len(r)] = q[Len(q)]
    <3> SUFFICES ASSUME r # <<>> PROVE r[Len(r)] = q[Len(q)]
      OBVIOUS
    <3>1. Len(r) \in 1 .. Len(r) /\ Len(r) + 1 = Len(q)
      BY <2>2
    <3> QED
      BY <2>2, <3>1
  <2> QED
    BY <1>1, <2>3, <2>4, <2>5 DEF r
<1> QED
  BY <1>2, <1>3

(* A VC is in use exactly while a packet that has begun is not all in.     *)
LEMMA WorkEntered ==
  ASSUME Typed, Streams, Packets, Unfinished, Lined, Entered, PacketVcs, Work
  PROVE  Entered'
<1>1. Advanced /\ UNCHANGED <<sent, sending, pId>>
  BY WorkAdvances
<1>2. /\ packetVc' = Over(packetVc, [p \in {Foremost(n).pid : n \in Entering} |->
                            ForemostVc(CHOOSE n \in Entering : Foremost(n).pid = p)])
      /\ inUse' = [n \in Node |-> [v \in VC |-> IF Enters(n, v) THEN ~Foremost(n).tail ELSE inUse[n][v]]]
  BY DEF Work
<1>3. DOMAIN packetVc' = DOMAIN packetVc \cup {Foremost(n).pid : n \in Entering}
  BY <1>2 DEF Over
<1> SUFFICES ASSUME NEW n \in Node
             PROVE  IF Begun(n)' THEN BegunPid(n)' \in DOMAIN packetVc' /\ \A v \in VC : inUse'[n][v] <=> v = BegunVc(n)'
                    ELSE \A v \in VC : ~inUse'[n][v]
  BY DEF Entered
<1>4. IF Begun(n) THEN BegunPid(n) \in DOMAIN packetVc /\ \A v \in VC : inUse[n][v] <=> v = BegunVc(n)
      ELSE \A v \in VC : ~inUse[n][v]
  BY DEF Entered
<1>5. CASE n \notin Entering
  <2>1. Queued'[n] = Queued[n] /\ \A v \in VC : inUse'[n][v] = inUse[n][v]
    BY <1>1, <1>2, <1>5 DEF Advanced, Enters
  <2>2. (Begun(n)' <=> Begun(n)) /\ BegunPid(n)' = BegunPid(n) /\ BegunVc(n)' = BegunVc(n)
    BY <1>1, <2>1 DEF Begun, BegunPid, BegunVc, Foremost
  <2> QED
    BY <1>3, <1>4, <2>1, <2>2
<1>6. CASE n \in Entering
  <2> DEFINE q == Queued[n]
             r == Queued'[n]
             f == Foremost(n)
  <2>1. q \in Seq(Nat)
    BY DEF Typed, Queued
  <2>2. r = Tail(q) /\ q # <<>>
    BY <1>1, <1>6 DEF Advanced
  <2>3. /\ Len(q) \in Nat \ {0} /\ Len(r) = Len(q) - 1 /\ r \in Seq(Nat) /\ Head(q) = q[1]
        /\ \A k \in 1 .. Len(q) - 1 : r[k] = q[k + 1]
    BY <2>1, <2>2, HeadTailProperties
  <2>4. Front(n)
    BY <2>2, FrontOfQueue
  <2>5. /\ f.vc \in VC /\ f.head \in BOOLEAN /\ f.tail \in BOOLEAN /\ ForemostVc(n) = f.vc
        /\ f.pid \in DOMAIN packetVc' /\ f = sent[q[1]] /\ q[1] \in Id
    BY <1>3, <1>6, <2>3, <2>4 DEF Front, Flit, Foremost
  <2>6. /\ Begun(n) <=> ~f.head
        /\ BegunPid(n) = f.pid /\ BegunVc(n) = f.vc
    BY <2>2 DEF Begun, BegunPid, BegunVc
  <2>7. \A v \in VC : inUse'[n][v] <=> v = f.vc /\ ~f.tail
    <3> TAKE v \in VC
    <3>1. CASE v = f.vc
      BY <1>2, <1>6, <2>5, <3>1 DEF Enters
    <3>2. CASE v # f.vc
      <4>1. inUse'[n][v] = inUse[n][v]
        BY <1>2, <2>5, <3>2 DEF Enters
      <4>2. ~inUse[n][v]
        BY <1>4, <2>6, <3>2
      <4> QED
        BY <3>2, <4>1, <4>2
    <3> QED
      BY <3>1, <3>2
  <2>8. CASE r = <<>>
    <3>1. Len(q) = 1
      BY <2>3, <2>8
    <3>2. IF sending[n] = None THEN f.tail ELSE ~f.tail /\ f.pid = pId[n]
      BY <2>2, <2>5, <3>1 DEF Lined
    <3>3. sending[n] # None => sending[n].vc = f.vc
      <4> SUFFICES ASSUME sending[n] # None PROVE sending[n].vc = f.vc
        OBVIOUS
      <4>1. PICK i \in Id : sent[i].pid = pId[n] /\ sent[i].src = n /\ sent[i].vc = sending[n].vc
        BY DEF Unfinished
      <4> QED
        BY <2>5, <3>2, <4>1, SamePacket
    <3>4. (Begun(n)' <=> sending[n] # None) /\ BegunPid(n)' = pId[n] /\ BegunVc(n)' = sending[n].vc
      BY <1>1, <2>8 DEF Begun, BegunPid, BegunVc
    <3> QED
      BY <2>5, <2>7, <3>2, <3>3, <3>4
  <2>9. CASE r # <<>>
    <3>1. 1 \in 1 .. Len(q) - 1 /\ r[1] = q[2] /\ Head(r) = r[1] /\ 2 \in 1 .. Len(q)
      BY <2>3, <2>9
    <3>2. IF sent[q[2]].head THEN f.tail ELSE ~f.tail /\ sent[q[2]].pid = f.pid
      <4>1. IF sent[q[1 + 1]].head THEN sent[q[1]].tail
            ELSE ~sent[q[1]].tail /\ sent[q[1 + 1]].pid = sent[q[1]].pid
        BY <3>1 DEF Lined
      <4> QED
        BY <2>5, <4>1
    <3>3. q[2] \in Id
      <4>1. q[2] \in Range(q)
        BY <2>1, <3>1 DEF Range
      <4> QED
        BY <4>1 DEF Streams
    <3>4. sent[q[2]].pid = f.pid => sent[q[2]].vc = f.vc
      BY <2>5, <3>3, SamePacket
    <3>5. /\ Begun(n)' <=> ~sent[q[2]].head
          /\ BegunPid(n)' = sent[q[2]].pid /\ BegunVc(n)' = sent[q[2]].vc
      BY <1>1, <2>9, <3>1 DEF Begun, BegunPid, BegunVc, Foremost
    <3> QED
      BY <2>5, <2>7, <3>2, <3>4, <3>5
  <2> QED
    BY <2>8, <2>9
<1> QED
  BY <1>5, <1>6

(* The VC of a packet is noted when its head enters the network. *)
LEMMA WorkPacketVcs ==
  ASSUME Typed, Streams, Packets, Entered, PacketVcs, Work
  PROVE  /\ PacketVcs' /\ Range(packetVc') \subseteq VC
         /\ \A p \in DOMAIN packetVc : p \in DOMAIN packetVc' /\ packetVc'[p] = packetVc[p]
<1>1. sent' = sent
  BY WorkAdvances
<1> DEFINE new == [p \in {Foremost(n).pid : n \in Entering} |->
                     ForemostVc(CHOOSE n \in Entering : Foremost(n).pid = p)]
<1>2. packetVc' = Over(packetVc, new)
  BY DEF Work
<1>3. ASSUME NEW n \in Entering
      PROVE  /\ Head(Queued[n]) \in Id /\ sent[Head(Queued[n])] = Foremost(n)
             /\ ForemostVc(n) = Foremost(n).vc /\ Foremost(n).vc \in VC
  <2>1. n \in Node /\ Queued[n] # <<>>
    BY DEF Entering
  <2>2. Front(n)
    BY <2>1, FrontOfQueue
  <2> QED
    BY <2>2 DEF Front, Foremost
<1>4. ASSUME NEW p \in DOMAIN new
      PROVE  new[p] \in VC /\ \E i \in Id : sent[i].pid = p /\ sent[i].vc = new[p]
  <2> DEFINE m == CHOOSE n \in Entering : Foremost(n).pid = p
  <2>1. m \in Entering /\ Foremost(m).pid = p
    <3>1. \E n \in Entering : Foremost(n).pid = p
      OBVIOUS
    <3> QED
      BY <3>1
  <2>2. new[p] = ForemostVc(m)
    OBVIOUS
  <2> HIDE DEF m, new
  <2> QED
    BY <1>3, <2>1, <2>2
<1>5. DOMAIN new = {Foremost(n).pid : n \in Entering}
  OBVIOUS
<1> HIDE DEF new
<1>6. /\ DOMAIN packetVc' = DOMAIN packetVc \cup DOMAIN new
      /\ \A p \in DOMAIN packetVc : packetVc'[p] = packetVc[p]
      /\ \A p \in DOMAIN new : p \in DOMAIN packetVc \/ packetVc'[p] = new[p]
  BY <1>2 DEF Over
<1>7. Range(packetVc') \subseteq VC
  <2>1. \A p \in DOMAIN packetVc : packetVc[p] \in VC
    BY DEF Typed, Range
  <2> QED
    BY <1>4, <1>6, <2>1 DEF Range
<1>8. Id' = Id
  BY <1>1 DEF Id
<1>9. \A p \in DOMAIN packetVc' : \E i \in Id : sent[i].pid = p /\ sent[i].vc = packetVc'[p]
  BY <1>4, <1>6 DEF PacketVcs
<1>10. ASSUME NEW i \in InEntry' \cup InInner' \cup InFlits' PROVE sent[i].pid \in DOMAIN packetVc'
  <2>1. i \in InEntry \/ i \in InInner \/ \E n \in Entering : i = Head(Queued[n])
    BY WorkPlaces
  <2>2. ASSUME NEW n \in Entering, i = Head(Queued[n]) PROVE sent[i].pid \in DOMAIN packetVc'
    <3>1. sent[i] = Foremost(n) /\ Foremost(n).pid \in DOMAIN new
      BY <1>3, <1>5, <2>2
    <3> QED
      BY <1>6, <3>1
  <2> QED
    BY <1>6, <2>1, <2>2 DEF PacketVcs
<1> QED
  BY <1>1, <1>6, <1>7, <1>8, <1>9, <1>10 DEF PacketVcs

(* A flit is known, and its packet's destination, until it is retired. *)
LEMMA WorkKnown ==
  ASSUME Typed, Streams, Packets, Entered, PacketVcs, Order, Known, Work
  PROVE  Known'
<1>1. sent' = sent /\ requestBuf' = PerNode(<<>>)
  BY WorkAdvances
<1>2. /\ inFlight' = (inFlight \cup Requested) \ {flits[n] : n \in Retiring}
      /\ origDest' = [p \in DOMAIN origDest \ Finished |-> origDest[p]]
  BY DEF Work, Requested
<1>3. DOMAIN origDest' = DOMAIN origDest \ Finished
  BY <1>2
<1>4. \A n \in Retiring : flits[n] \in InFlits /\ flits[n] \in Id
  BY DEF Retiring, InFlits, Typed
<1>5. Ahead(sent, InFlits, InQueue \cup InEntry \cup InInner)
  BY DEF Order
<1>6. ASSUME NEW i \in InNetwork' PROVE i \in inFlight' /\ sent[i].pid \in DOMAIN origDest'
  <2>1. i \in InQueue \cup InEntry \cup InInner
    <3>1. \A n \in Entering : Head(Queued[n]) \in InQueue
      <4> TAKE n \in Entering
      <4>1. n \in Node /\ Queued[n] # <<>>
        BY DEF Entering
      <4> QED
        BY <4>1, FrontOfQueue DEF Front
    <3> QED
      BY <3>1, WorkPlaces DEF InNetwork
  <2>2. i \in InNetwork /\ i \in Id /\ i \in Nat
    BY <2>1, FlitTypes DEF InNetwork, InQueue, InEntry, InInner
  <2>3. i \in inFlight \cup Requested /\ sent[i].pid \in DOMAIN origDest
    BY <2>2 DEF Known
  <2>4. ASSUME NEW n \in Retiring, flits[n] = i PROVE FALSE
    BY <1>4, <1>5, <2>1, <2>2, <2>4 DEF Ahead
  <2>5. ASSUME sent[i].pid \in Finished PROVE FALSE
    <3>1. PICK n \in Retiring : sent[flits[n]].tail /\ sent[flits[n]].pid = sent[i].pid
      BY <2>5 DEF Finished
    <3>2. sent[flits[n]].src = sent[i].src /\ sent[flits[n]].vc = sent[i].vc
      BY <1>4, <2>2, <3>1, SamePacket
    <3>3. flits[n] < i
      BY <1>4, <1>5, <2>1, <3>2 DEF Ahead
    <3> QED
      BY <1>4, <2>2, <3>1, <3>3 DEF Packets
  <2> QED
    BY <1>2, <1>3, <2>3, <2>4, <2>5
<1> QED
  BY <1>1, <1>6 DEF Known

(* No assertion but EnqueueCreditFromNoc's can fail. *)
LEMMA WorkAsserts ==
  ASSUME IInv, Work
  PROVE  /\ failed' \in {None, "EnqueueCreditFromNoc"}
         /\ failed' = None => nocToRtl \cap Freed(NextOcc) = {}
         /\ nocToRtl = {} => failed' = None
<1>1. /\ Typed /\ Streams /\ Order /\ Packets /\ Entered /\ PacketVcs /\ Known /\ Sampled /\ SenderCredits
      /\ failed' = FailedAssertion(Freed(NextOcc))
  BY DEF IInv, SenderCreditsKept, Work
<1>2. ASSUME NEW n \in Node, Queued[n] # <<>>
      PROVE  /\ Foremost(n).head => ~inUse[n][ForemostVc(n)] /\ ~IsFullFor(n, ForemostVc(n))
             /\ ~Foremost(n).head => Foremost(n).pid \in DOMAIN packetVc
  <2>1. Front(n)
    BY <1>1, <1>2, FrontOfQueue
  <2> DEFINE v == ForemostVc(n)
  <2>2. v \in VC /\ Head(Queued[n]) \in QueuedOn(n, v)
    BY <2>1 DEF Front, QueuedOn, Foremost
  <2>3. Foremost(n).head => ~inUse[n][v]
    BY <1>1, <1>2, <2>2 DEF Entered, Begun
  <2>4. ~IsFullFor(n, v)
    <3>1. IsFiniteSet(QueuedOn(n, v)) /\ Cardinality(QueuedOn(n, v)) \in Nat /\ Cardinality(QueuedOn(n, v)) # 0
      BY <1>1, <2>2, QueuedFinite, FS_EmptySet
    <3>2. credits[n][v] + Cardinality(QueuedOn(n, v)) + prevOcc[n][v] + One(<<n, v>> \in nocToRtl) = VcBufSize
      BY <1>1, <2>2 DEF SenderCredits, QueuedOn
    <3>3. /\ credits[n][v] \in Nat /\ prevOcc[n][v] \in Nat /\ One(<<n, v>> \in nocToRtl) \in Nat
          /\ VcBufSize \in Nat /\ occ[n][v] \in Nat
      BY <1>1, <2>2, BridgeAssumption DEF Typed, One
    <3>4. occ[n][v] <= prevOcc[n][v]
      BY <1>1, <2>2, <3>3 DEF Sampled
    <3> HIDE DEF v
    <3>5. prevOcc[n][v] < VcBufSize
      BY <3>1, <3>2, <3>3
    <3>6. ~(occ[n][v] >= VcBufSize)
      BY <3>3, <3>4, <3>5
    <3> QED
      BY <3>6 DEF IsFullFor
  <2> QED
    BY <2>1, <2>3, <2>4 DEF Front
<1>3. ASSUME NEW n \in Retiring
      PROVE  flits[n] \in inFlight \cup UNION {Range(requestBuf[m]) : m \in Node} /\ sent[flits[n]].pid \in DOMAIN origDest
  <2>1. flits[n] \in InNetwork
    BY <1>1 DEF Retiring, Typed, InFlits, InNetwork
  <2> QED
    BY <1>1, <2>1 DEF Known, Requested
<1>4. failed' = IF nocToRtl \cap Freed(NextOcc) # {} THEN "EnqueueCreditFromNoc" ELSE None
  BY <1>1, <1>2, <1>3 DEF FailedAssertion
<1>5. None # "EnqueueCreditFromNoc"
  BY NoneAssumption DEF Assertions
<1> QED
  BY <1>4, <1>5

(* Neither the occupancy nor the sample exceeds the buffer: a flit enters  *)
(* only a VC that has room.                                                *)
LEMMA WorkTyped ==
  ASSUME IInv, Work
  PROVE  Typed'
<1>1. Typed /\ Streams /\ Packets /\ Entered /\ PacketVcs
  BY DEF IInv
<1>2. /\ Advanced
      /\ UNCHANGED <<sending, credits, held, received, sent, nextPid, pId, destTable, dataSet>>
      /\ UNCHANGED <<inner, owner, ejOcc, clock, stepsLeft, quit>>
      /\ requestBuf' = PerNode(<<>>) /\ rtlToNoc' = {} /\ flits' = PerNode(None) /\ phase' = "read"
  BY <1>1, WorkAdvances
<1>3. Id' = Id
  BY <1>2 DEF Id
<1>4. ASSUME NEW n \in Node, Queued[n] # <<>> PROVE Front(n)
  BY <1>1, <1>4, FrontOfQueue
<1>5. partial' \in [Node -> Seq(Nat)]
  <2>1. partial' = [n \in Node |-> IF n \in Entering THEN Tail(Queued[n]) ELSE Queued[n]]
    BY DEF Work
  <2>2. \A n \in Node : Queued[n] \in Seq(Nat) /\ (n \in Entering => Queued[n] # <<>>)
    BY <1>1 DEF Queued, Typed, Entering
  <2>3. \A n \in Node : (IF n \in Entering THEN Tail(Queued[n]) ELSE Queued[n]) \in Seq(Nat)
    BY <2>2
  <2> QED
    BY <2>1, <2>3
<1>6. requestBuf' \in [Node -> Seq(Nat)] /\ flits' \in [Node -> Id \cup {None}] /\ rtlToNoc' \subseteq Node \X VC
  BY <1>2 DEF PerNode
<1>7. occ' \in [Node -> [VC -> 0..VcBufSize]] /\ prevOcc' = occ'
  <2>1. occ' = NextOcc /\ prevOcc' = NextOcc /\ occ \in [Node -> [VC -> 0..VcBufSize]] /\ VcBufSize \in Nat
    BY <1>1, BridgeAssumption DEF Work, Typed
  <2>2. ASSUME NEW n \in Node, NEW v \in VC PROVE (IF Enters(n, v) THEN occ[n][v] + 1 ELSE occ[n][v]) \in 0..VcBufSize
    <3>1. occ[n][v] \in 0..VcBufSize
      BY <2>1
    <3>2. Enters(n, v) => ~(occ[n][v] >= VcBufSize)
      BY <1>2 DEF Enters, Advanced, IsFullFor
    <3> QED
      BY <2>1, <3>1, <3>2
  <2> QED
    BY <2>1, <2>2 DEF NextOcc
<1>8. entry' \in [Node -> [VC -> Seq(Nat)]]
  <2>1. /\ entry' = [n \in Node |-> [v \in VC |->
                     IF Enters(n, v) THEN Append(entry[n][v], Head(Queued[n])) ELSE entry[n][v]]]
        /\ entry \in [Node -> [VC -> Seq(Nat)]]
    BY <1>1 DEF Work, Typed
  <2>2. \A n \in Node, v \in VC : Enters(n, v) => Head(Queued[n]) \in Nat
    BY <1>1, <1>2, <1>4, FlitTypes DEF Enters, Advanced, Front
  <2> QED
    BY <2>1, <2>2
<1>9. inUse' \in [Node -> [VC -> BOOLEAN]]
  <2>1. /\ inUse' = [n \in Node |-> [v \in VC |-> IF Enters(n, v) THEN ~Foremost(n).tail ELSE inUse[n][v]]]
        /\ inUse \in [Node -> [VC -> BOOLEAN]]
    BY <1>1 DEF Work, Typed
  <2> QED
    BY <2>1
<1>10. inFlight' \subseteq Id
  <2>1. inFlight' \subseteq inFlight \cup UNION {Range(requestBuf[n]) : n \in Node} /\ inFlight \subseteq Id
    BY <1>1 DEF Work, Typed
  <2>2. ASSUME NEW n \in Node PROVE Range(requestBuf[n]) \subseteq Id
    <3>1. partial[n] \in Seq(Nat) /\ requestBuf[n] \in Seq(Nat) /\ Queued[n] = partial[n] \o requestBuf[n]
      BY <1>1 DEF Typed, Queued
    <3>2. Range(Queued[n]) = Range(partial[n]) \cup Range(requestBuf[n])
      BY <3>1, RangeConcatenation
    <3> QED
      BY <1>1, <3>2 DEF Streams
  <2> QED
    BY <2>1, <2>2
<1>11. Range(packetVc') \subseteq VC
  BY <1>1, WorkPacketVcs
<1>12. Range(origDest') \subseteq Node
  BY <1>1 DEF Work, Typed, Range
<1>13. replyBuf' \in Seq([fid : Nat, vc : VC]) /\ \A k \in DOMAIN replyBuf' : replyBuf'[k].fid \in Id
  <2>1. Answered
    BY <1>1, WorkAnswers
  <2>2. \A n \in Retiring : Reply(n).fid \in Id
    BY <1>1 DEF Retiring, Reply, Typed
  <2>3. \A k \in DOMAIN replyBuf : replyBuf[k].fid \in Id
    BY <1>1 DEF Typed
  <2> QED
    BY <2>1, <2>2, <2>3 DEF Answered
<1>14. nocToRtl' \subseteq Node \X VC
  BY <1>1, Zenon DEF Work, Typed, Freed
<1>15. creditSlot' \in [Node -> SUBSET VC]
  <2>1. /\ creditSlot' = [n \in Node |-> IF Returned(n) = {} THEN creditSlot[n] ELSE {Max(Returned(n))}]
        /\ creditSlot \in [Node -> SUBSET VC]
    BY <1>1 DEF Work, Typed
  <2>2. ASSUME NEW n \in Node, Returned(n) # {} PROVE Max(Returned(n)) \in VC
    <3>1. IsFiniteSet(VC) /\ VC \subseteq Int /\ Returned(n) \in SUBSET VC
      BY BridgeAssumption, FS_Interval DEF VC, Returned
    <3>2. IsFiniteSet(Returned(n)) /\ Returned(n) \subseteq Int
      BY <3>1, FS_Subset
    <3>3. Max(Returned(n)) \in Returned(n)
      BY <2>2, <3>2, MaxOf
    <3> QED
      BY <3>1, <3>3
  <2> QED
    BY <2>1, <2>2
<1>16. failed' \in Assertions \cup {None}
  BY WorkAsserts DEF Assertions
<1>17. /\ sent' \in Seq(Flit) /\ \A n \in Node : Range(received'[n]) \subseteq Id'
       /\ inFlight' \subseteq Id' /\ \A k \in DOMAIN replyBuf' : replyBuf'[k].fid \in Id'
       /\ flits' \in [Node -> Id' \cup {None}] /\ dataSet' \subseteq [fid : Id', dest : Node]
       /\ prevOcc' \in [Node -> [VC -> 0..VcBufSize]]
  BY <1>1, <1>2, <1>3, <1>6, <1>7, <1>10, <1>13 DEF Typed
<1> QED
  BY <1>1, <1>2, <1>5, <1>6, <1>7, <1>8, <1>9, <1>11, <1>12, <1>13, <1>14, <1>15, <1>16, <1>17, Zenon DEF Typed

(* The credits and the flits of the cycle are dealt with. *)
LEMMA WorkRounds ==
  ASSUME IInv, Work
  PROVE  Rounds' /\ Sampled'
<1>1. Typed /\ Rounds
  BY DEF IInv
<1>2. /\ Advanced /\ UNCHANGED <<clock, stepsLeft, quit>> /\ phase = "work" /\ phase' = "read"
      /\ rtlToNoc' = {} /\ flits' = PerNode(None)
  BY <1>1, WorkAdvances
<1>3. failed' \in {None, "EnqueueCreditFromNoc"}
  BY WorkAsserts
<1>4. Rounds'
  BY <1>1, <1>2, <1>3 DEF Rounds
<1>5. Sampled'
  BY <1>2 DEF Sampled, Advanced
<1> QED
  BY <1>4, <1>5

(* A credit for each slot that the sampled occupancies say has got free. *)
LEMMA WorkCredits ==
  ASSUME IInv, Work
  PROVE  SenderCreditsKept'
<1>1. Typed /\ Streams /\ Packets /\ Entered /\ PacketVcs /\ Sampled /\ SenderCredits
  BY DEF IInv, SenderCreditsKept, Work
<1>2. Advanced /\ UNCHANGED <<sent, credits>>
  BY <1>1, WorkAdvances
<1>3. nocToRtl' = nocToRtl \cup Freed(NextOcc) /\ occ' = NextOcc
  BY DEF Work
<1> SUFFICES ASSUME failed' = None, NEW n \in Node, NEW v \in VC
             PROVE  credits'[n][v] + Cardinality(QueuedOn(n, v)') + prevOcc'[n][v] + One(<<n, v>> \in nocToRtl') = VcBufSize
  BY DEF SenderCreditsKept, SenderCredits, QueuedOn
<1> DEFINE before == One(<<n, v>> \in nocToRtl)
           added == One(<<n, v>> \in Freed(NextOcc))
           after == One(<<n, v>> \in nocToRtl')
           C == Cardinality(QueuedOn(n, v))
           D == Cardinality(QueuedOn(n, v)')
<1>4. nocToRtl \cap Freed(NextOcc) = {}
  BY WorkAsserts
<1>5. credits[n][v] + C + prevOcc[n][v] + before = VcBufSize
  BY <1>1 DEF SenderCredits, QueuedOn
<1>6. /\ credits[n][v] \in Nat /\ prevOcc[n][v] \in Nat /\ occ[n][v] \in Nat /\ VcBufSize \in Nat
      /\ IsFiniteSet(QueuedOn(n, v)) /\ Cardinality(QueuedOn(n, v)) \in Nat
  <2>1. credits[n][v] \in Nat /\ prevOcc[n][v] \in Nat /\ occ[n][v] \in Nat /\ VcBufSize \in Nat
    BY <1>1, BridgeAssumption DEF Typed
  <2>2. IsFiniteSet(QueuedOn(n, v)) /\ Cardinality(QueuedOn(n, v)) \in Nat
    BY <1>1, QueuedFinite
  <2> QED
    BY <2>1, <2>2
<1>7. occ[n][v] = prevOcc[n][v] \/ occ[n][v] = prevOcc[n][v] - 1
  BY <1>1 DEF Sampled
<1>8. <<n, v>> \in Freed(NextOcc) <=> \/ occ'[n][v] < prevOcc[n][v]
                                      \/ Enters(n, v) /\ occ'[n][v] = prevOcc[n][v]
  BY <1>3 DEF Freed, Enters
<1>9. after = before + added
  BY <1>3, <1>4 DEF One
<1>10. credits'[n][v] = credits[n][v] /\ prevOcc'[n][v] = occ'[n][v]
  BY <1>2 DEF Advanced
<1>11. before \in Nat /\ C \in Nat
  BY <1>6 DEF One
<1>12. CASE Enters(n, v)
  <2> DEFINE e == Head(Queued[n])
  <2>1. Queued'[n] = Tail(Queued[n]) /\ Queued[n] # <<>> /\ ForemostVc(n) = v /\ occ'[n][v] = occ[n][v] + 1
    BY <1>2, <1>12 DEF Advanced, Enters
  <2>2. Queued[n] \in Seq(Nat) /\ Increasing(Queued[n])
    BY <1>1 DEF Typed, Queued, Streams
  <2>3. Range(Queued'[n]) = Range(Queued[n]) \ {e}
    BY <2>1, <2>2, TailIncreasing
  <2>4. e \in QueuedOn(n, v)
    <3>1. Front(n)
      BY <1>1, <2>1, FrontOfQueue
    <3> QED
      BY <2>1, <3>1 DEF Front, QueuedOn, Foremost
  <2>5. QueuedOn(n, v)' = QueuedOn(n, v) \ {e}
    BY <1>2, <2>3 DEF QueuedOn
  <2> HIDE DEF e
  <2>6. D = C - 1
    BY <1>6, <2>4, <2>5, FS_RemoveElement, ZenonT(40)
  <2>7. added = prevOcc[n][v] - occ[n][v]
    BY <1>6, <1>7, <1>8, <1>12, <2>1 DEF One
  <2>8. prevOcc'[n][v] = occ[n][v] + 1 /\ D \in Int
    BY <1>6, <1>10, <2>1, <2>6
  <2>9. after = before + prevOcc[n][v] - occ[n][v]
    BY <1>6, <1>9, <1>11, <2>7
  <2> HIDE DEF before, after, added, C, D
  <2>10. credits[n][v] + D + prevOcc'[n][v] + after = VcBufSize
    BY <1>5, <1>6, <1>11, <2>6, <2>8, <2>9
  <2> QED
    BY <1>10, <2>10 DEF after, D
<1>13. CASE ~Enters(n, v)
  <2>1. occ'[n][v] = occ[n][v]
    BY <1>2, <1>13 DEF Advanced
  <2>2. QueuedOn(n, v)' = QueuedOn(n, v)
    <3>1. CASE n \in Entering
      <4>1. Queued'[n] = Tail(Queued[n]) /\ Queued[n] # <<>> /\ ForemostVc(n) # v
        BY <1>2, <1>13, <3>1 DEF Advanced, Enters
      <4>2. Queued[n] \in Seq(Nat) /\ Increasing(Queued[n])
        BY <1>1 DEF Typed, Queued, Streams
      <4>3. Range(Queued'[n]) = Range(Queued[n]) \ {Head(Queued[n])}
        BY <4>1, <4>2, TailIncreasing
      <4>4. Front(n)
        BY <1>1, <4>1, FrontOfQueue
      <4> QED
        BY <1>2, <4>1, <4>3, <4>4 DEF QueuedOn, Front, Foremost
    <3>2. CASE n \notin Entering
      <4>1. Queued'[n] = Queued[n]
        BY <1>2, <3>2 DEF Advanced
      <4> QED
        BY <1>2, <4>1 DEF QueuedOn
    <3> QED
      BY <3>1, <3>2
  <2>3. added = prevOcc[n][v] - occ[n][v]
    BY <1>6, <1>7, <1>8, <1>13, <2>1 DEF One
  <2>4. D = C
    BY <2>2
  <2> HIDE DEF before, after, added, C, D
  <2>5. credits[n][v] + D + prevOcc'[n][v] + after = VcBufSize
    BY <1>5, <1>6, <1>9, <1>10, <1>11, <2>1, <2>3, <2>4
  <2> QED
    BY <1>10, <2>5 DEF after, D
<1> QED
  BY <1>12, <1>13

(* _Step, from the return of FeS2Interface::Step on. *)
LEMMA WorkKeeps ==
  ASSUME IInv, Work
  PROVE  IInv'
<1>1. /\ Typed /\ Streams /\ Order /\ Packets /\ Unfinished /\ Lined /\ Entered /\ PacketVcs /\ Known
  BY DEF IInv
<1>2. Typed' /\ Rounds' /\ Sampled' /\ SenderCreditsKept'
  BY WorkTyped, WorkRounds, WorkCredits
<1>3. Streams' /\ Order' /\ Lined'
  BY <1>1, WorkStreams, WorkOrder, WorkLined
<1>4. Entered' /\ PacketVcs' /\ Known'
  BY <1>1, WorkEntered, WorkPacketVcs, WorkKnown
<1>5. Packets' /\ Unfinished'
  <2>1. UNCHANGED <<sent, nextPid, sending, pId>> /\ Id' = Id
    BY <1>1, WorkAdvances DEF Id
  <2> QED
    BY <1>1, <2>1 DEF Packets, Unfinished
<1> QED
  BY <1>2, <1>3, <1>4, <1>5 DEF IInv

-----------------------------------------------------------------------------
(* What Read does: the network moves flits on, and lets some of them out. *)

(* The flits ahead of which the others stay. *)
(* A sequence that has a head. *)
First(s) == s # <<>> /\ Head(s) \in Range(s)

(* The buffers after Read. *)
Moved(moved, ejected) ==
  \A n \in Node, v \in VC :
    /\ entry[n][v] \in Seq(Nat) /\ inner[n][v] \in Seq(Nat)
    /\ <<n, v>> \in moved => /\ First(entry[n][v])
                             /\ entry'[n][v] = Tail(entry[n][v]) /\ occ'[n][v] = occ[n][v] - 1
                             /\ Len(entry'[n][v]) = Len(entry[n][v]) - 1
                             /\ Range(entry'[n][v]) = Range(entry[n][v]) \ {Head(entry[n][v])}
                             /\ \A x \in Range(entry'[n][v]) : Head(entry[n][v]) < x
    /\ <<n, v>> \notin moved => entry'[n][v] = entry[n][v] /\ occ'[n][v] = occ[n][v]
    /\ entry'[n][v] \in Seq(Nat) /\ Increasing(entry'[n][v])
    /\ <<n, v>> \in ejected => /\ First(inner[n][v])
                               /\ \A x \in Range(inner[n][v]) \ {Head(inner[n][v])} : Head(inner[n][v]) < x
    /\ Range(inner'[n][v]) =
         (Range(inner[n][v]) \ (IF <<n, v>> \in ejected THEN {Head(inner[n][v])} ELSE {}))
           \cup (IF <<n, v>> \in moved THEN {Head(entry[n][v])} ELSE {})
    /\ inner'[n][v] \in Seq(Nat) /\ Increasing(inner'[n][v])

(* The buffers after the network has moved. *)
LEMMA ReadMoves ==
  ASSUME Typed, Streams, Order, NEW moved, NEW ejected, Read(moved, ejected)
  PROVE  Moved(moved, ejected)
<1> SUFFICES ASSUME NEW n \in Node, NEW v \in VC
             PROVE  Moved(moved, ejected)!(n, v)
  BY DEF Moved
<1> DEFINE en == entry[n][v]
           in == inner[n][v]
           rest == IF <<n, v>> \in ejected THEN Tail(in) ELSE in
<1>1. /\ entry'[n][v] = IF <<n, v>> \in moved THEN Tail(en) ELSE en
      /\ inner'[n][v] = IF <<n, v>> \in moved THEN Append(rest, Head(en)) ELSE rest
      /\ occ'[n][v] = IF <<n, v>> \in moved THEN occ[n][v] - 1 ELSE occ[n][v]
  BY DEF Read
<1>2. /\ en \in Seq(Nat) /\ in \in Seq(Nat) /\ Increasing(en) /\ Increasing(in)
      /\ \A i \in Range(en) : i \in Id /\ sent[i].src = n /\ sent[i].vc = v
      /\ \A i \in Range(in) : i \in Id /\ sent[i].src = n /\ sent[i].vc = v
  BY SMTT(30) DEF Typed, Streams
<1>3. (<<n, v>> \in moved => en # <<>>) /\ (<<n, v>> \in ejected => in # <<>>)
  BY Zenon DEF Read, Leaving, Ejectable, CanEject
<1>4. ASSUME <<n, v>> \in moved
      PROVE  /\ First(en) /\ Head(en) \in Nat /\ Tail(en) \in Seq(Nat) /\ Increasing(Tail(en))
             /\ Range(Tail(en)) = Range(en) \ {Head(en)} /\ Len(Tail(en)) = Len(en) - 1
             /\ \A x \in Range(Tail(en)) : Head(en) < x
  <2>1. en # <<>>
    BY <1>3, <1>4
  <2>2. Head(en) \in Nat
    BY <1>2, <2>1
  <2> HIDE DEF en
  <2> QED
    BY <1>2, <2>1, <2>2, TailIncreasing DEF First
<1>5. /\ rest \in Seq(Nat) /\ Increasing(rest)
      /\ Range(rest) = Range(in) \ (IF <<n, v>> \in ejected THEN {Head(in)} ELSE {})
      /\ <<n, v>> \in ejected => First(in) /\ \A x \in Range(in) \ {Head(in)} : Head(in) < x
  <2>1. CASE <<n, v>> \in ejected
    <3>1. in # <<>> /\ rest = Tail(in)
      BY <1>3, <2>1
    <3> HIDE DEF in, rest
    <3>2. /\ First(in) /\ Tail(in) \in Seq(Nat) /\ Increasing(Tail(in))
          /\ Range(Tail(in)) = Range(in) \ {Head(in)} /\ \A x \in Range(Tail(in)) : Head(in) < x
      BY <1>2, <3>1, TailIncreasing DEF First
    <3> QED
      BY <2>1, <3>1, <3>2
  <2>2. CASE <<n, v>> \notin ejected
    <3>1. rest = in
      BY <2>2
    <3> HIDE DEF in, rest
    <3> QED
      BY <1>2, <2>2, <3>1
  <2> QED
    BY <2>1, <2>2
<1>6. ASSUME <<n, v>> \in moved
      PROVE  /\ inner'[n][v] \in Seq(Nat) /\ Increasing(inner'[n][v])
             /\ Range(inner'[n][v]) = Range(rest) \cup {Head(en)}
  <2>1. \A x \in Range(rest) : x < Head(en)
    <3> SUFFICES ASSUME NEW x \in Range(in) PROVE x < Head(en)
      BY <1>5
    <3>1. x \in InInner /\ sent[x].src = n /\ sent[x].vc = v
      BY <1>2 DEF InInner
    <3>2. Head(en) \in InEntry /\ sent[Head(en)].src = n /\ sent[Head(en)].vc = v
      BY <1>2, <1>4, <1>6 DEF InEntry, First
    <3> QED
      BY <3>1, <3>2 DEF Order, Ahead
  <2>2. inner'[n][v] = Append(rest, Head(en)) /\ Head(en) \in Nat
    BY <1>1, <1>4, <1>6, Zenon
  <2>3. rest \in Seq(Nat) /\ Increasing(rest)
    BY <1>5
  <2> DEFINE e == Head(en)
  <2>4. e \in Nat /\ \A x \in Range(rest) : x < e
    BY <2>1, <2>2
  <2> HIDE DEF rest, e
  <2>5. Append(rest, e) \in Seq(Nat) /\ Increasing(Append(rest, e)) /\ Range(Append(rest, e)) = Range(rest) \cup {e}
    BY <2>3, <2>4, AppendIncreasing
  <2> QED
    BY <2>2, <2>5 DEF e
<1> HIDE DEF rest
<1>7. CASE <<n, v>> \in moved
  BY <1>1, <1>2, <1>4, <1>5, <1>6, <1>7, Zenon
<1>8. CASE <<n, v>> \notin moved
  BY <1>1, <1>2, <1>5, <1>8
<1> QED
  BY <1>7, <1>8

(* The flits that leave the network are the heads that ejected names. *)
Ejected(ejected) ==
  /\ \A c \in ejected : /\ c \in Node \X VC /\ At(c) \in InInner /\ First(inner[c[1]][c[2]])
                        /\ sent[At(c)].src = c[1] /\ sent[At(c)].vc = c[2]
                        /\ BoundIn(sent, At(c)) \in Node
                        /\ ejOcc[BoundIn(sent, At(c))][c[2]] < VcBufSize
                        /\ flits'[BoundIn(sent, At(c))] = At(c)
                        /\ \A e \in ejected : BoundIn(sent, At(c)) = BoundIn(sent, At(e)) => c = e
  /\ \A d \in Node : flits'[d] # None => \E c \in ejected : flits'[d] = At(c) /\ BoundIn(sent, At(c)) = d

(* The flits read are among those that were inside, one per port. *)
LEMMA ReadEjects ==
  ASSUME Typed, Streams, Packets, NEW moved, NEW ejected, Read(moved, ejected)
  PROVE  Ejected(ejected)
<1>1. ASSUME NEW c \in ejected
      PROVE  /\ c \in Node \X VC /\ At(c) \in InInner /\ First(inner[c[1]][c[2]])
             /\ sent[At(c)].src = c[1] /\ sent[At(c)].vc = c[2]
             /\ BoundIn(sent, At(c)) \in Node /\ ejOcc[BoundIn(sent, At(c))][c[2]] < VcBufSize
  <2>1. c \in Node \X VC /\ CanEject(c[1], c[2])
    BY DEF Read, Ejectable
  <2> DEFINE in == inner[c[1]][c[2]]
  <2>2. in \in Seq(Nat) /\ in # <<>>
    BY <2>1 DEF Typed, CanEject
  <2>3. Head(in) \in Range(in)
    BY <2>2 DEF Range
  <2>4. At(c) = Head(in)
    BY DEF At
  <2> HIDE DEF in
  <2>5. Head(in) \in Id /\ sent[Head(in)].src = c[1] /\ sent[Head(in)].vc = c[2]
    BY <2>1, <2>3 DEF Streams, in
  <2>6. At(c) \in InInner
    BY <2>3, <2>4, <2>5, Zenon DEF InInner, in
  <2>7. BoundIn(sent, At(c)) \in Node
    BY <2>4, <2>5, SameBound
  <2>8. ejOcc[BoundIn(sent, At(c))][c[2]] < VcBufSize
    BY <2>1, <2>4 DEF CanEject, Bound, in
  <2> QED
    BY <2>1, <2>2, <2>3, <2>4, <2>5, <2>6, <2>7, <2>8 DEF First, in
<1>2. \A c, e \in ejected : BoundIn(sent, At(c)) = BoundIn(sent, At(e)) => c = e
  BY DEF Read, Bound
<1>3. flits' = [d \in Node |-> IF Out(ejected, d) = {} THEN None ELSE FlitAt(Out(ejected, d))]
  BY DEF Read
<1>4. ASSUME NEW c \in ejected PROVE flits'[BoundIn(sent, At(c))] = At(c)
  <2>1. Out(ejected, BoundIn(sent, At(c))) = {c}
    BY <1>2 DEF Out, Bound
  <2>2. FlitAt({c}) = At(c)
    <3>1. (CHOOSE e \in {c} : TRUE) = c
      OBVIOUS
    <3> QED
      BY <3>1 DEF FlitAt
  <2>3. BoundIn(sent, At(c)) \in Node
    BY <1>1
  <2> QED
    BY <1>3, <2>1, <2>2, <2>3
<1>5. ASSUME NEW d \in Node, flits'[d] # None
      PROVE  \E c \in ejected : flits'[d] = At(c) /\ BoundIn(sent, At(c)) = d
  <2>1. Out(ejected, d) # {}
    BY <1>3, <1>5
  <2>2. PICK c \in ejected : BoundIn(sent, At(c)) = d
    BY <2>1 DEF Out, Bound
  <2> QED
    BY <1>4, <2>2
<1> QED
  BY <1>1, <1>2, <1>4, <1>5 DEF Ejected

(* The places of the flits after Read. *)
LEMMA ReadPlaces ==
  ASSUME Typed, Streams, Order, Packets, NEW moved, NEW ejected, Read(moved, ejected)
  PROVE  /\ InEntry' \subseteq InEntry
         /\ \A i \in InInner' : \/ i \in InInner /\ \A c \in ejected : i # At(c)
                                \/ i \in InEntry /\ i \notin InEntry' /\ i = Head(entry[sent[i].src][sent[i].vc])
         /\ \A i \in InFlits' : \E c \in ejected : i = At(c)
         /\ InQueue' = InQueue /\ InReply' = InReply /\ InNetwork' \subseteq InNetwork
<1>1. Moved(moved, ejected) /\ Ejected(ejected)
  BY ReadMoves, ReadEjects
<1>2. UNCHANGED <<sent, partial, requestBuf, replyBuf>>
  BY DEF Read, wrapper, interface
<1>3. Id' = Id /\ Queued' = Queued /\ \A i \in Id : sent[i].src \in Node /\ sent[i].vc \in VC
  BY <1>2, FlitTypes DEF Id, Queued
<1>4. InQueue' = InQueue /\ InReply' = InReply
  BY <1>2, <1>3 DEF InQueue, InReply
<1>5. ASSUME NEW n \in Node, NEW v \in VC
      PROVE  /\ Range(entry'[n][v]) \subseteq Range(entry[n][v])
             /\ \A i \in Range(inner'[n][v]) :
                  \/ i \in Range(inner[n][v]) /\ (<<n, v>> \in ejected => i # Head(inner[n][v]))
                  \/ /\ i \in Range(entry[n][v]) /\ i \notin Range(entry'[n][v])
                     /\ i = Head(entry[n][v])
  <2>1. /\ <<n, v>> \in moved => /\ Range(entry'[n][v]) = Range(entry[n][v]) \ {Head(entry[n][v])}
                                 /\ Head(entry[n][v]) \in Range(entry[n][v])
        /\ <<n, v>> \notin moved => entry'[n][v] = entry[n][v]
    BY <1>1 DEF Moved, First
  <2>2. Range(inner'[n][v]) =
         (Range(inner[n][v]) \ (IF <<n, v>> \in ejected THEN {Head(inner[n][v])} ELSE {}))
           \cup (IF <<n, v>> \in moved THEN {Head(entry[n][v])} ELSE {})
    BY <1>1 DEF Moved
  <2>3. CASE <<n, v>> \in moved
    BY <2>1, <2>2, <2>3
  <2>4. CASE <<n, v>> \notin moved
    BY <2>1, <2>2, <2>4
  <2> QED
    BY <2>3, <2>4
<1>6. InEntry' \subseteq InEntry
  BY <1>2, <1>3, <1>5 DEF InEntry
<1>7. ASSUME NEW i \in InInner'
      PROVE  \/ i \in InInner /\ \A c \in ejected : i # At(c)
             \/ i \in InEntry /\ i \notin InEntry' /\ i = Head(entry[sent[i].src][sent[i].vc])
  <2> DEFINE n == sent[i].src
             v == sent[i].vc
  <2>1. i \in Id /\ i \in Range(inner'[n][v]) /\ n \in Node /\ v \in VC
    BY <1>2, <1>3 DEF InInner
  <2>2. CASE i \in Range(inner[n][v]) /\ (<<n, v>> \in ejected => i # Head(inner[n][v]))
    <3>1. ASSUME NEW c \in ejected, i = At(c) PROVE FALSE
      <4>1. c \in Node \X VC /\ c[1] = n /\ c[2] = v
        BY <1>1, <3>1 DEF Ejected
      <4>2. c = <<n, v>>
        BY <4>1
      <4> QED
        BY <2>2, <3>1, <4>1, <4>2, Zenon DEF At
    <3> QED
      BY <2>1, <2>2, <3>1 DEF InInner
  <2>3. CASE i \in Range(entry[n][v]) /\ i \notin Range(entry'[n][v]) /\ i = Head(entry[n][v])
    BY <1>2, <2>1, <2>3 DEF InEntry
  <2> QED
    BY <1>5, <2>1, <2>2, <2>3
<1>8. ASSUME NEW i \in InFlits' PROVE \E c \in ejected : i = At(c)
  <2>1. PICK d \in Node : flits'[d] = i
    BY DEF InFlits
  <2>2. i # None
    BY <1>3, FlitTypes, NoneAssumption DEF InFlits
  <2> QED
    BY <1>1, <2>1, <2>2 DEF Ejected
<1>9. \A c \in ejected : At(c) \in InInner
  BY <1>1 DEF Ejected
<1>10. InNetwork' \subseteq InNetwork
  BY <1>4, <1>6, <1>7, <1>8, <1>9 DEF InNetwork
<1> QED
  BY <1>4, <1>6, <1>7, <1>8, <1>10

(* A flit that moves on is the first of its stream where it was. *)
LEMMA ReadOrder ==
  ASSUME Typed, Streams, Order, Packets, NEW moved, NEW ejected, Read(moved, ejected)
  PROVE  Order'
<1>1. Moved(moved, ejected) /\ Ejected(ejected)
  BY ReadMoves, ReadEjects
<1>2. sent' = sent
  BY DEF Read, wrapper
<1>3. /\ InEntry' \subseteq InEntry /\ InQueue' = InQueue /\ InReply' = InReply /\ InNetwork' \subseteq InNetwork
      /\ \A i \in InInner' : \/ i \in InInner /\ \A c \in ejected : i # At(c)
                             \/ i \in InEntry /\ i \notin InEntry' /\ i = Head(entry[sent[i].src][sent[i].vc])
      /\ \A i \in InFlits' : \E c \in ejected : i = At(c)
  BY ReadPlaces
<1>4. /\ Ahead(sent, InEntry, InQueue) /\ Ahead(sent, InInner, InQueue \cup InEntry) /\ Ahead(sent, InReply, InNetwork)
  BY DEF Order
<1>5. Ahead(sent, InEntry', InQueue)
  BY <1>3, <1>4 DEF Ahead
<1>6. Ahead(sent, InReply, InNetwork')
  BY <1>3, <1>4 DEF Ahead
<1>7. Ahead(sent, InInner', InQueue \cup InEntry')
  <2> SUFFICES ASSUME NEW i \in InInner', NEW j \in InQueue \cup InEntry', sent[i].src = sent[j].src, sent[i].vc = sent[j].vc
               PROVE  i < j
    BY DEF Ahead
  <2>1. j \in InQueue \cup InEntry
    BY <1>3
  <2>2. CASE i \in InInner
    BY <1>4, <2>1, <2>2 DEF Ahead
  <2>3. CASE i \in InEntry /\ i \notin InEntry' /\ i = Head(entry[sent[i].src][sent[i].vc])
    <3>1. CASE j \in InQueue
      BY <1>4, <2>3, <3>1 DEF Ahead
    <3>2. CASE j \in InEntry'
      <4> DEFINE n == sent[j].src
                 v == sent[j].vc
      <4>1. /\ n \in Node /\ v \in VC /\ j \in Range(entry'[n][v]) /\ i \in Range(entry[n][v])
            /\ i \notin Range(entry'[n][v])
        <5>1. j \in Id /\ i \in Id /\ j \in Range(entry'[n][v]) /\ i \in Range(entry[n][v])
          BY <1>2, <2>3, <3>2 DEF InEntry, Id
        <5>2. i \notin Range(entry'[n][v])
          BY <1>2, <2>3, <5>1 DEF InEntry, Id
        <5> QED
          BY <5>1, <5>2, FlitTypes
      <4>2. <<n, v>> \in moved
        BY <1>1, <4>1 DEF Moved
      <4> HIDE DEF n, v
      <4>3. \A x \in Range(entry'[n][v]) : Head(entry[n][v]) < x
        BY <1>1, <4>1, <4>2 DEF Moved
      <4> QED
        BY <2>3, <4>1, <4>3 DEF n, v
    <3> QED
      BY <3>1, <3>2
  <2> QED
    BY <1>3, <2>2, <2>3
<1>8. Ahead(sent, InFlits', InQueue \cup InEntry' \cup InInner')
  <2> SUFFICES ASSUME NEW c \in ejected, NEW j \in InQueue \cup InEntry' \cup InInner',
                      sent[At(c)].src = sent[j].src, sent[At(c)].vc = sent[j].vc
               PROVE  At(c) < j
    BY <1>3 DEF Ahead
  <2>1. /\ At(c) \in InInner /\ c \in Node \X VC /\ sent[At(c)].src = c[1] /\ sent[At(c)].vc = c[2]
        /\ At(c) = Head(inner[c[1]][c[2]])
    BY <1>1, Zenon DEF Ejected, At
  <2>2. CASE j \in InQueue \cup InEntry
    BY <1>4, <2>1, <2>2 DEF Ahead
  <2>3. CASE j \in InInner /\ j # At(c)
    <3>1. j \in Range(inner[c[1]][c[2]])
      BY <2>1, <2>3, Zenon DEF InInner
    <3>2. c = <<c[1], c[2]>> /\ c[1] \in Node /\ c[2] \in VC
      BY <2>1
    <3> QED
      BY <1>1, <2>1, <2>3, <3>1, <3>2 DEF Moved
  <2>4. CASE j \in InInner'
    <3>1. \/ j \in InInner /\ j # At(c)
          \/ j \in InEntry
      BY <1>3, <2>4
    <3> QED
      BY <2>2, <2>3, <3>1
  <2>5. CASE j \in InQueue \cup InEntry'
    <3>1. j \in InQueue \cup InEntry
      BY <1>3, <2>5
    <3> QED
      BY <2>2, <3>1
  <2> QED
    BY <2>4, <2>5
<1>9. \A d \in Node : flits'[d] # None => BoundIn(sent, flits'[d]) = d
  BY <1>1 DEF Ejected
<1> QED
  BY <1>2, <1>3, <1>5, <1>6, <1>7, <1>8, <1>9 DEF Order

(* The network takes flits from buffers that hold some. *)
LEMMA ReadTyped ==
  ASSUME Typed, Streams, Order, Packets, NEW moved, NEW ejected, Read(moved, ejected)
  PROVE  Typed' /\ Streams'
<1>1. Moved(moved, ejected) /\ Ejected(ejected)
  BY ReadMoves, ReadEjects
<1>2. /\ UNCHANGED <<sending, credits, held, received, sent, nextPid, pId, destTable, dataSet>>
      /\ UNCHANGED <<requestBuf, replyBuf, origDest, nocToRtl, rtlToNoc>>
      /\ UNCHANGED <<inFlight, partial, packetVc, inUse, prevOcc, clock, stepsLeft, quit, failed>>
      /\ phase' \in {"work", "serve"} /\ creditSlot' = PerNode({})
  BY DEF Read, design, wrapper, interface
<1>3. Id' = Id /\ Queued' = Queued
  BY <1>2 DEF Id, Queued
<1>4. /\ entry' \in [Node -> [VC -> Seq(Nat)]] /\ inner' \in [Node -> [VC -> Seq(Nat)]]
      /\ occ' \in [Node -> [VC -> 0..VcBufSize]]
  <2>1. /\ entry' = [n \in Node |-> [v \in VC |->
              IF <<n, v>> \in moved THEN Tail(entry[n][v]) ELSE entry[n][v]]]
        /\ inner' = [n \in Node |-> [v \in VC |->
              LET rest == IF <<n, v>> \in ejected THEN Tail(inner[n][v]) ELSE inner[n][v]
              IN  IF <<n, v>> \in moved THEN Append(rest, Head(entry[n][v])) ELSE rest]]
        /\ occ' = [n \in Node |-> [v \in VC |->
              IF <<n, v>> \in moved THEN occ[n][v] - 1 ELSE occ[n][v]]]
    BY DEF Read
  <2>2. ASSUME NEW n \in Node, NEW v \in VC
        PROVE  entry'[n][v] \in Seq(Nat) /\ inner'[n][v] \in Seq(Nat) /\ occ'[n][v] \in 0..VcBufSize
    <3>1. occ[n][v] \in 0..VcBufSize /\ VcBufSize \in Nat /\ occ[n][v] = Len(entry[n][v])
      BY BridgeAssumption DEF Typed, Streams
    <3>2. <<n, v>> \in moved => Len(entry[n][v]) # 0
      <4> SUFFICES ASSUME <<n, v>> \in moved PROVE Len(entry[n][v]) # 0
        OBVIOUS
      <4>1. entry[n][v] # <<>> /\ entry[n][v] \in Seq(Nat)
        BY <1>1 DEF Moved, First
      <4> QED
        BY <4>1
    <3>3. occ'[n][v] \in 0..VcBufSize
      <4>1. occ'[n][v] = IF <<n, v>> \in moved THEN occ[n][v] - 1 ELSE occ[n][v]
        BY <2>1
      <4>2. CASE <<n, v>> \in moved
        <5>1. occ'[n][v] = occ[n][v] - 1
          BY <4>1, <4>2
        <5>2. occ[n][v] # 0
          BY <3>1, <3>2, <4>2
        <5> QED
          BY <3>1, <5>1, <5>2
      <4>3. CASE <<n, v>> \notin moved
        BY <3>1, <4>1, <4>3
      <4> QED
        BY <4>2, <4>3
    <3> QED
      BY <1>1, <3>3 DEF Moved
  <2> QED
    BY <2>1, <2>2
<1>5. flits' \in [Node -> Id \cup {None}]
  <2>1. flits' = [d \in Node |-> IF Out(ejected, d) = {} THEN None ELSE FlitAt(Out(ejected, d))]
    BY DEF Read
  <2>2. \A d \in Node : flits'[d] \in Id \cup {None}
    BY <1>1 DEF Ejected, InInner
  <2> QED
    BY <2>1, <2>2
<1>6. ejOcc' \in [Node -> [VC -> Int]]
  <2>1. ejOcc' = [d \in Node |-> [v \in VC |->
          ejOcc[d][v] + One(Got(ejected, d, v) # {}) - One(v \in creditSlot[d])]]
    BY DEF Read
  <2>2. ASSUME NEW d \in Node, NEW v \in VC
        PROVE  ejOcc[d][v] + One(Got(ejected, d, v) # {}) - One(v \in creditSlot[d]) \in Int
    <3>1. ejOcc[d][v] \in Int
      BY DEF Typed
    <3> QED
      BY <3>1 DEF One
  <2> QED
    BY <2>1, <2>2
<1>7. creditSlot' \in [Node -> SUBSET VC]
  BY <1>2 DEF PerNode
<1>8. Typed'
  BY <1>2, <1>3, <1>4, <1>5, <1>6, <1>7 DEF Typed
<1>9. ASSUME NEW n \in Node, NEW v \in VC
      PROVE  /\ Increasing(entry'[n][v]) /\ Increasing(inner'[n][v])
             /\ \A i \in Range(entry'[n][v]) \cup Range(inner'[n][v]) :
                  i \in Id /\ sent[i].src = n /\ sent[i].vc = v
             /\ occ'[n][v] = Len(entry'[n][v])
  <2>1. /\ \A i \in Range(entry[n][v]) \cup Range(inner[n][v]) : i \in Id /\ sent[i].src = n /\ sent[i].vc = v
        /\ occ[n][v] = Len(entry[n][v])
    BY DEF Streams
  <2>2. /\ <<n, v>> \in moved => /\ Range(entry'[n][v]) = Range(entry[n][v]) \ {Head(entry[n][v])}
                                 /\ Head(entry[n][v]) \in Range(entry[n][v])
        /\ <<n, v>> \notin moved => entry'[n][v] = entry[n][v]
    BY <1>1 DEF Moved, First
  <2>3. Range(inner'[n][v]) =
         (Range(inner[n][v]) \ (IF <<n, v>> \in ejected THEN {Head(inner[n][v])} ELSE {}))
           \cup (IF <<n, v>> \in moved THEN {Head(entry[n][v])} ELSE {})
    BY <1>1 DEF Moved
  <2>4. \A i \in Range(entry'[n][v]) \cup Range(inner'[n][v]) : i \in Range(entry[n][v]) \cup Range(inner[n][v])
    <3>1. CASE <<n, v>> \in moved
      BY <2>2, <2>3, <3>1
    <3>2. CASE <<n, v>> \notin moved
      BY <2>2, <2>3, <3>2
    <3> QED
      BY <3>1, <3>2
  <2>5. Increasing(entry'[n][v]) /\ Increasing(inner'[n][v])
    BY <1>1 DEF Moved
  <2>6. occ'[n][v] = Len(entry'[n][v])
    <3>1. <<n, v>> \in moved => occ'[n][v] = occ[n][v] - 1 /\ Len(entry'[n][v]) = Len(entry[n][v]) - 1
      BY <1>1 DEF Moved
    <3>2. <<n, v>> \notin moved => occ'[n][v] = occ[n][v] /\ entry'[n][v] = entry[n][v]
      BY <1>1 DEF Moved
    <3> QED
      BY <2>1, <3>1, <3>2
  <2> QED
    BY <2>1, <2>4, <2>5, <2>6
<1>10. Streams'
  BY <1>2, <1>3, <1>9 DEF Streams
<1> QED
  BY <1>8, <1>10

(* The start of the next call of _Step. *)
LEMMA ReadKeeps ==
  ASSUME IInv, NEW moved, NEW ejected, Read(moved, ejected)
  PROVE  IInv'
<1>1. /\ Typed /\ Streams /\ Order /\ Packets /\ Unfinished /\ Lined /\ Entered /\ PacketVcs /\ Known /\ Rounds
      /\ Sampled /\ SenderCreditsKept
  BY DEF IInv
<1>2. Typed' /\ Streams' /\ Order'
  BY <1>1, ReadTyped, ReadOrder
<1>3. /\ UNCHANGED <<sending, credits, held, received, sent, nextPid, pId, destTable, dataSet>>
      /\ UNCHANGED <<requestBuf, replyBuf, origDest, nocToRtl, rtlToNoc>>
      /\ UNCHANGED <<inFlight, partial, packetVc, inUse, prevOcc, clock, stepsLeft, quit, failed>>
      /\ phase = "read" /\ phase' \in {"work", "serve"} /\ creditSlot' = PerNode({})
      /\ phase' = "work" \/ quit = FALSE
  BY <1>1 DEF Read, design, wrapper, interface, Typed
<1>4. Id' = Id /\ Queued' = Queued
  BY <1>3 DEF Id, Queued
<1>5. Packets' /\ Unfinished' /\ Lined'
  BY <1>1, <1>3, <1>4 DEF Packets, Unfinished, Lined
<1>6. Entered'
  <2>1. \A n \in Node : (Begun(n)' <=> Begun(n)) /\ BegunPid(n)' = BegunPid(n) /\ BegunVc(n)' = BegunVc(n)
    BY <1>3, <1>4 DEF Begun, BegunPid, BegunVc, Foremost
  <2> QED
    BY <1>1, <1>3, <2>1 DEF Entered
<1>7. PacketVcs' /\ Known'
  <2>1. InNetwork' \subseteq InNetwork /\ InEntry' \cup InInner' \cup InFlits' \subseteq InEntry \cup InInner
    <3>1. Ejected(ejected)
      BY <1>1, ReadEjects
    <3>2. \A c \in ejected : At(c) \in InInner
      BY <3>1 DEF Ejected
    <3> QED
      BY <1>1, <3>2, ReadPlaces
  <2>2. Requested' = Requested
    BY <1>3 DEF Requested
  <2> QED
    BY <1>1, <1>3, <1>4, <2>1, <2>2 DEF PacketVcs, Known
<1>8. Rounds'
  BY <1>1, <1>3 DEF Rounds
<1>9. Sampled'
  <2>1. Moved(moved, ejected)
    BY <1>1, ReadMoves
  <2>2. \A n \in Node, v \in VC : occ'[n][v] = occ[n][v] \/ occ'[n][v] = occ[n][v] - 1
    BY <2>1 DEF Moved
  <2> QED
    BY <1>1, <1>3, <2>2 DEF Sampled
<1>10. SenderCreditsKept'
  BY <1>1, <1>3, <1>4 DEF SenderCreditsKept, SenderCredits
<1> QED
  BY <1>2, <1>5, <1>6, <1>7, <1>8, <1>9, <1>10 DEF IInv

-----------------------------------------------------------------------------
(* Nothing has happened yet. *)
LEMMA InitKeeps ==
  ASSUME Init
  PROVE  IInv
<1>1. /\ VcBufSize \in Nat \ {0} /\ VcBufSize \in 0..VcBufSize /\ 0 \in 0..VcBufSize /\ 0 \in 0..Speedup
  BY BridgeAssumption
<1>2. /\ sent = <<>> /\ Id = {} /\ nextPid = 0 /\ sending = PerNode(None) /\ partial = PerNode(<<>>)
      /\ requestBuf = PerNode(<<>>) /\ replyBuf = <<>> /\ origDest = <<>> /\ packetVc = <<>>
      /\ entry = PerVC(<<>>) /\ inner = PerVC(<<>>) /\ flits = PerNode(None) /\ inUse = PerVC(FALSE)
      /\ occ = PerVC(0) /\ prevOcc = PerVC(0) /\ credits = PerVC(VcBufSize) /\ nocToRtl = {}
  BY DEF Init, Id
<1>3. \A n \in Node : Queued[n] = <<>>
  BY <1>2 DEF Queued, PerNode
<1>4. Range(<<>>) = {} /\ Len(<<>>) = 0 /\ \A S : <<>> \in Seq(S)
  BY DEF Range
<1>5. Typed
  <2>1. /\ sending \in [Node -> [vc : VC, dest : Node] \cup {None}]
        /\ credits \in [Node -> [VC -> 0..VcBufSize]] /\ held \in [Node -> [VC -> Nat]]
        /\ received \in [Node -> Seq(Nat)] /\ \A n \in Node : Range(received[n]) \subseteq Id
    BY <1>1, <1>4 DEF Init, PerNode, PerVC
  <2>2. sent \in Seq(Flit) /\ nextPid \in Nat /\ pId \in [Node -> Nat] /\ dataSet = {}
    BY <1>2, <1>4 DEF Init, PerNode
  <2>3. destTable \in [Node -> Node]
    <3>1. 0 \in Node
      BY BridgeAssumption DEF Node
    <3> QED
      BY <3>1 DEF Init, PerNode
  <2>4. /\ requestBuf \in [Node -> Seq(Nat)] /\ partial \in [Node -> Seq(Nat)]
        /\ entry \in [Node -> [VC -> Seq(Nat)]] /\ inner \in [Node -> [VC -> Seq(Nat)]]
    BY <1>2, <1>4 DEF PerNode, PerVC
  <2>5. replyBuf \in Seq([fid : Nat, vc : VC]) /\ \A k \in DOMAIN replyBuf : replyBuf[k].fid \in Id
    BY <1>2, <1>4
  <2>6. Range(origDest) \subseteq Node /\ Range(packetVc) \subseteq VC
    BY <1>2, <1>4
  <2>7. /\ occ \in [Node -> [VC -> 0..VcBufSize]] /\ prevOcc \in [Node -> [VC -> 0..VcBufSize]]
        /\ inUse \in [Node -> [VC -> BOOLEAN]] /\ flits \in [Node -> Id \cup {None}]
        /\ ejOcc \in [Node -> [VC -> Int]] /\ creditSlot \in [Node -> SUBSET VC]
    BY <1>1, <1>2 DEF Init, PerNode, PerVC
  <2> QED
    BY <1>1, <2>1, <2>2, <2>3, <2>4, <2>5, <2>6, <2>7 DEF Init, Typed
<1>6. Streams
  <2>1. Increasing(<<>>)
    BY DEF Increasing
  <2> QED
    BY <1>2, <1>3, <1>4, <2>1 DEF Streams, PerVC
<1>7. InQueue = {} /\ InEntry = {} /\ InInner = {} /\ InFlits = {} /\ InReply = {}
  BY <1>2 DEF InQueue, InEntry, InInner, InFlits, InReply
<1>8. Order
  BY <1>2, <1>7 DEF Order, Ahead, InNetwork, PerNode
<1>9. Packets /\ Unfinished
  BY <1>2 DEF Packets, Unfinished, PerNode
<1>10. Lined
  BY <1>2, <1>3, <1>4 DEF Lined
<1>11. Entered
  BY <1>2, <1>3 DEF Entered, Begun, PerNode, PerVC
<1>12. PacketVcs /\ Known
  BY <1>2, <1>7 DEF PacketVcs, Known, InNetwork
<1>13. Rounds /\ Sampled
  BY <1>2 DEF Init, Rounds, Sampled, PerVC
<1>14. SenderCredits
  <2> SUFFICES ASSUME NEW n \in Node, NEW v \in VC
               PROVE  credits[n][v] + Cardinality(QueuedOn(n, v)) + prevOcc[n][v] + One(<<n, v>> \in nocToRtl) = VcBufSize
    BY DEF SenderCredits, QueuedOn
  <2>1. QueuedOn(n, v) = {}
    BY <1>3, <1>4 DEF QueuedOn
  <2>2. Cardinality(QueuedOn(n, v)) = 0
    BY <2>1, FS_EmptySet
  <2>3. One(<<n, v>> \in nocToRtl) = 0 /\ credits[n][v] = VcBufSize /\ prevOcc[n][v] = 0
    BY <1>2 DEF One, PerVC
  <2> QED
    BY <1>1, <2>2, <2>3
<1> QED
  BY <1>5, <1>6, <1>8, <1>9, <1>10, <1>11, <1>12, <1>13, <1>14 DEF IInv, SenderCreditsKept

(* Every step keeps the invariant. *)
LEMMA NextKeeps == IInv /\ [Next]_vars => IInv'
<1> SUFFICES ASSUME IInv, [Next]_vars PROVE IInv'
  OBVIOUS
<1>1. ASSUME NEW words \in [Node -> Word \cup {None}], ClockInject(words) PROVE IInv'
  BY <1>1, InjectKeeps
<1>2. ASSUME NEW freed \in SUBSET (Node \X VC), ClockReturn(freed) PROVE IInv'
  BY <1>2, ReturnKeeps
<1>3. CASE ClockReceive
  BY <1>3, ReceiveKeeps
<1>4. CASE ClockStep \/ ClockQuit
  BY <1>4, TurnKeeps
<1>5. CASE Work
  BY <1>5, WorkKeeps
<1>6. ASSUME NEW moved \in SUBSET Leaving, NEW ejected \in SUBSET Ejectable, Read(moved, ejected) PROVE IInv'
  BY <1>6, ReadKeeps
<1>7. CASE UNCHANGED vars
  <2>1. /\ UNCHANGED <<sending, credits, held, received, sent, nextPid, pId, destTable, dataSet>>
        /\ UNCHANGED <<requestBuf, replyBuf, origDest, nocToRtl, rtlToNoc>>
        /\ UNCHANGED <<inFlight, partial, packetVc, occ, inUse, prevOcc, flits>>
        /\ UNCHANGED <<entry, inner, owner, ejOcc, creditSlot, clock, stepsLeft, phase, quit, failed>>
    BY <1>7 DEF vars, design, wrapper, interface, manager, network, control
  <2>2. Flow'
    BY <2>1, StillFlow DEF IInv, Flow
  <2>3. Typed'
    <3>1. Id' = Id
      BY <2>1 DEF Id
    <3> QED
      BY <2>1, <3>1 DEF IInv, Typed
  <2>4. Rounds' /\ Sampled'
    BY <2>1 DEF IInv, Rounds, Sampled
  <2>5. SenderCreditsKept'
    <3>1. Queued' = Queued
      BY <2>1 DEF Queued
    <3> QED
      BY <2>1, <3>1 DEF IInv, SenderCreditsKept, SenderCredits
  <2> QED
    BY <2>2, <2>3, <2>4, <2>5 DEF IInv, Flow
<1> QED
  BY <1>1, <1>2, <1>3, <1>4, <1>5, <1>6, <1>7 DEF Next

(* The invariant holds, whatever the clock ratio, the traffic, the number  *)
(* of credits per cycle, and whether the design ends the simulation.       *)
THEOREM Invariant == Spec => []IInv
<1>1. Init => IInv
  BY InitKeeps
<1>2. IInv /\ [Next]_vars => IInv'
  BY NextKeeps
<1> QED
  BY <1>1, <1>2, PTL DEF Spec

(* As long as the design reads its credits in time, no other assertion of  *)
(* the bridge fails and the design's credits are right.                    *)
THEOREM RightUntilUnread == Spec => [](CreditsReadEveryCycle => NoAssertionFails /\ SenderCredits)
<1>1. IInv => (CreditsReadEveryCycle => NoAssertionFails /\ SenderCredits)
  BY DEF IInv, Rounds, SenderCreditsKept, CreditsReadEveryCycle, NoAssertionFails
<1> QED
  BY <1>1, Invariant, PTL

(* With one network cycle per clock cycle every credit and every answer is *)
(* read before the next come.                                              *)
LEMMA NextReads ==
  ASSUME InStep
  PROVE  IInv /\ NothingUnread /\ [Next]_vars => NothingUnread'
<1> SUFFICES ASSUME IInv, NothingUnread, [Next]_vars PROVE NothingUnread'
  OBVIOUS
<1> USE DEF NothingUnread
<1>1. ASSUME NEW words \in [Node -> Word \cup {None}], ClockInject(words) PROVE NothingUnread'
  BY <1>1 DEF ClockInject, Serving
<1>2. ASSUME NEW freed \in SUBSET (Node \X VC), ClockReturn(freed) PROVE NothingUnread'
  <2>1. rtlToNoc = {}
    BY <1>2 DEF IInv, Rounds, ClockReturn, Serving
  <2> QED
    BY <1>2, <2>1 DEF ClockReturn, Serving
<1>3. CASE ClockReceive
  BY <1>3 DEF ClockReceive, Serving, InStep
<1>4. CASE ClockStep
  BY <1>4 DEF ClockStep, Serving, interface
<1>5. CASE ClockQuit
  BY <1>5 DEF ClockQuit, InStep
<1>6. CASE Work
  <2>1. failed' = None
    BY <1>6, WorkAsserts DEF Work
  <2> QED
    BY <1>6, <2>1 DEF Work
<1>7. ASSUME NEW moved \in SUBSET Leaving, NEW ejected \in SUBSET Ejectable, Read(moved, ejected) PROVE NothingUnread'
  BY <1>7 DEF Read
<1>8. CASE UNCHANGED vars
  BY <1>8 DEF vars, control, interface
<1> QED
  BY <1>1, <1>2, <1>3, <1>4, <1>5, <1>6, <1>7, <1>8 DEF Next

(* In lock step (CLOCK_SPEEDUP = 1, no end of the simulation). *)
LEMMA InStepReads ==
  ASSUME InStep
  PROVE  Spec => []NothingUnread
<1>1. Init => NothingUnread
  BY DEF Init, NothingUnread
<1>2. IInv /\ NothingUnread /\ [Next]_vars => NothingUnread'
  BY NextReads
<1> QED
  BY <1>1, <1>2, Invariant, PTL DEF Spec

(* In lock step no assertion of the bridge fails. *)
THEOREM InStepAsserts ==
  ASSUME InStep
  PROVE  Spec => []NoAssertionFails
<1>1. NothingUnread => NoAssertionFails
  BY DEF NothingUnread, NoAssertionFails
<1> QED
  BY <1>1, InStepReads, PTL

(* In lock step the design's idea of the room in the network is right. *)
THEOREM InStepCredits ==
  ASSUME InStep
  PROVE  Spec => []SenderCredits
<1>1. IInv /\ NothingUnread => SenderCredits
  BY DEF IInv, NothingUnread, SenderCreditsKept
<1> QED
  BY <1>1, Invariant, InStepReads, PTL

(***************************************************************************)
(* What the bridge promises the design when the two run in step: a flit    *)
(* comes back at the port it is bound for, on the VC it was sent on and    *)
(* one at a time, the credits for it reach the router, and the whole       *)
(* implements the abstract service of NocService.                          *)
(***************************************************************************)
-----------------------------------------------------------------------------
(* The design sends only to ports that an entry of dest_table can name. *)
Reachable == \A t \in Traffic : t[2] < DestTableSize

(* The port a flit is bound for is the one dest_table holds while its      *)
(* packet goes on and the one in its entry of data_set, which it keeps     *)
(* until it has come back.                                                 *)
Destined ==
  /\ \A n \in Node : sending[n] # None => \A i \in Id : sent[i].pid = pId[n] => BoundIn(sent, i) = destTable[n]
  /\ \A e \in dataSet : e.dest = BoundIn(sent, e.fid)
  /\ \A i \in InNetwork \cup InReply : \E e \in dataSet : e.fid = i

(* An answer carries the VC its flit was sent on, and no two are for one   *)
(* port.                                                                   *)
Replies ==
  /\ \A k \in DOMAIN replyBuf : replyBuf[k].vc = sent[replyBuf[k].fid].vc
  /\ \A k, l \in DOMAIN replyBuf : BoundIn(sent, replyBuf[k].fid) = BoundIn(sent, replyBuf[l].fid) => k = l

(* One credit at most waits at a port: as many as _eject_cred can carry.   *)
ReturnedOnce == \A c, e \in rtlToNoc : c[1] = e[1] => c = e

(* The answers for port d on VC v, and the flit that has just come out     *)
(* there.                                                                  *)
Replied(d, v) == {i \in DOMAIN replyBuf : Bound(replyBuf[i].fid) = d /\ replyBuf[i].vc = v}
Ejecting(d, v) == flits[d] # None /\ sent[flits[d]].vc = v

(* A slot the last router counts as occupied is a flit's that is on its    *)
(* way to the design or in its buffers, or a credit's that is on its way   *)
(* back; and it never counts more slots than there are.                    *)
Accounted == \A d \in Node, v \in VC :
  /\ ejOcc[d][v] = One(Ejecting(d, v)) + One(Replied(d, v) # {}) + held[d][v]
                     + One(<<d, v>> \in rtlToNoc) + One(v \in creditSlot[d])
  /\ ejOcc[d][v] <= VcBufSize

Answering == Destined /\ Replies
CreditsBack == ReturnedOnce /\ Accounted

(* The flits on their way, an answer included, and those presented at the  *)
(* port they are bound for.                                                *)
Travelling == InNetwork \cup InReply
Presented == {i \in Id : i \in Range(received[BoundIn(sent, i)])}

(* No flit is lost. *)
Complete == Id \subseteq Travelling \cup Presented

(* A flit is presented where it is bound for, and before those of its      *)
(* stream that are still on their way.                                     *)
Delivered ==
  /\ \A d \in Node : \A i \in Range(received[d]) : BoundIn(sent, i) = d
  /\ Ahead(sent, Presented, Travelling)
Serves == Complete /\ Delivered

-----------------------------------------------------------------------------
(* The port a flit is bound for is what dest_table holds while its packet  *)
(* goes on, and what data_set holds for it.                                *)

(* The flits added are bound for the port their word or dest_table names. *)
AddedBound(words) ==
  \A n \in Active(words) : BoundIn(sent', IdOf(words, n)) = FlitOf(words, n).dest

(* A head flit names its port, any other has its packet's, and dest_table  *)
(* still holds that.                                                       *)
LEMMA InjectAddedBound ==
  ASSUME Typed, Packets, Unfinished, Destined,
         NEW words \in [Node -> Word \cup {None}], ClockInject(words)
  PROVE  AddedBound(words)
<1>1. AddedFlits(words) /\ Injected(words) /\ Packets' /\ sent' \in Seq(Flit)
  BY InjectAdds, InjectEffect, InjectPackets
<1>2. SUFFICES ASSUME NEW n \in Active(words) PROVE BoundIn(sent', IdOf(words, n)) = FlitOf(words, n).dest
  BY DEF AddedBound
<1> DEFINE e == IdOf(words, n)
<1>3. /\ e \in Id' /\ e \in Nat /\ sent'[e] = FlitOf(words, n) /\ \A i \in Id : i < e /\ i \in Id' /\ sent'[i] = sent[i]
  BY <1>1 DEF Injected
<1>4. /\ Id' = 1 .. Len(sent') /\ Len(sent') \in Nat /\ Id = 1 .. Len(sent) /\ Len(sent) \in Nat
  BY <1>1 DEF Id, Typed
<1>5. \A i, j \in Id' : i < j /\ sent'[i].pid = sent'[j].pid => ~sent'[j].head
  BY <1>1 DEF Packets
<1> HIDE DEF e
<1>6. ASSUME NEW j \in 1 .. e, sent'[j].head, sent'[j].pid = sent'[e].pid
      PROVE  BoundIn(sent', e) = sent'[j].dest
  <2>1. \A k \in 1 .. e : k \in Id' /\ k \in Int
    BY <1>3, <1>4
  <2>2. ASSUME NEW k \in 1 .. e, sent'[k].head, sent'[k].pid = sent'[e].pid PROVE k = j
    <3>1. k \in Id' /\ j \in Id' /\ sent'[k].pid = sent'[j].pid /\ k \in Int /\ j \in Int
      BY <1>6, <2>1, <2>2
    <3>2. ~(k < j) /\ ~(j < k)
      BY <1>5, <1>6, <2>2, <3>1
    <3> QED
      BY <3>1, <3>2
  <2> QED
    BY <1>3, <1>6, <2>2, HeadOfPacket
<1>7. CASE words[n].head
  <2>1. e \in 1 .. e
    BY <1>3, <1>4
  <2>2. FlitOf(words, n).head = words[n].head
    BY <1>1 DEF AddedFlits
  <2>3. sent'[e].head
    BY <1>3, <1>7, <2>2
  <2> QED
    BY <1>3, <1>6, <2>1, <2>3 DEF e
<1>8. CASE ~words[n].head
  <2>1. PICK i \in Id : sent[i].pid = FlitOf(words, n).pid
    BY <1>1, <1>8, AddedPids
  <2>2. PICK j \in 1 .. i : sent[j].head /\ sent[j].pid = sent[i].pid
    BY DEF Packets
  <2>3. j \in Id /\ BoundIn(sent, i) = sent[j].dest
    BY <2>2, BoundOf
  <2>4. j \in 1 .. e
    BY <1>3, <1>4, <2>3
  <2>5. BoundIn(sent', e) = sent[j].dest
    BY <1>3, <1>6, <2>1, <2>2, <2>3, <2>4
  <2>6. FlitOf(words, n).pid = pId[n] /\ sending[n] # None /\ FlitOf(words, n).dest = destTable[n] /\ n \in Node
    BY <1>1, <1>2, <1>8 DEF AddedFlits
  <2>7. BoundIn(sent, i) = destTable[n]
    BY <2>1, <2>6 DEF Destined
  <2> QED
    BY <2>3, <2>5, <2>6, <2>7 DEF e
<1> QED
  BY <1>7, <1>8

(* queueFlit notes the port a flit is bound for: the 5 bits of dest_table  *)
(* are enough for it.                                                      *)
LEMMA InjectDestined ==
  ASSUME Reachable, IInv, Destined, NEW words \in [Node -> Word \cup {None}], ClockInject(words)
  PROVE  Destined'
<1>1. /\ Typed /\ Packets /\ Unfinished /\ Streams
      /\ AddedFlits(words) /\ Injected(words) /\ AddedBound(words)
  BY InjectAdds, InjectEffect, InjectAddedBound DEF IInv
<1>2. \A i \in Id : BoundIn(sent', i) = BoundIn(sent, i) /\ i \in Id' /\ sent'[i] = sent[i]
  BY <1>1, InjectBound DEF Injected
<1>3. \A i \in Id' : i \in Id \/ \E m \in Active(words) : /\ i = IdOf(words, m) /\ sent'[i] = FlitOf(words, m)
                                                          /\ BoundIn(sent', i) = FlitOf(words, m).dest
  BY <1>1 DEF Injected, AddedBound
<1>4. /\ pId' = [n \in Node |-> PidOf(words, n)]
      /\ destTable' = [n \in Node |-> IF n \in Heads(words) THEN words[n].dest % DestTableSize ELSE destTable[n]]
      /\ dataSet' = dataSet \cup {[fid |-> IdOf(words, n), dest |-> DestOf(words, n)] : n \in Active(words)}
      /\ sending' = [n \in Node |->
            IF n \notin Active(words) THEN sending[n]
            ELSE IF words[n].tail THEN None
            ELSE IF words[n].head THEN [vc |-> words[n].vc, dest |-> words[n].dest] ELSE sending[n]]
  BY DEF ClockInject, Inject
<1>5. ASSUME NEW n \in Node, sending'[n] # None, NEW i \in Id', sent'[i].pid = pId'[n]
      PROVE  BoundIn(sent', i) = destTable'[n]
  <2>1. CASE n \in Active(words)
    <3>1. pId'[n] = FlitOf(words, n).pid
      BY <1>4 DEF FlitOf
    <3>2. destTable'[n] = FlitOf(words, n).dest
      <4>1. CASE words[n].head
        <5>1. n \in Heads(words) /\ destTable'[n] = words[n].dest % DestTableSize /\ FlitOf(words, n).dest = words[n].dest
          BY <1>1, <1>4, <2>1, <4>1 DEF Heads, AddedFlits
        <5>2. <<n, words[n].dest>> \in Traffic
          BY <1>1, <2>1, <4>1 DEF AddedFlits
        <5>3. words[n].dest < DestTableSize /\ words[n].dest \in Nat /\ DestTableSize \in Nat \ {0}
          BY <5>2, BridgeAssumption DEF Reachable, Node
        <5> QED
          BY <5>1, <5>3
      <4>2. CASE ~words[n].head
        BY <1>1, <1>4, <2>1, <4>2 DEF Heads, AddedFlits
      <4> QED
        BY <4>1, <4>2
    <3>3. CASE i \in Id
      <4>1. ~words[n].head
        BY <1>1, <1>2, <1>5, <2>1, <3>1, <3>3, AddedPids
      <4>2. sending[n] # None /\ FlitOf(words, n).pid = pId[n] /\ FlitOf(words, n).dest = destTable[n]
        BY <1>1, <2>1, <4>1 DEF AddedFlits
      <4> QED
        BY <1>2, <1>5, <3>1, <3>2, <3>3, <4>2 DEF Destined
    <3>4. CASE i \notin Id
      <4>1. PICK m \in Active(words) : sent'[i] = FlitOf(words, m) /\ BoundIn(sent', i) = FlitOf(words, m).dest
        BY <1>3, <3>4
      <4>2. m = n
        BY <1>1, <1>5, <2>1, <3>1, <4>1, AddedPids
      <4> QED
        BY <3>2, <4>1, <4>2
    <3> QED
      BY <3>3, <3>4
  <2>2. CASE n \notin Active(words)
    <3>1. pId'[n] = pId[n] /\ destTable'[n] = destTable[n] /\ sending[n] # None
      BY <1>4, <1>5, <2>2 DEF PidOf, Heads
    <3>2. i \in Id
      <4> SUFFICES ASSUME i \notin Id PROVE FALSE
        OBVIOUS
      <4>1. PICK m \in Active(words) : sent'[i] = FlitOf(words, m)
        BY <1>3
      <4>2. m = n
        BY <1>1, <1>5, <3>1, <4>1, AddedPids
      <4> QED
        BY <2>2, <4>2
    <3> QED
      BY <1>2, <1>5, <3>1, <3>2 DEF Destined
  <2> QED
    BY <2>1, <2>2
<1>6. ASSUME NEW e \in dataSet' PROVE e.dest = BoundIn(sent', e.fid)
  <2>1. CASE e \in dataSet
    BY <1>1, <1>2, <2>1 DEF Destined, Typed
  <2>2. ASSUME NEW n \in Active(words), e = [fid |-> IdOf(words, n), dest |-> DestOf(words, n)]
        PROVE  e.dest = BoundIn(sent', e.fid)
    <3>1. FlitOf(words, n).dest = DestOf(words, n)
      BY DEF FlitOf
    <3> QED
      BY <1>1, <2>2, <3>1 DEF AddedBound
  <2> QED
    BY <1>4, <2>1, <2>2
<1>7. ASSUME NEW i \in InNetwork' \cup InReply' PROVE \E e \in dataSet' : e.fid = i
  <2>1. i \in Id' /\ (i \in InNetwork \cup InReply \/ i \notin Id)
    <3>1. i \in Id'
      BY DEF InNetwork, InQueue, InEntry, InInner, InFlits, InReply
    <3>2. i \in InQueue' => i \in InQueue \/ i \notin Id
      BY <1>1, InjectPlaces
    <3>3. InEntry' = InEntry /\ InInner' = InInner /\ InFlits' = InFlits /\ InReply' = InReply
      BY <1>1, InjectPlaces
    <3> QED
      BY <3>1, <3>2, <3>3 DEF InNetwork
  <2>2. CASE i \in InNetwork \cup InReply
    BY <1>4, <2>2 DEF Destined
  <2>3. CASE i \notin Id
    <3>1. PICK m \in Active(words) : i = IdOf(words, m)
      BY <1>3, <2>1, <2>3
    <3>2. [fid |-> IdOf(words, m), dest |-> DestOf(words, m)] \in dataSet'
      BY <1>4
    <3> QED
      BY <3>1, <3>2
  <2> QED
    BY <2>1, <2>2, <2>3
<1> QED
  BY <1>5, <1>6, <1>7 DEF Destined

(* Destined looks only at what the design has sent and at data_set. *)
LEMMA StillDestined ==
  ASSUME Destined, UNCHANGED <<sent, pId, destTable, sending, dataSet>>,
         InNetwork' \cup InReply' \subseteq InNetwork \cup InReply
  PROVE  Destined'
<1>1. Id' = Id
  BY DEF Id
<1> QED
  BY <1>1 DEF Destined

(* The flits on their way stay on their way. *)
LEMMA SamePlaces ==
  ASSUME UNCHANGED <<sent, partial, requestBuf, entry, inner, flits>>
  PROVE  InNetwork' = InNetwork /\ (replyBuf' = replyBuf => InReply' = InReply)
<1>1. Id' = Id /\ Queued' = Queued
  BY DEF Id, Queued
<1> QED
  BY <1>1 DEF InNetwork, InQueue, InEntry, InInner, InFlits, InReply

(* A flit whose answer has come is no longer on its way, so it keeps its   *)
(* entry in data_set until then.                                           *)
LEMMA ReceiveDestined ==
  ASSUME IInv, Destined, ClockReceive
  PROVE  Destined'
<1>1. /\ UNCHANGED <<sent, pId, destTable, sending, partial, requestBuf, entry, inner, flits>>
      /\ dataSet' = {e \in dataSet : \A i \in DOMAIN replyBuf : replyBuf[i].fid # e.fid}
      /\ replyBuf' = <<>>
  BY DEF ClockReceive, manager, network
<1>2. Id' = Id /\ InNetwork' = InNetwork /\ InReply' = {}
  <2>1. InNetwork' = InNetwork
    BY <1>1, SamePlaces
  <2>2. InReply' = {}
    BY <1>1 DEF InReply
  <2> QED
    BY <1>1, <2>1, <2>2 DEF Id
<1>3. ASSUME NEW i \in InNetwork PROVE \E e \in dataSet' : e.fid = i
  <2>1. PICK e \in dataSet : e.fid = i
    BY DEF Destined
  <2>2. i \in Id /\ i \in Nat
    BY FlitTypes DEF IInv, InNetwork, InQueue, InEntry, InInner, InFlits
  <2>3. i \notin InReply
    <3>1. i \in InReply => i < i
      BY DEF IInv, Order, Ahead
    <3> QED
      BY <2>2, <3>1
  <2>4. \A k \in DOMAIN replyBuf : replyBuf[k].fid # i
    BY <2>2, <2>3 DEF InReply
  <2> QED
    BY <1>1, <2>1, <2>4
<1> QED
  BY <1>1, <1>2, <1>3 DEF Destined

(* _Step moves flits on, and answers for those read. *)
LEMMA WorkDestined ==
  ASSUME IInv, Destined, Work
  PROVE  Destined'
<1>1. Typed /\ Streams /\ Packets /\ Entered /\ PacketVcs
  BY DEF IInv
<1>2. UNCHANGED <<sent, pId, destTable, sending, dataSet>>
  BY <1>1, WorkAdvances
<1>3. \A n \in Entering : Head(Queued[n]) \in InQueue
  <2> TAKE n \in Entering
  <2>1. n \in Node /\ Queued[n] # <<>>
    BY DEF Entering
  <2> QED
    BY <1>1, <2>1, FrontOfQueue DEF Front
<1>4. InNetwork' \cup InReply' \subseteq InNetwork \cup InReply
  BY <1>1, <1>3, WorkPlaces DEF InNetwork
<1> QED
  BY <1>2, <1>4, StillDestined

(* The network moves flits on. *)
LEMMA ReadDestined ==
  ASSUME IInv, Destined, NEW moved, NEW ejected, Read(moved, ejected)
  PROVE  Destined'
<1>1. UNCHANGED <<sent, pId, destTable, sending, dataSet>>
  BY DEF Read, design, wrapper
<1>2. InNetwork' \cup InReply' \subseteq InNetwork \cup InReply
  BY ReadPlaces DEF IInv
<1> QED
  BY <1>1, <1>2, StillDestined

-----------------------------------------------------------------------------
(* The answers of one network cycle, and what the ejection ports count.    *)

(* One counts a set that cannot have two elements. *)
LEMMA AtMostOne ==
  ASSUME NEW S, \A x, y \in S : x = y
  PROVE  Cardinality(S) = One(S # {})
<1>1. CASE S = {}
  BY <1>1, FS_EmptySet DEF One
<1>2. ASSUME NEW x \in S PROVE Cardinality(S) = 1
  <2>1. S = {x}
    BY <1>2
  <2> QED
    BY <2>1, FS_Singleton
<1> QED
  BY <1>1, <1>2 DEF One

(* There is one answer at most for a port and VC. *)
LEMMA RepliedOnce ==
  ASSUME Replies, NEW d, NEW v
  PROVE  Cardinality(Replied(d, v)) = One(Replied(d, v) # {})
<1>1. \A k, l \in Replied(d, v) : k = l
  BY DEF Replies, Replied, Bound
<1> QED
  BY <1>1, AtMostOne

(* Flits that are added change nothing on the way out. *)
LEMMA InjectEjects ==
  ASSUME IInv, NEW words \in [Node -> Word \cup {None}], ClockInject(words)
  PROVE  (Replies => Replies') /\ (CreditsBack => CreditsBack')
<1>1. Typed /\ Packets /\ Injected(words)
  BY InjectEffect DEF IInv
<1>2. /\ UNCHANGED <<held, replyBuf, rtlToNoc, flits, ejOcc, creditSlot>>
  BY DEF ClockInject, manager, network
<1>3. \A i \in Id : BoundIn(sent', i) = BoundIn(sent, i) /\ i \in Id' /\ sent'[i] = sent[i]
  BY <1>1, InjectBound DEF Injected
<1>4. /\ \A k \in DOMAIN replyBuf : replyBuf[k].fid \in Id
      /\ \A d \in Node : flits[d] # None => flits[d] \in Id
  BY <1>1 DEF Typed
<1>5. \A d \in Node, v \in VC : Replied(d, v)' = Replied(d, v) /\ (Ejecting(d, v)' <=> Ejecting(d, v))
  BY <1>2, <1>3, <1>4 DEF Replied, Ejecting, Bound
<1>6. Replies => Replies'
  BY <1>2, <1>3, <1>4 DEF Replies
<1>7. CreditsBack => CreditsBack'
  <2>1. \A d \in Node, v \in VC : One(Ejecting(d, v)') = One(Ejecting(d, v)) /\ Replied(d, v)' = Replied(d, v)
    BY <1>5 DEF One
  <2> QED
    BY <1>2, <2>1 DEF CreditsBack, ReturnedOnce, Accounted
<1> QED
  BY <1>6, <1>7

(* The rest of what matters here to a step that leaves sent alone. *)
LEMMA SameReplies ==
  ASSUME UNCHANGED <<sent, replyBuf, flits>>
  PROVE  /\ \A d, v : Replied(d, v)' = Replied(d, v) /\ (Ejecting(d, v)' <=> Ejecting(d, v))
         /\ Replies => Replies'
BY DEF Replied, Ejecting, Bound, Replies

(* The design returns a slot that it has freed. *)
LEMMA ReturnEjects ==
  ASSUME CreditWidth = 1, IInv, CreditsBack, NEW freed \in SUBSET (Node \X VC), ClockReturn(freed)
  PROVE  CreditsBack'
<1>1. /\ UNCHANGED <<sent, pId, destTable, sending, dataSet, replyBuf, partial, requestBuf>>
      /\ UNCHANGED <<entry, inner, flits, ejOcc, creditSlot>>
      /\ rtlToNoc' = rtlToNoc \cup freed
      /\ held' = [n \in Node |-> [v \in VC |-> IF <<n, v>> \in freed THEN held[n][v] - 1 ELSE held[n][v]]]
      /\ \A n \in Node : Cardinality({c \in freed : c[1] = n}) <= CreditWidth
  BY DEF ClockReturn, wrapper, manager, network
<1>2. rtlToNoc = {} /\ held \in [Node -> [VC -> Nat]]
  BY DEF IInv, Typed, Rounds, ClockReturn, Serving
<1>4. \A d \in Node, v \in VC : Replied(d, v)' = Replied(d, v) /\ (Ejecting(d, v)' <=> Ejecting(d, v))
  BY <1>1, SameReplies
<1>5. ReturnedOnce'
  <2> SUFFICES ASSUME NEW c \in freed, NEW e \in freed, c[1] = e[1], c # e PROVE FALSE
    BY <1>1, <1>2 DEF ReturnedOnce
  <2> DEFINE S == {x \in freed : x[1] = c[1]}
  <2>1. IsFiniteSet(S)
    <3>1. IsFiniteSet(Node) /\ IsFiniteSet(VC)
      BY FS_Interval, BridgeAssumption DEF Node, VC
    <3>2. IsFiniteSet(Node \X VC)
      BY <3>1, FS_Product
    <3>3. S \subseteq Node \X VC
      OBVIOUS
    <3> QED
      BY <3>2, <3>3, FS_Subset
  <2>2. c \in S /\ e \in S /\ c[1] \in Node
    OBVIOUS
  <2>3. {c, e} \subseteq S /\ Cardinality({c, e}) = 2
    <3> DEFINE T == {c}
    <3>1. IsFiniteSet(T) /\ Cardinality(T) = 1 /\ e \notin T /\ T \cup {e} = {c, e}
      BY FS_Singleton
    <3>2. Cardinality(T \cup {e}) = 2
      <4> HIDE DEF T
      <4> QED
        <5>1. Cardinality(T \cup {e}) = IF e \in T THEN Cardinality(T) ELSE Cardinality(T) + 1
          BY <3>1, FS_AddElement
        <5> QED
          BY <3>1, <5>1
    <3> QED
      BY <2>2, <3>1, <3>2
  <2>4. Cardinality(S) >= 2 /\ Cardinality(S) \in Nat
    BY <2>1, <2>3, FS_Subset, FS_CardinalityType
  <2>5. Cardinality(S) <= 1
    BY <1>1, <2>2
  <2> QED
    BY <2>4, <2>5
<1>6. ASSUME NEW d \in Node, NEW v \in VC
      PROVE  held'[d][v] + One(<<d, v>> \in rtlToNoc') = held[d][v] + One(<<d, v>> \in rtlToNoc)
  BY <1>1, <1>2 DEF One
<1>7. Accounted'
  <2> SUFFICES ASSUME NEW d \in Node, NEW v \in VC
               PROVE  /\ ejOcc'[d][v] = One(Ejecting(d, v)') + One(Replied(d, v)' # {}) + held'[d][v]
                                         + One(<<d, v>> \in rtlToNoc') + One(v \in creditSlot'[d])
                      /\ ejOcc'[d][v] <= VcBufSize
    BY DEF Accounted
  <2>1. /\ ejOcc[d][v] = One(Ejecting(d, v)) + One(Replied(d, v) # {}) + held[d][v]
                         + One(<<d, v>> \in rtlToNoc) + One(v \in creditSlot[d])
        /\ ejOcc[d][v] <= VcBufSize
    BY DEF CreditsBack, Accounted
  <2>2. held'[d][v] \in Int /\ held[d][v] \in Int
    BY <1>1, <1>2
  <2>3. \A b \in BOOLEAN : One(b) \in Int
    BY DEF One
  <2>4. /\ One(Ejecting(d, v)) \in Int /\ One(Replied(d, v) # {}) \in Int /\ One(<<d, v>> \in rtlToNoc) \in Int
        /\ One(v \in creditSlot[d]) \in Int /\ One(<<d, v>> \in rtlToNoc') \in Int
    BY DEF One
  <2>5. /\ One(Ejecting(d, v)') = One(Ejecting(d, v)) /\ Replied(d, v)' = Replied(d, v)
        /\ creditSlot' = creditSlot /\ ejOcc' = ejOcc
    BY <1>1, <1>4 DEF One
  <2>6. held'[d][v] + One(<<d, v>> \in rtlToNoc') = held[d][v] + One(<<d, v>> \in rtlToNoc)
    BY <1>6
  <2> QED
    BY <2>1, <2>2, <2>4, <2>5, <2>6
<1> QED
  BY <1>5, <1>7 DEF CreditsBack

(* A flit that comes back is presented at the port it is bound for; as at  *)
(* most one flit comes back for a port, none is overwritten.               *)
(* The answers for port d, as ClockReceive finds them through data_set. *)
Answers(d) == {k \in DOMAIN replyBuf : PortOf(replyBuf[k]) = d}
LEMMA AnswersOf ==
  ASSUME Typed, Destined, Replies, NEW d \in Node
  PROVE  /\ Answers(d) = {k \in DOMAIN replyBuf : BoundIn(sent, replyBuf[k].fid) = d}
         /\ Answers(d) # {} => Max(Answers(d)) \in Answers(d)
         /\ \A k, l \in Answers(d) : k = l
<1>1. ASSUME NEW k \in DOMAIN replyBuf PROVE PortOf(replyBuf[k]) = BoundIn(sent, replyBuf[k].fid)
  <2>1. replyBuf[k].fid \in InReply
    BY DEF Typed, InReply
  <2>2. \E e \in dataSet : e.fid = replyBuf[k].fid
    BY <2>1 DEF Destined
  <2>3. \A e \in dataSet : e.fid = replyBuf[k].fid => e.dest = BoundIn(sent, replyBuf[k].fid)
    BY DEF Destined
  <2> QED
    BY <2>2, <2>3 DEF PortOf
<1>2. Answers(d) = {k \in DOMAIN replyBuf : BoundIn(sent, replyBuf[k].fid) = d}
  BY <1>1 DEF Answers
<1>3. \A k, l \in Answers(d) : k = l
  BY <1>2 DEF Replies
<1>4. ASSUME NEW k \in Answers(d) PROVE Max(Answers(d)) \in Answers(d)
  <2>1. Answers(d) = {k}
    BY <1>3
  <2>2. k \in Int
    BY DEF Answers, Typed
  <2>3. IsFiniteSet(Answers(d)) /\ Answers(d) \subseteq Int /\ Answers(d) # {}
    BY <2>1, <2>2, FS_Singleton
  <2> QED
    BY <2>3, MaxOf
<1> QED
  BY <1>2, <1>3, <1>4

(* A flit that is presented takes a slot of the design's buffers. *)
LEMMA ReceiveEjects ==
  ASSUME IInv, Answering, CreditsBack, ClockReceive
  PROVE  CreditsBack'
<1>1. /\ UNCHANGED <<sent, flits, ejOcc, creditSlot, rtlToNoc>> /\ replyBuf' = <<>>
      /\ held' = [n \in Node |-> [v \in VC |->
            IF Answers(n) # {} /\ replyBuf[Max(Answers(n))].vc = v THEN held[n][v] + 1 ELSE held[n][v]]]
  BY DEF ClockReceive, manager, network, Answers
<1>2. Typed /\ Destined /\ Replies /\ ReturnedOnce /\ Accounted /\ held \in [Node -> [VC -> Nat]]
  BY DEF IInv, Answering, CreditsBack, Typed
<1>3. ASSUME NEW d \in Node, NEW v \in VC
      PROVE  held'[d][v] = held[d][v] + One(Replied(d, v) # {})
  <2>1. CASE Answers(d) = {}
    <3>1. Replied(d, v) = {}
      BY <1>2, <2>1, AnswersOf DEF Replied, Bound
    <3> QED
      BY <1>1, <1>2, <2>1, <3>1 DEF One
  <2>2. CASE Answers(d) # {}
    <3> DEFINE m == Max(Answers(d))
    <3>1. /\ m \in DOMAIN replyBuf /\ BoundIn(sent, replyBuf[m].fid) = d
          /\ \A k \in DOMAIN replyBuf : BoundIn(sent, replyBuf[k].fid) = d => k = m
      BY <1>2, <2>2, AnswersOf
    <3> HIDE DEF m
    <3>2. Replied(d, v) # {} <=> replyBuf[m].vc = v
      BY <3>1 DEF Replied, Bound
    <3>3. held'[d][v] = IF replyBuf[m].vc = v THEN held[d][v] + 1 ELSE held[d][v]
      BY <1>1, <2>2 DEF m
    <3> QED
      BY <1>2, <3>2, <3>3 DEF One
  <2> QED
    BY <2>1, <2>2
<1>4. ReturnedOnce' /\ \A d, v : Replied(d, v)' = {} /\ (Ejecting(d, v)' <=> Ejecting(d, v))
  BY <1>1, <1>2 DEF ReturnedOnce, Replied, Ejecting
<1>5. Accounted'
  <2> SUFFICES ASSUME NEW d \in Node, NEW v \in VC
               PROVE  /\ ejOcc'[d][v] = One(Ejecting(d, v)') + One(Replied(d, v)' # {}) + held'[d][v]
                                         + One(<<d, v>> \in rtlToNoc') + One(v \in creditSlot'[d])
                      /\ ejOcc'[d][v] <= VcBufSize
    BY DEF Accounted
  <2>1. /\ ejOcc[d][v] = One(Ejecting(d, v)) + One(Replied(d, v) # {}) + held[d][v]
                         + One(<<d, v>> \in rtlToNoc) + One(v \in creditSlot[d])
        /\ ejOcc[d][v] <= VcBufSize
    BY <1>2 DEF Accounted
  <2>2. /\ One(Ejecting(d, v)) \in Int /\ One(Replied(d, v) # {}) \in Int /\ One(<<d, v>> \in rtlToNoc) \in Int
        /\ One(v \in creditSlot[d]) \in Int /\ held[d][v] \in Int
    BY <1>2 DEF One
  <2>3. /\ One(Ejecting(d, v)') = One(Ejecting(d, v)) /\ One(Replied(d, v)' # {}) = 0
        /\ creditSlot' = creditSlot /\ ejOcc' = ejOcc /\ rtlToNoc' = rtlToNoc
    BY <1>1, <1>4 DEF One
  <2>4. held'[d][v] = held[d][v] + One(Replied(d, v) # {})
    BY <1>3
  <2> QED
    BY <2>1, <2>2, <2>3, <2>4
<1> QED
  BY <1>4, <1>5 DEF CreditsBack

(* A step that touches neither the flits nor the credits of the way out. *)
LEMMA StillEjects ==
  ASSUME UNCHANGED <<sent, replyBuf, flits, ejOcc, creditSlot, rtlToNoc, held>>
  PROVE  CreditsBack => CreditsBack'
<1>2. \A d, v : Replied(d, v)' = Replied(d, v) /\ (Ejecting(d, v)' <=> Ejecting(d, v))
  BY SameReplies
<1>3. \A d \in Node, v \in VC : One(Ejecting(d, v)') = One(Ejecting(d, v)) /\ Replied(d, v)' = Replied(d, v)
  BY <1>2 DEF One
<1> QED
  BY <1>2, <1>3 DEF CreditsBack, ReturnedOnce, Accounted

(* _RetireFlit answers with the VC the packet was sent on, and at most one *)
(* flit of each port; the credits written are those the design returned.   *)
LEMMA WorkEjects ==
  ASSUME IInv, NothingUnread, Work
  PROVE  Replies' /\ (CreditsBack => CreditsBack')
<1>1. /\ Typed /\ Packets /\ PacketVcs /\ Order /\ Rounds
      /\ Answered
  BY WorkAnswers DEF IInv
<1>2. /\ UNCHANGED <<sent, held, ejOcc>> /\ phase = "work" /\ rtlToNoc' = {} /\ flits' = PerNode(None)
  BY <1>1, WorkAdvances
<1>3. replyBuf = <<>> /\ creditSlot = PerNode({})
  BY <1>1, <1>2 DEF NothingUnread, Rounds
<1>4. \A k \in DOMAIN replyBuf' : \E n \in Retiring : k = Place(Retiring, n) /\ replyBuf'[k] = Reply(n)
  <2> TAKE k \in DOMAIN replyBuf'
  <2>1. k \notin DOMAIN replyBuf /\ Len(replyBuf) = 0
    BY <1>3
  <2>2. PICK n \in Retiring : k = Len(replyBuf) + Place(Retiring, n) /\ replyBuf'[k] = Reply(n)
    BY <1>1, <2>1 DEF Answered
  <2>3. Retiring \in SUBSET Node
    BY DEF Retiring
  <2>5. Place(Retiring, n) \in 1 .. Cardinality(Retiring)
    BY <2>3, AscendingVisits
  <2>4. Place(Retiring, n) \in Int
    BY <2>5
  <2> QED
    BY <2>1, <2>2, <2>4
<1>5. ASSUME NEW n \in Retiring
      PROVE  /\ n \in Node /\ flits[n] # None /\ flits[n] \in Id /\ BoundIn(sent, flits[n]) = n
             /\ Reply(n).fid = flits[n] /\ Reply(n).vc = sent[flits[n]].vc
  <2>1. n \in Node /\ flits[n] # None /\ flits[n] \in Id /\ BoundIn(sent, flits[n]) = n /\ flits[n] \in InFlits
    BY <1>1 DEF Retiring, Typed, Order, InFlits
  <2>2. sent[flits[n]].pid \in DOMAIN packetVc
    BY <1>1, <2>1 DEF PacketVcs
  <2>3. PICK i \in Id : sent[i].pid = sent[flits[n]].pid /\ sent[i].vc = packetVc[sent[flits[n]].pid]
    BY <1>1, <2>2 DEF PacketVcs
  <2>4. sent[i].vc = sent[flits[n]].vc
    BY <1>1, <2>1, <2>3, SamePacket
  <2> QED
    BY <2>1, <2>3, <2>4 DEF Reply
<1>6. Replies'
  <2>1. \A k \in DOMAIN replyBuf' : replyBuf'[k].vc = sent[replyBuf'[k].fid].vc
    BY <1>4, <1>5
  <2>2. ASSUME NEW k \in DOMAIN replyBuf', NEW l \in DOMAIN replyBuf',
               BoundIn(sent, replyBuf'[k].fid) = BoundIn(sent, replyBuf'[l].fid)
        PROVE  k = l
    BY <1>4, <1>5, <2>2
  <2> QED
    BY <1>2, <2>1, <2>2 DEF Replies
<1>7. ASSUME NEW d \in Node, NEW v \in VC PROVE Replied(d, v)' # {} <=> Ejecting(d, v)
  <2>1. ASSUME NEW k \in Replied(d, v)' PROVE Ejecting(d, v)
    <3>1. k \in DOMAIN replyBuf' /\ BoundIn(sent, replyBuf'[k].fid) = d /\ replyBuf'[k].vc = v
      BY <1>2 DEF Replied, Bound
    <3>2. PICK n \in Retiring : replyBuf'[k] = Reply(n)
      BY <1>4, <3>1
    <3> QED
      BY <1>5, <3>1, <3>2 DEF Ejecting
  <2>2. ASSUME Ejecting(d, v) PROVE Replied(d, v)' # {}
    <3>1. d \in Retiring
      BY <2>2 DEF Retiring, Ejecting
    <3>2. PICK k \in DOMAIN replyBuf' : replyBuf'[k] = Reply(d)
      BY <1>1, <3>1 DEF Answered
    <3>3. BoundIn(sent, replyBuf'[k].fid) = d /\ replyBuf'[k].vc = v
      BY <1>5, <2>2, <3>1, <3>2 DEF Ejecting
    <3> QED
      BY <1>2, <3>3 DEF Replied, Bound
  <2> QED
    BY <2>1, <2>2
<1>8. ASSUME ReturnedOnce, NEW d \in Node, NEW v \in VC PROVE v \in creditSlot'[d] <=> <<d, v>> \in rtlToNoc
  <2>1. creditSlot'[d] = IF Returned(d) = {} THEN creditSlot[d] ELSE {Max(Returned(d))}
    BY DEF Work
  <2>2. creditSlot[d] = {}
    BY <1>3 DEF PerNode
  <2>3. v \in Returned(d) <=> <<d, v>> \in rtlToNoc
    BY DEF Returned
  <2>4. ASSUME NEW x \in Returned(d) PROVE Max(Returned(d)) = x /\ Returned(d) = {x}
    <3>1. \A y \in Returned(d) : y = x
      <4> TAKE y \in Returned(d)
      <4>1. <<d, x>> = <<d, y>>
        BY <1>8 DEF Returned, ReturnedOnce
      <4> QED
        BY <4>1
    <3>2. Returned(d) = {x} /\ x \in Int
      BY <3>1 DEF Returned, VC
    <3>3. IsFiniteSet(Returned(d)) /\ Returned(d) \subseteq Int /\ Returned(d) # {}
      BY <3>2, FS_Singleton
    <3>4. Max(Returned(d)) \in Returned(d)
      BY <3>3, MaxOf
    <3> QED
      BY <3>2, <3>4
  <2> QED
    BY <2>1, <2>2, <2>3, <2>4
<1>9. ReturnedOnce'
  BY <1>2 DEF ReturnedOnce
<1>10. ASSUME CreditsBack PROVE Accounted'
  <2> SUFFICES ASSUME NEW d \in Node, NEW v \in VC
               PROVE  /\ ejOcc'[d][v] = One(Ejecting(d, v)') + One(Replied(d, v)' # {}) + held'[d][v]
                                         + One(<<d, v>> \in rtlToNoc') + One(v \in creditSlot'[d])
                      /\ ejOcc'[d][v] <= VcBufSize
    BY DEF Accounted
  <2>1. /\ ejOcc[d][v] = One(Ejecting(d, v)) + One(Replied(d, v) # {}) + held[d][v]
                         + One(<<d, v>> \in rtlToNoc) + One(v \in creditSlot[d])
        /\ ejOcc[d][v] <= VcBufSize
    BY <1>10 DEF CreditsBack, Accounted
  <2>2. One(Replied(d, v) # {}) = 0 /\ One(v \in creditSlot[d]) = 0
    BY <1>3 DEF One, Replied, PerNode
  <2>3. ~Ejecting(d, v)'
    BY <1>2 DEF Ejecting, PerNode
  <2>4. /\ One(Ejecting(d, v)') = 0 /\ One(Replied(d, v)' # {}) = One(Ejecting(d, v))
        /\ One(<<d, v>> \in rtlToNoc') = 0 /\ One(v \in creditSlot'[d]) = One(<<d, v>> \in rtlToNoc)
        /\ ejOcc' = ejOcc /\ held' = held
    BY <1>2, <1>7, <1>8, <1>10, <2>3 DEF CreditsBack, One
  <2>5. One(Ejecting(d, v)) \in Int /\ One(<<d, v>> \in rtlToNoc) \in Int /\ held[d][v] \in Int
    BY <1>1 DEF One, Typed
  <2>6. ejOcc[d][v] = One(Ejecting(d, v)) + held[d][v] + One(<<d, v>> \in rtlToNoc)
    BY <2>1, <2>2, <2>5
  <2>7. ejOcc'[d][v] = ejOcc[d][v] /\ held'[d][v] = held[d][v]
    BY <2>4
  <2>8. ejOcc'[d][v] <= VcBufSize
    BY <2>1, <2>7
  <2>9. ejOcc'[d][v] = One(Ejecting(d, v)') + One(Replied(d, v)' # {}) + held'[d][v]
                        + One(<<d, v>> \in rtlToNoc') + One(v \in creditSlot'[d])
    BY <2>4, <2>5, <2>6, <2>7
  <2> QED
    BY <2>8, <2>9
<1> QED
  BY <1>6, <1>9, <1>10 DEF CreditsBack

(* A flit comes out only where the last router counts a free slot. *)
LEMMA ReadsEjected ==
  ASSUME IInv, CreditsBack, NEW moved, NEW ejected, Read(moved, ejected)
  PROVE  CreditsBack'
<1>1. /\ Typed /\ Streams /\ Packets /\ Rounds /\ Accounted /\ ReturnedOnce /\ Ejected(ejected)
  BY ReadEjects DEF IInv, CreditsBack
<1>2. /\ UNCHANGED <<sent, held, replyBuf, rtlToNoc>> /\ phase = "read" /\ creditSlot' = PerNode({})
      /\ ejOcc' = [d \in Node |-> [v \in VC |->
            ejOcc[d][v] + One(Got(ejected, d, v) # {}) - One(v \in creditSlot[d])]]
  BY DEF Read, design, interface, wrapper
<1>3. flits = PerNode(None)
  BY <1>1, <1>2 DEF Rounds
<1>4. ReturnedOnce' /\ \A d, v : Replied(d, v)' = Replied(d, v)
  BY <1>2 DEF CreditsBack, ReturnedOnce, Replied, Bound
<1>5. ASSUME NEW d \in Node, NEW v \in VC
      PROVE  /\ Got(ejected, d, v) # {} <=> Ejecting(d, v)'
             /\ Got(ejected, d, v) # {} => ejOcc[d][v] < VcBufSize
  <2>1. ASSUME NEW c \in Got(ejected, d, v) PROVE Ejecting(d, v)' /\ ejOcc[d][v] < VcBufSize
    <3>1. c \in ejected /\ BoundIn(sent, At(c)) = d /\ c[2] = v
      BY DEF Got, Out, Bound
    <3>2. At(c) \in Id /\ flits'[d] = At(c) /\ sent[At(c)].vc = v /\ ejOcc[d][v] < VcBufSize
      BY <1>1, <3>1 DEF Ejected, InInner
    <3>3. At(c) # None
      BY <1>1, <3>2, FlitTypes, NoneAssumption
    <3> QED
      BY <1>2, <3>2, <3>3 DEF Ejecting
  <2>2. ASSUME Ejecting(d, v)' PROVE Got(ejected, d, v) # {}
    <3>1. flits'[d] # None /\ sent[flits'[d]].vc = v
      BY <1>2, <2>2 DEF Ejecting
    <3>2. PICK c \in ejected : flits'[d] = At(c) /\ BoundIn(sent, At(c)) = d
      BY <1>1, <3>1 DEF Ejected
    <3>3. c[2] = v
      BY <1>1, <3>1, <3>2 DEF Ejected
    <3> QED
      BY <3>2, <3>3 DEF Got, Out, Bound
  <2> QED
    BY <2>1, <2>2
<1>6. Accounted'
  <2> SUFFICES ASSUME NEW d \in Node, NEW v \in VC
               PROVE  /\ ejOcc'[d][v] = One(Ejecting(d, v)') + One(Replied(d, v)' # {}) + held'[d][v]
                                         + One(<<d, v>> \in rtlToNoc') + One(v \in creditSlot'[d])
                      /\ ejOcc'[d][v] <= VcBufSize
    BY DEF Accounted
  <2>1. /\ ejOcc[d][v] = One(Ejecting(d, v)) + One(Replied(d, v) # {}) + held[d][v]
                         + One(<<d, v>> \in rtlToNoc) + One(v \in creditSlot[d])
        /\ ejOcc[d][v] <= VcBufSize
    BY <1>1 DEF Accounted
  <2>7. ejOcc[d][v] \in Int /\ VcBufSize \in Int
    BY <1>1, BridgeAssumption DEF Typed
  <2>2. ~Ejecting(d, v)
    BY <1>3 DEF Ejecting, PerNode
  <2>3. /\ One(Ejecting(d, v)) = 0 /\ One(v \in creditSlot'[d]) = 0
        /\ One(Ejecting(d, v)') = One(Got(ejected, d, v) # {})
        /\ Replied(d, v)' = Replied(d, v) /\ held' = held /\ rtlToNoc' = rtlToNoc
    BY <1>2, <1>4, <1>5, <2>2 DEF One, PerNode
  <2>4. ejOcc'[d][v] = ejOcc[d][v] + One(Got(ejected, d, v) # {}) - One(v \in creditSlot[d])
    BY <1>2
  <2>5. /\ One(<<d, v>> \in rtlToNoc) \in Int /\ held[d][v] \in Int /\ One(Replied(d, v) # {}) \in Int
        /\ One(v \in creditSlot[d]) \in {0, 1} /\ One(Got(ejected, d, v) # {}) \in {0, 1}
    BY <1>1 DEF One, Typed
  <2>6. ejOcc[d][v] + One(Got(ejected, d, v) # {}) <= VcBufSize
    BY <1>5, <2>1, <2>7 DEF One
  <2> QED
    BY <2>1, <2>3, <2>4, <2>5, <2>6, <2>7
<1> QED
  BY <1>1, <1>4, <1>6 DEF CreditsBack

(* Nothing has happened yet. *)
LEMMA InitEjects ==
  ASSUME Init
  PROVE  Answering /\ CreditsBack
<1>1. /\ sent = <<>> /\ Id = {} /\ sending = PerNode(None) /\ dataSet = {} /\ replyBuf = <<>>
      /\ flits = PerNode(None) /\ ejOcc = PerVC(0) /\ held = PerVC(0) /\ rtlToNoc = {} /\ creditSlot = PerNode({})
  BY DEF Init, Id
<1>2. Destined
  BY <1>1 DEF Destined, InNetwork, InQueue, InEntry, InInner, InFlits, InReply, PerNode
<1>3. Replies /\ ReturnedOnce
  BY <1>1 DEF Replies, ReturnedOnce
<1>4. Accounted
  <2> SUFFICES ASSUME NEW d \in Node, NEW v \in VC
               PROVE  /\ ejOcc[d][v] = One(Ejecting(d, v)) + One(Replied(d, v) # {}) + held[d][v]
                                        + One(<<d, v>> \in rtlToNoc) + One(v \in creditSlot[d])
                      /\ ejOcc[d][v] <= VcBufSize
    BY DEF Accounted
  <2>1. ~Ejecting(d, v) /\ Replied(d, v) = {} /\ <<d, v>> \notin rtlToNoc /\ v \notin creditSlot[d]
    BY <1>1 DEF Ejecting, Replied, PerNode
  <2>2. ejOcc[d][v] = 0 /\ held[d][v] = 0 /\ VcBufSize \in Nat
    BY <1>1, BridgeAssumption DEF PerVC
  <2> QED
    BY <2>1, <2>2 DEF One
<1> QED
  BY <1>2, <1>3, <1>4 DEF Answering, CreditsBack

(* Every step keeps what Answering says. *)
LEMMA NextAnswers ==
  ASSUME Reachable
  PROVE  IInv /\ NothingUnread /\ Answering /\ [Next]_vars => Answering'
<1> SUFFICES ASSUME IInv, NothingUnread, Destined, Replies, [Next]_vars PROVE Destined' /\ Replies'
  BY DEF Answering
<1>1. ASSUME NEW words \in [Node -> Word \cup {None}], ClockInject(words) PROVE Destined' /\ Replies'
  BY <1>1, InjectDestined, InjectEjects
<1>2. CASE ClockReceive
  <2>1. replyBuf' = <<>>
    BY <1>2 DEF ClockReceive
  <2> QED
    BY <1>2, <2>1, ReceiveDestined DEF Replies
<1>3. CASE \/ \E freed \in SUBSET (Node \X VC) : ClockReturn(freed)
           \/ ClockStep \/ ClockQuit \/ UNCHANGED vars
  <2>1. /\ UNCHANGED <<sent, pId, destTable, sending, dataSet, replyBuf>>
        /\ UNCHANGED <<partial, requestBuf, entry, inner, flits>>
    BY <1>3 DEF ClockReturn, ClockStep, ClockQuit, vars, design, wrapper, interface, manager, network
  <2>2. Destined'
    BY <2>1, SamePlaces, StillDestined
  <2> QED
    BY <2>1, <2>2 DEF Replies
<1>4. CASE Work
  BY <1>4, WorkDestined, WorkEjects
<1>5. ASSUME NEW moved \in SUBSET Leaving, NEW ejected \in SUBSET Ejectable, Read(moved, ejected)
      PROVE  Destined' /\ Replies'
  <2>1. UNCHANGED <<sent, replyBuf>>
    BY <1>5 DEF Read, wrapper, interface
  <2>2. Replies'
    BY <2>1 DEF Replies
  <2> QED
    BY <1>5, <2>2, ReadDestined
<1> QED
  BY <1>1, <1>2, <1>3, <1>4, <1>5 DEF Next

(* In lock step, with a port that exists for every flit. *)
LEMMA InStepAnswers ==
  ASSUME InStep, Reachable
  PROVE  Spec => []Answering
<1>1. Init => Answering
  BY InitEjects
<1>2. IInv /\ NothingUnread /\ Answering /\ [Next]_vars => Answering'
  BY NextAnswers
<1> QED
  BY <1>1, <1>2, Invariant, InStepReads, PTL DEF Spec

(* Every step keeps the credits of the way out accounted for. *)
LEMMA NextEjects ==
  ASSUME CreditWidth = 1
  PROVE  IInv /\ NothingUnread /\ Answering /\ CreditsBack /\ [Next]_vars => CreditsBack'
<1> SUFFICES ASSUME IInv, NothingUnread, Answering, CreditsBack, [Next]_vars PROVE CreditsBack'
  OBVIOUS
<1>1. ASSUME NEW words \in [Node -> Word \cup {None}], ClockInject(words) PROVE CreditsBack'
  BY <1>1, InjectEjects
<1>2. ASSUME NEW freed \in SUBSET (Node \X VC), ClockReturn(freed) PROVE CreditsBack'
  BY <1>2, ReturnEjects
<1>3. CASE ClockReceive
  BY <1>3, ReceiveEjects
<1>4. CASE ClockStep \/ ClockQuit \/ UNCHANGED vars
  <2>1. UNCHANGED <<sent, replyBuf, flits, ejOcc, creditSlot, rtlToNoc, held>>
    BY <1>4 DEF ClockStep, ClockQuit, vars, design, wrapper, interface, manager, network
  <2> QED
    BY <2>1, StillEjects
<1>5. CASE Work
  BY <1>5, WorkEjects
<1>6. ASSUME NEW moved \in SUBSET Leaving, NEW ejected \in SUBSET Ejectable, Read(moved, ejected) PROVE CreditsBack'
  BY <1>6, ReadsEjected
<1> QED
  BY <1>1, <1>2, <1>3, <1>4, <1>5, <1>6 DEF Next

(* With one credit per port and clock cycle besides. *)
LEMMA InStepEjects ==
  ASSUME InStep, CreditWidth = 1, Reachable
  PROVE  Spec => []CreditsBack
<1>1. Init => CreditsBack
  BY InitEjects
<1>2. IInv /\ NothingUnread /\ Answering /\ CreditsBack /\ [Next]_vars => CreditsBack'
  BY NextEjects
<1> QED
  BY <1>1, <1>2, Invariant, InStepReads, InStepAnswers, PTL DEF Spec

(* Every credit the design returns reaches the router, in lock step and    *)
(* with one credit per port and clock cycle; MCBridgeCredits shows what    *)
(* happens to the second of two.                                           *)
THEOREM InStepEjectCredits ==
  ASSUME InStep, CreditWidth = 1, Reachable
  PROVE  Spec => []EjectCredits
<1>1. Answering /\ CreditsBack => EjectCredits
  <2> SUFFICES ASSUME Answering, CreditsBack, NEW d \in Node, NEW v \in VC
               PROVE  ejOcc[d][v] = One(flits[d] # None /\ sent[flits[d]].vc = v)
                        + Cardinality({i \in DOMAIN replyBuf : Bound(replyBuf[i].fid) = d /\ replyBuf[i].vc = v})
                        + held[d][v] + One(<<d, v>> \in rtlToNoc) + One(v \in creditSlot[d])
    BY DEF EjectCredits
  <2>1. Cardinality(Replied(d, v)) = One(Replied(d, v) # {})
    BY RepliedOnce DEF Answering
  <2>2. ejOcc[d][v] = One(Ejecting(d, v)) + One(Replied(d, v) # {}) + held[d][v]
                        + One(<<d, v>> \in rtlToNoc) + One(v \in creditSlot[d])
    BY DEF CreditsBack, Accounted
  <2> QED
    BY <2>1, <2>2 DEF Ejecting, Replied
<1> QED
  BY <1>1, InStepAnswers, InStepEjects, PTL

(* The type invariant; that the router counts neither more slots than the  *)
(* port has nor fewer than none rests on EjectCredits.                     *)
THEOREM InStepType ==
  ASSUME InStep, CreditWidth = 1, Reachable
  PROVE  Spec => []TypeOK
<1>1. IInv /\ CreditsBack => TypeOK
  <2> SUFFICES ASSUME Typed, Accounted PROVE TypeOK
    BY DEF IInv, CreditsBack
  <2>1. ejOcc \in [Node -> [VC -> 0..VcBufSize]]
    <3>1. ejOcc \in [Node -> [VC -> Int]] /\ held \in [Node -> [VC -> Nat]]
      BY DEF Typed
    <3>2. ASSUME NEW d \in Node, NEW v \in VC PROVE ejOcc[d][v] \in 0..VcBufSize
      <4>1. /\ ejOcc[d][v] = One(Ejecting(d, v)) + One(Replied(d, v) # {}) + held[d][v]
                         + One(<<d, v>> \in rtlToNoc) + One(v \in creditSlot[d])
            /\ ejOcc[d][v] <= VcBufSize
        BY DEF Accounted
      <4>2. /\ One(Ejecting(d, v)) \in Nat /\ One(Replied(d, v) # {}) \in Nat /\ held[d][v] \in Nat
            /\ One(<<d, v>> \in rtlToNoc) \in Nat /\ One(v \in creditSlot[d]) \in Nat
        BY <3>1 DEF One
      <4>3. VcBufSize \in Nat
        BY BridgeAssumption
      <4> QED
        BY <4>1, <4>2, <4>3
    <3> QED
      BY <3>1, <3>2
  <2>2. \A i \in DOMAIN sent : sent[i] \in [src : Node, dest : Node, pid : Nat, vc : VC, word : VC,
                                            head : BOOLEAN, tail : BOOLEAN]
    BY FlitTypes DEF Flit, Id
  <2>3. DOMAIN received = Node /\ \A n \in Node : Range(received[n]) \subseteq DOMAIN sent
    BY DEF Typed, Id
  <2> QED
    BY <2>1, <2>2, <2>3 DEF TypeOK, Typed, Id
<1> QED
  BY <1>1, Invariant, InStepEjects, PTL
-----------------------------------------------------------------------------
(* No flit is lost: those that are on their way remain so. *)

(* The flit that enters the network is the one that leaves the queue, and  *)
(* each flit read is answered.                                             *)
LEMMA WorkLosesNone ==
  ASSUME IInv, Work
  PROVE  Travelling \subseteq Travelling'
<1>1. Typed /\ Streams /\ Packets /\ Entered /\ PacketVcs /\ Advanced /\ Answered /\ sent' = sent /\ inner' = inner
  BY WorkAdvances, WorkAnswers DEF IInv
<1>2. Id' = Id /\ \A i \in Id : sent[i].src \in Node /\ sent[i].vc \in VC /\ i \in Nat
  BY <1>1, FlitTypes DEF Id
<1>3. ASSUME NEW n \in Entering
      PROVE  /\ n \in Node /\ Front(n) /\ Queued'[n] = Tail(Queued[n])
             /\ Range(Queued'[n]) = Range(Queued[n]) \ {Head(Queued[n])}
  <2>1. n \in Node /\ Queued[n] # <<>> /\ Queued[n] \in Seq(Nat) /\ Increasing(Queued[n])
    BY <1>1 DEF Entering, Typed, Queued, Streams
  <2>2. Queued'[n] = Tail(Queued[n])
    BY <1>1, <2>1 DEF Advanced
  <2>3. Range(Tail(Queued[n])) = Range(Queued[n]) \ {Head(Queued[n])}
    BY <2>1, TailIncreasing
  <2>4. Front(n)
    BY <1>1, <2>1, FrontOfQueue
  <2> QED
    BY <2>1, <2>2, <2>3, <2>4
<1>4. ASSUME NEW n \in Node, NEW v \in VC, Enters(n, v)
      PROVE  /\ n \in Entering /\ v = sent[Head(Queued[n])].vc /\ sent[Head(Queued[n])].src = n
             /\ Range(entry'[n][v]) = Range(entry[n][v]) \cup {Head(Queued[n])}
  <2>1. n \in Entering /\ v = ForemostVc(n) /\ entry'[n][v] = Append(entry[n][v], Head(Queued[n]))
    BY <1>1, <1>4 DEF Enters, Advanced
  <2>2. v = sent[Head(Queued[n])].vc /\ sent[Head(Queued[n])].src = n /\ Head(Queued[n]) \in Nat
    BY <1>2, <1>3, <2>1 DEF Front, Foremost
  <2>3. entry[n][v] \in Seq(Nat)
    BY <1>1 DEF Typed
  <2>4. Range(entry'[n][v]) = Range(entry[n][v]) \cup {Head(Queued[n])}
    BY <2>1, <2>2, <2>3, AppendRange, Zenon
  <2> QED
    BY <2>1, <2>2, <2>4, Zenon
<1>5. ASSUME NEW i \in InQueue PROVE i \in InQueue' \/ i \in InEntry'
  <2> DEFINE n == sent[i].src
             v == sent[i].vc
  <2>1. i \in Id /\ n \in Node /\ v \in VC /\ i \in Range(Queued[n])
    BY <1>2 DEF InQueue
  <2>2. CASE n \in Entering /\ i = Head(Queued[n])
    <3>1. Enters(n, v)
      BY <1>3, <2>2 DEF Front, Foremost, Enters
    <3>2. Range(entry'[n][v]) = Range(entry[n][v]) \cup {Head(Queued[n])}
      BY <1>4, <2>1, <3>1
    <3>3. i \in Range(entry'[n][v])
      BY <2>2, <3>2
    <3> QED
      BY <1>1, <1>2, <2>1, <3>3 DEF InEntry
  <2>3. CASE n \in Entering /\ i # Head(Queued[n])
    <3>1. i \in Range(Queued'[n])
      BY <1>3, <2>1, <2>3
    <3> QED
      BY <1>1, <1>2, <2>1, <3>1 DEF InQueue
  <2>4. CASE n \notin Entering
    <3>1. Queued'[n] = Queued[n]
      BY <1>1, <2>1, <2>4 DEF Advanced
    <3> QED
      BY <1>1, <1>2, <2>1, <3>1 DEF InQueue
  <2> QED
    BY <2>2, <2>3, <2>4
<1>6. ASSUME NEW i \in InEntry PROVE i \in InEntry'
  <2> DEFINE n == sent[i].src
             v == sent[i].vc
  <2>1. i \in Id /\ n \in Node /\ v \in VC /\ i \in Range(entry[n][v])
    BY <1>2 DEF InEntry
  <2>2. i \in Range(entry'[n][v])
    <3>1. CASE Enters(n, v)
      BY <1>4, <2>1, <3>1
    <3>2. CASE ~Enters(n, v)
      <4>1. entry'[n][v] = entry[n][v]
        BY <1>1, <2>1, <3>2 DEF Advanced
      <4> QED
        BY <2>1, <4>1
    <3> QED
      BY <3>1, <3>2
  <2> QED
    BY <1>1, <1>2, <2>1, <2>2 DEF InEntry
<1>7. InInner' = InInner
  BY <1>1, <1>2 DEF InInner
<1>8. ASSUME NEW i \in InFlits PROVE i \in InReply'
  <2>1. PICK d \in Node : flits[d] = i
    BY DEF InFlits
  <2>2. i \in Id /\ d \in Retiring
    BY <1>2, <2>1, NoneAssumption DEF InFlits, Retiring
  <2>3. PICK k \in DOMAIN replyBuf' : replyBuf'[k] = Reply(d)
    BY <1>1, <2>2 DEF Answered
  <2>4. replyBuf'[k].fid = i
    BY <2>1, <2>3 DEF Reply
  <2> QED
    BY <1>2, <2>2, <2>4 DEF InReply
<1>9. ASSUME NEW i \in InReply PROVE i \in InReply'
  BY <1>1, <1>2 DEF InReply, Answered
<1> QED
  BY <1>5, <1>6, <1>7, <1>8, <1>9 DEF Travelling, InNetwork

(* A flit that leaves a buffer is in the next, or read. *)
LEMMA ReadLosesNone ==
  ASSUME IInv, NEW moved, NEW ejected, Read(moved, ejected)
  PROVE  Travelling \subseteq Travelling'
<1>1. /\ Typed /\ Streams /\ Packets /\ Order /\ Rounds /\ Moved(moved, ejected) /\ Ejected(ejected)
  BY ReadMoves, ReadEjects DEF IInv
<1>2. sent' = sent /\ phase = "read" /\ InQueue' = InQueue /\ InReply' = InReply
  BY <1>1, ReadPlaces DEF Read, wrapper
<1>3. Id' = Id /\ \A i \in Id : sent[i].src \in Node /\ sent[i].vc \in VC /\ i \in Nat
  BY <1>1, <1>2, FlitTypes DEF Id
<1>4. InFlits = {}
  <2>1. flits = PerNode(None)
    BY <1>1, <1>2 DEF Rounds
  <2> QED
    BY <1>3, <2>1, NoneAssumption DEF InFlits, PerNode
<1>5. ASSUME NEW i \in InEntry PROVE i \in InEntry' \/ i \in InInner'
  <2> DEFINE n == sent[i].src
             v == sent[i].vc
  <2>1. i \in Id /\ n \in Node /\ v \in VC /\ i \in Range(entry[n][v])
    BY <1>3 DEF InEntry
  <2>2. i \in Range(entry'[n][v]) \/ i \in Range(inner'[n][v])
    <3>1. CASE <<n, v>> \in moved
      <4>1. Range(entry'[n][v]) = Range(entry[n][v]) \ {Head(entry[n][v])}
        BY <1>1, <2>1, <3>1, Zenon DEF Moved
      <4>2. Range(inner'[n][v]) =
              (Range(inner[n][v]) \ (IF <<n, v>> \in ejected THEN {Head(inner[n][v])} ELSE {}))
                \cup {Head(entry[n][v])}
        BY <1>1, <2>1, <3>1, Zenon DEF Moved
      <4> QED
        BY <2>1, <4>1, <4>2, Zenon
    <3>2. CASE <<n, v>> \notin moved
      <4>1. entry'[n][v] = entry[n][v]
        BY <1>1, <2>1, <3>2 DEF Moved
      <4> QED
        BY <2>1, <4>1
    <3> QED
      BY <3>1, <3>2
  <2> QED
    BY <1>2, <1>3, <2>1, <2>2 DEF InEntry, InInner
<1>6. ASSUME NEW i \in InInner PROVE i \in InInner' \/ i \in InFlits'
  <2> DEFINE n == sent[i].src
             v == sent[i].vc
  <2>1. i \in Id /\ n \in Node /\ v \in VC /\ i \in Range(inner[n][v])
    BY <1>3 DEF InInner
  <2>2. CASE <<n, v>> \in ejected /\ i = Head(inner[n][v])
    <3>1. At(<<n, v>>) = i
      BY <2>2 DEF At
    <3>2. BoundIn(sent, i) \in Node /\ flits'[BoundIn(sent, i)] = i
      BY <1>1, <2>2, <3>1 DEF Ejected
    <3> QED
      BY <1>3, <2>1, <3>2 DEF InFlits
  <2>3. CASE ~(<<n, v>> \in ejected /\ i = Head(inner[n][v]))
    <3>1. Range(inner'[n][v]) =
            (Range(inner[n][v]) \ (IF <<n, v>> \in ejected THEN {Head(inner[n][v])} ELSE {}))
              \cup (IF <<n, v>> \in moved THEN {Head(entry[n][v])} ELSE {})
      BY <1>1, <2>1, Zenon DEF Moved
    <3>2. i \in Range(inner'[n][v])
      BY <2>1, <2>3, <3>1, Zenon
    <3> QED
      BY <1>2, <1>3, <2>1, <3>2 DEF InInner
  <2> QED
    BY <2>2, <2>3
<1> QED
  BY <1>2, <1>4, <1>5, <1>6 DEF Travelling, InNetwork
-----------------------------------------------------------------------------
(* Every flit is on its way or presented, and those presented were ahead.  *)

(* A flit that is added is queued, behind all others. *)
LEMMA InjectServes ==
  ASSUME IInv, Serves, NEW words \in [Node -> Word \cup {None}], ClockInject(words)
  PROVE  Serves'
<1>1. Typed /\ Streams /\ Packets /\ Injected(words) /\ sent' \in Seq(Flit)
  BY InjectEffect DEF IInv
<1>2. received' = received /\ \A d \in Node : Range(received[d]) \subseteq Id
  BY <1>1 DEF Typed, ClockInject
<1>3. \A i \in Id : BoundIn(sent', i) = BoundIn(sent, i) /\ i \in Id' /\ sent'[i] = sent[i] /\ BoundIn(sent, i) \in Node
  BY <1>1, InjectBound, SameBound DEF Injected
<1>4. /\ InQueue \subseteq InQueue'
      /\ \A j \in InQueue' : j \in InQueue \/ (j \in Id' \ Id /\ sent'[j].src \in Active(words))
      /\ \A j \in Id' : j \in Id \/ (j \in InQueue' /\ j = IdOf(words, sent'[j].src))
      /\ InEntry' = InEntry /\ InInner' = InInner /\ InFlits' = InFlits /\ InReply' = InReply
  BY <1>1, InjectPlaces
<1>5. /\ Travelling \subseteq Travelling' /\ Id' \ Id \subseteq Travelling'
      /\ \A j \in Travelling' : j \in Travelling \/ j \in Id' \ Id
  BY <1>4 DEF Travelling, InNetwork
<1>6. ASSUME NEW j \in Id' \ Id, NEW i \in Id PROVE i < j
  <2>1. j = IdOf(words, sent'[j].src) /\ sent'[j].src \in Active(words)
    BY <1>1, <1>4 DEF Injected
  <2> QED
    BY <1>1, <2>1 DEF Injected
<1>7. Presented \subseteq Presented' /\ \A i \in Presented' : i \in Presented \/ i \in Id' \ Id
  BY <1>2, <1>3 DEF Presented
<1>8. ASSUME NEW i \in Presented' PROVE i \in Presented
  <2> SUFFICES ASSUME i \in Id', i \notin Id PROVE FALSE
    BY <1>7
  <2>1. i \in Range(received[BoundIn(sent', i)])
    BY <1>2 DEF Presented
  <2>2. BoundIn(sent', i) \in Node
    <3>1. PICK j \in 1 .. i : sent'[j].head /\ sent'[j].pid = sent'[i].pid
      <4>1. Packets'
        BY <1>1, InjectPackets DEF IInv
      <4> QED
        BY <4>1 DEF Packets
    <3>2. BoundIn(sent', i) = sent'[CHOOSE k \in 1..i : sent'[k].head /\ sent'[k].pid = sent'[i].pid].dest
      BY DEF BoundIn
    <3>3. PICK m \in 1 .. i : m = CHOOSE k \in 1..i : sent'[k].head /\ sent'[k].pid = sent'[i].pid
      BY <3>1
    <3>4. m \in Id'
      BY <1>1 DEF Id
    <3>5. sent'[m] \in Flit
      BY <1>1, <3>4 DEF Id
    <3> QED
      BY <3>2, <3>3, <3>5 DEF Flit
  <2> QED
    BY <1>2, <2>1, <2>2
<1>9. Complete'
  BY <1>5, <1>7 DEF Serves, Complete
<1>10. \A d \in Node : \A i \in Range(received[d]) : BoundIn(sent', i) = d
  BY <1>2, <1>3 DEF Serves, Delivered
<1>11. Ahead(sent', Presented', Travelling')
  <2> SUFFICES ASSUME NEW i \in Presented, NEW j \in Travelling', sent'[i].src = sent'[j].src, sent'[i].vc = sent'[j].vc
               PROVE  i < j
    BY <1>8 DEF Ahead
  <2>1. i \in Id
    BY DEF Presented
  <2>2. CASE j \in Travelling
    <3>1. j \in Id
      BY <2>2 DEF Travelling, InNetwork, InQueue, InEntry, InInner, InFlits, InReply
    <3>2. sent[i].src = sent[j].src /\ sent[i].vc = sent[j].vc
      BY <1>3, <2>1, <3>1
    <3> QED
      BY <2>2, <3>2 DEF Serves, Delivered, Ahead
  <2>3. CASE j \in Id' \ Id
    BY <1>6, <2>1, <2>3
  <2> QED
    BY <1>5, <2>2, <2>3
<1> QED
  BY <1>2, <1>9, <1>10, <1>11 DEF Serves, Delivered

(* Neither sent nor received changes, and no flit is lost. *)
LEMMA StillServes ==
  ASSUME Serves, UNCHANGED <<sent, received>>, Travelling' = Travelling
  PROVE  Serves'
<1>1. Id' = Id
  BY DEF Id
<1>2. Presented' = Presented
  BY <1>1 DEF Presented
<1> QED
  BY <1>1, <1>2 DEF Serves, Complete, Delivered

(* What ClockReceive presents at port d: the one flit that has come back   *)
(* for it, if there is one.                                                *)
LEMMA ReceivePresents ==
  ASSUME Typed, Destined, Replies, ClockReceive, NEW d \in Node
  PROVE  /\ \/ received'[d] = received[d] /\ \A i \in InReply : BoundIn(sent, i) # d
            \/ \E i \in InReply : /\ BoundIn(sent, i) = d /\ received'[d] = Append(received[d], i)
                                  /\ \A j \in InReply : BoundIn(sent, j) = d => j = i
         /\ \A i : i \in Range(received'[d]) <=> i \in Range(received[d]) \/ (i \in InReply /\ BoundIn(sent, i) = d)
<1> DEFINE m == Max(Answers(d))
           e == replyBuf[m].fid
<1>1. /\ received'[d] = IF Answers(d) = {} THEN received[d] ELSE Append(received[d], e)
      /\ received[d] \in Seq(Nat)
  BY DEF ClockReceive, Answers, Typed
<1>2. /\ Answers(d) = {k \in DOMAIN replyBuf : BoundIn(sent, replyBuf[k].fid) = d}
      /\ Answers(d) # {} => m \in Answers(d)
      /\ \A k, l \in Answers(d) : k = l
  BY AnswersOf
<1>3. \A k \in DOMAIN replyBuf : replyBuf[k].fid \in InReply
  BY DEF Typed, InReply
<1> HIDE DEF m
<1>4. CASE Answers(d) = {}
  <2>1. received'[d] = received[d] /\ \A i \in InReply : BoundIn(sent, i) # d
    BY <1>1, <1>2, <1>4 DEF InReply
  <2> QED
    BY <2>1
<1>5. CASE Answers(d) # {}
  <2>1. m \in DOMAIN replyBuf /\ e \in InReply /\ BoundIn(sent, e) = d /\ received'[d] = Append(received[d], e)
    BY <1>1, <1>2, <1>3, <1>5
  <2>2. ASSUME NEW j \in InReply, BoundIn(sent, j) = d PROVE j = e
    <3>1. PICK k \in DOMAIN replyBuf : replyBuf[k].fid = j
      BY DEF InReply
    <3>2. k \in Answers(d)
      BY <1>2, <2>2, <3>1
    <3>3. k = m
      BY <1>2, <1>5, <3>2
    <3> QED
      BY <3>1, <3>3
  <2>3. e \in Nat
    BY <2>1, FlitTypes DEF InReply
  <2> HIDE DEF e
  <2>4. Range(received'[d]) = Range(received[d]) \cup {e}
    BY <1>1, <2>1, <2>3, AppendRange
  <2> QED
    BY <2>1, <2>2, <2>4
<1> QED
  BY <1>4, <1>5

(* The flits answered are presented. *)
LEMMA ReceiveServes ==
  ASSUME IInv, Answering, Serves, ClockReceive
  PROVE  Serves'
<1>1. Typed /\ Packets /\ Order /\ Destined /\ Replies
  BY DEF IInv, Answering
<1>2. /\ UNCHANGED <<sent, partial, requestBuf, entry, inner, flits>> /\ replyBuf' = <<>>
  BY DEF ClockReceive, manager, network
<1>3. Id' = Id /\ Travelling' = InNetwork /\ InNetwork \subseteq Travelling /\ Travelling \subseteq Id
  <2>1. InNetwork' = InNetwork /\ InReply' = {}
    <3>1. InNetwork' = InNetwork
      BY <1>2, SamePlaces
    <3>2. InReply' = {}
      BY <1>2 DEF InReply
    <3> QED
      BY <3>1, <3>2
  <2>2. Id' = Id
    BY <1>2 DEF Id
  <2> QED
    BY <2>1, <2>2, Zenon DEF Travelling, InNetwork, InQueue, InEntry, InInner, InFlits, InReply
<1>4. \A d \in Node : \A i : i \in Range(received'[d]) <=> i \in Range(received[d]) \/ (i \in InReply /\ BoundIn(sent, i) = d)
  BY <1>1, ReceivePresents
<1>5. \A i \in Id : BoundIn(sent, i) \in Node
  BY <1>1, SameBound
<1>6. Presented' = Presented \cup InReply
  <2>1. InReply \subseteq Id
    BY DEF InReply
  <2>2. Presented' = {i \in Id : i \in Range(received'[BoundIn(sent, i)])}
    BY <1>2, <1>3 DEF Presented
  <2> QED
    BY <1>4, <1>5, <2>1, <2>2 DEF Presented
<1>7. Complete'
  BY <1>3, <1>6 DEF Serves, Complete, Travelling
<1>8. \A d \in Node : \A i \in Range(received'[d]) : BoundIn(sent, i) = d
  BY <1>4 DEF Serves, Delivered
<1>9. Ahead(sent, Presented', Travelling')
  BY <1>1, <1>3, <1>6 DEF Serves, Delivered, Order, Ahead
<1> QED
  BY <1>2, <1>7, <1>8, <1>9 DEF Serves, Delivered

(* Every step keeps what Serves says. *)
LEMMA NextServes == IInv /\ Answering /\ Serves /\ [Next]_vars => Serves'
<1> SUFFICES ASSUME IInv, Answering, Serves, [Next]_vars PROVE Serves'
  OBVIOUS
<1>1. ASSUME NEW words \in [Node -> Word \cup {None}], ClockInject(words) PROVE Serves'
  BY <1>1, InjectServes
<1>2. CASE ClockReceive
  BY <1>2, ReceiveServes
<1>3. CASE \/ \E freed \in SUBSET (Node \X VC) : ClockReturn(freed)
           \/ ClockStep \/ ClockQuit \/ UNCHANGED vars
  <2>1. UNCHANGED <<sent, received, replyBuf, partial, requestBuf, entry, inner, flits>>
    BY <1>3 DEF ClockReturn, ClockStep, ClockQuit, vars, design, wrapper, interface, manager, network
  <2>2. Travelling' = Travelling
    BY <2>1, SamePlaces DEF Travelling
  <2> QED
    BY <2>1, <2>2, StillServes
<1>4. CASE Work
  <2>1. Typed /\ Streams /\ Packets /\ Entered /\ PacketVcs
    BY DEF IInv
  <2>2. UNCHANGED <<sent, received>>
    BY <1>4, <2>1, WorkAdvances
  <2>3. \A n \in Entering : Head(Queued[n]) \in InQueue
    <3> TAKE n \in Entering
    <3>1. n \in Node /\ Queued[n] # <<>>
      BY DEF Entering
    <3> QED
      BY <2>1, <3>1, FrontOfQueue DEF Front
  <2>4. Travelling' \subseteq Travelling
    BY <1>4, <2>1, <2>3, WorkPlaces DEF Travelling, InNetwork
  <2>5. Travelling \subseteq Travelling'
    BY <1>4, WorkLosesNone
  <2> QED
    BY <2>2, <2>4, <2>5, StillServes
<1>5. ASSUME NEW moved \in SUBSET Leaving, NEW ejected \in SUBSET Ejectable, Read(moved, ejected) PROVE Serves'
  <2>1. UNCHANGED <<sent, received>>
    BY <1>5 DEF Read, design, wrapper
  <2>2. Travelling' \subseteq Travelling
    BY <1>5, ReadPlaces DEF IInv, Travelling
  <2>3. Travelling \subseteq Travelling'
    BY <1>5, ReadLosesNone
  <2> QED
    BY <2>1, <2>2, <2>3, StillServes
<1> QED
  BY <1>1, <1>2, <1>3, <1>4, <1>5 DEF Next

(* In lock step, with a port that exists for every flit. *)
LEMMA InStepServes ==
  ASSUME InStep, Reachable
  PROVE  Spec => []Serves
<1>1. Init => Serves
  <2> SUFFICES ASSUME Init PROVE Serves
    OBVIOUS
  <2>1. Id = {} /\ received = PerNode(<<>>)
    BY DEF Init, Id
  <2>2. Range(<<>>) = {}
    BY DEF Range
  <2>3. Presented = {} /\ Complete
    BY <2>1 DEF Presented, Complete
  <2> QED
    BY <2>1, <2>2, <2>3 DEF Serves, Delivered, Ahead, PerNode
<1>2. IInv /\ Answering /\ Serves /\ [Next]_vars => Serves'
  BY NextServes
<1> QED
  BY <1>1, <1>2, Invariant, InStepAnswers, PTL DEF Spec
-----------------------------------------------------------------------------
(* The refinement: the service sees each flit with the port it is bound    *)
(* for as its destination.                                                 *)

(* The flits as the service sees them. *)
Seen(s) == [i \in DOMAIN s |-> [s[i] EXCEPT !.dest = BoundIn(s, i)]]

(* They differ from those sent in the destination only. *)
LEMMA SeenFlits ==
  ASSUME NEW s \in Seq(Flit)
  PROVE  /\ DOMAIN Seen(s) = 1 .. Len(s) /\ Len(Seen(s)) = Len(s) /\ Len(s) \in Nat
         /\ \A i \in 1 .. Len(s) : /\ Seen(s)[i].src = s[i].src /\ Seen(s)[i].vc = s[i].vc
                                   /\ Seen(s)[i].dest = BoundIn(s, i)
<1>1. DOMAIN s = 1 .. Len(s) /\ Len(s) \in Nat
  OBVIOUS
<1> DEFINE t == Seen(s)
<1>2. t \in [1 .. Len(s) -> {t[i] : i \in 1 .. Len(s)}]
  BY <1>1 DEF Seen
<1>3. t \in Seq({t[i] : i \in 1 .. Len(s)})
  BY <1>1, <1>2
<1>4. Len(t) = Len(s)
  BY <1>1, <1>2, <1>3
<1>5. ASSUME NEW i \in 1 .. Len(s)
      PROVE  t[i].src = s[i].src /\ t[i].vc = s[i].vc /\ t[i].dest = BoundIn(s, i)
  <2>1. s[i] \in Flit /\ t[i] = [s[i] EXCEPT !.dest = BoundIn(s, i)]
    BY <1>1 DEF Seen
  <2> QED
    BY <2>1 DEF Flit
<1> QED
  BY <1>1, <1>2, <1>4, <1>5

(* The service's state is a function of the bridge's. *)
LEMMA ServiceState == Service!vars = <<Seen(sent), received>>
BY DEF Service!vars, Seen, Bound

(* ClockInject: a port adds one flit at most. *)
LEMMA InjectAccepts ==
  ASSUME IInv, NEW words \in [Node -> Word \cup {None}], ClockInject(words)
  PROVE  Service!Accept
<1>1. Typed /\ Packets /\ Injected(words) /\ sent' \in Seq(Flit) /\ sent \in Seq(Flit)
  BY InjectEffect DEF IInv, Typed
<1>2. received' = received
  BY DEF ClockInject
<1> DEFINE S == Seen(sent)
           T == Seen(sent')
           n == Len(sent)
           m == Len(sent')
<1>3. /\ DOMAIN S = 1 .. n /\ Len(S) = n /\ n \in Nat /\ DOMAIN T = 1 .. m /\ Len(T) = m /\ m \in Nat
      /\ \A i \in 1 .. m : T[i].src = sent'[i].src
  BY <1>1, SeenFlits
<1>4. Id = 1 .. n /\ Id' = 1 .. m
  BY <1>1 DEF Id
<1>5. n <= m
  <2>1. n # 0 => n \in Id'
    BY <1>1, <1>3, <1>4 DEF Injected
  <2> QED
    BY <1>3, <1>4, <2>1
<1>6. \A i \in 1 .. n : T[i] = S[i]
  <2> TAKE i \in 1 .. n
  <2>1. i \in Id /\ i \in Id' /\ sent'[i] = sent[i] /\ BoundIn(sent', i) = BoundIn(sent, i)
    BY <1>1, <1>4, InjectBound DEF Injected
  <2> QED
    BY <2>1 DEF Seen, Id
<1>7. SubSeq(T, 1, n) = S
  <2> DEFINE V == {T[i] : i \in 1 .. n}
             U == SubSeq(T, 1, n)
  <2>1. U \in Seq(V) /\ Len(U) = n /\ \A i \in 1 .. n : U[i] = T[i]
    <3>1. 1 \in Int /\ n \in Int /\ \A i \in 1 .. n : T[i] \in V
      BY <1>3
    <3> HIDE DEF T, V
    <3>2. U \in Seq(V) /\ Len(U) = (IF 1 <= n THEN n - 1 + 1 ELSE 0) /\ \A i \in 1 .. n - 1 + 1 : U[i] = T[1 + i - 1]
      BY <3>1, SubSeqProperties
    <3>3. n - 1 + 1 = n /\ (1 <= n \/ n = 0) /\ \A i \in 1 .. n : 1 + i - 1 = i
      BY <1>3
    <3> HIDE DEF U, n
    <3> QED
      BY <3>2, <3>3
  <2>2. S \in Seq(V)
    <3>1. S \in [1 .. n -> V]
      BY <1>3, <1>6 DEF Seen
    <3> QED
      BY <1>3, <3>1
  <2> HIDE DEF T, S, U, V
  <2>3. U = S
    BY <1>3, <1>6, <2>1, <2>2, SeqEqual
  <2> QED
    BY <2>3 DEF U
<1>8. ASSUME NEW i \in n + 1 .. m, NEW j \in n + 1 .. m, T[i].src = T[j].src PROVE i = j
  <2>1. i \in Id' /\ j \in Id' /\ i \notin Id /\ j \notin Id /\ sent'[i].src = sent'[j].src
    BY <1>3, <1>4, <1>8
  <2> QED
    BY <1>1, <2>1 DEF Injected
<1>9. T = [i \in DOMAIN sent |-> [sent[i] EXCEPT !.dest = Bound(i)]]' /\ S = [i \in DOMAIN sent |-> [sent[i] EXCEPT !.dest = Bound(i)]]
  BY DEF Seen, Bound
<1> QED
  BY <1>2, <1>3, <1>5, <1>7, <1>8, <1>9 DEF Service!Accept

(* ClockReceive: what a port presents is deliverable.  A flit of the same  *)
(* stream that was sent before is neither on its way, as it would be       *)
(* ahead, nor answered in the same cycle, as one answer comes for a port.  *)
LEMMA ReceiveDelivers ==
  ASSUME IInv, Answering, Serves, ClockReceive
  PROVE  Service!Present
<1>1. Typed /\ Packets /\ Order /\ Destined /\ Replies /\ sent \in Seq(Flit) /\ sent' = sent
  BY DEF IInv, Answering, Typed, ClockReceive
<1> DEFINE S == Seen(sent)
<1>2. /\ DOMAIN S = Id /\ Id = 1 .. Len(sent) /\ Len(sent) \in Nat
      /\ \A i \in Id : S[i].src = sent[i].src /\ S[i].vc = sent[i].vc /\ S[i].dest = BoundIn(sent, i)
  BY <1>1, SeenFlits DEF Id
<1>3. S' = S
  BY <1>1
<1>4. S = [i \in DOMAIN sent |-> [sent[i] EXCEPT !.dest = Bound(i)]]
  BY DEF Seen, Bound
<1> DEFINE Due(d, i) == /\ i \in DOMAIN S /\ S[i].dest = d /\ i \notin Range(received[d])
                         /\ \A j \in 1 .. i - 1 :
                              S[i].src = S[j].src /\ S[i].dest = S[j].dest /\ S[i].vc = S[j].vc => j \in Range(received[d])
<1>5. ASSUME NEW d \in Node, NEW i \in InReply, BoundIn(sent, i) = d,
             \A j \in InReply : BoundIn(sent, j) = d => j = i
      PROVE  Due(d, i)
  <2>1. i \in Id /\ i \in Nat /\ i \in Travelling
    BY <1>2 DEF InReply, Travelling
  <2>2. i \notin Range(received[d])
    <3>1. i \in Presented => i < i
      BY <2>1 DEF Serves, Delivered, Ahead
    <3> QED
      BY <1>5, <2>1, <3>1 DEF Presented
  <2>3. ASSUME NEW j \in 1 .. i - 1, S[i].src = S[j].src, S[i].dest = S[j].dest, S[i].vc = S[j].vc
        PROVE  j \in Range(received[d])
    <3>1. j \in Id /\ j < i /\ j \in Nat
      BY <1>2, <2>1
    <3>2. sent[i].src = sent[j].src /\ sent[i].vc = sent[j].vc /\ BoundIn(sent, j) = d
      BY <1>2, <1>5, <2>1, <2>3, <3>1
    <3>3. j \notin InReply
      BY <1>5, <2>1, <3>1, <3>2
    <3>4. j \notin InNetwork
      <4>1. j \in InNetwork => i < j
        BY <1>1, <3>2 DEF Order, Ahead
      <4> QED
        BY <2>1, <3>1, <4>1
    <3> QED
      BY <3>1, <3>2, <3>3, <3>4 DEF Serves, Complete, Travelling, Presented
  <2> QED
    BY <1>2, <1>5, <2>1, <2>2, <2>3
<1>6. \A d \in Node : \/ received'[d] = received[d]
                      \/ \E i \in InReply : Due(d, i) /\ received'[d] = Append(received[d], i)
  BY <1>1, <1>5, ReceivePresents
<1>7. ASSUME NEW d \in Node, NEW i, Due(d, i) PROVE i \in Service!Deliverable(d)
  <2>1. Service!Deliverable(d) =
          {k \in DOMAIN S : /\ S[k].dest = d /\ k \notin Range(received[d])
                            /\ \A j \in 1 .. k - 1 :
                                 S[k].src = S[j].src /\ S[k].dest = S[j].dest /\ S[k].vc = S[j].vc
                                   => j \in Range(received[d])}
    BY DEF Service!Deliverable, Service!SameStream, Seen, Bound, Range, Service!Range
  <2> HIDE DEF S
  <2> QED
    BY <1>7, <2>1
<1>8. \A d \in Node : \/ received'[d] = received[d]
                      \/ \E i \in Service!Deliverable(d) : received'[d] = Append(received[d], i)
  <2> HIDE DEF Due
  <2> QED
    BY <1>6, <1>7
<1>9. UNCHANGED [i \in DOMAIN sent |-> [sent[i] EXCEPT !.dest = Bound(i)]]
  BY <1>1 DEF Bound
<1> QED
  BY <1>8, <1>9 DEF Service!Present

(* Every step is a step of the service or leaves its state alone. *)
LEMMA ServesNext ==
  IInv /\ Answering /\ Serves /\ [Next]_vars => [Service!Next]_Service!vars
<1> SUFFICES ASSUME IInv, Answering, Serves, [Next]_vars PROVE Service!Next \/ UNCHANGED Service!vars
  OBVIOUS
<1>1. ASSUME NEW words \in [Node -> Word \cup {None}], ClockInject(words) PROVE Service!Next
  BY <1>1, InjectAccepts DEF Service!Next
<1>2. CASE ClockReceive
  BY <1>2, ReceiveDelivers DEF Service!Next
<1>3. CASE \/ \E freed \in SUBSET (Node \X VC) : ClockReturn(freed)
           \/ ClockStep \/ ClockQuit \/ Work \/ UNCHANGED vars
           \/ \E moved \in SUBSET Leaving, ejected \in SUBSET Ejectable : Read(moved, ejected)
  <2>1. UNCHANGED <<sent, received>>
    BY <1>3, ZenonT(30) DEF ClockReturn, ClockStep, ClockQuit, Work, Read, vars, design, wrapper
  <2> QED
    BY <2>1, ServiceState DEF Service!vars, Bound
<1> QED
  BY <1>1, <1>2, <1>3 DEF Next

(* The bridge and the network implement the abstract service, in lock step *)
(* and for ports that dest_table can name: every flit is presented once,   *)
(* at the port its packet is for, and in the order of its stream.          *)
THEOREM InStepImplementsService ==
  ASSUME InStep, Reachable
  PROVE  Spec => ImplementsService
<1>1. Init => Service!Init
  <2> SUFFICES ASSUME Init PROVE Service!Init
    OBVIOUS
  <2>1. sent = <<>> /\ received = [d \in Node |-> <<>>]
    BY DEF Init, PerNode
  <2> QED
    BY <2>1 DEF Service!Init
<1>2. IInv /\ Answering /\ Serves /\ [Next]_vars => [Service!Next]_Service!vars
  BY ServesNext
<1> QED
  BY <1>1, <1>2, Invariant, InStepAnswers, InStepServes, PTL DEF Spec, ImplementsService, Service!Spec
=============================================================================
