---------------------------- MODULE TrafficProofs ----------------------------
(***************************************************************************)
(* Proofs about TrafficManager, for every set of configurations.           *)
(***************************************************************************)
EXTENDS TrafficManager, FoldLemmas, SequenceTheorems

-----------------------------------------------------------------------------
(* What the variables hold.                                                *)
FlitType == {f \in PacketType \X Nat : f[2] >= 1 /\ f[2] <= f[1].size}
Queueing == [packet : PacketType, sent : Nat, vc : VCs \cup {None}]
Reply == [source : Nodes, type : Requests, record : BOOLEAN, early : BOOLEAN]
SourceType ==
  [queue : [Classes -> Queueing \cup {None}], pending : Seq(Reply), requests : Int, seq : 0 .. config.batch,
   behind : [Classes -> -1 .. MaxBehind], drained : [Classes -> BOOLEAN]]
PortType ==
  [occupied : [VCs -> 0 .. config.room], inUse : [VCs -> BOOLEAN],
   lastVC : [Classes -> VCs \cup {None}], lastClass : Classes]
LineType == [Subnets -> [VCs -> Seq(FlitType)]]

(* The numbers of a configuration. *)
LEMMA Sizes ==
  ASSUME config \in Configs
  PROVE  /\ config.nodes \in Nat \ {0} /\ config.classes \in Nat \ {0} /\ config.subnets \in Nat \ {0}
         /\ config.vcs \in Nat \ {0} /\ config.room \in Nat \ {0} /\ config.sims \in Nat \ {0}
         /\ config.batch \in Nat /\ config.batches \in Nat
         /\ Nodes \subseteq Nat /\ Classes \subseteq Nat /\ Subnets \subseteq Nat /\ VCs \subseteq Nat
         /\ 0 \in Nodes /\ 0 \in Classes /\ 0 \in Subnets /\ 0 \in VCs
BY ConfigsAssumption DEF Nodes, Classes, Subnets, VCs, Below

(* They are finite sets. *)
LEMMA Finite ==
  ASSUME config \in Configs
  PROVE  IsFiniteSet(Nodes) /\ IsFiniteSet(Classes) /\ IsFiniteSet(Subnets) /\ IsFiniteSet(VCs)
<1>1. \A n \in Nat : IsFiniteSet(Below(n))
  BY FS_Interval DEF Below
<1> QED
  BY <1>1, Sizes DEF Nodes, Classes, Subnets, VCs

(* None is none of them. *)
LEMMA NoneIsNone ==
  ASSUME config \in Configs
  PROVE  None \notin Nat /\ None \notin Classes /\ None \notin VCs /\ None \notin Queueing
<1>1. PacketType \subseteq Packet /\ VCs \subseteq Nat
  BY Sizes DEF PacketType, Packet
<1>2. Queueing \subseteq [packet : Packet, sent : Nat, vc : Nat \cup {None}]
  BY <1>1 DEF Queueing
<1> QED
  BY <1>2, Sizes, NoneAssumption

(* A flit is its packet and its number. *)
LEMMA FlitPair ==
  ASSUME config \in Configs, NEW f \in FlitType
  PROVE  f = <<f[1], f[2]>> /\ f[1] \in PacketType /\ f[1].size \in Nat \ {0} /\ f[2] \in 1 .. f[1].size /\ f[2] \in Nat
BY DEF FlitType, PacketType

(* The flits of a packet are the flits that name it. *)
LEMMA FlitsOfPacket ==
  ASSUME config \in Configs, NEW p \in PacketType
  PROVE  /\ Flits(p) \subseteq FlitType
         /\ \A f : f \in Flits(p) <=> f \in FlitType /\ f[1] = p
<1>1. p.size \in Nat \ {0}
  BY DEF PacketType
<1>2. ASSUME NEW f, f \in Flits(p) PROVE f \in FlitType /\ f[1] = p
  BY <1>1, <1>2 DEF Flits, FlitType
<1>3. ASSUME NEW f \in FlitType, f[1] = p PROVE f \in Flits(p)
  BY <1>3, FlitPair DEF Flits
<1> QED
  BY <1>2, <1>3

-----------------------------------------------------------------------------
(* New packets.                                                            *)

(* The least of a set of naturals. *)
LEMMA LeastIn ==
  ASSUME NEW S, S \subseteq Nat, S # {}
  PROVE  Min(S) \in S
<1>1. PICK k \in S : TRUE
  OBVIOUS
<1>2. \E n \in S : \A m \in S : n <= m
  BY LeastNatural
<1> QED
  BY <1>2 DEF Min

Named(packet, k) == [packet EXCEPT !.k = k]

(* There are more numbers than packets in flight. *)
LEMMA NameLeft ==
  ASSUME config \in Configs, IsFiniteSet(total), NEW packet \in PacketType
  PROVE  \E k \in 0 .. Cardinality(total) : Named(packet, k) \notin Packets(total)
<1> DEFINE N == Cardinality(total)
           K == 0 .. N
           g == [k \in K |-> CHOOSE f \in total : f[1] = Named(packet, k)]
<1>1. N \in Nat
  BY FS_CardinalityType
<1> SUFFICES ASSUME \A k \in K : Named(packet, k) \in Packets(total) PROVE FALSE
  OBVIOUS
<1>2. \A k \in K : \E f \in total : f[1] = Named(packet, k)
  BY DEF Packets
<1>3. \A k \in K : g[k] \in total /\ g[k][1] = Named(packet, k)
  BY <1>2
<1>4. \A k \in K : Named(packet, k).k = k
  BY DEF Named, PacketType
<1>5. g \in Injection(K, total)
  <2>1. g \in [K -> total]
    BY <1>3
  <2> HIDE DEF g, K
  <2>2. \A a, b \in K : g[a] = g[b] => a = b
    BY <1>3, <1>4
  <2> QED
    BY <2>1, <2>2 DEF Injection, IsInjective
<1>6. Cardinality(K) <= N
  <2> HIDE DEF g, K, N
  <2> QED
    BY <1>5, FS_Injection DEF N
<1>7. Cardinality(K) = N + 1
  BY <1>1, FS_Interval
<1> QED
  <2> HIDE DEF K, N
  <2> QED
    BY <1>1, <1>6, <1>7

(* A new packet is like none in flight. *)
LEMMA FreshIsNew ==
  ASSUME config \in Configs, IsFiniteSet(total), NEW packet \in PacketType
  PROVE  \E k \in Nat : Fresh(packet) = Named(packet, k) /\ Fresh(packet) \notin Packets(total)
<1> DEFINE K == {k \in 0 .. Cardinality(total) : Named(packet, k) \notin Packets(total)}
<1>1. K # {} /\ K \subseteq Nat
  BY NameLeft
<1>2. Fresh(packet) = Named(packet, Min(K))
  BY DEF Fresh, Named
<1>3. Min(K) \in K
  <2> HIDE DEF K
  <2> QED
    BY <1>1, LeastIn
<1> QED
  BY <1>2, <1>3

(* A packet just made at n for a class. *)
LEMMA PacketMade ==
  ASSUME config \in Configs, IsFiniteSet(total), NEW n \in Nodes, NEW c \in Classes, NEW type \in Types,
         NEW dest \in Nodes, NEW record \in BOOLEAN, NEW p \in NewPacket(n, c, type, dest, record)
  PROVE  /\ p \in PacketType /\ p \notin Packets(total) /\ p.src = n /\ p.cl = c /\ p.type = type /\ p.dest = dest
<1> DEFINE packet(size, s) == [src |-> n, k |-> 0, cl |-> c, type |-> type, dest |-> dest, record |-> record,
                              size |-> size, subnet |-> s]
<1>1. PICK size \in config.size[type], s \in IF type = "any" THEN Subnets ELSE {config.subnet[type]} :
        p = Fresh(packet(size, s))
  BY DEF NewPacket
<1>2. size \in Nat \ {0} /\ s \in Subnets
  BY ConfigsAssumption DEF Subnets
<1>3. packet(size, s) \in PacketType
  BY <1>2 DEF PacketType
<1>4. PICK k \in Nat : p = Named(packet(size, s), k) /\ p \notin Packets(total)
  <2> HIDE DEF packet
  <2> QED
    BY <1>1, <1>3, FreshIsNew
<1> QED
  BY <1>2, <1>4 DEF Named, PacketType

-----------------------------------------------------------------------------
(* How many members of a sequence are in a set.                            *)
Where(q, S) == {i \in DOMAIN q : q[i] \in S}
Many(q, S) == Cardinality(Where(q, S))

(* How many there are is a natural number. *)
LEMMA ManyType ==
  ASSUME NEW T, NEW q \in Seq(T), NEW S
  PROVE  IsFiniteSet(Where(q, S)) /\ Many(q, S) \in Nat
<1>1. IsFiniteSet(1 .. Len(q)) /\ Where(q, S) \subseteq 1 .. Len(q)
  BY FS_Interval DEF Where
<1> QED
  BY <1>1, FS_Subset, FS_CardinalityType DEF Many

(* An empty sequence has none. *)
LEMMA ManyNone ==
  ASSUME NEW S
  PROVE  Many(<<>>, S) = 0
<1>1. Where(<<>>, S) = {}
  BY DEF Where
<1> QED
  BY <1>1, FS_EmptySet DEF Many

(* One more is counted when it is appended. *)
LEMMA ManyAppend ==
  ASSUME NEW T, NEW q \in Seq(T), NEW S, NEW e \in T
  PROVE  Many(Append(q, e), S) = Many(q, S) + IF e \in S THEN 1 ELSE 0
<1> DEFINE W == Where(q, S)
           n == Len(q) + 1
<1>1. IsFiniteSet(W) /\ n \notin W /\ Cardinality(W) \in Nat
  <2>1. IsFiniteSet(W) /\ Cardinality(W) \in Nat
    BY ManyType DEF Many
  <2>2. n \notin W
    BY DEF Where
  <2> QED
    BY <2>1, <2>2
<1>2. DOMAIN Append(q, e) = 1 .. n /\ Append(q, e)[n] = e /\ \A i \in 1 .. Len(q) : Append(q, e)[i] = q[i]
  BY AppendProperties
<1>3. Where(Append(q, e), S) = IF e \in S THEN W \cup {n} ELSE W
  BY <1>2 DEF Where
<1>4. Cardinality(W \cup {n}) = Cardinality(W) + 1
  <2> HIDE DEF W, n
  <2> QED
    BY <1>1, FS_AddElement
<1> QED
  <2> HIDE DEF n
  <2> QED
    BY <1>1, <1>3, <1>4 DEF Many

(* One less is counted when the first one leaves. *)
LEMMA ManyTail ==
  ASSUME NEW T, NEW q \in Seq(T), NEW S, q # <<>>
  PROVE  Many(q, S) = Many(Tail(q), S) + IF Head(q) \in S THEN 1 ELSE 0
<1> DEFINE W == Where(q, S)
           U == Where(Tail(q), S)
           f == [i \in U |-> i + 1]
<1>1. /\ Len(q) \in Nat \ {0} /\ DOMAIN q = 1 .. Len(q) /\ Head(q) = q[1]
      /\ Tail(q) \in Seq(T) /\ DOMAIN Tail(q) = 1 .. Len(q) - 1
      /\ \A i \in 1 .. Len(q) - 1 : Tail(q)[i] = q[i + 1]
  BY HeadTailProperties
<1>2. IsFiniteSet(W) /\ IsFiniteSet(U) /\ Cardinality(W) \in Nat
  BY <1>1, ManyType DEF Many
<1>3. U = {i \in 1 .. Len(q) - 1 : q[i + 1] \in S} /\ W = {i \in 1 .. Len(q) : q[i] \in S}
  BY <1>1 DEF Where
<1>4. f \in Bijection(U, W \ {1})
  <2>1. \A i \in U : i + 1 \in W \ {1}
    BY <1>1, <1>3
  <2>2. f \in [U -> W \ {1}]
    BY <2>1
  <2>3. \A a, b \in U : f[a] = f[b] => a = b
    BY <1>1, <1>3
  <2>4. \A w \in W \ {1} : w - 1 \in U /\ f[w - 1] = w
    BY <1>1, <1>3
  <2> HIDE DEF f, U, W
  <2> QED
    BY <2>2, <2>3, <2>4 DEF Bijection, Injection, IsInjective, Surjection
<1>5. Cardinality(W \ {1}) = Cardinality(U)
  <2>1. ExistsBijection(U, W \ {1})
    BY <1>4 DEF ExistsBijection
  <2> HIDE DEF U, W, f
  <2> QED
    BY <1>2, <2>1, FS_Bijection
<1>6. Cardinality(W \ {1}) = IF 1 \in W THEN Cardinality(W) - 1 ELSE Cardinality(W)
  <2> HIDE DEF W
  <2> QED
    BY <1>2, FS_RemoveElement
<1>7. 1 \in W <=> Head(q) \in S
  BY <1>1, <1>3
<1> QED
  <2> HIDE DEF W, U
  <2> QED
    BY <1>2, <1>5, <1>6, <1>7 DEF Many, U, W

-----------------------------------------------------------------------------
(* A source may have made, for each class without a packet, a packet that  *)
(* is new, and settled its books accordingly.                              *)
Made(n, t) == {c \in Classes : node[n].queue[c] = None /\ t.queue[c] # None}
IsReply(p) == p.type \in Replies
MadeOwn(n, t) == {c \in Made(n, t) : ~IsReply(t.queue[c].packet)}
MadeReplies(n, t, x) == {c \in Made(n, t) : IsReply(t.queue[c].packet) /\ t.queue[c].packet.dest = x}
RepliesTo(x) == {r \in Reply : r.source = x}
Injected(n, t) ==
  /\ t \in SourceType
  /\ \A c \in Classes : node[n].queue[c] # None => t.queue[c] = node[n].queue[c]
  /\ \A c \in Made(n, t) : LET q == t.queue[c] IN
       /\ q.packet \notin Packets(total) /\ q.packet.src = n /\ q.packet.cl = c
       /\ q.sent = 0 /\ q.vc = None
  /\ t.requests = node[n].requests + IF config.batch = 0 THEN 0 ELSE Cardinality(MadeOwn(n, t))
  /\ \A x \in Nodes : Many(t.pending, RepliesTo(x)) + Cardinality(MadeReplies(n, t, x))
                        = Many(node[n].pending, RepliesTo(x))

(* The sets of classes are finite. *)
LEMMA MadeFinite ==
  ASSUME config \in Configs, NEW n, NEW t, NEW x
  PROVE  /\ IsFiniteSet(MadeOwn(n, t)) /\ IsFiniteSet(MadeReplies(n, t, x))
         /\ Cardinality(MadeOwn(n, t)) \in Nat /\ Cardinality(MadeReplies(n, t, x)) \in Nat
<1>1. MadeOwn(n, t) \subseteq Classes /\ MadeReplies(n, t, x) \subseteq Classes
  BY DEF MadeOwn, MadeReplies, Made
<1> QED
  BY <1>1, Finite, FS_Subset, FS_CardinalityType

(* The smaller of two numbers. *)
LEMMA MinOfTwo ==
  ASSUME NEW a \in Int, NEW b \in Int
  PROVE  Min({a, b}) = IF a <= b THEN a ELSE b
<1> DEFINE m == IF a <= b THEN a ELSE b
           S == {a, b}
<1>1. m \in S /\ \A y \in S : m <= y
  OBVIOUS
<1>2. Min(S) \in S /\ \A y \in S : Min(S) <= y
  <2> HIDE DEF m, S
  <2> QED
    BY <1>1 DEF Min
<1>3. Min(S) <= m /\ m <= Min(S) /\ Min(S) \in Int /\ m \in Int
  <2>1. m <= Min(S) /\ Min(S) <= m
    <3> HIDE DEF m, S
    <3> QED
      BY <1>1, <1>2
  <2>2. S \subseteq Int
    OBVIOUS
  <2> HIDE DEF m, S
  <2> QED
    BY <1>1, <1>2, <2>1, <2>2
<1>4. Min(S) = m
  <2> HIDE DEF m, S
  <2> QED
    BY <1>3
<1> QED
  BY <1>4

(* What counting a packet does. *)
LEMMA CountedType ==
  ASSUME config \in Configs, NEW s \in SourceType, NEW request \in BOOLEAN
  PROVE  /\ Counted(s, request) \in SourceType
         /\ Counted(s, request) = [s EXCEPT !.seq = Counted(s, request).seq, !.requests = Counted(s, request).requests]
         /\ Counted(s, request).requests = s.requests + IF config.batch > 0 /\ request THEN 1 ELSE 0
<1>1. config.batch \in Nat /\ s.seq \in 0 .. config.batch /\ s.requests \in Int
  BY Sizes DEF SourceType
<1> DEFINE m == Min({s.seq + 1, config.batch})
<1>2. m = IF s.seq + 1 <= config.batch THEN s.seq + 1 ELSE config.batch
  BY <1>1, MinOfTwo
<1>3. m \in 0 .. config.batch
  BY <1>1, <1>2
<1> HIDE DEF m
<1>4. CASE config.batch = 0
  <2>1. Counted(s, request) = s
    BY <1>4 DEF Counted
  <2>2. s = [s EXCEPT !.seq = s.seq, !.requests = s.requests]
    BY DEF SourceType
  <2> QED
    BY <1>1, <1>4, <2>1, <2>2
<1>5. CASE config.batch # 0
  <2>1. Counted(s, request) = [s EXCEPT !.seq = m, !.requests = s.requests + IF request THEN 1 ELSE 0]
    BY <1>5 DEF Counted, m
  <2> DEFINE r == s.requests + IF request THEN 1 ELSE 0
  <2>2. r \in Int /\ Counted(s, request) = [s EXCEPT !.seq = m, !.requests = r]
    BY <1>1, <2>1
  <2> HIDE DEF r
  <2>3. Counted(s, request) \in SourceType /\ Counted(s, request).seq = m /\ Counted(s, request).requests = r
    BY <1>3, <2>2 DEF SourceType
  <2> QED
    BY <1>1, <1>5, <2>2, <2>3 DEF r
<1> QED
  BY <1>4, <1>5

(* Nothing more is made. *)
LEMMA InjectedSame ==
  ASSUME NEW n, NEW s, Injected(n, s), NEW t \in SourceType,
         t.queue = s.queue, t.pending = s.pending, t.requests = s.requests
  PROVE  Injected(n, t)
<1>1. Made(n, t) = Made(n, s)
  BY DEF Made
<1>2. MadeOwn(n, t) = MadeOwn(n, s) /\ \A x : MadeReplies(n, t, x) = MadeReplies(n, s, x)
  BY <1>1 DEF MadeOwn, MadeReplies
<1> QED
  BY <1>1, <1>2 DEF Injected

(* One packet more is made. *)
LEMMA InjectedMore ==
  ASSUME config \in Configs, NEW n \in Nodes, node[n] \in SourceType, NEW s, Injected(n, s), NEW c \in Classes, s.queue[c] = None,
         NEW p \in PacketType, p \notin Packets(total), p.src = n, p.cl = c,
         NEW t \in SourceType, t.queue = [s.queue EXCEPT ![c] = Waiting(p)],
         \/ /\ ~IsReply(p) /\ t.pending = s.pending
            /\ t.requests = s.requests + IF config.batch > 0 THEN 1 ELSE 0
         \/ /\ IsReply(p) /\ s.pending # <<>> /\ t.pending = Tail(s.pending) /\ p.dest = Head(s.pending).source
            /\ t.requests = s.requests
  PROVE  Injected(n, t)
<1>1. s \in SourceType /\ s.queue \in [Classes -> Queueing \cup {None}] /\ s.pending \in Seq(Reply)
  BY DEF Injected, SourceType
<1>2. Waiting(p) # None /\ Waiting(p).packet = p /\ Waiting(p).sent = 0 /\ Waiting(p).vc = None
  <2>1. Waiting(p) \in Queueing
    BY DEF Waiting, Queueing
  <2> QED
    BY <2>1, NoneIsNone DEF Waiting
<1>3. node[n].queue[c] = None
  BY DEF Injected
<1>4. t.queue[c] = Waiting(p) /\ \A d \in Classes \ {c} : t.queue[d] = s.queue[d]
  BY <1>1
<1>5. Made(n, t) = Made(n, s) \cup {c} /\ c \notin Made(n, s)
  BY <1>2, <1>3, <1>4 DEF Made
<1>6. \A d \in Classes : node[n].queue[d] # None => t.queue[d] = node[n].queue[d]
  BY <1>3, <1>4 DEF Injected
<1>7. ASSUME NEW d \in Made(n, t)
      PROVE  LET q == t.queue[d] IN
       /\ q.packet \notin Packets(total) /\ q.packet.src = n /\ q.packet.cl = d
       /\ q.sent = 0 /\ q.vc = None
  <2>1. CASE d = c
    BY <1>2, <1>4, <2>1
  <2>2. CASE d # c
    BY <1>4, <1>5, <2>2 DEF Injected, Made
  <2> QED
    BY <2>1, <2>2
<1>8. \A d \in Made(n, s) : t.queue[d] = s.queue[d]
  BY <1>4, <1>5 DEF Made
<1>9. /\ IsFiniteSet(MadeOwn(n, s)) /\ Cardinality(MadeOwn(n, s)) \in Nat
      /\ \A x : IsFiniteSet(MadeReplies(n, s, x)) /\ Cardinality(MadeReplies(n, s, x)) \in Nat
  BY MadeFinite
<1>13. c \notin MadeOwn(n, s) /\ \A x : c \notin MadeReplies(n, s, x)
  BY <1>5 DEF MadeOwn, MadeReplies
<1>10. \A x \in Nodes : Many(s.pending, RepliesTo(x)) \in Nat
  BY <1>1, ManyType
<1>11. CASE ~IsReply(p)
  <2>1. t.pending = s.pending /\ t.requests = s.requests + IF config.batch > 0 THEN 1 ELSE 0
    BY <1>11
  <2>2. MadeOwn(n, t) = MadeOwn(n, s) \cup {c}
    BY <1>2, <1>4, <1>5, <1>8, <1>11 DEF MadeOwn
  <2>3. \A x : MadeReplies(n, t, x) = MadeReplies(n, s, x)
    BY <1>2, <1>4, <1>5, <1>8, <1>11 DEF MadeReplies
  <2>4. Cardinality(MadeOwn(n, t)) = Cardinality(MadeOwn(n, s)) + 1
    <3> DEFINE M == MadeOwn(n, s)
    <3>1. IsFiniteSet(M) /\ c \notin M
      BY <1>9, <1>13, Zenon
    <3> HIDE DEF M
    <3>2. Cardinality(M \cup {c}) = Cardinality(M) + 1
      BY <3>1, FS_AddElement
    <3> QED
      BY <2>2, <3>2, Zenon DEF M
  <2>5. t.requests = node[n].requests + IF config.batch = 0 THEN 0 ELSE Cardinality(MadeOwn(n, t))
    <3>1. s.requests = node[n].requests + IF config.batch = 0 THEN 0 ELSE Cardinality(MadeOwn(n, s))
      BY DEF Injected
    <3>2. s.requests \in Int /\ node[n].requests \in Int /\ config.batch \in Nat
      BY <1>1, Sizes DEF SourceType
    <3>3. CASE config.batch = 0
      BY <2>1, <3>1, <3>2, <3>3
    <3>4. CASE config.batch > 0
      BY <1>9, <2>1, <2>4, <3>1, <3>2, <3>4
    <3> QED
      BY <3>2, <3>3, <3>4
  <2> QED
    BY <1>6, <1>7, <2>1, <2>3, <2>5 DEF Injected
<1>12. CASE IsReply(p)
  <2>1. s.pending # <<>> /\ t.pending = Tail(s.pending) /\ p.dest = Head(s.pending).source /\ t.requests = s.requests
    BY <1>12
  <2>2. MadeOwn(n, t) = MadeOwn(n, s)
    BY <1>2, <1>4, <1>5, <1>8, <1>12 DEF MadeOwn
  <2>3. \A x : MadeReplies(n, t, x) = IF p.dest = x THEN MadeReplies(n, s, x) \cup {c} ELSE MadeReplies(n, s, x)
    BY <1>2, <1>4, <1>5, <1>8, <1>12 DEF MadeReplies
  <2>4. Head(s.pending) \in Reply /\ Tail(s.pending) \in Seq(Reply)
    BY <1>1, <2>1, HeadTailProperties
  <2>5. ASSUME NEW x \in Nodes
        PROVE  Many(t.pending, RepliesTo(x)) + Cardinality(MadeReplies(n, t, x)) = Many(node[n].pending, RepliesTo(x))
    <3>1. Many(s.pending, RepliesTo(x)) = Many(t.pending, RepliesTo(x)) + IF Head(s.pending) \in RepliesTo(x) THEN 1 ELSE 0
      BY <1>1, <2>1, ManyTail
    <3>2. Head(s.pending) \in RepliesTo(x) <=> p.dest = x
      BY <2>1, <2>4 DEF RepliesTo
    <3>3. Cardinality(MadeReplies(n, t, x)) = Cardinality(MadeReplies(n, s, x)) + IF p.dest = x THEN 1 ELSE 0
      <4>1. IsFiniteSet(MadeReplies(n, s, x)) /\ c \notin MadeReplies(n, s, x) /\ Cardinality(MadeReplies(n, s, x)) \in Nat
        BY <1>9, <1>13
      <4>2. Cardinality(MadeReplies(n, s, x) \cup {c}) = Cardinality(MadeReplies(n, s, x)) + 1
        BY <4>1, FS_AddElement
      <4>3. CASE p.dest = x
        <5>1. MadeReplies(n, t, x) = MadeReplies(n, s, x) \cup {c}
          BY <2>3, <4>3
        <5> QED
          BY <4>2, <4>3, <5>1
      <4>4. CASE p.dest # x
        <5>1. MadeReplies(n, t, x) = MadeReplies(n, s, x)
          BY <2>3, <4>4
        <5> QED
          BY <4>1, <4>4, <5>1
      <4> QED
        BY <4>3, <4>4
    <3>4. Many(s.pending, RepliesTo(x)) + Cardinality(MadeReplies(n, s, x)) = Many(node[n].pending, RepliesTo(x))
      BY DEF Injected
    <3>5. Many(t.pending, RepliesTo(x)) \in Nat
      BY <2>1, <2>4, ManyType
    <3> QED
      BY <1>9, <3>1, <3>2, <3>3, <3>4, <3>5
  <2>6. t.requests = node[n].requests + IF config.batch = 0 THEN 0 ELSE Cardinality(MadeOwn(n, t))
    BY <2>1, <2>2 DEF Injected
  <2> QED
    BY <1>6, <1>7, <2>5, <2>6 DEF Injected
<1> QED
  BY <1>11, <1>12

(* A reply. *)
LEMMA ReplyMade ==
  ASSUME config \in Configs, IsFiniteSet(total), NEW n \in Nodes, node[n] \in SourceType, NEW s, Injected(n, s),
         NEW c \in Classes, s.queue[c] = None, s.pending # <<>>, NEW t \in MakeReply(n, c, s)
  PROVE  Injected(n, t)
<1> DEFINE w == Head(s.pending)
           u == Counted(s, FALSE)
<1>1. s \in SourceType /\ s.queue \in [Classes -> Queueing \cup {None}] /\ s.pending \in Seq(Reply)
  BY DEF Injected, SourceType
<1>2. w \in Reply /\ Tail(s.pending) \in Seq(Reply)
  BY <1>1, HeadTailProperties
<1>3. ReplyTo(w.type) \in Replies /\ ReplyTo(w.type) \in Types
  BY DEF ReplyTo, Replies, Types
<1>4. RecordedReply(w) \in BOOLEAN /\ w.source \in Nodes
  BY <1>2, Zenon DEF RecordedReply, Reply
<1>5. PICK p \in NewPacket(n, c, ReplyTo(w.type), w.source, RecordedReply(w)) :
        t = [u EXCEPT !.pending = Tail(@), !.queue[c] = Waiting(p)]
  BY Zenon DEF MakeReply
<1>6. p \in PacketType /\ p \notin Packets(total) /\ p.src = n /\ p.cl = c /\ p.type = ReplyTo(w.type) /\ p.dest = w.source
  BY <1>3, <1>4, PacketMade
<1>7. /\ u \in SourceType /\ u = [s EXCEPT !.seq = u.seq, !.requests = u.requests]
      /\ u.requests = s.requests
  <2>1. s.requests \in Int /\ FALSE \in BOOLEAN
    BY <1>1 DEF SourceType
  <2>2. /\ u \in SourceType /\ u = [s EXCEPT !.seq = u.seq, !.requests = u.requests]
        /\ u.requests = s.requests + IF config.batch > 0 /\ FALSE THEN 1 ELSE 0
    BY <1>1, <2>1, CountedType, Zenon
  <2> HIDE DEF u
  <2> QED
    BY <2>1, <2>2
<1>8. u.queue = s.queue /\ u.pending = s.pending
  <2> HIDE DEF u
  <2>1. \A q, r : [s EXCEPT !.seq = q, !.requests = r].queue = s.queue /\ [s EXCEPT !.seq = q, !.requests = r].pending = s.pending
    BY <1>1 DEF SourceType
  <2> DEFINE k == [s EXCEPT !.seq = u.seq, !.requests = u.requests]
  <2>2. k.queue = s.queue /\ k.pending = s.pending
    BY <2>1
  <2>3. u = k
    BY <1>7
  <2> HIDE DEF k
  <2> QED
    BY <2>2, <2>3
<1>9. Waiting(p) \in Queueing
  BY <1>6 DEF Waiting, Queueing
<1> HIDE DEF u
<1>10. t \in SourceType /\ t.queue = [s.queue EXCEPT ![c] = Waiting(p)] /\ t.pending = Tail(s.pending) /\ t.requests = u.requests
  BY <1>2, <1>5, <1>7, <1>8, <1>9 DEF SourceType
<1>11. IsReply(p)
  BY <1>3, <1>6 DEF IsReply
<1> QED
  BY <1>6, <1>7, <1>10, <1>11, InjectedMore

(* A request, or a packet that wants no reply. *)
LEMMA RequestMade ==
  ASSUME config \in Configs, IsFiniteSet(total), NEW n \in Nodes, node[n] \in SourceType, NEW s, Injected(n, s),
         NEW c \in Classes, s.queue[c] = None, NEW t \in MakePacket(n, c, s)
  PROVE  Injected(n, t)
<1> DEFINE u == Counted(s, TRUE)
<1>1. /\ s \in SourceType /\ s.queue \in [Classes -> Queueing \cup {None}] /\ s.pending \in Seq(Reply)
      /\ s.behind \in [Classes -> -1 .. MaxBehind] /\ s.requests \in Int
  BY DEF Injected, SourceType
<1>2. PICK x \in [behind : Later(s.behind[c]), type : IF c \in config.rw THEN config.draws ELSE {"any"},
                  dest : config.dests[n]] :
        \E p \in NewPacket(n, c, x.type, x.dest, Recorded(x.behind)) :
          t = [u EXCEPT !.behind[c] = x.behind, !.queue[c] = Waiting(p)]
  <2> DEFINE V(x) == {[u EXCEPT !.behind[c] = x.behind, !.queue[c] = Waiting(p)] :
                        p \in NewPacket(n, c, x.type, x.dest, Recorded(x.behind))}
             D == [behind : Later(s.behind[c]), type : IF c \in config.rw THEN config.draws ELSE {"any"},
                   dest : config.dests[n]]
  <2>1. MakePacket(n, c, s) = UNION {V(x) : x \in D}
    BY Zenon DEF MakePacket
  <2>2. \E x \in D : t \in V(x)
    <3> HIDE DEF V, D
    <3> QED
      BY <2>1
  <2> QED
    BY <2>2, Zenon
<1> DEFINE b == x.behind
           type == x.type
           dest == x.dest
<1>3. PICK p \in NewPacket(n, c, type, dest, Recorded(b)) : t = [u EXCEPT !.behind[c] = b, !.queue[c] = Waiting(p)]
  BY <1>2
<1>4. type \in Types /\ type \notin Replies /\ dest \in Nodes
  BY ConfigsAssumption DEF Types, Requests, Replies, Nodes
<1>5. Recorded(b) \in BOOLEAN
  BY DEF Recorded
<1>6. b \in -1 .. MaxBehind
  BY <1>1, BoundsAssumption DEF Later
<1>7. p \in PacketType /\ p \notin Packets(total) /\ p.src = n /\ p.cl = c /\ p.type = type
  BY <1>4, <1>5, PacketMade
<1>8. /\ u \in SourceType /\ u = [s EXCEPT !.seq = u.seq, !.requests = u.requests]
      /\ u.requests = s.requests + IF config.batch > 0 THEN 1 ELSE 0
  BY <1>1, CountedType, Zenon
<1>9. u.queue = s.queue /\ u.pending = s.pending
  <2> HIDE DEF u
  <2>1. \A q, r : [s EXCEPT !.seq = q, !.requests = r].queue = s.queue /\ [s EXCEPT !.seq = q, !.requests = r].pending = s.pending
    BY <1>1 DEF SourceType
  <2> DEFINE e == [s EXCEPT !.seq = u.seq, !.requests = u.requests]
  <2>2. e.queue = s.queue /\ e.pending = s.pending
    BY <2>1
  <2>3. u = e
    BY <1>8
  <2> HIDE DEF e
  <2> QED
    BY <2>2, <2>3
<1>10. Waiting(p) \in Queueing
  BY <1>7 DEF Waiting, Queueing
<1> HIDE DEF u
<1>11. t \in SourceType /\ t.queue = [s.queue EXCEPT ![c] = Waiting(p)] /\ t.pending = s.pending /\ t.requests = u.requests
  BY <1>3, <1>6, <1>8, <1>9, <1>10 DEF SourceType
<1>12. ~IsReply(p)
  BY <1>4, <1>7 DEF IsReply
<1>13. t.requests = s.requests + IF config.batch > 0 THEN 1 ELSE 0
  BY <1>8, <1>11
<1> QED
  BY <1>7, <1>11, <1>12, <1>13, InjectedMore

(* A class of a node. *)
LEMMA ClassInjects ==
  ASSUME config \in Configs, IsFiniteSet(total), NEW n \in Nodes, node[n] \in SourceType, NEW s, Injected(n, s),
         NEW c \in Classes, NEW t \in InjectClass(n, c, s)
  PROVE  Injected(n, t)
<1>1. CASE s.queue[c] # None
  BY <1>1 DEF InjectClass
<1>2. CASE s.queue[c] = None
  <2> DEFINE made == IF c \in config.rw /\ s.pending # <<>> THEN MakeReply(n, c, s)
                     ELSE UNION {IF wants THEN MakePacket(n, c, s) ELSE {CaughtUp(c, s)} : wants \in Wants(s)}
  <2>1. PICK u \in made : t = [u EXCEPT !.drained[c] = @ \/ (simState = "draining" /\ u.behind[c] = -1)]
    BY <1>2 DEF InjectClass
  <2>2. Injected(n, u)
    <3>1. CASE c \in config.rw /\ s.pending # <<>>
      <4>1. u \in MakeReply(n, c, s)
        BY <3>1
      <4> QED
        BY <1>2, <3>1, <4>1, ReplyMade
    <3>2. CASE ~(c \in config.rw /\ s.pending # <<>>)
      <4>1. u \in MakePacket(n, c, s) \/ u = CaughtUp(c, s)
        BY <3>2
      <4>2. CASE u = CaughtUp(c, s)
        <5>1. s \in SourceType
          BY DEF Injected
        <5> DEFINE b == IF simState = "draining" THEN -1 ELSE 0
        <5>2. b \in -1 .. MaxBehind
          BY BoundsAssumption
        <5>3. u = [s EXCEPT !.behind[c] = b]
          BY <4>2 DEF CaughtUp
        <5> HIDE DEF b
        <5>4. u \in SourceType /\ u.queue = s.queue /\ u.pending = s.pending /\ u.requests = s.requests
          BY <5>1, <5>2, <5>3 DEF SourceType
        <5> QED
          BY <5>4, InjectedSame
      <4> QED
        BY <1>2, <4>1, <4>2, RequestMade
    <3> QED
      BY <3>1, <3>2
  <2> HIDE DEF made
  <2>3. u \in SourceType
    BY <2>2 DEF Injected
  <2>4. PICK d \in BOOLEAN : t = [u EXCEPT !.drained[c] = d]
    BY <2>1, <2>3 DEF SourceType
  <2>5. t \in SourceType /\ t.queue = u.queue /\ t.pending = u.pending /\ t.requests = u.requests
    BY <2>3, <2>4 DEF SourceType
  <2> QED
    BY <2>2, <2>5, InjectedSame
<1> QED
  BY <1>1, <1>2

(* All classes. *)
LEMMA NodeInjects ==
  ASSUME config \in Configs, IsFiniteSet(total), NEW n \in Nodes, node[n] \in SourceType, NEW t \in Inject(n)
  PROVE  Injected(n, t)
<1> DEFINE N == config.classes
           T == SUBSET {s \in SourceType : Injected(n, s)}
           start == {node[n]}
           next(c, S) == UNION {InjectClass(n, c - 1, s) : s \in S}
           body(f) == [c \in 0 .. N |-> IF c = 0 THEN start ELSE next(c, f[c - 1])]
           made == CHOOSE f : f = body(f)
           step == [c \in 1 .. N |-> [S \in T |-> next(c, S)]]
<1>1. t \in start \/ t \in made[N]
  BY DEF Inject
<1>2. N \in Nat /\ \A c \in 1 .. N : c - 1 \in Classes
  BY Sizes DEF Classes, Below
<1>3. Injected(n, node[n])
  <2>1. Made(n, node[n]) = {}
    BY DEF Made
  <2>2. MadeOwn(n, node[n]) = {} /\ \A x : MadeReplies(n, node[n], x) = {}
    BY <2>1 DEF MadeOwn, MadeReplies
  <2>3. node[n].requests \in Int /\ node[n].pending \in Seq(Reply)
    BY DEF SourceType
  <2>4. \A x : Many(node[n].pending, RepliesTo(x)) \in Nat
    BY <2>3, ManyType
  <2>5. Cardinality({}) = 0
    BY FS_EmptySet
  <2>6. \A x : Many(node[n].pending, RepliesTo(x)) + Cardinality(MadeReplies(n, node[n], x)) = Many(node[n].pending, RepliesTo(x))
    BY <2>2, <2>4, <2>5
  <2>7. node[n].requests = node[n].requests + IF config.batch = 0 THEN 0 ELSE Cardinality(MadeOwn(n, node[n]))
    BY <2>2, <2>3, <2>5
  <2> QED
    BY <2>1, <2>6, <2>7 DEF Injected
<1>4. start \in T
  BY <1>3
<1>5. ASSUME NEW c \in 1 .. N, NEW S \in T PROVE next(c, S) \in T
  <2>1. ASSUME NEW s \in S, NEW u \in InjectClass(n, c - 1, s) PROVE u \in SourceType /\ Injected(n, u)
    <3>1. Injected(n, s) /\ c - 1 \in Classes
      BY <1>2
    <3>2. Injected(n, u)
      BY <3>1, ClassInjects
    <3> QED
      BY <3>2 DEF Injected
  <2> QED
    BY <2>1
<1>6. \A S \in T : \A s \in S : Injected(n, s)
  OBVIOUS
<1> HIDE DEF next, T, start
<1>7. step \in [1 .. N -> [T -> T]] /\ \A c \in 1 .. N, S \in T : step[c][S] = next(c, S)
  BY <1>5
<1> HIDE DEF N, step
<1>8. PICK f : IsIteration(f, N, T, start, step)
  <2>1. N \in Nat /\ start \in T /\ step \in [1 .. N -> [T -> T]]
    BY <1>2, <1>4, <1>7
  <2> QED
    BY <2>1, Iterates
<1>9. f = body(f)
  <2>1. ASSUME NEW k \in 1 .. N PROVE f[k] = next(k, f[k - 1])
    <3>1. f[k - 1] \in T /\ f[k] = step[k][f[k - 1]]
      BY <1>2, <1>8 DEF IsIteration
    <3> QED
      BY <1>7, <3>1
  <2>2. \A k \in 0 .. N : f[k] = IF k = 0 THEN start ELSE next(k, f[k - 1])
    BY <1>2, <1>8, <2>1 DEF IsIteration
  <2> QED
    BY <1>8, <2>2 DEF IsIteration
<1>10. made = body(made)
  <2> HIDE DEF body
  <2> QED
    BY <1>9
<1> HIDE DEF made
<1>11. /\ made[0] = start
       /\ \A k \in 1 .. N : made[k] = next(k, made[k - 1])
  BY <1>2, <1>10
<1>12. \A k \in 0 .. N : made[k] \in T
  <2>1. N \in Nat /\ made[0] \in T
    BY <1>2, <1>4, <1>11
  <2>2. \A k \in 1 .. N : made[k - 1] \in T => made[k] \in T
    BY <1>5, <1>11
  <2> QED
    BY <2>1, <2>2, IteratesIn
<1>13. start \in T /\ made[N] \in T
  BY <1>2, <1>4, <1>12
<1> QED
  BY <1>1, <1>6, <1>13

-----------------------------------------------------------------------------
(* A source with its ports and the lines from them.                        *)
Partly(s, c, sub, vc) ==
  s.queue[c] # None /\ s.queue[c].sent > 0 /\ s.queue[c].packet.subnet = sub /\ s.queue[c].vc = vc
QueueGood(n, s, p) ==
  \A c \in Classes : s.queue[c] # None =>
    LET q == s.queue[c] IN
      /\ q.packet.src = n /\ q.packet.cl = c /\ q.sent < q.packet.size
      /\ q.sent = 0 => q.vc = None
      /\ q.sent > 0 => /\ q.vc \in VCs /\ p[q.packet.subnet].inUse[q.vc]
                       /\ p[q.packet.subnet].lastVC[c] = q.vc
OneHolder(s) ==
  \A c, d \in Classes, sub \in Subnets, vc \in VCs : Partly(s, c, sub, vc) /\ Partly(s, d, sub, vc) => c = d
UseHeld(s, p) ==
  \A sub \in Subnets, vc \in VCs : p[sub].inUse[vc] => \E c \in Classes : Partly(s, c, sub, vc)
InOrder(q) == \A i, j \in DOMAIN q : i < j /\ q[i][1] = q[j][1] => q[i][2] < q[j][2]
LineGood(n, s, l, sub, vc) ==
  /\ InOrder(l[sub][vc])
  /\ \A f \in Range(l[sub][vc]) :
       /\ f[1].src = n /\ f[1].subnet = sub
       /\ \A c \in Classes : s.queue[c] # None /\ s.queue[c].packet = f[1] => f[2] <= s.queue[c].sent /\ s.queue[c].vc = vc
       /\ \A w \in VCs : \A g \in Range(l[sub][w]) : g[1] = f[1] => w = vc
SourceGood(n, s, p, l) ==
  /\ s \in SourceType /\ p \in [Subnets -> PortType] /\ l \in LineType
  /\ QueueGood(n, s, p) /\ OneHolder(s) /\ UseHeld(s, p)
  /\ \A sub \in Subnets, vc \in VCs : LineGood(n, s, l, sub, vc)

(* All classes have the same priority, and connections are not held where  *)
(* there are several subnets.                                              *)
Orderly ==
  \A cf \in Configs : /\ \A c, d \in Below(cf.classes) : cf.pri[c] = cf.pri[d]
                      /\ cf.hold => cf.subnets = 1

(* The number of a class or VC that comes i after another one. *)
LEMMA Around ==
  ASSUME NEW a \in Int, NEW m \in Nat \ {0}
  PROVE  a % m \in 0 .. m - 1
OBVIOUS

(* The VC found for a head is free and has a slot. *)
LEMMA FirstVCFree ==
  ASSUME config \in Configs, NEW p \in PortType, NEW c \in Classes, NEW type \in Types
  PROVE  LET v == FirstVC(p, c, type) IN v = None \/ (v \in VCs /\ ~p.inUse[v] /\ ~IsFullFor(p, v))
<1> DEFINE range == config.range[type]
           count == range[2] - range[1] + 1
           at(i) == IF p.lastVC[c] \in range[1] .. range[2]
                    THEN range[1] + ((p.lastVC[c] - range[1] + i) % count)
                    ELSE range[1]
           usable == {i \in 1 .. count : ~p.inUse[at(i)] /\ ~IsFullFor(p, at(i))}
<1>1. range[1] \in VCs /\ range[2] \in range[1] .. config.vcs - 1 /\ config.vcs \in Nat
  BY ConfigsAssumption, Sizes DEF VCs
<1>2. range[1] \in Nat /\ range[2] \in Nat /\ range[1] <= range[2] /\ range[2] < config.vcs
  BY <1>1 DEF VCs, Below
<1>3. count \in Nat \ {0}
  BY <1>2
<1>4. ASSUME NEW i \in Nat PROVE at(i) \in VCs
  <2>1. CASE p.lastVC[c] \in range[1] .. range[2]
    <3> DEFINE m == p.lastVC[c] - range[1] + i
    <3>1. m \in Int
      BY <1>2, <2>1
    <3>2. m % count \in 0 .. count - 1
      <4> HIDE DEF m, count
      <4> QED
        BY <1>3, <3>1, Around
    <3>3. at(i) = range[1] + (m % count)
      BY <2>1
    <3>4. PICK r \in 0 .. count - 1 : at(i) = range[1] + r
      <4> HIDE DEF m, at, count, range
      <4> QED
        BY <3>2, <3>3
    <3>5. range[1] + r \in VCs
      <4>1. config.vcs \in Nat
        BY <1>1
      <4> HIDE DEF at, range
      <4> QED
        BY <1>2, <4>1 DEF VCs, Below
    <3> HIDE DEF at
    <3> QED
      BY <3>4, <3>5
  <2>2. CASE p.lastVC[c] \notin range[1] .. range[2]
    BY <1>1, <2>2
  <2> QED
    BY <2>1, <2>2
<1>5. FirstVC(p, c, type) = IF usable = {} THEN None ELSE at(Min(usable))
  BY DEF FirstVC
<1>6. CASE usable # {}
  <2>1. usable \subseteq Nat
    OBVIOUS
  <2>2. Min(usable) \in usable
    <3> HIDE DEF usable
    <3> QED
      BY <1>6, <2>1, LeastIn, Zenon
  <2>3. Min(usable) \in Nat /\ ~p.inUse[at(Min(usable))] /\ ~IsFullFor(p, at(Min(usable)))
    <3> HIDE DEF at, count
    <3> QED
      BY <2>1, <2>2
  <2>4. at(Min(usable)) \in VCs
    BY <1>4, <2>3, Zenon
  <2> HIDE DEF at, usable
  <2> QED
    BY <1>5, <1>6, <2>3, <2>4, Zenon
<1>7. CASE usable = {}
  BY <1>5, <1>7, Zenon
<1> QED
  BY <1>6, <1>7, Zenon

(* A VC that a class may send its next flit on. *)
Fits(sub, s, p, c, v) ==
  /\ s.queue[c] # None /\ s.queue[c].packet.subnet = sub /\ p.occupied[v] # config.room
  /\ s.queue[c].sent > 0 => v = s.queue[c].vc
  /\ s.queue[c].sent = 0 => ~p.inUse[v]
WithVC(s, c, v) == [s EXCEPT !.queue[c].vc = v]
ChoiceType == [s : SourceType, class : Classes \cup {None}]
Chosen(sub, s, p, t) ==
  /\ t.class = None => t.s = s
  /\ t.class # None => \E v \in VCs : Fits(sub, s, p, t.class, v) /\ t.s = WithVC(s, t.class, v)

(* A flit that has a VC. *)
LEMMA WithVCType ==
  ASSUME config \in Configs, NEW s \in SourceType, NEW c \in Classes, s.queue[c] # None, NEW v \in VCs \cup {None}
  PROVE  /\ WithVC(s, c, v) \in SourceType
         /\ WithVC(s, c, v).queue[c] = [s.queue[c] EXCEPT !.vc = v]
         /\ [s.queue[c] EXCEPT !.vc = v] \in Queueing
         /\ \A d \in Classes \ {c} : WithVC(s, c, v).queue[d] = s.queue[d]
         /\ v = s.queue[c].vc => WithVC(s, c, v) = s
<1>1. s.queue \in [Classes -> Queueing \cup {None}] /\ s.queue[c] \in Queueing
  BY DEF SourceType
<1> DEFINE q == [s.queue[c] EXCEPT !.vc = v]
<1>2. q \in Queueing /\ (v = s.queue[c].vc => q = s.queue[c])
  BY <1>1 DEF Queueing
<1>3. WithVC(s, c, v) = [s EXCEPT !.queue[c] = q]
  BY DEF WithVC
<1> HIDE DEF q
<1> DEFINE qs == [s.queue EXCEPT ![c] = q]
<1>4. qs \in [Classes -> Queueing \cup {None}] /\ qs[c] = q /\ \A d \in Classes \ {c} : qs[d] = s.queue[d]
  BY <1>1, <1>2
<1>5. q = s.queue[c] => qs = s.queue
  BY <1>1
<1>6. WithVC(s, c, v) = [s EXCEPT !.queue = qs]
  BY <1>3
<1> HIDE DEF qs
<1>7. WithVC(s, c, v) \in SourceType /\ WithVC(s, c, v).queue = qs
  BY <1>4, <1>6 DEF SourceType
<1>8. qs = s.queue => WithVC(s, c, v) = s
  BY <1>6 DEF SourceType
<1> QED
  BY <1>2, <1>4, <1>5, <1>7, <1>8 DEF q

(* The same, without the record. *)
LEMMA WithVCKept ==
  ASSUME config \in Configs, NEW s \in SourceType, NEW c \in Classes, s.queue[c] # None, NEW v \in VCs \cup {None}
  PROVE  /\ WithVC(s, c, v) \in SourceType
         /\ v = s.queue[c].vc => WithVC(s, c, v) = s
BY WithVCType, Zenon

(* A class is tried. *)
LEMMA TryKeeps ==
  ASSUME config \in Configs, Orderly, NEW n, NEW sub \in Subnets, NEW s, NEW ports, NEW l, SourceGood(n, s, ports, l),
         NEW t \in ChoiceType, Chosen(sub, s, ports[sub], t), NEW c \in Classes
  PROVE  Try(sub, ports[sub], t, c) \in ChoiceType /\ Chosen(sub, s, ports[sub], Try(sub, ports[sub], t, c))
<1> DEFINE p == ports[sub]
           q == t.s.queue[c]
           vc == IF q.sent = 0 /\ q.vc = None THEN FirstVC(p, c, q.packet.type) ELSE q.vc
           u == Try(sub, p, t, c)
<1>1. p \in PortType /\ s \in SourceType
  BY DEF SourceGood
<1>2. CASE q = None \/ q.packet.subnet # sub \/ t.class # None
  <2>1. t.class # None => config.pri[t.class] >= config.pri[c]
    <3>1. t.class # None => t.class \in Classes
      BY DEF ChoiceType
    <3>2. \A a, b \in Classes : config.pri[a] = config.pri[b] /\ config.pri[a] \in Int
      BY ConfigsAssumption DEF Orderly, Classes
    <3> QED
      BY <3>1, <3>2
  <2>2. u = t
    BY <1>2, <2>1 DEF Try
  <2> QED
    BY <2>2
<1>3. CASE q # None /\ q.packet.subnet = sub /\ t.class = None
  <2>1. t.s = s /\ q = s.queue[c] /\ q \in Queueing
    BY <1>1, <1>3, Zenon DEF Chosen, SourceType
  <2>2. /\ q.sent \in Nat /\ q.packet.type \in Types
        /\ q.sent = 0 => q.vc = None
        /\ q.sent > 0 => q.vc \in VCs
    BY <1>3, <2>1, Zenon DEF SourceGood, QueueGood, Queueing, PacketType
  <2>3. u = [s |-> WithVC(s, c, vc), class |-> IF vc # None /\ ~IsFullFor(p, vc) THEN c ELSE None]
    BY <1>3, <2>1 DEF Try, WithVC
  <2>4. FirstVC(p, c, q.packet.type) = None \/ (/\ FirstVC(p, c, q.packet.type) \in VCs
                                                /\ ~p.inUse[FirstVC(p, c, q.packet.type)]
                                                /\ ~IsFullFor(p, FirstVC(p, c, q.packet.type)))
    BY <1>1, <2>2, FirstVCFree
  <2>5. /\ vc \in VCs \cup {None}
        /\ q.sent > 0 => vc = q.vc
        /\ q.sent = 0 => vc = None \/ (~p.inUse[vc] /\ ~IsFullFor(p, vc))
        /\ vc = None => q.vc = None
    <3> HIDE DEF q, p
    <3>1. None \notin VCs
      BY NoneIsNone
    <3>2. CASE q.sent = 0
      BY <2>2, <2>4, <3>2
    <3>3. CASE q.sent > 0
      BY <2>2, <3>1, <3>3
    <3> QED
      BY <2>2, <3>2, <3>3
  <2> HIDE DEF vc, q, p, u
  <2>6. /\ WithVC(s, c, vc) \in SourceType
        /\ vc = q.vc => WithVC(s, c, vc) = s
    <3>1. s.queue[c] # None /\ q.vc = s.queue[c].vc
      BY <1>3, <2>1, Zenon
    <3>2. vc \in VCs \cup {None}
      BY <2>5, Zenon
    <3>3. /\ WithVC(s, c, vc) \in SourceType
          /\ vc = s.queue[c].vc => WithVC(s, c, vc) = s
      BY <1>1, <3>1, <3>2, WithVCKept, Zenon
    <3> QED
      BY <3>1, <3>3, Zenon
  <2>7. CASE vc # None /\ ~IsFullFor(p, vc)
    <3>1. u.s = WithVC(s, c, vc) /\ u.class = c /\ u \in ChoiceType
      BY <2>3, <2>6, <2>7 DEF ChoiceType
    <3>2. vc \in VCs /\ Fits(sub, s, p, c, vc)
      BY <1>3, <2>1, <2>5, <2>7 DEF Fits, IsFullFor
    <3>3. Chosen(sub, s, p, u)
      BY <3>1, <3>2, NoneIsNone DEF Chosen
    <3> QED
      BY <3>1, <3>3 DEF u, p
  <2>8. CASE ~(vc # None /\ ~IsFullFor(p, vc))
    <3>1. vc = q.vc
      BY <2>2, <2>5, <2>8
    <3>2. u = [s |-> s, class |-> None]
      BY <2>3, <2>6, <2>8, <3>1
    <3>3. u \in ChoiceType /\ Chosen(sub, s, p, u)
      BY <1>1, <3>2 DEF ChoiceType, Chosen
    <3> QED
      BY <3>3 DEF u, p
  <2> QED
    BY <2>7, <2>8
<1> QED
  BY <1>2, <1>3

(* A held connection is to this subnet, the only one. *)
LEMMA HeldFits ==
  ASSUME config \in Configs, Orderly, NEW n, NEW sub \in Subnets, NEW s, NEW ports, NEW l, SourceGood(n, s, ports, l),
         Held(s, ports[sub])
  PROVE  LET c == ports[sub].lastClass IN
           /\ c \in Classes /\ s.queue[c].vc \in VCs /\ Fits(sub, s, ports[sub], c, s.queue[c].vc)
           /\ s.queue[c].vc = ports[sub].lastVC[c]
<1> DEFINE c == ports[sub].lastClass
           q == s.queue[c]
<1>1. c \in Classes /\ q # None /\ q.sent > 0 /\ ports[sub].occupied[q.vc] # config.room /\ config.hold
  BY DEF Held, IsFullFor, SourceGood, PortType
<1>2. q \in Queueing /\ q.packet.subnet \in Subnets /\ q.sent \in Nat
  BY <1>1, Zenon DEF SourceGood, SourceType, Queueing, PacketType
<1>3. config.subnets = 1
  BY <1>1 DEF Orderly
<1>4. q.packet.subnet = sub
  BY <1>2, <1>3 DEF Subnets, Below
<1>5. q.vc \in VCs /\ ports[sub].lastVC[c] = q.vc
  <2>1. QueueGood(n, s, ports)
    BY Zenon DEF SourceGood
  <2>2. q.vc \in VCs /\ ports[q.packet.subnet].lastVC[c] = q.vc
    BY <1>1, <2>1, Zenon DEF QueueGood
  <2> QED
    BY <1>4, <2>2, Zenon
<1> QED
  BY <1>1, <1>2, <1>4, <1>5 DEF Fits

(* The flit that is chosen. *)
LEMMA ChoiceMade ==
  ASSUME config \in Configs, Orderly, NEW n, NEW sub \in Subnets, NEW s, NEW ports, NEW l, SourceGood(n, s, ports, l)
  PROVE  Choose(sub, s, ports[sub]) \in ChoiceType /\ Chosen(sub, s, ports[sub], Choose(sub, s, ports[sub]))
<1> DEFINE p == ports[sub]
           N == config.classes
           T == {t \in ChoiceType : Chosen(sub, s, p, t)}
           held == Held(s, p)
           start == [s |-> s, class |-> IF held THEN p.lastClass ELSE None]
           next(i, t) == Try(sub, p, t, (p.lastClass + i) % N)
           body(f) == [i \in 0 .. N |-> IF i = 0 THEN start ELSE next(i, f[i - 1])]
           tried == CHOOSE f : f = body(f)
           step == [i \in 1 .. N |-> [t \in T |-> next(i, t)]]
<1>1. Choose(sub, s, p) = tried[N - IF held THEN 1 ELSE 0]
  BY DEF Choose
<1>2. N \in Nat \ {0} /\ p \in PortType /\ s \in SourceType /\ p.lastClass \in Nat /\ p.lastClass \in Classes
  BY Sizes DEF SourceGood, PortType, Classes, Below
<1>3. start \in T
  <2>1. CASE held
    <3>1. start.class = p.lastClass /\ start.s = s /\ start \in ChoiceType
      BY <1>2, <2>1 DEF ChoiceType
    <3>2. p.lastClass # None
      BY <1>2, NoneIsNone
    <3>3. s.queue[p.lastClass].vc \in VCs /\ Fits(sub, s, p, p.lastClass, s.queue[p.lastClass].vc)
      BY <2>1, HeldFits
    <3>4. s.queue[p.lastClass] # None
      BY <3>3 DEF Fits
    <3>5. s = WithVC(s, p.lastClass, s.queue[p.lastClass].vc)
      <4> DEFINE d == p.lastClass
                 v == s.queue[d].vc
      <4>1. s \in SourceType /\ d \in Classes /\ s.queue[d] # None /\ v \in VCs \cup {None} /\ v = s.queue[d].vc
        BY <1>2, <3>3, <3>4, Zenon
      <4> HIDE DEF d, v
      <4>2. v = s.queue[d].vc => WithVC(s, d, v) = s
        BY <4>1, WithVCKept, Zenon
      <4>3. s = WithVC(s, d, v)
        BY <4>1, <4>2, Zenon
      <4> QED
        BY <4>3, Zenon DEF d, v
    <3> HIDE DEF p, start
    <3>6. Chosen(sub, s, p, start)
      BY <3>1, <3>3, <3>5 DEF Chosen
    <3> QED
      BY <3>1, <3>6
  <2>2. CASE ~held
    BY <1>2, <2>2 DEF ChoiceType, Chosen
  <2> QED
    BY <2>1, <2>2
<1>4. ASSUME NEW i \in 1 .. N, NEW t \in T PROVE next(i, t) \in T
  <2>1. (p.lastClass + i) % N \in Classes
    <3>1. p.lastClass + i \in Int
      BY <1>2
    <3> QED
      BY <1>2, <3>1, Around DEF Classes, Below
  <2>2. t \in ChoiceType /\ Chosen(sub, s, p, t)
    OBVIOUS
  <2> DEFINE c == (p.lastClass + i) % N
  <2> HIDE DEF c
  <2>3. Try(sub, p, t, c) \in ChoiceType /\ Chosen(sub, s, p, Try(sub, p, t, c))
    BY <2>1, <2>2, TryKeeps DEF c
  <2> QED
    BY <2>3 DEF c
<1> HIDE DEF next, start
<1>5. step \in [1 .. N -> [T -> T]] /\ \A i \in 1 .. N, t \in T : step[i][t] = next(i, t)
  <2> HIDE DEF T
  <2> QED
    BY <1>4
<1> HIDE DEF T, N, step
<1>6. PICK f : IsIteration(f, N, T, start, step)
  <2>1. N \in Nat /\ start \in T /\ step \in [1 .. N -> [T -> T]]
    BY <1>2, <1>3, <1>5
  <2> QED
    BY <2>1, Iterates
<1>7. f = body(f)
  <2>1. ASSUME NEW k \in 1 .. N PROVE f[k] = next(k, f[k - 1])
    <3>1. f[k - 1] \in T /\ f[k] = step[k][f[k - 1]]
      BY <1>2, <1>6 DEF IsIteration
    <3> QED
      BY <1>5, <3>1
  <2>2. \A k \in 0 .. N : f[k] = IF k = 0 THEN start ELSE next(k, f[k - 1])
    BY <1>2, <1>6, <2>1 DEF IsIteration
  <2> QED
    BY <1>6, <2>2 DEF IsIteration
<1>8. tried = body(tried)
  <2> HIDE DEF body
  <2> QED
    BY <1>7
<1> HIDE DEF tried
<1>9. tried[0] = start /\ \A k \in 1 .. N : tried[k] = next(k, tried[k - 1])
  BY <1>2, <1>8
<1>10. \A k \in 0 .. N : tried[k] \in T
  <2>1. N \in Nat /\ tried[0] \in T
    BY <1>2, <1>3, <1>9
  <2>2. \A k \in 1 .. N : tried[k - 1] \in T => tried[k] \in T
    BY <1>4, <1>9
  <2> QED
    BY <2>1, <2>2, IteratesIn
<1>11. Choose(sub, s, p) \in T
  <2>1. (N - IF held THEN 1 ELSE 0) \in 0 .. N
    BY <1>2
  <2> HIDE DEF held
  <2> QED
    BY <1>1, <1>10, <2>1
<1> QED
  BY <1>11 DEF T

(* What is sent goes from the queue of a class into a line. *)
SentOne(sub, c, v, s, p, l, s2, p2, l2) ==
  LET q == s.queue[c] IN
  /\ s2 \in SourceType /\ p2 \in [Subnets -> PortType] /\ l2 \in LineType
  /\ \A d \in Classes \ {c} : s2.queue[d] = s.queue[d]
  /\ s2.queue[c] = IF q.sent + 1 = q.packet.size THEN None ELSE [packet |-> q.packet, sent |-> q.sent + 1, vc |-> v]
  /\ \A a \in Subnets, w \in VCs : a # sub \/ w # v =>
       /\ p2[a].inUse[w] = p[a].inUse[w] /\ p2[a].occupied[w] = p[a].occupied[w] /\ l2[a][w] = l[a][w]
  /\ \A a \in Subnets, d \in Classes : a # sub \/ d # c => p2[a].lastVC[d] = p[a].lastVC[d]
  /\ p2[sub].inUse[v] = (q.sent + 1 # q.packet.size)
  /\ p2[sub].occupied[v] = p[sub].occupied[v] + 1
  /\ p2[sub].lastVC[c] = v
  /\ l2[sub][v] = Append(l[sub][v], <<q.packet, q.sent + 1>>)

(* The packet that is sent. *)
Going(n, s, p, sub, c, v) ==
  LET q == s.queue[c] IN
  /\ q \in Queueing /\ q # None /\ q.packet \in PacketType /\ q.sent \in Nat /\ q.packet.size \in Nat \ {0}
  /\ q.sent < q.packet.size /\ q.packet.src = n /\ q.packet.cl = c /\ q.packet.subnet = sub
  /\ <<q.packet, q.sent + 1>> \in FlitType
  /\ q.sent > 0 => v = q.vc /\ Partly(s, c, sub, v)
  /\ q.sent = 0 => q.vc = None /\ ~p[sub].inUse[v]
  /\ \A d \in Classes \ {c} : ~Partly(s, d, sub, v)
  /\ \A d \in Classes \ {c} : s.queue[d] # None => s.queue[d].packet # q.packet
(* A flit that is sent: what a source and its port are before and after. *)
LEMMA SentFacts ==
  ASSUME config \in Configs, NEW n, NEW s, NEW p, NEW l, SourceGood(n, s, p, l),
         NEW c \in Classes, NEW v \in VCs, NEW sub \in Subnets, Fits(sub, s, p[sub], c, v)
  PROVE  Going(n, s, p, sub, c, v)
<1> DEFINE q == s.queue[c]
<1>1. q # None /\ q \in Queueing
  BY DEF Fits, SourceGood, SourceType
<1>2. q.packet \in PacketType /\ q.sent \in Nat /\ q.packet.size \in Nat \ {0}
  BY <1>1 DEF Queueing, PacketType
<1>3. /\ q.sent < q.packet.size /\ q.packet.src = n /\ q.packet.cl = c /\ q.packet.subnet = sub
      /\ q.sent = 0 => q.vc = None /\ ~p[sub].inUse[v]
      /\ q.sent > 0 => v = q.vc
  BY <1>1 DEF Fits, SourceGood, QueueGood
<1>4. <<q.packet, q.sent + 1>> \in FlitType
  BY <1>2, <1>3 DEF FlitType
<1>5. q.sent > 0 => Partly(s, c, sub, v)
  BY <1>1, <1>3 DEF Partly
<1>6. ASSUME NEW d \in Classes \ {c}, Partly(s, d, sub, v) PROVE FALSE
  <2>1. CASE q.sent = 0
    <3>1. p[sub].inUse[v]
      BY <1>6 DEF Partly, SourceGood, QueueGood
    <3> QED
      BY <1>3, <2>1, <3>1
  <2>2. CASE q.sent > 0
    BY <1>5, <1>6, <2>2, Zenon DEF SourceGood, OneHolder
  <2> QED
    BY <1>2, <2>1, <2>2
<1>7. ASSUME NEW d \in Classes \ {c}, s.queue[d] # None, s.queue[d].packet = q.packet PROVE FALSE
  BY <1>3, <1>7 DEF SourceGood, QueueGood
<1> QED
  BY <1>1, <1>2, <1>3, <1>4, <1>5, <1>6, <1>7 DEF Going

(* The queues after it. *)
LEMMA SentQueues ==
  ASSUME config \in Configs, NEW n, NEW s, NEW p, NEW l, SourceGood(n, s, p, l),
         NEW c \in Classes, NEW v \in VCs, NEW sub \in Subnets, Fits(sub, s, p[sub], c, v),
         NEW s2, NEW p2, NEW l2, SentOne(sub, c, v, s, p, l, s2, p2, l2)
  PROVE  QueueGood(n, s2, p2) /\ OneHolder(s2) /\ UseHeld(s2, p2)
<1> DEFINE q == s.queue[c]
<1>1. /\ q \in Queueing /\ q # None /\ q.packet \in PacketType /\ q.sent \in Nat /\ q.packet.size \in Nat \ {0}
      /\ q.sent < q.packet.size /\ q.packet.src = n /\ q.packet.cl = c /\ q.packet.subnet = sub
      /\ q.sent > 0 => v = q.vc /\ Partly(s, c, sub, v)
      /\ q.sent = 0 => q.vc = None /\ ~p[sub].inUse[v]
      /\ \A d \in Classes \ {c} : ~Partly(s, d, sub, v)
  <2>1. Going(n, s, p, sub, c, v)
    BY SentFacts
  <2> QED
    BY <2>1 DEF Going
<1>2. \A d \in Classes \ {c} : s2.queue[d] = s.queue[d]
  BY DEF SentOne
<1>3. CASE q.sent + 1 = q.packet.size
  <2>1. s2.queue[c] = None
    BY <1>3 DEF SentOne
  <2>2. \A a, w : ~Partly(s2, c, a, w)
    BY <2>1 DEF Partly
  <2>3. \A d \in Classes \ {c} : \A a, w : Partly(s2, d, a, w) <=> Partly(s, d, a, w)
    BY <1>2 DEF Partly
  <2>4. ~p2[sub].inUse[v]
    BY <1>3 DEF SentOne
  <2>5. OneHolder(s2)
    BY <2>2, <2>3 DEF SourceGood, OneHolder
  <2>6. UseHeld(s2, p2)
    <3> SUFFICES ASSUME NEW a \in Subnets, NEW w \in VCs, p2[a].inUse[w] PROVE \E d \in Classes : Partly(s2, d, a, w)
      BY DEF UseHeld
    <3>1. a # sub \/ w # v
      BY <2>4
    <3>2. p[a].inUse[w]
      BY <3>1 DEF SentOne
    <3>3. PICK d \in Classes : Partly(s, d, a, w)
      BY <3>2 DEF SourceGood, UseHeld
    <3>4. d # c
      BY <1>1, <3>1, <3>3, Zenon DEF Partly
    <3> QED
      BY <2>3, <3>3, <3>4
  <2>7. QueueGood(n, s2, p2)
    <3> SUFFICES ASSUME NEW d \in Classes, s2.queue[d] # None
                 PROVE  LET r == s2.queue[d] IN
                        /\ r.packet.src = n /\ r.packet.cl = d /\ r.sent < r.packet.size
                        /\ r.sent = 0 => r.vc = None
                        /\ r.sent > 0 => /\ r.vc \in VCs /\ p2[r.packet.subnet].inUse[r.vc]
                                         /\ p2[r.packet.subnet].lastVC[d] = r.vc
      BY Zenon DEF QueueGood
    <3>0. /\ \A a \in Subnets, w \in VCs : a # sub \/ w # v => p2[a].inUse[w] = p[a].inUse[w]
          /\ \A a \in Subnets, k \in Classes : a # sub \/ k # c => p2[a].lastVC[k] = p[a].lastVC[k]
      BY Zenon DEF SentOne
    <3> DEFINE r == s.queue[d]
    <3>1. d # c /\ s2.queue[d] = r
      BY <1>2, <2>1
    <3>2. /\ r.packet.src = n /\ r.packet.cl = d /\ r.sent < r.packet.size
          /\ r.sent = 0 => r.vc = None
          /\ r.sent > 0 => /\ r.vc \in VCs /\ p[r.packet.subnet].inUse[r.vc]
                           /\ p[r.packet.subnet].lastVC[d] = r.vc
      BY <3>1, Zenon DEF SourceGood, QueueGood
    <3>3. r.packet.subnet \in Subnets
      BY <3>1, Zenon DEF SourceGood, SourceType, Queueing, PacketType
    <3>4. r.sent > 0 => r.packet.subnet # sub \/ r.vc # v
      <4>1. ~Partly(s, d, sub, v)
        BY <1>1, <3>1
      <4> QED
        BY <3>1, <4>1 DEF Partly
    <3>5. r.sent > 0 => p2[r.packet.subnet].inUse[r.vc] /\ p2[r.packet.subnet].lastVC[d] = r.vc
      <4> HIDE DEF r
      <4> QED
        BY <3>0, <3>1, <3>2, <3>3, <3>4, Zenon
    <3> QED
      BY <3>1, <3>2, <3>5, Zenon
  <2> QED
    BY <2>5, <2>6, <2>7
<1>4. CASE q.sent + 1 # q.packet.size
  <2> DEFINE e == [packet |-> q.packet, sent |-> q.sent + 1, vc |-> v]
  <2>1. s2.queue[c] = e
    BY <1>4 DEF SentOne
  <2>2. e.packet = q.packet /\ e.sent = q.sent + 1 /\ e.vc = v /\ e # None
    <3>1. e \in Queueing
      BY <1>1 DEF Queueing
    <3> QED
      BY <3>1, NoneIsNone
  <2> HIDE DEF e
  <2>3. \A a, w : Partly(s2, c, a, w) <=> a = sub /\ w = v
    BY <1>1, <2>1, <2>2 DEF Partly
  <2>4. \A d \in Classes \ {c} : \A a, w : Partly(s2, d, a, w) <=> Partly(s, d, a, w)
    BY <1>2 DEF Partly
  <2>5. p2[sub].inUse[v] /\ p2[sub].lastVC[c] = v
    BY <1>4 DEF SentOne
  <2>6. OneHolder(s2)
    <3> SUFFICES ASSUME NEW d \in Classes, NEW e1 \in Classes, NEW a \in Subnets, NEW w \in VCs,
                        Partly(s2, d, a, w), Partly(s2, e1, a, w)
                 PROVE  d = e1
      BY DEF OneHolder
    <3>1. CASE d # c /\ e1 # c
      BY <2>4, <3>1 DEF SourceGood, OneHolder
    <3>2. CASE d = c /\ e1 # c
      BY <1>1, <2>3, <2>4, <3>2
    <3>3. CASE d # c /\ e1 = c
      BY <1>1, <2>3, <2>4, <3>3
    <3> QED
      BY <3>1, <3>2, <3>3
  <2>7. UseHeld(s2, p2)
    <3> SUFFICES ASSUME NEW a \in Subnets, NEW w \in VCs, p2[a].inUse[w] PROVE \E d \in Classes : Partly(s2, d, a, w)
      BY DEF UseHeld
    <3>1. CASE a = sub /\ w = v
      BY <2>3, <3>1, Zenon
    <3>2. CASE a # sub \/ w # v
      <4>1. p[a].inUse[w]
        BY <3>2 DEF SentOne
      <4>2. PICK d \in Classes : Partly(s, d, a, w)
        BY <4>1 DEF SourceGood, UseHeld
      <4>3. d # c
        BY <1>1, <3>2, <4>2, Zenon DEF Partly
      <4> QED
        BY <2>4, <4>2, <4>3
    <3> QED
      BY <3>1, <3>2
  <2>8. QueueGood(n, s2, p2)
    <3> SUFFICES ASSUME NEW d \in Classes, s2.queue[d] # None
                 PROVE  LET r == s2.queue[d] IN
                        /\ r.packet.src = n /\ r.packet.cl = d /\ r.sent < r.packet.size
                        /\ r.sent = 0 => r.vc = None
                        /\ r.sent > 0 => /\ r.vc \in VCs /\ p2[r.packet.subnet].inUse[r.vc]
                                         /\ p2[r.packet.subnet].lastVC[d] = r.vc
      BY Zenon DEF QueueGood
    <3>0. /\ \A a \in Subnets, w \in VCs : a # sub \/ w # v => p2[a].inUse[w] = p[a].inUse[w]
          /\ \A a \in Subnets, k \in Classes : a # sub \/ k # c => p2[a].lastVC[k] = p[a].lastVC[k]
      BY Zenon DEF SentOne
    <3>1. CASE d = c
      <4>1. e.packet.src = n /\ e.packet.cl = c /\ e.packet.subnet = sub
        BY <1>1, <2>2
      <4>2. e.sent < e.packet.size /\ e.sent # 0
        <5> HIDE DEF q
        <5> QED
          BY <1>1, <1>4, <2>2
      <4>3. e.vc \in VCs /\ p2[e.packet.subnet].inUse[e.vc] /\ p2[e.packet.subnet].lastVC[c] = e.vc
        BY <2>2, <2>5, <4>1
      <4> QED
        BY <2>1, <3>1, <4>1, <4>2, <4>3, Zenon
    <3>2. CASE d # c
      <4> DEFINE r == s.queue[d]
      <4>1. s2.queue[d] = r
        BY <1>2, <3>2, Zenon
      <4>2. /\ r.packet.src = n /\ r.packet.cl = d /\ r.sent < r.packet.size
            /\ r.sent = 0 => r.vc = None
            /\ r.sent > 0 => /\ r.vc \in VCs /\ p[r.packet.subnet].inUse[r.vc]
                             /\ p[r.packet.subnet].lastVC[d] = r.vc
        BY <4>1, Zenon DEF SourceGood, QueueGood
      <4>3. r.packet.subnet \in Subnets
        BY <4>1, Zenon DEF SourceGood, SourceType, Queueing, PacketType
      <4>4. r.sent > 0 => r.packet.subnet # sub \/ r.vc # v
        <5>1. ~Partly(s, d, sub, v)
          BY <1>1, <3>2
        <5> QED
          BY <4>1, <5>1 DEF Partly
      <4>5. r.sent > 0 => p2[r.packet.subnet].inUse[r.vc] /\ p2[r.packet.subnet].lastVC[d] = r.vc
        <5> HIDE DEF r
        <5> QED
          BY <3>0, <3>2, <4>2, <4>3, <4>4, Zenon
      <4> QED
        BY <4>1, <4>2, <4>5, Zenon
    <3> QED
      BY <3>1, <3>2, Zenon
  <2> QED
    BY <2>6, <2>7, <2>8
<1> QED
  BY <1>3, <1>4

(* The members of a line to which one is appended. *)
LEMMA RangeAppend ==
  ASSUME NEW T, NEW q \in Seq(T), NEW e \in T
  PROVE  /\ Range(Append(q, e)) = Range(q) \cup {e}
         /\ InOrder(q) /\ (\A f \in Range(q) : f[1] = e[1] => f[2] < e[2]) => InOrder(Append(q, e))
<1> DEFINE m == Len(q) + 1
           r == Append(q, e)
<1>1. /\ Len(q) \in Nat /\ DOMAIN q = 1 .. Len(q)
      /\ DOMAIN r = 1 .. m /\ r[m] = e /\ \A i \in 1 .. Len(q) : r[i] = q[i]
  BY AppendProperties
<1> HIDE DEF r
<1>2. Range(r) = Range(q) \cup {e}
  <2>1. ASSUME NEW f \in Range(r) PROVE f \in Range(q) \cup {e}
    <3>1. PICK i \in 1 .. m : f = r[i]
      BY <1>1 DEF Range
    <3>2. i = m \/ i \in 1 .. Len(q)
      BY <1>1
    <3> QED
      BY <1>1, <3>1, <3>2 DEF Range
  <2>2. ASSUME NEW f \in Range(q) PROVE f \in Range(r)
    <3>1. PICK i \in 1 .. Len(q) : f = q[i]
      BY <1>1 DEF Range
    <3>2. i \in 1 .. m /\ r[i] = f
      BY <1>1, <3>1
    <3> QED
      BY <1>1, <3>2 DEF Range
  <2>3. e \in Range(r)
    <3>1. m \in 1 .. m
      BY <1>1
    <3> QED
      BY <1>1, <3>1 DEF Range
  <2> QED
    BY <2>1, <2>2, <2>3
<1>3. ASSUME InOrder(q), \A f \in Range(q) : f[1] = e[1] => f[2] < e[2] PROVE InOrder(r)
  <2> SUFFICES ASSUME NEW i \in 1 .. m, NEW j \in 1 .. m, i < j, r[i][1] = r[j][1] PROVE r[i][2] < r[j][2]
    BY <1>1 DEF InOrder
  <2>1. i \in 1 .. Len(q) /\ r[i] = q[i] /\ q[i] \in Range(q)
    <3>1. i \in 1 .. Len(q)
      BY <1>1
    <3> QED
      BY <1>1, <3>1 DEF Range
  <2>2. CASE j = m
    BY <1>1, <1>3, <2>1, <2>2
  <2>3. CASE j # m
    <3>1. j \in 1 .. Len(q) /\ r[j] = q[j]
      BY <1>1, <2>3
    <3> QED
      BY <1>1, <1>3, <2>1, <3>1 DEF InOrder
  <2> QED
    BY <2>2, <2>3
<1> QED
  BY <1>2, <1>3 DEF r

(* The lines after it. *)
LEMMA SentLines ==
  ASSUME config \in Configs, NEW n, NEW s, NEW p, NEW l, SourceGood(n, s, p, l),
         NEW c \in Classes, NEW v \in VCs, NEW sub \in Subnets, Fits(sub, s, p[sub], c, v),
         NEW s2, NEW p2, NEW l2, SentOne(sub, c, v, s, p, l, s2, p2, l2)
  PROVE  \A a \in Subnets, w \in VCs : LineGood(n, s2, l2, a, w)
<1> DEFINE q == s.queue[c]
           e == <<q.packet, q.sent + 1>>
           k == q.sent
<1>1. Going(n, s, p, sub, c, v)
  BY SentFacts
<1>2. /\ q # None /\ q.packet \in PacketType /\ k \in Nat /\ q.packet.size \in Nat \ {0}
      /\ k < q.packet.size /\ q.packet.src = n /\ q.packet.cl = c /\ q.packet.subnet = sub
      /\ e \in FlitType /\ e[1] = q.packet /\ e[2] = k + 1
      /\ k > 0 => v = q.vc
      /\ \A d \in Classes \ {c} : s.queue[d] # None => s.queue[d].packet # q.packet
  BY <1>1 DEF Going
<1>3. \A a \in Subnets, w \in VCs : l[a][w] \in Seq(FlitType) /\ LineGood(n, s, l, a, w)
  BY DEF SourceGood, LineType
<1>4. \A a \in Subnets, w \in VCs : \A f \in Range(l[a][w]) : f \in FlitType
  BY <1>3 DEF Range
(* Of the packet that is sent, the flits before are on the line. *)
<1>5. ASSUME NEW a \in Subnets, NEW w \in VCs, NEW f \in Range(l[a][w]), f[1] = q.packet
      PROVE  f[2] <= k /\ a = sub /\ w = v /\ k > 0
  <2>1. f[1].subnet = a /\ f[2] <= k /\ q.vc = w
    BY <1>2, <1>3, <1>5 DEF LineGood
  <2>2. f[2] \in Nat /\ f[2] >= 1
    BY <1>4 DEF FlitType
  <2> QED
    BY <1>2, <1>5, <2>1, <2>2
<1>6. Range(l2[sub][v]) = Range(l[sub][v]) \cup {e} /\ InOrder(l2[sub][v])
  <2>1. l2[sub][v] = Append(l[sub][v], e)
    BY DEF SentOne
  <2>2. \A f \in Range(l[sub][v]) : f[1] = e[1] => f[2] < e[2]
    <3>1. ASSUME NEW f \in Range(l[sub][v]), f[1] = e[1] PROVE f[2] < e[2]
      <4>1. f[2] <= k
        BY <1>2, <1>5, <3>1
      <4>2. f[2] \in Nat
        BY <1>4 DEF FlitType
      <4> QED
        BY <1>2, <4>1, <4>2
    <3> QED
      BY <3>1
  <2>3. InOrder(l[sub][v]) /\ l[sub][v] \in Seq(FlitType) /\ e \in FlitType
    BY <1>2, <1>3 DEF LineGood
  <2> HIDE DEF e
  <2> QED
    BY <2>1, <2>2, <2>3, RangeAppend
<1>7. \A a \in Subnets, w \in VCs : a # sub \/ w # v => l2[a][w] = l[a][w]
  BY DEF SentOne
<1>8. ASSUME NEW d \in Classes, s2.queue[d] # None
      PROVE  \/ d # c /\ s2.queue[d] = s.queue[d]
             \/ d = c /\ s2.queue[d].packet = q.packet /\ s2.queue[d].sent = k + 1 /\ s2.queue[d].vc = v
  BY <1>8 DEF SentOne
(* Where a flit of a line after it was before. *)
<1>9. ASSUME NEW a \in Subnets, NEW w \in VCs, NEW f \in Range(l2[a][w])
      PROVE  f \in Range(l[a][w]) \/ (f = e /\ a = sub /\ w = v)
  BY <1>6, <1>7
<1> HIDE DEF e, q, k
<1> SUFFICES ASSUME NEW a \in Subnets, NEW w \in VCs PROVE LineGood(n, s2, l2, a, w)
  OBVIOUS
<1>10. InOrder(l2[a][w])
  BY <1>3, <1>6, <1>7 DEF LineGood
<1>11. ASSUME NEW f \in Range(l2[a][w])
       PROVE  /\ f[1].src = n /\ f[1].subnet = a
              /\ \A d \in Classes : s2.queue[d] # None /\ s2.queue[d].packet = f[1]
                   => f[2] <= s2.queue[d].sent /\ s2.queue[d].vc = w
              /\ \A x \in VCs : \A g \in Range(l2[a][x]) : g[1] = f[1] => x = w
  <2>1. CASE f = e /\ a = sub /\ w = v
    <3>1. f[1].src = n /\ f[1].subnet = a
      BY <1>2, <2>1
    <3>2. ASSUME NEW d \in Classes, s2.queue[d] # None, s2.queue[d].packet = f[1]
          PROVE  f[2] <= s2.queue[d].sent /\ s2.queue[d].vc = w
      <4>1. d = c
        BY <1>2, <1>8, <2>1, <3>2 DEF q
      <4> QED
        BY <1>2, <1>8, <2>1, <3>2, <4>1
    <3>3. ASSUME NEW x \in VCs, NEW g \in Range(l2[a][x]), g[1] = f[1] PROVE x = w
      BY <1>2, <1>5, <1>9, <2>1, <3>3
    <3> QED
      BY <3>1, <3>2, <3>3
  <2>2. CASE f \in Range(l[a][w])
    <3>1. f[1].src = n /\ f[1].subnet = a
      BY <1>3, <2>2 DEF LineGood
    <3>2. ASSUME NEW d \in Classes, s2.queue[d] # None, s2.queue[d].packet = f[1]
          PROVE  f[2] <= s2.queue[d].sent /\ s2.queue[d].vc = w
      <4>1. CASE d # c
        <5>1. s2.queue[d] = s.queue[d]
          BY <1>8, <3>2, <4>1
        <5> QED
          BY <1>3, <2>2, <3>2, <5>1 DEF LineGood
      <4>2. CASE d = c
        <5>1. s2.queue[d].packet = q.packet /\ s2.queue[d].sent = k + 1 /\ s2.queue[d].vc = v
          BY <1>8, <3>2, <4>2
        <5>2. f[2] <= k /\ w = v
          BY <1>5, <2>2, <3>2, <5>1
        <5>3. f[2] \in Nat
          BY <1>4, <2>2 DEF FlitType
        <5> QED
          BY <1>2, <5>1, <5>2, <5>3
      <4> QED
        BY <4>1, <4>2
    <3>3. ASSUME NEW x \in VCs, NEW g \in Range(l2[a][x]), g[1] = f[1] PROVE x = w
      <4>1. CASE g \in Range(l[a][x])
        BY <1>3, <2>2, <3>3, <4>1 DEF LineGood
      <4>2. CASE g = e /\ a = sub /\ x = v
        BY <1>2, <1>5, <2>2, <3>3, <4>2
      <4> QED
        BY <1>9, <4>1, <4>2
    <3> QED
      BY <3>1, <3>2, <3>3
  <2> QED
    BY <1>9, <2>1, <2>2
<1> QED
  BY <1>10, <1>11 DEF LineGood

(* A flit waits at a source, or is on a line of it. *)
AtSource(s, f) == \E c \in Classes : s.queue[c] # None /\ f \in Flits(s.queue[c].packet) /\ f[2] > s.queue[c].sent
OnLine(l, f) == \E sub \in Subnets, vc \in VCs : f \in Range(l[sub][vc])

(* What a source has sent, as its ports and lines show it. *)
HasSent(s, p, l, s2, p2, l2) ==
  /\ s2.pending = s.pending /\ s2.requests = s.requests
  /\ \A c \in Classes : s2.queue[c] # None =>
       s.queue[c] # None /\ s2.queue[c].packet = s.queue[c].packet /\ s2.queue[c].sent >= s.queue[c].sent
  /\ \A sub \in Subnets, vc \in VCs : \A f \in Range(l2[sub][vc]) :
       f \in Range(l[sub][vc]) \/ \E c \in Classes : s.queue[c] # None /\ f[1] = s.queue[c].packet /\ f[2] > s.queue[c].sent
  /\ \A f : AtSource(s2, f) \/ OnLine(l2, f) <=> AtSource(s, f) \/ OnLine(l, f)
  /\ \A sub \in Subnets, vc \in VCs :
       p2[sub].occupied[vc] + Len(l[sub][vc]) = p[sub].occupied[vc] + Len(l2[sub][vc])

(* A source that sends nothing has sent what it says. *)
LEMMA SentNothing ==
  ASSUME config \in Configs, NEW n, NEW s, NEW p, NEW l, SourceGood(n, s, p, l)
  PROVE  HasSent(s, p, l, s, p, l)
<1>1. \A c \in Classes : s.queue[c] # None => s.queue[c].sent >= s.queue[c].sent
  BY DEF SourceGood, SourceType, Queueing
<1> QED
  BY <1>1 DEF HasSent

(* What is sent on one subnet after another is sent on both. *)
LEMMA SentMore ==
  ASSUME config \in Configs, NEW n, NEW s, NEW p, NEW l, SourceGood(n, s, p, l),
         NEW s2, NEW p2, NEW l2, SourceGood(n, s2, p2, l2), HasSent(s, p, l, s2, p2, l2),
         NEW s3, NEW p3, NEW l3, SourceGood(n, s3, p3, l3), HasSent(s2, p2, l2, s3, p3, l3)
  PROVE  HasSent(s, p, l, s3, p3, l3)
<1>1. s3.pending = s.pending /\ s3.requests = s.requests
  BY DEF HasSent
<1>2. ASSUME NEW c \in Classes, s3.queue[c] # None
      PROVE  s.queue[c] # None /\ s3.queue[c].packet = s.queue[c].packet /\ s3.queue[c].sent >= s.queue[c].sent
  <2>1. s2.queue[c] # None /\ s3.queue[c].packet = s2.queue[c].packet /\ s3.queue[c].sent >= s2.queue[c].sent
    BY <1>2 DEF HasSent
  <2>2. s.queue[c] # None /\ s2.queue[c].packet = s.queue[c].packet /\ s2.queue[c].sent >= s.queue[c].sent
    BY <2>1 DEF HasSent
  <2>3. s.queue[c].sent \in Nat /\ s2.queue[c].sent \in Nat /\ s3.queue[c].sent \in Nat
    BY <1>2, <2>1, <2>2 DEF SourceGood, SourceType, Queueing
  <2> QED
    BY <2>1, <2>2, <2>3
<1>3. ASSUME NEW sub \in Subnets, NEW vc \in VCs, NEW f \in Range(l3[sub][vc])
      PROVE  f \in Range(l[sub][vc]) \/ \E c \in Classes : s.queue[c] # None /\ f[1] = s.queue[c].packet /\ f[2] > s.queue[c].sent
  <2>1. CASE f \in Range(l2[sub][vc])
    BY <2>1 DEF HasSent
  <2>2. ASSUME NEW c \in Classes, s2.queue[c] # None, f[1] = s2.queue[c].packet, f[2] > s2.queue[c].sent
        PROVE  s.queue[c] # None /\ f[1] = s.queue[c].packet /\ f[2] > s.queue[c].sent
    <3>1. s.queue[c] # None /\ s2.queue[c].packet = s.queue[c].packet /\ s2.queue[c].sent >= s.queue[c].sent
      BY <2>2 DEF HasSent
    <3>2. s.queue[c].sent \in Nat /\ s2.queue[c].sent \in Nat
      BY <2>2, <3>1 DEF SourceGood, SourceType, Queueing
    <3>3. f \in FlitType
      BY DEF SourceGood, LineType, Range
    <3>4. f[2] \in Nat
      BY <3>3 DEF FlitType
    <3> QED
      BY <2>2, <3>1, <3>2, <3>4
  <2>3. f \in Range(l2[sub][vc]) \/ \E c \in Classes : s2.queue[c] # None /\ f[1] = s2.queue[c].packet /\ f[2] > s2.queue[c].sent
    BY DEF HasSent
  <2> QED
    BY <2>1, <2>2, <2>3
<1>4. ASSUME NEW f
      PROVE  AtSource(s3, f) \/ OnLine(l3, f) <=> AtSource(s, f) \/ OnLine(l, f)
  <2>1. AtSource(s3, f) \/ OnLine(l3, f) <=> AtSource(s2, f) \/ OnLine(l2, f)
    BY DEF HasSent
  <2>2. AtSource(s2, f) \/ OnLine(l2, f) <=> AtSource(s, f) \/ OnLine(l, f)
    BY DEF HasSent
  <2> QED
    BY <2>1, <2>2
<1>5. ASSUME NEW sub \in Subnets, NEW vc \in VCs
      PROVE  p3[sub].occupied[vc] + Len(l[sub][vc]) = p[sub].occupied[vc] + Len(l3[sub][vc])
  <2>1. /\ p2[sub].occupied[vc] + Len(l[sub][vc]) = p[sub].occupied[vc] + Len(l2[sub][vc])
        /\ p3[sub].occupied[vc] + Len(l2[sub][vc]) = p2[sub].occupied[vc] + Len(l3[sub][vc])
    BY DEF HasSent
  <2>2. p[sub].occupied[vc] \in Nat /\ p2[sub].occupied[vc] \in Nat /\ p3[sub].occupied[vc] \in Nat
    <3>1. p[sub] \in PortType /\ p2[sub] \in PortType /\ p3[sub] \in PortType
      BY DEF SourceGood
    <3> QED
      BY <3>1 DEF PortType
  <2>3. Len(l[sub][vc]) \in Nat /\ Len(l2[sub][vc]) \in Nat /\ Len(l3[sub][vc]) \in Nat
    <3>1. l[sub][vc] \in Seq(FlitType) /\ l2[sub][vc] \in Seq(FlitType) /\ l3[sub][vc] \in Seq(FlitType)
      BY DEF SourceGood, LineType
    <3> QED
      BY <3>1
  <2> DEFINE a1 == p[sub].occupied[vc]
             a2 == p2[sub].occupied[vc]
             a3 == p3[sub].occupied[vc]
             x1 == Len(l[sub][vc])
             x2 == Len(l2[sub][vc])
             x3 == Len(l3[sub][vc])
  <2>4. {a1, a2, a3, x1, x2, x3} \subseteq Nat /\ a2 + x1 = a1 + x2 /\ a3 + x2 = a2 + x3
    BY <2>1, <2>2, <2>3
  <2>5. a3 + x1 = a1 + x3
    <3> HIDE DEF a1, a2, a3, x1, x2, x3
    <3> QED
      BY <2>4
  <2> QED
    BY <2>5
<1> QED
  BY <1>1, <1>2, <1>3, <1>4, <1>5 DEF HasSent

(* One flit. *)
LEMMA SentOneGood ==
  ASSUME config \in Configs, NEW n, NEW s, NEW p, NEW l, SourceGood(n, s, p, l),
         NEW c \in Classes, NEW v \in VCs, NEW sub \in Subnets, Fits(sub, s, p[sub], c, v),
         NEW s2, NEW p2, NEW l2, SentOne(sub, c, v, s, p, l, s2, p2, l2),
         s2.pending = s.pending, s2.requests = s.requests
  PROVE  SourceGood(n, s2, p2, l2) /\ HasSent(s, p, l, s2, p2, l2)
<1> DEFINE q == s.queue[c]
           e == <<q.packet, q.sent + 1>>
           k == q.sent
<1>1. SourceGood(n, s2, p2, l2)
  <2>1. s2 \in SourceType /\ p2 \in [Subnets -> PortType] /\ l2 \in LineType
    BY DEF SentOne
  <2> QED
    BY <2>1, SentQueues, SentLines DEF SourceGood
<1>2. Going(n, s, p, sub, c, v)
  BY SentFacts
<1>3. /\ q # None /\ q.packet \in PacketType /\ k \in Nat /\ q.packet.size \in Nat \ {0}
      /\ k < q.packet.size /\ e \in FlitType /\ e[1] = q.packet /\ e[2] = k + 1
  BY <1>2 DEF Going
<1>4. ASSUME NEW d \in Classes, s2.queue[d] # None
      PROVE  \/ d # c /\ s2.queue[d] = s.queue[d]
             \/ d = c /\ s2.queue[d].packet = q.packet /\ s2.queue[d].sent = k + 1
  BY <1>4 DEF SentOne
<1>5. /\ s2.queue[c] = None => k + 1 = q.packet.size
      /\ \A d \in Classes \ {c} : s2.queue[d] = s.queue[d]
  <2>1. None \notin Queueing
    BY NoneIsNone
  <2>2. v \in VCs /\ [packet |-> q.packet, sent |-> k + 1, vc |-> v] \in Queueing
    BY <1>3 DEF Queueing
  <2> QED
    BY <2>1, <2>2 DEF SentOne
<1>6. \A a \in Subnets, w \in VCs : l[a][w] \in Seq(FlitType)
  BY DEF SourceGood, LineType
<1>7. Range(l2[sub][v]) = Range(l[sub][v]) \cup {e}
  <2>1. l2[sub][v] = Append(l[sub][v], e)
    BY DEF SentOne
  <2> HIDE DEF e
  <2> QED
    BY <1>3, <1>6, <2>1, RangeAppend
<1>8. \A a \in Subnets, w \in VCs : a # sub \/ w # v => l2[a][w] = l[a][w]
  BY DEF SentOne
<1>9. ASSUME NEW a \in Subnets, NEW w \in VCs, NEW f \in Range(l2[a][w])
      PROVE  f \in Range(l[a][w]) \/ f = e
  BY <1>7, <1>8
<1>10. ASSUME NEW a \in Subnets, NEW w \in VCs, NEW f \in Range(l[a][w])
       PROVE  f \in Range(l2[a][w])
  BY <1>7, <1>8
<1>11. AtSource(s, e) /\ OnLine(l2, e)
  <2>1. e \in Flits(q.packet)
    BY <1>3, FlitsOfPacket
  <2>2. e[2] > k
    BY <1>3
  <2>3. e \in Range(l2[sub][v])
    BY <1>7
  <2> HIDE DEF e
  <2> QED
    BY <1>3, <2>1, <2>2, <2>3 DEF AtSource, OnLine
<1> HIDE DEF e, k
<1>12. ASSUME NEW f PROVE AtSource(s2, f) \/ OnLine(l2, f) <=> AtSource(s, f) \/ OnLine(l, f)
  <2>1. OnLine(l2, f) => OnLine(l, f) \/ f = e
    BY <1>9 DEF OnLine
  <2>2. OnLine(l, f) => OnLine(l2, f)
    BY <1>10 DEF OnLine
  <2>3. ASSUME AtSource(s2, f) PROVE AtSource(s, f)
    <3>1. PICK d \in Classes : s2.queue[d] # None /\ f \in Flits(s2.queue[d].packet) /\ f[2] > s2.queue[d].sent
      BY <2>3 DEF AtSource
    <3>2. CASE d # c
      BY <1>5, <3>1, <3>2 DEF AtSource
    <3>3. CASE d = c
      <4>1. f \in Flits(q.packet) /\ f[2] > k + 1
        BY <1>4, <3>1, <3>3
      <4>2. f[2] \in Nat
        BY <1>3, <4>1, FlitsOfPacket DEF FlitType
      <4>3. f[2] > k
        BY <1>3, <4>1, <4>2
      <4> QED
        BY <1>3, <4>1, <4>3 DEF AtSource, k
    <3> QED
      BY <3>2, <3>3
  <2>4. ASSUME AtSource(s, f), f # e PROVE AtSource(s2, f)
    <3>1. PICK d \in Classes : s.queue[d] # None /\ f \in Flits(s.queue[d].packet) /\ f[2] > s.queue[d].sent
      BY <2>4 DEF AtSource
    <3>2. CASE d # c
      BY <1>5, <3>1, <3>2 DEF AtSource
    <3>3. CASE d = c
      <4>1. f \in Flits(q.packet) /\ f[2] > k
        BY <3>1, <3>3 DEF k
      <4>2. f \in FlitType /\ f[1] = q.packet
        BY <1>3, <4>1, FlitsOfPacket
      <4>3. f[2] \in Nat /\ f = <<q.packet, f[2]>> /\ f[2] <= q.packet.size
        BY <4>2, FlitPair
      <4>4. f[2] # k + 1
        BY <2>4, <4>3 DEF e, k
      <4>5. f[2] > k + 1
        BY <1>3, <4>1, <4>3, <4>4
      <4>6. s2.queue[c] # None
        BY <1>3, <1>5, <4>3, <4>5
      <4>7. s2.queue[c].packet = q.packet /\ s2.queue[c].sent = k + 1
        BY <1>4, <4>6
      <4> QED
        BY <4>1, <4>5, <4>6, <4>7 DEF AtSource
    <3> QED
      BY <3>2, <3>3
  <2> QED
    BY <1>11, <2>1, <2>2, <2>3, <2>4
<1>13. ASSUME NEW d \in Classes, s2.queue[d] # None
       PROVE  s.queue[d] # None /\ s2.queue[d].packet = s.queue[d].packet /\ s2.queue[d].sent >= s.queue[d].sent
  <2>1. CASE d # c
    <3>1. s2.queue[d] = s.queue[d]
      BY <1>5, <2>1
    <3>2. s.queue[d].sent \in Nat
      BY <1>13, <3>1 DEF SourceGood, SourceType, Queueing
    <3> QED
      BY <1>13, <3>1, <3>2
  <2>2. CASE d = c
    <3>1. s2.queue[c].packet = q.packet /\ s2.queue[c].sent = k + 1
      BY <1>4, <1>13, <2>2
    <3>2. k + 1 >= k
      BY <1>3
    <3> QED
      BY <1>3, <2>2, <3>1, <3>2 DEF k
  <2> QED
    BY <2>1, <2>2
<1>14. ASSUME NEW a \in Subnets, NEW w \in VCs, NEW f \in Range(l2[a][w])
       PROVE  f \in Range(l[a][w]) \/ \E d \in Classes : s.queue[d] # None /\ f[1] = s.queue[d].packet /\ f[2] > s.queue[d].sent
  <2>1. CASE f = e
    <3>1. f[1] = q.packet /\ f[2] > q.sent
      BY <1>3, <2>1 DEF k
    <3> QED
      BY <1>3, <3>1
  <2> QED
    BY <1>9, <2>1
<1>15. ASSUME NEW a \in Subnets, NEW w \in VCs
       PROVE  p2[a].occupied[w] + Len(l[a][w]) = p[a].occupied[w] + Len(l2[a][w])
  <2>1. p[a].occupied[w] \in Nat
    <3>1. p[a] \in PortType
      BY DEF SourceGood
    <3> QED
      BY <3>1 DEF PortType
  <2>2. Len(l[a][w]) \in Nat /\ l[a][w] \in Seq(FlitType)
    BY <1>6
  <2>3. CASE a = sub /\ w = v
    <3>1. p2[a].occupied[w] = p[a].occupied[w] + 1
      BY <2>3, Zenon DEF SentOne
    <3>2. l2[a][w] = Append(l[a][w], e)
      BY <2>3 DEF SentOne, e
    <3>3. Len(l2[a][w]) = Len(l[a][w]) + 1
      BY <1>3, <2>2, <3>2, AppendProperties
    <3> DEFINE a1 == p[a].occupied[w]
               x1 == Len(l[a][w])
    <3>4. a1 \in Nat /\ x1 \in Nat /\ p2[a].occupied[w] = a1 + 1 /\ Len(l2[a][w]) = x1 + 1
      BY <2>1, <2>2, <3>1, <3>3
    <3>5. p2[a].occupied[w] + x1 = a1 + Len(l2[a][w])
      <4> HIDE DEF a1, x1
      <4> QED
        BY <3>4
    <3> QED
      BY <3>5, Zenon
  <2>4. CASE a # sub \/ w # v
    <3>1. p2[a].occupied[w] = p[a].occupied[w]
      BY <2>4 DEF SentOne
    <3> QED
      BY <1>8, <2>1, <2>2, <2>4, <3>1, Zenon
  <2> QED
    BY <2>3, <2>4
<1>16. HasSent(s, p, l, s2, p2, l2)
  <2> HIDE DEF q
  <2> QED
    BY <1>12, <1>13, <1>14, <1>15 DEF HasSent
<1> QED
  BY <1>1, <1>16

-----------------------------------------------------------------------------
(* The second loop of _Step for a source.                                  *)
SendType == [s : SourceType, ports : [Subnets -> PortType], first : LineType, ok : BOOLEAN]

(* The port that a flit leaves by. *)
LEMMA TakenType ==
  ASSUME config \in Configs, NEW p \in PortType, NEW c \in Classes, NEW v \in VCs, p.occupied[v] # config.room, NEW flit
  PROVE  LET u == Taken(p, c, v, flit) IN
         /\ u \in PortType
         /\ u.inUse[v] = ~IsTail(flit) /\ u.occupied[v] = p.occupied[v] + 1
         /\ u.lastVC[c] = IF IsHead(flit) THEN v ELSE p.lastVC[c]
         /\ \A w \in VCs \ {v} : u.inUse[w] = p.inUse[w] /\ u.occupied[w] = p.occupied[w]
         /\ \A d \in Classes \ {c} : u.lastVC[d] = p.lastVC[d]
<1> DEFINE h == IsHead(flit)
           b == ~IsTail(flit)
           last == IF h THEN v ELSE p.lastVC[c]
           o == p.occupied[v] + 1
           u == Taken(p, c, v, flit)
           fu == [p.inUse EXCEPT ![v] = b]
           fo == [p.occupied EXCEPT ![v] = o]
           fl == [p.lastVC EXCEPT ![c] = last]
<1>1. /\ p.occupied \in [VCs -> 0 .. config.room] /\ p.inUse \in [VCs -> BOOLEAN]
      /\ p.lastVC \in [Classes -> VCs \cup {None}] /\ config.room \in Nat
  BY Sizes DEF PortType
<1>2. b \in BOOLEAN /\ last \in VCs \cup {None} /\ o \in 0 .. config.room
  <2>1. b \in BOOLEAN /\ last \in VCs \cup {None}
    BY <1>1
  <2>2. p.occupied[v] \in 0 .. config.room
    BY <1>1
  <2>3. o \in 0 .. config.room
    BY <1>1, <2>2
  <2> QED
    BY <2>1, <2>3
<1>3. /\ fu \in [VCs -> BOOLEAN] /\ fu[v] = b /\ \A w \in VCs \ {v} : fu[w] = p.inUse[w]
      /\ fo \in [VCs -> 0 .. config.room] /\ fo[v] = o /\ \A w \in VCs \ {v} : fo[w] = p.occupied[w]
      /\ fl \in [Classes -> VCs \cup {None}] /\ fl[c] = last /\ \A d \in Classes \ {c} : fl[d] = p.lastVC[d]
  <2> HIDE DEF b, last, o
  <2> QED
    BY <1>1, <1>2
<1>4. u = [p EXCEPT !.lastClass = c, !.lastVC = fl, !.inUse = fu, !.occupied = fo]
  BY DEF Taken, PortType
<1> HIDE DEF u, fu, fo, fl, h, b, last, o
<1>5. u \in PortType /\ u.inUse = fu /\ u.occupied = fo /\ u.lastVC = fl
  BY <1>3, <1>4 DEF PortType
<1>6. /\ u.inUse[v] = b /\ u.occupied[v] = o /\ u.lastVC[c] = last
      /\ \A w \in VCs \ {v} : u.inUse[w] = p.inUse[w] /\ u.occupied[w] = p.occupied[w]
      /\ \A d \in Classes \ {c} : u.lastVC[d] = p.lastVC[d]
  BY <1>3, <1>5
<1> QED
  BY <1>5, <1>6 DEF u, h, b, last, o

(* A subnet. *)
LEMMA SendKeeps ==
  ASSUME config \in Configs, Orderly, NEW n, NEW sub \in Subnets, NEW t \in SendType, SourceGood(n, t.s, t.ports, t.first)
  PROVE  /\ Send(t, sub) \in SendType /\ SourceGood(n, Send(t, sub).s, Send(t, sub).ports, Send(t, sub).first)
         /\ HasSent(t.s, t.ports, t.first, Send(t, sub).s, Send(t, sub).ports, Send(t, sub).first)
         /\ t.ok => Send(t, sub).ok
<1> DEFINE p == t.ports[sub]
           ch == Choose(sub, t.s, p)
           u == Send(t, sub)
<1>1. /\ t.s \in SourceType /\ t.ports \in [Subnets -> PortType] /\ t.first \in LineType /\ p \in PortType
      /\ t.ok \in BOOLEAN
  BY DEF SendType
<1>5. Held(t.s, t.ports[sub]) => t.s.queue[t.ports[sub].lastClass].vc = t.ports[sub].lastVC[t.ports[sub].lastClass]
  <2>1. ASSUME NEW s, NEW ports, NEW l, SourceGood(n, s, ports, l), Held(s, ports[sub])
        PROVE  s.queue[ports[sub].lastClass].vc = ports[sub].lastVC[ports[sub].lastClass]
    BY <2>1, HeldFits
  <2> QED
    BY <2>1
<1>2. ch \in ChoiceType /\ Chosen(sub, t.s, p, ch)
  BY ChoiceMade
<1>3. CASE ch.class = None
  <2>1. ch.s = t.s
    BY <1>2, <1>3 DEF Chosen
  <2>2. u = [t EXCEPT !.s = t.s]
    <3> HIDE DEF ch
    <3>1. u = [t EXCEPT !.s = ch.s]
      BY <1>3 DEF Send, ch
    <3> QED
      BY <2>1, <3>1
  <2>3. u = t
    BY <2>2 DEF SendType
  <2> HIDE DEF u
  <2> QED
    BY <2>3, SentNothing DEF u
<1>4. CASE ch.class # None
  <2> DEFINE c == ch.class
             q == t.s.queue[c]
             flit == <<q.packet, q.sent + 1>>
  <2>1. c \in Classes
    BY <1>2, <1>4 DEF ChoiceType
  <2>2. PICK v \in VCs : Fits(sub, t.s, p, c, v) /\ ch.s = WithVC(t.s, c, v)
    BY <1>2, <1>4 DEF Chosen
  <2>3. Going(n, t.s, t.ports, sub, c, v)
    <3> HIDE DEF ch, p, c
    <3> QED
      BY <2>1, <2>2, SentFacts DEF p
  <2>4. /\ q \in Queueing /\ q # None /\ q.packet \in PacketType /\ q.sent \in Nat /\ q.packet.size \in Nat \ {0}
        /\ q.sent < q.packet.size /\ q.packet.subnet = sub /\ flit \in FlitType
        /\ q.sent > 0 => v = q.vc
        /\ q.sent = 0 => ~p.inUse[v]
    BY <2>3, Zenon DEF Going
  <2>5. ch.s \in SourceType /\ ch.s.queue[c] = [q EXCEPT !.vc = v] /\ \A d \in Classes \ {c} : ch.s.queue[d] = t.s.queue[d]
    <3> HIDE DEF ch, c
    <3> QED
      BY <1>1, <2>1, <2>2, <2>4, WithVCType
  <2>6. ch.s.pending = t.s.pending /\ ch.s.requests = t.s.requests
    <3> HIDE DEF ch, c
    <3> QED
      BY <1>1, <2>2 DEF WithVC, SourceType
  <2> DEFINE r == ch.s.queue[c]
             new == IF IsTail(flit) THEN None ELSE [r EXCEPT !.sent = @ + 1]
             s2 == [ch.s EXCEPT !.queue[c] = new]
             p2 == [t.ports EXCEPT ![sub] = Taken(p, c, v, flit)]
             l2 == [t.first EXCEPT ![sub][v] = Append(@, flit)]
             ok2 == /\ t.ok
                    /\ q.packet.subnet = sub
                    /\ Held(t.s, p) => t.s.queue[p.lastClass].vc = p.lastVC[p.lastClass]
                    /\ IsHead(flit) => ~p.inUse[v]
  <2>7. r.packet = q.packet /\ r.sent = q.sent /\ r.vc = v /\ r \in Queueing
    <3> HIDE DEF ch, c, q
    <3> QED
      BY <2>4, <2>5 DEF Queueing
  <2>8. u = [s |-> s2, ports |-> p2, first |-> l2, ok |-> ok2]
    <3>1. u = [s |-> [ch.s EXCEPT !.queue[c] = IF IsTail(<<r.packet, r.sent + 1>>) THEN None ELSE [r EXCEPT !.sent = @ + 1]],
               ports |-> [t.ports EXCEPT ![sub] = Taken(p, c, r.vc, <<r.packet, r.sent + 1>>)],
               first |-> [t.first EXCEPT ![sub][r.vc] = Append(@, <<r.packet, r.sent + 1>>)],
               ok |-> /\ t.ok
                      /\ r.packet.subnet = sub
                      /\ Held(t.s, p) => t.s.queue[p.lastClass].vc = p.lastVC[p.lastClass]
                      /\ IsHead(<<r.packet, r.sent + 1>>) => ~p.inUse[r.vc]]
      <4> HIDE DEF ch
      <4> QED
        BY <1>4, Zenon DEF Send, ch
    <3> HIDE DEF r, ch, c, p, u
    <3> QED
      BY <2>7, <3>1
  <2>9. new \in Queueing \cup {None} /\ new = IF q.sent + 1 = q.packet.size THEN None ELSE [packet |-> q.packet, sent |-> q.sent + 1, vc |-> v]
    <3>1. IsTail(flit) <=> q.sent + 1 = q.packet.size
      BY DEF IsTail
    <3>2. [r EXCEPT !.sent = @ + 1] = [packet |-> q.packet, sent |-> q.sent + 1, vc |-> v]
      <4> HIDE DEF r, q, flit
      <4> QED
        BY <2>7 DEF Queueing
    <3>3. [packet |-> q.packet, sent |-> q.sent + 1, vc |-> v] \in Queueing
      <4> HIDE DEF q
      <4> QED
        BY <2>4 DEF Queueing
    <3> HIDE DEF r, q, flit
    <3> QED
      BY <3>1, <3>2, <3>3
  <2> HIDE DEF new, r
  <2>10. /\ s2 \in SourceType /\ s2.queue[c] = new /\ s2.pending = t.s.pending /\ s2.requests = t.s.requests
         /\ \A d \in Classes \ {c} : s2.queue[d] = t.s.queue[d]
    <3> HIDE DEF ch, c
    <3> DEFINE qs == [ch.s.queue EXCEPT ![c] = new]
    <3>1. qs \in [Classes -> Queueing \cup {None}] /\ qs[c] = new /\ \A d \in Classes \ {c} : qs[d] = ch.s.queue[d]
      BY <2>1, <2>5, <2>9 DEF SourceType
    <3>2. s2 = [ch.s EXCEPT !.queue = qs]
      OBVIOUS
    <3> HIDE DEF qs, s2
    <3>3. s2 \in SourceType /\ s2.queue = qs /\ s2.pending = ch.s.pending /\ s2.requests = ch.s.requests
      BY <2>5, <3>1, <3>2 DEF SourceType
    <3> QED
      BY <2>5, <2>6, <3>1, <3>3
  <2>11. p.occupied[v] # config.room
    BY <2>2 DEF Fits
  <2>12. /\ p2 \in [Subnets -> PortType]
         /\ p2[sub].inUse[v] = ~IsTail(flit) /\ p2[sub].occupied[v] = p.occupied[v] + 1
         /\ p2[sub].lastVC[c] = IF IsHead(flit) THEN v ELSE p.lastVC[c]
         /\ \A w \in VCs \ {v} : p2[sub].inUse[w] = p.inUse[w] /\ p2[sub].occupied[w] = p.occupied[w]
         /\ \A d \in Classes \ {c} : p2[sub].lastVC[d] = p.lastVC[d]
         /\ \A a \in Subnets \ {sub} : p2[a] = t.ports[a]
    <3> HIDE DEF ch, c, flit
    <3> DEFINE k == Taken(p, c, v, flit)
    <3>1. /\ k \in PortType
          /\ k.inUse[v] = ~IsTail(flit) /\ k.occupied[v] = p.occupied[v] + 1
          /\ k.lastVC[c] = IF IsHead(flit) THEN v ELSE p.lastVC[c]
          /\ \A w \in VCs \ {v} : k.inUse[w] = p.inUse[w] /\ k.occupied[w] = p.occupied[w]
          /\ \A d \in Classes \ {c} : k.lastVC[d] = p.lastVC[d]
      <4> HIDE DEF p
      <4> QED
        BY <1>1, <2>1, <2>11, TakenType
    <3>2. p2[sub] = k /\ p2 \in [Subnets -> PortType] /\ \A a \in Subnets \ {sub} : p2[a] = t.ports[a]
      <4> HIDE DEF k
      <4>1. p2 = [t.ports EXCEPT ![sub] = k]
        BY DEF k
      <4> HIDE DEF p2
      <4> QED
        BY <1>1, <3>1, <4>1
    <3> HIDE DEF p2, k
    <3> QED
      BY <3>1, <3>2
  <2>13. /\ l2 \in LineType /\ l2[sub][v] = Append(t.first[sub][v], flit)
         /\ \A a \in Subnets, w \in VCs : a # sub \/ w # v => l2[a][w] = t.first[a][w]
    <3>1. t.first[sub][v] \in Seq(FlitType) /\ t.first \in [Subnets -> [VCs -> Seq(FlitType)]]
      BY <1>1, Zenon DEF LineType
    <3> DEFINE e == Append(t.first[sub][v], flit)
    <3>2. e \in Seq(FlitType)
      <4> HIDE DEF flit, p2, l2, ok2, s2, q, c, p, u, ch
      <4> QED
        BY <2>4, <3>1
    <3>3. l2 = [t.first EXCEPT ![sub][v] = e]
      OBVIOUS
    <3> HIDE DEF l2, e, flit
    <3>4. l2 \in [Subnets -> [VCs -> Seq(FlitType)]] /\ l2[sub][v] = e /\ \A a \in Subnets, w \in VCs : a # sub \/ w # v => l2[a][w] = t.first[a][w]
      BY <3>1, <3>2, <3>3
    <3> QED
      BY <3>4 DEF LineType, e
  <2>14. (IsTail(flit) <=> q.sent + 1 = q.packet.size) /\ (IsHead(flit) <=> q.sent = 0)
    <3>1. (IsTail(flit) <=> q.sent + 1 = q.packet.size) /\ (IsHead(flit) <=> q.sent + 1 = 1)
      BY Zenon DEF IsTail, IsHead
    <3>2. q.sent \in Nat
      BY <2>4, Zenon
    <3> HIDE DEF ch, c, q, flit, s2, p2, l2
    <3> QED
      BY <3>1, <3>2
  <2>15. p2[sub].lastVC[c] = v
    <3>1. CASE q.sent = 0
      BY <2>12, <2>14, <3>1, Zenon
    <3>2. CASE q.sent # 0
      <4> HIDE DEF ch, c
      <4>1. q.sent > 0
        BY <2>4, <3>2
      <4>2. t.ports[q.packet.subnet].lastVC[c] = q.vc
        <5>1. QueueGood(n, t.s, t.ports)
          BY Zenon DEF SourceGood
        <5> QED
          BY <2>1, <2>4, <4>1, <5>1, Zenon DEF QueueGood
      <4> HIDE DEF p2, flit, q
      <4> QED
        BY <2>4, <2>12, <2>14, <3>2, <4>1, <4>2
    <3> QED
      BY <3>1, <3>2, Zenon
  <2> HIDE DEF ch, c, s2, p2, l2
  <2>16. SentOne(sub, c, v, t.s, t.ports, t.first, s2, p2, l2)
    <3>1. /\ s2 \in SourceType /\ p2 \in [Subnets -> PortType] /\ l2 \in LineType
          /\ \A d \in Classes \ {c} : s2.queue[d] = t.s.queue[d]
          /\ s2.queue[c] = IF q.sent + 1 = q.packet.size THEN None ELSE [packet |-> q.packet, sent |-> q.sent + 1, vc |-> v]
      BY <2>9, <2>10, <2>12, <2>13, Zenon
    <3>2. ASSUME NEW a \in Subnets, NEW w \in VCs, a # sub \/ w # v
          PROVE  p2[a].inUse[w] = t.ports[a].inUse[w] /\ p2[a].occupied[w] = t.ports[a].occupied[w] /\ l2[a][w] = t.first[a][w]
      <4>1. CASE a # sub
        BY <2>12, <2>13, <4>1, Zenon
      <4>2. CASE a = sub
        BY <2>12, <2>13, <3>2, <4>2, Zenon
      <4> QED
        BY <4>1, <4>2, Zenon
    <3>3. ASSUME NEW a \in Subnets, NEW d \in Classes, a # sub \/ d # c
          PROVE  p2[a].lastVC[d] = t.ports[a].lastVC[d]
      <4>1. CASE a # sub
        BY <2>12, <4>1
      <4>2. CASE a = sub
        BY <2>12, <3>3, <4>2
      <4> QED
        BY <4>1, <4>2
    <3>4. p2[sub].inUse[v] = (q.sent + 1 # q.packet.size)
      BY <2>12, <2>14, Zenon
    <3>5. /\ p2[sub].occupied[v] = t.ports[sub].occupied[v] + 1 /\ p2[sub].lastVC[c] = v
          /\ l2[sub][v] = Append(t.first[sub][v], <<q.packet, q.sent + 1>>)
      BY <2>12, <2>13, <2>15, Zenon
    <3> QED
      BY <3>1, <3>2, <3>3, <3>4, <3>5, Zenon DEF SentOne
  <2>17. SourceGood(n, s2, p2, l2) /\ HasSent(t.s, t.ports, t.first, s2, p2, l2)
    <3>1. s2.pending = t.s.pending /\ s2.requests = t.s.requests
      BY <2>10
    <3>2. Fits(sub, t.s, t.ports[sub], c, v)
      BY <2>2
    <3> HIDE DEF p, q
    <3> QED
      BY <2>1, <2>16, <3>1, <3>2, SentOneGood
  <2>18. t.ok => ok2
    <3>1. Held(t.s, p) => t.s.queue[p.lastClass].vc = p.lastVC[p.lastClass]
      <4> SUFFICES ASSUME Held(t.s, t.ports[sub]) PROVE t.s.queue[p.lastClass].vc = p.lastVC[p.lastClass]
        OBVIOUS
      <4> QED
        BY <1>5
    <3> HIDE DEF flit, q
    <3> QED
      BY <2>4, <2>14, <3>1
  <2>19. ok2 \in BOOLEAN
    BY Zenon
  <2> HIDE DEF ok2, u
  <2>20. u \in SendType /\ u.s = s2 /\ u.ports = p2 /\ u.first = l2 /\ u.ok = ok2
    BY <2>8, <2>10, <2>12, <2>13, <2>19 DEF SendType
  <2> QED
    BY <2>17, <2>18, <2>20 DEF u
<1> QED
  BY <1>3, <1>4

(* All subnets. *)
LEMMA AllSent ==
  ASSUME config \in Configs, Orderly, NEW n \in Nodes, NEW s, NEW ports, SourceGood(n, s, ports, first[n])
  PROVE  LET u == SendAll(n, s, ports) IN
         /\ u \in SendType /\ u.ok = TRUE /\ SourceGood(n, u.s, u.ports, u.first)
         /\ HasSent(s, ports, first[n], u.s, u.ports, u.first)
<1> DEFINE N == config.subnets
           Fine(t) == /\ SourceGood(n, t.s, t.ports, t.first) /\ t.ok = TRUE
                      /\ HasSent(s, ports, first[n], t.s, t.ports, t.first)
           T == {t \in SendType : Fine(t)}
           start == [s |-> s, ports |-> ports, first |-> first[n], ok |-> TRUE]
           next(k, t) == Send(t, k - 1)
           body(f) == [k \in 0 .. N |-> IF k = 0 THEN start ELSE next(k, f[k - 1])]
           sent == CHOOSE f : f = body(f)
           step == [k \in 1 .. N |-> [t \in T |-> next(k, t)]]
<1>1. SendAll(n, s, ports) = sent[N]
  BY DEF SendAll
<1>2. N \in Nat /\ \A k \in 1 .. N : k - 1 \in Subnets
  BY Sizes DEF Subnets, Below
<1>3. start \in T
  <2>1. start \in SendType
    BY DEF SendType, SourceGood
  <2>2. start.s = s /\ start.ports = ports /\ start.first = first[n] /\ start.ok = TRUE
    OBVIOUS
  <2> HIDE DEF start
  <2>3. Fine(start)
    BY <2>2, SentNothing
  <2> QED
    BY <2>1, <2>3
<1>4. ASSUME NEW k \in 1 .. N, NEW t \in T PROVE next(k, t) \in T
  <2> DEFINE sub == k - 1
             u == Send(t, sub)
  <2>1. sub \in Subnets /\ t \in SendType /\ Fine(t)
    BY <1>2
  <2> HIDE DEF sub
  <2>2. /\ u \in SendType /\ SourceGood(n, u.s, u.ports, u.first)
        /\ HasSent(t.s, t.ports, t.first, u.s, u.ports, u.first) /\ (t.ok => u.ok)
    BY <2>1, SendKeeps
  <2> HIDE DEF u
  <2>3. u.ok = TRUE
    BY <2>1, <2>2 DEF SendType
  <2>4. SourceGood(n, t.s, t.ports, t.first) /\ HasSent(s, ports, first[n], t.s, t.ports, t.first)
    BY <2>1
  <2> HIDE DEF Fine
  <2>5. HasSent(s, ports, first[n], u.s, u.ports, u.first)
    BY <2>2, <2>4, SentMore
  <2>6. u \in T
    BY <2>2, <2>3, <2>5 DEF Fine
  <2> QED
    BY <2>6 DEF u, sub
<1>0. \A t \in T : t \in SendType /\ Fine(t)
  OBVIOUS
<1> HIDE DEF next, start
<1>5. step \in [1 .. N -> [T -> T]] /\ \A k \in 1 .. N, t \in T : step[k][t] = next(k, t)
  <2> HIDE DEF T
  <2> QED
    BY <1>4
<1> HIDE DEF T, N, step
<1>6. PICK f : IsIteration(f, N, T, start, step)
  <2>1. N \in Nat /\ start \in T /\ step \in [1 .. N -> [T -> T]]
    BY <1>2, <1>3, <1>5
  <2> QED
    BY <2>1, Iterates
<1>7. f = body(f)
  <2>1. ASSUME NEW k \in 1 .. N PROVE f[k] = next(k, f[k - 1])
    <3>1. f[k - 1] \in T /\ f[k] = step[k][f[k - 1]]
      BY <1>2, <1>6 DEF IsIteration
    <3> QED
      BY <1>5, <3>1
  <2>2. \A k \in 0 .. N : f[k] = IF k = 0 THEN start ELSE next(k, f[k - 1])
    BY <1>2, <1>6, <2>1 DEF IsIteration
  <2> QED
    BY <1>6, <2>2 DEF IsIteration
<1>8. sent = body(sent)
  <2> HIDE DEF body
  <2> QED
    BY <1>7
<1> HIDE DEF sent
<1>9. sent[0] = start /\ \A k \in 1 .. N : sent[k] = next(k, sent[k - 1])
  BY <1>2, <1>8
<1>10. \A k \in 0 .. N : sent[k] \in T
  <2>1. N \in Nat /\ sent[0] \in T
    BY <1>2, <1>3, <1>9
  <2>2. \A k \in 1 .. N : sent[k - 1] \in T => sent[k] \in T
    BY <1>4, <1>9
  <2> QED
    BY <2>1, <2>2, IteratesIn
<1>11. SendAll(n, s, ports) \in T
  BY <1>1, <1>2, <1>10
<1> HIDE DEF Fine
<1> QED
  BY <1>0, <1>11 DEF Fine

-----------------------------------------------------------------------------
(* The sources, ports, lines and queues before the sinks, and the flits    *)
(* that are in flight.                                                     *)
AtSink(i, f) == \E sub \in Subnets : f \in Range(i[sub])
Somewhere(ss, ll, ins, f) == \E n \in Nodes : AtSource(ss[n], f) \/ OnLine(ll[n], f) \/ AtSink(ins[n], f)
Upward(t) == \A f \in t : \A j \in f[2] .. f[1].size : <<f[1], j>> \in t
SinkGood(ss, ll, ins) ==
  \A d \in Nodes, sub \in Subnets :
    /\ InOrder(ins[d][sub])
    /\ \A f \in Range(ins[d][sub]) :
         /\ f[1].dest = d /\ f[1].subnet = sub
         /\ \A n \in Nodes, c \in Classes :
              ss[n].queue[c] # None /\ ss[n].queue[c].packet = f[1] => f[2] <= ss[n].queue[c].sent
         /\ \A n \in Nodes, vc \in VCs : \A g \in Range(ll[n][sub][vc]) : g[1] = f[1] => f[2] < g[2]
World(ss, pp, ll, ins, t) ==
  /\ ss \in [Nodes -> SourceType] /\ pp \in [Nodes -> [Subnets -> PortType]] /\ ll \in [Nodes -> LineType]
  /\ ins \in [Nodes -> [Subnets -> Seq(FlitType)]]
  /\ \A n \in Nodes : SourceGood(n, ss[n], pp[n], ll[n])
  /\ SinkGood(ss, ll, ins)
  /\ t \subseteq FlitType /\ IsFiniteSet(t) /\ Upward(t)
  /\ \A f : f \in t <=> Somewhere(ss, ll, ins, f)

(* The images of a finite set, and the flits of a packet, are finite sets. *)
LEMMA ImageFinite ==
  ASSUME NEW S, IsFiniteSet(S), NEW g, DOMAIN g = S
  PROVE  IsFiniteSet({g[x] : x \in S})
<1> DEFINE T == {g[x] : x \in S}
           h == [x \in S |-> g[x]]
<1>1. h \in Surjection(S, T)
  BY DEF Surjection
<1> HIDE DEF T, h
<1>2. IsFiniteSet(T)
  BY <1>1, FS_Surjection
<1> QED
  BY <1>2 DEF T

(* A packet has finitely many flits. *)
LEMMA FlitsFinite ==
  ASSUME config \in Configs, NEW p \in PacketType
  PROVE  IsFiniteSet(Flits(p))
<1> DEFINE S == 1 .. p.size
           g == [i \in S |-> <<p, i>>]
<1>1. IsFiniteSet(S)
  BY FS_Interval DEF PacketType
<1>2. DOMAIN g = S /\ Flits(p) = {g[x] : x \in S}
  BY DEF Flits
<1> HIDE DEF S, g
<1> QED
  BY <1>1, <1>2, ImageFinite

(* The ports after the credits have been read. *)
LEMMA ReadPorts ==
  ASSUME config \in Configs, NEW n \in Nodes, port[n] \in [Subnets -> PortType], back[n] \in [Subnets -> VCs \cup {None}],
         \A sub \in Subnets : back[n][sub] # None => port[n][sub].occupied[back[n][sub]] > 0
  PROVE  /\ Read(n) \in [Subnets -> PortType]
         /\ \A sub \in Subnets : Read(n)[sub].inUse = port[n][sub].inUse /\ Read(n)[sub].lastVC = port[n][sub].lastVC
         /\ \A sub \in Subnets, vc \in VCs :
              Read(n)[sub].occupied[vc] + (IF back[n][sub] = vc THEN 1 ELSE 0) = port[n][sub].occupied[vc]
<1> SUFFICES ASSUME NEW sub \in Subnets
             PROVE  /\ Read(n)[sub] \in PortType
                    /\ Read(n)[sub].inUse = port[n][sub].inUse /\ Read(n)[sub].lastVC = port[n][sub].lastVC
                    /\ \A vc \in VCs : Read(n)[sub].occupied[vc] + (IF back[n][sub] = vc THEN 1 ELSE 0) = port[n][sub].occupied[vc]
  BY Zenon DEF Read
<1> DEFINE p == port[n][sub]
           b == back[n][sub]
           u == Read(n)[sub]
<1>1. u = IF b = None THEN p ELSE [p EXCEPT !.occupied[b] = @ - 1]
  BY DEF Read
<1>2. p \in PortType /\ b \in VCs \cup {None} /\ (b # None => p.occupied[b] > 0) /\ config.room \in Nat
  BY Sizes
<1>3. p.occupied \in [VCs -> 0 .. config.room]
  BY <1>2 DEF PortType
<1> HIDE DEF u, p, b
<1>4. CASE b = None
  <2>1. \A vc \in VCs : p.occupied[vc] \in Nat
    BY <1>2, <1>3
  <2>2. b \notin VCs
    BY <1>4, NoneIsNone
  <2> QED
    BY <1>1, <1>2, <1>4, <2>1, <2>2 DEF u, p, b
<1>5. CASE b # None
  <2> DEFINE o == [p.occupied EXCEPT ![b] = @ - 1]
  <2>1. b \in VCs
    BY <1>2, <1>5
  <2>2. p.occupied[b] - 1 \in 0 .. config.room
    BY <1>2, <1>3, <1>5, <2>1
  <2>3. o \in [VCs -> 0 .. config.room] /\ o[b] + 1 = p.occupied[b] /\ \A vc \in VCs \ {b} : o[vc] = p.occupied[vc] /\ o[vc] \in Nat
    BY <1>2, <1>3, <2>1, <2>2
  <2>4. u = [p EXCEPT !.occupied = o]
    BY <1>1, <1>5
  <2> HIDE DEF o
  <2>5. u \in PortType /\ u.occupied = o /\ u.inUse = p.inUse /\ u.lastVC = p.lastVC
    BY <1>2, <2>3, <2>4 DEF PortType
  <2>6. \A vc \in VCs : u.occupied[vc] + (IF b = vc THEN 1 ELSE 0) = p.occupied[vc]
    BY <2>1, <2>3, <2>5
  <2> QED
    BY <2>5, <2>6 DEF u, p, b
<1> QED
  BY <1>4, <1>5

(* A source that has made packets, its credits read. *)
LEMMA InjectedGood ==
  ASSUME config \in Configs, NEW n \in Nodes, SourceGood(n, node[n], port[n], first[n]), NEW t, Injected(n, t),
         NEW ports \in [Subnets -> PortType],
         \A sub \in Subnets : ports[sub].inUse = port[n][sub].inUse /\ ports[sub].lastVC = port[n][sub].lastVC,
         \A sub \in Subnets, vc \in VCs : \A f \in Range(first[n][sub][vc]) : f[1] \in Packets(total)
  PROVE  SourceGood(n, t, ports, first[n])
<1> DEFINE s == node[n]
           p == port[n]
           l == first[n]
<1>1. s \in SourceType /\ p \in [Subnets -> PortType] /\ l \in LineType /\ t \in SourceType
  BY DEF SourceGood, Injected
(* A class has the packet it had, or a new one. *)
<1>2. ASSUME NEW c \in Classes, t.queue[c] # None
      PROVE  \/ s.queue[c] # None /\ t.queue[c] = s.queue[c]
             \/ /\ t.queue[c].packet \notin Packets(total) /\ t.queue[c].packet.src = n /\ t.queue[c].packet.cl = c
                /\ t.queue[c].sent = 0 /\ t.queue[c].vc = None
  <2>1. CASE s.queue[c] # None
    BY <2>1 DEF Injected
  <2>2. CASE s.queue[c] = None
    <3>1. c \in Made(n, t)
      BY <1>2, <2>2 DEF Made
    <3> QED
      BY <3>1 DEF Injected
  <2> QED
    BY <2>1, <2>2
<1>3. ASSUME NEW c \in Classes, NEW sub, NEW vc PROVE Partly(t, c, sub, vc) <=> Partly(s, c, sub, vc)
  <2>1. s.queue[c] # None => t.queue[c] = s.queue[c]
    BY DEF Injected
  <2> QED
    BY <1>2, <2>1 DEF Partly
<1>4. QueueGood(n, t, ports)
  <2> SUFFICES ASSUME NEW c \in Classes, t.queue[c] # None
               PROVE  LET q == t.queue[c] IN
                      /\ q.packet.src = n /\ q.packet.cl = c /\ q.sent < q.packet.size
                      /\ q.sent = 0 => q.vc = None
                      /\ q.sent > 0 => /\ q.vc \in VCs /\ ports[q.packet.subnet].inUse[q.vc]
                                       /\ ports[q.packet.subnet].lastVC[c] = q.vc
    BY Zenon DEF QueueGood
  <2>1. CASE s.queue[c] # None /\ t.queue[c] = s.queue[c]
    <3>1. s.queue[c].packet.subnet \in Subnets
      BY <1>1, <2>1, Zenon DEF SourceType, Queueing, PacketType
    <3> DEFINE r == s.queue[c]
    <3>2. /\ r.packet.src = n /\ r.packet.cl = c /\ r.sent < r.packet.size
          /\ r.sent = 0 => r.vc = None
          /\ r.sent > 0 => /\ r.vc \in VCs /\ p[r.packet.subnet].inUse[r.vc]
                           /\ p[r.packet.subnet].lastVC[c] = r.vc
      BY <2>1, Zenon DEF SourceGood, QueueGood
    <3>3. /\ ports[r.packet.subnet].inUse = p[r.packet.subnet].inUse
          /\ ports[r.packet.subnet].lastVC = p[r.packet.subnet].lastVC
      BY <3>1, Zenon
    <3> HIDE DEF r, p
    <3>4. t.queue[c] = r
      BY <2>1 DEF r
    <3> QED
      BY <3>2, <3>3, <3>4
  <2>2. CASE /\ t.queue[c].packet \notin Packets(total) /\ t.queue[c].packet.src = n /\ t.queue[c].packet.cl = c
             /\ t.queue[c].sent = 0 /\ t.queue[c].vc = None
    <3>1. t.queue[c].packet.size \in Nat \ {0}
      BY <1>1 DEF SourceType, Queueing, PacketType
    <3> QED
      BY <2>2, <3>1
  <2> QED
    BY <1>2, <2>1, <2>2, Zenon
<1>5. OneHolder(t)
  BY <1>3 DEF SourceGood, OneHolder
<1>6. UseHeld(t, ports)
  <2> SUFFICES ASSUME NEW sub \in Subnets, NEW vc \in VCs, ports[sub].inUse[vc] PROVE \E c \in Classes : Partly(t, c, sub, vc)
    BY DEF UseHeld
  <2>1. p[sub].inUse[vc]
    OBVIOUS
  <2> QED
    BY <1>3, <2>1 DEF SourceGood, UseHeld
<1>7. ASSUME NEW sub \in Subnets, NEW vc \in VCs PROVE LineGood(n, t, l, sub, vc)
  <2>1. LineGood(n, s, l, sub, vc)
    BY DEF SourceGood
  <2>2. ASSUME NEW f \in Range(l[sub][vc]), NEW c \in Classes, t.queue[c] # None, t.queue[c].packet = f[1]
        PROVE  f[2] <= t.queue[c].sent /\ t.queue[c].vc = vc
    <3>1. f[1] \in Packets(total)
      OBVIOUS
    <3>2. s.queue[c] # None /\ t.queue[c] = s.queue[c]
      BY <1>2, <2>2, <3>1
    <3> QED
      BY <2>1, <2>2, <3>2 DEF LineGood
  <2> QED
    BY <2>1, <2>2 DEF LineGood
<1> QED
  BY <1>1, <1>4, <1>5, <1>6, <1>7 DEF SourceGood

(* The packets that have been made, and their flits. *)
NewFlits(made) == UNION {Flits(p) : p \in MadePackets(made)}

(* The packets that are made in a Step are new, and named apart. *)
LEMMA NewPackets ==
  ASSUME config \in Configs, node \in [Nodes -> SourceType], NEW made, \A n \in Nodes : Injected(n, made[n])
  PROVE  /\ \A p : p \in MadePackets(made) <=> \E n \in Nodes : \E c \in Made(n, made[n]) : p = made[n].queue[c].packet
         /\ MadePackets(made) \subseteq PacketType /\ IsFiniteSet(MadePackets(made))
         /\ MadePackets(made) \cap Packets(total) = {}
         /\ \A f : f \in NewFlits(made) <=> f \in FlitType /\ f[1] \in MadePackets(made)
         /\ IsFiniteSet(NewFlits(made))
<1> DEFINE S == {y \in Nodes \X Classes : node[y[1]].queue[y[2]] = None /\ made[y[1]].queue[y[2]] # None}
           g == [x \in S |-> made[x[1]].queue[x[2]].packet]
           M == MadePackets(made)
<1>1. M = {g[x] : x \in S}
  BY DEF MadePackets
<1>2. IsFiniteSet(S)
  <2>1. IsFiniteSet(Nodes \X Classes)
    BY Finite, FS_Product
  <2>2. S \subseteq Nodes \X Classes
    OBVIOUS
  <2> HIDE DEF S
  <2> QED
    BY <2>1, <2>2, FS_Subset
<1>3. IsFiniteSet(M)
  <2>1. DOMAIN g = S
    OBVIOUS
  <2> HIDE DEF S, g, M
  <2> QED
    BY <1>1, <1>2, <2>1, ImageFinite
<1>4. \A n \in Nodes, c \in Classes : <<n, c>> \in S <=> c \in Made(n, made[n])
  BY DEF Made
<1>5. \A x \in S : x = <<x[1], x[2]>> /\ x[1] \in Nodes /\ x[2] \in Classes
  OBVIOUS
<1>6. \A x \in S : g[x] = made[x[1]].queue[x[2]].packet
  OBVIOUS
<1>7. \A n \in Nodes, c \in Classes : <<n, c>>[1] = n /\ <<n, c>>[2] = c
  OBVIOUS
<1> HIDE DEF S, g
<1>8. ASSUME NEW p
      PROVE  p \in M <=> \E n \in Nodes : \E c \in Made(n, made[n]) : p = made[n].queue[c].packet
  <2>1. ASSUME p \in M PROVE \E n \in Nodes : \E c \in Made(n, made[n]) : p = made[n].queue[c].packet
    <3>1. PICK x \in S : p = g[x]
      BY <1>1, <2>1
    <3>2. x[1] \in Nodes /\ x[2] \in Made(x[1], made[x[1]])
      BY <1>4, <1>5
    <3> QED
      BY <1>6, <3>1, <3>2
  <2>2. ASSUME NEW n \in Nodes, NEW c \in Made(n, made[n]), p = made[n].queue[c].packet PROVE p \in M
    <3>1. c \in Classes
      BY DEF Made
    <3>2. <<n, c>> \in S /\ g[<<n, c>>] = p
      BY <1>4, <1>6, <1>7, <2>2, <3>1
    <3> QED
      BY <1>1, <3>2
  <2> QED
    BY <2>1, <2>2
<1>9. ASSUME NEW n \in Nodes, NEW c \in Made(n, made[n])
      PROVE  made[n].queue[c].packet \in PacketType /\ made[n].queue[c].packet \notin Packets(total)
  <2>1. Injected(n, made[n]) /\ c \in Classes /\ made[n].queue[c] # None
    BY DEF Made
  <2>2. made[n].queue[c] \in Queueing
    BY <2>1 DEF Injected, SourceType
  <2> QED
    BY <2>1, <2>2 DEF Injected, Queueing
<1>10. M \subseteq PacketType /\ M \cap Packets(total) = {}
  <2> HIDE DEF M
  <2> QED
    BY <1>8, <1>9
<1>11. \A f : f \in NewFlits(made) <=> f \in FlitType /\ f[1] \in M
  <2>1. NewFlits(made) = UNION {Flits(p) : p \in M}
    BY DEF NewFlits
  <2> HIDE DEF M
  <2>2. \A f : f \in NewFlits(made) <=> \E p \in M : f \in Flits(p)
    BY <2>1
  <2>3. \A p \in M : \A f : f \in Flits(p) <=> f \in FlitType /\ f[1] = p
    BY <1>10, FlitsOfPacket
  <2> QED
    BY <2>2, <2>3
<1>12. IsFiniteSet(NewFlits(made))
  <2> DEFINE h == [p \in M |-> Flits(p)]
             H == {h[p] : p \in M}
  <2>1. NewFlits(made) = UNION H
    BY DEF NewFlits
  <2>2. DOMAIN h = M /\ \A p \in M : h[p] = Flits(p)
    OBVIOUS
  <2> HIDE DEF M, h
  <2>3. IsFiniteSet(H)
    BY <1>3, <2>2, ImageFinite
  <2>4. \A T \in H : IsFiniteSet(T)
    <3>1. \A p \in M : IsFiniteSet(Flits(p))
      BY <1>10, FlitsFinite
    <3> QED
      BY <2>2, <3>1
  <2> HIDE DEF H
  <2> QED
    BY <2>1, <2>3, <2>4, FS_UNION
<1> QED
  BY <1>3, <1>8, <1>10, <1>11, <1>12, Zenon

(* What is in flight after the sources have made their packets. *)
LEMMA WorldInjected ==
  ASSUME config \in Configs, World(node, port, first, inside, total),
         \A n \in Nodes : /\ back[n] \in [Subnets -> VCs \cup {None}]
                          /\ \A sub \in Subnets : back[n][sub] # None => port[n][sub].occupied[back[n][sub]] > 0,
         NEW made \in [Nodes -> SourceType], \A n \in Nodes : Injected(n, made[n])
  PROVE  World(made, [n \in Nodes |-> Read(n)], first, inside, total \cup NewFlits(made))
<1> DEFINE pp == [n \in Nodes |-> Read(n)]
           new == NewFlits(made)
<1>1. /\ node \in [Nodes -> SourceType] /\ port \in [Nodes -> [Subnets -> PortType]] /\ first \in [Nodes -> LineType]
      /\ inside \in [Nodes -> [Subnets -> Seq(FlitType)]]
      /\ \A n \in Nodes : SourceGood(n, node[n], port[n], first[n])
      /\ SinkGood(node, first, inside)
      /\ total \subseteq FlitType /\ IsFiniteSet(total) /\ Upward(total)
      /\ \A f : f \in total <=> Somewhere(node, first, inside, f)
  BY DEF World
<1>2. /\ \A p : p \in MadePackets(made) <=> \E n \in Nodes : \E c \in Made(n, made[n]) : p = made[n].queue[c].packet
      /\ MadePackets(made) \cap Packets(total) = {} /\ MadePackets(made) \subseteq PacketType
      /\ \A f : f \in new <=> f \in FlitType /\ f[1] \in MadePackets(made)
      /\ IsFiniteSet(new)
  BY <1>1, NewPackets
<1> HIDE DEF new
<1>3. ASSUME NEW n \in Nodes
      PROVE  /\ pp[n] \in [Subnets -> PortType]
             /\ \A sub \in Subnets : pp[n][sub].inUse = port[n][sub].inUse /\ pp[n][sub].lastVC = port[n][sub].lastVC
  <2>1. port[n] \in [Subnets -> PortType]
    BY <1>1
  <2>2. pp[n] = Read(n)
    OBVIOUS
  <2> HIDE DEF pp
  <2> QED
    BY <2>1, <2>2, ReadPorts
<1>4. pp \in [Nodes -> [Subnets -> PortType]]
  BY <1>3
<1> HIDE DEF pp
<1>5. \A f \in total : f[1] \in Packets(total)
  BY DEF Packets
<1>6. \A n \in Nodes, sub \in Subnets, vc \in VCs : \A f \in Range(first[n][sub][vc]) : f[1] \in Packets(total)
  BY <1>1, <1>5 DEF Somewhere, OnLine
<1>7. ASSUME NEW n \in Nodes PROVE SourceGood(n, made[n], pp[n], first[n])
  <2>1. SourceGood(n, node[n], port[n], first[n]) /\ Injected(n, made[n])
    BY <1>1
  <2>2. \A sub \in Subnets, vc \in VCs : \A f \in Range(first[n][sub][vc]) : f[1] \in Packets(total)
    BY <1>6
  <2> QED
    BY <1>3, <2>1, <2>2, InjectedGood
(* A class has the packet it had, or a new one. *)
<1>8. ASSUME NEW n \in Nodes, NEW c \in Classes, made[n].queue[c] # None
      PROVE  \/ node[n].queue[c] # None /\ made[n].queue[c] = node[n].queue[c]
             \/ c \in Made(n, made[n]) /\ made[n].queue[c].packet \in MadePackets(made) /\ made[n].queue[c].sent = 0
  <2>1. CASE node[n].queue[c] # None
    BY <2>1 DEF Injected
  <2>2. CASE node[n].queue[c] = None
    <3>1. c \in Made(n, made[n])
      BY <1>8, <2>2 DEF Made
    <3> QED
      BY <1>2, <3>1 DEF Injected
  <2> QED
    BY <2>1, <2>2
<1>9. SinkGood(made, first, inside)
  <2>1. ASSUME NEW d \in Nodes, NEW sub \in Subnets, NEW f \in Range(inside[d][sub]), NEW n \in Nodes, NEW c \in Classes,
               made[n].queue[c] # None, made[n].queue[c].packet = f[1]
        PROVE  f[2] <= made[n].queue[c].sent
    <3>1. f \in total
      BY <1>1 DEF Somewhere, AtSink
    <3>2. made[n].queue[c].packet \notin MadePackets(made)
      BY <1>2, <1>5, <2>1, <3>1
    <3>3. node[n].queue[c] # None /\ made[n].queue[c] = node[n].queue[c]
      BY <1>8, <2>1, <3>2
    <3> QED
      BY <1>1, <2>1, <3>3 DEF SinkGood
  <2> QED
    BY <1>1, <2>1 DEF SinkGood
<1>10. Upward(total \cup new)
  <2> SUFFICES ASSUME NEW f \in total \cup new, NEW j \in f[2] .. f[1].size PROVE <<f[1], j>> \in total \cup new
    BY DEF Upward
  <2>1. CASE f \in total
    BY <1>1, <2>1 DEF Upward
  <2>2. CASE f \in new
    <3>1. f \in FlitType /\ f[1] \in MadePackets(made) /\ f[1] \in PacketType
      BY <1>2, <2>2
    <3>2. f[2] \in Nat /\ f[2] >= 1 /\ f[1].size \in Nat
      BY <3>1, FlitPair
    <3>3. <<f[1], j>> \in FlitType
      BY <3>1, <3>2 DEF FlitType
    <3> QED
      BY <1>2, <3>1, <3>3
  <2> QED
    BY <2>1, <2>2
<1>11. ASSUME NEW f PROVE f \in total \cup new <=> Somewhere(made, first, inside, f)
  <2>1. ASSUME NEW n \in Nodes, AtSource(made[n], f) PROVE f \in total \cup new
    <3>1. PICK c \in Classes : made[n].queue[c] # None /\ f \in Flits(made[n].queue[c].packet) /\ f[2] > made[n].queue[c].sent
      BY <2>1 DEF AtSource
    <3>2. CASE node[n].queue[c] # None /\ made[n].queue[c] = node[n].queue[c]
      BY <1>1, <3>1, <3>2 DEF Somewhere, AtSource
    <3>3. CASE made[n].queue[c].packet \in MadePackets(made)
      <4>1. made[n].queue[c].packet \in PacketType
        BY <1>2, <3>3
      <4>2. f \in FlitType /\ f[1] = made[n].queue[c].packet
        BY <3>1, <4>1, FlitsOfPacket
      <4> QED
        BY <1>2, <3>3, <4>2
    <3> QED
      BY <1>8, <3>1, <3>2, <3>3
  <2>2. ASSUME NEW n \in Nodes, AtSource(node[n], f) PROVE AtSource(made[n], f)
    BY <2>2 DEF AtSource, Injected
  <2>3. ASSUME f \in new PROVE Somewhere(made, first, inside, f)
    <3>1. f \in FlitType /\ f[1] \in MadePackets(made) /\ f[1] \in PacketType
      BY <1>2, <2>3
    <3>2. PICK n \in Nodes : \E c \in Made(n, made[n]) : f[1] = made[n].queue[c].packet
      BY <1>2, <3>1
    <3>3. PICK c \in Made(n, made[n]) : f[1] = made[n].queue[c].packet
      BY <3>2
    <3>4. c \in Classes /\ made[n].queue[c] # None
      BY DEF Made
    <3>5. made[n].queue[c].sent = 0
      BY DEF Injected
    <3>6. f \in Flits(made[n].queue[c].packet)
      BY <3>1, <3>3, FlitsOfPacket
    <3>7. f[2] > 0
      BY <3>1 DEF FlitType
    <3>8. AtSource(made[n], f)
      BY <3>4, <3>5, <3>6, <3>7 DEF AtSource
    <3> QED
      BY <3>8 DEF Somewhere
  <2>4. ASSUME Somewhere(made, first, inside, f) PROVE f \in total \cup new
    <3>1. PICK n \in Nodes : AtSource(made[n], f) \/ OnLine(first[n], f) \/ AtSink(inside[n], f)
      BY <2>4 DEF Somewhere
    <3>2. CASE AtSource(made[n], f)
      BY <2>1, <3>2
    <3>3. CASE OnLine(first[n], f) \/ AtSink(inside[n], f)
      BY <1>1, <3>3 DEF Somewhere
    <3> QED
      BY <3>1, <3>2, <3>3
  <2>5. ASSUME f \in total PROVE Somewhere(made, first, inside, f)
    <3>1. PICK n \in Nodes : AtSource(node[n], f) \/ OnLine(first[n], f) \/ AtSink(inside[n], f)
      BY <1>1, <2>5 DEF Somewhere
    <3> QED
      BY <2>2, <3>1 DEF Somewhere
  <2> QED
    BY <2>3, <2>4, <2>5
<1>12. total \cup new \subseteq FlitType /\ IsFiniteSet(total \cup new)
  <2>1. IsFiniteSet(total \cup new)
    BY <1>1, <1>2, FS_Union
  <2> QED
    BY <1>1, <1>2, <2>1
<1>13. World(made, pp, first, inside, total \cup new)
  BY <1>1, <1>4, <1>7, <1>9, <1>10, <1>11, <1>12 DEF World
<1> QED
  BY <1>13 DEF pp, new

(* What is in flight after the sources have sent. *)
LEMMA WorldSent ==
  ASSUME config \in Configs, NEW ss, NEW pp, NEW ll, NEW ins, NEW t, World(ss, pp, ll, ins, t),
         NEW ss2 \in [Nodes -> SourceType], NEW pp2 \in [Nodes -> [Subnets -> PortType]], NEW ll2 \in [Nodes -> LineType],
         \A n \in Nodes : SourceGood(n, ss2[n], pp2[n], ll2[n]) /\ HasSent(ss[n], pp[n], ll[n], ss2[n], pp2[n], ll2[n])
  PROVE  World(ss2, pp2, ll2, ins, t)
<1>1. /\ ss \in [Nodes -> SourceType] /\ ll \in [Nodes -> LineType] /\ ins \in [Nodes -> [Subnets -> Seq(FlitType)]]
      /\ SinkGood(ss, ll, ins)
      /\ t \subseteq FlitType /\ IsFiniteSet(t) /\ Upward(t)
      /\ \A f : f \in t <=> Somewhere(ss, ll, ins, f)
  BY DEF World
<1>2. ASSUME NEW f PROVE f \in t <=> Somewhere(ss2, ll2, ins, f)
  <2>1. \A n \in Nodes : AtSource(ss2[n], f) \/ OnLine(ll2[n], f) <=> AtSource(ss[n], f) \/ OnLine(ll[n], f)
    BY DEF HasSent
  <2>2. Somewhere(ss2, ll2, ins, f) <=> Somewhere(ss, ll, ins, f)
    BY <2>1 DEF Somewhere
  <2> QED
    BY <1>1, <2>2
<1>3. SinkGood(ss2, ll2, ins)
  <2> SUFFICES ASSUME NEW d \in Nodes, NEW sub \in Subnets, NEW f \in Range(ins[d][sub])
               PROVE  /\ \A n \in Nodes, c \in Classes :
                           ss2[n].queue[c] # None /\ ss2[n].queue[c].packet = f[1] => f[2] <= ss2[n].queue[c].sent
                      /\ \A n \in Nodes, vc \in VCs : \A g \in Range(ll2[n][sub][vc]) : g[1] = f[1] => f[2] < g[2]
    BY <1>1 DEF SinkGood
  <2>1. f \in FlitType
    BY <1>1 DEF Range
  <2>2. f[2] \in Nat
    BY <2>1 DEF FlitType
  <2>3. /\ \A n \in Nodes, c \in Classes :
             ss[n].queue[c] # None /\ ss[n].queue[c].packet = f[1] => f[2] <= ss[n].queue[c].sent
        /\ \A n \in Nodes, vc \in VCs : \A g \in Range(ll[n][sub][vc]) : g[1] = f[1] => f[2] < g[2]
    BY <1>1 DEF SinkGood
  <2>4. ASSUME NEW n \in Nodes, NEW c \in Classes, ss2[n].queue[c] # None, ss2[n].queue[c].packet = f[1]
        PROVE  f[2] <= ss2[n].queue[c].sent
    <3>1. HasSent(ss[n], pp[n], ll[n], ss2[n], pp2[n], ll2[n])
      OBVIOUS
    <3>2. ss[n].queue[c] # None /\ ss2[n].queue[c].packet = ss[n].queue[c].packet /\ ss2[n].queue[c].sent >= ss[n].queue[c].sent
      BY <2>4, <3>1 DEF HasSent
    <3>3. f[2] <= ss[n].queue[c].sent
      BY <2>3, <2>4, <3>2
    <3>4. ss2[n].queue[c].sent \in Nat /\ ss[n].queue[c].sent \in Nat
      <4>1. ss2[n].queue[c] \in Queueing /\ ss[n].queue[c] \in Queueing
        BY <1>1, <2>4, <3>2 DEF SourceType
      <4> QED
        BY <4>1 DEF Queueing
    <3> QED
      BY <2>2, <3>2, <3>3, <3>4
  <2>5. ASSUME NEW n \in Nodes, NEW vc \in VCs, NEW g \in Range(ll2[n][sub][vc]), g[1] = f[1]
        PROVE  f[2] < g[2]
    <3>1. HasSent(ss[n], pp[n], ll[n], ss2[n], pp2[n], ll2[n])
      OBVIOUS
    <3>2. g \in Range(ll[n][sub][vc]) \/ \E c \in Classes : ss[n].queue[c] # None /\ g[1] = ss[n].queue[c].packet /\ g[2] > ss[n].queue[c].sent
      BY <3>1 DEF HasSent
    <3>3. CASE g \in Range(ll[n][sub][vc])
      BY <2>3, <2>5, <3>3
    <3>4. ASSUME NEW c \in Classes, ss[n].queue[c] # None, g[1] = ss[n].queue[c].packet, g[2] > ss[n].queue[c].sent
          PROVE  f[2] < g[2]
      <4>1. f[2] <= ss[n].queue[c].sent
        BY <2>3, <2>5, <3>4
      <4>2. ss[n].queue[c] \in Queueing
        BY <1>1, <3>4 DEF SourceType
      <4>3. ss[n].queue[c].sent \in Nat
        BY <4>2 DEF Queueing
      <4>4. g \in FlitType
        BY DEF LineType, Range
      <4>5. g[2] \in Nat
        BY <4>4 DEF FlitType
      <4> QED
        BY <2>2, <3>4, <4>1, <4>3, <4>5
    <3> QED
      BY <3>2, <3>3, <3>4
  <2> QED
    BY <2>4, <2>5
<1> QED
  BY <1>1, <1>2, <1>3 DEF World

-----------------------------------------------------------------------------
(* The books of sources and sinks.                                         *)
Unanswered(t, n) == {p \in Packets(t) : IF p.type \in Replies THEN p.dest = n ELSE p.src = n}
Asked(ss, n) == [m \in Nodes |-> Many(ss[m].pending, RepliesTo(n))]
Requested(ss, t) ==
  \A n \in Nodes : ss[n].requests = IF config.batch = 0 THEN 0
                                    ELSE Cardinality(Unanswered(t, n)) + Sum(Asked(ss, n), Nodes)
BookType ==
  [total : SUBSET FlitType, measured : SUBSET FlitType, retired : SUBSET PacketType, ok : BOOLEAN,
   node : [Nodes -> SourceType], inside : [Nodes -> [Subnets -> Seq(FlitType)]]]
HeadsOf(t) == {p \in Packets(t) : <<p, 1>> \notin t}
Booked(b, pp, ll) ==
  /\ World(b.node, pp, ll, b.inside, b.total)
  /\ b.measured = {f \in b.total : f[1].record}
  /\ b.retired = HeadsOf(b.total)
  /\ Requested(b.node, b.total)
  /\ b.ok = TRUE

(* The members of a line whose first one leaves. *)
LEMMA RangeTail ==
  ASSUME NEW T, NEW q \in Seq(T), q # <<>>
  PROVE  /\ Head(q) \in T /\ Tail(q) \in Seq(T) /\ Range(q) = Range(Tail(q)) \cup {Head(q)}
         /\ InOrder(q) => /\ InOrder(Tail(q))
                          /\ \A g \in Range(Tail(q)) : g[1] = Head(q)[1] => Head(q)[2] < g[2]
<1> DEFINE r == Tail(q)
<1>1. /\ Len(q) \in Nat \ {0} /\ DOMAIN q = 1 .. Len(q) /\ Head(q) = q[1] /\ Head(q) \in T
      /\ r \in Seq(T) /\ DOMAIN r = 1 .. Len(q) - 1
      /\ \A i \in 1 .. Len(q) - 1 : r[i] = q[i + 1]
  BY HeadTailProperties
<1> HIDE DEF r
<1>2. ASSUME NEW f \in Range(q) PROVE f \in Range(r) \cup {Head(q)}
  <2>1. PICK i \in 1 .. Len(q) : f = q[i]
    BY <1>1 DEF Range
  <2>2. CASE i = 1
    BY <1>1, <2>1, <2>2
  <2>3. CASE i # 1
    <3>1. i - 1 \in 1 .. Len(q) - 1 /\ q[(i - 1) + 1] = f
      BY <1>1, <2>1, <2>3
    <3>2. r[i - 1] = f
      BY <1>1, <3>1
    <3> QED
      BY <1>1, <3>1, <3>2 DEF Range
  <2> QED
    BY <2>2, <2>3
<1>3. ASSUME NEW f \in Range(r) PROVE \E j \in 2 .. Len(q) : f = q[j]
  <2>1. PICK i \in 1 .. Len(q) - 1 : f = r[i]
    BY <1>1 DEF Range
  <2>2. i + 1 \in 2 .. Len(q) /\ f = q[i + 1]
    BY <1>1, <2>1
  <2> QED
    BY <2>2
<1>4. Range(r) \subseteq Range(q) /\ Head(q) \in Range(q)
  <2>1. 1 \in 1 .. Len(q) /\ \A j \in 2 .. Len(q) : j \in 1 .. Len(q)
    BY <1>1
  <2> QED
    BY <1>1, <1>3, <2>1 DEF Range
<1>5. ASSUME InOrder(q) PROVE InOrder(r) /\ \A g \in Range(r) : g[1] = Head(q)[1] => Head(q)[2] < g[2]
  <2>1. \A i, j \in 1 .. Len(q) : i < j /\ q[i][1] = q[j][1] => q[i][2] < q[j][2]
    BY <1>1, <1>5 DEF InOrder
  <2>2. InOrder(r)
    <3> SUFFICES ASSUME NEW i \in 1 .. Len(q) - 1, NEW j \in 1 .. Len(q) - 1, i < j, r[i][1] = r[j][1] PROVE r[i][2] < r[j][2]
      BY <1>1 DEF InOrder
    <3>1. i + 1 \in 1 .. Len(q) /\ j + 1 \in 1 .. Len(q) /\ i + 1 < j + 1
      BY <1>1
    <3>2. r[i] = q[i + 1] /\ r[j] = q[j + 1]
      BY <1>1
    <3> QED
      BY <2>1, <3>1, <3>2
  <2>3. ASSUME NEW g \in Range(r), g[1] = Head(q)[1] PROVE Head(q)[2] < g[2]
    <3>1. PICK j \in 2 .. Len(q) : g = q[j]
      BY <1>3
    <3>2. 1 \in 1 .. Len(q) /\ j \in 1 .. Len(q) /\ 1 < j
      BY <1>1
    <3> QED
      BY <1>1, <2>1, <2>3, <3>1, <3>2
  <2> QED
    BY <2>2, <2>3
<1> QED
  BY <1>1, <1>2, <1>4, <1>5 DEF r

(* Only the queues of a source matter to its ports and lines. *)
LEMMA SourceSame ==
  ASSUME NEW n, NEW s, NEW p, NEW l, SourceGood(n, s, p, l), NEW s2 \in SourceType, s2.queue = s.queue
  PROVE  SourceGood(n, s2, p, l)
<1>1. \A c, sub, vc : Partly(s2, c, sub, vc) <=> Partly(s, c, sub, vc)
  BY Zenon DEF Partly
<1>2. QueueGood(n, s2, p)
  <2>1. QueueGood(n, s, p)
    BY Zenon DEF SourceGood
  <2> SUFFICES ASSUME NEW c \in Classes, s2.queue[c] # None
               PROVE  /\ s2.queue[c].packet.src = n /\ s2.queue[c].packet.cl = c
                      /\ s2.queue[c].sent < s2.queue[c].packet.size
                      /\ s2.queue[c].sent = 0 => s2.queue[c].vc = None
                      /\ s2.queue[c].sent > 0 =>
                           /\ s2.queue[c].vc \in VCs
                           /\ p[s2.queue[c].packet.subnet].inUse[s2.queue[c].vc]
                           /\ p[s2.queue[c].packet.subnet].lastVC[c] = s2.queue[c].vc
    BY Zenon DEF QueueGood
  <2>2. s.queue[c] # None /\ s2.queue[c] = s.queue[c]
    BY Zenon
  <2>3. /\ s.queue[c].packet.src = n /\ s.queue[c].packet.cl = c /\ s.queue[c].sent < s.queue[c].packet.size
        /\ s.queue[c].sent = 0 => s.queue[c].vc = None
        /\ s.queue[c].sent > 0 => /\ s.queue[c].vc \in VCs /\ p[s.queue[c].packet.subnet].inUse[s.queue[c].vc]
                                  /\ p[s.queue[c].packet.subnet].lastVC[c] = s.queue[c].vc
    BY <2>1, <2>2, Zenon DEF QueueGood
  <2> QED
    BY <2>2, <2>3, Zenon
<1>3. OneHolder(s2) /\ UseHeld(s2, p)
  BY <1>1 DEF SourceGood, OneHolder, UseHeld
<1>4. \A sub \in Subnets, vc \in VCs : LineGood(n, s2, l, sub, vc)
  BY DEF SourceGood, LineGood
<1> QED
  BY <1>2, <1>3, <1>4 DEF SourceGood

(* The flit that a sink reads is the first of its packet in flight. *)
LEMMA FirstAtSink ==
  ASSUME config \in Configs, NEW ss, NEW pp, NEW ll, NEW ins, NEW t, World(ss, pp, ll, ins, t),
         NEW n \in Nodes, NEW sub \in Subnets, ins[n][sub] # <<>>
  PROVE  LET f == Head(ins[n][sub]) IN
         /\ f \in t /\ f \in FlitType /\ f[1].dest = n /\ f[1].subnet = sub
         /\ \A g \in t : g[1] = f[1] /\ g # f => f[2] < g[2]
         /\ \A m \in Nodes : ~AtSource(ss[m], f) /\ ~OnLine(ll[m], f)
<1> DEFINE q == ins[n][sub]
           f == Head(q)
<1>1. /\ ss \in [Nodes -> SourceType] /\ ll \in [Nodes -> LineType] /\ q \in Seq(FlitType)
      /\ SinkGood(ss, ll, ins) /\ \A g : g \in t <=> Somewhere(ss, ll, ins, g)
      /\ \A m \in Nodes : SourceGood(m, ss[m], pp[m], ll[m])
  BY DEF World
<1>2. InOrder(q)
  BY <1>1 DEF SinkGood
<1>3. f \in FlitType /\ Range(q) = Range(Tail(q)) \cup {f} /\ \A g \in Range(Tail(q)) : g[1] = f[1] => f[2] < g[2]
  <2> HIDE DEF q
  <2> QED
    BY <1>1, <1>2, RangeTail DEF q
<1>4. f \in Range(q) /\ f[2] \in Nat
  BY <1>3 DEF FlitType
<1> HIDE DEF f
<1>5. f \in t
  BY <1>1, <1>4 DEF Somewhere, AtSink
<1>6. /\ f[1].dest = n /\ f[1].subnet = sub
      /\ \A m \in Nodes, c \in Classes : ss[m].queue[c] # None /\ ss[m].queue[c].packet = f[1] => f[2] <= ss[m].queue[c].sent
      /\ \A m \in Nodes, vc \in VCs : \A g \in Range(ll[m][sub][vc]) : g[1] = f[1] => f[2] < g[2]
  BY <1>1, <1>4 DEF SinkGood
<1>7. ASSUME NEW m \in Nodes, NEW g, AtSource(ss[m], g), g[1] = f[1] PROVE f[2] < g[2]
  <2>1. PICK c \in Classes : ss[m].queue[c] # None /\ g \in Flits(ss[m].queue[c].packet) /\ g[2] > ss[m].queue[c].sent
    BY <1>7 DEF AtSource
  <2>2. ss[m].queue[c] \in Queueing
    BY <1>1, <2>1 DEF SourceType
  <2>3. ss[m].queue[c].packet \in PacketType /\ ss[m].queue[c].sent \in Nat
    BY <2>2 DEF Queueing
  <2>4. g \in FlitType /\ g[1] = ss[m].queue[c].packet
    BY <2>1, <2>3, FlitsOfPacket
  <2>5. g[2] \in Nat
    BY <2>4 DEF FlitType
  <2>6. f[2] <= ss[m].queue[c].sent
    BY <1>6, <1>7, <2>1, <2>4
  <2> QED
    BY <1>4, <2>1, <2>3, <2>5, <2>6
<1>8. ASSUME NEW m \in Nodes, NEW g, OnLine(ll[m], g), g[1] = f[1] PROVE f[2] < g[2]
  <2>1. PICK a \in Subnets, vc \in VCs : g \in Range(ll[m][a][vc])
    BY <1>8 DEF OnLine
  <2>2. LineGood(m, ss[m], ll[m], a, vc)
    BY <1>1 DEF SourceGood
  <2>3. a = sub
    BY <1>6, <1>8, <2>1, <2>2 DEF LineGood
  <2> QED
    BY <1>6, <1>8, <2>1, <2>3
<1>9. ASSUME NEW m \in Nodes, NEW g, AtSink(ins[m], g), g[1] = f[1], g # f PROVE f[2] < g[2]
  <2>1. PICK a \in Subnets : g \in Range(ins[m][a])
    BY <1>9 DEF AtSink
  <2>2. m = n /\ a = sub
    BY <1>1, <1>6, <1>9, <2>1 DEF SinkGood
  <2>3. g \in Range(Tail(q))
    BY <1>3, <1>9, <2>1, <2>2
  <2> QED
    BY <1>3, <1>9, <2>3
<1>10. \A g \in t : g[1] = f[1] /\ g # f => f[2] < g[2]
  BY <1>1, <1>7, <1>8, <1>9 DEF Somewhere
<1>11. \A m \in Nodes : ~AtSource(ss[m], f) /\ ~OnLine(ll[m], f)
  BY <1>4, <1>7, <1>8
<1> QED
  BY <1>3, <1>5, <1>6, <1>10, <1>11 DEF f

(* What is in flight after it has been read. *)
LEMMA RetiredWorld ==
  ASSUME config \in Configs, NEW ss, NEW pp, NEW ll, NEW ins, NEW t, World(ss, pp, ll, ins, t),
         NEW n \in Nodes, NEW sub \in Subnets, ins[n][sub] # <<>>,
         NEW ss2 \in [Nodes -> SourceType], \A m \in Nodes : ss2[m].queue = ss[m].queue
  PROVE  World(ss2, pp, ll, [ins EXCEPT ![n][sub] = Tail(@)], t \ {Head(ins[n][sub])})
<1> DEFINE q == ins[n][sub]
           f == Head(q)
           r == Tail(q)
           ins2 == [ins EXCEPT ![n][sub] = r]
           t2 == t \ {f}
<1>1. /\ ss \in [Nodes -> SourceType] /\ pp \in [Nodes -> [Subnets -> PortType]] /\ ll \in [Nodes -> LineType]
      /\ ins \in [Nodes -> [Subnets -> Seq(FlitType)]] /\ q \in Seq(FlitType)
      /\ SinkGood(ss, ll, ins) /\ \A g : g \in t <=> Somewhere(ss, ll, ins, g)
      /\ \A m \in Nodes : SourceGood(m, ss[m], pp[m], ll[m])
      /\ t \subseteq FlitType /\ IsFiniteSet(t) /\ Upward(t)
  BY DEF World
<1>2. /\ f \in t /\ f \in FlitType /\ f[1].dest = n /\ f[1].subnet = sub
      /\ \A g \in t : g[1] = f[1] /\ g # f => f[2] < g[2]
      /\ \A m \in Nodes : ~AtSource(ss[m], f) /\ ~OnLine(ll[m], f)
  BY FirstAtSink
<1>3. InOrder(q)
  BY <1>1 DEF SinkGood
<1>4. /\ r \in Seq(FlitType) /\ Range(q) = Range(r) \cup {f} /\ InOrder(r)
      /\ \A g \in Range(r) : g[1] = f[1] => f[2] < g[2]
  <2> HIDE DEF q
  <2> QED
    BY <1>1, <1>3, RangeTail DEF q
<1>5. f \notin Range(r)
  <2>1. f[2] \in Nat
    BY <1>2 DEF FlitType
  <2> HIDE DEF f, r
  <2> QED
    BY <1>4, <2>1
<1> HIDE DEF f, r
<1>6. /\ ins2 \in [Nodes -> [Subnets -> Seq(FlitType)]] /\ ins2[n][sub] = r
      /\ \A m \in Nodes, a \in Subnets : m # n \/ a # sub => ins2[m][a] = ins[m][a]
  BY <1>1, <1>4
<1> HIDE DEF ins2
<1>7. ASSUME NEW m \in Nodes, NEW a \in Subnets PROVE Range(ins2[m][a]) = Range(ins[m][a]) \ {f}
  <2>1. CASE m = n /\ a = sub
    BY <1>4, <1>5, <1>6, <2>1
  <2>2. CASE m # n \/ a # sub
    <3>1. f \notin Range(ins[m][a])
      BY <1>1, <1>2, <2>2 DEF SinkGood
    <3> QED
      BY <1>6, <2>2, <3>1
  <2> QED
    BY <2>1, <2>2
<1>8. \A m \in Nodes : SourceGood(m, ss2[m], pp[m], ll[m])
  BY <1>1, SourceSame
<1>9. SinkGood(ss2, ll, ins2)
  <2>1. ASSUME NEW d \in Nodes, NEW a \in Subnets PROVE InOrder(ins2[d][a])
    <3>1. CASE d = n /\ a = sub
      BY <1>4, <1>6, <3>1
    <3>2. CASE d # n \/ a # sub
      BY <1>1, <1>6, <3>2 DEF SinkGood
    <3> QED
      BY <3>1, <3>2
  <2>2. \A m \in Nodes, c \in Classes : ss2[m].queue[c] = ss[m].queue[c]
    OBVIOUS
  <2>3. ASSUME NEW d \in Nodes, NEW a \in Subnets, NEW g \in Range(ins2[d][a])
        PROVE  /\ g[1].dest = d /\ g[1].subnet = a
               /\ \A m \in Nodes, c \in Classes :
                    ss[m].queue[c] # None /\ ss[m].queue[c].packet = g[1] => g[2] <= ss[m].queue[c].sent
               /\ \A m \in Nodes, vc \in VCs : \A h \in Range(ll[m][a][vc]) : h[1] = g[1] => g[2] < h[2]
    <3>1. g \in Range(ins[d][a])
      BY <1>7
    <3> QED
      BY <1>1, <3>1 DEF SinkGood
  <2> QED
    BY <2>1, <2>2, <2>3 DEF SinkGood
<1>10. Upward(t2)
  <2> SUFFICES ASSUME NEW g \in t2, NEW j \in g[2] .. g[1].size PROVE <<g[1], j>> \in t2
    BY DEF Upward
  <2>1. <<g[1], j>> \in t
    BY <1>1 DEF Upward
  <2>2. g \in FlitType /\ g[2] \in Nat /\ g[1].size \in Nat /\ f[2] \in Nat
    <3>1. g \in FlitType
      BY <1>1
    <3> QED
      BY <1>2, <3>1, FlitPair
  <2>3. <<g[1], j>> # f
    <3>1. CASE g[1] = f[1]
      <4>1. f[2] < g[2]
        BY <1>2, <3>1
      <4>2. j # f[2]
        BY <2>2, <4>1
      <4> QED
        BY <4>2
    <3>2. CASE g[1] # f[1]
      BY <3>2
    <3> QED
      BY <3>1, <3>2
  <2> QED
    BY <2>1, <2>3
<1>11. ASSUME NEW g PROVE g \in t2 <=> Somewhere(ss2, ll, ins2, g)
  <2>1. \A m \in Nodes : AtSource(ss2[m], g) <=> AtSource(ss[m], g)
    BY DEF AtSource
  <2>2. \A m \in Nodes : AtSink(ins2[m], g) <=> AtSink(ins[m], g) /\ g # f
    <3> SUFFICES ASSUME NEW m \in Nodes PROVE AtSink(ins2[m], g) <=> AtSink(ins[m], g) /\ g # f
      OBVIOUS
    <3>1. \A a \in Subnets : g \in Range(ins2[m][a]) <=> g \in Range(ins[m][a]) /\ g # f
      BY <1>7
    <3> QED
      BY <3>1, Zenon DEF AtSink
  <2>3. CASE g = f
    <3>1. ~Somewhere(ss2, ll, ins2, g)
      BY <1>2, <2>1, <2>2, <2>3 DEF Somewhere
    <3> QED
      BY <2>3, <3>1
  <2>4. CASE g # f
    <3>1. Somewhere(ss2, ll, ins2, g) <=> Somewhere(ss, ll, ins, g)
      BY <2>1, <2>2, <2>4 DEF Somewhere
    <3> QED
      BY <1>1, <2>4, <3>1
  <2> QED
    BY <2>3, <2>4
<1>12. t2 \subseteq FlitType /\ IsFiniteSet(t2)
  <2>1. t2 \subseteq t
    OBVIOUS
  <2>2. IsFiniteSet(t2)
    <3> HIDE DEF t2
    <3> QED
      BY <1>1, <2>1, FS_Subset
  <2> QED
    BY <1>1, <2>1, <2>2
<1>13. World(ss2, pp, ll, ins2, t2)
  BY <1>1, <1>6, <1>8, <1>9, <1>10, <1>11, <1>12 DEF World
<1>14. ins2 = [ins EXCEPT ![n][sub] = Tail(@)]
  BY DEF ins2, r
<1> QED
  BY <1>13, <1>14 DEF f

(* The packets in flight, and those whose head has been read. *)
LEMMA RetiredPackets ==
  ASSUME config \in Configs, NEW t, t \subseteq FlitType, Upward(t), NEW f \in t,
         \A g \in t : g[1] = f[1] /\ g # f => f[2] < g[2]
  PROVE  /\ f[1] \in Packets(t)
         /\ Packets(t \ {f}) = IF IsTail(f) THEN Packets(t) \ {f[1]} ELSE Packets(t)
         /\ HeadsOf(t \ {f}) = IF IsTail(f) THEN HeadsOf(t) \ {f[1]}
                               ELSE IF IsHead(f) THEN HeadsOf(t) \cup {f[1]} ELSE HeadsOf(t)
         /\ IsTail(f) /\ ~IsHead(f) => f[1] \in HeadsOf(t)
<1> DEFINE p == f[1]
           t2 == t \ {f}
<1>1. f = <<p, f[2]>> /\ p.size \in Nat \ {0} /\ f[2] \in 1 .. p.size /\ f[2] \in Nat
  BY FlitPair
<1>2. \A x : x \in Packets(t) <=> \E g \in t : g[1] = x
  BY DEF Packets
<1>3. \A x : x \in Packets(t2) <=> \E g \in t : g # f /\ g[1] = x
  BY DEF Packets
<1>4. p \in Packets(t)
  BY <1>2
<1>5. \A x : x # p => (x \in Packets(t2) <=> x \in Packets(t))
  BY <1>2, <1>3
<1>6. IsTail(f) => p \notin Packets(t2)
  <2> SUFFICES ASSUME IsTail(f), NEW g \in t, g # f, g[1] = p PROVE FALSE
    BY <1>3
  <2>1. f[2] = p.size
    BY DEF IsTail
  <2>2. f[2] < g[2]
    OBVIOUS
  <2>3. g \in FlitType
    OBVIOUS
  <2>4. g[2] \in Nat /\ g[2] <= g[1].size
    BY <2>3 DEF FlitType
  <2> QED
    BY <1>1, <2>1, <2>2, <2>4
<1>7. ~IsTail(f) => p \in Packets(t2)
  <2> SUFFICES ASSUME ~IsTail(f) PROVE p \in Packets(t2)
    OBVIOUS
  <2>1. f[2] + 1 \in f[2] .. f[1].size
    BY <1>1 DEF IsTail
  <2>2. <<p, f[2] + 1>> \in t
    BY <2>1 DEF Upward
  <2>3. <<p, f[2] + 1>> # f
    <3>1. f[2] + 1 # f[2]
      BY <1>1
    <3> QED
      BY <3>1
  <2>4. <<p, f[2] + 1>>[1] = p
    OBVIOUS
  <2> QED
    BY <1>3, <2>2, <2>3, <2>4
<1>8. Packets(t2) = IF IsTail(f) THEN Packets(t) \ {p} ELSE Packets(t)
  BY <1>4, <1>5, <1>6, <1>7
<1>9. \A x : x # p => (<<x, 1>> \in t2 <=> <<x, 1>> \in t)
  <2>1. \A x : <<x, 1>>[1] = x
    OBVIOUS
  <2> QED
    BY <2>1
<1>10. <<p, 1>> = f <=> IsHead(f)
  BY <1>1 DEF IsHead
<1>11. IsTail(f) /\ ~IsHead(f) => p \in HeadsOf(t)
  <2> SUFFICES ASSUME IsTail(f), ~IsHead(f), <<p, 1>> \in t PROVE FALSE
    BY <1>4 DEF HeadsOf
  <2>1. <<p, 1>> # f /\ <<p, 1>>[1] = p /\ <<p, 1>>[2] = 1
    BY <1>10
  <2>2. f[2] < 1
    BY <2>1
  <2> QED
    BY <1>1, <2>2
<1>12. ~IsTail(f) /\ ~IsHead(f) => (<<p, 1>> \in t2 <=> <<p, 1>> \in t)
  BY <1>10
<1>13. ASSUME NEW x
       PROVE  x \in HeadsOf(t2) <=> x \in (IF IsTail(f) THEN HeadsOf(t) \ {p}
                                           ELSE IF IsHead(f) THEN HeadsOf(t) \cup {p} ELSE HeadsOf(t))
  <2>1. x \in HeadsOf(t2) <=> x \in Packets(t2) /\ <<x, 1>> \notin t2
    BY DEF HeadsOf
  <2>2. x \in HeadsOf(t) <=> x \in Packets(t) /\ <<x, 1>> \notin t
    BY DEF HeadsOf
  <2>3. CASE x # p
    BY <1>5, <1>9, <2>1, <2>2, <2>3
  <2>4. CASE x = p
    <3>1. CASE IsTail(f)
      BY <1>6, <2>1, <2>4, <3>1
    <3>2. CASE ~IsTail(f) /\ IsHead(f)
      <4>1. <<p, 1>> \notin t2
        BY <1>10, <3>2
      <4> QED
        BY <1>7, <2>1, <2>4, <3>2, <4>1
    <3>3. CASE ~IsTail(f) /\ ~IsHead(f)
      BY <1>4, <1>7, <1>12, <2>1, <2>2, <2>4, <3>3
    <3> QED
      BY <3>1, <3>2, <3>3
  <2> QED
    BY <2>3, <2>4
<1>14. HeadsOf(t2) = IF IsTail(f) THEN HeadsOf(t) \ {p} ELSE IF IsHead(f) THEN HeadsOf(t) \cup {p} ELSE HeadsOf(t)
  <2> HIDE DEF t2, p
  <2> QED
    BY <1>13
<1> QED
  BY <1>4, <1>8, <1>11, <1>14

(* The numbers that requests are made of. *)
LEMMA UnansweredFinite ==
  ASSUME NEW t, IsFiniteSet(t), NEW n
  PROVE  IsFiniteSet(Packets(t)) /\ IsFiniteSet(Unanswered(t, n)) /\ Cardinality(Unanswered(t, n)) \in Nat
<1> DEFINE g == [f \in t |-> f[1]]
<1>1. Packets(t) = {g[f] : f \in t} /\ DOMAIN g = t
  BY DEF Packets
<1> HIDE DEF g
<1>2. IsFiniteSet(Packets(t))
  BY <1>1, ImageFinite
<1>3. Unanswered(t, n) \subseteq Packets(t)
  BY DEF Unanswered
<1> QED
  BY <1>2, <1>3, FS_Subset, FS_CardinalityType

(* The answers asked for are finitely many. *)
LEMMA AskedType ==
  ASSUME config \in Configs, NEW ss \in [Nodes -> SourceType], NEW n
  PROVE  Summable(Asked(ss, n), Nodes) /\ Sum(Asked(ss, n), Nodes) \in Nat
<1>1. ASSUME NEW m \in Nodes PROVE Asked(ss, n)[m] \in Nat
  <2>1. ss[m].pending \in Seq(Reply)
    BY DEF SourceType
  <2>2. Many(ss[m].pending, RepliesTo(n)) \in Nat
    BY <2>1, ManyType
  <2> QED
    BY <2>2 DEF Asked
<1>2. IsFiniteSet(Nodes)
  BY Finite
<1> QED
  BY <1>1, <1>2, SumNat

(* A packet that has been read is answered or settled. *)
LEMMA AnsweredAll ==
  ASSUME config \in Configs, NEW ss \in [Nodes -> SourceType], NEW t, IsFiniteSet(t), NEW t2, IsFiniteSet(t2), Requested(ss, t),
         NEW p \in PacketType, p \in Packets(t), Packets(t2) = Packets(t) \ {p}, NEW n \in Nodes, p.dest = n
  PROVE  /\ Answered(ss, p, n) \in [Nodes -> SourceType] /\ Requested(Answered(ss, p, n), t2)
         /\ \A m \in Nodes : Answered(ss, p, n)[m].queue = ss[m].queue
<1> DEFINE ss2 == Answered(ss, p, n)
           Mine(x) == IF p.type \in Replies THEN p.dest = x ELSE p.src = x
<1>1. p.src \in Nodes /\ p.type \in Types /\ p.record \in BOOLEAN
  BY DEF PacketType
<1>2. ASSUME NEW x \in Nodes
      PROVE  /\ Cardinality(Unanswered(t, x)) = Cardinality(Unanswered(t2, x)) + IF Mine(x) THEN 1 ELSE 0
             /\ Cardinality(Unanswered(t, x)) \in Nat /\ Cardinality(Unanswered(t2, x)) \in Nat
  <2>1. /\ IsFiniteSet(Unanswered(t, x)) /\ Cardinality(Unanswered(t, x)) \in Nat
        /\ IsFiniteSet(Unanswered(t2, x)) /\ Cardinality(Unanswered(t2, x)) \in Nat
    BY UnansweredFinite
  <2>2. CASE Mine(x)
    <3>1. p \in Unanswered(t, x) /\ Unanswered(t2, x) = Unanswered(t, x) \ {p}
      BY <2>2 DEF Unanswered
    <3>2. Cardinality(Unanswered(t2, x)) = Cardinality(Unanswered(t, x)) - 1
      BY <2>1, <3>1, FS_RemoveElement
    <3> QED
      BY <2>1, <2>2, <3>2
  <2>3. CASE ~Mine(x)
    <3>1. Unanswered(t2, x) = Unanswered(t, x)
      BY <2>3 DEF Unanswered
    <3> QED
      BY <2>1, <2>3, <3>1
  <2> QED
    BY <2>1, <2>2, <2>3
<1>3. \A m \in Nodes : ss[m] \in SourceType /\ ss[m].pending \in Seq(Reply) /\ ss[m].requests \in Int
  BY DEF SourceType
<1>4. CASE p.type \in Requests
  <2> DEFINE r == [source |-> p.src, type |-> p.type, record |-> p.record, early |-> simState # "draining"]
             q == Append(ss[n].pending, r)
             s2 == [ss[n] EXCEPT !.pending = q]
  <2>1. r \in Reply /\ r.source = p.src
    BY <1>1, <1>4 DEF Reply
  <2>2. q \in Seq(Reply)
    <3> HIDE DEF r
    <3> QED
      BY <1>3, <2>1
  <2>3. ss2 = [ss EXCEPT ![n] = s2]
    BY <1>4 DEF Answered
  <2> HIDE DEF q, ss2
  <2>4. s2 \in SourceType /\ s2.queue = ss[n].queue /\ s2.pending = q /\ s2.requests = ss[n].requests
    BY <1>3, <2>2 DEF SourceType
  <2> HIDE DEF s2
  <2>5. ss2 \in [Nodes -> SourceType] /\ ss2[n] = s2 /\ \A m \in Nodes \ {n} : ss2[m] = ss[m]
    BY <2>3, <2>4
  <2>6. ASSUME NEW x \in Nodes PROVE Sum(Asked(ss2, x), Nodes) = Sum(Asked(ss, x), Nodes) + IF Mine(x) THEN 1 ELSE 0
    <3> DEFINE F == Asked(ss, x)
               G == Asked(ss2, x)
    <3>1. Many(q, RepliesTo(x)) = Many(ss[n].pending, RepliesTo(x)) + IF r \in RepliesTo(x) THEN 1 ELSE 0
      <4> HIDE DEF r
      <4> QED
        BY <1>3, <2>1, ManyAppend DEF q
    <3>2. r \in RepliesTo(x) <=> Mine(x)
      <4>1. p.type \notin Replies
        BY <1>4 DEF Requests, Replies
      <4> HIDE DEF r
      <4> QED
        BY <2>1, <4>1 DEF RepliesTo
    <3>3. G[n] = Many(q, RepliesTo(x)) /\ F[n] = Many(ss[n].pending, RepliesTo(x)) /\ \A m \in Nodes \ {n} : G[m] = F[m]
      BY <2>4, <2>5 DEF Asked
    <3>4. Summable(F, Nodes) /\ Sum(F, Nodes) \in Nat
      BY AskedType
    <3>5. Many(q, RepliesTo(x)) \in Nat /\ Many(ss[n].pending, RepliesTo(x)) \in Nat
      BY <1>3, <2>2, ManyType
    <3> HIDE DEF F, G, Mine
    <3>6. DiffersAt(F, G, Nodes, n)
      BY <3>3, <3>4, <3>5 DEF DiffersAt
    <3>7. Sum(G, Nodes) = Sum(F, Nodes) - F[n] + G[n]
      BY <3>6, SumChange
    <3>8. F[n] \in Nat /\ G[n] = F[n] + IF Mine(x) THEN 1 ELSE 0
      BY <3>1, <3>2, <3>3, <3>5
    <3>9. Sum(G, Nodes) = Sum(F, Nodes) + IF Mine(x) THEN 1 ELSE 0
      BY <3>4, <3>7, <3>8
    <3> QED
      BY <3>9 DEF F, G
  <2>7. \A m \in Nodes : ss2[m].requests = ss[m].requests /\ ss2[m].queue = ss[m].queue
    BY <2>4, <2>5
  <2>8. ASSUME NEW x \in Nodes
        PROVE  ss2[x].requests = IF config.batch = 0 THEN 0 ELSE Cardinality(Unanswered(t2, x)) + Sum(Asked(ss2, x), Nodes)
    <3>1. ss[x].requests = IF config.batch = 0 THEN 0 ELSE Cardinality(Unanswered(t, x)) + Sum(Asked(ss, x), Nodes)
      BY DEF Requested
    <3>2. Sum(Asked(ss, x), Nodes) \in Nat
      BY AskedType
    <3> HIDE DEF Mine
    <3>3. Cardinality(Unanswered(t2, x)) + Sum(Asked(ss2, x), Nodes) = Cardinality(Unanswered(t, x)) + Sum(Asked(ss, x), Nodes)
      BY <1>2, <2>6, <3>2
    <3> QED
      BY <2>7, <3>1, <3>3
  <2> QED
    BY <2>5, <2>7, <2>8 DEF ss2, Requested
<1>5. CASE p.type \notin Requests
  <2> DEFINE y == Requester(p, n)
             k == IF config.batch = 0 THEN 0 ELSE 1
             s2 == Settled(ss[y])
  <2>1. y \in Nodes /\ \A x \in Nodes : Mine(x) <=> x = y
    <3>1. p.type = "any" \/ p.type \in Replies
      BY <1>1, <1>5 DEF Types
    <3>2. "any" \notin Replies
      BY DEF Replies
    <3> QED
      BY <1>1, <3>1, <3>2 DEF Requester
  <2>2. ss2 = [ss EXCEPT ![y] = s2]
    BY <1>5 DEF Answered
  <2> HIDE DEF y, ss2, Mine
  <2>3. s2 \in SourceType /\ s2.queue = ss[y].queue /\ s2.pending = ss[y].pending /\ s2.requests = ss[y].requests - k
    <3>1. ss[y] \in SourceType /\ ss[y].requests \in Int
      BY <1>3, <2>1
    <3>2. CASE config.batch = 0
      BY <3>1, <3>2 DEF Settled
    <3>3. CASE config.batch # 0
      <4>1. s2 = [ss[y] EXCEPT !.requests = ss[y].requests - 1]
        BY <3>3 DEF Settled
      <4> DEFINE r == ss[y].requests - 1
      <4>2. r \in Int
        BY <3>1
      <4>3. s2 = [ss[y] EXCEPT !.requests = r]
        BY <4>1
      <4> HIDE DEF r, s2
      <4>4. s2 \in SourceType /\ s2.queue = ss[y].queue /\ s2.pending = ss[y].pending /\ s2.requests = r
        BY <3>1, <4>2, <4>3 DEF SourceType
      <4> QED
        BY <3>3, <4>4 DEF r
    <3> QED
      BY <3>2, <3>3
  <2> HIDE DEF s2
  <2>4. ss2 \in [Nodes -> SourceType] /\ ss2[y] = s2 /\ \A m \in Nodes \ {y} : ss2[m] = ss[m]
    BY <2>1, <2>2, <2>3
  <2>5. \A m \in Nodes : ss2[m].queue = ss[m].queue /\ ss2[m].pending = ss[m].pending
    BY <2>3, <2>4
  <2>6. \A x \in Nodes : Asked(ss2, x) = Asked(ss, x)
    BY <2>5 DEF Asked
  <2>7. ASSUME NEW x \in Nodes
        PROVE  ss2[x].requests = IF config.batch = 0 THEN 0 ELSE Cardinality(Unanswered(t2, x)) + Sum(Asked(ss2, x), Nodes)
    <3>1. ss[x].requests = IF config.batch = 0 THEN 0 ELSE Cardinality(Unanswered(t, x)) + Sum(Asked(ss, x), Nodes)
      BY DEF Requested
    <3>2. Sum(Asked(ss, x), Nodes) \in Nat /\ ss[x].requests \in Int
      BY <1>3, AskedType
    <3>3. ss2[x].requests = ss[x].requests - IF Mine(x) THEN k ELSE 0
      BY <2>1, <2>3, <2>4, <3>2
    <3> DEFINE A == Sum(Asked(ss, x), Nodes)
    <3>4. Sum(Asked(ss2, x), Nodes) = A /\ A \in Nat
      BY <2>6, <3>2
    <3> HIDE DEF A
    <3> QED
      BY <1>2, <3>1, <3>3, <3>4 DEF A
  <2> QED
    BY <2>4, <2>5, <2>7 DEF ss2, Requested
<1> QED
  BY <1>4, <1>5

(* A flit is retired, if one has been read. *)
Fewer(b, b2) == b2.total \subseteq b.total
(* _RetireFlit: the books stay right, and less is in flight. *)
LEMMA RetireKeeps ==
  ASSUME config \in Configs, NEW pp, NEW ll, NEW b \in BookType, Booked(b, pp, ll), NEW n \in Nodes, NEW sub \in Subnets
  PROVE  Retire(b, n, sub) \in BookType /\ Booked(Retire(b, n, sub), pp, ll) /\ Fewer(b, Retire(b, n, sub))
<1> DEFINE q == b.inside[n][sub]
           f == Head(q)
           p == f[1]
           u == Retire(b, n, sub)
<1>1. CASE q = <<>>
  <2>1. u = b
    BY <1>1 DEF Retire
  <2> QED
    BY <2>1 DEF Fewer
<1>2. CASE q # <<>>
  <2>1. /\ World(b.node, pp, ll, b.inside, b.total) /\ b.measured = {g \in b.total : g[1].record}
        /\ b.retired = HeadsOf(b.total) /\ Requested(b.node, b.total) /\ b.ok = TRUE
    BY DEF Booked
  <2>2. /\ b.node \in [Nodes -> SourceType] /\ b.inside \in [Nodes -> [Subnets -> Seq(FlitType)]]
        /\ b.total \subseteq FlitType /\ b.measured \subseteq FlitType /\ b.retired \subseteq PacketType
    BY DEF BookType
  <2>3. IsFiniteSet(b.total) /\ Upward(b.total)
    BY <2>1 DEF World
  <2>4. /\ f \in b.total /\ f \in FlitType /\ p.dest = n
        /\ \A g \in b.total : g[1] = p /\ g # f => f[2] < g[2]
    BY <1>2, <2>1, FirstAtSink
  <2> DEFINE t2 == b.total \ {f}
             m2 == b.measured \ {f}
             r2 == IF IsTail(f) THEN b.retired \ {p} ELSE IF IsHead(f) THEN b.retired \cup {p} ELSE b.retired
             o2 == /\ b.ok
                   /\ f \in b.total
                   /\ p.record => f \in b.measured
                   /\ IsHead(f) => p.dest = n
                   /\ IsTail(f) /\ ~IsHead(f) => p \in b.retired
             n2 == IF IsTail(f) THEN Answered(b.node, p, n) ELSE b.node
             i2 == [b.inside EXCEPT ![n][sub] = Tail(@)]
  <2>5. u = [total |-> t2, measured |-> m2, retired |-> r2, ok |-> o2, node |-> n2, inside |-> i2]
    BY <1>2 DEF Retire
  <2>6. p \in PacketType
    BY <2>4 DEF FlitType
  <2>7. /\ p \in Packets(b.total)
        /\ Packets(t2) = IF IsTail(f) THEN Packets(b.total) \ {p} ELSE Packets(b.total)
        /\ HeadsOf(t2) = IF IsTail(f) THEN HeadsOf(b.total) \ {p}
                         ELSE IF IsHead(f) THEN HeadsOf(b.total) \cup {p} ELSE HeadsOf(b.total)
        /\ IsTail(f) /\ ~IsHead(f) => p \in HeadsOf(b.total)
    <3> HIDE DEF f
    <3> QED
      BY <2>2, <2>3, <2>4, RetiredPackets
  <2>8. IsFiniteSet(t2)
    <3>1. t2 \subseteq b.total
      OBVIOUS
    <3> HIDE DEF t2
    <3> QED
      BY <2>3, <3>1, FS_Subset
  <2>9. n2 \in [Nodes -> SourceType] /\ Requested(n2, t2) /\ \A m \in Nodes : n2[m].queue = b.node[m].queue
    <3>1. CASE IsTail(f)
      <4>1. Packets(t2) = Packets(b.total) \ {p} /\ n2 = Answered(b.node, p, n)
        BY <2>7, <3>1, Zenon
      <4> HIDE DEF t2, p, n2
      <4>2. /\ Answered(b.node, p, n) \in [Nodes -> SourceType] /\ Requested(Answered(b.node, p, n), t2)
            /\ \A m \in Nodes : Answered(b.node, p, n)[m].queue = b.node[m].queue
        <5> DEFINE ss == b.node
                   t == b.total
        <5>1. /\ ss \in [Nodes -> SourceType] /\ IsFiniteSet(t) /\ Requested(ss, t) /\ p.dest = n
              /\ p \in Packets(t) /\ Packets(t2) = Packets(t) \ {p}
          BY <2>1, <2>2, <2>3, <2>4, <2>7, <4>1
        <5> HIDE DEF ss, t
        <5>2. /\ Answered(ss, p, n) \in [Nodes -> SourceType] /\ Requested(Answered(ss, p, n), t2)
              /\ \A m \in Nodes : Answered(ss, p, n)[m].queue = ss[m].queue
          BY <2>6, <2>8, <5>1, AnsweredAll
        <5> QED
          BY <5>2 DEF ss
      <4> QED
        BY <4>1, <4>2
    <3>2. CASE ~IsTail(f)
      <4>1. Packets(t2) = Packets(b.total) /\ n2 = b.node
        BY <2>7, <3>2
      <4> HIDE DEF t2, n2
      <4>2. \A x : Unanswered(t2, x) = Unanswered(b.total, x)
        BY <4>1 DEF Unanswered
      <4> QED
        BY <2>1, <2>2, <4>1, <4>2 DEF Requested
    <3> QED
      BY <3>1, <3>2, Zenon
  <2>10. World(n2, pp, ll, i2, t2)
    <3> HIDE DEF n2
    <3>1. World(n2, pp, ll, [b.inside EXCEPT ![n][sub] = Tail(@)], b.total \ {Head(b.inside[n][sub])})
      <4> DEFINE ss == b.node
                 ins == b.inside
                 t == b.total
      <4>1. World(ss, pp, ll, ins, t) /\ ins[n][sub] # <<>> /\ \A m \in Nodes : n2[m].queue = ss[m].queue
        BY <1>2, <2>1, <2>9
      <4> HIDE DEF ss, ins, t
      <4>2. World(n2, pp, ll, [ins EXCEPT ![n][sub] = Tail(@)], t \ {Head(ins[n][sub])})
        <5>1. n2 \in [Nodes -> SourceType]
          BY <2>9, Zenon
        <5> QED
          BY <4>1, <5>1, RetiredWorld, ZenonT(40)
      <4> QED
        BY <4>2 DEF ss, ins, t
    <3> QED
      BY <3>1
  <2>11. m2 = {g \in t2 : g[1].record}
    BY <2>1
  <2>12. r2 = HeadsOf(t2) /\ r2 \subseteq PacketType
    <3> HIDE DEF f, t2
    <3> QED
      BY <2>1, <2>2, <2>6, <2>7
  <2>13. o2 = TRUE
    <3> HIDE DEF f
    <3> QED
      BY <2>1, <2>4, <2>7, Zenon
  <2>14. i2 \in [Nodes -> [Subnets -> Seq(FlitType)]]
    BY <2>10, Zenon DEF World
  <2>15. t2 \subseteq FlitType /\ m2 \subseteq FlitType /\ t2 \subseteq b.total
    BY <2>2
  <2> HIDE DEF t2, m2, r2, o2, n2, i2, u
  <2>16. /\ u \in BookType /\ u.total = t2 /\ u.measured = m2 /\ u.retired = r2 /\ u.ok = TRUE
         /\ u.node = n2 /\ u.inside = i2
    BY <2>5, <2>9, <2>12, <2>13, <2>14, <2>15 DEF BookType
  <2>17. Booked(u, pp, ll)
    BY <2>9, <2>10, <2>11, <2>12, <2>16 DEF Booked
  <2> QED
    BY <2>15, <2>16, <2>17 DEF u, Fewer
<1> QED
  BY <1>1, <1>2

(* A subnet. *)
LEMMA SubnetRetired ==
  ASSUME config \in Configs, NEW pp, NEW ll, NEW b \in BookType, Booked(b, pp, ll), NEW sub \in Subnets
  PROVE  RetireSubnet(b, sub) \in BookType /\ Booked(RetireSubnet(b, sub), pp, ll) /\ Fewer(b, RetireSubnet(b, sub))
<1> DEFINE N == config.nodes
           Fine(d) == Booked(d, pp, ll) /\ Fewer(b, d)
           T == {d \in BookType : Fine(d)}
           next(k, d) == Retire(d, k - 1, sub)
           body(f) == [n \in 0 .. N |-> IF n = 0 THEN b ELSE next(n, f[n - 1])]
           done == CHOOSE f : f = body(f)
           step == [k \in 1 .. N |-> [d \in T |-> next(k, d)]]
<1>1. RetireSubnet(b, sub) = done[N]
  BY DEF RetireSubnet
<1>2. N \in Nat /\ \A k \in 1 .. N : k - 1 \in Nodes
  BY Sizes DEF Nodes, Below
<1>3. b \in T
  BY DEF Fewer
<1>4. ASSUME NEW k \in 1 .. N, NEW d \in T PROVE next(k, d) \in T
  <2> DEFINE n == k - 1
             u == Retire(d, n, sub)
  <2>1. n \in Nodes /\ d \in BookType /\ Fine(d)
    BY <1>2
  <2> HIDE DEF n
  <2>2. u \in BookType /\ Booked(u, pp, ll) /\ Fewer(d, u)
    BY <2>1, RetireKeeps
  <2> HIDE DEF u
  <2>3. Fine(u)
    BY <2>1, <2>2 DEF Fewer
  <2> QED
    BY <2>2, <2>3 DEF u, n
<1>0. \A d \in T : d \in BookType /\ Fine(d)
  OBVIOUS
<1> HIDE DEF next
<1>5. step \in [1 .. N -> [T -> T]] /\ \A k \in 1 .. N, d \in T : step[k][d] = next(k, d)
  <2> HIDE DEF T
  <2> QED
    BY <1>4
<1> HIDE DEF T, N, step
<1>6. PICK f : IsIteration(f, N, T, b, step)
  <2>1. N \in Nat /\ b \in T /\ step \in [1 .. N -> [T -> T]]
    BY <1>2, <1>3, <1>5
  <2> QED
    BY <2>1, Iterates
<1>7. f = body(f)
  <2>1. ASSUME NEW k \in 1 .. N PROVE f[k] = next(k, f[k - 1])
    <3>1. f[k - 1] \in T /\ f[k] = step[k][f[k - 1]]
      BY <1>2, <1>6 DEF IsIteration
    <3> QED
      BY <1>5, <3>1
  <2>2. \A k \in 0 .. N : f[k] = IF k = 0 THEN b ELSE next(k, f[k - 1])
    BY <1>2, <1>6, <2>1 DEF IsIteration
  <2> QED
    BY <1>6, <2>2 DEF IsIteration
<1>8. done = body(done)
  <2> HIDE DEF body
  <2> QED
    BY <1>7
<1> HIDE DEF done
<1>9. done[0] = b /\ \A k \in 1 .. N : done[k] = next(k, done[k - 1])
  BY <1>2, <1>8
<1>10. \A k \in 0 .. N : done[k] \in T
  <2>1. N \in Nat /\ done[0] \in T
    BY <1>2, <1>3, <1>9
  <2>2. \A k \in 1 .. N : done[k - 1] \in T => done[k] \in T
    BY <1>4, <1>9
  <2> QED
    BY <2>1, <2>2, IteratesIn
<1>11. RetireSubnet(b, sub) \in T
  BY <1>1, <1>2, <1>10
<1> HIDE DEF Fine
<1> QED
  BY <1>0, <1>11 DEF Fine

(* All subnets. *)
LEMMA AllRetired ==
  ASSUME config \in Configs, NEW pp, NEW ll, NEW b \in BookType, Booked(b, pp, ll)
  PROVE  RetireAll(b) \in BookType /\ Booked(RetireAll(b), pp, ll) /\ Fewer(b, RetireAll(b))
<1> DEFINE N == config.subnets
           Fine(d) == Booked(d, pp, ll) /\ Fewer(b, d)
           T == {d \in BookType : Fine(d)}
           next(k, d) == RetireSubnet(d, k - 1)
           body(f) == [s \in 0 .. N |-> IF s = 0 THEN b ELSE next(s, f[s - 1])]
           done == CHOOSE f : f = body(f)
           step == [k \in 1 .. N |-> [d \in T |-> next(k, d)]]
<1>1. RetireAll(b) = done[N]
  BY DEF RetireAll
<1>2. N \in Nat /\ \A k \in 1 .. N : k - 1 \in Subnets
  BY Sizes DEF Subnets, Below
<1>3. b \in T
  BY DEF Fewer
<1>4. ASSUME NEW k \in 1 .. N, NEW d \in T PROVE next(k, d) \in T
  <2> DEFINE s == k - 1
             u == RetireSubnet(d, s)
  <2>1. s \in Subnets /\ d \in BookType /\ Fine(d)
    BY <1>2
  <2> HIDE DEF s
  <2>2. u \in BookType /\ Booked(u, pp, ll) /\ Fewer(d, u)
    BY <2>1, SubnetRetired
  <2> HIDE DEF u
  <2>3. Fine(u)
    BY <2>1, <2>2 DEF Fewer
  <2> QED
    BY <2>2, <2>3 DEF u, s
<1>0. \A d \in T : d \in BookType /\ Fine(d)
  OBVIOUS
<1> HIDE DEF next
<1>5. step \in [1 .. N -> [T -> T]] /\ \A k \in 1 .. N, d \in T : step[k][d] = next(k, d)
  <2> HIDE DEF T
  <2> QED
    BY <1>4
<1> HIDE DEF T, N, step
<1>6. PICK f : IsIteration(f, N, T, b, step)
  <2>1. N \in Nat /\ b \in T /\ step \in [1 .. N -> [T -> T]]
    BY <1>2, <1>3, <1>5
  <2> QED
    BY <2>1, Iterates
<1>7. f = body(f)
  <2>1. ASSUME NEW k \in 1 .. N PROVE f[k] = next(k, f[k - 1])
    <3>1. f[k - 1] \in T /\ f[k] = step[k][f[k - 1]]
      BY <1>2, <1>6 DEF IsIteration
    <3> QED
      BY <1>5, <3>1
  <2>2. \A k \in 0 .. N : f[k] = IF k = 0 THEN b ELSE next(k, f[k - 1])
    BY <1>2, <1>6, <2>1 DEF IsIteration
  <2> QED
    BY <1>6, <2>2 DEF IsIteration
<1>8. done = body(done)
  <2> HIDE DEF body
  <2> QED
    BY <1>7
<1> HIDE DEF done
<1>9. done[0] = b /\ \A k \in 1 .. N : done[k] = next(k, done[k - 1])
  BY <1>2, <1>8
<1>10. \A k \in 0 .. N : done[k] \in T
  <2>1. N \in Nat /\ done[0] \in T
    BY <1>2, <1>3, <1>9
  <2>2. \A k \in 1 .. N : done[k - 1] \in T => done[k] \in T
    BY <1>4, <1>9
  <2> QED
    BY <2>1, <2>2, IteratesIn
<1>11. RetireAll(b) \in T
  BY <1>1, <1>2, <1>10
<1> HIDE DEF Fine
<1> QED
  BY <1>0, <1>11 DEF Fine

-----------------------------------------------------------------------------
(* The packets of some classes of a source are as many as the classes. *)
PacketsOf(t, C) == {t.queue[c].packet : c \in C}
(* Classes have different packets. *)
LEMMA PacketsOfClasses ==
  ASSUME config \in Configs, NEW n \in Nodes, NEW t, Injected(n, t), NEW C, C \subseteq Made(n, t)
  PROVE  IsFiniteSet(PacketsOf(t, C)) /\ Cardinality(PacketsOf(t, C)) = Cardinality(C)
<1> DEFINE g == [c \in C |-> t.queue[c].packet]
           U == {t.queue[c].packet : c \in C}
<1>1. IsFiniteSet(C)
  <2>1. C \subseteq Classes
    BY DEF Made
  <2> QED
    BY <2>1, Finite, FS_Subset
<1>2. \A c \in C : g[c].cl = c
  BY DEF Injected
<1>3. g \in [C -> U] /\ \A p \in U : \E c \in C : g[c] = p
  OBVIOUS
<1> HIDE DEF g, U
<1>4. g \in Bijection(C, U)
  <2>1. \A a, b \in C : g[a] = g[b] => a = b
    BY <1>2
  <2> QED
    BY <1>3, <2>1 DEF Bijection, Injection, IsInjective, Surjection
<1>5. ExistsBijection(C, U)
  BY <1>4 DEF ExistsBijection
<1>6. Cardinality(C) = Cardinality(U)
  BY <1>1, <1>5, FS_Bijection
<1>7. IsFiniteSet(U)
  <2>1. g \in Surjection(C, U)
    BY <1>4 DEF Bijection
  <2> QED
    BY <1>1, <2>1, FS_Surjection
<1> QED
  BY <1>6, <1>7 DEF U, PacketsOf

(* Those that are requested of x, by x. *)
LEMMA OwnCounted ==
  ASSUME config \in Configs, node \in [Nodes -> SourceType], NEW made, \A n \in Nodes : Injected(n, made[n]), NEW x \in Nodes
  PROVE  LET O == {p \in MadePackets(made) : ~IsReply(p) /\ p.src = x}
         IN  IsFiniteSet(O) /\ Cardinality(O) = Cardinality(MadeOwn(x, made[x]))
<1> DEFINE O == {p \in MadePackets(made) : ~IsReply(p) /\ p.src = x}
           C == MadeOwn(x, made[x])
<1>1. \A p : p \in MadePackets(made) <=> \E n \in Nodes : \E c \in Made(n, made[n]) : p = made[n].queue[c].packet
  BY NewPackets
<1>2. \A n \in Nodes : \A c \in Made(n, made[n]) : made[n].queue[c].packet.src = n
  BY DEF Injected
<1>3. C \subseteq Made(x, made[x]) /\ \A c \in Made(x, made[x]) : c \in C <=> ~IsReply(made[x].queue[c].packet)
  BY DEF MadeOwn
<1> HIDE DEF C
<1>4. \A p : p \in O <=> \E c \in C : p = made[x].queue[c].packet
  BY <1>1, <1>2, <1>3
<1>5. O = {made[x].queue[c].packet : c \in C}
  BY <1>4
<1> HIDE DEF O
<1>7. O = PacketsOf(made[x], C)
  BY <1>5 DEF PacketsOf
<1>6. IsFiniteSet(O) /\ Cardinality(O) = Cardinality(C)
  <2> DEFINE t == made[x]
  <2>1. Injected(x, t) /\ C \subseteq Made(x, t)
    BY <1>3
  <2> HIDE DEF t
  <2>2. IsFiniteSet(PacketsOf(t, C)) /\ Cardinality(PacketsOf(t, C)) = Cardinality(C)
    BY <2>1, PacketsOfClasses
  <2> QED
    BY <1>7, <2>2 DEF t
<1> QED
  BY <1>6 DEF O, C

(* The replies to x: by source, and all. *)
LEMMA RepliesOfSource ==
  ASSUME config \in Configs, node \in [Nodes -> SourceType], NEW made, \A n \in Nodes : Injected(n, made[n]),
         NEW x \in Nodes, NEW n \in Nodes
  PROVE  LET R == {p \in MadePackets(made) : IsReply(p) /\ p.dest = x /\ p.src = n}
         IN  IsFiniteSet(R) /\ Cardinality(R) = Cardinality(MadeReplies(n, made[n], x))
<1> DEFINE R == {p \in MadePackets(made) : IsReply(p) /\ p.dest = x /\ p.src = n}
           C == MadeReplies(n, made[n], x)
<1>1. \A p : p \in MadePackets(made) <=> \E m \in Nodes : \E c \in Made(m, made[m]) : p = made[m].queue[c].packet
  BY NewPackets
<1>2. \A m \in Nodes : \A c \in Made(m, made[m]) : made[m].queue[c].packet.src = m
  BY DEF Injected
<1>3. /\ C \subseteq Made(n, made[n])
      /\ \A c \in Made(n, made[n]) : c \in C <=> IsReply(made[n].queue[c].packet) /\ made[n].queue[c].packet.dest = x
  BY DEF MadeReplies
<1> HIDE DEF C
<1>4. \A p : p \in R <=> \E c \in C : p = made[n].queue[c].packet
  BY <1>1, <1>2, <1>3
<1>5. R = {made[n].queue[c].packet : c \in C}
  BY <1>4
<1> HIDE DEF R
<1>7. R = PacketsOf(made[n], C)
  BY <1>5 DEF PacketsOf
<1>6. IsFiniteSet(R) /\ Cardinality(R) = Cardinality(C)
  <2> DEFINE t == made[n]
  <2>1. Injected(n, t) /\ C \subseteq Made(n, t)
    BY <1>3
  <2> HIDE DEF t
  <2>2. IsFiniteSet(PacketsOf(t, C)) /\ Cardinality(PacketsOf(t, C)) = Cardinality(C)
    BY <2>1, PacketsOfClasses
  <2> QED
    BY <1>7, <2>2 DEF t
<1> QED
  BY <1>6 DEF R, C

RepliesMade(made, x) == [m \in Nodes |-> Cardinality(MadeReplies(m, made[m], x))]
(* The replies made for x are those of all nodes, added up. *)
LEMMA RepliesCounted ==
  ASSUME config \in Configs, node \in [Nodes -> SourceType], NEW made, \A n \in Nodes : Injected(n, made[n]), NEW x \in Nodes
  PROVE  LET R == {p \in MadePackets(made) : IsReply(p) /\ p.dest = x}
         IN  /\ IsFiniteSet(R) /\ Cardinality(R) = Sum(RepliesMade(made, x), Nodes)
             /\ Summable(RepliesMade(made, x), Nodes)
<1> DEFINE R == {p \in MadePackets(made) : IsReply(p) /\ p.dest = x}
           h == RepliesMade(made, x)
           one == [p \in R |-> 1]
           from == [p \in R |-> p.src]
           Part(m) == {p \in R : from[p] = m}
<1>1. IsFiniteSet(R) /\ \A p \in R : p.src \in Nodes
  <2>1. IsFiniteSet(MadePackets(made)) /\ MadePackets(made) \subseteq PacketType
    BY NewPackets
  <2>2. R \subseteq MadePackets(made)
    OBVIOUS
  <2>3. \A p \in R : p.src \in Nodes
    BY <2>1 DEF PacketType
  <2> HIDE DEF R
  <2> QED
    BY <2>1, <2>2, <2>3, FS_Subset
<1>2. Summable(one, R) /\ IsFiniteSet(Nodes) /\ from \in [R -> Nodes]
  <2> HIDE DEF R
  <2> QED
    BY <1>1, Finite DEF Summable
<1>3. ASSUME NEW m \in Nodes PROVE h[m] = Sum(one, Part(m)) /\ h[m] \in Nat
  <2>1. Part(m) = {p \in MadePackets(made) : IsReply(p) /\ p.dest = x /\ p.src = m}
    OBVIOUS
  <2> HIDE DEF h
  <2>2. IsFiniteSet(Part(m)) /\ Cardinality(Part(m)) = Cardinality(MadeReplies(m, made[m], x))
    <3> HIDE DEF Part
    <3>1. LET S == {p \in MadePackets(made) : IsReply(p) /\ p.dest = x /\ p.src = m}
          IN  IsFiniteSet(S) /\ Cardinality(S) = Cardinality(MadeReplies(m, made[m], x))
      BY RepliesOfSource
    <3> QED
      BY <2>1, <3>1
  <2>3. \A p \in Part(m) : one[p] = 1
    OBVIOUS
  <2> DEFINE P == Part(m)
  <2>4. h[m] = Cardinality(P)
    BY <2>2 DEF h, RepliesMade
  <2>5. IsFiniteSet(P) /\ \A p \in P : one[p] = 1
    BY <2>2, <2>3
  <2> HIDE DEF P, one
  <2>6. Summable(one, P)
    BY <2>5 DEF Summable
  <2>7. Sum(one, P) = Cardinality(P) * 1
    BY <2>5, <2>6, SumConstant
  <2>8. Cardinality(P) \in Nat
    BY <2>5, FS_CardinalityType
  <2>9. Sum(one, P) = h[m] /\ h[m] \in Nat
    BY <2>4, <2>7, <2>8
  <2> QED
    BY <2>9 DEF P
<1>8. \A m \in Nodes : h[m] \in Nat
  BY MadeFinite DEF RepliesMade
<1>4. Sum(one, R) = Cardinality(R)
  <2>1. \A p \in R : one[p] = 1
    OBVIOUS
  <2> HIDE DEF R, one
  <2>2. Sum(one, R) = Cardinality(R) * 1
    BY <1>2, <2>1, SumConstant
  <2>3. Cardinality(R) \in Nat
    BY <1>1, FS_CardinalityType
  <2> QED
    BY <2>2, <2>3
<1> HIDE DEF R, one, h, from
<1>5. SumsOfParts(one, R, Nodes, from, h)
  BY <1>2, <1>3 DEF SumsOfParts
<1>6. Sum(h, Nodes) = Sum(one, R)
  BY <1>5, SumByParts
<1>7. Summable(h, Nodes)
  <2>1. \A m \in Nodes : h[m] \in Int
    BY <1>8
  <2> QED
    BY <1>2, <2>1 DEF Summable
<1> QED
  BY <1>1, <1>4, <1>6, <1>7 DEF h, R

(* The packets in flight with the new ones. *)
LEMMA PacketsWithNew ==
  ASSUME config \in Configs, node \in [Nodes -> SourceType], NEW made, \A n \in Nodes : Injected(n, made[n])
  PROVE  Packets(total \cup NewFlits(made)) = Packets(total) \cup MadePackets(made)
<1> DEFINE M == MadePackets(made)
           new == NewFlits(made)
<1>1. M \subseteq PacketType /\ \A f : f \in new <=> f \in FlitType /\ f[1] \in M
  BY NewPackets
<1> HIDE DEF M, new
<1>2. ASSUME NEW p \in M PROVE \E f \in new : f[1] = p
  <2>1. <<p, 1>> \in FlitType /\ <<p, 1>>[1] = p
    BY <1>1 DEF FlitType, PacketType
  <2> QED
    BY <1>1, <2>1
<1>3. ASSUME NEW x PROVE x \in Packets(total \cup new) <=> x \in Packets(total) \cup M
  BY <1>1, <1>2 DEF Packets
<1> QED
  BY <1>3 DEF M, new

(* The requests are counted when the packets are made. *)
LEMMA RequestedInjected ==
  ASSUME config \in Configs, node \in [Nodes -> SourceType], IsFiniteSet(total), Requested(node, total),
         NEW made \in [Nodes -> SourceType], \A n \in Nodes : Injected(n, made[n])
  PROVE  Requested(made, total \cup NewFlits(made))
<1> DEFINE t2 == total \cup NewFlits(made)
           M == MadePackets(made)
<1>1. IsFiniteSet(M) /\ M \cap Packets(total) = {} /\ Packets(t2) = Packets(total) \cup M
  BY NewPackets, PacketsWithNew
<1> HIDE DEF t2
<1> SUFFICES ASSUME NEW x \in Nodes
             PROVE  made[x].requests = IF config.batch = 0 THEN 0 ELSE Cardinality(Unanswered(t2, x)) + Sum(Asked(made, x), Nodes)
  BY DEF Requested, t2
<1> DEFINE O == {p \in M : ~IsReply(p) /\ p.src = x}
           R == {p \in M : IsReply(p) /\ p.dest = x}
           V == Unanswered(total, x)
           own == Cardinality(MadeOwn(x, made[x]))
           rep == Sum(RepliesMade(made, x), Nodes)
<1>2. IsFiniteSet(O) /\ Cardinality(O) = own
  BY OwnCounted
<1>3. IsFiniteSet(R) /\ Cardinality(R) = rep /\ Summable(RepliesMade(made, x), Nodes)
  BY RepliesCounted
<1>4. IsFiniteSet(V) /\ Cardinality(V) \in Nat
  BY UnansweredFinite
<1>5. Unanswered(t2, x) = V \cup (O \cup R)
  BY <1>1 DEF Unanswered, IsReply
<1>6. O \cap R = {} /\ V \cap (O \cup R) = {}
  BY <1>1 DEF Unanswered
<1>7. Cardinality(Unanswered(t2, x)) = Cardinality(V) + own + rep /\ own \in Nat /\ rep \in Nat
  <2> HIDE DEF O, R, V, own, rep
  <2>1. IsFiniteSet(O \cup R) /\ Cardinality(O \cup R) = Cardinality(O) + Cardinality(R) - Cardinality(O \cap R)
    BY <1>2, <1>3, FS_Union
  <2>2. Cardinality(V \cup (O \cup R)) = Cardinality(V) + Cardinality(O \cup R) - Cardinality(V \cap (O \cup R))
    BY <1>4, <2>1, FS_Union
  <2>3. Cardinality(O) \in Nat /\ Cardinality(R) \in Nat /\ Cardinality({}) = 0
    BY <1>2, <1>3, FS_CardinalityType, FS_EmptySet
  <2> DEFINE v == Cardinality(V)
             u == Cardinality(O \cup R)
  <2>4. own \in Nat /\ rep \in Nat
    BY <1>2, <1>3, <2>3
  <2>5. u = own + rep
    BY <1>2, <1>3, <1>6, <2>1, <2>3, <2>4
  <2>6. v \in Nat /\ Cardinality(Unanswered(t2, x)) = v + u - 0
    BY <1>4, <1>5, <1>6, <2>2, <2>3
  <2> HIDE DEF v, u
  <2>7. Cardinality(Unanswered(t2, x)) = v + own + rep
    BY <2>4, <2>5, <2>6
  <2> QED
    BY <2>4, <2>7 DEF v
<1>8. Sum(Asked(node, x), Nodes) = Sum(Asked(made, x), Nodes) + rep
  <2>1. Summable(Asked(made, x), Nodes)
    BY AskedType
  <2>2. \A m \in Nodes : Asked(node, x)[m] = Asked(made, x)[m] + RepliesMade(made, x)[m]
    <3> SUFFICES ASSUME NEW m \in Nodes PROVE Asked(node, x)[m] = Asked(made, x)[m] + RepliesMade(made, x)[m]
      OBVIOUS
    <3>1. Many(made[m].pending, RepliesTo(x)) + Cardinality(MadeReplies(m, made[m], x)) = Many(node[m].pending, RepliesTo(x))
      BY DEF Injected
    <3> QED
      BY <3>1 DEF Asked, RepliesMade
  <2> QED
    BY <1>3, <2>1, <2>2, SumAdd
<1>9. Sum(Asked(made, x), Nodes) \in Nat
  BY AskedType
<1>10. made[x].requests = node[x].requests + IF config.batch = 0 THEN 0 ELSE own
  BY DEF Injected
<1>11. node[x].requests = IF config.batch = 0 THEN 0 ELSE Cardinality(V) + Sum(Asked(node, x), Nodes)
  BY DEF Requested
<1> DEFINE a == Sum(Asked(made, x), Nodes)
           v == Cardinality(V)
<1>12. a \in Nat /\ v \in Nat /\ Sum(Asked(node, x), Nodes) = a + rep /\ Cardinality(Unanswered(t2, x)) = v + own + rep
  BY <1>4, <1>7, <1>8, <1>9
<1> HIDE DEF O, R, V, own, rep, a, v
<1>13. CASE config.batch = 0
  BY <1>10, <1>11, <1>13
<1>14. CASE config.batch # 0
  BY <1>7, <1>10, <1>11, <1>12, <1>14 DEF a, v
<1> QED
  BY <1>13, <1>14

-----------------------------------------------------------------------------
(* The inductive invariant.                                                *)
CreditAt(pp, ll, ow, ba, n, sub, vc) ==
  pp[n][sub].occupied[vc] = Len(ll[n][sub][vc]) + Many(ow[n][sub], {vc}) + (IF ba[n][sub] = vc THEN 1 ELSE 0)
CreditsGood(pp, ll, ow, ba) ==
  /\ ow \in [Nodes -> [Subnets -> Seq(VCs)]] /\ ba \in [Nodes -> [Subnets -> VCs \cup {None}]]
  /\ \A n \in Nodes, sub \in Subnets, vc \in VCs : CreditAt(pp, ll, ow, ba, n, sub, vc)
LoopGood(lo, si, le, t) ==
  /\ si \in {"warming_up", "running", "draining"}
  /\ lo \in {"sample", "drain", "batch", "receive", "empty", "credits", "done"}
  /\ le \in [sims : 0 .. config.sims, batches : 0 .. config.batches]
  /\ lo = "credits" => t = {}
  /\ lo # "done" => le.sims >= 1
  /\ lo \in {"batch", "receive"} => le.batches >= 1 /\ config.batch > 0
Good(ss, pp, ll, ins, t, me, re, o) ==
  /\ World(ss, pp, ll, ins, t)
  /\ me = {f \in t : f[1].record}
  /\ re = HeadsOf(t)
  /\ Requested(ss, t)
  /\ o = TRUE
Inv ==
  /\ config \in Configs
  /\ Good(node, port, first, inside, total, measured, retired, ok)
  /\ CreditsGood(port, first, owed, back)
  /\ LoopGood(loop, simState, left, total)

(* The heads that wait, when packets are made. *)
LEMMA HeadsWithNew ==
  ASSUME config \in Configs, node \in [Nodes -> SourceType], NEW made, \A n \in Nodes : Injected(n, made[n])
  PROVE  HeadsOf(total \cup NewFlits(made)) = HeadsOf(total)
<1> DEFINE M == MadePackets(made)
           new == NewFlits(made)
           t2 == total \cup new
<1>1. M \subseteq PacketType /\ M \cap Packets(total) = {} /\ \A f : f \in new <=> f \in FlitType /\ f[1] \in M
  BY NewPackets
<1>2. Packets(t2) = Packets(total) \cup M
  BY PacketsWithNew
<1> HIDE DEF M, new
<1>3. ASSUME NEW p \in M PROVE <<p, 1>> \in new
  <2>1. <<p, 1>> \in FlitType /\ <<p, 1>>[1] = p
    BY <1>1 DEF FlitType, PacketType
  <2> QED
    BY <1>1, <2>1
<1>4. ASSUME NEW p, p \notin M PROVE <<p, 1>> \notin new
  <2>1. <<p, 1>>[1] = p
    OBVIOUS
  <2> QED
    BY <1>1, <1>4, <2>1
<1>5. ASSUME NEW x PROVE x \in HeadsOf(t2) <=> x \in HeadsOf(total)
  <2>1. x \in HeadsOf(t2) <=> x \in Packets(t2) /\ <<x, 1>> \notin t2
    BY DEF HeadsOf
  <2>2. x \in HeadsOf(total) <=> x \in Packets(total) /\ <<x, 1>> \notin total
    BY DEF HeadsOf
  <2> QED
    BY <1>1, <1>2, <1>3, <1>4, <2>1, <2>2
<1>6. HeadsOf(t2) = HeadsOf(total)
  <2> HIDE DEF t2
  <2> QED
    BY <1>5
<1> QED
  BY <1>6 DEF new

(* A credit that has reached a source is of a slot that it has taken. *)
LEMMA CreditsToRead ==
  ASSUME config \in Configs, World(node, port, first, inside, total), CreditsGood(port, first, owed, back), NEW n \in Nodes
  PROVE  /\ back[n] \in [Subnets -> VCs \cup {None}]
         /\ \A sub \in Subnets : back[n][sub] # None => port[n][sub].occupied[back[n][sub]] > 0
<1>1. back[n] \in [Subnets -> VCs \cup {None}]
  BY DEF CreditsGood
<1>2. ASSUME NEW sub \in Subnets, back[n][sub] # None PROVE port[n][sub].occupied[back[n][sub]] > 0
  <2> DEFINE vc == back[n][sub]
             a == Len(first[n][sub][vc])
             b == Many(owed[n][sub], {vc})
  <2>1. vc \in VCs
    BY <1>1, <1>2
  <2>2. port[n][sub].occupied[vc] = a + b + 1
    BY <2>1 DEF CreditsGood, CreditAt
  <2>3. a \in Nat
    <3> DEFINE l == first[n][sub][vc]
    <3>1. l \in Seq(FlitType)
      BY <2>1 DEF World, LineType
    <3> HIDE DEF l
    <3>2. Len(l) \in Nat
      BY <3>1
    <3> QED
      BY <3>2 DEF l
  <2>4. b \in Nat
    <3>1. owed[n][sub] \in Seq(VCs)
      BY DEF CreditsGood
    <3> QED
      BY <3>1, ManyType
  <2> HIDE DEF a, b, vc
  <2>5. port[n][sub].occupied[vc] > 0
    BY <2>2, <2>3, <2>4
  <2> QED
    BY <2>5 DEF vc
<1> QED
  BY <1>1, <1>2

(* The first three parts of a _Step. *)
SentGood(made, sends) ==
  LET t == total \cup NewFlits(made)
      ss == [n \in Nodes |-> sends[n].s]
      pp == [n \in Nodes |-> sends[n].ports]
      ll == [n \in Nodes |-> sends[n].first]
  IN  /\ ss \in [Nodes -> SourceType]
      /\ Good(ss, pp, ll, inside, t, measured \cup {f \in NewFlits(made) : f[1].record}, retired,
              ok /\ \A n \in Nodes : sends[n].ok)
      /\ CreditsGood(pp, ll, owed, [n \in Nodes |-> [sub \in Subnets |-> None]])
      /\ loop = "credits" => t = {}
(* After packets have been made and flits sent, all is well, and the credits that were read are counted. *)
LEMMA SentAll ==
  ASSUME Inv, Orderly, NEW made, \A n \in Nodes : made[n] \in Inject(n), DOMAIN made = Nodes,
         made = [n \in Nodes |-> made[n]], NEW sends, sends = [n \in Nodes |-> SendAll(n, made[n], Read(n))]
  PROVE  SentGood(made, sends)
<1> DEFINE new == NewFlits(made)
           t == total \cup new
           rr == [n \in Nodes |-> Read(n)]
           ss == [n \in Nodes |-> sends[n].s]
           pp == [n \in Nodes |-> sends[n].ports]
           ll == [n \in Nodes |-> sends[n].first]
           ba == [n \in Nodes |-> [sub \in Subnets |-> None]]
<1>1. /\ config \in Configs /\ World(node, port, first, inside, total) /\ measured = {f \in total : f[1].record}
      /\ retired = HeadsOf(total) /\ Requested(node, total) /\ ok = TRUE
      /\ CreditsGood(port, first, owed, back) /\ LoopGood(loop, simState, left, total)
  BY DEF Inv, Good
<1>2. /\ node \in [Nodes -> SourceType] /\ port \in [Nodes -> [Subnets -> PortType]] /\ first \in [Nodes -> LineType]
      /\ IsFiniteSet(total)
  BY <1>1 DEF World
<1>3. \A n \in Nodes : Injected(n, made[n])
  BY <1>1, <1>2, NodeInjects
<1>4. made \in [Nodes -> SourceType]
  <2>1. \A n \in Nodes : made[n] \in SourceType
    BY <1>3 DEF Injected
  <2> QED
    BY <2>1
<1>5. \A n \in Nodes : /\ back[n] \in [Subnets -> VCs \cup {None}]
                       /\ \A sub \in Subnets : back[n][sub] # None => port[n][sub].occupied[back[n][sub]] > 0
  BY <1>1, CreditsToRead
<1>6. World(made, rr, first, inside, t)
  <2>1. World(made, [n \in Nodes |-> Read(n)], first, inside, total \cup NewFlits(made))
    BY <1>1, <1>3, <1>4, <1>5, WorldInjected
  <2> QED
    BY <2>1
<1>7. ASSUME NEW n \in Nodes
      PROVE  /\ sends[n].ok = TRUE /\ SourceGood(n, sends[n].s, sends[n].ports, sends[n].first)
             /\ HasSent(made[n], Read(n), first[n], sends[n].s, sends[n].ports, sends[n].first)
             /\ sends[n].s \in SourceType /\ sends[n].ports \in [Subnets -> PortType] /\ sends[n].first \in LineType
  <2>1. SourceGood(n, made[n], Read(n), first[n])
    BY <1>6 DEF World
  <2>2. LET u == SendAll(n, made[n], Read(n)) IN
         /\ u \in SendType /\ u.ok = TRUE /\ SourceGood(n, u.s, u.ports, u.first)
         /\ HasSent(made[n], Read(n), first[n], u.s, u.ports, u.first)
    BY <1>1, <2>1, AllSent
  <2>3. sends[n] = SendAll(n, made[n], Read(n))
    OBVIOUS
  <2> QED
    BY <2>2, <2>3 DEF SendType
<1>8. ss \in [Nodes -> SourceType] /\ pp \in [Nodes -> [Subnets -> PortType]] /\ ll \in [Nodes -> LineType]
  BY <1>7
<1>9. \A n \in Nodes : ss[n] = sends[n].s /\ pp[n] = sends[n].ports /\ ll[n] = sends[n].first /\ rr[n] = Read(n)
  OBVIOUS
<1> HIDE DEF ss, pp, ll, rr
<1>10. \A n \in Nodes : SourceGood(n, ss[n], pp[n], ll[n]) /\ HasSent(made[n], rr[n], first[n], ss[n], pp[n], ll[n])
  <2> SUFFICES ASSUME NEW n \in Nodes
               PROVE  SourceGood(n, ss[n], pp[n], ll[n]) /\ HasSent(made[n], rr[n], first[n], ss[n], pp[n], ll[n])
    OBVIOUS
  <2>1. ss[n] = sends[n].s /\ pp[n] = sends[n].ports /\ ll[n] = sends[n].first /\ rr[n] = Read(n)
    BY <1>9, Zenon
  <2> QED
    BY <1>7, <2>1, Zenon
<1>11. World(ss, pp, ll, inside, t)
  <2> HIDE DEF t
  <2> QED
    BY <1>1, <1>6, <1>8, <1>10, WorldSent, SMTT(30)
<1>12. Requested(ss, t)
  <2>1. Requested(made, t)
    BY <1>1, <1>2, <1>3, <1>4, RequestedInjected
  <2>2. \A n \in Nodes : ss[n].pending = made[n].pending /\ ss[n].requests = made[n].requests
    BY <1>10 DEF HasSent
  <2>3. \A n \in Nodes : Asked(ss, n) = Asked(made, n)
    BY <2>2 DEF Asked
  <2> HIDE DEF t
  <2> SUFFICES ASSUME NEW n \in Nodes
               PROVE  ss[n].requests = IF config.batch = 0 THEN 0
                                       ELSE Cardinality(Unanswered(t, n)) + Sum(Asked(ss, n), Nodes)
    BY Zenon DEF Requested
  <2>4. made[n].requests = IF config.batch = 0 THEN 0
                           ELSE Cardinality(Unanswered(t, n)) + Sum(Asked(made, n), Nodes)
    BY <2>1, Zenon DEF Requested
  <2>5. ss[n].requests = made[n].requests /\ Asked(ss, n) = Asked(made, n)
    BY <2>2, <2>3, Zenon
  <2> QED
    BY <2>4, <2>5
<1>13. measured \cup {f \in new : f[1].record} = {f \in t : f[1].record}
  BY <1>1
<1>14. retired = HeadsOf(t)
  BY <1>1, <1>2, <1>3, HeadsWithNew
<1>15. ok /\ \A n \in Nodes : sends[n].ok
  BY <1>1, <1>7
<1>19. \A n \in Nodes, sub \in Subnets, vc \in VCs :
         CreditAt(port, first, owed, back, n, sub, vc)
  BY <1>1 DEF CreditsGood
<1>16. CreditsGood(pp, ll, owed, ba)
  <2>1. owed \in [Nodes -> [Subnets -> Seq(VCs)]] /\ ba \in [Nodes -> [Subnets -> VCs \cup {None}]]
    BY <1>1 DEF CreditsGood
  <2> SUFFICES ASSUME NEW n \in Nodes, NEW sub \in Subnets, NEW vc \in VCs
               PROVE  pp[n][sub].occupied[vc] = Len(ll[n][sub][vc]) + Many(owed[n][sub], {vc}) + (IF ba[n][sub] = vc THEN 1 ELSE 0)
    BY <2>1 DEF CreditsGood, CreditAt
  <2>11. port[n][sub].occupied[vc] = Len(first[n][sub][vc]) + Many(owed[n][sub], {vc}) + (IF back[n][sub] = vc THEN 1 ELSE 0)
    <3>1. CreditAt(port, first, owed, back, n, sub, vc)
      BY <1>19
    <3> QED
      BY <3>1 DEF CreditAt
  <2> DEFINE o0 == port[n][sub].occupied[vc]
             o1 == rr[n][sub].occupied[vc]
             o2 == pp[n][sub].occupied[vc]
             a1 == Len(first[n][sub][vc])
             a2 == Len(ll[n][sub][vc])
             m == Many(owed[n][sub], {vc})
             k == IF back[n][sub] = vc THEN 1 ELSE 0
  <2>2. o0 = a1 + m + k
    BY <2>11
  <2>3. o1 + k = o0
    <3>1. port[n] \in [Subnets -> PortType]
      BY <1>2
    <3> QED
      BY <1>1, <1>5, <1>9, <3>1, ReadPorts
  <2>4. o2 + a1 = o1 + a2
    BY <1>10 DEF HasSent
  <2>5. o1 \in Nat /\ o2 \in Nat
    <3>1. rr[n][sub] \in PortType /\ pp[n][sub] \in PortType
      BY <1>6, <1>8 DEF World
    <3> QED
      BY <3>1 DEF PortType
  <2>6. a1 \in Nat /\ a2 \in Nat
    <3> DEFINE l1 == first[n][sub][vc]
               l2 == ll[n][sub][vc]
    <3>1. l1 \in Seq(FlitType) /\ l2 \in Seq(FlitType)
      BY <1>2, <1>8 DEF LineType
    <3> HIDE DEF l1, l2
    <3>2. Len(l1) \in Nat /\ Len(l2) \in Nat
      BY <3>1
    <3> QED
      BY <3>2 DEF l1, l2
  <2>7. m \in Nat
    <3>1. owed[n][sub] \in Seq(VCs)
      BY <1>1 DEF CreditsGood
    <3> QED
      BY <3>1, ManyType
  <2>8. k \in Nat
    OBVIOUS
  <2>9. ba[n][sub] # vc
    BY <1>1, NoneIsNone
  <2>10. o2 = a2 + m + 0
    <3> HIDE DEF o0, o1, o2, a1, a2, m, k
    <3>1. o1 = a1 + m
      BY <2>2, <2>3, <2>5, <2>6, <2>7, <2>8
    <3>2. o2 = a2 + m
      BY <3>1, <2>4, <2>5, <2>6, <2>7
    <3> QED
      BY <3>2, <2>6, <2>7
  <2> QED
    BY <2>9, <2>10
<1>17. ASSUME loop = "credits" PROVE t = {}
  <2>1. total = {}
    BY <1>1, <1>17 DEF LoopGood
  <2>2. \A n \in Nodes : made[n] = node[n]
    BY <1>17 DEF Inject
  <2>3. MadePackets(made) = {}
    BY <2>2 DEF MadePackets
  <2>4. new = {}
    BY <2>3 DEF NewFlits
  <2> QED
    BY <2>1, <2>4
<1>18. Good(ss, pp, ll, inside, t, measured \cup {f \in new : f[1].record}, retired, ok /\ \A n \in Nodes : sends[n].ok)
  BY <1>11, <1>12, <1>13, <1>14, <1>15 DEF Good
<1> QED
  BY <1>8, <1>16, <1>17, <1>18 DEF ss, pp, ll, SentGood

-----------------------------------------------------------------------------
(* The actions.  What an action keeps is said of the values it leaves.     *)
Kept ==
  /\ config' = config
  /\ Good(node', port', first', inside', total', measured', retired', ok')
  /\ CreditsGood(port', first', owed', back')
  /\ LoopGood(loop', simState', left', total')

(* _Step. *)
LEMMA StepKeeps ==
  ASSUME Inv, Orderly, Step
  PROVE  Kept
<1>1. PICK made \in [Nodes -> UNION {Inject(n) : n \in Nodes}] :
        /\ \A n \in Nodes : made[n] \in Inject(n)
        /\ \E sends \in {[n \in Nodes |-> SendAll(n, made[n], Read(n))]} :
           \E books \in {LET new == UNION {Flits(p) : p \in MadePackets(made)}
                         IN  RetireAll([total |-> total \cup new,
                                        measured |-> measured \cup {f \in new : f[1].record},
                                        retired |-> retired, ok |-> ok /\ \A n \in Nodes : sends[n].ok,
                                        node |-> [n \in Nodes |-> sends[n].s], inside |-> inside])} :
             /\ node' = books.node
             /\ total' = books.total
             /\ measured' = books.measured
             /\ retired' = books.retired
             /\ ok' = books.ok
             /\ inside' = books.inside
             /\ port' = [n \in Nodes |-> sends[n].ports]
             /\ first' = [n \in Nodes |-> sends[n].first]
        /\ back' = [n \in Nodes |-> [s \in Subnets |-> None]]
        /\ parity' = 1 - parity
        /\ UNCHANGED <<config, simState, loop, left, owed>>
  BY Zenon DEF Step
<1>2. PICK sends : sends = [n \in Nodes |-> SendAll(n, made[n], Read(n))]
  OBVIOUS
<1> DEFINE new == NewFlits(made)
           t == total \cup new
           ss == [n \in Nodes |-> sends[n].s]
           pp == [n \in Nodes |-> sends[n].ports]
           ll == [n \in Nodes |-> sends[n].first]
           me == measured \cup {f \in new : f[1].record}
           o == ok /\ \A n \in Nodes : sends[n].ok
           ba == [n \in Nodes |-> [sub \in Subnets |-> None]]
           b0 == [total |-> t, measured |-> me, retired |-> retired, ok |-> o, node |-> ss, inside |-> inside]
           b == RetireAll(b0)
<1>3. /\ node' = b.node /\ total' = b.total /\ measured' = b.measured /\ retired' = b.retired /\ ok' = b.ok
      /\ inside' = b.inside /\ port' = pp /\ first' = ll /\ back' = ba
      /\ UNCHANGED <<config, simState, loop, left, owed>>
  BY <1>1, <1>2, ZenonT(30) DEF NewFlits
<1>4. /\ ss \in [Nodes -> SourceType]
      /\ Good(ss, pp, ll, inside, t, me, retired, o)
      /\ CreditsGood(pp, ll, owed, ba)
      /\ loop = "credits" => t = {}
  <2>1. DOMAIN made = Nodes /\ made = [n \in Nodes |-> made[n]] /\ \A n \in Nodes : made[n] \in Inject(n)
    BY <1>1
  <2>2. SentGood(made, sends)
    BY <1>2, <2>1, SentAll, Zenon
  <2> QED
    BY <2>2, Zenon DEF SentGood
<1>5. config \in Configs /\ LoopGood(loop, simState, left, total) /\ inside \in [Nodes -> [Subnets -> Seq(FlitType)]]
  BY DEF Inv, Good, World
<1> HIDE DEF ss, pp, ll, me, o, t, ba
<1>6. b0.total = t /\ b0.measured = me /\ b0.retired = retired /\ b0.ok = o /\ b0.node = ss /\ b0.inside = inside
  OBVIOUS
<1>7. b0 \in BookType
  <2>1. t \subseteq FlitType
    BY <1>4 DEF Good, World
  <2>2. me \subseteq FlitType
    BY <1>4, <2>1 DEF Good
  <2>3. retired \subseteq PacketType
    <3>1. retired = HeadsOf(t)
      BY <1>4 DEF Good
    <3>2. \A f \in t : f[1] \in PacketType
      BY <2>1 DEF FlitType
    <3> QED
      BY <3>1, <3>2 DEF HeadsOf, Packets
  <2>4. o \in BOOLEAN
    BY <1>4 DEF Good
  <2> QED
    BY <1>4, <1>5, <2>1, <2>2, <2>3, <2>4 DEF BookType
<1>8. Booked(b0, pp, ll)
  <2> HIDE DEF b0
  <2> QED
    BY <1>4, <1>6 DEF Good, Booked
<1> HIDE DEF b0
<1>9. b \in BookType /\ Booked(b, pp, ll) /\ Fewer(b0, b)
  BY <1>5, <1>7, <1>8, AllRetired
<1> HIDE DEF b
<1>10. Good(b.node, pp, ll, b.inside, b.total, b.measured, b.retired, b.ok)
  BY <1>9 DEF Booked, Good
<1>11. LoopGood(loop, simState, left, b.total)
  BY <1>4, <1>5, <1>6, <1>9 DEF LoopGood, Fewer
<1> QED
  BY <1>3, <1>4, <1>10, <1>11 DEF Kept

(* A flit goes from the line of its VC to the queue of its sink. *)
Moved(ll, n, sub, vc) == [ll EXCEPT ![n][sub][vc] = Tail(@)]
Arrived(ins, d, sub, f) == [ins EXCEPT ![d][sub] = Append(@, f)]
(* What is in flight is still in flight. *)
LEMMA MovedWorld ==
  ASSUME config \in Configs, NEW ss, NEW pp, NEW ll, NEW ins, NEW t, World(ss, pp, ll, ins, t),
         NEW n \in Nodes, NEW sub \in Subnets, NEW vc \in VCs, ll[n][sub][vc] # <<>>,
         NEW f, f = Head(ll[n][sub][vc]), NEW d, d = f[1].dest
  PROVE  /\ d \in Nodes
         /\ World(ss, pp, Moved(ll, n, sub, vc), Arrived(ins, d, sub, f), t)
<1> DEFINE q == ll[n][sub][vc]
           r == Tail(q)
           ll2 == Moved(ll, n, sub, vc)
           ins2 == Arrived(ins, d, sub, f)
<1>1. /\ ss \in [Nodes -> SourceType] /\ pp \in [Nodes -> [Subnets -> PortType]] /\ ll \in [Nodes -> LineType]
      /\ ins \in [Nodes -> [Subnets -> Seq(FlitType)]]
      /\ SinkGood(ss, ll, ins) /\ \A g : g \in t <=> Somewhere(ss, ll, ins, g)
      /\ \A m \in Nodes : SourceGood(m, ss[m], pp[m], ll[m])
      /\ t \subseteq FlitType /\ IsFiniteSet(t) /\ Upward(t)
  BY DEF World
<1>2. \A m \in Nodes, a \in Subnets, w \in VCs : LineGood(m, ss[m], ll[m], a, w) /\ ll[m][a][w] \in Seq(FlitType)
  BY <1>1 DEF SourceGood, LineType
<1>3. /\ f \in FlitType /\ r \in Seq(FlitType) /\ Range(q) = Range(r) \cup {f} /\ InOrder(r)
      /\ \A g \in Range(r) : g[1] = f[1] => f[2] < g[2]
  <2>1. q \in Seq(FlitType) /\ InOrder(q) /\ q # <<>> /\ f = Head(q)
    BY <1>2 DEF LineGood
  <2> HIDE DEF q
  <2> QED
    BY <2>1, RangeTail
<1>4. f \in Range(q)
  BY <1>3
<1>5. /\ f[1].src = n /\ f[1].subnet = sub
      /\ \A c \in Classes : ss[n].queue[c] # None /\ ss[n].queue[c].packet = f[1] => f[2] <= ss[n].queue[c].sent
      /\ \A w \in VCs : \A g \in Range(ll[n][sub][w]) : g[1] = f[1] => w = vc
  BY <1>2, <1>4 DEF LineGood
<1>6. d \in Nodes
  BY <1>3 DEF FlitType, PacketType
<1>7. ll2 \in [Nodes -> LineType] /\ ll2[n][sub][vc] = r
      /\ \A m \in Nodes, a \in Subnets, w \in VCs : m # n \/ a # sub \/ w # vc => ll2[m][a][w] = ll[m][a][w]
  <2> DEFINE l == [ll[n] EXCEPT ![sub][vc] = r]
  <2>1. ll[n] \in LineType
    BY <1>1
  <2>2. ll[n][sub] \in [VCs -> Seq(FlitType)]
    BY <2>1 DEF LineType
  <2>3. l \in LineType /\ l[sub][vc] = r /\ \A a \in Subnets, w \in VCs : a # sub \/ w # vc => l[a][w] = ll[n][a][w]
    BY <1>3, <2>1, <2>2 DEF LineType
  <2>4. ll2 = [ll EXCEPT ![n] = l]
    BY DEF Moved
  <2> HIDE DEF l, ll2
  <2> QED
    BY <1>1, <2>3, <2>4
<1>8. ins2 \in [Nodes -> [Subnets -> Seq(FlitType)]] /\ ins2[d][sub] = Append(ins[d][sub], f)
      /\ \A m \in Nodes, a \in Subnets : m # d \/ a # sub => ins2[m][a] = ins[m][a]
  <2>1. ins[d] \in [Subnets -> Seq(FlitType)] /\ ins[d][sub] \in Seq(FlitType)
    BY <1>1, <1>6, Zenon
  <2>2. Append(ins[d][sub], f) \in Seq(FlitType)
    <3> DEFINE Q == ins[d][sub]
    <3>1. Q \in Seq(FlitType) /\ f \in FlitType
      BY <1>3, <2>1, Zenon
    <3> HIDE DEF q, r, ll2, ins2, Q
    <3>2. Append(Q, f) \in Seq(FlitType)
      BY <3>1
    <3> QED
      BY <3>2, Zenon DEF Q
  <2> QED
    BY <1>1, <1>6, <2>1, <2>2, Zenon DEF Arrived
<1> HIDE DEF q, r, ll2, ins2
<1>9. ASSUME NEW m \in Nodes, NEW a \in Subnets, NEW w \in VCs
      PROVE  /\ Range(ll2[m][a][w]) \subseteq Range(ll[m][a][w])
             /\ \A g \in Range(ll[m][a][w]) : g = f \/ g \in Range(ll2[m][a][w])
             /\ InOrder(ll2[m][a][w])
  <2>1. CASE m = n /\ a = sub /\ w = vc
    BY <1>3, <1>7, <2>1 DEF q
  <2>2. CASE m # n \/ a # sub \/ w # vc
    BY <1>2, <1>7, <2>2 DEF LineGood
  <2> QED
    BY <2>1, <2>2
<1>15. ASSUME NEW e \in Nodes, NEW a \in Subnets, NEW g \in Range(ins[e][a])
       PROVE  /\ g[1].dest = e /\ g[1].subnet = a
              /\ \A m \in Nodes, c \in Classes :
                   ss[m].queue[c] # None /\ ss[m].queue[c].packet = g[1] => g[2] <= ss[m].queue[c].sent
              /\ \A m \in Nodes, w \in VCs : \A h \in Range(ll[m][a][w]) : h[1] = g[1] => g[2] < h[2]
  BY <1>1 DEF SinkGood
<1>10. ASSUME NEW m \in Nodes, NEW a \in Subnets
       PROVE  /\ Range(ins2[m][a]) = Range(ins[m][a]) \cup (IF m = d /\ a = sub THEN {f} ELSE {})
              /\ InOrder(ins2[m][a])
  <2>1. CASE m = d /\ a = sub
    <3>0. ins[d][sub] \in Seq(FlitType)
      BY <1>1, <1>6, Zenon
    <3>1. ins[d][sub] \in Seq(FlitType) /\ InOrder(ins[d][sub])
      BY <1>1, <1>6, <3>0, Zenon DEF SinkGood
    <3>2. ASSUME NEW g \in Range(ins[d][sub]), g[1] = f[1] PROVE g[2] < f[2]
      <4>1. \A h \in Range(ll[n][sub][vc]) : h[1] = g[1] => g[2] < h[2]
        BY <1>6, <1>15, ZenonT(30)
      <4>2. f \in Range(ll[n][sub][vc])
        BY <1>4 DEF q
      <4> QED
        BY <3>2, <4>1, <4>2, Zenon
    <3>3. Range(Append(ins[d][sub], f)) = Range(ins[d][sub]) \cup {f} /\ InOrder(Append(ins[d][sub], f))
      <4> DEFINE Q == ins[d][sub]
      <4>1. Q \in Seq(FlitType) /\ InOrder(Q) /\ f \in FlitType /\ \A g \in Range(Q) : g[1] = f[1] => g[2] < f[2]
        BY <1>3, <3>1, <3>2, Zenon
      <4> HIDE DEF Q
      <4>2. Range(Append(Q, f)) = Range(Q) \cup {f} /\ InOrder(Append(Q, f))
        BY <4>1, RangeAppend
      <4> QED
        BY <4>2, Zenon DEF Q
    <3> QED
      BY <1>8, <2>1, <3>3, Zenon
  <2>2. CASE ~(m = d /\ a = sub)
    <3>1. InOrder(ins[m][a])
      BY <1>1 DEF SinkGood
    <3>2. ins2[m][a] = ins[m][a]
      BY <1>8, <2>2, Zenon
    <3> QED
      BY <2>2, <3>1, <3>2
  <2> QED
    BY <2>1, <2>2
<1>11. ASSUME NEW m \in Nodes PROVE SourceGood(m, ss[m], pp[m], ll2[m])
  <2>1. SourceGood(m, ss[m], pp[m], ll[m]) /\ ll2[m] \in LineType
    BY <1>1, <1>7
  <2>2. ASSUME NEW a \in Subnets, NEW w \in VCs PROVE LineGood(m, ss[m], ll2[m], a, w)
    <3>1. LineGood(m, ss[m], ll[m], a, w)
      BY <1>2
    <3>2. \A v \in VCs : Range(ll2[m][a][v]) \subseteq Range(ll[m][a][v])
      BY <1>9
    <3>3. InOrder(ll2[m][a][w])
      BY <1>9
    <3> QED
      BY <3>1, <3>2, <3>3 DEF LineGood
  <2> QED
    BY <2>1, <2>2 DEF SourceGood
<1>12. SinkGood(ss, ll2, ins2)
  <2>1. \A m \in Nodes, a \in Subnets : InOrder(ins2[m][a])
    BY <1>10
  <2>2. ASSUME NEW e \in Nodes, NEW a \in Subnets, NEW g \in Range(ins2[e][a])
        PROVE  /\ g[1].dest = e /\ g[1].subnet = a
               /\ \A m \in Nodes, c \in Classes :
                    ss[m].queue[c] # None /\ ss[m].queue[c].packet = g[1] => g[2] <= ss[m].queue[c].sent
               /\ \A m \in Nodes, w \in VCs : \A h \in Range(ll2[m][a][w]) : h[1] = g[1] => g[2] < h[2]
    <3>1. CASE g \in Range(ins[e][a])
      <4>1. \A m \in Nodes, w \in VCs : Range(ll2[m][a][w]) \subseteq Range(ll[m][a][w])
        BY <1>9, Zenon
      <4> QED
        <5>1. /\ g[1].dest = e /\ g[1].subnet = a
              /\ \A m \in Nodes, c \in Classes :
                   ss[m].queue[c] # None /\ ss[m].queue[c].packet = g[1] => g[2] <= ss[m].queue[c].sent
              /\ \A m \in Nodes, w \in VCs : \A h \in Range(ll[m][a][w]) : h[1] = g[1] => g[2] < h[2]
          BY <1>15, <3>1
        <5>2. \A m \in Nodes, w \in VCs : \A h \in Range(ll2[m][a][w]) : h[1] = g[1] => g[2] < h[2]
          BY <4>1, <5>1, Zenon
        <5> QED
          BY <5>1, <5>2
    <3>2. CASE g = f /\ e = d /\ a = sub
      <4>1. ASSUME NEW m \in Nodes, NEW c \in Classes, ss[m].queue[c] # None, ss[m].queue[c].packet = f[1]
            PROVE  f[2] <= ss[m].queue[c].sent
        <5>1. ss[m].queue[c].packet.src = m
          <6>1. QueueGood(m, ss[m], pp[m])
            BY <1>1, Zenon DEF SourceGood
          <6> QED
            BY <4>1, <6>1, Zenon DEF QueueGood
        <5> QED
          BY <1>5, <4>1, <5>1, Zenon
      <4>2. ASSUME NEW m \in Nodes, NEW w \in VCs, NEW h \in Range(ll2[m][sub][w]), h[1] = f[1]
            PROVE  f[2] < h[2]
        <5>1. h \in Range(ll[m][sub][w])
          BY <1>9, Zenon
        <5>2. m = n
          BY <1>2, <1>5, <4>2, <5>1 DEF LineGood
        <5>3. w = vc
          BY <1>5, <4>2, <5>1, <5>2, Zenon
        <5> QED
          BY <1>3, <1>7, <4>2, <5>2, <5>3
      <4> QED
        BY <1>5, <3>2, <4>1, <4>2, Zenon
    <3> QED
      BY <1>10, <3>1, <3>2
  <2> QED
    BY <2>1, <2>2 DEF SinkGood
<1>13. ASSUME NEW g PROVE g \in t <=> Somewhere(ss, ll2, ins2, g)
  <2>1. \A m \in Nodes : AtSink(ins2[m], g) <=> AtSink(ins[m], g) \/ (m = d /\ g = f)
    <3> SUFFICES ASSUME NEW m \in Nodes PROVE AtSink(ins2[m], g) <=> AtSink(ins[m], g) \/ (m = d /\ g = f)
      OBVIOUS
    <3>1. \A a \in Subnets : g \in Range(ins2[m][a]) <=> g \in Range(ins[m][a]) \/ (m = d /\ a = sub /\ g = f)
      BY <1>10
    <3> QED
      BY <3>1, Zenon DEF AtSink
  <2>2. \A m \in Nodes : OnLine(ll2[m], g) => OnLine(ll[m], g)
    BY <1>9, Zenon DEF OnLine
  <2>3. \A m \in Nodes : OnLine(ll[m], g) => OnLine(ll2[m], g) \/ g = f
    BY <1>9, Zenon DEF OnLine
  <2>4. OnLine(ll[n], f)
    BY <1>4 DEF OnLine, q
  <2>5. Somewhere(ss, ll2, ins2, g) <=> Somewhere(ss, ll, ins, g)
    BY <1>6, <2>1, <2>2, <2>3, <2>4, Zenon DEF Somewhere
  <2> QED
    BY <1>1, <2>5
<1>14. World(ss, pp, ll2, ins2, t)
  BY <1>1, <1>7, <1>8, <1>11, <1>12, <1>13, Zenon DEF World
<1> QED
  BY <1>6, <1>14, Zenon DEF ll2, ins2

(* The network takes a flit. *)
LEMMA MoveKeeps ==
  ASSUME Inv, NEW n \in Nodes, NEW sub \in Subnets, NEW vc \in VCs, Move(n, sub, vc)
  PROVE  Kept
<1> DEFINE q == first[n][sub][vc]
           f == Head(q)
           d == f[1].dest
           ow == owed[n][sub]
           first2 == Moved(first, n, sub, vc)
           owed2 == [owed EXCEPT ![n][sub] = Append(ow, vc)]
<1>1. /\ config \in Configs /\ World(node, port, first, inside, total)
      /\ Good(node, port, first, inside, total, measured, retired, ok)
      /\ CreditsGood(port, first, owed, back) /\ LoopGood(loop, simState, left, total)
  BY DEF Inv, Good
<1>2. /\ q # <<>> /\ first' = first2 /\ owed' = owed2
      /\ inside' = [inside EXCEPT ![d][sub] = Append(@, f)]
      /\ UNCHANGED <<config, sources, parity, simState, loop, left, back>>
  BY Zenon DEF Move, Moved
<1>3. first[n] \in [Subnets -> [VCs -> Seq(FlitType)]] /\ first \in [Nodes -> LineType]
  BY <1>1 DEF World, LineType
<1>4. World(node, port, first2, Arrived(inside, d, sub, f), total)
  BY <1>1, <1>2, MovedWorld, Zenon
<1>5. World(node, port, first', inside', total)
  BY <1>2, <1>4, Zenon DEF Arrived
<1>6. owed \in [Nodes -> [Subnets -> Seq(VCs)]] /\ back \in [Nodes -> [Subnets -> VCs \cup {None}]] /\ ow \in Seq(VCs)
      /\ \A m \in Nodes, a \in Subnets, w \in VCs : CreditAt(port, first, owed, back, m, a, w)
  BY <1>1 DEF CreditsGood
<1>7. /\ first2[n][sub][vc] = Tail(q)
      /\ \A m \in Nodes, a \in Subnets, w \in VCs : m # n \/ a # sub \/ w # vc => first2[m][a][w] = first[m][a][w]
  <2> DEFINE r == Tail(q)
             l == [first[n] EXCEPT ![sub][vc] = r]
  <2>1. l[sub][vc] = r /\ \A a \in Subnets, w \in VCs : a # sub \/ w # vc => l[a][w] = first[n][a][w]
    BY <1>3
  <2>2. first2 = [first EXCEPT ![n] = l]
    BY DEF Moved
  <2> HIDE DEF l, first2
  <2> QED
    BY <1>3, <2>1, <2>2
<1>8. /\ owed2 \in [Nodes -> [Subnets -> Seq(VCs)]] /\ owed2[n][sub] = Append(ow, vc)
      /\ \A m \in Nodes, a \in Subnets : m # n \/ a # sub => owed2[m][a] = owed[m][a]
  <2>1. Append(ow, vc) \in Seq(VCs) /\ owed[n] \in [Subnets -> Seq(VCs)]
    BY <1>6
  <2> HIDE DEF ow
  <2> QED
    BY <1>6, <2>1
<1> HIDE DEF first2, owed2
<1>9. ASSUME NEW m \in Nodes, NEW a \in Subnets, NEW w \in VCs PROVE CreditAt(port, first2, owed2, back, m, a, w)
  <2>1. CreditAt(port, first, owed, back, m, a, w)
    BY <1>6
  <2>2. CASE m # n \/ a # sub
    BY <1>7, <1>8, <2>1, <2>2 DEF CreditAt
  <2>3. CASE m = n /\ a = sub
    <3> DEFINE k == IF back[n][sub] = w THEN 1 ELSE 0
               z == first[n][sub][w]
               y == first2[n][sub][w]
               j == IF w = vc THEN 1 ELSE 0
               o == port[n][sub].occupied[w]
               m1 == Many(ow, {w})
               m2 == Many(owed2[n][sub], {w})
    <3>1. z \in Seq(FlitType)
      BY <1>3
    <3>2. Len(z) \in Nat /\ Len(y) \in Nat /\ Len(z) = Len(y) + j
      <4>1. CASE w = vc
        <5>1. z # <<>> /\ y = Tail(z)
          BY <1>2, <1>7, <4>1, Zenon
        <5> HIDE DEF z, y
        <5>2. Len(z) \in Nat /\ Len(y) \in Nat /\ Len(z) = Len(y) + 1
          BY <3>1, <5>1
        <5> QED
          BY <4>1, <5>2
      <4>2. CASE w # vc
        <5>1. y = z
          BY <1>7, <4>2
        <5> HIDE DEF z, y
        <5> QED
          BY <3>1, <4>2, <5>1
      <4> QED
        BY <4>1, <4>2, Zenon
    <3>3. m1 \in Nat /\ m2 = m1 + j
      <4>1. Many(Append(ow, vc), {w}) = Many(ow, {w}) + IF vc \in {w} THEN 1 ELSE 0
        <5> HIDE DEF ow
        <5> QED
          BY <1>6, ManyAppend
      <4>2. m1 \in Nat
        <5> HIDE DEF ow
        <5> QED
          BY <1>6, ManyType
      <4>3. (IF vc \in {w} THEN 1 ELSE 0) = j
        OBVIOUS
      <4> QED
        BY <1>8, <4>1, <4>2, <4>3
    <3>4. o = Len(z) + m1 + k
      BY <2>1, <2>3 DEF CreditAt
    <3>5. k \in Nat /\ j \in Nat
      OBVIOUS
    <3> DEFINE lz == Len(z)
               ly == Len(y)
    <3>6. o = ly + m2 + k
      <4>1. lz \in Nat /\ ly \in Nat /\ lz = ly + j /\ o = lz + m1 + k
        BY <3>2, <3>4, Zenon
      <4> HIDE DEF k, j, o, m1, m2, lz, ly
      <4> QED
        BY <3>3, <3>5, <4>1
    <3> QED
      BY <2>3, <3>6 DEF CreditAt
  <2> QED
    BY <2>2, <2>3
<1>10. CreditsGood(port, first', owed', back)
  <2>1. CreditsGood(port, first2, owed2, back)
    BY <1>6, <1>8, <1>9 DEF CreditsGood
  <2> QED
    BY <1>2, <2>1, Zenon
<1>11. Good(node, port, first', inside', total, measured, retired, ok)
  BY <1>1, <1>5 DEF Good
<1> QED
  BY <1>1, <1>2, <1>10, <1>11, Zenon DEF Kept, sources

(* A credit reaches a source. *)
LEMMA ReturnKeeps ==
  ASSUME Inv, NEW n \in Nodes, NEW sub \in Subnets, Return(n, sub)
  PROVE  Kept
<1> DEFINE q == owed[n][sub]
           v == Head(q)
           r == Tail(q)
           owed2 == [owed EXCEPT ![n][sub] = r]
           back2 == [back EXCEPT ![n][sub] = v]
<1>1. /\ config \in Configs /\ Good(node, port, first, inside, total, measured, retired, ok)
      /\ CreditsGood(port, first, owed, back) /\ LoopGood(loop, simState, left, total)
  BY DEF Inv
<1>2. /\ q # <<>> /\ back[n][sub] = None /\ back' = back2 /\ owed' = owed2
      /\ UNCHANGED <<config, sources, parity, simState, loop, left, first, inside>>
  BY DEF Return
<1>3. /\ owed \in [Nodes -> [Subnets -> Seq(VCs)]] /\ back \in [Nodes -> [Subnets -> VCs \cup {None}]] /\ q \in Seq(VCs)
      /\ \A m \in Nodes, a \in Subnets, w \in VCs : CreditAt(port, first, owed, back, m, a, w)
  BY <1>1 DEF CreditsGood
<1>4. v \in VCs /\ r \in Seq(VCs) /\ \A w : Many(q, {w}) = Many(r, {w}) + (IF v \in {w} THEN 1 ELSE 0)
  <2> HIDE DEF q
  <2> QED
    BY <1>2, <1>3, RangeTail, ManyTail
<1> HIDE DEF v, r
<1>5. /\ owed2 \in [Nodes -> [Subnets -> Seq(VCs)]] /\ owed2[n][sub] = r
      /\ \A m \in Nodes, a \in Subnets : m # n \/ a # sub => owed2[m][a] = owed[m][a]
  <2>1. owed[n] \in [Subnets -> Seq(VCs)]
    BY <1>3
  <2> QED
    BY <1>3, <1>4, <2>1
<1>6. /\ back2 \in [Nodes -> [Subnets -> VCs \cup {None}]] /\ back2[n][sub] = v
      /\ \A m \in Nodes, a \in Subnets : m # n \/ a # sub => back2[m][a] = back[m][a]
  <2>1. back[n] \in [Subnets -> VCs \cup {None}]
    BY <1>3
  <2> QED
    BY <1>3, <1>4, <2>1
<1> HIDE DEF owed2, back2
<1>7. ASSUME NEW m \in Nodes, NEW a \in Subnets, NEW w \in VCs PROVE CreditAt(port, first, owed2, back2, m, a, w)
  <2>1. CreditAt(port, first, owed, back, m, a, w)
    BY <1>3
  <2>2. CASE m # n \/ a # sub
    BY <1>5, <1>6, <2>1, <2>2 DEF CreditAt
  <2>3. CASE m = n /\ a = sub
    <3> DEFINE k == IF v = w THEN 1 ELSE 0
               l == Len(first[n][sub][w])
               o == port[n][sub].occupied[w]
               m1 == Many(q, {w})
               m2 == Many(r, {w})
    <3>1. (IF back[n][sub] = w THEN 1 ELSE 0) = 0
      BY <1>2, NoneIsNone, <1>1
    <3>2. o = l + m1 + 0
      BY <2>1, <2>3, <3>1 DEF CreditAt
    <3>3. m1 = m2 + k
      <4>1. (IF v \in {w} THEN 1 ELSE 0) = k
        OBVIOUS
      <4> QED
        BY <1>4, <4>1
    <3>4. m2 \in Nat
      BY <1>4, ManyType
    <3>5. l \in Nat
      <4>1. first[n][sub][w] \in Seq(FlitType)
        BY <1>1 DEF Good, World, LineType
      <4> QED
        BY <4>1
    <3>6. k \in Nat
      OBVIOUS
    <3>7. o = l + m2 + k
      <4> HIDE DEF k, l, o, m1, m2
      <4> QED
        BY <3>2, <3>3, <3>4, <3>5, <3>6
    <3> QED
      BY <1>5, <1>6, <2>3, <3>7 DEF CreditAt
  <2> QED
    BY <2>2, <2>3
<1>8. CreditsGood(port, first, owed', back')
  <2>1. CreditsGood(port, first, owed2, back2)
    BY <1>5, <1>6, <1>7 DEF CreditsGood
  <2> QED
    BY <1>2, <2>1
<1> QED
  BY <1>1, <1>2, <1>8 DEF Kept, sources

(* The sources change, their queues do not. *)
LEMMA SourcesSame ==
  ASSUME config \in Configs, NEW ss, NEW pp, NEW ll, NEW ins, NEW t, NEW me, NEW re, NEW o,
         Good(ss, pp, ll, ins, t, me, re, o),
         NEW ss2 \in [Nodes -> SourceType], \A n \in Nodes : ss2[n].queue = ss[n].queue, Requested(ss2, t)
  PROVE  Good(ss2, pp, ll, ins, t, me, re, o)
<1>1. /\ ss \in [Nodes -> SourceType] /\ pp \in [Nodes -> [Subnets -> PortType]] /\ ll \in [Nodes -> LineType]
      /\ ins \in [Nodes -> [Subnets -> Seq(FlitType)]]
      /\ SinkGood(ss, ll, ins) /\ \A g : g \in t <=> Somewhere(ss, ll, ins, g)
      /\ \A m \in Nodes : SourceGood(m, ss[m], pp[m], ll[m])
      /\ t \subseteq FlitType /\ IsFiniteSet(t) /\ Upward(t)
  BY DEF Good, World
<1>2. \A m \in Nodes : SourceGood(m, ss2[m], pp[m], ll[m])
  BY <1>1, SourceSame
<1>3. SinkGood(ss2, ll, ins)
  <2>1. \A m \in Nodes, c \in Classes : ss2[m].queue[c] = ss[m].queue[c]
    OBVIOUS
  <2>2. \A d \in Nodes, a \in Subnets : InOrder(ins[d][a])
    BY <1>1 DEF SinkGood
  <2>3. ASSUME NEW d \in Nodes, NEW a \in Subnets, NEW g \in Range(ins[d][a])
        PROVE  /\ g[1].dest = d /\ g[1].subnet = a
               /\ \A m \in Nodes, c \in Classes :
                    ss[m].queue[c] # None /\ ss[m].queue[c].packet = g[1] => g[2] <= ss[m].queue[c].sent
               /\ \A m \in Nodes, vc \in VCs : \A h \in Range(ll[m][a][vc]) : h[1] = g[1] => g[2] < h[2]
    BY <1>1 DEF SinkGood
  <2> QED
    BY <2>1, <2>2, <2>3 DEF SinkGood
<1>4. \A m \in Nodes : \A g : AtSource(ss2[m], g) <=> AtSource(ss[m], g)
  BY DEF AtSource
<1>5. \A g : Somewhere(ss2, ll, ins, g) <=> Somewhere(ss, ll, ins, g)
  BY <1>4 DEF Somewhere
<1>6. World(ss2, pp, ll, ins, t)
  BY <1>1, <1>2, <1>3, <1>5 DEF World
<1> QED
  BY <1>6 DEF Good

(* The packets that want an answer are as many, while these do not change. *)
LEMMA RequestsSame ==
  ASSUME NEW ss, NEW ss2, NEW t, Requested(ss, t),
         \A n \in Nodes : ss2[n].pending = ss[n].pending /\ ss2[n].requests = ss[n].requests
  PROVE  Requested(ss2, t)
<1>1. \A n \in Nodes : Asked(ss2, n) = Asked(ss, n)
  BY DEF Asked
<1> QED
  BY <1>1 DEF Requested

(* The ends of a sample period. *)
LEMMA SampleKeeps ==
  ASSUME Inv, WarmedUp \/ Converged \/ Unstable
  PROVE  Kept
<1>1. /\ config \in Configs /\ Good(node, port, first, inside, total, measured, retired, ok)
      /\ CreditsGood(port, first, owed, back) /\ LoopGood(loop, simState, left, total)
  BY DEF Inv
<1>2. CASE WarmedUp
  <2>1. LoopGood(loop', simState', left', total')
    BY <1>1, <1>2 DEF WarmedUp, LoopGood, sources
  <2> QED
    BY <1>1, <1>2, <2>1 DEF WarmedUp, Kept, sources, network
<1>3. CASE Unstable
  <2>1. LoopGood(loop', simState', left', total')
    BY <1>1, <1>3 DEF Unstable, LoopGood, sources
  <2> QED
    BY <1>1, <1>3, <2>1 DEF Unstable, Kept, sources, network
<1>4. CASE Converged
  <2>1. PICK behind \in [Nodes -> [Classes -> 0 .. MaxBehind]] :
          node' = [n \in Nodes |-> [node[n] EXCEPT !.behind = behind[n]]]
    BY <1>4 DEF Converged
  <2> DEFINE ss == [n \in Nodes |-> [node[n] EXCEPT !.behind = behind[n]]]
  <2>2. node \in [Nodes -> SourceType]
    BY <1>1 DEF Good, World
  <2>3. ASSUME NEW n \in Nodes
        PROVE  /\ ss[n] \in SourceType /\ ss[n].queue = node[n].queue
               /\ ss[n].pending = node[n].pending /\ ss[n].requests = node[n].requests
    <3>1. behind[n] \in [Classes -> -1 .. MaxBehind]
      <4>1. \A i \in 0 .. MaxBehind : i \in -1 .. MaxBehind
        BY BoundsAssumption
      <4> QED
        BY <4>1
    <3> DEFINE s == node[n]
               h == behind[n]
               s2 == [s EXCEPT !.behind = h]
    <3>2. s \in SourceType /\ h \in [Classes -> -1 .. MaxBehind]
      BY <2>2, <3>1
    <3> HIDE DEF s, h
    <3>3. s2 \in SourceType /\ s2.queue = s.queue /\ s2.pending = s.pending /\ s2.requests = s.requests
      BY <3>2 DEF SourceType
    <3> QED
      BY <3>3 DEF s, h
  <2>4. ss \in [Nodes -> SourceType]
    BY <2>3
  <2> HIDE DEF ss
  <2>5. Good(ss, port, first, inside, total, measured, retired, ok)
    <3>1. Requested(ss, total)
      BY <1>1, <2>3, RequestsSame DEF Good
    <3> QED
      BY <1>1, <2>3, <2>4, <3>1, SourcesSame
  <2>6. Good(node', port, first, inside, total, measured, retired, ok)
    BY <2>1, <2>5 DEF ss
  <2>7. LoopGood(loop', simState', left', total')
    BY <1>1, <1>4 DEF Converged, LoopGood
  <2> QED
    BY <1>1, <1>4, <2>6, <2>7 DEF Converged, Kept, network
<1> QED
  BY <1>2, <1>3, <1>4

(* Nothing is asked for when nothing is in flight and nobody waits. *)
LEMMA NothingAsked ==
  ASSUME config \in Configs, NEW ss, \A n \in Nodes : ss[n].pending = <<>> /\ ss[n].requests = 0
  PROVE  Requested(ss, {})
<1> SUFFICES ASSUME NEW x \in Nodes
             PROVE  0 = IF config.batch = 0 THEN 0 ELSE Cardinality(Unanswered({}, x)) + Sum(Asked(ss, x), Nodes)
  BY DEF Requested
<1> DEFINE g == Asked(ss, x)
<1>1. Cardinality(Unanswered({}, x)) = 0
  <2>1. Unanswered({}, x) = {}
    BY DEF Unanswered, Packets
  <2> QED
    BY <2>1, FS_EmptySet
<1>2. \A m \in Nodes : g[m] = 0
  BY ManyNone DEF Asked
<1>3. IsFiniteSet(Nodes) /\ Cardinality(Nodes) \in Nat
  BY Finite, FS_CardinalityType
<1> HIDE DEF g
<1>4. Summable(g, Nodes)
  BY <1>2, <1>3 DEF Summable
<1>5. Sum(g, Nodes) = Cardinality(Nodes) * 0
  BY <1>2, <1>4, SumConstant
<1>6. Sum(g, Nodes) = 0
  BY <1>3, <1>5
<1> QED
  BY <1>1, <1>6 DEF g

(* The loops that end. *)
LEMMA NextSimulationKeeps ==
  ASSUME Inv, loop = "credits", NextSimulation, UNCHANGED <<config, port, total, measured, retired, ok, parity, network>>
  PROVE  Kept
<1>1. /\ config \in Configs /\ Good(node, port, first, inside, total, measured, retired, ok)
      /\ CreditsGood(port, first, owed, back) /\ LoopGood(loop, simState, left, total)
  BY DEF Inv
<1>2. total = {} /\ left.sims \in 1 .. config.sims /\ left.sims \in Nat /\ config.sims \in Nat
  BY <1>1, Sizes DEF LoopGood
<1>3. left' = [sims |-> left.sims - 1, batches |-> config.batches]
  BY DEF NextSimulation
<1>4. left' \in [sims : 0 .. config.sims, batches : 0 .. config.batches] /\ left'.sims = left.sims - 1
      /\ left'.batches = config.batches
  <2>1. config.batches \in 0 .. config.batches
    BY <1>1, Sizes
  <2>2. left.sims - 1 \in 0 .. config.sims
    BY <1>2
  <2> QED
    BY <1>3, <2>1, <2>2
<1>5. CASE left.sims > 1
  <2> DEFINE ss == [n \in Nodes |-> Start(node[n])]
  <2>1. /\ loop' = (IF config.batch = 0 THEN "sample" ELSE "batch")
        /\ simState' = (IF config.batch = 0 THEN "warming_up" ELSE "running")
        /\ node' = ss
    BY <1>5 DEF NextSimulation
  <2>2. node \in [Nodes -> SourceType]
    BY <1>1 DEF Good, World
  <2>3. ASSUME NEW n \in Nodes
        PROVE  ss[n] \in SourceType /\ ss[n].queue = node[n].queue /\ ss[n].pending = <<>> /\ ss[n].requests = 0
    <3> DEFINE s == node[n]
               h == [c \in Classes |-> 0]
               e == [c \in Classes |-> FALSE]
               s2 == [s EXCEPT !.requests = 0, !.pending = <<>>, !.seq = 0, !.behind = h, !.drained = e]
    <3>1. s \in SourceType /\ h \in [Classes -> -1 .. MaxBehind] /\ e \in [Classes -> BOOLEAN] /\ config.batch \in Nat
      <4>1. 0 \in -1 .. MaxBehind
        BY BoundsAssumption
      <4> QED
        BY <1>1, <2>2, <4>1, Sizes
    <3>2. ss[n] = s2
      BY DEF Start
    <3> HIDE DEF s, h, e
    <3>3. s2 \in SourceType /\ s2.queue = s.queue /\ s2.pending = <<>> /\ s2.requests = 0
      <4>1. 0 \in 0 .. config.batch /\ <<>> \in Seq(Reply)
        BY <3>1
      <4> DEFINE a == [s EXCEPT !.requests = 0, !.pending = <<>>]
                 b == [a EXCEPT !.seq = 0, !.behind = h]
                 d == [b EXCEPT !.drained = e]
      <4>2. a \in SourceType /\ a.queue = s.queue /\ a.pending = <<>> /\ a.requests = 0
        <5> DEFINE z == <<>>
                   a0 == [s EXCEPT !.requests = 0]
                   a1 == [a0 EXCEPT !.pending = z]
        <5>1. a0 \in SourceType /\ a0.queue = s.queue /\ a0.requests = 0
          <6> DEFINE k == 0
                     u == [s EXCEPT !.requests = k]
          <6>1. k \in Int
            OBVIOUS
          <6> HIDE DEF k, s2, a, b, d, a1, ss
          <6>2. u \in SourceType
            BY <3>1, <6>1 DEF SourceType
          <6>3. u.queue = s.queue /\ u.requests = k
            BY <3>1, <6>1 DEF SourceType
          <6> QED
            BY <6>2, <6>3 DEF k
        <5>3. a = a1
          BY <3>1 DEF SourceType
        <5>4. z \in Seq(Reply)
          BY <4>1
        <5> HIDE DEF a0, z
        <5>2. a1 \in SourceType /\ a1.queue = s.queue /\ a1.pending = z /\ a1.requests = 0
          BY <5>1, <5>4 DEF SourceType
        <5> HIDE DEF a, a1
        <5> QED
          BY <5>2, <5>3 DEF z
      <4>6. s2 = d
        BY <3>1 DEF SourceType
      <4> HIDE DEF a, s2
      <4>3. b \in SourceType /\ b.queue = s.queue /\ b.pending = <<>> /\ b.requests = 0
        BY <3>1, <4>1, <4>2 DEF SourceType
      <4> HIDE DEF b
      <4>4. d \in SourceType /\ d.queue = s.queue /\ d.pending = <<>> /\ d.requests = 0
        BY <3>1, <4>3, Zenon DEF SourceType
      <4> QED
        BY <4>4, <4>6
    <3> HIDE DEF s2
    <3> QED
      BY <3>2, <3>3 DEF s
  <2>4. ss \in [Nodes -> SourceType]
    BY <2>3
  <2> HIDE DEF ss
  <2>5. Good(ss, port, first, inside, total, measured, retired, ok)
    <3>1. Requested(ss, total)
      BY <1>1, <1>2, <2>3, NothingAsked
    <3> QED
      BY <1>1, <2>3, <2>4, <3>1, SourcesSame
  <2>6. LoopGood(loop', simState', left', total)
    <3>1. config.batch # 0 => config.batch > 0 /\ config.batches >= 1
      BY <1>1, ConfigsAssumption
    <3>2. left'.sims >= 1
      BY <1>2, <1>4, <1>5
    <3> QED
      BY <1>1, <1>4, <2>1, <3>1, <3>2 DEF LoopGood
  <2> QED
    BY <1>1, <2>1, <2>5, <2>6 DEF Kept, network
<1>6. CASE ~(left.sims > 1)
  <2>1. loop' = "done" /\ UNCHANGED <<simState, node>>
    BY <1>6 DEF NextSimulation
  <2>2. LoopGood(loop', simState', left', total)
    BY <1>1, <1>4, <2>1 DEF LoopGood
  <2> QED
    BY <1>1, <2>1, <2>2 DEF Kept, network
<1> QED
  BY <1>5, <1>6

(* A batch ends: another one begins, or the network drains. *)
LEMMA BatchReceivedKeeps ==
  ASSUME Inv, loop = "receive", BatchReceived, UNCHANGED <<config, port, total, measured, retired, ok, parity, network>>
  PROVE  Kept
<1>1. /\ config \in Configs /\ Good(node, port, first, inside, total, measured, retired, ok)
      /\ CreditsGood(port, first, owed, back) /\ LoopGood(loop, simState, left, total)
  BY DEF Inv
<1>2. /\ left.batches \in 0 .. config.batches /\ left.batches >= 1 /\ config.batch > 0 /\ left.sims >= 1
      /\ config.batch \in Nat /\ config.batches \in Nat /\ left \in [sims : 0 .. config.sims, batches : 0 .. config.batches]
  BY <1>1, Sizes DEF LoopGood
<1>3. left' = [left EXCEPT !.batches = @ - 1]
  BY DEF BatchReceived
<1>4. /\ left' \in [sims : 0 .. config.sims, batches : 0 .. config.batches]
      /\ left'.sims = left.sims /\ left'.batches = left.batches - 1
  <2> DEFINE k == left.batches - 1
  <2>1. k \in 0 .. config.batches
    BY <1>2
  <2>2. left' = [left EXCEPT !.batches = k]
    BY <1>3
  <2> HIDE DEF k
  <2>3. left' \in [sims : 0 .. config.sims, batches : 0 .. config.batches] /\ left'.sims = left.sims /\ left'.batches = k
    BY <1>2, <2>1, <2>2
  <2> QED
    BY <2>3 DEF k
<1>5. CASE left.batches > 1
  <2> DEFINE ss == [n \in Nodes |-> [node[n] EXCEPT !.seq = 0]]
  <2>1. loop' = "batch" /\ UNCHANGED simState /\ node' = ss
    BY <1>5 DEF BatchReceived
  <2>2. node \in [Nodes -> SourceType]
    BY <1>1 DEF Good, World
  <2>3. ASSUME NEW n \in Nodes
        PROVE  /\ ss[n] \in SourceType /\ ss[n].queue = node[n].queue
               /\ ss[n].pending = node[n].pending /\ ss[n].requests = node[n].requests
    <3> DEFINE s == node[n]
               s2 == [s EXCEPT !.seq = 0]
    <3>1. s \in SourceType /\ 0 \in 0 .. config.batch
      BY <1>2, <2>2
    <3> HIDE DEF s
    <3>2. s2 \in SourceType /\ s2.queue = s.queue /\ s2.pending = s.pending /\ s2.requests = s.requests
      BY <3>1 DEF SourceType
    <3> QED
      BY <3>2 DEF s
  <2>4. ss \in [Nodes -> SourceType]
    BY <2>3
  <2> HIDE DEF ss
  <2>5. Good(ss, port, first, inside, total, measured, retired, ok)
    <3>1. Requested(ss, total)
      BY <1>1, <2>3, RequestsSame DEF Good
    <3> QED
      BY <1>1, <2>3, <2>4, <3>1, SourcesSame
  <2>6. LoopGood(loop', simState', left', total)
    <3>1. left'.sims >= 1 /\ left'.batches >= 1
      BY <1>2, <1>4, <1>5
    <3> QED
      BY <1>1, <1>2, <1>4, <2>1, <3>1 DEF LoopGood
  <2> QED
    BY <1>1, <2>1, <2>5, <2>6 DEF Kept, network
<1>6. CASE ~(left.batches > 1)
  <2>1. loop' = "empty" /\ simState' = "draining" /\ UNCHANGED node
    BY <1>6 DEF BatchReceived
  <2>2. LoopGood(loop', simState', left', total)
    BY <1>1, <1>2, <1>4, <2>1 DEF LoopGood
  <2> QED
    BY <1>1, <2>1, <2>2 DEF Kept, network
<1> QED
  BY <1>5, <1>6

(* Every loop that ends. *)
LEMMA LeaveLoopKeeps ==
  ASSUME Inv, LeaveLoop
  PROVE  Kept
<1>1. /\ config \in Configs /\ Good(node, port, first, inside, total, measured, retired, ok)
      /\ CreditsGood(port, first, owed, back) /\ LoopGood(loop, simState, left, total)
  BY DEF Inv
<1>2. ~GoesOn /\ loop # "done" /\ UNCHANGED <<config, port, total, measured, retired, ok, parity, network>>
  BY DEF LeaveLoop
<1>3. CASE loop = "receive"
  <2>1. BatchReceived
    BY <1>3 DEF LeaveLoop
  <2> QED
    BY <1>2, <1>3, <2>1, BatchReceivedKeeps
<1>4. CASE loop = "credits"
  <2>1. NextSimulation
    BY <1>4 DEF LeaveLoop
  <2> QED
    BY <1>2, <1>4, <2>1, NextSimulationKeeps
<1>5. CASE loop \notin {"receive", "credits"}
  <2>1. loop' = [batch |-> "receive", drain |-> "empty", empty |-> "credits"][loop] /\ UNCHANGED <<node, simState, left>>
    BY <1>5 DEF LeaveLoop
  <2>2. loop \in {"batch", "drain", "empty"}
    <3>1. loop # "sample"
      BY <1>2 DEF GoesOn
    <3> QED
      BY <1>1, <1>2, <1>5, <3>1 DEF LoopGood
  <2>3. LoopGood(loop', simState, left, total)
    <3>1. CASE loop = "batch"
      <4>1. loop' = "receive"
        BY <2>1, <3>1
      <4> QED
        BY <1>1, <3>1, <4>1 DEF LoopGood
    <3>2. CASE loop = "drain"
      <4>1. loop' = "empty"
        BY <2>1, <3>2
      <4> QED
        BY <1>1, <3>2, <4>1 DEF LoopGood
    <3>3. CASE loop = "empty"
      <4>1. loop' = "credits"
        BY <2>1, <3>3
      <4>2. total = {}
        BY <1>2, <3>3 DEF GoesOn
      <4> QED
        BY <1>1, <3>3, <4>1, <4>2 DEF LoopGood
    <3> QED
      BY <2>2, <3>1, <3>2, <3>3
  <2> QED
    BY <1>1, <1>2, <2>1, <2>3 DEF Kept, network
<1> QED
  BY <1>3, <1>4, <1>5

(* Every step. *)
LEMMA NextKeeps ==
  ASSUME Inv, Orderly, [Next]_vars
  PROVE  Kept
<1>1. CASE GoesOn /\ Step
  BY <1>1, StepKeeps
<1>2. ASSUME NEW n \in Nodes, NEW sub \in Subnets, Return(n, sub) PROVE Kept
  BY <1>2, ReturnKeeps
<1>3. ASSUME NEW n \in Nodes, NEW sub \in Subnets, NEW vc \in VCs, Move(n, sub, vc) PROVE Kept
  BY <1>3, MoveKeeps
<1>4. CASE WarmedUp \/ Converged \/ Unstable
  BY <1>4, SampleKeeps
<1>5. CASE LeaveLoop
  BY <1>5, LeaveLoopKeeps
<1>6. CASE Ended \/ UNCHANGED vars
  <2>1. /\ Good(node, port, first, inside, total, measured, retired, ok)
        /\ CreditsGood(port, first, owed, back) /\ LoopGood(loop, simState, left, total)
    BY DEF Inv
  <2>2. UNCHANGED <<config, node, port, first, inside, total, measured, retired, ok, owed, back, loop, simState, left>>
    BY <1>6 DEF Ended, vars, sources, network
  <2> QED
    BY <2>1, <2>2 DEF Kept
<1> QED
  BY <1>1, <1>2, <1>3, <1>4, <1>5, <1>6 DEF Next

-----------------------------------------------------------------------------
(* What is kept holds in the next state.                                   *)
LEMMA SameConfig ==
  ASSUME config' = config
  PROVE  /\ Nodes' = Nodes /\ Classes' = Classes /\ Subnets' = Subnets /\ VCs' = VCs
         /\ PacketType' = PacketType /\ FlitType' = FlitType /\ Reply' = Reply
         /\ SourceType' = SourceType /\ PortType' = PortType /\ LineType' = LineType
<1>1. Nodes' = Nodes /\ Classes' = Classes /\ Subnets' = Subnets /\ VCs' = VCs
  BY DEF Nodes, Classes, Subnets, VCs
<1>2. PacketType' = PacketType /\ Reply' = Reply
  BY <1>1 DEF PacketType, Reply
<1>3. FlitType' = FlitType /\ Queueing' = Queueing
  BY <1>1, <1>2 DEF FlitType, Queueing
<1>4. SourceType' = SourceType
  BY <1>1, <1>2, <1>3 DEF SourceType
<1>5. PortType' = PortType /\ LineType' = LineType
  BY <1>1, <1>3 DEF PortType, LineType
<1> QED
  BY <1>1, <1>2, <1>3, <1>4, <1>5

(* The same of a source in the next state. *)
LEMMA SourceNext ==
  ASSUME config' = config, NEW n \in Nodes, SourceGood(n, node'[n], port'[n], first'[n])
  PROVE  SourceGood(n, node[n], port[n], first[n])'
<1>1. /\ Nodes' = Nodes /\ Classes' = Classes /\ Subnets' = Subnets /\ VCs' = VCs
      /\ SourceType' = SourceType /\ PortType' = PortType /\ LineType' = LineType
  BY SameConfig, Zenon
<1>2. QueueGood(n, node[n], port[n])'
  BY <1>1, Zenon DEF SourceGood, QueueGood
<1>3. OneHolder(node[n])' /\ UseHeld(node[n], port[n])'
  BY <1>1 DEF SourceGood, OneHolder, UseHeld, Partly
<1>4. (\A sub \in Subnets, vc \in VCs : LineGood(n, node[n], first[n], sub, vc))'
  <2>1. \A sub \in Subnets, vc \in VCs : LineGood(n, node'[n], first'[n], sub, vc)
    BY DEF SourceGood
  <2> QED
    BY <1>1, <2>1 DEF LineGood
<1>5. (node[n] \in SourceType /\ port[n] \in [Subnets -> PortType] /\ first[n] \in LineType)'
  BY <1>1 DEF SourceGood
<1> QED
  BY <1>2, <1>3, <1>4, <1>5 DEF SourceGood

(* The same of the sources, the lines and the sinks. *)
LEMMA WorldNext ==
  ASSUME config' = config, World(node', port', first', inside', total')
  PROVE  World(node, port, first, inside, total)'
<1>1. /\ Nodes' = Nodes /\ Classes' = Classes /\ Subnets' = Subnets /\ VCs' = VCs
      /\ SourceType' = SourceType /\ PortType' = PortType /\ LineType' = LineType /\ FlitType' = FlitType
  BY SameConfig
<1>2. (\A n \in Nodes : SourceGood(n, node[n], port[n], first[n]))'
  <2>1. \A n \in Nodes : SourceGood(n, node[n], port[n], first[n])'
    BY SourceNext DEF World
  <2> QED
    BY <1>1, <2>1
<1>3. SinkGood(node, first, inside)'
  <2>1. SinkGood(node', first', inside')
    BY DEF World
  <2> QED
    BY <1>1, <2>1 DEF SinkGood
<1>4. (\A f : f \in total <=> Somewhere(node, first, inside, f))'
  <2>1. \A f : f \in total' <=> Somewhere(node', first', inside', f)
    BY DEF World
  <2> QED
    BY <1>1, <2>1 DEF Somewhere, AtSource, OnLine, AtSink
<1>5. (/\ node \in [Nodes -> SourceType] /\ port \in [Nodes -> [Subnets -> PortType]] /\ first \in [Nodes -> LineType]
       /\ inside \in [Nodes -> [Subnets -> Seq(FlitType)]]
       /\ total \subseteq FlitType /\ IsFiniteSet(total) /\ Upward(total))'
  BY <1>1 DEF World, Upward
<1> QED
  BY <1>2, <1>3, <1>4, <1>5 DEF World

(* The same of the books. *)
LEMMA GoodNext ==
  ASSUME config' = config, Good(node', port', first', inside', total', measured', retired', ok')
  PROVE  Good(node, port, first, inside, total, measured, retired, ok)'
<1>1. Nodes' = Nodes
  BY SameConfig
<1>2. World(node, port, first, inside, total)'
  BY WorldNext DEF Good
<1>3. Requested(node, total)'
  <2>1. Requested(node', total')
    BY DEF Good
  <2>2. \A n : Asked(node, n)' = Asked(node', n)
    BY <1>1 DEF Asked, RepliesTo, Reply
  <2>3. \A n : Unanswered(total, n)' = Unanswered(total', n)
    BY DEF Unanswered
  <2> QED
    BY <1>1, <2>1, <2>2, <2>3 DEF Requested
<1>4. (measured = {f \in total : f[1].record} /\ retired = HeadsOf(total) /\ ok = TRUE)'
  BY DEF Good, HeadsOf
<1> QED
  BY <1>2, <1>3, <1>4 DEF Good

(* The same of the credits. *)
LEMMA CreditsNext ==
  ASSUME config' = config, CreditsGood(port', first', owed', back')
  PROVE  CreditsGood(port, first, owed, back)'
<1>1. Nodes' = Nodes /\ Subnets' = Subnets /\ VCs' = VCs
  BY SameConfig
<1>2. (owed \in [Nodes -> [Subnets -> Seq(VCs)]] /\ back \in [Nodes -> [Subnets -> VCs \cup {None}]])'
  BY <1>1 DEF CreditsGood
<1>3. (\A n \in Nodes, sub \in Subnets, vc \in VCs : CreditAt(port, first, owed, back, n, sub, vc))'
  <2>1. \A n \in Nodes, sub \in Subnets, vc \in VCs : CreditAt(port', first', owed', back', n, sub, vc)
    BY DEF CreditsGood
  <2> QED
    BY <1>1, <2>1, ZenonT(40) DEF CreditAt
<1> QED
  BY <1>2, <1>3 DEF CreditsGood

(* The invariant, in the next state. *)
LEMMA KeptNext ==
  ASSUME Inv, Kept
  PROVE  Inv'
<1>1. Good(node, port, first, inside, total, measured, retired, ok)'
  BY GoodNext DEF Kept
<1>2. CreditsGood(port, first, owed, back)'
  BY CreditsNext DEF Kept
<1>3. LoopGood(loop, simState, left, total)'
  BY DEF Kept, LoopGood
<1>4. (config \in Configs)'
  BY DEF Kept, Inv
<1> QED
  BY <1>1, <1>2, <1>3, <1>4 DEF Inv

(* The initial states. *)
LEMMA InitGood ==
  ASSUME Init
  PROVE  Inv
<1> DEFINE E == <<>>
           zero == [c \in Classes |-> 0]
           not == [c \in Classes |-> FALSE]
           q == [c \in Classes |-> None]
           s == [queue |-> q, pending |-> E, requests |-> 0, seq |-> 0, behind |-> zero, drained |-> not]
           o == [vc \in VCs |-> 0]
           u == [vc \in VCs |-> FALSE]
           p == [occupied |-> o, inUse |-> u, lastVC |-> q, lastClass |-> 0]
<1>1. /\ config \in Configs /\ node = [n \in Nodes |-> s] /\ port = [n \in Nodes |-> [sub \in Subnets |-> p]]
      /\ total = {} /\ measured = {} /\ retired = {} /\ ok = TRUE
      /\ loop = (IF config.batch = 0 THEN "sample" ELSE "batch")
      /\ simState = (IF config.batch = 0 THEN "warming_up" ELSE "running")
      /\ left = [sims |-> config.sims, batches |-> config.batches]
      /\ first = [n \in Nodes |-> [sub \in Subnets |-> [vc \in VCs |-> E]]]
      /\ inside = [n \in Nodes |-> [sub \in Subnets |-> E]]
      /\ owed = [n \in Nodes |-> [sub \in Subnets |-> E]]
      /\ back = [n \in Nodes |-> [sub \in Subnets |-> None]]
  BY DEF Init
<1>2. /\ config.sims \in Nat \ {0} /\ config.batch \in Nat /\ config.batches \in Nat /\ config.room \in Nat
      /\ 0 \in Classes /\ (config.batch > 0 => config.batches > 0)
  BY <1>1, Sizes, ConfigsAssumption, Zenon
<1>3. s \in SourceType
  <2>1. 0 \in -1 .. MaxBehind
    BY BoundsAssumption
  <2>2. q \in [Classes -> Queueing \cup {None}] /\ zero \in [Classes -> -1 .. MaxBehind] /\ not \in [Classes -> BOOLEAN]
    BY <2>1
  <2>3. E \in Seq(Reply) /\ 0 \in Int /\ 0 \in 0 .. config.batch
    BY <1>2
  <2> HIDE DEF q, zero, not, E
  <2> QED
    BY <2>2, <2>3 DEF SourceType
<1>4. p \in PortType
  <2>1. o \in [VCs -> 0 .. config.room] /\ u \in [VCs -> BOOLEAN] /\ q \in [Classes -> VCs \cup {None}]
    BY <1>2
  <2> HIDE DEF o, u, q
  <2> QED
    BY <1>2, <2>1 DEF PortType
<1>5. /\ \A c \in Classes : s.queue[c] = None
      /\ \A vc \in VCs : p.inUse[vc] = FALSE /\ p.occupied[vc] = 0
  OBVIOUS
<1>6. s.pending = <<>> /\ s.requests = 0
  OBVIOUS
<1> HIDE DEF s, p
<1>7. \A n \in Nodes : node[n] = s
  BY <1>1
<1>8. \A n \in Nodes, sub \in Subnets : /\ port[n][sub] = p /\ inside[n][sub] = E /\ owed[n][sub] = E /\ back[n][sub] = None
                                        /\ \A vc \in VCs : first[n][sub][vc] = E
  BY <1>1
<1>9. Range(E) = {} /\ InOrder(E)
  BY DEF Range, InOrder
<1>10. /\ node \in [Nodes -> SourceType] /\ port \in [Nodes -> [Subnets -> PortType]]
  BY <1>1, <1>3, <1>4
<1>11. first \in [Nodes -> LineType]
  <2>1. E \in Seq(FlitType)
    OBVIOUS
  <2> HIDE DEF E
  <2> QED
    BY <1>1, <2>1 DEF LineType
<1>12. inside \in [Nodes -> [Subnets -> Seq(FlitType)]] /\ owed \in [Nodes -> [Subnets -> Seq(VCs)]]
  <2>1. E \in Seq(FlitType) /\ E \in Seq(VCs)
    OBVIOUS
  <2> HIDE DEF E
  <2> QED
    BY <1>1, <2>1
<1>13. ASSUME NEW n \in Nodes PROVE SourceGood(n, node[n], port[n], first[n])
  <2>1. node[n] \in SourceType /\ port[n] \in [Subnets -> PortType] /\ first[n] \in LineType
    BY <1>10, <1>11, Zenon
  <2>2. QueueGood(n, node[n], port[n]) /\ OneHolder(node[n])
    BY <1>5, <1>7, Zenon DEF QueueGood, OneHolder, Partly
  <2>3. UseHeld(node[n], port[n])
    BY <1>5, <1>8 DEF UseHeld
  <2>4. \A sub \in Subnets, vc \in VCs : LineGood(n, node[n], first[n], sub, vc)
    <3> HIDE DEF E
    <3> QED
      BY <1>8, <1>9 DEF LineGood
  <2> QED
    BY <2>1, <2>2, <2>3, <2>4 DEF SourceGood
<1> HIDE DEF E
<1>14. SinkGood(node, first, inside)
  BY <1>8, <1>9 DEF SinkGood
<1>15. \A f : ~Somewhere(node, first, inside, f)
  BY <1>5, <1>7, <1>8, <1>9 DEF Somewhere, AtSource, OnLine, AtSink
<1>16. World(node, port, first, inside, total)
  <2>1. total \subseteq FlitType /\ IsFiniteSet(total) /\ Upward(total)
    BY <1>1, FS_EmptySet DEF Upward
  <2>2. \A f : f \in total <=> Somewhere(node, first, inside, f)
    BY <1>1, <1>15
  <2> QED
    BY <1>10, <1>11, <1>12, <1>13, <1>14, <2>1, <2>2 DEF World
<1>17. Requested(node, total)
  BY <1>1, <1>6, <1>7, NothingAsked
<1>18. retired = HeadsOf(total)
  BY <1>1 DEF HeadsOf, Packets
<1>19. Good(node, port, first, inside, total, measured, retired, ok)
  BY <1>1, <1>16, <1>17, <1>18 DEF Good
<1>20. CreditsGood(port, first, owed, back)
  <2>1. back \in [Nodes -> [Subnets -> VCs \cup {None}]]
    BY <1>1
  <2>2. ASSUME NEW n \in Nodes, NEW sub \in Subnets, NEW vc \in VCs PROVE CreditAt(port, first, owed, back, n, sub, vc)
    <3>1. port[n][sub].occupied[vc] = 0
      BY <1>5, <1>8
    <3>2. Len(first[n][sub][vc]) = 0
      BY <1>8 DEF E
    <3>3. Many(owed[n][sub], {vc}) = 0
      BY <1>8, ManyNone DEF E
    <3>4. back[n][sub] # vc
      BY <1>1, <1>8, NoneIsNone
    <3> QED
      BY <3>1, <3>2, <3>3, <3>4 DEF CreditAt
  <2> QED
    BY <1>12, <2>1, <2>2 DEF CreditsGood
<1>21. LoopGood(loop, simState, left, total)
  BY <1>1, <1>2 DEF LoopGood
<1> QED
  BY <1>1, <1>19, <1>20, <1>21 DEF Inv

(* The invariant holds. *)
LEMMA Holds ==
  ASSUME Orderly
  PROVE  Spec => []Inv
<1>1. Init => Inv
  BY InitGood
<1>2. Inv /\ [Next]_vars => Inv'
  BY NextKeeps, KeptNext
<1> QED
  BY <1>1, <1>2, PTL DEF Spec

-----------------------------------------------------------------------------
(* What the invariant says of the books.                                   *)
LEMMA FlitsAreCounted ==
  ASSUME Inv
  PROVE  FlitsCounted
<1> DEFINE V(n, s) == Range(inside[n][s]) \cup UNION {Range(first[n][s][vc]) : vc \in VCs}
           W(n, c) == {f \in Flits(node[n].queue[c].packet) : f[2] > node[n].queue[c].sent}
           Q(n) == {d \in Classes : node[n].queue[d] # None}
<1>1. (\A f : f \in total <=> Somewhere(node, first, inside, f)) /\ measured = {f \in total : f[1].record}
  BY DEF Inv, Good, World
<1>2. ASSUME NEW f PROVE f \in InNetwork <=> \E n \in Nodes : OnLine(first[n], f) \/ AtSink(inside[n], f)
  <2>1. \A n \in Nodes, s \in Subnets : f \in V(n, s) <=> f \in Range(inside[n][s]) \/ \E vc \in VCs : f \in Range(first[n][s][vc])
    OBVIOUS
  <2>2. InNetwork = UNION {V(n, s) : n \in Nodes, s \in Subnets}
    BY DEF InNetwork
  <2> HIDE DEF V
  <2>3. f \in InNetwork <=> \E n \in Nodes, s \in Subnets : f \in V(n, s)
    BY <2>2
  <2> QED
    BY <2>1, <2>3 DEF OnLine, AtSink
<1>3. ASSUME NEW n \in Nodes, NEW f PROVE f \in Queued(n) <=> AtSource(node[n], f)
  <2>1. Queued(n) = UNION {W(n, c) : c \in Q(n)}
    BY DEF Queued
  <2>2. \A c : f \in W(n, c) <=> f \in Flits(node[n].queue[c].packet) /\ f[2] > node[n].queue[c].sent
    OBVIOUS
  <2>3. \A c : c \in Q(n) <=> c \in Classes /\ node[n].queue[c] # None
    OBVIOUS
  <2> HIDE DEF W, Q
  <2>4. f \in Queued(n) <=> \E c \in Q(n) : f \in W(n, c)
    BY <2>1
  <2> QED
    BY <2>2, <2>3, <2>4 DEF AtSource
<1>4. ASSUME NEW f PROVE f \in total <=> f \in InNetwork \cup UNION {Queued(n) : n \in Nodes}
  <2>1. f \in UNION {Queued(n) : n \in Nodes} <=> \E n \in Nodes : f \in Queued(n)
    OBVIOUS
  <2> QED
    BY <1>1, <1>2, <1>3, <2>1 DEF Somewhere
<1> QED
  BY <1>1, <1>4 DEF FlitsCounted

(* The slots taken are the flits in them and the credits for them. *)
LEMMA CreditsAreCounted ==
  ASSUME Inv
  PROVE  CreditsCounted
<1> SUFFICES ASSUME NEW n \in Nodes, NEW s \in Subnets, NEW vc \in VCs
             PROVE  port[n][s].occupied[vc] = Len(first[n][s][vc])
                                              + Cardinality({i \in DOMAIN owed[n][s] : owed[n][s][i] = vc})
                                              + (IF back[n][s] = vc THEN 1 ELSE 0)
  BY DEF CreditsCounted
<1>1. CreditAt(port, first, owed, back, n, s, vc)
  BY DEF Inv, CreditsGood
<1>2. Many(owed[n][s], {vc}) = Cardinality({i \in DOMAIN owed[n][s] : owed[n][s][i] = vc})
  <2>1. Where(owed[n][s], {vc}) = {i \in DOMAIN owed[n][s] : owed[n][s][i] = vc}
    BY DEF Where
  <2> QED
    BY <2>1 DEF Many
<1> QED
  BY <1>1, <1>2 DEF CreditAt

(* A VC in use has one packet, and no other VC has any. *)
LEMMA VCsAreHeld ==
  ASSUME Inv
  PROVE  VCsHeld
<1> SUFFICES ASSUME NEW n \in Nodes, NEW s \in Subnets, NEW vc \in VCs
             PROVE  Cardinality({c \in Classes : LET q == node[n].queue[c] IN
                                   q # None /\ q.sent > 0 /\ q.packet.subnet = s /\ q.vc = vc})
                      = IF port[n][s].inUse[vc] THEN 1 ELSE 0
  BY DEF VCsHeld
<1> DEFINE H == {c \in Classes : Partly(node[n], c, s, vc)}
<1>1. SourceGood(n, node[n], port[n], first[n])
  BY DEF Inv, Good, World
<1>2. {c \in Classes : LET q == node[n].queue[c] IN q # None /\ q.sent > 0 /\ q.packet.subnet = s /\ q.vc = vc} = H
  BY DEF Partly
<1>3. Cardinality(H) = IF port[n][s].inUse[vc] THEN 1 ELSE 0
  <2>1. CASE port[n][s].inUse[vc]
    <3>1. PICK c \in Classes : Partly(node[n], c, s, vc)
      BY <1>1, <2>1 DEF SourceGood, UseHeld
    <3>2. \A d \in H : d = c
      BY <1>1, <3>1 DEF SourceGood, OneHolder
    <3>3. H = {c}
      BY <3>1, <3>2
    <3> HIDE DEF H
    <3> QED
      BY <2>1, <3>3, FS_Singleton
  <2>2. CASE ~port[n][s].inUse[vc]
    <3>1. ASSUME NEW c \in H PROVE FALSE
      <4>1. QueueGood(n, node[n], port[n]) /\ Partly(node[n], c, s, vc) /\ c \in Classes
        BY <1>1 DEF SourceGood
      <4> HIDE DEF H
      <4> DEFINE q == node[n].queue[c]
      <4>2. q # None /\ q.sent > 0 /\ q.packet.subnet = s /\ q.vc = vc
        BY <4>1, Zenon DEF Partly
      <4>3. q.sent > 0 => port[n][q.packet.subnet].inUse[q.vc]
        BY <4>1, <4>2, Zenon DEF QueueGood
      <4> HIDE DEF q
      <4> QED
        BY <2>2, <4>2, <4>3
    <3>2. H = {}
      BY <3>1
    <3> HIDE DEF H
    <3> QED
      BY <2>2, <3>2, FS_EmptySet
  <2> QED
    BY <2>1, <2>2
<1> HIDE DEF H
<1> QED
  BY <1>2, <1>3

(* The requests that are counted are those in flight, with their replies, and those that wait. *)
LEMMA RequestsAreCounted ==
  ASSUME Inv
  PROVE  RequestsCounted
<1> SUFFICES ASSUME config.batch > 0, NEW n \in Nodes
             PROVE  node[n].requests =
                      Cardinality({p \in Packets(total) : IF p.type \in Replies THEN p.dest = n ELSE p.src = n})
                      + SumFunction([m \in Nodes |-> Cardinality({i \in DOMAIN node[m].pending : node[m].pending[i].source = n})])
  BY DEF RequestsCounted
<1> DEFINE h == [m \in Nodes |-> Cardinality({i \in DOMAIN node[m].pending : node[m].pending[i].source = n})]
<1>1. config \in Configs /\ Requested(node, total) /\ node \in [Nodes -> SourceType]
  BY DEF Inv, Good, World
<1>2. node[n].requests = Cardinality(Unanswered(total, n)) + Sum(Asked(node, n), Nodes)
  <2>1. config.batch # 0
    BY <1>1, Sizes
  <2> QED
    BY <1>1, <2>1 DEF Requested
<1>3. Unanswered(total, n) = {p \in Packets(total) : IF p.type \in Replies THEN p.dest = n ELSE p.src = n}
  BY DEF Unanswered
<1>4. Asked(node, n) = h
  <2>1. ASSUME NEW m \in Nodes
        PROVE  Many(node[m].pending, RepliesTo(n)) = Cardinality({i \in DOMAIN node[m].pending : node[m].pending[i].source = n})
    <3>1. node[m].pending \in Seq(Reply)
      BY <1>1 DEF SourceType
    <3> DEFINE q == node[m].pending
    <3>2. \A i \in DOMAIN q : q[i] \in Reply
      BY <3>1
    <3> HIDE DEF q
    <3>3. Where(q, RepliesTo(n)) = {i \in DOMAIN q : q[i].source = n}
      BY <3>2 DEF Where, RepliesTo
    <3> QED
      BY <3>3 DEF Many, q
  <2> QED
    BY <2>1 DEF Asked
<1>5. Sum(Asked(node, n), Nodes) = SumFunction(h)
  <2>1. DOMAIN h = Nodes
    OBVIOUS
  <2> HIDE DEF h
  <2> QED
    BY <1>4, <2>1 DEF Sum, SumFunction
<1> QED
  BY <1>2, <1>3, <1>5

(* The types, which a reader of the state sees. *)
LEMMA TypesHold ==
  ASSUME Inv
  PROVE  TypeOK
<1>1. /\ config \in Configs /\ node \in [Nodes -> SourceType] /\ port \in [Nodes -> [Subnets -> PortType]]
      /\ total \subseteq FlitType /\ IsFiniteSet(total) /\ measured = {f \in total : f[1].record} /\ retired = HeadsOf(total)
      /\ Requested(node, total)
      /\ LoopGood(loop, simState, left, total)
  BY DEF Inv, Good, World
<1>2. Packets(total) \subseteq PacketType /\ measured \subseteq total /\ retired \subseteq PacketType
  <2>1. \A f \in total : f[1] \in PacketType
    BY <1>1 DEF FlitType
  <2>2. Packets(total) \subseteq PacketType
    BY <2>1 DEF Packets
  <2> QED
    BY <1>1, <2>2 DEF HeadsOf
<1>3. /\ simState \in {"warming_up", "running", "draining"}
      /\ loop \in {"sample", "drain", "batch", "receive", "empty", "credits", "done"}
      /\ left.sims \in 0 .. config.sims /\ left.batches \in 0 .. config.batches
  BY <1>1 DEF LoopGood
<1>4. ASSUME NEW n \in Nodes, NEW c \in Classes
      PROVE  /\ node[n].behind[c] \in -1 .. MaxBehind /\ node[n].drained[c] \in BOOLEAN
             /\ node[n].queue[c] = None \/ node[n].queue[c] \in [packet : PacketType, sent : Nat, vc : VCs \cup {None}]
  <2>1. node[n] \in SourceType
    BY <1>1
  <2> QED
    BY <2>1 DEF SourceType, Queueing
<1>5. ASSUME NEW n \in Nodes PROVE node[n].requests \in Nat /\ node[n].seq \in 0 .. config.batch
  <2>1. node[n] \in SourceType
    BY <1>1
  <2>2. Cardinality(Unanswered(total, n)) \in Nat /\ Sum(Asked(node, n), Nodes) \in Nat
    BY <1>1, UnansweredFinite, AskedType
  <2>3. node[n].requests = IF config.batch = 0 THEN 0 ELSE Cardinality(Unanswered(total, n)) + Sum(Asked(node, n), Nodes)
    BY <1>1 DEF Requested
  <2> DEFINE u == Cardinality(Unanswered(total, n))
             a == Sum(Asked(node, n), Nodes)
             r == node[n].requests
  <2>4. r \in Nat
    <3> HIDE DEF u, a, r
    <3> QED
      BY <2>2, <2>3 DEF u, a, r
  <2> QED
    BY <2>1, <2>4 DEF SourceType
<1>6. ASSUME NEW n \in Nodes, NEW s \in Subnets
      PROVE  /\ port[n][s].occupied \in [VCs -> 0 .. config.room] /\ port[n][s].inUse \in [VCs -> BOOLEAN]
             /\ port[n][s].lastVC \in [Classes -> VCs \cup {None}] /\ port[n][s].lastClass \in Classes
  <2>1. port[n][s] \in PortType
    BY <1>1
  <2> QED
    BY <2>1 DEF PortType
<1> QED
  BY <1>2, <1>3, <1>4, <1>5, <1>6 DEF TypeOK

(* A simulation ends in the loop that waits for the credits. *)
LEMMA EndsOnCredits ==
  ASSUME Inv, [Next]_vars, left'.sims # left.sims
  PROVE  loop = "credits" /\ ~CreditsOutstanding
<1>1. left \in [sims : 0 .. config.sims, batches : 0 .. config.batches]
  BY DEF Inv, LoopGood
<1>2. left' # left
  OBVIOUS
<1>3. LeaveLoop
  <2>1. ~Step
    BY <1>2, Zenon DEF Step
  <2>2. \A n \in Nodes, s \in Subnets : ~Return(n, s) /\ \A vc \in VCs : ~Move(n, s, vc)
    <3>1. ASSUME NEW n \in Nodes, NEW s \in Subnets, Return(n, s) PROVE FALSE
      BY <1>2, <3>1 DEF Return
    <3>2. ASSUME NEW n \in Nodes, NEW s \in Subnets, NEW vc \in VCs, Move(n, s, vc) PROVE FALSE
      <4>1. UNCHANGED <<config, sources, parity, simState, loop, left, back>>
        BY <3>2, Zenon DEF Move
      <4> QED
        BY <1>2, <4>1
    <3> QED
      BY <3>1, <3>2
  <2>3. ~WarmedUp /\ ~Converged /\ ~Unstable
    BY <1>2 DEF WarmedUp, Converged, Unstable
  <2>4. ~Ended /\ ~UNCHANGED vars
    BY <1>2 DEF Ended, vars
  <2> QED
    BY <2>1, <2>2, <2>3, <2>4 DEF Next
<1>4. CASE loop = "receive"
  <2>1. BatchReceived
    BY <1>3, <1>4 DEF LeaveLoop
  <2>2. left' = [left EXCEPT !.batches = @ - 1]
    BY <2>1 DEF BatchReceived
  <2>3. left'.sims = left.sims
    BY <1>1, <2>2
  <2> QED
    BY <2>3
<1>5. CASE loop \notin {"receive", "credits"}
  <2>1. UNCHANGED <<node, simState, left>>
    BY <1>3, <1>5 DEF LeaveLoop
  <2> QED
    BY <1>2, <2>1
<1>6. CASE loop = "credits"
  <2>1. ~GoesOn
    BY <1>3 DEF LeaveLoop
  <2>2. ~CreditsOutstanding
    BY <1>6, <2>1 DEF GoesOn
  <2> QED
    BY <1>6, <2>2
<1> QED
  BY <1>4, <1>5, <1>6

(* When all credits are back, all is at rest. *)
LEMMA RestAfterCredits ==
  ASSUME Inv, loop = "credits", ~CreditsOutstanding
  PROVE  AtRest
<1>1. /\ config \in Configs /\ World(node, port, first, inside, total)
      /\ measured = {f \in total : f[1].record} /\ retired = HeadsOf(total)
      /\ \A n \in Nodes, s \in Subnets, vc \in VCs : CreditAt(port, first, owed, back, n, s, vc)
      /\ total = {}
  BY DEF Inv, Good, CreditsGood, LoopGood
<1>2. measured = {} /\ retired = {}
  BY <1>1 DEF HeadsOf, Packets
<1>3. /\ \A n \in Nodes : SourceGood(n, node[n], port[n], first[n])
      /\ \A f : ~Somewhere(node, first, inside, f)
      /\ first \in [Nodes -> LineType]
  BY <1>1 DEF World
<1> SUFFICES ASSUME NEW n \in Nodes, NEW s \in Subnets, NEW vc \in VCs
             PROVE  port[n][s].occupied[vc] = 0 /\ ~port[n][s].inUse[vc]
  BY <1>1, <1>2 DEF AtRest
<1>4. port[n][s].occupied[vc] = 0
  <2> DEFINE q == first[n][s][vc]
  <2>1. q \in Seq(FlitType)
    BY <1>3 DEF LineType
  <2>2. Range(q) = {}
    BY <1>3 DEF Somewhere, OnLine
  <2>3. Len(q) = 0
    <3> HIDE DEF q
    <3>1. Len(q) \in Nat /\ DOMAIN q = 1 .. Len(q)
      BY <2>1
    <3>2. 1 \notin DOMAIN q
      BY <2>2 DEF Range
    <3> QED
      BY <3>1, <3>2
  <2>4. owed[n][s] = <<>> /\ back[n][s] = None
    BY DEF CreditsOutstanding
  <2>5. Many(owed[n][s], {vc}) = 0
    BY <2>4, ManyNone
  <2>6. (IF back[n][s] = vc THEN 1 ELSE 0) = 0
    BY <1>1, <2>4, NoneIsNone
  <2>7. CreditAt(port, first, owed, back, n, s, vc)
    BY <1>1
  <2> QED
    BY <2>3, <2>5, <2>6, <2>7 DEF CreditAt
<1>5. ASSUME port[n][s].inUse[vc] PROVE FALSE
  <2>1. PICK c \in Classes : Partly(node[n], c, s, vc)
    BY <1>3, <1>5 DEF SourceGood, UseHeld
  <2> DEFINE q == node[n].queue[c]
             f == <<q.packet, q.packet.size>>
  <2>2. node[n].queue[c] # None
    BY <2>1 DEF Partly
  <2>3. q \in Queueing
    BY <1>3, <2>2, Zenon DEF SourceGood, SourceType
  <2>4. q.sent < q.packet.size
    BY <1>3, <2>2, Zenon DEF SourceGood, QueueGood
  <2>5. q.packet \in PacketType /\ q.packet.size \in Nat \ {0} /\ q.sent \in Nat
    BY <2>3 DEF Queueing, PacketType
  <2>6. f \in Flits(q.packet) /\ f[2] > q.sent
    <3>1. q.packet.size \in 1 .. q.packet.size
      BY <2>5
    <3>2. f[2] = q.packet.size
      OBVIOUS
    <3> QED
      BY <2>4, <2>5, <3>1, <3>2, Zenon DEF Flits
  <2>7. AtSource(node[n], f)
    BY <2>2, <2>6 DEF AtSource
  <2> HIDE DEF f
  <2>8. Somewhere(node, first, inside, f)
    BY <2>7 DEF Somewhere
  <2> QED
    BY <1>3, <2>8
<1> QED
  BY <1>4, <1>5

-----------------------------------------------------------------------------
(* trafficmanager.cpp: the state keeps its shape, and no source sends a    *)
(* flit to a buffer without a slot for it, whatever the sizes of the       *)
(* network, the packets and the buffers and whatever its delays.           *)
THEOREM TrafficTypes ==
  ASSUME Orderly
  PROVE  Spec => []TypeOK
<1>1. Inv => TypeOK
  BY TypesHold
<1>2. Spec => []Inv
  BY Holds
<1> QED
  BY <1>1, <1>2, PTL

(* trafficmanager.cpp: the tables of flits in flight, the credits, the VCs *)
(* in use, the heads that are kept and the requests that are counted agree *)
(* with the network in every state, and no assertion of _Step or of        *)
(* _RetireFlit fails.                                                      *)
THEOREM TrafficBooks ==
  ASSUME Orderly
  PROVE  Spec => []BooksAgree
<1>1. Inv => BooksAgree
  <2> SUFFICES ASSUME Inv PROVE BooksAgree
    OBVIOUS
  <2>1. ok = TRUE /\ retired = HeadsOf(total)
    BY DEF Inv, Good
  <2>2. HeadsKept
    BY <2>1 DEF HeadsKept, HeadsOf
  <2> QED
    BY <2>1, <2>2, FlitsAreCounted, CreditsAreCounted, VCsAreHeld, RequestsAreCounted DEF BooksAgree
<1>2. Spec => []Inv
  BY Holds
<1> QED
  BY <1>1, <1>2, PTL

(* trafficmanager.cpp Run: when a simulation ends nothing is in flight, no *)
(* slot is taken and no VC is in use.                                      *)
THEOREM TrafficStartsClean ==
  ASSUME Orderly
  PROVE  Spec => StartsClean
<1>1. Inv /\ [Next]_vars => [left'.sims # left.sims => AtRest]_vars
  BY EndsOnCredits, RestAfterCredits
<1>2. Spec => []Inv
  BY Holds
<1> QED
  BY <1>1, <1>2, PTL DEF Spec, StartsClean
=============================================================================
