------------------------------- MODULE Bridge -------------------------------
(***************************************************************************)
(* The design under test talks to the simulator over a socket: the clocked *)
(* process of rtl_interface.sv, through the functions of                   *)
(* booksim_interface.cpp, sends requests and waits for each answer;        *)
(* FeS2TrafficManager::_Step stops in FeS2Interface::Step to serve them    *)
(* until it gets a step request, and then simulates one network cycle.     *)
(* A request blocks its sender, so the exchange of one request and its     *)
(* answer is a single step here; what the server does between a step       *)
(* request and the next call of FeS2Interface::Step are steps of its own.  *)
(*                                                                         *)
(* The design is any one that keeps to the credits it gets, and the        *)
(* network any one that keeps to the credits it gives: they are external.  *)
(* The bridge serves subnetwork 0 and class 0 (queueFlit), the policy of   *)
(* the injection buffers is "private" and wait_for_tail_credit is 0, as in *)
(* both noc_config files.                                                  *)
(***************************************************************************)
EXTENDS Integers, Sequences, FiniteSetsExt, Functions

CONSTANTS NumNodes, NumVCs,
          VcBufSize,      \* vc_buf_size: slots per VC, at both ends
          Speedup,        \* CLOCK_SPEEDUP: network cycles per clock cycle
          DestTableSize,  \* 2^5: dest_table holds 5 bits per port
          Traffic,        \* pairs <<source, destination>> the design sends between
          CreditWidth,    \* credits the design returns per port and clock cycle
          MayQuit,        \* whether the design may end the simulation
          MaxFlits,       \* bound: flits sent in a behaviour
          None

Node == 0 .. NumNodes - 1
VC == 0 .. NumVCs - 1

ASSUME BridgeAssumption ==
  /\ NumNodes \in Nat \ {0} /\ NumVCs \in 1..4 /\ VcBufSize \in Nat \ {0}
  /\ Speedup \in Nat \ {0} /\ DestTableSize \in Nat \ {0} /\ CreditWidth \in 1..NumVCs
  /\ MayQuit \in BOOLEAN /\ MaxFlits \in Nat /\ Traffic \subseteq Node \X Node

(* A loop over the ports visits those of S in ascending order: Place says  *)
(* when it comes to a port, Ascending in which order it visits them.       *)
Place(S, n) == Cardinality({m \in S : m <= n})
Ascending(S) == [k \in 1 .. Cardinality(S) |-> CHOOSE n \in S : Place(S, n) = k]

VARIABLES
  \* the design under test
  sending,     \* the packet each port is in the middle of, [vc, dest], or None
  credits,     \* the slots it may still use at each port and VC
  held,        \* flits in its own receive buffers
  received,    \* the flits presented to it at each port (o_flit_out), in order
  \* rtl_interface.sv
  sent,        \* every flit queued; a flit's f_id is its position
  nextPid,     \* next_p_id
  pId,         \* p_id
  destTable,   \* dest_table
  dataSet,     \* data_set, its valid entries
  \* FeS2Interface
  requestBuf,  \* _request_buffer_flit
  replyBuf,    \* _reply_buffer_flit
  origDest,    \* _original_destinations
  nocToRtl,    \* _credits_from_noc_to_rtl, the pairs that are set
  rtlToNoc,    \* _credits_from_rtl_to_noc
  \* FeS2TrafficManager
  inFlight,    \* _total_in_flight_flits
  partial,     \* _partial_packets
  packetVc,    \* _current_packet_vc
  occ, inUse,  \* _buf_states: OccupancyFor and ~IsAvailableFor
  prevOcc,     \* _buffer_occupancy
  flits,       \* the flits _Step reads and retires in the same network cycle
  \* the network
  entry,       \* first router's input buffers, their channels included
  inner,       \* flits further on, by source and VC
  owner,       \* the packet that holds each ejection VC, or None
  ejOcc,       \* the last router's BufferState of each ejection port
  creditSlot,  \* _eject_cred[n]->_input: the VCs of the one credit it holds
  \* control
  clock,       \* where the clocked process stands
  stepsLeft,   \* step requests left in nextCycle
  phase,       \* where _Step stands
  quit,        \* _sim_state = done
  failed       \* the assertion that failed, or None

design == <<sending, credits, held, received>>
wrapper == <<sent, nextPid, pId, destTable, dataSet>>
interface == <<requestBuf, replyBuf, origDest, nocToRtl, rtlToNoc>>
manager == <<inFlight, partial, packetVc, occ, inUse, prevOcc, flits>>
network == <<entry, inner, owner, ejOcc, creditSlot>>
control == <<clock, stepsLeft, phase, quit, failed>>
vars == <<design, wrapper, interface, manager, network, control>>

PerVC(x) == [n \in Node |-> [v \in VC |-> x]]
PerNode(x) == [n \in Node |-> x]
One(b) == IF b THEN 1 ELSE 0

(* A map that has the entries of f, and those of g for the keys f lacks. *)
Over(f, g) == [x \in DOMAIN f \cup DOMAIN g |-> IF x \in DOMAIN f THEN f[x] ELSE g[x]]

Init ==
  /\ sending = PerNode(None) /\ credits = PerVC(VcBufSize)
  /\ held = PerVC(0) /\ received = PerNode(<<>>)
  /\ sent = <<>> /\ nextPid = 0 /\ pId = PerNode(0)
  /\ destTable = PerNode(0) /\ dataSet = {}
  /\ requestBuf = PerNode(<<>>) /\ replyBuf = <<>> /\ origDest = <<>>
  /\ nocToRtl = {} /\ rtlToNoc = {}
  /\ inFlight = {} /\ partial = PerNode(<<>>) /\ packetVc = <<>>
  /\ occ = PerVC(0) /\ inUse = PerVC(FALSE) /\ prevOcc = PerVC(0)
  /\ flits = PerNode(None)
  /\ entry = PerVC(<<>>) /\ inner = PerVC(<<>>) /\ owner = PerVC(None)
  /\ ejOcc = PerVC(0) /\ creditSlot = PerNode({})
  /\ clock = "inject" /\ stepsLeft = 0 /\ phase = "serve"
  /\ quit = FALSE /\ failed = None

-----------------------------------------------------------------------------
(* The clocked process, one action per part of its body.  Each of them     *)
(* exchanges messages with a server that waits in FeS2Interface::Step.     *)

Serving == phase = "serve" /\ ~quit /\ failed = None

(* A flit word: its valid bit is set.  Only a head flit names a port.      *)
Word == [head : BOOLEAN, tail : BOOLEAN, vc : VC, dest : Node]

(* The assertions of the code that guard what is modelled here. *)
Assertions == {"EnqueueCreditFromRtl", "EnqueueCreditFromNoc", "IsAvailableFor", "IsFullFor",
               "_current_packet_vc", "_total_in_flight_flits", "_original_destinations"}

(* None is none of the things it stands in for. *)
ASSUME NoneAssumption ==
  None \notin Nat \cup Word \cup [vc : VC, dest : Node] \cup Assertions

(* The design sends whole packets, one after the other at each port, and   *)
(* has a credit for every flit.  The VC bits of a body flit are not its    *)
(* packet's business and may hold anything.                                *)
MaySend(n, w) ==
  IF sending[n] = None THEN w.head /\ <<n, w.dest>> \in Traffic /\ credits[n][w.vc] > 0
                       ELSE ~w.head /\ w.dest = 0 /\ credits[n][sending[n].vc] > 0

(* queueFlit and inject: the flits of one clock cycle in port order, each  *)
(* an INJECT_REQ_FLIT; FeS2Interface enqueues it and notes its packet's    *)
(* destination.  words[n] is the word at port n, or None.                  *)
Active(words) == {n \in Node : words[n] # None}
Heads(words) == {n \in Active(words) : words[n].head}

PidOf(words, n) == IF n \in Heads(words)
                   THEN nextPid + Cardinality({m \in Heads(words) : m < n}) ELSE pId[n]
DestOf(words, n) == IF n \in Heads(words) THEN words[n].dest ELSE destTable[n]
VcOf(words, n) == IF n \in Heads(words) THEN words[n].vc ELSE sending[n].vc
IdOf(words, n) == Len(sent) + Place(Active(words), n)
FlitOf(words, n) ==
  [src |-> n, dest |-> DestOf(words, n), pid |-> PidOf(words, n), vc |-> VcOf(words, n),
   word |-> words[n].vc, head |-> words[n].head, tail |-> words[n].tail]

Inject(words) ==
  LET active == Active(words)
      ports == Ascending(active)
  IN  /\ sent' = sent \o [k \in DOMAIN ports |-> FlitOf(words, ports[k])]
      /\ nextPid' = nextPid + Cardinality(Heads(words))
      /\ pId' = [n \in Node |-> PidOf(words, n)]
      /\ destTable' = [n \in Node |-> IF n \in Heads(words) THEN words[n].dest % DestTableSize
                                                            ELSE destTable[n]]
      /\ dataSet' = dataSet \cup {[fid |-> IdOf(words, n), dest |-> DestOf(words, n)] : n \in active}
      /\ requestBuf' = [n \in Node |-> IF n \in active THEN Append(requestBuf[n], IdOf(words, n))
                                                       ELSE requestBuf[n]]
      /\ origDest' = Over([p \in {PidOf(words, n) : n \in active} |->
                             DestOf(words, CHOOSE n \in active : PidOf(words, n) = p)], origDest)
      /\ sending' = [n \in Node |->
            IF n \notin active THEN sending[n]
            ELSE IF words[n].tail THEN None
            ELSE IF words[n].head THEN [vc |-> words[n].vc, dest |-> words[n].dest] ELSE sending[n]]
      /\ credits' = [n \in Node |-> [v \in VC |->
            IF n \in active /\ VcOf(words, n) = v THEN credits[n][v] - 1 ELSE credits[n][v]]]

ClockInject(words) ==
  /\ Serving /\ clock = "inject" /\ clock' = "return"
  /\ \A n \in Node : words[n] # None => MaySend(n, words[n])
  /\ Inject(words)
  /\ Len(sent') + Cardinality({n \in Node : sending'[n] # None}) <= MaxFlits
  /\ UNCHANGED <<held, received, replyBuf, nocToRtl, rtlToNoc, manager, network,
                 stepsLeft, phase, quit, failed>>

(* send_credit: the design frees slots of its receive buffers, at most     *)
(* CreditWidth at a port; a CREDITS_DOWN_REQ for each VC of each port.     *)
(* EnqueueCreditFromRtl asserts that the last one has been read.           *)
ClockReturn(freed) ==
  /\ Serving /\ clock = "return" /\ clock' = "receive"
  /\ \A c \in freed : held[c[1]][c[2]] > 0
  /\ \A n \in Node : Cardinality({c \in freed : c[1] = n}) <= CreditWidth
  /\ held' = [n \in Node |-> [v \in VC |->
                IF <<n, v>> \in freed THEN held[n][v] - 1 ELSE held[n][v]]]
  /\ rtlToNoc' = rtlToNoc \cup freed
  /\ failed' = IF rtlToNoc = {} THEN None ELSE "EnqueueCreditFromRtl"
  /\ UNCHANGED <<sending, credits, received, wrapper, requestBuf, replyBuf, origDest,
                 nocToRtl, manager, network, stepsLeft, phase, quit>>

PortOfSource(reply) == sent[reply.fid].src  \* mutant: the port it was sent from

(* The port of a flit that comes back, from its entry in data_set. *)
PortOf(reply) == (CHOOSE e \in dataSet : e.fid = reply.fid).dest

(* receive_credit: a CREDITS_UP_REQ for each VC of each port empties       *)
(* _credits_from_noc_to_rtl (DequeueCreditFromNoc).  Then eject:           *)
(* EJECT_REQ_FLITs until no flit remains; a port's output register keeps   *)
(* the last flit assigned to it.  The port comes from data_set, the VC     *)
(* from the answer, and the entry of data_set becomes invalid.             *)
ClockReceive ==
  LET out(n) == {k \in DOMAIN replyBuf : PortOf(replyBuf[k]) = n}
      present(n) == replyBuf[Max(out(n))]
  IN  /\ Serving /\ clock = "receive" /\ clock' = "step"
      /\ credits' = [n \in Node |-> [v \in VC |->
            IF <<n, v>> \in nocToRtl THEN credits[n][v] + 1 ELSE credits[n][v]]]
      /\ nocToRtl' = {}
      /\ replyBuf' = <<>>
      /\ dataSet' = {e \in dataSet : \A i \in DOMAIN replyBuf : replyBuf[i].fid # e.fid}
      /\ received' = [n \in Node |-> IF out(n) = {} THEN received[n]
                                     ELSE Append(received[n], present(n).fid)]
      /\ held' = [n \in Node |-> [v \in VC |->
            IF out(n) # {} /\ present(n).vc = v THEN held[n][v] + 1 ELSE held[n][v]]]
      /\ stepsLeft' = Speedup
      /\ UNCHANGED <<sending, sent, nextPid, pId, destTable, requestBuf, origDest,
                     rtlToNoc, manager, network, phase, quit, failed>>

(* nextCycle: one STEP_REQ, answered before the network cycle it starts.   *)
ClockStep ==
  /\ Serving /\ clock = "step"
  /\ stepsLeft' = stepsLeft - 1
  /\ clock' = IF stepsLeft = 1 THEN "inject" ELSE "step"
  /\ phase' = "work"
  /\ UNCHANGED <<design, wrapper, interface, manager, network, quit, failed>>

(* exitSocket, at the end of the simulation.  The server leaves            *)
(* FeS2Interface::Step for good, and goes on until its sample period is    *)
(* over and then until the network is empty.                               *)
ClockQuit ==
  /\ MayQuit /\ Serving /\ clock = "inject"
  /\ quit' = TRUE /\ phase' = "work"
  /\ UNCHANGED <<design, wrapper, interface, manager, network, clock, stepsLeft, failed>>

-----------------------------------------------------------------------------
(* FeS2TrafficManager::_Step, from the return of FeS2Interface::Step on.   *)

(* _Inject: the requests of each port join its partial packets. *)
Queued == [n \in Node |-> partial[n] \o requestBuf[n]]

(* The VC of the flit at the front: a head flit has the one the design     *)
(* chose, the others the one their packet was injected with.               *)
Foremost(n) == sent[Head(Queued[n])]
ForemostVc(n) == IF Foremost(n).head \/ Foremost(n).pid \notin DOMAIN packetVc
              THEN Foremost(n).word ELSE packetVc[Foremost(n).pid]

IsFullFor(n, v) == occ[n][v] >= VcBufSize

(* The ports at which a flit enters the network in this cycle. *)
Entering == {n \in Node : Queued[n] # <<>> /\ ~IsFullFor(n, ForemostVc(n))}

FreedIfLess(next) ==  \* mutant: the flit that came in is forgotten
  {c \in Node \X VC : next[c[1]][c[2]] < prevOcc[c[1]][c[2]]}
FreedUnlessMore(next) ==  \* mutant: the same occupancy is enough
  {c \in Node \X VC : next[c[1]][c[2]] <= prevOcc[c[1]][c[2]]}

(* A credit is owed to the design for each VC that has got a slot back:    *)
(* its occupancy is less than before, or the same although a flit came in. *)
Freed(next) == {c \in Node \X VC :
  \/ next[c[1]][c[2]] < prevOcc[c[1]][c[2]]
  \/ c[1] \in Entering /\ ForemostVc(c[1]) = c[2] /\ next[c[1]][c[2]] = prevOcc[c[1]][c[2]]}

ReturnedOnEject(n) ==  \* mutant: only in cycles in which a flit leaves at n
  {v \in VC : <<n, v>> \in rtlToNoc /\ flits[n] # None}

(* The credits the design has returned at port n since the last cycle. *)
Returned(n) == {v \in VC : <<n, v>> \in rtlToNoc}

(* The ports whose flit is retired, and the packets that are complete. *)
Retiring == {n \in Node : flits[n] # None}
FinishedEach == {sent[flits[n]].pid : n \in Retiring}  \* mutant: any flit ends it
Finished == {sent[flits[n]].pid : n \in {m \in Retiring : sent[flits[m]].tail}}

(* The assertions of the injection loop, EnqueueCreditFromNoc, _RetireFlit *)
(* and EnqueueFeS2ReplyFlit, in the order they come up.                    *)
FailedAssertion(freed) ==
  IF \E n \in Node : Queued[n] # <<>> /\ Foremost(n).head /\ inUse[n][ForemostVc(n)]
  THEN "IsAvailableFor"
  ELSE IF \E n \in Node : Queued[n] # <<>> /\ Foremost(n).head /\ IsFullFor(n, ForemostVc(n))
  THEN "IsFullFor"
  ELSE IF \E n \in Node : Queued[n] # <<>> /\ ~Foremost(n).head
                          /\ Foremost(n).pid \notin DOMAIN packetVc
  THEN "_current_packet_vc"
  ELSE IF nocToRtl \cap freed # {} THEN "EnqueueCreditFromNoc"
  ELSE IF \E n \in Retiring : flits[n] \notin inFlight \cup UNION {Range(requestBuf[m]) : m \in Node}
  THEN "_total_in_flight_flits"
  ELSE IF \E n \in Retiring : sent[flits[n]].pid \notin DOMAIN origDest
  THEN "_original_destinations"
  ELSE None

(* One flit per port enters the network, the credits are exchanged, and    *)
(* the flits read earlier in this network cycle are retired.  The credit   *)
(* written for one VC replaces the credit written for another VC of the    *)
(* same port: Network::WriteCredit sends on a channel of one slot.         *)
Enters(n, v) == n \in Entering /\ ForemostVc(n) = v
NextOcc == [n \in Node |-> [v \in VC |-> IF Enters(n, v) THEN occ[n][v] + 1 ELSE occ[n][v]]]
Reply(n) == [fid |-> flits[n], vc |-> packetVc[sent[flits[n]].pid]]

Work ==
  LET freed == Freed(NextOcc)
      ports == Ascending(Retiring)
  IN  /\ phase = "work" /\ failed = None
      /\ failed' = FailedAssertion(freed)
      /\ partial' = [n \in Node |-> IF n \in Entering THEN Tail(Queued[n]) ELSE Queued[n]]
      /\ requestBuf' = PerNode(<<>>)
      /\ inFlight' = (inFlight \cup UNION {Range(requestBuf[n]) : n \in Node})
                        \ {flits[n] : n \in Retiring}
      /\ packetVc' = Over(packetVc, [p \in {Foremost(n).pid : n \in Entering} |->
                       ForemostVc(CHOOSE n \in Entering : Foremost(n).pid = p)])
      /\ occ' = NextOcc
      /\ inUse' = [n \in Node |-> [v \in VC |->
                     IF Enters(n, v) THEN ~Foremost(n).tail ELSE inUse[n][v]]]
      /\ entry' = [n \in Node |-> [v \in VC |->
                     IF Enters(n, v) THEN Append(entry[n][v], Head(Queued[n])) ELSE entry[n][v]]]
      /\ prevOcc' = NextOcc
      /\ nocToRtl' = nocToRtl \cup freed
      /\ rtlToNoc' = {}
      /\ creditSlot' = [n \in Node |-> IF Returned(n) = {} THEN creditSlot[n]
                                                           ELSE {Max(Returned(n))}]
      /\ replyBuf' = replyBuf \o [k \in DOMAIN ports |-> Reply(ports[k])]
      /\ origDest' = [p \in DOMAIN origDest \ Finished |-> origDest[p]]
      /\ flits' = PerNode(None)
      /\ phase' = "read"
      /\ UNCHANGED <<design, wrapper, inner, owner, ejOcc, clock, stepsLeft, quit>>

(* The start of the next call of _Step.  The network is external: a router *)
(* takes at most one flit per input from its buffers and returns a credit  *)
(* for it; an ejection port gets at most one flit per cycle, of a packet   *)
(* that holds the VC there, if the design has a slot for it.  ReadFlit,    *)
(* ReadCredit and ProcessCredit take what comes; ReadInputs takes the      *)
(* credit in each _eject_cred.                                             *)

(* The port a flit is bound for: its packet's, as only heads name one. *)
BoundIn(s, i) == s[CHOOSE j \in 1..i : s[j].head /\ s[j].pid = s[i].pid].dest
Bound(i) == BoundIn(sent, i)

(* The flit at the far end of source n's VC v may leave the network. *)
CanEject(n, v) ==
  /\ inner[n][v] # <<>>
  /\ LET i == Head(inner[n][v])
         d == Bound(i)
     IN  /\ ejOcc[d][v] < VcBufSize
         /\ owner[d][v] = IF sent[i].head THEN None ELSE sent[i].pid

Leaving == {c \in Node \X VC : entry[c[1]][c[2]] # <<>>}
Ejectable == {c \in Node \X VC : CanEject(c[1], c[2])}

(* The flits that arrive: the one at the far end of source c[1]'s VC c[2]; *)
(* those that come out at port d, and of these those on VC v.              *)
At(c) == Head(inner[c[1]][c[2]])
Out(ejected, d) == {c \in ejected : Bound(At(c)) = d}
Got(ejected, d, v) == {c \in Out(ejected, d) : c[2] = v}
FlitAt(S) == At(CHOOSE c \in S : TRUE)

Read(moved, ejected) ==
  /\ phase = "read" /\ failed = None
  /\ moved \subseteq Leaving /\ ejected \subseteq Ejectable
  /\ \A c, e \in moved : c[1] = e[1] => c = e
  /\ \A c, e \in ejected : Bound(At(c)) = Bound(At(e)) => c = e
  /\ entry' = [n \in Node |-> [v \in VC |->
        IF <<n, v>> \in moved THEN Tail(entry[n][v]) ELSE entry[n][v]]]
  /\ inner' = [n \in Node |-> [v \in VC |->
        LET rest == IF <<n, v>> \in ejected THEN Tail(inner[n][v]) ELSE inner[n][v]
        IN  IF <<n, v>> \in moved THEN Append(rest, Head(entry[n][v])) ELSE rest]]
  /\ occ' = [n \in Node |-> [v \in VC |->
        IF <<n, v>> \in moved THEN occ[n][v] - 1 ELSE occ[n][v]]]
  /\ flits' = [d \in Node |-> IF Out(ejected, d) = {} THEN None ELSE FlitAt(Out(ejected, d))]
  /\ owner' = [d \in Node |-> [v \in VC |->
        LET got == Got(ejected, d, v)
        IN  IF got = {} THEN owner[d][v]
            ELSE IF sent[FlitAt(got)].tail THEN None ELSE sent[FlitAt(got)].pid]]
  /\ ejOcc' = [d \in Node |-> [v \in VC |->
        ejOcc[d][v] + One(Got(ejected, d, v) # {}) - One(v \in creditSlot[d])]]
  /\ creditSlot' = PerNode({})
  /\ phase' = IF quit THEN "work" ELSE "serve"
  /\ UNCHANGED <<design, wrapper, interface, inFlight, partial, packetVc, inUse, prevOcc,
                 clock, stepsLeft, quit, failed>>

Next == \/ \E words \in [Node -> Word \cup {None}] : ClockInject(words)
        \/ \E freed \in SUBSET (Node \X VC) : ClockReturn(freed)
        \/ ClockReceive
        \/ ClockStep
        \/ ClockQuit
        \/ Work
        \/ \E moved \in SUBSET Leaving, ejected \in SUBSET Ejectable : Read(moved, ejected)

(* The clock keeps running and the server keeps serving.  The network      *)
(* moves a flit that it could move again and again, and the design         *)
(* finishes the packets it begins and empties its receive buffers: these   *)
(* two are what a simulation needs of the parts that are external.         *)
Fairness ==
  /\ WF_vars(\E words \in [Node -> Word \cup {None}] : ClockInject(words))
  /\ WF_vars(\E freed \in SUBSET (Node \X VC) : ClockReturn(freed))
  /\ WF_vars(ClockReceive) /\ WF_vars(ClockStep) /\ WF_vars(Work)
  /\ WF_vars(\E moved \in SUBSET Leaving, ejected \in SUBSET Ejectable : Read(moved, ejected))
  /\ \A c \in Node \X VC :
       /\ SF_vars(\E moved \in SUBSET Leaving : c \in moved /\ Read(moved, {}))
       /\ SF_vars(\E ejected \in SUBSET Ejectable : c \in ejected /\ Read({}, ejected))
       /\ SF_vars(\E freed \in SUBSET (Node \X VC) : c \in freed /\ ClockReturn(freed))
  /\ \A n \in Node :
       SF_vars(\E words \in [Node -> Word \cup {None}] :
                 sending[n] # None /\ words[n] # None /\ words[n].tail /\ ClockInject(words))

Spec == Init /\ [][Next]_vars
FairSpec == Spec /\ Fairness
-----------------------------------------------------------------------------
TypeOK ==
  /\ sending \in [Node -> [vc : VC, dest : Node] \cup {None}]
  /\ credits \in [Node -> [VC -> 0..VcBufSize]] /\ held \in [Node -> [VC -> Nat]]
  /\ DOMAIN received = Node /\ \A n \in Node : Range(received[n]) \subseteq DOMAIN sent
  /\ \A i \in DOMAIN sent : sent[i] \in [src : Node, dest : Node, pid : Nat, vc : VC, word : VC,
                                         head : BOOLEAN, tail : BOOLEAN]
  /\ pId \in [Node -> Nat] /\ destTable \in [Node -> Node]
  /\ dataSet \subseteq [fid : DOMAIN sent, dest : Node]
  /\ nocToRtl \subseteq Node \X VC /\ rtlToNoc \subseteq Node \X VC
  /\ inFlight \subseteq DOMAIN sent
  /\ Range(origDest) \subseteq Node /\ Range(packetVc) \subseteq VC
  /\ occ \in [Node -> [VC -> 0..VcBufSize]] /\ inUse \in [Node -> [VC -> BOOLEAN]]
  /\ flits \in [Node -> DOMAIN sent \cup {None}]
  /\ ejOcc \in [Node -> [VC -> 0..VcBufSize]] /\ creditSlot \in [Node -> SUBSET VC]
  /\ clock \in {"inject", "return", "receive", "step"} /\ stepsLeft \in 0..Speedup
  /\ phase \in {"serve", "work", "read"} /\ quit \in BOOLEAN

(***************************************************************************)
(* No assertion on the bridge fails: a head flit finds its VC free and     *)
(* with room, a body flit finds its packet's VC recorded, a credit finds   *)
(* its place read, a retired flit is known (FeS2TrafficManager::_Step and  *)
(* _RetireFlit, FeS2Interface).                                            *)
(***************************************************************************)
NoAssertionFails == failed = None

(***************************************************************************)
(* The design's idea of the room in the network is right: the slots it may *)
(* use, those of flits still queued in the simulator, those occupied, and  *)
(* the credit not yet read make up the buffer (the comparison of           *)
(* occupancies at the end of the injection loop).                          *)
(***************************************************************************)
SenderCredits == \A n \in Node, v \in VC :
  credits[n][v] + Cardinality({i \in Range(Queued[n]) : sent[i].vc = v})
    + prevOcc[n][v] + One(<<n, v>> \in nocToRtl) = VcBufSize

(***************************************************************************)
(* Every credit the design returns reaches the router: what the router     *)
(* takes as occupied is a flit on its way to the design or in its buffers, *)
(* or a credit on its way back ("we only return a credit to the network if *)
(* we are actually sending one").                                          *)
(***************************************************************************)
EjectCredits == \A d \in Node, v \in VC :
  ejOcc[d][v] = One(flits[d] # None /\ sent[flits[d]].vc = v)
                + Cardinality({i \in DOMAIN replyBuf : Bound(replyBuf[i].fid) = d /\ replyBuf[i].vc = v})
                + held[d][v] + One(<<d, v>> \in rtlToNoc) + One(v \in creditSlot[d])

(***************************************************************************)
(* The bridge and the network implement the abstract service: every flit   *)
(* once, in order, at the port its packet is for.                          *)
(***************************************************************************)
Service == INSTANCE NocService WITH
             Ports <- Node,
             sent <- [i \in DOMAIN sent |-> [sent[i] EXCEPT !.dest = Bound(i)]]
ImplementsService == Service!Spec

(***************************************************************************)
(* "we must read the credits every cycle or this assertion fails": they    *)
(* are (FeS2Interface::EnqueueCreditFromNoc).                              *)
(***************************************************************************)
CreditsReadEveryCycle == failed # "EnqueueCreditFromNoc"

(***************************************************************************)
(* Every flit the design sends is presented at last, unless the design     *)
(* ends the simulation before: as a behaviour has at most MaxFlits flits,  *)
(* the bridge and the network are empty of them again and again.           *)
(***************************************************************************)
AllPresented == \A i \in DOMAIN sent : i \in Range(received[Bound(i)])
EveryFlitArrives == []<>(quit \/ AllPresented)
=============================================================================
