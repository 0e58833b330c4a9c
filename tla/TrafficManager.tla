---------------------------- MODULE TrafficManager ----------------------------
(***************************************************************************)
(* trafficmanager.cpp and batchtrafficmanager.cpp: the sources and sinks   *)
(* of the stand-alone simulator and the loops that step it through         *)
(* warm-up, measurement, drain and batches.  A Step is a call of _Step.    *)
(*                                                                         *)
(* The network is external: a first router with the buffers the sources    *)
(* count, a queue in front of every node, and delays of any length.        *)
(* A packet is a record; its flits are <<packet, i>>, i in 1 .. size.      *)
(* Statistics and the credits of the sinks are left out.                   *)
(*                                                                         *)
(* Of _time the parity is kept, which every Step changes.  What _qtime     *)
(* tells is how far a source is behind the start of the drain, `behind',   *)
(* -1 when it has passed it; before, a source that has fallen behind may   *)
(* be so by any amount.                                                    *)
(*                                                                         *)
(* Configs is a set of records: nodes, classes, subnets, vcs, room (slots  *)
(* of a VC), pri (of each class), hold (hold_switch_for_packet), rw (the   *)
(* classes with read and write packets), draws (the requests the coin may  *)
(* give them), dests (of a node's traffic), size, range and subnet (of a   *)
(* packet type: sizes that may be drawn, the VCs it may use, its subnet),  *)
(* latency (measure_latency), queuing (include_queuing), sims, and batch,  *)
(* batches and outstanding, with batch = 0 for a TrafficManager that makes *)
(* no batches.                                                             *)
(***************************************************************************)
EXTENDS Integers, Sequences, FiniteSetsExt, Functions

CONSTANTS Configs,
          None,
          MaxBehind,  \* bound: how far a source is behind when the drain begins
          MaxInside,  \* bound: flits in the queue before a node
          MaxPending  \* bound: requests that wait at a node, while it injects

Below(n) == 0 .. n - 1
Requests == {"read_request", "write_request"}
Replies == {"read_reply", "write_reply"}
Types == {"any"} \cup Requests \cup Replies

ASSUME ConfigsAssumption ==
  \A c \in Configs :
    /\ {c.nodes, c.classes, c.subnets, c.vcs, c.room, c.sims} \subseteq Nat \ {0}
    /\ c.pri \in [Below(c.classes) -> Int] /\ c.hold \in BOOLEAN
    /\ c.rw \subseteq Below(c.classes) /\ c.draws \subseteq Requests
    /\ c.dests \in [Below(c.nodes) -> SUBSET Below(c.nodes)]
    /\ \A type \in Types : /\ c.size[type] \subseteq Nat \ {0} /\ c.subnet[type] \in Below(c.subnets)
                           /\ c.range[type][1] \in Below(c.vcs)
                           /\ c.range[type][2] \in c.range[type][1] .. c.vcs - 1
    /\ c.batch \in Nat /\ c.batches \in Nat /\ (c.batch > 0 => c.batches > 0)
Packet == [src : Nat, cl : Nat, k : Nat, type : Types, dest : Nat, record : BOOLEAN, size : Nat \ {0}, subnet : Nat]
ASSUME NoneAssumption == None \notin Nat \cup [packet : Packet, sent : Nat, vc : Nat \cup {None}]
ASSUME BoundsAssumption == MaxBehind \in Nat

VARIABLES config,
          node,      \* the sources: queue, pending, requests, seq, behind, drained
          port,      \* their ports to a subnet: occupied, inUse, lastVC, lastClass
          total,     \* _total_in_flight_flits
          measured,  \* _measured_in_flight_flits
          retired,   \* _retired_packets: those whose head waits for the tail
          simState,  \* _sim_state
          parity,    \* of _time
          loop,      \* the loop of Run or _SingleSim that calls _Step
          left,      \* the simulations and batches that are left
          ok,        \* no assertion has failed
          first,     \* external: the flits of each VC of the first router
          inside,    \* external: the flits on their way to each node
          owed,      \* external: the credits on their way to each source
          back       \* external: the credit that has reached it
network == <<first, inside, owed, back>>
sources == <<node, port, total, measured, retired, ok>>
vars == <<config, sources, parity, simState, loop, left, network>>

Nodes == Below(config.nodes)
Classes == Below(config.classes)
Subnets == Below(config.subnets)
VCs == Below(config.vcs)

ReplyTo(type) == IF type = "read_request" THEN "read_reply" ELSE "write_reply"

Flits(packet) == {<<packet, i>> : i \in 1 .. packet.size}
Packets(flits) == {f[1] : f \in flits}
IsHead(f) == f[2] = 1
IsTail(f) == f[2] = f[1].size

-----------------------------------------------------------------------------
(* _IssuePacket and _GeneratePacket.  A source is a record of its state,   *)
(* `made' the packet made in this call or None, `asked' whether the        *)
(* injection process was asked, which takes _qtime forward.                *)
Wants(s) ==
  IF config.batch = 0 THEN BOOLEAN
  ELSE {s.seq < config.batch /\ (config.outstanding = 0 \/ s.requests < config.outstanding)}
Counted(s, request) ==
  IF config.batch = 0 THEN s
  ELSE [s EXCEPT !.seq = Min({@ + 1, config.batch}), !.requests = @ + IF request THEN 1 ELSE 0]

(* A packet's k tells it from those like it that are in flight.            *)
Fresh(packet) ==
  LET named(k) == [packet EXCEPT !.k = k]
  IN  named(Min({k \in 0 .. Cardinality(total) : named(k) \notin Packets(total)}))
NewPacket(n, c, type, dest, record) ==
  {Fresh([src |-> n, k |-> 0, cl |-> c, type |-> type, dest |-> dest, record |-> record, size |-> size, subnet |-> s]) :
     size \in config.size[type], s \in IF type = "any" THEN Subnets ELSE {config.subnet[type]}}

(* How far behind the drain a source is after it has made a packet: it may *)
(* have been refused at several times before.  The packet's own time is    *)
(* one before.                                                             *)
Later(behind) == IF simState # "draining" THEN {0} ELSE IF behind <= 0 THEN {-1} ELSE -1 .. behind - 1
Recorded(behind) ==
  simState = "running" \/ (simState = "draining" /\ config.queuing /\ behind >= 0)
RecordedReply(waiting) ==
  waiting.record \/ simState = "running" \/ (simState = "draining" /\ waiting.early)

Waiting(packet) == [packet |-> packet, sent |-> 0, vc |-> None]
MakeReply(n, c, s) ==
  LET waiting == Head(s.pending)
  IN  {[Counted(s, FALSE) EXCEPT !.pending = Tail(@), !.queue[c] = Waiting(p)] :
         p \in NewPacket(n, c, ReplyTo(waiting.type), waiting.source, RecordedReply(waiting))}
MakePacket(n, c, s) ==
  UNION {{[Counted(s, TRUE) EXCEPT !.behind[c] = x.behind, !.queue[c] = Waiting(p)] :
            p \in NewPacket(n, c, x.type, x.dest, Recorded(x.behind))} :
         x \in [behind : Later(s.behind[c]), type : IF c \in config.rw THEN config.draws ELSE {"any"},
                dest : config.dests[n]]}
CaughtUp(c, s) == [s EXCEPT !.behind[c] = IF simState = "draining" THEN -1 ELSE 0]

(* _Inject for a class of a node.  Nothing is made before the packet made  *)
(* last has left the queue; replies go before requests.                    *)
InjectClass(n, c, s) ==
  LET made == IF c \in config.rw /\ s.pending # <<>> THEN MakeReply(n, c, s)
              ELSE UNION {IF wants THEN MakePacket(n, c, s) ELSE {CaughtUp(c, s)} : wants \in Wants(s)}
  IN  IF s.queue[c] # None THEN {s}
      ELSE {[t EXCEPT !.drained[c] = @ \/ (simState = "draining" /\ t.behind[c] = -1)] : t \in made}
Inject(n) ==
  LET made[c \in 0 .. config.classes] ==
        IF c = 0 THEN {node[n]} ELSE UNION {InjectClass(n, c - 1, s) : s \in made[c - 1]}
  IN  IF loop \in {"empty", "credits"} THEN {node[n]} ELSE made[config.classes]

-----------------------------------------------------------------------------
(* The second loop of _Step for a source s and its port p to a subnet:     *)
(* which flit is sent.                                                     *)
IsFullForOneMore(p, vc) == p.occupied[vc] > config.room  \* mutant: one flit more
IsFullFor(p, vc) == p.occupied[vc] = config.room
FirstVC(p, c, type) ==
  LET range == config.range[type]
      count == range[2] - range[1] + 1
      at(i) == IF p.lastVC[c] \in range[1] .. range[2]
               THEN range[1] + ((p.lastVC[c] - range[1] + i) % count)
               ELSE range[1]
      usable == {i \in 1 .. count : ~p.inUse[at(i)] /\ ~IsFullFor(p, at(i))}
  IN  IF usable = {} THEN None ELSE at(Min(usable))

(* One class: its flit takes the place of one with a lower priority.  A    *)
(* head keeps the VC it has found even if it is not sent.                  *)
Try(sub, p, t, c) ==
  LET q == t.s.queue[c]
      vc == IF q.sent = 0 /\ q.vc = None THEN FirstVC(p, c, q.packet.type) ELSE q.vc
  IN  IF q = None THEN t
      ELSE IF q.packet.subnet # sub \/ (t.class # None /\ config.pri[t.class] >= config.pri[c]) THEN t
      ELSE [s |-> [t.s EXCEPT !.queue[c].vc = vc],
            class |-> IF vc # None /\ ~IsFullFor(p, vc) THEN c ELSE t.class]

(* A held connection goes first; then the classes after the last one.      *)
Held(s, p) ==
  LET q == s.queue[p.lastClass] IN
  config.hold /\ q # None /\ q.sent > 0 /\ ~IsFullFor(p, q.vc)
Choose(sub, s, p) ==
  LET held == Held(s, p)
      tried[i \in 0 .. config.classes] ==
        IF i = 0 THEN [s |-> s, class |-> IF held THEN p.lastClass ELSE None]
        ELSE Try(sub, p, tried[i - 1], (p.lastClass + i) % config.classes)
  IN  tried[config.classes - IF held THEN 1 ELSE 0]

(* The flit goes: t is a source, its ports, the flits on their way from     *)
(* them, and whether all is well so far.                                   *)
Taken(p, c, vc, flit) ==
  [p EXCEPT !.lastClass = c,
            !.lastVC[c] = IF IsHead(flit) THEN vc ELSE @,
            !.inUse[vc] = ~IsTail(flit),
            !.occupied[vc] = @ + 1]
Send(t, sub) ==
  LET p == t.ports[sub]
      chosen == Choose(sub, t.s, p)
      c == chosen.class
      q == chosen.s.queue[c]
      flit == <<q.packet, q.sent + 1>>
  IN  IF c = None THEN [t EXCEPT !.s = chosen.s]
      ELSE [s |-> [chosen.s EXCEPT !.queue[c] = IF IsTail(flit) THEN None ELSE [q EXCEPT !.sent = @ + 1]],
            ports |-> [t.ports EXCEPT ![sub] = Taken(p, c, q.vc, flit)],
            first |-> [t.first EXCEPT ![sub][q.vc] = Append(@, flit)],
            ok |-> /\ t.ok
                   /\ q.packet.subnet = sub
                   /\ Held(t.s, p) => t.s.queue[p.lastClass].vc = p.lastVC[p.lastClass]
                   /\ IsHead(flit) => ~p.inUse[q.vc]]
SendAll(n, s, ports) ==
  LET sent[sub \in 0 .. config.subnets] ==
        IF sub = 0 THEN [s |-> s, ports |-> ports, first |-> first[n], ok |-> TRUE]
        ELSE Send(sent[sub - 1], sub - 1)
  IN  sent[config.subnets]

-----------------------------------------------------------------------------
(* _RetireFlit: b is the books of all nodes, f the flit that node n read.  *)
Settled(s) == IF config.batch = 0 THEN s ELSE [s EXCEPT !.requests = @ - 1]
RequesterSink(packet, n) == n  \* mutant: also for a packet that wants no reply
Requester(packet, n) == IF packet.type = "any" THEN packet.src ELSE n
Answered(nodes, packet, n) ==
  IF packet.type \in Requests
  THEN [nodes EXCEPT ![n].pending = Append(@, [source |-> packet.src, type |-> packet.type,
                                               record |-> packet.record, early |-> simState # "draining"])]
  ELSE [nodes EXCEPT ![Requester(packet, n)] = Settled(@)]
Retire(b, n, s) ==
  LET f == Head(b.inside[n][s])
      packet == f[1]
  IN  IF b.inside[n][s] = <<>> THEN b
      ELSE [total |-> b.total \ {f},
            measured |-> b.measured \ {f},
            retired |-> IF IsTail(f) THEN b.retired \ {packet}
                        ELSE IF IsHead(f) THEN b.retired \cup {packet} ELSE b.retired,
            ok |-> /\ b.ok
                   /\ f \in b.total
                   /\ packet.record => f \in b.measured
                   /\ IsHead(f) => packet.dest = n
                   /\ IsTail(f) /\ ~IsHead(f) => packet \in b.retired,
            node |-> IF IsTail(f) THEN Answered(b.node, packet, n) ELSE b.node,
            inside |-> [b.inside EXCEPT ![n][s] = Tail(@)]]
RetireSubnet(b, s) ==
  LET done[n \in 0 .. config.nodes] == IF n = 0 THEN b ELSE Retire(done[n - 1], n - 1, s)
  IN  done[config.nodes]
RetireAll(b) ==
  LET done[s \in 0 .. config.subnets] == IF s = 0 THEN b ELSE RetireSubnet(done[s - 1], s - 1)
  IN  done[config.subnets]

(* _Step: read, inject, send, retire.                                      *)
Read(n) ==
  [s \in Subnets |-> IF back[n][s] = None THEN port[n][s] ELSE [port[n][s] EXCEPT !.occupied[back[n][s]] = @ - 1]]
MadePackets(made) ==
  {made[x[1]].queue[x[2]].packet :
     x \in {y \in Nodes \X Classes : node[y[1]].queue[y[2]] = None /\ made[y[1]].queue[y[2]] # None}}
Step ==
  \E made \in [Nodes -> UNION {Inject(n) : n \in Nodes}] :
    /\ \A n \in Nodes : made[n] \in Inject(n)
    /\ \E sends \in {[n \in Nodes |-> SendAll(n, made[n], Read(n))]} :
       \E books \in {LET new == UNION {Flits(p) : p \in MadePackets(made)}
                     IN  RetireAll([total |-> total \cup new,
                                    measured |-> measured \cup {f \in new : f[1].record},
                                    retired |-> retired, ok |-> ok /\ \A n \in Nodes : sends[n].ok,
                                    node |-> [n \in Nodes |-> sends[n].s], inside |-> inside])} :
         /\ node' = books.node
         /\ total' = books.total
         /\ measured' = books.measured
         /\ retired' = books.retired
         /\ ok' = books.ok
         /\ inside' = books.inside
         /\ port' = [n \in Nodes |-> sends[n].ports]
         /\ first' = [n \in Nodes |-> sends[n].first]
    /\ back' = [n \in Nodes |-> [s \in Subnets |-> None]]
    /\ parity' = 1 - parity
    /\ UNCHANGED <<config, simState, loop, left, owed>>

-----------------------------------------------------------------------------
(* External: the network.                                                  *)
Lanes == UNION {Below(c.nodes) \X Below(c.subnets) \X Below(c.vcs) : c \in Configs}
Move(n, s, vc) ==
  /\ n \in Nodes /\ s \in Subnets /\ vc \in VCs
  /\ first[n][s][vc] # <<>>
  /\ LET f == Head(first[n][s][vc])
         dest == f[1].dest
     IN  /\ Len(inside[dest][s]) < MaxInside
         /\ loop = "empty" \/ Len(node[dest].pending) < MaxPending
         /\ inside' = [inside EXCEPT ![dest][s] = Append(@, f)]
  /\ first' = [first EXCEPT ![n][s][vc] = Tail(@)]
  /\ owed' = [owed EXCEPT ![n][s] = Append(@, vc)]
  /\ UNCHANGED <<config, sources, parity, simState, loop, left, back>>
Return(n, s) ==
  /\ n \in Nodes /\ s \in Subnets
  /\ owed[n][s] # <<>> /\ back[n][s] = None
  /\ back' = [back EXCEPT ![n][s] = Head(owed[n][s])]
  /\ owed' = [owed EXCEPT ![n][s] = Tail(@)]
  /\ UNCHANGED <<config, sources, parity, simState, loop, left, first, inside>>

-----------------------------------------------------------------------------
(* Run and _SingleSim: the loops, each with its condition.                 *)
PacketsOutstandingAny ==  \* mutant: waits for what is not recorded
  total # {} \/ \E n \in Nodes, c \in Classes : ~node[n].drained[c]
PacketsOutstanding ==
  measured # {} \/ \E n \in Nodes, c \in Classes : ~node[n].drained[c]
BatchComplete == \A n \in Nodes : node[n].seq >= config.batch
CreditsOutstandingSent ==  \* mutant: not those that wait to be read
  \E n \in Nodes, s \in Subnets : owed[n][s] # <<>>
CreditsOutstanding == \E n \in Nodes, s \in Subnets : owed[n][s] # <<>> \/ back[n][s] # None
GoesOn ==
  CASE loop = "sample" -> TRUE
    [] loop = "drain" -> PacketsOutstanding
    [] loop = "batch" -> ~BatchComplete
    [] loop \in {"receive", "empty"} -> total # {}
    [] loop = "credits" -> CreditsOutstanding
    [] loop = "done" -> FALSE

(* The end of a sample period: the averages decide.                        *)
WarmedUp ==
  /\ loop = "sample" /\ simState = "warming_up"
  /\ simState' = "running"
  /\ UNCHANGED <<config, sources, parity, loop, left, network>>
Converged ==
  /\ loop = "sample" /\ simState = "running"
  /\ simState' = "draining"
  /\ loop' = IF config.latency THEN "drain" ELSE "empty"
  /\ \E behind \in [Nodes -> [Classes -> 0 .. MaxBehind]] :
       node' = [n \in Nodes |-> [node[n] EXCEPT !.behind = behind[n]]]
  /\ UNCHANGED <<config, port, total, measured, retired, ok, parity, left, network>>
Unstable ==
  /\ \/ loop = "sample"
     \/ loop = "drain" /\ PacketsOutstanding
  /\ loop' = "done"
  /\ simState' \in IF loop = "drain" THEN {"warming_up"}
                   ELSE {"draining"} \cup ({simState} \ {"running"})
  /\ UNCHANGED <<config, sources, parity, left, network>>

(* The loops that end when their condition is false.                       *)
BatchReceived ==
  /\ left' = [left EXCEPT !.batches = @ - 1]
  /\ IF left.batches > 1
     THEN /\ loop' = "batch" /\ UNCHANGED simState
          /\ node' = [n \in Nodes |-> [node[n] EXCEPT !.seq = 0]]
     ELSE loop' = "empty" /\ simState' = "draining" /\ UNCHANGED node
Start(s) == [s EXCEPT !.requests = 0, !.pending = <<>>, !.seq = 0,
                      !.behind = [c \in Classes |-> 0], !.drained = [c \in Classes |-> FALSE]]
NextSimulation ==
  /\ left' = [sims |-> left.sims - 1, batches |-> config.batches]
  /\ IF left.sims > 1
     THEN /\ loop' = IF config.batch = 0 THEN "sample" ELSE "batch"
          /\ simState' = IF config.batch = 0 THEN "warming_up" ELSE "running"
          /\ node' = [n \in Nodes |-> Start(node[n])]
     ELSE loop' = "done" /\ UNCHANGED <<simState, node>>
LeaveLoop ==
  /\ ~GoesOn /\ loop # "done"
  /\ CASE loop = "receive" -> BatchReceived
       [] loop = "credits" -> NextSimulation
       [] OTHER -> /\ loop' = [batch |-> "receive", drain |-> "empty", empty |-> "credits"][loop]
                   /\ UNCHANGED <<node, simState, left>>
  /\ UNCHANGED <<config, port, total, measured, retired, ok, parity, network>>
Ended == loop = "done" /\ UNCHANGED vars

-----------------------------------------------------------------------------
Init ==
  /\ config \in Configs
  /\ node = [n \in Nodes |-> [queue |-> [c \in Classes |-> None], pending |-> <<>>, requests |-> 0, seq |-> 0,
                              behind |-> [c \in Classes |-> 0], drained |-> [c \in Classes |-> FALSE]]]
  /\ port = [n \in Nodes |-> [s \in Subnets |->
               [occupied |-> [vc \in VCs |-> 0], inUse |-> [vc \in VCs |-> FALSE],
                lastVC |-> [c \in Classes |-> None], lastClass |-> 0]]]
  /\ total = {} /\ measured = {} /\ retired = {} /\ ok = TRUE
  /\ parity = 0
  /\ loop = IF config.batch = 0 THEN "sample" ELSE "batch"
  /\ simState = IF config.batch = 0 THEN "warming_up" ELSE "running"
  /\ left = [sims |-> config.sims, batches |-> config.batches]
  /\ first = [n \in Nodes |-> [s \in Subnets |-> [vc \in VCs |-> <<>>]]]
  /\ inside = [n \in Nodes |-> [s \in Subnets |-> <<>>]]
  /\ owed = [n \in Nodes |-> [s \in Subnets |-> <<>>]]
  /\ back = [n \in Nodes |-> [s \in Subnets |-> None]]

Next ==
  \/ GoesOn /\ Step
  \/ \E n \in Nodes, s \in Subnets : Return(n, s) \/ \E vc \in VCs : Move(n, s, vc)
  \/ WarmedUp \/ Converged \/ Unstable \/ LeaveLoop \/ Ended

(* The program steps on, and a loop whose condition is false is left: weak *)
(* fairness of these, one of which is possible until all is done.  The     *)
(* network's routers serve their inputs in turn, and what is in a channel  *)
(* arrives.                                                                *)
Fairness ==
  /\ []<>(loop = "done") \/ []<><<parity' # parity \/ loop' # loop>>_vars
  /\ \A l \in Lanes :
       SF_vars(Move(l[1], l[2], l[3]) \/ (Return(l[1], l[2]) /\ back'[l[1]][l[2]] = l[3]))
Spec == Init /\ [][Next]_vars /\ Fairness

-----------------------------------------------------------------------------
Queued(n) == UNION {{f \in Flits(node[n].queue[c].packet) : f[2] > node[n].queue[c].sent} :
                      c \in {d \in Classes : node[n].queue[d] # None}}
InNetwork == UNION {Range(inside[n][s]) \cup UNION {Range(first[n][s][vc]) : vc \in VCs} :
                      n \in Nodes, s \in Subnets}
PacketType == [src : Nodes, cl : Classes, k : Nat, type : Types, dest : Nodes,
               record : BOOLEAN, size : Nat \ {0}, subnet : Subnets]

(* The state keeps its shape; no buffer is sent more flits than it holds.  *)
TypeOK ==
  /\ Packets(total) \subseteq PacketType /\ measured \subseteq total /\ retired \subseteq PacketType
  /\ simState \in {"warming_up", "running", "draining"}
  /\ loop \in {"sample", "drain", "batch", "receive", "empty", "credits", "done"}
  /\ left.sims \in 0 .. config.sims /\ left.batches \in 0 .. config.batches
  /\ \A n \in Nodes :
       /\ \A c \in Classes :
            /\ node[n].behind[c] \in -1 .. MaxBehind /\ node[n].drained[c] \in BOOLEAN
            /\ node[n].queue[c] = None \/ node[n].queue[c] \in
                 [packet : PacketType, sent : Nat, vc : VCs \cup {None}]
       /\ node[n].requests \in Nat /\ node[n].seq \in 0 .. config.batch
       /\ \A s \in Subnets :
            /\ port[n][s].occupied \in [VCs -> 0 .. config.room] /\ port[n][s].inUse \in [VCs -> BOOLEAN]
            /\ port[n][s].lastVC \in [Classes -> VCs \cup {None}] /\ port[n][s].lastClass \in Classes

(* The tables of the flits in flight hold the flits that are on their way  *)
(* and those among them that count for the statistics.                     *)
FlitsCounted ==
  /\ total = InNetwork \cup UNION {Queued(n) : n \in Nodes}
  /\ measured = {f \in total : f[1].record}
(* A source has taken a slot of a VC for every flit in it and every credit *)
(* on its way back.                                                        *)
CreditsCounted ==
  \A n \in Nodes, s \in Subnets, vc \in VCs :
    port[n][s].occupied[vc] = Len(first[n][s][vc]) + Cardinality({i \in DOMAIN owed[n][s] : owed[n][s][i] = vc})
                              + (IF back[n][s] = vc THEN 1 ELSE 0)
(* A VC is in use for the one packet that has been sent in part.           *)
VCsHeld ==
  \A n \in Nodes, s \in Subnets, vc \in VCs :
    Cardinality({c \in Classes : LET q == node[n].queue[c] IN
                   q # None /\ q.sent > 0 /\ q.packet.subnet = s /\ q.vc = vc})
      = IF port[n][s].inUse[vc] THEN 1 ELSE 0
(* A head is kept while a flit of its packet is missing.                   *)
HeadsKept == retired = {p \in Packets(total) : <<p, 1>> \notin total}
(* A source of batches counts the packets that have not been answered.     *)
RequestsCounted ==
  config.batch > 0 => \A n \in Nodes :
    node[n].requests =
      Cardinality({p \in Packets(total) : IF p.type \in Replies THEN p.dest = n ELSE p.src = n})
      + SumFunction([m \in Nodes |-> Cardinality({i \in DOMAIN node[m].pending : node[m].pending[i].source = n})])

(* trafficmanager.cpp: the books of the sources and sinks agree with the   *)
(* network through every step, for any delay, and no assertion fails.      *)
BooksAgree ==
  ok /\ FlitsCounted /\ CreditsCounted /\ VCsHeld /\ HeadsKept /\ RequestsCounted

(* Run: a simulation that ends leaves nothing behind for the next, whose   *)
(* sources start from whatever credits and VCs they have.                  *)
AtRest ==
  /\ total = {} /\ measured = {} /\ retired = {}
  /\ \A n \in Nodes, s \in Subnets, vc \in VCs : port[n][s].occupied[vc] = 0 /\ ~port[n][s].inUse[vc]
StartsClean == [][left'.sims # left.sims => AtRest]_vars

(* Every loop that waits ends: a drain although the sources go on sending  *)
(* what is not recorded, and a batch although its requests wait for        *)
(* replies.                                                                *)
LoopsEnd ==
  (loop # "sample" /\ (loop = "drain" => config.rw = {})) ~> loop \in {"sample", "done"}
=============================================================================
