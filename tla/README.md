# rtl2booksim in TLA+

Specifications, model-checking runs and proofs for rtl2booksim: BookSim2, a
cycle-accurate network-on-chip simulator, extended with a server through which
an RTL design (SystemVerilog) or a C++ program uses the simulated network as
its interconnect. Paths below are relative to `src/`.

## 1. The system

    RTL design under test
      | flits, credits (per port and VC)            rtl_interface.sv
    wrapper: next_p_id, p_id, dest_table, data_set
      | DPI calls, one socket request each          booksim_interface.cpp
    --- blocking socket -----------------------------------------------
    FeS2Interface: request and reply queues,        fes2_interface.cpp
      two credit tables, original destinations
      | called from _Step, once per network cycle
    FeS2TrafficManager: partial packets, injection  fes2_trafficmanager.cpp
      BufferStates, packets in flight
      | flits and credits over channels, one per cycle
    Network: routers, channels, routing functions   networks/, routers/

Everything below the socket is one thread. Concurrency is that of hardware:
within a network cycle every module reads its inputs, then every module
evaluates, then every module writes its outputs, and information moves between
modules only over channels with a delay. Two processes (simulator and RTL)
alternate over the socket. Nothing is persisted and no message is lost by
design, so there is no crash recovery and no timeout; what is hard is
flow control across delays, one-slot hand-overs, counters at their limits, the
order in which things of one cycle happen, and fairness.

| component | state | operations | interacts with |
|---|---|---|---|
| `Channel` | `_input`, `_wait_queue`, `_output` | Send, Receive, ReadInputs, WriteOutputs | both ends of every link |
| `BufferState` and its 7 policies | occupancy in total and per VC, `_in_use_by`, `_tail_sent`, `_last_pid`, the counters of the policy | TakeBuffer, SendingFlit, ProcessCredit, IsFullFor, IsAvailableFor | the sender: router output, injection port |
| `Buffer`, `VC` | queues, occupancy, `_expected_pid`, VC state | AddFlit, RemoveFlit, SetState | the receiver: router input |
| wrapper, DPI functions | ids, `dest_table`, `data_set` | inject, send_credit, receive_credit, eject, nextCycle, exitSocket | design, FeS2Interface |
| `FeS2Interface` | request and reply buffers, credits each way, `_original_destinations` | Step (one case per request type), Enqueue/Dequeue | traffic manager |
| `FeS2TrafficManager` | partial packets, `_current_packet_vc`, flits in flight, sampled occupancies | _Step, _Inject, _GenerateFlit, _RetireFlit | interface, network |
| arbiters | pointer, matrix, groups | AddRequest, Arbitrate, UpdateState, Clear | separable allocators, event router |
| allocators (9) | pointers, diagonal, arbiters, match | AddRequest, Allocate, Clear | input-queued router |
| input-queued router | pipeline sets of VCs, held connections, output buffers | routing, VC and switch allocation, traversal, credits | all of the above |
| event-driven and chaos routers | arrival and transport events; multi-queues | (as above) | channels |
| routing functions | none; phase and intermediate node are in the flit | flit to set of outputs, VCs, priorities | routers |
| traffic patterns, injection processes | none; on/off state | dest, test | traffic managers |
| networks (9 topologies) | the graph of routers and channels | construction, the phases of a cycle | routers, routing |
| stand-alone traffic manager (latency, throughput, batch) | partial packets, tables of flits in flight, requests and replies, injection BufferStates | _Step, _Inject, _IssuePacket, _GeneratePacket, _RetireFlit, _SingleSim, Run | network, patterns |
| configuration, statistics, power, random numbers | options, sums | | all |

What makes each of them correct:

* **Link and flow control**: a sender never overruns the buffer at the other
  end; slots taken are flits or credits under way; packets do not interleave on
  a VC; a credit always comes back; a started packet is not shut out.
* **Bridge**: every flit the design sends is presented once, in order, at the
  port it is for; the design's credits equal the room there is; no assertion
  on the way fails, whatever the order in which the two sides act.
* **Arbiters and allocators**: grants form a matching of the requests, nothing
  grantable is left out where that is promised, some arbiter input always wins,
  and a request that keeps being made is granted at last.
* **Router**: a packet holds one output VC from head to tail; a flit is
  switched only if there is room for it; flits of a VC stay in order;
  speculative grants never take what a non-speculative one was given; a VC is
  always in the queue of the stage it waits for, a sleeping router has nothing
  to do, and every flit leaves.
* **Routing and networks**: both ends of every channel agree on its number;
  every packet is routed wherever it gets to and reaches its destination; the
  VC ranges leave no cyclic wait; permutation patterns are permutations.
* **Traffic manager**: its tables agree with what the network holds, credits
  and requests included; every loop that waits ends; a simulation leaves
  nothing behind for the next.

`PROJECT.json` lists under "hazards" the places in the code where these are at
stake, with the properties that guard them.

## 2. Modules

    Channel  BufferPolicy     Arbiter      NocService      Router
        \      BufferState       |             |             |
         \     /             Allocator      Bridge       MCRouter
          Link ---- VCFifo       |             |
           |                MCAllocator    MCBridge      TrafficManager
         MCLink                                              |
                                                         MCTraffic
    Networks -- RoutingFunctions -- ConcentratedNetworks -- ConcentratedRouting
        \                                                        /
         Traffic --------------------- Routing -----------------
                                          |
                                      MCRouting

The theorems are in modules of their own, each extending the ones before it:

    BufferPolicy   BufferPolicyProofs ----- LinkProofs
                    (FoldLemmas)
    Allocator      AllocatorProofs
                    (FoldLemmas)
    Bridge         BridgeProofs
                    (FoldLemmas)
    Router         RouterProofs
    TrafficManager TrafficProofs
                    (FoldLemmas)
    Routing        RoutingProofs
                    (FoldLemmas)

The models meet where the code's modules do. `Link` is any connection of two
routers or of a terminal and a router; `Router` is what is between two links,
with `Allocator` as the matching it leaves open; `Routing` is what a chain of
routers does to a head flit; `TrafficManager` and `Bridge` are the two kinds of
terminals. What one module leaves open is what another one determines, so each
is checked against all behaviours of its neighbours.

### Link: `Channel`, `BufferPolicy`, `BufferState`, `Link`, `VCFifo`

`Channel` is `channel.hpp`; the absolute times in `_wait_queue` are kept
relative to the present (`due`), because the code only subtracts them.
`BufferPolicy` holds the seven policies of `buffer_state.cpp` as operators on
one record of their counters, with the virtual calls dispatched on the policy's
name; `BufferState` is the class itself. `Link` composes a sender with its
`BufferState`, two channels and a receiver's `Buffer`, and runs them through the two phases
of a cycle (`Network::ReadInputs`, `Evaluate` and `WriteOutputs`):

| action | code |
|---|---|
| `ReadInputs` | the channels' ReadInputs, `Buffer::AddFlit` and `VC::AddFlit` of the flit received, `BufferState::ProcessCredit` of the credit received |
| `AllocateVC(v)` | `BufferState::TakeBuffer`, guarded by IsAvailableFor |
| `SendFlit(v, tail)` | `BufferState::SendingFlit` and `Channel::Send`, guarded by IsFullFor; one flit per cycle |
| `RemoveFlit(v)` | `Buffer::RemoveFlit`, and v added to the credit of the cycle |
| `WriteOutputs` | the channels' WriteOutputs; time goes on |

When a sender sends and when a receiver forwards are left open, so any router
or terminal may stand at either end. The policy and `wait_for_tail_credit` are
in `config`, which Init chooses: one run covers all policies. Packet ids
alternate between two values per VC, which is all that the contiguity check can
tell apart. `VCFifo` is the abstract specification of a hop: one bounded queue
per VC.

### Bridge: `Bridge`, `NocService`

`Bridge` models the clocked process of `rtl_interface.sv` with the DPI
functions it calls, all of `FeS2Interface`, and `FeS2TrafficManager::_Step` with
_Inject, _GenerateFlit and _RetireFlit. A request blocks its sender until the
answer, so an exchange is one step, and the requests of one part of the clocked
process are one action:

| action | code |
|---|---|
| `ClockInject` | head/body/tail handling and `inject` per port; INJECT_REQ_FLIT |
| `ClockReturn` | `send_credit`; CREDITS_DOWN_REQ |
| `ClockReceive` | `receive_credit`, `eject`; CREDITS_UP_REQ, EJECT_REQ_FLIT; the search in `data_set` |
| `ClockStep` | one STEP_REQ of `nextCycle` |
| `ClockQuit` | `exitSocket`; QUIT_REQ |
| `Work` | `_Step` from the return of FeS2Interface::Step: injection, both credit tables, retirement |
| `Read` | the start of the next `_Step`: ejected flits and credits are read |

`failed` names the assertion of the code that has failed. The design under test
(external) sends whole packets and keeps to its credits; the network (external)
is any that keeps a flit order per source and VC, keeps to the ejection credits
and gives an ejection VC to one packet at a time. `NocService` is what the
bridge promises to the design: each flit accepted at a port is presented once
at the port it is for, in order per source, destination and VC.

### Allocation: `Arbiter`, `Allocator`

`Arbiter` models round-robin, matrix and tree arbiters as records with
`Arbitrate` and `UpdateState`. `Allocator` has one `Allocate...` action per
allocator class, for any set of requests with priorities, and `Clear`, as
the router calls them in each cycle. Only pointers, diagonals and arbiter states
live from one cycle to the next. `config` again holds which allocator
it is, its size and its number of iterations. The random offsets of PIM are
nondeterministic.

`max_size` reads `_from` beyond the size `assign` has just given it when there
are more outputs than inputs; the value there in the builds of this code is the
0 the constructor left, and that is what `Search` has.

### Router: `Router`

A VC of an input goes through the states idle, routing, vc_alloc and active, and
waits for each stage in the queue of this stage (`routeQ`, `vcQ`, `holdQ`, `swQ`),
where an entry has the time its stage ends and what it was granted. A cycle is a
sequence of actions in the order of `ReadInputs`, `_InternalStep` and `WriteOutputs`:

| action | code |
|---|---|
| `ReadInputs` | `_ReceiveFlits`, `_ReceiveCredits`, `_InputQueuing`: flits are queued, a VC is put to the routing or switch queue, credits processed |
| `VCAllocEvaluate` | `_RouteEvaluate`, `_VCAllocEvaluate`: requests for available output VCs, any maximal matching |
| `SWAllocEvaluate` | `_SWHoldEvaluate`, `_SWAllocEvaluate`, `_SwitchEvaluate`: held connections, requests for lanes, and the tests that discard a grant which cannot be used any more |
| `RouteUpdate`, `VCAllocUpdate` | the same names: a route set, an output VC taken, or back into the queue |
| `SWHoldUpdate(x)`, `SWHoldDone` | `_SWHoldUpdate`: the flits of held connections, one VC at a time; connections kept or released |
| `SWAllocUpdate(x)`, `SWAllocDone` | `_SWAllocUpdate`: the grants, one VC at a time: the assertions, piggybacked VC allocation, a flit into the crossbar, a connection held; then the VCs without a grant try again |
| `SwitchUpdate`, `SwitchDone` | `_SwitchUpdate`: one flit from the crossbar to its output buffer; the activity flag of `_InternalStep` |
| `WriteOutputs` | `_SendFlits`, `_SendCredits` |

Open are the routes (any set of output ports) and the matchings. `config`
has what the options say: speculation with a second allocator, by priority or with
piggybacked VC allocation; `hold_switch_for_packet`; the four delays; input
and output speedup; a bound on the output buffers.

### Networks and routing: `Networks`, `ConcentratedNetworks`, `RoutingFunctions`, `ConcentratedRouting`, `Traffic`, `Routing`

A network is two functions of a router: the channels at its output ports and
the channels at its input ports, each as its own `_BuildNet` numbers them. A
routing function takes the options and a flit and gives the set of its possible
results, one for each random choice, load or credit count it may read; a result
has the pairs of ports and VCs put into the OutputSet, and the phase and
intermediate node left in the flit; the empty set stands for a failed assertion. A
traffic pattern gives the set of destinations of a source. `Routing` sends one
head flit through: `Hop` is a router that uses any of the pairs, `Leave` an
ejection. From the same functions it computes which VC of a channel a flit may
hold while it waits for which, and the greatest set of VCs that can wait for
each other (`DeadlockedVCs`): with wait_for_tail_credit a flit waits for all the VCs it is
offered, otherwise it may be queued behind any one of them.

### Traffic manager: `TrafficManager`

| action | code |
|---|---|
| `Step` | one call of `_Step`: a flit retired per node and subnet, credits processed, packets generated, and one flit sent per node and subnet |
| `WarmedUp`, `Converged`, `Unstable` | what `_SingleSim` decides after a sample period |
| `BatchReceived`, `NextSimulation`, `LeaveLoop` | the ends of the loops of `_SingleSim` (either class) and of `Run` |
| `Move`, `Return` | external: the network takes a flit to the queue of its destination, a credit back |

What statistics decide (warmed up, converged, unstable) is a free choice; so is
the coin of an injection process at each of its calls, which
covers every rate and every state of an on/off source. Of `_time` the parity is
kept and of `_qtime` how far behind the start of the drain a source is.

## 3. Runs

| run | question | bounds |
|---|---|---|
| `link` | credits, overflow, contiguity, shared-policy counters, probes | 2 VCs, 3 slots of which 1 is private, delays 1 and 1, all 7 policies, with and without tail credits |
| `link_live` | a hop implements `VCFifo`; credits return | 2 partitions, flit delay 2; `private` and `shared` |
| `bridge` | both credit loops, assertions, delivery | 2 ports, both sending to one; 2 VCs of 2 slots; 3 flits |
| `bridge_live` | every flit arrives unless the design quits | 1 VC of 1 slot, 3 flits |
| `bridge_quit` | is "we must read the credits every cycle" kept? (no) | 1 VC of 2 slots |
| `alloc` | matching, no wasted cycle, maximum size, arbiters decide | 2 to 4 inputs, 2 or 3 outputs, 1 or 2 iterations, 3 priority pairs |
| `alloc_live` | no starvation | up to 3 by 2, patient requests |
| `router` | ownership, overflow, queues, held connections, sleep, assertions | 26 option records; 2 inputs for 1 output VC, 2 VCs at one input, or 2 outputs; packets of up to 3 flits; delays 0 to 2 |
| `router_live` | every flit leaves | 2 inputs for 1 output VC, every kind of switch allocation |
| `routing` | wiring, permutations, routing everywhere, arrival, cyclic waits | 44 configurations: every topology with every routing function, from 4 to 64 nodes |
| `routing_valiant` | is valiant_mesh free of cyclic waits with 2 VCs? (no) | 3 by 3 mesh |
| `traffic` | tables, assertions, clean start, loops end | 2 nodes; up to 2 classes, 2 subnets, 2 VCs, 2 simulations or batches |

Why the bounds are enough. Two VCs are what it takes for packets to compete for
shared slots; with three slots, one of them in a private partition, partition and shared
space fill up separately and together, and the per-VC limits of the dynamic
policies lie between 1 and 3. `MaxAge` caps the age of a probe above the round
trip at which the limit is at its minimum. Three flits on the bridge make a
two-flit packet meet another packet at the same destination port, in both
orders. Three inputs at two outputs are the least at which allocator
iterations differ and a matrix of priorities could become cyclic; 3 by 3 is used for
augmenting paths of length 5, and 4 inputs for the groups of a tree arbiter.

In the router two VCs that compete for one output VC of one slot make every
test of a grant fail and succeed; the lanes of an input are shared by two VCs in
`MCShared`, and delays of 2 overlap the evaluation of a stage with the updates
of two cycles. `MaxLength` is 3, so that a packet has a flit that is neither head nor tail.
In `routing` three routers per dimension are the least that have an inner
router, four the least at which a torus has a ring to deadlock in and both
directions; the functions tied to a size (tree4, qtree, the 8 by 8 patterns) have it.
`MaxHops` exceeds the longest way in any of the networks. In `traffic` one node sends and one receives, or both do, where
requests and replies need it; `MaxInside` (the queue before a node) and
`MaxPending` (waiting requests, while it injects) keep the network finite, and a
source may be `MaxBehind` packets behind when the drain begins.

Violations are disagreements between the code and what its own comments say;
each is described under "findings". Deadlock is checked in every run but
`bridge_live` and `routing`, where the design may end the simulation and the
flit is ejected, for good, and the two that end in a violation.

### Further configurations

Each of these cfg files, or definitions of an MC module to be given as
`Configs`, makes TLC show a behaviour that is easily met by changing an option:

* `MCBridgeSpeedup.cfg`: at a speedup of 2 network cycles per clock the assertion
  of `fes2_interface.cpp:301` fails ("we must read the credits every cycle"), as
  the design reads the credits once per clock. `bridge` has a speedup of 1.
* `MCBridgeCredits.cfg`: credits for two VCs of a port in one cycle are sent on a
  channel of one slot and one is lost (`fes2_trafficmanager.cpp:853`). In `bridge`
  a design returns one per port and cycle.
* `MCBridgePorts.cfg`: `dest_table` numbers 2^5 ports whatever `NUM_PORTS` is
  (`rtl_interface.sv:81`); a flit for a port beyond is presented elsewhere.
* `MCAllocatorSelect.cfg`: `select` with 2 iterations keeps grants of the first in
  the second (`selalloc.cpp:62`) and returns no matching.
* `MCAllocatorMaxSize.cfg`: with more outputs than inputs `max_size` misses augmenting
  paths, `_from` being sized by the inputs (`maxsize.cpp:115`).
* `MCRouterRace.cfg`: piggybacked VC allocation with an output speedup of 2: two
  packets are granted lanes of one output, the first takes the only VC, and the
  assertion of `iq_router.cpp:1953` fails for the second. The FIXME at 1938 suspects it.
* `MCOddVCs` of `MCRouting`: xy_yx_mesh with 3 VCs: the halves overlap in the middle
  VC and cycles are closed, although "at least 2 vcs" are asked for (`routefunc.cpp:508`).
* `MCDragonFly` of `MCRouting`: ugal_dragonflynew has a cycle in the VC of its first
  phase with the 3 VCs `networks/dragonfly.cpp:471` says it needs.

### Observations without a run

* Router: speculation with `vc_alloc_delay` 2 and `sw_alloc_delay` 1 fails the assertion at
  `iq_router.cpp:1970`; speculation with adaptive routes, delays 1 and 2, fails
  the one at 1821. `router` leaves these delays out. Lines 1053 and
  1202 index `_output_buffer` by lane instead of output, past its end for the last
  lanes (`HeldFull` of the model); line 1464 marks a VC as stalled as
  soon as one of its outputs is ineligible, and 1516 then skips its grants at others.
* Routing: replies of min_adapt_mesh may use VCs of other classes (`routefunc.cpp:974`);
  xy_yx_cmesh on 8 by 8 routers can send a flit back and forth between express
  channels, where `routing` has 2 by 2 and 4 by 4; randperm never ends, or asserts, for
  sizes it was not written for.
* Traffic manager: with unequal class priorities on shared VCs a head keeps a VC it has
  not taken, which another class takes first (`trafficmanager.cpp:1156`); `hold_switch_for_packet` with several
  subnets fails the assertion at 1209; a read or write batch counts as received while
  replies are pending, and the last batch's are never sent
  (`batchtrafficmanager.cpp:165`); in read/write mode a node that always has a
  reply to send never advances `_qtime` and holds up the drain, which is why `LoopsEnd`
  says nothing of that drain.

## 4. Fairness

* Link: WF of ReadInputs and WriteOutputs (the simulation loop never stops
  between phases); SF of RemoveFlit for each VC (a receiver forwards a flit
  it could forward again and again, which is what its allocators and the
  routers beyond have to give; the next phase of the cycle disables the action, hence SF).
  Senders are not fair: nothing makes them send.
* Bridge: WF of the parts of the clocked process and of `Work` and `Read`, as both
  processes just run. SF for what is external: the network moves each flit that
  it could move again and again, the design finishes packets it has begun and
  empties its buffers. `ClockQuit` is not fair.
* Allocator: time goes on. `NoStarvation` is checked for a patient router,
  which makes a request again until it is granted. With requests that are withdrawn and made again
  separable allocators do starve others' requests, because their two rows
  of arbiters move in step. LOA starves a patient request even so, as its
  pointers count grants instead of following the winner; PIM is random; neither
  is promised to be fair, and neither is in the property.
* Router: WF of the cycle; SF of what its neighbours do (a slot that can be given
  back again and again is, a packet that has begun to arrive arrives) and of
  the grants of the two allocators to a VC that requests again and again,
  which `alloc_live` shows of the allocators themselves.
* Routing: WF of Next: some result is taken; nothing is assumed of which.
* Traffic manager: `_Step` goes on being called, and loops whose condition is false
  are left, which is stated on `parity` and `loop` (one of the two changes with every
  step of the program); SF for each VC of the network's moves and returned
  credits. Injection is never fair.

## 5. Proofs

Every theorem holds for all values of the constants that satisfy the ASSUMEs
of its component's module; what else it assumes is said with it. The lines of
argument are the ones below, a lemma per action for each invariant.

### Link, the private part: `LinkProofs`

* `LinkTypes`: `Spec => []TypeOK`
* `LinkConservesCredits`: `Spec => []CreditConservation`
* `LinkNeverOverflowsVC`: `Spec => []NoVCError`

all from `LinkInvariant`, `Spec => []IInv` with
`IInv == TypeOK /\ CreditConservation /\ NoVCError`. No conjunct is inductive by
itself: that a private VC does not overflow the receiver follows from
conservation (flits in the buffer are part of the sender's count), conservation
when an item is delivered needs that channels deliver on time (at most one item
is due, the front one), and that the count stays above zero when a credit is
processed needs conservation again. The lemmas count items of a queue under
Append, Tail and the passing of a cycle (`CountAppend`, `CountTail`,
`CountAge`), and describe the two phases of a channel (`ReadSent`,
`WriteArrived`, `WriteIdle`, ...).

### Link, the shared part: `FoldLemmas`, `BufferPolicyProofs`, `LinkProofs`

* `LinkSharedAccounting`: `Spec => []SharedAccounting`
* `LinkProbesOutstanding`: `Spec => []ProbesOutstanding`
* `LinkNeverOverflowsBuffer`: `Spec => []NoBufferError`
* `LinkNeverShutsOut`: `Spec => []StartedPacketNeverShutOut`

The last two assume `PolicyAssertions`, which is what the constructors of the policies
assert of the options (`buffer_state.cpp:96`, 321, 330, 349 and 363): limits
and private slots are positive. All four come from `SharedInvariant`,
`Spec => [](IInv /\ SInv)`. Its part `Balanced` says of the policy's record
that a private partition counts what its VCs hold, a reserved slot included, that
the shared space counts what exceeds the partitions, that a
slot is reserved only for a packet that is not finished, and that a started VC
which holds nothing has its slot. Then the private and the shared space stay within
the buffer (`WithinBuffer`), hence so do the flits; and a started packet has a slot of
its own or is below a limit.

The counters are sums over sets of VCs. The library's theorems of induction
take an operator as a parameter, so `FoldLemmas` argues by a minimal
counterexample among the finite subsets instead: there is a smallest set for
which a sum does not change as claimed, and leaving one element out of
it gives a smaller one. From this, that a fold over the VCs of a
credit may visit them in any order (`CreditSlots`). `BufferPolicyProofs` shows for each
policy what SendingFlit, TakeBuffer and ProcessFreeSlots do to `Balanced`.
`FeedbackAssumption` gives the types of the options of the feedback policies.

### Link, the order of flits: `LinkProofs`

* `LinkPacketsContiguous`: `Spec => []PacketsContiguous`
* `LinkImplementsQueues`: `Spec => Fifo!Safety`

Both are about `FlitsOf(v)`, the flits of a VC among those under way. It is a recursive
function over the channel, and `OnVCConcat` (it distributes over concatenation) is all
that is needed of it: a step moves a flit from one part of the channel to
the next, so a flit sent comes last (`SentLast`), the one read was
first (`ReadFirst`), and a delivery changes nothing (`WriteSame`).
`PacketsContiguous` looks at the first flit only. The invariant `OInv`
follows the packets through the whole channel: every flit goes on with the packet
that the one before it left open, the first with the one that the receiver expects, and a
packet that the last leaves open still owns its VC at the sender. A
VC that is free has nothing open, so its next packet may start; that a credit frees a VC only
behind its tail is what `wait_for_tail_credit` adds.
For the refinement every step of `Link` is one of `VCFifo` or none: SendFlit enters,
RemoveFlit leaves, and the bound is the one of `SharedInvariant`, as the sender
counts at least what is in the queue (`FlitsCounted`, `WithinCapacity`).

### Router: `RouterProofs`

`RouterInvariant` proves for any set of option records `Spec => []IInv`, where
`IInv` is the conjunction of
`Typed`, `OutputsSet` (a VC in vc_alloc has routes), `Owned` (the output
VC's record and the state of its holder agree), `Timed` (times and results in each queue are
those its stage gives), `VCGrants` and `SWGrants` (no two grants of one
evaluation share a port or a VC), `Paid` (the slots taken are the flits
sent, counted), `Held` and `HoldsAgree`, `Awake`, `NoOverflow` and `InItsQueues`. From it:

* `TypeCorrect`, `OneOwner` (`VCOwned`), `SlotForEveryFlit` (`NoOverflow`), `RightQueues`
  (`InItsQueues`), `HeldLanes` (`HoldsAgree`), `SleepsIdle` (`SleepsOnlyWhenIdle`).

A grant is decided in one cycle and used in a later one, so each of these needs to
say what stays true of a grant on its way: that a VC is in one queue only,
that a test which discards a stale grant sees every reason it may have become stale, and that
two grants of the same lane cannot both be under way.

`AssertionsHold` proves `Spec => []NoAssertionFails` when every configuration is `SafeConfig`:

    outBufSize = -1                                (the output buffers are not bounded)
    mode in {"spec", "prio"}  =>  vca = swa        (speculation: equal delays of the allocations)
    piggyback                 =>  lanesOut = 1     (no output speedup)

BookSim's defaults satisfy it; without speculation any delays do. It needs, besides, that
what a speculative grant was requested for is still what its VC wants (`Aimed`,
`GuessRight`), that the queues of the two allocations stay in step (`InStep`), and that the
lanes of an evaluation are free (`LanesFree`). The conditions are where the code
is: speculation with delays 2 and 1 fails the assertion that the output port is
the requested one (`iq_router.cpp:1970`), with 1 and 2 it does with two routes (1821), and
`MCRouterRace.cfg` shows piggybacking with two lanes. Bounded output
buffers keep the assertions in TLC's runs, but the proof
would have to count the flits in the crossbar. The attempt also found the model
wrong: `ReadInputs` did not clear the routes of a packet looked ahead for
(`vc.cpp:144`, `iq_router.cpp:395`).

### Bridge: `BridgeProofs`

With any number of ports and VCs, any buffer size, traffic, clock ratio and credit width:

* `Invariant`: `Spec => []IInv`
* `RightUntilUnread`: `Spec => [](CreditsReadEveryCycle => NoAssertionFails /\ SenderCredits)`:
  the only assertion that can fail is "we must read the credits every cycle", and until
  it does the design's credits are right.

`IInv` follows a flit from the design's port to the answer: `Streams`, `Order` and `Ahead`
(each place holds a part of a stream, later places the earlier flits), `Packets`, `Unfinished`
and `Lined` (a packet is a run of flits of one port and VC, from head to tail, and packets
line up in the queue of a port), `Entered` and `PacketVcs` (the injection buffer holds a VC for the
packet that is half in the network, and `_current_packet_vc` has it until its tail is
retired), `Known` (a flit in the network is in the tables that `_RetireFlit` and
`EnqueueFeS2ReplyFlit` look it up in), `Rounds` and `Sampled` (where the two sides stand, and
by how much the last sample of the occupancy differs from it). The credits, which are counted from that
sample, follow from the last two.

The following are proved for `InStep`, which is one network cycle per clock
(`CLOCK_SPEEDUP` is 1 unless set, `rtl_interface.sv:15`) and a design that does not end the
simulation; and, where said, for
`Reachable`, traffic to ports that `dest_table` can number. The configurations
`MCBridgeSpeedup.cfg`, `bridge_quit`, `MCBridgePorts.cfg` and `MCBridgeCredits.cfg` show
what happens where one of the conditions is dropped.

| theorem | states | conditions |
|---|---|---|
| `InStepAsserts` | `NoAssertionFails` | `InStep` |
| `InStepCredits` | `SenderCredits` | `InStep` |
| `InStepEjectCredits` | `EjectCredits` | `InStep`, `Reachable`, one credit per port and cycle |
| `InStepType` | `TypeOK` | the same |
| `InStepImplementsService` | `ImplementsService`, the refinement of `NocService` | `InStep`, `Reachable` |

`NothingUnread` is the invariant of two sides in step: when `_Step` runs, the answers and
credits of the last one have been read. From it come `Answering` (`data_set` and `dest_table` name the
port a flit is bound for, and there is one answer per port at most), `CreditsBack`
(every slot the last router counts is a flit or a credit at one known place, so
`_eject_cred`, one slot per port, loses none) and `Serves` (a flit sent is on its way
or presented, and those presented are ahead of those on their way). With `Serves` each step of the
bridge is shown to be a step of `NocService` or a stutter, with the port a flit is
bound for as the abstract destination: `ClockInject` accepts, `ClockReceive` delivers.

### Allocator: `AllocatorProofs`

For every kind of allocator, any number of inputs, outputs and iterations, any priorities and
load, and any arbiters that can be built (`CanBuild`: a tree has groups of equal size, which
`tree_arb.cpp:42` asserts):

* `ArbitersAlwaysDecide`: `Spec => []ArbitersDecide`
* `TypeCorrect`: `Spec => []TypeOK`
* `AlwaysMatching`: `Spec => [](Decisions => Matching)`, where `Decisions` excludes `select` with
  more than one iteration; `MCAllocatorSelect.cfg` shows why.
* `NoneWasted`: `Spec => [](Enough => WastesNothing)`
* `GrantsMost`: `Spec => [](Enough => MaximumSize)`. `Enough` says that `max_size` has no more
  outputs than inputs, so that `_from` has an element for each; `MCAllocatorMaxSize.cfg` shows
  what it misses where there are more. The other kinds always satisfy `Enough`.

All come from `AllocatorInvariant`, `Spec => []Invariant`: the pointers and the arbiters stay in
their ranges, what `Allocate` leaves is a matching (`IsMatch`), and it serves the requests
(`Serves`, `Covered`). `Allocate` starts from an
empty match, so the argument is within one action:

* A matrix stays a strict total order when the winner yields (`YieldOrders`), so among any
  requests there is one that none precedes (`PlainDecides`); a port of a tree is in one of
  its groups, and a group asks for it (`GroupOf`, `Decide`).
* What an allocator computes by iterating is a recursive function. `Iterates` shows that such a
  function exists, `IteratesIn` and `IteratesThrough` that what holds at first and is
  kept by each iteration holds at the end. All three take the least index where it would fail.
* One iteration of iSLIP and PIM keeps a matching, since grants go from free outputs to
  free inputs (`AcceptedMatches`). In a wavefront the requests come in a strict order
  of priority and diagonal, each once (`BeforeOrders`, `Ranked`).
* `max_size`: the breadth-first search is described by a rank, the length of the path to
  each output it has got to (`Explored`, `VisitKeeps`, `LevelKeeps`, `SearchFinds`). Following
  `_from` back, the match is right but for one output (`Path`, `StepsBack`), whose rank falls at
  every step; the loop at `maxsize.cpp:171` therefore ends within as many steps as there are
  inputs, and at an input that had no output (`Augments`).
* Nothing is wasted: a separable allocator grants to the winner of a port whose winner
  has the highest priority on the other side too, and the first request of a wavefront's order finds
  both its ports free. An iteration of iSLIP or PIM adds a pair while some request has
  both ports free (`Grows`, from the fact that every arbiter decides), so `iters` of them leave
  either no such request or `iters` pairs, which is everything if that is as many as there are ports on one side
  (`GrownServes`).
* `max_size` grants a maximum: a path adds one input to those matched (`Augments`), so
  after as many rounds as inputs either all are matched or a search has found nothing. Each level
  of a search that goes on reaches one more output (`LevelExhausts`); when it is over, all
  that leads out of the unmatched inputs, and of the inputs whose outputs were reached, has been
  followed. The outputs reached and the inputs matched to others then cover every request
  (`NothingFound`), and requests that share no port are no more than the pairs, by an
  injection (`CoveredServes`; this is Koenig's argument).

### Traffic manager: `TrafficProofs`

For any number of nodes, classes, subnets and VCs, any traffic, packet sizes, VC ranges, request
and reply types, numbers of simulations and batches, and any delays of the network:

* `TrafficTypes`: `Spec => []TypeOK`; with it, no source sends a VC more flits than it has slots
* `TrafficBooks`: `Spec => []BooksAgree`
* `TrafficStartsClean`: `Spec => StartsClean`

under the condition `Orderly`: all classes have the same priority, and connections are held
only where there is one subnet. BookSim's defaults satisfy it, and without it the code's own
assertions fail: the two cases are those under "Observations without a run".

All three come from `Holds`, `Spec => []Inv`. None of the parts of `BooksAgree` is inductive,
because each speaks of one place, and a step takes a flit from one place to the next. `Inv` says:

* `SourceGood`, of a source and the first router's buffers in front of it: a packet sent in
  part has one VC, which is in use and which no other packet has, its flits that are on the way have
  been sent already, are in order and are in the buffer of that VC.
* `SinkGood`, of the queues in front of the nodes: a flit that is ahead of another one of its
  packet is retired first, so a tail that arrives finds its head in `_retired_packets`.
* `World`: a flit is in `_total_in_flight_flits` if and only if it waits at its source, in the
  first router, or at its destination; with a flit all later ones of its packet are in the
  table (`Upward`), which is why a kept head tells that its tail is still to come.
* `Good`: the measured flits and the kept heads are those the table calls for, and
  `_requestsOutstanding` of a node counts its unanswered packets and the requests
  it waits a reply for at any node (`Requested`, a sum over the nodes, for which `FoldLemmas` is used).
* `CreditsGood`: the slots taken are flits in the buffer and credits on their way, VC by VC.
* `LoopGood`: what is known in each loop of `_SingleSim` and `Run`; once the one that
  empties the network has ended nothing is in flight, and nothing is made after that.

A `_Step` is a sequence of loops: over the classes of a node (`NodeInjects`), over the classes
for the flit to send (`TryKeeps`, `ChoiceMade`), over the subnets (`SendKeeps`, `AllSent`), and
over subnets and nodes to retire (`RetireKeeps`, `SubnetRetired`, `AllRetired`). Each is a recursive
function in the model, and a lemma shows by the least index that what one iteration keeps all of
them keep. `WorldInjected` and `WorldSent` put the sources together, and
`StepKeeps` the phases. The condition is used where a flit is chosen: since a later class never
takes the place of an earlier one, only the class that sends keeps the VC it has found, so
a head's VC is free when it is taken (`ChoiceMade`). `NameLeft` shows that a packet can always be
told from those in flight: there are more names than packets.
`TrafficStartsClean` is then `LoopGood`: with no flit in flight no packet is sent in part, hence no
VC is in use, and with no credit on its way, hence no slot is taken.

### Routing and networks: `RoutingProofs`

* `PatternsBalance`: `Spec => []PermutationTraffic`
* `CubesRoute`: `Spec => [](CubeRouted(config) => TypeOK /\ AlwaysRouted /\ Delivered)`, and
  `CubesTyped` for its first part. `CubeRouted` holds for a mesh or torus of any `k` and `n`
  with one of eighteen functions (`Enough` names them, each with the VCs it asserts or writes; three
  of them have numbers for 8 x 8 nodes in their code and ask for that size),
  VCs of the class within those of a router (`VCsFit`) and a pattern that names nodes
  (`Addressed`; `PatternsAddress` proves it of the permutations, uniform, background, taper64 and
  diagonal). `Delivered` is the safety half of `Arrives`: a flit is ejected at its destination only.
  Every mesh and torus of `MCRouting.cfg` but those of planar_adapt_mesh is one of these.
* `CubesShorten`: `Spec => [][... => Left(config, flit) \in Nat /\ Nearer(config)]_vars`. With the fourteen
  of these functions that are for meshes each hop takes one from `Left`, the length of a shortest path to the
  destination, or to the intermediate node and on from there once a flit in phase 0 has drawn it
  (`Draws`). So none is routed round for ever, and `Arrives` asks for no more than that the flit is moved.
* `ChannelsMeet`: `Spec => [](Numbered(config) => Wired)`, where `Numbered` holds for meshes, tori,
  flies, fat trees, dragonflies, quad trees, tree4 and concentrated meshes with an even `k`. With
  an odd `k` (which `cmesh.cpp` does not refuse) the halves of an edge that
  the express channels join differ in length, and two of them enter at one router.

They hold for any set of option records with the sizes that the constructors set or ask for
(`SizesFit`, which TLC evaluates on its configurations). The options of a run do not change,
so `Wired` and `PermutationTraffic` are about functions of the options: the work is arithmetic.

What `powi`, `Digit` and `WithDigit` give comes from a few facts about division and remainder
(`DivModUnique`, `ProductAtMost`), and what a number is from its digits (`Value`): numbers
below `k^n` are the functions from digits to places, which is why the patterns are one to one.
Induction is again by the least counterexample (`AllNaturals`).

The wiring is argued once for all networks. If no two output ports have the same channel and
every input port has that of the output port which `peer` names, `peer` taking no
output port twice, the network is `WellJoined` (`MatchedJoined`: a map of a finite set into
itself that is one to one is onto). Each network then gives its `peer`: the neighbour's opposite port in a
mesh or torus (`CubePeer`), the router with a digit exchanged for the port in a fly or fat tree (`FlyPeer`,
`FatTreePeer`). Where every router has the same numbers of nodes and of channels (`Concentrated`:
dragonfly and cmesh), or a port's other end is again its own (`Paired`: the trees of a fixed size), one
lemma does this for all (`ConcentratedMeets`, `PairedMeets`). `InterleavedIs` shows that the interleaving that FatTree::_BuildNet computes with
divisions and remainders (`fattree.cpp:206`) is this exchange of a digit.

`CubesRoute` is about the flit. Its invariant (`Carried`) adds to the ranges of the flit's fields
what a function has written into it when it has left its source (`Begun`): `romm_mesh` and
`valiant_mesh` read an intermediate node and a phase, the ring functions a partition, that
only a result at the injection port sets. `CarriedNext` shows once that a hop keeps this if
the function's results are fit for such a flit (`Guides`), which is then one lemma for each
function. The lemma of a function says in particular that ejection is asked for at the
destination and not before, for which the hop must be toward a digit that differs
(`SomeUnmatched`, `DorPort`), and that the halves and blocks of VCs a function splits its range
into have VCs in them (`HalfIs`, `BlockIs`).

`CubesShorten` adds what lies behind a port: the neighbour up or down its dimension, as the channel's
number is that of the port (`CubeBehind`, `NumberedBy`); that a neighbour has one digit of its own
and the others of its neighbour (`DigitsKept`); and that the length of the way, the sum of the distances of
the digits, changes as the one term (`WayLess`, with `SumChange` of `FoldLemmas`). It is claimed for meshes
only: a function for tori goes on round a ring in the direction of the input port, and that this was the
shorter one at the entrance is a further part of an invariant.

### Only model-checked

* Everything temporal under fairness (`CreditsReturn`, `EveryFlitArrives`,
  `NoStarvation`, `FlitsLeave`, `Arrives`, `LoopsEnd`), which is beyond the prover.
* The fairness of `VCFifo` in `ImplementsVCFifo`; its safety part is proved.
* Of `Routing`: the wiring of flatfly and anynet, where a port is found by counting the
  channels before it; `AlwaysRouted` and `TypeOK` for planar_adapt_mesh, whose detours round faulty
  channels need an invariant of their own, and for the functions of the other networks, each of which needs an
  argument of its own; and `NoCyclicWait`.

## 6. Not modelled

* The socket: failures of a peer (`booksim_interface.cpp:106` would spin) are
  listed as hazards. The reset branch of `rtl_interface.sv`: both examples reset before
  the first flit.
* Statistics, power, traces, printing, the configuration parser, the random
  number generators: they feed nothing back into the behaviour but the
  convergence test, which is a free choice.
* `FeS2TrafficManager` with more than one subnetwork or class, with
  `hold_switch_for_packet`, or with VCs chosen by the routing function; its drain.
* The event-driven and the chaos router, alternatives to the input-queued one;
  only the routing functions of the chaos router are modelled.
* In the router: noq, vc_busy_when_full, flit priorities, TRACK_ counters,
  `internal_speedup` other than 1. Lookahead routing is a routing delay of 0.
* Routing: valiant_torus reads `ring_part` uninitialised, valiant_ni_torus compares `f->ph`
  with a phase it never has; the random choice of faulty channels is a parameter; channel
  latencies are in `Link`. No cyclic wait is claimed for chaos routing, anynet,
  ugal_dragonflynew and valiant_mesh (`waits = "none"`): the last two have one, and
  adaptive functions need wait_for_tail_credit (`waits = "all"`).
* In the traffic manager: age-based priorities and the network-age ones, noq,
  statistics, the credits returned by the sinks. The buffers that a source sends into have the
  private policy without wait_for_tail_credit (`IsFullFor`); the other policies are in `Link`.
  A drain is given up (`Unstable`) only while packets are outstanding, where
  `trafficmanager.cpp:1642` may do so right after the step that delivered the last one,
  and the run ends in the same way.

## 7. Plan

1. Proofs: `BooksAgree` for classes of different priority that use different VCs; the
   wiring of flatfly and anynet; `AlwaysRouted` for the functions of flies, trees and concentrated networks.
2. `EventRouter` and `ChaosRouter`: multi-queue counters, packets deflected but
   not lost. The runs are chosen so that each asks a question of its own;
   these would take the place of a further configuration above.
3. The drain of `FeS2TrafficManager`, once `Bridge` and `TrafficManager` share
   their loops.
