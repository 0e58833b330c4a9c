------------------------------- MODULE Router -------------------------------
(***************************************************************************)
(* IQRouter (routers/iq_router.cpp), the pipelined input-queued router.    *)
(* Every virtual channel x = <<input, vc>> of an input buffer goes through *)
(* idle, routing, vc_alloc and active; a VC that waits for a stage is in   *)
(* the queue of that stage.  A cycle reads the inputs, evaluates every     *)
(* stage (a queued VC gets the time its stage ends, and what it was        *)
(* granted), updates every stage in order, and writes the outputs.         *)
(*                                                                         *)
(* Left open: which output ports the routing function allows, and which    *)
(* matching of the requests an allocator returns (module Allocator has     *)
(* the allocators).  The buffers at the outputs have private VCs; the      *)
(* other policies, and the credits to the upstream routers, are in Link.   *)
(* Priorities are `none', noq is off.                                      *)
(***************************************************************************)
EXTENDS Integers, Sequences, FiniteSets

CONSTANTS Configs,     \* set of option records, of which Init chooses one
          InSize,      \* vc_buf_size of the inputs of this router
          OutSize,     \* vc_buf_size of the inputs behind its outputs
          MaxLength    \* bound: flits of a packet

(* mode: "plain", or speculative switch allocation with a second allocator *)
(* ("spec"), by priority ("prio"), or with piggybacked VC allocation;      *)
(* hold: hold_switch_for_packet; routing, vca, swa, crossbar: the delays;  *)
(* lanesIn, lanesOut: the input and output speedup.                        *)
Modes == {"plain", "spec", "prio", "piggyback"}

ASSUME RouterAssumption ==
  /\ InSize \in Nat \ {0} /\ OutSize \in Nat \ {0} /\ MaxLength \in Nat \ {0}
  /\ \A c \in Configs :
       /\ c.inputs \in Nat \ {0} /\ c.outputs \in Nat \ {0} /\ c.vcs \in Nat \ {0}
       /\ c.mode \in Modes /\ c.hold \in BOOLEAN /\ c.routing \in Nat
       /\ {c.vca, c.swa, c.crossbar, c.lanesIn, c.lanesOut} \subseteq Nat \ {0}
       /\ c.outBufSize \in Nat \cup {-1}

VARIABLES config,
          buf,       \* _buf: the flits of each VC
          got,       \* flits of the packet that is arriving at each VC
          state,     \* VC::_state
          routes,    \* VC::_route_set: the output ports it names
          out,       \* VC::_out_port and _out_vc
          routeQ, vcQ, holdQ, swQ,     \* _route_vcs, _vc_alloc_vcs, _sw_hold_vcs, _sw_alloc_vcs
          vcMatch,   \* what _vc_allocator assigned in this cycle
          holdVc, holdIn, holdOut,     \* _switch_hold_vc, _switch_hold_in, _switch_hold_out
          offset,    \* _sw_rr_offset
          occ, inUse,                  \* _next_buf: _vc_occupancy, _in_use_by
          crossbar,  \* _crossbar_flits
          outBuf,    \* _output_buffer
          active,    \* _active
          activity,  \* the local of _InternalStep that _active is set to
          failed,    \* the assertion that has failed
          phase

vcVars == <<buf, state, routes, out>>
queues == <<routeQ, vcQ, holdQ, swQ>>
holdVars == <<holdVc, holdIn, holdOut>>
nextVars == <<occ, inUse>>
vars == <<config, got, vcVars, queues, vcMatch, holdVars, offset, nextVars, crossbar,
          outBuf, active, activity, failed, phase>>

Input == 0 .. config.inputs - 1
Output == 0 .. config.outputs - 1
VC == 0 .. config.vcs - 1
InVC == Input \X VC
OutVC == Output \X VC
LaneIn == Input \X (0 .. config.lanesIn - 1)
LaneOut == Output \X (0 .. config.lanesOut - 1)

Speculative == config.mode # "plain"
Piggyback == config.mode = "piggyback"

(* expanded_input and expanded_output *)
ExpandedInput(x) == <<x[1], x[2] % config.lanesIn>>
ExpandedOutput(x, o) == <<o, x[1] % config.lanesOut>>

None == <<-1, -1>>    \* no output, no grant
NotYet == -1          \* the time of a queued VC that has not been evaluated
Fresh == [due |-> NotYet, grant |-> None]

Init ==
  /\ config \in Configs
  /\ buf = [x \in InVC |-> <<>>] /\ got = [x \in InVC |-> 0]
  /\ state = [x \in InVC |-> "idle"] /\ routes = [x \in InVC |-> {}]
  /\ out = [x \in InVC |-> None]
  /\ routeQ = <<>> /\ vcQ = <<>> /\ holdQ = <<>> /\ swQ = <<>> /\ vcMatch = <<>>
  /\ holdVc = [e \in LaneIn |-> NotYet] /\ holdIn = [e \in LaneIn |-> None]
  /\ holdOut = [e \in LaneOut |-> None]
  /\ offset = [e \in LaneIn |-> e[2]]
  /\ occ = [w \in OutVC |-> 0] /\ inUse = [w \in OutVC |-> FALSE]
  /\ crossbar = <<>> /\ outBuf = [o \in Output |-> <<>>]
  /\ active = FALSE /\ activity = FALSE /\ failed = "" /\ phase = "read"

(* BufferState::IsAvailableFor, and IsFullFor with private buffers *)
IsAvailableFor(w) == ~inUse[w]
IsFullFor(w) == occ[w] >= OutSize
Empty(x) == buf[x] = <<>>

-----------------------------------------------------------------------------
(* f, with the values g gives where it gives one. *)
Overlay(f, g) == [x \in DOMAIN f \cup DOMAIN g |-> IF x \in DOMAIN g THEN g[x] ELSE f[x]]

(* The queues: functions from the VCs in them. *)
Enqueue(q, X) == Overlay(q, [x \in X |-> Fresh])
Dequeue(q, X) == [x \in DOMAIN q \ X |-> q[x]]
Waiting(q) == {x \in DOMAIN q : q[x].due = NotYet}
Due(q) == {x \in DOMAIN q : q[x].due = 0}
Evaluated(q, delay) == [x \in DOMAIN q |->
  IF q[x].due = NotYet THEN [q[x] EXCEPT !.due = delay - 1] ELSE q[x]]
Older(q) == [x \in DOMAIN q |-> IF q[x].due > 0 THEN [q[x] EXCEPT !.due = @ - 1] ELSE q[x]]

(* A new head is at the front of the VCs X, whose packets r routes: it is  *)
(* routed here, or was routed one hop ahead (routing_delay = 0).           *)
Routes(X) == [X -> (SUBSET Output) \ {{}}]
NewHeads(st, X) == Overlay(st, [x \in X |-> IF config.routing > 0 THEN "routing" ELSE "vc_alloc"])
ToRoute(q, X) == IF config.routing > 0 THEN Enqueue(q, X) ELSE q
ToAllocateVC(q, X) == IF config.routing > 0 \/ Piggyback THEN q ELSE Enqueue(q, X)
ToSpeculateAlways(q, X) ==  \* mutant: without asking whether the router speculates
  IF config.routing = 0 THEN Enqueue(q, X) ELSE q
ToSpeculate(q, X) == IF config.routing = 0 /\ Speculative THEN Enqueue(q, X) ELSE q
LookedAhead(X) == IF config.routing > 0 THEN {} ELSE X

-----------------------------------------------------------------------------
(* _ReceiveFlits, _ReceiveCredits and _InputQueuing.  Upstream a flit is   *)
(* sent where there is room, and packets do not mix on a VC; downstream    *)
(* slots are given back in any order, one credit per output and cycle.     *)
Arriving(x, tail) == [head |-> got[x] = 0, tail |-> tail]
Fitting == {x \in InVC : Len(buf[x]) < InSize}
Arrivals == {A \in SUBSET Fitting : \A x, y \in A : x[1] = y[1] => x = y}
Departed(w) == occ[w] - Cardinality({n \in DOMAIN crossbar : crossbar[n].to = w})
                      - Cardinality({n \in DOMAIN outBuf[w[1]] : outBuf[w[1]][n] = w})
Credits == SUBSET {w \in OutVC : Departed(w) > 0}

ReadInputs ==
  \E A \in Arrivals, C \in Credits :
  \E tail \in [A -> BOOLEAN] :
    LET heads   == {x \in A : state[x] = "idle"}
        resumed == {x \in A : state[x] = "active" /\ Empty(x)}
        held    == {x \in resumed : holdVc[ExpandedInput(x)] = x[2]}
        awake   == active \/ A # {} \/ C # {}
    IN  \E r \in Routes(LookedAhead(heads)) :
        /\ phase = "read" /\ failed = ""
        /\ \A x \in A : got[x] = MaxLength - 1 => tail[x]
        /\ buf' = Overlay(buf, [x \in A |-> Append(buf[x], Arriving(x, tail[x]))])
        /\ got' = Overlay(got, [x \in A |-> IF tail[x] THEN 0 ELSE got[x] + 1])
        /\ state' = NewHeads(state, heads)
        /\ routes' = Overlay(routes, r)
        /\ out' = Overlay(out, [x \in LookedAhead(heads) |-> None])
        /\ routeQ' = ToRoute(routeQ, heads)
        /\ vcQ' = ToAllocateVC(vcQ, heads)
        /\ holdQ' = Enqueue(holdQ, held)
        /\ swQ' = Enqueue(ToSpeculate(swQ, heads), resumed \ held)
        /\ occ' = [w \in OutVC |-> IF w \in C THEN occ[w] - 1 ELSE occ[w]]
        /\ active' = awake /\ activity' = FALSE
        /\ phase' = IF awake THEN "vc_alloc" ELSE "write"
        /\ UNCHANGED <<config, vcMatch, holdVars, offset, inUse, crossbar, outBuf, failed>>

-----------------------------------------------------------------------------
(* _RouteEvaluate and _VCAllocEvaluate.  A VC asks for every free VC of    *)
(* the ports it may take; a grant that is still in the pipeline is dropped *)
(* if its VC has been taken meanwhile.                                     *)
VCRequests ==
  {a \in Waiting(vcQ) \X OutVC : a[2][1] \in routes[a[1]] /\ IsAvailableFor(a[2])}

(* An allocator grants some of the requests: one output each, one input    *)
(* each, and not nothing (Matching and WastesNothing of Allocator).        *)
Matchings(R) == {M \in SUBSET R : /\ \A a, b \in M : a[1] = b[1] \/ a[2] = b[2] => a = b
                                  /\ R # {} => M # {}}
AssignedTo(M, x) == IF \E a \in M : a[1] = x THEN (CHOOSE a \in M : a[1] = x)[2] ELSE None

VCAllocEvaluate ==
  /\ phase = "vc_alloc" /\ failed = ""
  /\ \E M \in Matchings(VCRequests) :
       LET asked == Overlay(vcQ, [x \in Waiting(vcQ) |-> [due |-> config.vca - 1, grant |-> AssignedTo(M, x)]])
       IN  /\ vcMatch' = [x \in {a[1] : a \in M} |-> AssignedTo(M, x)]
           /\ vcQ' = [x \in DOMAIN asked |->
                IF /\ config.vca > 1 /\ asked[x].due = 0 /\ asked[x].grant # None
                   /\ ~IsAvailableFor(asked[x].grant)
                THEN [asked[x] EXCEPT !.grant = None] ELSE asked[x]]
  /\ routeQ' = Evaluated(routeQ, config.routing)
  /\ phase' = "sw_alloc"
  /\ UNCHANGED <<config, got, vcVars, holdQ, swQ, holdVars, offset, nextVars, crossbar, outBuf,
                 active, activity, failed>>

-----------------------------------------------------------------------------
(* _SWHoldEvaluate, _SWAllocEvaluate and _SwitchEvaluate.                  *)
OutputFull(o) == config.outBufSize # -1 /\ Len(outBuf[o]) >= config.outBufSize
Unheld(x, o) == /\ holdIn[ExpandedInput(x)] = None
                /\ holdOut[ExpandedOutput(x, o)] = None

CouldTake(o) == \E v \in VC : /\ IsAvailableFor(<<o, v>>) /\ ~IsFullFor(<<o, v>>)
                              /\ ~OutputFull(o)

(* An active VC asks for its output, a VC without one speculates on every  *)
(* output it may take (spec_check_elig, spec_check_cred).  One output that *)
(* cannot be had makes the code ignore the grants for the others, too.     *)
Stalled(x) == IF state[x] = "active"
              THEN IsFullFor(out[x]) \/ OutputFull(out[x][1])
              ELSE \E o \in routes[x] : ~CouldTake(o)
FirmRequests ==
  {a \in Waiting(swQ) \X Output : /\ state[a[1]] = "active" /\ ~Stalled(a[1])
                                  /\ a[2] = out[a[1]][1] /\ Unheld(a[1], a[2])}
SpecRequests ==
  {a \in Waiting(swQ) \X Output : /\ state[a[1]] = "vc_alloc" /\ a[2] \in routes[a[1]]
                                  /\ CouldTake(a[2]) /\ Unheld(a[1], a[2])}

(* _SWAllocAddReq: of the VCs that share a port of the switch and ask for  *)
(* the same output, the non-speculative come first, then the next in turn. *)
Turn(x) == (x[2] - offset[ExpandedInput(x)] + config.vcs) % config.vcs
Supersedes(x, y) == IF state[x] = state[y] THEN Turn(x) < Turn(y) ELSE state[x] = "active"
Lanes(a) == <<ExpandedInput(a[1]), ExpandedOutput(a[1], a[2])>>
Labelled(R) == {a \in R : \A b \in R : Lanes(a) = Lanes(b) /\ a # b => Supersedes(a[1], b[1])}
SwitchMatchings(R) == Matchings({Lanes(a) : a \in R})

Won(R, M, x) == LET e == AssignedTo(M, ExpandedInput(x))
                IN  \E a \in Labelled(R) : a[1] = x /\ Lanes(a) = <<ExpandedInput(x), e>>

(* What is granted to x: M are the grants among the requests R, MS those   *)
(* of the speculative allocator, which yield to any of M.                  *)
SwitchGrant(R, M, MS, x) ==
  LET e == AssignedTo(M, ExpandedInput(x))
      s == AssignedTo(MS, ExpandedInput(x))
  IN  IF Stalled(x) THEN None
      ELSE IF e # None THEN IF Won(R, M, x) THEN e ELSE None
      ELSE IF /\ s # None /\ \A a \in M : a[2] # s
              /\ Won(SpecRequests, MS, x) THEN s ELSE None

UsableAnyPort(x, e) ==  \* mutant: the port of the allocated VC is not compared
  /\ holdIn[ExpandedInput(x)] = None /\ holdOut[e] = None
  /\ IF state[x] = "active" THEN ~IsFullFor(out[x])
     ELSE IF Piggyback THEN \E v \in VC : IsAvailableFor(<<e[1], v>>) /\ ~IsFullFor(<<e[1], v>>)
     ELSE x \in DOMAIN vcMatch /\ ~IsFullFor(vcMatch[x])

UsableUnpaid(x, e) ==  \* mutant: no credit is asked of the allocated VC
  /\ holdIn[ExpandedInput(x)] = None /\ holdOut[e] = None
  /\ IF state[x] = "active" THEN ~IsFullFor(out[x])
     ELSE IF Piggyback THEN \E v \in VC : IsAvailableFor(<<e[1], v>>) /\ ~IsFullFor(<<e[1], v>>)
     ELSE x \in DOMAIN vcMatch /\ vcMatch[x][1] = e[1]

(* A grant is dropped when its cycle comes if it cannot be used any more:  *)
(* its lanes are held, its VC has no room, or it speculated wrongly.       *)
Usable(x, e) ==
  /\ holdIn[ExpandedInput(x)] = None /\ holdOut[e] = None
  /\ IF state[x] = "active" THEN ~IsFullFor(out[x])
     ELSE IF Piggyback THEN \E v \in VC : IsAvailableFor(<<e[1], v>>) /\ ~IsFullFor(<<e[1], v>>)
     ELSE /\ x \in DOMAIN vcMatch /\ vcMatch[x][1] = e[1] /\ ~IsFullFor(vcMatch[x])

NextTurnUnwrapped(x) == x[2] + config.lanesIn  \* mutant: does not go round
NextTurn(x) == (x[2] + config.lanesIn) % config.vcs

(* _SWHoldEvaluate: a held VC keeps its connection if there is room.       *)
SWHoldEvaluated == [x \in DOMAIN holdQ |->
  [due |-> 0, grant |-> IF IsFullFor(out[x]) THEN None ELSE ExpandedOutput(x, out[x][1])]]

(* _SwitchEvaluate: a flit that has just left its buffer enters the switch. *)
SwitchEvaluated == [n \in DOMAIN crossbar |->
  IF crossbar[n].due = NotYet THEN [crossbar[n] EXCEPT !.due = config.crossbar - 1]
  ELSE crossbar[n]]

SWAllocEvaluate ==
  LET R == IF config.mode = "spec" THEN FirmRequests ELSE FirmRequests \cup SpecRequests
  IN  /\ phase = "sw_alloc" /\ failed = ""
      /\ \E M \in SwitchMatchings(R) :
         \E MS \in IF config.mode = "spec" THEN SwitchMatchings(SpecRequests) ELSE {{}} :
           LET asked == Overlay(swQ, [x \in Waiting(swQ) |-> [due   |-> config.swa - 1,
                                                              grant |-> SwitchGrant(R, M, MS, x)]])
               granted == {x \in Waiting(swQ) : asked[x].grant # None}
               checked == IF Speculative \/ config.swa > 1
                          THEN {x \in Due(asked) : asked[x].grant # None} ELSE {}
           IN  /\ swQ' = [x \in DOMAIN asked |->
                    IF x \in checked /\ ~Usable(x, asked[x].grant)
                    THEN [asked[x] EXCEPT !.grant = None] ELSE asked[x]]
               /\ offset' = [e \in LaneIn |->
                    IF \E x \in granted : ExpandedInput(x) = e
                    THEN NextTurn(CHOOSE x \in granted : ExpandedInput(x) = e)
                    ELSE offset[e]]
               /\ failed' = IF \E x \in checked : state[x] = "active" /\ out[x][1] # asked[x].grant[1]
                            THEN "GetOutputPort(vc) == output" ELSE failed
      /\ holdQ' = SWHoldEvaluated
      /\ crossbar' = SwitchEvaluated
      /\ phase' = "route_update"
      /\ UNCHANGED <<config, got, vcVars, routeQ, vcQ, vcMatch, holdVars, nextVars, outBuf,
                     active, activity>>

-----------------------------------------------------------------------------
(* _RouteUpdate *)
RouteUpdate ==
  LET X == Due(routeQ)
  IN  /\ phase = "route_update" /\ failed = ""
      /\ \E r \in Routes(X) : routes' = Overlay(routes, r)
      /\ state' = Overlay(state, [x \in X |-> "vc_alloc"])
      /\ out' = Overlay(out, [x \in X |-> None])
      /\ routeQ' = Dequeue(routeQ, X)
      /\ vcQ' = IF Piggyback THEN vcQ ELSE Enqueue(vcQ, X)
      /\ swQ' = IF Speculative THEN Enqueue(swQ, X) ELSE swQ
      /\ activity' = (activity \/ routeQ' # <<>>)
      /\ phase' = "vc_update"
      /\ UNCHANGED <<config, got, buf, holdQ, vcMatch, holdVars, offset, nextVars, crossbar, outBuf,
                     active, failed>>

(* _VCAllocUpdate: TakeBuffer and SetOutput, or another try. *)
VCAllocUpdate ==
  LET X == {x \in Due(vcQ) : vcQ[x].grant # None}
  IN  /\ phase = "vc_update" /\ failed = ""
      /\ failed' = IF \A x \in X : IsAvailableFor(vcQ[x].grant) THEN failed
                   ELSE "dest_buf->IsAvailableFor(match_vc)"
      /\ out' = Overlay(out, [x \in X |-> vcQ[x].grant])
      /\ state' = Overlay(state, [x \in X |-> "active"])
      /\ inUse' = [w \in OutVC |-> inUse[w] \/ \E x \in X : vcQ[x].grant = w]
      /\ vcQ' = Enqueue(Dequeue(vcQ, X), Due(vcQ) \ X)
      /\ swQ' = IF Speculative THEN swQ ELSE Enqueue(swQ, X)
      /\ activity' = (activity \/ vcQ' # <<>>)
      /\ phase' = IF config.hold THEN "sw_hold_update" ELSE "sw_update"
      /\ UNCHANGED <<config, got, buf, routes, routeQ, holdQ, vcMatch, holdVars, offset, occ,
                     crossbar, outBuf, active>>

-----------------------------------------------------------------------------
KeepsVCAlways(f) == TRUE  \* mutant: the tail does not give the VC up

(* A packet keeps its VC downstream until its tail is sent. *)
KeepsVC(f) == ~f.tail

(* The front flit of x leaves for VC w over lane e of the switch, and the  *)
(* VC goes on to its next packet, if there is one (RemoveFlit, SendingFlit *)
(* and what both updates do after it).                                     *)
Forward(x, e, w) ==
  LET f == Head(buf[x])
      next == IF f.tail /\ Len(buf[x]) > 1 THEN {x} ELSE {}
  IN  /\ buf' = [buf EXCEPT ![x] = Tail(@)]
      /\ occ' = [occ EXCEPT ![w] = @ + 1]
      /\ inUse' = [inUse EXCEPT ![w] = KeepsVC(f)]
      /\ crossbar' = Append(crossbar, [due |-> NotYet, to |-> w])
      /\ state' = IF f.tail THEN NewHeads([state EXCEPT ![x] = "idle"], next)
                  ELSE [state EXCEPT ![x] = "active"]
      /\ \E r \in Routes(LookedAhead(next)) : routes' = Overlay(routes, r)
      /\ out' = [out EXCEPT ![x] = IF f.tail /\ LookedAhead(next) # {} THEN None ELSE w]
      /\ routeQ' = ToRoute(routeQ, next)
      /\ vcQ' = ToAllocateVC(vcQ, next)

SetHold(x, e, v, in, o) ==
  /\ holdVc' = [holdVc EXCEPT ![ExpandedInput(x)] = v]
  /\ holdIn' = [holdIn EXCEPT ![ExpandedInput(x)] = in]
  /\ holdOut' = [holdOut EXCEPT ![e] = o]
ReleaseInput(x) ==  \* mutant: the output lane stays held
  /\ holdVc' = [holdVc EXCEPT ![ExpandedInput(x)] = NotYet]
  /\ holdIn' = [holdIn EXCEPT ![ExpandedInput(x)] = None]
  /\ UNCHANGED holdOut
Release(x) == SetHold(x, holdIn[ExpandedInput(x)], NotYet, None, None)

(* What follows the front flit of x: the next packet, or more of this one. *)
NextPacket(x) == Head(buf[x]).tail /\ Len(buf[x]) > 1
GoesOn(x) == ~Head(buf[x]).tail /\ Len(buf[x]) > 1

(* What _SWHoldUpdate may take for a full output: it looks the buffer up   *)
(* by the number of the lane, and past the last buffer finds anything.     *)
HeldFull(e) ==
  IF e = None \/ config.outBufSize = -1 THEN {FALSE}
  ELSE LET o == e[1] * config.lanesOut + e[2]
       IN  IF o \in Output THEN {OutputFull(o)} ELSE BOOLEAN

(* _SWHoldUpdate for one VC: a held connection is used again, and given up *)
(* when the packet or the supply of flits ends, or nothing can be sent.    *)
SWHoldUpdate(x) ==
  /\ phase = "sw_hold_update" /\ failed = "" /\ x \in Due(holdQ)
  /\ \E full \in HeldFull(holdQ[x].grant) :
       LET e == holdQ[x].grant
           sends == e # None /\ ~full
           others == Dequeue(holdQ, {x})
       IN  /\ IF sends
              THEN /\ Forward(x, e, out[x])
                   /\ swQ' = IF NextPacket(x) THEN ToSpeculate(swQ, {x}) ELSE swQ
              ELSE /\ swQ' = Enqueue(swQ, {x})
                   /\ UNCHANGED <<vcVars, routeQ, vcQ, nextVars, crossbar>>
           /\ IF sends /\ GoesOn(x) THEN holdQ' = Enqueue(others, {x}) /\ UNCHANGED holdVars
                                    ELSE holdQ' = others /\ Release(x)
  /\ UNCHANGED <<config, got, vcMatch, offset, outBuf, active, activity, failed, phase>>

SWHoldDone ==
  /\ phase = "sw_hold_update" /\ failed = "" /\ Due(holdQ) = {}
  /\ activity' = (activity \/ holdQ # <<>>)
  /\ phase' = "sw_update"
  /\ UNCHANGED <<config, got, vcVars, queues, vcMatch, holdVars, offset, nextVars, crossbar, outBuf,
                 active, failed>>

-----------------------------------------------------------------------------
(* _SWAllocUpdate for one VC that was granted its lane.  A piggybacked     *)
(* grant picks the VC only now, any free one of the output (the code's     *)
(* choice goes round by _vc_rr_offset).  Within a cycle the VCs are        *)
(* updated in the order of the queue, here in any.                         *)
Pickable(x, o) == IF Piggyback /\ state[x] = "vc_alloc"
                  THEN {w \in OutVC : w[1] = o /\ o \in routes[x] /\ IsAvailableFor(w) /\ ~IsFullFor(w)}
                  ELSE {out[x]}

Broken(x, e) ==
  IF holdIn[ExpandedInput(x)] # None \/ holdOut[e] # None THEN "_switch_hold_in[expanded_input] < 0"
  ELSE IF Pickable(x, e[1]) = {} THEN "match_vc >= 0"
  ELSE IF \A w \in Pickable(x, e[1]) : w[1] # e[1] THEN "GetOutputPort(vc) == output"
  ELSE ""

SWAllocUpdate(x) ==
  LET e == swQ[x].grant
      others == Dequeue(swQ, {x})
  IN  /\ phase = "sw_update" /\ failed = "" /\ x \in Due(swQ) /\ e # None
      /\ failed' = Broken(x, e)
      /\ IF failed' # ""
         THEN UNCHANGED <<vcVars, queues, nextVars, crossbar, holdVars>>
         ELSE /\ \E w \in Pickable(x, e[1]) : Forward(x, e, w)
              /\ IF config.hold /\ GoesOn(x)
                 THEN /\ SetHold(x, e, x[2], e, ExpandedInput(x))
                      /\ holdQ' = Enqueue(holdQ, {x})
                 ELSE UNCHANGED <<holdQ, holdVars>>
              /\ swQ' = IF NextPacket(x) THEN ToSpeculate(others, {x})
                        ELSE IF GoesOn(x) /\ ~config.hold THEN Enqueue(others, {x})
                        ELSE others
      /\ UNCHANGED <<config, got, vcMatch, offset, outBuf, active, activity, phase>>

(* The VCs that were granted nothing try again. *)
SWAllocDone ==
  /\ phase = "sw_update" /\ failed = ""
  /\ \A x \in Due(swQ) : swQ[x].grant = None
  /\ swQ' = Enqueue(Dequeue(swQ, Due(swQ)), Due(swQ))
  /\ phase' = "switch_update"
  /\ UNCHANGED <<config, got, vcVars, routeQ, vcQ, holdQ, vcMatch, holdVars, offset, nextVars,
                 crossbar, outBuf, active, activity, failed>>

-----------------------------------------------------------------------------
(* _SwitchUpdate, one flit at a time: what has crossed the switch goes to  *)
(* the buffer of its output.                                               *)
OutputLimit == config.outBufSize + config.crossbar * config.lanesOut + config.lanesOut - 1
Crossed == crossbar # <<>> /\ Head(crossbar).due = 0

SwitchUpdate ==
  /\ phase = "switch_update" /\ failed = "" /\ Crossed
  /\ LET w == Head(crossbar).to
     IN  /\ outBuf' = [outBuf EXCEPT ![w[1]] = Append(@, w)]
         /\ failed' = IF config.outBufSize # -1 /\ Len(outBuf'[w[1]]) > OutputLimit
                      THEN "_output_buffer[output].size()" ELSE failed
  /\ crossbar' = Tail(crossbar)
  /\ UNCHANGED <<config, got, vcVars, queues, vcMatch, holdVars, offset, nextVars, active,
                 activity, phase>>

BusyWithRequests(q, flits) == q # <<>>  \* mutant: the flits in the switch do not count
BusyWith(q, flits) == q # <<>> \/ flits # <<>>

SwitchDone ==
  /\ phase = "switch_update" /\ failed = "" /\ ~Crossed
  /\ active' = (activity \/ BusyWith(swQ, crossbar))
  /\ phase' = "write"
  /\ UNCHANGED <<config, got, vcVars, queues, vcMatch, holdVars, offset, nextVars, crossbar,
                 outBuf, activity, failed>>

(* WriteOutputs: one flit leaves at each output; time goes on.             *)
WriteOutputs ==
  /\ phase = "write" /\ failed = ""
  /\ outBuf' = [o \in Output |-> IF outBuf[o] = <<>> THEN <<>> ELSE Tail(outBuf[o])]
  /\ routeQ' = Older(routeQ) /\ vcQ' = Older(vcQ) /\ swQ' = Older(swQ)
  /\ crossbar' = [n \in DOMAIN crossbar |->
       IF crossbar[n].due > 0 THEN [crossbar[n] EXCEPT !.due = @ - 1] ELSE crossbar[n]]
  /\ activity' = FALSE /\ vcMatch' = <<>>
  /\ phase' = "read"
  /\ UNCHANGED <<config, got, vcVars, holdQ, holdVars, offset, nextVars, active, failed>>

Next == \/ ReadInputs \/ VCAllocEvaluate \/ SWAllocEvaluate \/ RouteUpdate \/ VCAllocUpdate
        \/ \E x \in InVC : SWHoldUpdate(x)
        \/ SWHoldDone
        \/ \E x \in InVC : SWAllocUpdate(x)
        \/ SWAllocDone \/ SwitchUpdate \/ SwitchDone \/ WriteOutputs

Spec == Init /\ [][Next]_vars

(* Cycles never end.  The rest is the neighbours' part: downstream gives   *)
(* back a slot it can give back again and again, upstream sends the flits  *)
(* of a packet it has begun, and the allocators do not pass over a request *)
(* that is made again and again (NoStarvation of Allocator).               *)
AnyVC == UNION {(0 .. c.inputs - 1) \X (0 .. c.vcs - 1) : c \in Configs}
AnyOutVC == UNION {(0 .. c.outputs - 1) \X (0 .. c.vcs - 1) : c \in Configs}
FairSpec ==
  /\ Spec /\ WF_vars(Next)
  /\ \A w \in AnyOutVC : SF_vars(ReadInputs /\ w \in OutVC /\ occ'[w] < occ[w])
  /\ \A x \in AnyVC : /\ SF_vars(ReadInputs /\ x \in InVC /\ got[x] > 0 /\ buf'[x] # buf[x])
                      /\ SF_vars(VCAllocEvaluate /\ x \in DOMAIN vcMatch')
                      /\ SF_vars(SWAllocEvaluate /\ x \in DOMAIN swQ' /\ swQ'[x].grant # None)
-----------------------------------------------------------------------------
Flit == [head : BOOLEAN, tail : BOOLEAN]
Entries(due, grants) == [due : NotYet .. due, grant : grants \cup {None}]
QueueOK(q, due, grants) == DOMAIN q \subseteq InVC /\ q \in [DOMAIN q -> Entries(due, grants)]
Crossing == [due : NotYet .. config.crossbar - 1, to : OutVC]

TypeOK ==
  /\ config \in Configs
  /\ buf \in [InVC -> Seq(Flit)] /\ got \in [InVC -> 0 .. MaxLength - 1]
  /\ state \in [InVC -> {"idle", "routing", "vc_alloc", "active"}]
  /\ routes \in [InVC -> SUBSET Output] /\ out \in [InVC -> OutVC \cup {None}]
  /\ QueueOK(routeQ, config.routing, {}) /\ QueueOK(vcQ, config.vca, OutVC)
  /\ QueueOK(holdQ, 0, LaneOut) /\ QueueOK(swQ, config.swa, LaneOut)
  /\ holdVc \in [LaneIn -> VC \cup {NotYet}] /\ holdIn \in [LaneIn -> LaneOut \cup {None}]
  /\ holdOut \in [LaneOut -> LaneIn \cup {None}]
  /\ DOMAIN vcMatch \subseteq InVC /\ vcMatch \in [DOMAIN vcMatch -> OutVC]
  /\ occ \in [OutVC -> Nat] /\ inUse \in [OutVC -> BOOLEAN]
  /\ DOMAIN offset = LaneIn /\ \A e \in LaneIn : offset[e] \in VC \cup {e[2]}
  /\ crossbar \in Seq(Crossing) /\ outBuf \in [Output -> Seq(OutVC)]
  /\ active \in BOOLEAN /\ activity \in BOOLEAN

(***************************************************************************)
(* No assertion of the pipeline fails, whatever the delays and however the *)
(* stages overlap: a grant is used at the output its packet was given, no  *)
(* piggybacked grant finds its VC gone, no VC is taken twice.              *)
(***************************************************************************)
NoAssertionFails == failed = ""

(***************************************************************************)
(* A VC of an output belongs to exactly one packet, from the moment it is  *)
(* taken to the tail: packets are not interleaved downstream, and no VC    *)
(* stays taken for a packet that has gone (_VCAllocUpdate, the piggybacked *)
(* choice of _SWAllocUpdate, BufferState::SendingFlit).                    *)
(***************************************************************************)
Owners(w) == {x \in InVC : state[x] = "active" /\ out[x] = w}
VCOwned == \A w \in OutVC : Cardinality(Owners(w)) = IF inUse[w] THEN 1 ELSE 0

(***************************************************************************)
(* No flit is sent without a slot for it, although a grant may be several  *)
(* cycles old when it is used and a held connection asks nobody.           *)
(***************************************************************************)
NoOverflow == \A w \in OutVC : occ[w] <= OutSize

(***************************************************************************)
(* A VC waits in the queues its state calls for and in no other, whatever  *)
(* stage has just been updated: one that is in none would keep its packet  *)
(* for ever, one that is in a queue too many would be switched twice.      *)
(***************************************************************************)
InItsQueues == \A x \in InVC :
  /\ state[x] = "idle" => Empty(x)
  /\ state[x] \in {"routing", "vc_alloc"} => ~Empty(x)
  /\ x \in DOMAIN routeQ <=> state[x] = "routing"
  /\ x \in DOMAIN vcQ <=> state[x] = "vc_alloc" /\ ~Piggyback
  /\ state[x] = "vc_alloc" => (x \in DOMAIN swQ <=> Speculative)
  /\ state[x] = "active" => (~Empty(x) <=> (x \in DOMAIN swQ) # (x \in DOMAIN holdQ))
  /\ state[x] \in {"idle", "routing"} => x \notin DOMAIN swQ
  /\ state[x] # "active" => x \notin DOMAIN holdQ

(***************************************************************************)
(* The three tables of held connections agree, and a lane is held only for *)
(* an active VC with flits, which is in the queue that will use it: a      *)
(* connection left behind would shut the lane to every other packet.       *)
(***************************************************************************)
HoldsAgree ==
  /\ \A e \in LaneIn : (holdVc[e] = NotYet) <=> (holdIn[e] = None)
  /\ \A e \in LaneIn, f \in LaneOut : holdIn[e] = f <=> holdOut[f] = e
  /\ \A e \in LaneIn : holdVc[e] # NotYet =>
       LET x == <<e[1], holdVc[e]>>
       IN  /\ state[x] = "active" /\ ~Empty(x) /\ x \in DOMAIN holdQ
           /\ holdIn[e] = ExpandedOutput(x, out[x][1])

(***************************************************************************)
(* A router that has gone to sleep has nothing to do until the next flit   *)
(* or credit arrives.  Its activity flag is set by each stage before later *)
(* stages of the cycle put work into earlier queues.                       *)
(***************************************************************************)
SleepsOnlyWhenIdle == phase = "read" /\ ~active =>
  routeQ = <<>> /\ vcQ = <<>> /\ holdQ = <<>> /\ swQ = <<>> /\ crossbar = <<>>

(***************************************************************************)
(* No flit stays in the router for ever: a VC that holds flits sends one   *)
(* at last, whatever stage it is in, however often its grants are dropped  *)
(* and its held connection is taken away.                                  *)
(***************************************************************************)
Sends(x) == x \in InVC /\ ~Empty(x) /\ buf'[x] = Tail(buf[x])
FlitsLeave == \A x \in AnyVC :
  []<>(x \in InVC => Empty(x)) \/ []<><<Sends(x)>>_vars
=============================================================================
