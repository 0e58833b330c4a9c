---------------------------- MODULE RouterProofs ----------------------------
(***************************************************************************)
(* Router, for every set of configurations: an inductive invariant, which  *)
(* every action keeps, and what follows from it.  One lemma per action; a  *)
(* lemma proves the parts of IInv one by one, each from the new values of  *)
(* the few variables it speaks of.                                         *)
(***************************************************************************)
EXTENDS Router, SequenceTheorems, FiniteSetTheorems, TLAPS

(* The phases of a cycle; those in which the VC requests of this cycle     *)
(* have been answered and not yet used up, and those for the requests to   *)
(* the switch.                                                             *)
Phases == {"read", "vc_alloc", "sw_alloc", "route_update", "vc_update", "sw_hold_update",
           "sw_update", "switch_update", "write"}
Asked == {"sw_alloc", "route_update", "vc_update"}
Chosen == {"route_update", "vc_update", "sw_hold_update", "sw_update"}

(* The type invariant, with the phases it leaves open.                     *)
Typed == TypeOK /\ phase \in Phases

(* An active VC has its output VC; one that waits for a VC has none.       *)
OutputsSet == \A x \in InVC : /\ state[x] = "active" => out[x] \in OutVC
                              /\ state[x] = "vc_alloc" => out[x] = None

(* VCOwned without counting: a VC of an output is in use exactly if an     *)
(* active VC has it, and no two have the same.                             *)
Owned ==
  /\ \A w \in OutVC : inUse[w] <=> \E x \in InVC : state[x] = "active" /\ out[x] = w
  /\ \A x, y \in InVC : state[x] = "active" /\ state[y] = "active" /\ out[x] = out[y] => x = y

(* When the entries of the two allocators' queues are due: after an        *)
(* evaluation none is older than its delay, and once the update of its     *)
(* stage is over none is due now.                                          *)
Timed ==
  /\ \A x \in DOMAIN vcQ :
       /\ phase \in {"read", "vc_alloc"} => vcQ[x].due <= config.vca - 2
       /\ phase \in Asked => vcQ[x].due <= config.vca - 1
       /\ phase \notin Asked \cup {"read", "vc_alloc"} => vcQ[x].due # 0 /\ vcQ[x].due <= config.vca - 1
  /\ \A x \in DOMAIN swQ :
       /\ phase \in {"read", "vc_alloc", "sw_alloc"} => swQ[x].due <= config.swa - 2
       /\ phase \in Chosen => swQ[x].due <= config.swa - 1
       /\ phase \in {"switch_update", "write"} => swQ[x].due # 0 /\ swQ[x].due <= config.swa - 1

(* No VC is granted twice in the same cycle, a grant that is about to be   *)
(* used is of a free VC, and vcMatch is what the queue says was granted in *)
(* this cycle.                                                             *)
VCGrants ==
  /\ \A x, y \in DOMAIN vcQ : vcQ[x].due = vcQ[y].due /\ vcQ[x].grant = vcQ[y].grant
                              /\ vcQ[x].grant # None => x = y
  /\ phase \in Asked =>
       /\ \A x \in Due(vcQ) : vcQ[x].grant # None => ~inUse[vcQ[x].grant]
       /\ \A x \in DOMAIN vcMatch : x \in DOMAIN vcQ /\ vcQ[x].grant = vcMatch[x] /\ vcQ[x].due = config.vca - 1

(* The grants of the switch are of lanes of the right port, and those of   *)
(* one cycle share neither the input nor the output lane.                  *)
SWGrants ==
  /\ \A x \in DOMAIN swQ : swQ[x].grant # None => swQ[x].grant = ExpandedOutput(x, swQ[x].grant[1])
  /\ \A x, y \in DOMAIN swQ : swQ[x].due = swQ[y].due /\ swQ[x].grant # None /\ swQ[y].grant # None
        /\ (ExpandedInput(x) = ExpandedInput(y) \/ swQ[x].grant = swQ[y].grant) => x = y

(* The slots that are about to be used are there: a grant that is due in   *)
(* this cycle, and a held connection, has room in its VC downstream, and a *)
(* speculative grant has it in the VC it was matched with.  The VCs are    *)
(* distinct (Owned), so that one forwarded flit does not use the slot of   *)
(* another.                                                                *)
Paid ==
  phase \in Chosen =>
    /\ \A x \in Due(swQ) : swQ[x].grant # None =>
         /\ state[x] = "active" => occ[out[x]] < OutSize
         /\ phase \in {"route_update", "vc_update"} /\ state[x] = "vc_alloc" /\ ~Piggyback =>
              x \in DOMAIN vcMatch /\ occ[vcMatch[x]] < OutSize
    /\ \A x \in Due(holdQ) : holdQ[x].grant # None => occ[out[x]] < OutSize

(* The VCs in _sw_hold_vcs are exactly those the table of holds names,     *)
(* each on its own input lane; without hold_switch_for_packet there is     *)
(* none.                                                                   *)
Held ==
  /\ \A x \in InVC : x \in DOMAIN holdQ <=> holdVc[ExpandedInput(x)] = x[2]
  /\ \A e \in LaneIn : holdVc[e] # NotYet => ExpandedInput(<<e[1], holdVc[e]>>) = e
  /\ ~config.hold => DOMAIN holdQ = {}

(* What sets _active: a queue that a stage of this cycle has filled after  *)
(* its activity flag was computed is filled together with the switch,      *)
(* whose new flit keeps the router awake.                                  *)
HasFresh == \E n \in DOMAIN crossbar : crossbar[n].due = NotYet
Awake ==
  /\ phase = "vc_update" => activity \/ routeQ = <<>>
  /\ phase \in {"sw_hold_update", "sw_update", "switch_update"} => activity \/ HasFresh \/ (routeQ = <<>> /\ vcQ = <<>>)
  /\ phase \in {"sw_update", "switch_update"} => activity \/ HasFresh \/ holdQ = <<>>
  /\ phase \in {"read", "write"} =>
       active \/ (routeQ = <<>> /\ vcQ = <<>> /\ holdQ = <<>> /\ swQ = <<>> /\ crossbar = <<>>)

(* The inductive invariant.                                                *)
IInv == /\ Typed /\ OutputsSet /\ Owned /\ Timed /\ VCGrants /\ SWGrants /\ Paid /\ Held /\ Awake
        /\ NoOverflow /\ InItsQueues /\ HoldsAgree

-----------------------------------------------------------------------------
(* The options of the configuration Init chose are those RouterAssumption  *)
(* admits.                                                                 *)
LEMMA ConfigFacts ==
  ASSUME TypeOK
  PROVE  /\ config.inputs \in Nat \ {0} /\ config.outputs \in Nat \ {0} /\ config.vcs \in Nat \ {0}
         /\ config.mode \in Modes /\ config.hold \in BOOLEAN /\ config.routing \in Nat
         /\ config.vca \in Nat \ {0} /\ config.swa \in Nat \ {0} /\ config.crossbar \in Nat \ {0}
         /\ config.lanesIn \in Nat \ {0} /\ config.lanesOut \in Nat \ {0}
         /\ config.outBufSize \in Nat \cup {-1}
         /\ InSize \in Nat \ {0} /\ OutSize \in Nat \ {0} /\ MaxLength \in Nat \ {0}
BY RouterAssumption DEF TypeOK

(* The lanes of an input VC and of the outputs it may ask for are lanes of *)
(* this router.                                                            *)
LEMMA LaneFacts ==
  ASSUME TypeOK, NEW x \in InVC
  PROVE  /\ x = <<x[1], x[2]>> /\ x[1] \in Input /\ x[2] \in VC /\ x[1] \in Nat /\ x[2] \in Nat
         /\ ExpandedInput(x) \in LaneIn
         /\ \A o \in Output : ExpandedOutput(x, o) \in LaneOut
<1>1. x = <<x[1], x[2]>> /\ x[1] \in Input /\ x[2] \in VC /\ x[1] \in Nat /\ x[2] \in Nat
  BY ConfigFacts DEF InVC, Input, VC
<1>2. x[2] % config.lanesIn \in 0 .. config.lanesIn - 1 /\ x[1] % config.lanesOut \in 0 .. config.lanesOut - 1
  BY <1>1, ConfigFacts
<1>3. QED
  BY <1>1, <1>2 DEF LaneIn, LaneOut, ExpandedInput, ExpandedOutput

(* Putting VCs into a queue keeps its type (the vectors and deques of      *)
(* pairs of time and VC).                                                  *)
LEMMA EnqueueType ==
  ASSUME NEW q, NEW X \in SUBSET InVC, NEW due \in Nat, NEW grants, QueueOK(q, due, grants)
  PROVE  QueueOK(Enqueue(q, X), due, grants)
<1>1. Fresh \in Entries(due, grants)
  BY DEF Fresh, Entries, NotYet
<1>2. QED
  BY <1>1 DEF QueueOK, Enqueue, Overlay

(* A queue is empty as a function exactly if no VC is in it.               *)
LEMMA EmptyQueue ==
  ASSUME NEW q, NEW due, NEW grants, QueueOK(q, due, grants)
  PROVE  q = <<>> <=> DOMAIN q = {}
BY DEF QueueOK

(* Sets that depend on the configuration alone do not change while it does *)
(* not.                                                                    *)
LEMMA SameSets ==
  ASSUME config' = config
  PROVE  /\ InVC' = InVC /\ OutVC' = OutVC /\ LaneIn' = LaneIn /\ LaneOut' = LaneOut
         /\ Output' = Output /\ VC' = VC /\ Input' = Input
         /\ Piggyback' = Piggyback /\ Speculative' = Speculative /\ Crossing' = Crossing
BY DEF InVC, OutVC, LaneIn, LaneOut, Output, VC, Input, Piggyback, Speculative, Crossing

(* What an allocator assigned to a requester is what one of the grants     *)
(* gives it, or nothing.                                                   *)
LEMMA AssignedFacts ==
  ASSUME NEW M, NEW x
  PROVE  \/ /\ AssignedTo(M, x) = None /\ \A a \in M : a[1] # x
         \/ \E a \in M : a[1] = x /\ AssignedTo(M, x) = a[2]
<1>1. CASE \E a \in M : a[1] = x
  <2> DEFINE c == CHOOSE a \in M : a[1] = x
  <2>1. c \in M /\ c[1] = x
    BY <1>1
  <2>2. AssignedTo(M, x) = c[2]
    BY <1>1 DEF AssignedTo
  <2>3. QED
    BY <2>1, <2>2
<1>2. CASE ~\E a \in M : a[1] = x
  BY <1>2 DEF AssignedTo
<1>3. QED
  BY <1>1, <1>2

(* A step that changes nothing the invariant speaks of keeps it. *)
LEMMA StutterInv ==
  ASSUME IInv,
         UNCHANGED <<config, phase, got, vcMatch, offset, outBuf, active, activity>>,
         UNCHANGED <<buf, state, routes, out, routeQ, vcQ, holdQ, swQ>>,
         UNCHANGED <<occ, inUse, crossbar, holdVc, holdIn, holdOut>>
  PROVE  IInv'
<1>1. /\ InVC' = InVC /\ OutVC' = OutVC /\ LaneIn' = LaneIn /\ LaneOut' = LaneOut
      /\ Output' = Output /\ VC' = VC /\ Input' = Input
      /\ Piggyback' = Piggyback /\ Speculative' = Speculative /\ Crossing' = Crossing
  BY SameSets
<1>2. Typed'
  BY <1>1 DEF IInv, Typed, TypeOK, QueueOK
<1>3. OutputsSet' /\ Owned' /\ NoOverflow'
  BY <1>1 DEF IInv, OutputsSet, Owned, NoOverflow
<1>4. Timed' /\ VCGrants'
  BY DEF IInv, Timed, VCGrants, Due
<1>5. SWGrants' /\ Paid'
  BY <1>1 DEF IInv, SWGrants, Paid, Due, ExpandedInput, ExpandedOutput
<1>6. Held' /\ HoldsAgree'
  BY <1>1 DEF IInv, Held, HoldsAgree, Empty, ExpandedInput, ExpandedOutput
<1>7. Awake' /\ InItsQueues'
  BY <1>1 DEF IInv, Awake, HasFresh, InItsQueues, Empty
<1>8. QED
  BY <1>2, <1>3, <1>4, <1>5, <1>6, <1>7 DEF IInv

(* A router that has just been built satisfies the invariant.              *)
LEMMA InitInv == Init => IInv
<1> SUFFICES ASSUME Init PROVE IInv
  OBVIOUS
<1>1. /\ config \in Configs /\ phase = "read" /\ active = FALSE /\ activity = FALSE
      /\ routeQ = <<>> /\ vcQ = <<>> /\ holdQ = <<>> /\ swQ = <<>> /\ vcMatch = <<>>
      /\ crossbar = <<>>
  BY DEF Init
<1>2. /\ buf = [x \in InVC |-> <<>>] /\ got = [x \in InVC |-> 0]
      /\ state = [x \in InVC |-> "idle"] /\ routes = [x \in InVC |-> {}]
      /\ out = [x \in InVC |-> None]
  BY DEF Init
<1>3. /\ occ = [w \in OutVC |-> 0] /\ inUse = [w \in OutVC |-> FALSE]
      /\ outBuf = [o \in Output |-> <<>>]
  BY DEF Init
<1>4. /\ holdVc = [e \in LaneIn |-> NotYet] /\ holdIn = [e \in LaneIn |-> None]
      /\ holdOut = [e \in LaneOut |-> None] /\ offset = [e \in LaneIn |-> e[2]]
  BY DEF Init
<1>5. TypeOK
  <2>1. /\ buf \in [InVC -> Seq(Flit)] /\ got \in [InVC -> 0 .. MaxLength - 1]
        /\ state \in [InVC -> {"idle", "routing", "vc_alloc", "active"}]
        /\ routes \in [InVC -> SUBSET Output] /\ out \in [InVC -> OutVC \cup {None}]
    BY <1>2, RouterAssumption
  <2>2. /\ QueueOK(routeQ, config.routing, {}) /\ QueueOK(vcQ, config.vca, OutVC)
        /\ QueueOK(holdQ, 0, LaneOut) /\ QueueOK(swQ, config.swa, LaneOut)
    BY <1>1 DEF QueueOK
  <2>3. /\ occ \in [OutVC -> Nat] /\ inUse \in [OutVC -> BOOLEAN]
        /\ outBuf \in [Output -> Seq(OutVC)] /\ crossbar \in Seq(Crossing)
    BY <1>1, <1>3
  <2>4. /\ holdVc \in [LaneIn -> VC \cup {NotYet}] /\ holdIn \in [LaneIn -> LaneOut \cup {None}]
        /\ holdOut \in [LaneOut -> LaneIn \cup {None}]
        /\ DOMAIN offset = LaneIn /\ \A e \in LaneIn : offset[e] \in VC \cup {e[2]}
    BY <1>4
  <2>5. DOMAIN vcMatch \subseteq InVC /\ vcMatch \in [DOMAIN vcMatch -> OutVC]
    BY <1>1
  <2>6. QED
    BY <1>1, <2>1, <2>2, <2>3, <2>4, <2>5 DEF TypeOK
<1>6. Typed
  BY <1>1, <1>5 DEF Typed, Phases
<1>7. OutputsSet /\ Owned
  BY <1>2, <1>3 DEF OutputsSet, Owned
<1>8. Timed /\ VCGrants /\ SWGrants /\ Paid
  BY <1>1 DEF Timed, VCGrants, SWGrants, Paid, Asked, Chosen
<1>9. Held
  BY <1>1, <1>4, <1>5, ConfigFacts, LaneFacts DEF Held, NotYet, VC
<1>10. Awake
  BY <1>1 DEF Awake
<1>11. NoOverflow
  BY <1>3, RouterAssumption DEF NoOverflow
<1>12. InItsQueues
  BY <1>1, <1>2 DEF InItsQueues, Empty
<1>13. HoldsAgree
  <2>1. \A e \in LaneIn : e # None
    BY DEF LaneIn, Input, None
  <2>2. \A e \in LaneOut : e # None
    BY DEF LaneOut, Output, None
  <2>3. QED
    BY <1>4, <2>1, <2>2 DEF HoldsAgree
<1>14. QED
  BY <1>6, <1>7, <1>8, <1>9, <1>10, <1>11, <1>12, <1>13 DEF IInv

(* The three queues a new head may be put into keep their types.           *)
LEMMA QueueTypes ==
  ASSUME TypeOK, NEW X \in SUBSET InVC
  PROVE  /\ \A q : QueueOK(q, config.routing, {}) => QueueOK(ToRoute(q, X), config.routing, {})
         /\ \A q : QueueOK(q, config.vca, OutVC) => QueueOK(ToAllocateVC(q, X), config.vca, OutVC)
         /\ \A q : QueueOK(q, config.swa, LaneOut) => QueueOK(ToSpeculate(q, X), config.swa, LaneOut)
<1>1. config.routing \in Nat /\ config.vca \in Nat /\ config.swa \in Nat
  BY ConfigFacts
<1>2. \A q : QueueOK(q, config.routing, {}) => QueueOK(Enqueue(q, X), config.routing, {})
  BY <1>1, EnqueueType
<1>3. \A q : QueueOK(q, config.vca, OutVC) => QueueOK(Enqueue(q, X), config.vca, OutVC)
  BY <1>1, EnqueueType
<1>4. \A q : QueueOK(q, config.swa, LaneOut) => QueueOK(Enqueue(q, X), config.swa, LaneOut)
  BY <1>1, EnqueueType
<1>5. QED
  BY <1>2, <1>3, <1>4 DEF ToRoute, ToAllocateVC, ToSpeculate

-----------------------------------------------------------------------------
(* Receiving flits and credits keeps the invariant: a flit of an active VC *)
(* that held a lane never finds the VC empty, so no arrival goes to        *)
(* _sw_hold_vcs from here.                                                 *)
LEMMA ReadInputsInv ==
  ASSUME IInv, ReadInputs
  PROVE  IInv'
<1>1. PICK A \in Arrivals, C \in Credits : \E tail \in [A -> BOOLEAN] :
        LET heads   == {x \in A : state[x] = "idle"}
            resumed == {x \in A : state[x] = "active" /\ Empty(x)}
            held    == {x \in resumed : holdVc[ExpandedInput(x)] = x[2]}
            awake   == active \/ A # {} \/ C # {}
        IN  \E r \in Routes(LookedAhead(heads)) :
        /\ phase = "read" /\ failed = ""
        /\ \A x \in A : got[x] = MaxLength - 1 => tail[x]
        /\ buf' = Overlay(buf, [x \in A |-> Append(buf[x], Arriving(x, tail[x]))])
        /\ got' = Overlay(got, [x \in A |-> IF tail[x] THEN 0 ELSE got[x] + 1])
        /\ state' = NewHeads(state, heads)
        /\ routes' = Overlay(routes, r)
        /\ out' = Overlay(out, [x \in LookedAhead(heads) |-> None])
        /\ routeQ' = ToRoute(routeQ, heads)
        /\ vcQ' = ToAllocateVC(vcQ, heads)
        /\ holdQ' = Enqueue(holdQ, held)
        /\ swQ' = Enqueue(ToSpeculate(swQ, heads), resumed \ held)
        /\ occ' = [w \in OutVC |-> IF w \in C THEN occ[w] - 1 ELSE occ[w]]
        /\ active' = awake /\ activity' = FALSE
        /\ phase' = IF awake THEN "vc_alloc" ELSE "write"
        /\ UNCHANGED <<config, vcMatch, holdVars, offset, inUse, crossbar, outBuf, failed>>
  BY DEF ReadInputs
<1> DEFINE heads   == {x \in A : state[x] = "idle"}
           resumed == {x \in A : state[x] = "active" /\ Empty(x)}
           held    == {x \in resumed : holdVc[ExpandedInput(x)] = x[2]}
           awake   == active \/ A # {} \/ C # {}
<1>2. PICK tail \in [A -> BOOLEAN], r \in Routes(LookedAhead(heads)) :
        /\ \A x \in A : got[x] = MaxLength - 1 => tail[x]
        /\ buf' = Overlay(buf, [x \in A |-> Append(buf[x], Arriving(x, tail[x]))])
        /\ got' = Overlay(got, [x \in A |-> IF tail[x] THEN 0 ELSE got[x] + 1])
        /\ state' = NewHeads(state, heads)
        /\ routes' = Overlay(routes, r)
        /\ out' = Overlay(out, [x \in LookedAhead(heads) |-> None])
        /\ routeQ' = ToRoute(routeQ, heads)
        /\ vcQ' = ToAllocateVC(vcQ, heads)
        /\ holdQ' = Enqueue(holdQ, held)
        /\ swQ' = Enqueue(ToSpeculate(swQ, heads), resumed \ held)
        /\ occ' = [w \in OutVC |-> IF w \in C THEN occ[w] - 1 ELSE occ[w]]
        /\ active' = awake
        /\ phase' = IF awake THEN "vc_alloc" ELSE "write"
  BY <1>1
<1>3. /\ phase = "read" /\ UNCHANGED <<config, vcMatch, holdVc, holdIn, holdOut>>
      /\ UNCHANGED <<offset, inUse, crossbar, outBuf>> /\ activity' = FALSE
  BY ZenonT(40) DEF ReadInputs, holdVars
<1>4. /\ InVC' = InVC /\ OutVC' = OutVC /\ LaneIn' = LaneIn /\ LaneOut' = LaneOut
      /\ Output' = Output /\ VC' = VC /\ Input' = Input
      /\ Piggyback' = Piggyback /\ Speculative' = Speculative /\ Crossing' = Crossing
  BY <1>3, SameSets
<1>5. /\ TypeOK
      /\ QueueOK(routeQ, config.routing, {}) /\ QueueOK(vcQ, config.vca, OutVC)
      /\ QueueOK(holdQ, 0, LaneOut) /\ QueueOK(swQ, config.swa, LaneOut)
      /\ config.routing \in Nat /\ config.vca \in Nat \ {0} /\ config.swa \in Nat \ {0}
      /\ state \in [InVC -> {"idle", "routing", "vc_alloc", "active"}]
      /\ out \in [InVC -> OutVC \cup {None}] /\ routes \in [InVC -> SUBSET Output]
      /\ buf \in [InVC -> Seq(Flit)] /\ got \in [InVC -> 0 .. MaxLength - 1]
      /\ MaxLength \in Nat \ {0} /\ occ \in [OutVC -> Nat] /\ active \in BOOLEAN
  BY ConfigFacts DEF IInv, Typed, TypeOK
<1>6. A \subseteq InVC /\ heads \subseteq A /\ resumed \subseteq A /\ heads \cap resumed = {}
  BY DEF Arrivals, Fitting
<1>7. held = {}
  <2> SUFFICES ASSUME NEW x \in held PROVE FALSE
    OBVIOUS
  <2>1. /\ x \in InVC /\ x = <<x[1], x[2]>> /\ x[2] \in Nat /\ ExpandedInput(x) \in LaneIn
        /\ ExpandedInput(x)[1] = x[1] /\ holdVc[ExpandedInput(x)] = x[2] /\ Empty(x)
    BY <1>5, <1>6, LaneFacts DEF ExpandedInput
  <2>2. x[2] # NotYet
    BY <2>1 DEF NotYet
  <2>3. ~Empty(<<ExpandedInput(x)[1], holdVc[ExpandedInput(x)]>>)
    BY <2>1, <2>2 DEF IInv, HoldsAgree
  <2>4. QED
    BY <2>1, <2>3
<1>8. \A x \in heads : /\ x \in InVC /\ state[x] = "idle" /\ Empty(x)
                       /\ x \notin DOMAIN routeQ /\ x \notin DOMAIN vcQ /\ x \notin DOMAIN swQ /\ x \notin DOMAIN holdQ
  BY <1>6 DEF IInv, InItsQueues
<1>9. \A x \in resumed : /\ x \in InVC /\ state[x] = "active" /\ x \notin DOMAIN swQ /\ x \notin DOMAIN holdQ
                         /\ x \notin DOMAIN routeQ /\ x \notin DOMAIN vcQ
  <2> SUFFICES ASSUME NEW x \in resumed PROVE x \notin DOMAIN swQ /\ x \notin DOMAIN holdQ
    BY <1>6 DEF IInv, InItsQueues
  <2>1. x \in InVC /\ state[x] = "active" /\ Empty(x) /\ (x \in DOMAIN swQ <=> x \in DOMAIN holdQ)
    BY <1>6 DEF IInv, InItsQueues
  <2>2. x \in DOMAIN holdQ => x \in held
    BY <2>1 DEF IInv, Held
  <2>3. QED
    BY <1>7, <2>1, <2>2
<1>10. /\ \A x \in A : x \in heads <=> state[x] = "idle"
       /\ \A x \in A : x \in resumed <=> state[x] = "active" /\ Empty(x)
  OBVIOUS
<1>11. awake \in BOOLEAN /\ (awake \/ A = {}) /\ (awake \/ ~active)
  BY <1>5
<1> HIDE DEF heads, resumed, held, awake
<1>12. /\ state' \in [InVC -> {"idle", "routing", "vc_alloc", "active"}]
       /\ \A x \in InVC : state'[x] = IF x \in heads
            THEN IF config.routing > 0 THEN "routing" ELSE "vc_alloc" ELSE state[x]
  BY <1>2, <1>5, <1>6 DEF NewHeads, Overlay
<1>13. /\ out' \in [InVC -> OutVC \cup {None}]
       /\ \A x \in InVC : out'[x] = IF x \in heads /\ ~(config.routing > 0) THEN None ELSE out[x]
  BY <1>2, <1>5, <1>6 DEF LookedAhead, Overlay
<1>14. /\ DOMAIN routeQ' = IF config.routing > 0 THEN DOMAIN routeQ \cup heads ELSE DOMAIN routeQ
       /\ DOMAIN vcQ' = IF config.routing > 0 \/ Piggyback THEN DOMAIN vcQ ELSE DOMAIN vcQ \cup heads
       /\ \A x \in DOMAIN vcQ' : vcQ'[x] = IF x \in heads THEN Fresh ELSE vcQ[x]
       /\ holdQ' = holdQ
  <2>1. holdQ' = holdQ
    BY <1>2, <1>5, <1>7 DEF Enqueue, Overlay, QueueOK
  <2>2. QED
    BY <1>2, <1>8, <2>1 DEF ToRoute, ToAllocateVC, Enqueue, Overlay
<1>15. /\ DOMAIN swQ' = DOMAIN swQ \cup resumed \cup (IF config.routing = 0 /\ Speculative THEN heads ELSE {})
       /\ \A x \in DOMAIN swQ' : swQ'[x] = IF x \in heads \/ x \in resumed THEN Fresh ELSE swQ[x]
  BY <1>2, <1>7, <1>8, <1>9 DEF ToSpeculate, Enqueue, Overlay
<1>16. /\ buf' \in [InVC -> Seq(Flit)]
       /\ \A x \in InVC : IF x \in A THEN buf'[x] # <<>> ELSE buf'[x] = buf[x]
  <2>1. \A x \in A : Arriving(x, tail[x]) \in Flit
    BY DEF Arriving, Flit
  <2>2. \A x \in InVC : buf'[x] = IF x \in A THEN Append(buf[x], Arriving(x, tail[x])) ELSE buf[x]
    BY <1>2, <1>5, <1>6 DEF Overlay
  <2>3. DOMAIN buf' = InVC /\ buf' = [x \in InVC |-> buf'[x]]
    BY <1>2, <1>5, <1>6 DEF Overlay
  <2>4. \A x \in A : Append(buf[x], Arriving(x, tail[x])) \in Seq(Flit) /\ Append(buf[x], Arriving(x, tail[x])) # <<>>
    <3> SUFFICES ASSUME NEW x \in A
                 PROVE  Append(buf[x], Arriving(x, tail[x])) \in Seq(Flit) /\ Append(buf[x], Arriving(x, tail[x])) # <<>>
      OBVIOUS
    <3>1. buf[x] \in Seq(Flit) /\ Arriving(x, tail[x]) \in Flit
      BY <1>5, <1>6, <2>1
    <3>2. \A s \in Seq(Flit), e \in Flit : Append(s, e) \in Seq(Flit) /\ Append(s, e) # <<>>
      BY AppendProperties
    <3>3. QED
      BY <3>1, <3>2
  <2>5. \A x \in InVC : buf'[x] \in Seq(Flit)
    BY <1>5, <2>2, <2>4
  <2>6. QED
    BY <2>2, <2>3, <2>4, <2>5
<1>17. occ' \in [OutVC -> Nat] /\ \A w \in OutVC : occ'[w] <= occ[w]
  <2>1. ASSUME NEW w \in C PROVE w \in OutVC /\ occ[w] > 0
    <3>1. w \in OutVC /\ Departed(w) > 0
      BY <2>1 DEF Credits
    <3>2. crossbar \in Seq(Crossing) /\ outBuf[w[1]] \in Seq(OutVC)
      BY <1>5, <3>1 DEF TypeOK, OutVC
    <3>3. IsFiniteSet(DOMAIN crossbar) /\ IsFiniteSet(DOMAIN outBuf[w[1]])
      BY <3>2, FS_Interval
    <3>4. /\ Cardinality({n \in DOMAIN crossbar : crossbar[n].to = w}) \in Nat
          /\ Cardinality({n \in DOMAIN outBuf[w[1]] : outBuf[w[1]][n] = w}) \in Nat
      BY <3>3, FS_Subset, FS_CardinalityType
    <3>5. occ[w] \in Nat
      BY <1>5, <3>1
    <3>6. QED
      BY <3>1, <3>4, <3>5 DEF Departed
  <2>2. QED
    BY <1>2, <1>5, <2>1
<1>18. Typed'
  <2>1. /\ QueueOK(routeQ', config.routing, {}) /\ QueueOK(vcQ', config.vca, OutVC)
        /\ QueueOK(holdQ', 0, LaneOut) /\ QueueOK(swQ', config.swa, LaneOut)
    <3>1. heads \in SUBSET InVC /\ resumed \ held \in SUBSET InVC
      BY <1>6
    <3>2. QED
      BY <1>2, <1>5, <1>14, <3>1, QueueTypes, EnqueueType
  <2>2. routes' \in [InVC -> SUBSET Output]
    <3>1. LookedAhead(heads) \subseteq InVC
      BY <1>6 DEF LookedAhead
    <3>2. QED
      BY <1>2, <1>5, <3>1 DEF Routes, Overlay
  <2>3. got' \in [InVC -> 0 .. MaxLength - 1]
    <3>1. ASSUME NEW x \in A, ~tail[x] PROVE got[x] + 1 \in 0 .. MaxLength - 1
      <4>1. got[x] \in 0 .. MaxLength - 1 /\ got[x] # MaxLength - 1
        BY <1>2, <1>5, <1>6, <3>1
      <4>2. QED
        BY <1>5, <4>1
    <3>2. 0 \in 0 .. MaxLength - 1
      BY <1>5
    <3>3. QED
      BY <1>2, <1>5, <1>6, <3>1, <3>2 DEF Overlay
  <2>4. active' \in BOOLEAN /\ activity' \in BOOLEAN /\ phase' \in Phases
    BY <1>2, <1>3, <1>11 DEF Phases
  <2>5. QED
    BY <1>3, <1>4, <1>5, <1>12, <1>13, <1>16, <1>17, <2>1, <2>2, <2>3, <2>4 DEF Typed, TypeOK, QueueOK
<1>19. OutputsSet'
  BY <1>4, <1>12, <1>13 DEF IInv, OutputsSet
<1>20. Owned'
  <2>1. \A x \in InVC : /\ state'[x] = "active" <=> state[x] = "active"
                        /\ state[x] = "active" => out'[x] = out[x]
    BY <1>8, <1>12, <1>13
  <2>2. QED
    BY <1>3, <1>4, <2>1 DEF IInv, Owned
<1>21. Timed'
  <2>1. CASE awake
    <3>1. \A x \in DOMAIN vcQ' : vcQ'[x].due <= config.vca - 2
      BY <1>3, <1>5, <1>14 DEF IInv, Timed, Fresh, NotYet
    <3>2. \A x \in DOMAIN swQ' : swQ'[x].due <= config.swa - 2
      BY <1>3, <1>5, <1>15 DEF IInv, Timed, Fresh, NotYet
    <3>3. QED
      BY <1>2, <1>3, <2>1, <3>1, <3>2 DEF Timed, Asked, Chosen
  <2>2. CASE ~awake
    <3>1. DOMAIN vcQ' = {} /\ DOMAIN swQ' = {}
      BY <1>3, <1>6, <1>11, <1>14, <1>15, <2>2 DEF IInv, Awake
    <3>2. QED
      BY <3>1 DEF Timed
  <2>3. QED
    BY <2>1, <2>2
<1>22. phase' \in {"vc_alloc", "write"}
  BY <1>2
<1>23. VCGrants'
  BY <1>14, <1>22 DEF IInv, VCGrants, Asked, Fresh
<1>24. SWGrants' /\ Paid'
  BY <1>3, <1>15, <1>22 DEF IInv, SWGrants, Paid, Chosen, Fresh, ExpandedInput, ExpandedOutput
<1>25. Held'
  BY <1>3, <1>4, <1>14 DEF IInv, Held, ExpandedInput
<1>26. Awake'
  <2>1. CASE awake
    BY <1>2, <2>1 DEF Awake
  <2>2. CASE ~awake
    <3>1. /\ DOMAIN vcQ' = {} /\ DOMAIN swQ' = {} /\ DOMAIN routeQ' = {} /\ DOMAIN holdQ' = {}
          /\ crossbar' = <<>>
      BY <1>3, <1>6, <1>11, <1>14, <1>15, <2>2 DEF IInv, Awake
    <3>2. /\ QueueOK(routeQ', config.routing, {}) /\ QueueOK(vcQ', config.vca, OutVC)
          /\ QueueOK(holdQ', 0, LaneOut) /\ QueueOK(swQ', config.swa, LaneOut)
      BY <1>3, <1>4, <1>18 DEF Typed, TypeOK, QueueOK
    <3>3. routeQ' = <<>> /\ vcQ' = <<>> /\ holdQ' = <<>> /\ swQ' = <<>>
      BY <3>1, <3>2, EmptyQueue
    <3>4. QED
      BY <1>2, <2>2, <3>1, <3>3 DEF Awake
  <2>3. QED
    BY <2>1, <2>2
<1>27. NoOverflow'
  <2>1. OutSize \in Nat
    BY RouterAssumption
  <2>2. QED
    BY <1>4, <1>5, <1>17, <2>1 DEF IInv, NoOverflow
<1>28. InItsQueues'
  BY <1>3, <1>4, <1>5, <1>6, <1>8, <1>9, <1>10, <1>12, <1>14, <1>15, <1>16 DEF IInv, InItsQueues, Empty
<1>29. HoldsAgree'
  BY <1>3, <1>4, <1>5, <1>8, <1>12, <1>13, <1>14, <1>16 DEF IInv, HoldsAgree, Empty, ExpandedOutput, QueueOK
<1>30. QED
  BY <1>18, <1>19, <1>20, <1>21, <1>23, <1>24, <1>25, <1>26, <1>27, <1>28, <1>29 DEF IInv

-----------------------------------------------------------------------------
(* Giving the entries of a queue the time their stage ends keeps its type. *)
LEMMA EvaluatedType ==
  ASSUME NEW q, NEW due \in Nat, NEW grants, QueueOK(q, due, grants)
  PROVE  QueueOK(Evaluated(q, due), due, grants) /\ DOMAIN Evaluated(q, due) = DOMAIN q
BY DEF QueueOK, Evaluated, Entries, NotYet

(* Allocating VCs keeps the invariant: a grant of this cycle is of a VC    *)
(* that is free now, one that was made earlier is dropped if it is not.    *)
LEMMA VCAllocEvaluateInv ==
  ASSUME IInv, VCAllocEvaluate
  PROVE  IInv'
<1>1. /\ phase = "vc_alloc" /\ phase' = "sw_alloc" /\ config' = config
      /\ routeQ' = Evaluated(routeQ, config.routing)
  BY DEF VCAllocEvaluate
<1>2. /\ UNCHANGED <<got, buf, state, routes, out, holdQ, swQ>>
      /\ UNCHANGED <<holdVc, holdIn, holdOut, offset, occ, inUse, crossbar, outBuf, active, activity>>
  BY DEF VCAllocEvaluate, vcVars, holdVars, nextVars
<1> DEFINE Asks(M) == Overlay(vcQ, [x \in Waiting(vcQ) |-> [due |-> config.vca - 1, grant |-> AssignedTo(M, x)]])
           Lost(M, x) == /\ config.vca > 1 /\ Asks(M)[x].due = 0 /\ Asks(M)[x].grant # None
                         /\ ~IsAvailableFor(Asks(M)[x].grant)
<1>3. PICK M \in Matchings(VCRequests) :
        /\ vcMatch' = [x \in {a[1] : a \in M} |-> AssignedTo(M, x)]
        /\ vcQ' = [x \in DOMAIN Asks(M) |->
             IF Lost(M, x) THEN [Asks(M)[x] EXCEPT !.grant = None] ELSE Asks(M)[x]]
  BY DEF VCAllocEvaluate
<1>4. /\ InVC' = InVC /\ OutVC' = OutVC /\ LaneIn' = LaneIn /\ LaneOut' = LaneOut
      /\ Output' = Output /\ VC' = VC /\ Input' = Input
      /\ Piggyback' = Piggyback /\ Speculative' = Speculative /\ Crossing' = Crossing
  BY <1>1, SameSets
<1>5. /\ TypeOK
      /\ QueueOK(routeQ, config.routing, {}) /\ QueueOK(vcQ, config.vca, OutVC)
      /\ config.routing \in Nat /\ config.vca \in Nat \ {0} /\ config.swa \in Nat \ {0}
  BY ConfigFacts DEF IInv, Typed, TypeOK
<1>6. /\ M \subseteq VCRequests
      /\ \A a, b \in M : a[1] = b[1] \/ a[2] = b[2] => a = b
  BY DEF Matchings
<1>7. \A a \in M : a[1] \in Waiting(vcQ) /\ a[2] \in OutVC /\ a[2] # None /\ ~inUse[a[2]]
  BY <1>6 DEF VCRequests, IsAvailableFor, OutVC, Output, None
<1>8. /\ \A x \in DOMAIN vcQ : vcQ[x] \in Entries(config.vca, OutVC) /\ vcQ[x].due \in Int /\ vcQ[x].due <= config.vca - 2
      /\ config.vca \in Int /\ config.vca > 0
  BY <1>1, <1>5 DEF QueueOK, IInv, Timed, Entries
<1>9. /\ DOMAIN Asks(M) = DOMAIN vcQ
      /\ \A x \in Waiting(vcQ) : /\ Asks(M)[x] = [due |-> config.vca - 1, grant |-> AssignedTo(M, x)]
                                 /\ Asks(M)[x].due = config.vca - 1 /\ Asks(M)[x].grant = AssignedTo(M, x)
      /\ \A x \in DOMAIN vcQ : x \notin Waiting(vcQ) => Asks(M)[x] = vcQ[x]
      /\ \A x \in Waiting(vcQ) : x \in DOMAIN vcQ
  BY DEF Overlay, Waiting
<1>10. \A x \in DOMAIN vcQ : /\ Asks(M)[x].grant \in OutVC \cup {None} /\ Asks(M)[x].due \in -1 .. config.vca
                             /\ Asks(M)[x] \in Entries(config.vca, OutVC)
  <2>1. \A x \in Waiting(vcQ) : AssignedTo(M, x) \in OutVC \cup {None}
    BY <1>7, AssignedFacts
  <2>2. QED
    BY <1>5, <1>8, <1>9, <2>1 DEF Entries, NotYet
<1>11. \A x \in DOMAIN vcQ : /\ Asks(M)[x].due <= config.vca - 1
                             /\ x \in Waiting(vcQ) <=> Asks(M)[x].due = config.vca - 1
  <2> SUFFICES ASSUME NEW x \in DOMAIN vcQ
               PROVE  /\ Asks(M)[x].due <= config.vca - 1
                      /\ x \in Waiting(vcQ) <=> Asks(M)[x].due = config.vca - 1
    OBVIOUS
  <2> HIDE DEF Asks
  <2>1. CASE x \in Waiting(vcQ)
    <3>1. Asks(M)[x].due = config.vca - 1
      BY <1>9, <2>1
    <3>2. config.vca \in Int
      BY <1>8
    <3>3. QED
      BY <2>1, <3>1, <3>2
  <2>2. CASE x \notin Waiting(vcQ)
    <3>1. Asks(M)[x].due = vcQ[x].due
      BY <1>9, <2>2
    <3>2. vcQ[x].due \in Int /\ vcQ[x].due <= config.vca - 2 /\ config.vca \in Int
      BY <1>8
    <3>3. QED
      BY <2>2, <3>1, <3>2
  <2>3. QED
    BY <2>1, <2>2
<1> HIDE DEF Asks
<1>12. /\ DOMAIN vcQ' = DOMAIN vcQ
       /\ \A x \in DOMAIN vcQ : /\ vcQ'[x].due = Asks(M)[x].due
                                /\ vcQ'[x].grant = IF Lost(M, x) THEN None ELSE Asks(M)[x].grant
                                /\ vcQ'[x] \in Entries(config.vca, OutVC)
  BY <1>3, <1>9, <1>10 DEF Entries
<1> HIDE DEF Lost
<1>13. \A x, y \in DOMAIN vcQ : vcQ'[x].due = vcQ'[y].due /\ vcQ'[x].grant = vcQ'[y].grant /\ vcQ'[x].grant # None => x = y
  <2> SUFFICES ASSUME NEW x \in DOMAIN vcQ, NEW y \in DOMAIN vcQ, vcQ'[x].due = vcQ'[y].due,
                      vcQ'[x].grant = vcQ'[y].grant, vcQ'[x].grant # None
               PROVE  x = y
    OBVIOUS
  <2>1. Asks(M)[x].due = Asks(M)[y].due /\ Asks(M)[x].grant = Asks(M)[y].grant /\ Asks(M)[x].grant # None
    BY <1>12
  <2>2. CASE x \in Waiting(vcQ) /\ y \in Waiting(vcQ)
    <3>1. AssignedTo(M, x) = AssignedTo(M, y) /\ AssignedTo(M, x) # None
      BY <1>9, <2>1, <2>2
    <3>2. QED
      BY <1>6, <3>1, AssignedFacts
  <2>3. CASE x \notin Waiting(vcQ) /\ y \notin Waiting(vcQ)
    BY <1>9, <2>1, <2>3 DEF IInv, VCGrants
  <2>4. CASE ~(x \in Waiting(vcQ) <=> y \in Waiting(vcQ))
    BY <1>11, <2>1, <2>4
  <2>5. QED
    BY <2>2, <2>3, <2>4
<1>14. Typed'
  <2>1. QueueOK(vcQ', config.vca, OutVC)
    <3>1. vcQ' = [x \in DOMAIN vcQ' |-> vcQ'[x]]
      BY <1>3
    <3>2. QED
      BY <1>5, <1>12, <3>1 DEF QueueOK
  <2>2. QueueOK(routeQ', config.routing, {})
    BY <1>1, <1>5, EvaluatedType
  <2>3. DOMAIN vcMatch' \subseteq InVC /\ vcMatch' \in [DOMAIN vcMatch' -> OutVC]
    <3>1. \A a \in M : a[1] \in InVC /\ AssignedTo(M, a[1]) \in OutVC
      BY <1>5, <1>7, AssignedFacts DEF QueueOK, Waiting
    <3>2. QED
      BY <1>3, <3>1
  <2>4. QED
    BY <1>1, <1>2, <1>4, <1>5, <2>1, <2>2, <2>3 DEF Typed, TypeOK, Phases, QueueOK
<1>15. OutputsSet' /\ Owned' /\ NoOverflow'
  BY <1>2, <1>4 DEF IInv, OutputsSet, Owned, NoOverflow
<1>16. Timed'
  <2>1. \A x \in DOMAIN vcQ' : vcQ'[x].due <= config.vca - 1
    BY <1>1, <1>11, <1>12
  <2>2. \A x \in DOMAIN swQ' : swQ'[x].due <= config.swa - 2
    BY <1>1, <1>2 DEF IInv, Timed
  <2>3. QED
    BY <1>1, <2>1, <2>2 DEF Timed, Asked, Chosen
<1>17. VCGrants'
  <2>1. \A x \in Due(vcQ') : vcQ'[x].grant # None => ~inUse'[vcQ'[x].grant]
    <3> SUFFICES ASSUME NEW x \in DOMAIN vcQ, vcQ'[x].due = 0, vcQ'[x].grant # None
                 PROVE  ~inUse[vcQ'[x].grant]
      BY <1>2, <1>12 DEF Due
    <3>1. CASE config.vca > 1
      BY <1>12, <3>1 DEF Lost, IsAvailableFor
    <3>2. CASE config.vca = 1
      <4>1. x \in Waiting(vcQ)
        BY <1>8, <1>9, <1>12, <3>2 DEF Entries, NotYet
      <4>2. vcQ'[x].grant = AssignedTo(M, x)
        BY <1>9, <1>12, <4>1
      <4>3. QED
        BY <1>7, <4>2, AssignedFacts
    <3>3. QED
      BY <1>5, <3>1, <3>2
  <2>2. \A x \in DOMAIN vcMatch' : x \in DOMAIN vcQ' /\ vcQ'[x].grant = vcMatch'[x] /\ vcQ'[x].due = config'.vca - 1
    <3> SUFFICES ASSUME NEW a \in M
                 PROVE  a[1] \in DOMAIN vcQ' /\ vcQ'[a[1]].grant = AssignedTo(M, a[1]) /\ vcQ'[a[1]].due = config.vca - 1
      BY <1>1, <1>3
    <3>1. a[1] \in Waiting(vcQ) /\ a[1] \in DOMAIN vcQ
      BY <1>7 DEF Waiting
    <3>2. ~Lost(M, a[1])
      <4>1. Asks(M)[a[1]].due = config.vca - 1
        BY <1>9, <3>1
      <4>2. config.vca > 1 => config.vca - 1 # 0
        BY <1>8
      <4>3. config.vca > 1 => Asks(M)[a[1]].due # 0
        BY <4>1, <4>2
      <4>4. QED
        BY <4>3 DEF Lost
    <3>3. QED
      BY <1>9, <1>12, <3>1, <3>2
  <2>3. QED
    BY <1>12, <1>13, <2>1, <2>2 DEF VCGrants
<1>18. SWGrants' /\ Paid'
  BY <1>1, <1>2 DEF IInv, SWGrants, Paid, Chosen, ExpandedInput, ExpandedOutput
<1>19. Held' /\ HoldsAgree'
  BY <1>1, <1>2, <1>4 DEF IInv, Held, HoldsAgree, Empty, ExpandedInput, ExpandedOutput
<1>20. Awake'
  BY <1>1 DEF Awake
<1>21. InItsQueues'
  <2>1. DOMAIN routeQ' = DOMAIN routeQ
    BY <1>1, <1>5, EvaluatedType
  <2>2. QED
    BY <1>2, <1>4, <1>12, <2>1 DEF IInv, InItsQueues, Empty
<1>22. QED
  BY <1>14, <1>15, <1>16, <1>17, <1>18, <1>19, <1>20, <1>21 DEF IInv

-----------------------------------------------------------------------------
(* Of two requests for the same lanes at most one supersedes the other     *)
(* (_SWAllocAddReq).                                                       *)
LEMMA SupersedesOnce ==
  ASSUME TypeOK, NEW x \in InVC, NEW y \in InVC, Supersedes(x, y)
  PROVE  ~Supersedes(y, x)
<1>1. \A z \in InVC : Turn(z) \in Int
  <2> SUFFICES ASSUME NEW z \in InVC PROVE Turn(z) \in Int
    OBVIOUS
  <2>1. z[2] \in Int /\ ExpandedInput(z) \in LaneIn
    BY LaneFacts
  <2>2. offset[ExpandedInput(z)] \in Int
    BY <2>1 DEF TypeOK, VC, LaneIn
  <2>3. config.vcs \in Nat \ {0}
    BY ConfigFacts
  <2>4. QED
    BY <2>1, <2>2, <2>3 DEF Turn
<1>2. CASE state[x] = state[y]
  BY <1>1, <1>2 DEF Supersedes
<1>3. CASE state[x] # state[y]
  BY <1>3 DEF Supersedes
<1>4. QED
  BY <1>2, <1>3

(* Requests of input VCs for outputs, and what a matching of the lanes     *)
(* they ask for is: grants of asked-for pairs, no lane in two.             *)
Requests == SUBSET (InVC \X Output)
Matched(R, M) == /\ M \subseteq {Lanes(a) : a \in R}
                 /\ \A a, b \in M : a[1] = b[1] \/ a[2] = b[2] => a = b

(* A VC that won its lanes is an input VC and its lanes are granted to     *)
(* each other.                                                             *)
LEMMA WonFacts ==
  ASSUME TypeOK, NEW R \in Requests, NEW M, Matched(R, M), NEW x,
         Won(R, M, x), AssignedTo(M, ExpandedInput(x)) # None
  PROVE  /\ x \in InVC
         /\ <<ExpandedInput(x), AssignedTo(M, ExpandedInput(x))>> \in M
         /\ AssignedTo(M, ExpandedInput(x)) \in LaneOut
         /\ AssignedTo(M, ExpandedInput(x)) = ExpandedOutput(x, AssignedTo(M, ExpandedInput(x))[1])
<1> DEFINE e == AssignedTo(M, ExpandedInput(x))
<1>1. PICK a \in Labelled(R) : a[1] = x /\ Lanes(a) = <<ExpandedInput(x), e>>
  BY DEF Won
<1>2. x \in InVC /\ a[2] \in Output /\ e = ExpandedOutput(x, a[2])
  BY <1>1 DEF Labelled, Requests, Lanes
<1>3. e \in LaneOut /\ e[1] = a[2]
  BY <1>2, LaneFacts DEF ExpandedOutput
<1>4. PICK m \in M : m[1] = ExpandedInput(x) /\ e = m[2]
  BY AssignedFacts
<1>5. m = <<ExpandedInput(x), e>>
  BY <1>4 DEF Matched, Lanes
<1>6. QED
  BY <1>2, <1>3, <1>4, <1>5

(* No two VCs win the same input or output lane among the same requests.   *)
LEMMA WonOnce ==
  ASSUME TypeOK, NEW R \in Requests, NEW M, Matched(R, M), NEW x, NEW y,
         Won(R, M, x), AssignedTo(M, ExpandedInput(x)) # None,
         Won(R, M, y), AssignedTo(M, ExpandedInput(y)) # None,
         \/ ExpandedInput(x) = ExpandedInput(y)
         \/ AssignedTo(M, ExpandedInput(x)) = AssignedTo(M, ExpandedInput(y))
  PROVE  x = y
<1> DEFINE e == AssignedTo(M, ExpandedInput(x))
           f == AssignedTo(M, ExpandedInput(y))
<1>1. <<ExpandedInput(x), e>> \in M /\ <<ExpandedInput(y), f>> \in M /\ x \in InVC /\ y \in InVC
  BY WonFacts
<1>2. ExpandedInput(x) = ExpandedInput(y) /\ e = f
  BY <1>1 DEF Matched
<1>3. PICK a \in Labelled(R) : a[1] = x /\ Lanes(a) = <<ExpandedInput(x), e>>
  BY DEF Won
<1>4. PICK b \in Labelled(R) : b[1] = y /\ Lanes(b) = <<ExpandedInput(y), f>>
  BY DEF Won
<1>5. a \in R /\ b \in R /\ (a # b => Supersedes(x, y) /\ Supersedes(y, x))
  BY <1>2, <1>3, <1>4 DEF Labelled
<1>6. QED
  BY <1>1, <1>3, <1>4, <1>5, SupersedesOnce

(* A grant is among the firm requests, or a guess of the speculative       *)
(* allocator, made where the other one gave the lanes to nobody.           *)
Firm(R, M, x) == AssignedTo(M, ExpandedInput(x)) # None /\ Won(R, M, x)
Guessed(M, MS, x) == /\ AssignedTo(M, ExpandedInput(x)) = None
                     /\ AssignedTo(MS, ExpandedInput(x)) # None /\ Won(SpecRequests, MS, x)
                     /\ \A a \in M : a[2] # AssignedTo(MS, ExpandedInput(x))

(* A VC that is granted something is not stalled, and its grant is firm or *)
(* a guess.                                                                *)
LEMMA GrantFacts ==
  ASSUME NEW R, NEW M, NEW MS, NEW x, SwitchGrant(R, M, MS, x) # None
  PROVE  /\ ~Stalled(x)
         /\ \/ Firm(R, M, x) /\ SwitchGrant(R, M, MS, x) = AssignedTo(M, ExpandedInput(x))
            \/ Guessed(M, MS, x) /\ SwitchGrant(R, M, MS, x) = AssignedTo(MS, ExpandedInput(x))
BY DEF SwitchGrant, Firm, Guessed

(* A grant is of an output lane, the one that belongs to the input of its  *)
(* VC.                                                                     *)
LEMMA GrantType ==
  ASSUME TypeOK, NEW R \in Requests, SpecRequests \in Requests, NEW M, Matched(R, M),
         NEW MS, Matched(SpecRequests, MS), NEW x, SwitchGrant(R, M, MS, x) # None
  PROVE  /\ x \in InVC /\ SwitchGrant(R, M, MS, x) \in LaneOut
         /\ SwitchGrant(R, M, MS, x) = ExpandedOutput(x, SwitchGrant(R, M, MS, x)[1])
<1>1. CASE Firm(R, M, x) /\ SwitchGrant(R, M, MS, x) = AssignedTo(M, ExpandedInput(x))
  <2>1. Won(R, M, x) /\ AssignedTo(M, ExpandedInput(x)) # None
    BY <1>1 DEF Firm
  <2>2. /\ x \in InVC /\ AssignedTo(M, ExpandedInput(x)) \in LaneOut
        /\ AssignedTo(M, ExpandedInput(x)) = ExpandedOutput(x, AssignedTo(M, ExpandedInput(x))[1])
    BY <2>1, WonFacts
  <2>3. QED
    BY <1>1, <2>2
<1>2. CASE Guessed(M, MS, x) /\ SwitchGrant(R, M, MS, x) = AssignedTo(MS, ExpandedInput(x))
  <2>1. Won(SpecRequests, MS, x) /\ AssignedTo(MS, ExpandedInput(x)) # None
    BY <1>2 DEF Guessed
  <2>2. /\ x \in InVC /\ AssignedTo(MS, ExpandedInput(x)) \in LaneOut
        /\ AssignedTo(MS, ExpandedInput(x)) = ExpandedOutput(x, AssignedTo(MS, ExpandedInput(x))[1])
    BY <2>1, WonFacts
  <2>3. QED
    BY <1>2, <2>2
<1>3. QED
  BY <1>1, <1>2, GrantFacts

(* No two VCs are granted the same input or output lane in the same cycle, *)
(* the guesses included.                                                   *)
LEMMA GrantOnce ==
  ASSUME TypeOK, NEW R \in Requests, SpecRequests \in Requests, NEW M, Matched(R, M),
         NEW MS, Matched(SpecRequests, MS),
         NEW x, SwitchGrant(R, M, MS, x) # None, NEW y, SwitchGrant(R, M, MS, y) # None,
         \/ ExpandedInput(x) = ExpandedInput(y)
         \/ SwitchGrant(R, M, MS, x) = SwitchGrant(R, M, MS, y)
  PROVE  x = y
<1> DEFINE g(z) == SwitchGrant(R, M, MS, z)
           FirmOne(z) == Firm(R, M, z) /\ g(z) = AssignedTo(M, ExpandedInput(z))
           Guess(z) == Guessed(M, MS, z) /\ g(z) = AssignedTo(MS, ExpandedInput(z))
<1>1. (FirmOne(x) \/ Guess(x)) /\ (FirmOne(y) \/ Guess(y))
  BY GrantFacts
<1>2. CASE FirmOne(x) /\ FirmOne(y)
  BY <1>2, WonOnce DEF Firm
<1>3. CASE Guess(x) /\ Guess(y)
  BY <1>3, WonOnce DEF Guessed
<1>4. ASSUME NEW u, NEW v, FirmOne(u), Guess(v)
      PROVE  ExpandedInput(u) # ExpandedInput(v) /\ g(u) # g(v)
  <2>1. <<ExpandedInput(u), g(u)>> \in M
    BY <1>4, WonFacts DEF Firm
  <2>2. QED
    BY <1>4, <2>1 DEF Firm, Guessed
<1>5. QED
  BY <1>1, <1>2, <1>3, <1>4

(* Allocating the switch keeps the invariant: every grant that is due in   *)
(* this cycle, however old, is checked for room, or was made just now for  *)
(* a VC that has it.                                                       *)
LEMMA SWAllocEvaluateInv ==
  ASSUME IInv, SWAllocEvaluate
  PROVE  IInv'
<1> DEFINE R == IF config.mode = "spec" THEN FirmRequests ELSE FirmRequests \cup SpecRequests
           Asks(M, MS) == Overlay(swQ, [x \in Waiting(swQ) |-> [due   |-> config.swa - 1,
                                                                grant |-> SwitchGrant(R, M, MS, x)]])
           Winners(M, MS) == {x \in Waiting(swQ) : Asks(M, MS)[x].grant # None}
           Checks(M, MS) == IF Speculative \/ config.swa > 1
                            THEN {x \in Due(Asks(M, MS)) : Asks(M, MS)[x].grant # None} ELSE {}
<1>1. /\ phase = "sw_alloc" /\ phase' = "route_update" /\ config' = config
      /\ holdQ' = SWHoldEvaluated /\ crossbar' = SwitchEvaluated
  BY DEF SWAllocEvaluate
<1>2. /\ UNCHANGED <<got, buf, state, routes, out, routeQ, vcQ, vcMatch>>
      /\ UNCHANGED <<holdVc, holdIn, holdOut, occ, inUse, outBuf, active, activity>>
  BY DEF SWAllocEvaluate, vcVars, holdVars, nextVars
<1>3. PICK M \in SwitchMatchings(R) :
        \E MS \in IF config.mode = "spec" THEN SwitchMatchings(SpecRequests) ELSE {{}} :
          /\ swQ' = [x \in DOMAIN Asks(M, MS) |->
               IF x \in Checks(M, MS) /\ ~Usable(x, Asks(M, MS)[x].grant)
               THEN [Asks(M, MS)[x] EXCEPT !.grant = None] ELSE Asks(M, MS)[x]]
          /\ offset' = [e \in LaneIn |->
               IF \E x \in Winners(M, MS) : ExpandedInput(x) = e
               THEN NextTurn(CHOOSE x \in Winners(M, MS) : ExpandedInput(x) = e)
               ELSE offset[e]]
  BY ZenonT(40) DEF SWAllocEvaluate
<1>4. PICK MS \in IF config.mode = "spec" THEN SwitchMatchings(SpecRequests) ELSE {{}} :
          /\ swQ' = [x \in DOMAIN Asks(M, MS) |->
               IF x \in Checks(M, MS) /\ ~Usable(x, Asks(M, MS)[x].grant)
               THEN [Asks(M, MS)[x] EXCEPT !.grant = None] ELSE Asks(M, MS)[x]]
          /\ offset' = [e \in LaneIn |->
               IF \E x \in Winners(M, MS) : ExpandedInput(x) = e
               THEN NextTurn(CHOOSE x \in Winners(M, MS) : ExpandedInput(x) = e)
               ELSE offset[e]]
  BY <1>3, Zenon
<1>5. /\ InVC' = InVC /\ OutVC' = OutVC /\ LaneIn' = LaneIn /\ LaneOut' = LaneOut
      /\ Output' = Output /\ VC' = VC /\ Input' = Input
      /\ Piggyback' = Piggyback /\ Speculative' = Speculative /\ Crossing' = Crossing
  BY <1>1, SameSets
<1>6. /\ TypeOK /\ QueueOK(swQ, config.swa, LaneOut) /\ QueueOK(holdQ, 0, LaneOut)
      /\ config.swa \in Nat \ {0} /\ crossbar \in Seq(Crossing)
      /\ occ \in [OutVC -> Nat] /\ OutSize \in Nat
  BY ConfigFacts DEF IInv, Typed, TypeOK
<1>7. R \in Requests /\ SpecRequests \in Requests
  BY <1>6 DEF Requests, FirmRequests, SpecRequests, Waiting, QueueOK
<1>8. Matched(R, M) /\ Matched(SpecRequests, MS)
  BY DEF SwitchMatchings, Matchings, Matched
<1> HIDE DEF R
<1>9. \A x \in DOMAIN swQ : /\ swQ[x] \in Entries(config.swa, LaneOut) /\ swQ[x].due \in Int /\ swQ[x].due <= config.swa - 2
  BY <1>1, <1>6 DEF QueueOK, IInv, Timed, Entries
<1> DEFINE asks == Asks(M, MS)
           g(x) == SwitchGrant(R, M, MS, x)
<1>10. /\ DOMAIN asks = DOMAIN swQ
       /\ \A x \in Waiting(swQ) : /\ asks[x] = [due |-> config.swa - 1, grant |-> g(x)]
                                  /\ asks[x].due = config.swa - 1 /\ asks[x].grant = g(x)
       /\ \A x \in DOMAIN swQ : x \notin Waiting(swQ) => asks[x] = swQ[x]
       /\ \A x \in Waiting(swQ) : x \in DOMAIN swQ
  BY DEF Overlay, Waiting
<1>11. \A x : g(x) # None => g(x) \in LaneOut /\ g(x) = ExpandedOutput(x, g(x)[1]) /\ ~Stalled(x)
  BY <1>6, <1>7, <1>8, GrantType, GrantFacts
<1>12. \A x, y : g(x) # None /\ g(y) # None /\ (ExpandedInput(x) = ExpandedInput(y) \/ g(x) = g(y)) => x = y
  BY <1>6, <1>7, <1>8, GrantOnce
<1> HIDE DEF g
<1>13. swQ' = [x \in DOMAIN asks |->
               IF x \in Checks(M, MS) /\ ~Usable(x, asks[x].grant)
               THEN [asks[x] EXCEPT !.grant = None] ELSE asks[x]]
  BY <1>4
<1>14. Checks(M, MS) = IF Speculative \/ config.swa > 1 THEN {x \in Due(asks) : asks[x].grant # None} ELSE {}
  OBVIOUS
<1> HIDE DEF asks, Checks
<1>15. \A x \in DOMAIN swQ : asks[x] \in Entries(config.swa, LaneOut)
  <2> SUFFICES ASSUME NEW x \in DOMAIN swQ PROVE asks[x] \in Entries(config.swa, LaneOut)
    OBVIOUS
  <2>1. CASE x \in Waiting(swQ)
    <3>1. g(x) \in LaneOut \cup {None}
      BY <1>11
    <3>2. config.swa - 1 \in -1 .. config.swa
      BY <1>6
    <3>3. [due |-> config.swa - 1, grant |-> g(x)] \in Entries(config.swa, LaneOut)
      BY <3>1, <3>2 DEF Entries, NotYet
    <3>4. QED
      BY <1>10, <2>1, <3>3
  <2>2. QED
    BY <1>9, <1>10, <2>1
<1>16. \A x \in DOMAIN swQ : /\ asks[x].due <= config.swa - 1
                             /\ x \in Waiting(swQ) <=> asks[x].due = config.swa - 1
  <2> SUFFICES ASSUME NEW x \in DOMAIN swQ
               PROVE  /\ asks[x].due <= config.swa - 1
                      /\ x \in Waiting(swQ) <=> asks[x].due = config.swa - 1
    OBVIOUS
  <2>1. CASE x \in Waiting(swQ)
    <3>1. asks[x].due = config.swa - 1
      BY <1>10, <2>1
    <3>2. QED
      BY <1>6, <2>1, <3>1
  <2>2. CASE x \notin Waiting(swQ)
    <3>1. asks[x].due = swQ[x].due
      BY <1>10, <2>2
    <3>2. swQ[x].due \in Int /\ swQ[x].due <= config.swa - 2
      BY <1>9
    <3>3. QED
      BY <1>6, <2>2, <3>1, <3>2
  <2>3. QED
    BY <2>1, <2>2
<1>17. /\ DOMAIN swQ' = DOMAIN swQ
       /\ \A x \in DOMAIN swQ : /\ swQ'[x].due = asks[x].due
                                /\ swQ'[x].grant = IF x \in Checks(M, MS) /\ ~Usable(x, asks[x].grant)
                                                   THEN None ELSE asks[x].grant
                                /\ swQ'[x] \in Entries(config.swa, LaneOut)
  BY <1>10, <1>13, <1>15 DEF Entries
<1>18. SWGrants'
  <2>1. \A x \in DOMAIN swQ' : swQ'[x].grant # None => swQ'[x].grant = ExpandedOutput(x, swQ'[x].grant[1])
    <3> SUFFICES ASSUME NEW x \in DOMAIN swQ, asks[x].grant # None
                 PROVE  asks[x].grant = ExpandedOutput(x, asks[x].grant[1])
      BY <1>17
    <3>1. CASE x \in Waiting(swQ)
      BY <1>10, <1>11, <3>1, ZenonT(40)
    <3>2. CASE x \notin Waiting(swQ)
      BY <1>10, <3>2 DEF IInv, SWGrants
    <3>3. QED
      BY <3>1, <3>2
  <2>2. ASSUME NEW x \in DOMAIN swQ, NEW y \in DOMAIN swQ, asks[x].due = asks[y].due,
               asks[x].grant # None, asks[y].grant # None,
               ExpandedInput(x) = ExpandedInput(y) \/ asks[x].grant = asks[y].grant
        PROVE  x = y
    <3>1. CASE x \in Waiting(swQ) /\ y \in Waiting(swQ)
      <4>1. asks[x].grant = g(x) /\ asks[y].grant = g(y)
        BY <1>10, <3>1
      <4>2. QED
        BY <1>12, <2>2, <4>1
    <3>2. CASE x \notin Waiting(swQ) /\ y \notin Waiting(swQ)
      BY <1>10, <2>2, <3>2 DEF IInv, SWGrants
    <3>3. QED
      BY <1>16, <2>2, <3>1, <3>2
  <2>3. QED
    BY <1>1, <1>17, <2>1, <2>2 DEF SWGrants, ExpandedInput, ExpandedOutput
<1>19. Typed'
  <2>1. QueueOK(swQ', config.swa, LaneOut)
    <3>1. swQ' = [x \in DOMAIN swQ' |-> swQ'[x]]
      BY <1>13
    <3>2. QED
      BY <1>6, <1>17, <3>1 DEF QueueOK
  <2>2. QueueOK(holdQ', 0, LaneOut)
    <3>1. \A x \in DOMAIN holdQ : ~IsFullFor(out[x]) => ExpandedOutput(x, out[x][1]) \in LaneOut
      <4> SUFFICES ASSUME NEW x \in DOMAIN holdQ PROVE ExpandedOutput(x, out[x][1]) \in LaneOut
        OBVIOUS
      <4>1. x \in InVC /\ out[x] \in OutVC
        BY <1>6 DEF IInv, InItsQueues, OutputsSet, QueueOK
      <4>2. QED
        BY <1>6, <4>1, LaneFacts DEF OutVC
    <3>2. QED
      BY <1>1, <1>6, <3>1 DEF SWHoldEvaluated, QueueOK, Entries, NotYet
  <2>3. crossbar' \in Seq(Crossing)
    <3>1. \A n \in DOMAIN crossbar : crossbar[n] \in Crossing
      BY <1>6
    <3>2. config.crossbar \in Nat \ {0}
      BY <1>6, ConfigFacts
    <3>3. \A n \in DOMAIN crossbar : [crossbar[n] EXCEPT !.due = config.crossbar - 1] \in Crossing
      BY <3>1, <3>2 DEF Crossing, NotYet
    <3>4. \A n \in DOMAIN crossbar : crossbar'[n] \in Crossing
      BY <1>1, <3>1, <3>3 DEF SwitchEvaluated
    <3>5. Len(crossbar) \in Nat /\ crossbar' = [n \in 1 .. Len(crossbar) |-> crossbar'[n]]
      BY <1>1, <1>6 DEF SwitchEvaluated
    <3>6. QED
      BY <1>6, <3>4, <3>5
  <2>4. DOMAIN offset' = LaneIn /\ \A e \in LaneIn : offset'[e] \in VC \cup {e[2]}
    <3>1. \A x \in InVC : NextTurn(x) \in VC
      <4> SUFFICES ASSUME NEW x \in InVC PROVE NextTurn(x) \in VC
        OBVIOUS
      <4>1. x[2] \in Nat /\ config.lanesIn \in Nat /\ config.vcs \in Nat \ {0}
        BY <1>6, LaneFacts, ConfigFacts
      <4>2. (x[2] + config.lanesIn) % config.vcs \in 0 .. config.vcs - 1
        BY <4>1
      <4>3. QED
        BY <4>2 DEF NextTurn, VC
    <3>2. Winners(M, MS) \subseteq InVC
      BY <1>6 DEF Waiting, QueueOK
    <3>3. \A e \in LaneIn : offset[e] \in VC \cup {e[2]}
      BY <1>6 DEF TypeOK
    <3> HIDE DEF Winners
    <3>4. QED
      BY <1>4, <3>1, <3>2, <3>3
  <2>5. QED
    BY <1>1, <1>2, <1>5, <1>6, <2>1, <2>2, <2>3, <2>4 DEF Typed, TypeOK, Phases, QueueOK
<1>20. OutputsSet' /\ Owned' /\ NoOverflow'
  BY <1>2, <1>5 DEF IInv, OutputsSet, Owned, NoOverflow
<1>21. Timed' /\ VCGrants'
  <2>1. \A x \in DOMAIN swQ' : swQ'[x].due <= config.swa - 1
    BY <1>16, <1>17
  <2>2. QED
    BY <1>1, <1>2, <2>1 DEF IInv, Timed, VCGrants, Asked, Chosen, Due
<1>22. Paid'
  <2>1. ASSUME NEW x \in DOMAIN swQ, swQ'[x].due = 0, swQ'[x].grant # None
        PROVE  /\ state[x] = "active" => occ[out[x]] < OutSize
               /\ state[x] = "vc_alloc" /\ ~Piggyback => x \in DOMAIN vcMatch /\ occ[vcMatch[x]] < OutSize
    <3>1. /\ x \in InVC
          /\ state[x] = "active" /\ ~IsFullFor(out[x]) => occ[out[x]] < OutSize
          /\ x \in DOMAIN vcMatch /\ ~IsFullFor(vcMatch[x]) => occ[vcMatch[x]] < OutSize
      <4>1. x \in InVC /\ (state[x] = "active" => out[x] \in OutVC)
        BY <1>6 DEF IInv, OutputsSet, QueueOK
      <4>2. x \in DOMAIN vcMatch => vcMatch[x] \in OutVC
        BY <1>6 DEF TypeOK
      <4>3. QED
        BY <1>6, <4>1, <4>2 DEF IsFullFor
    <3>2. asks[x].due = 0 /\ asks[x].grant # None /\ asks[x].grant = swQ'[x].grant
      BY <1>17, <2>1
    <3>3. CASE Speculative \/ config.swa > 1
      <4>1. x \in Checks(M, MS)
        BY <1>10, <1>14, <3>2, <3>3 DEF Due
      <4>2. Usable(x, asks[x].grant)
        BY <1>17, <2>1, <4>1
      <4>3. QED
        BY <4>2, <3>1 DEF Usable
    <3>4. CASE ~Speculative /\ config.swa = 1
      <4>1. x \in Waiting(swQ)
        BY <1>16, <3>2, <3>4
      <4>2. ~Stalled(x)
        BY <1>10, <1>11, <3>2, <4>1
      <4>3. state[x] # "vc_alloc"
        BY <3>1, <3>4 DEF IInv, InItsQueues
      <4>4. QED
        BY <3>1, <4>2, <4>3 DEF Stalled
    <3>5. QED
      BY <1>6, <3>3, <3>4
  <2>2. ASSUME NEW x \in DOMAIN holdQ, holdQ'[x].grant # None
        PROVE  occ[out[x]] < OutSize
    <3>1. x \in InVC /\ out[x] \in OutVC
      BY <1>6 DEF IInv, InItsQueues, OutputsSet, QueueOK
    <3>2. ~IsFullFor(out[x])
      BY <1>1, <2>2 DEF SWHoldEvaluated
    <3>3. QED
      BY <1>6, <3>1, <3>2 DEF IsFullFor
  <2>3. DOMAIN holdQ' = DOMAIN holdQ
    BY <1>1 DEF SWHoldEvaluated
  <2>4. \A x \in Due(swQ') : x \in DOMAIN swQ /\ swQ'[x].due = 0
    BY <1>17 DEF Due
  <2>5. \A x \in Due(holdQ') : x \in DOMAIN holdQ
    BY <2>3 DEF Due
  <2>6. QED
    BY <1>2, <1>5, <2>1, <2>2, <2>4, <2>5 DEF Paid
<1>23. Held' /\ HoldsAgree'
  BY <1>1, <1>2, <1>5 DEF IInv, Held, HoldsAgree, Empty, ExpandedInput, ExpandedOutput, SWHoldEvaluated
<1>24. Awake'
  BY <1>1 DEF Awake
<1>25. InItsQueues'
  BY <1>1, <1>2, <1>5, <1>17 DEF IInv, InItsQueues, Empty, SWHoldEvaluated
<1>26. QED
  BY <1>18, <1>19, <1>20, <1>21, <1>22, <1>23, <1>24, <1>25 DEF IInv

-----------------------------------------------------------------------------
(* The end of route computation keeps the invariant.                       *)
LEMMA RouteUpdateInv ==
  ASSUME IInv, RouteUpdate
  PROVE  IInv'
<1> DEFINE X == Due(routeQ)
<1>1. /\ phase = "route_update" /\ phase' = "vc_update" /\ config' = config
      /\ state' = Overlay(state, [x \in X |-> "vc_alloc"])
      /\ out' = Overlay(out, [x \in X |-> None])
      /\ routeQ' = Dequeue(routeQ, X)
      /\ vcQ' = IF Piggyback THEN vcQ ELSE Enqueue(vcQ, X)
      /\ swQ' = IF Speculative THEN Enqueue(swQ, X) ELSE swQ
      /\ activity' = (activity \/ routeQ' # <<>>)
  BY DEF RouteUpdate
<1>2. /\ UNCHANGED <<got, buf, holdQ, vcMatch, holdVc, holdIn, holdOut>>
      /\ UNCHANGED <<offset, occ, inUse, crossbar, outBuf, active>>
  BY DEF RouteUpdate, holdVars, nextVars
<1>3. PICK r \in Routes(X) : routes' = Overlay(routes, r)
  BY DEF RouteUpdate
<1>4. TypeOK
  BY DEF IInv, Typed
<1>5. /\ state \in [InVC -> {"idle", "routing", "vc_alloc", "active"}]
      /\ out \in [InVC -> OutVC \cup {None}] /\ routes \in [InVC -> SUBSET Output]
      /\ QueueOK(routeQ, config.routing, {}) /\ QueueOK(vcQ, config.vca, OutVC)
      /\ QueueOK(holdQ, 0, LaneOut) /\ QueueOK(swQ, config.swa, LaneOut)
      /\ config.vca \in Nat \ {0} /\ config.swa \in Nat \ {0}
  BY <1>4, ConfigFacts DEF TypeOK
<1>6. X \subseteq DOMAIN routeQ /\ X \subseteq InVC
  BY <1>5 DEF QueueOK, Due
<1>7. /\ InVC' = InVC /\ OutVC' = OutVC /\ LaneIn' = LaneIn /\ LaneOut' = LaneOut
      /\ Piggyback' = Piggyback /\ Speculative' = Speculative
  BY <1>1, SameSets
<1>8. \A x \in X : state[x] = "routing" /\ x \notin DOMAIN vcQ /\ x \notin DOMAIN swQ /\ x \notin DOMAIN holdQ
  BY <1>6 DEF IInv, InItsQueues
<1> HIDE DEF X
<1>9. /\ state' \in [InVC -> {"idle", "routing", "vc_alloc", "active"}]
      /\ \A x \in InVC : state'[x] = IF x \in X THEN "vc_alloc" ELSE state[x]
  BY <1>1, <1>5, <1>6 DEF Overlay
<1>10. /\ out' \in [InVC -> OutVC \cup {None}]
       /\ \A x \in InVC : out'[x] = IF x \in X THEN None ELSE out[x]
  BY <1>1, <1>5, <1>6 DEF Overlay
<1>11. /\ DOMAIN vcQ' = IF Piggyback THEN DOMAIN vcQ ELSE DOMAIN vcQ \cup X
       /\ \A x \in DOMAIN vcQ' : vcQ'[x] = IF x \in X THEN Fresh ELSE vcQ[x]
  BY <1>1, <1>8 DEF Enqueue, Overlay
<1>12. /\ DOMAIN swQ' = IF Speculative THEN DOMAIN swQ \cup X ELSE DOMAIN swQ
       /\ \A x \in DOMAIN swQ' : swQ'[x] = IF x \in X THEN Fresh ELSE swQ[x]
  BY <1>1, <1>8 DEF Enqueue, Overlay
<1>13. /\ DOMAIN routeQ' = DOMAIN routeQ \ X
       /\ \A x \in DOMAIN routeQ' : routeQ'[x] = routeQ[x]
  BY <1>1 DEF Dequeue
<1>14. Typed'
  <2>1. /\ QueueOK(routeQ', config.routing, {}) /\ QueueOK(vcQ', config.vca, OutVC)
        /\ QueueOK(swQ', config.swa, LaneOut)
    BY <1>1, <1>5, <1>6 DEF QueueOK, Entries, Fresh, NotYet, Enqueue, Dequeue, Overlay
  <2>2. routes' \in [InVC -> SUBSET Output]
    BY <1>3, <1>5, <1>6 DEF Routes, Overlay
  <2>3. TypeOK'
    BY <1>1, <1>2, <1>7, <1>9, <1>10, <2>1, <2>2, <1>4 DEF TypeOK, QueueOK, Output, VC, Input, Crossing
  <2>4. QED
    BY <2>3, <1>1 DEF Typed, Phases
<1>15. OutputsSet'
  BY <1>6, <1>7, <1>9, <1>10 DEF IInv, OutputsSet
<1>16. Owned'
  <2>1. \A x \in InVC : /\ state'[x] = "active" <=> state[x] = "active"
                        /\ state[x] = "active" => out'[x] = out[x]
    BY <1>8, <1>9, <1>10
  <2>2. QED
    BY <1>2, <1>7, <2>1 DEF IInv, Owned
<1>17. Timed'
  <2>1. \A x \in DOMAIN vcQ' : vcQ'[x].due <= config.vca - 1
    BY <1>1, <1>5, <1>11 DEF IInv, Timed, Asked, Fresh, NotYet
  <2>2. \A x \in DOMAIN swQ' : swQ'[x].due <= config.swa - 1
    BY <1>1, <1>5, <1>12 DEF IInv, Timed, Chosen, Fresh, NotYet
  <2>3. QED
    BY <1>1, <2>1, <2>2 DEF Timed, Asked, Chosen
<1>18. VCGrants'
  <2>1. phase \in Asked
    BY <1>1 DEF Asked
  <2>2. /\ \A x \in DOMAIN vcQ' : vcQ'[x].grant # None \/ vcQ'[x].due = 0 => x \in DOMAIN vcQ /\ vcQ'[x] = vcQ[x]
        /\ \A x \in DOMAIN vcQ : x \in DOMAIN vcQ' /\ vcQ'[x] = vcQ[x]
    BY <1>8, <1>11 DEF Fresh, NotYet
  <2>3. QED
    BY <1>1, <1>2, <2>1, <2>2 DEF IInv, VCGrants, Due
<1>19. SWGrants'
  BY <1>1, <1>12 DEF IInv, SWGrants, Fresh, ExpandedInput, ExpandedOutput
<1>20. Paid'
  <2>1. phase \in Chosen /\ phase \in {"route_update", "vc_update"}
    BY <1>1 DEF Chosen
  <2>2. \A x \in Due(swQ') : x \in Due(swQ) /\ x \in InVC /\ swQ'[x].grant = swQ[x].grant /\ x \notin X
    BY <1>5, <1>12 DEF Due, Fresh, NotYet, QueueOK
  <2>3. \A x \in Due(holdQ') : x \in Due(holdQ) /\ x \in InVC /\ holdQ'[x].grant = holdQ[x].grant /\ x \notin X
    BY <1>2, <1>5, <1>8 DEF Due, QueueOK
  <2>4. QED
    BY <1>2, <1>7, <1>9, <1>10, <2>1, <2>2, <2>3 DEF IInv, Paid
<1>21. Held'
  BY <1>1, <1>2, <1>7 DEF IInv, Held, ExpandedInput
<1>22. Awake'
  BY <1>1 DEF Awake
<1>23. NoOverflow'
  BY <1>2, <1>7 DEF IInv, NoOverflow
<1>24. InItsQueues'
  BY <1>2, <1>6, <1>7, <1>8, <1>9, <1>11, <1>12, <1>13 DEF IInv, InItsQueues, Empty
<1>25. HoldsAgree'
  BY <1>1, <1>2, <1>5, <1>7, <1>8, <1>9, <1>10 DEF IInv, HoldsAgree, Empty, ExpandedOutput, QueueOK
<1>26. QED
  BY <1>14, <1>15, <1>16, <1>17, <1>18, <1>19, <1>20, <1>21, <1>22, <1>23, <1>24, <1>25 DEF IInv

(* Taking the granted VCs keeps the invariant: each goes to one owner, and *)
(* a speculative switch grant has room in the VC that is taken here.       *)
LEMMA VCAllocUpdateInv ==
  ASSUME IInv, VCAllocUpdate
  PROVE  IInv'
<1> DEFINE X == {x \in Due(vcQ) : vcQ[x].grant # None}
<1>1. /\ phase = "vc_update" /\ config' = config
      /\ out' = Overlay(out, [x \in X |-> vcQ[x].grant])
      /\ state' = Overlay(state, [x \in X |-> "active"])
      /\ inUse' = [w \in OutVC |-> inUse[w] \/ \E x \in X : vcQ[x].grant = w]
      /\ vcQ' = Enqueue(Dequeue(vcQ, X), Due(vcQ) \ X)
      /\ swQ' = IF Speculative THEN swQ ELSE Enqueue(swQ, X)
      /\ activity' = (activity \/ vcQ' # <<>>)
      /\ phase' = IF config.hold THEN "sw_hold_update" ELSE "sw_update"
  BY DEF VCAllocUpdate
<1>2. /\ UNCHANGED <<config, got, buf, routes, routeQ, holdQ, vcMatch>>
      /\ UNCHANGED <<holdVc, holdIn, holdOut, offset, occ, crossbar, outBuf, active>>
  BY DEF VCAllocUpdate, holdVars
<1>3. TypeOK
  BY DEF IInv, Typed
<1>4. /\ X \subseteq Due(vcQ) /\ Due(vcQ) \subseteq DOMAIN vcQ /\ X \subseteq InVC
      /\ \A x \in X : vcQ[x].grant \in OutVC /\ vcQ[x].grant # None /\ vcQ[x].due = 0
      /\ \A x \in Due(vcQ) \ X : vcQ[x].grant = None
  BY <1>3 DEF TypeOK, QueueOK, Entries, Due
<1>5. /\ state \in [InVC -> {"idle", "routing", "vc_alloc", "active"}]
      /\ out \in [InVC -> OutVC \cup {None}]
      /\ QueueOK(vcQ, config.vca, OutVC) /\ QueueOK(swQ, config.swa, LaneOut)
      /\ QueueOK(holdQ, 0, LaneOut)
  BY <1>3 DEF TypeOK
<1>6. /\ InVC' = InVC /\ OutVC' = OutVC /\ LaneIn' = LaneIn /\ LaneOut' = LaneOut
      /\ Piggyback' = Piggyback /\ Speculative' = Speculative
  BY <1>1, SameSets
<1> HIDE DEF X
<1>7. /\ state' \in [InVC -> {"idle", "routing", "vc_alloc", "active"}]
      /\ \A x \in InVC : state'[x] = IF x \in X THEN "active" ELSE state[x]
  BY <1>1, <1>4, <1>5 DEF Overlay
<1>8. /\ out' \in [InVC -> OutVC \cup {None}]
      /\ \A x \in InVC : out'[x] = IF x \in X THEN vcQ[x].grant ELSE out[x]
  BY <1>1, <1>4, <1>5 DEF Overlay
<1>9. /\ DOMAIN vcQ' = DOMAIN vcQ \ X
      /\ \A x \in DOMAIN vcQ \ X : vcQ'[x] = IF x \in Due(vcQ) THEN Fresh ELSE vcQ[x]
  BY <1>1, <1>4 DEF Enqueue, Dequeue, Overlay
<1>10. /\ DOMAIN swQ' = IF Speculative THEN DOMAIN swQ ELSE DOMAIN swQ \cup X
       /\ \A x \in DOMAIN swQ' : swQ'[x] = IF ~Speculative /\ x \in X THEN Fresh ELSE swQ[x]
  BY <1>1 DEF Enqueue, Dequeue, Overlay
<1>11. \A x \in X : state[x] = "vc_alloc" /\ ~Piggyback /\ x \notin DOMAIN holdQ
  BY <1>4 DEF IInv, InItsQueues
<1>12. Typed'
  <2>1. QueueOK(vcQ', config.vca, OutVC)
    <3>1. vcQ' = [x \in DOMAIN vcQ' |-> vcQ'[x]]
      BY <1>1 DEF Enqueue, Dequeue, Overlay
    <3>2. Fresh \in Entries(config.vca, OutVC)
      BY ConfigFacts, <1>3 DEF Entries, Fresh, NotYet
    <3>3. \A x \in DOMAIN vcQ : x \in InVC /\ vcQ[x] \in Entries(config.vca, OutVC)
      BY <1>5 DEF QueueOK
    <3>4. DOMAIN vcQ' \subseteq InVC /\ \A x \in DOMAIN vcQ' : vcQ'[x] \in Entries(config.vca, OutVC)
      BY <1>9, <3>2, <3>3
    <3>5. QED
      BY <3>1, <3>4 DEF QueueOK
  <2>2. QueueOK(swQ', config.swa, LaneOut)
    <3>1. swQ' = [x \in DOMAIN swQ' |-> swQ'[x]]
      BY <1>1, <1>5 DEF Enqueue, Dequeue, Overlay, QueueOK
    <3>2. Fresh \in Entries(config.swa, LaneOut)
      BY ConfigFacts, <1>3 DEF Entries, Fresh, NotYet
    <3>3. \A x \in DOMAIN swQ : x \in InVC /\ swQ[x] \in Entries(config.swa, LaneOut)
      BY <1>5 DEF QueueOK
    <3>4. DOMAIN swQ' \subseteq InVC /\ \A x \in DOMAIN swQ' : swQ'[x] \in Entries(config.swa, LaneOut)
      BY <1>4, <1>10, <3>2, <3>3
    <3>5. QED
      BY <3>1, <3>4 DEF QueueOK
  <2>3. TypeOK'
    BY <1>1, <1>2, <1>6, <1>7, <1>8, <2>1, <2>2, <1>3 DEF TypeOK, QueueOK, Output, VC, Input, Crossing
  <2>4. QED
    BY <2>3, <1>1 DEF Typed, Phases
<1>13. OutputsSet'
  BY <1>4, <1>6, <1>7, <1>8 DEF IInv, OutputsSet
<1>14. Owned'
  <2>1. /\ \A x \in X : ~inUse[vcQ[x].grant]
        /\ \A x, y \in X : vcQ[x].grant = vcQ[y].grant => x = y
    BY <1>1, <1>4 DEF IInv, VCGrants, Asked, Due
  <2>2. \A x, y \in InVC : state'[x] = "active" /\ state'[y] = "active" /\ out'[x] = out'[y] => x = y
    BY <1>4, <1>7, <1>8, <2>1 DEF IInv, Owned
  <2>3. \A w \in OutVC : inUse'[w] <=> inUse[w] \/ \E x \in X : vcQ[x].grant = w
    BY <1>1
  <2>4. \A w \in OutVC : inUse'[w] => \E x \in InVC : state'[x] = "active" /\ out'[x] = w
    BY <2>3, <1>4, <1>7, <1>8, <1>11 DEF IInv, Owned
  <2>5. \A w \in OutVC : (\E x \in InVC : state'[x] = "active" /\ out'[x] = w) => inUse'[w]
    BY <2>3, <1>4, <1>7, <1>8, <1>11 DEF IInv, Owned
  <2>6. QED
    BY <1>6, <2>2, <2>4, <2>5, <1>1 DEF Owned
<1>15. Timed'
  <2>1. \A x \in DOMAIN vcQ' : vcQ'[x].due # 0 /\ vcQ'[x].due <= config.vca - 1
    <3>1. config.vca \in Nat /\ config.vca # 0
      BY <1>3, ConfigFacts
    <3>2. \A x \in DOMAIN vcQ : vcQ[x].due <= config.vca - 1 /\ (x \notin Due(vcQ) => vcQ[x].due # 0)
      BY <1>1 DEF IInv, Timed, Asked, Due
    <3>3. QED
      BY <1>9, <3>1, <3>2 DEF Fresh, NotYet
  <2>2. \A x \in DOMAIN swQ' : swQ'[x].due <= config.swa - 1
    BY <1>1, <1>4, <1>9, <1>10, <1>3, ConfigFacts, SMTT(30) DEF IInv, Timed, Chosen, Fresh, NotYet
  <2>3. QED
    BY <1>1, <2>1, <2>2 DEF Timed, Asked, Chosen
<1>16. VCGrants'
  <2>1. phase' \notin Asked
    BY <1>1 DEF Asked
  <2>2. \A x \in DOMAIN vcQ' : vcQ'[x].grant # None => x \in DOMAIN vcQ /\ vcQ'[x] = vcQ[x]
    BY <1>9 DEF Fresh
  <2>3. QED
    BY <2>1, <2>2 DEF IInv, VCGrants
<1>17. SWGrants'
  BY <1>2, <1>10 DEF IInv, SWGrants, Fresh, ExpandedInput, ExpandedOutput
<1>18. Paid'
  <2>1. \A x \in Due(swQ') : swQ'[x].grant # None =>
          x \in Due(swQ) /\ swQ'[x].grant = swQ[x].grant /\ (Speculative \/ x \notin X)
    BY <1>4, <1>10 DEF Due, Fresh
  <2>2. \A x \in X : x \in DOMAIN vcMatch => vcMatch[x] = vcQ[x].grant
    BY <1>1 DEF IInv, VCGrants, Asked
  <2>3. phase \in Chosen /\ phase \in {"route_update", "vc_update"} /\ phase' \notin {"route_update", "vc_update"}
    BY <1>1 DEF Chosen
  <2>4. \A x \in Due(swQ') : swQ'[x].grant # None /\ state'[x] = "active" => occ'[out'[x]] < OutSize
    <3> SUFFICES ASSUME NEW x \in Due(swQ'), swQ'[x].grant # None, state'[x] = "active"
                 PROVE  occ'[out'[x]] < OutSize
      OBVIOUS
    <3>1. x \in InVC /\ x \in Due(swQ) /\ swQ[x].grant # None /\ (Speculative \/ x \notin X)
      BY <1>5, <2>1 DEF Due, QueueOK
    <3>2. CASE x \in X
      BY <1>2, <1>8, <1>11, <2>2, <2>3, <3>1, <3>2 DEF IInv, Paid
    <3>3. CASE x \notin X
      BY <1>2, <1>7, <1>8, <2>3, <3>1, <3>3 DEF IInv, Paid
    <3>4. QED
      BY <3>2, <3>3
  <2>5. \A x \in Due(holdQ') : holdQ'[x].grant # None => occ'[out'[x]] < OutSize
    BY <1>2, <1>5, <1>8, <1>11, <2>3 DEF IInv, Paid, Due, QueueOK
  <2>6. QED
    BY <2>3, <2>4, <2>5 DEF Paid
<1>19. Held'
  BY <1>2, <1>6 DEF IInv, Held, ExpandedInput
<1>20. Awake'
  <2>1. ~config.hold => holdQ = <<>>
    BY <1>3, EmptyQueue DEF IInv, Held, TypeOK
  <2>2. QED
    BY <1>1, <1>2, <2>1 DEF IInv, Awake
<1>21. NoOverflow'
  BY <1>2, <1>6 DEF IInv, NoOverflow
<1>22. InItsQueues'
  BY <1>2, <1>6, <1>7, <1>9, <1>10, <1>11 DEF IInv, InItsQueues, Empty
<1>23. HoldsAgree'
  BY <1>2, <1>5, <1>6, <1>7, <1>8, <1>11 DEF IInv, HoldsAgree, Empty, ExpandedOutput, QueueOK
<1>24. QED
  BY <1>12, <1>13, <1>14, <1>15, <1>16, <1>17, <1>18, <1>19, <1>20, <1>21, <1>22, <1>23 DEF IInv

-----------------------------------------------------------------------------
(* What a VC does after a tail when another head is behind it.             *)
Restarts(x) == IF config.routing > 0 THEN "routing" ELSE "vc_alloc"

(* Who may send to the VC w: its owner, or a piggybacked grant that finds it free. *)
MaySendTo(x, w) == /\ x \in InVC /\ ~Empty(x) /\ w \in OutVC /\ occ[w] < OutSize
                   /\ \/ state[x] = "active" /\ w = out[x]
                      \/ state[x] = "vc_alloc" /\ Piggyback /\ ~inUse[w]

(* What sending the front flit of x to w does. *)
Sent(x, w) ==
  /\ \A y \in InVC : y # x => /\ buf'[y] = buf[y] /\ state'[y] = state[y]
                              /\ out'[y] = out[y] /\ routes'[y] = routes[y]
  /\ buf'[x] = Tail(buf[x])
  /\ state'[x] = IF Head(buf[x]).tail THEN IF NextPacket(x) THEN Restarts(x) ELSE "idle" ELSE "active"
  /\ out'[x] = IF NextPacket(x) /\ ~(config.routing > 0) THEN None ELSE w
  /\ \A v \in OutVC : v # w => occ'[v] = occ[v] /\ inUse'[v] = inUse[v]
  /\ occ'[w] = occ[w] + 1 /\ inUse'[w] = ~Head(buf[x]).tail
  /\ DOMAIN routeQ' = IF NextPacket(x) /\ config.routing > 0 THEN DOMAIN routeQ \cup {x} ELSE DOMAIN routeQ
  /\ DOMAIN vcQ' = IF NextPacket(x) /\ ~(config.routing > 0) /\ ~Piggyback THEN DOMAIN vcQ \cup {x} ELSE DOMAIN vcQ
  /\ \A y \in DOMAIN vcQ' : vcQ'[y] = Fresh \/ (y \in DOMAIN vcQ /\ vcQ'[y] = vcQ[y])
  /\ HasFresh'

(* A VC with flits can give one away, and is empty afterwards if it had no *)
(* second.                                                                 *)
LEMMA BufferFacts ==
  ASSUME TypeOK, NEW x \in InVC, ~Empty(x)
  PROVE  /\ Tail(buf[x]) \in Seq(Flit) /\ Head(buf[x]).tail \in BOOLEAN
         /\ Tail(buf[x]) = <<>> <=> ~(Len(buf[x]) > 1)
<1>1. buf[x] \in Seq(Flit) /\ buf[x] # <<>>
  BY DEF TypeOK, Empty
<1>2. Head(buf[x]) \in Flit /\ Tail(buf[x]) \in Seq(Flit) /\ Len(buf[x]) \in Nat /\ Len(buf[x]) > 0
  BY <1>1
<1>3. Tail(buf[x]) = <<>> <=> ~(Len(buf[x]) > 1)
  <2>1. Len(Tail(buf[x])) = Len(buf[x]) - 1
    BY <1>1
  <2>2. Tail(buf[x]) = <<>> <=> Len(Tail(buf[x])) = 0
    BY <1>2, EmptySeq
  <2>3. \A n \in Nat : n > 0 => (n - 1 = 0 <=> ~(n > 1))
    OBVIOUS
  <2>4. Len(buf[x]) - 1 = 0 <=> ~(Len(buf[x]) > 1)
    BY <1>2, <2>3
  <2>5. QED
    BY <2>1, <2>2, <2>4
<1>4. QED
  BY <1>2, <1>3 DEF Flit

(* Forward does what Sent says.                                            *)
LEMMA ForwardFacts ==
  ASSUME TypeOK, NEW x, NEW e, NEW w, MaySendTo(x, w), Forward(x, e, w)
  PROVE  Sent(x, w)
<1>1. /\ buf \in [InVC -> Seq(Flit)] /\ state \in [InVC -> {"idle", "routing", "vc_alloc", "active"}]
      /\ out \in [InVC -> OutVC \cup {None}] /\ occ \in [OutVC -> Nat] /\ inUse \in [OutVC -> BOOLEAN]
      /\ crossbar \in Seq(Crossing) /\ x \in InVC /\ w \in OutVC /\ routes \in [InVC -> SUBSET Output]
  BY DEF TypeOK, MaySendTo
<1> DEFINE next == IF Head(buf[x]).tail /\ Len(buf[x]) > 1 THEN {x} ELSE {}
<1>2. /\ buf' = [buf EXCEPT ![x] = Tail(@)]
      /\ occ' = [occ EXCEPT ![w] = @ + 1]
      /\ inUse' = [inUse EXCEPT ![w] = ~Head(buf[x]).tail]
      /\ crossbar' = Append(crossbar, [due |-> NotYet, to |-> w])
      /\ state' = IF Head(buf[x]).tail THEN NewHeads([state EXCEPT ![x] = "idle"], next)
                  ELSE [state EXCEPT ![x] = "active"]
      /\ out' = [out EXCEPT ![x] = IF Head(buf[x]).tail /\ LookedAhead(next) # {} THEN None ELSE w]
      /\ routeQ' = ToRoute(routeQ, next)
      /\ vcQ' = ToAllocateVC(vcQ, next)
  BY DEF Forward, KeepsVC
<1>3. next = IF NextPacket(x) THEN {x} ELSE {}
  BY DEF NextPacket
<1>4. /\ \A y \in InVC : y # x => buf'[y] = buf[y] /\ out'[y] = out[y]
      /\ buf'[x] = Tail(buf[x])
      /\ out'[x] = IF NextPacket(x) /\ ~(config.routing > 0) THEN None ELSE w
  BY <1>1, <1>2, <1>3 DEF LookedAhead, NextPacket
<1>5. /\ \A y \in InVC : y # x => state'[y] = state[y]
      /\ state'[x] = IF Head(buf[x]).tail THEN IF NextPacket(x) THEN Restarts(x) ELSE "idle" ELSE "active"
  BY <1>1, <1>2 DEF NewHeads, Overlay, Restarts, NextPacket
<1>6. /\ \A v \in OutVC : v # w => occ'[v] = occ[v] /\ inUse'[v] = inUse[v]
      /\ occ'[w] = occ[w] + 1 /\ inUse'[w] = ~Head(buf[x]).tail
  BY <1>1, <1>2
<1> HIDE DEF next
<1>7. /\ DOMAIN routeQ' = IF NextPacket(x) /\ config.routing > 0 THEN DOMAIN routeQ \cup {x} ELSE DOMAIN routeQ
      /\ DOMAIN vcQ' = IF NextPacket(x) /\ ~(config.routing > 0) /\ ~Piggyback THEN DOMAIN vcQ \cup {x} ELSE DOMAIN vcQ
      /\ \A y \in DOMAIN vcQ' : vcQ'[y] = Fresh \/ (y \in DOMAIN vcQ /\ vcQ'[y] = vcQ[y])
  BY <1>2, <1>3 DEF ToRoute, ToAllocateVC, Enqueue, Overlay
<1>8. HasFresh'
  <2>1. Len(crossbar) + 1 \in DOMAIN crossbar' /\ crossbar'[Len(crossbar) + 1] = [due |-> NotYet, to |-> w]
    BY <1>1, <1>2
  <2>2. QED
    BY <2>1 DEF HasFresh
<1>9. \A y \in InVC : y # x => routes'[y] = routes[y]
  <2>1. PICK r \in Routes(LookedAhead(next)) : routes' = Overlay(routes, r)
    BY DEF Forward, next
  <2>2. LookedAhead(next) \subseteq {x}
    BY <1>3 DEF LookedAhead
  <2>3. QED
    BY <1>1, <2>1, <2>2 DEF Routes, Overlay
<1>10. QED
  BY <1>4, <1>5, <1>6, <1>7, <1>8, <1>9 DEF Sent

(* Forward keeps the types of what it changes.                             *)
LEMMA ForwardType ==
  ASSUME TypeOK, NEW x, NEW e, NEW w, MaySendTo(x, w), Forward(x, e, w)
  PROVE  /\ buf' \in [InVC -> Seq(Flit)] /\ state' \in [InVC -> {"idle", "routing", "vc_alloc", "active"}]
         /\ routes' \in [InVC -> SUBSET Output] /\ out' \in [InVC -> OutVC \cup {None}]
         /\ occ' \in [OutVC -> Nat] /\ inUse' \in [OutVC -> BOOLEAN]
         /\ QueueOK(routeQ', config.routing, {}) /\ QueueOK(vcQ', config.vca, OutVC)
         /\ crossbar' \in Seq(Crossing)
<1>1. /\ buf \in [InVC -> Seq(Flit)] /\ state \in [InVC -> {"idle", "routing", "vc_alloc", "active"}]
      /\ out \in [InVC -> OutVC \cup {None}] /\ occ \in [OutVC -> Nat] /\ inUse \in [OutVC -> BOOLEAN]
      /\ routes \in [InVC -> SUBSET Output] /\ config.crossbar \in Nat \ {0}
      /\ QueueOK(routeQ, config.routing, {}) /\ QueueOK(vcQ, config.vca, OutVC)
      /\ crossbar \in Seq(Crossing) /\ x \in InVC /\ w \in OutVC
      /\ config.vca \in Nat /\ config.routing \in Nat
  BY ConfigFacts DEF TypeOK, MaySendTo
<1> DEFINE next == IF Head(buf[x]).tail /\ Len(buf[x]) > 1 THEN {x} ELSE {}
<1>2. PICK r \in Routes(LookedAhead(next)) :
      /\ buf' = [buf EXCEPT ![x] = Tail(@)]
      /\ occ' = [occ EXCEPT ![w] = @ + 1]
      /\ inUse' = [inUse EXCEPT ![w] = ~Head(buf[x]).tail]
      /\ crossbar' = Append(crossbar, [due |-> NotYet, to |-> w])
      /\ state' = IF Head(buf[x]).tail THEN NewHeads([state EXCEPT ![x] = "idle"], next)
                  ELSE [state EXCEPT ![x] = "active"]
      /\ routes' = Overlay(routes, r)
      /\ out' = [out EXCEPT ![x] = IF Head(buf[x]).tail /\ LookedAhead(next) # {} THEN None ELSE w]
      /\ routeQ' = ToRoute(routeQ, next)
      /\ vcQ' = ToAllocateVC(vcQ, next)
  BY DEF Forward, KeepsVC
<1>3. Tail(buf[x]) \in Seq(Flit) /\ Head(buf[x]).tail \in BOOLEAN
  BY <1>1, BufferFacts DEF MaySendTo
<1>4. next \subseteq InVC /\ LookedAhead(next) \subseteq InVC
  BY <1>1 DEF LookedAhead
<1> HIDE DEF next
<1>5. buf' \in [InVC -> Seq(Flit)] /\ out' \in [InVC -> OutVC \cup {None}]
  BY <1>1, <1>2, <1>3
<1>6. occ' \in [OutVC -> Nat] /\ inUse' \in [OutVC -> BOOLEAN]
  BY <1>1, <1>2, <1>3, SMTT(30)
<1>7. state' \in [InVC -> {"idle", "routing", "vc_alloc", "active"}]
  BY <1>1, <1>2, <1>4 DEF NewHeads, Overlay
<1>8. routes' \in [InVC -> SUBSET Output]
  BY <1>1, <1>2, <1>4 DEF Routes, Overlay
<1>9. QueueOK(routeQ', config.routing, {}) /\ QueueOK(vcQ', config.vca, OutVC)
  BY <1>1, <1>2, <1>4, EnqueueType DEF ToRoute, ToAllocateVC
<1>10. crossbar' \in Seq(Crossing)
  <2>1. [due |-> NotYet, to |-> w] \in Crossing
    BY <1>1 DEF Crossing, NotYet
  <2>2. QED
    BY <1>1, <1>2, <2>1
<1>11. QED
  BY <1>5, <1>6, <1>7, <1>8, <1>9, <1>10

(* What a flit that leaves does to the parts of the invariant that no      *)
(* queue of the switch is in.                                              *)
LEMMA ForwardInv ==
  ASSUME IInv, NEW x, NEW e, NEW w, MaySendTo(x, w), Forward(x, e, w), config' = config,
         phase \in {"sw_hold_update", "sw_update"}, phase' = phase, vcMatch' = vcMatch
  PROVE  /\ OutputsSet' /\ Owned' /\ NoOverflow' /\ VCGrants'
         /\ \A y \in InVC : state[y] = "active" /\ y # x => state'[y] = "active" /\ occ'[out'[y]] = occ[out[y]]
         /\ \A y \in DOMAIN vcQ' : vcQ'[y].due # 0 /\ vcQ'[y].due <= config.vca - 1
<1>1. /\ TypeOK /\ x \in InVC /\ w \in OutVC /\ occ[w] < OutSize /\ occ \in [OutVC -> Nat] /\ OutSize \in Nat
      /\ inUse \in [OutVC -> BOOLEAN]
  BY ConfigFacts DEF IInv, Typed, MaySendTo, TypeOK
<1>2. InVC' = InVC /\ OutVC' = OutVC
  BY SameSets
<1>3. Head(buf[x]).tail \in BOOLEAN
  BY <1>1, BufferFacts DEF MaySendTo
<1>4. /\ \A y \in InVC : y # x => state'[y] = state[y] /\ out'[y] = out[y]
      /\ state'[x] = IF Head(buf[x]).tail THEN IF NextPacket(x) THEN Restarts(x) ELSE "idle" ELSE "active"
      /\ out'[x] = IF NextPacket(x) /\ ~(config.routing > 0) THEN None ELSE w
      /\ \A v \in OutVC : v # w => occ'[v] = occ[v] /\ inUse'[v] = inUse[v]
      /\ occ'[w] = occ[w] + 1 /\ inUse'[w] = ~Head(buf[x]).tail
      /\ \A y \in DOMAIN vcQ' : vcQ'[y] = Fresh \/ (y \in DOMAIN vcQ /\ vcQ'[y] = vcQ[y])
  <2>1. Sent(x, w)
    BY <1>1, ForwardFacts
  <2>2. QED
    BY <2>1 DEF Sent
<1>5. \A y \in InVC : state[y] = "active" /\ y # x => out[y] \in OutVC /\ out[y] # w
  BY <1>1 DEF IInv, Owned, OutputsSet, MaySendTo
<1>6. OutputsSet'
  BY <1>1, <1>2, <1>4 DEF IInv, OutputsSet, Restarts, NextPacket
<1>7. Owned'
  <2>1. state'[x] = "active" <=> ~Head(buf[x]).tail
    BY <1>3, <1>4 DEF Restarts
  <2>2. state'[x] = "active" => out'[x] = w
    BY <1>4, <2>1 DEF NextPacket
  <2>3. \A y \in InVC : y # x => (state'[y] = "active" <=> state[y] = "active") /\ out'[y] = out[y]
    BY <1>4
  <2>4. \A y, z \in InVC : state'[y] = "active" /\ state'[z] = "active" /\ out'[y] = out'[z] => y = z
    BY <1>1, <1>5, <2>2, <2>3 DEF IInv, Owned
  <2>5. inUse'[w] <=> \E y \in InVC : state'[y] = "active" /\ out'[y] = w
    BY <1>1, <1>4, <1>5, <2>1, <2>2, <2>3
  <2>6. \A v \in OutVC : v # w => (inUse'[v] <=> \E y \in InVC : state'[y] = "active" /\ out'[y] = v)
    <3> SUFFICES ASSUME NEW v \in OutVC, v # w
                 PROVE  inUse'[v] <=> \E y \in InVC : state'[y] = "active" /\ out'[y] = v
      OBVIOUS
    <3>1. inUse'[v] <=> \E y \in InVC : state[y] = "active" /\ out[y] = v
      BY <1>4 DEF IInv, Owned
    <3>2. state[x] = "active" => out[x] # v
      BY DEF MaySendTo, IInv, OutputsSet
    <3>3. QED
      BY <2>2, <2>3, <3>1, <3>2
  <2>7. QED
    BY <1>2, <2>4, <2>5, <2>6 DEF Owned
<1>8. NoOverflow'
  BY <1>1, <1>2, <1>4 DEF IInv, NoOverflow
<1>9. VCGrants'
  BY <1>4 DEF IInv, VCGrants, Asked, Fresh
<1>10. \A y \in InVC : state[y] = "active" /\ y # x => state'[y] = "active" /\ occ'[out'[y]] = occ[out[y]]
  BY <1>4, <1>5
<1>11. \A y \in DOMAIN vcQ' : vcQ'[y].due # 0 /\ vcQ'[y].due <= config.vca - 1
  <2>1. config.vca \in Nat \ {0}
    BY <1>1, ConfigFacts
  <2>2. \A y \in DOMAIN vcQ : vcQ[y].due # 0 /\ vcQ[y].due <= config.vca - 1
    BY DEF IInv, Timed, Asked
  <2>3. Fresh.due # 0 /\ Fresh.due <= config.vca - 1
    BY <2>1 DEF Fresh, NotYet
  <2>4. QED
    BY <1>4, <2>2, <2>3
<1>12. QED
  BY <1>6, <1>7, <1>8, <1>9, <1>10, <1>11

-----------------------------------------------------------------------------
(* Using or giving up a held connection keeps the invariant: the lane is   *)
(* released together with the entry of the queue, and a VC that could not  *)
(* send asks the switch again.                                             *)
LEMMA SWHoldUpdateInv ==
  ASSUME IInv, NEW x \in InVC, SWHoldUpdate(x)
  PROVE  IInv'
<1>0. PICK full \in HeldFull(holdQ[x].grant) :
        LET e == holdQ[x].grant
            sends == e # None /\ ~full
            others == Dequeue(holdQ, {x})
        IN  /\ IF sends
               THEN /\ Forward(x, e, out[x])
                    /\ swQ' = IF NextPacket(x) THEN ToSpeculate(swQ, {x}) ELSE swQ
               ELSE /\ swQ' = Enqueue(swQ, {x})
                    /\ UNCHANGED <<vcVars, routeQ, vcQ, nextVars, crossbar>>
            /\ IF sends /\ GoesOn(x) THEN holdQ' = Enqueue(others, {x}) /\ UNCHANGED holdVars
                                     ELSE holdQ' = others /\ Release(x)
  BY Zenon DEF SWHoldUpdate
<1> DEFINE sends == holdQ[x].grant # None /\ ~full
           others == Dequeue(holdQ, {x})
<1>1. /\ phase = "sw_hold_update" /\ phase' = phase /\ config' = config /\ x \in Due(holdQ)
      /\ IF sends
         THEN /\ Forward(x, holdQ[x].grant, out[x])
              /\ swQ' = IF NextPacket(x) THEN ToSpeculate(swQ, {x}) ELSE swQ
         ELSE /\ swQ' = Enqueue(swQ, {x})
              /\ UNCHANGED <<buf, state, routes, out, routeQ, vcQ, occ, inUse, crossbar>>
      /\ IF sends /\ GoesOn(x) THEN holdQ' = Enqueue(others, {x}) /\ UNCHANGED holdVars
                               ELSE holdQ' = others /\ Release(x)
  BY <1>0, Zenon DEF SWHoldUpdate, vcVars, nextVars
<1>2. UNCHANGED <<got, vcMatch, offset, outBuf, active, activity>>
  BY Zenon DEF SWHoldUpdate
<1>3. /\ InVC' = InVC /\ OutVC' = OutVC /\ LaneIn' = LaneIn /\ LaneOut' = LaneOut
      /\ Output' = Output /\ VC' = VC /\ Input' = Input
      /\ Piggyback' = Piggyback /\ Speculative' = Speculative /\ Crossing' = Crossing
  BY <1>1, SameSets
<1>4. /\ TypeOK
      /\ QueueOK(holdQ, 0, LaneOut) /\ QueueOK(swQ, config.swa, LaneOut)
      /\ holdVc \in [LaneIn -> VC \cup {NotYet}] /\ holdIn \in [LaneIn -> LaneOut \cup {None}]
      /\ holdOut \in [LaneOut -> LaneIn \cup {None}]
      /\ config.swa \in Nat \ {0}
  BY ConfigFacts DEF IInv, Typed, TypeOK
<1> DEFINE i == ExpandedInput(x)
<1>5. /\ x = <<x[1], x[2]>> /\ x[2] \in VC /\ x[2] # NotYet /\ i \in LaneIn /\ i[1] = x[1]
      /\ \A y \in InVC : y[1] = x[1] /\ y[2] = x[2] => y = x
      /\ \A y \in InVC : ExpandedInput(y) \in LaneIn /\ ExpandedInput(y)[1] = y[1]
  <2>1. \A y \in InVC : /\ y = <<y[1], y[2]>> /\ y[2] \in VC /\ y[2] \in Nat
                        /\ ExpandedInput(y) \in LaneIn
    BY <1>4, LaneFacts
  <2>2. x[2] # NotYet
    BY <2>1 DEF NotYet
  <2>3. QED
    BY <2>1, <2>2 DEF ExpandedInput
<1>6. x \in DOMAIN holdQ /\ state[x] = "active" /\ out[x] \in OutVC /\ holdVc[i] = x[2]
  BY <1>1 DEF Due, IInv, InItsQueues, OutputsSet, Held
<1>7. ~Empty(x) /\ holdIn[i] = ExpandedOutput(x, out[x][1]) /\ holdIn[i] \in LaneOut /\ holdOut[holdIn[i]] = i
  <2>1. ~Empty(x) /\ holdIn[i] = ExpandedOutput(<<i[1], holdVc[i]>>, out[x][1])
    BY <1>5, <1>6 DEF IInv, HoldsAgree
  <2>2. holdIn[i] \in LaneOut
    BY <1>4, <1>5, <1>6 DEF IInv, HoldsAgree
  <2>3. holdOut[holdIn[i]] = i
    BY <1>5, <2>2 DEF IInv, HoldsAgree
  <2>4. QED
    BY <1>5, <1>6, <2>1, <2>2, <2>3
<1>8. x \notin DOMAIN swQ /\ x \notin DOMAIN vcQ /\ x \notin DOMAIN routeQ
  BY <1>6, <1>7 DEF IInv, InItsQueues
<1>9. /\ DOMAIN others = DOMAIN holdQ \ {x} /\ \A y \in DOMAIN others : others[y] = holdQ[y]
      /\ QueueOK(others, 0, LaneOut)
  BY <1>4 DEF Dequeue, QueueOK
<1> HIDE DEF others, i
<1>10. IF sends /\ GoesOn(x)
       THEN /\ DOMAIN holdQ' = DOMAIN holdQ /\ UNCHANGED <<holdVc, holdIn, holdOut>>
            /\ \A y \in DOMAIN holdQ : y # x => holdQ'[y] = holdQ[y]
            /\ holdQ'[x] = Fresh
       ELSE /\ DOMAIN holdQ' = DOMAIN holdQ \ {x}
            /\ \A y \in DOMAIN holdQ' : holdQ'[y] = holdQ[y]
            /\ holdVc' = [holdVc EXCEPT ![i] = NotYet]
            /\ holdIn' = [holdIn EXCEPT ![i] = None]
            /\ holdOut' = [holdOut EXCEPT ![holdIn[i]] = None]
  BY <1>1, <1>6, <1>9 DEF Enqueue, Overlay, Release, SetHold, holdVars, i
<1>11. /\ DOMAIN swQ' = IF ~sends \/ (NextPacket(x) /\ config.routing = 0 /\ Speculative)
                        THEN DOMAIN swQ \cup {x} ELSE DOMAIN swQ
       /\ \A y \in DOMAIN swQ' : swQ'[y] = IF y = x THEN Fresh ELSE swQ[y]
  BY <1>1, <1>8 DEF ToSpeculate, Enqueue, Overlay
<1>12. QueueOK(swQ', config.swa, LaneOut)
  BY <1>1, <1>4, EnqueueType DEF ToSpeculate
<1>13. QueueOK(holdQ', 0, LaneOut)
  BY <1>1, <1>4, <1>9, EnqueueType
<1>14. sends => MaySendTo(x, out[x]) /\ Forward(x, holdQ[x].grant, out[x])
  BY <1>1, <1>6, <1>7 DEF MaySendTo, IInv, Paid, Chosen
<1>15. ~sends => UNCHANGED <<buf, state, routes, out, routeQ, vcQ, occ, inUse, crossbar>>
  BY <1>1
<1>16. sends => Sent(x, out[x])
  BY <1>4, <1>14, ForwardFacts
<1> HIDE DEF sends
<1>17. /\ OutputsSet' /\ Owned' /\ NoOverflow' /\ VCGrants'
       /\ \A y \in InVC : state[y] = "active" /\ y # x => state'[y] = "active" /\ occ'[out'[y]] = occ[out[y]]
       /\ \A y \in DOMAIN vcQ' : vcQ'[y].due # 0 /\ vcQ'[y].due <= config.vca - 1
  <2>1. CASE sends
    BY <1>1, <1>2, <1>14, <2>1, ForwardInv
  <2>2. CASE ~sends
    <3>1. OutputsSet' /\ Owned' /\ NoOverflow'
      BY <1>3, <1>15, <2>2 DEF IInv, OutputsSet, Owned, NoOverflow
    <3>2. VCGrants'
      BY <1>1, <1>15, <2>2 DEF IInv, VCGrants, Asked
    <3>3. \A y \in DOMAIN vcQ' : vcQ'[y].due # 0 /\ vcQ'[y].due <= config.vca - 1
      BY <1>1, <1>15, <2>2 DEF IInv, Timed, Asked
    <3>4. QED
      BY <1>15, <2>2, <3>1, <3>2, <3>3
  <2>3. QED
    BY <2>1, <2>2
<1>18. \A y \in InVC : y # x => buf'[y] = buf[y] /\ state'[y] = state[y] /\ out'[y] = out[y]
  BY <1>15, <1>16 DEF Sent
<1>19. Typed'
  <2>1. /\ buf' \in [InVC -> Seq(Flit)] /\ state' \in [InVC -> {"idle", "routing", "vc_alloc", "active"}]
        /\ routes' \in [InVC -> SUBSET Output] /\ out' \in [InVC -> OutVC \cup {None}]
        /\ occ' \in [OutVC -> Nat] /\ inUse' \in [OutVC -> BOOLEAN]
        /\ QueueOK(routeQ', config.routing, {}) /\ QueueOK(vcQ', config.vca, OutVC)
        /\ crossbar' \in Seq(Crossing)
    <3>1. CASE sends
      BY <1>4, <1>14, <3>1, ForwardType
    <3>2. CASE ~sends
      BY <1>4, <1>15, <3>2 DEF TypeOK, QueueOK
    <3>3. QED
      BY <3>1, <3>2
  <2>2. /\ holdVc' \in [LaneIn -> VC \cup {NotYet}] /\ holdIn' \in [LaneIn -> LaneOut \cup {None}]
        /\ holdOut' \in [LaneOut -> LaneIn \cup {None}]
    BY <1>4, <1>10
  <2>3. QED
    BY <1>1, <1>2, <1>3, <1>4, <1>12, <1>13, <2>1, <2>2 DEF Typed, TypeOK, Phases, QueueOK
<1>20. Timed'
  <2>1. \A y \in DOMAIN swQ' : swQ'[y].due <= config.swa - 1
    BY <1>1, <1>4, <1>11 DEF IInv, Timed, Chosen, Fresh, NotYet
  <2>2. QED
    BY <1>1, <1>17, <2>1 DEF Timed, Asked, Chosen
<1>21. SWGrants'
  BY <1>1, <1>11 DEF IInv, SWGrants, Fresh, ExpandedInput, ExpandedOutput
<1>22. Paid'
  <2>1. \A y \in InVC : state'[y] = "active" /\ y # x => state[y] = "active"
    BY <1>18
  <2>2. \A y \in Due(swQ') : y \in InVC /\ y # x /\ y \in Due(swQ) /\ swQ'[y].grant = swQ[y].grant
    BY <1>11, <1>12 DEF Due, QueueOK, Fresh, NotYet
  <2>3. \A y \in Due(holdQ') : y \in InVC /\ y # x /\ y \in Due(holdQ) /\ holdQ'[y].grant = holdQ[y].grant /\ state[y] = "active"
    BY <1>10, <1>13 DEF Due, QueueOK, Fresh, NotYet, IInv, InItsQueues
  <2>4. QED
    BY <1>1, <1>17, <2>1, <2>2, <2>3 DEF IInv, Paid, Chosen
<1>23. Held'
  <2>1. CASE sends /\ GoesOn(x)
    BY <1>1, <1>3, <1>10, <2>1 DEF IInv, Held, ExpandedInput
  <2>2. CASE ~(sends /\ GoesOn(x))
    <3>1. /\ holdVc'[i] = NotYet /\ \A e \in LaneIn : e # i => holdVc'[e] = holdVc[e]
          /\ DOMAIN holdQ' = DOMAIN holdQ \ {x}
      BY <1>4, <1>5, <1>10, <2>2
    <3>2. \A y \in InVC : y \in DOMAIN holdQ' <=> holdVc'[ExpandedInput(y)] = y[2]
      <4> SUFFICES ASSUME NEW y \in InVC
                   PROVE  y \in DOMAIN holdQ' <=> holdVc'[ExpandedInput(y)] = y[2]
        OBVIOUS
      <4>1. CASE ExpandedInput(y) # i
        BY <1>5, <3>1, <4>1 DEF IInv, Held, i
      <4>2. CASE ExpandedInput(y) = i
        <5>1. y[2] # NotYet
          BY <1>4, LaneFacts DEF NotYet
        <5>2. y \in DOMAIN holdQ => y = x
          BY <1>5, <1>6, <4>2 DEF IInv, Held
        <5>3. QED
          BY <3>1, <4>2, <5>1, <5>2
      <4>3. QED
        BY <4>1, <4>2
    <3>3. \A e \in LaneIn : holdVc'[e] # NotYet => ExpandedInput(<<e[1], holdVc'[e]>>) = e
      BY <3>1 DEF IInv, Held
    <3>4. ~config.hold => DOMAIN holdQ' = {}
      BY <3>1 DEF IInv, Held
    <3>5. QED
      BY <1>1, <1>3, <3>2, <3>3, <3>4 DEF Held, ExpandedInput
  <2>3. QED
    BY <2>1, <2>2
<1>24. Awake'
  BY <1>1, <1>2, <1>15, <1>16 DEF IInv, Awake, Sent, HasFresh
<1>25. Empty(x)' <=> IF sends THEN ~(Len(buf[x]) > 1) ELSE FALSE
  BY <1>4, <1>7, <1>15, <1>16, BufferFacts DEF Sent, Empty
<1>26. InItsQueues'
  <2>1. ASSUME NEW y \in InVC, y # x
        PROVE  /\ y \in DOMAIN swQ' <=> y \in DOMAIN swQ
               /\ y \in DOMAIN holdQ' <=> y \in DOMAIN holdQ
               /\ y \in DOMAIN vcQ' <=> y \in DOMAIN vcQ
               /\ y \in DOMAIN routeQ' <=> y \in DOMAIN routeQ
               /\ state'[y] = state[y] /\ buf'[y] = buf[y]
    BY <1>10, <1>11, <1>15, <1>16, <1>18, <2>1 DEF Sent
  <2>2. \/ state'[x] = "idle" /\ Empty(x)' /\ x \notin DOMAIN swQ' /\ x \notin DOMAIN holdQ' /\ x \notin DOMAIN vcQ' /\ x \notin DOMAIN routeQ'
        \/ /\ state'[x] = Restarts(x) /\ ~Empty(x)' /\ x \notin DOMAIN holdQ'
           /\ x \in DOMAIN routeQ' <=> config.routing > 0
           /\ x \in DOMAIN vcQ' <=> ~(config.routing > 0) /\ ~Piggyback
           /\ x \in DOMAIN swQ' <=> ~(config.routing > 0) /\ Speculative
        \/ /\ state'[x] = "active" /\ x \notin DOMAIN vcQ' /\ x \notin DOMAIN routeQ'
           /\ ~Empty(x)' <=> (x \in DOMAIN swQ') # (x \in DOMAIN holdQ')
    <3>1. CASE ~sends
      BY <1>6, <1>8, <1>10, <1>11, <1>15, <1>25, <3>1
    <3>2. CASE sends /\ NextPacket(x)
      <4>1. config.routing = 0 <=> ~(config.routing > 0)
        BY <1>4, ConfigFacts
      <4>2. QED
        BY <1>8, <1>10, <1>11, <1>16, <1>25, <3>2, <4>1 DEF Sent, NextPacket, GoesOn
    <3>3. CASE sends /\ ~NextPacket(x)
      BY <1>6, <1>8, <1>10, <1>11, <1>16, <1>25, <3>3 DEF Sent, NextPacket, GoesOn
    <3>4. QED
      BY <3>1, <3>2, <3>3
  <2>3. ASSUME NEW y \in InVC
        PROVE  /\ state'[y] = "idle" => Empty(y)'
               /\ state'[y] \in {"routing", "vc_alloc"} => ~Empty(y)'
               /\ y \in DOMAIN routeQ' <=> state'[y] = "routing"
               /\ y \in DOMAIN vcQ' <=> state'[y] = "vc_alloc" /\ ~Piggyback
               /\ state'[y] = "vc_alloc" => (y \in DOMAIN swQ' <=> Speculative)
               /\ state'[y] = "active" => (~Empty(y)' <=> (y \in DOMAIN swQ') # (y \in DOMAIN holdQ'))
               /\ state'[y] \in {"idle", "routing"} => y \notin DOMAIN swQ'
               /\ state'[y] # "active" => y \notin DOMAIN holdQ'
    <3>1. CASE y # x
      BY <2>1, <3>1 DEF IInv, InItsQueues, Empty
    <3>2. CASE y = x
      BY <2>2, <3>2 DEF Restarts
    <3>3. QED
      BY <3>1, <3>2
  <2>4. QED
    BY <1>3, <2>3 DEF InItsQueues
<1>27. HoldsAgree'
  <2>1. CASE sends /\ GoesOn(x)
    <3>1. state'[x] = "active" /\ out'[x] = out[x] /\ ~Empty(x)'
      BY <1>16, <1>25, <2>1 DEF Sent, GoesOn, NextPacket
    <3>2. ASSUME NEW e \in LaneIn, holdVc[e] # NotYet
          PROVE  LET y == <<e[1], holdVc[e]>>
                 IN  /\ state'[y] = "active" /\ buf'[y] # <<>> /\ y \in DOMAIN holdQ'
                     /\ holdIn[e] = ExpandedOutput(y, out'[y][1])
      <4> DEFINE y == <<e[1], holdVc[e]>>
      <4>1. y \in InVC /\ state[y] = "active" /\ ~Empty(y) /\ y \in DOMAIN holdQ /\ holdIn[e] = ExpandedOutput(y, out[y][1])
        BY <1>4, <3>2 DEF IInv, HoldsAgree, QueueOK
      <4> HIDE DEF y
      <4>2. state'[y] = "active" /\ out'[y] = out[y] /\ buf'[y] # <<>>
        BY <1>18, <3>1, <4>1 DEF Empty
      <4>3. y \in DOMAIN holdQ'
        BY <1>10, <2>1, <4>1
      <4>4. QED
        BY <4>1, <4>2, <4>3 DEF Empty, y
    <3>3. UNCHANGED <<holdVc, holdIn, holdOut>>
      BY <1>10, <2>1
    <3>4. \A e \in LaneIn : holdVc[e] # NotYet =>
            LET y == <<e[1], holdVc[e]>>
            IN  /\ state'[y] = "active" /\ buf'[y] # <<>> /\ y \in DOMAIN holdQ'
                /\ holdIn[e] = ExpandedOutput(y, out'[y][1])
      BY <3>2
    <3>5. QED
      BY <1>1, <1>3, <3>3, <3>4 DEF IInv, HoldsAgree, ExpandedOutput, Empty
  <2>2. CASE ~(sends /\ GoesOn(x))
    <3>1. /\ holdVc'[i] = NotYet /\ \A e \in LaneIn : e # i => holdVc'[e] = holdVc[e]
          /\ holdIn'[i] = None /\ \A e \in LaneIn : e # i => holdIn'[e] = holdIn[e]
          /\ holdOut'[holdIn[i]] = None /\ \A f \in LaneOut : f # holdIn[i] => holdOut'[f] = holdOut[f]
          /\ DOMAIN holdQ' = DOMAIN holdQ \ {x}
      BY <1>4, <1>5, <1>7, <1>10, <2>2
    <3>2. \A e \in LaneIn : (holdVc'[e] = NotYet) <=> (holdIn'[e] = None)
      BY <3>1 DEF IInv, HoldsAgree
    <3>3. \A e \in LaneIn, f \in LaneOut : holdIn'[e] = f <=> holdOut'[f] = e
      <4>1. None \notin LaneIn /\ None \notin LaneOut
        BY DEF None, LaneIn, LaneOut, Input, Output
      <4>2. QED
        BY <1>5, <1>7, <3>1, <4>1 DEF IInv, HoldsAgree
    <3>4. ASSUME NEW e \in LaneIn, holdVc'[e] # NotYet
          PROVE  LET y == <<e[1], holdVc'[e]>>
                 IN  /\ state'[y] = "active" /\ buf'[y] # <<>> /\ y \in DOMAIN holdQ'
                     /\ holdIn'[e] = ExpandedOutput(y, out'[y][1])
      <4> DEFINE y == <<e[1], holdVc[e]>>
      <4>1. e # i /\ holdVc'[e] = holdVc[e] /\ holdIn'[e] = holdIn[e]
        BY <3>1, <3>4
      <4>2. /\ y \in InVC /\ state[y] = "active" /\ ~Empty(y) /\ y \in DOMAIN holdQ
            /\ holdIn[e] = ExpandedOutput(y, out[y][1]) /\ ExpandedInput(y) = e
        BY <1>4, <3>4, <4>1 DEF IInv, HoldsAgree, QueueOK, Held
      <4> HIDE DEF y
      <4>3. y # x
        BY <4>1, <4>2 DEF i
      <4>4. state'[y] = "active" /\ out'[y] = out[y] /\ buf'[y] # <<>> /\ y \in DOMAIN holdQ'
        BY <1>18, <3>1, <4>2, <4>3 DEF Empty
      <4>5. QED
        BY <4>1, <4>2, <4>4 DEF Empty, y
    <3>5. \A e \in LaneIn : holdVc'[e] # NotYet =>
            LET y == <<e[1], holdVc'[e]>>
            IN  /\ state'[y] = "active" /\ buf'[y] # <<>> /\ y \in DOMAIN holdQ'
                /\ holdIn'[e] = ExpandedOutput(y, out'[y][1])
      BY <3>4
    <3>6. QED
      BY <1>1, <1>3, <3>2, <3>3, <3>5 DEF HoldsAgree, ExpandedOutput, Empty
  <2>3. QED
    BY <2>1, <2>2
<1>28. QED
  BY <1>17, <1>19, <1>20, <1>21, <1>22, <1>23, <1>24, <1>25, <1>26, <1>27 DEF IInv

(* The end of the update of the held connections keeps the invariant.      *)
LEMMA SWHoldDoneInv ==
  ASSUME IInv, SWHoldDone
  PROVE  IInv'
<1>1. /\ phase = "sw_hold_update" /\ phase' = "sw_update" /\ config' = config
      /\ activity' = (activity \/ holdQ # <<>>) /\ Due(holdQ) = {}
  BY DEF SWHoldDone
<1>2. /\ UNCHANGED <<got, buf, state, routes, out, routeQ, vcQ, holdQ, swQ, vcMatch>>
      /\ UNCHANGED <<holdVc, holdIn, holdOut, offset, occ, inUse, crossbar, outBuf, active>>
  BY DEF SWHoldDone, vcVars, queues, holdVars, nextVars
<1>3. /\ InVC' = InVC /\ OutVC' = OutVC /\ LaneIn' = LaneIn /\ LaneOut' = LaneOut
      /\ Output' = Output /\ VC' = VC /\ Input' = Input
      /\ Piggyback' = Piggyback /\ Speculative' = Speculative /\ Crossing' = Crossing
  BY <1>1, SameSets
<1>4. Typed'
  BY <1>1, <1>2, <1>3 DEF IInv, Typed, TypeOK, Phases, QueueOK
<1>5. OutputsSet' /\ Owned' /\ NoOverflow'
  BY <1>2, <1>3 DEF IInv, OutputsSet, Owned, NoOverflow
<1>6. Timed' /\ VCGrants'
  BY <1>1, <1>2 DEF IInv, Timed, VCGrants, Asked, Chosen, Due
<1>7. SWGrants' /\ Paid'
  BY <1>1, <1>2, <1>3 DEF IInv, SWGrants, Paid, Chosen, Due, ExpandedInput, ExpandedOutput
<1>8. Held' /\ HoldsAgree'
  BY <1>1, <1>2, <1>3 DEF IInv, Held, HoldsAgree, Empty, ExpandedInput, ExpandedOutput
<1>9. Awake'
  BY <1>1, <1>2 DEF IInv, Awake, HasFresh
<1>10. InItsQueues'
  BY <1>2, <1>3 DEF IInv, InItsQueues, Empty
<1>11. QED
  BY <1>4, <1>5, <1>6, <1>7, <1>8, <1>9, <1>10 DEF IInv

-----------------------------------------------------------------------------
(* Sending a flit over a granted lane keeps the invariant, for a VC that   *)
(* has its output VC and for one that picks it now (piggybacked); if an    *)
(* assertion fails instead, nothing has changed.                           *)
LEMMA SWAllocUpdateInv ==
  ASSUME IInv, NEW x \in InVC, SWAllocUpdate(x)
  PROVE  IInv'
<1> DEFINE g == swQ[x].grant
           i == ExpandedInput(x)
           others == Dequeue(swQ, {x})
<1>1. /\ phase = "sw_update" /\ phase' = phase /\ config' = config /\ x \in Due(swQ) /\ g # None
      /\ failed' = Broken(x, g)
      /\ UNCHANGED <<got, vcMatch, offset, outBuf, active, activity>>
      /\ IF failed' # ""
         THEN UNCHANGED <<vcVars, queues, nextVars, crossbar, holdVars>>
         ELSE /\ \E w \in Pickable(x, g[1]) : Forward(x, g, w)
              /\ IF config.hold /\ GoesOn(x)
                 THEN /\ SetHold(x, g, x[2], g, i)
                      /\ holdQ' = Enqueue(holdQ, {x})
                 ELSE UNCHANGED <<holdQ, holdVars>>
              /\ swQ' = IF NextPacket(x) THEN ToSpeculate(others, {x})
                        ELSE IF GoesOn(x) /\ ~config.hold THEN Enqueue(others, {x})
                        ELSE others
  BY DEF SWAllocUpdate
<1>2. /\ InVC' = InVC /\ OutVC' = OutVC /\ LaneIn' = LaneIn /\ LaneOut' = LaneOut
      /\ Output' = Output /\ VC' = VC /\ Input' = Input
      /\ Piggyback' = Piggyback /\ Speculative' = Speculative /\ Crossing' = Crossing
  BY <1>1, SameSets
<1>3. CASE failed' # ""
  BY <1>1, <1>3, StutterInv DEF vcVars, queues, nextVars, holdVars
<1>4. CASE failed' = ""
  <2>1. PICK w \in Pickable(x, g[1]) : Forward(x, g, w)
    BY <1>1, <1>4
  <2>2. /\ IF config.hold /\ GoesOn(x)
           THEN SetHold(x, g, x[2], g, i) /\ holdQ' = Enqueue(holdQ, {x})
           ELSE UNCHANGED <<holdQ, holdVc, holdIn, holdOut>>
        /\ swQ' = IF NextPacket(x) THEN ToSpeculate(others, {x})
                  ELSE IF GoesOn(x) /\ ~config.hold THEN Enqueue(others, {x})
                  ELSE others
    BY <1>1, <1>4 DEF holdVars
  <2>3. /\ holdIn[i] = None /\ holdOut[g] = None
        /\ \E v \in Pickable(x, g[1]) : v[1] = g[1]
    BY <1>1, <1>4 DEF Broken
  <2>4. /\ TypeOK
        /\ QueueOK(holdQ, 0, LaneOut) /\ QueueOK(swQ, config.swa, LaneOut)
        /\ holdVc \in [LaneIn -> VC \cup {NotYet}] /\ holdIn \in [LaneIn -> LaneOut \cup {None}]
        /\ holdOut \in [LaneOut -> LaneIn \cup {None}]
        /\ config.swa \in Nat \ {0} /\ config.hold \in BOOLEAN /\ config.routing \in Nat
        /\ occ \in [OutVC -> Nat] /\ OutSize \in Nat
        /\ state \in [InVC -> {"idle", "routing", "vc_alloc", "active"}]
    BY ConfigFacts DEF IInv, Typed, TypeOK
  <2>5. /\ x = <<x[1], x[2]>> /\ x[2] \in VC /\ x[2] # NotYet /\ i \in LaneIn /\ i[1] = x[1]
        /\ \A y \in InVC : y[1] = x[1] /\ y[2] = x[2] => y = x
        /\ \A y \in InVC : ExpandedInput(y) \in LaneIn /\ ExpandedInput(y)[1] = y[1] /\ y[2] # NotYet
    <3>1. \A y \in InVC : /\ y = <<y[1], y[2]>> /\ y[2] \in VC /\ y[2] \in Nat
                          /\ ExpandedInput(y) \in LaneIn
      BY <2>4, LaneFacts
    <3>2. \A y \in InVC : y[2] # NotYet
      BY <3>1 DEF NotYet
    <3>3. QED
      BY <3>1, <3>2 DEF ExpandedInput
  <2>6. x \in DOMAIN swQ /\ g \in LaneOut /\ g = ExpandedOutput(x, g[1])
    BY <1>1, <2>4 DEF QueueOK, Entries, Due, IInv, SWGrants
  <2>7. holdVc[i] = NotYet /\ x \notin DOMAIN holdQ
    <3>1. holdVc[i] = NotYet
      BY <2>3, <2>5 DEF IInv, HoldsAgree
    <3>2. QED
      BY <2>5, <3>1 DEF IInv, Held
  <2>8. state[x] \in {"vc_alloc", "active"} /\ ~Empty(x) /\ x \notin DOMAIN routeQ
    BY <2>4, <2>6, <2>7 DEF IInv, InItsQueues
  <2>9. state[x] = "vc_alloc" => Piggyback
    <3> SUFFICES ASSUME state[x] = "vc_alloc", ~Piggyback PROVE FALSE
      OBVIOUS
    <3>1. out[x] = None /\ Pickable(x, g[1]) = {None}
      BY DEF IInv, OutputsSet, Pickable
    <3>2. g[1] \in Output
      BY <2>6 DEF LaneOut
    <3>3. g[1] = -1
      BY <2>3, <3>1 DEF None
    <3>4. QED
      BY <2>4, <3>2, <3>3, ConfigFacts DEF Output
  <2>10. MaySendTo(x, w) /\ w[1] = g[1]
    <3>1. CASE state[x] = "active"
      <4>1. w = out[x] /\ w[1] = g[1] /\ w \in OutVC
        BY <2>1, <2>3, <3>1 DEF Pickable, IInv, OutputsSet
      <4>2. occ[w] < OutSize
        BY <1>1, <3>1, <4>1 DEF IInv, Paid, Chosen
      <4>3. QED
        BY <2>8, <3>1, <4>1, <4>2 DEF MaySendTo
    <3>2. CASE state[x] = "vc_alloc"
      <4>1. w \in OutVC /\ w[1] = g[1] /\ IsAvailableFor(w) /\ ~IsFullFor(w) /\ Piggyback
        BY <2>1, <2>9, <3>2 DEF Pickable
      <4>2. ~inUse[w] /\ occ[w] < OutSize
        BY <2>4, <4>1 DEF IsAvailableFor, IsFullFor
      <4>3. QED
        BY <2>8, <3>2, <4>1, <4>2 DEF MaySendTo
    <3>3. QED
      BY <2>8, <3>1, <3>2
  <2>11. x \notin DOMAIN vcQ
    BY <2>8, <2>9 DEF IInv, InItsQueues
  <2>12. Sent(x, w)
    BY <2>1, <2>4, <2>10, ForwardFacts
  <2>13. /\ OutputsSet' /\ Owned' /\ NoOverflow' /\ VCGrants'
         /\ \A y \in InVC : state[y] = "active" /\ y # x => state'[y] = "active" /\ occ'[out'[y]] = occ[out[y]]
         /\ \A y \in DOMAIN vcQ' : vcQ'[y].due # 0 /\ vcQ'[y].due <= config.vca - 1
    BY <1>1, <2>1, <2>10, ForwardInv
  <2>14. \A y \in InVC : y # x => buf'[y] = buf[y] /\ state'[y] = state[y] /\ out'[y] = out[y]
    BY <2>12 DEF Sent
  <2>15. /\ DOMAIN others = DOMAIN swQ \ {x} /\ \A y \in DOMAIN others : others[y] = swQ[y]
         /\ QueueOK(others, config.swa, LaneOut)
    BY <2>4 DEF Dequeue, QueueOK
  <2> HIDE DEF others, i, g
  <2>16. IF config.hold /\ GoesOn(x)
         THEN /\ DOMAIN holdQ' = DOMAIN holdQ \cup {x}
              /\ \A y \in DOMAIN holdQ : holdQ'[y] = holdQ[y]
              /\ holdQ'[x] = Fresh
              /\ holdVc' = [holdVc EXCEPT ![i] = x[2]]
              /\ holdIn' = [holdIn EXCEPT ![i] = g]
              /\ holdOut' = [holdOut EXCEPT ![g] = i]
         ELSE holdQ' = holdQ /\ UNCHANGED <<holdVc, holdIn, holdOut>>
    BY <2>2, <2>7 DEF Enqueue, Overlay, SetHold, i
  <2>17. /\ DOMAIN swQ' = IF (NextPacket(x) /\ config.routing = 0 /\ Speculative) \/ (GoesOn(x) /\ ~config.hold)
                          THEN DOMAIN swQ ELSE DOMAIN swQ \ {x}
         /\ \A y \in DOMAIN swQ' : swQ'[y] = IF y = x THEN Fresh ELSE swQ[y]
    BY <2>2, <2>6, <2>15 DEF ToSpeculate, Enqueue, Overlay, NextPacket, GoesOn
  <2>18. QueueOK(swQ', config.swa, LaneOut)
    BY <2>2, <2>4, <2>15, EnqueueType DEF ToSpeculate
  <2>19. QueueOK(holdQ', 0, LaneOut)
    BY <2>2, <2>4, EnqueueType
  <2>20. Typed'
    <3>1. /\ buf' \in [InVC -> Seq(Flit)] /\ state' \in [InVC -> {"idle", "routing", "vc_alloc", "active"}]
          /\ routes' \in [InVC -> SUBSET Output] /\ out' \in [InVC -> OutVC \cup {None}]
          /\ occ' \in [OutVC -> Nat] /\ inUse' \in [OutVC -> BOOLEAN]
          /\ QueueOK(routeQ', config.routing, {}) /\ QueueOK(vcQ', config.vca, OutVC)
          /\ crossbar' \in Seq(Crossing)
      BY <2>1, <2>4, <2>10, ForwardType
    <3>2. /\ holdVc' \in [LaneIn -> VC \cup {NotYet}] /\ holdIn' \in [LaneIn -> LaneOut \cup {None}]
          /\ holdOut' \in [LaneOut -> LaneIn \cup {None}]
      BY <2>4, <2>5, <2>6, <2>16
    <3>3. QED
      BY <1>1, <1>2, <2>4, <2>18, <2>19, <3>1, <3>2 DEF Typed, TypeOK, Phases, QueueOK
  <2>21. Timed'
    <3>1. \A y \in DOMAIN swQ' : swQ'[y].due <= config.swa - 1
      <4>1. \A y \in DOMAIN swQ : swQ[y].due <= config.swa - 1
        BY <1>1 DEF IInv, Timed, Chosen
      <4>2. Fresh.due <= config.swa - 1
        BY <2>4 DEF Fresh, NotYet
      <4>3. \A y \in DOMAIN swQ' : y = x \/ y \in DOMAIN swQ
        BY <2>17
      <4>4. QED
        BY <2>17, <4>1, <4>2, <4>3
    <3>2. QED
      BY <1>1, <2>13, <3>1 DEF Timed, Asked, Chosen
  <2>22. SWGrants'
    <3>1. \A y \in DOMAIN swQ' : swQ'[y].grant # None => y \in DOMAIN swQ /\ swQ'[y] = swQ[y]
      BY <2>17 DEF Fresh
    <3>2. QED
      BY <1>1, <3>1 DEF IInv, SWGrants, ExpandedInput, ExpandedOutput
  <2>23. Paid'
    <3>1. \A y \in InVC : state'[y] = "active" /\ y # x => state[y] = "active"
      BY <2>14
    <3>2. \A y \in Due(swQ') : y \in InVC /\ y # x /\ y \in Due(swQ) /\ swQ'[y].grant = swQ[y].grant
      BY <2>17, <2>18 DEF Due, QueueOK, Fresh, NotYet
    <3>3. \A y \in Due(holdQ') : y \in InVC /\ y # x /\ y \in Due(holdQ) /\ holdQ'[y].grant = holdQ[y].grant /\ state[y] = "active"
      BY <2>7, <2>16, <2>19 DEF Due, QueueOK, Fresh, NotYet, IInv, InItsQueues
    <3>4. QED
      BY <1>1, <2>13, <3>1, <3>2, <3>3 DEF IInv, Paid, Chosen
  <2>24. Held' /\ HoldsAgree'
    <3>1. CASE ~(config.hold /\ GoesOn(x))
      <4>1. holdQ' = holdQ /\ UNCHANGED <<holdVc, holdIn, holdOut>>
        BY <2>16, <3>1
      <4>2. ASSUME NEW e \in LaneIn, holdVc[e] # NotYet
            PROVE  LET y == <<e[1], holdVc[e]>>
                   IN  /\ state'[y] = "active" /\ buf'[y] # <<>> /\ y \in DOMAIN holdQ
                       /\ holdIn[e] = ExpandedOutput(y, out'[y][1])
        <5> DEFINE y == <<e[1], holdVc[e]>>
        <5>1. y \in InVC /\ state[y] = "active" /\ ~Empty(y) /\ y \in DOMAIN holdQ /\ holdIn[e] = ExpandedOutput(y, out[y][1])
          BY <2>4, <4>2 DEF IInv, HoldsAgree, QueueOK
        <5> HIDE DEF y
        <5>2. y # x
          BY <2>7, <5>1
        <5>3. QED
          BY <2>14, <5>1, <5>2 DEF Empty, y
      <4>3. \A e \in LaneIn : holdVc[e] # NotYet =>
              LET y == <<e[1], holdVc[e]>>
              IN  /\ state'[y] = "active" /\ buf'[y] # <<>> /\ y \in DOMAIN holdQ
                  /\ holdIn[e] = ExpandedOutput(y, out'[y][1])
        BY <4>2
      <4>4. HoldsAgree'
        BY <1>1, <1>2, <4>1, <4>3 DEF IInv, HoldsAgree, ExpandedOutput, Empty
      <4>5. Held'
        BY <1>1, <1>2, <4>1 DEF IInv, Held, ExpandedInput
      <4>6. QED
        BY <4>4, <4>5
    <3>2. CASE config.hold /\ GoesOn(x)
      <4>1. /\ holdVc'[i] = x[2] /\ \A e \in LaneIn : e # i => holdVc'[e] = holdVc[e]
            /\ holdIn'[i] = g /\ \A e \in LaneIn : e # i => holdIn'[e] = holdIn[e]
            /\ holdOut'[g] = i /\ \A f \in LaneOut : f # g => holdOut'[f] = holdOut[f]
            /\ DOMAIN holdQ' = DOMAIN holdQ \cup {x}
        BY <2>4, <2>5, <2>6, <2>16, <3>2
      <4>2. \A y \in InVC : y \in DOMAIN holdQ' <=> holdVc'[ExpandedInput(y)] = y[2]
        <5> SUFFICES ASSUME NEW y \in InVC
                     PROVE  y \in DOMAIN holdQ' <=> holdVc'[ExpandedInput(y)] = y[2]
          OBVIOUS
        <5>1. CASE ExpandedInput(y) # i
          BY <2>5, <4>1, <5>1 DEF IInv, Held, i
        <5>2. CASE ExpandedInput(y) = i
          <6>1. y \notin DOMAIN holdQ
            BY <2>5, <2>7, <5>2 DEF IInv, Held
          <6>2. y[2] = x[2] <=> y = x
            BY <2>5, <5>2
          <6>3. QED
            BY <4>1, <5>2, <6>1, <6>2
        <5>3. QED
          BY <5>1, <5>2
      <4>3. \A e \in LaneIn : holdVc'[e] # NotYet => ExpandedInput(<<e[1], holdVc'[e]>>) = e
        BY <2>5, <4>1 DEF IInv, Held, i
      <4>4. Held'
        BY <1>1, <1>2, <3>2, <4>2, <4>3 DEF Held, ExpandedInput
      <4>5. /\ None \notin LaneIn /\ None \notin LaneOut
        BY DEF None, LaneIn, LaneOut, Input, Output
      <4>6. \A e \in LaneIn : (holdVc'[e] = NotYet) <=> (holdIn'[e] = None)
        BY <2>5, <2>6, <4>1, <4>5 DEF IInv, HoldsAgree
      <4>7. \A e \in LaneIn, f \in LaneOut : holdIn'[e] = f <=> holdOut'[f] = e
        BY <2>3, <2>5, <2>6, <4>1, <4>5 DEF IInv, HoldsAgree
      <4>8. state'[x] = "active" /\ out'[x] = w /\ buf'[x] # <<>>
        BY <2>4, <2>8, <2>12, <3>2, BufferFacts DEF Sent, GoesOn, NextPacket
      <4>9. ASSUME NEW e \in LaneIn, holdVc'[e] # NotYet
            PROVE  LET y == <<e[1], holdVc'[e]>>
                   IN  /\ state'[y] = "active" /\ buf'[y] # <<>> /\ y \in DOMAIN holdQ'
                       /\ holdIn'[e] = ExpandedOutput(y, out'[y][1])
        <5>1. CASE e = i
          <6>1. <<e[1], holdVc'[e]>> = x
            BY <2>5, <4>1, <5>1
          <6>2. holdIn'[e] = ExpandedOutput(x, out'[x][1])
            BY <2>6, <2>10, <4>1, <4>8, <5>1
          <6>3. QED
            BY <4>1, <4>8, <6>1, <6>2
        <5>2. CASE e # i
          <6> DEFINE y == <<e[1], holdVc[e]>>
          <6>1. holdVc'[e] = holdVc[e] /\ holdIn'[e] = holdIn[e]
            BY <4>1, <5>2
          <6>2. /\ y \in InVC /\ state[y] = "active" /\ ~Empty(y) /\ y \in DOMAIN holdQ
                /\ holdIn[e] = ExpandedOutput(y, out[y][1])
            BY <2>4, <4>9, <6>1 DEF IInv, HoldsAgree, QueueOK
          <6> HIDE DEF y
          <6>3. state'[y] = "active" /\ out'[y] = out[y] /\ buf'[y] # <<>> /\ y \in DOMAIN holdQ'
            BY <2>7, <2>14, <4>1, <6>2 DEF Empty
          <6>4. QED
            BY <6>1, <6>2, <6>3 DEF y
        <5>3. QED
          BY <5>1, <5>2
      <4>10. \A e \in LaneIn : holdVc'[e] # NotYet =>
               LET y == <<e[1], holdVc'[e]>>
               IN  /\ state'[y] = "active" /\ buf'[y] # <<>> /\ y \in DOMAIN holdQ'
                   /\ holdIn'[e] = ExpandedOutput(y, out'[y][1])
        BY <4>9
      <4>11. HoldsAgree'
        BY <1>1, <1>2, <4>6, <4>7, <4>10 DEF HoldsAgree, ExpandedOutput, Empty
      <4>12. QED
        BY <4>4, <4>11
    <3>3. QED
      BY <3>1, <3>2
  <2>25. Awake'
    BY <1>1, <2>12 DEF IInv, Awake, Sent
  <2>26. InItsQueues'
    <3>1. ASSUME NEW y \in InVC, y # x
          PROVE  /\ y \in DOMAIN swQ' <=> y \in DOMAIN swQ
                 /\ y \in DOMAIN holdQ' <=> y \in DOMAIN holdQ
                 /\ y \in DOMAIN vcQ' <=> y \in DOMAIN vcQ
                 /\ y \in DOMAIN routeQ' <=> y \in DOMAIN routeQ
                 /\ state'[y] = state[y] /\ buf'[y] = buf[y]
      BY <2>12, <2>14, <2>16, <2>17, <3>1 DEF Sent
    <3>2. buf'[x] = <<>> <=> ~(Len(buf[x]) > 1)
      BY <2>4, <2>8, <2>12, BufferFacts DEF Sent
    <3>3. \/ state'[x] = "idle" /\ buf'[x] = <<>> /\ x \notin DOMAIN swQ' /\ x \notin DOMAIN holdQ' /\ x \notin DOMAIN vcQ' /\ x \notin DOMAIN routeQ'
          \/ /\ state'[x] = Restarts(x) /\ buf'[x] # <<>> /\ x \notin DOMAIN holdQ'
             /\ x \in DOMAIN routeQ' <=> config.routing > 0
             /\ x \in DOMAIN vcQ' <=> ~(config.routing > 0) /\ ~Piggyback
             /\ x \in DOMAIN swQ' <=> ~(config.routing > 0) /\ Speculative
          \/ /\ state'[x] = "active" /\ x \notin DOMAIN vcQ' /\ x \notin DOMAIN routeQ'
             /\ buf'[x] # <<>> <=> (x \in DOMAIN swQ') # (x \in DOMAIN holdQ')
      <4>1. CASE NextPacket(x)
        <5>1. config.routing = 0 <=> ~(config.routing > 0)
          BY <2>4
        <5>2. QED
          BY <2>6, <2>7, <2>8, <2>11, <2>12, <2>16, <2>17, <3>2, <4>1, <5>1 DEF Sent, NextPacket, GoesOn
      <4>2. CASE ~NextPacket(x)
        BY <2>4, <2>6, <2>7, <2>8, <2>11, <2>12, <2>16, <2>17, <3>2, <4>2, SMTT(30) DEF Sent, NextPacket, GoesOn
      <4>3. QED
        BY <4>1, <4>2
    <3>4. ASSUME NEW y \in InVC
          PROVE  /\ state'[y] = "idle" => buf'[y] = <<>>
                 /\ state'[y] \in {"routing", "vc_alloc"} => buf'[y] # <<>>
                 /\ y \in DOMAIN routeQ' <=> state'[y] = "routing"
                 /\ y \in DOMAIN vcQ' <=> state'[y] = "vc_alloc" /\ ~Piggyback
                 /\ state'[y] = "vc_alloc" => (y \in DOMAIN swQ' <=> Speculative)
                 /\ state'[y] = "active" => (buf'[y] # <<>> <=> (y \in DOMAIN swQ') # (y \in DOMAIN holdQ'))
                 /\ state'[y] \in {"idle", "routing"} => y \notin DOMAIN swQ'
                 /\ state'[y] # "active" => y \notin DOMAIN holdQ'
      <4>1. CASE y # x
        BY <3>1, <4>1 DEF IInv, InItsQueues, Empty
      <4>2. CASE y = x
        BY <3>3, <4>2 DEF Restarts
      <4>3. QED
        BY <4>1, <4>2
    <3>5. QED
      BY <1>2, <3>4 DEF InItsQueues, Empty
  <2>27. QED
    BY <2>13, <2>20, <2>21, <2>22, <2>23, <2>24, <2>25, <2>26 DEF IInv
<1>5. QED
  BY <1>3, <1>4

-----------------------------------------------------------------------------
(* Giving the VCs without a grant another try keeps the invariant.         *)
LEMMA SWAllocDoneInv ==
  ASSUME IInv, SWAllocDone
  PROVE  IInv'
<1>1. /\ phase = "sw_update" /\ phase' = "switch_update" /\ config' = config
      /\ swQ' = Enqueue(Dequeue(swQ, Due(swQ)), Due(swQ))
  BY DEF SWAllocDone
<1>2. /\ UNCHANGED <<got, buf, state, routes, out, routeQ, vcQ, holdQ, vcMatch>>
      /\ UNCHANGED <<holdVc, holdIn, holdOut, offset, occ, inUse, crossbar, outBuf, active, activity>>
  BY DEF SWAllocDone, vcVars, holdVars, nextVars
<1>3. /\ InVC' = InVC /\ OutVC' = OutVC /\ LaneIn' = LaneIn /\ LaneOut' = LaneOut
      /\ Output' = Output /\ VC' = VC /\ Input' = Input
      /\ Piggyback' = Piggyback /\ Speculative' = Speculative /\ Crossing' = Crossing
  BY <1>1, SameSets
<1>4. TypeOK /\ QueueOK(swQ, config.swa, LaneOut) /\ config.swa \in Nat \ {0} /\ Due(swQ) \subseteq DOMAIN swQ
  BY ConfigFacts DEF IInv, Typed, TypeOK, Due
<1>5. /\ DOMAIN swQ' = DOMAIN swQ
      /\ \A x \in DOMAIN swQ : swQ'[x] = IF x \in Due(swQ) THEN Fresh ELSE swQ[x]
  BY <1>1, <1>4 DEF Enqueue, Dequeue, Overlay
<1>6. Typed'
  <2>1. QueueOK(swQ', config.swa, LaneOut)
    BY <1>1, <1>4 DEF QueueOK, Entries, Fresh, NotYet, Enqueue, Dequeue, Overlay
  <2>2. QED
    BY <1>1, <1>2, <1>3, <1>4, <2>1 DEF Typed, TypeOK, Phases, QueueOK
<1>7. OutputsSet' /\ Owned' /\ NoOverflow'
  BY <1>2, <1>3 DEF IInv, OutputsSet, Owned, NoOverflow
<1>8. Timed' /\ VCGrants'
  <2>1. \A x \in DOMAIN swQ' : swQ'[x].due # 0 /\ swQ'[x].due <= config.swa - 1
    BY <1>1, <1>4, <1>5 DEF IInv, Timed, Chosen, Fresh, NotYet, Due
  <2>2. QED
    BY <1>1, <1>2, <2>1 DEF IInv, Timed, VCGrants, Asked, Chosen, Due
<1>9. SWGrants' /\ Paid'
  BY <1>1, <1>5 DEF IInv, SWGrants, Paid, Chosen, Fresh, ExpandedInput, ExpandedOutput
<1>10. Held' /\ HoldsAgree'
  BY <1>1, <1>2, <1>3 DEF IInv, Held, HoldsAgree, Empty, ExpandedInput, ExpandedOutput
<1>11. Awake'
  BY <1>1, <1>2 DEF IInv, Awake, HasFresh
<1>12. InItsQueues'
  BY <1>2, <1>3, <1>5 DEF IInv, InItsQueues, Empty
<1>13. QED
  BY <1>6, <1>7, <1>8, <1>9, <1>10, <1>11, <1>12 DEF IInv

(* A flit that has crossed the switch keeps the invariant.                 *)
LEMMA SwitchUpdateInv ==
  ASSUME IInv, SwitchUpdate
  PROVE  IInv'
<1>1. /\ phase = "switch_update" /\ phase' = phase /\ config' = config
      /\ crossbar # <<>> /\ Head(crossbar).due = 0 /\ crossbar' = Tail(crossbar)
      /\ outBuf' = [outBuf EXCEPT ![Head(crossbar).to[1]] = Append(@, Head(crossbar).to)]
  BY DEF SwitchUpdate, Crossed
<1>2. /\ UNCHANGED <<got, buf, state, routes, out, routeQ, vcQ, holdQ, swQ, vcMatch>>
      /\ UNCHANGED <<holdVc, holdIn, holdOut, offset, occ, inUse, active, activity>>
  BY DEF SwitchUpdate, vcVars, queues, holdVars, nextVars
<1>3. /\ InVC' = InVC /\ OutVC' = OutVC /\ LaneIn' = LaneIn /\ LaneOut' = LaneOut
      /\ Output' = Output /\ VC' = VC /\ Input' = Input
      /\ Piggyback' = Piggyback /\ Speculative' = Speculative /\ Crossing' = Crossing
  BY <1>1, SameSets
<1>4. crossbar \in Seq(Crossing) /\ outBuf \in [Output -> Seq(OutVC)]
  BY DEF IInv, Typed, TypeOK
<1>5. Typed'
  <2>1. Head(crossbar).to \in OutVC
    <3>1. Head(crossbar) \in Crossing
      BY <1>1, <1>4
    <3>2. QED
      BY <3>1 DEF Crossing
  <2>2. crossbar' \in Seq(Crossing) /\ outBuf' \in [Output -> Seq(OutVC)]
    BY <1>1, <1>4, <2>1 DEF OutVC
  <2>3. QED
    BY <1>1, <1>2, <1>3, <2>2 DEF IInv, Typed, TypeOK, QueueOK
<1>6. OutputsSet' /\ Owned' /\ NoOverflow'
  BY <1>2, <1>3 DEF IInv, OutputsSet, Owned, NoOverflow
<1>7. Timed' /\ VCGrants'
  BY <1>1, <1>2 DEF IInv, Timed, VCGrants, Asked, Chosen, Due
<1>8. SWGrants' /\ Paid'
  BY <1>1, <1>2, <1>3 DEF IInv, SWGrants, Paid, Chosen, Due, ExpandedInput, ExpandedOutput
<1>9. Held' /\ HoldsAgree'
  BY <1>1, <1>2, <1>3 DEF IInv, Held, HoldsAgree, Empty, ExpandedInput, ExpandedOutput
<1>10. Awake'
  <2>1. HasFresh => HasFresh'
    <3> SUFFICES ASSUME NEW n \in DOMAIN crossbar, crossbar[n].due = NotYet
                 PROVE  HasFresh'
      BY DEF HasFresh
    <3>1. n # 1 /\ n - 1 \in DOMAIN crossbar' /\ crossbar'[n - 1] = crossbar[n]
      BY <1>1, <1>4 DEF NotYet
    <3>2. QED
      BY <3>1 DEF HasFresh
  <2>2. QED
    BY <1>1, <1>2, <2>1 DEF IInv, Awake
<1>11. InItsQueues'
  BY <1>2, <1>3 DEF IInv, InItsQueues, Empty
<1>12. QED
  BY <1>5, <1>6, <1>7, <1>8, <1>9, <1>10, <1>11 DEF IInv

(* Setting _active keeps the invariant.                                    *)
LEMMA SwitchDoneInv ==
  ASSUME IInv, SwitchDone
  PROVE  IInv'
<1>1. /\ phase = "switch_update" /\ phase' = "write" /\ config' = config
      /\ active' = (activity \/ swQ # <<>> \/ crossbar # <<>>)
  BY DEF SwitchDone, BusyWith
<1>2. /\ UNCHANGED <<got, buf, state, routes, out, routeQ, vcQ, holdQ, swQ, vcMatch>>
      /\ UNCHANGED <<holdVc, holdIn, holdOut, offset, occ, inUse, crossbar, outBuf, activity>>
  BY DEF SwitchDone, vcVars, queues, holdVars, nextVars
<1>3. /\ InVC' = InVC /\ OutVC' = OutVC /\ LaneIn' = LaneIn /\ LaneOut' = LaneOut
      /\ Output' = Output /\ VC' = VC /\ Input' = Input
      /\ Piggyback' = Piggyback /\ Speculative' = Speculative /\ Crossing' = Crossing
  BY <1>1, SameSets
<1>4. Typed'
  <2>1. active' \in BOOLEAN
    BY <1>1
  <2>2. QED
    BY <1>1, <1>2, <1>3, <2>1 DEF IInv, Typed, TypeOK, Phases, QueueOK
<1>5. OutputsSet' /\ Owned' /\ NoOverflow'
  BY <1>2, <1>3 DEF IInv, OutputsSet, Owned, NoOverflow
<1>6. Timed' /\ VCGrants'
  BY <1>1, <1>2 DEF IInv, Timed, VCGrants, Asked, Chosen, Due
<1>7. SWGrants' /\ Paid'
  BY <1>1, <1>2, <1>3 DEF IInv, SWGrants, Paid, Chosen, Due, ExpandedInput, ExpandedOutput
<1>8. Held' /\ HoldsAgree'
  BY <1>1, <1>2, <1>3 DEF IInv, Held, HoldsAgree, Empty, ExpandedInput, ExpandedOutput
<1>9. Awake'
  <2>1. crossbar = <<>> => ~HasFresh
    BY DEF HasFresh
  <2>2. QED
    BY <1>1, <1>2, <2>1 DEF IInv, Awake
<1>10. InItsQueues'
  BY <1>2, <1>3 DEF IInv, InItsQueues, Empty
<1>11. QED
  BY <1>4, <1>5, <1>6, <1>7, <1>8, <1>9, <1>10 DEF IInv

(* One cycle later every time that runs is one less, and nothing else of a *)
(* queue has changed.                                                      *)
LEMMA OlderFacts ==
  ASSUME NEW q, NEW due \in Nat, NEW grants, QueueOK(q, due, grants)
  PROVE  /\ QueueOK(Older(q), due, grants) /\ DOMAIN Older(q) = DOMAIN q
         /\ \A x \in DOMAIN q : /\ q[x].due \in Int /\ Older(q)[x].grant = q[x].grant
                                /\ Older(q)[x].due = IF q[x].due > 0 THEN q[x].due - 1 ELSE q[x].due
BY DEF QueueOK, Older, Entries, NotYet

(* The end of the cycle keeps the invariant.                               *)
LEMMA WriteOutputsInv ==
  ASSUME IInv, WriteOutputs
  PROVE  IInv'
<1>1. /\ phase = "write" /\ phase' = "read" /\ config' = config /\ activity' = FALSE
      /\ outBuf' = [o \in Output |-> IF outBuf[o] = <<>> THEN <<>> ELSE Tail(outBuf[o])]
      /\ routeQ' = Older(routeQ) /\ vcQ' = Older(vcQ) /\ swQ' = Older(swQ) /\ vcMatch' = <<>>
      /\ crossbar' = [n \in DOMAIN crossbar |->
           IF crossbar[n].due > 0 THEN [crossbar[n] EXCEPT !.due = @ - 1] ELSE crossbar[n]]
  BY DEF WriteOutputs
<1>2. /\ UNCHANGED <<got, buf, state, routes, out, holdQ>>
      /\ UNCHANGED <<holdVc, holdIn, holdOut, offset, occ, inUse, active>>
  BY DEF WriteOutputs, vcVars, holdVars, nextVars
<1>3. /\ InVC' = InVC /\ OutVC' = OutVC /\ LaneIn' = LaneIn /\ LaneOut' = LaneOut
      /\ Output' = Output /\ VC' = VC /\ Input' = Input
      /\ Piggyback' = Piggyback /\ Speculative' = Speculative /\ Crossing' = Crossing
  BY <1>1, SameSets
<1>4. /\ TypeOK
      /\ QueueOK(routeQ, config.routing, {}) /\ QueueOK(vcQ, config.vca, OutVC) /\ QueueOK(swQ, config.swa, LaneOut)
      /\ config.routing \in Nat /\ config.vca \in Nat \ {0} /\ config.swa \in Nat \ {0}
      /\ crossbar \in Seq(Crossing) /\ outBuf \in [Output -> Seq(OutVC)]
  BY ConfigFacts DEF IInv, Typed, TypeOK
<1>5. /\ QueueOK(routeQ', config.routing, {}) /\ QueueOK(vcQ', config.vca, OutVC) /\ QueueOK(swQ', config.swa, LaneOut)
      /\ DOMAIN routeQ' = DOMAIN routeQ /\ DOMAIN vcQ' = DOMAIN vcQ /\ DOMAIN swQ' = DOMAIN swQ
  BY <1>1, <1>4, OlderFacts
<1>6. /\ \A x \in DOMAIN vcQ : /\ vcQ[x].due \in Int /\ vcQ'[x].grant = vcQ[x].grant
                               /\ vcQ'[x].due = IF vcQ[x].due > 0 THEN vcQ[x].due - 1 ELSE vcQ[x].due
      /\ \A x \in DOMAIN swQ : /\ swQ[x].due \in Int /\ swQ'[x].grant = swQ[x].grant
                               /\ swQ'[x].due = IF swQ[x].due > 0 THEN swQ[x].due - 1 ELSE swQ[x].due
  BY <1>1, <1>4, OlderFacts
<1>7. /\ \A x \in DOMAIN vcQ : vcQ[x].due # 0 /\ vcQ[x].due <= config.vca - 1
      /\ \A x \in DOMAIN swQ : swQ[x].due # 0 /\ swQ[x].due <= config.swa - 1
  BY <1>1 DEF IInv, Timed, Asked
<1>8. Typed'
  <2>1. crossbar' \in Seq(Crossing)
    <3>1. \A n \in DOMAIN crossbar : crossbar[n] \in Crossing
      BY <1>4
    <3>2. \A n \in DOMAIN crossbar : crossbar'[n] \in Crossing
      <4> SUFFICES ASSUME NEW n \in DOMAIN crossbar PROVE crossbar'[n] \in Crossing
        OBVIOUS
      <4>1. crossbar'[n] = IF crossbar[n].due > 0 THEN [crossbar[n] EXCEPT !.due = @ - 1] ELSE crossbar[n]
        BY <1>1
      <4>2. config.crossbar \in Nat \ {0}
        BY <1>4, ConfigFacts
      <4>3. QED
        BY <3>1, <4>1, <4>2 DEF Crossing, NotYet
    <3>3. Len(crossbar) \in Nat /\ DOMAIN crossbar' = 1 .. Len(crossbar)
      BY <1>1, <1>4
    <3>4. crossbar' = [n \in 1 .. Len(crossbar) |-> crossbar'[n]]
      BY <1>1, <1>4
    <3>5. QED
      BY <3>2, <3>3, <3>4, <1>4
  <2>2. outBuf' \in [Output -> Seq(OutVC)]
    BY <1>1, <1>4
  <2>3. DOMAIN vcMatch' \subseteq InVC /\ vcMatch' \in [DOMAIN vcMatch' -> OutVC]
    BY <1>1
  <2>4. QED
    BY <1>1, <1>2, <1>3, <1>4, <1>5, <2>1, <2>2, <2>3 DEF Typed, TypeOK, Phases, QueueOK
<1>9. OutputsSet' /\ Owned' /\ NoOverflow'
  BY <1>2, <1>3 DEF IInv, OutputsSet, Owned, NoOverflow
<1>10. Timed'
  <2>1. \A x \in DOMAIN vcQ' : vcQ'[x].due <= config.vca - 2
    BY <1>4, <1>5, <1>6, <1>7
  <2>2. \A x \in DOMAIN swQ' : swQ'[x].due <= config.swa - 2
    BY <1>4, <1>5, <1>6, <1>7, SMTT(30)
  <2>3. QED
    BY <1>1, <2>1, <2>2 DEF Timed, Asked, Chosen
<1>11. VCGrants'
  <2>1. \A x, y \in DOMAIN vcQ : vcQ'[x].due = vcQ'[y].due => vcQ[x].due = vcQ[y].due
    BY <1>6, <1>7
  <2>2. QED
    BY <1>1, <1>5, <1>6, <2>1 DEF IInv, VCGrants, Asked
<1>12. SWGrants' /\ Paid'
  <2>1. \A x, y \in DOMAIN swQ : swQ'[x].due = swQ'[y].due => swQ[x].due = swQ[y].due
    BY <1>6, <1>7
  <2>2. SWGrants'
    BY <1>1, <1>5, <1>6, <2>1, SMTT(30) DEF IInv, SWGrants, Chosen, ExpandedInput, ExpandedOutput
  <2>3. Paid'
    BY <1>1, <1>5, <1>6 DEF IInv, Paid, Chosen
  <2>4. QED
    BY <2>2, <2>3
<1>13. Held' /\ HoldsAgree'
  BY <1>1, <1>2, <1>3 DEF IInv, Held, HoldsAgree, Empty, ExpandedInput, ExpandedOutput
<1>14. Awake'
  <2>1. /\ routeQ = <<>> => routeQ' = <<>>
        /\ vcQ = <<>> => vcQ' = <<>>
        /\ swQ = <<>> => swQ' = <<>>
    BY <1>4, <1>5, EmptyQueue
  <2>2. crossbar = <<>> => crossbar' = <<>>
    BY <1>1
  <2>3. QED
    BY <1>1, <1>2, <2>1, <2>2 DEF IInv, Awake
<1>15. InItsQueues'
  BY <1>2, <1>3, <1>5 DEF IInv, InItsQueues, Empty
<1>16. QED
  BY <1>8, <1>9, <1>10, <1>11, <1>12, <1>13, <1>14, <1>15 DEF IInv

-----------------------------------------------------------------------------
(* Every step keeps the invariant.                                         *)
LEMMA NextInv ==
  ASSUME IInv, [Next]_vars
  PROVE  IInv'
<1>1. ASSUME NEW x \in InVC, SWHoldUpdate(x) PROVE IInv'
  BY <1>1, SWHoldUpdateInv
<1>2. ASSUME NEW x \in InVC, SWAllocUpdate(x) PROVE IInv'
  BY <1>2, SWAllocUpdateInv
<1>3. CASE UNCHANGED vars
  BY <1>3, StutterInv DEF vars, vcVars, queues, nextVars, holdVars
<1>4. QED
  BY <1>1, <1>2, <1>3, ReadInputsInv, VCAllocEvaluateInv, SWAllocEvaluateInv, RouteUpdateInv,
     VCAllocUpdateInv, SWHoldDoneInv, SWAllocDoneInv, SwitchUpdateInv, SwitchDoneInv, WriteOutputsInv
  DEF Next

(* The inductive invariant holds in every state the router can reach, for  *)
(* every configuration, every number of ports and VCs, all delays and all  *)
(* speculation modes.                                                      *)
THEOREM RouterInvariant == Spec => []IInv
BY InitInv, NextInv, PTL DEF Spec

(* The pipeline keeps its types (TypeOK): no queue names a VC that does    *)
(* not exist, no table points outside its range.                           *)
THEOREM TypeCorrect == Spec => []TypeOK
<1>1. IInv => TypeOK
  BY DEF IInv, Typed
<1>2. QED
  BY <1>1, RouterInvariant, PTL

(* VCOwned for every configuration: an output VC belongs to exactly one    *)
(* packet from _VCAllocUpdate (or the piggybacked choice) to its tail, and *)
(* to none otherwise.                                                      *)
THEOREM OneOwner == Spec => []VCOwned
<1>1. IInv => VCOwned
  <2> SUFFICES ASSUME IInv, NEW w \in OutVC
               PROVE  Cardinality(Owners(w)) = IF inUse[w] THEN 1 ELSE 0
    BY DEF VCOwned
  <2>1. CASE inUse[w]
    <3>1. PICK x \in InVC : state[x] = "active" /\ out[x] = w
      BY <2>1 DEF IInv, Owned
    <3>2. Owners(w) = {x}
      BY <3>1 DEF Owners, IInv, Owned
    <3>3. QED
      BY <2>1, <3>2, FS_Singleton
  <2>2. CASE ~inUse[w]
    <3>1. Owners(w) = {}
      BY <2>2 DEF Owners, IInv, Owned
    <3>2. QED
      BY <2>2, <3>1, FS_EmptySet
  <2>3. QED
    BY <2>1, <2>2
<1>2. QED
  BY <1>1, RouterInvariant, PTL

(* NoOverflow for every configuration: no flit leaves without a slot       *)
(* downstream, however old its grant and whatever connection is held.      *)
THEOREM SlotForEveryFlit == Spec => []NoOverflow
<1>1. IInv => NoOverflow
  BY DEF IInv
<1>2. QED
  BY <1>1, RouterInvariant, PTL

(* InItsQueues for every configuration: between any two updates a VC is in *)
(* the queues of its state and in no other, so that no packet is           *)
(* forgotten.                                                              *)
THEOREM RightQueues == Spec => []InItsQueues
<1>1. IInv => InItsQueues
  BY DEF IInv
<1>2. QED
  BY <1>1, RouterInvariant, PTL

(* HoldsAgree for every configuration: the three tables of held            *)
(* connections agree and only an active VC with flits holds a lane.        *)
THEOREM HeldLanes == Spec => []HoldsAgree
<1>1. IInv => HoldsAgree
  BY DEF IInv
<1>2. QED
  BY <1>1, RouterInvariant, PTL

(* SleepsOnlyWhenIdle for every configuration: a router whose _active is   *)
(* false has nothing in any queue or in the switch.                        *)
THEOREM SleepsIdle == Spec => []SleepsOnlyWhenIdle
<1>1. IInv => SleepsOnlyWhenIdle
  BY DEF IInv, Awake, SleepsOnlyWhenIdle
<1>2. QED
  BY <1>1, RouterInvariant, PTL

(***************************************************************************)
(* No assertion of the router's pipeline fails (iq_router.cpp), in every   *)
(* configuration in which none can. The invariant of RouterProofs says     *)
(* what the queues, the grants and the tables agree on between the stages  *)
(* of a cycle; what is added here says that a grant is still good when it  *)
(* is used, up to vca or swa cycles after it was made.                     *)
(***************************************************************************)
(* Where no assertion can fail: unlimited output buffers; allocators of    *)
(* the same depth when a VC asks both at once, since a VC that is given    *)
(* later than the switch would meet an older guess; and one lane per       *)
(* output when VCs are picked only after the switch has been, since two    *)
(* lanes could be granted for the last free VC of an output (MCRace of     *)
(* MCRouter).                                                              *)
SafeConfig(c) ==
  /\ c.outBufSize = -1
  /\ c.mode \in {"spec", "prio"} => c.vca = c.swa
  /\ c.mode = "piggyback" => c.lanesOut = 1

(* A grant of the switch is for the output the VC has, or for one it may   *)
(* take. One that has not been evaluated holds none.                       *)
Aimed == \A x \in DOMAIN swQ :
  /\ swQ[x].due = NotYet => swQ[x].grant = None
  /\ swQ[x].grant # None => IF state[x] = "active" THEN swQ[x].grant[1] = out[x][1]
                                                  ELSE swQ[x].grant[1] \in routes[x]

(* A speculating VC waits in both queues, and its two times are the same:  *)
(* in every phase but those between the evaluation, or the update, of the  *)
(* first allocator and that of the second.                                 *)
InStep == Speculative => \A x \in DOMAIN vcQ :
  /\ x \in DOMAIN swQ
  /\ vcQ[x].due = IF phase = "sw_alloc" /\ swQ[x].due = NotYet THEN config.vca - 1
                  ELSE IF phase \in {"sw_hold_update", "sw_update"} /\ swQ[x].due = 0 THEN NotYet
                  ELSE swQ[x].due

(* The lanes of a grant that is used in this cycle are not held. A         *)
(* connection is set up only by such a grant, and no two of a cycle share  *)
(* a lane (SWGrants).                                                      *)
LanesFree == phase \in Chosen =>
  \A x \in Due(swQ) : swQ[x].grant # None =>
    holdIn[ExpandedInput(x)] = None /\ holdOut[swQ[x].grant] = None

(* A speculative grant that is used in this cycle guessed right: the VC    *)
(* allocator has just given its VC a buffer at the same output, or, with   *)
(* piggybacking, some VC of that output is free and has room.              *)
GuessRight == phase \in Chosen =>
  \A x \in Due(swQ) : swQ[x].grant # None /\ state[x] # "active" =>
    IF Piggyback
    THEN \E w \in OutVC : w[1] = swQ[x].grant[1] /\ IsAvailableFor(w) /\ ~IsFullFor(w)
    ELSE /\ phase \in {"route_update", "vc_update"} /\ x \in DOMAIN vcMatch
         /\ vcMatch[x][1] = swQ[x].grant[1]

(* The inductive invariant, together with IInv.                            *)
AInv == Aimed /\ InStep /\ LanesFree /\ GuessRight /\ NoAssertionFails

-----------------------------------------------------------------------------
(* What a safe configuration and the queues say of the VCs that ask for    *)
(* the switch.                                                             *)
LEMMA SafeFacts ==
  ASSUME IInv, \A c \in Configs : SafeConfig(c)
  PROVE  /\ config.outBufSize = -1
         /\ Piggyback => Speculative /\ config.lanesOut = 1
         /\ Speculative /\ ~Piggyback => config.vca = config.swa
         /\ \A x \in DOMAIN swQ : x \in InVC /\ state[x] \in {"vc_alloc", "active"}
         /\ \A x \in DOMAIN swQ : state[x] = "vc_alloc" => Speculative
         /\ \A x \in DOMAIN vcQ : x \in InVC /\ state[x] = "vc_alloc" /\ ~Piggyback
<1>1. TypeOK /\ config \in Configs /\ config.mode \in Modes
  BY ConfigFacts DEF IInv, Typed, TypeOK
<1>2. /\ DOMAIN swQ \subseteq InVC /\ state \in [InVC -> {"idle", "routing", "vc_alloc", "active"}]
      /\ DOMAIN vcQ \subseteq InVC
  BY <1>1 DEF TypeOK, QueueOK
<1>3. /\ \A x \in DOMAIN swQ : state[x] \in {"vc_alloc", "active"} /\ (state[x] = "vc_alloc" => Speculative)
      /\ \A x \in DOMAIN vcQ : state[x] = "vc_alloc" /\ ~Piggyback
  BY <1>2 DEF IInv, InItsQueues
<1>4. QED
  BY <1>1, <1>2, <1>3 DEF SafeConfig, Speculative, Piggyback, Modes

-----------------------------------------------------------------------------
(* New heads enter both queues at once, and no VC that waits for the       *)
(* switch is disturbed.                                                    *)
LEMMA ReadInputsSafe ==
  ASSUME IInv, AInv, ReadInputs, \A c \in Configs : SafeConfig(c)
  PROVE  AInv'
<1>1. PICK A \in Arrivals, C \in Credits : \E tail \in [A -> BOOLEAN] :
        LET heads   == {x \in A : state[x] = "idle"}
            resumed == {x \in A : state[x] = "active" /\ Empty(x)}
            held    == {x \in resumed : holdVc[ExpandedInput(x)] = x[2]}
            awake   == active \/ A # {} \/ C # {}
        IN  \E r \in Routes(LookedAhead(heads)) :
        /\ phase = "read" /\ failed = ""
        /\ \A x \in A : got[x] = MaxLength - 1 => tail[x]
        /\ buf' = Overlay(buf, [x \in A |-> Append(buf[x], Arriving(x, tail[x]))])
        /\ got' = Overlay(got, [x \in A |-> IF tail[x] THEN 0 ELSE got[x] + 1])
        /\ state' = NewHeads(state, heads)
        /\ routes' = Overlay(routes, r)
        /\ out' = Overlay(out, [x \in LookedAhead(heads) |-> None])
        /\ routeQ' = ToRoute(routeQ, heads)
        /\ vcQ' = ToAllocateVC(vcQ, heads)
        /\ holdQ' = Enqueue(holdQ, held)
        /\ swQ' = Enqueue(ToSpeculate(swQ, heads), resumed \ held)
        /\ occ' = [w \in OutVC |-> IF w \in C THEN occ[w] - 1 ELSE occ[w]]
        /\ active' = awake /\ activity' = FALSE
        /\ phase' = IF awake THEN "vc_alloc" ELSE "write"
        /\ UNCHANGED <<config, vcMatch, holdVars, offset, inUse, crossbar, outBuf, failed>>
  BY DEF ReadInputs
<1> DEFINE heads   == {x \in A : state[x] = "idle"}
           resumed == {x \in A : state[x] = "active" /\ Empty(x)}
           held    == {x \in resumed : holdVc[ExpandedInput(x)] = x[2]}
<1>2. /\ state' = NewHeads(state, heads)
      /\ out' = Overlay(out, [x \in LookedAhead(heads) |-> None])
      /\ swQ' = Enqueue(ToSpeculate(swQ, heads), resumed \ held)
      /\ vcQ' = ToAllocateVC(vcQ, heads)
      /\ phase = "read" /\ phase' \in {"vc_alloc", "write"} /\ failed' = failed /\ config' = config
      /\ \E r \in Routes(LookedAhead(heads)) : routes' = Overlay(routes, r)
  BY <1>1
<1>3. /\ state \in [InVC -> {"idle", "routing", "vc_alloc", "active"}]
      /\ out \in [InVC -> OutVC \cup {None}] /\ DOMAIN swQ \subseteq InVC
      /\ routes \in [InVC -> SUBSET Output] /\ config.routing \in Nat
  BY ConfigFacts DEF IInv, Typed, TypeOK, QueueOK
<1>4. A \subseteq InVC /\ \A x \in heads : x \in InVC /\ state[x] = "idle"
  BY DEF Arrivals, Fitting
<1>5. \A x \in DOMAIN swQ : x \notin heads
  BY <1>4 DEF IInv, InItsQueues
<1>6. \A x \in DOMAIN swQ' : swQ'[x] = Fresh \/ (x \in DOMAIN swQ /\ swQ'[x] = swQ[x])
  BY <1>2 DEF ToSpeculate, Enqueue, Overlay
<1> HIDE DEF heads
<1>7. \A x \in DOMAIN swQ : state'[x] = state[x] /\ out'[x] = out[x] /\ routes'[x] = routes[x]
  <2>1. PICK r \in Routes(LookedAhead(heads)) : routes' = Overlay(routes, r)
    BY <1>2
  <2>2. QED
    BY <1>2, <1>3, <1>4, <1>5, <2>1 DEF NewHeads, LookedAhead, Overlay, Routes
<1>8. Aimed'
  BY <1>6, <1>7 DEF AInv, Aimed, Fresh
<1>9. phase' \notin Chosen
  BY <1>2 DEF Chosen
<1>10. InStep'
  <2> SUFFICES ASSUME Speculative, NEW x \in DOMAIN vcQ'
               PROVE  x \in DOMAIN swQ' /\ vcQ'[x].due = swQ'[x].due
    BY <1>2, SameSets DEF InStep
  <2>1. CASE x \in heads
    <3>1. x \notin DOMAIN vcQ /\ state[x] = "idle"
      BY <1>4, <2>1 DEF IInv, InItsQueues
    <3>2. config.routing = 0 /\ vcQ' = Enqueue(vcQ, heads)
      BY <1>2, <1>3, <3>1 DEF ToAllocateVC
    <3>3. vcQ'[x] = Fresh /\ x \in DOMAIN swQ' /\ swQ'[x] = Fresh
      BY <1>2, <2>1, <3>2 DEF ToSpeculate, Enqueue, Overlay
    <3>4. QED
      BY <3>3
  <2>2. CASE x \notin heads
    <3>1. x \in DOMAIN vcQ /\ vcQ'[x] = vcQ[x]
      BY <1>2, <2>2 DEF ToAllocateVC, Enqueue, Overlay
    <3>2. state[x] = "vc_alloc" /\ x \in DOMAIN swQ /\ vcQ[x].due = swQ[x].due
      BY <1>2, <3>1, SafeFacts DEF AInv, InStep
    <3>3. x \notin resumed \ held
      BY <3>2
    <3>4. x \in DOMAIN swQ' /\ swQ'[x] = swQ[x]
      BY <1>2, <2>2, <3>2, <3>3 DEF ToSpeculate, Enqueue, Overlay
    <3>5. QED
      BY <3>1, <3>2, <3>4
  <2>3. QED
    BY <2>1, <2>2
<1>11. QED
  BY <1>2, <1>8, <1>9, <1>10 DEF AInv, LanesFree, GuessRight, NoAssertionFails

(* What is granted to x in _SWAllocEvaluate is an output it asked for,     *)
(* over lanes that were not held.                                          *)
LEMMA GrantMeans ==
  ASSUME TypeOK, NEW M, NEW MS, NEW x,
         NEW R \in {FirmRequests, FirmRequests \cup SpecRequests}, SwitchGrant(R, M, MS, x) # None
  PROVE  \E o \in Output : /\ SwitchGrant(R, M, MS, x) = ExpandedOutput(x, o) /\ Unheld(x, o)
                           /\ IF state[x] = "active" THEN o = out[x][1] ELSE o \in routes[x]
<1> DEFINE e == SwitchGrant(R, M, MS, x)
<1>1. ASSUME NEW Q \in {R, SpecRequests}, NEW a \in Labelled(Q), a[1] = x, Lanes(a) = <<ExpandedInput(x), e>>
      PROVE  \E o \in Output : /\ e = ExpandedOutput(x, o) /\ Unheld(x, o)
                               /\ IF state[x] = "active" THEN o = out[x][1] ELSE o \in routes[x]
  <2>1. a \in FirmRequests \cup SpecRequests
    BY <1>1 DEF Labelled
  <2>2. /\ a[2] \in Output /\ Unheld(x, a[2])
        /\ IF state[x] = "active" THEN a[2] = out[x][1] ELSE a[2] \in routes[x]
    BY <1>1, <2>1 DEF FirmRequests, SpecRequests
  <2>3. e = ExpandedOutput(x, a[2])
    BY <1>1 DEF Lanes
  <2>4. QED
    BY <2>2, <2>3
<1>2. \/ Won(R, M, x) /\ e = AssignedTo(M, ExpandedInput(x))
      \/ Won(SpecRequests, MS, x) /\ e = AssignedTo(MS, ExpandedInput(x))
  BY GrantFacts DEF Firm, Guessed
<1>3. \E Q \in {R, SpecRequests} : \E a \in Labelled(Q) : a[1] = x /\ Lanes(a) = <<ExpandedInput(x), e>>
  BY <1>2 DEF Won
<1>4. QED
  BY <1>1, <1>3

(* Every grant that is due is checked once more (Usable), or was made in   *)
(* this very cycle; then the two queues are in step again.                 *)
LEMMA SWAllocEvaluateSafe ==
  ASSUME IInv, AInv, SWAllocEvaluate, \A c \in Configs : SafeConfig(c)
  PROVE  AInv'
<1> DEFINE R == IF config.mode = "spec" THEN FirmRequests ELSE FirmRequests \cup SpecRequests
           Asks(M, MS) == Overlay(swQ, [x \in Waiting(swQ) |-> [due   |-> config.swa - 1,
                                                                grant |-> SwitchGrant(R, M, MS, x)]])
           Checks(M, MS) == IF Speculative \/ config.swa > 1
                            THEN {x \in Due(Asks(M, MS)) : Asks(M, MS)[x].grant # None} ELSE {}
<1>1. /\ phase = "sw_alloc" /\ phase' = "route_update" /\ config' = config /\ failed = ""
      /\ UNCHANGED <<state, routes, out, vcQ, vcMatch, holdIn, holdOut, occ, inUse>>
  BY DEF SWAllocEvaluate, vcVars, holdVars, nextVars
<1>2. PICK M \in SwitchMatchings(R) : 
        \E MS \in IF config.mode = "spec" THEN SwitchMatchings(SpecRequests) ELSE {{}} :
          /\ swQ' = [x \in DOMAIN Asks(M, MS) |->
               IF x \in Checks(M, MS) /\ ~Usable(x, Asks(M, MS)[x].grant)
               THEN [Asks(M, MS)[x] EXCEPT !.grant = None] ELSE Asks(M, MS)[x]]
          /\ failed' = IF \E x \in Checks(M, MS) : state[x] = "active" /\ out[x][1] # Asks(M, MS)[x].grant[1]
                       THEN "GetOutputPort(vc) == output" ELSE failed
  BY ZenonT(40) DEF SWAllocEvaluate
<1>3. PICK MS :
          /\ swQ' = [x \in DOMAIN Asks(M, MS) |->
               IF x \in Checks(M, MS) /\ ~Usable(x, Asks(M, MS)[x].grant)
               THEN [Asks(M, MS)[x] EXCEPT !.grant = None] ELSE Asks(M, MS)[x]]
          /\ failed' = IF \E x \in Checks(M, MS) : state[x] = "active" /\ out[x][1] # Asks(M, MS)[x].grant[1]
                       THEN "GetOutputPort(vc) == output" ELSE failed
  BY <1>2
<1>4. InVC' = InVC /\ OutVC' = OutVC /\ Piggyback' = Piggyback
  BY <1>1, SameSets
<1>5. /\ TypeOK /\ QueueOK(swQ, config.swa, LaneOut) /\ config.swa \in Nat \ {0}
      /\ OutSize \in Nat
  BY ConfigFacts DEF IInv, Typed, TypeOK
<1>6. R \in {FirmRequests, FirmRequests \cup SpecRequests}
  OBVIOUS
<1> DEFINE asks == Asks(M, MS)
           g(x) == SwitchGrant(R, M, MS, x)
<1> HIDE DEF R
<1>7. /\ DOMAIN asks = DOMAIN swQ
      /\ \A x \in Waiting(swQ) : /\ asks[x] = [due |-> config.swa - 1, grant |-> g(x)]
                                 /\ asks[x].due = config.swa - 1 /\ asks[x].grant = g(x)
      /\ \A x \in DOMAIN swQ : x \notin Waiting(swQ) => asks[x] = swQ[x]
      /\ \A x \in Waiting(swQ) : x \in DOMAIN swQ
      /\ \A x \in DOMAIN swQ : x \in Waiting(swQ) <=> swQ[x].due = NotYet
  BY DEF Overlay, Waiting
<1>8. \A x : g(x) # None => \E o \in Output : /\ g(x) = ExpandedOutput(x, o) /\ Unheld(x, o)
                                              /\ IF state[x] = "active" THEN o = out[x][1] ELSE o \in routes[x]
  BY <1>5, <1>6, GrantMeans
<1> HIDE DEF g
<1>9. /\ swQ' = [x \in DOMAIN asks |->
               IF x \in Checks(M, MS) /\ ~Usable(x, asks[x].grant)
               THEN [asks[x] EXCEPT !.grant = None] ELSE asks[x]]
      /\ failed' = IF \E x \in Checks(M, MS) : state[x] = "active" /\ out[x][1] # asks[x].grant[1]
                   THEN "GetOutputPort(vc) == output" ELSE failed
      /\ Checks(M, MS) = IF Speculative \/ config.swa > 1 THEN {x \in Due(asks) : asks[x].grant # None} ELSE {}
  BY <1>3
<1> HIDE DEF asks, Checks
<1>10. /\ DOMAIN swQ' = DOMAIN swQ
       /\ \A x \in DOMAIN swQ : swQ'[x].grant # None => /\ swQ'[x].grant = asks[x].grant
                                                        /\ x \in Checks(M, MS) => Usable(x, asks[x].grant)
       /\ \A x \in DOMAIN swQ : swQ'[x].due = asks[x].due
  <2>1. \A x \in DOMAIN swQ : asks[x] = [due |-> asks[x].due, grant |-> asks[x].grant]
    <3> SUFFICES ASSUME NEW x \in DOMAIN swQ
                 PROVE  asks[x] = [due |-> asks[x].due, grant |-> asks[x].grant]
      OBVIOUS
    <3>1. CASE x \in Waiting(swQ)
      BY <1>7, <3>1
    <3>2. CASE x \notin Waiting(swQ)
      <4>1. swQ[x] \in Entries(config.swa, LaneOut)
        BY <1>5 DEF QueueOK
      <4>2. QED
        BY <1>7, <3>2, <4>1 DEF Entries
    <3>3. QED
      BY <3>1, <3>2
  <2>2. \A x \in DOMAIN swQ : /\ [asks[x] EXCEPT !.grant = None].grant = None
                              /\ [asks[x] EXCEPT !.grant = None].due = asks[x].due
    BY <2>1
  <2>3. QED
    BY <1>7, <1>9, <2>2
<1>11. \A x \in DOMAIN swQ : asks[x].grant # None => IF state[x] = "active" THEN asks[x].grant[1] = out[x][1]
                                                      ELSE asks[x].grant[1] \in routes[x]
  <2> SUFFICES ASSUME NEW x \in DOMAIN swQ, asks[x].grant # None
               PROVE  IF state[x] = "active" THEN asks[x].grant[1] = out[x][1]
                                             ELSE asks[x].grant[1] \in routes[x]
    OBVIOUS
  <2>1. CASE x \in Waiting(swQ)
    <3>1. asks[x].grant = g(x)
      BY <1>7, <2>1
    <3>2. PICK o \in Output : /\ g(x) = ExpandedOutput(x, o)
                              /\ IF state[x] = "active" THEN o = out[x][1] ELSE o \in routes[x]
      BY <1>8, <3>1
    <3>3. QED
      BY <3>1, <3>2 DEF ExpandedOutput
  <2>2. CASE x \notin Waiting(swQ)
    BY <1>7, <2>2 DEF AInv, Aimed
  <2>3. QED
    BY <2>1, <2>2
<1>12. Aimed'
  <2>1. \A x \in DOMAIN swQ : asks[x].due # NotYet
    <3> SUFFICES ASSUME NEW x \in DOMAIN swQ PROVE asks[x].due # NotYet
      OBVIOUS
    <3>1. CASE x \in Waiting(swQ)
      <4>1. asks[x].due = config.swa - 1
        BY <1>7, <3>1
      <4>2. QED
        BY <1>5, <4>1 DEF NotYet
    <3>2. QED
      BY <1>7, <3>1
  <2>2. QED
    BY <1>1, <1>10, <1>11, <2>1 DEF Aimed, NotYet
<1>13. \A x \in DOMAIN swQ : asks[x].due = 0 => x \in Waiting(swQ) \/ config.swa > 1
  <2> SUFFICES ASSUME NEW x \in DOMAIN swQ, asks[x].due = 0, x \notin Waiting(swQ)
               PROVE  config.swa > 1
    OBVIOUS
  <2>1. swQ[x].due = 0 /\ swQ[x].due <= config.swa - 2
    BY <1>1, <1>7 DEF IInv, Timed
  <2>2. QED
    BY <1>5, <2>1
<1>14. LanesFree'
  <2> SUFFICES ASSUME NEW x \in DOMAIN swQ, swQ'[x].due = 0, swQ'[x].grant # None
               PROVE  holdIn[ExpandedInput(x)] = None /\ holdOut[swQ'[x].grant] = None
    BY <1>1, <1>10 DEF LanesFree, Due, ExpandedInput
  <2>1. asks[x].due = 0 /\ swQ'[x].grant = asks[x].grant /\ asks[x].grant # None
    BY <1>10
  <2>2. CASE Speculative \/ config.swa > 1
    <3>1. x \in Checks(M, MS)
      BY <1>7, <1>9, <2>1, <2>2 DEF Due
    <3>2. QED
      BY <1>10, <2>1, <3>1 DEF Usable
  <2>3. CASE ~(Speculative \/ config.swa > 1)
    <3>1. asks[x].grant = g(x)
      BY <1>7, <1>13, <2>1, <2>3
    <3>2. QED
      BY <1>8, <2>1, <3>1 DEF Unheld
  <2>4. QED
    BY <2>2, <2>3
<1>15. GuessRight'
  <2> SUFFICES ASSUME NEW x \in DOMAIN swQ, swQ'[x].due = 0, swQ'[x].grant # None, state[x] # "active"
               PROVE  IF Piggyback
                      THEN \E w \in OutVC : w[1] = swQ'[x].grant[1] /\ IsAvailableFor(w) /\ ~IsFullFor(w)
                      ELSE x \in DOMAIN vcMatch /\ vcMatch[x][1] = swQ'[x].grant[1]
    BY <1>1, <1>4, <1>10 DEF GuessRight, Due, IsAvailableFor, IsFullFor
  <2>1. asks[x].due = 0 /\ swQ'[x].grant = asks[x].grant /\ asks[x].grant # None
    BY <1>10
  <2>2. Speculative
    BY SafeFacts
  <2>3. x \in Checks(M, MS)
    BY <1>7, <1>9, <2>1, <2>2 DEF Due
  <2>4. Usable(x, asks[x].grant)
    BY <1>10, <2>3
  <2>5. asks[x].grant[1] \in Output
    <3>1. asks[x].grant[1] \in routes[x] /\ x \in InVC
      BY <1>11, <2>1, SafeFacts
    <3>2. QED
      BY <1>5, <3>1 DEF TypeOK
  <2>6. CASE Piggyback
    <3>1. PICK v \in VC : IsAvailableFor(<<asks[x].grant[1], v>>) /\ ~IsFullFor(<<asks[x].grant[1], v>>)
      BY <2>4, <2>6 DEF Usable
    <3>2. <<asks[x].grant[1], v>> \in OutVC
      BY <2>5 DEF OutVC
    <3>3. QED
      BY <2>1, <2>6, <3>1, <3>2
  <2>7. CASE ~Piggyback
    BY <2>1, <2>4, <2>7 DEF Usable
  <2>8. QED
    BY <2>6, <2>7
<1>16. NoAssertionFails'
  <2>1. \A x \in Checks(M, MS) : x \in DOMAIN swQ /\ asks[x].grant # None
    BY <1>7, <1>9 DEF Due
  <2>2. QED
    BY <1>1, <1>9, <1>11, <2>1 DEF NoAssertionFails
<1>17. InStep'
  <2> SUFFICES ASSUME Speculative, NEW x \in DOMAIN vcQ
               PROVE  x \in DOMAIN swQ /\ vcQ[x].due = asks[x].due
    BY <1>1, <1>10, SameSets DEF InStep
  <2>1. /\ x \in DOMAIN swQ /\ config.vca = config.swa
        /\ vcQ[x].due = IF swQ[x].due = NotYet THEN config.vca - 1 ELSE swQ[x].due
    BY <1>1, SafeFacts DEF AInv, InStep
  <2>2. asks[x].due = IF swQ[x].due = NotYet THEN config.swa - 1 ELSE swQ[x].due
    BY <1>7, <2>1
  <2>3. QED
    BY <2>1, <2>2
<1>18. QED
  BY <1>17, <1>12, <1>14, <1>15, <1>16 DEF AInv

(* A routed VC enters both queues at once.                                 *)
LEMMA RouteUpdateSafe ==
  ASSUME IInv, AInv, RouteUpdate, \A c \in Configs : SafeConfig(c)
  PROVE  AInv'
<1> DEFINE X == Due(routeQ)
<1>1. /\ phase = "route_update" /\ phase' = "vc_update" /\ config' = config
      /\ state' = Overlay(state, [x \in X |-> "vc_alloc"])
      /\ out' = Overlay(out, [x \in X |-> None])
      /\ swQ' = IF Speculative THEN Enqueue(swQ, X) ELSE swQ
      /\ vcQ' = IF Piggyback THEN vcQ ELSE Enqueue(vcQ, X)
      /\ UNCHANGED <<vcMatch, holdIn, holdOut, occ, inUse, failed>>
  BY DEF RouteUpdate, holdVars, nextVars
<1>2. PICK r \in Routes(X) : routes' = Overlay(routes, r)
  BY DEF RouteUpdate
<1>3. /\ state \in [InVC -> {"idle", "routing", "vc_alloc", "active"}]
      /\ out \in [InVC -> OutVC \cup {None}] /\ routes \in [InVC -> SUBSET Output]
      /\ DOMAIN routeQ \subseteq InVC /\ DOMAIN swQ \subseteq InVC
  BY DEF IInv, Typed, TypeOK, QueueOK
<1>4. X \subseteq InVC /\ \A x \in X : x \notin DOMAIN swQ
  BY <1>3 DEF Due, IInv, InItsQueues
<1>5. OutVC' = OutVC /\ Piggyback' = Piggyback
  BY <1>1, SameSets
<1> HIDE DEF X
<1>6. \A x \in DOMAIN swQ : state'[x] = state[x] /\ out'[x] = out[x] /\ routes'[x] = routes[x]
  BY <1>1, <1>2, <1>3, <1>4 DEF Overlay, Routes
<1>7. \A x \in DOMAIN swQ' : swQ'[x] = Fresh \/ (x \in DOMAIN swQ /\ swQ'[x] = swQ[x])
  BY <1>1, <1>4 DEF Enqueue, Overlay
<1>8. Aimed'
  BY <1>6, <1>7 DEF AInv, Aimed, Fresh
<1>9. \A x \in Due(swQ') : swQ'[x].grant # None => x \in Due(swQ) /\ x \in DOMAIN swQ /\ swQ'[x] = swQ[x]
  BY <1>7 DEF Due, Fresh
<1>10. phase \in Chosen /\ phase \in {"route_update", "vc_update"} /\ phase' \in {"route_update", "vc_update"}
  BY <1>1 DEF Chosen
<1>11. LanesFree'
  BY <1>1, <1>9, <1>10 DEF AInv, LanesFree, ExpandedInput
<1>12. GuessRight'
  BY <1>1, <1>5, <1>6, <1>9, <1>10 DEF AInv, GuessRight, IsAvailableFor, IsFullFor
<1>13. InStep'
  <2> SUFFICES ASSUME Speculative, NEW x \in DOMAIN vcQ'
               PROVE  x \in DOMAIN swQ' /\ vcQ'[x].due = swQ'[x].due
    BY <1>1, SameSets DEF InStep
  <2>1. CASE x \in X /\ ~Piggyback
    BY <1>1, <2>1 DEF Enqueue, Overlay
  <2>2. CASE x \notin X \/ Piggyback
    <3>1. x \in DOMAIN vcQ /\ vcQ'[x] = vcQ[x] /\ ~Piggyback
      BY <1>1, <2>2, SafeFacts DEF Enqueue, Overlay
    <3>2. x \in DOMAIN swQ /\ vcQ[x].due = swQ[x].due
      BY <1>1, <3>1 DEF AInv, InStep
    <3>3. QED
      BY <1>1, <2>2, <3>1, <3>2 DEF Enqueue, Overlay
  <2>3. QED
    BY <2>1, <2>2
<1>14. QED
  BY <1>1, <1>13, <1>8, <1>11, <1>12 DEF AInv, NoAssertionFails

-----------------------------------------------------------------------------
(* A VC that gets its output takes a free one, and a guess of its own in   *)
(* the switch is for that output, or fails with the VC allocation.         *)
LEMMA VCAllocUpdateSafe ==
  ASSUME IInv, AInv, VCAllocUpdate, \A c \in Configs : SafeConfig(c)
  PROVE  AInv'
<1> DEFINE X == {x \in Due(vcQ) : vcQ[x].grant # None}
<1>1. /\ phase = "vc_update" /\ config' = config
      /\ failed' = IF \A x \in X : IsAvailableFor(vcQ[x].grant) THEN failed
                   ELSE "dest_buf->IsAvailableFor(match_vc)"
      /\ out' = Overlay(out, [x \in X |-> vcQ[x].grant])
      /\ state' = Overlay(state, [x \in X |-> "active"])
      /\ inUse' = [w \in OutVC |-> inUse[w] \/ \E x \in X : vcQ[x].grant = w]
      /\ vcQ' = Enqueue(Dequeue(vcQ, X), Due(vcQ) \ X)
      /\ swQ' = IF Speculative THEN swQ ELSE Enqueue(swQ, X)
      /\ phase' = IF config.hold THEN "sw_hold_update" ELSE "sw_update"
      /\ UNCHANGED <<routes, holdIn, holdOut, occ>>
  BY DEF VCAllocUpdate, holdVars
<1>2. /\ TypeOK /\ state \in [InVC -> {"idle", "routing", "vc_alloc", "active"}]
      /\ out \in [InVC -> OutVC \cup {None}] /\ DOMAIN vcQ \subseteq InVC /\ DOMAIN swQ \subseteq InVC
      /\ DOMAIN vcMatch \subseteq InVC /\ inUse \in [OutVC -> BOOLEAN]
  BY DEF IInv, Typed, TypeOK, QueueOK
<1>3. \A x \in X : x \in InVC /\ x \in DOMAIN vcQ /\ x \in Due(vcQ) /\ vcQ[x].grant # None /\ vcQ[x].due = 0
  BY <1>2 DEF Due
<1>4. \A x \in X : state[x] = "vc_alloc" /\ ~Piggyback
  BY <1>3 DEF IInv, InItsQueues
<1>5. OutVC' = OutVC /\ Piggyback' = Piggyback
  BY <1>1, SameSets
<1> HIDE DEF X
<1>6. \A x \in InVC : /\ state'[x] = IF x \in X THEN "active" ELSE state[x]
                      /\ out'[x] = IF x \in X THEN vcQ[x].grant ELSE out[x]
  BY <1>1, <1>2, <1>3 DEF Overlay
<1>7. \A x \in DOMAIN swQ' :
        \/ swQ'[x] = Fresh
        \/ x \in DOMAIN swQ /\ swQ'[x] = swQ[x] /\ (x \in X => Speculative)
  BY <1>1 DEF Enqueue, Overlay
<1>8. phase \in Chosen /\ phase \in Asked /\ phase' \in Chosen
  BY <1>1 DEF Chosen, Asked
<1>9. \A x \in X : x \in DOMAIN swQ /\ Speculative /\ swQ[x].grant # None => swQ[x].grant[1] = vcQ[x].grant[1]
  <2> SUFFICES ASSUME NEW x \in X, x \in DOMAIN swQ, Speculative, swQ[x].grant # None
               PROVE  swQ[x].grant[1] = vcQ[x].grant[1]
    OBVIOUS
  <2>1. swQ[x].due = 0
    BY <1>1, <1>3 DEF AInv, InStep
  <2>2. x \in DOMAIN vcMatch /\ vcMatch[x][1] = swQ[x].grant[1]
    BY <1>4, <1>8, <2>1 DEF AInv, GuessRight, Due
  <2>3. vcQ[x].grant = vcMatch[x]
    BY <1>8, <2>2 DEF IInv, VCGrants
  <2>4. QED
    BY <2>2, <2>3
<1>10. Aimed'
  <2> SUFFICES ASSUME NEW x \in DOMAIN swQ', swQ'[x] # Fresh
               PROVE  /\ swQ'[x].due = NotYet => swQ'[x].grant = None
                      /\ swQ'[x].grant # None =>
                           IF state'[x] = "active" THEN swQ'[x].grant[1] = out'[x][1]
                                                   ELSE swQ'[x].grant[1] \in routes'[x]
    BY DEF Aimed, Fresh
  <2>1. x \in InVC /\ x \in DOMAIN swQ /\ swQ'[x] = swQ[x] /\ (x \in X => Speculative)
    BY <1>2, <1>7
  <2>2. CASE x \in X
    BY <1>6, <1>9, <2>1, <2>2 DEF AInv, Aimed
  <2>3. CASE x \notin X
    BY <1>1, <1>6, <2>1, <2>3 DEF AInv, Aimed
  <2>4. QED
    BY <2>2, <2>3
<1>11. \A x \in Due(swQ') : swQ'[x].grant # None =>
         x \in Due(swQ) /\ x \in DOMAIN swQ /\ swQ'[x] = swQ[x] /\ (x \in X => Speculative)
  BY <1>7 DEF Due, Fresh
<1>12. LanesFree'
  BY <1>1, <1>8, <1>11 DEF AInv, LanesFree, ExpandedInput
<1>13. GuessRight'
  <2> SUFFICES ASSUME NEW x \in Due(swQ'), swQ'[x].grant # None, state'[x] # "active"
               PROVE  /\ Piggyback
                      /\ \E w \in OutVC : w[1] = swQ'[x].grant[1] /\ ~inUse'[w] /\ ~IsFullFor(w)'
    BY <1>5 DEF GuessRight, IsAvailableFor
  <2>1. x \in Due(swQ) /\ x \in DOMAIN swQ /\ swQ'[x] = swQ[x] /\ x \in InVC
    BY <1>2, <1>11
  <2>2. x \notin X /\ state[x] # "active"
    BY <1>6, <2>1
  <2>3. Piggyback
    <3> SUFFICES ASSUME ~Piggyback PROVE FALSE
      OBVIOUS
    <3>1. Speculative /\ swQ[x].due = 0
      BY <2>1, <2>2, SafeFacts DEF Due
    <3>2. x \in DOMAIN vcMatch
      BY <1>1, <2>1, <2>2 DEF AInv, GuessRight, Chosen
    <3>3. x \in DOMAIN vcQ /\ vcQ[x].grant = vcMatch[x]
      BY <1>8, <3>2 DEF IInv, VCGrants
    <3>4. vcQ[x].due = 0
      BY <1>1, <3>1, <3>3 DEF AInv, InStep
    <3>5. vcQ[x].grant # None
      <4>1. vcMatch[x] \in OutVC
        BY <1>2, <3>2 DEF TypeOK
      <4>2. None \notin OutVC
        BY DEF OutVC, Output, None
      <4>3. QED
        BY <3>3, <4>1, <4>2
    <3>6. QED
      BY <2>2, <3>3, <3>4, <3>5 DEF X, Due
  <2>4. inUse' = inUse
    BY <1>1, <1>2, <1>4, <2>3
  <2>5. QED
    BY <1>1, <1>8, <2>1, <2>2, <2>3, <2>4 DEF AInv, GuessRight, IsAvailableFor, IsFullFor
<1>14. NoAssertionFails'
  <2>1. \A x \in X : IsAvailableFor(vcQ[x].grant)
    BY <1>3, <1>8 DEF IInv, VCGrants, IsAvailableFor
  <2>2. QED
    BY <1>1, <2>1 DEF AInv, NoAssertionFails
<1>15. InStep'
  <2> SUFFICES ASSUME Speculative, NEW x \in DOMAIN vcQ'
               PROVE  /\ x \in DOMAIN swQ
                      /\ vcQ'[x].due = IF swQ[x].due = 0 THEN NotYet ELSE swQ[x].due
    BY <1>1, SameSets DEF InStep
  <2>1. x \in DOMAIN vcQ /\ vcQ'[x] = IF x \in Due(vcQ) THEN Fresh ELSE vcQ[x]
    BY <1>1, <1>3 DEF Enqueue, Dequeue, Overlay, Due
  <2>2. x \in DOMAIN swQ /\ vcQ[x].due = swQ[x].due
    BY <1>1, <2>1 DEF AInv, InStep
  <2>3. QED
    BY <2>1, <2>2 DEF Due, Fresh
<1>16. QED
  BY <1>10, <1>12, <1>13, <1>14, <1>15 DEF AInv

-----------------------------------------------------------------------------
(* What follows the tail of a packet is all that Forward adds to the VC    *)
(* allocation queue.                                                       *)
LEMMA ForwardNext ==
  ASSUME IInv, NEW x, NEW e, NEW w, Forward(x, e, w)
  PROVE  /\ \A y \in DOMAIN vcQ' : y # x => y \in DOMAIN vcQ /\ vcQ'[y] = vcQ[y]
         /\ x \in DOMAIN vcQ' /\ x \notin DOMAIN vcQ =>
              vcQ'[x] = Fresh /\ NextPacket(x) /\ config.routing = 0
<1>1. config.routing \in Nat
  BY ConfigFacts DEF IInv, Typed, TypeOK
<1>2. vcQ' = ToAllocateVC(vcQ, IF Head(buf[x]).tail /\ Len(buf[x]) > 1 THEN {x} ELSE {})
  BY DEF Forward
<1>3. QED
  BY <1>1, <1>2 DEF NextPacket, ToAllocateVC, Enqueue, Overlay

(* A flit sent over a held connection takes no lane and no VC that a grant *)
(* of this cycle relies on.                                                *)
LEMMA SWHoldUpdateSafe ==
  ASSUME IInv, AInv, NEW x \in InVC, SWHoldUpdate(x), \A c \in Configs : SafeConfig(c)
  PROVE  AInv'
<1>0. PICK full \in HeldFull(holdQ[x].grant) :
        LET e == holdQ[x].grant
            sends == e # None /\ ~full
            others == Dequeue(holdQ, {x})
        IN  /\ IF sends
               THEN /\ Forward(x, e, out[x])
                    /\ swQ' = IF NextPacket(x) THEN ToSpeculate(swQ, {x}) ELSE swQ
               ELSE /\ swQ' = Enqueue(swQ, {x})
                    /\ UNCHANGED <<vcVars, routeQ, vcQ, nextVars, crossbar>>
            /\ IF sends /\ GoesOn(x) THEN holdQ' = Enqueue(others, {x}) /\ UNCHANGED holdVars
                                     ELSE holdQ' = others /\ Release(x)
  BY Zenon DEF SWHoldUpdate
<1> DEFINE sends == holdQ[x].grant # None /\ ~full
           others == Dequeue(holdQ, {x})
           i == ExpandedInput(x)
<1>1. /\ phase = "sw_hold_update" /\ phase' = phase /\ config' = config /\ x \in Due(holdQ)
      /\ IF sends
         THEN /\ Forward(x, holdQ[x].grant, out[x])
              /\ swQ' = IF NextPacket(x) THEN ToSpeculate(swQ, {x}) ELSE swQ
         ELSE /\ swQ' = Enqueue(swQ, {x})
              /\ UNCHANGED <<buf, state, routes, out, routeQ, vcQ, occ, inUse, crossbar>>
      /\ IF sends /\ GoesOn(x) THEN holdQ' = Enqueue(others, {x}) /\ UNCHANGED holdVars
                               ELSE holdQ' = others /\ Release(x)
      /\ failed' = failed
  BY <1>0, Zenon DEF SWHoldUpdate, vcVars, nextVars
<1>2. OutVC' = OutVC /\ Piggyback' = Piggyback
  BY <1>1, SameSets
<1>3. /\ TypeOK /\ holdIn \in [LaneIn -> LaneOut \cup {None}]
      /\ holdOut \in [LaneOut -> LaneIn \cup {None}] /\ QueueOK(swQ, config.swa, LaneOut)
  BY DEF IInv, Typed, TypeOK
<1>4. x \in DOMAIN holdQ /\ state[x] = "active" /\ out[x] \in OutVC /\ ~Empty(x) /\ inUse[out[x]]
  <2>1. x \in DOMAIN holdQ /\ state[x] = "active" /\ out[x] \in OutVC
    BY <1>1 DEF Due, IInv, InItsQueues, OutputsSet
  <2>2. /\ holdVc[i] = x[2] /\ x = <<x[1], x[2]>> /\ i \in LaneIn /\ i[1] = x[1] /\ x[2] # NotYet
    BY <1>3, <2>1, LaneFacts DEF IInv, Held, NotYet, ExpandedInput
  <2>3. ~Empty(<<i[1], holdVc[i]>>)
    BY <2>2 DEF IInv, HoldsAgree
  <2>4. QED
    BY <2>1, <2>2, <2>3 DEF IInv, Owned
<1>5. x \notin DOMAIN swQ
  BY <1>4 DEF IInv, InItsQueues
<1>6. \A y \in DOMAIN swQ' : swQ'[y] = Fresh \/ (y \in DOMAIN swQ /\ swQ'[y] = swQ[y])
  BY <1>1 DEF ToSpeculate, Enqueue, Overlay
<1>7. sends => MaySendTo(x, out[x]) /\ Forward(x, holdQ[x].grant, out[x])
  BY <1>1, <1>4 DEF MaySendTo, IInv, Paid, Chosen
<1>8. sends => Sent(x, out[x])
  BY <1>3, <1>7, ForwardFacts
<1>9. ~sends => UNCHANGED <<buf, state, routes, out, occ, inUse>>
  BY <1>1
<1>10. UNCHANGED <<holdIn, holdOut>> \/ (/\ holdIn' = [holdIn EXCEPT ![i] = None]
                                         /\ holdOut' = [holdOut EXCEPT ![holdIn[i]] = None])
  BY <1>1 DEF Release, SetHold, holdVars
<1> HIDE DEF sends, others, i
<1>11. \A y \in DOMAIN swQ : /\ y \in InVC /\ y # x /\ state'[y] = state[y] /\ out'[y] = out[y]
                             /\ routes'[y] = routes[y]
  BY <1>3, <1>5, <1>8, <1>9 DEF Sent, QueueOK
<1>12. \A v \in OutVC : ~inUse[v] => v # out[x] /\ ~inUse'[v] /\ occ'[v] = occ[v]
  BY <1>4, <1>8, <1>9 DEF Sent
<1>13. Aimed'
  BY <1>6, <1>11 DEF AInv, Aimed, Fresh
<1>14. \A y \in Due(swQ') : swQ'[y].grant # None => y \in Due(swQ) /\ y \in DOMAIN swQ /\ swQ'[y] = swQ[y]
  BY <1>6 DEF Due, Fresh
<1>15. LanesFree'
  <2>1. \A e \in LaneIn : holdIn[e] = None => holdIn'[e] = None
    BY <1>3, <1>10
  <2>2. \A e \in LaneOut : holdOut[e] = None => holdOut'[e] = None
    BY <1>3, <1>10
  <2>3. \A y \in InVC : ExpandedInput(y) \in LaneIn /\ ExpandedInput(y)' = ExpandedInput(y)
    BY <1>1, <1>3, LaneFacts DEF ExpandedInput
  <2>4. \A y \in DOMAIN swQ : swQ[y].grant # None => swQ[y].grant \in LaneOut
    BY <1>3 DEF QueueOK, Entries
  <2> SUFFICES ASSUME NEW y \in Due(swQ'), swQ'[y].grant # None
               PROVE  holdIn'[ExpandedInput(y)] = None /\ holdOut'[swQ'[y].grant] = None
    BY <1>1 DEF LanesFree, ExpandedInput
  <2>5. y \in Due(swQ) /\ y \in DOMAIN swQ /\ swQ'[y] = swQ[y] /\ y \in InVC
    BY <1>11, <1>14
  <2>6. holdIn[ExpandedInput(y)] = None /\ holdOut[swQ[y].grant] = None
    BY <1>1, <2>5 DEF AInv, LanesFree, Chosen
  <2>7. QED
    BY <2>1, <2>2, <2>3, <2>4, <2>5, <2>6
<1>16. GuessRight'
  <2> SUFFICES ASSUME NEW y \in Due(swQ'), swQ'[y].grant # None, state'[y] # "active"
               PROVE  /\ Piggyback
                      /\ \E w \in OutVC : w[1] = swQ'[y].grant[1] /\ ~inUse'[w] /\ ~(occ'[w] >= OutSize)
    BY <1>2 DEF GuessRight, IsAvailableFor, IsFullFor
  <2>1. y \in Due(swQ) /\ y \in DOMAIN swQ /\ swQ'[y] = swQ[y]
    BY <1>14
  <2>2. /\ Piggyback
        /\ \E w \in OutVC : w[1] = swQ[y].grant[1] /\ ~inUse[w] /\ ~(occ[w] >= OutSize)
    BY <1>1, <1>11, <2>1 DEF AInv, GuessRight, Chosen, IsAvailableFor, IsFullFor
  <2>3. QED
    BY <1>11, <1>12, <2>1, <2>2
<1>17. InStep'
  <2> SUFFICES ASSUME Speculative, NEW y \in DOMAIN vcQ'
               PROVE  /\ y \in DOMAIN swQ'
                      /\ vcQ'[y].due = IF swQ'[y].due = 0 THEN NotYet ELSE swQ'[y].due
    BY <1>1, SameSets DEF InStep
  <2>1. x \notin DOMAIN vcQ
    BY <1>4 DEF IInv, InItsQueues
  <2>2. CASE y \in DOMAIN vcQ
    <3>1. y # x /\ vcQ'[y] = vcQ[y]
      <4>1. CASE sends
        BY <1>7, <2>1, <2>2, <4>1, ForwardNext
      <4>2. CASE ~sends
        BY <1>1, <2>1, <2>2, <4>2 DEF sends
      <4>3. QED
        BY <4>1, <4>2
    <3>2. y \in DOMAIN swQ /\ vcQ[y].due = IF swQ[y].due = 0 THEN NotYet ELSE swQ[y].due
      BY <1>1, <2>2 DEF AInv, InStep
    <3>3. y \in DOMAIN swQ' /\ swQ'[y] = swQ[y]
      BY <1>1, <3>1, <3>2 DEF ToSpeculate, Enqueue, Overlay
    <3>4. QED
      BY <3>1, <3>2, <3>3
  <2>3. CASE y \notin DOMAIN vcQ
    <3>1. sends /\ y = x
      BY <1>1, <1>7, <2>3, ForwardNext DEF sends
    <3>2. vcQ'[x] = Fresh /\ NextPacket(x) /\ config.routing = 0
      BY <1>7, <2>1, <2>3, <3>1, ForwardNext
    <3>3. x \in DOMAIN swQ' /\ swQ'[x] = Fresh
      BY <1>1, <3>1, <3>2 DEF sends, ToSpeculate, Enqueue, Overlay
    <3>4. QED
      BY <3>1, <3>2, <3>3 DEF Fresh, NotYet
  <2>4. QED
    BY <2>2, <2>3
<1>18. QED
  BY <1>1, <1>13, <1>15, <1>16, <1>17 DEF AInv, NoAssertionFails

(* The end of the held connections changes nothing the grants depend on.   *)
LEMMA SWHoldDoneSafe ==
  ASSUME IInv, AInv, SWHoldDone
  PROVE  AInv'
<1>1. /\ phase = "sw_hold_update" /\ phase' = "sw_update" /\ config' = config
      /\ UNCHANGED <<state, routes, out, vcQ, swQ, vcMatch, holdIn, holdOut, occ, inUse, failed>>
  BY DEF SWHoldDone, vcVars, queues, holdVars, nextVars
<1>2. OutVC' = OutVC /\ Piggyback' = Piggyback
  BY <1>1, SameSets
<1>3. Aimed' /\ LanesFree'
  BY <1>1 DEF AInv, Aimed, LanesFree, Chosen, Due, ExpandedInput
<1>4. GuessRight'
  BY <1>1, <1>2 DEF AInv, GuessRight, Chosen, Due, IsAvailableFor, IsFullFor
<1>5. InStep'
  BY <1>1, SameSets DEF AInv, InStep
<1>6. QED
  BY <1>1, <1>3, <1>4, <1>5 DEF AInv, NoAssertionFails

-----------------------------------------------------------------------------
(* In _SWAllocUpdate a grant that is due breaks no assertion, and every VC *)
(* it may pick has room.                                                   *)
LEMMA GrantUsed ==
  ASSUME IInv, AInv, \A c \in Configs : SafeConfig(c), phase = "sw_update",
         NEW x \in Due(swQ), swQ[x].grant # None
  PROVE  /\ Broken(x, swQ[x].grant) = ""
         /\ \A w \in Pickable(x, swQ[x].grant[1]) : MaySendTo(x, w) /\ w[1] = swQ[x].grant[1]
<1> DEFINE g == swQ[x].grant
           i == ExpandedInput(x)
<1>1. /\ TypeOK /\ QueueOK(swQ, config.swa, LaneOut) /\ OutSize \in Nat /\ occ \in [OutVC -> Nat]
      /\ holdVc \in [LaneIn -> VC \cup {NotYet}]
  BY ConfigFacts DEF IInv, Typed, TypeOK
<1>2. x \in InVC /\ x \in DOMAIN swQ
  BY <1>1 DEF QueueOK, Due
<1>3. state[x] \in {"vc_alloc", "active"}
  BY <1>2, SafeFacts
<1>4. holdIn[i] = None /\ holdOut[g] = None
  BY DEF AInv, LanesFree, Chosen
<1>5. ~Empty(x)
  <2>1. i \in LaneIn /\ x[2] # NotYet
    BY <1>1, <1>2, LaneFacts DEF NotYet
  <2>2. holdVc[i] = NotYet
    BY <1>4, <2>1 DEF IInv, HoldsAgree
  <2>3. x \notin DOMAIN holdQ
    BY <1>2, <2>1, <2>2 DEF IInv, Held
  <2>4. QED
    BY <1>2, <1>3, <2>3 DEF IInv, InItsQueues
<1>6. CASE state[x] = "active"
  <2>1. out[x] \in OutVC /\ out[x][1] = g[1] /\ Pickable(x, g[1]) = {out[x]}
    BY <1>2, <1>6 DEF IInv, OutputsSet, AInv, Aimed, Pickable
  <2>2. occ[out[x]] < OutSize
    BY <1>6 DEF IInv, Paid, Chosen
  <2>3. MaySendTo(x, out[x])
    BY <1>2, <1>5, <1>6, <2>1, <2>2 DEF MaySendTo
  <2>4. QED
    BY <1>4, <2>1, <2>3 DEF Broken
<1>7. CASE state[x] = "vc_alloc"
  <2>1. /\ Piggyback /\ g[1] \in routes[x]
        /\ \E w \in OutVC : w[1] = g[1] /\ IsAvailableFor(w) /\ ~IsFullFor(w)
    BY <1>2, <1>7 DEF AInv, Aimed, GuessRight, Chosen
  <2>2. Pickable(x, g[1]) = {w \in OutVC : w[1] = g[1] /\ g[1] \in routes[x] /\ IsAvailableFor(w) /\ ~IsFullFor(w)}
    BY <1>7, <2>1 DEF Pickable
  <2>3. \A w \in Pickable(x, g[1]) : w \in OutVC /\ w[1] = g[1] /\ ~inUse[w] /\ occ[w] < OutSize
    BY <1>1, <2>2 DEF IsAvailableFor, IsFullFor
  <2>4. \A w \in Pickable(x, g[1]) : MaySendTo(x, w)
    BY <1>2, <1>5, <1>7, <2>1, <2>3 DEF MaySendTo
  <2>5. Pickable(x, g[1]) # {}
    BY <2>1, <2>2
  <2>6. QED
    BY <1>4, <2>3, <2>4, <2>5 DEF Broken
<1>8. QED
  BY <1>3, <1>6, <1>7

(* A flit sent over a granted lane leaves the other grants of the cycle    *)
(* good.                                                                   *)
LEMMA SWAllocUpdateSafe ==
  ASSUME IInv, AInv, NEW x \in InVC, SWAllocUpdate(x), \A c \in Configs : SafeConfig(c)
  PROVE  AInv'
<1> DEFINE g == swQ[x].grant
           i == ExpandedInput(x)
           others == Dequeue(swQ, {x})
<1>1. /\ phase = "sw_update" /\ phase' = phase /\ config' = config /\ x \in Due(swQ) /\ g # None
      /\ failed' = Broken(x, g)
      /\ IF failed' # ""
         THEN UNCHANGED <<vcVars, queues, nextVars, crossbar, holdVars>>
         ELSE /\ \E w \in Pickable(x, g[1]) : Forward(x, g, w)
              /\ IF config.hold /\ GoesOn(x)
                 THEN /\ SetHold(x, g, x[2], g, i)
                      /\ holdQ' = Enqueue(holdQ, {x})
                 ELSE UNCHANGED <<holdQ, holdVars>>
              /\ swQ' = IF NextPacket(x) THEN ToSpeculate(others, {x})
                        ELSE IF GoesOn(x) /\ ~config.hold THEN Enqueue(others, {x})
                        ELSE others
  BY DEF SWAllocUpdate
<1>2. failed' = "" /\ \A w \in Pickable(x, g[1]) : MaySendTo(x, w) /\ w[1] = g[1]
  BY <1>1, GrantUsed
<1>3. PICK w \in Pickable(x, g[1]) : Forward(x, g, w)
  BY <1>1, <1>2
<1>4. /\ \/ UNCHANGED <<holdIn, holdOut>>
         \/ holdIn' = [holdIn EXCEPT ![i] = g] /\ holdOut' = [holdOut EXCEPT ![g] = i]
      /\ swQ' = IF NextPacket(x) THEN ToSpeculate(others, {x})
                ELSE IF GoesOn(x) /\ ~config.hold THEN Enqueue(others, {x})
                ELSE others
  BY <1>1, <1>2 DEF SetHold, holdVars
<1>5. OutVC' = OutVC /\ Piggyback' = Piggyback
  BY <1>1, SameSets
<1>6. /\ TypeOK /\ QueueOK(swQ, config.swa, LaneOut)
      /\ holdIn \in [LaneIn -> LaneOut \cup {None}] /\ holdOut \in [LaneOut -> LaneIn \cup {None}]
  BY DEF IInv, Typed, TypeOK
<1>7. MaySendTo(x, w) /\ w[1] = g[1] /\ w \in OutVC
  BY <1>2 DEF MaySendTo
<1>8. Sent(x, w)
  BY <1>3, <1>6, <1>7, ForwardFacts
<1>9. x \in DOMAIN swQ /\ DOMAIN swQ \subseteq InVC
  BY <1>1, <1>6 DEF Due, QueueOK
<1>10. \A y \in DOMAIN swQ' : swQ'[y] = Fresh \/ (y # x /\ y \in DOMAIN swQ /\ swQ'[y] = swQ[y])
  BY <1>4 DEF ToSpeculate, Enqueue, Dequeue, Overlay
<1> HIDE DEF others, i, g
<1>11. \A y \in DOMAIN swQ : y # x => /\ y \in InVC /\ state'[y] = state[y] /\ out'[y] = out[y]
                                      /\ routes'[y] = routes[y]
  BY <1>8, <1>9 DEF Sent
<1>12. \A v \in OutVC : v[1] # g[1] => inUse'[v] = inUse[v] /\ occ'[v] = occ[v]
  BY <1>7, <1>8 DEF Sent
<1>13. Aimed'
  BY <1>10, <1>11 DEF AInv, Aimed, Fresh
<1>14. \A y \in Due(swQ') : swQ'[y].grant # None =>
         y # x /\ y \in Due(swQ) /\ y \in DOMAIN swQ /\ swQ'[y] = swQ[y]
  BY <1>10 DEF Due, Fresh
<1>15. \A y \in Due(swQ) : y # x /\ swQ[y].grant # None =>
         /\ ExpandedInput(y) # i /\ swQ[y].grant # g
         /\ swQ[y].grant \in LaneOut /\ g \in LaneOut
         /\ ExpandedInput(y) \in LaneIn
  <2> SUFFICES ASSUME NEW y \in Due(swQ), y # x, swQ[y].grant # None
               PROVE  /\ ExpandedInput(y) # i /\ swQ[y].grant # g
                      /\ swQ[y].grant \in LaneOut /\ g \in LaneOut
                      /\ ExpandedInput(y) \in LaneIn
    OBVIOUS
  <2>1. y \in DOMAIN swQ /\ y \in InVC /\ swQ[y].due = swQ[x].due
    BY <1>1, <1>9 DEF Due
  <2>2. ExpandedInput(y) # i /\ swQ[y].grant # g
    BY <1>1, <1>9, <2>1 DEF IInv, SWGrants, i, g
  <2>3. swQ[y].grant \in LaneOut /\ g \in LaneOut
    BY <1>1, <1>6, <1>9, <2>1 DEF QueueOK, Entries, g
  <2>4. QED
    BY <1>6, <2>1, <2>2, <2>3, LaneFacts
<1>16. LanesFree'
  <2> SUFFICES ASSUME NEW y \in Due(swQ'), swQ'[y].grant # None
               PROVE  holdIn'[ExpandedInput(y)] = None /\ holdOut'[swQ'[y].grant] = None
    BY <1>1 DEF LanesFree, ExpandedInput
  <2>1. y # x /\ y \in Due(swQ) /\ swQ'[y] = swQ[y] /\ swQ[y].grant # None
    BY <1>14
  <2>2. holdIn[ExpandedInput(y)] = None /\ holdOut[swQ[y].grant] = None
    BY <1>1, <2>1 DEF AInv, LanesFree, Chosen
  <2>3. ExpandedInput(y) # i /\ swQ[y].grant # g /\ swQ[y].grant \in LaneOut /\ ExpandedInput(y) \in LaneIn
    BY <1>15, <2>1
  <2>4. QED
    BY <1>4, <1>6, <2>1, <2>2, <2>3
<1>17. GuessRight'
  <2> SUFFICES ASSUME NEW y \in Due(swQ'), swQ'[y].grant # None, state'[y] # "active"
               PROVE  /\ Piggyback
                      /\ \E v \in OutVC : v[1] = swQ'[y].grant[1] /\ ~inUse'[v] /\ ~(occ'[v] >= OutSize)
    BY <1>5 DEF GuessRight, IsAvailableFor, IsFullFor
  <2>1. y # x /\ y \in Due(swQ) /\ y \in DOMAIN swQ /\ swQ'[y] = swQ[y] /\ swQ[y].grant # None
    BY <1>14
  <2>2. /\ Piggyback
        /\ \E v \in OutVC : v[1] = swQ[y].grant[1] /\ ~inUse[v] /\ ~(occ[v] >= OutSize)
    BY <1>1, <1>11, <2>1 DEF AInv, GuessRight, Chosen, IsAvailableFor, IsFullFor
  <2>3. swQ[y].grant[1] # g[1]
    <3>1. config.lanesOut = 1
      BY <2>2, SafeFacts
    <3>2. swQ[y].grant \in Output \X {0} /\ g \in Output \X {0}
      <4>1. 0 .. config.lanesOut - 1 = {0}
        BY <3>1
      <4>2. QED
        BY <1>15, <2>1, <4>1 DEF LaneOut
    <3>3. QED
      BY <1>15, <2>1, <3>2
  <2>4. QED
    BY <1>11, <1>12, <2>1, <2>2, <2>3
<1>18. InStep'
  <2> SUFFICES ASSUME Speculative, NEW y \in DOMAIN vcQ'
               PROVE  /\ y \in DOMAIN swQ'
                      /\ vcQ'[y].due = IF swQ'[y].due = 0 THEN NotYet ELSE swQ'[y].due
    BY <1>1, SameSets DEF InStep
  <2>1. x \notin DOMAIN vcQ
    <3>1. state[x] = "active" \/ Piggyback
      BY <1>1 DEF AInv, GuessRight, Chosen, g
    <3>2. QED
      BY <3>1, SafeFacts
  <2>2. CASE y \in DOMAIN vcQ
    <3>1. y # x /\ vcQ'[y] = vcQ[y]
      BY <1>3, <2>1, <2>2, ForwardNext
    <3>2. y \in DOMAIN swQ /\ vcQ[y].due = IF swQ[y].due = 0 THEN NotYet ELSE swQ[y].due
      BY <1>1, <2>2 DEF AInv, InStep
    <3>3. y \in DOMAIN swQ' /\ swQ'[y] = swQ[y]
      BY <1>4, <3>1, <3>2 DEF ToSpeculate, Enqueue, Dequeue, Overlay, others
    <3>4. QED
      BY <3>1, <3>2, <3>3
  <2>3. CASE y \notin DOMAIN vcQ
    <3>1. y = x /\ vcQ'[x] = Fresh /\ NextPacket(x) /\ config.routing = 0
      BY <1>3, <2>3, ForwardNext
    <3>2. x \in DOMAIN swQ' /\ swQ'[x] = Fresh
      BY <1>4, <3>1 DEF ToSpeculate, Enqueue, Overlay
    <3>3. QED
      BY <3>1, <3>2 DEF Fresh, NotYet
  <2>4. QED
    BY <2>2, <2>3
<1>19. QED
  BY <1>2, <1>13, <1>16, <1>17, <1>18 DEF AInv, NoAssertionFails

-----------------------------------------------------------------------------
(* At the end of the cycle the VCs that got nothing try again, and both    *)
(* queues grow older together.                                             *)
LEMMA CycleEndSafe ==
  ASSUME IInv, AInv, \A c \in Configs : SafeConfig(c),
         SWAllocDone \/ SwitchUpdate \/ SwitchDone \/ WriteOutputs
  PROVE  AInv'
<1>1. /\ phase' \in {"switch_update", "write", "read"} /\ config' = config /\ UNCHANGED <<state, routes, out>>
      /\ swQ' \in {swQ, Enqueue(Dequeue(swQ, Due(swQ)), Due(swQ)), Older(swQ)}
  BY DEF SWAllocDone, SwitchUpdate, SwitchDone, WriteOutputs, vcVars, queues
<1>2. failed' = failed
  BY SafeFacts DEF SWAllocDone, SwitchUpdate, SwitchDone, WriteOutputs
<1>3. /\ QueueOK(swQ, config.swa, LaneOut) /\ config.swa \in Nat
      /\ QueueOK(vcQ, config.vca, OutVC) /\ config.vca \in Nat
  BY ConfigFacts DEF IInv, Typed, TypeOK
<1>4. Aimed'
  <2>1. CASE swQ' = swQ
    BY <1>1, <2>1 DEF AInv, Aimed
  <2>2. CASE swQ' = Enqueue(Dequeue(swQ, Due(swQ)), Due(swQ))
    <3>1. \A x \in DOMAIN swQ' : swQ'[x] = Fresh \/ (x \in DOMAIN swQ /\ swQ'[x] = swQ[x])
      BY <2>2 DEF Enqueue, Dequeue, Overlay
    <3>2. QED
      BY <1>1, <3>1 DEF AInv, Aimed, Fresh
  <2>3. CASE swQ' = Older(swQ)
    <3>1. /\ DOMAIN swQ' = DOMAIN swQ
          /\ \A x \in DOMAIN swQ : /\ swQ[x].due \in Int /\ swQ'[x].grant = swQ[x].grant
                                    /\ swQ'[x].due = IF swQ[x].due > 0 THEN swQ[x].due - 1 ELSE swQ[x].due
      BY <1>3, <2>3, OlderFacts
    <3>2. \A x \in DOMAIN swQ : swQ'[x].due = NotYet => swQ[x].due = NotYet
      BY <3>1 DEF NotYet
    <3>3. QED
      BY <1>1, <3>1, <3>2 DEF AInv, Aimed
  <2>4. QED
    BY <1>1, <2>1, <2>2, <2>3
<1>5. phase' \notin Chosen
  BY <1>1 DEF Chosen
<1>6. InStep'
  <2> SUFFICES ASSUME Speculative, NEW x \in DOMAIN vcQ'
               PROVE  x \in DOMAIN swQ' /\ vcQ'[x].due = swQ'[x].due
    BY <1>1, SameSets DEF InStep
  <2>1. CASE SWAllocDone
    <3>1. phase = "sw_update" /\ vcQ' = vcQ /\ swQ' = Enqueue(Dequeue(swQ, Due(swQ)), Due(swQ))
      BY <2>1 DEF SWAllocDone
    <3>2. x \in DOMAIN swQ /\ vcQ[x].due = IF swQ[x].due = 0 THEN NotYet ELSE swQ[x].due
      BY <3>1 DEF AInv, InStep
    <3>3. x \in DOMAIN swQ' /\ swQ'[x] = IF swQ[x].due = 0 THEN Fresh ELSE swQ[x]
      BY <3>1, <3>2 DEF Enqueue, Dequeue, Overlay, Due
    <3>4. QED
      BY <3>1, <3>2, <3>3 DEF Fresh
  <2>2. CASE SwitchUpdate \/ SwitchDone
    <3>1. phase = "switch_update" /\ vcQ' = vcQ /\ swQ' = swQ
      BY <2>2, Zenon DEF SwitchUpdate, SwitchDone, queues
    <3>2. QED
      BY <3>1 DEF AInv, InStep
  <2>3. CASE WriteOutputs
    <3>1. phase = "write" /\ vcQ' = Older(vcQ) /\ swQ' = Older(swQ)
      BY <2>3 DEF WriteOutputs
    <3>2. /\ DOMAIN vcQ' = DOMAIN vcQ
          /\ vcQ'[x].due = IF vcQ[x].due > 0 THEN vcQ[x].due - 1 ELSE vcQ[x].due
      BY <1>3, <3>1, OlderFacts
    <3>3. x \in DOMAIN swQ /\ vcQ[x].due = swQ[x].due
      BY <3>1, <3>2 DEF AInv, InStep
    <3>4. /\ DOMAIN swQ' = DOMAIN swQ
          /\ swQ'[x].due = IF swQ[x].due > 0 THEN swQ[x].due - 1 ELSE swQ[x].due
      BY <1>3, <3>1, <3>3, OlderFacts
    <3>5. QED
      BY <3>2, <3>3, <3>4
  <2>4. QED
    BY <2>1, <2>2, <2>3
<1>7. QED
  BY <1>2, <1>4, <1>5, <1>6 DEF AInv, LanesFree, GuessRight, NoAssertionFails

(* The evaluation of the VC allocator puts it ahead of the switch          *)
(* allocator for the rest of the stage.                                    *)
LEMMA VCAllocEvaluateSafe ==
  ASSUME IInv, AInv, VCAllocEvaluate
  PROVE  AInv'
<1> DEFINE Asks(M) == Overlay(vcQ, [x \in Waiting(vcQ) |-> [due |-> config.vca - 1, grant |-> AssignedTo(M, x)]])
           Lost(M, x) == /\ config.vca > 1 /\ Asks(M)[x].due = 0 /\ Asks(M)[x].grant # None
                         /\ ~IsAvailableFor(Asks(M)[x].grant)
<1>1. /\ phase = "vc_alloc" /\ phase' = "sw_alloc" /\ config' = config
      /\ UNCHANGED <<state, routes, out, swQ, failed>>
  BY DEF VCAllocEvaluate, vcVars
<1>2. PICK M \in Matchings(VCRequests) :
        vcQ' = [x \in DOMAIN Asks(M) |->
          IF Lost(M, x) THEN [Asks(M)[x] EXCEPT !.grant = None] ELSE Asks(M)[x]]
  BY DEF VCAllocEvaluate
<1>3. QueueOK(vcQ, config.vca, OutVC)
  BY DEF IInv, Typed, TypeOK
<1>4. /\ DOMAIN Asks(M) = DOMAIN vcQ
      /\ \A x \in DOMAIN vcQ : vcQ[x].due = NotYet =>
           Asks(M)[x] = [due |-> config.vca - 1, grant |-> AssignedTo(M, x)]
      /\ \A x \in DOMAIN vcQ : vcQ[x].due # NotYet => Asks(M)[x] = vcQ[x]
  BY DEF Overlay, Waiting
<1> HIDE DEF Asks
<1>5. \A x \in DOMAIN vcQ : Asks(M)[x] = [due |-> Asks(M)[x].due, grant |-> Asks(M)[x].grant]
  BY <1>3, <1>4 DEF QueueOK, Entries
<1> HIDE DEF Lost
<1>6. \A x \in DOMAIN vcQ : vcQ'[x].due = Asks(M)[x].due
  <2>1. \A x \in DOMAIN vcQ : [Asks(M)[x] EXCEPT !.grant = None].due = Asks(M)[x].due
    BY <1>5
  <2>2. QED
    BY <1>2, <1>4, <2>1
<1>7. InStep'
  <2> SUFFICES ASSUME Speculative, NEW x \in DOMAIN vcQ'
               PROVE  /\ x \in DOMAIN swQ
                      /\ vcQ'[x].due = IF swQ[x].due = NotYet THEN config.vca - 1 ELSE swQ[x].due
    BY <1>1, SameSets DEF InStep
  <2>1. x \in DOMAIN vcQ
    BY <1>2, <1>4
  <2>2. x \in DOMAIN swQ /\ vcQ[x].due = swQ[x].due
    BY <1>1, <2>1 DEF AInv, InStep
  <2>3. Asks(M)[x].due = IF vcQ[x].due = NotYet THEN config.vca - 1 ELSE vcQ[x].due
    BY <1>4, <2>1
  <2>4. QED
    BY <1>6, <2>1, <2>2, <2>3
<1>8. QED
  BY <1>1, <1>7 DEF AInv, Aimed, LanesFree, GuessRight, NoAssertionFails, Chosen

(* Nothing changes.                                                        *)
LEMMA StutterSafe ==
  ASSUME AInv, UNCHANGED vars
  PROVE  AInv'
<1>1. UNCHANGED <<config, state, routes, out, vcQ, swQ, vcMatch, holdIn, holdOut, occ, inUse, failed, phase>>
  BY DEF vars, vcVars, queues, holdVars, nextVars
<1>2. OutVC' = OutVC /\ Piggyback' = Piggyback
  BY <1>1, SameSets
<1>3. Aimed' /\ LanesFree'
  BY <1>1 DEF AInv, Aimed, LanesFree, Due, ExpandedInput
<1>4. GuessRight'
  BY <1>1, <1>2 DEF AInv, GuessRight, Due, IsAvailableFor, IsFullFor
<1>5. InStep'
  BY <1>1, SameSets DEF AInv, InStep
<1>6. QED
  BY <1>1, <1>3, <1>4, <1>5 DEF AInv, NoAssertionFails

-----------------------------------------------------------------------------
(* Every step keeps the invariant.                                         *)
LEMMA NextSafe ==
  ASSUME IInv, AInv, [Next]_vars, \A c \in Configs : SafeConfig(c)
  PROVE  AInv'
<1>1. ASSUME NEW x \in InVC, SWHoldUpdate(x) PROVE AInv'
  BY <1>1, SWHoldUpdateSafe
<1>2. ASSUME NEW x \in InVC, SWAllocUpdate(x) PROVE AInv'
  BY <1>2, SWAllocUpdateSafe
<1>3. QED
  BY <1>1, <1>2, ReadInputsSafe, VCAllocEvaluateSafe, SWAllocEvaluateSafe, RouteUpdateSafe,
     VCAllocUpdateSafe, SWHoldDoneSafe, CycleEndSafe, StutterSafe
  DEF Next

(* No assertion of the pipeline fails, with any number of ports, VCs,      *)
(* flits and cycles of delay, in any mode: provided the two allocators of  *)
(* a speculative router are equally deep, a piggybacking one has one lane  *)
(* per output, and output buffers are unlimited.                           *)
THEOREM AssertionsHold ==
  ASSUME \A c \in Configs : SafeConfig(c)
  PROVE  Spec => []NoAssertionFails
<1>1. Init => AInv
  <2> SUFFICES ASSUME Init PROVE AInv
    OBVIOUS
  <2>1. swQ = <<>> /\ vcQ = <<>> /\ phase = "read" /\ failed = ""
    BY DEF Init
  <2>2. Aimed /\ InStep
    <3>1. QueueOK(swQ, config.swa, LaneOut) /\ QueueOK(vcQ, config.vca, OutVC)
      BY InitInv DEF IInv, Typed, TypeOK
    <3>2. DOMAIN swQ = {} /\ DOMAIN vcQ = {}
      BY <2>1, <3>1, EmptyQueue
    <3>3. QED
      BY <3>2 DEF Aimed, InStep
  <2>3. phase \notin Chosen
    BY <2>1 DEF Chosen
  <2>4. QED
    BY <2>1, <2>2, <2>3 DEF AInv, LanesFree, GuessRight, NoAssertionFails
<1>2. IInv /\ AInv /\ [Next]_vars => AInv'
  BY NextSafe
<1>3. AInv => NoAssertionFails
  BY DEF AInv
<1>4. QED
  BY <1>1, <1>2, <1>3, RouterInvariant, PTL DEF Spec
=============================================================================
