-------------------------------- MODULE Routing --------------------------------
(***************************************************************************)
(* A head flit on its way through a network: it enters at the router of a  *)
(* node, on a VC the routing function allows there, and at every router it *)
(* is sent by one of the pairs of an output port and a VC that the         *)
(* function returns.  What the routers do to it on the way (Router.tla) is *)
(* one step here.                                                          *)
(*                                                                         *)
(* Configs is a set of configurations, records of options: network,        *)
(* routing and traffic, the names of the functions; k, n, conc, xr, nodes; *)
(* first and last, the VCs of the flit's traffic class, and vcs, their     *)
(* number in a router; faults, attached, links, places as in the other     *)
(* modules; and waits, how a flit waits for a VC:                          *)
(*   "one"   a flit that is granted a VC waits for a buffer of this VC,    *)
(*   "all"   no VC is granted as long as it has flits                      *)
(*           (wait_for_tail_credit): a flit waits for all that are named,  *)
(*   "none"  the function does not claim to be free of deadlock.           *)
(***************************************************************************)
EXTENDS ConcentratedRouting, Traffic

CONSTANT Configs

VARIABLES config,   \* the options of this run
          flit,     \* the head flit: at, in, vc, dest, ph, intm
          ejected   \* the node it has been ejected to, or None
vars == <<config, flit, ejected>>

None == -1

(* The sizes the constructors of the patterns and of the networks set.     *)
NetworkSized(c) ==
  /\ c.network \in {"mesh", "torus"} => CubeSized(c)
  /\ c.network \in {"fly", "fattree"} => LevelSized(c)
  /\ c.network \in {"qtree", "tree4"} => TreeSized(c)
  /\ c.network = "cmesh" => CMeshSized(c)
  /\ c.network = "dragonfly" => DragonFlySized(c)
ASSUME SizesFit == \A c \in Configs : Sized(c) /\ NetworkSized(c)

-----------------------------------------------------------------------------
Routers(c) ==
  CASE c.network \in {"mesh", "torus"} -> KNCubeRouters(c)
    [] c.network = "fly"       -> FlyRouters(c)
    [] c.network = "qtree"     -> QTreeRouters(c)
    [] c.network = "tree4"     -> Tree4Routers(c)
    [] c.network = "fattree"   -> FatTreeRouters(c)
    [] c.network = "cmesh"     -> CMeshRouters(c)
    [] c.network = "flatfly"   -> FlatFlyRouters(c)
    [] c.network = "dragonfly" -> DragonFlyRouters(c)
    [] c.network = "anynet"    -> AnyNetRouters(c)
Outputs(c, r) ==
  CASE c.network \in {"mesh", "torus"} -> KNCubeOutputs(c, r)
    [] c.network = "fly"       -> FlyOutputs(c, r)
    [] c.network = "qtree"     -> QTreeOutputs(c, r)
    [] c.network = "tree4"     -> Tree4Outputs(c, r)
    [] c.network = "fattree"   -> FatTreeOutputs(c, r)
    [] c.network = "cmesh"     -> CMeshOutputs(c, r)
    [] c.network = "flatfly"   -> FlatFlyOutputs(c, r)
    [] c.network = "dragonfly" -> DragonFlyOutputs(c, r)
    [] c.network = "anynet"    -> AnyNetOutputs(c, r)
Inputs(c, r) ==
  CASE c.network \in {"mesh", "torus"} -> KNCubeInputs(c, r)
    [] c.network = "fly"       -> FlyInputs(c, r)
    [] c.network = "qtree"     -> QTreeInputs(c, r)
    [] c.network = "tree4"     -> Tree4Inputs(c, r)
    [] c.network = "fattree"   -> FatTreeInputs(c, r)
    [] c.network = "cmesh"     -> CMeshInputs(c, r)
    [] c.network = "flatfly"   -> FlatFlyInputs(c, r)
    [] c.network = "dragonfly" -> DragonFlyInputs(c, r)
    [] c.network = "anynet"    -> AnyNetInputs(c, r)

(* The networks as they are built: out, the channel of each output port;   *)
(* sinks, the input ports at the end of each channel; table, the routing   *)
(* tables of an anynet.                                                    *)
Sinks(ends) == [link \in {e[1] : e \in ends} |->
                  {[at |-> e[2], in |-> e[3]] : e \in {f \in ends : f[1] = link}}]
Joined(c, out, in) ==
  [out   |-> out,
   inp   |-> in,
   sinks |-> Sinks(UNION {{<<in[r][p], r, p>> : p \in DOMAIN in[r]} : r \in DOMAIN in}),
   table |-> IF c.network = "anynet"
             THEN {<<r, i, RoutingTable(c, r, i)>> : r \in DOMAIN out, i \in Nodes(c)} ELSE {}]
Built == [c \in Configs |->
  Joined(c, [r \in Routers(c) |-> Outputs(c, r)], [r \in Routers(c) |-> Inputs(c, r)])]

-----------------------------------------------------------------------------
Function(c, s) ==
  CASE c.routing = "nca_qtree"         -> qtree_nca(c, s)
    [] c.routing = "nca_tree4"         -> tree4_nca(c, s)
    [] c.routing = "anca_tree4"        -> tree4_anca(c, s)
    [] c.routing = "nca_fattree"       -> fattree_nca(c, s)
    [] c.routing = "anca_fattree"      -> fattree_anca(c, s)
    [] c.routing = "dest_tag_fly"      -> dest_tag_fly(c, s)
    [] c.routing \in {"dor_mesh", "dim_order_mesh"} -> dim_order_mesh(c, s)
    [] c.routing = "xy_yx_mesh"        -> xy_yx_mesh(c, s)
    [] c.routing = "adaptive_xy_yx_mesh" -> adaptive_xy_yx_mesh(c, s)
    [] c.routing = "dim_order_ni_mesh" -> dim_order_ni_mesh(c, s)
    [] c.routing = "dim_order_pni_mesh" -> dim_order_pni_mesh(c, s)
    [] c.routing = "romm_mesh"         -> romm_mesh(c, s)
    [] c.routing = "romm_ni_mesh"      -> romm_ni_mesh(c, s)
    [] c.routing = "valiant_mesh"      -> valiant_mesh(c, s)
    [] c.routing = "directed_valiant_mesh" -> directed_valiant_mesh(c, s)
    [] c.routing = "four_sided_mesh"   -> four_sided_mesh(c, s)
    [] c.routing = "diamond_mesh"      -> diamond_mesh(c, s)
    [] c.routing = "min_adapt_mesh"    -> min_adapt_mesh(c, s)
    [] c.routing = "planar_adapt_mesh" -> planar_adapt_mesh(c, s)
    [] c.routing = "chaos_mesh"        -> chaos_mesh(c, s)
    [] c.routing = "dim_order_torus"   -> dim_order_torus(c, s)
    [] c.routing = "dim_order_bal_torus" -> dim_order_bal_torus(c, s)
    [] c.routing = "dim_order_ni_torus" -> dim_order_ni_torus(c, s)
    [] c.routing = "min_adapt_torus"   -> min_adapt_torus(c, s)
    [] c.routing = "chaos_torus"       -> chaos_torus(c, s)
    [] c.routing = "xy_yx_cmesh"       -> xy_yx_cmesh(c, s)
    [] c.routing = "xy_yx_no_express_cmesh" -> xy_yx_no_express_cmesh(c, s)
    [] c.routing = "dor_cmesh"         -> dor_cmesh(c, s)
    [] c.routing = "dor_no_express_cmesh" -> dor_no_express_cmesh(c, s)
    [] c.routing = "xyyx_flatfly"      -> xyyx_flatfly(c, s)
    [] c.routing = "adaptive_xyyx_flatfly" -> adaptive_xyyx_flatfly(c, s)
    [] c.routing = "ran_min_flatfly"   -> min_flatfly(c, s)
    [] c.routing = "valiant_flatfly"   -> valiant_flatfly(c, s)
    [] c.routing = "ugal_flatfly"      -> ugal_flatfly_onchip(c, s)
    [] c.routing = "ugal_xyyx_flatfly" -> ugal_xyyx_flatfly_onchip(c, s)
    [] c.routing = "ugal_pni_flatfly"  -> ugal_pni_flatfly_onchip(c, s)
    [] c.routing = "min_dragonflynew"  -> min_dragonflynew(c, s)
    [] c.routing = "ugal_dragonflynew" -> ugal_dragonflynew(c, s)
    [] c.routing = "min_anynet"        -> min_anynet(c, s, Built[c].table)

(* A flit on a VC of another class fails the assertion every one begins with. *)
Route(c, s) == IF s.vc \in VCs(c) THEN Function(c, s) ELSE {}

(* The VCs a packet may be injected on: those of the class, or the block   *)
(* of its destination.                                                     *)
InjectionVCs(c, dest) ==
  CASE c.routing \in {"dim_order_ni_mesh", "romm_ni_mesh"} -> Block(c, dest, c.nodes)
    [] c.routing = "dim_order_pni_mesh" -> Block(c, dest % c.k, c.k)
    [] c.routing = "ugal_pni_flatfly"   -> PniInjected(c, dest)
    [] c.routing \in {"chaos_mesh", "chaos_torus"} -> {0}
    [] OTHER -> VCs(c)

-----------------------------------------------------------------------------
Enters(c, src) ==
  {[at |-> e.at, in |-> e.in, vc |-> x[1], dest |-> x[2], ph |-> -1, intm |-> -1] :
     e \in Built[c].sinks[NodeLink(src)],
     x \in UNION {InjectionVCs(c, d) \X {d} : d \in Destinations(c, src)}}

(* The flit behind the channel, for a result and one of its pairs; the     *)
(* channel to a node ejects it.                                            *)
LinkOf(c, s, port) == Built[c].out[s.at][port]
Ejects(link) == link[1] = "node"
Moved(s, result, place, vc) ==
  [s EXCEPT !.at = place.at, !.in = place.in, !.vc = vc, !.ph = result.ph, !.intm = result.intm]

Init == /\ config \in Configs
        /\ flit \in UNION {Enters(config, src) : src \in Nodes(config)}
        /\ ejected = None

Hop(result, out, link) ==
  /\ ~Ejects(link)
  /\ \E place \in Built[config].sinks[link] : flit' = Moved(flit, result, place, out[2])
  /\ UNCHANGED <<config, ejected>>
Leave(link) ==
  /\ Ejects(link)
  /\ ejected' = link[2]
  /\ UNCHANGED <<config, flit>>

Next == ejected = None /\ \E result \in Route(config, flit) : \E out \in result.outs :
          LET link == LinkOf(config, flit, out[1]) IN Hop(result, out, link) \/ Leave(link)
Spec == Init /\ [][Next]_vars /\ WF_vars(Next)

-----------------------------------------------------------------------------
(* The flit is where the network has a router and a port for it. *)
TypeOK ==
  /\ config \in Configs
  /\ flit \in [at : Routers(config), in : DOMAIN Built[config].out[flit.at], vc : Below(config.vcs),
               dest : Nodes(config), ph : -1 .. 2, intm : -1 .. config.nodes - 1]
  /\ ejected \in Nodes(config) \cup {None}

(* Every channel leaves one output port and enters one input port, and     *)
(* every node has a channel of each kind: AddOutputChannel and             *)
(* AddInputChannel are called in loops that compute the channel's number   *)
(* twice, at its two ends, with arithmetic of every network's own.         *)
WellJoined(net, starts) ==
  /\ Cardinality({e[1] : e \in starts}) = Cardinality(starts)
  /\ {e[1] : e \in starts} = DOMAIN net.sinks
  /\ \A link \in DOMAIN net.sinks : Cardinality(net.sinks[link]) = 1
Starts(out) == UNION {{<<out[r][p], r, p>> : p \in DOMAIN out[r]} : r \in DOMAIN out}
WellWired == [c \in Configs |-> /\ WellJoined(Built[c], Starts(Built[c].out))
                                /\ {NodeLink(i) : i \in Nodes(c)} \subseteq DOMAIN Built[c].sinks]
Wired == WellWired[config]

(* A permutation pattern gives every node the packets of exactly one       *)
(* source (the bit and digit arithmetic of traffic.cpp).                   *)
Bijective == [c \in Configs |-> c.traffic \in PermutationPatterns =>
  /\ \A src \in Nodes(c) : Cardinality(Destinations(c, src)) = 1
  /\ UNION {Destinations(c, src) : src \in Nodes(c)} = Nodes(c)]
PermutationTraffic == Bijective[config]

(* No assertion of a routing function fails at a router the flit gets to,  *)
(* and what it returns are ports of this router and VCs of the flit's      *)
(* class, so that the next function's assertion holds too.                 *)
Routed(results, ports) ==
  results # {} /\ \A result \in results :
    result.outs # {} /\ result.outs \subseteq ports \X VCs(config)
AlwaysRouted ==
  ejected = None => Routed(Route(config, flit), DOMAIN Built[config].out[flit.at])

(* A flit is ejected in the end, at its destination and nowhere else,      *)
(* whatever the random choices, the loads and the detours (the assertion   *)
(* of _RetireFlit that f->dest is dest).                                   *)
Arrives == <>(ejected = flit.dest)

-----------------------------------------------------------------------------
(* The flits there may ever be, found hop by hop from where they enter; no *)
(* flit makes as many as MaxHops.                                          *)
Onward(c, s, links) ==
  UNION {UNION {{Moved(s, result, place, out[2]) : place \in Built[c].sinks[links[out[1]]]} :
                out \in {o \in result.outs : ~Ejects(links[o[1]])}} :
         result \in Route(c, s)}
MaxHops == 40
Further(found, next) == [seen |-> found.seen \cup next, last |-> next \ found.seen]
Extended(c, found) ==
  Further(found, UNION {Onward(c, s, Built[c].out[s.at]) : s \in found.last})
Reachable(c) ==
  LET found[i \in 0 .. MaxHops] ==
        IF i = 0 THEN Further([seen |-> {}], UNION {Enters(c, src) : src \in Nodes(c)})
        ELSE Extended(c, found[i - 1])
  IN  found[MaxHops].seen

(* The channel and VC the flit is in, and those a result lets it go to.    *)
Held(c, s) == <<Built[c].inp[s.at][s.in], s.vc>>
Wanted(result, links) == {<<links[out[1]], out[2]>> : out \in result.outs}
Waits(c) ==
  UNION {{[held |-> Held(c, s), wanted |-> Wanted(result, Built[c].out[s.at])] : result \in Route(c, s)} :
         s \in Reachable(c)}

(* The largest set of VCs of channels in each of which a flit may wait for *)
(* VCs of this set.  The channels from and to the nodes are not in it.     *)
Blocked(c, waits) ==
  LET waiting(w, D) == IF c.waits = "one" THEN w.wanted \cap D # {} ELSE w.wanted \subseteq D
      held == {w.held : w \in {v \in waits : ~Ejects(v.held[1])}}
      shrunk[D \in SUBSET held] ==
        LET E == {w.held : w \in {v \in waits : v.held \in D /\ waiting(v, D)}}
        IN  IF E = D THEN D ELSE shrunk[E]
  IN  shrunk[held]
DeadlockedVCs == [c \in Configs |-> IF c.waits = "none" THEN {} ELSE Blocked(c, Waits(c))]

(* No flit is ever in a VC of a set whose flits wait for VCs of the set    *)
(* only: full buffers there would never move again.  This is what the      *)
(* halves, blocks, datelines and escape VCs of the routing functions are   *)
(* for.                                                                    *)
NoCyclicWait == Held(config, flit) \notin DeadlockedVCs[config]
=============================================================================
