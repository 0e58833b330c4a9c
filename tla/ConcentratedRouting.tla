-------------------------- MODULE ConcentratedRouting --------------------------
(***************************************************************************)
(* The routing functions that the networks with several nodes at a router  *)
(* bring along: cmesh.cpp, flatfly_onchip.cpp, dragonfly.cpp, anynet.cpp.  *)
(* Where a function compares the loads of two ports, it may take either.   *)
(***************************************************************************)
EXTENDS RoutingFunctions, ConcentratedNetworks

-----------------------------------------------------------------------------
(* CMesh.  A flit that has more than `reach' routers to go along an edge   *)
(* takes the express channel there.                                        *)
Near == 1
HalfMesh(c) == c.k \div 2 - 1
NoExpress(c) == c.k
CMeshStep(c, cur, dest, x_then_y, reach) ==
  LET x1 == cur % c.k       x2 == dest % c.k
      y1 == cur \div c.k    y2 == dest \div c.k
      alongX == IF Distance(x1, x2) > reach /\ y1 = 0 THEN NegativeY
                ELSE IF Distance(x1, x2) > reach /\ y1 = c.k - 1 THEN PositiveY
                ELSE IF x1 < x2 THEN PositiveX ELSE NegativeX
      alongY == IF Distance(y1, y2) > reach /\ x1 = 0 THEN NegativeX
                ELSE IF Distance(y1, y2) > reach /\ x1 = c.k - 1 THEN PositiveX
                ELSE IF y1 < y2 THEN PositiveY ELSE NegativeY
  IN  c.conc + (IF (x_then_y /\ x1 # x2) \/ y1 = y2 THEN alongX ELSE alongY)

(* A packet that enters the network draws its order, its VC tells it later. *)
FromClient(c, s) == s.in < c.conc
Orders(c, s) == IF FromClient(c, s) THEN BOOLEAN ELSE {s.vc < c.first + VCCount(c) \div 2}

CMeshHome(c, s) == NodeToRouter(c, s.dest) = s.at
CMeshXYYX(c, s, reach) ==
  IF CMeshHome(c, s) THEN {Out(s, NodeToPort(c, s.dest), VCs(c))}
  ELSE Asserted({Out(s, CMeshStep(c, s.at, NodeToRouter(c, s.dest), x_then_y, reach),
                     Half(c, x_then_y)) : x_then_y \in Orders(c, s)})
CMeshDor(c, s, reach) ==
  {Out(s, IF CMeshHome(c, s) THEN NodeToPort(c, s.dest)
          ELSE CMeshStep(c, s.at, NodeToRouter(c, s.dest), TRUE, reach), VCs(c))}

xy_yx_cmesh(c, s) == CMeshXYYX(c, s, Near)
xy_yx_no_express_cmesh(c, s) == CMeshXYYX(c, s, NoExpress(c))
dor_cmesh(c, s) == CMeshDor(c, s, HalfMesh(c))
dor_no_express_cmesh(c, s) == CMeshDor(c, s, NoExpress(c))

-----------------------------------------------------------------------------
(* FlatFlyOnChip.  Nodes are laid out in the plane; flatfly_transformation *)
(* numbers them router by router.                                          *)
flatfly_transformation(c, dest) ==
  LET x == dest % (c.k * c.xr)
      y == dest \div (c.k * c.xr)
  IN  ((y \div c.xr) * c.k + x \div c.xr) * c.conc + c.xr * (y % c.xr) + (x % c.xr)
HomeAt(c, id, r) == id \div c.conc = r

(* The port toward node id in the first, or last, dimension that differs. *)
flatfly_outport(c, id, r, x_then_y) ==
  LET dest == id \div c.conc
      left == Unmatched(c, r, dest)
      d == IF x_then_y THEN Min(left) ELSE Max(left)
      there == Digit(dest, c.k, d)
  IN  IF dest = r THEN id % c.conc
      ELSE c.conc + (c.k - 1) * d - 1 + there + (IF there > Digit(r, c.k, d) THEN 0 ELSE 1)

FlatFlyDest(c, s) == flatfly_transformation(c, s.dest)
min_flatfly(c, s) == {Out(s, flatfly_outport(c, FlatFlyDest(c, s), s.at, TRUE), VCs(c))}

(* xyyx_flatfly by chance, adaptive_xyyx_flatfly by the load. *)
xyyx_flatfly(c, s) ==
  LET dest == FlatFlyDest(c, s)
  IN  IF HomeAt(c, dest, s.at) THEN {Out(s, dest % c.conc, VCs(c))}
      ELSE Asserted({Out(s, flatfly_outport(c, dest, s.at, x_then_y), Half(c, x_then_y)) :
                       x_then_y \in Orders(c, s)})

adaptive_xyyx_flatfly(c, s) == xyyx_flatfly(c, s)

valiant_flatfly(c, s) ==
  LET dest == FlatFlyDest(c, s)
      begun == IF FromClient(c, s)
               THEN {[s EXCEPT !.ph = 0, !.intm = i] : i \in Below(powi(c.k, c.n) * c.conc)} ELSE {s}
      there(t) == HomeAt(c, flatfly_transformation(c, t.intm), s.at) \/ HomeAt(c, dest, s.at)
      phased == {[t EXCEPT !.ph = IF there(t) THEN 1 ELSE t.ph] : t \in begun}
      goal(t) == IF t.ph = 0 THEN flatfly_transformation(c, t.intm) ELSE dest
  IN  Asserted({Out(t, flatfly_outport(c, goal(t), s.at, TRUE),
                    IF HomeAt(c, dest, s.at) THEN VCs(c) ELSE Half(c, t.ph = 0)) : t \in phased})

(* UGAL: phase 0 decides between the minimal route, phase 2, and a random  *)
(* intermediate node, phase 1.  What the two queues hold is not known.     *)
find_ran_intm(c, src, dest) ==
  {r * c.conc + p : r \in {q \in FlatFlyRouters(c) : \A d \in Below(c.n) :
                             Digit(src, c.k, d) = Digit(dest, c.k, d) =>
                               Digit(q, c.k, d) = Digit(src, c.k, d)},
                    p \in Below(c.conc)}
Decided(c, s) ==
  LET t == IF FromClient(c, s) THEN [s EXCEPT !.ph = 0] ELSE s
      dest == FlatFlyDest(c, s)
  IN  IF t.ph = 1 THEN {[t EXCEPT !.ph = IF HomeAt(c, t.intm, s.at) THEN 2 ELSE 1]}
      ELSE IF t.ph = 2 \/ HomeAt(c, dest, s.at) THEN {t}
      ELSE {[t EXCEPT !.ph = 2]}
             \cup {[t EXCEPT !.ph = IF HomeAt(c, i, s.at) THEN 2 ELSE 1, !.intm = i] :
                     i \in find_ran_intm(c, s.at, dest \div c.conc)}
UgalGoal(c, t) == IF t.ph = 1 THEN t.intm ELSE FlatFlyDest(c, t)

ugal_flatfly_onchip(c, s) ==
  LET port(t) == flatfly_outport(c, UgalGoal(c, t), s.at, TRUE)
  IN  Asserted({Out(t, port(t), IF port(t) < c.conc THEN VCs(c) ELSE Half(c, t.ph = 1)) :
                  t \in Decided(c, s)})

(* As UGAL, in either order of the dimensions: quarters of the VCs. *)
Quarter(c, x_then_y, first) ==
  LET n == VCCount(c) \div 2
  IN  IF n < 2 THEN {} ELSE VCs(Narrowed(Narrowed(c, n, x_then_y), n \div 2, first))
ugal_xyyx_flatfly_onchip(c, s) ==
  LET port(t, x_then_y) == flatfly_outport(c, UgalGoal(c, t), s.at, x_then_y)
  IN  Asserted({Out(t, port(t, x_then_y), IF port(t, x_then_y) < c.conc THEN VCs(c)
                                          ELSE Quarter(c, x_then_y, t.ph = 1)) :
                  t \in Decided(c, s), x_then_y \in Orders(c, s)})

(* As UGAL, within the half of the VCs a block for the coordinate in the   *)
(* dimension after the one to traverse; the ports of a router are the last. *)
ugal_pni_flatfly_onchip(c, s) ==
  LET dest == FlatFlyDest(c, s)
      port(t) == flatfly_outport(c, UgalGoal(c, t), s.at, TRUE)
      next(t) == (port(t) - c.conc) \div (c.k - 1) + 1
      coord(t) == IF next(t) = c.n THEN dest % c.conc ELSE Digit(dest \div c.conc, c.k, next(t))
      half(t) == Narrowed(c, VCCount(c) \div 2, t.ph = 1)
  IN  Asserted({Out(t, port(t), IF port(t) < c.conc THEN VCs(c)
                                ELSE IF VCCount(c) < 2 \/ c.k # c.conc THEN {}
                                ELSE Block(half(t), coord(t), c.k)) : t \in Decided(c, s)})
PniInjected(c, dest) ==
  Block(c, (flatfly_transformation(c, dest) \div c.conc) % c.k, c.k)

-----------------------------------------------------------------------------
(* DragonFlyNew.  A local hop before the global channel, the global        *)
(* channel and a local hop after it.                                       *)
GroupNodes(c) == GroupRouters(c) * c.k
dragonfly_port(c, r, dest) ==
  LET group == r \div GroupRouters(c)
      dest_group == dest \div GroupNodes(c)
      output == IF group > dest_group THEN dest_group ELSE dest_group - 1
      toward == IF dest_group = group THEN dest \div c.k
                ELSE output \div c.k + group * GroupRouters(c)
  IN  IF dest \div c.k = r THEN dest % c.k
      ELSE IF toward = r THEN c.k + GroupRouters(c) - 1 + (output % c.k)
      ELSE (toward % GroupRouters(c)) + c.k - (IF r < toward THEN 1 ELSE 0)
Global(c, port) == port >= c.k + GroupRouters(c) - 1

(* The VC is the phase; 1 after the global channel. *)
min_dragonflynew(c, s) ==
  LET port == dragonfly_port(c, s.at, s.dest)
      ph == IF Global(c, port) THEN 1 ELSE IF s.in < c.k THEN 0 ELSE s.ph
  IN  {Out([s EXCEPT !.ph = ph], port, {ph})}

(* Phase 0 to a random node, 1 to the destination, 2 from the last global  *)
(* channel on or within the group.                                         *)
ugal_dragonflynew(c, s) ==
  LET group(node) == node \div GroupNodes(c)
      here == s.at \div GroupRouters(c)
      begun == IF s.in >= c.k THEN {s}
               ELSE IF group(s.dest) = here THEN {[s EXCEPT !.ph = 2]}
               ELSE {[s EXCEPT !.ph = 1, !.intm = i] : i \in Below(GroupNodes(c) * Groups(c))}
                      \cup {[s EXCEPT !.ph = 0, !.intm = i] :
                              i \in {j \in Below(GroupNodes(c) * Groups(c)) : group(j) # here}}
      phased == {[t EXCEPT !.ph = IF t.ph = 0 /\ t.intm \div c.k = s.at THEN 1 ELSE t.ph] : t \in begun}
      port(t) == dragonfly_port(c, s.at, IF t.ph = 0 THEN t.intm ELSE s.dest)
      final == {[t EXCEPT !.ph = IF t.ph = 1 /\ Global(c, port(t)) THEN 2 ELSE t.ph] : t \in phased}
  IN  IF c.last # 2 THEN {} ELSE {Out(t, port(t), {t.ph}) : t \in final}

-----------------------------------------------------------------------------
(* AnyNet: the table that buildRoutingTable has filled, a set of triples   *)
(* of a router, a node and an output port.                                 *)
min_anynet(c, s, table) ==
  {Out(s, e[3], VCs(c)) : e \in {f \in table : f[1] = s.at /\ f[2] = s.dest}}
=============================================================================
