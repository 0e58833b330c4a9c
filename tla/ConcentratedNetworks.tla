------------------------ MODULE ConcentratedNetworks ------------------------
(***************************************************************************)
(* The topologies with several nodes at a router: concentrated mesh,       *)
(* flattened butterfly, dragonfly, and the network read from a file.       *)
(***************************************************************************)
EXTENDS Networks, SequencesExt

-----------------------------------------------------------------------------
(* CMesh: a mesh of k x k routers with cX x cY nodes each.  An outer       *)
(* channel of an edge router that would leave the mesh is an express       *)
(* channel to another router of this edge, half the mesh away.             *)
CMeshSized(c) ==
  c.k \in Nat \ {0} /\ c.n \in 1 .. 2 /\ c.conc = 4 /\ c.nodes = c.conc * powi(c.k, c.n)
CX(c) == c.conc \div c.n
CY(c) == c.conc \div CX(c)
CMeshRouters(c) == KNCubeRouters(c)

(* The nodes of the router at column x and row y, in the order of the      *)
(* ports; the first two dimensions of a flattened butterfly are laid out   *)
(* in the same way.                                                        *)
ClientNode(k, cx, cy, x, y, p) == (k * cx) * (cy * y + p \div cx) + cx * x + (p % cx)

PositiveX == 0
NegativeX == 1
PositiveY == 2
NegativeY == 3
Opposite(dir) == IF dir % 2 = 0 THEN dir + 1 ELSE dir - 1

(* The router half the mesh away along an edge. *)
Across(c, v) == IF v < c.k \div 2 THEN v + c.k \div 2 ELSE v - c.k \div 2
AtEdge(c, x, y, dir) ==
  \/ dir = PositiveX /\ x = c.k - 1
  \/ dir = NegativeX /\ x = 0
  \/ dir = PositiveY /\ y = c.k - 1
  \/ dir = NegativeY /\ y = 0
Neighbour(c, x, y, dir) ==
  IF AtEdge(c, x, y, dir)
  THEN IF dir \in {PositiveX, NegativeX} THEN c.k * Across(c, y) + x ELSE c.k * y + Across(c, x)
  ELSE CASE dir = PositiveX -> c.k * y + x + 1
         [] dir = NegativeX -> c.k * y + x - 1
         [] dir = PositiveY -> c.k * (y + 1) + x
         [] dir = NegativeY -> c.k * (y - 1) + x

CMeshChannel(c, router, dir) == Chan(router + dir * powi(c.k, c.n))
CMeshOutputs(c, r) == [p \in Below(c.conc + 2 * c.n) |->
  IF p < c.conc THEN NodeLink(ClientNode(c.k, CX(c), CY(c), r % c.k, r \div c.k, p))
                ELSE CMeshChannel(c, r, p - c.conc)]
(* An express channel enters at the side from which it left.               *)
CMeshInputs(c, r) ==
  LET x == r % c.k
      y == r \div c.k
  IN  [p \in Below(c.conc + 2 * c.n) |->
         LET dir == p - c.conc
         IN  IF p < c.conc THEN NodeLink(ClientNode(c.k, CX(c), CY(c), x, y, p))
             ELSE CMeshChannel(c, Neighbour(c, x, y, dir),
                               IF AtEdge(c, x, y, dir) THEN dir ELSE Opposite(dir))]

NodeToRouter(c, address) ==
  LET y == (address \div (CX(c) * c.k)) \div CY(c)
      x == (address % (CX(c) * c.k)) \div CY(c)
  IN  y * c.k + x
NodeToPort(c, address) ==
  (c.conc \div 2) * ((address \div (2 * c.k)) % CY(c)) + (address % CX(c))

-----------------------------------------------------------------------------
(* FlatFlyOnChip: in every dimension a router has a channel to each of the *)
(* k - 1 others; conc = xr * xr nodes at a router.                         *)
FlatFlyRouters(c) == KNCubeRouters(c)
FlatFlyClients(c, r) == [p \in Below(c.conc) |->
  NodeLink(ClientNode(c.k, c.xr, c.xr, r % c.k, r \div c.k, p))]
FlatFlyChannel(c, node, dim, other) ==
  (c.k - 1) * c.n * node + (c.k - 1) * dim + other - (IF Digit(node, c.k, dim) < other THEN 1 ELSE 0)

FlatFlyOutputs(c, r) == [p \in Below(c.conc + (c.k - 1) * c.n) |->
  IF p < c.conc THEN FlatFlyClients(c, r)[p] ELSE Chan((c.k - 1) * c.n * r + p - c.conc)]

(* The channels from the other routers, which are connected in the order   *)
(* of these, and in each of them of the dimensions.                        *)
FlatFlySources(c, r) == {s \in FlatFlyRouters(c) : s # r /\ \E dim \in Below(c.n) :
                           r = WithDigit(s, c.k, dim, Digit(r, c.k, dim))}
FlatFlyLink(c, s, r) ==
  LET dim == CHOOSE d \in Below(c.n) : Digit(s, c.k, d) # Digit(r, c.k, d)
  IN  FlatFlyChannel(c, s, dim, Digit(r, c.k, dim))
FlatFlyInputs(c, r) == [p \in Below(c.conc + (c.k - 1) * c.n) |->
  IF p < c.conc THEN FlatFlyClients(c, r)[p]
  ELSE LET s == CHOOSE s \in FlatFlySources(c, r) :
                  Cardinality({t \in FlatFlySources(c, r) : t < s}) = p - c.conc
       IN  Chan(FlatFlyLink(c, s, r))]

-----------------------------------------------------------------------------
(* DragonFlyNew: p = k nodes and p global channels at a router, groups of  *)
(* a = 2p routers which are fully connected, g = a * p + 1 groups with one *)
(* global channel between any two.                                         *)
GroupRouters(c) == 2 * c.k
Groups(c) == GroupRouters(c) * c.k + 1
DragonFlySized(c) == c.k \in Nat \ {0} /\ c.nodes = GroupRouters(c) * c.k * Groups(c)
DragonFlyRouters(c) == Below(GroupRouters(c) * Groups(c))
PortsPerSwitch(c) == 3 * c.k - 1

DragonFlyOutputs(c, r) == [p \in Below(c.k + PortsPerSwitch(c)) |->
  IF p < c.k THEN NodeLink(c.k * r + p) ELSE Chan(PortsPerSwitch(c) * r + p - c.k)]

LocalInput(c, r, cnt) ==
  LET dim == r % GroupRouters(c)
      base == (r \div GroupRouters(c)) * PortsPerSwitch(c) * GroupRouters(c)
  IN  IF cnt < dim THEN base + cnt * PortsPerSwitch(c) + dim - 1
                   ELSE base + (cnt + 1) * PortsPerSwitch(c) + dim
GlobalInput(c, r, cnt) ==
  LET group == r \div GroupRouters(c)
      output == (r % GroupRouters(c)) * c.k + cnt
      inGroup(d) == (PortsPerSwitch(c) - c.k) * (d \div c.k) + PortsPerSwitch(c) - c.k + d
  IN  IF group > output THEN output * PortsPerSwitch(c) * GroupRouters(c) + inGroup(group - 1)
                        ELSE (output + 1) * PortsPerSwitch(c) * GroupRouters(c) + inGroup(group)
DragonFlyInputs(c, r) == [p \in Below(c.k + PortsPerSwitch(c)) |->
  IF p < c.k THEN NodeLink(c.k * r + p)
  ELSE IF p < 3 * c.k - 1 THEN Chan(LocalInput(c, r, p - c.k))
  ELSE Chan(GlobalInput(c, r, p - (3 * c.k - 1)))]

-----------------------------------------------------------------------------
(* AnyNet: c.attached gives the router of each node, c.links the lines of  *)
(* the file that connect routers, <<router, router, weight>>.  A link has  *)
(* a channel in each direction; the weight is that of the direction the    *)
(* line names, the other has 1 unless a line names it.                     *)
AnyNetRouters(c) == {c.attached[i] : i \in DOMAIN c.attached} \cup {l[1] : l \in Range(c.links)}
                      \cup {l[2] : l \in Range(c.links)}
ReadLine(weights, l) ==
  (<<l[1], l[2]>> :> l[3]) @@ weights @@ (<<l[2], l[1]>> :> 1)
Weights(c) == FoldLeft(ReadLine, <<>>, c.links)

Attached(c, r) == {i \in DOMAIN c.attached : c.attached[i] = r}
Nth(S, i) == CHOOSE x \in S : Cardinality({y \in S : y < x}) = i
Successors(weights, r) == {e[2] : e \in {f \in DOMAIN weights : f[1] = r}}
Predecessors(weights, r) == {e[1] : e \in {f \in DOMAIN weights : f[2] = r}}
Before(e, f) == e[1] < f[1] \/ (e[1] = f[1] /\ e[2] < f[2])
ChannelCount(weights, e) == Chan(Cardinality({f \in DOMAIN weights : Before(f, e)}))

AnyNetOutputs(c, r) ==
  LET nodes == Attached(c, r)
      next == Successors(Weights(c), r)
  IN  [p \in Below(Cardinality(nodes) + Cardinality(next)) |->
         IF p < Cardinality(nodes) THEN NodeLink(Nth(nodes, p))
         ELSE ChannelCount(Weights(c), <<r, Nth(next, p - Cardinality(nodes))>>)]
AnyNetInputs(c, r) ==
  LET nodes == Attached(c, r)
      prior == Predecessors(Weights(c), r)
  IN  [p \in Below(Cardinality(nodes) + Cardinality(prior)) |->
         IF p < Cardinality(nodes) THEN NodeLink(Nth(nodes, p))
         ELSE ChannelCount(Weights(c), <<Nth(prior, p - Cardinality(nodes)), r>>)]

(* AnyNet::route: Dijkstra's algorithm from router s.  first is the router *)
(* after s on the path that prev leads back, none for s itself.            *)
Unreached == 1000000
Closest(d, left) == CHOOSE r \in left : /\ \A q \in left : d.dist[r] <= d.dist[q]
                                       /\ \A q \in left : d.dist[r] = d.dist[q] => r <= q
Relax(weights, d, m) ==
  LET shorter(r) == <<m, r>> \in DOMAIN weights /\ d.dist[m] + weights[m, r] < d.dist[r]
  IN  [dist |-> [r \in DOMAIN d.dist |-> IF shorter(r) THEN d.dist[m] + weights[m, r] ELSE d.dist[r]],
       prev |-> [r \in DOMAIN d.prev |-> IF shorter(r) THEN m ELSE d.prev[r]]]
ShortestPaths(c, s) ==
  LET R == AnyNetRouters(c)
      w == Weights(c)
      after[i \in 0 .. Cardinality(R)] ==
        IF i = 0 THEN [d |-> [dist |-> [r \in R |-> IF r = s THEN 0 ELSE Unreached],
                              prev |-> [r \in R |-> -1]], left |-> R]
        ELSE LET t == after[i - 1]
                 m == Closest(t.d, t.left)
             IN  [d |-> Relax(w, t.d, m), left |-> t.left \ {m}]
  IN  after[Cardinality(R)].d.prev
FirstOf(prev, s, r) ==
  LET first[q \in DOMAIN prev] == IF prev[q] = s THEN q ELSE first[prev[q]] IN first[r]
FirstHop(c, s, r) == FirstOf(ShortestPaths(c, s), s, r)

(* routing_table[s][node], the output port. *)
RoutingTable(c, s, node) ==
  LET link == IF c.attached[node] = s THEN NodeLink(node)
              ELSE ChannelCount(Weights(c), <<s, FirstHop(c, s, c.attached[node])>>)
      ports == AnyNetOutputs(c, s)
  IN  CHOOSE p \in DOMAIN ports : ports[p] = link
=============================================================================
