------------------------------ MODULE Networks ------------------------------
(***************************************************************************)
(* The topologies of networks/: which channel hangs on which port of which *)
(* router.  A channel is <<"chan", i>>, the injection or ejection channel  *)
(* of a node is <<"node", i>>.  The ports of a router are numbered from 0  *)
(* in the order of the calls of AddInputChannel and AddOutputChannel;      *)
(* XOutputs(c, r) and XInputs(c, r) give the channel of each port of the   *)
(* router with identifier r.  c is the record of the options: k, n, and    *)
(* conc, the routers of a node's group where a network has such groups.    *)
(***************************************************************************)
EXTENDS Integers, Sequences, FiniteSetsExt, Functions

Chan(i) == <<"chan", i>>
NodeLink(i) == <<"node", i>>
Below(n) == 0 .. n - 1

powi(x, y) == LET r[i \in 0 .. y] == IF i = 0 THEN 1 ELSE r[i - 1] * x IN r[y]

(* The digit of x in radix k that stands for dimension d, and x with v     *)
(* there.                                                                  *)
Digit(x, k, d) == (x \div powi(k, d)) % k
WithDigit(x, k, d, v) == x + (v - Digit(x, k, d)) * powi(k, d)

-----------------------------------------------------------------------------
(* KNCube: mesh and torus.  The mesh too has the wrap-around channels.     *)
CubeSized(c) == c.k \in Nat \ {0} /\ c.n \in Nat /\ c.nodes = powi(c.k, c.n)
KNCubeRouters(c) == Below(powi(c.k, c.n))
LeftChannel(c, node, dim) == 2 * c.n * node + 2 * dim + 1
RightChannel(c, node, dim) == 2 * c.n * node + 2 * dim
LeftNode(c, node, dim) ==
  WithDigit(node, c.k, dim, (Digit(node, c.k, dim) + c.k - 1) % c.k)
RightNode(c, node, dim) ==
  WithDigit(node, c.k, dim, (Digit(node, c.k, dim) + 1) % c.k)

KNCubeOutputs(c, r) == [p \in 0 .. 2 * c.n |->
  IF p = 2 * c.n THEN NodeLink(r)
  ELSE IF p % 2 = 0 THEN Chan(RightChannel(c, r, p \div 2))
  ELSE Chan(LeftChannel(c, r, p \div 2))]
KNCubeInputs(c, r) == [p \in 0 .. 2 * c.n |->
  IF p = 2 * c.n THEN NodeLink(r)
  ELSE IF p % 2 = 0 THEN Chan(LeftChannel(c, RightNode(c, r, p \div 2), p \div 2))
  ELSE Chan(RightChannel(c, LeftNode(c, r, p \div 2), p \div 2))]

-----------------------------------------------------------------------------
(* KNFly: n stages of k^(n-1) switches. *)
LevelSized(c) == c.k \in Nat \ {0} /\ c.n \in Nat \ {0} /\ c.nodes = powi(c.k, c.n)
PerStage(c) == powi(c.k, c.n - 1)
FlyRouters(c) == Below(c.n * PerStage(c))
OutChannel(c, stage, addr, port) == stage * powi(c.k, c.n) + addr * c.k + port
InChannel(c, stage, addr, port) ==
  LET dim == c.n - stage - 1
  IN  (stage - 1) * powi(c.k, c.n) + WithDigit(addr, c.k, dim, port) * c.k + Digit(addr, c.k, dim)

FlyOutputs(c, r) ==
  LET stage == r \div PerStage(c)
      addr == r % PerStage(c)
  IN  [p \in Below(c.k) |-> IF stage = c.n - 1 THEN NodeLink(addr * c.k + p)
                                               ELSE Chan(OutChannel(c, stage, addr, p))]
FlyInputs(c, r) ==
  LET stage == r \div PerStage(c)
      addr == r % PerStage(c)
  IN  [p \in Below(c.k) |-> IF stage = 0 THEN NodeLink(addr * c.k + p)
                                         ELSE Chan(InChannel(c, stage, addr, p))]

-----------------------------------------------------------------------------
(* QTree: k = 4, n = 3; a router is h * 256 + pos, h = 0 at the root.      *)
TreeSized(c) == c.k = 4 /\ c.n = 3 /\ c.nodes = powi(c.k, c.n)
QTreeRouters(c) == UNION {{h * 256 + pos : pos \in Below(powi(c.k, h))} : h \in Below(c.n)}
HeightFromID(id) == id \div 256
PosFromID(id) == id % 256
LinksAbove(c, h) == SumFunction([i \in 1 .. h |-> powi(c.k, i)])
InputIndex(c, h, pos, port) == LinksAbove(c, h) + c.k * pos + port
OutputIndex(c, h, pos, port) == LinksAbove(c, c.n - 1) + InputIndex(c, h, pos, port)

QTreePorts(c, r) == Below(IF HeightFromID(r) = 0 THEN c.k ELSE c.k + 1)
QTreeOutputs(c, r) ==
  LET h == HeightFromID(r)
      pos == PosFromID(r)
  IN  [p \in QTreePorts(c, r) |->
         IF p = c.k THEN Chan(InputIndex(c, h - 1, pos \div c.k, pos % c.k))
         ELSE IF h = c.n - 1 THEN NodeLink(c.k * pos + p)
         ELSE Chan(OutputIndex(c, h, pos, p))]
QTreeInputs(c, r) ==
  LET h == HeightFromID(r)
      pos == PosFromID(r)
  IN  [p \in QTreePorts(c, r) |->
         IF p = c.k THEN Chan(OutputIndex(c, h - 1, pos \div c.k, pos % c.k))
         ELSE IF h = c.n - 1 THEN NodeLink(c.k * pos + p)
         ELSE Chan(InputIndex(c, h, pos, p))]

-----------------------------------------------------------------------------
(* Tree4: k = 4, n = 3; 4 routers above 8 above 16, h * 16 + pos.  Each    *)
(* connection has two channels, the one that leads down the first.         *)
Tree4Routers(c) == Below(4) \cup (16 .. 23) \cup (32 .. 47)
MiddleToLeaf(c, pos, port) == 2 * (c.k * pos + port)
TopToMiddle(c, pos, port) == 64 + 2 * (2 * c.k * pos + port)

(* The channel pair at port p of a router at height h, named by the one    *)
(* that leads down.                                                        *)
Tree4Pair(c, h, pos, p) ==
  IF h = 0 THEN TopToMiddle(c, pos, p)
  ELSE IF h = 1 THEN IF p < c.k THEN MiddleToLeaf(c, pos, p) ELSE TopToMiddle(c, p - c.k, pos)
  ELSE MiddleToLeaf(c, 2 * (pos \div c.k) + p - c.k, pos % c.k)
Tree4Ports(h) == Below(IF h = 2 THEN 6 ELSE 8)
Tree4Up(c, h, p) == h > 0 /\ p >= c.k

Tree4Outputs(c, r) ==
  LET h == r \div 16
      pos == r % 16
  IN  [p \in Tree4Ports(h) |->
         IF h = 2 /\ p < c.k THEN NodeLink(c.k * pos + p)
         ELSE Chan(Tree4Pair(c, h, pos, p) + IF Tree4Up(c, h, p) THEN 1 ELSE 0)]
Tree4Inputs(c, r) ==
  LET h == r \div 16
      pos == r % 16
  IN  [p \in Tree4Ports(h) |->
         IF h = 2 /\ p < c.k THEN NodeLink(c.k * pos + p)
         ELSE Chan(Tree4Pair(c, h, pos, p) + IF Tree4Up(c, h, p) THEN 0 ELSE 1)]

-----------------------------------------------------------------------------
(* FatTree: n levels of k^(n-1) routers, level * k^(n-1) + pos, level 0 at *)
(* the top.  The channels are numbered by their output ports.              *)
FatTreeRouters(c) == FlyRouters(c)
PerDirection(c) == powi(c.k, c.n)
DownLink(c, level, pos, port) == level * 2 * PerDirection(c) + pos * c.k + port
UpLink(c, level, pos, port) == (2 * level - 1) * PerDirection(c) + pos * c.k + port

(* The place of an input among the outputs of the level it comes from:     *)
(* neighbourhoods of k branches with `branch' routers each.                *)
InterleavedSwapped(c, branch, pos, port) ==  \* mutant: branch and router swapped
  (pos \div (branch * c.k)) * branch * c.k * c.k + port * branch * c.k
    + ((pos % (branch * c.k)) \div branch) * c.k + ((pos % (branch * c.k)) % branch)
Interleaved(c, branch, pos, port) ==
  LET hood == branch * c.k
  IN  (pos \div hood) * hood * c.k + port * branch * c.k
        + ((pos % hood) % branch) * c.k + (pos % hood) \div branch

FatTreePorts(c, level) == Below(IF level = 0 THEN c.k ELSE 2 * c.k)
FatTreeOutputs(c, r) ==
  LET level == r \div PerStage(c)
      pos == r % PerStage(c)
  IN  [p \in FatTreePorts(c, level) |->
         IF p >= c.k THEN Chan(UpLink(c, level, pos, p - c.k))
         ELSE IF level = c.n - 1 THEN NodeLink(pos * c.k + p)
         ELSE Chan(DownLink(c, level, pos, p))]
FatTreeInputs(c, r) ==
  LET level == r \div PerStage(c)
      pos == r % PerStage(c)
  IN  [p \in FatTreePorts(c, level) |->
         IF p >= c.k
         THEN Chan(DownLink(c, level - 1, 0, 0) + Interleaved(c, powi(c.k, c.n - 1 - level), pos, p - c.k))
         ELSE IF level = c.n - 1 THEN NodeLink(pos * c.k + p)
         ELSE Chan(UpLink(c, level + 1, 0, 0) + Interleaved(c, powi(c.k, c.n - 2 - level), pos, p))]
=============================================================================
