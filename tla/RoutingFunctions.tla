--------------------------- MODULE RoutingFunctions ---------------------------
(***************************************************************************)
(* routefunc.cpp: the routing functions of the meshes, tori, butterflies   *)
(* and trees.                                                              *)
(*                                                                         *)
(* A head flit is a record: at, the router it stands at; in, the input     *)
(* port; vc; dest; and ph and intm, which the functions keep in the flit.  *)
(* A function gives the set of the results its random choices may have: a  *)
(* result is the flit's new ph and intm, and outs, the pairs of an output  *)
(* port and a VC of the output set.  A failed assertion gives no result.   *)
(*                                                                         *)
(* c is the record of the options, with first and last, the VCs of the     *)
(* flit's traffic class.                                                   *)
(***************************************************************************)
EXTENDS Networks

(* gReadReqBeginVC and the rest, for one class of messages for all flits   *)
(* ("any") and for requests and replies on VCs of their own.               *)
ClassVCsOneMore(vcs, class) ==  \* mutant: the last VC of the replies is num_vcs
  [first |-> IF class = "reply" THEN vcs \div 2 ELSE 0,
   last |-> IF class = "request" THEN vcs \div 2 - 1 ELSE IF class = "reply" THEN vcs ELSE vcs - 1]
ClassVCs(vcs, class) ==
  CASE class = "any"     -> [first |-> 0, last |-> vcs - 1]
    [] class = "request" -> [first |-> 0, last |-> vcs \div 2 - 1]
    [] class = "reply"   -> [first |-> vcs \div 2, last |-> vcs - 1]

VCs(c) == c.first .. c.last
VCCount(c) == c.last - c.first + 1

(* The VCs without the last, or without the first, n of them; the VCs for  *)
(* the first and the second of two kinds of flit that must not wait for    *)
(* each other, which share the middle one if the number is odd; a block of *)
(* VCs of its own for every destination, or every coordinate, v of n.      *)
Narrowed(c, n, lower) == IF lower THEN [c EXCEPT !.last = @ - n] ELSE [c EXCEPT !.first = @ + n]
Half(c, lower) == IF VCCount(c) < 2 THEN {} ELSE VCs(Narrowed(c, VCCount(c) \div 2, lower))
BlockOneMore(c, v, n) ==  \* mutant: vcEnd = vcBegin + vcs_per_dest
  c.first + v * (VCCount(c) \div n) .. c.first + (v + 1) * (VCCount(c) \div n)
Block(c, v, n) ==
  LET vcs == VCCount(c) \div n
  IN  c.first + v * vcs .. c.first + (v + 1) * vcs - 1

(* The result that names vcs at one port; no VC fails the assertion that   *)
(* there is one for every kind.                                            *)
Out(s, port, vcs) == [ph |-> s.ph, intm |-> s.intm, outs |-> {port} \X vcs]
Asserted(results) == {r \in results : r.outs # {}}

-----------------------------------------------------------------------------
(* Trees and butterflies. *)
qtree_nca(c, s) ==
  LET below == s.dest \div powi(c.k, c.n - 1 - HeightFromID(s.at))
  IN  {Out(s, IF PosFromID(s.at) = below \div c.k THEN below % c.k ELSE c.k, VCs(c))}

(* The ports of tree4_nca and tree4_anca: the former names one of those    *)
(* that lead up, the latter all of them.                                   *)
Tree4Down(s) ==
  LET h == s.at \div 16
      pos == s.at % 16
  IN  CASE h = 0 -> {2 * (s.dest \div 16), 2 * (s.dest \div 16) + 1}
        [] h = 1 -> IF s.dest \div 16 = pos \div 2 THEN {(s.dest \div 4) % 4} ELSE {}
        [] h = 2 -> IF s.dest \div 4 = pos THEN {s.dest % 4} ELSE {}
Tree4UpPorts(c, s) == IF s.at \div 16 = 1 THEN c.k .. 2 * c.k - 1 ELSE {c.k, c.k + 1}
tree4_nca(c, s) ==
  {Out(s, p, VCs(c)) : p \in IF Tree4Down(s) # {} THEN Tree4Down(s) ELSE Tree4UpPorts(c, s)}
tree4_anca(c, s) ==
  IF Tree4Down(s) # {} THEN {Out(s, p, VCs(c)) : p \in Tree4Down(s)}
  ELSE {[ph |-> s.ph, intm |-> s.intm, outs |-> Tree4UpPorts(c, s) \X VCs(c)]}

(* Up to a router whose subtree has the destination, by any of the ports:  *)
(* fattree_anca takes the less loaded of two it draws.  A flit that came   *)
(* from above does not go up again.                                        *)
fattree_nca(c, s) ==
  LET depth == s.at \div PerStage(c)
      coverage == powi(c.k, c.n - depth)
      branch == powi(c.k, c.n - depth - 1)
      base == ((s.at % PerStage(c)) \div branch) * coverage
  IN  IF s.dest \in base .. base + coverage - 1
      THEN {Out(s, (s.dest - base) \div branch, VCs(c))}
      ELSE {Out(s, p, VCs(c)) : p \in {q \in c.k .. 2 * c.k - 1 : s.in < c.k}}

fattree_anca(c, s) == fattree_nca(c, s)

dest_tag_flyReversed(c, s) ==  \* mutant: a digit of the destination too few in each stage
  {Out(s, Digit(s.dest, c.k, (s.at * c.k) \div powi(c.k, c.n)), VCs(c))}
dest_tag_fly(c, s) ==
  LET stage == (s.at * c.k) \div powi(c.k, c.n)
  IN  {Out(s, Digit(s.dest, c.k, c.n - 1 - stage), VCs(c))}

-----------------------------------------------------------------------------
(* Meshes.  Port 2d leads up dimension d, port 2d + 1 down, port 2n ejects. *)
Eject(c) == 2 * c.n
Injected(c, s) == s.in = Eject(c)
Unmatched(c, cur, dest) == {d \in Below(c.n) : Digit(cur, c.k, d) # Digit(dest, c.k, d)}
Toward(c, cur, dest, d) == IF Digit(cur, c.k, d) < Digit(dest, c.k, d) THEN 2 * d ELSE 2 * d + 1

dor_next_mesh(c, cur, dest, descending) ==
  LET left == Unmatched(c, cur, dest)
  IN  IF cur = dest THEN Eject(c)
      ELSE Toward(c, cur, dest, IF descending THEN Max(left) ELSE Min(left))

dim_order_mesh(c, s) == {Out(s, dor_next_mesh(c, s.at, s.dest, FALSE), VCs(c))}

(* XY or YX, chosen at the source - by chance in xy_yx_mesh, by the load   *)
(* in adaptive_xy_yx_mesh - and told by the VC from then on.               *)
xy_yx_mesh(c, s) ==
  IF s.at = s.dest THEN {Out(s, Eject(c), VCs(c))}
  ELSE Asserted({Out(s, dor_next_mesh(c, s.at, s.dest, ~x_then_y), Half(c, x_then_y)) :
                   x_then_y \in IF Injected(c, s) THEN BOOLEAN
                                ELSE {s.vc < c.first + VCCount(c) \div 2}})

adaptive_xy_yx_mesh(c, s) == xy_yx_mesh(c, s)

(* VCs by destination, and by the coordinate in the dimension to traverse. *)
DestVCs(c, s) == IF s.at = s.dest THEN VCs(c) ELSE Block(c, s.dest, powi(c.k, c.n))
dim_order_ni_mesh(c, s) ==
  Asserted({Out(s, dor_next_mesh(c, s.at, s.dest, FALSE), DestVCs(c, s))})
dim_order_pni_mesh(c, s) ==
  LET port == dor_next_mesh(c, s.at, s.dest, FALSE)
  IN  Asserted({Out(s, port, IF s.at = s.dest THEN VCs(c)
                             ELSE Block(c, Digit(s.dest, c.k, port \div 2), c.k))})

(* To an intermediate node, drawn from `choices' at the source, in phase   *)
(* 0, on to the destination in phase 1.                                    *)
Phased(c, s, choices) ==
  LET begun == IF Injected(c, s) THEN {[s EXCEPT !.ph = 0, !.intm = i] : i \in choices} ELSE {s}
  IN  {[t EXCEPT !.ph = IF t.ph = 0 /\ t.at = t.intm THEN 1 ELSE t.ph] : t \in begun}
Goal(t) == IF t.ph = 0 THEN t.intm ELSE t.dest
PhaseVCsShared(c, t) == VCs(c)  \* mutant: both phases on all VCs
PhaseVCs(c, t) == IF t.at = t.dest THEN VCs(c) ELSE Half(c, t.ph = 0)
TwoPhase(c, s, choices) ==
  Asserted({Out(t, dor_next_mesh(c, t.at, Goal(t), FALSE), PhaseVCs(c, t)) :
              t \in Phased(c, s, choices)})

Between(x, y) == Min({x, y}) .. Max({x, y})
rand_min_intr_mesh(c, src, dest) ==
  {i \in Below(powi(c.k, c.n)) : \A d \in Below(c.n) :
     Digit(i, c.k, d) \in Between(Digit(src, c.k, d), Digit(dest, c.k, d))}

romm_mesh(c, s) == TwoPhase(c, s, rand_min_intr_mesh(c, s.at, s.dest))
romm_ni_mesh(c, s) ==
  Asserted({Out(t, dor_next_mesh(c, t.at, Goal(t), FALSE), DestVCs(c, s)) :
              t \in Phased(c, s, rand_min_intr_mesh(c, s.at, s.dest))})
valiant_mesh(c, s) == TwoPhase(c, s, Below(powi(c.k, c.n)))

(* The three that are written for 8 x 8 nodes; a row is id % 8. *)
Row(id) == id % 8
Col(id) == id \div 8
Distance(x, y) == Max({x, y}) - Min({x, y})
directed_valiant_mesh(c, s) ==
  LET src == s.at
      dist == Distance(src, s.dest)
  IN  TwoPhase(c, s,
        IF dist < 4 THEN Between(src, s.dest)
        ELSE IF dist < 8
        THEN {row + 8 * col : row \in Between(Row(src), Row(s.dest)),
                              col \in IF src < 8 THEN {0, 1} ELSE {6, 7}}
        ELSE {Row(src) + 8 * col : col \in 1 .. 6})

four_sided_mesh(c, s) ==
  LET side == {0, 7}
      r1 == Row(s.at)      r2 == Row(s.dest)
      c1 == Col(s.at)      c2 == Col(s.dest)
      corner(row, col) == {row + 8 * col}
  IN  TwoPhase(c, s,
        IF r1 \in side /\ r2 \in side
        THEN corner(IF Distance(c1, c2) > 3 THEN (IF r1 = 0 THEN 2 ELSE 5) ELSE r2, c2)
        ELSE IF c1 \in side /\ c2 \in side
        THEN corner(r1, IF Distance(r1, r2) > 3 THEN (IF r1 = 0 THEN 2 ELSE 5) ELSE c1)
        ELSE IF r1 \in side THEN corner(r2, c1) ELSE corner(r1, c2))

OutsideDiamond(row, col) ==
  \/ row < 3 /\ col < 3 /\ row + col < 3
  \/ row < 3 /\ col > 4 /\ Distance(row, col) > 4
  \/ row > 4 /\ col > 4 /\ row + col > 11
  \/ row > 4 /\ col < 3 /\ Distance(row, col) > 4
diamond_mesh(c, s) ==
  TwoPhase(c, s, {IF OutsideDiamond(Row(s.at), Col(s.dest)) THEN Row(s.dest) + 8 * Col(s.at)
                                                            ELSE Row(s.at) + 8 * Col(s.dest)})

(* Minimal adaptive: any minimal direction on the upper VCs as long as the *)
(* flit is not on the escape VC.  The escape VC is written as VCs 0 to     *)
(* first, more than one VC for a class that does not begin at 0.           *)
min_adapt_mesh(c, s) ==
  LET in_vc == IF Injected(c, s) THEN c.last ELSE s.vc
      escape == {dor_next_mesh(c, s.at, s.dest, FALSE)} \X (0 .. c.first)
      adaptive == {Toward(c, s.at, s.dest, d) : d \in Unmatched(c, s.at, s.dest)}
                    \X (c.first + 1 .. c.last)
  IN  IF s.at = s.dest THEN {Out(s, Eject(c), VCs(c))}
      ELSE {[ph |-> s.ph, intm |-> s.intm,
             outs |-> escape \cup (IF in_vc # c.first THEN adaptive ELSE {})]}

(* Planar adaptive: in the plane of the first unmatched dimension and the  *)
(* next, around a faulty channel of the first by a detour in the second.   *)
(* The VCs are three blocks: plane 1 up, plane 1 down, first dimension.    *)
FlippedNot(port) == port  \* mutant: the output port is in_port, not in_port ^ 1
Flipped(port) == IF port % 2 = 0 THEN port + 1 ELSE port - 1
Detours(c, s, d, x) ==
  LET drawn == IF x = 0 THEN {2 * d} ELSE IF x = c.k - 1 THEN {2 * d + 1} ELSE {2 * d, 2 * d + 1}
      kept(p) == IF x \in 1 .. c.k - 2 /\ p = s.in THEN Flipped(p) ELSE p
      open(p) == <<s.at, p>> \notin c.faults
  IN  {IF open(p) \/ x \in {0, c.k - 1} THEN p ELSE Flipped(p) : p \in {kept(q) : q \in drawn}}
planar_adapt_mesh(c, s) ==
  LET mult == VCCount(c) \div 3
      planes == {d \in Unmatched(c, s.at, s.dest) :
                   ~(d = 0 /\ s.in \div 2 = 0 /\ s.vc < c.first + 2 * mult)}
      n == Min(planes)
      main == Toward(c, s.at, s.dest, n)
      fault == <<s.at, main>> \in c.faults
      m == (n + 1) % c.n
      low == c.first + (IF main % 2 = 1 THEN mult ELSE 0)
      second == low .. low + mult - 1
      wanted == IF n < c.n - 1 /\ m \in Unmatched(c, s.at, s.dest)
                THEN Toward(c, s.at, s.dest, m) ELSE -1
      aside == IF wanted # s.in THEN wanted ELSE IF fault THEN Flipped(s.in) ELSE -1
      direct == IF fault THEN {} ELSE {main} \X (c.first + 2 * mult .. c.last)
      x == IF n = c.n - 1 THEN 0 ELSE Digit(s.at, c.k, m)
      ports == IF aside # -1 THEN {aside} ELSE IF fault THEN Detours(c, s, m, x) ELSE {-1}
      result(p) == [ph |-> s.ph, intm |-> s.intm,
                    outs |-> direct \cup (IF p = -1 \/ <<s.at, p>> \in c.faults THEN {}
                                          ELSE {p} \X second)]
  IN  IF s.at = s.dest THEN {Out(s, Eject(c), VCs(c))}
      ELSE IF planes = {} THEN {}
      ELSE Asserted({result(p) : p \in ports})

chaos_mesh(c, s) ==
  {[ph |-> s.ph, intm |-> s.intm,
    outs |-> (IF s.at = s.dest THEN {Eject(c)}
              ELSE {Toward(c, s.at, s.dest, d) : d \in Unmatched(c, s.at, s.dest)}) \X {0}]}

-----------------------------------------------------------------------------
(* Tori. *)
Ahead(c, cur, dest, d) == (Digit(dest, c.k, d) - Digit(cur, c.k, d) + c.k) % c.k
Slack(c, cur, dest, d) == c.k - 2 * Ahead(c, cur, dest, d)

(* The VC sets a flit that turns into a ring may use: datelines between    *)
(* k - 1 and 0, and between the halves of the ring if they are balanced.   *)
Partitions(c, x, y, dir, balance) ==
  LET middle == (c.k - 1) \div 2
  IN  IF balance
      THEN IF (dir = 0 /\ x > y) \/ (dir = 1 /\ x < y) THEN {1}
           ELSE IF (dir = 0 /\ x <= middle /\ y > middle) \/ (dir = 1 /\ x > middle /\ y <= middle)
           THEN {0} ELSE {0, 1}
      ELSE IF (dir = 0 /\ x > y) \/ (dir = 1 /\ y < x) THEN {1} ELSE {0}

(* The output ports and partitions dor_next_torus may return; a flit that  *)
(* stays in its ring keeps direction and partition.                        *)
dor_next_torus(c, s, in, balance) ==
  LET d == Min(Unmatched(c, s.at, s.dest))
      slack == Slack(c, s.at, s.dest, d)
      dirs == IF slack > 0 THEN {0} ELSE IF slack = 0 THEN {0, 1} ELSE {1}
  IN  IF s.at = s.dest THEN {<<Eject(c), s.ph>>}
      ELSE IF in \div 2 = d THEN {<<Flipped(in), s.ph>>}
      ELSE UNION {{<<2 * d + dir, part>> :
                     part \in Partitions(c, Digit(s.at, c.k, d), Digit(s.dest, c.k, d), dir, balance)} :
                  dir \in dirs}

RingVCs(c, s, ph) == IF s.at = s.dest THEN VCs(c) ELSE Half(c, ph = 0)
TorusOrder(c, s, balance) ==
  Asserted({Out([s EXCEPT !.ph = next[2]], next[1], RingVCs(c, s, next[2])) :
              next \in dor_next_torus(c, s, s.in, balance)})
dim_order_torus(c, s) == TorusOrder(c, s, FALSE)
dim_order_bal_torus(c, s) == TorusOrder(c, s, TRUE)
dim_order_ni_torus(c, s) ==
  Asserted({Out(s, next[1], DestVCs(c, s)) : next \in dor_next_torus(c, s, s.in, FALSE)})

(* A minimal direction on VC 3, from the injection port or from VC 3; or   *)
(* dimension order on the escape VCs 0 and 1.                              *)
min_adapt_torus(c, s) ==
  LET in_vc == IF Injected(c, s) THEN c.last ELSE s.vc
      free == in_vc > c.first + 1
      minimal == {IF Slack(c, s.at, s.dest, d) > 0 THEN 2 * d ELSE 2 * d + 1 :
                    d \in Unmatched(c, s.at, s.dest)} \X {c.first + 3}
      eject == IF s.at = s.dest THEN {Eject(c)} \X VCs(c) ELSE {}
  IN  {[ph |-> next[2], intm |-> s.intm,
        outs |-> {<<next[1], IF next[2] = 0 THEN c.first ELSE c.first + 1>>}
                   \cup (IF free THEN minimal ELSE {}) \cup eject] :
         next \in dor_next_torus(c, s, IF free THEN Eject(c) ELSE s.in, FALSE)}

chaos_torus(c, s) ==
  LET slack(d) == Slack(c, s.at, s.dest, d)
      left == Unmatched(c, s.at, s.dest)
  IN  {[ph |-> s.ph, intm |-> s.intm,
        outs |-> (IF s.at = s.dest THEN {Eject(c)}
                  ELSE {2 * d : d \in {e \in left : slack(e) >= 0}}
                         \cup {2 * d + 1 : d \in {e \in left : slack(e) <= 0}}) \X {0}]}
=============================================================================
