-------------------------------- MODULE Traffic --------------------------------
(***************************************************************************)
(* traffic.cpp: the traffic patterns, as the set of the destinations that  *)
(* the packets of a source may be given.  c has nodes, the number of       *)
(* nodes, the options k, n and xr, and for the patterns that name nodes    *)
(* c.places: the injection nodes of custom, the excluded nodes of          *)
(* background, the pairs <<hotspot, rate>> of hotspot.                     *)
(***************************************************************************)
EXTENDS Networks

Nodes(c) == Below(c.nodes)

(* Bit permutations: the number of nodes is 2^b, for transpose b is even. *)
Bits(c) == CHOOSE b \in 0 .. 30 : powi(2, b) = c.nodes
bitcomp(c, source) == {c.nodes - 1 - source}
transpose(c, source) ==
  LET half == powi(2, Bits(c) \div 2)
  IN  {source \div half + (source % half) * half}
bitrevShort(c, source) ==  \* mutant: one turn of the loop too few
  {SumFunction([i \in Below(Bits(c) - 1) |-> powi(2, i) * Digit(source, 2, Bits(c) - 2 - i)])}
bitrev(c, source) ==
  {SumFunction([i \in Below(Bits(c)) |-> powi(2, i) * Digit(source, 2, Bits(c) - 1 - i)])}
shuffle(c, source) == {((2 * source) % c.nodes) + (2 * source) \div c.nodes}

(* Digit permutations: each of the n digits is moved on. *)
MoveDigits(c, source, by) ==
  LET radix == c.xr * c.k
  IN  {SumFunction([d \in Below(c.n) |-> powi(radix, d) * ((Digit(source, radix, d) + by) % radix)])}
tornado(c, source) == MoveDigits(c, source, (c.xr * c.k + 1) \div 2 - 1)
neighbor(c, source) == MoveDigits(c, source, 1)

(* The patterns of the RTL project, for 8 x 8 nodes with the sources in    *)
(* the first and the last row.  randperm draws one permutation of these;   *)
(* the other nodes have no destination.                                    *)
Sides == (0 .. 7) \cup (56 .. 63)
stress(c, source) ==
  {IF source \in 0 .. 3 \/ source \in 56 .. 59 THEN (source + 60) % 112
   ELSE IF source \in 4 .. 7 THEN source + 52
   ELSE IF source \in 60 .. 63 THEN source - 60
   ELSE source}
custom(c, source) == IF c.places = {} THEN Nodes(c) ELSE c.places
randperm(c, source) == IF source \in Sides THEN Sides ELSE {}

uniform(c, source) == Nodes(c)
background(c, source) == Nodes(c) \ c.places
diagonal(c, source) == {source, (source + 1) % c.nodes}
asymmetric(c, source) ==
  LET half == c.nodes \div 2 IN {source % half, (source % half) + half}
taper64(c, source) == Nodes(c)
bad_dragon(c, source) ==
  LET group == 2 * c.k * c.k
  IN  {(i + (source \div group + 1) * group) % c.nodes : i \in Below(group)}
badperm_yarc(c, source) ==
  LET row == c.xr * c.k IN {i * row + source \div row : i \in Below(row)}
hotspot(c, source) ==
  {h[1] : h \in {g \in c.places : g[2] > 0 \/ Cardinality(c.places) = 1}}

Destinations(c, source) ==
  CASE c.traffic = "bitcomp"      -> bitcomp(c, source)
    [] c.traffic = "transpose"    -> transpose(c, source)
    [] c.traffic = "bitrev"       -> bitrev(c, source)
    [] c.traffic = "shuffle"      -> shuffle(c, source)
    [] c.traffic = "tornado"      -> tornado(c, source)
    [] c.traffic = "neighbor"     -> neighbor(c, source)
    [] c.traffic = "stress"       -> stress(c, source)
    [] c.traffic = "custom"       -> custom(c, source)
    [] c.traffic = "randperm"     -> randperm(c, source)
    [] c.traffic = "uniform"      -> uniform(c, source)
    [] c.traffic = "background"   -> background(c, source)
    [] c.traffic = "diagonal"     -> diagonal(c, source)
    [] c.traffic = "asymmetric"   -> asymmetric(c, source)
    [] c.traffic = "taper64"      -> taper64(c, source)
    [] c.traffic = "bad_dragon"   -> bad_dragon(c, source)
    [] c.traffic = "badperm_yarc" -> badperm_yarc(c, source)
    [] c.traffic = "hotspot"      -> hotspot(c, source)

(* The classes derived from PermutationTrafficPattern with one destination *)
(* for each source.                                                        *)
BitPatterns == {"bitcomp", "transpose", "bitrev", "shuffle"}
DigitPatterns == {"tornado", "neighbor"}
PermutationPatterns == BitPatterns \cup DigitPatterns

(* The sizes the constructors accept: a power of two, an even one for      *)
(* transpose; k, n and xr of a digit permutation are the network's.        *)
Sized(c) ==
  /\ c.traffic \in BitPatterns =>
       /\ \E b \in 0 .. 30 : c.nodes = powi(2, b)
       /\ c.traffic = "transpose" => Bits(c) % 2 = 0
  /\ c.traffic \in DigitPatterns =>
       c.xr \in Nat \ {0} /\ c.k \in Nat \ {0} /\ c.n \in Nat /\ c.nodes = powi(c.xr * c.k, c.n)
=============================================================================
