-------------------------- MODULE AllocatorProofs --------------------------
(***************************************************************************)
(* Theorems about the allocators: every arbiter decides, for any number of *)
(* ports and whatever it has granted before; what an allocator returns is  *)
(* a matching of its requests, and as large a one as it promises.          *)
(***************************************************************************)
EXTENDS Allocator, FoldLemmas

-----------------------------------------------------------------------------
(* Least elements of finite sets. *)

(* A finite set has a member with none before it in a strict order. *)
LEMMA Least ==
  ASSUME NEW S, IsFiniteSet(S), S # {}, NEW R,
         \A x \in S : <<x, x>> \notin R,
         \A x, y, z \in S : <<x, y>> \in R /\ <<y, z>> \in R => <<x, z>> \in R
  PROVE  \E x \in S : \A y \in S : <<y, x>> \notin R
<1> DEFINE below(x) == {y \in S : <<y, x>> \in R}
           Belows == {below(x) : x \in S}
<1>1. Belows \subseteq SUBSET S /\ Belows # {}
  <2>1. Belows \subseteq SUBSET S
    <3>1. \A x \in S : below(x) \in SUBSET S
      OBVIOUS
    <3> HIDE DEF below
    <3> QED
      BY <3>1
  <2>2. PICK x \in S : TRUE
    OBVIOUS
  <2>3. below(x) \in Belows
    OBVIOUS
  <2> QED
    BY <2>1, <2>3
<1>2. PICK T \in Belows : \A U \in Belows : U \subseteq T => U = T
  <2> HIDE DEF Belows
  <2> QED
    BY <1>1, MinimalSubset
<1>3. PICK x \in S : T = below(x)
  OBVIOUS
<1>4. ASSUME NEW y \in S, <<y, x>> \in R PROVE FALSE
  <2>1. below(y) \in Belows /\ below(y) \subseteq below(x)
    BY <1>4
  <2>2. y \in below(x) /\ y \notin below(y)
    BY <1>4
  <2> QED
    BY <1>2, <1>3, <2>1, <2>2
<1> QED
  BY <1>4

(* A finite set has a member with the least key. *)
LEMMA LeastKey ==
  ASSUME NEW S, IsFiniteSet(S), S # {}, NEW f, \A x \in S : f[x] \in Int
  PROVE  \E x \in S : \A y \in S : f[x] <= f[y]
<1> DEFINE R == {p \in S \X S : f[p[1]] < f[p[2]]}
<1>1. \A x, y \in S : <<x, y>> \in R <=> f[x] < f[y]
  OBVIOUS
<1> HIDE DEF R
<1>2. \A x \in S : <<x, x>> \notin R
  BY <1>1
<1>3. \A x, y, z \in S : <<x, y>> \in R /\ <<y, z>> \in R => <<x, z>> \in R
  BY <1>1
<1>4. PICK x \in S : \A y \in S : <<y, x>> \notin R
  BY <1>2, <1>3, Least
<1>5. ASSUME NEW y \in S PROVE f[x] <= f[y]
  <2>1. ~(f[y] < f[x]) /\ f[y] \in Int /\ f[x] \in Int
    BY <1>1, <1>4
  <2> QED
    BY <2>1
<1> QED
  BY <1>5

(* There are finitely many ports. *)
LEMMA PortsFinite ==
  ASSUME NEW n \in Nat
  PROVE  IsFiniteSet(0 .. n - 1)
<1>1. n - 1 \in Int /\ 0 \in Int
  OBVIOUS
<1> QED
  BY <1>1, FS_Interval

(* The search of a round-robin arbiter finds one of the ports. *)
LEMMA FirstIsOne ==
  ASSUME NEW n \in Nat \ {0}, NEW S \in SUBSET (0 .. n - 1), S # {}, NEW offset \in Int
  PROVE  FirstFrom(S, offset, n) \in S
<1> DEFINE f == [x \in S |-> (x - offset + n) % n]
<1>1. IsFiniteSet(S)
  BY PortsFinite, FS_Subset
<1>2. \A x \in S : f[x] = (x - offset + n) % n /\ f[x] \in Int
  OBVIOUS
<1>3. PICK x \in S : \A y \in S : f[x] <= f[y]
  <2> HIDE DEF f
  <2> QED
    BY <1>1, <1>2, LeastKey
<1>4. \A y \in S : (x - offset + n) % n <= (y - offset + n) % n
  BY <1>2, <1>3
<1> QED
  BY <1>4 DEF FirstFrom

(* Among ports that request one has the highest priority. *)
LEMMA ForemostExists ==
  ASSUME NEW S, IsFiniteSet(S), S # {}, NEW pri, \A x \in S : pri[x] \in Int
  PROVE  Foremost(S, pri) # {} /\ Foremost(S, pri) \subseteq S
<1> DEFINE f == [x \in S |-> -pri[x]]
<1>1. \A x \in S : f[x] = -pri[x] /\ f[x] \in Int
  OBVIOUS
<1>2. PICK x \in S : \A y \in S : f[x] <= f[y]
  <2> HIDE DEF f
  <2> QED
    BY <1>1, LeastKey
<1>3. \A y \in S : pri[y] <= pri[x]
  BY <1>1, <1>2
<1> QED
  BY <1>3 DEF Foremost

-----------------------------------------------------------------------------
(* Arbiters. *)

(* _matrix stands for a strict order: no cycle of ports that are above one *)
(* another.                                                                *)
StrictOrder(above, n) ==
  /\ \A i \in 0 .. n - 1 : ~above[i][i]
  /\ \A i, j, k \in 0 .. n - 1 : above[i][j] /\ above[j][k] => above[i][k]

RoundRobins(n) == [type : {"round_robin"}, size : {n}, pointer : 0 .. n - 1]
Matrices(n) == [type : {"matrix"}, size : {n},
                above : {a \in [0 .. n - 1 -> [0 .. n - 1 -> BOOLEAN]] : StrictOrder(a, n)}]
Plains(n) == RoundRobins(n) \cup Matrices(n)
Trees(n) == UNION {[type : {"tree"}, size : {n}, groups : [0 .. g - 1 -> Plains(n \div g)], global : Plains(g)] :
                   g \in {h \in 1 .. n : n % h = 0}}
Arbiters(n) == Plains(n) \cup Trees(n)

(* The requests made to an arbiter of n ports. *)
IsRequests(reqs, n) == DOMAIN reqs \subseteq 0 .. n - 1 /\ \A i \in DOMAIN reqs : reqs[i] \in Int

(* A round-robin or matrix arbiter grants one of its requests, of the      *)
(* highest priority.                                                       *)
LEMMA PlainDecides ==
  ASSUME NEW n \in Nat \ {0}, NEW a \in Plains(n), NEW reqs, IsRequests(reqs, n)
  PROVE  /\ DOMAIN reqs # {} => PlainArbitrate(a, reqs) \in Foremost(DOMAIN reqs, reqs)
         /\ DOMAIN reqs # {} => PlainArbitrate(a, reqs) \in DOMAIN reqs
         /\ DOMAIN reqs = {} => PlainArbitrate(a, reqs) = NoGrant
<1> DEFINE top == Foremost(DOMAIN reqs, reqs)
           winners == {i \in top : \A j \in top : ~a.above[j][i]}
<1>1. IsFiniteSet(0 .. n - 1) /\ IsFiniteSet(DOMAIN reqs) /\ DOMAIN reqs \subseteq 0 .. n - 1
  <2>1. DOMAIN reqs \in SUBSET (0 .. n - 1)
    BY DEF IsRequests
  <2> QED
    BY <2>1, PortsFinite, FS_Subset
<1>2. top \subseteq DOMAIN reqs /\ IsFiniteSet(top)
  BY <1>1, FS_Subset DEF Foremost
<1>3. CASE DOMAIN reqs = {}
  <2>1. top = {}
    BY <1>2, <1>3
  <2> QED
    BY <1>3, <2>1 DEF PlainArbitrate
<1>4. CASE DOMAIN reqs # {}
  <2>1. top # {} /\ top \subseteq 0 .. n - 1
    BY <1>1, <1>2, <1>4, ForemostExists DEF IsRequests
  <2>2. CASE a \in RoundRobins(n)
    <3>1. a.type = "round_robin" /\ a.size = n /\ a.pointer \in Int
      BY <2>2 DEF RoundRobins
    <3>2. PlainArbitrate(a, reqs) = FirstFrom(top, a.pointer, n)
      BY <2>1, <3>1 DEF PlainArbitrate
    <3>3. FirstFrom(top, a.pointer, n) \in top
      <4> HIDE DEF top
      <4> QED
        BY <2>1, <3>1, FirstIsOne
    <3> QED
      BY <1>2, <1>4, <3>2, <3>3
  <2>3. CASE a \in Matrices(n)
    <3>1. a.type = "matrix" /\ a.above \in [0 .. n - 1 -> [0 .. n - 1 -> BOOLEAN]] /\ StrictOrder(a.above, n)
      BY <2>3 DEF Matrices
    <3> DEFINE R == {p \in top \X top : a.above[p[1]][p[2]]}
    <3>2. \A i, j \in top : <<i, j>> \in R <=> a.above[i][j]
      OBVIOUS
    <3>3. /\ \A i \in top : ~a.above[i][i]
          /\ \A i, j, k \in top : a.above[i][j] /\ a.above[j][k] => a.above[i][k]
      BY <2>1, <3>1 DEF StrictOrder
    <3>4. winners # {}
      <4> HIDE DEF R, top
      <4>1. /\ \A i \in top : <<i, i>> \notin R
            /\ \A i, j, k \in top : <<i, j>> \in R /\ <<j, k>> \in R => <<i, k>> \in R
        BY <3>2, <3>3
      <4>2. PICK i \in top : \A j \in top : <<j, i>> \notin R
        BY <1>2, <2>1, <4>1, Least
      <4>3. i \in winners
        BY <3>2, <4>2
      <4> QED
        BY <4>3
    <3>5. winners \subseteq top /\ IsFiniteSet(winners) /\ \A i \in winners : i \in Int
      BY <1>1, <1>2, FS_Subset
    <3>6. PlainArbitrate(a, reqs) = CHOOSE i \in winners : \A j \in winners : i <= j
      BY <2>1, <3>1, <3>4 DEF PlainArbitrate
    <3> HIDE DEF winners
    <3> DEFINE f == [i \in winners |-> i]
    <3>7. \A i \in winners : f[i] = i /\ f[i] \in Int
      BY <3>5
    <3>8. PICK i \in winners : \A j \in winners : f[i] <= f[j]
      <4> HIDE DEF f
      <4> QED
        BY <3>4, <3>5, <3>7, LeastKey
    <3>9. \A j \in winners : i <= j
      BY <3>7, <3>8
    <3>10. (CHOOSE j \in winners : \A k \in winners : j <= k) \in winners
      BY <3>9
    <3> QED
      BY <1>2, <1>4, <3>5, <3>6, <3>10
  <2> QED
    BY <2>2, <2>3 DEF Plains
<1> QED
  BY <1>3, <1>4

(* A number in terms of quotient and remainder. *)
LEMMA Divided ==
  ASSUME NEW s \in Nat \ {0}, NEW p \in Nat
  PROVE  p \div s \in Nat /\ p % s \in 0 .. s - 1 /\ p = s * (p \div s) + (p % s)
<1>1. p \div s \in Nat
  OBVIOUS
<1>2. p % s \in 0 .. s - 1
  OBVIOUS
<1>3. p = s * (p \div s) + (p % s)
  OBVIOUS
<1> QED
  BY <1>1, <1>2, <1>3

(* The quotient and the remainder are unique. *)
LEMMA Dividing ==
  ASSUME NEW s \in Nat \ {0}, NEW q \in Nat, NEW x \in 0 .. s - 1
  PROVE  (s * q + x) \div s = q /\ (s * q + x) % s = x
<1> DEFINE p == s * q + x
           d == p \div s
           y == p % s
<1>1. p \in Nat
  <2>1. s * q \in Nat
    OBVIOUS
  <2> QED
    BY <2>1
<1>2. d \in Nat /\ y \in 0 .. s - 1 /\ p = s * d + y
  BY <1>1, Divided
<1>3. s * q + x = s * d + y
  BY <1>2
<1> HIDE DEF p, d, y
<1>4. ~(d < q)
  <2> SUFFICES ASSUME d < q PROVE FALSE
    OBVIOUS
  <2>1. PICK e \in Nat : q = d + 1 + e
    <3>1. q - d - 1 \in Nat /\ q = d + 1 + (q - d - 1)
      BY <1>2
    <3> QED
      BY <3>1
  <2> DEFINE sq == s * q
             sd == s * d
             se == s * e
  <2>2. sq = sd + s + se /\ sd \in Nat /\ se \in Nat /\ sq \in Nat
    BY <1>2, <2>1
  <2>3. sq + x = sd + y
    BY <1>3
  <2> HIDE DEF sq, sd, se
  <2> QED
    BY <1>2, <2>2, <2>3
<1>5. ~(q < d)
  <2> SUFFICES ASSUME q < d PROVE FALSE
    OBVIOUS
  <2>1. PICK e \in Nat : d = q + 1 + e
    <3>1. d - q - 1 \in Nat /\ d = q + 1 + (d - q - 1)
      BY <1>2
    <3> QED
      BY <3>1
  <2> DEFINE sq == s * q
             sd == s * d
             se == s * e
  <2>2. sd = sq + s + se /\ sd \in Nat /\ se \in Nat /\ sq \in Nat
    BY <1>2, <2>1
  <2>3. sq + x = sd + y
    BY <1>3
  <2> HIDE DEF sq, sd, se
  <2> QED
    BY <1>2, <2>2, <2>3
<1>6. d = q
  BY <1>2, <1>4, <1>5
<1>7. y = x
  <2> DEFINE sq == s * q
  <2>1. sq \in Nat /\ sq + x = sq + y
    BY <1>3, <1>6
  <2> HIDE DEF sq
  <2> QED
    BY <1>2, <2>1
<1> QED
  BY <1>6, <1>7 DEF d, y, p

(* A port of a tree is in one of its groups. *)
LEMMA GroupOf ==
  ASSUME NEW s \in Nat \ {0}, NEW g \in Nat \ {0}, NEW p \in 0 .. g * s - 1
  PROVE  p \div s \in 0 .. g - 1 /\ p % s \in 0 .. s - 1 /\ (p \div s) * s + (p % s) = p
<1> DEFINE d == p \div s
<1>1. d \in Nat /\ p % s \in 0 .. s - 1 /\ p = s * d + (p % s)
  BY Divided
<1> HIDE DEF d
<1>2. s * d = d * s
  BY <1>1
<1>3. d <= g - 1
  <2> SUFFICES ASSUME d >= g PROVE FALSE
    BY <1>1
  <2>1. PICK e \in Nat : d = g + e
    <3>1. d - g \in Nat /\ d = g + (d - g)
      BY <1>1
    <3> QED
      BY <3>1
  <2>2. s * d = s * g + s * e /\ s * g = g * s
    BY <2>1
  <2>3. s * e \in Nat
    BY <2>1
  <2>4. g * s \in Int /\ p < g * s
    OBVIOUS
  <2>5. s * d \in Int /\ s * g \in Int
    BY <1>1
  <2>6. s * d >= g * s
    BY <2>2, <2>3, <2>4, <2>5
  <2>7. p >= s * d
    BY <1>1, <2>5
  <2> QED
    BY <2>4, <2>5, <2>6, <2>7
<1> QED
  BY <1>1, <1>2, <1>3 DEF d

(* The groups of a tree are all its ports. *)
LEMMA Groups ==
  ASSUME NEW n \in Nat \ {0}, NEW g \in 1 .. n, n % g = 0
  PROVE  n \div g \in Nat \ {0} /\ g * (n \div g) = n /\ g \in Nat \ {0}
<1>1. g \in Nat \ {0} /\ n \div g \in Nat /\ n = g * (n \div g) + (n % g)
  BY Divided
<1>2. n = g * (n \div g)
  BY <1>1
<1>3. n \div g # 0
  BY <1>1, <1>2
<1> QED
  BY <1>1, <1>2, <1>3

(* The winner comes last, and the order of the others stays what it was. *)
LEMMA YieldOrders ==
  ASSUME NEW n \in Nat \ {0}, NEW above \in [0 .. n - 1 -> [0 .. n - 1 -> BOOLEAN]],
         StrictOrder(above, n), NEW port \in 0 .. n - 1
  PROVE  Yield(above, port) \in [0 .. n - 1 -> [0 .. n - 1 -> BOOLEAN]] /\ StrictOrder(Yield(above, port), n)
<1> DEFINE P == 0 .. n - 1
           new == Yield(above, port)
<1>1. \A i, j \in P : above[i][j] \in BOOLEAN
  OBVIOUS
<1>2. DOMAIN above = P
  OBVIOUS
<1>3. new = [i \in P |-> [j \in P |-> IF i = j THEN above[i][j] ELSE IF i = port THEN FALSE
                                      ELSE IF j = port THEN TRUE ELSE above[i][j]]]
  BY <1>2 DEF Yield
<1>4. \A i, j \in P : new[i][j] = IF i = j THEN above[i][j] ELSE IF i = port THEN FALSE
                                  ELSE IF j = port THEN TRUE ELSE above[i][j]
  BY <1>3
<1>5. new \in [P -> [P -> BOOLEAN]]
  <2>1. ASSUME NEW i \in P, NEW j \in P PROVE new[i][j] \in BOOLEAN
    <3>1. above[i][j] \in BOOLEAN
      BY <1>1
    <3>2. new[i][j] \in {above[i][j], FALSE, TRUE}
      BY <1>4
    <3> QED
      BY <3>1, <3>2
  <2>2. new = [i \in P |-> [j \in P |-> new[i][j]]]
    BY <1>3, <1>4
  <2> HIDE DEF P, new
  <2> QED
    BY <2>1, <2>2
<1> HIDE DEF P, new
<1>6. /\ \A i \in P : ~above[i][i]
      /\ \A i, j, k \in P : above[i][j] /\ above[j][k] => above[i][k]
  BY DEF StrictOrder, P
<1>7. \A i \in P : ~new[i][i]
  BY <1>4, <1>6
<1>8. ASSUME NEW i \in P, NEW j \in P, NEW k \in P, new[i][j], new[j][k]
      PROVE  new[i][k]
  <2>1. i # j /\ i # port /\ j # k /\ j # port
    BY <1>4, <1>6, <1>8
  <2>2. above[i][j]
    BY <1>4, <1>8, <2>1
  <2>3. CASE k = port
    BY <1>4, <2>1, <2>3
  <2>4. CASE k # port
    <3>1. above[j][k]
      BY <1>4, <1>8, <2>1, <2>4
    <3>2. above[i][k] /\ i # k
      BY <1>6, <2>2, <3>1
    <3> QED
      BY <1>4, <2>1, <2>4, <3>2
  <2> QED
    BY <2>3, <2>4
<1> QED
  BY <1>5, <1>7, <1>8 DEF StrictOrder, P, new

(* UpdateState of a round-robin or matrix arbiter. *)
LEMMA PlainKeeps ==
  ASSUME NEW n \in Nat \ {0}, NEW a \in Plains(n), NEW port \in 0 .. n - 1
  PROVE  PlainUpdate(a, port) \in Plains(n)
<1>1. CASE a \in RoundRobins(n)
  <2>1. a.type = "round_robin" /\ a.size = n
    BY <1>1 DEF RoundRobins
  <2>2. Following(port, n) \in 0 .. n - 1
    BY DEF Following
  <2>3. [a EXCEPT !.pointer = Following(port, n)] \in RoundRobins(n)
    BY <1>1, <2>2 DEF RoundRobins
  <2> QED
    BY <2>1, <2>3 DEF PlainUpdate, Plains
<1>2. CASE a \in Matrices(n)
  <2>1. /\ a.type = "matrix" /\ a.size = n
        /\ a.above \in [0 .. n - 1 -> [0 .. n - 1 -> BOOLEAN]] /\ StrictOrder(a.above, n)
    BY <1>2 DEF Matrices
  <2> DEFINE new == Yield(a.above, port)
  <2>2. new \in [0 .. n - 1 -> [0 .. n - 1 -> BOOLEAN]] /\ StrictOrder(new, n)
    BY <2>1, YieldOrders
  <2> HIDE DEF new
  <2>3. [a EXCEPT !.above = new] \in Matrices(n)
    BY <1>2, <2>2 DEF Matrices
  <2>4. PlainUpdate(a, port) = [a EXCEPT !.above = new]
    BY <2>1 DEF PlainUpdate, new
  <2> QED
    BY <2>3, <2>4 DEF Plains
<1> QED
  BY <1>1, <1>2 DEF Plains

(* A new round-robin or matrix arbiter. *)
LEMMA PlainBuilt ==
  ASSUME NEW n \in Nat \ {0}, NEW type \in {"round_robin", "matrix"}
  PROVE  Plain(type, n) \in Plains(n)
<1>1. CASE type = "round_robin"
  <2>1. 0 \in 0 .. n - 1
    OBVIOUS
  <2>2. [type |-> "round_robin", size |-> n, pointer |-> 0] \in RoundRobins(n)
    BY <2>1 DEF RoundRobins
  <2> QED
    BY <1>1, <2>2 DEF Plain, Plains
<1>2. CASE type = "matrix"
  <2> DEFINE new == [i \in 0 .. n - 1 |-> [j \in 0 .. n - 1 |-> j < i]]
  <2>1. new \in [0 .. n - 1 -> [0 .. n - 1 -> BOOLEAN]]
    OBVIOUS
  <2>2. \A i, j \in 0 .. n - 1 : new[i][j] = (j < i)
    OBVIOUS
  <2> HIDE DEF new
  <2>3. StrictOrder(new, n)
    <3>1. ASSUME NEW i \in 0 .. n - 1 PROVE ~new[i][i]
      <4>1. new[i][i] = (i < i) /\ ~(i < i)
        BY <2>2
      <4> QED
        BY <4>1
    <3>2. ASSUME NEW i \in 0 .. n - 1, NEW j \in 0 .. n - 1, NEW k \in 0 .. n - 1, new[i][j], new[j][k]
          PROVE  new[i][k]
      BY <2>2, <3>2
    <3> QED
      BY <3>1, <3>2 DEF StrictOrder
  <2>4. [type |-> "matrix", size |-> n, above |-> new] \in Matrices(n)
    BY <2>1, <2>3 DEF Matrices
  <2> QED
    BY <1>2, <2>4 DEF Plain, Plains, new
<1> QED
  BY <1>1, <1>2

(* Every type that can be built yields an arbiter. *)
LEMMA Built ==
  ASSUME NEW n \in Nat \ {0}, NEW type, CanBuild(type, n)
  PROVE  NewArbiter(type, n) \in Arbiters(n)
<1>1. CASE type \in {<<"round_robin">>, <<"matrix">>}
  <2>1. PICK t \in {"round_robin", "matrix"} : type = <<t>>
    BY <1>1
  <2>2. Head(type) = t /\ t # "tree"
    BY <2>1
  <2>3. NewArbiter(type, n) = Plain(t, n)
    BY <2>2 DEF NewArbiter
  <2> QED
    BY <2>1, <2>3, PlainBuilt DEF Arbiters
<1>2. CASE \E g \in 1 .. n, t \in {"round_robin", "matrix"} : type = <<"tree", g, t>> /\ n % g = 0
  <2>1. PICK g \in 1 .. n, t \in {"round_robin", "matrix"} : type = <<"tree", g, t>> /\ n % g = 0
    BY <1>2
  <2>2. Head(type) = "tree" /\ type[2] = g /\ type[3] = t
    BY <2>1
  <2> DEFINE s == n \div g
             new == [type |-> "tree", size |-> n, groups |-> [h \in 0 .. g - 1 |-> Plain(t, s)],
                     global |-> Plain(t, g)]
  <2>3. NewArbiter(type, n) = new
    BY <2>2 DEF NewArbiter
  <2>4. s \in Nat \ {0} /\ g \in Nat \ {0}
    BY <2>1, Groups
  <2>5. Plain(t, s) \in Plains(s) /\ Plain(t, g) \in Plains(g)
    <3> HIDE DEF s
    <3> QED
      BY <2>4, PlainBuilt
  <2>6. new \in [type : {"tree"}, size : {n}, groups : [0 .. g - 1 -> Plains(s)], global : Plains(g)]
    <3> HIDE DEF s
    <3> QED
      BY <2>5
  <2>7. g \in {h \in 1 .. n : n % h = 0}
    BY <2>1
  <2>8. new \in Trees(n)
    <3> HIDE DEF new
    <3> QED
      BY <2>6, <2>7 DEF Trees
  <2> QED
    BY <2>3, <2>8 DEF Arbiters
<1> QED
  BY <1>1, <1>2 DEF CanBuild

(* What a tree is made of. *)
LEMMA TreeParts ==
  ASSUME NEW n \in Nat \ {0}, NEW a \in Trees(n)
  PROVE  \E g \in Nat \ {0}, s \in Nat \ {0} :
           /\ g \in {h \in 1 .. n : n % h = 0} /\ s = n \div g /\ g * s = n
           /\ a \in [type : {"tree"}, size : {n}, groups : [0 .. g - 1 -> Plains(s)], global : Plains(g)]
           /\ GroupSize(a) = s
<1>1. PICK g \in {h \in 1 .. n : n % h = 0} :
        a \in [type : {"tree"}, size : {n}, groups : [0 .. g - 1 -> Plains(n \div g)], global : Plains(g)]
  BY DEF Trees
<1>2. PICK s : s = n \div g
  OBVIOUS
<1>3. s \in Nat \ {0} /\ g * s = n /\ g \in Nat \ {0}
  BY <1>2, Groups
<1>4. a \in [type : {"tree"}, size : {n}, groups : [0 .. g - 1 -> Plains(s)], global : Plains(g)]
  BY <1>1, <1>2
<1>5. a.groups[0] \in Plains(s)
  <2>1. 0 \in 0 .. g - 1
    BY <1>3
  <2> QED
    BY <1>4, <2>1
<1>6. GroupSize(a) = s
  BY <1>5 DEF GroupSize, Plains, RoundRobins, Matrices
<1> QED
  BY <1>2, <1>3, <1>4, <1>6

(* UpdateState of any arbiter. *)
LEMMA Keeps ==
  ASSUME NEW n \in Nat \ {0}, NEW a \in Arbiters(n), NEW port \in 0 .. n - 1
  PROVE  UpdateState(a, port) \in Arbiters(n)
<1>1. CASE a \in Plains(n)
  <2>1. a.type # "tree"
    BY <1>1 DEF Plains, RoundRobins, Matrices
  <2> QED
    BY <1>1, <2>1, PlainKeeps DEF UpdateState, Arbiters
<1>2. CASE a \in Trees(n)
  <2>1. PICK g \in Nat \ {0}, s \in Nat \ {0} :
           /\ g \in {h \in 1 .. n : n % h = 0} /\ s = n \div g /\ g * s = n
           /\ a \in [type : {"tree"}, size : {n}, groups : [0 .. g - 1 -> Plains(s)], global : Plains(g)]
           /\ GroupSize(a) = s
    BY <1>2, TreeParts
  <2> DEFINE h == port \div s
             i == port % s
             group == PlainUpdate(a.groups[h], i)
             global == PlainUpdate(a.global, h)
             new == [a EXCEPT !.groups[h] = group, !.global = global]
  <2>2. h \in 0 .. g - 1 /\ i \in 0 .. s - 1
    <3>1. port \in 0 .. g * s - 1
      BY <2>1
    <3> QED
      BY <3>1, GroupOf
  <2>3. a.type = "tree" /\ a.groups \in [0 .. g - 1 -> Plains(s)] /\ a.global \in Plains(g)
    BY <2>1
  <2>4. UpdateState(a, port) = new
    BY <2>1, <2>3 DEF UpdateState
  <2>5. group \in Plains(s) /\ global \in Plains(g)
    <3> HIDE DEF h, i
    <3>1. a.groups[h] \in Plains(s)
      BY <2>2, <2>3
    <3> QED
      BY <2>2, <2>3, <3>1, PlainKeeps
  <2>6. new \in [type : {"tree"}, size : {n}, groups : [0 .. g - 1 -> Plains(s)], global : Plains(g)]
    <3> HIDE DEF group, global, h, i
    <3> QED
      BY <2>1, <2>5
  <2>7. new \in Trees(n)
    <3> HIDE DEF new
    <3> QED
      BY <2>1, <2>6 DEF Trees
  <2> QED
    BY <2>4, <2>7 DEF Arbiters
<1> QED
  BY <1>1, <1>2 DEF Arbiters

(* Every arbiter grants one of its requests. *)
LEMMA Decide ==
  ASSUME NEW n \in Nat \ {0}, NEW a \in Arbiters(n), NEW reqs, IsRequests(reqs, n)
  PROVE  /\ DOMAIN reqs # {} => Arbitrate(a, reqs) \in DOMAIN reqs
         /\ \A p \in DOMAIN reqs : reqs[p] <= reqs[Arbitrate(a, reqs)]
         /\ DOMAIN reqs = {} => Arbitrate(a, reqs) = NoGrant
<1>1. CASE a \in Plains(n)
  <2>1. a.type # "tree"
    BY <1>1 DEF Plains, RoundRobins, Matrices
  <2> QED
    BY <1>1, <2>1, PlainDecides DEF Arbitrate, Foremost
<1>2. CASE a \in Trees(n)
  <2>1. PICK g \in Nat \ {0}, s \in Nat \ {0} :
           /\ g \in {h \in 1 .. n : n % h = 0} /\ s = n \div g /\ g * s = n
           /\ a \in [type : {"tree"}, size : {n}, groups : [0 .. g - 1 -> Plains(s)], global : Plains(g)]
           /\ GroupSize(a) = s
    BY <1>2, TreeParts
  <2>2. a.type = "tree" /\ a.groups \in [0 .. g - 1 -> Plains(s)] /\ a.global \in Plains(g)
        /\ DOMAIN a.groups = 0 .. g - 1
    BY <2>1
  <2> DEFINE inGroup(h) == GroupRequests(a, reqs, h)
             winner == [h \in DOMAIN a.groups |-> PlainArbitrate(a.groups[h], inGroup(h))]
             port(h) == h * GroupSize(a) + winner[h]
             heads == [h \in {k \in DOMAIN a.groups : winner[k] # NoGrant} |-> reqs[port(h)]]
             group == PlainArbitrate(a.global, heads)
  <2>3. Arbitrate(a, reqs) = IF group = NoGrant THEN NoGrant ELSE port(group)
    BY <2>2 DEF Arbitrate, TreeArbitrate
  <2>4. \A h : /\ DOMAIN inGroup(h) = {j \in 0 .. s - 1 : h * s + j \in DOMAIN reqs}
               /\ \A j \in DOMAIN inGroup(h) : inGroup(h)[j] = reqs[h * s + j]
    BY <2>1 DEF GroupRequests
  <2>5. \A h : IsRequests(inGroup(h), s)
    <3> TAKE h
    <3> HIDE DEF inGroup
    <3>1. \A j \in DOMAIN inGroup(h) : reqs[h * s + j] \in Int
      BY <2>4 DEF IsRequests
    <3> QED
      BY <2>4, <3>1 DEF IsRequests
  <2>6. \A h \in 0 .. g - 1 : /\ DOMAIN inGroup(h) # {} =>
                                     /\ winner[h] \in DOMAIN inGroup(h)
                                     /\ \A j \in DOMAIN inGroup(h) : inGroup(h)[j] <= inGroup(h)[winner[h]]
                              /\ DOMAIN inGroup(h) = {} => winner[h] = NoGrant
    <3> TAKE h \in 0 .. g - 1
    <3>1. winner[h] = PlainArbitrate(a.groups[h], inGroup(h)) /\ a.groups[h] \in Plains(s)
      BY <2>2
    <3> HIDE DEF winner, inGroup
    <3> QED
      BY <2>5, <3>1, PlainDecides DEF Foremost
  <2> HIDE DEF inGroup, winner
  <2>7. \A h \in 0 .. g - 1 : winner[h] # NoGrant => port(h) \in DOMAIN reqs
    BY <2>1, <2>4, <2>6
  <2> HIDE DEF port
  <2>8. DOMAIN heads = {k \in 0 .. g - 1 : winner[k] # NoGrant} /\ \A h \in DOMAIN heads : heads[h] = reqs[port(h)]
    BY <2>2
  <2> HIDE DEF heads
  <2>9. IsRequests(heads, g)
    BY <2>7, <2>8 DEF IsRequests
  <2>10. /\ DOMAIN heads # {} => group \in DOMAIN heads /\ \A h \in DOMAIN heads : heads[h] <= heads[group]
         /\ DOMAIN heads = {} => group = NoGrant
    BY <2>2, <2>9, PlainDecides DEF Foremost
  <2> HIDE DEF group
  <2>11. CASE DOMAIN reqs = {}
    <3>1. \A h \in 0 .. g - 1 : winner[h] = NoGrant
      BY <2>4, <2>6, <2>11
    <3> QED
      BY <2>3, <2>8, <2>10, <2>11, <3>1
  <2>12. ASSUME NEW p \in DOMAIN reqs
         PROVE  Arbitrate(a, reqs) \in DOMAIN reqs /\ reqs[p] <= reqs[Arbitrate(a, reqs)]
    <3> DEFINE h == p \div s
               j == p % s
    <3>1. h \in 0 .. g - 1 /\ j \in 0 .. s - 1 /\ h * s + j = p
      <4>1. p \in 0 .. g * s - 1
        BY <2>1 DEF IsRequests
      <4> QED
        BY <4>1, GroupOf
    <3> HIDE DEF h, j
    <3>2. j \in DOMAIN inGroup(h) /\ inGroup(h)[j] = reqs[p]
      BY <2>4, <3>1
    <3>3. winner[h] \in DOMAIN inGroup(h) /\ winner[h] \in 0 .. s - 1 /\ reqs[p] <= inGroup(h)[winner[h]]
      BY <2>4, <2>6, <3>1, <3>2
    <3>4. winner[h] # NoGrant
      BY <3>3 DEF NoGrant
    <3>5. h \in DOMAIN heads /\ heads[h] = inGroup(h)[winner[h]]
      <4>1. port(h) = h * s + winner[h]
        BY <2>1 DEF port
      <4> QED
        BY <2>4, <2>8, <3>1, <3>3, <3>4, <4>1
    <3>6. group \in DOMAIN heads /\ heads[h] <= heads[group] /\ \A k \in 0 .. g - 1 : k # NoGrant
      BY <2>10, <3>5 DEF NoGrant
    <3>7. port(group) \in DOMAIN reqs /\ group # NoGrant /\ heads[group] = reqs[port(group)]
      BY <2>7, <2>8, <3>6
    <3>8. reqs[p] \in Int /\ reqs[port(group)] \in Int /\ heads[h] \in Int
      BY <2>9, <3>5, <3>7 DEF IsRequests
    <3> QED
      BY <2>3, <3>3, <3>5, <3>6, <3>7, <3>8
  <2> QED
    BY <2>11, <2>12
<1> QED
  BY <1>1, <1>2 DEF Arbiters

-----------------------------------------------------------------------------
(* Requests and matches. *)

(* Where an allocator leaves a matching: everywhere but in select with     *)
(* more than one iteration.                                                *)
Decisions == config.kind = "select" => config.iters = 1

MatchType == [in : [Input -> Output \cup {Unmatched}], out : [Output -> Input \cup {Unmatched}]]

(* A matching of requests r: both sides agree, and every pair requests. *)
IsMatch(m, r) ==
  /\ m \in MatchType
  /\ \A i \in Input, o \in Output : m.in[i] = o <=> m.out[o] = i
  /\ \A i \in Input : m.in[i] # Unmatched => <<i, m.in[i]>> \in DOMAIN r

MatchedIn(m) == {i \in Input : m.in[i] # Unmatched}
MatchedOut(m) == {o \in Output : m.out[o] # Unmatched}
Pairs(m) == {c \in Input \X Output : m.in[c[1]] = c[2]}

(* Each request has the same priority on both sides. *)
Even(r) == \A c \in DOMAIN r : r[c][1] = r[c][2]

(* Whatever is requested, a request of no lower priority is granted. *)
Answers(r, m) == \A c \in DOMAIN r : \E d \in Pairs(m) \cap DOMAIN r : Even(r) => r[c][1] <= r[d][1]

(* The size of the allocator. *)
LEMMA Sizes ==
  ASSUME config \in Configs
  PROVE  /\ config.inputs \in Nat \ {0} /\ config.outputs \in Nat \ {0} /\ config.iters \in Nat \ {0}
         /\ Input = 0 .. config.inputs - 1 /\ Output = 0 .. config.outputs - 1
         /\ NoGrant \notin Input /\ NoGrant \notin Output /\ Unmatched = NoGrant
<1>1. config.inputs \in Nat \ {0} /\ config.outputs \in Nat \ {0} /\ config.iters \in Nat \ {0}
  BY ConfigAssumption
<1> QED
  BY <1>1 DEF Input, Output, NoGrant, Unmatched

(* The sets of matched ports are finite. *)
LEMMA MatchedFinite ==
  ASSUME config \in Configs, NEW m
  PROVE  /\ IsFiniteSet(MatchedIn(m)) /\ Cardinality(MatchedIn(m)) \in Nat
         /\ IsFiniteSet(MatchedOut(m)) /\ Cardinality(MatchedOut(m)) \in Nat
         /\ IsFiniteSet(Input) /\ Cardinality(Input) = config.inputs
         /\ IsFiniteSet(Output) /\ Cardinality(Output) = config.outputs
<1>1. config.inputs \in Nat \ {0} /\ config.outputs \in Nat \ {0}
      /\ Input = 0 .. config.inputs - 1 /\ Output = 0 .. config.outputs - 1
  BY Sizes
<1>2. ASSUME NEW n \in Nat \ {0} PROVE IsFiniteSet(0 .. n - 1) /\ Cardinality(0 .. n - 1) = n
  <2>1. 0 \in Int /\ n - 1 \in Int
    OBVIOUS
  <2>2. IsFiniteSet(0 .. n - 1) /\ Cardinality(0 .. n - 1) = IF 0 > n - 1 THEN 0 ELSE (n - 1) - 0 + 1
    BY <2>1, FS_Interval
  <2> QED
    BY <2>2
<1>3. MatchedIn(m) \subseteq Input /\ MatchedOut(m) \subseteq Output
  BY DEF MatchedIn, MatchedOut
<1> QED
  BY <1>1, <1>2, <1>3, FS_Subset, FS_CardinalityType

(* What a port requests are requests to its arbiter. *)
LEMMA Asked ==
  ASSUME config \in Configs, NEW r \in Requests
  PROVE  /\ DOMAIN r \subseteq Input \X Output /\ IsFiniteSet(DOMAIN r)
         /\ \A c \in DOMAIN r : r[c] \in Int \X Int
         /\ \A i \in Input : IsRequests(InPri(r, i), config.outputs)
         /\ \A o \in Output : IsRequests(OutPri(r, o), config.inputs)
<1>1. PICK S \in SUBSET (Input \X Output) : r \in [S -> config.pris]
  BY DEF Requests
<1>2. config.pris \subseteq Int \X Int
  BY ConfigAssumption
<1>3. DOMAIN r \subseteq Input \X Output /\ \A c \in DOMAIN r : r[c] \in Int \X Int
  BY <1>1, <1>2
<1>4. ASSUME NEW i \in Input PROVE IsRequests(InPri(r, i), config.outputs)
  <2>1. DOMAIN InPri(r, i) = Requested(r, i) /\ \A o \in Requested(r, i) : InPri(r, i)[o] = r[<<i, o>>][1]
    BY DEF InPri
  <2>2. Requested(r, i) \subseteq Output /\ \A o \in Requested(r, i) : r[<<i, o>>][1] \in Int
    BY <1>3 DEF Requested
  <2> QED
    BY <2>1, <2>2, Sizes DEF IsRequests
<1>5. ASSUME NEW o \in Output PROVE IsRequests(OutPri(r, o), config.inputs)
  <2>1. DOMAIN OutPri(r, o) = Requesting(r, o) /\ \A i \in Requesting(r, o) : OutPri(r, o)[i] = r[<<i, o>>][2]
    BY DEF OutPri
  <2>2. Requesting(r, o) \subseteq Input /\ \A i \in Requesting(r, o) : r[<<i, o>>][2] \in Int
    BY <1>3 DEF Requesting
  <2> QED
    BY <2>1, <2>2, Sizes DEF IsRequests
<1>6. IsFiniteSet(DOMAIN r)
  <2>1. IsFiniteSet(Input) /\ IsFiniteSet(Output)
    BY Sizes, PortsFinite
  <2>2. IsFiniteSet(Input \X Output)
    BY <2>1, FS_Product
  <2> QED
    BY <1>3, <2>2, FS_Subset
<1> QED
  BY <1>3, <1>4, <1>5, <1>6

(* The empty match. *)
LEMMA EmptyMatches ==
  ASSUME config \in Configs, NEW r
  PROVE  IsMatch(EmptyMatch, r)
<1>1. /\ EmptyMatch.in = [i \in Input |-> Unmatched] /\ EmptyMatch.out = [o \in Output |-> Unmatched]
      /\ EmptyMatch \in MatchType
  BY DEF EmptyMatch, MatchType
<1>2. \A i \in Input, o \in Output : Unmatched # i /\ Unmatched # o
  BY Sizes
<1> QED
  BY <1>1, <1>2 DEF IsMatch

-----------------------------------------------------------------------------
(* The rows of arbiters of the separable allocators. *)

Armed == /\ inArb \in [Input -> Arbiters(config.outputs)]
         /\ outArb \in [Output -> Arbiters(config.inputs)]

(* An arbiter of a size decides. *)
LEMMA ArmedDecide ==
  ASSUME config \in Configs, Armed
  PROVE  ArbitersDecide
<1>1. ASSUME NEW n \in Nat \ {0}, NEW a \in Arbiters(n)
      PROVE  Decides(a)
  <2>1. a.size = n
    BY <1>1 DEF Arbiters, Plains, RoundRobins, Matrices, Trees
  <2>2. ASSUME NEW S \in SUBSET (0 .. n - 1), S # {}
        PROVE  Arbitrate(a, [i \in S |-> 0]) \in S
    <3> DEFINE reqs == [i \in S |-> 0]
    <3>1. DOMAIN reqs = S /\ \A i \in S : reqs[i] \in Int
      OBVIOUS
    <3> HIDE DEF reqs
    <3>2. IsRequests(reqs, n)
      BY <3>1 DEF IsRequests
    <3>3. Arbitrate(a, reqs) \in S
      BY <1>1, <2>2, <3>1, <3>2, Decide
    <3> QED
      BY <3>3 DEF reqs
  <2> QED
    BY <2>1, <2>2 DEF Decides
<1> QED
  BY <1>1, Sizes DEF Armed, ArbitersDecide

(* The first row: each port picks one of its requests of highest priority. *)
LEMMA FirstRow ==
  ASSUME config \in Configs, Armed, NEW r \in Requests
  PROVE  /\ \A i \in Input : \/ Arbitrate(inArb[i], InPri(r, i)) \in Requested(r, i)
                             \/ Arbitrate(inArb[i], InPri(r, i)) = NoGrant
         /\ \A o \in Output : \/ Arbitrate(outArb[o], OutPri(r, o)) \in Requesting(r, o)
                              \/ Arbitrate(outArb[o], OutPri(r, o)) = NoGrant
         /\ \A i \in Input : \A o \in Requested(r, i) :
              /\ Arbitrate(inArb[i], InPri(r, i)) \in Requested(r, i)
              /\ r[<<i, o>>][1] <= r[<<i, Arbitrate(inArb[i], InPri(r, i))>>][1]
         /\ \A o \in Output : \A i \in Requesting(r, o) :
              /\ Arbitrate(outArb[o], OutPri(r, o)) \in Requesting(r, o)
              /\ r[<<i, o>>][2] <= r[<<Arbitrate(outArb[o], OutPri(r, o)), o>>][2]
<1>1. ASSUME NEW i \in Input
      PROVE  LET a == Arbitrate(inArb[i], InPri(r, i))
             IN  /\ a \in Requested(r, i) \/ a = NoGrant
                 /\ \A o \in Requested(r, i) : a \in Requested(r, i) /\ r[<<i, o>>][1] <= r[<<i, a>>][1]
  <2> DEFINE a == Arbitrate(inArb[i], InPri(r, i))
  <2>1. inArb[i] \in Arbiters(config.outputs) /\ config.outputs \in Nat \ {0}
    BY Sizes DEF Armed
  <2>2. IsRequests(InPri(r, i), config.outputs) /\ DOMAIN InPri(r, i) = Requested(r, i)
    BY Asked DEF InPri
  <2>3. /\ Requested(r, i) # {} => a \in Requested(r, i)
        /\ \A o \in Requested(r, i) : InPri(r, i)[o] <= InPri(r, i)[a]
        /\ Requested(r, i) = {} => a = NoGrant
    BY <2>1, <2>2, Decide
  <2>4. \A o \in Requested(r, i) : InPri(r, i)[o] = r[<<i, o>>][1]
    BY DEF InPri
  <2> HIDE DEF a
  <2>5. \A o \in Requested(r, i) : a \in Requested(r, i) /\ r[<<i, o>>][1] <= r[<<i, a>>][1]
    BY <2>3, <2>4
  <2> QED
    BY <2>3, <2>5 DEF a
<1>2. ASSUME NEW o \in Output
      PROVE  LET a == Arbitrate(outArb[o], OutPri(r, o))
             IN  /\ a \in Requesting(r, o) \/ a = NoGrant
                 /\ \A i \in Requesting(r, o) : a \in Requesting(r, o) /\ r[<<i, o>>][2] <= r[<<a, o>>][2]
  <2> DEFINE a == Arbitrate(outArb[o], OutPri(r, o))
  <2>1. outArb[o] \in Arbiters(config.inputs) /\ config.inputs \in Nat \ {0}
    BY Sizes DEF Armed
  <2>2. IsRequests(OutPri(r, o), config.inputs) /\ DOMAIN OutPri(r, o) = Requesting(r, o)
    BY Asked DEF OutPri
  <2>3. /\ Requesting(r, o) # {} => a \in Requesting(r, o)
        /\ \A i \in Requesting(r, o) : OutPri(r, o)[i] <= OutPri(r, o)[a]
        /\ Requesting(r, o) = {} => a = NoGrant
    BY <2>1, <2>2, Decide
  <2>4. \A i \in Requesting(r, o) : OutPri(r, o)[i] = r[<<i, o>>][2]
    BY DEF OutPri
  <2> HIDE DEF a
  <2>5. \A i \in Requesting(r, o) : a \in Requesting(r, o) /\ r[<<i, o>>][2] <= r[<<a, o>>][2]
    BY <2>3, <2>4
  <2> QED
    BY <2>3, <2>5 DEF a
<1> QED
  BY <1>1, <1>2

(* Updating the arbiters of what has been granted. *)
LEMMA StaysArmed ==
  ASSUME config \in Configs, Armed, NEW m \in MatchType, UpdateGranted(m), config' = config
  PROVE  Armed'
<1>1. Input' = Input /\ Output' = Output
  BY DEF Input, Output
<1>2. ASSUME NEW i \in Input, m.in[i] # Unmatched
      PROVE  UpdateState(inArb[i], m.in[i]) \in Arbiters(config.outputs)
  <2>1. inArb[i] \in Arbiters(config.outputs) /\ m.in[i] \in 0 .. config.outputs - 1 /\ config.outputs \in Nat \ {0}
    BY <1>2, Sizes DEF Armed, MatchType
  <2> QED
    BY <2>1, Keeps
<1>3. ASSUME NEW o \in Output, m.out[o] # Unmatched
      PROVE  UpdateState(outArb[o], m.out[o]) \in Arbiters(config.inputs)
  <2>1. outArb[o] \in Arbiters(config.inputs) /\ m.out[o] \in 0 .. config.inputs - 1 /\ config.inputs \in Nat \ {0}
    BY <1>3, Sizes DEF Armed, MatchType
  <2> QED
    BY <2>1, Keeps
<1>4. inArb' \in [Input -> Arbiters(config.outputs)]
  BY <1>2 DEF UpdateGranted, Armed
<1>5. outArb' \in [Output -> Arbiters(config.inputs)]
  BY <1>3 DEF UpdateGranted, Armed
<1> QED
  BY <1>1, <1>4, <1>5 DEF Armed

(* SeparableInputFirstAllocator::Allocate returns a matching that answers. *)
LEMMA InputFirstMatches ==
  ASSUME config \in Configs, Armed, NEW r \in Requests, AllocateInputFirst(r)
  PROVE  \E m : IsMatch(m, r) /\ Answers(r, m) /\ Matched(r, m) /\ UpdateGranted(m)
<1> DEFINE offer == [i \in Input |-> Arbitrate(inArb[i], InPri(r, i))]
           offered(o) == [i \in {j \in Requesting(r, o) : offer[j] = o} |-> r[<<i, o>>][2]]
           grant == [o \in Output |-> Arbitrate(outArb[o], offered(o))]
           m == [in  |-> [i \in Input |-> IF \E o \in Output : grant[o] = i THEN offer[i] ELSE Unmatched],
                 out |-> grant]
<1>1. Matched(r, m) /\ UpdateGranted(m)
  BY DEF AllocateInputFirst
<1>2. \A i \in Input : offer[i] \in Requested(r, i) \/ offer[i] = NoGrant
  BY FirstRow
<1>3. \A i \in Input : \A o \in Requested(r, i) :
        offer[i] \in Requested(r, i) /\ r[<<i, o>>][1] <= r[<<i, offer[i]>>][1]
  BY FirstRow
<1>4. /\ \A i \in Input : Requested(r, i) \subseteq Output
      /\ \A o \in Output : Requesting(r, o) \subseteq Input
      /\ \A i \in Input, o \in Output : /\ o \in Requested(r, i) <=> <<i, o>> \in DOMAIN r
                                        /\ i \in Requesting(r, o) <=> <<i, o>> \in DOMAIN r
  BY DEF Requested, Requesting
<1> HIDE DEF offer
<1>5. \A o \in Output : DOMAIN offered(o) = {j \in Requesting(r, o) : offer[j] = o}
  OBVIOUS
<1>6. ASSUME NEW o \in Output PROVE IsRequests(offered(o), config.inputs)
  <2>1. \A i \in DOMAIN offered(o) : offered(o)[i] = r[<<i, o>>][2]
    OBVIOUS
  <2>2. \A i \in Requesting(r, o) : r[<<i, o>>][2] \in Int
    BY Asked DEF Requesting
  <2>3. DOMAIN offered(o) \subseteq 0 .. config.inputs - 1
    BY <1>4, <1>5, Sizes
  <2> HIDE DEF offered
  <2> QED
    BY <1>5, <2>1, <2>2, <2>3 DEF IsRequests
<1>7. ASSUME NEW o \in Output
      PROVE  grant[o] \in DOMAIN offered(o) \/ grant[o] = NoGrant
  <2>1. grant[o] = Arbitrate(outArb[o], offered(o))
    OBVIOUS
  <2>2. outArb[o] \in Arbiters(config.inputs) /\ config.inputs \in Nat \ {0}
    BY Sizes DEF Armed
  <2> HIDE DEF grant, offered
  <2> QED
    BY <1>6, <2>1, <2>2, Decide
<1>8. ASSUME NEW o \in Output, NEW i \in DOMAIN offered(o)
      PROVE  grant[o] \in DOMAIN offered(o) /\ r[<<i, o>>][2] <= r[<<grant[o], o>>][2]
  <2>1. grant[o] = Arbitrate(outArb[o], offered(o))
    OBVIOUS
  <2>2. outArb[o] \in Arbiters(config.inputs) /\ config.inputs \in Nat \ {0}
    BY Sizes DEF Armed
  <2>3. \A j \in DOMAIN offered(o) : offered(o)[j] = r[<<j, o>>][2]
    OBVIOUS
  <2> HIDE DEF grant, offered
  <2>4. grant[o] \in DOMAIN offered(o) /\ offered(o)[i] <= offered(o)[grant[o]]
    BY <1>6, <1>8, <2>1, <2>2, Decide
  <2> QED
    BY <1>8, <2>3, <2>4
<1>9. \A o \in Output : \/ grant[o] \in Input /\ offer[grant[o]] = o /\ <<grant[o], o>> \in DOMAIN r
                        \/ grant[o] = NoGrant
  <2> HIDE DEF grant, offered
  <2> QED
    BY <1>4, <1>5, <1>7
<1>10. /\ m.out = grant
       /\ \A i \in Input : m.in[i] = IF \E o \in Output : grant[o] = i THEN offer[i] ELSE Unmatched
       /\ m = [in |-> [i \in Input |-> m.in[i]], out |-> [o \in Output |-> grant[o]]]
  OBVIOUS
<1> HIDE DEF m, grant, offered
<1>11. ASSUME NEW c \in DOMAIN r
       PROVE  \E d \in Pairs(m) \cap DOMAIN r : Even(r) => r[c][1] <= r[d][1]
  <2> DEFINE i == c[1]
             o == offer[i]
             j == grant[o]
             d == <<j, o>>
  <2>1. i \in Input /\ c = <<i, c[2]>> /\ c[2] \in Requested(r, i)
    BY Asked DEF Requested
  <2>2. o \in Requested(r, i) /\ o \in Output /\ r[c][1] <= r[<<i, o>>][1] /\ <<i, o>> \in DOMAIN r
    BY <1>3, <1>4, <2>1
  <2>3. i \in DOMAIN offered(o)
    BY <1>4, <1>5, <2>1, <2>2
  <2>4. j \in DOMAIN offered(o) /\ r[<<i, o>>][2] <= r[d][2]
    BY <1>8, <2>2, <2>3
  <2>5. j \in Input /\ offer[j] = o /\ d \in DOMAIN r
    BY <1>4, <1>5, <2>2, <2>4
  <2>6. m.in[j] = o
    BY <1>10, <2>2, <2>5
  <2>7. d \in Pairs(m)
    BY <2>2, <2>5, <2>6 DEF Pairs
  <2>8. Even(r) => r[c][1] <= r[d][1]
    <3>1. /\ r[c][1] \in Int /\ r[<<i, o>>][1] \in Int /\ r[<<i, o>>][2] \in Int
          /\ r[d][1] \in Int /\ r[d][2] \in Int
      BY <2>2, <2>5, Asked
    <3>2. Even(r) => r[<<i, o>>][1] = r[<<i, o>>][2] /\ r[d][1] = r[d][2]
      BY <2>2, <2>5 DEF Even
    <3> HIDE DEF d, o
    <3> QED
      BY <2>2, <2>4, <3>1, <3>2
  <2> QED
    BY <2>5, <2>7, <2>8
<1>12. ASSUME NEW i \in Input, NEW o \in Output
       PROVE  m.in[i] = o <=> grant[o] = i
  <2>1. ASSUME grant[o] = i PROVE m.in[i] = o
    BY <1>9, <1>10, <2>1, Sizes
  <2>2. ASSUME m.in[i] = o PROVE grant[o] = i
    <3>1. PICK p \in Output : grant[p] = i /\ offer[i] = o
      BY <1>10, <2>2, Sizes
    <3> QED
      BY <1>9, <3>1, Sizes
  <2> QED
    BY <2>1, <2>2
<1>13. m \in MatchType
  <2>1. \A o \in Output : grant[o] \in Input \cup {Unmatched}
    BY <1>9, Sizes
  <2>2. \A i \in Input : m.in[i] \in Output \cup {Unmatched}
    BY <1>2, <1>4, <1>10, Sizes
  <2> QED
    BY <1>10, <2>1, <2>2 DEF MatchType
<1>14. ASSUME NEW i \in Input, m.in[i] # Unmatched
       PROVE  <<i, m.in[i]>> \in DOMAIN r
  BY <1>2, <1>4, <1>10, <1>14, Sizes
<1>15. IsMatch(m, r)
  BY <1>10, <1>12, <1>13, <1>14 DEF IsMatch
<1>16. Answers(r, m)
  BY <1>11 DEF Answers
<1> QED
  BY <1>1, <1>15, <1>16 DEF m, grant, offered, offer

(* SeparableOutputFirstAllocator::Allocate returns a matching that answers. *)
LEMMA OutputFirstMatches ==
  ASSUME config \in Configs, Armed, NEW r \in Requests, AllocateOutputFirst(r)
  PROVE  \E m : IsMatch(m, r) /\ Answers(r, m) /\ Matched(r, m) /\ UpdateGranted(m)
<1> DEFINE offer == [o \in Output |-> Arbitrate(outArb[o], OutPri(r, o))]
           offered(i) == [o \in {p \in Requested(r, i) : offer[p] = i} |-> r[<<i, o>>][1]]
           grant == [i \in Input |-> Arbitrate(inArb[i], offered(i))]
           m == [in  |-> grant,
                 out |-> [o \in Output |-> IF \E i \in Input : grant[i] = o THEN offer[o] ELSE Unmatched]]
<1>1. Matched(r, m) /\ UpdateGranted(m)
  BY DEF AllocateOutputFirst
<1>2. \A o \in Output : offer[o] \in Requesting(r, o) \/ offer[o] = NoGrant
  BY FirstRow
<1>3. \A o \in Output : \A i \in Requesting(r, o) :
        offer[o] \in Requesting(r, o) /\ r[<<i, o>>][2] <= r[<<offer[o], o>>][2]
  BY FirstRow
<1>4. /\ \A i \in Input : Requested(r, i) \subseteq Output
      /\ \A o \in Output : Requesting(r, o) \subseteq Input
      /\ \A i \in Input, o \in Output : /\ o \in Requested(r, i) <=> <<i, o>> \in DOMAIN r
                                        /\ i \in Requesting(r, o) <=> <<i, o>> \in DOMAIN r
  BY DEF Requested, Requesting
<1> HIDE DEF offer
<1>5. \A i \in Input : DOMAIN offered(i) = {p \in Requested(r, i) : offer[p] = i}
  OBVIOUS
<1>6. ASSUME NEW i \in Input PROVE IsRequests(offered(i), config.outputs)
  <2>1. \A o \in DOMAIN offered(i) : offered(i)[o] = r[<<i, o>>][1]
    OBVIOUS
  <2>2. \A o \in Requested(r, i) : r[<<i, o>>][1] \in Int
    BY Asked DEF Requested
  <2>3. DOMAIN offered(i) \subseteq 0 .. config.outputs - 1
    BY <1>4, <1>5, Sizes
  <2> HIDE DEF offered
  <2> QED
    BY <1>5, <2>1, <2>2, <2>3 DEF IsRequests
<1>7. ASSUME NEW i \in Input
      PROVE  grant[i] \in DOMAIN offered(i) \/ grant[i] = NoGrant
  <2>1. grant[i] = Arbitrate(inArb[i], offered(i))
    OBVIOUS
  <2>2. inArb[i] \in Arbiters(config.outputs) /\ config.outputs \in Nat \ {0}
    BY Sizes DEF Armed
  <2> HIDE DEF grant, offered
  <2> QED
    BY <1>6, <2>1, <2>2, Decide
<1>8. ASSUME NEW i \in Input, NEW o \in DOMAIN offered(i)
      PROVE  grant[i] \in DOMAIN offered(i) /\ r[<<i, o>>][1] <= r[<<i, grant[i]>>][1]
  <2>1. grant[i] = Arbitrate(inArb[i], offered(i))
    OBVIOUS
  <2>2. inArb[i] \in Arbiters(config.outputs) /\ config.outputs \in Nat \ {0}
    BY Sizes DEF Armed
  <2>3. \A p \in DOMAIN offered(i) : offered(i)[p] = r[<<i, p>>][1]
    OBVIOUS
  <2> HIDE DEF grant, offered
  <2>4. grant[i] \in DOMAIN offered(i) /\ offered(i)[o] <= offered(i)[grant[i]]
    BY <1>6, <1>8, <2>1, <2>2, Decide
  <2> QED
    BY <1>8, <2>3, <2>4
<1>9. \A i \in Input : \/ grant[i] \in Output /\ offer[grant[i]] = i /\ <<i, grant[i]>> \in DOMAIN r
                       \/ grant[i] = NoGrant
  <2> HIDE DEF grant, offered
  <2> QED
    BY <1>4, <1>5, <1>7
<1>10. /\ m.in = grant
       /\ \A o \in Output : m.out[o] = IF \E i \in Input : grant[i] = o THEN offer[o] ELSE Unmatched
       /\ m = [in |-> [i \in Input |-> grant[i]], out |-> [o \in Output |-> m.out[o]]]
  OBVIOUS
<1> HIDE DEF m, grant, offered
<1>11. ASSUME NEW c \in DOMAIN r
       PROVE  \E d \in Pairs(m) \cap DOMAIN r : Even(r) => r[c][1] <= r[d][1]
  <2> DEFINE o == c[2]
             i == offer[o]
             p == grant[i]
             d == <<i, p>>
  <2>1. o \in Output /\ c = <<c[1], o>> /\ c[1] \in Requesting(r, o)
    BY Asked DEF Requesting
  <2>2. i \in Requesting(r, o) /\ i \in Input /\ r[c][2] <= r[<<i, o>>][2] /\ <<i, o>> \in DOMAIN r
    BY <1>3, <1>4, <2>1
  <2>3. o \in DOMAIN offered(i)
    BY <1>4, <1>5, <2>1, <2>2
  <2>4. p \in DOMAIN offered(i) /\ r[<<i, o>>][1] <= r[d][1]
    BY <1>8, <2>2, <2>3
  <2>5. p \in Output /\ d \in DOMAIN r
    BY <1>4, <1>5, <2>2, <2>4
  <2>6. m.in[i] = p
    BY <1>10
  <2>7. d \in Pairs(m)
    BY <2>2, <2>5, <2>6 DEF Pairs
  <2>8. Even(r) => r[c][1] <= r[d][1]
    <3>1. /\ r[c][1] \in Int /\ r[c][2] \in Int /\ r[<<i, o>>][1] \in Int /\ r[<<i, o>>][2] \in Int
          /\ r[d][1] \in Int
      BY <2>2, <2>5, Asked
    <3>2. Even(r) => r[<<i, o>>][1] = r[<<i, o>>][2] /\ r[c][1] = r[c][2]
      BY <2>2 DEF Even
    <3> HIDE DEF d, i, o
    <3> QED
      BY <2>2, <2>4, <3>1, <3>2
  <2> QED
    BY <2>5, <2>7, <2>8
<1>12. ASSUME NEW i \in Input, NEW o \in Output
       PROVE  grant[i] = o <=> m.out[o] = i
  <2>1. ASSUME grant[i] = o PROVE m.out[o] = i
    BY <1>9, <1>10, <2>1, Sizes
  <2>2. ASSUME m.out[o] = i PROVE grant[i] = o
    <3>1. PICK j \in Input : grant[j] = o /\ offer[o] = i
      BY <1>10, <2>2, Sizes
    <3> QED
      BY <1>9, <3>1, Sizes
  <2> QED
    BY <2>1, <2>2
<1>13. m \in MatchType
  <2>1. \A i \in Input : grant[i] \in Output \cup {Unmatched}
    BY <1>9, Sizes
  <2>2. \A o \in Output : m.out[o] \in Input \cup {Unmatched}
    BY <1>2, <1>4, <1>10, Sizes
  <2> QED
    BY <1>10, <2>1, <2>2 DEF MatchType
<1>14. \A i \in Input : grant[i] # Unmatched => <<i, grant[i]>> \in DOMAIN r
  BY <1>9, Sizes
<1>15. IsMatch(m, r)
  BY <1>10, <1>12, <1>13, <1>14 DEF IsMatch
<1>16. Answers(r, m)
  BY <1>11 DEF Answers
<1> QED
  BY <1>1, <1>15, <1>16 DEF m, grant, offered, offer

(* LOA::Allocate returns a matching, and grants something if there is a request. *)
LEMMA LOAMatches ==
  ASSUME config \in Configs, gptrs \in [Output -> Input], aptrs \in [Input -> Output],
         NEW r \in Requests, AllocateLOA(r)
  PROVE  \E m : IsMatch(m, r) /\ (DOMAIN r # {} => Pairs(m) # {}) /\ Matched(r, m)
<1> DEFINE count(o) == Cardinality(Requesting(r, o))
           least(i) == {o \in Requested(r, i) : \A other \in Requested(r, i) : count(o) <= count(other)}
           lonely(i) == IF least(i) = {} THEN NoGrant ELSE FirstFrom(least(i), aptrs[i], config.outputs)
           wanting(o) == {i \in Input : lonely(i) = o}
           granted == [o \in Output |-> IF wanting(o) = {} THEN NoGrant
                                        ELSE FirstFrom(wanting(o), gptrs[o], config.inputs)]
           won == {i \in Input : \E o \in Output : granted[o] = i}
           m == [in |-> [i \in Input |-> IF i \in won THEN lonely(i) ELSE Unmatched], out |-> granted]
<1>1. Matched(r, m)
  BY DEF AllocateLOA
<1>2. ASSUME NEW i \in Input
      PROVE  /\ lonely(i) \in Requested(r, i) \/ lonely(i) = NoGrant
             /\ Requested(r, i) # {} => lonely(i) \in Requested(r, i)
  <2>1. CASE least(i) = {}
    <3>1. ASSUME Requested(r, i) # {} PROVE least(i) # {}
      <4> DEFINE counts == [o \in Requested(r, i) |-> count(o)]
      <4>1. IsFiniteSet(Requested(r, i)) /\ \A o \in Requested(r, i) : o \in Output
        <5>1. Requested(r, i) \subseteq Output /\ IsFiniteSet(Output)
          BY MatchedFinite DEF Requested
        <5> QED
          BY <5>1, FS_Subset
      <4>2. \A o \in Requested(r, i) : counts[o] \in Int
        <5>1. ASSUME NEW o \in Requested(r, i) PROVE count(o) \in Nat
          <6>1. Requesting(r, o) \subseteq Input /\ IsFiniteSet(Input)
            BY MatchedFinite DEF Requesting
          <6> QED
            BY <6>1, FS_Subset, FS_CardinalityType
        <5> HIDE DEF count
        <5> QED
          BY <5>1
      <4>3. \E o \in Requested(r, i) : \A other \in Requested(r, i) : counts[o] <= counts[other]
        <5> HIDE DEF counts
        <5> QED
          BY <3>1, <4>1, <4>2, LeastKey
      <4>4. \E o \in Requested(r, i) : \A other \in Requested(r, i) : count(o) <= count(other)
        <5> HIDE DEF count
        <5> QED
          BY <4>3
      <4> QED
        BY <4>4
    <3> QED
      BY <2>1, <3>1
  <2>2. CASE least(i) # {}
    <3>1. least(i) \subseteq Requested(r, i) /\ Requested(r, i) \subseteq Output
      BY DEF Requested
    <3> HIDE DEF least
    <3>2. least(i) \in SUBSET (0 .. config.outputs - 1) /\ aptrs[i] \in Int /\ config.outputs \in Nat \ {0}
      BY <3>1, Sizes
    <3>3. FirstFrom(least(i), aptrs[i], config.outputs) \in least(i)
      BY <2>2, <3>2, FirstIsOne
    <3> QED
      BY <2>2, <3>1, <3>3
  <2> QED
    BY <2>1, <2>2
<1>3. /\ \A i \in Input : Requested(r, i) \subseteq Output
      /\ \A i \in Input, o \in Output : o \in Requested(r, i) <=> <<i, o>> \in DOMAIN r
  BY DEF Requested
<1> HIDE DEF lonely
<1>4. ASSUME NEW o \in Output
      PROVE  /\ granted[o] \in wanting(o) \/ granted[o] = NoGrant
             /\ wanting(o) # {} => granted[o] \in wanting(o)
  <2>1. CASE wanting(o) = {}
    BY <2>1
  <2>2. CASE wanting(o) # {}
    <3>1. wanting(o) \in SUBSET (0 .. config.inputs - 1)
      BY Sizes
    <3>2. granted[o] = FirstFrom(wanting(o), gptrs[o], config.inputs)
      BY <2>2
    <3>3. gptrs[o] \in Int /\ config.inputs \in Nat \ {0}
      BY Sizes
    <3> HIDE DEF wanting, granted
    <3> QED
      BY <2>2, <3>1, <3>2, <3>3, FirstIsOne
  <2> QED
    BY <2>1, <2>2
<1>5. \A o \in Output : \/ granted[o] \in Input /\ lonely(granted[o]) = o
                        \/ granted[o] = NoGrant
  <2> HIDE DEF granted
  <2> QED
    BY <1>4
<1>6. ASSUME NEW c \in DOMAIN r PROVE Pairs(m) # {}
  <2> DEFINE o == lonely(c[1])
  <2>1. c[1] \in Input /\ c[2] \in Requested(r, c[1])
    <3>1. c[1] \in Input /\ c[2] \in Output /\ c = <<c[1], c[2]>>
      BY Asked
    <3> QED
      BY <3>1 DEF Requested
  <2>2. o \in Output /\ o \in Requested(r, c[1])
    BY <1>2, <1>3, <2>1
  <2>3. c[1] \in wanting(o)
    BY <2>1
  <2>4. granted[o] \in wanting(o)
    <3> HIDE DEF granted, wanting, o
    <3> QED
      BY <1>4, <2>2, <2>3
  <2>5. granted[o] \in Input /\ lonely(granted[o]) = o
    <3> HIDE DEF granted
    <3> QED
      BY <2>4
  <2>6. m.in[granted[o]] = o
    <3> DEFINE i == granted[o]
    <3>1. i \in won
      BY <2>2, <2>5
    <3>2. m.in[i] = IF i \in won THEN lonely(i) ELSE Unmatched
      BY <2>5
    <3> HIDE DEF m, won, i, o
    <3> QED
      BY <2>5, <3>1, <3>2 DEF i
  <2>7. <<granted[o], o>> \in Pairs(m)
    <3> HIDE DEF m, granted, o
    <3> QED
      BY <2>2, <2>5, <2>6 DEF Pairs
  <2> QED
    BY <2>7
<1>7. /\ m.out = granted
      /\ \A i \in Input : m.in[i] = IF \E o \in Output : granted[o] = i THEN lonely(i) ELSE Unmatched
      /\ m = [in |-> [i \in Input |-> m.in[i]], out |-> [o \in Output |-> granted[o]]]
  OBVIOUS
<1> HIDE DEF m, won, granted, wanting
<1>8. ASSUME NEW i \in Input, NEW o \in Output
      PROVE  m.in[i] = o <=> granted[o] = i
  <2>1. ASSUME granted[o] = i PROVE m.in[i] = o
    BY <1>5, <1>7, <2>1, Sizes
  <2>2. ASSUME m.in[i] = o PROVE granted[o] = i
    <3>1. PICK p \in Output : granted[p] = i /\ lonely(i) = o
      BY <1>7, <2>2, Sizes
    <3> QED
      BY <1>5, <3>1, Sizes
  <2> QED
    BY <2>1, <2>2
<1>9. m \in MatchType
  <2>1. \A o \in Output : granted[o] \in Input \cup {Unmatched}
    BY <1>5, Sizes
  <2>2. \A i \in Input : m.in[i] \in Output \cup {Unmatched}
    BY <1>2, <1>3, <1>7, Sizes, SMTT(30)
  <2> QED
    BY <1>7, <2>1, <2>2 DEF MatchType
<1>10. ASSUME NEW i \in Input, m.in[i] # Unmatched
       PROVE  <<i, m.in[i]>> \in DOMAIN r
  BY <1>2, <1>3, <1>7, <1>10, Sizes
<1>11. IsMatch(m, r)
  BY <1>7, <1>8, <1>9, <1>10 DEF IsMatch
<1>12. DOMAIN r # {} => Pairs(m) # {}
  BY <1>6 DEF m, won, granted, wanting
<1> QED
  BY <1>1, <1>11, <1>12 DEF m, won, granted, wanting, lonely

-----------------------------------------------------------------------------
(* How matches grow. *)

(* No request is left whose input and output are both free. *)
Blocked(r, m) == \A c \in DOMAIN r : m.in[c[1]] # Unmatched \/ m.out[c[2]] # Unmatched

(* A matching that no request can extend, or that has k pairs at least. *)
Grown(r, m, k) ==
  /\ IsMatch(m, r)
  /\ Blocked(r, m) \/ (Cardinality(MatchedIn(m)) >= k /\ Cardinality(MatchedOut(m)) >= k)

(* A set with one more element. *)
LEMMA OneMore ==
  ASSUME NEW S, NEW T, IsFiniteSet(T), S \subseteq T, NEW x \in T, x \notin S
  PROVE  Cardinality(S) \in Nat /\ Cardinality(T) \in Nat /\ Cardinality(T) >= Cardinality(S) + 1
<1>1. IsFiniteSet(S) /\ S \cup {x} \subseteq T
  BY FS_Subset
<1>2. IsFiniteSet(S \cup {x}) /\ Cardinality(S \cup {x}) = Cardinality(S) + 1
  BY <1>1, FS_AddElement
<1>3. Cardinality(S \cup {x}) <= Cardinality(T)
  BY <1>1, FS_Subset
<1>4. Cardinality(S) \in Nat /\ Cardinality(T) \in Nat
  BY <1>1, FS_CardinalityType
<1> QED
  BY <1>2, <1>3, <1>4

(* A match that keeps what was matched and adds to it. *)
LEMMA Grows ==
  ASSUME config \in Configs, NEW r \in Requests, NEW m, NEW k \in Nat, Grown(r, m, k),
         NEW new, IsMatch(new, r), MatchedIn(m) \subseteq MatchedIn(new), MatchedOut(m) \subseteq MatchedOut(new),
         ~Blocked(r, m) => MatchedIn(new) # MatchedIn(m) /\ MatchedOut(new) # MatchedOut(m)
  PROVE  Grown(r, new, k + 1)
<1>1. CASE Blocked(r, m)
  <2>1. ASSUME NEW c \in DOMAIN r PROVE new.in[c[1]] # Unmatched \/ new.out[c[2]] # Unmatched
    <3>1. c[1] \in Input /\ c[2] \in Output
      BY Asked
    <3>2. c[1] \in MatchedIn(m) \/ c[2] \in MatchedOut(m)
      BY <1>1, <3>1 DEF Blocked, MatchedIn, MatchedOut
    <3> QED
      BY <3>2 DEF MatchedIn, MatchedOut
  <2> QED
    BY <2>1 DEF Blocked, Grown
<1>2. CASE ~Blocked(r, m)
  <2>1. PICK i : i \in MatchedIn(new) /\ i \notin MatchedIn(m)
    BY <1>2
  <2>2. PICK o : o \in MatchedOut(new) /\ o \notin MatchedOut(m)
    BY <1>2
  <2>3. /\ Cardinality(MatchedIn(new)) >= Cardinality(MatchedIn(m)) + 1
        /\ Cardinality(MatchedIn(new)) \in Nat /\ Cardinality(MatchedIn(m)) \in Nat
    BY <2>1, MatchedFinite, OneMore
  <2>4. /\ Cardinality(MatchedOut(new)) >= Cardinality(MatchedOut(m)) + 1
        /\ Cardinality(MatchedOut(new)) \in Nat /\ Cardinality(MatchedOut(m)) \in Nat
    BY <2>2, MatchedFinite, OneMore
  <2> QED
    BY <1>2, <2>3, <2>4 DEF Grown
<1> QED
  BY <1>1, <1>2

(* A grown matching has pairs, and after enough steps it leaves nothing out. *)
LEMMA GrownServes ==
  ASSUME config \in Configs, NEW r \in Requests, NEW m, NEW k \in Nat \ {0}, Grown(r, m, k)
  PROVE  /\ DOMAIN r # {} => Pairs(m) # {}
         /\ k >= config.inputs \/ k >= config.outputs => Blocked(r, m)
<1>1. IsMatch(m, r) /\ m.in \in [Input -> Output \cup {Unmatched}] /\ m.out \in [Output -> Input \cup {Unmatched}]
  BY DEF Grown, IsMatch, MatchType
<1>2. ASSUME NEW i \in Input, m.in[i] # Unmatched PROVE Pairs(m) # {}
  <2>1. <<i, m.in[i]>> \in Pairs(m)
    BY <1>1, <1>2 DEF Pairs
  <2> QED
    BY <2>1
<1>3. ASSUME NEW o \in Output, m.out[o] # Unmatched PROVE Pairs(m) # {}
  <2>1. m.out[o] \in Input /\ m.in[m.out[o]] = o
    BY <1>1, <1>3 DEF IsMatch
  <2>2. o # Unmatched
    BY Sizes
  <2> QED
    BY <1>2, <2>1, <2>2
<1>4. CASE Blocked(r, m)
  <2>1. ASSUME NEW c \in DOMAIN r PROVE Pairs(m) # {}
    <3>1. c[1] \in Input /\ c[2] \in Output
      BY Asked
    <3>2. m.in[c[1]] # Unmatched \/ m.out[c[2]] # Unmatched
      BY <1>4 DEF Blocked
    <3> QED
      BY <1>2, <1>3, <3>1, <3>2
  <2> QED
    BY <1>4, <2>1
<1>5. CASE Cardinality(MatchedIn(m)) >= k /\ Cardinality(MatchedOut(m)) >= k
  <2>1. Cardinality(MatchedIn(m)) # 0
    BY <1>5, MatchedFinite
  <2>2. MatchedIn(m) # {}
    BY <2>1, FS_EmptySet
  <2>3. Pairs(m) # {}
    BY <1>2, <2>2 DEF MatchedIn
  <2>4. ASSUME k >= config.inputs PROVE Blocked(r, m)
    <3>1. /\ Cardinality(MatchedIn(m)) \in Nat /\ IsFiniteSet(Input) /\ Cardinality(Input) = config.inputs
          /\ config.inputs \in Nat
      BY MatchedFinite, Sizes
    <3>2. MatchedIn(m) \subseteq Input
      BY DEF MatchedIn
    <3>3. Cardinality(MatchedIn(m)) <= Cardinality(Input)
      BY <3>1, <3>2, FS_Subset
    <3>4. Cardinality(MatchedIn(m)) = Cardinality(Input)
      BY <1>5, <2>4, <3>1, <3>3
    <3>5. MatchedIn(m) = Input
      BY <3>1, <3>2, <3>4, FS_Subset
    <3> QED
      BY <3>5, Asked DEF Blocked, MatchedIn
  <2>5. ASSUME k >= config.outputs PROVE Blocked(r, m)
    <3>1. /\ Cardinality(MatchedOut(m)) \in Nat /\ IsFiniteSet(Output) /\ Cardinality(Output) = config.outputs
          /\ config.outputs \in Nat
      BY MatchedFinite, Sizes
    <3>2. MatchedOut(m) \subseteq Output
      BY DEF MatchedOut
    <3>3. Cardinality(MatchedOut(m)) <= Cardinality(Output)
      BY <3>1, <3>2, FS_Subset
    <3>4. Cardinality(MatchedOut(m)) = Cardinality(Output)
      BY <1>5, <2>5, <3>1, <3>3
    <3>5. MatchedOut(m) = Output
      BY <3>1, <3>2, <3>4, FS_Subset
    <3> QED
      BY <3>5, Asked DEF Blocked, MatchedOut
  <2> QED
    BY <2>3, <2>4, <2>5
<1> QED
  BY <1>4, <1>5 DEF Grown

(* The empty match has no pairs. *)
LEMMA EmptyGrown ==
  ASSUME config \in Configs, NEW r
  PROVE  Grown(r, EmptyMatch, 0)
BY EmptyMatches, MatchedFinite DEF Grown

-----------------------------------------------------------------------------
(* Iterative matching. *)

(* An output that grants was free, and so was the input it grants to. *)
LEMMA Granting ==
  ASSUME config \in Configs, NEW r \in Requests, NEW m \in MatchType, NEW offset \in [Output -> Input]
  PROVE  /\ Grants(r, m, offset) \in [Output -> Input \cup {NoGrant}]
         /\ \A o \in Output : Grants(r, m, offset)[o] # NoGrant
              => m.out[o] = Unmatched /\ Grants(r, m, offset)[o] \in Free(r, m, o)
         /\ \A o \in Output : m.out[o] = Unmatched /\ Free(r, m, o) # {}
              => Grants(r, m, offset)[o] \in Free(r, m, o)
<1>1. ASSUME NEW o \in Output
      PROVE  LET g == Grants(r, m, offset)[o]
             IN  IF m.out[o] = Unmatched /\ Free(r, m, o) # {} THEN g \in Free(r, m, o) ELSE g = NoGrant
  <2>1. CASE m.out[o] # Unmatched \/ Free(r, m, o) = {}
    BY <2>1 DEF Grants
  <2>2. CASE m.out[o] = Unmatched /\ Free(r, m, o) # {}
    <3>1. Free(r, m, o) \in SUBSET (0 .. config.inputs - 1)
      BY Sizes DEF Free, Requesting
    <3>2. config.inputs \in Nat \ {0} /\ offset[o] \in Int
      BY Sizes
    <3>3. FirstFrom(Free(r, m, o), offset[o], config.inputs) \in Free(r, m, o)
      BY <2>2, <3>1, <3>2, FirstIsOne
    <3> QED
      BY <2>2, <3>3 DEF Grants
  <2> QED
    BY <2>1, <2>2
<1>2. \A o \in Output : Free(r, m, o) \subseteq Input
  BY DEF Free, Requesting
<1>3. Grants(r, m, offset) = [o \in Output |-> Grants(r, m, offset)[o]]
  BY DEF Grants
<1> QED
  BY <1>1, <1>2, <1>3

(* An input accepts an output that has granted to it. *)
LEMMA Accepting ==
  ASSUME config \in Configs, NEW grants, NEW offset \in [Input -> Output]
  PROVE  /\ Accepts(grants, offset) \in [Input -> Output \cup {NoGrant}]
         /\ \A i \in Input : Accepts(grants, offset)[i] # NoGrant => grants[Accepts(grants, offset)[i]] = i
         /\ \A o \in Output : grants[o] \in Input => Accepts(grants, offset)[grants[o]] \in Output
<1>1. ASSUME NEW i \in Input
      PROVE  LET a == Accepts(grants, offset)[i]
             IN  /\ a = NoGrant \/ (a \in Output /\ grants[a] = i)
                 /\ (\E o \in Output : grants[o] = i) => a \in Output
  <2> DEFINE offers == {o \in Output : grants[o] = i}
  <2>1. Accepts(grants, offset)[i] = IF offers = {} THEN NoGrant ELSE FirstFrom(offers, offset[i], config.outputs)
    BY DEF Accepts
  <2>2. CASE offers = {}
    BY <2>1, <2>2
  <2>3. CASE offers # {}
    <3>1. offers \in SUBSET (0 .. config.outputs - 1) /\ config.outputs \in Nat \ {0} /\ offset[i] \in Int
      BY Sizes
    <3>2. FirstFrom(offers, offset[i], config.outputs) \in offers
      <4> HIDE DEF offers
      <4> QED
        BY <2>3, <3>1, FirstIsOne
    <3> QED
      BY <2>1, <2>3, <3>2
  <2> QED
    BY <2>2, <2>3
<1>2. Accepts(grants, offset) = [i \in Input |-> Accepts(grants, offset)[i]]
  BY DEF Accepts
<1> QED
  BY <1>1, <1>2

(* What may be accepted in addition to a match. *)
Acceptable(m, r, accepted) ==
  \A i \in Input : accepted[i] # NoGrant =>
    /\ m.in[i] = Unmatched /\ m.out[accepted[i]] = Unmatched /\ <<i, accepted[i]>> \in DOMAIN r
    /\ \A j \in Input : accepted[j] = accepted[i] => j = i

(* The types after an iteration. *)
LEMMA AcceptedType ==
  ASSUME config \in Configs, NEW m \in MatchType, NEW accepted \in [Input -> Output \cup {NoGrant}]
  PROVE  AcceptAll(m, accepted) \in MatchType
<1> DEFINE new == AcceptAll(m, accepted)
<1>1. /\ new.in = [i \in Input |-> IF accepted[i] # NoGrant THEN accepted[i] ELSE m.in[i]]
      /\ new.out = [o \in Output |-> IF \E i \in Input : accepted[i] = o
                                     THEN CHOOSE i \in Input : accepted[i] = o ELSE m.out[o]]
      /\ new = [in |-> new.in, out |-> new.out]
  BY DEF AcceptAll
<1>2. m.in \in [Input -> Output \cup {Unmatched}] /\ m.out \in [Output -> Input \cup {Unmatched}]
  BY DEF MatchType
<1> HIDE DEF new
<1>3. \A o \in Output : (\E i \in Input : accepted[i] = o) => (CHOOSE i \in Input : accepted[i] = o) \in Input
  OBVIOUS
<1>4. new.in \in [Input -> Output \cup {Unmatched}]
  BY <1>1, <1>2, Sizes
<1>5. new.out \in [Output -> Input \cup {Unmatched}]
  BY <1>1, <1>2, <1>3, Sizes
<1> QED
  BY <1>1, <1>4, <1>5 DEF MatchType, new

(* A match with what may be accepted is a match. *)
LEMMA AcceptedMatches ==
  ASSUME config \in Configs, NEW r, NEW m, IsMatch(m, r), NEW accepted \in [Input -> Output \cup {NoGrant}],
         Acceptable(m, r, accepted)
  PROVE  IsMatch(AcceptAll(m, accepted), r)
<1> DEFINE new == AcceptAll(m, accepted)
<1>1. /\ \A i \in Input : new.in[i] = IF accepted[i] # NoGrant THEN accepted[i] ELSE m.in[i]
      /\ \A o \in Output : new.out[o] = IF \E i \in Input : accepted[i] = o
                                        THEN CHOOSE i \in Input : accepted[i] = o ELSE m.out[o]
  BY DEF AcceptAll
<1>2. new \in MatchType
  BY AcceptedType DEF IsMatch
<1> HIDE DEF new
<1>3. ASSUME NEW i \in Input, NEW o \in Output, accepted[i] = o
      PROVE  new.out[o] = i /\ new.in[i] = o
  <2>1. accepted[i] # NoGrant
    BY <1>3, Sizes
  <2>2. \A j \in Input : accepted[j] = o => j = i
    BY <1>3, <2>1 DEF Acceptable
  <2> QED
    BY <1>1, <1>3, <2>1, <2>2
<1>4. ASSUME NEW i \in Input, NEW o \in Output, new.in[i] = o
      PROVE  new.out[o] = i
  <2>1. CASE accepted[i] = o
    BY <1>3, <2>1
  <2>2. CASE accepted[i] # o
    <3>1. m.in[i] = o /\ m.out[o] = i
      <4>1. m.in[i] = o
        BY <1>1, <1>4, <2>2
      <4> QED
        BY <4>1 DEF IsMatch
    <3>2. \A j \in Input : accepted[j] # o
      <4>1. Unmatched \notin Input /\ NoGrant \notin Output
        BY Sizes
      <4>2. m.out[o] # Unmatched /\ o # NoGrant
        BY <3>1, <4>1
      <4> QED
        BY <4>2 DEF Acceptable
    <3> QED
      BY <1>1, <3>1, <3>2
  <2> QED
    BY <2>1, <2>2
<1>5. ASSUME NEW i \in Input, NEW o \in Output, new.out[o] = i
      PROVE  new.in[i] = o
  <2>1. CASE \E j \in Input : accepted[j] = o
    BY <1>3, <1>5, <2>1
  <2>2. CASE ~ \E j \in Input : accepted[j] = o
    <3>1. m.out[o] = i /\ m.in[i] = o
      BY <1>1, <1>5, <2>2 DEF IsMatch
    <3>2. accepted[i] = NoGrant
      BY <3>1, Sizes DEF Acceptable
    <3> QED
      BY <1>1, <3>1, <3>2
  <2> QED
    BY <2>1, <2>2
<1>6. ASSUME NEW i \in Input, new.in[i] # Unmatched
      PROVE  <<i, new.in[i]>> \in DOMAIN r
  <2>1. CASE accepted[i] # NoGrant
    BY <1>1, <2>1 DEF Acceptable
  <2>2. CASE accepted[i] = NoGrant
    BY <1>1, <1>6, <2>2 DEF IsMatch
  <2> QED
    BY <2>1, <2>2
<1> QED
  BY <1>2, <1>4, <1>5, <1>6 DEF IsMatch, new

(* What is matched stays so. *)
LEMMA AcceptedKeeps ==
  ASSUME config \in Configs, NEW m, NEW accepted
  PROVE  /\ MatchedIn(m) \subseteq MatchedIn(AcceptAll(m, accepted))
         /\ MatchedOut(m) \subseteq MatchedOut(AcceptAll(m, accepted))
         /\ \A i \in Input : accepted[i] \in Output =>
              i \in MatchedIn(AcceptAll(m, accepted)) /\ accepted[i] \in MatchedOut(AcceptAll(m, accepted))
<1> DEFINE new == AcceptAll(m, accepted)
<1>1. /\ \A i \in Input : new.in[i] = IF accepted[i] # NoGrant THEN accepted[i] ELSE m.in[i]
      /\ \A o \in Output : new.out[o] = IF \E i \in Input : accepted[i] = o
                                        THEN CHOOSE i \in Input : accepted[i] = o ELSE m.out[o]
  BY DEF AcceptAll
<1> HIDE DEF new
<1>2. Unmatched = NoGrant /\ NoGrant \notin Input /\ NoGrant \notin Output
  BY Sizes
<1>3. \A o \in Output : (\E i \in Input : accepted[i] = o) => (CHOOSE i \in Input : accepted[i] = o) \in Input
  OBVIOUS
<1>4. MatchedIn(m) \subseteq MatchedIn(new)
  BY <1>1, <1>2 DEF MatchedIn
<1>5. MatchedOut(m) \subseteq MatchedOut(new)
  BY <1>1, <1>2, <1>3 DEF MatchedOut
<1>6. \A i \in Input : accepted[i] \in Output => i \in MatchedIn(new) /\ accepted[i] \in MatchedOut(new)
  BY <1>1, <1>2, <1>3 DEF MatchedIn, MatchedOut
<1> QED
  BY <1>4, <1>5, <1>6 DEF new

(* One iteration of iSLIP and of PIM. *)
LEMMA IterationMatches ==
  ASSUME config \in Configs, NEW r \in Requests, NEW m, IsMatch(m, r),
         NEW grantAt \in [Output -> Input], NEW acceptAt \in [Input -> Output]
  PROVE  /\ IsMatch(AcceptAll(m, Accepts(Grants(r, m, grantAt), acceptAt)), r)
         /\ \A k \in Nat : Grown(r, m, k) => Grown(r, AcceptAll(m, Accepts(Grants(r, m, grantAt), acceptAt)), k + 1)
<1> DEFINE grants == Grants(r, m, grantAt)
           accepted == Accepts(grants, acceptAt)
<1>1. m \in MatchType
  BY DEF IsMatch
<1>2. /\ grants \in [Output -> Input \cup {NoGrant}]
      /\ \A o \in Output : grants[o] # NoGrant => m.out[o] = Unmatched /\ grants[o] \in Free(r, m, o)
      /\ \A o \in Output : m.out[o] = Unmatched /\ Free(r, m, o) # {} => grants[o] \in Free(r, m, o)
  BY <1>1, Granting
<1> HIDE DEF grants
<1>3. /\ accepted \in [Input -> Output \cup {NoGrant}]
      /\ \A i \in Input : accepted[i] # NoGrant => grants[accepted[i]] = i
      /\ \A o \in Output : grants[o] \in Input => accepted[grants[o]] \in Output
  BY Accepting
<1> HIDE DEF accepted
<1>4. Acceptable(m, r, accepted)
  <2> SUFFICES ASSUME NEW i \in Input, accepted[i] # NoGrant
               PROVE  /\ m.in[i] = Unmatched /\ m.out[accepted[i]] = Unmatched /\ <<i, accepted[i]>> \in DOMAIN r
                      /\ \A j \in Input : accepted[j] = accepted[i] => j = i
    BY DEF Acceptable
  <2>1. accepted[i] \in Output /\ grants[accepted[i]] = i /\ i # NoGrant
    BY <1>3, Sizes
  <2>2. m.out[accepted[i]] = Unmatched /\ i \in Free(r, m, accepted[i])
    BY <1>2, <2>1
  <2>3. m.in[i] = Unmatched /\ <<i, accepted[i]>> \in DOMAIN r
    BY <2>2 DEF Free, Requesting
  <2>4. \A j \in Input : accepted[j] = accepted[i] => j = i
    BY <1>3, <2>1
  <2> QED
    BY <2>2, <2>3, <2>4
<1>5. IsMatch(AcceptAll(m, accepted), r)
  BY <1>3, <1>4, AcceptedMatches
<1>6. ASSUME NEW k \in Nat, Grown(r, m, k)
      PROVE  Grown(r, AcceptAll(m, accepted), k + 1)
  <2>1. MatchedIn(m) \subseteq MatchedIn(AcceptAll(m, accepted)) /\ MatchedOut(m) \subseteq MatchedOut(AcceptAll(m, accepted))
    BY AcceptedKeeps
  <2>2. ASSUME ~Blocked(r, m)
        PROVE  /\ MatchedIn(AcceptAll(m, accepted)) # MatchedIn(m)
               /\ MatchedOut(AcceptAll(m, accepted)) # MatchedOut(m)
    <3>1. PICK c \in DOMAIN r : m.in[c[1]] = Unmatched /\ m.out[c[2]] = Unmatched
      BY <2>2 DEF Blocked
    <3>2. c[1] \in Input /\ c[2] \in Output /\ c = <<c[1], c[2]>>
      BY Asked
    <3>3. c[1] \in Free(r, m, c[2])
      BY <3>1, <3>2 DEF Free, Requesting
    <3> DEFINE i == grants[c[2]]
    <3>4. i \in Free(r, m, c[2])
      BY <1>2, <3>1, <3>2, <3>3
    <3>5. i \in Input /\ m.in[i] = Unmatched
      BY <3>4 DEF Free, Requesting
    <3>6. accepted[i] \in Output
      BY <1>3, <3>2, <3>5
    <3> HIDE DEF i
    <3>7. i \in MatchedIn(AcceptAll(m, accepted)) /\ accepted[i] \in MatchedOut(AcceptAll(m, accepted))
      BY <3>5, <3>6, AcceptedKeeps
    <3>8. m.out[accepted[i]] = Unmatched
      BY <1>4, <3>5, <3>6, Sizes DEF Acceptable
    <3> QED
      BY <3>5, <3>7, <3>8 DEF MatchedIn, MatchedOut
  <2> QED
    BY <1>5, <1>6, <2>1, <2>2, Grows
<1> QED
  BY <1>5, <1>6 DEF accepted, grants

(* The state of iSLIP and of select after some iterations. *)
States == [match : MatchType, grants : [Output -> Input \cup {NoGrant}],
           gptrs : [Output -> Input], aptrs : [Input -> Output]]

(* A pointer moved on stays in its range. *)
LEMMA Follows ==
  ASSUME NEW n \in Nat \ {0}, NEW x \in Int
  PROVE  Following(x, n) \in 0 .. n - 1
BY DEF Following

(* The pointers of inputs and outputs. *)
LEMMA PointersFollow ==
  ASSUME config \in Configs
  PROVE  /\ \A i \in Input : Following(i, config.inputs) \in Input
         /\ \A o \in Output : Following(o, config.outputs) \in Output
<1>1. /\ config.inputs \in Nat \ {0} /\ config.outputs \in Nat \ {0}
      /\ Input = 0 .. config.inputs - 1 /\ Output = 0 .. config.outputs - 1
  BY Sizes
<1>2. ASSUME NEW i \in Input PROVE Following(i, config.inputs) \in Input
  <2>1. i \in Int
    BY <1>1
  <2> QED
    BY <1>1, <2>1, Follows
<1>3. ASSUME NEW o \in Output PROVE Following(o, config.outputs) \in Output
  <2>1. o \in Int
    BY <1>1
  <2> QED
    BY <1>1, <2>1, Follows
<1> QED
  BY <1>2, <1>3

(* The pointers behind what has been accepted. *)
LEMMA Advancing ==
  ASSUME config \in Configs, NEW accepted \in [Input -> Output \cup {NoGrant}],
         NEW gs \in [Output -> Input], NEW as \in [Input -> Output]
  PROVE  AdvanceGrant(accepted, gs) \in [Output -> Input] /\ AdvanceAccept(accepted, as) \in [Input -> Output]
<1>1. /\ \A i \in Input : Following(i, config.inputs) \in Input
      /\ \A o \in Output : Following(o, config.outputs) \in Output
  BY PointersFollow
<1>2. ASSUME NEW o \in Output, \E i \in Input : accepted[i] = o
      PROVE  Winner(accepted, o) \in Input
  BY <1>2 DEF Winner
<1>3. AdvanceGrant(accepted, gs) \in [Output -> Input]
  BY <1>1, <1>2 DEF AdvanceGrant
<1>4. \A i \in Input : accepted[i] # NoGrant => accepted[i] \in Output
  OBVIOUS
<1>5. AdvanceAccept(accepted, as) \in [Input -> Output]
  BY <1>1, <1>4 DEF AdvanceAccept
<1> QED
  BY <1>3, <1>5

(* What an iteration makes of the state. *)
LEMMA AcceptedState ==
  ASSUME config \in Configs, NEW s \in States, NEW k, NEW accepted \in [Input -> Output \cup {NoGrant}],
         NEW grants \in [Output -> Input \cup {NoGrant}]
  PROVE  /\ Accepted(s, k, s.match, accepted, grants) \in States
         /\ Accepted(s, k, s.match, accepted, grants).match = AcceptAll(s.match, accepted)
<1>1. s.match \in MatchType /\ s.gptrs \in [Output -> Input] /\ s.aptrs \in [Input -> Output]
  BY DEF States
<1>2. AcceptAll(s.match, accepted) \in MatchType
  BY <1>1, AcceptedType
<1>3. /\ AdvanceGrant(accepted, s.gptrs) \in [Output -> Input]
      /\ AdvanceAccept(accepted, s.aptrs) \in [Input -> Output]
  BY <1>1, Advancing
<1> QED
  BY <1>1, <1>2, <1>3 DEF Accepted, States

(* The state before the first iteration. *)
LEMMA Starting ==
  ASSUME config \in Configs, gptrs \in [Output -> Input], aptrs \in [Input -> Output], NEW r
  PROVE  Start \in States /\ IsMatch(Start.match, r) /\ Start.grants = [o \in Output |-> NoGrant]
         /\ Start.match = EmptyMatch
<1>1. EmptyMatch \in MatchType /\ IsMatch(EmptyMatch, r)
  BY EmptyMatches DEF IsMatch
<1> QED
  BY <1>1 DEF Start, States

(* iSLIP_Sparse::Allocate returns a matching. *)
LEMMA ISLIPMatches ==
  ASSUME config \in Configs, gptrs \in [Output -> Input], aptrs \in [Input -> Output],
         NEW r \in Requests, AllocateISLIP(r)
  PROVE  \E s \in States : Grown(r, s.match, config.iters) /\ Matched(r, s.match) /\ gptrs' = s.gptrs /\ aptrs' = s.aptrs
<1> DEFINE n == config.iters
           T == {s \in States : IsMatch(s.match, r)}
           S == [k \in 0 .. n |-> {s \in T : Grown(r, s.match, k)}]
           grants(s) == Grants(r, s.match, s.gptrs)
           next(k, s) == Accepted(s, k, s.match, Accepts(grants(s), s.aptrs), grants(s))
           body(f) == [k \in 0 .. n |-> IF k = 0 THEN Start ELSE next(k, f[k - 1])]
           after == CHOOSE f : f = body(f)
           step == [k \in 1 .. n |-> [s \in T |-> next(k, s)]]
<1>1. Matched(r, after[n].match) /\ gptrs' = after[n].gptrs /\ aptrs' = after[n].aptrs
  BY Zenon DEF AllocateISLIP
<1>2. n \in Nat \ {0} /\ Start \in T /\ Start \in S[0]
  <2>1. n \in Nat \ {0} /\ 0 \in 0 .. n
    BY Sizes
  <2>2. Start \in T /\ Start.match = EmptyMatch
    BY Starting
  <2>3. Grown(r, Start.match, 0)
    BY <2>2, EmptyGrown
  <2> HIDE DEF T, n
  <2> QED
    BY <2>1, <2>2, <2>3
<1>3. ASSUME NEW k, NEW s \in T
      PROVE  /\ next(k, s) \in T
             /\ \A j \in Nat : Grown(r, s.match, j) => Grown(r, next(k, s).match, j + 1)
  <2>1. s.match \in MatchType /\ s.gptrs \in [Output -> Input] /\ s.aptrs \in [Input -> Output] /\ s \in States
    BY DEF States
  <2>2. grants(s) \in [Output -> Input \cup {NoGrant}]
    BY <2>1, Granting
  <2>3. Accepts(grants(s), s.aptrs) \in [Input -> Output \cup {NoGrant}]
    BY <2>1, Accepting
  <2>4. next(k, s) \in States /\ next(k, s).match = AcceptAll(s.match, Accepts(grants(s), s.aptrs))
    <3> HIDE DEF grants
    <3> QED
      BY <2>1, <2>2, <2>3, AcceptedState
  <2>5. /\ IsMatch(AcceptAll(s.match, Accepts(grants(s), s.aptrs)), r)
        /\ \A j \in Nat : Grown(r, s.match, j)
             => Grown(r, AcceptAll(s.match, Accepts(grants(s), s.aptrs)), j + 1)
    BY <2>1, IterationMatches
  <2> QED
    BY <2>4, <2>5
<1>4. ASSUME NEW k \in 1 .. n, NEW s \in S[k - 1] PROVE next(k, s) \in S[k]
  <2>1. k - 1 \in 0 .. n /\ k \in 0 .. n /\ k - 1 \in Nat /\ (k - 1) + 1 = k
    BY <1>2
  <2>2. s \in T /\ Grown(r, s.match, k - 1)
    BY <2>1
  <2>3. next(k, s) \in T /\ Grown(r, next(k, s).match, (k - 1) + 1)
    <3> HIDE DEF next, T
    <3> QED
      BY <1>3, <2>1, <2>2
  <2> HIDE DEF next, T
  <2> QED
    BY <2>1, <2>3
<1> HIDE DEF next, T, S
<1>5. step \in [1 .. n -> [T -> T]] /\ \A k \in 1 .. n, s \in T : step[k][s] = next(k, s)
  BY <1>3
<1> HIDE DEF n, step
<1>6. PICK f : IsIteration(f, n, T, Start, step)
  <2>1. n \in Nat /\ Start \in T /\ step \in [1 .. n -> [T -> T]]
    BY <1>2, <1>5
  <2> QED
    BY <2>1, Iterates
<1>7. f = body(f)
  <2>1. ASSUME NEW k \in 1 .. n PROVE f[k] = next(k, f[k - 1])
    <3>1. f[k - 1] \in T /\ f[k] = step[k][f[k - 1]]
      BY <1>2, <1>6 DEF IsIteration
    <3> QED
      BY <1>5, <3>1
  <2>2. \A k \in 0 .. n : f[k] = IF k = 0 THEN Start ELSE next(k, f[k - 1])
    BY <1>2, <1>6, <2>1 DEF IsIteration
  <2> QED
    BY <1>6, <2>2 DEF IsIteration
<1>8. after = body(after)
  <2> HIDE DEF body
  <2> QED
    BY <1>7
<1> HIDE DEF after
<1>9. /\ after[0] = Start
      /\ \A k \in 1 .. n : after[k] = next(k, after[k - 1])
  BY <1>2, <1>8
<1>10. \A k \in 0 .. n : after[k] \in S[k]
  <2>1. n \in Nat /\ after[0] \in S[0]
    BY <1>2, <1>9
  <2>2. \A k \in 1 .. n : after[k - 1] \in S[k - 1] => after[k] \in S[k]
    BY <1>4, <1>9
  <2> QED
    BY <2>1, <2>2, IteratesThrough
<1>11. after[n] \in S[n] /\ n \in 0 .. n
  BY <1>2, <1>10
<1> QED
  BY <1>1, <1>11, Zenon DEF T, S, n

(* PIM::Allocate returns a matching. *)
LEMMA PIMMatches ==
  ASSUME config \in Configs, NEW r \in Requests, AllocatePIM(r)
  PROVE  \E m : Grown(r, m, config.iters) /\ Matched(r, m)
<1> DEFINE n == config.iters
           T == {m \in MatchType : IsMatch(m, r)}
           S == [k \in 0 .. n |-> {m \in T : Grown(r, m, k)}]
           nextBy(g, a, k, m) == AcceptAll(m, Accepts(Grants(r, m, g[k]), a[k]))
           bodyBy(g, a, f) == [k \in 0 .. n |-> IF k = 0 THEN EmptyMatch ELSE nextBy(g, a, k, f[k - 1])]
<1>1. PICK g \in [1 .. n -> [Output -> Input]], a \in [1 .. n -> [Input -> Output]] :
        Matched(r, (CHOOSE f : f = bodyBy(g, a, f))[n])
  BY DEF AllocatePIM
<1> DEFINE next(k, m) == nextBy(g, a, k, m)
           body(f) == [k \in 0 .. n |-> IF k = 0 THEN EmptyMatch ELSE next(k, f[k - 1])]
           after == CHOOSE f : f = body(f)
           step == [k \in 1 .. n |-> [m \in T |-> next(k, m)]]
<1>2. Matched(r, after[n])
  BY <1>1
<1>3. n \in Nat \ {0} /\ EmptyMatch \in T /\ EmptyMatch \in S[0]
  BY Sizes, EmptyMatches, EmptyGrown DEF IsMatch
<1>4. ASSUME NEW k \in 1 .. n, NEW m \in T
      PROVE  /\ next(k, m) \in T
             /\ \A j \in Nat : Grown(r, m, j) => Grown(r, next(k, m), j + 1)
  <2>1. IsMatch(m, r) /\ g[k] \in [Output -> Input] /\ a[k] \in [Input -> Output]
    OBVIOUS
  <2>2. /\ IsMatch(next(k, m), r)
        /\ \A j \in Nat : Grown(r, m, j) => Grown(r, next(k, m), j + 1)
    BY <2>1, IterationMatches
  <2> QED
    BY <2>2 DEF IsMatch
<1>5. ASSUME NEW k \in 1 .. n, NEW m \in S[k - 1] PROVE next(k, m) \in S[k]
  <2>1. k - 1 \in 0 .. n /\ k \in 0 .. n /\ k - 1 \in Nat /\ (k - 1) + 1 = k
    BY <1>3
  <2>2. m \in T /\ Grown(r, m, k - 1)
    BY <2>1
  <2> HIDE DEF next, T
  <2>3. next(k, m) \in T /\ Grown(r, next(k, m), (k - 1) + 1)
    BY <1>4, <2>1, <2>2
  <2> QED
    BY <2>1, <2>3
<1> HIDE DEF nextBy, bodyBy, next, T, S
<1>6. step \in [1 .. n -> [T -> T]] /\ \A k \in 1 .. n, m \in T : step[k][m] = next(k, m)
  BY <1>4
<1> HIDE DEF n, step
<1>7. PICK f : IsIteration(f, n, T, EmptyMatch, step)
  <2>1. n \in Nat /\ EmptyMatch \in T /\ step \in [1 .. n -> [T -> T]]
    BY <1>3, <1>6
  <2> QED
    BY <2>1, Iterates
<1>8. f = body(f)
  <2>1. ASSUME NEW k \in 1 .. n PROVE f[k] = next(k, f[k - 1])
    <3>1. f[k - 1] \in T /\ f[k] = step[k][f[k - 1]]
      BY <1>3, <1>7 DEF IsIteration
    <3> QED
      BY <1>6, <3>1
  <2>2. \A k \in 0 .. n : f[k] = IF k = 0 THEN EmptyMatch ELSE next(k, f[k - 1])
    BY <1>3, <1>7, <2>1 DEF IsIteration
  <2> QED
    BY <1>7, <2>2 DEF IsIteration
<1>9. after = body(after)
  <2> HIDE DEF body
  <2> QED
    BY <1>8
<1> HIDE DEF after
<1>10. /\ after[0] = EmptyMatch
      /\ \A k \in 1 .. n : after[k] = next(k, after[k - 1])
  BY <1>3, <1>9
<1>11. \A k \in 0 .. n : after[k] \in S[k]
  <2>1. n \in Nat /\ after[0] \in S[0]
    BY <1>3, <1>10
  <2>2. \A k \in 1 .. n : after[k - 1] \in S[k - 1] => after[k] \in S[k]
    BY <1>5, <1>10
  <2> QED
    BY <2>1, <2>2, IteratesThrough
<1>12. after[n] \in S[n] /\ n \in 0 .. n
  BY <1>3, <1>11
<1> QED
  BY <1>2, <1>12 DEF S, n

(* The grants of select: new ones go to free inputs. *)
LEMMA SelectGranting ==
  ASSUME config \in Configs, NEW r \in Requests, NEW s \in States
  PROVE  /\ SelectGrants(r, s) \in [Output -> Input \cup {NoGrant}]
         /\ \A o \in Output : \/ SelectGrants(r, s)[o] = s.grants[o]
                              \/ SelectGrants(r, s)[o] \in Free(r, s.match, o)
         /\ \A o \in Output : s.match.out[o] # Unmatched => SelectGrants(r, s)[o] = s.grants[o]
         /\ \A o \in Output : s.match.out[o] = Unmatched => \A i \in Free(r, s.match, o) :
              /\ SelectGrants(r, s)[o] \in Free(r, s.match, o)
              /\ r[<<i, o>>][2] <= r[<<SelectGrants(r, s)[o], o>>][2]
<1>1. /\ \A o \in Output : s.grants[o] \in Input \cup {NoGrant} /\ s.gptrs[o] \in Int
      /\ config.inputs \in Nat \ {0}
  <2>1. s.grants \in [Output -> Input \cup {NoGrant}] /\ s.gptrs \in [Output -> Input]
    BY DEF States
  <2>2. config.inputs \in Nat \ {0} /\ \A i \in Input : i \in Int
    BY Sizes
  <2> QED
    BY <2>1, <2>2
<1>2. ASSUME NEW o \in Output
      PROVE  IF s.match.out[o] # Unmatched \/ Free(r, s.match, o) = {} THEN SelectGrants(r, s)[o] = s.grants[o]
             ELSE /\ SelectGrants(r, s)[o] \in Free(r, s.match, o)
                  /\ \A i \in Free(r, s.match, o) : r[<<i, o>>][2] <= r[<<SelectGrants(r, s)[o], o>>][2]
  <2> DEFINE free == Free(r, s.match, o)
             foremost == Foremost(free, OutPri(r, o))
  <2>1. CASE s.match.out[o] # Unmatched \/ free = {}
    BY <2>1 DEF SelectGrants
  <2>2. CASE s.match.out[o] = Unmatched /\ free # {}
    <3>1. SelectGrants(r, s)[o] = FirstFrom(foremost, s.gptrs[o], config.inputs)
      BY <2>2 DEF SelectGrants
    <3>2. free \subseteq Requesting(r, o) /\ free \subseteq 0 .. config.inputs - 1
      BY Sizes DEF Free, Requesting
    <3>3. IsFiniteSet(free) /\ \A i \in free : OutPri(r, o)[i] \in Int
      <4>1. IsFiniteSet(0 .. config.inputs - 1)
        BY <1>1, PortsFinite
      <4>2. IsRequests(OutPri(r, o), config.inputs) /\ DOMAIN OutPri(r, o) = Requesting(r, o)
        BY Asked DEF OutPri
      <4> QED
        BY <3>2, <4>1, <4>2, FS_Subset DEF IsRequests
    <3>4. foremost # {} /\ foremost \subseteq free
      <4> HIDE DEF free
      <4> QED
        BY <2>2, <3>3, ForemostExists
    <3>5. FirstFrom(foremost, s.gptrs[o], config.inputs) \in foremost
      <4> HIDE DEF foremost, free
      <4>1. foremost \in SUBSET (0 .. config.inputs - 1) /\ s.gptrs[o] \in Int
        BY <1>1, <3>2, <3>4
      <4> QED
        BY <1>1, <3>4, <4>1, FirstIsOne
    <3>6. \A i \in free : OutPri(r, o)[i] = r[<<i, o>>][2]
      BY <3>2 DEF OutPri
    <3>7. \A x \in foremost : \A i \in free : OutPri(r, o)[i] <= OutPri(r, o)[x]
      BY DEF Foremost
    <3> HIDE DEF foremost, free
    <3>8. /\ SelectGrants(r, s)[o] \in free
          /\ \A i \in free : r[<<i, o>>][2] <= r[<<SelectGrants(r, s)[o], o>>][2]
      BY <3>1, <3>4, <3>5, <3>6, <3>7
    <3> QED
      BY <2>2, <3>8 DEF free
  <2> QED
    BY <2>1, <2>2
<1>3. \A o \in Output : Free(r, s.match, o) \subseteq Input
  BY DEF Free, Requesting
<1>4. SelectGrants(r, s) = [o \in Output |-> SelectGrants(r, s)[o]]
  BY DEF SelectGrants
<1> QED
  BY <1>1, <1>2, <1>3, <1>4

(* The inputs of select accept an output they request. *)
LEMMA SelectAccepting ==
  ASSUME config \in Configs, NEW r \in Requests, NEW s \in States, NEW grants
  PROVE  /\ SelectAccepts(r, s, grants) \in [Input -> Output \cup {NoGrant}]
         /\ \A i \in Input : SelectAccepts(r, s, grants)[i] # NoGrant
              => grants[SelectAccepts(r, s, grants)[i]] = i /\ <<i, SelectAccepts(r, s, grants)[i]>> \in DOMAIN r
         /\ \A i \in Input : \A o \in Requested(r, i) : grants[o] = i
              => /\ SelectAccepts(r, s, grants)[i] \in Output
                 /\ r[<<i, o>>][1] <= r[<<i, SelectAccepts(r, s, grants)[i]>>][1]
<1>1. config.outputs \in Nat \ {0} /\ \A i \in Input : s.aptrs[i] \in Int
  BY Sizes DEF States
<1>2. ASSUME NEW i \in Input
      PROVE  LET a == SelectAccepts(r, s, grants)[i]
             IN  /\ a = NoGrant \/ (a \in Requested(r, i) /\ grants[a] = i)
                 /\ \A o \in Requested(r, i) : grants[o] = i => a \in Requested(r, i) /\ r[<<i, o>>][1] <= r[<<i, a>>][1]
  <2> DEFINE offers == {o \in Requested(r, i) : grants[o] = i}
             foremost == Foremost(offers, InPri(r, i))
  <2>1. CASE offers = {}
    BY <2>1 DEF SelectAccepts
  <2>2. CASE offers # {}
    <3>1. SelectAccepts(r, s, grants)[i] = FirstFrom(foremost, s.aptrs[i], config.outputs)
      BY <2>2 DEF SelectAccepts
    <3>2. offers \subseteq 0 .. config.outputs - 1
      BY Sizes DEF Requested
    <3>3. IsFiniteSet(offers) /\ \A o \in offers : InPri(r, i)[o] \in Int
      <4>1. IsFiniteSet(0 .. config.outputs - 1)
        BY <1>1, PortsFinite
      <4>2. IsRequests(InPri(r, i), config.outputs) /\ DOMAIN InPri(r, i) = Requested(r, i)
        BY Asked DEF InPri
      <4> QED
        BY <3>2, <4>1, <4>2, FS_Subset DEF IsRequests
    <3>4. foremost # {} /\ foremost \subseteq offers
      <4> HIDE DEF offers
      <4> QED
        BY <2>2, <3>3, ForemostExists
    <3>5. FirstFrom(foremost, s.aptrs[i], config.outputs) \in foremost
      <4> HIDE DEF foremost, offers
      <4>1. foremost \in SUBSET (0 .. config.outputs - 1) /\ s.aptrs[i] \in Int
        BY <1>1, <3>2, <3>4
      <4> QED
        BY <1>1, <3>4, <4>1, FirstIsOne
    <3>6. \A o \in offers : InPri(r, i)[o] = r[<<i, o>>][1]
      BY DEF InPri
    <3>7. \A x \in foremost : \A o \in offers : InPri(r, i)[o] <= InPri(r, i)[x]
      BY DEF Foremost
    <3>8. \A o \in offers : r[<<i, o>>][1] <= r[<<i, SelectAccepts(r, s, grants)[i]>>][1]
      <4> HIDE DEF foremost, offers
      <4> QED
        BY <3>1, <3>4, <3>5, <3>6, <3>7
    <3>9. SelectAccepts(r, s, grants)[i] \in offers
      <4> HIDE DEF foremost, offers
      <4> QED
        BY <3>1, <3>4, <3>5
    <3> QED
      BY <3>8, <3>9
  <2> QED
    BY <2>1, <2>2
<1>3. \A i \in Input : \A a \in Requested(r, i) : a \in Output /\ <<i, a>> \in DOMAIN r
  BY DEF Requested
<1>4. SelectAccepts(r, s, grants) = [i \in Input |-> SelectAccepts(r, s, grants)[i]]
  BY DEF SelectAccepts
<1> QED
  BY <1>2, <1>3, <1>4

(* What has been granted and accepted stays so in the next iterations of    *)
(* select, or the input accepts an output it likes better: whatever is     *)
(* requested, a grant for a request of no lower priority is kept.          *)
Kept(r, s) ==
  \A c \in DOMAIN r : \E d \in DOMAIN r :
    /\ s.match.in[d[1]] = d[2] /\ s.match.out[d[2]] # Unmatched /\ s.grants[d[2]] = d[1]
    /\ Even(r) => r[c][1] <= r[d][1]

(* The first iteration of select grants, and the next ones keep. *)
LEMMA SelectKeeps ==
  ASSUME config \in Configs, NEW r \in Requests, NEW s \in States, NEW new \in States,
         new.grants = SelectGrants(r, s),
         new.match = AcceptAll(s.match, SelectAccepts(r, s, new.grants)),
         (s.match = EmptyMatch) \/ Kept(r, s)
  PROVE  Kept(r, new)
<1> DEFINE accepts == SelectAccepts(r, s, new.grants)
<1>1. \A i \in Input : accepts[i] # NoGrant => new.match.in[i] = accepts[i]
  BY DEF AcceptAll
<1>2. ASSUME NEW i \in Input, NEW o \in Output, accepts[i] = o
      PROVE  new.match.out[o] # Unmatched
  <2>1. new.match.out[o] = CHOOSE j \in Input : accepts[j] = o
    BY <1>2 DEF AcceptAll
  <2>2. new.match.out[o] \in Input
    BY <1>2, <2>1
  <2> QED
    BY <2>2, Sizes
<1>3. \A i \in Input : accepts[i] # NoGrant => new.grants[accepts[i]] = i /\ <<i, accepts[i]>> \in DOMAIN r
  BY SelectAccepting
<1>4. \A i \in Input : \A o \in Requested(r, i) : new.grants[o] = i
        => accepts[i] \in Output /\ r[<<i, o>>][1] <= r[<<i, accepts[i]>>][1]
  BY SelectAccepting
<1> HIDE DEF accepts
<1>5. ASSUME NEW d \in DOMAIN r, new.grants[d[2]] = d[1]
      PROVE  \E e \in DOMAIN r : /\ new.match.in[e[1]] = e[2] /\ new.match.out[e[2]] # Unmatched
                                 /\ new.grants[e[2]] = e[1] /\ r[d][1] <= r[e][1]
  <2> DEFINE e == <<d[1], accepts[d[1]]>>
  <2>1. d[1] \in Input /\ d[2] \in Output /\ d = <<d[1], d[2]>>
    BY Asked
  <2>2. d[2] \in Requested(r, d[1])
    BY <2>1 DEF Requested
  <2>3. accepts[d[1]] \in Output /\ r[d][1] <= r[e][1]
    BY <1>4, <1>5, <2>1, <2>2
  <2>4. accepts[d[1]] # NoGrant
    BY <2>3, Sizes
  <2>5. new.match.in[e[1]] = e[2] /\ new.grants[e[2]] = e[1] /\ e \in DOMAIN r
    BY <1>1, <1>3, <2>1, <2>4
  <2>6. new.match.out[e[2]] # Unmatched
    BY <1>2, <2>1, <2>3
  <2> HIDE DEF e
  <2> QED
    BY <2>3, <2>5, <2>6
<1>6. ASSUME NEW c \in DOMAIN r
      PROVE  \E d \in DOMAIN r : new.grants[d[2]] = d[1] /\ (Even(r) => r[c][1] <= r[d][1])
  <2>1. CASE s.match = EmptyMatch
    <3> DEFINE o == c[2]
               g == new.grants[o]
               d == <<g, o>>
    <3>1. c[1] \in Input /\ o \in Output /\ c = <<c[1], o>>
      BY Asked
    <3>2. s.match.out[o] = Unmatched /\ s.match.in[c[1]] = Unmatched
      BY <2>1, <3>1 DEF EmptyMatch
    <3>3. c[1] \in Free(r, s.match, o)
      BY <3>1, <3>2 DEF Free, Requesting
    <3>4. g \in Free(r, s.match, o) /\ r[c][2] <= r[d][2]
      BY <3>1, <3>2, <3>3, SelectGranting
    <3>5. d \in DOMAIN r
      BY <3>4 DEF Free, Requesting
    <3>6. Even(r) => r[c][1] = r[c][2] /\ r[d][1] = r[d][2]
      BY <3>5 DEF Even
    <3>7. d[2] = o /\ d[1] = g
      OBVIOUS
    <3> HIDE DEF d, g
    <3> QED
      BY <3>4, <3>5, <3>6, <3>7 DEF g
  <2>2. CASE Kept(r, s)
    <3>1. PICK d \in DOMAIN r :
            /\ s.match.in[d[1]] = d[2] /\ s.match.out[d[2]] # Unmatched /\ s.grants[d[2]] = d[1]
            /\ Even(r) => r[c][1] <= r[d][1]
      BY <2>2 DEF Kept
    <3>2. d[2] \in Output
      BY Asked
    <3>3. new.grants[d[2]] = d[1]
      BY <3>1, <3>2, SelectGranting
    <3> QED
      BY <3>1, <3>3
  <2> QED
    BY <2>1, <2>2
<1> SUFFICES ASSUME NEW c \in DOMAIN r
             PROVE  \E e \in DOMAIN r : /\ new.match.in[e[1]] = e[2] /\ new.match.out[e[2]] # Unmatched
                                        /\ new.grants[e[2]] = e[1] /\ (Even(r) => r[c][1] <= r[e][1])
  BY DEF Kept
<1>7. PICK d \in DOMAIN r : new.grants[d[2]] = d[1] /\ (Even(r) => r[c][1] <= r[d][1])
  BY <1>6
<1>8. PICK e \in DOMAIN r : /\ new.match.in[e[1]] = e[2] /\ new.match.out[e[2]] # Unmatched
                             /\ new.grants[e[2]] = e[1] /\ r[d][1] <= r[e][1]
  BY <1>5, <1>7
<1>9. r[c][1] \in Int /\ r[d][1] \in Int /\ r[e][1] \in Int
  BY Asked
<1> QED
  BY <1>7, <1>8, <1>9

(* SelAlloc::Allocate answers, and returns a matching if it makes one iteration. *)
LEMMA SelectMatches ==
  ASSUME config \in Configs, gptrs \in [Output -> Input], aptrs \in [Input -> Output],
         NEW r \in Requests, AllocateSelect(r)
  PROVE  \E s \in States : /\ config.iters = 1 => IsMatch(s.match, r)
                           /\ Answers(r, s.match)
                           /\ Matched(r, s.match) /\ gptrs' = s.gptrs /\ aptrs' = s.aptrs
<1> DEFINE n == config.iters
           grants(s) == SelectGrants(r, s)
           accepts(s) == SelectAccepts(r, s, grants(s))
           next(k, s) == Accepted(s, k, s.match, accepts(s), grants(s))
           body(f) == [k \in 0 .. n |-> IF k = 0 THEN Start ELSE next(k, f[k - 1])]
           after == CHOOSE f : f = body(f)
           step == [k \in 1 .. n |-> [s \in States |-> next(k, s)]]
           S == [k \in 0 .. n |-> {s \in States : IF k = 0 THEN s = Start ELSE Kept(r, s)}]
<1>1. Matched(r, after[n].match) /\ gptrs' = after[n].gptrs /\ aptrs' = after[n].aptrs
  BY DEF AllocateSelect
<1>2. n \in Nat \ {0} /\ Start \in States
  BY Sizes, Starting
<1>3. ASSUME NEW k, NEW s \in States
      PROVE  /\ next(k, s) \in States /\ next(k, s).match = AcceptAll(s.match, accepts(s))
             /\ next(k, s).grants = grants(s)
  <2>1. grants(s) \in [Output -> Input \cup {NoGrant}]
    BY SelectGranting
  <2>2. accepts(s) \in [Input -> Output \cup {NoGrant}]
    BY SelectAccepting
  <2>3. next(k, s).grants = grants(s)
    BY DEF Accepted
  <2> HIDE DEF grants, accepts
  <2> QED
    BY <2>1, <2>2, <2>3, AcceptedState
<1>4. IsMatch(AcceptAll(Start.match, accepts(Start)), r)
  <2>1. Start \in States /\ IsMatch(Start.match, r)
    BY Starting
  <2>2. Start.match = EmptyMatch /\ \A o \in Output : Start.grants[o] = NoGrant
    BY Starting
  <2>3. \A o \in Output : grants(Start)[o] = NoGrant \/ grants(Start)[o] \in Free(r, Start.match, o)
    BY <2>1, <2>2, SelectGranting
  <2>4. /\ accepts(Start) \in [Input -> Output \cup {NoGrant}]
        /\ \A i \in Input : accepts(Start)[i] # NoGrant
             => grants(Start)[accepts(Start)[i]] = i /\ <<i, accepts(Start)[i]>> \in DOMAIN r
    BY <2>1, SelectAccepting
  <2>5. (\A i \in Input : Start.match.in[i] = Unmatched) /\ (\A o \in Output : Start.match.out[o] = Unmatched)
    BY <2>2 DEF EmptyMatch
  <2> HIDE DEF grants, accepts
  <2>6. Acceptable(Start.match, r, accepts(Start))
    <3> SUFFICES ASSUME NEW i \in Input, accepts(Start)[i] # NoGrant
                 PROVE  /\ Start.match.in[i] = Unmatched /\ Start.match.out[accepts(Start)[i]] = Unmatched
                        /\ <<i, accepts(Start)[i]>> \in DOMAIN r
                        /\ \A j \in Input : accepts(Start)[j] = accepts(Start)[i] => j = i
      BY DEF Acceptable
    <3>1. accepts(Start)[i] \in Output /\ <<i, accepts(Start)[i]>> \in DOMAIN r /\ grants(Start)[accepts(Start)[i]] = i
      BY <2>4
    <3>2. \A j \in Input : accepts(Start)[j] = accepts(Start)[i] => j = i
      BY <2>4, <3>1
    <3> QED
      BY <2>5, <3>1, <3>2
  <2> QED
    BY <2>1, <2>4, <2>6, AcceptedMatches
<1>5. ASSUME NEW k, NEW s \in States, s = Start \/ Kept(r, s)
      PROVE  Kept(r, next(k, s))
  <2>1. s.match = EmptyMatch \/ Kept(r, s)
    BY <1>5, Starting
  <2>2. /\ next(k, s) \in States /\ next(k, s).grants = SelectGrants(r, s)
        /\ next(k, s).match = AcceptAll(s.match, SelectAccepts(r, s, next(k, s).grants))
    BY <1>3
  <2> HIDE DEF next
  <2> QED
    BY <2>1, <2>2, SelectKeeps
<1> HIDE DEF next, accepts
<1>6. ASSUME NEW k \in 1 .. n, NEW s \in S[k - 1] PROVE next(k, s) \in S[k]
  <2>1. k - 1 \in 0 .. n /\ k \in 0 .. n /\ k # 0
    BY <1>2
  <2>2. s \in States /\ (s = Start \/ Kept(r, s))
    BY <2>1
  <2>3. next(k, s) \in States /\ Kept(r, next(k, s))
    BY <1>3, <1>5, <2>2
  <2> QED
    BY <2>1, <2>3
<1>7. Start \in S[0]
  BY <1>2
<1> HIDE DEF S
<1>8. step \in [1 .. n -> [States -> States]] /\ \A k \in 1 .. n, s \in States : step[k][s] = next(k, s)
  BY <1>3
<1> HIDE DEF n, step
<1>9. PICK f : IsIteration(f, n, States, Start, step)
  <2>1. n \in Nat /\ Start \in States /\ step \in [1 .. n -> [States -> States]]
    BY <1>2, <1>8
  <2> QED
    BY <2>1, Iterates
<1>10. f = body(f)
  <2>1. ASSUME NEW k \in 1 .. n PROVE f[k] = next(k, f[k - 1])
    <3>1. f[k - 1] \in States /\ f[k] = step[k][f[k - 1]]
      BY <1>2, <1>9 DEF IsIteration
    <3> QED
      BY <1>8, <3>1
  <2>2. \A k \in 0 .. n : f[k] = IF k = 0 THEN Start ELSE next(k, f[k - 1])
    BY <1>2, <1>9, <2>1 DEF IsIteration
  <2> QED
    BY <1>9, <2>2 DEF IsIteration
<1>11. after = body(after)
  <2> HIDE DEF body
  <2> QED
    BY <1>10
<1> HIDE DEF after
<1>12. /\ after[0] = Start
       /\ \A k \in 1 .. n : after[k] = next(k, after[k - 1])
  BY <1>2, <1>11
<1>13. \A k \in 0 .. n : after[k] \in S[k]
  <2>1. n \in Nat /\ after[0] \in S[0]
    BY <1>2, <1>7, <1>12
  <2>2. \A k \in 1 .. n : after[k - 1] \in S[k - 1] => after[k] \in S[k]
    BY <1>6, <1>12
  <2> QED
    BY <2>1, <2>2, IteratesThrough
<1>14. after[n] \in States /\ Kept(r, after[n])
  <2>1. after[n] \in S[n] /\ n \in 0 .. n /\ n # 0
    BY <1>2, <1>13
  <2> QED
    BY <2>1 DEF S
<1>15. Answers(r, after[n].match)
  <2> SUFFICES ASSUME NEW c \in DOMAIN r
               PROVE  \E d \in Pairs(after[n].match) \cap DOMAIN r : Even(r) => r[c][1] <= r[d][1]
    BY DEF Answers
  <2>1. PICK d \in DOMAIN r : after[n].match.in[d[1]] = d[2] /\ (Even(r) => r[c][1] <= r[d][1])
    BY <1>14 DEF Kept
  <2>2. d \in Pairs(after[n].match)
    BY <2>1, Asked DEF Pairs
  <2> QED
    BY <2>1, <2>2
<1>16. config.iters = 1 => IsMatch(after[n].match, r)
  <2> SUFFICES ASSUME n = 1 PROVE IsMatch(after[n].match, r)
    BY DEF n
  <2>1. after[1] = next(1, Start)
    BY <1>12
  <2>2. after[1].match = AcceptAll(Start.match, accepts(Start))
    BY <1>2, <1>3, <2>1
  <2> QED
    BY <1>4, <2>2
<1> QED
  BY <1>1, <1>14, <1>15, <1>16

-----------------------------------------------------------------------------
(* The order in which a wavefront meets the requests. *)

(* The members of a finite set ordered by R have the ranks 1, 2, and so on. *)
LEMMA Ranked ==
  ASSUME NEW S, IsFiniteSet(S), NEW R,
         \A x \in S : <<x, x>> \notin R,
         \A x, y, z \in S : <<x, y>> \in R /\ <<y, z>> \in R => <<x, z>> \in R,
         \A x, y \in S : x = y \/ <<x, y>> \in R \/ <<y, x>> \in R
  PROVE  /\ Cardinality(S) \in Nat
         /\ \A k \in 1 .. Cardinality(S) : \E x \in S : Cardinality({y \in S : <<y, x>> \in R}) = k - 1
         /\ \A x \in S : \E k \in 1 .. Cardinality(S) : Cardinality({y \in S : <<y, x>> \in R}) = k - 1
         /\ \A x, z \in S : Cardinality({y \in S : <<y, x>> \in R}) = Cardinality({y \in S : <<y, z>> \in R}) => x = z
<1> DEFINE below(x) == {y \in S : <<y, x>> \in R}
           C == Cardinality(S)
           rank == [x \in S |-> Cardinality(below(x)) + 1]
<1>1. C \in Nat
  BY FS_CardinalityType
<1>2. \A x \in S : x \notin below(x) /\ below(x) \in SUBSET S
  OBVIOUS
<1>3. \A x, y \in S : <<x, y>> \in R => below(x) \in SUBSET below(y) /\ x \in below(y)
  OBVIOUS
<1> HIDE DEF below
<1>4. \A x \in S : /\ IsFiniteSet(below(x)) /\ Cardinality(below(x)) \in Nat
                   /\ Cardinality(below(x)) <= C /\ Cardinality(below(x)) # C
  <2> TAKE x \in S
  <2>1. IsFiniteSet(below(x)) /\ Cardinality(below(x)) <= C /\ (C = Cardinality(below(x)) => S = below(x))
    BY <1>2, FS_Subset
  <2>2. S # below(x)
    BY <1>2
  <2> QED
    BY <2>1, <2>2, FS_CardinalityType
<1>5. \A x, y \in S : <<x, y>> \in R => Cardinality(below(x)) # Cardinality(below(y))
  <2> SUFFICES ASSUME NEW x \in S, NEW y \in S, <<x, y>> \in R
               PROVE  Cardinality(below(x)) # Cardinality(below(y))
    OBVIOUS
  <2>1. below(x) \in SUBSET below(y) /\ IsFiniteSet(below(y)) /\ below(x) # below(y)
    BY <1>2, <1>3, <1>4
  <2> QED
    BY <2>1, FS_Subset
<1>6. \A x \in S : rank[x] = Cardinality(below(x)) + 1
  OBVIOUS
<1>7. \A x \in S : rank[x] \in 1 .. C
  <2> TAKE x \in S
  <2> HIDE DEF rank, C
  <2> QED
    BY <1>1, <1>4, <1>6
<1>8. \A x, y \in S : rank[x] = rank[y] => x = y
  <2> SUFFICES ASSUME NEW x \in S, NEW y \in S, rank[x] = rank[y] PROVE x = y
    OBVIOUS
  <2>1. Cardinality(below(x)) \in Nat /\ Cardinality(below(y)) \in Nat
    BY <1>4
  <2>2. Cardinality(below(x)) = Cardinality(below(y))
    <3> HIDE DEF rank
    <3> QED
      BY <1>6, <2>1
  <2> QED
    BY <1>5, <2>2
<1>9. rank \in Injection(S, 1 .. C)
  BY <1>7, <1>8 DEF Injection, IsInjective
<1>10. Cardinality(1 .. C) = C /\ IsFiniteSet(1 .. C)
  BY <1>1, FS_Interval
<1>11. rank \in Surjection(S, 1 .. C)
  BY <1>9, <1>10, FS_Injection
<1>12. \A k \in 1 .. C : \E x \in S : rank[x] = k
  BY <1>11 DEF Surjection
<1>13. \A k \in 1 .. C : \E x \in S : Cardinality(below(x)) = k - 1
  <2> TAKE k \in 1 .. C
  <2>1. PICK x \in S : rank[x] = k
    BY <1>12
  <2>2. Cardinality(below(x)) = k - 1
    <3> HIDE DEF C, rank
    <3> QED
      BY <1>4, <1>6, <2>1
  <2> QED
    BY <2>2
<1>14. \A x \in S : \E k \in 1 .. C : Cardinality(below(x)) = k - 1
  <2> TAKE x \in S
  <2>1. rank[x] \in 1 .. C /\ rank[x] = Cardinality(below(x)) + 1 /\ Cardinality(below(x)) \in Nat
    BY <1>4, <1>6, <1>7
  <2>2. Cardinality(below(x)) = rank[x] - 1
    <3> HIDE DEF C, rank
    <3> QED
      BY <2>1
  <2> QED
    BY <2>1, <2>2
<1>15. \A x, z \in S : Cardinality(below(x)) = Cardinality(below(z)) => x = z
  BY <1>6, <1>8
<1> QED
  BY <1>1, <1>13, <1>14, <1>15 DEF below

(* Ports with the same diagonal and the same output are the same. *)
LEMMA SameModulo ==
  ASSUME NEW n \in Nat \ {0}, NEW a \in Nat, NEW x \in 0 .. n - 1, NEW y \in 0 .. n - 1,
         (x + a) % n = (y + a) % n
  PROVE  x = y
<1>1. ASSUME NEW u \in 0 .. n - 1, NEW v \in 0 .. n - 1, (u + a) % n = (v + a) % n, u < v
      PROVE  FALSE
  <2> DEFINE p == (u + a) \div n
             q == (v + a) \div n
             m == (u + a) % n
  <2>1. p \in Nat /\ q \in Nat /\ u + a = n * p + m /\ v + a = n * q + m /\ m \in 0 .. n - 1
    <3>1. u + a \in Nat /\ v + a \in Nat
      OBVIOUS
    <3> QED
      BY <1>1, <3>1, Divided
  <2> HIDE DEF p, q, m
  <2> DEFINE np == n * p
             nq == n * q
  <2>2. np \in Int /\ nq \in Int /\ u + a = np + m /\ v + a = nq + m /\ np < nq /\ nq < np + n
    <3>1. np \in Int /\ nq \in Int /\ u + a = np + m /\ v + a = nq + m
      BY <2>1
    <3> HIDE DEF np, nq
    <3> QED
      BY <1>1, <2>1, <3>1
  <2>3. CASE q <= p
    <3>1. PICK e \in Nat : p = q + e
      <4>1. p - q \in Nat /\ p = q + (p - q)
        BY <2>1, <2>3
      <4> QED
        BY <4>1
    <3>2. np = nq + n * e /\ n * e \in Nat
      BY <2>1, <3>1
    <3> HIDE DEF np, nq
    <3> QED
      BY <2>2, <3>2
  <2>4. CASE q > p
    <3>1. PICK e \in Nat : q = p + 1 + e
      <4>1. q - p - 1 \in Nat /\ q = p + 1 + (q - p - 1)
        BY <2>1, <2>4
      <4> QED
        BY <4>1
    <3>2. nq = np + n + n * e /\ n * e \in Nat
      BY <2>1, <3>1
    <3> HIDE DEF np, nq
    <3> QED
      BY <2>2, <3>2
  <2> QED
    BY <2>1, <2>3, <2>4
<1>2. ~(x < y) /\ ~(y < x)
  BY <1>1
<1> QED
  BY <1>2

(* The side of the square that holds inputs and outputs. *)
LEMMA Squares ==
  ASSUME config \in Configs
  PROVE  Square \in Nat \ {0} /\ Input \subseteq 0 .. Square - 1 /\ Output \subseteq 0 .. Square - 1
<1>1. CASE config.inputs > config.outputs
  BY <1>1, Sizes DEF Square
<1>2. CASE ~(config.inputs > config.outputs)
  BY <1>2, Sizes DEF Square
<1> QED
  BY <1>1, <1>2

(* Of two requests one comes before the other, and Before has no cycle. *)
LEMMA BeforeOrders ==
  ASSUME config \in Configs, turn \in 0 .. Square - 1, NEW r \in Requests
  PROVE  /\ \A c \in DOMAIN r : ~Before(r, c, c)
         /\ \A c, d, e \in DOMAIN r : Before(r, c, d) /\ Before(r, d, e) => Before(r, c, e)
         /\ \A c, d \in DOMAIN r : c = d \/ Before(r, c, d) \/ Before(r, d, c)
<1> DEFINE in(c) == r[c][1]
           out(c) == r[c][2]
           diag(c) == Diagonal(c)
           port(c) == c[2]
<1>1. \A c \in DOMAIN r : /\ in(c) \in Int /\ out(c) \in Int /\ port(c) \in Output /\ c[1] \in Input
                          /\ c = <<c[1], c[2]>> /\ r[c] = <<in(c), out(c)>>
  BY Asked
<1>2. \A c \in DOMAIN r : diag(c) \in Int /\ port(c) \in Int
  <2> TAKE c \in DOMAIN r
  <2>1. c[1] \in Int /\ c[2] \in Int /\ turn \in Int /\ Square \in Nat \ {0}
    BY <1>1, Sizes, Squares
  <2> QED
    BY <2>1 DEF Diagonal
<1>3. \A c, d \in DOMAIN r : r[c] = r[d] <=> in(c) = in(d) /\ out(c) = out(d)
  <2> SUFFICES ASSUME NEW c \in DOMAIN r, NEW d \in DOMAIN r
               PROVE  r[c] = r[d] <=> in(c) = in(d) /\ out(c) = out(d)
    OBVIOUS
  <2>1. r[c] = <<in(c), out(c)>> /\ r[d] = <<in(d), out(d)>>
    BY <1>1
  <2> QED
    BY <2>1
<1>4. ASSUME NEW c \in DOMAIN r, NEW d \in DOMAIN r, diag(c) = diag(d), port(c) = port(d)
      PROVE  c = d
  <2> DEFINE a == c[2] - turn + Square
  <2>1. /\ c[1] \in 0 .. Square - 1 /\ d[1] \in 0 .. Square - 1 /\ c[2] \in 0 .. Square - 1 /\ Square \in Nat \ {0}
        /\ c = <<c[1], c[2]>> /\ d = <<d[1], d[2]>>
    BY <1>1, Squares
  <2>2. a \in Nat /\ c[1] + c[2] - turn + Square = c[1] + a /\ d[1] + d[2] - turn + Square = d[1] + a
    BY <1>4, <2>1
  <2>3. (c[1] + a) % Square = (d[1] + a) % Square
    BY <1>4, <2>2 DEF Diagonal
  <2>4. c[1] = d[1]
    <3> HIDE DEF a
    <3> QED
      BY <2>1, <2>2, <2>3, SameModulo
  <2> QED
    BY <1>4, <2>1, <2>4
<1>5. \A c, d \in DOMAIN r :
        Before(r, c, d) <=> \/ out(c) > out(d)
                            \/ out(c) = out(d) /\ in(c) > in(d)
                            \/ /\ in(c) = in(d) /\ out(c) = out(d)
                               /\ diag(c) < diag(d) \/ (diag(c) = diag(d) /\ port(c) < port(d))
  BY <1>3 DEF Before, Above
<1> HIDE DEF in, out, diag, port
<1>6. \A c \in DOMAIN r : in(c) \in Int /\ out(c) \in Int /\ diag(c) \in Int /\ port(c) \in Int
  BY <1>1, <1>2
<1>7. \A c \in DOMAIN r : ~Before(r, c, c)
  BY <1>5, <1>6
<1>8. ASSUME NEW c \in DOMAIN r, NEW d \in DOMAIN r, NEW e \in DOMAIN r, Before(r, c, d), Before(r, d, e)
      PROVE  Before(r, c, e)
  BY <1>5, <1>6, <1>8
<1>9. ASSUME NEW c \in DOMAIN r, NEW d \in DOMAIN r, c # d
      PROVE  Before(r, c, d) \/ Before(r, d, c)
  <2>1. diag(c) # diag(d) \/ port(c) # port(d)
    BY <1>4, <1>9 DEF diag, port
  <2> QED
    BY <1>5, <1>6, <2>1
<1> QED
  BY <1>7, <1>8, <1>9

(* The wavefront meets every request, one of the highest priority first. *)
LEMMA OrderedRequests ==
  ASSUME config \in Configs, turn \in 0 .. Square - 1, NEW r \in Requests
  PROVE  /\ Cardinality(DOMAIN r) \in Nat /\ Len(Ordered(r)) = Cardinality(DOMAIN r)
         /\ \A k \in 1 .. Cardinality(DOMAIN r) : Ordered(r)[k] \in DOMAIN r
         /\ \A c \in DOMAIN r : \E k \in 1 .. Cardinality(DOMAIN r) : Ordered(r)[k] = c
         /\ \A c \in DOMAIN r : ~Before(r, c, Ordered(r)[1])
<1> DEFINE S == DOMAIN r
           R == {p \in S \X S : Before(r, p[1], p[2])}
           C == Cardinality(S)
           before(c) == {d \in S : Before(r, d, c)}
<1>1. \A c, d \in S : <<c, d>> \in R <=> Before(r, c, d)
  OBVIOUS
<1>2. \A c \in S : {d \in S : <<d, c>> \in R} = before(c)
  BY <1>1
<1> HIDE DEF R
<1>3. /\ \A x \in S : <<x, x>> \notin R
      /\ \A x, y, z \in S : <<x, y>> \in R /\ <<y, z>> \in R => <<x, z>> \in R
      /\ \A x, y \in S : x = y \/ <<x, y>> \in R \/ <<y, x>> \in R
  BY <1>1, BeforeOrders
<1>4. IsFiniteSet(S)
  BY Asked
<1>5. /\ C \in Nat /\ \A k \in 1 .. C : \E c \in S : Cardinality({d \in S : <<d, c>> \in R}) = k - 1
      /\ \A c \in S : \E k \in 1 .. C : Cardinality({d \in S : <<d, c>> \in R}) = k - 1
      /\ \A c, e \in S : Cardinality({d \in S : <<d, c>> \in R}) = Cardinality({d \in S : <<d, e>> \in R}) => c = e
  <2> HIDE DEF S
  <2>1. /\ Cardinality(S) \in Nat
        /\ \A k \in 1 .. Cardinality(S) : \E x \in S : Cardinality({y \in S : <<y, x>> \in R}) = k - 1
        /\ \A x \in S : \E k \in 1 .. Cardinality(S) : Cardinality({y \in S : <<y, x>> \in R}) = k - 1
        /\ \A x, z \in S : Cardinality({y \in S : <<y, x>> \in R}) = Cardinality({y \in S : <<y, z>> \in R}) => x = z
    BY <1>3, <1>4, Ranked, Zenon
  <2> QED
    BY <2>1
<1>6. /\ \A k \in 1 .. C : \E c \in S : Cardinality(before(c)) = k - 1
      /\ \A c \in S : \E k \in 1 .. C : Cardinality(before(c)) = k - 1
      /\ \A c, e \in S : Cardinality(before(c)) = Cardinality(before(e)) => c = e
  <2> HIDE DEF before
  <2> QED
    BY <1>2, <1>5
<1>7. Ordered(r) = [k \in 1 .. C |-> CHOOSE c \in S : Cardinality(before(c)) = k - 1]
  BY DEF Ordered
<1>8. \A k \in 1 .. C : Ordered(r)[k] \in S /\ Cardinality(before(Ordered(r)[k])) = k - 1
  <2> HIDE DEF before
  <2> QED
    BY <1>6, <1>7
<1>9. Len(Ordered(r)) = C
  <2> HIDE DEF C, before
  <2> QED
    BY <1>5, <1>7
<1>10. \A c \in S : \E k \in 1 .. C : Ordered(r)[k] = c
  <2> HIDE DEF before
  <2> QED
    BY <1>6, <1>8
<1>11. ASSUME NEW c \in S PROVE ~Before(r, c, Ordered(r)[1])
  <2>1. 1 \in 1 .. C
    <3>1. PICK k \in 1 .. C : Ordered(r)[k] = c
      BY <1>10, <1>11
    <3> HIDE DEF C
    <3> QED
      BY <1>5, <3>1
  <2>2. Cardinality(before(Ordered(r)[1])) = 0 /\ IsFiniteSet(before(Ordered(r)[1]))
    <3>1. before(Ordered(r)[1]) \subseteq S
      OBVIOUS
    <3> HIDE DEF before, S, C
    <3> QED
      BY <1>4, <1>8, <2>1, <3>1, FS_Subset
  <2>3. before(Ordered(r)[1]) = {}
    <3> HIDE DEF before
    <3> QED
      BY <2>2, FS_EmptySet
  <2> QED
    BY <2>3
<1> QED
  BY <1>5, <1>8, <1>9, <1>10, <1>11

(* A request met is granted if both its ports are free. *)
LEMMA GrantMatches ==
  ASSUME config \in Configs, NEW r \in Requests, NEW m, IsMatch(m, r), NEW c \in DOMAIN r
  PROVE  /\ IsMatch(GrantIfFree(m, c), r)
         /\ \A i \in Input : m.in[i] # Unmatched => GrantIfFree(m, c).in[i] = m.in[i]
         /\ \A o \in Output : m.out[o] # Unmatched => GrantIfFree(m, c).out[o] = m.out[o]
         /\ GrantIfFree(m, c).in[c[1]] # Unmatched \/ GrantIfFree(m, c).out[c[2]] # Unmatched
         /\ m = EmptyMatch => GrantIfFree(m, c).in[c[1]] = c[2]
<1>1. c[1] \in Input /\ c[2] \in Output /\ c = <<c[1], c[2]>>
  BY Asked
<1>2. CASE ~(m.in[c[1]] = Unmatched /\ m.out[c[2]] = Unmatched)
  <2>1. GrantIfFree(m, c) = m /\ m # EmptyMatch
    BY <1>1, <1>2 DEF GrantIfFree, EmptyMatch
  <2> QED
    BY <1>2, <2>1
<1>3. CASE m.in[c[1]] = Unmatched /\ m.out[c[2]] = Unmatched
  <2> DEFINE new == [in |-> [m.in EXCEPT ![c[1]] = c[2]], out |-> [m.out EXCEPT ![c[2]] = c[1]]]
  <2>1. m.in \in [Input -> Output \cup {Unmatched}] /\ m.out \in [Output -> Input \cup {Unmatched}]
    BY DEF IsMatch, MatchType
  <2>2. /\ \A i \in Input : new.in[i] = IF i = c[1] THEN c[2] ELSE m.in[i]
        /\ \A o \in Output : new.out[o] = IF o = c[2] THEN c[1] ELSE m.out[o]
    BY <1>1, <2>1
  <2>3. new \in MatchType
    BY <1>1, <2>1 DEF MatchType
  <2> HIDE DEF new
  <2>4. ASSUME NEW i \in Input, NEW o \in Output
        PROVE  new.in[i] = o <=> new.out[o] = i
    <3>1. m.in[i] = o <=> m.out[o] = i
      BY DEF IsMatch
    <3> QED
      BY <1>1, <1>3, <2>2, <3>1, Sizes, SMTT(30)
  <2>5. ASSUME NEW i \in Input, new.in[i] # Unmatched
        PROVE  <<i, new.in[i]>> \in DOMAIN r
    BY <1>1, <2>2, <2>5 DEF IsMatch
  <2>6. IsMatch(new, r)
    BY <2>3, <2>4, <2>5 DEF IsMatch
  <2>7. GrantIfFree(m, c) = new
    BY <1>3 DEF GrantIfFree, new
  <2>8. /\ \A i \in Input : m.in[i] # Unmatched => new.in[i] = m.in[i]
        /\ \A o \in Output : m.out[o] # Unmatched => new.out[o] = m.out[o]
        /\ new.in[c[1]] = c[2] /\ c[2] # Unmatched
    BY <1>1, <1>3, <2>2, Sizes
  <2> QED
    BY <2>6, <2>7, <2>8
<1> QED
  BY <1>2, <1>3

(* Wavefront::Allocate returns a matching that answers and leaves nothing out. *)
LEMMA WavefrontMatches ==
  ASSUME config \in Configs, turn \in 0 .. Square - 1, NEW r \in Requests, AllocateWavefront(r)
  PROVE  /\ \E m : IsMatch(m, r) /\ Answers(r, m) /\ Blocked(r, m) /\ Matched(r, m)
         /\ turn' \in 0 .. Square - 1
<1> DEFINE order == Ordered(r)
           n == Len(order)
           T == {m \in MatchType : IsMatch(m, r)}
           met(m, c) == m.in[c[1]] # Unmatched \/ m.out[c[2]] # Unmatched
           S == [k \in 0 .. n |-> {m \in T : /\ k = 0 => m = EmptyMatch
                                             /\ k >= 1 => m.in[order[1][1]] = order[1][2]
                                             /\ \A j \in 1 .. k : met(m, order[j])}]
           next(k, m) == GrantIfFree(m, order[k])
           body(f) == [k \in 0 .. n |-> IF k = 0 THEN EmptyMatch ELSE next(k, f[k - 1])]
           after == CHOOSE f : f = body(f)
           step == [k \in 1 .. n |-> [m \in T |-> next(k, m)]]
<1>1. Matched(r, after[n])
  BY DEF AllocateWavefront
<1>2. turn' = IF DOMAIN r = {} THEN turn
              ELSE IF config.kind = "rr_wavefront" THEN Following(order[1][1] + order[1][2], Square)
              ELSE Following(turn, Square)
  BY DEF AllocateWavefront
<1>3. n \in Nat /\ n = Cardinality(DOMAIN r) /\ (\A k \in 1 .. n : order[k] \in DOMAIN r) /\ EmptyMatch \in T
  BY OrderedRequests, EmptyMatches DEF IsMatch
<1> HIDE DEF order
<1>4. ASSUME NEW k \in 1 .. n, NEW m \in T PROVE next(k, m) \in T
  <2>1. IsMatch(next(k, m), r)
    BY <1>3, GrantMatches
  <2> QED
    BY <2>1 DEF IsMatch
<1>5. \A k \in 1 .. n : order[k] \in DOMAIN r /\ order[k][1] \in Input /\ order[k][2] \in Output
  BY <1>3, Asked
<1>6. ASSUME NEW k \in 1 .. n, NEW m \in S[k - 1] PROVE next(k, m) \in S[k]
  <2>1. /\ k - 1 \in 0 .. n /\ k \in 0 .. n /\ 1 \in 1 .. n /\ k # 0 /\ (k >= 1) /\ (k = 1 <=> k - 1 = 0)
        /\ (k # 1 => k - 1 >= 1) /\ \A j \in 1 .. k : (j = k \/ j \in 1 .. k - 1) /\ j \in 1 .. n
    <3> HIDE DEF n
    <3> QED
      BY <1>3
  <2>2. /\ m \in T /\ IsMatch(m, r) /\ (k = 1 => m = EmptyMatch) /\ (k # 1 => m.in[order[1][1]] = order[1][2])
        /\ \A j \in 1 .. k - 1 : met(m, order[j])
    <3>1. m \in {e \in T : /\ k - 1 = 0 => e = EmptyMatch
                          /\ k - 1 >= 1 => e.in[order[1][1]] = order[1][2]
                          /\ \A j \in 1 .. k - 1 : met(e, order[j])}
      <4> HIDE DEF T, met, n
      <4> QED
        BY <2>1
    <3>2. m \in T => IsMatch(m, r)
      OBVIOUS
    <3> HIDE DEF T, met, n
    <3> QED
      BY <2>1, <3>1, <3>2
  <2>3. /\ next(k, m) \in T
        /\ \A i \in Input : m.in[i] # Unmatched => next(k, m).in[i] = m.in[i]
        /\ \A o \in Output : m.out[o] # Unmatched => next(k, m).out[o] = m.out[o]
        /\ met(next(k, m), order[k])
        /\ m = EmptyMatch => next(k, m).in[order[k][1]] = order[k][2]
    <3>1. next(k, m) \in T
      BY <1>4, <2>2
    <3> QED
      BY <1>5, <2>2, <3>1, GrantMatches
  <2> HIDE DEF next, T, n
  <2>4. ASSUME NEW j \in 1 .. k PROVE met(next(k, m), order[j])
    BY <1>5, <2>1, <2>2, <2>3
  <2>5. next(k, m).in[order[1][1]] = order[1][2]
    <3>1. order[1][1] \in Input /\ order[1][2] # Unmatched
      BY <1>5, <2>1, Sizes
    <3> QED
      BY <2>2, <2>3, <3>1
  <2> HIDE DEF met
  <2> QED
    BY <2>1, <2>3, <2>4, <2>5
<1>7. EmptyMatch \in S[0]
  <2>1. 0 \in 0 .. n /\ ~(0 >= 1) /\ \A j \in 1 .. 0 : FALSE
    <3> HIDE DEF n
    <3> QED
      BY <1>3
  <2> HIDE DEF n, T, met
  <2> QED
    BY <1>3, <2>1
<1> HIDE DEF next, T, S
<1>8. step \in [1 .. n -> [T -> T]] /\ \A k \in 1 .. n, m \in T : step[k][m] = next(k, m)
  BY <1>4
<1> HIDE DEF n, step
<1>9. PICK f : IsIteration(f, n, T, EmptyMatch, step)
  <2>1. n \in Nat /\ EmptyMatch \in T /\ step \in [1 .. n -> [T -> T]]
    BY <1>3, <1>8
  <2> QED
    BY <2>1, Iterates
<1>10. f = body(f)
  <2>1. ASSUME NEW k \in 1 .. n PROVE f[k] = next(k, f[k - 1])
    <3>1. f[k - 1] \in T /\ f[k] = step[k][f[k - 1]]
      BY <1>3, <1>9 DEF IsIteration
    <3> QED
      BY <1>8, <3>1
  <2>2. \A k \in 0 .. n : f[k] = IF k = 0 THEN EmptyMatch ELSE next(k, f[k - 1])
    BY <1>3, <1>9, <2>1 DEF IsIteration
  <2> QED
    BY <1>9, <2>2 DEF IsIteration
<1>11. after = body(after)
  <2> HIDE DEF body
  <2> QED
    BY <1>10
<1> HIDE DEF after
<1>12. /\ after[0] = EmptyMatch
       /\ \A k \in 1 .. n : after[k] = next(k, after[k - 1])
  BY <1>3, <1>11
<1>13. \A k \in 0 .. n : after[k] \in S[k]
  <2>1. n \in Nat /\ after[0] \in S[0]
    BY <1>3, <1>7, <1>12
  <2>2. \A k \in 1 .. n : after[k - 1] \in S[k - 1] => after[k] \in S[k]
    BY <1>6, <1>12
  <2> QED
    BY <2>1, <2>2, IteratesThrough
<1>14. after[n] \in T /\ (n >= 1 => after[n].in[order[1][1]] = order[1][2])
       /\ \A j \in 1 .. n : met(after[n], order[j])
  <2>1. n \in 0 .. n /\ after[n] \in S[n]
    BY <1>3, <1>13
  <2> QED
    BY <2>1 DEF S
<1>15. Blocked(r, after[n])
  <2> SUFFICES ASSUME NEW c \in DOMAIN r PROVE met(after[n], c)
    BY DEF Blocked
  <2>1. PICK k \in 1 .. n : order[k] = c
    BY <1>3, OrderedRequests DEF order
  <2> QED
    BY <1>14, <2>1
<1>16. Answers(r, after[n])
  <2> SUFFICES ASSUME NEW c \in DOMAIN r
               PROVE  \E d \in Pairs(after[n]) \cap DOMAIN r : Even(r) => r[c][1] <= r[d][1]
    BY DEF Answers
  <2>1. 1 \in 1 .. n /\ n >= 1
    <3>1. PICK k \in 1 .. n : order[k] = c
      BY <1>3, OrderedRequests DEF order
    <3> QED
      BY <1>3, <3>1
  <2>2. order[1] \in DOMAIN r /\ order[1] \in Input \X Output
    BY <1>3, <2>1, Asked
  <2>3. order[1] \in Pairs(after[n])
    BY <1>14, <2>1, <2>2 DEF Pairs
  <2>4. ~Above(r, c, order[1])
    BY OrderedRequests DEF Before, order
  <2>5. Even(r) => r[c][1] <= r[order[1]][1]
    <3>1. r[c][1] \in Int /\ r[c][2] \in Int /\ r[order[1]][1] \in Int /\ r[order[1]][2] \in Int
      BY <2>2, Asked
    <3> QED
      BY <2>2, <2>4, <3>1 DEF Above, Even
  <2> QED
    BY <2>2, <2>3, <2>5
<1>17. \A x \in Int : Following(x, Square) \in 0 .. Square - 1
  BY Squares DEF Following
<1>18. DOMAIN r # {} => order[1][1] + order[1][2] \in Int
  <2> SUFFICES ASSUME DOMAIN r # {} PROVE order[1][1] + order[1][2] \in Int
    OBVIOUS
  <2>1. n # 0
    <3>1. IsFiniteSet(DOMAIN r) /\ n = Cardinality(DOMAIN r)
      BY <1>3, Asked
    <3> QED
      BY <3>1, FS_EmptySet
  <2>2. order[1] \in DOMAIN r
    BY <1>3, <2>1
  <2>3. order[1][1] \in Int /\ order[1][2] \in Int
    <3>1. order[1] \in Input \X Output
      BY <2>2, Asked
    <3>2. (\A i \in Input : i \in Int) /\ (\A o \in Output : o \in Int)
      BY Sizes
    <3> QED
      BY <3>1, <3>2
  <2> QED
    BY <2>3
<1>19. turn' \in 0 .. Square - 1
  <2>1. CASE DOMAIN r = {}
    BY <1>2, <2>1
  <2>2. CASE DOMAIN r # {} /\ config.kind = "rr_wavefront"
    <3>1. turn' = Following(order[1][1] + order[1][2], Square)
      BY <1>2, <2>2
    <3> QED
      BY <1>17, <1>18, <2>2, <3>1
  <2>3. CASE DOMAIN r # {} /\ config.kind # "rr_wavefront"
    <3>1. turn' = Following(turn, Square) /\ turn \in Int
      BY <1>2, <2>3, Squares
    <3> QED
      BY <1>17, <3>1
  <2> QED
    BY <2>1, <2>2, <2>3
<1> QED
  BY <1>1, <1>14, <1>15, <1>16, <1>19 DEF T

-----------------------------------------------------------------------------
(* The search for an augmenting path. *)

(* What Append adds. *)
LEMMA AppendAdds ==
  ASSUME NEW S, NEW q \in Seq(S), NEW x \in S
  PROVE  /\ Append(q, x) \in Seq(S) /\ DOMAIN Append(q, x) = 1 .. Len(q) + 1 /\ DOMAIN q = 1 .. Len(q)
         /\ Len(q) \in Nat
         /\ \A e \in DOMAIN Append(q, x) : Append(q, x)[e] = IF e = Len(q) + 1 THEN x ELSE q[e]
OBVIOUS

SearchStates == [from : [Output -> Input \cup {-1}], found : Output \cup {NoGrant}, reached : Seq(Input)]

(* The outputs the search has got to.  Those beyond the inputs it never    *)
(* gets to.                                                                *)
Reached(s) == {j \in Output : j < config.inputs /\ s.from[j] # -1}

(* The edges that lead to an output are requests; rank is the length of    *)
(* the path to it, at most n, along inputs and the outputs they have.      *)
Explored(r, m, s, rank, n) ==
  /\ s \in SearchStates /\ rank \in [Output -> Nat]
  /\ \A j \in Output : j >= config.inputs => s.from[j] # -1
  /\ \A j \in Reached(s) :
       /\ <<s.from[j], j>> \in DOMAIN r /\ rank[j] \in 1 .. n
       /\ m.in[s.from[j]] # Unmatched => /\ m.in[s.from[j]] \in Reached(s)
                                         /\ rank[m.in[s.from[j]]] < rank[j]
  /\ s.found # NoGrant => s.found \in Reached(s) /\ m.out[s.found] = Unmatched

(* The inputs of a stack are unmatched, or their outputs were got to.      *)
Stacked(m, s, stack, rank, n) ==
  \A e \in DOMAIN stack : m.in[stack[e]] # Unmatched =>
    m.in[stack[e]] \in Reached(s) /\ rank[m.in[stack[e]]] <= n

(* Visit keeps the types. *)
LEMMA VisitType ==
  ASSUME config \in Configs, NEW r, NEW m \in MatchType, NEW s \in SearchStates, NEW edge \in Input \X Output
  PROVE  Visit(r, m, s, edge) \in SearchStates
<1> DEFINE i == edge[1]
           j == edge[2]
<1>1. i \in Input /\ j \in Output
  OBVIOUS
<1>2. s.from \in [Output -> Input \cup {-1}] /\ s.reached \in Seq(Input) /\ s.found \in Output \cup {NoGrant}
      /\ s = [from |-> s.from, found |-> s.found, reached |-> s.reached]
  BY DEF SearchStates
<1>3. m.out[j] \in Input \cup {Unmatched}
  BY <1>1 DEF MatchType
<1> HIDE DEF i, j
<1>4. [s.from EXCEPT ![j] = i] \in [Output -> Input \cup {-1}]
  BY <1>1, <1>2
<1>5. CASE s.found # NoGrant \/ edge \notin DOMAIN r \/ m.in[i] = j \/ s.from[j] # -1
  BY <1>5 DEF Visit, i, j
<1>6. CASE ~(s.found # NoGrant \/ edge \notin DOMAIN r \/ m.in[i] = j \/ s.from[j] # -1) /\ m.out[j] = Unmatched
  <2>1. Visit(r, m, s, edge) = [s EXCEPT !.from[j] = i, !.found = j]
    BY <1>6 DEF Visit, i, j
  <2>2. [s EXCEPT !.from[j] = i, !.found = j] \in SearchStates
    BY <1>1, <1>2, <1>4 DEF SearchStates
  <2> QED
    BY <2>1, <2>2
<1>7. CASE ~(s.found # NoGrant \/ edge \notin DOMAIN r \/ m.in[i] = j \/ s.from[j] # -1) /\ m.out[j] # Unmatched
  <2>1. Visit(r, m, s, edge) = [s EXCEPT !.from[j] = i, !.reached = Append(@, m.out[j])]
    BY <1>7 DEF Visit, i, j
  <2>2. Append(s.reached, m.out[j]) \in Seq(Input)
    BY <1>2, <1>3, <1>7, AppendAdds
  <2>3. [s EXCEPT !.from[j] = i, !.reached = Append(@, m.out[j])] \in SearchStates
    BY <1>2, <1>4, <2>2 DEF SearchStates
  <2> QED
    BY <2>1, <2>3
<1> QED
  BY <1>5, <1>6, <1>7

(* An edge that is not skipped leads the search to its output. *)
LEMMA VisitReaches ==
  ASSUME config \in Configs, NEW r, NEW m \in MatchType, NEW s \in SearchStates, NEW i \in Input, NEW j \in Output,
         ~(s.found # NoGrant \/ <<i, j>> \notin DOMAIN r \/ m.in[i] = j \/ s.from[j] # -1),
         NEW new, new = Visit(r, m, s, <<i, j>>)
  PROVE  /\ new.from = [s.from EXCEPT ![j] = i]
         /\ m.out[j] = Unmatched => new.found = j /\ new.reached = s.reached
         /\ m.out[j] # Unmatched => new.found = s.found /\ new.reached = Append(s.reached, m.out[j])
         /\ \A o \in Output : new.from[o] = IF o = j THEN i ELSE s.from[o]
         /\ j < config.inputs => Reached(new) = Reached(s) \cup {j}
         /\ j \notin Reached(s)
<1>1. s = [from |-> s.from, found |-> s.found, reached |-> s.reached] /\ s.from \in [Output -> Input \cup {-1}]
  BY DEF SearchStates
<1>2. /\ new.from = [s.from EXCEPT ![j] = i]
      /\ m.out[j] = Unmatched => new.found = j /\ new.reached = s.reached
      /\ m.out[j] # Unmatched => new.found = s.found /\ new.reached = Append(s.reached, m.out[j])
  <2>1. CASE m.out[j] = Unmatched
    <3>1. new = [s EXCEPT !.from[j] = i, !.found = j]
      BY <2>1 DEF Visit
    <3> QED
      BY <1>1, <2>1, <3>1
  <2>2. CASE m.out[j] # Unmatched
    <3>1. new = [s EXCEPT !.from[j] = i, !.reached = Append(@, m.out[j])]
      BY <2>2 DEF Visit
    <3> QED
      BY <1>1, <2>2, <3>1
  <2> QED
    BY <2>1, <2>2
<1>3. \A o \in Output : new.from[o] = IF o = j THEN i ELSE s.from[o]
  BY <1>1, <1>2
<1>4. i # -1 /\ j \notin Reached(s)
  <2>1. -1 \notin Input
    BY Sizes DEF NoGrant
  <2> QED
    BY <2>1 DEF Reached
<1>5. j < config.inputs => Reached(new) = Reached(s) \cup {j}
  BY <1>3, <1>4 DEF Reached
<1> QED
  BY <1>2, <1>3, <1>4, <1>5

(* During the search of level n + 1 with the stack of level n. *)
Searching(r, m, s, stack, n) ==
  \E rank : /\ Explored(r, m, s, rank, n + 1)
            /\ Stacked(m, s, stack, rank, n)
            /\ Stacked(m, s, s.reached, rank, n + 1)

(* An output that is got to from the stack is at the next level. *)
LEMMA VisitKeeps ==
  ASSUME config \in Configs, NEW r \in Requests, NEW m, IsMatch(m, r), NEW n \in Nat,
         NEW stack, NEW s, Searching(r, m, s, stack, n), NEW e \in DOMAIN stack, NEW j \in Output, stack[e] \in Input
  PROVE  Searching(r, m, Visit(r, m, s, <<stack[e], j>>), stack, n)
<1> DEFINE i == stack[e]
           new == Visit(r, m, s, <<i, j>>)
<1>1. PICK rank : /\ Explored(r, m, s, rank, n + 1)
                  /\ Stacked(m, s, stack, rank, n) /\ Stacked(m, s, s.reached, rank, n + 1)
  BY DEF Searching
<1>2. s \in SearchStates /\ rank \in [Output -> Nat] /\ m \in MatchType
  BY <1>1 DEF Explored, IsMatch
<1>3. /\ s.from \in [Output -> Input \cup {-1}] /\ s.reached \in Seq(Input)
      /\ m.in \in [Input -> Output \cup {Unmatched}] /\ m.out \in [Output -> Input \cup {Unmatched}]
  BY <1>2 DEF SearchStates, MatchType
<1>4. new \in SearchStates
  <2>1. <<i, j>> \in Input \X Output
    OBVIOUS
  <2> HIDE DEF i
  <2> QED
    BY <1>2, <2>1, VisitType
<1>5. CASE s.found # NoGrant \/ <<i, j>> \notin DOMAIN r \/ m.in[i] = j \/ s.from[j] # -1
  <2>1. new = s
    BY <1>5 DEF Visit
  <2> QED
    BY <2>1
<1>6. CASE ~(s.found # NoGrant \/ <<i, j>> \notin DOMAIN r \/ m.in[i] = j \/ s.from[j] # -1)
  <2> DEFINE rank2 == [rank EXCEPT ![j] = n + 1]
  <2>1. j \notin Reached(s) /\ j < config.inputs /\ <<i, j>> \in DOMAIN r /\ i \in Input /\ i # -1
    <3>1. -1 \notin Input
      BY Sizes DEF NoGrant
    <3>2. j < config.inputs
      <4>1. j \in Int /\ config.inputs \in Int /\ (j >= config.inputs => s.from[j] # -1)
        BY <1>1, Sizes DEF Explored
      <4> QED
        BY <1>6, <4>1
    <3> QED
      BY <1>6, <3>1, <3>2 DEF Reached
  <2>2. /\ new.from = [s.from EXCEPT ![j] = i]
        /\ m.out[j] = Unmatched => new.found = j /\ new.reached = s.reached
        /\ m.out[j] # Unmatched => new.found = s.found /\ new.reached = Append(s.reached, m.out[j])
        /\ \A p \in Output : new.from[p] = IF p = j THEN i ELSE s.from[p]
        /\ j < config.inputs => Reached(new) = Reached(s) \cup {j}
    <3>1. i \in Input /\ new = Visit(r, m, s, <<i, j>>)
      OBVIOUS
    <3>2. ~(s.found # NoGrant \/ <<i, j>> \notin DOMAIN r \/ m.in[i] = j \/ s.from[j] # -1)
      BY <1>6
    <3> HIDE DEF i, new
    <3>3. /\ s \in SearchStates /\ m \in MatchType /\ i \in Input /\ j \in Output /\ config \in Configs
          /\ new = Visit(r, m, s, <<i, j>>)
      BY <1>2, <3>1
    <3> QED
      BY ONLY <3>2, <3>3, VisitReaches, SMTT(30)
  <2> HIDE DEF new, i
  <2>3. \A p \in Output : new.from[p] = IF p = j THEN i ELSE s.from[p]
    BY <2>2
  <2>4. Reached(new) = Reached(s) \cup {j}
    BY <2>1, <2>2
  <2>5. rank2 \in [Output -> Nat] /\ \A p \in Output : rank2[p] = IF p = j THEN n + 1 ELSE rank[p]
    BY <1>2
  <2> HIDE DEF rank2
  <2>6. \A p \in Reached(s) : p \in Output /\ p # j /\ rank2[p] = rank[p] /\ new.from[p] = s.from[p]
    BY <2>1, <2>3, <2>5 DEF Reached
  <2>7. m.in[i] # Unmatched => m.in[i] \in Reached(s) /\ rank[m.in[i]] <= n
    BY <1>1 DEF Stacked, i
  <2>8. Stacked(m, new, stack, rank2, n)
    BY <1>1, <2>4, <2>6 DEF Stacked
  <2>9. Stacked(m, new, s.reached, rank2, n + 1)
    BY <1>1, <2>4, <2>6 DEF Stacked
  <2>10. Stacked(m, new, new.reached, rank2, n + 1)
    <3>1. CASE m.out[j] = Unmatched
      BY <2>2, <2>9, <3>1
    <3>2. CASE m.out[j] # Unmatched
      <4>1. m.out[j] \in Input /\ m.in[m.out[j]] = j
        BY <1>3, <3>2 DEF IsMatch
      <4>2. /\ DOMAIN new.reached = 1 .. Len(s.reached) + 1 /\ DOMAIN s.reached = 1 .. Len(s.reached)
            /\ Len(s.reached) \in Nat
            /\ \A k \in DOMAIN new.reached : new.reached[k] = IF k = Len(s.reached) + 1 THEN m.out[j] ELSE s.reached[k]
        <5>1. s.reached \in Seq(Input) /\ m.out[j] \in Input /\ new.reached = Append(s.reached, m.out[j])
          BY <1>3, <2>2, <3>2, <4>1
        <5> QED
          BY <5>1, AppendAdds
      <4>3. rank2[j] <= n + 1 /\ j \in Reached(new)
        BY <2>4, <2>5
      <4> SUFFICES ASSUME NEW k \in DOMAIN new.reached, m.in[new.reached[k]] # Unmatched
                   PROVE  m.in[new.reached[k]] \in Reached(new) /\ rank2[m.in[new.reached[k]]] <= n + 1
        BY DEF Stacked
      <4>4. CASE k = Len(s.reached) + 1
        BY <4>1, <4>2, <4>3, <4>4
      <4>5. CASE k # Len(s.reached) + 1
        <5>1. k \in DOMAIN s.reached /\ new.reached[k] = s.reached[k]
          BY <4>2, <4>5
        <5> QED
          BY <2>9, <5>1 DEF Stacked
      <4> QED
        BY <4>4, <4>5
    <3> QED
      BY <3>1, <3>2
  <2>11. \A p \in Output : p >= config.inputs => new.from[p] # -1
    BY <1>1, <2>1, <2>3 DEF Explored
  <2>12. ASSUME NEW p \in Reached(new)
         PROVE  /\ <<new.from[p], p>> \in DOMAIN r /\ rank2[p] \in 1 .. n + 1
                /\ m.in[new.from[p]] # Unmatched => /\ m.in[new.from[p]] \in Reached(new)
                                                    /\ rank2[m.in[new.from[p]]] < rank2[p]
    <3>1. CASE p = j
      <4>1. new.from[p] = i /\ rank2[p] = n + 1
        BY <2>3, <2>5, <3>1
      <4>2. m.in[i] # Unmatched => m.in[i] \in Reached(new) /\ rank2[m.in[i]] <= n /\ rank2[m.in[i]] \in Nat
        BY <1>2, <2>4, <2>6, <2>7
      <4> QED
        BY <2>1, <3>1, <4>1, <4>2
    <3>2. CASE p # j
      <4>1. p \in Reached(s)
        BY <2>4, <3>2
      <4>2. /\ <<s.from[p], p>> \in DOMAIN r /\ rank[p] \in 1 .. n + 1
            /\ m.in[s.from[p]] # Unmatched => /\ m.in[s.from[p]] \in Reached(s)
                                              /\ rank[m.in[s.from[p]]] < rank[p]
        BY <1>1, <4>1 DEF Explored
      <4> QED
        BY <2>4, <2>6, <4>1, <4>2
    <3> QED
      BY <3>1, <3>2
  <2>13. new.found # NoGrant => new.found \in Reached(new) /\ m.out[new.found] = Unmatched
    BY <1>6, <2>2, <2>4
  <2>14. Explored(r, m, new, rank2, n + 1)
    BY <1>4, <2>5, <2>11, <2>12, <2>13 DEF Explored
  <2> QED
    BY <2>8, <2>10, <2>14 DEF Searching, i, new
<1> QED
  BY <1>5, <1>6

(* The edges of a level lead from an input of the stack. *)
LEMMA StackEdges ==
  ASSUME config \in Configs, NEW s \in SearchStates, NEW k \in 1 .. Len(s.reached) * config.outputs
  PROVE  \E e \in DOMAIN s.reached, j \in Output : s.reached[e] \in Input /\ Edge(s, k - 1) = <<s.reached[e], j>>
<1> DEFINE g == Len(s.reached)
           b == config.outputs
<1>1. s.reached \in Seq(Input)
  BY DEF SearchStates
<1>2. b \in Nat \ {0} /\ Output = 0 .. b - 1
  BY Sizes
<1>3. g \in Nat /\ DOMAIN s.reached = 1 .. g /\ \A e \in 1 .. g : s.reached[e] \in Input
  BY <1>1
<1>4. k \in 1 .. g * b
  OBVIOUS
<1> HIDE DEF g, b
<1>5. g # 0
  BY <1>2, <1>4
<1>6. k - 1 \in 0 .. g * b - 1
  <2>1. g * b \in Int
    BY <1>2, <1>3
  <2> QED
    BY <1>4, <2>1
<1>7. (k - 1) \div b \in 0 .. g - 1 /\ (k - 1) % b \in 0 .. b - 1
  <2>1. g \in Nat \ {0}
    BY <1>3, <1>5
  <2> QED
    BY <1>2, <1>6, <2>1, GroupOf
<1> DEFINE e == ((k - 1) \div b) + 1
<1>8. e \in 1 .. g
  BY <1>3, <1>7
<1>9. Edge(s, k - 1) = <<s.reached[e], (k - 1) % b>>
  BY DEF Edge, b
<1> HIDE DEF e
<1> QED
  BY <1>2, <1>3, <1>7, <1>8, <1>9

(* A level meets every edge from an input of the stack. *)
LEMMA EveryEdge ==
  ASSUME config \in Configs, NEW s \in SearchStates, NEW e \in DOMAIN s.reached, NEW j \in Output
  PROVE  \E k \in 1 .. Len(s.reached) * config.outputs : Edge(s, k - 1) = <<s.reached[e], j>>
<1> DEFINE g == Len(s.reached)
           b == config.outputs
           q == e - 1
           p == b * q + j
<1>1. b \in Nat \ {0} /\ j \in 0 .. b - 1
  BY Sizes
<1>2. g \in Nat /\ e \in 1 .. g /\ q \in Nat /\ q < g
  <2>1. s.reached \in Seq(Input)
    BY DEF SearchStates
  <2>2. g \in Nat /\ e \in 1 .. g
    BY <2>1
  <2> HIDE DEF g
  <2> QED
    BY <2>2
<1> HIDE DEF g, b, q
<1>3. p \div b = q /\ p % b = j
  BY <1>1, <1>2, Dividing
<1>4. p + 1 \in 1 .. g * b
  <2>1. PICK d \in Nat : g = q + 1 + d
    <3>1. g - q - 1 \in Nat /\ g = q + 1 + (g - q - 1)
      BY <1>2
    <3> QED
      BY <3>1
  <2> DEFINE bq == b * q
             bd == b * d
             gb == g * b
  <2>2. gb = bq + b + bd /\ bq \in Nat /\ bd \in Nat
    BY <1>1, <1>2, <2>1
  <2>3. p = bq + j
    OBVIOUS
  <2> HIDE DEF bq, bd, gb, p
  <2>4. p + 1 \in 1 .. gb
    BY <1>1, <2>2, <2>3
  <2> QED
    BY <2>4 DEF gb
<1>5. p \in Int /\ (p + 1) - 1 = p
  <2>1. b * q \in Nat
    BY <1>1, <1>2
  <2> QED
    BY <1>1, <2>1
<1>6. q + 1 = e
  BY <1>2 DEF q
<1> HIDE DEF p
<1>7. Edge(s, p) = <<s.reached[e], j>>
  BY <1>3, <1>6 DEF Edge, b
<1> QED
  BY <1>4, <1>5, <1>7 DEF g, b

(* f visits the edges of a level, from state s on. *)
Visits(f, r, m, s) ==
  /\ f[0] = [s EXCEPT !.reached = <<>>] /\ f[0] \in SearchStates
  /\ \A k \in 1 .. Len(s.reached) * config.outputs :
       f[k] = Visit(r, m, f[k - 1], Edge(s, k - 1)) /\ f[k] \in SearchStates
  /\ Level(r, m, s) = f[Len(s.reached) * config.outputs] /\ Level(r, m, s) \in SearchStates
  /\ Len(s.reached) * config.outputs \in Nat

(* One level of the search visits its edges one by one. *)
LEMMA LevelVisits ==
  ASSUME config \in Configs, NEW r, NEW m \in MatchType, NEW s \in SearchStates
  PROVE  \E f : Visits(f, r, m, s)
<1> DEFINE n == Len(s.reached) * config.outputs
           T == SearchStates
           start == [s EXCEPT !.reached = <<>>]
           next(k, t) == Visit(r, m, t, Edge(s, k - 1))
           body(f) == [k \in 0 .. n |-> IF k = 0 THEN start ELSE next(k, f[k - 1])]
           visited == CHOOSE f : f = body(f)
           step == [k \in 1 .. n |-> [t \in T |-> next(k, t)]]
<1>1. Level(r, m, s) = visited[n]
  BY DEF Level
<1>2. n \in Nat /\ start \in T
  <2>1. s.reached \in Seq(Input) /\ <<>> \in Seq(Input) /\ config.outputs \in Nat
    BY Sizes DEF SearchStates
  <2>2. Len(s.reached) \in Nat
    BY <2>1
  <2>3. n \in Nat
    BY <2>1, <2>2
  <2>4. start \in T
    BY <2>1 DEF SearchStates
  <2> QED
    BY <2>3, <2>4
<1>3. ASSUME NEW k \in 1 .. n, NEW t \in T PROVE next(k, t) \in T
  <2>1. PICK e \in DOMAIN s.reached, j \in Output : s.reached[e] \in Input /\ Edge(s, k - 1) = <<s.reached[e], j>>
    BY StackEdges
  <2>2. Edge(s, k - 1) \in Input \X Output
    BY <2>1
  <2> QED
    BY <2>2, VisitType
<1> HIDE DEF next, T, start
<1>4. step \in [1 .. n -> [T -> T]] /\ \A k \in 1 .. n, t \in T : step[k][t] = next(k, t)
  BY <1>3
<1> HIDE DEF n, step
<1>5. PICK f : IsIteration(f, n, T, start, step)
  <2>1. n \in Nat /\ start \in T /\ step \in [1 .. n -> [T -> T]]
    BY <1>2, <1>4
  <2> QED
    BY <2>1, Iterates
<1>6. f = body(f)
  <2>1. ASSUME NEW k \in 1 .. n PROVE f[k] = next(k, f[k - 1])
    <3>1. f[k - 1] \in T /\ f[k] = step[k][f[k - 1]]
      BY <1>2, <1>5 DEF IsIteration
    <3> QED
      BY <1>4, <3>1
  <2>2. \A k \in 0 .. n : f[k] = IF k = 0 THEN start ELSE next(k, f[k - 1])
    BY <1>2, <1>5, <2>1 DEF IsIteration
  <2> QED
    BY <1>5, <2>2 DEF IsIteration
<1>7. visited = body(visited)
  <2> HIDE DEF body
  <2> QED
    BY <1>6
<1> HIDE DEF visited
<1>8. /\ visited[0] = start
      /\ \A k \in 1 .. n : visited[k] = next(k, visited[k - 1])
  BY <1>2, <1>7
<1>9. \A k \in 0 .. n : visited[k] \in T
  <2>1. n \in Nat /\ visited[0] \in T
    BY <1>2, <1>8
  <2>2. \A k \in 1 .. n : visited[k - 1] \in T => visited[k] \in T
    BY <1>3, <1>8
  <2> QED
    BY <2>1, <2>2, IteratesIn
<1>10. visited[0] \in T /\ visited[n] \in T /\ \A k \in 1 .. n : visited[k] \in T
  BY <1>2, <1>9
<1>11. Visits(visited, r, m, s)
  BY <1>1, <1>2, <1>8, <1>10 DEF Visits, n, T, start, next
<1> QED
  BY <1>11

(* After level n of the search. *)
Searched(r, m, s, n) ==
  s \in SearchStates /\ \E rank : Explored(r, m, s, rank, n) /\ Stacked(m, s, s.reached, rank, n)

(* One level of the search goes one step further. *)
LEMMA LevelKeeps ==
  ASSUME config \in Configs, NEW r \in Requests, NEW m, IsMatch(m, r), NEW n \in Nat,
         NEW s, Searched(r, m, s, n)
  PROVE  Searched(r, m, Level(r, m, s), n + 1)
<1>1. m \in MatchType /\ s \in SearchStates
  BY DEF IsMatch, Searched
<1>2. PICK rank : Explored(r, m, s, rank, n) /\ Stacked(m, s, s.reached, rank, n)
  BY DEF Searched
<1>3. PICK f : Visits(f, r, m, s)
  BY <1>1, LevelVisits
<1> DEFINE last == Len(s.reached) * config.outputs
           T == {t \in SearchStates : Searching(r, m, t, s.reached, n)}
<1>4. f[0] \in T
  <2>1. f[0] \in SearchStates /\ f[0] = [s EXCEPT !.reached = <<>>]
    BY <1>3 DEF Visits
  <2>2. f[0].from = s.from /\ f[0].found = s.found /\ f[0].reached = <<>>
    BY <1>1, <2>1 DEF SearchStates
  <2>3. Reached(f[0]) = Reached(s)
    BY <2>2 DEF Reached
  <2>4. Explored(r, m, f[0], rank, n + 1)
    <3>1. \A j \in Reached(s) : rank[j] \in 1 .. n + 1
      <4>1. \A j \in Reached(s) : rank[j] \in 1 .. n
        BY <1>2 DEF Explored
      <4> QED
        BY <4>1
    <3> QED
      BY <1>2, <2>1, <2>2, <2>3, <3>1 DEF Explored
  <2>5. Stacked(m, f[0], s.reached, rank, n)
    BY <1>2, <2>3 DEF Stacked
  <2>6. Stacked(m, f[0], f[0].reached, rank, n + 1)
    BY <2>2 DEF Stacked
  <2> QED
    BY <2>1, <2>4, <2>5, <2>6 DEF Searching
<1>5. ASSUME NEW k \in 1 .. last, f[k - 1] \in T
      PROVE  f[k] \in T
  <2>1. f[k] = Visit(r, m, f[k - 1], Edge(s, k - 1)) /\ f[k] \in SearchStates
    BY <1>3 DEF Visits
  <2>2. PICK e \in DOMAIN s.reached, j \in Output : s.reached[e] \in Input /\ Edge(s, k - 1) = <<s.reached[e], j>>
    BY <1>1, StackEdges
  <2>3. Searching(r, m, f[k - 1], s.reached, n)
    BY <1>5
  <2>4. Searching(r, m, Visit(r, m, f[k - 1], <<s.reached[e], j>>), s.reached, n)
    BY <2>2, <2>3, VisitKeeps
  <2> QED
    BY <2>1, <2>2, <2>4
<1>6. f[last] \in T
  <2>1. last \in Nat
    BY <1>3 DEF Visits
  <2> HIDE DEF last, T
  <2>2. \A k \in 0 .. last : f[k] \in T
    BY <1>4, <1>5, <2>1, IteratesIn
  <2> QED
    BY <2>1, <2>2
<1>7. Level(r, m, s) = f[last]
  BY <1>3 DEF Visits
<1> QED
  BY <1>6, <1>7 DEF Searching, Searched

(* Every request of input i leads to an output the search has got to.      *)
Expanded(r, s, i) == \A j \in Output : <<i, j>> \in DOMAIN r => j \in Reached(s)
OnStack(s, i) == \E e \in DOMAIN s.reached : s.reached[e] = i

(* A search that has found nothing by level n has only got to outputs that *)
(* are matched; the inputs it has got to, whether unmatched or by their    *)
(* outputs, are on the stack or have been expanded; and each level has got *)
(* to one more output at least, if there is still something on the stack.  *)
Exhausting(r, m, s, n) == s.found = NoGrant =>
  /\ \A j \in Reached(s) : m.out[j] # Unmatched
  /\ \A i \in Input : m.in[i] = Unmatched \/ m.in[i] \in Reached(s) => OnStack(s, i) \/ Expanded(r, s, i)
  /\ DOMAIN s.reached # {} => Cardinality(Reached(s)) >= n

(* The same in the middle of a level that started in state s, when k edges *)
(* have been visited.                                                      *)
Exhausted(r, m, s, t, k) == t.found = NoGrant =>
  /\ s.found = NoGrant /\ Reached(s) \subseteq Reached(t)
  /\ \A j \in Reached(t) : m.out[j] # Unmatched /\ (j \in Reached(s) \/ OnStack(t, m.out[j]))
  /\ \A l \in 1 .. k : Edge(s, l - 1) \in DOMAIN r => Edge(s, l - 1)[2] \in Reached(t)
  /\ DOMAIN t.reached # {} => Reached(t) # Reached(s)

(* An edge visited leads to an output the search has got to. *)
LEMMA VisitExhausts ==
  ASSUME config \in Configs, config.outputs <= config.inputs, NEW r, NEW m, IsMatch(m, r), NEW s,
         NEW t \in SearchStates, NEW k \in Nat \ {0}, Exhausted(r, m, s, t, k - 1),
         NEW i \in Input, NEW j \in Output, Edge(s, k - 1) = <<i, j>>,
         m.in[i] = Unmatched \/ m.in[i] \in Reached(s),
         NEW new, new = Visit(r, m, t, <<i, j>>)
  PROVE  Exhausted(r, m, s, new, k)
<1>1. m \in MatchType /\ m.out \in [Output -> Input \cup {Unmatched}] /\ j # Unmatched
  BY Sizes, SMTT(30) DEF IsMatch, MatchType
<1>2. j < config.inputs
  <2>1. j \in 0 .. config.outputs - 1 /\ config.outputs \in Nat /\ config.inputs \in Nat
    BY Sizes
  <2> QED
    BY <2>1
<1>3. \A l \in 1 .. k : l = k \/ l \in 1 .. k - 1
  OBVIOUS
<1> SUFFICES ASSUME new.found = NoGrant
             PROVE  /\ s.found = NoGrant /\ Reached(s) \subseteq Reached(new)
                    /\ \A p \in Reached(new) : m.out[p] # Unmatched /\ (p \in Reached(s) \/ OnStack(new, m.out[p]))
                    /\ \A l \in 1 .. k : Edge(s, l - 1) \in DOMAIN r => Edge(s, l - 1)[2] \in Reached(new)
                    /\ DOMAIN new.reached # {} => Reached(new) # Reached(s)
  BY DEF Exhausted
<1>4. CASE t.found # NoGrant \/ <<i, j>> \notin DOMAIN r \/ m.in[i] = j \/ t.from[j] # -1
  <2>1. new = t
    BY <1>4 DEF Visit
  <2>2. /\ s.found = NoGrant /\ Reached(s) \subseteq Reached(t)
        /\ \A p \in Reached(t) : m.out[p] # Unmatched /\ (p \in Reached(s) \/ OnStack(t, m.out[p]))
        /\ \A l \in 1 .. k - 1 : Edge(s, l - 1) \in DOMAIN r => Edge(s, l - 1)[2] \in Reached(t)
        /\ DOMAIN t.reached # {} => Reached(t) # Reached(s)
    BY <2>1 DEF Exhausted
  <2>3. <<i, j>> \in DOMAIN r => j \in Reached(t)
    BY <1>1, <1>2, <1>4, <2>1, <2>2 DEF Reached
  <2>4. \A l \in 1 .. k : Edge(s, l - 1) \in DOMAIN r => Edge(s, l - 1)[2] \in Reached(t)
    BY <1>3, <2>2, <2>3
  <2> QED
    BY <2>1, <2>2, <2>4
<1>5. CASE ~(t.found # NoGrant \/ <<i, j>> \notin DOMAIN r \/ m.in[i] = j \/ t.from[j] # -1)
  <2>1. /\ m.out[j] = Unmatched => new.found = j
        /\ m.out[j] # Unmatched => new.reached = Append(t.reached, m.out[j])
        /\ Reached(new) = Reached(t) \cup {j} /\ j \notin Reached(t)
    <3>1. /\ t \in SearchStates /\ m \in MatchType /\ i \in Input /\ j \in Output /\ config \in Configs
          /\ new = Visit(r, m, t, <<i, j>>)
      BY <1>1, <1>2
    <3>2. ~(t.found # NoGrant \/ <<i, j>> \notin DOMAIN r \/ m.in[i] = j \/ t.from[j] # -1)
      BY <1>5
    <3>3. /\ new.from = [t.from EXCEPT ![j] = i]
          /\ m.out[j] = Unmatched => new.found = j /\ new.reached = t.reached
          /\ m.out[j] # Unmatched => new.found = t.found /\ new.reached = Append(t.reached, m.out[j])
          /\ \A o \in Output : new.from[o] = IF o = j THEN i ELSE t.from[o]
          /\ j < config.inputs => Reached(new) = Reached(t) \cup {j}
          /\ j \notin Reached(t)
      BY ONLY <3>1, <3>2, VisitReaches, SMTT(30)
    <3> QED
      BY ONLY <1>2, <3>3
  <2>2. t.found = NoGrant /\ m.out[j] # Unmatched /\ m.out[j] \in Input
    <3>1. j # NoGrant
      BY Sizes
    <3> QED
      BY <1>1, <1>5, <2>1, <3>1
  <2>3. /\ s.found = NoGrant /\ Reached(s) \subseteq Reached(t)
        /\ \A p \in Reached(t) : m.out[p] # Unmatched /\ (p \in Reached(s) \/ OnStack(t, m.out[p]))
        /\ \A l \in 1 .. k - 1 : Edge(s, l - 1) \in DOMAIN r => Edge(s, l - 1)[2] \in Reached(t)
    BY <2>2 DEF Exhausted
  <2>4. /\ DOMAIN new.reached = 1 .. Len(t.reached) + 1 /\ DOMAIN t.reached = 1 .. Len(t.reached)
        /\ Len(t.reached) \in Nat
        /\ \A e \in DOMAIN new.reached : new.reached[e] = IF e = Len(t.reached) + 1 THEN m.out[j] ELSE t.reached[e]
    <3>1. t.reached \in Seq(Input) /\ m.out[j] \in Input /\ new.reached = Append(t.reached, m.out[j])
      BY <2>1, <2>2 DEF SearchStates
    <3> QED
      BY ONLY <3>1, AppendAdds, SMT
  <2>5. OnStack(new, m.out[j])
    <3>1. Len(t.reached) + 1 \in DOMAIN new.reached
      BY <2>4
    <3> QED
      BY <2>4, <3>1 DEF OnStack
  <2>6. ASSUME NEW p \in Reached(t) PROVE p \in Reached(s) \/ OnStack(new, m.out[p])
    <3>1. ASSUME NEW e \in DOMAIN t.reached PROVE e \in DOMAIN new.reached /\ new.reached[e] = t.reached[e]
      BY <2>4
    <3> QED
      BY <2>3, <3>1 DEF OnStack
  <2>7. \A l \in 1 .. k : Edge(s, l - 1) \in DOMAIN r => Edge(s, l - 1)[2] \in Reached(new)
    BY <1>3, <2>1, <2>3
  <2> QED
    BY <2>1, <2>2, <2>3, <2>5, <2>6, <2>7
<1> QED
  BY <1>4, <1>5

(* A level of the search expands what is on the stack. *)
LEMMA LevelExhausts ==
  ASSUME config \in Configs, config.outputs <= config.inputs, NEW r \in Requests, NEW m, IsMatch(m, r), NEW n \in Nat,
         NEW s, Searched(r, m, s, n), Exhausting(r, m, s, n)
  PROVE  Exhausting(r, m, Level(r, m, s), n + 1)
<1>1. m \in MatchType /\ s \in SearchStates
  BY DEF IsMatch, Searched
<1>2. \A e \in DOMAIN s.reached : m.in[s.reached[e]] = Unmatched \/ m.in[s.reached[e]] \in Reached(s)
  BY DEF Searched, Stacked
<1>3. PICK f : Visits(f, r, m, s)
  BY <1>1, LevelVisits
<1> DEFINE last == Len(s.reached) * config.outputs
           T == [k \in 0 .. last |-> {t \in SearchStates : Exhausted(r, m, s, t, k)}]
           t == f[last]
<1>4. f[0] \in T[0]
  <2>1. f[0] \in SearchStates /\ f[0] = [s EXCEPT !.reached = <<>>] /\ 0 \in 0 .. last
    BY <1>3 DEF Visits
  <2>2. f[0].from = s.from /\ f[0].found = s.found /\ f[0].reached = <<>>
    BY <1>1, <2>1 DEF SearchStates
  <2>3. Reached(f[0]) = Reached(s)
    BY <2>2 DEF Reached
  <2>4. Exhausted(r, m, s, f[0], 0)
    BY <2>2, <2>3 DEF Exhausted, Exhausting
  <2> HIDE DEF last
  <2> QED
    BY <2>1, <2>4
<1>5. ASSUME NEW k \in 1 .. last, f[k - 1] \in T[k - 1]
      PROVE  f[k] \in T[k]
  <2>1. f[k] = Visit(r, m, f[k - 1], Edge(s, k - 1)) /\ f[k] \in SearchStates /\ last \in Nat
    BY <1>3 DEF Visits
  <2>2. PICK e \in DOMAIN s.reached, j \in Output : s.reached[e] \in Input /\ Edge(s, k - 1) = <<s.reached[e], j>>
    BY <1>1, StackEdges
  <2>3. k - 1 \in 0 .. last /\ k \in 0 .. last /\ k \in Nat \ {0}
    <3> HIDE DEF last
    <3> QED
      BY <2>1
  <2>4. f[k - 1] \in SearchStates /\ Exhausted(r, m, s, f[k - 1], k - 1)
    <3> HIDE DEF last
    <3> QED
      BY <1>5, <2>3
  <2>5. m.in[s.reached[e]] = Unmatched \/ m.in[s.reached[e]] \in Reached(s)
    BY <1>2
  <2> HIDE DEF last
  <2>6. Exhausted(r, m, s, f[k], k)
    BY <2>1, <2>2, <2>3, <2>4, <2>5, VisitExhausts
  <2> QED
    BY <2>1, <2>3, <2>6
<1>6. t \in SearchStates /\ Exhausted(r, m, s, t, last) /\ Level(r, m, s) = t /\ last \in Nat
  <2>1. last \in Nat /\ Level(r, m, s) = t
    BY <1>3 DEF Visits
  <2> HIDE DEF last, T
  <2>2. \A k \in 0 .. last : f[k] \in T[k]
    BY <1>4, <1>5, <2>1, IteratesThrough
  <2>3. t \in T[last] /\ last \in 0 .. last
    BY <2>1, <2>2
  <2> QED
    BY <2>1, <2>3 DEF T
<1>7. DOMAIN t.reached # {} => DOMAIN s.reached # {}
  <2>1. s.reached \in Seq(Input) /\ config.outputs \in Nat
    BY <1>1, Sizes DEF SearchStates
  <2>2. DOMAIN s.reached = 1 .. Len(s.reached) /\ Len(s.reached) \in Nat
    BY <2>1
  <2> SUFFICES ASSUME DOMAIN s.reached = {} PROVE DOMAIN t.reached = {}
    OBVIOUS
  <2>3. Len(s.reached) = 0
    <3> DEFINE g == Len(s.reached)
    <3>1. g \in Nat /\ DOMAIN s.reached = 1 .. g
      BY <2>2
    <3>2. g \in Nat /\ 1 .. g = {}
      <4> HIDE DEF g
      <4> QED
        BY <3>1
    <3> HIDE DEF g
    <3>3. g = 0
      BY <3>2
    <3> QED
      BY <3>3 DEF g
  <2>4. last = 0
    BY <2>1, <2>3
  <2>5. f[0] = [s EXCEPT !.reached = <<>>] /\ f[0] \in SearchStates
    BY <1>3 DEF Visits
  <2>6. f[0].reached = <<>>
    BY <1>1, <2>5 DEF SearchStates
  <2> QED
    BY <2>4, <2>6
<1> SUFFICES ASSUME t.found = NoGrant
             PROVE  /\ \A j \in Reached(t) : m.out[j] # Unmatched
                    /\ \A i \in Input : m.in[i] = Unmatched \/ m.in[i] \in Reached(t) => OnStack(t, i) \/ Expanded(r, t, i)
                    /\ DOMAIN t.reached # {} => Cardinality(Reached(t)) >= n + 1
  BY <1>6 DEF Exhausting
<1>8. /\ s.found = NoGrant /\ Reached(s) \subseteq Reached(t)
      /\ \A j \in Reached(t) : m.out[j] # Unmatched /\ (j \in Reached(s) \/ OnStack(t, m.out[j]))
      /\ \A l \in 1 .. last : Edge(s, l - 1) \in DOMAIN r => Edge(s, l - 1)[2] \in Reached(t)
      /\ DOMAIN t.reached # {} => Reached(t) # Reached(s)
  <2> HIDE DEF t, last
  <2> QED
    BY <1>6 DEF Exhausted
<1>9. /\ \A i \in Input : m.in[i] = Unmatched \/ m.in[i] \in Reached(s) => OnStack(s, i) \/ Expanded(r, s, i)
      /\ DOMAIN s.reached # {} => Cardinality(Reached(s)) >= n
  BY <1>8 DEF Exhausting
<1>10. ASSUME NEW i \in Input, OnStack(s, i) PROVE Expanded(r, t, i)
  <2> SUFFICES ASSUME NEW j \in Output, <<i, j>> \in DOMAIN r PROVE j \in Reached(t)
    BY DEF Expanded
  <2>1. PICK e \in DOMAIN s.reached : s.reached[e] = i
    BY <1>10 DEF OnStack
  <2>2. PICK k \in 1 .. last : Edge(s, k - 1) = <<i, j>>
    BY <1>1, <2>1, EveryEdge
  <2> HIDE DEF t, last
  <2> QED
    BY <1>8, <2>2
<1> HIDE DEF t, last
<1>11. ASSUME NEW i \in Input, m.in[i] = Unmatched \/ m.in[i] \in Reached(t)
       PROVE  OnStack(t, i) \/ Expanded(r, t, i)
  <2>1. CASE m.in[i] = Unmatched \/ m.in[i] \in Reached(s)
    <3>1. OnStack(s, i) \/ Expanded(r, s, i)
      BY <1>9, <2>1
    <3>2. Expanded(r, s, i) => Expanded(r, t, i)
      BY <1>8 DEF Expanded
    <3> QED
      BY <1>10, <3>1, <3>2
  <2>2. CASE m.in[i] \in Reached(t) /\ m.in[i] \notin Reached(s)
    <3>1. m.in[i] \in Output
      BY <2>2 DEF Reached
    <3>2. m.out[m.in[i]] = i
      BY <3>1 DEF IsMatch
    <3> QED
      BY <1>8, <2>2, <3>2
  <2> QED
    BY <1>11, <2>1, <2>2
<1>12. ASSUME DOMAIN t.reached # {} PROVE Cardinality(Reached(t)) >= n + 1
  <2>1. Reached(t) \subseteq Output /\ IsFiniteSet(Output)
    BY MatchedFinite DEF Reached
  <2>2. IsFiniteSet(Reached(t))
    BY <2>1, FS_Subset
  <2>3. PICK j \in Reached(t) : j \notin Reached(s)
    BY <1>8, <1>12
  <2>4. /\ Cardinality(Reached(s)) \in Nat /\ Cardinality(Reached(t)) \in Nat
        /\ Cardinality(Reached(t)) >= Cardinality(Reached(s)) + 1
    BY <1>8, <2>2, <2>3, OneMore
  <2>5. Cardinality(Reached(s)) >= n
    BY <1>7, <1>9, <1>12
  <2> QED
    BY <2>4, <2>5
<1> QED
  BY <1>8, <1>11, <1>12

(* The search starts at the unmatched inputs, and at all of them. *)
LEMMA UnassignedInputs ==
  ASSUME config \in Configs, turn \in Nat, NEW m
  PROVE  /\ Unassigned(m) \in Seq(Input) /\ \A e \in DOMAIN Unassigned(m) : m.in[Unassigned(m)[e]] = Unmatched
         /\ \A i \in Input : m.in[i] = Unmatched => \E e \in DOMAIN Unassigned(m) : Unassigned(m)[e] = i
<1> DEFINE n == config.inputs
           T == {q \in Seq(Input) : \A e \in DOMAIN q : m.in[q[e]] = Unmatched}
           start == <<>>
           input(k) == (k - 1 + turn) % n
           next(k, q) == IF m.in[input(k)] = Unmatched THEN Append(q, input(k)) ELSE q
           body(f) == [k \in 0 .. n |-> IF k = 0 THEN start ELSE next(k, f[k - 1])]
           pushed == CHOOSE f : f = body(f)
           step == [k \in 1 .. n |-> [q \in T |-> next(k, q)]]
           has(q, l) == m.in[input(l)] = Unmatched => \E e \in DOMAIN q : q[e] = input(l)
           S == [k \in 0 .. n |-> {q \in T : \A l \in 1 .. k : has(q, l)}]
<1>1. Unassigned(m) = pushed[n]
  BY DEF Unassigned
<1>2. n \in Nat \ {0} /\ Input = 0 .. n - 1 /\ start \in T
  BY Sizes
<1>3. ASSUME NEW k \in 1 .. n, NEW q \in T PROVE next(k, q) \in T
  <2>1. input(k) \in Input
    <3>1. k - 1 + turn \in Nat
      BY <1>2
    <3> QED
      BY <1>2, <3>1, Divided
  <2>2. q \in Seq(Input) /\ \A e \in DOMAIN q : m.in[q[e]] = Unmatched
    OBVIOUS
  <2> HIDE DEF input
  <2>3. CASE m.in[input(k)] = Unmatched
    <3>1. Append(q, input(k)) \in Seq(Input)
      BY <2>1, <2>2, AppendAdds
    <3>2. \A e \in DOMAIN Append(q, input(k)) : m.in[Append(q, input(k))[e]] = Unmatched
      BY <2>1, <2>2, <2>3, AppendAdds
    <3> QED
      BY <2>3, <3>1, <3>2
  <2>4. CASE m.in[input(k)] # Unmatched
    BY <2>4
  <2> QED
    BY <2>3, <2>4
<1>4. ASSUME NEW k \in 1 .. n, NEW q \in S[k - 1] PROVE next(k, q) \in S[k]
  <2>1. /\ k - 1 \in 0 .. n /\ k \in 0 .. n /\ \A l \in 1 .. k : l = k \/ l \in 1 .. k - 1
    <3> HIDE DEF n
    <3> QED
      BY <1>2
  <2>2. q \in T /\ \A l \in 1 .. k - 1 : has(q, l)
    <3> HIDE DEF T, has, n
    <3> QED
      BY <2>1
  <2>3. next(k, q) \in T /\ q \in Seq(Input)
    BY <1>3, <2>2
  <2>4. input(k) \in Input
    <3>1. k - 1 + turn \in Nat
      BY <1>2
    <3> QED
      BY <1>2, <3>1, Divided
  <2> HIDE DEF input
  <2>5. CASE m.in[input(k)] = Unmatched
    <3>1. next(k, q) = Append(q, input(k))
      BY <2>5
    <3>2. /\ DOMAIN Append(q, input(k)) = 1 .. Len(q) + 1 /\ DOMAIN q = 1 .. Len(q) /\ Len(q) \in Nat
          /\ \A e \in DOMAIN Append(q, input(k)) : Append(q, input(k))[e] = IF e = Len(q) + 1 THEN input(k) ELSE q[e]
      BY <2>3, <2>4, AppendAdds
    <3> HIDE DEF next
    <3>3. \A e \in DOMAIN q : e \in DOMAIN next(k, q) /\ next(k, q)[e] = q[e]
      BY <3>1, <3>2
    <3>4. Len(q) + 1 \in DOMAIN next(k, q) /\ next(k, q)[Len(q) + 1] = input(k)
      BY <3>1, <3>2
    <3>5. \A l \in 1 .. k : has(next(k, q), l)
      BY <2>1, <2>2, <3>3, <3>4
    <3> HIDE DEF has, T, n
    <3> QED
      BY <2>1, <2>3, <3>5
  <2>6. CASE m.in[input(k)] # Unmatched
    <3>1. next(k, q) = q /\ has(q, k)
      BY <2>6
    <3> HIDE DEF next, has, T, n
    <3> QED
      BY <2>1, <2>2, <3>1
  <2> QED
    BY <2>5, <2>6
<1>5. start \in S[0]
  BY <1>2
<1>6. ASSUME NEW i \in Input PROVE \E l \in 1 .. n : input(l) = i
  <2> DEFINE rot == [x \in Input |-> (x + turn) % n]
  <2>1. \A x \in Input : rot[x] \in Input
    <3> TAKE x \in Input
    <3>1. x + turn \in Nat
      BY <1>2
    <3> QED
      BY <1>2, <3>1, Divided
  <2>2. \A x, y \in Input : rot[x] = rot[y] => x = y
    BY <1>2, SameModulo
  <2>3. rot \in Injection(Input, Input) /\ IsFiniteSet(Input)
    BY <2>1, <2>2, MatchedFinite DEF Injection, IsInjective
  <2>4. rot \in Surjection(Input, Input)
    <3> HIDE DEF rot
    <3> QED
      BY <2>3, FS_Injection
  <2>5. PICK x \in Input : rot[x] = i
    <3> HIDE DEF rot
    <3> QED
      BY <2>4 DEF Surjection
  <2>6. x + 1 \in 1 .. n /\ (x + 1) - 1 + turn = x + turn
    BY <1>2
  <2>7. input(x + 1) = i
    BY <2>5, <2>6
  <2> HIDE DEF input
  <2> QED
    BY <2>6, <2>7
<1> HIDE DEF next, S
<1>7. step \in [1 .. n -> [T -> T]] /\ \A k \in 1 .. n, q \in T : step[k][q] = next(k, q)
  <2> HIDE DEF T
  <2> QED
    BY <1>3
<1> HIDE DEF T, start, n, step
<1>8. PICK f : IsIteration(f, n, T, start, step)
  <2>1. n \in Nat /\ start \in T /\ step \in [1 .. n -> [T -> T]]
    BY <1>2, <1>7
  <2> QED
    BY <2>1, Iterates
<1>9. f = body(f)
  <2>1. ASSUME NEW k \in 1 .. n PROVE f[k] = next(k, f[k - 1])
    <3>1. f[k - 1] \in T /\ f[k] = step[k][f[k - 1]]
      BY <1>2, <1>8 DEF IsIteration
    <3> QED
      BY <1>7, <3>1
  <2>2. \A k \in 0 .. n : f[k] = IF k = 0 THEN start ELSE next(k, f[k - 1])
    BY <1>2, <1>8, <2>1 DEF IsIteration
  <2> QED
    BY <1>8, <2>2 DEF IsIteration
<1>10. pushed = body(pushed)
  <2> HIDE DEF body
  <2> QED
    BY <1>9
<1> HIDE DEF pushed
<1>11. /\ pushed[0] = start
       /\ \A k \in 1 .. n : pushed[k] = next(k, pushed[k - 1])
  BY <1>2, <1>10
<1>12. \A k \in 0 .. n : pushed[k] \in S[k]
  <2>1. n \in Nat /\ pushed[0] \in S[0]
    BY <1>2, <1>5, <1>11
  <2>2. \A k \in 1 .. n : pushed[k - 1] \in S[k - 1] => pushed[k] \in S[k]
    BY <1>4, <1>11
  <2> QED
    BY <2>1, <2>2, IteratesThrough
<1>13. pushed[n] \in T /\ \A l \in 1 .. n : has(pushed[n], l)
  <2>1. n \in 0 .. n /\ pushed[n] \in S[n]
    BY <1>2, <1>12
  <2> HIDE DEF has
  <2> QED
    BY <2>1 DEF S
<1>14. \A i \in Input : m.in[i] = Unmatched => \E e \in DOMAIN pushed[n] : pushed[n][e] = i
  BY <1>6, <1>13
<1> QED
  BY <1>1, <1>13, <1>14 DEF T

(* After level n the search has found a path to a free output or, where    *)
(* _from is large enough, has looked everywhere that far.                  *)
Sought(r, m, s, n) ==
  Searched(r, m, s, n) /\ (config.outputs <= config.inputs => Exhausting(r, m, s, n))

(* What the search returns. *)
LEMMA SearchFinds ==
  ASSUME config \in Configs, turn \in Nat, NEW r \in Requests, NEW m, IsMatch(m, r)
  PROVE  Sought(r, m, Search(r, m), config.inputs)
<1> DEFINE n == config.inputs
           T == SearchStates
           start == [from    |-> [j \in Output |-> IF j < config.inputs THEN -1 ELSE 0],
                     found   |-> NoGrant,
                     reached |-> Unassigned(m)]
           next(k, s) == Level(r, m, s)
           body(f) == [k \in 0 .. n |-> IF k = 0 THEN start ELSE next(k, f[k - 1])]
           after == CHOOSE f : f = body(f)
           step == [k \in 1 .. n |-> [s \in T |-> next(k, s)]]
           S == [k \in 0 .. n |-> {s \in SearchStates : Sought(r, m, s, k)}]
<1>1. Search(r, m) = after[n]
  BY DEF Search
<1>2. n \in Nat \ {0} /\ m \in MatchType
  BY Sizes DEF IsMatch
<1>3. start \in T /\ Sought(r, m, start, 0)
  <2>1. /\ Unassigned(m) \in Seq(Input) /\ \A e \in DOMAIN Unassigned(m) : m.in[Unassigned(m)[e]] = Unmatched
        /\ \A i \in Input : m.in[i] = Unmatched => \E e \in DOMAIN Unassigned(m) : Unassigned(m)[e] = i
    BY UnassignedInputs
  <2>2. 0 \in Input /\ \A j \in Output : j \in Int
    BY Sizes
  <2>3. start \in SearchStates
    BY <2>1, <2>2 DEF SearchStates
  <2>4. /\ start.found = NoGrant /\ start.reached = Unassigned(m)
        /\ \A j \in Output : start.from[j] = IF j < n THEN -1 ELSE 0
    OBVIOUS
  <2> HIDE DEF start, n
  <2>5. Reached(start) = {}
    BY <2>4 DEF Reached, n
  <2> DEFINE rank == [j \in Output |-> 0]
  <2>6. rank \in [Output -> Nat]
    OBVIOUS
  <2>7. \A j \in Output : j >= config.inputs => start.from[j] # -1
    BY <1>2, <2>2, <2>4 DEF n
  <2> HIDE DEF rank
  <2>8. Explored(r, m, start, rank, 0)
    BY <2>3, <2>4, <2>5, <2>6, <2>7 DEF Explored
  <2>9. Stacked(m, start, start.reached, rank, 0)
    BY <2>1, <2>4 DEF Stacked
  <2>10. Exhausting(r, m, start, 0)
    <3>1. Cardinality(Reached(start)) >= 0
      BY <2>5, FS_EmptySet
    <3> QED
      BY <2>1, <2>4, <2>5, <3>1 DEF Exhausting, OnStack
  <2> QED
    BY <2>3, <2>8, <2>9, <2>10 DEF Searched, Sought
<1> HIDE DEF start
<1>4. ASSUME NEW k, NEW s \in T PROVE next(k, s) \in T
  BY <1>2, LevelVisits DEF Visits
<1>5. ASSUME NEW k \in 1 .. n, NEW s, Sought(r, m, s, k - 1) PROVE Sought(r, m, next(k, s), k)
  <2>1. k - 1 \in Nat /\ (k - 1) + 1 = k
    OBVIOUS
  <2>2. Searched(r, m, s, k - 1)
    BY <1>5 DEF Sought
  <2>3. Searched(r, m, Level(r, m, s), (k - 1) + 1)
    BY <2>1, <2>2, LevelKeeps
  <2>4. ASSUME config.outputs <= config.inputs PROVE Exhausting(r, m, Level(r, m, s), (k - 1) + 1)
    <3>1. Exhausting(r, m, s, k - 1)
      BY <1>5, <2>4 DEF Sought
    <3> QED
      BY <2>1, <2>2, <2>4, <3>1, LevelExhausts
  <2> HIDE DEF n
  <2> QED
    BY <2>1, <2>3, <2>4 DEF Sought
<1> HIDE DEF next, T
<1>6. step \in [1 .. n -> [T -> T]] /\ \A k \in 1 .. n, s \in T : step[k][s] = next(k, s)
  BY <1>4
<1> HIDE DEF n, step
<1>7. PICK f : IsIteration(f, n, T, start, step)
  <2>1. n \in Nat /\ start \in T /\ step \in [1 .. n -> [T -> T]]
    BY <1>2, <1>3, <1>6
  <2> QED
    BY <2>1, Iterates
<1>8. f = body(f)
  <2>1. ASSUME NEW k \in 1 .. n PROVE f[k] = next(k, f[k - 1])
    <3>1. f[k - 1] \in T /\ f[k] = step[k][f[k - 1]]
      BY <1>2, <1>7 DEF IsIteration
    <3> QED
      BY <1>6, <3>1
  <2>2. \A k \in 0 .. n : f[k] = IF k = 0 THEN start ELSE next(k, f[k - 1])
    BY <1>2, <1>7, <2>1 DEF IsIteration
  <2> QED
    BY <1>7, <2>2 DEF IsIteration
<1>9. after = body(after)
  <2> HIDE DEF body
  <2> QED
    BY <1>8
<1> HIDE DEF after
<1>10. /\ after[0] = start
       /\ \A k \in 1 .. n : after[k] = next(k, after[k - 1])
  BY <1>2, <1>9
<1>11. \A k \in 0 .. n : after[k] \in S[k]
  <2>1. \A k \in 0 .. n : \A s : s \in S[k] <=> Sought(r, m, s, k)
    BY DEF Searched, Sought
  <2> HIDE DEF S
  <2>2. n \in Nat /\ after[0] \in S[0]
    BY <1>2, <1>3, <1>10, <2>1
  <2>3. \A k \in 1 .. n : after[k - 1] \in S[k - 1] => after[k] \in S[k]
    BY <1>2, <1>5, <1>10, <2>1
  <2> QED
    BY <2>2, <2>3, IteratesThrough
<1>12. after[n] \in S[n]
  BY <1>2, <1>11
<1> QED
  BY <1>1, <1>2, <1>12 DEF n

(* Outputs that block the requests: each request has its output among      *)
(* these, which are all matched, or its input matched to another one.      *)
Covered(r, m) ==
  \E D \in SUBSET Output :
    /\ \A j \in D : m.out[j] # Unmatched
    /\ \A c \in DOMAIN r : c[2] \in D \/ (m.in[c[1]] # Unmatched /\ m.in[c[1]] \notin D)

(* A search that finds nothing has got to such outputs. *)
LEMMA NothingFound ==
  ASSUME config \in Configs, config.outputs <= config.inputs, NEW r \in Requests, NEW m,
         NEW s, Sought(r, m, s, config.inputs), s.found = NoGrant
  PROVE  Covered(r, m)
<1>1. /\ \A j \in Reached(s) : m.out[j] # Unmatched
      /\ \A i \in Input : m.in[i] = Unmatched \/ m.in[i] \in Reached(s) => OnStack(s, i) \/ Expanded(r, s, i)
      /\ DOMAIN s.reached # {} => Cardinality(Reached(s)) >= config.inputs
  BY DEF Sought, Exhausting
<1>2. Reached(s) \subseteq Output
  BY DEF Reached
<1>3. ASSUME NEW c \in DOMAIN r
      PROVE  c[2] \in Reached(s) \/ (m.in[c[1]] # Unmatched /\ m.in[c[1]] \notin Reached(s))
  <2>1. c \in Input \X Output
    BY Asked
  <2>2. c[1] \in Input /\ c[2] \in Output /\ c = <<c[1], c[2]>>
    BY <2>1
  <2> SUFFICES ASSUME m.in[c[1]] = Unmatched \/ m.in[c[1]] \in Reached(s)
               PROVE  c[2] \in Reached(s)
    OBVIOUS
  <2>3. CASE Expanded(r, s, c[1])
    BY <2>2, <2>3 DEF Expanded
  <2>4. CASE OnStack(s, c[1])
    <3>1. Cardinality(Reached(s)) >= config.inputs
      BY <1>1, <2>4 DEF OnStack
    <3>2. IsFiniteSet(Output) /\ Cardinality(Output) = config.outputs
      BY MatchedFinite
    <3>3. config.inputs \in Nat /\ config.outputs \in Nat
      BY Sizes
    <3>4. Cardinality(Reached(s)) \in Nat
      BY <1>2, <3>2, FS_Subset, FS_CardinalityType
    <3>5. Cardinality(Reached(s)) <= Cardinality(Output)
      BY <1>2, <3>2, FS_Subset
    <3>6. Reached(s) = Output
      <4>1. Cardinality(Reached(s)) = Cardinality(Output)
        BY <3>1, <3>2, <3>3, <3>4, <3>5
      <4> QED
        BY <1>2, <3>2, <4>1, FS_Subset
    <3> QED
      BY <2>2, <3>6
  <2> QED
    BY <1>1, <2>2, <2>3, <2>4
<1> QED
  BY <1>1, <1>2, <1>3 DEF Covered

(* A matching whose outputs block the requests is a maximal one, and no    *)
(* other one has more pairs: each request of another one is next to a pair *)
(* of its own.                                                             *)
LEMMA CoveredServes ==
  ASSUME config \in Configs, NEW r, DOMAIN r \subseteq Input \X Output, NEW m, IsMatch(m, r), Covered(r, m)
  PROVE  /\ Blocked(r, m)
         /\ \A S \in SUBSET DOMAIN r : Disjoint(S) => Cardinality(S) <= Cardinality(Pairs(m))
<1>1. PICK D \in SUBSET Output :
        /\ \A j \in D : m.out[j] # Unmatched
        /\ \A c \in DOMAIN r : c[2] \in D \/ (m.in[c[1]] # Unmatched /\ m.in[c[1]] \notin D)
  BY DEF Covered
<1>2. /\ m.in \in [Input -> Output \cup {Unmatched}] /\ m.out \in [Output -> Input \cup {Unmatched}]
      /\ \A i \in Input, o \in Output : m.in[i] = o <=> m.out[o] = i
  BY DEF IsMatch, MatchType
<1>3. Blocked(r, m)
  BY <1>1 DEF Blocked
<1>4. ASSUME NEW S \in SUBSET DOMAIN r, Disjoint(S) PROVE Cardinality(S) <= Cardinality(Pairs(m))
  <2> DEFINE f == [c \in S |-> IF c[2] \in D THEN <<m.out[c[2]], c[2]>> ELSE <<c[1], m.in[c[1]]>>]
  <2>1. \A c \in S : c \in DOMAIN r /\ c[1] \in Input /\ c[2] \in Output /\ c = <<c[1], c[2]>>
    <3> TAKE c \in S
    <3>1. c \in DOMAIN r /\ c \in Input \X Output
      OBVIOUS
    <3> QED
      BY <3>1
  <2>2. ASSUME NEW c \in S
        PROVE  /\ f[c] = IF c[2] \in D THEN <<m.out[c[2]], c[2]>> ELSE <<c[1], m.in[c[1]]>>
               /\ c[2] \in D => m.out[c[2]] \in Input /\ m.in[m.out[c[2]]] = c[2]
               /\ c[2] \notin D => m.in[c[1]] \in Output /\ m.in[c[1]] \notin D
    BY <1>1, <1>2, <2>1
  <2>3. \A c \in S : f[c] \in Pairs(m)
    <3> TAKE c \in S
    <3>1. CASE c[2] \in D
      BY <2>1, <2>2, <3>1 DEF Pairs
    <3>2. CASE c[2] \notin D
      BY <2>1, <2>2, <3>2 DEF Pairs
    <3> QED
      BY <3>1, <3>2
  <2>4. ASSUME NEW c \in S
        PROVE  /\ c[2] \in D => f[c][2] = c[2]
               /\ c[2] \notin D => f[c][1] = c[1] /\ f[c][2] = m.in[c[1]] /\ m.in[c[1]] \notin D
    <3> HIDE DEF f
    <3>1. CASE c[2] \in D
      <4>1. f[c] = <<m.out[c[2]], c[2]>>
        BY <2>2, <3>1
      <4>2. f[c][2] = c[2]
        BY ONLY <4>1, SMT
      <4> QED
        BY <3>1, <4>2
    <3>2. CASE c[2] \notin D
      <4>1. f[c] = <<c[1], m.in[c[1]]>> /\ m.in[c[1]] \notin D
        BY <2>2, <3>2
      <4>2. f[c][1] = c[1] /\ f[c][2] = m.in[c[1]]
        BY ONLY <4>1, SMT
      <4> QED
        BY <3>2, <4>1, <4>2
    <3> QED
      BY <3>1, <3>2
  <2>5. ASSUME NEW c \in S, NEW d \in S, f[c] = f[d] PROVE c = d
    <3> HIDE DEF f
    <3>1. CASE c[2] \in D /\ d[2] \in D
      <4>1. c[2] = d[2]
        BY <2>4, <2>5, <3>1
      <4> QED
        BY <1>4, <4>1 DEF Disjoint
    <3>2. CASE c[2] \notin D /\ d[2] \notin D
      <4>1. c[1] = d[1]
        BY <2>4, <2>5, <3>2
      <4> QED
        BY <1>4, <4>1 DEF Disjoint
    <3>3. CASE c[2] \in D /\ d[2] \notin D
      <4>1. c[2] = m.in[d[1]] /\ m.in[d[1]] \notin D
        BY <2>4, <2>5, <3>3
      <4> QED
        BY <3>3, <4>1
    <3>4. CASE c[2] \notin D /\ d[2] \in D
      <4>1. d[2] = m.in[c[1]] /\ m.in[c[1]] \notin D
        BY <2>4, <2>5, <3>4
      <4> QED
        BY <3>4, <4>1
    <3> QED
      BY <3>1, <3>2, <3>3, <3>4
  <2>6. f \in Injection(S, Pairs(m))
    BY <2>3, <2>5 DEF Injection, IsInjective
  <2>7. IsFiniteSet(Pairs(m))
    <3>1. IsFiniteSet(Input \X Output)
      BY MatchedFinite, FS_Product
    <3> QED
      BY <3>1, FS_Subset DEF Pairs
  <2> HIDE DEF f
  <2> QED
    BY <2>6, <2>7, FS_Injection
<1> QED
  BY <1>3, <1>4

-----------------------------------------------------------------------------
(* The path is followed back. *)

Walks == [match : MatchType, j : Output \cup {Unmatched}]

(* A matching but for output j, which nobody has yet and which the search  *)
(* got to.  Along the rest of the path nothing has been changed; no input  *)
(* gets unmatched, and in the end there is one more that is matched.       *)
Path(r, m, s, rank, t) ==
  /\ t \in Walks
  /\ \A i \in Input, o \in Output : o # t.j => (t.match.in[i] = o <=> t.match.out[o] = i)
  /\ \A i \in Input : t.match.in[i] # Unmatched => <<i, t.match.in[i]>> \in DOMAIN r
  /\ MatchedIn(m) \subseteq MatchedIn(t.match)
  /\ t.j = Unmatched => MatchedIn(t.match) # MatchedIn(m)
  /\ t.j # Unmatched =>
       /\ \A i \in Input : t.match.in[i] # t.j
       /\ t.j \in Reached(s)
       /\ \A p \in Reached(s) : rank[p] <= rank[t.j] => t.match.in[s.from[p]] = m.in[s.from[p]]

(* One step back leaves a shorter path of that kind. *)
LEMMA StepsBack ==
  ASSUME config \in Configs, NEW r, NEW m \in MatchType, NEW n \in Nat, NEW s, NEW rank, Explored(r, m, s, rank, n),
         NEW t, Path(r, m, s, rank, t), t.j # Unmatched
  PROVE  /\ Path(r, m, s, rank, StepBack(s, t))
         /\ StepBack(s, t).j # Unmatched => rank[StepBack(s, t).j] < rank[t.j]
<1> DEFINE j == t.j
           i == s.from[j]
           in == t.match.in
           out == t.match.out
           new == StepBack(s, t)
<1>1. /\ t \in Walks /\ j \in Reached(s) /\ j \in Output
      /\ \A a \in Input, o \in Output : o # j => (in[a] = o <=> out[o] = a)
      /\ \A a \in Input : in[a] # Unmatched => <<a, in[a]>> \in DOMAIN r
      /\ \A a \in Input : in[a] # j
      /\ \A p \in Reached(s) : rank[p] <= rank[j] => in[s.from[p]] = m.in[s.from[p]]
      /\ MatchedIn(m) \subseteq MatchedIn(t.match)
  BY DEF Path, Reached
<1>2. /\ s.from \in [Output -> Input \cup {-1}] /\ rank \in [Output -> Nat]
      /\ in \in [Input -> Output \cup {Unmatched}] /\ out \in [Output -> Input \cup {Unmatched}]
  BY <1>1 DEF Explored, SearchStates, Walks, MatchType
<1>3. \A p \in Reached(s) : p \in Output /\ s.from[p] \in Input /\ rank[p] \in Nat
  BY <1>2 DEF Reached
<1>4. /\ i \in Input /\ <<i, j>> \in DOMAIN r /\ in[i] = m.in[i]
      /\ m.in[i] # Unmatched => m.in[i] \in Reached(s) /\ rank[m.in[i]] < rank[j]
  <2>1. rank[j] <= rank[j]
    BY <1>1, <1>3
  <2> QED
    BY <1>1, <1>3, <2>1 DEF Explored
<1>5. new = [match |-> [in |-> [in EXCEPT ![i] = j], out |-> [out EXCEPT ![j] = i]], j |-> in[i]]
  BY DEF StepBack
<1> DEFINE in2 == [in EXCEPT ![i] = j]
           out2 == [out EXCEPT ![j] = i]
<1>6. /\ new.match.in = in2 /\ new.match.out = out2 /\ new.j = in[i] /\ new \in Walks
  <2>1. in2 \in [Input -> Output \cup {Unmatched}] /\ out2 \in [Output -> Input \cup {Unmatched}]
        /\ in[i] \in Output \cup {Unmatched}
    BY <1>1, <1>2, <1>4
  <2> HIDE DEF in2, out2, in, new
  <2>2. new = [match |-> [in |-> in2, out |-> out2], j |-> in[i]]
    BY <1>5 DEF in2, out2
  <2> QED
    BY <2>1, <2>2 DEF Walks, MatchType
<1>7. /\ \A a \in Input : in2[a] = IF a = i THEN j ELSE in[a]
      /\ \A o \in Output : out2[o] = IF o = j THEN i ELSE out[o]
  BY <1>1, <1>2, <1>4
<1> HIDE DEF in2, out2, new, in, out, i, j
<1>8. ASSUME NEW a \in Input, NEW o \in Output, o # in[i]
      PROVE  in2[a] = o <=> out2[o] = a
  <2>1. CASE o = j
    BY <1>1, <1>7, <2>1
  <2>2. CASE o # j
    <3>1. out2[o] = out[o] /\ (in[a] = o <=> out[o] = a)
      BY <1>1, <1>7, <2>2
    <3>2. CASE a = i
      BY <1>7, <1>8, <2>2, <3>1, <3>2
    <3>3. CASE a # i
      BY <1>7, <3>1, <3>3
    <3> QED
      BY <3>2, <3>3
  <2> QED
    BY <2>1, <2>2
<1>9. ASSUME NEW a \in Input, in2[a] # Unmatched PROVE <<a, in2[a]>> \in DOMAIN r
  BY <1>1, <1>4, <1>7, <1>9
<1>10. ASSUME in[i] # Unmatched
       PROVE  /\ \A a \in Input : in2[a] # in[i]
              /\ in[i] \in Reached(s) /\ rank[in[i]] < rank[j]
              /\ \A p \in Reached(s) : rank[p] <= rank[in[i]] => in2[s.from[p]] = m.in[s.from[p]]
  <2>1. in[i] \in Reached(s) /\ rank[in[i]] < rank[j] /\ in[i] \in Output
    BY <1>3, <1>4, <1>10
  <2>2. ASSUME NEW a \in Input PROVE in2[a] # in[i]
    <3>1. in[i] # j /\ out[in[i]] = i
      BY <1>1, <1>4, <2>1
    <3>2. CASE a = i
      BY <1>7, <3>1, <3>2
    <3>3. CASE a # i
      <4>1. in2[a] = in[a]
        BY <1>7, <3>3
      <4>2. in[a] = in[i] <=> out[in[i]] = a
        BY <1>1, <2>1, <3>1
      <4> QED
        BY <3>1, <3>3, <4>1, <4>2
    <3> QED
      BY <3>2, <3>3
  <2>3. ASSUME NEW p \in Reached(s), rank[p] <= rank[in[i]] PROVE in2[s.from[p]] = m.in[s.from[p]]
    <3>1. rank[p] \in Nat /\ rank[in[i]] \in Nat /\ rank[j] \in Nat
      BY <1>1, <1>3, <2>1
    <3>2. s.from[p] # i
      <4> SUFFICES ASSUME s.from[p] = i PROVE FALSE
        OBVIOUS
      <4>1. rank[m.in[s.from[p]]] < rank[p]
        BY <1>4, <1>10 DEF Explored
      <4>2. m.in[s.from[p]] = in[i]
        BY <1>4
      <4> QED
        BY <2>3, <3>1, <4>1, <4>2
    <3>3. in2[s.from[p]] = in[s.from[p]]
      BY <1>3, <1>7, <3>2
    <3>4. rank[p] <= rank[j]
      BY <2>1, <2>3, <3>1
    <3> QED
      BY <1>1, <3>3, <3>4
  <2> QED
    BY <2>1, <2>2, <2>3
<1>11. /\ MatchedIn(m) \subseteq MatchedIn(new.match)
       /\ in[i] = Unmatched => MatchedIn(new.match) # MatchedIn(m)
  <2>1. j # Unmatched
    BY <1>1, Sizes
  <2>2. \A a \in Input : a \in MatchedIn(m) => in[a] # Unmatched
    BY <1>1 DEF MatchedIn, in
  <2>3. \A a \in Input : a \in MatchedIn(m) => a \in MatchedIn(new.match)
    BY <1>6, <1>7, <2>1, <2>2 DEF MatchedIn
  <2>4. i \in MatchedIn(new.match)
    BY <1>4, <1>6, <1>7, <2>1 DEF MatchedIn
  <2>5. in[i] = Unmatched => i \notin MatchedIn(m)
    BY <1>4, <2>2
  <2>6. MatchedIn(m) \subseteq Input
    BY DEF MatchedIn
  <2> QED
    BY <2>3, <2>4, <2>5, <2>6
<1>12. Path(r, m, s, rank, new)
  BY <1>6, <1>8, <1>9, <1>10, <1>11 DEF Path
<1> QED
  BY <1>6, <1>10, <1>12 DEF new, j

(* A path that has been followed back to an unmatched input leaves a       *)
(* matching of one more input at least.                                    *)
LEMMA Augments ==
  ASSUME config \in Configs, NEW r \in Requests, NEW m, IsMatch(m, r),
         NEW s, Searched(r, m, s, config.inputs), s.found # NoGrant
  PROVE  /\ IsMatch(Augment(m, s), r)
         /\ Cardinality(MatchedIn(Augment(m, s))) >= Cardinality(MatchedIn(m)) + 1
<1>1. PICK rank : Explored(r, m, s, rank, config.inputs)
  BY DEF Searched
<1> DEFINE n == config.inputs
           T == {t \in Walks : Path(r, m, s, rank, t)}
           start == [match |-> m, j |-> s.found]
           next(k, t) == IF t.j = Unmatched THEN t ELSE StepBack(s, t)
           body(f) == [k \in 0 .. n |-> IF k = 0 THEN start ELSE next(k, f[k - 1])]
           after == CHOOSE f : f = body(f)
           step == [k \in 1 .. n |-> [t \in T |-> next(k, t)]]
           S == [k \in 0 .. n |-> {t \in T : t.j # Unmatched => rank[t.j] <= n - k}]
<1>2. Augment(m, s) = after[n].match
  BY DEF Augment
<1>3. n \in Nat \ {0} /\ m \in MatchType
  BY Sizes DEF IsMatch
<1>4. \A j \in Reached(s) : rank[j] \in 1 .. n
  BY <1>1 DEF Explored
<1>5. start \in T /\ start \in S[0]
  <2>1. s.found \in Reached(s) /\ m.out[s.found] = Unmatched /\ s.found \in Output
    BY <1>1 DEF Explored, Reached
  <2>2. \A i \in Input : m.in[i] # s.found
    BY <2>1, Sizes DEF IsMatch
  <2>3. start \in Walks /\ start.match = m /\ start.j = s.found
    BY <1>3, <2>1 DEF Walks
  <2> HIDE DEF start
  <2>4. Path(r, m, s, rank, start)
    <3>1. start.j # Unmatched
      BY <2>1, <2>3, Sizes
    <3> QED
      BY <2>1, <2>2, <2>3, <3>1 DEF Path, IsMatch
  <2>5. rank[start.j] <= n - 0
    BY <1>3, <1>4, <2>1, <2>3
  <2> QED
    BY <1>3, <2>3, <2>4, <2>5
<1> HIDE DEF start
<1>6. ASSUME NEW k, NEW t \in T PROVE next(k, t) \in T
  <2>1. CASE t.j = Unmatched
    BY <2>1
  <2>2. CASE t.j # Unmatched
    <3>1. Path(r, m, s, rank, StepBack(s, t))
      BY <1>1, <1>3, <2>2, StepsBack
    <3> QED
      BY <2>2, <3>1 DEF Path
  <2> QED
    BY <2>1, <2>2
<1>7. ASSUME NEW k \in 1 .. n, NEW t \in S[k - 1] PROVE next(k, t) \in S[k]
  <2>1. t \in T /\ (t.j # Unmatched => rank[t.j] <= n - (k - 1))
    <3>1. k - 1 \in 0 .. n
      BY <1>3
    <3> QED
      BY <3>1
  <2>2. next(k, t) \in T
    BY <1>6, <2>1
  <2>3. ASSUME next(k, t).j # Unmatched PROVE rank[next(k, t).j] <= n - k
    <3>1. t.j # Unmatched /\ next(k, t) = StepBack(s, t)
      BY <2>3
    <3>2. Path(r, m, s, rank, t) /\ Path(r, m, s, rank, StepBack(s, t))
      BY <2>1, <2>2, <3>1
    <3>3. rank[StepBack(s, t).j] < rank[t.j]
      BY <1>1, <1>3, <2>3, <3>1, <3>2, StepsBack
    <3>4. rank[t.j] \in 1 .. n /\ rank[StepBack(s, t).j] \in 1 .. n
      BY <1>4, <2>3, <3>1, <3>2 DEF Path
    <3> HIDE DEF next, T, S
    <3>5. rank[StepBack(s, t).j] <= n - k
      BY <1>3, <2>1, <3>1, <3>3, <3>4
    <3> QED
      BY <3>1, <3>5
  <2> HIDE DEF next, T
  <2> QED
    BY <2>2, <2>3
<1> HIDE DEF next, T
<1>8. step \in [1 .. n -> [T -> T]] /\ \A k \in 1 .. n, t \in T : step[k][t] = next(k, t)
  BY <1>6
<1> HIDE DEF n, step
<1>9. PICK f : IsIteration(f, n, T, start, step)
  <2>1. n \in Nat /\ start \in T /\ step \in [1 .. n -> [T -> T]]
    BY <1>3, <1>5, <1>8
  <2> QED
    BY <2>1, Iterates
<1>10. f = body(f)
  <2>1. ASSUME NEW k \in 1 .. n PROVE f[k] = next(k, f[k - 1])
    <3>1. f[k - 1] \in T /\ f[k] = step[k][f[k - 1]]
      BY <1>3, <1>9 DEF IsIteration
    <3> QED
      BY <1>8, <3>1
  <2>2. \A k \in 0 .. n : f[k] = IF k = 0 THEN start ELSE next(k, f[k - 1])
    BY <1>3, <1>9, <2>1 DEF IsIteration
  <2> QED
    BY <1>9, <2>2 DEF IsIteration
<1>11. after = body(after)
  <2> HIDE DEF body
  <2> QED
    BY <1>10 DEF next
<1> HIDE DEF after
<1>12. /\ after[0] = start
       /\ \A k \in 1 .. n : after[k] = next(k, after[k - 1])
  BY <1>3, <1>11
<1>13. \A k \in 0 .. n : after[k] \in S[k]
  <2> HIDE DEF S
  <2>1. n \in Nat /\ after[0] \in S[0]
    BY <1>3, <1>5, <1>12
  <2>2. \A k \in 1 .. n : after[k - 1] \in S[k - 1] => after[k] \in S[k]
    BY <1>7, <1>12
  <2> QED
    BY <2>1, <2>2, IteratesThrough
<1>14. after[n] \in T /\ (after[n].j # Unmatched => rank[after[n].j] <= 0)
  BY <1>3, <1>13
<1>15. Path(r, m, s, rank, after[n])
  BY <1>14 DEF T
<1>16. after[n].j = Unmatched
  BY <1>4, <1>14, <1>15 DEF Path
<1>17. Unmatched \notin Output
  BY Sizes
<1>18. IsMatch(Augment(m, s), r)
  BY <1>2, <1>15, <1>16, <1>17 DEF Path, Walks, IsMatch
<1>19. Cardinality(MatchedIn(Augment(m, s))) >= Cardinality(MatchedIn(m)) + 1
  <2>1. MatchedIn(m) \subseteq MatchedIn(Augment(m, s)) /\ MatchedIn(Augment(m, s)) # MatchedIn(m)
    BY <1>2, <1>15, <1>16 DEF Path
  <2>2. PICK i \in MatchedIn(Augment(m, s)) : i \notin MatchedIn(m)
    BY <2>1
  <2>3. IsFiniteSet(MatchedIn(Augment(m, s)))
    BY MatchedFinite
  <2> QED
    BY <2>1, <2>2, <2>3, OneMore
<1> QED
  BY <1>18, <1>19

(* MaxSizeMatch::Allocate returns a matching, which is blocked where _from *)
(* is large enough: in the end a search has found nothing, or every input  *)
(* is matched, for each path that was found has added one.                 *)
LEMMA MaxSizeMatches ==
  ASSUME config \in Configs, turn \in Nat, NEW r \in Requests, AllocateMaxSize(r)
  PROVE  \E m : IsMatch(m, r) /\ Matched(r, m) /\ (config.outputs <= config.inputs => Covered(r, m))
<1> DEFINE n == config.inputs
           T == {m \in MatchType : IsMatch(m, r)}
           start == EmptyMatch
           found(m) == Search(r, m)
           S == [k \in 0 .. n |-> {m \in T : found(m).found = NoGrant \/ Cardinality(MatchedIn(m)) >= k}]
           next(k, m) == IF found(m).found = NoGrant THEN m ELSE Augment(m, found(m))
           body(f) == [k \in 0 .. n |-> IF k = 0 THEN start ELSE next(k, f[k - 1])]
           after == CHOOSE f : f = body(f)
           step == [k \in 1 .. n |-> [m \in T |-> next(k, m)]]
<1>1. Matched(r, after[n])
  BY DEF AllocateMaxSize
<1>2. n \in Nat \ {0} /\ start \in T
  BY Sizes, EmptyMatches DEF IsMatch
<1>3. ASSUME NEW k, NEW m \in T PROVE next(k, m) \in T
  <2>1. Searched(r, m, found(m), config.inputs)
    BY SearchFinds DEF Sought
  <2>2. CASE found(m).found = NoGrant
    BY <2>2
  <2>3. CASE found(m).found # NoGrant
    <3> HIDE DEF found
    <3>1. IsMatch(Augment(m, found(m)), r)
      BY <2>1, <2>3, Augments
    <3> QED
      BY <2>3, <3>1 DEF IsMatch
  <2> QED
    BY <2>2, <2>3
<1>4. ASSUME NEW k \in 1 .. n, NEW m \in S[k - 1] PROVE next(k, m) \in S[k]
  <2>1. k - 1 \in 0 .. n /\ k \in 0 .. n
    <3> HIDE DEF n
    <3> QED
      BY <1>2
  <2>2. m \in T /\ (found(m).found = NoGrant \/ Cardinality(MatchedIn(m)) >= k - 1)
    <3> HIDE DEF T, found
    <3> QED
      BY <2>1
  <2>3. next(k, m) \in T
    BY <1>3, <2>2
  <2>4. CASE found(m).found = NoGrant
    <3>1. next(k, m) = m
      BY <2>4
    <3> HIDE DEF next, found, T, n
    <3> QED
      BY <2>1, <2>3, <2>4, <3>1
  <2>5. CASE found(m).found # NoGrant
    <3>1. Searched(r, m, found(m), config.inputs) /\ next(k, m) = Augment(m, found(m))
      BY <2>2, <2>5, SearchFinds DEF Sought
    <3> HIDE DEF next, found
    <3>2. Cardinality(MatchedIn(next(k, m))) >= Cardinality(MatchedIn(m)) + 1
      BY <2>2, <2>5, <3>1, Augments
    <3>3. Cardinality(MatchedIn(m)) \in Nat /\ Cardinality(MatchedIn(next(k, m))) \in Nat
      BY MatchedFinite
    <3>4. Cardinality(MatchedIn(next(k, m))) >= k
      BY <2>2, <2>5, <3>2, <3>3
    <3> HIDE DEF T, n
    <3> QED
      BY <2>1, <2>3, <3>4
  <2> QED
    BY <2>4, <2>5
<1>5. start \in S[0]
  <2>1. Cardinality(MatchedIn(start)) >= 0
    BY MatchedFinite
  <2> HIDE DEF T, start
  <2> QED
    BY <1>2, <2>1
<1>6. ASSUME NEW m \in S[n] PROVE IsMatch(m, r) /\ (config.outputs <= config.inputs => Covered(r, m))
  <2>1. n \in 0 .. n
    BY <1>2
  <2>2. IsMatch(m, r) /\ (found(m).found = NoGrant \/ Cardinality(MatchedIn(m)) >= n)
    <3> HIDE DEF found
    <3> QED
      BY <2>1
  <2>3. CASE found(m).found = NoGrant
    <3>1. Sought(r, m, found(m), config.inputs)
      BY <2>2, SearchFinds
    <3> HIDE DEF found
    <3> QED
      BY <2>2, <2>3, <3>1, NothingFound
  <2>4. CASE Cardinality(MatchedIn(m)) >= n
    <3>1. /\ Cardinality(MatchedIn(m)) \in Nat /\ IsFiniteSet(Input) /\ Cardinality(Input) = n
          /\ MatchedIn(m) \subseteq Input
      BY MatchedFinite DEF MatchedIn
    <3>2. Cardinality(MatchedIn(m)) <= Cardinality(Input)
      BY <3>1, FS_Subset
    <3>3. Cardinality(MatchedIn(m)) = Cardinality(Input)
      BY <1>2, <2>4, <3>1, <3>2
    <3>4. MatchedIn(m) = Input
      BY <3>1, <3>3, FS_Subset
    <3>5. \A c \in DOMAIN r : m.in[c[1]] # Unmatched
      BY <3>4, Asked DEF MatchedIn
    <3>6. \E D \in SUBSET Output :
            /\ \A j \in D : m.out[j] # Unmatched
            /\ \A c \in DOMAIN r : c[2] \in D \/ (m.in[c[1]] # Unmatched /\ m.in[c[1]] \notin D)
      <4> WITNESS {} \in SUBSET Output
      <4> QED
        BY <3>5
    <3> QED
      BY <2>2, <3>6 DEF Covered
  <2> QED
    BY <2>2, <2>3, <2>4
<1> HIDE DEF next, T, start, S
<1>7. step \in [1 .. n -> [T -> T]] /\ \A k \in 1 .. n, m \in T : step[k][m] = next(k, m)
  BY <1>3
<1> HIDE DEF n, step
<1>8. PICK f : IsIteration(f, n, T, start, step)
  <2>1. n \in Nat /\ start \in T /\ step \in [1 .. n -> [T -> T]]
    BY <1>2, <1>7
  <2> QED
    BY <2>1, Iterates
<1>9. f = body(f)
  <2>1. ASSUME NEW k \in 1 .. n PROVE f[k] = next(k, f[k - 1])
    <3>1. f[k - 1] \in T /\ f[k] = step[k][f[k - 1]]
      BY <1>2, <1>8 DEF IsIteration
    <3> QED
      BY <1>7, <3>1
  <2>2. \A k \in 0 .. n : f[k] = IF k = 0 THEN start ELSE next(k, f[k - 1])
    BY <1>2, <1>8, <2>1 DEF IsIteration
  <2> QED
    BY <1>8, <2>2 DEF IsIteration
<1>10. after = body(after)
  <2> HIDE DEF body
  <2> QED
    BY <1>9
<1> HIDE DEF after
<1>11. /\ after[0] = start
      /\ \A k \in 1 .. n : after[k] = next(k, after[k - 1])
  BY <1>2, <1>10
<1>12. \A k \in 0 .. n : after[k] \in S[k]
  <2>1. n \in Nat /\ after[0] \in S[0]
    BY <1>2, <1>11, <1>5
  <2>2. \A k \in 1 .. n : after[k - 1] \in S[k - 1] => after[k] \in S[k]
    BY <1>11, <1>4
  <2> QED
    BY <2>1, <2>2, IteratesThrough
<1>13. after[n] \in S[n]
  BY <1>2, <1>12
<1> QED
  BY <1>1, <1>13, <1>6

-----------------------------------------------------------------------------
(* The invariant. *)

Now == [in |-> inmatch, out |-> outmatch]

(* No cycle is wasted on requests r by match m: something is granted, of    *)
(* the highest priority where priorities count, and nothing is left out    *)
(* where the allocator promises a maximal matching.                        *)
Prioritised == config.kind \in Separable \cup {"select", "wavefront", "rr_wavefront"}
Thorough == \/ config.kind \in {"wavefront", "rr_wavefront", "max_size"}
            \/ config.kind \in {"islip", "pim"} /\ (config.iters >= config.inputs \/ config.iters >= config.outputs)
Serves(r, m) == /\ DOMAIN r # {} => Pairs(m) # {}
                /\ Prioritised => Answers(r, m)
                /\ Thorough => Blocked(r, m)

(* The _from of max_size, with an element for each input, has one for each  *)
(* output too (MCAllocatorMaxSize shows what happens where it has not).     *)
Enough == config.kind = "max_size" => config.outputs <= config.inputs

Invariant ==
  /\ config \in Configs /\ phase \in {"request", "granted"}
  /\ waiting \subseteq Input \X Output /\ DOMAIN request \subseteq Input \X Output
  /\ gptrs \in [Output -> Input] /\ aptrs \in [Input -> Output] /\ turn \in 0 .. Square - 1
  /\ Armed
  /\ Now \in MatchType
  /\ Decisions => IsMatch(Now, request)
  /\ Enough => Serves(request, Now)
  /\ config.kind = "max_size" /\ Enough => Covered(request, Now)
  /\ \A c \in DOMAIN request : request[c][1] \in Int

(* Where nothing is requested nothing has to be covered. *)
LEMMA NothingCovered ==
  ASSUME NEW r, DOMAIN r = {}, NEW m
  PROVE  Covered(r, m)
<1>1. \E D \in SUBSET Output :
        /\ \A j \in D : m.out[j] # Unmatched
        /\ \A c \in DOMAIN r : c[2] \in D \/ (m.in[c[1]] # Unmatched /\ m.in[c[1]] \notin D)
  <2> WITNESS {} \in SUBSET Output
  <2> QED
    OBVIOUS
<1> QED
  BY <1>1 DEF Covered

(* Init establishes the invariant. *)
LEMMA InitInvariant == Init => Invariant
<1> SUFFICES ASSUME Init PROVE Invariant
  OBVIOUS
<1>1. config \in Configs /\ phase = "request" /\ waiting = {} /\ request = <<>> /\ Now = EmptyMatch
  BY DEF Init, Now, EmptyMatch
<1>2. gptrs \in [Output -> Input] /\ aptrs \in [Input -> Output] /\ turn \in 0 .. Square - 1
  BY <1>1, Sizes, Squares DEF Init
<1>3. Armed
  <2>1. /\ CanBuild(config.arb, config.outputs) /\ config.outputs \in Nat \ {0}
        /\ CanBuild(config.arb, config.inputs) /\ config.inputs \in Nat \ {0}
    BY <1>1, ConfigAssumption
  <2>2. /\ NewArbiter(config.arb, config.outputs) \in Arbiters(config.outputs)
        /\ NewArbiter(config.arb, config.inputs) \in Arbiters(config.inputs)
    BY <2>1, Built
  <2> QED
    BY <2>2 DEF Init, Armed
<1>4. IsMatch(Now, request) /\ Now \in MatchType
  BY <1>1, EmptyMatches DEF IsMatch
<1>5. waiting \subseteq Input \X Output /\ DOMAIN request \subseteq Input \X Output
  BY <1>1
<1>6. Serves(request, Now) /\ \A c \in DOMAIN request : request[c][1] \in Int
  BY <1>1 DEF Serves, Answers, Blocked
<1>7. Covered(request, Now)
  BY <1>1, NothingCovered
<1> QED
  BY <1>1, <1>2, <1>3, <1>4, <1>5, <1>6, <1>7 DEF Invariant

(* What every allocation does. *)
LEMMA MatchedStep ==
  ASSUME config \in Configs, NEW r \in Requests, NEW m, Matched(r, m)
  PROVE  /\ config' = config /\ phase' = "granted" /\ request' = r
         /\ inmatch' = m.in /\ outmatch' = m.out
         /\ waiting' \subseteq Input \X Output /\ DOMAIN r \subseteq Input \X Output
         /\ Input' = Input /\ Output' = Output /\ Square' = Square
         /\ m \in MatchType => (Now \in MatchType)'
         /\ IsMatch(m, r) => IsMatch(Now, request)'
         /\ m \in MatchType /\ Serves(r, m) => Serves(request, Now)'
         /\ m \in MatchType /\ Covered(r, m) => Covered(request, Now)'
         /\ \A c \in DOMAIN r : r[c][1] \in Int
<1>1. config' = config /\ phase' = "granted" /\ request' = r /\ inmatch' = m.in /\ outmatch' = m.out
  BY DEF Matched
<1>2. DOMAIN r \subseteq Input \X Output /\ waiting' \subseteq DOMAIN r
  BY Asked DEF Matched
<1>3. Input' = Input /\ Output' = Output /\ Square' = Square
  BY <1>1 DEF Input, Output, Square
<1>4. MatchType' = MatchType
  BY <1>3 DEF MatchType
<1>5. ASSUME m \in MatchType PROVE Now' = m
  <2>1. m = [in |-> m.in, out |-> m.out]
    BY <1>5 DEF MatchType
  <2> QED
    BY <1>1, <2>1 DEF Now
<1>6. ASSUME IsMatch(m, r) PROVE IsMatch(Now, request)'
  <2>1. m \in MatchType /\ Now' = m
    BY <1>5, <1>6 DEF IsMatch
  <2> QED
    BY <1>1, <1>3, <1>4, <1>6, <2>1 DEF IsMatch
<1>7. ASSUME m \in MatchType, Serves(r, m) PROVE Serves(request, Now)'
  <2>1. Now' = m
    BY <1>5, <1>7
  <2>2. Pairs(Now)' = Pairs(m)
    BY <1>1, <1>3, <2>1 DEF Pairs
  <2>3. Answers(request, Now)' <=> Answers(r, m)
    BY <1>1, <2>2 DEF Answers, Even
  <2>4. Blocked(request, Now)' <=> Blocked(r, m)
    BY <1>1, <2>1 DEF Blocked
  <2>5. Prioritised' = Prioritised /\ Thorough' = Thorough
    BY <1>1 DEF Prioritised, Thorough
  <2> QED
    BY <1>1, <1>7, <2>2, <2>3, <2>4, <2>5 DEF Serves
<1>8. ASSUME m \in MatchType, Covered(r, m) PROVE Covered(request, Now)'
  BY <1>1, <1>3, <1>5, <1>8 DEF Covered, Unmatched, NoGrant
<1>9. \A c \in DOMAIN r : r[c][1] \in Int
  BY Asked
<1> QED
  BY <1>1, <1>2, <1>3, <1>4, <1>5, <1>6, <1>7, <1>8, <1>9

(* A step that leaves the arbiters alone. *)
LEMMA ArbitersStay ==
  ASSUME Armed, config' = config, UNCHANGED <<inArb, outArb>>
  PROVE  Armed'
BY DEF Armed, Input, Output

(* Every allocation keeps the invariant. *)
LEMMA AllocateInvariant ==
  ASSUME Invariant, NEW r \in Requests, Allocate(r)
  PROVE  Invariant'
<1>1. /\ config \in Configs /\ Armed
      /\ gptrs \in [Output -> Input] /\ aptrs \in [Input -> Output] /\ turn \in 0 .. Square - 1
  BY DEF Invariant
<1>2. ASSUME NEW m, Matched(r, m),
             m \in MatchType, Decisions => IsMatch(m, r),
             Enough => Serves(r, m), config.kind = "max_size" /\ Enough => Covered(r, m),
             Armed', gptrs' \in [Output -> Input], aptrs' \in [Input -> Output], turn' \in 0 .. Square - 1
      PROVE  Invariant'
  <2>1. /\ config' = config /\ phase' = "granted" /\ request' = r
        /\ waiting' \subseteq Input \X Output /\ DOMAIN r \subseteq Input \X Output
        /\ Input' = Input /\ Output' = Output /\ Square' = Square
        /\ (Now \in MatchType)'
        /\ Decisions => IsMatch(Now, request)'
        /\ Enough => Serves(request, Now)'
        /\ config.kind = "max_size" /\ Enough => Covered(request, Now)'
        /\ \A c \in DOMAIN r : r[c][1] \in Int
    BY <1>1, <1>2, MatchedStep
  <2>2. Decisions' = Decisions /\ Enough' = Enough
    BY <2>1 DEF Decisions, Enough
  <2> QED
    BY <1>1, <1>2, <2>1, <2>2 DEF Invariant
<1>3. \/ AllocateISLIP(r) \/ AllocatePIM(r) \/ AllocateSelect(r) \/ AllocateLOA(r)
      \/ AllocateWavefront(r) \/ AllocateInputFirst(r) \/ AllocateOutputFirst(r)
      => config.kind # "max_size"
  BY Zenon DEF AllocateISLIP, AllocatePIM, AllocateSelect, AllocateLOA, AllocateWavefront, AllocateInputFirst,
         AllocateOutputFirst
<1>4. CASE AllocateISLIP(r)
  <2>1. PICK s \in States : /\ Grown(r, s.match, config.iters) /\ IsMatch(s.match, r)
                            /\ Matched(r, s.match) /\ gptrs' = s.gptrs /\ aptrs' = s.aptrs
    BY <1>1, <1>4, ISLIPMatches DEF Grown
  <2>2. turn' = turn /\ Armed'
    BY <1>1, <1>4, <2>1, ArbitersStay, Zenon DEF AllocateISLIP, Matched
  <2>3. gptrs' \in [Output -> Input] /\ aptrs' \in [Input -> Output] /\ s.match \in MatchType
    BY <2>1 DEF States
  <2>4. Serves(r, s.match)
    BY <1>1, <1>4, <2>1, GrownServes, Sizes, Zenon DEF AllocateISLIP, Serves, Prioritised, Thorough, Separable
  <2> QED
    BY <1>1, <1>2, <1>4, <1>3, <2>1, <2>2, <2>3, <2>4
<1>5. CASE AllocatePIM(r)
  <2>1. PICK m : Grown(r, m, config.iters) /\ IsMatch(m, r) /\ Matched(r, m)
    BY <1>1, <1>5, PIMMatches DEF Grown
  <2>2. gptrs' = gptrs /\ aptrs' = aptrs /\ turn' = turn /\ Armed'
    BY <1>1, <1>5, <2>1, ArbitersStay DEF AllocatePIM, Matched
  <2>3. m \in MatchType
    BY <2>1 DEF IsMatch
  <2>4. Serves(r, m)
    BY <1>1, <1>5, <2>1, GrownServes, Sizes DEF AllocatePIM, Serves, Prioritised, Thorough, Separable
  <2> QED
    BY <1>1, <1>2, <1>5, <1>3, <2>1, <2>2, <2>3, <2>4
<1>6. CASE AllocateSelect(r)
  <2>1. PICK s \in States : /\ config.iters = 1 => IsMatch(s.match, r)
                            /\ Answers(r, s.match)
                            /\ Matched(r, s.match) /\ gptrs' = s.gptrs /\ aptrs' = s.aptrs
    BY <1>1, <1>6, SelectMatches
  <2>2. turn' = turn /\ Armed' /\ config.kind = "select"
    BY <1>1, <1>6, <2>1, ArbitersStay, Zenon DEF AllocateSelect, Matched
  <2>3. gptrs' \in [Output -> Input] /\ aptrs' \in [Input -> Output] /\ s.match \in MatchType
    BY <2>1 DEF States
  <2>4. Decisions => IsMatch(s.match, r)
    BY <2>1, <2>2 DEF Decisions
  <2>5. Serves(r, s.match)
    BY <2>1, <2>2 DEF Serves, Answers, Thorough
  <2> QED
    BY <1>1, <1>2, <1>6, <1>3, <2>1, <2>2, <2>3, <2>4, <2>5
<1>7. CASE AllocateLOA(r)
  <2>1. PICK m : IsMatch(m, r) /\ (DOMAIN r # {} => Pairs(m) # {}) /\ Matched(r, m)
    BY <1>1, <1>7, LOAMatches
  <2>2. turn' = turn /\ Armed'
    BY <1>1, <1>7, <2>1, ArbitersStay DEF AllocateLOA, Matched
  <2>3. /\ \A i \in Input : Following(i, config.inputs) \in Input
        /\ \A o \in Output : Following(o, config.outputs) \in Output
    BY <1>1, PointersFollow
  <2>4. gptrs' \in [Output -> Input]
    <3>1. PICK taken : gptrs' = [o \in Output |-> IF o \in taken THEN Following(gptrs[o], config.inputs) ELSE gptrs[o]]
      <4>1. PICK granted : gptrs' = [o \in Output |-> IF granted[o] # NoGrant
                                                      THEN Following(gptrs[o], config.inputs) ELSE gptrs[o]]
        BY <1>7 DEF AllocateLOA
      <4>2. gptrs' = [o \in Output |-> IF o \in {p \in Output : granted[p] # NoGrant}
                                       THEN Following(gptrs[o], config.inputs) ELSE gptrs[o]]
        BY <4>1
      <4> QED
        BY <4>2
    <3> QED
      BY <1>1, <2>3, <3>1
  <2>5. aptrs' \in [Input -> Output]
    <3>1. PICK won : aptrs' = [i \in Input |-> IF i \in won THEN Following(aptrs[i], config.outputs) ELSE aptrs[i]]
      BY <1>7 DEF AllocateLOA
    <3> QED
      BY <1>1, <2>3, <3>1
  <2>6. m \in MatchType
    BY <2>1 DEF IsMatch
  <2>7. Serves(r, m)
    BY <1>7, <2>1 DEF AllocateLOA, Serves, Prioritised, Thorough, Separable
  <2> QED
    BY <1>1, <1>2, <1>7, <1>3, <2>1, <2>2, <2>4, <2>5, <2>6, <2>7
<1>8. CASE AllocateWavefront(r)
  <2>1. /\ \E m : IsMatch(m, r) /\ Answers(r, m) /\ Blocked(r, m) /\ Matched(r, m)
        /\ turn' \in 0 .. Square - 1
    BY <1>1, <1>8, WavefrontMatches
  <2>2. PICK m : IsMatch(m, r) /\ Answers(r, m) /\ Blocked(r, m) /\ Matched(r, m)
    BY <2>1
  <2>3. gptrs' = gptrs /\ aptrs' = aptrs /\ Armed'
    BY <1>1, <1>8, <2>2, ArbitersStay DEF AllocateWavefront, Matched
  <2>4. m \in MatchType
    BY <2>2 DEF IsMatch
  <2>5. Serves(r, m)
    BY <2>2 DEF Serves, Answers
  <2> QED
    BY <1>1, <1>2, <1>8, <1>3, <2>1, <2>2, <2>3, <2>4, <2>5
<1>9. CASE AllocateMaxSize(r)
  <2>1. PICK m : IsMatch(m, r) /\ Matched(r, m) /\ (config.outputs <= config.inputs => Covered(r, m))
    <3>1. turn \in Nat
      BY <1>1, Squares
    <3> QED
      BY <1>1, <1>9, <3>1, MaxSizeMatches
  <2>2. gptrs' = gptrs /\ aptrs' = aptrs /\ Armed'
    BY <1>1, <1>9, <2>1, ArbitersStay DEF AllocateMaxSize, Matched
  <2>3. turn' \in 0 .. Square - 1
    <3>1. turn' = Following(turn, config.inputs)
      BY <1>9 DEF AllocateMaxSize
    <3>2. turn \in Int /\ config.inputs \in Nat \ {0} /\ Input = 0 .. config.inputs - 1
      BY <1>1, Sizes, Squares
    <3>3. turn' \in Input
      BY <3>1, <3>2 DEF Following
    <3> QED
      BY <1>1, <3>3, Squares
  <2>4. m \in MatchType
    BY <2>1 DEF IsMatch
  <2>5. config.kind = "max_size"
    BY <1>9 DEF AllocateMaxSize
  <2>6. ASSUME Enough PROVE Serves(r, m) /\ Covered(r, m)
    <3>1. Covered(r, m) /\ DOMAIN r \subseteq Input \X Output
      BY <1>1, <2>1, <2>5, <2>6, Asked DEF Enough
    <3>2. Blocked(r, m)
      BY <1>1, <2>1, <3>1, CoveredServes
    <3>3. Grown(r, m, 1)
      BY <2>1, <3>2 DEF Grown
    <3>4. DOMAIN r # {} => Pairs(m) # {}
      BY <1>1, <3>3, GrownServes
    <3> QED
      BY <2>5, <3>1, <3>2, <3>4 DEF Serves, Prioritised, Separable
  <2> QED
    BY <1>1, <1>2, <2>1, <2>2, <2>3, <2>4, <2>6
<1>10. CASE AllocateInputFirst(r)
  <2>1. PICK m : IsMatch(m, r) /\ Answers(r, m) /\ Matched(r, m) /\ UpdateGranted(m)
    BY <1>1, <1>10, InputFirstMatches
  <2>2. gptrs' = gptrs /\ aptrs' = aptrs /\ turn' = turn
    BY <1>10 DEF AllocateInputFirst
  <2>3. m \in MatchType /\ config' = config
    BY <2>1 DEF IsMatch, Matched
  <2>4. Armed'
    BY <1>1, <2>1, <2>3, StaysArmed
  <2>5. Serves(r, m)
    BY <1>10, <2>1 DEF AllocateInputFirst, Serves, Answers, Thorough
  <2> QED
    BY <1>1, <1>2, <1>10, <1>3, <2>1, <2>2, <2>3, <2>4, <2>5
<1>11. CASE AllocateOutputFirst(r)
  <2>1. PICK m : IsMatch(m, r) /\ Answers(r, m) /\ Matched(r, m) /\ UpdateGranted(m)
    BY <1>1, <1>11, OutputFirstMatches
  <2>2. gptrs' = gptrs /\ aptrs' = aptrs /\ turn' = turn
    BY <1>11 DEF AllocateOutputFirst
  <2>3. m \in MatchType /\ config' = config
    BY <2>1 DEF IsMatch, Matched
  <2>4. Armed'
    BY <1>1, <2>1, <2>3, StaysArmed
  <2>5. Serves(r, m)
    BY <1>11, <2>1 DEF AllocateOutputFirst, Serves, Answers, Thorough
  <2> QED
    BY <1>1, <1>2, <1>11, <1>3, <2>1, <2>2, <2>3, <2>4, <2>5
<1> QED
  BY <1>4, <1>5, <1>6, <1>7, <1>8, <1>9, <1>10, <1>11 DEF Allocate

(* Every step keeps the invariant. *)
LEMMA NextInvariant == Invariant /\ [Next]_vars => Invariant'
<1> SUFFICES ASSUME Invariant, [Next]_vars PROVE Invariant'
  OBVIOUS
<1>1. CASE Clear
  <2>1. /\ config' = config /\ phase' = "request" /\ request' = <<>>
        /\ inmatch' = EmptyMatch.in /\ outmatch' = EmptyMatch.out
        /\ waiting' = waiting /\ gptrs' = gptrs /\ aptrs' = aptrs /\ turn' = turn
        /\ UNCHANGED <<inArb, outArb>>
    BY <1>1 DEF Clear
  <2>2. Input' = Input /\ Output' = Output /\ Square' = Square /\ Decisions' = Decisions
    BY <2>1 DEF Input, Output, Square, Decisions
  <2>3. Armed'
    BY <2>1, ArbitersStay DEF Invariant
  <2>4. Now' = EmptyMatch
    BY <2>1 DEF Now, EmptyMatch
  <2>5. IsMatch(EmptyMatch, <<>>)
    BY EmptyMatches DEF Invariant
  <2>6. MatchType' = MatchType
    BY <2>2 DEF MatchType
  <2>7. IsMatch(Now, request)' /\ (Now \in MatchType)'
    BY <2>1, <2>2, <2>4, <2>5, <2>6 DEF IsMatch
  <2>8. Serves(request, Now)' /\ (\A c \in DOMAIN request : request[c][1] \in Int)'
    BY <2>1 DEF Serves, Answers, Blocked
  <2>9. Covered(request, Now)'
    <3>1. DOMAIN request' = {}
      BY <2>1
    <3>2. Covered(request', Now')
      BY <3>1, NothingCovered
    <3> QED
      BY <2>2, <3>2 DEF Covered, Unmatched, NoGrant
  <2> QED
    BY <2>1, <2>2, <2>3, <2>7, <2>8, <2>9 DEF Invariant
<1>2. CASE phase = "request" /\ \E r \in Requests : Allocate(r)
  BY <1>2, AllocateInvariant
<1>3. CASE UNCHANGED vars
  <2>1. /\ config' = config /\ phase' = phase /\ request' = request /\ waiting' = waiting
        /\ inmatch' = inmatch /\ outmatch' = outmatch /\ gptrs' = gptrs /\ aptrs' = aptrs /\ turn' = turn
        /\ UNCHANGED <<inArb, outArb>>
    BY <1>3 DEF vars
  <2>2. Input' = Input /\ Output' = Output /\ Square' = Square /\ Decisions' = Decisions /\ Now' = Now
    BY <2>1 DEF Input, Output, Square, Decisions, Now
  <2>3. Armed'
    BY <2>1, ArbitersStay DEF Invariant
  <2>4. MatchType' = MatchType
    BY <2>2 DEF MatchType
  <2>5. IsMatch(Now, request)' <=> IsMatch(Now, request)
    BY <2>1, <2>2, <2>4 DEF IsMatch
  <2>6. Serves(request, Now)' <=> Serves(request, Now)
    BY <2>1, <2>2 DEF Serves, Answers, Blocked, Even, Pairs, Prioritised, Thorough
  <2>7. (Covered(request, Now)' <=> Covered(request, Now)) /\ Enough' = Enough
    BY <2>1, <2>2 DEF Covered, Enough
  <2> QED
    BY <2>1, <2>2, <2>3, <2>4, <2>5, <2>6, <2>7 DEF Invariant
<1> QED
  BY <1>1, <1>2, <1>3 DEF Next

(***************************************************************************)
(* The invariant: the pointers and the arbiters of every allocator stay in *)
(* their ranges and orders, and what Allocate leaves is a matching.        *)
(***************************************************************************)
THEOREM AllocatorInvariant == Spec => []Invariant
<1>1. Init => Invariant
  BY InitInvariant
<1>2. Invariant /\ [Next]_vars => Invariant'
  BY NextInvariant
<1> QED
  BY <1>1, <1>2, PTL DEF Spec

(***************************************************************************)
(* The arbiters of any size decide, whatever they have granted before: the *)
(* order in _matrix never has a cycle, and a tree of them finds the group  *)
(* of a request (assert(_selected >= 0), Arbiter::Arbitrate).              *)
(***************************************************************************)
THEOREM ArbitersAlwaysDecide == Spec => []ArbitersDecide
<1>1. Invariant => ArbitersDecide
  BY ArmedDecide DEF Invariant
<1> QED
  BY <1>1, AllocatorInvariant, PTL

(***************************************************************************)
(* The types of the state of every allocator: the pointers, the diagonal   *)
(* and both sides of the match stay in their ranges, whatever the size.    *)
(***************************************************************************)
THEOREM TypeCorrect == Spec => []TypeOK
<1>1. Invariant => TypeOK
  BY DEF Invariant, TypeOK, Armed, Now, MatchType
<1> QED
  BY <1>1, AllocatorInvariant, PTL

(***************************************************************************)
(* Both sides of every grant agree, and only requests are granted: for     *)
(* iSLIP and PIM after any number of iterations, for LOA and the           *)
(* wavefronts, for the augmenting paths of max_size, for the separable     *)
(* allocators with any arbiters, and for select with one iteration (with   *)
(* more, MCAllocatorSelect shows that it is not so).                       *)
(***************************************************************************)
THEOREM AlwaysMatching == Spec => [](Decisions => Matching)
<1>1. Invariant => (Decisions => Matching)
  BY DEF Invariant, Matching, IsMatch, Now
<1> QED
  BY <1>1, AllocatorInvariant, PTL

(* A request of the highest priority. *)
LEMMA HighestExists ==
  ASSUME Invariant, DOMAIN request # {}
  PROVE  \E c \in Highest : c \in DOMAIN request
<1> DEFINE f == [c \in DOMAIN request |-> -request[c][1]]
<1>1. \A c \in DOMAIN request : f[c] = -request[c][1] /\ f[c] \in Int /\ request[c][1] \in Int
  BY DEF Invariant
<1>2. IsFiniteSet(DOMAIN request)
  <2>1. IsFiniteSet(Input) /\ IsFiniteSet(Output)
    BY MatchedFinite DEF Invariant
  <2>2. IsFiniteSet(Input \X Output)
    BY <2>1, FS_Product
  <2> QED
    BY <2>2, FS_Subset DEF Invariant
<1>3. PICK c \in DOMAIN request : \A d \in DOMAIN request : f[c] <= f[d]
  <2> HIDE DEF f
  <2> QED
    BY <1>1, <1>2, LeastKey
<1>4. \A d \in DOMAIN request : request[d][1] <= request[c][1]
  <2> HIDE DEF f
  <2> QED
    BY <1>1, <1>3
<1> QED
  BY <1>4 DEF Highest

(***************************************************************************)
(* No cycle is wasted, whatever the size: where there are requests, one is *)
(* granted, by select, the wavefronts and the separable allocators one of  *)
(* the highest priority; and a wavefront, or iSLIP and PIM with as many    *)
(* iterations as ports on the smaller side, leaves no request out whose    *)
(* ports are both free.  For max_size this is so unless there are more     *)
(* outputs than inputs.                                                    *)
(***************************************************************************)
THEOREM NoneWasted == Spec => [](Enough => WastesNothing)
<1>1. ASSUME Invariant, Enough PROVE WastesNothing
  <2>1. Serves(request, Now)
    BY <1>1 DEF Invariant
  <2>2. Pairs(Now) = Granted
    BY DEF Pairs, Granted, Now
  <2>3. Maximal
    BY <2>1 DEF Serves, Thorough, Blocked, Maximal, Now
  <2>4. ASSUME DOMAIN request # {}, Prioritised, Even(request)
        PROVE  Granted \cap Highest # {}
    <3>1. PICK c \in Highest : c \in DOMAIN request
      BY <1>1, <2>4, HighestExists
    <3>2. PICK d \in Granted \cap DOMAIN request : request[c][1] <= request[d][1]
      BY <2>1, <2>2, <2>4, <3>1 DEF Serves, Answers
    <3>3. \A e \in DOMAIN request : request[e][1] <= request[c][1] /\ request[e][1] \in Int
      BY <1>1, <3>1 DEF Highest, Invariant
    <3>4. d \in Highest
      BY <3>1, <3>2, <3>3 DEF Highest
    <3> QED
      BY <3>2, <3>4
  <2>5. Productive
    BY <2>1, <2>2, <2>4 DEF Serves, Prioritised, Even, Productive
  <2> QED
    BY <2>3, <2>5 DEF WastesNothing
<1>2. Invariant => (Enough => WastesNothing)
  BY <1>1
<1> QED
  BY <1>2, AllocatorInvariant, PTL

(***************************************************************************)
(* max_size grants as many requests as can be granted at once, for any     *)
(* number of ports that leaves _from an element for each output: where no  *)
(* augmenting path is left, some of the matched outputs and the inputs     *)
(* matched to the other ones take part in every request.                   *)
(***************************************************************************)
THEOREM GrantsMost == Spec => [](Enough => MaximumSize)
<1>1. ASSUME Invariant, Enough, config.kind = "max_size", NEW S \in SUBSET DOMAIN request, Disjoint(S)
      PROVE  Cardinality(S) <= Cardinality(Granted)
  <2>1. /\ config \in Configs /\ IsMatch(Now, request) /\ Covered(request, Now)
        /\ DOMAIN request \subseteq Input \X Output
    BY <1>1 DEF Invariant, Decisions
  <2>2. Pairs(Now) = Granted
    BY DEF Pairs, Granted, Now
  <2> QED
    BY <1>1, <2>1, <2>2, CoveredServes
<1>2. Invariant => (Enough => MaximumSize)
  BY <1>1 DEF MaximumSize
<1> QED
  BY <1>2, AllocatorInvariant, PTL
=============================================================================
