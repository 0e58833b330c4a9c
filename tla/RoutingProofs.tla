---------------------------- MODULE RoutingProofs ----------------------------
(***************************************************************************)
(* Proofs about Routing, for networks and patterns of every size: what the *)
(* permutation patterns of traffic.cpp do to the nodes, and how the        *)
(* channels of networks/ are joined.                                       *)
(***************************************************************************)
EXTENDS Routing, FoldLemmas

-----------------------------------------------------------------------------
(* Arithmetic.  A product of naturals is monotone in both factors.         *)
LEMMA ProductAtMost ==
  ASSUME NEW a \in Nat, NEW b \in Nat, NEW m \in Nat, a <= b
  PROVE  a * m <= b * m /\ a * m \in Nat
OBVIOUS

(* Quotient and remainder. *)
LEMMA DivMod ==
  ASSUME NEW x \in Int, NEW m \in Nat \ {0}
  PROVE  /\ x \div m \in Int /\ x % m \in 0 .. m - 1
         /\ x = (x \div m) * m + (x % m)
OBVIOUS

(* They are the only ones. *)
LEMMA DivModUnique ==
  ASSUME NEW q \in Int, NEW m \in Nat \ {0}, NEW r \in 0 .. m - 1
  PROVE  (q * m + r) \div m = q /\ (q * m + r) % m = r
<1> DEFINE x == q * m + r
           p == x \div m
           s == x % m
<1>1. x \in Int /\ p \in Int /\ s \in 0 .. m - 1 /\ x = p * m + s
  BY DivMod
<1>2. (q - p) * m = s - r
  BY <1>1
<1> HIDE DEF x, p, s
<1>3. q - p >= 1 => (q - p) * m >= m
  BY <1>1
<1>4. p - q >= 1 => (p - q) * m >= m
  BY <1>1
<1>5. q = p
  BY <1>1, <1>2, <1>3, <1>4
<1>6. r = s
  BY <1>1, <1>2, <1>5
<1> QED
  BY <1>5, <1>6 DEF x, p, s

(* A multiple of m more. *)
LEMMA DivModShift ==
  ASSUME NEW x \in Int, NEW m \in Nat \ {0}, NEW z \in Int
  PROVE  (x + z * m) \div m = (x \div m) + z /\ (x + z * m) % m = x % m
<1>1. x \div m \in Int /\ x % m \in 0 .. m - 1 /\ x = (x \div m) * m + (x % m)
  BY DivMod
<1> DEFINE q == (x \div m) + z
           r == x % m
<1>2. x + z * m = q * m + r
  BY <1>1
<1>3. q \in Int /\ r \in 0 .. m - 1
  BY <1>1
<1> HIDE DEF q, r
<1>4. (q * m + r) \div m = q /\ (q * m + r) % m = r
  BY <1>3, DivModUnique
<1> QED
  BY <1>2, <1>4 DEF q, r

LEMMA DivModNext ==
  ASSUME NEW x \in Int, NEW m \in Nat \ {0}
  PROVE  (x + m) \div m = (x \div m) + 1 /\ (x + m) % m = x % m
<1> DEFINE z == 1
<1>1. z \in Int
  OBVIOUS
<1> HIDE DEF z
<1>2. (x + z * m) \div m = (x \div m) + z /\ (x + z * m) % m = x % m
  BY <1>1, DivModShift
<1> QED
  BY <1>2 DEF z

(* What is below a product has its quotient below the other factor. *)
LEMMA DivBelow ==
  ASSUME NEW x \in Nat, NEW a \in Nat, NEW m \in Nat \ {0}
  PROVE  x \div m \in Nat /\ (x < a * m <=> x \div m < a)
<1> DEFINE q == x \div m
           r == x % m
<1>1. q \in Int /\ r \in 0 .. m - 1 /\ x = q * m + r
  BY DivMod
<1> HIDE DEF q, r
<1>2. q <= -1 => q * m <= -m
  BY <1>1
<1>3. q \in Nat
  BY <1>1, <1>2
<1>4. CASE q < a
  <2>1. (q + 1) * m <= a * m
    BY <1>3, <1>4, ProductAtMost
  <2>2. (q + 1) * m = q * m + m
    BY <1>3
  <2> QED
    BY <1>1, <1>3, <1>4, <2>1, <2>2 DEF q
<1>5. CASE q >= a
  <2>1. a * m <= q * m
    BY <1>3, <1>5, ProductAtMost
  <2> QED
    BY <1>1, <1>3, <1>5, <2>1 DEF q
<1> QED
  BY <1>3, <1>4, <1>5

(* A quotient of a quotient. *)
LEMMA DivDiv ==
  ASSUME NEW x \in Int, NEW a \in Nat \ {0}, NEW b \in Nat \ {0}
  PROVE  (x \div a) \div b = x \div (a * b)
<1> DEFINE q == x \div a
           r == x % a
           u == q \div b
           v == q % b
<1>1. q \in Int /\ r \in 0 .. a - 1 /\ x = q * a + r
  BY DivMod
<1>2. u \in Int /\ v \in 0 .. b - 1 /\ q = u * b + v
  BY <1>1, DivMod
<1> HIDE DEF q, r, u, v
<1>3. x = u * (a * b) + (v * a + r)
  <2>1. q * a = (u * b) * a + v * a
    BY <1>1, <1>2
  <2>2. (u * b) * a = u * (a * b)
    BY <1>2
  <2> QED
    BY <1>1, <1>2, <2>1, <2>2
<1>4. v * a + r \in 0 .. a * b - 1 /\ a * b \in Nat \ {0}
  <2>1. (v + 1) * a <= b * a /\ v * a \in Nat
    BY <1>2, ProductAtMost
  <2>2. (v + 1) * a = v * a + a /\ b * a = a * b
    BY <1>2
  <2> QED
    BY <1>1, <1>2, <2>1, <2>2
<1>5. x \div (a * b) = u
  BY <1>2, <1>3, <1>4, DivModUnique
<1> QED
  BY <1>5 DEF q, u

-----------------------------------------------------------------------------
(* powi. *)
(* A set that holds 0 and what follows its members holds every natural.    *)
LEMMA AllNaturals ==
  ASSUME NEW G, 0 \in G, \A n \in Nat : n \in G => n + 1 \in G
  PROVE  Nat \subseteq G
<1> DEFINE bad == Nat \ G
<1> SUFFICES ASSUME bad # {} PROVE FALSE
  OBVIOUS
<1>1. PICK n \in bad : \A j \in bad : n <= j
  <2>1. bad \subseteq Nat
    OBVIOUS
  <2> HIDE DEF bad
  <2> QED
    BY <2>1, LeastNatural
<1>2. n \in Nat \ {0} /\ n - 1 \in Nat /\ n - 1 \notin bad
  BY <1>1
<1>3. n - 1 + 1 \in G
  BY <1>2
<1> QED
  BY <1>1, <1>2, <1>3

(* The products r in the definition of powi. *)
Powers(x, y, r) == r = [i \in 0 .. y |-> IF i = 0 THEN 1 ELSE r[i - 1] * x]
LEMMA PowersAre ==
  ASSUME NEW x \in Nat, NEW y \in Nat
  PROVE  \E r \in [0 .. y -> Nat] : Powers(x, y, r) /\ r[y] = powi(x, y)
<1> DEFINE step == [i \in 1 .. y |-> [t \in Nat |-> t * x]]
           body(r) == [i \in 0 .. y |-> IF i = 0 THEN 1 ELSE r[i - 1] * x]
           r0 == CHOOSE r : r = body(r)
<1>1. powi(x, y) = r0[y]
  BY DEF powi
<1>2. step \in [1 .. y -> [Nat -> Nat]] /\ 1 \in Nat
  OBVIOUS
<1>3. PICK f : IsIteration(f, y, Nat, 1, step)
  <2> HIDE DEF step
  <2> QED
    BY <1>2, Iterates
<1>4. f \in [0 .. y -> Nat] /\ f[0] = 1 /\ \A k \in 1 .. y : f[k] = step[k][f[k - 1]]
  BY <1>3 DEF IsIteration
<1>5. ASSUME NEW k \in 1 .. y PROVE f[k] = f[k - 1] * x
  <2>1. k - 1 \in 0 .. y
    OBVIOUS
  <2>2. f[k - 1] \in Nat
    BY <1>4, <2>1
  <2>3. step[k][f[k - 1]] = f[k - 1] * x
    BY <2>2
  <2> HIDE DEF step
  <2> QED
    BY <1>4, <2>3
<1>6. f = body(f)
  BY <1>4, <1>5
<1>7. r0 = body(r0)
  <2> HIDE DEF body
  <2> QED
    BY <1>6
<1>8. r0[0] = 1 /\ \A k \in 1 .. y : r0[k] = r0[k - 1] * x
  <2> HIDE DEF r0
  <2> QED
    BY <1>7
<1> HIDE DEF r0, body
<1>9. \A k \in 0 .. y : r0[k] \in Nat
  <2>1. \A k \in 1 .. y : r0[k - 1] \in Nat => r0[k] \in Nat
    BY <1>8
  <2>2. r0[0] \in Nat
    BY <1>8
  <2> QED
    BY <2>1, <2>2, IteratesIn
<1>10. r0 \in [0 .. y -> Nat]
  BY <1>7, <1>9 DEF body
<1> QED
  BY <1>1, <1>7, <1>10 DEF Powers, body

(* Powers are the same however far they go on. *)
LEMMA PowersAgree ==
  ASSUME NEW x \in Nat, NEW y \in Nat, NEW z \in Nat, NEW r, NEW s, Powers(x, y, r), Powers(x, z, s)
  PROVE  \A i \in 0 .. y : i <= z => r[i] = s[i]
<1> DEFINE G == {i \in Nat : i <= y /\ i <= z => r[i] = s[i]}
<1>0. r[0] = 1 /\ s[0] = 1 /\ (\A i \in 1 .. y : r[i] = r[i - 1] * x) /\ \A i \in 1 .. z : s[i] = s[i - 1] * x
  BY DEF Powers
<1>1. 0 \in G
  BY <1>0
<1>2. ASSUME NEW n \in Nat, n \in G PROVE n + 1 \in G
  <2>1. n + 1 <= y /\ n + 1 <= z => r[n + 1] = r[n] * x /\ s[n + 1] = s[n] * x
    <3>1. n + 1 <= y => r[n + 1] = r[n + 1 - 1] * x
      BY <1>0
    <3>2. n + 1 <= z => s[n + 1] = s[n + 1 - 1] * x
      BY <1>0
    <3>3. n + 1 - 1 = n
      OBVIOUS
    <3> QED
      BY <3>1, <3>2, <3>3
  <2> QED
    BY <1>2, <2>1
<1> HIDE DEF G
<1>3. Nat \subseteq G
  BY <1>1, <1>2, AllNaturals
<1> QED
  BY <1>3 DEF G

LEMMA PowiStep ==
  ASSUME NEW x \in Nat, NEW n \in Nat
  PROVE  powi(x, 0) = 1 /\ powi(x, n) \in Nat /\ powi(x, n + 1) = powi(x, n) * x
<1>1. PICK r \in [0 .. 0 -> Nat] : Powers(x, 0, r) /\ r[0] = powi(x, 0)
  BY PowersAre
<1>2. PICK s : s \in [0 .. n -> Nat] /\ Powers(x, n, s) /\ s[n] = powi(x, n)
  BY PowersAre
<1>3. n + 1 \in Nat
  OBVIOUS
<1>4. PICK t : t \in [0 .. n + 1 -> Nat] /\ Powers(x, n + 1, t) /\ t[n + 1] = powi(x, n + 1)
  BY <1>3, PowersAre
<1>5. r[0] = 1
  BY <1>1 DEF Powers
<1>6. t[n + 1] = t[n] * x
  <2>1. t[n + 1] = t[n + 1 - 1] * x
    BY <1>4 DEF Powers
  <2>2. n + 1 - 1 = n
    OBVIOUS
  <2> QED
    BY <2>1, <2>2
<1>7. s[n] = t[n]
  <2> DEFINE n1 == n + 1
  <2>0. n1 \in Nat /\ Powers(x, n, s) /\ Powers(x, n1, t) /\ n \in 0 .. n /\ n <= n1
    BY <1>2, <1>4
  <2> HIDE DEF n1
  <2>1. \A i \in 0 .. n : i <= n1 => s[i] = t[i]
    BY <2>0, PowersAgree
  <2> QED
    BY <2>0, <2>1
<1> QED
  BY <1>1, <1>2, <1>4, <1>5, <1>6, <1>7

(* A power of a radix is positive. *)
LEMMA PowiPositive ==
  ASSUME NEW x \in Nat \ {0}, NEW n \in Nat
  PROVE  powi(x, n) \in Nat \ {0}
<1> DEFINE G == {i \in Nat : powi(x, i) >= 1}
<1>1. 0 \in G
  BY PowiStep
<1>2. ASSUME NEW i \in Nat, i \in G PROVE i + 1 \in G
  <2>1. powi(x, i + 1) = powi(x, i) * x /\ powi(x, i) \in Nat /\ powi(x, i) >= 1
    BY <1>2, PowiStep
  <2>2. 1 * x <= powi(x, i) * x
    BY <2>1, ProductAtMost
  <2> QED
    BY <2>1, <2>2
<1> HIDE DEF G
<1>3. n \in G
  BY <1>1, <1>2, AllNaturals
<1> QED
  BY <1>3, PowiStep DEF G

(* Exponents add up. *)
LEMMA PowiAdd ==
  ASSUME NEW x \in Nat, NEW m \in Nat, NEW n \in Nat
  PROVE  powi(x, m + n) = powi(x, m) * powi(x, n)
<1> DEFINE G == {i \in Nat : powi(x, m + i) = powi(x, m) * powi(x, i)}
<1>1. 0 \in G
  <2>1. powi(x, 0) = 1 /\ powi(x, m) \in Nat /\ m + 0 = m
    BY PowiStep
  <2> QED
    BY <2>1
<1>2. ASSUME NEW i \in Nat, i \in G PROVE i + 1 \in G
  <2>1. powi(x, i + 1) = powi(x, i) * x /\ powi(x, i) \in Nat /\ powi(x, m) \in Nat
    BY PowiStep
  <2>2. m + i \in Nat /\ m + (i + 1) = (m + i) + 1
    OBVIOUS
  <2>3. powi(x, (m + i) + 1) = powi(x, m + i) * x
    BY <2>2, PowiStep
  <2>4. powi(x, m + i) = powi(x, m) * powi(x, i)
    BY <1>2
  <2>5. powi(x, m) * powi(x, i) * x = powi(x, m) * (powi(x, i) * x)
    BY <2>1
  <2> QED
    BY <2>1, <2>2, <2>3, <2>4, <2>5
<1> HIDE DEF G
<1>3. n \in G
  BY <1>1, <1>2, AllNaturals
<1> QED
  BY <1>3 DEF G

-----------------------------------------------------------------------------
(* Digits. *)
LEMMA DigitType ==
  ASSUME NEW x \in Int, NEW k \in Nat \ {0}, NEW d \in Nat
  PROVE  Digit(x, k, d) \in Below(k)
<1>1. powi(k, d) \in Nat \ {0}
  BY PowiPositive
<1>2. x \div powi(k, d) \in Int
  BY <1>1, DivMod
<1> QED
  BY <1>2, DivMod DEF Digit, Below

(* A digit is replaced, and nothing else. *)
LEMMA DigitReplaced ==
  ASSUME NEW k \in Nat \ {0}, NEW n \in Nat, NEW d \in Below(n), NEW x \in Below(powi(k, n)), NEW v \in Below(k)
  PROVE  /\ WithDigit(x, k, d, v) \in Below(powi(k, n))
         /\ Digit(WithDigit(x, k, d, v), k, d) = v
         /\ \A w \in Below(k) : WithDigit(WithDigit(x, k, d, v), k, d, w) = WithDigit(x, k, d, w)
         /\ WithDigit(x, k, d, Digit(x, k, d)) = x
<1> DEFINE K == powi(k, d)
           e == n - 1 - d
           M == powi(k, e)
           a == x \div K
           g == a % k
           h == a \div k
           y == x + (v - g) * K
<1>1. d \in Nat /\ e \in Nat /\ n = (e + 1) + d /\ v \in 0 .. k - 1 /\ e + 1 \in Nat
  BY DEF Below
<1>2. K \in Nat \ {0} /\ M \in Nat \ {0} /\ powi(k, n) \in Nat /\ x \in Nat /\ x < powi(k, n)
  BY <1>1, PowiPositive DEF Below
<1>3. powi(k, n) = (M * k) * K /\ M * k \in Nat
  <2>1. powi(k, n) = powi(k, e + 1) * powi(k, d)
    BY <1>1, PowiAdd
  <2>2. powi(k, e + 1) = powi(k, e) * k
    BY <1>1, PowiStep
  <2> QED
    BY <1>2, <2>1, <2>2
<1>4. Digit(x, k, d) = g /\ \A w : WithDigit(x, k, d, w) = x + (w - g) * K
  BY DEF Digit, WithDigit
<1> HIDE DEF K, e, M
<1>5. a \in Nat /\ a < M * k
  BY <1>2, <1>3, DivBelow
<1>6. h \in Nat /\ h < M /\ g \in 0 .. k - 1 /\ a = h * k + g
  <2> HIDE DEF a
  <2>1. a \in Int /\ M \in Nat
    BY <1>2, <1>5
  <2>2. g \in 0 .. k - 1 /\ a = h * k + g
    BY <2>1, DivMod
  <2>3. h \in Nat /\ (a < M * k <=> h < M)
    BY <1>5, <2>1, DivBelow
  <2> QED
    BY <1>5, <2>2, <2>3
<1>7. y \in Int /\ y \div K = a + (v - g)
  <2> DEFINE z == v - g
  <2>1. z \in Int
    BY <1>1, <1>6
  <2>2. y = x + z * K
    OBVIOUS
  <2> HIDE DEF g, z, a
  <2>3. x \in Int
    BY <1>2
  <2>4. (x + z * K) \div K = (x \div K) + z
    BY <1>2, <2>1, <2>3, DivModShift
  <2>5. y \in Int
    BY <1>2, <2>1, <2>2, <2>3
  <2> HIDE DEF y
  <2> QED
    BY <2>2, <2>4, <2>5 DEF a, z
<1> HIDE DEF a, g, h
<1>8. y \div K = h * k + v /\ y \div K \in Nat /\ (y \div K) % k = v /\ (y \div K) \div k = h
  <2>1. y \div K = h * k + v
    BY <1>1, <1>6, <1>7
  <2>2. (h * k + v) \div k = h /\ (h * k + v) % k = v
    BY <1>1, <1>6, DivModUnique
  <2>3. h * k \in Nat
    BY <1>6, ProductAtMost
  <2> HIDE DEF y
  <2> QED
    BY <1>1, <2>1, <2>2, <2>3
<1>9. y \in Nat /\ y < powi(k, n)
  <2>1. y = (y \div K) * K + (y % K) /\ y % K \in 0 .. K - 1
    BY <1>2, <1>7, DivMod
  <2> HIDE DEF y
  <2>2. (y \div K) * K \in Nat
    BY <1>2, <1>8, ProductAtMost
  <2>3. y \in Nat
    BY <2>1, <2>2
  <2>4. y \div K < M * k
    BY <1>2, <1>6, <1>8, DivBelow
  <2> QED
    BY <1>2, <1>3, <2>3, <2>4, DivBelow
<1>10. WithDigit(x, k, d, v) = y /\ Digit(y, k, d) = v
  BY <1>4, <1>8 DEF Digit, K
<1>11. ASSUME NEW w \in Below(k) PROVE WithDigit(y, k, d, w) = x + (w - g) * K
  <2>1. WithDigit(y, k, d, w) = y + (w - v) * K
    BY <1>10 DEF WithDigit, K
  <2>2. w \in Int /\ v \in Int /\ g \in Int
    BY <1>1, <1>6 DEF Below
  <2> QED
    BY <1>2, <2>1, <2>2
<1>12. x + (g - g) * K = x
  BY <1>2, <1>6
<1>13. WithDigit(x, k, d, Digit(x, k, d)) = x
  BY <1>4, <1>12
<1>14. \A w \in Below(k) : WithDigit(y, k, d, w) = WithDigit(x, k, d, w)
  BY <1>4, <1>11
<1>15. y \in Below(powi(k, n))
  <2> HIDE DEF y
  <2> QED
    BY <1>2, <1>9 DEF Below
<1> HIDE DEF y
<1> QED
  BY <1>10, <1>13, <1>14, <1>15

-----------------------------------------------------------------------------
(* The number with the digits v. *)
Value(v, k, m) == SumFunction([d \in Below(m) |-> powi(k, d) * v[d]])
DigitsOf(x, k, n) == [d \in Below(n) |-> Digit(x, k, d)]

LEMMA ValueStep ==
  ASSUME NEW k \in Nat \ {0}, NEW n \in Nat, NEW v \in [Below(n) -> Below(k)], NEW m \in Nat, m < n
  PROVE  /\ Value(v, k, 0) = 0 /\ Value(v, k, m) \in Int
         /\ Value(v, k, m + 1) = Value(v, k, m) + v[m] * powi(k, m)
<1> DEFINE f == [d \in Below(m) |-> powi(k, d) * v[d]]
           g == [d \in Below(m + 1) |-> powi(k, d) * v[d]]
<1>1. \A d \in Below(m + 1) : powi(k, d) \in Nat /\ v[d] \in Nat /\ powi(k, d) * v[d] \in Int
  <2> SUFFICES ASSUME NEW d \in Below(m + 1) PROVE powi(k, d) \in Nat /\ v[d] \in Nat /\ powi(k, d) * v[d] \in Int
    OBVIOUS
  <2>1. d \in Nat /\ d \in Below(n)
    BY DEF Below
  <2>2. powi(k, d) \in Nat
    BY <2>1, PowiStep
  <2>3. v[d] \in Below(k)
    BY <2>1
  <2>4. v[d] \in Nat
    BY <2>3 DEF Below
  <2> QED
    BY <2>2, <2>4
<1>2. IsFiniteSet(Below(m)) /\ IsFiniteSet(Below(m + 1))
  BY FS_Interval DEF Below
<1>3. Below(m) = Below(m + 1) \ {m} /\ m \in Below(m + 1)
  BY DEF Below
<1>4. Summable(g, Below(m + 1)) /\ g[m] = powi(k, m) * v[m]
  BY <1>1, <1>2, <1>3 DEF Summable
<1>5. Summable(g, Below(m)) /\ \A d \in Below(m) : f[d] = g[d]
  BY <1>1, <1>2, <1>3 DEF Summable
<1>6. Sum(g, Below(m + 1)) = g[m] + Sum(g, Below(m))
  <2> HIDE DEF f, g
  <2> QED
    BY <1>3, <1>4, SumRemove
<1>7. Sum(f, Below(m)) = Sum(g, Below(m)) /\ Sum(g, Below(m)) \in Int
  <2> HIDE DEF f, g
  <2> QED
    BY <1>5, SumEqual, SumType
<1>8. Value(v, k, m) = Sum(f, Below(m)) /\ Value(v, k, m + 1) = Sum(g, Below(m + 1))
  BY DEF Value, SumFunction, Sum
<1>9. Value(v, k, 0) = 0
  <2> DEFINE none == [d \in Below(0) |-> powi(k, d) * v[d]]
  <2>1. Below(0) = {}
    BY DEF Below
  <2>2. Value(v, k, 0) = Sum(none, DOMAIN none)
    BY DEF Value, SumFunction, Sum
  <2>3. DOMAIN none = {}
    BY <2>1
  <2> HIDE DEF none
  <2> QED
    BY <2>2, <2>3, SumEmpty
<1>10. powi(k, m) * v[m] = v[m] * powi(k, m)
  BY <1>1, <1>3
<1> HIDE DEF f, g
<1> QED
  BY <1>1, <1>3, <1>4, <1>6, <1>7, <1>8, <1>9, <1>10

(* It has these digits, and no more. *)
LEMMA ValueDigits ==
  ASSUME NEW k \in Nat \ {0}, NEW n \in Nat, NEW v \in [Below(n) -> Below(k)]
  PROVE  Value(v, k, n) \in Below(powi(k, n)) /\ \A d \in Below(n) : Digit(Value(v, k, n), k, d) = v[d]
<1> DEFINE G == {m \in Nat : m <= n => /\ Value(v, k, m) \in Below(powi(k, m))
                                       /\ \A d \in Below(m) : Digit(Value(v, k, m), k, d) = v[d]}
<1>1. 0 \in G
  <2>1. powi(k, 0) = 1 /\ Below(0) = {} /\ 0 \in Below(1)
    BY PowiStep DEF Below
  <2>2. Value(v, k, 0) = 0
    <3>1. CASE n = 0
      <4> DEFINE none == [d \in Below(0) |-> powi(k, d) * v[d]]
      <4>1. Value(v, k, 0) = Sum(none, DOMAIN none) /\ DOMAIN none = {}
        BY <2>1 DEF Value, SumFunction, Sum
      <4> HIDE DEF none
      <4> QED
        BY <4>1, SumEmpty
    <3>2. CASE n # 0
      BY <3>2, ValueStep
    <3> QED
      BY <3>1, <3>2
  <2> QED
    BY <2>1, <2>2
<1>2. ASSUME NEW m \in Nat, m \in G, m < n PROVE m + 1 \in G
  <2> DEFINE S == Value(v, k, m)
             K == powi(k, m)
             T == Value(v, k, m + 1)
  <2>1. T = S + v[m] * K
    BY <1>2, ValueStep
  <2>2. S \in Below(K) /\ \A d \in Below(m) : Digit(S, k, d) = v[d]
    BY <1>2
  <2>3. K \in Nat \ {0} /\ powi(k, m + 1) = K * k /\ v[m] \in Below(k) /\ v[m] \in Nat
    BY <1>2, PowiStep, PowiPositive DEF Below
  <2>d. \A d \in Below(m) : Digit(T, k, d) = v[d]
    <3> SUFFICES ASSUME NEW d \in Below(m) PROVE Digit(T, k, d) = v[d]
      OBVIOUS
    <3> DEFINE L == powi(k, d)
               e == m - 1 - d
               E == powi(k, e)
    <3>1. d \in Nat /\ e \in Nat /\ m = d + (e + 1) /\ e + 1 \in Nat
      BY DEF Below
    <3>2. L \in Nat \ {0} /\ E \in Nat \ {0} /\ K = L * (E * k)
      <4>1. powi(k, d + (e + 1)) = powi(k, d) * powi(k, e + 1)
        BY <3>1, PowiAdd
      <4>2. powi(k, e + 1) = powi(k, e) * k
        BY <3>1, PowiStep
      <4> QED
        BY <3>1, <4>1, <4>2, PowiPositive
    <3>3. Digit(T, k, d) = (T \div L) % k /\ Digit(S, k, d) = (S \div L) % k
      BY DEF Digit
    <3>4. S \in Nat
      BY <2>2, <2>3 DEF Below
    <3> HIDE DEF L, e, E, S, K, T
    <3>5. T = S + ((v[m] * E) * k) * L
      <4>1. v[m] * (L * (E * k)) = ((v[m] * E) * k) * L
        BY <2>3, <3>2
      <4> QED
        BY <2>1, <3>2, <4>1
    <3>6. v[m] * E \in Int /\ (v[m] * E) * k \in Int
      BY <2>3, <3>2
    <3>7. T \div L = (S \div L) + (v[m] * E) * k
      <4> DEFINE z == (v[m] * E) * k
      <4>1. z \in Int /\ S \in Int /\ T = S + z * L
        BY <3>4, <3>5, <3>6
      <4> HIDE DEF z
      <4>2. (S + z * L) \div L = (S \div L) + z
        BY <3>2, <4>1, DivModShift
      <4> QED
        BY <4>1, <4>2 DEF z
    <3>8. ((S \div L) + (v[m] * E) * k) % k = (S \div L) % k
      <4>1. S \div L \in Int
        BY <3>2, <3>4, DivMod
      <4> QED
        BY <3>6, <4>1, DivModShift
    <3> QED
      BY <2>2, <3>3, <3>7, <3>8 DEF S
  <2>e. Digit(T, k, m) = v[m]
    <3>1. T = v[m] * K + S /\ S \in 0 .. K - 1
      BY <2>1, <2>2, <2>3 DEF Below
    <3>2. T \div K = v[m]
      <4> DEFINE w == v[m]
      <4>1. w \in Int /\ T = w * K + S
        BY <2>3, <3>1
      <4> HIDE DEF T, K, S, w
      <4>2. (w * K + S) \div K = w
        BY <2>3, <3>1, <4>1, DivModUnique
      <4> QED
        BY <4>1, <4>2 DEF w
    <3>3. Digit(T, k, m) = v[m] % k
      BY <3>2 DEF Digit
    <3>5. v[m] % k = v[m]
      <4> DEFINE w == v[m]
      <4>1. w \in 0 .. k - 1 /\ w = 0 * k + w
        BY <2>3 DEF Below
      <4> HIDE DEF w
      <4>2. (0 * k + w) % k = w
        BY <4>1, DivModUnique
      <4> QED
        BY <4>1, <4>2 DEF w
    <3> QED
      BY <3>3, <3>5
  <2>f. T \in Below(powi(k, m + 1))
    <3>1. S \in 0 .. K - 1 /\ v[m] + 1 <= k
      BY <2>2, <2>3 DEF Below
    <3> HIDE DEF T, K, S
    <3>2. (v[m] + 1) * K <= k * K /\ v[m] * K \in Nat
      BY <2>3, <3>1, ProductAtMost
    <3>3. (v[m] + 1) * K = v[m] * K + K /\ k * K = K * k
      BY <2>3
    <3>4. T \in Int /\ T >= 0 /\ T < K * k
      BY <2>1, <2>3, <3>1, <3>2, <3>3
    <3> QED
      BY <2>3, <3>4 DEF Below
  <2> HIDE DEF T, S, K
  <2>g. \A d \in Below(m + 1) : d \in Below(m) \/ d = m
    BY DEF Below
  <2> QED
    BY <2>d, <2>e, <2>f, <2>g DEF T
<1>3. \A m \in Nat : m \in G => m + 1 \in G
  <2>1. \A m \in Nat : ~(m < n) => m + 1 \in G
    OBVIOUS
  <2> QED
    BY <1>2, <2>1
<1> HIDE DEF G
<1>4. n \in G
  BY <1>1, <1>3, AllNaturals
<1> QED
  BY <1>4 DEF G

(* A number is that with its digits. *)
LEMMA ValueOfDigits ==
  ASSUME NEW k \in Nat \ {0}, NEW n \in Nat, NEW x \in Below(powi(k, n))
  PROVE  DigitsOf(x, k, n) \in [Below(n) -> Below(k)] /\ Value(DigitsOf(x, k, n), k, n) = x
<1> DEFINE v == DigitsOf(x, k, n)
           G == {m \in Nat : m <= n => Value(v, k, m) = x % powi(k, m)}
<1>0. x \in Nat /\ powi(k, n) \in Nat \ {0} /\ x < powi(k, n)
  BY PowiPositive DEF Below
<1>1. v \in [Below(n) -> Below(k)] /\ \A m \in Below(n) : v[m] = Digit(x, k, m)
  <2>1. \A d \in Below(n) : Digit(x, k, d) \in Below(k)
    <3>1. \A d \in Below(n) : d \in Nat
      BY DEF Below
    <3>2. x \in Int
      BY <1>0
    <3> QED
      BY <3>1, <3>2, DigitType
  <2>2. v = [d \in Below(n) |-> Digit(x, k, d)]
    BY DEF DigitsOf
  <2> HIDE DEF v
  <2> QED
    BY <2>1, <2>2
<1> HIDE DEF v
<1>2. 0 \in G
  <2>1. powi(k, 0) = 1 /\ x % 1 = 0
    BY <1>0, PowiStep
  <2>2. Value(v, k, 0) = 0
    <3>1. CASE n = 0
      <4> DEFINE none == [d \in Below(0) |-> powi(k, d) * v[d]]
      <4>1. Value(v, k, 0) = Sum(none, DOMAIN none) /\ DOMAIN none = {}
        BY DEF Value, SumFunction, Sum, Below
      <4> HIDE DEF none
      <4> QED
        BY <4>1, SumEmpty
    <3>2. CASE n # 0
      BY <1>1, <3>2, ValueStep
    <3> QED
      BY <3>1, <3>2
  <2> QED
    BY <2>1, <2>2
<1>3. ASSUME NEW m \in Nat, m \in G, m < n PROVE m + 1 \in G
  <2> DEFINE K == powi(k, m)
             q == x \div K
             u == q \div k
             r == x % K
  <2>1. Value(v, k, m + 1) = Value(v, k, m) + v[m] * K /\ Value(v, k, m) = r
    BY <1>1, <1>3, ValueStep
  <2>2. v[m] = q % k
    BY <1>1, <1>3 DEF Digit, Below
  <2>3. K \in Nat \ {0} /\ powi(k, m + 1) = K * k
    BY PowiPositive, PowiStep
  <2> HIDE DEF K
  <2>4. q \in Int /\ r \in 0 .. K - 1 /\ x = q * K + r
    <3>1. x \in Int
      BY <1>0
    <3> QED
      BY <2>3, <3>1, DivMod
  <2> HIDE DEF q, r
  <2>5. u \in Int /\ v[m] \in 0 .. k - 1 /\ q = u * k + v[m]
    BY <2>2, <2>4, DivMod
  <2> HIDE DEF u
  <2>6. x = u * (K * k) + (r + v[m] * K)
    <3>1. q * K = (u * k) * K + v[m] * K
      BY <2>3, <2>4, <2>5
    <3>2. (u * k) * K = u * (K * k)
      BY <2>3, <2>5
    <3> QED
      BY <2>3, <2>4, <2>5, <3>1, <3>2
  <2>7. r + v[m] * K \in 0 .. K * k - 1 /\ K * k \in Nat \ {0}
    <3>1. (v[m] + 1) * K <= k * K /\ v[m] * K \in Nat
      BY <2>3, <2>5, ProductAtMost
    <3>2. (v[m] + 1) * K = v[m] * K + K /\ k * K = K * k
      BY <2>3, <2>5
    <3> QED
      BY <2>3, <2>4, <3>1, <3>2
  <2>8. x % (K * k) = r + v[m] * K
    BY <2>5, <2>6, <2>7, DivModUnique
  <2> QED
    BY <2>1, <2>3, <2>8
<1>4. \A m \in Nat : m \in G => m + 1 \in G
  <2>1. \A m \in Nat : ~(m < n) => m + 1 \in G
    OBVIOUS
  <2> QED
    BY <1>3, <2>1
<1>5. x % powi(k, n) = x
  <2>1. x = 0 * powi(k, n) + x /\ x \in 0 .. powi(k, n) - 1
    BY <1>0
  <2> QED
    BY <1>0, <2>1, DivModUnique
<1> HIDE DEF G
<1>6. n \in G
  BY <1>2, <1>4, AllNaturals
<1> QED
  BY <1>1, <1>5, <1>6 DEF G, v

-----------------------------------------------------------------------------
(* The permutation patterns. *)
(* One destination of every source, and a source of every destination. *)
Permutes(c) ==
  /\ \A src \in Nodes(c) : \E dest \in Nodes(c) : Destinations(c, src) = {dest}
  /\ \A dest \in Nodes(c) : \E src \in Nodes(c) : dest \in Destinations(c, src)
LEMMA PermutesIsBijective ==
  ASSUME NEW c, Permutes(c)
  PROVE  /\ \A src \in Nodes(c) : Cardinality(Destinations(c, src)) = 1
         /\ UNION {Destinations(c, src) : src \in Nodes(c)} = Nodes(c)
<1>1. \A src \in Nodes(c) : Cardinality(Destinations(c, src)) = 1
  BY FS_Singleton DEF Permutes
<1>2. ASSUME NEW dest \in UNION {Destinations(c, src) : src \in Nodes(c)} PROVE dest \in Nodes(c)
  BY <1>2 DEF Permutes
<1>3. ASSUME NEW dest \in Nodes(c) PROVE dest \in UNION {Destinations(c, src) : src \in Nodes(c)}
  BY <1>3 DEF Permutes
<1> QED
  BY <1>1, <1>2, <1>3

LEMMA BitsAre ==
  ASSUME NEW c, Sized(c), c.traffic \in BitPatterns
  PROVE  Bits(c) \in 0 .. 30 /\ powi(2, Bits(c)) = c.nodes /\ c.nodes \in Nat \ {0}
<1>1. \E b \in 0 .. 30 : powi(2, b) = c.nodes
  BY DEF Sized
<1>2. Bits(c) \in 0 .. 30 /\ powi(2, Bits(c)) = c.nodes
  BY <1>1 DEF Bits
<1>3. 2 \in Nat \ {0} /\ Bits(c) \in Nat
  BY <1>2
<1>4. powi(2, Bits(c)) \in Nat \ {0}
  BY <1>3, PowiPositive
<1> QED
  BY <1>2, <1>4

LEMMA BitcompPermutes ==
  ASSUME NEW c, Sized(c), c.traffic = "bitcomp"
  PROVE  Permutes(c)
<1>1. c.nodes \in Nat \ {0}
  BY BitsAre DEF BitPatterns
<1>2. \A src : Destinations(c, src) = {c.nodes - 1 - src}
  BY DEF Destinations, bitcomp
<1>3. \A src \in Nodes(c) : c.nodes - 1 - src \in Nodes(c) /\ src = c.nodes - 1 - (c.nodes - 1 - src)
  BY <1>1 DEF Nodes, Below
<1> QED
  BY <1>2, <1>3 DEF Permutes

LEMMA TransposePermutes ==
  ASSUME NEW c, Sized(c), c.traffic = "transpose"
  PROVE  Permutes(c)
<1> DEFINE h == Bits(c) \div 2
           half == powi(2, h)
           T(x) == x \div half + (x % half) * half
<1>1. Bits(c) \in Nat /\ powi(2, Bits(c)) = c.nodes /\ c.nodes \in Nat \ {0} /\ Bits(c) % 2 = 0
  BY BitsAre DEF BitPatterns, Sized
<1>2. h \in Nat /\ Bits(c) = h + h
  BY <1>1
<1>3. half \in Nat \ {0} /\ c.nodes = half * half
  <2> HIDE DEF h
  <2>1. 2 \in Nat \ {0}
    OBVIOUS
  <2>2. powi(2, h) \in Nat \ {0} /\ powi(2, h + h) = powi(2, h) * powi(2, h)
    BY <1>2, <2>1, PowiAdd, PowiPositive
  <2> QED
    BY <1>1, <1>2, <2>2
<1>4. \A src : Destinations(c, src) = {T(src)}
  BY DEF Destinations, transpose
<1> HIDE DEF h, half
<1>5. ASSUME NEW x \in Nodes(c) PROVE T(x) \in Nodes(c) /\ T(T(x)) = x
  <2> DEFINE q == x \div half
             r == x % half
             y == r * half + q
  <2>1. x \in Nat /\ x < half * half
    BY <1>3 DEF Nodes, Below
  <2>2. q \in 0 .. half - 1 /\ r \in 0 .. half - 1 /\ x = q * half + r
    <3>1. q \in Nat /\ (x < half * half <=> q < half)
      BY <1>3, <2>1, DivBelow
    <3>2. r \in 0 .. half - 1 /\ x = q * half + r
      <4>1. x \in Int /\ half \in Nat \ {0}
        BY <1>3, <2>1
      <4> QED
        BY <4>1, DivMod
    <3> QED
      BY <1>3, <2>1, <3>1, <3>2
  <2>3. T(x) = q + r * half
    OBVIOUS
  <2> HIDE DEF q, r
  <2>4. T(x) = y
    BY <1>3, <2>2, <2>3
  <2>5. y \div half = r /\ y % half = q
    BY <1>3, <2>2, DivModUnique
  <2>6. y \in Nat /\ y < half * half
    <3>1. (r + 1) * half <= half * half /\ r * half \in Nat
      BY <1>3, <2>2, ProductAtMost
    <3>2. (r + 1) * half = r * half + half
      BY <1>3, <2>2
    <3> QED
      BY <1>3, <2>2, <3>1, <3>2
  <2>7. T(y) = r + q * half
    BY <2>5
  <2> HIDE DEF y
  <2>8. T(y) = x
    BY <1>3, <2>2, <2>7
  <2> QED
    BY <1>3, <2>4, <2>6, <2>8 DEF Nodes, Below
<1> HIDE DEF T
<1> QED
  BY <1>4, <1>5 DEF Permutes

(* The destination of a pattern that computes it digit by digit. *)
LEMMA ValueAs ==
  ASSUME NEW k \in Nat \ {0}, NEW n \in Nat, NEW w \in [Below(n) -> Below(k)], NEW x, NEW f,
         f = [d \in Below(n) |-> powi(k, d) * w[d]]
  PROVE  SumFunction(f) = Value(w, k, n)
BY DEF Value

LEMMA BitrevPermutes ==
  ASSUME NEW c, Sized(c), c.traffic = "bitrev"
  PROVE  Permutes(c)
<1> DEFINE b == Bits(c)
           W(x) == [i \in Below(b) |-> Digit(x, 2, b - 1 - i)]
<1>1. b \in Nat /\ powi(2, b) = c.nodes /\ Nodes(c) = Below(powi(2, b))
  BY BitsAre DEF BitPatterns, Nodes
<1> HIDE DEF b
<1>2. \A i \in Below(b) : b - 1 - i \in Below(b) /\ b - 1 - (b - 1 - i) = i /\ b - 1 - i \in Nat
  BY <1>1 DEF Below
<1>3. ASSUME NEW x \in Nodes(c) PROVE W(x) \in [Below(b) -> Below(2)]
  <2>1. x \in Int
    BY DEF Nodes, Below
  <2>2. \A i \in Below(b) : Digit(x, 2, b - 1 - i) \in Below(2)
    BY <1>2, <2>1, DigitType
  <2> QED
    BY <2>2
<1>4. ASSUME NEW x \in Nodes(c) PROVE Destinations(c, x) = {Value(W(x), 2, b)}
  <2>1. Destinations(c, x) = {SumFunction([i \in Below(b) |-> powi(2, i) * Digit(x, 2, b - 1 - i)])}
    BY DEF Destinations, bitrev, b
  <2>2. [i \in Below(b) |-> powi(2, i) * Digit(x, 2, b - 1 - i)] = [i \in Below(b) |-> powi(2, i) * W(x)[i]]
    OBVIOUS
  <2> HIDE DEF W
  <2> QED
    BY <2>1, <2>2 DEF Value
<1>5. ASSUME NEW x \in Nodes(c) PROVE Value(W(x), 2, b) \in Nodes(c)
  <2> HIDE DEF W
  <2> QED
    BY <1>1, <1>3, ValueDigits
<1>6. ASSUME NEW y \in Nodes(c) PROVE \E x \in Nodes(c) : Value(W(x), 2, b) = y
  <2> DEFINE v == DigitsOf(y, 2, b)
             u == [i \in Below(b) |-> v[b - 1 - i]]
             x == Value(u, 2, b)
  <2>1. v \in [Below(b) -> Below(2)] /\ Value(v, 2, b) = y
    BY <1>1, ValueOfDigits
  <2> HIDE DEF v
  <2>2. u \in [Below(b) -> Below(2)]
    BY <1>2, <2>1
  <2>3. x \in Nodes(c) /\ \A i \in Below(b) : Digit(x, 2, i) = u[i]
    <3> HIDE DEF u
    <3> QED
      BY <1>1, <2>2, ValueDigits
  <2> HIDE DEF x
  <2>4. \A i \in Below(b) : Digit(x, 2, b - 1 - i) = v[i]
    BY <1>2, <2>3
  <2>5. W(x) = v
    BY <2>1, <2>4
  <2> QED
    BY <2>1, <2>3, <2>5
<1> HIDE DEF W
<1> QED
  BY <1>4, <1>5, <1>6 DEF Permutes

LEMMA ShufflePermutes ==
  ASSUME NEW c, Sized(c), c.traffic = "shuffle"
  PROVE  Permutes(c)
<1> DEFINE N == c.nodes
           T(x) == ((2 * x) % N) + (2 * x) \div N
<1>1. N \in Nat \ {0} /\ (N = 1 \/ \E m \in Nat \ {0} : N = 2 * m)
  <2>1. Bits(c) \in Nat /\ powi(2, Bits(c)) = N /\ N \in Nat \ {0}
    BY BitsAre DEF BitPatterns
  <2>2. CASE Bits(c) = 0
    BY <2>1, <2>2, PowiStep
  <2>3. CASE Bits(c) # 0
    <3> DEFINE j == Bits(c) - 1
    <3>1. j \in Nat /\ Bits(c) = j + 1
      BY <2>1, <2>3
    <3> HIDE DEF j
    <3>0. 2 \in Nat \ {0}
      OBVIOUS
    <3>2. powi(2, j + 1) = powi(2, j) * 2 /\ powi(2, j) \in Nat \ {0}
      BY <3>0, <3>1, PowiStep, PowiPositive
    <3> QED
      BY <2>1, <3>1, <3>2
  <2> QED
    BY <2>2, <2>3
<1>2. \A src : Destinations(c, src) = {T(src)}
  BY DEF Destinations, shuffle
<1>3. Nodes(c) = 0 .. N - 1
  BY DEF Nodes, Below
<1> HIDE DEF N
<1>4. ASSUME NEW x \in 0 .. N - 1 PROVE T(x) = IF 2 * x < N THEN 2 * x ELSE 2 * x - N + 1
  <2>1. CASE 2 * x < N
    <3>1. (0 * N + 2 * x) \div N = 0 /\ (0 * N + 2 * x) % N = 2 * x
      BY <1>1, <2>1, DivModUnique
    <3> QED
      BY <1>1, <2>1, <3>1
  <2>2. CASE ~(2 * x < N)
    <3> DEFINE r == 2 * x - N
    <3>1. r \in 0 .. N - 1 /\ 2 * x = 1 * N + r
      BY <1>1, <2>2
    <3> HIDE DEF r
    <3>2. (1 * N + r) \div N = 1 /\ (1 * N + r) % N = r
      BY <1>1, <3>1, DivModUnique
    <3> QED
      BY <2>2, <3>1, <3>2 DEF r
  <2> QED
    BY <2>1, <2>2
<1> HIDE DEF T
<1>5. CASE N = 1
  <2>1. 0 .. N - 1 = {0} /\ T(0) = 0
    BY <1>4, <1>5
  <2> QED
    BY <1>2, <1>3, <2>1 DEF Permutes
<1>6. ASSUME NEW m \in Nat \ {0}, N = 2 * m PROVE Permutes(c)
  <2>1. \A x \in 0 .. N - 1 : T(x) \in 0 .. N - 1
    BY <1>4, <1>6
  <2>2. ASSUME NEW y \in 0 .. N - 1 PROVE \E x \in 0 .. N - 1 : T(x) = y
    <3>1. PICK z \in Nat : y = 2 * z \/ y = 2 * z + 1
      <4>1. y \div 2 \in Nat /\ y % 2 \in 0 .. 1 /\ y = (y \div 2) * 2 + (y % 2)
        OBVIOUS
      <4> QED
        BY <4>1
    <3>2. CASE y = 2 * z
      <4>1. z \in 0 .. N - 1 /\ 2 * z < N
        BY <1>6, <3>2
      <4> QED
        BY <1>4, <3>2, <4>1
    <3>3. CASE y = 2 * z + 1
      <4>1. z + m \in 0 .. N - 1 /\ ~(2 * (z + m) < N) /\ 2 * (z + m) - N + 1 = y
        BY <1>6, <3>3
      <4>2. T(z + m) = y
        BY <1>4, <4>1
      <4> QED
        BY <4>1, <4>2
    <3> QED
      BY <3>1, <3>2, <3>3
  <2>3. \A x \in Nodes(c) : T(x) \in Nodes(c) /\ Destinations(c, x) = {T(x)}
    BY <1>2, <1>3, <2>1
  <2>4. \A y \in Nodes(c) : \E x \in Nodes(c) : T(x) = y
    BY <1>3, <2>2
  <2> QED
    BY <2>3, <2>4 DEF Permutes
<1> QED
  BY <1>1, <1>5, <1>6

(* Digits moved on by any number are moved back by it. *)
LEMMA MovedBack ==
  ASSUME NEW k \in Nat \ {0}, NEW by \in Int, NEW a \in Below(k)
  PROVE  /\ (a + by) % k \in Below(k)
         /\ (a - by) % k \in Below(k) /\ (((a - by) % k) + by) % k = a
<1> DEFINE s == a - by
           q == s \div k
           r == s % k
           t == a + by
           z == -q
<1>1. a \in 0 .. k - 1 /\ s \in Int /\ t \in Int
  BY DEF Below
<1>2. t % k \in 0 .. k - 1
  <2> HIDE DEF t
  <2> QED
    BY <1>1, DivMod
<1>3. q \in Int /\ r \in 0 .. k - 1 /\ s = q * k + r
  <2> HIDE DEF s
  <2> QED
    BY <1>1, DivMod
<1>4. r + by = z * k + a /\ z \in Int
  <2> HIDE DEF q, r
  <2>1. (-q) * k = -(q * k) /\ q * k \in Int
    BY <1>3
  <2> QED
    BY <1>1, <1>3, <2>1
<1> HIDE DEF q, r, s, t, z
<1>5. (z * k + a) % k = a
  BY <1>1, <1>4, DivModUnique
<1> QED
  BY <1>2, <1>3, <1>4, <1>5 DEF Below, r, s, t

LEMMA MovePermutes ==
  ASSUME NEW c, Sized(c), c.traffic \in DigitPatterns, NEW by \in Int,
         \A src : Destinations(c, src) = MoveDigits(c, src, by)
  PROVE  Permutes(c)
<1> DEFINE k == c.xr * c.k
           n == c.n
           W(x) == [d \in Below(n) |-> (Digit(x, k, d) + by) % k]
<1>1. k \in Nat \ {0} /\ n \in Nat /\ Nodes(c) = Below(powi(k, n))
  <2>1. c.xr \in Nat \ {0} /\ c.k \in Nat \ {0} /\ c.n \in Nat /\ c.nodes = powi(c.xr * c.k, c.n)
    BY DEF Sized
  <2>2. 1 * c.k <= c.xr * c.k /\ c.xr * c.k \in Nat
    BY <2>1, ProductAtMost
  <2> QED
    BY <2>1, <2>2 DEF Nodes
<1>2. \A x : Destinations(c, x) = {SumFunction([d \in Below(n) |-> powi(k, d) * ((Digit(x, k, d) + by) % k)])}
  BY DEF MoveDigits
<1> HIDE DEF k, n
<1>3. ASSUME NEW x \in Nodes(c) PROVE \A d \in Below(n) : Digit(x, k, d) \in Below(k)
  <2>1. x \in Int /\ \A d \in Below(n) : d \in Nat
    BY DEF Nodes, Below
  <2> QED
    BY <1>1, <2>1, DigitType
<1>4. ASSUME NEW x \in Nodes(c) PROVE W(x) \in [Below(n) -> Below(k)]
  <2>1. \A d \in Below(n) : (Digit(x, k, d) + by) % k \in Below(k)
    BY <1>1, <1>3, MovedBack
  <2> QED
    BY <2>1
<1>5. ASSUME NEW x \in Nodes(c) PROVE Destinations(c, x) = {Value(W(x), k, n)}
  <2>1. [d \in Below(n) |-> powi(k, d) * ((Digit(x, k, d) + by) % k)] = [d \in Below(n) |-> powi(k, d) * W(x)[d]]
    OBVIOUS
  <2> HIDE DEF W
  <2> QED
    BY <1>2, <2>1 DEF Value
<1>6. ASSUME NEW x \in Nodes(c) PROVE Value(W(x), k, n) \in Nodes(c)
  <2>1. W(x) \in [Below(n) -> Below(k)]
    BY <1>4
  <2> HIDE DEF W
  <2> QED
    BY <1>1, <2>1, ValueDigits
<1>7. ASSUME NEW y \in Nodes(c) PROVE \E x \in Nodes(c) : Value(W(x), k, n) = y
  <2> DEFINE v == DigitsOf(y, k, n)
             u == [d \in Below(n) |-> (v[d] - by) % k]
             x == Value(u, k, n)
  <2>1. v \in [Below(n) -> Below(k)] /\ Value(v, k, n) = y
    BY <1>1, ValueOfDigits
  <2> HIDE DEF v
  <2>2. \A d \in Below(n) : u[d] \in Below(k) /\ (u[d] + by) % k = v[d]
    <3>1. \A d \in Below(n) : v[d] \in Below(k)
      BY <2>1
    <3> QED
      BY <1>1, <3>1, MovedBack
  <2>3. u \in [Below(n) -> Below(k)]
    BY <2>2
  <2> HIDE DEF u
  <2>4. x \in Nodes(c) /\ \A d \in Below(n) : Digit(x, k, d) = u[d]
    BY <1>1, <2>3, ValueDigits
  <2> HIDE DEF x
  <2>5. \A d \in Below(n) : (Digit(x, k, d) + by) % k = v[d]
    BY <2>2, <2>4
  <2>6. W(x) = v
    BY <2>1, <2>5
  <2> QED
    BY <2>1, <2>4, <2>6
<1> HIDE DEF W
<1> QED
  BY <1>5, <1>6, <1>7 DEF Permutes

LEMMA PatternsPermute ==
  ASSUME NEW c, Sized(c), c.traffic \in PermutationPatterns
  PROVE  Permutes(c)
<1>1. CASE c.traffic = "tornado"
  <2> DEFINE by == (c.xr * c.k + 1) \div 2 - 1
  <2>1. \A src : Destinations(c, src) = MoveDigits(c, src, by)
    BY <1>1 DEF Destinations, tornado
  <2>2. by \in Int
    <3>1. c.xr \in Nat /\ c.k \in Nat
      BY <1>1 DEF Sized, DigitPatterns
    <3>2. c.xr * c.k + 1 \in Int
      BY <3>1
    <3> QED
      BY <3>2
  <2> HIDE DEF by
  <2> QED
    BY <1>1, <2>1, <2>2, MovePermutes DEF DigitPatterns
<1>2. CASE c.traffic = "neighbor"
  <2>1. \A src : Destinations(c, src) = MoveDigits(c, src, 1)
    BY <1>2 DEF Destinations, neighbor
  <2> QED
    BY <1>2, <2>1, MovePermutes DEF DigitPatterns
<1> QED
  BY <1>1, <1>2, BitcompPermutes, TransposePermutes, BitrevPermutes, ShufflePermutes DEF PermutationPatterns, BitPatterns, DigitPatterns

(* The options of a run stay as they are. *)
Known == config \in Configs
LEMMA ConfigStays == Spec => []Known
<1>1. Init => Known
  BY DEF Init, Known
<1>2. Known /\ [Next]_vars => Known'
  <2> SUFFICES ASSUME config \in Configs, [Next]_vars PROVE config' \in Configs
    BY DEF Known
  <2>1. CASE UNCHANGED vars
    BY <2>1 DEF vars
  <2>2. CASE Next
    BY <2>2 DEF Next, Hop, Leave
  <2> QED
    BY <2>1, <2>2
<1> QED
  BY <1>1, <1>2, PTL DEF Spec

LEMMA SizesPermute ==
  ASSUME config \in Configs
  PROVE  PermutationTraffic
<1> SUFFICES ASSUME config.traffic \in PermutationPatterns
             PROVE  /\ \A src \in Nodes(config) : Cardinality(Destinations(config, src)) = 1
                    /\ UNION {Destinations(config, src) : src \in Nodes(config)} = Nodes(config)
  BY DEF PermutationTraffic, Bijective
<1>1. Permutes(config)
  BY PatternsPermute, SizesFit
<1> QED
  BY <1>1, PermutesIsBijective

(* PermutationTraffic for networks of every size: bitcomp, transpose,      *)
(* bitrev, shuffle, tornado and neighbor give every node the packets of    *)
(* exactly one source, for the sizes their constructors accept.            *)
THEOREM PatternsBalance == Spec => []PermutationTraffic
<1>1. Known => PermutationTraffic
  BY SizesPermute DEF Known
<1>2. Spec => []Known
  BY ConfigStays
<1> QED
  BY <1>1, <1>2, PTL

-----------------------------------------------------------------------------
(* Wiring. *)
(* The ports of all routers, and the channel of one.                       *)
Ports(f) == UNION {{<<r, p>> : p \in DOMAIN f[r]} : r \in DOMAIN f}
At(f, e) == f[e[1]][e[2]]

(* No two output ports have one channel, and peer gives for every input    *)
(* port the output port whose channel it has, no output port twice.        *)
Matched(out, in, peer) ==
  /\ IsFiniteSet(Ports(out)) /\ Ports(in) = Ports(out)
  /\ \A e, g \in Ports(out) : At(out, e) = At(out, g) => e = g
  /\ peer \in [Ports(out) -> Ports(out)]
  /\ \A e \in Ports(out) : At(in, e) = At(out, peer[e])
  /\ \A e, g \in Ports(out) : peer[e] = peer[g] => e = g

LEMMA OneToOne ==
  ASSUME NEW S, NEW T, IsFiniteSet(S), NEW f \in [S -> T],
         \A x, y \in S : f[x] = f[y] => x = y, \A t \in T : \E x \in S : f[x] = t
  PROVE  IsFiniteSet(T) /\ Cardinality(T) = Cardinality(S)
<1>1. f \in Bijection(S, T)
  BY DEF Bijection, Injection, Surjection, IsInjective
<1> QED
  BY <1>1, FS_Bijection DEF ExistsBijection

LEMMA OntoItself ==
  ASSUME NEW S, IsFiniteSet(S), NEW f \in [S -> S], \A x, y \in S : f[x] = f[y] => x = y
  PROVE  \A t \in S : \E x \in S : f[x] = t
<1>1. f \in Injection(S, S)
  BY DEF Injection, IsInjective
<1>2. f \in Surjection(S, S)
  BY <1>1, FS_Injection
<1> QED
  BY <1>2 DEF Surjection

(* What is so matched is joined well. *)
LEMMA MatchedJoined ==
  ASSUME NEW c, NEW out, NEW in, NEW peer, Matched(out, in, peer)
  PROVE  /\ WellJoined(Joined(c, out, in), Starts(out))
         /\ \A e \in Ports(out) : At(out, e) \in DOMAIN Joined(c, out, in).sinks
<1> DEFINE P == Ports(out)
           net == Joined(c, out, in)
           ends == UNION {{<<in[r][p], r, p>> : p \in DOMAIN in[r]} : r \in DOMAIN in}
           start == [e \in P |-> <<At(out, e), e[1], e[2]>>]
           link == [e \in P |-> At(out, e)]
           links == {At(out, e) : e \in P}
<1>1. \A e \in P : e = <<e[1], e[2]>>
  BY DEF Ports
<1>2. net.sinks = Sinks(ends)
  BY DEF Joined
<1>3. Starts(out) = {<<At(out, e), e[1], e[2]>> : e \in P}
  <2>1. ASSUME NEW s \in Starts(out) PROVE s \in {<<At(out, e), e[1], e[2]>> : e \in P}
    <3>1. PICK r \in DOMAIN out : \E p \in DOMAIN out[r] : s = <<out[r][p], r, p>>
      BY DEF Starts
    <3>p. PICK p \in DOMAIN out[r] : s = <<out[r][p], r, p>>
      BY <3>1
    <3>2. <<r, p>> \in P
      BY DEF Ports
    <3> QED
      BY <3>p, <3>2 DEF At
  <2>2. ASSUME NEW e \in P PROVE <<At(out, e), e[1], e[2]>> \in Starts(out)
    <3>1. PICK r \in DOMAIN out : \E p \in DOMAIN out[r] : e = <<r, p>>
      BY DEF Ports
    <3>p. PICK p \in DOMAIN out[r] : e = <<r, p>>
      BY <3>1
    <3> QED
      BY <3>p DEF Starts, At
  <2> QED
    BY <2>1, <2>2
<1>4. ends = {<<At(in, e), e[1], e[2]>> : e \in P}
  <2>0. P = Ports(in)
    BY DEF Matched
  <2>1. ASSUME NEW s \in ends PROVE s \in {<<At(in, e), e[1], e[2]>> : e \in P}
    <3>1. PICK r \in DOMAIN in : \E p \in DOMAIN in[r] : s = <<in[r][p], r, p>>
      OBVIOUS
    <3>p. PICK p \in DOMAIN in[r] : s = <<in[r][p], r, p>>
      BY <3>1
    <3>2. <<r, p>> \in Ports(in)
      BY DEF Ports
    <3> QED
      BY <2>0, <3>p, <3>2 DEF At
  <2>2. ASSUME NEW e \in P PROVE <<At(in, e), e[1], e[2]>> \in ends
    <3>1. PICK r \in DOMAIN in : \E p \in DOMAIN in[r] : e = <<r, p>>
      BY <2>0 DEF Ports
    <3>p. PICK p \in DOMAIN in[r] : e = <<r, p>>
      BY <3>1
    <3> QED
      BY <3>p DEF At
  <2> QED
    BY <2>1, <2>2
<1> HIDE DEF P, ends, net
<1>5. /\ IsFiniteSet(P) /\ \A e, g \in P : At(out, e) = At(out, g) => e = g
      /\ peer \in [P -> P] /\ \A e \in P : At(in, e) = At(out, peer[e])
      /\ \A e, g \in P : peer[e] = peer[g] => e = g
  BY DEF Matched, P
<1>6. {s[1] : s \in Starts(out)} = links
  <2>1. \A s \in Starts(out) : \E e \in P : s[1] = At(out, e)
    BY <1>3
  <2>2. \A e \in P : \E s \in Starts(out) : s[1] = At(out, e)
    <3> SUFFICES ASSUME NEW e \in P PROVE \E s \in Starts(out) : s[1] = At(out, e)
      OBVIOUS
    <3>1. <<At(out, e), e[1], e[2]>> \in Starts(out)
      BY <1>3
    <3>2. <<At(out, e), e[1], e[2]>>[1] = At(out, e)
      OBVIOUS
    <3> QED
      BY <3>1, <3>2
  <2> QED
    BY <2>1, <2>2
<1>7. Cardinality(Starts(out)) = Cardinality(P)
  <2>1. start \in [P -> Starts(out)] /\ \A t \in Starts(out) : \E e \in P : start[e] = t
    BY <1>3
  <2>2. \A e, g \in P : start[e] = start[g] => e = g
    BY <1>1, <1>5
  <2> HIDE DEF start
  <2> QED
    BY <1>5, <2>1, <2>2, OneToOne
<1>8. Cardinality(links) = Cardinality(P)
  <2>1. link \in [P -> links] /\ \A t \in links : \E e \in P : link[e] = t
    OBVIOUS
  <2>2. \A e, g \in P : link[e] = link[g] => e = g
    BY <1>5
  <2> HIDE DEF link, links
  <2> QED
    BY <1>5, <2>1, <2>2, OneToOne
<1>9. \A t \in P : \E e \in P : peer[e] = t
  BY <1>5, OntoItself
<1>10. {s[1] : s \in ends} = links
  <2>a. \A s \in ends : \E e \in P : s[1] = At(in, e)
    BY <1>4
  <2>b. \A e \in P : \E s \in ends : s[1] = At(in, e)
    <3> SUFFICES ASSUME NEW e \in P PROVE \E s \in ends : s[1] = At(in, e)
      OBVIOUS
    <3>1. <<At(in, e), e[1], e[2]>> \in ends
      BY <1>4
    <3>2. <<At(in, e), e[1], e[2]>>[1] = At(in, e)
      OBVIOUS
    <3> QED
      BY <3>1, <3>2
  <2>1. {s[1] : s \in ends} = {At(in, e) : e \in P}
    BY <2>a, <2>b
  <2>2. \A e \in P : At(in, e) \in links
    BY <1>5
  <2>3. \A t \in P : \E e \in P : At(in, e) = At(out, t)
    BY <1>5, <1>9
  <2> QED
    BY <2>1, <2>2, <2>3
<1>11. DOMAIN net.sinks = links
  BY <1>2, <1>10 DEF Sinks
<1>12. ASSUME NEW l \in links PROVE Cardinality(net.sinks[l]) = 1
  <2>1. PICK t \in P : l = At(out, t)
    OBVIOUS
  <2>2. PICK e \in P : peer[e] = t
    BY <1>9
  <2>3. \A g \in P : At(in, g) = l => g = e
    BY <1>5, <2>1, <2>2
  <2>4. At(in, e) = l
    BY <1>5, <2>1, <2>2
  <2>5. net.sinks[l] = {[at |-> s[2], in |-> s[3]] : s \in {f \in ends : f[1] = l}}
    BY <1>2, <1>10 DEF Sinks
  <2>6. {f \in ends : f[1] = l} = {<<l, e[1], e[2]>>}
    BY <1>4, <2>3, <2>4
  <2>7. net.sinks[l] = {[at |-> e[1], in |-> e[2]]}
    BY <2>5, <2>6, ZenonT(40)
  <2> QED
    BY <2>7, FS_Singleton
<1> QED
  BY <1>6, <1>7, <1>8, <1>11, <1>12 DEF WellJoined, net, P, links

(* The networks that are matched, and have a channel for every node. *)
OutputsOf(c) == [r \in Routers(c) |-> Outputs(c, r)]
InputsOf(c) == [r \in Routers(c) |-> Inputs(c, r)]
Meets(c, peer) ==
  /\ Matched(OutputsOf(c), InputsOf(c), peer)
  /\ \A i \in Nodes(c) : \E e \in Ports(OutputsOf(c)) : At(OutputsOf(c), e) = NodeLink(i)
LEMMA MeetsWired ==
  ASSUME NEW c \in Configs, NEW peer, Meets(c, peer)
  PROVE  WellWired[c]
<1>1. Built[c] = Joined(c, OutputsOf(c), InputsOf(c))
  BY DEF Built, OutputsOf, InputsOf
<1>2. Built[c].out = OutputsOf(c)
  BY <1>1 DEF Joined
<1>3. WellJoined(Built[c], Starts(Built[c].out))
  BY <1>1, <1>2, MatchedJoined DEF Meets
<1>4. \A i \in Nodes(c) : NodeLink(i) \in DOMAIN Built[c].sinks
  BY <1>1, MatchedJoined DEF Meets
<1> QED
  BY <1>3, <1>4 DEF WellWired

(* Networks all of whose routers have the same ports. *)
Uniform(f, R, Q) == DOMAIN f = R /\ \A r \in R : DOMAIN f[r] = Q
LEMMA UniformPorts ==
  ASSUME NEW f, NEW R, NEW Q, Uniform(f, R, Q)
  PROVE  Ports(f) = R \X Q
<1>1. DOMAIN f = R /\ \A r \in R : DOMAIN f[r] = Q
  BY DEF Uniform
<1>2. ASSUME NEW e \in Ports(f) PROVE e \in R \X Q
  <2>1. PICK r \in DOMAIN f : \E p \in DOMAIN f[r] : e = <<r, p>>
    BY DEF Ports
  <2>p. PICK p \in DOMAIN f[r] : e = <<r, p>>
    BY <2>1
  <2> QED
    BY <1>1, <2>p
<1>3. ASSUME NEW e \in R \X Q PROVE e \in Ports(f)
  <2>1. PICK r \in R, p \in Q : e = <<r, p>>
    OBVIOUS
  <2>2. r \in DOMAIN f /\ p \in DOMAIN f[r]
    BY <1>1
  <2> QED
    BY <2>1, <2>2 DEF Ports
<1> QED
  BY <1>2, <1>3

(* Ports that are each other's other end. *)
LEMMA PeersMeet ==
  ASSUME NEW c, NEW P, IsFiniteSet(P), Ports(OutputsOf(c)) = P, Ports(InputsOf(c)) = P,
         \A e, g \in P : At(OutputsOf(c), e) = At(OutputsOf(c), g) => e = g,
         NEW peer, peer = [e \in P |-> peer[e]], NEW back, 
         \A e \in P : peer[e] \in P /\ back[peer[e]] = e /\ At(InputsOf(c), e) = At(OutputsOf(c), peer[e]),
         \A i \in Nodes(c) : \E e \in P : At(OutputsOf(c), e) = NodeLink(i)
  PROVE  Meets(c, peer)
<1>1. peer \in [P -> P]
  OBVIOUS
<1>2. \A e, g \in P : peer[e] = peer[g] => e = g
  OBVIOUS
<1> QED
  BY <1>1, <1>2 DEF Meets, Matched

-----------------------------------------------------------------------------
(* Mesh and torus.                                                         *)
LEMMA OneOnOneBack ==
  ASSUME NEW k \in Nat \ {0}, NEW a \in Below(k)
  PROVE  /\ (a + 1) % k \in Below(k) /\ (a + k - 1) % k \in Below(k)
         /\ (((a + 1) % k) + k - 1) % k = a /\ (((a + k - 1) % k) + 1) % k = a
<1>1. a \in Int /\ k - 1 \in Int /\ 1 \in Int
  BY DEF Below
<1>2. (a + 1) % k \in Below(k) /\ (a + (k - 1)) % k \in Below(k)
  BY <1>1, MovedBack
<1>3. (((a - 1) % k) + 1) % k = a /\ (((a - (k - 1)) % k) + (k - 1)) % k = a
  BY <1>1, MovedBack
<1>4. (a - 1) % k = (a + k - 1) % k
  <2> DEFINE x == a - 1
  <2>1. x \in Int /\ x + k = a + k - 1
    BY <1>1
  <2> HIDE DEF x
  <2>2. (x + k) % k = x % k
    BY <2>1, DivModNext
  <2> QED
    BY <2>1, <2>2 DEF x
<1>5. (a - (k - 1)) % k = (a + 1) % k
  <2> DEFINE x == a - (k - 1)
  <2>1. x \in Int /\ x + k = a + 1
    BY <1>1
  <2> HIDE DEF x
  <2>2. (x + k) % k = x % k
    BY <2>1, DivModNext
  <2> QED
    BY <2>1, <2>2 DEF x
<1>6. \A g : g \in Int => g + (k - 1) = g + k - 1
  BY <1>1
<1>7. (a + 1) % k \in Int /\ (a + k - 1) % k \in Below(k)
  <2>1. a + (k - 1) = a + k - 1
    BY <1>1
  <2> QED
    BY <1>2, <2>1 DEF Below
<1> QED
  BY <1>2, <1>3, <1>4, <1>5, <1>6, <1>7

LEMMA NodesAround ==
  ASSUME NEW c, CubeSized(c), NEW r \in KNCubeRouters(c), NEW dim \in Below(c.n)
  PROVE  /\ RightNode(c, r, dim) \in KNCubeRouters(c) /\ LeftNode(c, r, dim) \in KNCubeRouters(c)
         /\ LeftNode(c, RightNode(c, r, dim), dim) = r
         /\ RightNode(c, LeftNode(c, r, dim), dim) = r
<1> DEFINE k == c.k
           n == c.n
           g == Digit(r, k, dim)
           a == (g + 1) % k
           b == (g + k - 1) % k
<1>1. k \in Nat \ {0} /\ n \in Nat /\ KNCubeRouters(c) = Below(powi(k, n))
  BY DEF CubeSized, KNCubeRouters
<1>2. RightNode(c, r, dim) = WithDigit(r, k, dim, a) /\ LeftNode(c, r, dim) = WithDigit(r, k, dim, b)
  BY DEF RightNode, LeftNode
<1>3. \A x : /\ LeftNode(c, x, dim) = WithDigit(x, k, dim, (Digit(x, k, dim) + k - 1) % k)
             /\ RightNode(c, x, dim) = WithDigit(x, k, dim, (Digit(x, k, dim) + 1) % k)
  BY DEF RightNode, LeftNode
<1> HIDE DEF k, n
<1>4. g \in Below(k)
  <2>1. r \in Int /\ dim \in Nat
    BY <1>1 DEF Below, n
  <2> QED
    BY <1>1, <2>1, DigitType
<1>5. a \in Below(k) /\ b \in Below(k) /\ (a + k - 1) % k = g /\ (b + 1) % k = g
  <2> HIDE DEF g
  <2> QED
    BY <1>1, <1>4, OneOnOneBack
<1>6. /\ WithDigit(r, k, dim, a) \in Below(powi(k, n)) /\ Digit(WithDigit(r, k, dim, a), k, dim) = a
      /\ WithDigit(r, k, dim, b) \in Below(powi(k, n)) /\ Digit(WithDigit(r, k, dim, b), k, dim) = b
      /\ WithDigit(WithDigit(r, k, dim, a), k, dim, g) = WithDigit(r, k, dim, g)
      /\ WithDigit(WithDigit(r, k, dim, b), k, dim, g) = WithDigit(r, k, dim, g)
      /\ WithDigit(r, k, dim, g) = r
  <2> HIDE DEF a, b
  <2>0. dim \in Below(n) /\ r \in Below(powi(k, n))
    BY <1>1 DEF n
  <2>1. WithDigit(r, k, dim, Digit(r, k, dim)) = r
    BY <1>1, <1>5, <2>0, DigitReplaced
  <2> HIDE DEF g
  <2>2. /\ WithDigit(r, k, dim, a) \in Below(powi(k, n)) /\ Digit(WithDigit(r, k, dim, a), k, dim) = a
        /\ WithDigit(WithDigit(r, k, dim, a), k, dim, g) = WithDigit(r, k, dim, g)
    BY <1>1, <1>4, <1>5, <2>0, DigitReplaced
  <2>3. /\ WithDigit(r, k, dim, b) \in Below(powi(k, n)) /\ Digit(WithDigit(r, k, dim, b), k, dim) = b
        /\ WithDigit(WithDigit(r, k, dim, b), k, dim, g) = WithDigit(r, k, dim, g)
    BY <1>1, <1>4, <1>5, <2>0, DigitReplaced
  <2> QED
    BY <2>1, <2>2, <2>3 DEF g
<1> HIDE DEF a, b, g
<1> QED
  BY <1>1, <1>2, <1>3, <1>5, <1>6

CubePeer(c) == [e \in KNCubeRouters(c) \X (0 .. 2 * c.n) |->
  IF e[2] = 2 * c.n THEN e
  ELSE IF e[2] % 2 = 0 THEN <<RightNode(c, e[1], e[2] \div 2), e[2] + 1>>
  ELSE <<LeftNode(c, e[1], e[2] \div 2), e[2] - 1>>]

(* The number of a channel names its router and port. *)
LEMMA NumberedBy ==
  ASSUME NEW m \in Nat \ {0}, NEW r \in Int, NEW s \in Int, NEW p \in Below(m), NEW q \in Below(m),
         m * r + p = m * s + q
  PROVE  r = s /\ p = q
<1>1. m * r = r * m /\ m * s = s * m /\ p \in 0 .. m - 1 /\ q \in 0 .. m - 1
  BY DEF Below
<1>2. (r * m + p) \div m = r /\ (r * m + p) % m = p
  BY <1>1, DivModUnique
<1>3. (s * m + q) \div m = s /\ (s * m + q) % m = q
  BY <1>1, DivModUnique
<1> QED
  BY <1>1, <1>2, <1>3


LEMMA CubeMeets ==
  ASSUME NEW c, CubeSized(c), c.network \in {"mesh", "torus"}
  PROVE  Meets(c, CubePeer(c))
<1> DEFINE R == KNCubeRouters(c)
           m == 2 * c.n
           Q == 0 .. m
           out == OutputsOf(c)
           in == InputsOf(c)
           peer == CubePeer(c)
           P == R \X Q
<1>1. c.n \in Nat /\ m \in Nat /\ R = Below(c.nodes) /\ c.nodes \in Nat
  BY PowiPositive DEF CubeSized, KNCubeRouters
<1>2. /\ out = [r \in R |-> KNCubeOutputs(c, r)]
      /\ in = [r \in R |-> KNCubeInputs(c, r)]
  BY DEF OutputsOf, InputsOf, Routers, Outputs, Inputs
<1>3. Ports(out) = P /\ Ports(in) = P
  <2>1. DOMAIN out = R /\ DOMAIN in = R
    BY <1>2
  <2>2. \A r \in R : DOMAIN out[r] = Q /\ DOMAIN in[r] = Q
    BY <1>2 DEF KNCubeOutputs, KNCubeInputs
  <2> HIDE DEF out, in, R, Q
  <2>3. Uniform(out, R, Q) /\ Uniform(in, R, Q)
    BY <2>1, <2>2 DEF Uniform
  <2> QED
    BY <2>3, UniformPorts
<1>4. ASSUME NEW r \in R, NEW p \in Q
      PROVE  /\ At(out, <<r, p>>) = IF p = m THEN NodeLink(r) ELSE Chan(m * r + p)
             /\ p # m => /\ p \div 2 \in Below(c.n)
                         /\ p % 2 = 0 => p + 1 \in Q /\ p + 1 # m /\ (p + 1) % 2 = 1 /\ (p + 1) \div 2 = p \div 2
                         /\ p % 2 # 0 => p - 1 \in Q /\ p - 1 # m /\ (p - 1) % 2 = 0 /\ (p - 1) \div 2 = p \div 2
  <2>1. p # m => /\ p \div 2 \in Below(c.n)
                 /\ p % 2 = 0 => p = 2 * (p \div 2)
                 /\ p % 2 # 0 => p = 2 * (p \div 2) + 1
    BY <1>1 DEF Below
  <2>2. At(out, <<r, p>>) = KNCubeOutputs(c, r)[p]
    BY <1>2 DEF At
  <2>3. KNCubeOutputs(c, r)[p] = IF p = m THEN NodeLink(r)
                                 ELSE IF p % 2 = 0 THEN Chan(m * r + 2 * (p \div 2)) ELSE Chan(m * r + 2 * (p \div 2) + 1)
    BY DEF KNCubeOutputs, RightChannel, LeftChannel
  <2>4. r \in Int /\ m * r \in Int
    BY <1>1 DEF Below
  <2>5. m * r + 2 * (p \div 2) + 1 = m * r + (2 * (p \div 2) + 1)
    BY <2>4
  <2>6. p # m /\ p % 2 = 0 => p + 1 \in Q /\ p + 1 # m /\ (p + 1) % 2 = 1 /\ (p + 1) \div 2 = p \div 2
    BY <1>1
  <2>7. p # m /\ p % 2 # 0 => p - 1 \in Q /\ p - 1 # m /\ (p - 1) % 2 = 0 /\ (p - 1) \div 2 = p \div 2
    BY <1>1
  <2>8. At(out, <<r, p>>) = IF p = m THEN NodeLink(r) ELSE Chan(m * r + p)
    BY <2>1, <2>2, <2>3, <2>5
  <2> QED
    BY <2>1, <2>6, <2>7, <2>8
<1>5. ASSUME NEW r \in R, NEW p \in Q
      PROVE  /\ peer[<<r, p>>] = IF p = m THEN <<r, p>>
                                 ELSE IF p % 2 = 0 THEN <<RightNode(c, r, p \div 2), p + 1>>
                                 ELSE <<LeftNode(c, r, p \div 2), p - 1>>
             /\ peer[<<r, p>>] \in P /\ peer[peer[<<r, p>>]] = <<r, p>>
  <2>1. \A s \in R, q \in Q : peer[<<s, q>>] = IF q = m THEN <<s, q>>
                                               ELSE IF q % 2 = 0 THEN <<RightNode(c, s, q \div 2), q + 1>>
                                               ELSE <<LeftNode(c, s, q \div 2), q - 1>>
    BY DEF CubePeer
  <2>0. p \in Int
    BY <1>1
  <2> HIDE DEF peer, m, R, Q
  <2>2. CASE p = m
    <3>1. peer[<<r, p>>] = <<r, p>>
      BY <2>1, <2>2
    <3>2. <<r, p>> \in P
      OBVIOUS
    <3> HIDE DEF P
    <3> QED
      BY <2>2, <3>1, <3>2
  <2>3. CASE p # m /\ p % 2 = 0
    <3>1. /\ p + 1 \in Q /\ p + 1 # m /\ (p + 1) % 2 = 1 /\ (p + 1) \div 2 = p \div 2
          /\ p \div 2 \in Below(c.n)
      BY <1>4, <2>3
    <3>0. p + 1 - 1 = p /\ (p + 1) % 2 # 0
      BY <2>0, <3>1
    <3> DEFINE s == RightNode(c, r, p \div 2)
    <3>2. s \in R /\ LeftNode(c, s, p \div 2) = r
      BY <3>1, NodesAround DEF R
    <3>4. peer[<<r, p>>] = <<s, p + 1>>
      BY <2>1, <2>3
    <3> DEFINE q == p + 1
    <3>a. q \in Q /\ q # m /\ q \div 2 = p \div 2
      BY <3>1, Zenon
    <3>c. q = p + 1
      OBVIOUS
    <3>b. q % 2 # 0 /\ q - 1 = p
      <4> HIDE DEF q
      <4> QED
        BY <2>0, <2>3, <3>c
    <3>q. q \in Q /\ q # m /\ q % 2 # 0 /\ q \div 2 = p \div 2 /\ q - 1 = p
      BY <3>a, <3>b, Zenon
    <3>p. peer[<<r, p>>] = <<s, q>>
      BY <3>4
    <3> HIDE DEF s, q
    <3>r. peer[<<s, q>>] = <<LeftNode(c, s, q \div 2), q - 1>>
      BY <2>1, <3>2, <3>q
    <3>5. peer[<<s, q>>] = <<r, p>>
      BY <3>2, <3>q, <3>r
    <3>6. <<s, q>> \in P
      BY <3>2, <3>q
    <3>7. peer[<<r, p>>] = <<RightNode(c, r, p \div 2), p + 1>>
      BY <3>4 DEF s
    <3> QED
      BY <2>3, <3>p, <3>5, <3>6, <3>7
  <2>4. CASE p # m /\ p % 2 # 0
    <3>1. /\ p - 1 \in Q /\ p - 1 # m /\ (p - 1) % 2 = 0 /\ (p - 1) \div 2 = p \div 2
          /\ p \div 2 \in Below(c.n)
      BY <1>4, <2>4
    <3>0. p - 1 + 1 = p
      BY <2>0
    <3> DEFINE s == LeftNode(c, r, p \div 2)
    <3>2. s \in R /\ RightNode(c, s, p \div 2) = r
      BY <3>1, NodesAround DEF R
    <3>4. peer[<<r, p>>] = <<s, p - 1>>
      BY <2>1, <2>4
    <3> HIDE DEF s
    <3>3. peer[<<s, p - 1>>] = <<RightNode(c, s, (p - 1) \div 2), p - 1 + 1>>
      BY <2>1, <3>1, <3>2
    <3>5. peer[<<s, p - 1>>] = <<r, p>>
      BY <3>0, <3>1, <3>2, <3>3
    <3> QED
      BY <2>1, <2>4, <3>1, <3>2, <3>4, <3>5 DEF s
  <2> QED
    BY <2>2, <2>3, <2>4
<1>6. ASSUME NEW r \in R, NEW p \in Q PROVE At(in, <<r, p>>) = At(out, peer[<<r, p>>])
  <2>1. At(in, <<r, p>>) = KNCubeInputs(c, r)[p]
    BY <1>2 DEF At
  <2>2. KNCubeInputs(c, r)[p] = IF p = m THEN NodeLink(r)
                                ELSE IF p % 2 = 0 THEN Chan(m * RightNode(c, r, p \div 2) + 2 * (p \div 2) + 1)
                                ELSE Chan(m * LeftNode(c, r, p \div 2) + 2 * (p \div 2))
    BY DEF KNCubeInputs, LeftChannel, RightChannel
  <2>3. CASE p = m
    BY <1>4, <1>5, <2>1, <2>2, <2>3
  <2>4. CASE p # m /\ p % 2 = 0
    <3> DEFINE s == RightNode(c, r, p \div 2)
    <3>1. peer[<<r, p>>] = <<s, p + 1>> /\ <<s, p + 1>> \in P
      BY <1>5, <2>4
    <3>2. At(out, <<s, p + 1>>) = Chan(m * s + (p + 1))
      BY <1>4, <2>4, <3>1
    <3>3. p = 2 * (p \div 2) /\ s \in Int
      BY <1>1, <2>4, <3>1, SMTT(30) DEF Below
    <3>5. m * s \in Int
      BY <1>1, <3>3
    <3> HIDE DEF s, m
    <3>4. m * s + 2 * (p \div 2) + 1 = m * s + (p + 1)
      BY <3>3, <3>5
    <3> QED
      BY <2>1, <2>2, <2>4, <3>1, <3>2, <3>4 DEF s, m
  <2>5. CASE p # m /\ p % 2 # 0
    <3> DEFINE s == LeftNode(c, r, p \div 2)
    <3>1. peer[<<r, p>>] = <<s, p - 1>> /\ <<s, p - 1>> \in P
      BY <1>5, <2>5
    <3>2. At(out, <<s, p - 1>>) = Chan(m * s + (p - 1))
      BY <1>4, <2>5, <3>1
    <3>3. p - 1 = 2 * (p \div 2)
      BY <1>1, <2>5
    <3> QED
      BY <2>1, <2>2, <2>5, <3>1, <3>2, <3>3
  <2> QED
    BY <2>3, <2>4, <2>5
<1> HIDE DEF out, in, peer, m
<1>7. IsFiniteSet(P)
  <2>1. IsFiniteSet(R) /\ IsFiniteSet(Q)
    BY <1>1, FS_Interval DEF Below
  <2> QED
    BY <2>1, FS_Product
<1>8. ASSUME NEW e \in P, NEW g \in P, At(out, e) = At(out, g) PROVE e = g
  <2>1. PICK r \in R, p \in Q : e = <<r, p>>
    OBVIOUS
  <2>2. PICK s \in R, q \in Q : g = <<s, q>>
    OBVIOUS
  <2>3. (IF p = m THEN NodeLink(r) ELSE Chan(m * r + p)) = (IF q = m THEN NodeLink(s) ELSE Chan(m * s + q))
    BY <1>4, <1>8, <2>1, <2>2
  <2>4. CASE p = m
    BY <2>1, <2>2, <2>3, <2>4 DEF NodeLink, Chan
  <2>5. CASE p # m
    <3>1. q # m /\ m * r + p = m * s + q
      BY <2>3, <2>5 DEF NodeLink, Chan
    <3>2. p \in Below(m) /\ q \in Below(m) /\ m \in Nat \ {0} /\ r \in Int /\ s \in Int
      BY <1>1, <2>5, <3>1 DEF Below
    <3> QED
      <4>1. r = s /\ p = q
        BY <3>1, <3>2, NumberedBy
      <4> QED
        BY <2>1, <2>2, <4>1
  <2> QED
    BY <2>4, <2>5
<1>9. \A e \in P : peer[e] \in P /\ peer[peer[e]] = e /\ At(in, e) = At(out, peer[e])
  <2> HIDE DEF R, Q
  <2>1. \A e \in P : \E r \in R, p \in Q : e = <<r, p>>
    OBVIOUS
  <2> SUFFICES ASSUME NEW e \in P PROVE peer[e] \in P /\ peer[peer[e]] = e /\ At(in, e) = At(out, peer[e])
    OBVIOUS
  <2>2. PICK r \in R, p \in Q : e = <<r, p>>
    BY <2>1
  <2>3. peer[<<r, p>>] \in P /\ peer[peer[<<r, p>>]] = <<r, p>>
    BY <1>5
  <2>4. At(in, <<r, p>>) = At(out, peer[<<r, p>>])
    BY <1>6
  <2> QED
    BY <2>2, <2>3, <2>4
<1>10. peer = [e \in P |-> peer[e]]
  BY DEF peer, CubePeer, m
<1>11. ASSUME NEW i \in Nodes(c) PROVE \E e \in P : At(out, e) = NodeLink(i)
  <2>1. i \in R /\ m \in Q
    BY <1>1 DEF Nodes
  <2>2. At(out, <<i, m>>) = NodeLink(i)
    BY <1>4, <2>1
  <2> QED
    BY <2>1, <2>2
<1>12. \A e, g \in P : At(out, e) = At(out, g) => e = g
  BY <1>8
<1> HIDE DEF P
<1>13. /\ Ports(OutputsOf(c)) = P /\ Ports(InputsOf(c)) = P
       /\ \A e, g \in P : At(OutputsOf(c), e) = At(OutputsOf(c), g) => e = g
       /\ \A e \in P : peer[e] \in P /\ peer[peer[e]] = e /\ At(InputsOf(c), e) = At(OutputsOf(c), peer[e])
       /\ \A i \in Nodes(c) : \E e \in P : At(OutputsOf(c), e) = NodeLink(i)
  BY <1>3, <1>9, <1>11, <1>12 DEF out, in
<1>14. Meets(c, peer)
  BY <1>7, <1>10, <1>13, PeersMeet
<1> QED
  BY <1>14 DEF peer

-----------------------------------------------------------------------------
(* Networks of levels: a router is level * M + pos. *)
LEMMA Placed ==
  ASSUME NEW n \in Nat, NEW M \in Nat \ {0}
  PROVE  /\ \A level \in Below(n), pos \in Below(M) :
              /\ level * M + pos \in Below(n * M)
              /\ (level * M + pos) \div M = level /\ (level * M + pos) % M = pos
         /\ \A r \in Below(n * M) : \E level \in Below(n), pos \in Below(M) : r = level * M + pos
         /\ n * M \in Nat
<1>1. ASSUME NEW level \in Below(n), NEW pos \in Below(M)
      PROVE  /\ level * M + pos \in Below(n * M)
             /\ (level * M + pos) \div M = level /\ (level * M + pos) % M = pos
  <2>1. level \in Nat /\ level + 1 \in Nat /\ level + 1 <= n /\ pos \in 0 .. M - 1 /\ pos \in Nat
    BY DEF Below
  <2>2. (level + 1) * M <= n * M /\ level * M \in Nat /\ n * M \in Nat
    BY <2>1, ProductAtMost
  <2>3. (level + 1) * M = level * M + M
    BY <2>1
  <2>4. level * M + pos \in Nat /\ level * M + pos < n * M
    BY <2>1, <2>2, <2>3
  <2>5. (level * M + pos) \div M = level /\ (level * M + pos) % M = pos
    BY <2>1, DivModUnique
  <2> QED
    BY <2>2, <2>4, <2>5 DEF Below
<1>2. ASSUME NEW r \in Below(n * M)
      PROVE  \E level \in Below(n), pos \in Below(M) : r = level * M + pos
  <2>1. n * M \in Nat
    OBVIOUS
  <2>2. r \in Nat /\ r \in Int /\ r < n * M
    BY <2>1 DEF Below
  <2>3. r \div M \in Nat /\ (r < n * M <=> r \div M < n)
    BY <2>2, DivBelow
  <2>4. r % M \in 0 .. M - 1 /\ r = (r \div M) * M + (r % M)
    BY <2>2, DivMod
  <2>5. r \div M \in Below(n) /\ r % M \in Below(M)
    BY <2>2, <2>3, <2>4 DEF Below
  <2> QED
    BY <2>4, <2>5
<1> QED
  BY <1>1, <1>2

(* A port of a router is given up for a digit, and the other way round. *)
LEMMA DigitExchanged ==
  ASSUME NEW k \in Nat \ {0}, NEW n \in Nat, NEW d \in Below(n), NEW x \in Below(powi(k, n)), NEW v \in Below(k)
  PROVE  /\ WithDigit(x, k, d, v) \in Below(powi(k, n)) /\ Digit(x, k, d) \in Below(k)
         /\ Digit(WithDigit(x, k, d, v), k, d) = v
         /\ WithDigit(WithDigit(x, k, d, v), k, d, Digit(x, k, d)) = x
<1>1. Digit(x, k, d) \in Below(k)
  <2>1. x \in Int /\ d \in Nat
    BY DEF Below
  <2> QED
    BY <2>1, DigitType
<1> DEFINE g == Digit(x, k, d)
<1>2. g \in Below(k) /\ WithDigit(x, k, d, g) = x
  BY <1>1, DigitReplaced
<1> HIDE DEF g
<1>3. /\ WithDigit(x, k, d, v) \in Below(powi(k, n)) /\ Digit(WithDigit(x, k, d, v), k, d) = v
      /\ WithDigit(WithDigit(x, k, d, v), k, d, g) = WithDigit(x, k, d, g)
  BY <1>2, DigitReplaced
<1> QED
  BY <1>1, <1>2, <1>3 DEF g

(* What the networks of n levels of k^(n-1) routers have in common. *)
LEMMA LevelsAre ==
  ASSUME NEW c, LevelSized(c)
  PROVE  /\ PerStage(c) \in Nat \ {0} /\ c.n - 1 \in Nat /\ PerStage(c) = powi(c.k, c.n - 1)
         /\ powi(c.k, c.n) = PerStage(c) * c.k /\ powi(c.k, c.n) \in Nat \ {0}
         /\ FlyRouters(c) = Below(c.n * PerStage(c)) /\ IsFiniteSet(FlyRouters(c))
         /\ c.n - 1 \in Below(c.n)
<1> DEFINE n1 == c.n - 1
<1>1. n1 \in Nat /\ c.n = n1 + 1 /\ c.k \in Nat \ {0} /\ c.n \in Nat
  BY DEF LevelSized
<1>2. PerStage(c) = powi(c.k, n1)
  BY DEF PerStage
<1> HIDE DEF n1
<1>3. powi(c.k, n1) \in Nat \ {0} /\ powi(c.k, n1 + 1) = powi(c.k, n1) * c.k
  BY <1>1, PowiPositive, PowiStep
<1>4. powi(c.k, c.n) \in Nat \ {0}
  BY <1>1, PowiPositive
<1>5. FlyRouters(c) = Below(c.n * PerStage(c))
  BY DEF FlyRouters
<1>6. c.n * PerStage(c) \in Nat
  BY <1>1, <1>2, <1>3
<1>7. IsFiniteSet(FlyRouters(c))
  BY <1>5, <1>6, FS_Interval DEF Below
<1>8. n1 \in Below(c.n)
  BY <1>1 DEF Below
<1> QED
  BY <1>1, <1>2, <1>3, <1>4, <1>5, <1>7, <1>8 DEF n1

-----------------------------------------------------------------------------
(* Butterfly. *)
FlyPeer(c) == [e \in FlyRouters(c) \X Below(c.k) |->
  LET stage == e[1] \div PerStage(c)
      addr == e[1] % PerStage(c)
      dim == c.n - 1 - stage
  IN  IF stage = 0 THEN <<(c.n - 1) * PerStage(c) + addr, e[2]>>
      ELSE <<(stage - 1) * PerStage(c) + WithDigit(addr, c.k, dim, e[2]), Digit(addr, c.k, dim)>>]
FlyBack(c) == [e \in FlyRouters(c) \X Below(c.k) |->
  LET stage == e[1] \div PerStage(c)
      addr == e[1] % PerStage(c)
      dim == c.n - 2 - stage
  IN  IF stage = c.n - 1 THEN <<addr, e[2]>>
      ELSE <<(stage + 1) * PerStage(c) + WithDigit(addr, c.k, dim, e[2]), Digit(addr, c.k, dim)>>]

LEMMA FlyMeets ==
  ASSUME NEW c, LevelSized(c), c.network = "fly"
  PROVE  Meets(c, FlyPeer(c))
<1> DEFINE k == c.k
           n == c.n
           M == PerStage(c)
           K == powi(k, n)
           R == FlyRouters(c)
           Q == Below(k)
           out == OutputsOf(c)
           in == InputsOf(c)
           peer == FlyPeer(c)
           back == FlyBack(c)
           P == R \X Q
<1>1. /\ k \in Nat \ {0} /\ n \in Nat \ {0} /\ n \in Nat /\ n - 1 \in Nat /\ M \in Nat \ {0} /\ M = powi(k, n - 1)
      /\ K = M * k /\ K \in Nat \ {0} /\ R = Below(n * M) /\ n - 1 \in Below(n) /\ c.nodes = K
  BY LevelsAre DEF LevelSized
<1>2. /\ out = [r \in R |-> FlyOutputs(c, r)]
      /\ in = [r \in R |-> FlyInputs(c, r)]
  BY DEF OutputsOf, InputsOf, Routers, Outputs, Inputs
<1>3. Ports(out) = P /\ Ports(in) = P
  <2>1. DOMAIN out = R /\ DOMAIN in = R
    BY <1>2
  <2>2. \A r \in R : DOMAIN out[r] = Q /\ DOMAIN in[r] = Q
    BY <1>2 DEF FlyOutputs, FlyInputs
  <2> HIDE DEF out, in, R, Q
  <2>3. Uniform(out, R, Q) /\ Uniform(in, R, Q)
    BY <2>1, <2>2 DEF Uniform
  <2> QED
    BY <2>3, UniformPorts
<1>4. IsFiniteSet(P)
  <2>1. IsFiniteSet(R)
    BY LevelsAre
  <2>2. IsFiniteSet(Q)
    <3>1. 0 \in Int /\ k - 1 \in Int
      BY <1>1
    <3> QED
      BY <3>1, FS_Interval DEF Below
  <2> QED
    BY <2>1, <2>2, FS_Product
<1> DEFINE id(stage, addr) == stage * M + addr
           dim(stage) == n - 1 - stage
<1>5. ASSUME NEW stage \in Below(n), NEW addr \in Below(M)
      PROVE  id(stage, addr) \in R /\ id(stage, addr) \div M = stage /\ id(stage, addr) % M = addr
  <2> HIDE DEF M, R, n
  <2>0. n \in Nat /\ M \in Nat \ {0}
    BY <1>1
  <2>1. /\ stage * M + addr \in Below(n * M)
        /\ (stage * M + addr) \div M = stage /\ (stage * M + addr) % M = addr
    BY <2>0, Placed
  <2> QED
    BY <1>1, <2>1
<1>6. \A e \in P : \E stage \in Below(n), addr \in Below(M), p \in Q : e = <<id(stage, addr), p>>
  <2>1. \A r \in R : \E stage \in Below(n), addr \in Below(M) : r = id(stage, addr)
    <3> HIDE DEF M, R, n
    <3>1. \A r \in Below(n * M) : \E stage \in Below(n), addr \in Below(M) : r = stage * M + addr
      BY <1>1, Placed
    <3> QED
      BY <1>1, <3>1
  <2> HIDE DEF id, R, Q
  <2> QED
    BY <2>1
<1>7. ASSUME NEW stage \in Below(n), NEW addr \in Below(M), NEW p \in Q
      PROVE  /\ At(out, <<id(stage, addr), p>>) = IF stage = n - 1 THEN NodeLink(addr * k + p)
                                                  ELSE Chan(stage * K + addr * k + p)
             /\ At(in, <<id(stage, addr), p>>) =
                  IF stage = 0 THEN NodeLink(addr * k + p)
                  ELSE Chan((stage - 1) * K + WithDigit(addr, k, dim(stage), p) * k + Digit(addr, k, dim(stage)))
  <2> DEFINE r == id(stage, addr)
  <2>1. r \in R /\ r \div M = stage /\ r % M = addr
    BY <1>5
  <2> HIDE DEF id, M, r, R
  <2>2. At(out, <<r, p>>) = FlyOutputs(c, r)[p] /\ At(in, <<r, p>>) = FlyInputs(c, r)[p]
    BY <1>2, <2>1 DEF At
  <2>3. FlyOutputs(c, r)[p] = IF stage = n - 1 THEN NodeLink(addr * k + p) ELSE Chan(stage * K + addr * k + p)
    BY <2>1 DEF FlyOutputs, OutChannel, M
  <2>4. n - stage - 1 = n - 1 - stage
    BY <1>1 DEF Below
  <2>5. FlyInputs(c, r)[p] = IF stage = 0 THEN NodeLink(addr * k + p)
                             ELSE Chan((stage - 1) * K + WithDigit(addr, k, n - stage - 1, p) * k + Digit(addr, k, n - stage - 1))
    BY <2>1 DEF FlyInputs, InChannel, M
  <2> QED
    BY <2>2, <2>3, <2>4, <2>5 DEF r
<1>8. ASSUME NEW stage \in Below(n), NEW addr \in Below(M), NEW p \in Q
      PROVE  /\ peer[<<id(stage, addr), p>>] =
                  IF stage = 0 THEN <<id(n - 1, addr), p>>
                  ELSE <<id(stage - 1, WithDigit(addr, k, dim(stage), p)), Digit(addr, k, dim(stage))>>
             /\ back[<<id(stage, addr), p>>] =
                  IF stage = n - 1 THEN <<addr, p>>
                  ELSE <<id(stage + 1, WithDigit(addr, k, n - 2 - stage, p)), Digit(addr, k, n - 2 - stage)>>
  <2> DEFINE r == id(stage, addr)
  <2>1. r \in R /\ r \div M = stage /\ r % M = addr
    BY <1>5
  <2> HIDE DEF r, R
  <2> QED
    BY <2>1 DEF FlyPeer, FlyBack, r, R
<1> HIDE DEF out, in, peer, back, K, M, R
<1>9. ASSUME NEW stage \in Below(n), NEW addr \in Below(M), NEW p \in Q, stage # 0
      PROVE  /\ stage - 1 \in Below(n) /\ stage - 1 # n - 1 /\ n - 2 - (stage - 1) = dim(stage) /\ stage - 1 + 1 = stage
             /\ dim(stage) \in Below(n - 1)
             /\ WithDigit(addr, k, dim(stage), p) \in Below(M) /\ Digit(addr, k, dim(stage)) \in Q
             /\ Digit(WithDigit(addr, k, dim(stage), p), k, dim(stage)) = p
             /\ WithDigit(WithDigit(addr, k, dim(stage), p), k, dim(stage), Digit(addr, k, dim(stage))) = addr
  <2>1. /\ stage - 1 \in Below(n) /\ stage - 1 # n - 1 /\ n - 2 - (stage - 1) = dim(stage) /\ stage - 1 + 1 = stage
        /\ dim(stage) \in Below(n - 1)
    <3> HIDE DEF n
    <3>1. stage \in Int /\ stage >= 1 /\ stage <= n - 1 /\ n \in Int
      BY <1>1, <1>9 DEF Below
    <3> QED
      BY <3>1 DEF Below
  <2> HIDE DEF dim
  <2>2. addr \in Below(powi(k, n - 1))
    BY <1>1
  <2> DEFINE n1 == n - 1
             d == dim(stage)
  <2>3. n1 \in Nat /\ d \in Below(n1) /\ addr \in Below(powi(k, n1)) /\ M = powi(k, n1)
    BY <1>1, <2>1, <2>2
  <2> HIDE DEF n1, d
  <2>4. /\ WithDigit(addr, k, d, p) \in Below(M) /\ Digit(addr, k, d) \in Q
        /\ Digit(WithDigit(addr, k, d, p), k, d) = p
        /\ WithDigit(WithDigit(addr, k, d, p), k, d, Digit(addr, k, d)) = addr
    BY <1>1, <2>3, DigitExchanged
  <2> QED
    BY <2>1, <2>4 DEF d
<1>10. ASSUME NEW stage \in Below(n), NEW addr \in Below(M), NEW p \in Q
       PROVE  LET e == <<id(stage, addr), p>>
              IN  peer[e] \in P /\ back[peer[e]] = e /\ At(in, e) = At(out, peer[e])
  <2> DEFINE e == <<id(stage, addr), p>>
             n1 == n - 1
  <2>1. CASE stage = 0
    <3>1. peer[e] = <<id(n1, addr), p>> /\ id(n1, addr) \in R
      BY <1>1, <1>5, <1>8, <2>1, ZenonT(40)
    <3>2. back[<<id(n1, addr), p>>] = <<addr, p>>
      BY <1>1, <1>8
    <3>3. id(0, addr) = addr
      <4>1. addr \in Int
        BY <1>1 DEF Below
      <4> QED
        BY <1>1, <4>1
    <3>4. At(in, e) = NodeLink(addr * k + p)
      BY <1>7, <2>1
    <3>5. At(out, <<id(n1, addr), p>>) = NodeLink(addr * k + p)
      BY <1>1, <1>7
    <3> HIDE DEF id, n1
    <3> QED
      BY <2>1, <3>1, <3>2, <3>3, <3>4, <3>5
  <2>2. CASE stage # 0
    <3> DEFINE t == stage - 1
               d == dim(stage)
               a == WithDigit(addr, k, d, p)
               q == Digit(addr, k, d)
    <3>1. /\ t \in Below(n) /\ t # n1 /\ n - 2 - t = d /\ t + 1 = stage
          /\ a \in Below(M) /\ q \in Q
          /\ Digit(a, k, d) = p /\ WithDigit(a, k, d, q) = addr
      BY <1>9, <2>2
    <3>2. peer[e] = <<id(t, a), q>>
      BY <1>8, <2>2
    <3>3. At(in, e) = Chan(t * K + a * k + q)
      BY <1>7, <2>2
    <3> HIDE DEF t, d, a, q
    <3>4. id(t, a) \in R
      BY <1>5, <3>1
    <3>5. At(out, <<id(t, a), q>>) = Chan(t * K + a * k + q)
      BY <1>7, <3>1
    <3>6. back[<<id(t, a), q>>] = <<id(t + 1, WithDigit(a, k, n - 2 - t, q)), Digit(a, k, n - 2 - t)>>
      BY <1>8, <3>1
    <3> HIDE DEF id
    <3>7. back[<<id(t, a), q>>] = <<id(stage, addr), p>>
      BY <3>1, <3>6
    <3> QED
      BY <3>1, <3>2, <3>3, <3>4, <3>5, <3>7
  <2> QED
    BY <2>1, <2>2
<1>11. ASSUME NEW s \in Below(n), NEW a \in Below(M), NEW p \in Q, NEW t \in Below(n), NEW b \in Below(M), NEW q \in Q,
              At(out, <<id(s, a), p>>) = At(out, <<id(t, b), q>>)
       PROVE  s = t /\ a = b /\ p = q
  <2>1. (IF s = n - 1 THEN NodeLink(a * k + p) ELSE Chan(s * K + a * k + p))
          = (IF t = n - 1 THEN NodeLink(b * k + q) ELSE Chan(t * K + b * k + q))
    BY <1>7, <1>11
  <2>2. /\ s \in Int /\ t \in Int /\ a \in Int /\ b \in Int /\ p \in Int /\ q \in Int
        /\ k * a + p = a * k + p /\ k * b + q = b * k + q
    <3> HIDE DEF k, n
    <3>1. s \in Int /\ t \in Int /\ a \in Int /\ b \in Int /\ p \in Int /\ q \in Int
      BY DEF Below
    <3> QED
      BY <1>1, <3>1
  <2> DEFINE x == a * k + p
             y == b * k + q
  <2>3. x \in Below(K) /\ y \in Below(K)
    <3>1. M \in Nat
      BY <1>1
    <3> QED
      BY <1>1, <3>1, Placed
  <2>4. x = y => a = b /\ p = q
    BY <1>1, <2>2, NumberedBy
  <2>5. s * K + a * k + p = s * K + x /\ t * K + b * k + q = t * K + y
    BY <1>1, <2>2
  <2> HIDE DEF x, y
  <2>6. CASE s = n - 1
    BY <2>1, <2>4, <2>6 DEF NodeLink, Chan, x, y
  <2>7. CASE s # n - 1
    <3>1. t # n - 1 /\ s * K + x = t * K + y
      BY <2>1, <2>5, <2>7 DEF NodeLink, Chan
    <3>2. s = t /\ x = y
      <4>1. K \in Nat \ {0} /\ s \in Int /\ t \in Int /\ x \in 0 .. K - 1 /\ y \in 0 .. K - 1
        BY <1>1, <2>2, <2>3 DEF Below
      <4>2. (s * K + x) \div K = s /\ (s * K + x) % K = x
        BY <4>1, DivModUnique
      <4>3. (t * K + y) \div K = t /\ (t * K + y) % K = y
        BY <4>1, DivModUnique
      <4> QED
        BY <3>1, <4>2, <4>3
    <3> QED
      BY <2>4, <3>2
  <2> QED
    BY <2>6, <2>7
<1>12. ASSUME NEW i \in Nodes(c) PROVE \E e \in P : At(out, e) = NodeLink(i)
  <2>1. i \in Below(M * k)
    BY <1>1 DEF Nodes
  <2>2. PICK a \in Below(M), p \in Q : i = a * k + p
    <3>1. M \in Nat /\ k \in Nat \ {0}
      BY <1>1
    <3> HIDE DEF k
    <3>2. \A j \in Below(M * k) : \E a \in Below(M), p \in Below(k) : j = a * k + p
      BY <3>1, Placed
    <3> QED
      BY <2>1, <3>2
  <2> DEFINE n1 == n - 1
  <2>3. At(out, <<id(n1, a), p>>) = NodeLink(i) /\ id(n1, a) \in R
    BY <1>1, <1>5, <1>7, <2>2
  <2> HIDE DEF id, n1
  <2> QED
    BY <2>3
<1>13. peer = [e \in P |-> peer[e]]
  BY DEF peer, FlyPeer, R, M
<1> HIDE DEF id, P, Q
<1>14. \A e \in P : peer[e] \in P /\ back[peer[e]] = e /\ At(in, e) = At(out, peer[e])
  <2> SUFFICES ASSUME NEW e \in P PROVE peer[e] \in P /\ back[peer[e]] = e /\ At(in, e) = At(out, peer[e])
    OBVIOUS
  <2>1. PICK s \in Below(n), a \in Below(M), p \in Q : e = <<id(s, a), p>>
    BY <1>6
  <2> QED
    BY <1>10, <2>1
<1>15. \A e, g \in P : At(out, e) = At(out, g) => e = g
  <2> SUFFICES ASSUME NEW e \in P, NEW g \in P, At(out, e) = At(out, g) PROVE e = g
    OBVIOUS
  <2>1. PICK s \in Below(n), a \in Below(M), p \in Q : e = <<id(s, a), p>>
    BY <1>6
  <2>2. PICK t \in Below(n), b \in Below(M), q \in Q : g = <<id(t, b), q>>
    BY <1>6
  <2>3. s = t /\ a = b /\ p = q
    BY <1>11, <2>1, <2>2
  <2> QED
    BY <2>1, <2>2, <2>3
<1>16. /\ Ports(OutputsOf(c)) = P /\ Ports(InputsOf(c)) = P
       /\ \A e, g \in P : At(OutputsOf(c), e) = At(OutputsOf(c), g) => e = g
       /\ \A e \in P : peer[e] \in P /\ back[peer[e]] = e /\ At(InputsOf(c), e) = At(OutputsOf(c), peer[e])
       /\ \A i \in Nodes(c) : \E e \in P : At(OutputsOf(c), e) = NodeLink(i)
  BY <1>3, <1>12, <1>14, <1>15 DEF out, in
<1>17. Meets(c, peer)
  BY <1>4, <1>13, <1>16, PeersMeet
<1> QED
  BY <1>17 DEF peer

-----------------------------------------------------------------------------
(* Networks whose routers have different numbers of ports. *)
LEMMA PortIn ==
  ASSUME NEW f
  PROVE  /\ \A r \in DOMAIN f : \A p \in DOMAIN f[r] : <<r, p>> \in Ports(f)
         /\ \A e \in Ports(f) : \E r \in DOMAIN f : \E p \in DOMAIN f[r] : e = <<r, p>>
BY DEF Ports

LEMMA PortsFinite ==
  ASSUME NEW f, NEW W, IsFiniteSet(DOMAIN f), IsFiniteSet(W), \A r \in DOMAIN f : DOMAIN f[r] \subseteq W
  PROVE  IsFiniteSet(Ports(f))
<1>1. Ports(f) \subseteq (DOMAIN f) \X W
  <2> SUFFICES ASSUME NEW e \in Ports(f) PROVE e \in (DOMAIN f) \X W
    OBVIOUS
  <2>1. PICK r \in DOMAIN f : \E p \in DOMAIN f[r] : e = <<r, p>>
    BY PortIn
  <2>2. PICK p \in DOMAIN f[r] : e = <<r, p>>
    BY <2>1
  <2>3. p \in W
    OBVIOUS
  <2> QED
    BY <2>2, <2>3
<1>2. IsFiniteSet((DOMAIN f) \X W)
  BY FS_Product
<1> QED
  BY <1>1, <1>2, FS_Subset

LEMMA SamePorts ==
  ASSUME NEW f, NEW g, DOMAIN f = DOMAIN g, \A r \in DOMAIN f : DOMAIN f[r] = DOMAIN g[r]
  PROVE  Ports(f) = Ports(g)
<1>1. ASSUME NEW e \in Ports(f) PROVE e \in Ports(g)
  BY PortIn
<1>2. ASSUME NEW e \in Ports(g) PROVE e \in Ports(f)
  BY PortIn
<1> QED
  BY <1>1, <1>2

-----------------------------------------------------------------------------
(* Fat tree.                                                               *)
(* The interleaved place is that of the router with one digit exchanged    *)
(* for the port, at the port of this digit.                                *)
LEMMA InterleavedIs ==
  ASSUME NEW c, c.k \in Nat \ {0}, NEW d \in Nat, NEW x \in Nat, NEW v \in Below(c.k)
  PROVE  Interleaved(c, powi(c.k, d), x, v) = WithDigit(x, c.k, d, v) * c.k + Digit(x, c.k, d)
<1> DEFINE k == c.k
           B == powi(k, d)
           H == B * k
           h == x \div H
           i == x % H
           u == i \div B
           w == i % B
<1>1. k \in Nat \ {0} /\ B \in Nat \ {0} /\ v \in Int
  BY PowiPositive DEF Below
<1>2. Interleaved(c, B, x, v) = h * H * k + v * B * k + w * k + u
  BY DEF Interleaved
<1>3. Digit(x, k, d) = (x \div B) % k /\ WithDigit(x, k, d, v) = x + (v - Digit(x, k, d)) * B
  BY DEF Digit, WithDigit
<1> HIDE DEF B, k
<1>4. H \in Nat \ {0}
  BY <1>1
<1>5. h \in Int /\ i \in 0 .. H - 1 /\ i \in Nat /\ x = h * H + i
  <2> HIDE DEF H
  <2>1. x \in Int
    OBVIOUS
  <2>2. h \in Int /\ i \in 0 .. H - 1 /\ x = h * H + i
    BY <1>4, <2>1, DivMod
  <2> QED
    BY <1>4, <2>2
<1> HIDE DEF h, i
<1>6. u \in Int /\ w \in 0 .. B - 1 /\ i = u * B + w /\ u \in Nat /\ u < k
  <2>1. i \in Int /\ i < k * B /\ k \in Nat
    BY <1>1, <1>5
  <2>2. u \in Int /\ w \in 0 .. B - 1 /\ i = u * B + w
    BY <1>1, <2>1, DivMod
  <2>3. u \in Nat /\ (i < k * B <=> u < k)
    BY <1>1, <1>5, <2>1, DivBelow
  <2> QED
    BY <2>1, <2>2, <2>3
<1> HIDE DEF u, w
<1>7. x = (h * k + u) * B + w /\ h * k + u \in Int
  <2>1. h * H = (h * k) * B
    BY <1>1, <1>5
  <2>2. (h * k + u) * B = (h * k) * B + u * B
    BY <1>1, <1>5, <1>6
  <2>3. h * k + u \in Int
    BY <1>1, <1>5, <1>6
  <2> HIDE DEF H
  <2> QED
    BY <1>1, <1>5, <1>6, <2>1, <2>2, <2>3
<1>8. x \div B = h * k + u
  BY <1>1, <1>6, <1>7, DivModUnique
<1>9. (h * k + u) % k = u
  <2>1. u \in 0 .. k - 1
    BY <1>1, <1>6
  <2> QED
    BY <1>1, <1>5, <2>1, DivModUnique
<1>10. WithDigit(x, k, d, v) = h * H + v * B + w
  <2>1. WithDigit(x, k, d, v) = x + (v - u) * B
    BY <1>3, <1>8, <1>9
  <2>2. (v - u) * B = v * B - u * B
    BY <1>1, <1>6
  <2> DEFINE vB == v * B
             uB == u * B
             hH == h * H
  <2>3. vB \in Int /\ uB \in Int /\ hH \in Int
    BY <1>1, <1>4, <1>5, <1>6
  <2>4. x = hH + (uB + w) /\ WithDigit(x, k, d, v) = x + (vB - uB)
    BY <1>5, <1>6, <2>1, <2>2
  <2> HIDE DEF vB, uB, hH
  <2>5. WithDigit(x, k, d, v) = hH + vB + w
    BY <1>6, <2>3, <2>4
  <2> QED
    BY <2>5 DEF vB, hH
<1>11. (h * H + v * B + w) * k = h * H * k + v * B * k + w * k
  <2> DEFINE vB == v * B
             hH == h * H
  <2>1. vB \in Int /\ hH \in Int /\ w \in Int
    BY <1>1, <1>4, <1>5, <1>6
  <2> HIDE DEF vB, hH
  <2>2. (hH + vB + w) * k = hH * k + vB * k + w * k
    BY <1>1, <2>1
  <2> QED
    BY <2>2 DEF vB, hH
<1>12. Digit(x, k, d) = u
  BY <1>3, <1>8, <1>9
<1>13. Interleaved(c, B, x, v) = WithDigit(x, k, d, v) * k + Digit(x, k, d)
  BY <1>2, <1>10, <1>11, <1>12
<1> QED
  BY <1>13 DEF B, k

LEMMA PlacedOnce ==
  ASSUME NEW M \in Nat \ {0}, NEW s \in Int, NEW t \in Int, NEW x \in Below(M), NEW y \in Below(M),
         s * M + x = t * M + y
  PROVE  s = t /\ x = y
<1>1. x \in 0 .. M - 1 /\ y \in 0 .. M - 1
  BY DEF Below
<1>2. (s * M + x) \div M = s /\ (s * M + x) % M = x
  BY <1>1, DivModUnique
<1>3. (t * M + y) \div M = t /\ (t * M + y) % M = y
  BY <1>1, DivModUnique
<1> QED
  BY <1>2, <1>3

FatTreePeer(c) == [e \in Ports(OutputsOf(c)) |->
  LET level == e[1] \div PerStage(c)
      pos == e[1] % PerStage(c)
  IN  IF e[2] >= c.k
      THEN <<(level - 1) * PerStage(c) + WithDigit(pos, c.k, c.n - 1 - level, e[2] - c.k),
             Digit(pos, c.k, c.n - 1 - level)>>
      ELSE IF level = c.n - 1 THEN e
      ELSE <<(level + 1) * PerStage(c) + WithDigit(pos, c.k, c.n - 2 - level, e[2]),
             c.k + Digit(pos, c.k, c.n - 2 - level)>>]

LEMMA FatTreeMeets ==
  ASSUME NEW c, LevelSized(c), c.network = "fattree"
  PROVE  Meets(c, FatTreePeer(c))
<1> DEFINE k == c.k
           n == c.n
           M == PerStage(c)
           K == powi(k, n)
           R == FatTreeRouters(c)
           Q(level) == Below(IF level = 0 THEN k ELSE 2 * k)
           out == OutputsOf(c)
           in == InputsOf(c)
           peer == FatTreePeer(c)
           P == Ports(out)
           id(level, pos) == level * M + pos
           dim(level) == n - 1 - level
<1>1. /\ k \in Nat \ {0} /\ k \in Int /\ n \in Nat \ {0} /\ n \in Nat /\ n - 1 \in Nat /\ M \in Nat \ {0} /\ M \in Nat
      /\ M = powi(k, n - 1) /\ K = M * k /\ K \in Nat \ {0} /\ R = Below(n * M) /\ n - 1 \in Below(n) /\ c.nodes = K
  BY LevelsAre DEF LevelSized, FatTreeRouters
<1>2. /\ out = [r \in R |-> FatTreeOutputs(c, r)]
      /\ in = [r \in R |-> FatTreeInputs(c, r)]
  BY DEF OutputsOf, InputsOf, Routers, Outputs, Inputs
<1>3. /\ DOMAIN out = R /\ DOMAIN in = R
      /\ \A r \in R : DOMAIN out[r] = Q(r \div M) /\ DOMAIN in[r] = Q(r \div M)
  <2>1. DOMAIN out = R /\ DOMAIN in = R
    BY <1>2
  <2>2. \A r \in R : out[r] = FatTreeOutputs(c, r) /\ in[r] = FatTreeInputs(c, r)
    BY <1>2
  <2>3. \A r : DOMAIN FatTreeOutputs(c, r) = Q(r \div M) /\ DOMAIN FatTreeInputs(c, r) = Q(r \div M)
    BY DEF FatTreeOutputs, FatTreeInputs, FatTreePorts
  <2> QED
    BY <2>1, <2>2, <2>3
<1>4. IsFiniteSet(P) /\ Ports(in) = P
  <2>1. IsFiniteSet(R)
    BY LevelsAre DEF FatTreeRouters
  <2>2. IsFiniteSet(Below(2 * k))
    <3>1. 0 \in Int /\ 2 * k - 1 \in Int
      BY <1>1
    <3> QED
      BY <3>1, FS_Interval DEF Below
  <2>3. \A level : Q(level) \subseteq Below(2 * k)
    BY <1>1, SMTT(30) DEF Below
  <2> HIDE DEF Q, out, in, R, k
  <2>4. \A r \in DOMAIN out : DOMAIN out[r] \subseteq Below(2 * k)
    BY <1>3, <2>3
  <2>5. IsFiniteSet(P)
    BY <1>3, <2>1, <2>2, <2>4, PortsFinite
  <2>6. Ports(in) = P
    BY <1>3, SamePorts
  <2> QED
    BY <2>5, <2>6
<1>5. ASSUME NEW level \in Below(n), NEW pos \in Below(M)
      PROVE  id(level, pos) \in R /\ id(level, pos) \div M = level /\ id(level, pos) % M = pos
  <2> HIDE DEF M, R, n
  <2>0. n \in Nat /\ M \in Nat \ {0}
    BY <1>1
  <2>1. /\ level * M + pos \in Below(n * M)
        /\ (level * M + pos) \div M = level /\ (level * M + pos) % M = pos
    BY <2>0, Placed
  <2> QED
    BY <1>1, <2>1
<1>6. /\ \A e \in P : \E level \in Below(n), pos \in Below(M) : \E p \in Q(level) : e = <<id(level, pos), p>>
      /\ \A level \in Below(n), pos \in Below(M) : \A p \in Q(level) : <<id(level, pos), p>> \in P
  <2>1. \A r \in R : \E level \in Below(n), pos \in Below(M) : r = id(level, pos)
    <3> HIDE DEF M, R, n
    <3>1. \A r \in Below(n * M) : \E level \in Below(n), pos \in Below(M) : r = level * M + pos
      BY <1>1, Placed
    <3> QED
      BY <1>1, <3>1
  <2> HIDE DEF id, R, Q, M, out
  <2>2. ASSUME NEW e \in P PROVE \E level \in Below(n), pos \in Below(M) : \E p \in Q(level) : e = <<id(level, pos), p>>
    <3>1. PICK r \in R : \E p \in DOMAIN out[r] : e = <<r, p>>
      BY <1>3, PortIn
    <3>2. PICK p \in DOMAIN out[r] : e = <<r, p>>
      BY <3>1
    <3>3. PICK level \in Below(n), pos \in Below(M) : r = id(level, pos)
      BY <2>1
    <3>4. p \in Q(level)
      BY <1>3, <1>5, <3>3
    <3> QED
      BY <3>2, <3>3, <3>4
  <2>3. ASSUME NEW level \in Below(n), NEW pos \in Below(M), NEW p \in Q(level) PROVE <<id(level, pos), p>> \in P
    <3>1. id(level, pos) \in R /\ DOMAIN out[id(level, pos)] = Q(level)
      BY <1>3, <1>5
    <3> QED
      BY <1>3, <3>1, PortIn
  <2> QED
    BY <2>2, <2>3
(* Where a connection goes up, and where it comes down. *)
<1>7. ASSUME NEW level \in Below(n), NEW pos \in Below(M), NEW v \in Below(k), level # 0
      PROVE  /\ level - 1 \in Below(n) /\ level - 1 # n - 1 /\ n - 2 - (level - 1) = dim(level) /\ level - 1 + 1 = level
             /\ dim(level) \in Below(n - 1) /\ dim(level) \in Nat
             /\ WithDigit(pos, k, dim(level), v) \in Below(M) /\ Digit(pos, k, dim(level)) \in Below(k)
             /\ Digit(WithDigit(pos, k, dim(level), v), k, dim(level)) = v
             /\ WithDigit(WithDigit(pos, k, dim(level), v), k, dim(level), Digit(pos, k, dim(level))) = pos
             /\ Interleaved(c, powi(k, dim(level)), pos, v)
                  = WithDigit(pos, k, dim(level), v) * k + Digit(pos, k, dim(level))
  <2>1. /\ level - 1 \in Below(n) /\ level - 1 # n - 1 /\ n - 2 - (level - 1) = dim(level) /\ level - 1 + 1 = level
        /\ dim(level) \in Below(n - 1) /\ dim(level) \in Nat
    <3> HIDE DEF n
    <3>1. level \in Int /\ level >= 1 /\ level <= n - 1 /\ n \in Int
      BY <1>1, <1>7 DEF Below
    <3> QED
      BY <3>1 DEF Below
  <2> HIDE DEF dim
  <2> DEFINE n1 == n - 1
             d == dim(level)
  <2>2. n1 \in Nat /\ d \in Below(n1) /\ pos \in Below(powi(k, n1)) /\ M = powi(k, n1) /\ d \in Nat /\ pos \in Nat
    <3>1. pos \in Nat
      BY <1>1 DEF Below
    <3> QED
      BY <1>1, <2>1, <3>1
  <2>3. Interleaved(c, powi(k, d), pos, v) = WithDigit(pos, k, d, v) * k + Digit(pos, k, d)
    <3> HIDE DEF d
    <3> QED
      BY <1>1, <2>2, InterleavedIs
  <2> HIDE DEF n1, d, k
  <2>4. /\ WithDigit(pos, k, d, v) \in Below(M) /\ Digit(pos, k, d) \in Below(k)
        /\ Digit(WithDigit(pos, k, d, v), k, d) = v
        /\ WithDigit(WithDigit(pos, k, d, v), k, d, Digit(pos, k, d)) = pos
    BY <1>1, <2>2, DigitExchanged
  <2> QED
    BY <2>1, <2>3, <2>4 DEF d
<1>8. ASSUME NEW level \in Below(n), NEW pos \in Below(M), NEW p \in Q(level)
      PROVE  /\ At(out, <<id(level, pos), p>>) = IF p >= k THEN Chan((2 * level - 1) * K + pos * k + (p - k))
                                                 ELSE IF level = n - 1 THEN NodeLink(pos * k + p)
                                                 ELSE Chan(level * 2 * K + pos * k + p)
             /\ At(in, <<id(level, pos), p>>) =
                  IF p >= k THEN Chan((level - 1) * 2 * K + 0 * k + 0 + Interleaved(c, powi(k, n - 1 - level), pos, p - k))
                  ELSE IF level = n - 1 THEN NodeLink(pos * k + p)
                  ELSE Chan((2 * (level + 1) - 1) * K + 0 * k + 0 + Interleaved(c, powi(k, n - 2 - level), pos, p))
             /\ peer[<<id(level, pos), p>>] =
                  IF p >= k THEN <<id(level - 1, WithDigit(pos, k, n - 1 - level, p - k)), Digit(pos, k, n - 1 - level)>>
                  ELSE IF level = n - 1 THEN <<id(level, pos), p>>
                  ELSE <<id(level + 1, WithDigit(pos, k, n - 2 - level, p)), k + Digit(pos, k, n - 2 - level)>>
  <2> DEFINE r == id(level, pos)
  <2>1. r \in R /\ r \div M = level /\ r % M = pos /\ <<r, p>> \in P
    BY <1>5, <1>6
  <2> HIDE DEF id, M, r, R, P
  <2>2. At(out, <<r, p>>) = FatTreeOutputs(c, r)[p] /\ At(in, <<r, p>>) = FatTreeInputs(c, r)[p]
    BY <1>2, <2>1 DEF At
  <2>3. FatTreeOutputs(c, r)[p] = IF p >= k THEN Chan((2 * level - 1) * K + pos * k + (p - k))
                                  ELSE IF level = n - 1 THEN NodeLink(pos * k + p)
                                  ELSE Chan(level * 2 * K + pos * k + p)
    BY <2>1 DEF FatTreeOutputs, FatTreePorts, UpLink, DownLink, PerDirection, M
  <2>4. FatTreeInputs(c, r)[p] =
          IF p >= k THEN Chan((level - 1) * 2 * K + 0 * k + 0 + Interleaved(c, powi(k, n - 1 - level), pos, p - k))
          ELSE IF level = n - 1 THEN NodeLink(pos * k + p)
          ELSE Chan((2 * (level + 1) - 1) * K + 0 * k + 0 + Interleaved(c, powi(k, n - 2 - level), pos, p))
    BY <2>1 DEF FatTreeInputs, FatTreePorts, UpLink, DownLink, PerDirection, M
  <2>5. peer[<<r, p>>] =
          IF p >= k THEN <<(level - 1) * M + WithDigit(pos, k, n - 1 - level, p - k), Digit(pos, k, n - 1 - level)>>
          ELSE IF level = n - 1 THEN <<r, p>>
          ELSE <<(level + 1) * M + WithDigit(pos, k, n - 2 - level, p), k + Digit(pos, k, n - 2 - level)>>
    BY <2>1 DEF FatTreePeer, P, M
  <2> QED
    BY <2>2, <2>3, <2>4, <2>5 DEF r, id
<1> HIDE DEF out, in, peer, K, M, R
<1>9. ASSUME NEW level \in Below(n), NEW pos \in Below(M), NEW p \in Q(level)
      PROVE  /\ p \in Int /\ level \in Int /\ level * 2 \in Int /\ pos \in Int
             /\ p >= k => level # 0 /\ p - k \in Below(k)
             /\ ~(p >= k) => p \in Below(k)
  <2>1. level \in Int /\ pos \in Int /\ p \in Int
    BY <1>1 DEF Below
  <2> HIDE DEF k
  <2>4. level = 0 => p \in Below(k)
    OBVIOUS
  <2>5. level # 0 => p \in Below(2 * k)
    OBVIOUS
  <2>6. p >= 0 /\ (level = 0 => p < k) /\ p < 2 * k
    BY <1>1, <2>1, <2>4, <2>5, SMTT(30) DEF Below
  <2>2. p >= k => level # 0 /\ p - k \in Below(k)
    BY <1>1, <2>1, <2>6 DEF Below
  <2>3. ~(p >= k) => p \in Below(k)
    BY <1>1, <2>1, <2>6 DEF Below
  <2> QED
    BY <2>1, <2>2, <2>3
<1>10. ASSUME NEW level \in Below(n), NEW pos \in Below(M), NEW p \in Q(level), p >= k
       PROVE  LET e == <<id(level, pos), p>>
              IN  peer[e] \in P /\ peer[peer[e]] = e /\ At(in, e) = At(out, peer[e])
  <2> DEFINE e == <<id(level, pos), p>>
             v == p - k
             t == level - 1
             d == dim(level)
             a == WithDigit(pos, k, d, v)
             g == Digit(pos, k, d)
  <2>1. level # 0 /\ v \in Below(k) /\ v \in Int
    BY <1>1, <1>9, <1>10
  <2>2. /\ t \in Below(n) /\ t # n - 1 /\ n - 2 - t = d /\ t + 1 = level
        /\ a \in Below(M) /\ g \in Below(k)
        /\ Digit(a, k, d) = v /\ WithDigit(a, k, d, g) = pos
        /\ Interleaved(c, powi(k, d), pos, v) = a * k + g
    <3> HIDE DEF v
    <3> QED
      BY <1>7, <2>1
  <2>3. peer[e] = <<id(t, a), g>>
    BY <1>8, <1>10
  <2>4. At(in, e) = Chan(t * 2 * K + 0 * k + 0 + Interleaved(c, powi(k, d), pos, v))
    BY <1>8, <1>10
  <2> HIDE DEF t, d, a, g, e
  <2>5. g \in Q(t) /\ ~(g >= k) /\ k + v = p
    <3> HIDE DEF k
    <3>1. g \in Int /\ 0 <= g /\ g < k /\ p \in Int
      BY <1>1, <1>9, <2>2 DEF Below
    <3>2. g \in Below(k) /\ g \in Below(2 * k)
      BY <1>1, <3>1 DEF Below
    <3>3. g \in Q(t)
      BY <3>2
    <3>4. ~(g >= k) /\ k + v = p
      BY <1>1, <3>1 DEF v
    <3> QED
      BY <3>3, <3>4
  <2>6. <<id(t, a), g>> \in P
    BY <1>6, <2>2, <2>5
  <2>7. At(out, <<id(t, a), g>>) = Chan(t * 2 * K + a * k + g)
    <3>1. At(out, <<id(t, a), g>>) = IF g >= k THEN Chan((2 * t - 1) * K + a * k + (g - k))
                                     ELSE IF t = n - 1 THEN NodeLink(a * k + g)
                                     ELSE Chan(t * 2 * K + a * k + g)
      <4>1. t \in Below(n) /\ a \in Below(M) /\ g \in Q(t)
        BY <2>2, <2>5
      <4> HIDE DEF id, n, k, Q
      <4> QED
        BY <1>8, <4>1
    <3> HIDE DEF id, n, k
    <3> QED
      BY <2>2, <2>5, <3>1
  <2>8. t * 2 * K + 0 * k + 0 + (a * k + g) = t * 2 * K + a * k + g
    <3> DEFINE x == t * 2 * K
               y == a * k
    <3>0. t \in Int /\ a \in Int /\ g \in Int
      <4> HIDE DEF k, n
      <4> QED
        BY <2>2 DEF Below
    <3>1. x \in Int /\ y \in Int /\ g \in Int /\ 0 * k = 0
      BY <1>1, <3>0
    <3>2. x + 0 + 0 + (y + g) = x + y + g
      <4> HIDE DEF x, y
      <4> QED
        BY <3>1
    <3> QED
      BY <3>1, <3>2
  <2>9. peer[<<id(t, a), g>>] = <<id(t + 1, WithDigit(a, k, n - 2 - t, g)), k + Digit(a, k, n - 2 - t)>>
    BY <1>8, <2>2, <2>5, ZenonT(40)
  <2> HIDE DEF id, v
  <2>10. peer[<<id(t, a), g>>] = e
    BY <2>2, <2>5, <2>9 DEF e
  <2> QED
    BY <2>2, <2>3, <2>4, <2>6, <2>7, <2>8, <2>10 DEF e
<1>11. ASSUME NEW level \in Below(n), NEW pos \in Below(M), NEW p \in Q(level), ~(p >= k), level # n - 1
       PROVE  LET e == <<id(level, pos), p>>
              IN  peer[e] \in P /\ peer[peer[e]] = e /\ At(in, e) = At(out, peer[e])
  <2> DEFINE e == <<id(level, pos), p>>
             t == level + 1
             d == dim(t)
             a == WithDigit(pos, k, d, p)
             g == Digit(pos, k, d)
             q == k + g
  <2>1. /\ t \in Below(n) /\ t # 0 /\ t - 1 = level /\ n - 2 - level = d
    <3> HIDE DEF n
    <3>1. level \in Int /\ level >= 0 /\ level <= n - 1 /\ n \in Int
      BY <1>1 DEF Below
    <3> QED
      BY <1>11, <3>1 DEF Below
  <2>2. /\ a \in Below(M) /\ g \in Below(k) /\ p \in Below(k)
        /\ Digit(a, k, d) = p /\ WithDigit(a, k, d, g) = pos
        /\ Interleaved(c, powi(k, d), pos, p) = a * k + g
    <3> HIDE DEF t
    <3> QED
      BY <1>7, <1>9, <1>11, <2>1
  <2>3. peer[e] = <<id(t, a), q>>
    <3> HIDE DEF d
    <3>1. peer[e] = <<id(level + 1, WithDigit(pos, k, n - 2 - level, p)), k + Digit(pos, k, n - 2 - level)>>
      BY <1>8, <1>11
    <3> HIDE DEF id, n
    <3> QED
      BY <2>1, <3>1
  <2>4. At(in, e) = Chan((2 * t - 1) * K + 0 * k + 0 + Interleaved(c, powi(k, d), pos, p))
    <3> HIDE DEF d
    <3>1. At(in, e) = Chan((2 * (level + 1) - 1) * K + 0 * k + 0 + Interleaved(c, powi(k, n - 2 - level), pos, p))
      BY <1>8, <1>11
    <3> HIDE DEF id, n
    <3> QED
      BY <2>1, <3>1
  <2>5. q \in Q(t) /\ q >= k /\ q - k = g
    <3> HIDE DEF g, k, t
    <3>1. g \in Int /\ 0 <= g /\ g < k
      BY <1>1, <2>2 DEF Below
    <3>2. q \in Below(2 * k)
      BY <1>1, <3>1 DEF Below
    <3>3. q \in Q(t)
      BY <2>1, <3>2
    <3>4. q >= k /\ q - k = g
      BY <1>1, <3>1
    <3> QED
      BY <3>3, <3>4
  <2>d. n - 1 - t = d
    OBVIOUS
  <2> HIDE DEF t, d, a, g, e, q
  <2>6. <<id(t, a), q>> \in P
    BY <1>6, <2>1, <2>2, <2>5
  <2>7. At(out, <<id(t, a), q>>) = Chan((2 * t - 1) * K + a * k + g)
    BY <1>8, <2>1, <2>2, <2>5, ZenonT(40)
  <2>8. (2 * t - 1) * K + 0 * k + 0 + (a * k + g) = (2 * t - 1) * K + a * k + g
    <3> DEFINE x == (2 * t - 1) * K
               y == a * k
    <3>1. x \in Int /\ y \in Int /\ g \in Int /\ 0 * k = 0
      <4>1. t \in Int /\ a \in Int /\ g \in Int
        <5> HIDE DEF k, n
        <5> QED
          BY <2>1, <2>2 DEF Below
      <4> QED
        BY <1>1, <4>1
    <3>2. x + 0 + 0 + (y + g) = x + y + g
      <4> HIDE DEF x, y
      <4> QED
        BY <3>1
    <3> QED
      BY <3>1, <3>2
  <2>9. peer[<<id(t, a), q>>] = <<id(t - 1, WithDigit(a, k, n - 1 - t, q - k)), Digit(a, k, n - 1 - t)>>
    BY <1>8, <2>1, <2>2, <2>5
  <2> HIDE DEF id
  <2>10. peer[<<id(t, a), q>>] = e
    BY <2>1, <2>2, <2>5, <2>9, <2>d DEF e
  <2> QED
    BY <2>2, <2>3, <2>4, <2>6, <2>7, <2>8, <2>10 DEF e
<1>12. ASSUME NEW level \in Below(n), NEW pos \in Below(M), NEW p \in Q(level)
       PROVE  LET e == <<id(level, pos), p>>
              IN  peer[e] \in P /\ peer[peer[e]] = e /\ At(in, e) = At(out, peer[e])
  <2>1. CASE ~(p >= k) /\ level = n - 1
    <3> DEFINE e == <<id(level, pos), p>>
    <3>1. peer[e] = e /\ At(in, e) = At(out, e)
      BY <1>8, <2>1, ZenonT(40)
    <3>2. e \in P
      BY <1>6
    <3> HIDE DEF e
    <3> QED
      BY <3>1, <3>2 DEF e
  <2> QED
    BY <1>10, <1>11, <2>1
<1>13. ASSUME NEW s \in Below(n), NEW a \in Below(M), NEW p \in Q(s), NEW t \in Below(n), NEW b \in Below(M), NEW q \in Q(t),
              At(out, <<id(s, a), p>>) = At(out, <<id(t, b), q>>)
       PROVE  s = t /\ a = b /\ p = q
  <2> DEFINE up == p >= k
             uq == q >= k
             i == IF up THEN p - k ELSE p
             j == IF uq THEN q - k ELSE q
             x == a * k + i
             y == b * k + j
             y1 == IF up THEN 2 * s - 1 ELSE s * 2
             y2 == IF uq THEN 2 * t - 1 ELSE t * 2
  <2>1. i \in Below(k) /\ j \in Below(k) /\ s \in Int /\ t \in Int /\ a \in Int /\ b \in Int
    BY <1>9
  <2>2. x \in Below(K) /\ y \in Below(K)
    <3> HIDE DEF i, j, k
    <3>1. \A h \in Below(M), z \in Below(k) : h * k + z \in Below(M * k)
      BY <1>1, Placed
    <3> QED
      BY <1>1, <2>1, <3>1
  <2>3. x = y => a = b /\ i = j
    <3> HIDE DEF i, j, k
    <3>1. i \in 0 .. k - 1 /\ j \in 0 .. k - 1
      BY <2>1 DEF Below
    <3>2. (a * k + i) \div k = a /\ (a * k + i) % k = i
      BY <1>1, <2>1, <3>1, DivModUnique
    <3>3. (b * k + j) \div k = b /\ (b * k + j) % k = j
      BY <1>1, <2>1, <3>1, DivModUnique
    <3> QED
      BY <3>2, <3>3
  <2>4. y1 \in Int /\ y2 \in Int /\ (y1 = y2 => (up <=> uq) /\ s = t)
    BY <2>1
  <2>5. At(out, <<id(s, a), p>>) = IF ~up /\ s = n - 1 THEN NodeLink(x) ELSE Chan(y1 * K + x)
    <3>1. (2 * s - 1) * K + a * k + (p - k) = (2 * s - 1) * K + (a * k + (p - k))
      BY <1>1, <1>9, <2>1
    <3>2. s * 2 * K + a * k + p = s * 2 * K + (a * k + p)
      BY <1>1, <1>9, <2>1
    <3>3. At(out, <<id(s, a), p>>) = IF p >= k THEN Chan((2 * s - 1) * K + a * k + (p - k))
                                     ELSE IF s = n - 1 THEN NodeLink(a * k + p)
                                     ELSE Chan(s * 2 * K + a * k + p)
      BY <1>8
    <3>4. up => x = a * k + (p - k) /\ y1 = 2 * s - 1
      OBVIOUS
    <3>5. ~up => x = a * k + p /\ y1 = s * 2
      OBVIOUS
    <3> HIDE DEF x, y1, id, n
    <3> QED
      BY <3>1, <3>2, <3>3, <3>4, <3>5
  <2>6. At(out, <<id(t, b), q>>) = IF ~uq /\ t = n - 1 THEN NodeLink(y) ELSE Chan(y2 * K + y)
    <3>1. (2 * t - 1) * K + b * k + (q - k) = (2 * t - 1) * K + (b * k + (q - k))
      BY <1>1, <1>9, <2>1
    <3>2. t * 2 * K + b * k + q = t * 2 * K + (b * k + q)
      BY <1>1, <1>9, <2>1
    <3>3. At(out, <<id(t, b), q>>) = IF q >= k THEN Chan((2 * t - 1) * K + b * k + (q - k))
                                     ELSE IF t = n - 1 THEN NodeLink(b * k + q)
                                     ELSE Chan(t * 2 * K + b * k + q)
      BY <1>8, ZenonT(40)
    <3>4. uq => y = b * k + (q - k) /\ y2 = 2 * t - 1
      OBVIOUS
    <3>5. ~uq => y = b * k + q /\ y2 = t * 2
      OBVIOUS
    <3> HIDE DEF y, y2, id, n
    <3> QED
      BY <3>1, <3>2, <3>3, <3>4, <3>5
  <2>7. (up <=> uq) /\ i = j => p = q
    <3>1. p \in Int /\ q \in Int /\ k \in Int
      BY <1>1, <1>9
    <3> HIDE DEF k
    <3> QED
      BY <3>1
  <2> HIDE DEF x, y, y1, y2, i, j, up, uq
  <2>8. CASE ~up /\ s = n - 1
    <3>1. ~uq /\ t = n - 1 /\ x = y
      BY <1>13, <2>5, <2>6, <2>8 DEF NodeLink, Chan
    <3>2. up <=> uq
      BY <2>8, <3>1
    <3> QED
      BY <2>3, <2>7, <2>8, <3>1, <3>2
  <2>9. CASE ~(~up /\ s = n - 1)
    <3>1. y1 * K + x = y2 * K + y
      BY <1>13, <2>5, <2>6, <2>9 DEF NodeLink, Chan
    <3>2. y1 = y2 /\ x = y
      <4>1. K \in Nat \ {0}
        BY <1>1
      <4>2. x \in 0 .. K - 1 /\ y \in 0 .. K - 1
        BY <2>2 DEF Below
      <4>3. (y1 * K + x) \div K = y1 /\ (y1 * K + x) % K = x
        BY <2>4, <4>1, <4>2, DivModUnique
      <4>4. (y2 * K + y) \div K = y2 /\ (y2 * K + y) % K = y
        BY <2>4, <4>1, <4>2, DivModUnique
      <4> QED
        BY <3>1, <4>3, <4>4
    <3> QED
      BY <2>3, <2>4, <2>7, <3>2
  <2> QED
    BY <2>8, <2>9
<1>14. ASSUME NEW i \in Nodes(c) PROVE \E e \in P : At(out, e) = NodeLink(i)
  <2>1. i \in Below(M * k)
    BY <1>1 DEF Nodes
  <2>2. PICK a \in Below(M), p \in Below(k) : i = a * k + p
    <3> HIDE DEF k
    <3>2. \A j \in Below(M * k) : \E a \in Below(M), p \in Below(k) : j = a * k + p
      BY <1>1, Placed
    <3> QED
      BY <2>1, <3>2
  <2> DEFINE n1 == n - 1
  <2>3. p \in Q(n1) /\ ~(p >= k) /\ n1 \in Below(n)
    BY <1>1, SMTT(30) DEF Below
  <2>4. At(out, <<id(n1, a), p>>) = NodeLink(i) /\ <<id(n1, a), p>> \in P
    BY <1>6, <1>8, <2>2, <2>3
  <2> HIDE DEF id, n1
  <2> QED
    BY <2>4
<1>15. peer = [e \in P |-> peer[e]]
  BY DEF peer, FatTreePeer, out
<1> HIDE DEF id, P, Q
<1>16. \A e \in P : peer[e] \in P /\ peer[peer[e]] = e /\ At(in, e) = At(out, peer[e])
  <2> SUFFICES ASSUME NEW e \in P PROVE peer[e] \in P /\ peer[peer[e]] = e /\ At(in, e) = At(out, peer[e])
    OBVIOUS
  <2>1. PICK s \in Below(n), a \in Below(M) : \E p \in Q(s) : e = <<id(s, a), p>>
    BY <1>6
  <2>2. PICK p \in Q(s) : e = <<id(s, a), p>>
    BY <2>1
  <2> QED
    BY <1>12, <2>2
<1>17. \A e, g \in P : At(out, e) = At(out, g) => e = g
  <2> SUFFICES ASSUME NEW e \in P, NEW g \in P, At(out, e) = At(out, g) PROVE e = g
    OBVIOUS
  <2>1. PICK s \in Below(n), a \in Below(M) : \E p \in Q(s) : e = <<id(s, a), p>>
    BY <1>6
  <2>2. PICK p \in Q(s) : e = <<id(s, a), p>>
    BY <2>1
  <2>3. PICK t \in Below(n), b \in Below(M) : \E q \in Q(t) : g = <<id(t, b), q>>
    BY <1>6
  <2>4. PICK q \in Q(t) : g = <<id(t, b), q>>
    BY <2>3
  <2>5. s = t /\ a = b /\ p = q
    BY <1>13, <2>2, <2>4
  <2> QED
    BY <2>2, <2>4, <2>5
<1>18. /\ Ports(OutputsOf(c)) = P /\ Ports(InputsOf(c)) = P
       /\ \A e, g \in P : At(OutputsOf(c), e) = At(OutputsOf(c), g) => e = g
       /\ \A e \in P : peer[e] \in P /\ peer[peer[e]] = e /\ At(InputsOf(c), e) = At(OutputsOf(c), peer[e])
       /\ \A i \in Nodes(c) : \E e \in P : At(OutputsOf(c), e) = NodeLink(i)
  BY <1>4, <1>14, <1>16, <1>17 DEF out, in, P
<1>19. Meets(c, peer)
  BY <1>4, <1>15, <1>18, PeersMeet
<1> QED
  BY <1>19 DEF peer

-----------------------------------------------------------------------------
(* Networks all of whose routers have conc nodes and S other routers: node *)
(* and chan number the channels of their ports, far is the other end of a  *)
(* channel between routers.                                                *)
Concentrated(c, R, conc, S, node, chan, far) ==
  LET lanes == R \X Below(S)
      out == OutputsOf(c)
      in == InputsOf(c)
  IN  /\ IsFiniteSet(R) /\ conc \in Nat /\ S \in Nat
      /\ DOMAIN out = R /\ DOMAIN in = R
      /\ \A r \in R : DOMAIN out[r] = Below(conc + S) /\ DOMAIN in[r] = Below(conc + S)
      /\ \A r \in R, p \in Below(conc) : out[r][p] = NodeLink(node[<<r, p>>]) /\ in[r][p] = NodeLink(node[<<r, p>>])
      /\ \A r \in R, q \in Below(S) : out[r][conc + q] = Chan(chan[<<r, q>>]) /\ in[r][conc + q] = Chan(chan[far[<<r, q>>]])
      /\ \A r, s \in R : \A p, q \in Below(conc) : node[<<r, p>>] = node[<<s, q>>] => r = s /\ p = q
      /\ \A i \in Nodes(c) : \E r \in R, p \in Below(conc) : node[<<r, p>>] = i
      /\ \A l, m \in lanes : chan[l] = chan[m] => l = m
      /\ \A l \in lanes : far[l] \in lanes
      /\ \A l, m \in lanes : far[l] = far[m] => l = m

ConcentratedPeer(R, conc, S, far) == [e \in R \X Below(conc + S) |->
  IF e[2] < conc THEN e ELSE <<far[<<e[1], e[2] - conc>>][1], conc + far[<<e[1], e[2] - conc>>][2]>>]

LEMMA ConcentratedMeets ==
  ASSUME NEW c, NEW R, NEW conc, NEW S, NEW node, NEW chan, NEW far, Concentrated(c, R, conc, S, node, chan, far)
  PROVE  Meets(c, ConcentratedPeer(R, conc, S, far))
<1> DEFINE Q == Below(conc + S)
           P == R \X Q
           out == OutputsOf(c)
           inp == InputsOf(c)
           peer == ConcentratedPeer(R, conc, S, far)
           lanes == R \X Below(S)
<1>1. /\ IsFiniteSet(R) /\ conc \in Nat /\ S \in Nat
      /\ DOMAIN out = R /\ DOMAIN inp = R
      /\ \A r \in R : DOMAIN out[r] = Q /\ DOMAIN inp[r] = Q
  BY DEF Concentrated
<1>2. \A r \in R, p \in Below(conc) : At(out, <<r, p>>) = NodeLink(node[<<r, p>>]) /\ At(inp, <<r, p>>) = NodeLink(node[<<r, p>>])
  <2>1. \A r \in R, p \in Below(conc) : out[r][p] = NodeLink(node[<<r, p>>]) /\ inp[r][p] = NodeLink(node[<<r, p>>])
    BY DEF Concentrated
  <2> HIDE DEF out, inp
  <2>2. ASSUME NEW r \in R, NEW p \in Below(conc)
        PROVE  At(out, <<r, p>>) = out[r][p] /\ At(inp, <<r, p>>) = inp[r][p]
    BY DEF At
  <2> QED
    BY <2>1, <2>2
<1>3. \A r \in R, q \in Below(S) : At(out, <<r, conc + q>>) = Chan(chan[<<r, q>>]) /\ At(inp, <<r, conc + q>>) = Chan(chan[far[<<r, q>>]])
  <2>1. \A r \in R, q \in Below(S) : out[r][conc + q] = Chan(chan[<<r, q>>]) /\ inp[r][conc + q] = Chan(chan[far[<<r, q>>]])
    BY DEF Concentrated
  <2> HIDE DEF out, inp
  <2>2. ASSUME NEW r \in R, NEW q \in Below(S)
        PROVE  At(out, <<r, conc + q>>) = out[r][conc + q] /\ At(inp, <<r, conc + q>>) = inp[r][conc + q]
    BY DEF At
  <2> QED
    BY <2>1, <2>2
<1>4. /\ \A r, s \in R : \A p, q \in Below(conc) : node[<<r, p>>] = node[<<s, q>>] => r = s /\ p = q
      /\ \A i \in Nodes(c) : \E r \in R, p \in Below(conc) : node[<<r, p>>] = i
  BY DEF Concentrated
<1>5. /\ \A l, m \in lanes : chan[l] = chan[m] => l = m
      /\ \A l \in lanes : far[l] \in lanes
      /\ \A l, m \in lanes : far[l] = far[m] => l = m
  BY DEF Concentrated
<1>6. Ports(out) = P /\ Ports(inp) = P
  <2> HIDE DEF out, inp, Q
  <2>1. Uniform(out, R, Q) /\ Uniform(inp, R, Q)
    BY <1>1 DEF Uniform
  <2> QED
    BY <2>1, UniformPorts
<1>7. IsFiniteSet(P)
  <2>1. IsFiniteSet(Q)
    <3>1. 0 \in Int /\ (conc + S) - 1 \in Int
      BY <1>1
    <3>2. IsFiniteSet(0 .. (conc + S) - 1)
      BY <3>1, FS_Interval
    <3> QED
      BY <3>2 DEF Below
  <2> QED
    BY <1>1, <2>1, FS_Product
<1>8. \A p \in Q : IF p < conc THEN p \in Below(conc) ELSE p - conc \in Below(S) /\ p = conc + (p - conc)
  BY <1>1 DEF Below
<1>9. /\ \A p \in Below(conc) : p \in Q /\ p < conc
      /\ \A q \in Below(S) : conc + q \in Q /\ ~(conc + q < conc) /\ (conc + q) - conc = q
  BY <1>1 DEF Below
<1>10. \A e \in P : \/ \E r \in R, p \in Below(conc) : e = <<r, p>>
                    \/ \E r \in R, q \in Below(S) : e = <<r, conc + q>>
  <2> SUFFICES ASSUME NEW e \in P
               PROVE  \/ \E r \in R, p \in Below(conc) : e = <<r, p>>
                      \/ \E r \in R, q \in Below(S) : e = <<r, conc + q>>
    OBVIOUS
  <2> HIDE DEF Q
  <2>1. PICK r \in R, p \in Q : e = <<r, p>>
    OBVIOUS
  <2>2. CASE p < conc
    BY <1>8, <2>1, <2>2
  <2>3. CASE ~(p < conc)
    <3>1. p - conc \in Below(S) /\ p = conc + (p - conc)
      BY <1>8, <2>3
    <3> QED
      BY <2>1, <3>1
  <2> QED
    BY <2>2, <2>3
<1>11. ASSUME NEW r \in R, NEW p \in Below(conc) PROVE peer[<<r, p>>] = <<r, p>> /\ <<r, p>> \in P
  BY <1>9 DEF ConcentratedPeer
<1>12. ASSUME NEW r \in R, NEW q \in Below(S)
       PROVE  /\ peer[<<r, conc + q>>] = <<far[<<r, q>>][1], conc + far[<<r, q>>][2]>>
              /\ <<r, conc + q>> \in P /\ far[<<r, q>>][1] \in R /\ far[<<r, q>>][2] \in Below(S)
              /\ far[<<r, q>>] = <<far[<<r, q>>][1], far[<<r, q>>][2]>>
  <2> DEFINE p == conc + q
  <2>1. p \in Q /\ ~(p < conc) /\ p - conc = q
    BY <1>9
  <2>2. peer[<<r, p>>] = IF p < conc THEN <<r, p>> ELSE <<far[<<r, p - conc>>][1], conc + far[<<r, p - conc>>][2]>>
    <3> HIDE DEF p
    <3> QED
      BY <2>1 DEF ConcentratedPeer
  <2>3. <<r, q>> \in lanes
    OBVIOUS
  <2>4. far[<<r, q>>] \in lanes
    BY <1>5, <2>3
  <2> HIDE DEF p, Q
  <2>5. peer[<<r, p>>] = <<far[<<r, q>>][1], conc + far[<<r, q>>][2]>>
    BY <2>1, <2>2
  <2> QED
    BY <2>1, <2>4, <2>5 DEF p
<1> HIDE DEF out, inp, peer, Q, P
<1>18. \A x, y : NodeLink(x) # Chan(y)
  BY DEF NodeLink, Chan
<1>13. \A e, g \in P : At(out, e) = At(out, g) => e = g
  <2> SUFFICES ASSUME NEW e \in P, NEW g \in P, At(out, e) = At(out, g) PROVE e = g
    OBVIOUS
  <2>1. CASE \E r \in R, p \in Below(conc) : e = <<r, p>>
    <3>1. PICK r \in R, p \in Below(conc) : e = <<r, p>>
      BY <2>1
    <3>2. At(out, e) = NodeLink(node[<<r, p>>])
      BY <1>2, <3>1
    <3>3. ~ \E s \in R, q \in Below(S) : g = <<s, conc + q>>
      BY <1>3, <1>18, <3>2
    <3>4. PICK s \in R, q \in Below(conc) : g = <<s, q>>
      BY <1>10, <3>3
    <3>5. NodeLink(node[<<r, p>>]) = NodeLink(node[<<s, q>>])
      BY <1>2, <3>2, <3>4
    <3>6. node[<<r, p>>] = node[<<s, q>>]
      BY <3>5 DEF NodeLink
    <3> QED
      BY <1>4, <3>1, <3>4, <3>6
  <2>2. CASE \E r \in R, q \in Below(S) : e = <<r, conc + q>>
    <3>1. PICK r \in R, q \in Below(S) : e = <<r, conc + q>>
      BY <2>2
    <3>2. At(out, e) = Chan(chan[<<r, q>>])
      BY <1>3, <3>1
    <3>3. ~ \E s \in R, p \in Below(conc) : g = <<s, p>>
      BY <1>2, <1>18, <3>2
    <3>4. PICK s \in R, p \in Below(S) : g = <<s, conc + p>>
      BY <1>10, <3>3
    <3>5. Chan(chan[<<r, q>>]) = Chan(chan[<<s, p>>])
      BY <1>3, <3>2, <3>4
    <3>6. chan[<<r, q>>] = chan[<<s, p>>]
      BY <3>5 DEF Chan
    <3>7. <<r, q>> \in lanes /\ <<s, p>> \in lanes
      OBVIOUS
    <3>8. <<r, q>> = <<s, p>>
      BY <1>5, <3>6, <3>7
    <3> QED
      BY <3>1, <3>4, <3>8
  <2> QED
    BY <1>10, <2>1, <2>2
<1>14. \A e \in P : peer[e] \in P /\ At(inp, e) = At(out, peer[e])
  <2> SUFFICES ASSUME NEW e \in P PROVE peer[e] \in P /\ At(inp, e) = At(out, peer[e])
    OBVIOUS
  <2>1. CASE \E r \in R, p \in Below(conc) : e = <<r, p>>
    BY <1>2, <1>11, <2>1
  <2>2. CASE \E r \in R, q \in Below(S) : e = <<r, conc + q>>
    <3>1. PICK r \in R, q \in Below(S) : e = <<r, conc + q>>
      BY <2>2
    <3> DEFINE s == far[<<r, q>>][1]
               p == far[<<r, q>>][2]
    <3>2. peer[e] = <<s, conc + p>> /\ s \in R /\ p \in Below(S) /\ far[<<r, q>>] = <<s, p>>
      BY <1>12, <3>1
    <3> HIDE DEF s, p
    <3>3. <<s, conc + p>> \in P /\ At(out, <<s, conc + p>>) = Chan(chan[<<s, p>>])
      BY <1>3, <1>12, <3>2
    <3>4. At(inp, e) = Chan(chan[far[<<r, q>>]])
      BY <1>3, <3>1
    <3> QED
      BY <3>2, <3>3, <3>4
  <2> QED
    BY <1>10, <2>1, <2>2
<1>15. \A e, g \in P : peer[e] = peer[g] => e = g
  <2>0. \A p, q \in Below(S) : conc + p = conc + q => p = q
    BY <1>1 DEF Below
  <2>a. \A p \in Below(conc), q \in Below(S) : p # conc + q
    BY <1>1 DEF Below
  <2> SUFFICES ASSUME NEW e \in P, NEW g \in P, peer[e] = peer[g] PROVE e = g
    OBVIOUS
  <2>1. CASE \E r \in R, p \in Below(conc) : e = <<r, p>>
    <3>1. PICK r \in R, p \in Below(conc) : e = <<r, p>>
      BY <2>1
    <3>2. peer[e] = <<r, p>>
      BY <1>11, <3>1
    <3>3. ASSUME NEW s \in R, NEW q \in Below(S), g = <<s, conc + q>> PROVE FALSE
      <4>1. peer[g] = <<far[<<s, q>>][1], conc + far[<<s, q>>][2]>> /\ far[<<s, q>>][2] \in Below(S)
        BY <1>12, <3>3
      <4>2. <<r, p>> = <<far[<<s, q>>][1], conc + far[<<s, q>>][2]>>
        BY <3>2, <4>1
      <4> QED
        BY <2>a, <4>1, <4>2
    <3> QED
      BY <1>10, <1>11, <3>1, <3>2, <3>3
  <2>2. CASE \E r \in R, q \in Below(S) : e = <<r, conc + q>>
    <3>1. PICK r \in R, q \in Below(S) : e = <<r, conc + q>>
      BY <2>2
    <3>2. peer[e] = <<far[<<r, q>>][1], conc + far[<<r, q>>][2]>> /\ far[<<r, q>>][2] \in Below(S)
      BY <1>12, <3>1
    <3>3. ASSUME NEW s \in R, NEW p \in Below(conc), g = <<s, p>> PROVE FALSE
      <4>1. peer[g] = <<s, p>>
        BY <1>11, <3>3
      <4>2. <<s, p>> = <<far[<<r, q>>][1], conc + far[<<r, q>>][2]>>
        BY <3>2, <4>1
      <4> QED
        BY <2>a, <3>2, <4>2
    <3>4. PICK s \in R, p \in Below(S) : g = <<s, conc + p>>
      BY <1>10, <3>3
    <3>5. peer[g] = <<far[<<s, p>>][1], conc + far[<<s, p>>][2]>> /\ far[<<s, p>>][2] \in Below(S)
      BY <1>12, <3>4
    <3>6. far[<<r, q>>][1] = far[<<s, p>>][1] /\ conc + far[<<r, q>>][2] = conc + far[<<s, p>>][2]
      <4>1. <<far[<<r, q>>][1], conc + far[<<r, q>>][2]>> = <<far[<<s, p>>][1], conc + far[<<s, p>>][2]>>
        BY <3>2, <3>5
      <4> QED
        BY <4>1
    <3>7. far[<<r, q>>][2] = far[<<s, p>>][2]
      BY <2>0, <3>2, <3>5, <3>6
    <3>8. far[<<r, q>>] = far[<<s, p>>]
      <4>1. far[<<r, q>>] = <<far[<<r, q>>][1], far[<<r, q>>][2]>> /\ far[<<s, p>>] = <<far[<<s, p>>][1], far[<<s, p>>][2]>>
        BY <1>12
      <4> QED
        BY <3>6, <3>7, <4>1
    <3>9. <<r, q>> \in lanes /\ <<s, p>> \in lanes
      OBVIOUS
    <3>10. <<r, q>> = <<s, p>>
      BY <1>5, <3>8, <3>9
    <3> QED
      BY <3>1, <3>4, <3>10
  <2> QED
    BY <1>10, <2>1, <2>2
<1>16. \A i \in Nodes(c) : \E e \in P : At(out, e) = NodeLink(i)
  <2> SUFFICES ASSUME NEW i \in Nodes(c) PROVE \E e \in P : At(out, e) = NodeLink(i)
    OBVIOUS
  <2>1. PICK r \in R, p \in Below(conc) : node[<<r, p>>] = i
    BY <1>4
  <2>2. At(out, <<r, p>>) = NodeLink(i) /\ <<r, p>> \in P
    BY <1>2, <1>11, <2>1
  <2> QED
    BY <2>2
<1>17. peer \in [P -> P]
  <2>1. peer = [e \in P |-> peer[e]]
    BY DEF peer, ConcentratedPeer, P, Q
  <2> QED
    BY <1>14, <2>1
<1> HIDE DEF lanes
<1>20. /\ Ports(OutputsOf(c)) = P /\ Ports(InputsOf(c)) = P
       /\ \A e, g \in P : At(OutputsOf(c), e) = At(OutputsOf(c), g) => e = g
       /\ \A e \in P : At(InputsOf(c), e) = At(OutputsOf(c), peer[e])
       /\ \A i \in Nodes(c) : \E e \in P : At(OutputsOf(c), e) = NodeLink(i)
  BY <1>6, <1>13, <1>14, <1>16 DEF out, inp
<1>19. Meets(c, peer)
  BY <1>7, <1>15, <1>17, <1>20 DEF Meets, Matched
<1> QED
  BY <1>19 DEF peer

-----------------------------------------------------------------------------
(* Dragonfly.                                                              *)
(* The i-th of the numbers other than d, and the place of d among the      *)
(* numbers other than j.                                                   *)
Skipped(d, i) == IF i < d THEN i ELSE i + 1
PlaceOf(j, d) == IF j < d THEN d - 1 ELSE d
LEMMA OthersMeet ==
  ASSUME NEW m \in Nat, NEW d \in Below(m + 1), NEW i \in Below(m)
  PROVE  /\ Skipped(d, i) \in Below(m + 1) /\ Skipped(d, i) # d
         /\ PlaceOf(Skipped(d, i), d) \in Below(m)
         /\ Skipped(Skipped(d, i), PlaceOf(Skipped(d, i), d)) = d
         /\ PlaceOf(d, Skipped(d, i)) = i
BY DEF Skipped, PlaceOf, Below

(* The products the numbers of channels are made of. *)
LEMMA SlotOf ==
  ASSUME NEW S \in Int, NEW A \in Int, NEW g \in Int, NEW j \in Int
  PROVE  S * (g * A + j) = g * S * A + j * S
OBVIOUS

DragonNode(c) == [l \in DragonFlyRouters(c) \X Below(c.k) |-> c.k * l[1] + l[2]]
DragonChan(c) == [l \in DragonFlyRouters(c) \X Below(PortsPerSwitch(c)) |-> PortsPerSwitch(c) * l[1] + l[2]]
DragonFar(c) == [l \in DragonFlyRouters(c) \X Below(PortsPerSwitch(c)) |->
  LET A == GroupRouters(c)
      group == l[1] \div A
      d == l[1] % A
      j == Skipped(d, l[2])
      output == d * c.k + (l[2] - (A - 1))
      t == PlaceOf(Skipped(group, output), group)
  IN  IF l[2] < A - 1 THEN <<group * A + j, PlaceOf(j, d)>>
      ELSE <<Skipped(group, output) * A + (t \div c.k), A - 1 + (t % c.k)>>]

LEMMA DragonFlyConcentrated ==
  ASSUME NEW c, c.network = "dragonfly", DragonFlySized(c)
  PROVE  Concentrated(c, DragonFlyRouters(c), c.k, PortsPerSwitch(c), DragonNode(c), DragonChan(c), DragonFar(c))
<1> DEFINE k == c.k
           A == GroupRouters(c)
           g == Groups(c)
           S == PortsPerSwitch(c)
           R == DragonFlyRouters(c)
           a1 == A - 1
           m == A * k
           id(G, d) == G * A + d
           out == OutputsOf(c)
           inp == InputsOf(c)
           node == DragonNode(c)
           chan == DragonChan(c)
           far == DragonFar(c)
<1>1. /\ k \in Nat \ {0} /\ k \in Nat /\ A = 2 * k /\ A \in Nat \ {0} /\ A \in Nat /\ a1 \in Nat /\ A = a1 + 1
      /\ S = 3 * k - 1 /\ S \in Nat \ {0} /\ S \in Nat /\ S = a1 + k /\ S - k = a1
      /\ m \in Nat /\ m = A * k /\ g = m + 1 /\ g \in Nat
  BY DEF DragonFlySized, GroupRouters, PortsPerSwitch, Groups
<1>2. R = Below(A * g) /\ A * g = g * A /\ g * A \in Nat
  <2>1. R = Below(A * g)
    BY DEF DragonFlyRouters
  <2>2. A \in Nat /\ g \in Nat
    BY <1>1
  <2> HIDE DEF A, g, R
  <2> QED
    BY <2>1, <2>2
<1>3. out = [r \in R |-> DragonFlyOutputs(c, r)] /\ inp = [r \in R |-> DragonFlyInputs(c, r)]
  BY DEF OutputsOf, InputsOf, Routers, Outputs, Inputs
<1>4. /\ \A r \in R, p \in Below(k) : <<r, p>> \in R \X Below(k) /\ node[<<r, p>>] = k * r + p
      /\ \A r \in R, q \in Below(S) : <<r, q>> \in R \X Below(S) /\ chan[<<r, q>>] = S * r + q
  BY DEF DragonNode, DragonChan
<1>5. ASSUME NEW r \in R, NEW q \in Below(S)
      PROVE  far[<<r, q>>] = LET G == r \div A
                                 d == r % A
                                 j == Skipped(d, q)
                                 output == d * k + (q - a1)
                                 t == PlaceOf(Skipped(G, output), G)
                             IN  IF q < a1 THEN <<G * A + j, PlaceOf(j, d)>>
                                 ELSE <<Skipped(G, output) * A + (t \div k), a1 + (t % k)>>
  BY DEF DragonFar
<1>6. ASSUME NEW r \in R
      PROVE  /\ out[r] = [p \in Below(k + S) |-> IF p < k THEN NodeLink(k * r + p) ELSE Chan(S * r + (p - k))]
             /\ inp[r] = [p \in Below(k + S) |->
                            IF p < k THEN NodeLink(k * r + p)
                            ELSE IF p < 3 * k - 1 THEN Chan(LocalInput(c, r, p - k))
                            ELSE Chan(GlobalInput(c, r, p - (3 * k - 1)))]
  <2>1. out[r] = DragonFlyOutputs(c, r) /\ inp[r] = DragonFlyInputs(c, r)
    BY <1>3
  <2> QED
    BY <2>1 DEF DragonFlyOutputs, DragonFlyInputs
<1>7. DOMAIN out = R /\ DOMAIN inp = R /\ \A r \in R : DOMAIN out[r] = Below(k + S) /\ DOMAIN inp[r] = Below(k + S)
  <2>1. DOMAIN out = R /\ DOMAIN inp = R
    BY <1>3
  <2> HIDE DEF out, inp, S, k, R
  <2> QED
    BY <1>6, <2>1
<1> HIDE DEF out, inp, node, chan, far
<1>9. /\ \A r, q : LocalInput(c, r, q) = IF q < r % A THEN (r \div A) * S * A + q * S + ((r % A) - 1)
                                         ELSE (r \div A) * S * A + (q + 1) * S + (r % A)
      /\ \A r, q : GlobalInput(c, r, q) =
           LET G == r \div A
               output == (r % A) * k + q
           IN  IF G > output THEN output * S * A + ((S - k) * ((G - 1) \div k) + (S - k) + (G - 1))
               ELSE (output + 1) * S * A + ((S - k) * (G \div k) + (S - k) + G)
  BY DEF LocalInput, GlobalInput
<1> HIDE DEF A, g, S, R, k, m, a1
<1>10. /\ \A G \in Below(g), d \in Below(A) : id(G, d) \in R /\ id(G, d) \div A = G /\ id(G, d) % A = d
       /\ \A r \in R : \E G \in Below(g), d \in Below(A) : r = id(G, d)
  <2>0. g \in Nat /\ A \in Nat \ {0}
    BY <1>1
  <2>1. \A G \in Below(g), d \in Below(A) :
          G * A + d \in Below(g * A) /\ (G * A + d) \div A = G /\ (G * A + d) % A = d
    BY <2>0, Placed
  <2>2. \A r \in Below(g * A) : \E G \in Below(g), d \in Below(A) : r = G * A + d
    BY <2>0, Placed
  <2> QED
    BY <1>2, <2>1, <2>2
<1>11. /\ \A p \in Below(k) : p \in Below(k + S) /\ p < k /\ p \in Int
       /\ \A q \in Below(S) : k + q \in Below(k + S) /\ ~(k + q < k) /\ (k + q) - k = q /\ q \in Int
                              /\ (k + q < 3 * k - 1 <=> q < a1) /\ (k + q) - (3 * k - 1) = q - a1
  BY <1>1 DEF Below
<1>12. /\ \A G \in Below(g) : G \in Int /\ \A d \in Below(A) : d \in Int /\ id(G, d) \in Int
       /\ \A r \in R : r \in Int
  <2>1. \A r \in R : r \in Int
    BY <1>2 DEF Below
  <2>2. \A G \in Below(g) : G \in Int
    BY <1>1 DEF Below
  <2>3. \A d \in Below(A) : d \in Int
    BY <1>1 DEF Below
  <2> QED
    BY <1>1, <2>1, <2>2, <2>3
(* A channel within a group. *)
<1>13. ASSUME NEW G \in Below(g), NEW d \in Below(A), NEW q \in Below(S), q < a1
       PROVE  LET j == Skipped(d, q)
                  x == PlaceOf(j, d)
              IN  /\ far[<<id(G, d), q>>] = <<id(G, j), x>> /\ j \in Below(A) /\ x \in Below(S) /\ x < a1
                  /\ Skipped(j, x) = d /\ PlaceOf(d, j) = q
                  /\ LocalInput(c, id(G, d), q) = S * id(G, j) + x
  <2> DEFINE j == Skipped(d, q)
             x == PlaceOf(j, d)
             r == id(G, d)
  <2>1. r \in R /\ r \div A = G /\ r % A = d
    BY <1>10
  <2>2. d \in Below(a1 + 1) /\ q \in Below(a1)
    BY <1>1, <1>11, <1>13 DEF Below
  <2>3. j \in Below(a1 + 1) /\ x \in Below(a1) /\ Skipped(j, x) = d /\ PlaceOf(d, j) = q
    BY <1>1, <2>2, OthersMeet
  <2> HIDE DEF r
  <2>4. far[<<r, q>>] = <<id(G, j), x>>
    BY <1>5, <1>13, <2>1
  <2>5. x \in Below(S) /\ x < a1 /\ j \in Below(A) /\ x \in Int /\ j \in Int
    <3> HIDE DEF j, x
    <3> QED
      BY <1>1, <2>3 DEF Below
  <2>6. LocalInput(c, r, q) = IF q < d THEN G * S * A + q * S + (d - 1) ELSE G * S * A + (q + 1) * S + d
    BY <1>9, <2>1
  <2>7. S * id(G, j) = G * S * A + j * S
    <3> HIDE DEF j
    <3>1. S \in Int /\ A \in Int /\ G \in Int /\ j \in Int
      BY <1>1, <1>12, <2>5
    <3> QED
      BY <3>1, SlotOf
  <2>8. IF q < d THEN j = q /\ x = d - 1 ELSE j = q + 1 /\ x = d
    <3>1. q \in Int /\ d \in Int
      BY <1>11, <1>12
    <3> QED
      BY <3>1 DEF Skipped, PlaceOf
  <2> HIDE DEF j, x, id
  <2>9. LocalInput(c, r, q) = S * id(G, j) + x
    BY <2>6, <2>7, <2>8
  <2> QED
    BY <2>3, <2>4, <2>5, <2>9 DEF r, j, x
(* A channel to another group. *)
<1>14. ASSUME NEW G \in Below(g), NEW d \in Below(A), NEW u \in Below(k)
       PROVE  LET q == a1 + u
                  output == d * k + u
                  T == Skipped(G, output)
                  t == PlaceOf(T, G)
                  w == t \div k
                  v == t % k
              IN  /\ q \in Below(S) /\ ~(q < a1) /\ q - a1 = u
                  /\ far[<<id(G, d), q>>] = <<id(T, w), a1 + v>>
                  /\ T \in Below(g) /\ w \in Below(A) /\ v \in Below(k)
                  /\ w * k + v = t /\ Skipped(T, t) = G /\ PlaceOf(G, T) = output
                  /\ output \div k = d /\ output % k = u
                  /\ GlobalInput(c, id(G, d), u) = S * id(T, w) + (a1 + v)
  <2> DEFINE q == a1 + u
             output == d * k + u
             T == Skipped(G, output)
             t == PlaceOf(T, G)
             w == t \div k
             v == t % k
             r == id(G, d)
  <2>1. r \in R /\ r \div A = G /\ r % A = d
    BY <1>10
  <2>2. q \in Below(S) /\ ~(q < a1) /\ q - a1 = u
    BY <1>1 DEF Below
  <2>3. output \in Below(m) /\ output \div k = d /\ output % k = u
    <3>1. A \in Nat /\ k \in Nat \ {0}
      BY <1>1
    <3>2. d * k + u \in Below(A * k) /\ (d * k + u) \div k = d /\ (d * k + u) % k = u
      BY <3>1, Placed
    <3> QED
      BY <1>1, <3>2
  <2>4. G \in Below(m + 1)
    BY <1>1
  <2> HIDE DEF r, q, output
  <2>5. T \in Below(m + 1) /\ t \in Below(m) /\ Skipped(T, t) = G /\ PlaceOf(G, T) = output
    BY <1>1, <2>3, <2>4, OthersMeet
  <2>6. far[<<r, q>>] = <<id(T, w), a1 + v>>
    <3>1. far[<<r, q>>] = <<Skipped(G, d * k + (q - a1)) * A + (PlaceOf(Skipped(G, d * k + (q - a1)), G) \div k),
                            a1 + (PlaceOf(Skipped(G, d * k + (q - a1)), G) % k)>>
      BY <1>5, <2>1, <2>2
    <3> QED
      BY <2>2, <3>1 DEF output
  <2>7. GlobalInput(c, r, u) = IF G > output THEN output * S * A + ((S - k) * ((G - 1) \div k) + (S - k) + (G - 1))
                               ELSE (output + 1) * S * A + ((S - k) * (G \div k) + (S - k) + G)
    BY <1>9, <2>1 DEF output
  <2>8. IF G > output THEN T = output /\ t = G - 1 ELSE T = output + 1 /\ t = G
    <3>1. G \in Int /\ output \in Int
      BY <1>1, <1>12, <2>3 DEF Below
    <3> QED
      BY <3>1 DEF Skipped, PlaceOf
  <2> HIDE DEF T, t
  <2>9. GlobalInput(c, r, u) = T * S * A + (a1 * (t \div k) + a1 + t)
    BY <1>1, <2>7, <2>8
  <2>10. w \in Below(A) /\ v \in Below(k) /\ w * k + v = t /\ w \in Int /\ v \in Int
    <3>1. \A i \in Below(A * k) : \E y \in Below(A), z \in Below(k) : i = y * k + z
      BY <1>1, Placed
    <3>2. PICK y \in Below(A), z \in Below(k) : t = y * k + z
      BY <1>1, <2>5, <3>1
    <3>3. \A b \in Below(A), h \in Below(k) : (b * k + h) \div k = b /\ (b * k + h) % k = h
      BY <1>1, Placed
    <3>4. w = y /\ v = z
      BY <3>2, <3>3
    <3> HIDE DEF w, v
    <3>5. w \in Int /\ v \in Int
      BY <1>1, <3>4 DEF Below
    <3> QED
      BY <3>2, <3>4, <3>5
  <2> HIDE DEF w, v
  <2>11. T \in Below(g) /\ T \in Int
    BY <1>1, <1>12, <2>5
  <2>12. S * id(T, w) = T * S * A + w * S
    <3>1. S \in Int /\ A \in Int
      BY <1>1
    <3> QED
      BY <2>10, <2>11, <3>1, SlotOf
  <2>13. a1 * w + a1 + t = w * S + (a1 + v)
    <3>1. w * S = w * a1 + w * k
      BY <1>1, <2>10
    <3>2. a1 * w = w * a1 /\ w * a1 \in Int /\ w * k \in Int
      BY <1>1, <2>10
    <3> DEFINE x == w * a1
               y == w * k
    <3>3. x \in Int /\ y \in Int /\ t = y + v /\ w * S = x + y /\ a1 * w = x
      BY <2>10, <3>1, <3>2
    <3> HIDE DEF x, y
    <3> QED
      BY <1>1, <2>10, <3>3
  <2>14. GlobalInput(c, r, u) = S * id(T, w) + (a1 + v)
    <3> DEFINE x == T * S * A
               y == w * S
    <3>1. x \in Int /\ y \in Int
      BY <1>1, <2>10, <2>11
    <3>2. GlobalInput(c, r, u) = x + (y + (a1 + v))
      BY <2>9, <2>13 DEF w
    <3>3. S * id(T, w) = x + y
      BY <2>12
    <3> HIDE DEF x, y, id
    <3> QED
      BY <1>1, <2>10, <3>1, <3>2, <3>3
  <2> QED
    BY <2>2, <2>3, <2>5, <2>6, <2>10, <2>11, <2>14 DEF r, q, output, T, t, w, v
<1>27. ASSUME NEW G \in Below(g), NEW d \in Below(A), NEW u \in Below(k), NEW o, NEW T, o = d * k + u, T = Skipped(G, o)
       PROVE  /\ far[<<id(G, d), a1 + u>>] = <<id(T, PlaceOf(T, G) \div k), a1 + (PlaceOf(T, G) % k)>>
              /\ a1 + u \in Below(S)
  BY <1>14, <1>27
<1>15. \A q \in Below(S) : q < a1 \/ \E u \in Below(k) : q = a1 + u
  <2> SUFFICES ASSUME NEW q \in Below(S), ~(q < a1) PROVE \E u \in Below(k) : q = a1 + u
    OBVIOUS
  <2>1. q - a1 \in Below(k) /\ q = a1 + (q - a1)
    BY <1>1, <1>11 DEF Below
  <2> QED
    BY <2>1
<1>16. ASSUME NEW r \in R, NEW q \in Below(S)
       PROVE  /\ far[<<r, q>>] \in R \X Below(S) /\ far[far[<<r, q>>]] = <<r, q>>
              /\ inp[r][k + q] = Chan(chan[far[<<r, q>>]])
  <2>1. PICK G \in Below(g), d \in Below(A) : r = id(G, d)
    BY <1>10
  <2>2. inp[r][k + q] = IF q < a1 THEN Chan(LocalInput(c, r, q)) ELSE Chan(GlobalInput(c, r, q - a1))
    <3>1. k + q \in Below(k + S) /\ ~(k + q < k) /\ (k + q) - k = q
          /\ (k + q < 3 * k - 1 <=> q < a1) /\ (k + q) - (3 * k - 1) = q - a1
      BY <1>11
    <3> DEFINE p == k + q
    <3>2. inp[r][p] = IF p < k THEN NodeLink(k * r + p)
                      ELSE IF p < 3 * k - 1 THEN Chan(LocalInput(c, r, p - k))
                      ELSE Chan(GlobalInput(c, r, p - (3 * k - 1)))
      <4>1. p \in Below(k + S)
        BY <3>1
      <4> HIDE DEF p
      <4> QED
        BY <1>6, <4>1
    <3> QED
      BY <3>1, <3>2
  <2>3. CASE q < a1
    <3> DEFINE j == Skipped(d, q)
               x == PlaceOf(j, d)
    <3>1. /\ far[<<id(G, d), q>>] = <<id(G, j), x>> /\ j \in Below(A) /\ x \in Below(S) /\ x < a1
          /\ Skipped(j, x) = d /\ PlaceOf(d, j) = q
          /\ LocalInput(c, id(G, d), q) = S * id(G, j) + x
      BY <1>13, <2>3
    <3> HIDE DEF j, x
    <3>2. far[<<id(G, j), x>>] = <<id(G, Skipped(j, x)), PlaceOf(Skipped(j, x), j)>>
      BY <1>13, <3>1
    <3>3. id(G, j) \in R
      BY <1>10, <3>1
    <3> HIDE DEF id
    <3>4. far[<<id(G, j), x>>] = <<id(G, d), q>>
      BY <3>1, <3>2
    <3>5. chan[<<id(G, j), x>>] = S * id(G, j) + x /\ <<id(G, j), x>> \in R \X Below(S)
      BY <1>4, <3>1, <3>3
    <3> QED
      BY <2>1, <2>2, <2>3, <3>1, <3>4, <3>5
  <2>4. CASE ~(q < a1)
    <3>0. PICK u \in Below(k) : q = a1 + u
      BY <1>15, <2>4
    <3> DEFINE output == d * k + u
               T == Skipped(G, output)
               t == PlaceOf(T, G)
               w == t \div k
               v == t % k
    <3>1. /\ q - a1 = u
          /\ far[<<id(G, d), q>>] = <<id(T, w), a1 + v>>
          /\ T \in Below(g) /\ w \in Below(A) /\ v \in Below(k)
          /\ w * k + v = t /\ Skipped(T, t) = G /\ PlaceOf(G, T) = output
          /\ output \div k = d /\ output % k = u
          /\ GlobalInput(c, id(G, d), u) = S * id(T, w) + (a1 + v)
      BY <1>14, <3>0
    <3> HIDE DEF T, t, w, v, output
    <3>2. /\ far[<<id(T, w), a1 + v>>] = <<id(G, PlaceOf(G, T) \div k), a1 + (PlaceOf(G, T) % k)>>
          /\ a1 + v \in Below(S)
      BY <1>27, <3>1
    <3>3. id(T, w) \in R
      BY <1>10, <3>1
    <3> HIDE DEF id
    <3>4. far[<<id(T, w), a1 + v>>] = <<id(G, d), q>>
      BY <3>0, <3>1, <3>2
    <3>5. chan[<<id(T, w), a1 + v>>] = S * id(T, w) + (a1 + v) /\ <<id(T, w), a1 + v>> \in R \X Below(S)
      BY <1>4, <3>2, <3>3
    <3> QED
      BY <2>1, <2>2, <2>4, <3>1, <3>4, <3>5
  <2> QED
    BY <2>3, <2>4
<1>17. ASSUME NEW r \in R, NEW q \in Below(S) PROVE out[r][k + q] = Chan(chan[<<r, q>>])
  <2>0. chan[<<r, q>>] = S * r + q
    BY <1>4
  <2> DEFINE p == k + q
  <2>1. p \in Below(k + S) /\ ~(p < k) /\ p - k = q
    BY <1>11
  <2>2. out[r][p] = IF p < k THEN NodeLink(k * r + p) ELSE Chan(S * r + (p - k))
    <3> HIDE DEF p
    <3> QED
      BY <1>6, <2>1
  <2>3. out[r][p] = Chan(S * r + q)
    <3> HIDE DEF p
    <3> QED
      BY <2>1, <2>2
  <2> QED
    BY <2>0, <2>3
<1>18. ASSUME NEW r \in R, NEW p \in Below(k)
       PROVE  out[r][p] = NodeLink(node[<<r, p>>]) /\ inp[r][p] = NodeLink(node[<<r, p>>])
  <2>1. p \in Below(k + S) /\ p < k
    BY <1>11
  <2>2. node[<<r, p>>] = k * r + p
    BY <1>4
  <2>3. out[r][p] = NodeLink(k * r + p)
    BY <1>6, <2>1
  <2>4. inp[r][p] = NodeLink(k * r + p)
    BY <1>6, <2>1
  <2> QED
    BY <2>2, <2>3, <2>4
<1>19. /\ \A r, s \in R : \A p, q \in Below(k) : node[<<r, p>>] = node[<<s, q>>] => r = s /\ p = q
       /\ \A l, n \in R \X Below(S) : chan[l] = chan[n] => l = n
  <2>1. ASSUME NEW r \in R, NEW s \in R, NEW p \in Below(k), NEW q \in Below(k), node[<<r, p>>] = node[<<s, q>>]
        PROVE  r = s /\ p = q
    <3>1. k * r + p = k * s + q
      BY <1>4, <2>1
    <3>2. r \in Int /\ s \in Int /\ k \in Nat \ {0}
      BY <1>1, <1>12
    <3> QED
      BY <3>1, <3>2, NumberedBy, ZenonT(40)
  <2>2. ASSUME NEW l \in R \X Below(S), NEW n \in R \X Below(S), chan[l] = chan[n] PROVE l = n
    <3>1. PICK r \in R, p \in Below(S) : l = <<r, p>>
      OBVIOUS
    <3>2. PICK s \in R, q \in Below(S) : n = <<s, q>>
      OBVIOUS
    <3>3. S * r + p = S * s + q
      BY <1>4, <2>2, <3>1, <3>2
    <3>4. r \in Int /\ s \in Int /\ S \in Nat \ {0}
      BY <1>1, <1>12
    <3>5. r = s /\ p = q
      BY <3>3, <3>4, NumberedBy, SMTT(30)
    <3> QED
      BY <3>1, <3>2, <3>5
  <2> QED
    BY <2>1, <2>2
<1>20. \A i \in Nodes(c) : \E r \in R, p \in Below(k) : node[<<r, p>>] = i
  <2> SUFFICES ASSUME NEW i \in Nodes(c) PROVE \E r \in R, p \in Below(k) : node[<<r, p>>] = i
    OBVIOUS
  <2> DEFINE N == A * g
  <2>1. N \in Nat /\ N * k = k * N /\ Nodes(c) = Below(k * N) /\ R = Below(N)
    <3>1. N \in Nat /\ R = Below(N)
      BY <1>2
    <3>2. Nodes(c) = Below(k * N)
      <4>1. Nodes(c) = Below(A * k * g)
        <5>1. c.nodes = A * k * g
          BY DEF DragonFlySized, A, k, g
        <5>2. Nodes(c) = Below(c.nodes)
          BY DEF Nodes
        <5> HIDE DEF k, A, g
        <5> QED
          BY <5>1, <5>2
      <4>2. A * k * g = k * (A * g)
        <5>1. k \in Nat /\ A \in Nat /\ g \in Nat
          BY <1>1
        <5> HIDE DEF k, A, g
        <5> QED
          BY <5>1
      <4> QED
        BY <4>1, <4>2
    <3>3. k \in Nat
      BY <1>1
    <3> HIDE DEF N
    <3> QED
      BY <3>1, <3>2, <3>3
  <2> HIDE DEF N
  <2>2. \A x \in Below(N * k) : \E r \in Below(N), p \in Below(k) : x = r * k + p
    BY <1>1, <2>1, Placed
  <2>3. PICK r \in R, p \in Below(k) : i = r * k + p
    BY <2>1, <2>2
  <2>4. r * k = k * r
    BY <1>1, <1>12
  <2> QED
    BY <1>4, <2>3, <2>4
<1>21. /\ \A l \in R \X Below(S) : far[l] \in R \X Below(S) /\ far[far[l]] = l
  <2> SUFFICES ASSUME NEW l \in R \X Below(S) PROVE far[l] \in R \X Below(S) /\ far[far[l]] = l
    OBVIOUS
  <2>1. PICK r \in R, q \in Below(S) : l = <<r, q>>
    OBVIOUS
  <2> QED
    BY <1>16, <2>1
<1>22. IsFiniteSet(R)
  <2>1. 0 \in Int /\ g * A - 1 \in Int
    BY <1>2
  <2> QED
    BY <1>2, <2>1, FS_Interval DEF Below
<1>23. \A l, n \in R \X Below(S) : far[l] = far[n] => l = n
  BY <1>21
<1>24. /\ IsFiniteSet(R) /\ k \in Nat /\ S \in Nat /\ DOMAIN out = R /\ DOMAIN inp = R
       /\ \A r \in R : DOMAIN out[r] = Below(k + S) /\ DOMAIN inp[r] = Below(k + S)
       /\ \A r \in R, p \in Below(k) : out[r][p] = NodeLink(node[<<r, p>>]) /\ inp[r][p] = NodeLink(node[<<r, p>>])
       /\ \A r \in R, q \in Below(S) : out[r][k + q] = Chan(chan[<<r, q>>]) /\ inp[r][k + q] = Chan(chan[far[<<r, q>>]])
       /\ \A l \in R \X Below(S) : far[l] \in R \X Below(S)
  BY <1>1, <1>7, <1>16, <1>17, <1>18, <1>21, <1>22
<1>25. Concentrated(c, R, k, S, node, chan, far)
  BY <1>19, <1>20, <1>23, <1>24 DEF Concentrated, out, inp
<1> QED
  BY <1>25 DEF R, k, S, node, chan, far

-----------------------------------------------------------------------------
(* Concentrated mesh.                                                      *)
(* The direction at the other end of a channel.                            *)
Enters2(c, x, y, dir) == IF AtEdge(c, x, y, dir) THEN dir ELSE Opposite(dir)

(* The other end's other end is this one. *)
LEMMA CMeshBack ==
  ASSUME NEW c, c.k \in Nat \ {0}, NEW h \in Nat, c.k = 2 * h,
         NEW x \in Below(c.k), NEW y \in Below(c.k), NEW dir \in Below(4)
  PROVE  \E v, w \in Below(c.k) : /\ Neighbour(c, x, y, dir) = c.k * w + v
                                  /\ Enters2(c, x, y, dir) \in Below(4)
                                  /\ Neighbour(c, v, w, Enters2(c, x, y, dir)) = c.k * y + x
                                  /\ Enters2(c, v, w, Enters2(c, x, y, dir)) = dir
<1> DEFINE k == c.k
           B == Below(k)
           e == Enters2(c, x, y, dir)
           Ends(v, w) == /\ Neighbour(c, x, y, dir) = k * w + v /\ e \in Below(4)
                         /\ Neighbour(c, v, w, e) = k * y + x /\ Enters2(c, v, w, e) = dir
<1>1. /\ k \in Nat /\ k = h + h /\ h \in Nat /\ h >= 1 /\ x \in B /\ y \in B /\ x \in Int /\ y \in Int
      /\ dir \in {0, 1, 2, 3}
  BY DEF Below
<1>2. \A a, b, f : /\ AtEdge(c, a, b, f) <=> \/ f = 0 /\ a = k - 1
                                             \/ f = 1 /\ a = 0
                                             \/ f = 2 /\ b = k - 1
                                             \/ f = 3 /\ b = 0
                   /\ Enters2(c, a, b, f) = IF AtEdge(c, a, b, f) THEN f ELSE Opposite(f)
  BY DEF AtEdge, PositiveX, NegativeX, PositiveY, NegativeY, Enters2
<1>3. \A a, b, f :
        /\ AtEdge(c, a, b, f) /\ f \in {0, 1} => Neighbour(c, a, b, f) = k * Across(c, b) + a
        /\ AtEdge(c, a, b, f) /\ f \in {2, 3} => Neighbour(c, a, b, f) = k * b + Across(c, a)
  BY DEF Neighbour, PositiveX, NegativeX, PositiveY, NegativeY
<1>4. \A a, b : /\ ~AtEdge(c, a, b, 0) => Neighbour(c, a, b, 0) = c.k * b + a + 1
                /\ ~AtEdge(c, a, b, 1) => Neighbour(c, a, b, 1) = c.k * b + a - 1
                /\ ~AtEdge(c, a, b, 2) => Neighbour(c, a, b, 2) = c.k * (b + 1) + a
                /\ ~AtEdge(c, a, b, 3) => Neighbour(c, a, b, 3) = c.k * (b - 1) + a
  BY DEF Neighbour, PositiveX, NegativeX, PositiveY, NegativeY
<1>5. \A a \in B : Across(c, a) \in B /\ Across(c, Across(c, a)) = a
  <2>1. k \div 2 = h
    <3>1. 2 \in Nat \ {0} /\ 0 \in 0 .. 2 - 1 /\ h \in Int /\ k = h * 2 + 0
      BY <1>1
    <3>2. (h * 2 + 0) \div 2 = h
      BY <3>1, DivModUnique
    <3> QED
      BY <3>1, <3>2
  <2>2. \A a : Across(c, a) = IF a < h THEN a + h ELSE a - h
    BY <2>1 DEF Across
  <2> QED
    BY <1>1, <2>2 DEF Below
<1>6. Opposite(0) = 1 /\ Opposite(1) = 0 /\ Opposite(2) = 3 /\ Opposite(3) = 2
  BY DEF Opposite
<1>7. \A a \in B : a \in Int /\ (a + 1 \in B \/ a = k - 1) /\ (a - 1 \in B \/ a = 0)
  BY <1>1 DEF Below
<1>8. \A a \in B : k * a \in Int
  BY <1>1, <1>7
<1>15. 0 \in Below(4) /\ 1 \in Below(4) /\ 2 \in Below(4) /\ 3 \in Below(4)
  BY DEF Below
<1> HIDE DEF k, B, e, Ends
<1>9. ASSUME AtEdge(c, x, y, dir) /\ dir \in {0, 1} PROVE \E v, w \in B : Ends(v, w)
  <2>1. Across(c, y) \in B /\ Enters2(c, x, y, dir) = dir
    BY <1>1, <1>2, <1>5, <1>9
  <2>2. AtEdge(c, x, Across(c, y), dir)
    BY <1>2, <1>9
  <2>3. Neighbour(c, x, Across(c, y), dir) = k * y + x
    BY <1>1, <1>3, <1>5, <1>9, <2>2
  <2>4. Neighbour(c, x, y, dir) = k * Across(c, y) + x
    BY <1>3, <1>9
  <2>5. Enters2(c, x, Across(c, y), dir) = dir
    BY <1>2, <2>2
  <2>6. Ends(x, Across(c, y))
    BY <1>1, <1>15, <2>1, <2>3, <2>4, <2>5 DEF Ends, e
  <2> QED
    BY <1>1, <2>1, <2>6
<1>10. ASSUME AtEdge(c, x, y, dir) /\ dir \in {2, 3} PROVE \E v, w \in B : Ends(v, w)
  <2>1. Across(c, x) \in B /\ Enters2(c, x, y, dir) = dir
    BY <1>1, <1>2, <1>5, <1>10
  <2>2. AtEdge(c, Across(c, x), y, dir)
    BY <1>2, <1>10
  <2>3. Neighbour(c, Across(c, x), y, dir) = k * y + x
    BY <1>1, <1>3, <1>5, <1>10, <2>2
  <2>4. Neighbour(c, x, y, dir) = k * y + Across(c, x)
    BY <1>3, <1>10
  <2>5. Enters2(c, Across(c, x), y, dir) = dir
    BY <1>2, <2>2
  <2>6. Ends(Across(c, x), y)
    BY <1>1, <1>15, <2>1, <2>3, <2>4, <2>5 DEF Ends, e
  <2> QED
    BY <1>1, <2>1, <2>6
<1>11. ASSUME ~AtEdge(c, x, y, dir) /\ dir = 0 PROVE \E v, w \in B : Ends(v, w)
  <2>1. x + 1 \in B /\ Enters2(c, x, y, 0) = 1 /\ Neighbour(c, x, y, 0) = k * y + (x + 1)
    <3>1. x # k - 1 /\ ~AtEdge(c, x, y, 0)
      BY <1>2, <1>11
    <3>2. x + 1 \in B /\ Enters2(c, x, y, 0) = 1
      BY <1>1, <1>2, <1>6, <1>7, <3>1
    <3>3. Neighbour(c, x, y, 0) = k * y + x + 1
      BY <1>4, <3>1 DEF k
    <3>4. k * y + x + 1 = k * y + (x + 1)
      BY <1>1, <1>8
    <3> QED
      BY <3>2, <3>3, <3>4
  <2>2. ~AtEdge(c, x + 1, y, 1) /\ (x + 1) - 1 = x
    BY <1>1, <1>2, <2>1 DEF B, Below
  <2>3. Neighbour(c, x + 1, y, 1) = k * y + x /\ Enters2(c, x + 1, y, 1) = 0
    <3>1. Neighbour(c, x + 1, y, 1) = k * y + (x + 1) - 1
      BY <1>4, <2>2 DEF k
    <3> QED
      BY <1>1, <1>2, <1>6, <1>8, <2>2, <3>1
  <2>4. Ends(x + 1, y)
    BY <1>15, <1>11, <2>1, <2>3 DEF Ends, e
  <2> QED
    BY <1>1, <2>1, <2>4
<1>12. ASSUME ~AtEdge(c, x, y, dir) /\ dir = 1 PROVE \E v, w \in B : Ends(v, w)
  <2>1. x - 1 \in B /\ Enters2(c, x, y, 1) = 0 /\ Neighbour(c, x, y, 1) = k * y + (x - 1)
    <3>1. x # 0 /\ ~AtEdge(c, x, y, 1)
      BY <1>2, <1>12
    <3>2. x - 1 \in B /\ Enters2(c, x, y, 1) = 0
      BY <1>1, <1>2, <1>6, <1>7, <3>1
    <3>3. Neighbour(c, x, y, 1) = k * y + x - 1
      BY <1>4, <3>1 DEF k
    <3>4. k * y + x - 1 = k * y + (x - 1)
      BY <1>1, <1>8
    <3> QED
      BY <3>2, <3>3, <3>4
  <2>2. ~AtEdge(c, x - 1, y, 0) /\ (x - 1) + 1 = x
    BY <1>1, <1>2, <2>1 DEF B, Below
  <2>3. Neighbour(c, x - 1, y, 0) = k * y + x /\ Enters2(c, x - 1, y, 0) = 1
    <3>1. Neighbour(c, x - 1, y, 0) = k * y + (x - 1) + 1
      BY <1>4, <2>2 DEF k
    <3> QED
      BY <1>1, <1>2, <1>6, <1>8, <2>2, <3>1
  <2>4. Ends(x - 1, y)
    BY <1>15, <1>12, <2>1, <2>3 DEF Ends, e
  <2> QED
    BY <1>1, <2>1, <2>4
<1>13. ASSUME ~AtEdge(c, x, y, dir) /\ dir = 2 PROVE \E v, w \in B : Ends(v, w)
  <2>1. y + 1 \in B /\ Enters2(c, x, y, 2) = 3 /\ Neighbour(c, x, y, 2) = k * (y + 1) + x
    <3>1. y # k - 1 /\ ~AtEdge(c, x, y, 2)
      BY <1>2, <1>13
    <3>2. y + 1 \in B /\ Enters2(c, x, y, 2) = 3
      BY <1>1, <1>2, <1>6, <1>7, <3>1
    <3>3. Neighbour(c, x, y, 2) = k * (y + 1) + x
      BY <1>4, <3>1 DEF k
    <3> QED
      BY <3>2, <3>3
  <2>2. ~AtEdge(c, x, y + 1, 3) /\ (y + 1) - 1 = y
    BY <1>1, <1>2, <2>1 DEF B, Below
  <2>3. Neighbour(c, x, y + 1, 3) = k * y + x /\ Enters2(c, x, y + 1, 3) = 2
    <3>1. Neighbour(c, x, y + 1, 3) = k * ((y + 1) - 1) + x
      BY <1>4, <2>2 DEF k
    <3> QED
      BY <1>1, <1>2, <1>6, <1>8, <2>2, <3>1
  <2>4. Ends(x, y + 1)
    BY <1>15, <1>13, <2>1, <2>3 DEF Ends, e
  <2> QED
    BY <1>1, <2>1, <2>4
<1>14. ASSUME ~AtEdge(c, x, y, dir) /\ dir = 3 PROVE \E v, w \in B : Ends(v, w)
  <2>1. y - 1 \in B /\ Enters2(c, x, y, 3) = 2 /\ Neighbour(c, x, y, 3) = k * (y - 1) + x
    <3>1. y # 0 /\ ~AtEdge(c, x, y, 3)
      BY <1>2, <1>14
    <3>2. y - 1 \in B /\ Enters2(c, x, y, 3) = 2
      BY <1>1, <1>2, <1>6, <1>7, <3>1
    <3>3. Neighbour(c, x, y, 3) = k * (y - 1) + x
      BY <1>4, <3>1 DEF k
    <3> QED
      BY <3>2, <3>3
  <2>2. ~AtEdge(c, x, y - 1, 2) /\ (y - 1) + 1 = y
    BY <1>1, <1>2, <2>1 DEF B, Below
  <2>3. Neighbour(c, x, y - 1, 2) = k * y + x /\ Enters2(c, x, y - 1, 2) = 3
    <3>1. Neighbour(c, x, y - 1, 2) = k * ((y - 1) + 1) + x
      BY <1>4, <2>2 DEF k
    <3> QED
      BY <1>1, <1>2, <1>6, <1>8, <2>2, <3>1
  <2>4. Ends(x, y - 1)
    BY <1>15, <1>14, <2>1, <2>3 DEF Ends, e
  <2> QED
    BY <1>1, <2>1, <2>4
<1>16. \E v, w \in B : Ends(v, w)
  BY <1>1, <1>9, <1>10, <1>11, <1>12, <1>13, <1>14
<1> QED
  BY <1>16 DEF Ends, B, k, e

CMeshNode(c) == [l \in CMeshRouters(c) \X Below(4) |-> ClientNode(c.k, 2, 2, l[1] % c.k, l[1] \div c.k, l[2])]
CMeshChan(c) == [l \in CMeshRouters(c) \X Below(4) |-> l[1] + l[2] * powi(c.k, 2)]
CMeshFar(c) == [l \in CMeshRouters(c) \X Below(4) |->
  <<Neighbour(c, l[1] % c.k, l[1] \div c.k, l[2]), Enters2(c, l[1] % c.k, l[1] \div c.k, l[2])>>]

LEMMA Squared ==
  ASSUME NEW x \in Nat
  PROVE  powi(x, 2) = x * x
<1>1. powi(x, 0) = 1 /\ powi(x, 0 + 1) = powi(x, 0) * x
  BY PowiStep
<1>2. powi(x, 1 + 1) = powi(x, 1) * x
  BY PowiStep
<1>3. 0 + 1 = 1 /\ 1 + 1 = 2 /\ 1 * x = x
  OBVIOUS
<1> QED
  BY <1>1, <1>2, <1>3

LEMMA CMeshConcentrated ==
  ASSUME NEW c, c.network = "cmesh", CMeshSized(c), c.n = 2, c.k % 2 = 0
  PROVE  Concentrated(c, CMeshRouters(c), 4, 4, CMeshNode(c), CMeshChan(c), CMeshFar(c))
<1> DEFINE k == c.k
           h == k \div 2
           R == CMeshRouters(c)
           M == powi(k, 2)
           D == Below(4)
           B == Below(k)
           out == OutputsOf(c)
           inp == InputsOf(c)
           node == CMeshNode(c)
           chan == CMeshChan(c)
           far == CMeshFar(c)
           id(y, x) == y * k + x
<1>1. /\ k \in Nat \ {0} /\ k \in Nat /\ c.n = 2 /\ c.conc = 4 /\ c.nodes = 4 * k * k
      /\ h \in Nat /\ k = 2 * h
  <2>1. k \in Nat \ {0} /\ k % 2 = 0 /\ c.n = 2 /\ c.conc = 4 /\ c.nodes = 4 * k * k
    <3>1. /\ k \in Nat \ {0} /\ k \in Nat /\ k % 2 = 0 /\ c.n = 2 /\ c.conc = 4
          /\ c.nodes = 4 * powi(k, 2)
      BY DEF CMeshSized
    <3>2. powi(k, 2) = k * k
      BY <3>1, Squared
    <3>3. 4 * (k * k) = 4 * k * k
      BY <3>1
    <3> QED
      BY <3>1, <3>2, <3>3
  <2>2. h \in Nat
    <3>1. k \in Nat /\ 0 \in Nat /\ 2 \in Nat \ {0}
      BY <2>1
    <3> HIDE DEF k
    <3> QED
      BY <3>1, DivBelow
  <2>3. k = h * 2 + (k % 2)
    <3>1. k \in Int /\ 2 \in Nat \ {0}
      BY <2>1
    <3> HIDE DEF k
    <3> QED
      BY <3>1, DivMod
  <2> HIDE DEF h
  <2> QED
    BY <2>1, <2>2, <2>3
<1>2. CX(c) = 2 /\ CY(c) = 2 /\ R = Below(k * k) /\ M = k * k /\ M \in Nat \ {0} /\ M \in Nat
  <2>1. CX(c) = 2
    BY <1>1 DEF CX
  <2>2. CY(c) = 2
    BY <1>1, <2>1 DEF CY
  <2>5. M = k * k
    BY <1>1, Squared
  <2>6. M \in Nat \ {0}
    BY <1>1, PowiPositive
  <2>7. R = Below(M)
    BY <1>1 DEF CMeshRouters, KNCubeRouters
  <2> QED
    BY <2>1, <2>2, <2>5, <2>6, <2>7
<1>3. out = [r \in R |-> CMeshOutputs(c, r)] /\ inp = [r \in R |-> CMeshInputs(c, r)]
  BY DEF OutputsOf, InputsOf, Routers, Outputs, Inputs
<1>4. ASSUME NEW r \in R
      PROVE  /\ out[r] = [p \in Below(8) |-> IF p < 4 THEN NodeLink(ClientNode(k, 2, 2, r % k, r \div k, p))
                                             ELSE Chan(r + (p - 4) * M)]
             /\ inp[r] = [p \in Below(8) |-> IF p < 4 THEN NodeLink(ClientNode(k, 2, 2, r % k, r \div k, p))
                            ELSE Chan(Neighbour(c, r % k, r \div k, p - 4) + Enters2(c, r % k, r \div k, p - 4) * M)]
  <2>1. out[r] = CMeshOutputs(c, r) /\ inp[r] = CMeshInputs(c, r)
    BY <1>3
  <2>2. c.conc + 2 * c.n = 8
    BY <1>1
  <2> QED
    BY <1>1, <1>2, <2>1, <2>2 DEF CMeshOutputs, CMeshInputs, CMeshChannel, Enters2
<1>5. DOMAIN out = R /\ DOMAIN inp = R /\ \A r \in R : DOMAIN out[r] = Below(8) /\ DOMAIN inp[r] = Below(8)
  <2>1. DOMAIN out = R /\ DOMAIN inp = R
    BY <1>3
  <2> HIDE DEF out, inp, R, M, k
  <2> QED
    BY <1>4, <2>1
<1>6. /\ \A r \in R, p \in D : node[<<r, p>>] = ClientNode(k, 2, 2, r % k, r \div k, p)
      /\ \A r \in R, p \in D : chan[<<r, p>>] = r + p * M
      /\ \A r \in R, p \in D : far[<<r, p>>] = <<Neighbour(c, r % k, r \div k, p), Enters2(c, r % k, r \div k, p)>>
  BY DEF CMeshNode, CMeshChan, CMeshFar
<1> HIDE DEF out, inp, node, chan, far
<1>7. \A p \in D : /\ p \in Below(8) /\ p < 4 /\ 4 + p \in Below(8) /\ ~(4 + p < 4) /\ (4 + p) - 4 = p
                   /\ p \in Int /\ p \in Nat
  BY DEF Below
<1> HIDE DEF R, M
<1>8. /\ \A y \in B, x \in B : id(y, x) \in R /\ id(y, x) \div k = y /\ id(y, x) % k = x
      /\ \A r \in R : \E y \in B, x \in B : r = id(y, x)
  <2>1. k \in Nat /\ k \in Nat \ {0}
    BY <1>1
  <2> HIDE DEF k, id
  <2>2. /\ \A y \in Below(k), x \in Below(k) :
             y * k + x \in Below(k * k) /\ (y * k + x) \div k = y /\ (y * k + x) % k = x
        /\ \A r \in Below(k * k) : \E y \in Below(k), x \in Below(k) : r = y * k + x
    <3>1. \A y \in Below(k), x \in Below(k) :
            y * k + x \in Below(k * k) /\ (y * k + x) \div k = y /\ (y * k + x) % k = x
      BY <2>1, Placed
    <3>2. \A r \in Below(k * k) : \E y \in Below(k), x \in Below(k) : r = y * k + x
      BY <2>1, Placed, ZenonT(40)
    <3> QED
      BY <3>1, <3>2
  <2> QED
    BY <1>2, <2>2 DEF id
<1> HIDE DEF k
<1>9. /\ \A a \in B : a \in Int
      /\ \A r \in R : r \in Int
  <2>1. k * k \in Nat
    BY <1>1
  <2> QED
    BY <1>1, <1>2, <2>1 DEF Below
(* The nodes. *)
<1>10. ASSUME NEW y \in B, NEW x \in B, NEW p \in D
       PROVE  /\ node[<<id(y, x), p>>] = (2 * y + (p \div 2)) * (2 * k) + (2 * x + (p % 2))
              /\ p \div 2 \in Below(2) /\ p % 2 \in Below(2) /\ p = (p \div 2) * 2 + (p % 2)
              /\ 2 * y + (p \div 2) \in Below(2 * k) /\ 2 * x + (p % 2) \in Below(2 * k)
  <2>1. p \div 2 \in Below(2) /\ p % 2 \in Below(2) /\ p = (p \div 2) * 2 + (p % 2)
    BY DEF Below
  <2>2. node[<<id(y, x), p>>] = ClientNode(k, 2, 2, x, y, p)
    BY <1>6, <1>8
  <2> DEFINE u == p \div 2
             v == p % 2
  <2>3. ClientNode(k, 2, 2, x, y, p) = (k * 2) * (2 * y + u) + 2 * x + v
    BY DEF ClientNode
  <2>4. u \in Int /\ v \in Int /\ x \in Int /\ y \in Int /\ u \in {0, 1} /\ v \in {0, 1}
    BY <1>9, <2>1 DEF Below
  <2> HIDE DEF u, v
  <2>5. (k * 2) * (2 * y + u) = (2 * y + u) * (2 * k)
    BY <1>1, <2>4
  <2>6. 2 * y + u \in Below(2 * k) /\ 2 * x + v \in Below(2 * k)
    BY <1>1, <2>4 DEF Below
  <2>7. (k * 2) * (2 * y + u) + 2 * x + v = (2 * y + u) * (2 * k) + (2 * x + v)
    <3> DEFINE w == (k * 2) * (2 * y + u)
    <3>1. w \in Int
      BY <1>1, <2>4
    <3>2. w = (2 * y + u) * (2 * k)
      BY <2>5
    <3> HIDE DEF w
    <3>3. w + 2 * x + v = w + (2 * x + v)
      BY <2>4, <3>1
    <3> QED
      BY <3>2, <3>3 DEF w
  <2> QED
    BY <2>1, <2>2, <2>3, <2>6, <2>7 DEF u, v
<1>11. /\ \A u \in Below(2 * k), v \in Below(2 * k) :
            (u * (2 * k) + v) \div (2 * k) = u /\ (u * (2 * k) + v) % (2 * k) = v
       /\ \A i \in Below((2 * k) * (2 * k)) : \E u \in Below(2 * k), v \in Below(2 * k) : i = u * (2 * k) + v
       /\ \A u \in B, v \in Below(2) : (u * 2 + v) \div 2 = u /\ (u * 2 + v) % 2 = v
       /\ \A i \in Below(k * 2) : \E u \in B, v \in Below(2) : i = u * 2 + v
       /\ \A u \in Below(2), v \in Below(2) : u * 2 + v \in D /\ (u * 2 + v) \div 2 = u /\ (u * 2 + v) % 2 = v
  <2>1. 2 * k \in Nat /\ 2 * k \in Nat \ {0} /\ 2 \in Nat \ {0} /\ 2 \in Nat /\ k \in Nat
    BY <1>1
  <2> DEFINE m == 2 * k
             b == 2
  <2>2. m \in Nat /\ m \in Nat \ {0} /\ b \in Nat \ {0} /\ b \in Nat /\ k \in Nat
    BY <2>1
  <2> HIDE DEF m, b
  <2>3. \A u \in Below(m), v \in Below(m) : (u * m + v) \div m = u /\ (u * m + v) % m = v
    BY <2>2, Placed
  <2>4. \A i \in Below(m * m) : \E u \in Below(m), v \in Below(m) : i = u * m + v
    BY <2>2, Placed, ZenonT(40)
  <2>5. \A u \in Below(k), v \in Below(b) : (u * b + v) \div b = u /\ (u * b + v) % b = v
    BY <2>2, Placed
  <2>6. \A i \in Below(k * b) : \E u \in Below(k), v \in Below(b) : i = u * b + v
    BY <2>2, Placed, ZenonT(40)
  <2>7. \A u \in Below(b), v \in Below(b) : u * b + v \in Below(b * b) /\ (u * b + v) \div b = u /\ (u * b + v) % b = v
    BY <2>2, Placed
  <2>8. 2 * 2 = 4
    OBVIOUS
  <2> QED
    BY <2>3, <2>4, <2>5, <2>6, <2>7, <2>8 DEF m, b
<1>12. ASSUME NEW r \in R, NEW s \in R, NEW p \in D, NEW q \in D, node[<<r, p>>] = node[<<s, q>>]
       PROVE  r = s /\ p = q
  <2>1. PICK y \in B, x \in B : r = id(y, x)
    BY <1>8
  <2>2. PICK w \in B, v \in B : s = id(w, v)
    BY <1>8
  <2>3. 2 * y + (p \div 2) = 2 * w + (q \div 2) /\ 2 * x + (p % 2) = 2 * v + (q % 2)
    BY <1>10, <1>11, <1>12, <2>1, <2>2
  <2>4. p \div 2 \in {0, 1} /\ p % 2 \in {0, 1} /\ q \div 2 \in {0, 1} /\ q % 2 \in {0, 1}
        /\ p = (p \div 2) * 2 + (p % 2) /\ q = (q \div 2) * 2 + (q % 2)
    BY DEF Below
  <2>5. y = w /\ x = v /\ p \div 2 = q \div 2 /\ p % 2 = q % 2
    BY <1>9, <2>3, <2>4
  <2> QED
    BY <2>1, <2>2, <2>4, <2>5
<1>13. ASSUME NEW i \in Nodes(c)
       PROVE  \E r \in R, p \in D : node[<<r, p>>] = i
  <2>1. (2 * k) * (2 * k) = 4 * k * k
    BY <1>1
  <2>2. i \in Below((2 * k) * (2 * k))
    BY <1>1, <2>1 DEF Nodes
  <2>3. PICK u \in Below(2 * k), v \in Below(2 * k) : i = u * (2 * k) + v
    BY <1>11, <2>2
  <2>4. 2 * k = k * 2
    BY <1>1
  <2>5. PICK y \in B, a \in Below(2) : u = y * 2 + a
    BY <1>11, <2>4
  <2>6. PICK x \in B, b \in Below(2) : v = x * 2 + b
    BY <1>11, <2>4
  <2> DEFINE p == a * 2 + b
  <2>7. p \in D /\ p \div 2 = a /\ p % 2 = b
    BY <1>11
  <2> HIDE DEF p
  <2>8. node[<<id(y, x), p>>] = (2 * y + a) * (2 * k) + (2 * x + b)
    BY <1>10, <2>7
  <2>9. 2 * y + a = u /\ 2 * x + b = v
    BY <1>9, <2>5, <2>6
  <2>10. id(y, x) \in R
    BY <1>8
  <2> QED
    BY <2>3, <2>7, <2>8, <2>9, <2>10
(* The channels. *)
<1>14. ASSUME NEW l \in R \X D, NEW m \in R \X D, chan[l] = chan[m]
       PROVE  l = m
  <2>1. PICK r \in R, p \in D : l = <<r, p>>
    OBVIOUS
  <2>2. PICK s \in R, q \in D : m = <<s, q>>
    OBVIOUS
  <2>3. r + p * M = s + q * M
    BY <1>6, <1>14, <2>1, <2>2
  <2>4. M * p + r = M * q + s
    BY <1>2, <1>7, <1>9, <2>3
  <2>5. r \in Below(M) /\ s \in Below(M) /\ p \in Int /\ q \in Int
    BY <1>2, <1>7
  <2>6. p = q /\ r = s
    BY <1>2, <2>4, <2>5, NumberedBy
  <2> QED
    BY <2>1, <2>2, <2>6
<1>15. ASSUME NEW r \in R, NEW p \in D
       PROVE  far[<<r, p>>] \in R \X D /\ far[far[<<r, p>>]] = <<r, p>> /\ inp[r][4 + p] = Chan(chan[far[<<r, p>>]])
  <2>1. PICK y \in B, x \in B : r = id(y, x)
    BY <1>8
  <2>2. r % k = x /\ r \div k = y
    BY <1>8, <2>1
  <2> DEFINE e == Enters2(c, x, y, p)
             f == Neighbour(c, x, y, p)
  <2>3. PICK v, w \in B : /\ f = k * w + v /\ e \in D
                          /\ Neighbour(c, v, w, e) = k * y + x /\ Enters2(c, v, w, e) = p
    BY <1>1, CMeshBack DEF k
  <2>4. far[<<r, p>>] = <<f, e>>
    BY <1>6, <2>2
  <2>5. inp[r][4 + p] = Chan(f + e * M)
    <3> DEFINE q == 4 + p
    <3>1. q \in Below(8) /\ ~(q < 4) /\ q - 4 = p
      BY <1>7
    <3> HIDE DEF q
    <3>2. inp[r][q] = Chan(Neighbour(c, r % k, r \div k, q - 4) + Enters2(c, r % k, r \div k, q - 4) * M)
      BY <1>4, <3>1
    <3> QED
      BY <2>2, <3>1, <3>2 DEF q
  <2> HIDE DEF e, f
  <2>6. f = id(w, v) /\ k * y + x = id(y, x)
    <3>1. k * w = w * k /\ k * y = y * k
      BY <1>1, <1>9
    <3> QED
      BY <2>3, <3>1
  <2>7. f \in R /\ f % k = v /\ f \div k = w
    BY <1>8, <2>6
  <2>8. far[<<f, e>>] = <<r, p>>
    BY <1>6, <2>1, <2>3, <2>6, <2>7
  <2>9. chan[<<f, e>>] = f + e * M
    BY <1>6, <2>3, <2>7
  <2> QED
    BY <2>3, <2>4, <2>5, <2>7, <2>8, <2>9
<1>16. ASSUME NEW r \in R, NEW p \in D
       PROVE  /\ out[r][p] = NodeLink(node[<<r, p>>]) /\ inp[r][p] = NodeLink(node[<<r, p>>])
              /\ out[r][4 + p] = Chan(chan[<<r, p>>])
  <2> DEFINE q == 4 + p
  <2>1. q \in Below(8) /\ ~(q < 4) /\ q - 4 = p /\ p < 4 /\ p \in Below(8)
    BY <1>7
  <2> HIDE DEF q
  <2>2. out[r][q] = Chan(r + (q - 4) * M)
    BY <1>4, <2>1, ZenonT(40)
  <2>3. out[r][p] = NodeLink(node[<<r, p>>]) /\ inp[r][p] = NodeLink(node[<<r, p>>])
    BY <1>4, <1>6, <2>1, ZenonT(40)
  <2>4. out[r][q] = Chan(chan[<<r, p>>])
    BY <1>6, <2>1, <2>2
  <2> QED
    BY <2>3, <2>4 DEF q
<1>17. /\ \A l \in R \X D : far[l] \in R \X D
       /\ \A l, m \in R \X D : far[l] = far[m] => l = m
  <2>1. \A l \in R \X D : far[l] \in R \X D /\ far[far[l]] = l
    <3> SUFFICES ASSUME NEW l \in R \X D PROVE far[l] \in R \X D /\ far[far[l]] = l
      OBVIOUS
    <3>1. PICK r \in R, p \in D : l = <<r, p>>
      OBVIOUS
    <3> QED
      BY <1>15, <3>1
  <2> QED
    BY <2>1
<1>18. IsFiniteSet(R)
  <2>1. 0 \in Int /\ k * k - 1 \in Int
    BY <1>1
  <2>2. IsFiniteSet(0 .. k * k - 1)
    BY <2>1, FS_Interval
  <2> QED
    BY <1>2, <2>2 DEF Below
<1>19. 4 \in Nat /\ 4 + 4 = 8
  OBVIOUS
<1>20. /\ \A r \in R, p \in D : out[r][p] = NodeLink(node[<<r, p>>]) /\ inp[r][p] = NodeLink(node[<<r, p>>])
       /\ \A r \in R, q \in D : out[r][4 + q] = Chan(chan[<<r, q>>]) /\ inp[r][4 + q] = Chan(chan[far[<<r, q>>]])
  BY <1>15, <1>16
<1>21. \A r, s \in R : \A p, q \in D : node[<<r, p>>] = node[<<s, q>>] => r = s /\ p = q
  BY <1>12
<1>22. \A i \in Nodes(c) : \E r \in R, p \in D : node[<<r, p>>] = i
  BY <1>13
<1>23. \A l, m \in R \X D : chan[l] = chan[m] => l = m
  BY <1>14
<1> QED
  BY <1>5, <1>17, <1>18, <1>19, <1>20, <1>21, <1>22, <1>23
     DEF Concentrated, out, inp, node, chan, far, R

-----------------------------------------------------------------------------
(* Networks whose ports are each other's other ends.  num numbers the      *)
(* channel of an output port, or the node of one of leaf; far is the other *)
(* end of a port of a channel between routers.                             *)
Paired(c, P, leaf, num, far) ==
  LET out == OutputsOf(c)
      in == InputsOf(c)
  IN  /\ IsFiniteSet(P) /\ Ports(out) = P /\ Ports(in) = P /\ leaf \subseteq P
      /\ \A e \in leaf : At(out, e) = NodeLink(num[e]) /\ At(in, e) = NodeLink(num[e])
      /\ \A e \in P \ leaf : /\ At(out, e) = Chan(num[e]) /\ At(in, e) = Chan(num[far[e]])
                             /\ far[e] \in P \ leaf /\ far[far[e]] = e
      /\ \A e, g \in leaf : num[e] = num[g] => e = g
      /\ \A e, g \in P \ leaf : num[e] = num[g] => e = g
      /\ \A i \in Nodes(c) : \E e \in leaf : num[e] = i

LEMMA PairedMeets ==
  ASSUME NEW c, NEW P, NEW leaf, NEW num, NEW far, Paired(c, P, leaf, num, far)
  PROVE  Meets(c, [e \in P |-> IF e \in leaf THEN e ELSE far[e]])
<1> DEFINE out == OutputsOf(c)
           inp == InputsOf(c)
           peer == [e \in P |-> IF e \in leaf THEN e ELSE far[e]]
<1>1. /\ IsFiniteSet(P) /\ Ports(out) = P /\ Ports(inp) = P /\ leaf \subseteq P
      /\ \A e \in leaf : At(out, e) = NodeLink(num[e]) /\ At(inp, e) = NodeLink(num[e])
      /\ \A e \in P \ leaf : /\ At(out, e) = Chan(num[e]) /\ At(inp, e) = Chan(num[far[e]])
                             /\ far[e] \in P \ leaf /\ far[far[e]] = e
      /\ \A e, g \in leaf : num[e] = num[g] => e = g
      /\ \A e, g \in P \ leaf : num[e] = num[g] => e = g
      /\ \A i \in Nodes(c) : \E e \in leaf : num[e] = i
  BY DEF Paired
<1> HIDE DEF out, inp
<1>2. \A x, y : NodeLink(x) # Chan(y) /\ (NodeLink(x) = NodeLink(y) => x = y) /\ (Chan(x) = Chan(y) => x = y)
  BY DEF NodeLink, Chan
<1>3. ASSUME NEW e \in P, NEW g \in P, At(out, e) = At(out, g) PROVE e = g
  <2>1. CASE e \in leaf
    <3>1. g \in leaf
      BY <1>1, <1>2, <1>3, <2>1
    <3>2. num[e] = num[g]
      BY <1>1, <1>2, <1>3, <2>1, <3>1
    <3> QED
      BY <1>1, <2>1, <3>1, <3>2
  <2>2. CASE e \notin leaf
    <3>1. g \notin leaf
      BY <1>1, <1>2, <1>3, <2>2
    <3>2. num[e] = num[g]
      BY <1>1, <1>2, <1>3, <2>2, <3>1
    <3> QED
      BY <1>1, <2>2, <3>1, <3>2
  <2> QED
    BY <2>1, <2>2
<1>4. \A e \in P : IF e \in leaf THEN peer[e] = e ELSE peer[e] = far[e]
  OBVIOUS
<1>5. peer = [e \in P |-> peer[e]]
  OBVIOUS
<1> HIDE DEF peer
<1>6. \A e \in P : peer[e] \in P /\ peer[peer[e]] = e /\ At(inp, e) = At(out, peer[e])
  BY <1>1, <1>4
<1>7. \A i \in Nodes(c) : \E e \in P : At(out, e) = NodeLink(i)
  BY <1>1
<1>8. Meets(c, peer)
  <2>1. \A e, g \in P : At(out, e) = At(out, g) => e = g
    BY <1>3
  <2> QED
    BY <1>1, <1>5, <1>6, <1>7, <2>1, PeersMeet DEF out, inp
<1> QED
  BY <1>8 DEF peer

-----------------------------------------------------------------------------
(* Quad tree.                                                              *)
TreeLeaf(P, first) == {e \in P : e[1] >= first /\ e[2] < 4}
QTreeNum(P) == [e \in P |->
  IF e[1] = 0 THEN 20 + e[2]
  ELSE IF e[1] < 512 THEN IF e[2] = 4 THEN e[1] - 256 ELSE 24 + 4 * (e[1] - 256) + e[2]
  ELSE IF e[2] = 4 THEN 4 + (e[1] - 512) ELSE 4 * (e[1] - 512) + e[2]]
QTreeFar(P) == [e \in P |->
  IF e[1] = 0 THEN <<256 + e[2], 4>>
  ELSE IF e[1] < 512 THEN IF e[2] = 4 THEN <<0, e[1] - 256>> ELSE <<512 + (4 * (e[1] - 256) + e[2]), 4>>
  ELSE <<256 + ((e[1] - 512) \div 4), (e[1] - 512) % 4>>]

LEMMA FourToThe == powi(4, 0) = 1 /\ powi(4, 1) = 4 /\ powi(4, 2) = 16 /\ powi(4, 3) = 64
<1>1. powi(4, 0) = 1 /\ powi(4, 0 + 1) = powi(4, 0) * 4
  BY PowiStep
<1>2. powi(4, 1 + 1) = powi(4, 1) * 4
  BY PowiStep
<1>3. powi(4, 2 + 1) = powi(4, 2) * 4
  BY PowiStep
<1>4. 0 + 1 = 1 /\ 1 + 1 = 2 /\ 2 + 1 = 3
  OBVIOUS
<1> QED
  BY <1>1, <1>2, <1>3, <1>4

LEMMA UpTo ==
  ASSUME NEW m \in Int
  PROVE  IsFiniteSet(0 .. m)
<1>1. 0 \in Int
  OBVIOUS
<1> QED
  BY <1>1, FS_Interval

LEMMA LinksAre ==
  ASSUME NEW c, c.k = 4
  PROVE  LinksAbove(c, 0) = 0 /\ LinksAbove(c, 1) = 4 /\ LinksAbove(c, 2) = 20
<1> DEFINE f(h) == [i \in 1 .. h |-> powi(4, i)]
<1>1. \A h : LinksAbove(c, h) = Sum(f(h), 1 .. h)
  BY DEF LinksAbove, SumFunction, Sum
<1>2. LinksAbove(c, 0) = 0
  <2>1. 1 .. 0 = {}
    OBVIOUS
  <2> QED
    BY <1>1, <2>1, SumEmpty
<1>3. 1 .. 1 = {1} /\ 1 .. 2 = {1, 2} /\ {1} \ {1} = {} /\ {1, 2} \ {2} = {1}
  OBVIOUS
<1>4. f(1)[1] = 4 /\ f(2)[1] = 4 /\ f(2)[2] = 16
  BY FourToThe
<1>5. Summable(f(1), {1}) /\ Summable(f(2), {1, 2}) /\ Summable(f(2), {1})
  <2>1. IsFiniteSet({1}) /\ IsFiniteSet({1, 2})
    <3>1. {1} \subseteq 0 .. 2 /\ {1, 2} \subseteq 0 .. 2
      OBVIOUS
    <3> DEFINE m == 2
    <3>2. m \in Int
      OBVIOUS
    <3> HIDE DEF m
    <3>4. IsFiniteSet(0 .. m)
      BY <3>2, UpTo
    <3>3. IsFiniteSet(0 .. 2)
      BY <3>4 DEF m
    <3> QED
      BY <3>1, <3>3, FS_Subset
  <2> QED
    BY <1>4, <2>1 DEF Summable
<1>6. LinksAbove(c, 1) = Sum(f(1), {1}) /\ LinksAbove(c, 2) = Sum(f(2), {1, 2})
  BY <1>1, <1>3
<1> HIDE DEF f
<1>7. Sum(f(1), {1}) = 4
  <2>1. Sum(f(1), {1}) = f(1)[1] + Sum(f(1), {1} \ {1})
    BY <1>5, SumRemove
  <2>2. Sum(f(1), {}) = 0
    BY SumEmpty
  <2> QED
    BY <1>3, <1>4, <2>1, <2>2
<1>8. Sum(f(2), {1, 2}) = 20
  <2>1. Sum(f(2), {1, 2}) = f(2)[2] + Sum(f(2), {1, 2} \ {2})
    BY <1>5, SumRemove
  <2>2. Sum(f(2), {1}) = f(2)[1] + Sum(f(2), {1} \ {1})
    BY <1>5, SumRemove
  <2>3. Sum(f(2), {}) = 0
    BY SumEmpty
  <2> QED
    BY <1>3, <1>4, <2>1, <2>2, <2>3
<1> QED
  BY <1>2, <1>6, <1>7, <1>8

LEMMA QTreePaired ==
  ASSUME NEW c, c.network = "qtree", TreeSized(c)
  PROVE  Paired(c, Ports(OutputsOf(c)), TreeLeaf(Ports(OutputsOf(c)), 512),
                QTreeNum(Ports(OutputsOf(c))), QTreeFar(Ports(OutputsOf(c))))
<1> DEFINE out == OutputsOf(c)
           inp == InputsOf(c)
           P == Ports(out)
           leaf == TreeLeaf(P, 512)
           num == QTreeNum(P)
           far == QTreeFar(P)
           R == {0} \cup (256 .. 259) \cup (512 .. 527)
           Q(r) == IF r = 0 THEN 0 .. 3 ELSE 0 .. 4
<1>1. c.k = 4 /\ c.n = 3 /\ c.nodes = 64
  BY FourToThe DEF TreeSized
<1>2. QTreeRouters(c) = R
  <2>1. Below(c.n) = {0, 1, 2}
    BY <1>1 DEF Below
  <2>2. Below(1) = 0 .. 0 /\ Below(4) = 0 .. 3 /\ Below(16) = 0 .. 15
    BY DEF Below
  <2>3. \A x : x \in QTreeRouters(c) <=> \E h \in {0, 1, 2} : \E pos \in Below(powi(4, h)) : x = h * 256 + pos
    BY <1>1, <2>1 DEF QTreeRouters
  <2>4. \A x : x \in QTreeRouters(c) <=> \/ \E pos \in 0 .. 0 : x = 0 * 256 + pos
                                         \/ \E pos \in 0 .. 3 : x = 1 * 256 + pos
                                         \/ \E pos \in 0 .. 15 : x = 2 * 256 + pos
    BY <2>2, <2>3, FourToThe
  <2>5. \A x : /\ (\E pos \in 0 .. 0 : x = 0 * 256 + pos) <=> x = 0
               /\ (\E pos \in 0 .. 3 : x = 1 * 256 + pos) <=> x \in 256 .. 259
               /\ (\E pos \in 0 .. 15 : x = 2 * 256 + pos) <=> x \in 512 .. 527
    <3>1. \A x : (\E pos \in 0 .. 0 : x = 0 * 256 + pos) <=> x = 0
      OBVIOUS
    <3>2. \A x \in 256 .. 259 : x - 256 \in 0 .. 3 /\ x = 1 * 256 + (x - 256)
      OBVIOUS
    <3>3. \A x \in 512 .. 527 : x - 512 \in 0 .. 15 /\ x = 2 * 256 + (x - 512)
      OBVIOUS
    <3>4. \A pos \in 0 .. 3 : 1 * 256 + pos \in 256 .. 259
      OBVIOUS
    <3>5. \A pos \in 0 .. 15 : 2 * 256 + pos \in 512 .. 527
      OBVIOUS
    <3> QED
      BY <3>1, <3>2, <3>3, <3>4, <3>5
  <2> QED
    BY <2>4, <2>5
<1>3. out = [r \in R |-> QTreeOutputs(c, r)] /\ inp = [r \in R |-> QTreeInputs(c, r)]
  BY <1>2 DEF OutputsOf, InputsOf, Routers, Outputs, Inputs
<1>4. \A r \in R : /\ r = 0 => HeightFromID(r) = 0 /\ PosFromID(r) = 0
                   /\ r \in 256 .. 259 => HeightFromID(r) = 1 /\ PosFromID(r) = r - 256
                   /\ r \in 512 .. 527 => HeightFromID(r) = 2 /\ PosFromID(r) = r - 512
  BY DEF HeightFromID, PosFromID
<1>5. ASSUME NEW r \in R
      PROVE  /\ out[r] = [p \in Q(r) |->
                   IF p = 4 THEN Chan(LinksAbove(c, HeightFromID(r) - 1) + 4 * (PosFromID(r) \div 4) + (PosFromID(r) % 4))
                   ELSE IF HeightFromID(r) = 2 THEN NodeLink(4 * PosFromID(r) + p)
                   ELSE Chan(LinksAbove(c, 2) + (LinksAbove(c, HeightFromID(r)) + 4 * PosFromID(r) + p))]
             /\ inp[r] = [p \in Q(r) |->
                   IF p = 4 THEN Chan(LinksAbove(c, 2)
                                      + (LinksAbove(c, HeightFromID(r) - 1) + 4 * (PosFromID(r) \div 4) + (PosFromID(r) % 4)))
                   ELSE IF HeightFromID(r) = 2 THEN NodeLink(4 * PosFromID(r) + p)
                   ELSE Chan(LinksAbove(c, HeightFromID(r)) + 4 * PosFromID(r) + p)]
  <2>1. out[r] = QTreeOutputs(c, r) /\ inp[r] = QTreeInputs(c, r)
    BY <1>3
  <2>2. QTreePorts(c, r) = Q(r)
    <3>1. HeightFromID(r) = 0 <=> r = 0
      BY <1>4
    <3>2. r = 0 => QTreePorts(c, r) = 0 .. 3
      BY <1>1, <3>1 DEF QTreePorts, Below
    <3>3. r # 0 => QTreePorts(c, r) = 0 .. 4
      BY <1>1, <3>1 DEF QTreePorts, Below
    <3> QED
      BY <3>2, <3>3
  <2>3. c.n - 1 = 2
    BY <1>1
  <2> HIDE DEF R, Q
  <2> QED
    BY <1>1, <2>1, <2>2, <2>3 DEF QTreeOutputs, QTreeInputs, OutputIndex, InputIndex
<1>6. DOMAIN out = R /\ DOMAIN inp = R /\ \A r \in R : DOMAIN out[r] = Q(r) /\ DOMAIN inp[r] = Q(r)
  <2>1. DOMAIN out = R /\ DOMAIN inp = R
    BY <1>3
  <2> HIDE DEF out, inp, R, Q
  <2> QED
    BY <1>5, <2>1
<1>7. P = Ports(inp)
  <2> HIDE DEF out, inp, R, Q
  <2>1. DOMAIN out = DOMAIN inp /\ \A r \in DOMAIN out : DOMAIN out[r] = DOMAIN inp[r]
    BY <1>6
  <2> QED
    BY <2>1, SamePorts
<1>8. IsFiniteSet(P)
  <2>1. IsFiniteSet(R)
    <3>1. R \subseteq 0 .. 527
      OBVIOUS
    <3> DEFINE m == 527
    <3>2. m \in Int
      OBVIOUS
    <3> HIDE DEF m
    <3>4. IsFiniteSet(0 .. m)
      BY <3>2, UpTo
    <3>3. IsFiniteSet(0 .. 527)
      BY <3>4 DEF m
    <3> HIDE DEF R
    <3> QED
      BY <3>1, <3>3, FS_Subset, ZenonT(40)
  <2> DEFINE W == 0 .. 4
  <2> DEFINE m == 4
  <2>4. m \in Int
    OBVIOUS
  <2> HIDE DEF m
  <2>5. IsFiniteSet(0 .. m)
    BY <2>4, UpTo
  <2>2. IsFiniteSet(W)
    BY <2>5 DEF m
  <2>3. \A r \in R : Q(r) \subseteq W
    OBVIOUS
  <2> HIDE DEF out, R, Q, W
  <2> QED
    BY <1>6, <2>1, <2>2, <2>3, PortsFinite
<1>9. /\ \A r \in R : \A p \in Q(r) : <<r, p>> \in P
      /\ \A e \in P : \E r \in R : \E p \in Q(r) : e = <<r, p>>
  <2> HIDE DEF out, inp, R, Q
  <2> QED
    BY <1>6, PortIn
<1> HIDE DEF out, inp, P
<1>5a. ASSUME NEW r \in R, 4 \in Q(r), NEW h, NEW pos, h = HeightFromID(r) - 1, pos = PosFromID(r)
       PROVE  /\ out[r][4] = Chan(LinksAbove(c, h) + 4 * (pos \div 4) + (pos % 4))
              /\ inp[r][4] = Chan(LinksAbove(c, 2) + (LinksAbove(c, h) + 4 * (pos \div 4) + (pos % 4)))
  <2> HIDE DEF R, Q
  <2> QED
    BY <1>5, <1>5a
<1>5b. ASSUME NEW r \in R, NEW p \in Q(r), p # 4, NEW h, NEW pos, h = HeightFromID(r), pos = PosFromID(r)
       PROVE  /\ out[r][p] = IF h = 2 THEN NodeLink(4 * pos + p)
                             ELSE Chan(LinksAbove(c, 2) + (LinksAbove(c, h) + 4 * pos + p))
              /\ inp[r][p] = IF h = 2 THEN NodeLink(4 * pos + p) ELSE Chan(LinksAbove(c, h) + 4 * pos + p)
  <2> HIDE DEF R, Q
  <2> DEFINE O(q) == IF q = 4 THEN Chan(LinksAbove(c, HeightFromID(r) - 1) + 4 * (PosFromID(r) \div 4) + (PosFromID(r) % 4))
                     ELSE IF HeightFromID(r) = 2 THEN NodeLink(4 * PosFromID(r) + q)
                     ELSE Chan(LinksAbove(c, 2) + (LinksAbove(c, HeightFromID(r)) + 4 * PosFromID(r) + q))
             I(q) == IF q = 4 THEN Chan(LinksAbove(c, 2)
                                        + (LinksAbove(c, HeightFromID(r) - 1) + 4 * (PosFromID(r) \div 4) + (PosFromID(r) % 4)))
                     ELSE IF HeightFromID(r) = 2 THEN NodeLink(4 * PosFromID(r) + q)
                     ELSE Chan(LinksAbove(c, HeightFromID(r)) + 4 * PosFromID(r) + q)
  <2>1. out[r] = [q \in Q(r) |-> O(q)] /\ inp[r] = [q \in Q(r) |-> I(q)]
    BY <1>5
  <2> HIDE DEF O, I
  <2>2. out[r][p] = O(p) /\ inp[r][p] = I(p)
    BY <2>1
  <2>3. /\ O(p) = IF h = 2 THEN NodeLink(4 * pos + p) ELSE Chan(LinksAbove(c, 2) + (LinksAbove(c, h) + 4 * pos + p))
        /\ I(p) = IF h = 2 THEN NodeLink(4 * pos + p) ELSE Chan(LinksAbove(c, h) + 4 * pos + p)
    BY <1>5b, Zenon DEF O, I
  <2> QED
    BY <2>2, <2>3
<1>10. LinksAbove(c, 0) = 0 /\ LinksAbove(c, 1) = 4 /\ LinksAbove(c, 2) = 20
  BY <1>1, LinksAre
(* The routers of the three levels, and their ports. *)
<1> DEFINE top == 0
           mid(pos) == 256 + pos
           low(pos) == 512 + pos
           up == 4
           F == 0 .. 3
           L == 0 .. 15
<1>11. ASSUME NEW p \in F PROVE out[top][p] = Chan(20 + p) /\ inp[top][p] = Chan(p)
  <2>1. top \in R /\ HeightFromID(top) = 0 /\ PosFromID(top) = 0 /\ p \in Q(top) /\ p # 4 /\ 0 # 2
    BY <1>4
  <2>2. 20 + (0 + 4 * 0 + p) = 20 + p /\ 0 + 4 * 0 + p = p
    OBVIOUS
  <2> HIDE DEF R, Q, top, F
  <2>3. out[top][p] = Chan(LinksAbove(c, 2) + (LinksAbove(c, 0) + 4 * 0 + p))
        /\ inp[top][p] = Chan(LinksAbove(c, 0) + 4 * 0 + p)
    BY <1>5b, <2>1
  <2> QED
    BY <1>10, <2>2, <2>3
<1>12. ASSUME NEW pos \in F, NEW p \in F
       PROVE  out[mid(pos)][p] = Chan(24 + 4 * pos + p) /\ inp[mid(pos)][p] = Chan(4 + 4 * pos + p)
  <2> DEFINE r == mid(pos)
  <2>1. r \in R /\ HeightFromID(r) = 1 /\ PosFromID(r) = pos /\ p \in Q(r) /\ p # 4 /\ 1 # 2
    BY <1>4
  <2>2. 20 + (4 + 4 * pos + p) = 24 + 4 * pos + p
    OBVIOUS
  <2> HIDE DEF R, Q, r, F
  <2>3. out[r][p] = Chan(LinksAbove(c, 2) + (LinksAbove(c, 1) + 4 * pos + p)) /\ inp[r][p] = Chan(LinksAbove(c, 1) + 4 * pos + p)
    BY <1>5b, <2>1
  <2> QED
    BY <1>10, <2>2, <2>3 DEF r
<1>13. ASSUME NEW pos \in F PROVE out[mid(pos)][up] = Chan(pos) /\ inp[mid(pos)][up] = Chan(20 + pos)
  <2> DEFINE r == mid(pos)
  <2>1. r \in R /\ HeightFromID(r) - 1 = 0 /\ PosFromID(r) = pos /\ 4 \in Q(r)
    BY <1>4
  <2>2. 0 + 4 * (pos \div 4) + (pos % 4) = pos
    OBVIOUS
  <2> HIDE DEF R, Q, r, F
  <2>3. /\ out[r][4] = Chan(LinksAbove(c, 0) + 4 * (pos \div 4) + (pos % 4))
        /\ inp[r][4] = Chan(LinksAbove(c, 2) + (LinksAbove(c, 0) + 4 * (pos \div 4) + (pos % 4)))
    BY <1>5a, <2>1
  <2> QED
    BY <1>10, <2>2, <2>3 DEF r
<1>14. ASSUME NEW pos \in L PROVE out[low(pos)][up] = Chan(4 + pos) /\ inp[low(pos)][up] = Chan(24 + pos)
  <2> DEFINE r == low(pos)
  <2>1. r \in R /\ HeightFromID(r) - 1 = 1 /\ PosFromID(r) = pos /\ 4 \in Q(r)
    BY <1>4
  <2>2. 4 + 4 * (pos \div 4) + (pos % 4) = 4 + pos /\ 20 + (4 + pos) = 24 + pos
    OBVIOUS
  <2> HIDE DEF R, Q, r, L
  <2>3. /\ out[r][4] = Chan(LinksAbove(c, 1) + 4 * (pos \div 4) + (pos % 4))
        /\ inp[r][4] = Chan(LinksAbove(c, 2) + (LinksAbove(c, 1) + 4 * (pos \div 4) + (pos % 4)))
    BY <1>5a, <2>1
  <2> QED
    BY <1>10, <2>2, <2>3 DEF r
<1>15. ASSUME NEW pos \in L, NEW p \in F
       PROVE  out[low(pos)][p] = NodeLink(4 * pos + p) /\ inp[low(pos)][p] = NodeLink(4 * pos + p)
  <2> DEFINE r == low(pos)
  <2>1. r \in R /\ HeightFromID(r) = 2 /\ PosFromID(r) = pos /\ p \in Q(r) /\ p # 4
    BY <1>4
  <2> HIDE DEF R, Q, r, F, L
  <2>2. out[r][p] = NodeLink(4 * pos + p) /\ inp[r][p] = NodeLink(4 * pos + p)
    BY <1>5b, <2>1
  <2> QED
    BY <2>2 DEF r
<1>16. /\ \A r \in R : r = top \/ (\E pos \in F : r = mid(pos)) \/ \E pos \in L : r = low(pos)
       /\ \A p : p \in Q(top) <=> p \in F
       /\ \A pos \in F : \A p : p \in Q(mid(pos)) <=> p \in F \/ p = up
       /\ \A pos \in L : \A p : p \in Q(low(pos)) <=> p \in F \/ p = up
       /\ top \in R /\ (\A pos \in F : mid(pos) \in R) /\ (\A pos \in L : low(pos) \in R)
  <2>1. \A r \in R : \/ r = 0
                     \/ r - 256 \in 0 .. 3 /\ r = 256 + (r - 256)
                     \/ r - 512 \in 0 .. 15 /\ r = 512 + (r - 512)
    OBVIOUS
  <2>2. \A r \in R : r = top \/ (\E pos \in F : r = mid(pos)) \/ \E pos \in L : r = low(pos)
    BY <2>1
  <2>3. /\ \A p : p \in Q(top) <=> p \in F
        /\ \A pos \in F : \A p : p \in Q(mid(pos)) <=> p \in F \/ p = up
        /\ \A pos \in L : \A p : p \in Q(low(pos)) <=> p \in F \/ p = up
    OBVIOUS
  <2>4. top \in R /\ (\A pos \in F : mid(pos) \in R) /\ (\A pos \in L : low(pos) \in R)
    OBVIOUS
  <2> QED
    BY <2>2, <2>3, <2>4
<1>17. /\ \A pos \in F : mid(pos) # 0 /\ mid(pos) < 512 /\ ~(mid(pos) >= 512) /\ mid(pos) - 256 = pos
       /\ \A pos \in L : low(pos) # 0 /\ ~(low(pos) < 512) /\ low(pos) >= 512 /\ low(pos) - 512 = pos
       /\ \A p \in F : p < 4 /\ p # 4 /\ p \in Int
       /\ top = 0 /\ ~(top >= 512) /\ up = 4 /\ ~(up < 4)
  OBVIOUS
<1>18. /\ \A p \in F : 256 + p = mid(p)
       /\ \A i \in L : 512 + i = low(i)
       /\ \A i \in L : 256 + (i \div 4) = mid(i \div 4)
  OBVIOUS
<1>28. /\ \A pos \in F, p \in F : /\ 4 * pos + p \in L /\ (4 * pos + p) \div 4 = pos /\ (4 * pos + p) % 4 = p
                                  /\ 24 + 4 * pos + p = 24 + (4 * pos + p) /\ 4 + 4 * pos + p = 4 + (4 * pos + p)
       /\ \A i \in L : i \div 4 \in F /\ i % 4 \in F /\ 4 * (i \div 4) + (i % 4) = i
                       /\ 24 + 4 * (i \div 4) + (i % 4) = 24 + i
  OBVIOUS
<1> HIDE DEF R, Q, F, L, top, mid, low, up
<1>19. /\ \A p \in F : <<top, p>> \in P
       /\ \A pos \in F, p \in F : <<mid(pos), p>> \in P
       /\ \A pos \in F : <<mid(pos), up>> \in P
       /\ \A pos \in L, p \in F : <<low(pos), p>> \in P
       /\ \A pos \in L : <<low(pos), up>> \in P
  BY <1>9, <1>16
<1>20. ASSUME NEW e \in P
       PROVE  \/ \E p \in F : e = <<top, p>>
              \/ \E pos \in F : e = <<mid(pos), up>>
              \/ \E pos \in F, p \in F : e = <<mid(pos), p>>
              \/ \E pos \in L : e = <<low(pos), up>>
              \/ \E pos \in L, p \in F : e = <<low(pos), p>>
  <2>1. PICK r \in R : \E p \in Q(r) : e = <<r, p>>
    BY <1>9
  <2>2. PICK p \in Q(r) : e = <<r, p>>
    BY <2>1
  <2> QED
    BY <1>16, <2>2
<1>21. ASSUME NEW r, NEW p, <<r, p>> \in P
       PROVE  /\ r >= 512 /\ p < 4 => <<r, p>> \in leaf
              /\ ~(r >= 512) \/ ~(p < 4) => <<r, p>> \notin leaf
              /\ r = 0 => num[<<r, p>>] = 20 + p /\ far[<<r, p>>] = <<256 + p, 4>>
              /\ r # 0 /\ r < 512 /\ p = 4 => num[<<r, p>>] = r - 256 /\ far[<<r, p>>] = <<0, r - 256>>
              /\ r # 0 /\ r < 512 /\ p # 4 => /\ num[<<r, p>>] = 24 + 4 * (r - 256) + p
                                              /\ far[<<r, p>>] = <<512 + (4 * (r - 256) + p), 4>>
              /\ r # 0 /\ ~(r < 512) /\ p = 4 => num[<<r, p>>] = 4 + (r - 512)
              /\ r # 0 /\ ~(r < 512) /\ p # 4 => num[<<r, p>>] = 4 * (r - 512) + p
              /\ r # 0 /\ ~(r < 512) => far[<<r, p>>] = <<256 + ((r - 512) \div 4), (r - 512) % 4>>
  BY <1>21 DEF TreeLeaf, QTreeNum, QTreeFar
<1>22. leaf \subseteq P
  BY DEF TreeLeaf
<1> HIDE DEF leaf, num, far
<1>30. ASSUME NEW p \in F
       PROVE  <<top, p>> \notin leaf /\ num[<<top, p>>] = 20 + p /\ far[<<top, p>>] = <<mid(p), up>>
  <2>1. <<top, p>> \in P
    BY <1>19
  <2>2. <<top, p>> \notin leaf /\ num[<<top, p>>] = 20 + p /\ far[<<top, p>>] = <<256 + p, 4>>
    BY <1>17, <1>21, <2>1
  <2> QED
    BY <1>17, <1>18, <2>2
<1>31. ASSUME NEW pos \in F
       PROVE  <<mid(pos), up>> \notin leaf /\ num[<<mid(pos), up>>] = pos /\ far[<<mid(pos), up>>] = <<top, pos>>
  <2>1. <<mid(pos), up>> \in P
    BY <1>19
  <2>2. <<mid(pos), up>> \notin leaf /\ num[<<mid(pos), up>>] = mid(pos) - 256 /\ far[<<mid(pos), up>>] = <<0, mid(pos) - 256>>
    BY <1>17, <1>21, <2>1
  <2> QED
    BY <1>17, <2>2
<1>32. ASSUME NEW pos \in F, NEW p \in F
       PROVE  /\ <<mid(pos), p>> \notin leaf /\ num[<<mid(pos), p>>] = 24 + (4 * pos + p)
              /\ far[<<mid(pos), p>>] = <<low(4 * pos + p), up>>
  <2>1. <<mid(pos), p>> \in P
    BY <1>19
  <2>2. /\ <<mid(pos), p>> \notin leaf /\ num[<<mid(pos), p>>] = 24 + 4 * (mid(pos) - 256) + p
        /\ far[<<mid(pos), p>>] = <<512 + (4 * (mid(pos) - 256) + p), 4>>
    BY <1>17, <1>21, <2>1
  <2>3. mid(pos) - 256 = pos /\ 24 + 4 * pos + p = 24 + (4 * pos + p) /\ 512 + (4 * pos + p) = low(4 * pos + p) /\ up = 4
    BY <1>17, <1>18, <1>28
  <2> QED
    BY <2>2, <2>3
<1>33. ASSUME NEW pos \in L
       PROVE  /\ <<low(pos), up>> \notin leaf /\ num[<<low(pos), up>>] = 4 + pos
              /\ far[<<low(pos), up>>] = <<mid(pos \div 4), pos % 4>>
  <2>1. <<low(pos), up>> \in P
    BY <1>19
  <2>2. /\ <<low(pos), up>> \notin leaf /\ num[<<low(pos), up>>] = 4 + (low(pos) - 512)
        /\ far[<<low(pos), up>>] = <<256 + ((low(pos) - 512) \div 4), (low(pos) - 512) % 4>>
    BY <1>17, <1>21, <2>1
  <2>3. low(pos) - 512 = pos /\ 256 + (pos \div 4) = mid(pos \div 4)
    BY <1>17, <1>18
  <2> QED
    BY <2>2, <2>3
<1>34. ASSUME NEW pos \in L, NEW p \in F
       PROVE  <<low(pos), p>> \in leaf /\ num[<<low(pos), p>>] = 4 * pos + p
  <2>1. <<low(pos), p>> \in P
    BY <1>19
  <2>2. <<low(pos), p>> \in leaf /\ num[<<low(pos), p>>] = 4 * (low(pos) - 512) + p
    BY <1>17, <1>21, <2>1
  <2> QED
    BY <1>17, <2>2
<1>35. \A f, r, p : At(f, <<r, p>>) = f[r][p]
  BY DEF At
<1>36. ASSUME NEW e \in leaf
       PROVE  \E pos \in L, p \in F : e = <<low(pos), p>>
  BY <1>20, <1>22, <1>30, <1>31, <1>32, <1>33
<1>37. ASSUME NEW e \in P \ leaf
       PROVE  \/ \E p \in F : e = <<top, p>>
              \/ \E pos \in F : e = <<mid(pos), up>>
              \/ \E pos \in F, p \in F : e = <<mid(pos), p>>
              \/ \E pos \in L : e = <<low(pos), up>>
  BY <1>20, <1>34
<1>38. ASSUME NEW e \in leaf PROVE At(out, e) = NodeLink(num[e]) /\ At(inp, e) = NodeLink(num[e])
  BY <1>15, <1>34, <1>35, <1>36
<1>39. ASSUME NEW e \in P \ leaf
       PROVE  /\ At(out, e) = Chan(num[e]) /\ At(inp, e) = Chan(num[far[e]])
              /\ far[e] \in P \ leaf /\ far[far[e]] = e
  <2>1. CASE \E p \in F : e = <<top, p>>
    BY <1>11, <1>19, <1>30, <1>31, <1>35, <2>1
  <2>2. CASE \E pos \in F : e = <<mid(pos), up>>
    BY <1>13, <1>19, <1>30, <1>31, <1>35, <2>2
  <2>3. CASE \E pos \in F, p \in F : e = <<mid(pos), p>>
    <3>1. PICK pos \in F, p \in F : e = <<mid(pos), p>>
      BY <2>3
    <3> DEFINE i == 4 * pos + p
    <3>2. i \in L /\ i \div 4 = pos /\ i % 4 = p /\ 24 + 4 * pos + p = 24 + i /\ 4 + 4 * pos + p = 4 + i
      BY <1>28
    <3>3. /\ num[e] = 24 + i /\ far[e] = <<low(i), up>>
          /\ out[mid(pos)][p] = Chan(24 + i) /\ inp[mid(pos)][p] = Chan(4 + i)
      BY <1>12, <1>32, <3>1, <3>2
    <3> HIDE DEF i
    <3>4. num[<<low(i), up>>] = 4 + i /\ far[<<low(i), up>>] = <<mid(pos), p>> /\ <<low(i), up>> \in P \ leaf
      BY <1>19, <1>33, <3>2
    <3> QED
      BY <1>35, <3>1, <3>3, <3>4
  <2>4. CASE \E pos \in L : e = <<low(pos), up>>
    <3>1. PICK i \in L : e = <<low(i), up>>
      BY <2>4
    <3> DEFINE u == i \div 4
               v == i % 4
    <3>2. u \in F /\ v \in F /\ 24 + (4 * u + v) = 24 + i /\ 4 * u + v = i
      BY <1>28
    <3>3. num[e] = 4 + i /\ far[e] = <<mid(u), v>> /\ out[low(i)][up] = Chan(4 + i) /\ inp[low(i)][up] = Chan(24 + i)
      BY <1>14, <1>33, <3>1
    <3> HIDE DEF u, v
    <3>4. num[<<mid(u), v>>] = 24 + i /\ far[<<mid(u), v>>] = <<low(i), up>> /\ <<mid(u), v>> \in P \ leaf
      BY <1>19, <1>32, <3>2
    <3> QED
      BY <1>35, <3>1, <3>3, <3>4
  <2> QED
    BY <1>37, <2>1, <2>2, <2>3, <2>4
<1>40. ASSUME NEW e \in leaf, NEW g \in leaf, num[e] = num[g] PROVE e = g
  <2>1. PICK pos \in L, p \in F : e = <<low(pos), p>>
    BY <1>36
  <2>2. PICK s \in L, q \in F : g = <<low(s), q>>
    BY <1>36
  <2>3. 4 * pos + p = 4 * s + q
    BY <1>34, <1>40, <2>1, <2>2
  <2>4. pos = s /\ p = q
    BY <2>3 DEF F, L
  <2> QED
    BY <2>1, <2>2, <2>4
<1>41. ASSUME NEW e \in P \ leaf, NEW g \in P \ leaf, num[e] = num[g] PROVE e = g
  <2>1. \A x \in P \ leaf : \/ \E p \in F : x = <<top, p>> /\ num[x] = 20 + p
                            \/ \E pos \in F : x = <<mid(pos), up>> /\ num[x] = pos
                            \/ \E pos \in F, p \in F : x = <<mid(pos), p>> /\ num[x] = 24 + (4 * pos + p)
                            \/ \E pos \in L : x = <<low(pos), up>> /\ num[x] = 4 + pos
    BY <1>30, <1>31, <1>32, <1>33, <1>37
  <2>2. /\ \A p \in F : 20 + p \in 20 .. 23
        /\ \A pos \in F : pos \in 0 .. 3
        /\ \A pos \in F, p \in F : 24 + (4 * pos + p) \in 24 .. 39
        /\ \A pos \in L : 4 + pos \in 4 .. 19
    BY DEF F, L
  <2>3. /\ \A p, q \in F : 20 + p = 20 + q => p = q
        /\ \A pos, s \in F : \A p, q \in F : 24 + (4 * pos + p) = 24 + (4 * s + q) => pos = s /\ p = q
        /\ \A pos, s \in L : 4 + pos = 4 + s => pos = s
    BY DEF F, L
  <2>4. /\ \A i : i \in 20 .. 23 => i \notin 0 .. 3 /\ i \notin 24 .. 39 /\ i \notin 4 .. 19
        /\ \A i : i \in 0 .. 3 => i \notin 24 .. 39 /\ i \notin 4 .. 19
        /\ \A i : i \in 24 .. 39 => i \notin 4 .. 19
    OBVIOUS
  <2> DEFINE K1 == 20 .. 23
             K2 == 0 .. 3
             K3 == 24 .. 39
             K4 == 4 .. 19
  <2> HIDE DEF K1, K2, K3, K4
  <2>5. /\ \A i : i \in K1 => i \notin K2 /\ i \notin K3 /\ i \notin K4
        /\ \A i : i \in K2 => i \notin K3 /\ i \notin K4
        /\ \A i : i \in K3 => i \notin K4
    BY <2>4 DEF K1, K2, K3, K4
  <2>6. \A x \in P \ leaf : \/ \E p \in F : x = <<top, p>> /\ num[x] = 20 + p /\ num[x] \in K1
                            \/ \E pos \in F : x = <<mid(pos), up>> /\ num[x] = pos /\ num[x] \in K2
                            \/ \E pos \in F, p \in F : x = <<mid(pos), p>> /\ num[x] = 24 + (4 * pos + p) /\ num[x] \in K3
                            \/ \E pos \in L : x = <<low(pos), up>> /\ num[x] = 4 + pos /\ num[x] \in K4
    BY <2>1, <2>2 DEF K1, K2, K3, K4
  <2> QED
    BY <1>41, <2>3, <2>5, <2>6
<1>42. ASSUME NEW i \in Nodes(c) PROVE \E e \in leaf : num[e] = i
  <2>1. i \in 0 .. 63
    BY <1>1 DEF Nodes, Below
  <2> DEFINE u == i \div 4
             v == i % 4
  <2>2. u \in L /\ v \in F /\ 4 * u + v = i
    BY <2>1 DEF F, L
  <2> HIDE DEF u, v
  <2> QED
    BY <1>34, <2>2
<1>43. Ports(out) = P
  BY DEF P
<1> QED
  BY <1>7, <1>8, <1>22, <1>38, <1>39, <1>40, <1>41, <1>42, <1>43 DEF Paired, P, out, inp, leaf, num, far

-----------------------------------------------------------------------------
(* Tree4.                                                                  *)
Tree4Num(P) == [e \in P |->
  IF e[1] < 4 THEN 64 + 2 * (8 * e[1] + e[2])
  ELSE IF e[1] < 32
  THEN IF e[2] < 4 THEN 2 * (4 * (e[1] - 16) + e[2]) ELSE (64 + 2 * (8 * (e[2] - 4) + (e[1] - 16))) + 1
  ELSE IF e[2] < 4 THEN 4 * (e[1] - 32) + e[2]
  ELSE 2 * (4 * (2 * ((e[1] - 32) \div 4) + (e[2] - 4)) + ((e[1] - 32) % 4)) + 1]
Tree4Far(P) == [e \in P |->
  IF e[1] < 4 THEN <<16 + e[2], 4 + e[1]>>
  ELSE IF e[1] < 32
  THEN IF e[2] < 4 THEN <<32 + (4 * ((e[1] - 16) \div 2) + e[2]), 4 + ((e[1] - 16) % 2)>>
       ELSE <<e[2] - 4, e[1] - 16>>
  ELSE <<16 + (2 * ((e[1] - 32) \div 4) + (e[2] - 4)), (e[1] - 32) % 4>>]

LEMMA Tree4Paired ==
  ASSUME NEW c, c.network = "tree4", TreeSized(c)
  PROVE  Paired(c, Ports(OutputsOf(c)), TreeLeaf(Ports(OutputsOf(c)), 32),
                Tree4Num(Ports(OutputsOf(c))), Tree4Far(Ports(OutputsOf(c))))
<1> DEFINE out == OutputsOf(c)
           inp == InputsOf(c)
           P == Ports(out)
           leaf == TreeLeaf(P, 32)
           num == Tree4Num(P)
           far == Tree4Far(P)
           R == (0 .. 3) \cup (16 .. 23) \cup (32 .. 47)
           Q(r) == IF r < 32 THEN 0 .. 7 ELSE 0 .. 5
           pair(h, pos, p) == IF h = 0 THEN 64 + 2 * (8 * pos + p)
                              ELSE IF h = 1 THEN IF p < 4 THEN 2 * (4 * pos + p) ELSE 64 + 2 * (8 * (p - 4) + pos)
                              ELSE 2 * (4 * (2 * (pos \div 4) + p - 4) + (pos % 4))
           O(h, pos, p) == IF h = 2 /\ p < 4 THEN NodeLink(4 * pos + p)
                           ELSE Chan(pair(h, pos, p) + IF h > 0 /\ p >= 4 THEN 1 ELSE 0)
           I(h, pos, p) == IF h = 2 /\ p < 4 THEN NodeLink(4 * pos + p)
                           ELSE Chan(pair(h, pos, p) + IF h > 0 /\ p >= 4 THEN 0 ELSE 1)
<1>1. c.k = 4 /\ c.n = 3 /\ c.nodes = 64
  BY FourToThe DEF TreeSized
<1>2. Tree4Routers(c) = R
  BY DEF Tree4Routers, Below
<1>3. out = [r \in R |-> Tree4Outputs(c, r)] /\ inp = [r \in R |-> Tree4Inputs(c, r)]
  BY <1>2 DEF OutputsOf, InputsOf, Routers, Outputs, Inputs
<1>4. \A r \in R : /\ r \in 0 .. 3 => r \div 16 = 0 /\ r % 16 = r
                   /\ r \in 16 .. 23 => r \div 16 = 1 /\ r % 16 = r - 16
                   /\ r \in 32 .. 47 => r \div 16 = 2 /\ r % 16 = r - 32
  OBVIOUS
<1>5. ASSUME NEW r \in R
      PROVE  /\ out[r] = [p \in Q(r) |-> O(r \div 16, r % 16, p)]
             /\ inp[r] = [p \in Q(r) |-> I(r \div 16, r % 16, p)]
  <2>1. out[r] = Tree4Outputs(c, r) /\ inp[r] = Tree4Inputs(c, r)
    BY <1>3
  <2> DEFINE h == r \div 16
             pos == r % 16
  <2>2. Tree4Ports(h) = Q(r)
    <3>1. (h = 2 /\ ~(r < 32)) \/ (h # 2 /\ r < 32)
      BY <1>4
    <3> HIDE DEF R, h
    <3>2. h = 2 => Tree4Ports(h) = 0 .. 5
      BY DEF Tree4Ports, Below
    <3>3. h # 2 => Tree4Ports(h) = 0 .. 7
      BY DEF Tree4Ports, Below
    <3> QED
      BY <3>1, <3>2, <3>3
  <2>3. \A p : Tree4Pair(c, h, pos, p) = pair(h, pos, p) /\ (Tree4Up(c, h, p) <=> h > 0 /\ p >= 4)
    <3> HIDE DEF h, pos
    <3>1. 2 * 4 = 8
      OBVIOUS
    <3> QED
      BY <1>1, <3>1 DEF Tree4Pair, TopToMiddle, MiddleToLeaf, Tree4Up
  <2>4. /\ Tree4Outputs(c, r) = [p \in Tree4Ports(h) |->
             IF h = 2 /\ p < c.k THEN NodeLink(c.k * pos + p)
             ELSE Chan(Tree4Pair(c, h, pos, p) + IF Tree4Up(c, h, p) THEN 1 ELSE 0)]
        /\ Tree4Inputs(c, r) = [p \in Tree4Ports(h) |->
             IF h = 2 /\ p < c.k THEN NodeLink(c.k * pos + p)
             ELSE Chan(Tree4Pair(c, h, pos, p) + IF Tree4Up(c, h, p) THEN 0 ELSE 1)]
    BY DEF Tree4Outputs, Tree4Inputs
  <2> HIDE DEF R, Q, pair, h, pos
  <2>5. /\ Tree4Outputs(c, r) = [p \in Q(r) |-> O(h, pos, p)]
        /\ Tree4Inputs(c, r) = [p \in Q(r) |-> I(h, pos, p)]
    BY <1>1, <2>2, <2>3, <2>4
  <2> QED
    BY <2>1, <2>5 DEF h, pos
<1>6. DOMAIN out = R /\ DOMAIN inp = R /\ \A r \in R : DOMAIN out[r] = Q(r) /\ DOMAIN inp[r] = Q(r)
  <2>1. DOMAIN out = R /\ DOMAIN inp = R
    BY <1>3
  <2> HIDE DEF out, inp, R, Q, O, I
  <2> QED
    BY <1>5, <2>1
<1>7. P = Ports(inp)
  <2> HIDE DEF out, inp, R, Q
  <2>1. DOMAIN out = DOMAIN inp /\ \A r \in DOMAIN out : DOMAIN out[r] = DOMAIN inp[r]
    BY <1>6
  <2> QED
    BY <2>1, SamePorts
<1>8. IsFiniteSet(P)
  <2>1. IsFiniteSet(R)
    <3> DEFINE m == 47
    <3>1. R \subseteq 0 .. m
      OBVIOUS
    <3>2. m \in Int
      OBVIOUS
    <3> HIDE DEF m, R
    <3>3. IsFiniteSet(0 .. m)
      BY <3>2, UpTo
    <3> QED
      BY <3>1, <3>3, FS_Subset
  <2> DEFINE m == 7
             W == 0 .. m
  <2>2. m \in Int /\ \A r \in R : Q(r) \subseteq W
    OBVIOUS
  <2> HIDE DEF m
  <2>3. IsFiniteSet(W)
    BY <2>2, UpTo
  <2> HIDE DEF out, R, Q, W
  <2> QED
    BY <1>6, <2>1, <2>2, <2>3, PortsFinite
<1>9. /\ \A r \in R : \A p \in Q(r) : <<r, p>> \in P
      /\ \A e \in P : \E r \in R : \E p \in Q(r) : e = <<r, p>>
  <2> HIDE DEF out, inp, R, Q
  <2> QED
    BY <1>6, PortIn
<1> HIDE DEF out, inp, P, O, I
<1>10. ASSUME NEW r \in R, NEW p \in Q(r), NEW h, NEW pos, h = r \div 16, pos = r % 16
       PROVE  out[r][p] = O(h, pos, p) /\ inp[r][p] = I(h, pos, p)
  <2> HIDE DEF R, Q
  <2> QED
    BY <1>5, <1>10, ZenonT(40)
(* The routers of the three levels, and their ports. *)
<1> DEFINE top(pos) == pos + 0
           mid(pos) == 16 + pos
           low(pos) == 32 + pos
           up(q) == 4 + q
           T == 0 .. 1
           F == 0 .. 3
           E == 0 .. 7
           L == 0 .. 15
<1>11. ASSUME NEW pos \in F, NEW p \in E
       PROVE  out[top(pos)][p] = Chan(64 + 2 * (8 * pos + p)) /\ inp[top(pos)][p] = Chan((64 + 2 * (8 * pos + p)) + 1)
  <2> DEFINE r == top(pos)
  <2>1. r \in R /\ 0 = r \div 16 /\ pos = r % 16 /\ p \in Q(r)
    BY <1>4
  <2>2. /\ O(0, pos, p) = Chan(64 + 2 * (8 * pos + p) + 0)
        /\ I(0, pos, p) = Chan(64 + 2 * (8 * pos + p) + 1)
    BY DEF O, I
  <2>3. 64 + 2 * (8 * pos + p) + 0 = 64 + 2 * (8 * pos + p) /\ 64 + 2 * (8 * pos + p) + 1 = (64 + 2 * (8 * pos + p)) + 1
    OBVIOUS
  <2> HIDE DEF R, Q, r, F, E
  <2>4. out[r][p] = O(0, pos, p) /\ inp[r][p] = I(0, pos, p)
    BY <1>10, <2>1
  <2> QED
    BY <2>2, <2>3, <2>4 DEF r
<1>12. ASSUME NEW pos \in E, NEW p \in F
       PROVE  out[mid(pos)][p] = Chan(2 * (4 * pos + p)) /\ inp[mid(pos)][p] = Chan(2 * (4 * pos + p) + 1)
  <2> DEFINE r == mid(pos)
  <2>1. r \in R /\ 1 = r \div 16 /\ pos = r % 16 /\ p \in Q(r) /\ p < 4 /\ ~(p >= 4) /\ 1 # 2 /\ 1 # 0
    BY <1>4
  <2>2. O(1, pos, p) = Chan(2 * (4 * pos + p) + 0) /\ I(1, pos, p) = Chan(2 * (4 * pos + p) + 1)
    BY <2>1 DEF O, I
  <2>3. 2 * (4 * pos + p) + 0 = 2 * (4 * pos + p)
    OBVIOUS
  <2> HIDE DEF R, Q, r, F, E
  <2>4. out[r][p] = O(1, pos, p) /\ inp[r][p] = I(1, pos, p)
    BY <1>10, <2>1
  <2> QED
    BY <2>2, <2>3, <2>4 DEF r
<1>13. ASSUME NEW pos \in E, NEW q \in F
       PROVE  /\ out[mid(pos)][up(q)] = Chan((64 + 2 * (8 * q + pos)) + 1)
              /\ inp[mid(pos)][up(q)] = Chan(64 + 2 * (8 * q + pos))
  <2> DEFINE r == mid(pos)
             p == up(q)
  <2>1. r \in R /\ 1 = r \div 16 /\ pos = r % 16 /\ p \in Q(r) /\ ~(p < 4) /\ p >= 4 /\ p - 4 = q /\ 1 # 2 /\ 1 # 0 /\ 1 > 0
    BY <1>4
  <2> HIDE DEF R, Q, r, F, E, p
  <2>2. /\ O(1, pos, p) = Chan(64 + 2 * (8 * (p - 4) + pos) + 1)
        /\ I(1, pos, p) = Chan(64 + 2 * (8 * (p - 4) + pos) + 0)
    BY <2>1 DEF O, I
  <2>3. 64 + 2 * (8 * q + pos) + 0 = 64 + 2 * (8 * q + pos) /\ 64 + 2 * (8 * q + pos) + 1 = (64 + 2 * (8 * q + pos)) + 1
    BY DEF E, F
  <2>4. out[r][p] = O(1, pos, p) /\ inp[r][p] = I(1, pos, p)
    BY <1>10, <2>1
  <2> QED
    BY <2>1, <2>2, <2>3, <2>4 DEF r, p
<1>14. ASSUME NEW pos \in L, NEW q \in T
       PROVE  /\ out[low(pos)][up(q)] = Chan(2 * (4 * (2 * (pos \div 4) + q) + (pos % 4)) + 1)
              /\ inp[low(pos)][up(q)] = Chan(2 * (4 * (2 * (pos \div 4) + q) + (pos % 4)))
  <2> DEFINE r == low(pos)
             p == up(q)
  <2>1. r \in R /\ 2 = r \div 16 /\ pos = r % 16 /\ p \in Q(r) /\ ~(p < 4) /\ p >= 4 /\ 2 # 1 /\ 2 # 0 /\ 2 > 0
    BY <1>4
  <2>5. 2 * (pos \div 4) + p - 4 = 2 * (pos \div 4) + q
    OBVIOUS
  <2>3. 2 * (4 * (2 * (pos \div 4) + q) + (pos % 4)) + 0 = 2 * (4 * (2 * (pos \div 4) + q) + (pos % 4))
    OBVIOUS
  <2> HIDE DEF R, Q, r, T, L, p
  <2>2. /\ O(2, pos, p) = Chan(2 * (4 * (2 * (pos \div 4) + p - 4) + (pos % 4)) + 1)
        /\ I(2, pos, p) = Chan(2 * (4 * (2 * (pos \div 4) + p - 4) + (pos % 4)) + 0)
    BY <2>1 DEF O, I
  <2>4. out[r][p] = O(2, pos, p) /\ inp[r][p] = I(2, pos, p)
    BY <1>10, <2>1
  <2> QED
    BY <2>2, <2>3, <2>4, <2>5 DEF r, p
<1>15. ASSUME NEW pos \in L, NEW p \in F
       PROVE  out[low(pos)][p] = NodeLink(4 * pos + p) /\ inp[low(pos)][p] = NodeLink(4 * pos + p)
  <2> DEFINE r == low(pos)
  <2>1. r \in R /\ 2 = r \div 16 /\ pos = r % 16 /\ p \in Q(r) /\ p < 4
    BY <1>4
  <2> HIDE DEF R, Q, r, F, L
  <2>2. O(2, pos, p) = NodeLink(4 * pos + p) /\ I(2, pos, p) = NodeLink(4 * pos + p)
    BY <2>1 DEF O, I
  <2>3. out[r][p] = O(2, pos, p) /\ inp[r][p] = I(2, pos, p)
    BY <1>10, <2>1
  <2> QED
    BY <2>2, <2>3 DEF r
<1>16. /\ \A r \in R : (\E pos \in F : r = top(pos)) \/ (\E pos \in E : r = mid(pos)) \/ \E pos \in L : r = low(pos)
       /\ \A pos \in F : \A p : p \in Q(top(pos)) <=> p \in E
       /\ \A pos \in E : \A p : p \in Q(mid(pos)) <=> p \in F \/ \E q \in F : p = up(q)
       /\ \A pos \in L : \A p : p \in Q(low(pos)) <=> p \in F \/ \E q \in T : p = up(q)
       /\ (\A pos \in F : top(pos) \in R) /\ (\A pos \in E : mid(pos) \in R) /\ (\A pos \in L : low(pos) \in R)
  <2>1. \A r \in R : \/ r \in 0 .. 3 /\ r = r + 0
                     \/ r - 16 \in 0 .. 7 /\ r = 16 + (r - 16)
                     \/ r - 32 \in 0 .. 15 /\ r = 32 + (r - 32)
    OBVIOUS
  <2>2. \A r \in R : (\E pos \in F : r = top(pos)) \/ (\E pos \in E : r = mid(pos)) \/ \E pos \in L : r = low(pos)
    BY <2>1
  <2>3. /\ \A p : p \in 0 .. 7 <=> p \in F \/ \E q \in F : p = up(q)
        /\ \A p : p \in 0 .. 5 <=> p \in F \/ \E q \in T : p = up(q)
    <3>1. \A p \in 0 .. 7 : p \in F \/ (p - 4 \in F /\ p = 4 + (p - 4))
      OBVIOUS
    <3>2. \A p \in 0 .. 5 : p \in F \/ (p - 4 \in T /\ p = 4 + (p - 4))
      OBVIOUS
    <3>3. (\A q \in F : 4 + q \in 0 .. 7) /\ (\A q \in T : 4 + q \in 0 .. 5) /\ F \subseteq 0 .. 7 /\ F \subseteq 0 .. 5
      OBVIOUS
    <3> QED
      BY <3>1, <3>2, <3>3
  <2>4. /\ \A pos \in F : Q(top(pos)) = 0 .. 7
        /\ \A pos \in E : Q(mid(pos)) = 0 .. 7
        /\ \A pos \in L : Q(low(pos)) = 0 .. 5
    OBVIOUS
  <2>5. (\A pos \in F : top(pos) \in R) /\ (\A pos \in E : mid(pos) \in R) /\ (\A pos \in L : low(pos) \in R)
    OBVIOUS
  <2> HIDE DEF R, Q, F, L, T, top, mid, low, up
  <2> QED
    BY <2>2, <2>3, <2>4, <2>5
<1>17. /\ \A pos \in F : top(pos) < 4 /\ ~(top(pos) >= 32) /\ top(pos) = pos
       /\ \A pos \in E : ~(mid(pos) < 4) /\ mid(pos) < 32 /\ ~(mid(pos) >= 32) /\ mid(pos) - 16 = pos
       /\ \A pos \in L : ~(low(pos) < 4) /\ ~(low(pos) < 32) /\ low(pos) >= 32 /\ low(pos) - 32 = pos
       /\ \A p \in F : p < 4
       /\ \A q \in F : ~(up(q) < 4) /\ up(q) - 4 = q /\ 4 + q = up(q)
       /\ \A q \in T : ~(up(q) < 4) /\ up(q) - 4 = q /\ 4 + q = up(q)
  OBVIOUS
<1>18. (\A p \in E : 16 + p = mid(p)) /\ \A i \in L : 32 + i = low(i)
  OBVIOUS
<1>28. /\ \A pos \in E, p \in F :
            /\ 4 * (pos \div 2) + p \in L /\ pos % 2 \in T
            /\ (4 * (pos \div 2) + p) \div 4 = pos \div 2 /\ (4 * (pos \div 2) + p) % 4 = p
            /\ 2 * (pos \div 2) + (pos % 2) = pos
       /\ \A pos \in L, q \in T :
            /\ 2 * (pos \div 4) + q \in E /\ pos % 4 \in F
            /\ (2 * (pos \div 4) + q) \div 2 = pos \div 4 /\ (2 * (pos \div 4) + q) % 2 = q
            /\ 4 * (pos \div 4) + (pos % 4) = pos
  OBVIOUS
<1> HIDE DEF R, Q, T, F, E, L, top, mid, low, up
<1>19. /\ \A pos \in F, p \in E : <<top(pos), p>> \in P
       /\ \A pos \in E, p \in F : <<mid(pos), p>> \in P /\ <<mid(pos), up(p)>> \in P
       /\ \A pos \in L, p \in F : <<low(pos), p>> \in P
       /\ \A pos \in L, q \in T : <<low(pos), up(q)>> \in P
  BY <1>9, <1>16
<1>20. ASSUME NEW e \in P
       PROVE  \/ \E pos \in F, p \in E : e = <<top(pos), p>>
              \/ \E pos \in E, p \in F : e = <<mid(pos), p>>
              \/ \E pos \in E, q \in F : e = <<mid(pos), up(q)>>
              \/ \E pos \in L, q \in T : e = <<low(pos), up(q)>>
              \/ \E pos \in L, p \in F : e = <<low(pos), p>>
  <2>1. PICK r \in R : \E p \in Q(r) : e = <<r, p>>
    BY <1>9
  <2>2. PICK p \in Q(r) : e = <<r, p>>
    BY <2>1
  <2> QED
    BY <1>16, <2>2
<1>21. ASSUME NEW r, NEW p, <<r, p>> \in P
       PROVE  /\ r >= 32 /\ p < 4 => <<r, p>> \in leaf
              /\ ~(r >= 32) \/ ~(p < 4) => <<r, p>> \notin leaf
              /\ r < 4 => num[<<r, p>>] = 64 + 2 * (8 * r + p) /\ far[<<r, p>>] = <<16 + p, 4 + r>>
              /\ ~(r < 4) /\ r < 32 /\ p < 4 =>
                   /\ num[<<r, p>>] = 2 * (4 * (r - 16) + p)
                   /\ far[<<r, p>>] = <<32 + (4 * ((r - 16) \div 2) + p), 4 + ((r - 16) % 2)>>
              /\ ~(r < 4) /\ r < 32 /\ ~(p < 4) =>
                   /\ num[<<r, p>>] = (64 + 2 * (8 * (p - 4) + (r - 16))) + 1
                   /\ far[<<r, p>>] = <<p - 4, r - 16>>
              /\ ~(r < 4) /\ ~(r < 32) /\ p < 4 => num[<<r, p>>] = 4 * (r - 32) + p
              /\ ~(r < 4) /\ ~(r < 32) /\ ~(p < 4) =>
                   num[<<r, p>>] = 2 * (4 * (2 * ((r - 32) \div 4) + (p - 4)) + ((r - 32) % 4)) + 1
              /\ ~(r < 4) /\ ~(r < 32) =>
                   far[<<r, p>>] = <<16 + (2 * ((r - 32) \div 4) + (p - 4)), (r - 32) % 4>>
  BY <1>21 DEF TreeLeaf, Tree4Num, Tree4Far
<1>22. leaf \subseteq P
  BY DEF TreeLeaf
<1> HIDE DEF leaf, num, far
<1>30. ASSUME NEW pos \in F, NEW p \in E
       PROVE  /\ <<top(pos), p>> \notin leaf /\ num[<<top(pos), p>>] = 64 + 2 * (8 * pos + p)
              /\ far[<<top(pos), p>>] = <<mid(p), up(pos)>>
  <2>1. <<top(pos), p>> \in P
    BY <1>19
  <2>2. /\ <<top(pos), p>> \notin leaf /\ num[<<top(pos), p>>] = 64 + 2 * (8 * top(pos) + p)
        /\ far[<<top(pos), p>>] = <<16 + p, 4 + top(pos)>>
    BY <1>17, <1>21, <2>1
  <2>3. top(pos) = pos /\ 16 + p = mid(p) /\ 4 + pos = up(pos)
    BY <1>17, <1>18
  <2> QED
    BY <2>2, <2>3
<1>31. ASSUME NEW pos \in E, NEW p \in F
       PROVE  /\ <<mid(pos), p>> \notin leaf /\ num[<<mid(pos), p>>] = 2 * (4 * pos + p)
              /\ far[<<mid(pos), p>>] = <<low(4 * (pos \div 2) + p), up(pos % 2)>>
  <2>1. <<mid(pos), p>> \in P
    BY <1>19
  <2>2. /\ <<mid(pos), p>> \notin leaf /\ num[<<mid(pos), p>>] = 2 * (4 * (mid(pos) - 16) + p)
        /\ far[<<mid(pos), p>>] = <<32 + (4 * ((mid(pos) - 16) \div 2) + p), 4 + ((mid(pos) - 16) % 2)>>
    BY <1>17, <1>21, <2>1
  <2>3. mid(pos) - 16 = pos /\ 32 + (4 * (pos \div 2) + p) = low(4 * (pos \div 2) + p) /\ 4 + (pos % 2) = up(pos % 2)
    BY <1>17, <1>18, <1>28
  <2> QED
    BY <2>2, <2>3
<1>32. ASSUME NEW pos \in E, NEW q \in F
       PROVE  /\ <<mid(pos), up(q)>> \notin leaf /\ num[<<mid(pos), up(q)>>] = (64 + 2 * (8 * q + pos)) + 1
              /\ far[<<mid(pos), up(q)>>] = <<top(q), pos>>
  <2>1. <<mid(pos), up(q)>> \in P
    BY <1>19
  <2>2. /\ <<mid(pos), up(q)>> \notin leaf
        /\ num[<<mid(pos), up(q)>>] = (64 + 2 * (8 * (up(q) - 4) + (mid(pos) - 16))) + 1
        /\ far[<<mid(pos), up(q)>>] = <<up(q) - 4, mid(pos) - 16>>
    BY <1>17, <1>21, <2>1
  <2>3. mid(pos) - 16 = pos /\ up(q) - 4 = q /\ top(q) = q
    BY <1>17
  <2> QED
    BY <2>2, <2>3
<1>33. ASSUME NEW pos \in L, NEW q \in T
       PROVE  /\ <<low(pos), up(q)>> \notin leaf
              /\ num[<<low(pos), up(q)>>] = 2 * (4 * (2 * (pos \div 4) + q) + (pos % 4)) + 1
              /\ far[<<low(pos), up(q)>>] = <<mid(2 * (pos \div 4) + q), pos % 4>>
  <2>1. <<low(pos), up(q)>> \in P
    BY <1>19
  <2>2. /\ <<low(pos), up(q)>> \notin leaf
        /\ num[<<low(pos), up(q)>>] =
             2 * (4 * (2 * ((low(pos) - 32) \div 4) + (up(q) - 4)) + ((low(pos) - 32) % 4)) + 1
        /\ far[<<low(pos), up(q)>>] = <<16 + (2 * ((low(pos) - 32) \div 4) + (up(q) - 4)), (low(pos) - 32) % 4>>
    BY <1>17, <1>21, <2>1
  <2>3. low(pos) - 32 = pos /\ up(q) - 4 = q /\ 16 + (2 * (pos \div 4) + q) = mid(2 * (pos \div 4) + q)
    BY <1>17, <1>18, <1>28
  <2> QED
    BY <2>2, <2>3
<1>34. ASSUME NEW pos \in L, NEW p \in F
       PROVE  <<low(pos), p>> \in leaf /\ num[<<low(pos), p>>] = 4 * pos + p
  <2>1. <<low(pos), p>> \in P
    BY <1>19
  <2>2. <<low(pos), p>> \in leaf /\ num[<<low(pos), p>>] = 4 * (low(pos) - 32) + p
    BY <1>17, <1>21, <2>1
  <2> QED
    BY <1>17, <2>2
<1>35. \A f, r, p : At(f, <<r, p>>) = f[r][p]
  BY DEF At
<1>36. ASSUME NEW e \in leaf
       PROVE  \E pos \in L, p \in F : e = <<low(pos), p>>
  BY <1>20, <1>22, <1>30, <1>31, <1>32, <1>33
<1>37. ASSUME NEW e \in P \ leaf
       PROVE  \/ \E pos \in F, p \in E : e = <<top(pos), p>>
              \/ \E pos \in E, p \in F : e = <<mid(pos), p>>
              \/ \E pos \in E, q \in F : e = <<mid(pos), up(q)>>
              \/ \E pos \in L, q \in T : e = <<low(pos), up(q)>>
  BY <1>20, <1>34
<1>38. ASSUME NEW e \in leaf PROVE At(out, e) = NodeLink(num[e]) /\ At(inp, e) = NodeLink(num[e])
  BY <1>15, <1>34, <1>35, <1>36
<1>39. ASSUME NEW e \in P \ leaf
       PROVE  /\ At(out, e) = Chan(num[e]) /\ At(inp, e) = Chan(num[far[e]])
              /\ far[e] \in P \ leaf /\ far[far[e]] = e
  <2>1. CASE \E pos \in F, p \in E : e = <<top(pos), p>>
    <3>1. PICK pos \in F, p \in E : e = <<top(pos), p>>
      BY <2>1
    <3>2. /\ num[e] = 64 + 2 * (8 * pos + p) /\ far[e] = <<mid(p), up(pos)>>
          /\ out[top(pos)][p] = Chan(64 + 2 * (8 * pos + p)) /\ inp[top(pos)][p] = Chan((64 + 2 * (8 * pos + p)) + 1)
      BY <1>11, <1>30, <3>1
    <3>3. /\ num[<<mid(p), up(pos)>>] = (64 + 2 * (8 * pos + p)) + 1 /\ far[<<mid(p), up(pos)>>] = <<top(pos), p>>
          /\ <<mid(p), up(pos)>> \in P \ leaf
      BY <1>19, <1>32
    <3> QED
      BY <1>35, <3>1, <3>2, <3>3
  <2>2. CASE \E pos \in E, q \in F : e = <<mid(pos), up(q)>>
    BY <1>13, <1>19, <1>30, <1>32, <1>35, <2>2
  <2>3. CASE \E pos \in E, p \in F : e = <<mid(pos), p>>
    <3>1. PICK pos \in E, p \in F : e = <<mid(pos), p>>
      BY <2>3
    <3> DEFINE i == 4 * (pos \div 2) + p
               q == pos % 2
    <3>2. i \in L /\ q \in T /\ i \div 4 = pos \div 2 /\ i % 4 = p /\ 2 * (pos \div 2) + q = pos
      BY <1>28
    <3>3. /\ num[e] = 2 * (4 * pos + p) /\ far[e] = <<low(i), up(q)>>
          /\ out[mid(pos)][p] = Chan(2 * (4 * pos + p)) /\ inp[mid(pos)][p] = Chan(2 * (4 * pos + p) + 1)
      BY <1>12, <1>31, <3>1
    <3> HIDE DEF i, q
    <3>4. /\ num[<<low(i), up(q)>>] = 2 * (4 * pos + p) + 1 /\ far[<<low(i), up(q)>>] = <<mid(pos), p>>
          /\ <<low(i), up(q)>> \in P \ leaf
      BY <1>19, <1>33, <3>2
    <3> QED
      BY <1>35, <3>1, <3>3, <3>4
  <2>4. CASE \E pos \in L, q \in T : e = <<low(pos), up(q)>>
    <3>1. PICK pos \in L, q \in T : e = <<low(pos), up(q)>>
      BY <2>4
    <3> DEFINE j == 2 * (pos \div 4) + q
               v == pos % 4
    <3>2. j \in E /\ v \in F /\ j \div 2 = pos \div 4 /\ j % 2 = q /\ 4 * (j \div 2) + v = pos
      BY <1>28
    <3>3. /\ num[e] = 2 * (4 * j + v) + 1 /\ far[e] = <<mid(j), v>>
          /\ out[low(pos)][up(q)] = Chan(2 * (4 * j + v) + 1) /\ inp[low(pos)][up(q)] = Chan(2 * (4 * j + v))
      BY <1>14, <1>33, <3>1
    <3> HIDE DEF j, v
    <3>4. num[<<mid(j), v>>] = 2 * (4 * j + v) /\ far[<<mid(j), v>>] = <<low(pos), up(q)>> /\ <<mid(j), v>> \in P \ leaf
      BY <1>19, <1>31, <3>2
    <3> QED
      BY <1>35, <3>1, <3>3, <3>4
  <2> QED
    BY <1>37, <2>1, <2>2, <2>3, <2>4
<1>40. ASSUME NEW e \in leaf, NEW g \in leaf, num[e] = num[g] PROVE e = g
  <2>1. PICK pos \in L, p \in F : e = <<low(pos), p>>
    BY <1>36
  <2>2. PICK s \in L, q \in F : g = <<low(s), q>>
    BY <1>36
  <2>3. 4 * pos + p = 4 * s + q
    BY <1>34, <1>40, <2>1, <2>2
  <2>4. pos = s /\ p = q
    BY <2>3 DEF F, L
  <2> QED
    BY <2>1, <2>2, <2>4
<1>41. ASSUME NEW e \in P \ leaf, NEW g \in P \ leaf, num[e] = num[g] PROVE e = g
  <2> DEFINE n1(pos, p) == 64 + 2 * (8 * pos + p)
             n2(pos, p) == 2 * (4 * pos + p)
             n3(pos, q) == (64 + 2 * (8 * q + pos)) + 1
             n4(pos, q) == 2 * (4 * (2 * (pos \div 4) + q) + (pos % 4)) + 1
             K1 == {i \in 64 .. 127 : i % 2 = 0}
             K2 == {i \in 0 .. 63 : i % 2 = 0}
             K3 == {i \in 64 .. 127 : i % 2 = 1}
             K4 == {i \in 0 .. 63 : i % 2 = 1}
  <2>1. \A x \in P \ leaf : \/ \E pos \in F, p \in E : x = <<top(pos), p>> /\ num[x] = n1(pos, p)
                            \/ \E pos \in E, p \in F : x = <<mid(pos), p>> /\ num[x] = n2(pos, p)
                            \/ \E pos \in E, q \in F : x = <<mid(pos), up(q)>> /\ num[x] = n3(pos, q)
                            \/ \E pos \in L, q \in T : x = <<low(pos), up(q)>> /\ num[x] = n4(pos, q)
    BY <1>30, <1>31, <1>32, <1>33, <1>37
  <2>2. /\ \A pos \in F, p \in E : n1(pos, p) \in K1
        /\ \A pos \in E, p \in F : n2(pos, p) \in K2
        /\ \A pos \in E, q \in F : n3(pos, q) \in K3
        /\ \A pos \in L, q \in T : n4(pos, q) \in K4
    BY DEF T, F, E, L
  <2>3. /\ \A pos, s \in F : \A p, q \in E : n1(pos, p) = n1(s, q) => pos = s /\ p = q
        /\ \A pos, s \in E : \A p, q \in F : n2(pos, p) = n2(s, q) => pos = s /\ p = q
        /\ \A pos, s \in E : \A p, q \in F : n3(pos, p) = n3(s, q) => pos = s /\ p = q
        /\ \A pos, s \in L : \A p, q \in T : n4(pos, p) = n4(s, q) => pos = s /\ p = q
    BY DEF T, F, E, L
  <2>5. /\ \A i : i \in K1 => i \notin K2 /\ i \notin K3 /\ i \notin K4
        /\ \A i : i \in K2 => i \notin K3 /\ i \notin K4
        /\ \A i : i \in K3 => i \notin K4
    OBVIOUS
  <2> HIDE DEF n1, n2, n3, n4, K1, K2, K3, K4
  <2>6. \A x \in P \ leaf : \/ \E pos \in F, p \in E : x = <<top(pos), p>> /\ num[x] = n1(pos, p) /\ num[x] \in K1
                            \/ \E pos \in E, p \in F : x = <<mid(pos), p>> /\ num[x] = n2(pos, p) /\ num[x] \in K2
                            \/ \E pos \in E, q \in F : x = <<mid(pos), up(q)>> /\ num[x] = n3(pos, q) /\ num[x] \in K3
                            \/ \E pos \in L, q \in T : x = <<low(pos), up(q)>> /\ num[x] = n4(pos, q) /\ num[x] \in K4
    BY <2>1, <2>2
  <2> QED
    BY <1>41, <2>3, <2>5, <2>6
<1>42. ASSUME NEW i \in Nodes(c) PROVE \E e \in leaf : num[e] = i
  <2>1. i \in 0 .. 63
    BY <1>1 DEF Nodes, Below
  <2> DEFINE u == i \div 4
             v == i % 4
  <2>2. u \in L /\ v \in F /\ 4 * u + v = i
    BY <2>1 DEF F, L
  <2> HIDE DEF u, v
  <2> QED
    BY <1>34, <2>2
<1>43. Ports(out) = P
  BY DEF P
<1> QED
  BY <1>7, <1>8, <1>22, <1>38, <1>39, <1>40, <1>41, <1>42, <1>43 DEF Paired, P, out, inp, leaf, num, far

-----------------------------------------------------------------------------
(* The networks whose channels' numbers are computed from those of their   *)
(* routers and ports.  The express channels of a cmesh join the two halves *)
(* of an edge, which an odd edge does not have.                            *)
Halved(c) == c.network = "cmesh" => c.n = 2 /\ c.k % 2 = 0
Numbered(c) ==
  /\ c.network \in {"mesh", "torus", "fly", "fattree", "qtree", "tree4", "cmesh", "dragonfly"}
  /\ Halved(c)
LEMMA NumberedWired ==
  ASSUME NEW c \in Configs, Numbered(c)
  PROVE  WellWired[c]
<1>1. NetworkSized(c)
  BY SizesFit
<1>2. CASE c.network \in {"mesh", "torus"}
  <2>1. Meets(c, CubePeer(c))
    BY <1>1, <1>2, CubeMeets DEF NetworkSized
  <2> QED
    BY <2>1, MeetsWired
<1>3. CASE c.network = "fly"
  <2>1. Meets(c, FlyPeer(c))
    BY <1>1, <1>3, FlyMeets DEF NetworkSized
  <2> QED
    BY <2>1, MeetsWired
<1>4. CASE c.network = "fattree"
  <2>1. Meets(c, FatTreePeer(c))
    BY <1>1, <1>4, FatTreeMeets DEF NetworkSized
  <2> QED
    BY <2>1, MeetsWired
<1>5. CASE c.network \in {"qtree", "tree4"}
  <2> DEFINE P == Ports(OutputsOf(c))
  <2>1. TreeSized(c)
    BY <1>1, <1>5 DEF NetworkSized
  <2>2. \E leaf, num, far : Paired(c, P, leaf, num, far)
    BY <1>5, <2>1, QTreePaired, Tree4Paired
  <2>3. PICK leaf, num, far : Paired(c, P, leaf, num, far)
    BY <2>2
  <2>4. Meets(c, [e \in P |-> IF e \in leaf THEN e ELSE far[e]])
    BY <2>3, PairedMeets
  <2> QED
    BY <2>4, MeetsWired
<1>6. CASE c.network = "cmesh"
  <2>1. CMeshSized(c) /\ c.n = 2 /\ c.k % 2 = 0
    BY <1>1, <1>6 DEF NetworkSized, Numbered, Halved
  <2>2. Concentrated(c, CMeshRouters(c), 4, 4, CMeshNode(c), CMeshChan(c), CMeshFar(c))
    BY <1>6, <2>1, CMeshConcentrated
  <2>3. Meets(c, ConcentratedPeer(CMeshRouters(c), 4, 4, CMeshFar(c)))
    BY <2>2, ConcentratedMeets
  <2> QED
    BY <2>3, MeetsWired
<1>7. CASE c.network = "dragonfly"
  <2>1. DragonFlySized(c)
    BY <1>1, <1>7 DEF NetworkSized
  <2>2. /\ Concentrated(c, DragonFlyRouters(c), c.k, PortsPerSwitch(c),
                        DragonNode(c), DragonChan(c), DragonFar(c))
        /\ c.k \in Nat /\ PortsPerSwitch(c) \in Nat
    BY <1>7, <2>1, DragonFlyConcentrated DEF DragonFlySized, PortsPerSwitch
  <2>3. Meets(c, ConcentratedPeer(DragonFlyRouters(c), c.k, PortsPerSwitch(c), DragonFar(c)))
    BY <2>2, ConcentratedMeets
  <2> QED
    BY <2>3, MeetsWired
<1> QED
  BY <1>2, <1>3, <1>4, <1>5, <1>6, <1>7 DEF Numbered

(* Wired for these networks of every size: each channel leaves one output  *)
(* port and enters one input port, and every node has a channel of each    *)
(* kind.                                                                   *)
THEOREM ChannelsMeet == Spec => [](Numbered(config) => Wired)
<1>1. Known => (Numbered(config) => Wired)
  BY NumberedWired DEF Known, Wired
<1>2. Spec => []Known
  BY ConfigStays
<1> QED
  BY <1>1, <1>2, PTL

-----------------------------------------------------------------------------
(* Routing in meshes and tori.  The ports of a router, and the flits there *)
(* may be.                                                                 *)
CubePorts(c) == 0 .. Eject(c)
CubeFlits(c) == [at : KNCubeRouters(c), in : CubePorts(c), vc : VCs(c), dest : Nodes(c),
                 ph : -1 .. 2, intm : -1 .. c.nodes - 1]

(* What a function has written into the flit before it leaves its source.  *)
Eights == {"directed_valiant_mesh", "four_sided_mesh", "diamond_mesh"}
TwoPhases == {"romm_mesh", "romm_ni_mesh", "valiant_mesh"} \cup Eights
Ringed == {"dim_order_torus", "dim_order_bal_torus", "min_adapt_torus"}
Begun(c, s) ==
  /\ c.routing \in TwoPhases => s.ph \in {0, 1} /\ s.intm \in Nodes(c)
  /\ c.routing \in Ringed => s.ph \in {0, 1}
OnWay(c, s) == s \in CubeFlits(c) /\ (s.in # Eject(c) => Begun(c, s))

(* What a result of the function must be for such a flit. *)
Leads(c, s, result) ==
  /\ result.outs # {} /\ result.outs \subseteq CubePorts(c) \X VCs(c)
  /\ result.ph \in -1 .. 2 /\ result.intm \in -1 .. c.nodes - 1
  /\ \A out \in result.outs : IF out[1] = Eject(c) THEN s.at = s.dest ELSE Begun(c, result)
Guides(c) ==
  \A s : OnWay(c, s) => Function(c, s) # {} /\ \A result \in Function(c, s) : Leads(c, s, result)

VCsFit(c) == /\ c.first \in Nat /\ c.last \in Nat /\ c.vcs \in Nat /\ c.first <= c.last /\ c.last < c.vcs
             /\ {"first", "last"} \subseteq DOMAIN c
Cubic(c) == c.network \in {"mesh", "torus"} /\ CubeSized(c) /\ VCsFit(c)
Addressed(c) == \A src \in Nodes(c) : Destinations(c, src) \subseteq Nodes(c)
Injects(c) == \A dest \in Nodes(c) : InjectionVCs(c, dest) \subseteq VCs(c)

(* Where the channels of a mesh or torus are. *)
LEMMA CubeLinks ==
  ASSUME NEW c \in Configs, Cubic(c)
  PROVE  /\ \A r \in KNCubeRouters(c) : Built[c].out[r][Eject(c)] = NodeLink(r)
         /\ \A r \in KNCubeRouters(c), p \in CubePorts(c) :
              /\ Built[c].out[r][p] \in DOMAIN Built[c].sinks
              /\ p # Eject(c) => ~Ejects(Built[c].out[r][p])
         /\ \A r \in KNCubeRouters(c) : DOMAIN Built[c].out[r] = CubePorts(c)
         /\ \A i \in Nodes(c) : NodeLink(i) \in DOMAIN Built[c].sinks
         /\ \A link \in DOMAIN Built[c].sinks : \A place \in Built[c].sinks[link] :
              /\ place.at \in KNCubeRouters(c) /\ place.in \in CubePorts(c)
              /\ Ejects(link) <=> place.in = Eject(c)
<1> DEFINE R == KNCubeRouters(c)
           Q == CubePorts(c)
           m == Eject(c)
           out == OutputsOf(c)
           inp == InputsOf(c)
           ends == UNION {{<<inp[r][p], r, p>> : p \in DOMAIN inp[r]} : r \in DOMAIN inp}
<1>1. Built[c].out = out /\ Built[c].sinks = Sinks(ends)
  <2>1. Built[c] = Joined(c, out, inp)
    BY DEF Built, OutputsOf, InputsOf
  <2> QED
    BY <2>1 DEF Joined
<1>2. WellWired[c]
  <2>1. Meets(c, CubePeer(c))
    BY CubeMeets DEF Cubic
  <2> QED
    BY <2>1, MeetsWired
<1>3. out = [r \in R |-> KNCubeOutputs(c, r)] /\ inp = [r \in R |-> KNCubeInputs(c, r)]
  BY DEF OutputsOf, InputsOf, Routers, Outputs, Inputs, Cubic
<1>4. m = 2 * c.n /\ c.n \in Nat /\ m \in Nat /\ Q = 0 .. m /\ m \in Q
  BY DEF Cubic, CubeSized, Eject, CubePorts
<1>5. ASSUME NEW r \in R
      PROVE  /\ DOMAIN out[r] = Q /\ DOMAIN inp[r] = Q
             /\ out[r][m] = NodeLink(r) /\ inp[r][m] = NodeLink(r)
             /\ \A p \in Q : p # m => (\E i : out[r][p] = Chan(i)) /\ (\E i : inp[r][p] = Chan(i))
  <2>1. out[r] = KNCubeOutputs(c, r) /\ inp[r] = KNCubeInputs(c, r)
    BY <1>3
  <2>2. /\ out[r] = [p \in Q |->
                IF p = m THEN NodeLink(r)
                ELSE IF p % 2 = 0 THEN Chan(RightChannel(c, r, p \div 2))
                ELSE Chan(LeftChannel(c, r, p \div 2))]
        /\ inp[r] = [p \in Q |->
                IF p = m THEN NodeLink(r)
                ELSE IF p % 2 = 0 THEN Chan(LeftChannel(c, RightNode(c, r, p \div 2), p \div 2))
                ELSE Chan(RightChannel(c, LeftNode(c, r, p \div 2), p \div 2))]
    BY <1>4, <2>1 DEF KNCubeOutputs, KNCubeInputs
  <2>3. m \in Q
    BY <1>4
  <2> HIDE DEF out, inp, Q, m
  <2>4. DOMAIN out[r] = Q /\ DOMAIN inp[r] = Q /\ out[r][m] = NodeLink(r) /\ inp[r][m] = NodeLink(r)
    BY <2>2, <2>3
  <2>5. ASSUME NEW p \in Q, p # m PROVE (\E i : out[r][p] = Chan(i)) /\ (\E i : inp[r][p] = Chan(i))
    <3>1. /\ out[r][p] = IF p % 2 = 0 THEN Chan(RightChannel(c, r, p \div 2))
                         ELSE Chan(LeftChannel(c, r, p \div 2))
          /\ inp[r][p] = IF p % 2 = 0 THEN Chan(LeftChannel(c, RightNode(c, r, p \div 2), p \div 2))
                         ELSE Chan(RightChannel(c, LeftNode(c, r, p \div 2), p \div 2))
      BY <2>2, <2>5
    <3> QED
      BY <3>1
  <2> QED
    BY <2>4, <2>5
<1>6. DOMAIN out = R /\ DOMAIN inp = R
  BY <1>3
<1>7. \A i : Ejects(NodeLink(i)) /\ ~Ejects(Chan(i))
  BY DEF Ejects, NodeLink, Chan
<1> HIDE DEF out, inp, R, Q, m
<1>8. ASSUME NEW r \in R, NEW p \in Q PROVE out[r][p] \in DOMAIN Built[c].sinks
  <2>1. {e[1] : e \in Starts(out)} = DOMAIN Built[c].sinks
    BY <1>1, <1>2 DEF WellWired, WellJoined
  <2>2. <<out[r][p], r, p>> \in Starts(out)
    BY <1>5, <1>6 DEF Starts
  <2>3. <<out[r][p], r, p>>[1] = out[r][p]
    OBVIOUS
  <2> QED
    BY <2>1, <2>2, <2>3
<1>9. \A i \in Nodes(c) : NodeLink(i) \in DOMAIN Built[c].sinks
  BY <1>2 DEF WellWired
<1>10. ASSUME NEW link \in DOMAIN Built[c].sinks, NEW place \in Built[c].sinks[link]
       PROVE  /\ place.at \in R /\ place.in \in Q
              /\ Ejects(link) <=> place.in = m
  <2>1. \E e \in ends : e[1] = link /\ place = [at |-> e[2], in |-> e[3]]
    <3> HIDE DEF ends
    <3> QED
      BY <1>1 DEF Sinks
  <2>2. PICK e \in ends : e[1] = link /\ place = [at |-> e[2], in |-> e[3]]
    BY <2>1
  <2>3. PICK r \in R : e \in {<<inp[r][p], r, p>> : p \in DOMAIN inp[r]}
    BY <1>6, <2>2
  <2>4. PICK p \in Q : e = <<inp[r][p], r, p>>
    BY <1>5, <2>3
  <2>5. place.at = r /\ place.in = p /\ link = inp[r][p]
    BY <2>2, <2>4
  <2> QED
    BY <1>5, <1>7, <2>5
<1> QED
  BY <1>1, <1>5, <1>7, <1>8, <1>9, <1>10 DEF R, Q, m


(* A flit goes on being carried to its destination. *)
Guided(c) == Cubic(c) /\ Addressed(c) /\ Injects(c) /\ Guides(c)
Carried == Known /\ (Guided(config) => OnWay(config, flit) /\ ejected \in {None, flit.dest})

LEMMA CarriedInit == Init => Carried
<1> SUFFICES ASSUME Init, Guided(config) PROVE OnWay(config, flit) /\ ejected = None
  BY DEF Carried, Init, Known
<1> DEFINE c == config
<1>1. c \in Configs /\ Cubic(c) /\ Addressed(c) /\ Injects(c) /\ ejected = None
  BY DEF Init, Guided
<1>2. PICK src \in Nodes(c) : flit \in Enters(c, src)
  BY DEF Init
<1>3. PICK e \in Built[c].sinks[NodeLink(src)],
           x \in UNION {InjectionVCs(c, d) \X {d} : d \in Destinations(c, src)} :
           flit = [at |-> e.at, in |-> e.in, vc |-> x[1], dest |-> x[2], ph |-> -1, intm |-> -1]
  BY <1>2 DEF Enters
<1>4. x[2] \in Nodes(c) /\ x[1] \in VCs(c)
  <2>1. PICK d \in Destinations(c, src) : x \in InjectionVCs(c, d) \X {d}
    BY <1>3
  <2>2. d \in Nodes(c)
    BY <1>1, <2>1 DEF Addressed
  <2>3. InjectionVCs(c, d) \subseteq VCs(c)
    BY <1>1, <2>2 DEF Injects
  <2> QED
    BY <2>1, <2>2, <2>3
<1>5. e.at \in KNCubeRouters(c) /\ e.in = Eject(c) /\ e.in \in CubePorts(c)
  <2>1. NodeLink(src) \in DOMAIN Built[c].sinks
    BY <1>1, CubeLinks
  <2>2. Ejects(NodeLink(src))
    BY DEF Ejects, NodeLink
  <2> QED
    BY <1>1, <1>3, <2>1, <2>2, CubeLinks
<1>6. c.nodes \in Nat
  BY <1>1, PowiPositive DEF Cubic, CubeSized
<1>7. flit \in CubeFlits(c) /\ flit.in = Eject(c)
  BY <1>3, <1>4, <1>5, <1>6 DEF CubeFlits
<1> QED
  BY <1>1, <1>7 DEF OnWay

LEMMA CarriedNext == Carried /\ [Next]_vars => Carried'
<1> SUFFICES ASSUME Carried, [Next]_vars PROVE Carried'
  OBVIOUS
<1>1. CASE UNCHANGED vars
  BY <1>1 DEF vars, Carried, Known
<1>2. CASE Next
  <2> DEFINE c == config
  <2>1. config' = config /\ c \in Configs
    BY <1>2 DEF Carried, Known, Next, Hop, Leave
  <2>2. ASSUME Guided(c) PROVE OnWay(c, flit') /\ ejected' \in {None, flit'.dest}
    <3>1. /\ OnWay(c, flit) /\ flit \in CubeFlits(c) /\ ejected = None
          /\ Cubic(c) /\ Guides(c)
      BY <1>2, <2>2 DEF Carried, OnWay, Next, Guided
    <3>2. flit.at \in KNCubeRouters(c) /\ flit.vc \in VCs(c)
      BY <3>1 DEF CubeFlits
    <3>3. PICK result \in Function(c, flit) : \E out \in result.outs :
            LET link == LinkOf(c, flit, out[1]) IN Hop(result, out, link) \/ Leave(link)
      BY <1>2, <3>2 DEF Next, Route
    <3>o. PICK out \in result.outs :
            LET link == LinkOf(c, flit, out[1]) IN Hop(result, out, link) \/ Leave(link)
      BY <3>3
    <3> DEFINE link == Built[c].out[flit.at][out[1]]
    <3>4. Hop(result, out, link) \/ Leave(link)
      BY <3>o DEF LinkOf
    <3>5. Leads(c, flit, result)
      BY <3>1, <3>3 DEF Guides
    <3>6. out \in CubePorts(c) \X VCs(c)
      BY <3>o, <3>5 DEF Leads
    <3>7. link \in DOMAIN Built[c].sinks /\ (~Ejects(link) => out[1] # Eject(c))
      <4>1. link \in DOMAIN Built[c].sinks
        BY <2>1, <3>1, <3>2, <3>6, CubeLinks
      <4>2. Built[c].out[flit.at][Eject(c)] = NodeLink(flit.at)
        BY <2>1, <3>1, <3>2, CubeLinks
      <4>3. Ejects(NodeLink(flit.at))
        BY DEF Ejects, NodeLink
      <4> QED
        BY <4>1, <4>2, <4>3
    <3>8. CASE Hop(result, out, link)
      <4>1. ~Ejects(link) /\ ejected' = ejected
        BY <3>8 DEF Hop
      <4>2. PICK place \in Built[c].sinks[link] : flit' = Moved(flit, result, place, out[2])
        BY <3>8 DEF Hop
      <4>3. place.at \in KNCubeRouters(c) /\ place.in \in CubePorts(c)
        BY <2>1, <3>1, <3>7, CubeLinks
      <4>4. Begun(c, result) /\ result.ph \in -1 .. 2 /\ result.intm \in -1 .. c.nodes - 1
        BY <3>o, <3>5, <3>7, <4>1 DEF Leads
      <4>5. out[2] \in VCs(c)
        BY <3>6
      <4> HIDE DEF link, c
      <4>6. /\ flit' \in CubeFlits(c) /\ flit'.dest = flit.dest
            /\ flit'.ph = result.ph /\ flit'.intm = result.intm
        BY <3>1, <4>2, <4>3, <4>4, <4>5 DEF Moved, CubeFlits
      <4>7. Begun(c, flit')
        BY <4>4, <4>6 DEF Begun
      <4> QED
        BY <3>1, <4>1, <4>6, <4>7 DEF OnWay
    <3>9. CASE Leave(link)
      <4>1. Ejects(link) /\ ejected' = link[2] /\ flit' = flit
        BY <3>9 DEF Leave
      <4>2. out[1] = Eject(c)
        BY <2>1, <3>1, <3>2, <3>6, <4>1, CubeLinks
      <4>3. flit.at = flit.dest
        BY <3>o, <3>5, <4>2 DEF Leads
      <4>4. link = NodeLink(flit.at)
        BY <2>1, <3>1, <3>2, <4>2, CubeLinks
      <4> QED
        BY <3>1, <4>1, <4>3, <4>4 DEF NodeLink
    <3> QED
      BY <3>4, <3>8, <3>9
  <2> QED
    BY <2>1, <2>2 DEF Carried, Known
<1> QED
  BY <1>1, <1>2

(* What is claimed of such a flit. *)
Delivered == ejected # None => ejected = flit.dest
LEMMA CarriedMeans == Carried => (Guided(config) => TypeOK /\ AlwaysRouted /\ Delivered)
<1> SUFFICES ASSUME Carried, Guided(config) PROVE TypeOK /\ AlwaysRouted /\ Delivered
  OBVIOUS
<1> DEFINE c == config
<1>1. /\ c \in Configs /\ OnWay(c, flit) /\ flit \in CubeFlits(c) /\ ejected \in {None, flit.dest}
      /\ Cubic(c) /\ Guides(c)
  BY DEF Carried, Known, OnWay, Guided
<1>2. flit.at \in KNCubeRouters(c) /\ flit.vc \in VCs(c) /\ flit.dest \in Nodes(c)
  BY <1>1 DEF CubeFlits
<1>3. DOMAIN Built[c].out[flit.at] = CubePorts(c)
  BY <1>1, <1>2, CubeLinks
<1>4. TypeOK
  <2>1. Routers(c) = KNCubeRouters(c)
    BY <1>1 DEF Routers, Cubic
  <2>2. VCs(c) \subseteq Below(c.vcs)
    BY <1>1 DEF VCs, Below, Cubic, VCsFit
  <2> HIDE DEF c
  <2>3. flit \in [at : Routers(c), in : DOMAIN Built[c].out[flit.at], vc : Below(c.vcs),
                  dest : Nodes(c), ph : -1 .. 2, intm : -1 .. c.nodes - 1]
    BY <1>1, <1>3, <2>1, <2>2 DEF CubeFlits
  <2>4. ejected \in Nodes(c) \cup {None}
    BY <1>1, <1>2
  <2> QED
    BY <1>1, <2>3, <2>4 DEF TypeOK, c
<1>5. AlwaysRouted
  <2>1. Route(c, flit) = Function(c, flit)
    BY <1>2 DEF Route
  <2>2. Function(c, flit) # {} /\ \A result \in Function(c, flit) : Leads(c, flit, result)
    BY <1>1 DEF Guides
  <2> QED
    BY <1>3, <2>1, <2>2 DEF AlwaysRouted, Routed, Leads
<1> QED
  BY <1>1, <1>4, <1>5 DEF Delivered

LEMMA GuidedCarried == Spec => [](Guided(config) => TypeOK /\ AlwaysRouted /\ Delivered)
<1> QED
  BY CarriedInit, CarriedNext, CarriedMeans, PTL DEF Spec


-----------------------------------------------------------------------------
(* The least and the greatest of some dimensions are among them. *)
LEMMA EndsIn ==
  ASSUME NEW n \in Nat, NEW S, S \subseteq Below(n), S # {}
  PROVE  Min(S) \in S /\ Max(S) \in S
<1>1. S \subseteq Nat /\ \A x \in S : x <= n
  BY DEF Below
<1>2. PICK k \in S : TRUE
  OBVIOUS
<1>3. \E x \in S : \A y \in S : x <= y
  BY <1>1, <1>2, LeastNatural
<1>4. \E x \in S : \A y \in S : x >= y
  <2> DEFINE T == {m \in Nat : \E x \in S : m = n - x}
  <2>1. T \subseteq Nat /\ n - k \in T
    BY <1>1, <1>2
  <2>2. PICK m \in T : \A l \in T : m <= l
    BY <2>1, LeastNatural
  <2>3. PICK x \in S : m = n - x
    BY <2>2
  <2>4. ASSUME NEW y \in S PROVE x >= y
    <3>1. n - y \in T
      BY <1>1
    <3>2. m <= n - y
      BY <2>2, <3>1
    <3> QED
      BY <1>1, <2>3, <3>2
  <2> QED
    BY <2>4
<1>5. Min(S) = CHOOSE x \in S : \A y \in S : x <= y
  BY DEF Min
<1>6. Max(S) = CHOOSE x \in S : \A y \in S : x >= y
  BY DEF Max
<1> QED
  BY <1>3, <1>4, <1>5, <1>6

(* Two routers differ in a dimension. *)
LEMMA SomeUnmatched ==
  ASSUME NEW c, Cubic(c), NEW cur \in KNCubeRouters(c), NEW dest \in KNCubeRouters(c), cur # dest
  PROVE  Unmatched(c, cur, dest) # {} /\ Unmatched(c, cur, dest) \subseteq Below(c.n)
<1>1. c.k \in Nat \ {0} /\ c.n \in Nat /\ KNCubeRouters(c) = Below(powi(c.k, c.n))
  BY DEF Cubic, CubeSized, KNCubeRouters
<1>2. /\ Value(DigitsOf(cur, c.k, c.n), c.k, c.n) = cur
      /\ Value(DigitsOf(dest, c.k, c.n), c.k, c.n) = dest
  BY <1>1, ValueOfDigits
<1>3. DigitsOf(cur, c.k, c.n) # DigitsOf(dest, c.k, c.n)
  BY <1>2
<1>4. PICK d \in Below(c.n) : Digit(cur, c.k, d) # Digit(dest, c.k, d)
  BY <1>3 DEF DigitsOf
<1> QED
  BY <1>4 DEF Unmatched

(* The port in a dimension, whichever way. *)
LEMMA PortOf ==
  ASSUME NEW c, Cubic(c), NEW d \in Below(c.n)
  PROVE  /\ 2 * d \in CubePorts(c) /\ 2 * d # Eject(c) /\ 2 * d + 1 \in CubePorts(c) /\ 2 * d + 1 # Eject(c)
         /\ \A cur, dest : Toward(c, cur, dest, d) \in CubePorts(c) /\ Toward(c, cur, dest, d) # Eject(c)
<1>1. c.n \in Nat /\ d \in Nat /\ d <= c.n - 1
  BY DEF Cubic, CubeSized, Below
<1>2. /\ 2 * d \in CubePorts(c) /\ 2 * d # Eject(c) /\ 2 * d + 1 \in CubePorts(c) /\ 2 * d + 1 # Eject(c)
  BY <1>1 DEF CubePorts, Eject
<1> QED
  BY <1>2 DEF Toward

LEMMA EjectIn ==
  ASSUME NEW c, Cubic(c)
  PROVE  Eject(c) \in CubePorts(c)
BY DEF Cubic, CubeSized, CubePorts, Eject

(* Dimension order leads to the node itself at its router only. *)
LEMMA DorPort ==
  ASSUME NEW c, Cubic(c), NEW cur \in KNCubeRouters(c), NEW dest \in KNCubeRouters(c), NEW descending \in BOOLEAN
  PROVE  /\ dor_next_mesh(c, cur, dest, descending) \in CubePorts(c)
         /\ dor_next_mesh(c, cur, dest, descending) = Eject(c) <=> cur = dest
<1>1. CASE cur = dest
  <2>1. dor_next_mesh(c, cur, dest, descending) = Eject(c)
    BY <1>1 DEF dor_next_mesh
  <2> QED
    BY <1>1, <2>1, EjectIn
<1>2. CASE cur # dest
  <2> DEFINE left == Unmatched(c, cur, dest)
             d == IF descending THEN Max(left) ELSE Min(left)
  <2>1. left # {} /\ left \subseteq Below(c.n) /\ c.n \in Nat
    BY <1>2, SomeUnmatched DEF Cubic, CubeSized
  <2>2. Max(left) \in left /\ Min(left) \in left
    BY <2>1, EndsIn
  <2>3. d \in Below(c.n)
    BY <2>1, <2>2
  <2>4. dor_next_mesh(c, cur, dest, descending) = Toward(c, cur, dest, d)
    BY <1>2 DEF dor_next_mesh
  <2> HIDE DEF d
  <2> QED
    BY <1>2, <2>3, <2>4, PortOf
<1> QED
  BY <1>1, <1>2

(* The VCs that halves and blocks of a class have. *)
LEMMA HalfIs ==
  ASSUME NEW c, VCsFit(c), VCCount(c) >= 2, NEW lower \in BOOLEAN
  PROVE  Half(c, lower) # {} /\ Half(c, lower) \subseteq VCs(c)
<1> DEFINE m == VCCount(c)
           n == m \div 2
<1>1. /\ c.first \in Nat /\ c.last \in Nat /\ m = (c.last - c.first) + 1 /\ m \in Nat /\ m >= 2
      /\ "first" \in DOMAIN c /\ "last" \in DOMAIN c
  BY DEF VCsFit, VCCount
<1>2. n \in Nat /\ n < m
  <2>1. 2 \in Nat \ {0} /\ m \in Int
    BY <1>1
  <2> HIDE DEF m
  <2>2. n \in Int /\ m % 2 \in 0 .. 2 - 1 /\ m = n * 2 + (m % 2)
    BY <2>1, DivMod
  <2> HIDE DEF n
  <2> QED
    BY <1>1, <2>2
<1>3. Half(c, lower) = VCs(Narrowed(c, n, lower))
  BY <1>1 DEF Half
<1> HIDE DEF m, n
<1>4. CASE lower
  <2>1. Narrowed(c, n, lower) = [c EXCEPT !.last = c.last - n]
    BY <1>4 DEF Narrowed
  <2>2. Narrowed(c, n, lower).first = c.first /\ Narrowed(c, n, lower).last = c.last - n
    BY <1>1, <2>1
  <2>3. Half(c, lower) = c.first .. c.last - n
    BY <1>3, <2>2 DEF VCs
  <2>4. c.first \in c.first .. c.last - n
    BY <1>1, <1>2
  <2> QED
    BY <1>1, <1>2, <2>3, <2>4 DEF VCs
<1>5. CASE ~lower
  <2>1. Narrowed(c, n, lower) = [c EXCEPT !.first = c.first + n]
    BY <1>5 DEF Narrowed
  <2>2. Narrowed(c, n, lower).first = c.first + n /\ Narrowed(c, n, lower).last = c.last
    BY <1>1, <2>1
  <2>3. Half(c, lower) = c.first + n .. c.last
    BY <1>3, <2>2 DEF VCs
  <2>4. c.last \in c.first + n .. c.last
    BY <1>1, <1>2
  <2> QED
    BY <1>1, <1>2, <2>3, <2>4 DEF VCs
<1> QED
  BY <1>4, <1>5

LEMMA BlockIs ==
  ASSUME NEW c, VCsFit(c), NEW n \in Nat \ {0}, VCCount(c) >= n, NEW v \in Below(n)
  PROVE  Block(c, v, n) # {} /\ Block(c, v, n) \subseteq VCs(c)
<1> DEFINE m == VCCount(c)
           b == m \div n
<1>1. /\ c.first \in Nat /\ c.last \in Nat /\ m = (c.last - c.first) + 1 /\ m \in Nat /\ m >= n
      /\ v \in Nat /\ v + 1 <= n
  BY DEF VCsFit, VCCount, Below
<1>2. b \in Int /\ m % n \in 0 .. n - 1 /\ m = b * n + (m % n)
  <2>1. m \in Int
    BY <1>1
  <2> HIDE DEF m
  <2> QED
    BY <2>1, DivMod
<1>3. Block(c, v, n) = c.first + v * b .. c.first + ((v + 1) * b - 1)
  BY DEF Block
<1> HIDE DEF m, b
<1>4. b \in Nat \ {0}
  <2>1. b >= 1
    <3> SUFFICES ASSUME b <= 0 PROVE FALSE
      BY <1>2
    <3>1. b * n <= 0
      BY <1>2
    <3> QED
      BY <1>1, <1>2, <3>1
  <2> QED
    BY <1>2, <2>1
<1>5. v * b \in Nat /\ (v + 1) * b = v * b + b /\ (v + 1) * b <= n * b /\ n * b = b * n /\ b * n \in Nat
  <2>1. (v + 1) * b <= n * b /\ v * b \in Nat
    BY <1>1, <1>4, ProductAtMost
  <2>2. (v + 1) * b = v * b + b /\ n * b = b * n /\ b * n \in Nat
    BY <1>1, <1>4
  <2> QED
    BY <2>1, <2>2
<1>6. (v + 1) * b <= m
  BY <1>1, <1>2, <1>5
<1> DEFINE lo == v * b
           hi == (v + 1) * b
<1> HIDE DEF lo, hi
<1>7. lo \in Nat /\ hi = lo + b /\ hi <= m /\ Block(c, v, n) = c.first + lo .. c.first + (hi - 1)
  BY <1>3, <1>5, <1>6 DEF lo, hi
<1>8. c.first + lo \in Block(c, v, n)
  BY <1>1, <1>4, <1>7
<1>9. Block(c, v, n) \subseteq VCs(c)
  BY <1>1, <1>4, <1>7, SMTT(30) DEF VCs
<1> QED
  BY <1>8, <1>9


-----------------------------------------------------------------------------
(* The functions of the meshes, each with the VCs it asserts it has.       *)
LEMMA FlitIs ==
  ASSUME NEW c, Cubic(c), NEW s, OnWay(c, s)
  PROVE  /\ s.at \in KNCubeRouters(c) /\ s.dest \in KNCubeRouters(c) /\ s.vc \in VCs(c) /\ s.in \in CubePorts(c)
         /\ s.ph \in -1 .. 2 /\ s.intm \in -1 .. c.nodes - 1 /\ (s.in # Eject(c) => Begun(c, s))
         /\ VCs(c) # {} /\ KNCubeRouters(c) = Nodes(c) /\ c.nodes \in Nat \ {0} /\ Nodes(c) = Below(c.nodes)
<1>1. KNCubeRouters(c) = Nodes(c) /\ Nodes(c) = Below(c.nodes) /\ c.nodes \in Nat \ {0}
  BY PowiPositive DEF KNCubeRouters, Nodes, Cubic, CubeSized
<1>2. c.first \in VCs(c)
  BY DEF Cubic, VCsFit, VCs
<1>3. s \in CubeFlits(c) /\ (s.in # Eject(c) => Begun(c, s))
  BY DEF OnWay
<1> QED
  BY <1>1, <1>2, <1>3 DEF CubeFlits

LEMMA OutLeads ==
  ASSUME NEW c, NEW s, NEW t, NEW port \in CubePorts(c), NEW vcs, vcs # {}, vcs \subseteq VCs(c),
         t.ph \in -1 .. 2, t.intm \in -1 .. c.nodes - 1,
         port = Eject(c) => s.at = s.dest, port # Eject(c) => Begun(c, t)
  PROVE  Leads(c, s, Out(t, port, vcs)) /\ Out(t, port, vcs).outs # {}
<1> DEFINE o == Out(t, port, vcs)
<1>1. o.ph = t.ph /\ o.intm = t.intm /\ o.outs = {port} \X vcs
  BY DEF Out
<1> HIDE DEF o
<1>2. Begun(c, t) => Begun(c, o)
  BY <1>1 DEF Begun
<1>3. o.outs # {} /\ o.outs \subseteq CubePorts(c) \X VCs(c) /\ \A out \in o.outs : out[1] = port
  <2>1. PICK v \in vcs : TRUE
    OBVIOUS
  <2>2. <<port, v>> \in o.outs
    BY <1>1, <2>1
  <2>3. ASSUME NEW out \in o.outs PROVE out[1] = port /\ out \in CubePorts(c) \X VCs(c)
    <3>1. PICK w \in vcs : out = <<port, w>>
      BY <1>1
    <3> QED
      BY <3>1
  <2> QED
    BY <2>2, <2>3
<1> QED
  BY <1>1, <1>2, <1>3 DEF Leads, o

(* Functions that keep nothing in the flit. *)
Plainly(c) == c.routing \notin TwoPhases /\ c.routing \notin Ringed
LEMMA PlainBegun ==
  ASSUME NEW c, NEW s, Plainly(c)
  PROVE  Begun(c, s)
BY DEF Begun, Plainly

LEMMA DimOrderGuides ==
  ASSUME NEW c, Cubic(c), c.routing \in {"dor_mesh", "dim_order_mesh"}
  PROVE  Guides(c)
<1> SUFFICES ASSUME NEW s, OnWay(c, s)
             PROVE  Function(c, s) # {} /\ \A result \in Function(c, s) : Leads(c, s, result)
  BY DEF Guides
<1> DEFINE port == dor_next_mesh(c, s.at, s.dest, FALSE)
<1>1. Function(c, s) = {Out(s, port, VCs(c))}
  BY DEF Function, dim_order_mesh
<1>2. Plainly(c)
  BY DEF Plainly, TwoPhases, Eights, Ringed
<1>3. port \in CubePorts(c) /\ (port = Eject(c) => s.at = s.dest)
  <2>1. s.at \in KNCubeRouters(c) /\ s.dest \in KNCubeRouters(c) /\ FALSE \in BOOLEAN
    BY FlitIs
  <2> QED
    BY <2>1, DorPort, ZenonT(40)
<1>4. Leads(c, s, Out(s, port, VCs(c)))
  <2> HIDE DEF port
  <2> QED
    BY <1>2, <1>3, FlitIs, PlainBegun, OutLeads
<1> QED
  BY <1>1, <1>4

LEMMA XYGuides ==
  ASSUME NEW c, Cubic(c), c.routing \in {"xy_yx_mesh", "adaptive_xy_yx_mesh"}, VCCount(c) >= 2
  PROVE  Guides(c)
<1> SUFFICES ASSUME NEW s, OnWay(c, s)
             PROVE  Function(c, s) # {} /\ \A result \in Function(c, s) : Leads(c, s, result)
  BY DEF Guides
<1>1. Function(c, s) = xy_yx_mesh(c, s)
  <2>1. CASE c.routing = "xy_yx_mesh"
    BY <2>1 DEF Function
  <2>2. CASE c.routing = "adaptive_xy_yx_mesh"
    BY <2>2 DEF Function, adaptive_xy_yx_mesh
  <2> QED
    BY <2>1, <2>2
<1>2. Plainly(c)
  BY DEF Plainly, TwoPhases, Eights, Ringed
<1>3. CASE s.at = s.dest
  <2>1. Function(c, s) = {Out(s, Eject(c), VCs(c))}
    BY <1>1, <1>3 DEF xy_yx_mesh
  <2>2. Leads(c, s, Out(s, Eject(c), VCs(c)))
    BY <1>2, <1>3, FlitIs, PlainBegun, OutLeads, EjectIn
  <2> QED
    BY <2>1, <2>2
<1>4. CASE s.at # s.dest
  <2> DEFINE orders == IF Injected(c, s) THEN BOOLEAN ELSE {s.vc < c.first + VCCount(c) \div 2}
             O(x_then_y) == Out(s, dor_next_mesh(c, s.at, s.dest, ~x_then_y), Half(c, x_then_y))
  <2>1. Function(c, s) = Asserted({O(x_then_y) : x_then_y \in orders})
    BY <1>1, <1>4 DEF xy_yx_mesh
  <2>2. orders # {} /\ orders \subseteq BOOLEAN
    <3> DEFINE early == s.vc < c.first + VCCount(c) \div 2
    <3>1. early \in BOOLEAN
      OBVIOUS
    <3>2. orders = IF Injected(c, s) THEN BOOLEAN ELSE {early}
      OBVIOUS
    <3> HIDE DEF early, orders
    <3> QED
      BY <3>1, <3>2
  <2>3. ASSUME NEW x \in BOOLEAN PROVE Leads(c, s, O(x)) /\ O(x).outs # {}
    <3>1. Half(c, x) # {} /\ Half(c, x) \subseteq VCs(c)
      BY HalfIs DEF Cubic
    <3>2. /\ dor_next_mesh(c, s.at, s.dest, ~x) \in CubePorts(c)
          /\ dor_next_mesh(c, s.at, s.dest, ~x) # Eject(c)
      <4>1. s.at \in KNCubeRouters(c) /\ s.dest \in KNCubeRouters(c)
        BY FlitIs
      <4> DEFINE y == ~x
      <4>2. y \in BOOLEAN
        OBVIOUS
      <4> HIDE DEF y
      <4>3. dor_next_mesh(c, s.at, s.dest, y) \in CubePorts(c) /\ dor_next_mesh(c, s.at, s.dest, y) # Eject(c)
        BY <1>4, <4>1, <4>2, DorPort
      <4> QED
        BY <4>3 DEF y
    <3> QED
      BY <1>2, <3>1, <3>2, FlitIs, PlainBegun, OutLeads
  <2> HIDE DEF orders, O
  <2> QED
    BY <2>1, <2>2, <2>3 DEF Asserted
<1> QED
  BY <1>3, <1>4

(* A block of VCs for each destination, or for each coordinate. *)
LEMMA DestBlock ==
  ASSUME NEW c, Cubic(c), NEW s, OnWay(c, s), VCCount(c) >= c.nodes
  PROVE  DestVCs(c, s) # {} /\ DestVCs(c, s) \subseteq VCs(c)
<1>1. powi(c.k, c.n) = c.nodes
  BY DEF Cubic, CubeSized
<1>2. Block(c, s.dest, c.nodes) # {} /\ Block(c, s.dest, c.nodes) \subseteq VCs(c)
  BY FlitIs, BlockIs DEF Cubic
<1> QED
  BY <1>1, <1>2, FlitIs DEF DestVCs

LEMMA NiGuides ==
  ASSUME NEW c, Cubic(c), c.routing = "dim_order_ni_mesh", VCCount(c) >= c.nodes
  PROVE  Guides(c)
<1> SUFFICES ASSUME NEW s, OnWay(c, s)
             PROVE  Function(c, s) # {} /\ \A result \in Function(c, s) : Leads(c, s, result)
  BY DEF Guides
<1> DEFINE port == dor_next_mesh(c, s.at, s.dest, FALSE)
           o == Out(s, port, DestVCs(c, s))
<1>1. Function(c, s) = Asserted({o})
  BY DEF Function, dim_order_ni_mesh
<1>2. Plainly(c)
  BY DEF Plainly, TwoPhases, Eights, Ringed
<1>3. port \in CubePorts(c) /\ (port = Eject(c) => s.at = s.dest)
  <2>1. s.at \in KNCubeRouters(c) /\ s.dest \in KNCubeRouters(c) /\ FALSE \in BOOLEAN
    BY FlitIs
  <2> QED
    BY <2>1, DorPort, ZenonT(40)
<1>4. Leads(c, s, o) /\ o.outs # {}
  <2> HIDE DEF port
  <2> QED
    BY <1>2, <1>3, FlitIs, PlainBegun, OutLeads, DestBlock
<1> HIDE DEF o
<1> QED
  BY <1>1, <1>4 DEF Asserted

LEMMA PniGuides ==
  ASSUME NEW c, Cubic(c), c.routing = "dim_order_pni_mesh", VCCount(c) >= c.k
  PROVE  Guides(c)
<1> SUFFICES ASSUME NEW s, OnWay(c, s)
             PROVE  Function(c, s) # {} /\ \A result \in Function(c, s) : Leads(c, s, result)
  BY DEF Guides
<1> DEFINE port == dor_next_mesh(c, s.at, s.dest, FALSE)
           vcs == IF s.at = s.dest THEN VCs(c) ELSE Block(c, Digit(s.dest, c.k, port \div 2), c.k)
           o == Out(s, port, vcs)
<1>1. Function(c, s) = Asserted({o})
  BY DEF Function, dim_order_pni_mesh
<1>2. Plainly(c)
  BY DEF Plainly, TwoPhases, Eights, Ringed
<1>3. port \in CubePorts(c) /\ (port = Eject(c) => s.at = s.dest)
  <2>1. s.at \in KNCubeRouters(c) /\ s.dest \in KNCubeRouters(c) /\ FALSE \in BOOLEAN
    BY FlitIs
  <2> QED
    BY <2>1, DorPort, ZenonT(40)
<1>4. vcs # {} /\ vcs \subseteq VCs(c)
  <2>1. c.k \in Nat \ {0} /\ s.dest \in Int /\ c.n \in Nat
    BY FlitIs DEF Cubic, CubeSized, Below
  <2>2. port \div 2 \in Nat
    <3> HIDE DEF port
    <3>1. port \in Nat /\ 0 \in Nat /\ 2 \in Nat \ {0}
      BY <1>3, <2>1 DEF CubePorts, Eject
    <3> QED
      BY <3>1, DivBelow
  <2> HIDE DEF port
  <2>3. Digit(s.dest, c.k, port \div 2) \in Below(c.k)
    BY <2>1, <2>2, DigitType
  <2> DEFINE v == Digit(s.dest, c.k, port \div 2)
  <2> HIDE DEF v
  <2>4. v \in Below(c.k)
    BY <2>3 DEF v
  <2>5. Block(c, v, c.k) # {} /\ Block(c, v, c.k) \subseteq VCs(c)
    BY <2>1, <2>4, BlockIs DEF Cubic
  <2> QED
    BY <2>5, FlitIs DEF v
<1>5. Leads(c, s, o) /\ o.outs # {}
  <2> HIDE DEF port, vcs
  <2> QED
    BY <1>2, <1>3, <1>4, FlitIs, PlainBegun, OutLeads
<1> HIDE DEF o
<1> QED
  BY <1>1, <1>5 DEF Asserted


-----------------------------------------------------------------------------
(* The functions of two phases. *)
LEMMA PhasedIs ==
  ASSUME NEW c, Cubic(c), NEW s, OnWay(c, s), c.routing \in TwoPhases,
         NEW choices, choices # {}, choices \subseteq Nodes(c)
  PROVE  /\ Phased(c, s, choices) # {}
         /\ \A t \in Phased(c, s, choices) :
              /\ t.at = s.at /\ t.dest = s.dest /\ t.ph \in {0, 1} /\ t.intm \in Nodes(c)
              /\ t.ph = 0 => t.at # t.intm
<1> DEFINE Begins(t) == t \in CubeFlits(c) /\ t.at = s.at /\ t.dest = s.dest /\ t.ph \in {0, 1} /\ t.intm \in Nodes(c)
           begun == IF Injected(c, s) THEN {[s EXCEPT !.ph = 0, !.intm = i] : i \in choices} ELSE {s}
           moved(t) == [t EXCEPT !.ph = IF t.ph = 0 /\ t.at = t.intm THEN 1 ELSE t.ph]
<1>1. s \in CubeFlits(c) /\ (s.in # Eject(c) => s.ph \in {0, 1} /\ s.intm \in Nodes(c))
  BY DEF OnWay, Begun
<1>2. Nodes(c) \subseteq -1 .. c.nodes - 1
  BY FlitIs DEF Below
<1>3. begun # {} /\ \A t \in begun : Begins(t)
  <2>1. CASE Injected(c, s)
    <3>1. begun = {[s EXCEPT !.ph = 0, !.intm = i] : i \in choices}
      BY <2>1
    <3>2. ASSUME NEW i \in choices PROVE Begins([s EXCEPT !.ph = 0, !.intm = i])
      <4>1. i \in Nodes(c) /\ i \in -1 .. c.nodes - 1 /\ 0 \in -1 .. 2
        BY <1>2
      <4> QED
        BY <1>1, <4>1 DEF CubeFlits
    <3> HIDE DEF begun, Begins
    <3> QED
      BY <3>1, <3>2
  <2>2. CASE ~Injected(c, s)
    <3>1. begun = {s}
      BY <2>2
    <3>2. Begins(s)
      BY <1>1, <2>2 DEF Injected
    <3> HIDE DEF begun, Begins
    <3> QED
      BY <3>1, <3>2
  <2> QED
    BY <2>1, <2>2
<1>4. Phased(c, s, choices) = {moved(t) : t \in begun}
  BY DEF Phased
<1>5. ASSUME NEW t \in begun
      PROVE  /\ moved(t).at = s.at /\ moved(t).dest = s.dest /\ moved(t).ph \in {0, 1} /\ moved(t).intm \in Nodes(c)
             /\ moved(t).ph = 0 => moved(t).at # moved(t).intm
  <2>1. Begins(t)
    BY <1>3
  <2> HIDE DEF begun
  <2> QED
    BY <2>1 DEF CubeFlits
<1> HIDE DEF begun, moved, Begins
<1> QED
  BY <1>3, <1>4, <1>5

(* The flit's goal is its destination where it is ejected. *)
LEMMA PhasedLeads ==
  ASSUME NEW c, Cubic(c), NEW s, OnWay(c, s), c.routing \in TwoPhases,
         NEW choices, choices # {}, choices \subseteq Nodes(c), NEW t \in Phased(c, s, choices),
         NEW vcs, vcs # {}, vcs \subseteq VCs(c)
  PROVE  LET o == Out(t, dor_next_mesh(c, t.at, Goal(t), FALSE), vcs) IN Leads(c, s, o) /\ o.outs # {}
<1> DEFINE port == dor_next_mesh(c, t.at, Goal(t), FALSE)
<1>1. t.at = s.at /\ t.dest = s.dest /\ t.ph \in {0, 1} /\ t.intm \in Nodes(c) /\ (t.ph = 0 => t.at # t.intm)
  BY PhasedIs
<1>2. s.at \in KNCubeRouters(c) /\ s.dest \in KNCubeRouters(c) /\ KNCubeRouters(c) = Nodes(c) /\ Nodes(c) = Below(c.nodes)
      /\ c.nodes \in Nat
  BY FlitIs
<1>3. Goal(t) \in KNCubeRouters(c) /\ (t.at = Goal(t) => s.at = s.dest) /\ t.at \in KNCubeRouters(c) /\ FALSE \in BOOLEAN
  BY <1>1, <1>2 DEF Goal
<1>4. port \in CubePorts(c) /\ (port = Eject(c) => s.at = s.dest)
  BY <1>3, DorPort, ZenonT(40)
<1>5. Begun(c, t) /\ t.ph \in -1 .. 2 /\ t.intm \in -1 .. c.nodes - 1
  <2>1. c.routing \notin Ringed
    BY DEF TwoPhases, Eights, Ringed
  <2> QED
    BY <1>1, <1>2, <2>1 DEF Begun, Below
<1> HIDE DEF port
<1> QED
  BY <1>4, <1>5, OutLeads DEF port

LEMMA TwoPhaseLeads ==
  ASSUME NEW c, Cubic(c), NEW s, OnWay(c, s), c.routing \in TwoPhases, VCCount(c) >= 2,
         NEW choices, choices # {}, choices \subseteq Nodes(c)
  PROVE  TwoPhase(c, s, choices) # {} /\ \A result \in TwoPhase(c, s, choices) : Leads(c, s, result)
<1> DEFINE T == Phased(c, s, choices)
           O(t) == Out(t, dor_next_mesh(c, t.at, Goal(t), FALSE), PhaseVCs(c, t))
<1>1. TwoPhase(c, s, choices) = Asserted({O(t) : t \in T})
  BY DEF TwoPhase
<1>2. T # {}
  BY PhasedIs
<1>3. ASSUME NEW t \in T PROVE Leads(c, s, O(t)) /\ O(t).outs # {}
  <2>1. PhaseVCs(c, t) # {} /\ PhaseVCs(c, t) \subseteq VCs(c)
    <3>1. (t.ph = 0) \in BOOLEAN
      OBVIOUS
    <3>2. Half(c, t.ph = 0) # {} /\ Half(c, t.ph = 0) \subseteq VCs(c)
      BY <3>1, HalfIs DEF Cubic
    <3> QED
      BY <3>2, FlitIs DEF PhaseVCs
  <2> QED
    BY <2>1, PhasedLeads
<1> HIDE DEF O, T
<1> QED
  BY <1>1, <1>2, <1>3 DEF Asserted

(* The source itself may be the intermediate node. *)
LEMMA BetweenHas ==
  ASSUME NEW x \in Nat, NEW y \in Nat
  PROVE  x \in Between(x, y)
<1>1. \E m \in {x, y} : \A z \in {x, y} : m <= z
  BY x <= y \/ y <= x
<1>2. \E m \in {x, y} : \A z \in {x, y} : m >= z
  BY x <= y \/ y <= x
<1>3. Min({x, y}) \in {x, y} /\ Min({x, y}) <= x
  BY <1>1 DEF Min
<1>4. Max({x, y}) \in {x, y} /\ Max({x, y}) >= x
  BY <1>2 DEF Max
<1> QED
  BY <1>3, <1>4 DEF Between

LEMMA MinimalChoices ==
  ASSUME NEW c, Cubic(c), NEW s, OnWay(c, s)
  PROVE  LET choices == rand_min_intr_mesh(c, s.at, s.dest) IN choices # {} /\ choices \subseteq Nodes(c)
<1>1. /\ s.at \in Nodes(c) /\ Nodes(c) = Below(powi(c.k, c.n)) /\ c.n \in Nat /\ c.k \in Nat \ {0}
      /\ s.at \in Int /\ s.dest \in Int
  BY FlitIs DEF KNCubeRouters, Cubic, CubeSized, Below
<1>2. \A d \in Below(c.n) : Digit(s.at, c.k, d) \in Between(Digit(s.at, c.k, d), Digit(s.dest, c.k, d))
  <2> SUFFICES ASSUME NEW d \in Below(c.n)
               PROVE  Digit(s.at, c.k, d) \in Between(Digit(s.at, c.k, d), Digit(s.dest, c.k, d))
    OBVIOUS
  <2>1. d \in Nat
    BY DEF Below
  <2>2. Digit(s.at, c.k, d) \in Below(c.k) /\ Digit(s.dest, c.k, d) \in Below(c.k)
    BY <1>1, <2>1, DigitType
  <2>3. Digit(s.at, c.k, d) \in Nat /\ Digit(s.dest, c.k, d) \in Nat
    BY <2>2 DEF Below
  <2> QED
    BY <2>3, BetweenHas
<1>3. s.at \in rand_min_intr_mesh(c, s.at, s.dest)
  BY <1>1, <1>2 DEF rand_min_intr_mesh
<1>4. rand_min_intr_mesh(c, s.at, s.dest) \subseteq Nodes(c)
  BY <1>1 DEF rand_min_intr_mesh
<1> QED
  BY <1>3, <1>4

LEMMA TwoPhaseGuides ==
  ASSUME NEW c, Cubic(c), c.routing \in {"romm_mesh", "valiant_mesh"}, VCCount(c) >= 2
  PROVE  Guides(c)
<1> SUFFICES ASSUME NEW s, OnWay(c, s)
             PROVE  Function(c, s) # {} /\ \A result \in Function(c, s) : Leads(c, s, result)
  BY DEF Guides
<1>1. c.routing \in TwoPhases
  BY DEF TwoPhases, Eights
<1>2. CASE c.routing = "romm_mesh"
  <2> DEFINE choices == rand_min_intr_mesh(c, s.at, s.dest)
  <2>1. Function(c, s) = TwoPhase(c, s, choices)
    BY <1>2 DEF Function, romm_mesh
  <2>2. choices # {} /\ choices \subseteq Nodes(c)
    BY MinimalChoices
  <2> HIDE DEF choices
  <2> QED
    BY <1>1, <2>1, <2>2, TwoPhaseLeads
<1>3. CASE c.routing = "valiant_mesh"
  <2>1. Function(c, s) = TwoPhase(c, s, Nodes(c))
    <3>1. Below(powi(c.k, c.n)) = Nodes(c)
      BY FlitIs DEF KNCubeRouters
    <3> QED
      BY <1>3, <3>1 DEF Function, valiant_mesh
  <2>2. Nodes(c) # {}
    BY FlitIs
  <2> QED
    BY <1>1, <2>1, <2>2, TwoPhaseLeads
<1> QED
  BY <1>2, <1>3

(* The three functions with numbers for 8 x 8 nodes draw one of these. *)
LEMMA BetweenWithin ==
  ASSUME NEW m \in Nat, NEW x \in 0 .. m, NEW y \in 0 .. m
  PROVE  Between(x, y) # {} /\ Between(x, y) \subseteq 0 .. m
<1>1. \E n \in {x, y} : \A z \in {x, y} : n <= z
  BY x <= y \/ y <= x
<1>2. \E n \in {x, y} : \A z \in {x, y} : n >= z
  BY x <= y \/ y <= x
<1>3. Min({x, y}) \in {x, y}
  BY <1>1 DEF Min
<1>4. Max({x, y}) \in {x, y}
  BY <1>2 DEF Max
<1>5. x \in Between(x, y)
  BY BetweenHas
<1> QED
  BY <1>3, <1>4, <1>5 DEF Between

LEMMA EightDraws ==
  ASSUME NEW c, Cubic(c), c.routing \in Eights, c.k = 8, c.n = 2, NEW s, OnWay(c, s)
  PROVE  \E choices \in SUBSET Nodes(c) : choices # {} /\ Function(c, s) = TwoPhase(c, s, choices)
<1> DEFINE E == 0 .. 7
           r1 == Row(s.at)
           r2 == Row(s.dest)
           c1 == Col(s.at)
           c2 == Col(s.dest)
<1>1. Nodes(c) = 0 .. 63
  <2>1. 8 \in Nat \ {0} /\ 0 \in Nat /\ 1 \in Nat
    OBVIOUS
  <2>2. powi(8, 0) = 1 /\ powi(8, 0 + 1) = powi(8, 0) * 8 /\ powi(8, 1 + 1) = powi(8, 1) * 8
    BY <2>1, PowiStep
  <2>3. powi(8, 2) = 64
    BY <2>2
  <2>4. Nodes(c) = Below(powi(8, 2))
    BY FlitIs DEF KNCubeRouters
  <2>5. Below(64) = 0 .. 63
    <3>1. 64 - 1 = 63
      OBVIOUS
    <3> QED
      BY <3>1 DEF Below
  <2> QED
    BY <2>3, <2>4, <2>5
<1>2. s.at \in 0 .. 63 /\ s.dest \in 0 .. 63
  BY <1>1, FlitIs
<1>3. r1 \in E /\ r2 \in E /\ c1 \in E /\ c2 \in E
  BY <1>2 DEF Row, Col
<1>4. ASSUME NEW row \in E, NEW col \in E PROVE row + 8 * col \in Nodes(c)
  BY <1>1, <1>4
<1> HIDE DEF r1, r2, c1, c2
<1>5. ASSUME NEW row \in E, NEW col \in E, Function(c, s) = TwoPhase(c, s, {row + 8 * col})
      PROVE  \E choices \in SUBSET Nodes(c) : choices # {} /\ Function(c, s) = TwoPhase(c, s, choices)
  BY <1>4, <1>5
<1>6. CASE c.routing = "directed_valiant_mesh"
  <2> DEFINE dist == Distance(s.at, s.dest)
             rows == {row + 8 * col : row \in Between(r1, r2), col \in IF s.at < 8 THEN {0, 1} ELSE {6, 7}}
             cols == {r1 + 8 * col : col \in 1 .. 6}
             choices == IF dist < 4 THEN Between(s.at, s.dest) ELSE IF dist < 8 THEN rows ELSE cols
  <2>1. Function(c, s) = TwoPhase(c, s, choices)
    BY <1>6 DEF Function, directed_valiant_mesh, r1, r2
  <2>2. Between(s.at, s.dest) # {} /\ Between(s.at, s.dest) \subseteq Nodes(c)
    BY <1>1, <1>2, BetweenWithin
  <2>3. rows # {} /\ rows \subseteq Nodes(c)
    <3>1. Between(r1, r2) # {} /\ Between(r1, r2) \subseteq E
      BY <1>3, BetweenWithin
    <3> DEFINE two == IF s.at < 8 THEN {0, 1} ELSE {6, 7}
    <3>2. two # {} /\ two \subseteq E
      OBVIOUS
    <3>3. rows = {row + 8 * col : row \in Between(r1, r2), col \in two}
      OBVIOUS
    <3> DEFINE at(row, col) == row + 8 * col
    <3>4. rows = {at(row, col) : row \in Between(r1, r2), col \in two}
      BY <3>3
    <3>5. \A row \in E, col \in E : at(row, col) \in Nodes(c)
      BY <1>4
    <3> HIDE DEF two, rows, E, at
    <3>6. rows \subseteq Nodes(c)
      BY <3>1, <3>2, <3>4, <3>5
    <3>7. PICK row \in Between(r1, r2), col \in two : TRUE
      BY <3>1, <3>2
    <3>8. at(row, col) \in rows
      BY <3>4
    <3> QED
      BY <3>6, <3>8
  <2>4. cols # {} /\ cols \subseteq Nodes(c)
    <3>1. 1 .. 6 \subseteq E /\ 1 \in 1 .. 6
      OBVIOUS
    <3> DEFINE inner == 1 .. 6
    <3>2. cols = {r1 + 8 * col : col \in inner}
      OBVIOUS
    <3>3. inner # {} /\ inner \subseteq E
      BY <3>1
    <3> HIDE DEF inner, cols, E
    <3> QED
      BY <1>3, <1>4, <3>2, <3>3
  <2> HIDE DEF dist, rows, cols
  <2>5. choices # {} /\ choices \subseteq Nodes(c)
    BY <2>2, <2>3, <2>4
  <2> HIDE DEF choices
  <2> QED
    BY <2>1, <2>5
<1>7. CASE c.routing = "four_sided_mesh"
  <2>1. PICK row \in E, col \in E : Function(c, s) = TwoPhase(c, s, {row + 8 * col})
    <3> DEFINE side == {0, 7}
               far == IF r1 = 0 THEN 2 ELSE 5
               a == IF Distance(c1, c2) > 3 THEN far ELSE r2
               b == IF Distance(r1, r2) > 3 THEN far ELSE c1
               corner(row, col) == {row + 8 * col}
    <3>1. Function(c, s) = TwoPhase(c, s,
            IF r1 \in side /\ r2 \in side THEN corner(a, c2)
            ELSE IF c1 \in side /\ c2 \in side THEN corner(r1, b)
            ELSE IF r1 \in side THEN corner(r2, c1) ELSE corner(r1, c2))
      BY <1>7 DEF Function, four_sided_mesh, r1, r2, c1, c2
    <3>2. a \in E /\ b \in E
      BY <1>3
    <3> HIDE DEF side, a, b, E
    <3> QED
      BY <1>3, <3>1, <3>2
  <2> QED
    BY <1>5, <2>1
<1>8. CASE c.routing = "diamond_mesh"
  <2> DEFINE outside == OutsideDiamond(r1, c2)
  <2>1. Function(c, s) = TwoPhase(c, s, {IF outside THEN r2 + 8 * c1 ELSE r1 + 8 * c2})
    BY <1>8 DEF Function, diamond_mesh, r1, r2, c1, c2
  <2> HIDE DEF outside, E
  <2> QED
    BY <1>3, <1>5, <2>1
<1> QED
  BY <1>6, <1>7, <1>8 DEF Eights

LEMMA EightGuides ==
  ASSUME NEW c, Cubic(c), c.routing \in Eights, c.k = 8, c.n = 2, VCCount(c) >= 2
  PROVE  Guides(c)
<1> SUFFICES ASSUME NEW s, OnWay(c, s)
             PROVE  Function(c, s) # {} /\ \A result \in Function(c, s) : Leads(c, s, result)
  BY DEF Guides
<1>1. PICK choices \in SUBSET Nodes(c) : choices # {} /\ Function(c, s) = TwoPhase(c, s, choices)
  BY EightDraws
<1>2. c.routing \in TwoPhases
  BY DEF TwoPhases
<1> QED
  BY <1>1, <1>2, TwoPhaseLeads

LEMMA RommNiGuides ==
  ASSUME NEW c, Cubic(c), c.routing = "romm_ni_mesh", VCCount(c) >= c.nodes
  PROVE  Guides(c)
<1> SUFFICES ASSUME NEW s, OnWay(c, s)
             PROVE  Function(c, s) # {} /\ \A result \in Function(c, s) : Leads(c, s, result)
  BY DEF Guides
<1> DEFINE choices == rand_min_intr_mesh(c, s.at, s.dest)
           T == Phased(c, s, choices)
           O(t) == Out(t, dor_next_mesh(c, t.at, Goal(t), FALSE), DestVCs(c, s))
<1>1. c.routing \in TwoPhases
  BY DEF TwoPhases, Eights
<1>2. Function(c, s) = Asserted({O(t) : t \in T})
  BY DEF Function, romm_ni_mesh
<1>3. choices # {} /\ choices \subseteq Nodes(c)
  BY MinimalChoices
<1> HIDE DEF choices
<1>4. T # {}
  BY <1>1, <1>3, PhasedIs
<1>5. DestVCs(c, s) # {} /\ DestVCs(c, s) \subseteq VCs(c)
  BY DestBlock
<1>6. ASSUME NEW t \in T PROVE Leads(c, s, O(t)) /\ O(t).outs # {}
  BY <1>1, <1>3, <1>5, PhasedLeads
<1> HIDE DEF T, O
<1> QED
  BY <1>2, <1>4, <1>6 DEF Asserted


-----------------------------------------------------------------------------
(* Adaptive functions of the meshes. *)
LEMMA TowardUnmatched ==
  ASSUME NEW c, Cubic(c), NEW cur \in KNCubeRouters(c), NEW dest \in KNCubeRouters(c)
  PROVE  LET ports == {Toward(c, cur, dest, d) : d \in Unmatched(c, cur, dest)}
         IN  /\ \A p \in ports : p \in CubePorts(c) /\ p # Eject(c)
             /\ cur # dest => ports # {}
<1>1. \A d \in Unmatched(c, cur, dest) : Toward(c, cur, dest, d) \in CubePorts(c) /\ Toward(c, cur, dest, d) # Eject(c)
  BY PortOf DEF Unmatched
<1>2. cur # dest => Unmatched(c, cur, dest) # {}
  BY SomeUnmatched
<1> QED
  BY <1>1, <1>2

LEMMA MinAdaptGuides ==
  ASSUME NEW c, Cubic(c), c.routing = "min_adapt_mesh", c.first = 0
  PROVE  Guides(c)
<1> SUFFICES ASSUME NEW s, OnWay(c, s)
             PROVE  Function(c, s) # {} /\ \A result \in Function(c, s) : Leads(c, s, result)
  BY DEF Guides
<1>1. Function(c, s) = min_adapt_mesh(c, s)
  BY DEF Function
<1>2. Plainly(c)
  BY DEF Plainly, TwoPhases, Eights, Ringed
<1>3. s.at \in KNCubeRouters(c) /\ s.dest \in KNCubeRouters(c)
  BY FlitIs
<1>4. CASE s.at = s.dest
  <2>1. Function(c, s) = {Out(s, Eject(c), VCs(c))}
    BY <1>1, <1>4 DEF min_adapt_mesh
  <2>2. Leads(c, s, Out(s, Eject(c), VCs(c)))
    BY <1>2, <1>4, FlitIs, PlainBegun, OutLeads, EjectIn
  <2> QED
    BY <2>1, <2>2
<1>5. CASE s.at # s.dest
  <2> DEFINE in_vc == IF Injected(c, s) THEN c.last ELSE s.vc
             port == dor_next_mesh(c, s.at, s.dest, FALSE)
             ports == {Toward(c, s.at, s.dest, d) : d \in Unmatched(c, s.at, s.dest)}
             escape == {port} \X (0 .. c.first)
             adaptive == ports \X (c.first + 1 .. c.last)
             outs == escape \cup (IF in_vc # c.first THEN adaptive ELSE {})
             o == [ph |-> s.ph, intm |-> s.intm, outs |-> outs]
  <2>1. Function(c, s) = {o}
    BY <1>1, <1>5 DEF min_adapt_mesh
  <2>2. port \in CubePorts(c) /\ port # Eject(c)
    <3>1. FALSE \in BOOLEAN
      OBVIOUS
    <3> QED
      BY <1>3, <1>5, <3>1, DorPort, ZenonT(40)
  <2>3. \A p \in ports : p \in CubePorts(c) /\ p # Eject(c)
    BY <1>3, TowardUnmatched
  <2>4. 0 .. c.first \subseteq VCs(c) /\ 0 \in 0 .. c.first /\ c.first + 1 .. c.last \subseteq VCs(c)
    BY DEF VCs, Cubic, VCsFit
  <2> HIDE DEF port, ports, in_vc
  <2>5. <<port, 0>> \in outs
    BY <2>4
  <2>6. outs \subseteq CubePorts(c) \X VCs(c) /\ \A out \in outs : out[1] # Eject(c)
    BY <2>2, <2>3, <2>4
  <2> HIDE DEF outs
  <2>7. o.outs = outs /\ o.ph = s.ph /\ o.intm = s.intm
    OBVIOUS
  <2> HIDE DEF o
  <2>8. Leads(c, s, o)
    BY <1>2, <2>5, <2>6, <2>7, FlitIs, PlainBegun DEF Leads
  <2> QED
    BY <2>1, <2>8
<1> QED
  BY <1>4, <1>5

(* The functions of the chaos router name ports only, with VC 0. *)
LEMMA ZeroLeads ==
  ASSUME NEW c, Cubic(c), NEW s, OnWay(c, s), Plainly(c), c.first = 0, NEW ports, ports # {},
         \A p \in ports : p \in CubePorts(c) /\ (p = Eject(c) => s.at = s.dest)
  PROVE  Leads(c, s, [ph |-> s.ph, intm |-> s.intm, outs |-> ports \X {0}])
<1> DEFINE o == [ph |-> s.ph, intm |-> s.intm, outs |-> ports \X {0}]
<1>1. o.outs = ports \X {0} /\ o.ph = s.ph /\ o.intm = s.intm
  OBVIOUS
<1> HIDE DEF o
<1>2. 0 \in VCs(c)
  BY DEF VCs, Cubic, VCsFit
<1>3. PICK p \in ports : TRUE
  OBVIOUS
<1>4. <<p, 0>> \in o.outs
  BY <1>1
<1>5. ASSUME NEW out \in o.outs PROVE out \in CubePorts(c) \X VCs(c) /\ (out[1] = Eject(c) => s.at = s.dest)
  <2>1. PICK q \in ports : out = <<q, 0>>
    BY <1>1
  <2> QED
    BY <1>2, <2>1
<1>6. Begun(c, o)
  BY PlainBegun
<1> QED
  BY <1>1, <1>4, <1>5, <1>6, FlitIs DEF Leads, o

LEMMA ChaosMeshGuides ==
  ASSUME NEW c, Cubic(c), c.routing = "chaos_mesh", c.first = 0
  PROVE  Guides(c)
<1> SUFFICES ASSUME NEW s, OnWay(c, s)
             PROVE  Function(c, s) # {} /\ \A result \in Function(c, s) : Leads(c, s, result)
  BY DEF Guides
<1> DEFINE ports == IF s.at = s.dest THEN {Eject(c)}
                    ELSE {Toward(c, s.at, s.dest, d) : d \in Unmatched(c, s.at, s.dest)}
<1>1. Function(c, s) = {[ph |-> s.ph, intm |-> s.intm, outs |-> ports \X {0}]}
  BY DEF Function, chaos_mesh
<1>2. Plainly(c)
  BY DEF Plainly, TwoPhases, Eights, Ringed
<1>3. s.at \in KNCubeRouters(c) /\ s.dest \in KNCubeRouters(c)
  BY FlitIs
<1>4. ports # {} /\ \A p \in ports : p \in CubePorts(c) /\ (p = Eject(c) => s.at = s.dest)
  <2>1. CASE s.at = s.dest
    BY <2>1, EjectIn
  <2>2. CASE s.at # s.dest
    <3>1. ports = {Toward(c, s.at, s.dest, d) : d \in Unmatched(c, s.at, s.dest)}
      BY <2>2
    <3> HIDE DEF ports
    <3> QED
      BY <1>3, <2>2, <3>1, TowardUnmatched
  <2> QED
    BY <2>1, <2>2
<1> HIDE DEF ports
<1> QED
  BY <1>1, <1>2, <1>4, ZeroLeads

(* Tori. *)
LEMMA SlackType ==
  ASSUME NEW c, Cubic(c), NEW cur \in KNCubeRouters(c), NEW dest \in KNCubeRouters(c), NEW d \in Below(c.n)
  PROVE  Slack(c, cur, dest, d) \in Int
<1>1. cur \in Int /\ dest \in Int /\ d \in Nat /\ c.k \in Nat \ {0}
  BY DEF Cubic, CubeSized, KNCubeRouters, Below
<1>2. Digit(cur, c.k, d) \in Below(c.k) /\ Digit(dest, c.k, d) \in Below(c.k)
  BY <1>1, DigitType
<1> DEFINE a == Digit(cur, c.k, d)
           b == Digit(dest, c.k, d)
           z == b - a + c.k
<1>3. z \in Int
  BY <1>1, <1>2 DEF Below
<1>4. Ahead(c, cur, dest, d) = z % c.k
  BY DEF Ahead
<1> HIDE DEF z
<1>5. z % c.k \in Int
  <2>1. z % c.k \in 0 .. c.k - 1
    BY <1>1, <1>3, DivMod
  <2> QED
    BY <1>1, <2>1
<1> QED
  BY <1>1, <1>4, <1>5 DEF Slack

LEMMA ChaosTorusGuides ==
  ASSUME NEW c, Cubic(c), c.routing = "chaos_torus", c.first = 0
  PROVE  Guides(c)
<1> SUFFICES ASSUME NEW s, OnWay(c, s)
             PROVE  Function(c, s) # {} /\ \A result \in Function(c, s) : Leads(c, s, result)
  BY DEF Guides
<1> DEFINE slack(d) == Slack(c, s.at, s.dest, d)
           left == Unmatched(c, s.at, s.dest)
           around == {2 * d : d \in {e \in left : slack(e) >= 0}} \cup {2 * d + 1 : d \in {e \in left : slack(e) <= 0}}
           ports == IF s.at = s.dest THEN {Eject(c)} ELSE around
<1>1. Function(c, s) = {[ph |-> s.ph, intm |-> s.intm, outs |-> ports \X {0}]}
  BY DEF Function, chaos_torus
<1>2. Plainly(c)
  BY DEF Plainly, TwoPhases, Eights, Ringed
<1>3. s.at \in KNCubeRouters(c) /\ s.dest \in KNCubeRouters(c)
  BY FlitIs
<1>4. ports # {} /\ \A p \in ports : p \in CubePorts(c) /\ (p = Eject(c) => s.at = s.dest)
  <2>1. CASE s.at = s.dest
    BY <2>1, EjectIn
  <2>2. CASE s.at # s.dest
    <3>1. left # {} /\ left \subseteq Below(c.n)
      BY <1>3, <2>2, SomeUnmatched
    <3>2. \A d \in left : slack(d) \in Int
      BY <1>3, <3>1, SlackType
    <3>3. \A d \in left : 2 * d \in CubePorts(c) /\ 2 * d # Eject(c) /\ 2 * d + 1 \in CubePorts(c) /\ 2 * d + 1 # Eject(c)
      BY <3>1, PortOf
    <3> HIDE DEF slack, left
    <3>4. PICK d \in left : TRUE
      BY <3>1
    <3>5. slack(d) >= 0 \/ slack(d) <= 0
      BY <3>2
    <3>6. 2 * d \in around \/ 2 * d + 1 \in around
      BY <3>5
    <3>7. \A p \in around : p \in CubePorts(c) /\ p # Eject(c)
      BY <3>3
    <3> QED
      BY <2>2, <3>6, <3>7
  <2> QED
    BY <2>1, <2>2
<1> HIDE DEF ports
<1> QED
  BY <1>1, <1>2, <1>4, ZeroLeads


-----------------------------------------------------------------------------
(* Dimension order in tori. *)
LEMMA PartitionsIn ==
  ASSUME NEW c, NEW x, NEW y, NEW dir, NEW balance
  PROVE  Partitions(c, x, y, dir, balance) # {} /\ Partitions(c, x, y, dir, balance) \subseteq {0, 1}
BY DEF Partitions

(* A flit that stays in a ring leaves through the port across. *)
LEMMA AcrossPort ==
  ASSUME NEW c, Cubic(c), NEW in \in CubePorts(c), NEW d \in Below(c.n), in \div 2 = d
  PROVE  Flipped(in) \in CubePorts(c) /\ Flipped(in) # Eject(c) /\ in # Eject(c)
<1>1. c.n \in Nat /\ d \in Nat /\ d <= c.n - 1 /\ in \in Nat /\ in <= 2 * c.n /\ Eject(c) = 2 * c.n
  BY DEF Cubic, CubeSized, Below, CubePorts, Eject
<1>2. in = d * 2 + (in % 2) /\ in % 2 \in 0 .. 2 - 1
  <2>1. in \in Int /\ 2 \in Nat \ {0}
    BY <1>1
  <2>2. in = (in \div 2) * 2 + (in % 2) /\ in % 2 \in 0 .. 2 - 1
    BY <2>1, DivMod
  <2> QED
    BY <2>2
<1> DEFINE b == in % 2
<1>3. Flipped(in) = IF b = 0 THEN in + 1 ELSE in - 1
  BY DEF Flipped
<1>4. in = d * 2 + b /\ b \in {0, 1}
  BY <1>2
<1> HIDE DEF b
<1> QED
  BY <1>1, <1>3, <1>4 DEF CubePorts

LEMMA DorTorus ==
  ASSUME NEW c, Cubic(c), NEW s, OnWay(c, s), NEW in \in CubePorts(c), NEW balance
  PROVE  /\ dor_next_torus(c, s, in, balance) # {}
         /\ \A next \in dor_next_torus(c, s, in, balance) :
              /\ next[1] \in CubePorts(c) /\ (next[1] = Eject(c) <=> s.at = s.dest)
              /\ next[2] \in {0, 1} \/ (next[2] = s.ph /\ (in = Eject(c) => s.at = s.dest))
<1>1. s.at \in KNCubeRouters(c) /\ s.dest \in KNCubeRouters(c)
  BY FlitIs
<1>2. CASE s.at = s.dest
  <2>1. dor_next_torus(c, s, in, balance) = {<<Eject(c), s.ph>>}
    BY <1>2 DEF dor_next_torus
  <2> QED
    BY <1>2, <2>1, EjectIn
<1>3. CASE s.at # s.dest
  <2> DEFINE d == Min(Unmatched(c, s.at, s.dest))
             slack == Slack(c, s.at, s.dest, d)
             dirs == IF slack > 0 THEN {0} ELSE IF slack = 0 THEN {0, 1} ELSE {1}
             parts(dir) == Partitions(c, Digit(s.at, c.k, d), Digit(s.dest, c.k, d), dir, balance)
             turns == UNION {{<<2 * d + dir, part>> : part \in parts(dir)} : dir \in dirs}
  <2>1. d \in Below(c.n)
    <3>1. Unmatched(c, s.at, s.dest) # {} /\ Unmatched(c, s.at, s.dest) \subseteq Below(c.n) /\ c.n \in Nat
      BY <1>1, <1>3, SomeUnmatched DEF Cubic, CubeSized
    <3> QED
      BY <3>1, EndsIn
  <2>2. dor_next_torus(c, s, in, balance) = IF in \div 2 = d THEN {<<Flipped(in), s.ph>>} ELSE turns
    BY <1>3 DEF dor_next_torus
  <2>3. dirs # {} /\ dirs \subseteq {0, 1}
    OBVIOUS
  <2>4. \A dir : parts(dir) # {} /\ parts(dir) \subseteq {0, 1}
    BY PartitionsIn
  <2>5. 2 * d + 0 \in CubePorts(c) /\ 2 * d + 0 # Eject(c) /\ 2 * d + 1 \in CubePorts(c) /\ 2 * d + 1 # Eject(c)
    <3>1. d \in Int
      BY <2>1 DEF Below
    <3> HIDE DEF d
    <3>2. 2 * d + 0 = 2 * d
      BY <3>1
    <3> QED
      BY <2>1, <3>2, PortOf
  <2> HIDE DEF d, dirs, parts
  <2>6. CASE in \div 2 = d
    <3>1. dor_next_torus(c, s, in, balance) = {<<Flipped(in), s.ph>>}
      BY <2>2, <2>6
    <3>2. Flipped(in) \in CubePorts(c) /\ Flipped(in) # Eject(c) /\ in # Eject(c)
      BY <2>1, <2>6, AcrossPort
    <3> QED
      BY <1>3, <3>1, <3>2
  <2>7. CASE in \div 2 # d
    <3>1. dor_next_torus(c, s, in, balance) = turns
      BY <2>2, <2>7
    <3>2. turns # {}
      <4>1. PICK dir \in dirs : TRUE
        BY <2>3
      <4>2. PICK part \in parts(dir) : TRUE
        BY <2>4
      <4>3. <<2 * d + dir, part>> \in turns
        BY <4>1, <4>2
      <4> QED
        BY <4>3
    <3>3. ASSUME NEW next \in turns
          PROVE  next[1] \in CubePorts(c) /\ next[1] # Eject(c) /\ next[2] \in {0, 1}
      <4>1. PICK dir \in dirs : next \in {<<2 * d + dir, part>> : part \in parts(dir)}
        BY <3>3
      <4>2. PICK part \in parts(dir) : next = <<2 * d + dir, part>>
        BY <4>1
      <4>3. dir \in {0, 1} /\ part \in {0, 1}
        BY <2>3, <2>4
      <4>4. 2 * d + dir \in CubePorts(c) /\ 2 * d + dir # Eject(c)
        BY <2>5, <4>3
      <4> QED
        BY <4>2, <4>3, <4>4
    <3> HIDE DEF turns
    <3> QED
      BY <1>3, <3>1, <3>2, <3>3
  <2> QED
    BY <2>6, <2>7
<1> QED
  BY <1>2, <1>3

LEMMA TorusOrderGuides ==
  ASSUME NEW c, Cubic(c), c.routing \in {"dim_order_torus", "dim_order_bal_torus"}, VCCount(c) >= 2
  PROVE  Guides(c)
<1> SUFFICES ASSUME NEW s, OnWay(c, s)
             PROVE  Function(c, s) # {} /\ \A result \in Function(c, s) : Leads(c, s, result)
  BY DEF Guides
<1>1. \E balance : Function(c, s) = TorusOrder(c, s, balance)
  <2>1. CASE c.routing = "dim_order_torus"
    BY <2>1 DEF Function, dim_order_torus
  <2>2. CASE c.routing = "dim_order_bal_torus"
    BY <2>2 DEF Function, dim_order_bal_torus
  <2> QED
    BY <2>1, <2>2
<1>2. PICK balance : Function(c, s) = TorusOrder(c, s, balance)
  BY <1>1
<1> DEFINE nexts == dor_next_torus(c, s, s.in, balance)
           O(next) == Out([s EXCEPT !.ph = next[2]], next[1], RingVCs(c, s, next[2]))
<1>3. Function(c, s) = Asserted({O(next) : next \in nexts})
  BY <1>2 DEF TorusOrder
<1>4. s.in \in CubePorts(c) /\ s \in CubeFlits(c) /\ (s.in # Eject(c) => s.ph \in {0, 1})
  <2>1. c.routing \in Ringed
    BY DEF Ringed
  <2> QED
    BY <2>1, FlitIs DEF OnWay, Begun
<1>5. nexts # {}
  BY <1>4, DorTorus
<1>6. ASSUME NEW next \in nexts PROVE Leads(c, s, O(next)) /\ O(next).outs # {}
  <2>1. /\ next[1] \in CubePorts(c) /\ (next[1] = Eject(c) => s.at = s.dest)
        /\ next[1] # Eject(c) => next[2] \in {0, 1}
        /\ next[2] \in {0, 1} \/ next[2] = s.ph
    BY <1>4, DorTorus
  <2> DEFINE t == [s EXCEPT !.ph = next[2]]
             vcs == RingVCs(c, s, next[2])
  <2>2. t.ph = next[2] /\ t.intm = s.intm
    BY <1>4 DEF CubeFlits
  <2>3. next[2] \in -1 .. 2
    BY <2>1, FlitIs
  <2>4. vcs # {} /\ vcs \subseteq VCs(c)
    <3>1. (next[2] = 0) \in BOOLEAN
      OBVIOUS
    <3>2. Half(c, next[2] = 0) # {} /\ Half(c, next[2] = 0) \subseteq VCs(c)
      BY <3>1, HalfIs DEF Cubic
    <3> QED
      BY <3>2, FlitIs DEF RingVCs
  <2> HIDE DEF t, vcs, nexts
  <2>5. next[1] # Eject(c) => Begun(c, t)
    <3>1. c.routing \notin TwoPhases
      BY DEF TwoPhases, Eights
    <3> QED
      BY <2>1, <2>2, <3>1 DEF Begun
  <2>6. s.intm \in -1 .. c.nodes - 1
    BY FlitIs
  <2>7. Leads(c, s, Out(t, next[1], vcs)) /\ Out(t, next[1], vcs).outs # {}
    BY <2>1, <2>2, <2>3, <2>4, <2>5, <2>6, OutLeads, ZenonT(40)
  <2> QED
    BY <2>7 DEF t, vcs
<1> HIDE DEF nexts, O
<1> QED
  BY <1>3, <1>5, <1>6 DEF Asserted

LEMMA NiTorusGuides ==
  ASSUME NEW c, Cubic(c), c.routing = "dim_order_ni_torus", VCCount(c) >= c.nodes
  PROVE  Guides(c)
<1> SUFFICES ASSUME NEW s, OnWay(c, s)
             PROVE  Function(c, s) # {} /\ \A result \in Function(c, s) : Leads(c, s, result)
  BY DEF Guides
<1> DEFINE nexts == dor_next_torus(c, s, s.in, FALSE)
           O(next) == Out(s, next[1], DestVCs(c, s))
<1>1. Function(c, s) = Asserted({O(next) : next \in nexts})
  BY DEF Function, dim_order_ni_torus
<1>2. Plainly(c)
  BY DEF Plainly, TwoPhases, Eights, Ringed
<1>3. nexts # {} /\ \A next \in nexts : next[1] \in CubePorts(c) /\ (next[1] = Eject(c) => s.at = s.dest)
  <2>1. \A b : LET N == dor_next_torus(c, s, s.in, b)
               IN  N # {} /\ \A next \in N : next[1] \in CubePorts(c) /\ (next[1] = Eject(c) => s.at = s.dest)
    BY FlitIs, DorTorus
  <2> QED
    BY <2>1
<1>4. DestVCs(c, s) # {} /\ DestVCs(c, s) \subseteq VCs(c)
  BY DestBlock
<1>5. ASSUME NEW next \in nexts PROVE Leads(c, s, O(next)) /\ O(next).outs # {}
  <2> HIDE DEF nexts
  <2> QED
    BY <1>2, <1>3, <1>4, FlitIs, PlainBegun, OutLeads
<1> HIDE DEF nexts, O
<1> QED
  BY <1>1, <1>3, <1>5 DEF Asserted


LEMMA MinTorusGuides ==
  ASSUME NEW c, Cubic(c), c.routing = "min_adapt_torus", c.last >= c.first + 3
  PROVE  Guides(c)
<1> SUFFICES ASSUME NEW s, OnWay(c, s)
             PROVE  Function(c, s) # {} /\ \A result \in Function(c, s) : Leads(c, s, result)
  BY DEF Guides
<1> DEFINE in_vc == IF Injected(c, s) THEN c.last ELSE s.vc
           free == in_vc > c.first + 1
           left == Unmatched(c, s.at, s.dest)
           up == {IF Slack(c, s.at, s.dest, d) > 0 THEN 2 * d ELSE 2 * d + 1 : d \in left}
           minimal == up \X {c.first + 3}
           eject == IF s.at = s.dest THEN {Eject(c)} \X VCs(c) ELSE {}
           in == IF free THEN Eject(c) ELSE s.in
           outs(next) == {<<next[1], IF next[2] = 0 THEN c.first ELSE c.first + 1>>}
                           \cup (IF free THEN minimal ELSE {}) \cup eject
           O(next) == [ph |-> next[2], intm |-> s.intm, outs |-> outs(next)]
<1>1. \E b : Function(c, s) = {O(next) : next \in dor_next_torus(c, s, in, b)}
  BY DEF Function, min_adapt_torus
<1>2. PICK b : Function(c, s) = {O(next) : next \in dor_next_torus(c, s, in, b)}
  BY <1>1
<1> DEFINE nexts == dor_next_torus(c, s, in, b)
<1>3. /\ s.at \in KNCubeRouters(c) /\ s.dest \in KNCubeRouters(c) /\ s.in \in CubePorts(c)
      /\ s.ph \in -1 .. 2 /\ s.intm \in -1 .. c.nodes - 1 /\ (s.in # Eject(c) => s.ph \in {0, 1})
  <2>1. c.routing \in Ringed
    BY DEF Ringed
  <2> QED
    BY <2>1, FlitIs DEF Begun
<1>4. in \in CubePorts(c) /\ (in # Eject(c) => s.ph \in {0, 1})
  BY <1>3, EjectIn
<1> HIDE DEF in
<1>5. /\ nexts # {}
      /\ \A next \in nexts :
           /\ next[1] \in CubePorts(c) /\ (next[1] = Eject(c) <=> s.at = s.dest)
           /\ next[2] \in {0, 1} \/ (next[2] = s.ph /\ (in = Eject(c) => s.at = s.dest))
  BY <1>4, DorTorus
<1>6. (\A p \in up : p \in CubePorts(c) /\ p # Eject(c)) /\ (s.at = s.dest => up = {})
  <2>1. \A d \in left : d \in Below(c.n)
    BY DEF Unmatched
  <2>2. s.at = s.dest => left = {}
    BY DEF Unmatched
  <2>3. \A d \in left : 2 * d \in CubePorts(c) /\ 2 * d # Eject(c) /\ 2 * d + 1 \in CubePorts(c) /\ 2 * d + 1 # Eject(c)
    BY <2>1, PortOf
  <2> HIDE DEF left
  <2> QED
    BY <2>2, <2>3
<1>7. c.first \in VCs(c) /\ c.first + 1 \in VCs(c) /\ c.first + 3 \in VCs(c)
  BY DEF Cubic, VCsFit, VCs
<1>8. Eject(c) \in CubePorts(c)
  BY EjectIn
<1> HIDE DEF free, nexts, up
<1>9. ASSUME NEW next \in nexts PROVE Leads(c, s, O(next))
  <2> DEFINE X == outs(next)
             vc == IF next[2] = 0 THEN c.first ELSE c.first + 1
  <2>1. vc \in VCs(c)
    BY <1>7
  <2>2. X = {<<next[1], vc>>} \cup (IF free THEN minimal ELSE {}) \cup eject
    OBVIOUS
  <2>3. \A out \in minimal : out \in CubePorts(c) \X VCs(c) /\ out[1] # Eject(c) /\ s.at # s.dest
    BY <1>6, <1>7
  <2>4. \A out \in eject : out \in CubePorts(c) \X VCs(c) /\ out[1] = Eject(c) /\ s.at = s.dest
    BY <1>8
  <2>5. next[1] \in CubePorts(c) /\ (next[1] = Eject(c) <=> s.at = s.dest)
    BY <1>5
  <2> HIDE DEF vc, minimal, eject
  <2>6. <<next[1], vc>> \in CubePorts(c) \X VCs(c) /\ <<next[1], vc>>[1] = next[1]
    BY <2>1, <2>5
  <2> HIDE DEF X, outs
  <2>7. X # {} /\ X \subseteq CubePorts(c) \X VCs(c) /\ \A out \in X : out[1] = Eject(c) <=> s.at = s.dest
    <3>1. \A out \in X : out = <<next[1], vc>> \/ out \in minimal \/ out \in eject
      BY <2>2
    <3>2. <<next[1], vc>> \in X
      BY <2>2
    <3> HIDE DEF vc
    <3>3. \A out \in X : out \in CubePorts(c) \X VCs(c) /\ (out[1] = Eject(c) <=> s.at = s.dest)
      BY <2>3, <2>4, <2>5, <2>6, <3>1
    <3> QED
      BY <3>2, <3>3
  <2>8. O(next).outs = X /\ O(next).ph = next[2] /\ O(next).intm = s.intm
    BY DEF X
  <2>9. next[2] \in -1 .. 2 /\ (s.at # s.dest => next[2] \in {0, 1})
    BY <1>3, <1>4, <1>5
  <2> HIDE DEF O
  <2>10. s.at # s.dest => Begun(c, O(next))
    <3>1. c.routing \notin TwoPhases
      BY DEF TwoPhases, Eights
    <3> QED
      BY <2>8, <2>9, <3>1 DEF Begun
  <2> QED
    BY <1>3, <2>7, <2>8, <2>9, <2>10 DEF Leads
<1> HIDE DEF O
<1> QED
  BY <1>2, <1>5, <1>9 DEF nexts

-----------------------------------------------------------------------------
(* The VCs the functions ask for, with assertions or by the numbers they   *)
(* write: halves, a block for each node or coordinate, VC 0, or four.      *)
Halving == {"xy_yx_mesh", "adaptive_xy_yx_mesh", "romm_mesh", "valiant_mesh", "dim_order_torus", "dim_order_bal_torus"}
Enough(c) ==
  \/ c.routing \in {"dor_mesh", "dim_order_mesh"}
  \/ c.routing \in Halving /\ VCCount(c) >= 2
  \/ c.routing \in Eights /\ VCCount(c) >= 2 /\ c.k = 8 /\ c.n = 2
  \/ c.routing \in {"dim_order_ni_mesh", "romm_ni_mesh", "dim_order_ni_torus"} /\ VCCount(c) >= c.nodes
  \/ c.routing = "dim_order_pni_mesh" /\ VCCount(c) >= c.k
  \/ c.routing \in {"min_adapt_mesh", "chaos_mesh", "chaos_torus"} /\ c.first = 0
  \/ c.routing = "min_adapt_torus" /\ c.last >= c.first + 3

LEMMA EnoughGuides ==
  ASSUME NEW c, Cubic(c), Enough(c)
  PROVE  Guides(c)
BY DimOrderGuides, XYGuides, NiGuides, PniGuides, TwoPhaseGuides, EightGuides, RommNiGuides, MinAdaptGuides, ChaosMeshGuides,
   ChaosTorusGuides, TorusOrderGuides, NiTorusGuides, MinTorusGuides DEF Enough, Halving

LEMMA EnoughInjects ==
  ASSUME NEW c, Cubic(c), Enough(c)
  PROVE  Injects(c)
<1> SUFFICES ASSUME NEW dest \in Nodes(c) PROVE InjectionVCs(c, dest) \subseteq VCs(c)
  BY DEF Injects
<1>1. VCsFit(c) /\ c.k \in Nat \ {0} /\ c.nodes \in Nat \ {0} /\ dest \in Below(c.nodes) /\ dest \in Int
  BY PowiPositive, SMTT(30) DEF Cubic, CubeSized, Nodes, Below
<1>2. CASE c.routing \in {"dim_order_ni_mesh", "romm_ni_mesh"}
  <2>1. InjectionVCs(c, dest) = Block(c, dest, c.nodes)
    BY <1>2 DEF InjectionVCs
  <2>2. VCCount(c) >= c.nodes
    BY <1>2 DEF Enough, Halving, Eights
  <2> QED
    BY <1>1, <2>1, <2>2, BlockIs
<1>3. CASE c.routing = "dim_order_pni_mesh"
  <2>1. InjectionVCs(c, dest) = Block(c, dest % c.k, c.k)
    BY <1>3 DEF InjectionVCs
  <2>2. VCCount(c) >= c.k
    BY <1>3 DEF Enough, Halving, Eights
  <2>3. dest % c.k \in Below(c.k)
    BY <1>1, DivMod DEF Below
  <2> QED
    BY <1>1, <2>1, <2>2, <2>3, BlockIs
<1>4. CASE c.routing \in {"chaos_mesh", "chaos_torus"}
  <2>1. InjectionVCs(c, dest) = {0}
    BY <1>4 DEF InjectionVCs
  <2>2. c.first = 0
    BY <1>4 DEF Enough, Halving, Eights
  <2> QED
    BY <1>1, <2>1, <2>2 DEF VCsFit, VCs
<1>5. CASE c.routing \notin {"dim_order_ni_mesh", "romm_ni_mesh", "dim_order_pni_mesh", "chaos_mesh", "chaos_torus"}
  <2>1. c.routing # "ugal_pni_flatfly"
    BY DEF Enough, Halving, Eights
  <2>2. InjectionVCs(c, dest) = VCs(c)
    BY <1>5, <2>1 DEF InjectionVCs
  <2> QED
    BY <2>2
<1> QED
  BY <1>2, <1>3, <1>4, <1>5

(* The patterns that name nodes only, whatever the options. *)
LEMMA PatternsAddress ==
  ASSUME NEW c \in Configs, Cubic(c),
         c.traffic \in PermutationPatterns \cup {"uniform", "background", "taper64", "diagonal"}
  PROVE  Addressed(c)
<1> SUFFICES ASSUME NEW src \in Nodes(c) PROVE Destinations(c, src) \subseteq Nodes(c)
  BY DEF Addressed
<1>1. CASE c.traffic \in PermutationPatterns
  <2>1. Permutes(c)
    BY <1>1, PatternsPermute, SizesFit
  <2>2. UNION {Destinations(c, i) : i \in Nodes(c)} = Nodes(c)
    BY <2>1, PermutesIsBijective
  <2> QED
    BY <2>2
<1>2. CASE c.traffic = "uniform"
  BY <1>2 DEF Destinations, uniform
<1>3. CASE c.traffic = "background"
  BY <1>3 DEF Destinations, background
<1>4. CASE c.traffic = "taper64"
  BY <1>4 DEF Destinations, taper64
<1>5. CASE c.traffic = "diagonal"
  <2>1. Destinations(c, src) = {src, (src + 1) % c.nodes}
    BY <1>5 DEF Destinations, diagonal
  <2>2. src + 1 \in Int /\ c.nodes \in Nat \ {0}
    <3>1. src \in Int
      BY DEF Nodes, Below
    <3>2. c.nodes \in Nat \ {0}
      BY PowiPositive DEF Cubic, CubeSized
    <3> QED
      BY <3>1, <3>2
  <2>3. (src + 1) % c.nodes \in Nodes(c)
    BY <2>2, DivMod DEF Nodes, Below
  <2> QED
    BY <2>1, <2>3
<1> QED
  BY <1>1, <1>2, <1>3, <1>4, <1>5

(* In a mesh or torus of every size and for every source and destination   *)
(* no assertion of these functions fails, they name ports and VCs there    *)
(* are, and a flit is ejected at its destination only.                     *)
CubeRouted(c) == Cubic(c) /\ Enough(c) /\ Addressed(c)
THEOREM CubesRoute == Spec => [](CubeRouted(config) => TypeOK /\ AlwaysRouted /\ Delivered)
<1>1. CubeRouted(config) => Guided(config)
  BY EnoughGuides, EnoughInjects DEF CubeRouted, Guided
<1>2. (Guided(config) => TypeOK /\ AlwaysRouted /\ Delivered)
        => (CubeRouted(config) => TypeOK /\ AlwaysRouted /\ Delivered)
  BY <1>1
<1> QED
  BY <1>2, GuidedCarried, PTL

(* In such a configuration every flit stays in a router there is, at a port *)
(* of it, on one of the VCs the routers have, bound for a node.             *)
THEOREM CubesTyped == Spec => [](CubeRouted(config) => TypeOK)
<1>1. (CubeRouted(config) => TypeOK /\ AlwaysRouted /\ Delivered) => (CubeRouted(config) => TypeOK)
  OBVIOUS
<1> QED
  BY <1>1, CubesRoute, PTL


-----------------------------------------------------------------------------
(* The hops a flit has to go: in a mesh every one takes it nearer.         *)
Apart(x, y) == IF x < y THEN y - x ELSE x - y
Ways(c, from, to) == [d \in Below(c.n) |-> Apart(Digit(from, c.k, d), Digit(to, c.k, d))]
Way(c, from, to) == Sum(Ways(c, from, to), Below(c.n))

(* Exchanging a digit keeps the others. *)
LEMMA DigitsKept ==
  ASSUME NEW k \in Nat \ {0}, NEW n \in Nat, NEW d \in Below(n), NEW x \in Below(powi(k, n)), NEW v \in Below(k)
  PROVE  \A e \in Below(n) : Digit(WithDigit(x, k, d, v), k, e) = IF e = d THEN v ELSE Digit(x, k, e)
<1> DEFINE u == DigitsOf(x, k, n)
           w == [u EXCEPT ![d] = v]
           f == [e \in Below(n) |-> powi(k, e) * u[e]]
           g == [e \in Below(n) |-> powi(k, e) * w[e]]
<1>1. u \in [Below(n) -> Below(k)] /\ Value(u, k, n) = x
  BY ValueOfDigits
<1>2. w \in [Below(n) -> Below(k)] /\ w[d] = v /\ \A e \in Below(n) \ {d} : w[e] = u[e]
  BY <1>1
<1>3. u[d] = Digit(x, k, d) /\ \A e \in Below(n) : u[e] = Digit(x, k, e)
  BY DEF DigitsOf
<1> HIDE DEF u, w
<1>4. \A e \in Below(n) : powi(k, e) \in Nat /\ u[e] \in Nat /\ w[e] \in Nat
  <2> SUFFICES ASSUME NEW e \in Below(n) PROVE powi(k, e) \in Nat /\ u[e] \in Nat /\ w[e] \in Nat
    OBVIOUS
  <2>1. e \in Nat /\ u[e] \in Below(k) /\ w[e] \in Below(k)
    BY <1>1, <1>2 DEF Below
  <2>2. powi(k, e) \in Nat
    BY <2>1, PowiPositive
  <2> QED
    BY <2>1, <2>2 DEF Below
<1>5. Value(u, k, n) = Sum(f, Below(n)) /\ Value(w, k, n) = Sum(g, Below(n))
  <2>1. DOMAIN f = Below(n) /\ DOMAIN g = Below(n)
    OBVIOUS
  <2> QED
    BY <2>1 DEF Value, Sum, SumFunction
<1>6. /\ \A e \in Below(n) : f[e] \in Int /\ g[e] \in Int
      /\ \A e \in Below(n) \ {d} : g[e] = f[e]
      /\ f[d] = powi(k, d) * u[d] /\ g[d] = powi(k, d) * v
  BY <1>2, <1>4
<1> HIDE DEF f, g
<1>7. DiffersAt(f, g, Below(n), d)
  <2>1. IsFiniteSet(Below(n))
    BY FS_Interval DEF Below
  <2> QED
    BY <1>6, <2>1 DEF DiffersAt, Summable
<1>8. Sum(g, Below(n)) = (Sum(f, Below(n)) - f[d]) + g[d] /\ Sum(f, Below(n)) \in Int
  <2>1. Summable(f, Below(n))
    BY <1>7 DEF DiffersAt
  <2> QED
    BY <1>7, <2>1, SumChange, SumType
<1>9. WithDigit(x, k, d, v) = x + (v - u[d]) * powi(k, d)
  BY <1>3 DEF WithDigit
<1>10. WithDigit(x, k, d, v) = Value(w, k, n)
  <2> DEFINE K == powi(k, d)
  <2>1. K \in Nat /\ u[d] \in Nat /\ v \in Nat
    BY <1>2, <1>4
  <2>2. x = Sum(f, Below(n)) /\ f[d] = K * u[d] /\ g[d] = K * v
    BY <1>1, <1>5, <1>6
  <2> HIDE DEF K
  <2>3. K * v = v * K /\ K * u[d] = u[d] * K /\ (v - u[d]) * K = v * K - u[d] * K
    BY <2>1
  <2>4. v * K \in Int /\ u[d] * K \in Int
    BY <2>1
  <2>5. Value(w, k, n) = (x - u[d] * K) + v * K
    BY <1>5, <1>8, <2>2, <2>3
  <2>6. x \in Int
    BY <1>8, <2>2
  <2>7. x + (v - u[d]) * K = (x - u[d] * K) + v * K
    BY <2>3, <2>4, <2>6
  <2> QED
    BY <1>9, <2>5, <2>7 DEF K
<1>11. \A e \in Below(n) : Digit(Value(w, k, n), k, e) = w[e]
  BY <1>2, ValueDigits
<1> QED
  BY <1>2, <1>3, <1>10, <1>11

LEMMA WayType ==
  ASSUME NEW c, CubeSized(c), NEW from \in KNCubeRouters(c), NEW to \in KNCubeRouters(c)
  PROVE  /\ Summable(Ways(c, from, to), Below(c.n)) /\ Way(c, from, to) \in Nat
         /\ \A d \in Below(c.n) : Digit(from, c.k, d) \in Below(c.k) /\ Digit(to, c.k, d) \in Below(c.k)
<1> DEFINE W == Ways(c, from, to)
           Z == [d \in Below(c.n) |-> 0]
<1>1. c.k \in Nat \ {0} /\ c.n \in Nat /\ from \in Int /\ to \in Int
  BY DEF CubeSized, KNCubeRouters, Below
<1>2. \A d \in Below(c.n) : Digit(from, c.k, d) \in Below(c.k) /\ Digit(to, c.k, d) \in Below(c.k)
  <2> SUFFICES ASSUME NEW d \in Below(c.n)
               PROVE  Digit(from, c.k, d) \in Below(c.k) /\ Digit(to, c.k, d) \in Below(c.k)
    OBVIOUS
  <2>1. d \in Nat
    BY DEF Below
  <2> QED
    BY <1>1, <2>1, DigitType
<1>3. \A d \in Below(c.n) : W[d] \in Nat
  BY <1>2 DEF Ways, Apart, Below
<1>4. IsFiniteSet(Below(c.n))
  BY <1>1, FS_Interval DEF Below
<1>5. Summable(W, Below(c.n)) /\ Summable(Z, Below(c.n)) /\ \A d \in Below(c.n) : Z[d] = 0
  BY <1>3, <1>4 DEF Summable
<1> HIDE DEF W, Z
<1>6. Sum(Z, Below(c.n)) <= Sum(W, Below(c.n))
  BY <1>3, <1>5, SumAtMost
<1>7. Sum(Z, Below(c.n)) = Cardinality(Below(c.n)) * 0
  <2>1. 0 \in Int
    OBVIOUS
  <2> QED
    BY <1>5, <2>1, SumConstant
<1>8. Cardinality(Below(c.n)) \in Nat
  BY <1>4, FS_CardinalityType
<1>9. Sum(W, Below(c.n)) \in Int
  BY <1>5, SumType
<1>10. Sum(W, Below(c.n)) \in Nat
  <2>1. Sum(Z, Below(c.n)) = 0
    BY <1>7, <1>8
  <2> QED
    BY <1>6, <1>9, <2>1
<1> QED
  BY <1>2, <1>5, <1>10 DEF Way, W


(* One place up or down in a dimension in which they differ is one hop less. *)
LEMMA WayLess ==
  ASSUME NEW c, CubeSized(c), NEW cur \in KNCubeRouters(c), NEW goal \in KNCubeRouters(c),
         NEW d \in Unmatched(c, cur, goal), NEW next,
         next = IF Digit(cur, c.k, d) < Digit(goal, c.k, d) THEN RightNode(c, cur, d) ELSE LeftNode(c, cur, d)
  PROVE  next \in KNCubeRouters(c) /\ Way(c, next, goal) = Way(c, cur, goal) - 1
<1> DEFINE k == c.k
           n == c.n
           x == Digit(cur, k, d)
           y == Digit(goal, k, d)
           v == IF x < y THEN x + 1 ELSE x - 1
           F == Ways(c, cur, goal)
           G == Ways(c, next, goal)
<1>1. k \in Nat \ {0} /\ n \in Nat /\ d \in Below(n) /\ cur \in Below(powi(k, n)) /\ KNCubeRouters(c) = Below(powi(k, n))
  BY DEF CubeSized, KNCubeRouters, Unmatched
<1>2. x \in Below(k) /\ y \in Below(k) /\ x # y
  <2>1. x # y
    BY DEF Unmatched
  <2> QED
    BY <1>1, <2>1, WayType
<1> HIDE DEF x, y
<1>3. v \in Below(k) /\ Apart(v, y) = Apart(x, y) - 1 /\ Apart(v, y) \in Int /\ Apart(x, y) \in Int
  BY <1>1, <1>2 DEF Below, Apart
<1>4. next = WithDigit(cur, k, d, v)
  <2>1. RightNode(c, cur, d) = WithDigit(cur, k, d, (x + 1) % k)
    BY DEF RightNode, x
  <2>2. LeftNode(c, cur, d) = WithDigit(cur, k, d, (x + k - 1) % k)
    BY DEF LeftNode, x
  <2>3. CASE x < y
    <3>1. x + 1 \in 0 .. k - 1 /\ x + 1 = 0 * k + (x + 1)
      BY <1>1, <1>2, <2>3 DEF Below
    <3>2. (x + 1) % k = x + 1
      <4> DEFINE a == x + 1
      <4> HIDE DEF a
      <4>1. a \in 0 .. k - 1 /\ a = 0 * k + a /\ 0 \in Int
        BY <3>1 DEF a
      <4>2. (0 * k + a) % k = a
        BY <1>1, <4>1, DivModUnique
      <4> QED
        BY <4>1, <4>2 DEF a
    <3>3. next = RightNode(c, cur, d) /\ v = x + 1
      BY <2>3 DEF x, y
    <3> QED
      BY <2>1, <3>2, <3>3
  <2>4. CASE ~(x < y)
    <3>1. x - 1 \in 0 .. k - 1
      BY <1>1, <1>2, <2>4 DEF Below
    <3>2. (x + k - 1) % k = x - 1
      <4> DEFINE a == x - 1
                 b == x + k - 1
      <4>0. b = 1 * k + a
        BY <1>1, <1>2 DEF Below
      <4> HIDE DEF a, b
      <4>1. a \in 0 .. k - 1 /\ 1 \in Int
        BY <3>1 DEF a
      <4>2. (1 * k + a) % k = a
        BY <1>1, <4>1, DivModUnique
      <4> QED
        BY <4>0, <4>2 DEF a, b
    <3>3. next = LeftNode(c, cur, d) /\ v = x - 1
      BY <2>4 DEF x, y
    <3> QED
      BY <2>2, <3>2, <3>3
  <2> QED
    BY <2>3, <2>4
<1> HIDE DEF v
<1>5. next \in KNCubeRouters(c) /\ \A e \in Below(n) : Digit(next, k, e) = IF e = d THEN v ELSE Digit(cur, k, e)
  BY <1>1, <1>3, <1>4, DigitReplaced, DigitsKept
<1>6. Summable(F, Below(n)) /\ F[d] = Apart(x, y) /\ G[d] = Apart(v, y) /\ \A e \in Below(n) \ {d} : G[e] = F[e]
  <2>1. Summable(F, Below(n))
    BY WayType
  <2>2. F[d] = Apart(x, y) /\ G[d] = Apart(v, y)
    BY <1>1, <1>5 DEF Ways, x, y
  <2>3. \A e \in Below(n) \ {d} : G[e] = F[e]
    BY <1>1, <1>5 DEF Ways
  <2> QED
    BY <2>1, <2>2, <2>3
<1>7. Way(c, cur, goal) = Sum(F, Below(n)) /\ Way(c, next, goal) = Sum(G, Below(n))
  BY DEF Way
<1> HIDE DEF F, G
<1>8. DiffersAt(F, G, Below(n), d)
  BY <1>1, <1>3, <1>6 DEF DiffersAt
<1>9. Sum(G, Below(n)) = (Sum(F, Below(n)) - F[d]) + G[d] /\ Sum(F, Below(n)) \in Int
  BY <1>6, <1>8, SumChange, SumType
<1> QED
  BY <1>3, <1>5, <1>6, <1>7, <1>9

(* Behind the ports of a dimension are the neighbours there. *)
LEMMA CubeBehind ==
  ASSUME NEW c \in Configs, Cubic(c), NEW r \in KNCubeRouters(c), NEW d \in Below(c.n)
  PROVE  /\ \A place \in Built[c].sinks[Built[c].out[r][2 * d]] : place.at = RightNode(c, r, d)
         /\ \A place \in Built[c].sinks[Built[c].out[r][2 * d + 1]] : place.at = LeftNode(c, r, d)
<1> DEFINE R == KNCubeRouters(c)
           m == 2 * c.n
           Q == 0 .. m
           inp == InputsOf(c)
           ends == UNION {{<<inp[s][p], s, p>> : p \in DOMAIN inp[s]} : s \in DOMAIN inp}
           up == Chan(m * r + 2 * d)
           down == Chan(m * r + (2 * d + 1))
           from(s, p) == IF p % 2 = 0 THEN m * RightNode(c, s, p \div 2) + (2 * (p \div 2) + 1)
                         ELSE m * LeftNode(c, s, p \div 2) + 2 * (p \div 2)
<1>1. Built[c].out = OutputsOf(c) /\ Built[c].sinks = Sinks(ends)
  <2>1. Built[c] = Joined(c, OutputsOf(c), inp)
    BY DEF Built, OutputsOf, InputsOf
  <2> QED
    BY <2>1 DEF Joined
<1>2. OutputsOf(c) = [s \in R |-> KNCubeOutputs(c, s)] /\ inp = [s \in R |-> KNCubeInputs(c, s)]
  BY DEF OutputsOf, InputsOf, Routers, Outputs, Inputs, Cubic
<1>3. c.n \in Nat /\ d \in Nat /\ d < c.n /\ m \in Nat \ {0} /\ CubeSized(c) /\ R \subseteq Int
  BY DEF Cubic, CubeSized, Below, KNCubeRouters
<1>4. Built[c].out[r][2 * d] = up /\ Built[c].out[r][2 * d + 1] = down
  <2>1. Built[c].out[r] = KNCubeOutputs(c, r)
    BY <1>1, <1>2
  <2>2. 2 * d \in Q /\ 2 * d + 1 \in Q /\ 2 * d # m /\ 2 * d + 1 # m
    BY <1>3
  <2>3. (2 * d) % 2 = 0 /\ (2 * d) \div 2 = d /\ (2 * d + 1) % 2 = 1 /\ (2 * d + 1) \div 2 = d
    BY <1>3
  <2>4. RightChannel(c, r, d) = m * r + 2 * d /\ LeftChannel(c, r, d) = m * r + (2 * d + 1)
    <3>1. m * r \in Int
      BY <1>3
    <3> QED
      BY <1>3, <3>1 DEF RightChannel, LeftChannel
  <2>5. \A p \in Q : p # m => Built[c].out[r][p] =
          IF p % 2 = 0 THEN Chan(RightChannel(c, r, p \div 2)) ELSE Chan(LeftChannel(c, r, p \div 2))
    BY <2>1 DEF KNCubeOutputs
  <2> HIDE DEF Q, m
  <2>6. Built[c].out[r][2 * d] = Chan(RightChannel(c, r, d))
    <3> DEFINE p == 2 * d
    <3>1. p \in Q /\ p # m /\ p % 2 = 0 /\ p \div 2 = d
      BY <2>2, <2>3
    <3> HIDE DEF p
    <3>2. Built[c].out[r][p] = Chan(RightChannel(c, r, d))
      BY <2>5, <3>1
    <3> QED
      BY <3>2 DEF p
  <2>7. Built[c].out[r][2 * d + 1] = Chan(LeftChannel(c, r, d))
    <3> DEFINE p == 2 * d + 1
    <3>1. p \in Q /\ p # m /\ p % 2 # 0 /\ p \div 2 = d
      BY <2>2, <2>3
    <3> HIDE DEF p
    <3>2. Built[c].out[r][p] = Chan(LeftChannel(c, r, d))
      BY <2>5, <3>1
    <3> QED
      BY <3>2 DEF p
  <2> QED
    BY <2>4, <2>6, <2>7
<1>5. ASSUME NEW s \in R, NEW p \in Q
      PROVE  /\ DOMAIN inp[s] = Q /\ inp[s][m] = NodeLink(s)
             /\ p # m => inp[s][p] = Chan(from(s, p)) /\ p \div 2 \in Below(c.n)
  <2>1. inp[s] = KNCubeInputs(c, s)
    BY <1>2
  <2>2. DOMAIN inp[s] = Q /\ inp[s][m] = NodeLink(s)
    BY <1>3, <2>1 DEF KNCubeInputs
  <2>3. ASSUME p # m PROVE inp[s][p] = Chan(from(s, p)) /\ p \div 2 \in Below(c.n)
    <3>1. p \div 2 \in Below(c.n)
      BY <1>3, <2>3 DEF Below
    <3> DEFINE q == p \div 2
    <3>2. RightNode(c, s, q) \in R /\ LeftNode(c, s, q) \in R
      BY <1>3, <3>1, NodesAround
    <3>3. /\ LeftChannel(c, RightNode(c, s, q), q) = m * RightNode(c, s, q) + (2 * q + 1)
          /\ RightChannel(c, LeftNode(c, s, q), q) = m * LeftNode(c, s, q) + 2 * q
      <4>1. \A x \in Int : m * x \in Int
        BY <1>3
      <4>2. q \in Nat
        BY <3>1 DEF Below
      <4> HIDE DEF q
      <4> QED
        BY <1>3, <3>2, <4>1, <4>2 DEF RightChannel, LeftChannel
    <3>4. inp[s][p] = IF p % 2 = 0 THEN Chan(LeftChannel(c, RightNode(c, s, q), q))
                      ELSE Chan(RightChannel(c, LeftNode(c, s, q), q))
      BY <2>1, <2>3 DEF KNCubeInputs
    <3> QED
      BY <3>1, <3>3, <3>4
  <2> QED
    BY <2>2, <2>3
<1>6. \A i, j : NodeLink(i) # Chan(j) /\ (Chan(i) = Chan(j) => i = j)
  BY DEF NodeLink, Chan
<1> HIDE DEF inp, up, down
<1>7. ASSUME NEW e \in ends, NEW b \in {0, 1}, e[1] = IF b = 0 THEN up ELSE down
      PROVE  e[2] = IF b = 0 THEN RightNode(c, r, d) ELSE LeftNode(c, r, d)
  <2>1. PICK s \in R : e \in {<<inp[s][p], s, p>> : p \in DOMAIN inp[s]}
    BY <1>2
  <2>2. PICK p \in Q : e = <<inp[s][p], s, p>>
    <3>1. DOMAIN inp[s] = Q
      BY <1>3, <1>5
    <3> QED
      BY <2>1, <3>1
  <2>3. e[1] = inp[s][p] /\ e[2] = s
    BY <2>2
  <2> DEFINE q == p \div 2
             l == m * r + (2 * d + b)
  <2>4. e[1] = Chan(l)
    BY <1>3, <1>7, SMTT(30) DEF up, down
  <2>5. p # m
    <3> HIDE DEF m, from, l, R, Q
    <3>1. inp[s][m] = NodeLink(s)
      BY <1>5
    <3>2. NodeLink(s) # Chan(l)
      BY <1>6
    <3> QED
      BY <2>3, <2>4, <3>1, <3>2
  <2>6. from(s, p) = l /\ q \in Below(c.n)
    <3> HIDE DEF m, from, l, R, Q
    <3>1. inp[s][p] = Chan(from(s, p)) /\ p \div 2 \in Below(c.n)
      BY <1>5, <2>5
    <3>2. Chan(from(s, p)) = Chan(l) => from(s, p) = l
      BY <1>6
    <3> QED
      BY <2>3, <2>4, <3>1, <3>2
  <2>7. p = 2 * q + (p % 2) /\ p % 2 \in {0, 1}
    OBVIOUS
  <2>8. RightNode(c, s, q) \in R /\ LeftNode(c, s, q) \in R
    BY <1>3, <2>6, NodesAround
  <2> DEFINE far == IF p % 2 = 0 THEN RightNode(c, s, q) ELSE LeftNode(c, s, q)
             h == IF p % 2 = 0 THEN 2 * q + 1 ELSE 2 * q
  <2>9. m * far + h = m * r + (2 * d + b) /\ far \in Int /\ r \in Int
    BY <1>3, <2>6, <2>8
  <2>10. h \in Below(m) /\ 2 * d + b \in Below(m)
    <3> HIDE DEF q
    <3>1. q \in Nat /\ q < c.n
      BY <1>3, <2>6 DEF Below
    <3> QED
      BY <1>3, <3>1 DEF Below
  <2>11. far = r /\ h = 2 * d + b
    <3> HIDE DEF far, h, m
    <3> DEFINE y == 2 * d + b
    <3>1. y \in Below(m) /\ m * far + h = m * r + y
      BY <2>9, <2>10
    <3> HIDE DEF y
    <3>2. m \in Nat \ {0} /\ far \in Int /\ r \in Int /\ h \in Below(m)
      BY <1>3, <2>9, <2>10
    <3>3. far = r /\ h = y
      BY <3>1, <3>2, NumberedBy, SMTT(30)
    <3> QED
      BY <3>3 DEF y
  <2>12. q \in Nat
    BY <2>6 DEF Below
  <2>13. CASE b = 0
    <3>1. p % 2 # 0 /\ q = d
      <4> HIDE DEF q
      <4> QED
        BY <1>3, <2>11, <2>12, <2>13
    <3>2. LeftNode(c, s, d) = r
      BY <2>11, <3>1
    <3>3. RightNode(c, LeftNode(c, s, d), d) = s
      BY <1>3, NodesAround
    <3> QED
      BY <2>3, <2>13, <3>2, <3>3
  <2>14. CASE b = 1
    <3>1. p % 2 = 0 /\ q = d
      <4> HIDE DEF q
      <4> QED
        BY <1>3, <2>11, <2>12, <2>14
    <3>2. RightNode(c, s, d) = r
      BY <2>11, <3>1
    <3>3. LeftNode(c, RightNode(c, s, d), d) = s
      BY <1>3, NodesAround
    <3> QED
      BY <2>3, <2>14, <3>2, <3>3
  <2> QED
    BY <2>13, <2>14
<1> HIDE DEF ends, from
<1>8. ASSUME NEW link \in {up, down}, NEW place \in Built[c].sinks[link]
      PROVE  \E e \in ends : e[1] = link /\ place.at = e[2]
  <2>1. link \in {e[1] : e \in ends}
    <3>1. DOMAIN Built[c].sinks = {e[1] : e \in ends}
      BY <1>1 DEF Sinks
    <3>2. link \in DOMAIN Built[c].sinks
      <4>1. 2 * d \in CubePorts(c) /\ 2 * d + 1 \in CubePorts(c)
        BY <1>3 DEF CubePorts, Eject
      <4> QED
        BY <1>4, <4>1, CubeLinks
    <3> QED
      BY <3>1, <3>2
  <2>2. PICK e \in ends : e[1] = link /\ place = [at |-> e[2], in |-> e[3]]
    BY <1>1, <2>1 DEF Sinks
  <2> QED
    BY <2>2
<1>9. ASSUME NEW place \in Built[c].sinks[up] PROVE place.at = RightNode(c, r, d)
  <2>1. PICK e \in ends : e[1] = up /\ place.at = e[2]
    BY <1>8
  <2> QED
    BY <1>7, <2>1
<1>10. ASSUME NEW place \in Built[c].sinks[down] PROVE place.at = LeftNode(c, r, d)
  <2>1. PICK e \in ends : e[1] = down /\ place.at = e[2]
    BY <1>8
  <2> QED
    BY <1>7, <2>1
<1> QED
  BY <1>4, <1>9, <1>10


(* Where a flit at s with this result goes: the intermediate node in phase 0. *)
Straight == {"dor_mesh", "dim_order_mesh", "xy_yx_mesh", "adaptive_xy_yx_mesh", "dim_order_ni_mesh",
             "dim_order_pni_mesh", "min_adapt_mesh", "chaos_mesh"}
Aim(c, s, result) == IF c.routing \in TwoPhases /\ result.ph = 0 THEN result.intm ELSE s.dest
Goes(c, cur, goal, port) == port = Eject(c) \/ \E d \in Unmatched(c, cur, goal) : port = Toward(c, cur, goal, d)
Steers(c, s, result) ==
  /\ \A out \in result.outs : Goes(c, s.at, Aim(c, s, result), out[1])
  /\ c.routing \in TwoPhases /\ s.in # Eject(c) =>
       result.intm = s.intm /\ (result.ph = s.ph \/ (s.ph = 0 /\ result.ph = 1 /\ s.at = s.intm))

LEMMA DorGoes ==
  ASSUME NEW c, Cubic(c), NEW cur \in KNCubeRouters(c), NEW goal \in KNCubeRouters(c), NEW descending
  PROVE  Goes(c, cur, goal, dor_next_mesh(c, cur, goal, descending))
<1>1. CASE cur = goal
  BY <1>1 DEF Goes, dor_next_mesh
<1>2. CASE cur # goal
  <2> DEFINE left == Unmatched(c, cur, goal)
             d == IF descending THEN Max(left) ELSE Min(left)
  <2>1. left # {} /\ left \subseteq Below(c.n) /\ c.n \in Nat
    BY <1>2, SomeUnmatched DEF Cubic, CubeSized
  <2>2. d \in left
    BY <2>1, EndsIn
  <2>3. dor_next_mesh(c, cur, goal, descending) = Toward(c, cur, goal, d)
    BY <1>2 DEF dor_next_mesh
  <2> HIDE DEF d
  <2> QED
    BY <2>2, <2>3 DEF Goes
<1> QED
  BY <1>1, <1>2

(* A result that names one port, and one that names directions to the destination. *)
LEMMA StraightSteers ==
  ASSUME NEW c, Cubic(c), c.routing \in Straight, NEW s, NEW result,
         \A out \in result.outs : Goes(c, s.at, s.dest, out[1])
  PROVE  Steers(c, s, result)
<1>1. c.routing \notin TwoPhases
  BY DEF Straight, TwoPhases, Eights
<1> QED
  BY <1>1 DEF Steers, Aim

LEMMA OutGoes ==
  ASSUME NEW c, NEW s, NEW t, NEW port, NEW vcs, NEW out \in Out(t, port, vcs).outs
  PROVE  out[1] = port
BY DEF Out

LEMMA StraightFunctions ==
  ASSUME NEW c, Cubic(c), c.routing \in Straight, NEW s, OnWay(c, s), NEW result \in Function(c, s)
  PROVE  Steers(c, s, result)
<1> DEFINE ports == {Toward(c, s.at, s.dest, d) : d \in Unmatched(c, s.at, s.dest)}
           N(y) == dor_next_mesh(c, s.at, s.dest, y)
<1>1. s.at \in KNCubeRouters(c) /\ s.dest \in KNCubeRouters(c)
  BY FlitIs
<1>2. Goes(c, s.at, s.dest, Eject(c)) /\ \A p \in ports : Goes(c, s.at, s.dest, p)
  BY DEF Goes
<1>3. \A y : Goes(c, s.at, s.dest, N(y))
  BY <1>1, DorGoes
<1>4. ASSUME NEW port, NEW vcs, result = Out(s, port, vcs), Goes(c, s.at, s.dest, port)
      PROVE  Steers(c, s, result)
  BY <1>4, OutGoes, StraightSteers
<1>5. CASE c.routing \in {"dor_mesh", "dim_order_mesh"}
  <2>1. Function(c, s) = {Out(s, N(FALSE), VCs(c))}
    BY <1>5 DEF Function, dim_order_mesh
  <2> HIDE DEF N
  <2> QED
    BY <1>3, <1>4, <2>1
<1>6. CASE c.routing \in {"xy_yx_mesh", "adaptive_xy_yx_mesh"}
  <2>1. Function(c, s) = xy_yx_mesh(c, s)
    <3>1. CASE c.routing = "xy_yx_mesh"
      BY <3>1 DEF Function
    <3>2. CASE c.routing = "adaptive_xy_yx_mesh"
      BY <3>2 DEF Function, adaptive_xy_yx_mesh
    <3> QED
      BY <1>6, <3>1, <3>2
  <2>2. \/ result = Out(s, Eject(c), VCs(c))
        \/ \E x : result = Out(s, N(~x), Half(c, x))
    BY <2>1 DEF xy_yx_mesh, Asserted
  <2> HIDE DEF N
  <2>3. \A x : Goes(c, s.at, s.dest, N(~x))
    BY <1>3
  <2>4. CASE result = Out(s, Eject(c), VCs(c))
    BY <1>2, <1>4, <2>4
  <2>5. CASE \E x : result = Out(s, N(~x), Half(c, x))
    <3>1. PICK x : result = Out(s, N(~x), Half(c, x))
      BY <2>5
    <3> QED
      BY <1>4, <2>3, <3>1
  <2> QED
    BY <2>2, <2>4, <2>5
<1>7. CASE c.routing = "dim_order_ni_mesh"
  <2>1. result = Out(s, N(FALSE), DestVCs(c, s))
    BY <1>7 DEF Function, dim_order_ni_mesh, Asserted
  <2> HIDE DEF N
  <2> QED
    BY <1>3, <1>4, <2>1
<1>8. CASE c.routing = "dim_order_pni_mesh"
  <2> DEFINE vcs == IF s.at = s.dest THEN VCs(c) ELSE Block(c, Digit(s.dest, c.k, N(FALSE) \div 2), c.k)
  <2>1. result = Out(s, N(FALSE), vcs)
    BY <1>8 DEF Function, dim_order_pni_mesh, Asserted
  <2> HIDE DEF N, vcs
  <2> QED
    BY <1>3, <1>4, <2>1
<1>9. CASE c.routing = "min_adapt_mesh"
  <2> DEFINE escape == {N(FALSE)} \X (0 .. c.first)
             adaptive == ports \X (c.first + 1 .. c.last)
             free == (IF Injected(c, s) THEN c.last ELSE s.vc) # c.first
             o == [ph |-> s.ph, intm |-> s.intm, outs |-> escape \cup (IF free THEN adaptive ELSE {})]
  <2>1. result = Out(s, Eject(c), VCs(c)) \/ result = o
    BY <1>9 DEF Function, min_adapt_mesh
  <2>2. CASE result = o
    <3>1. \A out \in o.outs : out \in escape \/ out \in adaptive
      OBVIOUS
    <3> HIDE DEF o, N, ports
    <3>2. \A out \in o.outs : out[1] = N(FALSE) \/ out[1] \in ports
      BY <3>1
    <3> QED
      BY <1>2, <1>3, <2>2, <3>2, StraightSteers
  <2> QED
    BY <1>2, <1>4, <2>1, <2>2
<1>10. CASE c.routing = "chaos_mesh"
  <2> DEFINE to == IF s.at = s.dest THEN {Eject(c)} ELSE ports
             o == [ph |-> s.ph, intm |-> s.intm, outs |-> to \X {0}]
  <2>1. result = o
    BY <1>10 DEF Function, chaos_mesh
  <2>2. \A out \in o.outs : out[1] \in to
    OBVIOUS
  <2>3. \A p \in to : p = Eject(c) \/ p \in ports
    OBVIOUS
  <2> HIDE DEF o, to, ports
  <2>4. \A out \in o.outs : Goes(c, s.at, s.dest, out[1])
    BY <1>2, <2>2, <2>3
  <2> QED
    BY <2>1, <2>4, StraightSteers
<1> QED
  BY <1>5, <1>6, <1>7, <1>8, <1>9, <1>10 DEF Straight

LEMMA PhasedSteers ==
  ASSUME NEW c, Cubic(c), NEW s, OnWay(c, s), c.routing \in TwoPhases,
         NEW choices, choices # {}, choices \subseteq Nodes(c), NEW t \in Phased(c, s, choices), NEW vcs
  PROVE  Steers(c, s, Out(t, dor_next_mesh(c, t.at, Goal(t), FALSE), vcs))
<1> DEFINE port == dor_next_mesh(c, t.at, Goal(t), FALSE)
           o == Out(t, port, vcs)
<1>1. /\ t.at = s.at /\ t.dest = s.dest /\ t.ph \in {0, 1} /\ t.intm \in KNCubeRouters(c)
      /\ s.at \in KNCubeRouters(c) /\ s.dest \in KNCubeRouters(c)
  BY PhasedIs, FlitIs
<1>2. o.ph = t.ph /\ o.intm = t.intm /\ \A out \in o.outs : out[1] = port
  <2>1. o.ph = t.ph /\ o.intm = t.intm
    BY DEF Out
  <2> QED
    BY <2>1, OutGoes
<1>3. Goal(t) = Aim(c, s, o) /\ Goal(t) \in KNCubeRouters(c)
  BY <1>1, <1>2 DEF Goal, Aim
<1>4. Goes(c, s.at, Goal(t), port)
  BY <1>1, <1>3, DorGoes
<1>5. s.in # Eject(c) => t.intm = s.intm /\ (t.ph = s.ph \/ (s.ph = 0 /\ t.ph = 1 /\ s.at = s.intm))
  <2> SUFFICES ASSUME s.in # Eject(c) PROVE t.intm = s.intm /\ (t.ph = s.ph \/ (s.ph = 0 /\ t.ph = 1 /\ s.at = s.intm))
    OBVIOUS
  <2>1. t = [s EXCEPT !.ph = IF s.ph = 0 /\ s.at = s.intm THEN 1 ELSE s.ph]
    BY DEF Phased, Injected
  <2>2. s \in CubeFlits(c)
    BY DEF OnWay
  <2> QED
    BY <2>1, <2>2 DEF CubeFlits
<1> HIDE DEF o, port
<1>6. Steers(c, s, o)
  BY <1>2, <1>3, <1>4, <1>5 DEF Steers
<1> QED
  BY <1>6 DEF o, port

LEMMA TwoPhaseFunctions ==
  ASSUME NEW c, Cubic(c), c.routing \in TwoPhases, c.routing \in Eights => c.k = 8 /\ c.n = 2,
         NEW s, OnWay(c, s), NEW result \in Function(c, s)
  PROVE  Steers(c, s, result)
<1> DEFINE near == rand_min_intr_mesh(c, s.at, s.dest)
           next(t) == dor_next_mesh(c, t.at, Goal(t), FALSE)
<1>1. near # {} /\ near \subseteq Nodes(c) /\ Nodes(c) # {} /\ Below(powi(c.k, c.n)) = Nodes(c)
  BY MinimalChoices, FlitIs DEF KNCubeRouters
<1>2. \E choices \in SUBSET Nodes(c) :
        choices # {} /\ \E t \in Phased(c, s, choices), vcs \in {DestVCs(c, s)} \cup {PhaseVCs(c, u) : u \in Phased(c, s, choices)} :
                          result = Out(t, next(t), vcs)
  <2>1. CASE c.routing = "romm_mesh"
    <3>1. \E t \in Phased(c, s, near) : result = Out(t, next(t), PhaseVCs(c, t))
      BY <2>1 DEF Function, romm_mesh, TwoPhase, Asserted
    <3> HIDE DEF near, next
    <3> QED
      BY <1>1, <3>1
  <2>2. CASE c.routing = "valiant_mesh"
    <3>1. \E t \in Phased(c, s, Nodes(c)) : result = Out(t, next(t), PhaseVCs(c, t))
      BY <1>1, <2>2 DEF Function, valiant_mesh, TwoPhase, Asserted
    <3> HIDE DEF near, next
    <3> QED
      BY <1>1, <3>1
  <2>3. CASE c.routing = "romm_ni_mesh"
    <3>1. \E t \in Phased(c, s, near) : result = Out(t, next(t), DestVCs(c, s))
      BY <2>3 DEF Function, romm_ni_mesh, Asserted
    <3> HIDE DEF near, next
    <3> QED
      BY <1>1, <3>1
  <2>4. CASE c.routing \in Eights
    <3>1. PICK choices \in SUBSET Nodes(c) : choices # {} /\ Function(c, s) = TwoPhase(c, s, choices)
      BY <2>4, EightDraws
    <3>2. \E t \in Phased(c, s, choices) : result = Out(t, next(t), PhaseVCs(c, t))
      BY <3>1 DEF TwoPhase, Asserted
    <3> HIDE DEF next
    <3> QED
      BY <3>1, <3>2
  <2> QED
    BY <2>1, <2>2, <2>3, <2>4 DEF TwoPhases
<1> HIDE DEF near, next
<1>3. PICK choices \in SUBSET Nodes(c) :
        choices # {} /\ \E t \in Phased(c, s, choices), vcs \in {DestVCs(c, s)} \cup {PhaseVCs(c, u) : u \in Phased(c, s, choices)} :
                          result = Out(t, next(t), vcs)
  BY <1>2
<1>4. PICK t \in Phased(c, s, choices) : \E vcs : result = Out(t, next(t), vcs)
  BY <1>3
<1>5. PICK vcs : result = Out(t, next(t), vcs)
  BY <1>4
<1> QED
  BY <1>3, <1>5, PhasedSteers DEF next


(* The hops a flit has left, once it has drawn its intermediate node. *)
Left(c, s) == IF c.routing \in TwoPhases /\ s.ph = 0 THEN Way(c, s.at, s.intm) + Way(c, s.intm, s.dest)
              ELSE Way(c, s.at, s.dest)
Draws(c, s) == c.routing \in TwoPhases /\ s.in = Eject(c)
Shortens(c) == c.routing \in Straight \cup TwoPhases

LEMMA WayNone ==
  ASSUME NEW c, CubeSized(c), NEW r \in KNCubeRouters(c)
  PROVE  Way(c, r, r) = 0
<1>1. Summable(Ways(c, r, r), Below(c.n))
  BY WayType
<1>2. \A d \in Below(c.n) : Ways(c, r, r)[d] = 0
  <2>1. \A d \in Below(c.n) : Digit(r, c.k, d) \in Int
    BY WayType DEF Below
  <2> QED
    BY <2>1 DEF Ways, Apart
<1>3. Cardinality(Below(c.n)) \in Nat
  BY <1>1, FS_CardinalityType DEF Summable
<1>4. 0 \in Int
  OBVIOUS
<1>5. Way(c, r, r) = Cardinality(Below(c.n)) * 0
  BY <1>1, <1>2, <1>4, SumConstant DEF Way
<1> QED
  BY <1>3, <1>5

(* A hop by a port that goes toward a node is one less to it. *)
LEMMA HopNearer ==
  ASSUME NEW c \in Configs, Cubic(c), NEW r \in KNCubeRouters(c), NEW goal \in KNCubeRouters(c),
         NEW port, port # Eject(c), Goes(c, r, goal, port), NEW place \in Built[c].sinks[Built[c].out[r][port]]
  PROVE  place.at \in KNCubeRouters(c) /\ Way(c, place.at, goal) = Way(c, r, goal) - 1
<1>1. PICK d \in Unmatched(c, r, goal) : port = Toward(c, r, goal, d)
  BY DEF Goes
<1>2. CubeSized(c) /\ d \in Below(c.n)
  BY DEF Cubic, Unmatched
<1>3. place.at = IF Digit(r, c.k, d) < Digit(goal, c.k, d) THEN RightNode(c, r, d) ELSE LeftNode(c, r, d)
  BY <1>1, <1>2, CubeBehind DEF Toward
<1> DEFINE next == place.at
<1> HIDE DEF next
<1>4. next = IF Digit(r, c.k, d) < Digit(goal, c.k, d) THEN RightNode(c, r, d) ELSE LeftNode(c, r, d)
  BY <1>3 DEF next
<1>5. next \in KNCubeRouters(c) /\ Way(c, next, goal) = Way(c, r, goal) - 1
  BY <1>2, <1>4, WayLess
<1> QED
  BY <1>5 DEF next

LEMMA LeftType ==
  ASSUME NEW c, Cubic(c), NEW s, OnWay(c, s), ~Draws(c, s)
  PROVE  Left(c, s) \in Nat
<1>1. CubeSized(c) /\ s.at \in KNCubeRouters(c) /\ s.dest \in KNCubeRouters(c)
  BY FlitIs DEF Cubic
<1>2. Way(c, s.at, s.dest) \in Nat
  BY <1>1, WayType
<1>3. CASE c.routing \in TwoPhases
  <2>1. s.intm \in KNCubeRouters(c)
    BY <1>3, FlitIs DEF Draws, Begun
  <2>2. Way(c, s.at, s.intm) \in Nat /\ Way(c, s.intm, s.dest) \in Nat
    BY <1>1, <2>1, WayType
  <2> QED
    BY <1>2, <2>2 DEF Left
<1> QED
  BY <1>2, <1>3 DEF Left

Nearer(c) == Left(c, flit') = Left(c, flit) - 1
LEMMA ShorterNext ==
  ASSUME Carried, [Next]_vars, CubeRouted(config), Guided(config), Shortens(config), ~Draws(config, flit), flit' # flit
  PROVE  Nearer(config)
<1> DEFINE c == config
<1>1. Next /\ c \in Configs /\ OnWay(c, flit) /\ Cubic(c) /\ Guides(c)
  BY DEF vars, Carried, Known, Guided
<1>2. flit.at \in KNCubeRouters(c) /\ flit.dest \in KNCubeRouters(c) /\ flit.vc \in VCs(c) /\ CubeSized(c)
      /\ KNCubeRouters(c) = Nodes(c)
  BY <1>1, FlitIs DEF Cubic
<1>3. PICK result \in Function(c, flit) : \E out \in result.outs :
        LET link == LinkOf(c, flit, out[1]) IN Hop(result, out, link) \/ Leave(link)
  BY <1>1, <1>2 DEF Next, Route
<1>4. PICK out \in result.outs : LET link == LinkOf(c, flit, out[1]) IN Hop(result, out, link) \/ Leave(link)
  BY <1>3
<1> DEFINE link == Built[c].out[flit.at][out[1]]
<1>5. Hop(result, out, link)
  BY <1>4 DEF LinkOf, Leave
<1>6. ~Ejects(link) /\ \E place \in Built[c].sinks[link] : flit' = Moved(flit, result, place, out[2])
  BY <1>5 DEF Hop
<1>7. PICK place \in Built[c].sinks[link] : flit' = Moved(flit, result, place, out[2])
  BY <1>6
<1>8. Steers(c, flit, result)
  <2>1. c.routing \in Eights => c.k = 8 /\ c.n = 2
    BY DEF CubeRouted, Enough, Halving, Eights
  <2> QED
    BY <1>1, <2>1, StraightFunctions, TwoPhaseFunctions DEF Shortens
<1>9. out[1] # Eject(c)
  <2>1. Built[c].out[flit.at][Eject(c)] = NodeLink(flit.at)
    BY <1>1, <1>2, CubeLinks
  <2>2. Ejects(NodeLink(flit.at))
    BY DEF Ejects, NodeLink
  <2> QED
    BY <1>6, <2>1, <2>2
<1> DEFINE aim == Aim(c, flit, result)
           next == place.at
<1>10. aim \in KNCubeRouters(c)
  <2>1. Leads(c, flit, result)
    BY <1>1 DEF Guides
  <2>2. c.routing \in TwoPhases => result.intm \in KNCubeRouters(c)
    BY <1>2, <1>4, <1>9, <2>1 DEF Leads, Begun
  <2> QED
    BY <1>2, <2>2 DEF Aim
<1>11. next \in KNCubeRouters(c) /\ Way(c, next, aim) = Way(c, flit.at, aim) - 1
  <2>1. Goes(c, flit.at, aim, out[1])
    BY <1>8 DEF Steers
  <2> HIDE DEF aim, c
  <2>2. DEFINE port == out[1]
  <2> HIDE DEF port
  <2>3. Goes(c, flit.at, aim, port) /\ port # Eject(c) /\ place \in Built[c].sinks[Built[c].out[flit.at][port]]
    BY <1>7, <1>9, <2>1 DEF port
  <2> QED
    BY <1>1, <1>2, <1>10, <2>3, HopNearer
<1>12. flit'.at = next /\ flit'.dest = flit.dest /\ flit'.ph = result.ph /\ flit'.intm = result.intm
  <2>1. flit \in CubeFlits(c)
    BY <1>1 DEF OnWay
  <2> QED
    BY <1>7, <2>1 DEF Moved, CubeFlits
<1>13. CASE c.routing \notin TwoPhases
  <2>1. aim = flit.dest /\ Left(c, flit) = Way(c, flit.at, flit.dest) /\ Left(c, flit') = Way(c, next, flit.dest)
    BY <1>12, <1>13 DEF Left, Aim
  <2> QED
    BY <1>11, <2>1 DEF Nearer
<1>14. CASE c.routing \in TwoPhases
  <2>1. /\ flit.in # Eject(c) /\ flit.ph \in {0, 1} /\ flit.intm \in KNCubeRouters(c) /\ result.intm = flit.intm
        /\ result.ph = flit.ph \/ (flit.ph = 0 /\ result.ph = 1 /\ flit.at = flit.intm)
    BY <1>1, <1>2, <1>8, <1>14 DEF Draws, Steers, OnWay, Begun
  <2>2. Way(c, flit.intm, flit.dest) \in Nat /\ Way(c, flit.at, flit.intm) \in Nat /\ Way(c, flit.at, flit.dest) \in Nat
    BY <1>2, <2>1, WayType
  <2>3. CASE flit.ph = 0 /\ result.ph = 0
    <3>1. aim = flit.intm
      BY <1>14, <2>1, <2>3 DEF Aim
    <3>2. /\ Left(c, flit) = Way(c, flit.at, flit.intm) + Way(c, flit.intm, flit.dest)
          /\ Left(c, flit') = Way(c, next, flit.intm) + Way(c, flit.intm, flit.dest)
      BY <1>12, <1>14, <2>1, <2>3 DEF Left
    <3>3. Way(c, next, flit.intm) = Way(c, flit.at, flit.intm) - 1
      BY <1>11, <3>1
    <3> HIDE DEF next, c
    <3> QED
      BY <2>2, <3>2, <3>3 DEF Nearer, c
  <2>4. CASE result.ph = 1
    <3>1. aim = flit.dest /\ Left(c, flit') = Way(c, next, flit.dest)
      BY <1>12, <1>14, <2>4 DEF Aim, Left
    <3>2. Left(c, flit) = Way(c, flit.at, flit.dest)
      <4>1. CASE flit.ph = 1
        BY <4>1 DEF Left
      <4>2. CASE flit.ph = 0
        <5>1. flit.at = flit.intm
          BY <2>1, <2>4, <4>2
        <5>2. Way(c, flit.at, flit.intm) = 0
          BY <1>2, <5>1, WayNone
        <5>3. Left(c, flit) = Way(c, flit.at, flit.intm) + Way(c, flit.intm, flit.dest)
          BY <1>14, <4>2 DEF Left
        <5> QED
          BY <2>2, <5>1, <5>2, <5>3
      <4> QED
        BY <2>1, <4>1, <4>2
    <3> QED
      BY <1>11, <3>1, <3>2 DEF Nearer
  <2> QED
    BY <2>1, <2>3, <2>4
<1> QED
  BY <1>13, <1>14

(* Every hop of these functions is one of those the flit had left, so that *)
(* none goes on for ever: in an order of dimensions, by any minimal        *)
(* direction, or by way of an intermediate node.                           *)
THEOREM CubesShorten == Spec => [][CubeRouted(config) /\ Shortens(config) /\ ~Draws(config, flit) /\ flit' # flit
                                     => Left(config, flit) \in Nat /\ Nearer(config)]_vars
<1> DEFINE Step == CubeRouted(config) /\ Shortens(config) /\ ~Draws(config, flit) /\ flit' # flit
                     => Left(config, flit) \in Nat /\ Nearer(config)
<1>1. Carried /\ [Next]_vars => [Step]_vars
  <2> SUFFICES ASSUME Carried, [Next]_vars, CubeRouted(config), Shortens(config), ~Draws(config, flit), flit' # flit
               PROVE  Left(config, flit) \in Nat /\ Nearer(config)
    OBVIOUS
  <2>1. Guided(config)
    BY EnoughGuides, EnoughInjects DEF CubeRouted, Guided
  <2>2. OnWay(config, flit) /\ Cubic(config)
    BY <2>1 DEF Carried, Guided
  <2> QED
    BY <2>1, <2>2, LeftType, ShorterNext
<1> QED
  BY <1>1, CarriedInit, CarriedNext, PTL DEF Spec

=============================================================================
