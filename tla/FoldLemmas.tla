----------------------------- MODULE FoldLemmas -----------------------------
(***************************************************************************)
(* Folds over finite sets and sums over finite sets of indices, as the     *)
(* community modules define them by a function on the subsets: that such a *)
(* function exists, and the laws of sums which the proofs about shared     *)
(* buffers need.  Then iteration: functions on 0 .. n each value of which  *)
(* is computed from the one before.  The library's induction theorems take *)
(* an operator, which no backend instantiates; each induction here picks a *)
(* minimal counterexample instead.                                         *)
(***************************************************************************)
EXTENDS Integers, FiniteSetsExt, Functions, FiniteSetTheorems, WellFoundedInduction, TLAPS

(* A family of subsets of a finite set has a minimal member. *)
LEMMA MinimalSubset ==
  ASSUME NEW S, IsFiniteSet(S), NEW Bad, Bad \subseteq SUBSET S, Bad # {}
  PROVE  \E T \in Bad : \A U \in Bad : U \subseteq T => U = T
<1>1. IsWellFoundedOn(StrictSubsetOrdering(S), FiniteSubsetsOf(S))
  BY FS_StrictSubsetOrderingWellFounded
<1>2. Bad \subseteq FiniteSubsetsOf(S)
  BY FS_Subset DEF FiniteSubsetsOf
<1>3. PICK T \in Bad : \A U \in Bad : ~ (<<U, T>> \in StrictSubsetOrdering(S))
  BY <1>1, <1>2, WFMin
<1>4. QED
  BY <1>3 DEF StrictSubsetOrdering

(* The element that a fold takes next. *)
Pick(s) == CHOOSE x \in s : TRUE

(* The fold takes a member. *)
LEMMA Picked == \A s : s # {} => Pick(s) \in s
BY DEF Pick

(* g holds the folds of the function F over all subsets of S, from b on. *)
IsFold(g, S, F, b) ==
  \A s \in SUBSET S : g[s] = IF s = {} THEN b ELSE F[<<Pick(s), g[s \ {Pick(s)}]>>]

(* Two such functions agree where both are defined. *)
LEMMA FoldUnique ==
  ASSUME NEW S, IsFiniteSet(S), NEW U \in SUBSET S, NEW V \in SUBSET S,
         NEW F, NEW b, NEW g, NEW h, IsFold(g, U, F, b), IsFold(h, V, F, b)
  PROVE  \A s \in SUBSET (U \cap V) : g[s] = h[s]
<1> DEFINE Bad == {s \in SUBSET (U \cap V) : g[s] # h[s]}
<1> SUFFICES ASSUME Bad # {} PROVE FALSE
  OBVIOUS
<1>1. PICK s \in Bad : \A r \in Bad : r \subseteq s => r = s
  <2>1. Bad \subseteq SUBSET S /\ Bad # {}
    OBVIOUS
  <2> HIDE DEF Bad
  <2>2. QED
    BY <2>1, MinimalSubset
<1>2. s \in SUBSET U /\ s \in SUBSET V /\ g[s] # h[s]
  OBVIOUS
<1>3. s # {}
  BY <1>2 DEF IsFold
<1>4. Pick(s) \in s
  BY <1>3, Picked
<1>5. g[s \ {Pick(s)}] = h[s \ {Pick(s)}]
  <2>1. s \ {Pick(s)} \notin Bad
    BY <1>1, <1>4
  <2>2. QED
    BY <2>1
<1>6. g[s] = F[<<Pick(s), g[s \ {Pick(s)}]>>] /\ h[s] = F[<<Pick(s), h[s \ {Pick(s)}]>>]
  BY <1>2, <1>3 DEF IsFold
<1>7. QED
  BY <1>2, <1>5, <1>6

(* The function of the folds over the subsets of a finite set exists. *)
LEMMA FoldExists ==
  ASSUME NEW S, IsFiniteSet(S), NEW R, NEW b \in R, NEW F \in [S \X R -> R]
  PROVE  \E g \in [SUBSET S -> R] : IsFold(g, S, F, b)
<1> DEFINE Has(T) == \E g \in [SUBSET T -> R] : IsFold(g, T, F, b)
           Bad == {T \in SUBSET S : ~Has(T)}
<1> SUFFICES ASSUME Bad # {} PROVE FALSE
  OBVIOUS
<1>1. PICK T \in Bad : \A U \in Bad : U \subseteq T => U = T
  <2>1. Bad \subseteq SUBSET S /\ Bad # {}
    OBVIOUS
  <2> HIDE DEF Bad
  <2>2. QED
    BY <2>1, MinimalSubset
<1> DEFINE G(x) == CHOOSE g \in [SUBSET (T \ {x}) -> R] : IsFold(g, T \ {x}, F, b)
           h == [s \in SUBSET T |-> IF s = {} THEN b
                                    ELSE F[<<Pick(s), G(Pick(s))[s \ {Pick(s)}]>>]]
<1>2. \A x \in T : G(x) \in [SUBSET (T \ {x}) -> R] /\ IsFold(G(x), T \ {x}, F, b)
  <2> SUFFICES ASSUME NEW x \in T
               PROVE  G(x) \in [SUBSET (T \ {x}) -> R] /\ IsFold(G(x), T \ {x}, F, b)
    OBVIOUS
  <2>1. T \ {x} \in SUBSET S /\ T \ {x} \notin Bad
    BY <1>1
  <2>2. Has(T \ {x})
    BY <2>1
  <2>3. QED
    BY <2>2
<1> HIDE DEF G
<1>3. h \in [SUBSET T -> R]
  <2> SUFFICES ASSUME NEW s \in SUBSET T, s # {}
               PROVE  F[<<Pick(s), G(Pick(s))[s \ {Pick(s)}]>>] \in R
    OBVIOUS
  <2>1. Pick(s) \in s /\ Pick(s) \in T /\ Pick(s) \in S
    BY Picked
  <2>2. s \ {Pick(s)} \in SUBSET (T \ {Pick(s)}) /\ G(Pick(s)) \in [SUBSET (T \ {Pick(s)}) -> R]
    BY <1>2, <2>1
  <2>3. QED
    BY <2>1, <2>2
<1>4. IsFold(h, T, F, b)
  <2> SUFFICES ASSUME NEW s \in SUBSET T
               PROVE  h[s] = IF s = {} THEN b ELSE F[<<Pick(s), h[s \ {Pick(s)}]>>]
    BY DEF IsFold
  <2>1. CASE s = {}
    BY <2>1
  <2>2. CASE s # {}
    <3> DEFINE x == Pick(s)
               r == s \ {x}
               y == Pick(r)
    <3>1. x \in s /\ x \in T /\ r \in SUBSET T /\ r \in SUBSET (T \ {x})
      BY <2>2, Picked
    <3>2. h[s] = F[<<x, G(x)[r]>>]
      BY <2>2
    <3>3. h[r] = G(x)[r]
      <4>1. IsFold(G(x), T \ {x}, F, b)
        BY <1>2, <3>1
      <4>2. CASE r = {}
        <5>1. G(x)[r] = b
          BY <4>1, <4>2, <3>1 DEF IsFold
        <5>2. QED
          BY <3>1, <4>2, <5>1
      <4>3. CASE r # {}
        <5>1. y \in r /\ y \in T
          BY <4>3, <3>1, Picked
        <5>2. h[r] = F[<<y, G(y)[r \ {y}]>>]
          BY <3>1, <4>3
        <5>3. G(x)[r] = F[<<y, G(x)[r \ {y}]>>]
          BY <4>1, <4>3, <3>1 DEF IsFold
        <5>4. G(x)[r \ {y}] = G(y)[r \ {y}]
          <6>1. IsFold(G(y), T \ {y}, F, b)
            BY <1>2, <5>1
          <6>2. r \ {y} \in SUBSET ((T \ {x}) \cap (T \ {y}))
            BY <3>1
          <6>3. T \ {x} \in SUBSET S /\ T \ {y} \in SUBSET S
            OBVIOUS
          <6> HIDE DEF x, y, r
          <6>4. \A z \in SUBSET ((T \ {x}) \cap (T \ {y})) : G(x)[z] = G(y)[z]
            BY <4>1, <6>1, <6>3, FoldUnique
          <6>5. QED
            BY <6>2, <6>4
        <5>5. QED
          BY <5>2, <5>3, <5>4
      <4>4. QED
        BY <4>2, <4>3
    <3>4. QED
      BY <2>2, <3>2, <3>3
  <2>3. QED
    BY <2>1, <2>2
<1>5. Has(T)
  BY <1>3, <1>4
<1>6. QED
  BY <1>5

-----------------------------------------------------------------------------
(* Sums of f[x] over the members x of a finite set.                        *)
Sum(f, S) == SumFunctionOnSet(f, S)
Summable(f, S) == IsFiniteSet(S) /\ \A x \in S : f[x] \in Int
AddTo(f, S) == [z \in S \X Int |-> f[z[1]] + z[2]]

(* The function a sum is read off is the fold of AddTo. *)
LEMMA SumIsFold ==
  ASSUME NEW f, NEW S, Summable(f, S)
  PROVE  \E g \in [SUBSET S -> Int] : IsFold(g, S, AddTo(f, S), 0) /\ Sum(f, S) = g[S]
<1> DEFINE step(s, r) == IF s = {} THEN 0 ELSE f[Pick(s)] + r[s \ {Pick(s)}]
           iter == CHOOSE r : r = [s \in SUBSET S |-> step(s, r)]
<1>1. Sum(f, S) = iter[S]
  BY DEF Sum, SumFunctionOnSet, FoldFunctionOnSet, MapThenFoldSet, Pick
<1>2. AddTo(f, S) \in [S \X Int -> Int]
  BY DEF AddTo, Summable
<1>3. PICK g \in [SUBSET S -> Int] : IsFold(g, S, AddTo(f, S), 0)
  <2>1. IsFiniteSet(S) /\ 0 \in Int
    BY DEF Summable
  <2>2. QED
    BY <1>2, <2>1, FoldExists
<1>4. \A r \in [SUBSET S -> Int], s \in SUBSET S :
         s # {} => /\ AddTo(f, S)[<<Pick(s), r[s \ {Pick(s)}]>>] = f[Pick(s)] + r[s \ {Pick(s)}]
                   /\ f[Pick(s)] + r[s \ {Pick(s)}] \in Int
  <2> SUFFICES ASSUME NEW r \in [SUBSET S -> Int], NEW s \in SUBSET S, s # {}
               PROVE  /\ AddTo(f, S)[<<Pick(s), r[s \ {Pick(s)}]>>] = f[Pick(s)] + r[s \ {Pick(s)}]
                      /\ f[Pick(s)] + r[s \ {Pick(s)}] \in Int
    OBVIOUS
  <2>1. Pick(s) \in S
    BY Picked
  <2>2. r[s \ {Pick(s)}] \in Int
    OBVIOUS
  <2>3. QED
    BY <2>1, <2>2 DEF AddTo, Summable
<1>5. g = [s \in SUBSET S |-> step(s, g)]
  <2>1. \A s \in SUBSET S : g[s] = step(s, g)
    BY <1>3, <1>4 DEF IsFold
  <2> HIDE DEF step
  <2>2. QED
    BY <2>1
<1>6. iter = [s \in SUBSET S |-> step(s, iter)]
  <2> HIDE DEF step
  <2>1. QED
    BY <1>5
<1>7. iter[S] = g[S]
  <2> DEFINE Bad == {s \in SUBSET S : iter[s] # g[s]}
  <2> SUFFICES Bad = {}
    OBVIOUS
  <2> SUFFICES ASSUME Bad # {} PROVE FALSE
    OBVIOUS
  <2>1. IsFiniteSet(S) /\ Bad \subseteq SUBSET S
    BY DEF Summable
  <2>2. PICK s \in Bad : \A r \in Bad : r \subseteq s => r = s
    <3> HIDE DEF Bad
    <3>1. QED
      BY <2>1, MinimalSubset
  <2>3. s \in SUBSET S /\ iter[s] # g[s]
    OBVIOUS
  <2>4. iter[s] = step(s, iter) /\ g[s] = step(s, g)
    <3> HIDE DEF step, iter
    <3>1. QED
      BY <1>5, <1>6, <2>3
  <2>5. s # {}
    BY <2>3, <2>4
  <2>6. iter[s \ {Pick(s)}] = g[s \ {Pick(s)}]
    <3>1. s \ {Pick(s)} \in SUBSET S /\ ~(s \subseteq s \ {Pick(s)})
      BY <2>3, <2>5, Picked
    <3> HIDE DEF iter
    <3>2. QED
      BY <2>2, <3>1
  <2> HIDE DEF iter
  <2>7. QED
    BY <2>3, <2>4, <2>5, <2>6
<1>8. QED
  BY <1>1, <1>3, <1>7

(* Sums over the subsets of a set are read off one function. *)
LEMMA SumOfSubset ==
  ASSUME NEW f, NEW S, Summable(f, S),
         NEW g \in [SUBSET S -> Int], IsFold(g, S, AddTo(f, S), 0), NEW T \in SUBSET S
  PROVE  Sum(f, T) = g[T]
<1>1. Summable(f, T)
  BY FS_Subset DEF Summable
<1>2. PICK h \in [SUBSET T -> Int] : IsFold(h, T, AddTo(f, T), 0) /\ Sum(f, T) = h[T]
  BY <1>1, SumIsFold
<1>3. IsFold(h, T, AddTo(f, S), 0)
  <2> SUFFICES ASSUME NEW s \in SUBSET T
               PROVE  h[s] = IF s = {} THEN 0 ELSE AddTo(f, S)[<<Pick(s), h[s \ {Pick(s)}]>>]
    BY DEF IsFold
  <2>1. h[s] = IF s = {} THEN 0 ELSE AddTo(f, T)[<<Pick(s), h[s \ {Pick(s)}]>>]
    BY <1>2 DEF IsFold
  <2>2. s # {} => Pick(s) \in T /\ Pick(s) \in S /\ h[s \ {Pick(s)}] \in Int
    BY Picked
  <2>3. QED
    BY <2>1, <2>2 DEF AddTo
<1>4. IsFiniteSet(S) /\ S \in SUBSET S /\ T \in SUBSET (T \cap S)
  BY DEF Summable
<1>5. QED
  BY <1>2, <1>3, <1>4, FoldUnique

(* The sum of nothing is 0. *)
LEMMA SumEmpty ==
  ASSUME NEW f
  PROVE  Sum(f, {}) = 0
<1>1. Summable(f, {})
  BY FS_EmptySet DEF Summable
<1>2. PICK g \in [SUBSET {} -> Int] : IsFold(g, {}, AddTo(f, {}), 0) /\ Sum(f, {}) = g[{}]
  BY <1>1, SumIsFold
<1>3. {} \in SUBSET {}
  OBVIOUS
<1>4. g[{}] = 0
  BY <1>2, <1>3 DEF IsFold
<1>5. QED
  BY <1>2, <1>4

(* A sum of integers is one. *)
LEMMA SumType ==
  ASSUME NEW f, NEW S, Summable(f, S)
  PROVE  Sum(f, S) \in Int
<1>1. PICK g \in [SUBSET S -> Int] : IsFold(g, S, AddTo(f, S), 0) /\ Sum(f, S) = g[S]
  BY SumIsFold
<1>2. g[S] \in Int
  OBVIOUS
<1>3. QED
  BY <1>1, <1>2

(* A sum adds the member that is taken to the sum of the rest ... *)
LEMMA SumPick ==
  ASSUME NEW f, NEW S, Summable(f, S), S # {}
  PROVE  Sum(f, S) = f[Pick(S)] + Sum(f, S \ {Pick(S)})
<1>1. PICK g \in [SUBSET S -> Int] : IsFold(g, S, AddTo(f, S), 0) /\ Sum(f, S) = g[S]
  BY SumIsFold
<1>2. S \ {Pick(S)} \in SUBSET S /\ Pick(S) \in S
  BY Picked
<1>3. Sum(f, S \ {Pick(S)}) = g[S \ {Pick(S)}]
  <2>1. \A T \in SUBSET S : Sum(f, T) = g[T]
    BY <1>1, SumOfSubset, SMTT(30)
  <2>2. QED
    BY <1>2, <2>1
<1>4. g[S] = AddTo(f, S)[<<Pick(S), g[S \ {Pick(S)}]>>]
  BY <1>1 DEF IsFold
<1>5. QED
  BY <1>1, <1>2, <1>3, <1>4 DEF AddTo

(* Any member may be taken out first. *)
LEMMA SumRemove ==
  ASSUME NEW f, NEW S, Summable(f, S), NEW e \in S
  PROVE  Sum(f, S) = f[e] + Sum(f, S \ {e})
<1> DEFINE Bad == {T \in SUBSET S : \E x \in T : Sum(f, T) # f[x] + Sum(f, T \ {x})}
<1> SUFFICES ASSUME Bad # {} PROVE FALSE
  OBVIOUS
<1>1. IsFiniteSet(S) /\ Bad \subseteq SUBSET S
  BY DEF Summable
<1>2. PICK T \in Bad : \A r \in Bad : r \subseteq T => r = T
  <2> HIDE DEF Bad
  <2>1. QED
    BY <1>1, MinimalSubset
<1>3. PICK x \in T : Sum(f, T) # f[x] + Sum(f, T \ {x})
  OBVIOUS
<1> DEFINE y == Pick(T)
<1>4. y \in T /\ T \in SUBSET S
  BY Picked
<1>5. \A r \in SUBSET T : Summable(f, r) /\ Sum(f, r) \in Int
  <2>1. \A r \in SUBSET T : Summable(f, r)
    BY <1>4, FS_Subset DEF Summable
  <2>2. QED
    BY <2>1, SumType
<1>6. Sum(f, T) = f[y] + Sum(f, T \ {y})
  BY <1>4, <1>5, SumPick
<1>7. x # y
  BY <1>3, <1>6
<1>8. \A r \in SUBSET T : r # T => \A z \in r : Sum(f, r) = f[z] + Sum(f, r \ {z})
  <2>1. \A r \in SUBSET T : r # T => r \notin Bad /\ r \in SUBSET S
    BY <1>2, <1>4
  <2>2. QED
    BY <2>1
<1> HIDE DEF y, Bad
<1>9. Sum(f, T \ {y}) = f[x] + Sum(f, (T \ {y}) \ {x})
  <2>1. T \ {y} \in SUBSET T /\ T \ {y} # T /\ x \in T \ {y}
    BY <1>3, <1>4, <1>7
  <2>2. QED
    BY <1>8, <2>1
<1>10. Sum(f, T \ {x}) = f[y] + Sum(f, (T \ {x}) \ {y})
  <2>1. T \ {x} \in SUBSET T /\ T \ {x} # T /\ y \in T \ {x}
    BY <1>3, <1>4, <1>7
  <2>2. QED
    BY <1>8, <2>1
<1>11. (T \ {y}) \ {x} = (T \ {x}) \ {y}
  OBVIOUS
<1>12. f[x] \in Int /\ f[y] \in Int /\ Sum(f, (T \ {x}) \ {y}) \in Int
  BY <1>4, <1>5 DEF Summable
<1>13. \A a, b, c \in Int : a + (b + c) = b + (a + c)
  OBVIOUS
<1>14. f[x] + Sum(f, T \ {x}) = f[x] + (f[y] + Sum(f, (T \ {x}) \ {y}))
  BY <1>10
<1>15. Sum(f, T) = f[y] + (f[x] + Sum(f, (T \ {x}) \ {y}))
  BY <1>6, <1>9, <1>11
<1>16. QED
  BY <1>3, <1>12, <1>13, <1>14, <1>15

(* Functions that agree have the same sum. *)
LEMMA SumEqual ==
  ASSUME NEW f, NEW g, NEW S, Summable(f, S), \A x \in S : g[x] = f[x]
  PROVE  Summable(g, S) /\ Sum(g, S) = Sum(f, S)
<1> DEFINE Bad == {T \in SUBSET S : Sum(g, T) # Sum(f, T)}
<1>s. Summable(g, S)
  BY DEF Summable
<1> SUFFICES ASSUME Bad # {} PROVE FALSE
  BY <1>s
<1>1. IsFiniteSet(S) /\ Bad \subseteq SUBSET S
  BY DEF Summable
<1>2. PICK T \in Bad : \A r \in Bad : r \subseteq T => r = T
  <2> HIDE DEF Bad
  <2>1. QED
    BY <1>1, MinimalSubset
<1>3. T \in SUBSET S /\ Sum(g, T) # Sum(f, T)
  OBVIOUS
<1>4. T # {}
  BY <1>3, SumEmpty
<1>5. Pick(T) \in T /\ Pick(T) \in S
  BY <1>3, <1>4, Picked
<1>6. Summable(f, T) /\ Summable(g, T)
  BY <1>3, <1>s, FS_Subset DEF Summable
<1>7. /\ Sum(f, T) = f[Pick(T)] + Sum(f, T \ {Pick(T)})
      /\ Sum(g, T) = g[Pick(T)] + Sum(g, T \ {Pick(T)})
  BY <1>4, <1>6, SumPick
<1>8. Sum(f, T \ {Pick(T)}) = Sum(g, T \ {Pick(T)})
  <2>1. T \ {Pick(T)} \in SUBSET S /\ T \ {Pick(T)} \notin Bad
    BY <1>2, <1>3, <1>5
  <2>2. QED
    BY <2>1
<1>9. QED
  BY <1>3, <1>5, <1>7, <1>8

(* One term changes. *)
DiffersAt(f, g, S, e) == /\ e \in S /\ Summable(f, S) /\ g[e] \in Int
                         /\ \A x \in S \ {e} : g[x] = f[x]

(* A sum changes as the only term that does. *)
LEMMA SumChange ==
  ASSUME NEW f, NEW g, NEW S, NEW e, DiffersAt(f, g, S, e)
  PROVE  Summable(g, S) /\ Sum(g, S) = Sum(f, S) - f[e] + g[e]
<1> USE DEF DiffersAt
<1>1. Summable(g, S) /\ Summable(f, S \ {e}) /\ f[e] \in Int
  BY FS_Subset DEF Summable
<1>2. Sum(g, S) = g[e] + Sum(g, S \ {e}) /\ Sum(f, S) = f[e] + Sum(f, S \ {e})
  BY <1>1, SumRemove
<1>3. Sum(g, S \ {e}) = Sum(f, S \ {e}) /\ Sum(f, S \ {e}) \in Int
  BY <1>1, SumEqual, SumType
<1>4. QED
  BY <1>1, <1>2, <1>3

(* Larger terms have a larger sum. *)
LEMMA SumAtMost ==
  ASSUME NEW f, NEW g, NEW S, Summable(f, S), Summable(g, S), \A x \in S : f[x] <= g[x]
  PROVE  Sum(f, S) <= Sum(g, S)
<1> DEFINE Bad == {T \in SUBSET S : ~(Sum(f, T) <= Sum(g, T))}
<1> SUFFICES ASSUME Bad # {} PROVE FALSE
  OBVIOUS
<1>1. IsFiniteSet(S) /\ Bad \subseteq SUBSET S
  BY DEF Summable
<1>2. PICK T \in Bad : \A r \in Bad : r \subseteq T => r = T
  <2> HIDE DEF Bad
  <2>1. QED
    BY <1>1, MinimalSubset
<1>3. T \in SUBSET S /\ ~(Sum(f, T) <= Sum(g, T))
  OBVIOUS
<1>4. T # {}
  BY <1>3, SumEmpty
<1>5. Pick(T) \in T /\ Pick(T) \in S
  BY <1>3, <1>4, Picked
<1> DEFINE r == T \ {Pick(T)}
<1>6. Summable(f, T) /\ Summable(g, T) /\ Summable(f, r) /\ Summable(g, r)
  BY <1>3, FS_Subset DEF Summable
<1>7. Sum(f, T) = f[Pick(T)] + Sum(f, r) /\ Sum(g, T) = g[Pick(T)] + Sum(g, r)
  BY <1>4, <1>6, SumPick
<1>8. Sum(f, r) <= Sum(g, r)
  <2>1. r \in SUBSET S /\ r \notin Bad
    BY <1>2, <1>3, <1>5
  <2>2. QED
    BY <2>1
<1> HIDE DEF r
<1>9. Sum(f, r) \in Int /\ Sum(g, r) \in Int /\ f[Pick(T)] \in Int /\ g[Pick(T)] \in Int
  BY <1>5, <1>6, SumType DEF Summable
<1>10. f[Pick(T)] <= g[Pick(T)]
  BY <1>5
<1>11. QED
  BY <1>3, <1>7, <1>8, <1>9, <1>10

(* The sum of the sums of two functions. *)
LEMMA SumAdd ==
  ASSUME NEW f, NEW g, NEW h, NEW S, Summable(f, S), Summable(g, S),
         \A x \in S : h[x] = f[x] + g[x]
  PROVE  Summable(h, S) /\ Sum(h, S) = Sum(f, S) + Sum(g, S)
<1> DEFINE Bad == {T \in SUBSET S : Sum(h, T) # Sum(f, T) + Sum(g, T)}
<1>s. Summable(h, S)
  BY DEF Summable
<1> SUFFICES ASSUME Bad # {} PROVE FALSE
  BY <1>s
<1>1. IsFiniteSet(S) /\ Bad \subseteq SUBSET S
  BY DEF Summable
<1>2. PICK T \in Bad : \A r \in Bad : r \subseteq T => r = T
  <2> HIDE DEF Bad
  <2>1. QED
    BY <1>1, MinimalSubset
<1>3. T \in SUBSET S /\ Sum(h, T) # Sum(f, T) + Sum(g, T)
  OBVIOUS
<1>4. T # {}
  BY <1>3, SumEmpty
<1> DEFINE x == Pick(T)
           r == T \ {x}
<1>5. x \in T /\ x \in S /\ r \in SUBSET S
  BY <1>3, <1>4, Picked
<1>6. \A U \in SUBSET S : Summable(f, U) /\ Summable(g, U) /\ Summable(h, U)
  BY <1>s, FS_Subset DEF Summable
<1>7. /\ Sum(f, T) = f[x] + Sum(f, r) /\ Sum(g, T) = g[x] + Sum(g, r)
      /\ Sum(h, T) = h[x] + Sum(h, r)
  BY <1>3, <1>4, <1>6, SumPick
<1>8. Sum(h, r) = Sum(f, r) + Sum(g, r)
  <2>1. r \notin Bad
    BY <1>2, <1>3, <1>5
  <2>2. QED
    BY <1>5, <2>1
<1>9. Sum(f, r) \in Int /\ Sum(g, r) \in Int /\ f[x] \in Int /\ g[x] \in Int
  <2>1. f[x] \in Int /\ g[x] \in Int
    BY <1>5 DEF Summable
  <2>2. Sum(f, r) \in Int /\ Sum(g, r) \in Int
    BY <1>5, <1>6, SumType
  <2>3. QED
    BY <2>1, <2>2
<1>10. h[x] = f[x] + g[x]
  BY <1>5
<1>11. \A a, b, c, d \in Int : (a + b) + (c + d) = (a + c) + (b + d)
  OBVIOUS
<1> HIDE DEF x, r, Bad
<1>12. QED
  BY <1>3, <1>7, <1>8, <1>9, <1>10, <1>11

(* Equal terms. *)
LEMMA SumConstant ==
  ASSUME NEW f, NEW S, Summable(f, S), NEW k \in Int, \A x \in S : f[x] = k
  PROVE  Sum(f, S) = Cardinality(S) * k
<1> DEFINE Bad == {T \in SUBSET S : Sum(f, T) # Cardinality(T) * k}
<1> SUFFICES ASSUME Bad # {} PROVE FALSE
  OBVIOUS
<1>1. IsFiniteSet(S) /\ Bad \subseteq SUBSET S
  BY DEF Summable
<1>2. PICK T \in Bad : \A r \in Bad : r \subseteq T => r = T
  <2> HIDE DEF Bad
  <2>1. QED
    BY <1>1, MinimalSubset
<1>3. T \in SUBSET S /\ Sum(f, T) # Cardinality(T) * k
  OBVIOUS
<1>4. T # {}
  <2>1. Cardinality({}) * k = 0
    BY FS_EmptySet
  <2>2. QED
    BY <1>3, <2>1, SumEmpty
<1>5. Pick(T) \in T /\ Pick(T) \in S
  BY <1>3, <1>4, Picked
<1> DEFINE r == T \ {Pick(T)}
<1>6. Summable(f, T) /\ IsFiniteSet(T)
  BY <1>3, FS_Subset DEF Summable
<1>7. Sum(f, T) = k + Sum(f, r)
  BY <1>4, <1>5, <1>6, SumPick
<1>8. Sum(f, r) = Cardinality(r) * k
  <2>1. r \in SUBSET S /\ r \notin Bad
    BY <1>2, <1>3, <1>5
  <2>2. QED
    BY <2>1
<1>9. Cardinality(r) = Cardinality(T) - 1 /\ Cardinality(T) \in Nat
  BY <1>5, <1>6, FS_RemoveElement, FS_CardinalityType
<1> HIDE DEF r
<1>10. \A n \in Nat : k + (n - 1) * k = n * k
  OBVIOUS
<1>11. QED
  BY <1>3, <1>7, <1>8, <1>9, <1>10

(* The terms of a subset become smaller by one. *)
LEMMA SumLess ==
  ASSUME NEW f, NEW S, Summable(f, S), NEW c \in SUBSET S
  PROVE  LET g == [x \in S |-> IF x \in c THEN f[x] - 1 ELSE f[x]]
         IN  Summable(g, S) /\ Sum(g, S) = Sum(f, S) - Cardinality(c)
<1> DEFINE less(T) == [x \in S |-> IF x \in T THEN f[x] - 1 ELSE f[x]]
           Bad == {T \in SUBSET S : Sum(less(T), S) # Sum(f, S) - Cardinality(T)}
<1>s. \A T : Summable(less(T), S)
  BY DEF Summable
<1> SUFFICES ASSUME Bad # {} PROVE FALSE
  BY <1>s
<1>1. IsFiniteSet(S) /\ Bad \subseteq SUBSET S /\ Sum(f, S) \in Int
  BY SumType DEF Summable
<1>2. PICK T \in Bad : \A r \in Bad : r \subseteq T => r = T
  <2> HIDE DEF Bad
  <2>1. QED
    BY <1>1, MinimalSubset
<1>3. T \in SUBSET S /\ Sum(less(T), S) # Sum(f, S) - Cardinality(T)
  OBVIOUS
<1>4. T # {}
  <2>1. Cardinality({}) = 0
    BY FS_EmptySet
  <2>2. \A x \in S : less({})[x] = f[x]
    OBVIOUS
  <2> HIDE DEF less
  <2>3. Sum(less({}), S) = Sum(f, S)
    BY <2>2, SumEqual
  <2>4. QED
    BY <1>1, <1>3, <2>1, <2>3
<1> DEFINE x == Pick(T)
           r == T \ {x}
<1>5. x \in T /\ x \in S /\ r \in SUBSET S
  BY <1>3, <1>4, Picked
<1>6. Sum(less(r), S) = Sum(f, S) - Cardinality(r)
  <2>1. r \notin Bad
    BY <1>2, <1>3, <1>5
  <2>2. QED
    BY <1>5, <2>1
<1>7. Cardinality(r) = Cardinality(T) - 1 /\ Cardinality(T) \in Nat
  <2>1. IsFiniteSet(T)
    BY <1>1, <1>3, FS_Subset
  <2>2. QED
    BY <1>5, <2>1, FS_RemoveElement, FS_CardinalityType
<1>8. less(T)[x] = f[x] - 1 /\ less(r)[x] = f[x] /\ \A y \in S \ {x} : less(T)[y] = less(r)[y]
  BY <1>5
<1>9. f[x] \in Int
  BY <1>5 DEF Summable
<1> HIDE DEF less, x, r, Bad
<1>10. Sum(less(T), S) = Sum(less(r), S) - less(r)[x] + less(T)[x]
  <2>1. DiffersAt(less(r), less(T), S, x)
    BY <1>s, <1>5, <1>8, <1>9 DEF DiffersAt
  <2>2. QED
    BY <2>1, SumChange
<1>11. QED
  BY <1>1, <1>3, <1>6, <1>7, <1>8, <1>9, <1>10

(* h sums f over the parts of S that m tells apart. *)
SumsOfParts(f, S, P, m, h) ==
  /\ Summable(f, S) /\ IsFiniteSet(P) /\ m \in [S -> P]
  /\ \A i \in P : h[i] = Sum(f, {x \in S : m[x] = i})

(* A sum may be taken part by part, m naming the part of each member. *)
LEMMA SumByParts ==
  ASSUME NEW f, NEW S, NEW P, NEW m, NEW h, SumsOfParts(f, S, P, m, h)
  PROVE  Summable(h, P) /\ Sum(h, P) = Sum(f, S)
<1> USE DEF SumsOfParts
<1> DEFINE part(T, i) == {x \in T : m[x] = i}
           parts(T) == [i \in P |-> Sum(f, part(T, i))]
           Bad == {T \in SUBSET S : Sum(parts(T), P) # Sum(f, T)}
<1>f. \A T \in SUBSET S : Summable(f, T)
  BY FS_Subset DEF Summable
<1>p. \A T \in SUBSET S, i \in P : Summable(f, part(T, i)) /\ Sum(f, part(T, i)) \in Int
  <2>1. \A T \in SUBSET S, i \in P : part(T, i) \in SUBSET S
    OBVIOUS
  <2> HIDE DEF part
  <2>2. QED
    BY <2>1, <1>f, SumType
<1>s. \A T \in SUBSET S : Summable(parts(T), P)
  BY <1>p DEF Summable
<1>h. \A i \in P : h[i] = parts(S)[i]
  OBVIOUS
<1> SUFFICES ASSUME Bad # {} PROVE FALSE
  <2>1. S \in SUBSET S
    OBVIOUS
  <2>2. Sum(parts(S), P) = Sum(f, S)
    BY <2>1
  <2> HIDE DEF parts
  <2>3. QED
    BY <1>s, <1>h, <2>1, <2>2, SumEqual
<1>1. IsFiniteSet(S) /\ Bad \subseteq SUBSET S
  BY DEF Summable
<1>2. PICK T \in Bad : \A r \in Bad : r \subseteq T => r = T
  <2> HIDE DEF Bad
  <2>1. QED
    BY <1>1, MinimalSubset
<1>3. T \in SUBSET S /\ Sum(parts(T), P) # Sum(f, T)
  OBVIOUS
<1>4. T # {}
  <2> SUFFICES ASSUME T = {} PROVE FALSE
    OBVIOUS
  <2>1. \A i \in P : part(T, i) = {}
    OBVIOUS
  <2>2. \A i \in P : parts(T)[i] = 0
    BY <2>1, SumEmpty
  <2>3. Cardinality(P) \in Nat
    BY FS_CardinalityType
  <2>4. Sum(parts(T), P) = Cardinality(P) * 0
    <3> HIDE DEF parts
    <3>1. QED
      BY <1>s, <1>3, <2>2, SumConstant
  <2>5. QED
    BY <1>3, <2>3, <2>4, SumEmpty
<1> DEFINE x == Pick(T)
           r == T \ {x}
<1>5. x \in T /\ x \in S /\ r \in SUBSET S
  BY <1>3, <1>4, Picked
<1>6. Sum(parts(r), P) = Sum(f, r)
  <2>1. r \notin Bad
    BY <1>2, <1>3, <1>5
  <2>2. QED
    BY <1>5, <2>1
<1>7. Sum(f, T) = f[x] + Sum(f, r)
  BY <1>3, <1>4, <1>f, SumPick
<1>8. m[x] \in P /\ \A i \in P \ {m[x]} : parts(T)[i] = parts(r)[i]
  <2>1. m[x] \in P
    BY <1>5
  <2>2. \A i \in P \ {m[x]} : part(T, i) = part(r, i)
    OBVIOUS
  <2>3. QED
    BY <2>1, <2>2
<1>9. parts(T)[m[x]] = f[x] + parts(r)[m[x]]
  <2>1. part(T, m[x]) \ {x} = part(r, m[x]) /\ x \in part(T, m[x])
    BY <1>5
  <2>2. Summable(f, part(T, m[x]))
    BY <1>3, <1>8, <1>p
  <2> HIDE DEF part, r, x
  <2>3. Sum(f, part(T, m[x])) = f[x] + Sum(f, part(T, m[x]) \ {x})
    BY <2>1, <2>2, SumRemove
  <2>4. QED
    BY <1>8, <2>1, <2>3
<1>10. /\ f[x] \in Int /\ Sum(f, r) \in Int
       /\ parts(T)[m[x]] \in Int /\ parts(r)[m[x]] \in Int
  <2>1. Sum(f, r) \in Int
    BY <1>f, <1>5, SumType
  <2>2. QED
    BY <1>3, <1>5, <1>8, <1>p, <2>1 DEF Summable
<1> HIDE DEF parts, part, x, r, Bad
<1>11. Sum(parts(T), P) = Sum(parts(r), P) - parts(r)[m[x]] + parts(T)[m[x]]
  <2>1. DiffersAt(parts(r), parts(T), P, m[x])
    BY <1>s, <1>3, <1>5, <1>8, <1>10 DEF DiffersAt
  <2>2. QED
    BY <2>1, SumChange
<1>12. QED
  BY <1>3, <1>6, <1>7, <1>9, <1>10, <1>11

(* A sum of naturals is one. *)
LEMMA SumNat ==
  ASSUME NEW f, NEW S, IsFiniteSet(S), \A x \in S : f[x] \in Nat
  PROVE  Summable(f, S) /\ Sum(f, S) \in Nat
<1> DEFINE zero == [x \in S |-> 0]
<1>1. Summable(f, S) /\ Summable(zero, S) /\ (\A x \in S : zero[x] = 0) /\ \A x \in S : zero[x] <= f[x]
  BY DEF Summable
<1> HIDE DEF zero
<1>2. Sum(zero, S) = Cardinality(S) * 0 /\ Sum(zero, S) <= Sum(f, S)
  BY <1>1, SumConstant, SumAtMost
<1>3. Cardinality(S) \in Nat /\ Sum(f, S) \in Int
  BY <1>1, FS_CardinalityType, SumType
<1>4. QED
  BY <1>1, <1>2, <1>3

(* A set of naturals with a member has a least one. *)
LEMMA LeastNatural ==
  ASSUME NEW T, T \subseteq Nat, NEW k \in T
  PROVE  \E n \in T : \A m \in T : n <= m
<1> DEFINE Bad == {0..n : n \in {m \in T : m <= k}}
<1>1. IsFiniteSet(0..k) /\ Bad \subseteq SUBSET (0..k) /\ Bad # {}
  <2>1. k \in Nat
    OBVIOUS
  <2>2. IsFiniteSet(0..k)
    BY <2>1, FS_Interval
  <2>3. \A n \in T : n <= k => 0..n \subseteq 0..k
    BY <2>1
  <2>4. 0..k \in Bad
    BY <2>1
  <2>5. QED
    BY <2>2, <2>3, <2>4
<1>2. PICK U \in Bad : \A V \in Bad : V \subseteq U => V = U
  <2> DEFINE S == 0..k
  <2>1. IsFiniteSet(S) /\ Bad \subseteq SUBSET S /\ Bad # {}
    BY <1>1
  <2> HIDE DEF Bad, S
  <2>2. QED
    BY <2>1, MinimalSubset
<1>3. PICK n \in T : n <= k /\ U = 0..n
  OBVIOUS
<1>4. \A m \in T : n <= m
  <2> SUFFICES ASSUME NEW m \in T, m < n PROVE FALSE
    OBVIOUS
  <2>1. m \in Nat /\ n \in Nat /\ k \in Nat /\ m <= k
    BY <1>3
  <2>2. 0..m \in Bad /\ 0..m \subseteq 0..n /\ n \notin 0..m /\ n \in 0..n
    BY <2>1
  <2>3. QED
    BY <1>2, <1>3, <2>2
<1>5. QED
  BY <1>4

-----------------------------------------------------------------------------
(* Iteration: a function on 0 .. n, each value computed from the one before. *)

(* What holds at the start and is kept by every iteration holds after all. *)
LEMMA IteratesIn ==
  ASSUME NEW n \in Nat, NEW f, NEW T, f[0] \in T,
         \A k \in 1 .. n : f[k - 1] \in T => f[k] \in T
  PROVE  \A k \in 0 .. n : f[k] \in T
<1> DEFINE bad == {k \in 0 .. n : f[k] \notin T}
<1> SUFFICES ASSUME bad # {} PROVE FALSE
  OBVIOUS
<1>1. bad \subseteq Nat
  OBVIOUS
<1>2. PICK k \in bad : \A j \in bad : k <= j
  <2> HIDE DEF bad
  <2> QED
    BY <1>1, LeastNatural
<1>4. k \in 0 .. n /\ f[k] \notin T /\ k # 0
  OBVIOUS
<1>5. k - 1 \in 0 .. n /\ k \in 1 .. n
  BY <1>4
<1>6. k - 1 \notin bad
  <2> HIDE DEF bad
  <2> QED
    BY <1>2, <1>4
<1> QED
  BY <1>4, <1>5, <1>6

(* What holds at the start, and of each iteration if of the one before. *)
LEMMA IteratesThrough ==
  ASSUME NEW n \in Nat, NEW f, NEW T, f[0] \in T[0],
         \A k \in 1 .. n : f[k - 1] \in T[k - 1] => f[k] \in T[k]
  PROVE  \A k \in 0 .. n : f[k] \in T[k]
<1> DEFINE good == {k \in 0 .. n : f[k] \in T[k]}
           id == [k \in 0 .. n |-> k]
<1>1. \A k \in 0 .. n : id[k] = k
  OBVIOUS
<1>2. id[0] \in good
  OBVIOUS
<1>3. \A k \in 1 .. n : k - 1 \in good => k \in good
  OBVIOUS
<1> HIDE DEF good, id
<1>4. \A k \in 1 .. n : id[k - 1] \in good => id[k] \in good
  BY <1>1, <1>3
<1>5. \A k \in 0 .. n : id[k] \in good
  BY <1>2, <1>4, IteratesIn
<1>6. \A k \in 0 .. n : k \in good
  BY <1>1, <1>5
<1> QED
  BY <1>6 DEF good

(* f is the iteration of step from start, n times. *)
IsIteration(f, n, T, start, step) ==
  /\ f \in [0 .. n -> T] /\ f[0] = start
  /\ \A k \in 1 .. n : f[k] = step[k][f[k - 1]]

(* Iterations that stay in a set define a function, of values in the set. *)
LEMMA Iterates ==
  ASSUME NEW n \in Nat, NEW T, NEW start \in T, NEW step \in [1 .. n -> [T -> T]]
  PROVE  \E f : IsIteration(f, n, T, start, step)
<1> DEFINE Upto(k, f) == IsIteration(f, k, T, start, step)
           good == {k \in 0 .. n : \E f : Upto(k, f)}
           g == [k \in 0 .. n |-> k \in good]
<1>1. 0 \in good
  <2> DEFINE f == [k \in 0 .. 0 |-> start]
  <2>1. f \in [0 .. 0 -> T] /\ f[0] = start
    OBVIOUS
  <2>2. 1 .. 0 = {}
    OBVIOUS
  <2> HIDE DEF f
  <2>3. Upto(0, f)
    BY <2>1, <2>2 DEF IsIteration
  <2> QED
    BY <2>3
<1>2. ASSUME NEW k \in 1 .. n, k - 1 \in good
      PROVE  k \in good
  <2>1. PICK f : /\ f \in [0 .. k - 1 -> T] /\ f[0] = start
                 /\ \A j \in 1 .. k - 1 : f[j] = step[j][f[j - 1]]
    BY <1>2 DEF IsIteration
  <2> DEFINE h == [j \in 0 .. k |-> IF j = k THEN step[k][f[k - 1]] ELSE f[j]]
  <2>2. f[k - 1] \in T /\ step[k] \in [T -> T]
    <3>1. k - 1 \in 0 .. k - 1
      OBVIOUS
    <3> QED
      BY <2>1, <3>1
  <2>3. h \in [0 .. k -> T]
    <3>1. \A j \in 0 .. k : j # k => f[j] \in T
      BY <2>1
    <3> QED
      BY <2>2, <3>1
  <2>4. h[0] = start
    BY <2>1
  <2>5. ASSUME NEW j \in 1 .. k PROVE h[j] = step[j][h[j - 1]]
    <3>1. h[j - 1] = f[j - 1]
      OBVIOUS
    <3>2. CASE j = k
      BY <3>1, <3>2
    <3>3. CASE j # k
      <4>1. h[j] = f[j] /\ j \in 1 .. k - 1
        BY <3>3
      <4> QED
        BY <2>1, <3>1, <4>1
    <3> QED
      BY <3>2, <3>3
  <2>6. Upto(k, h)
    <3> HIDE DEF h
    <3> QED
      BY <2>3, <2>4, <2>5 DEF IsIteration
  <2> HIDE DEF Upto
  <2> QED
    BY <2>6
<1> DEFINE id == [k \in 0 .. n |-> k]
<1>3. \A k \in 0 .. n : id[k] = k
  OBVIOUS
<1>4. \A k \in 0 .. n : id[k] \in good
  <2> HIDE DEF good, id
  <2>1. id[0] \in good
    BY <1>1, <1>3
  <2>2. \A k \in 1 .. n : id[k - 1] \in good => id[k] \in good
    BY <1>2, <1>3
  <2> QED
    BY <2>1, <2>2, IteratesIn
<1>5. n \in good
  <2> HIDE DEF good, id
  <2> QED
    BY <1>3, <1>4
<1> QED
  BY <1>5
=============================================================================
