---------------------------- MODULE SumsAndRanks ----------------------------
(***************************************************************************)
(* Facts about data that several proofs need: the sums of functions over   *)
(* finite sets (SumFunctionOnSet of the community modules), for quotas and *)
(* ledgers; and the members of a finite set in a strict order, for what    *)
(* the code sorts.                                                         *)
(*                                                                         *)
(* The sum over S is defined by a recursive function on the subsets of S.  *)
(* Instead of by induction, a fact about all subsets is proved from a      *)
(* smallest one that refutes it.                                           *)
(***************************************************************************)
EXTENDS Integers, Sequences, FiniteSets, Functions, FiniteSetTheorems, TLAPS

\* Among the subsets of a finite set that have a property, one is smallest.
LEMMA Smallest ==
  ASSUME NEW S, IsFiniteSet(S), NEW T, T \subseteq SUBSET S, T # {}
  PROVE  \E m \in T : \A y \in T : ~(y \subseteq m /\ y # m)
<1>1. T \subseteq FiniteSubsetsOf(S)
  BY FS_FiniteSubsetsOfFinite
<1>2. \E x \in T : \A y \in T : <<y, x>> \notin StrictSubsetOrdering(S)
  BY <1>1, WFMin, FS_StrictSubsetOrderingWellFounded
<1>3. QED
  BY <1>2 DEF StrictSubsetOrdering

\* The element that the fold takes first.
AnyOf(s) == CHOOSE x \in s : TRUE

\* g gives the sum of fun over every subset of S.
IsSumOver(g, fun, S) ==
  g = [s \in SUBSET S |-> IF s = {} THEN 0 ELSE fun[AnyOf(s)] + g[s \ {AnyOf(s)}]]

LEMMA SumIs == ASSUME NEW fun, NEW S
               PROVE  SumFunctionOnSet(fun, S) = (CHOOSE g : IsSumOver(g, fun, S))[S]
  BY DEF SumFunctionOnSet, FoldFunctionOnSet, MapThenFoldSet, IsSumOver, AnyOf

LEMMA AnyIn == ASSUME NEW s, s # {} PROVE AnyOf(s) \in s
  BY DEF AnyOf

LEMMA SumAt ==
  ASSUME NEW fun, NEW S, NEW g, IsSumOver(g, fun, S), NEW u, u \subseteq S
  PROVE  g[u] = IF u = {} THEN 0 ELSE fun[AnyOf(u)] + g[u \ {AnyOf(u)}]
  BY DEF IsSumOver

\* Such functions agree wherever both are defined.
LEMMA SumAgrees ==
  ASSUME NEW fun, NEW S, IsFiniteSet(S), NEW T, NEW g, NEW h, IsSumOver(g, fun, S), IsSumOver(h, fun, T),
         NEW u, u \subseteq S, u \subseteq T
  PROVE  g[u] = h[u]
<1> DEFINE Bad == {s \in SUBSET S : s \subseteq T /\ g[s] # h[s]}
<1> SUFFICES ASSUME Bad # {} PROVE FALSE
  OBVIOUS
<1>0. Bad \subseteq SUBSET S
  OBVIOUS
<1> HIDE DEF Bad
<1>1. PICK m \in Bad : \A y \in Bad : ~(y \subseteq m /\ y # m)
  BY <1>0, Smallest
<1> USE DEF Bad
<1>2. g[m] = (IF m = {} THEN 0 ELSE fun[AnyOf(m)] + g[m \ {AnyOf(m)}])
      /\ h[m] = (IF m = {} THEN 0 ELSE fun[AnyOf(m)] + h[m \ {AnyOf(m)}])
  BY SumAt
<1>3. CASE m # {}
  <2>1. AnyOf(m) \in m
    BY <1>3, AnyIn
  <2>2. g[m \ {AnyOf(m)}] = h[m \ {AnyOf(m)}]
    BY <1>1, <2>1
  <2>3. QED
    BY <1>2, <1>3, <2>2
<1>4. QED
  BY <1>2, <1>3

\* There is one for every finite set.
LEMMA SumExists == ASSUME NEW fun, NEW S, IsFiniteSet(S) PROVE \E g : IsSumOver(g, fun, S)
<1> DEFINE Bad == {s \in SUBSET S : ~ \E g : IsSumOver(g, fun, s)}
<1> SUFFICES ASSUME Bad # {} PROVE FALSE
  OBVIOUS
<1>0. Bad \subseteq SUBSET S
  OBVIOUS
<1> HIDE DEF Bad
<1>1. PICK m \in Bad : \A y \in Bad : ~(y \subseteq m /\ y # m)
  BY <1>0, Smallest
<1> USE DEF Bad
<1> DEFINE Of(u) == CHOOSE g : IsSumOver(g, fun, u)
           h == [s \in SUBSET m |-> IF s = {} THEN 0 ELSE fun[AnyOf(s)] + Of(s \ {AnyOf(s)})[s \ {AnyOf(s)}]]
<1>2. ASSUME NEW u, u \subseteq m, u # m PROVE IsSumOver(Of(u), fun, u) /\ IsFiniteSet(u)
  BY <1>1, <1>2, FS_Subset
<1>3. ASSUME NEW u, u \subseteq m, u # m PROVE h[u] = Of(u)[u]
  <2>1. Of(u)[u] = IF u = {} THEN 0 ELSE fun[AnyOf(u)] + Of(u)[u \ {AnyOf(u)}]
    BY <1>2, <1>3, SumAt
  <2>2. h[u] = IF u = {} THEN 0 ELSE fun[AnyOf(u)] + Of(u \ {AnyOf(u)})[u \ {AnyOf(u)}]
    BY <1>3
  <2>3. CASE u # {}
    <3> DEFINE v == u \ {AnyOf(u)}
    <3>1. v \subseteq u /\ v \subseteq m /\ v # m
      BY <1>3
    <3>2. IsSumOver(Of(u), fun, u) /\ IsFiniteSet(u) /\ IsSumOver(Of(v), fun, v)
      BY <1>2, <1>3, <3>1
    <3> HIDE DEF Of, v
    <3>3. Of(u)[v] = Of(v)[v]
      BY <3>1, <3>2, SumAgrees
    <3>4. QED
      BY <2>1, <2>2, <3>3 DEF v
  <2>4. QED
    BY <2>1, <2>2, <2>3
<1>4. ASSUME NEW s \in SUBSET m, s # {} PROVE h[s \ {AnyOf(s)}] = Of(s \ {AnyOf(s)})[s \ {AnyOf(s)}]
  <2>1. s \ {AnyOf(s)} \subseteq m /\ s \ {AnyOf(s)} # m
    BY <1>4, AnyIn
  <2>2. QED
    BY <2>1, <1>3
<1>5. IsSumOver(h, fun, m)
  <2>1. h = [s \in SUBSET m |-> IF s = {} THEN 0 ELSE fun[AnyOf(s)] + Of(s \ {AnyOf(s)})[s \ {AnyOf(s)}]]
    OBVIOUS
  <2> HIDE DEF h, Of
  <2>2. h = [s \in SUBSET m |-> IF s = {} THEN 0 ELSE fun[AnyOf(s)] + h[s \ {AnyOf(s)}]]
    BY <2>1, <1>4
  <2>3. QED
    BY <2>2 DEF IsSumOver
<1>6. QED
  BY <1>1, <1>5

-----------------------------------------------------------------------------
(* What follows from the definition alone.                                 *)

LEMMA SumEmpty == ASSUME NEW fun PROVE SumFunctionOnSet(fun, {}) = 0
<1>1. PICK g : IsSumOver(g, fun, {})
  BY SumExists, FS_EmptySet
<1>2. IsSumOver(CHOOSE h : IsSumOver(h, fun, {}), fun, {})
  BY <1>1
<1>3. QED
  BY <1>2, SumIs, SumAt

LEMMA SumStep ==
  ASSUME NEW fun, NEW S, IsFiniteSet(S), S # {}
  PROVE  SumFunctionOnSet(fun, S) = fun[AnyOf(S)] + SumFunctionOnSet(fun, S \ {AnyOf(S)})
<1> DEFINE Of(u) == CHOOSE g : IsSumOver(g, fun, u)
           R == S \ {AnyOf(S)}
<1>1. IsFiniteSet(R) /\ R \subseteq S
  BY FS_Subset
<1>2. IsSumOver(Of(S), fun, S) /\ IsSumOver(Of(R), fun, R)
  BY <1>1, SumExists
<1>3. Of(S)[S] = fun[AnyOf(S)] + Of(S)[R]
  BY <1>2, SumAt
<1> HIDE DEF Of, R
<1>4. Of(S)[R] = Of(R)[R]
  BY <1>1, <1>2, SumAgrees
<1>5. QED
  BY <1>3, <1>4, SumIs DEF Of, R

-----------------------------------------------------------------------------
(* Sums of integers.                                                       *)

LEMMA SumIsInt ==
  ASSUME NEW fun, NEW S, IsFiniteSet(S), \A x \in S : fun[x] \in Int
  PROVE  SumFunctionOnSet(fun, S) \in Int
<1> DEFINE Bad == {s \in SUBSET S : SumFunctionOnSet(fun, s) \notin Int}
<1> SUFFICES ASSUME Bad # {} PROVE FALSE
  OBVIOUS
<1>0. Bad \subseteq SUBSET S
  OBVIOUS
<1> HIDE DEF Bad
<1>1. PICK m \in Bad : \A y \in Bad : ~(y \subseteq m /\ y # m)
  BY <1>0, Smallest
<1> USE DEF Bad
<1>2. m # {}
  BY SumEmpty
<1>3. AnyOf(m) \in m /\ IsFiniteSet(m)
  BY <1>2, AnyIn, FS_Subset
<1>4. SumFunctionOnSet(fun, m \ {AnyOf(m)}) \in Int
  BY <1>1, <1>3
<1>5. SumFunctionOnSet(fun, m) = fun[AnyOf(m)] + SumFunctionOnSet(fun, m \ {AnyOf(m)})
  BY <1>2, <1>3, SumStep
<1>6. QED
  BY <1>3, <1>4, <1>5

\* Any element may be taken first.
LEMMA SumTake ==
  ASSUME NEW fun, NEW S, IsFiniteSet(S), \A x \in S : fun[x] \in Int, NEW e \in S
  PROVE  SumFunctionOnSet(fun, S) = fun[e] + SumFunctionOnSet(fun, S \ {e})
<1> DEFINE Sum(s) == SumFunctionOnSet(fun, s)
           Bad == {s \in SUBSET S : \E x \in s : Sum(s) # fun[x] + Sum(s \ {x})}
<1> SUFFICES ASSUME Bad # {} PROVE FALSE
  OBVIOUS
<1>0. Bad \subseteq SUBSET S
  OBVIOUS
<1> HIDE DEF Bad
<1>1. PICK m \in Bad : \A y \in Bad : ~(y \subseteq m /\ y # m)
  BY <1>0, Smallest
<1> USE DEF Bad
<1>2. PICK x \in m : Sum(m) # fun[x] + Sum(m \ {x})
  OBVIOUS
<1> DEFINE p == AnyOf(m)
<1>3. p \in m /\ IsFiniteSet(m)
  BY AnyIn, FS_Subset
<1>4. \A s \in SUBSET m : Sum(s) \in Int
  <2> SUFFICES ASSUME NEW s \in SUBSET m PROVE Sum(s) \in Int
    OBVIOUS
  <2>1. IsFiniteSet(s) /\ \A y \in s : fun[y] \in Int
    BY <1>3, FS_Subset
  <2>2. QED
    BY <2>1, SumIsInt
<1>5. Sum(m) = fun[p] + Sum(m \ {p})
  BY <1>3, SumStep
<1>6. x # p
  BY <1>2, <1>5
<1>7. ASSUME NEW y \in m, NEW z \in m, y # z
      PROVE  Sum(m \ {y}) = fun[z] + Sum(m \ {y, z})
  <2>1. m \ {y} \subseteq m /\ m \ {y} # m /\ m \ {y} \in SUBSET S /\ z \in m \ {y}
    BY <1>7
  <2>2. m \ {y} \notin Bad
    BY <1>1, <2>1
  <2>3. Sum(m \ {y}) = fun[z] + Sum((m \ {y}) \ {z})
    BY <2>1, <2>2
  <2>4. (m \ {y}) \ {z} = m \ {y, z}
    OBVIOUS
  <2>5. QED
    BY <2>3, <2>4
<1>8. Sum(m \ {p}) = fun[x] + Sum(m \ {p, x}) /\ Sum(m \ {x}) = fun[p] + Sum(m \ {p, x})
  <2>1. m \ {p, x} = m \ {x, p}
    OBVIOUS
  <2>2. QED
    BY <1>3, <1>6, <1>7, <2>1
<1>9. fun[x] \in Int /\ fun[p] \in Int /\ Sum(m \ {p, x}) \in Int
  BY <1>3, <1>4
<1> HIDE DEF p, Sum, Bad
<1>10. QED
  BY <1>2, <1>5, <1>8, <1>9

LEMMA SumAdd ==
  ASSUME NEW fun, NEW S, IsFiniteSet(S), \A x \in S : fun[x] \in Int,
         NEW e, e \notin S, fun[e] \in Int
  PROVE  SumFunctionOnSet(fun, S \cup {e}) = SumFunctionOnSet(fun, S) + fun[e]
<1> DEFINE T == S \cup {e}
<1>1. IsFiniteSet(T) /\ (\A x \in T : fun[x] \in Int) /\ e \in T /\ T \ {e} = S
  BY FS_AddElement
<1>2. SumFunctionOnSet(fun, S) \in Int
  BY SumIsInt
<1>3. fun[e] + SumFunctionOnSet(fun, S) = SumFunctionOnSet(fun, S) + fun[e]
  BY <1>2
<1> HIDE DEF T
<1>4. SumFunctionOnSet(fun, T) = fun[e] + SumFunctionOnSet(fun, T \ {e})
  BY <1>1, SumTake
<1>5. SumFunctionOnSet(fun, T) = SumFunctionOnSet(fun, S) + fun[e]
  BY <1>1, <1>3, <1>4
<1>6. QED
  BY <1>5 DEF T

\* Only the values on S matter, and greater values give no smaller sum.
LEMMA SumMonotone ==
  ASSUME NEW f, NEW g, NEW S, IsFiniteSet(S),
         \A x \in S : f[x] \in Int /\ g[x] \in Int /\ f[x] <= g[x]
  PROVE  SumFunctionOnSet(f, S) <= SumFunctionOnSet(g, S)
<1> DEFINE Bad == {s \in SUBSET S : ~(SumFunctionOnSet(f, s) <= SumFunctionOnSet(g, s))}
<1> SUFFICES ASSUME Bad # {} PROVE FALSE
  OBVIOUS
<1>0. Bad \subseteq SUBSET S
  OBVIOUS
<1> HIDE DEF Bad
<1>1. PICK m \in Bad : \A y \in Bad : ~(y \subseteq m /\ y # m)
  BY <1>0, Smallest
<1> USE DEF Bad
<1>2. m # {}
  BY SumEmpty
<1> DEFINE p == AnyOf(m)
           r == m \ {p}
<1>3. p \in m /\ IsFiniteSet(m) /\ IsFiniteSet(r)
  BY <1>2, AnyIn, FS_Subset
<1>4. /\ SumFunctionOnSet(f, m) = f[p] + SumFunctionOnSet(f, r)
      /\ SumFunctionOnSet(g, m) = g[p] + SumFunctionOnSet(g, r)
  BY <1>2, <1>3, SumStep
<1>5. SumFunctionOnSet(f, r) <= SumFunctionOnSet(g, r)
  BY <1>1, <1>3
<1>6. SumFunctionOnSet(f, r) \in Int /\ SumFunctionOnSet(g, r) \in Int
  <2>1. \A x \in r : f[x] \in Int /\ g[x] \in Int
    OBVIOUS
  <2> HIDE DEF r
  <2>2. QED
    BY <1>3, <2>1, SumIsInt
<1>7. f[p] \in Int /\ g[p] \in Int /\ f[p] <= g[p]
  BY <1>3
<1> HIDE DEF r, p
<1>8. QED
  BY <1>4, <1>5, <1>6, <1>7

LEMMA SumSame ==
  ASSUME NEW f, NEW g, NEW S, IsFiniteSet(S), \A x \in S : f[x] \in Int /\ g[x] = f[x]
  PROVE  SumFunctionOnSet(g, S) = SumFunctionOnSet(f, S)
<1>1. SumFunctionOnSet(g, S) <= SumFunctionOnSet(f, S)
  BY SumMonotone
<1>2. SumFunctionOnSet(f, S) <= SumFunctionOnSet(g, S)
  BY SumMonotone
<1>3. SumFunctionOnSet(f, S) \in Int /\ SumFunctionOnSet(g, S) \in Int
  BY SumIsInt
<1>4. QED
  BY <1>1, <1>2, <1>3

LEMMA SumOfZeros ==
  ASSUME NEW f, NEW S, IsFiniteSet(S), \A x \in S : f[x] = 0
  PROVE  SumFunctionOnSet(f, S) = 0
<1> DEFINE Bad == {s \in SUBSET S : SumFunctionOnSet(f, s) # 0}
<1> SUFFICES ASSUME Bad # {} PROVE FALSE
  OBVIOUS
<1>0. Bad \subseteq SUBSET S
  OBVIOUS
<1> HIDE DEF Bad
<1>1. PICK m \in Bad : \A y \in Bad : ~(y \subseteq m /\ y # m)
  BY <1>0, Smallest
<1> USE DEF Bad
<1>2. m # {}
  BY SumEmpty
<1>3. AnyOf(m) \in m /\ IsFiniteSet(m)
  BY <1>2, AnyIn, FS_Subset
<1>4. SumFunctionOnSet(f, m \ {AnyOf(m)}) = 0
  BY <1>1, <1>3
<1>5. SumFunctionOnSet(f, m) = f[AnyOf(m)] + SumFunctionOnSet(f, m \ {AnyOf(m)})
  BY <1>2, <1>3, SumStep
<1>6. QED
  BY <1>3, <1>4, <1>5

LEMMA SumIsNat ==
  ASSUME NEW fun, NEW S, IsFiniteSet(S), \A x \in S : fun[x] \in Nat
  PROVE  SumFunctionOnSet(fun, S) \in Nat
<1> DEFINE zero == [x \in S |-> 0]
<1>1. SumFunctionOnSet(zero, S) = 0
  BY SumOfZeros
<1>2. \A x \in S : zero[x] \in Int /\ fun[x] \in Int /\ zero[x] <= fun[x]
  OBVIOUS
<1> HIDE DEF zero
<1>3. SumFunctionOnSet(zero, S) <= SumFunctionOnSet(fun, S)
  BY <1>2, SumMonotone
<1>4. SumFunctionOnSet(fun, S) \in Int
  BY SumIsInt
<1>5. QED
  BY <1>1, <1>3, <1>4

\* One value changes.
LEMMA SumChange ==
  ASSUME NEW f, NEW g, NEW S, IsFiniteSet(S), NEW e \in S,
         \A x \in S : f[x] \in Int /\ g[x] \in Int /\ (x # e => g[x] = f[x])
  PROVE  SumFunctionOnSet(g, S) = SumFunctionOnSet(f, S) + g[e] - f[e]
<1> DEFINE r == S \ {e}
<1>1. IsFiniteSet(r) /\ \A x \in r : f[x] \in Int /\ g[x] = f[x]
  BY FS_Subset
<1> HIDE DEF r
<1>2. SumFunctionOnSet(g, r) = SumFunctionOnSet(f, r) /\ SumFunctionOnSet(f, r) \in Int
  BY <1>1, SumSame, SumIsInt
<1>3. SumFunctionOnSet(f, S) = f[e] + SumFunctionOnSet(f, r)
  BY SumTake DEF r
<1>4. SumFunctionOnSet(g, S) = g[e] + SumFunctionOnSet(g, r)
  BY SumTake DEF r
<1>5. QED
  BY <1>2, <1>3, <1>4

\* Fewer values of naturals give no greater sum.
LEMMA SumSubset ==
  ASSUME NEW f, NEW T, IsFiniteSet(T), \A x \in T : f[x] \in Nat, NEW S, S \subseteq T
  PROVE  SumFunctionOnSet(f, S) <= SumFunctionOnSet(f, T)
<1> DEFINE Bad == {s \in SUBSET (T \ S) : ~(SumFunctionOnSet(f, S) <= SumFunctionOnSet(f, S \cup s))}
<1>0. T \ S \notin Bad => SumFunctionOnSet(f, S) <= SumFunctionOnSet(f, T)
  <2>1. S \cup (T \ S) = T
    OBVIOUS
  <2>2. QED
    BY <2>1
<1> SUFFICES ASSUME Bad # {} PROVE FALSE
  BY <1>0
<1>1. Bad \subseteq SUBSET (T \ S) /\ IsFiniteSet(T \ S)
  BY FS_Subset
<1> HIDE DEF Bad
<1>2. PICK m \in Bad : \A y \in Bad : ~(y \subseteq m /\ y # m)
  BY <1>1, Smallest
<1> USE DEF Bad
<1>3. \A s \in SUBSET T : IsFiniteSet(s) /\ SumFunctionOnSet(f, s) \in Nat
  <2> SUFFICES ASSUME NEW s \in SUBSET T PROVE IsFiniteSet(s) /\ SumFunctionOnSet(f, s) \in Nat
    OBVIOUS
  <2>1. IsFiniteSet(s) /\ \A x \in s : f[x] \in Nat
    BY FS_Subset
  <2>2. QED
    BY <2>1, SumIsNat
<1>4. m # {}
  <2>1. S \cup {} = S
    OBVIOUS
  <2>2. QED
    BY <1>3, <2>1
<1> DEFINE p == AnyOf(m)
           r == S \cup (m \ {p})
<1>5. p \in m /\ p \notin r /\ r \in SUBSET T /\ f[p] \in Nat /\ r \cup {p} = S \cup m
  BY <1>4, AnyIn
<1>6. SumFunctionOnSet(f, S) <= SumFunctionOnSet(f, r)
  BY <1>2, <1>5
<1>7. IsFiniteSet(r) /\ \A x \in r : f[x] \in Int
  BY <1>3, <1>5
<1> HIDE DEF p, r
<1>8. SumFunctionOnSet(f, r \cup {p}) = SumFunctionOnSet(f, r) + f[p]
  BY <1>5, <1>7, SumAdd
<1>9. SumFunctionOnSet(f, S) \in Nat /\ SumFunctionOnSet(f, r) \in Nat
  BY <1>3, <1>5
<1>10. SumFunctionOnSet(f, S) <= SumFunctionOnSet(f, S \cup m)
  BY <1>5, <1>6, <1>8, <1>9
<1>11. QED
  BY <1>10

\* The sum over two sets that have nothing in common.
LEMMA SumUnion ==
  ASSUME NEW f, NEW S, NEW T, IsFiniteSet(S), IsFiniteSet(T), S \cap T = {}, \A x \in S \cup T : f[x] \in Int
  PROVE  SumFunctionOnSet(f, S \cup T) = SumFunctionOnSet(f, S) + SumFunctionOnSet(f, T)
<1> DEFINE Sum(s) == SumFunctionOnSet(f, s)
           Bad == {s \in SUBSET T : Sum(S \cup s) # Sum(S) + Sum(s)}
<1> SUFFICES ASSUME Bad # {} PROVE FALSE
  OBVIOUS
<1>0. Bad \subseteq SUBSET T
  OBVIOUS
<1> HIDE DEF Bad
<1>1. PICK m \in Bad : \A y \in Bad : ~(y \subseteq m /\ y # m)
  BY <1>0, Smallest
<1> USE DEF Bad
<1>2. \A s \in SUBSET T : IsFiniteSet(s) /\ Sum(s) \in Int
  <2> SUFFICES ASSUME NEW s \in SUBSET T PROVE IsFiniteSet(s) /\ Sum(s) \in Int
    OBVIOUS
  <2>1. IsFiniteSet(s) /\ \A x \in s : f[x] \in Int
    BY FS_Subset
  <2>2. QED
    BY <2>1, SumIsInt
<1>3. Sum(S) \in Int
  BY SumIsInt
<1>4. m # {}
  <2>1. S \cup {} = S
    OBVIOUS
  <2>2. QED
    BY <1>3, <2>1, SumEmpty
<1> DEFINE p == AnyOf(m)
           r == m \ {p}
           u == S \cup r
<1>5. /\ p \in m /\ p \notin r /\ p \notin u /\ f[p] \in Int /\ m = r \cup {p} /\ S \cup m = u \cup {p}
      /\ r \in SUBSET T /\ r \notin Bad
  BY <1>1, <1>4, AnyIn
<1>6. IsFiniteSet(r) /\ IsFiniteSet(u) /\ (\A x \in r : f[x] \in Int) /\ \A x \in u : f[x] \in Int
  BY <1>2, <1>5, FS_Union
<1>7. Sum(u) = Sum(S) + Sum(r)
  BY <1>5
<1>8. Sum(S \cup m) # Sum(S) + Sum(m) /\ Sum(r) \in Int
  BY <1>1, <1>2, <1>5
<1> HIDE DEF p, r, u, Bad
<1>9. SumFunctionOnSet(f, r \cup {p}) = SumFunctionOnSet(f, r) + f[p]
  BY <1>5, <1>6, SumAdd
<1>10. SumFunctionOnSet(f, u \cup {p}) = SumFunctionOnSet(f, u) + f[p]
  BY <1>5, <1>6, SumAdd
<1>11. m = r \cup {p} /\ S \cup m = u \cup {p} /\ f[p] \in Int
  BY <1>5
<1>12. SumFunctionOnSet(f, m) = SumFunctionOnSet(f, r) + f[p]
  BY <1>9, <1>11
<1>13. SumFunctionOnSet(f, S \cup m) = SumFunctionOnSet(f, u) + f[p]
  BY <1>10, <1>11
<1>14. QED
  BY <1>3, <1>7, <1>8, <1>11, <1>12, <1>13

\* The numbers of a set, each one greater.
Next1(S) == {x + 1 : x \in S}

\* g has the values of f on S, each one further on.
MovedOn(f, g, S) == S \subseteq Int /\ \A x \in S : f[x] \in Int /\ g[x + 1] = f[x]

\* The sum does not change when every value moves on by one.
LEMMA SumShift ==
  ASSUME NEW f, NEW g, NEW S, IsFiniteSet(S), MovedOn(f, g, S)
  PROVE  SumFunctionOnSet(g, Next1(S)) = SumFunctionOnSet(f, S)
<1> DEFINE Bad == {s \in SUBSET S : SumFunctionOnSet(g, Next1(s)) # SumFunctionOnSet(f, s)}
<1> SUFFICES ASSUME Bad # {} PROVE FALSE
  OBVIOUS
<1>0. Bad \subseteq SUBSET S
  OBVIOUS
<1> HIDE DEF Bad
<1>1. PICK m \in Bad : \A y \in Bad : ~(y \subseteq m /\ y # m)
  BY <1>0, Smallest
<1> USE DEF Bad
<1>2. m # {}
  <2>1. Next1({}) = {}
    BY DEF Next1
  <2>2. QED
    BY <2>1, SumEmpty
<1> DEFINE p == AnyOf(m)
           r == m \ {p}
<1>3. p \in m /\ p \in Int /\ p \notin r /\ m = r \cup {p} /\ r \in SUBSET S /\ r \notin Bad
  BY <1>1, <1>2, AnyIn DEF MovedOn
<1>4. IsFiniteSet(r) /\ (\A x \in r : f[x] \in Int) /\ f[p] \in Int /\ g[p + 1] = f[p]
  BY <1>3, FS_Subset DEF MovedOn
<1>5. SumFunctionOnSet(g, Next1(r)) = SumFunctionOnSet(f, r)
  BY <1>3
<1>6. SumFunctionOnSet(g, Next1(m)) # SumFunctionOnSet(f, m)
  BY <1>1
<1>7. IsFiniteSet(Next1(r))
  <2>1. Next1(r) = {x + 1 : x \in r}
    BY DEF Next1
  <2> DEFINE h == [x \in r |-> x + 1]
  <2>2. h \in Surjection(r, Next1(r))
    BY DEF Surjection, Next1
  <2> HIDE DEF h
  <2>3. QED
    BY <1>4, <2>2, FS_Surjection
<1>8. \A x \in Next1(r) : g[x] \in Int
  BY <1>3, <1>4 DEF Next1, MovedOn
<1>9. p + 1 \notin Next1(r) /\ Next1(m) = Next1(r) \cup {p + 1}
  <2>1. r \subseteq Int
    BY <1>3 DEF MovedOn
  <2>2. p + 1 \notin Next1(r)
    BY <1>3, <2>1 DEF Next1
  <2>3. Next1(m) = Next1(r) \cup {p + 1}
    BY <1>3 DEF Next1
  <2>4. QED
    BY <2>2, <2>3
<1> HIDE DEF p, r, Bad
<1>10. SumFunctionOnSet(f, r \cup {p}) = SumFunctionOnSet(f, r) + f[p]
  BY <1>3, <1>4, SumAdd
<1>11. SumFunctionOnSet(g, Next1(r) \cup {p + 1}) = SumFunctionOnSet(g, Next1(r)) + g[p + 1]
  <2> DEFINE R == Next1(r)
             e == p + 1
  <2>1. IsFiniteSet(R) /\ (\A x \in R : g[x] \in Int) /\ e \notin R /\ g[e] \in Int
    BY <1>4, <1>7, <1>8, <1>9
  <2> HIDE DEF R, e
  <2>2. SumFunctionOnSet(g, R \cup {e}) = SumFunctionOnSet(g, R) + g[e]
    BY <2>1, SumAdd
  <2>3. QED
    BY <2>2 DEF R, e
<1>12. QED
  BY <1>3, <1>4, <1>5, <1>6, <1>9, <1>10, <1>11

-----------------------------------------------------------------------------
(* Ranks: the members of a finite set in the order of a relation.          *)

\* The members of M that R puts before x.
Below(M, R, x) == {y \in M : <<y, x>> \in R}

\* R is a strict order of all of M.
Orders(R, M) ==
  /\ \A x \in M : <<x, x>> \notin R
  /\ \A x, y, z \in M : <<x, y>> \in R /\ <<y, z>> \in R => <<x, z>> \in R
  /\ \A x, y \in M : x # y => <<x, y>> \in R \/ <<y, x>> \in R

\* How many members precede a member ranks it: every rank is taken once.
LEMMA RankIs ==
  ASSUME NEW M, IsFiniteSet(M), NEW R, Orders(R, M)
  PROVE  /\ Cardinality(M) \in Nat
         /\ \A x \in M : Cardinality(Below(M, R, x)) \in Nat /\ Cardinality(Below(M, R, x)) < Cardinality(M)
         /\ \A x, y \in M : <<x, y>> \in R => Cardinality(Below(M, R, x)) < Cardinality(Below(M, R, y))
         /\ \A k \in 1..Cardinality(M) : \E x \in M : Cardinality(Below(M, R, x)) = k - 1
<1> DEFINE N == Cardinality(M)
           Rank(x) == Cardinality(Below(M, R, x))
<1>1. N \in Nat
  BY FS_CardinalityType
<1>2. ASSUME NEW x \in M PROVE IsFiniteSet(Below(M, R, x)) /\ Rank(x) \in Nat /\ Rank(x) < N
  <2>1. Below(M, R, x) \subseteq M \ {x}
    BY DEF Below, Orders
  <2>2. IsFiniteSet(M \ {x}) /\ Cardinality(M \ {x}) = N - 1
    BY FS_RemoveElement
  <2>3. IsFiniteSet(Below(M, R, x)) /\ Rank(x) <= N - 1
    BY <2>1, <2>2, FS_Subset
  <2>4. QED
    BY <1>1, <2>3, FS_CardinalityType
<1>3. ASSUME NEW x \in M, NEW y \in M, <<x, y>> \in R PROVE Rank(x) < Rank(y)
  <2>1. Below(M, R, x) \cup {x} \subseteq Below(M, R, y) /\ x \notin Below(M, R, x)
    BY <1>3 DEF Below, Orders
  <2>2. Cardinality(Below(M, R, x) \cup {x}) = Rank(x) + 1
    BY <1>2, <2>1, FS_AddElement
  <2>3. Rank(x) + 1 <= Rank(y)
    BY <1>2, <2>1, <2>2, FS_Subset
  <2>4. QED
    BY <1>2, <2>3
<1>4. ASSUME NEW x \in M, NEW y \in M, x # y PROVE Rank(x) # Rank(y)
  <2>1. <<x, y>> \in R \/ <<y, x>> \in R
    BY <1>4 DEF Orders
  <2>2. Rank(x) \in Nat /\ Rank(y) \in Nat
    BY <1>2
  <2>3. QED
    BY <1>3, <2>1, <2>2
<1>5. ASSUME NEW k \in 1..N PROVE \E x \in M : Rank(x) = k - 1
  <2> DEFINE f == [x \in M |-> Rank(x) + 1]
             J == 1..N
  <2>1. \A x \in M : Rank(x) + 1 \in J
    BY <1>1, <1>2
  <2>2. \A x, y \in M : f[x] = f[y] => x = y
    BY <1>2, <1>4
  <2>3. f \in [M -> J]
    BY <2>1
  <2>4. IsFiniteSet(J) /\ Cardinality(J) = N
    <3>1. Cardinality(J) = IF 1 > N THEN 0 ELSE N - 1 + 1
      BY <1>1, FS_Interval
    <3>2. QED
      BY <1>1, <3>1, FS_Interval
  <2>5. f \in Surjection(M, J)
    <3> HIDE DEF f, J
    <3>1. f \in Injection(M, J)
      BY <2>2, <2>3 DEF Injection, IsInjective
    <3>2. QED
      BY <2>4, <3>1, FS_Injection
  <2>6. PICK x \in M : f[x] = k
    BY <2>5 DEF Surjection
  <2>7. QED
    BY <1>2, <2>6
<1>6. QED
  BY <1>1, <1>2, <1>3, <1>5

\* A sequence that has the members by their rank has each of them once, in order.
LEMMA InOrder ==
  ASSUME NEW M, IsFiniteSet(M), NEW R, Orders(R, M),
         NEW s, s = [k \in 1..Cardinality(M) |-> s[k]],
         \A k \in 1..Cardinality(M) : s[k] \in M /\ Cardinality(Below(M, R, s[k])) = k - 1
  PROVE  /\ s \in Seq(M) /\ Len(s) = Cardinality(M) /\ Cardinality(M) \in Nat
         /\ \A x \in M : \E k \in 1..Len(s) : s[k] = x
         /\ \A i, j \in 1..Len(s) : i < j => <<s[i], s[j]>> \in R
<1> DEFINE N == Cardinality(M)
           Rank(x) == Cardinality(Below(M, R, x))
<1>1. /\ N \in Nat
      /\ \A x \in M : Rank(x) \in Nat /\ Rank(x) < N
      /\ \A x, y \in M : <<x, y>> \in R => Rank(x) < Rank(y)
  BY RankIs
<1>2. \A k \in 1..N : s[k] \in M /\ Rank(s[k]) = k - 1
  OBVIOUS
<1>3. s = [k \in 1..N |-> s[k]]
  OBVIOUS
<1> HIDE DEF N, Rank
<1>4. s \in Seq(M) /\ Len(s) = N
  <2>1. s \in [1..N -> M]
    BY <1>2, <1>3
  <2>2. ASSUME NEW S, NEW n \in Nat, NEW f \in [1..n -> S] PROVE f \in Seq(S) /\ Len(f) = n
    OBVIOUS
  <2>3. QED
    BY <1>1, <2>1, <2>2
<1>5. ASSUME NEW i \in 1..N, NEW j \in 1..N, i < j PROVE <<s[i], s[j]>> \in R
  <2>1a. Rank(s[i]) = i - 1 /\ Rank(s[j]) = j - 1 /\ s[i] \in M /\ s[j] \in M
    BY <1>2
  <2>1b. i \in Nat /\ j \in Nat /\ i - 1 # j - 1 /\ i - 1 < j - 1
    BY <1>1, <1>5
  <2>1. s[i] # s[j] /\ Rank(s[i]) < Rank(s[j]) /\ Rank(s[i]) \in Nat /\ Rank(s[j]) \in Nat
    BY <1>1, <2>1a, <2>1b
  <2>2. ~(Rank(s[j]) < Rank(s[i]))
    BY <2>1
  <2>3. ~(<<s[j], s[i]>> \in R)
    BY <1>1, <1>2, <2>2
  <2>4. QED
    BY <1>2, <2>1, <2>3 DEF Orders
<1>6. ASSUME NEW x \in M PROVE \E k \in 1..N : s[k] = x
  <2> DEFINE k == Rank(x) + 1
  <2>1. k \in 1..N /\ k - 1 = Rank(x)
    BY <1>1
  <2> HIDE DEF k
  <2>2. s[k] \in M /\ Rank(s[k]) = Rank(x)
    BY <1>2, <2>1
  <2>3. s[k] = x
    <3> SUFFICES ASSUME s[k] # x PROVE FALSE
      OBVIOUS
    <3>1. <<s[k], x>> \in R \/ <<x, s[k]>> \in R
      BY <2>2 DEF Orders
    <3>2. Rank(s[k]) < Rank(x) \/ Rank(x) < Rank(s[k])
      BY <1>1, <2>2, <3>1
    <3>3. Rank(x) \in Nat
      BY <1>1
    <3>4. QED
      BY <2>2, <3>2, <3>3
  <2>4. QED
    BY <2>1, <2>3
<1>7. QED
  BY <1>1, <1>4, <1>5, <1>6 DEF N
=============================================================================
