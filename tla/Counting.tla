------------------------------ MODULE Counting ------------------------------
(***************************************************************************)
(* Lemmas about numbers, sums and counts, which are about no component:    *)
(* least and greatest elements, what the sums of module Functions do when  *)
(* the function changes in one place or is a sum itself, how many elements *)
(* of a sequence lie in a set, and what a finite set becomes as a sequence.*)
(*                                                                         *)
(* Induction is by minimal counterexamples: among the subsets of a finite  *)
(* set for which a fact fails there is one all of whose proper subsets     *)
(* have it.                                                                *)
(***************************************************************************)
EXTENDS Integers, FiniteSets, SequencesExt, FiniteSetTheorems, SequenceTheorems,
        WellFoundedInduction, TLAPS

LEMMA MinimalSubset ==
    ASSUME NEW S, IsFiniteSet(S), NEW B, B \subseteq SUBSET S, B # {}
    PROVE  \E T \in B : \A U \in SUBSET T : U # T => U \notin B
<1>1. IsWellFoundedOn(StrictSubsetOrdering(S), SUBSET S)
  BY FS_StrictSubsetOrderingWellFounded, FS_FiniteSubsetsOfFinite
<1>2. PICK T \in B : \A U \in B : <<U, T>> \notin StrictSubsetOrdering(S)
  BY <1>1, WFMin
<1>3. ASSUME NEW U \in SUBSET T, U # T, U \in B PROVE FALSE
  BY <1>2, <1>3 DEF StrictSubsetOrdering
<1> QED
  BY <1>3

\* The least element of a set of numbers, and the greatest of a finite one.
LEMMA Least ==
    ASSUME NEW S \in SUBSET Nat, S # {}
    PROVE  Min(S) \in S /\ \A x \in S : Min(S) <= x
<1>1. PICK n \in S : TRUE
  OBVIOUS
<1> DEFINE B == {0 .. k : k \in {j \in S : j <= n}}
<1>2. IsFiniteSet(0 .. n) /\ B \subseteq SUBSET (0 .. n) /\ B # {}
  <2>1. n \in Int /\ 0 \in Int
    OBVIOUS
  <2>2. IsFiniteSet(0 .. n)
    BY <2>1, FS_Interval
  <2>3. 0 .. n \in B
    OBVIOUS
  <2>4. \A k \in {j \in S : j <= n} : 0 .. k \subseteq 0 .. n
    OBVIOUS
  <2> QED
    BY <2>2, <2>3, <2>4
<1>3. PICK T \in B : \A U \in SUBSET T : U # T => U \notin B
  <2> HIDE DEF B
  <2> QED
    BY <1>2, MinimalSubset
<1>4. PICK k \in S : k <= n /\ T = 0 .. k
  OBVIOUS
<1>5. ASSUME NEW j \in S, ~(k <= j) PROVE FALSE
  <2>1. j <= n /\ 0 .. j \in SUBSET (0 .. k) /\ 0 .. j # 0 .. k
    BY <1>4, <1>5
  <2>2. 0 .. j \in B
    BY <2>1
  <2> HIDE DEF B
  <2> QED
    BY <1>3, <1>4, <2>1, <2>2
<1>6. \E x \in S : \A y \in S : x <= y
  BY <1>5
<1> QED
  BY <1>6 DEF Min

LEMMA Smaller ==
    ASSUME NEW a \in Nat, NEW b \in Nat
    PROVE  Min({a, b}) = IF a <= b THEN a ELSE b
<1>1. Min({a, b}) \in {a, b} /\ \A x \in {a, b} : Min({a, b}) <= x
  BY Least
<1> QED
  BY <1>1

LEMMA Greatest ==
    ASSUME NEW S, IsFiniteSet(S), S \subseteq Int, S # {}
    PROVE  Max(S) \in S /\ \A y \in S : Max(S) >= y
<1> DEFINE Good(T) == T = {} \/ \E x \in T : \A y \in T : x >= y
           Bad == {T \in SUBSET S : ~Good(T)}
<1>1. Bad = {}
  <2>1. SUFFICES ASSUME Bad # {} PROVE FALSE
    OBVIOUS
  <2>2. PICK T \in Bad : \A U \in SUBSET T : U # T => U \notin Bad
    <3> HIDE DEF Bad
    <3>1. Bad \subseteq SUBSET S
      BY DEF Bad
    <3> QED
      BY <2>1, <3>1, MinimalSubset
  <2>3. PICK x \in T : x \in Int
    BY <2>2
  <2>4. Good(T \ {x})
    BY <2>2, <2>3
  <2>5. CASE T \ {x} = {}
    BY <2>2, <2>3, <2>5
  <2>6. CASE T \ {x} # {}
    <3>1. PICK m \in T \ {x} : \A y \in T \ {x} : m >= y
      BY <2>4, <2>6
    <3>2. m \in Int /\ T \subseteq Int
      BY <2>2
    <3>3. Good(T)
      <4>1. CASE m >= x
        BY <3>1, <3>2, <4>1
      <4>2. CASE ~(m >= x)
        <5>1. \A y \in T : x >= y
          BY <2>3, <3>1, <3>2, <4>2
        <5> QED
          BY <5>1
      <4> QED
        BY <4>1, <4>2
    <3> QED
      BY <2>2, <3>3
  <2> QED
    BY <2>5, <2>6
<1>2. \E x \in S : \A y \in S : x >= y
  BY <1>1
<1> QED
  BY <1>2 DEF Max

-----------------------------------------------------------------------------
(* Sums *)

\* g gives for each subset of S the sum of f over it.
Sums(f, S, g) ==
    g = [s \in SUBSET S |->
           IF s = {} THEN 0
           ELSE LET x == CHOOSE x \in s : TRUE IN f[x] + g[s \ {x}]]

\* Two such functions agree where both are defined.
LEMMA SumsAgree ==
    ASSUME NEW f, NEW A, NEW B, NEW g, NEW h, Sums(f, A, g), Sums(f, B, h),
           NEW S, S \subseteq A, S \subseteq B, IsFiniteSet(S)
    PROVE  g[S] = h[S]
<1> DEFINE Bad == {s \in SUBSET S : g[s] # h[s]}
<1>1. SUFFICES ASSUME Bad # {} PROVE FALSE
  OBVIOUS
<1>2. PICK s \in Bad : \A u \in SUBSET s : u # s => u \notin Bad
  <2> HIDE DEF Bad
  <2>1. Bad \subseteq SUBSET S
    BY DEF Bad
  <2> QED
    BY <1>1, <2>1, MinimalSubset
<1>3. s \in SUBSET A /\ s \in SUBSET B
  BY <1>2
<1>4. CASE s = {}
  BY <1>2, <1>3, <1>4 DEF Sums
<1>5. CASE s # {}
  <2> DEFINE x == CHOOSE x \in s : TRUE
  <2>1. x \in s
    BY <1>5
  <2>2. g[s] = f[x] + g[s \ {x}] /\ h[s] = f[x] + h[s \ {x}]
    BY <1>3, <1>5 DEF Sums
  <2>3. g[s \ {x}] = h[s \ {x}]
    BY <1>2, <2>1
  <2> QED
    BY <1>2, <2>2, <2>3
<1> QED
  BY <1>4, <1>5

LEMMA SumsExist ==
    ASSUME NEW f, NEW S, IsFiniteSet(S)
    PROVE  \E g : Sums(f, S, g)
<1> DEFINE Bad == {T \in SUBSET S : ~ \E g : Sums(f, T, g)}
<1>1. SUFFICES ASSUME Bad # {} PROVE FALSE
  OBVIOUS
<1>2. PICK T \in Bad : \A U \in SUBSET T : U # T => U \notin Bad
  <2> HIDE DEF Bad
  <2>1. Bad \subseteq SUBSET S
    BY DEF Bad
  <2> QED
    BY <1>1, <2>1, MinimalSubset
<1> DEFINE G(s) == CHOOSE g : Sums(f, s, g)
           Sum(s) == IF s = {} THEN 0
                     ELSE LET x == CHOOSE x \in s : TRUE IN f[x] + G(s \ {x})[s \ {x}]
           all == [s \in SUBSET T |-> Sum(s)]
<1>3. ASSUME NEW s \in SUBSET T, s # T PROVE Sums(f, s, G(s))
  <2>1. \E g : Sums(f, s, g)
    BY <1>2, <1>3
  <2> QED
    BY <2>1
<1>4. ASSUME NEW s \in SUBSET T, s # T PROVE G(s)[s] = Sum(s)
  <2>1. CASE s = {}
    <3>1. Sums(f, s, G(s))
      BY <1>3, <1>4
    <3> HIDE DEF G
    <3> QED
      BY <2>1, <3>1 DEF Sums
  <2>2. CASE s # {}
    <3> DEFINE x == CHOOSE x \in s : TRUE
    <3>1. x \in s
      BY <2>2
    <3>2. Sums(f, s, G(s)) /\ Sums(f, s \ {x}, G(s \ {x}))
      BY <1>3, <1>4, <3>1
    <3>3. IsFiniteSet(s \ {x})
      BY FS_Subset, <1>2
    <3> HIDE DEF G
    <3>4. G(s)[s \ {x}] = G(s \ {x})[s \ {x}]
      BY <3>2, <3>3, SumsAgree
    <3>5. G(s)[s] = f[x] + G(s)[s \ {x}]
      BY <2>2, <3>2 DEF Sums
    <3> QED
      BY <2>2, <3>4, <3>5
  <2> QED
    BY <2>1, <2>2
<1>5. Sums(f, T, all)
  <2> HIDE DEF G
  <2>1. ASSUME NEW s \in SUBSET T, s # {}
        PROVE  LET x == CHOOSE x \in s : TRUE IN Sum(s) = f[x] + all[s \ {x}]
    <3> DEFINE x == CHOOSE x \in s : TRUE
    <3>1. x \in s
      BY <2>1
    <3>2. G(s \ {x})[s \ {x}] = Sum(s \ {x})
      BY <1>4, <3>1
    <3>3. all[s \ {x}] = Sum(s \ {x})
      OBVIOUS
    <3>4. Sum(s) = f[x] + G(s \ {x})[s \ {x}]
      BY <2>1
    <3> HIDE DEF Sum, all
    <3> QED
      BY <3>2, <3>3, <3>4
  <2>2. Sum({}) = 0
    OBVIOUS
  <2> HIDE DEF Sum
  <2> QED
    BY <2>1, <2>2 DEF Sums
<1> QED
  BY <1>2, <1>5

-----------------------------------------------------------------------------
\* The equation of a sum.
LEMMA SumStep ==
    ASSUME NEW f, NEW S, IsFiniteSet(S)
    PROVE  /\ SumFunctionOnSet(f, {}) = 0
           /\ S # {} => LET x == CHOOSE x \in S : TRUE
                        IN SumFunctionOnSet(f, S) = f[x] + SumFunctionOnSet(f, S \ {x})
<1> DEFINE G(s) == CHOOSE g : Sums(f, s, g)
<1>1. ASSUME NEW s PROVE SumFunctionOnSet(f, s) = G(s)[s]
  BY DEF SumFunctionOnSet, FoldFunctionOnSet, MapThenFoldSet, Sums
<1>2. ASSUME NEW s, IsFiniteSet(s) PROVE Sums(f, s, G(s))
  BY <1>2, SumsExist
<1> HIDE DEF G
<1>3. SumFunctionOnSet(f, {}) = 0
  BY <1>1, <1>2, FS_EmptySet DEF Sums
<1>4. ASSUME S # {}
      PROVE  LET x == CHOOSE x \in S : TRUE
             IN SumFunctionOnSet(f, S) = f[x] + SumFunctionOnSet(f, S \ {x})
  <2> DEFINE x == CHOOSE x \in S : TRUE
  <2>1. IsFiniteSet(S \ {x})
    BY FS_RemoveElement
  <2>2. Sums(f, S, G(S)) /\ Sums(f, S \ {x}, G(S \ {x}))
    BY <1>2, <2>1
  <2>3. G(S)[S \ {x}] = G(S \ {x})[S \ {x}]
    BY <2>1, <2>2, SumsAgree
  <2>4. G(S)[S] = f[x] + G(S)[S \ {x}]
    BY <1>4, <2>2 DEF Sums
  <2> QED
    BY <1>1, <2>3, <2>4
<1> QED
  BY <1>3, <1>4

LEMMA SumInt ==
    ASSUME NEW S, IsFiniteSet(S), NEW f, \A x \in S : f[x] \in Int
    PROVE  SumFunctionOnSet(f, S) \in Int
<1> DEFINE Bad == {T \in SUBSET S : SumFunctionOnSet(f, T) \notin Int}
<1>1. SUFFICES ASSUME Bad # {} PROVE FALSE
  OBVIOUS
<1>2. PICK T \in Bad : \A U \in SUBSET T : U # T => U \notin Bad
  <2> HIDE DEF Bad
  <2>1. Bad \subseteq SUBSET S
    BY DEF Bad
  <2> QED
    BY <1>1, <2>1, MinimalSubset
<1>3. IsFiniteSet(T)
  BY FS_Subset
<1>4. T # {}
  <2>1. SumFunctionOnSet(f, {}) = 0
    BY <1>3, SumStep
  <2>2. SumFunctionOnSet(f, T) \notin Int
    BY <1>2
  <2> HIDE DEF Bad
  <2> QED
    BY <2>1, <2>2
<1> DEFINE x == CHOOSE x \in T : TRUE
<1>5. x \in T
  BY <1>4
<1>6. SumFunctionOnSet(f, T) = f[x] + SumFunctionOnSet(f, T \ {x})
  BY <1>3, <1>4, SumStep
<1>7. SumFunctionOnSet(f, T \ {x}) \in Int
  BY <1>2, <1>5
<1> QED
  BY <1>2, <1>5, <1>6, <1>7

\* Any element can be taken out of the sum.
LEMMA SumRemove ==
    ASSUME NEW S, IsFiniteSet(S), NEW f, \A x \in S : f[x] \in Int, NEW a \in S
    PROVE  SumFunctionOnSet(f, S) = f[a] + SumFunctionOnSet(f, S \ {a})
<1> DEFINE Ok(T) == \A x \in T : SumFunctionOnSet(f, T) = f[x] + SumFunctionOnSet(f, T \ {x})
           Bad == {T \in SUBSET S : ~Ok(T)}
<1>1. SUFFICES ASSUME Bad # {} PROVE FALSE
  OBVIOUS
<1>2. PICK T \in Bad : \A U \in SUBSET T : U # T => U \notin Bad
  <2> HIDE DEF Bad
  <2>1. Bad \subseteq SUBSET S
    BY DEF Bad
  <2> QED
    BY <1>1, <2>1, MinimalSubset
<1>3. IsFiniteSet(T)
  BY FS_Subset
<1>4. PICK x \in T : SumFunctionOnSet(f, T) # f[x] + SumFunctionOnSet(f, T \ {x})
  BY <1>2
<1> DEFINE y == CHOOSE y \in T : TRUE
<1>5. y \in T /\ SumFunctionOnSet(f, T) = f[y] + SumFunctionOnSet(f, T \ {y})
  BY <1>3, <1>4, SumStep
<1>6. Ok(T \ {y}) /\ Ok(T \ {x})
  BY <1>2, <1>4, <1>5
<1>7. x # y
  BY <1>4, <1>5
<1> HIDE DEF y
<1>8. /\ SumFunctionOnSet(f, T \ {y}) = f[x] + SumFunctionOnSet(f, (T \ {y}) \ {x})
      /\ SumFunctionOnSet(f, T \ {x}) = f[y] + SumFunctionOnSet(f, (T \ {x}) \ {y})
  BY <1>4, <1>5, <1>6, <1>7
<1>9. (T \ {y}) \ {x} = (T \ {x}) \ {y}
  OBVIOUS
<1>10. SumFunctionOnSet(f, (T \ {x}) \ {y}) \in Int
  <2>1. IsFiniteSet((T \ {x}) \ {y})
    BY <1>3, FS_RemoveElement
  <2> QED
    BY <2>1, SumInt
<1>11. f[x] \in Int /\ f[y] \in Int
  BY <1>4, <1>5
<1> DEFINE rest == SumFunctionOnSet(f, (T \ {x}) \ {y})
           one == SumFunctionOnSet(f, T \ {x})
           other == SumFunctionOnSet(f, T \ {y})
<1>12. /\ other = f[x] + rest /\ one = f[y] + rest
       /\ f[y] + other # f[x] + one
       /\ rest \in Int
  BY <1>4, <1>5, <1>8, <1>9, <1>10
<1> HIDE DEF rest, one, other
<1> QED
  BY <1>11, <1>12

LEMMA SumSame ==
    ASSUME NEW S, IsFiniteSet(S), NEW f, NEW g, \A x \in S : f[x] = g[x]
    PROVE  SumFunctionOnSet(f, S) = SumFunctionOnSet(g, S)
<1> DEFINE Bad == {T \in SUBSET S : SumFunctionOnSet(f, T) # SumFunctionOnSet(g, T)}
<1>1. SUFFICES ASSUME Bad # {} PROVE FALSE
  OBVIOUS
<1>2. PICK T \in Bad : \A U \in SUBSET T : U # T => U \notin Bad
  <2> HIDE DEF Bad
  <2>1. Bad \subseteq SUBSET S
    BY DEF Bad
  <2> QED
    BY <1>1, <2>1, MinimalSubset
<1>3. IsFiniteSet(T)
  BY FS_Subset
<1>4. T # {}
  BY <1>2, <1>3, SumStep
<1> DEFINE x == CHOOSE x \in T : TRUE
<1>5. x \in T
  BY <1>4
<1>6. /\ SumFunctionOnSet(f, T) = f[x] + SumFunctionOnSet(f, T \ {x})
      /\ SumFunctionOnSet(g, T) = g[x] + SumFunctionOnSet(g, T \ {x})
  BY <1>3, <1>4, SumStep
<1>7. SumFunctionOnSet(f, T \ {x}) = SumFunctionOnSet(g, T \ {x})
  BY <1>2, <1>5
<1> QED
  BY <1>2, <1>5, <1>6, <1>7

LEMMA SumPlus ==
    ASSUME NEW S, IsFiniteSet(S), NEW f, NEW g, NEW h,
           \A x \in S : f[x] \in Int /\ g[x] \in Int /\ h[x] = f[x] + g[x]
    PROVE  SumFunctionOnSet(h, S) = SumFunctionOnSet(f, S) + SumFunctionOnSet(g, S)
<1> DEFINE Bad == {T \in SUBSET S :
                     SumFunctionOnSet(h, T) # SumFunctionOnSet(f, T) + SumFunctionOnSet(g, T)}
<1>1. SUFFICES ASSUME Bad # {} PROVE FALSE
  OBVIOUS
<1>2. PICK T \in Bad : \A U \in SUBSET T : U # T => U \notin Bad
  <2> HIDE DEF Bad
  <2>1. Bad \subseteq SUBSET S
    BY DEF Bad
  <2> QED
    BY <1>1, <2>1, MinimalSubset
<1>3. IsFiniteSet(T)
  BY FS_Subset
<1>4. T # {}
  <2>1. SumFunctionOnSet(h, {}) = 0 /\ SumFunctionOnSet(f, {}) = 0 /\ SumFunctionOnSet(g, {}) = 0
    BY SumStep
  <2>2. SumFunctionOnSet(h, T) # SumFunctionOnSet(f, T) + SumFunctionOnSet(g, T)
    BY <1>2
  <2> DEFINE a == SumFunctionOnSet(h, T)
             b == SumFunctionOnSet(f, T)
             c == SumFunctionOnSet(g, T)
  <2>3. T = {} => a = 0 /\ b = 0 /\ c = 0
    BY <2>1
  <2>4. a # b + c
    BY <2>2
  <2> HIDE DEF a, b, c
  <2> QED
    BY <2>3, <2>4
<1> DEFINE x == CHOOSE x \in T : TRUE
<1>5. x \in T
  BY <1>4
<1>6. /\ SumFunctionOnSet(h, T) = h[x] + SumFunctionOnSet(h, T \ {x})
      /\ SumFunctionOnSet(f, T) = f[x] + SumFunctionOnSet(f, T \ {x})
      /\ SumFunctionOnSet(g, T) = g[x] + SumFunctionOnSet(g, T \ {x})
  BY <1>3, <1>4, SumStep
<1>7. SumFunctionOnSet(h, T \ {x})
        = SumFunctionOnSet(f, T \ {x}) + SumFunctionOnSet(g, T \ {x})
  BY <1>2, <1>5
<1>8. SumFunctionOnSet(f, T \ {x}) \in Int /\ SumFunctionOnSet(g, T \ {x}) \in Int
  <2>1. IsFiniteSet(T \ {x})
    BY <1>3, FS_RemoveElement
  <2> QED
    BY <2>1, SumInt
<1>9. f[x] \in Int /\ g[x] \in Int /\ h[x] = f[x] + g[x]
  BY <1>5
<1> HIDE DEF x
<1> QED
  BY <1>2, <1>6, <1>7, <1>8, <1>9

LEMMA SumNat ==
    ASSUME NEW S, IsFiniteSet(S), NEW f, \A x \in S : f[x] \in Nat
    PROVE  SumFunctionOnSet(f, S) \in Nat
<1> DEFINE Bad == {T \in SUBSET S : SumFunctionOnSet(f, T) \notin Nat}
<1>1. SUFFICES ASSUME Bad # {} PROVE FALSE
  OBVIOUS
<1>2. PICK T \in Bad : \A U \in SUBSET T : U # T => U \notin Bad
  <2> HIDE DEF Bad
  <2>1. Bad \subseteq SUBSET S
    BY DEF Bad
  <2> QED
    BY <1>1, <2>1, MinimalSubset
<1>3. IsFiniteSet(T)
  BY FS_Subset
<1>4. T # {}
  <2>1. SumFunctionOnSet(f, {}) = 0
    BY <1>3, SumStep
  <2>2. SumFunctionOnSet(f, T) \notin Nat
    BY <1>2
  <2> HIDE DEF Bad
  <2> QED
    BY <2>1, <2>2
<1> DEFINE x == CHOOSE x \in T : TRUE
<1>5. x \in T
  BY <1>4
<1>6. SumFunctionOnSet(f, T) = f[x] + SumFunctionOnSet(f, T \ {x})
  BY <1>3, <1>4, SumStep
<1>7. SumFunctionOnSet(f, T \ {x}) \in Nat
  BY <1>2, <1>5
<1> QED
  BY <1>2, <1>5, <1>6, <1>7

LEMMA SumSubset ==
    ASSUME NEW S, IsFiniteSet(S), NEW f, \A x \in S : f[x] \in Nat, NEW T \in SUBSET S
    PROVE  SumFunctionOnSet(f, T) <= SumFunctionOnSet(f, S)
<1> DEFINE Below(R) == \A U \in SUBSET R : SumFunctionOnSet(f, U) <= SumFunctionOnSet(f, R)
           Bad == {R \in SUBSET S : ~Below(R)}
<1>1. SUFFICES ASSUME Bad # {} PROVE FALSE
  <2> HIDE DEF Bad
  <2>1. Bad = {} => Below(S)
    BY DEF Bad
  <2> QED
    BY <2>1
<1>2. PICK R \in Bad : \A U \in SUBSET R : U # R => U \notin Bad
  <2> HIDE DEF Bad
  <2>1. Bad \subseteq SUBSET S
    BY DEF Bad
  <2> QED
    BY <1>1, <2>1, MinimalSubset
<1>3. R \in SUBSET S /\ IsFiniteSet(R)
  BY <1>2, FS_Subset
<1>4. \A U \in SUBSET R : SumFunctionOnSet(f, U) \in Nat
  <2>1. ASSUME NEW U \in SUBSET R PROVE SumFunctionOnSet(f, U) \in Nat
    <3>1. IsFiniteSet(U) /\ \A x \in U : f[x] \in Nat
      BY <1>3, FS_Subset
    <3> QED
      BY <3>1, SumNat
  <2> QED
    BY <2>1
<1>5. PICK U \in SUBSET R : ~(SumFunctionOnSet(f, U) <= SumFunctionOnSet(f, R))
  BY <1>2
<1>6. U # R
  BY <1>4, <1>5
<1>7. PICK a \in R : a \notin U
  BY <1>6
<1>8. SumFunctionOnSet(f, R) = f[a] + SumFunctionOnSet(f, R \ {a})
  <2>1. \A x \in R : f[x] \in Int
    BY <1>3
  <2> QED
    BY <1>3, <2>1, SumRemove
<1>9. SumFunctionOnSet(f, U) <= SumFunctionOnSet(f, R \ {a})
  <2>1. R \ {a} \in SUBSET R /\ R \ {a} # R /\ R \ {a} \in SUBSET S /\ U \in SUBSET (R \ {a})
    BY <1>3, <1>7
  <2>2. Below(R \ {a})
    BY <1>2, <2>1
  <2> QED
    BY <2>1, <2>2
<1> QED
  <2>1. f[a] \in Nat /\ R \ {a} \in SUBSET R
    BY <1>3
  <2> QED
    BY <1>4, <1>5, <1>8, <1>9, <2>1

-----------------------------------------------------------------------------
(* Sums of functions *)

LEMMA TotalType ==
    ASSUME NEW S, IsFiniteSet(S)
    PROVE  /\ \A f \in [S -> Int] : SumFunction(f) \in Int
           /\ \A f \in [S -> Nat] : SumFunction(f) \in Nat
<1>1. ASSUME NEW f \in [S -> Int] PROVE SumFunctionOnSet(f, S) \in Int
  BY SumInt
<1>2. ASSUME NEW f \in [S -> Nat] PROVE SumFunctionOnSet(f, S) \in Nat
  BY SumNat
<1> QED
  BY <1>1, <1>2 DEF SumFunction

\* The sum after a change in one place.
LEMMA TotalChange ==
    ASSUME NEW S, IsFiniteSet(S), NEW f \in [S -> Int], NEW a \in S,
           NEW g \in [S -> Int], \A x \in S \ {a} : g[x] = f[x]
    PROVE  SumFunction(g) = SumFunction(f) - f[a] + g[a]
<1>1. IsFiniteSet(S \ {a})
  BY FS_RemoveElement
<1>2. SumFunctionOnSet(f, S) = f[a] + SumFunctionOnSet(f, S \ {a})
  BY SumRemove
<1>3. SumFunctionOnSet(g, S) = g[a] + SumFunctionOnSet(g, S \ {a})
  BY SumRemove
<1>4. SumFunctionOnSet(g, S \ {a}) = SumFunctionOnSet(f, S \ {a})
  BY <1>1, SumSame
<1>5. SumFunctionOnSet(f, S \ {a}) \in Int
  BY <1>1, SumInt
<1> QED
  BY <1>2, <1>3, <1>4, <1>5 DEF SumFunction

LEMMA TotalPlus ==
    ASSUME NEW S, IsFiniteSet(S), NEW f \in [S -> Int], NEW g \in [S -> Int],
           NEW h \in [S -> Int], \A x \in S : h[x] = f[x] + g[x]
    PROVE  SumFunction(h) = SumFunction(f) + SumFunction(g)
<1>1. SumFunctionOnSet(h, S) = SumFunctionOnSet(f, S) + SumFunctionOnSet(g, S)
  BY SumPlus
<1> QED
  BY <1>1 DEF SumFunction

LEMMA TotalZero ==
    ASSUME NEW S, IsFiniteSet(S), NEW f \in [S -> Int], \A x \in S : f[x] = 0
    PROVE  SumFunction(f) = 0
<1> DEFINE total == SumFunction(f)
<1> SUFFICES total = 0
  OBVIOUS
<1>1. total = total + total
  <2>1. \A x \in S : f[x] = f[x] + f[x]
    OBVIOUS
  <2> QED
    BY <2>1, TotalPlus
<1>2. total \in Int
  BY TotalType
<1> HIDE DEF total
<1> QED
  BY <1>1, <1>2

-----------------------------------------------------------------------------
(* Counts in sequences *)

\* How many elements of q lie in S.
Count(q, S) == Cardinality({i \in 1 .. Len(q) : q[i] \in S})

LEMMA Positions ==
    ASSUME NEW T, NEW q \in Seq(T), NEW S
    PROVE  /\ IsFiniteSet({i \in 1 .. Len(q) : q[i] \in S})
           /\ Count(q, S) \in Nat
<1>1. IsFiniteSet(1 .. Len(q))
  <2>1. Len(q) \in Int
    BY LenProperties
  <2> QED
    BY <2>1, FS_Interval
<1>2. {i \in 1 .. Len(q) : q[i] \in S} \in SUBSET (1 .. Len(q))
  OBVIOUS
<1>3. IsFiniteSet({i \in 1 .. Len(q) : q[i] \in S})
  BY <1>1, <1>2, FS_Subset
<1> QED
  BY <1>3, FS_CardinalityType DEF Count

LEMMA CountEmpty ==
    ASSUME NEW S
    PROVE  Count(<<>>, S) = 0
<1>1. {i \in 1 .. Len(<<>>) : <<>>[i] \in S} = {}
  BY EmptySeq
<1> QED
  BY <1>1, FS_EmptySet DEF Count

LEMMA CountAppend ==
    ASSUME NEW T, NEW q \in Seq(T), NEW e \in T, NEW S
    PROVE  Count(Append(q, e), S) = Count(q, S) + (IF e \in S THEN 1 ELSE 0)
<1> DEFINE I == {i \in 1 .. Len(q) : q[i] \in S}
           J == {i \in 1 .. Len(Append(q, e)) : Append(q, e)[i] \in S}
           n == Len(q) + 1
<1>1. /\ Len(q) \in Nat /\ Len(Append(q, e)) = n
      /\ \A i \in 1 .. Len(q) : Append(q, e)[i] = q[i]
      /\ Append(q, e)[n] = e
  BY LenProperties, AppendProperties
<1>2. J = IF e \in S THEN I \cup {n} ELSE I
  <2>1. 1 .. n = (1 .. Len(q)) \cup {n} /\ n \notin 1 .. Len(q)
    BY <1>1
  <2> HIDE DEF n
  <2> QED
    BY <1>1, <2>1
<1>3. IsFiniteSet(I) /\ n \notin I /\ Cardinality(I) \in Nat
  <2>1. IsFiniteSet(I)
    BY Positions
  <2>2. n \notin I
    BY <1>1
  <2> HIDE DEF I, n
  <2> QED
    BY <2>1, <2>2, FS_CardinalityType
<1>4. Cardinality(J) = Cardinality(I) + (IF e \in S THEN 1 ELSE 0)
  <2> HIDE DEF I, J, n
  <2>1. Cardinality(I \cup {n}) = Cardinality(I) + 1
    BY <1>3, FS_AddElement
  <2>2. CASE e \in S
    BY <1>2, <2>1, <2>2
  <2>3. CASE e \notin S
    BY <1>2, <1>3, <2>3
  <2> QED
    BY <2>2, <2>3
<1> QED
  BY <1>4 DEF Count

LEMMA CountTail ==
    ASSUME NEW T, NEW q \in Seq(T), q # <<>>, NEW S
    PROVE  Count(q, S) = Count(Tail(q), S) + (IF Head(q) \in S THEN 1 ELSE 0)
<1> DEFINE I == {i \in 1 .. Len(q) : q[i] \in S}
           J == {i \in 1 .. Len(Tail(q)) : Tail(q)[i] \in S}
           f == [i \in I \ {1} |-> i - 1]
<1>1. /\ Len(q) \in Nat \ {0} /\ Len(Tail(q)) = Len(q) - 1
      /\ \A i \in 1 .. Len(Tail(q)) : Tail(q)[i] = q[i + 1]
  BY EmptySeq, HeadTailProperties
<1>2. f \in Bijection(I \ {1}, J)
  <2>1. ASSUME NEW i \in I \ {1} PROVE i - 1 \in J
    <3>1. i \in 1 .. Len(q) /\ i # 1 /\ q[i] \in S
      OBVIOUS
    <3>2. i - 1 \in 1 .. Len(Tail(q)) /\ (i - 1) + 1 = i
      BY <1>1, <3>1
    <3>3. Tail(q)[i - 1] = q[i]
      BY <1>1, <3>2
    <3> QED
      BY <3>1, <3>2, <3>3
  <2>2. ASSUME NEW j \in J PROVE j + 1 \in I \ {1} /\ f[j + 1] = j
    <3>1. j + 1 \in 1 .. Len(q) /\ j + 1 # 1 /\ (j + 1) - 1 = j
      BY <1>1
    <3> QED
      BY <1>1, <3>1
  <2>3. ASSUME NEW a \in I \ {1}, NEW b \in I \ {1}, f[a] = f[b] PROVE a = b
    <3>1. a \in Int /\ b \in Int /\ a - 1 = b - 1
      BY <1>1, <2>3
    <3> QED
      BY <3>1
  <2>4. f \in [I \ {1} -> J]
    BY <2>1
  <2> HIDE DEF f, I, J
  <2> QED
    BY <2>2, <2>3, <2>4 DEF Bijection, Injection, Surjection, IsInjective
<1>3. IsFiniteSet(I) /\ IsFiniteSet(I \ {1}) /\ Cardinality(I) \in Nat
  <2>1. IsFiniteSet(I)
    BY Positions
  <2> HIDE DEF I
  <2> QED
    BY <2>1, FS_RemoveElement, FS_CardinalityType
<1>4. Cardinality(J) = Cardinality(I \ {1})
  <2> HIDE DEF f, I, J
  <2> QED
    BY <1>2, <1>3, FS_Bijection DEF ExistsBijection
<1>5. 1 \in I <=> Head(q) \in S
  <2>1. 1 \in 1 .. Len(q) /\ Head(q) = q[1]
    BY <1>1
  <2> QED
    BY <2>1
<1>6. Cardinality(I) = Cardinality(J) + (IF Head(q) \in S THEN 1 ELSE 0)
  <2> HIDE DEF f, I, J
  <2> QED
    BY <1>3, <1>4, <1>5, FS_RemoveElement
<1> QED
  BY <1>6 DEF Count

-----------------------------------------------------------------------------
\* A finite set as a sequence: each element once.
LEMMA SetToSeqProperties ==
    ASSUME NEW S, IsFiniteSet(S)
    PROVE  /\ SetToSeq(S) \in Seq(S)
           /\ Len(SetToSeq(S)) = Cardinality(S)
           /\ \A i, j \in 1 .. Cardinality(S) : SetToSeq(S)[i] = SetToSeq(S)[j] => i = j
           /\ S # {} => SetToSeq(S) # <<>>
<1>1. Cardinality(S) \in Nat /\ ExistsBijection(1 .. Cardinality(S), S)
  BY FS_CardinalityType
<1>2. PICK f \in [1 .. Cardinality(S) -> S] : IsInjective(f)
  BY <1>1 DEF ExistsBijection, Bijection, Injection, IsInjective
<1>3. SetToSeq(S) \in [1 .. Cardinality(S) -> S] /\ IsInjective(SetToSeq(S))
  BY <1>2 DEF SetToSeq
<1> DEFINE q == SetToSeq(S)
<1>4. q \in Seq(S) /\ Len(q) = Cardinality(S)
  BY <1>1, <1>3
<1>5. \A i, j \in 1 .. Cardinality(S) : q[i] = q[j] => i = j
  BY <1>3 DEF IsInjective
<1>6. S # {} => q # <<>>
  BY <1>1, <1>4, FS_EmptySet, EmptySeq
<1> QED
  BY <1>4, <1>5, <1>6
=============================================================================
