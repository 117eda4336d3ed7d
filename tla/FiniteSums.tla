----------------------------- MODULE FiniteSums -----------------------------
(***************************************************************************)
(* What the models need to know of SumFunctionOnSet, the sum of a function *)
(* over a finite set.  The operator is a fold, and a fold takes its        *)
(* elements in an order nobody knows; the lemmas say that it has the       *)
(* values one expects and that any element may be taken out first.         *)
(*                                                                         *)
(* Induction is over the finite subsets of a set: a property that fails    *)
(* somewhere fails at a least set.                                         *)
(***************************************************************************)
EXTENDS FiniteSetsExt, FiniteSetTheorems, TLAPS

(* A collection of subsets of a finite set has a least one.                 *)
LEMMA LeastSet ==
    ASSUME NEW S, IsFiniteSet(S), NEW C \in SUBSET SUBSET S, C # {}
    PROVE  \E T \in C : \A U \in C : U \subseteq T => U = T
<1>1. C \subseteq FiniteSubsetsOf(S)
  BY FS_Subset DEF FiniteSubsetsOf
<1>2. \E T \in C : \A U \in C : <<U, T>> \notin StrictSubsetOrdering(S)
  BY <1>1, WFMin, FS_StrictSubsetOrderingWellFounded
<1> QED BY <1>2 DEF StrictSubsetOrdering

(* The element a fold takes first, one step of it, and what it computes.    *)
Pick(s) == CHOOSE x \in s : TRUE

Partial(f, h, s) == IF s = {} THEN 0 ELSE f[Pick(s)] + h[s \ {Pick(s)}]

IsSum(f, h, S) == h = [s \in SUBSET S |-> Partial(f, h, s)]

(* What is taken out of a set was in it.                                    *)
LEMMA PickIn == \A s : s # {} => Pick(s) \in s
  BY DEF Pick

(* The equation determines the function, whatever set it is defined over.   *)
LEMMA SumsAgree ==
    ASSUME NEW f, NEW S, NEW T, IsFiniteSet(S), S \subseteq T,
           NEW g, NEW h, IsSum(f, g, S), IsSum(f, h, T)
    PROVE  \A s \in SUBSET S : g[s] = h[s]
<1> DEFINE C == {s \in SUBSET S : g[s] # h[s]}
<1>1. SUFFICES ASSUME C # {} PROVE FALSE
  OBVIOUS
<1>2. PICK s \in C : \A U \in C : U \subseteq s => U = s
  <2>1. C \in SUBSET SUBSET S
    OBVIOUS
  <2> HIDE DEF C
  <2> QED BY <1>1, <2>1, LeastSet
<1>3. g[s] = Partial(f, g, s) /\ h[s] = Partial(f, h, s)
  BY DEF IsSum
<1>4. s # {}
  BY <1>3 DEF Partial
<1>5. g[s \ {Pick(s)}] = h[s \ {Pick(s)}]
  BY <1>2, <1>4, PickIn
<1> QED BY <1>3, <1>4, <1>5 DEF Partial

(* A function that satisfies the equation exists over any finite set.       *)
LEMMA SumsExist ==
    ASSUME NEW f, NEW S, IsFiniteSet(S)
    PROVE  \E h : IsSum(f, h, S)
<1> DEFINE C == {T \in SUBSET S : ~ \E h : IsSum(f, h, T)}
<1>1. SUFFICES ASSUME C # {} PROVE FALSE
  OBVIOUS
<1>2. PICK T \in C : \A U \in C : U \subseteq T => U = T
  <2>1. C \in SUBSET SUBSET S
    OBVIOUS
  <2> HIDE DEF C
  <2> QED BY <1>1, <2>1, LeastSet
<1> DEFINE H(U) == CHOOSE h : IsSum(f, h, U)
           h == [s \in SUBSET T |->
                   IF s = {} THEN 0
                   ELSE f[Pick(s)] + H(s \ {Pick(s)})[s \ {Pick(s)}]]
<1>3. ASSUME NEW U, U \subseteq T, U # T PROVE IsSum(f, H(U), U)
  BY <1>2, <1>3
<1>4. ASSUME NEW s \in SUBSET T, s # {}
      PROVE  H(s \ {Pick(s)})[s \ {Pick(s)}] = h[s \ {Pick(s)}]
  <2> DEFINE V == s \ {Pick(s)}
  <2>1. V \subseteq T /\ V # T
    BY <1>4, PickIn
  <2>2. IsSum(f, H(V), V)
    BY <2>1, <1>3
  <2>3. H(V)[V] = Partial(f, H(V), V)
    BY <2>2 DEF IsSum
  <2>4. CASE V = {}
    BY <2>1, <2>3, <2>4 DEF Partial
  <2>5. CASE V # {}
    <3> DEFINE W == V \ {Pick(V)}
    <3>1. W \subseteq V /\ W # V
      BY <2>5, PickIn
    <3>2. IsSum(f, H(W), W)
      BY <2>1, <3>1, <1>3
    <3>3. H(W)[W] = H(V)[W]
      <4>1. IsFiniteSet(W)
        BY <2>1, <3>1, FS_Subset
      <4> HIDE DEF H, W, V
      <4> QED BY <4>1, <3>1, <3>2, <2>2, SumsAgree
    <3>4. h[V] = f[Pick(V)] + H(W)[W]
      BY <2>1, <2>5
    <3> QED BY <2>3, <2>5, <3>3, <3>4 DEF Partial
  <2> QED BY <2>4, <2>5
<1>5. IsSum(f, h, T)
  <2>1. ASSUME NEW s \in SUBSET T PROVE h[s] = Partial(f, h, s)
    <3>1. CASE s = {}
      BY <3>1 DEF Partial
    <3>2. CASE s # {}
      <4>1. h[s] = f[Pick(s)] + H(s \ {Pick(s)})[s \ {Pick(s)}]
        BY <3>2
      <4> HIDE DEF h, H
      <4> QED BY <4>1, <3>2, <1>4 DEF Partial
    <3> QED BY <3>1, <3>2
  <2>2. h = [s \in SUBSET T |-> h[s]]
    OBVIOUS
  <2> HIDE DEF h
  <2> QED BY <2>1, <2>2 DEF IsSum
<1> QED BY <1>2, <1>5

(* The fold is such a function, applied to the whole set.                   *)
LEMMA SumIsFold ==
    ASSUME NEW f, NEW S, IsFiniteSet(S)
    PROVE  \E h : IsSum(f, h, S) /\ SumFunctionOnSet(f, S) = h[S]
<1> DEFINE fold == CHOOSE h : IsSum(f, h, S)
<1>1. IsSum(f, fold, S)
  BY SumsExist
<1>2. SumFunctionOnSet(f, S) = fold[S]
  BY DEF SumFunctionOnSet, FoldFunctionOnSet, MapThenFoldSet, IsSum, Partial, Pick
<1> QED BY <1>1, <1>2

(* The sum of nothing.                                                      *)
LEMMA SumOfEmpty == \A f : SumFunctionOnSet(f, {}) = 0
<1> TAKE f
<1>1. PICK h : IsSum(f, h, {}) /\ SumFunctionOnSet(f, {}) = h[{}]
  BY SumIsFold, FS_EmptySet
<1> QED BY <1>1 DEF IsSum, Partial

(* One step of the fold.                                                    *)
LEMMA SumTakesPick ==
    ASSUME NEW f, NEW S, IsFiniteSet(S), S # {}
    PROVE  SumFunctionOnSet(f, S) =
               f[Pick(S)] + SumFunctionOnSet(f, S \ {Pick(S)})
<1> DEFINE T == S \ {Pick(S)}
<1>1. IsFiniteSet(T)
  BY FS_Subset
<1>2. PICK h : IsSum(f, h, S) /\ SumFunctionOnSet(f, S) = h[S]
  BY SumIsFold
<1>3. PICK g : IsSum(f, g, T) /\ SumFunctionOnSet(f, T) = g[T]
  BY <1>1, SumIsFold
<1>4. g[T] = h[T]
  BY <1>1, <1>2, <1>3, SumsAgree
<1>5. h[S] = f[Pick(S)] + h[T]
  BY <1>2 DEF IsSum, Partial
<1> QED BY <1>2, <1>3, <1>4, <1>5

(* A sum of integers is an integer.                                         *)
LEMMA SumIsInt ==
    ASSUME NEW f, NEW S, IsFiniteSet(S), \A x \in S : f[x] \in Int
    PROVE  SumFunctionOnSet(f, S) \in Int
<1> DEFINE C == {T \in SUBSET S : SumFunctionOnSet(f, T) \notin Int}
<1>1. SUFFICES ASSUME C # {} PROVE FALSE
  OBVIOUS
<1>2. PICK T \in C : \A U \in C : U \subseteq T => U = T
  <2>1. C \in SUBSET SUBSET S
    OBVIOUS
  <2> HIDE DEF C
  <2> QED BY <1>1, <2>1, LeastSet
<1>3. T # {}
  BY SumOfEmpty
<1>4. Pick(T) \in T /\ SumFunctionOnSet(f, T \ {Pick(T)}) \in Int
  BY <1>2, <1>3, PickIn
<1>5. IsFiniteSet(T)
  BY FS_Subset
<1> QED BY <1>3, <1>4, <1>5, SumTakesPick

(* Any element may be taken out first.                                      *)
LEMMA SumTakesAny ==
    ASSUME NEW f, NEW S, IsFiniteSet(S), \A x \in S : f[x] \in Int, NEW a \in S
    PROVE  SumFunctionOnSet(f, S) = f[a] + SumFunctionOnSet(f, S \ {a})
<1> DEFINE Sum(T) == SumFunctionOnSet(f, T)
           C == {T \in SUBSET S : \E x \in T : Sum(T) # f[x] + Sum(T \ {x})}
<1>1. SUFFICES ASSUME C # {} PROVE FALSE
  OBVIOUS
<1>2. PICK T \in C : \A U \in C : U \subseteq T => U = T
  <2>1. C \in SUBSET SUBSET S
    OBVIOUS
  <2> HIDE DEF C
  <2> QED BY <1>1, <2>1, LeastSet
<1>3. PICK x \in T : Sum(T) # f[x] + Sum(T \ {x})
  BY <1>2
<1> DEFINE p == Pick(T)
<1>4. p \in T
  BY <1>3, PickIn
<1>5. IsFiniteSet(T) /\ Sum(T) = f[p] + Sum(T \ {p})
  BY <1>3, FS_Subset, SumTakesPick
<1>6. p # x
  BY <1>3, <1>5
<1>7. Sum(T \ {p}) = f[x] + Sum((T \ {p}) \ {x})
  <2>1. T \ {p} \in SUBSET S /\ T \ {p} \notin C /\ x \in T \ {p}
    BY <1>2, <1>3, <1>4, <1>6
  <2> HIDE DEF Sum, p
  <2> QED BY <2>1
<1>8. Sum(T \ {x}) = f[p] + Sum((T \ {x}) \ {p})
  <2>1. T \ {x} \in SUBSET S /\ T \ {x} \notin C /\ p \in T \ {x}
    BY <1>2, <1>3, <1>4, <1>6
  <2> HIDE DEF Sum, p
  <2> QED BY <2>1
<1>9. Sum((T \ {p}) \ {x}) = Sum((T \ {x}) \ {p})
  <2>1. (T \ {p}) \ {x} = (T \ {x}) \ {p}
    OBVIOUS
  <2> QED BY <2>1, Zenon
<1>10. Sum((T \ {x}) \ {p}) \in Int
  <2>1. IsFiniteSet((T \ {x}) \ {p})
    BY FS_Subset
  <2> QED BY <2>1, SumIsInt
<1>11. f[p] \in Int /\ f[x] \in Int
  BY <1>3, <1>4
<1>12. f[x] + Sum(T \ {x}) = f[p] + Sum(T \ {p})
  <2> HIDE DEF Sum, p
  <2> QED BY <1>7, <1>8, <1>9, <1>10, <1>11
<1> QED BY <1>3, <1>5, <1>12

(* Another element adds its value.                                          *)
LEMMA SumWithOne ==
    ASSUME NEW f, NEW S, IsFiniteSet(S), NEW a, a \notin S,
           \A x \in S \union {a} : f[x] \in Int
    PROVE  SumFunctionOnSet(f, S \union {a}) = SumFunctionOnSet(f, S) + f[a]
<1>1. IsFiniteSet(S \union {a})
  BY FS_AddElement
<1>2. (S \union {a}) \ {a} = S
  OBVIOUS
<1>3. SumFunctionOnSet(f, S) \in Int
  BY SumIsInt
<1> QED BY <1>1, <1>2, <1>3, SumTakesAny

(* The sum depends on the values in the set only.                           *)
LEMMA SumOfSame ==
    ASSUME NEW f, NEW g, NEW S, IsFiniteSet(S), \A x \in S : f[x] = g[x]
    PROVE  SumFunctionOnSet(f, S) = SumFunctionOnSet(g, S)
<1> DEFINE C == {T \in SUBSET S : SumFunctionOnSet(f, T) # SumFunctionOnSet(g, T)}
<1>1. SUFFICES ASSUME C # {} PROVE FALSE
  OBVIOUS
<1>2. PICK T \in C : \A U \in C : U \subseteq T => U = T
  <2>1. C \in SUBSET SUBSET S
    OBVIOUS
  <2> HIDE DEF C
  <2> QED BY <1>1, <2>1, LeastSet
<1>3. T # {}
  BY SumOfEmpty
<1>4. /\ Pick(T) \in T
      /\ SumFunctionOnSet(f, T \ {Pick(T)}) = SumFunctionOnSet(g, T \ {Pick(T)})
  BY <1>2, <1>3, PickIn
<1>5. IsFiniteSet(T)
  BY FS_Subset
<1> QED BY <1>3, <1>4, <1>5, SumTakesPick

(* One value changes, and the sum changes by as much.                       *)
LEMMA SumChangesByOne ==
    ASSUME NEW f, NEW g, NEW S, IsFiniteSet(S), NEW a \in S,
           \A x \in S : f[x] \in Int /\ g[x] \in Int,
           \A x \in S : x # a => g[x] = f[x]
    PROVE  SumFunctionOnSet(g, S) = SumFunctionOnSet(f, S) + g[a] - f[a]
<1>1. IsFiniteSet(S \ {a})
  BY FS_Subset
<1>2. SumFunctionOnSet(g, S \ {a}) = SumFunctionOnSet(f, S \ {a})
  BY <1>1, SumOfSame
<1>3. SumFunctionOnSet(f, S \ {a}) \in Int
  BY <1>1, SumIsInt
<1> QED BY <1>2, <1>3, SumTakesAny

(* A sum of zeros is zero.                                                  *)
LEMMA SumOfZeros ==
    ASSUME NEW f, NEW S, IsFiniteSet(S), \A x \in S : f[x] = 0
    PROVE  SumFunctionOnSet(f, S) = 0
<1> DEFINE C == {T \in SUBSET S : SumFunctionOnSet(f, T) # 0}
<1>1. SUFFICES ASSUME C # {} PROVE FALSE
  OBVIOUS
<1>2. PICK T \in C : \A U \in C : U \subseteq T => U = T
  <2>1. C \in SUBSET SUBSET S
    OBVIOUS
  <2> HIDE DEF C
  <2> QED BY <1>1, <2>1, LeastSet
<1>3. T # {}
  BY SumOfEmpty
<1>4. Pick(T) \in T /\ SumFunctionOnSet(f, T \ {Pick(T)}) = 0
  BY <1>2, <1>3, PickIn
<1>5. IsFiniteSet(T)
  BY FS_Subset
<1> QED BY <1>3, <1>4, <1>5, SumTakesPick

(* A sum whose terms are at most c on T, and zero elsewhere.                *)
LEMMA SumAtMost ==
    ASSUME NEW f, NEW S, IsFiniteSet(S), NEW T \in SUBSET S, NEW c \in Nat,
           \A x \in S : f[x] \in Int,
           \A x \in T : f[x] <= c,
           \A x \in S \ T : f[x] = 0
    PROVE  SumFunctionOnSet(f, S) <= c * Cardinality(T)
<1> DEFINE Bound(U) == c * Cardinality(U \cap T)
           C == {U \in SUBSET S : ~ (SumFunctionOnSet(f, U) <= Bound(U))}
<1>1. S \notin C => SumFunctionOnSet(f, S) <= c * Cardinality(T)
  <2>1. S \cap T = T
    OBVIOUS
  <2> QED BY <2>1
<1>2. ASSUME C # {} PROVE FALSE
  <2>1. PICK U \in C : \A V \in C : V \subseteq U => V = U
    <3>1. C \in SUBSET SUBSET S
      OBVIOUS
    <3> HIDE DEF C
    <3> QED BY <1>2, <3>1, LeastSet
  <2>2. U # {}
    <3>1. ASSUME U = {} PROVE FALSE
      <4>1. SumFunctionOnSet(f, U) = 0 /\ U \cap T = {}
        BY <3>1, SumOfEmpty
      <4>2. Cardinality(U \cap T) = 0
        BY <4>1, FS_EmptySet
      <4> QED BY <2>1, <4>1, <4>2
    <3> QED BY <3>1
  <2>3. PICK a \in U : TRUE
    BY <2>2
  <2> DEFINE V == U \ {a}
             n == Cardinality(V \cap T)
  <2>4. /\ IsFiniteSet(U) /\ IsFiniteSet(V) /\ IsFiniteSet(V \cap T)
        /\ U \in SUBSET S /\ V \in SUBSET S /\ a \in S
    BY FS_Subset
  <2>5. SumFunctionOnSet(f, V) <= Bound(V)
    BY <2>1, <2>4
  <2>6. SumFunctionOnSet(f, U) = f[a] + SumFunctionOnSet(f, V)
    BY <2>4, SumTakesAny
  <2>7. /\ n \in Nat /\ f[a] \in Int /\ SumFunctionOnSet(f, V) \in Int
        /\ c * n \in Int
    BY <2>4, SumIsInt, FS_CardinalityType
  <2>8. CASE a \in T
    <3>1. U \cap T = (V \cap T) \union {a} /\ a \notin V \cap T
      BY <2>8
    <3>2. Cardinality(U \cap T) = n + 1
      BY <2>4, <3>1, FS_AddElement
    <3>3. c * (n + 1) = c * n + c
      BY <2>7
    <3>4. f[a] <= c
      BY <2>8
    <3> HIDE DEF V, n
    <3>5. SumFunctionOnSet(f, V) <= c * n
      BY <2>5 DEF V, n
    <3>6. SumFunctionOnSet(f, U) <= c * (n + 1)
      BY <2>6, <2>7, <3>3, <3>4, <3>5
    <3> QED BY <2>1, <3>2, <3>6
  <2>9. CASE a \notin T
    <3>1. U \cap T = V \cap T /\ f[a] = 0
      BY <2>4, <2>9
    <3> QED BY <2>1, <2>5, <2>6, <2>7, <3>1
  <2> QED BY <2>8, <2>9
<1> QED BY <1>1, <1>2
=============================================================================
