---------------------------- MODULE FiniteLemmas ----------------------------
(***************************************************************************)
(* Lemmas about finite sets that the proofs of several components cite:    *)
(* induction over the subsets of a finite set; sums over one, which the    *)
(* models take with SumFunctionOnSet, and what adding or changing an       *)
(* element does to them; and the places of a list that a filter keeps.     *)
(* They hold of any function and list; the modules that need them say      *)
(* which ones.                                                             *)
(***************************************************************************)
EXTENDS Places, Integers, Sequences, FiniteSets, Functions, FiniteSetTheorems,
        SequenceTheorems, WellFoundedInduction, TLAPS

-----------------------------------------------------------------------------
(* Induction *)

\* Among finite sets there is a smallest one.
LEMMA SubsetMinimal ==
    ASSUME NEW S, IsFiniteSet(S), NEW Bad, Bad \subseteq SUBSET S, Bad # {}
    PROVE  \E T \in Bad : \A U \in Bad : ~ (U \subseteq T /\ U # T)
<1> DEFINE R == StrictSubsetOrdering(S)
<1> DEFINE D == SUBSET S
<1>1. IsWellFoundedOn(R, D)
  <2>1. IsWellFoundedOn(StrictSubsetOrdering(S), FiniteSubsetsOf(S))
    BY FS_StrictSubsetOrderingWellFounded
  <2>2. FiniteSubsetsOf(S) = SUBSET S
    BY FS_FiniteSubsetsOfFinite
  <2> QED
    BY <2>1, <2>2
<1>2. Bad \subseteq D
  OBVIOUS
<1> HIDE DEF R, D
<1>3. \E T \in Bad : \A U \in Bad : ~ (<<U, T>> \in R)
  BY <1>1, <1>2, WFMin
<1> QED
  BY <1>3 DEF R, StrictSubsetOrdering

\* What holds of a set whenever it holds of its strict subsets holds of every
\* finite set.  The property is given by the set of the subsets that have it.
LEMMA SubsetInduction ==
    ASSUME NEW S, IsFiniteSet(S), NEW Good,
           \A T \in SUBSET S : (\A U \in SUBSET T : U # T => U \in Good) => T \in Good
    PROVE  S \in Good
<1> DEFINE Bad == {T \in SUBSET S : T \notin Good}
<1> SUFFICES ASSUME S \notin Good PROVE FALSE
  OBVIOUS
<1>1. Bad # {} /\ Bad \subseteq SUBSET S
  OBVIOUS
<1>2. \E T \in Bad : \A U \in Bad : ~ (U \subseteq T /\ U # T)
  <2> HIDE DEF Bad
  <2> QED
    BY <1>1, SubsetMinimal
<1> QED
  BY <1>2

\* A finite set of integers has a largest element.
LEMMA LargestExists ==
    ASSUME NEW S \in SUBSET Int, IsFiniteSet(S), S # {}
    PROVE  \E m \in S : \A n \in S : m >= n
<1> DEFINE Good == {T \in SUBSET S : T # {} => \E m \in T : \A n \in T : m >= n}
<1>1. ASSUME NEW T \in SUBSET S, \A U \in SUBSET T : U # T => U \in Good
      PROVE  T \in Good
  <2> SUFFICES ASSUME T # {} PROVE \E m \in T : \A n \in T : m >= n
    OBVIOUS
  <2>1. PICK x \in T : TRUE
    OBVIOUS
  <2> DEFINE U == T \ {x}
  <2>2. U \in Good
    BY <1>1, <2>1
  <2>3. CASE U = {}
    BY <2>1, <2>3
  <2>4. CASE U # {}
    <3>1. PICK m \in U : \A n \in U : m >= n
      BY <2>2, <2>4
    <3>2. x \in Int /\ m \in Int /\ \A n \in U : n \in Int
      BY <2>1
    <3>3. \A n \in T : n = x \/ n \in U
      OBVIOUS
    <3>4. CASE m >= x
      BY <3>1, <3>2, <3>3, <3>4
    <3>5. CASE ~ (m >= x)
      <4>1. \A n \in T : x >= n
        <5> HIDE DEF U
        <5> QED
          BY <3>1, <3>2, <3>3, <3>5
      <4> QED
        BY <2>1, <4>1
    <3> QED
      BY <3>4, <3>5
  <2> QED
    BY <2>3, <2>4
<1> HIDE DEF Good
<1>2. S \in Good
  BY <1>1, SubsetInduction
<1> QED
  BY <1>2 DEF Good

-----------------------------------------------------------------------------
(* The function a sum is defined by *)

SumStep(it, f, s) ==
    IF s = {} THEN 0
    ELSE LET x == CHOOSE x \in s : TRUE IN f[x] + it[s \ {x}]

IsSum(it, f, S) == it = [s \in SUBSET S |-> SumStep(it, f, s)]

LEMMA SumIsChosen ==
    ASSUME NEW f, NEW S
    PROVE  SumFunctionOnSet(f, S) = (CHOOSE it : IsSum(it, f, S))[S]
BY DEF SumFunctionOnSet, FoldFunctionOnSet, MapThenFoldSet, IsSum, SumStep

\* Two such functions agree where both are defined.
LEMMA SumUnique ==
    ASSUME NEW f, NEW S, IsFiniteSet(S), NEW A, NEW B, S \subseteq A, S \subseteq B,
           NEW g, NEW h, IsSum(g, f, A), IsSum(h, f, B)
    PROVE  g[S] = h[S]
<1> DEFINE Good == {T \in SUBSET S : g[T] = h[T]}
<1>1. ASSUME NEW T \in SUBSET S, \A U \in SUBSET T : U # T => U \in Good
      PROVE  T \in Good
  <2>1. g[T] = SumStep(g, f, T) /\ h[T] = SumStep(h, f, T)
    BY DEF IsSum
  <2>2. CASE T = {}
    BY <2>1, <2>2 DEF SumStep
  <2>3. CASE T # {}
    <3> DEFINE x == CHOOSE x \in T : TRUE
    <3>1. x \in T
      BY <2>3
    <3>2. g[T \ {x}] = h[T \ {x}]
      BY <1>1, <3>1
    <3> QED
      BY <2>1, <2>3, <3>2 DEF SumStep
  <2> QED
    BY <2>2, <2>3
<1> HIDE DEF Good
<1>2. S \in Good
  BY <1>1, SubsetInduction
<1> QED
  BY <1>2 DEF Good

LEMMA SumExists ==
    ASSUME NEW f, NEW S, IsFiniteSet(S)
    PROVE  \E it : IsSum(it, f, S)
<1> DEFINE Good == {T \in SUBSET S : \E it : IsSum(it, f, T)}
<1>1. ASSUME NEW T \in SUBSET S, \A U \in SUBSET T : U # T => U \in Good
      PROVE  T \in Good
  <2> DEFINE G(U) == CHOOSE it : IsSum(it, f, U)
             X(U) == CHOOSE x \in U : TRUE
             it == [s \in SUBSET T |-> IF s = {} THEN 0
                                       ELSE f[X(s)] + G(s \ {X(s)})[s \ {X(s)}]]
  <2>1. ASSUME NEW U \in SUBSET T, U # T PROVE IsSum(G(U), f, U)
    BY <1>1, <2>1
  <2>2. ASSUME NEW U \in SUBSET T, U # T PROVE it[U] = G(U)[U]
    <3>1. G(U)[U] = SumStep(G(U), f, U)
      BY <2>1, <2>2 DEF IsSum
    <3>2. CASE U = {}
      BY <3>1, <3>2 DEF SumStep
    <3>3. CASE U # {}
      <4> DEFINE V == U \ {X(U)}
      <4>1. X(U) \in U /\ V \subseteq U /\ V \in SUBSET T /\ V # T
        BY <3>3, <2>2
      <4>2. IsFiniteSet(V)
        BY <4>1, FS_Subset
      <4>3. IsSum(G(V), f, V) /\ IsSum(G(U), f, U)
        BY <2>1, <2>2, <4>1
      <4>4. G(V)[V] = G(U)[V]
        <5> HIDE DEF G, V
        <5> QED
          BY <4>1, <4>2, <4>3, SumUnique
      <4>5. it[U] = f[X(U)] + G(V)[V]
        BY <3>3
      <4>6. G(U)[U] = f[X(U)] + G(U)[V]
        BY <3>1, <3>3 DEF SumStep
      <4> QED
        BY <4>4, <4>5, <4>6
    <3> QED
      BY <3>2, <3>3
  <2>3. ASSUME NEW s \in SUBSET T PROVE it[s] = SumStep(it, f, s)
    <3>1. CASE s = {}
      BY <3>1 DEF SumStep
    <3>2. CASE s # {}
      <4>1. X(s) \in s
        BY <3>2
      <4>2. s \ {X(s)} \in SUBSET T /\ s \ {X(s)} # T
        BY <4>1
      <4>3. it[s \ {X(s)}] = G(s \ {X(s)})[s \ {X(s)}]
        <5> HIDE DEF G, it
        <5> QED
          BY <2>2, <4>2
      <4>4. it[s] = f[X(s)] + G(s \ {X(s)})[s \ {X(s)}]
        BY <3>2
      <4> QED
        BY <3>2, <4>3, <4>4 DEF SumStep
    <3> QED
      BY <3>1, <3>2
  <2>4. it = [s \in SUBSET T |-> it[s]]
    OBVIOUS
  <2>5. it = [s \in SUBSET T |-> SumStep(it, f, s)]
    <3> HIDE DEF it
    <3> QED
      BY <2>3, <2>4
  <2> QED
    BY <2>5 DEF IsSum
<1> HIDE DEF Good
<1>2. S \in Good
  BY <1>1, SubsetInduction
<1> QED
  BY <1>2 DEF Good

-----------------------------------------------------------------------------
(* Sums *)

LEMMA SumEmpty == ASSUME NEW f PROVE SumFunctionOnSet(f, {}) = 0
<1>1. IsFiniteSet({})
  BY FS_EmptySet
<1>2. IsSum(CHOOSE it : IsSum(it, f, {}), f, {})
  BY <1>1, SumExists
<1> DEFINE it == CHOOSE it : IsSum(it, f, {})
<1> HIDE DEF it
<1>3. it[{}] = 0
  BY <1>2 DEF IsSum, SumStep, it
<1> QED
  BY <1>3, SumIsChosen DEF it

\* The defining step: the element that is chosen, and the sum of the others.
LEMMA SumChosen ==
    ASSUME NEW f, NEW S, IsFiniteSet(S), S # {}
    PROVE  LET x == CHOOSE x \in S : TRUE
           IN SumFunctionOnSet(f, S) = f[x] + SumFunctionOnSet(f, S \ {x})
<1> DEFINE x == CHOOSE x \in S : TRUE
           T == S \ {x}
           G(U) == CHOOSE it : IsSum(it, f, U)
<1>1. IsFiniteSet(T) /\ T \subseteq S
  BY FS_Subset
<1>2. IsSum(G(S), f, S) /\ IsSum(G(T), f, T)
  <2>1. \E it : IsSum(it, f, S)
    BY SumExists
  <2>2. \E it : IsSum(it, f, T)
    <3> HIDE DEF T
    <3> QED
      BY <1>1, SumExists
  <2> QED
    BY <2>1, <2>2
<1>3. G(S)[S] = f[x] + G(S)[T]
  <2>1. G(S)[S] = SumStep(G(S), f, S)
    <3> HIDE DEF G
    <3> QED
      BY <1>2 DEF IsSum
  <2> QED
    BY <2>1 DEF SumStep
<1>4. G(S)[T] = G(T)[T]
  <2> HIDE DEF G, T
  <2> QED
    BY <1>1, <1>2, SumUnique
<1>5. SumFunctionOnSet(f, S) = G(S)[S] /\ SumFunctionOnSet(f, T) = G(T)[T]
  BY SumIsChosen
<1> QED
  BY <1>3, <1>4, <1>5

LEMMA SumType ==
    ASSUME NEW f, NEW S, IsFiniteSet(S), \A x \in S : f[x] \in Int
    PROVE  SumFunctionOnSet(f, S) \in Int
<1> DEFINE Good == {T \in SUBSET S : SumFunctionOnSet(f, T) \in Int}
<1>1. ASSUME NEW T \in SUBSET S, \A U \in SUBSET T : U # T => U \in Good
      PROVE  T \in Good
  <2>1. CASE T = {}
    BY <2>1, SumEmpty
  <2>2. CASE T # {}
    <3> DEFINE x == CHOOSE x \in T : TRUE
    <3>1. x \in T
      BY <2>2
    <3>2. IsFiniteSet(T)
      BY FS_Subset
    <3>3. SumFunctionOnSet(f, T) = f[x] + SumFunctionOnSet(f, T \ {x})
      BY <2>2, <3>2, SumChosen
    <3>4. SumFunctionOnSet(f, T \ {x}) \in Int
      BY <1>1, <3>1
    <3> HIDE DEF x
    <3> QED
      BY <3>1, <3>3, <3>4
  <2> QED
    BY <2>1, <2>2
<1> HIDE DEF Good
<1>2. S \in Good
  BY <1>1, SubsetInduction
<1> QED
  BY <1>2 DEF Good

\* Any element may be taken out of a sum first.
LEMMA SumElement ==
    ASSUME NEW f, NEW S, IsFiniteSet(S), \A x \in S : f[x] \in Int, NEW e \in S
    PROVE  SumFunctionOnSet(f, S) = f[e] + SumFunctionOnSet(f, S \ {e})
<1> DEFINE Good == {T \in SUBSET S : \A y \in T :
                SumFunctionOnSet(f, T) = f[y] + SumFunctionOnSet(f, T \ {y})}
<1>1. ASSUME NEW T \in SUBSET S, \A U \in SUBSET T : U # T => U \in Good
      PROVE  T \in Good
  <2> SUFFICES ASSUME NEW y \in T
               PROVE  SumFunctionOnSet(f, T) = f[y] + SumFunctionOnSet(f, T \ {y})
    OBVIOUS
  <2> DEFINE c == CHOOSE x \in T : TRUE
  <2>1. c \in T /\ IsFiniteSet(T)
    BY FS_Subset
  <2>2. SumFunctionOnSet(f, T) = f[c] + SumFunctionOnSet(f, T \ {c})
    BY <2>1, SumChosen
  <2> HIDE DEF c
  <2>3. CASE y = c
    BY <2>2, <2>3
  <2>4. CASE y # c
    <3>1. SumFunctionOnSet(f, T \ {c})
          = f[y] + SumFunctionOnSet(f, (T \ {c}) \ {y})
      BY <1>1, <2>1, <2>4
    <3>2. SumFunctionOnSet(f, T \ {y})
          = f[c] + SumFunctionOnSet(f, (T \ {y}) \ {c})
      BY <1>1, <2>1, <2>4
    <3>3. (T \ {c}) \ {y} = (T \ {y}) \ {c}
      OBVIOUS
    <3> DEFINE W == (T \ {c}) \ {y}
    <3>4. IsFiniteSet(W) /\ W \subseteq S
      BY FS_Subset
    <3>5. SumFunctionOnSet(f, W) \in Int
      <4> HIDE DEF W
      <4> QED
        BY <3>4, SumType
    <3>6. f[c] \in Int /\ f[y] \in Int
      BY <2>1
    <3> HIDE DEF W
    <3>7. /\ SumFunctionOnSet(f, T \ {c}) = f[y] + SumFunctionOnSet(f, W)
          /\ SumFunctionOnSet(f, T \ {y}) = f[c] + SumFunctionOnSet(f, W)
      BY <3>1, <3>2, <3>3 DEF W
    <3> QED
      BY <2>2, <3>5, <3>6, <3>7
  <2> QED
    BY <2>3, <2>4
<1> HIDE DEF Good
<1>2. S \in Good
  BY <1>1, SubsetInduction
<1> QED
  BY <1>2 DEF Good

LEMMA SumAdd ==
    ASSUME NEW f, NEW S, IsFiniteSet(S), NEW e, e \notin S,
           \A x \in S \cup {e} : f[x] \in Int
    PROVE  SumFunctionOnSet(f, S \cup {e}) = f[e] + SumFunctionOnSet(f, S)
<1> DEFINE T == S \cup {e}
<1>1. IsFiniteSet(T) /\ T \ {e} = S
  BY FS_AddElement
<1>2. \A x \in T : f[x] \in Int
  OBVIOUS
<1>3. e \in T
  OBVIOUS
<1> HIDE DEF T
<1>4. SumFunctionOnSet(f, T) = f[e] + SumFunctionOnSet(f, T \ {e})
  BY <1>1, <1>2, <1>3, SumElement
<1> QED
  BY <1>1, <1>4 DEF T

\* The sum over two sets without a common element.
LEMMA SumUnion ==
    ASSUME NEW f, NEW S, IsFiniteSet(S), NEW T, IsFiniteSet(T), S \cap T = {},
           \A x \in S \cup T : f[x] \in Int
    PROVE  SumFunctionOnSet(f, S \cup T) = SumFunctionOnSet(f, S) + SumFunctionOnSet(f, T)
<1> DEFINE Good == {U \in SUBSET T : SumFunctionOnSet(f, S \cup U)
                        = SumFunctionOnSet(f, S) + SumFunctionOnSet(f, U)}
<1>1. ASSUME NEW U \in SUBSET T, \A V \in SUBSET U : V # U => V \in Good
      PROVE  U \in Good
  <2>0. SumFunctionOnSet(f, S) \in Int
    BY SumType
  <2>1. CASE U = {}
    BY <2>0, <2>1, SumEmpty
  <2>2. CASE U # {}
    <3>1. PICK x \in U : TRUE
      BY <2>2
    <3> DEFINE V == U \ {x}
               A == S \cup V
    <3>2. /\ IsFiniteSet(V) /\ IsFiniteSet(U) /\ IsFiniteSet(A)
          /\ x \notin A /\ x \notin V
      BY <3>1, FS_Subset, FS_Union
    <3>3. V \in Good
      BY <1>1, <3>1
    <3>4. S \cup U = A \cup {x} /\ U = V \cup {x}
      BY <3>1
    <3>5. (\A y \in A \cup {x} : f[y] \in Int) /\ \A y \in V \cup {x} : f[y] \in Int
      BY <3>1
    <3>6. SumFunctionOnSet(f, A) = SumFunctionOnSet(f, S) + SumFunctionOnSet(f, V)
      BY <3>3
    <3> HIDE DEF A, V
    <3>7. SumFunctionOnSet(f, A \cup {x}) = f[x] + SumFunctionOnSet(f, A)
      BY <3>2, <3>5, SumAdd
    <3>8. SumFunctionOnSet(f, V \cup {x}) = f[x] + SumFunctionOnSet(f, V)
      BY <3>2, <3>5, SumAdd
    <3>9. SumFunctionOnSet(f, V) \in Int /\ f[x] \in Int
      BY <3>2, <3>5, SumType
    <3>10. /\ SumFunctionOnSet(f, S \cup U) = SumFunctionOnSet(f, A \cup {x})
           /\ SumFunctionOnSet(f, U) = SumFunctionOnSet(f, V \cup {x})
      BY <3>4
    <3> QED
      BY <2>0, <3>6, <3>7, <3>8, <3>9, <3>10
  <2> QED
    BY <2>1, <2>2
<1> HIDE DEF Good
<1>2. T \in Good
  BY <1>1, SubsetInduction
<1> QED
  BY <1>2 DEF Good

\* Functions that agree on a set have the same sum over it.
LEMMA SumSame ==
    ASSUME NEW f, NEW g, NEW S, IsFiniteSet(S), \A x \in S : f[x] = g[x]
    PROVE  SumFunctionOnSet(f, S) = SumFunctionOnSet(g, S)
<1> DEFINE Good == {T \in SUBSET S : SumFunctionOnSet(f, T) = SumFunctionOnSet(g, T)}
<1>1. ASSUME NEW T \in SUBSET S, \A U \in SUBSET T : U # T => U \in Good
      PROVE  T \in Good
  <2>1. CASE T = {}
    BY <2>1, SumEmpty
  <2>2. CASE T # {}
    <3> DEFINE x == CHOOSE x \in T : TRUE
    <3>1. x \in T
      BY <2>2
    <3>2. IsFiniteSet(T)
      BY FS_Subset
    <3>3. /\ SumFunctionOnSet(f, T) = f[x] + SumFunctionOnSet(f, T \ {x})
          /\ SumFunctionOnSet(g, T) = g[x] + SumFunctionOnSet(g, T \ {x})
      BY <2>2, <3>2, SumChosen
    <3>4. SumFunctionOnSet(f, T \ {x}) = SumFunctionOnSet(g, T \ {x})
      BY <1>1, <3>1
    <3> HIDE DEF x
    <3> QED
      BY <3>1, <3>3, <3>4
  <2> QED
    BY <2>1, <2>2
<1> HIDE DEF Good
<1>2. S \in Good
  BY <1>1, SubsetInduction
<1> QED
  BY <1>2 DEF Good

\* A sum in which one summand changes.
LEMMA SumChange ==
    ASSUME NEW f, NEW g, NEW S, IsFiniteSet(S), NEW e \in S,
           \A x \in S : f[x] \in Int /\ g[x] \in Int,
           \A x \in S : x # e => f[x] = g[x]
    PROVE  SumFunctionOnSet(g, S) = SumFunctionOnSet(f, S) - f[e] + g[e]
<1> DEFINE T == S \ {e}
<1>1. IsFiniteSet(T) /\ T \subseteq S
  BY FS_Subset
<1>2. SumFunctionOnSet(f, S) = f[e] + SumFunctionOnSet(f, T)
  BY SumElement
<1>3. SumFunctionOnSet(g, S) = g[e] + SumFunctionOnSet(g, T)
  BY SumElement
<1>4. \A x \in T : f[x] = g[x] /\ f[x] \in Int
  OBVIOUS
<1> HIDE DEF T
<1>5. SumFunctionOnSet(f, T) = SumFunctionOnSet(g, T)
  BY <1>1, <1>4, SumSame
<1>6. SumFunctionOnSet(f, T) \in Int
  BY <1>1, <1>4, SumType
<1> QED
  BY <1>2, <1>3, <1>5, <1>6

\* A sum of at most k for each element that has anything.
LEMMA SumBound ==
    ASSUME NEW f, NEW S, IsFiniteSet(S), NEW W, NEW k \in Nat,
           \A x \in S : f[x] \in 0 .. k /\ (x \notin W => f[x] = 0)
    PROVE  /\ SumFunctionOnSet(f, S) \in Nat
           /\ SumFunctionOnSet(f, S) <= k * Cardinality(S \cap W)
<1> DEFINE C(T) == Cardinality(T \cap W)
           Good == {T \in SUBSET S : /\ SumFunctionOnSet(f, T) \in Nat
                                     /\ SumFunctionOnSet(f, T) <= k * C(T)}
<1>1. ASSUME NEW T \in SUBSET S, \A U \in SUBSET T : U # T => U \in Good
      PROVE  T \in Good
  <2>0. IsFiniteSet(T) /\ IsFiniteSet(T \cap W) /\ C(T) \in Nat
    BY FS_Subset, FS_CardinalityType
  <2>1. CASE T = {}
    <3>1. k * C(T) \in Nat
      <4> HIDE DEF C
      <4> QED
        BY <2>0
    <3> QED
      BY <2>1, <3>1, SumEmpty
  <2>2. CASE T # {}
    <3> DEFINE x == CHOOSE x \in T : TRUE
               U == T \ {x}
    <3>1. x \in T /\ f[x] \in Nat /\ f[x] <= k /\ (x \notin W => f[x] = 0)
      BY <2>2
    <3>2. SumFunctionOnSet(f, T) = f[x] + SumFunctionOnSet(f, U)
      BY <2>0, <2>2, SumChosen
    <3>3. /\ SumFunctionOnSet(f, U) \in Nat
          /\ SumFunctionOnSet(f, U) <= k * C(U)
      BY <1>1, <3>1
    <3>4. C(U) \in Nat
      BY <2>0, FS_Subset, FS_CardinalityType
    <3>5. C(T) = IF x \in W THEN C(U) + 1 ELSE C(U)
      <4>1. CASE x \in W
        <5>1. x \in T \cap W /\ U \cap W = (T \cap W) \ {x}
          BY <3>1, <4>1
        <5>2. Cardinality((T \cap W) \ {x}) = Cardinality(T \cap W) - 1
          <6> DEFINE D == T \cap W
          <6>1. IsFiniteSet(D) /\ x \in D
            BY <2>0, <5>1
          <6> HIDE DEF x, D
          <6>2. Cardinality(D \ {x}) = Cardinality(D) - 1
            BY <6>1, FS_RemoveElement
          <6> QED
            BY <6>2 DEF D
        <5>3. C(U) = C(T) - 1
          BY <5>1, <5>2
        <5> HIDE DEF x, U, C
        <5> QED
          BY <2>0, <3>4, <4>1, <5>3
      <4>2. CASE x \notin W
        <5>1. U \cap W = T \cap W
          BY <4>2
        <5>2. C(U) = C(T)
          BY <5>1
        <5> HIDE DEF x, U, C
        <5> QED
          BY <4>2, <5>2
      <4> QED
        BY <4>1, <4>2
    <3>6. \A n \in Nat : k * (n + 1) = k * n + k /\ k * n \in Nat
      OBVIOUS
    <3>7. f[x] + SumFunctionOnSet(f, U) <= k * C(T)
      <4> DEFINE n == C(U)
                 total == SumFunctionOnSet(f, U)
      <4>1. n \in Nat /\ k * (n + 1) = k * n + k /\ k * n \in Nat
        BY <3>4, <3>6
      <4>2. total \in Nat /\ total <= k * n
        BY <3>3
      <4>3. C(T) = IF x \in W THEN n + 1 ELSE n
        BY <3>5
      <4>4. f[x] \in Nat /\ f[x] <= k /\ (x \notin W => f[x] = 0)
        BY <3>1
      <4> HIDE DEF n, total, x, C
      <4>5. f[x] + total <= k * C(T)
        <5>1. CASE x \in W
          BY <4>1, <4>2, <4>3, <4>4, <5>1
        <5>2. CASE x \notin W
          BY <4>1, <4>2, <4>3, <4>4, <5>2
        <5> QED
          BY <5>1, <5>2
      <4> QED
        BY <4>5 DEF total
    <3>8. SumFunctionOnSet(f, T) \in Nat
      BY <3>1, <3>2, <3>3
    <3> HIDE DEF x, U, C
    <3> QED
      BY <3>2, <3>7, <3>8
  <2> QED
    BY <2>1, <2>2
<1> HIDE DEF Good
<1>2. S \in Good
  BY <1>1, SubsetInduction
<1> QED
  BY <1>2 DEF Good

-----------------------------------------------------------------------------
(* The places of a list *)

Rank(A, i) == Cardinality({j \in A : j <= i})

LEMMA RankType ==
    ASSUME NEW A \in SUBSET Nat, IsFiniteSet(A), NEW i \in A
    PROVE  Rank(A, i) \in 1 .. Cardinality(A)
<1> DEFINE B == {j \in A : j <= i}
<1>1. B \subseteq A /\ i \in B
  OBVIOUS
<1> HIDE DEF B
<1>2. /\ IsFiniteSet(B) /\ Cardinality(B) <= Cardinality(A)
      /\ Cardinality(B) \in Nat /\ Cardinality(A) \in Nat
  BY <1>1, FS_Subset, FS_CardinalityType
<1>3. Cardinality(B) # 0
  BY <1>1, <1>2, FS_EmptySet
<1> QED
  BY <1>2, <1>3 DEF Rank, B

LEMMA RankGrows ==
    ASSUME NEW A \in SUBSET Nat, IsFiniteSet(A), NEW i \in A, NEW j \in A, i < j
    PROVE  Rank(A, i) < Rank(A, j)
<1> DEFINE B == {k \in A : k <= i}
           C == {k \in A : k <= j}
<1>0. i \in Nat /\ j \in Nat /\ \A k \in A : k \in Nat
  OBVIOUS
<1>1. B \subseteq C /\ C \subseteq A /\ j \in C /\ j \notin B
  <2>1. \A k \in Nat : k <= i => k <= j
    BY <1>0
  <2>2. j <= j /\ ~ (j <= i)
    BY <1>0
  <2> QED
    BY <1>0, <2>1, <2>2
<1> HIDE DEF B, C
<1>2. IsFiniteSet(C)
  BY <1>1, FS_Subset
<1>3. /\ Cardinality(B) <= Cardinality(C) /\ Cardinality(B) # Cardinality(C)
      /\ Cardinality(B) \in Nat /\ Cardinality(C) \in Nat
  BY <1>1, <1>2, FS_Subset, FS_CardinalityType
<1> QED
  BY <1>3 DEF Rank, B, C

\* Every place is taken, and by one element.
LEMMA NthProperties ==
    ASSUME NEW A \in SUBSET Nat, IsFiniteSet(A), NEW n \in 1 .. Cardinality(A)
    PROVE  /\ Nth(A, n) \in A /\ Rank(A, Nth(A, n)) = n
           /\ \A i \in A : Rank(A, i) = n => i = Nth(A, n)
<1> DEFINE f == [i \in A |-> Rank(A, i)]
           T == 1 .. Cardinality(A)
<1>1. f \in [A -> T]
  BY RankType
<1>2. \A i, j \in A : Rank(A, i) = Rank(A, j) => i = j
  <2> SUFFICES ASSUME NEW i \in A, NEW j \in A, Rank(A, i) = Rank(A, j), i # j
               PROVE  FALSE
    OBVIOUS
  <2>1. i < j \/ j < i
    OBVIOUS
  <2>2. Rank(A, i) \in Nat /\ Rank(A, j) \in Nat
    BY RankType
  <2> QED
    BY <2>1, <2>2, RankGrows
<1>3. f \in Injection(A, T)
  BY <1>1, <1>2 DEF Injection, IsInjective
<1>4. IsFiniteSet(T) /\ Cardinality(T) = Cardinality(A)
  BY FS_CardinalityType, FS_Interval
<1>5. f \in Surjection(A, T)
  <2> HIDE DEF f, T
  <2> QED
    BY <1>3, <1>4, FS_Injection
<1>6. \E i \in A : Rank(A, i) = n
  BY <1>5 DEF Surjection
<1>7. Nth(A, n) = CHOOSE i \in A : Rank(A, i) = n
  BY DEF Nth, Rank
<1>8. Nth(A, n) \in A /\ Rank(A, Nth(A, n)) = n
  BY <1>6, <1>7
<1> QED
  BY <1>2, <1>8

\* What is left out does not move the first elements when it comes after them.
LEMMA SamePlaces ==
    ASSUME NEW A \in SUBSET Nat, IsFiniteSet(A), NEW M \in SUBSET A, NEW k \in Nat,
           \A i \in A : Rank(A, i) <= k => i \in M,
           NEW p \in 1 .. Cardinality(A), p <= k
    PROVE  p <= Cardinality(M) /\ Nth(M, p) = Nth(A, p)
<1> DEFINE i == Nth(A, p)
<1>1. i \in A /\ Rank(A, i) = p /\ i \in M
  <2>1. Nth(A, p) \in A /\ Rank(A, Nth(A, p)) = p
    BY NthProperties
  <2> QED
    BY <2>1
<1> HIDE DEF i
<1>2. {j \in M : j <= i} = {j \in A : j <= i}
  <2> SUFFICES ASSUME NEW j \in A, j <= i PROVE j \in M
    OBVIOUS
  <2>1. Rank(A, j) \in Nat /\ Rank(A, i) \in Nat
    BY <1>1, RankType
  <2>2. Rank(A, j) <= Rank(A, i)
    <3>1. CASE j = i
      BY <2>1, <3>1
    <3>2. CASE j # i
      <4>1. j < i
        BY <1>1, <3>2
      <4> QED
        BY <1>1, <2>1, <4>1, RankGrows
    <3> QED
      BY <3>1, <3>2
  <2> QED
    BY <1>1, <2>1, <2>2
<1>3. Rank(M, i) = p
  BY <1>1, <1>2 DEF Rank
<1>4. IsFiniteSet(M) /\ M \in SUBSET Nat
  BY FS_Subset
<1>5. p \in 1 .. Cardinality(M)
  BY <1>1, <1>3, <1>4, RankType
<1>6. \A j \in M : Rank(M, j) = p => j = Nth(M, p)
  BY <1>4, <1>5, NthProperties
<1>7. i = Nth(M, p)
  BY <1>1, <1>3, <1>6
<1> QED
  BY <1>5, <1>7 DEF i

\* What a filter makes of a list.
LEMMA ElementsAtProperties ==
    ASSUME NEW S, NEW s \in Seq(S), NEW A \in SUBSET DOMAIN s
    PROVE  /\ A \in SUBSET Nat /\ IsFiniteSet(A) /\ Cardinality(A) \in Nat
           /\ ElementsAt(s, A) \in Seq(S) /\ Len(ElementsAt(s, A)) = Cardinality(A)
           /\ \A n \in 1 .. Cardinality(A) :
                 Nth(A, n) \in A /\ ElementsAt(s, A)[n] = s[Nth(A, n)]
           /\ \A m, n \in 1 .. Cardinality(A) : Nth(A, m) = Nth(A, n) => m = n
           /\ \A i \in A : \E n \in 1 .. Cardinality(A) : Nth(A, n) = i
<1>1. Len(s) \in Nat /\ DOMAIN s = 1 .. Len(s) /\ \A i \in 1 .. Len(s) : s[i] \in S
  BY LenProperties, ElementOfSeq
<1>2. A \in SUBSET Nat
  BY <1>1
<1>3. IsFiniteSet(A) /\ Cardinality(A) \in Nat
  <2>1. IsFiniteSet(1 .. Len(s))
    BY <1>1, FS_Interval
  <2> QED
    BY <1>1, <2>1, FS_Subset, FS_CardinalityType
<1>4. \A n \in 1 .. Cardinality(A) :
         /\ Nth(A, n) \in A /\ Rank(A, Nth(A, n)) = n
         /\ \A i \in A : Rank(A, i) = n => i = Nth(A, n)
  BY <1>2, <1>3, NthProperties
<1>5. \A n \in 1 .. Cardinality(A) : s[Nth(A, n)] \in S
  BY <1>1, <1>4
<1>6. ElementsAt(s, A) \in [1 .. Cardinality(A) -> S]
  BY <1>5 DEF ElementsAt
<1>7. ElementsAt(s, A) \in Seq(S)
  BY <1>3, <1>6, SeqDef
<1>8. Len(ElementsAt(s, A)) = Cardinality(A)
  BY <1>3, <1>6, <1>7, LenProperties
<1>9. \A m, n \in 1 .. Cardinality(A) : Nth(A, m) = Nth(A, n) => m = n
  <2> SUFFICES ASSUME NEW m \in 1 .. Cardinality(A), NEW n \in 1 .. Cardinality(A),
                      Nth(A, m) = Nth(A, n)
               PROVE  m = n
    OBVIOUS
  <2>1. Rank(A, Nth(A, m)) = m /\ Rank(A, Nth(A, n)) = n
    BY <1>4
  <2> QED
    BY <2>1
<1>10. ASSUME NEW i \in A PROVE \E n \in 1 .. Cardinality(A) : Nth(A, n) = i
  <2>1. Rank(A, i) \in 1 .. Cardinality(A)
    BY <1>2, <1>3, RankType
  <2> QED
    BY <1>4, <2>1
<1> QED
  BY <1>2, <1>3, <1>4, <1>7, <1>8, <1>9, <1>10 DEF ElementsAt

=============================================================================
