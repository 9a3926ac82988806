------------------------------ MODULE SumsProofs ------------------------------
(***************************************************************************)
(* Facts about SumOver that the proofs of the program's modules cite: the   *)
(* sum is the one expected of it, in whatever order it is taken.  The two   *)
(* induction principles speak of a set instead of a predicate; each comes   *)
(* from the well-foundedness of the strict subsets of a finite set.         *)
(***************************************************************************)
EXTENDS Sums, TLAPS, FiniteSetTheorems, WellFoundedInduction

(* Induction over the subsets of a finite set. *)
LEMMA SubsetInduction ==
  ASSUME NEW S, IsFiniteSet(S), NEW Good,
         \A T \in SUBSET S : (\A U \in SUBSET T : U # T => U \in Good) => T \in Good
  PROVE  SUBSET S \subseteq Good
<1> DEFINE Bad == (SUBSET S) \ Good
<1> SUFFICES ASSUME Bad # {} PROVE FALSE
  OBVIOUS
<1>1. IsWellFoundedOn(StrictSubsetOrdering(S), SUBSET S)
  <2>1. IsWellFoundedOn(StrictSubsetOrdering(S), FiniteSubsetsOf(S))
    BY FS_StrictSubsetOrderingWellFounded
  <2>2. FiniteSubsetsOf(S) = SUBSET S
    BY FS_FiniteSubsetsOfFinite
  <2> QED BY <2>1, <2>2
<1>2. PICK T \in Bad : \A U \in Bad : <<U, T>> \notin StrictSubsetOrdering(S)
  <2>1. Bad \subseteq SUBSET S
    OBVIOUS
  <2> HIDE DEF Bad
  <2> QED BY <1>1, <2>1, WFMin
<1>3. \A U \in SUBSET T : U # T => U \in Good
  <2> SUFFICES ASSUME NEW U \in SUBSET T, U # T PROVE U \in Good
    OBVIOUS
  <2>1. <<U, T>> \in StrictSubsetOrdering(S)
    BY DEF StrictSubsetOrdering
  <2> QED BY <2>1, <1>2
<1> QED BY <1>3

(* Induction over the natural numbers. *)
LEMMA NatSetInduction ==
  ASSUME NEW Good, 0 \in Good, \A n \in Nat : n \in Good => n + 1 \in Good
  PROVE  Nat \subseteq Good
<1> SUFFICES ASSUME NEW n \in Nat, n \notin Good PROVE FALSE
  OBVIOUS
<1> DEFINE Bad == {0 .. k : k \in {j \in 0 .. n : j \notin Good}}
<1>1. IsWellFoundedOn(StrictSubsetOrdering(0 .. n), SUBSET (0 .. n))
  <2>1. IsWellFoundedOn(StrictSubsetOrdering(0 .. n), FiniteSubsetsOf(0 .. n))
    BY FS_StrictSubsetOrderingWellFounded
  <2>2. IsFiniteSet(0 .. n)
    BY FS_Interval
  <2>3. FiniteSubsetsOf(0 .. n) = SUBSET (0 .. n)
    BY <2>2, FS_FiniteSubsetsOfFinite
  <2> QED BY <2>1, <2>3
<1>2. PICK T \in Bad : \A U \in Bad : <<U, T>> \notin StrictSubsetOrdering(0 .. n)
  <2>1. Bad \subseteq SUBSET (0 .. n) /\ Bad # {}
    OBVIOUS
  <2> HIDE DEF Bad
  <2> QED BY <1>1, <2>1, WFMin
<1>3. PICK k \in 0 .. n : k \notin Good /\ T = 0 .. k
  OBVIOUS
<1>4. k - 1 \in 0 .. n /\ k - 1 \notin Good
  BY <1>3
<1>5. 0 .. k - 1 \in Bad
  BY <1>4
<1>6. <<0 .. k - 1, 0 .. k>> \in StrictSubsetOrdering(0 .. n)
  <2>1. k \in 0 .. k /\ k \notin 0 .. k - 1
    BY <1>4
  <2> QED BY <1>4, <2>1 DEF StrictSubsetOrdering
<1> QED BY <1>2, <1>3, <1>5, <1>6

-------------------------------------------------------------------------------
(* The recursive function the community modules compute the sum with. *)

Step(f, g, s) ==
    IF s = {} THEN 0 ELSE LET x == CHOOSE x \in s : TRUE IN f[x] + g[s \ {x}]

Computes(f, g, D) == g = [s \in D |-> Step(f, g, s)]

Partial(f, S) == CHOOSE g : Computes(f, g, SUBSET S)

(* SumOver is the value of that function. *)
LEMMA SumIsPartial ==
  ASSUME NEW f, NEW S
  PROVE  SumOver(f, S) = Partial(f, S)[S]
BY DEF SumOver, MapThenSumSet, MapThenFoldSet, Step, Computes, Partial

(* The function exists on the subsets of a finite set. *)
LEMMA PartialExists ==
  ASSUME NEW f, NEW S, IsFiniteSet(S)
  PROVE  Computes(f, Partial(f, S), SUBSET S)
<1> DEFINE Upto(n) == {s \in SUBSET S : Cardinality(s) <= n}
           Good == {n \in Nat : \E g : Computes(f, g, Upto(n))}
<1>1. 0 \in Good
  <2> DEFINE g == [s \in Upto(0) |-> 0]
  <2>1. \A s \in Upto(0) : s = {}
    <3> SUFFICES ASSUME NEW s \in Upto(0) PROVE s = {}
      OBVIOUS
    <3>1. IsFiniteSet(s)
      BY FS_Subset
    <3>2. Cardinality(s) \in Nat /\ Cardinality(s) <= 0
      BY <3>1, FS_CardinalityType
    <3> QED BY <3>1, <3>2, FS_EmptySet
  <2>2. g = [s \in Upto(0) |-> Step(f, g, s)]
    BY <2>1 DEF Step
  <2> QED BY <2>2 DEF Computes
<1>2. ASSUME NEW n \in Nat, n \in Good PROVE n + 1 \in Good
  <2> PICK g : Computes(f, g, Upto(n))
    BY <1>2
  <2> DEFINE h == [s \in Upto(n + 1) |-> Step(f, g, s)]
  <2>1. Upto(n) \subseteq Upto(n + 1)
    <3> SUFFICES ASSUME NEW s \in Upto(n) PROVE Cardinality(s) <= n + 1
      OBVIOUS
    <3>1. IsFiniteSet(s)
      BY FS_Subset
    <3>2. Cardinality(s) \in Nat
      BY <3>1, FS_CardinalityType
    <3> QED BY <3>2
  <2>2. \A s \in Upto(n) : h[s] = g[s]
    BY <2>1 DEF Computes
  <2>3. \A s \in Upto(n + 1) : \A x \in s : s \ {x} \in Upto(n)
    <3> SUFFICES ASSUME NEW s \in Upto(n + 1), NEW x \in s
                 PROVE  Cardinality(s \ {x}) <= n
      OBVIOUS
    <3>1. IsFiniteSet(s)
      BY FS_Subset
    <3>2. Cardinality(s) \in Nat /\ Cardinality(s \ {x}) = Cardinality(s) - 1
      BY <3>1, FS_CardinalityType, FS_RemoveElement
    <3> QED BY <3>2
  <2>4. \A s \in Upto(n + 1) : Step(f, h, s) = Step(f, g, s)
    <3> SUFFICES ASSUME NEW s \in Upto(n + 1), s # {}
                 PROVE  Step(f, h, s) = Step(f, g, s)
      BY DEF Step
    <3> DEFINE x == CHOOSE x \in s : TRUE
    <3>1. x \in s
      OBVIOUS
    <3>2. h[s \ {x}] = g[s \ {x}]
      BY <3>1, <2>2, <2>3
    <3> QED BY <3>2 DEF Step
  <2>5. Computes(f, h, Upto(n + 1))
    BY <2>4 DEF Computes
  <2>6. \E k : Computes(f, k, Upto(n + 1))
    <3> HIDE DEF h, Upto
    <3> QED BY <2>5
  <2>7. n + 1 \in Nat
    OBVIOUS
  <2> HIDE DEF h, Upto
  <2> QED BY <2>6, <2>7
<1>3. Nat \subseteq Good
  <2> HIDE DEF Good
  <2> QED BY <1>1, <1>2, NatSetInduction
<1>4. Cardinality(S) \in Nat
  BY FS_CardinalityType
<1>5. Upto(Cardinality(S)) = SUBSET S
  BY FS_Subset
<1>6. \E g : Computes(f, g, SUBSET S)
  BY <1>3, <1>4, <1>5
<1> QED BY <1>6 DEF Partial

(* It says the same of a set, whatever the larger set it was built for. *)
LEMMA PartialAgrees ==
  ASSUME NEW f, NEW S, IsFiniteSet(S), NEW T \in SUBSET S
  PROVE  Partial(f, S)[T] = SumOver(f, T)
<1> DEFINE g == Partial(f, S)
           h == Partial(f, T)
           Good == {s \in SUBSET T : g[s] = h[s]}
<1>1. IsFiniteSet(T)
  BY FS_Subset
<1>2. Computes(f, g, SUBSET S) /\ Computes(f, h, SUBSET T)
  BY <1>1, PartialExists
<1>3. ASSUME NEW s \in SUBSET T, \A u \in SUBSET s : u # s => u \in Good
      PROVE  s \in Good
  <2>1. g[s] = Step(f, g, s) /\ h[s] = Step(f, h, s)
    <3> HIDE DEF g, h
    <3> QED BY <1>2 DEF Computes
  <2>2. CASE s = {}
    BY <2>1, <2>2 DEF Step
  <2>3. CASE s # {}
    <3> DEFINE x == CHOOSE x \in s : TRUE
    <3>1. x \in s
      BY <2>3
    <3>2. g[s \ {x}] = h[s \ {x}]
      BY <3>1, <1>3
    <3> QED BY <2>1, <2>3, <3>2 DEF Step
  <2> QED BY <2>2, <2>3
<1>4. SUBSET T \subseteq Good
  <2> HIDE DEF Good
  <2> QED BY <1>1, <1>3, SubsetInduction
<1>5. g[T] = h[T]
  BY <1>4
<1> QED BY <1>5, SumIsPartial

-------------------------------------------------------------------------------
(* Nothing adds up to zero. *)
LEMMA SumEmpty ==
  ASSUME NEW f
  PROVE  SumOver(f, {}) = 0
<1>1. Computes(f, Partial(f, {}), SUBSET {})
  BY PartialExists, FS_EmptySet
<1>2. Partial(f, {})[{}] = Step(f, Partial(f, {}), {})
  BY <1>1 DEF Computes
<1> QED BY <1>2, SumIsPartial DEF Step

(* The sum splits at the member the definition takes first. *)
LEMMA SumFirst ==
  ASSUME NEW f, NEW S, IsFiniteSet(S), S # {}
  PROVE  \E x \in S : SumOver(f, S) = f[x] + SumOver(f, S \ {x})
<1> DEFINE g == Partial(f, S)
           x == CHOOSE x \in S : TRUE
<1>1. x \in S
  OBVIOUS
<1>2. g[S] = Step(f, g, S)
  <2>1. Computes(f, g, SUBSET S)
    BY PartialExists
  <2> HIDE DEF g
  <2> QED BY <2>1 DEF Computes
<1>3. g[S] = f[x] + g[S \ {x}]
  BY <1>2 DEF Step
<1>4. g[S] = SumOver(f, S) /\ g[S \ {x}] = SumOver(f, S \ {x})
  BY PartialAgrees
<1> HIDE DEF g, x
<1> QED BY <1>1, <1>3, <1>4

(* A sum of integers is an integer. *)
LEMMA SumInt ==
  ASSUME NEW f, NEW S, IsFiniteSet(S), \A x \in S : f[x] \in Int
  PROVE  SumOver(f, S) \in Int
<1> DEFINE Good == {T \in SUBSET S : SumOver(f, T) \in Int}
<1>1. ASSUME NEW T \in SUBSET S, \A U \in SUBSET T : U # T => U \in Good
      PROVE  T \in Good
  <2>1. IsFiniteSet(T)
    BY FS_Subset
  <2>2. CASE T = {}
    BY <2>2, SumEmpty
  <2>3. CASE T # {}
    <3>1. PICK x \in T : SumOver(f, T) = f[x] + SumOver(f, T \ {x})
      BY <2>1, <2>3, SumFirst
    <3>2. SumOver(f, T \ {x}) \in Int
      BY <1>1
    <3> QED BY <3>1, <3>2
  <2> QED BY <2>2, <2>3
<1>2. SUBSET S \subseteq Good
  <2> HIDE DEF Good
  <2> QED BY <1>1, SubsetInduction
<1> QED BY <1>2

(* A sum of natural numbers is a natural number. *)
LEMMA SumNat ==
  ASSUME NEW f, NEW S, IsFiniteSet(S), \A x \in S : f[x] \in Nat
  PROVE  SumOver(f, S) \in Nat
<1> DEFINE Good == {T \in SUBSET S : SumOver(f, T) \in Nat}
<1>1. ASSUME NEW T \in SUBSET S, \A U \in SUBSET T : U # T => U \in Good
      PROVE  T \in Good
  <2>1. IsFiniteSet(T)
    BY FS_Subset
  <2>2. CASE T = {}
    BY <2>2, SumEmpty
  <2>3. CASE T # {}
    <3>1. PICK x \in T : SumOver(f, T) = f[x] + SumOver(f, T \ {x})
      BY <2>1, <2>3, SumFirst
    <3>2. SumOver(f, T \ {x}) \in Nat
      BY <1>1
    <3> QED BY <3>1, <3>2
  <2> QED BY <2>2, <2>3
<1>2. SUBSET S \subseteq Good
  <2> HIDE DEF Good
  <2> QED BY <1>1, SubsetInduction
<1> QED BY <1>2

(* The sum splits at any member: the order does not matter. *)
LEMMA SumSplit ==
  ASSUME NEW f, NEW S, IsFiniteSet(S), \A x \in S : f[x] \in Int, NEW y \in S
  PROVE  SumOver(f, S) = f[y] + SumOver(f, S \ {y})
<1> DEFINE Good == {T \in SUBSET S :
                      \A z \in T : SumOver(f, T) = f[z] + SumOver(f, T \ {z})}
<1>1. ASSUME NEW T \in SUBSET S, \A U \in SUBSET T : U # T => U \in Good
      PROVE  T \in Good
  <2> SUFFICES ASSUME NEW z \in T
               PROVE  SumOver(f, T) = f[z] + SumOver(f, T \ {z})
    OBVIOUS
  <2>1. IsFiniteSet(T)
    BY FS_Subset
  <2>2. PICK x \in T : SumOver(f, T) = f[x] + SumOver(f, T \ {x})
    BY <2>1, SumFirst
  <2>3. CASE x = z
    BY <2>2, <2>3
  <2>4. CASE x # z
    <3>1. T \ {x} \in Good /\ T \ {z} \in Good
      BY <1>1
    <3>2. SumOver(f, T \ {x}) = f[z] + SumOver(f, (T \ {x}) \ {z})
      BY <3>1, <2>4
    <3>3. SumOver(f, T \ {z}) = f[x] + SumOver(f, (T \ {z}) \ {x})
      BY <3>1, <2>4
    <3>4. (T \ {x}) \ {z} = (T \ {z}) \ {x}
      OBVIOUS
    <3>5. SumOver(f, (T \ {z}) \ {x}) \in Int
      <4>1. IsFiniteSet((T \ {z}) \ {x})
        BY <2>1, FS_Subset
      <4> QED BY <4>1, SumInt
    <3>6. f[x] \in Int /\ f[z] \in Int
      OBVIOUS
    <3> DEFINE rest == SumOver(f, (T \ {z}) \ {x})
    <3>7. SumOver(f, T) = f[x] + (f[z] + rest)
      BY <2>2, <3>2, <3>4
    <3>8. SumOver(f, T \ {z}) = f[x] + rest
      BY <3>3
    <3> HIDE DEF rest
    <3> QED BY <3>7, <3>8, <3>5, <3>6 DEF rest
  <2> QED BY <2>3, <2>4
<1>2. SUBSET S \subseteq Good
  <2> HIDE DEF Good
  <2> QED BY <1>1, SubsetInduction
<1> QED BY <1>2

(* Functions that agree on the set have the same sum. *)
LEMMA SumAgree ==
  ASSUME NEW f, NEW h, NEW S, IsFiniteSet(S), \A x \in S : f[x] = h[x]
  PROVE  SumOver(f, S) = SumOver(h, S)
<1> DEFINE Good == {T \in SUBSET S : Partial(f, S)[T] = Partial(h, S)[T]}
<1>1. /\ Computes(f, Partial(f, S), SUBSET S)
      /\ Computes(h, Partial(h, S), SUBSET S)
  BY PartialExists
<1>2. ASSUME NEW T \in SUBSET S, \A U \in SUBSET T : U # T => U \in Good
      PROVE  T \in Good
  <2>1. /\ Partial(f, S)[T] = Step(f, Partial(f, S), T)
        /\ Partial(h, S)[T] = Step(h, Partial(h, S), T)
    BY <1>1 DEF Computes
  <2>2. CASE T = {}
    BY <2>1, <2>2 DEF Step
  <2>3. CASE T # {}
    <3> DEFINE x == CHOOSE x \in T : TRUE
    <3>1. x \in T /\ f[x] = h[x]
      BY <2>3
    <3>2. Partial(f, S)[T \ {x}] = Partial(h, S)[T \ {x}]
      BY <3>1, <1>2
    <3> QED BY <2>1, <2>3, <3>1, <3>2 DEF Step
  <2> QED BY <2>2, <2>3
<1>3. SUBSET S \subseteq Good
  <2> HIDE DEF Good
  <2> QED BY <1>2, SubsetInduction
<1>4. Partial(f, S)[S] = Partial(h, S)[S]
  BY <1>3
<1> QED BY <1>4, SumIsPartial

(* Changing f at one member changes the sum by as much. *)
LEMMA SumChange ==
  ASSUME NEW f, NEW h, NEW S, IsFiniteSet(S), NEW y \in S,
         \A x \in S : f[x] \in Int /\ h[x] \in Int,
         \A x \in S \ {y} : h[x] = f[x]
  PROVE  SumOver(h, S) = SumOver(f, S) - f[y] + h[y]
<1>1. IsFiniteSet(S \ {y})
  BY FS_Subset
<1>2. SumOver(f, S) = f[y] + SumOver(f, S \ {y})
  BY SumSplit
<1>3. SumOver(h, S) = h[y] + SumOver(h, S \ {y})
  BY SumSplit
<1>4. SumOver(f, S \ {y}) = SumOver(h, S \ {y})
  BY <1>1, SumAgree
<1>5. SumOver(f, S \ {y}) \in Int
  BY <1>1, SumInt
<1> QED BY <1>2, <1>3, <1>4, <1>5

(* Sums add up member by member. *)
LEMMA SumAdd ==
  ASSUME NEW f, NEW g, NEW h, NEW S, IsFiniteSet(S),
         \A x \in S : f[x] \in Int /\ g[x] \in Int /\ h[x] = f[x] + g[x]
  PROVE  SumOver(h, S) = SumOver(f, S) + SumOver(g, S)
<1> DEFINE Good == {T \in SUBSET S : SumOver(h, T) = SumOver(f, T) + SumOver(g, T)}
<1>1. ASSUME NEW T \in SUBSET S, \A U \in SUBSET T : U # T => U \in Good
      PROVE  T \in Good
  <2>1. IsFiniteSet(T)
    BY FS_Subset
  <2>2. CASE T = {}
    BY <2>2, SumEmpty
  <2>3. CASE T # {}
    <3>1. PICK x \in T : TRUE
      BY <2>3
    <3> DEFINE R == T \ {x}
    <3>2. IsFiniteSet(R)
      BY <2>1, FS_Subset
    <3>3. SumOver(f, R) \in Int /\ SumOver(g, R) \in Int
      BY <3>2, SumInt
    <3>4. SumOver(h, R) = SumOver(f, R) + SumOver(g, R)
      BY <1>1, <3>1
    <3>5. SumOver(f, T) = f[x] + SumOver(f, R)
      BY <2>1, SumSplit
    <3>6. SumOver(g, T) = g[x] + SumOver(g, R)
      BY <2>1, SumSplit
    <3>7. SumOver(h, T) = h[x] + SumOver(h, R)
      BY <2>1, SumSplit
    <3>8. f[x] \in Int /\ g[x] \in Int /\ h[x] = f[x] + g[x]
      BY <3>1
    <3> HIDE DEF R
    <3> QED BY <3>3, <3>4, <3>5, <3>6, <3>7, <3>8
  <2> QED BY <2>2, <2>3
<1>2. SUBSET S \subseteq Good
  <2> HIDE DEF Good
  <2> QED BY <1>1, SubsetInduction
<1> QED BY <1>2

(* A function that is no larger at any member has no larger a sum. *)
LEMMA SumMono ==
  ASSUME NEW f, NEW h, NEW S, IsFiniteSet(S),
         \A x \in S : f[x] \in Int /\ h[x] \in Int /\ f[x] <= h[x]
  PROVE  SumOver(f, S) <= SumOver(h, S)
<1> DEFINE d == [x \in S |-> h[x] - f[x]]
<1>1. \A x \in S : d[x] \in Nat
  OBVIOUS
<1>2. \A x \in S : f[x] \in Int /\ d[x] \in Int /\ h[x] = f[x] + d[x]
  OBVIOUS
<1> HIDE DEF d
<1>3. SumOver(h, S) = SumOver(f, S) + SumOver(d, S)
  BY <1>2, SumAdd
<1>4. SumOver(f, S) \in Int /\ SumOver(d, S) \in Nat
  BY <1>1, SumInt, SumNat
<1> QED BY <1>3, <1>4

(* A common factor may be taken out of a sum. *)
LEMMA SumScale ==
  ASSUME NEW f, NEW h, NEW c \in Int, NEW S, IsFiniteSet(S),
         \A x \in S : f[x] \in Int /\ h[x] = c * f[x]
  PROVE  SumOver(h, S) = c * SumOver(f, S)
<1> DEFINE Good == {T \in SUBSET S : SumOver(h, T) = c * SumOver(f, T)}
<1>1. ASSUME NEW T \in SUBSET S, \A U \in SUBSET T : U # T => U \in Good
      PROVE  T \in Good
  <2>1. IsFiniteSet(T)
    BY FS_Subset
  <2>2. CASE T = {}
    BY <2>2, SumEmpty
  <2>3. CASE T # {}
    <3>1. PICK x \in T : TRUE
      BY <2>3
    <3> DEFINE R == T \ {x}
    <3>2. IsFiniteSet(R)
      BY <2>1, FS_Subset
    <3>3. SumOver(f, R) \in Int
      BY <3>2, SumInt
    <3>4. SumOver(h, R) = c * SumOver(f, R)
      BY <1>1, <3>1
    <3>5. SumOver(f, T) = f[x] + SumOver(f, R)
      BY <2>1, SumSplit
    <3>6. SumOver(h, T) = h[x] + SumOver(h, R)
      <4>1. \A y \in T : h[y] \in Int
        OBVIOUS
      <4> QED BY <2>1, <4>1, SumSplit
    <3>7. f[x] \in Int /\ h[x] = c * f[x]
      BY <3>1
    <3>8. c * (f[x] + SumOver(f, R)) = c * f[x] + c * SumOver(f, R)
      <4>1. \A u, v \in Int : c * (u + v) = c * u + c * v
        OBVIOUS
      <4> QED BY <4>1, <3>3, <3>7
    <3> HIDE DEF R
    <3>9. SumOver(h, T) = c * f[x] + c * SumOver(f, R)
      BY <3>4, <3>6, <3>7
    <3>10. SumOver(h, T) = c * SumOver(f, T)
      BY <3>5, <3>8, <3>9
    <3> QED BY <3>10
  <2> QED BY <2>2, <2>3
<1>2. SUBSET S \subseteq Good
  <2> HIDE DEF Good
  <2> QED BY <1>1, SubsetInduction
<1> QED BY <1>2

(* Members that count for nothing may be left out of a sum. *)
LEMMA SumSupport ==
  ASSUME NEW f, NEW S, IsFiniteSet(S), \A x \in S : f[x] \in Int,
         NEW T \in SUBSET S, \A x \in S \ T : f[x] = 0
  PROVE  SumOver(f, S) = SumOver(f, T)
<1> DEFINE D == S \ T
           Good == {U \in SUBSET D : SumOver(f, T \cup U) = SumOver(f, T)}
<1>1. IsFiniteSet(D)
  BY FS_Subset
<1>2. ASSUME NEW U \in SUBSET D, \A V \in SUBSET U : V # U => V \in Good
      PROVE  U \in Good
  <2>1. CASE U = {}
    <3>1. T \cup U = T
      BY <2>1
    <3> QED BY <3>1
  <2>2. CASE U # {}
    <3>1. PICK x \in U : TRUE
      BY <2>2
    <3>2. SumOver(f, T \cup (U \ {x})) = SumOver(f, T)
      BY <1>2, <3>1
    <3>3. IsFiniteSet(T \cup U) /\ IsFiniteSet(T)
      BY FS_Subset
    <3>4. SumOver(f, T \cup U) = f[x] + SumOver(f, (T \cup U) \ {x})
      <4>1. \A y \in T \cup U : f[y] \in Int
        OBVIOUS
      <4>2. x \in T \cup U
        BY <3>1
      <4> QED BY <3>3, <4>1, <4>2, SumSplit
    <3>5. (T \cup U) \ {x} = T \cup (U \ {x})
      BY <3>1
    <3>6. f[x] = 0
      BY <3>1
    <3>7. SumOver(f, T) \in Int
      BY <3>3, SumInt
    <3>8. SumOver(f, T \cup U) = 0 + SumOver(f, T)
      BY <3>2, <3>4, <3>5, <3>6
    <3>9. SumOver(f, T \cup U) = SumOver(f, T)
      <4> DEFINE t == SumOver(f, T)
      <4> HIDE DEF t
      <4> QED BY <3>7, <3>8 DEF t
    <3> QED BY <3>9
  <2> QED BY <2>1, <2>2
<1>3. D \in Good
  <2>1. SUBSET D \subseteq Good
    <3> HIDE DEF Good, D
    <3> QED BY <1>1, <1>2, SubsetInduction
  <2> QED BY <2>1
<1>4. T \cup D = S
  OBVIOUS
<1> QED BY <1>3, <1>4

(* A sum of natural numbers is no less than any of them. *)
LEMMA SumMember ==
  ASSUME NEW f, NEW S, IsFiniteSet(S), \A x \in S : f[x] \in Nat, NEW y \in S
  PROVE  f[y] <= SumOver(f, S)
<1>1. IsFiniteSet(S \ {y}) /\ \A x \in S : f[x] \in Int
  BY FS_Subset
<1>2. SumOver(f, S) = f[y] + SumOver(f, S \ {y})
  BY <1>1, SumSplit
<1>3. SumOver(f, S \ {y}) \in Nat
  BY <1>1, SumNat
<1> QED BY <1>2, <1>3

(* A double sum may be taken in either order. *)
LEMMA SumSwap ==
  ASSUME NEW S, IsFiniteSet(S), NEW T, IsFiniteSet(T), NEW m,
         \A x \in S : \A y \in T : m[x][y] \in Int,
         NEW f, \A x \in S : f[x] = SumOver(m[x], T)
  PROVE  SumOver(f, S) = SumOver([y \in T |-> SumOver([x \in S |-> m[x][y]], S)], T)
<1> DEFINE col(y) == [x \in S |-> m[x][y]]
           g(U) == [y \in T |-> SumOver(col(y), U)]
           Good == {U \in SUBSET S : SumOver(f, U) = SumOver(g(U), T)}
<1>1. \A x \in S : f[x] \in Int
  BY SumInt
<1>2. \A U \in SUBSET S : \A y \in T : SumOver(col(y), U) \in Int
  <2> SUFFICES ASSUME NEW U \in SUBSET S, NEW y \in T PROVE SumOver(col(y), U) \in Int
    OBVIOUS
  <2>1. IsFiniteSet(U)
    BY FS_Subset
  <2>2. \A x \in U : col(y)[x] \in Int
    OBVIOUS
  <2> HIDE DEF col
  <2> QED BY <2>1, <2>2, SumInt
<1>3. ASSUME NEW U \in SUBSET S, \A V \in SUBSET U : V # U => V \in Good
      PROVE  U \in Good
  <2>1. IsFiniteSet(U)
    BY FS_Subset
  <2>2. CASE U = {}
    <3>1. \A y \in T : g(U)[y] = 0
      BY <2>2, SumEmpty
    <3>2. SumOver(g(U), T) = 0
      <4>1. \A y \in T : g(U)[y] \in Int
        BY <3>1
      <4>2. \A y \in T \ {} : g(U)[y] = 0
        BY <3>1
      <4> HIDE DEF g
      <4>3. SumOver(g(U), T) = SumOver(g(U), {})
        BY <4>1, <4>2, SumSupport
      <4> QED BY <4>3, SumEmpty
    <3> QED BY <2>2, <3>2, SumEmpty
  <2>3. CASE U # {}
    <3>1. PICK x \in U : TRUE
      BY <2>3
    <3> DEFINE R == U \ {x}
    <3>2. IsFiniteSet(R) /\ R \in SUBSET S
      BY <2>1, FS_Subset
    <3>3. SumOver(f, R) = SumOver(g(R), T)
      BY <1>3, <3>1
    <3>4. SumOver(f, U) = f[x] + SumOver(f, R)
      BY <1>1, <2>1, <3>1, SumSplit
    <3>5. \A y \in T : m[x][y] \in Int /\ g(R)[y] \in Int /\ g(U)[y] = m[x][y] + g(R)[y]
      <4> SUFFICES ASSUME NEW y \in T
                   PROVE  m[x][y] \in Int /\ g(R)[y] \in Int /\ g(U)[y] = m[x][y] + g(R)[y]
        OBVIOUS
      <4>1. \A z \in U : col(y)[z] \in Int
        OBVIOUS
      <4>2. col(y)[x] = m[x][y] /\ m[x][y] \in Int
        BY <3>1
      <4>3. g(U)[y] = SumOver(col(y), U) /\ g(R)[y] = SumOver(col(y), R)
        OBVIOUS
      <4>4. SumOver(col(y), R) \in Int
        <5> HIDE DEF col, R
        <5> QED BY <1>2, <3>2
      <4> HIDE DEF col, g
      <4>5. SumOver(col(y), U) = col(y)[x] + SumOver(col(y), U \ {x})
        BY <2>1, <3>1, <4>1, SumSplit
      <4> QED BY <4>2, <4>3, <4>4, <4>5
    <3> DEFINE a == g(U)
               b == g(R)
               row == m[x]
    <3>6. SumOver(a, T) = SumOver(row, T) + SumOver(b, T)
      <4>1. \A y \in T : row[y] \in Int /\ b[y] \in Int /\ a[y] = row[y] + b[y]
        BY <3>5
      <4> HIDE DEF a, b, row
      <4> QED BY <4>1, SumAdd
    <3>7. f[x] = SumOver(row, T)
      BY <3>1
    <3> HIDE DEF g, R, row
    <3> QED BY <3>3, <3>4, <3>6, <3>7
  <2> QED BY <2>2, <2>3
<1>4. SUBSET S \subseteq Good
  <2> HIDE DEF Good
  <2> QED BY <1>3, SubsetInduction
<1>5. SumOver(f, S) = SumOver(g(S), T)
  BY <1>4
<1> QED BY <1>5

-------------------------------------------------------------------------------
(* Products, quotients and shares *)

\* The product of two natural numbers is one.
LEMMA ProductNat ==
  ASSUME NEW m \in Nat, NEW n \in Nat
  PROVE  m * n \in Nat
OBVIOUS

\* A floored quotient of natural numbers is a natural number.
LEMMA QuotientNat ==
  ASSUME NEW m \in Nat, NEW n \in Nat, n > 0
  PROVE  m \div n \in Nat
<1>1. m \div n \in Int
  OBVIOUS
<1>2. m \div n >= 0
  OBVIOUS
<1> QED BY <1>1, <1>2

\* A floored quotient gives no more than there is.
LEMMA FlooredQuotient ==
  ASSUME NEW m \in Nat, NEW n \in Nat, n > 0
  PROVE  m \div n \in Nat /\ n * (m \div n) <= m
BY QuotientNat

\* Floored shares of a pool in basis points, of which there are no more than
\* ten thousand, fit into the pool.
LEMMA BasisPointsFit ==
  ASSUME NEW M, IsFiniteSet(M), NEW q, \A x \in M : q[x] \in Nat,
         SumOver(q, M) <= 10000, NEW pool \in Nat,
         NEW share, \A x \in M : share[x] = (pool * q[x]) \div 10000
  PROVE  /\ SumOver(share, M) <= pool
         /\ \A x \in M : share[x] \in Nat
<1> DEFINE lq == [x \in M |-> pool * q[x]]
           ts == [x \in M |-> 10000 * share[x]]
<1>1. \A x \in M : share[x] \in Nat /\ 10000 * share[x] <= pool * q[x] /\ pool * q[x] \in Nat
  <2> SUFFICES ASSUME NEW x \in M
               PROVE  share[x] \in Nat /\ 10000 * share[x] <= pool * q[x] /\ pool * q[x] \in Nat
    OBVIOUS
  <2>1. share[x] = (pool * q[x]) \div 10000
    OBVIOUS
  <2>2. pool * q[x] \in Nat
    BY ProductNat
  <2> DEFINE n == pool * q[x]
  <2> HIDE DEF n
  <2>3. share[x] = n \div 10000 /\ n \in Nat
    BY <2>1, <2>2 DEF n
  <2>4. share[x] \in Nat /\ 10000 * share[x] <= n
    BY <2>3, FlooredQuotient
  <2> QED BY <2>3, <2>4 DEF n
<1>2. 10000 * SumOver(share, M) <= pool * SumOver(q, M)
  <2>1. \A x \in M : q[x] \in Int /\ lq[x] = pool * q[x]
    OBVIOUS
  <2>2. \A x \in M : share[x] \in Int /\ ts[x] = 10000 * share[x]
    BY <1>1
  <2>3. \A x \in M : ts[x] \in Int /\ lq[x] \in Int /\ ts[x] <= lq[x]
    BY <1>1
  <2> HIDE DEF lq, ts
  <2>4. SumOver(lq, M) = pool * SumOver(q, M)
    BY <2>1, SumScale
  <2>5. SumOver(ts, M) = 10000 * SumOver(share, M)
    BY <2>2, SumScale
  <2>6. SumOver(ts, M) <= SumOver(lq, M)
    BY <2>3, SumMono
  <2> QED BY <2>4, <2>5, <2>6
<1> DEFINE sq == SumOver(q, M)
           ss == SumOver(share, M)
<1>3. sq \in Nat /\ ss \in Int
  BY <1>1, SumNat, SumInt
<1> HIDE DEF sq, ss
<1>4. pool * sq <= pool * 10000
  BY <1>3 DEF sq
<1>5. 10000 * ss <= 10000 * pool
  <2>1. pool * 10000 = 10000 * pool /\ pool * sq \in Int
    BY <1>3
  <2>2. 10000 * ss <= pool * sq
    BY <1>2 DEF sq, ss
  <2> QED BY <1>3, <1>4, <2>1, <2>2
<1>6. ss <= pool
  BY <1>3, <1>5
<1> QED BY <1>1, <1>6 DEF ss

===============================================================================
