----------------------------- MODULE SumLemmas ------------------------------
(***************************************************************************)
(* Facts about SumFunctionOnSet of the community modules, for the proofs   *)
(* that count what the rows of several tasks add up to. The sum is defined *)
(* by recursion on a set; induction is stated as a set of naturals that 0  *)
(* belongs to and every successor, from which also follows that a set of   *)
(* naturals has a least element.                                           *)
(***************************************************************************)
EXTENDS Integers, FiniteSets, Functions, FiniteSetTheorems, TLAPS

\* The element that the sum takes first.
First(S) == CHOOSE x \in S : TRUE

\* h is what the sum computes for the subsets of S it meets.
Recurs(h, f, S) ==
    h = [T \in SUBSET S |-> IF T = {} THEN 0 ELSE f[First(T)] + h[T \ {First(T)}]]

\* The definition, unfolded to the function it chooses.
LEMMA SumUnfolds ==
    ASSUME NEW f, NEW S
    PROVE  SumFunctionOnSet(f, S) = (CHOOSE h : Recurs(h, f, S))[S]
BY DEF SumFunctionOnSet, FoldFunctionOnSet, MapThenFoldSet, Recurs, First

(* Induction over the subsets of a finite set, with the property as a set. *)
LEMMA SetInduction ==
    ASSUME NEW S, IsFiniteSet(S), NEW G,
           \A T \in SUBSET S : (\A U \in SUBSET T : U # T => U \in G) => T \in G
    PROVE  \A T \in SUBSET S : T \in G
<1> DEFINE B == {T \in SUBSET S : T \notin G}
<1> SUFFICES ASSUME B # {} PROVE FALSE
  OBVIOUS
<1>1. B \subseteq FiniteSubsetsOf(S)
  BY FS_Subset DEF FiniteSubsetsOf
<1>2. PICK T \in B : \A U \in B : <<U, T>> \notin StrictSubsetOrdering(S)
  <2> HIDE DEF B
  <2> QED BY <1>1, FS_StrictSubsetOrderingWellFounded, WFMin
<1>3. \A U \in SUBSET T : U # T => U \in G
  BY <1>2 DEF StrictSubsetOrdering
<1> QED BY <1>3

\* Induction over the naturals, with the property as a set.
LEMMA CountedInduction ==
    ASSUME NEW G, 0 \in G, \A n \in Nat : n \in G => n + 1 \in G
    PROVE  Nat \subseteq G
<1> DEFINE B == {n \in Nat : n \notin G}
<1> SUFFICES ASSUME B # {} PROVE FALSE
  OBVIOUS
<1> DEFINE Less == {p \in Nat \X Nat : p[1] < p[2]}
<1>1. IsWellFoundedOn(Less, Nat)
  BY NatLessThanWellFounded DEF OpToRel
<1>2. PICK n \in B : \A m \in B : <<m, n>> \notin Less
  <2>1. B \subseteq Nat
    OBVIOUS
  <2> HIDE DEF B, Less
  <2> QED BY <1>1, <2>1, WFMin
<1>3. n # 0 /\ n - 1 \in Nat
  OBVIOUS
<1>4. n - 1 \notin B
  <2>1. <<n - 1, n>> \in Less
    BY <1>3
  <2> HIDE DEF Less
  <2> QED BY <1>2, <2>1
<1> QED BY <1>3, <1>4

\* A set of naturals has a least element.
LEMMA SmallestOfNaturals ==
    ASSUME NEW S, S \subseteq Nat, S # {}
    PROVE  \E m \in S : \A i \in S : m <= i
<1> DEFINE P == {n \in Nat : \A i \in S : n <= i}
<1>1. 0 \in P
  OBVIOUS
<1>2. \E n \in Nat : n \notin P
  <2>1. PICK s \in S : s \in Nat
    OBVIOUS
  <2>2. s + 1 \in Nat /\ ~ (s + 1 <= s)
    BY <2>1
  <2> QED
    BY <2>1, <2>2
<1>3. PICK n \in P : n + 1 \notin P
  <2>1. SUFFICES ASSUME \A n \in P : n + 1 \in P PROVE FALSE
    OBVIOUS
  <2>2. \A n \in Nat : n \in P => n + 1 \in P
    BY <2>1
  <2> HIDE DEF P
  <2>3. \A n \in Nat : n \in P
    BY <1>1, <2>2, CountedInduction
  <2> QED
    BY <1>2, <2>3
<1>4. PICK i \in S : ~ (n + 1 <= i)
  BY <1>3
<1>5. i = n
  BY <1>3, <1>4
<1> QED
  BY <1>3, <1>5

\* The choice is one of the elements.
LEMMA FirstIsMember ==
    ASSUME NEW S, S # {}
    PROVE  First(S) \in S
BY DEF First

(* A function that recurs exists: for the subsets of at most n elements,   *)
(* it is extended to those of one more.                                    *)
LEMMA RecursionExists ==
    ASSUME NEW f, NEW S, IsFiniteSet(S)
    PROVE  \E h : Recurs(h, f, S)
<1> DEFINE Right(h, T) == h[T] = IF T = {} THEN 0 ELSE f[First(T)] + h[T \ {First(T)}]
           G == {n \in Nat : \E h : \A T \in SUBSET S : Cardinality(T) <= n => Right(h, T)}
<1>1. \A T \in SUBSET S : IsFiniteSet(T) /\ Cardinality(T) \in Nat
  BY FS_Subset, FS_CardinalityType
<1>2. \A T \in SUBSET S : T # {} =>
        T \ {First(T)} \in SUBSET S /\ Cardinality(T \ {First(T)}) = Cardinality(T) - 1
  BY <1>1, FirstIsMember, FS_RemoveElement
<1>3. 0 \in G
  <2> DEFINE h == [T \in SUBSET S |-> 0]
  <2>1. \A T \in SUBSET S : Cardinality(T) <= 0 => T = {}
    BY <1>1, FS_EmptySet
  <2>2. \A T \in SUBSET S : Cardinality(T) <= 0 => Right(h, T)
    BY <2>1
  <2> QED BY <2>2
<1>4. ASSUME NEW n \in Nat, n \in G PROVE n + 1 \in G
  <2>1. PICK h : \A T \in SUBSET S : Cardinality(T) <= n => Right(h, T)
    BY <1>4
  <2> DEFINE k == [T \in SUBSET S |->
                     IF Cardinality(T) <= n THEN h[T] ELSE f[First(T)] + h[T \ {First(T)}]]
  <2>2. ASSUME NEW T \in SUBSET S, Cardinality(T) <= n + 1 PROVE Right(k, T)
    <3>1. CASE T = {}
      <4>1. Cardinality(T) <= n
        BY <3>1, FS_EmptySet
      <4> QED BY <2>1, <3>1, <4>1
    <3>2. CASE T # {}
      <4>1. T \ {First(T)} \in SUBSET S /\ Cardinality(T \ {First(T)}) <= n
        BY <1>1, <1>2, <2>2, <3>2
      <4>2. k[T \ {First(T)}] = h[T \ {First(T)}]
        BY <4>1
      <4> QED BY <2>1, <3>2, <4>2
    <3> QED BY <3>1, <3>2
  <2>3. \E q : \A T \in SUBSET S : Cardinality(T) <= n + 1 => Right(q, T)
    <3> HIDE DEF Right, k
    <3> QED BY <2>2
  <2> HIDE DEF Right
  <2> QED BY <2>3
<1>5. Cardinality(S) \in G
  <2> HIDE DEF G
  <2> QED BY <1>1, <1>3, <1>4, CountedInduction
<1>6. PICK h : \A T \in SUBSET S : Cardinality(T) <= Cardinality(S) => Right(h, T)
  BY <1>5
<1>7. \A T \in SUBSET S : Right(h, T)
  BY <1>6, FS_Subset
<1> DEFINE k == [T \in SUBSET S |-> h[T]]
<1>8. \A T \in SUBSET S : k[T] = IF T = {} THEN 0 ELSE f[First(T)] + k[T \ {First(T)}]
  BY <1>2, <1>7
<1>9. Recurs(k, f, S)
  BY <1>8 DEF Recurs
<1> QED BY <1>9

\* The sum is the value of such a function.
LEMMA SumRecurs ==
    ASSUME NEW f, NEW S, IsFiniteSet(S)
    PROVE  \E h : Recurs(h, f, S) /\ SumFunctionOnSet(f, S) = h[S]
<1> DEFINE h == CHOOSE k : Recurs(k, f, S)
<1>1. Recurs(h, f, S)
  BY RecursionExists
<1>2. SumFunctionOnSet(f, S) = h[S]
  BY SumUnfolds
<1> QED BY <1>1, <1>2

\* Two functions with the recursion agree where they both apply.
LEMMA RecursionsAgree ==
    ASSUME NEW S, IsFiniteSet(S), NEW T \in SUBSET S, NEW f, NEW g, \A x \in T : f[x] = g[x],
           NEW h, Recurs(h, f, S), NEW k, Recurs(k, g, T)
    PROVE  \A U \in SUBSET T : h[U] = k[U]
<1> DEFINE G == {U \in SUBSET T : h[U] = k[U]}
<1>1. ASSUME NEW U \in SUBSET T, \A V \in SUBSET U : V # U => V \in G PROVE U \in G
  <2>1. CASE U = {}
    <3>1. h[U] = 0 /\ k[U] = 0
      BY <2>1 DEF Recurs
    <3> QED BY <3>1
  <2>2. CASE U # {}
    <3>1. First(U) \in U /\ U \ {First(U)} \in SUBSET U /\ U \ {First(U)} # U
      BY <2>2, FirstIsMember
    <3>2. h[U \ {First(U)}] = k[U \ {First(U)}]
      BY <1>1, <3>1
    <3>3. h[U] = f[First(U)] + h[U \ {First(U)}] /\ k[U] = g[First(U)] + k[U \ {First(U)}]
      BY <2>2 DEF Recurs
    <3> QED BY <3>1, <3>2, <3>3
  <2> QED BY <2>1, <2>2
<1>2. IsFiniteSet(T)
  BY FS_Subset
<1>3. \A U \in SUBSET T : U \in G
  <2> HIDE DEF G
  <2> QED BY <1>1, <1>2, SetInduction
<1> QED BY <1>3

-----------------------------------------------------------------------------
(* What the proofs use.                                                    *)

\* Nothing adds up to zero.
LEMMA SumOfNone ==
    ASSUME NEW f
    PROVE  SumFunctionOnSet(f, {}) = 0
<1>1. PICK h : Recurs(h, f, {}) /\ SumFunctionOnSet(f, {}) = h[{}]
  BY SumRecurs, FS_EmptySet
<1> QED BY <1>1 DEF Recurs

\* A sum depends on the function only on the set.
LEMMA SumAgrees ==
    ASSUME NEW S, IsFiniteSet(S), NEW f, NEW g, \A x \in S : f[x] = g[x]
    PROVE  SumFunctionOnSet(f, S) = SumFunctionOnSet(g, S)
<1>1. PICK h : Recurs(h, f, S) /\ SumFunctionOnSet(f, S) = h[S]
  BY SumRecurs
<1>2. PICK k : Recurs(k, g, S) /\ SumFunctionOnSet(g, S) = k[S]
  BY SumRecurs
<1>3. S \in SUBSET S
  OBVIOUS
<1>4. \A U \in SUBSET S : h[U] = k[U]
  BY <1>1, <1>2, <1>3, RecursionsAgree
<1> QED BY <1>1, <1>2, <1>4

\* A sum is its first element and the sum of the others.
LEMMA SumTakesFirst ==
    ASSUME NEW S, IsFiniteSet(S), S # {}, NEW f
    PROVE  SumFunctionOnSet(f, S) = f[First(S)] + SumFunctionOnSet(f, S \ {First(S)})
<1> DEFINE T == S \ {First(S)}
<1>1. T \in SUBSET S /\ IsFiniteSet(T)
  BY FS_Subset
<1>2. PICK h : Recurs(h, f, S) /\ SumFunctionOnSet(f, S) = h[S]
  BY SumRecurs
<1>3. PICK k : Recurs(k, f, T) /\ SumFunctionOnSet(f, T) = k[T]
  BY <1>1, SumRecurs
<1>4. h[T] = k[T]
  <2> HIDE DEF T
  <2>1. \A U \in SUBSET T : h[U] = k[U]
    BY <1>1, <1>2, <1>3, RecursionsAgree
  <2> QED BY <2>1
<1>5. h[S] = f[First(S)] + h[T]
  BY <1>2 DEF Recurs
<1> QED BY <1>2, <1>3, <1>4, <1>5

\* Integers add up to an integer.
LEMMA SumIsInteger ==
    ASSUME NEW S, IsFiniteSet(S), NEW f, \A x \in S : f[x] \in Int
    PROVE  SumFunctionOnSet(f, S) \in Int
<1> DEFINE G == {T \in SUBSET S : SumFunctionOnSet(f, T) \in Int}
<1>1. ASSUME NEW T \in SUBSET S, \A U \in SUBSET T : U # T => U \in G PROVE T \in G
  <2>1. CASE T = {}
    BY <2>1, SumOfNone
  <2>2. CASE T # {}
    <3>1. IsFiniteSet(T)
      BY FS_Subset
    <3>2. First(T) \in T /\ T \ {First(T)} \in SUBSET T /\ T \ {First(T)} # T
      BY <2>2, FirstIsMember
    <3>3. SumFunctionOnSet(f, T \ {First(T)}) \in Int /\ f[First(T)] \in Int
      BY <1>1, <3>2
    <3>4. SumFunctionOnSet(f, T) = f[First(T)] + SumFunctionOnSet(f, T \ {First(T)})
      BY <2>2, <3>1, SumTakesFirst
    <3> QED BY <3>3, <3>4
  <2> QED BY <2>1, <2>2
<1>2. \A T \in SUBSET S : T \in G
  <2> HIDE DEF G
  <2> QED BY <1>1, SetInduction
<1> QED BY <1>2

(* Any element may be taken first. *)
LEMMA SumTakes ==
    ASSUME NEW S, IsFiniteSet(S), NEW f, \A x \in S : f[x] \in Int, NEW x \in S
    PROVE  SumFunctionOnSet(f, S) = f[x] + SumFunctionOnSet(f, S \ {x})
<1> DEFINE G == {T \in SUBSET S : \A y \in T :
                   SumFunctionOnSet(f, T) = f[y] + SumFunctionOnSet(f, T \ {y})}
<1>1. \A T \in SUBSET S : IsFiniteSet(T) /\ SumFunctionOnSet(f, T) \in Int
  BY FS_Subset, SumIsInteger
<1>2. ASSUME NEW T \in SUBSET S, \A U \in SUBSET T : U # T => U \in G PROVE T \in G
  <2> DEFINE c == First(T)
  <2>1. ASSUME NEW y \in T
        PROVE  SumFunctionOnSet(f, T) = f[y] + SumFunctionOnSet(f, T \ {y})
    <3>1. c \in T
      BY FirstIsMember
    <3>2. SumFunctionOnSet(f, T) = f[c] + SumFunctionOnSet(f, T \ {c})
      BY <1>1, SumTakesFirst
    <3> HIDE DEF c
    <3>3. CASE y = c
      BY <3>2, <3>3
    <3>4. CASE y # c
      <4>1. /\ T \ {c} \in SUBSET T /\ T \ {c} # T /\ y \in T \ {c}
            /\ T \ {y} \in SUBSET T /\ T \ {y} # T /\ c \in T \ {y}
        BY <3>1, <3>4
      <4> DEFINE rest == SumFunctionOnSet(f, (T \ {c}) \ {y})
      <4>2. SumFunctionOnSet(f, T \ {c}) = f[y] + rest
        BY <1>2, <4>1
      <4>3. (T \ {y}) \ {c} = (T \ {c}) \ {y}
        OBVIOUS
      <4>4. SumFunctionOnSet(f, T \ {y}) = f[c] + SumFunctionOnSet(f, (T \ {y}) \ {c})
        BY <1>2, <4>1
      <4>5. SumFunctionOnSet(f, T \ {y}) = f[c] + rest
        BY <4>3, <4>4
      <4>6. rest \in Int /\ f[c] \in Int /\ f[y] \in Int
        BY <1>1, <3>1
      <4> HIDE DEF rest
      <4> QED BY <3>2, <4>2, <4>5, <4>6
    <3> QED BY <3>3, <3>4
  <2> QED BY <2>1
<1>3. \A T \in SUBSET S : T \in G
  <2> HIDE DEF G
  <2> QED BY <1>2, SetInduction
<1>4. S \in G
  <2> HIDE DEF G
  <2> QED BY <1>3
<1> QED BY <1>4

\* An element that was not in the set adds its value.
LEMMA SumAdds ==
    ASSUME NEW S, IsFiniteSet(S), NEW f, NEW x, x \notin S, \A y \in S \cup {x} : f[y] \in Int
    PROVE  SumFunctionOnSet(f, S \cup {x}) = SumFunctionOnSet(f, S) + f[x]
<1> DEFINE T == S \cup {x}
<1>1. IsFiniteSet(T)
  BY FS_AddElement
<1>2. x \in T /\ T \ {x} = S
  OBVIOUS
<1>3. SumFunctionOnSet(f, S) \in Int
  BY SumIsInteger
<1>4. \A y \in T : f[y] \in Int
  OBVIOUS
<1> HIDE DEF T
<1>5. SumFunctionOnSet(f, T) = f[x] + SumFunctionOnSet(f, T \ {x})
  BY <1>1, <1>2, <1>4, SumTakes
<1>6. SumFunctionOnSet(f, T) = f[x] + SumFunctionOnSet(f, S)
  BY <1>2, <1>5
<1>7. SumFunctionOnSet(f, T) = SumFunctionOnSet(f, S) + f[x]
  BY <1>2, <1>3, <1>4, <1>6
<1> QED BY <1>7 DEF T

(* Two functions that differ at one element. *)
LEMMA SumDiffers ==
    ASSUME NEW S, IsFiniteSet(S), NEW x \in S, NEW f, NEW g,
           \A y \in S : f[y] \in Int /\ g[y] \in Int,
           \A y \in S \ {x} : f[y] = g[y]
    PROVE  SumFunctionOnSet(g, S) = SumFunctionOnSet(f, S) - f[x] + g[x]
<1>1. IsFiniteSet(S \ {x})
  BY FS_Subset
<1>2. SumFunctionOnSet(f, S \ {x}) = SumFunctionOnSet(g, S \ {x})
  BY <1>1, SumAgrees
<1>3. SumFunctionOnSet(f, S) = f[x] + SumFunctionOnSet(f, S \ {x})
  BY SumTakes
<1>4. SumFunctionOnSet(g, S) = g[x] + SumFunctionOnSet(g, S \ {x})
  BY SumTakes
<1>5. SumFunctionOnSet(f, S \ {x}) \in Int
  BY <1>1, SumIsInteger
<1> QED BY <1>2, <1>3, <1>4, <1>5

(* A smaller summand everywhere makes a smaller sum. *)
LEMMA SumIsMonotone ==
    ASSUME NEW S, IsFiniteSet(S), NEW f, NEW g,
           \A x \in S : f[x] \in Int /\ g[x] \in Int /\ f[x] <= g[x]
    PROVE  SumFunctionOnSet(f, S) <= SumFunctionOnSet(g, S)
<1> DEFINE G == {T \in SUBSET S : SumFunctionOnSet(f, T) <= SumFunctionOnSet(g, T)}
<1>1. \A T \in SUBSET S : /\ IsFiniteSet(T) /\ SumFunctionOnSet(f, T) \in Int
                          /\ SumFunctionOnSet(g, T) \in Int
  BY FS_Subset, SumIsInteger
<1>2. ASSUME NEW T \in SUBSET S, \A U \in SUBSET T : U # T => U \in G PROVE T \in G
  <2>1. CASE T = {}
    BY <2>1, SumOfNone
  <2>2. CASE T # {}
    <3> DEFINE c == First(T)
    <3>1. c \in T
      BY <2>2, FirstIsMember
    <3>2. SumFunctionOnSet(f, T) = f[c] + SumFunctionOnSet(f, T \ {c})
      BY <1>1, <2>2, SumTakesFirst
    <3>3. SumFunctionOnSet(g, T) = g[c] + SumFunctionOnSet(g, T \ {c})
      BY <1>1, <2>2, SumTakesFirst
    <3> HIDE DEF c
    <3>4. T \ {c} \in SUBSET T /\ T \ {c} # T
      BY <3>1
    <3>5. SumFunctionOnSet(f, T \ {c}) <= SumFunctionOnSet(g, T \ {c})
      BY <1>2, <3>4
    <3> QED BY <1>1, <3>1, <3>2, <3>3, <3>4, <3>5
  <2> QED BY <2>1, <2>2
<1>3. \A T \in SUBSET S : T \in G
  <2> HIDE DEF G
  <2> QED BY <1>2, SetInduction
<1> QED BY <1>3

\* Zeros add up to zero.
LEMMA SumOfZeros ==
    ASSUME NEW S, IsFiniteSet(S), NEW f, \A x \in S : f[x] = 0
    PROVE  SumFunctionOnSet(f, S) = 0
<1> DEFINE G == {T \in SUBSET S : SumFunctionOnSet(f, T) = 0}
<1>1. ASSUME NEW T \in SUBSET S, \A U \in SUBSET T : U # T => U \in G PROVE T \in G
  <2>1. CASE T = {}
    BY <2>1, SumOfNone
  <2>2. CASE T # {}
    <3>1. IsFiniteSet(T)
      BY FS_Subset
    <3>2. First(T) \in T /\ T \ {First(T)} \in SUBSET T /\ T \ {First(T)} # T
      BY <2>2, FirstIsMember
    <3>3. SumFunctionOnSet(f, T \ {First(T)}) = 0 /\ f[First(T)] = 0
      BY <1>1, <3>2
    <3>4. SumFunctionOnSet(f, T) = f[First(T)] + SumFunctionOnSet(f, T \ {First(T)})
      BY <2>2, <3>1, SumTakesFirst
    <3> QED BY <3>3, <3>4
  <2> QED BY <2>1, <2>2
<1>2. \A T \in SUBSET S : T \in G
  <2> HIDE DEF G
  <2> QED BY <1>1, SetInduction
<1> QED BY <1>2

\* Naturals add up to a natural.
LEMMA SumIsNatural ==
    ASSUME NEW S, IsFiniteSet(S), NEW f, \A x \in S : f[x] \in Nat
    PROVE  SumFunctionOnSet(f, S) \in Nat
<1> DEFINE g == [x \in S |-> 0]
<1>1. SumFunctionOnSet(g, S) = 0
  BY SumOfZeros
<1>2. \A x \in S : g[x] \in Int /\ f[x] \in Int /\ g[x] <= f[x]
  OBVIOUS
<1>3. SumFunctionOnSet(g, S) <= SumFunctionOnSet(f, S)
  <2> HIDE DEF g
  <2> QED BY <1>2, SumIsMonotone
<1>4. SumFunctionOnSet(f, S) \in Int
  BY SumIsInteger
<1> QED BY <1>1, <1>3, <1>4

(* What is left out of a sum of naturals does not make it larger. *)
LEMMA SumOfFewer ==
    ASSUME NEW S, IsFiniteSet(S), NEW T \in SUBSET S, NEW f, \A x \in S : f[x] \in Nat
    PROVE  SumFunctionOnSet(f, T) <= SumFunctionOnSet(f, S)
<1> DEFINE G == {U \in SUBSET S : T \subseteq U => SumFunctionOnSet(f, T) <= SumFunctionOnSet(f, U)}
<1>1. \A U \in SUBSET S : IsFiniteSet(U) /\ SumFunctionOnSet(f, U) \in Int
  BY FS_Subset, SumIsInteger
<1>2. ASSUME NEW U \in SUBSET S, \A V \in SUBSET U : V # U => V \in G PROVE U \in G
  <2>1. CASE U = T
    BY <1>1, <2>1
  <2>2. CASE ~(T \subseteq U)
    BY <2>2
  <2>3. CASE U # T /\ T \subseteq U
    <3>1. PICK x \in U : x \notin T
      BY <2>3
    <3>2. U \ {x} \in SUBSET U /\ U \ {x} # U /\ T \subseteq U \ {x}
      BY <2>3, <3>1
    <3>3. SumFunctionOnSet(f, T) <= SumFunctionOnSet(f, U \ {x})
      BY <1>2, <3>2
    <3>4. SumFunctionOnSet(f, U) = f[x] + SumFunctionOnSet(f, U \ {x})
      BY <1>1, SumTakes
    <3>5. SumFunctionOnSet(f, T) <= SumFunctionOnSet(f, U)
      BY <1>1, <3>2, <3>3, <3>4
    <3> QED BY <3>5
  <2> QED BY <2>1, <2>2, <2>3
<1>3. \A U \in SUBSET S : U \in G
  <2> HIDE DEF G
  <2> QED BY <1>2, SetInduction
<1>4. S \in G
  <2> HIDE DEF G
  <2> QED BY <1>3
<1> QED BY <1>4

\* Disjoint sets add up separately.
LEMMA SumOfUnion ==
    ASSUME NEW S, IsFiniteSet(S), NEW T, IsFiniteSet(T), S \cap T = {},
           NEW f, \A x \in S \cup T : f[x] \in Int
    PROVE  SumFunctionOnSet(f, S \cup T) = SumFunctionOnSet(f, S) + SumFunctionOnSet(f, T)
<1> DEFINE G == {U \in SUBSET T : SumFunctionOnSet(f, S \cup U)
                                   = SumFunctionOnSet(f, S) + SumFunctionOnSet(f, U)}
<1>1. SumFunctionOnSet(f, S) \in Int /\ \A U \in SUBSET T : IsFiniteSet(U) /\ IsFiniteSet(S \cup U)
                                                            /\ SumFunctionOnSet(f, U) \in Int
  BY FS_Subset, FS_Union, SumIsInteger
<1>2. ASSUME NEW U \in SUBSET T, \A V \in SUBSET U : V # U => V \in G PROVE U \in G
  <2>1. CASE U = {}
    <3>1. S \cup U = S
      BY <2>1
    <3> QED BY <1>1, <2>1, <3>1, SumOfNone
  <2>2. CASE U # {}
    <3>1. PICK x \in U : TRUE
      BY <2>2
    <3>2. U \ {x} \in SUBSET U /\ U \ {x} # U /\ (S \cup U) \ {x} = S \cup (U \ {x})
      OBVIOUS
    <3>3. SumFunctionOnSet(f, S \cup (U \ {x})) = SumFunctionOnSet(f, S) + SumFunctionOnSet(f, U \ {x})
      BY <1>2, <3>2
    <3>4. SumFunctionOnSet(f, U) = f[x] + SumFunctionOnSet(f, U \ {x})
      BY <1>1, SumTakes
    <3>5. SumFunctionOnSet(f, S \cup U) = f[x] + SumFunctionOnSet(f, S \cup (U \ {x}))
      <4> DEFINE A == S \cup U
      <4>1. x \in A /\ IsFiniteSet(A) /\ \A y \in A : f[y] \in Int
        BY <1>1
      <4> HIDE DEF A
      <4>2. SumFunctionOnSet(f, A) = f[x] + SumFunctionOnSet(f, A \ {x})
        BY <4>1, SumTakes
      <4> QED BY <3>2, <4>2 DEF A
    <3>6. f[x] \in Int /\ SumFunctionOnSet(f, U \ {x}) \in Int
      BY <1>1
    <3> QED BY <1>1, <3>3, <3>4, <3>5, <3>6
  <2> QED BY <2>1, <2>2
<1>3. \A U \in SUBSET T : U \in G
  <2> HIDE DEF G
  <2> QED BY <1>2, SetInduction
<1>4. T \in G
  <2> HIDE DEF G
  <2> QED BY <1>3
<1> QED BY <1>4

(* Disjoint sets have together as many elements as they have each. *)
LEMMA SumOfCardinalities ==
    ASSUME NEW S, IsFiniteSet(S), NEW H, \A x \in S : IsFiniteSet(H[x]),
           \A x, y \in S : x # y => H[x] \cap H[y] = {},
           NEW f, \A x \in S : f[x] = Cardinality(H[x])
    PROVE  SumFunctionOnSet(f, S) = Cardinality(UNION {H[x] : x \in S})
<1> DEFINE All(T) == UNION {H[x] : x \in T}
           G == {T \in SUBSET S : IsFiniteSet(All(T)) /\ SumFunctionOnSet(f, T) = Cardinality(All(T))}
<1>1. \A x \in S : f[x] \in Nat
  BY FS_CardinalityType
<1>2. ASSUME NEW T \in SUBSET S, \A U \in SUBSET T : U # T => U \in G PROVE T \in G
  <2>1. CASE T = {}
    <3>1. All(T) = {}
      BY <2>1
    <3> QED BY <2>1, <3>1, SumOfNone, FS_EmptySet
  <2>2. CASE T # {}
    <3> DEFINE c == First(T)
    <3>1. c \in T
      BY <2>2, FirstIsMember
    <3>2. IsFiniteSet(T)
      BY FS_Subset
    <3>3. SumFunctionOnSet(f, T) = f[c] + SumFunctionOnSet(f, T \ {c})
      BY <2>2, <3>2, SumTakesFirst
    <3> HIDE DEF c
    <3>4. T \ {c} \in SUBSET T /\ T \ {c} # T
      BY <3>1
    <3>5. IsFiniteSet(All(T \ {c})) /\ SumFunctionOnSet(f, T \ {c}) = Cardinality(All(T \ {c}))
      BY <1>2, <3>4
    <3>6. All(T) = H[c] \cup All(T \ {c}) /\ H[c] \cap All(T \ {c}) = {}
      BY <3>1
    <3>7. IsFiniteSet(H[c]) /\ f[c] = Cardinality(H[c])
      BY <3>1
    <3> DEFINE rest == All(T \ {c})
    <3> HIDE DEF All, rest
    <3>8. IsFiniteSet(rest) /\ H[c] \cap rest = {} /\ All(T) = H[c] \cup rest
      BY <3>5, <3>6 DEF rest
    <3>9. /\ IsFiniteSet(H[c] \cup rest)
          /\ Cardinality(H[c] \cup rest) = Cardinality(H[c]) + Cardinality(rest)
                                             - Cardinality(H[c] \cap rest)
      BY <3>7, <3>8, FS_Union
    <3>10. Cardinality(H[c] \cap rest) = 0
      BY <3>8, FS_EmptySet
    <3>11. Cardinality(H[c]) \in Nat /\ Cardinality(rest) \in Nat
      BY <3>7, <3>8, FS_CardinalityType
    <3>12. SumFunctionOnSet(f, T) = Cardinality(H[c]) + Cardinality(rest)
      BY <3>3, <3>5, <3>7 DEF rest
    <3>13. SumFunctionOnSet(f, T) = Cardinality(All(T))
      BY <3>8, <3>9, <3>10, <3>11, <3>12
    <3> QED BY <3>8, <3>9, <3>13
  <2> QED BY <2>1, <2>2
<1>3. \A T \in SUBSET S : T \in G
  <2> HIDE DEF G
  <2> QED BY <1>2, SetInduction
<1>4. S \in G
  <2> HIDE DEF G
  <2> QED BY <1>3
<1> QED BY <1>4
=============================================================================
