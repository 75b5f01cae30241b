-------------------------- MODULE DetectionProofs --------------------------
(***************************************************************************)
(* Proofs about community detection, for any projected Relations, draws    *)
(* and limits.  A sum over a set is a recursive function, whose facts have *)
(* a least counterexample.  Aggregation keeps the objective of every       *)
(* partition and a local move adds its gain, so no level is worse than the *)
(* one before it; the hierarchy stays one whose clusters are unions of the *)
(* cells of the partition, which is what the CommunitySet is accepted for. *)
(* Last, the types of all parts of Pipeline.                               *)
(***************************************************************************)
EXTENDS DispatcherProofs

-----------------------------------------------------------------------------
(* Community detection: sums over finite sets *)

\* One of the members, as Total takes them.
Taken(S) == CHOOSE x \in S : TRUE

\* What Total's recursion says of one set.
SumBody(f, g, S) == IF S = {} THEN 0 ELSE f[Taken(S)] + g[S \ {Taken(S)}]

SumsUpTo(f, U, n) ==
  \E g : \A S \in SUBSET U : Cardinality(S) <= n => g[S] = SumBody(f, g, S)

LEMMA SmallerSet ==
  ASSUME NEW S, IsFiniteSet(S), NEW x \in S
  PROVE  /\ IsFiniteSet(S \ {x}) /\ Cardinality(S \ {x}) = Cardinality(S) - 1
         /\ Cardinality(S) \in Nat /\ Cardinality(S) > 0 /\ Cardinality(S \ {x}) \in Nat
<1>1. IsFiniteSet(S \ {x}) /\ Cardinality(S \ {x}) = Cardinality(S) - 1
  BY FS_RemoveElement
<1>2. Cardinality(S) \in Nat /\ Cardinality(S \ {x}) \in Nat
  BY <1>1, FS_CardinalityType
<1>3. QED
  BY <1>1, <1>2

LEMMA SumsExist ==
  ASSUME NEW f, NEW U, IsFiniteSet(U), NEW n \in Nat
  PROVE  SumsUpTo(f, U, n)
<1> DEFINE T == {k \in Nat : ~SumsUpTo(f, U, k)}
<1>1. SUFFICES ASSUME T # {} PROVE FALSE
  OBVIOUS
<1>2. PICK k \in T : \A j \in T : k <= j
  BY <1>1, Least
<1>3. k \in Nat /\ ~SumsUpTo(f, U, k)
  OBVIOUS
<1> HIDE DEF T
<1>4. ASSUME NEW g, NEW j \in Nat,
             \A S \in SUBSET U : Cardinality(S) <= j - 1 => g[S] = SumBody(f, g, S)
      PROVE  SumsUpTo(f, U, j)
  <2> DEFINE h == [S \in SUBSET U |-> SumBody(f, g, S)]
  <2>1. ASSUME NEW S \in SUBSET U, Cardinality(S) <= j PROVE h[S] = SumBody(f, h, S)
    <3>1. CASE S = {}
      BY <3>1 DEF SumBody
    <3>2. CASE S # {}
      <4>1. Taken(S) \in S /\ IsFiniteSet(S)
        BY <3>2, FS_Subset DEF Taken
      <4>2. S \ {Taken(S)} \in SUBSET U /\ Cardinality(S \ {Taken(S)}) <= j - 1
        BY <2>1, <4>1, SmallerSet
      <4>3. h[S \ {Taken(S)}] = g[S \ {Taken(S)}]
        BY <1>4, <4>2
      <4>4. QED
        BY <3>2, <4>3 DEF SumBody
    <3>3. QED
      BY <3>1, <3>2
  <2> HIDE DEF h
  <2>2. QED
    BY <2>1 DEF SumsUpTo
<1>5. CASE k = 0
  <2>1. \A S \in SUBSET U : Cardinality(S) <= 0 - 1 => FALSE
    <3>1. \A S \in SUBSET U : Cardinality(S) \in Nat
      BY FS_Subset, FS_CardinalityType
    <3>2. QED
      BY <3>1
  <2>2. QED
    BY <1>3, <1>4, <1>5, <2>1
<1>6. CASE k # 0
  <2>1. k - 1 \in Nat /\ k - 1 \notin T
    BY <1>2, <1>3, <1>6
  <2>2. SumsUpTo(f, U, k - 1)
    BY <2>1 DEF T
  <2>3. QED
    BY <1>3, <1>4, <2>2 DEF SumsUpTo
<1>7. QED
  BY <1>5, <1>6

IsSums(f, U, g) == g = [S \in SUBSET U |-> SumBody(f, g, S)]
SumsOf(f, U) == CHOOSE g : IsSums(f, U, g)

LEMMA TotalIsSum ==
  ASSUME NEW f, NEW U, IsFiniteSet(U)
  PROVE  Det!Total(f, U) = SumsOf(f, U)[U] /\ IsSums(f, U, SumsOf(f, U))
<1>1. Det!Total(f, U) = SumsOf(f, U)[U]
  BY DEF Det!Total, SumsOf, IsSums, SumBody, Taken
<1>2. \E g : IsSums(f, U, g)
  <2>1. Cardinality(U) \in Nat
    BY FS_CardinalityType
  <2>2. PICK g : \A S \in SUBSET U : Cardinality(S) <= Cardinality(U) => g[S] = SumBody(f, g, S)
    BY <2>1, SumsExist DEF SumsUpTo
  <2>3. \A S \in SUBSET U : g[S] = SumBody(f, g, S)
    BY <2>2, FS_Subset
  <2> DEFINE h == [S \in SUBSET U |-> g[S]]
  <2>4. \A S \in SUBSET U : h[S] = SumBody(f, h, S)
    <3> TAKE S \in SUBSET U
    <3>1. S \ {Taken(S)} \in SUBSET U
      OBVIOUS
    <3>2. QED
      BY <2>3, <3>1 DEF SumBody
  <2>5. h = [S \in SUBSET U |-> h[S]]
    OBVIOUS
  <2> HIDE DEF h
  <2>6. IsSums(f, U, h)
    BY <2>4, <2>5 DEF IsSums
  <2>7. QED
    BY <2>6
<1>3. QED
  BY <1>1, <1>2 DEF SumsOf

\* Sums of a subset do not depend on the set around it.
LEMMA SumsAgree ==
  ASSUME NEW f, NEW U, IsFiniteSet(U), NEW V \in SUBSET U
  PROVE  SumsOf(f, U)[V] = Det!Total(f, V)
<1> DEFINE g == SumsOf(f, U)
           h == SumsOf(f, V)
           T == {k \in Nat : \E S \in SUBSET V : Cardinality(S) = k /\ g[S] # h[S]}
<1>1. IsFiniteSet(V)
  BY FS_Subset
<1>2. IsSums(f, U, g) /\ IsSums(f, V, h) /\ Det!Total(f, V) = h[V]
  BY <1>1, TotalIsSum
<1> HIDE DEF g, h
<1>3. \A S \in SUBSET V : g[S] = SumBody(f, g, S) /\ h[S] = SumBody(f, h, S)
  BY <1>2 DEF IsSums
<1>4. ASSUME T # {} PROVE FALSE
  <2>1. PICK k \in T : \A j \in T : k <= j
    <3>1. T \subseteq Nat
      OBVIOUS
    <3> HIDE DEF T
    <3>2. QED
      BY <1>4, <3>1, Least
  <2>2. PICK S \in SUBSET V : Cardinality(S) = k /\ g[S] # h[S]
    OBVIOUS
  <2>3. S # {} /\ IsFiniteSet(S)
    BY <1>1, <1>3, <2>2, FS_Subset DEF SumBody
  <2>4. Taken(S) \in S
    BY <2>3 DEF Taken
  <2>5. S \ {Taken(S)} \in SUBSET V /\ Cardinality(S \ {Taken(S)}) \in Nat
        /\ Cardinality(S \ {Taken(S)}) = k - 1 /\ k \in Nat
    BY <2>2, <2>3, <2>4, SmallerSet
  <2>6. g[S \ {Taken(S)}] = h[S \ {Taken(S)}]
    <3>1. ~(k <= k - 1)
      BY <2>5
    <3>2. QED
      BY <2>1, <2>5, <3>1
  <2>7. QED
    BY <1>3, <2>2, <2>3, <2>6 DEF SumBody
<1>5. g[V] = h[V]
  <2>1. Cardinality(V) \in Nat /\ V \in SUBSET V
    BY <1>1, FS_CardinalityType
  <2>2. QED
    BY <1>4, <2>1
<1>6. QED
  BY <1>2, <1>5 DEF g

LEMMA TotalUnfolds ==
  ASSUME NEW f, NEW S, IsFiniteSet(S)
  PROVE  /\ S = {} => Det!Total(f, S) = 0
         /\ S # {} => /\ Taken(S) \in S
                      /\ Det!Total(f, S) = f[Taken(S)] + Det!Total(f, S \ {Taken(S)})
<1> DEFINE g == SumsOf(f, S)
<1>1. Det!Total(f, S) = g[S] /\ IsSums(f, S, g)
  BY TotalIsSum
<1>2. \A V \in SUBSET S : g[V] = Det!Total(f, V)
  BY SumsAgree
<1> HIDE DEF g
<1>3. g[S] = SumBody(f, g, S)
  <2>1. S \in SUBSET S
    OBVIOUS
  <2>2. QED
    BY <1>1, <2>1 DEF IsSums
<1>4. S # {} => Taken(S) \in S
  BY DEF Taken
<1>5. S \ {Taken(S)} \in SUBSET S
  OBVIOUS
<1>6. g[S \ {Taken(S)}] = Det!Total(f, S \ {Taken(S)})
  BY <1>2, <1>5
<1>7. QED
  BY <1>1, <1>3, <1>4, <1>6 DEF SumBody

Numbers(f, S) == IsFiniteSet(S) /\ \A x \in S : f[x] \in Int

\* Any member may be taken first.
LEMMA TotalStep ==
  ASSUME NEW f, NEW S, Numbers(f, S)
  PROVE  /\ Det!Total(f, S) \in Int
         /\ \A x \in S : Det!Total(f, S) = f[x] + Det!Total(f, S \ {x})
<1> DEFINE Good(V) == /\ Det!Total(f, V) \in Int
                      /\ \A x \in V : Det!Total(f, V) = f[x] + Det!Total(f, V \ {x})
           T == {k \in Nat : \E V \in SUBSET S : Cardinality(V) = k /\ ~Good(V)}
<1>1. ASSUME T # {} PROVE FALSE
  <2>1. PICK k \in T : \A j \in T : k <= j
    <3>1. T \subseteq Nat
      OBVIOUS
    <3> HIDE DEF T
    <3>2. QED
      BY <1>1, <3>1, Least
  <2>2. PICK V \in SUBSET S : Cardinality(V) = k /\ ~Good(V)
    OBVIOUS
  <2>3. ASSUME NEW W \in SUBSET S, Cardinality(W) \in Nat, Cardinality(W) < k PROVE Good(W)
    <3>1. Cardinality(W) \notin T
      <4>1. ~(k <= Cardinality(W))
        BY <2>1, <2>3
      <4>2. QED
        BY <2>1, <4>1
    <3> HIDE DEF Good
    <3>2. QED
      BY <2>3, <3>1
  <2> DEFINE y == Taken(V)
  <2>4. IsFiniteSet(V) /\ \A x \in V : f[x] \in Int
    BY FS_Subset DEF Numbers
  <2>5. V # {}
    <3>1. V = {} => Det!Total(f, V) = 0
      BY TotalUnfolds, <2>4
    <3>2. QED
      BY <2>2, <3>1
  <2>6. y \in V /\ Det!Total(f, V) = f[y] + Det!Total(f, V \ {y})
    BY <2>4, <2>5, TotalUnfolds
  <2> HIDE DEF y
  <2>7. \A x \in V : /\ V \ {x} \in SUBSET S /\ Cardinality(V \ {x}) \in Nat
                     /\ Cardinality(V \ {x}) < k
    <3> TAKE x \in V
    <3>1. /\ Cardinality(V \ {x}) = Cardinality(V) - 1 /\ Cardinality(V) \in Nat
          /\ Cardinality(V \ {x}) \in Nat
      BY <2>4, SmallerSet
    <3>2. QED
      BY <2>2, <3>1
  <2>8. \A x \in V : Good(V \ {x})
    <3> HIDE DEF Good
    <3>1. QED
      BY <2>3, <2>7
  <2>9. \A x \in V : Det!Total(f, V \ {x}) \in Int
    BY <2>8
  <2>10. ASSUME NEW x \in V, x # y PROVE Det!Total(f, V) = f[x] + Det!Total(f, V \ {x})
    <3>1. x \in V \ {y} /\ y \in V \ {x} /\ (V \ {y}) \ {x} = (V \ {x}) \ {y}
      BY <2>6, <2>10
    <3>2. /\ Det!Total(f, V \ {y}) = f[x] + Det!Total(f, (V \ {y}) \ {x})
          /\ Det!Total(f, V \ {x}) = f[y] + Det!Total(f, (V \ {x}) \ {y})
      BY <2>6, <2>8, <3>1
    <3> DEFINE rest == Det!Total(f, (V \ {y}) \ {x})
    <3>3. /\ Det!Total(f, V \ {y}) = f[x] + rest /\ Det!Total(f, V \ {x}) = f[y] + rest
      BY <3>1, <3>2
    <3>4. rest \in Int
      <4>1. (V \ {y}) \ {x} \in SUBSET S
        OBVIOUS
      <4>2. /\ Cardinality((V \ {y}) \ {x}) = Cardinality(V \ {y}) - 1
            /\ Cardinality((V \ {y}) \ {x}) \in Nat /\ Cardinality(V \ {y}) \in Nat
            /\ Cardinality(V \ {y}) < k
        BY <2>4, <2>6, <2>7, <3>1, SmallerSet, FS_Subset
      <4>3. Cardinality((V \ {y}) \ {x}) < k /\ k \in Nat
        BY <4>2, <2>1
      <4>4. Good((V \ {y}) \ {x})
        <5> HIDE DEF Good
        <5>1. QED
          BY <2>3, <4>1, <4>2, <4>3
      <4>5. QED
        BY <4>4
    <3> HIDE DEF rest
    <3>5. f[x] \in Int /\ f[y] \in Int
      BY <2>4, <2>6
    <3>6. QED
      BY <2>6, <3>3, <3>4, <3>5
  <2>11. Det!Total(f, V) \in Int
    BY <2>4, <2>6, <2>9
  <2>12. QED
    BY <2>2, <2>6, <2>10, <2>11
<1>2. Good(S)
  <2>1. Cardinality(S) \in Nat /\ S \in SUBSET S
    BY FS_CardinalityType DEF Numbers
  <2> HIDE DEF Good
  <2>2. QED
    BY <1>1, <2>1
<1>3. QED
  BY <1>2

LEMMA TotalEmpty == \A f : Det!Total(f, {}) = 0
BY TotalUnfolds, FS_EmptySet

\* Two sums of the same numbers over disjoint sets; one of them may be empty.
LEMMA TotalUnion ==
  ASSUME NEW f, NEW S, NEW R, Numbers(f, S), Numbers(f, R), S \cap R = {}
  PROVE  Det!Total(f, S \cup R) = Det!Total(f, S) + Det!Total(f, R)
<1> DEFINE Good(V) == Det!Total(f, V \cup R) = Det!Total(f, V) + Det!Total(f, R)
           T == {k \in Nat : \E V \in SUBSET S : Cardinality(V) = k /\ ~Good(V)}
<1>1. ASSUME T # {} PROVE FALSE
  <2>1. PICK k \in T : \A j \in T : k <= j
    <3>1. T \subseteq Nat
      OBVIOUS
    <3> HIDE DEF T
    <3>2. QED
      BY <1>1, <3>1, Least
  <2>2. PICK V \in SUBSET S : Cardinality(V) = k /\ ~Good(V)
    OBVIOUS
  <2>3. Det!Total(f, R) \in Int
    BY TotalStep
  <2>4. V # {}
    <3>1. V = {} => V \cup R = R
      OBVIOUS
    <3>2. QED
      BY <2>2, <2>3, <3>1, TotalEmpty
  <2>5. PICK x \in V : TRUE
    BY <2>4
  <2>6. Numbers(f, V) /\ Numbers(f, V \cup R) /\ IsFiniteSet(V) /\ Numbers(f, V \ {x})
    BY FS_Subset, FS_Union DEF Numbers
  <2>7. Good(V \ {x})
    <3>1. V \ {x} \in SUBSET S /\ Cardinality(V \ {x}) \in Nat /\ k \in Nat
          /\ Cardinality(V \ {x}) = k - 1
      BY <2>2, <2>6, SmallerSet
    <3>2. ~(k <= Cardinality(V \ {x}))
      BY <3>1
    <3>3. Cardinality(V \ {x}) \notin T
      BY <2>1, <3>2
    <3> HIDE DEF Good
    <3>4. QED
      BY <3>1, <3>3
  <2>8. (V \cup R) \ {x} = (V \ {x}) \cup R /\ x \in V \cup R /\ f[x] \in Int
    BY <2>6 DEF Numbers
  <2>9. /\ Det!Total(f, V \cup R) = f[x] + Det!Total(f, (V \cup R) \ {x})
        /\ Det!Total(f, V) = f[x] + Det!Total(f, V \ {x})
        /\ Det!Total(f, V \ {x}) \in Int
    BY <2>6, <2>8, TotalStep
  <2>10. Det!Total(f, V \cup R) = f[x] + (Det!Total(f, V \ {x}) + Det!Total(f, R))
    BY <2>7, <2>8, <2>9
  <2>11. QED
    BY <2>2, <2>3, <2>8, <2>9, <2>10
<1>2. Good(S)
  <2>1. Cardinality(S) \in Nat /\ S \in SUBSET S
    BY FS_CardinalityType DEF Numbers
  <2> HIDE DEF Good
  <2>2. QED
    BY <1>1, <2>1
<1>3. QED
  BY <1>2

LEMMA TotalSame ==
  ASSUME NEW f, NEW g, NEW S, Numbers(f, S), \A x \in S : g[x] = f[x]
  PROVE  Det!Total(g, S) = Det!Total(f, S)
<1> DEFINE Good(V) == Det!Total(g, V) = Det!Total(f, V)
           T == {k \in Nat : \E V \in SUBSET S : Cardinality(V) = k /\ ~Good(V)}
<1>1. ASSUME T # {} PROVE FALSE
  <2>1. PICK k \in T : \A j \in T : k <= j
    <3>1. T \subseteq Nat
      OBVIOUS
    <3> HIDE DEF T
    <3>2. QED
      BY <1>1, <3>1, Least
  <2>2. PICK V \in SUBSET S : Cardinality(V) = k /\ ~Good(V)
    OBVIOUS
  <2>4. V # {}
    BY <2>2, TotalEmpty
  <2>5. PICK x \in V : TRUE
    BY <2>4
  <2>6. Numbers(f, V) /\ Numbers(g, V) /\ IsFiniteSet(V)
    BY FS_Subset DEF Numbers
  <2>7. Good(V \ {x})
    <3>1. V \ {x} \in SUBSET S /\ Cardinality(V \ {x}) \in Nat /\ k \in Nat
          /\ Cardinality(V \ {x}) = k - 1
      BY <2>2, <2>6, SmallerSet
    <3>2. ~(k <= Cardinality(V \ {x}))
      BY <3>1
    <3>3. Cardinality(V \ {x}) \notin T
      BY <2>1, <3>2
    <3> HIDE DEF Good
    <3>4. QED
      BY <3>1, <3>3
  <2>9. /\ Det!Total(f, V) = f[x] + Det!Total(f, V \ {x})
        /\ Det!Total(g, V) = g[x] + Det!Total(g, V \ {x})
    BY <2>6, TotalStep
  <2>10. f[x] = g[x]
    OBVIOUS
  <2>11. QED
    BY <2>2, <2>7, <2>9, <2>10
<1>2. Good(S)
  <2>1. Cardinality(S) \in Nat /\ S \in SUBSET S
    BY FS_CardinalityType DEF Numbers
  <2> HIDE DEF Good
  <2>2. QED
    BY <1>1, <2>1
<1>3. QED
  BY <1>2

\* Zeros add nothing.
LEMMA TotalZeros ==
  ASSUME NEW f, NEW S, IsFiniteSet(S), \A x \in S : f[x] = 0
  PROVE  Det!Total(f, S) = 0
<1> DEFINE Good(V) == Det!Total(f, V) = 0
           T == {k \in Nat : \E V \in SUBSET S : Cardinality(V) = k /\ ~Good(V)}
<1>1. ASSUME T # {} PROVE FALSE
  <2>1. PICK k \in T : \A j \in T : k <= j
    <3>1. T \subseteq Nat
      OBVIOUS
    <3> HIDE DEF T
    <3>2. QED
      BY <1>1, <3>1, Least
  <2>2. PICK V \in SUBSET S : Cardinality(V) = k /\ ~Good(V)
    OBVIOUS
  <2>4. V # {}
    BY <2>2, TotalEmpty
  <2>5. PICK x \in V : TRUE
    BY <2>4
  <2>6. Numbers(f, V) /\ IsFiniteSet(V)
    BY FS_Subset DEF Numbers
  <2>7. Good(V \ {x})
    <3>1. V \ {x} \in SUBSET S /\ Cardinality(V \ {x}) \in Nat /\ k \in Nat
          /\ Cardinality(V \ {x}) = k - 1
      BY <2>2, <2>6, SmallerSet
    <3>2. ~(k <= Cardinality(V \ {x}))
      BY <3>1
    <3>3. Cardinality(V \ {x}) \notin T
      BY <2>1, <3>2
    <3> HIDE DEF Good
    <3>4. QED
      BY <3>1, <3>3
  <2>9. Det!Total(f, V) = f[x] + Det!Total(f, V \ {x})
    BY <2>6, TotalStep
  <2>11. QED
    BY <2>2, <2>7, <2>9
<1>2. Good(S)
  <2>1. Cardinality(S) \in Nat /\ S \in SUBSET S
    BY FS_CardinalityType
  <2> HIDE DEF Good
  <2>2. QED
    BY <1>1, <2>1
<1>3. QED
  BY <1>2

LEMMA TotalWider ==
  ASSUME NEW f, NEW S, NEW R \in SUBSET S, Numbers(f, S), \A x \in S \ R : f[x] = 0
  PROVE  Det!Total(f, S) = Det!Total(f, R)
<1>1. Numbers(f, R) /\ Numbers(f, S \ R) /\ IsFiniteSet(S \ R) /\ R \cup (S \ R) = S
  BY FS_Subset DEF Numbers
<1>2. Det!Total(f, S) = Det!Total(f, R) + Det!Total(f, S \ R)
  <2>1. R \cap (S \ R) = {}
    OBVIOUS
  <2>2. QED
    BY <1>1, <2>1, TotalUnion
<1>3. Det!Total(f, S \ R) = 0 /\ Det!Total(f, R) \in Int
  BY <1>1, TotalZeros, TotalStep
<1>4. QED
  BY <1>2, <1>3

Fiber(S, g, y) == {x \in S : g[x] = y}

\* A sum taken in groups: g names the group of every member.
LEMMA TotalGrouped ==
  ASSUME NEW f, NEW S, Numbers(f, S), NEW g, NEW Y, IsFiniteSet(Y), \A x \in S : g[x] \in Y,
         NEW h, \A y \in Y : h[y] = Det!Total(f, Fiber(S, g, y))
  PROVE  Numbers(h, Y) /\ Det!Total(h, Y) = Det!Total(f, S)
<1> DEFINE Part(V) == {x \in S : g[x] \in V}
           Good(V) == Det!Total(h, V) = Det!Total(f, Part(V))
           T == {k \in Nat : \E V \in SUBSET Y : Cardinality(V) = k /\ ~Good(V)}
<1>1. \A V : Numbers(f, Part(V)) /\ \A y : Numbers(f, Fiber(S, g, y))
  BY FS_Subset DEF Numbers, Fiber
<1>2. Numbers(h, Y)
  BY <1>1, TotalStep DEF Numbers
<1>3. ASSUME T # {} PROVE FALSE
  <2>1. PICK k \in T : \A j \in T : k <= j
    <3>1. T \subseteq Nat
      OBVIOUS
    <3> HIDE DEF T
    <3>2. QED
      BY <1>3, <3>1, Least
  <2>2. PICK V \in SUBSET Y : Cardinality(V) = k /\ ~Good(V)
    OBVIOUS
  <2>4. V # {}
    <3>1. Part({}) = {}
      OBVIOUS
    <3>2. QED
      BY <2>2, <3>1, TotalEmpty
  <2>5. PICK y \in V : TRUE
    BY <2>4
  <2>6. Numbers(h, V) /\ IsFiniteSet(V)
    BY <1>2, FS_Subset DEF Numbers
  <2>7. Good(V \ {y})
    <3>1. V \ {y} \in SUBSET Y /\ Cardinality(V \ {y}) \in Nat /\ k \in Nat
          /\ Cardinality(V \ {y}) = k - 1
      BY <2>2, <2>6, SmallerSet
    <3>2. ~(k <= Cardinality(V \ {y}))
      BY <3>1
    <3>3. Cardinality(V \ {y}) \notin T
      BY <2>1, <3>2
    <3> HIDE DEF Good
    <3>4. QED
      BY <3>1, <3>3
  <2>8. Part(V) = Fiber(S, g, y) \cup Part(V \ {y}) /\ Fiber(S, g, y) \cap Part(V \ {y}) = {}
    BY DEF Fiber
  <2>9. Det!Total(f, Part(V)) = Det!Total(f, Fiber(S, g, y)) + Det!Total(f, Part(V \ {y}))
    <3>1. Numbers(f, Fiber(S, g, y)) /\ Numbers(f, Part(V \ {y}))
      BY <1>1
    <3> DEFINE rest == Part(V \ {y})
               same == Fiber(S, g, y)
    <3>2. Part(V) = same \cup rest /\ same \cap rest = {} /\ Numbers(f, same) /\ Numbers(f, rest)
      BY <2>8, <3>1
    <3> HIDE DEF rest, same
    <3>3. Det!Total(f, same \cup rest) = Det!Total(f, same) + Det!Total(f, rest)
      BY <3>2, TotalUnion
    <3>4. QED
      BY <3>2, <3>3 DEF rest, same
  <2>10. Det!Total(h, V) = h[y] + Det!Total(h, V \ {y})
    BY <2>6, TotalStep
  <2>11. h[y] = Det!Total(f, Fiber(S, g, y))
    OBVIOUS
  <2>12. QED
    BY <2>2, <2>7, <2>9, <2>10, <2>11
<1>4. Good(Y)
  <2>1. Cardinality(Y) \in Nat /\ Y \in SUBSET Y
    BY FS_CardinalityType
  <2> HIDE DEF Good
  <2>2. QED
    BY <1>3, <2>1
<1>5. Part(Y) = S
  OBVIOUS
<1>6. QED
  BY <1>2, <1>4, <1>5

LEMMA TotalOne ==
  ASSUME NEW f, NEW x, f[x] \in Int
  PROVE  Det!Total(f, {x}) = f[x]
<1>1. Numbers(f, {x})
  BY FS_Singleton DEF Numbers
<1>2. x \in {x} /\ {x} \ {x} = {}
  OBVIOUS
<1>3. QED
  BY <1>1, <1>2, TotalStep, TotalEmpty

-----------------------------------------------------------------------------
(* The objective of a partition *)

\* A network over the nodes of D, with pairs of them and single ones.
NetworkOver(network, D) ==
  /\ IsFiniteSet(D)
  /\ \A pair \in DOMAIN network : network[pair] \in Nat /\ \E u, v \in D : pair = {u, v}

\* The pairs whose nodes are in one cluster, and the squares Value subtracts.
Within(network, p) == {pair \in DOMAIN network : \A u, v \in pair : p[u] = p[v]}
Squares(mass, p) == [c \in Det!Clusters(p) |-> Det!MassOf(mass, p, c) * Det!MassOf(mass, p, c)]

LEMMA ValueIs ==
  ASSUME NEW network, NEW mass, NEW total, NEW p
  PROVE  Det!Value(network, mass, total, p) =
           2 * total * Det!Total(network, Within(network, p))
           - Det!Total(Squares(mass, p), Det!Clusters(p))
BY DEF Det!Value, Det!Weight, Within, Squares

LEMMA NetworkNumbers ==
  ASSUME NEW network, NEW D, NetworkOver(network, D)
  PROVE  IsFiniteSet(DOMAIN network) /\ \A S \in SUBSET DOMAIN network : Numbers(network, S)
<1>1. DOMAIN network \in SUBSET (SUBSET D) /\ IsFiniteSet(SUBSET D)
  BY FS_SUBSET DEF NetworkOver
<1>2. IsFiniteSet(DOMAIN network)
  BY <1>1, FS_Subset
<1>3. QED
  BY <1>2, FS_Subset DEF Numbers, NetworkOver

LEMMA ClusterMasses ==
  ASSUME NEW mass, NEW p, Numbers(mass, DOMAIN p)
  PROVE  /\ IsFiniteSet(Det!Clusters(p))
         /\ \A c : Det!MassOf(mass, p, c) \in Int
         /\ Numbers(Squares(mass, p), Det!Clusters(p))
<1>1. IsFiniteSet(Det!Clusters(p))
  <2> DEFINE f == [u \in DOMAIN p |-> p[u]]
  <2>1. f \in Surjection(DOMAIN p, Det!Clusters(p))
    BY DEF Surjection, Det!Clusters
  <2>2. QED
    BY <2>1, FS_Surjection DEF Numbers
<1>2. ASSUME NEW c PROVE Det!MassOf(mass, p, c) \in Int
  <2> DEFINE S == {u \in DOMAIN p : p[u] = c}
  <2>1. Numbers(mass, S)
    BY FS_Subset DEF Numbers
  <2> HIDE DEF S
  <2>2. Det!Total(mass, S) \in Int
    BY <2>1, TotalStep
  <2>3. QED
    BY <2>2 DEF Det!MassOf, S
<1>3. \A c \in Det!Clusters(p) : Squares(mass, p)[c] \in Int
  <2> TAKE c \in Det!Clusters(p)
  <2>1. Squares(mass, p)[c] = Det!MassOf(mass, p, c) * Det!MassOf(mass, p, c)
    BY DEF Squares
  <2>2. QED
    BY <1>2, <2>1
<1>4. QED
  BY <1>1, <1>2, <1>3 DEF Numbers

\* The names of the clusters do not matter.
LEMMA Relabelled ==
  ASSUME NEW D, NEW network, NetworkOver(network, D), NEW mass, Numbers(mass, D), NEW total,
         NEW p, NEW q, DOMAIN p = D, DOMAIN q = D,
         \A u, v \in D : p[u] = p[v] <=> q[u] = q[v]
  PROVE  Det!Value(network, mass, total, p) = Det!Value(network, mass, total, q)
<1>1. Within(network, p) = Within(network, q)
  <2>1. \A pair \in DOMAIN network : pair \subseteq D
    BY DEF NetworkOver
  <2>2. QED
    BY <2>1 DEF Within
<1> DEFINE C == Det!Clusters(p)
           E == Det!Clusters(q)
           h == [c \in C |-> q[CHOOSE u \in D : p[u] = c]]
<1>2. ASSUME NEW u \in D
      PROVE  /\ p[u] \in C /\ q[u] \in E /\ h[p[u]] = q[u]
             /\ Det!MassOf(mass, p, p[u]) = Det!MassOf(mass, q, q[u])
             /\ Fiber(C, h, q[u]) = {p[u]}
  <2>1. p[u] \in C /\ q[u] \in E
    BY DEF Det!Clusters
  <2>2. \A v \in D : h[p[v]] = q[v]
    <3> TAKE v \in D
    <3>1. p[v] \in C /\ h[p[v]] = q[CHOOSE w \in D : p[w] = p[v]]
      BY DEF Det!Clusters
    <3>2. PICK w \in D : p[w] = p[v] /\ h[p[v]] = q[w]
      BY <3>1
    <3>3. QED
      BY <3>2
  <2>3. {v \in DOMAIN p : p[v] = p[u]} = {v \in DOMAIN q : q[v] = q[u]}
    OBVIOUS
  <2>4. \A c \in C : h[c] = q[u] => c = p[u]
    <3> TAKE c \in C
    <3>1. PICK v \in D : c = p[v]
      BY DEF Det!Clusters
    <3>2. QED
      BY <2>2, <3>1
  <2>5. h[p[u]] = q[u]
    BY <2>2
  <2> HIDE DEF C, E, h
  <2>6. Fiber(C, h, q[u]) = {p[u]}
    BY <2>1, <2>4, <2>5 DEF Fiber
  <2>7. QED
    BY <2>1, <2>3, <2>5, <2>6 DEF Det!MassOf
<1>3. \A c \in C : \E u \in D : c = p[u]
  BY DEF Det!Clusters
<1>4. \A c \in E : \E u \in D : c = q[u]
  BY DEF Det!Clusters
<1> DEFINE f == Squares(mass, p)
           g == Squares(mass, q)
<1>5. \A u \in D : f[p[u]] = g[q[u]]
  <2> TAKE u \in D
  <2>1. /\ f[p[u]] = Det!MassOf(mass, p, p[u]) * Det!MassOf(mass, p, p[u])
        /\ g[q[u]] = Det!MassOf(mass, q, q[u]) * Det!MassOf(mass, q, q[u])
    BY <1>2 DEF Squares
  <2>2. QED
    BY <1>2, <2>1
<1>6. Numbers(f, C) /\ IsFiniteSet(E)
  BY ClusterMasses
<1> HIDE DEF C, E, h, f, g
<1>7. \A c \in C : h[c] \in E
  BY <1>2, <1>3
<1>8. ASSUME NEW y \in E PROVE g[y] = Det!Total(f, Fiber(C, h, y))
  <2>1. PICK u \in D : y = q[u]
    BY <1>4
  <2>2. Fiber(C, h, y) = {p[u]} /\ p[u] \in C
    BY <1>2, <2>1
  <2>3. f[p[u]] \in Int
    BY <1>6, <2>2 DEF Numbers
  <2>4. Det!Total(f, {p[u]}) = f[p[u]]
    BY <2>3, TotalOne
  <2>5. QED
    BY <1>5, <2>1, <2>2, <2>4
<1>9. Det!Total(g, E) = Det!Total(f, C)
  BY <1>6, <1>7, <1>8, TotalGrouped
<1>10. QED
  BY <1>1, <1>9, ValueIs DEF C, E, f, g

LEMMA TotalNat ==
  ASSUME NEW f, NEW S, IsFiniteSet(S), \A x \in S : f[x] \in Nat
  PROVE  Det!Total(f, S) \in Nat
<1> DEFINE Good(V) == Det!Total(f, V) \in Nat
           T == {k \in Nat : \E V \in SUBSET S : Cardinality(V) = k /\ ~Good(V)}
<1>1. ASSUME T # {} PROVE FALSE
  <2>1. PICK k \in T : \A j \in T : k <= j
    <3>1. T \subseteq Nat
      OBVIOUS
    <3> HIDE DEF T
    <3>2. QED
      BY <1>1, <3>1, Least
  <2>2. PICK V \in SUBSET S : Cardinality(V) = k /\ ~Good(V)
    OBVIOUS
  <2>3. PICK x \in V : TRUE
    BY SMTT(20), <2>2, TotalEmpty
  <2>4. Numbers(f, V) /\ IsFiniteSet(V)
    BY FS_Subset DEF Numbers
  <2>5. Good(V \ {x})
    <3>1. V \ {x} \in SUBSET S /\ Cardinality(V \ {x}) \in Nat /\ k \in Nat
          /\ Cardinality(V \ {x}) = k - 1
      BY <2>2, <2>4, SmallerSet
    <3>2. ~(k <= Cardinality(V \ {x}))
      BY <3>1
    <3>3. Cardinality(V \ {x}) \notin T
      BY <2>1, <3>2
    <3> HIDE DEF Good
    <3>4. QED
      BY <3>1, <3>3
  <2>6. Det!Total(f, V) = f[x] + Det!Total(f, V \ {x})
    BY <2>4, TotalStep
  <2>7. f[x] \in Nat
    OBVIOUS
  <2>8. QED
    BY <2>2, <2>5, <2>6, <2>7
<1>2. Good(S)
  <2>1. Cardinality(S) \in Nat /\ S \in SUBSET S
    BY FS_CardinalityType
  <2> HIDE DEF Good
  <2>2. QED
    BY <1>1, <2>1
<1>3. QED
  BY <1>2

-----------------------------------------------------------------------------
(* Aggregation keeps the objective of every partition *)

ImageOf(ref, pair) == {ref[u] : u \in pair}
SumInto(network, ref, image) ==
  Det!Total(network, {pair \in DOMAIN network : ImageOf(ref, pair) = image})
Images(network, ref) ==
  {image \in {ImageOf(ref, pair) : pair \in DOMAIN network} :
     Cardinality(image) = 2 \/ SumInto(network, ref, image) > 0}
NetworkOf(network, ref) == [image \in Images(network, ref) |-> SumInto(network, ref, image)]
MassesOf(mass, ref) == [c \in Det!Clusters(ref) |-> Det!MassOf(mass, ref, c)]

LEMMA SumIntoNat ==
  ASSUME NEW D, NEW network, NetworkOver(network, D), NEW ref, NEW image
  PROVE  SumInto(network, ref, image) \in Nat
<1> DEFINE S == {pair \in DOMAIN network : ImageOf(ref, pair) = image}
<1>1. IsFiniteSet(S) /\ \A x \in S : network[x] \in Nat
  BY NetworkNumbers, FS_Subset DEF NetworkOver
<1> HIDE DEF S
<1>2. Det!Total(network, S) \in Nat
  BY <1>1, TotalNat
<1>3. QED
  BY <1>2 DEF S, SumInto

LEMMA AggregateOver ==
  ASSUME NEW D, NEW network, NetworkOver(network, D), NEW ref, DOMAIN ref = D
  PROVE  NetworkOver(NetworkOf(network, ref), Det!Clusters(ref))
<1>1. IsFiniteSet(Det!Clusters(ref))
  <2> DEFINE f == [u \in D |-> ref[u]]
  <2>1. f \in Surjection(D, Det!Clusters(ref))
    BY DEF Surjection, Det!Clusters
  <2>2. QED
    BY <2>1, FS_Surjection DEF NetworkOver
<1>2. ASSUME NEW image \in DOMAIN NetworkOf(network, ref)
      PROVE  /\ NetworkOf(network, ref)[image] \in Nat
             /\ \E a, b \in Det!Clusters(ref) : image = {a, b}
  <2>1. image \in Images(network, ref) /\ NetworkOf(network, ref)[image] = SumInto(network, ref, image)
    BY DEF NetworkOf
  <2>2. PICK pair \in DOMAIN network : image = ImageOf(ref, pair)
    BY <2>1 DEF Images
  <2>3. PICK u \in D, v \in D : pair = {u, v}
    BY DEF NetworkOver
  <2>4. image = {ref[u], ref[v]}
    BY <2>2, <2>3 DEF ImageOf
  <2>5. ref[u] \in Det!Clusters(ref) /\ ref[v] \in Det!Clusters(ref)
    BY DEF Det!Clusters
  <2>6. QED
    BY <2>1, <2>4, <2>5, SumIntoNat
<1>3. QED
  BY <1>1, <1>2 DEF NetworkOver

LEMMA AggregateWeight ==
  ASSUME NEW D, NEW network, NetworkOver(network, D), NEW ref, DOMAIN ref = D,
         NEW q, NEW p, DOMAIN p = D, \A u \in D : p[u] = q[ref[u]]
  PROVE  LET N == NetworkOf(network, ref) IN
           Det!Total(N, Within(N, q)) = Det!Total(network, Within(network, p))
<1> DEFINE N == NetworkOf(network, ref)
           S == Within(network, p)
           g == [pair \in DOMAIN network |-> ImageOf(ref, pair)]
           Y == {g[pair] : pair \in S}
           R == Within(N, q)
           h == [y \in Y |-> SumInto(network, ref, y)]
<1>1. \A pair \in DOMAIN network : pair \subseteq D
  BY DEF NetworkOver
<1>2. \A pair \in DOMAIN network : pair \in S <=> \A a, b \in g[pair] : q[a] = q[b]
  BY <1>1 DEF Within, ImageOf
<1>3. S \in SUBSET DOMAIN network /\ IsFiniteSet(S) /\ Numbers(network, S)
  <2>1. S \in SUBSET DOMAIN network
    BY DEF Within
  <2>2. QED
    BY <2>1, NetworkNumbers, FS_Subset
<1>4. IsFiniteSet(Y)
  <2> DEFINE f == [pair \in S |-> g[pair]]
  <2>1. f \in Surjection(S, Y)
    BY DEF Surjection
  <2> HIDE DEF f, Y
  <2>2. QED
    BY <1>3, <2>1, FS_Surjection
<1>5. ASSUME NEW y \in Y PROVE h[y] = Det!Total(network, Fiber(S, g, y))
  <2>1. PICK pair \in S : y = g[pair]
    OBVIOUS
  <2>2. \A a, b \in y : q[a] = q[b]
    BY <1>2, <1>3, <2>1
  <2>3. Fiber(S, g, y) = {e \in DOMAIN network : ImageOf(ref, e) = y}
    <3>1. \A e \in S : e \in DOMAIN network /\ g[e] = ImageOf(ref, e)
      BY <1>3
    <3>2. \A e \in DOMAIN network : ImageOf(ref, e) = y => e \in S /\ g[e] = y
      BY <1>2, <2>2
    <3> HIDE DEF S, g
    <3>3. QED
      BY <3>1, <3>2 DEF Fiber
  <2>4. QED
    BY <2>3 DEF SumInto
<1>6. \A pair \in S : g[pair] \in Y
  OBVIOUS
<1>7. Numbers(h, Y) /\ Det!Total(h, Y) = Det!Total(network, S)
  <2> HIDE DEF S, g, Y, h
  <2>1. QED
    BY <1>3, <1>4, <1>5, <1>6, TotalGrouped
<1>8. R \in SUBSET Y /\ \A y \in R : N[y] = h[y]
  <2> SUFFICES ASSUME NEW y \in R PROVE y \in Y /\ N[y] = h[y]
    OBVIOUS
  <2>1. y \in Images(network, ref) /\ N[y] = SumInto(network, ref, y) /\ \A a, b \in y : q[a] = q[b]
    BY DEF Within, NetworkOf
  <2>2. PICK pair \in DOMAIN network : y = ImageOf(ref, pair)
    BY <2>1 DEF Images
  <2>3. pair \in S /\ y = g[pair]
    BY <1>2, <2>1, <2>2
  <2>4. QED
    BY <2>1, <2>3
<1>9. \A y \in Y \ R : h[y] = 0
  <2> SUFFICES ASSUME NEW y \in Y, y \notin R PROVE h[y] = 0
    OBVIOUS
  <2>1. PICK pair \in S : y = g[pair]
    OBVIOUS
  <2>2. pair \in DOMAIN network /\ y = ImageOf(ref, pair) /\ \A a, b \in y : q[a] = q[b]
    BY <1>2, <1>3, <2>1
  <2>3. y \notin DOMAIN N
    BY <2>2 DEF Within
  <2>4. ~(SumInto(network, ref, y) > 0)
    BY <2>2, <2>3 DEF NetworkOf, Images
  <2>5. SumInto(network, ref, y) \in Nat
    BY SumIntoNat
  <2>6. SumInto(network, ref, y) = 0
    BY <2>4, <2>5
  <2>7. h[y] = SumInto(network, ref, y)
    OBVIOUS
  <2>8. QED
    BY <2>6, <2>7
<1> HIDE DEF N, S, g, Y, R, h
<1>10. Det!Total(h, Y) = Det!Total(h, R)
  BY <1>7, <1>8, <1>9, TotalWider
<1>11. Det!Total(N, R) = Det!Total(h, R)
  <2>1. Numbers(h, R)
    BY <1>7, <1>8, FS_Subset DEF Numbers
  <2>2. QED
    BY <1>8, <2>1, TotalSame
<1>12. QED
  BY <1>7, <1>10, <1>11 DEF N, S, R

LEMMA AggregateMass ==
  ASSUME NEW D, NEW mass, Numbers(mass, D), NEW ref, DOMAIN ref = D,
         NEW q, DOMAIN q = Det!Clusters(ref), NEW p, DOMAIN p = D, \A u \in D : p[u] = q[ref[u]],
         NEW k
  PROVE  Det!MassOf(MassesOf(mass, ref), q, k) = Det!MassOf(mass, p, k)
<1> DEFINE S == {u \in DOMAIN p : p[u] = k}
           Y == {c \in DOMAIN q : q[c] = k}
           h == MassesOf(mass, ref)
<1>1. Numbers(mass, S)
  BY FS_Subset DEF Numbers
<1>2. IsFiniteSet(Y)
  BY ClusterMasses, FS_Subset
<1>3. \A u \in S : ref[u] \in Y
  BY DEF Det!Clusters
<1>4. ASSUME NEW y \in Y PROVE h[y] = Det!Total(mass, Fiber(S, ref, y))
  <2>1. h[y] = Det!MassOf(mass, ref, y)
    BY DEF MassesOf
  <2>2. Fiber(S, ref, y) = {u \in DOMAIN ref : ref[u] = y}
    <3>1. \A u \in DOMAIN ref : ref[u] = y => u \in S
      OBVIOUS
    <3>2. QED
      BY <3>1 DEF Fiber
  <2>3. QED
    BY <2>1, <2>2 DEF Det!MassOf
<1> HIDE DEF S, Y, h
<1>5. Det!Total(h, Y) = Det!Total(mass, S)
  BY <1>1, <1>2, <1>3, <1>4, TotalGrouped
<1>6. QED
  BY <1>5 DEF S, Y, h, Det!MassOf

\* The promise above aggregateNetwork.
LEMMA AggregateKeeps ==
  ASSUME NEW D, NEW network, NetworkOver(network, D), NEW mass, Numbers(mass, D), NEW total,
         NEW ref, DOMAIN ref = D,
         NEW q, DOMAIN q = Det!Clusters(ref), NEW p, DOMAIN p = D, \A u \in D : p[u] = q[ref[u]]
  PROVE  Det!Value(NetworkOf(network, ref), MassesOf(mass, ref), total, q) =
           Det!Value(network, mass, total, p)
<1>1. Det!Total(NetworkOf(network, ref), Within(NetworkOf(network, ref), q))
        = Det!Total(network, Within(network, p))
  BY AggregateWeight
<1>2. Det!Clusters(q) = Det!Clusters(p)
  <2>1. \A c \in Det!Clusters(ref) : \E u \in D : c = ref[u]
    BY DEF Det!Clusters
  <2>2. \A u \in D : ref[u] \in Det!Clusters(ref)
    BY DEF Det!Clusters
  <2>3. QED
    BY <2>1, <2>2 DEF Det!Clusters
<1>3. \A k : Det!MassOf(MassesOf(mass, ref), q, k) = Det!MassOf(mass, p, k)
  BY AggregateMass
<1>4. Squares(MassesOf(mass, ref), q) = Squares(mass, p)
  BY <1>2, <1>3 DEF Squares
<1>5. QED
  BY <1>1, <1>2, <1>4, ValueIs

-----------------------------------------------------------------------------
(* A local move changes the objective by what moveDelta says *)

ToCluster(network, p, u, c) == Det!Between(network, u, {v \in DOMAIN p : p[v] = c})

Gain(network, mass, total, p, u, to) ==
  total * (ToCluster(network, p, u, to) - ToCluster(network, p, u, p[u]))
  - mass[u] * (Det!MassOf(mass, p, to) - Det!MassOf(mass, p, p[u]) + mass[u])

Beside(network, p, u, c) ==
  {{u, v} : v \in Det!Neighbors(network, u) \cap {v \in DOMAIN p : p[v] = c}}

LEMMA MovedWeight ==
  ASSUME NEW D, NEW network, NetworkOver(network, D), NEW p, DOMAIN p = D, NEW u \in D,
         NEW to, to # p[u], NEW q, DOMAIN q = D, q[u] = to, \A v \in D \ {u} : q[v] = p[v]
  PROVE  /\ ToCluster(network, p, u, to) \in Int /\ ToCluster(network, p, u, p[u]) \in Int
         /\ Det!Total(network, Within(network, p)) \in Int
         /\ Det!Total(network, Within(network, q)) =
              Det!Total(network, Within(network, p))
              + (ToCluster(network, p, u, to) - ToCluster(network, p, u, p[u]))
<1> DEFINE Rest == Within(network, p) \cap Within(network, q)
           A == Beside(network, p, u, p[u])
           B == Beside(network, p, u, to)
<1>1. \A pair \in DOMAIN network : \E v, w \in D : pair = {v, w}
  BY DEF NetworkOver
<1>2. ASSUME NEW pair \in DOMAIN network, NEW v \in D, pair = {u, v}, v # u
      PROVE  v \in Det!Neighbors(network, u)
  BY <1>2 DEF Det!Neighbors
<1>3. ASSUME NEW pair \in DOMAIN network
      PROVE  \/ \E v \in D : pair = {u, v}
             \/ pair \in Within(network, p) <=> pair \in Within(network, q)
  <2>1. PICK v \in D, w \in D : pair = {v, w}
    BY <1>1
  <2>2. CASE v = u \/ w = u
    BY <2>1, <2>2
  <2>3. CASE v # u /\ w # u
    BY <2>1, <2>3 DEF Within
  <2>4. QED
    BY <2>2, <2>3
<1>4. Within(network, p) = Rest \cup A /\ Rest \cap A = {}
  <2>1. ASSUME NEW pair \in Within(network, p), pair \notin Within(network, q) PROVE pair \in A
    <3>1. pair \in DOMAIN network
      BY DEF Within
    <3>2. PICK v \in D : pair = {u, v}
      BY <1>3, <2>1, <3>1
    <3>3. v # u
      BY <2>1, <3>1, <3>2 DEF Within
    <3>4. p[v] = p[u]
      BY <3>2 DEF Within
    <3>5. QED
      BY <1>2, <3>1, <3>2, <3>3, <3>4 DEF Beside
  <2>2. ASSUME NEW pair \in A PROVE pair \in Within(network, p) /\ pair \notin Within(network, q)
    <3>1. PICK v \in D : v \in Det!Neighbors(network, u) /\ p[v] = p[u] /\ pair = {u, v}
      BY DEF Beside
    <3>2. v # u /\ pair \in DOMAIN network
      BY <3>1 DEF Det!Neighbors
    <3>3. q[v] = p[v]
      BY <3>2
    <3>4. QED
      BY <3>1, <3>2, <3>3 DEF Within
  <2>3. QED
    BY <2>1, <2>2
<1>5. Within(network, q) = Rest \cup B /\ Rest \cap B = {}
  <2>1. ASSUME NEW pair \in Within(network, q), pair \notin Within(network, p) PROVE pair \in B
    <3>1. pair \in DOMAIN network
      BY DEF Within
    <3>2. PICK v \in D : pair = {u, v}
      BY <1>3, <2>1, <3>1
    <3>3. v # u
      BY <2>1, <3>1, <3>2 DEF Within
    <3>4. q[v] = q[u] /\ p[v] = to
      BY <3>2, <3>3 DEF Within
    <3>5. QED
      BY <1>2, <3>1, <3>2, <3>3, <3>4 DEF Beside
  <2>2. ASSUME NEW pair \in B PROVE pair \in Within(network, q) /\ pair \notin Within(network, p)
    <3>1. PICK v \in D : v \in Det!Neighbors(network, u) /\ p[v] = to /\ pair = {u, v}
      BY DEF Beside
    <3>2. v # u /\ pair \in DOMAIN network
      BY <3>1 DEF Det!Neighbors
    <3>3. q[v] = p[v]
      BY <3>2
    <3>4. QED
      BY <3>1, <3>2, <3>3 DEF Within
  <2>3. QED
    BY <2>1, <2>2
<1>6. Numbers(network, Rest) /\ Numbers(network, A) /\ Numbers(network, B)
  <2>1. Within(network, p) \in SUBSET DOMAIN network /\ Within(network, q) \in SUBSET DOMAIN network
    BY DEF Within
  <2>2. Rest \in SUBSET DOMAIN network /\ A \in SUBSET DOMAIN network /\ B \in SUBSET DOMAIN network
    BY <1>4, <1>5, <2>1
  <2> HIDE DEF Rest, A, B
  <2>3. QED
    BY <2>2, NetworkNumbers
<1>7. /\ ToCluster(network, p, u, to) = Det!Total(network, B)
      /\ ToCluster(network, p, u, p[u]) = Det!Total(network, A)
  BY DEF ToCluster, Det!Between, Det!Weight, Beside
<1> HIDE DEF Rest, A, B
<1>8. /\ Det!Total(network, Within(network, p)) = Det!Total(network, Rest) + Det!Total(network, A)
      /\ Det!Total(network, Within(network, q)) = Det!Total(network, Rest) + Det!Total(network, B)
  BY <1>4, <1>5, <1>6, TotalUnion
<1>9. Det!Total(network, Rest) \in Int /\ Det!Total(network, A) \in Int /\ Det!Total(network, B) \in Int
  BY <1>6, TotalStep
<1>10. QED
  BY <1>7, <1>8, <1>9

LEMMA MovedMasses ==
  ASSUME NEW D, NEW mass, Numbers(mass, D), NEW p, DOMAIN p = D, NEW u \in D,
         NEW to, to # p[u], NEW q, DOMAIN q = D, q[u] = to, \A v \in D \ {u} : q[v] = p[v]
  PROVE  /\ Det!MassOf(mass, p, p[u]) = mass[u] + Det!MassOf(mass, q, p[u])
         /\ Det!MassOf(mass, q, to) = mass[u] + Det!MassOf(mass, p, to)
         /\ \A c : c # to /\ c # p[u] => Det!MassOf(mass, q, c) = Det!MassOf(mass, p, c)
<1> DEFINE left == {v \in D : p[v] = p[u]}
           joined == {v \in D : q[v] = to}
<1>1. Numbers(mass, left) /\ Numbers(mass, joined)
  BY FS_Subset DEF Numbers
<1>2. u \in left /\ left \ {u} = {v \in D : q[v] = p[u]}
  OBVIOUS
<1>3. u \in joined /\ joined \ {u} = {v \in D : p[v] = to}
  OBVIOUS
<1>4. \A c : c # to /\ c # p[u] => {v \in D : q[v] = c} = {v \in D : p[v] = c}
  OBVIOUS
<1>5. \A c : c # to /\ c # p[u] => Det!MassOf(mass, q, c) = Det!MassOf(mass, p, c)
  BY <1>4 DEF Det!MassOf
<1>6. /\ Det!MassOf(mass, p, p[u]) = Det!Total(mass, left)
      /\ Det!MassOf(mass, q, to) = Det!Total(mass, joined)
      /\ Det!MassOf(mass, q, p[u]) = Det!Total(mass, left \ {u})
      /\ Det!MassOf(mass, p, to) = Det!Total(mass, joined \ {u})
  BY <1>2, <1>3 DEF Det!MassOf
<1> HIDE DEF left, joined
<1>7. /\ Det!Total(mass, left) = mass[u] + Det!Total(mass, left \ {u})
      /\ Det!Total(mass, joined) = mass[u] + Det!Total(mass, joined \ {u})
  BY <1>1, <1>2, <1>3, TotalStep
<1>8. QED
  BY <1>5, <1>6, <1>7

LEMMA MovedSquares ==
  ASSUME NEW D, NEW mass, Numbers(mass, D), NEW p, DOMAIN p = D, NEW u \in D,
         NEW to \in Det!Clusters(p), to # p[u],
         NEW q, DOMAIN q = D, q[u] = to, \A v \in D \ {u} : q[v] = p[v]
  PROVE  /\ Det!Total(Squares(mass, p), Det!Clusters(p)) \in Int
         /\ Det!Total(Squares(mass, q), Det!Clusters(q)) =
              Det!Total(Squares(mass, p), Det!Clusters(p))
              + 2 * (mass[u] * (Det!MassOf(mass, p, to) - Det!MassOf(mass, p, p[u]) + mass[u]))
<1> DEFINE K == Det!Clusters(p)
           a == p[u]
           P(c) == Det!MassOf(mass, p, c)
           Q(c) == Det!MassOf(mass, q, c)
           f == Squares(mass, p)
           g == [c \in K |-> Q(c) * Q(c)]
           rest == (K \ {a}) \ {to}
<1>1. a \in K /\ to \in K \ {a} /\ Det!Clusters(q) \in SUBSET K
  BY DEF Det!Clusters
<1>2. IsFiniteSet(K) /\ (\A c : P(c) \in Int) /\ (\A c : Q(c) \in Int)
      /\ Numbers(f, K) /\ Numbers(Squares(mass, q), Det!Clusters(q))
  BY ClusterMasses
<1>3. Numbers(g, K)
  BY <1>2 DEF Numbers
<1>4. Det!Total(g, K) = Det!Total(Squares(mass, q), Det!Clusters(q))
  <2>1. \A c \in K \ Det!Clusters(q) : g[c] = 0
    <3> TAKE c \in K \ Det!Clusters(q)
    <3>1. {v \in DOMAIN q : q[v] = c} = {}
      BY DEF Det!Clusters
    <3>2. Q(c) = 0
      BY <3>1, TotalEmpty DEF Det!MassOf
    <3>3. QED
      BY <3>2
  <2>2. \A c \in Det!Clusters(q) : g[c] = Squares(mass, q)[c]
    BY <1>1 DEF Squares
  <2> HIDE DEF g, K
  <2>3. Det!Total(g, K) = Det!Total(g, Det!Clusters(q))
    BY <1>1, <1>3, <2>1, TotalWider
  <2>4. QED
    BY <1>2, <2>2, <2>3, TotalSame
<1>5. /\ f[a] = P(a) * P(a) /\ f[to] = P(to) * P(to) /\ g[a] = Q(a) * Q(a) /\ g[to] = Q(to) * Q(to)
      /\ \A c \in rest : f[c] = P(c) * P(c) /\ g[c] = Q(c) * Q(c)
  BY <1>1 DEF Squares
<1>6. /\ P(a) = mass[u] + Q(a) /\ Q(to) = mass[u] + P(to)
      /\ \A c : c # to /\ c # a => Q(c) = P(c)
  BY MovedMasses
<1> DEFINE pa == P(a)
           pt == P(to)
           qa == Q(a)
           qt == Q(to)
           m == mass[u]
<1>7. pa \in Int /\ pt \in Int /\ qa \in Int /\ qt \in Int /\ m \in Int
  BY <1>2 DEF Numbers
<1>8. f[a] = pa * pa /\ f[to] = pt * pt /\ g[a] = qa * qa /\ g[to] = qt * qt
      /\ pa = m + qa /\ qt = m + pt
  BY <1>5, <1>6
<1>9. \A c \in rest : g[c] = f[c]
  BY <1>5, <1>6
<1> HIDE DEF K, f, g, a, pa, pt, qa, qt, m
<1>10. Numbers(f, K \ {a}) /\ Numbers(g, K \ {a}) /\ Numbers(f, rest) /\ Numbers(g, rest)
  BY <1>2, <1>3, FS_Subset DEF Numbers
<1>11. /\ Det!Total(f, K) = f[a] + Det!Total(f, K \ {a})
       /\ Det!Total(g, K) = g[a] + Det!Total(g, K \ {a})
  BY <1>1, <1>2, <1>3, TotalStep
<1>12. /\ Det!Total(f, K \ {a}) = f[to] + Det!Total(f, rest)
       /\ Det!Total(g, K \ {a}) = g[to] + Det!Total(g, rest)
  BY <1>1, <1>10, TotalStep
<1>13. Det!Total(g, rest) = Det!Total(f, rest) /\ Det!Total(f, rest) \in Int
  BY <1>9, <1>10, TotalSame, TotalStep
<1> DEFINE r == Det!Total(f, rest)
<1>14. /\ Det!Total(f, K) = pa * pa + (pt * pt + r)
       /\ Det!Total(g, K) = qa * qa + (qt * qt + r) /\ r \in Int
  BY <1>8, <1>11, <1>12, <1>13
<1> HIDE DEF r, rest
<1>15. qa * qa + (qt * qt + r) = (pa * pa + (pt * pt + r)) + 2 * (m * (pt - pa + m))
  <2>1. qa = pa - m /\ qt = m + pt
    BY <1>7, <1>8
  <2>2. (pa - m) * (pa - m) + ((m + pt) * (m + pt) + r)
          = (pa * pa + (pt * pt + r)) + 2 * (m * (pt - pa + m))
    BY <1>7, <1>14
  <2>3. QED
    BY <2>1, <2>2
<1>16. pa * pa \in Int /\ pt * pt \in Int
  BY <1>7
<1>17. QED
  BY <1>4, <1>14, <1>15, <1>16 DEF f, K, pa, pt, m, a

LEMMA MoveGains ==
  ASSUME NEW D, NEW network, NetworkOver(network, D), NEW mass, Numbers(mass, D),
         NEW total \in Int, NEW p, DOMAIN p = D, NEW u \in D,
         NEW to \in Det!Clusters(p), to # p[u],
         NEW q, DOMAIN q = D, q[u] = to, \A v \in D \ {u} : q[v] = p[v]
  PROVE  /\ Det!Value(network, mass, total, p) \in Int
         /\ Det!Value(network, mass, total, q) =
              Det!Value(network, mass, total, p) + 2 * Gain(network, mass, total, p, u, to)
         /\ Gain(network, mass, total, p, u, to) \in Int
<1> DEFINE wp == Det!Total(network, Within(network, p))
           wq == Det!Total(network, Within(network, q))
           sp == Det!Total(Squares(mass, p), Det!Clusters(p))
           sq == Det!Total(Squares(mass, q), Det!Clusters(q))
           t == ToCluster(network, p, u, to)
           b == ToCluster(network, p, u, p[u])
           x == mass[u] * (Det!MassOf(mass, p, to) - Det!MassOf(mass, p, p[u]) + mass[u])
<1>1. wp \in Int /\ t \in Int /\ b \in Int /\ wq = wp + (t - b)
  BY MovedWeight
<1>2. sp \in Int /\ sq = sp + 2 * x
  BY MovedSquares
<1>3. x \in Int
  <2>1. mass[u] \in Int /\ Det!MassOf(mass, p, to) \in Int /\ Det!MassOf(mass, p, p[u]) \in Int
    BY ClusterMasses DEF Numbers
  <2>2. QED
    BY <2>1
<1>4. /\ Det!Value(network, mass, total, p) = 2 * total * wp - sp
      /\ Det!Value(network, mass, total, q) = 2 * total * wq - sq
      /\ Gain(network, mass, total, p, u, to) = total * (t - b) - x
  BY ValueIs DEF Gain
<1> HIDE DEF wp, wq, sp, sq, t, b, x
<1>5. 2 * total * (wp + (t - b)) - (sp + 2 * x) = (2 * total * wp - sp) + 2 * (total * (t - b) - x)
  BY <1>1, <1>2, <1>3
<1>6. 2 * total * wp - sp \in Int /\ total * (t - b) - x \in Int
  BY <1>1, <1>2, <1>3
<1>7. QED
  BY <1>1, <1>2, <1>4, <1>5, <1>6

-----------------------------------------------------------------------------
(* Lists, least members and numbers of clusters *)

\* Detection has operators of its own for what FiniteSets defines.
LEMMA SameOperators ==
  ASSUME NEW S
  PROVE  /\ Det!Cardinality(S) = Cardinality(S)
         /\ Det!Ascending(S) = Vec!Ascending(S)
         /\ Det!ToSet(S) = {S[i] : i \in DOMAIN S}
<1>1. \A T : Det!Cardinality(T) = Cardinality(T) /\ Vec!Cardinality(T) = Cardinality(T)
  BY DEF Det!Cardinality, Cardinality, Det!IsFiniteSet, IsFiniteSet, Vec!Cardinality,
     Vec!IsFiniteSet
<1>2. Det!Ascending(S) = Vec!Ascending(S)
  BY DEF Det!Ascending, Vec!Ascending, Det!Cardinality, Vec!Cardinality,
         Det!IsFiniteSet, Vec!IsFiniteSet
<1>3. QED
  BY <1>1, <1>2 DEF Det!ToSet

LEMMA LeastMember ==
  ASSUME NEW S, S \subseteq Nat, S # {}
  PROVE  Det!Min(S) \in S /\ \A x \in S : Det!Min(S) <= x
<1>1. \E n \in S : \A m \in S : n <= m
  BY Least
<1>2. QED
  BY <1>1 DEF Det!Min

\* The greatest of a finite set of naturals.
LEMMA Greatest ==
  ASSUME NEW S \in SUBSET Nat, IsFiniteSet(S), S # {}
  PROVE  \E n \in S : \A x \in S : n >= x
<1> DEFINE a == Vec!Ascending(S)
<1>1. /\ a \in Seq(S) /\ Increasing(a)
      /\ \A x \in S : \E i \in 1 .. Len(a) : a[i] = x
  BY AscendingLists
<1> HIDE DEF a
<1>2. Len(a) \in Nat /\ Len(a) \in 1 .. Len(a)
  <2>1. PICK x \in S : TRUE
    OBVIOUS
  <2>2. PICK i \in 1 .. Len(a) : a[i] = x
    BY <1>1
  <2>3. Len(a) \in Nat
    BY <1>1
  <2>4. QED
    BY <2>2, <2>3
<1>3. \A i \in 1 .. Len(a) : a[i] \in S /\ a[i] \in Nat
  <2>1. \A x \in S : x \in Nat
    OBVIOUS
  <2>2. \A i \in 1 .. Len(a) : a[i] \in S
    BY <1>1
  <2>3. QED
    BY <2>1, <2>2
<1>4. ASSUME NEW i \in 1 .. Len(a) PROVE a[Len(a)] >= a[i]
  <2>1. i = Len(a) \/ i < Len(a)
    BY <1>2
  <2>2. a[i] \in Nat /\ a[Len(a)] \in Nat
    BY <1>3
  <2>3. i < Len(a) => a[i] < a[Len(a)]
    BY <1>1, <1>2 DEF Increasing
  <2>4. QED
    BY <2>1, <2>2, <2>3
<1>5. QED
  BY <1>1, <1>2, <1>3, <1>4

LEMMA IntervalCount ==
  ASSUME NEW n \in Nat
  PROVE  IsFiniteSet(0 .. n - 1) /\ Cardinality(0 .. n - 1) = n
<1>1. IsFiniteSet(0 .. n - 1)
      /\ Cardinality(0 .. n - 1) = IF 0 > n - 1 THEN 0 ELSE (n - 1) - 0 + 1
  BY FS_Interval
<1>2. QED
  BY <1>1

\* The clusters have the numbers from 0 on.
Numbered(p) == Det!Clusters(p) = 0 .. Cardinality(Det!Clusters(p)) - 1

LEMMA NormalizedNumbers ==
  ASSUME NEW p, DOMAIN p \in SUBSET Nat, IsFiniteSet(DOMAIN p)
  PROVE  /\ Det!Normalized(p) \in [DOMAIN p -> Nat]
         /\ \A u, v \in DOMAIN p : p[u] = p[v] <=> Det!Normalized(p)[u] = Det!Normalized(p)[v]
         /\ Numbered(Det!Normalized(p))
<1> DEFINE D == DOMAIN p
           First(c) == Det!Min({u \in D : p[u] = c})
           F == {First(p[u]) : u \in D}
           q == [u \in D |-> Rank(F, First(p[u]))]
<1>1. Det!Normalized(p) = q
  <2>1. Det!Normalized(p) = [u \in D |-> Det!Cardinality({f \in F : f < First(p[u])})]
    BY DEF Det!Normalized
  <2>2. \A S : Det!Cardinality(S) = Vec!Cardinality(S)
    BY SameOperators, SameCounting
  <2>3. QED
    BY <2>1, <2>2 DEF Rank, Below
<1>2. \A u \in D : First(p[u]) \in D /\ p[First(p[u])] = p[u]
  <2> TAKE u \in D
  <2> DEFINE S == {v \in D : p[v] = p[u]}
  <2>1. S \subseteq Nat /\ u \in S
    OBVIOUS
  <2> HIDE DEF S
  <2>2. Det!Min(S) \in S
    BY <2>1, LeastMember
  <2>3. QED
    BY <2>2 DEF S
<1>3. F \in SUBSET D
  BY <1>2
<1>4. F \in SUBSET Nat /\ IsFiniteSet(F) /\ Cardinality(F) \in Nat
  BY <1>3, FS_Subset, FS_CardinalityType
<1>5. \A u \in D : First(p[u]) \in F
  OBVIOUS
<1>6. \A f \in F : \E u \in D : f = First(p[u])
  OBVIOUS
<1>7. \A u, v \in D : First(p[u]) = First(p[v]) <=> p[u] = p[v]
  BY <1>2
<1> DEFINE first == [u \in D |-> First(p[u])]
<1>8. \A u \in D : first[u] = First(p[u]) /\ q[u] = Rank(F, first[u])
  OBVIOUS
<1>9. /\ \A u \in D : first[u] \in F
      /\ \A f \in F : \E u \in D : f = first[u]
      /\ \A u, v \in D : first[u] = first[v] <=> p[u] = p[v]
  BY <1>5, <1>6, <1>7, <1>8
<1>10. q = [u \in D |-> Rank(F, first[u])]
  BY <1>8
<1> HIDE DEF F, first, First, q
<1>11. \A u \in D : Rank(F, first[u]) \in 0 .. Cardinality(F) - 1
  BY <1>4, <1>9, RankBound
<1>12. q \in [D -> Nat]
  BY <1>10, <1>11
<1>13. \A u, v \in D : p[u] = p[v] <=> q[u] = q[v]
  <2> TAKE u, v \in D
  <2>1. first[u] \in F /\ first[v] \in F
    BY <1>9
  <2> DEFINE f == first[u]
             g == first[v]
  <2>2. f \in F /\ g \in F
    BY <2>1
  <2> HIDE DEF f, g
  <2>3. Rank(F, f) = Rank(F, g) => f = g
    BY <1>4, <2>2, RankOnce
  <2>4. QED
    BY <1>9, <1>10, <2>3 DEF f, g
<1>14. Det!Clusters(q) = 0 .. Cardinality(F) - 1
  <2>1. \A c \in Det!Clusters(q) : c \in 0 .. Cardinality(F) - 1
    BY <1>10, <1>11 DEF Det!Clusters
  <2>2. ASSUME NEW c \in 0 .. Cardinality(F) - 1 PROVE c \in Det!Clusters(q)
    <3>1. c + 1 \in 1 .. Cardinality(F) /\ (c + 1) - 1 = c
      BY <1>4
    <3>2. PICK f \in F : Rank(F, f) = c
      BY <1>4, <3>1, RankOnto
    <3>3. PICK u \in D : f = first[u]
      BY <1>9
    <3>4. q[u] = c /\ u \in DOMAIN q
      BY <1>10, <3>2, <3>3
    <3>5. QED
      BY <3>4 DEF Det!Clusters
  <2>3. QED
    BY <2>1, <2>2
<1>15. Numbered(q)
  BY <1>4, <1>14, IntervalCount DEF Numbered
<1>16. QED
  BY <1>1, <1>12, <1>13, <1>15

\* A sequence without what it repeats has the same members, each once.
LEMMA FirstsOnce ==
  ASSUME NEW list \in Seq(Nat)
  PROVE  LET s == Det!Firsts(list) IN
           /\ s \in Seq(Nat)
           /\ \A i, j \in 1 .. Len(s) : s[i] = s[j] => i = j
           /\ \A x : (\E i \in 1 .. Len(s) : s[i] = x) <=> \E i \in 1 .. Len(list) : list[i] = x
<1> DEFINE F == {n \in 1 .. Len(list) : \A m \in 1 .. n - 1 : list[m] # list[n]}
           a == Vec!Ascending(F)
           s == [k \in 1 .. Cardinality(F) |-> list[a[k]]]
<1>1. Det!Firsts(list) = s
  <2>1. DOMAIN list = 1 .. Len(list)
    OBVIOUS
  <2>2. Det!Cardinality(F) = Cardinality(F) /\ Det!Ascending(F) = a
    BY SameOperators
  <2>3. QED
    BY <2>1, <2>2 DEF Det!Firsts
<1>2. F \in SUBSET Nat /\ IsFiniteSet(F) /\ Cardinality(F) \in Nat
  <2>1. IsFiniteSet(1 .. Len(list)) /\ F \in SUBSET (1 .. Len(list))
    BY FS_Interval
  <2>2. QED
    BY <2>1, FS_Subset, FS_CardinalityType
<1>3. /\ \A n \in F : n \in 1 .. Len(list) /\ \A m \in 1 .. n - 1 : list[m] # list[n]
      /\ \A n \in 1 .. Len(list) : (\A m \in 1 .. n - 1 : list[m] # list[n]) => n \in F
  OBVIOUS
<1> HIDE DEF F
<1>4. /\ a \in Seq(F) /\ Len(a) = Cardinality(F) /\ Increasing(a)
      /\ \A x \in F : \E i \in 1 .. Len(a) : a[i] = x
  BY <1>2, AscendingLists
<1> HIDE DEF a
<1>5. \A k \in 1 .. Cardinality(F) : a[k] \in F /\ a[k] \in 1 .. Len(list)
  BY <1>3, <1>4
<1>6. s \in Seq(Nat) /\ Len(s) = Cardinality(F) /\ \A k \in 1 .. Cardinality(F) : s[k] = list[a[k]]
  BY <1>2, <1>5
<1> HIDE DEF s
<1>7. ASSUME NEW i \in 1 .. Len(s), NEW j \in 1 .. Len(s), s[i] = s[j] PROVE i = j
  <2>1. a[i] \in F /\ a[j] \in F /\ list[a[i]] = list[a[j]]
    BY <1>5, <1>6, <1>7
  <2>2. ~(a[i] < a[j]) /\ ~(a[j] < a[i])
    <3>1. \A n, m \in F : m < n => list[m] # list[n]
      <4> TAKE n, m \in F
      <4>1. n \in Nat /\ m \in Nat /\ m >= 1
        BY <1>3
      <4>2. m < n => m \in 1 .. n - 1
        BY <4>1
      <4>3. QED
        BY <1>3, <4>2
    <3>2. QED
      BY <2>1, <3>1
  <2>3. ~(i < j) /\ ~(j < i)
    BY <1>4, <1>6, <2>2 DEF Increasing
  <2>4. QED
    BY <1>2, <1>6, <2>3
<1>8. ASSUME NEW n \in 1 .. Len(list) PROVE \E i \in 1 .. Len(s) : s[i] = list[n]
  <2> DEFINE S == {m \in 1 .. Len(list) : list[m] = list[n]}
  <2>1. S \subseteq Nat /\ n \in S
    OBVIOUS
  <2> HIDE DEF S
  <2>2. PICK m \in S : \A k \in S : m <= k
    BY <2>1, Least
  <2>3. m \in 1 .. Len(list) /\ list[m] = list[n] /\ \A k \in 1 .. Len(list) : list[k] = list[n] => m <= k
    BY <2>2 DEF S
  <2>4. m \in F
    BY <1>3, <2>3
  <2>5. PICK i \in 1 .. Len(a) : a[i] = m
    BY <1>4, <2>4
  <2>6. QED
    BY <1>4, <1>6, <2>3, <2>5
<1>9. ASSUME NEW i \in 1 .. Len(s) PROVE \E n \in 1 .. Len(list) : list[n] = s[i]
  BY <1>5, <1>6
<1>10. \A x : (\E i \in 1 .. Len(s) : s[i] = x) <=> \E i \in 1 .. Len(list) : list[i] = x
  BY <1>8, <1>9
<1>11. QED
  BY <1>1, <1>6, <1>7, <1>10

\* In a finite set that is ordered, every number of predecessors occurs.
LEMMA OrderOnto ==
  ASSUME NEW S, IsFiniteSet(S), NEW before \in [S -> SUBSET S],
         \A x \in S : x \notin before[x] /\ \A y \in before[x] : before[y] \subseteq before[x],
         \A x, y \in S : x # y => x \in before[y] \/ y \in before[x],
         NEW n \in 1 .. Cardinality(S)
  PROVE  \E x \in S : Cardinality(before[x]) = n - 1
<1> DEFINE N == Cardinality(S)
           f == [x \in S |-> Cardinality(before[x]) + 1]
<1>1. N \in Nat
  BY FS_CardinalityType
<1>2. ASSUME NEW x \in S
      PROVE  Cardinality(before[x]) \in Nat /\ Cardinality(before[x]) < N /\ IsFiniteSet(before[x])
  <2>1. before[x] \in SUBSET S /\ before[x] # S
    OBVIOUS
  <2>2. IsFiniteSet(before[x]) /\ Cardinality(before[x]) <= N /\ Cardinality(before[x]) # N
    BY <2>1, FS_Subset
  <2>3. QED
    BY <1>1, <2>2, FS_CardinalityType
<1>3. ASSUME NEW x \in S, NEW y \in S, x \in before[y] PROVE Cardinality(before[x]) # Cardinality(before[y])
  <2>1. before[x] \in SUBSET before[y] /\ before[x] # before[y]
    BY <1>3
  <2>2. QED
    BY <1>2, <2>1, FS_Subset
<1>4. f \in Injection(S, 1 .. N)
  <2>1. f \in [S -> 1 .. N]
    <3>1. \A x \in S : Cardinality(before[x]) + 1 \in 1 .. N
      BY <1>1, <1>2
    <3>2. QED
      BY <3>1
  <2>2. ASSUME NEW x \in S, NEW y \in S, f[x] = f[y] PROVE x = y
    <3>1. Cardinality(before[x]) = Cardinality(before[y])
      BY <1>2, <2>2
    <3>2. x \notin before[y] /\ y \notin before[x]
      BY <1>3, <3>1
    <3>3. QED
      BY <3>2
  <2>3. QED
    BY <2>1, <2>2 DEF Injection, IsInjective
<1>5. IsFiniteSet(1 .. N) /\ Cardinality(1 .. N) = N
  BY <1>1, FS_Interval
<1>6. f \in Surjection(S, 1 .. N)
  BY <1>4, <1>5, FS_Injection
<1>7. PICK x \in S : f[x] = n
  BY <1>6 DEF Surjection
<1>8. Cardinality(before[x]) \in Nat /\ Cardinality(before[x]) + 1 = n
  BY <1>2, <1>7
<1>9. QED
  BY <1>8

-----------------------------------------------------------------------------
(* The prepared edges *)

Rows == [source : Nat, target : Nat, weight : Nat]
Ends(input) == UNION {{input[n].source, input[n].target} : n \in DOMAIN input}

LEMMA PairTurned ==
  ASSUME NEW x \in Nat, NEW y \in Nat
  PROVE  /\ Det!Min({x, y}) \in {x, y} /\ Det!Max({x, y}) \in {x, y}
         /\ {Det!Min({x, y}), Det!Max({x, y})} = {x, y}
<1>1. Det!Min({x, y}) \in {x, y} /\ \A z \in {x, y} : Det!Min({x, y}) <= z
  <2>1. {x, y} \subseteq Nat /\ {x, y} # {}
    OBVIOUS
  <2>2. QED
    BY <2>1, LeastMember
<1>2. Det!Max({x, y}) \in {x, y} /\ \A z \in {x, y} : Det!Max({x, y}) >= z
  <2>1. \E m \in {x, y} : \A z \in {x, y} : m >= z
    <3>1. x >= y \/ y >= x
      OBVIOUS
    <3>2. QED
      BY <3>1
  <2>2. QED
    BY <2>1 DEF Det!Max
<1>3. QED
  BY <1>1, <1>2

\* Every pair of names occurs once, turned.
LEMMA UndirectedOnce ==
  ASSUME NEW input \in Seq(Rows)
  PROVE  LET r == Det!Undirected(input) IN
           /\ r \in Seq([source : Ends(input), target : Ends(input), weight : Nat])
           /\ \A i, j \in 1 .. Len(r) :
                r[i].source = r[j].source /\ r[i].target = r[j].target => r[i] = r[j]
           /\ Ends(input) \subseteq Nat
<1> DEFINE Pair(e) == {e.source, e.target}
           last == {n \in DOMAIN input : \A later \in n + 1 .. Len(input) :
                                           Pair(input[later]) # Pair(input[n])}
           a == Vec!Ascending(last)
           Turned(e) == [source |-> Det!Min(Pair(e)), target |-> Det!Max(Pair(e)), weight |-> e.weight]
           r == [k \in 1 .. Cardinality(last) |-> Turned(input[a[k]])]
           E == [source : Ends(input), target : Ends(input), weight : Nat]
<1>1. Det!Undirected(input) = r
  <2>1. Det!Cardinality(last) = Cardinality(last) /\ Det!Ascending(last) = a
    BY SameOperators
  <2>2. QED
    BY <2>1 DEF Det!Undirected
<1>2. DOMAIN input = 1 .. Len(input) /\ Len(input) \in Nat /\ \A n \in DOMAIN input : input[n] \in Rows
  OBVIOUS
<1>3. last \in SUBSET Nat /\ IsFiniteSet(last) /\ Cardinality(last) \in Nat /\ last \in SUBSET DOMAIN input
  <2>1. IsFiniteSet(1 .. Len(input)) /\ last \in SUBSET (1 .. Len(input))
    BY <1>2, FS_Interval
  <2>2. QED
    BY <1>2, <2>1, FS_Subset, FS_CardinalityType
<1>4. \A n, m \in last : Pair(input[n]) = Pair(input[m]) => n = m
  <2> SUFFICES ASSUME NEW n \in last, NEW m \in last, n < m PROVE Pair(input[n]) # Pair(input[m])
    <3>1. \A n, m \in last : n \in Nat /\ m \in Nat
      BY <1>3
    <3>2. \A n, m \in last : n = m \/ n < m \/ m < n
      BY <3>1
    <3>3. QED
      BY <3>2
  <2>1. n \in Nat /\ m \in Nat /\ m <= Len(input)
    BY <1>2, <1>3
  <2>2. m \in n + 1 .. Len(input)
    BY <1>2, <2>1
  <2>3. QED
    BY <2>2
<1> HIDE DEF last
<1>5. a \in Seq(last) /\ Len(a) = Cardinality(last)
  BY <1>3, AscendingLists
<1> HIDE DEF a
<1>6. \A k \in 1 .. Cardinality(last) : a[k] \in last /\ a[k] \in DOMAIN input
  <2>1. \A k \in 1 .. Cardinality(last) : a[k] \in last
    BY <1>5
  <2>2. \A n \in last : n \in DOMAIN input
    BY <1>3
  <2>3. QED
    BY <2>1, <2>2
<1>7. ASSUME NEW n \in DOMAIN input
      PROVE  /\ Turned(input[n]) \in [source : Pair(input[n]), target : Pair(input[n]), weight : Nat]
             /\ {Turned(input[n]).source, Turned(input[n]).target} = Pair(input[n])
             /\ Pair(input[n]) \subseteq Ends(input) /\ Pair(input[n]) \subseteq Nat
  <2>1. input[n].source \in Nat /\ input[n].target \in Nat /\ input[n].weight \in Nat
    BY <1>2 DEF Rows
  <2>2. Pair(input[n]) \subseteq Ends(input)
    BY DEF Ends
  <2>3. QED
    BY <2>1, <2>2, PairTurned
<1>8. Ends(input) \subseteq Nat
  BY <1>7 DEF Ends
<1> HIDE DEF Turned, Pair
<1>9. ASSUME NEW k \in 1 .. Cardinality(last)
      PROVE  r[k] \in E /\ r[k] = Turned(input[a[k]])
  BY <1>6, <1>7
<1> HIDE DEF E
<1>10. r \in Seq(E) /\ Len(r) = Cardinality(last)
  BY <1>3, <1>9
<1> HIDE DEF r
<1>11. ASSUME NEW i \in 1 .. Len(r), NEW j \in 1 .. Len(r),
              r[i].source = r[j].source /\ r[i].target = r[j].target
       PROVE  r[i] = r[j]
  <2>1. r[i] = Turned(input[a[i]]) /\ r[j] = Turned(input[a[j]]) /\ a[i] \in last /\ a[j] \in last
    BY <1>6, <1>9, <1>10
  <2>2. Pair(input[a[i]]) = Pair(input[a[j]])
    BY <1>6, <1>7, <1>10, <1>11, <2>1
  <2>3. a[i] = a[j]
    BY <1>4, <2>1, <2>2
  <2>4. QED
    BY <2>1, <2>3
<1>12. QED
  BY <1>1, <1>8, <1>10, <1>11 DEF E

LEMMA PreparedRows ==
  ASSUME NEW input \in Seq(Rows)
  PROVE  /\ Det!Prepared(input) \in Seq([source : Ends(input), target : Ends(input), weight : Nat])
         /\ Ends(input) \subseteq Nat
<1> DEFINE r == Det!Undirected(input)
           all == Det!ToSet(r)
           S == {e \in all : \/ ~UseLargestConnectedComponent
                             \/ e.source \in Det!LargestComponent(r)}
           before == [e \in S |-> {f \in S : \/ f.source < e.source
                                             \/ f.source = e.source /\ f.target < e.target}]
           E == [source : Ends(input), target : Ends(input), weight : Nat]
<1>1. Det!Prepared(input) = [n \in 1 .. Cardinality(S) |-> CHOOSE e \in S : Cardinality(before[e]) = n - 1]
  <2> DEFINE Earlier(e) == {f \in S : \/ f.source < e.source
                                      \/ f.source = e.source /\ f.target < e.target}
  <2>1. Det!Prepared(input) = [n \in 1 .. Det!Cardinality(S) |->
                                 CHOOSE e \in S : Det!Cardinality(Earlier(e)) = n - 1]
    BY DEF Det!Prepared
  <2>2. \A e : Det!Cardinality(Earlier(e)) = Cardinality(Earlier(e))
    BY SameOperators
  <2>3. \A e \in S : before[e] = Earlier(e)
    OBVIOUS
  <2>4. \A n : \A e \in S : Det!Cardinality(Earlier(e)) = n - 1 <=> Cardinality(before[e]) = n - 1
    BY <2>2, <2>3
  <2>5. Det!Cardinality(S) = Cardinality(S)
    BY SameOperators
  <2> HIDE DEF S, Earlier, before
  <2>6. \A n : (CHOOSE e \in S : Det!Cardinality(Earlier(e)) = n - 1)
                 = (CHOOSE e \in S : Cardinality(before[e]) = n - 1)
    BY <2>4
  <2>7. QED
    BY <2>1, <2>5, <2>6
<1>2. /\ r \in Seq(E) /\ Ends(input) \subseteq Nat
      /\ \A i, j \in 1 .. Len(r) :
           r[i].source = r[j].source /\ r[i].target = r[j].target => r[i] = r[j]
  BY UndirectedOnce
<1> HIDE DEF r
<1>3. all = {r[i] : i \in 1 .. Len(r)}
  BY <1>2, SameOperators
<1>4. all \subseteq E /\ IsFiniteSet(all)
  <2>1. all \subseteq E
    <3> HIDE DEF E
    <3>1. \A i \in 1 .. Len(r) : r[i] \in E
      BY <1>2
    <3>2. QED
      BY <1>3, <3>1
  <2>2. [i \in 1 .. Len(r) |-> r[i]] \in Surjection(1 .. Len(r), all)
    BY <1>3 DEF Surjection
  <2>3. Len(r) \in Nat
    BY <1>2
  <2>4. IsFiniteSet(1 .. Len(r))
    BY <2>3, FS_Interval
  <2>5. QED
    BY <2>1, <2>2, <2>4, FS_Surjection
<1>5. \A e, f \in all : e.source = f.source /\ e.target = f.target => e = f
  BY <1>2, <1>3
<1>6. S \in SUBSET all /\ IsFiniteSet(S) /\ Cardinality(S) \in Nat
  <2>1. S \in SUBSET all
    OBVIOUS
  <2>2. QED
    BY <1>4, <2>1, FS_Subset, FS_CardinalityType
<1>7. \A e \in S : e.source \in Nat /\ e.target \in Nat
  BY <1>2, <1>4, <1>6
<1>8. \A e, f \in S : e.source = f.source /\ e.target = f.target => e = f
  BY <1>5, <1>6
<1> HIDE DEF S, all
<1>9. before \in [S -> SUBSET S]
  OBVIOUS
<1> DEFINE Less(f, e) == \/ f.source < e.source
                         \/ f.source = e.source /\ f.target < e.target
<1>10. \A x \in S : \A y : y \in before[x] <=> y \in S /\ Less(y, x)
  <2> TAKE x \in S
  <2>1. before[x] = {f \in S : \/ f.source < x.source
                               \/ f.source = x.source /\ f.target < x.target}
    OBVIOUS
  <2> HIDE DEF before
  <2>2. \A y : y \in before[x] <=> /\ y \in S
                                  /\ \/ y.source < x.source
                                     \/ y.source = x.source /\ y.target < x.target
    BY <2>1
  <2>3. QED
    BY <2>2
<1> HIDE DEF before
<1>11. \A x \in S : x \notin before[x] /\ \A y \in before[x] : before[y] \subseteq before[x]
  <2> TAKE x \in S
  <2>1. x \notin before[x]
    BY <1>7, <1>10
  <2>2. ASSUME NEW y \in before[x], NEW z \in before[y] PROVE z \in before[x]
    <3>1. y \in S /\ Less(y, x)
      BY <1>10
    <3>2. z \in S /\ Less(z, y)
      BY <1>10, <3>1
    <3>3. x.source \in Nat /\ x.target \in Nat /\ y.source \in Nat /\ y.target \in Nat
          /\ z.source \in Nat /\ z.target \in Nat
      BY <1>7, <3>1, <3>2
    <3>4. Less(z, x)
      BY <3>1, <3>2, <3>3
    <3>5. QED
      BY <1>10, <3>2, <3>4
  <2>3. QED
    BY <2>1, <2>2
<1>12. \A x, y \in S : x # y => x \in before[y] \/ y \in before[x]
  <2> TAKE x, y \in S
  <2>1. x.source \in Nat /\ x.target \in Nat /\ y.source \in Nat /\ y.target \in Nat
    BY <1>7
  <2>2. x # y => x.source # y.source \/ x.target # y.target
    BY <1>8
  <2>3. x # y => Less(x, y) \/ Less(y, x)
    BY <2>1, <2>2
  <2> HIDE DEF Less
  <2>4. QED
    BY <1>10, <2>3
<1> HIDE DEF Less
<1>13. \A n \in 1 .. Cardinality(S) : \E e \in S : Cardinality(before[e]) = n - 1
  BY <1>6, <1>9, <1>11, <1>12, OrderOnto
<1>14. \A n \in 1 .. Cardinality(S) : (CHOOSE e \in S : Cardinality(before[e]) = n - 1) \in E
  <2> TAKE n \in 1 .. Cardinality(S)
  <2>1. (CHOOSE e \in S : Cardinality(before[e]) = n - 1) \in S
    BY <1>13
  <2>2. QED
    BY <1>4, <1>6, <2>1
<1> HIDE DEF E
<1>15. Det!Prepared(input) \in Seq(E)
  BY <1>1, <1>6, <1>14
<1>16. QED
  BY <1>2, <1>15 DEF E

-----------------------------------------------------------------------------
(* A run of Leiden *)

RunFields == {"phase", "network", "mass", "total", "parent", "orig", "original", "levels",
              "fresh", "again", "moves", "refined", "rMass", "rExt", "todo"}

\* Partitions of n nodes into clusters numbered from 0.
Partitions(n) == {p \in [0 .. n - 1 -> Nat] : Numbered(p)}

\* What a partition of the nodes the run began with is worth, and what the run holds.
Worth(r, p) == Det!Value(r.original.network, r.original.mass, r.total, p)
Held(r) == Det!Value(r.network, r.mass, r.total, r.parent)
Composed(r, q) == [u \in DOMAIN r.orig |-> q[r.orig[u]]]
LevelAt(r, i) == IF i = 0 THEN [u \in DOMAIN r.orig |-> u] ELSE r.levels[i]

RunTyped(r, n) ==
  /\ DOMAIN r = RunFields /\ r.phase \in {"move", "refine", "ended"}
  /\ n \in Nat \ {0}
  /\ DOMAIN r.mass \in SUBSET Nat /\ NetworkOver(r.network, DOMAIN r.mass)
  /\ r.mass \in [DOMAIN r.mass -> Int] /\ r.total \in Int
  /\ r.parent \in [DOMAIN r.mass -> Nat]
  /\ r.orig \in [0 .. n - 1 -> DOMAIN r.mass]
  /\ NetworkOver(r.original.network, 0 .. n - 1) /\ r.original.mass \in [0 .. n - 1 -> Int]
  /\ r.levels \in Seq(Partitions(n)) /\ (r.phase # "move" => r.levels # <<>>)

\* A refined cluster lies in one cluster.
RefinedWithin(r) ==
  r.phase = "refine" =>
    /\ r.refined \in [DOMAIN r.mass -> DOMAIN r.mass]
    /\ \A u \in DOMAIN r.mass : r.parent[r.refined[u]] = r.parent[u]

\* The aggregated network values partitions as the first network does.
Faithful(r) ==
  \A q \in [DOMAIN r.mass -> Nat] :
    Det!Value(r.network, r.mass, r.total, q) = Worth(r, Composed(r, q))

Climbs(r) ==
  /\ \A i \in 1 .. Len(r.levels) : Worth(r, LevelAt(r, i - 1)) <= Worth(r, LevelAt(r, i))
  /\ Worth(r, LevelAt(r, Len(r.levels))) <= Held(r)

RunInv(r, n) == RunTyped(r, n) /\ RefinedWithin(r) /\ Faithful(r) /\ Climbs(r)

LEMMA ValueInt ==
  ASSUME NEW D, NEW network, NetworkOver(network, D), NEW mass, Numbers(mass, D),
         NEW total \in Int, NEW p, DOMAIN p = D
  PROVE  Det!Value(network, mass, total, p) \in Int
<1>1. Det!Total(network, Within(network, p)) \in Int
  <2>1. Within(network, p) \in SUBSET DOMAIN network
    BY DEF Within
  <2>2. QED
    BY <2>1, NetworkNumbers, TotalStep
<1>2. Det!Total(Squares(mass, p), Det!Clusters(p)) \in Int
  BY ClusterMasses, TotalStep
<1>3. QED
  BY <1>1, <1>2, ValueIs

LEMMA RunNumbers ==
  ASSUME NEW n, NEW r, RunTyped(r, n)
  PROVE  /\ Numbers(r.mass, DOMAIN r.mass) /\ Numbers(r.original.mass, 0 .. n - 1)
         /\ DOMAIN r.original.mass = 0 .. n - 1 /\ DOMAIN r.orig = 0 .. n - 1
         /\ DOMAIN r.parent = DOMAIN r.mass /\ Held(r) \in Int
         /\ \A p : DOMAIN p = 0 .. n - 1 => Worth(r, p) \in Int
         /\ \A i \in 0 .. Len(r.levels) : Worth(r, LevelAt(r, i)) \in Int
         /\ Len(r.levels) \in Nat
<1>1. /\ IsFiniteSet(DOMAIN r.mass) /\ r.mass \in [DOMAIN r.mass -> Int] /\ r.total \in Int
      /\ r.parent \in [DOMAIN r.mass -> Nat] /\ r.orig \in [0 .. n - 1 -> DOMAIN r.mass]
      /\ r.original.mass \in [0 .. n - 1 -> Int] /\ IsFiniteSet(0 .. n - 1)
      /\ NetworkOver(r.network, DOMAIN r.mass) /\ NetworkOver(r.original.network, 0 .. n - 1)
  BY DEF RunTyped, NetworkOver
<1>2. Numbers(r.mass, DOMAIN r.mass) /\ Numbers(r.original.mass, 0 .. n - 1)
  BY <1>1 DEF Numbers
<1>3. Held(r) \in Int
  BY <1>1, <1>2, ValueInt DEF Held
<1>4. \A p : DOMAIN p = 0 .. n - 1 => Worth(r, p) \in Int
  BY <1>1, <1>2, ValueInt DEF Worth
<1>5. Len(r.levels) \in Nat /\ \A i \in 1 .. Len(r.levels) : r.levels[i] \in Partitions(n)
  <2>1. r.levels \in Seq(Partitions(n))
    BY DEF RunTyped
  <2>2. QED
    BY <2>1
<1>6. \A i \in 0 .. Len(r.levels) : DOMAIN LevelAt(r, i) = 0 .. n - 1
  BY <1>1, <1>5 DEF LevelAt, Partitions
<1>7. QED
  BY <1>1, <1>2, <1>3, <1>4, <1>5, <1>6

\* A step that leaves alone what the values rest on.
LEMMA Unmoved ==
  ASSUME NEW n, NEW r, RunInv(r, n), NEW s, DOMAIN s = RunFields, s.phase = r.phase,
         s.network = r.network, s.mass = r.mass, s.total = r.total, s.parent = r.parent,
         s.orig = r.orig, s.original = r.original, s.levels = r.levels, RefinedWithin(s)
  PROVE  RunInv(s, n)
<1>1. RunTyped(s, n)
  BY DEF RunInv, RunTyped
<1>2. Faithful(s)
  BY DEF RunInv, Faithful, Worth, Composed
<1>3. Climbs(s)
  BY DEF RunInv, Climbs, Worth, Held, LevelAt
<1>4. QED
  BY <1>1, <1>2, <1>3 DEF RunInv

LEMMA RunStarts ==
  ASSUME NEW n \in Nat \ {0}, NEW network, NetworkOver(network, 0 .. n - 1)
  PROVE  RunInv(Det!NewRun(n, network), n)
<1> DEFINE D == 0 .. n - 1
           mass == [u \in D |-> Det!Between(network, u, D)]
           r == Det!NewRun(n, network)
<1>1. \A u : Det!Between(network, u, D) \in Int
  <2> TAKE u
  <2> DEFINE S == {{u, v} : v \in Det!Neighbors(network, u) \cap D}
  <2>1. S \in SUBSET DOMAIN network
    BY DEF Det!Neighbors
  <2>2. Det!Between(network, u, D) = Det!Total(network, S)
    BY DEF Det!Between, Det!Weight
  <2> HIDE DEF S
  <2>3. QED
    BY <2>1, <2>2, NetworkNumbers, TotalStep
<1>2. 2 * Det!Weight(network, DOMAIN network) \in Int
  <2>1. DOMAIN network \in SUBSET DOMAIN network
    OBVIOUS
  <2>2. Det!Total(network, DOMAIN network) \in Int
    BY <2>1, NetworkNumbers, TotalStep
  <2>3. QED
    BY <2>2 DEF Det!Weight
<1>3. /\ DOMAIN r = RunFields /\ r.phase = "move" /\ r.network = network /\ r.mass = mass
      /\ r.total = 2 * Det!Weight(network, DOMAIN network)
      /\ r.parent = [u \in D |-> u] /\ r.orig = [u \in D |-> u]
      /\ r.original = [network |-> network, mass |-> mass] /\ r.levels = <<>>
  BY DEF Det!NewRun, Det!Moving, RunFields
<1> HIDE DEF r
<1>4. /\ r.original.network = network /\ r.original.mass = mass /\ DOMAIN r.mass = D
      /\ mass \in [D -> Int] /\ D \in SUBSET Nat
  BY <1>1, <1>3
<1> HIDE DEF mass
<1>5. RunTyped(r, n)
  BY <1>2, <1>3, <1>4 DEF RunTyped
<1>6. RefinedWithin(r)
  BY <1>3 DEF RefinedWithin
<1>7. Faithful(r)
  <2> SUFFICES ASSUME NEW q \in [D -> Nat]
               PROVE  Det!Value(r.network, r.mass, r.total, q) = Worth(r, Composed(r, q))
    BY <1>4 DEF Faithful
  <2>1. Composed(r, q) = q
    BY <1>3 DEF Composed
  <2>2. QED
    BY <1>3, <1>4, <2>1 DEF Worth
<1>8. Climbs(r)
  <2>1. LevelAt(r, 0) = r.parent
    BY <1>3 DEF LevelAt
  <2>2. Len(r.levels) = 0
    BY <1>3
  <2>3. Worth(r, LevelAt(r, 0)) = Held(r)
    BY <1>3, <1>4, <2>1 DEF Worth, Held
  <2>4. Held(r) \in Int
    BY <1>5, RunNumbers
  <2>5. QED
    BY <2>2, <2>3, <2>4 DEF Climbs
<1>9. QED
  BY <1>5, <1>6, <1>7, <1>8 DEF RunInv, r

LEMMA BestExists ==
  ASSUME NEW S, IsFiniteSet(S), S # {}, NEW f, \A x \in S : f[x] \in Nat
  PROVE  \E x \in S : \A y \in S : f[x] >= f[y]
<1> DEFINE V == {f[x] : x \in S}
<1>1. V \in SUBSET Nat /\ V # {}
  OBVIOUS
<1>2. [x \in S |-> f[x]] \in Surjection(S, V)
  BY DEF Surjection
<1>3. IsFiniteSet(V)
  BY <1>2, FS_Surjection
<1>4. \A x \in S : f[x] \in V
  OBVIOUS
<1>5. \A v \in V : \E x \in S : v = f[x]
  OBVIOUS
<1> HIDE DEF V
<1>6. PICK m \in V : \A v \in V : m >= v
  BY <1>1, <1>3, Greatest
<1>7. PICK x \in S : m = f[x]
  BY <1>5
<1>8. QED
  BY <1>4, <1>6, <1>7

LEMMA NeighborsInside ==
  ASSUME NEW D, NEW network, NetworkOver(network, D), NEW u
  PROVE  Det!Neighbors(network, u) \subseteq D
BY DEF Det!Neighbors, NetworkOver

LEMMA GainInt ==
  ASSUME NEW D, NEW network, NetworkOver(network, D), NEW mass, Numbers(mass, D),
         NEW total \in Int, NEW p, DOMAIN p = D, NEW u \in D,
         NEW to \in Det!Clusters(p), to # p[u]
  PROVE  Gain(network, mass, total, p, u, to) \in Int
<1> DEFINE q == [v \in D |-> IF v = u THEN to ELSE p[v]]
<1>1. DOMAIN q = D /\ q[u] = to /\ \A v \in D \ {u} : q[v] = p[v]
  OBVIOUS
<1> HIDE DEF q
<1>2. /\ Det!Value(network, mass, total, q) =
           Det!Value(network, mass, total, p) + 2 * Gain(network, mass, total, p, u, to)
      /\ Gain(network, mass, total, p, u, to) \in Int
  BY <1>1, MoveGains
<1>3. QED
  BY <1>2

\* What Best chooses is another cluster only when the move gains.
LEMMA BestChoice ==
  ASSUME NEW n, RunTyped(run, n), NEW u \in DOMAIN run.mass, Det!Best(u) # run.parent[u]
  PROVE  /\ Det!Best(u) \in Det!Clusters(run.parent)
         /\ Gain(run.network, run.mass, run.total, run.parent, u, Det!Best(u)) \in Int
         /\ Gain(run.network, run.mass, run.total, run.parent, u, Det!Best(u)) > 0
<1> DEFINE D == DOMAIN run.mass
           options == {run.parent[v] : v \in Det!Neighbors(run.network, u)} \ {run.parent[u]}
           gain == [c \in options |-> Gain(run.network, run.mass, run.total, run.parent, u, c)]
           gains == {c \in options : gain[c] > 0}
           best == {c \in gains : \A d \in gains : gain[c] >= gain[d]}
<1>1. /\ NetworkOver(run.network, D) /\ Numbers(run.mass, D) /\ run.total \in Int
      /\ run.parent \in [D -> Nat] /\ DOMAIN run.parent = D
  BY RunNumbers DEF RunTyped
<1>2. \A c : Det!MoveDelta(u, c) = Gain(run.network, run.mass, run.total, run.parent, u, c)
  BY DEF Det!MoveDelta, Gain, ToCluster
<1>3. options \subseteq Det!Clusters(run.parent) /\ run.parent[u] \notin options
  BY <1>1, NeighborsInside DEF Det!Clusters
<1>4. options \in SUBSET Nat /\ IsFiniteSet(options)
  <2>1. IsFiniteSet(Det!Clusters(run.parent))
    BY <1>1, ClusterMasses
  <2>2. Det!Clusters(run.parent) \subseteq Nat
    BY <1>1 DEF Det!Clusters
  <2> HIDE DEF options
  <2>3. QED
    BY <1>3, <2>1, <2>2, FS_Subset
<1>5. \A c \in options : gain[c] \in Int
  <2> TAKE c \in options
  <2>1. c \in Det!Clusters(run.parent) /\ c # run.parent[u]
    BY <1>3
  <2> HIDE DEF options
  <2>2. Gain(run.network, run.mass, run.total, run.parent, u, c) \in Int
    BY <1>1, <2>1, GainInt
  <2>3. QED
    BY <2>2
<1>6. Det!Best(u) = IF gains = {} THEN run.parent[u] ELSE Det!Min(best)
  <2> DEFINE given == {c \in options : Det!MoveDelta(u, c) > 0}
  <2>1. Det!Best(u) = IF given = {} THEN run.parent[u]
                      ELSE Det!Min({c \in given : \A d \in given : Det!MoveDelta(u, c) >= Det!MoveDelta(u, d)})
    BY DEF Det!Best
  <2>2. \A c \in options : Det!MoveDelta(u, c) = gain[c]
    BY <1>2
  <2> HIDE DEF options, gain
  <2>3. given = gains
    BY <2>2
  <2>4. {c \in given : \A d \in given : Det!MoveDelta(u, c) >= Det!MoveDelta(u, d)} = best
    BY <2>2, <2>3
  <2>5. QED
    BY <2>1, <2>3, <2>4
<1>7. gains # {}
  BY <1>6
<1>8. best \subseteq Nat /\ best # {}
  <2>1. gains \in SUBSET options /\ IsFiniteSet(gains)
    BY <1>4, FS_Subset
  <2> HIDE DEF options, gain
  <2>2. \A c \in gains : gain[c] \in Nat
    BY <1>5
  <2> HIDE DEF gains
  <2>3. \E c \in gains : \A d \in gains : gain[c] >= gain[d]
    BY <1>7, <2>1, <2>2, BestExists
  <2>4. QED
    BY <1>4, <2>1, <2>3
<1>9. Det!Best(u) \in best
  <2> HIDE DEF best
  <2>1. QED
    BY <1>6, <1>7, <1>8, LeastMember
<1>10. Det!Best(u) \in options /\ gain[Det!Best(u)] > 0
  BY <1>9
<1>11. QED
  BY <1>3, <1>5, <1>10

\* A visited node moves to a better cluster or stays.
LEMMA VisitKeeps ==
  ASSUME NEW n, RunInv(run, n), NEW u \in DOMAIN run.mass, Det!Visit(u)
  PROVE  RunInv(run', n)
<1> DEFINE r == run
           s == run'
           D == DOMAIN run.mass
           c == Det!Best(u)
<1>1. RunTyped(r, n) /\ run.phase = "move" /\ DOMAIN r = RunFields
  BY DEF RunInv, RunTyped, Det!Visit
<1>2. /\ NetworkOver(r.network, D) /\ Numbers(r.mass, D) /\ r.total \in Int
      /\ r.parent \in [D -> Nat] /\ DOMAIN r.parent = D
  BY <1>1, RunNumbers DEF RunTyped
<1>3. CASE c = r.parent[u]
  <2>1. \E fresh, again : s = [r EXCEPT !.fresh = fresh, !.again = again]
    BY <1>3 DEF Det!Visit
  <2> HIDE DEF r, s
  <2>2. /\ DOMAIN s = RunFields /\ s.phase = r.phase
        /\ s.network = r.network /\ s.mass = r.mass /\ s.total = r.total /\ s.parent = r.parent
        /\ s.orig = r.orig /\ s.original = r.original /\ s.levels = r.levels
    BY <1>1, <2>1 DEF RunFields
  <2>3. RefinedWithin(s)
    BY <1>1, <2>2 DEF RefinedWithin, r
  <2>4. RunInv(r, n)
    BY DEF r
  <2>5. RunInv(s, n)
    BY <2>2, <2>3, <2>4, Unmoved
  <2>6. QED
    BY <2>5 DEF s
<1>4. CASE c # r.parent[u]
  <2> DEFINE q == [r.parent EXCEPT ![u] = c]
  <2>1. \E fresh, again, moves : s = [r EXCEPT !.fresh = fresh, !.again = again, !.parent[u] = c, !.moves = moves]
    BY <1>4 DEF Det!Visit
  <2>2. c \in Det!Clusters(r.parent) /\ Gain(r.network, r.mass, r.total, r.parent, u, c) \in Int
        /\ Gain(r.network, r.mass, r.total, r.parent, u, c) > 0
    BY <1>1, <1>4, BestChoice
  <2> HIDE DEF c
  <2>3. r.phase = "move" /\ RunInv(r, n) /\ u \in D
    BY <1>1
  <2> HIDE DEF r, s, D
  <2>4. /\ DOMAIN s = RunFields /\ s.phase = r.phase
        /\ s.network = r.network /\ s.mass = r.mass /\ s.total = r.total /\ s.parent = q
        /\ s.orig = r.orig /\ s.original = r.original /\ s.levels = r.levels
    BY <1>1, <2>1 DEF RunFields
  <2>5. DOMAIN q = D /\ q[u] = c /\ \A v \in D \ {u} : q[v] = r.parent[v]
    BY <1>2, <2>3
  <2>6. q \in [D -> Nat]
    <3>1. c \in Nat
      BY <1>2, <2>2 DEF Det!Clusters
    <3>2. QED
      BY <1>2, <3>1
  <2> HIDE DEF q
  <2>7. Held(s) = Held(r) + 2 * Gain(r.network, r.mass, r.total, r.parent, u, c) /\ Held(r) \in Int
    BY <1>2, <1>4, <2>2, <2>3, <2>4, <2>5, MoveGains DEF Held
  <2>8. RunTyped(s, n)
    BY <1>1, <2>4, <2>6 DEF RunTyped, D, r
  <2>9. RefinedWithin(s)
    BY <2>3, <2>4 DEF RefinedWithin
  <2>10. Faithful(s)
    BY <2>3, <2>4 DEF RunInv, Faithful, Worth, Composed
  <2>11. Climbs(s)
    <3>1. \A i : LevelAt(s, i) = LevelAt(r, i)
      BY <2>4 DEF LevelAt
    <3>2. \A p : Worth(s, p) = Worth(r, p)
      BY <2>4 DEF Worth
    <3>3. Worth(r, LevelAt(r, Len(r.levels))) \in Int
      BY <1>1, RunNumbers DEF r
    <3>4. Worth(r, LevelAt(r, Len(r.levels))) <= Held(r)
      BY <2>3 DEF RunInv, Climbs
    <3>5. Worth(r, LevelAt(r, Len(r.levels))) <= Held(s)
      BY <2>2, <2>7, <3>3, <3>4
    <3>6. QED
      BY <2>3, <2>4, <3>1, <3>2, <3>5 DEF RunInv, Climbs
  <2>12. QED
    BY <2>8, <2>9, <2>10, <2>11 DEF RunInv, s
<1>5. QED
  BY <1>3, <1>4

\* The next level has the numbering of Normalize and is worth what the run holds.
LEMMA ProjectedWorth ==
  ASSUME NEW n, RunInv(run, n)
  PROVE  /\ Det!Projected \in Partitions(n) /\ Worth(run, Det!Projected) = Held(run)
         /\ Held(run) \in Int
<1> DEFINE r == run
           p == Composed(r, r.parent)
           D == 0 .. n - 1
<1>1. RunTyped(r, n) /\ Faithful(r)
  BY DEF RunInv
<1>2. /\ NetworkOver(r.original.network, D) /\ Numbers(r.original.mass, D) /\ DOMAIN r.orig = D
      /\ r.parent \in [DOMAIN r.mass -> Nat] /\ IsFiniteSet(D) /\ Held(r) \in Int
  BY <1>1, RunNumbers DEF RunTyped, NetworkOver
<1>3. D \in SUBSET Nat
  BY <1>1 DEF RunTyped
<1>4. Det!Projected = Det!Normalized(p)
  BY DEF Det!Projected, Composed
<1>5. DOMAIN p = D
  BY <1>2 DEF Composed
<1>6. Worth(r, p) = Held(r)
  BY <1>1, <1>2 DEF Faithful, Held
<1> HIDE DEF r, p, D
<1>7. /\ Det!Normalized(p) \in [D -> Nat] /\ Numbered(Det!Normalized(p))
      /\ \A u, v \in D : p[u] = p[v] <=> Det!Normalized(p)[u] = Det!Normalized(p)[v]
  BY <1>2, <1>3, <1>5, NormalizedNumbers
<1>8. Worth(r, p) = Worth(r, Det!Normalized(p))
  <2> DEFINE q == Det!Normalized(p)
  <2>1. DOMAIN q = D /\ \A u, v \in D : p[u] = p[v] <=> q[u] = q[v]
    BY <1>7
  <2> HIDE DEF q
  <2>2. Det!Value(r.original.network, r.original.mass, r.total, p)
          = Det!Value(r.original.network, r.original.mass, r.total, q)
    BY <1>2, <1>5, <2>1, Relabelled
  <2>3. QED
    BY <2>2 DEF Worth, q
<1>9. QED
  BY <1>2, <1>4, <1>6, <1>7, <1>8 DEF Partitions, r, D

LEMMA EndLevelKeeps ==
  ASSUME NEW n, RunInv(run, n), Det!EndLevel
  PROVE  RunInv(run', n)
<1> DEFINE r == run
           s == run'
           levels == Append(r.levels, Det!Projected)
<1>1. /\ Det!Projected \in Partitions(n) /\ Worth(r, Det!Projected) = Held(r) /\ Held(r) \in Int
  BY ProjectedWorth
<1>2. /\ DOMAIN r = RunFields /\ r.levels \in Seq(Partitions(n)) /\ RunTyped(r, n)
      /\ r.parent \in [DOMAIN r.mass -> Nat]
  BY DEF RunInv, RunTyped
<1>3. \/ s = [r EXCEPT !.phase = "ended", !.levels = levels]
      \/ \E rMass, rExt, todo :
           s = [r EXCEPT !.phase = "refine", !.levels = levels,
                         !.refined = [u \in DOMAIN r.parent |-> u],
                         !.rMass = rMass, !.rExt = rExt, !.todo = todo]
  BY DEF Det!EndLevel
<1>4. RunInv(r, n)
  OBVIOUS
<1>5. /\ levels \in Seq(Partitions(n)) /\ Len(levels) = Len(r.levels) + 1 /\ levels # <<>>
      /\ Len(r.levels) \in Nat /\ levels[Len(levels)] = Det!Projected
      /\ \A i \in 1 .. Len(r.levels) : levels[i] = r.levels[i]
  <2> DEFINE P == Det!Projected
             L == Partitions(n)
  <2>1. P \in L /\ r.levels \in Seq(L)
    BY <1>1, <1>2
  <2> HIDE DEF P, L, r
  <2>2. /\ Append(r.levels, P) \in Seq(L) /\ Len(Append(r.levels, P)) = Len(r.levels) + 1
        /\ Append(r.levels, P) # <<>>
        /\ Len(r.levels) \in Nat /\ Append(r.levels, P)[Len(r.levels) + 1] = P
        /\ \A i \in 1 .. Len(r.levels) : Append(r.levels, P)[i] = r.levels[i]
    BY <2>1
  <2>3. QED
    BY <2>2 DEF P, L
<1> HIDE DEF r, s, levels
<1>6. /\ DOMAIN s = RunFields /\ s.network = r.network /\ s.mass = r.mass /\ s.total = r.total
      /\ s.parent = r.parent /\ s.orig = r.orig /\ s.original = r.original /\ s.levels = levels
      /\ s.phase \in {"refine", "ended"}
      /\ s.phase = "refine" => s.refined = [u \in DOMAIN r.parent |-> u]
  BY <1>2, <1>3 DEF RunFields
<1>7. RunTyped(s, n)
  BY <1>2, <1>5, <1>6 DEF RunTyped
<1>8. RefinedWithin(s)
  BY <1>2, <1>6 DEF RefinedWithin
<1>9. Faithful(s)
  BY <1>4, <1>6 DEF RunInv, Faithful, Worth, Composed
<1>10. Climbs(s)
  <2>1. \A p : Worth(s, p) = Worth(r, p)
    BY <1>6 DEF Worth
  <2>2. \A i \in 0 .. Len(r.levels) : LevelAt(s, i) = LevelAt(r, i)
    BY <1>5, <1>6 DEF LevelAt
  <2>3. LevelAt(s, Len(levels)) = Det!Projected
    BY <1>5, <1>6 DEF LevelAt
  <2>4. Held(s) = Held(r)
    BY <1>6 DEF Held
  <2>5. /\ \A i \in 1 .. Len(r.levels) : Worth(r, LevelAt(r, i - 1)) <= Worth(r, LevelAt(r, i))
        /\ Worth(r, LevelAt(r, Len(r.levels))) <= Held(r)
    BY <1>4 DEF RunInv, Climbs
  <2>6. ASSUME NEW i \in 1 .. Len(levels)
        PROVE  Worth(s, LevelAt(s, i - 1)) <= Worth(s, LevelAt(s, i))
    <3>1. CASE i \in 1 .. Len(r.levels)
      <4>1. i \in 0 .. Len(r.levels) /\ i - 1 \in 0 .. Len(r.levels)
        BY <3>1, <1>5
      <4>2. QED
        BY <3>1, <4>1, <2>1, <2>2, <2>5
    <3>2. CASE i = Len(levels)
      <4>1. i - 1 = Len(r.levels) /\ i - 1 \in 0 .. Len(r.levels)
        BY <3>2, <1>5
      <4>2. LevelAt(s, i - 1) = LevelAt(r, Len(r.levels)) /\ LevelAt(s, i) = Det!Projected
        BY <3>2, <4>1, <2>2, <2>3
      <4>3. QED
        BY <4>2, <2>1, <2>5, <1>1 DEF r
    <3>3. QED
      BY <1>5, <3>1, <3>2
  <2>7. Worth(s, LevelAt(s, Len(levels))) = Held(s)
    BY <1>1, <2>1, <2>3, <2>4 DEF r
  <2>8. Held(s) \in Int
    BY <1>1, <2>4 DEF r
  <2>9. QED
    BY <1>6, <2>6, <2>7, <2>8 DEF Climbs
<1>11. QED
  BY <1>7, <1>8, <1>9, <1>10 DEF RunInv, s

LEMMA RefineKeeps ==
  ASSUME NEW n, RunInv(run, n), NEW u \in DOMAIN run.mass, Det!Refine(u)
  PROVE  RunInv(run', n)
<1> DEFINE r == run
           s == run'
           D == DOMAIN run.mass
<1>1. /\ DOMAIN r = RunFields /\ r.phase = "refine" /\ NetworkOver(r.network, D)
      /\ r.refined \in [D -> D] /\ \A v \in D : r.parent[r.refined[v]] = r.parent[v]
  BY DEF RunInv, RunTyped, RefinedWithin, Det!Refine
<1>2. \/ \E todo : s = [r EXCEPT !.todo = todo]
      \/ \E t \in Det!Candidates(u) : \E todo, rMass, rExt :
           s = [[r EXCEPT !.todo = todo] EXCEPT !.refined[u] = t, !.rMass = rMass, !.rExt = rExt]
  <2> DEFINE left == run.todo \ {u}
             mass(t) == [r.rMass EXCEPT ![t] = r.rMass[t] + r.mass[u], ![u] = 0]
             ext(t) == [r.rExt EXCEPT ![t] = r.rExt[t] + Det!Inside(u) - 2 * Det!ToRefined(u, t),
                                      ![u] = 0]
  <2>1. \/ s = [r EXCEPT !.todo = left]
        \/ \E t \in Det!Candidates(u) :
             s = [[r EXCEPT !.todo = left] EXCEPT !.refined[u] = t, !.rMass = mass(t), !.rExt = ext(t)]
    BY DEF Det!Refine
  <2> HIDE DEF r, s, left, mass, ext
  <2>2. QED
    BY <2>1
<1>3. \A t \in Det!Candidates(u) : \E v \in D : t = r.refined[v] /\ r.parent[v] = r.parent[u]
  <2>1. Det!Neighbors(r.network, u) \subseteq D
    BY <1>1, NeighborsInside
  <2>2. QED
    BY <2>1 DEF Det!Candidates
<1>4. RunInv(r, n)
  OBVIOUS
<1> HIDE DEF r, s
<1>5. /\ DOMAIN s = RunFields /\ s.phase = r.phase
      /\ s.network = r.network /\ s.mass = r.mass /\ s.total = r.total /\ s.parent = r.parent
      /\ s.orig = r.orig /\ s.original = r.original /\ s.levels = r.levels
      /\ \/ s.refined = r.refined
         \/ \E t \in Det!Candidates(u) : s.refined = [r.refined EXCEPT ![u] = t]
  BY ZenonT(30), <1>1, <1>2 DEF RunFields
<1>6. RefinedWithin(s)
  <2>1. s.refined \in [D -> D] /\ \A v \in D : r.parent[s.refined[v]] = r.parent[v]
    <3>1. CASE s.refined = r.refined
      BY <1>1, <3>1
    <3>2. ASSUME NEW t \in Det!Candidates(u), s.refined = [r.refined EXCEPT ![u] = t]
          PROVE  s.refined \in [D -> D] /\ \A v \in D : r.parent[s.refined[v]] = r.parent[v]
      <4>1. t \in D /\ r.parent[t] = r.parent[u]
        BY <1>1, <1>3
      <4>2. QED
        BY <1>1, <3>2, <4>1
    <3>3. QED
      BY <1>5, <3>1, <3>2
  <2>2. QED
    BY <1>5, <2>1 DEF RefinedWithin, r
<1>7. RunInv(s, n)
  BY <1>4, <1>5, <1>6, Unmoved
<1>8. QED
  BY <1>7 DEF s

\* The network that Aggregate leaves, over the clusters of the refinement.
LEMMA AggregateIs ==
  ASSUME NEW n, RunInv(run, n), Det!Aggregate
  PROVE  LET ref == Det!Normalized(run.refined) IN
           /\ DOMAIN run' = RunFields /\ run'.phase = "move"
           /\ run'.network = NetworkOf(run.network, ref)
           /\ run'.mass = MassesOf(run.mass, ref)
           /\ run'.parent = [c \in Det!Clusters(ref) |->
                               run.parent[Det!Min({u \in DOMAIN ref : ref[u] = c})]]
           /\ run'.orig = [u \in DOMAIN run.orig |-> ref[run.orig[u]]]
           /\ run'.total = run.total /\ run'.original = run.original /\ run'.levels = run.levels
<1> DEFINE ref == Det!Normalized(run.refined)
           sum(image) == Det!Weight(run.network, {pair \in DOMAIN run.network :
                                                    {ref[u] : u \in pair} = image})
           images == {image \in {{ref[u] : u \in pair} : pair \in DOMAIN run.network} :
                        Det!Cardinality(image) = 2 \/ sum(image) > 0}
           net == [image \in images |-> sum(image)]
           masses == [c \in Det!Clusters(ref) |-> Det!MassOf(run.mass, ref, c)]
           homes == [c \in Det!Clusters(ref) |-> run.parent[Det!Min({u \in DOMAIN ref : ref[u] = c})]]
           orig == [u \in DOMAIN run.orig |-> ref[run.orig[u]]]
<1>1. run' = Det!Moving([run EXCEPT !.network = net, !.mass = masses, !.parent = homes, !.orig = orig,
                                    !.refined = <<>>, !.rMass = <<>>, !.rExt = <<>>])
  BY DEF Det!Aggregate
<1>2. DOMAIN run = RunFields
  BY DEF RunInv, RunTyped
<1>3. net = NetworkOf(run.network, ref)
  <2>1. \A image : sum(image) = SumInto(run.network, ref, image)
    BY DEF SumInto, ImageOf, Det!Weight
  <2>2. \A image : Det!Cardinality(image) = Cardinality(image)
    BY SameOperators
  <2>3. {{ref[u] : u \in pair} : pair \in DOMAIN run.network}
          = {ImageOf(ref, pair) : pair \in DOMAIN run.network}
    BY DEF ImageOf
  <2> HIDE DEF sum, ref
  <2>4. images = Images(run.network, ref)
    BY <2>1, <2>2, <2>3 DEF Images
  <2>5. QED
    BY <2>1, <2>4 DEF NetworkOf
<1>4. masses = MassesOf(run.mass, ref)
  BY DEF MassesOf
<1> HIDE DEF net, masses, homes, orig
<1>5. /\ DOMAIN run' = RunFields /\ run'.phase = "move" /\ run'.network = net /\ run'.mass = masses
      /\ run'.parent = homes /\ run'.orig = orig
      /\ run'.total = run.total /\ run'.original = run.original /\ run'.levels = run.levels
  BY <1>1, <1>2 DEF RunFields, Det!Moving
<1>6. QED
  BY <1>3, <1>4, <1>5 DEF homes, orig

\* Aggregation changes the network and keeps what every partition of it is worth.
LEMMA AggregateKeepsRun ==
  ASSUME NEW n, RunInv(run, n), Det!Aggregate
  PROVE  RunInv(run', n)
<1> DEFINE r == run
           s == run'
           D == DOMAIN run.mass
           ref == Det!Normalized(run.refined)
           C == Det!Clusters(ref)
<1>1. /\ RunTyped(r, n) /\ r.phase = "refine" /\ NetworkOver(r.network, D) /\ D \in SUBSET Nat
      /\ IsFiniteSet(D) /\ Numbers(r.mass, D) /\ r.total \in Int
      /\ r.parent \in [D -> Nat] /\ r.orig \in [0 .. n - 1 -> D] /\ DOMAIN r.orig = 0 .. n - 1
      /\ r.refined \in [D -> D] /\ \A u \in D : r.parent[r.refined[u]] = r.parent[u]
  BY RunNumbers DEF RunInv, RunTyped, RefinedWithin, Det!Aggregate, NetworkOver
<1>2. /\ ref \in [D -> Nat]
      /\ \A u, v \in D : r.refined[u] = r.refined[v] <=> ref[u] = ref[v]
  <2> DEFINE p == run.refined
  <2>1. DOMAIN p = D /\ DOMAIN p \in SUBSET Nat /\ IsFiniteSet(DOMAIN p)
    BY <1>1
  <2> HIDE DEF p, D
  <2>2. /\ Det!Normalized(p) \in [D -> Nat]
        /\ \A u, v \in D : p[u] = p[v] <=> Det!Normalized(p)[u] = Det!Normalized(p)[v]
    BY <2>1, NormalizedNumbers
  <2>3. QED
    BY <2>2 DEF p
<1>3. /\ DOMAIN s = RunFields /\ s.phase = "move"
      /\ s.network = NetworkOf(r.network, ref) /\ s.mass = MassesOf(r.mass, ref)
      /\ s.parent = [c \in C |-> r.parent[Det!Min({u \in DOMAIN ref : ref[u] = c})]]
      /\ s.orig = [u \in DOMAIN r.orig |-> ref[r.orig[u]]]
      /\ s.total = r.total /\ s.original = r.original /\ s.levels = r.levels
  BY AggregateIs
<1>4. RunInv(r, n)
  OBVIOUS
<1> HIDE DEF ref, r, s, D
<1>5. C \in SUBSET Nat /\ \A u \in D : ref[u] \in C
  BY <1>2 DEF Det!Clusters
<1>6. DOMAIN s.mass = C /\ s.mass \in [C -> Int]
  <2>1. \A c : Det!MassOf(r.mass, ref, c) \in Int
    BY <1>1, <1>2, ClusterMasses
  <2>2. QED
    BY <1>3, <2>1 DEF MassesOf
<1>7. NetworkOver(s.network, C)
  BY <1>1, <1>2, <1>3, AggregateOver
<1>8. s.parent \in [C -> Nat] /\ \A u \in D : s.parent[ref[u]] = r.parent[u]
  <2>1. ASSUME NEW c \in C
        PROVE  \E w \in D : ref[w] = c /\ s.parent[c] = r.parent[w]
    <3> DEFINE S == {u \in DOMAIN ref : ref[u] = c}
    <3>1. S \subseteq Nat /\ S # {}
      BY <1>1, <1>2 DEF Det!Clusters
    <3> HIDE DEF S
    <3>2. Det!Min(S) \in S
      BY <3>1, LeastMember
    <3>3. s.parent[c] = r.parent[Det!Min(S)]
      BY <1>3 DEF S
    <3>4. QED
      BY <1>2, <3>2, <3>3 DEF S
  <2>2. DOMAIN s.parent = C /\ s.parent = [c \in C |-> s.parent[c]]
    BY <1>3
  <2>3. \A c \in C : s.parent[c] \in Nat
    BY <1>1, <2>1
  <2>4. ASSUME NEW u \in D PROVE s.parent[ref[u]] = r.parent[u]
    <3>1. PICK w \in D : ref[w] = ref[u] /\ s.parent[ref[u]] = r.parent[w]
      BY <1>5, <2>1
    <3>2. r.refined[w] = r.refined[u]
      BY <1>2, <3>1
    <3>3. r.parent[w] = r.parent[u]
      BY <1>1, <3>2
    <3>4. QED
      BY <3>1, <3>3
  <2>5. s.parent \in [C -> Nat]
    BY <2>2, <2>3
  <2>6. QED
    BY <2>4, <2>5
<1>9. s.orig \in [0 .. n - 1 -> C] /\ \A x \in 0 .. n - 1 : s.orig[x] = ref[r.orig[x]]
  <2>1. \A x \in 0 .. n - 1 : r.orig[x] \in D
    BY <1>1
  <2> HIDE DEF C
  <2>2. s.orig = [x \in 0 .. n - 1 |-> ref[r.orig[x]]]
    BY <1>1, <1>3
  <2>3. QED
    BY <1>5, <2>1, <2>2
<1>10. RunTyped(s, n)
  <2>1. /\ n \in Nat \ {0} /\ NetworkOver(r.original.network, 0 .. n - 1)
        /\ r.original.mass \in [0 .. n - 1 -> Int] /\ r.levels \in Seq(Partitions(n))
    BY <1>1 DEF RunTyped
  <2> HIDE DEF C
  <2>2. QED
    BY <1>1, <1>3, <1>5, <1>6, <1>7, <1>8, <1>9, <2>1 DEF RunTyped
<1>11. RefinedWithin(s)
  BY <1>3 DEF RefinedWithin
<1>12. Faithful(s)
  <2> SUFFICES ASSUME NEW q \in [C -> Nat]
               PROVE  Det!Value(s.network, s.mass, s.total, q) = Worth(s, Composed(s, q))
    BY <1>6 DEF Faithful
  <2> DEFINE p == [u \in D |-> q[ref[u]]]
  <2>1. p \in [D -> Nat] /\ DOMAIN p = D /\ \A u \in D : p[u] = q[ref[u]]
    BY <1>5
  <2>2. DOMAIN q = C /\ DOMAIN ref = D
    BY <1>2
  <2>3. Composed(s, q) = Composed(r, p)
    BY <1>1, <1>3, <1>9 DEF Composed
  <2> HIDE DEF p
  <2>4. Det!Value(s.network, s.mass, s.total, q) = Det!Value(r.network, r.mass, r.total, p)
    <3>1. Det!Value(NetworkOf(r.network, ref), MassesOf(r.mass, ref), r.total, q)
            = Det!Value(r.network, r.mass, r.total, p)
      BY <1>1, <2>1, <2>2, AggregateKeeps
    <3>2. QED
      BY <1>3, <3>1
  <2>5. Det!Value(r.network, r.mass, r.total, p) = Worth(r, Composed(r, p))
    BY <1>4, <2>1 DEF RunInv, Faithful, D, r
  <2>6. QED
    BY <1>3, <2>3, <2>4, <2>5 DEF Worth
<1>13. Climbs(s)
  <2>1. \A p : Worth(s, p) = Worth(r, p)
    BY <1>3 DEF Worth
  <2>2. DOMAIN s.orig = DOMAIN r.orig
    BY <1>1, <1>9
  <2>3. \A i : LevelAt(s, i) = LevelAt(r, i)
    BY <1>3, <2>2 DEF LevelAt
  <2>4. Held(s) = Held(r)
    <3>1. DOMAIN s.parent = C /\ DOMAIN r.parent = D /\ DOMAIN ref = D
      BY <1>1, <1>2, <1>8
    <3> HIDE DEF C
    <3>2. Det!Value(s.network, s.mass, s.total, s.parent) = Det!Value(r.network, r.mass, r.total, r.parent)
      <4> DEFINE q == s.parent
                 p == r.parent
      <4>1. DOMAIN q = C /\ DOMAIN p = D /\ \A u \in D : p[u] = q[ref[u]]
        BY <1>8, <3>1
      <4> HIDE DEF q, p
      <4>2. DOMAIN q = Det!Clusters(ref) /\ DOMAIN ref = D
        BY <3>1, <4>1 DEF C
      <4> HIDE DEF ref, D, r
      <4>3. Det!Value(NetworkOf(r.network, ref), MassesOf(r.mass, ref), r.total, q)
              = Det!Value(r.network, r.mass, r.total, p)
        BY <1>1, <4>1, <4>2, AggregateKeeps
      <4>4. QED
        BY <1>3, <4>3 DEF q, p, r
    <3>3. QED
      BY <3>2 DEF Held
  <2>5. QED
    BY <1>3, <1>4, <2>1, <2>3, <2>4 DEF RunInv, Climbs
<1>14. QED
  BY <1>10, <1>11, <1>12, <1>13 DEF RunInv, s

LEMMA ObjectiveKept ==
  ASSUME NEW n, RunInv(run, n)
  PROVE  Det!ObjectiveClimbs
<1> DEFINE Original(p) == Det!Value(run.original.network, run.original.mass, run.total, p)
           Level(i) == CASE i = 0 -> [u \in DOMAIN run.orig |-> u]
                         [] i > Len(run.levels) -> Det!Projected
                         [] OTHER -> run.levels[i]
           m == Len(run.levels)
<1>1. m \in Nat /\ Worth(run, Det!Projected) = Held(run)
  BY ProjectedWorth, RunNumbers DEF RunInv
<1>2. \A i \in 0 .. m : Level(i) = LevelAt(run, i)
  <2> TAKE i \in 0 .. m
  <2>1. ~(i > m)
    BY <1>1
  <2>2. QED
    BY <2>1 DEF LevelAt
<1>3. Level(m + 1) = Det!Projected
  <2>1. m + 1 # 0 /\ m + 1 > m
    BY <1>1
  <2>2. QED
    BY <2>1
<1>4. \A p : Original(p) = Worth(run, p)
  BY DEF Worth
<1>5. /\ \A i \in 1 .. m : Worth(run, LevelAt(run, i - 1)) <= Worth(run, LevelAt(run, i))
      /\ Worth(run, LevelAt(run, m)) <= Held(run)
  BY DEF RunInv, Climbs
<1> HIDE DEF Original, Level, m
<1>6. ASSUME NEW i \in 0 .. m PROVE Original(Level(i)) <= Original(Level(i + 1))
  <2>1. CASE i = m
    BY <1>1, <1>2, <1>3, <1>4, <1>5, <2>1
  <2>2. CASE i # m
    <3>1. i + 1 \in 1 .. m /\ i + 1 \in 0 .. m /\ (i + 1) - 1 = i
      BY <1>1, <2>2
    <3>2. Worth(run, LevelAt(run, i)) <= Worth(run, LevelAt(run, i + 1))
      BY <1>5, <3>1
    <3>3. QED
      BY <1>2, <1>4, <3>1, <3>2
  <2>3. QED
    BY <2>1, <2>2
<1>7. Det!Value(run.network, run.mass, run.total, run.parent) = Original(Det!Projected)
  BY <1>1, <1>4 DEF Held
<1>8. \A i \in 0 .. m : Original(Level(i)) <= Original(Level(i + 1))
  BY <1>6
<1>9. QED
  BY <1>7, <1>8 DEF Det!ObjectiveClimbs, Original, Level, m

-----------------------------------------------------------------------------
(* The network of the edges and those of the clusters *)

NodesOf(e) == Det!Firsts([n \in 1 .. 2 * Len(e) |->
                IF n % 2 = 1 THEN e[(n + 1) \div 2].source ELSE e[n \div 2].target])
NumberOf(e) == [node \in Det!ToSet(NodesOf(e)) |->
                  CHOOSE n \in 0 .. Len(NodesOf(e)) - 1 : NodesOf(e)[n + 1] = node]
WholeOf(e) == Det!Network(e, NumberOf(e))

Distinct(s) == \A i, j \in 1 .. Len(s) : s[i] = s[j] => i = j

\* What the edges of the Relations input give.
Graph(input, e) ==
  /\ NodesOf(e) \in Seq(Nat) /\ Len(NodesOf(e)) \in Nat \ {0} /\ Distinct(NodesOf(e))
  /\ \A i \in 1 .. Len(NodesOf(e)) : NodesOf(e)[i] \in Ends(input)
  /\ NetworkOver(WholeOf(e), 0 .. Len(NodesOf(e)) - 1)

LEMMA NodesAre == Det!Nodes = NodesOf(edges) /\ Det!Whole = WholeOf(edges)
BY DEF Det!Nodes, NodesOf, Det!Whole, WholeOf, NumberOf

LEMMA NodesNamed ==
  ASSUME NEW E \in SUBSET Nat, NEW e \in Seq([source : E, target : E, weight : Nat]), e # <<>>
  PROVE  /\ NodesOf(e) \in Seq(Nat) /\ Len(NodesOf(e)) \in Nat \ {0} /\ Distinct(NodesOf(e))
         /\ \A i \in 1 .. Len(NodesOf(e)) : NodesOf(e)[i] \in E
         /\ \A k \in 1 .. Len(e) : /\ e[k].source \in Det!ToSet(NodesOf(e))
                                   /\ e[k].target \in Det!ToSet(NodesOf(e))
                                   /\ e[k].weight \in Nat
<1> DEFINE R == [source : E, target : E, weight : Nat]
           m == Len(e)
           list == [n \in 1 .. 2 * m |-> IF n % 2 = 1 THEN e[(n + 1) \div 2].source ELSE e[n \div 2].target]
           s == NodesOf(e)
<1>1. \A x \in R : x.source \in E /\ x.target \in E /\ x.weight \in Nat
  OBVIOUS
<1>2. e \in Seq(R)
  OBVIOUS
<1> HIDE DEF R
<1>3. m \in Nat /\ m # 0 /\ \A k \in 1 .. m : e[k] \in R
  BY <1>2
<1>4. \A k \in 1 .. m : e[k].source \in E /\ e[k].target \in E /\ e[k].weight \in Nat
  BY <1>1, <1>3
<1>5. ASSUME NEW k \in 1 .. m
      PROVE  /\ 2 * k - 1 \in 1 .. 2 * m /\ 2 * k \in 1 .. 2 * m
             /\ list[2 * k - 1] = e[k].source /\ list[2 * k] = e[k].target
  <2>1. /\ 2 * k - 1 \in 1 .. 2 * m /\ 2 * k \in 1 .. 2 * m
        /\ (2 * k - 1) % 2 = 1 /\ (2 * k) % 2 # 1
        /\ ((2 * k - 1) + 1) \div 2 = k /\ (2 * k) \div 2 = k
    BY <1>3
  <2>2. QED
    BY <2>1
<1>6. ASSUME NEW n \in 1 .. 2 * m PROVE list[n] \in E
  <2>1. n % 2 = 1 => (n + 1) \div 2 \in 1 .. m
    BY <1>3
  <2>2. n % 2 # 1 => n \div 2 \in 1 .. m
    BY <1>3
  <2>3. QED
    BY <1>4, <2>1, <2>2
<1>7. list \in Seq(E) /\ Len(list) = 2 * m
  <2>1. 2 * m \in Nat /\ DOMAIN list = 1 .. 2 * m /\ list = [n \in 1 .. 2 * m |-> list[n]]
    BY <1>3
  <2> HIDE DEF list
  <2>2. QED
    BY <1>6, <2>1
<1>8. s = Det!Firsts(list)
  BY DEF NodesOf
<1>9. list \in Seq(Nat)
  <2>1. \A x \in E : x \in Nat
    OBVIOUS
  <2> HIDE DEF list
  <2>2. \A n \in 1 .. 2 * m : list[n] \in Nat
    BY <1>6, <2>1
  <2>3. DOMAIN list = 1 .. 2 * m /\ 2 * m \in Nat /\ list = [n \in 1 .. 2 * m |-> list[n]]
    BY <1>3, <1>7
  <2>4. QED
    BY <2>2, <2>3
<1> HIDE DEF list, s, m
<1>10. /\ s \in Seq(Nat)
       /\ \A i, j \in 1 .. Len(s) : s[i] = s[j] => i = j
       /\ \A x : (\E i \in 1 .. Len(s) : s[i] = x) <=> \E i \in 1 .. Len(list) : list[i] = x
  BY <1>8, <1>9, FirstsOnce
<1>11. \A k \in 1 .. m : \E i, j \in 1 .. Len(s) : s[i] = e[k].source /\ s[j] = e[k].target
  <2> TAKE k \in 1 .. m
  <2>1. (\E i \in 1 .. Len(list) : list[i] = e[k].source) /\ \E i \in 1 .. Len(list) : list[i] = e[k].target
    BY <1>5, <1>7
  <2>2. QED
    BY <1>10, <2>1
<1>12. \A k \in 1 .. m : e[k].source \in Det!ToSet(s) /\ e[k].target \in Det!ToSet(s)
  <2>1. Det!ToSet(s) = {s[i] : i \in 1 .. Len(s)}
    BY <1>10, SameOperators
  <2>2. QED
    BY <1>11, <2>1
<1>13. \A i \in 1 .. Len(s) : s[i] \in E
  <2> TAKE i \in 1 .. Len(s)
  <2>1. \E j \in 1 .. Len(list) : list[j] = s[i]
    BY <1>10
  <2>2. QED
    BY <1>6, <1>7, <2>1
<1>14. Len(s) \in Nat \ {0}
  <2>1. 1 \in 1 .. m /\ Len(s) \in Nat
    BY <1>3, <1>10
  <2>2. \E i \in 1 .. Len(s) : s[i] = e[1].source
    BY <1>11, <2>1
  <2>3. QED
    BY <2>1, <2>2
<1>15. QED
  BY <1>4, <1>10, <1>12, <1>13, <1>14 DEF Distinct, s, m
LEMMA WholeOver ==
  ASSUME NEW E \in SUBSET Nat, NEW e \in Seq([source : E, target : E, weight : Nat]), e # <<>>
  PROVE  NetworkOver(WholeOf(e), 0 .. Len(NodesOf(e)) - 1)
<1> DEFINE s == NodesOf(e)
           D == 0 .. Len(s) - 1
           number == NumberOf(e)
           S == Det!ToSet(e)
           Pairs == {{number[x.source], number[x.target]} : x \in S}
<1>1. /\ Len(s) \in Nat \ {0} /\ s \in Seq(Nat)
      /\ \A k \in 1 .. Len(e) : /\ e[k].source \in Det!ToSet(s) /\ e[k].target \in Det!ToSet(s)
                                /\ e[k].weight \in Nat
  BY NodesNamed
<1>2. Len(e) \in Nat /\ S = {e[k] : k \in 1 .. Len(e)}
  <2>1. DOMAIN e = 1 .. Len(e) /\ Len(e) \in Nat
    OBVIOUS
  <2>2. QED
    BY <2>1, SameOperators
<1>3. \A x \in S : x.source \in Det!ToSet(s) /\ x.target \in Det!ToSet(s) /\ x.weight \in Nat
  <2> HIDE DEF S
  <2>1. QED
    BY <1>1, <1>2
<1>4. \A x \in Det!ToSet(s) : number[x] \in D
  <2> TAKE x \in Det!ToSet(s)
  <2>1. number[x] = CHOOSE n \in 0 .. Len(s) - 1 : s[n + 1] = x
    BY DEF NumberOf
  <2>2. Det!ToSet(s) = {s[i] : i \in 1 .. Len(s)}
    BY <1>1, SameOperators
  <2> HIDE DEF s, number
  <2>3. PICK i \in 1 .. Len(s) : s[i] = x
    BY <2>2
  <2>4. i - 1 \in 0 .. Len(s) - 1 /\ (i - 1) + 1 = i
    BY <1>1
  <2>5. \E n \in 0 .. Len(s) - 1 : s[n + 1] = x
    BY <2>3, <2>4
  <2>6. QED
    BY <2>1, <2>5
<1>5. WholeOf(e) = [pair \in Pairs |->
                      (CHOOSE x \in S : {number[x.source], number[x.target]} = pair).weight]
  BY DEF WholeOf, Det!Network
<1> HIDE DEF s, number, S
<1>6. ASSUME NEW pair \in Pairs
      PROVE  WholeOf(e)[pair] \in Nat /\ \E u, v \in D : pair = {u, v}
  <2>1. PICK x \in S : {number[x.source], number[x.target]} = pair
    BY <1>6
  <2>2. \E u, v \in D : pair = {u, v}
    BY <1>3, <1>4, <2>1
  <2> DEFINE y == CHOOSE z \in S : {number[z.source], number[z.target]} = pair
  <2>3. y \in S
    BY <2>1
  <2>4. WholeOf(e)[pair] = y.weight
    BY <1>5
  <2> HIDE DEF y
  <2>5. QED
    BY <1>3, <2>2, <2>3, <2>4
<1>7. IsFiniteSet(D)
  BY <1>1, IntervalCount
<1>8. DOMAIN WholeOf(e) = Pairs
  BY <1>5
<1> HIDE DEF Pairs, D
<1>9. NetworkOver(WholeOf(e), D)
  BY <1>6, <1>7, <1>8 DEF NetworkOver
<1>10. QED
  BY <1>9 DEF D, s

LEMMA GraphOf ==
  ASSUME NEW input \in Seq(Rows), NEW e, e = Det!Prepared(input), e # <<>>
  PROVE  Graph(input, e)
<1>1. /\ e \in Seq([source : Ends(input), target : Ends(input), weight : Nat])
      /\ Ends(input) \in SUBSET Nat
  BY PreparedRows
<1>2. QED
  BY <1>1, NodesNamed, WholeOver DEF Graph

\* The network of the members of a cluster.
LEMMA InducedOver ==
  ASSUME NEW D, NEW network, NetworkOver(network, D), NEW list \in Seq(Nat), Distinct(list)
  PROVE  NetworkOver(Det!Induced(network, list), 0 .. Len(list) - 1)
<1> DEFINE L == 0 .. Len(list) - 1
           local == [pair \in DOMAIN network |-> {n \in L : list[n + 1] \in pair}]
           kept == {pair \in DOMAIN network : pair \subseteq Det!ToSet(list)}
           pairs == {local[pair] : pair \in kept}
           net == Det!Induced(network, list)
<1>1. net = [x \in pairs |-> network[CHOOSE pair \in kept : local[pair] = x]]
  <2> DEFINE Local(pair) == {n \in 0 .. Len(list) - 1 : list[n + 1] \in pair}
  <2>1. net = [x \in {Local(pair) : pair \in kept} |-> network[CHOOSE pair \in kept : Local(pair) = x]]
    BY DEF Det!Induced
  <2>2. \A pair \in kept : Local(pair) = local[pair]
    OBVIOUS
  <2> HIDE DEF Local, local, kept
  <2>3. \A x : (CHOOSE pair \in kept : Local(pair) = x) = (CHOOSE pair \in kept : local[pair] = x)
    BY <2>2
  <2>4. {Local(pair) : pair \in kept} = pairs
    BY <2>2
  <2>5. QED
    BY <2>1, <2>3, <2>4
<1>2. Len(list) \in Nat /\ Det!ToSet(list) = {list[i] : i \in 1 .. Len(list)}
  BY SameOperators
<1>3. ASSUME NEW pair \in kept PROVE \E u, v \in L : local[pair] = {u, v}
  <2>1. PICK x, y \in D : pair = {x, y}
    BY DEF NetworkOver
  <2>2. x \in Det!ToSet(list) /\ y \in Det!ToSet(list)
    BY <2>1
  <2>3. PICK i \in 1 .. Len(list), j \in 1 .. Len(list) : list[i] = x /\ list[j] = y
    BY <1>2, <2>2
  <2>4. i - 1 \in L /\ j - 1 \in L /\ (i - 1) + 1 = i /\ (j - 1) + 1 = j
    BY <1>2
  <2>5. ASSUME NEW n \in L PROVE list[n + 1] \in pair <=> n \in {i - 1, j - 1}
    <3>1. n + 1 \in 1 .. Len(list)
      BY <1>2
    <3>2. (list[n + 1] = list[i] <=> n + 1 = i) /\ (list[n + 1] = list[j] <=> n + 1 = j)
      BY <3>1 DEF Distinct
    <3>3. QED
      BY SMTT(20), <1>2, <2>1, <2>3, <3>2
  <2>6. local[pair] = {n \in L : list[n + 1] \in pair}
    OBVIOUS
  <2> HIDE DEF local, L
  <2>7. local[pair] = {i - 1, j - 1}
    BY <2>4, <2>5, <2>6
  <2>8. QED
    BY <2>4, <2>7
<1> HIDE DEF local, kept, net
<1>4. ASSUME NEW x \in pairs PROVE net[x] \in Nat /\ \E u, v \in L : x = {u, v}
  <2>1. PICK pair \in kept : local[pair] = x
    BY <1>4
  <2> DEFINE p == CHOOSE q \in kept : local[q] = x
  <2>2. p \in kept
    BY <2>1
  <2>3. net[x] = network[p]
    BY <1>1
  <2> HIDE DEF p
  <2>4. p \in DOMAIN network
    BY <2>2 DEF kept
  <2>5. network[p] \in Nat
    BY <2>4 DEF NetworkOver
  <2>6. QED
    BY <1>3, <2>1, <2>3, <2>5
<1>5. IsFiniteSet(L)
  BY <1>2, IntervalCount
<1>6. DOMAIN net = pairs
  BY <1>1
<1> HIDE DEF pairs, L
<1>7. NetworkOver(net, L)
  BY <1>4, <1>5, <1>6 DEF NetworkOver
<1>8. QED
  BY <1>7 DEF L, net

-----------------------------------------------------------------------------
(* The hierarchy *)

HierarchyFields == {"entries", "partition", "next", "unsplittable", "level", "work"}

\* What hierarchy.entries may hold of n nodes and the first clusters.
Records(n, next) ==
  [node : 0 .. n - 1, cluster : 0 .. next - 1, level : Nat, parent : Int, final : BOOLEAN]

\* The nodes that are in a cluster now, and those its entries name.
Cell(h, c) == {u \in DOMAIN h.partition : h.partition[u] = c}
Listed(h, c) == {e.node : e \in {e \in h.entries : e.cluster = c}}

\* Every cluster has entries, which agree.
Placed(h, n) ==
  /\ DOMAIN h = HierarchyFields
  /\ n \in Nat \ {0} /\ h.next \in Nat /\ h.level \in Nat
  /\ h.partition \in [0 .. n - 1 -> 0 .. h.next - 1]
  /\ h.entries \subseteq Records(n, h.next)
  /\ \A c \in 0 .. h.next - 1 : \E e \in h.entries : e.cluster = c
  /\ \A e, f \in h.entries : e.cluster = f.cluster =>
       e.level = f.level /\ e.parent = f.parent /\ e.final = f.final

\* The final clusters are those of the partition, and a cluster is a union of them.
Celled(h) ==
  /\ \A e \in h.entries : e.final <=> h.partition[e.node] = e.cluster
  /\ \A u \in DOMAIN h.partition : \E e \in h.entries : e.node = u /\ e.cluster = h.partition[u]
  /\ \A e \in h.entries : \A v \in DOMAIN h.partition :
       h.partition[v] = h.partition[e.node] => \E f \in h.entries : f.node = v /\ f.cluster = e.cluster

\* A cluster lies in its parent, which is on a lower level and not final.
Nested(h) ==
  /\ \A e \in h.entries : IF e.level = 0 THEN e.parent = -1
       ELSE \E f \in h.entries : f.node = e.node /\ f.cluster = e.parent /\ f.level < e.level
  /\ \A e \in h.entries : e.final <=> ~\E f \in h.entries : f.parent = e.cluster
  /\ \A e \in h.entries : e.level <= h.level

\* No two clusters have the same nodes, and only a large one was split.
Divided(h) ==
  /\ \A c, d \in 0 .. h.next - 1 : Listed(h, c) = Listed(h, d) => c = d
  /\ \A e \in h.entries : ~e.final => Cardinality(Listed(h, e.cluster)) >= Det!MaxClusterSize

\* What is queued is large and above the level of its parts, and queued once.
Queued(h) ==
  /\ h.work \in Seq(Nat) /\ Distinct(h.work)
  /\ \A i \in 1 .. Len(h.work) :
       /\ Cardinality(Cell(h, h.work[i])) >= Det!MaxClusterSize
       /\ Cardinality(Cell(h, h.work[i])) > 1
       /\ \A e \in h.entries : e.cluster = h.work[i] => e.level < h.level

HierarchyInv(h, n) == Placed(h, n) /\ Celled(h) /\ Nested(h) /\ Divided(h) /\ Queued(h)

LEMMA SameHierarchy ==
  ASSUME NEW h, NEW n, HierarchyInv(h, n), NEW g, DOMAIN g = HierarchyFields,
         g.entries = h.entries, g.partition = h.partition, g.next = h.next,
         g.level \in Nat, g.level >= h.level, Queued(g)
  PROVE  HierarchyInv(g, n)
<1>1. Placed(g, n)
  BY DEF HierarchyInv, Placed
<1>2. Celled(g)
  BY DEF HierarchyInv, Celled
<1>3. Nested(g)
  <2>1. \A e \in h.entries : e.level <= g.level
    <3> TAKE e \in h.entries
    <3>1. e \in Records(n, h.next) /\ e.level <= h.level /\ h.level \in Nat
      BY DEF HierarchyInv, Placed, Nested
    <3>2. e.level \in Nat
      BY <3>1 DEF Records
    <3>3. QED
      BY <3>1, <3>2
  <2>2. QED
    BY <2>1 DEF HierarchyInv, Nested
<1>4. Divided(g)
  <2>1. \A c : Listed(g, c) = Listed(h, c)
    BY DEF Listed
  <2>2. QED
    BY <2>1 DEF HierarchyInv, Divided
<1>5. QED
  BY <1>1, <1>2, <1>3, <1>4 DEF HierarchyInv

\* What the entries of a cluster that is still a cell say.
LEMMA CellListed ==
  ASSUME NEW h, NEW n, HierarchyInv(h, n), NEW c, Cell(h, c) # {}
  PROVE  /\ c \in 0 .. h.next - 1 /\ Cell(h, c) \subseteq 0 .. n - 1
         /\ \A e \in h.entries : e.cluster = c => e.final /\ e.node \in Cell(h, c)
         /\ \A u \in Cell(h, c) : \E e \in h.entries : e.node = u /\ e.cluster = c
         /\ Listed(h, c) = Cell(h, c)
<1>1. /\ h.partition \in [0 .. n - 1 -> 0 .. h.next - 1] /\ DOMAIN h.partition = 0 .. n - 1
      /\ h.entries \subseteq Records(n, h.next)
      /\ \A e, f \in h.entries : e.cluster = f.cluster => e.final = f.final
      /\ \A e \in h.entries : e.final <=> h.partition[e.node] = e.cluster
      /\ \A u \in DOMAIN h.partition : \E e \in h.entries : e.node = u /\ e.cluster = h.partition[u]
  BY DEF HierarchyInv, Placed, Celled
<1>2. \A u \in Cell(h, c) : u \in 0 .. n - 1 /\ h.partition[u] = c
  BY <1>1 DEF Cell
<1>3. c \in 0 .. h.next - 1
  <2>1. PICK u \in Cell(h, c) : TRUE
    OBVIOUS
  <2>2. u \in 0 .. n - 1 /\ h.partition[u] = c
    BY <1>2, <2>1
  <2>3. QED
    BY <1>1, <2>2
<1>4. \A u \in Cell(h, c) : \E e \in h.entries : e.node = u /\ e.cluster = c
  BY <1>1, <1>2
<1>5. ASSUME NEW e \in h.entries, e.cluster = c PROVE e.final /\ e.node \in Cell(h, c)
  <2>1. PICK f \in h.entries : f.cluster = c /\ h.partition[f.node] = c
    BY <1>2, <1>4
  <2>2. f.final /\ e.final = f.final
    BY <1>1, <1>5, <2>1
  <2>3. e.node \in 0 .. n - 1
    BY <1>1 DEF Records
  <2>4. h.partition[e.node] = c
    BY <1>1, <1>5, <2>2
  <2>5. QED
    BY <1>1, <2>2, <2>3, <2>4 DEF Cell
<1>6. Listed(h, c) = Cell(h, c)
  BY <1>4, <1>5 DEF Listed
<1>7. QED
  BY <1>2, <1>3, <1>4, <1>5, <1>6

\* g is h after the cluster item was replaced by count parts, named by block.
Divides(h, g, item, count, block) ==
  /\ DOMAIN g = HierarchyFields /\ g.level = h.level /\ g.work = h.work /\ g.next = h.next + count
  /\ g.partition = [u \in DOMAIN h.partition |->
                      IF h.partition[u] = item THEN h.next + block[u] ELSE h.partition[u]]
  /\ g.entries = {IF e.cluster = item THEN [e EXCEPT !.final = FALSE] ELSE e : e \in h.entries}
                 \cup {Det!Entry(u, h.next + block[u], h.level, item) : u \in Cell(h, item)}

\* Same(e, f): e is what became of the entry f.
Became(item, e, f) ==
  /\ e.node = f.node /\ e.cluster = f.cluster /\ e.level = f.level /\ e.parent = f.parent
  /\ e.final <=> f.final /\ f.cluster # item

\* The entry of u in its part.
Newly(h, item, block, e, u) ==
  /\ e.node = u /\ e.cluster = h.next + block[u] /\ e.level = h.level /\ e.parent = item
  /\ e.final = TRUE

LEMMA DividedEntries ==
  ASSUME NEW h, NEW n, HierarchyInv(h, n), NEW item, Cell(h, item) # {},
         NEW count \in Nat, NEW block \in [Cell(h, item) -> 0 .. count - 1],
         NEW g, Divides(h, g, item, count, block)
  PROVE  /\ g.entries \subseteq Records(n, g.next)
         /\ \A e \in g.entries : \/ \E f \in h.entries : Became(item, e, f)
                                 \/ \E u \in Cell(h, item) : Newly(h, item, block, e, u)
         /\ \A f \in h.entries : \E e \in g.entries : Became(item, e, f)
         /\ \A u \in Cell(h, item) : \E e \in g.entries : Newly(h, item, block, e, u)
<1> DEFINE P == Cell(h, item)
           old == [e \in h.entries |-> IF e.cluster = item THEN [e EXCEPT !.final = FALSE] ELSE e]
           new == [u \in P |-> Det!Entry(u, h.next + block[u], h.level, item)]
<1>1. /\ h.entries \subseteq Records(n, h.next) /\ h.next \in Nat /\ h.level \in Nat
      /\ g.next = h.next + count
  BY DEF HierarchyInv, Placed, Divides
<1>2. P \subseteq 0 .. n - 1 /\ item \in 0 .. h.next - 1
  BY CellListed
<1>3. g.entries = {old[e] : e \in h.entries} \cup {new[u] : u \in P}
  BY DEF Divides
<1>4. ASSUME NEW f \in h.entries
      PROVE  Became(item, old[f], f) /\ old[f] \in Records(n, g.next)
  <2>1. /\ f \in Records(n, h.next) /\ f.node \in 0 .. n - 1 /\ f.cluster \in 0 .. h.next - 1
        /\ f.level \in Nat /\ f.parent \in Int /\ f.final \in BOOLEAN
        /\ f = [node |-> f.node, cluster |-> f.cluster, level |-> f.level, parent |-> f.parent,
                final |-> f.final]
    BY <1>1 DEF Records
  <2>2. old[f] = IF f.cluster = item THEN [f EXCEPT !.final = FALSE] ELSE f
    OBVIOUS
  <2>3. f.cluster \in 0 .. g.next - 1
    BY <1>1, <2>1
  <2> HIDE DEF old
  <2>4. CASE f.cluster = item
    <3>1. old[f] = [node |-> f.node, cluster |-> f.cluster, level |-> f.level, parent |-> f.parent,
                    final |-> FALSE]
      BY <2>1, <2>2, <2>4
    <3>2. QED
      BY <2>1, <2>3, <2>4, <3>1 DEF Became, Records
  <2>5. CASE f.cluster # item
    BY <2>1, <2>2, <2>3, <2>5 DEF Became, Records
  <2>6. QED
    BY <2>4, <2>5
<1>5. ASSUME NEW u \in P
      PROVE  Newly(h, item, block, new[u], u) /\ new[u] \in Records(n, g.next)
  <2>1. block[u] \in 0 .. count - 1 /\ u \in 0 .. n - 1
    BY <1>2
  <2>2. new[u] = [node |-> u, cluster |-> h.next + block[u], level |-> h.level, parent |-> item,
                  final |-> TRUE]
    BY DEF Det!Entry
  <2> HIDE DEF new
  <2>3. h.next + block[u] \in 0 .. g.next - 1 /\ item \in Int
    BY <1>1, <1>2, <2>1
  <2>4. QED
    BY <1>1, <2>1, <2>2, <2>3 DEF Newly, Records
<1> HIDE DEF old, new, P
<1>6. QED
  BY <1>3, <1>4, <1>5 DEF P

\* Dividing a cell into at least two parts keeps a hierarchy one.
LEMMA DivideKeeps ==
  ASSUME NEW h, NEW n, HierarchyInv(h, n), NEW item, Cell(h, item) # {},
         Cardinality(Cell(h, item)) >= Det!MaxClusterSize,
         \A e \in h.entries : e.cluster = item => e.level < h.level,
         \A i \in 1 .. Len(h.work) : h.work[i] # item,
         NEW count \in Nat, count > 1, NEW block \in [Cell(h, item) -> 0 .. count - 1],
         \A j \in 0 .. count - 1 : \E u \in Cell(h, item) : block[u] = j,
         NEW g, Divides(h, g, item, count, block)
  PROVE  HierarchyInv(g, n)
<1> DEFINE P == Cell(h, item)
<1>1. /\ h.next \in Nat /\ h.level \in Nat /\ n \in Nat \ {0}
      /\ DOMAIN g = HierarchyFields /\ g.level = h.level /\ g.work = h.work
      /\ g.next = h.next + count /\ g.next \in Nat
  BY DEF HierarchyInv, Placed, Divides
<1>2. /\ h.partition \in [0 .. n - 1 -> 0 .. h.next - 1] /\ DOMAIN h.partition = 0 .. n - 1
  BY DEF HierarchyInv, Placed
<1>3. /\ P \subseteq 0 .. n - 1 /\ item \in 0 .. h.next - 1
      /\ \A e \in h.entries : e.cluster = item => e.final /\ e.node \in P
      /\ \A u \in P : \E e \in h.entries : e.node = u /\ e.cluster = item
      /\ Listed(h, item) = P
  BY CellListed
<1>4. \A u : u \in P <=> u \in 0 .. n - 1 /\ h.partition[u] = item
  BY <1>2 DEF Cell
<1>5. /\ \A u \in P : h.next + block[u] >= h.next /\ h.next + block[u] \in 0 .. g.next - 1
                      /\ h.next + block[u] \in Nat
      /\ \A u, v \in P : h.next + block[u] = h.next + block[v] => block[u] = block[v]
  <2>1. \A u \in P : block[u] \in 0 .. count - 1
    OBVIOUS
  <2> HIDE DEF P
  <2>2. QED
    BY SMTT(20), <1>1, <2>1
<1>6. \A u \in 0 .. n - 1 : g.partition[u] = IF u \in P THEN h.next + block[u] ELSE h.partition[u]
  BY <1>2, <1>4 DEF Divides
<1>7. g.partition \in [0 .. n - 1 -> 0 .. g.next - 1] /\ DOMAIN g.partition = 0 .. n - 1
  <2>1. DOMAIN g.partition = 0 .. n - 1 /\ g.partition = [u \in 0 .. n - 1 |-> g.partition[u]]
    BY <1>2 DEF Divides
  <2>2. \A u \in 0 .. n - 1 : g.partition[u] \in 0 .. g.next - 1
    <3> TAKE u \in 0 .. n - 1
    <3>1. h.partition[u] \in 0 .. h.next - 1
      BY <1>2
    <3> HIDE DEF P
    <3>2. QED
      BY SMTT(20), <1>1, <1>5, <1>6, <3>1
  <2>3. QED
    BY <2>1, <2>2
<1>8. /\ g.entries \subseteq Records(n, g.next) /\ h.entries \subseteq Records(n, h.next)
      /\ \A e \in g.entries : \/ \E f \in h.entries : Became(item, e, f)
                              \/ \E u \in P : Newly(h, item, block, e, u)
      /\ \A f \in h.entries : \E e \in g.entries : Became(item, e, f)
      /\ \A u \in P : \E e \in g.entries : Newly(h, item, block, e, u)
  BY DividedEntries DEF HierarchyInv, Placed
<1> HIDE DEF P
<1>9. \A f \in h.entries : /\ f.node \in 0 .. n - 1 /\ f.cluster \in 0 .. h.next - 1
                           /\ f.level \in Nat /\ f.parent \in Int /\ f.final \in BOOLEAN
                           /\ f.cluster < h.next /\ f.cluster \in Nat
  BY SMTT(20), <1>1, <1>8 DEF Records
\* An entry of an old cluster and one of a new cluster.
<1>10. \A e \in g.entries :
         \/ /\ e.cluster \in 0 .. h.next - 1 /\ e.cluster < h.next
            /\ \E f \in h.entries : Became(item, e, f)
         \/ /\ e.cluster >= h.next /\ e.cluster \in 0 .. g.next - 1
            /\ \E u \in P : Newly(h, item, block, e, u)
  <2> TAKE e \in g.entries
  <2>1. CASE \E f \in h.entries : Became(item, e, f)
    BY <1>9, <2>1 DEF Became
  <2>2. CASE \E u \in P : Newly(h, item, block, e, u)
    BY <1>5, <2>2 DEF Newly
  <2>3. QED
    BY <1>8, <2>1, <2>2
<1>11. \A e \in g.entries : e.cluster < h.next => \E f \in h.entries : Became(item, e, f)
  <2> TAKE e \in g.entries
  <2>1. \A u \in P : Newly(h, item, block, e, u) => ~(e.cluster < h.next)
    BY <1>1, <1>5 DEF Newly
  <2>2. QED
    BY <1>8, <2>1
<1>12. \A e \in g.entries : ~(e.cluster < h.next) => \E u \in P : Newly(h, item, block, e, u)
  BY <1>10
<1>13. \A c \in 0 .. h.next - 1 : c < h.next /\ c \in 0 .. g.next - 1 /\ \A u \in P : h.next + block[u] # c
  BY <1>1, <1>5
<1>14. /\ \A c \in 0 .. h.next - 1 : \E e \in h.entries : e.cluster = c
       /\ \A e, f \in h.entries : e.cluster = f.cluster =>
            e.level = f.level /\ e.parent = f.parent /\ e.final = f.final
  BY DEF HierarchyInv, Placed
<1>15. Placed(g, n)
  <2>1. ASSUME NEW c \in 0 .. g.next - 1 PROVE \E e \in g.entries : e.cluster = c
    <3>1. CASE c < h.next
      <4>1. c \in 0 .. h.next - 1
        BY <1>1, <3>1
      <4>2. PICK f \in h.entries : f.cluster = c
        BY <1>14, <4>1
      <4>3. QED
        BY <1>8, <4>2 DEF Became
    <3>2. CASE ~(c < h.next)
      <4>1. c - h.next \in 0 .. count - 1 /\ h.next + (c - h.next) = c
        BY <1>1, <3>2
      <4>2. PICK u \in P : block[u] = c - h.next
        BY <4>1 DEF P
      <4>3. PICK e \in g.entries : Newly(h, item, block, e, u)
        BY <1>8
      <4>4. QED
        BY <4>1, <4>2, <4>3 DEF Newly
    <3>3. QED
      BY <3>1, <3>2
  <2>2. ASSUME NEW e \in g.entries, NEW f \in g.entries, e.cluster = f.cluster
        PROVE  e.level = f.level /\ e.parent = f.parent /\ e.final = f.final
    <3>1. CASE e.cluster < h.next
      <4>1. PICK x \in h.entries : Became(item, e, x)
        BY <1>11, <3>1
      <4>2. PICK y \in h.entries : Became(item, f, y)
        BY <1>11, <2>2, <3>1
      <4>3. x.cluster = y.cluster
        BY <2>2, <4>1, <4>2 DEF Became
      <4>4. x.level = y.level /\ x.parent = y.parent /\ x.final = y.final
        BY <1>14, <4>3
      <4>5. e.final \in BOOLEAN /\ f.final \in BOOLEAN
        BY <1>8 DEF Records
      <4>6. QED
        BY <4>1, <4>2, <4>3, <4>4, <4>5 DEF Became
    <3>2. CASE ~(e.cluster < h.next)
      <4>1. PICK u \in P : Newly(h, item, block, e, u)
        BY <1>12, <3>2
      <4>2. PICK v \in P : Newly(h, item, block, f, v)
        BY <1>12, <2>2, <3>2
      <4>3. QED
        BY <4>1, <4>2 DEF Newly
    <3>3. QED
      BY <3>1, <3>2
  <2>3. QED
    BY <1>1, <1>7, <1>8, <2>1, <2>2 DEF Placed
<1>16. /\ \A e \in h.entries : e.final <=> h.partition[e.node] = e.cluster
       /\ \A u \in 0 .. n - 1 : \E e \in h.entries : e.node = u /\ e.cluster = h.partition[u]
       /\ \A e \in h.entries : \A v \in 0 .. n - 1 :
            h.partition[v] = h.partition[e.node] => \E f \in h.entries : f.node = v /\ f.cluster = e.cluster
  BY <1>2 DEF HierarchyInv, Celled
<1>17. \A u \in 0 .. n - 1 : h.partition[u] \in 0 .. h.next - 1
  BY <1>2
<1>18. Celled(g)
  <2>1. ASSUME NEW e \in g.entries PROVE e.final <=> g.partition[e.node] = e.cluster
    <3>1. CASE e.cluster < h.next
      <4>1. PICK f \in h.entries : Became(item, e, f)
        BY <1>11, <3>1
      <4>2. f.node \in 0 .. n - 1 /\ f.cluster \in 0 .. h.next - 1
        BY <1>9
      <4>3. f.final <=> h.partition[f.node] = f.cluster
        BY <1>16
      <4>4. g.partition[f.node] = f.cluster <=> h.partition[f.node] = f.cluster /\ f.cluster # item
        BY <1>4, <1>6, <1>13, <4>2
      <4>5. QED
        BY <4>1, <4>3, <4>4 DEF Became
    <3>2. CASE ~(e.cluster < h.next)
      <4>1. PICK u \in P : Newly(h, item, block, e, u)
        BY <1>12, <3>2
      <4>2. g.partition[u] = h.next + block[u]
        BY <1>4, <1>6
      <4>3. QED
        BY <4>1, <4>2 DEF Newly
    <3>3. QED
      BY <3>1, <3>2
  <2>2. ASSUME NEW u \in 0 .. n - 1 PROVE \E e \in g.entries : e.node = u /\ e.cluster = g.partition[u]
    <3>1. CASE u \in P
      BY <1>6, <1>8, <3>1 DEF Newly
    <3>2. CASE u \notin P
      <4>1. PICK f \in h.entries : f.node = u /\ f.cluster = h.partition[u]
        BY <1>16
      <4>2. PICK e \in g.entries : Became(item, e, f)
        BY <1>8
      <4>3. QED
        BY <1>6, <3>2, <4>1, <4>2 DEF Became
    <3>3. QED
      BY <3>1, <3>2
  <2>3. ASSUME NEW e \in g.entries, NEW v \in 0 .. n - 1, g.partition[v] = g.partition[e.node]
        PROVE  \E x \in g.entries : x.node = v /\ x.cluster = e.cluster
    <3>1. CASE e.cluster < h.next
      <4>1. PICK f \in h.entries : Became(item, e, f)
        BY <1>11, <3>1
      <4>2. f.node \in 0 .. n - 1 /\ e.node = f.node
        BY <1>9, <4>1 DEF Became
      <4>3. h.partition[v] = h.partition[f.node]
        BY <1>4, <1>6, <1>13, <1>17, <2>3, <4>2
      <4>4. PICK y \in h.entries : y.node = v /\ y.cluster = f.cluster
        BY <1>16, <4>3
      <4>5. PICK x \in g.entries : Became(item, x, y)
        BY <1>8
      <4>6. QED
        BY <4>1, <4>4, <4>5 DEF Became
    <3>2. CASE ~(e.cluster < h.next)
      <4>1. PICK u \in P : Newly(h, item, block, e, u)
        BY <1>12, <3>2
      <4>2. g.partition[v] = h.next + block[u] /\ e.cluster = h.next + block[u]
        BY <1>4, <1>6, <2>3, <4>1 DEF Newly
      <4>3. v \in P
        BY <1>6, <1>13, <1>17, <4>2
      <4>4. h.next + block[v] = h.next + block[u]
        BY <1>6, <4>2, <4>3
      <4>5. PICK x \in g.entries : Newly(h, item, block, x, v)
        BY <1>8, <4>3
      <4>6. QED
        BY <4>2, <4>4, <4>5 DEF Newly
    <3>3. QED
      BY <3>1, <3>2
  <2>4. QED
    BY <1>7, <2>1, <2>2, <2>3 DEF Celled
<1>19. /\ \A e \in h.entries : IF e.level = 0 THEN e.parent = -1
            ELSE \E f \in h.entries : f.node = e.node /\ f.cluster = e.parent /\ f.level < e.level
       /\ \A e \in h.entries : e.final <=> ~\E f \in h.entries : f.parent = e.cluster
       /\ \A e \in h.entries : e.level <= h.level
  BY DEF HierarchyInv, Nested
<1>20. Nested(g)
  <2>1. ASSUME NEW e \in g.entries
        PROVE  /\ e.level = 0 => e.parent = -1
               /\ e.level # 0 =>
                    \E x \in g.entries : x.node = e.node /\ x.cluster = e.parent /\ x.level < e.level
               /\ e.level <= g.level
    <3>1. CASE e.cluster < h.next
      <4>1. PICK f \in h.entries : Became(item, e, f)
        BY <1>11, <3>1
      <4>2. e.level = f.level /\ e.parent = f.parent /\ e.node = f.node
        BY <4>1 DEF Became
      <4>3. ASSUME e.level # 0
            PROVE  \E x \in g.entries : x.node = e.node /\ x.cluster = e.parent /\ x.level < e.level
        <5>1. PICK y \in h.entries : y.node = f.node /\ y.cluster = f.parent /\ y.level < f.level
          BY <1>19, <4>2, <4>3
        <5>2. PICK x \in g.entries : Became(item, x, y)
          BY <1>8
        <5>3. QED
          BY <4>2, <5>1, <5>2 DEF Became
      <4>4. QED
        BY <1>1, <1>19, <4>2, <4>3
    <3>2. CASE ~(e.cluster < h.next)
      <4>1. PICK u \in P : Newly(h, item, block, e, u)
        BY <1>12, <3>2
      <4>2. e.node = u /\ e.level = h.level /\ e.parent = item
        BY <4>1 DEF Newly
      <4>3. PICK y \in h.entries : y.node = u /\ y.cluster = item
        BY <1>3
      <4>4. y.level < h.level /\ y.level \in Nat
        BY <1>9, <4>3
      <4>5. PICK x \in g.entries : Became(item, x, y)
        BY <1>8
      <4>6. x.node = e.node /\ x.cluster = e.parent /\ x.level < e.level
        BY <4>2, <4>3, <4>4, <4>5 DEF Became
      <4>7. e.level # 0 /\ e.level <= g.level
        BY <1>1, <4>2, <4>4
      <4>8. QED
        BY <4>6, <4>7
    <3>3. QED
      BY <3>1, <3>2
  <2>2. \A f \in h.entries : f.parent = -1 \/ f.parent \in 0 .. h.next - 1
    BY <1>9, <1>19
  <2>3. ASSUME NEW e \in g.entries PROVE e.final <=> ~\E x \in g.entries : x.parent = e.cluster
    <3>1. CASE e.cluster < h.next
      <4>1. PICK f \in h.entries : Became(item, e, f)
        BY <1>11, <3>1
      <4>2. CASE f.cluster = item
        <5>1. PICK u \in P : TRUE
          BY DEF P
        <5>2. PICK x \in g.entries : Newly(h, item, block, x, u)
          BY <1>8
        <5>3. QED
          BY <4>1, <4>2, <5>2 DEF Became, Newly
      <4>3. CASE f.cluster # item
        <5>1. (\E x \in g.entries : x.parent = f.cluster) <=> \E y \in h.entries : y.parent = f.cluster
          <6>1. ASSUME NEW x \in g.entries, x.parent = f.cluster
                PROVE  \E y \in h.entries : y.parent = f.cluster
            <7>1. ~\E u \in P : Newly(h, item, block, x, u)
              BY <4>3, <6>1 DEF Newly
            <7>2. QED
              BY <1>8, <6>1, <7>1 DEF Became
          <6>2. ASSUME NEW y \in h.entries, y.parent = f.cluster
                PROVE  \E x \in g.entries : x.parent = f.cluster
            BY <1>8, <6>2 DEF Became
          <6>3. QED
            BY <6>1, <6>2
        <5>2. QED
          BY <1>19, <4>1, <4>3, <5>1 DEF Became
      <4>4. QED
        BY <4>2, <4>3
    <3>2. CASE ~(e.cluster < h.next)
      <4>1. e.final = TRUE
        BY <1>12, <3>2 DEF Newly
      <4>2. ASSUME NEW x \in g.entries PROVE x.parent # e.cluster
        <5>1. x.parent = -1 \/ x.parent \in 0 .. h.next - 1
          BY <1>3, <1>8, <2>2 DEF Became, Newly
        <5>2. e.cluster \in Nat
          BY <1>8 DEF Records
        <5>3. QED
          BY <1>1, <3>2, <5>1, <5>2
      <4>3. QED
        BY <4>1, <4>2
    <3>3. QED
      BY <3>1, <3>2
  <2>4. QED
    BY <2>1, <2>3 DEF Nested
<1>21. /\ \A c, d \in 0 .. h.next - 1 : Listed(h, c) = Listed(h, d) => c = d
       /\ \A e \in h.entries : ~e.final => Cardinality(Listed(h, e.cluster)) >= Det!MaxClusterSize
  BY DEF HierarchyInv, Divided
<1>22. ASSUME NEW c \in 0 .. h.next - 1 PROVE Listed(g, c) = Listed(h, c)
  <2>1. ASSUME NEW e \in g.entries, e.cluster = c
        PROVE  \E f \in h.entries : f.cluster = c /\ f.node = e.node
    BY <1>11, <1>13, <2>1 DEF Became
  <2>2. ASSUME NEW f \in h.entries, f.cluster = c
        PROVE  \E e \in g.entries : e.cluster = c /\ e.node = f.node
    BY <1>8, <2>2 DEF Became
  <2>3. QED
    BY <2>1, <2>2 DEF Listed
<1>23. ASSUME NEW j \in 0 .. count - 1, NEW x
       PROVE  x \in Listed(g, h.next + j) <=> x \in P /\ block[x] = j
  <2>1. h.next + j >= h.next /\ \A u \in P : h.next + block[u] = h.next + j => block[u] = j
    <3>1. \A u \in P : block[u] \in 0 .. count - 1
      BY DEF P
    <3>2. QED
      BY <1>1, <3>1
  <2>2. ASSUME x \in Listed(g, h.next + j) PROVE x \in P /\ block[x] = j
    <3>1. PICK e \in g.entries : e.cluster = h.next + j /\ e.node = x
      BY <2>2 DEF Listed
    <3>2. ~(e.cluster < h.next)
      BY <1>1, <2>1, <3>1
    <3>3. PICK u \in P : Newly(h, item, block, e, u)
      BY <1>12, <3>2
    <3>4. QED
      BY <2>1, <3>1, <3>3 DEF Newly
  <2>3. ASSUME x \in P, block[x] = j PROVE x \in Listed(g, h.next + j)
    <3>1. PICK e \in g.entries : Newly(h, item, block, e, x)
      BY <1>8, <2>3
    <3>2. QED
      BY <2>3, <3>1 DEF Newly, Listed
  <2>4. QED
    BY <2>2, <2>3
<1>24. \A j \in 0 .. count - 1 : \E u \in P : block[u] = j
  BY DEF P
\* An old cluster has all nodes of the cell or none, a part has some and not all.
<1>25. ASSUME NEW c \in 0 .. h.next - 1, NEW j \in 0 .. count - 1
       PROVE  Listed(g, c) # Listed(g, h.next + j)
  <2>1. SUFFICES ASSUME Listed(g, c) = Listed(g, h.next + j) PROVE FALSE
    OBVIOUS
  <2>2. PICK u \in P : block[u] = j
    BY <1>24
  <2>3. \E k \in 0 .. count - 1 : k # j
    <3>1. 0 \in 0 .. count - 1 /\ 1 \in 0 .. count - 1
      BY <1>1
    <3>2. 0 # j \/ 1 # j
      OBVIOUS
    <3>3. QED
      BY <3>1, <3>2
  <2>4. PICK v \in P : block[v] # j
    BY <1>24, <2>3
  <2>5. u \in Listed(h, c)
    BY <1>22, <1>23, <2>1, <2>2
  <2>6. PICK e \in h.entries : e.cluster = c /\ e.node = u
    BY <2>5 DEF Listed
  <2>7. v \in 0 .. n - 1 /\ h.partition[v] = h.partition[e.node]
    BY <1>4, <2>6
  <2>8. \E f \in h.entries : f.node = v /\ f.cluster = c
    BY <1>16, <2>6, <2>7
  <2>9. v \in Listed(h, c)
    BY <2>8 DEF Listed
  <2>10. QED
    BY <1>22, <1>23, <2>1, <2>4, <2>9
<1>26. Divided(g)
  <2>1. ASSUME NEW c \in 0 .. g.next - 1, NEW d \in 0 .. g.next - 1, Listed(g, c) = Listed(g, d)
        PROVE  c = d
    <3>1. /\ c < h.next => c \in 0 .. h.next - 1
          /\ ~(c < h.next) => c - h.next \in 0 .. count - 1 /\ h.next + (c - h.next) = c
          /\ d < h.next => d \in 0 .. h.next - 1
          /\ ~(d < h.next) => d - h.next \in 0 .. count - 1 /\ h.next + (d - h.next) = d
      BY SMTT(20), <1>1
    <3>2. CASE c < h.next /\ d < h.next
      BY <1>21, <1>22, <2>1, <3>1, <3>2
    <3>3. CASE c < h.next /\ ~(d < h.next)
      <4>1. Listed(g, c) # Listed(g, h.next + (d - h.next))
        BY <1>25, <3>1, <3>3
      <4>2. QED
        BY <2>1, <3>1, <3>3, <4>1
    <3>4. CASE ~(c < h.next) /\ d < h.next
      <4>1. Listed(g, d) # Listed(g, h.next + (c - h.next))
        BY <1>25, <3>1, <3>4
      <4>2. QED
        BY <2>1, <3>1, <3>4, <4>1
    <3>5. CASE ~(c < h.next) /\ ~(d < h.next)
      <4> DEFINE i == c - h.next
                 j == d - h.next
      <4>1. i \in 0 .. count - 1 /\ j \in 0 .. count - 1 /\ c = h.next + i /\ d = h.next + j
        BY <3>1, <3>5
      <4> HIDE DEF i, j
      <4>2. PICK u \in P : block[u] = i
        BY <1>24, <4>1
      <4>3. u \in Listed(g, h.next + i)
        BY <1>23, <4>1, <4>2
      <4>4. u \in Listed(g, h.next + j)
        BY <2>1, <4>1, <4>3
      <4>5. block[u] = j
        BY <1>23, <4>1, <4>4
      <4>6. QED
        BY <4>1, <4>2, <4>5
    <3>6. QED
      BY <3>2, <3>3, <3>4, <3>5
  <2>2. ASSUME NEW e \in g.entries, ~e.final
        PROVE  Cardinality(Listed(g, e.cluster)) >= Det!MaxClusterSize
    <3>1. ~\E u \in P : Newly(h, item, block, e, u)
      BY <2>2 DEF Newly
    <3>2. PICK f \in h.entries : Became(item, e, f)
      BY <1>8, <3>1
    <3>3. e.cluster = f.cluster /\ f.cluster \in 0 .. h.next - 1 /\ (f.cluster = item \/ ~f.final)
      BY <1>9, <2>2, <3>2 DEF Became
    <3>4. Listed(g, e.cluster) = Listed(h, f.cluster)
      BY <1>22, <3>3
    <3>5. CASE f.cluster = item
      BY <1>3, <3>4, <3>5 DEF P
    <3>6. CASE ~f.final
      BY <1>21, <3>4, <3>6
    <3>7. QED
      BY <3>3, <3>5, <3>6
  <2>3. QED
    BY <2>1, <2>2 DEF Divided
<1>27. Queued(g)
  <2>1. /\ h.work \in Seq(Nat) /\ Distinct(h.work)
        /\ \A i \in 1 .. Len(h.work) :
             /\ Cardinality(Cell(h, h.work[i])) >= Det!MaxClusterSize
             /\ Cardinality(Cell(h, h.work[i])) > 1
             /\ \A e \in h.entries : e.cluster = h.work[i] => e.level < h.level
    BY DEF HierarchyInv, Queued
  <2>2. ASSUME NEW i \in 1 .. Len(h.work)
        PROVE  /\ Cell(g, h.work[i]) = Cell(h, h.work[i])
               /\ \A e \in g.entries : e.cluster = h.work[i] => e.level < g.level
    <3> DEFINE c == h.work[i]
    <3>1. Cell(h, c) # {}
      <4>1. Cardinality({}) = 0
        BY FS_EmptySet
      <4>2. Cardinality(Cell(h, c)) > 1
        BY <2>1
      <4> HIDE DEF c
      <4>3. Cell(h, c) = {} => Cardinality(Cell(h, c)) = 0
        BY <4>1
      <4>4. QED
        BY <4>2, <4>3
    <3>2. c \in 0 .. h.next - 1
      <4> HIDE DEF c
      <4>1. QED
        BY <3>1, CellListed
    <3>3. c # item
      OBVIOUS
    <3>4. \A e \in h.entries : e.cluster = c => e.level < h.level
      BY <2>1
    <3> HIDE DEF c
    <3>5. \A u \in 0 .. n - 1 : g.partition[u] = c <=> h.partition[u] = c
      BY <1>4, <1>6, <1>13, <3>2, <3>3
    <3>6. Cell(g, c) = Cell(h, c)
      BY <1>2, <1>7, <3>5 DEF Cell
    <3>7. ASSUME NEW e \in g.entries, e.cluster = c PROVE e.level < g.level
      <4>1. PICK f \in h.entries : Became(item, e, f)
        BY <1>11, <1>13, <3>2, <3>7
      <4>2. QED
        BY <1>1, <3>4, <3>7, <4>1 DEF Became
    <3>8. QED
      BY <3>6, <3>7 DEF c
  <2>3. QED
    BY <1>1, <2>1, <2>2 DEF Queued
<1>28. QED
  BY <1>15, <1>18, <1>20, <1>26, <1>27 DEF HierarchyInv

LEMMA IncreasingDistinct ==
  ASSUME NEW s \in Seq(Nat), Increasing(s)
  PROVE  Distinct(s)
<1> SUFFICES ASSUME NEW i \in 1 .. Len(s), NEW j \in 1 .. Len(s), s[i] = s[j] PROVE i = j
  BY DEF Distinct
<1>1. s[i] \in Nat /\ s[j] \in Nat
  OBVIOUS
<1>2. (i < j => s[i] < s[j]) /\ (j < i => s[j] < s[i])
  BY DEF Increasing
<1>3. QED
  BY <1>1, <1>2

Where(p, c) == {u \in DOMAIN p : p[u] = c}

\* The members of a cluster, each once.
LEMMA MembersList ==
  ASSUME NEW p, DOMAIN p \in SUBSET Nat, IsFiniteSet(DOMAIN p), NEW c
  PROVE  LET a == Det!Members(p, c) IN
           /\ a \in Seq(Where(p, c)) /\ a \in Seq(Nat) /\ Distinct(a)
           /\ Len(a) = Cardinality(Where(p, c)) /\ Len(a) \in Nat /\ IsFiniteSet(Where(p, c))
           /\ \A u \in Where(p, c) : \E i \in 1 .. Len(a) : a[i] = u
<1> DEFINE S == Where(p, c)
           a == Det!Members(p, c)
<1>1. S \in SUBSET DOMAIN p /\ S \in SUBSET Nat /\ IsFiniteSet(S)
  <2>1. S \in SUBSET DOMAIN p
    BY DEF Where
  <2> HIDE DEF S
  <2>2. QED
    BY <2>1, FS_Subset
<1>2. a = Vec!Ascending(S)
  BY SameOperators DEF Det!Members, Where
<1> HIDE DEF S, a
<1>3. /\ a \in Seq(S) /\ Len(a) = Cardinality(S) /\ Increasing(a)
      /\ \A x \in S : \E i \in 1 .. Len(a) : a[i] = x
  BY <1>1, <1>2, AscendingLists
<1>4. a \in Seq(Nat) /\ Len(a) \in Nat
  BY <1>1, <1>3
<1>5. Distinct(a)
  BY <1>3, <1>4, IncreasingDistinct
<1>6. QED
  BY <1>1, <1>3, <1>4, <1>5 DEF S, a

\* What was found to be one part is large, and is not queued again.
Judged(h) ==
  /\ \A c \in h.unsplittable : Cell(h, c) # {} /\ Cardinality(Cell(h, c)) >= Det!MaxClusterSize
  /\ \A i \in 1 .. Len(h.work) : h.work[i] \notin h.unsplittable

\* Every large cluster was found to be one part.
Exhausted(h) ==
  \A c \in 0 .. h.next - 1 :
    Cardinality(Cell(h, c)) >= Det!MaxClusterSize /\ Cardinality(Cell(h, c)) > 1 => c \in h.unsplittable

\* A hierarchy and the run it waits for, if any.
Waiting(h, r, n) ==
  /\ HierarchyInv(h, n) /\ Judged(h)
  /\ \/ r = Det!Idle /\ Exhausted(h)
     \/ h.work # <<>> /\ RunInv(r, Len(Det!Members(h.partition, Head(h.work))))

LEMMA QueuedNext ==
  ASSUME NEW h, NEW n, HierarchyInv(h, n),
         NEW g, g = [h EXCEPT !.level = h.level + 1, !.work = Det!WorkFor(h.partition, h.unsplittable)]
  PROVE  /\ HierarchyInv(g, n)
         /\ \A i \in 1 .. Len(g.work) : g.work[i] \notin h.unsplittable
         /\ g.work = <<>> => Exhausted(h)
<1> DEFINE p == h.partition
           U == h.unsplittable
           W == {c \in Det!Clusters(p) \ U : /\ Len(Det!Members(p, c)) >= Det!MaxClusterSize
                                             /\ Len(Det!Members(p, c)) > 1}
<1>1. /\ h.partition \in [0 .. n - 1 -> 0 .. h.next - 1] /\ DOMAIN h = HierarchyFields
      /\ h.next \in Nat /\ n \in Nat \ {0} /\ h.level \in Nat /\ h.entries \subseteq Records(n, h.next)
      /\ \A e \in h.entries : e.level <= h.level
  BY DEF HierarchyInv, Placed, Nested
<1>2. Det!WorkFor(p, U) = Vec!Ascending(W)
  BY SameOperators DEF Det!WorkFor
<1>3. DOMAIN p = 0 .. n - 1 /\ DOMAIN p \in SUBSET Nat /\ IsFiniteSet(DOMAIN p)
  <2>1. IsFiniteSet(0 .. n - 1) /\ 0 .. n - 1 \in SUBSET Nat
    BY <1>1, IntervalCount
  <2>2. QED
    BY <1>1, <2>1
<1>4. \A c : Len(Det!Members(p, c)) = Cardinality(Cell(h, c))
  <2> TAKE c
  <2>1. Cell(h, c) = Where(p, c)
    BY DEF Cell, Where
  <2> HIDE DEF p
  <2>2. QED
    BY <1>3, <2>1, MembersList
<1>5. W \in SUBSET Nat /\ IsFiniteSet(W)
  <2>1. Det!Clusters(p) \subseteq 0 .. h.next - 1
    BY <1>1 DEF Det!Clusters
  <2>2. W \in SUBSET (0 .. h.next - 1)
    BY <2>1
  <2> HIDE DEF W
  <2>3. 0 .. h.next - 1 \in SUBSET Nat /\ IsFiniteSet(0 .. h.next - 1)
    BY <1>1, IntervalCount
  <2>4. IsFiniteSet(W)
    BY <2>2, <2>3, FS_Subset
  <2>5. QED
    BY <2>2, <2>3, <2>4
<1> DEFINE w == Vec!Ascending(W)
<1>6. /\ \A c \in W : Cardinality(Cell(h, c)) >= Det!MaxClusterSize /\ Cardinality(Cell(h, c)) > 1
  BY <1>4
<1>15. /\ \A c \in W : c \notin h.unsplittable
       /\ W = {} => Exhausted(h)
  <2>1. ASSUME W = {}, NEW c \in 0 .. h.next - 1, Cardinality(Cell(h, c)) >= Det!MaxClusterSize,
               Cardinality(Cell(h, c)) > 1, c \notin h.unsplittable
        PROVE  FALSE
    <3>1. Cell(h, c) # {}
      <4>1. Cardinality({}) = 0
        BY FS_EmptySet
      <4>2. Cell(h, c) = {} => Cardinality(Cell(h, c)) = 0
        BY <4>1
      <4>3. QED
        BY <2>1, <4>2
    <3>2. c \in Det!Clusters(p)
      BY <3>1 DEF Cell, Det!Clusters
    <3>3. Len(Det!Members(p, c)) = Cardinality(Cell(h, c))
      BY <1>4
    <3>4. c \in W
      BY <2>1, <3>2, <3>3
    <3>5. QED
      BY <2>1, <3>4
  <2>2. \A c \in W : c \notin h.unsplittable
    OBVIOUS
  <2> HIDE DEF W
  <2>3. QED
    BY <2>1, <2>2 DEF Exhausted
<1> HIDE DEF W, p, U
<1>7. w \in Seq(W) /\ Increasing(w) /\ Len(w) = Cardinality(W)
  BY <1>5, AscendingLists
<1> HIDE DEF w
<1>8. w \in Seq(Nat) /\ Distinct(w) /\ \A i \in 1 .. Len(w) : w[i] \in W
  <2>1. w \in Seq(Nat) /\ \A i \in 1 .. Len(w) : w[i] \in W
    BY <1>5, <1>7
  <2>2. QED
    BY <1>7, <2>1, IncreasingDistinct
<1>9. /\ DOMAIN g = HierarchyFields /\ g.entries = h.entries /\ g.partition = h.partition
      /\ g.next = h.next /\ g.level = h.level + 1 /\ g.work = w
  BY <1>1, <1>2 DEF HierarchyFields, p, U, w
<1>10. \A e \in h.entries : e.level < g.level
  <2> TAKE e \in h.entries
  <2>1. e \in Records(n, h.next) /\ e.level <= h.level
    BY <1>1
  <2>2. e.level \in Nat
    BY <2>1 DEF Records
  <2>3. QED
    BY <1>1, <1>9, <2>1, <2>2
<1>11. \A c : Cell(g, c) = Cell(h, c)
  BY <1>9 DEF Cell
<1>12. Queued(g)
  BY <1>6, <1>8, <1>9, <1>10, <1>11 DEF Queued
<1>13. g.level \in Nat /\ g.level >= h.level
  BY <1>1, <1>9
<1>14. HierarchyInv(g, n)
  BY <1>9, <1>12, <1>13, SameHierarchy
<1>16. w = <<>> => W = {}
  <2>1. w = <<>> => Cardinality(W) = 0
    BY <1>7
  <2>2. QED
    BY <1>5, <2>1, FS_EmptySet
<1>17. QED
  BY <1>8, <1>9, <1>14, <1>15, <1>16

\* Whatever the last run gave, the next one is of a cluster that is queued.
LEMMA ContinueKeeps ==
  ASSUME NEW h, NEW n, HierarchyInv(h, n), Judged(h), NetworkOver(Det!Whole, 0 .. n - 1),
         Det!Continue(h)
  PROVE  Waiting(hierarchy', run', n)
<1> DEFINE level == IF h.work = <<>> THEN h.level + 1 ELSE h.level
           work == IF h.work = <<>> THEN Det!WorkFor(h.partition, h.unsplittable) ELSE h.work
           list == Det!Members(h.partition, Head(work))
           g == [h EXCEPT !.level = level, !.work = work]
<1>1. IF work = <<>> THEN hierarchy' = h /\ run' = Det!Idle
      ELSE hierarchy' = g /\ run' = Det!NewRun(Len(list), Det!Induced(Det!Whole, list))
  BY DEF Det!Continue
<1>2. /\ DOMAIN h = HierarchyFields /\ h.partition \in [0 .. n - 1 -> 0 .. h.next - 1]
      /\ n \in Nat \ {0} /\ h.next \in Nat
  BY DEF HierarchyInv, Placed
<1>3. /\ HierarchyInv(g, n) /\ g.partition = h.partition /\ g.work = work
      /\ g.unsplittable = h.unsplittable
      /\ \A i \in 1 .. Len(work) : work[i] \notin h.unsplittable
      /\ work = <<>> => Exhausted(h)
  <2>1. g.partition = h.partition /\ g.work = work /\ g.unsplittable = h.unsplittable
    <3> HIDE DEF level, work
    <3>1. QED
      BY <1>2 DEF HierarchyFields
  <2>2. CASE h.work = <<>>
    <3>1. g = [h EXCEPT !.level = h.level + 1, !.work = Det!WorkFor(h.partition, h.unsplittable)]
      BY <2>2
    <3> HIDE DEF g
    <3>2. /\ HierarchyInv(g, n)
          /\ \A i \in 1 .. Len(g.work) : g.work[i] \notin h.unsplittable
          /\ g.work = <<>> => Exhausted(h)
      BY <3>1, QueuedNext
    <3> HIDE DEF work
    <3>3. QED
      BY <2>1, <3>2
  <2>3. CASE h.work # <<>>
    <3>1. g = [h EXCEPT !.level = h.level, !.work = h.work]
      BY <2>3
    <3> HIDE DEF g
    <3>2. /\ DOMAIN g = HierarchyFields /\ g.entries = h.entries /\ g.partition = h.partition
          /\ g.next = h.next /\ g.level = h.level /\ g.work = h.work
      BY <1>2, <3>1 DEF HierarchyFields
    <3>3. \A c : Cell(g, c) = Cell(h, c)
      BY <3>2 DEF Cell
    <3>4. Queued(g)
      BY <3>2, <3>3 DEF HierarchyInv, Queued
    <3>5. h.level \in Nat /\ g.level >= h.level
      BY <3>2 DEF HierarchyInv, Placed
    <3>6. HierarchyInv(g, n)
      BY <3>2, <3>4, <3>5, SameHierarchy
    <3>7. /\ \A i \in 1 .. Len(h.work) : h.work[i] \notin h.unsplittable
          /\ work = h.work
      BY <2>3 DEF Judged
    <3> HIDE DEF work
    <3>8. QED
      BY <2>1, <2>3, <3>6, <3>7
  <2>4. QED
    BY <2>2, <2>3
<1> HIDE DEF g, work
<1>4. CASE work = <<>>
  BY <1>1, <1>3, <1>4 DEF Waiting
<1>7. Judged(g)
  <2>1. \A c : Cell(g, c) = Cell(h, c)
    BY <1>3 DEF Cell
  <2>2. QED
    BY <1>3, <2>1 DEF Judged
<1>5. CASE work # <<>>
  <2>1. work \in Seq(Nat) /\ 1 \in 1 .. Len(work) /\ Head(work) = work[1]
        /\ Cardinality(Cell(g, work[1])) > 1
    <3>1. work \in Seq(Nat) /\ \A i \in 1 .. Len(work) : Cardinality(Cell(g, work[i])) > 1
      BY <1>3 DEF HierarchyInv, Queued
    <3>2. QED
      BY <1>5, <3>1
  <2>2. DOMAIN h.partition = 0 .. n - 1 /\ 0 .. n - 1 \in SUBSET Nat /\ IsFiniteSet(0 .. n - 1)
    BY <1>2, IntervalCount
  <2>3. /\ list \in Seq(Nat) /\ Distinct(list) /\ Len(list) \in Nat
        /\ Len(list) = Cardinality(Cell(g, Head(work)))
    <3> DEFINE p == h.partition
               c == Head(work)
    <3>1. DOMAIN p \in SUBSET Nat /\ IsFiniteSet(DOMAIN p)
      BY <2>2
    <3>2. Cell(g, c) = Where(p, c) /\ list = Det!Members(p, c)
      BY <1>3 DEF Cell, Where
    <3> HIDE DEF list, p, c
    <3>3. LET a == Det!Members(p, c) IN
            /\ a \in Seq(Nat) /\ Distinct(a) /\ Len(a) \in Nat
            /\ Len(a) = Cardinality(Cell(g, c))
      BY <3>1, <3>2, MembersList
    <3>4. QED
      BY <3>2, <3>3 DEF c
  <2> HIDE DEF list
  <2>4. Len(list) \in Nat \ {0}
    BY <2>1, <2>3
  <2>5. NetworkOver(Det!Induced(Det!Whole, list), 0 .. Len(list) - 1)
    BY <2>3, InducedOver
  <2>6. RunInv(Det!NewRun(Len(list), Det!Induced(Det!Whole, list)), Len(list))
    BY <2>4, <2>5, RunStarts
  <2>7. hierarchy' = g /\ run' = Det!NewRun(Len(list), Det!Induced(Det!Whole, list))
    BY <1>1, <1>5
  <2>8. list = Det!Members(hierarchy'.partition, Head(hierarchy'.work)) /\ hierarchy'.work # <<>>
    BY <1>3, <1>5, <2>7 DEF list
  <2>9. HierarchyInv(hierarchy', n) /\ Judged(hierarchy') /\ RunInv(run', Len(list))
    BY <1>3, <1>7, <2>6, <2>7
  <2>10. QED
    BY <2>8, <2>9 DEF Waiting
<1>6. QED
  BY <1>4, <1>5

LEMMA LastLevel ==
  ASSUME NEW n, RunInv(run, n), run.phase = "ended"
  PROVE  Det!Last(run.levels) \in Partitions(n) /\ n \in Nat \ {0}
<1> DEFINE L == Partitions(n)
<1>1. run.levels \in Seq(L) /\ run.levels # <<>> /\ n \in Nat \ {0}
  BY DEF RunInv, RunTyped
<1> HIDE DEF L
<1>2. Len(run.levels) \in 1 .. Len(run.levels)
  BY <1>1
<1>3. Det!Last(run.levels) = run.levels[Len(run.levels)]
  BY DEF Det!Last
<1>4. Det!Last(run.levels) \in L
  BY <1>1, <1>2, <1>3
<1>5. QED
  BY <1>1, <1>4 DEF L

\* The entries of the roots.
RootsOf(p) == {Det!Entry(u, p[u], 0, -1) : u \in DOMAIN p}
RootsListed(S, p, n) ==
  /\ \A e \in S : /\ e.node \in 0 .. n - 1 /\ e.cluster = p[e.node] /\ e.level = 0
                  /\ e.parent = -1 /\ e.final = TRUE
                  /\ e \in Records(n, Cardinality(Det!Clusters(p)))
  /\ \A u \in 0 .. n - 1 : \E e \in S : e.node = u /\ e.cluster = p[u]

LEMMA RootEntries ==
  ASSUME NEW n \in Nat \ {0}, NEW p \in Partitions(n)
  PROVE  RootsListed(RootsOf(p), p, n)
<1> DEFINE N == 0 .. n - 1
           K == Cardinality(Det!Clusters(p))
           entry == [u \in N |-> Det!Entry(u, p[u], 0, -1)]
<1>1. DOMAIN p = N /\ Det!Clusters(p) = 0 .. K - 1
  BY DEF Partitions, Numbered
<1>2. RootsOf(p) = {entry[u] : u \in N}
  BY <1>1 DEF RootsOf
<1>3. \A u \in N : p[u] \in 0 .. K - 1
  BY <1>1 DEF Det!Clusters
<1> HIDE DEF K
<1>4. ASSUME NEW u \in N
      PROVE  /\ entry[u].node = u /\ entry[u].cluster = p[u] /\ entry[u].level = 0
             /\ entry[u].parent = -1 /\ entry[u].final = TRUE /\ entry[u] \in Records(n, K)
  <2>1. entry[u] = [node |-> u, cluster |-> p[u], level |-> 0, parent |-> -1, final |-> TRUE]
    BY DEF Det!Entry
  <2>2. p[u] \in 0 .. K - 1
    BY <1>3
  <2> HIDE DEF entry
  <2>3. QED
    BY <2>1, <2>2 DEF Records
<1> DEFINE R == {entry[u] : u \in N}
<1> HIDE DEF entry
<1>5. ASSUME NEW e \in R
      PROVE  /\ e.node \in N /\ e.cluster = p[e.node] /\ e.level = 0 /\ e.parent = -1
             /\ e.final = TRUE /\ e \in Records(n, K)
  <2>1. PICK u \in N : e = entry[u]
    OBVIOUS
  <2>2. QED
    BY <1>4, <2>1
<1>6. ASSUME NEW u \in N PROVE \E e \in R : e.node = u /\ e.cluster = p[u]
  <2>1. entry[u] \in R
    OBVIOUS
  <2>2. QED
    BY <1>4, <2>1
<1>7. RootsOf(p) = R
  BY <1>2
<1> HIDE DEF R
<1>8. QED
  BY <1>5, <1>6, <1>7 DEF K, RootsListed

\* The clusters of the whole network are the roots.
LEMMA RootsAre ==
  ASSUME NEW n \in Nat \ {0}, NEW p \in Partitions(n),
         NEW h, DOMAIN h = HierarchyFields, h.partition = p,
         h.next = Cardinality(Det!Clusters(p)), h.level = 0, h.work = <<>>,
         RootsListed(h.entries, p, n)
  PROVE  HierarchyInv(h, n)
<1> DEFINE N == 0 .. n - 1
           K == Cardinality(Det!Clusters(p))
<1>1. p \in [N -> Nat] /\ DOMAIN p = N /\ Det!Clusters(p) = 0 .. K - 1 /\ IsFiniteSet(N)
  BY IntervalCount DEF Partitions, Numbered
<1>2. K \in Nat
  <2> DEFINE f == [u \in N |-> p[u]]
  <2>1. f \in Surjection(N, Det!Clusters(p))
    BY <1>1 DEF Surjection, Det!Clusters
  <2>2. IsFiniteSet(Det!Clusters(p))
    BY <1>1, <2>1, FS_Surjection
  <2>3. QED
    BY <2>2, FS_CardinalityType
<1>3. h.next = K
  OBVIOUS
<1>4. /\ \A u \in N : p[u] \in 0 .. K - 1
      /\ \A c \in 0 .. K - 1 : \E u \in N : p[u] = c
  BY <1>1 DEF Det!Clusters
<1>5. \A e \in h.entries : /\ e.node \in N /\ e.cluster = p[e.node] /\ e.level = 0 /\ e.parent = -1
                           /\ e.final = TRUE /\ e \in Records(n, K)
  BY DEF RootsListed
<1> HIDE DEF K
<1>6. Placed(h, n)
  <2>1. \A c \in 0 .. K - 1 : \E e \in h.entries : e.cluster = c
    BY <1>4 DEF RootsListed
  <2>2. h.partition \in [0 .. n - 1 -> 0 .. h.next - 1]
    BY <1>1, <1>3, <1>4
  <2>3. h.entries \subseteq Records(n, h.next)
    BY <1>3, <1>5
  <2>4. \A e, f \in h.entries : e.cluster = f.cluster =>
          e.level = f.level /\ e.parent = f.parent /\ e.final = f.final
    BY <1>5
  <2>5. QED
    BY <1>2, <1>3, <2>1, <2>2, <2>3, <2>4 DEF Placed
<1>7. Celled(h)
  BY <1>1, <1>5 DEF Celled, RootsListed
<1>8. Nested(h)
  <2>1. \A e \in h.entries : e.cluster # -1
    BY <1>1, <1>5
  <2>2. QED
    BY <1>5, <2>1 DEF Nested
<1>9. Divided(h)
  <2>1. ASSUME NEW c \in 0 .. K - 1, NEW d \in 0 .. K - 1, Listed(h, c) = Listed(h, d) PROVE c = d
    <3>1. PICK u \in N : p[u] = c
      BY <1>4
    <3>2. u \in Listed(h, c)
      BY <3>1 DEF Listed, RootsListed
    <3>3. u \in Listed(h, d)
      BY <2>1, <3>2
    <3>4. \E e \in h.entries : e.cluster = d /\ e.node = u
      BY <3>3 DEF Listed
    <3>5. QED
      BY <1>5, <3>1, <3>4
  <2>2. QED
    BY <1>3, <1>5, <2>1 DEF Divided
<1>10. Queued(h)
  BY DEF Queued, Distinct
<1>11. QED
  BY <1>6, <1>7, <1>8, <1>9, <1>10 DEF HierarchyInv

LEMMA RootKeeps ==
  ASSUME NEW n, RunInv(run, n), NetworkOver(Det!Whole, 0 .. n - 1), Det!Root
  PROVE  Waiting(hierarchy', run', n)
<1> DEFINE p == Det!Last(run.levels)
           h == [entries |-> {Det!Entry(u, p[u], 0, -1) : u \in DOMAIN p}, partition |-> p,
                 next |-> Cardinality(Det!Clusters(p)), unsplittable |-> {}, level |-> 0,
                 work |-> <<>>]
<1>1. Det!Continue(h)
  <2>1. Det!Continue([entries |-> {Det!Entry(u, p[u], 0, -1) : u \in DOMAIN p}, partition |-> p,
                      next |-> Det!Cardinality(Det!Clusters(p)), unsplittable |-> {}, level |-> 0,
                      work |-> <<>>])
    BY DEF Det!Root
  <2>2. Det!Cardinality(Det!Clusters(p)) = Cardinality(Det!Clusters(p))
    BY SameOperators
  <2> HIDE DEF p
  <2>3. QED
    BY <2>1, <2>2
<1>2. p \in Partitions(n) /\ n \in Nat \ {0}
  BY LastLevel DEF Det!Root
<1> HIDE DEF p
<1>3. /\ DOMAIN h = HierarchyFields /\ h.entries = {Det!Entry(u, p[u], 0, -1) : u \in DOMAIN p}
      /\ h.partition = p /\ h.next = Cardinality(Det!Clusters(p)) /\ h.level = 0 /\ h.work = <<>>
      /\ h.unsplittable = {}
  BY DEF HierarchyFields
<1> HIDE DEF h
<1>7. Judged(h)
  BY <1>3 DEF Judged
<1>4. RootsListed(h.entries, p, n)
  BY <1>2, <1>3, RootEntries DEF RootsOf
<1>5. HierarchyInv(h, n)
  BY <1>2, <1>3, <1>4, RootsAre
<1>6. QED
  BY <1>1, <1>5, <1>7, ContinueKeeps

\* The rest of a queue.
LEMMA TailQueued ==
  ASSUME NEW h, NEW n, HierarchyInv(h, n), h.work # <<>>,
         NEW g, DOMAIN g = HierarchyFields, g.entries = h.entries, g.partition = h.partition,
         g.next = h.next, g.level = h.level, g.work = Tail(h.work)
  PROVE  /\ HierarchyInv(g, n)
         /\ \A i \in 1 .. Len(g.work) : g.work[i] # Head(h.work)
         /\ Cardinality(Cell(g, Head(h.work))) >= Det!MaxClusterSize
         /\ Cardinality(Cell(g, Head(h.work))) > 1
         /\ \A e \in g.entries : e.cluster = Head(h.work) => e.level < g.level
<1> DEFINE w == h.work
<1>1. /\ w \in Seq(Nat) /\ Distinct(w) /\ w # <<>>
      /\ \A i \in 1 .. Len(w) :
           /\ Cardinality(Cell(h, w[i])) >= Det!MaxClusterSize
           /\ Cardinality(Cell(h, w[i])) > 1
           /\ \A e \in h.entries : e.cluster = w[i] => e.level < h.level
  BY DEF HierarchyInv, Queued
<1> HIDE DEF w
<1>2. /\ Head(w) = w[1] /\ Tail(w) \in Seq(Nat) /\ Len(Tail(w)) = Len(w) - 1 /\ Len(w) \in Nat
      /\ \A i \in 1 .. Len(Tail(w)) : Tail(w)[i] = w[i + 1] /\ i + 1 \in 1 .. Len(w)
      /\ 1 \in 1 .. Len(w)
  BY <1>1
<1>3. \A c : Cell(g, c) = Cell(h, c)
  BY DEF Cell
<1>4. g.work = Tail(w) /\ h.work = w
  BY DEF w
<1>5. Distinct(Tail(w)) /\ \A i \in 1 .. Len(Tail(w)) : Tail(w)[i] # w[1]
  <2>1. ASSUME NEW i \in 1 .. Len(Tail(w)), NEW j \in 1 .. Len(Tail(w)), Tail(w)[i] = Tail(w)[j]
        PROVE  i = j
    <3>1. i + 1 = j + 1
      BY <1>1, <1>2, <2>1 DEF Distinct
    <3>2. QED
      BY <3>1
  <2>2. ASSUME NEW i \in 1 .. Len(Tail(w)) PROVE Tail(w)[i] # w[1]
    <3>1. i + 1 # 1
      BY <1>2
    <3>2. QED
      BY <1>1, <1>2, <3>1 DEF Distinct
  <2>3. QED
    BY <2>1, <2>2 DEF Distinct
<1>6. Queued(g)
  <2>1. ASSUME NEW i \in 1 .. Len(Tail(w))
        PROVE  /\ Cardinality(Cell(h, Tail(w)[i])) >= Det!MaxClusterSize
               /\ Cardinality(Cell(h, Tail(w)[i])) > 1
               /\ \A e \in h.entries : e.cluster = Tail(w)[i] => e.level < h.level
    BY <1>1, <1>2
  <2>2. QED
    BY <1>2, <1>3, <1>4, <1>5, <2>1 DEF Queued
<1>7. h.level \in Nat
  BY DEF HierarchyInv, Placed
<1>8. HierarchyInv(g, n)
  BY <1>6, <1>7, SameHierarchy
<1>9. QED
  BY <1>1, <1>2, <1>3, <1>4, <1>5, <1>8

\* The parts that a run gives the members of a cluster, by member.
BlockOf(C, list, p) == [u \in C |-> p[(CHOOSE i \in DOMAIN list : list[i] = u) - 1]]

LEMMA PartsOf ==
  ASSUME NEW C, NEW list \in Seq(C), Distinct(list), \A u \in C : \E i \in 1 .. Len(list) : list[i] = u,
         NEW p \in Partitions(Len(list))
  PROVE  LET count == Cardinality(Det!Clusters(p))
             block == BlockOf(C, list, p)
         IN
           /\ block \in [C -> 0 .. count - 1]
           /\ \A j \in 0 .. count - 1 : \E u \in C : block[u] = j
           /\ \A i \in 1 .. Len(list) : block[list[i]] = p[i - 1]
<1> DEFINE m == Len(list)
           block == BlockOf(C, list, p)
           K == Cardinality(Det!Clusters(p))
           at == [u \in C |-> CHOOSE i \in 1 .. m : list[i] = u]
<1>1. m \in Nat /\ DOMAIN list = 1 .. m
  OBVIOUS
<1>2. \A u \in C : block[u] = p[at[u] - 1]
  BY <1>1 DEF BlockOf
<1>3. \A i \in 1 .. m : list[i] \in C
  OBVIOUS
<1>4. \A u \in C : at[u] \in 1 .. m /\ list[at[u]] = u
  OBVIOUS
<1> HIDE DEF at
<1>5. \A i \in 1 .. m : at[list[i]] = i
  BY <1>3, <1>4 DEF Distinct
<1>6. p \in [0 .. m - 1 -> Nat] /\ Det!Clusters(p) = 0 .. K - 1
  BY DEF Partitions, Numbered
<1> HIDE DEF m, K
<1>7. \A k \in 0 .. m - 1 : p[k] \in 0 .. K - 1
  BY <1>6 DEF Det!Clusters
<1>8. \A j \in 0 .. K - 1 : \E k \in 0 .. m - 1 : p[k] = j
  BY <1>6 DEF Det!Clusters
<1>9. \A i \in 1 .. m : block[list[i]] = p[i - 1]
  BY <1>2, <1>3, <1>5
<1>10. ASSUME NEW j \in 0 .. K - 1 PROVE \E u \in C : block[u] = j
  <2>1. PICK k \in 0 .. m - 1 : p[k] = j
    BY <1>8
  <2>2. k + 1 \in 1 .. m /\ (k + 1) - 1 = k
    BY <1>1
  <2>3. block[list[k + 1]] = p[k] /\ list[k + 1] \in C
    BY <1>3, <1>9, <2>2
  <2>4. QED
    BY <2>1, <2>3
<1>11. \A u \in C : block[u] \in 0 .. K - 1
  <2> TAKE u \in C
  <2>1. at[u] - 1 \in 0 .. m - 1
    BY <1>1, <1>4
  <2>2. QED
    BY <1>2, <1>7, <2>1
<1>12. block = [u \in C |-> block[u]]
  BY DEF BlockOf
<1>13. block \in [C -> 0 .. K - 1]
  BY <1>11, <1>12
<1>14. QED
  BY <1>9, <1>10, <1>13 DEF K, m

\* Split's hierarchy g, where p is the partition of the members list of item.
Splits(h, g, item, list, p) ==
  /\ DOMAIN g = HierarchyFields /\ g.level = h.level /\ g.work = h.work
  /\ g.next = h.next + Cardinality(Det!Clusters(p))
  /\ g.partition = [u \in DOMAIN h.partition |->
                      IF h.partition[u] = item
                      THEN h.next + p[(CHOOSE i \in DOMAIN list : list[i] = u) - 1]
                      ELSE h.partition[u]]
  /\ g.entries = {IF e.cluster = item THEN [e EXCEPT !.final = FALSE] ELSE e : e \in h.entries}
                 \cup {Det!Entry(list[i], h.next + p[i - 1], h.level, item) : i \in DOMAIN list}

\* The parts of a run replace the cluster that it was about.
LEMMA SplitDivides ==
  ASSUME NEW h, NEW n, HierarchyInv(h, n), NEW item,
         NEW list, list = Det!Members(h.partition, item),
         NEW p \in Partitions(Len(list)), NEW count, count = Cardinality(Det!Clusters(p)),
         NEW g, Splits(h, g, item, list, p)
  PROVE  \E block \in [Cell(h, item) -> 0 .. count - 1] :
           /\ \A j \in 0 .. count - 1 : \E u \in Cell(h, item) : block[u] = j
           /\ Divides(h, g, item, count, block)
<1> DEFINE C == Cell(h, item)
           block == BlockOf(C, list, p)
<1>1. /\ list \in Seq(C) /\ Distinct(list) /\ \A u \in C : \E i \in 1 .. Len(list) : list[i] = u
  <2> DEFINE q == h.partition
  <2>1. DOMAIN q \in SUBSET Nat /\ IsFiniteSet(DOMAIN q)
    <3>1. DOMAIN q = 0 .. n - 1 /\ n \in Nat
      BY DEF HierarchyInv, Placed
    <3>2. IsFiniteSet(0 .. n - 1) /\ 0 .. n - 1 \in SUBSET Nat
      BY <3>1, IntervalCount
    <3>3. QED
      BY <3>1, <3>2
  <2>2. C = Where(q, item)
    BY DEF Cell, Where
  <2> HIDE DEF q, C
  <2>3. LET a == Det!Members(q, item) IN
          /\ a \in Seq(Where(q, item)) /\ Distinct(a)
          /\ \A u \in Where(q, item) : \E i \in 1 .. Len(a) : a[i] = u
    BY <2>1, MembersList
  <2>4. QED
    BY <2>2, <2>3 DEF q
<1>2. /\ block \in [C -> 0 .. count - 1]
      /\ \A j \in 0 .. count - 1 : \E u \in C : block[u] = j
      /\ \A i \in 1 .. Len(list) : block[list[i]] = p[i - 1]
  <2> HIDE DEF C
  <2>1. QED
    BY <1>1, PartsOf
<1>3. \A i \in 1 .. Len(list) : list[i] \in C
  BY <1>1
<1>4. g.partition = [u \in DOMAIN h.partition |->
                       IF h.partition[u] = item THEN h.next + block[u] ELSE h.partition[u]]
  <2> DEFINE at == [u \in DOMAIN h.partition |-> p[(CHOOSE i \in DOMAIN list : list[i] = u) - 1]]
  <2>1. \A u \in DOMAIN h.partition : h.partition[u] = item => block[u] = at[u]
    BY DEF Cell, BlockOf
  <2>2. g.partition = [u \in DOMAIN h.partition |->
                         IF h.partition[u] = item THEN h.next + at[u] ELSE h.partition[u]]
    BY DEF Splits
  <2> HIDE DEF block, at
  <2>3. QED
    BY <2>1, <2>2
<1>5. {Det!Entry(list[i], h.next + p[i - 1], h.level, item) : i \in DOMAIN list}
        = {Det!Entry(u, h.next + block[u], h.level, item) : u \in C}
  <2>1. DOMAIN list = 1 .. Len(list)
    BY <1>1
  <2> DEFINE f == [i \in 1 .. Len(list) |-> Det!Entry(list[i], h.next + p[i - 1], h.level, item)]
             e == [u \in C |-> Det!Entry(u, h.next + block[u], h.level, item)]
  <2>2. \A i \in 1 .. Len(list) : f[i] = e[list[i]]
    <3> HIDE DEF block, C
    <3>1. QED
      BY <1>2, <1>3
  <2>3. {f[i] : i \in 1 .. Len(list)} = {e[u] : u \in C}
    <3> HIDE DEF f, e, C, block
    <3>1. QED
      BY <1>1, <1>3, <2>2
  <2>4. {f[i] : i \in 1 .. Len(list)}
          = {Det!Entry(list[i], h.next + p[i - 1], h.level, item) : i \in DOMAIN list}
    BY <2>1
  <2>5. {e[u] : u \in C} = {Det!Entry(u, h.next + block[u], h.level, item) : u \in C}
    <3> HIDE DEF block, C
    <3>1. QED
      OBVIOUS
  <2> HIDE DEF f, e, block, C
  <2>6. QED
    BY <2>3, <2>4, <2>5
<1> HIDE DEF block
<1>6. Divides(h, g, item, count, block)
  BY <1>4, <1>5 DEF Divides, Splits
<1>7. QED
  BY <1>2, <1>6

\* Dividing a cluster leaves the other cells as they are.
LEMMA OtherCells ==
  ASSUME NEW h, NEW n, HierarchyInv(h, n), NEW item, NEW count \in Nat,
         NEW block \in [Cell(h, item) -> 0 .. count - 1],
         NEW g, Divides(h, g, item, count, block),
         NEW c, c # item, Cell(h, c) # {}
  PROVE  Cell(g, c) = Cell(h, c)
<1>1. g.partition = [u \in DOMAIN h.partition |->
                       IF h.partition[u] = item THEN h.next + block[u] ELSE h.partition[u]]
  BY DEF Divides
<1>2. \A u \in DOMAIN h.partition : h.partition[u] = item => block[u] \in 0 .. count - 1
  BY DEF Cell
<1>3. h.next \in Nat /\ c \in 0 .. h.next - 1
  BY CellListed DEF HierarchyInv, Placed
<1>4. \A u \in DOMAIN h.partition : g.partition[u] = c <=> h.partition[u] = c
  BY <1>1, <1>2, <1>3
<1>5. QED
  BY <1>1, <1>4 DEF Cell

\* Splitting the next cluster, or finding that it is one part.
LEMMA SplitKeeps ==
  ASSUME NEW n, Waiting(hierarchy, run, n), NetworkOver(Det!Whole, 0 .. n - 1), Det!Split
  PROVE  Waiting(hierarchy', run', n)
<1> DEFINE k == hierarchy
           h == [hierarchy EXCEPT !.work = Tail(hierarchy.work)]
           item == Head(hierarchy.work)
           list == Det!Members(h.partition, item)
           p == Det!Last(run.levels)
           count == Cardinality(Det!Clusters(p))
           g == [h EXCEPT
                  !.entries = {IF e.cluster = item THEN [e EXCEPT !.final = FALSE] ELSE e : e \in h.entries}
                              \cup {Det!Entry(list[i], h.next + p[i - 1], h.level, item) : i \in DOMAIN list},
                  !.partition = [u \in DOMAIN h.partition |->
                     IF h.partition[u] = item
                     THEN h.next + p[(CHOOSE i \in DOMAIN list : list[i] = u) - 1]
                     ELSE h.partition[u]],
                  !.next = h.next + count]
           whole == [h EXCEPT !.unsplittable = h.unsplittable \cup {item}]
<1>1. IF count = 1 THEN Det!Continue(whole) ELSE Det!Continue(g)
  <2>1. Det!Cardinality(Det!Clusters(p)) = count
    BY SameOperators
  <2>2. IF Det!Cardinality(Det!Clusters(p)) = 1 THEN Det!Continue(whole)
        ELSE Det!Continue([h EXCEPT
                  !.entries = {IF e.cluster = item THEN [e EXCEPT !.final = FALSE] ELSE e : e \in h.entries}
                              \cup {Det!Entry(list[i], h.next + p[i - 1], h.level, item) : i \in DOMAIN list},
                  !.partition = [u \in DOMAIN h.partition |->
                     IF h.partition[u] = item
                     THEN h.next + p[(CHOOSE i \in DOMAIN list : list[i] = u) - 1]
                     ELSE h.partition[u]],
                  !.next = h.next + Det!Cardinality(Det!Clusters(p))])
    BY DEF Det!Split
  <2> HIDE DEF h, item, list, p, count
  <2>3. QED
    BY <2>1, <2>2
<1>2. HierarchyInv(k, n) /\ Judged(k) /\ k.work # <<>> /\ RunInv(run, Len(Det!Members(k.partition, item)))
  <2>1. run.phase = "ended"
    BY DEF Det!Split
  <2>2. Det!Idle.phase = "idle"
    BY DEF Det!Idle
  <2>3. QED
    BY <2>1, <2>2 DEF Waiting
<1>3. DOMAIN k = HierarchyFields
  BY <1>2 DEF HierarchyInv, Placed
<1>4. /\ DOMAIN h = HierarchyFields /\ h.entries = k.entries /\ h.partition = k.partition
      /\ h.next = k.next /\ h.level = k.level /\ h.work = Tail(k.work)
      /\ h.unsplittable = k.unsplittable
  BY <1>3 DEF HierarchyFields
<1>5. item = Head(k.work)
  OBVIOUS
<1> HIDE DEF k, h, item, g
<1>6. /\ HierarchyInv(h, n)
      /\ \A i \in 1 .. Len(h.work) : h.work[i] # item
      /\ Cardinality(Cell(h, item)) >= Det!MaxClusterSize
      /\ Cardinality(Cell(h, item)) > 1
      /\ \A e \in h.entries : e.cluster = item => e.level < h.level
  BY <1>2, <1>4, <1>5, TailQueued
<1>12. Judged(h) /\ item \notin h.unsplittable /\ Cell(h, item) # {}
  <2>1. \A c : Cell(h, c) = Cell(k, c)
    BY <1>4 DEF Cell
  <2>2. k.work \in Seq(Nat) /\ k.work # <<>> /\ Judged(k)
    BY <1>2 DEF HierarchyInv, Queued
  <2>3. /\ item = k.work[1] /\ 1 \in 1 .. Len(k.work)
        /\ \A i \in 1 .. Len(h.work) : h.work[i] = k.work[i + 1] /\ i + 1 \in 1 .. Len(k.work)
    BY <1>4, <1>5, <2>2
  <2>4. Cell(h, item) = {} => Cardinality(Cell(h, item)) = 0
    BY FS_EmptySet
  <2>5. Cell(h, item) # {}
    BY <1>6, <2>4
  <2>6. h.unsplittable = k.unsplittable
    BY <1>4
  <2>7. QED
    BY <2>1, <2>2, <2>3, <2>5, <2>6 DEF Judged
<1>7. p \in Partitions(Len(list)) /\ Len(list) \in Nat \ {0}
  <2>1. list = Det!Members(k.partition, item)
    BY <1>4
  <2>2. RunInv(run, Len(list)) /\ run.phase = "ended"
    BY <1>2, <2>1 DEF Det!Split
  <2> HIDE DEF list
  <2>3. QED
    BY <2>2, LastLevel
<1> HIDE DEF list, p
<1>8. count \in Nat /\ count > 0
  <2> DEFINE N == 0 .. Len(list) - 1
             f == [u \in N |-> p[u]]
  <2>1. p \in [N -> Nat] /\ DOMAIN p = N /\ IsFiniteSet(N) /\ 0 \in N
    BY <1>7, IntervalCount DEF Partitions
  <2> HIDE DEF N
  <2>2. f \in Surjection(N, Det!Clusters(p))
    BY <2>1 DEF Surjection, Det!Clusters
  <2>3. IsFiniteSet(Det!Clusters(p)) /\ Det!Clusters(p) # {}
    BY <2>1, <2>2, FS_Surjection DEF Det!Clusters
  <2>4. QED
    BY <2>3, FS_CardinalityType, FS_EmptySet
<1>9. CASE count = 1
  <2>1. /\ DOMAIN whole = HierarchyFields /\ whole.entries = h.entries
        /\ whole.partition = h.partition /\ whole.next = h.next /\ whole.level = h.level
        /\ whole.work = h.work /\ whole.unsplittable = h.unsplittable \cup {item}
    BY <1>4 DEF HierarchyFields
  <2>2. Det!Continue(whole)
    BY <1>1, <1>9
  <2> HIDE DEF whole
  <2>3. \A c : Cell(whole, c) = Cell(h, c)
    BY <2>1 DEF Cell
  <2>4. Queued(whole)
    BY <1>6, <2>1, <2>3 DEF HierarchyInv, Queued
  <2>5. whole.level \in Nat /\ whole.level >= h.level
    BY <1>6, <2>1 DEF HierarchyInv, Placed
  <2>6. HierarchyInv(whole, n)
    BY <1>6, <2>1, <2>4, <2>5, SameHierarchy
  <2>7. Judged(whole)
    BY <1>6, <1>12, <2>1, <2>3 DEF Judged
  <2>8. QED
    BY <2>2, <2>6, <2>7, ContinueKeeps
<1>10. CASE count # 1
  <2>1. Det!Continue(g)
    BY <1>1, <1>10
  <2>2. Splits(h, g, item, list, p)
    BY <1>4 DEF g, HierarchyFields, Splits
  <2>3. list = Det!Members(h.partition, item)
    BY DEF list
  <2>4. PICK block \in [Cell(h, item) -> 0 .. count - 1] :
          /\ \A j \in 0 .. count - 1 : \E u \in Cell(h, item) : block[u] = j
          /\ Divides(h, g, item, count, block)
    BY <1>6, <1>7, <2>2, <2>3, SplitDivides
  <2>5. Cell(h, item) # {} /\ count > 1
    <3>1. Cell(h, item) = {} => Cardinality(Cell(h, item)) = 0
      BY FS_EmptySet
    <3>2. QED
      BY <1>6, <1>8, <1>10, <3>1
  <2> HIDE DEF count
  <2>6. HierarchyInv(g, n)
    BY <1>6, <1>8, <2>4, <2>5, DivideKeeps
  <2>7. g.work = h.work /\ g.unsplittable = h.unsplittable
    BY <1>4 DEF g, HierarchyFields
  <2>8. \A c : c # item /\ Cell(h, c) # {} => Cell(g, c) = Cell(h, c)
    BY <1>6, <1>8, <2>4, OtherCells
  <2>9. Judged(g)
    BY <1>12, <2>7, <2>8 DEF Judged
  <2>10. QED
    BY <2>1, <2>6, <2>9, ContinueKeeps
<1>11. QED
  BY <1>9, <1>10

-----------------------------------------------------------------------------
(* The CommunitySet *)

\* The names of the nodes that a cluster's entries list.
Named(h, s, c) == {s[u + 1] : u \in Listed(h, c)}

\* A Community and an entry of its cluster.
Tells(x, e, named) ==
  /\ x.number = e.cluster /\ x.level = e.level /\ x.parent = e.parent /\ x.final = e.final
  /\ x.members = named
  /\ x.unsplittable = (e.final /\ Cardinality(named) >= Det!MaxClusterSize)

\* Every cluster is one Community.
Collects(set, h, s) ==
  /\ \A x \in set : \E e \in h.entries : Tells(x, e, Named(h, s, e.cluster))
  /\ \A e \in h.entries : \E x \in set : Tells(x, e, Named(h, s, e.cluster))
  /\ \A x, y \in set : x.number = y.number => x = y

LEMMA CollectedOf ==
  ASSUME NEW n, HierarchyInv(hierarchy, n)
  PROVE  Collects(Det!Collected, hierarchy, Det!Nodes)
<1> DEFINE h == hierarchy
           s == Det!Nodes
           Key(e) == [number |-> e.cluster, level |-> e.level, parent |-> e.parent, final |-> e.final]
           Of(key) == {s[e.node + 1] : e \in {e \in h.entries : Key(e) = key}}
           Made(key) == [number |-> key.number, level |-> key.level, parent |-> key.parent,
                         final |-> key.final, members |-> Of(key),
                         unsplittable |-> key.final /\ Det!Cardinality(Of(key)) >= Det!MaxClusterSize]
           C == Det!Collected
<1>1. C = {Made(key) : key \in {Key(e) : e \in h.entries}}
  BY DEF Det!Collected
<1>2. \A e, f \in h.entries : e.cluster = f.cluster =>
        e.level = f.level /\ e.parent = f.parent /\ e.final = f.final
  BY DEF HierarchyInv, Placed
<1>3. \A e, f : /\ Key(e) = Key(f) => e.cluster = f.cluster
                /\ (e \in h.entries /\ f \in h.entries /\ e.cluster = f.cluster) => Key(e) = Key(f)
  BY <1>2
<1>4. \A e : /\ Key(e).number = e.cluster /\ Key(e).level = e.level /\ Key(e).parent = e.parent
             /\ Key(e).final = e.final
  OBVIOUS
<1>5. \A key : /\ Made(key).number = key.number /\ Made(key).level = key.level
               /\ Made(key).parent = key.parent /\ Made(key).final = key.final
               /\ Made(key).members = Of(key)
               /\ Made(key).unsplittable = (key.final /\ Det!Cardinality(Of(key)) >= Det!MaxClusterSize)
  OBVIOUS
<1> HIDE DEF C, Made
<1>6. ASSUME NEW e \in h.entries PROVE Tells(Made(Key(e)), e, Named(h, s, e.cluster))
  <2>1. \A f \in h.entries : Key(f) = Key(e) <=> f.cluster = e.cluster
    BY <1>3
  <2>2. Of(Key(e)) = {s[f.node + 1] : f \in {f \in h.entries : Key(f) = Key(e)}}
    OBVIOUS
  <2> HIDE DEF Of, Key, h, s
  <2>3. {f \in h.entries : Key(f) = Key(e)} = {f \in h.entries : f.cluster = e.cluster}
    BY <2>1
  <2>4. Of(Key(e)) = Named(h, s, e.cluster)
    BY <2>2, <2>3 DEF Named, Listed
  <2>5. Det!Cardinality(Of(Key(e))) = Cardinality(Named(h, s, e.cluster))
    BY <2>4, SameOperators
  <2> DEFINE k == Key(e)
             x == Made(k)
  <2>6. /\ x.number = k.number /\ x.level = k.level /\ x.parent = k.parent /\ x.final = k.final
        /\ x.members = Of(k) /\ x.unsplittable = (k.final /\ Det!Cardinality(Of(k)) >= Det!MaxClusterSize)
    BY <1>5
  <2>7. /\ k.number = e.cluster /\ k.level = e.level /\ k.parent = e.parent /\ k.final = e.final
    BY <1>4
  <2> HIDE DEF k
  <2>8. x.unsplittable = (e.final /\ Cardinality(Named(h, s, e.cluster)) >= Det!MaxClusterSize)
    BY <2>4, <2>5, <2>6, <2>7 DEF k
  <2>9. x.members = Named(h, s, e.cluster)
    BY <2>4, <2>6 DEF k
  <2> HIDE DEF x
  <2>10. Tells(x, e, Named(h, s, e.cluster))
    BY <2>6, <2>7, <2>8, <2>9 DEF Tells
  <2>11. QED
    BY <2>10 DEF x, k
<1>7. ASSUME NEW x \in C PROVE \E e \in h.entries : x = Made(Key(e))
  BY <1>1
<1>8. ASSUME NEW e \in h.entries PROVE Made(Key(e)) \in C
  BY <1>1
<1>9. ASSUME NEW x \in C, NEW y \in C, x.number = y.number PROVE x = y
  <2>1. PICK e \in h.entries : x = Made(Key(e))
    BY <1>7
  <2>2. PICK f \in h.entries : y = Made(Key(f))
    BY <1>7
  <2>3. e.cluster = f.cluster
    BY <1>6, <1>9, <2>1, <2>2 DEF Tells
  <2>4. Key(e) = Key(f)
    BY <1>3, <2>3
  <2> HIDE DEF Key
  <2>5. QED
    BY <2>1, <2>2, <2>4
<1> HIDE DEF Key, Of
<1>10. QED
  BY <1>6, <1>7, <1>8, <1>9 DEF Collects, C, h, s

\* What the Communities of a hierarchy are, by their numbers.
LEMMA NamedApart ==
  ASSUME NEW n, NEW h, HierarchyInv(h, n), NEW s \in Seq(Nat), Len(s) = n, Distinct(s)
  PROVE  /\ \A c, d \in 0 .. h.next - 1 : Named(h, s, c) = Named(h, s, d) => c = d
         /\ \A c \in 0 .. h.next - 1 :
              /\ Named(h, s, c) # {} /\ Cardinality(Named(h, s, c)) = Cardinality(Listed(h, c))
              /\ Named(h, s, c) \subseteq {s[i] : i \in 1 .. n}
              /\ \A u \in 0 .. n - 1 : s[u + 1] \in Named(h, s, c) => u \in Listed(h, c)
<1>1. /\ n \in Nat \ {0} /\ h.next \in Nat /\ h.entries \subseteq Records(n, h.next)
      /\ \A c \in 0 .. h.next - 1 : \E e \in h.entries : e.cluster = c
      /\ \A c, d \in 0 .. h.next - 1 : Listed(h, c) = Listed(h, d) => c = d
  BY DEF HierarchyInv, Placed, Divided
<1>2. ASSUME NEW c PROVE Listed(h, c) \subseteq 0 .. n - 1
  BY <1>1 DEF Listed, Records
<1>3. \A u, v \in 0 .. n - 1 : s[u + 1] = s[v + 1] => u = v
  <2> SUFFICES ASSUME NEW u \in 0 .. n - 1, NEW v \in 0 .. n - 1, s[u + 1] = s[v + 1] PROVE u = v
    OBVIOUS
  <2>1. u + 1 \in 1 .. Len(s) /\ v + 1 \in 1 .. Len(s)
    BY <1>1
  <2>2. u + 1 = v + 1
    BY <2>1 DEF Distinct
  <2>3. QED
    BY <1>1, <2>2
<1>4. ASSUME NEW c, NEW u \in 0 .. n - 1, s[u + 1] \in Named(h, s, c) PROVE u \in Listed(h, c)
  <2>1. PICK v \in Listed(h, c) : s[u + 1] = s[v + 1]
    BY <1>4 DEF Named
  <2>2. QED
    BY <1>2, <1>3, <2>1
<1>5. ASSUME NEW c \in 0 .. h.next - 1, NEW d \in 0 .. h.next - 1, Named(h, s, c) = Named(h, s, d)
      PROVE  c = d
  <2>1. \A u \in Listed(h, c) : s[u + 1] \in Named(h, s, c)
    BY DEF Named
  <2>2. \A u \in Listed(h, d) : s[u + 1] \in Named(h, s, d)
    BY DEF Named
  <2>3. Listed(h, c) \subseteq Listed(h, d)
    BY <1>2, <1>4, <1>5, <2>1
  <2>4. Listed(h, d) \subseteq Listed(h, c)
    BY <1>2, <1>4, <1>5, <2>2
  <2>5. Listed(h, c) = Listed(h, d)
    BY <2>3, <2>4
  <2>6. QED
    BY <1>1, <2>5
<1>6. ASSUME NEW c \in 0 .. h.next - 1
      PROVE  Named(h, s, c) # {} /\ Named(h, s, c) \subseteq {s[i] : i \in 1 .. n}
  <2>1. PICK e \in h.entries : e.cluster = c
    BY <1>1
  <2>2. e.node \in Listed(h, c)
    BY <2>1 DEF Listed
  <2>3. \A u \in Listed(h, c) : u + 1 \in 1 .. n
    BY <1>1, <1>2
  <2>4. QED
    BY <2>2, <2>3 DEF Named
<1>7. ASSUME NEW c \in 0 .. h.next - 1 PROVE Cardinality(Named(h, s, c)) = Cardinality(Listed(h, c))
  <2> DEFINE L == Listed(h, c)
             f == [u \in L |-> s[u + 1]]
  <2>1. IsFiniteSet(L)
    <3>1. IsFiniteSet(0 .. n - 1)
      BY <1>1, IntervalCount
    <3>2. L \in SUBSET (0 .. n - 1)
      BY <1>2
    <3>3. QED
      BY <3>1, <3>2, FS_Subset
  <2>2. Named(h, s, c) = {f[u] : u \in L}
    BY DEF Named
  <2>3. \A u, v \in L : f[u] = f[v] => u = v
    BY <1>2, <1>3
  <2> HIDE DEF L
  <2>4. f \in Bijection(L, {f[u] : u \in L})
    BY <2>3 DEF Bijection, Injection, Surjection, IsInjective
  <2>5. QED
    BY <2>1, <2>2, <2>4, FS_Bijection DEF ExistsBijection, L
<1>8. QED
  BY <1>4, <1>5, <1>6, <1>7

\* UnsplittableMeant of a CommunitySet and what was found to be one part.
Meant(set, whole) == \A c \in set :
  /\ c.unsplittable <=> \/ c.number \in whole
                        \/ Det!MaxClusterSize = 1 /\ c.final /\ Cardinality(c.members) = 1
  /\ ~c.final => Cardinality(c.members) >= Det!MaxClusterSize

LEMMA CommunitiesValid ==
  ASSUME relations \in Projections, NEW n, NEW h, HierarchyInv(h, n), Judged(h), Exhausted(h),
         NEW s \in Seq(Nat), Len(s) = n, Distinct(s), NEW set, Collects(set, h, s)
  PROVE  /\ Det!ValidHierarchy(set) /\ Meant(set, h.unsplittable)
         /\ {c.number : c \in set} = 0 .. Det!Cardinality(set) - 1
         /\ \A c, d \in set : c.members = d.members => c = d
         /\ \A c \in set : c.members \subseteq {s[i] : i \in 1 .. n}
<1> DEFINE E == h.entries
           Clusters == 0 .. h.next - 1
           named == [c \in Clusters |-> Named(h, s, c)]
<1>1. /\ n \in Nat \ {0} /\ h.next \in Nat /\ E \subseteq Records(n, h.next)
      /\ h.partition \in [0 .. n - 1 -> Clusters] /\ DOMAIN h.partition = 0 .. n - 1
      /\ \A c \in Clusters : \E e \in E : e.cluster = c
      /\ \A e, f \in E : e.cluster = f.cluster => e.level = f.level /\ e.parent = f.parent /\ e.final = f.final
  BY DEF HierarchyInv, Placed
<1>2. /\ \A e \in E : e.final <=> h.partition[e.node] = e.cluster
      /\ \A u \in DOMAIN h.partition : \E e \in E : e.node = u /\ e.cluster = h.partition[u]
      /\ \A e \in E : \A v \in DOMAIN h.partition :
           h.partition[v] = h.partition[e.node] => \E f \in E : f.node = v /\ f.cluster = e.cluster
  BY DEF HierarchyInv, Celled
<1>3. /\ \A e \in E : IF e.level = 0 THEN e.parent = -1
           ELSE \E f \in E : f.node = e.node /\ f.cluster = e.parent /\ f.level < e.level
      /\ \A e \in E : e.final <=> ~\E f \in E : f.parent = e.cluster
  BY DEF HierarchyInv, Nested
<1>4. \A e \in E : ~e.final => Cardinality(Listed(h, e.cluster)) >= Det!MaxClusterSize
  BY DEF HierarchyInv, Divided
<1>5. /\ \A c, d \in Clusters : named[c] = named[d] => c = d
      /\ \A c \in Clusters : /\ named[c] # {} /\ Cardinality(named[c]) = Cardinality(Listed(h, c))
                             /\ named[c] \subseteq {s[i] : i \in 1 .. n}
                             /\ \A u \in 0 .. n - 1 : s[u + 1] \in named[c] => u \in Listed(h, c)
  BY NamedApart
<1>6. \A e \in E : /\ e.node \in 0 .. n - 1 /\ e.cluster \in Clusters /\ e.level \in Nat
                   /\ e.parent \in Int /\ e.final \in BOOLEAN
  BY <1>1 DEF Records
<1>7. \A e \in E : s[e.node + 1] \in named[e.cluster]
  BY <1>6 DEF Named, Listed
<1>8. \A c \in Clusters : \A u \in Listed(h, c) : \E e \in E : e.node = u /\ e.cluster = c
  BY DEF Listed
<1>9. /\ \A x \in set : \E e \in E : Tells(x, e, named[e.cluster])
      /\ \A e \in E : \E x \in set : Tells(x, e, named[e.cluster])
      /\ \A x, y \in set : x.number = y.number => x = y
  BY <1>6 DEF Collects
\* The cells of what is final and of what was found to be one part.
<1>23. ASSUME NEW e \in E, e.final
       PROVE  Cell(h, e.cluster) # {} /\ Listed(h, e.cluster) = Cell(h, e.cluster)
  <2>1. h.partition[e.node] = e.cluster /\ e.node \in DOMAIN h.partition
    BY <1>1, <1>2, <1>6, <1>23
  <2>2. Cell(h, e.cluster) # {}
    BY <2>1 DEF Cell
  <2>3. QED
    BY <2>2, CellListed
<1>24. ASSUME NEW e \in E, e.cluster \in h.unsplittable
       PROVE  e.final /\ Cardinality(Listed(h, e.cluster)) >= Det!MaxClusterSize
  <2>1. Cell(h, e.cluster) # {} /\ Cardinality(Cell(h, e.cluster)) >= Det!MaxClusterSize
    BY <1>24 DEF Judged
  <2>2. QED
    BY <2>1, CellListed
<1>25. \A c \in Clusters : Cardinality(Cell(h, c)) \in Nat
                         /\ (Cell(h, c) # {} => Cardinality(Cell(h, c)) > 0)
  <2> TAKE c \in Clusters
  <2>1. IsFiniteSet(0 .. n - 1) /\ Cell(h, c) \in SUBSET (0 .. n - 1)
    BY <1>1, IntervalCount DEF Cell
  <2>2. IsFiniteSet(Cell(h, c))
    BY <2>1, FS_Subset
  <2>3. Cardinality(Cell(h, c)) \in Nat /\ (Cardinality(Cell(h, c)) = 0 <=> Cell(h, c) = {})
    BY <2>2, FS_CardinalityType, FS_EmptySet
  <2>4. QED
    BY <2>3
<1>26. \A c \in Clusters : /\ Cardinality(Cell(h, c)) >= Det!MaxClusterSize
                           /\ Cardinality(Cell(h, c)) > 1
                           => c \in h.unsplittable
  BY DEF Exhausted
<1>27. Det!MaxClusterSize \in Nat \ {0}
  BY DetectionAssumptions DEF Det!Assumptions, Det!MaxClusterSize
<1> HIDE DEF named, E, Clusters
<1>10. ASSUME NEW x \in set
       PROVE  /\ x.number \in Clusters /\ x.level \in Nat /\ x.final \in BOOLEAN /\ x.members = named[x.number]
              /\ x.unsplittable = (x.final /\ Cardinality(named[x.number]) >= Det!MaxClusterSize)
              /\ \A e \in E : e.cluster = x.number =>
                   x.level = e.level /\ x.parent = e.parent /\ x.final = e.final
  <2>1. PICK e \in E : Tells(x, e, named[e.cluster])
    BY <1>9
  <2>2. \A f \in E : f.cluster = e.cluster => e.level = f.level /\ e.parent = f.parent /\ e.final = f.final
    BY <1>1
  <2>3. x.number = e.cluster /\ x.level = e.level /\ x.parent = e.parent /\ x.final = e.final
        /\ x.members = named[e.cluster]
    BY <2>1 DEF Tells
  <2>4. x.unsplittable = (e.final /\ Cardinality(named[e.cluster]) >= Det!MaxClusterSize)
    BY <2>1 DEF Tells
  <2>5. x.unsplittable = (x.final /\ Cardinality(named[x.number]) >= Det!MaxClusterSize)
    BY <2>3, <2>4
  <2>6. QED
    BY <1>6, <2>2, <2>3, <2>5
<1>11. ASSUME NEW c \in Clusters
       PROVE  \E x \in set : x.number = c
  BY <1>1, <1>9 DEF Tells
<1>12. Meant(set, h.unsplittable)
  <2> SUFFICES ASSUME NEW x \in set
      PROVE /\ x.unsplittable <=> \/ x.number \in h.unsplittable
                                  \/ Det!MaxClusterSize = 1 /\ x.final /\ Cardinality(x.members) = 1
            /\ ~x.final => Cardinality(x.members) >= Det!MaxClusterSize
    BY DEF Meant
  <2> DEFINE size == Cardinality(Listed(h, x.number))
             cell == Cardinality(Cell(h, x.number))
  <2>1. /\ x.number \in Clusters /\ x.members = named[x.number] /\ x.final \in BOOLEAN
        /\ x.unsplittable = (x.final /\ Cardinality(named[x.number]) >= Det!MaxClusterSize)
    BY <1>10
  <2>2. Cardinality(named[x.number]) = size
    BY <1>5, <2>1
  <2>3. PICK e \in E : e.cluster = x.number
    BY <1>1, <2>1
  <2>4. x.final = e.final
    BY <1>10, <2>3
  <2>5. ~x.final => size >= Det!MaxClusterSize
    BY <1>4, <2>3, <2>4
  <2>6. x.number \in h.unsplittable => x.final /\ size >= Det!MaxClusterSize
    BY <1>24, <2>3, <2>4
  <2>7. x.final => size = cell /\ cell \in Nat /\ cell > 0
    BY <1>23, <1>25, <2>1, <2>3, <2>4
  <2>8. cell >= Det!MaxClusterSize /\ cell > 1 => x.number \in h.unsplittable
    BY <1>26, <2>1
  <2> HIDE DEF size, cell
  <2>9. /\ x.unsplittable = (x.final /\ size >= Det!MaxClusterSize)
        /\ Cardinality(x.members) = size
    BY <2>1, <2>2
  <2>10. ASSUME x.final, size >= Det!MaxClusterSize
         PROVE  x.number \in h.unsplittable \/ (Det!MaxClusterSize = 1 /\ size = 1)
    BY <1>27, <2>7, <2>8, <2>10
  <2>11. x.unsplittable => \/ x.number \in h.unsplittable
                           \/ Det!MaxClusterSize = 1 /\ x.final /\ size = 1
    BY <2>9, <2>10
  <2>12. x.number \in h.unsplittable => x.unsplittable
    BY <2>6, <2>9
  <2>13. Det!MaxClusterSize = 1 /\ x.final /\ size = 1 => x.unsplittable
    <3>1. Det!MaxClusterSize = 1 /\ size = 1 => size >= Det!MaxClusterSize
      OBVIOUS
    <3>2. QED
      BY <2>9, <3>1
  <2>14. QED
    BY <2>5, <2>9, <2>11, <2>12, <2>13
<1>13. {x.number : x \in set} = Clusters
  BY <1>10, <1>11
<1>14. Cardinality(set) = h.next
  <2> DEFINE f == [c \in Clusters |-> CHOOSE x \in set : x.number = c]
  <2>1. \A c \in Clusters : f[c] \in set /\ f[c].number = c
    BY <1>11
  <2>2. f \in Bijection(Clusters, set)
    <3>1. f \in [Clusters -> set]
      BY <2>1
    <3> HIDE DEF f
    <3>2. \A c, d \in Clusters : f[c] = f[d] => c = d
      BY <2>1
    <3>3. \A x \in set : \E c \in Clusters : f[c] = x
      BY <1>9, <1>10, <2>1
    <3>4. QED
      BY <3>1, <3>2, <3>3 DEF Bijection, Injection, Surjection, IsInjective
  <2>3. IsFiniteSet(Clusters) /\ Cardinality(Clusters) = h.next
    BY <1>1, IntervalCount DEF Clusters
  <2>4. QED
    BY <2>2, <2>3, FS_Bijection DEF ExistsBijection
<1>15. {x.number : x \in set} = 0 .. Det!Cardinality(set) - 1
  BY <1>13, <1>14, SameOperators DEF Clusters
<1>16. \A x, y \in set : x.members = y.members => x = y
  BY <1>5, <1>9, <1>10
<1>17. \A x \in set : x.members \subseteq {s[i] : i \in 1 .. n} /\ x.members # {}
  BY <1>5, <1>10
<1>18. ASSUME NEW x \in set
       PROVE  IF x.level = 0 THEN x.parent = -1
              ELSE \E y \in set : y.number = x.parent /\ y.level < x.level /\ x.members \subseteq y.members
  <2>1. PICK e \in E : e.cluster = x.number
    BY <1>1, <1>10
  <2>2. x.level = e.level /\ x.parent = e.parent
    BY <1>10, <2>1
  <2>3. CASE x.level = 0
    BY <1>3, <2>2, <2>3
  <2>4. CASE x.level # 0
    <3>1. PICK f \in E : f.node = e.node /\ f.cluster = e.parent /\ f.level < e.level
      BY <1>3, <2>2, <2>4
    <3>2. PICK y \in set : y.number = f.cluster
      BY <1>6, <1>11
    <3>3. y.level = f.level
      BY <1>10, <3>2
    <3>4. ASSUME NEW m \in x.members PROVE m \in y.members
      <4>1. m \in named[x.number]
        BY <1>10
      <4>2. PICK i \in 1 .. n : m = s[i]
        BY <1>5, <1>10, <4>1
      <4>3. i - 1 \in 0 .. n - 1 /\ (i - 1) + 1 = i
        BY <1>1
      <4>4. i - 1 \in Listed(h, x.number)
        BY <1>5, <1>10, <4>1, <4>2, <4>3
      <4>5. PICK g \in E : g.node = i - 1 /\ g.cluster = x.number
        BY <1>8, <1>10, <4>4
      <4>6. g.level = e.level /\ g.parent = e.parent
        BY <1>1, <2>1, <4>5
      <4>7. PICK k \in E : k.node = g.node /\ k.cluster = g.parent
        BY <1>3, <2>2, <2>4, <4>6
      <4>8. m \in named[k.cluster] /\ k.cluster = y.number
        BY <1>7, <3>1, <3>2, <4>2, <4>3, <4>5, <4>6, <4>7
      <4>9. QED
        BY <1>10, <4>8
    <3>5. y.number = x.parent /\ y.level < x.level
      BY <2>2, <3>1, <3>2, <3>3
    <3>6. QED
      BY <2>4, <3>4, <3>5
  <2>5. QED
    BY <2>3, <2>4
<1>19. ASSUME NEW x \in set PROVE x.final <=> ~\E y \in set : y.parent = x.number
  <2>1. PICK e \in E : e.cluster = x.number
    BY <1>1, <1>10
  <2>2. x.final = e.final
    BY <1>10, <2>1
  <2>3. (\E y \in set : y.parent = x.number) <=> \E f \in E : f.parent = e.cluster
    <3>1. ASSUME NEW y \in set, y.parent = x.number PROVE \E f \in E : f.parent = e.cluster
      <4>1. PICK f \in E : f.cluster = y.number
        BY <1>1, <1>10
      <4>2. y.parent = f.parent
        BY <1>10, <4>1
      <4>3. QED
        BY <2>1, <3>1, <4>2
    <3>2. ASSUME NEW f \in E, f.parent = e.cluster PROVE \E y \in set : y.parent = x.number
      <4>1. PICK y \in set : y.number = f.cluster
        BY <1>6, <1>11
      <4>2. y.parent = f.parent
        BY <1>10, <4>1
      <4>3. QED
        BY <2>1, <3>2, <4>2
    <3>3. QED
      BY <3>1, <3>2
  <2>4. QED
    BY <1>3, <2>1, <2>2, <2>3
<1>20. ASSUME NEW m \in {s[i] : i \in 1 .. n}
       PROVE  Cardinality({x \in set : x.final /\ m \in x.members}) = 1
  <2>1. PICK i \in 1 .. n : m = s[i]
    OBVIOUS
  <2> DEFINE u == i - 1
  <2>2. u \in 0 .. n - 1 /\ u + 1 = i
    BY <1>1
  <2> HIDE DEF u
  <2>3. PICK e \in E : e.node = u /\ e.cluster = h.partition[u]
    BY <1>1, <1>2, <2>2
  <2>4. PICK x \in set : x.number = e.cluster
    BY <1>6, <1>11
  <2>5. x.final /\ m \in x.members
    <3>1. e.final /\ x.final = e.final
      BY <1>2, <1>10, <2>3, <2>4
    <3>2. m \in named[x.number]
      BY <1>7, <2>1, <2>2, <2>3, <2>4
    <3>3. QED
      BY <1>10, <3>1, <3>2
  <2>6. ASSUME NEW y \in set, y.final, m \in y.members PROVE y = x
    <3>1. m \in named[y.number] /\ y.number \in Clusters
      BY <1>10, <2>6
    <3>2. u \in Listed(h, y.number)
      BY <1>5, <2>1, <2>2, <3>1
    <3>3. PICK f \in E : f.node = u /\ f.cluster = y.number
      BY <1>8, <3>1, <3>2
    <3>4. f.final
      BY <1>10, <2>6, <3>3
    <3>5. y.number = x.number
      BY <1>2, <2>3, <2>4, <3>3, <3>4
    <3>6. QED
      BY <1>9, <3>5
  <2>7. {z \in set : z.final /\ m \in z.members} = {x}
    BY <2>5, <2>6
  <2>8. QED
    BY <2>7, FS_Singleton
<1>21. Det!ValidHierarchy(set)
  <2>1. set # {}
    <3>1. 0 \in 0 .. n - 1
      BY <1>1
    <3>2. \E e \in E : e.node = 0
      BY <1>1, <1>2, <3>1
    <3>3. QED
      BY <1>9, <3>2
  <2>2. \A m \in UNION {x.members : x \in {x \in set : x.level = 0}} :
          Det!Cardinality({x \in set : x.final /\ m \in x.members}) = 1
    <3> TAKE m \in UNION {x.members : x \in {x \in set : x.level = 0}}
    <3>1. m \in {s[i] : i \in 1 .. n}
      BY <1>17
    <3>2. Cardinality({x \in set : x.final /\ m \in x.members}) = 1
      BY <1>20, <3>1
    <3>3. QED
      BY <3>2, SameOperators
  <2>3. QED
    BY <1>9, <1>17, <1>18, <1>19, <2>1, <2>2 DEF Det!ValidHierarchy
<1>22. QED
  BY <1>12, <1>15, <1>16, <1>17, <1>21

LEMMA CollectedValid ==
  ASSUME relations \in Projections, relations \in Seq(Rows), Graph(relations, edges),
         HierarchyInv(hierarchy, Len(NodesOf(edges))), Judged(hierarchy), Exhausted(hierarchy)
  PROVE  Det!ValidCommunitySet(Det!Collected) /\ Meant(Det!Collected, hierarchy.unsplittable)
<1> DEFINE s == NodesOf(edges)
           n == Len(s)
           set == Det!Collected
           ends == UNION {{e.source, e.target} : e \in Det!ToSet(relations)}
<1>1. HierarchyInv(hierarchy, n) /\ s \in Seq(Nat) /\ Distinct(s)
      /\ \A i \in 1 .. n : s[i] \in Ends(relations)
  BY DEF Graph
<1>2. Collects(set, hierarchy, s)
  <2> HIDE DEF n, s, set
  <2>1. Collects(set, hierarchy, Det!Nodes)
    BY <1>1, CollectedOf DEF set
  <2>2. QED
    BY <2>1, NodesAre DEF s
<1> HIDE DEF s, set
<1>3. /\ Det!ValidHierarchy(set) /\ Meant(set, hierarchy.unsplittable)
      /\ {c.number : c \in set} = 0 .. Det!Cardinality(set) - 1
      /\ \A c, d \in set : c.members = d.members => c = d
      /\ \A c \in set : c.members \subseteq {s[i] : i \in 1 .. n}
  BY <1>1, <1>2, CommunitiesValid
<1>4. {s[i] : i \in 1 .. n} \subseteq ends
  <2>1. Det!ToSet(relations) = {relations[i] : i \in DOMAIN relations}
    BY SameOperators
  <2>2. Ends(relations) \subseteq ends
    BY <2>1 DEF Ends
  <2>3. QED
    BY <1>1, <2>2
<1>5. \A c \in set : c.members \subseteq ends
  BY <1>3, <1>4
<1> HIDE DEF n
<1>6. Det!ValidCommunitySet(set)
  BY <1>3, <1>5 DEF Det!ValidCommunitySet
<1>7. QED
  BY <1>3, <1>6 DEF set

-----------------------------------------------------------------------------
(* A detection *)

\* The run is that of the whole network, or of the cluster the hierarchy waits for.
Detecting(h, r, n) == (h = <<>> /\ RunInv(r, n)) \/ Waiting(h, r, n)

DetectionInv ==
  /\ relations \in Projections
  /\ outcome \in {"asked", "empty graph", "detecting", "detected"}
  /\ outcome \in {"asked", "empty graph"} => run = Det!Idle /\ hierarchy = <<>>
  /\ outcome \in {"detecting", "detected"} => Graph(relations, edges)
  /\ outcome = "detecting" => Detecting(hierarchy, run, Len(NodesOf(edges)))
  /\ outcome = "detected" => run = Det!Idle /\ Meant(communities, hierarchy.unsplittable)

\* A step has one limit.
LEMMA LimitKept ==
  ASSUME relations' = relations
  PROVE  Det!MaxClusterSize' = Det!MaxClusterSize
BY DEF Det!MaxClusterSize

LEMMA DetectingNext ==
  ASSUME relations' = relations, Detecting(hierarchy', run', Len(NodesOf(edges')))
  PROVE  Detecting(hierarchy, run, Len(NodesOf(edges)))'
<1>1. CASE hierarchy' = <<>> /\ RunInv(run', Len(NodesOf(edges')))
  BY <1>1 DEF Detecting
<1>2. CASE Waiting(hierarchy', run', Len(NodesOf(edges')))
  <2>1. Divided(hierarchy')  => Divided(hierarchy)'
    BY LimitKept DEF Divided
  <2>2. Queued(hierarchy')  => Queued(hierarchy)'
    BY LimitKept DEF Queued
  <2>3. Judged(hierarchy')  => Judged(hierarchy)'
    BY LimitKept DEF Judged
  <2>4. Exhausted(hierarchy')  => Exhausted(hierarchy)'
    BY LimitKept DEF Exhausted
  <2>5. HierarchyInv(hierarchy', Len(NodesOf(edges'))) =>
          HierarchyInv(hierarchy, Len(NodesOf(edges)))'
    BY <2>1, <2>2 DEF HierarchyInv
  <2>6. Waiting(hierarchy, run, Len(NodesOf(edges)))'
    BY <1>2, <2>3, <2>4, <2>5 DEF Waiting
  <2>7. QED
    BY <2>6 DEF Detecting
<1>3. QED
  BY <1>1, <1>2 DEF Detecting

LEMMA MeantNext ==
  ASSUME relations' = relations, Meant(communities', hierarchy'.unsplittable)
  PROVE  Meant(communities, hierarchy.unsplittable)'
BY LimitKept DEF Meant

LEMMA DetectionStart == Det!Init => DetectionInv
BY DEF Det!Init, DetectionInv

\* A step within a run.
LEMMA RunStep ==
  ASSUME DetectionInv, \A n : RunInv(run, n) => RunInv(run', n), run # Det!Idle,
         UNCHANGED <<relations, edges, hierarchy, outcome, communities>>
  PROVE  DetectionInv'
<1> DEFINE n == Len(NodesOf(edges))
<1>1. outcome = "detecting" /\ Detecting(hierarchy, run, n)
  BY DEF DetectionInv
<1>2. NodesOf(edges') = NodesOf(edges) /\ Graph(relations', edges')
  BY <1>1 DEF DetectionInv
<1> HIDE DEF n
<1>3. Detecting(hierarchy', run', n)
  <2>1. CASE hierarchy = <<>> /\ RunInv(run, n)
    BY <2>1 DEF Detecting
  <2>2. CASE Waiting(hierarchy, run, n)
    <3> DEFINE k == Len(Det!Members(hierarchy.partition, Head(hierarchy.work)))
    <3>1. /\ HierarchyInv(hierarchy, n) /\ Judged(hierarchy)
          /\ hierarchy.work # <<>> /\ RunInv(run, k)
      BY <2>2 DEF Waiting
    <3>2. RunInv(run', k)
      BY <3>1
    <3>3. hierarchy' = hierarchy
      OBVIOUS
    <3>4. Waiting(hierarchy, run', n)
      BY <3>1, <3>2 DEF Waiting
    <3> HIDE DEF k
    <3>5. QED
      BY <3>3, <3>4 DEF Detecting
  <2>3. QED
    BY <1>1, <2>1, <2>2 DEF Detecting
<1>4. Detecting(hierarchy', run', Len(NodesOf(edges')))
  BY <1>2, <1>3 DEF n
<1>5. relations' \in Projections /\ outcome' = "detecting"
  BY <1>1 DEF DetectionInv
<1>6. QED
  BY <1>2, <1>4, <1>5, DetectingNext DEF DetectionInv

LEMMA RelationRows == ASSUME relations \in Projections PROVE relations \in Seq(Rows)
BY DetectionAssumptions DEF Det!Assumptions, Rows

LEMMA BeginKeepsDetection ==
  ASSUME DetectionInv, Det!Begin
  PROVE  DetectionInv'
<1> DEFINE e == Det!Prepared(relations)
<1>1. relations \in Projections /\ relations' = relations /\ edges' = e
      /\ run = Det!Idle /\ hierarchy = <<>>
  BY DEF DetectionInv, Det!Begin
<1>2. CASE e = <<>>
  <2>1. outcome' = "empty graph" /\ run' = run /\ hierarchy' = hierarchy
    BY <1>2 DEF Det!Begin
  <2>2. QED
    BY <1>1, <2>1 DEF DetectionInv
<1>3. CASE e # <<>>
  <2>1. outcome' = "detecting" /\ hierarchy' = <<>>
    BY <1>1, <1>3 DEF Det!Begin
  <2>2. Graph(relations, e)
    <3>1. relations \in Seq(Rows)
      BY <1>1, RelationRows
    <3>2. QED
      BY <1>3, <3>1, GraphOf
  <2>3. run' = Det!NewRun(Len(NodesOf(edges')), WholeOf(edges'))
    BY <1>3 DEF Det!Begin, Det!Nodes, NodesOf, Det!Whole, WholeOf, NumberOf
  <2> HIDE DEF e
  <2>4. Graph(relations', edges')
    BY <1>1, <2>2
  <2>5. RunInv(run', Len(NodesOf(edges')))
    <3> DEFINE n == Len(NodesOf(edges'))
               network == WholeOf(edges')
    <3>1. n \in Nat \ {0} /\ NetworkOver(network, 0 .. n - 1) /\ run' = Det!NewRun(n, network)
      BY <2>3, <2>4 DEF Graph
    <3> HIDE DEF n, network
    <3>2. RunInv(run', n)
      BY <3>1, RunStarts
    <3>3. QED
      BY <3>2 DEF n
  <2>6. QED
    BY <1>1, <2>1, <2>4, <2>5 DEF DetectionInv, Detecting
<1>4. QED
  BY <1>2, <1>3

\* A record is no empty sequence.
LEMMA HierarchyThere == ASSUME NEW h, NEW n, HierarchyInv(h, n) PROVE h # <<>>
<1>1. DOMAIN h = HierarchyFields
  BY DEF HierarchyInv, Placed
<1>2. DOMAIN <<>> = {}
  OBVIOUS
<1>3. QED
  BY <1>1, <1>2 DEF HierarchyFields

\* The end of a run, which gives the next hierarchy.
LEMMA HierarchyStep ==
  ASSUME DetectionInv, run # Det!Idle, UNCHANGED <<relations, edges, outcome, communities>>,
         \A n : /\ Detecting(hierarchy, run, n) /\ NetworkOver(Det!Whole, 0 .. n - 1)
                => Waiting(hierarchy', run', n)
  PROVE  DetectionInv'
<1> DEFINE n == Len(NodesOf(edges))
<1>1. outcome = "detecting" /\ Detecting(hierarchy, run, n) /\ Graph(relations, edges)
  BY DEF DetectionInv
<1>2. NetworkOver(Det!Whole, 0 .. n - 1)
  BY <1>1, NodesAre DEF Graph
<1> HIDE DEF n
<1>3. Waiting(hierarchy', run', n)
  BY <1>1, <1>2
<1>4. Detecting(hierarchy', run', Len(NodesOf(edges')))
  BY <1>3 DEF Detecting, n
<1>5. relations' \in Projections /\ outcome' = "detecting" /\ Graph(relations', edges')
  BY <1>1 DEF DetectionInv
<1>6. QED
  BY <1>4, <1>5, DetectingNext DEF DetectionInv

LEMMA RootKeepsDetection ==
  ASSUME DetectionInv, Det!Root
  PROVE  DetectionInv'
<1>1. run.phase = "ended" /\ hierarchy = <<>> /\ UNCHANGED <<relations, edges, outcome, communities>>
  BY DEF Det!Root
<1>2. run # Det!Idle
  BY <1>1 DEF Det!Idle
<1>3. ASSUME NEW n, Detecting(hierarchy, run, n), NetworkOver(Det!Whole, 0 .. n - 1)
      PROVE  Waiting(hierarchy', run', n)
  <2>1. RunInv(run, n)
    BY <1>1, <1>3, HierarchyThere DEF Detecting, Waiting
  <2>2. QED
    BY <1>3, <2>1, RootKeeps
<1>4. QED
  BY <1>1, <1>2, <1>3, HierarchyStep

LEMMA SplitKeepsDetection ==
  ASSUME DetectionInv, Det!Split
  PROVE  DetectionInv'
<1>1. run.phase = "ended" /\ hierarchy # <<>> /\ UNCHANGED <<relations, edges, outcome, communities>>
  BY DEF Det!Split
<1>2. run # Det!Idle
  BY <1>1 DEF Det!Idle
<1>3. ASSUME NEW n, Detecting(hierarchy, run, n), NetworkOver(Det!Whole, 0 .. n - 1)
      PROVE  Waiting(hierarchy', run', n)
  <2>1. Waiting(hierarchy, run, n)
    BY <1>1, <1>3 DEF Detecting
  <2>2. QED
    BY <1>3, <2>1, SplitKeeps
<1>4. QED
  BY <1>1, <1>2, <1>3, HierarchyStep

LEMMA IdleRun == ASSUME NEW n, RunInv(Det!Idle, n) PROVE FALSE
BY DEF RunInv, RunTyped, Det!Idle

LEMMA FinishKeepsDetection ==
  ASSUME DetectionInv, Det!Finish
  PROVE  DetectionInv'
<1>1. outcome = "detecting" /\ run = Det!Idle /\ UNCHANGED <<relations, edges, run, hierarchy>>
      /\ communities' = Det!Collected
      /\ outcome' = IF Det!ValidCommunitySet(Det!Collected) THEN "detected" ELSE "invalid"
  BY DEF Det!Finish
<1>2. relations \in Projections /\ Graph(relations, edges) /\ relations \in Seq(Rows)
  BY <1>1, RelationRows DEF DetectionInv
<1>3. /\ HierarchyInv(hierarchy, Len(NodesOf(edges)))
      /\ Judged(hierarchy) /\ Exhausted(hierarchy)
  BY <1>1, IdleRun DEF DetectionInv, Detecting, Waiting
<1>4. Det!ValidCommunitySet(Det!Collected) /\ Meant(Det!Collected, hierarchy.unsplittable)
  BY <1>2, <1>3, CollectedValid
<1>5. outcome' = "detected" /\ Meant(communities', hierarchy'.unsplittable) /\ run' = Det!Idle /\ relations' \in Projections
      /\ Graph(relations', edges')
  BY <1>1, <1>2, <1>4
<1>6. QED
  BY <1>1, <1>5, MeantNext DEF DetectionInv

LEMMA DetectionStep == DetectionInv /\ [Det!Next]_(Det!vars) => DetectionInv'
<1> SUFFICES ASSUME DetectionInv, [Det!Next]_(Det!vars) PROVE DetectionInv'
  OBVIOUS
<1>1. CASE UNCHANGED Det!vars
  BY <1>1, DetectingNext, MeantNext DEF Det!vars, DetectionInv
<1>2. CASE Det!EndLevel
  <2>1. /\ run # Det!Idle /\ UNCHANGED <<relations, edges, hierarchy, outcome, communities>>
    BY <1>2 DEF Det!EndLevel, Det!Idle
  <2>2. QED
    BY <1>2, <2>1, EndLevelKeeps, RunStep
<1>3. CASE Det!Aggregate
  <2>1. /\ run # Det!Idle /\ UNCHANGED <<relations, edges, hierarchy, outcome, communities>>
    BY <1>3 DEF Det!Aggregate, Det!Idle
  <2>2. QED
    BY <1>3, <2>1, AggregateKeepsRun, RunStep
<1>4. ASSUME run # Det!Idle, NEW u \in DOMAIN run.mass, Det!Visit(u) PROVE DetectionInv'
  <2>1. UNCHANGED <<relations, edges, hierarchy, outcome, communities>>
    BY <1>4 DEF Det!Visit
  <2>2. QED
    BY <1>4, <2>1, VisitKeeps, RunStep
<1>5. ASSUME run # Det!Idle, NEW u \in DOMAIN run.mass, Det!Refine(u) PROVE DetectionInv'
  <2>1. UNCHANGED <<relations, edges, hierarchy, outcome, communities>>
    BY <1>5 DEF Det!Refine
  <2>2. QED
    BY <1>5, <2>1, RefineKeeps, RunStep
<1>6. QED
  BY <1>1, <1>2, <1>3, <1>4, <1>5, BeginKeepsDetection, RootKeepsDetection,
     SplitKeepsDetection,
     FinishKeepsDetection DEF Det!Next

LEMMA DetectionPart == [PipelineNext]_pipelineVars => [Det!Next]_(Det!vars)
BY DEF PipelineNext, pipelineVars, Only, detVars, Det!vars

LEMMA DetectionInvariance == PipelineSpec => []DetectionInv
<1>1. PipelineInit => DetectionInv
  BY DetectionStart DEF PipelineInit
<1>2. DetectionInv /\ [PipelineNext]_pipelineVars => DetectionInv'
  BY DetectionStep, DetectionPart
<1>3. QED
  BY <1>1, <1>2, PTL DEF PipelineSpec

LEMMA RunFacts ==
  ASSUME DetectionInv, run # Det!Idle
  PROVE  \E n : RunInv(run, n)
<1>1. Detecting(hierarchy, run, Len(NodesOf(edges)))
  BY DEF DetectionInv
<1>2. QED
  BY <1>1 DEF Detecting, Waiting

\* Whatever Relations are projected, whatever is drawn and however often
\* clusters are split: the hierarchy is one that the CommunitySet's validation
\* accepts, only a Community of the limit or above has parts, one is marked
\* Unsplittable when, and at a limit above 1 only when, a run saw it as one
\* part, and neither moves, refinement nor aggregation lose any of the objective
\* (community/detector.go, community/leiden).
THEOREM DetectionIsSound == PipelineSpec => []DetectionSound
<1>1. DetectionInv => DetectionSound
  <2> SUFFICES ASSUME DetectionInv PROVE DetectionSound
    OBVIOUS
  <2>1. Det!DetectionAccepted
    BY DEF DetectionInv, Det!DetectionAccepted
  <2>2. Det!UnsplittableMeant
    <3>1. outcome = "detected" => Meant(communities, hierarchy.unsplittable)
      BY DEF DetectionInv
    <3>2. \A c \in communities : Det!Cardinality(c.members) = Cardinality(c.members)
      BY SameOperators
    <3>3. QED
      BY <3>1, <3>2 DEF Meant, Det!UnsplittableMeant
  <2>3. Det!ObjectiveClimbs
    <3>1. CASE run = Det!Idle
      BY <3>1 DEF Det!ObjectiveClimbs
    <3>2. CASE run # Det!Idle
      BY <3>2, RunFacts, ObjectiveKept
    <3>3. QED
      BY <3>1, <3>2
  <2>4. QED
    BY <2>1, <2>2, <2>3 DEF DetectionSound, Det!DetectionSound
<1>2. QED
  BY <1>1, DetectionInvariance, PTL

-----------------------------------------------------------------------------
(* Types *)

\* The Namespaces and the configuration of the vector store.
SpacesInv ==
  /\ model \in Models /\ up \in BOOLEAN
  /\ IsFiniteSet(spaces) /\ \A space \in spaces : space.id \in Nat /\ space.name \in Names

LEMMA SpacesStep == VectorsInv /\ SpacesInv /\ [Vec!Next]_(Vec!vars) => SpacesInv'
<1> SUFFICES ASSUME VectorsInv, SpacesInv, [Vec!Next]_(Vec!vars) PROVE SpacesInv'
  OBVIOUS
<1>1. CASE UNCHANGED Vec!vars
  BY <1>1 DEF Vec!vars, SpacesInv
<1>2. ASSUME NEW c \in Callers, Vec!StoreAdd(c) PROVE SpacesInv'
  <2>1. add[c].at = "store" /\ model' = model /\ up' = up
        /\ (spaces' = spaces \/ spaces' = Vec!RetainNamespace(add[c].name))
    BY <1>2 DEF Vec!StoreAdd
  <2>2. add[c].name \in Names
    <3>1. Adding(c) /\ add[c] # Vec!Ended
      BY <2>1 DEF VectorsInv, Vec!Ended
    <3>2. QED
      BY <3>1 DEF Adding
  <2> DEFINE new == [id |-> Vec!NextId(spaces), name |-> add[c].name]
  <2>3. CASE Vec!RetainNamespace(add[c].name) = spaces \cup {new}
    <3>1. Vec!NextId(spaces) \in Nat
      BY NextIsNew DEF SpacesInv
    <3>2. new.id \in Nat /\ new.name \in Names
      BY <2>2, <3>1
    <3> HIDE DEF new
    <3>3. IsFiniteSet(spaces \cup {new})
      BY FS_AddElement DEF SpacesInv
    <3>4. QED
      BY <2>1, <2>3, <3>2, <3>3 DEF SpacesInv
  <2>4. CASE Vec!RetainNamespace(add[c].name) = spaces
    BY <2>1, <2>4 DEF SpacesInv
  <2>5. QED
    BY <2>3, <2>4 DEF Vec!RetainNamespace
<1>3. ASSUME NEW name \in Names, Vec!Delete(name) PROVE SpacesInv'
  <2>1. spaces' \in SUBSET spaces /\ model' = model /\ up' = up
    BY <1>3 DEF Vec!Delete
  <2>2. IsFiniteSet(spaces')
    BY <2>1, FS_Subset DEF SpacesInv
  <2>3. QED
    BY <2>1, <2>2 DEF SpacesInv
<1>4. ASSUME NEW configured \in Models, Vec!Restart(configured) PROVE SpacesInv'
  BY <1>4 DEF Vec!Restart, Vec!tables, SpacesInv
<1>5. ASSUME NEW c \in Callers,
             \/ \E name \in Names, ids \in SUBSET Ids : Vec!Begin(c, name, ids)
             \/ Vec!Generate(c) \/ Vec!Fail(c)
      PROVE  SpacesInv'
  <2>1. UNCHANGED <<model, up, spaces>>
    BY <1>5 DEF Vec!Begin, Vec!Generate, Vec!Fail, Vec!tables
  <2>2. QED
    BY <2>1 DEF SpacesInv
<1>6. ASSUME NEW r \in Readers,
             \/ \E name \in Names : Vec!Open(r, name)
             \/ Vec!NextPage(r) \/ Vec!Search(r) \/ Vec!Close(r)
      PROVE  SpacesInv'
  <2>1. UNCHANGED <<model, up, spaces>>
    BY <1>6 DEF Vec!Open, Vec!NextPage, Vec!Search, Vec!Close, Vec!tables
  <2>2. QED
    BY <2>1 DEF SpacesInv
<1>7. QED
  BY <1>1, <1>2, <1>3, <1>4, <1>5, <1>6 DEF Vec!Next

LEMMA SpacesInvariance == PipelineSpec => []SpacesInv
<1>1. PipelineInit => SpacesInv
  BY FS_EmptySet DEF PipelineInit, Vec!Init, SpacesInv
<1>2. VectorsInv /\ SpacesInv /\ [PipelineNext]_pipelineVars => SpacesInv'
  BY SpacesStep, VectorsPart
<1>3. QED
  BY <1>1, <1>2, VectorsInvariance, PTL DEF PipelineSpec

LEMMA PartInvariance == PipelineSpec => [](part \in Parts)
<1>1. PipelineInit => part \in Parts
  BY DEF PipelineInit
<1>2. part \in Parts /\ [PipelineNext]_pipelineVars => (part \in Parts)'
  BY DEF PipelineNext, pipelineVars, Only
<1>3. QED
  BY <1>1, <1>2, PTL DEF PipelineSpec

LEMMA VectorTypes == VectorsInv /\ SpacesInv => Vec!TypeOK
<1> SUFFICES ASSUME VectorsInv, SpacesInv PROVE Vec!TypeOK
  OBVIOUS
<1>1. ASSUME NEW c \in Callers PROVE add[c].at \in {"ended", "generate", "store"}
  <2>1. Adding(c)
    BY DEF VectorsInv
  <2>2. QED
    BY <2>1 DEF Adding, Vec!Ended
<1>2. ASSUME NEW r \in Readers PROVE reader[r].open \in BOOLEAN
  <2>1. CASE reader[r] = Vec!Closed
    BY <2>1 DEF Vec!Closed
  <2>2. CASE Paging(reader[r])
    <3> DEFINE e == reader[r]
    <3>1. Paging(e)
      BY <2>2
    <3> HIDE DEF e
    <3>2. e.open = TRUE
      BY <3>1 DEF Paging
    <3>3. QED
      BY <3>2 DEF e
  <2>3. QED
    BY <2>1, <2>2 DEF VectorsInv
<1>3. dimension \in Nat /\ DOMAIN embedding \subseteq Ids /\ \A member \in members : member.vector \in Ids
  BY DEF VectorsInv, StoredInv, Cached, Indexed
<1>4. QED
  BY <1>1, <1>2, <1>3 DEF SpacesInv, Vec!TypeOK

LEMMA DetectionTypes == DetectionInv => Det!TypeOK
<1> SUFFICES ASSUME DetectionInv PROVE Det!TypeOK
  OBVIOUS
<1>1. relations \in Projections /\ outcome \in {"asked", "empty graph", "detecting", "detected"}
  BY DEF DetectionInv
<1>2. CASE run = Det!Idle
  <2>1. run.phase = "idle"
    BY <1>2 DEF Det!Idle
  <2>2. QED
    BY <1>1, <1>2, <2>1 DEF Det!TypeOK
<1>3. CASE run # Det!Idle
  <2>1. run.phase \in {"move", "refine", "ended"} /\ run.parent \in [DOMAIN run.mass -> Nat]
    BY <1>3, RunFacts DEF RunInv, RunTyped
  <2>2. QED
    BY <1>1, <2>1 DEF Det!TypeOK
<1>4. QED
  BY <1>2, <1>3

\* Every part of Pipeline that takes steps keeps the types of its variables.
THEOREM PipelineTypes == PipelineSpec => []PipelineTypeOK
<1>1. PublicationInv /\ DetectionInv /\ VectorsInv /\ SpacesInv /\ part \in Parts => PipelineTypeOK
  <2> SUFFICES ASSUME PublicationInv, DetectionInv, VectorsInv, SpacesInv, part \in Parts
               PROVE  PipelineTypeOK
    OBVIOUS
  <2>1. Pub!TypeOK /\ Det!TypeOK /\ Vec!TypeOK
    BY DetectionTypes, VectorTypes DEF PublicationInv
  <2>2. QED
    BY <2>1 DEF PipelineTypeOK, Parts
<1>2. QED
  BY <1>1, PublicationInvariance, DetectionInvariance, VectorsInvariance, SpacesInvariance,
     PartInvariance, PTL
=============================================================================
