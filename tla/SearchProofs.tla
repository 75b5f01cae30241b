---------------------------- MODULE SearchProofs ----------------------------
(***************************************************************************)
(* Proofs about the requests of Drift.tla and of GlobalSearch.tla, for any *)
(* values of the constants: what holds of loops and of the lists they go   *)
(* over, then the two inductive invariants.                                *)
(*                                                                         *)
(* DRIFT: what may still be called, the worst that can come of it and what *)
(* was used fit into the limits; every branch has an edge from an answered *)
(* question one level above, and no answered one is further up; what was   *)
(* asked waits in the order of the graph.                                  *)
(*                                                                         *)
(* Global: the frontier and what was accepted form the traversal of the    *)
(* hierarchy; the chunks are an arrangement of the selected rows; what a   *)
(* chunk was answered with cites its own rows; the accepted points are the *)
(* best of those.                                                          *)
(***************************************************************************)
EXTENDS Searches, Lists, Integers, FiniteSets, SequenceTheorems, FiniteSetTheorems,
        WellFoundedInduction, TLAPS

-----------------------------------------------------------------------------
(* Loops *)

LessThan == {p \in Nat \X Nat : p[1] < p[2]}

\* Sets of numbers have a least element, which stands for induction below.
LEMMA Least ==
  ASSUME NEW T, T \subseteq Nat, T # {}
  PROVE  \E n \in T : \A m \in T : n <= m
<1>1. IsWellFoundedOn(LessThan, Nat)
  BY NatLessThanWellFounded DEF LessThan, OpToRel
<1>2. PICK n \in T : \A m \in T : <<m, n>> \notin LessThan
  BY <1>1, WFMin
<1>3. \A m \in T : ~(m < n)
  BY <1>2 DEF LessThan
<1>4. QED
  BY <1>3

\* What holds before a loop and after each of its passes holds at any time.
LEMMA LoopKeeps ==
  ASSUME NEW X, NEW n \in Nat, NEW f, f[0] \in X, \A i \in 1 .. n : f[i - 1] \in X => f[i] \in X
  PROVE  \A i \in 0 .. n : f[i] \in X
<1> DEFINE T == {i \in 0 .. n : f[i] \notin X}
<1>1. SUFFICES ASSUME T # {} PROVE FALSE
  OBVIOUS
<1>2. PICK k \in T : \A j \in T : k <= j
  <2>1. T \subseteq Nat
    OBVIOUS
  <2>2. QED
    BY <1>1, <2>1, Least
<1>3. k \in 0 .. n /\ k # 0
  OBVIOUS
<1>4. k \in 1 .. n /\ k - 1 \in 0 .. n /\ ~(k <= k - 1)
  BY <1>3
<1>5. f[k - 1] \in X
  BY <1>2, <1>4
<1>6. QED
  BY <1>4, <1>5

\* A loop that starts in X and whose passes stay in X has a run.
Pass(f, first, pass, i) == IF i = 0 THEN first ELSE pass[<<f[i - 1], i>>]

HasRun(X, first, pass, n) ==
  \E f \in [0 .. n -> X] : \A i \in 0 .. n : f[i] = Pass(f, first, pass, i)

LEMMA LoopRuns ==
  ASSUME NEW X, NEW first \in X, NEW n \in Nat, NEW pass \in [X \X (1 .. n) -> X]
  PROVE  HasRun(X, first, pass, n)
<1> DEFINE Runs(k) == HasRun(X, first, pass, k)
           T == {k \in 0 .. n : ~Runs(k)}
<1>1. SUFFICES ASSUME T # {} PROVE FALSE
  <2>1. n \in 0 .. n
    OBVIOUS
  <2>2. QED
    BY <2>1, <1>1
<1>2. PICK k \in T : \A j \in T : k <= j
  <2>1. T \subseteq Nat
    OBVIOUS
  <2>2. QED
    BY <1>1, <2>1, Least
<1>3. k \in 0 .. n /\ ~Runs(k)
  OBVIOUS
<1>4. k # 0
  <2>1. ASSUME k = 0 PROVE Runs(0)
    <3> DEFINE f == [i \in 0 .. 0 |-> first]
    <3>1. f \in [0 .. 0 -> X] /\ \A i \in 0 .. 0 : f[i] = Pass(f, first, pass, i)
      BY DEF Pass
    <3>2. QED
      BY <3>1 DEF HasRun
  <2>2. QED
    BY <1>3, <2>1
<1>5. k - 1 \in 0 .. n /\ k \in 1 .. n /\ ~(k <= k - 1)
  BY <1>3, <1>4
<1>6. Runs(k - 1)
  BY <1>2, <1>5
<1>7. PICK f \in [0 .. k - 1 -> X] : \A i \in 0 .. k - 1 : f[i] = Pass(f, first, pass, i)
  BY <1>6 DEF HasRun
<1> DEFINE g == [i \in 0 .. k |-> IF i = k THEN pass[<<f[k - 1], k>>] ELSE f[i]]
<1>8. f[k - 1] \in X /\ pass[<<f[k - 1], k>>] \in X
  BY <1>5
<1>9. \A i \in 0 .. k : i = k \/ i \in 0 .. k - 1
  BY <1>5
<1>10. g \in [0 .. k -> X]
  BY <1>8, <1>9
<1>11. ASSUME NEW i \in 0 .. k PROVE g[i] = Pass(g, first, pass, i)
  <2>1. i # 0 => i - 1 \in 0 .. k /\ i - 1 # k
    BY <1>5
  <2>2. i # 0 => g[i - 1] = f[i - 1]
    BY <2>1
  <2>3. Pass(g, first, pass, i) = Pass(f, first, pass, i)
    BY <2>2 DEF Pass
  <2>4. CASE i = k
    BY <2>4, <2>3, <1>4 DEF Pass
  <2>5. CASE i # k
    BY <2>5, <2>3, <1>7, <1>9
  <2>6. QED
    BY <2>4, <2>5
<1> HIDE DEF g
<1>12. Runs(k)
  BY <1>10, <1>11 DEF HasRun
<1>13. QED
  BY <1>3, <1>12

\* There are n numbers from 1 to n.
LEMMA UpTo == \A n \in Nat : IsFiniteSet(1 .. n) /\ Cardinality(1 .. n) = n
<1> TAKE n \in Nat
<1>1. 1 \in Int /\ n \in Int
  OBVIOUS
<1>2. IsFiniteSet(1 .. n) /\ Cardinality(1 .. n) = IF 1 > n THEN 0 ELSE n - 1 + 1
  BY <1>1, FS_Interval
<1>3. (IF 1 > n THEN 0 ELSE n - 1 + 1) = n
  OBVIOUS
<1>4. QED
  BY <1>2, <1>3

-----------------------------------------------------------------------------
(* Lists *)

\* What is true of 0 and passed on is true up to n.
LEMMA Climb ==
  ASSUME NEW n \in Nat, NEW T, 0 \in T, \A i \in 1 .. n : i - 1 \in T => i \in T
  PROVE  \A i \in 0 .. n : i \in T
<1> DEFINE f == [i \in 0 .. n |-> i]
<1>1. f[0] \in T /\ \A i \in 0 .. n : f[i] = i
  OBVIOUS
<1>2. \A i \in 1 .. n : f[i - 1] = i - 1 /\ f[i] = i
  OBVIOUS
<1> HIDE DEF f
<1>3. \A i \in 1 .. n : f[i - 1] \in T => f[i] \in T
  BY <1>2
<1>4. \A i \in 0 .. n : f[i] \in T
  BY <1>1, <1>3, LoopKeeps
<1>5. QED
  BY <1>1, <1>4

\* The passes of the three loops.
PickedPass(list, places, before, n) ==
  IF n \in places THEN Append(before, list[n]) ELSE before

IsPicking(f, list, places) ==
  f = [n \in 0 .. Len(list) |-> IF n = 0 THEN <<>> ELSE PickedPass(list, places, f[n - 1], n)]

Picking(S, list, places, f) ==
  /\ f[0] = <<>> /\ Picked(list, places) = f[Len(list)]
  /\ \A n \in 1 .. Len(list) : f[n] = PickedPass(list, places, f[n - 1], n)
  /\ \A n \in 0 .. Len(list) : f[n] \in Seq(S)

LEMMA PickedRun ==
  ASSUME NEW S, NEW list \in Seq(S), NEW places
  PROVE  \E f : Picking(S, list, places, f)
<1> DEFINE X == Seq(S)
           pass == [p \in X \X (1 .. Len(list)) |-> PickedPass(list, places, p[1], p[2])]
           f == CHOOSE f : IsPicking(f, list, places)
<1>1. Picked(list, places) = f[Len(list)]
  BY DEF Picked, IsPicking, PickedPass
<1>2. <<>> \in X /\ Len(list) \in Nat
  OBVIOUS
<1>3. ASSUME NEW before \in X, NEW i \in 1 .. Len(list) PROVE PickedPass(list, places, before, i) \in X
  <2>1. list[i] \in S
    OBVIOUS
  <2>2. QED
    BY <2>1 DEF PickedPass
<1> HIDE DEF X
<1>4. pass \in [X \X (1 .. Len(list)) -> X]
  BY <1>3
<1>5. \E g : IsPicking(g, list, places)
  <2> HIDE DEF pass
  <2>1. HasRun(X, <<>>, pass, Len(list))
    BY <1>2, <1>4, LoopRuns
  <2>2. PICK g \in [0 .. Len(list) -> X] : \A i \in 0 .. Len(list) : g[i] = Pass(g, <<>>, pass, i)
    BY <2>1 DEF HasRun
  <2> USE DEF pass
  <2>3. ASSUME NEW i \in 0 .. Len(list)
        PROVE  g[i] = IF i = 0 THEN <<>> ELSE PickedPass(list, places, g[i - 1], i)
    <3>1. i # 0 => i \in 1 .. Len(list) /\ i - 1 \in 0 .. Len(list)
      BY <1>2
    <3>2. i # 0 => <<g[i - 1], i>> \in X \X (1 .. Len(list))
      BY <3>1
    <3>3. i # 0 => pass[<<g[i - 1], i>>] = PickedPass(list, places, g[i - 1], i)
      BY <3>2
    <3>4. QED
      BY <2>2, <3>3 DEF Pass
  <2>4. g = [i \in 0 .. Len(list) |-> g[i]]
    OBVIOUS
  <2>5. QED
    BY <2>3, <2>4 DEF IsPicking
<1>6. IsPicking(f, list, places)
  BY <1>5
<1> HIDE DEF f
<1>7. f[0] = <<>> /\ \A n \in 1 .. Len(list) : f[n] = PickedPass(list, places, f[n - 1], n)
  BY <1>2, <1>6 DEF IsPicking
<1>8. \A i \in 0 .. Len(list) : f[i] \in X
  <2>1. f[0] \in X /\ \A i \in 1 .. Len(list) : f[i - 1] \in X => f[i] \in X
    BY <1>2, <1>3, <1>7
  <2>2. QED
    BY <1>2, <2>1, LoopKeeps
<1>9. QED
  BY <1>1, <1>7, <1>8 DEF X, Picking

\* e says where the elements of l are in the list: at the places up to n, in order.
Places(list, places, n, l, e) ==
  /\ e \in [1 .. Len(l) -> 1 .. n]
  /\ \A k \in 1 .. Len(l) : e[k] \in places /\ l[k] = list[e[k]]
  /\ \A j, k \in 1 .. Len(l) : j < k => e[j] < e[k]
  /\ \A i \in 1 .. n : i \in places => \E k \in 1 .. Len(l) : e[k] = i

LEMMA PickedPlaces ==
  ASSUME NEW S, NEW list \in Seq(S), NEW places
  PROVE  /\ Picked(list, places) \in Seq(S)
         /\ \E e : Places(list, places, Len(list), Picked(list, places), e)
<1>0. PICK f : Picking(S, list, places, f)
  BY PickedRun
<1>1. /\ f[0] = <<>> /\ Picked(list, places) = f[Len(list)]
      /\ \A n \in 1 .. Len(list) : f[n] = PickedPass(list, places, f[n - 1], n)
      /\ \A n \in 0 .. Len(list) : f[n] \in Seq(S)
  BY <1>0 DEF Picking
<1>2. Len(list) \in Nat
  OBVIOUS
<1> DEFINE T == {n \in 0 .. Len(list) : \E e : Places(list, places, n, f[n], e)}
<1>3. 0 \in T
  <2> DEFINE e == [i \in 1 .. 0 |-> i]
  <2>1. Len(f[0]) = 0
    BY <1>1
  <2>2. Places(list, places, 0, f[0], e)
    BY <2>1 DEF Places
  <2>3. QED
    BY <1>2, <2>2
<1>4. ASSUME NEW n \in 1 .. Len(list), n - 1 \in T PROVE n \in T
  <2>1. PICK e : Places(list, places, n - 1, f[n - 1], e)
    BY <1>4
  <2>2. n \in Nat /\ n - 1 \in 0 .. Len(list) /\ f[n - 1] \in Seq(S) /\ Len(f[n - 1]) \in Nat
    BY <1>1, <1>2
  <2>3. CASE n \in places
    <3> DEFINE m == Len(f[n - 1])
               d == [k \in 1 .. m + 1 |-> IF k = m + 1 THEN n ELSE e[k]]
    <3>0. list[n] \in S
      OBVIOUS
    <3>1. f[n] = Append(f[n - 1], list[n]) /\ list[n] \in S
      BY <1>1, <2>3, <3>0 DEF PickedPass
    <3>2. /\ Len(f[n]) = m + 1 /\ f[n][m + 1] = list[n]
          /\ \A k \in 1 .. m : f[n][k] = f[n - 1][k]
      BY <2>2, <3>1, AppendProperties
    <3>3. m \in Nat
      BY <2>2
    <3> HIDE DEF m
    <3>4. /\ e \in [1 .. m -> 1 .. n - 1]
          /\ \A k \in 1 .. m : e[k] \in places /\ f[n - 1][k] = list[e[k]]
          /\ \A j, k \in 1 .. m : j < k => e[j] < e[k]
          /\ \A i \in 1 .. n - 1 : i \in places => \E k \in 1 .. m : e[k] = i
      BY <2>1 DEF Places, m
    <3>5. d \in [1 .. m + 1 -> 1 .. n]
      BY <2>2, <3>3, <3>4
    <3>6. d[m + 1] = n /\ \A k \in 1 .. m : d[k] = e[k] /\ k # m + 1
      BY <3>3
    <3> HIDE DEF d
    <3>7. \A k \in 1 .. m + 1 : d[k] \in places /\ f[n][k] = list[d[k]]
      <4> TAKE k \in 1 .. m + 1
      <4>1. k \in 1 .. m \/ k = m + 1
        BY <3>3
      <4>2. QED
        BY <4>1, <2>3, <3>2, <3>4, <3>6
    <3>8. ASSUME NEW j \in 1 .. m + 1, NEW k \in 1 .. m + 1, j < k PROVE d[j] < d[k]
      <4>1. j \in 1 .. m /\ (k \in 1 .. m \/ k = m + 1)
        BY <3>3, <3>8
      <4>2. CASE k \in 1 .. m
        BY <4>1, <4>2, <3>4, <3>6, <3>8
      <4>3. CASE k = m + 1
        <5>1. d[j] \in 1 .. n - 1
          BY <4>1, <3>4, <3>6
        <5>2. QED
          BY <4>3, <5>1, <3>6, <2>2
      <4>4. QED
        BY <4>1, <4>2, <4>3
    <3>9. ASSUME NEW i \in 1 .. n, i \in places PROVE \E k \in 1 .. m + 1 : d[k] = i
      <4>1. i \in 1 .. n - 1 \/ i = n
        BY <2>2
      <4>2. CASE i \in 1 .. n - 1
        <5>1. PICK k \in 1 .. m : e[k] = i
          BY <4>2, <3>4, <3>9
        <5>2. k \in 1 .. m + 1
          BY <3>3
        <5>3. QED
          BY <5>1, <5>2, <3>6
      <4>3. CASE i = n
        BY <4>3, <3>3, <3>6
      <4>4. QED
        BY <4>1, <4>2, <4>3
    <3>10. Places(list, places, n, f[n], d)
      BY <3>2, <3>5, <3>7, <3>8, <3>9 DEF Places
    <3>11. QED
      BY <3>10
  <2>4. CASE n \notin places
    <3>1. f[n] = f[n - 1]
      BY <1>1, <2>4 DEF PickedPass
    <3>2. \A i \in 1 .. n : i = n \/ i \in 1 .. n - 1
      BY <2>2
    <3>3. \A i \in 1 .. n - 1 : i \in 1 .. n
      BY <2>2
    <3>4. Places(list, places, n, f[n], e)
      BY <2>1, <2>4, <3>1, <3>2, <3>3 DEF Places
    <3>5. QED
      BY <3>4
  <2>5. QED
    BY <2>3, <2>4
<1>5. Len(list) \in T
  <2> HIDE DEF T
  <2>1. \A i \in 0 .. Len(list) : i \in T
    BY <1>2, <1>3, <1>4, Climb
  <2>2. QED
    BY <1>2, <2>1
<1>6. Picked(list, places) \in Seq(S)
  BY <1>1, <1>2
<1>7. QED
  BY <1>1, <1>5, <1>6

IsSumming(f, list) ==
  f = [n \in 0 .. Len(list) |-> IF n = 0 THEN 0 ELSE f[n - 1] + list[n]]

Summing(list, f) ==
  /\ f[0] = 0 /\ Summed(list) = f[Len(list)]
  /\ \A n \in 1 .. Len(list) : f[n] = f[n - 1] + list[n]
  /\ \A n \in 0 .. Len(list) : f[n] \in Nat

LEMMA SummedRun ==
  ASSUME NEW list \in Seq(Nat)
  PROVE  \E f : Summing(list, f)
<1> DEFINE pass == [p \in Nat \X (1 .. Len(list)) |-> p[1] + list[p[2]]]
           f == CHOOSE f : IsSumming(f, list)
<1>1. Summed(list) = f[Len(list)]
  BY DEF Summed, IsSumming
<1>2. Len(list) \in Nat /\ \A i \in 1 .. Len(list) : list[i] \in Nat
  OBVIOUS
<1>3. pass \in [Nat \X (1 .. Len(list)) -> Nat]
  BY <1>2
<1>4. \E g : IsSumming(g, list)
  <2> HIDE DEF pass
  <2>1. HasRun(Nat, 0, pass, Len(list))
    BY <1>2, <1>3, LoopRuns
  <2>2. PICK g \in [0 .. Len(list) -> Nat] : \A i \in 0 .. Len(list) : g[i] = Pass(g, 0, pass, i)
    BY <2>1 DEF HasRun
  <2> USE DEF pass
  <2>3. ASSUME NEW i \in 0 .. Len(list)
        PROVE  g[i] = IF i = 0 THEN 0 ELSE g[i - 1] + list[i]
    <3>1. i # 0 => i \in 1 .. Len(list) /\ i - 1 \in 0 .. Len(list)
      BY <1>2
    <3>2. i # 0 => <<g[i - 1], i>> \in Nat \X (1 .. Len(list))
      BY <3>1
    <3>3. i # 0 => pass[<<g[i - 1], i>>] = g[i - 1] + list[i]
      BY <3>2
    <3>4. QED
      BY <2>2, <3>3 DEF Pass
  <2>4. g = [i \in 0 .. Len(list) |-> g[i]]
    OBVIOUS
  <2>5. QED
    BY <2>3, <2>4 DEF IsSumming
<1>5. IsSumming(f, list)
  BY <1>4
<1> HIDE DEF f
<1>6. f[0] = 0 /\ \A n \in 1 .. Len(list) : f[n] = f[n - 1] + list[n]
  BY <1>2, <1>5 DEF IsSumming
<1>7. \A i \in 0 .. Len(list) : f[i] \in Nat
  <2>1. f[0] \in Nat /\ \A i \in 1 .. Len(list) : f[i - 1] \in Nat => f[i] \in Nat
    BY <1>2, <1>6
  <2>2. QED
    BY <1>2, <2>1, LoopKeeps
<1>8. QED
  BY <1>1, <1>6, <1>7 DEF Summing

LEMMA SummedNat == \A list \in Seq(Nat) : Summed(list) \in Nat
<1> TAKE list \in Seq(Nat)
<1>1. PICK f : Summing(list, f)
  BY SummedRun
<1>2. Len(list) \in 0 .. Len(list)
  OBVIOUS
<1>3. QED
  BY <1>1, <1>2 DEF Summing

LEMMA SummedEmpty == Summed(<<>>) = 0
<1>1. <<>> \in Seq(Nat) /\ Len(<<>>) = 0
  OBVIOUS
<1>2. PICK f : Summing(<<>>, f)
  BY <1>1, SummedRun
<1>3. QED
  BY <1>1, <1>2 DEF Summing

LEMMA SummedConcat ==
  ASSUME NEW a \in Seq(Nat), NEW b \in Seq(Nat)
  PROVE  Summed(a \o b) = Summed(a) + Summed(b)
<1> DEFINE c == a \o b
<1>1. /\ c \in Seq(Nat) /\ Len(c) = Len(a) + Len(b) /\ Len(a) \in Nat /\ Len(b) \in Nat
      /\ \A i \in 1 .. Len(a) : c[i] = a[i]
      /\ \A i \in 1 .. Len(b) : c[Len(a) + i] = b[i]
  OBVIOUS
<1> HIDE DEF c
<1>2. PICK f : Summing(a, f)
  BY SummedRun
<1>3. PICK g : Summing(b, g)
  BY SummedRun
<1>4. PICK h : Summing(c, h)
  BY <1>1, SummedRun
<1> DEFINE T == {n \in 0 .. Len(a) : h[n] = f[n]}
           U == {n \in 0 .. Len(b) : h[Len(a) + n] = f[Len(a)] + g[n]}
<1>5. \A n \in 0 .. Len(a) : n \in T
  <2>1. 0 \in T
    BY <1>1, <1>2, <1>4 DEF Summing
  <2>2. ASSUME NEW n \in 1 .. Len(a), n - 1 \in T PROVE n \in T
    <3>1. n \in 1 .. Len(c) /\ c[n] = a[n] /\ n \in 0 .. Len(a)
      BY <1>1
    <3>2. h[n] = h[n - 1] + c[n] /\ f[n] = f[n - 1] + a[n]
      BY <3>1, <1>2, <1>4 DEF Summing
    <3>3. QED
      BY <2>2, <3>1, <3>2
  <2> HIDE DEF T
  <2>3. QED
    BY <1>1, <2>1, <2>2, Climb
<1>6. f[Len(a)] \in Nat /\ \A n \in 0 .. Len(b) : g[n] \in Nat
  BY <1>1, <1>2, <1>3 DEF Summing
<1>7. \A n \in 0 .. Len(b) : n \in U
  <2>1. 0 \in U
    <3>1. Len(a) \in T
      BY <1>1, <1>5
    <3>2. h[Len(a) + 0] = f[Len(a)] + g[0]
      BY <1>1, <1>3, <1>6, <3>1 DEF Summing
    <3>3. QED
      BY <1>1, <3>2
  <2>2. ASSUME NEW n \in 1 .. Len(b), n - 1 \in U PROVE n \in U
    <3>1. Len(a) + n \in 1 .. Len(c) /\ c[Len(a) + n] = b[n] /\ n \in 0 .. Len(b)
          /\ Len(a) + n - 1 = Len(a) + (n - 1) /\ n - 1 \in 0 .. Len(b) /\ b[n] \in Nat
      BY <1>1
    <3>2. h[Len(a) + n] = h[Len(a) + n - 1] + c[Len(a) + n] /\ g[n] = g[n - 1] + b[n]
      BY <3>1, <1>3, <1>4 DEF Summing
    <3>3. h[Len(a) + (n - 1)] = f[Len(a)] + g[n - 1]
      BY <2>2
    <3>4. h[Len(a) + n] = f[Len(a)] + g[n]
      <4>1. h[Len(a) + n] = h[Len(a) + (n - 1)] + b[n]
        BY <3>1, <3>2
      <4>2. f[Len(a)] \in Nat /\ g[n - 1] \in Nat
        BY <3>1, <1>6
      <4>3. QED
        BY <4>1, <4>2, <3>1, <3>2, <3>3
    <3>5. QED
      BY <3>1, <3>4
  <2> HIDE DEF U
  <2>3. QED
    BY <1>1, <2>1, <2>2, Climb
<1>8. h[Len(a) + Len(b)] = f[Len(a)] + g[Len(b)]
  BY <1>1, <1>7
<1>9. QED
  BY <1>1, <1>2, <1>3, <1>4, <1>8 DEF Summing, c

LEMMA SummedMore ==
  ASSUME NEW list \in Seq(Nat), NEW x \in Nat
  PROVE  Summed(Append(list, x)) = Summed(list) + x
<1>1. PICK f : Summing(list, f)
  BY SummedRun
<1>2. Append(list, x) \in Seq(Nat) /\ Append(list, x) = list \o <<x>> /\ <<x>> \in Seq(Nat)
  OBVIOUS
<1>3. PICK g : Summing(<<x>>, g)
  BY <1>2, SummedRun
<1>4. Len(<<x>>) = 1 /\ <<x>>[1] = x
  OBVIOUS
<1>5. Summed(<<x>>) = x
  BY <1>3, <1>4 DEF Summing
<1>6. QED
  BY <1>2, <1>5, SummedConcat

\* One number of the list becomes another.
LEMMA SummedChanged ==
  ASSUME NEW list \in Seq(Nat), NEW other \in Seq(Nat), Len(other) = Len(list),
         NEW i \in 1 .. Len(list), \A k \in 1 .. Len(list) : k # i => other[k] = list[k]
  PROVE  Summed(other) = Summed(list) - list[i] + other[i]
<1>1. PICK f : Summing(list, f)
  BY SummedRun
<1>2. PICK g : Summing(other, g)
  BY SummedRun
<1>3. Len(list) \in Nat /\ list[i] \in Nat /\ other[i] \in Nat
  OBVIOUS
<1> DEFINE d == other[i] - list[i]
           T == {n \in 0 .. Len(list) : g[n] = IF n < i THEN f[n] ELSE f[n] + d}
<1>4. d \in Int
  BY <1>3
<1>5. \A n \in 0 .. Len(list) : n \in T
  <2>1. 0 \in T
    BY <1>1, <1>2, <1>3 DEF Summing
  <2>2. ASSUME NEW n \in 1 .. Len(list), n - 1 \in T PROVE n \in T
    <3>1. /\ n \in 0 .. Len(list) /\ n - 1 \in 0 .. Len(list) /\ list[n] \in Nat /\ other[n] \in Nat
      BY <1>3
    <3>2. f[n] = f[n - 1] + list[n] /\ g[n] = g[n - 1] + other[n] /\ f[n - 1] \in Nat
      BY <3>1, <1>1, <1>2 DEF Summing
    <3>3. g[n - 1] = IF n - 1 < i THEN f[n - 1] ELSE f[n - 1] + d
      BY <2>2
    <3>4. CASE n < i
      <4>1. other[n] = list[n]
        BY <3>4
      <4>2. QED
        BY <3>1, <3>2, <3>3, <3>4, <4>1
    <3>5. CASE n = i
      <4>1. g[n - 1] = f[n - 1]
        BY <3>3, <3>5
      <4>2. g[n] = f[n] + d
        BY <3>1, <3>2, <3>5, <4>1
      <4>3. QED
        BY <3>1, <3>5, <4>2
    <3>6. CASE n > i
      <4>1. other[n] = list[n] /\ ~(n - 1 < i) /\ ~(n < i)
        BY <3>6
      <4> HIDE DEF d
      <4>2. g[n] = f[n] + d
        BY <3>1, <3>2, <3>3, <4>1, <1>4
      <4>3. QED
        BY <3>1, <4>1, <4>2
    <3>7. QED
      BY <3>4, <3>5, <3>6
  <2> HIDE DEF T
  <2>3. QED
    BY <1>3, <2>1, <2>2, Climb
<1>6. g[Len(list)] = f[Len(list)] + d /\ f[Len(list)] \in Nat
  BY <1>1, <1>3, <1>5 DEF Summing
<1>7. QED
  BY <1>1, <1>2, <1>3, <1>6 DEF Summing

Valued(v, list) == [i \in 1 .. Len(list) |-> v[list[i]]]

\* Nothing is lost by leaving out what counts for nothing.
LEMMA SummedPicked ==
  ASSUME NEW S, NEW list \in Seq(S), NEW places, NEW v \in [S -> Nat],
         \A i \in 1 .. Len(list) : i \notin places => v[list[i]] = 0
  PROVE  Summed(Valued(v, Picked(list, places))) = Summed(Valued(v, list))
<1> USE DEF Valued
<1>1. PICK f : Picking(S, list, places, f)
  BY PickedRun
<1>2. Len(list) \in Nat /\ \A i \in 1 .. Len(list) : list[i] \in S
  OBVIOUS
<1>3. \A l \in Seq(S) : Valued(v, l) \in Seq(Nat) /\ Len(Valued(v, l)) = Len(l)
  OBVIOUS
<1>4. PICK g : Summing(Valued(v, list), g)
  BY <1>3, SummedRun
<1> DEFINE T == {n \in 0 .. Len(list) : Summed(Valued(v, f[n])) = g[n]}
<1>5. 0 \in T
  <2>1. Valued(v, f[0]) = <<>>
    BY <1>1 DEF Picking
  <2>2. g[0] = 0
    BY <1>4 DEF Summing
  <2>3. QED
    <3>1. Summed(Valued(v, f[0])) = g[0]
      BY <2>1, <2>2, SummedEmpty
    <3>2. QED
      BY <1>2, <3>1
<1>6. ASSUME NEW n \in 1 .. Len(list), n - 1 \in T PROVE n \in T
  <2>1. n \in 0 .. Len(list) /\ n - 1 \in 0 .. Len(list) /\ list[n] \in S /\ n \in 1 .. Len(Valued(v, list))
    BY <1>2, <1>3
  <2>2. g[n] = g[n - 1] + v[list[n]] /\ g[n - 1] \in Nat /\ v[list[n]] \in Nat
    <3>1. Valued(v, list)[n] = v[list[n]]
      OBVIOUS
    <3>2. Len(Valued(v, list)) = Len(list)
      BY <1>3
    <3>3. QED
      BY <2>1, <3>1, <3>2, <1>4 DEF Summing
  <2>3. Summed(Valued(v, f[n - 1])) = g[n - 1]
    BY <1>6
  <2>4. f[n - 1] \in Seq(S) /\ f[n] = PickedPass(list, places, f[n - 1], n)
    BY <2>1, <1>1 DEF Picking
  <2>5. CASE n \in places
    <3>1. f[n] = Append(f[n - 1], list[n])
      BY <2>4, <2>5 DEF PickedPass
    <3>2. Valued(v, f[n]) = Append(Valued(v, f[n - 1]), v[list[n]])
      <4> DEFINE m == f[n - 1]
      <4>1. m \in Seq(S) /\ Len(m) \in Nat /\ f[n] = Append(m, list[n])
        BY <2>4, <3>1
      <4> HIDE DEF m
      <4>2. Len(Append(m, list[n])) = Len(m) + 1
        BY <4>1, <2>1
      <4>3. QED
        BY <4>1, <4>2, <2>1 DEF m
    <3>3. Summed(Valued(v, f[n])) = Summed(Valued(v, f[n - 1])) + v[list[n]]
      BY <2>2, <2>4, <1>3, <3>2, SummedMore
    <3>4. QED
      BY <2>1, <2>2, <2>3, <3>3
  <2>6. CASE n \notin places
    <3>1. f[n] = f[n - 1] /\ v[list[n]] = 0
      BY <2>4, <2>6 DEF PickedPass
    <3>2. g[n] = g[n - 1]
      BY <2>2, <3>1
    <3>3. QED
      BY <2>1, <2>3, <3>1, <3>2
  <2>7. QED
    BY <2>5, <2>6
<1>7. Len(list) \in T
  <2> HIDE DEF T
  <2>1. \A n \in 0 .. Len(list) : n \in T
    BY <1>2, <1>5, <1>6, Climb
  <2>2. QED
    BY <1>2, <2>1
<1>8. Summed(Valued(v, f[Len(list)])) = Summed(Valued(v, list))
  BY <1>3, <1>4, <1>7 DEF Summing
<1>9. QED
  BY <1>1, <1>8 DEF Picking

-----------------------------------------------------------------------------
(* DRIFT: the budget *)

DriftTypes ==
  /\ {Folds, MaxPrompt, Feedback, MaxDepth, BatchSize, MaxBranches, ModelCalls, PromptTokens,
      OutputTokens, HyDEMax, PrimerMax, BranchMax, ReduceMax} \subseteq Nat
  /\ Prompts \subseteq Nat

LEMMA DriftConstants ==
  ASSUME Search!Assumptions
  PROVE  DriftTypes
BY DEF Search!Assumptions, DriftTypes

Budgets ==
  [calls : Nat, prompt : Nat, output : Nat, active : Nat, heldCalls : {0, 1},
   heldOutput : {0, ReduceMax}]

\* What a reservation and the end of a call do to a budget.
LEMMA ReserveIs ==
  ASSUME NEW bud \in Budgets, NEW prompt \in Nat, NEW limit \in Nat
  PROVE  LET new == Search!Reserve(bud, prompt, limit)
         IN  /\ new \in Budgets
             /\ new.calls = bud.calls + 1 /\ new.prompt = bud.prompt + prompt
             /\ new.active = bud.active + limit /\ new.output = bud.output
             /\ new.heldCalls = bud.heldCalls /\ new.heldOutput = bud.heldOutput
<1> DEFINE called == bud.calls + 1
           size == bud.prompt + prompt
           active == bud.active + limit
           new == [bud EXCEPT !.calls = called, !.prompt = size, !.active = active]
<1>1. called \in Nat /\ size \in Nat /\ active \in Nat
  BY DEF Budgets
<1>2. Search!Reserve(bud, prompt, limit) = new
  BY DEF Search!Reserve, Budgets
<1> HIDE DEF called, size, active
<1>3. /\ new \in Budgets
      /\ new.calls = called /\ new.prompt = size /\ new.active = active /\ new.output = bud.output
      /\ new.heldCalls = bud.heldCalls /\ new.heldOutput = bud.heldOutput
  BY <1>1 DEF Budgets
<1>4. QED
  BY <1>2, <1>3 DEF called, size, active

\* end is that of a call within the limit, or not, with the budget and the usage before it.
Closed(bud, limit, used, end) ==
  /\ end.kind \in {"error", "text", "overrun"}
  /\ end.budget \in Budgets /\ end.used \in Search!Usages
  /\ end.budget.calls = bud.calls /\ end.budget.prompt = bud.prompt
  /\ end.budget.heldCalls = bud.heldCalls /\ end.budget.heldOutput = bud.heldOutput
  /\ end.budget.active = bud.active - limit
  /\ end.used.calls = used.calls /\ end.used.prompt = used.prompt
  /\ end.used.output >= used.output
  /\ end.budget.output = bud.output + (end.used.output - used.output)
  /\ end.kind # "overrun" => end.used.output <= used.output + limit

LEMMA EndsAre ==
  ASSUME NEW bud \in Budgets, NEW limit \in Nat, NEW used \in Search!Usages,
         bud.active >= limit, NEW end \in Search!Ends(bud, limit, used)
  PROVE  Closed(bud, limit, used, end)
<1> DEFINE Finished(output) == Search!Finish(bud, limit, output)
<1>1. bud.active \in Nat /\ bud.output \in Nat /\ used.output \in Nat
  BY DEF Budgets, Search!Usages
<1>2. ASSUME NEW output \in Nat
      PROVE  /\ Finished(output) \in Budgets
             /\ Finished(output).calls = bud.calls /\ Finished(output).prompt = bud.prompt
             /\ Finished(output).heldCalls = bud.heldCalls
             /\ Finished(output).heldOutput = bud.heldOutput
             /\ Finished(output).active = bud.active - limit
             /\ Finished(output).output = bud.output + output
  <2> DEFINE active == IF bud.active > limit THEN bud.active - limit ELSE 0
  <2>1. active = bud.active - limit /\ active \in Nat /\ bud.output + output \in Nat
    BY <1>1
  <2>2. Finished(output) = [bud EXCEPT !.active = active, !.output = bud.output + output]
    BY DEF Search!Finish, Budgets
  <2> HIDE DEF active, Finished
  <2>3. QED
    BY <2>1, <2>2 DEF Budgets
<1> HIDE DEF Finished
<1>3. CASE end = [kind |-> "error", budget |-> Finished(0), used |-> used]
  BY <1>1, <1>2, <1>3 DEF Closed
<1>4. CASE \E output \in Search!Outputs(limit) :
             end = [kind |-> IF output > limit THEN "overrun" ELSE "text",
                    budget |-> Finished(output),
                    used |-> Search!AddUsage(used, Search!Used(0, 0, output))]
  <2>1. PICK output \in 0 .. limit + 1 :
          end = [kind |-> IF output > limit THEN "overrun" ELSE "text",
                 budget |-> Finished(output),
                 used |-> Search!AddUsage(used, Search!Used(0, 0, output))]
    BY <1>4 DEF Search!Outputs
  <2>2. output \in Nat /\ (end.kind # "overrun" => output <= limit)
        /\ end.kind \in {"text", "overrun"} /\ end.budget = Finished(output)
    BY <2>1
  <2>3. /\ end.used \in Search!Usages /\ end.used.calls = used.calls
        /\ end.used.prompt = used.prompt /\ end.used.output = used.output + output
    BY <2>1, <2>2 DEF Search!AddUsage, Search!Used, Search!Usages
  <2>4. QED
    BY <1>1, <1>2, <2>2, <2>3 DEF Closed
<1>5. QED
  BY <1>3, <1>4 DEF Search!Ends, Finished

\* The limits of the request, up to the output, which an answer can exceed.
Counted(bud) == bud.calls + bud.heldCalls <= ModelCalls /\ bud.prompt <= PromptTokens
Covered(bud) == bud.output + bud.heldOutput + bud.active <= OutputTokens

\* end is that of a call that was reserved with that prompt, and of the one that corrects it.
Answered(bud, prompt, limit, end) ==
  /\ end.kind \in {"error", "overrun", "answer", "invalid"}
  /\ end.budget \in Budgets /\ end.used \in Search!Usages
  /\ end.budget.heldCalls = bud.heldCalls /\ end.budget.heldOutput = bud.heldOutput
  /\ end.budget.active = bud.active - limit
  /\ end.used.calls >= 1 /\ end.used.prompt >= prompt
  /\ end.budget.calls = bud.calls + (end.used.calls - 1)
  /\ end.budget.prompt = bud.prompt + (end.used.prompt - prompt)
  /\ end.budget.output = bud.output + end.used.output
  /\ Counted(bud) => Counted(end.budget)
  /\ Covered(bud) /\ end.kind # "overrun" => Covered(end.budget)

LEMMA OutcomesAre ==
  ASSUME DriftTypes, NEW bud \in Budgets, NEW prompt \in Nat, NEW limit \in Nat,
         bud.active >= limit, NEW end \in Search!Outcomes(bud, prompt, limit)
  PROVE  Answered(bud, prompt, limit, end)
<1> DEFINE used == Search!Used(1, prompt, 0)
           first == Search!Ends(bud, limit, used)
           more(e) == Search!Reserve(e.budget, Search!Conversation(e), limit)
           sent(e) == Search!AddUsage(e.used, Search!Used(1, Search!Conversation(e), 0))
           correctable == {e \in first : /\ e.kind = "text"
                                         /\ Search!CanReserve(e.budget, Search!Conversation(e), limit)}
           last == first \cup UNION {Search!Ends(more(e), limit, sent(e)) : e \in correctable}
           Sound(e) ==
             /\ e.budget \in Budgets /\ e.used \in Search!Usages
             /\ e.budget.heldCalls = bud.heldCalls /\ e.budget.heldOutput = bud.heldOutput
             /\ e.budget.active = bud.active - limit
             /\ e.used.calls >= 1 /\ e.used.prompt >= prompt
             /\ e.budget.calls = bud.calls + (e.used.calls - 1)
             /\ e.budget.prompt = bud.prompt + (e.used.prompt - prompt)
             /\ e.budget.output = bud.output + e.used.output
             /\ Counted(bud) => Counted(e.budget)
             /\ Covered(bud) /\ e.kind # "overrun" => Covered(e.budget)
<1>1. used \in Search!Usages /\ used.calls = 1 /\ used.prompt = prompt /\ used.output = 0
  BY DEF Search!Used, Search!Usages
<1>2. /\ bud.calls \in Nat /\ bud.prompt \in Nat /\ bud.output \in Nat /\ bud.active \in Nat
      /\ bud.heldCalls \in Nat /\ bud.heldOutput \in Nat
  BY DEF Budgets, DriftTypes
<1>3. ASSUME NEW e \in first PROVE Closed(bud, limit, used, e)
  BY <1>1, EndsAre
<1> HIDE DEF used
<1>4. ASSUME NEW e \in first PROVE Sound(e) /\ e.kind \in {"error", "text", "overrun"}
  <2>1. Closed(bud, limit, used, e)
    BY <1>3
  <2>2. e.used.output \in Nat /\ e.used.calls \in Nat /\ e.used.prompt \in Nat
    BY <2>1 DEF Closed, Search!Usages
  <2>3. Counted(bud) => Counted(e.budget)
    BY <2>1 DEF Closed, Counted
  <2>4. Covered(bud) /\ e.kind # "overrun" => Covered(e.budget)
    <3> SUFFICES ASSUME Covered(bud), e.kind # "overrun" PROVE Covered(e.budget)
      OBVIOUS
    <3>1. e.used.output <= limit /\ e.budget.output = bud.output + e.used.output
          /\ e.budget.active = bud.active - limit /\ e.budget.heldOutput = bud.heldOutput
      BY <1>1, <2>1, <2>2 DEF Closed
    <3>2. QED
      BY <1>2, <2>2, <3>1 DEF Covered, DriftTypes
  <2>5. QED
    BY <1>1, <1>2, <2>1, <2>2, <2>3, <2>4 DEF Closed
<1>5. ASSUME NEW e \in correctable, NEW c \in Search!Ends(more(e), limit, sent(e))
      PROVE  Sound(c) /\ c.kind \in {"error", "text", "overrun"}
  <2>1. e \in first /\ Sound(e) /\ Search!CanReserve(e.budget, Search!Conversation(e), limit)
    BY <1>4
  <2>2. /\ e.budget.calls \in Nat /\ e.budget.prompt \in Nat /\ e.budget.output \in Nat
        /\ e.budget.active \in Nat /\ e.budget.heldCalls \in Nat /\ e.budget.heldOutput \in Nat
        /\ e.used.calls \in Nat /\ e.used.prompt \in Nat /\ e.used.output \in Nat
    BY <2>1 DEF Budgets, DriftTypes, Search!Usages
  <2> DEFINE size == Search!Conversation(e)
  <2>3. size \in Nat
    BY <2>2 DEF Search!Conversation, DriftTypes
  <2>4. /\ more(e) \in Budgets
        /\ more(e).calls = e.budget.calls + 1 /\ more(e).prompt = e.budget.prompt + size
        /\ more(e).active = e.budget.active + limit /\ more(e).output = e.budget.output
        /\ more(e).heldCalls = e.budget.heldCalls /\ more(e).heldOutput = e.budget.heldOutput
    BY <2>1, <2>3, ReserveIs
  <2>5. /\ sent(e) \in Search!Usages /\ sent(e).calls = e.used.calls + 1
        /\ sent(e).prompt = e.used.prompt + size /\ sent(e).output = e.used.output
    BY <2>2, <2>3 DEF Search!AddUsage, Search!Used, Search!Usages
  <2>6. /\ e.budget.calls + e.budget.heldCalls + 1 <= ModelCalls
        /\ e.budget.prompt + size <= PromptTokens
        /\ e.budget.output + e.budget.heldOutput + e.budget.active + limit <= OutputTokens
    BY <2>1 DEF Search!CanReserve
  <2> HIDE DEF size, more, sent, Sound
  <2>7. Closed(more(e), limit, sent(e), c)
    BY <2>2, <2>4, <2>5, EndsAre
  <2>8. c.used.output \in Nat /\ c.used.calls \in Nat /\ c.used.prompt \in Nat
    BY <2>7 DEF Closed, Search!Usages
  <2>9. Counted(c.budget)
    BY <2>2, <2>3, <2>4, <2>6, <2>7 DEF Closed, Counted, DriftTypes
  <2>10. c.kind # "overrun" => Covered(c.budget)
    <3> SUFFICES ASSUME c.kind # "overrun" PROVE Covered(c.budget)
      OBVIOUS
    <3>1. /\ c.used.output <= e.used.output + limit
          /\ c.budget.output = e.budget.output + (c.used.output - e.used.output)
      BY <2>4, <2>5, <2>7 DEF Closed
    <3>2. c.budget.active = e.budget.active /\ c.budget.heldOutput = e.budget.heldOutput
      BY <2>2, <2>4, <2>7 DEF Closed
    <3>3. QED
      BY <2>2, <2>6, <2>8, <3>1, <3>2 DEF Covered, DriftTypes
  <2>11. QED
    <3>1. /\ c.budget \in Budgets /\ c.used \in Search!Usages
          /\ c.kind \in {"error", "text", "overrun"}
      BY <2>7 DEF Closed
    <3>2. /\ e.budget.heldCalls = bud.heldCalls /\ e.budget.heldOutput = bud.heldOutput
          /\ e.budget.active = bud.active - limit
          /\ e.used.calls >= 1 /\ e.used.prompt >= prompt
          /\ e.budget.calls = bud.calls + (e.used.calls - 1)
          /\ e.budget.prompt = bud.prompt + (e.used.prompt - prompt)
          /\ e.budget.output = bud.output + e.used.output
      BY <2>1 DEF Sound
    <3>3. /\ c.budget.heldCalls = e.budget.heldCalls /\ c.budget.heldOutput = e.budget.heldOutput
          /\ c.budget.active = e.budget.active
          /\ c.used.calls = e.used.calls + 1 /\ c.used.prompt = e.used.prompt + size
          /\ c.budget.calls = e.budget.calls + 1 /\ c.budget.prompt = e.budget.prompt + size
      BY <2>2, <2>4, <2>5, <2>7 DEF Closed
    <3>4. c.budget.output = e.budget.output + (c.used.output - e.used.output)
      BY <2>4, <2>5, <2>7 DEF Closed
    <3>5. /\ c.used.calls >= 1 /\ c.used.prompt >= prompt
          /\ c.budget.calls = bud.calls + (c.used.calls - 1)
          /\ c.budget.prompt = bud.prompt + (c.used.prompt - prompt)
      <4>1. c.used.calls >= 1 /\ c.used.prompt >= prompt
        BY <2>2, <2>3, <3>2, <3>3
      <4>2. c.budget.calls = bud.calls + (c.used.calls - 1)
        BY <1>2, <2>2, <3>2, <3>3
      <4>3. c.budget.prompt = bud.prompt + (c.used.prompt - prompt)
        BY <1>2, <2>2, <2>3, <3>2, <3>3
      <4>4. QED
        BY <4>1, <4>2, <4>3
    <3>6. c.budget.output = bud.output + c.used.output
      BY <1>2, <2>2, <2>8, <3>2, <3>4
    <3>7. QED
      BY <2>9, <2>10, <3>1, <3>2, <3>3, <3>5, <3>6 DEF Sound
<1>6. ASSUME NEW e \in last PROVE Sound(e) /\ e.kind \in {"error", "text", "overrun"}
  BY <1>4, <1>5
<1> HIDE DEF last
<1>7. CASE end \in {e \in last : e.kind # "text"}
  BY <1>6, <1>7 DEF Answered
<1>8. CASE \E e \in last : e.kind = "text" /\ \E kind \in {"answer", "invalid"} :
                              end = [e EXCEPT !.kind = kind]
  <2>1. PICK e \in last : e.kind = "text" /\ \E kind \in {"answer", "invalid"} :
                            end = [e EXCEPT !.kind = kind]
    BY <1>8
  <2>2. PICK kind \in {"answer", "invalid"} : end = [e EXCEPT !.kind = kind]
    BY <2>1
  <2>3. end.kind = kind /\ end.budget = e.budget /\ end.used = e.used
    BY <2>2
  <2>4. Sound(e)
    BY <1>6
  <2>5. QED
    BY <2>1, <2>3, <2>4 DEF Answered
<1>9. QED
  BY <1>7, <1>8 DEF Search!Outcomes, last, first, correctable, used

LEMMA SummedZeros ==
  ASSUME NEW list \in Seq(Nat), \A i \in 1 .. Len(list) : list[i] = 0
  PROVE  Summed(list) = 0
<1>1. PICK f : Summing(list, f)
  BY SummedRun
<1>2. Len(list) \in Nat
  OBVIOUS
<1> DEFINE T == {n \in 0 .. Len(list) : f[n] = 0}
<1>3. 0 \in T
  BY <1>1, <1>2 DEF Summing
<1>4. ASSUME NEW n \in 1 .. Len(list), n - 1 \in T PROVE n \in T
  <2>1. f[n] = f[n - 1] + list[n] /\ f[n - 1] = 0 /\ list[n] = 0
    BY <1>1, <1>4 DEF Summing
  <2>2. QED
    BY <2>1, <1>2
<1> HIDE DEF T
<1>5. \A n \in 0 .. Len(list) : n \in T
  BY <1>2, <1>3, <1>4, Climb
<1>6. QED
  BY <1>1, <1>2, <1>5 DEF Summing, T

-----------------------------------------------------------------------------
(* DRIFT: the graph *)

\* Drift works with the lists of an instance of its own.
LEMMA SearchLists ==
  /\ \A list, places : Search!Picked(list, places) = Picked(list, places)
  /\ \A list : Search!Summed(list) = Summed(list)
BY DEF Search!Picked, Picked, Search!Summed, Summed

Statuses == Search!Attempted \cup {"pending", "cancelled"}

Branch == [question : Search!Questions, depth : Nat, status : Statuses, used : Search!Usages]

Edge == Search!Questions \X Search!Questions

\* A question that branches may follow from, and its depth.
Source(br, question, depth) ==
  \/ question = Root /\ depth = 0
  \/ \E i \in 1 .. Len(br) : /\ br[i].question = question /\ br[i].status = "succeeded"
                             /\ br[i].depth = depth

Named(br, question) == \E i \in 1 .. Len(br) : br[i].question = question

\* The graph at any time: every branch is there once, edges lead from questions
\* with an answer to the branches that follow, which are as shallow as can be.
Traceable(br, ed) ==
  /\ \A i \in 1 .. Len(br) : br[i].question # Root /\ br[i].depth \in 1 .. MaxDepth
  /\ \A i, j \in 1 .. Len(br) : br[i].question = br[j].question => i = j
  /\ \A e \in ed : /\ \E depth \in Nat : Source(br, e[1], depth)
                   /\ e[2] = Root \/ Named(br, e[2])
  /\ \A i \in 1 .. Len(br) :
       \E e \in ed : e[2] = br[i].question /\ Source(br, e[1], br[i].depth - 1)
  /\ \A i \in 1 .. Len(br) : \A e \in ed, depth \in Nat :
       e[2] = br[i].question /\ Source(br, e[1], depth) => br[i].depth <= depth + 1

\* Breadth first: depths grow along the branches, and no branch is two levels
\* below one that is not asked yet.
InOrder(br) ==
  /\ \A i, j \in 1 .. Len(br) : i < j => br[i].depth <= br[j].depth
  /\ \A i, j \in 1 .. Len(br) : br[i].status = "pending" => br[j].depth <= br[i].depth + 1

Spent(br, tally) == Summed([i \in 1 .. Len(br) |-> br[i].used[tally]])

Tallies == {"calls", "prompt", "output"}

LEMMA SpentOf ==
  ASSUME NEW br \in Seq(Branch), NEW tally \in Tallies
  PROVE  /\ [i \in 1 .. Len(br) |-> br[i].used[tally]] \in Seq(Nat)
         /\ Len([i \in 1 .. Len(br) |-> br[i].used[tally]]) = Len(br)
         /\ Spent(br, tally) \in Nat
<1> DEFINE list == [i \in 1 .. Len(br) |-> br[i].used[tally]]
<1>1. ASSUME NEW i \in 1 .. Len(br) PROVE br[i].used[tally] \in Nat
  <2>1. br[i] \in Branch
    OBVIOUS
  <2>2. br[i].used \in Search!Usages
    BY <2>1 DEF Branch
  <2>3. QED
    BY <2>2 DEF Tallies, Search!Usages
<1>2. list \in Seq(Nat) /\ Len(list) = Len(br)
  BY <1>1
<1> HIDE DEF list
<1>3. QED
  BY <1>2, SummedNat DEF Spent, list

\* What add makes of a graph.
Extended(graph, cause, depth, new) ==
  /\ new.branches \in Seq(Branch) /\ new.edges \subseteq Edge
  /\ Len(graph.branches) <= Len(new.branches)
  /\ \A i \in 1 .. Len(graph.branches) : new.branches[i] = graph.branches[i]
  /\ \A i \in 1 .. Len(new.branches) : i > Len(graph.branches) =>
       /\ depth < MaxDepth
       /\ new.branches[i] = Search!NewBranch(new.branches[i].question, depth + 1)
       /\ new.branches[i].question # Root
       /\ \A j \in 1 .. Len(new.branches) :
            j < i => new.branches[j].question # new.branches[i].question
       /\ <<cause, new.branches[i].question>> \in new.edges
  /\ graph.edges \subseteq new.edges
  /\ \A e \in new.edges \ graph.edges :
       e[1] = cause /\ depth < MaxDepth /\ (e[2] = Root \/ Named(new.branches, e[2]))

\* The questions that are new, in their order.
FirstNew(questions, known) ==
  {n \in DOMAIN questions : /\ questions[n] \notin known
                            /\ \A before \in 1 .. n - 1 : questions[before] # questions[n]}

Fresh(S, questions, known, fresh) ==
  /\ fresh \in Seq(S)
  /\ \A k \in 1 .. Len(fresh) :
       fresh[k] \notin known /\ \E n \in DOMAIN questions : fresh[k] = questions[n]
  /\ \A j, k \in 1 .. Len(fresh) : j < k => fresh[j] # fresh[k]
  /\ \A n \in DOMAIN questions :
       questions[n] \in known \/ \E k \in 1 .. Len(fresh) : fresh[k] = questions[n]

LEMMA FreshOnes ==
  ASSUME NEW S, NEW questions \in Seq(S), NEW known
  PROVE  Fresh(S, questions, known, Picked(questions, FirstNew(questions, known)))
<1> DEFINE places == FirstNew(questions, known)
           fresh == Picked(questions, places)
<1>1. DOMAIN questions = 1 .. Len(questions) /\ Len(questions) \in Nat
  OBVIOUS
<1>2. fresh \in Seq(S) /\ \E e : Places(questions, places, Len(questions), fresh, e)
  BY PickedPlaces
<1> HIDE DEF fresh
<1> USE DEF FirstNew
<1>3. PICK e : Places(questions, places, Len(questions), fresh, e)
  BY <1>2
<1>4. /\ e \in [1 .. Len(fresh) -> 1 .. Len(questions)]
      /\ \A k \in 1 .. Len(fresh) : e[k] \in places /\ fresh[k] = questions[e[k]]
      /\ \A j, k \in 1 .. Len(fresh) : j < k => e[j] < e[k]
      /\ \A i \in 1 .. Len(questions) : i \in places => \E k \in 1 .. Len(fresh) : e[k] = i
  BY <1>3 DEF Places
<1>5. \A k \in 1 .. Len(fresh) : fresh[k] \notin known /\ \E n \in DOMAIN questions : fresh[k] = questions[n]
  BY <1>4
<1>6. ASSUME NEW j \in 1 .. Len(fresh), NEW k \in 1 .. Len(fresh), j < k PROVE fresh[j] # fresh[k]
  <2>1. e[j] \in 1 .. Len(questions) /\ e[k] \in 1 .. Len(questions) /\ e[j] < e[k] /\ e[k] \in places
    BY <1>4, <1>6
  <2>2. e[j] \in 1 .. e[k] - 1
    BY <1>1, <2>1
  <2>3. QED
    BY <2>1, <2>2, <1>4
<1>7. ASSUME NEW n \in DOMAIN questions, questions[n] \notin known
      PROVE  \E k \in 1 .. Len(fresh) : fresh[k] = questions[n]
  <2> DEFINE T == {m \in 1 .. Len(questions) : questions[m] = questions[n]}
  <2>1. T # {} /\ T \subseteq Nat
    BY <1>1
  <2>2. PICK m \in T : \A i \in T : m <= i
    <3> HIDE DEF T
    <3>1. QED
      BY <2>1, Least
  <2>3. \A before \in 1 .. m - 1 : before \in 1 .. Len(questions) /\ ~(m <= before)
    BY <1>1
  <2>4. m \in places
    BY <1>1, <1>7, <2>2, <2>3
  <2>5. PICK k \in 1 .. Len(fresh) : e[k] = m
    BY <1>4, <2>4
  <2>6. QED
    BY <1>4, <2>5
<1>8. QED
  BY <1>2, <1>5, <1>6, <1>7 DEF Fresh, fresh

LEMMA NewBranchIs ==
  ASSUME NEW question \in Search!Questions, NEW depth \in Nat
  PROVE  LET b == Search!NewBranch(question, depth)
         IN  /\ b \in Branch /\ b.question = question /\ b.depth = depth
             /\ b.status = "pending" /\ \A tally \in Tallies : b.used[tally] = 0
BY DEF Search!NewBranch, Search!Used, Search!Usages, Branch, Statuses, Tallies

LEMMA AddedIs ==
  ASSUME DriftTypes, NEW br \in Seq(Branch), NEW ed \in SUBSET Edge,
         NEW cause \in Search!Questions, NEW depth \in Nat, NEW questions \in Seq(Search!Questions)
  PROVE  LET graph == [branches |-> br, edges |-> ed]
         IN  Extended(graph, cause, depth, Search!Added(graph, cause, depth, questions))
<1> DEFINE graph == [branches |-> br, edges |-> ed]
           new == Search!Added(graph, cause, depth, questions)
           known == {Root} \cup {br[i].question : i \in DOMAIN br}
           fresh == Picked(questions, FirstNew(questions, known))
           more == [i \in DOMAIN fresh |-> Search!NewBranch(fresh[i], depth + 1)]
           follow == {<<cause, question>> : question \in Search!ToSet(questions)}
<1>1. graph.branches = br /\ graph.edges = ed
  OBVIOUS
<1>2. CASE depth >= MaxDepth
  <2>1. new = graph
    BY <1>2 DEF Search!Added
  <2>2. QED
    BY <1>1, <2>1 DEF Extended
<1>3. CASE ~(depth >= MaxDepth)
  <2>1. new = [branches |-> br \o more, edges |-> ed \cup follow]
    BY <1>1, <1>3, SearchLists DEF Search!Added, FirstNew
  <2> HIDE DEF more, follow, fresh, known
  <2>2. new.branches = br \o more /\ new.edges = ed \cup follow
    BY <2>1
  <2> HIDE DEF new, graph
  <2> USE DEF fresh, known, follow
  <2>3. /\ fresh \in Seq(Search!Questions)
        /\ \A k \in 1 .. Len(fresh) : fresh[k] \notin known
        /\ \A k \in 1 .. Len(fresh) : \E n \in DOMAIN questions : fresh[k] = questions[n]
        /\ \A j, k \in 1 .. Len(fresh) : j < k => fresh[j] # fresh[k]
        /\ \A n \in DOMAIN questions : questions[n] \in known \/ \E k \in 1 .. Len(fresh) : fresh[k] = questions[n]
    <3> HIDE DEF known, fresh
    <3>1. Fresh(Search!Questions, questions, known, fresh)
      BY FreshOnes DEF fresh
    <3>2. QED
      BY <3>1 DEF Fresh
  <2> HIDE DEF fresh
  <2>4. DOMAIN fresh = 1 .. Len(fresh) /\ Len(fresh) \in Nat /\ depth + 1 \in Nat
        /\ \A k \in 1 .. Len(fresh) : fresh[k] \in Search!Questions
    BY <2>3
  <2> USE DEF more
  <2>5. \A k \in 1 .. Len(fresh) : /\ more[k] = Search!NewBranch(fresh[k], depth + 1)
                                   /\ more[k] \in Branch /\ more[k].question = fresh[k]
    BY <2>4, NewBranchIs
  <2>6. more \in Seq(Branch) /\ Len(more) = Len(fresh)
    BY <2>4, <2>5
  <2> HIDE DEF more
  <2>7. /\ new.branches \in Seq(Branch) /\ Len(new.branches) = Len(br) + Len(fresh)
        /\ Len(br) \in Nat
        /\ \A i \in 1 .. Len(br) : new.branches[i] = br[i]
        /\ \A k \in 1 .. Len(fresh) : new.branches[Len(br) + k] = more[k]
    <3>1. Len(br) \in Nat
      OBVIOUS
    <3> DEFINE both == br \o more
    <3>2. /\ both \in Seq(Branch) /\ Len(both) = Len(br) + Len(more)
          /\ \A i \in 1 .. Len(br) : both[i] = br[i]
          /\ \A k \in 1 .. Len(more) : both[Len(br) + k] = more[k]
      BY <2>6
    <3>3. QED
      BY <2>2, <2>6, <3>1, <3>2
  <2>8. DOMAIN br = 1 .. Len(br)
    OBVIOUS
  <2>9. follow \subseteq Edge
    <3>1. \A n \in DOMAIN questions : questions[n] \in Search!Questions
      OBVIOUS
    <3>2. QED
      BY <3>1 DEF Edge, Search!ToSet
  <2>10. ASSUME NEW i \in 1 .. Len(new.branches), i > Len(br)
         PROVE  /\ new.branches[i] = Search!NewBranch(new.branches[i].question, depth + 1)
                /\ new.branches[i].question # Root
                /\ \A j \in 1 .. Len(new.branches) :
                     j < i => new.branches[j].question # new.branches[i].question
                /\ <<cause, new.branches[i].question>> \in new.edges
    <3> DEFINE k == i - Len(br)
    <3>1. k \in 1 .. Len(fresh) /\ i = Len(br) + k
      BY <2>4, <2>7, <2>10
    <3> HIDE DEF k
    <3>2. new.branches[i] = more[k] /\ new.branches[i].question = fresh[k]
      BY <2>5, <2>7, <3>1
    <3>3. fresh[k] # Root
      BY <2>3, <3>1
    <3>4. ASSUME NEW j \in 1 .. Len(new.branches), j < i
          PROVE  new.branches[j].question # fresh[k]
      <4>1. CASE j \in 1 .. Len(br)
        <5>1. br[j].question \in known
          BY <4>1, <2>8
        <5>2. QED
          BY <4>1, <5>1, <2>3, <2>7, <3>1
      <4>2. CASE j \notin 1 .. Len(br)
        <5> DEFINE m == j - Len(br)
        <5>1. m \in 1 .. Len(fresh) /\ j = Len(br) + m /\ m < k
          BY <4>2, <2>4, <2>7, <3>1, <3>4
        <5> HIDE DEF m
        <5>2. new.branches[j].question = fresh[m]
          BY <2>5, <2>7, <5>1
        <5>3. QED
          BY <2>3, <3>1, <5>1, <5>2
      <4>3. QED
        BY <4>1, <4>2
    <3>5. fresh[k] \in Search!ToSet(questions)
      BY <2>3, <3>1 DEF Search!ToSet
    <3>6. QED
      BY <2>2, <2>5, <3>1, <3>2, <3>3, <3>4, <3>5
  <2>11. ASSUME NEW e \in new.edges \ ed
         PROVE  e[1] = cause /\ (e[2] = Root \/ Named(new.branches, e[2]))
    <3>1. PICK n \in DOMAIN questions : e = <<cause, questions[n]>>
      BY <2>2 DEF Search!ToSet
    <3>2. e[1] = cause /\ e[2] = questions[n]
      BY <3>1
    <3>3. CASE questions[n] \in known
      <4>1. questions[n] = Root \/ \E i \in 1 .. Len(br) : br[i].question = questions[n]
        BY <3>3, <2>8
      <4>2. \A i \in 1 .. Len(br) : i \in 1 .. Len(new.branches) /\ new.branches[i] = br[i]
        BY <2>4, <2>7
      <4>3. QED
        BY <3>2, <4>1, <4>2 DEF Named
    <3>4. CASE questions[n] \notin known
      <4>1. PICK k \in 1 .. Len(fresh) : fresh[k] = questions[n]
        BY <3>4, <2>3
      <4>2. Len(br) + k \in 1 .. Len(new.branches) /\ new.branches[Len(br) + k].question = fresh[k]
        BY <2>4, <2>5, <2>7
      <4>3. QED
        BY <3>2, <4>1, <4>2 DEF Named
    <3>5. QED
      BY <3>3, <3>4
  <2>12. depth < MaxDepth /\ Len(br) <= Len(new.branches)
    BY <1>3, <2>4, <2>7 DEF DriftTypes
  <2> HIDE DEF known, follow
  <2>13. QED
    BY <1>1, <2>2, <2>7, <2>9, <2>10, <2>11, <2>12 DEF Extended, new, graph
<1>4. QED
  BY <1>2, <1>3

\* A question has one depth.
LEMMA OneDepth ==
  ASSUME NEW br \in Seq(Branch), NEW ed, Traceable(br, ed), NEW question, NEW c, NEW d,
         Source(br, question, c), Source(br, question, d)
  PROVE  c = d
<1>1. CASE question = Root
  <2>1. \A i \in 1 .. Len(br) : br[i].question # Root
    BY DEF Traceable
  <2>2. QED
    BY <1>1, <2>1 DEF Source
<1>2. CASE question # Root
  <2>1. PICK i \in 1 .. Len(br) : br[i].question = question /\ br[i].depth = c
    BY <1>2 DEF Source
  <2>2. PICK j \in 1 .. Len(br) : br[j].question = question /\ br[j].depth = d
    BY <1>2 DEF Source
  <2>3. i = j
    BY <2>1, <2>2 DEF Traceable
  <2>4. QED
    BY <2>1, <2>2, <2>3
<1>3. QED
  BY <1>1, <1>2

\* What may become of the branches without a new one.
Aged(br, new) ==
  /\ new \in Seq(Branch) /\ Len(new) = Len(br)
  /\ \A i \in 1 .. Len(br) :
       /\ new[i].question = br[i].question /\ new[i].depth = br[i].depth
       /\ br[i].status = "succeeded" => new[i].status = "succeeded"
       /\ new[i].status = "pending" => br[i].status = "pending"

LEMMA AgedTraceable ==
  ASSUME NEW br \in Seq(Branch), NEW ed, Traceable(br, ed), NEW new, Aged(br, new)
  PROVE  Traceable(new, ed) /\ (InOrder(br) => InOrder(new))
<1>1. Len(new) = Len(br) /\ \A i \in 1 .. Len(br) :
        /\ new[i].question = br[i].question /\ new[i].depth = br[i].depth
        /\ br[i].status = "succeeded" => new[i].status = "succeeded"
        /\ new[i].status = "pending" => br[i].status = "pending"
  BY DEF Aged
<1> DEFINE n == Len(br)
<1>0. /\ \A i \in 1 .. n : br[i].question # Root /\ br[i].depth \in 1 .. MaxDepth
      /\ \A i, j \in 1 .. n : br[i].question = br[j].question => i = j
      /\ \A e \in ed : /\ \E depth \in Nat : Source(br, e[1], depth)
                       /\ e[2] = Root \/ Named(br, e[2])
      /\ \A i \in 1 .. n :
           \E e \in ed : e[2] = br[i].question /\ Source(br, e[1], br[i].depth - 1)
      /\ \A i \in 1 .. n : \A e \in ed, depth \in Nat :
           e[2] = br[i].question /\ Source(br, e[1], depth) => br[i].depth <= depth + 1
  BY DEF Traceable
<1>2. \A q, d : Source(br, q, d) => Source(new, q, d)
  BY <1>1 DEF Source
<1>3. \A q : Named(br, q) => Named(new, q)
  BY <1>1 DEF Named
<1>4. ASSUME NEW e \in ed, NEW d \in Nat, Source(new, e[1], d) PROVE Source(br, e[1], d)
  <2>1. PICK c \in Nat : Source(br, e[1], c)
    BY DEF Traceable
  <2>2. CASE e[1] = Root
    <3>1. \A i \in 1 .. n : new[i].question # Root
      BY <1>0, <1>1
    <3>2. QED
      BY <1>1, <1>4, <2>2, <3>1 DEF Source
  <2>3. CASE e[1] # Root
    <3>1. PICK i \in 1 .. Len(br) : br[i].question = e[1] /\ br[i].depth = d
      BY <1>1, <1>4, <2>3 DEF Source
    <3>2. PICK j \in 1 .. Len(br) : br[j].question = e[1] /\ br[j].depth = c
      BY <2>1, <2>3 DEF Source
    <3>3. i = j
      BY <3>1, <3>2 DEF Traceable
    <3>4. QED
      BY <2>1, <3>1, <3>2, <3>3
  <2>4. QED
    BY <2>2, <2>3
<1>5. Traceable(new, ed)
  <2>0. \A i \in 1 .. n : new[i].question # Root /\ new[i].depth \in 1 .. MaxDepth
    BY <1>0, <1>1
  <2>1. ASSUME NEW i \in 1 .. n, NEW j \in 1 .. n, new[i].question = new[j].question
        PROVE  i = j
    <3>1. new[i].question = br[i].question /\ new[j].question = br[j].question
      BY <1>1
    <3>2. br[i].question = br[j].question
      BY <2>1, <3>1
    <3>3. QED
      BY <3>2, <1>0
  <2>2. \A e \in ed : /\ \E depth \in Nat : Source(new, e[1], depth)
                      /\ e[2] = Root \/ Named(new, e[2])
    BY <1>0, <1>2, <1>3
  <2>3. ASSUME NEW i \in 1 .. n
        PROVE  \E e \in ed : e[2] = new[i].question /\ Source(new, e[1], new[i].depth - 1)
    <3>1. PICK e \in ed : e[2] = br[i].question /\ Source(br, e[1], br[i].depth - 1)
      BY <1>0
    <3>2. QED
      BY <1>1, <1>2, <3>1
  <2>4. ASSUME NEW i \in 1 .. n, NEW e \in ed, NEW depth \in Nat,
               e[2] = new[i].question, Source(new, e[1], depth)
        PROVE  new[i].depth <= depth + 1
    <3>1. Source(br, e[1], depth) /\ e[2] = br[i].question
      BY <1>1, <1>4, <2>4
    <3>2. QED
      BY <1>0, <1>1, <3>1
  <2>5. QED
    BY <1>1, <2>0, <2>1, <2>2, <2>3, <2>4 DEF Traceable
<1>6. InOrder(br) => InOrder(new)
  BY <1>1 DEF InOrder
<1>7. QED
  BY <1>5, <1>6

LEMMA ExtendedTraceable ==
  ASSUME DriftTypes, NEW graph, graph.branches \in Seq(Branch),
         Traceable(graph.branches, graph.edges), InOrder(graph.branches),
         NEW cause, NEW depth \in Nat, Source(graph.branches, cause, depth),
         \A j \in 1 .. Len(graph.branches) : graph.branches[j].depth <= depth + 1,
         \A i \in 1 .. Len(graph.branches) :
           graph.branches[i].status = "pending" => depth <= graph.branches[i].depth,
         NEW new, Extended(graph, cause, depth, new)
  PROVE  Traceable(new.branches, new.edges) /\ InOrder(new.branches)
<1> DEFINE br == graph.branches
           nb == new.branches
           ed == graph.edges
           ne == new.edges
           Old(i) == i \in 1 .. Len(br)
<1>1. /\ nb \in Seq(Branch) /\ Len(br) <= Len(nb) /\ Len(br) \in Nat /\ Len(nb) \in Nat
      /\ \A i \in 1 .. Len(br) : nb[i] = br[i] /\ i \in 1 .. Len(nb)
  <2>1. Len(br) <= Len(nb) /\ Len(br) \in Nat /\ Len(nb) \in Nat /\ nb \in Seq(Branch)
        /\ \A i \in 1 .. Len(br) : nb[i] = br[i]
    BY DEF Extended
  <2>2. QED
    BY <2>1
<1>2. ASSUME NEW i \in 1 .. Len(nb), ~Old(i)
      PROVE  /\ depth < MaxDepth /\ nb[i].question # Root
             /\ nb[i].depth = depth + 1 /\ nb[i].status = "pending"
             /\ \A j \in 1 .. Len(nb) : j < i => nb[j].question # nb[i].question
             /\ <<cause, nb[i].question>> \in ne
  <2>1. i > Len(br)
    BY <1>1, <1>2
  <2>2. /\ depth < MaxDepth
        /\ nb[i] = Search!NewBranch(nb[i].question, depth + 1)
        /\ nb[i].question # Root
        /\ \A j \in 1 .. Len(nb) : j < i => nb[j].question # nb[i].question
        /\ <<cause, nb[i].question>> \in ne
    BY <2>1 DEF Extended
  <2>3. nb[i].question \in Search!Questions /\ depth + 1 \in Nat
    <3>1. nb[i] \in Branch
      BY <1>1
    <3>2. QED
      BY <3>1 DEF Branch
  <2>4. nb[i].depth = depth + 1 /\ nb[i].status = "pending"
    BY <2>2, <2>3, NewBranchIs
  <2>5. QED
    BY <2>2, <2>4
<1>3. /\ ed \subseteq ne
      /\ \A e \in ne \ ed : e[1] = cause /\ depth < MaxDepth /\ (e[2] = Root \/ Named(nb, e[2]))
  BY DEF Extended
<1>4. /\ \A i \in 1 .. Len(br) : br[i].question # Root /\ br[i].depth \in 1 .. MaxDepth
      /\ \A i, j \in 1 .. Len(br) : br[i].question = br[j].question => i = j
      /\ \A e \in ed : /\ \E d \in Nat : Source(br, e[1], d)
                       /\ e[2] = Root \/ Named(br, e[2])
      /\ \A i \in 1 .. Len(br) :
           \E e \in ed : e[2] = br[i].question /\ Source(br, e[1], br[i].depth - 1)
      /\ \A i \in 1 .. Len(br) : \A e \in ed, d \in Nat :
           e[2] = br[i].question /\ Source(br, e[1], d) => br[i].depth <= d + 1
  BY DEF Traceable
<1>5. /\ \A i, j \in 1 .. Len(br) : i < j => br[i].depth <= br[j].depth
      /\ \A i, j \in 1 .. Len(br) : br[i].status = "pending" => br[j].depth <= br[i].depth + 1
  BY DEF InOrder
<1>6. Source(br, cause, depth)
      /\ (\A j \in 1 .. Len(br) : br[j].depth <= depth + 1)
      /\ \A i \in 1 .. Len(br) : br[i].status = "pending" => depth <= br[i].depth
  OBVIOUS
<1>7. \A q, d : Source(br, q, d) /\ Source(br, q, depth) => d = depth
  BY OneDepth
<1> HIDE DEF br, nb, ed, ne
<1>8. \A q, d : Source(nb, q, d) <=> Source(br, q, d)
  BY <1>1, <1>2 DEF Source
<1>9. \A q : Named(br, q) => Named(nb, q)
  BY <1>1 DEF Named
<1>10. \A i \in 1 .. Len(nb) : nb[i].question # Root /\ nb[i].depth \in 1 .. MaxDepth
  <2> TAKE i \in 1 .. Len(nb)
  <2>1. CASE Old(i)
    BY <2>1, <1>1, <1>4
  <2>2. CASE ~Old(i)
    <3>1. nb[i].question # Root /\ nb[i].depth = depth + 1 /\ depth < MaxDepth
      BY <2>2, <1>2
    <3>2. QED
      BY <3>1 DEF DriftTypes
  <2>3. QED
    BY <2>1, <2>2
<1>11. ASSUME NEW i \in 1 .. Len(nb), NEW j \in 1 .. Len(nb), nb[i].question = nb[j].question
       PROVE  i = j
  <2>1. ASSUME NEW k \in 1 .. Len(nb), NEW l \in 1 .. Len(nb), k < l,
               nb[k].question = nb[l].question
        PROVE  FALSE
    <3>1. CASE Old(l)
      <4>1. Old(k)
        BY <1>1, <2>1, <3>1
      <4>2. k = l
        BY <4>1, <3>1, <1>1, <1>4, <2>1
      <4>3. QED
        BY <2>1, <4>2
    <3>2. CASE ~Old(l)
      BY <3>2, <2>1, <1>2
    <3>3. QED
      BY <3>1, <3>2
  <2>2. i \in Nat /\ j \in Nat
    OBVIOUS
  <2>3. QED
    BY <1>11, <2>1, <2>2
<1>12. \A e \in ne : /\ \E d \in Nat : Source(nb, e[1], d)
                     /\ e[2] = Root \/ Named(nb, e[2])
  <2> TAKE e \in ne
  <2>1. CASE e \in ed
    BY <2>1, <1>4, <1>8, <1>9
  <2>2. CASE e \notin ed
    BY <2>2, <1>3, <1>6, <1>8
  <2>3. QED
    BY <2>1, <2>2
<1>13. ASSUME NEW i \in 1 .. Len(nb)
       PROVE  \E e \in ne : e[2] = nb[i].question /\ Source(nb, e[1], nb[i].depth - 1)
  <2>1. CASE Old(i)
    <3>1. PICK e \in ed : e[2] = br[i].question /\ Source(br, e[1], br[i].depth - 1)
      BY <2>1, <1>4
    <3>2. QED
      BY <2>1, <3>1, <1>1, <1>3, <1>8
  <2>2. CASE ~Old(i)
    <3>1. <<cause, nb[i].question>> \in ne /\ nb[i].depth = depth + 1
      BY <2>2, <1>2
    <3>2. nb[i].depth - 1 = depth
      BY <3>1
    <3>3. QED
      BY <3>1, <3>2, <1>6, <1>8
  <2>3. QED
    BY <2>1, <2>2
<1>14. ASSUME NEW i \in 1 .. Len(nb), NEW e \in ne, NEW d \in Nat,
              e[2] = nb[i].question, Source(nb, e[1], d)
       PROVE  nb[i].depth <= d + 1
  <2>1. Source(br, e[1], d)
    BY <1>8, <1>14
  <2>2. nb[i].question # Root
    BY <1>10
  <2>3. CASE e \in ed
    <3>1. PICK k \in 1 .. Len(br) : br[k].question = e[2]
      BY <2>2, <2>3, <1>4, <1>14 DEF Named
    <3>2. k = i
      BY <3>1, <1>1, <1>11, <1>14
    <3>3. QED
      BY <2>1, <2>3, <3>1, <3>2, <1>1, <1>4
  <2>4. CASE e \notin ed
    <3>1. d = depth
      BY <2>1, <2>4, <1>3, <1>6, <1>7
    <3>2. CASE Old(i)
      BY <3>1, <3>2, <1>1, <1>6
    <3>3. CASE ~Old(i)
      <4>1. nb[i].depth = depth + 1
        BY <3>3, <1>2
      <4>2. QED
        BY <3>1, <4>1
    <3>4. QED
      BY <3>2, <3>3
  <2>5. QED
    BY <2>3, <2>4
<1>15. ASSUME NEW i \in 1 .. Len(nb), NEW j \in 1 .. Len(nb), i < j
       PROVE  nb[i].depth <= nb[j].depth
  <2>1. CASE Old(j)
    <3>1. Old(i)
      BY <1>1, <1>15, <2>1
    <3>2. QED
      BY <2>1, <3>1, <1>1, <1>5, <1>15
  <2>2. CASE ~Old(j)
    <3>1. nb[j].depth = depth + 1
      BY <2>2, <1>2
    <3>2. CASE Old(i)
      BY <3>1, <3>2, <1>1, <1>6
    <3>3. CASE ~Old(i)
      <4>1. nb[i].depth = depth + 1
        BY <3>3, <1>2
      <4>2. QED
        BY <3>1, <4>1
    <3>4. QED
      BY <3>2, <3>3
  <2>3. QED
    BY <2>1, <2>2
<1>16. ASSUME NEW i \in 1 .. Len(nb), NEW j \in 1 .. Len(nb), nb[i].status = "pending"
       PROVE  nb[j].depth <= nb[i].depth + 1
  <2>1. depth <= nb[i].depth /\ nb[i].depth \in Nat
    <3>1. CASE Old(i)
      <4>1. nb[i] = br[i] /\ br[i].depth \in 1 .. MaxDepth
        BY <3>1, <1>1, <1>4
      <4>2. QED
        BY <3>1, <4>1, <1>6, <1>16
    <3>2. CASE ~Old(i)
      <4>1. nb[i].depth = depth + 1
        BY <3>2, <1>2
      <4>2. QED
        BY <4>1
    <3>3. QED
      BY <3>1, <3>2
  <2>2. nb[j].depth <= depth + 1 /\ nb[j].depth \in Int
    <3>1. CASE Old(j)
      <4>1. nb[j] = br[j] /\ br[j].depth \in 1 .. MaxDepth
        BY <3>1, <1>1, <1>4
      <4>2. QED
        BY <3>1, <4>1, <1>6
    <3>2. CASE ~Old(j)
      <4>1. nb[j].depth = depth + 1
        BY <3>2, <1>2
      <4>2. QED
        BY <4>1
    <3>3. QED
      BY <3>1, <3>2
  <2>3. QED
    BY <2>1, <2>2
<1>17. Traceable(nb, ne)
  BY <1>10, <1>11, <1>12, <1>13, <1>14 DEF Traceable
<1>18. InOrder(nb)
  BY <1>15, <1>16 DEF InOrder
<1>19. QED
  BY <1>17, <1>18 DEF nb, ne

LEMMA Joined ==
  ASSUME NEW S, NEW a \in Seq(S), NEW b \in Seq(S)
  PROVE  /\ a \o b \in Seq(S) /\ Len(a \o b) = Len(a) + Len(b)
         /\ \A i \in 1 .. Len(a) : (a \o b)[i] = a[i]
         /\ \A i \in 1 .. Len(b) : (a \o b)[Len(a) + i] = b[i]
<1>1. Len(a) \in Nat /\ Len(b) \in Nat
  OBVIOUS
<1>2. \A i \in 1 .. Len(a) : (a \o b)[i] = a[i]
  OBVIOUS
<1>3. \A i \in 1 .. Len(b) : (a \o b)[Len(a) + i] = b[i]
  OBVIOUS
<1>4. QED
  BY <1>2, <1>3

\* New branches have used nothing.
LEMMA ExtendedSpent ==
  ASSUME NEW graph, graph.branches \in Seq(Branch), NEW cause, NEW depth \in Nat,
         NEW new, Extended(graph, cause, depth, new), NEW tally \in Tallies
  PROVE  Spent(new.branches, tally) = Spent(graph.branches, tally)
<1> DEFINE br == graph.branches
           nb == new.branches
           Used(l) == [i \in 1 .. Len(l) |-> l[i].used[tally]]
           rest == [k \in 1 .. Len(nb) - Len(br) |-> 0]
<1>1. /\ nb \in Seq(Branch) /\ Len(br) <= Len(nb) /\ Len(br) \in Nat /\ Len(nb) \in Nat
      /\ \A i \in 1 .. Len(br) : nb[i] = br[i]
  BY DEF Extended
<1>2. \A i \in 1 .. Len(nb) : i > Len(br) =>
        nb[i] = Search!NewBranch(nb[i].question, depth + 1)
  BY DEF Extended
<1>3. br \in Seq(Branch)
  OBVIOUS
<1> HIDE DEF br, nb
<1>4. ASSUME NEW i \in 1 .. Len(nb), i > Len(br) PROVE nb[i].used[tally] = 0
  <2>1. nb[i] \in Branch
    BY <1>1
  <2>2. nb[i].question \in Search!Questions /\ depth + 1 \in Nat
    BY <2>1 DEF Branch
  <2>3. QED
    BY <1>2, <1>4, <2>2, NewBranchIs
<1>5. Used(br) \in Seq(Nat) /\ Len(Used(br)) = Len(br) /\ Used(nb) \in Seq(Nat) /\ Len(Used(nb)) = Len(nb)
  BY <1>1, <1>3, SpentOf
<1>6. rest \in Seq(Nat) /\ Len(rest) = Len(nb) - Len(br) /\ \A i \in 1 .. Len(rest) : rest[i] = 0
  BY <1>1
<1> HIDE DEF rest
<1>7. Used(nb) = Used(br) \o rest
  <2> DEFINE both == Used(br) \o rest
             all == Used(nb)
             some == Used(br)
  <2>1. some \in Seq(Nat) /\ Len(some) = Len(br) /\ all \in Seq(Nat) /\ Len(all) = Len(nb)
    BY <1>5
  <2>2. \A i \in 1 .. Len(nb) : all[i] = nb[i].used[tally]
    OBVIOUS
  <2>3. \A i \in 1 .. Len(br) : some[i] = br[i].used[tally]
    OBVIOUS
  <2> HIDE DEF all, some
  <2>4. /\ both \in Seq(Nat) /\ Len(both) = Len(nb)
        /\ \A i \in 1 .. Len(nb) : both[i] = IF i <= Len(br) THEN some[i] ELSE rest[i - Len(br)]
    <3>0. both = some \o rest
      BY DEF some
    <3> HIDE DEF both
    <3> some \in Seq(Nat) /\ rest \in Seq(Nat)
      BY <1>6, <2>1
    <3> HIDE DEF some
    <3>01. /\ some \o rest \in Seq(Nat) /\ Len(some \o rest) = Len(some) + Len(rest)
           /\ \A i \in 1 .. Len(some) : (some \o rest)[i] = some[i]
           /\ \A i \in 1 .. Len(rest) : (some \o rest)[Len(some) + i] = rest[i]
      BY Joined
    <3>1. /\ both \in Seq(Nat) /\ Len(both) = Len(some) + Len(rest)
          /\ \A i \in 1 .. Len(some) : both[i] = some[i]
          /\ \A i \in 1 .. Len(rest) : both[Len(some) + i] = rest[i]
      BY <3>0, <3>01
    <3>2. Len(some) + Len(rest) = Len(nb)
      BY <1>1, <1>6, <2>1
    <3>3. ASSUME NEW i \in 1 .. Len(nb)
          PROVE  both[i] = IF i <= Len(br) THEN some[i] ELSE rest[i - Len(br)]
      <4>1. CASE i <= Len(br)
        BY <4>1, <1>1, <2>1, <3>1
      <4>2. CASE ~(i <= Len(br))
        <5> DEFINE k == i - Len(br)
        <5>1. k \in 1 .. Len(rest) /\ Len(some) + k = i
          BY <4>2, <1>1, <1>6, <2>1
        <5>2. both[i] = rest[k]
          BY <5>1, <3>1
        <5>3. QED
          BY <4>2, <5>2
      <4>3. QED
        BY <4>1, <4>2
    <3>4. QED
      BY <2>1, <3>1, <3>2, <3>3
  <2> HIDE DEF both
  <2>5. ASSUME NEW i \in 1 .. Len(nb) PROVE all[i] = both[i]
    <3>1. CASE i <= Len(br)
      <4>1. i \in 1 .. Len(br) /\ both[i] = some[i] /\ nb[i] = br[i]
        BY <3>1, <1>1, <2>4
      <4>2. QED
        BY <4>1, <2>2, <2>3
    <3>2. CASE ~(i <= Len(br))
      <4>1. i - Len(br) \in 1 .. Len(rest) /\ i > Len(br)
        BY <1>1, <1>6, <3>2
      <4>2. QED
        BY <3>2, <4>1, <1>4, <1>6, <2>2, <2>4
    <3>3. QED
      BY <3>1, <3>2
  <2>6. all = both
    BY <2>1, <2>4, <2>5, SeqEqual
  <2>7. QED
    BY <2>6 DEF all, both
<1>8. QED
  <2> DEFINE some == Used(br)
             all == Used(nb)
  <2>1. some \in Seq(Nat) /\ all = some \o rest
    BY <1>5, <1>7
  <2>2. Spent(new.branches, tally) = Summed(all) /\ Spent(graph.branches, tally) = Summed(some)
    BY DEF Spent, br, nb
  <2> HIDE DEF some, all
  <2>3. Summed(rest) = 0 /\ Summed(some) \in Nat
    BY <1>6, <2>1, SummedZeros, SummedNat
  <2>4. Summed(all) = Summed(some) + Summed(rest)
    BY <1>6, <2>1, SummedConcat
  <2>5. QED
    BY <2>2, <2>3, <2>4

\* The branches that were asked wait in their order, before all others that are
\* pending and have used nothing.
InBatch(sent, i) == \E k \in 1 .. Len(sent) : sent[k] = i

Unused(branch) == \A tally \in Tallies : branch.used[tally] = 0

Awaited(br, sent) ==
  /\ \A k \in 1 .. Len(sent) :
       /\ sent[k] \in 1 .. Len(br) /\ br[sent[k]].status = "pending"
       /\ br[sent[k]].used.calls = 1 /\ br[sent[k]].used.output = 0
  /\ \A j, k \in 1 .. Len(sent) : j < k => sent[j] < sent[k]
  /\ \A i \in 1 .. Len(br) : br[i].status = "pending" =>
       InBatch(sent, i) \/ (Unused(br[i]) /\ \A k \in 1 .. Len(sent) : sent[k] < i)

Tried(br, sent) == {i \in 1 .. Len(br) : br[i].status \in Search!Attempted \/ InBatch(sent, i)}

LEMMA TriedFinite ==
  ASSUME NEW br \in Seq(Branch), NEW sent
  PROVE  IsFiniteSet(Tried(br, sent)) /\ Cardinality(Tried(br, sent)) \in Nat
<1>1. Len(br) \in Nat
  OBVIOUS
<1>2. IsFiniteSet(1 .. Len(br))
  BY <1>1, UpTo
<1>3. Tried(br, sent) \subseteq 1 .. Len(br)
  BY DEF Tried
<1>4. IsFiniteSet(Tried(br, sent))
  BY <1>2, <1>3, FS_Subset
<1>5. QED
  BY <1>4, FS_CardinalityType

Overran(br) == \E i \in 1 .. Len(br) : br[i].status = "overrun"

\* What is left of a graph is one that can be returned.
Returned(br, ed, new) ==
  /\ new.branches \in Seq(Branch) /\ new.edges \subseteq ed
  /\ Traceable(new.branches, new.edges)
  /\ \A i \in 1 .. Len(new.branches) : new.branches[i].status # "pending"
  /\ Overran(br) => Overran(new.branches)

LEMMA DiscardedIs ==
  ASSUME NEW br \in Seq(Branch), NEW ed \in SUBSET Edge, Traceable(br, ed), NEW sent
  PROVE  LET new == Search!Discarded([branches |-> br, edges |-> ed])
         IN  /\ Returned(br, ed, new)
             /\ Cardinality(Tried(new.branches, <<>>)) <= Cardinality(Tried(br, sent))
             /\ (\A i \in 1 .. Len(br) : br[i].status = "pending" => Unused(br[i])) =>
                  \A tally \in Tallies : Spent(new.branches, tally) = Spent(br, tally)
<1> DEFINE places == {i \in DOMAIN br : br[i].status # "pending"}
           stay == Picked(br, places)
           ends == {e \in ed : e[2] = Root \/ \E i \in DOMAIN stay : stay[i].question = e[2]}
           new == Search!Discarded([branches |-> br, edges |-> ed])
<1>1. new = [branches |-> stay, edges |-> ends]
  BY SearchLists DEF Search!Discarded
<1>2. stay \in Seq(Branch) /\ \E e : Places(br, places, Len(br), stay, e)
  BY PickedPlaces
<1> HIDE DEF stay
<1>3. PICK src : Places(br, places, Len(br), stay, src)
  BY <1>2
<1>4. DOMAIN br = 1 .. Len(br) /\ DOMAIN stay = 1 .. Len(stay) /\ Len(stay) \in Nat /\ Len(br) \in Nat
  BY <1>2
<1>5. /\ \A k \in 1 .. Len(stay) : /\ src[k] \in 1 .. Len(br) /\ stay[k] = br[src[k]]
                                   /\ stay[k].status # "pending"
      /\ \A j, k \in 1 .. Len(stay) : src[j] = src[k] => j = k
      /\ \A i \in 1 .. Len(br) : br[i].status # "pending" => \E k \in 1 .. Len(stay) : src[k] = i
  <2>1. /\ src \in [1 .. Len(stay) -> 1 .. Len(br)]
        /\ \A k \in 1 .. Len(stay) : src[k] \in places /\ stay[k] = br[src[k]]
        /\ \A j, k \in 1 .. Len(stay) : j < k => src[j] < src[k]
        /\ \A i \in 1 .. Len(br) : i \in places => \E k \in 1 .. Len(stay) : src[k] = i
    BY <1>3 DEF Places
  <2>2. ASSUME NEW j \in 1 .. Len(stay), NEW k \in 1 .. Len(stay), src[j] = src[k] PROVE j = k
    <3>1. j < k \/ k < j \/ j = k
      BY <1>4
    <3>2. src[j] \in Nat /\ src[k] \in Nat
      BY <1>4, <2>1
    <3>3. QED
      BY <2>1, <2>2, <3>1, <3>2
  <2>3. QED
    BY <1>4, <2>1, <2>2
<1>6. /\ \A i \in 1 .. Len(br) : br[i].question # Root /\ br[i].depth \in 1 .. MaxDepth
      /\ \A i, j \in 1 .. Len(br) : br[i].question = br[j].question => i = j
      /\ \A e \in ed : /\ \E d \in Nat : Source(br, e[1], d)
                       /\ e[2] = Root \/ Named(br, e[2])
      /\ \A i \in 1 .. Len(br) :
           \E e \in ed : e[2] = br[i].question /\ Source(br, e[1], br[i].depth - 1)
      /\ \A i \in 1 .. Len(br) : \A e \in ed, d \in Nat :
           e[2] = br[i].question /\ Source(br, e[1], d) => br[i].depth <= d + 1
  BY DEF Traceable
<1>7. \A q, d : Source(stay, q, d) <=> Source(br, q, d)
  <2>1. ASSUME NEW q, NEW d, Source(br, q, d) PROVE Source(stay, q, d)
    <3>1. CASE q = Root /\ d = 0
      BY <3>1 DEF Source
    <3>2. CASE ~(q = Root /\ d = 0)
      <4>1. PICK i \in 1 .. Len(br) :
              br[i].question = q /\ br[i].status = "succeeded" /\ br[i].depth = d
        BY <2>1, <3>2 DEF Source
      <4>2. PICK k \in 1 .. Len(stay) : src[k] = i
        BY <4>1, <1>5
      <4>3. QED
        BY <4>1, <4>2, <1>5 DEF Source
    <3>3. QED
      BY <3>1, <3>2
  <2>2. ASSUME NEW q, NEW d, Source(stay, q, d) PROVE Source(br, q, d)
    BY <2>2, <1>5 DEF Source
  <2>3. QED
    BY <2>1, <2>2
<1>8. Traceable(stay, ends)
  <2>1. \A i \in 1 .. Len(stay) : stay[i].question # Root /\ stay[i].depth \in 1 .. MaxDepth
    BY <1>5, <1>6
  <2>2. ASSUME NEW i \in 1 .. Len(stay), NEW j \in 1 .. Len(stay), stay[i].question = stay[j].question
        PROVE  i = j
    <3>1. br[src[i]].question = br[src[j]].question /\ src[i] \in 1 .. Len(br) /\ src[j] \in 1 .. Len(br)
      BY <1>5, <2>2
    <3>2. src[i] = src[j]
      BY <1>6, <3>1
    <3>3. QED
      BY <1>5, <3>2
  <2>3. \A e \in ends : /\ \E d \in Nat : Source(stay, e[1], d)
                        /\ e[2] = Root \/ Named(stay, e[2])
    BY <1>4, <1>6, <1>7 DEF Named
  <2>4. ASSUME NEW i \in 1 .. Len(stay)
        PROVE  \E e \in ends : e[2] = stay[i].question /\ Source(stay, e[1], stay[i].depth - 1)
    <3>1. src[i] \in 1 .. Len(br) /\ stay[i] = br[src[i]]
      BY <1>5
    <3>2. PICK e \in ed : e[2] = stay[i].question /\ Source(br, e[1], stay[i].depth - 1)
      BY <1>6, <3>1
    <3>3. e \in ends
      BY <1>4, <3>2
    <3>4. QED
      BY <1>7, <3>2, <3>3
  <2>5. ASSUME NEW i \in 1 .. Len(stay), NEW e \in ends, NEW d \in Nat,
               e[2] = stay[i].question, Source(stay, e[1], d)
        PROVE  stay[i].depth <= d + 1
    <3>1. src[i] \in 1 .. Len(br) /\ stay[i] = br[src[i]]
      BY <1>5
    <3>2. QED
      BY <1>6, <1>7, <2>5, <3>1
  <2>6. QED
    BY <2>1, <2>2, <2>3, <2>4, <2>5 DEF Traceable
<1>9. Returned(br, ed, new)
  <2>1. new.branches = stay /\ new.edges = ends
    BY <1>1
  <2>2. Overran(br) => Overran(stay)
    <3> SUFFICES ASSUME Overran(br) PROVE Overran(stay)
      OBVIOUS
    <3>1. PICK i \in 1 .. Len(br) : br[i].status = "overrun"
      BY DEF Overran
    <3>2. PICK k \in 1 .. Len(stay) : src[k] = i
      BY <1>5, <3>1
    <3>3. QED
      BY <1>5, <3>1, <3>2 DEF Overran
  <2>3. QED
    BY <1>2, <1>5, <1>8, <2>1, <2>2 DEF Returned
<1>10. Cardinality(Tried(stay, <<>>)) <= Cardinality(Tried(br, sent))
  <2> DEFINE S == Tried(stay, <<>>)
             T == Tried(br, sent)
             f == [k \in S |-> src[k]]
  <2>1. ASSUME NEW k \in S PROVE k \in 1 .. Len(stay) /\ src[k] \in T
    <3>1. k \in 1 .. Len(stay) /\ stay[k].status \in Search!Attempted
      BY DEF Tried, InBatch
    <3>2. src[k] \in 1 .. Len(br) /\ br[src[k]].status \in Search!Attempted
      BY <1>5, <3>1
    <3>3. QED
      BY <3>1, <3>2 DEF Tried
  <2>2. IsFiniteSet(T)
    BY TriedFinite
  <2> HIDE DEF S, T
  <2>3. f \in [S -> T] /\ \A j, k \in S : f[j] = f[k] => j = k
    BY <1>5, <2>1
  <2>4. f \in Injection(S, T)
    BY <2>3 DEF Injection, IsInjective
  <2>5. QED
    BY <2>2, <2>4, FS_Injection DEF S, T, ExistsInjection
<1>11. ASSUME \A i \in 1 .. Len(br) : br[i].status = "pending" => Unused(br[i]), NEW tally \in Tallies
       PROVE  Spent(stay, tally) = Spent(br, tally)
  <2> DEFINE v == [b \in Branch |-> b.used[tally]]
  <2>1. \A b \in Branch : b.used[tally] \in Nat
    BY DEF Branch, Search!Usages, Tallies
  <2>2. v \in [Branch -> Nat]
    BY <2>1
  <2>3. \A i \in 1 .. Len(br) : br[i] \in Branch
    OBVIOUS
  <2>4. \A i \in 1 .. Len(br) : i \notin places => v[br[i]] = 0
    BY <1>4, <1>11, <2>3 DEF Unused
  <2>5. \A l \in Seq(Branch) : Spent(l, tally) = Summed(Valued(v, l))
    <3> TAKE l \in Seq(Branch)
    <3>1. \A i \in 1 .. Len(l) : v[l[i]] = l[i].used[tally]
      OBVIOUS
    <3>2. [i \in 1 .. Len(l) |-> v[l[i]]] = [i \in 1 .. Len(l) |-> l[i].used[tally]]
      BY <3>1
    <3>3. QED
      BY <3>2 DEF Spent, Valued
  <2> HIDE DEF v, places
  <2>6. Summed(Valued(v, stay)) = Summed(Valued(v, br))
    BY <2>2, <2>4, SummedPicked DEF stay
  <2>7. QED
    BY <1>2, <2>5, <2>6
<1>12. new.branches = stay
  BY <1>1
<1> HIDE DEF new, places
<1>13. QED
  BY <1>9, <1>10, <1>11, <1>12 DEF new

LEMMA AllFailedIs ==
  ASSUME NEW br \in Seq(Branch), NEW ed \in SUBSET Edge, Traceable(br, ed), NEW sent
  PROVE  LET new == Search!AllFailed([branches |-> br, edges |-> ed])
         IN  /\ Returned(br, ed, new)
             /\ Cardinality(Tried(new.branches, <<>>)) <= Cardinality(Tried(br, sent))
<1> DEFINE failed == [i \in DOMAIN br |-> IF br[i].status = "pending"
                                             THEN [br[i] EXCEPT !.status = "cancelled"] ELSE br[i]]
           new == Search!AllFailed([branches |-> br, edges |-> ed])
<1>1. new.branches = failed /\ new.edges = ed
  BY DEF Search!AllFailed
<1>2. DOMAIN br = 1 .. Len(br) /\ Len(br) \in Nat /\ \A i \in 1 .. Len(br) : br[i] \in Branch
  OBVIOUS
<1>3. ASSUME NEW i \in 1 .. Len(br)
      PROVE  /\ failed[i] \in Branch
             /\ failed[i].question = br[i].question /\ failed[i].depth = br[i].depth
             /\ failed[i].status = IF br[i].status = "pending" THEN "cancelled" ELSE br[i].status
  <2>1. br[i] \in Branch /\ i \in DOMAIN br
    BY <1>2
  <2>2. QED
    BY <2>1 DEF Branch, Statuses
<1>4. failed \in Seq(Branch) /\ Len(failed) = Len(br)
  BY <1>2, <1>3
<1> HIDE DEF failed
<1>5. Aged(br, failed) /\ \A i \in 1 .. Len(br) : failed[i].status # "pending"
  <2>1. ASSUME NEW i \in 1 .. Len(br)
        PROVE  /\ br[i].status = "succeeded" => failed[i].status = "succeeded"
               /\ failed[i].status # "pending"
    BY <1>3
  <2>2. QED
    BY <1>3, <1>4, <2>1 DEF Aged
<1>6. Traceable(failed, ed)
  BY <1>5, AgedTraceable
<1>7. Overran(br) => Overran(failed)
  BY <1>3, <1>4 DEF Overran
<1>8. Tried(failed, <<>>) \subseteq Tried(br, sent)
  <2> SUFFICES ASSUME NEW i \in Tried(failed, <<>>) PROVE i \in Tried(br, sent)
    OBVIOUS
  <2>1. i \in 1 .. Len(br) /\ failed[i].status \in Search!Attempted
    BY <1>4 DEF Tried, InBatch
  <2>2. br[i].status \in Search!Attempted
    BY <1>3, <2>1 DEF Search!Attempted
  <2>3. QED
    BY <2>1, <2>2 DEF Tried
<1>9. Cardinality(Tried(failed, <<>>)) <= Cardinality(Tried(br, sent))
  BY <1>8, TriedFinite, FS_Subset
<1>10. QED
  BY <1>1, <1>4, <1>5, <1>6, <1>7, <1>9 DEF Returned

LEMMA Products ==
  \A m, p \in Nat : m * p \in Nat /\ (m + 1) * p = m * p + p /\ 0 * p = 0 /\ 1 * p = p
<1> TAKE m, p \in Nat
<1>1. m * p \in Nat
  OBVIOUS
<1>2. (m + 1) * p = m * p + p
  OBVIOUS
<1>3. QED
  BY <1>1, <1>2

-----------------------------------------------------------------------------
(* DRIFT: the preparation of a batch *)

\* The passes of PreparedBatch.
PreparedPass(batch, size, before, n) ==
  IF before.exhausted THEN before
  ELSE IF size[n] = 0 THEN [before EXCEPT !.branches[batch[n]].status = "evidence"]
  ELSE IF Search!CanReserve(before.budget, size[n], BranchMax)
    THEN [budget |-> Search!Reserve(before.budget, size[n], BranchMax),
          branches |-> [before.branches EXCEPT ![batch[n]].used = Search!Used(1, size[n], 0)],
          asked |-> Append(before.asked, batch[n]),
          exhausted |-> FALSE]
    ELSE [before EXCEPT !.exhausted = TRUE]

Unprepared == [budget |-> budget, branches |-> branches, asked |-> <<>>, exhausted |-> FALSE]

IsPreparing(f, batch, size) ==
  f = [n \in 0 .. Len(batch) |->
         IF n = 0 THEN Unprepared ELSE PreparedPass(batch, size, f[n - 1], n)]

\* The first of the pending branches, in their order.
IsBatch(br, batch) ==
  /\ batch \in Seq(Nat)
  /\ \A k \in 1 .. Len(batch) : batch[k] \in 1 .. Len(br) /\ br[batch[k]].status = "pending"
  /\ \A j, k \in 1 .. Len(batch) : j < k => batch[j] < batch[k]
  /\ \A k \in 1 .. Len(batch), i \in 1 .. Len(br) :
       br[i].status = "pending" /\ i < batch[k] => \E m \in 1 .. k - 1 : batch[m] = i

IsNext(batch, m, n) == n \in 1 .. Len(batch) /\ m = n - 1

Sized(batch, size) == \A k \in 1 .. Len(batch) : size[k] \in Nat

Preparation ==
  [budget : Budgets, branches : {br \in Seq(Branch) : Len(br) = Len(branches)}, asked : Seq(Nat),
   exhausted : BOOLEAN]

\* What is prepared of the batch up to its n-th branch.
PreparedTo(batch, n, st) ==
  /\ st \in Preparation
  /\ st.budget.heldCalls = budget.heldCalls /\ st.budget.heldOutput = budget.heldOutput
  /\ Counted(st.budget) /\ (Covered(budget) => Covered(st.budget))
  /\ st.budget.active = Len(st.asked) * BranchMax
  /\ \A tally \in Tallies :
       st.budget[tally] + Spent(branches, tally) = budget[tally] + Spent(st.branches, tally)
  /\ \A i \in 1 .. Len(branches) :
       \/ st.branches[i] = branches[i]
       \/ /\ \E m \in 1 .. n : batch[m] = i
          /\ branches[i].status = "pending"
          /\ st.branches[i].question = branches[i].question
          /\ st.branches[i].depth = branches[i].depth
          /\ st.branches[i].status \in {"pending", "evidence"}
  /\ Awaited(st.branches, st.asked)
  /\ \A k \in 1 .. Len(st.asked) : \E m \in 1 .. n : batch[m] = st.asked[k]
  /\ ~st.exhausted =>
       \A m \in 1 .. n : st.branches[batch[m]].status = "pending" => InBatch(st.asked, batch[m])
  /\ Cardinality(Tried(st.branches, st.asked)) <= Cardinality(Tried(branches, <<>>)) + n

Preparable ==
  /\ DriftTypes /\ budget \in Budgets /\ branches \in Seq(Branch)
  /\ budget.active = 0 /\ Counted(budget)
  /\ \A i \in 1 .. Len(branches) : branches[i].status = "pending" => Unused(branches[i])

\* A branch for which there is no evidence.
LEMMA WithoutEvidence ==
  ASSUME NEW br \in Seq(Branch), NEW i \in 1 .. Len(br)
  PROVE  LET new == [br EXCEPT ![i].status = "evidence"]
         IN  /\ new \in Seq(Branch) /\ Len(new) = Len(br)
             /\ new[i].question = br[i].question /\ new[i].depth = br[i].depth
             /\ new[i].status = "evidence" /\ new[i].used = br[i].used
             /\ \A j \in 1 .. Len(br) : j # i => new[j] = br[j]
             /\ \A tally \in Tallies : Spent(new, tally) = Spent(br, tally)
<1> DEFINE new == [br EXCEPT ![i].status = "evidence"]
<1>1. DOMAIN br = 1 .. Len(br) /\ Len(br) \in Nat /\ \A j \in 1 .. Len(br) : br[j] \in Branch
  OBVIOUS
<1>2. /\ new[i].question = br[i].question /\ new[i].depth = br[i].depth
      /\ new[i].status = "evidence" /\ new[i].used = br[i].used /\ new[i] \in Branch
  <2>1. br[i] \in Branch
    OBVIOUS
  <2>2. new[i] = [br[i] EXCEPT !.status = "evidence"]
    BY <1>1
  <2> HIDE DEF new
  <2>3. QED
    BY <2>1, <2>2 DEF Branch, Statuses, Search!Attempted
<1>3. \A j \in 1 .. Len(br) : j # i => new[j] = br[j]
  BY <1>1
<1>4. DOMAIN new = 1 .. Len(br)
  BY <1>1
<1> HIDE DEF new
<1>5. \A j \in 1 .. Len(br) : new[j] \in Branch
  BY <1>1, <1>2, <1>3
<1>6. new \in Seq(Branch) /\ Len(new) = Len(br)
  <2>1. new = [j \in 1 .. Len(br) |-> new[j]]
    BY <1>1, <1>4 DEF new
  <2>2. QED
    BY <1>1, <1>5, <2>1
<1>7. ASSUME NEW tally \in Tallies PROVE Spent(new, tally) = Spent(br, tally)
  <2>1. \A j \in 1 .. Len(br) : new[j].used[tally] = br[j].used[tally]
    BY <1>2, <1>3
  <2>2. [j \in 1 .. Len(new) |-> new[j].used[tally]] = [j \in 1 .. Len(br) |-> br[j].used[tally]]
    BY <1>6, <2>1
  <2>3. QED
    BY <2>2 DEF Spent
<1>8. QED
  BY <1>2, <1>3, <1>6, <1>7 DEF new

\* A branch whose usage becomes another, and its status.
LEMMA WithUsage ==
  ASSUME NEW br \in Seq(Branch), NEW i \in 1 .. Len(br), NEW new \in Seq(Branch),
         Len(new) = Len(br), \A j \in 1 .. Len(br) : j # i => new[j] = br[j], NEW tally \in Tallies
  PROVE  Spent(new, tally) = Spent(br, tally) - br[i].used[tally] + new[i].used[tally]
<1> DEFINE old == [j \in 1 .. Len(br) |-> br[j].used[tally]]
           now == [j \in 1 .. Len(new) |-> new[j].used[tally]]
<1>1. old \in Seq(Nat) /\ Len(old) = Len(br) /\ now \in Seq(Nat) /\ Len(now) = Len(br)
  BY SpentOf
<1>2. \A j \in 1 .. Len(br) : old[j] = br[j].used[tally] /\ now[j] = new[j].used[tally]
  OBVIOUS
<1>3. Spent(br, tally) = Summed(old) /\ Spent(new, tally) = Summed(now)
  BY DEF Spent
<1> HIDE DEF old, now
<1>4. Summed(now) = Summed(old) - old[i] + now[i]
  <2>1. \A k \in 1 .. Len(old) : k # i => now[k] = old[k]
    BY <1>1, <1>2
  <2>2. QED
    BY <1>1, <2>1, SummedChanged
<1>5. QED
  BY <1>2, <1>3, <1>4

LEMMA ReservedIs ==
  ASSUME NEW br \in Seq(Branch), NEW i \in 1 .. Len(br), NEW prompt \in Nat
  PROVE  LET new == [br EXCEPT ![i].used = Search!Used(1, prompt, 0)]
         IN  /\ new \in Seq(Branch) /\ Len(new) = Len(br)
             /\ new[i].question = br[i].question /\ new[i].depth = br[i].depth
             /\ new[i].status = br[i].status
             /\ new[i].used.calls = 1 /\ new[i].used.prompt = prompt /\ new[i].used.output = 0
             /\ \A j \in 1 .. Len(br) : j # i => new[j] = br[j]
<1> DEFINE new == [br EXCEPT ![i].used = Search!Used(1, prompt, 0)]
<1>1. DOMAIN br = 1 .. Len(br) /\ Len(br) \in Nat /\ \A j \in 1 .. Len(br) : br[j] \in Branch
  OBVIOUS
<1>2. /\ new[i].question = br[i].question /\ new[i].depth = br[i].depth
      /\ new[i].status = br[i].status /\ new[i].used = Search!Used(1, prompt, 0) /\ new[i] \in Branch
  <2>1. br[i] \in Branch
    OBVIOUS
  <2>2. new[i] = [br[i] EXCEPT !.used = Search!Used(1, prompt, 0)]
    BY <1>1
  <2>3. Search!Used(1, prompt, 0) \in Search!Usages
    BY DEF Search!Used, Search!Usages
  <2> HIDE DEF new
  <2>4. QED
    BY <2>1, <2>2, <2>3 DEF Branch
<1>3. \A j \in 1 .. Len(br) : j # i => new[j] = br[j]
  BY <1>1
<1>4. DOMAIN new = 1 .. Len(br)
  BY <1>1
<1>5. new[i].used.calls = 1 /\ new[i].used.prompt = prompt /\ new[i].used.output = 0
  BY <1>2 DEF Search!Used
<1> HIDE DEF new
<1>6. \A j \in 1 .. Len(br) : new[j] \in Branch
  BY <1>1, <1>2, <1>3
<1>7. new \in Seq(Branch) /\ Len(new) = Len(br)
  <2>1. new = [j \in 1 .. Len(br) |-> new[j]]
    BY <1>1, <1>4 DEF new
  <2>2. QED
    BY <1>1, <1>6, <2>1
<1>8. QED
  BY <1>2, <1>3, <1>5, <1>7 DEF new

LEMMA Following ==
  \A a \in Nat : \A b : b = a + 1 =>
    /\ a + 1 \in 1 .. b
    /\ \A k \in 1 .. a : k \in 1 .. b
    /\ \A k \in 1 .. b : k \in 1 .. a \/ k = a + 1
    /\ \A j, k \in 1 .. b : j < k => j \in 1 .. a
OBVIOUS

LEMMA Appended ==
  ASSUME NEW S, NEW s \in Seq(S), NEW x \in S
  PROVE  /\ Append(s, x) \in Seq(S) /\ Len(Append(s, x)) = Len(s) + 1
         /\ Append(s, x)[Len(s) + 1] = x
         /\ \A k \in 1 .. Len(s) : Append(s, x)[k] = s[k]
         /\ \A k \in 1 .. Len(s) : k \in 1 .. Len(s) + 1
         /\ \A k \in 1 .. Len(s) + 1 : k \in 1 .. Len(s) \/ k = Len(s) + 1
<1>1. Len(s) \in Nat
  OBVIOUS
<1>2. \A k \in 1 .. Len(s) : k \in 1 .. Len(s) + 1
  BY <1>1
<1>3. \A k \in 1 .. Len(s) + 1 : k \in 1 .. Len(s) \/ k = Len(s) + 1
  BY <1>1
<1>4. Append(s, x) \in Seq(S) /\ Len(Append(s, x)) = Len(s) + 1
  OBVIOUS
<1>5. Append(s, x)[Len(s) + 1] = x
  BY <1>1
<1>6. \A k \in 1 .. Len(s) : Append(s, x)[k] = s[k]
  OBVIOUS
<1>7. QED
  BY <1>2, <1>3, <1>4, <1>5, <1>6

LEMMA PrepareOne ==
  ASSUME Preparable, NEW batch, IsBatch(branches, batch), NEW size,
         Sized(batch, size),
         NEW n, NEW m, IsNext(batch, m, n), NEW before, PreparedTo(batch, m, before)
  PROVE  PreparedTo(batch, n, PreparedPass(batch, size, before, n))
<1> DEFINE i == batch[n]
           br == before.branches
           sent == before.asked
           st == PreparedPass(batch, size, before, n)
<1>0. n \in 1 .. Len(batch) /\ n \in Nat /\ m = n - 1
  <2>1. Len(batch) \in Nat
    BY DEF IsBatch
  <2>2. QED
    BY <2>1 DEF IsNext
<1>1. /\ DriftTypes /\ branches \in Seq(Branch) /\ Len(branches) \in Nat /\ n \in Nat
      /\ \A j \in 1 .. Len(branches) : branches[j].status = "pending" => Unused(branches[j])
  BY <1>0 DEF Preparable
<1>2. /\ batch \in Seq(Nat) /\ Len(batch) \in Nat
      /\ \A k \in 1 .. Len(batch) :
           batch[k] \in 1 .. Len(branches) /\ branches[batch[k]].status = "pending"
      /\ \A j, k \in 1 .. Len(batch) : j < k => batch[j] < batch[k]
      /\ \A k \in 1 .. Len(batch), j \in 1 .. Len(branches) :
           branches[j].status = "pending" /\ j < batch[k] => \E l \in 1 .. k - 1 : batch[l] = j
  BY DEF IsBatch
<1>3. /\ before \in Preparation
      /\ br \in Seq(Branch) /\ Len(br) = Len(branches) /\ sent \in Seq(Nat) /\ Len(sent) \in Nat
      /\ before.budget \in Budgets /\ before.exhausted \in BOOLEAN
  <2>1. before \in Preparation
    BY DEF PreparedTo
  <2>2. QED
    BY <2>1 DEF Preparation
<1>4. /\ before.budget.heldCalls = budget.heldCalls
      /\ before.budget.heldOutput = budget.heldOutput
      /\ Counted(before.budget) /\ (Covered(budget) => Covered(before.budget))
      /\ before.budget.active = Len(sent) * BranchMax
      /\ \A tally \in Tallies :
           before.budget[tally] + Spent(branches, tally) = budget[tally] + Spent(br, tally)
      /\ \A j \in 1 .. Len(branches) :
           \/ br[j] = branches[j]
           \/ /\ \E l \in 1 .. n - 1 : batch[l] = j
              /\ branches[j].status = "pending"
              /\ br[j].question = branches[j].question
              /\ br[j].depth = branches[j].depth
              /\ br[j].status \in {"pending", "evidence"}
      /\ Awaited(br, sent)
      /\ \A k \in 1 .. Len(sent) : \E l \in 1 .. n - 1 : batch[l] = sent[k]
      /\ ~before.exhausted =>
           \A l \in 1 .. n - 1 : br[batch[l]].status = "pending" => InBatch(sent, batch[l])
      /\ Cardinality(Tried(br, sent)) <= Cardinality(Tried(branches, <<>>)) + (n - 1)
  BY <1>0 DEF PreparedTo
<1>5. \A l \in 1 .. n - 1 : l \in 1 .. Len(batch) /\ l \in 1 .. n /\ batch[l] < i /\ batch[l] # i
  BY <1>0, <1>1, <1>2
<1>6. /\ i \in 1 .. Len(branches) /\ branches[i].status = "pending" /\ br[i] = branches[i]
      /\ ~InBatch(sent, i) /\ \A k \in 1 .. Len(sent) : sent[k] # i
  <2>1. i \in 1 .. Len(branches) /\ branches[i].status = "pending"
    BY <1>0, <1>2
  <2>2. ASSUME NEW k \in 1 .. Len(sent) PROVE sent[k] # i
    <3>1. \E l \in 1 .. n - 1 : batch[l] = sent[k]
      BY <1>4
    <3>2. QED
      BY <3>1, <1>5
  <2>3. QED
    BY <2>1, <2>2, <1>4, <1>5 DEF InBatch
<1>7. Unused(br[i]) /\ \A k \in 1 .. Len(sent) : sent[k] < i
  BY <1>3, <1>4, <1>6 DEF Awaited
<1>8. /\ \A k \in 1 .. Len(sent) :
           /\ sent[k] \in 1 .. Len(br) /\ br[sent[k]].status = "pending"
           /\ br[sent[k]].used.calls = 1 /\ br[sent[k]].used.output = 0
      /\ \A j, k \in 1 .. Len(sent) : j < k => sent[j] < sent[k]
      /\ \A j \in 1 .. Len(br) : br[j].status = "pending" =>
           InBatch(sent, j) \/ (Unused(br[j]) /\ \A k \in 1 .. Len(sent) : sent[k] < j)
  BY <1>4 DEF Awaited
<1>9. /\ Cardinality(Tried(br, sent)) \in Nat /\ Cardinality(Tried(branches, <<>>)) \in Nat
      /\ IsFiniteSet(Tried(br, sent))
  BY <1>1, <1>3, TriedFinite
<1>10. Cardinality(Tried(br, sent)) <= Cardinality(Tried(branches, <<>>)) + n
  BY <1>1, <1>4, <1>9
<1>11. ASSUME NEW set \in SUBSET (Tried(br, sent) \cup {i})
       PROVE  Cardinality(set) <= Cardinality(Tried(branches, <<>>)) + n
  <2> DEFINE T == Tried(br, sent)
  <2>0. IsFiniteSet(T) /\ Cardinality(T) \in Nat /\ set \in SUBSET (T \cup {i})
        /\ Cardinality(T) <= Cardinality(Tried(branches, <<>>)) + (n - 1)
    BY <1>4, <1>9
  <2> HIDE DEF T
  <2>1. IsFiniteSet(T \cup {i}) /\ Cardinality(T \cup {i}) <= Cardinality(T) + 1
    <3>1. IsFiniteSet(T \cup {i})
          /\ Cardinality(T \cup {i}) = IF i \in T THEN Cardinality(T) ELSE Cardinality(T) + 1
      BY <2>0, FS_AddElement
    <3>2. QED
      BY <2>0, <3>1
  <2>2. Cardinality(T \cup {i}) \in Nat
    BY <2>1, FS_CardinalityType
  <2>3. IsFiniteSet(set) /\ Cardinality(set) <= Cardinality(T \cup {i})
    BY <2>0, <2>1, FS_Subset
  <2>4. Cardinality(set) \in Nat
    BY <2>3, FS_CardinalityType
  <2>5. n \in Nat /\ Cardinality(Tried(branches, <<>>)) \in Nat
    BY <1>1, <1>9
  <2>6. QED
    BY <2>0, <2>1, <2>2, <2>3, <2>4, <2>5
<1>12. \A j \in 1 .. Len(branches) :
           \/ br[j] = branches[j]
           \/ /\ \E l \in 1 .. n : batch[l] = j
              /\ branches[j].status = "pending"
              /\ br[j].question = branches[j].question
              /\ br[j].depth = branches[j].depth
              /\ br[j].status \in {"pending", "evidence"}
  BY <1>4, <1>5
<1>13. \A k \in 1 .. Len(sent) : \E l \in 1 .. n : batch[l] = sent[k]
  BY <1>4, <1>5
<1>20. Len(sent) \in Nat
  BY <1>3
<1>21. sent \in Seq(Nat)
  BY <1>3
<1>22. before.budget \in Budgets
  BY <1>3
<1>23. before.budget.active = Len(sent) * BranchMax
  BY <1>4
<1>24. ~before.exhausted =>
         \A l \in 1 .. n - 1 : br[batch[l]].status = "pending" => InBatch(sent, batch[l])
  BY <1>4
<1>25. /\ before.budget.heldCalls = budget.heldCalls
       /\ before.budget.heldOutput = budget.heldOutput
       /\ Counted(before.budget) /\ (Covered(budget) => Covered(before.budget))
  BY <1>4
<1>26. \A tally \in Tallies :
         before.budget[tally] + Spent(branches, tally) = budget[tally] + Spent(br, tally)
  BY <1>4
<1>27. Awaited(br, sent)
  BY <1>4
<1> HIDE DEF br, sent, i
<1>14. CASE before.exhausted \/ (~before.exhausted /\ size[n] # 0
                                 /\ ~Search!CanReserve(before.budget, size[n], BranchMax))
  <2>1. st.budget = before.budget /\ st.branches = br /\ st.asked = sent /\ st.exhausted = TRUE
        /\ st \in Preparation
    <3>1. CASE before.exhausted
      BY <3>1, <1>3 DEF PreparedPass, br, sent
    <3>2. CASE ~before.exhausted
      <4>1. st = [before EXCEPT !.exhausted = TRUE]
        BY <3>2, <1>14 DEF PreparedPass
      <4>2. QED
        BY <4>1, <1>3 DEF Preparation, br, sent
    <3>3. QED
      BY <3>1, <3>2
  <2> HIDE DEF st
  <2>2. PreparedTo(batch, n, st)
    BY <2>1, <1>10, <1>12, <1>13, <1>23, <1>25, <1>26, <1>27 DEF PreparedTo
  <2>3. QED
    BY <2>2 DEF st
<1>15. CASE ~before.exhausted /\ size[n] = 0
  <2> DEFINE new == [br EXCEPT ![i].status = "evidence"]
  <2>1. st = [before EXCEPT !.branches = new]
    BY <1>15 DEF PreparedPass, br, i
  <2>2. /\ new \in Seq(Branch) /\ Len(new) = Len(br)
        /\ new[i].question = br[i].question /\ new[i].depth = br[i].depth
        /\ new[i].status = "evidence" /\ new[i].used = br[i].used
        /\ \A j \in 1 .. Len(br) : j # i => new[j] = br[j]
        /\ \A tally \in Tallies : Spent(new, tally) = Spent(br, tally)
    BY <1>3, <1>6, WithoutEvidence
  <2> HIDE DEF new, st
  <2>3. st.budget = before.budget /\ st.branches = new /\ st.asked = sent /\ ~st.exhausted
        /\ st \in Preparation
    BY <2>1, <2>2, <1>3, <1>15 DEF Preparation, sent
  <2>4. Awaited(new, sent)
    <3>1. ASSUME NEW k \in 1 .. Len(sent)
          PROVE  /\ sent[k] \in 1 .. Len(new) /\ new[sent[k]].status = "pending"
                 /\ new[sent[k]].used.calls = 1 /\ new[sent[k]].used.output = 0
      <4>1. sent[k] \in 1 .. Len(br) /\ sent[k] # i
        BY <1>6, <1>8
      <4>2. new[sent[k]] = br[sent[k]]
        BY <2>2, <4>1
      <4>3. QED
        BY <2>2, <4>1, <4>2, <1>8
    <3>2. ASSUME NEW j \in 1 .. Len(new), new[j].status = "pending"
          PROVE  InBatch(sent, j) \/ (Unused(new[j]) /\ \A k \in 1 .. Len(sent) : sent[k] < j)
      <4>1. j \in 1 .. Len(br) /\ j # i
        BY <2>2, <3>2
      <4>2. new[j] = br[j]
        BY <2>2, <4>1
      <4>3. QED
        BY <3>2, <4>1, <4>2, <1>8
    <3>3. QED
      BY <3>1, <3>2, <1>8 DEF Awaited
  <2>5. ASSUME NEW j \in 1 .. Len(branches)
        PROVE  \/ new[j] = branches[j]
               \/ /\ \E l \in 1 .. n : batch[l] = j
                  /\ branches[j].status = "pending"
                  /\ new[j].question = branches[j].question
                  /\ new[j].depth = branches[j].depth
                  /\ new[j].status \in {"pending", "evidence"}
    <3>1. CASE j = i
      <4>1. n \in 1 .. n /\ batch[n] = j
        BY <3>1, <1>0 DEF i
      <4>2. QED
        BY <3>1, <4>1, <2>2, <1>6
    <3>2. CASE j # i
      <4>1. new[j] = br[j]
        BY <3>2, <2>2, <1>3
      <4>2. QED
        BY <4>1, <1>12
    <3>3. QED
      BY <3>1, <3>2
  <2>6. ASSUME NEW l \in 1 .. n, new[batch[l]].status = "pending" PROVE InBatch(sent, batch[l])
    <3>1. l # n
      BY <2>2, <2>6 DEF i
    <3>2. l \in 1 .. n - 1
      BY <3>1, <1>1
    <3>3. batch[l] \in 1 .. Len(br) /\ batch[l] # i
      BY <3>2, <1>2, <1>3, <1>5
    <3>4. new[batch[l]] = br[batch[l]]
      BY <2>2, <3>3
    <3>5. br[batch[l]].status = "pending"
      BY <3>4, <2>6
    <3>6. QED
      BY <3>2, <3>5, <1>15, <1>24
  <2>7. Tried(new, sent) \subseteq Tried(br, sent) \cup {i}
    <3> SUFFICES ASSUME NEW j \in Tried(new, sent), j # i PROVE j \in Tried(br, sent)
      OBVIOUS
    <3>1. j \in 1 .. Len(br) /\ new[j] = br[j]
      BY <2>2 DEF Tried
    <3>2. QED
      BY <3>1 DEF Tried
  <2>8. PreparedTo(batch, n, st)
    <3>1. Cardinality(Tried(new, sent)) <= Cardinality(Tried(branches, <<>>)) + n
      BY <2>7, <1>11
    <3>2. \A tally \in Tallies :
            before.budget[tally] + Spent(branches, tally) = budget[tally] + Spent(new, tally)
      BY <1>4, <2>2
    <3>3. QED
      BY <2>3, <2>4, <2>5, <2>6, <3>1, <3>2, <1>13, <1>23, <1>25 DEF PreparedTo
  <2>9. QED
    BY <2>8 DEF st
<1>16. CASE /\ ~before.exhausted /\ size[n] # 0
            /\ Search!CanReserve(before.budget, size[n], BranchMax)
  <2> DEFINE new == [br EXCEPT ![i].used = Search!Used(1, size[n], 0)]
             bud == Search!Reserve(before.budget, size[n], BranchMax)
             more == Append(sent, i)
  <2>1. st = [budget |-> bud, branches |-> new, asked |-> more, exhausted |-> FALSE]
    BY <1>16 DEF PreparedPass, br, i, sent
  <2>0. size[n] \in Nat /\ BranchMax \in Nat
    BY <1>1 DEF DriftTypes, Sized, IsNext
  <2>2. /\ new \in Seq(Branch) /\ Len(new) = Len(br)
        /\ new[i].question = br[i].question /\ new[i].depth = br[i].depth
        /\ new[i].status = br[i].status
        /\ new[i].used.calls = 1 /\ new[i].used.prompt = size[n] /\ new[i].used.output = 0
        /\ \A j \in 1 .. Len(br) : j # i => new[j] = br[j]
    BY <2>0, <1>3, <1>6, ReservedIs
  <2>3. /\ bud \in Budgets
        /\ bud.calls = before.budget.calls + 1 /\ bud.prompt = before.budget.prompt + size[n]
        /\ bud.active = before.budget.active + BranchMax /\ bud.output = before.budget.output
        /\ bud.heldCalls = before.budget.heldCalls /\ bud.heldOutput = before.budget.heldOutput
    BY <2>0, <1>3, ReserveIs
  <2>4. /\ more \in Seq(Nat) /\ Len(more) = Len(sent) + 1 /\ more[Len(sent) + 1] = i
        /\ \A k \in 1 .. Len(sent) : more[k] = sent[k]
        /\ \A k \in 1 .. Len(more) : k \in 1 .. Len(sent) \/ k = Len(sent) + 1
    <3>1. i \in Nat
      BY <1>1, <1>6
    <3>2. /\ more \in Seq(Nat) /\ Len(more) = Len(sent) + 1 /\ more[Len(sent) + 1] = i
          /\ \A k \in 1 .. Len(sent) : more[k] = sent[k]
      BY <3>1, <1>21, Appended
    <3> HIDE DEF more
    <3>3. QED
      BY <3>2, <1>20, Following
  <2> HIDE DEF new, bud, more, st
  <2>40. Len(more) = Len(sent) + 1
    BY <2>4
  <2>5. st.budget = bud /\ st.branches = new /\ st.asked = more /\ ~st.exhausted
        /\ st \in Preparation
    BY <2>1, <2>2, <2>3, <2>4, <1>3 DEF Preparation
  <2>6. /\ before.budget.calls \in Nat /\ before.budget.prompt \in Nat /\ before.budget.output \in Nat
        /\ before.budget.active \in Nat /\ before.budget.heldCalls \in Nat
        /\ before.budget.heldOutput \in Nat
    <3>1. ReduceMax \in Nat
      BY <1>1 DEF DriftTypes
    <3>2. QED
      BY <3>1, <1>22 DEF Budgets
  <2>01. ModelCalls \in Nat /\ PromptTokens \in Nat /\ OutputTokens \in Nat
    BY <1>1 DEF DriftTypes
  <2>7. Counted(bud) /\ Covered(bud)
    <3>1. /\ before.budget.calls + before.budget.heldCalls + 1 <= ModelCalls
          /\ before.budget.prompt + size[n] <= PromptTokens
          /\ before.budget.output + before.budget.heldOutput + before.budget.active + BranchMax
               <= OutputTokens
      BY <1>16 DEF Search!CanReserve
    <3>2. Counted(bud)
      BY <2>0, <2>01, <2>3, <2>6, <3>1 DEF Counted
    <3>3. Covered(bud)
      BY <2>0, <2>01, <2>3, <2>6, <3>1 DEF Covered
    <3>4. QED
      BY <3>2, <3>3
  <2>8. bud.active = Len(more) * BranchMax
    BY <2>0, <2>3, <2>4, <1>20, <1>23, Products
  <2>9. ASSUME NEW tally \in Tallies
        PROVE  bud[tally] + Spent(branches, tally) = budget[tally] + Spent(new, tally)
    <3>1. Spent(new, tally) = Spent(br, tally) - br[i].used[tally] + new[i].used[tally]
      BY <2>2, <1>3, <1>6, WithUsage
    <3>2. br[i].used[tally] = 0
      BY <1>7 DEF Unused
    <3>3. bud[tally] = before.budget[tally] + new[i].used[tally] /\ new[i].used[tally] \in Nat
      BY <2>0, <2>2, <2>3, <2>6 DEF Tallies
    <3>4. Spent(br, tally) \in Nat /\ Spent(branches, tally) \in Nat
      BY <1>1, <1>3, SpentOf
    <3>5. before.budget[tally] + Spent(branches, tally) = budget[tally] + Spent(br, tally)
      BY <1>4
    <3>6. budget[tally] \in Nat /\ before.budget[tally] \in Nat
      BY <2>6 DEF Tallies, Preparable, Budgets
    <3> DEFINE a == Spent(new, tally)
               b == Spent(br, tally)
               c == Spent(branches, tally)
               u == new[i].used[tally]
               p == bud[tally]
               q == before.budget[tally]
               r == budget[tally]
    <3>7. a = b - 0 + u /\ p = q + u /\ u \in Nat /\ b \in Nat /\ c \in Nat /\ q + c = r + b
          /\ r \in Nat /\ q \in Nat
      BY <3>1, <3>2, <3>3, <3>4, <3>5, <3>6
    <3> HIDE DEF a, b, c, u, p, q, r
    <3>8. p + c = r + a
      BY <3>7
    <3>9. QED
      BY <3>8 DEF a, c, p, r
  <2>10. ASSUME NEW j \in 1 .. Len(branches)
        PROVE  \/ new[j] = branches[j]
               \/ /\ \E l \in 1 .. n : batch[l] = j
                  /\ branches[j].status = "pending"
                  /\ new[j].question = branches[j].question
                  /\ new[j].depth = branches[j].depth
                  /\ new[j].status \in {"pending", "evidence"}
    <3>1. CASE j = i
      <4>1. n \in 1 .. n /\ batch[n] = j
        BY <3>1, <1>0 DEF i
      <4>2. QED
        BY <3>1, <4>1, <2>2, <1>6
    <3>2. CASE j # i
      <4>1. new[j] = br[j]
        BY <3>2, <2>2, <1>3
      <4>2. QED
        BY <4>1, <1>12
    <3>3. QED
      BY <3>1, <3>2
  <2>11. InBatch(more, i) /\ \A j : InBatch(sent, j) => InBatch(more, j)
    <3>1. Len(sent) + 1 \in 1 .. Len(more)
      BY <2>40, <1>20, Following
    <3>2. \A k \in 1 .. Len(sent) : k \in 1 .. Len(more)
      BY <2>40, <1>20, Following
    <3>3. QED
      BY <2>4, <3>1, <3>2 DEF InBatch
  <2>12. ASSUME NEW j \in 1 .. Len(br), br[j].status = "pending", ~InBatch(more, j)
         PROVE  j > i
    <3>1. j # i /\ ~InBatch(sent, j)
      BY <2>11, <2>12
    <3>2. branches[j].status = "pending" /\ j \in 1 .. Len(branches)
      BY <2>12, <1>3, <1>4
    <3>3. CASE j < i
      <4>1. PICK l \in 1 .. n - 1 : batch[l] = j
        BY <3>2, <3>3, <1>0, <1>2 DEF i
      <4>2. QED
        BY <4>1, <3>1, <2>12, <1>4, <1>16
    <3>4. i \in Nat /\ j \in Nat
      BY <1>1, <1>6, <3>2
    <3>5. QED
      BY <3>1, <3>3, <3>4
  <2>13. Awaited(new, more)
    <3>1. ASSUME NEW k \in 1 .. Len(more)
          PROVE  /\ more[k] \in 1 .. Len(new) /\ new[more[k]].status = "pending"
                 /\ new[more[k]].used.calls = 1 /\ new[more[k]].used.output = 0
      <4>1. CASE k \in 1 .. Len(sent)
        <5>1. sent[k] \in 1 .. Len(br) /\ sent[k] # i /\ more[k] = sent[k]
          BY <4>1, <1>6, <1>8, <2>4
        <5>2. new[sent[k]] = br[sent[k]]
          BY <2>2, <5>1
        <5>3. QED
          BY <4>1, <2>2, <5>1, <5>2, <1>8
      <4>2. CASE k = Len(sent) + 1
        BY <4>2, <2>2, <2>4, <1>3, <1>6
      <4>3. QED
        BY <4>1, <4>2, <2>4
    <3>2. ASSUME NEW j \in 1 .. Len(more), NEW k \in 1 .. Len(more), j < k
          PROVE  more[j] < more[k]
      <4>1. j \in 1 .. Len(sent)
        BY <3>2, <2>40, <1>20, Following
      <4>2. CASE k \in 1 .. Len(sent)
        BY <4>1, <4>2, <3>2, <2>4, <1>8
      <4>3. CASE k = Len(sent) + 1
        BY <4>1, <4>3, <2>4, <1>7
      <4>4. QED
        BY <4>2, <4>3, <2>4
    <3>3. ASSUME NEW j \in 1 .. Len(new), new[j].status = "pending", ~InBatch(more, j)
          PROVE  Unused(new[j]) /\ \A k \in 1 .. Len(more) : more[k] < j
      <4>1. j \in 1 .. Len(br) /\ j # i /\ ~InBatch(sent, j)
        BY <2>2, <2>11, <3>3
      <4>2. new[j] = br[j]
        BY <2>2, <4>1
      <4>3. Unused(br[j]) /\ \A k \in 1 .. Len(sent) : sent[k] < j
        BY <3>3, <4>1, <4>2, <1>8
      <4>4. j > i
        BY <3>3, <4>1, <4>2, <2>12
      <4>5. ASSUME NEW k \in 1 .. Len(more) PROVE more[k] < j
        <5>1. CASE k \in 1 .. Len(sent)
          BY <5>1, <4>3, <2>4
        <5>2. CASE k = Len(sent) + 1
          BY <5>2, <4>4, <2>4
        <5>3. QED
          BY <5>1, <5>2, <2>4
      <4>6. QED
        BY <4>2, <4>3, <4>5
    <3>4. QED
      BY <3>1, <3>2, <3>3 DEF Awaited
  <2>14. ASSUME NEW k \in 1 .. Len(more) PROVE \E l \in 1 .. n : batch[l] = more[k]
    <3>1. CASE k \in 1 .. Len(sent)
      BY <3>1, <1>13, <2>4
    <3>2. CASE k = Len(sent) + 1
      <4>1. n \in 1 .. n /\ batch[n] = more[k]
        BY <3>2, <2>4, <1>0 DEF i
      <4>2. QED
        BY <4>1
    <3>3. QED
      BY <3>1, <3>2, <2>4
  <2>15. ASSUME NEW l \in 1 .. n, new[batch[l]].status = "pending" PROVE InBatch(more, batch[l])
    <3>1. CASE l = n
      BY <3>1, <2>11 DEF i
    <3>2. CASE l # n
      <4>1. l \in 1 .. n - 1
        BY <3>2, <1>1
      <4>2. batch[l] \in 1 .. Len(br) /\ batch[l] # i
        BY <4>1, <1>2, <1>3, <1>5
      <4>3. new[batch[l]] = br[batch[l]]
        BY <2>2, <4>2
      <4>4. br[batch[l]].status = "pending"
        BY <4>3, <2>15
      <4>5. QED
        BY <4>1, <4>4, <2>11, <1>16, <1>24
    <3>3. QED
      BY <3>1, <3>2
  <2>16. Tried(new, more) \subseteq Tried(br, sent) \cup {i}
    <3> SUFFICES ASSUME NEW j \in Tried(new, more), j # i PROVE j \in Tried(br, sent)
      OBVIOUS
    <3>1. j \in 1 .. Len(br) /\ new[j] = br[j]
      BY <2>2 DEF Tried
    <3>2. InBatch(more, j) => InBatch(sent, j)
      BY <2>4 DEF InBatch
    <3>3. QED
      BY <3>1, <3>2 DEF Tried
  <2>17. QED
    <3>1. Cardinality(Tried(new, more)) <= Cardinality(Tried(branches, <<>>)) + n
      BY <2>16, <1>11
    <3>2. bud.heldCalls = budget.heldCalls /\ bud.heldOutput = budget.heldOutput
      BY <2>3, <1>4
    <3>3. PreparedTo(batch, n, st)
      BY <2>5, <2>7, <2>8, <2>9, <2>10, <2>13, <2>14, <2>15, <3>1, <3>2 DEF PreparedTo
    <3>4. QED
      BY <3>3 DEF st
<1>17. QED
  BY <1>3, <1>14, <1>15, <1>16

LEMMA PassTyped ==
  ASSUME Preparable, NEW batch, IsBatch(branches, batch), NEW size, Sized(batch, size),
         NEW n \in 1 .. Len(batch), NEW before \in Preparation
  PROVE  PreparedPass(batch, size, before, n) \in Preparation
<1> DEFINE i == batch[n]
           br == before.branches
           st == PreparedPass(batch, size, before, n)
           new == [br EXCEPT ![i].status = "evidence"]
           used == [br EXCEPT ![i].used = Search!Used(1, size[n], 0)]
           bud == Search!Reserve(before.budget, size[n], BranchMax)
<1>1. i \in 1 .. Len(branches) /\ i \in Nat /\ size[n] \in Nat /\ BranchMax \in Nat
  BY DEF IsBatch, Sized, Preparable, DriftTypes
<1>2. br \in Seq(Branch) /\ Len(br) = Len(branches) /\ i \in 1 .. Len(br)
      /\ before.budget \in Budgets /\ before.asked \in Seq(Nat)
  BY <1>1 DEF Preparation
<1>3. new \in Seq(Branch) /\ Len(new) = Len(branches)
  BY <1>2, WithoutEvidence
<1>4. used \in Seq(Branch) /\ Len(used) = Len(branches)
  BY <1>1, <1>2, ReservedIs
<1>5. bud \in Budgets
  BY <1>1, <1>2, ReserveIs
<1>6. Append(before.asked, i) \in Seq(Nat)
  BY <1>1, <1>2
<1>7. CASE before.exhausted
  BY <1>7 DEF PreparedPass
<1>8. CASE ~before.exhausted /\ size[n] = 0
  <2>1. st = [before EXCEPT !.branches = new]
    BY <1>8 DEF PreparedPass
  <2> HIDE DEF new, st
  <2>2. st \in Preparation
    BY <1>3, <2>1 DEF Preparation
  <2>3. QED
    BY <2>2 DEF st
<1>9. CASE ~before.exhausted /\ size[n] # 0 /\ Search!CanReserve(before.budget, size[n], BranchMax)
  <2>1. st = [budget |-> bud, branches |-> used, asked |-> Append(before.asked, i),
              exhausted |-> FALSE]
    BY <1>9 DEF PreparedPass
  <2> HIDE DEF used, bud, st
  <2>2. st \in Preparation
    BY <1>4, <1>5, <1>6, <2>1 DEF Preparation
  <2>3. QED
    BY <2>2 DEF st
<1>10. CASE ~before.exhausted /\ size[n] # 0 /\ ~Search!CanReserve(before.budget, size[n], BranchMax)
  <2>1. st = [before EXCEPT !.exhausted = TRUE]
    BY <1>10 DEF PreparedPass
  <2> HIDE DEF st
  <2>2. st \in Preparation
    BY <2>1 DEF Preparation
  <2>3. QED
    BY <2>2 DEF st
<1>11. QED
  <2>1. before.exhausted \in BOOLEAN
    BY DEF Preparation
  <2>2. QED
    BY <2>1, <1>7, <1>8, <1>9, <1>10

Preparing(batch, size, f) ==
  /\ f[0] = Unprepared /\ Search!PreparedBatch(batch, size) = f[Len(batch)]
  /\ \A n \in 1 .. Len(batch) : f[n] = PreparedPass(batch, size, f[n - 1], n)

LEMMA PreparedRun ==
  ASSUME Preparable, NEW batch, IsBatch(branches, batch), NEW size, Sized(batch, size)
  PROVE  \E f : Preparing(batch, size, f)
<1> DEFINE pass == [p \in Preparation \X (1 .. Len(batch)) |-> PreparedPass(batch, size, p[1], p[2])]
           f == CHOOSE f : IsPreparing(f, batch, size)
<1>1. Search!PreparedBatch(batch, size) = f[Len(batch)]
  BY DEF Search!PreparedBatch, IsPreparing, PreparedPass, Unprepared
<1>2. Len(batch) \in Nat
  BY DEF IsBatch
<1>3. Unprepared \in Preparation
  BY DEF Unprepared, Preparation, Preparable
<1>4. pass \in [Preparation \X (1 .. Len(batch)) -> Preparation]
  BY PassTyped
<1>5. \E g : IsPreparing(g, batch, size)
  <2> HIDE DEF pass
  <2>1. HasRun(Preparation, Unprepared, pass, Len(batch))
    BY <1>2, <1>3, <1>4, LoopRuns
  <2>2. PICK g \in [0 .. Len(batch) -> Preparation] :
          \A i \in 0 .. Len(batch) : g[i] = Pass(g, Unprepared, pass, i)
    BY <2>1 DEF HasRun
  <2> USE DEF pass
  <2>3. ASSUME NEW i \in 0 .. Len(batch)
        PROVE  g[i] = IF i = 0 THEN Unprepared ELSE PreparedPass(batch, size, g[i - 1], i)
    <3>1. i # 0 => i \in 1 .. Len(batch) /\ i - 1 \in 0 .. Len(batch)
      BY <1>2
    <3>2. i # 0 => <<g[i - 1], i>> \in Preparation \X (1 .. Len(batch))
      BY <3>1
    <3>3. i # 0 => pass[<<g[i - 1], i>>] = PreparedPass(batch, size, g[i - 1], i)
      BY <3>2
    <3>4. QED
      BY <2>2, <3>3 DEF Pass
  <2>4. g = [i \in 0 .. Len(batch) |-> g[i]]
    OBVIOUS
  <2>5. QED
    BY <2>3, <2>4 DEF IsPreparing
<1>6. IsPreparing(f, batch, size)
  BY <1>5
<1> HIDE DEF f
<1>7. f[0] = Unprepared
      /\ \A n \in 1 .. Len(batch) : f[n] = PreparedPass(batch, size, f[n - 1], n)
  BY <1>2, <1>6 DEF IsPreparing
<1>8. QED
  BY <1>1, <1>7 DEF Preparing

LEMMA PreparedIs ==
  ASSUME Preparable, NEW batch, IsBatch(branches, batch), NEW size, Sized(batch, size)
  PROVE  PreparedTo(batch, Len(batch), Search!PreparedBatch(batch, size))
<1>1. PICK f : Preparing(batch, size, f)
  BY PreparedRun
<1>2. Len(batch) \in Nat
  BY DEF IsBatch
<1> DEFINE T == {n \in 0 .. Len(batch) : PreparedTo(batch, n, f[n])}
<1>3. 0 \in T
  <2>0. DriftTypes /\ budget \in Budgets /\ branches \in Seq(Branch)
        /\ budget.active = 0 /\ Counted(budget) /\ BranchMax \in Nat
    BY DEF Preparable, DriftTypes
  <2>1. Unprepared.budget = budget /\ Unprepared.branches = branches /\ Unprepared.asked = <<>>
        /\ Unprepared \in Preparation
    BY <2>0 DEF Unprepared, Preparation
  <2>2. Awaited(branches, <<>>)
    BY DEF Awaited, Preparable
  <2>3. Cardinality(Tried(branches, <<>>)) \in Nat
    BY <2>0, TriedFinite
  <2>4. \A tally \in Tallies : budget[tally] + Spent(branches, tally) = budget[tally] + Spent(branches, tally)
    OBVIOUS
  <2>5. budget.active = Len(<<>>) * BranchMax
    BY <2>0, Products
  <2>6. PreparedTo(batch, 0, Unprepared)
    <3>1. \A k \in 1 .. Len(<<>>) : FALSE
      OBVIOUS
    <3>2. \A k \in 1 .. 0 : FALSE
      OBVIOUS
    <3>3. QED
      BY <2>0, <2>1, <2>2, <2>3, <2>5, <3>1, <3>2 DEF PreparedTo
  <2>7. QED
    BY <1>1, <1>2, <2>6 DEF Preparing
<1>4. ASSUME NEW n \in 1 .. Len(batch), n - 1 \in T PROVE n \in T
  <2>1. IsNext(batch, n - 1, n) /\ PreparedTo(batch, n - 1, f[n - 1])
    BY <1>4 DEF IsNext
  <2>2. PreparedTo(batch, n, PreparedPass(batch, size, f[n - 1], n))
    BY <2>1, PrepareOne
  <2>3. QED
    BY <1>1, <1>2, <2>2 DEF Preparing
<1> HIDE DEF T
<1>5. \A n \in 0 .. Len(batch) : n \in T
  BY <1>2, <1>3, <1>4, Climb
<1>6. Len(batch) \in T
  BY <1>2, <1>5
<1>7. QED
  BY <1>1, <1>6 DEF T, Preparing

LEMMA CapacityNat ==
  ASSUME DriftTypes, BranchMax > 0, budget \in Budgets
  PROVE  Search!Capacity(budget) \in Nat
<1> DEFINE more == ModelCalls - budget.calls - budget.heldCalls
           output == OutputTokens - budget.output - budget.heldOutput - budget.active
<1>1. more \in Int /\ output \in Int /\ BranchMax \in Nat /\ BranchMax > 0
  <2>1. /\ ModelCalls \in Nat /\ OutputTokens \in Nat /\ ReduceMax \in Nat
        /\ BranchMax \in Nat /\ BranchMax > 0
    BY DEF DriftTypes
  <2>2. /\ budget.calls \in Int /\ budget.heldCalls \in Int /\ budget.output \in Int
        /\ budget.heldOutput \in Int /\ budget.active \in Int
    BY <2>1 DEF Budgets
  <2>3. QED
    BY <2>1, <2>2
<1>2. Search!Capacity(budget) =
        IF budget.prompt >= PromptTokens \/ more <= 0 \/ output < BranchMax
          THEN 0
          ELSE IF more < output \div BranchMax THEN more ELSE output \div BranchMax
  BY DEF Search!Capacity
<1> HIDE DEF more, output
<1>3. output >= BranchMax => output \div BranchMax \in Nat
  BY <1>1
<1>4. ~(more <= 0) => more \in Nat
  BY <1>1
<1>5. ~(output < BranchMax) => output >= BranchMax
  BY <1>1
<1>6. QED
  BY <1>2, <1>3, <1>4, <1>5

\* The batch is the first of the pending branches.
LEMMA BatchIs ==
  ASSUME DriftTypes, BranchMax > 0, budget \in Budgets, branches \in Seq(Branch),
         processed \in 0 .. MaxBranches
  PROVE  IsBatch(branches, Search!Batch) /\ processed + Len(Search!Batch) <= MaxBranches
<1> DEFINE ids == [i \in DOMAIN branches |-> i]
           places == {i \in DOMAIN branches : branches[i].status = "pending"}
           list == Picked(ids, places)
<1>1. DOMAIN branches = 1 .. Len(branches) /\ Len(branches) \in Nat
  OBVIOUS
<1>2. ids \in Seq(Nat) /\ Len(ids) = Len(branches) /\ \A i \in 1 .. Len(branches) : ids[i] = i
  BY <1>1
<1>3. Search!Pending = list
  BY SearchLists DEF Search!Pending
<1> HIDE DEF ids
<1>4. list \in Seq(Nat) /\ \E e : Places(ids, places, Len(ids), list, e)
  BY <1>2, PickedPlaces
<1> HIDE DEF list
<1>5. /\ \A k \in 1 .. Len(list) : list[k] \in 1 .. Len(branches) /\ branches[list[k]].status = "pending"
      /\ \A j, k \in 1 .. Len(list) : j < k => list[j] < list[k]
      /\ \A i \in 1 .. Len(branches) : branches[i].status = "pending" => \E k \in 1 .. Len(list) : list[k] = i
  <2>1. PICK e : Places(ids, places, Len(ids), list, e)
    BY <1>4
  <2>2. \A k \in 1 .. Len(list) : e[k] \in 1 .. Len(branches) /\ e[k] \in places /\ list[k] = e[k]
    BY <1>2, <2>1 DEF Places
  <2>3. \A j, k \in 1 .. Len(list) : j < k => e[j] < e[k]
    BY <2>1 DEF Places
  <2>4. \A i \in 1 .. Len(branches) : i \in places => \E k \in 1 .. Len(list) : e[k] = i
    BY <1>2, <2>1 DEF Places
  <2>5. QED
    BY <1>1, <2>2, <2>3, <2>4
<1> DEFINE least(left_, right_) == IF left_ < right_ THEN left_ ELSE right_
           limit == least(least(BatchSize, MaxBranches - processed), Search!Capacity(budget))
           m == least(limit, Len(list))
           batch == SubSeq(list, 1, m)
<1>6. Search!Batch = batch
  BY <1>3 DEF Search!Batch
<1>7. limit \in Nat /\ limit <= MaxBranches - processed
  <2>1. MaxBranches - processed \in Nat /\ BatchSize \in Nat
    BY DEF DriftTypes
  <2>2. Search!Capacity(budget) \in Nat
    BY CapacityNat
  <2>3. least(BatchSize, MaxBranches - processed) \in Nat
        /\ least(BatchSize, MaxBranches - processed) <= MaxBranches - processed
    BY <2>1
  <2>4. QED
    BY <2>1, <2>2, <2>3
<1> HIDE DEF limit
<1>8. m \in Nat /\ m <= Len(list) /\ m <= MaxBranches - processed
  <2>1. Len(list) \in Nat /\ limit \in Nat
    BY <1>4, <1>7
  <2>2. (m = limit /\ limit < Len(list)) \/ (m = Len(list) /\ ~(limit < Len(list)))
    <3>1. CASE limit < Len(list)
      BY <3>1
    <3>2. CASE ~(limit < Len(list))
      BY <3>2
    <3>3. QED
      BY <3>1, <3>2
  <2>3. MaxBranches - processed \in Int
    BY DEF DriftTypes
  <2> HIDE DEF m
  <2>4. QED
    BY <1>7, <2>1, <2>2, <2>3
<1> HIDE DEF m
<1>9. /\ batch \in Seq(Nat) /\ Len(batch) = m /\ \A k \in 1 .. m : batch[k] = list[k] /\ k \in 1 .. Len(list)
  <2>1. 1 \in 1 .. Len(list) + 1 /\ m \in 1 - 1 .. Len(list)
    BY <1>4, <1>8
  <2>2. /\ batch \in Seq(Nat) /\ Len(batch) = m - 1 + 1
        /\ \A k \in 1 .. m - 1 + 1 : batch[k] = list[1 + k - 1]
    BY <1>4, <2>1, SubSeqProperties
  <2>3. m - 1 + 1 = m /\ \A k \in 1 .. m : 1 + k - 1 = k /\ k \in 1 .. Len(list)
    BY <1>4, <1>8
  <2>4. QED
    BY <2>2, <2>3
<1> HIDE DEF batch
<1>10. IsBatch(branches, batch)
  <2>1. ASSUME NEW k \in 1 .. Len(batch), NEW i \in 1 .. Len(branches),
               branches[i].status = "pending", i < batch[k]
        PROVE  \E l \in 1 .. k - 1 : batch[l] = i
    <3>1. PICK l \in 1 .. Len(list) : list[l] = i
      BY <2>1, <1>5
    <3>2. k \in 1 .. m /\ k \in 1 .. Len(list) /\ list[l] < list[k] /\ list[k] \in Nat /\ list[l] \in Nat
      BY <1>1, <1>5, <1>9, <2>1, <3>1
    <3>3. l < k
      BY <1>5, <3>1, <3>2
    <3>4. l \in 1 .. k - 1 /\ l \in 1 .. m
      BY <1>8, <3>1, <3>2, <3>3
    <3>5. QED
      BY <1>9, <3>1, <3>4
  <2>2. \A j, k \in 1 .. Len(batch) : j < k => batch[j] < batch[k]
    BY <1>5, <1>9
  <2>3. \A k \in 1 .. Len(batch) : batch[k] \in 1 .. Len(branches) /\ branches[batch[k]].status = "pending"
    BY <1>5, <1>9
  <2>4. QED
    BY <1>9, <2>1, <2>2, <2>3 DEF IsBatch
<1>11. processed + Len(batch) <= MaxBranches
  <2>1. MaxBranches \in Nat /\ processed \in Nat
    BY DEF DriftTypes
  <2>2. QED
    BY <1>8, <1>9, <2>1
<1>12. QED
  BY <1>6, <1>10, <1>11

-----------------------------------------------------------------------------
(* DRIFT: the calls of the Primer *)

\* What Validate makes sure of.
LEMMA Enough ==
  ASSUME Search!Assumptions
  PROVE  /\ DriftTypes /\ BranchMax > 0
         /\ 1 + 1 + 1 <= ModelCalls
         /\ MaxPrompt + MaxPrompt <= PromptTokens
         /\ HyDEMax + PrimerMax + ReduceMax <= OutputTokens
<1>1. DriftTypes
  BY DriftConstants
<1>2. /\ Folds > 0 /\ BranchMax > 0 /\ 1 + Folds + 1 <= ModelCalls
      /\ MaxPrompt * (1 + Folds) <= PromptTokens
      /\ HyDEMax + Folds * PrimerMax + ReduceMax <= OutputTokens
  BY DEF Search!Assumptions, Search!Validated
<1>3. /\ Folds \in Nat /\ MaxPrompt \in Nat /\ ModelCalls \in Nat /\ PromptTokens \in Nat
      /\ OutputTokens \in Nat /\ HyDEMax \in Nat /\ PrimerMax \in Nat /\ ReduceMax \in Nat
  BY <1>1 DEF DriftTypes
<1> DEFINE more == Folds - 1
<1>4. more \in Nat /\ Folds = more + 1
  BY <1>2, <1>3
<1> HIDE DEF more
<1>5. Folds * PrimerMax = more * PrimerMax + PrimerMax /\ more * PrimerMax \in Nat
  BY <1>3, <1>4, Products
<1>6. PrimerMax <= Folds * PrimerMax /\ Folds * PrimerMax \in Nat
  BY <1>3, <1>5
<1>7. MaxPrompt * (1 + Folds) = more * MaxPrompt + MaxPrompt + MaxPrompt /\ more * MaxPrompt \in Nat
  <2>1. (more + 1) * MaxPrompt = more * MaxPrompt + MaxPrompt /\ more * MaxPrompt \in Nat
    BY <1>3, <1>4, Products
  <2>2. (Folds + 1) * MaxPrompt = Folds * MaxPrompt + MaxPrompt
    BY <1>3, Products
  <2>3. MaxPrompt * (1 + Folds) = (Folds + 1) * MaxPrompt
    BY <1>3
  <2>4. QED
    BY <1>3, <1>4, <2>1, <2>2, <2>3
<1>8. MaxPrompt + MaxPrompt <= PromptTokens
  <2> DEFINE a == more * MaxPrompt
             b == MaxPrompt * (1 + Folds)
  <2>1. a \in Nat /\ b = a + MaxPrompt + MaxPrompt /\ b <= PromptTokens
    BY <1>2, <1>7
  <2> HIDE DEF a, b
  <2>2. QED
    BY <1>3, <2>1
<1>9. HyDEMax + PrimerMax + ReduceMax <= OutputTokens
  <2> DEFINE a == Folds * PrimerMax
  <2>1. a \in Nat /\ PrimerMax <= a /\ HyDEMax + a + ReduceMax <= OutputTokens
    BY <1>2, <1>6
  <2> HIDE DEF a
  <2>2. QED
    BY <1>3, <2>1
<1>10. QED
  BY <1>1, <1>2, <1>3, <1>8, <1>9

\* The passes of ReservedFolds.
FoldsPass(prompts, before, n) ==
  IF Len(before.folds) = n - 1 /\ Search!CanReserve(before.budget, prompts[n], PrimerMax)
    THEN [budget |-> Search!Reserve(before.budget, prompts[n], PrimerMax),
          folds |-> Append(before.folds, prompts[n])]
    ELSE before

NoFolds == [budget |-> budget, folds |-> <<>>]

IsReserving(f, prompts) ==
  f = [n \in 0 .. Len(prompts) |-> IF n = 0 THEN NoFolds ELSE FoldsPass(prompts, f[n - 1], n)]

FoldStates == [budget : Budgets, folds : Seq(Prompts)]

FoldsTo(n, st) ==
  /\ st \in FoldStates
  /\ st.budget.heldCalls = 1 /\ st.budget.heldOutput = ReduceMax
  /\ Counted(st.budget) /\ Covered(st.budget)
  /\ st.budget.active = Len(st.folds) * PrimerMax
  /\ st.budget.calls = budget.calls + Len(st.folds)
  /\ st.budget.prompt = budget.prompt + Summed(st.folds)
  /\ st.budget.output = budget.output
  /\ n = 0 => st = NoFolds
  /\ n > 0 => st.folds # <<>>

\* The budget after the hypothetical answer.
Hypothesised ==
  /\ budget \in Budgets
  /\ budget.calls = 1 /\ budget.prompt <= MaxPrompt /\ budget.output <= HyDEMax
  /\ budget.active = 0 /\ budget.heldCalls = 1 /\ budget.heldOutput = ReduceMax

Sizes == {p \in Prompts : p <= MaxPrompt}

LEMMA Wider ==
  ASSUME NEW S, NEW T, S \subseteq T, NEW list \in Seq(S)
  PROVE  list \in Seq(T)
<1>1. \A i \in 1 .. Len(list) : list[i] \in T
  OBVIOUS
<1>2. list = [i \in 1 .. Len(list) |-> list[i]] /\ Len(list) \in Nat
  OBVIOUS
<1>3. [i \in 1 .. Len(list) |-> list[i]] \in [1 .. Len(list) -> T]
  BY <1>1
<1>4. QED
  BY <1>2, <1>3

LEMMA FoldsPassTyped ==
  ASSUME DriftTypes, NEW prompts \in Seq(Sizes), NEW n \in 1 .. Len(prompts), NEW before \in FoldStates
  PROVE  FoldsPass(prompts, before, n) \in FoldStates
<1> DEFINE bud == Search!Reserve(before.budget, prompts[n], PrimerMax)
           more == Append(before.folds, prompts[n])
<1>1. prompts[n] \in Prompts /\ prompts[n] \in Nat /\ PrimerMax \in Nat
  <2>1. prompts[n] \in Sizes
    OBVIOUS
  <2>2. QED
    BY <2>1 DEF Sizes, DriftTypes
<1>2. before.budget \in Budgets /\ before.folds \in Seq(Prompts)
  BY DEF FoldStates
<1>3. bud \in Budgets
  BY <1>1, <1>2, ReserveIs
<1>4. more \in Seq(Prompts)
  BY <1>1, <1>2
<1> HIDE DEF bud, more
<1>5. [budget |-> bud, folds |-> more] \in FoldStates
  BY <1>3, <1>4 DEF FoldStates
<1>6. QED
  BY <1>5 DEF FoldsPass, bud, more

LEMMA FoldsReserved ==
  ASSUME Search!Assumptions, Hypothesised, NEW prompts \in Seq(Sizes), prompts # <<>>
  PROVE  FoldsTo(Len(prompts), Search!ReservedFolds(prompts)) /\ Len(prompts) > 0
<1> DEFINE pass == [p \in FoldStates \X (1 .. Len(prompts)) |-> FoldsPass(prompts, p[1], p[2])]
           f == CHOOSE f : IsReserving(f, prompts)
<1>0. DriftTypes
  BY DriftConstants
<1>1. Search!ReservedFolds(prompts) = f[Len(prompts)]
  BY DEF Search!ReservedFolds, IsReserving, FoldsPass, NoFolds
<1>2. Len(prompts) \in Nat /\ Len(prompts) > 0
  OBVIOUS
<1>3. NoFolds \in FoldStates
  BY DEF NoFolds, FoldStates, Hypothesised
<1>4. pass \in [FoldStates \X (1 .. Len(prompts)) -> FoldStates]
  BY <1>0, FoldsPassTyped
<1>5. \E g : IsReserving(g, prompts)
  <2> HIDE DEF pass
  <2>1. HasRun(FoldStates, NoFolds, pass, Len(prompts))
    BY <1>2, <1>3, <1>4, LoopRuns
  <2>2. PICK g \in [0 .. Len(prompts) -> FoldStates] :
          \A i \in 0 .. Len(prompts) : g[i] = Pass(g, NoFolds, pass, i)
    BY <2>1 DEF HasRun
  <2> USE DEF pass
  <2>3. ASSUME NEW i \in 0 .. Len(prompts)
        PROVE  g[i] = IF i = 0 THEN NoFolds ELSE FoldsPass(prompts, g[i - 1], i)
    <3>1. i # 0 => i \in 1 .. Len(prompts) /\ i - 1 \in 0 .. Len(prompts)
      BY <1>2
    <3>2. i # 0 => <<g[i - 1], i>> \in FoldStates \X (1 .. Len(prompts))
      BY <3>1
    <3>3. i # 0 => pass[<<g[i - 1], i>>] = FoldsPass(prompts, g[i - 1], i)
      BY <3>2
    <3>4. QED
      BY <2>2, <3>3 DEF Pass
  <2>4. g = [i \in 0 .. Len(prompts) |-> g[i]]
    OBVIOUS
  <2>5. QED
    BY <2>3, <2>4 DEF IsReserving
<1>6. IsReserving(f, prompts)
  BY <1>5
<1> HIDE DEF f
<1>7. f[0] = NoFolds
      /\ \A n \in 1 .. Len(prompts) : f[n] = FoldsPass(prompts, f[n - 1], n)
  BY <1>2, <1>6 DEF IsReserving
<1>8. /\ budget.calls = 1 /\ budget.prompt <= MaxPrompt /\ budget.output <= HyDEMax
      /\ budget.active = 0 /\ budget.heldCalls = 1 /\ budget.heldOutput = ReduceMax
      /\ budget \in Budgets
      /\ budget.prompt \in Nat /\ budget.output \in Nat
  BY DEF Hypothesised, Budgets
<1>9. /\ 1 + 1 + 1 <= ModelCalls /\ MaxPrompt + MaxPrompt <= PromptTokens
      /\ HyDEMax + PrimerMax + ReduceMax <= OutputTokens
  BY Enough
<1>10. /\ MaxPrompt \in Nat /\ ModelCalls \in Nat /\ PromptTokens \in Nat /\ Prompts \subseteq Nat
       /\ OutputTokens \in Nat /\ HyDEMax \in Nat /\ PrimerMax \in Nat /\ ReduceMax \in Nat
  BY <1>0 DEF DriftTypes
<1> DEFINE T == {n \in 0 .. Len(prompts) : FoldsTo(n, f[n])}
<1>11. 0 \in T
  <2>1. NoFolds.budget = budget /\ NoFolds.folds = <<>> /\ Len(<<>>) = 0
    BY DEF NoFolds
  <2>2. 0 = 0 * PrimerMax
    BY <1>10, Products
  <2>3. Counted(budget)
    BY <1>8, <1>9, <1>10 DEF Counted
  <2>4. Covered(budget)
    BY <1>8, <1>9, <1>10 DEF Covered
  <2>5. FoldsTo(0, NoFolds)
    BY <1>3, <1>8, <2>1, <2>2, <2>3, <2>4, SummedEmpty DEF FoldsTo
  <2>6. QED
    BY <1>2, <1>7, <2>5
<1>12. ASSUME NEW n \in 1 .. Len(prompts), n - 1 \in T PROVE n \in T
  <2> DEFINE before == f[n - 1]
             size == prompts[n]
             bud == Search!Reserve(before.budget, size, PrimerMax)
             more == Append(before.folds, size)
  <2>1. FoldsTo(n - 1, before) /\ f[n] = FoldsPass(prompts, before, n) /\ n \in Nat
    BY <1>2, <1>7, <1>12
  <2>2. size \in Prompts /\ size \in Nat /\ size <= MaxPrompt
    <3>1. size \in Sizes
      OBVIOUS
    <3>2. QED
      BY <1>10, <3>1 DEF Sizes
  <2>3. before.budget \in Budgets /\ before.folds \in Seq(Prompts) /\ before \in FoldStates
    BY <2>1 DEF FoldsTo, FoldStates
  <2>4. /\ before.budget.heldCalls = 1 /\ before.budget.heldOutput = ReduceMax
        /\ before.budget.active = Len(before.folds) * PrimerMax
        /\ before.budget.calls = budget.calls + Len(before.folds)
        /\ before.budget.prompt = budget.prompt + Summed(before.folds)
        /\ before.budget.output = budget.output
        /\ n - 1 = 0 => before = NoFolds
        /\ n - 1 > 0 => before.folds # <<>>
    BY <2>1 DEF FoldsTo
  <2>5. n = 1 => Len(before.folds) = n - 1 /\ Search!CanReserve(before.budget, size, PrimerMax)
    <3> SUFFICES ASSUME n = 1
                 PROVE  Len(before.folds) = n - 1 /\ Search!CanReserve(before.budget, size, PrimerMax)
      OBVIOUS
    <3>1. before.budget = budget /\ before.folds = <<>>
      BY <2>4 DEF NoFolds
    <3> HIDE DEF before, size
    <3>2. Search!CanReserve(budget, size, PrimerMax)
      BY <1>8, <1>9, <1>10, <2>2 DEF Search!CanReserve
    <3>3. QED
      BY <3>1, <3>2
  <2>6. CASE ~(Len(before.folds) = n - 1 /\ Search!CanReserve(before.budget, size, PrimerMax))
    <3>1. f[n] = before
      BY <2>1, <2>6 DEF FoldsPass
    <3>2. n # 1 /\ n - 1 > 0 /\ n # 0
      BY <2>1, <2>5, <2>6
    <3>3. FoldsTo(n, before)
      BY <2>1, <3>2 DEF FoldsTo
    <3>4. QED
      BY <1>2, <3>1, <3>3
  <2>7. CASE Len(before.folds) = n - 1 /\ Search!CanReserve(before.budget, size, PrimerMax)
    <3>1. f[n] = [budget |-> bud, folds |-> more]
      BY <2>1, <2>7 DEF FoldsPass
    <3>2. /\ bud \in Budgets
          /\ bud.calls = before.budget.calls + 1 /\ bud.prompt = before.budget.prompt + size
          /\ bud.active = before.budget.active + PrimerMax /\ bud.output = before.budget.output
          /\ bud.heldCalls = before.budget.heldCalls /\ bud.heldOutput = before.budget.heldOutput
      <4>1. before.budget \in Budgets /\ size \in Nat /\ PrimerMax \in Nat
        BY <1>10, <2>2, <2>3
      <4> HIDE DEF before, size
      <4>2. QED
        BY <4>1, ReserveIs
    <3>3. /\ more \in Seq(Prompts) /\ Len(more) = Len(before.folds) + 1 /\ more # <<>>
          /\ Len(before.folds) \in Nat
      BY <2>2, <2>3
    <3>4. Summed(more) = Summed(before.folds) + size /\ Summed(before.folds) \in Nat
      <4>1. before.folds \in Seq(Nat)
        <5>1. before.folds \in Seq(Prompts) /\ Prompts \subseteq Nat
          BY <1>10, <2>3
        <5>2. QED
          BY <5>1, Wider
      <4>2. QED
        BY <2>2, <4>1, SummedMore, SummedNat
    <3>5. f[n] \in FoldStates
      BY <1>0, <2>1, <2>3, FoldsPassTyped
    <3> DEFINE old == before.budget
               some == before.folds
    <3>6. /\ old.calls \in Nat /\ old.prompt \in Nat /\ old.output \in Nat /\ old.active \in Nat
          /\ old.calls + old.heldCalls + 1 <= ModelCalls
          /\ old.prompt + size <= PromptTokens
          /\ old.output + old.heldOutput + old.active + PrimerMax <= OutputTokens
          /\ old.heldCalls = 1 /\ old.heldOutput = ReduceMax
      BY <2>3, <2>4, <2>7 DEF Search!CanReserve, Budgets
    <3>7. old.active = Len(some) * PrimerMax /\ old.calls = budget.calls + Len(some)
          /\ old.prompt = budget.prompt + Summed(some)
      BY <2>4
    <3> HIDE DEF bud, more, before, size, old, some
    <3>8. Counted(bud)
      BY <1>10, <2>2, <3>2, <3>6 DEF Counted, old
    <3>9. Covered(bud)
      BY <1>10, <2>2, <3>2, <3>6 DEF Covered, old
    <3>10. bud.active = Len(more) * PrimerMax
      BY <1>10, <3>2, <3>3, <3>7, Products DEF old, some
    <3>11. bud.calls = budget.calls + Len(more)
      <4>1. bud.calls = budget.calls + Len(some) + 1 /\ Len(more) = Len(some) + 1 /\ Len(some) \in Nat
        BY <3>2, <3>3, <3>7 DEF old, some
      <4>2. QED
        BY <1>8, <4>1
    <3>12. bud.prompt = budget.prompt + Summed(more)
      <4>1. bud.prompt = budget.prompt + Summed(some) + size /\ Summed(more) = Summed(some) + size
            /\ Summed(some) \in Nat
        BY <3>2, <3>4, <3>7 DEF old, some
      <4>2. QED
        BY <1>8, <2>2, <4>1
    <3>13. FoldsTo(n, f[n])
      <4>1. f[n].budget = bud /\ f[n].folds = more
        BY <3>1
      <4>2. n # 0
        OBVIOUS
      <4>3. bud.heldCalls = 1 /\ bud.heldOutput = ReduceMax /\ bud.output = budget.output
        BY <2>4, <3>2, <3>6 DEF old, before
      <4>4. QED
        BY <3>3, <3>5, <3>8, <3>9, <3>10, <3>11, <3>12, <4>1, <4>2, <4>3 DEF FoldsTo
    <3>14. QED
      BY <1>2, <3>13
  <2>8. QED
    BY <2>6, <2>7
<1> HIDE DEF T
<1>13. \A n \in 0 .. Len(prompts) : n \in T
  BY <1>2, <1>11, <1>12, Climb
<1>14. Len(prompts) \in T
  BY <1>2, <1>13
<1>15. QED
  BY <1>1, <1>2, <1>14 DEF T

-----------------------------------------------------------------------------
(* DRIFT: the invariant *)

PrimerSteps == {"hypothetical", "retrieval", "folds", "opening"}

TraversalSteps == {"traversal", "running", "results"}

ReturnSteps == {"reduce", "audit", "done"}

DriftOutcomes ==
  {"none", "answered", "cancelled", "duration", "failed", "error", "overrun", "lost", "no room"}

\* What models ask.
Asks == UNION {Search!ToSet(list) : list \in FollowUps}

DriftTyped ==
  /\ step \in PrimerSteps \cup TraversalSteps \cup ReturnSteps
  /\ outcome \in DriftOutcomes /\ (outcome = "none" <=> step # "done")
  /\ gone \in BOOLEAN /\ expired \in BOOLEAN
  /\ budget \in Budgets /\ primed \in Search!Usages
  /\ folds \in Seq(Prompts) /\ primerErr \in BOOLEAN /\ queries \in Seq(Asks)
  /\ branches \in Seq(Branch) /\ edges \subseteq Edge
  /\ processed \in 0 .. MaxBranches /\ asked \in Seq(Nat) /\ exhausted \in BOOLEAN

\* The output that calls may still have.
Reserved ==
  IF step = "folds" THEN Len(folds) * PrimerMax
  ELSE IF step \in {"running", "results"} THEN Len(asked) * BranchMax
  ELSE 0

\* Until the Reduce its call and its output are held, and the output that calls
\* may have is that of the calls that are not looked at yet.
DriftBudget ==
  /\ Counted(budget)
  /\ step = "hypothetical" => budget = Search!Held
  /\ step = "retrieval" => /\ budget.calls = 1 /\ budget.prompt <= MaxPrompt
                           /\ budget.output <= HyDEMax
  /\ step \notin {"audit", "done"} =>
       budget.heldCalls = 1 /\ budget.heldOutput = ReduceMax /\ budget.active = Reserved
  /\ step \notin {"folds", "done"} => ~primerErr
  /\ step \in {"hypothetical", "retrieval"} => folds = <<>>
  /\ outcome = "none" /\ ~primerErr /\ ~Overran(branches) => Covered(budget)
  /\ step = "audit" \/ outcome = "answered" => budget.output <= OutputTokens
  /\ outcome = "lost" => Overran(branches)

Accounted(bud, used, br) ==
  \A tally \in Tallies : bud[tally] = used[tally] + Spent(br, tally)

DriftAccounted == step \notin {"audit", "done"} => Accounted(budget, primed, branches)

\* No branch is pending, and no more were tried than may be.
Settled(br) ==
  /\ \A i \in 1 .. Len(br) : br[i].status # "pending"
  /\ Cardinality(Tried(br, <<>>)) <= MaxBranches

DriftGraph ==
  /\ Traceable(branches, edges)
  /\ step \in PrimerSteps => branches = <<>> /\ edges = {} /\ processed = 0
  /\ step \in PrimerSteps \cup {"traversal"} => asked = <<>>
  /\ step \in TraversalSteps =>
       /\ InOrder(branches) /\ Awaited(branches, asked)
       /\ Cardinality(Tried(branches, asked)) <= processed
  /\ step \in ReturnSteps => Settled(branches)

DriftInv == DriftTyped /\ DriftBudget /\ DriftAccounted /\ DriftGraph

LEMMA SpentNone == \A tally : Spent(<<>>, tally) = 0
<1>1. SUFFICES ASSUME NEW tally PROVE Spent(<<>>, tally) = 0
  OBVIOUS
<1> DEFINE list == [i \in 1 .. Len(<<>>) |-> <<>>[i].used[tally]]
<1>2. Len(<<>>) = 0
  OBVIOUS
<1>3. list = <<>>
  BY <1>2
<1>4. QED
  BY <1>3, SummedEmpty DEF Spent

LEMMA EmptySettled == DriftTypes => Traceable(<<>>, {}) /\ Settled(<<>>)
<1> SUFFICES ASSUME DriftTypes PROVE Traceable(<<>>, {}) /\ Settled(<<>>)
  OBVIOUS
<1>1. Len(<<>>) = 0 /\ MaxBranches \in Nat
  BY DEF DriftTypes
<1>2. Tried(<<>>, <<>>) = {}
  BY <1>1 DEF Tried
<1>3. Cardinality({}) = 0
  BY FS_EmptySet
<1>4. Settled(<<>>)
  <2>1. Cardinality(Tried(<<>>, <<>>)) <= MaxBranches
    BY <1>1, <1>2, <1>3
  <2>2. \A i \in 1 .. Len(<<>>) : <<>>[i].status # "pending"
    BY <1>1
  <2>3. QED
    BY <2>1, <2>2 DEF Settled
<1>5. Traceable(<<>>, {})
  BY <1>1 DEF Traceable
<1>6. QED
  BY <1>4, <1>5

LEMMA FailureIs ==
  \A reason : Search!Failure(reason) \in {"cancelled", "duration", reason}
BY DEF Search!Failure

LEMMA HeldIs ==
  ASSUME Search!Assumptions
  PROVE  /\ Search!Held \in Budgets /\ Counted(Search!Held) /\ Covered(Search!Held)
         /\ Search!Held.heldCalls = 1 /\ Search!Held.heldOutput = ReduceMax
         /\ Search!Held.active = 0
         /\ Search!Held.calls = 0 /\ Search!Held.prompt = 0 /\ Search!Held.output = 0
         /\ \A tally \in Tallies : Search!Held[tally] = 0
<1>1. /\ ReduceMax \in Nat /\ HyDEMax \in Nat /\ PrimerMax \in Nat /\ ModelCalls \in Nat
      /\ PromptTokens \in Nat /\ OutputTokens \in Nat
      /\ 1 + 1 + 1 <= ModelCalls /\ HyDEMax + PrimerMax + ReduceMax <= OutputTokens
  BY Enough DEF DriftTypes
<1>2. QED
  BY <1>1 DEF Search!Held, Budgets, Counted, Covered, Tallies

LEMMA DriftStarts ==
  ASSUME Search!Assumptions, Search!Init
  PROVE  DriftInv
<1>0. DriftTypes
  BY DriftConstants
<1> USE DEF Search!Init
<1>1. /\ step = "hypothetical" /\ outcome = "none" /\ branches = <<>> /\ edges = {} /\ budget = Search!Held
      /\ primed = Search!Used(0, 0, 0) /\ folds = <<>> /\ primerErr = FALSE /\ queries = <<>>
      /\ processed = 0 /\ asked = <<>> /\ exhausted = FALSE /\ gone = FALSE /\ expired = FALSE
  OBVIOUS
<1>2. primed \in Search!Usages /\ \A tally \in Tallies : primed[tally] = 0
  BY <1>1 DEF Search!Used, Search!Usages, Tallies
<1>3. 0 \in 0 .. MaxBranches
  BY <1>0 DEF DriftTypes
<1>4. DriftTyped
  <2>1. /\ step \in PrimerSteps /\ outcome \in DriftOutcomes /\ (outcome = "none" <=> step # "done")
        /\ gone \in BOOLEAN /\ expired \in BOOLEAN /\ primerErr \in BOOLEAN /\ exhausted \in BOOLEAN
    BY <1>1 DEF PrimerSteps, DriftOutcomes
  <2>2. /\ folds \in Seq(Prompts) /\ queries \in Seq(Asks) /\ branches \in Seq(Branch)
        /\ asked \in Seq(Nat) /\ edges \subseteq Edge
    BY <1>1
  <2>3. budget \in Budgets /\ primed \in Search!Usages /\ processed \in 0 .. MaxBranches
    BY <1>1, <1>2, <1>3, HeldIs
  <2>4. QED
    BY <2>1, <2>2, <2>3 DEF DriftTyped
<1>5. DriftBudget
  BY <1>1, HeldIs DEF DriftBudget, Reserved
<1>6. DriftAccounted
  BY <1>1, <1>2, HeldIs, SpentNone DEF DriftAccounted, Accounted
<1>7. DriftGraph
  BY <1>0, <1>1, EmptySettled DEF DriftGraph, TraversalSteps, ReturnSteps
<1>8. QED
  BY <1>4, <1>5, <1>6, <1>7 DEF DriftInv

LEMMA DriftStutters ==
  ASSUME DriftInv, UNCHANGED driftVars
  PROVE  DriftInv'
<1>1. DriftTyped'
  BY DEF DriftInv, DriftTyped, driftVars
<1>2. DriftBudget'
  BY DEF DriftInv, DriftBudget, driftVars, Reserved
<1>3. DriftAccounted'
  BY DEF DriftInv, DriftAccounted, driftVars
<1>4. DriftGraph'
  BY DEF DriftInv, DriftGraph, driftVars
<1>5. QED
  BY <1>1, <1>2, <1>3, <1>4 DEF DriftInv

LEMMA DriftContextEnds ==
  ASSUME DriftInv, Search!ContextEnds
  PROVE  DriftInv'
<1> USE DEF Search!ContextEnds, Search!primerVars, Search!graphVars, Search!batchVars
<1>1. DriftTyped'
  BY DEF DriftInv, DriftTyped
<1>2. DriftBudget'
  BY DEF DriftInv, DriftBudget, Reserved
<1>3. DriftAccounted'
  BY DEF DriftInv, DriftAccounted
<1>4. DriftGraph'
  BY DEF DriftInv, DriftGraph
<1>5. QED
  BY <1>1, <1>2, <1>3, <1>4 DEF DriftInv

\* A request may fail with what can be returned.
LEMMA DriftFails ==
  ASSUME NEW reason \in DriftOutcomes \ {"none", "answered"}, Search!Fail(reason),
         DriftTyped, UNCHANGED <<gone, expired, folds, primerErr, queries, processed, asked, exhausted>>,
         budget' \in Budgets, Counted(budget'), primed' \in Search!Usages,
         branches' \in Seq(Branch), edges' \subseteq Edge,
         Traceable(branches', edges'), Settled(branches'),
         reason = "lost" => Overran(branches')
  PROVE  DriftInv'
<1>1. step' = "done" /\ outcome' \in {"cancelled", "duration", reason}
  BY FailureIs DEF Search!Fail
<1>2. outcome' \in DriftOutcomes \ {"none", "answered"} /\ (outcome' = "lost" => reason = "lost")
  BY <1>1 DEF DriftOutcomes
<1>3. DriftTyped'
  BY <1>1, <1>2 DEF DriftTyped, ReturnSteps
<1>4. DriftBudget'
  BY <1>1, <1>2 DEF DriftBudget
<1>5. DriftAccounted'
  BY <1>1 DEF DriftAccounted
<1>6. DriftGraph'
  BY <1>1 DEF DriftGraph, PrimerSteps, TraversalSteps, ReturnSteps
<1>7. QED
  BY <1>3, <1>4, <1>5, <1>6 DEF DriftInv

LEMMA DriftSettled ==
  ASSUME DriftTypes, DriftGraph, step \in PrimerSteps \cup ReturnSteps
  PROVE  Settled(branches)
BY EmptySettled DEF DriftGraph

LEMMA DriftReadFails ==
  ASSUME Search!Assumptions, DriftInv, Search!ReadFails
  PROVE  DriftInv'
<1>0. DriftTypes
  BY DriftConstants
<1>1. /\ Search!Fail("failed") /\ UNCHANGED <<gone, expired, budget, primed, folds, primerErr, queries>>
      /\ UNCHANGED <<branches, edges, processed, asked, exhausted>>
      /\ step \in PrimerSteps \cup ReturnSteps
  BY DEF Search!ReadFails, Search!contextVars, Search!primerVars, Search!graphVars,
         Search!batchVars, PrimerSteps, ReturnSteps
<1>2. Settled(branches)
  BY <1>0, <1>1, DriftSettled DEF DriftInv
<1>3. DriftTyped /\ Counted(budget) /\ Traceable(branches, edges)
  BY DEF DriftInv, DriftBudget, DriftGraph
<1>4. /\ budget \in Budgets /\ primed \in Search!Usages
      /\ branches \in Seq(Branch) /\ edges \subseteq Edge
  BY <1>3 DEF DriftTyped
<1>5. "failed" \in DriftOutcomes \ {"none", "answered"} /\ "failed" # "lost"
  BY DEF DriftOutcomes
<1>6. QED
  BY <1>1, <1>2, <1>3, <1>4, <1>5, DriftFails

LEMMA DriftRun ==
  ASSUME DriftInv, Search!Run
  PROVE  DriftInv'
<1>1. /\ step = "running" /\ step' = "results"
      /\ UNCHANGED <<outcome, gone, expired, budget, primed, folds, primerErr, queries>>
      /\ UNCHANGED <<branches, edges, processed, asked, exhausted>>
  BY DEF Search!Run, Search!contextVars, Search!primerVars, Search!graphVars, Search!batchVars
<1>2. DriftTyped'
  BY <1>1 DEF DriftInv, DriftTyped, TraversalSteps
<1>3. Reserved' = Reserved
  BY <1>1 DEF Reserved
<1>4. DriftBudget'
  BY <1>1, <1>3 DEF DriftInv, DriftBudget
<1>5. DriftAccounted'
  BY <1>1 DEF DriftInv, DriftAccounted
<1>6. DriftGraph'
  BY <1>1 DEF DriftInv, DriftGraph, PrimerSteps, TraversalSteps, ReturnSteps
<1>7. QED
  BY <1>2, <1>4, <1>5, <1>6 DEF DriftInv

LEMMA DriftAudit ==
  ASSUME DriftInv, Search!Audit
  PROVE  DriftInv'
<1>1. /\ step = "audit" /\ step' = "done" /\ outcome' = "answered"
      /\ UNCHANGED <<gone, expired, budget, primed, folds, primerErr, queries>>
      /\ UNCHANGED <<branches, edges, processed, asked, exhausted>>
  BY DEF Search!Audit, Search!contextVars, Search!primerVars, Search!graphVars, Search!batchVars
<1>2. DriftTyped'
  BY <1>1 DEF DriftInv, DriftTyped, ReturnSteps, DriftOutcomes
<1>4. DriftBudget'
  BY <1>1 DEF DriftInv, DriftBudget
<1>5. DriftAccounted'
  BY <1>1 DEF DriftInv, DriftAccounted
<1>6. DriftGraph'
  BY <1>1 DEF DriftInv, DriftGraph, PrimerSteps, TraversalSteps, ReturnSteps
<1>7. QED
  BY <1>2, <1>4, <1>5, <1>6 DEF DriftInv

LEMMA DriftBatchEnds ==
  ASSUME DriftTypes, DriftInv, Search!BatchEnds
  PROVE  DriftInv'
<1>1. /\ step = "results" /\ asked = <<>> /\ step' = "traversal"
      /\ UNCHANGED <<outcome, gone, expired, budget, primed, folds, primerErr, queries>>
      /\ UNCHANGED <<branches, edges, processed, asked, exhausted>>
  BY DEF Search!BatchEnds, Search!contextVars, Search!primerVars, Search!graphVars, Search!batchVars
<1>2. DriftTyped'
  BY <1>1 DEF DriftInv, DriftTyped, TraversalSteps
<1>3. Reserved = 0 /\ Reserved' = 0
  <2>1. BranchMax \in Nat /\ Len(<<>>) = 0
    BY DEF DriftTypes
  <2>2. QED
    BY <1>1, <2>1, Products DEF Reserved
<1>4. DriftBudget'
  BY <1>1, <1>3 DEF DriftInv, DriftBudget
<1>5. DriftAccounted'
  BY <1>1 DEF DriftInv, DriftAccounted
<1>6. DriftGraph'
  BY <1>1 DEF DriftInv, DriftGraph, PrimerSteps, TraversalSteps, ReturnSteps
<1>7. QED
  BY <1>2, <1>4, <1>5, <1>6 DEF DriftInv

LEMMA DriftPrimerEnds ==
  ASSUME Search!Assumptions, DriftInv, Search!PrimerEnds
  PROVE  DriftInv'
<1>0. DriftTypes
  BY DriftConstants
<1>1. /\ step = "folds" /\ folds = <<>>
      /\ UNCHANGED <<gone, expired, budget, primed, folds, primerErr, queries>>
      /\ UNCHANGED <<branches, edges, processed, asked, exhausted>>
  BY DEF Search!PrimerEnds, Search!contextVars, Search!primerVars, Search!graphVars, Search!batchVars
<1>2. CASE primerErr
  <2>1. Search!Fail("failed")
    BY <1>2 DEF Search!PrimerEnds
  <2>2. Settled(branches)
    BY <1>0, <1>1, DriftSettled DEF DriftInv, PrimerSteps
  <2>3. DriftTyped /\ Counted(budget) /\ Traceable(branches, edges)
    BY DEF DriftInv, DriftBudget, DriftGraph
  <2>4. /\ budget \in Budgets /\ primed \in Search!Usages
        /\ branches \in Seq(Branch) /\ edges \subseteq Edge
    BY <2>3 DEF DriftTyped
  <2>5. "failed" \in DriftOutcomes \ {"none", "answered"} /\ "failed" # "lost"
    BY DEF DriftOutcomes
  <2>6. QED
    BY <1>1, <2>1, <2>2, <2>3, <2>4, <2>5, DriftFails
<1>3. CASE ~primerErr
  <2>1. step' = "opening" /\ outcome' = outcome
    BY <1>3 DEF Search!PrimerEnds
  <2>2. DriftTyped'
    BY <1>1, <2>1 DEF DriftInv, DriftTyped, PrimerSteps
  <2>3. Reserved = 0 /\ Reserved' = 0
    <3>1. PrimerMax \in Nat /\ Len(<<>>) = 0
      BY <1>0 DEF DriftTypes
    <3>2. QED
      BY <1>1, <2>1, <3>1, Products DEF Reserved
  <2>4. DriftBudget'
    BY <1>1, <1>3, <2>1, <2>3 DEF DriftInv, DriftBudget
  <2>5. DriftAccounted'
    BY <1>1, <2>1 DEF DriftInv, DriftAccounted
  <2>6. DriftGraph'
    BY <1>1, <2>1 DEF DriftInv, DriftGraph, PrimerSteps, TraversalSteps, ReturnSteps
  <2>7. QED
    BY <2>2, <2>4, <2>5, <2>6 DEF DriftInv
<1>4. QED
  BY <1>2, <1>3

LEMMA DriftHypothetical ==
  ASSUME Search!Assumptions, DriftInv, Search!Hypothetical
  PROVE  DriftInv'
<1>0. DriftTypes
  BY DriftConstants
<1>1. /\ step = "hypothetical"
      /\ UNCHANGED <<gone, expired, folds, primerErr, queries>>
      /\ UNCHANGED <<branches, edges, processed, asked, exhausted>>
  BY DEF Search!Hypothetical, Search!contextVars, Search!graphVars, Search!batchVars
<1>2. /\ budget = Search!Held /\ budget \in Budgets /\ ~primerErr /\ outcome = "none"
      /\ budget.heldCalls = 1 /\ budget.heldOutput = ReduceMax
      /\ budget.active = 0 /\ budget.calls = 0 /\ budget.prompt = 0 /\ budget.output = 0
  BY <1>1, HeldIs DEF DriftInv, DriftBudget, DriftTyped
<1>3. /\ 1 + 1 + 1 <= ModelCalls /\ MaxPrompt + MaxPrompt <= PromptTokens
      /\ HyDEMax + PrimerMax + ReduceMax <= OutputTokens
      /\ MaxPrompt \in Nat /\ ModelCalls \in Nat /\ PromptTokens \in Nat /\ Prompts \subseteq Nat
      /\ OutputTokens \in Nat /\ HyDEMax \in Nat /\ PrimerMax \in Nat /\ ReduceMax \in Nat
  BY <1>0, Enough DEF DriftTypes
<1>4. PICK prompt \in Prompts :
        /\ prompt <= MaxPrompt
        /\ IF Search!CanReserve(budget, prompt, HyDEMax)
             THEN \E end \in Search!Ends(Search!Reserve(budget, prompt, HyDEMax), HyDEMax,
                                         Search!Used(1, prompt, 0)) :
                    /\ budget' = end.budget /\ primed' = end.used
                    /\ IF end.kind = "text" THEN step' = "retrieval" /\ UNCHANGED outcome
                                            ELSE Search!Fail(end.kind)
             ELSE Search!Fail("lost") /\ UNCHANGED <<budget, primed>>
  BY DEF Search!Hypothetical
<1>5. prompt \in Nat
  BY <1>3
<1>6. Search!CanReserve(budget, prompt, HyDEMax)
  BY <1>2, <1>3, <1>4, <1>5 DEF Search!CanReserve
<1> DEFINE bud == Search!Reserve(budget, prompt, HyDEMax)
           used == Search!Used(1, prompt, 0)
<1>7. /\ bud \in Budgets /\ bud.calls = 1 /\ bud.prompt = prompt /\ bud.active = HyDEMax
      /\ bud.output = 0 /\ bud.heldCalls = 1 /\ bud.heldOutput = ReduceMax
  <2>1. budget \in Budgets /\ prompt \in Nat /\ HyDEMax \in Nat
    BY <1>2, <1>3, <1>5
  <2>2. /\ bud \in Budgets /\ bud.calls = budget.calls + 1 /\ bud.prompt = budget.prompt + prompt
        /\ bud.active = budget.active + HyDEMax /\ bud.output = budget.output
        /\ bud.heldCalls = budget.heldCalls /\ bud.heldOutput = budget.heldOutput
    BY <2>1, ReserveIs
  <2> HIDE DEF bud
  <2>3. QED
    BY <1>2, <2>1, <2>2
<1>8. used \in Search!Usages /\ used.calls = 1 /\ used.prompt = prompt /\ used.output = 0
  BY <1>5 DEF Search!Used, Search!Usages
<1>9. PICK end \in Search!Ends(bud, HyDEMax, used) :
        /\ budget' = end.budget /\ primed' = end.used
        /\ IF end.kind = "text" THEN step' = "retrieval" /\ UNCHANGED outcome
                                ELSE Search!Fail(end.kind)
  BY <1>4, <1>6
<1> HIDE DEF bud, used
<1>10. Closed(bud, HyDEMax, used, end)
  BY <1>3, <1>7, <1>8, EndsAre
<1>11. /\ budget' \in Budgets /\ primed' \in Search!Usages
       /\ end.kind \in {"error", "text", "overrun"}
       /\ budget'.calls = 1 /\ budget'.prompt = prompt /\ budget'.active = HyDEMax - HyDEMax
       /\ budget'.heldCalls = 1 /\ budget'.heldOutput = ReduceMax
       /\ primed'.calls = 1 /\ primed'.prompt = prompt
       /\ budget'.output = 0 + (primed'.output - 0)
       /\ end.kind # "overrun" => primed'.output <= 0 + HyDEMax
  BY <1>7, <1>8, <1>9, <1>10 DEF Closed
<1>12. primed'.output \in Nat
  BY <1>11 DEF Search!Usages
<1>13. Counted(budget') /\ budget'.active = 0 /\ budget'.output = primed'.output
  BY <1>3, <1>4, <1>5, <1>11, <1>12 DEF Counted
<1>14. branches = <<>> /\ Settled(branches) /\ Traceable(branches, edges) /\ DriftTyped
       /\ branches \in Seq(Branch) /\ edges \subseteq Edge
  <2>1. DriftTyped /\ DriftGraph
    BY DEF DriftInv
  <2>2. Settled(branches)
    BY <1>0, <1>1, <2>1, DriftSettled DEF PrimerSteps
  <2>3. QED
    BY <1>1, <2>1, <2>2 DEF DriftTyped, DriftGraph, PrimerSteps
<1>15. CASE end.kind # "text"
  <2>1. Search!Fail(end.kind) /\ end.kind \in DriftOutcomes \ {"none", "answered"} /\ end.kind # "lost"
    BY <1>9, <1>11, <1>15 DEF DriftOutcomes
  <2>2. QED
    BY <1>1, <1>11, <1>13, <1>14, <2>1, DriftFails
<1>16. CASE end.kind = "text"
  <2>1. step' = "retrieval" /\ outcome' = outcome
    BY <1>9, <1>16
  <2>2. DriftTyped'
    BY <1>1, <1>11, <1>14, <2>1 DEF DriftTyped, PrimerSteps
  <2>3. Covered(budget')
    BY <1>3, <1>11, <1>12, <1>13, <1>16 DEF Covered
  <2>4. budget'.output <= HyDEMax
    BY <1>3, <1>11, <1>12, <1>13, <1>16
  <2>5. folds' = <<>> /\ ~primerErr'
    BY <1>1 DEF DriftInv, DriftBudget
  <2>6. DriftBudget'
    BY <1>2, <1>4, <1>11, <1>13, <2>1, <2>3, <2>4, <2>5 DEF DriftBudget, Reserved
  <2>7. Accounted(budget', primed', branches')
    <3>1. /\ budget'.calls = primed'.calls + 0 /\ budget'.prompt = primed'.prompt + 0
          /\ budget'.output = primed'.output + 0
      BY <1>5, <1>11, <1>12, <1>13
    <3>2. branches' = <<>>
      BY <1>1, <1>14
    <3>3. QED
      BY <3>1, <3>2, SpentNone DEF Accounted, Tallies
  <2>8. DriftAccounted'
    BY <2>7 DEF DriftAccounted
  <2>9. DriftGraph'
    BY <1>1, <2>1 DEF DriftInv, DriftGraph, PrimerSteps, TraversalSteps, ReturnSteps
  <2>10. QED
    BY <2>2, <2>6, <2>8, <2>9 DEF DriftInv
<1>17. QED
  BY <1>15, <1>16

LEMMA DriftRetrieve ==
  ASSUME Search!Assumptions, DriftInv, Search!Retrieve
  PROVE  DriftInv'
<1>0. DriftTypes
  BY DriftConstants
<1>1. /\ step = "retrieval" /\ outcome = "none" /\ ~primerErr
      /\ UNCHANGED <<gone, expired, primerErr, queries>>
      /\ UNCHANGED <<branches, edges, processed, asked, exhausted>>
  BY DEF DriftInv, DriftTyped, DriftBudget, Search!Retrieve, Search!contextVars, Search!graphVars,
         Search!batchVars
<1>2. Hypothesised /\ primed \in Search!Usages
  BY <1>1 DEF DriftInv, DriftBudget, DriftTyped, Hypothesised, Reserved
<1>3. PICK prompts \in Search!SeqOf(Sizes, Folds) \ {<<>>} :
        LET reserved == Search!ReservedFolds(prompts)
        IN  /\ budget' = reserved.budget /\ folds' = reserved.folds
            /\ primed' = Search!AddUsage(primed, Search!Used(Len(reserved.folds),
                                                             Search!Summed(reserved.folds), 0))
            /\ IF reserved.folds # <<>> THEN step' = "folds" /\ UNCHANGED outcome
                                        ELSE Search!Fail("lost")
  BY DEF Search!Retrieve, Sizes
<1>4. prompts \in Seq(Sizes) /\ prompts # <<>>
  <2>1. PICK m \in 0 .. Folds : prompts \in [1 .. m -> Sizes]
    BY <1>3 DEF Search!SeqOf
  <2>2. m \in Nat
    BY <2>1, <1>0 DEF DriftTypes
  <2>3. prompts \in Seq(Sizes)
    BY <2>1, <2>2
  <2>4. QED
    BY <1>3, <2>3
<1> DEFINE st == Search!ReservedFolds(prompts)
<1>5. FoldsTo(Len(prompts), st) /\ Len(prompts) > 0
  BY <1>2, <1>4, FoldsReserved
<1> HIDE DEF st
<1>6. /\ budget' = st.budget /\ folds' = st.folds
      /\ primed' = Search!AddUsage(primed, Search!Used(Len(st.folds), Summed(st.folds), 0))
      /\ st.folds # <<>> => step' = "folds" /\ outcome' = outcome
  BY <1>3, SearchLists DEF st
<1>7. /\ budget' \in Budgets /\ folds' \in Seq(Prompts) /\ folds' # <<>>
      /\ budget'.heldCalls = 1 /\ budget'.heldOutput = ReduceMax
      /\ Counted(budget') /\ Covered(budget')
      /\ budget'.active = Len(folds') * PrimerMax
      /\ budget'.calls = budget.calls + Len(folds')
      /\ budget'.prompt = budget.prompt + Summed(folds')
      /\ budget'.output = budget.output
  BY <1>5, <1>6 DEF FoldsTo, FoldStates
<1>8. step' = "folds" /\ outcome' = outcome
  BY <1>6, <1>7
<1>9. Len(folds') \in Nat /\ Summed(folds') \in Nat
  <2>1. folds' \in Seq(Nat)
    BY <1>0, <1>7, Wider DEF DriftTypes
  <2>2. QED
    BY <2>1, SummedNat
<1>10. /\ primed' \in Search!Usages /\ primed'.calls = primed.calls + Len(folds')
       /\ primed'.prompt = primed.prompt + Summed(folds') /\ primed'.output = primed.output + 0
  <2> DEFINE n == Len(folds')
             s == Summed(folds')
  <2>1. n \in Nat /\ s \in Nat /\ primed' = Search!AddUsage(primed, Search!Used(n, s, 0))
    BY <1>6, <1>9
  <2> HIDE DEF n, s
  <2>2. /\ primed' \in Search!Usages /\ primed'.calls = primed.calls + n
        /\ primed'.prompt = primed.prompt + s /\ primed'.output = primed.output + 0
    BY <1>2, <2>1 DEF Search!AddUsage, Search!Used, Search!Usages
  <2>3. QED
    BY <2>2 DEF n, s
<1>11. DriftTyped'
  BY <1>1, <1>7, <1>8, <1>10 DEF DriftInv, DriftTyped, PrimerSteps
<1>12. DriftBudget'
  BY <1>1, <1>7, <1>8 DEF DriftBudget, Reserved
<1>13. branches = <<>> /\ Accounted(budget, primed, branches)
  BY <1>1 DEF DriftInv, DriftGraph, DriftAccounted, PrimerSteps
<1>14. Accounted(budget', primed', branches')
  <2>1. /\ budget.calls = primed.calls + 0 /\ budget.prompt = primed.prompt + 0
        /\ budget.output = primed.output + 0
    BY <1>13, SpentNone DEF Accounted, Tallies
  <2> DEFINE n == Len(folds')
             s == Summed(folds')
  <2>2. /\ primed.calls \in Nat /\ primed.prompt \in Nat /\ primed.output \in Nat
        /\ n \in Nat /\ s \in Nat
    BY <1>2, <1>9 DEF Search!Usages
  <2>3. /\ budget'.calls = budget.calls + n /\ budget'.prompt = budget.prompt + s
        /\ budget'.output = budget.output
        /\ primed'.calls = primed.calls + n /\ primed'.prompt = primed.prompt + s
        /\ primed'.output = primed.output + 0
    BY <1>7, <1>10
  <2> HIDE DEF n, s
  <2>4. /\ budget'.calls = primed'.calls + 0 /\ budget'.prompt = primed'.prompt + 0
        /\ budget'.output = primed'.output + 0
    BY <2>1, <2>2, <2>3
  <2>5. branches' = <<>>
    BY <1>1, <1>13
  <2>6. QED
    BY <2>4, <2>5, SpentNone DEF Accounted, Tallies
<1>15. DriftAccounted'
  BY <1>14 DEF DriftAccounted
<1>16. DriftGraph'
  BY <1>1, <1>8 DEF DriftInv, DriftGraph, PrimerSteps, TraversalSteps, ReturnSteps
<1>17. QED
  BY <1>11, <1>12, <1>15, <1>16 DEF DriftInv

\* The calls that are not looked at yet are those of the others and that of the first.
LEMMA TailIs ==
  ASSUME NEW S, NEW list \in Seq(S), list # <<>>
  PROVE  /\ Tail(list) \in Seq(S) /\ Head(list) \in S /\ Len(list) = Len(Tail(list)) + 1
         /\ Len(Tail(list)) \in Nat /\ Head(list) = list[1]
         /\ \A k \in 1 .. Len(Tail(list)) : Tail(list)[k] = list[k + 1] /\ k + 1 \in 1 .. Len(list)
  OBVIOUS

\* A usage to which that of a call is added, whose prompt counts already.
LEMMA UsageAdded ==
  ASSUME NEW used \in Search!Usages, NEW more \in Search!Usages, NEW prompt \in Nat,
         more.calls >= 1, more.prompt >= prompt
  PROVE  LET new == Search!AddUsage(used, Search!Used(more.calls - 1, more.prompt - prompt, more.output))
         IN  /\ new \in Search!Usages /\ new.calls = used.calls + (more.calls - 1)
             /\ new.prompt = used.prompt + (more.prompt - prompt)
             /\ new.output = used.output + more.output
<1> DEFINE c == more.calls - 1
           p == more.prompt - prompt
<1>1. /\ c \in Nat /\ p \in Nat /\ more.output \in Nat /\ used.calls \in Nat
      /\ used.prompt \in Nat /\ used.output \in Nat
  BY DEF Search!Usages
<1> HIDE DEF c, p
<1>2. LET new == Search!AddUsage(used, Search!Used(c, p, more.output))
      IN  /\ new \in Search!Usages /\ new.calls = used.calls + c
          /\ new.prompt = used.prompt + p
          /\ new.output = used.output + more.output
  BY <1>1 DEF Search!AddUsage, Search!Used, Search!Usages
<1>3. QED
  BY <1>2 DEF c, p

\* What models ask are questions.
LEMMA AskedOf ==
  ASSUME Search!Assumptions
  PROVE  /\ \A list \in FollowUps : list \in Seq(Asks) /\ list \in Seq(Search!Questions)
         /\ Asks \subseteq Search!Questions
<1>1. FollowUps \subseteq Seq(Search!Questions)
  BY DEF Search!Assumptions
<1>2. ASSUME NEW list \in FollowUps PROVE list \in Seq(Asks) /\ list \in Seq(Search!Questions)
  <2>1. list \in Seq(Search!Questions)
    BY <1>1, <1>2
  <2>2. Search!ToSet(list) \subseteq Asks
    BY <1>2 DEF Asks
  <2>3. ASSUME NEW k \in 1 .. Len(list) PROVE list[k] \in Asks
    <3>1. list[k] \in Search!ToSet(list)
      BY <2>1 DEF Search!ToSet
    <3>2. QED
      BY <2>2, <3>1
  <2>4. list = [k \in 1 .. Len(list) |-> list[k]] /\ Len(list) \in Nat
    BY <2>1
  <2>5. [k \in 1 .. Len(list) |-> list[k]] \in [1 .. Len(list) -> Asks]
    BY <2>3
  <2>6. list \in Seq(Asks)
    BY <2>4, <2>5
  <2>7. QED
    BY <2>1, <2>6
<1>3. Asks \subseteq Search!Questions
  BY DEF Asks, Search!Questions
<1>4. QED
  BY <1>2, <1>3

LEMMA DriftFoldOutcome ==
  ASSUME Search!Assumptions, DriftInv, Search!FoldOutcome
  PROVE  DriftInv'
<1>0. DriftTypes
  BY DriftConstants
<1>1. /\ step = "folds" /\ folds # <<>> /\ folds' = Tail(folds)
      /\ UNCHANGED <<step, outcome, gone, expired>>
      /\ UNCHANGED <<branches, edges, processed, asked, exhausted>>
  BY DEF Search!FoldOutcome, Search!contextVars, Search!graphVars, Search!batchVars
<1>2. /\ folds \in Seq(Prompts) /\ budget \in Budgets /\ primed \in Search!Usages
      /\ primerErr \in BOOLEAN /\ queries \in Seq(Asks) /\ outcome = "none"
      /\ budget.heldCalls = 1 /\ budget.heldOutput = ReduceMax
      /\ budget.active = Len(folds) * PrimerMax /\ Counted(budget)
      /\ ~primerErr /\ ~Overran(branches) => Covered(budget)
  BY <1>1 DEF DriftInv, DriftTyped, DriftBudget, Reserved
<1>3. /\ Tail(folds) \in Seq(Prompts) /\ Head(folds) \in Prompts /\ Head(folds) \in Nat
      /\ Len(folds) = Len(Tail(folds)) + 1 /\ Len(Tail(folds)) \in Nat /\ PrimerMax \in Nat
  BY <1>0, <1>1, <1>2, TailIs DEF DriftTypes
<1> DEFINE n == Len(Tail(folds))
           prompt == Head(folds)
<1>4. budget.active = n * PrimerMax + PrimerMax /\ n * PrimerMax \in Nat
  BY <1>2, <1>3, Products
<1>5. budget.active >= PrimerMax
  <2> DEFINE a == n * PrimerMax
  <2>1. a \in Nat /\ budget.active = a + PrimerMax
    BY <1>4
  <2> HIDE DEF a
  <2>2. QED
    BY <1>3, <2>1
<1>6. PICK end \in Search!Outcomes(budget, Head(folds), PrimerMax) :
       /\ budget' = end.budget
       /\ primed' = Search!AddUsage(primed, Search!Used(end.used.calls - 1, end.used.prompt - Head(folds),
                                                        end.used.output))
       /\ IF end.kind = "answer"
            THEN \E list \in FollowUps \ {<<>>} : queries' = queries \o list /\ UNCHANGED primerErr
            ELSE primerErr' = TRUE /\ UNCHANGED queries
  BY DEF Search!FoldOutcome
<1>7. Answered(budget, prompt, PrimerMax, end)
  BY <1>0, <1>2, <1>3, <1>5, <1>6, OutcomesAre
<1> HIDE DEF prompt, n
<1>8. /\ end.budget \in Budgets /\ end.used \in Search!Usages
      /\ end.budget.heldCalls = 1 /\ end.budget.heldOutput = ReduceMax
      /\ end.budget.active = budget.active - PrimerMax
      /\ end.used.calls >= 1 /\ end.used.prompt >= prompt
      /\ end.budget.calls = budget.calls + (end.used.calls - 1)
      /\ end.budget.prompt = budget.prompt + (end.used.prompt - prompt)
      /\ end.budget.output = budget.output + end.used.output
      /\ Counted(end.budget)
      /\ Covered(budget) /\ end.kind # "overrun" => Covered(end.budget)
  BY <1>2, <1>7 DEF Answered
<1>9. /\ primed' \in Search!Usages /\ primed'.calls = primed.calls + (end.used.calls - 1)
      /\ primed'.prompt = primed.prompt + (end.used.prompt - prompt)
      /\ primed'.output = primed.output + end.used.output
  BY <1>2, <1>3, <1>6, <1>8, UsageAdded DEF prompt
<1>10. queries' \in Seq(Asks) /\ primerErr' \in BOOLEAN /\ (end.kind # "answer" => primerErr')
       /\ (primerErr => primerErr')
  <2>1. CASE end.kind # "answer"
    BY <1>2, <1>6, <2>1
  <2>2. CASE end.kind = "answer"
    <3>1. PICK list \in FollowUps \ {<<>>} : queries' = queries \o list /\ UNCHANGED primerErr
      BY <1>6, <2>2
    <3>2. list \in Seq(Asks)
      BY AskedOf
    <3>3. QED
      BY <1>2, <2>2, <3>1, <3>2, Joined
  <2>3. QED
    BY <2>1, <2>2
<1>11. DriftTyped'
  BY <1>1, <1>3, <1>6, <1>8, <1>9, <1>10 DEF DriftInv, DriftTyped
<1>12. budget'.active = Len(folds') * PrimerMax
  <2> DEFINE a == n * PrimerMax
  <2>1. a \in Nat /\ budget.active = a + PrimerMax
    BY <1>4
  <2>2. budget'.active = budget.active - PrimerMax
    BY <1>6, <1>8
  <2> HIDE DEF a
  <2>3. budget'.active = a
    BY <1>3, <2>1, <2>2
  <2>4. QED
    BY <1>1, <2>3 DEF a, n
<1>13. ~primerErr' /\ ~Overran(branches') => Covered(budget')
  BY <1>1, <1>2, <1>6, <1>8, <1>10
<1>14. DriftBudget'
  BY <1>1, <1>2, <1>6, <1>8, <1>12, <1>13 DEF DriftBudget, Reserved
<1>15. Accounted(budget, primed, branches) /\ branches = <<>>
  BY <1>1 DEF DriftInv, DriftAccounted, DriftGraph, PrimerSteps
<1>16. Accounted(budget', primed', branches')
  <2>1. /\ budget.calls = primed.calls + 0 /\ budget.prompt = primed.prompt + 0
        /\ budget.output = primed.output + 0
    BY <1>15, SpentNone DEF Accounted, Tallies
  <2>2. /\ primed.calls \in Nat /\ primed.prompt \in Nat /\ primed.output \in Nat
        /\ end.used.calls \in Nat /\ end.used.prompt \in Nat /\ end.used.output \in Nat
        /\ prompt \in Nat
    BY <1>2, <1>3, <1>8 DEF Search!Usages, prompt
  <2>3. /\ budget'.calls = primed'.calls + 0 /\ budget'.prompt = primed'.prompt + 0
        /\ budget'.output = primed'.output + 0
    <3> DEFINE c == end.used.calls - 1
               p == end.used.prompt - prompt
               o == end.used.output
    <3>1. c \in Int /\ p \in Int /\ o \in Nat
      BY <2>2
    <3>2. /\ budget'.calls = budget.calls + c /\ budget'.prompt = budget.prompt + p
          /\ budget'.output = budget.output + o
      BY <1>6, <1>8
    <3>3. /\ primed'.calls = primed.calls + c /\ primed'.prompt = primed.prompt + p
          /\ primed'.output = primed.output + o
      BY <1>9
    <3> HIDE DEF c, p, o
    <3>4. QED
      BY <2>1, <2>2, <3>1, <3>2, <3>3
  <2>4. branches' = <<>>
    BY <1>1, <1>15
  <2>5. QED
    BY <2>3, <2>4, SpentNone DEF Accounted, Tallies
<1>17. DriftAccounted'
  BY <1>16 DEF DriftAccounted
<1>18. DriftGraph'
  BY <1>1 DEF DriftInv, DriftGraph, PrimerSteps, TraversalSteps, ReturnSteps
<1>19. QED
  BY <1>11, <1>14, <1>17, <1>18 DEF DriftInv

\* Branches of a graph to which some are added wait as those before do.
LEMMA ExtendedAwaited ==
  ASSUME NEW graph, graph.branches \in Seq(Branch), NEW cause, NEW depth \in Nat,
         NEW new, Extended(graph, cause, depth, new),
         NEW sent, sent \in Seq(Nat), Awaited(graph.branches, sent),
         cause \in Search!Questions
  PROVE  Awaited(new.branches, sent) /\ Tried(new.branches, sent) = Tried(graph.branches, sent)
<1> DEFINE br == graph.branches
           nb == new.branches
<1>1. /\ Len(br) \in Nat /\ Len(nb) \in Nat /\ Len(br) <= Len(nb) /\ nb \in Seq(Branch)
      /\ \A i \in 1 .. Len(br) : nb[i] = br[i]
  BY DEF Extended
<1>2. ASSUME NEW i \in 1 .. Len(nb), i > Len(br)
      PROVE  nb[i].status = "pending" /\ Unused(nb[i])
  <2>1. nb[i] = Search!NewBranch(nb[i].question, depth + 1)
    BY <1>2 DEF Extended
  <2>2. nb[i].question \in Search!Questions /\ depth + 1 \in Nat
    <3>1. nb[i] \in Branch
      BY <1>1
    <3>2. QED
      BY <3>1 DEF Branch
  <2>3. QED
    BY <2>1, <2>2, NewBranchIs DEF Unused
<1>3. /\ \A k \in 1 .. Len(sent) :
           /\ sent[k] \in 1 .. Len(br) /\ br[sent[k]].status = "pending"
           /\ br[sent[k]].used.calls = 1 /\ br[sent[k]].used.output = 0
      /\ \A j, k \in 1 .. Len(sent) : j < k => sent[j] < sent[k]
      /\ \A i \in 1 .. Len(br) : br[i].status = "pending" =>
           InBatch(sent, i) \/ (Unused(br[i]) /\ \A k \in 1 .. Len(sent) : sent[k] < i)
  BY DEF Awaited
<1>4. \A i \in 1 .. Len(br) : i \in 1 .. Len(nb)
  BY <1>1
<1>5. \A i \in 1 .. Len(nb) : i \in 1 .. Len(br) \/ i > Len(br)
  BY <1>1
<1> HIDE DEF br, nb
<1>6. ASSUME NEW k \in 1 .. Len(sent)
      PROVE  /\ sent[k] \in 1 .. Len(nb) /\ nb[sent[k]].status = "pending"
             /\ nb[sent[k]].used.calls = 1 /\ nb[sent[k]].used.output = 0
  BY <1>1, <1>3, <1>4
<1>7. ASSUME NEW i \in 1 .. Len(nb), nb[i].status = "pending"
      PROVE  InBatch(sent, i) \/ (Unused(nb[i]) /\ \A k \in 1 .. Len(sent) : sent[k] < i)
  <2>1. CASE i \in 1 .. Len(br)
    BY <1>1, <1>3, <1>7, <2>1
  <2>2. CASE i > Len(br)
    <3>1. \A k \in 1 .. Len(sent) : sent[k] < i
      BY <1>1, <1>3, <2>2
    <3>2. QED
      BY <1>2, <2>2, <3>1
  <2>3. QED
    BY <1>5, <2>1, <2>2
<1>8. Awaited(nb, sent)
  BY <1>3, <1>6, <1>7 DEF Awaited
<1>9. Tried(nb, sent) = Tried(br, sent)
  <2>1. ASSUME NEW i, i \in Tried(nb, sent) PROVE i \in Tried(br, sent)
    <3>1. i \in 1 .. Len(nb) /\ (nb[i].status \in Search!Attempted \/ InBatch(sent, i))
      BY <2>1 DEF Tried
    <3>2. i \in 1 .. Len(br)
      <4>1. CASE InBatch(sent, i)
        BY <1>3, <4>1 DEF InBatch
      <4>2. CASE nb[i].status \in Search!Attempted
        BY <1>2, <1>5, <3>1, <4>2 DEF Search!Attempted
      <4>3. QED
        BY <3>1, <4>1, <4>2
    <3>3. QED
      BY <1>1, <3>1, <3>2 DEF Tried
  <2>2. ASSUME NEW i, i \in Tried(br, sent) PROVE i \in Tried(nb, sent)
    BY <1>1, <1>4, <2>2 DEF Tried
  <2>3. QED
    BY <2>1, <2>2
<1>10. QED
  BY <1>8, <1>9 DEF br, nb

\* The graph of a request in its traversal.
LEMMA Traversed ==
  ASSUME DriftInv, step \in TraversalSteps
  PROVE  /\ branches \in Seq(Branch) /\ edges \in SUBSET Edge /\ Traceable(branches, edges)
         /\ InOrder(branches) /\ Awaited(branches, asked) /\ asked \in Seq(Nat)
         /\ Cardinality(Tried(branches, asked)) <= processed /\ processed \in 0 .. MaxBranches
         /\ outcome = "none" /\ ~primerErr /\ step \notin PrimerSteps \cup ReturnSteps
         /\ budget \in Budgets /\ primed \in Search!Usages /\ Counted(budget)
         /\ budget.heldCalls = 1 /\ budget.heldOutput = ReduceMax /\ budget.active = Reserved
         /\ ~Overran(branches) => Covered(budget)
         /\ Accounted(budget, primed, branches)
         /\ DriftTyped /\ (step = "traversal" => asked = <<>>)
<1>1. DriftTyped /\ DriftBudget /\ DriftAccounted /\ DriftGraph
  BY DEF DriftInv
<1>2. step \notin PrimerSteps \cup ReturnSteps /\ step \notin {"audit", "done"} /\ step \notin {"folds", "done"}
  BY DEF TraversalSteps, PrimerSteps, ReturnSteps
<1>3. /\ branches \in Seq(Branch) /\ edges \in SUBSET Edge /\ asked \in Seq(Nat)
      /\ processed \in 0 .. MaxBranches /\ outcome = "none"
      /\ budget \in Budgets /\ primed \in Search!Usages
  BY <1>1, <1>2 DEF DriftTyped
<1>4. /\ Traceable(branches, edges) /\ InOrder(branches) /\ Awaited(branches, asked)
      /\ Cardinality(Tried(branches, asked)) <= processed /\ (step = "traversal" => asked = <<>>)
  BY <1>1 DEF DriftGraph
<1>5. /\ ~primerErr /\ Counted(budget)
      /\ budget.heldCalls = 1 /\ budget.heldOutput = ReduceMax /\ budget.active = Reserved
      /\ ~Overran(branches) => Covered(budget)
  BY <1>1, <1>2, <1>3 DEF DriftBudget
<1>6. Accounted(budget, primed, branches)
  BY <1>1, <1>2 DEF DriftAccounted
<1>7. QED
  BY <1>1, <1>2, <1>3, <1>4, <1>5, <1>6

LEMMA DriftOpen ==
  ASSUME Search!Assumptions, DriftInv, Search!Open
  PROVE  DriftInv'
<1>0. DriftTypes
  BY DriftConstants
<1>1. /\ step = "opening" /\ step' = "traversal"
      /\ UNCHANGED <<outcome, gone, expired, budget, primed, folds, primerErr, queries>>
      /\ UNCHANGED <<processed, asked, exhausted>>
      /\ Search!SetGraph(Search!Added(Search!Graph, Root, 0, queries))
  BY DEF Search!Open, Search!contextVars, Search!primerVars, Search!batchVars
<1>2. /\ branches = <<>> /\ edges = {} /\ processed = 0 /\ asked = <<>>
      /\ Traceable(branches, edges)
  BY <1>1 DEF DriftInv, DriftGraph, PrimerSteps
<1>3. queries \in Seq(Search!Questions) /\ DriftTyped
  <2>1. queries \in Seq(Asks) /\ DriftTyped
    BY DEF DriftInv, DriftTyped
  <2>2. QED
    BY <2>1, AskedOf, Wider
<1> DEFINE graph == [branches |-> <<>>, edges |-> {}]
           new == Search!Added(graph, Root, 0, queries)
<1>4. branches' = new.branches /\ edges' = new.edges
  BY <1>1, <1>2 DEF Search!SetGraph, Search!Graph
<1>5. graph.branches = <<>> /\ graph.edges = {} /\ graph.branches \in Seq(Branch) /\ Len(<<>>) = 0
  OBVIOUS
<1>6. Root \in Search!Questions
  BY DEF Search!Questions
<1>7. Extended(graph, Root, 0, new)
  <2>1. <<>> \in Seq(Branch) /\ {} \in SUBSET Edge /\ 0 \in Nat
    OBVIOUS
  <2>2. QED
    BY <1>0, <1>3, <1>6, <2>1, AddedIs
<1> HIDE DEF graph, new
<1>8. Traceable(new.branches, new.edges) /\ InOrder(new.branches)
  <2>1. Source(graph.branches, Root, 0) /\ InOrder(graph.branches) /\ 0 \in Nat
    BY <1>5 DEF Source, InOrder
  <2>2. Traceable(graph.branches, graph.edges)
    BY <1>2, <1>5
  <2>3. /\ \A j \in 1 .. Len(graph.branches) : graph.branches[j].depth <= 0 + 1
        /\ \A i \in 1 .. Len(graph.branches) :
             graph.branches[i].status = "pending" => 0 <= graph.branches[i].depth
    BY <1>5
  <2>4. QED
    BY <1>0, <1>5, <1>7, <2>1, <2>2, <2>3, ExtendedTraceable
<1>9. Awaited(new.branches, <<>>) /\ Tried(new.branches, <<>>) = Tried(<<>>, <<>>)
  <2>1. Awaited(<<>>, <<>>) /\ <<>> \in Seq(Nat)
    BY <1>5 DEF Awaited
  <2>2. /\ graph.branches \in Seq(Branch) /\ 0 \in Nat /\ Root \in Search!Questions
        /\ Extended(graph, Root, 0, new) /\ Awaited(graph.branches, <<>>)
    BY <1>5, <1>6, <1>7, <2>1
  <2>3. /\ Awaited(new.branches, <<>>)
        /\ Tried(new.branches, <<>>) = Tried(graph.branches, <<>>)
    BY <2>1, <2>2, ExtendedAwaited
  <2>4. QED
    BY <1>5, <2>3
<1>10. Cardinality(Tried(new.branches, <<>>)) = 0
  <2>1. Tried(<<>>, <<>>) = {}
    BY <1>5 DEF Tried
  <2>2. QED
    BY <1>9, <2>1, FS_EmptySet
<1>11. \A tally \in Tallies : Spent(new.branches, tally) = Spent(branches, tally)
  BY <1>2, <1>5, <1>7, ExtendedSpent
<1>12. new.branches \in Seq(Branch) /\ new.edges \subseteq Edge
  BY <1>7 DEF Extended
<1>13. DriftTyped'
  BY <1>1, <1>3, <1>4, <1>12 DEF DriftTyped, TraversalSteps
<1>14. DriftBudget'
  <2>1. DriftBudget /\ Reserved = 0 /\ Reserved' = 0
    BY <1>1 DEF DriftInv, Reserved
  <2>2. ~Overran(branches)
    BY <1>2, <1>5 DEF Overran
  <2>3. outcome = "none" /\ ~primerErr /\ Covered(budget)
    BY <1>1, <1>3, <2>1, <2>2 DEF DriftTyped, DriftBudget
  <2>4. QED
    BY <1>1, <2>1, <2>3 DEF DriftBudget
<1>15. DriftAccounted'
  BY <1>1, <1>4, <1>11 DEF DriftInv, DriftAccounted, Accounted
<1>16. DriftGraph'
  BY <1>1, <1>2, <1>4, <1>8, <1>9, <1>10 DEF DriftGraph, PrimerSteps, TraversalSteps, ReturnSteps
<1>17. QED
  BY <1>13, <1>14, <1>15, <1>16 DEF DriftInv

\* The end of a traversal that fails.
LEMMA DriftTraversalFails ==
  ASSUME Search!Assumptions, DriftInv, step \in TraversalSteps, Search!Fail("failed"),
         Search!SetGraph(IF gone THEN Search!AllFailed(Search!Graph)
                                 ELSE Search!Discarded(Search!Graph)),
         UNCHANGED <<gone, expired, budget, primed, folds, primerErr, queries>>,
         UNCHANGED <<processed, asked, exhausted>>
  PROVE  DriftInv'
<1> DEFINE graph == [branches |-> branches, edges |-> edges]
           failed == Search!AllFailed(graph)
           stay == Search!Discarded(graph)
           new == IF gone THEN failed ELSE stay
<1>1. branches' = new.branches /\ edges' = new.edges
  BY DEF Search!SetGraph, Search!Graph
<1>2. /\ branches \in Seq(Branch) /\ edges \in SUBSET Edge /\ Traceable(branches, edges)
      /\ Cardinality(Tried(branches, asked)) <= processed /\ processed \in 0 .. MaxBranches
      /\ budget \in Budgets /\ primed \in Search!Usages /\ Counted(budget) /\ DriftTyped
      /\ asked \in Seq(Nat)
  BY Traversed
<1>3. Returned(branches, edges, stay)
      /\ Cardinality(Tried(stay.branches, <<>>)) <= Cardinality(Tried(branches, asked))
  BY <1>2, DiscardedIs
<1>4. Returned(branches, edges, failed)
      /\ Cardinality(Tried(failed.branches, <<>>)) <= Cardinality(Tried(branches, asked))
  BY <1>2, AllFailedIs
<1> HIDE DEF graph, failed, stay
<1>5. Returned(branches, edges, new)
      /\ Cardinality(Tried(new.branches, <<>>)) <= Cardinality(Tried(branches, asked))
  BY <1>3, <1>4
<1> HIDE DEF new
<1>6. /\ new.branches \in Seq(Branch) /\ new.edges \subseteq Edge
      /\ Traceable(new.branches, new.edges)
      /\ \A i \in 1 .. Len(new.branches) : new.branches[i].status # "pending"
  BY <1>2, <1>5 DEF Returned
<1>7. Settled(new.branches)
  <2>1. /\ Cardinality(Tried(new.branches, <<>>)) \in Nat
        /\ Cardinality(Tried(branches, asked)) \in Nat /\ MaxBranches \in Nat
    BY <1>2, <1>6, TriedFinite, DriftConstants DEF DriftTypes
  <2>2. Cardinality(Tried(new.branches, <<>>)) <= MaxBranches
    BY <1>2, <1>5, <2>1
  <2>3. QED
    BY <1>6, <2>2 DEF Settled
<1>8. "failed" \in DriftOutcomes \ {"none", "answered"} /\ "failed" # "lost"
  BY DEF DriftOutcomes
<1>9. QED
  BY <1>1, <1>2, <1>6, <1>7, <1>8, DriftFails

LEMMA DriftStopTraversal ==
  ASSUME Search!Assumptions, DriftInv, Search!StopTraversal
  PROVE  DriftInv'
<1>1. /\ step \in TraversalSteps /\ Search!Fail("failed")
      /\ Search!SetGraph(IF gone THEN Search!AllFailed(Search!Graph)
                                 ELSE Search!Discarded(Search!Graph))
      /\ UNCHANGED <<gone, expired, budget, primed, folds, primerErr, queries>>
      /\ UNCHANGED <<processed, asked, exhausted>>
  BY DEF Search!StopTraversal, TraversalSteps, Search!contextVars, Search!primerVars, Search!batchVars
<1>2. QED
  BY <1>1, DriftTraversalFails

LEMMA DriftCountFails ==
  ASSUME Search!Assumptions, DriftInv, Search!CountFails
  PROVE  DriftInv'
<1>1. /\ step \in TraversalSteps /\ Search!Fail("failed")
      /\ Search!SetGraph(IF gone THEN Search!AllFailed(Search!Graph)
                                 ELSE Search!Discarded(Search!Graph))
      /\ UNCHANGED <<gone, expired, budget, primed, folds, primerErr, queries>>
      /\ UNCHANGED <<processed, asked, exhausted>>
  BY DEF Search!CountFails, TraversalSteps, Search!contextVars, Search!primerVars, Search!batchVars
<1>2. QED
  BY <1>1, DriftTraversalFails

LEMMA DriftTraversalEnds ==
  ASSUME Search!Assumptions, DriftInv, Search!TraversalEnds
  PROVE  DriftInv'
<1>0. DriftTypes
  BY DriftConstants
<1> DEFINE graph == [branches |-> branches, edges |-> edges]
           new == Search!Discarded(graph)
<1>1. /\ step \in {"traversal", "results"} /\ step \in TraversalSteps /\ step' = "reduce"
      /\ step = "results" => asked = <<>>
      /\ UNCHANGED <<outcome, gone, expired, budget, primed, folds, primerErr, queries>>
      /\ UNCHANGED <<processed, asked, exhausted>>
      /\ branches' = new.branches /\ edges' = new.edges
  BY DEF Search!TraversalEnds, TraversalSteps, Search!contextVars, Search!primerVars,
         Search!batchVars, Search!SetGraph, Search!Graph
<1>2. /\ branches \in Seq(Branch) /\ edges \in SUBSET Edge /\ Traceable(branches, edges)
      /\ Cardinality(Tried(branches, asked)) <= processed /\ processed \in 0 .. MaxBranches
      /\ budget \in Budgets /\ primed \in Search!Usages /\ Counted(budget) /\ DriftTyped
      /\ asked = <<>> /\ Awaited(branches, asked) /\ outcome = "none" /\ ~primerErr
      /\ budget.heldCalls = 1 /\ budget.heldOutput = ReduceMax /\ budget.active = Reserved
      /\ ~Overran(branches) => Covered(budget)
      /\ Accounted(budget, primed, branches)
  BY <1>1, Traversed
<1>3. \A i \in 1 .. Len(branches) : branches[i].status = "pending" => Unused(branches[i])
  <2>1. Len(<<>>) = 0
    OBVIOUS
  <2>2. QED
    BY <1>2, <2>1 DEF Awaited, InBatch
<1>4. /\ Returned(branches, edges, new)
      /\ Cardinality(Tried(new.branches, <<>>)) <= Cardinality(Tried(branches, asked))
      /\ \A tally \in Tallies : Spent(new.branches, tally) = Spent(branches, tally)
  BY <1>2, <1>3, DiscardedIs
<1> HIDE DEF graph, new
<1>5. /\ new.branches \in Seq(Branch) /\ new.edges \subseteq Edge
      /\ Traceable(new.branches, new.edges)
      /\ \A i \in 1 .. Len(new.branches) : new.branches[i].status # "pending"
      /\ Overran(branches) => Overran(new.branches)
  BY <1>2, <1>4 DEF Returned
<1>6. Settled(new.branches)
  <2>1. /\ Cardinality(Tried(new.branches, <<>>)) \in Nat
        /\ Cardinality(Tried(branches, asked)) \in Nat /\ MaxBranches \in Nat
    BY <1>0, <1>2, <1>5, TriedFinite DEF DriftTypes
  <2>2. Cardinality(Tried(new.branches, <<>>)) <= MaxBranches
    BY <1>2, <1>4, <2>1
  <2>3. QED
    BY <1>5, <2>2 DEF Settled
<1>7. DriftTyped'
  BY <1>1, <1>2, <1>5 DEF DriftTyped, ReturnSteps
<1>8. Reserved = 0 /\ Reserved' = 0
  <2>1. BranchMax \in Nat /\ Len(<<>>) = 0
    BY <1>0 DEF DriftTypes
  <2>2. QED
    BY <1>1, <1>2, <2>1, Products DEF Reserved
<1>9. DriftBudget'
  BY <1>1, <1>2, <1>5, <1>8 DEF DriftBudget
<1>10. DriftAccounted'
  BY <1>1, <1>2, <1>4 DEF DriftAccounted, Accounted
<1>11. DriftGraph'
  BY <1>1, <1>5, <1>6 DEF DriftGraph, PrimerSteps, TraversalSteps, ReturnSteps
<1>12. QED
  BY <1>7, <1>9, <1>10, <1>11 DEF DriftInv

LEMMA DriftPrepare ==
  ASSUME Search!Assumptions, DriftInv, Search!Prepare
  PROVE  DriftInv'
<1>0. DriftTypes /\ BranchMax > 0
  BY Enough
<1>1. /\ step = "traversal" /\ step \in TraversalSteps /\ step' = "running"
      /\ UNCHANGED <<outcome, gone, expired, primed, folds, primerErr, queries, edges>>
      /\ processed' = processed + Len(Search!Batch)
  BY DEF Search!Prepare, TraversalSteps, Search!contextVars, Search!primerVars
<1>2. /\ branches \in Seq(Branch) /\ edges \in SUBSET Edge /\ Traceable(branches, edges)
      /\ InOrder(branches)
      /\ Cardinality(Tried(branches, asked)) <= processed /\ processed \in 0 .. MaxBranches
      /\ budget \in Budgets /\ primed \in Search!Usages /\ Counted(budget) /\ DriftTyped
      /\ asked = <<>> /\ Awaited(branches, asked) /\ outcome = "none" /\ ~primerErr
      /\ budget.heldCalls = 1 /\ budget.heldOutput = ReduceMax /\ budget.active = Reserved
      /\ ~Overran(branches) => Covered(budget)
      /\ Accounted(budget, primed, branches)
  BY <1>1, Traversed
<1>3. \A i \in 1 .. Len(branches) : branches[i].status = "pending" => Unused(branches[i])
  <2>1. Len(<<>>) = 0
    OBVIOUS
  <2>2. QED
    BY <1>2, <2>1 DEF Awaited, InBatch
<1>4. budget.active = 0
  BY <1>1, <1>2 DEF Reserved
<1>5. Preparable
  BY <1>0, <1>2, <1>3, <1>4 DEF Preparable
<1> DEFINE batch == Search!Batch
<1>6. IsBatch(branches, batch) /\ processed + Len(batch) <= MaxBranches
  BY <1>0, <1>2, BatchIs
<1>7. PICK size \in [DOMAIN batch -> Prompts \cup {0}] :
        LET made == Search!PreparedBatch(batch, size)
        IN  /\ budget' = made.budget /\ branches' = made.branches
            /\ asked' = made.asked /\ exhausted' = made.exhausted
  BY DEF Search!Prepare
<1>8. Sized(batch, size) /\ Len(batch) \in Nat
  <2>1. batch \in Seq(Nat)
    BY <1>6 DEF IsBatch
  <2>2. DOMAIN batch = 1 .. Len(batch) /\ Len(batch) \in Nat
    BY <2>1
  <2>3. size \in [1 .. Len(batch) -> Prompts \cup {0}]
    BY <1>7, <2>2
  <2>4. Prompts \subseteq Nat
    BY <1>0 DEF DriftTypes
  <2>5. ASSUME NEW k \in 1 .. Len(batch) PROVE size[k] \in Nat
    <3>1. size[k] \in Prompts \/ size[k] = 0
      BY <2>3
    <3>2. CASE size[k] \in Prompts
      BY <2>4, <3>2
    <3>3. CASE size[k] = 0
      BY <3>3
    <3>4. QED
      BY <3>1, <3>2, <3>3
  <2>6. QED
    BY <2>2, <2>5 DEF Sized
<1> DEFINE st == Search!PreparedBatch(batch, size)
<1>9. /\ budget' = st.budget /\ branches' = st.branches
      /\ asked' = st.asked /\ exhausted' = st.exhausted
  BY <1>7
<1>10. PreparedTo(batch, Len(batch), st)
  BY <1>5, <1>6, <1>8, PreparedIs
<1>11. processed' = processed + Len(batch)
  BY <1>1
<1> HIDE DEF batch, st
<1>12. /\ st.budget \in Budgets /\ st.branches \in Seq(Branch) /\ Len(st.branches) = Len(branches)
       /\ st.asked \in Seq(Nat) /\ st.exhausted \in BOOLEAN
  BY <1>10 DEF PreparedTo, Preparation
<1>13. /\ st.budget.heldCalls = 1 /\ st.budget.heldOutput = ReduceMax
       /\ Counted(st.budget) /\ (Covered(budget) => Covered(st.budget))
       /\ st.budget.active = Len(st.asked) * BranchMax
       /\ Awaited(st.branches, st.asked)
       /\ Cardinality(Tried(st.branches, st.asked)) <= Cardinality(Tried(branches, <<>>)) + Len(batch)
  BY <1>2, <1>10 DEF PreparedTo
<1>14. \A tally \in Tallies :
         st.budget[tally] + Spent(branches, tally) = budget[tally] + Spent(st.branches, tally)
  BY <1>10 DEF PreparedTo
<1>15. \A i \in 1 .. Len(branches) :
         \/ st.branches[i] = branches[i]
         \/ /\ branches[i].status = "pending"
            /\ st.branches[i].question = branches[i].question
            /\ st.branches[i].depth = branches[i].depth
            /\ st.branches[i].status \in {"pending", "evidence"}
  BY <1>10 DEF PreparedTo
<1>16. Aged(branches, st.branches)
  BY <1>12, <1>15 DEF Aged
<1>17. Traceable(st.branches, edges) /\ InOrder(st.branches)
  BY <1>2, <1>16, AgedTraceable
<1>18. Overran(branches) => Overran(st.branches)
  BY <1>12, <1>15 DEF Overran
<1>19. processed' \in 0 .. MaxBranches /\ Cardinality(Tried(st.branches, st.asked)) <= processed'
  <2>1. /\ Cardinality(Tried(st.branches, st.asked)) \in Nat
        /\ Cardinality(Tried(branches, <<>>)) \in Nat /\ MaxBranches \in Nat
    BY <1>0, <1>2, <1>12, TriedFinite DEF DriftTypes
  <2>2. processed + Len(batch) <= MaxBranches
    BY <1>6
  <2>3. Cardinality(Tried(branches, <<>>)) <= processed
    BY <1>2
  <2> DEFINE a == Cardinality(Tried(st.branches, st.asked))
             b == Cardinality(Tried(branches, <<>>))
             n == Len(batch)
  <2>4. a \in Nat /\ b \in Nat /\ n \in Nat /\ a <= b + n /\ b <= processed /\ processed + n <= MaxBranches
        /\ processed' = processed + n /\ processed \in Nat
    BY <1>2, <1>8, <1>11, <1>13, <2>1, <2>2, <2>3
  <2> HIDE DEF a, b, n
  <2>5. processed' \in 0 .. MaxBranches /\ a <= processed'
    BY <2>1, <2>4
  <2>6. QED
    BY <2>5 DEF a
<1>20. DriftTyped'
  BY <1>1, <1>2, <1>9, <1>12, <1>19 DEF DriftTyped, TraversalSteps
<1>21. DriftBudget'
  BY <1>1, <1>2, <1>9, <1>13, <1>18 DEF DriftBudget, Reserved
<1>22. DriftAccounted'
  <2>1. ASSUME NEW tally \in Tallies
        PROVE  st.budget[tally] = primed[tally] + Spent(st.branches, tally)
    <3>1. /\ st.budget[tally] \in Nat /\ budget[tally] \in Nat /\ primed[tally] \in Nat
      BY <1>2, <1>12 DEF Budgets, Search!Usages, Tallies
    <3>2. Spent(st.branches, tally) \in Nat /\ Spent(branches, tally) \in Nat
      BY <1>2, <1>12, SpentOf
    <3>3. /\ st.budget[tally] + Spent(branches, tally) = budget[tally] + Spent(st.branches, tally)
          /\ budget[tally] = primed[tally] + Spent(branches, tally)
      BY <1>2, <1>14 DEF Accounted
    <3>4. QED
      BY <3>1, <3>2, <3>3
  <2>2. QED
    BY <1>1, <1>9, <2>1 DEF DriftAccounted, Accounted
<1>23. DriftGraph'
  BY <1>1, <1>9, <1>13, <1>17, <1>19 DEF DriftGraph, PrimerSteps, TraversalSteps, ReturnSteps
<1>24. QED
  BY <1>20, <1>21, <1>22, <1>23 DEF DriftInv

LEMMA DriftBranchOutcome ==
  ASSUME Search!Assumptions, DriftInv, Search!BranchOutcome
  PROVE  DriftInv'
<1>0. DriftTypes
  BY DriftConstants
<1>1. /\ step = "results" /\ step \in TraversalSteps /\ asked # <<>> /\ asked' = Tail(asked)
      /\ UNCHANGED <<step, outcome, gone, expired, primed, folds, primerErr, queries>>
      /\ UNCHANGED <<processed, exhausted>>
  BY DEF Search!BranchOutcome, TraversalSteps, Search!contextVars, Search!primerVars
<1>2. /\ branches \in Seq(Branch) /\ edges \in SUBSET Edge /\ Traceable(branches, edges)
      /\ InOrder(branches) /\ Awaited(branches, asked) /\ asked \in Seq(Nat)
      /\ Cardinality(Tried(branches, asked)) <= processed
      /\ budget \in Budgets /\ primed \in Search!Usages /\ Counted(budget) /\ DriftTyped
      /\ outcome = "none" /\ ~primerErr
      /\ budget.heldCalls = 1 /\ budget.heldOutput = ReduceMax /\ budget.active = Reserved
      /\ ~Overran(branches) => Covered(budget)
      /\ Accounted(budget, primed, branches)
  BY <1>1, Traversed
<1> DEFINE i == Head(asked)
           rest == Tail(asked)
           n == Len(rest)
           prompt == branches[i].used.prompt
<1>3. /\ rest \in Seq(Nat) /\ i \in Nat /\ Len(asked) = n + 1 /\ n \in Nat /\ i = asked[1]
      /\ \A k \in 1 .. n : rest[k] = asked[k + 1] /\ k + 1 \in 1 .. Len(asked)
  BY <1>1, <1>2, TailIs
<1>4. PICK end \in Search!Outcomes(budget, prompt, BranchMax) :
       LET looked == [branches EXCEPT
             ![i].status = IF end.kind = "answer" THEN "succeeded" ELSE end.kind,
             ![i].used = end.used]
       IN  /\ budget' = end.budget
           /\ IF end.kind = "answer"
                THEN \E list \in FollowUps :
                       Search!SetGraph(Search!Added([branches |-> looked, edges |-> edges],
                                                    branches[i].question, branches[i].depth, list))
                ELSE Search!SetGraph([branches |-> looked, edges |-> edges])
  BY DEF Search!BranchOutcome
<1> DEFINE status == IF end.kind = "answer" THEN "succeeded" ELSE end.kind
           looked == [branches EXCEPT ![i].status = status, ![i].used = end.used]
           question == branches[i].question
           depth == branches[i].depth
           graph == [branches |-> looked, edges |-> edges]
<1>5. /\ budget' = end.budget
      /\ end.kind = "answer" => \E list \in FollowUps :
           Search!SetGraph(Search!Added(graph, question, depth, list))
      /\ end.kind # "answer" => branches' = looked /\ edges' = edges
  BY <1>4 DEF Search!SetGraph
<1>6. graph.branches = looked /\ graph.edges = edges
  OBVIOUS
<1>7. PICK new : /\ branches' = new.branches /\ edges' = new.edges
                 /\ \/ end.kind = "answer" /\ \E list \in FollowUps :
                                                new = Search!Added(graph, question, depth, list)
                    \/ end.kind # "answer" /\ new = graph
  <2>1. CASE end.kind = "answer"
    BY <1>5, <2>1 DEF Search!SetGraph
  <2>2. CASE end.kind # "answer"
    BY <1>5, <1>6, <2>2
  <2>3. QED
    BY <2>1, <2>2
<1> HIDE DEF rest, n
<1>8. /\ i \in 1 .. Len(branches) /\ branches[i].status = "pending"
      /\ branches[i].used.calls = 1 /\ branches[i].used.output = 0
      /\ 1 \in 1 .. Len(asked)
  <2>1. 1 \in 1 .. Len(asked)
    BY <1>3
  <2>2. QED
    BY <1>2, <1>3, <2>1 DEF Awaited
<1>9. /\ branches[i] \in Branch /\ prompt \in Nat /\ question \in Search!Questions
      /\ depth \in Nat /\ Len(branches) \in Nat
  <2>1. branches[i] \in Branch /\ Len(branches) \in Nat
    BY <1>2, <1>8
  <2>2. QED
    BY <2>1 DEF Branch, Search!Usages
<1>10. BranchMax \in Nat /\ MaxBranches \in Nat
  BY <1>0 DEF DriftTypes
<1>11. budget.active = n * BranchMax + BranchMax /\ n * BranchMax \in Nat
  BY <1>1, <1>2, <1>3, <1>10, Products DEF Reserved
<1>12. budget.active >= BranchMax /\ budget.active - BranchMax = n * BranchMax
  <2> DEFINE a == n * BranchMax
  <2>1. a \in Nat /\ budget.active = a + BranchMax
    BY <1>11
  <2> HIDE DEF a
  <2>2. budget.active >= BranchMax /\ budget.active - BranchMax = a
    BY <1>10, <2>1
  <2>3. QED
    BY <2>2 DEF a
<1>13. Answered(budget, prompt, BranchMax, end)
  <2>1. prompt \in Nat /\ budget \in Budgets
    BY <1>2, <1>9
  <2> HIDE DEF prompt
  <2>2. QED
    BY <1>0, <1>4, <1>10, <1>12, <2>1, OutcomesAre
<1>14. /\ end.budget \in Budgets /\ end.used \in Search!Usages
       /\ end.kind \in {"error", "overrun", "answer", "invalid"}
       /\ end.budget.heldCalls = 1 /\ end.budget.heldOutput = ReduceMax
       /\ end.budget.active = n * BranchMax
       /\ end.used.calls >= 1 /\ end.used.prompt >= prompt
       /\ end.budget.calls = budget.calls + (end.used.calls - 1)
       /\ end.budget.prompt = budget.prompt + (end.used.prompt - prompt)
       /\ end.budget.output = budget.output + end.used.output
       /\ Counted(end.budget)
       /\ Covered(budget) /\ end.kind # "overrun" => Covered(end.budget)
  BY <1>2, <1>12, <1>13 DEF Answered
<1>15. /\ status \in Search!Attempted /\ status \in Statuses /\ status # "pending"
       /\ end.kind = "answer" => status = "succeeded"
       /\ end.kind = "overrun" => status = "overrun"
  BY <1>14 DEF Statuses, Search!Attempted
<1>16. /\ looked \in Seq(Branch) /\ Len(looked) = Len(branches)
       /\ looked[i].question = question /\ looked[i].depth = depth
       /\ looked[i].status = status /\ looked[i].used = end.used
       /\ \A j \in 1 .. Len(branches) : j # i => looked[j] = branches[j]
  <2> DEFINE b == [branches[i] EXCEPT !.status = status, !.used = end.used]
  <2>1. b \in Branch /\ b.question = question /\ b.depth = depth /\ b.status = status /\ b.used = end.used
    <3>1. branches[i] \in Branch /\ status \in Statuses /\ end.used \in Search!Usages
      BY <1>9, <1>14, <1>15
    <3> HIDE DEF status, i
    <3>2. QED
      BY <3>1 DEF Branch
  <2>2. looked = [branches EXCEPT ![i] = b]
    BY <1>2, <1>8, <1>9
  <2> HIDE DEF b, looked, i, status
  <2>3. QED
    BY <1>2, <1>8, <2>1, <2>2
<1> HIDE DEF i, looked, status, prompt, question, depth
<1>17. Aged(branches, looked)
  <2>1. ASSUME NEW j \in 1 .. Len(branches)
        PROVE  /\ looked[j].question = branches[j].question /\ looked[j].depth = branches[j].depth
               /\ branches[j].status = "succeeded" => looked[j].status = "succeeded"
               /\ looked[j].status = "pending" => branches[j].status = "pending"
    <3>1. CASE j = i
      BY <1>8, <1>15, <1>16, <3>1 DEF question, depth
    <3>2. CASE j # i
      BY <1>16, <3>2
    <3>3. QED
      BY <3>1, <3>2
  <2>2. QED
    BY <1>16, <2>1 DEF Aged
<1>18. Traceable(looked, edges) /\ InOrder(looked)
  BY <1>2, <1>17, AgedTraceable
<1>19. /\ \A k \in 1 .. Len(asked) :
            /\ asked[k] \in 1 .. Len(branches) /\ branches[asked[k]].status = "pending"
            /\ branches[asked[k]].used.calls = 1 /\ branches[asked[k]].used.output = 0
       /\ \A j, k \in 1 .. Len(asked) : j < k => asked[j] < asked[k]
       /\ \A j \in 1 .. Len(branches) : branches[j].status = "pending" =>
            InBatch(asked, j) \/ (Unused(branches[j]) /\ \A k \in 1 .. Len(asked) : asked[k] < j)
  BY <1>2 DEF Awaited
<1>20. /\ \A k \in 1 .. Len(rest) : i < rest[k] /\ rest[k] = asked[k + 1] /\ k + 1 \in 1 .. Len(asked)
       /\ \A k \in 1 .. Len(asked) : k = 1 \/ (k - 1 \in 1 .. Len(rest) /\ asked[k] = rest[k - 1])
       /\ \A j, k \in 1 .. Len(rest) : j < k => rest[j] < rest[k]
  <2>1. Len(rest) = n /\ Len(asked) = Len(rest) + 1 /\ Len(rest) \in Nat
    BY <1>3 DEF n
  <2>2. ASSUME NEW k \in 1 .. Len(rest)
        PROVE  i < rest[k] /\ rest[k] = asked[k + 1] /\ k + 1 \in 1 .. Len(asked)
    <3>1. rest[k] = asked[k + 1] /\ k + 1 \in 1 .. Len(asked) /\ 1 < k + 1
      BY <1>3, <2>1
    <3>2. QED
      BY <1>3, <1>8, <1>19, <3>1
  <2>3. ASSUME NEW k \in 1 .. Len(asked)
        PROVE  k = 1 \/ (k - 1 \in 1 .. Len(rest) /\ asked[k] = rest[k - 1])
    <3>1. k # 1 => k - 1 \in 1 .. Len(rest) /\ k - 1 + 1 = k
      BY <2>1
    <3>2. QED
      BY <2>2, <3>1
  <2>4. ASSUME NEW j \in 1 .. Len(rest), NEW k \in 1 .. Len(rest), j < k PROVE rest[j] < rest[k]
    <3>1. j + 1 < k + 1
      BY <2>4
    <3>2. QED
      BY <1>19, <2>2, <3>1
  <2>5. QED
    BY <2>2, <2>3, <2>4
<1>21. \A j : InBatch(asked, j) <=> (j = i \/ InBatch(rest, j))
  <2>1. ASSUME NEW j, InBatch(asked, j) PROVE j = i \/ InBatch(rest, j)
    BY <1>3, <1>20, <2>1 DEF InBatch
  <2>2. ASSUME NEW j, j = i \/ InBatch(rest, j) PROVE InBatch(asked, j)
    BY <1>3, <1>8, <1>20, <2>2 DEF InBatch
  <2>3. QED
    BY <2>1, <2>2
<1>22. i \in Nat /\ \A k \in 1 .. Len(rest) : rest[k] # i /\ rest[k] \in 1 .. Len(branches)
  <2>1. ASSUME NEW k \in 1 .. Len(rest) PROVE rest[k] # i /\ rest[k] \in 1 .. Len(branches)
    <3>1. rest[k] \in 1 .. Len(branches) /\ i < rest[k]
      BY <1>19, <1>20
    <3>2. QED
      BY <1>3, <3>1
  <2>2. QED
    BY <1>3, <2>1
<1>23. Awaited(looked, rest)
  <2>1. ASSUME NEW k \in 1 .. Len(rest)
        PROVE  /\ rest[k] \in 1 .. Len(looked) /\ looked[rest[k]].status = "pending"
               /\ looked[rest[k]].used.calls = 1 /\ looked[rest[k]].used.output = 0
    <3>1. looked[rest[k]] = branches[rest[k]] /\ rest[k] \in 1 .. Len(looked)
      BY <1>16, <1>22
    <3>2. QED
      BY <1>19, <1>20, <3>1
  <2>2. ASSUME NEW j \in 1 .. Len(looked), looked[j].status = "pending"
        PROVE  InBatch(rest, j) \/ (Unused(looked[j]) /\ \A k \in 1 .. Len(rest) : rest[k] < j)
    <3>1. j # i /\ j \in 1 .. Len(branches) /\ looked[j] = branches[j]
      BY <1>15, <1>16, <2>2
    <3>2. CASE InBatch(asked, j)
      BY <1>21, <3>1, <3>2
    <3>3. CASE Unused(branches[j]) /\ \A k \in 1 .. Len(asked) : asked[k] < j
      BY <1>20, <3>1, <3>3
    <3>4. QED
      BY <1>19, <2>2, <3>1, <3>2, <3>3
  <2>3. QED
    BY <1>20, <2>1, <2>2 DEF Awaited
<1>24. Tried(looked, rest) = Tried(branches, asked)
  <2>1. ASSUME NEW j \in 1 .. Len(branches)
        PROVE  (looked[j].status \in Search!Attempted \/ InBatch(rest, j)) <=>
               (branches[j].status \in Search!Attempted \/ InBatch(asked, j))
    <3>1. CASE j = i
      BY <1>15, <1>16, <1>21, <3>1
    <3>2. CASE j # i
      BY <1>16, <1>21, <3>2
    <3>3. QED
      BY <3>1, <3>2
  <2>2. QED
    BY <1>16, <2>1 DEF Tried
<1>25. \A tally \in Tallies :
         Spent(looked, tally) = Spent(branches, tally) - branches[i].used[tally] + end.used[tally]
  <2>1. ASSUME NEW tally \in Tallies
        PROVE  Spent(looked, tally) = Spent(branches, tally) - branches[i].used[tally] + looked[i].used[tally]
    BY <1>2, <1>8, <1>16, WithUsage
  <2>2. QED
    BY <1>16, <2>1
\* The branches that follow, if there are any.
<1>26. /\ new.branches \in Seq(Branch) /\ new.edges \subseteq Edge
       /\ Traceable(new.branches, new.edges) /\ InOrder(new.branches)
       /\ Awaited(new.branches, rest) /\ Tried(new.branches, rest) = Tried(looked, rest)
       /\ \A tally \in Tallies : Spent(new.branches, tally) = Spent(looked, tally)
       /\ Overran(looked) => Overran(new.branches)
  <2>1. CASE end.kind # "answer" /\ new = graph
    <3>1. new.branches = looked /\ new.edges = edges
      BY <1>6, <2>1
    <3>2. QED
      BY <1>2, <1>16, <1>18, <1>23, <3>1
  <2>2. CASE end.kind = "answer" /\ \E list \in FollowUps :
                                      new = Search!Added(graph, question, depth, list)
    <3>1. PICK list \in FollowUps : new = Search!Added(graph, question, depth, list)
      BY <2>2
    <3>2. list \in Seq(Search!Questions)
      BY AskedOf
    <3>3. Extended(graph, question, depth, new)
      BY <1>0, <1>2, <1>9, <1>16, <3>1, <3>2, AddedIs
    <3>4. Source(looked, question, depth)
      BY <1>8, <1>15, <1>16, <2>2 DEF Source
    <3>5. \A j \in 1 .. Len(looked) : looked[j].depth <= depth + 1
      <4>1. ASSUME NEW j \in 1 .. Len(branches) PROVE branches[j].depth <= depth + 1
        BY <1>2, <1>8 DEF InOrder, depth
      <4>2. QED
        BY <1>16, <1>17, <4>1 DEF Aged
    <3>6. ASSUME NEW j \in 1 .. Len(looked), looked[j].status = "pending"
          PROVE  depth <= looked[j].depth
      <4>1. j # i /\ j \in 1 .. Len(branches) /\ looked[j] = branches[j]
        BY <1>15, <1>16, <3>6
      <4>2. i < j
        <5>1. CASE InBatch(rest, j)
          BY <1>20, <5>1 DEF InBatch
        <5>2. CASE \A k \in 1 .. Len(asked) : asked[k] < j
          BY <1>3, <1>8, <5>2
        <5>3. QED
          BY <1>19, <1>21, <3>6, <4>1, <5>1, <5>2
      <4>3. QED
        BY <1>2, <1>8, <4>1, <4>2 DEF InOrder, depth
    <3> HIDE DEF graph
    <3>7. /\ graph.branches \in Seq(Branch) /\ Traceable(graph.branches, graph.edges)
          /\ InOrder(graph.branches) /\ Source(graph.branches, question, depth)
          /\ \A j \in 1 .. Len(graph.branches) : graph.branches[j].depth <= depth + 1
          /\ \A j \in 1 .. Len(graph.branches) :
               graph.branches[j].status = "pending" => depth <= graph.branches[j].depth
          /\ Awaited(graph.branches, rest)
      BY <1>6, <1>16, <1>18, <1>23, <3>4, <3>5, <3>6
    <3>8. Traceable(new.branches, new.edges) /\ InOrder(new.branches)
      BY <1>0, <1>9, <3>3, <3>7, ExtendedTraceable
    <3>9. Awaited(new.branches, rest) /\ Tried(new.branches, rest) = Tried(graph.branches, rest)
      BY <1>3, <1>9, <3>3, <3>7, ExtendedAwaited
    <3>10. \A tally \in Tallies : Spent(new.branches, tally) = Spent(graph.branches, tally)
      BY <1>9, <3>3, <3>7, ExtendedSpent
    <3>11. /\ new.branches \in Seq(Branch) /\ new.edges \subseteq Edge
           /\ Len(graph.branches) <= Len(new.branches)
           /\ \A j \in 1 .. Len(graph.branches) : new.branches[j] = graph.branches[j]
      BY <3>3 DEF Extended
    <3>12. Overran(graph.branches) => Overran(new.branches)
      <4>1. Len(graph.branches) \in Nat /\ Len(new.branches) \in Nat
        BY <3>7, <3>11
      <4>2. \A j \in 1 .. Len(graph.branches) : j \in 1 .. Len(new.branches)
        BY <3>11, <4>1
      <4>3. QED
        BY <3>11, <4>2 DEF Overran
    <3>13. QED
      BY <1>6, <3>8, <3>9, <3>10, <3>11, <3>12
  <2>3. QED
    BY <1>7, <2>1, <2>2
<1>27. Overran(branches) \/ end.kind = "overrun" => Overran(looked)
  <2>1. CASE Overran(branches)
    <3>1. PICK j \in 1 .. Len(branches) : branches[j].status = "overrun"
      BY <2>1 DEF Overran
    <3>2. j # i
      BY <1>8, <3>1
    <3>3. QED
      BY <1>16, <3>1, <3>2 DEF Overran
  <2>2. CASE end.kind = "overrun"
    BY <1>8, <1>15, <1>16, <2>2 DEF Overran
  <2>3. QED
    BY <2>1, <2>2
<1> HIDE DEF graph
<1>28. DriftTyped'
  <2>1. asked' \in Seq(Nat)
    BY <1>1, <1>3 DEF rest
  <2>2. QED
    BY <1>1, <1>2, <1>5, <1>7, <1>14, <1>26, <2>1 DEF DriftTyped
<1>29. DriftBudget'
  <2>1. Reserved' = n * BranchMax
    BY <1>1 DEF Reserved, n, rest
  <2>2. ~Overran(branches') => Covered(budget')
    BY <1>2, <1>5, <1>7, <1>14, <1>26, <1>27
  <2>3. QED
    BY <1>1, <1>2, <1>5, <1>14, <2>1, <2>2 DEF DriftBudget
<1>30. Accounted(budget', primed', branches')
  <2>1. \A tally \in Tallies :
          /\ Spent(branches', tally) = Spent(branches, tally) - branches[i].used[tally] + end.used[tally]
          /\ budget[tally] = primed[tally] + Spent(branches, tally)
          /\ Spent(branches, tally) \in Nat
    BY <1>2, <1>7, <1>25, <1>26, SpentOf DEF Accounted
  <2>2. /\ primed.calls \in Nat /\ primed.prompt \in Nat /\ primed.output \in Nat
        /\ end.used.calls \in Nat /\ end.used.prompt \in Nat /\ end.used.output \in Nat
        /\ budget.calls \in Nat /\ budget.prompt \in Nat /\ budget.output \in Nat
    BY <1>2, <1>14 DEF Search!Usages, Budgets
  <2>3. "calls" \in Tallies /\ "prompt" \in Tallies /\ "output" \in Tallies
    BY DEF Tallies
  <2>4. budget'.calls = primed.calls + Spent(branches', "calls")
    <3> DEFINE s == Spent(branches, "calls")
               z == Spent(branches', "calls")
               u == branches[i].used.calls
               e == end.used.calls
               p == primed.calls
    <3>1. z = s - u + e /\ budget.calls = p + s /\ s \in Nat
      BY <2>1, <2>3
    <3>2. u = 1 /\ 1 \in Nat
      BY <1>8, <1>9 DEF prompt
    <3>3. p \in Nat /\ e \in Nat /\ budget'.calls = budget.calls + (e - 1)
      BY <1>5, <1>14, <2>2
    <3> HIDE DEF s, z, u, e, p
    <3>4. budget'.calls = p + z
      BY <3>1, <3>2, <3>3
    <3>5. QED
      BY <3>4 DEF p, z
  <2>5. budget'.prompt = primed.prompt + Spent(branches', "prompt")
    <3> DEFINE s == Spent(branches, "prompt")
               z == Spent(branches', "prompt")
               u == branches[i].used.prompt
               e == end.used.prompt
               p == primed.prompt
    <3>1. z = s - u + e /\ budget.prompt = p + s /\ s \in Nat
      BY <2>1, <2>3
    <3>2. u = prompt /\ prompt \in Nat
      BY <1>8, <1>9 DEF prompt
    <3>3. p \in Nat /\ e \in Nat /\ budget'.prompt = budget.prompt + (e - prompt)
      BY <1>5, <1>14, <2>2
    <3> HIDE DEF s, z, u, e, p
    <3>4. budget'.prompt = p + z
      BY <3>1, <3>2, <3>3
    <3>5. QED
      BY <3>4 DEF p, z
  <2>6. budget'.output = primed.output + Spent(branches', "output")
    <3> DEFINE s == Spent(branches, "output")
               z == Spent(branches', "output")
               u == branches[i].used.output
               e == end.used.output
               p == primed.output
    <3>1. z = s - u + e /\ budget.output = p + s /\ s \in Nat
      BY <2>1, <2>3
    <3>2. u = 0 /\ 0 \in Nat
      BY <1>8, <1>9 DEF prompt
    <3>3. p \in Nat /\ e \in Nat /\ budget'.output = budget.output + e
      BY <1>5, <1>14, <2>2
    <3> HIDE DEF s, z, u, e, p
    <3>4. budget'.output = p + z
      BY <3>1, <3>2, <3>3
    <3>5. QED
      BY <3>4 DEF p, z
  <2>7. QED
    BY <1>1, <2>4, <2>5, <2>6 DEF Accounted, Tallies
<1>31. DriftAccounted'
  BY <1>30 DEF DriftAccounted
<1>32. DriftGraph'
  <2>1. asked' = rest /\ step' = "results"
    BY <1>1 DEF rest
  <2>2. Cardinality(Tried(branches', asked')) <= processed'
    BY <1>1, <1>2, <1>7, <1>24, <1>26, <2>1
  <2>3. QED
    BY <1>7, <1>26, <2>1, <2>2 DEF DriftGraph, PrimerSteps, TraversalSteps, ReturnSteps
<1>33. QED
  BY <1>28, <1>29, <1>31, <1>32 DEF DriftInv

LEMMA DriftReduce ==
  ASSUME Search!Assumptions, DriftInv, Search!Reduce
  PROVE  DriftInv'
<1>0. DriftTypes
  BY DriftConstants
<1>1. /\ step = "reduce"
      /\ UNCHANGED <<gone, expired, primed, folds, primerErr, queries>>
      /\ UNCHANGED <<branches, edges, processed, asked, exhausted>>
  BY DEF Search!Reduce, Search!contextVars, Search!primerVars, Search!graphVars, Search!batchVars
<1>2. DriftTyped /\ DriftBudget /\ DriftAccounted /\ DriftGraph
  BY DEF DriftInv
<1>3. /\ budget \in Budgets /\ primed \in Search!Usages /\ outcome = "none"
      /\ branches \in Seq(Branch) /\ edges \subseteq Edge
  BY <1>1, <1>2 DEF DriftTyped
<1>4. /\ Counted(budget) /\ budget.heldCalls = 1 /\ budget.heldOutput = ReduceMax
      /\ budget.active = 0 /\ ~primerErr /\ (~Overran(branches) => Covered(budget))
  BY <1>1, <1>2, <1>3 DEF DriftBudget, Reserved
<1>5. Traceable(branches, edges) /\ Settled(branches)
  BY <1>1, <1>2 DEF DriftGraph, ReturnSteps
<1>6. /\ ReduceMax \in Nat /\ PromptTokens \in Nat /\ OutputTokens \in Nat /\ ModelCalls \in Nat
      /\ Prompts \subseteq Nat
  BY <1>0 DEF DriftTypes
<1>7. CASE Search!Fail("no room") /\ UNCHANGED budget
  <2>1. "no room" \in DriftOutcomes \ {"none", "answered"} /\ "no room" # "lost"
    BY DEF DriftOutcomes
  <2>2. QED
    BY <1>1, <1>2, <1>3, <1>4, <1>5, <1>7, <2>1, DriftFails
<1>8. ASSUME NEW prompt \in Search!Fitting,
             IF Search!CanUseHeld(budget, prompt, ReduceMax)
               THEN \E end \in Search!Ends(Search!UseHeld(budget, prompt, ReduceMax), ReduceMax,
                                           Search!Used(1, prompt, 0)) :
                      /\ budget' = end.budget
                      /\ IF end.kind = "text" /\ end.budget.output <= OutputTokens
                           THEN step' = "audit" /\ UNCHANGED outcome
                           ELSE Search!Fail(end.kind)
               ELSE Search!Fail("lost") /\ UNCHANGED budget
      PROVE  DriftInv'
  <2>1. prompt \in Nat /\ budget.prompt + prompt <= PromptTokens
    BY <1>3, <1>6 DEF Search!Fitting, Budgets
  <2>2. CASE ~Search!CanUseHeld(budget, prompt, ReduceMax)
    <3>1. ~Covered(budget)
      BY <1>3, <1>4, <1>6, <2>1, <2>2 DEF Search!CanUseHeld, Covered, Budgets
    <3>2. Overran(branches')
      BY <1>1, <1>4, <3>1
    <3>3. "lost" \in DriftOutcomes \ {"none", "answered"} /\ Search!Fail("lost") /\ UNCHANGED budget
      BY <1>8, <2>2 DEF DriftOutcomes
    <3>4. QED
      BY <1>1, <1>2, <1>3, <1>4, <1>5, <3>2, <3>3, DriftFails
  <2>3. CASE Search!CanUseHeld(budget, prompt, ReduceMax)
    <3> DEFINE bud == Search!UseHeld(budget, prompt, ReduceMax)
               res == Search!Reserve(budget, prompt, ReduceMax)
               used == Search!Used(1, prompt, 0)
    <3>1. /\ res \in Budgets /\ res.calls = budget.calls + 1 /\ res.prompt = budget.prompt + prompt
          /\ res.active = budget.active + ReduceMax /\ res.output = budget.output
          /\ res.heldCalls = budget.heldCalls /\ res.heldOutput = budget.heldOutput
      BY <1>3, <1>6, <2>1, ReserveIs
    <3>2. bud = [res EXCEPT !.heldCalls = @ - 1, !.heldOutput = @ - ReduceMax]
      BY DEF Search!UseHeld
    <3> HIDE DEF bud, res
    <3>3. /\ bud \in Budgets /\ bud.calls = budget.calls + 1 /\ bud.prompt = budget.prompt + prompt
          /\ bud.active = ReduceMax /\ bud.output = budget.output
          /\ bud.heldCalls = 0 /\ bud.heldOutput = 0
      <4>1. /\ res.heldCalls = 1 /\ res.heldOutput = ReduceMax /\ 1 - 1 = 0
            /\ ReduceMax - ReduceMax = 0 /\ 0 + ReduceMax = ReduceMax
        BY <1>4, <1>6, <3>1
      <4>2. bud = [res EXCEPT !.heldCalls = 0, !.heldOutput = 0]
        BY <3>2, <4>1
      <4>3. res \in Budgets /\ 0 \in {0, 1} /\ 0 \in {0, ReduceMax}
        BY <3>1
      <4>4. /\ bud \in Budgets /\ bud.calls = res.calls /\ bud.prompt = res.prompt
            /\ bud.active = res.active /\ bud.output = res.output
            /\ bud.heldCalls = 0 /\ bud.heldOutput = 0
        BY <4>2, <4>3 DEF Budgets
      <4>5. QED
        BY <1>4, <3>1, <4>1, <4>4
    <3>4. used \in Search!Usages /\ used.output = 0
      BY <2>1 DEF Search!Used, Search!Usages
    <3>5. PICK end \in Search!Ends(bud, ReduceMax, used) :
            /\ budget' = end.budget
            /\ IF end.kind = "text" /\ end.budget.output <= OutputTokens
                 THEN step' = "audit" /\ UNCHANGED outcome
                 ELSE Search!Fail(end.kind)
      BY <1>8, <2>3 DEF bud
    <3> HIDE DEF used
    <3>6. Closed(bud, ReduceMax, used, end)
      <4>1. bud.active >= ReduceMax
        BY <1>6, <3>3
      <4>2. QED
        BY <1>6, <3>3, <3>4, <3>5, <4>1, EndsAre
    <3>7. /\ end.kind \in {"error", "text", "overrun"} /\ end.budget \in Budgets
          /\ end.used \in Search!Usages
          /\ end.budget.calls = bud.calls /\ end.budget.prompt = bud.prompt
          /\ end.budget.heldCalls = 0 /\ end.budget.heldOutput = 0
          /\ end.budget.active = ReduceMax - ReduceMax
          /\ end.budget.output = bud.output + (end.used.output - 0)
          /\ end.kind # "overrun" => end.used.output <= 0 + ReduceMax
      BY <3>3, <3>4, <3>6 DEF Closed
    <3>8. Counted(end.budget)
      BY <1>3, <1>4, <1>6, <2>1, <3>3, <3>7 DEF Counted, Budgets
    <3>9. end.kind = "text" => end.budget.output <= OutputTokens
      <4>1. budget.output + ReduceMax + 0 <= OutputTokens /\ budget.output \in Nat
        BY <1>3, <1>4, <2>3 DEF Search!CanUseHeld, Budgets
      <4>2. end.used.output \in Nat
        BY <3>7 DEF Search!Usages
      <4>3. QED
        BY <1>6, <3>3, <3>7, <4>1, <4>2
    <3>10. CASE end.kind # "text"
      <4>1. /\ Search!Fail(end.kind) /\ end.kind # "lost"
            /\ end.kind \in DriftOutcomes \ {"none", "answered"}
        BY <3>5, <3>7, <3>10 DEF DriftOutcomes
      <4>2. QED
        BY <1>1, <1>2, <1>3, <1>5, <3>5, <3>7, <3>8, <4>1, DriftFails
    <3>11. CASE end.kind = "text"
      <4>1. step' = "audit" /\ outcome' = outcome /\ budget' = end.budget
        BY <3>5, <3>9, <3>11
      <4>2. DriftTyped'
        BY <1>1, <1>2, <3>7, <4>1 DEF DriftTyped, ReturnSteps
      <4>3. Covered(budget') /\ budget'.output <= OutputTokens
        <5>1. end.budget.output \in Nat /\ end.budget.active = 0
          BY <1>6, <3>7 DEF Budgets
        <5>2. QED
          BY <1>6, <3>7, <3>9, <3>11, <4>1, <5>1 DEF Covered
      <4>4. DriftBudget'
        BY <1>1, <1>3, <1>4, <3>8, <4>1, <4>3 DEF DriftBudget
      <4>5. DriftAccounted'
        BY <4>1 DEF DriftAccounted
      <4>6. DriftGraph'
        BY <1>1, <1>5, <4>1 DEF DriftGraph, PrimerSteps, TraversalSteps, ReturnSteps
      <4>7. QED
        BY <4>2, <4>4, <4>5, <4>6 DEF DriftInv
    <3>12. QED
      BY <3>10, <3>11
  <2>4. QED
    BY <2>2, <2>3
<1>9. QED
  BY <1>7, <1>8 DEF Search!Reduce

LEMMA DriftStep ==
  Search!Assumptions /\ DriftInv /\ [Search!Next]_(Search!vars) => DriftInv'
<1> SUFFICES ASSUME Search!Assumptions, DriftInv, [Search!Next]_(Search!vars) PROVE DriftInv'
  OBVIOUS
<1>1. CASE Search!ContextEnds \/ Search!ReadFails
  BY <1>1, DriftContextEnds, DriftReadFails
<1>2. CASE Search!Hypothetical \/ Search!Retrieve \/ Search!FoldOutcome \/ Search!PrimerEnds
  BY <1>2, DriftHypothetical, DriftRetrieve, DriftFoldOutcome, DriftPrimerEnds
<1>3. CASE Search!Open \/ Search!StopTraversal \/ Search!CountFails
  BY <1>3, DriftOpen, DriftStopTraversal, DriftCountFails
<1>4. CASE Search!Prepare \/ Search!Run \/ Search!BranchOutcome
  BY <1>4, DriftPrepare, DriftRun, DriftBranchOutcome
<1>5. CASE Search!BatchEnds \/ Search!TraversalEnds
  BY <1>5, DriftConstants, DriftBatchEnds, DriftTraversalEnds
<1>6. CASE Search!Reduce \/ Search!Audit
  BY <1>6, DriftReduce, DriftAudit
<1>7. CASE UNCHANGED Search!vars
  <2>1. UNCHANGED driftVars
    BY <1>7 DEF Search!vars, driftVars
  <2>2. QED
    BY <2>1, DriftStutters
<1>8. QED
  BY <1>1, <1>2, <1>3, <1>4, <1>5, <1>6, <1>7 DEF Search!Next

LEMMA SearchCounting == \A S : Search!Cardinality(S) = Cardinality(S)
BY DEF Search!Cardinality, Cardinality

LEMMA BudgetIsKept ==
  ASSUME DriftInv
  PROVE  Search!BudgetKept
<1>1. DriftTyped /\ DriftBudget /\ DriftAccounted
  BY DEF DriftInv
<1>2. branches \in Seq(Branch) /\ DOMAIN branches = 1 .. Len(branches)
  BY <1>1 DEF DriftTyped
<1>3. Search!Overrun <=> Overran(branches)
  BY <1>2 DEF Search!Overrun, Overran
<1>4. Search!UsageAccounted
  <2>1. SUFFICES ASSUME step \in {"opening", "traversal", "running", "results", "reduce"},
                        NEW tally \in {"calls", "prompt", "output"}
                 PROVE  budget[tally] = primed[tally]
                          + Search!Summed([i \in DOMAIN branches |-> branches[i].used[tally]])
    BY DEF Search!UsageAccounted
  <2>2. tally \in Tallies /\ step \notin {"audit", "done"}
    BY <2>1 DEF Tallies
  <2>3. budget[tally] = primed[tally] + Spent(branches, tally)
    BY <1>1, <2>2 DEF DriftAccounted, Accounted
  <2>4. Spent(branches, tally) = Search!Summed([i \in DOMAIN branches |-> branches[i].used[tally]])
    BY <1>2, SearchLists DEF Spent
  <2>5. QED
    BY <2>3, <2>4
<1>5. QED
  BY <1>1, <1>3, <1>4 DEF Search!BudgetKept, DriftBudget, Counted, Covered

LEMMA BranchesAreTraced ==
  ASSUME Search!Assumptions, DriftInv
  PROVE  Search!BranchesTraced
<1> SUFFICES ASSUME step \in {"reduce", "audit"} \/ (step = "done" /\ branches # <<>>)
             PROVE  Search!BranchesTraced
  BY DEF Search!BranchesTraced
<1> DEFINE found == DOMAIN branches
           Depths(question) ==
             IF question = Root THEN {0}
             ELSE {branches[i].depth : i \in {j \in found : /\ branches[j].question = question
                                                           /\ branches[j].status = "succeeded"}}
           parents(i) == UNION {Depths(edge[1]) : edge \in {e \in edges : e[2] = branches[i].question}}
<1>0. step \in ReturnSteps
  BY DEF ReturnSteps
<1>1. branches \in Seq(Branch) /\ found = 1 .. Len(branches) /\ Len(branches) \in Nat
  BY DEF DriftInv, DriftTyped
<1>2. Traceable(branches, edges) /\ Settled(branches)
  BY <1>0 DEF DriftInv, DriftGraph
<1>3. /\ \A i \in 1 .. Len(branches) : branches[i].question # Root /\ branches[i].depth \in 1 .. MaxDepth
      /\ \A i, j \in 1 .. Len(branches) : branches[i].question = branches[j].question => i = j
      /\ \A e \in edges : /\ \E depth \in Nat : Source(branches, e[1], depth)
                          /\ e[2] = Root \/ Named(branches, e[2])
      /\ \A i \in 1 .. Len(branches) :
           \E e \in edges : e[2] = branches[i].question /\ Source(branches, e[1], branches[i].depth - 1)
      /\ \A i \in 1 .. Len(branches) : \A e \in edges, depth \in Nat :
           e[2] = branches[i].question /\ Source(branches, e[1], depth) => branches[i].depth <= depth + 1
  BY <1>2 DEF Traceable
<1>4. \A question, depth : depth \in Depths(question) <=> Source(branches, question, depth)
  <2>1. ASSUME NEW question, NEW depth
        PROVE  depth \in Depths(question) <=> Source(branches, question, depth)
    <3>1. CASE question = Root
      BY <1>3, <3>1 DEF Source
    <3>2. CASE question # Root
      BY <1>1, <3>2 DEF Source
    <3>3. QED
      BY <3>1, <3>2
  <2>2. QED
    BY <2>1
<1>5. \A question : \A depth \in Depths(question) : depth \in Nat
  <2>1. MaxDepth \in Nat
    BY DriftConstants DEF DriftTypes
  <2>2. QED
    BY <1>1, <1>3, <2>1
<1> HIDE DEF Depths
<1>6. \A i \in found : branches[i].status # "pending"
  BY <1>1, <1>2 DEF Settled
<1>7. \A edge \in edges : Depths(edge[1]) # {} /\ edge[2] \in Search!Known \cup {Root}
  <2>1. ASSUME NEW edge \in edges PROVE Depths(edge[1]) # {}
    BY <1>3, <1>4
  <2>2. ASSUME NEW edge \in edges PROVE edge[2] \in Search!Known \cup {Root}
    <3>1. DOMAIN branches = 1 .. Len(branches)
      BY <1>1
    <3>2. edge[2] = Root \/ \E i \in 1 .. Len(branches) : branches[i].question = edge[2]
      BY <1>3 DEF Named
    <3>3. QED
      BY <3>1, <3>2 DEF Search!Known
  <2>3. QED
    BY <2>1, <2>2
<1>8. \A i \in found : /\ branches[i].depth - 1 \in parents(i)
                       /\ \A depth \in parents(i) : branches[i].depth <= depth + 1
  <2>1. ASSUME NEW i \in found PROVE branches[i].depth - 1 \in parents(i)
    BY <1>1, <1>3, <1>4
  <2>2. ASSUME NEW i \in found, NEW depth \in parents(i) PROVE branches[i].depth <= depth + 1
    <3>1. PICK e \in edges : e[2] = branches[i].question /\ depth \in Depths(e[1])
      OBVIOUS
    <3>2. QED
      BY <1>1, <1>3, <1>4, <1>5, <3>1
  <2>3. QED
    BY <2>1, <2>2
<1>9. Cardinality(Search!Known) = Len(branches) /\ Root \notin Search!Known
  <2> DEFINE asking == [i \in 1 .. Len(branches) |-> branches[i].question]
  <2>1. Search!Known = {branches[i].question : i \in 1 .. Len(branches)}
    BY <1>1 DEF Search!Known
  <2>2. asking \in Bijection(1 .. Len(branches), Search!Known)
    BY <1>3, <2>1 DEF Bijection, Injection, Surjection, IsInjective
  <2>3. ExistsBijection(1 .. Len(branches), Search!Known)
    BY <2>2 DEF ExistsBijection
  <2>4. Cardinality(1 .. Len(branches)) = Len(branches) /\ IsFiniteSet(1 .. Len(branches))
    BY <1>1, UpTo
  <2>5. Cardinality(Search!Known) = Cardinality(1 .. Len(branches))
    BY <2>3, <2>4, FS_Bijection
  <2>6. QED
    BY <1>3, <2>1, <2>4, <2>5
<1>10. Cardinality({i \in found : branches[i].status \in Search!Attempted}) <= MaxBranches
  <2>1. {i \in found : branches[i].status \in Search!Attempted} = Tried(branches, <<>>)
    <3>1. \A i : ~InBatch(<<>>, i)
      BY DEF InBatch
    <3>2. QED
      BY <1>1, <3>1 DEF Tried
  <2>2. QED
    BY <1>2, <2>1 DEF Settled
<1>11. QED
  BY <1>6, <1>7, <1>8, <1>9, <1>10, SearchCounting DEF Search!BranchesTraced, Depths

LEMMA DriftIsTyped ==
  ASSUME Search!Assumptions, DriftInv
  PROVE  Search!TypeOK
<1>1. DriftTyped /\ Traceable(branches, edges) /\ DriftGraph
  BY DEF DriftInv, DriftGraph
<1>2. step \in {"hypothetical", "retrieval", "folds", "opening", "traversal", "running",
                "results", "reduce", "audit", "done"}
  BY <1>1 DEF DriftTyped, PrimerSteps, TraversalSteps, ReturnSteps
<1>3. /\ outcome \in {"none", "answered", "cancelled", "duration", "failed", "error", "overrun",
                      "lost", "no room"}
      /\ gone \in BOOLEAN /\ expired \in BOOLEAN
      /\ budget \in [calls : Nat, prompt : Nat, output : Nat, active : Nat,
                     heldCalls : {0, 1}, heldOutput : {0, ReduceMax}]
      /\ primed \in Search!Usages /\ folds \in Seq(Prompts) /\ primerErr \in BOOLEAN
      /\ processed \in 0 .. MaxBranches /\ exhausted \in BOOLEAN
  BY <1>1 DEF DriftTyped, DriftOutcomes, Budgets
<1>4. Search!ToSet(queries) \subseteq UNION {Search!ToSet(list) : list \in FollowUps}
  <2>1. queries \in Seq(Asks)
    BY <1>1 DEF DriftTyped
  <2>2. \A q \in Search!ToSet(queries) : q \in Asks
    BY <2>1 DEF Search!ToSet
  <2>3. QED
    BY <2>2 DEF Asks
<1>5. \A i \in DOMAIN branches :
        /\ branches[i].depth \in 1 .. MaxDepth
        /\ branches[i].status \in Search!Attempted \cup {"pending", "cancelled"}
        /\ branches[i].used \in Search!Usages
  <2>1. branches \in Seq(Branch)
    BY <1>1 DEF DriftTyped
  <2>2. \A i \in DOMAIN branches : branches[i] \in Branch /\ i \in 1 .. Len(branches)
    BY <2>1
  <2>3. QED
    BY <1>1, <2>2 DEF Branch, Statuses, Traceable
<1>6. step = "results" => Search!ToSet(asked) \subseteq DOMAIN branches
  <2>1. step = "results" => Awaited(branches, asked)
    BY <1>1 DEF DriftGraph, TraversalSteps
  <2>2. branches \in Seq(Branch) /\ asked \in Seq(Nat)
    BY <1>1 DEF DriftTyped
  <2>3. QED
    BY <2>1, <2>2 DEF Awaited, Search!ToSet
<1>7. QED
  BY <1>2, <1>3, <1>4, <1>5, <1>6 DEF Search!TypeOK

-----------------------------------------------------------------------------
(* Lists of lists, and sorting *)

IsFlattening(f, lists) ==
  f = [n \in 0 .. Len(lists) |-> IF n = 0 THEN <<>> ELSE f[n - 1] \o lists[n]]

Flattening(S, lists, f) ==
  /\ f[0] = <<>> /\ Flattened(lists) = f[Len(lists)]
  /\ \A n \in 1 .. Len(lists) : f[n] = f[n - 1] \o lists[n]
  /\ \A n \in 0 .. Len(lists) : f[n] \in Seq(S)

LEMMA FlattenedRun ==
  ASSUME NEW S, NEW lists \in Seq(Seq(S))
  PROVE  \E f : Flattening(S, lists, f)
<1> DEFINE X == Seq(S)
           pass == [p \in X \X (1 .. Len(lists)) |-> p[1] \o lists[p[2]]]
           f == CHOOSE f : IsFlattening(f, lists)
<1>1. Flattened(lists) = f[Len(lists)]
  BY DEF Flattened, IsFlattening
<1>2. <<>> \in X /\ Len(lists) \in Nat
  OBVIOUS
<1>3. ASSUME NEW before \in X, NEW i \in 1 .. Len(lists) PROVE before \o lists[i] \in X
  <2>1. lists[i] \in Seq(S)
    OBVIOUS
  <2>2. QED
    BY <2>1
<1> HIDE DEF X
<1>4. pass \in [X \X (1 .. Len(lists)) -> X]
  BY <1>3
<1>5. \E g : IsFlattening(g, lists)
  <2> HIDE DEF pass
  <2>1. HasRun(X, <<>>, pass, Len(lists))
    BY <1>2, <1>4, LoopRuns
  <2>2. PICK g \in [0 .. Len(lists) -> X] : \A i \in 0 .. Len(lists) : g[i] = Pass(g, <<>>, pass, i)
    BY <2>1 DEF HasRun
  <2> USE DEF pass
  <2>3. ASSUME NEW i \in 0 .. Len(lists)
        PROVE  g[i] = IF i = 0 THEN <<>> ELSE g[i - 1] \o lists[i]
    <3>1. i # 0 => i \in 1 .. Len(lists) /\ i - 1 \in 0 .. Len(lists)
      BY <1>2
    <3>2. i # 0 => <<g[i - 1], i>> \in X \X (1 .. Len(lists))
      BY <3>1
    <3>3. i # 0 => pass[<<g[i - 1], i>>] = g[i - 1] \o lists[i]
      BY <3>2
    <3>4. QED
      BY <2>2, <3>3 DEF Pass
  <2>4. g = [i \in 0 .. Len(lists) |-> g[i]]
    OBVIOUS
  <2>5. QED
    BY <2>3, <2>4 DEF IsFlattening
<1>6. IsFlattening(f, lists)
  BY <1>5
<1> HIDE DEF f
<1>7. f[0] = <<>> /\ \A n \in 1 .. Len(lists) : f[n] = f[n - 1] \o lists[n]
  BY <1>2, <1>6 DEF IsFlattening
<1>8. \A i \in 0 .. Len(lists) : f[i] \in X
  <2>1. f[0] \in X /\ \A i \in 1 .. Len(lists) : f[i - 1] \in X => f[i] \in X
    BY <1>2, <1>3, <1>7
  <2>2. QED
    BY <1>2, <2>1, LoopKeeps
<1>9. QED
  BY <1>1, <1>7, <1>8 DEF X, Flattening

\* x is an element of the list, of a list of the lists.
Within(x, list) == \E i \in 1 .. Len(list) : list[i] = x

WithinOne(x, lists, n) == \E m \in 1 .. n : Within(x, lists[m])

LengthsOf(lists) == [n \in 1 .. Len(lists) |-> Len(lists[n])]

LEMMA WithinJoined ==
  ASSUME NEW S, NEW a \in Seq(S), NEW b \in Seq(S), NEW x
  PROVE  Within(x, a \o b) <=> Within(x, a) \/ Within(x, b)
<1> DEFINE c == a \o b
<1>1. /\ Len(c) = Len(a) + Len(b) /\ Len(a) \in Nat /\ Len(b) \in Nat
      /\ \A i \in 1 .. Len(a) : c[i] = a[i]
      /\ \A i \in 1 .. Len(b) : c[Len(a) + i] = b[i]
  BY Joined
<1> HIDE DEF c
<1>2. ASSUME Within(x, a) PROVE Within(x, c)
  <2>1. PICK i \in 1 .. Len(a) : a[i] = x
    BY <1>2 DEF Within
  <2>2. i \in 1 .. Len(c) /\ c[i] = x
    BY <1>1, <2>1
  <2>3. QED
    BY <2>2 DEF Within
<1>3. ASSUME Within(x, b) PROVE Within(x, c)
  <2>1. PICK i \in 1 .. Len(b) : b[i] = x
    BY <1>3 DEF Within
  <2>2. Len(a) + i \in 1 .. Len(c) /\ c[Len(a) + i] = x
    BY <1>1, <2>1
  <2>3. QED
    BY <2>2 DEF Within
<1>4. ASSUME Within(x, c) PROVE Within(x, a) \/ Within(x, b)
  <2>1. PICK i \in 1 .. Len(c) : c[i] = x
    BY <1>4 DEF Within
  <2>2. CASE i <= Len(a)
    <3>1. i \in 1 .. Len(a)
      BY <1>1, <2>2
    <3>2. QED
      BY <1>1, <2>1, <3>1 DEF Within
  <2>3. CASE ~(i <= Len(a))
    <3>1. i - Len(a) \in 1 .. Len(b) /\ Len(a) + (i - Len(a)) = i
      BY <1>1, <2>3
    <3> DEFINE j == i - Len(a)
    <3>2. j \in 1 .. Len(b) /\ Len(a) + j = i
      BY <3>1
    <3> HIDE DEF j
    <3>3. b[j] = x
      BY <1>1, <2>1, <3>2
    <3>4. QED
      BY <3>2, <3>3 DEF Within
  <2>4. QED
    BY <2>2, <2>3
<1>5. QED
  BY <1>2, <1>3, <1>4 DEF c

LEMMA FlattenedIs ==
  ASSUME NEW S, NEW lists \in Seq(Seq(S))
  PROVE  /\ Flattened(lists) \in Seq(S)
         /\ \A x : Within(x, Flattened(lists)) <=> WithinOne(x, lists, Len(lists))
         /\ LengthsOf(lists) \in Seq(Nat) /\ Len(Flattened(lists)) = Summed(LengthsOf(lists))
<1>1. PICK f : Flattening(S, lists, f)
  BY FlattenedRun
<1>2. /\ f[0] = <<>> /\ Flattened(lists) = f[Len(lists)]
      /\ \A n \in 1 .. Len(lists) : f[n] = f[n - 1] \o lists[n]
      /\ \A n \in 0 .. Len(lists) : f[n] \in Seq(S)
  BY <1>1 DEF Flattening
<1>3. /\ Len(lists) \in Nat /\ \A n \in 1 .. Len(lists) : lists[n] \in Seq(S) /\ Len(lists[n]) \in Nat
      /\ Len(lists) \in 0 .. Len(lists)
  OBVIOUS
<1>4. /\ LengthsOf(lists) \in Seq(Nat) /\ Len(LengthsOf(lists)) = Len(lists)
      /\ \A n \in 1 .. Len(lists) : LengthsOf(lists)[n] = Len(lists[n])
  BY <1>3 DEF LengthsOf
<1>5. PICK g : Summing(LengthsOf(lists), g)
  BY <1>4, SummedRun
<1>6. /\ g[0] = 0 /\ Summed(LengthsOf(lists)) = g[Len(lists)]
      /\ \A n \in 1 .. Len(lists) : g[n] = g[n - 1] + Len(lists[n])
  BY <1>4, <1>5 DEF Summing
<1> DEFINE T == {n \in 0 .. Len(lists) : /\ \A x : Within(x, f[n]) <=> WithinOne(x, lists, n)
                                         /\ Len(f[n]) = g[n]}
<1>7. 0 \in T
  <2>1. Len(f[0]) = 0
    BY <1>2
  <2>2. \A x : ~Within(x, f[0]) /\ ~WithinOne(x, lists, 0)
    BY <2>1 DEF Within, WithinOne
  <2>3. QED
    BY <1>3, <1>6, <2>1, <2>2
<1>8. ASSUME NEW n \in 1 .. Len(lists), n - 1 \in T PROVE n \in T
  <2>1. /\ f[n] = f[n - 1] \o lists[n] /\ f[n - 1] \in Seq(S) /\ lists[n] \in Seq(S)
        /\ n \in Nat /\ n \in 0 .. Len(lists)
    <3>1. n \in Nat /\ n \in 0 .. Len(lists) /\ n - 1 \in 0 .. Len(lists)
      BY <1>3
    <3>2. QED
      BY <1>2, <1>3, <3>1
  <2>2. (\A x : Within(x, f[n - 1]) <=> WithinOne(x, lists, n - 1)) /\ Len(f[n - 1]) = g[n - 1]
    BY <1>8
  <2>3. Len(f[n]) = g[n]
    <3>1. Len(f[n - 1] \o lists[n]) = Len(f[n - 1]) + Len(lists[n])
      BY <2>1, Joined
    <3>2. QED
      BY <1>6, <2>1, <2>2, <3>1
  <2>4. ASSUME NEW x PROVE Within(x, f[n]) <=> WithinOne(x, lists, n)
    <3>1. Within(x, f[n]) <=> Within(x, f[n - 1]) \/ Within(x, lists[n])
      BY <2>1, WithinJoined
    <3>2. WithinOne(x, lists, n) <=> WithinOne(x, lists, n - 1) \/ Within(x, lists[n])
      <4>1. \A m : m \in 1 .. n <=> m \in 1 .. n - 1 \/ m = n
        BY <2>1
      <4>2. QED
        BY <4>1 DEF WithinOne
    <3>3. QED
      BY <2>2, <3>1, <3>2
  <2>5. QED
    BY <2>1, <2>3, <2>4
<1> HIDE DEF T
<1>9. Len(lists) \in T
  BY <1>3, <1>7, <1>8, Climb
<1>10. QED
  BY <1>2, <1>3, <1>4, <1>6, <1>9 DEF T

ValuedAs(v, s, list) ==
  /\ list \in Seq(Nat) /\ Len(list) = Len(s) /\ Summed(list) \in Nat
  /\ \A i \in 1 .. Len(s) : list[i] = v[s[i]]

LEMMA ValuedIs ==
  ASSUME NEW S, NEW v \in [S -> Nat], NEW s \in Seq(S)
  PROVE  ValuedAs(v, s, Valued(v, s))
<1>1. \A i \in 1 .. Len(s) : s[i] \in S /\ v[s[i]] \in Nat
  OBVIOUS
<1>2. Len(s) \in Nat
  OBVIOUS
<1>3. Valued(v, s) \in Seq(Nat) /\ Len(Valued(v, s)) = Len(s)
  BY <1>1, <1>2 DEF Valued
<1>4. QED
  BY <1>3, SummedNat DEF Valued, ValuedAs

LEMMA ValuedJoined ==
  ASSUME NEW S, NEW v \in [S -> Nat], NEW a \in Seq(S), NEW b \in Seq(S)
  PROVE  Summed(Valued(v, a \o b)) = Summed(Valued(v, a)) + Summed(Valued(v, b))
<1> DEFINE c == a \o b
           va == Valued(v, a)
           vb == Valued(v, b)
           vc == Valued(v, c)
<1>1. /\ c \in Seq(S) /\ Len(c) = Len(a) + Len(b) /\ Len(a) \in Nat /\ Len(b) \in Nat
      /\ \A i \in 1 .. Len(a) : c[i] = a[i]
      /\ \A i \in 1 .. Len(b) : c[Len(a) + i] = b[i]
  BY Joined
<1> HIDE DEF c
<1>2. /\ va \in Seq(Nat) /\ Len(va) = Len(a) /\ \A i \in 1 .. Len(a) : va[i] = v[a[i]]
      /\ vb \in Seq(Nat) /\ Len(vb) = Len(b) /\ \A i \in 1 .. Len(b) : vb[i] = v[b[i]]
      /\ vc \in Seq(Nat) /\ Len(vc) = Len(c) /\ \A i \in 1 .. Len(c) : vc[i] = v[c[i]]
  <2>1. ValuedAs(v, a, va) /\ ValuedAs(v, b, vb)
    BY ValuedIs
  <2>2. ValuedAs(v, c, vc)
    BY <1>1, ValuedIs
  <2>3. QED
    BY <2>1, <2>2 DEF ValuedAs
<1> HIDE DEF va, vb, vc
<1>3. /\ va \o vb \in Seq(Nat) /\ Len(va \o vb) = Len(a) + Len(b)
      /\ \A i \in 1 .. Len(a) : (va \o vb)[i] = va[i]
      /\ \A i \in 1 .. Len(b) : (va \o vb)[Len(a) + i] = vb[i]
  <2>1. va \in Seq(Nat) /\ vb \in Seq(Nat) /\ Len(va) = Len(a) /\ Len(vb) = Len(b)
    BY <1>2
  <2>2. /\ va \o vb \in Seq(Nat) /\ Len(va \o vb) = Len(va) + Len(vb)
        /\ \A i \in 1 .. Len(va) : (va \o vb)[i] = va[i]
        /\ \A i \in 1 .. Len(vb) : (va \o vb)[Len(va) + i] = vb[i]
    <3>1. \A p, q \in Seq(Nat) :
            /\ p \o q \in Seq(Nat) /\ Len(p \o q) = Len(p) + Len(q)
            /\ \A i \in 1 .. Len(p) : (p \o q)[i] = p[i]
            /\ \A i \in 1 .. Len(q) : (p \o q)[Len(p) + i] = q[i]
      BY Joined
    <3>2. QED
      BY <2>1, <3>1
  <2>3. QED
    BY <2>1, <2>2
<1>4. vc = va \o vb
  <2>1. ASSUME NEW i \in 1 .. Len(c) PROVE vc[i] = (va \o vb)[i]
    <3>1. CASE i <= Len(a)
      <4>1. i \in 1 .. Len(a)
        BY <1>1, <3>1
      <4>2. c[i] = a[i] /\ va[i] = v[a[i]] /\ (va \o vb)[i] = va[i] /\ vc[i] = v[c[i]]
        BY <1>1, <1>2, <1>3, <4>1
      <4>3. QED
        BY <4>2
    <3>2. CASE ~(i <= Len(a))
      <4> DEFINE j == i - Len(a)
      <4>1. j \in 1 .. Len(b) /\ Len(a) + j = i
        BY <1>1, <3>2
      <4> HIDE DEF j
      <4>2. vc[i] = v[b[j]] /\ (va \o vb)[i] = v[b[j]]
        BY <1>1, <1>2, <1>3, <4>1
      <4>3. QED
        BY <4>2
    <3>3. QED
      BY <3>1, <3>2
  <2> DEFINE w == va \o vb
  <2>2. w \in Seq(Nat) /\ vc \in Seq(Nat) /\ Len(w) = Len(c) /\ Len(vc) = Len(c)
    BY <1>1, <1>2, <1>3
  <2>3. \A i \in 1 .. Len(c) : vc[i] = w[i]
    BY <2>1
  <2> HIDE DEF w
  <2>4. vc = w
    BY <2>2, <2>3, SeqEqual
  <2>5. QED
    BY <2>4 DEF w
<1>5. Summed(va \o vb) = Summed(va) + Summed(vb)
  BY <1>2, SummedConcat
<1>6. QED
  BY <1>4, <1>5 DEF va, vb, vc, c

\* c is a followed by b.
JoinedAs(S, a, b, c) ==
  /\ c \in Seq(S) /\ Len(c) = Len(a) + Len(b)
  /\ \A i \in 1 .. Len(a) : c[i] = a[i]
  /\ \A i \in 1 .. Len(b) : c[Len(a) + i] = b[i]

LEMMA JoinedIs ==
  ASSUME NEW S, NEW a \in Seq(S), NEW b \in Seq(S)
  PROVE  JoinedAs(S, a, b, a \o b)
BY Joined DEF JoinedAs

\* The parts of a list before and from a place.
Halved(s, i, a, c) ==
  /\ Len(a) = i - 1 /\ Len(c) = Len(s) - (i - 1)
  /\ \A k \in 1 .. i - 1 : a[k] = s[k]
  /\ \A k \in 1 .. Len(s) - (i - 1) : c[k] = s[(i - 1) + k]

LEMMA HalvesOf ==
  ASSUME NEW S, NEW s \in Seq(S), NEW i \in 1 .. Len(s) + 1
  PROVE  LET a == SubSeq(s, 1, i - 1)
             c == SubSeq(s, i, Len(s))
         IN  a \in Seq(S) /\ c \in Seq(S) /\ Halved(s, i, a, c) /\ s = a \o c
<1> DEFINE a == SubSeq(s, 1, i - 1)
           c == SubSeq(s, i, Len(s))
<1>1. Len(s) \in Nat /\ i \in Nat /\ i >= 1 /\ i <= Len(s) + 1
  OBVIOUS
<1>2. a \in Seq(S) /\ Len(a) = i - 1 /\ \A k \in 1 .. i - 1 : a[k] = s[k]
  BY <1>1
<1>3. c \in Seq(S) /\ Len(c) = Len(s) - (i - 1)
  BY <1>1
<1>4. \A k \in 1 .. Len(s) - (i - 1) : c[k] = s[(i - 1) + k]
  BY <1>1
<1> HIDE DEF a, c
<1>5. /\ a \o c \in Seq(S) /\ Len(a \o c) = Len(a) + Len(c)
      /\ \A k \in 1 .. Len(a) : (a \o c)[k] = a[k]
      /\ \A k \in 1 .. Len(c) : (a \o c)[Len(a) + k] = c[k]
  <2>1. JoinedAs(S, a, c, a \o c)
    BY <1>2, <1>3, JoinedIs
  <2>2. QED
    BY <2>1 DEF JoinedAs
<1> DEFINE w == a \o c
<1>6. ASSUME NEW k \in 1 .. Len(s) PROVE s[k] = w[k]
  <2>1. CASE k <= i - 1
    <3>1. k \in 1 .. i - 1 /\ k \in 1 .. Len(a)
      BY <1>1, <1>2, <2>1
    <3>2. QED
      BY <1>2, <1>5, <3>1
  <2>2. CASE ~(k <= i - 1)
    <3> DEFINE j == k - (i - 1)
    <3>1. j \in 1 .. Len(s) - (i - 1) /\ (i - 1) + j = k
      BY <1>1, <2>2
    <3> HIDE DEF j
    <3>2. w[(i - 1) + j] = c[j] /\ c[j] = s[(i - 1) + j]
      BY <1>2, <1>3, <1>4, <1>5, <3>1
    <3>3. QED
      BY <3>1, <3>2
  <2>3. QED
    BY <2>1, <2>2
<1>7. w \in Seq(S) /\ Len(w) = Len(s)
  BY <1>1, <1>2, <1>3, <1>5
<1> HIDE DEF w
<1>8. s = w
  BY <1>6, <1>7, SeqEqual
<1>9. QED
  BY <1>2, <1>3, <1>4, <1>8 DEF Halved, a, c, w

Inserted(s, i, x, t) ==
  /\ Len(t) = Len(s) + 1 /\ t[i] = x
  /\ \A k \in 1 .. i - 1 : t[k] = s[k]
  /\ \A k \in i + 1 .. Len(s) + 1 : t[k] = s[k - 1]

LEMMA SummedOne == \A x \in Nat : Summed(<<x>>) = x
<1>1. SUFFICES ASSUME NEW x \in Nat PROVE Summed(<<x>>) = x
  OBVIOUS
<1>2. <<x>> = Append(<<>>, x) /\ <<>> \in Seq(Nat)
  OBVIOUS
<1>3. Summed(Append(<<>>, x)) = Summed(<<>>) + x
  BY <1>2, SummedMore
<1>4. QED
  BY <1>2, <1>3, SummedEmpty

LEMMA InsertedIs ==
  ASSUME NEW S, NEW s \in Seq(S), NEW x \in S, NEW i \in 1 .. Len(s) + 1, NEW v \in [S -> Nat]
  PROVE  LET t == Glob!InsertAt(s, i, x)
         IN  /\ t \in Seq(S) /\ Inserted(s, i, x, t)
             /\ Summed(Valued(v, t)) = Summed(Valued(v, s)) + v[x]
<1> DEFINE a == SubSeq(s, 1, i - 1)
           c == SubSeq(s, i, Len(s))
           t == Glob!InsertAt(s, i, x)
           b == <<x>>
           ab == a \o b
<1>1. t = ab \o c
  BY DEF Glob!InsertAt
<1>2. a \in Seq(S) /\ c \in Seq(S) /\ Halved(s, i, a, c) /\ s = a \o c
  BY HalvesOf
<1>3. b \in Seq(S) /\ Len(b) = 1 /\ b[1] = x
  OBVIOUS
<1>4. Len(s) \in Nat /\ i \in Nat /\ i >= 1 /\ i <= Len(s) + 1
  OBVIOUS
<1> HIDE DEF a, b, c, t
<1>5. /\ Len(a) = i - 1 /\ Len(c) = Len(s) - (i - 1)
      /\ \A k \in 1 .. i - 1 : a[k] = s[k]
      /\ \A k \in 1 .. Len(s) - (i - 1) : c[k] = s[(i - 1) + k]
  BY <1>2 DEF Halved
<1>6. /\ ab \in Seq(S) /\ Len(ab) = Len(a) + Len(b)
      /\ \A k \in 1 .. Len(a) : ab[k] = a[k]
      /\ \A k \in 1 .. Len(b) : ab[Len(a) + k] = b[k]
  <2>1. JoinedAs(S, a, b, ab)
    BY <1>2, <1>3, JoinedIs
  <2>2. QED
    BY <2>1 DEF JoinedAs
<1>7. Summed(Valued(v, ab)) = Summed(Valued(v, a)) + Summed(Valued(v, b))
  BY <1>2, <1>3, ValuedJoined
<1> HIDE DEF ab
<1>8. /\ t \in Seq(S) /\ Len(t) = Len(ab) + Len(c)
      /\ \A k \in 1 .. Len(ab) : t[k] = ab[k]
      /\ \A k \in 1 .. Len(c) : t[Len(ab) + k] = c[k]
  <2>1. JoinedAs(S, ab, c, t)
    BY <1>1, <1>2, <1>6, JoinedIs
  <2>2. QED
    BY <2>1 DEF JoinedAs
<1>9. Summed(Valued(v, t)) = Summed(Valued(v, ab)) + Summed(Valued(v, c))
  BY <1>1, <1>2, <1>6, ValuedJoined
<1>10. Summed(Valued(v, s)) = Summed(Valued(v, a)) + Summed(Valued(v, c))
  BY <1>2, ValuedJoined
<1>11. Summed(Valued(v, b)) = v[x] /\ v[x] \in Nat
  <2>1. ValuedAs(v, b, Valued(v, b)) /\ v[x] \in Nat
    BY <1>3, ValuedIs
  <2>2. Valued(v, b) \in Seq(Nat) /\ Len(Valued(v, b)) = 1 /\ Valued(v, b)[1] = v[x]
    BY <1>3, <2>1 DEF ValuedAs
  <2>3. Valued(v, b) = <<v[x]>>
    <3> DEFINE l == Valued(v, b)
    <3>1. l \in Seq(Nat) /\ Len(l) = 1 /\ l[1] = v[x]
      BY <2>2
    <3> HIDE DEF l
    <3>2. l = <<v[x]>>
      BY <2>1, <3>1, SeqEqual
    <3>3. QED
      BY <3>2 DEF l
  <2>4. QED
    BY <2>1, <2>3, SummedOne
<1>12. Summed(Valued(v, t)) = Summed(Valued(v, s)) + v[x]
  <2>1. Summed(Valued(v, a)) \in Nat /\ Summed(Valued(v, c)) \in Nat
    <3>1. ValuedAs(v, a, Valued(v, a)) /\ ValuedAs(v, c, Valued(v, c))
      BY <1>2, ValuedIs
    <3>2. QED
      BY <3>1 DEF ValuedAs
  <2>2. QED
    BY <1>7, <1>9, <1>10, <1>11, <2>1
<1>13. Len(ab) = i /\ Len(t) = Len(s) + 1
  BY <1>3, <1>4, <1>5, <1>6, <1>8
<1>14. t[i] = x
  <2>1. i \in 1 .. Len(ab) /\ 1 \in 1 .. Len(b) /\ Len(a) + 1 = i
    BY <1>3, <1>4, <1>5, <1>13
  <2>2. QED
    BY <1>3, <1>6, <1>8, <2>1
<1>15. \A k \in 1 .. i - 1 : t[k] = s[k]
  <2>1. \A k \in 1 .. i - 1 : k \in 1 .. Len(ab) /\ k \in 1 .. Len(a)
    BY <1>4, <1>5, <1>13
  <2>2. QED
    BY <1>5, <1>6, <1>8, <2>1
<1>16. ASSUME NEW k \in i + 1 .. Len(s) + 1 PROVE t[k] = s[k - 1]
  <2> DEFINE j == k - i
  <2>1. j \in 1 .. Len(s) - (i - 1) /\ i + j = k /\ (i - 1) + j = k - 1
    BY <1>4
  <2> HIDE DEF j
  <2>2. j \in 1 .. Len(c) /\ Len(ab) + j = k
    BY <1>5, <1>13, <2>1
  <2>3. t[Len(ab) + j] = c[j] /\ c[j] = s[(i - 1) + j]
    BY <1>5, <1>8, <2>1, <2>2
  <2>4. QED
    BY <2>1, <2>2, <2>3
<1>17. Inserted(s, i, x, t)
  BY <1>13, <1>14, <1>15, <1>16 DEF Inserted
<1>18. QED
  BY <1>8, <1>12, <1>17 DEF t

\* What is in the list is what was, and the new element.
LEMMA InsertedWithin ==
  ASSUME NEW S, NEW s \in Seq(S), NEW x \in S, NEW i \in 1 .. Len(s) + 1, NEW t, Inserted(s, i, x, t)
  PROVE  \A y : Within(y, t) <=> Within(y, s) \/ y = x
<1>1. /\ Len(t) = Len(s) + 1 /\ t[i] = x
      /\ \A k \in 1 .. i - 1 : t[k] = s[k]
      /\ \A k \in i + 1 .. Len(s) + 1 : t[k] = s[k - 1]
  BY DEF Inserted
<1>2. Len(s) \in Nat /\ i \in Nat /\ i >= 1 /\ i <= Len(s) + 1
  OBVIOUS
<1>3. ASSUME NEW k \in 1 .. Len(s) PROVE \E j \in 1 .. Len(t) : t[j] = s[k]
  <2>1. CASE k < i
    <3>1. k \in 1 .. i - 1 /\ k \in 1 .. Len(t)
      BY <1>1, <1>2, <2>1
    <3>2. QED
      BY <1>1, <3>1
  <2>2. CASE ~(k < i)
    <3> DEFINE j == k + 1
    <3>1. j \in i + 1 .. Len(s) + 1 /\ j \in 1 .. Len(t) /\ j - 1 = k
      BY <1>1, <1>2, <2>2
    <3> HIDE DEF j
    <3>2. QED
      BY <1>1, <3>1
  <2>3. QED
    BY <2>1, <2>2
<1>4. ASSUME NEW k \in 1 .. Len(t) PROVE t[k] = x \/ \E j \in 1 .. Len(s) : s[j] = t[k]
  <2>1. CASE k = i
    BY <1>1, <2>1
  <2>2. CASE k < i
    <3>1. k \in 1 .. i - 1 /\ k \in 1 .. Len(s)
      BY <1>1, <1>2, <2>2
    <3>2. QED
      BY <1>1, <3>1
  <2>3. CASE k > i
    <3> DEFINE j == k - 1
    <3>1. k \in i + 1 .. Len(s) + 1 /\ j \in 1 .. Len(s) /\ j = k - 1
      BY <1>1, <1>2, <2>3
    <3> HIDE DEF j
    <3>2. t[k] = s[k - 1]
      BY <1>1, <3>1
    <3>3. t[k] = s[j]
      BY <3>1, <3>2
    <3>4. QED
      BY <3>1, <3>3
  <2>4. QED
    BY <1>1, <1>2, <2>1, <2>2, <2>3
<1>5. i \in 1 .. Len(t)
  BY <1>1, <1>2
<1>6. QED
  BY <1>1, <1>3, <1>4, <1>5 DEF Within

LEMMA GlobCounting == \A S : Glob!Cardinality(S) = Cardinality(S)
BY DEF Glob!Cardinality, Cardinality

\* Where an element gets into a list that is sorted.
PlaceOf(key, sorted, x) ==
  Glob!Cardinality({i \in DOMAIN sorted : key[sorted[i]] >= key[x]}) + 1

SortPass(key, before, x) == Glob!InsertAt(before, PlaceOf(key, before, x), x)

IsSorting(f, list, key) ==
  f = [n \in 0 .. Len(list) |-> IF n = 0 THEN <<>> ELSE SortPass(key, f[n - 1], list[n])]

Sorting(S, list, key, f) ==
  /\ f[0] = <<>> /\ Glob!Descending(list, key) = f[Len(list)]
  /\ \A n \in 1 .. Len(list) : f[n] = SortPass(key, f[n - 1], list[n])
  /\ \A n \in 0 .. Len(list) : f[n] \in Seq(S)

LEMMA PlaceIs ==
  ASSUME NEW S, NEW sorted \in Seq(S), NEW key, NEW x
  PROVE  PlaceOf(key, sorted, x) \in 1 .. Len(sorted) + 1
<1> DEFINE G == {i \in DOMAIN sorted : key[sorted[i]] >= key[x]}
<1>1. G \subseteq 1 .. Len(sorted) /\ Len(sorted) \in Nat
  OBVIOUS
<1> HIDE DEF G
<1>2. IsFiniteSet(1 .. Len(sorted)) /\ Cardinality(1 .. Len(sorted)) = Len(sorted)
  BY <1>1, UpTo
<1>3. IsFiniteSet(G) /\ Cardinality(G) <= Len(sorted) /\ Cardinality(G) \in Nat
  BY <1>1, <1>2, FS_Subset, FS_CardinalityType
<1>4. PlaceOf(key, sorted, x) = Cardinality(G) + 1
  BY GlobCounting DEF G, PlaceOf
<1>5. QED
  BY <1>1, <1>3, <1>4

LEMMA SortPassIs ==
  ASSUME NEW S, NEW sorted \in Seq(S), NEW key, NEW x \in S
  PROVE  LET t == SortPass(key, sorted, x)
         IN  t \in Seq(S) /\ Inserted(sorted, PlaceOf(key, sorted, x), x, t)
<1> DEFINE i == PlaceOf(key, sorted, x)
           v == [y \in S |-> 0]
<1>1. i \in 1 .. Len(sorted) + 1
  BY PlaceIs
<1>2. v \in [S -> Nat]
  OBVIOUS
<1> HIDE DEF i, v
<1>3. Glob!InsertAt(sorted, i, x) \in Seq(S) /\ Inserted(sorted, i, x, Glob!InsertAt(sorted, i, x))
  BY <1>1, <1>2, InsertedIs
<1>4. QED
  BY <1>3 DEF i, SortPass

LEMMA SortingRun ==
  ASSUME NEW S, NEW list \in Seq(S), NEW key
  PROVE  \E f : Sorting(S, list, key, f)
<1> DEFINE X == Seq(S)
           pass == [p \in X \X (1 .. Len(list)) |-> SortPass(key, p[1], list[p[2]])]
           f == CHOOSE f : IsSorting(f, list, key)
<1>1. Glob!Descending(list, key) = f[Len(list)]
  BY DEF Glob!Descending, IsSorting, SortPass, PlaceOf
<1>2. <<>> \in X /\ Len(list) \in Nat
  OBVIOUS
<1>3. ASSUME NEW before \in X, NEW i \in 1 .. Len(list) PROVE SortPass(key, before, list[i]) \in X
  <2>1. list[i] \in S
    OBVIOUS
  <2>2. QED
    BY <2>1, SortPassIs
<1> HIDE DEF X
<1>4. pass \in [X \X (1 .. Len(list)) -> X]
  BY <1>3
<1>5. \E g : IsSorting(g, list, key)
  <2> HIDE DEF pass
  <2>1. HasRun(X, <<>>, pass, Len(list))
    BY <1>2, <1>4, LoopRuns
  <2>2. PICK g \in [0 .. Len(list) -> X] : \A i \in 0 .. Len(list) : g[i] = Pass(g, <<>>, pass, i)
    BY <2>1 DEF HasRun
  <2> USE DEF pass
  <2>3. ASSUME NEW i \in 0 .. Len(list)
        PROVE  g[i] = IF i = 0 THEN <<>> ELSE SortPass(key, g[i - 1], list[i])
    <3>1. i # 0 => i \in 1 .. Len(list) /\ i - 1 \in 0 .. Len(list)
      BY <1>2
    <3>2. i # 0 => <<g[i - 1], i>> \in X \X (1 .. Len(list))
      BY <3>1
    <3>3. i # 0 => pass[<<g[i - 1], i>>] = SortPass(key, g[i - 1], list[i])
      BY <3>2
    <3>4. QED
      BY <2>2, <3>3 DEF Pass
  <2>4. g = [i \in 0 .. Len(list) |-> g[i]]
    OBVIOUS
  <2>5. QED
    BY <2>3, <2>4 DEF IsSorting
<1>6. IsSorting(f, list, key)
  BY <1>5
<1> HIDE DEF f
<1>7. f[0] = <<>> /\ \A n \in 1 .. Len(list) : f[n] = SortPass(key, f[n - 1], list[n])
  BY <1>2, <1>6 DEF IsSorting
<1>8. \A i \in 0 .. Len(list) : f[i] \in X
  <2>1. f[0] \in X /\ \A i \in 1 .. Len(list) : f[i - 1] \in X => f[i] \in X
    BY <1>2, <1>3, <1>7
  <2>2. QED
    BY <1>2, <2>1, LoopKeeps
<1>9. QED
  BY <1>1, <1>7, <1>8 DEF X, Sorting

\* The elements with the greatest keys are first.
Sorted(key, s) == \A j, k \in 1 .. Len(s) : j < k => key[s[j]] >= key[s[k]]

\* In a sorted list those before the place of an element are not below it.
LEMMA PlaceSplits ==
  ASSUME NEW S, NEW sorted \in Seq(S), NEW key, \A y \in S : key[y] \in Int, NEW x \in S,
         Sorted(key, sorted)
  PROVE  \A k \in 1 .. Len(sorted) : k < PlaceOf(key, sorted, x) <=> key[sorted[k]] >= key[x]
<1> DEFINE G == {i \in DOMAIN sorted : key[sorted[i]] >= key[x]}
           T == {n \in Nat : n + 1 \notin G}
<1>1. G \subseteq 1 .. Len(sorted) /\ Len(sorted) \in Nat /\ DOMAIN sorted = 1 .. Len(sorted)
  OBVIOUS
<1>2. \A k \in 1 .. Len(sorted) : key[sorted[k]] \in Int /\ key[x] \in Int
  OBVIOUS
<1>3. \A k \in 1 .. Len(sorted) : k \in G <=> key[sorted[k]] >= key[x]
  BY <1>1
<1>4. \A j, k \in 1 .. Len(sorted) : j < k /\ k \in G => j \in G
  BY <1>2, <1>3 DEF Sorted
<1> HIDE DEF G
<1>5. PICK m \in T : \A n \in T : m <= n
  <2>1. Len(sorted) \in T
    BY <1>1
  <2>2. T \subseteq Nat
    OBVIOUS
  <2> HIDE DEF T
  <2>3. QED
    BY <2>1, <2>2, Least
<1>6. ASSUME NEW k \in 1 .. m PROVE k \in G
  <2>1. k - 1 \in Nat /\ (k - 1) + 1 = k /\ ~(m <= k - 1)
    OBVIOUS
  <2>2. k - 1 \notin T
    BY <1>5, <2>1
  <2>3. QED
    BY <2>1, <2>2
<1>7. ASSUME NEW k \in G PROVE k \in 1 .. m
  <2>1. m \in Nat /\ m + 1 \notin G /\ k \in 1 .. Len(sorted)
    BY <1>1
  <2>2. ASSUME k > m PROVE FALSE
    <3>1. m + 1 \in 1 .. Len(sorted) /\ (m + 1 = k \/ m + 1 < k)
      BY <1>1, <2>1, <2>2
    <3>2. QED
      BY <1>4, <2>1, <3>1
  <2>3. QED
    BY <1>1, <2>1, <2>2
<1>8. G = 1 .. m
  BY <1>6, <1>7
<1>9. m \in Nat /\ Cardinality(1 .. m) = m
  BY UpTo
<1>10. PlaceOf(key, sorted, x) = m + 1
  BY <1>8, <1>9, GlobCounting DEF G, PlaceOf
<1>11. QED
  BY <1>1, <1>3, <1>8, <1>9, <1>10

LEMMA InsertedSorted ==
  ASSUME NEW S, NEW s \in Seq(S), NEW key, \A y \in S : key[y] \in Int, NEW x \in S,
         Sorted(key, s), NEW t, Inserted(s, PlaceOf(key, s, x), x, t)
  PROVE  Sorted(key, t)
<1> DEFINE i == PlaceOf(key, s, x)
<1>1. /\ i \in 1 .. Len(s) + 1 /\ Len(s) \in Nat
      /\ \A k \in 1 .. Len(s) : k < i <=> key[s[k]] >= key[x]
  BY PlaceIs, PlaceSplits
<1>2. /\ Len(t) = Len(s) + 1 /\ t[i] = x
      /\ \A k \in 1 .. i - 1 : t[k] = s[k]
      /\ \A k \in i + 1 .. Len(s) + 1 : t[k] = s[k - 1]
  BY DEF Inserted
<1> HIDE DEF i
<1>3. \A k \in 1 .. Len(s) : key[s[k]] \in Int /\ key[x] \in Int
  OBVIOUS
\* Where the elements of t are from.
<1> DEFINE Old(k) == IF k < i THEN k ELSE k - 1
<1>4. ASSUME NEW k \in 1 .. Len(t), k # i
      PROVE  Old(k) \in 1 .. Len(s) /\ t[k] = s[Old(k)] /\ (k < i <=> key[s[Old(k)]] >= key[x])
  <2>1. CASE k < i
    <3>1. k \in 1 .. Len(s) /\ k \in 1 .. i - 1 /\ Old(k) = k
      BY <1>1, <1>2, <2>1
    <3>2. QED
      BY <1>1, <1>2, <2>1, <3>1
  <2>2. CASE ~(k < i)
    <3> DEFINE j == k - 1
    <3>1. j \in 1 .. Len(s) /\ k \in i + 1 .. Len(s) + 1 /\ Old(k) = j /\ ~(j < i)
      BY <1>1, <1>2, <1>4, <2>2
    <3>2. t[k] = s[j]
      BY <1>2, <3>1
    <3> HIDE DEF j
    <3>3. QED
      BY <1>1, <2>2, <3>1, <3>2
  <2>3. QED
    BY <2>1, <2>2
<1>5. ASSUME NEW j \in 1 .. Len(t), NEW k \in 1 .. Len(t), j < k PROVE key[t[j]] >= key[t[k]]
  <2>1. CASE j = i
    <3>1. k # i /\ ~(k < i)
      BY <1>1, <1>5, <2>1
    <3>2. Old(k) \in 1 .. Len(s) /\ t[k] = s[Old(k)] /\ ~(key[s[Old(k)]] >= key[x])
      BY <1>4, <3>1
    <3> HIDE DEF Old
    <3>3. key[s[Old(k)]] \in Int /\ key[x] \in Int
      BY <1>3, <3>2
    <3>4. QED
      BY <1>2, <2>1, <3>2, <3>3
  <2>2. CASE k = i
    <3>1. j # i /\ j < i
      BY <1>1, <1>5, <2>2
    <3>2. Old(j) \in 1 .. Len(s) /\ t[j] = s[Old(j)] /\ key[s[Old(j)]] >= key[x]
      BY <1>4, <3>1
    <3> HIDE DEF Old
    <3>3. QED
      BY <1>2, <2>2, <3>2
  <2>3. CASE j # i /\ k # i
    <3>1. Old(j) < Old(k)
      BY <1>1, <1>2, <1>5, <2>3
    <3>2. /\ Old(j) \in 1 .. Len(s) /\ t[j] = s[Old(j)]
          /\ Old(k) \in 1 .. Len(s) /\ t[k] = s[Old(k)]
      BY <1>4, <2>3
    <3> HIDE DEF Old
    <3>3. QED
      BY <3>1, <3>2 DEF Sorted
  <2>4. QED
    BY <2>1, <2>2, <2>3
<1>6. QED
  BY <1>5 DEF Sorted

\* What sorting a list leaves as it is: what is in it, and any sum over it.
SameItems(S, list, new) ==
  /\ new \in Seq(S) /\ Len(new) = Len(list)
  /\ \A x : Within(x, new) <=> Within(x, list)
  /\ \A v \in [S -> Nat] : Summed(Valued(v, new)) = Summed(Valued(v, list))

LEMMA DescendingIs ==
  ASSUME NEW S, NEW list \in Seq(S), NEW key
  PROVE  /\ SameItems(S, list, Glob!Descending(list, key))
         /\ (\A y \in S : key[y] \in Int) => Sorted(key, Glob!Descending(list, key))
<1>1. PICK f : Sorting(S, list, key, f)
  BY SortingRun
<1>2. /\ f[0] = <<>> /\ Glob!Descending(list, key) = f[Len(list)]
      /\ \A n \in 1 .. Len(list) : f[n] = SortPass(key, f[n - 1], list[n])
      /\ \A n \in 0 .. Len(list) : f[n] \in Seq(S)
  BY <1>1 DEF Sorting
<1>3. /\ Len(list) \in Nat /\ \A n \in 1 .. Len(list) : list[n] \in S
      /\ Len(list) \in 0 .. Len(list)
  OBVIOUS
<1>4. ASSUME NEW n \in 1 .. Len(list)
      PROVE  /\ n \in Nat /\ n \in 0 .. Len(list) /\ n - 1 \in 0 .. Len(list)
             /\ f[n - 1] \in Seq(S) /\ list[n] \in S
             /\ f[n] = SortPass(key, f[n - 1], list[n])
  <2>1. n \in Nat /\ n \in 0 .. Len(list) /\ n - 1 \in 0 .. Len(list)
    BY <1>3
  <2>2. QED
    BY <1>2, <1>3, <2>1
<1>5. ASSUME NEW n \in 1 .. Len(list)
      PROVE  Inserted(f[n - 1], PlaceOf(key, f[n - 1], list[n]), list[n], f[n])
  BY <1>4, SortPassIs
<1> DEFINE T == {n \in 0 .. Len(list) :
                   /\ Len(f[n]) = n
                   /\ \A x : Within(x, f[n]) <=> \E i \in 1 .. n : list[i] = x}
<1>6. \A n \in 0 .. Len(list) : n \in T
  <2>1. 0 \in T
    <3>1. Len(f[0]) = 0
      BY <1>2
    <3>2. QED
      BY <1>3, <3>1 DEF Within
  <2>2. ASSUME NEW n \in 1 .. Len(list), n - 1 \in T PROVE n \in T
    <3>1. Len(f[n - 1]) = n - 1 /\ \A x : Within(x, f[n - 1]) <=> \E i \in 1 .. n - 1 : list[i] = x
      BY <2>2
    <3>2. Len(f[n]) = n
      BY <1>4, <1>5, <3>1 DEF Inserted
    <3>3. \A x : Within(x, f[n]) <=> Within(x, f[n - 1]) \/ x = list[n]
      <4> DEFINE place == PlaceOf(key, f[n - 1], list[n])
      <4>1. place \in 1 .. Len(f[n - 1]) + 1
        BY <1>4, PlaceIs
      <4>2. Inserted(f[n - 1], place, list[n], f[n])
        BY <1>5
      <4> HIDE DEF place
      <4>3. QED
        BY <1>4, <4>1, <4>2, InsertedWithin
    <3>4. \A i : i \in 1 .. n <=> i \in 1 .. n - 1 \/ i = n
      BY <1>4
    <3>5. \A x : Within(x, f[n]) <=> \E i \in 1 .. n : list[i] = x
      BY <3>1, <3>3, <3>4
    <3>6. QED
      BY <1>4, <3>2, <3>5
  <2> HIDE DEF T
  <2>3. QED
    BY <1>3, <2>1, <2>2, Climb
<1>7. ASSUME NEW v \in [S -> Nat] PROVE Summed(Valued(v, f[Len(list)])) = Summed(Valued(v, list))
  <2> DEFINE vl == Valued(v, list)
  <2>1. ValuedAs(v, list, vl)
    BY ValuedIs
  <2>2. vl \in Seq(Nat) /\ Len(vl) = Len(list) /\ \A i \in 1 .. Len(list) : vl[i] = v[list[i]]
    BY <2>1 DEF ValuedAs
  <2> HIDE DEF vl
  <2>3. PICK g : Summing(vl, g)
    BY <2>2, SummedRun
  <2>4. /\ g[0] = 0 /\ Summed(vl) = g[Len(list)]
        /\ \A n \in 1 .. Len(list) : g[n] = g[n - 1] + v[list[n]]
    BY <2>2, <2>3 DEF Summing
  <2> DEFINE U == {n \in 0 .. Len(list) : Summed(Valued(v, f[n])) = g[n]}
  <2>5. 0 \in U
    <3>1. Valued(v, <<>>) = <<>>
      BY DEF Valued
    <3>2. QED
      BY <1>2, <1>3, <2>4, <3>1, SummedEmpty
  <2>6. ASSUME NEW n \in 1 .. Len(list), n - 1 \in U PROVE n \in U
    <3>1. PlaceOf(key, f[n - 1], list[n]) \in 1 .. Len(f[n - 1]) + 1
      BY <1>4, PlaceIs
    <3>2. Summed(Valued(v, f[n])) = Summed(Valued(v, f[n - 1])) + v[list[n]]
      <4> DEFINE place == PlaceOf(key, f[n - 1], list[n])
      <4>1. place \in 1 .. Len(f[n - 1]) + 1
        BY <3>1
      <4>2. f[n] = Glob!InsertAt(f[n - 1], place, list[n])
        BY <1>4 DEF SortPass
      <4> HIDE DEF place
      <4>3. \A before \in Seq(S), x \in S : \A i \in 1 .. Len(before) + 1 :
              Summed(Valued(v, Glob!InsertAt(before, i, x))) = Summed(Valued(v, before)) + v[x]
        BY InsertedIs
      <4>4. QED
        BY <1>4, <4>1, <4>2, <4>3
    <3>3. QED
      BY <1>4, <2>4, <2>6, <3>2
  <2> HIDE DEF U
  <2>7. Len(list) \in U
    BY <1>3, <2>5, <2>6, Climb
  <2>8. QED
    BY <2>4, <2>7 DEF U, vl
<1>8. ASSUME \A y \in S : key[y] \in Int PROVE Sorted(key, f[Len(list)])
  <2> DEFINE U == {n \in 0 .. Len(list) : Sorted(key, f[n])}
  <2>1. 0 \in U
    <3>1. Len(f[0]) = 0
      BY <1>2
    <3>2. QED
      BY <1>3, <3>1 DEF Sorted
  <2>2. ASSUME NEW n \in 1 .. Len(list), n - 1 \in U PROVE n \in U
    <3>1. Sorted(key, f[n - 1])
      BY <2>2
    <3>2. Sorted(key, f[n])
      BY <1>4, <1>5, <1>8, <3>1, InsertedSorted
    <3>3. QED
      BY <1>4, <3>2
  <2> HIDE DEF U
  <2>3. Len(list) \in U
    BY <1>3, <2>1, <2>2, Climb
  <2>4. QED
    BY <2>3 DEF U
<1>9. Len(f[Len(list)]) = Len(list) /\ \A x : Within(x, f[Len(list)]) <=> Within(x, list)
  BY <1>3, <1>6 DEF Within
<1>10. QED
  BY <1>2, <1>3, <1>7, <1>8, <1>9 DEF SameItems

-----------------------------------------------------------------------------
(* Global: the invariant *)

\* Reports, and those at or above the level of the request.
Reports == Glob!ToSet(ReportTable)

InReach == {r \in Reports : Level[r] <= CommunityLevel}

Members(list) == {list[i] : i \in 1 .. Len(list)}

GlobalTyped ==
  /\ at \in {"start", "select", "context", "map", "mapped", "reduce", "audit", "done"}
  /\ reply \in {"none", "answered", "no data", "failed"}
  /\ left \in BOOLEAN /\ cut \in BOOLEAN
  /\ level \in 0 .. MaxLevel
  /\ ratings \in [Reports -> Ratings \cup {Glob!Unrated}]
  /\ frontier \in Seq(InReach) /\ order \in Seq(InReach)
  /\ kept \subseteq Members(order)

\* Accepted Communities and the frontier: they start on the level of the seeds
\* and each further one is a part of an accepted one, which is not rated again.
Descent(acc, front, lev) ==
  /\ acc \cap front = {}
  /\ \A r \in acc \cup front : Level[r] >= lev /\ (Level[r] = lev \/ Parent[r] \in acc)

\* What is relevant is accepted, and what has to be looked at is.
Looked(acc, front, lev, rated) ==
  /\ \A r \in InReach : rated[r] >= RatingThreshold => r \in acc \cup front
  /\ \A r \in acc : rated[r] >= RatingThreshold
  /\ \A r \in acc : \A p \in InReach :
       Parent[p] = r => rated[p] # Glob!Unrated \/ p \in front
  /\ acc = {} => \A r \in InReach : Level[r] <= lev => rated[r] # Glob!Unrated \/ r \in front

Remaining(acc) == IF KeepParent THEN acc ELSE acc \ {Parent[r] : r \in acc}

Traversal(front) ==
  /\ Descent(Members(order), front, level)
  /\ Looked(Members(order), front, level, ratings)
  /\ kept = Remaining(Members(order))

AllUnrated == \A r \in Reports : ratings[r] = Glob!Unrated

GlobalSelection ==
  /\ at = "start" => order = <<>> /\ kept = {} /\ level = 0 /\ AllUnrated
  /\ at = "select" => Traversal(Members(frontier))
  /\ at = "context" =>
       AllUnrated \/ (Traversal({}) /\ (kept = {} => level >= MaxLevel))

Row == [id : Nat, report : Reports]

RowSize == [row \in Row |-> Size[row.report]]

Fits(batch) == Len(batch) = 1 \/ Header + Summed(Valued(RowSize, batch)) <= MaxContextTokens

\* The chunks are made of the rows of the selected Reports.
Chunked(list, lists) ==
  /\ lists \in Seq(Seq(Row))
  /\ Len(Flattened(lists)) = Len(list)
  /\ \A x : WithinOne(x, lists, Len(lists)) <=> Within(x, list)
  /\ \A i \in 1 .. Len(lists) : Fits(lists[i])

GlobalPoint == [score : Int, cites : Seq(Nat), size : Nat]

GlobalOutcome == [status : {"model_failure", "invalid_response", "succeeded"}, points : Seq(GlobalPoint)]

\* What a chunk may have been answered with.
Sound(batch, result) ==
  /\ result \in GlobalOutcome
  /\ \A k \in 1 .. Len(result.points) :
       result.points[k].score > 0 =>
         /\ result.status = "succeeded"
         /\ \A c \in 1 .. Len(result.points[k].cites) :
              \E j \in 1 .. Len(batch) : batch[j].id = result.points[k].cites[c]

Mapping ==
  /\ Chunked(Glob!Number(Glob!Selection), chunks)
  /\ results \in Seq(GlobalOutcome \cup {Glob!Waiting}) /\ Len(results) = Len(chunks)
  /\ \A i \in 1 .. Len(chunks) : results[i] = Glob!Waiting \/ Sound(chunks[i], results[i])

Late == {"map", "mapped", "reduce", "audit"}

GlobalMapping ==
  /\ (chunks = <<>> /\ results = <<>> /\ at \notin Late) \/ (Mapping /\ at \in Late \cup {"done"})
  /\ at \in {"mapped", "reduce", "audit"} => \A i \in 1 .. Len(chunks) : results[i] # Glob!Waiting

Found == [batch : Nat, place : Nat, point : GlobalPoint]

\* A point of a chunk with a positive score.
Ranked(found) ==
  /\ found.batch \in 1 .. Len(chunks)
  /\ results[found.batch] # Glob!Waiting
  /\ \E k \in 1 .. Len(results[found.batch].points) : found.point = results[found.batch].points[k]
  /\ found.point.score > 0

Best ==
  \A found \in Glob!ToSet(Glob!Positive) \ Glob!ToSet(reduced) :
    cut /\ \A i \in DOMAIN reduced : reduced[i].point.score >= found.point.score

ScopeTraced ==
  \A row \in scope : \E i \in DOMAIN reduced :
    LET from == reduced[i].batch
    IN  /\ results[from].status = "succeeded"
        /\ row.id \in Glob!ToSet(reduced[i].point.cites)
        /\ row \in Glob!ToSet(chunks[from])

GlobalAnswer ==
  /\ reduced \in Seq(Found) /\ (reduced = <<>> \/ Mapping)
  /\ \A i \in 1 .. Len(reduced) : Ranked(reduced[i])
  /\ at \in {"start", "select", "context", "map", "mapped"} => reduced = <<>>
  /\ at = "reduce" => Best
  /\ at # "done" => scope = {} /\ resolved = {}
  /\ scope \subseteq Glob!Table /\ ScopeTraced
  /\ \A item \in resolved : Glob!Cardinality(item.reports) <= 1

GlobalInv == GlobalTyped /\ GlobalSelection /\ GlobalMapping /\ GlobalAnswer

-----------------------------------------------------------------------------
(* Global: its lists *)

\* Global works with the lists of an instance of its own.
LEMMA GlobLists ==
  /\ \A list, places : Glob!Picked(list, places) = Picked(list, places)
  /\ \A list : Glob!Summed(list) = Summed(list)
  /\ \A lists : Glob!Flattened(lists) = Flattened(lists)
BY DEF Glob!Picked, Picked, Glob!Summed, Summed, Glob!Flattened, Flattened

LEMMA GlobMembers ==
  ASSUME NEW S, NEW list \in Seq(S)
  PROVE  Glob!ToSet(list) = Members(list) /\ Members(list) \subseteq S /\ list \in Seq(Members(list))
<1>1. DOMAIN list = 1 .. Len(list) /\ \A i \in 1 .. Len(list) : list[i] \in S /\ list[i] \in Members(list)
  BY DEF Members
<1>2. Glob!ToSet(list) = Members(list) /\ Members(list) \subseteq S
  BY <1>1 DEF Glob!ToSet, Members
<1>3. Len(list) \in Nat /\ list = [i \in 1 .. Len(list) |-> list[i]]
  OBVIOUS
<1>4. list \in [1 .. Len(list) -> Members(list)]
  BY <1>1, <1>3
<1>5. QED
  BY <1>2, <1>3, <1>4

LEMMA WithinMembers == \A x, list : Within(x, list) <=> x \in Members(list)
BY DEF Within, Members

LEMMA PickedMembers ==
  ASSUME NEW S, NEW list \in Seq(S), NEW places
  PROVE  /\ Picked(list, places) \in Seq(S)
         /\ \A x : x \in Members(Picked(list, places)) <=>
                     \E i \in 1 .. Len(list) : i \in places /\ list[i] = x
<1> DEFINE l == Picked(list, places)
<1>1. l \in Seq(S) /\ \E e : Places(list, places, Len(list), l, e)
  BY PickedPlaces
<1> HIDE DEF l
<1>2. PICK e : Places(list, places, Len(list), l, e)
  BY <1>1
<1>3. /\ e \in [1 .. Len(l) -> 1 .. Len(list)]
      /\ \A k \in 1 .. Len(l) : e[k] \in places /\ l[k] = list[e[k]]
      /\ \A i \in 1 .. Len(list) : i \in places => \E k \in 1 .. Len(l) : e[k] = i
  BY <1>2 DEF Places
<1>4. ASSUME NEW x PROVE x \in Members(l) <=> \E i \in 1 .. Len(list) : i \in places /\ list[i] = x
  <2>1. ASSUME x \in Members(l) PROVE \E i \in 1 .. Len(list) : i \in places /\ list[i] = x
    <3>1. PICK k \in 1 .. Len(l) : l[k] = x
      BY <2>1 DEF Members
    <3>2. e[k] \in 1 .. Len(list) /\ e[k] \in places /\ list[e[k]] = x
      BY <1>3, <3>1
    <3>3. QED
      BY <3>2
  <2>2. ASSUME NEW i \in 1 .. Len(list), i \in places, list[i] = x PROVE x \in Members(l)
    <3>1. PICK k \in 1 .. Len(l) : e[k] = i
      BY <1>3, <2>2
    <3>2. l[k] = x
      BY <1>3, <2>2, <3>1
    <3>3. QED
      BY <3>2 DEF Members
  <2>3. QED
    BY <2>1, <2>2
<1>5. QED
  BY <1>1, <1>4 DEF l

\* The Reports a request chooses from, by their level and by what they are part of.
LEMMA CandidatesAre ==
  ASSUME Glob!Assumptions
  PROVE  /\ Reports = Members(ReportTable) /\ ReportTable \in Seq(Reports)
         /\ InReach \subseteq Reports
         /\ Glob!Candidates \in Seq(InReach) /\ Members(Glob!Candidates) = InReach
<1>1. ReportTable \in Seq(Reports)
  BY DEF Glob!Assumptions, Reports
<1>2. Reports = Members(ReportTable)
  BY <1>1, GlobMembers DEF Reports
<1> DEFINE places == {i \in DOMAIN ReportTable : Level[ReportTable[i]] <= CommunityLevel}
           l == Picked(ReportTable, places)
<1>3. Glob!Candidates = l
  BY GlobLists DEF Glob!Candidates
<1>4. DOMAIN ReportTable = 1 .. Len(ReportTable)
  BY <1>1
<1>5. /\ l \in Seq(Reports)
      /\ \A x : x \in Members(l) <=>
                  \E i \in 1 .. Len(ReportTable) : i \in places /\ ReportTable[i] = x
  BY <1>1, PickedMembers
<1> HIDE DEF l
<1>6. \A x : x \in Members(l) <=> x \in InReach
  BY <1>2, <1>4, <1>5 DEF InReach, Members
<1>7. l \in Seq(Members(l)) /\ Members(l) = InReach
  BY <1>5, <1>6, GlobMembers
<1>8. QED
  BY <1>1, <1>2, <1>3, <1>7 DEF InReach

LEMMA SeedsAre ==
  ASSUME Glob!Assumptions, NEW depth
  PROVE  /\ Glob!Seeds(depth) \in Seq(InReach)
         /\ Members(Glob!Seeds(depth)) = {r \in InReach : Level[r] = depth}
<1> DEFINE all == Glob!Candidates
           places == {i \in DOMAIN all : Level[all[i]] = depth}
           l == Picked(all, places)
<1>1. all \in Seq(InReach) /\ Members(all) = InReach
  BY CandidatesAre
<1>2. Glob!Seeds(depth) = l
  BY GlobLists DEF Glob!Seeds
<1> HIDE DEF all
<1>3. DOMAIN all = 1 .. Len(all)
  BY <1>1
<1>4. /\ l \in Seq(InReach)
      /\ \A x : x \in Members(l) <=> \E i \in 1 .. Len(all) : i \in places /\ all[i] = x
  BY <1>1, PickedMembers
<1> HIDE DEF l
<1>5. \A x : x \in Members(l) <=> x \in {r \in InReach : Level[r] = depth}
  BY <1>1, <1>3, <1>4 DEF Members
<1>6. QED
  BY <1>2, <1>4, <1>5

LEMMA ChildrenAre ==
  ASSUME Glob!Assumptions, NEW r
  PROVE  /\ Glob!Children(r) \in Seq(InReach)
         /\ Members(Glob!Children(r)) = {p \in InReach : Parent[p] = r}
<1> DEFINE all == Glob!Candidates
           places == {i \in DOMAIN all : Parent[all[i]] = r}
           l == Picked(all, places)
<1>1. all \in Seq(InReach) /\ Members(all) = InReach
  BY CandidatesAre
<1>2. Glob!Children(r) = l
  BY GlobLists DEF Glob!Children
<1> HIDE DEF all
<1>3. DOMAIN all = 1 .. Len(all)
  BY <1>1
<1>4. /\ l \in Seq(InReach)
      /\ \A x : x \in Members(l) <=> \E i \in 1 .. Len(all) : i \in places /\ all[i] = x
  BY <1>1, PickedMembers
<1> HIDE DEF l
<1>5. \A x : x \in Members(l) <=> x \in {p \in InReach : Parent[p] = r}
  BY <1>1, <1>3, <1>4 DEF Members
<1>6. QED
  BY <1>2, <1>4, <1>5

\* The frontier after one of which these are accepted.
LEMMA NextFrontierIs ==
  ASSUME Glob!Assumptions, NEW acc \in Seq(InReach)
  PROVE  LET front == Glob!Flattened([i \in DOMAIN acc |-> Glob!Children(acc[i])])
         IN  /\ front \in Seq(InReach)
             /\ Members(front) = {p \in InReach : Parent[p] \in Members(acc)}
<1> DEFINE lists == [i \in DOMAIN acc |-> Glob!Children(acc[i])]
           front == Flattened(lists)
<1>1. Len(acc) \in Nat /\ DOMAIN acc = 1 .. Len(acc)
  OBVIOUS
<1>2. \A i \in 1 .. Len(acc) : /\ lists[i] \in Seq(InReach)
                               /\ Members(lists[i]) = {p \in InReach : Parent[p] = acc[i]}
  BY <1>1, ChildrenAre
<1>3. lists \in Seq(Seq(InReach)) /\ Len(lists) = Len(acc)
  BY <1>1, <1>2
<1> HIDE DEF lists
<1>4. front \in Seq(InReach) /\ \A x : Within(x, front) <=> WithinOne(x, lists, Len(lists))
  BY <1>3, FlattenedIs
<1>5. Glob!Flattened(lists) = front
  BY GlobLists
<1> HIDE DEF front
<1>6. \A x : x \in Members(front) <=> x \in {p \in InReach : Parent[p] \in Members(acc)}
  <2>1. ASSUME NEW x PROVE WithinOne(x, lists, Len(lists)) <=> x \in {p \in InReach : Parent[p] \in Members(acc)}
    <3>1. WithinOne(x, lists, Len(lists)) <=> \E i \in 1 .. Len(acc) : x \in Members(lists[i])
      BY <1>3, WithinMembers DEF WithinOne
    <3>2. \A i \in 1 .. Len(acc) : x \in Members(lists[i]) <=> x \in InReach /\ Parent[x] = acc[i]
      BY <1>2
    <3>3. QED
      BY <3>1, <3>2 DEF Members
  <2>2. QED
    BY <1>4, <2>1, WithinMembers
<1>7. Glob!Flattened([i \in DOMAIN acc |-> Glob!Children(acc[i])]) = front
  BY <1>5 DEF lists
<1>8. QED
  BY <1>4, <1>6, <1>7

-----------------------------------------------------------------------------
(* Global: the selection *)

LEMMA GlobalConstants ==
  ASSUME Glob!Assumptions
  PROVE  /\ Level \in [Reports -> Nat] /\ Size \in [Reports -> Nat]
         /\ \A r \in Reports : Parent[r] \in Reports => Level[Parent[r]] < Level[r]
         /\ Ratings \subseteq Int /\ -1 \notin Ratings /\ RatingThreshold \in Nat
         /\ Repeats \in Nat /\ Repeats # 0 /\ MaxLevel \in Nat
         /\ Header \in Nat /\ MaxContextTokens \in Nat /\ DataMaxTokens \in Nat
         /\ \A response \in Responses : response \in Seq(GlobalPoint)
BY DEF Glob!Assumptions, Reports, GlobalPoint

\* The frontier is followed by the parts of what is accepted of it.
LEMMA DescentGoesOn ==
  ASSUME Glob!Assumptions, NEW acc, NEW front, acc \subseteq InReach, front \subseteq InReach,
         NEW lev \in Nat, Descent(acc, front, lev), NEW good, good \subseteq front
  PROVE  Descent(acc \cup good, {p \in InReach : Parent[p] \in good}, lev)
<1> DEFINE next == {p \in InReach : Parent[p] \in good}
<1>1. /\ acc \cap front = {}
      /\ \A r \in acc \cup front : Level[r] >= lev /\ (Level[r] = lev \/ Parent[r] \in acc)
  BY DEF Descent
<1>2. /\ \A r \in InReach : r \in Reports /\ Level[r] \in Nat
      /\ \A r \in Reports : Parent[r] \in Reports => Level[Parent[r]] < Level[r]
  BY GlobalConstants DEF InReach
<1>3. ASSUME NEW r \in next PROVE r \notin acc \cup good
  <2>1. Parent[r] \in front /\ Parent[r] \in Reports /\ Level[Parent[r]] < Level[r] /\ Level[r] \in Nat
        /\ Level[Parent[r]] \in Nat
    BY <1>2
  <2>2. Level[Parent[r]] >= lev /\ Level[r] # lev
    BY <1>1, <2>1
  <2>3. Parent[r] \notin acc
    BY <1>1, <2>1
  <2>4. QED
    BY <1>1, <2>2, <2>3
<1>4. ASSUME NEW r \in (acc \cup good) \cup next
      PROVE  Level[r] >= lev /\ (Level[r] = lev \/ Parent[r] \in acc \cup good)
  <2>1. CASE r \in acc \cup good
    BY <1>1, <2>1
  <2>2. CASE r \in next
    <3>1. Parent[r] \in front /\ Level[Parent[r]] < Level[r] /\ Level[r] \in Nat
          /\ Level[Parent[r]] \in Nat
      BY <1>2, <2>2
    <3>2. Level[Parent[r]] >= lev
      BY <1>1, <3>1
    <3>3. QED
      BY <2>2, <3>1, <3>2
  <2>3. QED
    BY <2>1, <2>2
<1>5. QED
  BY <1>3, <1>4 DEF Descent

LEMMA LookedGoesOn ==
  ASSUME NEW acc, NEW front, NEW lev, NEW rated, Looked(acc, front, lev, rated),
         \A r \in front : rated[r] # Glob!Unrated
  PROVE  LET good == {r \in front : rated[r] >= RatingThreshold}
         IN  Looked(acc \cup good, {p \in InReach : Parent[p] \in good}, lev, rated)
BY DEF Looked

\* What is accepted takes the place of what it is part of.
LEMMA RemainingGoesOn ==
  ASSUME Glob!Assumptions, NEW acc, NEW front, acc \subseteq InReach, front \subseteq InReach,
         NEW lev \in Nat, Descent(acc, front, lev), NEW good, good \subseteq front
  PROVE  LET replaced == IF KeepParent THEN {} ELSE {Parent[r] : r \in good}
         IN  (Remaining(acc) \cup good) \ replaced = Remaining(acc \cup good)
<1>1. /\ acc \cap front = {}
      /\ \A r \in acc \cup front : Level[r] >= lev /\ (Level[r] = lev \/ Parent[r] \in acc)
  BY DEF Descent
<1>2. /\ \A r \in InReach : r \in Reports /\ Level[r] \in Nat
      /\ \A r \in Reports : Parent[r] \in Reports => Level[Parent[r]] < Level[r]
  BY GlobalConstants DEF InReach
<1>3. ASSUME NEW a \in acc, Parent[a] \in good PROVE FALSE
  <2>1. Parent[a] \in front /\ Level[Parent[a]] < Level[a] /\ Level[a] \in Nat
        /\ Level[Parent[a]] \in Nat
    BY <1>2, <1>3
  <2>2. Level[Parent[a]] >= lev
    BY <1>1, <2>1
  <2>3. Parent[a] \in acc
    BY <1>1, <2>1, <2>2
  <2>4. QED
    BY <1>1, <2>1, <2>3
<1>4. CASE KeepParent
  BY <1>4 DEF Remaining
<1>5. CASE ~KeepParent
  BY <1>3, <1>5 DEF Remaining
<1>6. QED
  BY <1>4, <1>5

\* Something is selected once something is accepted.
LEMMA RemainingSome ==
  ASSUME Glob!Assumptions, NEW list \in Seq(InReach), Members(list) # {}
  PROVE  Remaining(Members(list)) # {}
<1> DEFINE acc == Members(list)
           T == {n \in 0 .. Len(list) : \E b \in Nat : \A i \in 1 .. n : Level[list[i]] <= b}
<1>1. /\ Len(list) \in Nat /\ \A i \in 1 .. Len(list) : list[i] \in Reports /\ Level[list[i]] \in Nat
      /\ \A r \in Reports : Parent[r] \in Reports => Level[Parent[r]] < Level[r]
  BY GlobalConstants DEF InReach
<1>2. 0 \in T
  BY <1>1
<1>3. ASSUME NEW n \in 1 .. Len(list), n - 1 \in T PROVE n \in T
  <2>1. PICK b \in Nat : \A i \in 1 .. n - 1 : Level[list[i]] <= b
    BY <1>3
  <2> DEFINE m == b + Level[list[n]]
  <2>2. m \in Nat /\ b <= m /\ Level[list[n]] <= m
    BY <1>1
  <2> HIDE DEF m
  <2>3. ASSUME NEW i \in 1 .. n PROVE Level[list[i]] <= m
    <3>1. i = n \/ i \in 1 .. n - 1
      BY <1>1
    <3>2. i \in 1 .. Len(list)
      BY <1>1
    <3>3. QED
      BY <1>1, <2>1, <2>2, <3>1, <3>2
  <2>4. n \in 0 .. Len(list)
    BY <1>1
  <2>5. QED
    BY <2>2, <2>3, <2>4
<1> HIDE DEF T
<1>4. Len(list) \in T
  <2>1. \A n \in 1 .. Len(list) : n - 1 \in T => n \in T
    BY <1>3
  <2>2. \A n \in 0 .. Len(list) : n \in T
    BY <1>1, <1>2, <2>1, Climb
  <2>3. QED
    BY <1>1, <2>2
<1>5. PICK b \in Nat : \A i \in 1 .. Len(list) : Level[list[i]] <= b
  BY <1>4 DEF T
<1> DEFINE D == {b - Level[r] : r \in acc}
<1>6. \A r \in acc : r \in Reports /\ Level[r] \in Nat /\ Level[r] <= b
  BY <1>1, <1>5 DEF Members
<1> HIDE DEF acc
<1>7. D \subseteq Nat /\ D # {}
  BY <1>6 DEF acc
<1>8. PICK d \in D : \A other \in D : d <= other
  <2> HIDE DEF D
  <2>1. QED
    BY <1>7, Least
<1>9. PICK r \in acc : d = b - Level[r]
  OBVIOUS
<1>10. \A a \in acc : Level[a] <= Level[r]
  <2>1. \A a \in acc : d <= b - Level[a]
    BY <1>8
  <2>2. QED
    BY <1>6, <1>9, <2>1
<1>11. \A a \in acc : Parent[a] # r
  BY <1>1, <1>6, <1>10
<1>12. r \in Remaining(acc)
  BY <1>11 DEF Remaining
<1>13. QED
  BY <1>12 DEF acc

\* A Report of the frontier is rated.
LEMMA LookedRated ==
  ASSUME NEW acc, NEW front, acc \cap front = {}, NEW lev, NEW rated, Looked(acc, front, lev, rated),
         NEW r \in front, NEW new, \A other : other # r => new[other] = rated[other]
  PROVE  Looked(acc, front, lev, new)
BY DEF Looked

\* The next level, when nothing was accepted on those before.
LEMMA LookedBelow ==
  ASSUME Glob!Assumptions, NEW lev \in Nat, NEW rated, Looked({}, {}, lev, rated)
  PROVE  LET front == {r \in InReach : Level[r] = lev + 1}
         IN  Descent({}, front, lev + 1) /\ Looked({}, front, lev + 1, rated)
<1>1. \A r \in InReach : Level[r] \in Nat
  BY GlobalConstants DEF InReach
<1>2. \A r \in InReach : Level[r] <= lev + 1 => Level[r] <= lev \/ Level[r] = lev + 1
  BY <1>1
<1>3. Descent({}, {r \in InReach : Level[r] = lev + 1}, lev + 1)
  BY <1>1 DEF Descent
<1>4. QED
  BY <1>2, <1>3 DEF Looked

LEMMA LookedFirst ==
  ASSUME Glob!Assumptions, NEW rated, \A r \in Reports : rated[r] = Glob!Unrated
  PROVE  LET front == {r \in InReach : Level[r] = 0}
         IN  Descent({}, front, 0) /\ Looked({}, front, 0, rated)
<1>1. \A r \in InReach : r \in Reports /\ Level[r] \in Nat
  BY GlobalConstants DEF InReach
<1>2. \A r \in InReach : ~(rated[r] >= RatingThreshold)
  BY <1>1, GlobalConstants DEF Glob!Unrated
<1>3. \A r \in InReach : Level[r] <= 0 => Level[r] = 0
  BY <1>1
<1>4. Descent({}, {r \in InReach : Level[r] = 0}, 0)
  BY <1>1 DEF Descent
<1>5. QED
  BY <1>2, <1>3, <1>4 DEF Looked

\* A vote is among the ratings.
LEMMA MajorityIs ==
  ASSUME Glob!Assumptions, NEW votes \in [1 .. Repeats -> Ratings]
  PROVE  Glob!MajorityRating(votes) \in Ratings
<1> DEFINE Count(rating) == Glob!Cardinality({i \in DOMAIN votes : votes[i] = rating})
           range == Glob!Range(votes)
           most == {rating \in range : \A other \in range : Count(other) <= Count(rating)}
<1>1. range = {votes[i] : i \in 1 .. Repeats} /\ Repeats \in Nat /\ Repeats # 0
  BY GlobalConstants DEF Glob!Range
<1>2. ASSUME NEW rating PROVE Count(rating) \in Nat /\ Count(rating) <= Repeats
  <2> DEFINE G == {i \in DOMAIN votes : votes[i] = rating}
  <2>1. G \subseteq 1 .. Repeats
    OBVIOUS
  <2> HIDE DEF G
  <2>2. IsFiniteSet(1 .. Repeats) /\ Cardinality(1 .. Repeats) = Repeats
    BY <1>1, UpTo
  <2>3. IsFiniteSet(G) /\ Cardinality(G) <= Repeats /\ Cardinality(G) \in Nat
    BY <1>1, <2>1, <2>2, FS_Subset, FS_CardinalityType
  <2>4. QED
    BY <2>3, GlobCounting DEF G
<1> HIDE DEF Count
<1>3. most # {} /\ most \subseteq Ratings /\ most \subseteq range
  <2> DEFINE D == {Repeats - Count(rating) : rating \in range}
  <2>1. range # {} /\ range \subseteq Ratings
    BY <1>1
  <2>2. D \subseteq Nat /\ D # {}
    BY <1>1, <1>2, <2>1
  <2>3. PICK d \in D : \A other \in D : d <= other
    <3> HIDE DEF D
    <3>1. QED
      BY <2>2, Least
  <2>4. PICK rating \in range : d = Repeats - Count(rating)
    OBVIOUS
  <2>5. \A other \in range : d <= Repeats - Count(other)
    BY <2>3
  <2>6. \A other \in range : Count(other) <= Count(rating)
    BY <1>1, <1>2, <2>4, <2>5
  <2>7. QED
    BY <2>1, <2>6
<1>4. \E rating \in most : \A other \in most : rating <= other
  <2> DEFINE First(n) == \E m \in 1 .. n : votes[m] \in most /\ \A k \in 1 .. n : votes[k] \in most => votes[m] <= votes[k]
             T == {n \in 0 .. Repeats : (\E m \in 1 .. n : votes[m] \in most) => First(n)}
  <2> HIDE DEF most, range
  <2>1. 0 \in T
    BY <1>1
  <2>2. ASSUME NEW n \in 1 .. Repeats, n - 1 \in T PROVE n \in T
    <3>1. /\ \A k : k \in 1 .. n <=> k \in 1 .. n - 1 \/ k = n
          /\ n \in 0 .. Repeats /\ n \in 1 .. n
          /\ \A k \in 1 .. n : votes[k] \in Int
      <4>1. \A k \in 1 .. n : k \in 1 .. Repeats
        BY <1>1
      <4>2. \A k \in 1 .. Repeats : votes[k] \in Ratings
        OBVIOUS
      <4>3. QED
        BY <1>1, <4>1, <4>2, GlobalConstants
    <3>2. SUFFICES ASSUME \E m \in 1 .. n : votes[m] \in most PROVE First(n)
      BY <3>1
    <3>3. CASE votes[n] \notin most
      <4>1. \E m \in 1 .. n - 1 : votes[m] \in most
        BY <3>1, <3>2, <3>3
      <4>2. First(n - 1)
        BY <2>2, <4>1
      <4>3. QED
        BY <3>1, <3>3, <4>2
    <3>4. CASE votes[n] \in most /\ ~\E m \in 1 .. n - 1 : votes[m] \in most
      BY <3>1, <3>4
    <3>5. CASE votes[n] \in most /\ \E m \in 1 .. n - 1 : votes[m] \in most
      <4>1. PICK m \in 1 .. n - 1 : votes[m] \in most /\ \A k \in 1 .. n - 1 : votes[k] \in most => votes[m] <= votes[k]
        BY <2>2, <3>5
      <4>2. m \in 1 .. n /\ votes[m] \in Int /\ votes[n] \in Int
        BY <3>1, <4>1
      <4>3. CASE votes[m] <= votes[n]
        BY <3>1, <4>1, <4>2, <4>3
      <4>4. CASE ~(votes[m] <= votes[n])
        <5>1. \A k \in 1 .. n : votes[k] \in most => votes[n] <= votes[k]
          BY <3>1, <4>1, <4>2, <4>4
        <5>2. QED
          BY <3>1, <3>5, <5>1
      <4>5. QED
        BY <4>3, <4>4
    <3>6. QED
      BY <3>3, <3>4, <3>5
  <2> HIDE DEF T
  <2>3. Repeats \in T
    BY <1>1, <2>1, <2>2, Climb
  <2>4. \E m \in 1 .. Repeats : votes[m] \in most
    BY <1>1, <1>3
  <2>5. First(Repeats)
    BY <2>3, <2>4 DEF T
  <2>6. \A other \in most : \E k \in 1 .. Repeats : votes[k] = other
    BY <1>1, <1>3
  <2>7. QED
    BY <2>5, <2>6
<1>5. (CHOOSE rating \in most : \A other \in most : rating <= other) \in most
  <2> HIDE DEF most
  <2>1. QED
    BY <1>4
<1>6. Glob!MajorityRating(votes) = CHOOSE rating \in most : \A other \in most : rating <= other
  BY DEF Glob!MajorityRating, Count
<1>7. QED
  BY <1>3, <1>5, <1>6

LEMMA MappingKept ==
  ASSUME UNCHANGED <<order, kept, chunks, results>>
  PROVE  Mapping' <=> Mapping
BY DEF Mapping, Glob!Selection

LEMMA TraversalKept ==
  ASSUME UNCHANGED <<order, kept, level, ratings>>, NEW front
  PROVE  Traversal(front)' <=> Traversal(front)
BY DEF Traversal

LEMMA GlobalStarts ==
  ASSUME Glob!Assumptions, Glob!Init
  PROVE  GlobalInv
<1>1. Reports = Glob!ToSet(ReportTable)
  BY DEF Reports
<1>2. MaxLevel \in Nat
  BY GlobalConstants
<1>3. GlobalTyped
  <2>1. kept \subseteq Members(order)
    BY DEF Glob!Init
  <2>2. ratings \in [Reports -> Ratings \cup {Glob!Unrated}]
    BY <1>1 DEF Glob!Init
  <2>3. frontier \in Seq(InReach) /\ order \in Seq(InReach)
    BY DEF Glob!Init
  <2>4. level \in 0 .. MaxLevel
    BY <1>2 DEF Glob!Init
  <2>5. QED
    BY <2>1, <2>2, <2>3, <2>4 DEF Glob!Init, GlobalTyped
<1>4. GlobalSelection
  BY <1>1 DEF Glob!Init, GlobalSelection, AllUnrated
<1>5. GlobalMapping
  BY DEF Glob!Init, GlobalMapping, Late
<1>6. GlobalAnswer
  BY DEF Glob!Init, GlobalAnswer, ScopeTraced
<1>7. QED
  BY <1>3, <1>4, <1>5, <1>6 DEF GlobalInv

LEMMA GlobalStutters ==
  ASSUME GlobalInv, UNCHANGED globalVars
  PROVE  GlobalInv'
<1>1. /\ at' = at /\ reply' = reply /\ left' = left /\ level' = level /\ frontier' = frontier
      /\ ratings' = ratings /\ order' = order /\ kept' = kept /\ chunks' = chunks
      /\ results' = results /\ reduced' = reduced /\ cut' = cut /\ scope' = scope
      /\ resolved' = resolved
  BY DEF globalVars
<1>2. GlobalTyped' /\ GlobalSelection'
  BY <1>1 DEF GlobalInv, GlobalTyped, GlobalSelection, Traversal, AllUnrated
<1>3. GlobalMapping' /\ GlobalAnswer'
  BY <1>1, MappingKept DEF GlobalInv, GlobalMapping, GlobalAnswer, Ranked, Best, Glob!Positive, ScopeTraced, Glob!Table
<1>4. QED
  BY <1>2, <1>3 DEF GlobalInv

\* Until the context is built there is nothing but a selection.
LEMMA GlobalEarly ==
  ASSUME GlobalTyped', GlobalSelection', at' \in {"start", "select", "context", "done"},
         chunks' = <<>>, results' = <<>>, reduced' = <<>>, scope' = {}, resolved' = {}
  PROVE  GlobalInv'
<1>1. GlobalMapping'
  BY DEF GlobalMapping, Late
<1>2. GlobalAnswer'
  BY DEF GlobalAnswer, ScopeTraced
<1>3. QED
  BY <1>1, <1>2 DEF GlobalInv

LEMMA EarlyIs ==
  ASSUME GlobalInv, at \in {"start", "select", "context"}
  PROVE  chunks = <<>> /\ results = <<>> /\ reduced = <<>> /\ scope = {} /\ resolved = {}
BY DEF GlobalInv, GlobalMapping, GlobalAnswer, Late

\* The context of the caller, and the end of a request, change nothing else.
LEMMA GlobalGoesOn ==
  ASSUME GlobalInv, at # "done", at' \in {at, "done"}, left' \in BOOLEAN,
         reply' \in {"none", "answered", "no data", "failed"},
         UNCHANGED <<level, frontier, ratings, order, kept, chunks, results, reduced, cut, scope,
                     resolved>>
  PROVE  GlobalInv'
<1>1. GlobalTyped'
  BY DEF GlobalInv, GlobalTyped
<1>2. GlobalSelection'
  <2>1. /\ at' \in {at, "done"} /\ UNCHANGED <<level, frontier, ratings, order, kept>>
    OBVIOUS
  <2>2. QED
    BY <2>1 DEF GlobalInv, GlobalSelection, Traversal, AllUnrated
<1>3. GlobalMapping'
  BY MappingKept DEF GlobalInv, GlobalMapping, Late
<1>4. GlobalAnswer'
  <2>1. GlobalAnswer
    BY DEF GlobalInv
  <2>2. /\ Mapping' <=> Mapping
        /\ reduced' = reduced /\ scope' = scope /\ resolved' = resolved
    BY MappingKept
  <2>3. \A i \in 1 .. Len(reduced') : Ranked(reduced[i])'
    BY <2>1 DEF GlobalAnswer, Ranked
  <2>4. at' = "reduce" => Best'
    BY <2>1 DEF GlobalAnswer, Best, Glob!Positive
  <2>5. scope' \subseteq Glob!Table' /\ ScopeTraced'
    BY <2>1 DEF GlobalAnswer, ScopeTraced, Glob!Table
  <2>6. /\ at' \in {"start", "select", "context", "map", "mapped"} => reduced' = <<>>
        /\ at' # "done" => scope' = {} /\ resolved' = {}
    BY <2>1, <2>2 DEF GlobalAnswer
  <2>7. /\ reduced' \in Seq(Found) /\ (reduced' = <<>> \/ Mapping')
        /\ \A item \in resolved' : Glob!Cardinality(item.reports) <= 1
    BY <2>1, <2>2 DEF GlobalAnswer
  <2>8. QED
    BY <2>2, <2>3, <2>4, <2>5, <2>6, <2>7 DEF GlobalAnswer
<1>5. QED
  BY <1>1, <1>2, <1>3, <1>4 DEF GlobalInv

LEMMA GlobalCallerLeaves ==
  ASSUME GlobalInv, Glob!CallerLeaves
  PROVE  GlobalInv'
<1>1. /\ at # "done" /\ at' = at /\ left' = TRUE /\ reply' = reply
      /\ UNCHANGED <<level, frontier, ratings, order, kept, chunks, results, reduced, cut, scope,
                     resolved>>
  BY DEF Glob!CallerLeaves, Glob!selectionVars, Glob!reduceVars, Glob!auditVars
<1>2. reply' \in {"none", "answered", "no data", "failed"}
  BY <1>1 DEF GlobalInv, GlobalTyped
<1>3. QED
  BY <1>1, <1>2, GlobalGoesOn

LEMMA GlobalFails ==
  ASSUME GlobalInv, Glob!StepFails \/ Glob!MapStops
  PROVE  GlobalInv'
<1>1. /\ at # "done" /\ at' = "done" /\ left' = left /\ reply' = "failed"
      /\ UNCHANGED <<level, frontier, ratings, order, kept, chunks, results, reduced, cut, scope,
                     resolved>>
  BY DEF Glob!StepFails, Glob!MapStops, Glob!Fail, Glob!selectionVars, Glob!reduceVars, Glob!auditVars
<1>2. left' \in BOOLEAN
  BY <1>1 DEF GlobalInv, GlobalTyped
<1>3. QED
  BY <1>1, <1>2, GlobalGoesOn

LEMMA GlobalBegin ==
  ASSUME Glob!Assumptions, GlobalInv, Glob!Begin
  PROVE  GlobalInv'
<1>1. /\ at = "start" /\ order = <<>> /\ kept = {} /\ level = 0 /\ AllUnrated
      /\ UNCHANGED <<reply, left, level, ratings, chunks, results, reduced, cut, scope, resolved>>
      /\ GlobalTyped
  BY DEF Glob!Begin, GlobalInv, GlobalSelection, Glob!reduceVars, Glob!auditVars
<1>2. chunks' = <<>> /\ results' = <<>> /\ reduced' = <<>> /\ scope' = {} /\ resolved' = {}
  BY <1>1, EarlyIs
<1>3. CASE at' = "select" /\ frontier' = Glob!Seeds(0) /\ UNCHANGED <<order, kept>>
  <2> DEFINE front == Glob!Seeds(0)
  <2>1. front \in Seq(InReach) /\ Members(front) = {r \in InReach : Level[r] = 0}
    BY SeedsAre
  <2> HIDE DEF front
  <2>2. frontier' = front /\ order' = <<>> /\ kept' = {} /\ level' = 0 /\ ratings' = ratings
    BY <1>1, <1>3 DEF front
  <2>3. GlobalTyped'
    BY <1>1, <1>3, <2>1, <2>2 DEF GlobalTyped
  <2>4. Members(<<>>) = {}
    BY DEF Members
  <2>5. Descent({}, Members(front), 0) /\ Looked({}, Members(front), 0, ratings)
    BY <1>1, <2>1, LookedFirst DEF AllUnrated
  <2>6. Remaining({}) = {}
    BY DEF Remaining
  <2>7. GlobalSelection'
    BY <1>3, <2>2, <2>4, <2>5, <2>6 DEF GlobalSelection, Traversal
  <2>8. QED
    BY <1>2, <1>3, <2>3, <2>7, GlobalEarly
<1>4. CASE at' = "context" /\ order' = Glob!Candidates /\ kept' = Glob!ToSet(Glob!Candidates) /\ frontier' = frontier
  <2> DEFINE all == Glob!Candidates
  <2>1. all \in Seq(InReach)
    BY CandidatesAre
  <2>2. Glob!ToSet(all) = Members(all)
    BY <2>1, GlobMembers
  <2>3. order' = all /\ kept' = Members(all)
    BY <1>4, <2>2
  <2> HIDE DEF all
  <2>4. GlobalTyped'
    BY <1>1, <1>4, <2>1, <2>3 DEF GlobalTyped
  <2>5. GlobalSelection'
    BY <1>1, <1>4 DEF GlobalSelection, AllUnrated
  <2>6. QED
    BY <1>2, <1>4, <2>4, <2>5, GlobalEarly
<1>5. QED
  BY <1>3, <1>4 DEF Glob!Begin

\* The traversal of the hierarchy.
LEMMA Selecting ==
  ASSUME Glob!Assumptions, GlobalInv, at = "select"
  PROVE  /\ frontier \in Seq(InReach) /\ order \in Seq(InReach) /\ level \in 0 .. MaxLevel
         /\ MaxLevel \in Nat /\ level \in Nat
         /\ Members(frontier) \subseteq InReach /\ Members(order) \subseteq InReach
         /\ Descent(Members(order), Members(frontier), level)
         /\ Looked(Members(order), Members(frontier), level, ratings)
         /\ kept = Remaining(Members(order))
         /\ ratings \in [Reports -> Ratings \cup {Glob!Unrated}]
<1>1. GlobalTyped /\ Traversal(Members(frontier)) /\ MaxLevel \in Nat
  BY GlobalConstants DEF GlobalInv, GlobalSelection
<1>2. frontier \in Seq(InReach) /\ order \in Seq(InReach) /\ level \in 0 .. MaxLevel
  BY <1>1 DEF GlobalTyped
<1>3. Members(frontier) \subseteq InReach /\ Members(order) \subseteq InReach
  BY <1>2, GlobMembers
<1>4. level \in Nat
  BY <1>1, <1>2
<1>5. QED
  BY <1>1, <1>2, <1>3, <1>4 DEF Traversal, GlobalTyped

LEMMA GlobalRateReport ==
  ASSUME Glob!Assumptions, GlobalInv, Glob!RateReport
  PROVE  GlobalInv'
<1>1. /\ at = "select" /\ at' = "select"
      /\ UNCHANGED <<reply, left, level, frontier, order, kept, chunks, results, reduced, cut, scope,
                     resolved>>
  BY DEF Glob!RateReport, Glob!reduceVars, Glob!auditVars
<1>2. chunks' = <<>> /\ results' = <<>> /\ reduced' = <<>> /\ scope' = {} /\ resolved' = {}
  BY <1>1, EarlyIs
<1>3. PICK i \in Glob!Running(Len(frontier), Glob!Rated), votes \in [1 .. Repeats -> Ratings] :
        ratings' = [ratings EXCEPT ![frontier[i]] = Glob!MajorityRating(votes)]
  BY DEF Glob!RateReport
<1> DEFINE r == frontier[i]
           vote == Glob!MajorityRating(votes)
<1>4. i \in 1 .. Len(frontier)
  BY DEF Glob!Running
<1>5. r \in Members(frontier) /\ vote \in Ratings
  BY <1>4, MajorityIs DEF Members
<1> HIDE DEF r, vote
<1>6. /\ Members(frontier) \subseteq InReach /\ Descent(Members(order), Members(frontier), level)
      /\ Looked(Members(order), Members(frontier), level, ratings)
      /\ kept = Remaining(Members(order)) /\ ratings \in [Reports -> Ratings \cup {Glob!Unrated}]
  BY <1>1, Selecting
<1>7. ratings' = [ratings EXCEPT ![r] = vote]
  BY <1>3 DEF r, vote
<1>8. ratings' \in [Reports -> Ratings \cup {Glob!Unrated}]
  BY <1>5, <1>6, <1>7
<1>9. \A other : other # r => ratings'[other] = ratings[other]
  <2>1. ASSUME NEW other, other # r PROVE ratings'[other] = ratings[other]
    BY <1>6, <1>7, <2>1
  <2>2. QED
    BY <2>1
<1>10. Looked(Members(order), Members(frontier), level, ratings')
  <2>1. Members(order) \cap Members(frontier) = {}
    BY <1>6 DEF Descent
  <2>2. QED
    BY <1>5, <1>6, <1>9, <2>1, LookedRated
<1>11. GlobalTyped'
  BY <1>1, <1>8 DEF GlobalInv, GlobalTyped
<1>12. GlobalSelection'
  BY <1>1, <1>6, <1>10 DEF GlobalSelection, Traversal
<1>13. QED
  BY <1>1, <1>2, <1>11, <1>12, GlobalEarly

LEMMA GlobalFrontierEnds ==
  ASSUME Glob!Assumptions, GlobalInv, Glob!FrontierEnds
  PROVE  GlobalInv'
<1> DEFINE places == {i \in DOMAIN frontier : ratings[frontier[i]] >= RatingThreshold}
           acc == Picked(frontier, places)
           next == Glob!Flattened([i \in DOMAIN acc |-> Glob!Children(acc[i])])
           A == Members(order)
           F == Members(frontier)
           good == {r \in F : ratings[r] >= RatingThreshold}
<1>1. /\ at = "select" /\ at' = "select" /\ Glob!Rated = DOMAIN frontier
      /\ UNCHANGED <<reply, left, level, ratings, chunks, results, reduced, cut, scope, resolved>>
  BY DEF Glob!FrontierEnds, Glob!reduceVars, Glob!auditVars
<1>2. order' = order \o acc /\ kept' = (kept \cup Glob!ToSet(acc)) \ Glob!Replaced(acc) /\ frontier' = next
  BY GlobLists DEF Glob!FrontierEnds
<1>3. chunks' = <<>> /\ results' = <<>> /\ reduced' = <<>> /\ scope' = {} /\ resolved' = {}
  BY <1>1, EarlyIs
<1>4. /\ frontier \in Seq(InReach) /\ order \in Seq(InReach) /\ level \in Nat
      /\ F \subseteq InReach /\ A \subseteq InReach
      /\ Descent(A, F, level) /\ Looked(A, F, level, ratings) /\ kept = Remaining(A)
      /\ DOMAIN frontier = 1 .. Len(frontier)
  BY <1>1, Selecting
<1>5. acc \in Seq(InReach) /\ Members(acc) = good /\ Glob!ToSet(acc) = good
  <2>1. /\ acc \in Seq(InReach)
        /\ \A x : x \in Members(acc) <=> \E i \in 1 .. Len(frontier) : i \in places /\ frontier[i] = x
    BY <1>4, PickedMembers
  <2> HIDE DEF acc
  <2>2. \A x : x \in Members(acc) <=> x \in good
    BY <1>4, <2>1 DEF Members
  <2>3. QED
    BY <2>1, <2>2, GlobMembers
<1> HIDE DEF acc
<1>6. next \in Seq(InReach) /\ Members(next) = {p \in InReach : Parent[p] \in good}
  BY <1>5, NextFrontierIs
<1> HIDE DEF next
<1>7. \A r \in F : ratings[r] # Glob!Unrated
  BY <1>1, <1>4 DEF Glob!Rated, Members
<1>8. order' \in Seq(InReach) /\ Members(order') = A \cup good
  <2>1. order \o acc \in Seq(InReach)
    BY <1>4, <1>5
  <2>2. \A x : Within(x, order \o acc) <=> Within(x, order) \/ Within(x, acc)
    BY <1>4, <1>5, WithinJoined
  <2>3. \A x : x \in Members(order \o acc) <=> x \in A \/ x \in Members(acc)
    BY <2>2, WithinMembers
  <2>4. QED
    BY <1>2, <1>5, <2>1, <2>3
<1>9. kept' = Remaining(A \cup good)
  <2> DEFINE replaced == IF KeepParent THEN {} ELSE {Parent[r] : r \in good}
  <2>1. Glob!Replaced(acc) = replaced
    BY <1>5 DEF Glob!Replaced
  <2>2. good \subseteq F
    OBVIOUS
  <2> HIDE DEF good, A, F
  <2>3. (Remaining(A) \cup good) \ replaced = Remaining(A \cup good)
    BY <1>4, <2>2, RemainingGoesOn
  <2>4. QED
    BY <1>2, <1>4, <1>5, <2>1, <2>3
<1>10. Descent(A \cup good, Members(next), level)
  <2>1. good \subseteq F
    OBVIOUS
  <2> HIDE DEF good, A, F
  <2>2. Descent(A \cup good, {p \in InReach : Parent[p] \in good}, level)
    BY <1>4, <2>1, DescentGoesOn
  <2>3. QED
    BY <1>6, <2>2
<1>11. Looked(A \cup good, Members(next), level, ratings)
  <2> HIDE DEF A, F
  <2>1. QED
    BY <1>4, <1>6, <1>7, LookedGoesOn
<1> HIDE DEF good, A, F
<1>12. Remaining(A \cup good) \subseteq A \cup good
  BY DEF Remaining
<1>13. GlobalTyped'
  BY <1>1, <1>2, <1>6, <1>8, <1>9, <1>12 DEF GlobalInv, GlobalTyped
<1>14. GlobalSelection'
  <2>1. Traversal(Members(frontier))'
    BY <1>1, <1>2, <1>8, <1>9, <1>10, <1>11 DEF Traversal
  <2>2. QED
    BY <1>1, <2>1 DEF GlobalSelection
<1>15. QED
  BY <1>1, <1>3, <1>13, <1>14, GlobalEarly

LEMMA GlobalLevelEnds ==
  ASSUME Glob!Assumptions, GlobalInv, Glob!LevelEnds
  PROVE  GlobalInv'
<1> DEFINE A == Members(order)
<1>1. /\ at = "select" /\ frontier = <<>>
      /\ UNCHANGED <<reply, left, ratings, order, kept, chunks, results, reduced, cut, scope, resolved>>
  BY DEF Glob!LevelEnds, Glob!reduceVars, Glob!auditVars
<1>2. chunks' = <<>> /\ results' = <<>> /\ reduced' = <<>> /\ scope' = {} /\ resolved' = {}
  BY <1>1, EarlyIs
<1>3. Members(frontier) = {}
  BY <1>1 DEF Members
<1>4. /\ order \in Seq(InReach) /\ level \in 0 .. MaxLevel /\ MaxLevel \in Nat /\ level \in Nat
      /\ Descent(A, {}, level) /\ Looked(A, {}, level, ratings) /\ kept = Remaining(A)
  BY <1>1, <1>3, Selecting
<1>5. CASE kept = {} /\ level < MaxLevel
  <2> DEFINE front == Glob!Seeds(level + 1)
  <2>1. /\ level' = level + 1 /\ frontier' = front /\ at' = "select"
    BY <1>1, <1>5 DEF Glob!LevelEnds
  <2>2. front \in Seq(InReach) /\ Members(front) = {r \in InReach : Level[r] = level + 1}
    BY SeedsAre
  <2> HIDE DEF front
  <2>3. A = {}
    BY <1>4, <1>5, RemainingSome
  <2>4. Descent({}, Members(front), level + 1) /\ Looked({}, Members(front), level + 1, ratings)
    BY <1>4, <2>2, <2>3, LookedBelow
  <2>5. level + 1 \in 0 .. MaxLevel
    BY <1>4, <1>5
  <2>6. GlobalTyped'
    BY <1>1, <2>1, <2>2, <2>5 DEF GlobalInv, GlobalTyped
  <2>7. Traversal(Members(frontier))'
    BY <1>1, <1>4, <2>1, <2>3, <2>4 DEF Traversal
  <2>8. GlobalSelection'
    BY <2>1, <2>7 DEF GlobalSelection
  <2>9. QED
    BY <1>2, <2>1, <2>6, <2>8, GlobalEarly
<1>6. CASE ~(kept = {} /\ level < MaxLevel)
  <2>1. level' = level /\ frontier' = frontier /\ at' = "context"
    BY <1>1, <1>6 DEF Glob!LevelEnds
  <2>2. kept = {} => level >= MaxLevel
    BY <1>4, <1>6
  <2>3. GlobalTyped'
    BY <1>1, <2>1 DEF GlobalInv, GlobalTyped
  <2>4. Traversal({})'
    BY <1>1, <1>4, <2>1 DEF Traversal
  <2>5. GlobalSelection'
    BY <1>1, <2>1, <2>2, <2>4 DEF GlobalSelection
  <2>6. QED
    BY <1>2, <2>1, <2>3, <2>5, GlobalEarly
<1>7. QED
  BY <1>5, <1>6

-----------------------------------------------------------------------------
(* Global: the chunks *)

LEMMA AppendedIs ==
  ASSUME NEW S, NEW s \in Seq(S), NEW x \in S
  PROVE  /\ Append(s, x) \in Seq(S) /\ Len(Append(s, x)) = Len(s) + 1
         /\ Append(s, x)[Len(s) + 1] = x /\ Len(s) \in Nat
         /\ \A i \in 1 .. Len(s) : i \in 1 .. Len(s) + 1 /\ Append(s, x)[i] = s[i]
         /\ \A i : i \in 1 .. Len(s) + 1 <=> i \in 1 .. Len(s) \/ i = Len(s) + 1
<1>1. Len(s) \in Nat
  OBVIOUS
<1>2. Append(s, x) \in Seq(S) /\ Len(Append(s, x)) = Len(s) + 1
  OBVIOUS
<1>3. \A i \in 1 .. Len(s) : i \in 1 .. Len(s) + 1 /\ Append(s, x)[i] = s[i]
  OBVIOUS
<1>4. Append(s, x)[Len(s) + 1] = x
  OBVIOUS
<1>5. QED
  BY <1>1, <1>2, <1>3, <1>4

LEMMA WithinMore ==
  ASSUME NEW S, NEW s \in Seq(S), NEW x \in S, NEW y
  PROVE  Within(y, Append(s, x)) <=> Within(y, s) \/ y = x
<1> DEFINE t == Append(s, x)
<1>1. /\ Len(t) = Len(s) + 1 /\ t[Len(s) + 1] = x
      /\ \A i \in 1 .. Len(s) : i \in 1 .. Len(s) + 1 /\ t[i] = s[i]
      /\ \A i : i \in 1 .. Len(s) + 1 <=> i \in 1 .. Len(s) \/ i = Len(s) + 1
  BY AppendedIs
<1> HIDE DEF t
<1>2. QED
  BY <1>1 DEF Within, t

LEMMA ValuedMore ==
  ASSUME NEW S, NEW v \in [S -> Nat], NEW s \in Seq(S), NEW x \in S
  PROVE  Summed(Valued(v, Append(s, x))) = Summed(Valued(v, s)) + v[x]
<1> DEFINE t == Append(s, x)
           vs == Valued(v, s)
           vt == Valued(v, t)
           w == Append(vs, v[x])
<1>1. /\ t \in Seq(S) /\ Len(t) = Len(s) + 1 /\ t[Len(s) + 1] = x /\ Len(s) \in Nat
      /\ \A i \in 1 .. Len(s) : i \in 1 .. Len(s) + 1 /\ t[i] = s[i]
      /\ \A i : i \in 1 .. Len(s) + 1 <=> i \in 1 .. Len(s) \/ i = Len(s) + 1
  BY AppendedIs
<1> HIDE DEF t
<1>2. ValuedAs(v, s, vs) /\ ValuedAs(v, t, vt) /\ v[x] \in Nat
  BY <1>1, ValuedIs
<1>3. /\ vs \in Seq(Nat) /\ Len(vs) = Len(s) /\ \A i \in 1 .. Len(s) : vs[i] = v[s[i]]
      /\ vt \in Seq(Nat) /\ Len(vt) = Len(t) /\ \A i \in 1 .. Len(t) : vt[i] = v[t[i]]
      /\ v[x] \in Nat
  BY <1>2 DEF ValuedAs
<1> HIDE DEF vs, vt
<1>4. /\ w \in Seq(Nat) /\ Len(w) = Len(s) + 1 /\ w[Len(s) + 1] = v[x]
      /\ \A i \in 1 .. Len(s) : w[i] = vs[i]
  BY <1>1, <1>3
<1>5. Summed(w) = Summed(vs) + v[x]
  BY <1>3, SummedMore
<1> HIDE DEF w
<1>6. vt = w
  <2>1. ASSUME NEW i \in 1 .. Len(s) + 1 PROVE vt[i] = w[i]
    <3>1. CASE i \in 1 .. Len(s)
      <4>1. vt[i] = v[t[i]] /\ t[i] = s[i] /\ w[i] = vs[i] /\ vs[i] = v[s[i]]
        BY <1>1, <1>3, <1>4, <3>1
      <4>2. QED
        BY <4>1
    <3>2. CASE i = Len(s) + 1
      <4>1. i \in 1 .. Len(t) /\ t[i] = x /\ w[i] = v[x]
        BY <1>1, <1>4, <3>2
      <4>2. vt[i] = v[t[i]]
        BY <1>3, <4>1
      <4>3. QED
        BY <4>1, <4>2
    <3>3. QED
      BY <1>1, <3>1, <3>2
  <2>2. QED
    BY <1>1, <1>3, <1>4, <2>1, SeqEqual
<1>7. QED
  BY <1>5, <1>6 DEF vs, vt, t

\* A batch is closed.
LEMMA ClosedMore ==
  ASSUME NEW S, NEW lists \in Seq(Seq(S)), NEW batch \in Seq(S)
  PROVE  /\ Append(lists, batch) \in Seq(Seq(S))
         /\ \A x : WithinOne(x, Append(lists, batch), Len(Append(lists, batch))) <=>
                     WithinOne(x, lists, Len(lists)) \/ Within(x, batch)
         /\ Summed(LengthsOf(Append(lists, batch))) = Summed(LengthsOf(lists)) + Len(batch)
<1> DEFINE X == Seq(S)
           t == Append(lists, batch)
           ls == LengthsOf(lists)
           lt == LengthsOf(t)
           w == Append(ls, Len(batch))
<1>1. \A one \in X : Len(one) \in Nat
  OBVIOUS
<1> HIDE DEF X
<1>2. /\ t \in Seq(X) /\ Len(t) = Len(lists) + 1 /\ t[Len(lists) + 1] = batch /\ Len(lists) \in Nat
      /\ \A i \in 1 .. Len(lists) : i \in 1 .. Len(lists) + 1 /\ t[i] = lists[i]
      /\ \A i : i \in 1 .. Len(lists) + 1 <=> i \in 1 .. Len(lists) \/ i = Len(lists) + 1
  BY AppendedIs DEF X
<1> HIDE DEF t
<1>3. /\ \A i \in 1 .. Len(lists) : lists[i] \in X /\ Len(lists[i]) \in Nat
      /\ batch \in X /\ Len(batch) \in Nat
  BY <1>1, <1>2 DEF X
<1>4. \A i \in 1 .. Len(t) : t[i] \in X /\ Len(t[i]) \in Nat
  BY <1>2, <1>3
<1>5. /\ ls \in Seq(Nat) /\ Len(ls) = Len(lists) /\ \A i \in 1 .. Len(lists) : ls[i] = Len(lists[i])
  BY <1>2, <1>3 DEF LengthsOf
<1>6. /\ lt \in Seq(Nat) /\ Len(lt) = Len(t) /\ \A i \in 1 .. Len(t) : lt[i] = Len(t[i])
  BY <1>2, <1>4 DEF LengthsOf
<1> HIDE DEF ls, lt
<1>7. /\ w \in Seq(Nat) /\ Len(w) = Len(lists) + 1 /\ w[Len(lists) + 1] = Len(batch)
      /\ \A i \in 1 .. Len(lists) : w[i] = ls[i]
  BY <1>2, <1>3, <1>5
<1>8. Summed(w) = Summed(ls) + Len(batch)
  BY <1>3, <1>5, SummedMore
<1> HIDE DEF w
<1>9. lt = w
  <2>1. \A i \in 1 .. Len(lists) + 1 : lt[i] = w[i]
    BY <1>2, <1>5, <1>6, <1>7
  <2>2. QED
    BY <1>2, <1>6, <1>7, <2>1, SeqEqual
<1>10. \A x : WithinOne(x, t, Len(t)) <=> WithinOne(x, lists, Len(lists)) \/ Within(x, batch)
  BY <1>2 DEF WithinOne
<1>11. QED
  BY <1>2, <1>8, <1>9, <1>10 DEF ls, lt, t, X

Batching == [closed : Seq(Seq(Row)), rows : Seq(Row), tokens : Nat]

NoBatch == [closed |-> <<>>, rows |-> <<>>, tokens |-> Header]

IsBatching(f, list) ==
  f = [n \in 0 .. Len(list) |-> IF n = 0 THEN NoBatch ELSE Glob!AddRow(f[n - 1], list[n])]

BatchingOf(list, f) ==
  /\ f[0] = NoBatch
  /\ LET last == f[Len(list)]
     IN  Glob!RowBatches(list) = IF last.rows = <<>> THEN last.closed ELSE Append(last.closed, last.rows)
  /\ \A n \in 1 .. Len(list) : f[n] = Glob!AddRow(f[n - 1], list[n])
  /\ \A n \in 0 .. Len(list) : f[n] \in Batching

\* What a pass makes of the batches before it.
AddedRow(before, row, after) ==
  IF before.tokens + Size[row.report] > MaxContextTokens
    THEN /\ after.closed = IF before.rows = <<>> THEN before.closed ELSE Append(before.closed, before.rows)
         /\ after.rows = Append(<<>>, row) /\ after.tokens = Header + Size[row.report]
    ELSE /\ after.closed = before.closed /\ after.rows = Append(before.rows, row)
         /\ after.tokens = before.tokens + Size[row.report]

LEMMA AddRowIs ==
  ASSUME Glob!Assumptions, NEW before \in Batching, NEW row \in Row
  PROVE  LET after == Glob!AddRow(before, row)
         IN  after \in Batching /\ AddedRow(before, row, after)
<1> DEFINE size == Size[row.report]
           closed == IF before.rows = <<>> THEN before.closed ELSE Append(before.closed, before.rows)
           opened == [closed |-> closed, rows |-> <<row>>, tokens |-> Header + size]
           longer == [before EXCEPT !.rows = Append(before.rows, row), !.tokens = before.tokens + size]
           X == Seq(Row)
<1>1. size \in Nat /\ Header \in Nat
  BY GlobalConstants DEF Row
<1>2. before.closed \in Seq(X) /\ before.rows \in X /\ before.tokens \in Nat
  BY DEF Batching
<1>3. Append(before.rows, row) \in X /\ <<row>> \in X /\ <<row>> = Append(<<>>, row)
  BY <1>2
<1> HIDE DEF X
<1>4. closed \in Seq(X)
  BY <1>2
<1>5. Glob!AddRow(before, row) = IF before.tokens + size > MaxContextTokens THEN opened ELSE longer
  BY DEF Glob!AddRow
<1> HIDE DEF size, closed
<1>6. opened \in Batching
  BY <1>1, <1>3, <1>4 DEF Batching, X
<1>7. longer \in Batching
  <2> DEFINE sum == before.tokens + size
             more == Append(before.rows, row)
  <2>1. sum \in Nat /\ more \in X
    BY <1>1, <1>2, <1>3
  <2> HIDE DEF sum, more
  <2>2. [before EXCEPT !.rows = more, !.tokens = sum] \in Batching
    BY <2>1 DEF Batching, X
  <2>3. QED
    BY <2>2 DEF sum, more
<1>8. /\ opened.closed = closed /\ opened.rows = <<row>> /\ opened.tokens = Header + size
      /\ longer.closed = before.closed /\ longer.rows = Append(before.rows, row)
      /\ longer.tokens = before.tokens + size
  BY DEF Batching
<1> HIDE DEF opened, longer
<1>9. CASE before.tokens + size > MaxContextTokens
  <2>1. Glob!AddRow(before, row) = opened
    BY <1>5, <1>9
  <2>2. QED
    BY <1>3, <1>6, <1>8, <1>9, <2>1 DEF AddedRow, size, closed
<1>10. CASE ~(before.tokens + size > MaxContextTokens)
  <2>1. Glob!AddRow(before, row) = longer
    BY <1>5, <1>10
  <2>2. QED
    BY <1>7, <1>8, <1>10, <2>1 DEF AddedRow, size
<1>11. QED
  BY <1>9, <1>10

LEMMA BatchingRun ==
  ASSUME Glob!Assumptions, NEW list \in Seq(Row)
  PROVE  \E f : BatchingOf(list, f)
<1> DEFINE pass == [p \in Batching \X (1 .. Len(list)) |-> Glob!AddRow(p[1], list[p[2]])]
           f == CHOOSE f : IsBatching(f, list)
<1>1. LET last == f[Len(list)]
      IN  Glob!RowBatches(list) = IF last.rows = <<>> THEN last.closed ELSE Append(last.closed, last.rows)
  BY DEF Glob!RowBatches, IsBatching, NoBatch
<1>2. NoBatch \in Batching /\ Len(list) \in Nat
  BY GlobalConstants DEF NoBatch, Batching
<1>3. ASSUME NEW before \in Batching, NEW i \in 1 .. Len(list) PROVE Glob!AddRow(before, list[i]) \in Batching
  <2>1. list[i] \in Row
    OBVIOUS
  <2>2. QED
    BY <2>1, AddRowIs
<1>4. pass \in [Batching \X (1 .. Len(list)) -> Batching]
  BY <1>3
<1>5. \E g : IsBatching(g, list)
  <2> HIDE DEF pass
  <2>1. HasRun(Batching, NoBatch, pass, Len(list))
    BY <1>2, <1>4, LoopRuns
  <2>2. PICK g \in [0 .. Len(list) -> Batching] : \A i \in 0 .. Len(list) : g[i] = Pass(g, NoBatch, pass, i)
    BY <2>1 DEF HasRun
  <2> USE DEF pass
  <2>3. ASSUME NEW i \in 0 .. Len(list)
        PROVE  g[i] = IF i = 0 THEN NoBatch ELSE Glob!AddRow(g[i - 1], list[i])
    <3>1. i # 0 => i \in 1 .. Len(list) /\ i - 1 \in 0 .. Len(list)
      BY <1>2
    <3>2. i # 0 => <<g[i - 1], i>> \in Batching \X (1 .. Len(list))
      BY <3>1
    <3>3. i # 0 => pass[<<g[i - 1], i>>] = Glob!AddRow(g[i - 1], list[i])
      BY <3>2
    <3>4. QED
      BY <2>2, <3>3 DEF Pass
  <2>4. g = [i \in 0 .. Len(list) |-> g[i]]
    OBVIOUS
  <2>5. QED
    BY <2>3, <2>4 DEF IsBatching
<1>6. IsBatching(f, list)
  BY <1>5
<1> HIDE DEF f
<1>7. f[0] = NoBatch /\ \A n \in 1 .. Len(list) : f[n] = Glob!AddRow(f[n - 1], list[n])
  BY <1>2, <1>6 DEF IsBatching
<1>8. \A i \in 0 .. Len(list) : f[i] \in Batching
  <2>1. f[0] \in Batching /\ \A i \in 1 .. Len(list) : f[i - 1] \in Batching => f[i] \in Batching
    BY <1>2, <1>3, <1>7
  <2>2. QED
    BY <1>2, <2>1, LoopKeeps
<1>9. QED
  BY <1>1, <1>7, <1>8 DEF BatchingOf

\* What holds of the batches of the first n rows of the list.
BatchesOf(list, n, b) ==
  /\ b.tokens = Header + Summed(Valued(RowSize, b.rows))
  /\ \A x : WithinOne(x, b.closed, Len(b.closed)) \/ Within(x, b.rows) <=> \E i \in 1 .. n : list[i] = x
  /\ Summed(LengthsOf(b.closed)) + Len(b.rows) = n
  /\ \A i \in 1 .. Len(b.closed) : Fits(b.closed[i])
  /\ b.rows = <<>> \/ Fits(b.rows)

LEMMA RowSizes ==
  ASSUME Glob!Assumptions
  PROVE  RowSize \in [Row -> Nat] /\ \A row \in Row : RowSize[row] = Size[row.report]
BY GlobalConstants DEF RowSize, Row

LEMMA EmptyLists ==
  /\ \A x : ~Within(x, <<>>) /\ ~WithinOne(x, <<>>, 0)
  /\ \A v : Valued(v, <<>>) = <<>>
  /\ LengthsOf(<<>>) = <<>>
BY DEF Within, WithinOne, Valued, LengthsOf

LEMMA BatchesBegin ==
  ASSUME NEW list
  PROVE  BatchesOf(list, 0, NoBatch)
<1>1. /\ NoBatch.closed = <<>> /\ NoBatch.rows = <<>> /\ NoBatch.tokens = Header
      /\ Len(<<>>) = 0
  BY DEF NoBatch
<1>2. Summed(Valued(RowSize, <<>>)) = 0 /\ Summed(LengthsOf(<<>>)) = 0
  BY EmptyLists, SummedEmpty
<1>3. NoBatch.tokens = Header + Summed(Valued(RowSize, NoBatch.rows))
  <2>1. Header + 0 = Header
    BY GlobalAssumptions, GlobalConstants
  <2>2. QED
    BY <1>1, <1>2, <2>1
<1>4. QED
  BY <1>1, <1>2, <1>3, EmptyLists DEF BatchesOf

LEMMA BatchesGoOn ==
  ASSUME Glob!Assumptions, NEW list \in Seq(Row), NEW n \in 1 .. Len(list), NEW b \in Batching,
         BatchesOf(list, n - 1, b), NEW c \in Batching, AddedRow(b, list[n], c)
  PROVE  BatchesOf(list, n, c)
<1> DEFINE row == list[n]
           size == Size[row.report]
           sum == Summed(Valued(RowSize, b.rows))
<1>1. /\ row \in Row /\ size \in Nat /\ Header \in Nat /\ MaxContextTokens \in Nat
      /\ RowSize \in [Row -> Nat] /\ RowSize[row] = size
      /\ n \in Nat /\ \A i : i \in 1 .. n <=> i \in 1 .. n - 1 \/ i = n
  <2>1. row \in Row
    OBVIOUS
  <2>2. n \in Nat /\ \A i : i \in 1 .. n <=> i \in 1 .. n - 1 \/ i = n
    OBVIOUS
  <2>3. size \in Nat
    BY <2>1, GlobalConstants DEF Row
  <2>4. QED
    BY <2>1, <2>2, <2>3, RowSizes, GlobalConstants
<1>2. /\ b.closed \in Seq(Seq(Row)) /\ b.rows \in Seq(Row) /\ Len(b.rows) \in Nat
      /\ <<>> \in Seq(Row)
  BY DEF Batching
<1> HIDE DEF row, size
<1>3. /\ b.tokens = Header + sum
      /\ \A x : WithinOne(x, b.closed, Len(b.closed)) \/ Within(x, b.rows) <=> \E i \in 1 .. n - 1 : list[i] = x
      /\ Summed(LengthsOf(b.closed)) + Len(b.rows) = n - 1
      /\ \A i \in 1 .. Len(b.closed) : Fits(b.closed[i])
      /\ b.rows = <<>> \/ Fits(b.rows)
  BY DEF BatchesOf
<1>4. sum \in Nat /\ Summed(LengthsOf(b.closed)) \in Nat
  <2>1. ValuedAs(RowSize, b.rows, Valued(RowSize, b.rows))
    BY <1>1, <1>2, ValuedIs
  <2>2. LengthsOf(b.closed) \in Seq(Nat)
    BY <1>2, FlattenedIs
  <2>3. QED
    BY <2>1, <2>2, SummedNat DEF ValuedAs
<1>5. AddedRow(b, row, c)
  BY DEF row
<1>6. CASE b.tokens + size > MaxContextTokens
  <2> DEFINE last == b.rows
             one == Append(<<>>, row)
             closed == c.closed
  <2>1. /\ closed = IF last = <<>> THEN b.closed ELSE Append(b.closed, last)
        /\ c.rows = one /\ c.tokens = Header + size
    BY <1>5, <1>6 DEF AddedRow, size
  <2>2. Len(one) = 1 /\ (\A x : Within(x, one) <=> x = row) /\ Summed(Valued(RowSize, one)) = size
    <3>1. Len(one) = 1
      BY <1>1
    <3>2. \A x : Within(x, one) <=> x = row
      BY <1>1, <1>2, WithinMore, EmptyLists
    <3>3. Summed(Valued(RowSize, one)) = Summed(Valued(RowSize, <<>>)) + size
      BY <1>1, <1>2, ValuedMore
    <3>4. Summed(Valued(RowSize, <<>>)) = 0
      BY EmptyLists, SummedEmpty
    <3>5. QED
      BY <1>1, <3>1, <3>2, <3>3, <3>4
  <2> HIDE DEF one, closed, last
  <2>3. /\ \A x : WithinOne(x, closed, Len(closed)) <=> WithinOne(x, b.closed, Len(b.closed)) \/ Within(x, last)
        /\ Summed(LengthsOf(closed)) = Summed(LengthsOf(b.closed)) + Len(last)
        /\ \A i \in 1 .. Len(closed) : Fits(closed[i])
    <3>1. CASE last = <<>>
      <4>1. closed = b.closed /\ Len(last) = 0 /\ \A x : ~Within(x, last)
        BY <2>1, <3>1, EmptyLists
      <4>2. QED
        BY <1>3, <1>4, <4>1
    <3>2. CASE last # <<>>
      <4>1. closed = Append(b.closed, last) /\ last \in Seq(Row) /\ Fits(last)
        BY <1>2, <1>3, <2>1, <3>2 DEF last
      <4>2. \A i \in 1 .. Len(closed) : Fits(closed[i])
        <5>1. /\ Len(closed) = Len(b.closed) + 1 /\ closed[Len(b.closed) + 1] = last
              /\ \A i \in 1 .. Len(b.closed) : closed[i] = b.closed[i]
              /\ \A i : i \in 1 .. Len(b.closed) + 1 <=> i \in 1 .. Len(b.closed) \/ i = Len(b.closed) + 1
          BY <1>2, <4>1, AppendedIs
        <5>2. QED
          BY <1>3, <4>1, <5>1
      <4>3. QED
        BY <1>2, <4>1, <4>2, ClosedMore
    <3>3. QED
      BY <3>1, <3>2
  <2>4. c.tokens = Header + Summed(Valued(RowSize, c.rows))
    BY <2>1, <2>2
  <2>5. \A x : WithinOne(x, closed, Len(closed)) \/ Within(x, c.rows) <=> \E i \in 1 .. n : list[i] = x
    BY <1>1, <1>3, <2>1, <2>2, <2>3 DEF last, row
  <2>6. Summed(LengthsOf(closed)) + Len(c.rows) = n
    <3>1. Summed(LengthsOf(closed)) = n - 1 /\ Len(c.rows) = 1
      BY <1>3, <2>1, <2>2, <2>3 DEF last
    <3>2. QED
      BY <1>1, <3>1
  <2>7. Fits(c.rows)
    BY <2>1, <2>2 DEF Fits
  <2>8. QED
    BY <2>3, <2>4, <2>5, <2>6, <2>7 DEF BatchesOf, closed
<1>7. CASE ~(b.tokens + size > MaxContextTokens)
  <2> DEFINE more == Append(b.rows, row)
  <2>1. c.closed = b.closed /\ c.rows = more /\ c.tokens = b.tokens + size
    BY <1>5, <1>7 DEF AddedRow, size
  <2>2. /\ Len(more) = Len(b.rows) + 1
        /\ \A x : Within(x, more) <=> Within(x, b.rows) \/ x = row
        /\ Summed(Valued(RowSize, more)) = sum + size
    <3>1. Len(more) = Len(b.rows) + 1
      BY <1>1, <1>2
    <3>2. \A x : Within(x, more) <=> Within(x, b.rows) \/ x = row
      BY <1>1, <1>2, WithinMore
    <3>3. Summed(Valued(RowSize, more)) = sum + size
      BY <1>1, <1>2, ValuedMore
    <3>4. QED
      BY <3>1, <3>2, <3>3
  <2> HIDE DEF more, sum
  <2>3. c.tokens = Header + Summed(Valued(RowSize, c.rows))
    BY <1>1, <1>3, <1>4, <2>1, <2>2
  <2>4. \A x : WithinOne(x, c.closed, Len(c.closed)) \/ Within(x, c.rows) <=> \E i \in 1 .. n : list[i] = x
    BY <1>1, <1>3, <2>1, <2>2 DEF row
  <2>5. Summed(LengthsOf(c.closed)) + Len(c.rows) = n
    <3>1. Summed(LengthsOf(c.closed)) + Len(c.rows) = Summed(LengthsOf(b.closed)) + (Len(b.rows) + 1)
      BY <2>1, <2>2
    <3> DEFINE p == Summed(LengthsOf(b.closed))
               q == Len(b.rows)
    <3>2. p \in Nat /\ q \in Nat /\ p + q = n - 1 /\ n \in Nat
      BY <1>1, <1>2, <1>3, <1>4
    <3>3. Summed(LengthsOf(c.closed)) + Len(c.rows) = p + (q + 1)
      BY <3>1
    <3> HIDE DEF p, q
    <3>4. p + (q + 1) = n
      BY <3>2
    <3>5. QED
      BY <3>3, <3>4
  <2>6. Fits(c.rows)
    BY <1>1, <1>3, <1>4, <1>7, <2>1, <2>3 DEF Fits
  <2>7. QED
    BY <1>3, <2>1, <2>3, <2>4, <2>5, <2>6 DEF BatchesOf
<1>8. QED
  BY <1>6, <1>7

LEMMA RowBatchesAre ==
  ASSUME Glob!Assumptions, NEW list \in Seq(Row)
  PROVE  Chunked(list, Glob!RowBatches(list))
<1>1. PICK f : BatchingOf(list, f)
  BY BatchingRun
<1> DEFINE last == f[Len(list)]
           batches == Glob!RowBatches(list)
<1>2. /\ f[0] = NoBatch
      /\ batches = IF last.rows = <<>> THEN last.closed ELSE Append(last.closed, last.rows)
      /\ \A n \in 1 .. Len(list) : f[n] = Glob!AddRow(f[n - 1], list[n])
      /\ \A n \in 0 .. Len(list) : f[n] \in Batching
  BY <1>1 DEF BatchingOf
<1>3. Len(list) \in Nat /\ \A n \in 1 .. Len(list) : list[n] \in Row
  OBVIOUS
<1> DEFINE T == {n \in 0 .. Len(list) : BatchesOf(list, n, f[n])}
<1>4. 0 \in T
  BY <1>2, <1>3, BatchesBegin
<1>5. ASSUME NEW n \in 1 .. Len(list), n - 1 \in T PROVE n \in T
  <2>1. n \in 0 .. Len(list) /\ n - 1 \in 0 .. Len(list)
    BY <1>3
  <2>2. f[n - 1] \in Batching /\ f[n] \in Batching /\ BatchesOf(list, n - 1, f[n - 1])
    BY <1>2, <1>5, <2>1
  <2>3. AddedRow(f[n - 1], list[n], f[n])
    BY <1>2, <1>3, <2>2, AddRowIs
  <2>4. BatchesOf(list, n, f[n])
    BY <2>2, <2>3, BatchesGoOn
  <2>5. QED
    BY <2>1, <2>4
<1> HIDE DEF T
<1>6. Len(list) \in T
  <2>1. \A n \in 1 .. Len(list) : n - 1 \in T => n \in T
    BY <1>5
  <2>2. \A n \in 0 .. Len(list) : n \in T
    BY <1>3, <1>4, <2>1, Climb
  <2>3. QED
    BY <1>3, <2>2
<1>7. BatchesOf(list, Len(list), last) /\ last \in Batching
  BY <1>2, <1>3, <1>6 DEF T
<1> HIDE DEF last
<1>8. /\ \A x : WithinOne(x, last.closed, Len(last.closed)) \/ Within(x, last.rows) <=>
                  \E i \in 1 .. Len(list) : list[i] = x
      /\ Summed(LengthsOf(last.closed)) + Len(last.rows) = Len(list)
      /\ \A i \in 1 .. Len(last.closed) : Fits(last.closed[i])
      /\ last.rows = <<>> \/ Fits(last.rows)
      /\ last.closed \in Seq(Seq(Row)) /\ last.rows \in Seq(Row)
  BY <1>7 DEF BatchesOf, Batching
<1> HIDE DEF batches
<1>9. /\ batches \in Seq(Seq(Row))
      /\ Summed(LengthsOf(batches)) = Len(list)
      /\ \A x : WithinOne(x, batches, Len(batches)) <=> \E i \in 1 .. Len(list) : list[i] = x
      /\ \A i \in 1 .. Len(batches) : Fits(batches[i])
  <2>1. CASE last.rows = <<>>
    <3>1. batches = last.closed /\ Len(last.rows) = 0 /\ \A x : ~Within(x, last.rows)
      BY <1>2, <2>1, EmptyLists
    <3>2. Summed(LengthsOf(last.closed)) \in Nat
      BY <1>8, FlattenedIs, SummedNat
    <3>3. QED
      BY <1>8, <3>1, <3>2
  <2>2. CASE last.rows # <<>>
    <3>1. batches = Append(last.closed, last.rows) /\ Fits(last.rows)
      BY <1>2, <1>8, <2>2
    <3>2. \A i \in 1 .. Len(batches) : Fits(batches[i])
      <4>1. /\ Len(batches) = Len(last.closed) + 1 /\ batches[Len(last.closed) + 1] = last.rows
            /\ \A i \in 1 .. Len(last.closed) : batches[i] = last.closed[i]
            /\ \A i : i \in 1 .. Len(last.closed) + 1 <=> i \in 1 .. Len(last.closed) \/ i = Len(last.closed) + 1
        BY <1>8, <3>1, AppendedIs
      <4>2. QED
        BY <1>8, <3>1, <4>1
    <3>3. /\ batches \in Seq(Seq(Row))
          /\ \A x : WithinOne(x, batches, Len(batches)) <=>
                      WithinOne(x, last.closed, Len(last.closed)) \/ Within(x, last.rows)
          /\ Summed(LengthsOf(batches)) = Summed(LengthsOf(last.closed)) + Len(last.rows)
      BY <1>8, <3>1, ClosedMore
    <3>4. QED
      BY <1>8, <3>2, <3>3
  <2>3. QED
    BY <2>1, <2>2
<1>10. Len(Flattened(batches)) = Len(list)
  BY <1>9, FlattenedIs
<1>11. QED
  BY <1>9, <1>10 DEF Chunked, batches, Within

LEMMA ArrangedIs ==
  ASSUME NEW batch \in Seq(Row)
  PROVE  SameItems(Row, batch, Glob!Arranged(batch))
<1> DEFINE above == 1 + Glob!Max({Rank[r] : r \in Glob!ToSet(ReportTable)})
           key == [row \in Glob!ToSet(batch) |-> Glob!Weight(row.report) * above + Rank[row.report]]
<1>1. Glob!Arranged(batch) = Glob!Descending(batch, key)
  BY DEF Glob!Arranged
<1> HIDE DEF key
<1>2. SameItems(Row, batch, Glob!Descending(batch, key))
  BY DescendingIs
<1>3. QED
  BY <1>1, <1>2

\* The order of the rows of a batch changes nothing.
LEMMA ChunkedArranged ==
  ASSUME Glob!Assumptions, NEW list, NEW lists, Chunked(list, lists)
  PROVE  Chunked(list, [i \in DOMAIN lists |-> Glob!Arranged(lists[i])])
<1> DEFINE new == [i \in DOMAIN lists |-> Glob!Arranged(lists[i])]
<1>1. /\ lists \in Seq(Seq(Row)) /\ Len(Flattened(lists)) = Len(list)
      /\ \A x : WithinOne(x, lists, Len(lists)) <=> Within(x, list)
      /\ \A i \in 1 .. Len(lists) : Fits(lists[i])
  BY DEF Chunked
<1>2. DOMAIN lists = 1 .. Len(lists) /\ Len(lists) \in Nat /\ \A i \in 1 .. Len(lists) : lists[i] \in Seq(Row)
  BY <1>1
<1>3. \A i \in 1 .. Len(lists) : SameItems(Row, lists[i], new[i])
  BY <1>2, ArrangedIs
<1>4. \A i \in 1 .. Len(lists) :
        /\ new[i] \in Seq(Row) /\ Len(new[i]) = Len(lists[i])
        /\ \A x : Within(x, new[i]) <=> Within(x, lists[i])
        /\ Summed(Valued(RowSize, new[i])) = Summed(Valued(RowSize, lists[i]))
  BY <1>3, RowSizes DEF SameItems
<1>5. new \in Seq(Seq(Row)) /\ Len(new) = Len(lists)
  BY <1>2, <1>4
<1> HIDE DEF new
<1>6. Len(Flattened(new)) = Len(list)
  <2>1. LengthsOf(new) = LengthsOf(lists)
    BY <1>4, <1>5 DEF LengthsOf
  <2>2. Len(Flattened(new)) = Summed(LengthsOf(new)) /\ Len(Flattened(lists)) = Summed(LengthsOf(lists))
    BY <1>1, <1>5, FlattenedIs
  <2>3. QED
    BY <1>1, <2>1, <2>2
<1>7. \A x : WithinOne(x, new, Len(new)) <=> Within(x, list)
  <2>1. \A x : WithinOne(x, new, Len(new)) <=> WithinOne(x, lists, Len(lists))
    BY <1>4, <1>5 DEF WithinOne
  <2>2. QED
    BY <1>1, <2>1
<1>8. \A i \in 1 .. Len(new) : Fits(new[i])
  BY <1>1, <1>4, <1>5 DEF Fits
<1>9. QED
  BY <1>5, <1>6, <1>7, <1>8 DEF Chunked, new

\* Nor does the order in which the rows get into batches.
LEMMA ChunkedShuffled ==
  ASSUME NEW list \in Seq(Row), NEW shuffle \in Glob!Bijection(DOMAIN list, DOMAIN list)
  PROVE  LET new == [i \in DOMAIN list |-> list[shuffle[i]]]
         IN  new \in Seq(Row) /\ \A lists : Chunked(new, lists) => Chunked(list, lists)
<1> DEFINE new == [i \in DOMAIN list |-> list[shuffle[i]]]
<1>1. DOMAIN list = 1 .. Len(list) /\ Len(list) \in Nat
  OBVIOUS
<1>2. /\ shuffle \in [1 .. Len(list) -> 1 .. Len(list)]
      /\ \A w \in 1 .. Len(list) : \E v \in 1 .. Len(list) : shuffle[v] = w
  BY <1>1 DEF Glob!Bijection, Glob!Injection, Glob!Surjection
<1>3. new \in Seq(Row) /\ Len(new) = Len(list) /\ \A i \in 1 .. Len(list) : new[i] = list[shuffle[i]]
  BY <1>1, <1>2
<1> HIDE DEF new
<1>4. ASSUME NEW x, Within(x, new) PROVE Within(x, list)
  <2>1. PICK i \in 1 .. Len(new) : new[i] = x
    BY <1>4 DEF Within
  <2>2. shuffle[i] \in 1 .. Len(list) /\ list[shuffle[i]] = x
    BY <1>2, <1>3, <2>1
  <2>3. QED
    BY <2>2 DEF Within
<1>7. ASSUME NEW x, Within(x, list) PROVE Within(x, new)
  <2>1. PICK i \in 1 .. Len(list) : list[i] = x
    BY <1>7 DEF Within
  <2>2. PICK v \in 1 .. Len(list) : shuffle[v] = i
    BY <1>2
  <2>3. v \in 1 .. Len(new) /\ new[v] = x
    BY <1>3, <2>1, <2>2
  <2>4. QED
    BY <2>3 DEF Within
<1>8. \A x : Within(x, new) <=> Within(x, list)
  BY <1>4, <1>7
<1>5. \A lists : Chunked(new, lists) => Chunked(list, lists)
  BY <1>3, <1>8 DEF Chunked
<1>6. QED
  BY <1>3, <1>5 DEF new

LEMMA SelectionIs ==
  ASSUME order \in Seq(InReach)
  PROVE  /\ Glob!Selection \in Seq(Reports)
         /\ \A r \in Members(Glob!Selection) : r \in kept /\ r \in Reports
<1> DEFINE places == {i \in DOMAIN order : order[i] \in kept /\ Rank[order[i]] >= MinimumRank}
           l == Picked(order, places)
<1>1. Glob!Selection = l
  BY GlobLists DEF Glob!Selection
<1>2. order \in Seq(Reports)
  BY Wider DEF InReach
<1>3. /\ l \in Seq(Reports)
      /\ \A x : x \in Members(l) <=> \E i \in 1 .. Len(order) : i \in places /\ order[i] = x
  BY <1>2, PickedMembers
<1> HIDE DEF l
<1>4. Members(l) \subseteq Reports
  BY <1>3, GlobMembers
<1>5. QED
  BY <1>1, <1>3, <1>4

LEMMA NumberIs ==
  ASSUME NEW list \in Seq(Reports)
  PROVE  LET l == Glob!Number(list)
         IN  /\ l \in Seq(Row) /\ Len(l) = Len(list)
             /\ \A i \in 1 .. Len(list) : l[i].id = i - 1 /\ l[i].report = list[i]
<1> DEFINE l == Glob!Number(list)
<1>1. DOMAIN list = 1 .. Len(list) /\ Len(list) \in Nat
  OBVIOUS
<1>2. l = [i \in 1 .. Len(list) |-> [id |-> i - 1, report |-> list[i]]]
  BY <1>1 DEF Glob!Number
<1>3. ASSUME NEW i \in 1 .. Len(list) PROVE [id |-> i - 1, report |-> list[i]] \in Row
  <2>1. i - 1 \in Nat /\ list[i] \in Reports
    BY <1>1
  <2>2. QED
    BY <2>1 DEF Row
<1>4. QED
  BY <1>1, <1>2, <1>3

LEMMA GlobalBuild ==
  ASSUME Glob!Assumptions, GlobalInv, Glob!Build
  PROVE  GlobalInv'
<1> DEFINE list == Glob!Number(Glob!Selection)
           Shuffled(shuffle) == [i \in DOMAIN list |-> list[shuffle[i]]]
           BatchesIn(shuffle) == Glob!RowBatches(Shuffled(shuffle))
<1>1. /\ at = "context" /\ at' = "map"
      /\ UNCHANGED <<reply, left, level, frontier, ratings, order, kept, reduced, cut, scope, resolved>>
  BY DEF Glob!Build, Glob!selectionVars, Glob!reduceVars, Glob!auditVars
<1>2. PICK shuffle \in Glob!Bijection(DOMAIN list, DOMAIN list) :
        /\ chunks' = [i \in DOMAIN BatchesIn(shuffle) |-> Glob!Arranged(BatchesIn(shuffle)[i])]
        /\ results' = [i \in DOMAIN BatchesIn(shuffle) |-> Glob!Waiting]
  BY DEF Glob!Build
<1>3. reduced = <<>> /\ scope = {} /\ resolved = {} /\ GlobalTyped
  BY <1>1, EarlyIs DEF GlobalInv
<1>4. list \in Seq(Row)
  <2>1. Glob!Selection \in Seq(Reports)
    BY <1>3, SelectionIs DEF GlobalTyped
  <2>2. QED
    BY <2>1, NumberIs
<1>5. Glob!Selection' = Glob!Selection
  BY <1>1 DEF Glob!Selection
<1> HIDE DEF list
<1> DEFINE new == Shuffled(shuffle)
           b == Glob!RowBatches(new)
<1>6. new \in Seq(Row) /\ \A lists : Chunked(new, lists) => Chunked(list, lists)
  BY <1>4, ChunkedShuffled
<1>7. chunks' = [i \in DOMAIN b |-> Glob!Arranged(b[i])] /\ results' = [i \in DOMAIN b |-> Glob!Waiting]
  BY <1>2
<1> HIDE DEF new
<1>8. Chunked(new, b)
  BY <1>6, RowBatchesAre
<1> HIDE DEF b
<1>9. Chunked(list, b)
  BY <1>6, <1>8
<1>10. Chunked(list, chunks')
  BY <1>7, <1>9, ChunkedArranged
<1>11. b \in Seq(Seq(Row))
  BY <1>9 DEF Chunked
<1>12. /\ DOMAIN b = 1 .. Len(b) /\ Len(b) \in Nat
       /\ results' \in Seq(GlobalOutcome \cup {Glob!Waiting}) /\ Len(results') = Len(b)
       /\ \A i \in 1 .. Len(b) : results'[i] = Glob!Waiting
  BY <1>7, <1>11
<1>13. Len(chunks') = Len(b)
  BY <1>7, <1>12
<1>14. Mapping'
  <2>1. Chunked(Glob!Number(Glob!Selection), chunks)'
    BY <1>5, <1>10 DEF list
  <2>2. QED
    BY <1>12, <1>13, <2>1 DEF Mapping
<1>15. GlobalTyped'
  BY <1>1, <1>3 DEF GlobalTyped
<1>16. GlobalSelection'
  BY <1>1 DEF GlobalSelection
<1>17. GlobalMapping'
  BY <1>1, <1>14 DEF GlobalMapping, Late
<1>18. GlobalAnswer'
  BY <1>1, <1>3 DEF GlobalAnswer, ScopeTraced
<1>19. QED
  BY <1>15, <1>16, <1>17, <1>18 DEF GlobalInv

\* An ended of a chunk is sound.
LEMMA OutcomeIs ==
  ASSUME Glob!Assumptions, NEW batch \in Seq(Row), NEW ended \in Glob!Outcomes(batch)
  PROVE  Sound(batch, ended)
<1> DEFINE zero == [score |-> 0, cites |-> <<>>, size |-> 0]
<1>1. zero \in GlobalPoint /\ zero.score = 0
  <2>1. <<>> \in Seq(Nat)
    OBVIOUS
  <2>2. QED
    BY <2>1 DEF GlobalPoint
<1>2. Glob!Placeholder = <<zero>>
  BY DEF Glob!Placeholder
<1> HIDE DEF zero
<1>3. /\ Glob!Placeholder \in Seq(GlobalPoint)
      /\ \A k \in 1 .. Len(Glob!Placeholder) : ~(Glob!Placeholder[k].score > 0)
  BY <1>1, <1>2
<1>4. CASE \E status \in {"model_failure", "invalid_response"} :
             ended = [status |-> status, points |-> Glob!Placeholder]
  BY <1>3, <1>4 DEF Sound, GlobalOutcome
<1>5. CASE \E response \in {r \in Responses : Glob!ValidPoints(r, batch)} :
             ended = [status |-> "succeeded",
                        points |-> IF response = <<>> THEN Glob!Placeholder ELSE response]
  <2>1. PICK response \in Responses :
          /\ Glob!ValidPoints(response, batch)
          /\ ended = [status |-> "succeeded",
                        points |-> IF response = <<>> THEN Glob!Placeholder ELSE response]
    BY <1>5
  <2>2. response \in Seq(GlobalPoint)
    BY GlobalConstants
  <2>3. CASE response = <<>>
    BY <1>3, <2>1, <2>3 DEF Sound, GlobalOutcome
  <2>4. CASE response # <<>>
    <3>1. ended = [status |-> "succeeded", points |-> response]
      BY <2>1, <2>4
    <3>2. ended \in GlobalOutcome /\ ended.points = response /\ ended.status = "succeeded"
      BY <2>2, <3>1 DEF GlobalOutcome
    <3>3. ASSUME NEW k \in 1 .. Len(response), NEW c \in 1 .. Len(response[k].cites)
          PROVE  \E j \in 1 .. Len(batch) : batch[j].id = response[k].cites[c]
      <4>1. response[k] \in GlobalPoint
        BY <2>2
      <4>2. response[k].cites \in Seq(Nat)
        BY <4>1 DEF GlobalPoint
      <4>3. Glob!ToSet(response[k].cites) \subseteq {row.id : row \in Glob!ToSet(batch)}
        <5>1. k \in DOMAIN response
          BY <2>2
        <5>2. QED
          BY <2>1, <5>1 DEF Glob!ValidPoints
      <4>4. response[k].cites[c] \in Glob!ToSet(response[k].cites)
        <5>1. Glob!ToSet(response[k].cites) = Members(response[k].cites)
          BY <4>2, GlobMembers
        <5>2. QED
          BY <5>1 DEF Members
      <4>5. PICK row \in Glob!ToSet(batch) : row.id = response[k].cites[c]
        BY <4>3, <4>4
      <4>6. row \in Members(batch)
        BY <4>5, GlobMembers
      <4>7. QED
        BY <4>5, <4>6 DEF Members
    <3>4. QED
      BY <3>2, <3>3 DEF Sound
  <2>5. QED
    BY <2>3, <2>4
<1>6. QED
  BY <1>4, <1>5 DEF Glob!Outcomes

LEMMA GlobalMapBatch ==
  ASSUME Glob!Assumptions, GlobalInv, Glob!MapBatch
  PROVE  GlobalInv'
<1>1. /\ at = "map"
      /\ UNCHANGED <<at, reply, left, level, frontier, ratings, order, kept, chunks, reduced, cut,
                     scope, resolved>>
  BY DEF Glob!MapBatch, Glob!selectionVars, Glob!reduceVars, Glob!auditVars
<1>2. Mapping /\ GlobalTyped /\ reduced = <<>> /\ scope = {} /\ resolved = {}
  BY <1>1 DEF GlobalInv, GlobalMapping, GlobalAnswer, Late
<1>3. /\ results \in Seq(GlobalOutcome \cup {Glob!Waiting}) /\ Len(results) = Len(chunks)
      /\ \A j \in 1 .. Len(chunks) : results[j] = Glob!Waiting \/ Sound(chunks[j], results[j])
      /\ Chunked(Glob!Number(Glob!Selection), chunks)
  BY <1>2 DEF Mapping
<1>4. chunks \in Seq(Seq(Row))
  BY <1>3 DEF Chunked
<1>15. PICK i \in 1 .. Len(chunks) : \E ended \in Glob!Outcomes(chunks[i]) :
        results' = [results EXCEPT ![i] = ended]
  BY DEF Glob!MapBatch, Glob!Running
<1>5. PICK ended \in Glob!Outcomes(chunks[i]) : results' = [results EXCEPT ![i] = ended]
  BY <1>15
<1>6. Sound(chunks[i], ended) /\ ended \in GlobalOutcome
  <2>1. chunks[i] \in Seq(Row)
    BY <1>4
  <2>2. QED
    BY <2>1, OutcomeIs DEF Sound
<1>7. /\ results' \in Seq(GlobalOutcome \cup {Glob!Waiting}) /\ Len(results') = Len(chunks)
      /\ \A j \in 1 .. Len(chunks) : results'[j] = IF j = i THEN ended ELSE results[j]
  BY <1>3, <1>5, <1>6
<1>8. Chunked(Glob!Number(Glob!Selection), chunks)'
  <2>1. Glob!Selection' = Glob!Selection
    BY <1>1 DEF Glob!Selection
  <2>2. QED
    BY <1>1, <1>3, <2>1
<1>9. Mapping'
  <2>1. \A j \in 1 .. Len(chunks) : results'[j] = Glob!Waiting \/ Sound(chunks[j], results'[j])
    BY <1>3, <1>6, <1>7
  <2>2. QED
    BY <1>1, <1>7, <1>8, <2>1 DEF Mapping
<1>10. GlobalTyped'
  BY <1>1, <1>2 DEF GlobalTyped
<1>11. GlobalSelection'
  BY <1>1 DEF GlobalSelection
<1>12. GlobalMapping'
  BY <1>1, <1>9 DEF GlobalMapping, Late
<1>13. GlobalAnswer'
  BY <1>1, <1>2 DEF GlobalAnswer, ScopeTraced
<1>14. QED
  BY <1>10, <1>11, <1>12, <1>13 DEF GlobalInv

LEMMA GlobalMapEnds ==
  ASSUME GlobalInv, Glob!MapEnds
  PROVE  GlobalInv'
<1>1. /\ at = "map" /\ at' = "mapped" /\ Glob!Mapped = DOMAIN chunks
      /\ UNCHANGED <<reply, left, level, frontier, ratings, order, kept, chunks, results, reduced,
                     cut, scope, resolved>>
  BY DEF Glob!MapEnds, Glob!selectionVars, Glob!reduceVars, Glob!auditVars
<1>2. Mapping /\ GlobalTyped /\ reduced = <<>> /\ scope = {} /\ resolved = {}
  BY <1>1 DEF GlobalInv, GlobalMapping, GlobalAnswer, Late
<1>3. \A i \in 1 .. Len(chunks) : results[i] # Glob!Waiting
  <2>1. DOMAIN chunks = 1 .. Len(chunks)
    BY <1>2 DEF Mapping, Chunked
  <2>2. QED
    BY <1>1, <2>1 DEF Glob!Mapped
<1>4. Mapping'
  BY <1>1, <1>2, MappingKept
<1>5. GlobalTyped'
  BY <1>1, <1>2 DEF GlobalTyped
<1>6. GlobalSelection'
  BY <1>1 DEF GlobalSelection
<1>7. GlobalMapping'
  BY <1>1, <1>3, <1>4 DEF GlobalMapping, Late
<1>8. GlobalAnswer'
  BY <1>1, <1>2 DEF GlobalAnswer, ScopeTraced
<1>9. QED
  BY <1>5, <1>6, <1>7, <1>8 DEF GlobalInv

\* The points of a batch, with where they are from.
PointsOf(n) ==
  [k \in DOMAIN results[n].points |-> [batch |-> n, place |-> k, point |-> results[n].points[k]]]

LEMMA PositiveIs ==
  ASSUME Mapping, \A i \in 1 .. Len(chunks) : results[i] # Glob!Waiting
  PROVE  Glob!Positive \in Seq(Found) /\ \A x \in Members(Glob!Positive) : Ranked(x)
<1> DEFINE lists == [n \in DOMAIN results |-> PointsOf(n)]
           all == Flattened(lists)
           places == {i \in DOMAIN all : all[i].point.score > 0}
<1>1. Glob!Positive = Picked(all, places)
  BY GlobLists DEF Glob!Positive, PointsOf
<1>2. /\ DOMAIN results = 1 .. Len(chunks) /\ Len(results) = Len(chunks) /\ Len(chunks) \in Nat
      /\ \A n \in 1 .. Len(chunks) : results[n] \in GlobalOutcome
  BY DEF Mapping, Sound
<1>3. ASSUME NEW n \in 1 .. Len(chunks)
      PROVE  /\ PointsOf(n) \in Seq(Found) /\ Len(PointsOf(n)) = Len(results[n].points)
             /\ \A k \in 1 .. Len(results[n].points) :
                  PointsOf(n)[k] = [batch |-> n, place |-> k, point |-> results[n].points[k]]
  <2>1. results[n].points \in Seq(GlobalPoint)
    BY <1>2 DEF GlobalOutcome
  <2>2. \A k \in 1 .. Len(results[n].points) :
          [batch |-> n, place |-> k, point |-> results[n].points[k]] \in Found
    BY <2>1 DEF Found
  <2>3. QED
    BY <2>1, <2>2 DEF PointsOf
<1>4. lists \in Seq(Seq(Found)) /\ Len(lists) = Len(chunks) /\ \A n \in 1 .. Len(chunks) : lists[n] = PointsOf(n)
  BY <1>2, <1>3
<1> HIDE DEF lists
<1>5. all \in Seq(Found) /\ \A x : Within(x, all) <=> WithinOne(x, lists, Len(lists))
  BY <1>4, FlattenedIs
<1>6. DOMAIN all = 1 .. Len(all)
  BY <1>5
<1> HIDE DEF all
<1>7. /\ Picked(all, places) \in Seq(Found)
      /\ \A x : x \in Members(Picked(all, places)) <=> \E i \in 1 .. Len(all) : i \in places /\ all[i] = x
  BY <1>5, PickedMembers
<1>8. ASSUME NEW x \in Members(Picked(all, places))
      PROVE  Ranked(x)
  <2>1. PICK i \in 1 .. Len(all) : i \in places /\ all[i] = x
    BY <1>7
  <2>2. x.point.score > 0 /\ Within(x, all)
    BY <2>1 DEF Within
  <2>3. PICK n \in 1 .. Len(chunks) : Within(x, PointsOf(n))
    BY <1>4, <1>5, <2>2 DEF WithinOne
  <2>4. PICK k \in 1 .. Len(results[n].points) :
          x = [batch |-> n, place |-> k, point |-> results[n].points[k]]
    BY <1>3, <2>3 DEF Within
  <2>5. QED
    BY <2>2, <2>4 DEF Ranked
<1>9. QED
  BY <1>1, <1>7, <1>8

RankedKey == [x \in Glob!ToSet(Glob!Positive) |-> x.point.score]

LEMMA RankedPointsAre ==
  ASSUME Glob!Positive \in Seq(Found)
  PROVE  LET best == Glob!RankedPoints
         IN  /\ best \in Seq(Found) /\ Members(best) = Members(Glob!Positive)
             /\ \A j, k \in 1 .. Len(best) : j < k => best[j].point.score >= best[k].point.score
<1> DEFINE list == Glob!Positive
           S == Members(list)
           best == Glob!Descending(list, RankedKey)
<1>1. Glob!RankedPoints = best
  BY DEF Glob!RankedPoints, RankedKey
<1>2. Glob!ToSet(list) = S /\ S \subseteq Found /\ list \in Seq(S)
  BY GlobMembers
<1> HIDE DEF S, list
<1>3. \A y \in S : RankedKey[y] = y.point.score /\ RankedKey[y] \in Int
  BY <1>2 DEF RankedKey, Found, GlobalPoint, list
<1>4. SameItems(S, list, best) /\ Sorted(RankedKey, best)
  BY <1>2, <1>3, DescendingIs
<1> HIDE DEF best
<1>5. best \in Seq(S) /\ \A x : Within(x, best) <=> Within(x, list)
  BY <1>4 DEF SameItems
<1>6. Members(best) = S
  BY <1>5, WithinMembers DEF S
<1>7. best \in Seq(Found)
  BY <1>2, <1>5, Wider
<1>8. \A j, k \in 1 .. Len(best) : j < k => best[j].point.score >= best[k].point.score
  BY <1>3, <1>4, <1>5 DEF Sorted
<1>9. QED
  BY <1>1, <1>6, <1>7, <1>8 DEF S, list

LEMMA AcceptedIs ==
  ASSUME NEW S, NEW list \in Seq(S)
  PROVE  Glob!Accepted(list) \in 0 .. Len(list)
<1> DEFINE T == {n \in DOMAIN list : Glob!Summed([i \in 1 .. n |-> list[i].point.size]) <= DataMaxTokens}
<1>1. Glob!Accepted(list) = Cardinality(T)
  BY GlobCounting DEF Glob!Accepted
<1>2. Len(list) \in Nat /\ T \subseteq 1 .. Len(list)
  OBVIOUS
<1> HIDE DEF T
<1>3. IsFiniteSet(1 .. Len(list)) /\ Cardinality(1 .. Len(list)) = Len(list)
  BY <1>2, UpTo
<1>4. IsFiniteSet(T) /\ Cardinality(T) <= Len(list)
  BY <1>2, <1>3, FS_Subset
<1>5. Cardinality(T) \in Nat
  BY <1>4, FS_CardinalityType
<1>6. QED
  BY <1>1, <1>2, <1>4, <1>5

LEMMA GlobalPrepare ==
  ASSUME GlobalInv, Glob!Prepare
  PROVE  GlobalInv'
<1>1. /\ at = "mapped"
      /\ UNCHANGED <<left, level, frontier, ratings, order, kept, chunks, results, scope, resolved>>
  BY DEF Glob!Prepare, Glob!selectionVars, Glob!auditVars
<1>2. /\ Mapping /\ GlobalTyped /\ reduced = <<>> /\ scope = {} /\ resolved = {}
      /\ \A i \in 1 .. Len(chunks) : results[i] # Glob!Waiting
  BY <1>1 DEF GlobalInv, GlobalMapping, GlobalAnswer, Late
<1>3. Mapping'
  BY <1>1, <1>2, MappingKept
<1>4. GlobalSelection' /\ GlobalMapping' /\ GlobalTyped' /\ at' \in {"audit", "reduce"}
  <2> DEFINE some == Glob!Accepted(Glob!RankedPoints) < Len(Glob!RankedPoints)
  <2>6. at' \in {"audit", "reduce"} /\ reply' \in {reply, "no data"} /\ (cut' = cut \/ cut' = some)
    BY DEF Glob!Prepare, Glob!reduceVars
  <2>7. some \in BOOLEAN
    OBVIOUS
  <2> HIDE DEF some
  <2>1. at' \in {"audit", "reduce"} /\ reply' \in {reply, "no data"} /\ cut' \in BOOLEAN
    BY <1>2, <2>6, <2>7 DEF GlobalTyped
  <2>2. GlobalSelection'
    BY <2>1 DEF GlobalSelection
  <2>3. GlobalMapping'
    BY <1>1, <1>2, <1>3, <2>1 DEF GlobalMapping, Late
  <2>4. GlobalTyped'
    BY <1>1, <1>2, <2>1 DEF GlobalTyped
  <2>5. QED
    BY <2>1, <2>2, <2>3, <2>4
<1>5. CASE at' = "audit"
  <2>1. reduced' = <<>>
    BY <1>2, <1>5 DEF Glob!Prepare, Glob!reduceVars
  <2>2. GlobalAnswer'
    BY <1>1, <1>2, <1>5, <2>1 DEF GlobalAnswer, ScopeTraced
  <2>3. QED
    BY <1>4, <2>2 DEF GlobalInv
<1>6. CASE at' # "audit"
  <2> DEFINE best == Glob!RankedPoints
             count == Glob!Accepted(best)
             new == SubSeq(best, 1, count)
  <2>1. at' = "reduce" /\ reduced' = new /\ cut' = (count < Len(best))
    BY <1>6 DEF Glob!Prepare
  <2>2. Glob!Positive \in Seq(Found) /\ \A x \in Members(Glob!Positive) : Ranked(x)
    BY <1>2, PositiveIs
  <2>3. /\ best \in Seq(Found) /\ Members(best) = Members(Glob!Positive)
        /\ \A j, k \in 1 .. Len(best) : j < k => best[j].point.score >= best[k].point.score
    BY <2>2, RankedPointsAre
  <2> HIDE DEF best
  <2>4. count \in 0 .. Len(best) /\ Len(best) \in Nat /\ count \in Nat
    BY <2>3, AcceptedIs
  <2> HIDE DEF count
  <2>5. new \in Seq(Found) /\ Len(new) = count /\ \A i \in 1 .. count : new[i] = best[i]
    BY <2>3, <2>4
  <2> HIDE DEF new
  <2>6. ASSUME NEW i \in 1 .. Len(new) PROVE Ranked(new[i])
    <3>1. i \in 1 .. Len(best) /\ new[i] = best[i]
      BY <2>4, <2>5
    <3>2. new[i] \in Members(Glob!Positive)
      BY <2>3, <3>1 DEF Members
    <3>3. QED
      BY <2>2, <3>2
  <2>7. ASSUME NEW x \in Glob!ToSet(Glob!Positive), x \notin Glob!ToSet(new)
        PROVE  count < Len(best) /\ \A i \in 1 .. Len(new) : new[i].point.score >= x.point.score
    <3>1. Glob!ToSet(Glob!Positive) = Members(best) /\ Glob!ToSet(new) = Members(new)
      BY <2>2, <2>3, <2>5, GlobMembers
    <3>2. PICK j \in 1 .. Len(best) : best[j] = x
      BY <2>7, <3>1 DEF Members
    <3>3. j \notin 1 .. count
      BY <2>5, <2>7, <3>1, <3>2 DEF Members
    <3>4. count < j /\ j <= Len(best)
      BY <2>4, <3>2, <3>3
    <3>5. QED
      BY <2>3, <2>4, <2>5, <3>2, <3>4
  <2>8. Best'
    <3>1. Glob!Positive' = Glob!Positive
      BY <1>1 DEF Glob!Positive
    <3>2. reduced' \in Seq(Found) /\ DOMAIN reduced' = 1 .. Len(new)
      BY <2>1, <2>5
    <3>3. QED
      BY <2>1, <2>7, <3>1, <3>2 DEF Best
  <2>9. (\A i \in 1 .. Len(reduced) : Ranked(reduced[i]))'
    BY <1>1, <2>1, <2>6 DEF Ranked
  <2>10. GlobalAnswer'
    BY <1>1, <1>2, <1>3, <2>1, <2>5, <2>8, <2>9 DEF GlobalAnswer, ScopeTraced
  <2>11. QED
    BY <1>4, <2>10 DEF GlobalInv
<1>7. QED
  BY <1>5, <1>6

LEMMA GlobalGenerate ==
  ASSUME GlobalInv, Glob!Generate
  PROVE  GlobalInv'
<1>1. /\ at = "reduce" /\ at' = "audit" /\ reply' = "answered"
      /\ UNCHANGED <<left, level, frontier, ratings, order, kept, chunks, results, reduced, cut,
                     scope, resolved>>
  BY DEF Glob!Generate, Glob!selectionVars, Glob!reduceVars, Glob!auditVars
<1>2. /\ Mapping /\ GlobalTyped /\ GlobalAnswer
      /\ \A i \in 1 .. Len(chunks) : results[i] # Glob!Waiting
  BY <1>1 DEF GlobalInv, GlobalMapping, Late
<1>3. Mapping'
  BY <1>1, <1>2, MappingKept
<1>4. GlobalTyped'
  BY <1>1, <1>2 DEF GlobalTyped
<1>5. GlobalSelection'
  BY <1>1 DEF GlobalSelection
<1>6. GlobalMapping'
  BY <1>1, <1>2, <1>3 DEF GlobalMapping, Late
<1>7. GlobalAnswer'
  <2>1. /\ reduced \in Seq(Found) /\ \A i \in 1 .. Len(reduced) : Ranked(reduced[i])
        /\ scope = {} /\ resolved = {}
    BY <1>1, <1>2 DEF GlobalAnswer
  <2>2. (\A i \in 1 .. Len(reduced) : Ranked(reduced[i]))'
    BY <1>1, <2>1 DEF Ranked
  <2>3. QED
    BY <1>1, <1>3, <2>1, <2>2 DEF GlobalAnswer, ScopeTraced
<1>8. QED
  BY <1>4, <1>5, <1>6, <1>7 DEF GlobalInv

\* The table is made of the rows of the chunks, and a row is known by its number.
LEMMA TableIs ==
  ASSUME Mapping, order \in Seq(InReach)
  PROVE  /\ Glob!Table \subseteq Row
         /\ \A m \in 1 .. Len(chunks) :
              chunks[m] \in Seq(Row) /\ \A j \in 1 .. Len(chunks[m]) : chunks[m][j] \in Glob!Table
         /\ \A row, other \in Glob!Table : row.id = other.id => row = other
         /\ \A row \in Glob!Table : row.report \in kept
<1> DEFINE list == Glob!Selection
           listed == Glob!Number(list)
           all == Flattened(chunks)
<1>1. list \in Seq(Reports) /\ \A r \in Members(list) : r \in kept
  BY SelectionIs
<1>2. /\ listed \in Seq(Row) /\ Len(listed) = Len(list)
      /\ \A i \in 1 .. Len(list) : listed[i].id = i - 1 /\ listed[i].report = list[i]
  BY <1>1, NumberIs
<1>3. chunks \in Seq(Seq(Row)) /\ \A x : WithinOne(x, chunks, Len(chunks)) <=> Within(x, listed)
  BY DEF Mapping, Chunked
<1> HIDE DEF listed
<1>4. all \in Seq(Row) /\ \A x : Within(x, all) <=> WithinOne(x, chunks, Len(chunks))
  BY <1>3, FlattenedIs
<1> HIDE DEF all
<1>5. Glob!Table = Members(all) /\ Members(all) \subseteq Row
  <2>1. Glob!Table = Glob!ToSet(all)
    BY GlobLists DEF Glob!Table, all
  <2>2. QED
    BY <1>4, <2>1, GlobMembers
<1>6. \A x : x \in Glob!Table <=> Within(x, listed)
  BY <1>3, <1>4, <1>5, WithinMembers
<1>7. \A x \in Glob!Table : \E i \in 1 .. Len(listed) : listed[i] = x
  BY <1>6 DEF Within
<1> HIDE DEF list
<1>8. ASSUME NEW row \in Glob!Table, NEW other \in Glob!Table, row.id = other.id
      PROVE  row = other
  <2>1. PICK i \in 1 .. Len(listed) : listed[i] = row
    BY <1>7
  <2>2. PICK j \in 1 .. Len(listed) : listed[j] = other
    BY <1>7
  <2>3. i - 1 = j - 1 /\ i \in Int /\ j \in Int
    BY <1>2, <1>8, <2>1, <2>2
  <2>4. QED
    BY <2>1, <2>2, <2>3
<1>9. ASSUME NEW row \in Glob!Table PROVE row.report \in kept
  <2>1. PICK i \in 1 .. Len(listed) : listed[i] = row
    BY <1>7
  <2>2. row.report = list[i] /\ i \in 1 .. Len(list)
    BY <1>2, <2>1
  <2>3. QED
    BY <1>1, <2>2 DEF Members
<1>10. ASSUME NEW m \in 1 .. Len(chunks)
       PROVE  chunks[m] \in Seq(Row) /\ \A j \in 1 .. Len(chunks[m]) : chunks[m][j] \in Glob!Table
  <2>1. chunks[m] \in Seq(Row)
    BY <1>3
  <2>2. ASSUME NEW j \in 1 .. Len(chunks[m]) PROVE chunks[m][j] \in Glob!Table
    <3>1. Within(chunks[m][j], chunks[m])
      BY DEF Within
    <3>2. WithinOne(chunks[m][j], chunks, Len(chunks))
      BY <3>1 DEF WithinOne
    <3>3. QED
      BY <1>3, <1>6, <3>2
  <2>3. QED
    BY <2>1, <2>2
<1>11. QED
  BY <1>5, <1>8, <1>9, <1>10

LEMMA AtMostOne ==
  ASSUME NEW S, \A x, y \in S : x = y
  PROVE  Cardinality(S) <= 1
<1>1. CASE S = {}
  BY <1>1, FS_EmptySet
<1>2. CASE S # {}
  <2>1. PICK x : x \in S
    BY <1>2
  <2>2. S = {x}
    BY <2>1
  <2>3. QED
    BY <2>2, FS_Singleton
<1>3. QED
  BY <1>1, <1>2

LEMMA GlobalAudit ==
  ASSUME GlobalInv, Glob!Audit
  PROVE  GlobalInv'
<1> DEFINE cited == UNION {Glob!ToSet(reduced[i].point.cites) : i \in DOMAIN reduced}
           new == {row \in Glob!Table : row.id \in cited}
           Means(id) == {row.report : row \in {r \in new : r.id = id}}
<1>1. /\ at = "audit" /\ at' = "done" /\ scope' = new
      /\ UNCHANGED <<reply, left, level, frontier, ratings, order, kept, chunks, results, reduced, cut>>
  BY DEF Glob!Audit, Glob!selectionVars, Glob!reduceVars
<1>2. \E id \in Glob!RecordIDs : resolved' = {[id |-> id, reports |-> Means(id)]}
  BY DEF Glob!Audit
<1>3. Mapping /\ GlobalTyped /\ GlobalAnswer
  BY <1>1 DEF GlobalInv, GlobalMapping, Late
<1>4. reduced \in Seq(Found) /\ \A i \in 1 .. Len(reduced) : Ranked(reduced[i])
  BY <1>3 DEF GlobalAnswer
<1>5. /\ Glob!Table \subseteq Row
      /\ \A m \in 1 .. Len(chunks) :
           chunks[m] \in Seq(Row) /\ \A j \in 1 .. Len(chunks[m]) : chunks[m][j] \in Glob!Table
      /\ \A row, other \in Glob!Table : row.id = other.id => row = other
  BY <1>3, TableIs DEF GlobalTyped
<1>6. /\ \A i \in 1 .. Len(chunks) : results[i] = Glob!Waiting \/ Sound(chunks[i], results[i])
      /\ DOMAIN reduced = 1 .. Len(reduced)
  BY <1>3, <1>4 DEF Mapping
<1>7. ASSUME NEW row \in new
      PROVE  \E i \in DOMAIN reduced :
               /\ results[reduced[i].batch].status = "succeeded"
               /\ row.id \in Glob!ToSet(reduced[i].point.cites)
               /\ row \in Glob!ToSet(chunks[reduced[i].batch])
  <2>1. PICK i \in 1 .. Len(reduced) : row.id \in Glob!ToSet(reduced[i].point.cites)
    BY <1>6
  <2> DEFINE from == reduced[i].batch
             cites == reduced[i].point.cites
  <2>2. reduced[i] \in Found
    BY <1>4
  <2>3. cites \in Seq(Nat)
    BY <2>2 DEF Found, GlobalPoint
  <2>4. /\ from \in 1 .. Len(chunks) /\ results[from] # Glob!Waiting /\ reduced[i].point.score > 0
        /\ \E k \in 1 .. Len(results[from].points) : reduced[i].point = results[from].points[k]
    BY <1>4 DEF Ranked
  <2>5. Sound(chunks[from], results[from])
    BY <1>6, <2>4
  <2>6. PICK k \in 1 .. Len(results[from].points) : reduced[i].point = results[from].points[k]
    BY <2>4
  <2>7. /\ results[from].status = "succeeded"
        /\ \A c \in 1 .. Len(cites) : \E j \in 1 .. Len(chunks[from]) : chunks[from][j].id = cites[c]
    BY <2>4, <2>5, <2>6 DEF Sound
  <2> HIDE DEF cites, from
  <2>8. PICK c \in 1 .. Len(cites) : cites[c] = row.id
    <3>1. Glob!ToSet(cites) = Members(cites)
      BY <2>3, GlobMembers
    <3>2. QED
      BY <2>1, <3>1 DEF Members, cites
  <2>9. PICK j \in 1 .. Len(chunks[from]) : chunks[from][j].id = row.id
    BY <2>7, <2>8
  <2>10. chunks[from][j] = row
    <3>1. chunks[from][j] \in Glob!Table /\ row \in Glob!Table
      BY <1>5, <2>4, <2>9 DEF from
    <3>2. QED
      BY <1>5, <2>9, <3>1
  <2>11. row \in Glob!ToSet(chunks[from])
    <3>1. chunks[from] \in Seq(Row)
      BY <1>5, <2>4 DEF from
    <3>2. Glob!ToSet(chunks[from]) = Members(chunks[from])
      BY <3>1, GlobMembers
    <3>3. QED
      BY <2>10, <3>2 DEF Members
  <2>12. QED
    BY <1>6, <2>1, <2>7, <2>11 DEF from
<1>8. \A item \in resolved' : Glob!Cardinality(item.reports) <= 1
  <2>1. PICK id \in Glob!RecordIDs : resolved' = {[id |-> id, reports |-> Means(id)]}
    BY <1>2
  <2>2. \A x, y \in Means(id) : x = y
    <3>1. ASSUME NEW x \in Means(id), NEW y \in Means(id) PROVE x = y
      <4>1. PICK row \in {r \in new : r.id = id} : row.report = x
        OBVIOUS
      <4>2. PICK other \in {r \in new : r.id = id} : other.report = y
        OBVIOUS
      <4>3. row = other
        BY <1>5, <4>1, <4>2
      <4>4. QED
        BY <4>1, <4>2, <4>3
    <3>2. QED
      BY <3>1
  <2> HIDE DEF Means
  <2>3. Cardinality(Means(id)) <= 1
    BY <2>2, AtMostOne
  <2>4. \A item \in resolved' : item.reports = Means(id)
    BY <2>1
  <2>5. QED
    BY <2>3, <2>4, GlobCounting
<1>9. ScopeTraced'
  BY <1>1, <1>7 DEF ScopeTraced
<1>10. scope' \subseteq Glob!Table'
  <2>1. Glob!Table' = Glob!Table
    BY <1>1 DEF Glob!Table
  <2>2. QED
    BY <1>1, <2>1
<1> HIDE DEF new
<1>11. Mapping'
  BY <1>1, <1>3, MappingKept
<1>12. (\A i \in 1 .. Len(reduced) : Ranked(reduced[i]))'
  BY <1>1, <1>4 DEF Ranked
<1>13. GlobalAnswer'
  BY <1>1, <1>4, <1>8, <1>9, <1>10, <1>11, <1>12 DEF GlobalAnswer
<1>14. GlobalTyped'
  BY <1>1, <1>3 DEF GlobalTyped
<1>15. GlobalSelection'
  BY <1>1 DEF GlobalSelection
<1>16. GlobalMapping'
  BY <1>1, <1>11 DEF GlobalMapping, Late
<1>17. QED
  BY <1>13, <1>14, <1>15, <1>16 DEF GlobalInv

LEMMA GlobalStep ==
  Glob!Assumptions /\ GlobalInv /\ [Glob!Next]_(Glob!vars) => GlobalInv'
<1> SUFFICES ASSUME Glob!Assumptions, GlobalInv, [Glob!Next]_(Glob!vars)
             PROVE  GlobalInv'
  OBVIOUS
<1>1. CASE Glob!CallerLeaves
  BY <1>1, GlobalCallerLeaves
<1>2. CASE Glob!StepFails \/ Glob!MapStops
  BY <1>2, GlobalFails
<1>3. CASE Glob!Begin
  BY <1>3, GlobalBegin
<1>4. CASE Glob!RateReport
  BY <1>4, GlobalRateReport
<1>5. CASE Glob!FrontierEnds
  BY <1>5, GlobalFrontierEnds
<1>6. CASE Glob!LevelEnds
  BY <1>6, GlobalLevelEnds
<1>7. CASE Glob!Build
  BY <1>7, GlobalBuild
<1>8. CASE Glob!MapBatch
  BY <1>8, GlobalMapBatch
<1>9. CASE Glob!MapEnds
  BY <1>9, GlobalMapEnds
<1>10. CASE Glob!Prepare
  BY <1>10, GlobalPrepare
<1>11. CASE Glob!Generate
  BY <1>11, GlobalGenerate
<1>12. CASE Glob!Audit
  BY <1>12, GlobalAudit
<1>13. CASE UNCHANGED Glob!vars
  BY <1>13, GlobalStutters DEF Glob!vars, globalVars, Glob!selectionVars, Glob!reduceVars, Glob!auditVars
<1>14. QED
  BY <1>1, <1>2, <1>3, <1>4, <1>5, <1>6, <1>7, <1>8, <1>9, <1>10, <1>11, <1>12, <1>13 DEF Glob!Next

-----------------------------------------------------------------------------
(* Global: what the invariant gives *)

LEMMA SelectionIsRelevant ==
  ASSUME Glob!Assumptions, GlobalInv
  PROVE  Glob!SelectionRelevant
<1> DEFINE acc == Members(order)
           relevant == {r \in Glob!ToSet(Glob!Candidates) : ratings[r] >= RatingThreshold}
           PartsIn(r) == {p \in Glob!ToSet(Glob!Candidates) : Parent[p] = r}
<1> SUFFICES ASSUME at = "context", \E r \in Reports : ratings[r] # Glob!Unrated
             PROVE  /\ kept \subseteq relevant
                    /\ ~KeepParent => \A r \in kept : Parent[r] \notin kept
                    /\ \A r \in relevant : /\ r \in kept \/ PartsIn(r) \cap relevant # {}
                                           /\ \A p \in PartsIn(r) : ratings[p] # Glob!Unrated
                    /\ kept = {} => \A r \in Glob!ToSet(Glob!Candidates) :
                                      Level[r] <= MaxLevel => ratings[r] # Glob!Unrated
  BY DEF Glob!SelectionRelevant, Reports
<1>1. Traversal({}) /\ (kept = {} => level >= MaxLevel)
  BY DEF GlobalInv, GlobalSelection, AllUnrated
<1>2. order \in Seq(InReach) /\ level \in 0 .. MaxLevel
  BY DEF GlobalInv, GlobalTyped
<1>3. Glob!ToSet(Glob!Candidates) = InReach
  <2>1. Glob!Candidates \in Seq(InReach) /\ Members(Glob!Candidates) = InReach
    BY CandidatesAre
  <2>2. QED
    BY <2>1, GlobMembers
<1>4. acc \subseteq InReach
  BY <1>2, GlobMembers
<1>5. Looked(acc, {}, level, ratings) /\ kept = Remaining(acc)
  BY <1>1 DEF Traversal
<1> HIDE DEF acc
<1>6. relevant = acc
  BY <1>3, <1>4, <1>5 DEF Looked
<1>7. kept \subseteq acc /\ (~KeepParent => \A r \in kept : Parent[r] \notin kept)
  BY <1>5 DEF Remaining
<1>8. ASSUME NEW r \in acc PROVE r \in kept \/ \E p \in acc : Parent[p] = r
  BY <1>5 DEF Remaining
<1>9. ASSUME NEW r \in acc
      PROVE  /\ r \in kept \/ PartsIn(r) \cap acc # {}
             /\ \A p \in PartsIn(r) : ratings[p] # Glob!Unrated
  BY <1>3, <1>4, <1>5, <1>8 DEF Looked
<1>10. ASSUME kept = {}, NEW r \in InReach, Level[r] <= MaxLevel
       PROVE  ratings[r] # Glob!Unrated
  <2>1. acc = {}
    BY <1>2, <1>5, <1>10, RemainingSome DEF acc
  <2>2. Level[r] <= level
    <3>1. level = MaxLevel
      BY <1>1, <1>2, <1>10, GlobalConstants
    <3>2. QED
      BY <1>10, <3>1
  <2>3. QED
    BY <1>5, <2>1, <2>2 DEF Looked
<1>11. QED
  BY <1>3, <1>6, <1>7, <1>9, <1>10

LEMMA IsShownOnce ==
  ASSUME Glob!Assumptions, GlobalInv
  PROVE  Glob!ShownOnce
<1> DEFINE list == Glob!Selection
           listed == Glob!Number(list)
           all == Flattened(chunks)
           Cost(i) == [k \in DOMAIN chunks[i] |-> Size[chunks[i][k].report]]
<1> SUFFICES ASSUME at = "map"
             PROVE  /\ Len(Glob!Flattened(chunks)) = Len(list)
                    /\ {row.report : row \in Glob!Table} = Glob!ToSet(list)
                    /\ \A i \in DOMAIN chunks :
                         \/ Len(chunks[i]) = 1
                         \/ Header + Glob!Summed(Cost(i)) <= MaxContextTokens
  BY DEF Glob!ShownOnce
<1>1. Mapping /\ order \in Seq(InReach)
  BY DEF GlobalInv, GlobalMapping, GlobalTyped, Late
<1>2. list \in Seq(Reports)
  BY <1>1, SelectionIs
<1>3. /\ listed \in Seq(Row) /\ Len(listed) = Len(list)
      /\ \A i \in 1 .. Len(list) : listed[i].id = i - 1 /\ listed[i].report = list[i]
  BY <1>2, NumberIs
<1>4. /\ chunks \in Seq(Seq(Row)) /\ Len(all) = Len(listed)
      /\ \A x : WithinOne(x, chunks, Len(chunks)) <=> Within(x, listed)
      /\ \A i \in 1 .. Len(chunks) : Fits(chunks[i])
  BY <1>1 DEF Mapping, Chunked
<1> HIDE DEF listed
<1>5. Glob!Flattened(chunks) = all
  BY GlobLists
<1>6. all \in Seq(Row) /\ \A x : Within(x, all) <=> WithinOne(x, chunks, Len(chunks))
  BY <1>4, FlattenedIs
<1> HIDE DEF all, list
<1>7. Glob!Table = Members(all) /\ Glob!ToSet(list) = Members(list)
  <2>1. Glob!Table = Glob!ToSet(all)
    BY <1>5 DEF Glob!Table
  <2>2. QED
    BY <1>2, <1>6, <2>1, GlobMembers
<1>8. \A x : x \in Glob!Table <=> Within(x, listed)
  BY <1>4, <1>6, <1>7, WithinMembers
<1>9. {row.report : row \in Glob!Table} = Members(list)
  <2>1. ASSUME NEW row \in Glob!Table PROVE row.report \in Members(list)
    <3>1. PICK i \in 1 .. Len(listed) : listed[i] = row
      BY <1>8 DEF Within
    <3>2. QED
      BY <1>3, <3>1 DEF Members
  <2>2. ASSUME NEW r \in Members(list) PROVE \E row \in Glob!Table : row.report = r
    <3>1. PICK i \in 1 .. Len(list) : list[i] = r
      BY DEF Members
    <3>2. listed[i].report = r /\ Within(listed[i], listed)
      BY <1>3, <3>1 DEF Within
    <3>3. QED
      BY <1>8, <3>2
  <2>3. QED
    BY <2>1, <2>2
<1>10. ASSUME NEW i \in 1 .. Len(chunks)
       PROVE  Len(chunks[i]) = 1 \/ Header + Glob!Summed(Cost(i)) <= MaxContextTokens
  <2>1. chunks[i] \in Seq(Row) /\ Fits(chunks[i])
    BY <1>4
  <2>2. \A k \in DOMAIN chunks[i] : RowSize[chunks[i][k]] = Size[chunks[i][k].report]
    BY <2>1 DEF RowSize
  <2>3. Valued(RowSize, chunks[i]) = Cost(i)
    BY <2>1, <2>2 DEF Valued
  <2>4. QED
    BY <2>1, <2>3, GlobLists DEF Fits
<1>11. DOMAIN chunks = 1 .. Len(chunks)
  BY <1>4
<1>12. QED
  BY <1>3, <1>4, <1>5, <1>7, <1>9, <1>10, <1>11

LEMMA AnswerIsTraced ==
  ASSUME GlobalInv
  PROVE  Glob!AnswerTraced
<1>1. /\ at = "reduce" => Best
      /\ ScopeTraced
      /\ \A item \in resolved : Glob!Cardinality(item.reports) <= 1
  BY DEF GlobalInv, GlobalAnswer
<1>2. QED
  BY <1>1 DEF Glob!AnswerTraced, ScopeTraced, Best
=============================================================================
