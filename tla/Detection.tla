------------------------------ MODULE Detection ------------------------------
(***************************************************************************)
(* Community detection: the projected Relations become a weighted network, *)
(* the Leiden algorithm partitions it by local moves, refinement and       *)
(* aggregation, Communities above the size limit are split again, and the  *)
(* hierarchy becomes a CommunitySet. The shuffles and samples of the       *)
(* random generator are choices. Weights are integers and modularity is    *)
(* scaled by twice the total edge weight, so that no rounding takes part.  *)
(***************************************************************************)
EXTENDS Integers, FiniteSets, FiniteSetsExt, SequencesExt

CONSTANTS
  Projections,      \* sequences of [source, target, weight], the Relations by ID
  Limits, UseLargestConnectedComponent,   \* DetectConfig; a limit for each of them
  MaxIterations     \* Options of Leiden

\* What the proofs assume of the constants: names are numbers in their order.
Assumptions ==
  /\ Projections \subseteq Seq([source : Nat, target : Nat, weight : Nat])
  /\ Limits \in [Projections -> Nat \ {0}]   \* DetectConfig.Validate

VARIABLES
  relations,   \* what Detect was called with
  edges,       \* the prepared edges, in their order
  run,         \* a call of runLeiden
  hierarchy,   \* the state of HierarchicalLeiden
  outcome, communities   \* what Detect returns

vars == <<relations, edges, run, hierarchy, outcome, communities>>

Idle == [phase |-> "idle"]

\* The limit that Detect was called with.
MaxClusterSize == Limits[relations]

Init ==
  /\ relations \in Projections
  /\ edges = <<>> /\ run = Idle /\ hierarchy = <<>>
  /\ outcome = "asked" /\ communities = {}

-----------------------------------------------------------------------------
(* The edges *)

\* The numbers of a set in ascending order.
Ascending(numbers) ==
  [n \in 1 .. Cardinality(numbers) |->
     CHOOSE x \in numbers : Cardinality({y \in numbers : y < x}) = n - 1]

\* normalizeDirectionKeepLast
Undirected(input) ==
  LET Pair(e) == {e.source, e.target}
      Turned(e) == [source |-> Min(Pair(e)), target |-> Max(Pair(e)), weight |-> e.weight]
      last == {n \in DOMAIN input : \A later \in n + 1 .. Len(input) :
                                      Pair(input[later]) # Pair(input[n])}
  IN  [k \in 1 .. Cardinality(last) |-> Turned(input[Ascending(last)[k]])]

\* A sequence without what it repeats.
Firsts(list) ==
  LET first == {n \in DOMAIN list : \A m \in 1 .. n - 1 : list[m] # list[n]}
  IN  [k \in 1 .. Cardinality(first) |-> list[Ascending(first)[k]]]

\* largestComponent: of two equally large ones that of the first node, sources first.
LargestComponent(input) ==
  LET ordered == [n \in DOMAIN input |-> input[n].source] \o [n \in DOMAIN input |-> input[n].target]
      closed == {c \in SUBSET ToSet(ordered) \ {{}} :
                   \A e \in ToSet(input) : e.source \in c <=> e.target \in c}
      components == {c \in closed : \A d \in closed : d \subseteq c => d = c}
      Place(c) == Min({n \in DOMAIN ordered : ordered[n] \in c})
  IN  CHOOSE c \in components : \A other \in components \ {c} :
        \/ Cardinality(c) > Cardinality(other)
        \/ Cardinality(c) = Cardinality(other) /\ Place(c) < Place(other)

\* prepareEdges
Prepared(input) ==
  LET rows == Undirected(input)
      inside == {e \in ToSet(rows) : \/ ~UseLargestConnectedComponent
                                     \/ e.source \in LargestComponent(rows)}
      Before(e) == {f \in inside : \/ f.source < e.source
                                   \/ f.source = e.source /\ f.target < e.target}
  IN  [n \in 1 .. Cardinality(inside) |->
         CHOOSE e \in inside : Cardinality(Before(e)) = n - 1]

\* identify: the nodes in the order in which the edges name them.
Nodes == Firsts([n \in 1 .. 2 * Len(edges) |->
                   IF n % 2 = 1 THEN edges[(n + 1) \div 2].source ELSE edges[n \div 2].target])

\* An undirected network: weights of sets of one or two nodes, numbered from 0.
Network(input, number) ==
  [pair \in {{number[e.source], number[e.target]} : e \in ToSet(input)} |->
     (CHOOSE e \in ToSet(input) : {number[e.source], number[e.target]} = pair).weight]

\* The sum of numbers over a finite set.
Total(number, set) ==
  LET sum[S \in SUBSET set] == IF S = {} THEN 0
                               ELSE LET x == CHOOSE x \in S : TRUE
                                    IN  number[x] + sum[S \ {x}]
  IN  sum[set]

Weight(network, pairs) == Total(network, pairs)
Neighbors(network, u) == {v \in UNION DOMAIN network : v # u /\ {u, v} \in DOMAIN network}
Between(network, u, others) == Weight(network, {{u, v} : v \in Neighbors(network, u) \cap others})

\* The mass of the nodes that a partition puts into a cluster.
MassOf(mass, partition, cluster) ==
  Total(mass, {u \in DOMAIN partition : partition[u] = cluster})

Clusters(partition) == {partition[u] : u \in DOMAIN partition}

\* The objective of a partition, by twice the total weight times two.
Value(network, mass, total, partition) ==
  LET inside == {pair \in DOMAIN network : \A u, v \in pair : partition[u] = partition[v]}
      square == [c \in Clusters(partition) |->
                   MassOf(mass, partition, c) * MassOf(mass, partition, c)]
  IN  2 * total * Weight(network, inside) - Total(square, Clusters(partition))

\* Normalize: clusters by the place of their first member.
Normalized(partition) ==
  LET First(c) == Min({u \in DOMAIN partition : partition[u] = c})
      firsts == {First(partition[u]) : u \in DOMAIN partition}
  IN  [u \in DOMAIN partition |-> Cardinality({f \in firsts : f < First(partition[u])})]

-----------------------------------------------------------------------------
(* One run of Leiden *)

Moving(r) == [r EXCEPT !.phase = "move", !.fresh = DOMAIN r.mass, !.again = <<>>, !.moves = 0]

\* prepareObjective and the singletons runLeiden starts from.
NewRun(count, network) ==
  LET all == 0 .. count - 1
      mass == [u \in all |-> Between(network, u, all)]
  IN  Moving([phase |-> "move", network |-> network, mass |-> mass,
              total |-> 2 * Weight(network, DOMAIN network),
              parent |-> [u \in all |-> u], orig |-> [u \in all |-> u],
              original |-> [network |-> network, mass |-> mass], levels |-> <<>>,
              fresh |-> {}, again |-> <<>>, moves |-> 0,
              refined |-> <<>>, rMass |-> <<>>, rExt |-> <<>>, todo |-> {}])

\* Mutant: the mass of the node itself is left out.
MoveDelta_Others(u, to) ==
  LET from == run.parent[u]
      To(c) == Between(run.network, u, {v \in DOMAIN run.parent : run.parent[v] = c})
      Mass(c) == MassOf(run.mass, run.parent, c)
  IN  run.total * (To(to) - To(from)) - run.mass[u] * (Mass(to) - Mass(from))

\* moveDelta of CPM, by twice the total weight.
MoveDelta(u, to) ==
  LET from == run.parent[u]
      To(c) == Between(run.network, u, {v \in DOMAIN run.parent : run.parent[v] = c})
      Mass(c) == MassOf(run.mass, run.parent, c)
  IN  run.total * (To(to) - To(from)) - run.mass[u] * (Mass(to) - Mass(from) + run.mass[u])

Best(u) ==
  LET options == {run.parent[v] : v \in Neighbors(run.network, u)} \ {run.parent[u]}
      gains == {c \in options : MoveDelta(u, c) > 0}
  IN  IF gains = {} THEN run.parent[u]
      ELSE Min({c \in gains : \A d \in gains : MoveDelta(u, c) >= MoveDelta(u, d)})

\* One node of the queue: first all of them in any order, then those whose
\* neighbours have moved, first in first out.
Visit(u) ==
  /\ run.phase = "move"
  /\ u \in run.fresh \/ (run.fresh = {} /\ run.again # <<>> /\ u = Head(run.again))
  /\ LET fresh == run.fresh \ {u}
         again == IF run.fresh = {} THEN Tail(run.again) ELSE run.again
         woken == {v \in Neighbors(run.network, u) :
                     v \notin fresh \cup ToSet(again) /\ run.parent[v] # Best(u)}
     IN  run' = IF Best(u) = run.parent[u]
                  THEN [run EXCEPT !.fresh = fresh, !.again = again]
                  ELSE [run EXCEPT !.fresh = fresh,
                                   !.again = again \o Ascending(woken),
                                   !.parent[u] = Best(u), !.moves = run.moves + 1]
  /\ UNCHANGED <<relations, edges, hierarchy, outcome, communities>>

\* projectToOriginal
Projected == Normalized([u \in DOMAIN run.orig |-> run.parent[run.orig[u]]])

Inside(u) == Between(run.network, u, {v \in DOMAIN run.parent : run.parent[v] = run.parent[u]})

\* The queue is empty: a level, and its refinement unless nothing has moved.
EndLevel ==
  /\ run.phase = "move" /\ run.fresh = {} /\ run.again = <<>>
  /\ LET levels == Append(run.levels, Projected)
     IN  run' = IF run.moves = 0 \/ Len(levels) = MaxIterations
                  THEN [run EXCEPT !.phase = "ended", !.levels = levels]
                  ELSE [run EXCEPT !.phase = "refine", !.levels = levels,
                                   !.refined = [u \in DOMAIN run.parent |-> u],
                                   !.rMass = run.mass,
                                   !.rExt = [u \in DOMAIN run.parent |-> Inside(u)],
                                   !.todo = DOMAIN run.parent]
  /\ UNCHANGED <<relations, edges, hierarchy, outcome, communities>>

\* The tests of runRefinement; a candidate is a refined cluster of the same parent.
Separate(u) == run.refined[u] = u
WellConnected(ext, mass, u) ==
  run.total * ext >= mass * (MassOf(run.mass, run.parent, run.parent[u]) - mass)
ToRefined(u, t) ==
  Between(run.network, u, {v \in DOMAIN run.parent : /\ run.parent[v] = run.parent[u]
                                                     /\ run.refined[v] = t})
Candidates(u) ==
  {t \in {run.refined[v] : v \in {v \in Neighbors(run.network, u) :
                                    run.parent[v] = run.parent[u]}} \ {u} :
     /\ WellConnected(run.rExt[t], run.rMass[t], u)
     /\ run.total * ToRefined(u, t) > run.mass[u] * run.rMass[t]}

\* One node of the shuffled order; with Randomness any candidate may be drawn.
Refine(u) ==
  /\ run.phase = "refine" /\ u \in run.todo
  /\ LET done == [run EXCEPT !.todo = run.todo \ {u}]
         mayMove == /\ Separate(u)
                    /\ WellConnected(Inside(u), run.mass[u], u)
                    /\ Candidates(u) # {}
     IN  IF mayMove
           THEN \E t \in Candidates(u) :
                  run' = [done EXCEPT
                    !.refined[u] = t,
                    !.rMass = [run.rMass EXCEPT ![t] = @ + run.mass[u], ![u] = 0],
                    !.rExt = [run.rExt EXCEPT ![t] = @ + Inside(u) - 2 * ToRefined(u, t), ![u] = 0]]
           ELSE run' = done
  /\ UNCHANGED <<relations, edges, hierarchy, outcome, communities>>

\* aggregateNetwork: refined clusters become nodes, each in the cluster of its
\* first member; within a cluster the weight becomes a self-loop if there is any.
Aggregate ==
  /\ run.phase = "refine" /\ run.todo = {}
  /\ LET refined == Normalized(run.refined)
         Image(pair) == {refined[u] : u \in pair}
         Sum(image) == Weight(run.network, {pair \in DOMAIN run.network : Image(pair) = image})
         images == {image \in {Image(pair) : pair \in DOMAIN run.network} :
                      Cardinality(image) = 2 \/ Sum(image) > 0}
         First(c) == Min({u \in DOMAIN refined : refined[u] = c})
     IN  run' = Moving([run EXCEPT
                  !.network = [image \in images |-> Sum(image)],
                  !.mass = [c \in Clusters(refined) |-> MassOf(run.mass, refined, c)],
                  !.parent = [c \in Clusters(refined) |-> run.parent[First(c)]],
                  !.orig = [u \in DOMAIN run.orig |-> refined[run.orig[u]]],
                  !.refined = <<>>, !.rMass = <<>>, !.rExt = <<>>])
  /\ UNCHANGED <<relations, edges, hierarchy, outcome, communities>>

-----------------------------------------------------------------------------
(* The hierarchy *)

Members(partition, c) == Ascending({u \in DOMAIN partition : partition[u] = c})

\* hierarchyWorkFor over groupedNodes
WorkFor(partition, unsplittable) ==
  Ascending({c \in Clusters(partition) \ unsplittable :
               /\ Len(Members(partition, c)) >= MaxClusterSize
               /\ Len(Members(partition, c)) > 1})

\* inducedEdges of the Nodes of a cluster, renumbered.
Induced(network, members) ==
  LET Local(pair) == {n \in 0 .. Len(members) - 1 : members[n + 1] \in pair}
      kept == {pair \in DOMAIN network : pair \subseteq ToSet(members)}
  IN  [pair \in {Local(p) : p \in kept} |->
         network[CHOOSE p \in kept : Local(p) = pair]]

Whole == LET number == [node \in ToSet(Nodes) |->
                          CHOOSE n \in 0 .. Len(Nodes) - 1 : Nodes[n + 1] = node]
         IN  Network(edges, number)

\* The next cluster to split, the next level, or the end.
Continue(h) ==
  LET level == IF h.work = <<>> THEN h.level + 1 ELSE h.level
      work == IF h.work = <<>> THEN WorkFor(h.partition, h.unsplittable) ELSE h.work
      members == Members(h.partition, Head(work))
  IN  IF work = <<>>
        THEN /\ hierarchy' = h /\ run' = Idle
        ELSE /\ hierarchy' = [h EXCEPT !.level = level, !.work = work]
             /\ run' = NewRun(Len(members), Induced(Whole, members))

\* Detect up to the first run.
Begin ==
  /\ outcome = "asked"
  /\ edges' = Prepared(relations)
  /\ IF Prepared(relations) = <<>>
       THEN outcome' = "empty graph" /\ UNCHANGED <<run, hierarchy>>
       ELSE /\ outcome' = "detecting"
            /\ run' = NewRun(Len(Nodes'), Whole')
            /\ UNCHANGED hierarchy
  /\ UNCHANGED <<relations, communities>>

Entry(node, cluster, level, parent) ==
  [node |-> node, cluster |-> cluster, level |-> level, parent |-> parent, final |-> TRUE]

\* The partition of the whole network: the roots.
Root ==
  /\ run.phase = "ended" /\ hierarchy = <<>>
  /\ LET partition == Last(run.levels)
     IN  Continue([entries |-> {Entry(u, partition[u], 0, -1) : u \in DOMAIN partition},
                   partition |-> partition, next |-> Cardinality(Clusters(partition)),
                   unsplittable |-> {}, level |-> 0, work |-> <<>>])
  /\ UNCHANGED <<relations, edges, outcome, communities>>

\* The partition of one cluster: its parts replace it, unless it is one part.
Split ==
  /\ run.phase = "ended" /\ hierarchy # <<>>
  /\ LET h == [hierarchy EXCEPT !.work = Tail(hierarchy.work)]
         item == Head(hierarchy.work)
         members == Members(h.partition, item)
         part == Last(run.levels)
         count == Cardinality(Clusters(part))
         Id(n) == h.next + part[n - 1]
     IN  IF count = 1
           THEN Continue([h EXCEPT !.unsplittable = h.unsplittable \cup {item}])
           ELSE Continue([h EXCEPT
                  !.entries = {IF e.cluster = item THEN [e EXCEPT !.final = FALSE] ELSE e : e \in h.entries}
                              \cup {Entry(members[n], Id(n), h.level, item) : n \in DOMAIN members},
                  !.partition = [u \in DOMAIN h.partition |->
                     IF h.partition[u] = item THEN Id(CHOOSE n \in DOMAIN members : members[n] = u)
                                              ELSE h.partition[u]],
                  !.next = h.next + count])
  /\ UNCHANGED <<relations, edges, outcome, communities>>

-----------------------------------------------------------------------------
(* The CommunitySet *)

\* collectCommunities; the ID of a Community is the digest of its members.
Collected ==
  LET Key(e) == [number |-> e.cluster, level |-> e.level, parent |-> e.parent, final |-> e.final]
      Of(key) == {Nodes[e.node + 1] : e \in {e \in hierarchy.entries : Key(e) = key}}
  IN  {[number |-> key.number, level |-> key.level, parent |-> key.parent, final |-> key.final,
        members |-> Of(key),
        unsplittable |-> key.final /\ Cardinality(Of(key)) >= MaxClusterSize] :
         key \in {Key(e) : e \in hierarchy.entries}}

\* Hierarchy.Validate
ValidHierarchy(set) ==
  /\ set # {}
  /\ \A c, d \in set : c.number = d.number => c = d
  /\ \A c \in set : c.members # {}
  /\ \A c \in set : IF c.level = 0 THEN c.parent = -1
       ELSE \E p \in set : /\ p.number = c.parent /\ p.level < c.level
                           /\ c.members \subseteq p.members
  /\ \A c \in set : c.final <=> ~\E d \in set : d.parent = c.number
  /\ \A node \in UNION {c.members : c \in {c \in set : c.level = 0}} :
       Cardinality({c \in set : c.final /\ node \in c.members}) = 1

\* ValidateCommunitySet: the IDs are distinct, so are the member sets.
ValidCommunitySet(set) ==
  /\ ValidHierarchy(set)
  /\ {c.number : c \in set} = 0 .. Cardinality(set) - 1
  /\ \A c, d \in set : c.members = d.members => c = d
  /\ \A c \in set : c.members \subseteq UNION {{e.source, e.target} : e \in ToSet(relations)}

Finish ==
  /\ outcome = "detecting" /\ run = Idle
  /\ outcome' = IF ValidCommunitySet(Collected) THEN "detected" ELSE "invalid"
  /\ communities' = Collected
  /\ UNCHANGED <<relations, edges, run, hierarchy>>

Next == \/ Begin \/ Root \/ Split \/ Finish
        \/ EndLevel \/ Aggregate
        \/ run # Idle /\ \E u \in DOMAIN run.mass : Visit(u) \/ Refine(u)

Spec == Init /\ [][Next]_vars

-----------------------------------------------------------------------------

\* Types of the variables.
TypeOK ==
  /\ relations \in Projections
  /\ run.phase \in {"idle", "move", "refine", "ended"}
  /\ outcome \in {"asked", "empty graph", "detecting", "detected", "invalid"}
  /\ run # Idle => run.parent \in [DOMAIN run.mass -> Nat]

\* Whatever is drawn, the hierarchy is one that the CommunitySet's validation
\* accepts, so a detection never fails on its own result (community/detector.go).
DetectionAccepted == outcome # "invalid"

\* Unsplittable is what a Leiden run of its own saw as one part, a Community of
\* one node at MaxClusterSize 1 excepted, for which no run is made; and only what
\* has the size limit or more has been divided (types.go, community_set.go).
UnsplittableMeant ==
  outcome = "detected" => \A c \in communities :
    /\ c.unsplittable <=> \/ c.number \in hierarchy.unsplittable
                          \/ MaxClusterSize = 1 /\ c.final /\ Cardinality(c.members) = 1
    /\ ~c.final => Cardinality(c.members) >= MaxClusterSize

\* What the local moves gain is not lost: aggregation keeps the objective of the
\* partition, and every level is at least as good as the one before it and as
\* the singletons (aggregation.go, the promise above aggregateNetwork).
ObjectiveClimbs ==
  run # Idle =>
    LET Original(p) == Value(run.original.network, run.original.mass, run.total, p)
        Level(n) == CASE n = 0 -> [u \in DOMAIN run.orig |-> u]
                      [] n > Len(run.levels) -> Projected
                      [] OTHER -> run.levels[n]
    IN  /\ Value(run.network, run.mass, run.total, run.parent) = Original(Projected)
        /\ \A n \in 0 .. Len(run.levels) : Original(Level(n)) <= Original(Level(n + 1))

\* What a detection promises.
DetectionSound == DetectionAccepted /\ UnsplittableMeant /\ ObjectiveClimbs

\* "Established (non-singleton) R-clusters are frozen": refinement never takes
\* a node out of a cluster that another has joined (refinement.go). The code
\* asks whether the node has moved, not whether another has joined it.
EstablishedFrozen ==
  [][run # Idle /\ run.phase = "refine" /\ run'.phase = "refine" =>
       \A u, v \in DOMAIN run.refined :
         run.refined[u] = run.refined[v] => run'.refined[u] = run'.refined[v]]_vars
=============================================================================
