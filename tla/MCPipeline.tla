----------------------------- MODULE MCPipeline -----------------------------
(* Small values for every part of Pipeline: projections that meet every step  *)
(* of their preparation, answers of two dimensions for two IDs.               *)
EXTENDS Pipeline, MCDispatcher, TLC

CONSTANTS n1, m1, m2, c1, c2, r1

Edge(from, to, weight) == [source |-> from, target |-> to, weight |-> weight]

\* An Entity whose Relation weighs nothing stays alone.
OneAlone == <<Edge(1, 2, 0), Edge(2, 3, 1)>>

\* Two triangles and a bridge; an edge given twice and turned round; no Relation
\* at all; a smaller component, self-loops and weights; a chain with a heavy end,
\* of which four nodes are found as one cluster and split again.
SixProjections ==
  {<<Edge(1, 2, 1), Edge(2, 3, 1), Edge(3, 1, 1), Edge(4, 5, 1), Edge(5, 6, 1), Edge(6, 4, 1),
     Edge(3, 4, 1)>>,
   <<Edge(1, 2, 1), Edge(3, 2, 1), Edge(3, 4, 1), Edge(2, 1, 2)>>,
   <<>>,
   <<Edge(1, 2, 1), Edge(3, 5, 1), Edge(3, 4, 1), Edge(4, 4, 2), Edge(5, 4, 1), Edge(3, 3, 2)>>,
   <<Edge(1, 2, 2), Edge(2, 3, 1), Edge(3, 4, 2), Edge(4, 5, 1), Edge(5, 6, 10)>>,
   OneAlone}

LimitsOfProjections == [p \in SixProjections |-> IF p = OneAlone THEN 1 ELSE 3]

OneToken == [id \in {1, 2} |-> 1]

Sample(size, tag) == [dimension |-> size, tag |-> tag]

TwoDimensions == {Sample(1, 1), Sample(1, 2), Sample(2, 1)}
=============================================================================
