----------------------------- MODULE MCDetection -----------------------------
(* One Relation projection: two triangles and a bridge between them.          *)
EXTENDS Detection

Edge(from, to, weight) == [source |-> from, target |-> to, weight |-> weight]

Bridged == {<<Edge(1, 2, 1), Edge(2, 3, 1), Edge(3, 1, 1), Edge(4, 5, 1), Edge(5, 6, 1),
              Edge(6, 4, 1), Edge(3, 4, 1)>>}
LimitThree == [p \in Bridged |-> 3]
=============================================================================
