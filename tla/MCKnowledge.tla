---------------------------- MODULE MCKnowledge ----------------------------
(* An Entity and a Relation of the Entity to itself. *)
EXTENDS Knowledge, TLC

CONSTANTS e, r, x, y

RelationOfEntity == (e :> {}) @@ (r :> {e})

\* One content for one object or for both, or two contents for one.
Submissions ==
  UNION {{(o :> {d}), [q \in Objects |-> {d}]} : o \in Objects, d \in Contents}
    \union {(o :> Contents) : o \in Objects}

\* Nothing orders Sources, Contents or Agents.
Symmetry == Permutations(Sources) \union Permutations(Contents) \union Permutations(Agents)
=============================================================================
