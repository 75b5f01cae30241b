------------------------------ MODULE Vectors ------------------------------
(***************************************************************************)
(* The Semantic vector store: Namespaces of one or several Zones whose     *)
(* members share one cached vector per ID, an index row per member, and    *)
(* readers that page through a Namespace while it is added to and deleted. *)
(* Add looks into the cache, asks the model for what is missing and only   *)
(* then opens its transaction.                                             *)
(***************************************************************************)
EXTENDS Naturals, FiniteSets, FiniteSetsExt, SequencesExt

CONSTANTS
  Names,          \* Namespaces: a Zone and a name
  Ids,            \* vector IDs, numbers in the order of their texts
  Tokens,         \* tokens of the text of an ID
  Samples,        \* answers of the embedding model to one text, a dimension each
  Models,         \* embedding models a process can be configured with
  Callers, Readers,
  BatchSize, BatchMaxTokens,   \* GenerationConfig
  PageLimit,                   \* limit of one ID page
  MaxAdds, MaxDeletes, MaxRestarts    \* bounds

VARIABLES
  model,       \* vector_database: the model, and the dimension once it is fixed
  dimension,
  embedding,   \* vectors: a function from the retained IDs
  namespaces,  \* namespace_config
  members,     \* namespace_vectors
  indexed,     \* the vec0 table
  add,         \* calls of Service.Add
  reader,      \* namespaceReaders
  up,          \* the process has opened the store
  adds, deletes, restarts

vars == <<model, dimension, embedding, namespaces, members, indexed, add, reader,
          up, adds, deletes, restarts>>
tables == <<model, dimension, embedding, namespaces, members, indexed>>

Ended == [at |-> "ended"]
Closed == [open |-> FALSE]

\* What the proofs assume of the constants.
Assumptions ==
  /\ IsFiniteSet(Ids) /\ Ids \subseteq Nat \ {0}
  /\ \A sample \in Samples : sample.dimension \in Nat \ {0}
  /\ PageLimit \in Nat \ {0}

\* A database without rows, opened with a first model.
Init ==
  /\ model \in Models /\ dimension = 0
  /\ embedding = <<>> /\ namespaces = {} /\ members = {} /\ indexed = {}
  /\ add = [c \in Callers |-> Ended] /\ reader = [r \in Readers |-> Closed]
  /\ up = TRUE
  /\ adds = 0 /\ deletes = 0 /\ restarts = 0

-----------------------------------------------------------------------------
(* Rows *)

\* The numbers of a set in ascending order.
Ascending(numbers) ==
  [n \in 1 .. Cardinality(numbers) |->
     CHOOSE x \in numbers : Cardinality({y \in numbers : y < x}) = n - 1]

\* The rowid SQLite gives to a new row: those of deleted rows come again.
NextId(rows) == 1 + Max({0} \cup {row.id : row \in rows})

\* The statements on namespace_config, each within a Zone and a name.
Exists(name) == \E space \in namespaces : space.name = name
GetNamespace(spaces, name) == CHOOSE space \in spaces : space.name = name
RetainNamespace(name) ==
  IF Exists(name) THEN namespaces
                  ELSE namespaces \cup {[id |-> NextId(namespaces), name |-> name]}

\* The cache with a vector under an ID that it does not have yet.
Stored(cache, vector) ==
  [id \in DOMAIN cache \cup {vector.id} |-> IF id \in DOMAIN cache THEN cache[id] ELSE vector.values]

\* Mutant: the index gets the vector of the call, not the one retained before.
Retain_Own(db, space, vector) ==
  LET known == \E member \in db.members : member.space = space /\ member.vector = vector.id
      new == NextId(db.members)
  IN  [embedding |-> Stored(db.embedding, vector),
       members |-> IF known THEN db.members
                   ELSE db.members \cup {[id |-> new, space |-> space, vector |-> vector.id]},
       indexed |-> IF known THEN db.indexed
                   ELSE db.indexed \cup {[id |-> new, space |-> space, vector |-> vector.id,
                                          values |-> vector.values]},
       clash |-> db.clash \/ (~known /\ \E other \in db.indexed : other.id = new)]

\* retainVector: what is retained under the ID already is the vector of it.
Retain(db, space, vector) ==
  LET stored == Stored(db.embedding, vector)
      new == NextId(db.members)
  IN  IF \E member \in db.members : member.space = space /\ member.vector = vector.id
        THEN [db EXCEPT !.embedding = stored]
        ELSE [embedding |-> stored,
              members |-> db.members \cup {[id |-> new, space |-> space, vector |-> vector.id]},
              indexed |-> db.indexed \cup {[id |-> new, space |-> space, vector |-> vector.id,
                                            values |-> stored[vector.id]]},
              clash |-> db.clash \/ \E other \in db.indexed : other.id = new]

\* The vectors of a call, one after the other.
RetainAll(space, vectors) ==
  LET After[n \in 0 .. Len(vectors)] ==
        IF n = 0 THEN [embedding |-> embedding, members |-> members,
                       indexed |-> indexed, clash |-> FALSE]
                 ELSE Retain(After[n - 1], space, vectors[n])
  IN  After[Len(vectors)]

\* The members of a Namespace in the order of their IDs.
ListNamespaceVectorIDs(space) ==
  Ascending({member.vector : member \in {m \in members : m.space = space}})

\* countInvalidNamespaceVectors
Invalid(space) ==
  {member \in members :
     /\ member.space = space
     /\ \/ member.vector \notin DOMAIN embedding
        \/ ~\E row \in indexed : /\ row.id = member.id
                                 /\ row.space = space
                                 /\ row.vector = member.vector}

-----------------------------------------------------------------------------
(* Adding *)

\* The texts from one position to another are no more than a batch may have.
Fits(input, from, to) ==
  /\ to - from < BatchSize
  /\ FoldSeq(LAMBDA id, sum : Tokens[id] + sum, 0, SubSeq(input, from, to)) <= BatchMaxTokens

\* generator.batches: where the batch of every text starts.
Starts(input) ==
  LET Start[n \in DOMAIN input] ==
        IF n > 1 /\ Fits(input, Start[n - 1], n) THEN Start[n - 1] ELSE n
  IN  Start

\* The texts of the batch that starts at a position.
Batch(input, start) ==
  LET texts == {n \in DOMAIN input : Starts(input)[n] = start}
  IN  [k \in 1 .. Cardinality(texts) |-> input[start + k - 1]]

\* Embed of a batch: one sample for every text, in their order.
Answer(batch, sample) == [n \in DOMAIN batch |-> [of |-> batch[n], sample |-> sample[batch[n]]]]

\* generate: every text has the answer at its offset in its batch.
Generated(input, sample) ==
  [n \in DOMAIN input |->
     LET start == Starts(input)[n]
     IN  [id |-> input[n], values |-> Answer(Batch(input, start), sample)[n - start + 1]]]

\* prepareVectors: the one dimension of the vectors, 0 when there is none.
Dimension(vectors) ==
  IF vectors = <<>> THEN 0 ELSE Head(vectors).values.sample.dimension
OneDimension(vectors) ==
  \A n \in DOMAIN vectors : vectors[n].values.sample.dimension = Dimension(vectors)

\* Store.Lookup: those of the IDs that the cache has.
Lookup(ids) ==
  LET hits == Ascending(ids \cap DOMAIN embedding)
  IN  [n \in DOMAIN hits |-> [id |-> hits[n], values |-> embedding[hits[n]]]]

\* Service.Add up to its Lookup.
Begin(c, name, ids) ==
  /\ up /\ add[c] = Ended /\ adds < MaxAdds
  /\ \A id \in ids : Tokens[id] <= BatchMaxTokens
  /\ LET missing == ids \ DOMAIN embedding
     IN  add' = [add EXCEPT ![c] = [at |-> IF missing = {} THEN "store" ELSE "generate",
                                    name |-> name, missing |-> missing, vectors |-> Lookup(ids)]]
  /\ adds' = adds + 1
  /\ UNCHANGED <<tables, reader, up, deletes, restarts>>

Generate(c) ==
  /\ add[c].at = "generate"
  /\ \E sample \in [add[c].missing -> Samples] :
       LET generated == Generated(Ascending(add[c].missing), sample)
       IN  add' = [add EXCEPT ![c] =
             IF OneDimension(generated)
               THEN [at |-> "store", name |-> add[c].name, missing |-> add[c].missing,
                     vectors |-> add[c].vectors \o generated]
               ELSE Ended]
  /\ UNCHANGED <<tables, reader, up, adds, deletes, restarts>>

\* Store.Add, one transaction: the first vectors fix the dimension.
StoreAdd(c) ==
  LET vectors == add[c].vectors
      fixed == IF dimension = 0 THEN Dimension(vectors) ELSE dimension
      spaces == RetainNamespace(add[c].name)
      space == GetNamespace(spaces, add[c].name).id
      db == RetainAll(space, vectors)
  IN  /\ add[c].at = "store"
      /\ add' = [add EXCEPT ![c] = Ended]
      /\ IF OneDimension(vectors) /\ Dimension(vectors) \in {0, fixed} /\ ~db.clash
           THEN /\ dimension' = fixed /\ namespaces' = spaces
                /\ embedding' = db.embedding /\ members' = db.members /\ indexed' = db.indexed
           ELSE UNCHANGED <<dimension, namespaces, embedding, members, indexed>>
      /\ UNCHANGED <<model, reader, up, adds, deletes, restarts>>

\* Any step fails: a busy database, the provider, the context of the caller.
Fail(c) ==
  /\ add[c] # Ended
  /\ add' = [add EXCEPT ![c] = Ended]
  /\ UNCHANGED <<tables, reader, up, adds, deletes, restarts>>

\* deleteVectors and DeleteNamespaceVectors
Without(rows, space) == {row \in rows : row.space # space.id}

\* Store.Delete; what the cache has retained stays.
Delete(name) ==
  /\ up /\ deletes < MaxDeletes /\ Exists(name)
  /\ LET space == GetNamespace(namespaces, name)
     IN  /\ indexed' = Without(indexed, space)
         /\ members' = Without(members, space)
         /\ namespaces' = namespaces \ {space}
  /\ deletes' = deletes + 1
  /\ UNCHANGED <<model, dimension, embedding, add, reader, up, adds, restarts>>

-----------------------------------------------------------------------------
(* Reading *)

\* Store.Open: a read transaction, which sees what is committed now.
Open(r, name) ==
  /\ up /\ ~reader[r].open /\ Exists(name)
  /\ dimension > 0
  /\ LET space == GetNamespace(namespaces, name).id
     IN  /\ Invalid(space) = {}
         /\ reader' = [reader EXCEPT ![r] =
              [open |-> TRUE, ids |-> ListNamespaceVectorIDs(space),
               rows |-> {row \in indexed : row.space = space},
               after |-> 0, read |-> <<>>, more |-> TRUE, found |-> {}]]
  /\ UNCHANGED <<tables, add, up, adds, deletes, restarts>>

\* IDs: one row more than the page tells whether there is another.
NextPage(r) ==
  /\ reader[r].open /\ reader[r].more
  /\ LET rows == Ascending({id \in ToSet(reader[r].ids) : id > reader[r].after})
         page == SubSeq(rows, 1, Min({PageLimit, Len(rows)}))
     IN  reader' = [reader EXCEPT
           ![r].read = @ \o page,
           ![r].after = IF page = <<>> THEN @ ELSE Last(page),
           ![r].more = Len(rows) > PageLimit]
  /\ UNCHANGED <<tables, add, up, adds, deletes, restarts>>

\* Search: as many of the nearest as are asked for.
Search(r) ==
  /\ reader[r].open
  /\ \E limit \in 1 .. Cardinality(Ids) :
     \E nearest \in kSubset(Min({limit, Cardinality(reader[r].rows)}), reader[r].rows) :
       reader' = [reader EXCEPT ![r].found = {row.vector : row \in nearest}]
  /\ UNCHANGED <<tables, add, up, adds, deletes, restarts>>

Close(r) ==
  /\ reader[r].open
  /\ reader' = [reader EXCEPT ![r] = Closed]
  /\ UNCHANGED <<tables, add, up, adds, deletes, restarts>>

\* The process stops and is started again, perhaps configured with another
\* model: NewStore refuses to open the store with it.
Restart(configured) ==
  /\ restarts < MaxRestarts
  /\ up' = (configured = model)
  /\ add' = [c \in Callers |-> Ended] /\ reader' = [r \in Readers |-> Closed]
  /\ restarts' = restarts + 1
  /\ UNCHANGED <<tables, adds, deletes>>

Next ==
  \/ \E c \in Callers : \/ \E name \in Names, ids \in SUBSET Ids : Begin(c, name, ids)
                        \/ Generate(c) \/ StoreAdd(c) \/ Fail(c)
  \/ \E name \in Names : Delete(name)
  \/ \E r \in Readers : \/ \E name \in Names : Open(r, name)
                        \/ NextPage(r) \/ Search(r) \/ Close(r)
  \/ \E configured \in Models : Restart(configured)

Spec == Init /\ [][Next]_vars

-----------------------------------------------------------------------------

\* Types of the variables.
TypeOK ==
  /\ model \in Models /\ dimension \in Nat /\ up \in BOOLEAN
  /\ DOMAIN embedding \subseteq Ids
  /\ \A space \in namespaces : space.id \in Nat /\ space.name \in Names
  /\ \A member \in members : member.vector \in Ids
  /\ \A c \in Callers : add[c].at \in {"ended", "generate", "store"}
  /\ \A r \in Readers : reader[r].open \in BOOLEAN

\* A Namespace can always be opened whole: every member has its index row, and
\* every row of the index is a member of a Namespace that exists, even where
\* rowids of deleted ones are used again (write.go, countInvalidNamespaceVectors).
IndexWhole ==
  /\ {[id |-> row.id, space |-> row.space, vector |-> row.vector] : row \in indexed} = members
  /\ \A member \in members : \E space \in namespaces : space.id = member.space
  /\ \A left, right \in members : left.id = right.id => left = right

\* An ID means one vector everywhere, of its own text and of the dimension that
\* was fixed first, although callers who add it at once each ask the model.
OneVectorPerId ==
  /\ \A row \in indexed : row.vector \in DOMAIN embedding /\ row.values = embedding[row.vector]
  /\ \A id \in DOMAIN embedding : /\ embedding[id].of = id
                                  /\ embedding[id].sample.dimension = dimension

\* A reader pages through exactly the members of one moment, each once.
PagesWhole ==
  \A r \in Readers : reader[r].open =>
    /\ IsPrefix(reader[r].read, reader[r].ids)
    /\ ~reader[r].more => reader[r].read = reader[r].ids
    /\ reader[r].found \subseteq ToSet(reader[r].ids)

\* What the vector store promises, whatever fails, races or is deleted.
VectorsKept == IndexWhole /\ OneVectorPerId /\ PagesWhole
=============================================================================
