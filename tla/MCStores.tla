------------------------------ MODULE MCStores ------------------------------
(* Knowledge of an Entity and a Relation, the tables below it, those of       *)
(* Community and those of the Corpus: part says whose behaviour it is, as     *)
(* they share no state of these models.                                       *)
EXTENDS MCKnowledge, FiniteSets

CONSTANTS s1, s2, s3, s4, s5, idle, cat

VARIABLES
  part,
  tables, tx, told, reading,
  rows, open, building, generating, formal, changes, manifests, deriving, epochs, reported,
  namespaces, page, halts,
  kept, writing, answered, appends, recorded, prepared, units, converted, chunked, assembled,
  vectors, chunker, assembler, restarts

storeVars == <<tables, tx, told, reading>>
communityVars == <<rows, open, building, generating, formal, changes, manifests, deriving, epochs,
                   reported, namespaces, page, halts>>
corpusVars == <<kept, writing, answered, appends, recorded, prepared, units, converted, chunked,
                assembled, vectors, chunker, assembler, restarts>>

\* An Entity, a Relation of it to itself and a Claim about the Relation.
Commands ==
  {<<<<1, 2>>>>, <<<<3, 2>>>>, <<<<2, 2>>, <<2, 1>>, <<2, 2>>>>,
   <<<<3, 1>>, <<2, 1>>, <<1, 1>>>>, <<<<2, 1>>, <<1, 2>>, <<1, 1>>>>}

SourceIDs == <<s1, s2, s3, s4, s5>>

Store == INSTANCE KnowledgeStore WITH
  Objects <- {1, 2, 3}, Kind <- <<"entity", "relation", "claim">>, Refs <- <<{}, {1}, {2}>>,
  Contents <- {1, 2}, Sources <- {s1, s2, s3, s4}, Agents <- {cat},
  Cites <- [k \in {s1, s2, s3, s4} |-> {k}], Idle <- idle,
  answers <- told, reviews <- reading

\* Two Relations that share an Entity.
Community == INSTANCE CommunityStore WITH
  Relations <- {1, 2}, Ends <- <<{1, 2}, {2, 3}>>, Threshold <- 2, Pages <- 1, MaxChanges <- 3,
  MaxManifests <- 2, MaxStops <- 1, Idle <- idle, None <- idle, tables <- rows, tx <- open

\* Two Documents are uploaded; a Child Zone has one of them, too.
TwoDocuments == {1, 2}
OfChild == {1}
Chunked == <<<<1, 2, 1>>, <<2>>>>
ExtractionWarnings == <<<<1, 2>>, << >>>>
Conversations == {<<[id |-> 1, text |-> 1], [id |-> 2, text |-> 4]>>}

Corpus == INSTANCE CorpusStore WITH
  Documents <- TwoDocuments, Children <- OfChild, Known <- OfChild, MaxRecorded <- 2,
  MaxCorpora <- 2, MaxRestarts <- 1, Chunks <- Chunked, BatchSize <- 2,
  Warned <- ExtractionWarnings, MaxCalls <- 2, Idle <- idle, MessageLists <- Conversations,
  tables <- kept, tx <- writing

ASSUME StoreObjects == Store!ObjectsAssumption

\* Nothing orders Sources: those before s in SourceIDs are used before it.
Earlier(s) ==
  LET at == CHOOSE i \in DOMAIN SourceIDs : SourceIDs[i] = s
  IN {SourceIDs[i] : i \in 1..(at - 1)}

NextSource ==
  {s \in Sources : answers[s] = Unused /\ \A q \in Earlier(s) : answers[q] # Unused}

\* Reviews change nothing until they are decided, each under a Source of its own:
\* no more are open than can be.
ReviewsUseful ==
  Cardinality({a \in Agents : reviews[a] # NoReview})
    <= Cardinality({s \in Sources : answers[s] = Unused})

RowSourcesInOrder ==
  tx # idle => \A q \in Earlier(tx.source) : told[q] # Unused

\* Nor does anything order Contents or Agents.
Interchangeable == Permutations(Contents) \union Permutations(Agents)

-----------------------------------------------------------------------------
\* Nothing derived reads formal Knowledge but by its Manifests, so that these
\* may all come first.
KnowledgeFirst ==
  <<formal, changes, manifests>>' # <<formal, changes, manifests>> <=> Len(manifests) < 2

TablesInit ==
  /\ part \in {"versions", "tables", "communities", "corpus"}
  /\ Init
  /\ Store!Init
  /\ Community!Init
  /\ Corpus!Init

TablesNext ==
  \/ /\ part = "versions" /\ UNCHANGED <<part, storeVars, communityVars, corpusVars>>
     /\ Steps(NextSource) /\ ReviewsUseful'
  \/ /\ part = "tables" /\ UNCHANGED <<part, vars, communityVars, corpusVars>>
     /\ Store!Next /\ RowSourcesInOrder'
  \/ /\ part = "communities" /\ UNCHANGED <<part, vars, storeVars>>
     /\ UNCHANGED corpusVars
     /\ Community!Next /\ KnowledgeFirst
  \/ /\ part = "corpus" /\ UNCHANGED <<part, vars, storeVars, communityVars>>
     /\ Corpus!Next

TablesSpec == TablesInit /\ [][TablesNext]_<<part, vars, storeVars, communityVars, corpusVars>>

-----------------------------------------------------------------------------

\* The tables are sound after every commit and the readers see all of them:
\* those of Knowledge (knowledge/adapter/sqlite), those of Community, where every
\* Structure and every publication is whole (community/adapter/sqlite), and those
\* of the Corpus, where every activated Corpora has its Texts whole and where
\* Messages stay as they were answered (corpus/adapter/sqlite, corpus/message).
StoreSound ==
  /\ part = "tables" => Store!TypeOK /\ Store!StoreSound
  /\ part = "communities" => Community!CommunitiesSound
  /\ part = "corpus" => Corpus!CorpusSound

\* Each transaction over the tables is one step of the module that does not know
\* them, or nothing: of Knowledge (knowledge/submission, knowledge/resolution,
\* knowledge/deletion), of Communities (community/structurebuild,
\* community/reportgeneration), and of Corpora (corpus, corpus/zonemerger).
TransactionsAtomic ==
  /\ Store!K!Init
  /\ Community!C!Init
  /\ Corpus!C!Init
  /\ [][\/ part = "versions"
        \/ part = "tables" /\ Store!StepOfKnowledge
        \/ part = "communities" /\ Community!StepOfCommunities
        \/ part = "corpus" /\ Corpus!StepOfCorpora]_<<storeVars, communityVars, corpusVars>>
=============================================================================
