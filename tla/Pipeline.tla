------------------------------ MODULE Pipeline ------------------------------
(***************************************************************************)
(* The Journal Dispatcher beside the work that events lead to: publication *)
(* of an Epoch, the detection of Communities and the vector store.  They   *)
(* share no state of these models, so a behaviour is that of one of them:  *)
(* part says which.                                                        *)
(***************************************************************************)
EXTENDS Dispatcher

CONSTANTS
  \* Publication
  Corpora, Units, MaxVersion, MaxStops,
  \* Detection
  Projections, Limits, UseLargestConnectedComponent, MaxIterations,
  \* Vectors
  Names, Ids, Tokens, Samples, Models, Callers, Readers, BatchSize, BatchMaxTokens, PageLimit,
  MaxAdds, MaxDeletes, MaxStarts

VARIABLES
  part,
  completed, extracted, version, published, namespaces, indexed, structures,
  epochs, cursors, pc, through, expected, alive, stops,
  relations, edges, run, hierarchy, outcome, communities,
  model, dimension, embedding, spaces, members, rows, add, reader, up,
  adds, deletes, starts

pubVars == <<completed, extracted, version, published, namespaces, indexed, structures,
             epochs, cursors, pc, through, expected, alive, stops>>
detVars == <<relations, edges, run, hierarchy, outcome, communities>>
vecVars == <<model, dimension, embedding, spaces, members, rows, add, reader, up,
             adds, deletes, starts>>

Pub == INSTANCE Publication WITH
  MaxRestarts <- MaxStops, positions <- cursors, restarts <- stops

Det == INSTANCE Detection

Vec == INSTANCE Vectors WITH
  MaxRestarts <- MaxStarts, namespaces <- spaces, indexed <- rows, restarts <- starts

ASSUME PublicationBounds == Pub!BoundsAssumption
ASSUME DetectionAssumptions == Det!Assumptions
ASSUME VectorAssumptions == Vec!Assumptions

Parts == {"dispatcher", "publication", "detection", "vectors"}

-----------------------------------------------------------------------------

PipelineInit ==
  /\ part \in Parts
  /\ Init /\ Pub!Init /\ Det!Init /\ Vec!Init
  /\ part # "detection" => relations = CHOOSE input \in Projections : TRUE
  /\ part # "vectors" => model = CHOOSE known \in Models : TRUE

\* Only the part called name takes steps.
Only(name) ==
  /\ part = name
  /\ UNCHANGED part
  /\ IF name = "dispatcher" THEN TRUE ELSE UNCHANGED vars
  /\ IF name = "publication" THEN TRUE ELSE UNCHANGED pubVars
  /\ IF name = "detection" THEN TRUE ELSE UNCHANGED detVars
  /\ IF name = "vectors" THEN TRUE ELSE UNCHANGED vecVars

PipelineNext ==
  \/ Only("dispatcher") /\ Next
  \/ Only("publication") /\ Pub!Next
  \/ Only("detection") /\ Det!Next
  \/ Only("vectors") /\ Vec!Next

pipelineVars == <<part, vars, pubVars, detVars, vecVars>>

\* The fairness of FairSpec of Dispatcher and of Publication, which asks for
\* nothing in the behaviours of another part.
PipelineSpec ==
  /\ PipelineInit
  /\ [][PipelineNext]_pipelineVars
  /\ WF_vars(part = "dispatcher" /\ Walk)
  /\ WF_pubVars(part = "publication" /\ Pub!Extraction)
  /\ WF_pubVars(part = "publication" /\ Pub!VectorIndexing)
  /\ WF_pubVars(part = "publication" /\ Pub!Derivation)
  /\ WF_pubVars(part = "publication" /\ Pub!EpochPublication)

-----------------------------------------------------------------------------

\* The types of the variables of the part that takes steps; those of the
\* Dispatcher are proved (DispatcherProofs.tla).
PipelineTypeOK ==
  CASE part = "dispatcher" -> TRUE
    [] part = "publication" -> Pub!TypeOK
    [] part = "detection" -> Det!TypeOK
    [] part = "vectors" -> Vec!TypeOK

\* The properties of the parts, as their modules state them: nothing is lost at
\* the join of vectors and Structure, an Epoch binds what exists, and Manifests
\* are published in order (epoch/adapter/journal, knowledge/extraction),
EpochsJoined == Pub!JoinComplete /\ Pub!EpochsReady /\ Pub!ManifestsInOrder

\* every completed Corpora gets into an Epoch (epoch/adapter/journal),
EventuallyCurrent == Pub!EventuallyCurrent

\* a detection improves level by level and is accepted (community/detector.go),
DetectionSound == Det!DetectionSound

\* and a Namespace is whole, with one vector per ID (semantic/adapter/sqlite).
VectorsKept == Vec!VectorsKept
=============================================================================
