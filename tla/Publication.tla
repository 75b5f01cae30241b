---------------------------- MODULE Publication ----------------------------
(***************************************************************************)
(* From a completed Corpora to the Current Epoch of one Zone: Knowledge    *)
(* extraction publishes a Knowledge Manifest, the Entity vectors and the   *)
(* Community Structure of that Manifest are derived independently, and     *)
(* Epoch publication joins the two and selects a new Current Epoch.        *)
(*                                                                         *)
(* Four Actions, one goroutine each, every one delivering its events as    *)
(* ActionRuntime.tla describes: the result commits first, the position     *)
(* advances in a later transaction, and a stop in between redelivers.      *)
(* A boundary is what an Epoch binds: a Corpora and a Knowledge Manifest.  *)
(***************************************************************************)
EXTENDS Naturals, Sequences, Functions

CONSTANTS
  Corpora,      \* bound: Corpora 1 .. Corpora are completed, in this order
  Units,        \* TextUnits of a Corpora
  MaxVersion,   \* bound on the changes of formal Knowledge
  MaxRestarts   \* bound on the times the process stops and starts again

BoundsAssumption ==
  Corpora \in Nat /\ Units \in Nat /\ MaxVersion \in Nat /\ MaxRestarts \in Nat

VARIABLES
  completed,   \* CorporaPrepared events of the Journal, one per Corpora
  extracted,   \* extracted[c] : TextUnits of c whose Knowledge is submitted
  version,     \* formal Knowledge: every change makes another Manifest
  published,   \* Knowledge PublishedV1 events : boundaries
  namespaces,  \* Entity vector Namespaces, by Manifest (semantic store)
  indexed,     \* EntityVectorsIndexedV1 events : [boundary, at]
  structures,  \* StructurePreparedV1 events, one per saved Structure
  epochs,      \* the Epochs by ID : boundaries; the last one is Current
  positions,   \* positions[k] : the consumer positions
  pc,          \* pc[a] : where the goroutine of Action a is
  through,     \* the boundaries of Epoch publication's activation
  expected,    \* the Current Epoch it read before the transaction
  alive,       \* no Action has returned an error
  restarts     \* how often the process has stopped; tells the clock readings
               \* of two deliveries of one event apart

knowledgeVars == <<completed, extracted, version, published>>
derivedVars == <<namespaces, indexed, structures>>
epochVars == <<epochs, through, expected>>
processVars == <<alive, restarts>>
vars == <<knowledgeVars, derivedVars, epochVars, positions, pc, processVars>>

Consumers == {"extraction", "vectors", "derivation", "epoch.structures", "epoch.vectors"}
Actions == {"extraction", "vectors", "derivation", "epoch"}

Boundary(c, k) == [corpora |-> c, knowledge |-> k]

Indexed(b)  == \E j \in 1 .. Len(indexed) : indexed[j].boundary = b
Prepared(b) == b \in Range(structures)

Init ==
  /\ completed = 0
  /\ extracted = [c \in 1 .. Corpora |-> 0]
  /\ version = 0
  /\ published = << >>
  /\ namespaces = {}
  /\ indexed = << >>
  /\ structures = << >>
  /\ epochs = << >>
  /\ positions = [k \in Consumers |-> 0]
  /\ pc = [a \in Actions |-> "idle"]
  /\ through = [structures |-> 0, vectors |-> 0]
  /\ expected = 0
  /\ alive = TRUE
  /\ restarts = 0

-----------------------------------------------------------------------------
(* Steps the four Actions share *)

\* The Action stands before event n of its EventType.
At(action, consumer, n, log) ==
  /\ alive
  /\ pc[action] = "idle"
  /\ positions[consumer] < log
  /\ n = positions[consumer] + 1

Goto(action, label) == pc' = [pc EXCEPT ![action] = label]

\* An error other than ErrEventIncomplete ends Run and with it the process.
Stop == alive' = FALSE

\* Advance: the position moves behind the event whose result has committed.
Advance(action, consumer) ==
  /\ alive
  /\ pc[action] = "handled"
  /\ positions' = [positions EXCEPT ![consumer] = @ + 1]
  /\ Goto(action, "idle")
  /\ UNCHANGED <<knowledgeVars, derivedVars, epochVars, processVars>>

-----------------------------------------------------------------------------
(* External: the Corpus completes a Corpora after its TextUnit vectors, and *)
(* agents and reviewers change formal Knowledge at any time.                *)

CompleteCorpora ==
  /\ completed < Corpora
  /\ completed' = completed + 1
  /\ UNCHANGED <<extracted, version, published, derivedVars, epochVars, positions, pc, processVars>>

ChangeKnowledge ==
  /\ version < MaxVersion
  /\ version' = version + 1
  /\ UNCHANGED <<completed, extracted, published, derivedVars, epochVars, positions, pc, processVars>>

-----------------------------------------------------------------------------
(* Knowledge extraction: ExtractCorpora.  A rejected Agent result leaves    *)
(* the event incomplete, which changes nothing here.                        *)

\* Mutant: the number of TextUnits is not looked at.
ExtractUnit_Endless(c) ==
  /\ At("extraction", "extraction", c, completed)
  /\ extracted' = [extracted EXCEPT ![c] = @ + 1]
  /\ UNCHANGED <<completed, version, published, derivedVars, epochVars, positions, pc, processVars>>

\* One TextUnit: Submit and AdvanceExtraction commit together.  Submitting
\* what is known already adds no Version.
ExtractUnit(c) ==
  /\ At("extraction", "extraction", c, completed)
  /\ extracted[c] < Units
  /\ extracted' = [extracted EXCEPT ![c] = @ + 1]
  /\ version' \in {version, version + 1}
  /\ version' <= MaxVersion
  /\ UNCHANGED <<completed, published, derivedVars, epochVars, positions, pc, processVars>>

\* The PublishedV1 event an earlier delivery of Corpora c has committed; its
\* EventID is computed from the event being handled.
PublishedFor(c) == {i \in 1 .. Len(published) : published[i].corpora = c}

\* CurrentManifest and the event in one transaction.  The Journal accepts an
\* EventID it has only for an equal event, else ErrEventConflict.
PublishKnowledge(c) ==
  /\ At("extraction", "extraction", c, completed)
  /\ extracted[c] = Units
  /\ IF PublishedFor(c) = {}
       THEN /\ published' = Append(published, Boundary(c, version))
            /\ Goto("extraction", "handled")
            /\ UNCHANGED alive
       ELSE /\ IF \A i \in PublishedFor(c) : published[i] = Boundary(c, version)
                 THEN Goto("extraction", "handled") /\ UNCHANGED alive
                 ELSE Stop /\ UNCHANGED pc
            /\ UNCHANGED published
  /\ UNCHANGED <<completed, extracted, version, derivedVars, epochVars, positions, restarts>>

-----------------------------------------------------------------------------
(* Entity vectors: EntityVectorAction.build *)

BuildVectors(n) ==
  /\ At("vectors", "vectors", n, Len(published))
  /\ namespaces' = namespaces \union {published[n].knowledge}
  /\ Goto("vectors", "built")
  /\ UNCHANGED <<knowledgeVars, indexed, structures, epochVars, positions, processVars>>

\* The event of an earlier delivery carries the time of that delivery.
IndexedEvent(b) == [boundary |-> b, at |-> restarts]

PublishVectors ==
  LET b == published[positions["vectors"] + 1] IN
    /\ alive
    /\ pc["vectors"] = "built"
    /\ IF ~Indexed(b)
         THEN indexed' = Append(indexed, IndexedEvent(b)) /\ Goto("vectors", "handled") /\ UNCHANGED alive
         ELSE /\ IF IndexedEvent(b) \in Range(indexed)
                   THEN Goto("vectors", "handled") /\ UNCHANGED alive
                   ELSE Stop /\ UNCHANGED pc
              /\ UNCHANGED indexed
    /\ UNCHANGED <<knowledgeVars, namespaces, structures, epochVars, positions, restarts>>

-----------------------------------------------------------------------------
(* Community Structure: Builder.Build.  A Structure saved for the boundary  *)
(* is returned as it is; a new one commits together with its event.         *)

DeriveStructure(n) ==
  /\ At("derivation", "derivation", n, Len(published))
  /\ structures' = IF Prepared(published[n]) THEN structures ELSE Append(structures, published[n])
  /\ Goto("derivation", "handled")
  /\ UNCHANGED <<knowledgeVars, namespaces, indexed, epochVars, positions, processVars>>

-----------------------------------------------------------------------------
(* Epoch publication: PublicationAction and lifecycle Publish *)

\* An activation: the pending events of both EventTypes, StructurePrepared
\* first.
StartPublication ==
  /\ alive
  /\ pc["epoch"] = "idle"
  /\ \/ positions["epoch.structures"] < Len(structures)
     \/ positions["epoch.vectors"] < Len(indexed)
  /\ through' = [structures |-> Len(structures), vectors |-> Len(indexed)]
  /\ Goto("epoch", "joining")
  /\ UNCHANGED <<knowledgeVars, derivedVars, epochs, expected, positions, processVars>>

ServesStructures == positions["epoch.structures"] < through.structures
ServesVectors == ~ServesStructures /\ positions["epoch.vectors"] < through.vectors

\* The boundary of the event being handled.
Joining ==
  IF ServesStructures THEN structures[positions["epoch.structures"] + 1]
                      ELSE indexed[positions["epoch.vectors"] + 1].boundary

\* Mutant: only the events still pending are searched.
Joined_Pending(b) ==
  IF ServesStructures
    THEN \E j \in positions["epoch.vectors"] + 1 .. Len(indexed) : indexed[j].boundary = b
    ELSE \E i \in positions["epoch.structures"] + 1 .. Len(structures) : structures[i] = b

\* Mutant: only a Structure looks for the vectors, never the reverse.
Joined_OneWay(b) == ServesStructures /\ Indexed(b)

\* hasEntityVectors and findStructure scan the other EventType from its start.
Joined(b) == IF ServesStructures THEN Indexed(b) ELSE Prepared(b)

\* Readiness.Check, of what this module has.
Ready(b) == b.knowledge \in namespaces /\ Prepared(b)

\* The Structure has its Epoch already.
HasEpoch(b) == b \in Range(epochs)

\* The first half of the event is consumed silently, the second publishes
\* unless the Structure has its Epoch already.
JoinEvent ==
  LET b == Joining IN
    /\ alive
    /\ pc["epoch"] = "joining"
    /\ ServesStructures \/ ServesVectors
    /\ IF ~Joined(b) \/ HasEpoch(b)
         THEN Goto("epoch", "handled") /\ UNCHANGED <<expected, alive>>
         ELSE IF ~Ready(b)
         THEN Stop /\ UNCHANGED <<pc, expected>>
         ELSE Goto("epoch", "publishing") /\ expected' = Len(epochs) /\ UNCHANGED alive
    /\ UNCHANGED <<knowledgeVars, derivedVars, epochs, through, positions, restarts>>

\* store.Publish compares Current, creates the Epoch and selects it, together
\* with the Epoch's own event.
PublishEpoch ==
  /\ alive
  /\ pc["epoch"] = "publishing"
  /\ IF expected = Len(epochs)
       THEN epochs' = Append(epochs, Joining) /\ Goto("epoch", "handled") /\ UNCHANGED alive
       ELSE Stop /\ UNCHANGED <<epochs, pc>>
  /\ UNCHANGED <<knowledgeVars, derivedVars, through, expected, positions, restarts>>

AdvancePublication ==
  /\ alive
  /\ pc["epoch"] = "handled"
  /\ LET k == IF ServesStructures THEN "epoch.structures" ELSE "epoch.vectors"
     IN positions' = [positions EXCEPT ![k] = @ + 1]
  /\ Goto("epoch", "joining")
  /\ UNCHANGED <<knowledgeVars, derivedVars, epochVars, processVars>>

EndPublication ==
  /\ alive
  /\ pc["epoch"] = "joining"
  /\ ~ServesStructures
  /\ ~ServesVectors
  /\ Goto("epoch", "idle")
  /\ UNCHANGED <<knowledgeVars, derivedVars, epochVars, positions, processVars>>

-----------------------------------------------------------------------------
\* The process is killed, or has stopped, and starts again.
Restart ==
  /\ restarts < MaxRestarts
  /\ restarts' = restarts + 1
  /\ alive' = TRUE
  /\ pc' = [a \in Actions |-> "idle"]
  /\ UNCHANGED <<knowledgeVars, derivedVars, epochVars, positions>>

Extraction ==
  \/ \E c \in 1 .. Corpora : ExtractUnit(c) \/ PublishKnowledge(c)
  \/ Advance("extraction", "extraction")

VectorIndexing ==
  \/ \E n \in 1 .. Corpora : BuildVectors(n)
  \/ PublishVectors
  \/ Advance("vectors", "vectors")

Derivation ==
  \/ \E n \in 1 .. Corpora : DeriveStructure(n)
  \/ Advance("derivation", "derivation")

EpochPublication ==
  \/ StartPublication
  \/ JoinEvent
  \/ PublishEpoch
  \/ AdvancePublication
  \/ EndPublication

Next ==
  \/ CompleteCorpora
  \/ ChangeKnowledge
  \/ Extraction
  \/ VectorIndexing
  \/ Derivation
  \/ EpochPublication
  \/ Restart

Spec == Init /\ [][Next]_vars

\* Automatic policies start every Action whose input is pending.
FairSpec ==
  /\ Spec
  /\ WF_vars(Extraction) /\ WF_vars(VectorIndexing)
  /\ WF_vars(Derivation) /\ WF_vars(EpochPublication)

-----------------------------------------------------------------------------
(* Properties *)

Boundaries == [corpora : Nat, knowledge : Nat]

TypeOK ==
  /\ completed \in Nat /\ version \in Nat
  /\ extracted \in [1 .. Corpora -> 0 .. Units]
  /\ published \in Seq(Boundaries)
  /\ namespaces \subseteq Nat
  /\ indexed \in Seq([boundary : Boundaries, at : Nat])
  /\ structures \in Seq(Boundaries)
  /\ epochs \in Seq(Boundaries)
  /\ positions \in [Consumers -> Nat]
  /\ pc \in [Actions -> {"idle", "built", "joining", "publishing", "handled"}]
  /\ through \in [structures : Nat, vectors : Nat]
  /\ expected \in Nat
  /\ alive \in BOOLEAN
  /\ restarts \in Nat

(* The join loses nothing: once both halves of a boundary are behind the    *)
(* positions of Epoch publication, its Epoch exists - whichever half came   *)
(* second, wherever the process stopped in between.                         *)
JoinComplete ==
  \A i \in 1 .. positions["epoch.structures"], j \in 1 .. positions["epoch.vectors"] :
    structures[i] = indexed[j].boundary => structures[i] \in Range(epochs)

(* A Structure gets one Epoch, however often its events are delivered, and  *)
(* an Epoch binds only what exists: a published Manifest, its vectors and   *)
(* its Structure; and the transaction of publication always finds the       *)
(* Current Epoch it expects.                                                *)
EpochsReady ==
  /\ IsInjective(epochs)
  /\ \A i \in 1 .. Len(epochs) :
       /\ epochs[i] \in Range(published)
       /\ Ready(epochs[i])
       /\ Indexed(epochs[i])
  /\ pc["epoch"] = "publishing" => expected = Len(epochs)

(* A Manifest is published for a Corpora only when the Knowledge of all its *)
(* TextUnits is in it, and Manifests are published in the order they were   *)
(* current, whatever is redelivered.                                        *)
ManifestsInOrder ==
  /\ \A i \in 1 .. Len(published) : extracted[published[i].corpora] = Units
  /\ \A i, j \in 1 .. Len(published) :
       i <= j => published[i].knowledge <= published[j].knowledge

(* Every completed Corpora gets into an Epoch, whichever of its vectors and *)
(* its Structure comes last - unless the process has been stopped before    *)
(* and one of RedeliveryAccepted's errors stops it again.  A Corpora stays  *)
(* completed, so this is "c is completed" ~> "c is in an Epoch, or so".     *)
EventuallyCurrent ==
  \A c \in 1 .. Corpora :
    []<>(c <= completed =>
           (~alive /\ restarts > 0) \/ \E i \in 1 .. Len(epochs) : epochs[i].corpora = c)

(* What the comment of the Epoch store's Publish says (epoch/adapter/sqlite *)
(* /publish.go:17-19): a regressing set of Knowledge Versions is rejected.  *)
KnowledgeNeverRegresses ==
  \A i, j \in 1 .. Len(epochs) : i <= j => epochs[i].knowledge <= epochs[j].knowledge

(* What Consumer.Handle promises (journal/registration.go:27-30): after it  *)
(* has committed its result and recovery identity, the event is recognised  *)
(* when a stop before Advance delivers it again, and the Action goes on.    *)
RedeliveryAccepted == alive
=============================================================================
