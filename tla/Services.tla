------------------------------ MODULE Services ------------------------------
(***************************************************************************)
(* The Journal store beside the application services that commit what they *)
(* do through it.  They share no state of these models, so a behaviour is  *)
(* that of one of them: part says which.                                   *)
(***************************************************************************)
EXTENDS Journal, Searches

CONSTANTS
  \* Documents
  DocumentContents, Extensions, Uploaders, MaxUploads, MaxCrashes,
  \* Corpora
  Documents, ChildDocuments, TextBatches, MaxRecorded, MaxCorpora, MaxRestarts,
  \* ZoneMerge
  Objects, VersionContents, Sources, MaxWrites,
  \* Memory
  Agents, Memories, MessageLists, MaxCalls,
  \* Activation
  Subjects, ObservationIds, Grades, Times, Models, Submitters, MaxVersions, MaxStops,
  \* Communities
  Relations, RelationEnds, ChangeThreshold, Pages, MaxChanges, MaxManifests, MaxReportStops,
  \* Service
  Runners, Requests,
  \* Citations
  Datasets, MaxRow, Answers, FoldAnswers, MaxCites

VARIABLES
  part,
  files, documents, publishing, upload, begun, crashes,
  recorded, prepared, units, converted, chunked, assembled, boundary, current,
  building, spans, progress, vectors, vectored, chunker, assembler, restarts,
  child, parent, assigned, commands, calls, writes,
  log, accepted, call, begins,
  targets, observations, states, archived, model, submission, stops,
  formal, changes, manifests, sets, structures, pending, deriving, epochs,
  reported, publications, namespaces, page, halts,
  interrupted, cancelled, stage, start, sidecar, ready, exit, stopping, session,
  runners, failure, dispatch, server, requests, held,
  candidate, ledger, admitted, truncated, audited

docsVars == <<files, documents, publishing, upload, begun, crashes>>
corpVars == <<recorded, prepared, units, converted, chunked, assembled, boundary,
              current, building, spans, progress, vectors, vectored, chunker,
              assembler, restarts>>
zoneVars == <<child, parent, assigned, commands, calls, writes>>
memVars == <<log, accepted, call, begins>>
actVars == <<targets, observations, states, archived, model, submission, stops>>
comVars == <<formal, changes, manifests, sets, structures, pending, deriving,
             epochs, reported, publications, namespaces, page, halts>>
procVars == <<interrupted, cancelled, stage, start, sidecar, ready, exit, stopping,
              session, runners, failure, dispatch, server, requests, held>>
citeVars == <<candidate, ledger, admitted, truncated, audited>>

Docs == INSTANCE Documents WITH Contents <- DocumentContents, rows <- documents

Corp == INSTANCE Corpora WITH Children <- ChildDocuments, Batches <- TextBatches

Zone == INSTANCE ZoneMerge WITH Contents <- VersionContents

Mem == INSTANCE Memory WITH Batches <- MessageLists

Act == INSTANCE Activation WITH Ids <- ObservationIds, Callers <- Submitters

Com == INSTANCE Communities WITH
  Ends <- RelationEnds, Threshold <- ChangeThreshold, MaxStops <- MaxReportStops

Proc == INSTANCE Service

Cite == INSTANCE Citations

\* What the proofs assume of the constants.
ASSUME CommunityAssumptions == Com!Assumptions
ASSUME MemoryAssumptions == Mem!Assumptions
ASSUME ActivationAssumptions == Act!Assumptions
ASSUME CorporaAssumptions == Corp!Assumptions
ASSUME ZoneAssumptions == Zone!Assumptions
ASSUME CitationAssumptions == Cite!Assumptions

Parts == {"journal", "documents", "corpora", "zone_merge", "memory", "activation",
          "communities", "process", "search", "citations", "global"}

-----------------------------------------------------------------------------

\* In the behaviours of another part the process has failed to start, so that
\* the fairness of its goroutines asks for nothing.
ServicesInit ==
  /\ part \in Parts
  /\ Init /\ Docs!Init /\ Corp!Init /\ Zone!Init /\ Mem!Init /\ Act!Init /\ Com!Init
  /\ Search!Init /\ Cite!Init /\ Glob!Init /\ Proc!Quiet
  /\ IF part = "process"
       THEN stage = "opening" /\ start = "launch"
       ELSE stage = "exited" /\ start = "failed"

\* Only the part called name takes steps.
Only(name) ==
  /\ part = name
  /\ UNCHANGED part
  /\ IF name = "journal" THEN TRUE ELSE UNCHANGED vars
  /\ IF name = "documents" THEN TRUE ELSE UNCHANGED docsVars
  /\ IF name = "corpora" THEN TRUE ELSE UNCHANGED corpVars
  /\ IF name = "zone_merge" THEN TRUE ELSE UNCHANGED zoneVars
  /\ IF name = "memory" THEN TRUE ELSE UNCHANGED memVars
  /\ IF name = "activation" THEN TRUE ELSE UNCHANGED actVars
  /\ IF name = "communities" THEN TRUE ELSE UNCHANGED comVars
  /\ IF name = "process" THEN TRUE ELSE UNCHANGED procVars
  /\ IF name = "search" THEN TRUE ELSE UNCHANGED driftVars
  /\ IF name = "citations" THEN TRUE ELSE UNCHANGED citeVars
  /\ IF name = "global" THEN TRUE ELSE UNCHANGED globalVars

ServicesNext ==
  \/ Only("journal") /\ Next
  \/ Only("documents") /\ Docs!Next
  \/ Only("corpora") /\ Corp!Next
  \/ Only("zone_merge") /\ Zone!Next
  \/ Only("memory") /\ Mem!Next
  \/ Only("activation") /\ Act!Next
  \/ Only("communities") /\ Com!Next
  \/ Only("process") /\ Proc!Next
  \/ Only("search") /\ Search!Next
  \/ Only("citations") /\ Cite!Next
  \/ Only("global") /\ Glob!Next

servicesVars ==
  <<part, vars, docsVars, corpVars, zoneVars, memVars, actVars, comVars, procVars,
    driftVars, citeVars, globalVars>>

\* The fairness of Corpora asks for nothing in the behaviours of another part.
ServicesSpec ==
  /\ ServicesInit
  /\ [][ServicesNext]_servicesVars
  /\ WF_corpVars(part = "corpora" /\ Corp!Convert)
  /\ WF_corpVars(part = "corpora" /\ Corp!Chunk)
  /\ WF_corpVars(part = "corpora" /\ Corp!Assemble)
  /\ Proc!Fairness

-----------------------------------------------------------------------------

\* The types of the variables of the part that takes steps.
ServicesTypeOK ==
  CASE part = "journal" -> TypeOK
    [] part = "documents" -> Docs!TypeOK
    [] part = "corpora" -> Corp!TypeOK
    [] part = "zone_merge" -> Zone!TypeOK
    [] part = "memory" -> Mem!TypeOK
    [] part = "activation" -> Act!TypeOK
    [] part = "communities" -> Com!TypeOK
    [] part = "process" -> Proc!TypeOK
    [] part = "search" -> Search!TypeOK
    [] part = "citations" -> Cite!TypeOK
    [] part = "global" -> Glob!TypeOK

\* The properties of the parts, as their modules state them: no failed upload
\* removes the content of a recorded Document (corpus/adapter/local),
ContentKept == Docs!ContentKept

\* a Corpora becomes Current whole (corpus/text_unit_preparation.go,
\* corpus/corpora_assembly.go),
CorporaWhole == Corp!CorporaWhole

\* the progress of a Text is the number of its chunks that are stored, which is
\* violated when a Child has the Text too (corpus/text_unit_preparation.go:20),
ChunksCommitted == Corp!ChunksCommitted

\* every recorded Document gets into a Current Corpora, or TextUnit creation is
\* blocked for ever (corpus/adapter/journal/text_unit_creation_action.go),
EventuallyCurrent == Corp!EventuallyCurrent

\* Parent Knowledge is replaced as it was assigned (knowledge/zonemerger),
ReplacedAsAssigned == Zone!ReplacedAsAssigned

\* accepted Evidence can be read (memory/recorder.go),
EvidenceStored == Mem!EvidenceStored

\* a service can be started again on its activation states (memory/activation),
Restartable == Act!Restartable

\* Communities drift less than the threshold (community/structurebuild),
DriftBounded == Com!DriftBounded

\* Reports that are complete can be searched (community/reportgeneration),
ReadySearchable == Com!ReadySearchable

\* the database is closed after everything that uses it (httpservice/service.go),
ReleasedLast == Proc!ReleasedLast

\* a DRIFT request keeps to its limits, can always reduce and returns a graph of
\* branches that is whole, a Global request selects and maps all that is
\* relevant and its answer can cite what the Map was shown, no more
\* (query/drift/budget.go, graph.go; query/global),
RequestSound ==
  /\ Search!BudgetKept /\ Search!BranchesTraced
  /\ part = "global" => Glob!SelectionRelevant /\ Glob!ShownOnce /\ Glob!AnswerTraced

\* the Citations of a DRIFT answer mean what they meant in the answers it was
\* reduced from (query/drift/reduce_context.go),
CitationsResolve == Cite!CitationsResolve

\* and the process ends when it has to (analysis/process.go, assembly).
EventuallyExits == Proc!EventuallyExits
=============================================================================
