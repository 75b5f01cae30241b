----------------------------- MODULE Communities -----------------------------
(***************************************************************************)
(* What is derived from one Zone's Knowledge: a Structure for every        *)
(* published Manifest, and Reports for every Epoch.  Detection is costly,  *)
(* so a Structure keeps the CommunitySet of the one before it until enough *)
(* Relation changes have accumulated.  Reports are written in three steps, *)
(* of which only the first and the last are transactions of this database: *)
(* the candidate, its vectors page by page, the mark that it is complete.  *)
(* Each Action handles one event at a time and is delivered the event      *)
(* again when the process stops before its position has moved.             *)
(***************************************************************************)
EXTENDS Naturals, Sequences, FiniteSets

CONSTANTS
  Relations,    \* Relation identities
  Ends,         \* Ends[r]: the two Entities r relates
  Threshold,    \* relation_change_threshold of the Project
  Pages,        \* pages of Report vectors per ReportSet
  MaxChanges,   \* bound on the changes of Knowledge
  MaxManifests, \* bound on the Manifests published
  MaxStops      \* bound on the process stops

VARIABLES
  formal,       \* formal Knowledge: live Relations, their Versions, Entities
  changes,      \* changes of Knowledge so far
  manifests,    \* published Manifests: Relation Versions and Entities
  sets,         \* CommunitySets: members and the Relation Versions read
  structures,   \* structures[n]: the CommunitySet of Manifest n
  pending,      \* Relation changes since that CommunitySet was detected
  deriving,     \* Manifests handled, and whether the next is committed
  epochs,       \* Epochs published, one per Structure, in order
  reported,     \* Epochs handled by Report generation
  publications, \* publications[n]: the stored Report publication, if any
  namespaces,   \* namespaces[n]: the pages of vectors added for its ReportSet
  page,         \* pages added by the running Report generation
  halts         \* process stops so far

vars == <<formal, changes, manifests, sets, structures, pending, deriving, epochs,
          reported, publications, namespaces, page, halts>>

knowledgeVars == <<formal, changes, manifests>>
structureVars == <<sets, structures, pending, deriving>>
reportVars == <<epochs, reported, publications, namespaces, page>>

Entities == UNION {Ends[r] : r \in Relations}
EndsOf(rs) == UNION {Ends[r] : r \in rs}

Init ==
  /\ formal = [live |-> {}, version |-> [r \in Relations |-> 0], entities |-> {}]
  /\ changes = 0
  /\ manifests = <<>>
  /\ sets = <<>>
  /\ structures = <<>>
  /\ pending = 0
  /\ deriving = [handled |-> 0, committed |-> FALSE]
  /\ epochs = 0
  /\ reported = 0
  /\ publications = <<>>
  /\ namespaces = <<>>
  /\ page = 0
  /\ halts = 0

-----------------------------------------------------------------------------
(* Knowledge, as Community sees it. *)

Change(new) ==
  /\ changes < MaxChanges
  /\ changes' = changes + 1
  /\ formal' = new
  /\ UNCHANGED <<manifests, structureVars, reportVars, halts>>

\* A Relation is created, revised or created again.
Relate(r) ==
  Change([live |-> formal.live \cup {r}, version |-> [formal.version EXCEPT ![r] = @ + 1],
          entities |-> formal.entities \cup Ends[r]])

Unrelate(r) ==
  /\ r \in formal.live
  /\ Change([live |-> formal.live \ {r}, version |-> [formal.version EXCEPT ![r] = @ + 1],
             entities |-> formal.entities])

\* An Entity is deleted after the Relations that end in it.
Forget(e) ==
  /\ e \in formal.entities \ EndsOf(formal.live)
  /\ Change([formal EXCEPT !.entities = @ \ {e}])

PublishManifest ==
  /\ Len(manifests) < MaxManifests
  /\ formal.entities # {}
  /\ manifests' = Append(manifests,
       [relations |-> [r \in formal.live |-> formal.version[r]], entities |-> formal.entities])
  /\ UNCHANGED <<formal, changes, structureVars, reportVars, halts>>

-----------------------------------------------------------------------------
(* Structure derivation *)

\* changedRelations: created, deleted, or of another Version.
ChangedRelations(old, new) ==
  Cardinality({r \in DOMAIN old \cup DOMAIN new :
                 r \notin DOMAIN old \/ r \notin DOMAIN new \/ old[r] # new[r]})

NoRelations == [r \in {} |-> 0]

\* The Relations of the Manifest the state's Structure was derived from.
Previous(n) == IF n = 1 THEN NoRelations ELSE manifests[n - 1].relations

\* Mutant: a derivation without a rebuild forgets the changes before it.
Accumulated_Last(n) == ChangedRelations(Previous(n), manifests[n].relations)

Accumulated(n) == pending + ChangedRelations(Previous(n), manifests[n].relations)

Rebuilds(n) == sets = <<>> \/ Accumulated(n) >= Threshold

\* Detect: the Relations' ends are the members; isolated Entities are in no
\* Community, and a graph without Relations is ErrEmptyGraph.
Detected(m) == [members |-> EndsOf(DOMAIN m.relations), relations |-> m.relations]

\* Builder.Build of structurebuild, for the next Manifest.  A Structure found
\* at the boundary is what an earlier delivery has committed.
Derive ==
  LET n == deriving.handled + 1 IN
  /\ n <= Len(manifests)
  /\ ~deriving.committed
  /\ deriving' = [deriving EXCEPT !.committed = TRUE]
  /\ IF n <= Len(structures)
       THEN UNCHANGED <<sets, structures, pending>>
       ELSE IF Rebuilds(n)
       THEN /\ DOMAIN manifests[n].relations # {}
            /\ sets' = Append(sets, Detected(manifests[n]))
            /\ structures' = Append(structures, Len(sets'))
            /\ pending' = 0
       ELSE /\ structures' = Append(structures, structures[n - 1])
            /\ pending' = Accumulated(n)
            /\ UNCHANGED sets
  /\ UNCHANGED <<knowledgeVars, reportVars, halts>>

AdvanceDerivation ==
  /\ deriving.committed
  /\ deriving' = [handled |-> deriving.handled + 1, committed |-> FALSE]
  /\ UNCHANGED <<knowledgeVars, sets, structures, pending, reportVars, halts>>

-----------------------------------------------------------------------------
(* Report generation *)

\* An Epoch binds the next Structure.
PublishEpoch ==
  /\ epochs < Len(structures)
  /\ epochs' = epochs + 1
  /\ publications' = Append(publications, "none")
  /\ namespaces' = Append(namespaces, {})
  /\ UNCHANGED <<knowledgeVars, structureVars, reported, page, halts>>

\* validateReportCommunities: a member of a Community is absent from the
\* Entities of the Manifest.
Stale(n) == ~(sets[structures[n]].members \subseteq manifests[n].entities)

\* prepare: the Reports of every Community, the ReportSet and the publication
\* in one transaction, unless an earlier delivery has committed it.
PrepareReports ==
  LET n == reported + 1 IN
  /\ n <= epochs
  /\ publications[n] = "none"
  /\ ~Stale(n)
  /\ publications' = [publications EXCEPT ![n] = "prepared"]
  /\ UNCHANGED <<knowledgeVars, structureVars, epochs, reported, namespaces, page, halts>>

\* vectorindex.Build starts from the first page, whatever was added before.
AddReportVectors ==
  LET n == reported + 1 IN
  /\ n <= epochs
  /\ publications[n] = "prepared"
  /\ page < Pages
  /\ page' = page + 1
  /\ namespaces' = [namespaces EXCEPT ![n] = @ \cup {page'}]
  /\ UNCHANGED <<knowledgeVars, structureVars, epochs, reported, publications, halts>>

\* Mutant: a Namespace that opens is taken for complete.
AllAdded_Opened(n) == namespaces[n] # {}

\* This very Build has added every page.
AllAdded(n) == page = Pages

\* The Namespace opens, and CompleteReportPublication.
CompleteReports ==
  LET n == reported + 1 IN
  /\ n <= epochs
  /\ publications[n] = "prepared"
  /\ AllAdded(n)
  /\ publications' = [publications EXCEPT ![n] = "ready"]
  /\ page' = 0
  /\ UNCHANGED <<knowledgeVars, structureVars, epochs, reported, namespaces, halts>>

AdvanceReports ==
  LET n == reported + 1 IN
  /\ n <= epochs
  /\ publications[n] = "ready"
  /\ reported' = n
  /\ UNCHANGED <<knowledgeVars, structureVars, epochs, publications, namespaces, page, halts>>

-----------------------------------------------------------------------------

\* The process stops, and delivers again what its positions have not passed.
Stop ==
  /\ halts < MaxStops
  /\ halts' = halts + 1
  /\ deriving' = [deriving EXCEPT !.committed = FALSE]
  /\ page' = 0
  /\ UNCHANGED <<knowledgeVars, sets, structures, pending, epochs, reported, publications, namespaces>>

Derivation == Derive \/ AdvanceDerivation
Reporting == PrepareReports \/ AddReportVectors \/ CompleteReports \/ AdvanceReports

Next ==
  \/ \E r \in Relations : Relate(r) \/ Unrelate(r)
  \/ \E e \in Entities : Forget(e)
  \/ PublishManifest
  \/ Derivation
  \/ PublishEpoch
  \/ Reporting
  \/ Stop

Spec == Init /\ [][Next]_vars

-----------------------------------------------------------------------------

Assumptions ==
  /\ IsFiniteSet(Relations)
  /\ Threshold \in Nat \ {0}
  /\ Pages \in Nat
  /\ MaxChanges \in Nat

Versions == UNION {[rs -> 0 .. MaxChanges] : rs \in SUBSET Relations}
Manifest == [relations : Versions, entities : SUBSET Entities]
CommunitySet == [members : SUBSET Entities, relations : Versions]

\* Types of the variables.
TypeOK ==
  /\ changes \in 0 .. MaxChanges
  /\ formal \in [live : SUBSET Relations, version : [Relations -> 0 .. changes],
                 entities : SUBSET Entities]
  /\ manifests \in Seq(Manifest)
  /\ sets \in Seq(CommunitySet)
  /\ structures \in Seq(1 .. Len(sets)) /\ Len(structures) <= Len(manifests)
  /\ pending \in 0 .. Threshold - 1
  /\ deriving \in [handled : 0 .. Len(structures), committed : BOOLEAN]
  /\ epochs \in 0 .. Len(structures) /\ reported \in 0 .. epochs
  /\ publications \in Seq({"none", "prepared", "ready"}) /\ Len(publications) = epochs
  /\ namespaces \in Seq(SUBSET (1 .. Pages)) /\ Len(namespaces) = epochs
  /\ page \in 0 .. Pages

\* A Structure's Communities are never further than Threshold - 1 Relation
\* changes from its own Knowledge, however many Manifests went by with fewer
\* changes each, and however often one was delivered (builder.go, Build).
DriftBounded ==
  \A n \in 1 .. Len(structures) :
    ChangedRelations(sets[structures[n]].relations, manifests[n].relations) < Threshold

\* Reports are marked complete only when all of them can be searched: the
\* check before the mark opens the Namespace, which exists from its first page
\* on, and a stop may fall between any two pages (reportgeneration/builder.go).
ReadySearchable ==
  \A n \in 1 .. epochs : publications[n] = "ready" => namespaces[n] = 1 .. Pages
=============================================================================
