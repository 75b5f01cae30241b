----------------------------- MODULE CommunityRows -----------------------------
(***************************************************************************)
(* The tables of Community in one Zone, and what the statements of         *)
(* community/adapter/sqlite do to them and read from them.  Every operator *)
(* takes the tables t, those of an open transaction or the committed ones, *)
(* and returns the tables that a statement leaves or the rows it finds.    *)
(* No table refers to another by FOREIGN KEY: what a row refers to is      *)
(* stored because of the order of the statements, and the readers verify.  *)
(*                                                                         *)
(* IDs are numbers, where the code has random UUIDs, except that of a      *)
(* Community, which is made from its members and stands for them here.     *)
(* Times, settings and texts are left out, and so are Versions of Entities *)
(* and Claims, which are kept as those of Relations are.                   *)
(***************************************************************************)
EXTENDS Naturals, Sequences, FiniteSets, SequencesExt

CONSTANTS
  Relations,   \* Relation IDs, numbers
  Ends         \* Ends[r]: the two Entities, numbers, that Relation r relates

NoTables ==
  [sets |-> {}, entities |-> {}, relations |-> {}, communities |-> {}, members |-> {},
   structures |-> {}, versions |-> {}, state |-> {}, reports |-> {}, sources |-> {},
   reportSets |-> {}, selections |-> {}, publications |-> {}]

\* The ID of no parent: NULL.
NoParent == {}

\* An ID that no row has yet, as a new UUID is.
NewID(rows) == Cardinality(rows) + 1

\* How many of the numbers xs come before x.
Position(x, xs) == Cardinality({y \in xs : y < x})

\* Rows of one list, by their ordinals: those of any list start at zero.
Contiguous(rows) == {row.ordinal : row \in rows} = 0 .. (Cardinality(rows) - 1)
Listed(rows, value(_)) ==
  [i \in 1 .. Cardinality(rows) |-> value(CHOOSE row \in rows : row.ordinal = i - 1)]

-----------------------------------------------------------------------------
(* CommunitySets *)

StoredSet(t, id) == {row \in t.sets : row.id = id}

AddedEntities(t, set) ==
  [t EXCEPT !.entities = @ \union {[set |-> set.id, entity |-> e] : e \in set.entities}]

AddedRelations(t, set) ==
  [t EXCEPT !.relations = @ \union
     {[set |-> set.id, relation |-> r, version |-> set.relations[r]] : r \in DOMAIN set.relations}]

AddedCommunities(t, set) ==
  [t EXCEPT !.communities = @ \union
     {[set |-> set.id, id |-> c.members, number |-> c.number, level |-> c.level,
       parent |-> c.parent, final |-> c.final] : c \in set.communities}]

\* Mutant: members numbered from one.
AddedMembers_FromOne(t, set) ==
  [t EXCEPT !.members = @ \union UNION
     {{[set |-> set.id, community |-> c.members, ordinal |-> Position(e, c.members) + 1, entity |-> e] :
         e \in c.members} : c \in set.communities}]

AddedMembers(t, set) ==
  [t EXCEPT !.members = @ \union UNION
     {{[set |-> set.id, community |-> c.members, ordinal |-> Position(e, c.members), entity |-> e] :
         e \in c.members} : c \in set.communities}]

\* Save, of a CommunitySet whose ID is not stored.
SavedSet(t, set) ==
  AddedMembers(AddedCommunities(AddedRelations(AddedEntities(
    [t EXCEPT !.sets = @ \union {[id |-> set.id]}], set), set), set), set)

CommunityIDs(t, id) == {row.id : row \in {row \in t.communities : row.set = id}}
MemberRows(t, id) == {row \in t.members : row.set = id}
CommunityMembers(t, id, c) == {row \in MemberRows(t, id) : row.community = c}
CommunityEntities(t, id) == {row.entity : row \in {row \in t.entities : row.set = id}}
CommunityRelations(t, id) ==
  LET rows == {row \in t.relations : row.set = id} IN
  [r \in {row.relation : row \in rows} |-> (CHOOSE row \in rows : row.relation = r).version]

WithoutParent(t, id) ==
  {row \in t.communities : row.set = id /\ row.parent # NoParent /\ row.parent \notin CommunityIDs(t, id)}
WithoutCommunity(t, id) == {row \in MemberRows(t, id) : row.community \notin CommunityIDs(t, id)}
WithoutEntity(t, id) == {row \in MemberRows(t, id) : row.entity \notin CommunityEntities(t, id)}

\* What a CommunitySet refers to, in the Versions it was detected on.
Referenced(set) ==
  /\ set.entities # {} /\ DOMAIN set.relations # {}
  /\ \A c \in set.communities : c.members # {} /\ c.members \subseteq set.entities

\* Hierarchy.Validate, of communities that are ordered by Level and Number.
Hierarchical(communities) ==
  LET children(c) == {d \in communities : d.parent = c.members}
      roots == {c \in communities : c.level = 0}
  IN /\ {c.number : c \in communities} = 0 .. (Cardinality(communities) - 1)
     /\ \A c, d \in communities : c.members = d.members => c = d
     /\ \A c \in communities :
          /\ c.level = 0 <=> c.parent = NoParent
          /\ c.level = 0 \/ \E d \in communities :
               d.members = c.parent /\ d.level < c.level /\ c.members \subseteq d.members
          /\ c.final <=> children(c) = {}
     /\ \A e \in UNION {c.members : c \in roots} :
          Cardinality({c \in communities : c.final /\ e \in c.members}) = 1

\* ValidateCommunitySet
Valid(set) == Referenced(set) /\ set.communities # {} /\ Hierarchical(set.communities)

LoadedSet(t, id) ==
  [id |-> id, entities |-> CommunityEntities(t, id), relations |-> CommunityRelations(t, id),
   communities |->
     {[number |-> row.number, level |-> row.level, parent |-> row.parent, final |-> row.final,
       members |-> {m.entity : m \in CommunityMembers(t, id, row.id)}] :
        row \in {row \in t.communities : row.set = id}}]

\* Load finds the CommunitySet, and nothing wrong with it.
SetLoads(t, id) ==
  /\ StoredSet(t, id) # {}
  /\ WithoutParent(t, id) = {} /\ WithoutCommunity(t, id) = {} /\ WithoutEntity(t, id) = {}
  /\ \A c \in CommunityIDs(t, id) : Contiguous(CommunityMembers(t, id, c))
  /\ Valid(LoadedSet(t, id))

-----------------------------------------------------------------------------
(* Structures *)

\* PRIMARY KEY, and the unique index on the boundary.
StructureIgnored(t, s) ==
  \E row \in t.structures : row.id = s.id \/ (row.corpora = s.corpora /\ row.digest = s.knowledge)

\* The digest of a Manifest stands for nothing but that Manifest.
CreatedStructure(t, s) ==
  [t EXCEPT !.structures = @ \union
     {[id |-> s.id, set |-> s.set, corpora |-> s.corpora, digest |-> s.knowledge]}]

AddedVersions(t, s) ==
  [t EXCEPT !.versions = @ \union
     {[structure |-> s.id, kind |-> "entity", object |-> e, version |-> 1] : e \in s.knowledge.entities}
     \union {[structure |-> s.id, kind |-> "relation", object |-> r,
              version |-> s.knowledge.relations[r]] : r \in DOMAIN s.knowledge.relations}]

StructureRow(t, id) == CHOOSE row \in t.structures : row.id = id

\* loadStructureVersions
VersionsOf(t, id) ==
  LET rows(kind) == {row \in t.versions : row.structure = id /\ row.kind = kind}
      objects(kind) == {row.object : row \in rows(kind)}
  IN [entities |-> objects("entity"),
      relations |-> [r \in objects("relation") |->
                       (CHOOSE row \in rows("relation") : row.object = r).version]]

StructureLoads(t, id) ==
  /\ \E row \in t.structures : row.id = id
  /\ VersionsOf(t, id) = StructureRow(t, id).digest

LoadedStructure(t, id) ==
  [id |-> id, set |-> StructureRow(t, id).set, corpora |-> StructureRow(t, id).corpora,
   knowledge |-> VersionsOf(t, id)]

StructuresAt(t, corpora, knowledge) ==
  {row.id : row \in {row \in t.structures : row.corpora = corpora /\ row.digest = knowledge}}

\* SaveStructure: what is ignored must be stored as it is already.
StructureAccepted(t, s) ==
  StructureIgnored(t, s) => StructureLoads(t, s.id) /\ LoadedStructure(t, s.id) = s

SavedStructure(t, s) ==
  IF StructureIgnored(t, s) THEN t ELSE AddedVersions(CreatedStructure(t, s), s)

\* The state, of which there is a row or none: INSERT if none was expected,
\* otherwise UPDATE of the row that was read.
StateCreated(t, expected) == expected = {} /\ t.state = {}
StateMatched(t, expected) ==
  \E read \in expected : \E row \in t.state : row.structure = read.structure
StateAccepted(t, expected) == StateCreated(t, expected) \/ StateMatched(t, expected)
SavedState(t, structure, pending) ==
  [t EXCEPT !.state = {[structure |-> structure, pending |-> pending]}]

-----------------------------------------------------------------------------
(* Reports *)

Kinds == {"entity", "relation", "text"}

StoredReport(t, id) == {row \in t.reports : row.id = id}

CreatedReport(t, report) ==
  [t EXCEPT !.reports = @ \union {[id |-> report.id, community |-> report.community]}]

\* The sources of a Report, in the order in which its prompt has shown them.
AddedSources(t, report) ==
  [t EXCEPT !.sources = @ \union UNION
     {{[report |-> report.id, kind |-> kind, ordinal |-> i - 1, object |-> report.sources[kind][i]] :
         i \in DOMAIN report.sources[kind]} : kind \in Kinds}]

\* Insert, of a batch.
SavedReports(t, reports) ==
  FoldSeq(LAMBDA report, rows : AddedSources(CreatedReport(rows, report), report), t, reports)

SourceRows(t, id, kind) == {row \in t.sources : row.report = id /\ row.kind = kind}

LoadedReport(t, id) ==
  [id |-> id, community |-> (CHOOSE row \in t.reports : row.id = id).community,
   sources |-> [kind \in Kinds |-> Listed(SourceRows(t, id, kind), LAMBDA row : row.object)]]

ReportLoads(t, id) ==
  /\ StoredReport(t, id) # {}
  /\ \A kind \in Kinds : Contiguous(SourceRows(t, id, kind))
  /\ \A kind \in {"entity", "text"} : SourceRows(t, id, kind) # {}

-----------------------------------------------------------------------------
(* ReportSets and their publication *)

\* Every Community of the stored CommunitySet, with a stored Report about it.
Covers(t, set, reports) ==
  /\ StoredSet(t, set) # {}
  /\ Cardinality(DOMAIN reports) = Cardinality(CommunityIDs(t, set))
  /\ \A c \in DOMAIN reports :
       /\ c \in CommunityIDs(t, set)
       /\ \E row \in StoredReport(t, reports[c]) : row.community = c

ReportSetAccepted(t, v) ==
  /\ ~\E row \in t.reportSets : row.id = v.id
  /\ Covers(t, v.set, v.reports)

SavedReportSet(t, v) ==
  [t EXCEPT
     !.reportSets = @ \union {[id |-> v.id, set |-> v.set, corpora |-> v.corpora]},
     !.selections = @ \union
       {[reportSet |-> v.id, community |-> c, report |-> v.reports[c]] : c \in DOMAIN v.reports}]

ReportSetRow(t, id) == CHOOSE row \in t.reportSets : row.id = id

Selected(t, id) ==
  LET rows == {row \in t.selections : row.reportSet = id} IN
  [c \in {row.community : row \in rows} |-> (CHOOSE row \in rows : row.community = c).report]

\* LoadReportSet
ReportSetLoads(t, id) ==
  /\ \E row \in t.reportSets : row.id = id
  /\ Covers(t, ReportSetRow(t, id).set, Selected(t, id))
  /\ IsInjective(Selected(t, id))

PublicationOf(t, structure) == {row \in t.publications : row.structure = structure}

\* PRIMARY KEY on the Structure, and the Epoch is unique too.
PublicationIgnored(t, p) ==
  \E row \in t.publications : row.structure = p.structure \/ row.epoch = p.epoch

PublicationAccepted(t, p) == PublicationIgnored(t, p) => PublicationOf(t, p.structure) = {p}

PreparedPublication(t, p) ==
  IF PublicationIgnored(t, p) THEN t ELSE [t EXCEPT !.publications = @ \union {p}]

CompletionAccepted(t, structure, reportSet) ==
  \E row \in PublicationOf(t, structure) : row.reportSet = reportSet

CompletedPublication(t, structure, reportSet) ==
  [t EXCEPT !.publications =
     {IF row.structure = structure /\ row.reportSet = reportSet
        THEN [row EXCEPT !.ready = TRUE] ELSE row : row \in @}]
=============================================================================
