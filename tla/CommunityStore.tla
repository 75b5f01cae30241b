---------------------------- MODULE CommunityStore ----------------------------
(***************************************************************************)
(* How Structures, Reports and their publication are written: statement    *)
(* groups one after another in the write transactions of two Builders      *)
(* (community/structurebuild and community/reportgeneration), which run    *)
(* beside each other, over the tables of module CommunityRows.  A Builder  *)
(* reads what is committed before it begins, since detection and models    *)
(* take long, and holds on to what it read.  SQLite admits one write       *)
(* transaction at a time; whatever fails inside it, or a stop of the       *)
(* process, undoes everything since BEGIN.                                 *)
(*                                                                         *)
(* Module Communities says what this promises: each transaction as one     *)
(* step.  Knowledge, Epochs and Report vectors are as they are there.      *)
(***************************************************************************)
EXTENDS CommunityRows

CONSTANTS
  Threshold, Pages, MaxChanges, MaxManifests, MaxStops,  \* as in Communities
  Idle,        \* no write transaction is open
  None         \* a Builder that does nothing

VARIABLES
  tables,      \* what is committed
  tx,          \* the open write transaction: its tables, and what it does next
  building,    \* what Structure derivation holds on to
  generating,  \* what Report generation holds on to
  formal, changes, manifests, deriving, epochs, reported, namespaces, page, halts

storeVars == <<tables, tx, building, generating>>
otherVars == <<formal, changes, manifests, deriving, epochs, reported, namespaces, page, halts>>

-----------------------------------------------------------------------------
(* What the rows stand for in Communities. *)

SetOf(t, id) ==
  [members |-> {row.entity : row \in MemberRows(t, id)}, relations |-> CommunityRelations(t, id)]

PendingChanges(t) == IF t.state = {} THEN 0 ELSE (CHOOSE row \in t.state : TRUE).pending

Published(t, structure) ==
  IF PublicationOf(t, structure) = {} THEN "none"
  ELSE IF \A row \in PublicationOf(t, structure) : row.ready THEN "ready" ELSE "prepared"

C == INSTANCE Communities WITH
  sets <- [i \in 1 .. Cardinality(tables.sets) |-> SetOf(tables, i)],
  structures <- [i \in 1 .. Cardinality(tables.structures) |-> StructureRow(tables, i).set],
  pending <- PendingChanges(tables),
  publications <- [i \in 1 .. epochs |-> Published(tables, i)]

Init ==
  /\ tables = NoTables
  /\ tx = Idle
  /\ building = None
  /\ generating = None
  /\ C!Init

\* Steps of which the tables know nothing.
Elsewhere ==
  /\ UNCHANGED storeVars
  /\ \/ \E r \in Relations : C!Relate(r) \/ C!Unrelate(r)
     \/ \E e \in C!Entities : C!Forget(e)
     \/ C!PublishManifest
     \/ C!PublishEpoch
     \/ C!AdvanceDerivation
     \/ C!AdvanceReports

-----------------------------------------------------------------------------
(* Transactions *)

\* BEGIN IMMEDIATE and the first statement group.
Begin(owner, t, next) ==
  /\ tx = Idle
  /\ tx' = [owner |-> owner, tables |-> t, next |-> next]
  /\ UNCHANGED <<tables, building, generating, otherVars>>

Continue(owner, at, t, next) ==
  /\ tx # Idle
  /\ tx.owner = owner
  /\ tx.next = at
  /\ tx' = [tx EXCEPT !.tables = t, !.next = next]
  /\ UNCHANGED <<tables, building, generating, otherVars>>

Commit(owner) ==
  /\ tx # Idle
  /\ tx.owner = owner
  /\ tx.next = "commit"
  /\ tables' = tx.tables
  /\ tx' = Idle

\* An error or a cancelled context: ROLLBACK, and Build fails.
Rollback ==
  /\ tx # Idle
  /\ tx' = Idle
  /\ building' = IF tx.owner = "structure" THEN None ELSE building
  /\ generating' = IF tx.owner = "structure" THEN generating ELSE None
  /\ UNCHANGED <<tables, otherVars>>

\* The process stops; SQLite rolls back what it finds open.
Stop ==
  /\ UNCHANGED tables
  /\ tx' = Idle
  /\ building' = None
  /\ generating' = None
  /\ C!Stop

-----------------------------------------------------------------------------
(* Structure derivation: Builder.Build of structurebuild *)

\* Detect divides the Entities that Relations end in; here into one Community,
\* or into one with two children.
Root(members, final) ==
  [number |-> 0, level |-> 0, parent |-> NoParent, final |-> final, members |-> members]
Child(number, members, parent) ==
  [number |-> number, level |-> 1, parent |-> parent, final |-> TRUE, members |-> members]

Hierarchies(members) ==
  {{Root(members, TRUE)}} \union
  {{Root(members, FALSE), Child(1, left, members), Child(2, members \ left, members)} :
     left \in {half \in SUBSET members : half # {} /\ half # members
                 /\ \A e \in members : e \in half \/ \E x \in half : x < e}}

\* The Structure of the state that was read, and its CommunitySet.
PreviousStructure(t) ==
  {LoadedStructure(t, row.structure) : row \in t.state}

\* The changes since the CommunitySet was detected: those counted before, and
\* those from the Manifest of the last Structure to this one.
Accumulated(t, knowledge) ==
  LET before == IF t.state = {} THEN C!NoRelations
                ELSE (CHOOSE s \in PreviousStructure(t) : TRUE).knowledge.relations
  IN PendingChanges(t) + C!ChangedRelations(before, knowledge.relations)

\* LoadStructureAt: an earlier delivery has committed it.
FindStructure ==
  LET n == deriving.handled + 1 IN
  /\ building = None
  /\ n <= Len(manifests)
  /\ StructuresAt(tables, n, manifests[n]) # {}
  /\ ~deriving.committed
  /\ deriving' = [deriving EXCEPT !.committed = TRUE]
  /\ UNCHANGED <<storeVars, formal, changes, manifests, epochs, reported, namespaces, page, halts>>

\* Mutant: a rebuild leaves the count as it was.
PendingAfter_Kept(rebuilt, accumulated) == accumulated

PendingAfter(rebuilt, accumulated) == IF rebuilt THEN 0 ELSE accumulated

\* What the Builder makes of what it reads: the CommunitySet that is kept, or
\* a new one, and the state that goes with it.
BuildStructure ==
  LET n == deriving.handled + 1
      knowledge == manifests[n]
      accumulated == Accumulated(tables, knowledge)
      build(set, rebuilt) ==
        [expected |-> tables.state, set |-> set, rebuilt |-> rebuilt,
         pending |-> PendingAfter(rebuilt, accumulated),
         structure |-> [id |-> NewID(tables.structures), set |-> set.id, corpora |-> n,
                        knowledge |-> knowledge]]
      detected(h) ==
        [id |-> NewID(tables.sets), entities |-> knowledge.entities,
         relations |-> knowledge.relations, communities |-> h]
  IN /\ building = None
     /\ n <= Len(manifests)
     /\ ~deriving.committed
     /\ StructuresAt(tables, n, knowledge) = {}
     /\ \A row \in tables.state : StructureLoads(tables, row.structure)
     /\ \A s \in PreviousStructure(tables) : SetLoads(tables, s.set)
     /\ \/ /\ tables.state # {} /\ accumulated < Threshold
           /\ \E s \in PreviousStructure(tables) :
                building' = build(LoadedSet(tables, s.set), FALSE)
        \/ /\ tables.state = {} \/ accumulated >= Threshold
           /\ DOMAIN knowledge.relations # {}
           /\ \E h \in Hierarchies(C!EndsOf(DOMAIN knowledge.relations)) :
                building' = build(detected(h), TRUE)
     /\ UNCHANGED <<tables, tx, generating, otherVars>>

WriteSet ==
  /\ building # None
  /\ building.rebuilt => StoredSet(tables, building.set.id) = {} /\ Valid(building.set)
  /\ Begin("structure", IF building.rebuilt THEN SavedSet(tables, building.set) ELSE tables, "structure")

WriteStructure ==
  /\ Continue("structure", "structure", SavedStructure(tx.tables, building.structure), "state")
  /\ StructureAccepted(tx.tables, building.structure)

WriteState ==
  /\ Continue("structure", "state", SavedState(tx.tables, building.structure.id, building.pending), "commit")
  /\ StateAccepted(tx.tables, building.expected)

\* The event that announces the Structure is appended in the same transaction.
CommitStructure ==
  /\ Commit("structure")
  /\ building' = None
  /\ deriving' = [deriving EXCEPT !.committed = TRUE]
  /\ UNCHANGED <<generating, formal, changes, manifests, epochs, reported, namespaces, page, halts>>

-----------------------------------------------------------------------------
(* Report generation: Builder.Build of reportgeneration *)

Degree(relations, e) == Cardinality({r \in DOMAIN relations : e \in Ends[r]})

\* Entities by their Degrees and Relations by those of their Entities, the
\* highest first, and then by ID.
SortedSources(objects, rank(_)) ==
  SetToSortSeq(objects, LAMBDA x, y : rank(x) > rank(y) \/ (rank(x) = rank(y) /\ x < y))

\* reportInput and selectCommunityInput: a Report is about the members of its
\* Community and the Relations between them, as the Manifest of the Epoch has
\* them; here the TextUnit of the same number supports an Entity.
SourcesOf(members, knowledge) ==
  LET relations == knowledge.relations
      inside == {r \in DOMAIN relations : Ends[r] \subseteq members}
  IN [entity |-> SortedSources(members, LAMBDA e : Degree(relations, e)),
      relation |-> SortedSources(inside,
        LAMBDA r : LET ends == Ends[r] IN FoldSet(LAMBDA e, sum : sum + Degree(relations, e), 0, ends)),
      text |-> SortedSources(members, LAMBDA e : 0)]

\* Generate: one Report for each Community, the deepest first.
Generated(t, set, knowledge) ==
  LET order == SetToSortSeq(set.communities,
                 LAMBDA c, d : c.level > d.level \/ (c.level = d.level /\ c.number < d.number))
  IN [i \in DOMAIN order |->
        [id |-> Cardinality(t.reports) + i, community |-> order[i].members,
         sources |-> SourcesOf(order[i].members, knowledge)]]

\* prepare, up to its transaction; NewReportSet binds the Reports.
GenerateReports ==
  LET n == reported + 1 IN
  /\ generating = None
  /\ n <= epochs
  /\ PublicationOf(tables, n) = {}
  /\ StructureLoads(tables, n)
  /\ LET structure == LoadedStructure(tables, n)
         set == LoadedSet(tables, structure.set)
         id == NewID(tables.reportSets)
         reports == Generated(tables, set, manifests[n])
     IN /\ structure.corpora = n /\ structure.knowledge = manifests[n]
        /\ SetLoads(tables, structure.set)
        /\ ~C!Stale(n)
        /\ generating' =
             [reports |-> reports,
              reportSet |-> [id |-> id, set |-> set.id, corpora |-> n,
                             reports |-> [c \in {r.community : r \in ToSet(reports)} |->
                               (CHOOSE r \in ToSet(reports) : r.community = c).id]],
              publication |-> [structure |-> n, epoch |-> n, reportSet |-> id, ready |-> FALSE]]
  /\ UNCHANGED <<tables, tx, building, otherVars>>

WriteReports ==
  /\ generating # None
  /\ \A r \in ToSet(generating.reports) : StoredReport(tables, r.id) = {}
  /\ Begin("reports", SavedReports(tables, generating.reports), "report set")

WriteReportSet ==
  /\ Continue("reports", "report set", SavedReportSet(tx.tables, generating.reportSet), "publication")
  /\ ReportSetAccepted(tx.tables, generating.reportSet)

WritePublication ==
  /\ Continue("reports", "publication", PreparedPublication(tx.tables, generating.publication), "commit")
  /\ PublicationAccepted(tx.tables, generating.publication)

CommitReports ==
  /\ Commit("reports")
  /\ generating' = None
  /\ UNCHANGED <<building, otherVars>>

\* What was prepared, now or before a stop, is read back for its vectors.
Readable(t, reportSet) ==
  /\ ReportSetLoads(t, reportSet)
  /\ \A id \in Range(Selected(t, reportSet)) : ReportLoads(t, id)

AddReportVectors ==
  /\ UNCHANGED storeVars
  /\ generating = None
  /\ C!AddReportVectors
  /\ \A row \in PublicationOf(tables, reported + 1) : Readable(tables, row.reportSet)

\* CompleteReportPublication, of what this Build has indexed.
WriteReady ==
  LET n == reported + 1 IN
  /\ n <= epochs
  /\ generating = None
  /\ page = Pages
  /\ \E row \in PublicationOf(tables, n) :
       /\ ~row.ready
       /\ CompletionAccepted(tables, n, row.reportSet)
       /\ Begin("ready", CompletedPublication(tables, n, row.reportSet), "commit")

CommitReady ==
  /\ Commit("ready")
  /\ page' = 0
  /\ UNCHANGED <<building, generating, formal, changes, manifests, deriving, epochs, reported,
                 namespaces, halts>>

-----------------------------------------------------------------------------
Next ==
  \/ Elsewhere
  \/ FindStructure \/ BuildStructure \/ WriteSet \/ WriteStructure \/ WriteState \/ CommitStructure
  \/ GenerateReports \/ WriteReports \/ WriteReportSet \/ WritePublication \/ CommitReports
  \/ AddReportVectors \/ WriteReady \/ CommitReady
  \/ Rollback
  \/ Stop

Spec == Init /\ [][Next]_<<storeVars, otherVars>>

-----------------------------------------------------------------------------
(* Properties *)

StepOfCommunities == UNCHANGED <<tables, otherVars>> \/ C!Next

\* Each transaction takes effect as one step of Communities, or not at all.
ImplementsCommunities == C!Init /\ [][StepOfCommunities]_<<storeVars, otherVars>>

\* Structures can be read and so can the CommunitySets they are divided into;
\* no CommunitySet is without a Structure, and the state is the last one's.
StructuresWhole ==
  /\ \A row \in tables.structures : StructureLoads(tables, row.id) /\ SetLoads(tables, row.set)
  /\ {row.id : row \in tables.sets} = {row.set : row \in tables.structures}
  /\ \A row \in tables.state : row.structure = Cardinality(tables.structures)

\* A publication selects one Report for each Community of its Structure, and no
\* other, about exactly the members and the Relations between them that the
\* Structure's Manifest has; no Report and no ReportSet is without one.
PublicationsWhole ==
  /\ \A row \in tables.publications :
       LET structure == LoadedStructure(tables, row.structure)
           selected == Selected(tables, row.reportSet)
       IN /\ Readable(tables, row.reportSet)
          /\ ReportSetRow(tables, row.reportSet).set = structure.set
          /\ ReportSetRow(tables, row.reportSet).corpora = structure.corpora
          /\ DOMAIN selected = CommunityIDs(tables, structure.set)
          /\ \A c \in DOMAIN selected :
               LoadedReport(tables, selected[c]).sources = SourcesOf(c, structure.knowledge)
  /\ {row.id : row \in tables.reportSets} = {row.reportSet : row \in tables.publications}
  /\ {row.id : row \in tables.reports} = {row.report : row \in tables.selections}

\* All that holds of the committed tables.
CommunitiesSound == StructuresWhole /\ PublicationsWhole
=============================================================================
