---------------------------- MODULE KnowledgeRows ----------------------------
(***************************************************************************)
(* The statements of knowledge/adapter/sqlite over the tables of one Zone. *)
(* Each exists three times, for Entities, Relations and Claims, and the    *)
(* three differ in the identity table they join: an object is one number,  *)
(* and one operator stands for the three statements.  A table is a set of  *)
(* rows, and t is the four tables that a connection sees:                  *)
(*   identities   the objects whose identity is bound                      *)
(*   sources      [id, kind, evidence]: the TextUnits that a Source cites  *)
(*   rows         knowledge_versions: formal Versions N (number 0) and     *)
(*                conflict Versions N.x (number x)                         *)
(*   metadata     which Source supports which row                          *)
(* Content stands for content_hash, description and aliases together; what *)
(* a Source measured (frequency, weight, records) is left out.             *)
(***************************************************************************)
EXTENDS Naturals, Sequences, FiniteSets, FiniteSetsExt

CONSTANTS
  Objects,     \* identities, numbered Entities first and Claims last
  Kind,        \* Kind[o], the kind of object o
  Refs         \* Refs[o], the objects that the identity of o names

\* Relations name Entities and Claims name one Entity or one Relation.
ObjectsAssumption ==
  /\ Objects \subseteq Nat \ {0} /\ IsFiniteSet(Objects)
  /\ Kind \in [Objects -> {"entity", "relation", "claim"}]
  /\ Refs \in [Objects -> SUBSET Objects]
  /\ \A o \in Objects : \A r \in Refs[o] : r < o

Pending == "pending"   \* resolved_by_source_id IS NULL
NoRow == [version |-> 0]

Tables == [identities |-> {}, sources |-> {}, rows |-> {}, metadata |-> {}]

Row(o, version, number, content, deleted, s) ==
  [object |-> o, version |-> version, number |-> number, content |-> content,
   deleted |-> deleted, creator |-> s, resolver |-> Pending]

-----------------------------------------------------------------------------
(* identities.sql.go, provenance.sql.go *)

HasIdentity(t, o) == o \in t.identities

\* The identity of a Relation or a Claim needs those that it names.
Reservable(t, o) == ~HasIdentity(t, o) /\ \A r \in Refs[o] : HasIdentity(t, r)
Reserved(t, o) == [t EXCEPT !.identities = @ \union {o}]

StoredSource(t, s) == {source \in t.sources : source.id = s}

\* A Source and its Evidence, which is one for all that the Source says.
RecordedSource(t, s, kind, evidence) ==
  [t EXCEPT !.sources = @ \union {[id |-> s, kind |-> kind, evidence |-> evidence]}]

\* The row number.version of o is supported by s.
Supported(t, o, version, number, s) ==
  [t EXCEPT !.metadata = @ \union
     {[source |-> s, object |-> o, version |-> version, number |-> number]}]

-----------------------------------------------------------------------------
(* versions.sql.go *)

Formal(t, o) == {r \in t.rows : r.object = o /\ r.number = 0}

\* ORDER BY v.version DESC LIMIT 1
CurrentRow(t, o) ==
  IF Formal(t, o) = {} THEN NoRow
  ELSE CHOOSE r \in Formal(t, o) : \A q \in Formal(t, o) : q.version <= r.version

IsActive(t, o) == Formal(t, o) # {} /\ ~CurrentRow(t, o).deleted

FormalRow(t, o, version) == {r \in Formal(t, o) : r.version = version}

\* What refers to o and whose Current Version is no tombstone.
ActiveRelations(t, o) == {d \in Objects : Kind[d] = "relation" /\ o \in Refs[d] /\ IsActive(t, d)}
ActiveClaims(t, o) == {d \in Objects : Kind[d] = "claim" /\ o \in Refs[d] /\ IsActive(t, d)}

InsertedVersion(t, row) == [t EXCEPT !.rows = @ \union {row}]

-----------------------------------------------------------------------------
(* candidates.sql.go *)

PendingRows(t, o, base) ==
  {r \in t.rows : r.object = o /\ r.version = base /\ r.number > 0 /\ r.resolver = Pending}

Matching(t, o, base, content) == {r \in PendingRows(t, o, base) : r.content = content}

\* COALESCE(MAX(candidate_number), 0) + 1, over resolved Candidates too.
NextNumber(t, o, base) ==
  Max({r.number : r \in {r \in t.rows : r.object = o /\ r.version = base}} \union {0}) + 1

InsertedCandidate(t, row) == [t EXCEPT !.rows = @ \union {row}]

\* Every row that matches is marked; the caller wants exactly one.
Marked(t, o, base, content, s) ==
  [t EXCEPT !.rows = {IF r \in Matching(t, o, base, content) THEN [r EXCEPT !.resolver = s] ELSE r :
                        r \in @}]

PendingIDs(t) == {r.object : r \in {r \in t.rows : r.number > 0 /\ r.resolver = Pending}}

-----------------------------------------------------------------------------
(* What a Source supports, and who supports a row *)

RowOf(t, m) ==
  CHOOSE r \in t.rows : r.object = m.object /\ r.version = m.version /\ r.number = m.number

SourceVersions(t, s) == {RowOf(t, m) : m \in {m \in t.metadata : m.source = s /\ m.number = 0}}
SourceCandidates(t, s) == {RowOf(t, m) : m \in {m \in t.metadata : m.source = s /\ m.number > 0}}

RowSources(t, o, version, number) ==
  {m.source : m \in {m \in t.metadata :
                       m.object = o /\ m.version = version /\ m.number = number}}

\* The Sources of the Version itself and of the Candidates with its content
\* that the Resolution which created it decided for.
VersionSources(t, o, version) ==
  RowSources(t, o, version, 0) \union
    UNION {RowSources(t, o, k.version, k.number) :
             k \in {k \in t.rows :
                      /\ k.object = o /\ k.number > 0 /\ k.version + 1 = version
                      /\ \E formal \in FormalRow(t, o, version) :
                           /\ k.content = formal.content
                           /\ k.resolver = formal.creator}}

\* ReadEntityEvidence, ReadRelationEvidence, ReadClaimEvidence: each Source that
\* supports a Version, with what it cites, as of now.
ReadEvidence(t, o, version) ==
  {[source |-> source.id, evidence |-> source.evidence] :
     source \in {source \in t.sources : source.id \in VersionSources(t, o, version)}}

CandidateSources(t, row) == RowSources(t, row.object, row.version, row.number)

-----------------------------------------------------------------------------
(* Pages: a statement reads one key more than the page holds. *)

Least(keys, limit) == {k \in keys : Cardinality({j \in keys : j < k}) < limit}

\* Mutant: without the one key more.
Page_Full(keys, after, limit) ==
  LET items == Least({k \in keys : k > after}, limit)
  IN [items |-> items, hasMore |-> Cardinality(items) > limit,
      nextAfter |-> IF items = {} THEN 0 ELSE Max(items)]

Page(keys, after, limit) ==
  LET read == Least({k \in keys : k > after}, limit + 1)
      items == Least(read, limit)
  IN [items |-> items, hasMore |-> Cardinality(read) > limit,
      nextAfter |-> IF items = {} THEN 0 ELSE Max(items)]

\* What a reader collects who asks for the next page while there is more.
Pages(keys, limit) ==
  LET walk[after \in 0..Max(keys \union {0})] ==
        LET page == Page(keys, after, limit) IN
        <<page.items>> \o (IF ~page.hasMore THEN << >> ELSE walk[page.nextAfter])
  IN walk[0]

ActiveReferences(t, kind) == {o \in Objects : Kind[o] = kind /\ IsActive(t, o)}
CurrentVersions(t, kind) == {o \in Objects : Kind[o] = kind /\ Formal(t, o) # {}}
HistoryVersions(t, o) == {r.version : r \in Formal(t, o)}

\* The readers of a View, page after page.
Active(t, kind, limit) == Pages(ActiveReferences(t, kind), limit)
Current(t, kind, limit) == Pages(CurrentVersions(t, kind), limit)
History(t, o, limit) == Pages(HistoryVersions(t, o), limit)

\* Exact Versions; a reference to none fails the whole read.
Readable(t, references) == \A ref \in references : FormalRow(t, ref[1], ref[2]) # {}
Read(t, references) == UNION {FormalRow(t, ref[1], ref[2]) : ref \in references}

ManifestPage == 256

\* The Manifest of a snapshot: its active Versions, kind by kind.
CurrentManifest(t) ==
  UNION {LET pages == Active(t, kind, ManifestPage) IN
           {<<o, CurrentRow(t, o).version>> : o \in UNION {pages[i] : i \in DOMAIN pages}} :
         kind \in {"entity", "relation", "claim"}}
=============================================================================
