------------------------------ MODULE CorpusRows ------------------------------
(***************************************************************************)
(* The tables of the Corpus, and what the statements of                    *)
(* corpus/adapter/sqlite do to them and read from them.  Every operator    *)
(* takes the tables t, those of an open transaction or the committed ones, *)
(* and returns the tables that a statement leaves or the rows it finds.    *)
(* Documents and Texts are shared by all Zones, and a Zone has a row for   *)
(* each one of them that is its own; the other tables have a Zone in every *)
(* row.  No table refers to another by FOREIGN KEY.                        *)
(*                                                                         *)
(* Document and Text IDs are numbers, where the code has random UUIDs.  A  *)
(* TextUnit's ID is a digest of its text, which stands for both here, and  *)
(* its place in the Text for its range of characters.  There is one pair   *)
(* of profiles; names, media types, titles and token counts are left out.  *)
(***************************************************************************)
EXTENDS Naturals, Sequences, FiniteSets, SequencesExt

NoTables ==
  [documents |-> {}, zoneDocuments |-> {}, texts |-> {}, localTexts |-> {}, warnings |-> {},
   units |-> {}, messages |-> {}, spans |-> {}, progress |-> {}, vectored |-> {},
   state |-> {}, boundaries |-> {}]

\* Building Corpora of a state that has none: NULL.
NotBuilding == 0

In(zone, rows) == {row \in rows : row.zone = zone}

\* Rows in the order of a column that tells them apart.
Ordered(rows, column(_)) == SetToSortSeq(rows, LAMBDA x, y : column(x) < column(y))

\* One page of ordered rows: one more than the limit is asked for, to know
\* whether another page follows.
RowsPage(ordered, offset, limit) ==
  LET found == SubSeq(ordered, offset + 1, Min({offset + limit + 1, Len(ordered)})) IN
  [rows |-> SubSeq(found, 1, Min({limit, Len(found)})), more |-> Len(found) > limit]

-----------------------------------------------------------------------------
(* Documents: unique by ID, by digest and by Location *)

StoredDocument(t, id) == {row \in t.documents : row.id = id}
DocumentByDigest(t, digest) == {row \in t.documents : row.digest = digest}

\* INSERT OR IGNORE
SavedDocument(t, value) ==
  IF \E row \in t.documents :
       row.id = value.id \/ row.digest = value.digest \/ row.location = value.location
  THEN t ELSE [t EXCEPT !.documents = @ \union {value}]

AssociatedDocument(t, zone, id) ==
  [t EXCEPT !.zoneDocuments = @ \union {[zone |-> zone, document |-> id]}]

\* Documents of a Zone.
ZoneDocuments(t, zone) ==
  {row \in t.documents : [zone |-> zone, document |-> row.id] \in t.zoneDocuments}
GetDocument(t, zone, id) == {row \in ZoneDocuments(t, zone) : row.id = id}
DocumentByLocation(t, zone, location) ==
  {row \in ZoneDocuments(t, zone) : row.location = location}

DocumentsPage(t, zone, offset, limit) ==
  RowsPage(Ordered(ZoneDocuments(t, zone), LAMBDA row : row.id), offset, limit)

\* All Documents, with what the Zone has selected.
BrowsedPage(t, zone, offset, limit) ==
  LET page == RowsPage(Ordered(t.documents, LAMBDA row : row.id), offset, limit) IN
  [page EXCEPT !.rows = [i \in DOMAIN @ |->
     [id |-> @[i].id, digest |-> @[i].digest,
      selected |-> GetDocument(t, zone, @[i].id) # {}]]]

-----------------------------------------------------------------------------
(* Texts: unique by ID, and by Document and profiles *)

StoredText(t, id) == {row \in t.texts : row.id = id}
FindStoredText(t, document) == {row \in t.texts : row.document = document}

IsLocal(t, zone, id) == [zone |-> zone, text |-> id] \in t.localTexts
LocalTexts(t, zone) == {row \in t.texts : IsLocal(t, zone, row.id)}
FindText(t, zone, document) == {row \in LocalTexts(t, zone) : row.document = document}

\* Warnings are read in their order and must be numbered from zero.
WarningsOf(t, id) == {row \in t.warnings : row.text = id}
WarningsContiguous(t, id) ==
  {row.position : row \in WarningsOf(t, id)} = 0 .. (Cardinality(WarningsOf(t, id)) - 1)
Warnings(t, id) ==
  [i \in 1 .. Cardinality(WarningsOf(t, id)) |->
     (CHOOSE row \in WarningsOf(t, id) : row.position = i - 1).warning]

RestoredText(t, row) ==
  [id |-> row.id, document |-> row.document, body |-> row.body, warnings |-> Warnings(t, row.id)]

\* A Text of the Zone that can be read, as loadText does: with its Document.
TextLoads(t, zone, id) ==
  /\ IsLocal(t, zone, id)
  /\ \E row \in StoredText(t, id) : GetDocument(t, zone, row.document) # {}
  /\ WarningsContiguous(t, id)
LoadedText(t, id) == RestoredText(t, CHOOSE row \in StoredText(t, id) : TRUE)

SameContent(left, right) == [left EXCEPT !.id = right.id] = right

\* INSERT OR IGNORE, with the warnings of what is inserted.
SavedText(t, value) ==
  IF \E row \in t.texts : row.id = value.id \/ row.document = value.document
  THEN t
  ELSE [t EXCEPT
    !.texts = @ \union {[id |-> value.id, document |-> value.document, body |-> value.body]},
    !.warnings = @ \union
      {[text |-> value.id, position |-> i - 1, warning |-> value.warnings[i]] :
         i \in DOMAIN value.warnings}]

\* What saveText returns: the Text, or the stored one under the same ID or of
\* the same Document, which must be equal.
TextAs(t, value) ==
  IF StoredText(t, value.id) # {} THEN LoadedText(t, value.id)
  ELSE LET found == FindStoredText(t, value.document) IN
       IF found # {} THEN RestoredText(t, CHOOSE row \in found : TRUE) ELSE value

TextAccepted(t, zone, value) ==
  LET found == TextAs(t, value) IN
  /\ GetDocument(t, zone, value.document) # {}
  /\ StoredText(t, value.id) # {} => found = value
  /\ SameContent(found, value)

MarkedLocal(t, zone, id) ==
  [t EXCEPT !.localTexts = @ \union {[zone |-> zone, text |-> id]}]

TextsPage(t, zone, offset, limit) ==
  RowsPage(Ordered(LocalTexts(t, zone), LAMBDA row : row.id), offset, limit)
CountTexts(t, zone) == Cardinality(In(zone, t.localTexts))

-----------------------------------------------------------------------------
(* The state of the Zone's Corpora *)

\* No row is as good as one that says nothing.
CorpusState(t, zone) ==
  IF In(zone, t.state) = {}
  THEN [zone |-> zone, current |-> 0, building |-> NotBuilding, prepared |-> FALSE]
  ELSE CHOOSE row \in In(zone, t.state) : TRUE

WithState(t, row) == [t EXCEPT !.state = (@ \ In(row.zone, @)) \union {row}]

EnsuredState(t, zone) == WithState(t, CorpusState(t, zone))

StartedBuild(t, zone) ==
  LET state == CorpusState(t, zone) IN
  IF state.building # NotBuilding THEN t
  ELSE WithState(t, [state EXCEPT !.building = state.current + 1, !.prepared = FALSE])

MarkedPrepared(t, zone, id) ==
  LET state == CorpusState(t, zone) IN
  IF state.building = id /\ ~state.prepared THEN WithState(t, [state EXCEPT !.prepared = TRUE]) ELSE t

ActivatedCorpus(t, zone, id) ==
  LET state == CorpusState(t, zone) IN
  IF state.building = id /\ state.prepared
  THEN WithState(t, [state EXCEPT !.current = id, !.building = NotBuilding, !.prepared = FALSE])
  ELSE t

IsBuilding(t, zone, id) ==
  LET state == CorpusState(t, zone) IN state.building = id /\ ~state.prepared

\* corpusReadable
Readable(t, zone, id) ==
  LET state == CorpusState(t, zone) IN
  id <= state.current \/ (state.building = id /\ state.prepared)

-----------------------------------------------------------------------------
(* TextUnits and where they are *)

Unit(t, zone, id) == {row \in In(zone, t.units) : row.id = id}

\* INSERT OR IGNORE; a TextUnit that is stored must have the same text.
SavedUnit(t, zone, body) ==
  IF Unit(t, zone, body) # {} THEN t
  ELSE [t EXCEPT !.units = @ \union {[zone |-> zone, id |-> body, text |-> body]}]
UnitAccepted(t, zone, body) == \A row \in Unit(t, zone, body) : row.text = body

SpanRows(t, zone, id) == {row \in In(zone, t.spans) : row.corpora = id}
TextSpans(t, zone, id, text) == {row \in SpanRows(t, zone, id) : row.text = text}

\* Rows that a read joined with text_units finds.
Joined(t, zone, rows) == {row \in rows : Unit(t, zone, row.unit) # {}}

\* INSERT of a range that the Text does not have yet.
SpanAccepted(t, zone, id, text, at) == \A row \in TextSpans(t, zone, id, text) : row.at # at
AddedSpan(t, zone, id, text, at, body) ==
  [t EXCEPT !.spans = @ \union
     {[zone |-> zone, corpora |-> id, text |-> text, at |-> at, unit |-> body]}]

CopiedSpans(t, zone, source, target) ==
  [t EXCEPT !.spans = @ \union
     {[row EXCEPT !.corpora = target] :
        row \in {row \in SpanRows(t, zone, source) : IsLocal(t, zone, row.text)}}]

ClearedSpans(t, zone, id, text) == [t EXCEPT !.spans = @ \ TextSpans(t, zone, id, text)]

CountTextUnitSpans(t, zone, id) == Cardinality(SpanRows(t, zone, id))
CountCorporaTexts(t, zone, id) == Cardinality({row.text : row \in SpanRows(t, zone, id)})

\* The TextUnits of a Text in their order.
UnitsOf(rows) == LET ordered == Ordered(rows, LAMBDA row : row.at) IN
  [i \in DOMAIN ordered |-> ordered[i].unit]

\* A range of a Text's body, and what is there.
ContentValid(body, at, unit) == at \in DOMAIN body /\ body[at] = unit

\* LoadChunkedText, of the Corpora that is being built.
ChunkedText(t, zone, id, text) == UnitsOf(Joined(t, zone, TextSpans(t, zone, id, text)))

\* loadCorporaContent: every span with its TextUnit, in a Text of the Zone at
\* whose range it is.
CorporaLoads(t, zone, id) ==
  LET rows == Joined(t, zone, SpanRows(t, zone, id)) IN
  /\ rows # {}
  /\ \A row \in rows :
       /\ TextLoads(t, zone, row.text)
       /\ ContentValid(LoadedText(t, row.text).body, row.at, row.unit)
  /\ CountTextUnitSpans(t, zone, id) = Cardinality(rows)
LoadedCorpora(t, zone, id) ==
  LET rows == Joined(t, zone, SpanRows(t, zone, id)) IN
  [text \in {row.text : row \in rows} |-> UnitsOf({row \in rows : row.text = text})]

\* Mutant: the Corpora being built counts as readable.
ExclusiveCorpora_Building(t, zone) ==
  LET state == CorpusState(t, zone) IN
  IF state.building = NotBuilding THEN state.current + 1 ELSE state.building + 1

\* TextUnits looks for TextUnits in all Corpora before this one.
ExclusiveCorpora(t, zone) ==
  LET state == CorpusState(t, zone) IN
  IF state.building = NotBuilding THEN state.current + 1
  ELSE IF state.prepared THEN state.building + 1 ELSE state.building
UnitsBefore(t, zone, ids) ==
  {row \in In(zone, t.units) :
     /\ row.id \in ids
     /\ \E span \in In(zone, t.spans) : span.unit = row.id /\ span.corpora < ExclusiveCorpora(t, zone)}

\* Where TextUnits of a readable Corpora are, down to the Document.
DocumentsAt(t, zone, span) ==
  {document \in ZoneDocuments(t, zone) :
     \E text \in StoredText(t, span.text) : text.document = document.id}
Locations(t, zone, id, ids) ==
  UNION {{[text |-> span.text, at |-> span.at, unit |-> span.unit, location |-> document.location] :
            document \in DocumentsAt(t, zone, span)} :
           span \in {span \in Joined(t, zone, SpanRows(t, zone, id)) : span.unit \in ids}}

-----------------------------------------------------------------------------
(* Chunking progress, one row per Text and one per source event *)

ProgressBySource(t, zone, source) == {row \in In(zone, t.progress) : row.source = source}
ProgressOf(t, zone, text) == {row \in In(zone, t.progress) : row.text = text}

ProgressCreatable(t, zone, source, text) ==
  ProgressOf(t, zone, text) = {} /\ ProgressBySource(t, zone, source) = {}
CreatedProgress(t, zone, source, text) ==
  [t EXCEPT !.progress = @ \union
     {[zone |-> zone, text |-> text, source |-> source, next |-> 0, completed |-> FALSE]}]

\* The rows that the UPDATE finds: one, or the progress is refused.
Advanceable(t, zone, text, expected) ==
  {row \in ProgressOf(t, zone, text) : row.next = expected /\ ~row.completed}
AdvancedProgress(t, zone, text, expected, next, complete) ==
  LET rows == Advanceable(t, zone, text, expected) IN
  [t EXCEPT !.progress = (@ \ rows) \union
     {[row EXCEPT !.next = next, !.completed = complete] : row \in rows}]

IncompleteChunking(t, zone) == {row \in In(zone, t.progress) : ~row.completed}
ClearedProgress(t, zone) == [t EXCEPT !.progress = @ \ In(zone, @)]

-----------------------------------------------------------------------------
(* Vector progress: one row per Corpora and Text, and one per source event *)

VectoredBy(t, zone, id, text) ==
  {row.source : row \in {row \in In(zone, t.vectored) : row.corpora = id /\ row.text = text}}

\* INSERT OR IGNORE
RecordedVectors(t, zone, id, text, source) ==
  IF \/ VectoredBy(t, zone, id, text) # {}
     \/ \E row \in In(zone, t.vectored) : row.source = source
  THEN t
  ELSE [t EXCEPT !.vectored = @ \union
          {[zone |-> zone, corpora |-> id, text |-> text, source |-> source]}]

-----------------------------------------------------------------------------
(* Child boundaries *)

Boundary(t, zone, child) ==
  {row.corpora : row \in {row \in In(zone, t.boundaries) : row.child = child}}
SavedBoundary(t, zone, child, id) ==
  [t EXCEPT !.boundaries =
     {row \in @ : ~(row.zone = zone /\ row.child = child)} \union
     {[zone |-> zone, child |-> child, corpora |-> id]}]
Boundaries(t, zone) == {<<row.child, row.corpora>> : row \in In(zone, t.boundaries)}

-----------------------------------------------------------------------------
(* Messages *)

\* Messages are read with the text of their TextUnits.
MessagesWithID(t, zone, ids) ==
  {row \in In(zone, t.messages) : row.id \in ids /\ Unit(t, zone, row.unit) # {}}
Occurrences(rows) ==
  LET ordered == Ordered(rows, LAMBDA row : row.position) IN
  [i \in DOMAIN ordered |->
     [id |-> ordered[i].id, text |-> ordered[i].unit, position |-> ordered[i].position]]

\* One past the highest Position.
NextPosition(t, zone) ==
  LET positions == {row.position : row \in In(zone, t.messages)} IN
  IF positions = {} THEN 0 ELSE Max(positions) + 1

\* INSERT: an ID or a Position that is taken is an error.
MessageAccepted(t, zone, id, position) ==
  \A row \in In(zone, t.messages) : row.id # id /\ row.position # position
SavedMessage(t, zone, id, position, body) ==
  [t EXCEPT !.messages = @ \union
     {[zone |-> zone, id |-> id, position |-> position, unit |-> body]}]
=============================================================================
