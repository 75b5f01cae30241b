---------------------------- MODULE GlobalSearch ----------------------------
(***************************************************************************)
(* One Global request on the Reports of the Epoch it has fixed: the        *)
(* selection of Communities by rated frontiers of their hierarchy, the     *)
(* chunks of the Reports table, one Map call per chunk, the Reduce of the  *)
(* ranked points and the audit of the answer.  The calls of a frontier and *)
(* of the chunks run side by side; any read, model call or count of tokens *)
(* may fail and the caller may go away at any time.                        *)
(***************************************************************************)
EXTENDS Integers, FiniteSets, SequencesExt, Lists

CONSTANTS
  Published,           \* ReportView.Reports, in the order of their Communities
  Parent,              \* the Community a Report's Community is part of
  Level, Rank,         \* of a Report's Community, of a Report
  Entities,            \* Entity versions a Report uses
  TextUnits,           \* TextUnits an Entity version rests on
  Size,                \* tokens of a Report's row
  CommunityLevel, MinimumRank, MaxContextTokens, Header,         \* ContextConfig
  Threshold, KeepParent, Repeats, MaxLevel, Ratings,             \* DynamicSelectionConfig
  MaxConcurrency,
  Responses,           \* lists of points a Map call may answer with
  DataMaxTokens, AllowGeneralKnowledge                           \* ReduceConfig

\* What the proofs assume of the constants.
Assumptions ==
  LET reports == ToSet(Published)
  IN  /\ Published \in Seq(reports)
      /\ Level \in [reports -> Nat] /\ Size \in [reports -> Nat]
      /\ \A r \in reports : Parent[r] \in reports => Level[Parent[r]] < Level[r]
      /\ Ratings \subseteq Int \ {-1} /\ Threshold \in Nat
      /\ Repeats \in Nat \ {0} /\ MaxLevel \in Nat
      /\ {Header, MaxContextTokens, DataMaxTokens} \subseteq Nat
      /\ \A response \in Responses :
           response \in Seq([score : Int, cites : Seq(Nat), size : Nat])

\* Numbers of the rows that a response may cite, some that no row has.
RecordIDs == 0 .. Len(Published)

VARIABLES
  at,         \* where the request is
  reply,      \* what Search returns
  left,       \* the caller's context is done
  level,      \* of the seeds of the traversal
  frontier,   \* frontier whose Reports are being rated
  ratings,    \* of the Reports that are rated
  order,      \* accepted Communities in the order of the traversal
  kept,       \* those of them that are selected
  chunks,     \* Context.Chunks, each as its rows
  results,    \* MapResult.Batches
  reduced,    \* ReduceContext.Points
  cut,        \* ReduceContext.Truncated
  scope,      \* rows of the table that a Citation of the answer may refer to
  resolved    \* a reference of the answer and the Reports it resolves to

vars == <<at, reply, left, level, frontier, ratings, order, kept, chunks, results,
          reduced, cut, scope, resolved>>

selectionVars == <<level, frontier, ratings, order, kept>>
reduceVars == <<reduced, cut>>
auditVars == <<scope, resolved>>

Unrated == -1
Waiting == [status |-> "waiting", points |-> <<>>]

Init ==
  /\ at = "start" /\ reply = "none" /\ left = FALSE
  /\ level = 0 /\ frontier = <<>> /\ ratings = [r \in ToSet(Published) |-> Unrated]
  /\ order = <<>> /\ kept = {}
  /\ chunks = <<>> /\ results = <<>>
  /\ reduced = <<>> /\ cut = FALSE
  /\ scope = {} /\ resolved = {}

\* sort.SliceStable, the elements with the greatest keys first.
Descending(list, key) ==
  LET Place(sorted, x) == Cardinality({i \in DOMAIN sorted : key[sorted[i]] >= key[x]}) + 1
      Of[n \in 0 .. Len(list)] ==
        IF n = 0 THEN <<>> ELSE InsertAt(Of[n - 1], Place(Of[n - 1], list[n]), list[n])
  IN  Of[Len(list)]

\* errgroup with a limit: of the n calls those that run, the ones that have
\* ended being given.
Running(n, ended) ==
  {i \in 1 .. n \ ended : Cardinality({j \in 1 .. i - 1 : j \notin ended}) < MaxConcurrency}

Fail == at' = "done" /\ reply' = "failed"

CallerLeaves ==
  /\ at # "done" /\ ~left
  /\ left' = TRUE
  /\ UNCHANGED <<at, reply, selectionVars, chunks, results, reduceVars, auditVars>>

\* A read, a count of tokens, a rating, the call of the Reduce: its error is
\* that of the request.
StepFails ==
  /\ at \in {"start", "select", "context", "mapped", "reduce", "audit"}
  /\ at = "select" => frontier # <<>>
  /\ Fail
  /\ UNCHANGED <<left, selectionVars, chunks, results, reduceVars, auditVars>>

-----------------------------------------------------------------------------
(* Selection of Communities *)

\* The Reports at or above the level of the request.
Candidates ==
  Picked(Published, {i \in DOMAIN Published : Level[Published[i]] <= CommunityLevel})

\* buildSelectionHierarchy
Seeds(depth) == Picked(Candidates, {i \in DOMAIN Candidates : Level[Candidates[i]] = depth})
Children(parent) == Picked(Candidates, {i \in DOMAIN Candidates : Parent[Candidates[i]] = parent})

\* The least of the ratings most votes are for.
MajorityRating(votes) ==
  LET Count(rating) == Cardinality({i \in DOMAIN votes : votes[i] = rating})
      most == {rating \in Range(votes) : \A other \in Range(votes) : Count(other) <= Count(rating)}
  IN  CHOOSE rating \in most : \A other \in most : rating <= other

Begin ==
  /\ at = "start" /\ ~left
  /\ \/ /\ at' = "select"
        /\ frontier' = Seeds(0)
        /\ UNCHANGED <<order, kept>>
     \/ /\ at' = "context"
        /\ order' = Candidates /\ kept' = ToSet(Candidates)
        /\ UNCHANGED frontier
  /\ UNCHANGED <<reply, left, level, ratings, chunks, results, reduceVars, auditVars>>

Rated == {i \in DOMAIN frontier : ratings[frontier[i]] # Unrated}

\* One of the calls of rateFrontier.
RateReport ==
  /\ at = "select"
  /\ \E i \in Running(Len(frontier), Rated), votes \in [1 .. Repeats -> Ratings] :
       ratings' = [ratings EXCEPT ![frontier[i]] = MajorityRating(votes)]
  /\ UNCHANGED <<at, reply, left, level, frontier, order, kept, chunks, results, reduceVars,
                 auditVars>>

\* Mutant: an accepted Community does not replace the one it is part of.
Replaced_None(accepted) == {}

\* The selected Communities that the accepted ones take the place of.
Replaced(accepted) == IF KeepParent THEN {} ELSE {Parent[r] : r \in ToSet(accepted)}

\* The frontier is rated: the children of what it accepts are the next one.
FrontierEnds ==
  /\ at = "select" /\ frontier # <<>> /\ Rated = DOMAIN frontier
  /\ LET accepted == Picked(frontier, {i \in DOMAIN frontier : ratings[frontier[i]] >= Threshold})
     IN  /\ order' = order \o accepted
         /\ kept' = (kept \cup ToSet(accepted)) \ Replaced(accepted)
         /\ frontier' = Flattened([i \in DOMAIN accepted |-> Children(accepted[i])])
  /\ UNCHANGED <<at, reply, left, level, ratings, chunks, results, reduceVars, auditVars>>

\* A level on which nothing is relevant is followed by the next complete one.
LevelEnds ==
  /\ at = "select" /\ frontier = <<>>
  /\ IF kept = {} /\ level < MaxLevel
       THEN level' = level + 1 /\ frontier' = Seeds(level + 1) /\ UNCHANGED at
       ELSE at' = "context" /\ UNCHANGED <<level, frontier>>
  /\ UNCHANGED <<reply, left, ratings, order, kept, chunks, results, reduceVars, auditVars>>

-----------------------------------------------------------------------------
(* Context *)

\* reportsMeetingMinimumRank of the selected Communities' Reports.
Selection ==
  Picked(order, {i \in DOMAIN order : order[i] \in kept /\ Rank[order[i]] >= MinimumRank})

\* reportWeights: distinct TextUnits of a Report's Entities; normalizing them
\* leaves their order alone.
Weight(report) == Cardinality(UNION {TextUnits[e] : e \in Entities[report]})

Number(list) == [i \in DOMAIN list |-> [id |-> i - 1, report |-> list[i]]]

\* A row that does not fit the batch begins the next one.
AddRow(batching, row) ==
  IF batching.tokens + Size[row.report] > MaxContextTokens
    THEN [closed |-> IF batching.rows = <<>> THEN batching.closed
                                             ELSE Append(batching.closed, batching.rows),
          rows |-> <<row>>, tokens |-> Header + Size[row.report]]
    ELSE [batching EXCEPT !.rows = Append(@, row), !.tokens = @ + Size[row.report]]

RowBatches(rows) ==
  LET Of[n \in 0 .. Len(rows)] ==
        IF n = 0 THEN [closed |-> <<>>, rows |-> <<>>, tokens |-> Header]
                 ELSE AddRow(Of[n - 1], rows[n])
      last == Of[Len(rows)]
  IN  IF last.rows = <<>> THEN last.closed ELSE Append(last.closed, last.rows)

\* The heaviest rows of a batch are first, of equal ones those of a higher rank.
Arranged(batch) ==
  LET above == 1 + Max({Rank[r] : r \in ToSet(Published)})
  IN  Descending(batch, [row \in ToSet(batch) |-> Weight(row.report) * above + Rank[row.report]])

\* The rows are numbered before they are shuffled, in whatever order.
Build ==
  /\ at = "context" /\ ~left
  /\ LET rows == Number(Selection)
     IN  \E shuffle \in Bijection(DOMAIN rows, DOMAIN rows) :
           LET batches == RowBatches([i \in DOMAIN rows |-> rows[shuffle[i]]])
           IN  /\ chunks' = [i \in DOMAIN batches |-> Arranged(batches[i])]
               /\ results' = [i \in DOMAIN batches |-> Waiting]
  /\ at' = "map"
  /\ UNCHANGED <<reply, left, selectionVars, reduceVars, auditVars>>

-----------------------------------------------------------------------------
(* Map *)

\* Mutant: any row of the table may be cited.
ValidPoints_Anywhere(response, chunk) ==
  \A i \in DOMAIN response :
    /\ ToSet(response[i].cites) \subseteq {row.id : row \in UNION {ToSet(chunks[n]) : n \in DOMAIN chunks}}
    /\ response[i].score > 0 => response[i].cites # <<>>

\* validateMapPoints
ValidPoints(response, chunk) ==
  \A i \in DOMAIN response :
    /\ ToSet(response[i].cites) \subseteq {row.id : row \in ToSet(chunk)}
    /\ response[i].score > 0 => response[i].cites # <<>>

Placeholder == <<[score |-> 0, cites |-> <<>>, size |-> 0]>>

\* What becomes of a chunk: its call fails, or its response and the corrected
\* one are invalid, without an effect on the others, or it is answered.
Outcomes(chunk) ==
  {[status |-> status, points |-> Placeholder] : status \in {"model_failure", "invalid_response"}}
    \cup {[status |-> "succeeded", points |-> IF response = <<>> THEN Placeholder ELSE response] :
            response \in {r \in Responses : ValidPoints(r, chunk)}}

Mapped == {i \in DOMAIN chunks : results[i] # Waiting}

MapBatch ==
  /\ at = "map"
  /\ \E i \in Running(Len(chunks), Mapped) : \E outcome \in Outcomes(chunks[i]) :
       results' = [results EXCEPT ![i] = outcome]
  /\ UNCHANGED <<at, reply, left, selectionVars, chunks, reduceVars, auditVars>>

\* A call that was cancelled, or that took too long, ends them all.
MapStops ==
  /\ at = "map" /\ Mapped # DOMAIN chunks
  /\ Fail
  /\ UNCHANGED <<left, selectionVars, chunks, results, reduceVars, auditVars>>

MapEnds ==
  /\ at = "map" /\ Mapped = DOMAIN chunks
  /\ at' = "mapped"
  /\ UNCHANGED <<reply, left, selectionVars, chunks, results, reduceVars, auditVars>>

-----------------------------------------------------------------------------
(* Reduce *)

\* The positive points of the batches, in the order of batches and points.
Positive ==
  LET Numbered(n) == [k \in DOMAIN results[n].points |->
                        [batch |-> n, place |-> k, point |-> results[n].points[k]]]
      all == Flattened([n \in DOMAIN results |-> Numbered(n)])
  IN  Picked(all, {i \in DOMAIN all : all[i].point.score > 0})

RankedPoints ==
  Descending(Positive, [found \in ToSet(Positive) |-> found.point.score])

\* How many of the points are within the budget; the first that is not ends them.
Accepted(points) ==
  LET Tokens(n) == Summed([i \in 1 .. n |-> points[i].point.size])
  IN  Cardinality({n \in DOMAIN points : Tokens(n) <= DataMaxTokens})

\* prepare: without a point there is nothing to answer with.
Prepare ==
  /\ at = "mapped" /\ ~left
  /\ IF RankedPoints = <<>> /\ ~AllowGeneralKnowledge
       THEN at' = "audit" /\ reply' = "no data" /\ UNCHANGED reduceVars
       ELSE LET count == Accepted(RankedPoints)
            IN  /\ reduced' = SubSeq(RankedPoints, 1, count)
                /\ cut' = (count < Len(RankedPoints))
                /\ at' = "reduce" /\ UNCHANGED reply
  /\ UNCHANGED <<left, selectionVars, chunks, results, auditVars>>

\* GenerateReduce, or StreamReduce to its end.
Generate ==
  /\ at = "reduce"
  /\ at' = "audit" /\ reply' = "answered"
  /\ UNCHANGED <<left, selectionVars, chunks, results, reduceVars, auditVars>>

\* Context.Reports
Table == ToSet(Flattened(chunks))

\* acceptedReportCitationRecords, and one of the references of the answer.
Audit ==
  /\ at = "audit"
  /\ LET cited == UNION {ToSet(reduced[i].point.cites) : i \in DOMAIN reduced}
         found == {row \in Table : row.id \in cited}
     IN  /\ scope' = found
         /\ \E id \in RecordIDs :
              resolved' = {[id |-> id, reports |-> {row.report : row \in {r \in found : r.id = id}}]}
  /\ at' = "done"
  /\ UNCHANGED <<reply, left, selectionVars, chunks, results, reduceVars>>

Next ==
  \/ CallerLeaves \/ StepFails
  \/ Begin \/ RateReport \/ FrontierEnds \/ LevelEnds
  \/ Build
  \/ MapBatch \/ MapStops \/ MapEnds
  \/ Prepare \/ Generate \/ Audit

Spec == Init /\ [][Next]_vars

-----------------------------------------------------------------------------

\* Types of the variables.
TypeOK ==
  /\ at \in {"start", "select", "context", "map", "mapped", "reduce", "audit", "done"}
  /\ reply \in {"none", "answered", "no data", "failed"}
  /\ left \in BOOLEAN
  /\ level \in 0 .. MaxLevel
  /\ ratings \in [ToSet(Published) -> Ratings \cup {Unrated}]
  /\ ToSet(frontier) \cup ToSet(order) \cup kept \subseteq ToSet(Candidates)
  /\ Table \subseteq [id : RecordIDs, report : kept]
  /\ DOMAIN results = DOMAIN chunks
  /\ cut \in BOOLEAN
  /\ scope \subseteq Table

\* What the traversal selects is relevant and no Community is selected next to
\* one it is part of; nothing relevant is lost: what was accepted is selected
\* or was replaced by a part of it, every part of it was looked at, and an empty
\* selection means that all levels down to MaxLevel were (dynamic_selection.go).
SelectionRelevant ==
  at = "context" /\ (\E r \in ToSet(Published) : ratings[r] # Unrated) =>
    LET accepted == {r \in ToSet(Candidates) : ratings[r] >= Threshold}
        Parts(r) == {part \in ToSet(Candidates) : Parent[part] = r}
    IN  /\ kept \subseteq accepted
        /\ ~KeepParent => \A r \in kept : Parent[r] \notin kept
        /\ \A r \in accepted : /\ r \in kept \/ Parts(r) \cap accepted # {}
                               /\ \A part \in Parts(r) : ratings[part] # Unrated
        /\ kept = {} => \A r \in ToSet(Candidates) : Level[r] <= MaxLevel => ratings[r] # Unrated

\* The Map is shown every selected Report of sufficient rank once, in chunks
\* that are within the budget unless a single row is not (context.go).
ShownOnce ==
  at = "map" =>
    /\ Len(Flattened(chunks)) = Len(Selection)
    /\ {row.report : row \in Table} = ToSet(Selection)
    /\ \A i \in DOMAIN chunks :
         \/ Len(chunks[i]) = 1
         \/ Header + Summed([k \in DOMAIN chunks[i] |-> Size[chunks[i][k].report]])
              <= MaxContextTokens

\* What a Citation of the answer may refer to is a Report that the chunk of an
\* accepted point showed under that number, whatever failed in other chunks; a
\* reference means at most one Report; and no point that was left out outranks
\* an accepted one, however the calls were interleaved (map.go, reduce.go,
\* search.go).
AnswerTraced ==
  /\ \A row \in scope : \E i \in DOMAIN reduced :
       LET from == reduced[i].batch
       IN  /\ results[from].status = "succeeded"
           /\ row.id \in ToSet(reduced[i].point.cites)
           /\ row \in ToSet(chunks[from])
  /\ \A item \in resolved : Cardinality(item.reports) <= 1
  /\ at = "reduce" =>
       \A found \in ToSet(Positive) \ ToSet(reduced) :
         cut /\ \A i \in DOMAIN reduced : reduced[i].point.score >= found.point.score
=============================================================================
