------------------------------ MODULE Knowledge ------------------------------
(***************************************************************************)
(* The formal Knowledge of one Zone: the Versions of Entities, Relations   *)
(* and Claims (knowledge/adapter/sqlite/versions.go), the Candidates that  *)
(* a Submission opens when it disagrees with a Version, the Resolution of  *)
(* such a conflict by an Agent who read it earlier, and Deletion.          *)
(*                                                                         *)
(* The three kinds go through the same steps and differ in what an object  *)
(* refers to - an Entity to nothing, a Relation to its two endpoints, a    *)
(* Claim to its Subject - so that an object stands for its stable identity *)
(* and Refs says what it refers to.  Content is all of a Version that is   *)
(* not identity: its Hash decides equality.  Every Submission, Resolution  *)
(* and Deletion is one write transaction, named by the ID of its Source.   *)
(***************************************************************************)
EXTENDS Naturals, Sequences

CONSTANTS
  Objects,     \* identities of Entities, Relations and Claims
  Refs,        \* Refs[o], the objects o refers to
  Contents,    \* versioned content: description and aliases
  Sources,     \* Source IDs, each for one use
  Agents,      \* who review conflicts
  Batches      \* what a Source submits: variants of content for some objects

ASSUME RefsAssumption == Refs \in [Objects -> SUBSET Objects]
ASSUME BatchesAssumption ==
  \A batch \in Batches :
    /\ DOMAIN batch \subseteq Objects /\ DOMAIN batch # {}
    /\ \A o \in DOMAIN batch : batch[o] \subseteq Contents /\ batch[o] # {}

VARIABLES
  versions,    \* versions[o], the formal Versions 1, 2, ... of o
  candidates,  \* the conflict Versions N.x, pending and resolved
  answers,     \* answers[s], what the caller of accepted Source s was told (history)
  reviews      \* reviews[a], the conflict Agent a has read

vars == <<versions, candidates, answers, reviews>>

\* sources: who supports the row in knowledge_source_metadata.
Version(c, deleted, s) ==
  [content |-> c, deleted |-> deleted, createdBy |-> s, sources |-> {s}]

\* Versions whose Current Source s supports from now on.
Confirmed(vs, s) == [vs EXCEPT ![Len(vs)].sources = @ \union {s}]

Pending == "pending"

\* resolved_by_source_id is NULL while N.x is pending, and NULL is no Source.
ASSUME SourcesAssumption == Pending \notin Sources

\* The ordinal of N.x tells apart Candidates of one key; openedBy does as well.
Candidate(o, base, c, s) ==
  [object |-> o, base |-> base, content |-> c, openedBy |-> s,
   sources |-> {s}, resolvedBy |-> Pending]

Unused == [kind |-> "unused"]
Answer(kind, created, confirmed, opened, reused) ==
  [kind |-> kind, created |-> created, confirmed |-> confirmed,
   opened |-> opened, reused |-> reused]

NoReview == [pc |-> "none"]

-----------------------------------------------------------------------------
(* Reads *)

Bound(o)   == versions[o] # << >>
Base(o)    == Len(versions[o])
Current(o) == versions[o][Base(o)]
Active(o)  == Bound(o) /\ ~Current(o).deleted

\* ActiveRelations and ActiveClaims: the active objects that refer to o.
Dependents(o) == {d \in Objects : o \in Refs[d] /\ Active(d)}

PendingAt(o, base) ==
  {k \in candidates : k.object = o /\ k.base = base /\ k.resolvedBy = Pending}

\* Mutant: the rows themselves.
Expectations_Rows(o, base) == PendingAt(o, base)

\* The Candidates of a conflict and their Sources, as expectations compare them.
Expectations(o, base) ==
  {[content |-> k.content, sources |-> k.sources] : k \in PendingAt(o, base)}

-----------------------------------------------------------------------------
Init ==
  /\ versions = [o \in Objects |-> << >>]
  /\ candidates = {}
  /\ answers = [s \in Sources |-> Unused]
  /\ reviews = [a \in Agents |-> NoReview]

-----------------------------------------------------------------------------
(* Submission *)

\* A new identity gets Version 1 if all it refers to is active or gets its
\* own Version 1 in this batch; otherwise the Submission fails as a whole.
Acceptable(batch) ==
  \A o \in DOMAIN batch : Bound(o) \/
    \A r \in Refs[o] : Active(r) \/ (r \in DOMAIN batch /\ ~Bound(r))

\* The variants that equal no formal Version: first made Version 1.
Conflicting(o, batch, first) ==
  IF ~Bound(o) THEN batch[o] \ {first[o]}
  ELSE IF Active(o) THEN batch[o] \ {Current(o).content}
  ELSE batch[o]

SubmissionBase(o) == IF Bound(o) THEN Base(o) ELSE 1

\* Mutant: the Source that confirms Current is not stored.
Submitted_Unconfirmed(o, s, batch, first) ==
  IF ~Bound(o) THEN <<Version(first[o], FALSE, s)>> ELSE versions[o]

Submitted(o, s, batch, first) ==
  IF ~Bound(o) THEN <<Version(first[o], FALSE, s)>>
  ELSE IF Active(o) /\ Current(o).content \in batch[o]
       THEN Confirmed(versions[o], s)
       ELSE versions[o]

\* k is the pending Candidate that a conflicting variant finds.
Reused(k, batch, first) ==
  /\ k.resolvedBy = Pending
  /\ k.object \in DOMAIN batch
  /\ k.base = SubmissionBase(k.object)
  /\ k.content \in Conflicting(k.object, batch, first)

\* Mutant: a Candidate for every conflicting variant.
Unmatched_Every(o, batch, first) == Conflicting(o, batch, first)

\* The conflicting variants for which no pending Candidate exists.
Unmatched(o, batch, first) ==
  Conflicting(o, batch, first) \ {k.content : k \in PendingAt(o, SubmissionBase(o))}

Opened(s, batch, first) ==
  UNION {{Candidate(o, SubmissionBase(o), c, s) : c \in Unmatched(o, batch, first)} :
           o \in DOMAIN batch}

Key(k) == <<k.object, k.base, k.content>>

Submit(s, batch, first) ==
  /\ answers[s] = Unused
  /\ Acceptable(batch)
  /\ versions' = [o \in Objects |->
       IF o \in DOMAIN batch THEN Submitted(o, s, batch, first) ELSE versions[o]]
  /\ candidates' =
       {IF Reused(k, batch, first) THEN [k EXCEPT !.sources = @ \union {s}] ELSE k :
          k \in candidates} \union Opened(s, batch, first)
  /\ answers' = [answers EXCEPT ![s] = Answer("submission",
       {<<o, 1>> : o \in {o \in DOMAIN batch : ~Bound(o)}},
       {<<o, Base(o)>> : o \in {o \in DOMAIN batch :
                                  Active(o) /\ Current(o).content \in batch[o]}},
       {Key(k) : k \in Opened(s, batch, first)},
       {Key(k) : k \in {k \in candidates : Reused(k, batch, first)}})]
  /\ UNCHANGED reviews

-----------------------------------------------------------------------------
(* Resolution *)

\* EntityConflict, RelationConflict, ClaimConflict run outside a transaction:
\* Current is read first, the Candidates based on it later; what they read is
\* the expectation that an Agent sends with its decision.
BeginReview(a, o) ==
  /\ reviews[a] = NoReview
  /\ Bound(o)
  /\ reviews' = [reviews EXCEPT ![a] = [pc |-> "reading", object |-> o, base |-> Base(o)]]
  /\ UNCHANGED <<versions, candidates, answers>>

FinishReview(a) ==
  /\ reviews[a].pc = "reading"
  /\ LET o == reviews[a].object  base == reviews[a].base IN
     reviews' = [reviews EXCEPT ![a] =
       IF PendingAt(o, base) = {} THEN NoReview
       ELSE [pc |-> "read", object |-> o, base |-> base,
             expected |-> Expectations(o, base)]]
  /\ UNCHANGED <<versions, candidates, answers>>

\* Mutants: without requireActiveRelationEndpoints and requireActiveSubject;
\* without equalExpectations; with Candidates compared by their content alone.
StillConflict_NoReferences(review) ==
  LET o == review.object IN
    /\ PendingAt(o, Base(o)) # {}
    /\ review.base = Base(o)
    /\ review.expected = Expectations(o, Base(o))

StillConflict_BaseOnly(review) ==
  LET o == review.object IN
    /\ \A r \in Refs[o] : Active(r)
    /\ PendingAt(o, Base(o)) # {}
    /\ review.base = Base(o)

StillConflict_Contents(review) ==
  LET o == review.object IN
    /\ \A r \in Refs[o] : Active(r)
    /\ PendingAt(o, Base(o)) # {}
    /\ review.base = Base(o)
    /\ {x.content : x \in review.expected} = {k.content : k \in PendingAt(o, Base(o))}

\* What the transaction of a Resolution checks again.
StillConflict(review) ==
  LET o == review.object IN
    /\ \A r \in Refs[o] : Active(r)
    /\ PendingAt(o, Base(o)) # {}
    /\ review.base = Base(o)
    /\ review.expected = Expectations(o, Base(o))

\* The Resolution names the Candidates it read by their keys.
Decided(k, review) ==
  /\ k \in PendingAt(review.object, review.base)
  /\ \E x \in review.expected : x.content = k.content

\* An Agent decides for final: another Version unless Current already says so.
Resolve(a, s, final) ==
  /\ reviews[a].pc = "read"
  /\ answers[s] = Unused
  /\ StillConflict(reviews[a])
  /\ LET o == reviews[a].object
         keeps == Active(o) /\ Current(o).content = final
         next == IF keeps THEN Base(o) ELSE Base(o) + 1
     IN /\ versions' = [versions EXCEPT ![o] =
             IF keeps THEN Confirmed(@, s) ELSE Append(@, Version(final, FALSE, s))]
        /\ candidates' =
             {IF Decided(k, reviews[a]) THEN [k EXCEPT !.resolvedBy = s] ELSE k :
                k \in candidates}
        /\ answers' = [answers EXCEPT ![s] = Answer("resolution",
             IF keeps THEN {} ELSE {<<o, next>>}, IF keeps THEN {<<o, next>>} ELSE {}, {}, {})]
  /\ reviews' = [reviews EXCEPT ![a] = NoReview]

\* ErrConflictChanged, ErrConflictNotFound or ErrInvalidChange: nothing is
\* stored and the Agent has to read again.
RejectResolution(a) ==
  /\ reviews[a].pc = "read"
  /\ ~StillConflict(reviews[a])
  /\ reviews' = [reviews EXCEPT ![a] = NoReview]
  /\ UNCHANGED <<versions, candidates, answers>>

-----------------------------------------------------------------------------
(* Deletion *)

Delete(s, o, expected) ==
  /\ answers[s] = Unused
  /\ Bound(o)
  /\ expected = Base(o)
  /\ Active(o) => Dependents(o) = {}
  /\ versions' = [versions EXCEPT ![o] =
       IF Active(o) THEN Append(@, Version(Current(o).content, TRUE, s))
       ELSE Confirmed(@, s)]
  /\ answers' = [answers EXCEPT ![s] = Answer("deletion",
       IF Active(o) THEN {<<o, Base(o) + 1>>} ELSE {},
       IF Active(o) THEN {} ELSE {<<o, Base(o)>>}, {}, {})]
  /\ UNCHANGED <<candidates, reviews>>

-----------------------------------------------------------------------------
\* Steps of Agents, and those that use one of the Sources named.
Steps(sources) ==
  \/ \E s \in sources : \E batch \in Batches :
       \E first \in [{o \in DOMAIN batch : ~Bound(o)} -> Contents] :
         /\ \A o \in DOMAIN first : first[o] \in batch[o]
         /\ Submit(s, batch, first)
  \/ \E a \in Agents : \E o \in Objects : BeginReview(a, o)
  \/ \E a \in Agents : FinishReview(a)
  \/ \E a \in Agents : \E s \in sources : \E final \in Contents : Resolve(a, s, final)
  \/ \E a \in Agents : RejectResolution(a)
  \/ \E s \in sources : \E o \in Objects : \E expected \in 1..Base(o) : Delete(s, o, expected)

Next == Steps(Sources)

Spec == Init /\ [][Next]_vars

-----------------------------------------------------------------------------
(* Properties *)

VersionType == [content : Contents, deleted : BOOLEAN, createdBy : Sources, sources : SUBSET Sources]
CandidateType ==
  [object : Objects, base : Nat, content : Contents, openedBy : Sources,
   sources : SUBSET Sources, resolvedBy : Sources \union {Pending}]
ReviewType ==
  {NoReview} \union [pc : {"reading"}, object : Objects, base : Nat]
    \union [pc : {"read"}, object : Objects, base : Nat,
            expected : SUBSET [content : Contents, sources : SUBSET Sources]]

\* Every stored row, answer and review has its shape.
TypeOK ==
  /\ versions \in [Objects -> Seq(VersionType)]
  /\ candidates \in SUBSET CandidateType
  /\ DOMAIN answers = Sources
  /\ reviews \in [Agents -> ReviewType]

\* An active Relation has active endpoints and an active Claim an active
\* Subject, however Submissions, late Resolutions and Deletions interleave.
ReferencesActive ==
  \A o \in Objects : Active(o) => \A r \in Refs[o] : Active(r)

\* No key has two pending Candidates: ResolveEntityCandidate updates by key
\* and takes any count but one for a changed conflict, and no constraint of
\* the schema forbids a second row.
OnePendingPerKey ==
  \A j, k \in candidates :
    j.resolvedBy = Pending /\ k.resolvedBy = Pending /\ Key(j) = Key(k) => j = k

\* Content replaces content only after every Candidate against it has been
\* decided: one is left pending behind Current only by the tombstone that
\* Deletion put on its base.
ReplacedOnlyWhenDecided ==
  \A k \in candidates : k.resolvedBy = Pending /\ k.base < Base(k.object) =>
    versions[k.object][k.base + 1].deleted

\* SubmissionResult, ResolutionResult and DeletionResult read the answer to a
\* repeated Source back from what is stored now.
StoredAnswer(s) ==
  LET formal == {p \in UNION {{o} \X (1..Base(o)) : o \in Objects} :
                   s \in versions[p[1]][p[2]].sources}
      supported == {k \in candidates : s \in k.sources}
  IN Answer(answers[s].kind,
       {p \in formal : versions[p[1]][p[2]].createdBy = s},
       {p \in formal : versions[p[1]][p[2]].createdBy # s},
       {Key(k) : k \in {k \in supported : k.openedBy = s}},
       {Key(k) : k \in {k \in supported : k.openedBy # s}})

\* A repeated Source is told what it was told first, whatever other Sources
\* have confirmed, resolved or deleted in between.
ReplayReturnsFirst ==
  \A s \in Sources : answers[s] # Unused => StoredAnswer(s) = answers[s]

\* What a step that stores a Candidate differently has done to it.
DecidedAsRead ==
  \A k \in candidates \ candidates' : k.resolvedBy = Pending =>
    \/ \E j \in candidates' : j.resolvedBy = Pending /\ Key(j) = Key(k) /\ j.openedBy = k.openedBy
    \/ \E a \in Agents :
         /\ reviews[a].pc = "read" /\ reviews[a].object = k.object
         /\ reviews[a].base = k.base /\ k.base = Base(k.object)
         /\ [content |-> k.content, sources |-> k.sources] \in reviews[a].expected

\* A Candidate is resolved only by an Agent who had read it with every Source
\* that supports it by then, on the Version that was still Current.
ResolvedAsReviewed == [][DecidedAsRead]_vars

\* README.md:17 promises "conflict candidates that can be reviewed and
\* resolved": what BrowsePendingEntityIDs lists as pending, EntityConflict can
\* read, which looks at the Current Version only.
PendingReviewable ==
  \A k \in candidates : k.resolvedBy = Pending =>
    PendingAt(k.object, Base(k.object)) # {}
=============================================================================
