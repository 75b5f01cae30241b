---------------------------- MODULE KnowledgeStore ----------------------------
(***************************************************************************)
(* How Submissions, Resolutions and Deletions write the Knowledge of a     *)
(* Zone: one statement group after another inside the write transaction    *)
(* that WithTx opens (knowledge/submission, resolution and deletion over   *)
(* knowledge/adapter/sqlite).  The transaction works on tables of its own  *)
(* until it commits; the reads of a reviewing Agent see committed tables.  *)
(* SQLite admits one write transaction at a time (transaction/sqlite), and *)
(* any statement may fail: then everything since BEGIN is undone.          *)
(*                                                                         *)
(* Module Knowledge says what this promises: each transaction as one step. *)
(***************************************************************************)
EXTENDS KnowledgeRows

CONSTANTS
  Contents,    \* numbers: the order of the canonical content keys
  Sources,     \* Source IDs
  Agents,      \* who review conflicts
  Commands,    \* Submissions, each a sequence of <<object, content>>
  Cites,       \* Cites[s], the TextUnits that Source s cites if it submits
  Idle         \* no write transaction is open

VARIABLES
  tables,      \* what is committed
  tx,          \* the open write transaction
  answers,     \* answers[s], what the caller of accepted Source s was told (history)
  reviews      \* reviews[a], the conflict Agent a has read

storeVars == <<tables, tx, answers, reviews>>

Unused == [kind |-> "unused"]
Answer(kind, created, confirmed, opened, reused) ==
  [kind |-> kind, created |-> created, confirmed |-> confirmed,
   opened |-> opened, reused |-> reused]

NoReview == [pc |-> "none"]

Init ==
  /\ tables = Tables
  /\ tx = Idle
  /\ answers = [s \in Sources |-> Unused]
  /\ reviews = [a \in Agents |-> NoReview]

-----------------------------------------------------------------------------
(* Transactions *)

\* The Source is looked up again inside the transaction, and recorded first.
Begin(s, kind, evidence, work) ==
  /\ tx = Idle
  /\ StoredSource(tables, s) = {}
  /\ tx' = [source |-> s, tables |-> RecordedSource(tables, s, kind, evidence), work |-> work,
            answer |-> Answer(kind, {}, {}, {}, {})]
  /\ UNCHANGED <<tables, answers>>

Commit ==
  /\ tables' = tx.tables
  /\ answers' = [answers EXCEPT ![tx.source] = tx.answer]
  /\ tx' = Idle

\* An error, a cancelled context or a stop: ROLLBACK.
Rollback ==
  /\ tx # Idle
  /\ tx' = Idle
  /\ UNCHANGED <<tables, answers, reviews>>

\* The tables and the answer after a step that leaves work to do.
Continue(t, field, value, work) ==
  /\ tx' = [tx EXCEPT !.tables = t, !.work = work,
                      !.answer = [@ EXCEPT ![field] = @ \union {value}]]
  /\ UNCHANGED <<tables, answers, reviews>>

-----------------------------------------------------------------------------
(* AppendEntityVersion, AppendRelationVersion, AppendClaimVersion *)

\* Mutant: without the endpoints of a Relation and the Subject of a Claim.
Appendable_Unchecked(t, row) == row.version = CurrentRow(t, row.object).version + 1

\* The next Version of a bound identity; a tombstone keeps the content, and
\* what is no tombstone refers to what is active.
Appendable(t, row) ==
  LET o == row.object IN
  /\ HasIdentity(t, o)
  /\ row.version = CurrentRow(t, o).version + 1
  /\ row.deleted => Formal(t, o) # {} /\ row.content = CurrentRow(t, o).content
  /\ ~row.deleted => \A r \in Refs[o] : IsActive(t, r)

AppendVersion(t, row) == Supported(InsertedVersion(t, row), row.object, row.version, 0, row.creator)

-----------------------------------------------------------------------------
(* Submission *)

\* Entities, then Relations, then Claims; equal contents of one object once.
Ordered(numbers) ==
  LET at[i \in 1..Cardinality(numbers)] ==
        CHOOSE n \in numbers : Cardinality({m \in numbers : m < n}) = i - 1
  IN at

ObjectsOf(command) == {command[i][1] : i \in DOMAIN command}
ContentsOf(command, o) ==
  {command[i][2] : i \in {i \in DOMAIN command : command[i][1] = o}}

Normalized(command) ==
  [i \in 1..Cardinality(ObjectsOf(command)) |->
     LET o == Ordered(ObjectsOf(command))[i] IN
     [object |-> o, variants |-> Ordered(ContentsOf(command, o)), opened |-> FALSE]]

\* What Preflight finds of every object that a command has or refers to.  What
\* is new in the command counts as active and has no identity yet.
Preflighted(t, command) ==
  LET status[o \in Objects] ==
        LET fresh == ~HasIdentity(t, o) \/ \E r \in Refs[o] : ~status[r].bound
            known == \A r \in Refs[o] : status[r].ok
        IN IF ~fresh THEN [ok |-> known, bound |-> TRUE, active |-> IsActive(t, o)]
           ELSE [ok |-> /\ known /\ o \in ObjectsOf(command)
                        /\ \A r \in Refs[o] : status[r].active,
                 bound |-> FALSE, active |-> TRUE]
  IN status

\* Whether Submit will accept the references of a command.
Preflight(t, command) == \A o \in ObjectsOf(command) : Preflighted(t, command)[o].ok

BeginSubmission(s, command) ==
  /\ Begin(s, "submission", Cites[s], Normalized(command))
  /\ UNCHANGED reviews

Submitting == tx # Idle /\ tx.answer.kind = "submission" /\ tx.work # << >>

\* The batch being submitted, once its first n variants are done.
Rest(n) ==
  LET batch == Head(tx.work)
      left == SubSeq(batch.variants, n + 1, Len(batch.variants))
  IN IF left = << >> THEN Tail(tx.work)
     ELSE <<[batch EXCEPT !.variants = left, !.opened = TRUE]>> \o Tail(tx.work)

\* The identity is known, or it is reserved and gets Version 1 if all that it
\* refers to is active.
SubmitObject ==
  /\ Submitting
  /\ LET t == tx.tables
         batch == Head(tx.work)
         o == batch.object
         first == Row(o, 1, 0, batch.variants[1], FALSE, tx.source)
     IN /\ ~batch.opened
        /\ \A r \in Refs[o] : HasIdentity(t, r)
        /\ \/ /\ HasIdentity(t, o)
              /\ tx' = [tx EXCEPT !.work = Rest(0)]
              /\ UNCHANGED <<tables, answers, reviews>>
           \/ /\ Reservable(t, o)
              /\ Appendable(Reserved(t, o), first)
              /\ Continue(AppendVersion(Reserved(t, o), first), "created", <<o, 1>>, Rest(1))

\* The next variant of an object that has a Current Version.
NextVariant(o, current, content) ==
  /\ Submitting
  /\ Head(tx.work).opened
  /\ o = Head(tx.work).object
  /\ content = Head(tx.work).variants[1]
  /\ Formal(tx.tables, o) # {}
  /\ current = CurrentRow(tx.tables, o)

Agrees(current, content) == ~current.deleted /\ current.content = content

ConfirmCurrent(o, current, content) ==
  /\ NextVariant(o, current, content)
  /\ Agrees(current, content)
  /\ Continue(Supported(tx.tables, o, current.version, 0, tx.source),
              "confirmed", <<o, current.version>>, Rest(1))

ReuseCandidate(o, current, content) ==
  /\ NextVariant(o, current, content)
  /\ ~Agrees(current, content)
  /\ \E found \in Matching(tx.tables, o, current.version, content) :
       Continue(Supported(tx.tables, o, current.version, found.number, tx.source),
                "reused", <<o, current.version, content>>, Rest(1))

OpenCandidate(o, current, content) ==
  /\ NextVariant(o, current, content)
  /\ ~Agrees(current, content)
  /\ Matching(tx.tables, o, current.version, content) = {}
  /\ LET base == current.version
         number == NextNumber(tx.tables, o, base)
         row == Row(o, base, number, content, FALSE, tx.source)
     IN Continue(Supported(InsertedCandidate(tx.tables, row), o, base, number, tx.source),
                 "opened", <<o, base, content>>, Rest(1))

SubmitVariant ==
  \E o \in Objects : \E content \in Contents :
    LET current == CurrentRow(tx.tables, o) IN
      \/ ConfirmCurrent(o, current, content)
      \/ ReuseCandidate(o, current, content)
      \/ OpenCandidate(o, current, content)

CommitSubmission ==
  /\ tx # Idle
  /\ tx.answer.kind = "submission"
  /\ tx.work = << >>
  /\ Commit
  /\ UNCHANGED reviews

-----------------------------------------------------------------------------
(* Resolution *)

\* actualEntityExpectations: the pending Candidates and who supports each.
Expectations(t, o, base) ==
  {[content |-> k.content, sources |-> CandidateSources(t, k)] : k \in PendingRows(t, o, base)}

BeginReview(a, o) ==
  /\ reviews[a] = NoReview
  /\ HasIdentity(tables, o)
  /\ reviews' = [reviews EXCEPT ![a] =
       [pc |-> "reading", object |-> o, base |-> CurrentRow(tables, o).version]]
  /\ UNCHANGED <<tables, tx, answers>>

FinishReview(a) ==
  /\ reviews[a].pc = "reading"
  /\ LET o == reviews[a].object  base == reviews[a].base IN
     reviews' = [reviews EXCEPT ![a] =
       IF PendingRows(tables, o, base) = {} THEN NoReview
       ELSE [pc |-> "read", object |-> o, base |-> base,
             expected |-> Expectations(tables, o, base)]]
  /\ UNCHANGED <<tables, tx, answers>>

\* What the transaction checks before it records its Source.
Resolvable(review) ==
  LET o == review.object  base == CurrentRow(tables, o).version IN
    /\ \A r \in Refs[o] : IsActive(tables, r)
    /\ PendingRows(tables, o, base) # {}
    /\ review.base = base
    /\ review.expected = Expectations(tables, o, base)

BeginResolution(a, s, final) ==
  /\ reviews[a].pc = "read"
  /\ Resolvable(reviews[a])
  /\ Begin(s, "resolution", {},
       [agent |-> a, object |-> reviews[a].object, base |-> reviews[a].base, final |-> final,
        opened |-> FALSE, decided |-> Ordered({x.content : x \in reviews[a].expected})])
  /\ UNCHANGED reviews

Resolving == tx # Idle /\ tx.answer.kind = "resolution"

\* Current stays if it already says so; otherwise the decision is the next Version.
AppendDecision ==
  /\ Resolving
  /\ ~tx.work.opened
  /\ LET o == tx.work.object
         current == CurrentRow(tx.tables, o)
         next == current.version + 1
         row == Row(o, next, 0, tx.work.final, FALSE, tx.source)
         work == [tx.work EXCEPT !.opened = TRUE]
     IN \/ /\ Agrees(current, tx.work.final)
           /\ Continue(Supported(tx.tables, o, current.version, 0, tx.source),
                       "confirmed", <<o, current.version>>, work)
        \/ /\ ~Agrees(current, tx.work.final)
           /\ Appendable(tx.tables, row)
           /\ Continue(AppendVersion(tx.tables, row), "created", <<o, next>>, work)

\* Every Candidate that the decision names is marked, if exactly one row is.
ResolveCandidate ==
  /\ Resolving
  /\ tx.work.opened
  /\ tx.work.decided # << >>
  /\ LET o == tx.work.object  content == Head(tx.work.decided) IN
     /\ Cardinality(Matching(tx.tables, o, tx.work.base, content)) = 1
     /\ tx' = [tx EXCEPT !.tables = Marked(@, o, tx.work.base, content, tx.source),
                         !.work.decided = Tail(@)]
  /\ UNCHANGED <<tables, answers, reviews>>

CommitResolution ==
  /\ Resolving
  /\ tx.work.opened
  /\ tx.work.decided = << >>
  /\ Commit
  /\ reviews' = [reviews EXCEPT ![tx.work.agent] = NoReview]

\* ErrConflictChanged, ErrConflictNotFound or ErrInvalidChange.
RejectResolution(a) ==
  /\ tx = Idle
  /\ reviews[a].pc = "read"
  /\ ~Resolvable(reviews[a])
  /\ reviews' = [reviews EXCEPT ![a] = NoReview]
  /\ UNCHANGED <<tables, tx, answers>>

-----------------------------------------------------------------------------
(* Deletion *)

BeginDeletion(s, o, expected) ==
  /\ Begin(s, "deletion", {}, [object |-> o, expected |-> expected, opened |-> FALSE])
  /\ UNCHANGED reviews

Deleting == tx # Idle /\ tx.answer.kind = "deletion"

DeleteObject ==
  /\ Deleting
  /\ ~tx.work.opened
  /\ LET t == tx.tables
         o == tx.work.object
         current == CurrentRow(t, o)
         next == current.version + 1
         work == [tx.work EXCEPT !.opened = TRUE]
         row == Row(o, next, 0, current.content, TRUE, tx.source)
     IN /\ Formal(t, o) # {}
        /\ current.version = tx.work.expected
        /\ \/ /\ current.deleted
              /\ Continue(Supported(t, o, current.version, 0, tx.source),
                          "confirmed", <<o, current.version>>, work)
           \/ /\ ~current.deleted
              /\ ActiveRelations(t, o) = {} /\ ActiveClaims(t, o) = {}
              /\ Appendable(t, row)
              /\ Continue(AppendVersion(t, row), "created", <<o, next>>, work)

CommitDeletion ==
  /\ Deleting
  /\ tx.work.opened
  /\ Commit
  /\ UNCHANGED reviews

-----------------------------------------------------------------------------
Next ==
  \/ \E s \in Sources : \E command \in Commands : BeginSubmission(s, command)
  \/ SubmitObject
  \/ tx # Idle /\ SubmitVariant
  \/ CommitSubmission
  \/ \E a \in Agents : \E o \in Objects : BeginReview(a, o)
  \/ \E a \in Agents : FinishReview(a)
  \/ \E a \in Agents : \E s \in Sources : \E final \in Contents : BeginResolution(a, s, final)
  \/ AppendDecision
  \/ ResolveCandidate
  \/ CommitResolution
  \/ \E a \in Agents : RejectResolution(a)
  \/ \E s \in Sources : \E o \in Objects :
       \E expected \in 1..Max({1} \union HistoryVersions(tables, o)) : BeginDeletion(s, o, expected)
  \/ DeleteObject
  \/ CommitDeletion
  \/ Rollback

Spec == Init /\ [][Next]_storeVars

-----------------------------------------------------------------------------
(* Properties *)

RowType ==
  [object : Objects, version : Nat \ {0}, number : Nat, content : Contents, deleted : BOOLEAN,
   creator : Sources, resolver : Sources \union {Pending}]

\* Every stored row has its shape; so has what an open transaction would store.
TypeOK ==
  \A t \in {tables} \union (IF tx = Idle THEN {} ELSE {tx.tables}) :
    /\ t.identities \subseteq Objects
    /\ t.sources \subseteq [id : Sources, kind : {"submission", "resolution", "deletion"},
                            evidence : {{}} \union {Cites[s] : s \in Sources}]
    /\ t.rows \subseteq RowType
    /\ t.metadata \subseteq [source : Sources, object : Objects, version : Nat \ {0}, number : Nat]

\* The formal Versions and the Candidates that the rows stand for.
VersionsOf(o) ==
  [n \in 1..CurrentRow(tables, o).version |->
     LET row == CHOOSE r \in FormalRow(tables, o, n) : TRUE IN
     [content |-> row.content, deleted |-> row.deleted, createdBy |-> row.creator,
      sources |-> RowSources(tables, o, n, 0)]]

Candidates ==
  {[object |-> r.object, base |-> r.version, content |-> r.content, openedBy |-> r.creator,
    sources |-> CandidateSources(tables, r), resolvedBy |-> r.resolver] :
     r \in {r \in tables.rows : r.number > 0}}

K == INSTANCE Knowledge WITH
  versions <- [o \in Objects |-> VersionsOf(o)], candidates <- Candidates,
  Batches <- {[o \in ObjectsOf(c) |-> ContentsOf(c, o)] : c \in Commands}

\* What is not committed is no step of Knowledge, what is is one.
StepOfKnowledge == UNCHANGED <<tables, answers, reviews>> \/ K!Next

\* Each transaction takes effect as one step of Knowledge, or not at all.
ImplementsKnowledge == K!Init /\ [][StepOfKnowledge]_storeVars

\* PRIMARY KEY of knowledge_versions; Versions and Candidates are numbered
\* without a gap, and what supports a row or created it is stored.
RowsWellFormed ==
  /\ \A q, r \in tables.rows :
       q.object = r.object /\ q.version = r.version /\ q.number = r.number => q = r
  /\ \A r \in tables.rows :
       /\ \A n \in 1..r.version : FormalRow(tables, r.object, n) # {}
       /\ r.creator \in RowSources(tables, r.object, r.version, r.number)
       /\ \A x \in 1..(r.number - 1) :
            \E q \in tables.rows : q.object = r.object /\ q.version = r.version /\ q.number = x
  /\ \A m \in tables.metadata :
       /\ StoredSource(tables, m.source) # {}
       /\ \E r \in tables.rows :
            r.object = m.object /\ r.version = m.version /\ r.number = m.number

\* SubmissionResult over the rows.
ResultOf(s) ==
  LET versions == SourceVersions(tables, s)
      found == SourceCandidates(tables, s)
      Key(r) == <<r.object, r.version, r.content>>
  IN Answer((CHOOSE source \in StoredSource(tables, s) : TRUE).kind,
       {<<r.object, r.version>> : r \in {r \in versions : r.creator = s}},
       {<<r.object, r.version>> : r \in {r \in versions : r.creator # s}},
       {Key(r) : r \in {r \in found : r.creator = s}},
       {Key(r) : r \in {r \in found : r.creator # s}})

\* ResolutionResult and DeletionResult insist on one formal result.
DirectResult(s) == {<<r.version, r.creator = s>> : r \in SourceVersions(tables, s)}

\* A repeated Source is told what it was told first.
Replayed ==
  \A s \in Sources : answers[s] # Unused =>
    /\ ResultOf(s) = answers[s]
    /\ answers[s].kind # "submission" => Cardinality(DirectResult(s)) = 1

\* Preflight says what Submit would do on the same tables.
PreflightExact ==
  \A command \in Commands :
    Preflight(tables, command) <=> K!Acceptable([o \in ObjectsOf(command) |-> ContentsOf(command, o)])

\* Whoever supported the Candidate that a Resolution made formal is evidence
\* of the new Version, with what it cited, and so is nobody else but those who
\* support the Version itself.
EvidenceCarried ==
  \A k \in Candidates :
    \A row \in FormalRow(tables, k.object, k.base + 1) :
      k.resolvedBy = row.creator /\ k.content = row.content =>
        ReadEvidence(tables, k.object, k.base + 1) =
          {[source |-> s, evidence |-> IF answers[s].kind = "submission" THEN Cites[s] ELSE {}] :
             s \in k.sources \union RowSources(tables, k.object, k.base + 1, 0)}

\* Pages of any size hold each key once, in order, and all of them.
PagedExactly(pages, keys) ==
  /\ UNION {pages[i] : i \in DOMAIN pages} = keys
  /\ \A i, j \in DOMAIN pages : i < j =>
       \A p \in pages[i] : \A q \in pages[j] : p < q

\* What a View pages through is what a single read would see, and the Manifest
\* references active Versions that can be read.
ReadsExact ==
  /\ \A limit \in 1..2 :
       /\ \A kind \in {Kind[o] : o \in Objects} :
            /\ PagedExactly(Active(tables, kind, limit), ActiveReferences(tables, kind))
            /\ PagedExactly(Current(tables, kind, limit), CurrentVersions(tables, kind))
       /\ \A o \in Objects : PagedExactly(History(tables, o, limit), 1..CurrentRow(tables, o).version)
       /\ PagedExactly(Pages(PendingIDs(tables), limit), PendingIDs(tables))
  /\ Readable(tables, CurrentManifest(tables))
  /\ Read(tables, CurrentManifest(tables)) =
       {CurrentRow(tables, o) : o \in {o \in Objects : IsActive(tables, o)}}

\* All that holds of the committed tables.
StoreSound ==
  RowsWellFormed /\ Replayed /\ PreflightExact /\ EvidenceCarried /\ ReadsExact
=============================================================================
