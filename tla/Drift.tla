------------------------------- MODULE Drift -------------------------------
(***************************************************************************)
(* One DRIFT request: the Primer (a hypothetical answer, then one call per *)
(* fold of Reports), the traversal of a graph of Local branches in batches *)
(* and the final Reduce, all within the limits of the request.  The budget *)
(* holds the Reduce's call and output from the beginning.  The caller may  *)
(* go away and the duration may end at any time; any read, model call or   *)
(* count of tokens may fail.                                               *)
(***************************************************************************)
EXTENDS Integers, SequencesExt, Lists

CONSTANTS
  Root,           \* the question of the request
  FollowUps,      \* lists of follow-up queries in a model's response
  Folds,          \* min(Reports, Folds) of PrimerConfig
  MaxPrompt,      \* MaxPromptTokens of PrimerConfig
  Prompts,        \* sizes of prompts, in tokens
  Feedback,       \* tokens a correction adds to the conversation
  MaxDepth, BatchSize, MaxBranches,                \* TraversalConfig
  ModelCalls, PromptTokens, OutputTokens,          \* RequestLimits
  HyDEMax, PrimerMax, BranchMax, ReduceMax         \* completion limits

Questions == {Root} \cup UNION {ToSet(list) : list \in FollowUps}

\* Configuration.Validate
Validated ==
  /\ Folds > 0 /\ MaxDepth > 0 /\ BatchSize > 0 /\ MaxBranches > 0
  /\ \A limit \in {HyDEMax, PrimerMax, BranchMax, ReduceMax} : limit > 0
  /\ 1 + Folds + 1 <= ModelCalls
  /\ MaxPrompt * (1 + Folds) <= PromptTokens
  /\ HyDEMax + Folds * PrimerMax + ReduceMax <= OutputTokens

\* What the proofs assume of the constants.
Assumptions ==
  /\ {Folds, MaxPrompt, Feedback, MaxDepth, BatchSize, MaxBranches, ModelCalls, PromptTokens,
      OutputTokens, HyDEMax, PrimerMax, BranchMax, ReduceMax} \subseteq Nat
  /\ Prompts \subseteq Nat
  /\ FollowUps \subseteq Seq(Questions)
  /\ Validated

VARIABLES
  step,       \* where the request is
  outcome,    \* what Search returns
  gone,       \* the caller's context is done
  expired,    \* the request duration is over
  budget,     \* requestBudget
  primed,     \* PrimerResult.Usage
  folds,      \* prompts of the folds whose outcome is not looked at yet
  primerErr,  \* resultErr of analyzeFolds
  queries,    \* PrimerResult.FollowUpQueries
  branches,   \* TraversalResult.Branches, in discovery order
  edges,      \* TraversalResult.Edges
  processed,  \* branches taken into a batch
  asked,      \* branches of the batch whose outcome is not looked at yet
  exhausted   \* budgetStopped

vars == <<step, outcome, gone, expired, budget, primed, folds, primerErr, queries,
          branches, edges, processed, asked, exhausted>>

contextVars == <<gone, expired>>
primerVars == <<primed, folds, primerErr, queries>>
graphVars == <<branches, edges>>
batchVars == <<processed, asked, exhausted>>

-----------------------------------------------------------------------------
(* requestBudget *)

\* Mutant: what is held for the Reduce is not left alone.
CanReserve_Held(bud, prompt, limit) ==
  /\ bud.calls + 1 <= ModelCalls
  /\ bud.prompt + prompt <= PromptTokens
  /\ bud.output + bud.active + limit <= OutputTokens

CanReserve(bud, prompt, limit) ==
  /\ bud.calls + bud.heldCalls + 1 <= ModelCalls
  /\ bud.prompt + prompt <= PromptTokens
  /\ bud.output + bud.heldOutput + bud.active + limit <= OutputTokens

Reserve(bud, prompt, limit) ==
  [bud EXCEPT !.calls = @ + 1, !.prompt = @ + prompt, !.active = @ + limit]

Finish(bud, limit, output) ==
  [bud EXCEPT !.active = IF @ > limit THEN @ - limit ELSE 0, !.output = @ + output]

\* hold(1, ReduceMax) of a new budget, which Validated always allows.
Held ==
  [calls |-> 0, prompt |-> 0, output |-> 0, active |-> 0,
   heldCalls |-> 1, heldOutput |-> ReduceMax]

CanUseHeld(bud, prompt, limit) ==
  /\ bud.heldCalls >= 1 /\ bud.heldOutput >= limit
  /\ bud.prompt + prompt <= PromptTokens
  /\ bud.output + bud.heldOutput + bud.active <= OutputTokens

UseHeld(bud, prompt, limit) ==
  [Reserve(bud, prompt, limit) EXCEPT !.heldCalls = @ - 1, !.heldOutput = @ - limit]

\* How many more calls a batch may consist of.
Capacity(bud) ==
  LET calls == ModelCalls - bud.calls - bud.heldCalls
      output == OutputTokens - bud.output - bud.heldOutput - bud.active
  IN  IF bud.prompt >= PromptTokens \/ calls <= 0 \/ output < BranchMax
        THEN 0
        ELSE IF calls < output \div BranchMax THEN calls ELSE output \div BranchMax

-----------------------------------------------------------------------------
(* Model calls *)

Used(calls, prompt, output) == [calls |-> calls, prompt |-> prompt, output |-> output]

AddUsage(left, right) ==
  Used(left.calls + right.calls, left.prompt + right.prompt, left.output + right.output)

\* A provider may exceed the limit of tokens it is given.
Outputs(limit) == 0 .. limit + 1

\* What the last of calls model calls ends with, given the usage before its
\* output: an error, too long an output or one that is within the limit.
Ends(bud, limit, used) ==
  {[kind |-> "error", budget |-> Finish(bud, limit, 0), used |-> used]} \cup
  {[kind |-> IF output > limit THEN "overrun" ELSE "text",
    budget |-> Finish(bud, limit, output),
    used |-> AddUsage(used, Used(0, 0, output))] : output \in Outputs(limit)}

\* Prompt of the correction of the text that end has: the conversation so far.
Conversation(end) == end.used.prompt + end.used.output + Feedback

\* Outcomes of a reserved call with a prompt of that size: a text that is no
\* valid response is sent back once, if the budget allows.
Outcomes(bud, prompt, limit) ==
  LET first == Ends(bud, limit, Used(1, prompt, 0))
      Again(end) ==
        Ends(Reserve(end.budget, Conversation(end), limit), limit,
             AddUsage(end.used, Used(1, Conversation(end), 0)))
      correctable == {end \in first : /\ end.kind = "text"
                                      /\ CanReserve(end.budget, Conversation(end), limit)}
      last == first \cup UNION {Again(end) : end \in correctable}
  IN  {end \in last : end.kind # "text"}
        \cup {[end EXCEPT !.kind = "answer"] : end \in {e \in last : e.kind = "text"}}
        \cup {[end EXCEPT !.kind = "invalid"] :
                end \in {e \in last \ correctable : e.kind = "text"}}

-----------------------------------------------------------------------------
(* branchGraph *)

Known == {branches[i].question : i \in DOMAIN branches}

Attempted == {"succeeded", "evidence", "error", "overrun", "invalid"}

NewBranch(question, depth) ==
  [question |-> question, depth |-> depth, status |-> "pending", used |-> Used(0, 0, 0)]

\* add: the questions that are new become branches in their order, every one
\* of them an edge, unless the parent is as deep as branches get.
Added(graph, parent, depth, questions) ==
  LET known == {Root} \cup {graph.branches[i].question : i \in DOMAIN graph.branches}
      fresh == Picked(questions, {n \in DOMAIN questions :
                                    /\ questions[n] \notin known
                                    /\ \A before \in 1 .. n - 1 : questions[before] # questions[n]})
  IN  IF depth >= MaxDepth THEN graph
      ELSE [branches |-> graph.branches \o
                         [i \in DOMAIN fresh |-> NewBranch(fresh[i], depth + 1)],
            edges |-> graph.edges \cup {<<parent, question>> : question \in ToSet(questions)}]

\* discardPending
Discarded(graph) ==
  LET kept == Picked(graph.branches,
                     {i \in DOMAIN graph.branches : graph.branches[i].status # "pending"})
  IN  [branches |-> kept,
       edges |-> {edge \in graph.edges :
                    \/ edge[2] = Root
                    \/ \E i \in DOMAIN kept : kept[i].question = edge[2]}]

\* failPending, after which there is nothing to discard.
AllFailed(graph) ==
  [graph EXCEPT !.branches =
     [i \in DOMAIN @ |-> IF @[i].status = "pending" THEN [@[i] EXCEPT !.status = "cancelled"]
                                                    ELSE @[i]]]

Graph == [branches |-> branches, edges |-> edges]

SetGraph(graph) == branches' = graph.branches /\ edges' = graph.edges

-----------------------------------------------------------------------------
(* The request and its context *)

Init ==
  /\ step = "hypothetical" /\ outcome = "none"
  /\ gone = FALSE /\ expired = FALSE
  /\ budget = Held
  /\ primed = Used(0, 0, 0) /\ folds = <<>> /\ primerErr = FALSE /\ queries = <<>>
  /\ branches = <<>> /\ edges = {}
  /\ processed = 0 /\ asked = <<>> /\ exhausted = FALSE

\* The caller cancels, or the duration ends first.
ContextEnds ==
  /\ step # "done" /\ ~gone /\ ~expired
  /\ \/ gone' = TRUE /\ UNCHANGED expired
     \/ expired' = TRUE /\ UNCHANGED gone
  /\ UNCHANGED <<step, outcome, budget, primerVars, graphVars, batchVars>>

\* requestFailure
Failure(reason) == IF gone THEN "cancelled" ELSE IF expired THEN "duration" ELSE reason

Fail(reason) == step' = "done" /\ outcome' = Failure(reason)

\* Current, the Reports, their vectors, the Local session, the sources of a
\* Citation: they cannot be read.
ReadFails ==
  /\ step \in {"hypothetical", "retrieval", "opening", "reduce", "audit"}
  /\ Fail("failed")
  /\ UNCHANGED <<contextVars, budget, primerVars, graphVars, batchVars>>

-----------------------------------------------------------------------------
(* Primer *)

\* generateHypothetical: a text of any size within the limit is used.
Hypothetical ==
  /\ step = "hypothetical"
  /\ \E prompt \in Prompts :
       /\ prompt <= MaxPrompt
       /\ IF CanReserve(budget, prompt, HyDEMax)
            THEN \E end \in Ends(Reserve(budget, prompt, HyDEMax), HyDEMax, Used(1, prompt, 0)) :
                   /\ budget' = end.budget /\ primed' = end.used
                   /\ IF end.kind = "text" THEN step' = "retrieval" /\ UNCHANGED outcome
                                           ELSE Fail(end.kind)
            ELSE Fail("lost") /\ UNCHANGED <<budget, primed>>
  /\ UNCHANGED <<contextVars, folds, primerErr, queries, graphVars, batchVars>>

\* The folds that are reserved before one is refused.
ReservedFolds(prompts) ==
  LET After[n \in 0 .. Len(prompts)] ==
        IF n = 0 THEN [budget |-> budget, folds |-> <<>>]
        ELSE LET before == After[n - 1]
             IN  IF Len(before.folds) = n - 1 /\ CanReserve(before.budget, prompts[n], PrimerMax)
                   THEN [budget |-> Reserve(before.budget, prompts[n], PrimerMax),
                         folds |-> Append(before.folds, prompts[n])]
                   ELSE before
  IN  After[Len(prompts)]

\* Retrieval of the Reports and the beginning of analyzeFolds.
Retrieve ==
  /\ step = "retrieval"
  /\ \E prompts \in SeqOf({p \in Prompts : p <= MaxPrompt}, Folds) \ {<<>>} :
       LET reserved == ReservedFolds(prompts)
       IN  /\ budget' = reserved.budget /\ folds' = reserved.folds
           /\ primed' = AddUsage(primed, Used(Len(reserved.folds), Summed(reserved.folds), 0))
           /\ IF reserved.folds # <<>> THEN step' = "folds" /\ UNCHANGED outcome
                                       ELSE Fail("lost")
  /\ UNCHANGED <<contextVars, primerErr, queries, graphVars, batchVars>>

\* One outcome; the outcomes after a failed one are looked at all the same.
FoldOutcome ==
  /\ step = "folds" /\ folds # <<>>
  /\ \E end \in Outcomes(budget, Head(folds), PrimerMax) :
       /\ budget' = end.budget
       /\ primed' = AddUsage(primed, Used(end.used.calls - 1, end.used.prompt - Head(folds),
                                          end.used.output))
       /\ IF end.kind = "answer"
            THEN \E list \in FollowUps \ {<<>>} : queries' = queries \o list /\ UNCHANGED primerErr
            ELSE primerErr' = TRUE /\ UNCHANGED queries
  /\ folds' = Tail(folds)
  /\ UNCHANGED <<step, outcome, contextVars, graphVars, batchVars>>

\* A failure of any fold fails the Primer.
PrimerEnds ==
  /\ step = "folds" /\ folds = <<>>
  /\ IF primerErr THEN Fail("failed") ELSE step' = "opening" /\ UNCHANGED outcome
  /\ UNCHANGED <<contextVars, budget, primerVars, graphVars, batchVars>>

-----------------------------------------------------------------------------
(* Traversal *)

\* The Local session is open; newBranchGraph.
Open ==
  /\ step = "opening" /\ ~gone
  /\ step' = "traversal"
  /\ SetGraph(Added(Graph, Root, 0, queries))
  /\ UNCHANGED <<outcome, contextVars, budget, primerVars, batchVars>>

\* stopTraversal, before a batch or after its model calls.
StopTraversal ==
  /\ step \in {"traversal", "running"}
  /\ gone \/ expired
  /\ Fail("failed")
  /\ SetGraph(IF gone THEN AllFailed(Graph) ELSE Discarded(Graph))
  /\ UNCHANGED <<contextVars, budget, primerVars, batchVars>>

\* An error of the TokenCounter is the end of the traversal.
CountFails ==
  /\ step \in {"traversal", "results"}
  /\ Fail("failed")
  /\ SetGraph(IF gone THEN AllFailed(Graph) ELSE Discarded(Graph))
  /\ UNCHANGED <<contextVars, budget, primerVars, batchVars>>

Pending ==
  Picked([i \in DOMAIN branches |-> i], {i \in DOMAIN branches : branches[i].status = "pending"})

\* The branches of the next batch, as indices.
Batch ==
  LET least(left, right) == IF left < right THEN left ELSE right
      limit == least(least(BatchSize, MaxBranches - processed), Capacity(budget))
  IN  SubSeq(Pending, 1, least(limit, Len(Pending)))

\* Evidence of each of them, or none, and the reservations up to one that is
\* refused; size[n] is 0 or the size of the n-th prompt.
PreparedBatch(batch, size) ==
  LET Do[n \in 0 .. Len(batch)] ==
        IF n = 0
          THEN [budget |-> budget, branches |-> branches, asked |-> <<>>, exhausted |-> FALSE]
          ELSE LET before == Do[n - 1] IN
               IF before.exhausted THEN before
               ELSE IF size[n] = 0
                 THEN [before EXCEPT !.branches[batch[n]].status = "evidence"]
               ELSE IF CanReserve(before.budget, size[n], BranchMax)
                 THEN [budget |-> Reserve(before.budget, size[n], BranchMax),
                       branches |-> [before.branches EXCEPT ![batch[n]].used = Used(1, size[n], 0)],
                       asked |-> Append(before.asked, batch[n]),
                       exhausted |-> FALSE]
                 ELSE [before EXCEPT !.exhausted = TRUE]
  IN  Do[Len(batch)]

Prepare ==
  /\ step = "traversal" /\ ~gone /\ ~expired /\ Batch # <<>>
  /\ \E size \in [DOMAIN Batch -> Prompts \cup {0}] :
       LET ready == PreparedBatch(Batch, size)
       IN  /\ budget' = ready.budget /\ branches' = ready.branches
           /\ asked' = ready.asked /\ exhausted' = ready.exhausted
  /\ processed' = processed + Len(Batch)
  /\ step' = "running"
  /\ UNCHANGED <<outcome, contextVars, primerVars, edges>>

\* group.Wait of the model calls.
Run ==
  /\ step = "running" /\ ~gone /\ ~expired
  /\ step' = "results"
  /\ UNCHANGED <<outcome, contextVars, budget, primerVars, graphVars, batchVars>>

BranchOutcome ==
  /\ step = "results" /\ asked # <<>>
  /\ LET i == Head(asked) IN
     \E end \in Outcomes(budget, branches[i].used.prompt, BranchMax) :
       LET looked == [branches EXCEPT
             ![i].status = IF end.kind = "answer" THEN "succeeded" ELSE end.kind,
             ![i].used = end.used]
       IN  /\ budget' = end.budget
           /\ IF end.kind = "answer"
                THEN \E list \in FollowUps :
                       SetGraph(Added([branches |-> looked, edges |-> edges],
                                      branches[i].question, branches[i].depth, list))
                ELSE SetGraph([branches |-> looked, edges |-> edges])
  /\ asked' = Tail(asked)
  /\ UNCHANGED <<step, outcome, contextVars, primerVars, processed, exhausted>>

BatchEnds ==
  /\ step = "results" /\ asked = <<>> /\ ~exhausted
  /\ step' = "traversal"
  /\ UNCHANGED <<outcome, contextVars, budget, primerVars, graphVars, batchVars>>

\* Nothing is left to ask, or no calls to ask it with.
TraversalEnds ==
  /\ \/ step = "traversal" /\ ~gone /\ ~expired /\ Batch = <<>>
     \/ step = "results" /\ asked = <<>> /\ exhausted
  /\ step' = "reduce"
  /\ SetGraph(Discarded(Graph))
  /\ UNCHANGED <<outcome, contextVars, budget, primerVars, batchVars>>

-----------------------------------------------------------------------------
(* Reduce *)

\* buildContext leaves out answers, and truncates the first, until the prompt
\* fits into what the calls before have left.
Fitting == {prompt \in Prompts : prompt <= PromptTokens - budget.prompt}

Reduce ==
  /\ step = "reduce" /\ ~gone /\ ~expired
  /\ \/ Fitting = {} /\ Fail("no room") /\ UNCHANGED budget
     \/ \E prompt \in Fitting :
          IF CanUseHeld(budget, prompt, ReduceMax)
            THEN \E end \in Ends(UseHeld(budget, prompt, ReduceMax), ReduceMax, Used(1, prompt, 0)) :
                   /\ budget' = end.budget
                   /\ IF end.kind = "text" /\ end.budget.output <= OutputTokens
                        THEN step' = "audit" /\ UNCHANGED outcome
                        ELSE Fail(end.kind)
            ELSE Fail("lost") /\ UNCHANGED budget
  /\ UNCHANGED <<contextVars, primerVars, graphVars, batchVars>>

\* auditFinal
Audit ==
  /\ step = "audit"
  /\ step' = "done" /\ outcome' = "answered"
  /\ UNCHANGED <<contextVars, budget, primerVars, graphVars, batchVars>>

Next ==
  \/ ContextEnds \/ ReadFails
  \/ Hypothetical \/ Retrieve \/ FoldOutcome \/ PrimerEnds
  \/ Open \/ StopTraversal \/ CountFails
  \/ Prepare \/ Run \/ BranchOutcome \/ BatchEnds \/ TraversalEnds
  \/ Reduce \/ Audit

Spec == Init /\ [][Next]_vars

-----------------------------------------------------------------------------

Usages == [calls : Nat, prompt : Nat, output : Nat]

\* Types of the variables.
TypeOK ==
  /\ step \in {"hypothetical", "retrieval", "folds", "opening", "traversal", "running",
                "results", "reduce", "audit", "done"}
  /\ outcome \in {"none", "answered", "cancelled", "duration", "failed", "error", "overrun",
                  "lost", "no room"}
  /\ gone \in BOOLEAN /\ expired \in BOOLEAN
  /\ budget \in [calls : Nat, prompt : Nat, output : Nat, active : Nat,
                 heldCalls : {0, 1}, heldOutput : {0, ReduceMax}]
  /\ primed \in Usages
  /\ folds \in Seq(Prompts)
  /\ primerErr \in BOOLEAN
  /\ ToSet(queries) \subseteq UNION {ToSet(list) : list \in FollowUps}
  /\ \A i \in DOMAIN branches :
       /\ branches[i].depth \in 1 .. MaxDepth
       /\ branches[i].status \in Attempted \cup {"pending", "cancelled"}
       /\ branches[i].used \in Usages
  /\ step = "results" => ToSet(asked) \subseteq DOMAIN branches
  /\ processed \in 0 .. MaxBranches
  /\ exhausted \in BOOLEAN

\* A branch was answered with more tokens than its call allowed.
Overrun == \E i \in DOMAIN branches : branches[i].status = "overrun"

\* The budget is what the Primer and the branches say they have used.
UsageAccounted ==
  step \in {"opening", "traversal", "running", "results", "reduce"} =>
    \A tally \in {"calls", "prompt", "output"} :
      budget[tally] = primed[tally] + Summed([i \in DOMAIN branches |-> branches[i].used[tally]])

\* The limits of the request are kept at every step, and what is held for the
\* Reduce is there when it is called: nothing but a branch that was answered
\* with more tokens than allowed takes it away (budget.go; reduce.go, execute).
BudgetKept ==
  /\ budget.calls + budget.heldCalls <= ModelCalls
  /\ budget.prompt <= PromptTokens
  /\ outcome = "answered" => budget.output <= OutputTokens
  /\ outcome = "lost" => Overrun
  /\ outcome = "none" /\ ~primerErr /\ ~Overrun =>
       budget.output + budget.heldOutput + budget.active <= OutputTokens
  /\ UsageAccounted

\* What the traversal returns, whatever failed in it, is a graph of questions
\* asked breadth first: no branch is pending, every edge leads from the root or
\* from a branch with an answer to the root or to a branch, every branch is one
\* deeper than the shallowest question it follows, and is there once
\* (graph.go, traversal.go).
BranchesTraced ==
  step \in {"reduce", "audit"} \/ (step = "done" /\ branches # <<>>) =>
    LET found == DOMAIN branches
        Depths(question) ==
          IF question = Root THEN {0}
          ELSE {branches[i].depth : i \in {j \in found : /\ branches[j].question = question
                                                        /\ branches[j].status = "succeeded"}}
        parents(i) == UNION {Depths(edge[1]) : edge \in {e \in edges : e[2] = branches[i].question}}
    IN  /\ \A i \in found : branches[i].status # "pending"
        /\ \A edge \in edges : Depths(edge[1]) # {} /\ edge[2] \in Known \cup {Root}
        /\ \A i \in found : /\ branches[i].depth - 1 \in parents(i)
                            /\ \A depth \in parents(i) : branches[i].depth <= depth + 1
        /\ Cardinality(Known) = Len(branches) /\ Root \notin Known
        /\ Cardinality({i \in found : branches[i].status \in Attempted}) <= MaxBranches
=============================================================================
