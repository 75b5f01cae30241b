------------------------------ MODULE Searches ------------------------------
(***************************************************************************)
(* The two kinds of request that are more than a few reads, DRIFT and      *)
(* Global, as Services has them and SearchProofs reasons about them.       *)
(***************************************************************************)

CONSTANTS
  \* Drift
  Root, FollowUps, Folds, MaxPrompt, Prompts, Feedback, MaxDepth, BatchSize, MaxBranches,
  ModelCalls, PromptTokens, OutputTokens, HyDEMax, PrimerMax, BranchMax, ReduceMax,
  \* GlobalSearch
  ReportTable, Parent, Level, Rank, ReportEntities, TextUnits, Size, CommunityLevel, MinimumRank,
  MaxContextTokens, Header, RatingThreshold, KeepParent, Repeats, MaxLevel, Ratings,
  MaxConcurrency, Responses, DataMaxTokens, AllowGeneralKnowledge

VARIABLES
  step, outcome, gone, expired, budget, primed, folds, primerErr, queries,
  branches, edges, processed, asked, exhausted,
  at, reply, left, level, frontier, ratings, order, kept, chunks, results,
  reduced, cut, scope, resolved

driftVars == <<step, outcome, gone, expired, budget, primed, folds, primerErr,
               queries, branches, edges, processed, asked, exhausted>>
globalVars == <<at, reply, left, level, frontier, ratings, order, kept, chunks,
                results, reduced, cut, scope, resolved>>

Search == INSTANCE Drift

Glob == INSTANCE GlobalSearch WITH
  Published <- ReportTable, Entities <- ReportEntities, Threshold <- RatingThreshold

\* What the proofs assume of the constants.
ASSUME SearchAssumptions == Search!Assumptions
ASSUME GlobalAssumptions == Glob!Assumptions
=============================================================================
