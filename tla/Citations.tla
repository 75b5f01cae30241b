----------------------------- MODULE Citations -----------------------------
(***************************************************************************)
(* The Citations of a DRIFT answer.  The Primer's folds and the Local      *)
(* branches number the rows of their evidence each on its own; the context *)
(* of the final Reduce binds the rows of the answers it admits to numbers  *)
(* of the request and rewrites the answers, and the final audit reads a    *)
(* reference of the response in that scope alone.                          *)
(***************************************************************************)
EXTENDS Integers, FiniteSets, SequencesExt

CONSTANTS
  Datasets,     \* tables of evidence, "Reports" among them
  MaxRow,       \* greatest number of a row in the evidence of one answer
  Answers,      \* number of candidates: the folds, then the branches
  FoldAnswers,  \* how many of them are folds of the Primer
  MaxCites      \* references in one answer

\* What the proofs assume of the constants.
Assumptions == MaxRow \in Nat /\ MaxCites \in Nat

References == [dataset : Datasets, row : 0 .. MaxRow]
Cites == SeqOf(References, MaxCites)

VARIABLES
  candidate,   \* the candidate whose turn it is
  ledger,      \* citationLedger: a reference is bound to a row of one answer
  admitted,    \* ReduceContext.Answers, as the references that they show
  truncated,   \* ReduceContext.Truncated
  audited      \* items of the final audit: a reference and the row it resolves to

vars == <<candidate, ledger, admitted, truncated, audited>>

Init ==
  /\ candidate = 1
  /\ ledger = <<>>
  /\ admitted = <<>>
  /\ truncated = FALSE
  /\ audited = {}

-----------------------------------------------------------------------------

\* The row that a reference means in the evidence of the n-th answer.
Row(n, reference) == [answer |-> n, local |-> reference]

\* bind: the next number of the dataset.
Bind(led, row) ==
  LET number == Cardinality({i \in DOMAIN led : led[i].reference.dataset = row.local.dataset})
  IN  Append(led, [reference |-> [dataset |-> row.local.dataset, row |-> number], row |-> row])

\* bindCandidate, on a clone of the ledger.
BindAll(led, rows) ==
  LET after[n \in 0 .. Len(rows)] == IF n = 0 THEN led ELSE Bind(after[n - 1], rows[n])
  IN  after[Len(rows)]

\* Each of the valid references once, in their order.
Distinct(list, valid) ==
  LET found[n \in 0 .. Len(list)] ==
        IF n = 0 THEN <<>>
        ELSE IF list[n] \in valid /\ ~Contains(found[n - 1], list[n])
               THEN Append(found[n - 1], list[n])
        ELSE found[n - 1]
  IN  found[Len(list)]

\* Mutant: what is not replaced stays as it is.
Rewritten_Stale(cites, n, bound) ==
  {bound[i].reference : i \in {j \in DOMAIN bound : /\ bound[j].row.answer = n
                                                    /\ Contains(cites, bound[j].row.local)}}
    \cup {reference \in ToSet(cites) : ~\E j \in DOMAIN bound : bound[j].row = Row(n, reference)}

\* RewriteReferences: what is not replaced is left out.
Rewritten(cites, n, bound) ==
  {bound[i].reference : i \in {j \in DOMAIN bound : /\ bound[j].row.answer = n
                                                    /\ Contains(cites, bound[j].row.local)}}

\* The rows of a fold are its Reports, and none of them replaces a reference
\* of its text: they are appended to it, all of them.
Shown(cites, n, bound) ==
  IF n <= FoldAnswers
    THEN {bound[i].reference : i \in {j \in DOMAIN bound : bound[j].row.answer = n}}
    ELSE Rewritten(cites, n, bound)

Reports(count) ==
  [i \in 1 .. count |-> [dataset |-> "Reports", row |-> i - 1]]

\* The texts of a candidate and the rows it may show: those of the Reports of
\* a fold; of a branch those that its audit has found in its evidence and
\* resolved to sources.
Evidence(n) ==
  IF n <= FoldAnswers
    THEN {[cites |-> cites, locals |-> Reports(count)] : cites \in Cites, count \in 1 .. MaxRow + 1}
    ELSE {[cites |-> cites, locals |-> Distinct(cites, valid)] :
            cites \in Cites, valid \in SUBSET References}

RowsOf(n, locals) == [i \in DOMAIN locals |-> Row(n, locals[i])]

Turn == candidate <= Answers /\ ~truncated

AdmitText(text, cites) ==
  LET bound == BindAll(ledger, RowsOf(candidate, text.locals))
  IN  /\ ledger' = bound
      /\ admitted' = Append(admitted, Shown(cites, candidate, bound))
      /\ candidate' = candidate + 1
      /\ UNCHANGED audited

\* An answer that fits is admitted whole.
Admit ==
  /\ Turn
  /\ \E text \in Evidence(candidate) : AdmitText(text, text.cites)
  /\ UNCHANGED truncated

\* truncateFirstAnswer: as much of the text as fits, and all of its rows.
Truncate ==
  /\ Turn /\ admitted = <<>>
  /\ \E text \in Evidence(candidate) : \E length \in 0 .. Len(text.cites) :
       AdmitText(text, SubSeq(text.cites, 1, length))
  /\ truncated' = TRUE

\* An answer that does not fit is the end of the context.
Leave ==
  /\ Turn /\ admitted # <<>>
  /\ truncated' = TRUE
  /\ UNCHANGED <<candidate, ledger, admitted, audited>>

\* The response of the Reduce and its audit: any reference may be in it.
Audit ==
  /\ admitted # <<>> /\ (truncated \/ candidate > Answers) /\ audited = {}
  /\ \E reference \in [dataset : Datasets, row : 0 .. Len(ledger)] :
       LET scope == {i \in DOMAIN ledger : ledger[i].reference = reference}
       IN  audited' = {[reference |-> reference, rows |-> {ledger[i].row : i \in scope}]}
  /\ UNCHANGED <<candidate, ledger, admitted, truncated>>

Next == Admit \/ Truncate \/ Leave \/ Audit

Spec == Init /\ [][Next]_vars

-----------------------------------------------------------------------------

\* Types of the variables.
TypeOK ==
  /\ candidate \in 1 .. Answers + 1
  /\ \A i \in DOMAIN ledger :
       /\ ledger[i].reference.dataset \in Datasets
       /\ ledger[i].row \in [answer : 1 .. Answers, local : References]
  /\ Len(admitted) <= Answers
  /\ truncated \in BOOLEAN

\* A reference that an admitted answer shows the Reduce means a row of that
\* answer's own evidence, an audited one at most one row of an answer the
\* Reduce was shown, although every answer numbers its rows from 0 and any of
\* them may be left out (reduce_context.go; ledger.go; citation/syntax.go).
CitationsResolve ==
  /\ \A n \in DOMAIN admitted : \A reference \in admitted[n] :
       {ledger[i].row.answer : i \in {j \in DOMAIN ledger : ledger[j].reference = reference}} = {n}
  /\ \A item \in audited : /\ Cardinality(item.rows) <= 1
                           /\ \A row \in item.rows : row.answer \in DOMAIN admitted
=============================================================================
