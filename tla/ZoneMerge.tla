----------------------------- MODULE ZoneMerge -----------------------------
(***************************************************************************)
(* Merging the formal Knowledge of a Child Zone into its Parent.  A merge  *)
(* reads the Child first and then, in one transaction, gives the Parent    *)
(* what it lacks and submits Parent content that differs to the Child as a *)
(* Candidate, with a row that assigns the conflict for review.  The        *)
(* Child's Resolution carries its decision back: in one transaction when   *)
(* the Parent is as assigned, otherwise through another merge, in three.   *)
(*                                                                         *)
(* What a Submission and a plain Resolution do inside one Zone is the      *)
(* subject of Knowledge; here an object is its formal Versions and its     *)
(* Candidates, and an Agent decides on what it has just read.              *)
(***************************************************************************)
EXTENDS Naturals, Sequences, FiniteSetsExt

CONSTANTS
  Objects,        \* identities known to both Zones
  Contents,       \* versioned content, by Hash
  Sources,        \* Resolution Sources, each for one command and its retries
  MaxWrites       \* bound on what the two Zones do by themselves

VARIABLES
  child, parent,  \* [o |-> its Versions and Candidates in the Zone]
  assigned,       \* the rows of zone_knowledge_conflicts
  commands,       \* commands[s]: the Resolution command of Source s
  calls,          \* the calls in progress: merges and Resolutions
  writes          \* what the Zones have done by themselves

vars == <<child, parent, assigned, commands, calls, writes>>

Deleted == "deleted"
Pending == "pending"
Merger == "merger"
Callers == Sources \cup {Merger}
NoCommand == <<>>
Returned == [at |-> "returned"]

\* What the proofs assume of the constants.
Assumptions == Deleted \notin Contents /\ Pending \notin Sources /\ Merger \notin Sources

Init ==
  /\ child  = [o \in Objects |-> [versions |-> <<>>, candidates |-> <<>>]]
  /\ parent = [o \in Objects |-> [versions |-> <<>>, candidates |-> <<>>]]
  /\ assigned = {}
  /\ commands = [s \in Sources |-> NoCommand]
  /\ calls = [p \in Callers |-> Returned]
  /\ writes = 0

-----------------------------------------------------------------------------
(* One object of one Zone. *)

Base(k) == Len(k.versions)
Current(k) == k.versions[Base(k)]
Active(k) == Base(k) > 0 /\ Current(k) # Deleted
Open(k) == {i \in DOMAIN k.candidates : k.candidates[i].base = Base(k) /\ k.candidates[i].open}

\* A Submission of c: Version 1, a confirmation, or a Candidate opened or reused.
Submitted(k, c) ==
  CASE Base(k) = 0 -> [k EXCEPT !.versions = <<c>>]
    [] Active(k) /\ Current(k) = c -> k
    [] \E i \in Open(k) : k.candidates[i].content = c -> k
    [] OTHER -> [k EXCEPT !.candidates = Append(@, [base |-> Base(k), content |-> c, open |-> TRUE])]

\* A Resolution for c decides every open Candidate of the base.
Decided(k, c) ==
  [versions |-> IF Active(k) /\ Current(k) = c THEN k.versions ELSE Append(k.versions, c),
   candidates |-> [i \in DOMAIN k.candidates |->
                     IF i \in Open(k) THEN [k.candidates[i] EXCEPT !.open = FALSE]
                                      ELSE k.candidates[i]]]

\* The Zones' own life, whatever merges are under way.
Write(childNext, parentNext) ==
  /\ writes < MaxWrites
  /\ writes' = writes + 1
  /\ child' = childNext
  /\ parent' = parentNext
  /\ UNCHANGED <<assigned, commands, calls>>

SubmitChild(o, c) == Write([child EXCEPT ![o] = Submitted(@, c)], parent)

SubmitParent(o, c) == Write(child, [parent EXCEPT ![o] = Submitted(@, c)])

\* resolution.Application by itself, which knows nothing of assignments: the
\* tools of MCP resolve a conflict of the Child with it as well.
ResolveChild(o, c) ==
  Open(child[o]) # {} /\ Write([child EXCEPT ![o] = Decided(@, c)], parent)

ResolveParent(o, c) ==
  Open(parent[o]) # {} /\ Write(child, [parent EXCEPT ![o] = Decided(@, c)])

DeleteChild(o) ==
  Active(child[o]) /\ Write([child EXCEPT ![o].versions = Append(@, Deleted)], parent)

DeleteParent(o) ==
  Active(parent[o]) /\ Write(child, [parent EXCEPT ![o].versions = Append(@, Deleted)])

-----------------------------------------------------------------------------
(* MergeChildKnowledge *)

Unresolved(o, base) == {r \in assigned : r.object = o /\ r.base = base /\ r.by = Pending}

Differs(o) == Base(parent[o]) > 0 /\ Current(parent[o]) # Current(child[o])

\* readChildKnowledge, before the transaction: the active objects, by Version.
BeginMerge(p) ==
  /\ IF p = Merger THEN calls[p] = Returned ELSE calls[p].at = "resolved"
  /\ calls' = [calls EXCEPT ![p] =
       [at |-> "read", row |-> IF p = Merger THEN {} ELSE calls[p].row,
        view |-> [o \in {o \in Objects : Active(child[o])} |-> Base(child[o])]]]
  /\ UNCHANGED <<child, parent, assigned, commands, writes>>

\* requireChildEntity, an active Parent, and SaveEntityConflict: a row that is
\* unresolved on this base has to be for the present Version of the Parent.
Mergeable(o, version) ==
  /\ Base(child[o]) = version /\ Active(child[o])
  /\ Base(parent[o]) > 0 => Active(parent[o])
  /\ Differs(o) => \A r \in Unresolved(o, version) : r.parentVersion = Base(parent[o])

\* The assignment Source is new: one was recorded with every row.
Assigns(o) ==
  /\ Differs(o)
  /\ ~\E r \in assigned :
       r.object = o /\ r.base = Base(child[o]) /\ r.parentVersion = Base(parent[o])

\* The row's Candidate is selected by its content, decided or not.
CandidateFor(k, c) ==
  Min({i \in DOMAIN k.candidates : k.candidates[i].base = Base(k) /\ k.candidates[i].content = c})

Assignment(o, k) ==
  [object |-> o, base |-> Base(k), candidate |-> CandidateFor(k, Current(parent[o])),
   parentVersion |-> Base(parent[o]), by |-> Pending, reconciled |-> FALSE]

\* SaveZoneEntityConflict, once for every object of the view that gets a row.
Saved(view) == assigned \cup {Assignment(o, child'[o]) : o \in {o \in DOMAIN view : Assigns(o)}}

\* The transaction: the whole view or nothing.
CommitMerge(p) ==
  /\ calls[p].at = "read"
  /\ LET view == calls[p].view IN
       /\ \A o \in DOMAIN view : Mergeable(o, view[o])
       /\ parent' = [o \in Objects |->
            IF o \in DOMAIN view /\ Base(parent[o]) = 0
            THEN Submitted(parent[o], Current(child[o])) ELSE parent[o]]
       /\ child' = [o \in Objects |->
            IF o \in DOMAIN view /\ Assigns(o)
            THEN Submitted(child[o], Current(parent[o])) ELSE child[o]]
       /\ assigned' = Saved(view)
  /\ calls' = [calls EXCEPT ![p] = IF p = Merger THEN Returned ELSE [at |-> "merged", row |-> @.row]]
  /\ UNCHANGED <<commands, writes>>

-----------------------------------------------------------------------------
(* ResolveEntity, ResolveRelation, ResolveClaim *)

\* Mutant: whatever Version the Parent has by now.
AsAssigned_Active(r) == Active(parent[r.object]) /\ Open(parent[r.object]) = {}

\* currentParentEntity: as assigned, and without a conflict of its own.
AsAssigned(r) ==
  LET k == parent[r.object] IN
    Active(k) /\ Base(k) = r.parentVersion /\ Open(k) = {}

\* publishParentEntity: final is submitted to the Parent and, where it differs,
\* decided there at once.
Published(k, final) == IF Current(k) = final THEN k ELSE Decided(Submitted(k, final), final)

Marked(r, s, reconciled) ==
  (assigned \ {r}) \cup {[r EXCEPT !.by = s, !.reconciled = reconciled]}

\* resolveEntityWithParent, or the first transaction of
\* resolveEntityAfterParentChange, which has to merge again.
CarryBack(s, r, final) ==
  \/ /\ AsAssigned(r)
     /\ parent' = [parent EXCEPT ![r.object] = Published(@, final)]
     /\ assigned' = Marked(r, s, TRUE)
     /\ UNCHANGED calls
  \/ /\ ~AsAssigned(r)
     /\ assigned' = Marked(r, s, FALSE)
     /\ calls' = [calls EXCEPT ![s] = [at |-> "resolved", row |-> {[r EXCEPT !.by = s]}]]
     /\ UNCHANGED parent

Resolve(s, o, final) ==
  /\ commands[s] = NoCommand
  /\ commands' = [commands EXCEPT ![s] = [object |-> o, base |-> Base(child[o]), final |-> final]]
  /\ Open(child[o]) # {}
  /\ child' = [child EXCEPT ![o] = Decided(@, final)]
  /\ \E r \in Unresolved(o, Base(child[o])) : CarryBack(s, r, final)
  /\ UNCHANGED writes

\* The same command again.  An unresolved assignment of its base is looked up
\* first; the Resolution of the Child is accepted as made.
Retry(s) ==
  /\ commands[s] # NoCommand
  /\ calls[s] = Returned
  /\ \E r \in Unresolved(commands[s].object, commands[s].base) : CarryBack(s, r, commands[s].final)
  /\ UNCHANGED <<child, commands, writes>>

\* GetResolvedZoneEntityConflict, of a row the Parent has not been given yet.
ResolvedBy(s) == {r \in assigned : r.by = s /\ ~r.reconciled}

\* resumeEntityResolution: what is not reconciled is merged again.
Resume(s) ==
  /\ commands[s] # NoCommand
  /\ calls[s] = Returned
  /\ Unresolved(commands[s].object, commands[s].base) = {}
  /\ \E r \in ResolvedBy(s) : calls' = [calls EXCEPT ![s] = [at |-> "resolved", row |-> {r}]]
  /\ UNCHANGED <<child, parent, assigned, commands, writes>>

\* ReconcileZoneEntityConflict, which changes nothing but its flag.
Reconciled(resolved) == (assigned \ resolved) \cup {[r EXCEPT !.reconciled = TRUE] : r \in resolved}

\* The last transaction.
Reconcile(s) ==
  /\ calls[s].at = "merged"
  /\ assigned' = Reconciled(calls[s].row)
  /\ calls' = [calls EXCEPT ![s] = Returned]
  /\ UNCHANGED <<child, parent, commands, writes>>

\* A call that fails, as a merge does whose view or Parent has changed, or
\* stops with its process: what has committed stays.
Abandon(p) ==
  /\ calls[p] # Returned
  /\ calls' = [calls EXCEPT ![p] = Returned]
  /\ UNCHANGED <<child, parent, assigned, commands, writes>>

Next ==
  \/ \E o \in Objects :
       \/ \E c \in Contents :
            SubmitChild(o, c) \/ SubmitParent(o, c) \/ ResolveChild(o, c) \/ ResolveParent(o, c)
       \/ DeleteChild(o)
       \/ DeleteParent(o)
       \/ \E s \in Sources : \E final \in Contents : Resolve(s, o, final)
  \/ \E p \in Callers : BeginMerge(p) \/ CommitMerge(p) \/ Abandon(p)
  \/ \E s \in Sources : Retry(s) \/ Resume(s) \/ Reconcile(s)

Spec == Init /\ [][Next]_vars

-----------------------------------------------------------------------------

Object == [versions : Seq(Contents \cup {Deleted}),
           candidates : Seq([base : Nat \ {0}, content : Contents, open : BOOLEAN])]
Row == [object : Objects, base : Nat, candidate : Nat, parentVersion : Nat,
        by : Sources \cup {Pending}, reconciled : BOOLEAN]

\* Types of the variables; a Version is Current of an object in use.
TypeOK ==
  /\ child \in [Objects -> Object] /\ parent \in [Objects -> Object]
  /\ assigned \subseteq Row
  /\ \A s \in Sources : commands[s] = NoCommand \/
       commands[s] \in [object : Objects, base : Nat, final : Contents]
  /\ \A p \in Callers : calls[p].at \in {"returned", "resolved", "read", "merged"}

\* schema.sql: parent_reconciled is set "only after the resolved Child result
\* has been applied back to the parent" - the Parent has said the same since,
\* or the Child has another review to do, or the Child itself has changed.
ReconciledApplied ==
  \A r \in assigned : r.reconciled =>
    LET o == r.object
        final == commands[r.by].final
        decided == IF child[o].versions[r.base] = final THEN r.base ELSE r.base + 1
    IN \/ \E i \in r.parentVersion .. Base(parent[o]) : parent[o].versions[i] = final
       \/ \E q \in assigned : q.object = o /\ q.base >= r.base /\ q.parentVersion > r.parentVersion
       \/ Base(child[o]) > decided

\* The Parent's object gets another content: it is active, without a conflict
\* of its own, and its next Version is no deletion.
Replaced(o) ==
  LET before == parent[o]  after == parent'[o] IN
    /\ Base(after) > Base(before)
    /\ Active(before) /\ Open(before) = {} /\ Current(after) # Deleted

\* The row's Candidate has been decided, or the Source s had resolved a row
\* before: its command is repeated, and finds a row that a merge has assigned
\* since, with a Candidate nobody has looked at.
Reviewed(s, r) ==
  \/ ~child'[r.object].candidates[r.candidate].open
  \/ \E p \in assigned : p.by = s

\* A row on what the Parent said is resolved in the same step, with what the
\* Parent says from now on.
AsDecided(o) ==
  \E r \in assigned \ assigned' : \E q \in assigned' :
    /\ q.object = o /\ q = [r EXCEPT !.by = q.by, !.reconciled = TRUE]
    /\ r.by = Pending /\ r.parentVersion = Base(parent[o])
    /\ child[o].candidates[r.candidate].base = r.base
    /\ child[o].candidates[r.candidate].content = Current(parent[o])
    /\ commands'[q.by].object = o /\ commands'[q.by].final = Current(parent'[o])
    /\ Reviewed(q.by, r)

\* The Parent's content is replaced from outside only by the final content of a
\* Child's command, at the very Version that the assignment resolved with it
\* names, however much both Zones changed since the assignment; and that the
\* Child has decided on the content that is replaced is sure of the first call
\* of a command (app_resolution.go, currentParentEntity).
ReplacedAsAssigned == [][\A o \in Objects : Replaced(o) => AsDecided(o)]_vars
=============================================================================
