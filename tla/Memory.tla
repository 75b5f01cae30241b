------------------------------- MODULE Memory -------------------------------
(***************************************************************************)
(* Adding a Memory: an agent hands over Messages and the Knowledge it took *)
(* from them under an ID of its own.  The Messages are appended to the Log *)
(* in one transaction, the Knowledge that cites them is submitted in       *)
(* another, after checks that hold no lock.  Calls of several agents run   *)
(* at once, a call may fail or be lost between any two of its steps, and   *)
(* an agent that saw an error adds the Memory again.                       *)
(***************************************************************************)
EXTENDS Naturals, Sequences, SequencesExt

CONSTANTS
  Agents,       \* concurrent callers
  Memories,     \* Memory IDs, the Source IDs of their Knowledge
  Batches,      \* the Message lists handed over: <<[id, text], ...>>, distinct IDs
  MaxCalls      \* bound on the calls begun

VARIABLES
  log,          \* the Message Log in Position order
  accepted,     \* accepted[m]: the Messages Source m cites, or Absent
  call,         \* call[a]: what the agent's call carries and how far it is
  begins        \* calls begun so far

vars == <<log, accepted, call, begins>>

Absent == <<>>
Ended == [at |-> "ended"]

Init ==
  /\ log = <<>>
  /\ accepted = [m \in Memories |-> Absent]
  /\ call = [a \in Agents |-> Ended]
  /\ begins = 0

HasSource(m) == accepted[m] # Absent

\* The Log entries of the given Message IDs, and those of them whose text
\* differs from what is asked: ErrIdentityConflict.
Existing(batch) == {e \in ToSet(log) : \E x \in ToSet(batch) : x.id = e.id}
IdentityConflict(batch) == ~(Existing(batch) \subseteq ToSet(batch))

\* Recorder.Add up to its first step: a Memory ID known to Knowledge is refused.
Add(a, m, batch) ==
  /\ call[a] = Ended
  /\ begins < MaxCalls
  /\ ~HasSource(m)
  /\ call' = [call EXCEPT ![a] = [at |-> "begun", memory |-> m, batch |-> batch]]
  /\ begins' = begins + 1
  /\ UNCHANGED <<log, accepted>>

\* CheckAppend and Preflight read the Log and Knowledge without a lock.
Check(a) ==
  /\ call[a].at = "begun"
  /\ ~IdentityConflict(call[a].batch)
  /\ call' = [call EXCEPT ![a].at = "checked"]
  /\ UNCHANGED <<log, accepted, begins>>

\* Mutant: Append relies on CheckAppend and reuses any Message of the same ID,
\* and Submit does not verify its Evidence.
AppendMessages_Trusting(a) ==
  LET known == {e.id : e \in ToSet(log)}
      missing == SelectSeq(call[a].batch, LAMBDA x : x.id \notin known) IN
  /\ call[a].at = "checked"
  /\ log' = log \o missing
  /\ call' = [call EXCEPT ![a].at = "verified"]
  /\ UNCHANGED <<accepted, begins>>

\* The Messages of a batch that are not stored under their ID, in their order.
Missing(batch) ==
  LET stored == {e.id : e \in Existing(batch)}
      missing[n \in 0 .. Len(batch)] ==
        IF n = 0 THEN <<>>
        ELSE IF batch[n].id \in stored THEN missing[n - 1]
        ELSE Append(missing[n - 1], batch[n])
  IN missing[Len(batch)]

\* Log.Append, one transaction: the identities are compared again and only
\* what is missing is added, at the next Positions.
AppendMessages(a) ==
  /\ call[a].at = "checked"
  /\ ~IdentityConflict(call[a].batch)
  /\ log' = log \o Missing(call[a].batch)
  /\ call' = [call EXCEPT ![a].at = "appended"]
  /\ UNCHANGED <<accepted, begins>>

\* VerifyEvidence, before the transaction: every Message is in the Log with the
\* TextUnit the Evidence names.  A Source accepted meanwhile ends the call
\* with the stored result.
Verify(a) ==
  /\ call[a].at = "appended"
  /\ ~HasSource(call[a].memory)
  /\ ToSet(call[a].batch) \subseteq ToSet(log)
  /\ call' = [call EXCEPT ![a].at = "verified"]
  /\ UNCHANGED <<log, accepted, begins>>

\* submission.Submit finds the Source, before its transaction or within it:
\* the same ID and kind name the same Source, whatever Knowledge came with it.
Replayed(a) ==
  /\ call[a].at \in {"appended", "verified"}
  /\ HasSource(call[a].memory)
  /\ call' = [call EXCEPT ![a] = Ended]
  /\ UNCHANGED <<log, accepted, begins>>

\* The transaction of submission.Submit for a new Source.
Submit(a) ==
  LET m == call[a].memory IN
  /\ call[a].at = "verified"
  /\ ~HasSource(m)
  /\ accepted' = [accepted EXCEPT ![m] = call[a].batch]
  /\ call' = [call EXCEPT ![a] = Ended]
  /\ UNCHANGED <<log, begins>>

\* Any check fails, the request is cancelled or the process stops.
Fail(a) ==
  /\ call[a] # Ended
  /\ call' = [call EXCEPT ![a] = Ended]
  /\ UNCHANGED <<log, accepted, begins>>

Next ==
  \E a \in Agents :
    \/ \E m \in Memories, b \in Batches : Add(a, m, b)
    \/ Check(a)
    \/ AppendMessages(a)
    \/ Verify(a)
    \/ Replayed(a)
    \/ Submit(a)
    \/ Fail(a)

Spec == Init /\ [][Next]_vars

-----------------------------------------------------------------------------

Messages == UNION {ToSet(b) : b \in Batches}

\* What is handed over is a list that has an ID once (prepareMessages).
Assumptions ==
  /\ MaxCalls \in Nat
  /\ \A b \in Batches :
       /\ b \in Seq(Messages)
       /\ \A x, y \in ToSet(b) : x.id = y.id => x = y

\* Types of the variables; the Log holds a Message ID once.
TypeOK ==
  /\ ToSet(log) \subseteq Messages
  /\ \A m \in Memories : accepted[m] \in Batches \cup {Absent}
  /\ \A a \in Agents : call[a].at \in {"ended", "begun", "checked", "appended", "verified"}
  /\ begins \in 0 .. MaxCalls

\* The Evidence of accepted Knowledge can be read: each Message it cites is in
\* the Log once, with the text it was drawn from.  Messages are stored first,
\* in a transaction of their own, and a second caller may use the same Message
\* ID for another text between the check and the append (recorder.go, Add).
EvidenceStored ==
  \A m \in Memories : \A x \in ToSet(accepted[m]) :
    {i \in 1 .. Len(log) : log[i].id = x.id} = {i \in 1 .. Len(log) : log[i] = x}
    /\ x \in ToSet(log)

=============================================================================
