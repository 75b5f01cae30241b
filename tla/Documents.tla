----------------------------- MODULE Documents -----------------------------
(***************************************************************************)
(* Uploads of source Documents: the bytes go to a directory, the metadata  *)
(* to the database, and no transaction spans the two.  An upload links its *)
(* content under a path made of digest and extension, then records the     *)
(* row, and removes the file again when recording fails.  Publications     *)
(* take turns: the mutex of the content store is held from the link until  *)
(* the transaction's outcome is known.                                     *)
(***************************************************************************)
EXTENDS Naturals

CONSTANTS
  Contents,     \* what is uploaded, by digest
  Extensions,   \* the extensions of the names it is uploaded under
  Uploaders,    \* concurrent uploads
  MaxUploads,   \* bound on the uploads begun
  MaxCrashes    \* bound on the process stops

VARIABLES
  files,        \* the content directory: paths with a complete file
  rows,         \* rows[c]: the Location in the Document row of c, or NoPath
  publishing,   \* who holds the mutex `publications': one upload or none
  upload,       \* upload[u]: where the upload is and what it has published
  begun,        \* uploads begun so far
  crashes       \* process stops so far

vars == <<files, rows, publishing, upload, begun, crashes>>

NoPath == <<>>
Paths == Contents \X Extensions

Idle == [at |-> "idle", path |-> NoPath, created |-> FALSE]

Init ==
  /\ files = {}
  /\ rows = [c \in Contents |-> NoPath]
  /\ publishing = {}
  /\ upload = [u \in Uploaders |-> Idle]
  /\ begun = 0
  /\ crashes = 0

Recorded(c) == rows[c] # NoPath

\* PrepareUpload: the bytes are staged and hashed, then the row of the digest
\* is looked up.  A known digest needs no content of its own.
Prepare(u, p) ==
  /\ upload[u].at = "idle"
  /\ begun < MaxUploads
  /\ begun' = begun + 1
  /\ upload' = [upload EXCEPT ![u] =
       IF Recorded(p[1]) THEN [at |-> "located", path |-> rows[p[1]], created |-> FALSE]
                         ELSE [at |-> "staged", path |-> p, created |-> FALSE]]
  /\ UNCHANGED <<files, rows, publishing, crashes>>

\* Mutant: the mutex covers the link only.
Publish_Unlocked(u) ==
  /\ upload[u].at = "staged"
  /\ upload' = [upload EXCEPT ![u].at = "located", ![u].created = upload[u].path \notin files]
  /\ files' = files \cup {upload[u].path}
  /\ UNCHANGED <<rows, publishing, begun, crashes>>

\* stagedContent.Publish: os.Link under the mutex, which stays held.  A file
\* already there is verified and reused; only its creator may remove it.
Publish(u) ==
  /\ upload[u].at = "staged"
  /\ publishing = {}
  /\ publishing' = {u}
  /\ upload' = [upload EXCEPT ![u].at = "located", ![u].created = upload[u].path \notin files]
  /\ files' = files \cup {upload[u].path}
  /\ UNCHANGED <<rows, begun, crashes>>

Released(u) == publishing \ {u}

\* The transaction of SubmitDocument: INSERT OR IGNORE by digest, so a row
\* recorded meanwhile stays as it is; the event commits with it.
Record(u) ==
  LET p == upload[u].path IN
  /\ upload[u].at = "located"
  /\ rows' = [rows EXCEPT ![p[1]] = IF @ = NoPath THEN p ELSE @]
  /\ upload' = [upload EXCEPT ![u].at = "recorded"]
  /\ UNCHANGED <<files, publishing, begun, crashes>>

\* Confirm: the content is kept and the mutex given back.
Confirm(u) ==
  /\ upload[u].at = "recorded"
  /\ upload' = [upload EXCEPT ![u] = Idle]
  /\ publishing' = Released(u)
  /\ UNCHANGED <<files, rows, begun, crashes>>

\* An error before the commit: Discard removes the staged file, and the
\* published one if this upload created it, before it gives the mutex back.
Discard(u) ==
  /\ upload[u].at \in {"staged", "located"}
  /\ files' = IF upload[u].created THEN files \ {upload[u].path} ELSE files
  /\ upload' = [upload EXCEPT ![u] = Idle]
  /\ publishing' = Released(u)
  /\ UNCHANGED <<rows, begun, crashes>>

\* A process stop leaves the directory and the rows and nothing else.
Crash ==
  /\ crashes < MaxCrashes
  /\ crashes' = crashes + 1
  /\ upload' = [u \in Uploaders |-> Idle]
  /\ publishing' = {}
  /\ UNCHANGED <<files, rows, begun>>

Next ==
  \/ Crash
  \/ \E u \in Uploaders :
       \/ \E p \in Paths : Prepare(u, p)
       \/ Publish(u)
       \/ Record(u)
       \/ Confirm(u)
       \/ Discard(u)

Spec == Init /\ [][Next]_vars

-----------------------------------------------------------------------------

Upload == [at : {"idle", "staged", "located", "recorded"}, path : Paths \cup {NoPath},
           created : BOOLEAN]

\* Types of the variables.
TypeOK ==
  /\ files \subseteq Paths
  /\ rows \in [Contents -> Paths \cup {NoPath}]
  /\ publishing \subseteq Uploaders
  /\ upload \in [Uploaders -> Upload]
  /\ begun \in Nat
  /\ crashes \in Nat

\* The content of every recorded Document is there to be opened, whatever
\* uploads of the same bytes have failed meanwhile: an upload discards only a
\* file it created, and no other upload can have recorded that file, because
\* the mutex is held until the outcome is known (content_store.go, Discard).
ContentKept == \A c \in Contents : Recorded(c) => rows[c] \in files
=============================================================================
