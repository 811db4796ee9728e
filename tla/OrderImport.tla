---------------------------- MODULE OrderImport ----------------------------
(***************************************************************************)
(* CSV imports of orders: api/imports.py and orders/import_csv.py, beside    *)
(* orders created by hand.  A file is validated when it is uploaded and its  *)
(* rows are checked again when the batch is committed, possibly on another   *)
(* day, after other imports, or at the same time as another commit.          *)
(***************************************************************************)
EXTENDS Integers, Sequences, FiniteSets

CONSTANTS Batches, Files,
          Rows,       \* [Files -> Seq of [ref, due, parses]]
          Refs,       \* external references
          LastDay,    \* bound on the calendar
          NoFile, ByHand

VARIABLES
  batch,    \* import_batches: status and file
  flushing, \* batches whose commit has passed its checks
  source,   \* the batch an order came from, ByHand, or NoFile: [Refs -> ...]
  today

vars == <<batch, flushing, source, today>>

\* import_batches: a file is committed once (a partial unique index).
BatchRows ==
  /\ batch \in [Batches -> [status : {"ABSENT", "VALIDATED", "COMMITTED", "REJECTED"},
                            file : Files \cup {NoFile}]]
  /\ \A b, c \in Batches :
       batch[b].status = "COMMITTED" /\ batch[c].status = "COMMITTED"
         /\ batch[b].file = batch[c].file => b = c

\* orders, by their unique external_ref.
OrderRows == source \in [Refs -> Batches \cup {ByHand, NoFile}]

TypeOK ==
  /\ BatchRows /\ OrderRows
  /\ flushing \subseteq Batches
  /\ today \in 0..LastDay

Init ==
  /\ batch = [b \in Batches |-> [status |-> "ABSENT", file |-> NoFile]]
  /\ flushing = {}
  /\ source = [r \in Refs |-> NoFile]
  /\ today = 0

RefsOf(f) == {Rows[f][i].ref : i \in DOMAIN Rows[f]}

\* _already_committed
AlreadyCommitted(f) ==
  \E b \in Batches : batch[b].status = "COMMITTED" /\ batch[b].file = f

\* _parse_row_fields: the columns, and what each field may contain.
Parses(f, i) == Rows[f][i].parses

\* _load_lookups: what the database knows of the references.  Codes of
\* customers and styles are looked up, too, in master data that does not change.
ExistingRefs == {r \in Refs : source[r] # NoFile}

\* _resolve_valid_row; only rows that parse are remembered as seen.
RowIsValid(f, i) ==
  LET row == Rows[f][i] IN
  /\ Parses(f, i)
  /\ \A j \in 1..(i - 1) : Parses(f, j) => Rows[f][j].ref # row.ref
  /\ row.due >= today
  /\ row.ref \notin ExistingRefs

Valid(f) == \A i \in DOMAIN Rows[f] : RowIsValid(f, i)

\* upload_orders_csv: a file with an error is kept as REJECTED.
Upload(b, f) ==
  /\ batch[b].status = "ABSENT"
  /\ ~AlreadyCommitted(f)
  /\ batch' = [batch EXCEPT ![b] =
       [status |-> IF Valid(f) THEN "VALIDATED" ELSE "REJECTED", file |-> f]]
  /\ UNCHANGED <<flushing, source, today>>

\* commit_import up to the flush: the batch is locked, its status, its file
\* and its rows are checked against what is committed now.
CheckBatch(b) ==
  /\ b \notin flushing
  /\ batch[b].status = "VALIDATED"
  /\ ~AlreadyCommitted(batch[b].file)
  /\ Valid(batch[b].file)
  /\ flushing' = flushing \cup {b}
  /\ UNCHANGED <<batch, source, today>>

UniqueFileOnly(b) == ~AlreadyCommitted(batch[b].file)

\* The unique constraints on external_ref and on the hash of committed files.
Unique(b) ==
  /\ \A r \in RefsOf(batch[b].file) : source[r] = NoFile
  /\ ~AlreadyCommitted(batch[b].file)

\* The flush and COMMIT; a violated constraint rolls everything back.
Flush(b) ==
  /\ b \in flushing
  /\ Unique(b)
  /\ source' = [r \in Refs |-> IF r \in RefsOf(batch[b].file) THEN b ELSE source[r]]
  /\ batch' = [batch EXCEPT ![b].status = "COMMITTED"]
  /\ flushing' = flushing \ {b}
  /\ UNCHANGED today

RollBack(b) ==
  /\ b \in flushing
  /\ flushing' = flushing \ {b}
  /\ UNCHANGED <<batch, source, today>>

\* create_order
CreateByHand(r) ==
  /\ source[r] = NoFile
  /\ source' = [source EXCEPT ![r] = ByHand]
  /\ UNCHANGED <<batch, flushing, today>>

Midnight ==
  /\ today < LastDay
  /\ today' = today + 1
  /\ UNCHANGED <<batch, flushing, source>>

Next ==
  \/ \E b \in Batches :
       \/ \E f \in Files : Upload(b, f)
       \/ CheckBatch(b) \/ Flush(b) \/ RollBack(b)
  \/ \E r \in Refs : CreateByHand(r)
  \/ Midnight

Spec == Init /\ [][Next]_vars

------------------------------------------------------------------------------
(* Properties *)

\* A committed batch created every order of its file and no other batch any
\* (api/imports.py, commit_import): a file is imported once and whole, whatever
\* was uploaded twice, committed at the same time or created meanwhile.
ImportedOnceAndWhole ==
  /\ \A b \in Batches :
       {r \in Refs : source[r] = b} =
         IF batch[b].status = "COMMITTED" THEN RefsOf(batch[b].file) ELSE {}
  /\ BatchRows
=============================================================================
