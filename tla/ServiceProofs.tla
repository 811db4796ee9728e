---------------------------- MODULE ServiceProofs ----------------------------
(***************************************************************************)
(* Proofs about the services, for any users, files, keys, commands, limits  *)
(* and any number of requests in flight.                                    *)
(***************************************************************************)
EXTENDS Services, Sums, FiniteSetTheorems, SequenceTheorems, TLAPS

\* A step of the whole is a step of the service that keeps idempotency keys, or
\* leaves it alone.
LEMMA KeysMove == [ServicesNext]_ServicesVars => [Keys!Next]_keys
BY DEF ServicesNext, LedgerStep, ShippingStep, DocumentStep, KeyStep, LockStep, ImportStep,
       AccountStep, LimiterStep, PipelineStep, ServicesVars, keys

\* The same of requests.
LEMMA PipelineMoves == [ServicesNext]_ServicesVars => [Pipeline!Next]_pipeline
BY DEF ServicesNext, LedgerStep, ShippingStep, DocumentStep, KeyStep, LockStep, ImportStep,
       AccountStep, LimiterStep, PipelineStep, ServicesVars, pipeline

\* The same of order imports.
LEMMA ImportsMove == [ServicesNext]_ServicesVars => [Imports!Next]_imports
BY DEF ServicesNext, LedgerStep, ShippingStep, DocumentStep, KeyStep, LockStep, ImportStep,
       AccountStep, LimiterStep, PipelineStep, ServicesVars, imports

\* The same of the rate limiter.
LEMMA LimitsMove == [ServicesNext]_ServicesVars => [Limiter!Next]_limits
BY DEF ServicesNext, LedgerStep, ShippingStep, DocumentStep, KeyStep, LockStep, ImportStep,
       AccountStep, LimiterStep, PipelineStep, ServicesVars, limits

\* The same of row locks.
LEMMA LocksMove == [ServicesNext]_ServicesVars => [Locks!Next]_locks
BY DEF ServicesNext, LedgerStep, ShippingStep, DocumentStep, KeyStep, LockStep, ImportStep,
       AccountStep, LimiterStep, PipelineStep, ServicesVars, locks

\* The same of accounts.
LEMMA AccountsMove == [ServicesNext]_ServicesVars => [Accounts!Next]_accounts
BY DEF ServicesNext, LedgerStep, ShippingStep, DocumentStep, KeyStep, LockStep, ImportStep,
       AccountStep, LimiterStep, PipelineStep, ServicesVars, accounts

\* The same of documents.
LEMMA DocumentsMove == [ServicesNext]_ServicesVars => [Processing!Next]_documents
BY DEF ServicesNext, LedgerStep, ShippingStep, DocumentStep, KeyStep, LockStep, ImportStep,
       AccountStep, LimiterStep, PipelineStep, ServicesVars, documents

\* The same of shipping.
LEMMA ShippingMoves == [ServicesNext]_ServicesVars => [Shipping!Next]_shipping
BY DEF ServicesNext, LedgerStep, ShippingStep, DocumentStep, KeyStep, LockStep, ImportStep,
       AccountStep, LimiterStep, PipelineStep, ServicesVars, shipping

-----------------------------------------------------------------------------
(* Idempotency *)

\* The effects that a key protects are those of the fresh row.
EffectIsRow ==
  effects = IF row # Keys!NoRow /\ row.age = "fresh" THEN {row.from} ELSE {}

\* A row is the answer to a request with its payload.
RowIsStored ==
  row # Keys!NoRow => row.from \in Deliveries /\ row.payload = Payload[row.from]

\* Whoever works on the command holds the key, which protected nothing when it was claimed.
ClaimHeld ==
  \A r \in Deliveries : step[r] \in {"working", "answered"} =>
    holder = r /\ (row = Keys!NoRow \/ row.age # "fresh")

\* Only the first attempts start over.
TriesLeft == \A r \in Deliveries : step[r] = "new" => tries[r] < MaxTries

KeyInv == Keys!TypeOK /\ EffectIsRow /\ RowIsStored /\ ClaimHeld /\ TriesLeft

\* The row a command stores is not the absence of one, and it is fresh.
LEMMA StoredIsRow ==
  ASSUME NEW r \in Deliveries
  PROVE  /\ Keys!Stored(r) \in Keys!KeyRows
         /\ Keys!Stored(r) # Keys!NoRow
         /\ Keys!Stored(r).from = r /\ Keys!Stored(r).payload = Payload[r]
         /\ Keys!Stored(r).age = "fresh"
BY ServicesAssumption DEF ServicesAssumption, Keys!Stored, Keys!KeyRows, Keys!NoRow

\* No request has begun.
LEMMA KeyInit == Keys!Init => KeyInv
BY ServicesAssumption
DEF ServicesAssumption, Keys!Init, KeyInv, Keys!TypeOK, Keys!NoRow, Keys!Told, EffectIsRow,
    RowIsStored, ClaimHeld, TriesLeft

\* A claim, by a request that finds nothing protected and nobody at work.
LEMMA KeyClaim ==
  ASSUME KeyInv, NEW r \in Deliveries, Keys!Claim(r)
  PROVE  KeyInv'
<1> USE DEF KeyInv, Keys!TypeOK, Keys!Claim, Keys!Goto
<1>1. Keys!TypeOK'
  BY ServicesAssumption DEF ServicesAssumption, TriesLeft
<1>2. EffectIsRow' /\ RowIsStored'
  BY DEF EffectIsRow, RowIsStored
<1>3. ClaimHeld'
  BY ServicesAssumption DEF ServicesAssumption, ClaimHeld, Keys!MayClaim
<1>4. TriesLeft'
  BY DEF TriesLeft
<1>5. QED
  BY <1>1, <1>2, <1>3, <1>4

\* An answer from the row, or to a client whose handler has returned.
LEMMA KeyAnswers ==
  ASSUME KeyInv, NEW r \in Deliveries, Keys!Replay(r) \/ Keys!Answer(r)
  PROVE  KeyInv'
<1> USE DEF KeyInv, Keys!TypeOK, Keys!Replay, Keys!Answer, Keys!Goto, Keys!Tell, Keys!Told
<1>1. Keys!TypeOK'
  BY DEF RowIsStored, Keys!MayClaim
<1>2. EffectIsRow' /\ RowIsStored'
  BY DEF EffectIsRow, RowIsStored
<1>3. ClaimHeld' /\ TriesLeft'
  BY DEF ClaimHeld, TriesLeft
<1>5. QED
  BY <1>1, <1>2, <1>3

\* The commit of a command: its holder alone is at work.
LEMMA KeyCommit ==
  ASSUME KeyInv, NEW r \in Deliveries, Keys!CommitAnswered(r) \/ Keys!CommitThenAnswer(r)
  PROVE  KeyInv'
<1> USE DEF KeyInv, Keys!TypeOK, Keys!CommitAnswered, Keys!CommitThenAnswer, Keys!CommitEffect,
            Keys!Goto, Keys!Tell, Keys!Told
<1>1. Keys!TypeOK'
  BY StoredIsRow
<1>2. effects = {}
  BY DEF EffectIsRow, ClaimHeld
<1>3. EffectIsRow' /\ RowIsStored'
  BY <1>2, StoredIsRow DEF EffectIsRow, RowIsStored
<1>4. ClaimHeld' /\ TriesLeft'
  BY DEF ClaimHeld, TriesLeft
<1>5. QED
  BY <1>1, <1>3, <1>4

\* A claim that ends without an effect.
LEMMA KeyGivesUp ==
  ASSUME KeyInv, NEW r \in Deliveries, Keys!Reject(r) \/ Keys!Conflict(r) \/ Keys!RollBack(r)
  PROVE  KeyInv'
<1> USE DEF KeyInv, Keys!TypeOK, Keys!Reject, Keys!Conflict, Keys!RollBack, Keys!Goto, Keys!Tell,
            Keys!Told
<1>1. Keys!TypeOK'
  OBVIOUS
<1>2. effects = {}
  BY DEF EffectIsRow, ClaimHeld
<1>3. EffectIsRow' /\ RowIsStored'
  BY <1>2 DEF EffectIsRow, RowIsStored
<1>4. ClaimHeld'
  BY DEF ClaimHeld
<1>5. TriesLeft'
  BY DEF TriesLeft
<1>6. QED
  BY <1>1, <1>3, <1>4, <1>5

\* A key grows old and is purged.
LEMMA KeyAges ==
  ASSUME KeyInv, Keys!Age \/ Keys!Purge
  PROVE  KeyInv'
<1> USE DEF KeyInv, Keys!TypeOK
<1>1. CASE Keys!Age
  <2>1. row \in Keys!KeyRows /\ row.from \in Deliveries /\ row # Keys!NoRow
    BY <1>1 DEF Keys!Age, RowIsStored
  <2>2. /\ row' \in Keys!KeyRows /\ row'.from = row.from /\ row'.payload = row.payload
        /\ row'.age # "fresh"
    BY <1>1, <2>1 DEF Keys!Age, Keys!KeyRows
  <2>3. row' # Keys!NoRow
    BY <2>1, <2>2, ServicesAssumption DEF ServicesAssumption, Keys!NoRow
  <2>4. Keys!TypeOK'
    BY <1>1, <2>2 DEF Keys!Age
  <2>5. EffectIsRow' /\ RowIsStored' /\ ClaimHeld' /\ TriesLeft'
    BY <1>1, <2>1, <2>2, <2>3 DEF Keys!Age, EffectIsRow, RowIsStored, ClaimHeld, TriesLeft
  <2>6. QED
    BY <2>4, <2>5
<1>2. CASE Keys!Purge
  <2>1. effects = {}
    BY <1>2 DEF Keys!Purge, EffectIsRow
  <2>2. Keys!TypeOK' /\ RowIsStored' /\ ClaimHeld' /\ TriesLeft'
    BY <1>2 DEF Keys!Purge, RowIsStored, ClaimHeld, TriesLeft
  <2>3. QED
    BY <1>2, <2>1, <2>2 DEF Keys!Purge, EffectIsRow
<1>3. QED
  BY <1>1, <1>2

\* Every step of the key and its requests.
LEMMA KeyStepHolds == KeyInv /\ [Keys!Next]_keys => KeyInv'
<1> SUFFICES ASSUME KeyInv, [Keys!Next]_keys PROVE KeyInv'
  OBVIOUS
<1>1. CASE Keys!Next
  BY <1>1, KeyClaim, KeyAnswers, KeyCommit, KeyGivesUp, KeyAges DEF Keys!Next
<1>2. CASE UNCHANGED keys
  BY <1>2 DEF keys, KeyInv, Keys!TypeOK, EffectIsRow, RowIsStored, ClaimHeld, TriesLeft
<1>3. QED
  BY <1>1, <1>2

\* The invariant of a key.
LEMMA KeyInvHolds == ServicesSpec => []KeyInv
<1>1. ServicesInit => KeyInv
  BY KeyInit DEF ServicesInit
<1>2. KeyInv /\ [ServicesNext]_ServicesVars => KeyInv'
  BY KeysMove, KeyStepHolds
<1>3. QED
  BY <1>1, <1>2, PTL DEF ServicesSpec

\* Cardinality means the same inside the module.
LEMMA KeyCardinality == Keys!Cardinality(effects) = Cardinality(effects)
BY DEF Keys!Cardinality, Cardinality

\* One effect per key: whatever is repeated, rolled back or rejected and kept,
\* a retained key has the effect of one request (idempotency/service.py).
THEOREM EffectsAreSingle == ServicesSpec => []OneEffectPerKey
<1>1. KeyInv => OneEffectPerKey
  <2> SUFFICES ASSUME KeyInv PROVE Keys!OneEffectPerKey
    BY DEF KeyInv, OneEffectPerKey
  <2>1. effects = {} \/ \E r : effects = {r}
    BY DEF KeyInv, EffectIsRow
  <2>2. Cardinality(effects) <= 1
    <3>1. CASE effects = {}
      BY <3>1, FS_EmptySet
    <3>2. ASSUME NEW r, effects = {r} PROVE Cardinality(effects) <= 1
      <4>1. Cardinality({r}) = 1
        BY FS_Singleton
      <4>2. QED
        BY <3>2, <4>1
    <3>3. QED
      BY <2>1, <3>1, <3>2
  <2>3. row # Keys!NoRow /\ row.age = "fresh" => effects = {row.from}
    BY DEF KeyInv, EffectIsRow
  <2>4. QED
    BY <2>2, <2>3, KeyCardinality DEF Keys!OneEffectPerKey
<1>2. QED
  BY <1>1, KeyInvHolds, PTL

\* A replay is the committed answer to the same payload, and no committed key
\* is ever reported as in progress (begin, finish, release).
THEOREM ReplaysAreOriginal == ServicesSpec => ReplayIsOriginal
<1>1. KeyInv /\ [ServicesNext]_ServicesVars =>
        [\A r \in Deliveries : answer'[r] # answer[r] =>
           /\ answer'[r] # "in_progress"
           /\ answer'[r] \in Deliveries \ {r} =>
                answer'[r] \in effects /\ Payload[answer'[r]] = Payload[r]]_keys
  <2> SUFFICES ASSUME KeyInv, Keys!Next, NEW r \in Deliveries, answer'[r] # answer[r]
               PROVE  /\ answer'[r] # "in_progress"
                      /\ answer'[r] \in Deliveries \ {r} =>
                           answer'[r] \in effects /\ Payload[answer'[r]] = Payload[r]
    BY KeysMove
  <2>1. PICK q \in Deliveries :
          \/ Keys!Replay(q) \/ Keys!Answer(q) \/ Keys!CommitThenAnswer(q)
          \/ Keys!Reject(q) \/ Keys!RollBack(q)
    BY DEF Keys!Next, Keys!Claim, Keys!CommitAnswered, Keys!Conflict, Keys!Age, Keys!Purge
  <2>2. q = r
    BY <2>1 DEF Keys!Replay, Keys!Answer, Keys!CommitThenAnswer, Keys!Reject, Keys!RollBack,
                Keys!Tell, KeyInv, Keys!TypeOK
  <2>3. CASE Keys!Replay(r)
    BY <2>3, ServicesAssumption
    DEF Keys!Replay, Keys!Tell, Keys!MayClaim, KeyInv, Keys!TypeOK, RowIsStored, EffectIsRow,
        ServicesAssumption
  <2>4. CASE ~Keys!Replay(r)
    BY <2>1, <2>2, <2>4, ServicesAssumption
    DEF Keys!Answer, Keys!CommitThenAnswer, Keys!Reject, Keys!RollBack, Keys!Tell,
        KeyInv, Keys!TypeOK, ServicesAssumption
  <2>5. QED
    BY <2>3, <2>4
<1>2. QED
  BY <1>1, KeyInvHolds, PTL DEF ServicesSpec, ReplayIsOriginal, Keys!ReplayIsOriginal, Keys!vars, keys
-----------------------------------------------------------------------------
(* CommandRequest *)

\* Attempts are left to whoever has not begun one.
AttemptsLeft ==
  \A c \in Calls :
    at[c] \in {"arrived", "resolved", "authenticated"} => attempts[c] < MaxTries

\* A transaction holds the effect and its event, or nothing.
WrittenTogether ==
  \A c \in Calls :
    written[c] = IF at[c] \in {"executed", "answered"} THEN {"effect", "SUCCESS"} ELSE {}

\* A call commits at its end only, and one of three pairs.
CommittedTogether ==
  \A c \in Calls :
    /\ at[c] # "done" => committed[c] = {}
    /\ committed[c] \in {{}, {"effect", "SUCCESS"}, {"status", "FAILED"}, {"DENIED"}}

\* What the client was told before the end, and at the end.
RepliedInTime ==
  \A c \in Calls :
    /\ at[c] = "answered" => Routes[c] = "shared"
    /\ at[c] # "done" => reply[c] = IF at[c] = "answered" THEN "ok" ELSE "none"
    /\ reply[c] = "denied" => committed[c] = {"DENIED"}
    /\ Routes[c] = "own" /\ reply[c] = "ok" => committed[c] = {"effect", "SUCCESS"}

CallInv ==
  /\ Pipeline!TypeOK
  /\ AttemptsLeft /\ WrittenTogether /\ CommittedTogether /\ RepliedInTime

\* No call has begun.
LEMMA CallInit == Pipeline!Init => CallInv
BY ServicesAssumption
DEF ServicesAssumption, Pipeline!Init, Pipeline!TypeOK, CallInv, AttemptsLeft, WrittenTogether,
    CommittedTogether, RepliedInTime

\* What a step may do to its own call: everything that the invariant says of one.
CallIs(c) ==
  /\ conns'[c] \in 0..2
  /\ at'[c] \in {"arrived", "resolved", "authenticated", "running", "executed", "denying",
                 "answered", "done"}
  /\ reply'[c] \in {"none", "unauthenticated", "refused", "denied", "ok", "failed"}
  /\ attempts'[c] \in 0..MaxTries
  /\ at'[c] \in {"arrived", "resolved", "authenticated"} => attempts'[c] < MaxTries
  /\ written'[c] = IF at'[c] \in {"executed", "answered"} THEN {"effect", "SUCCESS"} ELSE {}
  /\ at'[c] # "done" => committed'[c] = {}
  /\ committed'[c] \in {{}, {"effect", "SUCCESS"}, {"status", "FAILED"}, {"DENIED"}}
  /\ at'[c] = "answered" => Routes[c] = "shared"
  /\ at'[c] # "done" => reply'[c] = IF at'[c] = "answered" THEN "ok" ELSE "none"
  /\ reply'[c] = "denied" => committed'[c] = {"DENIED"}
  /\ Routes[c] = "own" /\ reply'[c] = "ok" => committed'[c] = {"effect", "SUCCESS"}

\* Only the call of a step is touched.
OnlyCall(c) ==
  /\ at' = [at EXCEPT ![c] = at'[c]]
  /\ conns' = [conns EXCEPT ![c] = conns'[c]]
  /\ written' = [written EXCEPT ![c] = written'[c]]
  /\ committed' = [committed EXCEPT ![c] = committed'[c]]
  /\ reply' = [reply EXCEPT ![c] = reply'[c]]
  /\ attempts' = [attempts EXCEPT ![c] = attempts'[c]]

\* A step that is as CallIs says leaves the invariant of every call.
LEMMA CallStays ==
  ASSUME CallInv, NEW c \in Calls, CallIs(c), OnlyCall(c)
  PROVE  CallInv'
<1>1. Pipeline!TypeOK
  BY DEF CallInv
<1>2. /\ written'[c] \in SUBSET (Pipeline!CommandRows \cup Pipeline!AuditRows)
      /\ committed'[c] \in SUBSET (Pipeline!CommandRows \cup Pipeline!AuditRows)
  BY DEF CallIs, Pipeline!CommandRows, Pipeline!AuditRows
<1>3. Pipeline!TypeOK'
  BY <1>1, <1>2 DEF Pipeline!TypeOK, CallIs, OnlyCall
<1>4. \A d \in Calls \ {c} :
        /\ at'[d] = at[d] /\ written'[d] = written[d] /\ committed'[d] = committed[d]
        /\ reply'[d] = reply[d] /\ attempts'[d] = attempts[d]
  BY <1>1 DEF Pipeline!TypeOK, OnlyCall
<1>5. AttemptsLeft' /\ WrittenTogether' /\ CommittedTogether' /\ RepliedInTime'
  BY <1>4 DEF CallInv, CallIs, AttemptsLeft, WrittenTogether, CommittedTogether, RepliedInTime
<1>6. QED
  BY <1>3, <1>5 DEF CallInv
\* The steps up to the command, which hold and return connections.
LEMMA CallBegins ==
  ASSUME CallInv, NEW c \in Calls,
         Pipeline!Resolve(c) \/ Pipeline!Authenticate(c) \/ Pipeline!Open(c)
  PROVE  CallIs(c) /\ OnlyCall(c)
<1> USE DEF CallInv, Pipeline!TypeOK, CallIs, OnlyCall, Pipeline!Step, Pipeline!Hold,
            Pipeline!Replies, AttemptsLeft, WrittenTogether, CommittedTogether, RepliedInTime
<1>1. CASE Pipeline!Resolve(c)
  BY <1>1 DEF Pipeline!Resolve
<1>2. CASE Pipeline!Authenticate(c)
  BY <1>2 DEF Pipeline!Authenticate
<1>3. CASE Pipeline!Open(c)
  BY <1>3, ServicesAssumption DEF Pipeline!Open, ServicesAssumption
<1>4. QED
  BY <1>1, <1>2, <1>3

\* The command and what does not end the call.
LEMMA CallGoesOn ==
  ASSUME CallInv, NEW c \in Calls,
         Pipeline!Execute(c) \/ Pipeline!Deny(c) \/ Pipeline!Answer(c) \/ Pipeline!TryAgain(c)
  PROVE  CallIs(c) /\ OnlyCall(c)
<1> USE DEF CallInv, Pipeline!TypeOK, CallIs, OnlyCall, Pipeline!Step, Pipeline!Hold,
            Pipeline!Replies, AttemptsLeft, WrittenTogether, CommittedTogether, RepliedInTime
<1>1. CASE Pipeline!Execute(c)
  BY <1>1 DEF Pipeline!Execute, Pipeline!Writes
<1>2. CASE Pipeline!Deny(c)
  BY <1>2 DEF Pipeline!Deny
<1>3. CASE Pipeline!Answer(c)
  BY <1>3 DEF Pipeline!Answer
<1>4. CASE Pipeline!TryAgain(c)
  BY <1>4 DEF Pipeline!TryAgain
<1>5. QED
  BY <1>1, <1>2, <1>3, <1>4

\* Every way a call ends: its transaction is gone, and told what was committed.
LEMMA CallEnds ==
  ASSUME CallInv, NEW c \in Calls,
         \/ Pipeline!Refuse(c) \/ Pipeline!RejectForGood(c) \/ Pipeline!RecordDenial(c)
         \/ Pipeline!CommitShared(c) \/ Pipeline!CommitOwn(c) \/ Pipeline!GiveUp(c)
         \/ Pipeline!Vanish(c)
  PROVE  CallIs(c) /\ OnlyCall(c)
<1> USE DEF CallInv, Pipeline!TypeOK, CallIs, OnlyCall, Pipeline!Ended, Pipeline!Hold,
            Pipeline!Replies, Pipeline!Kept, WrittenTogether, CommittedTogether, RepliedInTime
<1>1. CASE Pipeline!Refuse(c)
  BY <1>1 DEF Pipeline!Refuse
<1>2. CASE Pipeline!RejectForGood(c)
  BY <1>2 DEF Pipeline!RejectForGood
<1>3. CASE Pipeline!RecordDenial(c)
  BY <1>3 DEF Pipeline!RecordDenial
<1>4. CASE Pipeline!CommitShared(c)
  BY <1>4 DEF Pipeline!CommitShared
<1>5. CASE Pipeline!CommitOwn(c)
  BY <1>5 DEF Pipeline!CommitOwn
<1>6. CASE Pipeline!GiveUp(c)
  BY <1>6 DEF Pipeline!GiveUp, Pipeline!Waits
<1>7. CASE Pipeline!Vanish(c)
  BY <1>7 DEF Pipeline!Vanish
<1>8. QED
  BY <1>1, <1>2, <1>3, <1>4, <1>5, <1>6, <1>7

\* The invariant of the calls.
LEMMA CallInvHolds == ServicesSpec => []CallInv
<1>1. ServicesInit => CallInv
  BY CallInit DEF ServicesInit
<1>2. CallInv /\ [ServicesNext]_ServicesVars => CallInv'
  <2> SUFFICES ASSUME CallInv, [Pipeline!Next]_pipeline PROVE CallInv'
    BY PipelineMoves
  <2>1. CASE Pipeline!Next
    BY <2>1, CallBegins, CallGoesOn, CallEnds, CallStays DEF Pipeline!Next
  <2>2. CASE UNCHANGED pipeline
    BY <2>2 DEF pipeline, CallInv, Pipeline!TypeOK, AttemptsLeft, WrittenTogether,
                CommittedTogether, RepliedInTime
  <2>3. QED
    BY <2>1, <2>2
<1>3. QED
  BY <1>1, <1>2, PTL DEF ServicesSpec

\* The audit trail agrees with the effects, for any number of calls, connections
\* and attempts (audit/service.py, db/session.py, api/recommendations.py).
THEOREM AuditHolds == ServicesSpec => []AuditAgrees
<1>1. CallInv => AuditAgrees
  BY DEF CallInv, CommittedTogether, RepliedInTime, AuditAgrees, Pipeline!AuditAgrees
<1>2. QED
  BY <1>1, CallInvHolds, PTL
-----------------------------------------------------------------------------
(* OrderImport *)

\* A batch that is being committed passed its checks and has its file.
FlushingIsValidated ==
  \A b \in flushing : batch[b].status = "VALIDATED" /\ batch[b].file \in Files

\* An order comes from a batch exactly when the batch is committed and names it.
SourceIsBatch ==
  \A b \in Batches, r \in Refs :
    source[r] = b <=> batch[b].status = "COMMITTED" /\ r \in Imports!RefsOf(batch[b].file)

\* What is checked or committed has a file.
CheckedHasFile ==
  \A b \in Batches : batch[b].status \in {"VALIDATED", "COMMITTED"} => batch[b].file \in Files

ImportInv == Imports!TypeOK /\ FlushingIsValidated /\ SourceIsBatch /\ CheckedHasFile

\* Nothing is imported yet.
LEMMA ImportInit == Imports!Init => ImportInv
BY ServicesAssumption
DEF ServicesAssumption, Imports!Init, ImportInv, Imports!TypeOK, Imports!BatchRows,
    Imports!OrderRows, FlushingIsValidated, SourceIsBatch, CheckedHasFile

\* A file is uploaded into a batch that is not there yet.
LEMMA ImportUpload ==
  ASSUME ImportInv, NEW b \in Batches, NEW f \in Files, Imports!Upload(b, f)
  PROVE  ImportInv'
<1> USE DEF ImportInv, Imports!TypeOK, Imports!BatchRows, Imports!OrderRows
<1>1. /\ batch[b].status = "ABSENT" /\ batch'[b].status \in {"VALIDATED", "REJECTED"}
      /\ batch'[b].file = f
      /\ \A c \in Batches \ {b} : batch'[c] = batch[c]
      /\ UNCHANGED <<flushing, source, today>>
  BY DEF Imports!Upload
<1>2. batch' \in [Batches -> [status : {"ABSENT", "VALIDATED", "COMMITTED", "REJECTED"},
                             file : Files \cup {NoFile}]]
  BY DEF Imports!Upload
<1>3. Imports!TypeOK'
  BY <1>1, <1>2
<1>4. FlushingIsValidated' /\ CheckedHasFile'
  BY <1>1 DEF FlushingIsValidated, CheckedHasFile
<1>5. SourceIsBatch'
  BY <1>1 DEF SourceIsBatch
<1>6. QED
  BY <1>3, <1>4, <1>5

\* A batch that is checked, one that is rolled back, an order made by hand, a new day.
LEMMA ImportQuiet ==
  ASSUME ImportInv,
         \/ \E b \in Batches : Imports!CheckBatch(b) \/ Imports!RollBack(b)
         \/ \E r \in Refs : Imports!CreateByHand(r)
         \/ Imports!Midnight
         \/ UNCHANGED imports
  PROVE  ImportInv'
<1> USE DEF ImportInv, Imports!TypeOK, Imports!BatchRows, Imports!OrderRows
<1>1. CASE \E b \in Batches : Imports!CheckBatch(b) \/ Imports!RollBack(b)
  <2>1. /\ UNCHANGED <<batch, source, today>> /\ flushing' \subseteq Batches
        /\ \A b \in flushing' : b \in flushing \/ batch[b].status = "VALIDATED"
    BY <1>1 DEF Imports!CheckBatch, Imports!RollBack
  <2>2. QED
    BY <2>1 DEF FlushingIsValidated, SourceIsBatch, CheckedHasFile, Imports!RefsOf
<1>2. ASSUME NEW r \in Refs, Imports!CreateByHand(r) PROVE ImportInv'
  <2>1. NoFile \notin Batches /\ ByHand \notin Batches
    BY ServicesAssumption DEF ServicesAssumption
  <2>2. /\ batch' = batch /\ source[r] = NoFile
        /\ \A s \in Refs : source'[s] = IF s = r THEN ByHand ELSE source[s]
    BY <1>2 DEF Imports!CreateByHand
  <2>3. SourceIsBatch'
    BY SMTT(40), <2>1, <2>2 DEF SourceIsBatch, Imports!RefsOf
  <2>4. QED
    BY <1>2, <2>3 DEF Imports!CreateByHand, FlushingIsValidated, CheckedHasFile
<1>3. CASE Imports!Midnight
  BY <1>3, ServicesAssumption
  DEF ServicesAssumption, Imports!Midnight, FlushingIsValidated, SourceIsBatch, CheckedHasFile,
      Imports!RefsOf
<1>4. CASE UNCHANGED imports
  BY <1>4 DEF imports, FlushingIsValidated, SourceIsBatch, CheckedHasFile, Imports!RefsOf
<1>5. QED
  BY <1>1, <1>2, <1>3, <1>4

\* The commit: every order of the file is new, and no committed batch has the file.
LEMMA ImportFlush ==
  ASSUME ImportInv, NEW b \in Batches, Imports!Flush(b)
  PROVE  ImportInv'
<1> USE DEF ImportInv, Imports!TypeOK, Imports!BatchRows, Imports!OrderRows
<1>1. b \in flushing /\ batch[b].status = "VALIDATED" /\ batch[b].file \in Files
  BY DEF Imports!Flush, FlushingIsValidated
<1>2. /\ batch'[b].status = "COMMITTED" /\ batch'[b].file = batch[b].file
      /\ \A c \in Batches \ {b} : batch'[c] = batch[c]
      /\ flushing' = flushing \ {b} /\ today' = today
      /\ \A r \in Refs : source'[r] = IF r \in Imports!RefsOf(batch[b].file) THEN b ELSE source[r]
  BY DEF Imports!Flush
<1>3. batch' \in [Batches -> [status : {"ABSENT", "VALIDATED", "COMMITTED", "REJECTED"},
                             file : Files \cup {NoFile}]]
  BY DEF Imports!Flush
<1>4. source' \in [Refs -> Batches \cup {ByHand, NoFile}]
  BY DEF Imports!Flush
<1>5. \A c \in Batches : batch[c].status = "COMMITTED" => batch[c].file # batch[b].file
  BY DEF Imports!Flush, Imports!Unique, Imports!AlreadyCommitted
<1>6. Imports!TypeOK'
  BY <1>2, <1>3, <1>4, <1>5
<1>7. FlushingIsValidated' /\ CheckedHasFile'
  BY <1>1, <1>2 DEF FlushingIsValidated, CheckedHasFile
<1>8. \A r \in Imports!RefsOf(batch[b].file) : source[r] = NoFile
  BY DEF Imports!Flush, Imports!Unique
<1>9. ASSUME NEW c \in Batches, NEW r \in Refs
      PROVE  source'[r] = c <=>
               batch'[c].status = "COMMITTED" /\ r \in Imports!RefsOf(batch'[c].file)
  <2>1. source[r] = c <=> batch[c].status = "COMMITTED" /\ r \in Imports!RefsOf(batch[c].file)
    BY DEF SourceIsBatch
  <2>2. CASE c = b
    BY <1>1, <1>2, <2>1, <2>2
  <2>3. CASE c # b
    BY <1>2, <1>8, <2>1, <2>3, ServicesAssumption DEF ServicesAssumption
  <2>4. QED
    BY <2>2, <2>3
<1>10. SourceIsBatch'
  BY <1>9 DEF SourceIsBatch, Imports!RefsOf
<1>11. QED
  BY <1>6, <1>7, <1>10

\* The invariant of the imports.
LEMMA ImportInvHolds == ServicesSpec => []ImportInv
<1>1. ServicesInit => ImportInv
  BY ImportInit DEF ServicesInit
<1>2. ImportInv /\ [ServicesNext]_ServicesVars => ImportInv'
  BY ImportsMove, ImportUpload, ImportQuiet, ImportFlush DEF Imports!Next
<1>3. QED
  BY <1>1, <1>2, PTL DEF ServicesSpec

\* A file is imported once and whole, whatever batches, files and rows there
\* are and however many batches are committed at once (api/imports.py).
THEOREM ImportsAreWhole == ServicesSpec => []ImportedOnceAndWhole
<1>1. ASSUME ImportInv PROVE ImportedOnceAndWhole
  <2>1. ASSUME NEW b \in Batches
        PROVE  {r \in Refs : source[r] = b} =
                 IF batch[b].status = "COMMITTED" THEN Imports!RefsOf(batch[b].file) ELSE {}
    <3>1. batch[b].file \in Files => Imports!RefsOf(batch[b].file) \subseteq Refs
      BY ServicesAssumption DEF ServicesAssumption, Imports!RefsOf
    <3>2. QED
      BY <1>1, <3>1 DEF ImportInv, SourceIsBatch, CheckedHasFile
  <2>2. QED
    BY <1>1, <2>1
    DEF ImportInv, Imports!TypeOK, ImportedOnceAndWhole, Imports!ImportedOnceAndWhole
<1>2. QED
  BY <1>1, ImportInvHolds, PTL
-----------------------------------------------------------------------------
(* RateLimit *)

LimitTypes ==
  /\ clock \in Nat
  /\ recency \in Seq(Identities)
  /\ tokens \in [Identities -> 0..Limiter!Full]
  /\ last \in [Identities -> Nat]
  /\ admitted \in [Identities -> Seq(Nat)]
  /\ \A id \in Identities : last[id] <= clock

\* Whoever has a history has an entry.
HistoryHasEntry ==
  \A id \in Identities : admitted[id] # <<>> => id \in Limiter!ToSet(recency)

\* What is left in a bucket, with all that was admitted since some time, came
\* from a full bucket and the refill of the time since.
BucketIsSaved ==
  \A id \in Identities : \A i \in DOMAIN admitted[id] :
    /\ admitted[id][i] <= last[id]
    /\ tokens[id] + (Len(admitted[id]) - i + 1) * Window
         <= Limiter!Full + (last[id] - admitted[id][i]) * Limit

LimitInv == LimitTypes /\ HistoryHasEntry /\ BucketIsSaved /\ RateIsBounded

\* Products of the bucket are numbers, and multiplication distributes.
LEMMA Products ==
  /\ Limit \in Nat /\ Window \in Nat /\ Window > 0 /\ Limiter!Full \in Nat
  /\ \A x, y \in Int : (x + y) * Limit = x * Limit + y * Limit
  /\ \A x \in Int : (x + 1) * Window = x * Window + Window
  /\ \A x \in Int : x * Window \in Int /\ x * Limit \in Int
  /\ \A x \in Nat : x * Window \in Nat /\ x * Limit \in Nat
<1>1. Limit \in Nat /\ Window \in Nat /\ Window > 0
  BY ServicesAssumption DEF ServicesAssumption
<1>2. \A a, b \in Nat : a * b \in Nat
  OBVIOUS
<1>3. \A a, b \in Int : a * b \in Int
  OBVIOUS
<1>4. \A x, y, z \in Int : (x + y) * z = x * z + y * z
  OBVIOUS
<1>5. \A z \in Int : 1 * z = z
  OBVIOUS
<1>6. QED
  BY <1>1, <1>2, <1>3, <1>4, <1>5 DEF Limiter!Full

\* Entries keep their order, and the one touched is the last and stays.
LEMMA KeptEntries ==
  ASSUME recency \in Seq(Identities), NEW id \in Identities
  PROVE  /\ Limiter!Kept(id) \in Seq(Identities)
         /\ id \in Limiter!ToSet(Limiter!Kept(id))
<1>1. Limiter!Others(id) \in Seq(Identities)
  <2>1. CASE id \in Limiter!ToSet(recency)
    <3>1. PICK k \in DOMAIN recency : k = CHOOSE i \in DOMAIN recency : recency[i] = id
      BY <2>1 DEF Limiter!ToSet
    <3>2. k \in 1..Len(recency) /\ Len(recency) \in Nat
      BY <3>1, LenProperties
    <3>3. SubSeq(recency, 1, k - 1) \in Seq(Identities)
      BY <3>2, SubSeqProperties
    <3>4. SubSeq(recency, k + 1, Len(recency)) \in Seq(Identities)
      BY <3>2, SubSeqProperties
    <3>5. Limiter!RemoveAt(recency, k) \in Seq(Identities)
      BY <3>3, <3>4, ConcatProperties DEF Limiter!RemoveAt
    <3>6. QED
      BY <2>1, <3>1, <3>5 DEF Limiter!Others
  <2>2. CASE id \notin Limiter!ToSet(recency)
    BY <2>2 DEF Limiter!Others
  <2>3. QED
    BY <2>1, <2>2
<1>2. PICK o \in Seq(Identities) : o = Limiter!Touched(id)
  BY <1>1, AppendProperties DEF Limiter!Touched
<1>3. Len(o) \in Nat /\ Len(o) > 0 /\ o[Len(o)] = id
  BY <1>1, <1>2, AppendProperties, LenProperties DEF Limiter!Touched
<1>4. CASE Len(o) > MaxEntries
  <2>1. MaxEntries \in Nat /\ MaxEntries > 0
    BY ServicesAssumption DEF ServicesAssumption
  <2>2. PICK k \in 1..Len(o) : k = Len(o) - MaxEntries + 1
    <3>1. Len(o) - MaxEntries + 1 \in 1..Len(o)
      BY <1>3, <1>4, <2>1
    <3>2. QED
      BY <3>1
  <2>3. PICK t \in Seq(Identities) : t = SubSeq(o, k, Len(o))
    <3>1. SubSeq(o, k, Len(o)) \in Seq(Identities)
      BY <1>3, <2>2, SubSeqProperties
    <3>2. QED
      BY <3>1
  <2>4. Len(t) = Len(o) - k + 1 /\ \A i \in 1..(Len(o) - k + 1) : t[i] = o[k + i - 1]
    BY <1>3, <2>2, <2>3, SubSeqProperties
  <2>5. Len(o) - k + 1 \in DOMAIN t /\ t[Len(o) - k + 1] = id
    BY <1>3, <2>2, <2>3, <2>4, LenProperties
  <2>6. Limiter!Kept(id) = t
    BY <1>2, <1>4, <2>2, <2>3 DEF Limiter!Kept
  <2>7. QED
    BY <2>3, <2>5, <2>6 DEF Limiter!ToSet
<1>5. CASE ~(Len(o) > MaxEntries)
  BY <1>2, <1>3, <1>5, LenProperties DEF Limiter!Kept, Limiter!ToSet
<1>6. QED
  BY <1>4, <1>5

\* The refill is within the bucket, and within the time of the history.
LEMMA RefillIsBounded ==
  ASSUME LimitInv, NEW id \in Identities
  PROVE  /\ Limiter!Refilled(id) \in 0..Limiter!Full
         /\ \A i \in DOMAIN admitted[id] :
              Limiter!Refilled(id) + (Len(admitted[id]) - i + 1) * Window
                <= Limiter!Full + (clock - admitted[id][i]) * Limit
<1> DEFINE more == tokens[id] + (clock - last[id]) * Limit
<1>1. /\ tokens[id] \in 0..Limiter!Full /\ Limiter!Full \in Nat
      /\ clock - last[id] \in Nat /\ (clock - last[id]) * Limit \in Nat /\ more \in Nat
  <2>1. tokens[id] \in 0..Limiter!Full /\ Limiter!Full \in Nat
    BY Products DEF LimitInv, LimitTypes
  <2>2. clock - last[id] \in Nat
    BY DEF LimitInv, LimitTypes
  <2>3. (clock - last[id]) * Limit \in Nat
    BY <2>2, Products
  <2>4. QED
    BY <2>1, <2>2, <2>3
<1>2. \A x, y \in Nat : Limiter!Min({x, y}) \in {x, y} /\ Limiter!Min({x, y}) <= x /\ Limiter!Min({x, y}) <= y
  <2> SUFFICES ASSUME NEW x \in Nat, NEW y \in Nat
               PROVE  \E m \in {x, y} : \A z \in {x, y} : m <= z
    BY DEF Limiter!Min
  <2>1. CASE x <= y
    BY <2>1
  <2>2. CASE ~(x <= y)
    BY <2>2
  <2>3. QED
    BY <2>1, <2>2
<1>3. Limiter!Refilled(id) \in 0..Limiter!Full
  BY <1>1, <1>2 DEF Limiter!Refilled
<1>4. ASSUME NEW i \in DOMAIN admitted[id]
      PROVE  Limiter!Refilled(id) + (Len(admitted[id]) - i + 1) * Window
               <= Limiter!Full + (clock - admitted[id][i]) * Limit
  <2>1. admitted[id] # <<>> /\ Len(admitted[id]) - i + 1 \in Int /\ admitted[id][i] \in Nat
    BY <1>4, LenProperties, ElementOfSeq DEF LimitInv, LimitTypes
  <2>2. id \in Limiter!ToSet(recency)
    BY <2>1 DEF LimitInv, HistoryHasEntry
  <2>3. Limiter!Refilled(id) <= more
    BY <1>1, <1>2, <2>2 DEF Limiter!Refilled
  <2>4. tokens[id] + (Len(admitted[id]) - i + 1) * Window
          <= Limiter!Full + (last[id] - admitted[id][i]) * Limit
    BY <1>4 DEF LimitInv, BucketIsSaved
  <2>5. (clock - admitted[id][i]) * Limit
          = (clock - last[id]) * Limit + (last[id] - admitted[id][i]) * Limit
    <3>1. /\ clock - last[id] \in Int /\ last[id] - admitted[id][i] \in Int
          /\ (clock - last[id]) + (last[id] - admitted[id][i]) = clock - admitted[id][i]
      BY SMTT(40), <2>1 DEF LimitInv, LimitTypes
    <3>2. QED
      BY <3>1, Products
  <2>6. /\ (Len(admitted[id]) - i + 1) * Window \in Int
        /\ (last[id] - admitted[id][i]) * Limit \in Int
    BY SMTT(40), <2>1, Products DEF LimitInv, LimitTypes
  <2> DEFINE refilled == Limiter!Refilled(id)
             since == (clock - last[id]) * Limit
             before == (last[id] - admitted[id][i]) * Limit
             all == (clock - admitted[id][i]) * Limit
             served == (Len(admitted[id]) - i + 1) * Window
             full == Limiter!Full
  <2>7. /\ refilled <= tokens[id] + since /\ tokens[id] + served <= full + before
        /\ all = since + before
        /\ refilled \in Int /\ since \in Int /\ before \in Int /\ served \in Int /\ full \in Int
        /\ tokens[id] \in Int
    BY <1>1, <1>3, <2>3, <2>4, <2>5, <2>6
  <2> HIDE DEF refilled, since, before, all, served, full
  <2>8. refilled + served <= full + all
    BY <2>7
  <2>9. QED
    BY <2>8 DEF refilled, served, full, all
<1>5. QED
  BY <1>3, <1>4

\* What a call of try_consume writes for the one identity, when it keeps the bounds.
LEMMA EntryWritten ==
  ASSUME LimitInv, NEW id \in Identities, NEW t \in 0..Limiter!Full, NEW times \in Seq(Nat),
         tokens' = [tokens EXCEPT ![id] = t], last' = [last EXCEPT ![id] = clock],
         recency' = Limiter!Kept(id), admitted' = Limiter!History(id, times), clock' = clock,
         \A i \in DOMAIN times :
           /\ times[i] <= clock
           /\ t + (Len(times) - i + 1) * Window <= Limiter!Full + (clock - times[i]) * Limit,
         \A i, j \in DOMAIN times :
           i <= j => (j - i + 1) * Window <= Limiter!Full + (times[j] - times[i]) * Limit
  PROVE  LimitInv'
<1>1. LimitTypes /\ HistoryHasEntry /\ BucketIsSaved /\ RateIsBounded
  BY DEF LimitInv
<1>2. recency' \in Seq(Identities) /\ id \in Limiter!ToSet(recency')
  BY <1>1, KeptEntries DEF LimitTypes
<1>3. /\ tokens'[id] = t /\ last'[id] = clock /\ admitted'[id] = times
      /\ \A k \in Identities \ {id} :
           /\ tokens'[k] = tokens[k] /\ last'[k] = last[k]
           /\ admitted'[k] = IF k \in Limiter!ToSet(recency') THEN admitted[k] ELSE <<>>
  BY <1>1 DEF LimitTypes, Limiter!History
<1>4. admitted' \in [Identities -> Seq(Nat)]
  <2>1. <<>> \in Seq(Nat)
    OBVIOUS
  <2>2. QED
    BY <1>1, <2>1 DEF LimitTypes, Limiter!History
<1>5. LimitTypes'
  BY <1>1, <1>2, <1>4 DEF LimitTypes, Limiter!Full
<1>6. HistoryHasEntry'
  BY <1>2, <1>3 DEF HistoryHasEntry, Limiter!ToSet
<1>7. \A k \in Identities \ {id} : admitted'[k] = admitted[k] \/ DOMAIN admitted'[k] = {}
  BY <1>3
<1>8. BucketIsSaved'
  <2> SUFFICES ASSUME NEW k \in Identities, NEW i \in DOMAIN admitted'[k]
               PROVE  /\ admitted'[k][i] <= last'[k]
                      /\ tokens'[k] + (Len(admitted'[k]) - i + 1) * Window
                           <= Limiter!Full + (last'[k] - admitted'[k][i]) * Limit
    BY DEF BucketIsSaved, Limiter!Full
  <2>1. CASE k = id
    BY <1>3, <2>1
  <2>2. CASE k # id
    BY <1>1, <1>3, <1>7, <2>2 DEF BucketIsSaved
  <2>3. QED
    BY <2>1, <2>2
<1>9. RateIsBounded'
  <2> SUFFICES ASSUME NEW k \in Identities, NEW i \in DOMAIN admitted'[k],
                      NEW j \in DOMAIN admitted'[k], i <= j
               PROVE  (j - i + 1) * Window
                        <= Limiter!Full + (admitted'[k][j] - admitted'[k][i]) * Limit
    BY DEF RateIsBounded, Limiter!RateIsBounded, Limiter!Full
  <2>1. CASE k = id
    BY <1>3, <2>1
  <2>2. CASE k # id
    BY <1>1, <1>3, <1>7, <2>2 DEF RateIsBounded, Limiter!RateIsBounded
  <2>3. QED
    BY <2>1, <2>2
<1>10. QED
  BY <1>5, <1>6, <1>8, <1>9 DEF LimitInv

\* A refusal stores the refill and takes nothing.
LEMMA RefuseBounded ==
  ASSUME LimitInv, NEW id \in Identities, Limiter!Refuse(id)
  PROVE  LimitInv'
<1>1. admitted[id] \in Seq(Nat)
  BY DEF LimitInv, LimitTypes
<1>2. \A i \in DOMAIN admitted[id] : admitted[id][i] <= clock
  <2> SUFFICES ASSUME NEW i \in DOMAIN admitted[id] PROVE admitted[id][i] <= clock
    OBVIOUS
  <2>1. admitted[id][i] <= last[id] /\ last[id] <= clock
    BY DEF LimitInv, LimitTypes, BucketIsSaved
  <2>2. admitted[id][i] \in Nat /\ last[id] \in Nat /\ clock \in Nat
    BY <1>1, ElementOfSeq DEF LimitInv, LimitTypes
  <2>3. QED
    BY <2>1, <2>2
<1>3. \A i, j \in DOMAIN admitted[id] :
        i <= j => (j - i + 1) * Window
                    <= Limiter!Full + (admitted[id][j] - admitted[id][i]) * Limit
  BY DEF LimitInv, RateIsBounded, Limiter!RateIsBounded
<1>4. QED
  BY <1>1, <1>2, <1>3, RefillIsBounded, EntryWritten DEF Limiter!Refuse

\* An admission takes what one admission counts.
LEMMA AllowBounded ==
  ASSUME LimitInv, NEW id \in Identities, Limiter!Allow(id)
  PROVE  LimitInv'
<1>1. admitted[id] \in Seq(Nat) /\ clock \in Nat
  BY DEF LimitInv, LimitTypes
<1>2. PICK n \in Nat : n = Len(admitted[id])
  BY <1>1, LenProperties
<1>3. PICK times \in Seq(Nat) : times = Append(admitted[id], clock)
  BY <1>1, AppendProperties
<1>4. /\ Len(times) = n + 1 /\ DOMAIN times = 1..(n + 1) /\ times[n + 1] = clock
      /\ DOMAIN admitted[id] = 1..n
      /\ \A i \in 1..n : times[i] = admitted[id][i]
  BY <1>1, <1>2, <1>3, AppendProperties, LenProperties
<1>5. PICK r \in 0..Limiter!Full : r = Limiter!Refilled(id)
  BY RefillIsBounded
<1>6. r >= Window /\ Window \in Nat /\ Limiter!Full \in Nat /\ r - Window \in 0..Limiter!Full
  <2>1. Window \in Nat /\ Limiter!Full \in Nat
    BY Products
  <2>2. QED
    BY <1>5, <2>1 DEF Limiter!Allow, Limiter!Enough
<1>7. ASSUME NEW i \in DOMAIN times
      PROVE  /\ times[i] \in Nat /\ times[i] <= clock
             /\ (Len(times) - i + 1) * Window \in Int /\ (clock - times[i]) * Limit \in Int
             /\ r - Window + (Len(times) - i + 1) * Window
                  <= Limiter!Full + (clock - times[i]) * Limit
  <2>1. CASE i = n + 1
    <3>1. Len(times) - i + 1 = 1 /\ clock - times[i] = 0
      BY <1>1, <1>4, <2>1
    <3>2. 1 * Window = Window /\ 0 * Limit = 0
      <4>1. Window \in Int /\ Limit \in Int
        BY Products
      <4>2. QED
        BY <4>1
    <3>3. times[i] \in Nat /\ times[i] <= clock
      BY <1>1, <1>4, <2>1
    <3>4. /\ (Len(times) - i + 1) * Window = Window
          /\ (clock - times[i]) * Limit = 0
      BY <3>1, <3>2
    <3>5. r - Window + Window <= Limiter!Full + 0
      BY <1>5, <1>6
    <3>6. Window \in Int /\ 0 \in Int
      BY <1>6
    <3>7. QED
      BY Zenon, <3>3, <3>4, <3>5, <3>6
  <2>2. CASE i \in 1..n
    <3>1. /\ times[i] = admitted[id][i] /\ times[i] \in Nat
          /\ r + (n - i + 1) * Window <= Limiter!Full + (clock - times[i]) * Limit
      <4>1. times[i] = admitted[id][i] /\ i \in DOMAIN admitted[id]
        BY <1>4, <2>2
      <4>2. times[i] \in Nat
        BY <1>1, <4>1, ElementOfSeq
      <4>3. r + (n - i + 1) * Window <= Limiter!Full + (clock - admitted[id][i]) * Limit
        BY <1>2, <1>5, <4>1, RefillIsBounded
      <4>4. QED
        BY <4>1, <4>2, <4>3
    <3>2. times[i] <= clock
      <4>1. admitted[id][i] <= last[id] /\ last[id] <= clock /\ last[id] \in Nat
        BY <1>4, <2>2 DEF LimitInv, LimitTypes, BucketIsSaved
      <4>2. QED
        BY <1>1, <3>1, <4>1
    <3>3. Len(times) - i + 1 = (n - i + 1) + 1 /\ n - i + 1 \in Int /\ clock - times[i] \in Int
      <4>1. i \in Int /\ n \in Int /\ clock \in Int /\ times[i] \in Int
        BY <1>1, <1>4, <2>2, <3>1
      <4>2. QED
        BY <1>4, <4>1
    <3>4. (Len(times) - i + 1) * Window = (n - i + 1) * Window + Window
      BY <3>3, Products
    <3>5. (n - i + 1) * Window \in Int /\ (clock - times[i]) * Limit \in Int
      BY <3>3, Products
    <3>6. r \in Int /\ Window \in Int /\ Limiter!Full \in Int
      BY <1>5, <1>6
    <3>7. r - Window + (Len(times) - i + 1) * Window
            <= Limiter!Full + (clock - times[i]) * Limit
      BY <3>1, <3>4, <3>5, <3>6
    <3>8. (Len(times) - i + 1) * Window \in Int
      BY <3>4, <3>5, <3>6
    <3>9. QED
      BY <3>1, <3>2, <3>5, <3>7, <3>8
  <2>3. QED
    BY <1>4, <2>1, <2>2
<1>8. ASSUME NEW i \in DOMAIN times, NEW j \in DOMAIN times, i <= j
      PROVE  (j - i + 1) * Window <= Limiter!Full + (times[j] - times[i]) * Limit
  <2>1. CASE j = n + 1
    BY SMTT(40), <1>4, <1>6, <1>7, <2>1
  <2>2. CASE j \in 1..n
    <3>1. i \in 1..n
      BY <1>4, <1>8, <2>2
    <3>2. QED
      BY <1>4, <1>8, <2>2, <3>1 DEF LimitInv, RateIsBounded, Limiter!RateIsBounded
  <2>3. QED
    BY <1>4, <2>1, <2>2
<1>9. QED
  BY <1>3, <1>5, <1>6, <1>7, <1>8, EntryWritten DEF Limiter!Allow

\* No bucket has an entry yet.
LEMMA LimitInit == Limiter!Init => LimitInv
<1>1. Limiter!Full \in 0..Limiter!Full /\ <<>> \in Seq(Identities) /\ <<>> \in Seq(Nat)
      /\ DOMAIN <<>> = {}
  BY Products
<1>2. QED
  BY <1>1 DEF Limiter!Init, LimitInv, LimitTypes, HistoryHasEntry, BucketIsSaved, RateIsBounded,
              Limiter!RateIsBounded

\* The invariant of the buckets.
LEMMA LimitInvHolds == ServicesSpec => []LimitInv
<1>1. ServicesInit => LimitInv
  BY LimitInit DEF ServicesInit
<1>2. LimitInv /\ [ServicesNext]_ServicesVars => LimitInv'
  <2> SUFFICES ASSUME LimitInv, [Limiter!Next]_limits PROVE LimitInv'
    BY LimitsMove
  <2>1. CASE Limiter!Tick
    BY <2>1
    DEF Limiter!Tick, LimitInv, LimitTypes, HistoryHasEntry, BucketIsSaved, RateIsBounded,
        Limiter!RateIsBounded, Limiter!Full, Limiter!ToSet
  <2>2. CASE UNCHANGED limits
    BY <2>2
    DEF limits, LimitInv, LimitTypes, HistoryHasEntry, BucketIsSaved, RateIsBounded,
        Limiter!RateIsBounded, Limiter!Full, Limiter!ToSet
  <2>3. QED
    BY <2>1, <2>2, AllowBounded, RefuseBounded DEF Limiter!Next
<1>3. QED
  BY <1>1, <1>2, PTL DEF ServicesSpec

\* No interval admits more than a full bucket and the refill of its length, for
\* any limit, window, table size and clients (api/ratelimit.py, try_consume).
THEOREM RatesAreBounded == ServicesSpec => []RateIsBounded
<1>1. LimitInv => RateIsBounded
  BY DEF LimitInv
<1>2. QED
  BY <1>1, LimitInvHolds, PTL
-----------------------------------------------------------------------------
(* Access *)

\* Targets of commands, and what a request carries.
Targets == (Members \X Scopes) \cup (Members \X {"org"})

AdminRows ==
  [step : {"idle", "resolved", "admitted", "checked"}, user : Members \cup {"nobody"},
   kind : {"none", "grant", "revoke", "deactivate"}, target : Targets \cup {<<>>}]

\* Deliveries carry rows, and only a member holds a session.
RequestsTyped ==
  /\ request \in [AdminRequests -> AdminRows]
  /\ \A b \in Browsers : session[b].live => session[b].user \in Members

\* The tables' columns and the requests, however many overlap.
AdminTyped == Accounts!TypeOK /\ RequestsTyped

LEMMA AdminInit == Accounts!Init => AdminTyped
<1> SUFFICES ASSUME Accounts!Init PROVE AdminTyped
  OBVIOUS
<1> USE DEF Accounts!Init, Accounts!Idle, Accounts!Nobody
<1>1. Accounts!TypeOK
  BY ServicesAssumption
  DEF ServicesAssumption, Accounts!TypeOK, Accounts!MembershipRows, Accounts!AssignmentRows,
      Accounts!SessionRows
<1>2. RequestsTyped
  BY DEF RequestsTyped, AdminRows
<1>3. QED
  BY <1>1, <1>2 DEF AdminTyped

\* Sessions come and go; nobody's rights change.
LEMMA SessionSteps ==
  ASSUME AdminTyped, NEW b \in Browsers,
         Accounts!Logout(b) \/ \E u \in Members : Accounts!Login(b, u)
  PROVE  AdminTyped' /\ UNCHANGED <<enabled, assigned, request>>
<1>1. UNCHANGED <<enabled, assigned, request>>
  BY DEF Accounts!Logout, Accounts!Login
<1>2. /\ session' \in [Browsers -> [user : Members \cup {"nobody"}, live : BOOLEAN]]
      /\ \A c \in Browsers : session'[c].live => session'[c].user \in Members
  <2>1. CASE Accounts!Logout(b)
    BY <2>1
    DEF Accounts!Logout, Accounts!Ended, AdminTyped, Accounts!TypeOK, Accounts!SessionRows,
        Accounts!Nobody, RequestsTyped
  <2>2. ASSUME NEW u \in Members, Accounts!Login(b, u)
        PROVE  /\ session' \in [Browsers -> [user : Members \cup {"nobody"}, live : BOOLEAN]]
               /\ \A c \in Browsers : session'[c].live => session'[c].user \in Members
    BY <2>2
    DEF Accounts!Login, Accounts!Opened, AdminTyped, Accounts!TypeOK, Accounts!SessionRows,
        Accounts!Nobody, RequestsTyped
  <2>3. QED
    BY <2>1, <2>2
<1>3. QED
  BY <1>1, <1>2
  DEF AdminTyped, Accounts!TypeOK, Accounts!MembershipRows, Accounts!AssignmentRows,
      Accounts!SessionRows, Accounts!Nobody, Accounts!Idle, Accounts!Commands, RequestsTyped

\* A request arrives, loads its principal, checks: nobody's rights change.
LEMMA RequestSteps ==
  ASSUME AdminTyped, NEW r \in AdminRequests,
         \/ Accounts!LoadPrincipal(r) \/ Accounts!CheckGuards(r)
         \/ \E b \in Browsers, c \in Accounts!Commands : Accounts!Arrive(r, b, c)
  PROVE  AdminTyped' /\ UNCHANGED <<enabled, assigned, session>>
<1>1. UNCHANGED <<enabled, assigned, session>>
  BY DEF Accounts!LoadPrincipal, Accounts!CheckGuards, Accounts!Arrive
<1>2. request \in [AdminRequests -> AdminRows]
  BY DEF AdminTyped, RequestsTyped
<1>3. PICK q \in AdminRows : request' = [request EXCEPT ![r] = q]
  <2>1. Accounts!Idle \in AdminRows
    BY DEF Accounts!Idle, Accounts!Nobody, AdminRows
  <2>2. \A s \in {"admitted", "checked"} : [request[r] EXCEPT !.step = s] \in AdminRows
    BY <1>2 DEF AdminRows
  <2>3. CASE Accounts!LoadPrincipal(r)
    BY <1>2, <2>1, <2>2, <2>3 DEF Accounts!LoadPrincipal
  <2>4. CASE Accounts!CheckGuards(r)
    BY <1>2, <2>1, <2>2, <2>4 DEF Accounts!CheckGuards
  <2>5. ASSUME NEW b \in Browsers, NEW c \in Accounts!Commands, Accounts!Arrive(r, b, c)
        PROVE  \E q \in AdminRows : request' = [request EXCEPT ![r] = q]
    <3>1. session[b].user \in Members
      BY <2>5 DEF Accounts!Arrive, Accounts!Held, AdminTyped, RequestsTyped
    <3>2. c.kind \in {"grant", "revoke", "deactivate"} /\ c.target \in Targets
      BY <2>5 DEF Accounts!Commands, Targets
    <3>3. [step |-> "resolved", user |-> session[b].user, kind |-> c.kind, target |-> c.target]
            \in AdminRows
      BY <3>1, <3>2 DEF AdminRows
    <3>4. QED
      BY <2>5, <3>3 DEF Accounts!Arrive
  <2>6. QED
    BY <2>3, <2>4, <2>5
<1>4. /\ request'[r] = q /\ request' \in [AdminRequests -> AdminRows]
      /\ \A p \in AdminRequests \ {r} : request'[p] = request[p]
  BY <1>2, <1>3
<1>5. \/ q = Accounts!Idle
      \/ /\ q.step \in {"resolved", "admitted", "checked"} /\ q.user \in Members
         /\ [kind |-> q.kind, target |-> q.target] \in Accounts!Commands
  <2>1. request[r].step # "idle" =>
          /\ request[r].user \in Members
          /\ [kind |-> request[r].kind, target |-> request[r].target] \in Accounts!Commands
    BY DEF AdminTyped, Accounts!TypeOK, Accounts!Idle
  <2>2. CASE Accounts!LoadPrincipal(r)
    BY <1>2, <1>4, <2>1, <2>2 DEF Accounts!LoadPrincipal, AdminRows
  <2>3. CASE Accounts!CheckGuards(r)
    BY <1>2, <1>4, <2>1, <2>3 DEF Accounts!CheckGuards, AdminRows
  <2>4. ASSUME NEW b \in Browsers, NEW c \in Accounts!Commands, Accounts!Arrive(r, b, c)
        PROVE  /\ q.step \in {"resolved", "admitted", "checked"} /\ q.user \in Members
               /\ [kind |-> q.kind, target |-> q.target] \in Accounts!Commands
    <3>1. session[b].user \in Members
      BY <2>4 DEF Accounts!Arrive, Accounts!Held, AdminTyped, RequestsTyped
    <3>2. [kind |-> c.kind, target |-> c.target] = c
      BY <2>4 DEF Accounts!Commands
    <3>3. QED
      BY <1>2, <1>4, <2>4, <3>1, <3>2 DEF Accounts!Arrive
  <2>5. QED
    BY <2>2, <2>3, <2>4
<1>6. \A p \in AdminRequests :
        \/ request'[p] = Accounts!Idle
        \/ /\ request'[p].step \in {"resolved", "admitted", "checked"}
           /\ request'[p].user \in Members
           /\ [kind |-> request'[p].kind, target |-> request'[p].target] \in Accounts!Commands
  <2> SUFFICES ASSUME NEW p \in AdminRequests, p # r
               PROVE  \/ request[p] = Accounts!Idle
                      \/ /\ request[p].step \in {"resolved", "admitted", "checked"}
                         /\ request[p].user \in Members
                         /\ [kind |-> request[p].kind, target |-> request[p].target]
                              \in Accounts!Commands
    BY <1>4, <1>5
  <2>1. QED
    BY DEF AdminTyped, Accounts!TypeOK
<1>7. Accounts!TypeOK'
  BY <1>1, <1>6
  DEF AdminTyped, Accounts!TypeOK, Accounts!MembershipRows, Accounts!AssignmentRows,
      Accounts!SessionRows, Accounts!Nobody, Accounts!Idle, Accounts!Commands
<1>8. RequestsTyped'
  BY <1>1, <1>4 DEF AdminTyped, RequestsTyped
<1>9. QED
  BY <1>1, <1>7, <1>8 DEF AdminTyped

\* A commit ends its request and the sessions of the user it is about.
LEMMA CommitSteps ==
  ASSUME AdminTyped, NEW r \in AdminRequests, Accounts!Commit(r)
  PROVE  AdminTyped' /\ request'[r] = Accounts!Idle
<1>1. [kind |-> request[r].kind, target |-> request[r].target] \in Accounts!Commands
  BY DEF AdminTyped, Accounts!TypeOK, Accounts!Idle, Accounts!Commit
<1>2. /\ request[r].kind \in {"grant", "revoke", "deactivate"}
      /\ request[r].kind \in {"grant", "revoke"} => request[r].target \in Members \X Scopes
  BY <1>1 DEF Accounts!Commands
<1>3. /\ enabled \subseteq Members /\ assigned \subseteq Members \X Scopes
      /\ session \in [Browsers -> [user : Members \cup {"nobody"}, live : BOOLEAN]]
      /\ request \in [AdminRequests -> AdminRows]
  BY DEF AdminTyped, RequestsTyped, Accounts!TypeOK, Accounts!MembershipRows,
         Accounts!AssignmentRows, Accounts!SessionRows, Accounts!Nobody
<1>4. /\ request'[r] = Accounts!Idle /\ request' \in [AdminRequests -> AdminRows]
      /\ \A p \in AdminRequests \ {r} : request'[p] = request[p]
  BY <1>3 DEF Accounts!Commit, Accounts!Idle, Accounts!Nobody, AdminRows
<1>5. /\ session' \in [Browsers -> [user : Members \cup {"nobody"}, live : BOOLEAN]]
      /\ \A b \in Browsers : session'[b].live => session'[b].user \in Members
  BY <1>3 DEF Accounts!Commit, Accounts!WithoutSessionsOf, Accounts!Ended, AdminTyped, RequestsTyped
<1>6. enabled' \subseteq Members /\ assigned' \subseteq Members \X Scopes
  BY <1>2, <1>3 DEF Accounts!Commit
<1>7. \A p \in AdminRequests :
        \/ request'[p] = Accounts!Idle
        \/ /\ request'[p].step \in {"resolved", "admitted", "checked"}
           /\ request'[p].user \in Members
           /\ [kind |-> request'[p].kind, target |-> request'[p].target] \in Accounts!Commands
  <2> SUFFICES ASSUME NEW p \in AdminRequests, p # r
               PROVE  \/ request[p] = Accounts!Idle
                      \/ /\ request[p].step \in {"resolved", "admitted", "checked"}
                         /\ request[p].user \in Members
                         /\ [kind |-> request[p].kind, target |-> request[p].target]
                              \in Accounts!Commands
    BY <1>4
  <2>1. QED
    BY DEF AdminTyped, Accounts!TypeOK
<1>8. Accounts!TypeOK'
  BY <1>5, <1>6, <1>7
  DEF Accounts!TypeOK, Accounts!MembershipRows, Accounts!AssignmentRows, Accounts!SessionRows,
      Accounts!Nobody, Accounts!Idle, Accounts!Commands
<1>9. RequestsTyped'
  BY <1>4, <1>5 DEF RequestsTyped
<1>10. QED
  BY <1>4, <1>8, <1>9 DEF AdminTyped

\* An administrator's command whose guard holds at its commit leaves somebody
\* who can administer: of a grant nobody loses any rights, of a revocation
\* another assignment of an active member is left, nobody deactivates himself.
LEMMA GuardedCommitLeavesOne ==
  ASSUME AdminTyped, NEW r \in AdminRequests, Accounts!Commit(r),
         request[r].user \in Accounts!Administrators, Accounts!MayProceed(r)
  PROVE  Accounts!AdministratorRemains'
<1>1. [kind |-> request[r].kind, target |-> request[r].target] \in Accounts!Commands
  BY DEF AdminTyped, Accounts!TypeOK, Accounts!Idle, Accounts!Commit
<1>2. request[r].kind \in {"grant", "revoke", "deactivate"}
  BY <1>1 DEF Accounts!Commands
<1>3. assigned \subseteq Members \X Scopes
  BY DEF AdminTyped, Accounts!TypeOK, Accounts!AssignmentRows
<1>4. \E u \in enabled', s \in Scopes : <<u, s>> \in assigned'
  <2>1. PICK u \in enabled, s \in Scopes : u = request[r].user /\ <<u, s>> \in assigned
    BY DEF Accounts!Administrators, Accounts!HasAdminRole
  <2>2. CASE request[r].kind = "grant"
    BY <2>1, <2>2 DEF Accounts!Commit
  <2>3. CASE request[r].kind = "revoke"
    <3>1. {a \in assigned \ {request[r].target} : a[1] \in enabled} # {}
      <4>1. Accounts!Cardinality({a \in assigned \ {request[r].target} : a[1] \in enabled}) > 0
        BY <2>3 DEF Accounts!MayProceed, Accounts!ActiveAdminAssignments
      <4>2. Accounts!Cardinality({}) = 0
        BY FS_EmptySet DEF Accounts!Cardinality, Cardinality
      <4>3. QED
        BY <4>1, <4>2
    <3>2. PICK a \in assigned \ {request[r].target} : a[1] \in enabled
      BY <3>1
    <3>3. a = <<a[1], a[2]>> /\ a[2] \in Scopes
      BY <1>3, <3>2
    <3>4. assigned' = assigned \ {request[r].target} /\ enabled' = enabled
      BY <2>3 DEF Accounts!Commit
    <3>5. QED
      BY <3>2, <3>3, <3>4
  <2>4. CASE request[r].kind = "deactivate"
    <3>1. request[r].target[1] # u
      BY <2>1, <2>4 DEF Accounts!MayProceed
    <3>2. assigned' = assigned /\ enabled' = enabled \ {request[r].target[1]}
      BY <2>4 DEF Accounts!Commit
    <3>3. QED
      BY <2>1, <3>1, <3>2
  <2>5. QED
    BY <1>2, <2>2, <2>3, <2>4
<1>5. QED
  BY <1>4 DEF Accounts!AdministratorRemains, Accounts!Administrators, Accounts!HasAdminRole

\* Who administers depends on two tables.
LEMMA SameAdministrators ==
  ASSUME UNCHANGED <<enabled, assigned>>
  PROVE  /\ Accounts!Administrators' = Accounts!Administrators
         /\ Accounts!AdministratorRemains => Accounts!AdministratorRemains'
BY DEF Accounts!AdministratorRemains, Accounts!Administrators, Accounts!HasAdminRole

\* Every step keeps the rows typed.
LEMMA AdminStaysTyped == AdminTyped /\ [Accounts!Next]_accounts => AdminTyped'
<1> SUFFICES ASSUME AdminTyped, [Accounts!Next]_accounts PROVE AdminTyped'
  OBVIOUS
<1>1. CASE Accounts!Next
  BY <1>1, SessionSteps, RequestSteps, CommitSteps DEF Accounts!Next
<1>2. CASE UNCHANGED accounts
  BY <1>2
  DEF accounts, AdminTyped, Accounts!TypeOK, Accounts!MembershipRows, Accounts!AssignmentRows,
      Accounts!SessionRows, Accounts!Nobody, Accounts!Idle, Accounts!Commands, RequestsTyped
<1>3. QED
  BY <1>1, <1>2

LEMMA AdminTypedHolds == ServicesSpec => []AdminTyped
<1>1. ServicesInit => AdminTyped
  BY AdminInit DEF ServicesInit
<1>2. AdminTyped /\ [ServicesNext]_ServicesVars => AdminTyped'
  BY AccountsMove, AdminStaysTyped
<1>3. QED
  BY <1>1, <1>2, PTL DEF ServicesSpec

\* The step that takes the last administrator's rights is a commit, and a commit
\* whose caller and guard still stand leaves somebody.
LEMMA LossIsOvertaken ==
  ASSUME AdminTyped, [Accounts!Next]_accounts, Accounts!AdministratorRemains,
         ~Accounts!AdministratorRemains'
  PROVE  \E r \in AdminRequests :
           /\ Accounts!Commit(r)
           /\ request[r].user \in Accounts!Administrators => ~Accounts!MayProceed(r)
<1>1. ~(UNCHANGED <<enabled, assigned>>)
  <2> SUFFICES ASSUME UNCHANGED <<enabled, assigned>> PROVE FALSE
    OBVIOUS
  <2>1. QED
    BY SameAdministrators
<1>2. Accounts!Next
  BY <1>1 DEF accounts
<1>3. PICK r \in AdminRequests : Accounts!Commit(r)
  BY <1>1, <1>2, SessionSteps, RequestSteps DEF Accounts!Next
<1>4. QED
  BY <1>3, GuardedCommitLeavesOne

\* However many commands overlap, the last administrator is lost only to a
\* command that was overtaken between its guards and its commit, for any users,
\* scopes and requests (api/admin.py, revoke_role and deactivate_membership).
THEOREM LastAdministratorIsOvertaken == ServicesSpec => LostToOvertakenCommand
<1>1. AdminTyped => Accounts!TypeOK
  BY DEF AdminTyped
<1>2. AdminTyped /\ [ServicesNext]_ServicesVars =>
        [(Accounts!Administrators # {} /\ Accounts!Administrators' = {}) =>
            \E r \in AdminRequests :
              /\ Accounts!Commit(r)
              /\ request[r].user \in Accounts!Administrators => ~Accounts!MayProceed(r)
        ]_(Accounts!vars)
  <2> SUFFICES ASSUME AdminTyped, [Accounts!Next]_accounts,
                      Accounts!Administrators # {}, Accounts!Administrators' = {}
               PROVE  \E r \in AdminRequests :
                        /\ Accounts!Commit(r)
                        /\ request[r].user \in Accounts!Administrators => ~Accounts!MayProceed(r)
    BY AccountsMove
  <2>1. QED
    BY LossIsOvertaken DEF Accounts!AdministratorRemains
<1>3. QED
  BY <1>1, <1>2, AdminTypedHolds, PTL
  DEF ServicesSpec, LostToOvertakenCommand, Accounts!LostToOvertakenCommand
-----------------------------------------------------------------------------
(* LockOrder *)

\* A sequence lists numbers in ascending order.
Lists(s, ids) ==
  s \in [1..Cardinality(ids) -> ids] /\ \A i, j \in 1..Cardinality(ids) : i < j => s[i] < s[j]

HasList(ids) == \E s : Lists(s, ids)

Numbers(ids) == ids \subseteq Int /\ IsFiniteSet(ids)

\* Every finite set of numbers can be listed in ascending order.
LEMMA CanList ==
  ASSUME NEW S, Numbers(S)
  PROVE  HasList(S)
<1> DEFINE R == {e \in Int \X Int : e[1] < e[2]}
<1>1. \A x, y \in Int : <<x, y>> \in R <=> x < y
  OBVIOUS
<1>2. IsFiniteSet(S) /\ \A x \in S : x \in Int
  BY DEF Numbers
<1>3. /\ \A x, y \in S : x = y \/ <<x, y>> \in R \/ <<y, x>> \in R
      /\ \A x, y, z \in S : <<x, y>> \in R /\ <<y, z>> \in R => <<x, z>> \in R
  BY <1>1, <1>2
<1> HIDE DEF R
<1>4. PICK f : IsListing(f, S, R)
  BY <1>2, <1>3, CanBeListed DEF HasListing
<1>5. Lists(f, S)
  <2>1. f \in [1..Cardinality(S) -> S]
    BY <1>4 DEF IsListing
  <2>2. ASSUME NEW i \in 1..Cardinality(S), NEW j \in 1..Cardinality(S), i < j
        PROVE  f[i] < f[j]
    <3>1. <<f[i], f[j]>> \in R
      BY <1>4, <2>2 DEF IsListing
    <3>2. f[i] \in Int /\ f[j] \in Int
      BY <1>2, <2>1
    <3>3. QED
      BY <1>1, <3>1, <3>2
  <2>3. QED
    BY <2>1, <2>2 DEF Lists
<1>6. QED
  BY <1>5 DEF HasList

\* The tables in the order in which their rows are locked, and the order of rows.
Tables == {"run", "order", "recommendation", "slot", "balance", "lot"}

Place(table) ==
  CASE table = "run" -> 0
    [] table = "order" -> 1
    [] table = "recommendation" -> 2
    [] table = "slot" -> 3
    [] table = "balance" -> 4
    [] table = "lot" -> 5

LockRows == Tables \X Int

Before(r, q) == Place(r[1]) < Place(q[1]) \/ (r[1] = q[1] /\ r[2] < q[2])

LockRequests == [row : LockRows, mode : {"update", "share"}]

\* The requests of a sequence follow that order.
Ascends(s) ==
  s \in Seq(LockRequests) /\ \A i, j \in 1..Len(s) : i < j => Before(s[i].row, s[j].row)

\* They do, and their tables are within bounds.
Segment(s, lo, hi) ==
  Ascends(s) /\ \A i \in 1..Len(s) : lo <= Place(s[i].row[1]) /\ Place(s[i].row[1]) <= hi

\* Rows are in a strict total order.
LEMMA RowsAreOrdered ==
  /\ \A t \in Tables : Place(t) \in 0..5
  /\ \A r \in LockRows : ~Before(r, r)
  /\ \A r, q \in LockRows : r = q \/ Before(r, q) \/ Before(q, r)
  /\ \A r, q, u \in LockRows : Before(r, q) /\ Before(q, u) => Before(r, u)
<1>1. \A t \in Tables : Place(t) \in 0..5
  BY DEF Tables, Place
<1>2. \A t, u \in Tables : Place(t) = Place(u) => t = u
  BY DEF Tables, Place
<1>3. \A r \in LockRows : r[1] \in Tables /\ r[2] \in Int /\ r = <<r[1], r[2]>>
  BY DEF LockRows
<1>4. \A r, q \in LockRows : r = q \/ Before(r, q) \/ Before(q, r)
  <2> TAKE r, q \in LockRows
  <2>1. r = <<r[1], r[2]>> /\ q = <<q[1], q[2]>> /\ r[2] \in Int /\ q[2] \in Int
    BY <1>3
  <2>2. Place(r[1]) \in Int /\ Place(q[1]) \in Int
    BY <1>1, <1>3
  <2>3. Place(r[1]) = Place(q[1]) => r[1] = q[1]
    BY <1>2, <1>3
  <2>4. QED
    BY <2>1, <2>2, <2>3 DEF Before
<1>5. \A r, q, u \in LockRows : Before(r, q) /\ Before(q, u) => Before(r, u)
  <2> TAKE r, q, u \in LockRows
  <2>1. r[2] \in Int /\ q[2] \in Int /\ u[2] \in Int
    BY <1>3
  <2>2. Place(r[1]) \in Int /\ Place(q[1]) \in Int /\ Place(u[1]) \in Int
    BY <1>1, <1>3
  <2>3. QED
    BY <2>1, <2>2 DEF Before
<1>6. \A r \in LockRows : ~Before(r, r)
  <2> TAKE r \in LockRows
  <2>1. r[2] \in Int /\ Place(r[1]) \in Int
    BY <1>1, <1>3
  <2>2. QED
    BY <2>1 DEF Before
<1>7. QED
  BY <1>1, <1>4, <1>5, <1>6

\* Where the tables stand.
LEMMA Places ==
  /\ Place("run") = 0 /\ Place("order") = 1 /\ Place("recommendation") = 2
  /\ Place("slot") = 3 /\ Place("balance") = 4 /\ Place("lot") = 5
BY DEF Place

\* One request.
LEMMA SingleSegment ==
  ASSUME NEW l \in LockRequests
  PROVE  Segment(<<l>>, Place(l.row[1]), Place(l.row[1]))
<1>1. l.row[1] \in Tables
  BY DEF LockRequests, LockRows
<1>2. Place(l.row[1]) \in Int
  BY <1>1, RowsAreOrdered
<1>3. /\ <<l>> \in Seq(LockRequests) /\ Len(<<l>>) = 1 /\ <<l>>[1] = l
      /\ \A i \in 1..1 : i = 1
  OBVIOUS
<1>4. Ascends(<<l>>)
  BY <1>3 DEF Ascends
<1>5. QED
  BY <1>2, <1>3, <1>4 DEF Segment

\* The rows of a table in ascending order of their ids.
LEMMA AscendingSegment ==
  ASSUME NEW table \in Tables, NEW ids, Numbers(ids)
  PROVE  Segment(Locks!Ascending(table, ids), Place(table), Place(table))
<1> DEFINE s == Locks!InOrder(ids)
           n == Cardinality(ids)
           a == Locks!Ascending(table, ids)
<1>1. n \in Nat
  BY FS_CardinalityType DEF Numbers
<1>2. s \in [1..n -> ids] /\ \A i, j \in 1..n : i < j => s[i] < s[j]
  <2>1. Locks!Cardinality(ids) = n
    BY DEF Locks!Cardinality, Cardinality
  <2>2. s = CHOOSE f \in [1..n -> ids] : \A i, j \in DOMAIN f : i < j => f[i] < f[j]
    BY <2>1 DEF Locks!InOrder
  <2>3. PICK f : Lists(f, ids)
    BY CanList DEF HasList
  <2>4. f \in [1..n -> ids] /\ \A i, j \in DOMAIN f : i < j => f[i] < f[j]
    BY <2>3 DEF Lists
  <2> HIDE DEF n
  <2>5. s \in [1..n -> ids] /\ \A i, j \in DOMAIN s : i < j => s[i] < s[j]
    BY <2>2, <2>4
  <2>6. QED
    BY <2>5
<1>3. a = [i \in DOMAIN s |-> Locks!Update(table, s[i])]
  BY DEF Locks!Ascending
<1> HIDE DEF s, n, a
<1>4. \A i \in 1..n : s[i] \in Int
  BY <1>2 DEF Numbers
<1>5. a = [i \in 1..n |-> [row |-> <<table, s[i]>>, mode |-> "update"]]
  BY <1>2, <1>3 DEF Locks!Update
<1>6. \A i \in 1..n : [row |-> <<table, s[i]>>, mode |-> "update"] \in LockRequests
  BY <1>4 DEF LockRequests, LockRows
<1>7. a \in [1..n -> LockRequests]
  BY <1>5, <1>6
<1>8. a \in Seq(LockRequests) /\ Len(a) = n
  BY <1>1, <1>7
<1>9. \A i \in 1..n : a[i].row = <<table, s[i]>>
  BY <1>5
<1>10. Ascends(a)
  BY <1>2, <1>8, <1>9 DEF Ascends, Before
<1>11. Place(table) \in Int
  BY RowsAreOrdered
<1>12. Segment(a, Place(table), Place(table))
  BY <1>8, <1>9, <1>10, <1>11 DEF Segment
<1>13. QED
  BY <1>12 DEF a

\* A segment followed by one of later tables.
LEMMA JoinSegments ==
  ASSUME NEW lo \in Int, NEW hi \in Int, NEW low \in Int, NEW high \in Int,
         NEW s, NEW t, Segment(s, lo, hi), Segment(t, low, high),
         hi < low, lo <= low, hi <= high
  PROVE  Segment(s \o t, lo, high)
<1> DEFINE m == Len(s)
           n == Len(t)
           u == s \o t
<1>1. /\ s \in Seq(LockRequests) /\ t \in Seq(LockRequests) /\ u \in Seq(LockRequests)
      /\ m \in Nat /\ n \in Nat /\ Len(u) = m + n
  BY DEF Segment, Ascends
<1>2. \A i \in 1..(m + n) : u[i] = IF i <= m THEN s[i] ELSE t[i - m]
  BY <1>1
<1>3. /\ \A i \in 1..m : lo <= Place(s[i].row[1]) /\ Place(s[i].row[1]) <= hi
                         /\ Place(s[i].row[1]) \in Int
      /\ \A i \in 1..n : low <= Place(t[i].row[1]) /\ Place(t[i].row[1]) <= high
                         /\ Place(t[i].row[1]) \in Int
  <2>1. \A l \in LockRequests : l.row[1] \in Tables
    BY DEF LockRequests, LockRows
  <2>2. \A l \in LockRequests : Place(l.row[1]) \in Int
    BY <2>1, RowsAreOrdered
  <2>3. (\A i \in 1..m : s[i] \in LockRequests) /\ (\A i \in 1..n : t[i] \in LockRequests)
    BY <1>1
  <2>4. QED
    BY <2>2, <2>3 DEF Segment
<1>4. /\ \A i, j \in 1..m : i < j => Before(s[i].row, s[j].row)
      /\ \A i, j \in 1..n : i < j => Before(t[i].row, t[j].row)
  BY DEF Segment, Ascends
<1> HIDE DEF m, n, u
<1>5. \A i \in 1..(m + n) : (i \in 1..m) \/ (i - m \in 1..n /\ ~(i <= m))
  BY <1>1
<1>6. \A i, j \in 1..(m + n) : i < j => Before(u[i].row, u[j].row)
  <2> SUFFICES ASSUME NEW i \in 1..(m + n), NEW j \in 1..(m + n), i < j
               PROVE  Before(u[i].row, u[j].row)
    OBVIOUS
  <2>1. CASE i \in 1..m /\ j \in 1..m
    BY <1>1, <1>2, <1>4, <2>1
  <2>2. CASE i \in 1..m /\ j - m \in 1..n /\ ~(j <= m)
    <3>1. u[i] = s[i] /\ u[j] = t[j - m]
      BY <1>1, <1>2, <2>2
    <3>2. Place(s[i].row[1]) < Place(t[j - m].row[1])
      <4>1. Place(s[i].row[1]) <= hi /\ Place(s[i].row[1]) \in Int
        BY <1>3, <2>2
      <4>2. low <= Place(t[j - m].row[1]) /\ Place(t[j - m].row[1]) \in Int
        BY <1>3, <2>2
      <4>3. QED
        BY <4>1, <4>2
    <3>3. QED
      BY <3>1, <3>2 DEF Before
  <2>3. CASE i - m \in 1..n /\ ~(i <= m) /\ j - m \in 1..n /\ ~(j <= m)
    <3>1. u[i] = t[i - m] /\ u[j] = t[j - m] /\ i - m < j - m
      BY <1>1, <1>2, <2>3
    <3>2. QED
      BY <1>4, <2>3, <3>1
  <2>4. QED
    BY <1>1, <1>5, <2>1, <2>2, <2>3
<1>7. \A i \in 1..(m + n) : lo <= Place(u[i].row[1]) /\ Place(u[i].row[1]) <= high
  <2> TAKE i \in 1..(m + n)
  <2>1. CASE i \in 1..m
    <3>1. u[i] = s[i]
      BY <1>1, <1>2, <2>1
    <3>2. QED
      BY <1>3, <2>1, <3>1
  <2>2. CASE i - m \in 1..n /\ ~(i <= m)
    <3>1. u[i] = t[i - m]
      BY <1>2, <2>2
    <3>2. QED
      BY <1>3, <2>2, <3>1
  <2>3. QED
    BY <1>5, <2>1, <2>2
<1>8. Segment(u, lo, high)
  BY <1>1, <1>6, <1>7 DEF Segment, Ascends
<1>9. QED
  BY <1>8 DEF u

\* What the parameters of the commands are.
LEMMA LockParameters ==
  /\ \A ids \in SUBSET OrderIds : Numbers(ids)
  /\ \A ids \in SUBSET BalanceIds : Numbers(ids)
  /\ \A ids \in SUBSET SlotIds : Numbers(ids)
  /\ \A bs : Locks!Using(bs) \in SUBSET OrderIds
  /\ \A o \in OrderIds : Uses[o] \in SUBSET BalanceIds /\ PlansOn[o] \in SUBSET SlotIds
<1>1. /\ IsFiniteSet(OrderIds) /\ IsFiniteSet(SlotIds) /\ IsFiniteSet(BalanceIds)
      /\ OrderIds \subseteq Int /\ SlotIds \subseteq Int /\ BalanceIds \subseteq Int
      /\ Planned \subseteq OrderIds
      /\ Uses \in [OrderIds -> SUBSET BalanceIds] /\ PlansOn \in [OrderIds -> SUBSET SlotIds]
  BY ServicesAssumption
<1>2. \A ids \in SUBSET OrderIds : Numbers(ids)
  BY <1>1, FS_Subset DEF Numbers
<1>3. \A ids \in SUBSET BalanceIds : Numbers(ids)
  BY <1>1, FS_Subset DEF Numbers
<1>4. \A ids \in SUBSET SlotIds : Numbers(ids)
  BY <1>1, FS_Subset DEF Numbers
<1>5. \A bs : Locks!Using(bs) \in SUBSET OrderIds
  BY <1>1 DEF Locks!Using
<1>6. \A o \in OrderIds : Uses[o] \in SUBSET BalanceIds /\ PlansOn[o] \in SUBSET SlotIds
  BY <1>1
<1>7. QED
  BY <1>2, <1>3, <1>4, <1>5, <1>6

\* lock_orders_using_materials, then the balance and its lots.
LEMMA StorekeeperSegment ==
  ASSUME NEW b \in BalanceIds, NEW extra \in SUBSET OrderIds
  PROVE  Segment(Locks!Storekeeper({b}, extra), 1, 5)
<1> DEFINE s == Locks!Ascending("order", Locks!Using({b}) \cup extra)
           t == Locks!Ascending("balance", {b})
           u == Locks!Ascending("lot", {b})
<1>1. Segment(s, 1, 1) /\ Segment(t, 4, 4) /\ Segment(u, 5, 5)
  <2>1. Locks!Using({b}) \cup extra \in SUBSET OrderIds /\ {b} \in SUBSET BalanceIds
    BY LockParameters
  <2>2. Numbers(Locks!Using({b}) \cup extra) /\ Numbers({b})
    BY <2>1, LockParameters
  <2>3. "order" \in Tables /\ "balance" \in Tables /\ "lot" \in Tables
    BY DEF Tables
  <2>4. Segment(s, Place("order"), Place("order"))
    BY <2>2, <2>3, AscendingSegment
  <2>5. Segment(t, Place("balance"), Place("balance"))
    BY <2>2, <2>3, AscendingSegment
  <2>6. Segment(u, Place("lot"), Place("lot"))
    BY <2>2, <2>3, AscendingSegment
  <2>7. QED
    BY <2>4, <2>5, <2>6, Places
<1>2. Locks!Storekeeper({b}, extra) = (s \o t) \o u
  BY DEF Locks!Storekeeper
<1> HIDE DEF s, t, u
<1>3. Segment(s \o t, 1, 4)
  BY <1>1, JoinSegments
<1>4. Segment((s \o t) \o u, 1, 5)
  BY <1>1, <1>3, JoinSegments
<1>5. QED
  BY <1>2, <1>4

\* _lock_inputs: the slots, then the balances.
LEMMA InputsSegment ==
  ASSUME NEW o \in OrderIds
  PROVE  Segment(Locks!Inputs(o), 3, 4)
<1> DEFINE s == Locks!Ascending("slot", PlansOn[o])
           t == Locks!Ascending("balance", Uses[o])
<1>1. Segment(s, 3, 3) /\ Segment(t, 4, 4)
  <2>1. Numbers(PlansOn[o]) /\ Numbers(Uses[o])
    BY LockParameters
  <2>2. "slot" \in Tables /\ "balance" \in Tables
    BY DEF Tables
  <2>3. Segment(s, Place("slot"), Place("slot")) /\ Segment(t, Place("balance"), Place("balance"))
    BY <2>1, <2>2, AscendingSegment
  <2>4. QED
    BY <2>3, Places
<1>2. Locks!Inputs(o) = s \o t
  BY DEF Locks!Inputs
<1> HIDE DEF s, t
<1>3. QED
  BY <1>1, <1>2, JoinSegments

\* The rows of an order's own: the run, the order, the recommendation.
LEMMA OwnSegments ==
  ASSUME NEW o \in OrderIds
  PROVE  /\ Segment(<<Locks!Update("run", o)>>, 0, 0)
         /\ Segment(<<Locks!Share("order", o)>>, 1, 1)
         /\ Segment(Locks!Ascending("order", {o}), 1, 1)
         /\ Segment(Locks!Rec(o), 2, 2)
<1>1. o \in Int
  BY ServicesAssumption
<1>2. Locks!Update("run", o) = [row |-> <<"run", o>>, mode |-> "update"]
  BY DEF Locks!Update
<1>3. Locks!Share("order", o) = [row |-> <<"order", o>>, mode |-> "share"]
  BY DEF Locks!Share
<1>4. Locks!Rec(o) = <<[row |-> <<"recommendation", o>>, mode |-> "update"]>>
  BY DEF Locks!Rec, Locks!Update
<1>5. /\ [row |-> <<"run", o>>, mode |-> "update"] \in LockRequests
      /\ [row |-> <<"order", o>>, mode |-> "share"] \in LockRequests
      /\ [row |-> <<"recommendation", o>>, mode |-> "update"] \in LockRequests
  BY <1>1 DEF LockRequests, LockRows, Tables
<1>6. Segment(<<Locks!Update("run", o)>>, 0, 0)
  <2>1. Segment(<<Locks!Update("run", o)>>, Place("run"), Place("run"))
    BY <1>2, <1>5, SingleSegment
  <2>2. QED
    BY <2>1, Places
<1>7. Segment(<<Locks!Share("order", o)>>, 1, 1)
  <2>1. Segment(<<Locks!Share("order", o)>>, Place("order"), Place("order"))
    BY <1>3, <1>5, SingleSegment
  <2>2. QED
    BY <2>1, Places
<1>8. Segment(Locks!Rec(o), 2, 2)
  <2>1. Segment(Locks!Rec(o), Place("recommendation"), Place("recommendation"))
    BY <1>4, <1>5, SingleSegment
  <2>2. QED
    BY <2>1, Places
<1>9. Segment(Locks!Ascending("order", {o}), 1, 1)
  <2>1. Numbers({o})
    BY LockParameters
  <2>2. Segment(Locks!Ascending("order", {o}), Place("order"), Place("order"))
    BY <2>1, AscendingSegment DEF Tables
  <2>3. QED
    BY <2>2, Places
<1>10. QED
  BY <1>6, <1>7, <1>8, <1>9

\* Every command but the correction asks for its locks in that order.
LEMMA CommandsAscend ==
  ASSUME NEW kind \in CommandKinds \ {"correction"}, NEW o \in OrderIds, NEW b \in BalanceIds
  PROVE  Ascends(Locks!Requests(kind, o, b))
<1> DEFINE r == Locks!Requests(kind, o, b)
           order == Locks!Ascending("order", {o})
           rec == Locks!Rec(o)
           inputs == Locks!Inputs(o)
           run == <<Locks!Update("run", o)>>
           shared == <<Locks!Share("order", o)>>
<1>1. kind \in {"apply", "decide", "cancel_order", "receipt", "issue", "reserve",
                "refresh", "finalize", "cancel_run"}
  BY ServicesAssumption
<1>2. /\ Segment(run, 0, 0) /\ Segment(shared, 1, 1) /\ Segment(order, 1, 1)
      /\ Segment(rec, 2, 2) /\ Segment(inputs, 3, 4)
  BY OwnSegments, InputsSegment
<1>3. CASE kind = "apply"
  <2>1. r = (order \o rec) \o inputs
    BY <1>3 DEF Locks!Requests
  <2> HIDE DEF r, order, rec, inputs, run, shared
  <2>2. Segment(order \o rec, 1, 2)
    BY <1>2, JoinSegments
  <2>3. Segment((order \o rec) \o inputs, 1, 4)
    BY <1>2, <2>2, JoinSegments
  <2>4. Ascends(r)
    BY <2>1, <2>3 DEF Segment
  <2>5. QED
    BY <2>4 DEF r
<1>4. CASE kind = "decide"
  <2>1. r = order \o rec
    BY <1>4 DEF Locks!Requests
  <2> HIDE DEF r, order, rec, inputs, run, shared
  <2>2. Segment(order \o rec, 1, 2)
    BY <1>2, JoinSegments
  <2>3. Ascends(r)
    BY <2>1, <2>2 DEF Segment
  <2>4. QED
    BY <2>3 DEF r
<1>5. CASE kind = "cancel_order"
  <2>1. r = order \o inputs
    BY <1>5 DEF Locks!Requests
  <2> HIDE DEF r, order, rec, inputs, run, shared
  <2>2. Segment(order \o inputs, 1, 4)
    BY <1>2, JoinSegments
  <2>3. Ascends(r)
    BY <2>1, <2>2 DEF Segment
  <2>4. QED
    BY <2>3 DEF r
<1>6. CASE kind = "receipt"
  <2>1. r = Locks!Storekeeper({b}, {})
    BY <1>6 DEF Locks!Requests
  <2>2. QED
    BY <2>1, StorekeeperSegment DEF Segment
<1>7. CASE kind \in {"issue", "reserve"}
  <2>1. r = Locks!Storekeeper({b}, {o})
    BY <1>7 DEF Locks!Requests
  <2>2. QED
    BY <2>1, StorekeeperSegment DEF Segment
<1>8. CASE kind = "refresh"
  <2>1. r = Locks!Ascending("order", Locks!Using(Uses[o]))
    BY <1>8 DEF Locks!Requests
  <2>2. Numbers(Locks!Using(Uses[o]))
    BY LockParameters
  <2>3. Segment(r, Place("order"), Place("order"))
    BY <2>1, <2>2, AscendingSegment DEF Tables
  <2>4. QED
    BY <2>3 DEF Segment
<1>9. CASE kind = "finalize"
  <2>1. r = <<Locks!Update("run", o), Locks!Share("order", o)>> \o rec
    BY <1>9 DEF Locks!Requests
  <2>2. <<Locks!Update("run", o), Locks!Share("order", o)>> = run \o shared
    OBVIOUS
  <2> HIDE DEF r, order, rec, inputs, run, shared
  <2>3. Segment(run \o shared, 0, 1)
    BY <1>2, JoinSegments
  <2>4. Segment((run \o shared) \o rec, 0, 2)
    BY <1>2, <2>3, JoinSegments
  <2>5. Ascends(r)
    BY <2>1, <2>2, <2>4 DEF Segment
  <2>6. QED
    BY <2>5 DEF r
<1>10. CASE kind = "cancel_run"
  <2>1. r = run \o rec
    BY <1>10 DEF Locks!Requests
  <2> HIDE DEF r, order, rec, inputs, run, shared
  <2>2. Segment(run \o rec, 0, 2)
    BY <1>2, JoinSegments
  <2>3. Ascends(r)
    BY <2>1, <2>2 DEF Segment
  <2>4. QED
    BY <2>3 DEF r
<1>11. QED
  BY <1>1, <1>3, <1>4, <1>5, <1>6, <1>7, <1>8, <1>9, <1>10

\* The last request of a correction is the share lock of the order that its
\* movement names; the others of all commands are in the common order.
InLine(kind, s) == IF kind = "correction" /\ s # <<>> THEN Len(s) - 1 ELSE Len(s)

Lines(kind, s) ==
  /\ s \in Seq(LockRequests)
  /\ \A i, j \in 1..InLine(kind, s) : i < j => Before(s[i].row, s[j].row)
  /\ kind = "correction" /\ s # <<>> => \E o \in OrderIds : s[Len(s)] = Locks!Share("order", o)

LEMMA RequestsLine ==
  ASSUME NEW kind \in CommandKinds, NEW o \in OrderIds, NEW b \in BalanceIds
  PROVE  Lines(kind, Locks!Requests(kind, o, b))
<1> DEFINE r == Locks!Requests(kind, o, b)
<1>1. CASE kind # "correction"
  <2>1. Ascends(r)
    BY <1>1, CommandsAscend
  <2> HIDE DEF r
  <2>2. Lines(kind, r)
    BY <1>1, <2>1 DEF Lines, InLine, Ascends
  <2>3. QED
    BY <2>2 DEF r
<1>2. CASE kind = "correction"
  <2> DEFINE s == Locks!Storekeeper({b}, {})
             x == Locks!Share("order", o)
  <2>1. r = s \o <<x>>
    BY <1>2 DEF Locks!Requests
  <2>2. Ascends(s)
    BY StorekeeperSegment DEF Segment
  <2>3. x \in LockRequests
    <3>1. Locks!Share("order", o) = [row |-> <<"order", o>>, mode |-> "share"]
      BY DEF Locks!Share
    <3>2. o \in Int
      BY ServicesAssumption
    <3>3. QED
      BY <3>1, <3>2 DEF LockRequests, LockRows, Tables
  <2> HIDE DEF r, s
  <2> USE DEF Ascends
  <2>4. /\ r \in Seq(LockRequests) /\ Len(r) = Len(s) + 1 /\ r # <<>> /\ Len(s) \in Nat
        /\ r[Len(r)] = Locks!Share("order", o)
        /\ \A i \in 1..Len(s) : r[i] = s[i]
    <3> HIDE DEF x
    <3>1. s \in Seq(LockRequests) /\ <<x>> \in Seq(LockRequests) /\ Len(<<x>>) = 1 /\ <<x>>[1] = x
      BY <2>2, <2>3
    <3>2. /\ r \in Seq(LockRequests) /\ Len(r) = Len(s) + 1 /\ Len(s) \in Nat
          /\ \A i \in 1..Len(s) : r[i] = s[i]
      BY <2>1, <3>1, ConcatProperties
    <3>3. r[Len(s) + 1] = <<x>>[1]
      BY <2>1, <3>1, <3>2, ConcatProperties
    <3>4. QED
      BY <3>1, <3>2, <3>3 DEF x
  <2>5. InLine(kind, r) = Len(s)
    BY <1>2, <2>4 DEF InLine
  <2>6. Lines(kind, r)
    BY <2>2, <2>4, <2>5 DEF Lines
  <2>7. QED
    BY <2>6 DEF r
<1>3. QED
  BY <1>1, <1>2

\* A process asks for its locks in order, and for none that it holds a later one of.
LinedUp(p) ==
  /\ Lines(command[p].kind, command[p].wants)
  /\ command[p].kind = "none" => command[p] = Locks!Idle /\ held[p] = {}
  /\ \A l \in held[p] : \A i \in 1..InLine(command[p].kind, command[p].wants) :
       Before(l.row, command[p].wants[i].row)

LockInv ==
  /\ command \in [Procs -> [kind : CommandKinds \cup {"none"}, wants : Seq(LockRequests)]]
  /\ held \in [Procs -> SUBSET LockRequests]
  /\ \A p \in Procs : LinedUp(p)

\* The first request is granted, the rest stay in line.
LEMMA RestLines ==
  ASSUME NEW kind, NEW s, Lines(kind, s), s # <<>>
  PROVE  /\ Head(s) \in LockRequests /\ Head(s) = s[1]
         /\ Lines(kind, Tail(s))
         /\ \A i \in 1..InLine(kind, Tail(s)) :
              /\ Tail(s)[i] = s[i + 1] /\ 1 < i + 1
              /\ i + 1 \in 1..InLine(kind, s) /\ 1 \in 1..InLine(kind, s)
<1> DEFINE t == Tail(s)
<1>1. s \in Seq(LockRequests)
  BY DEF Lines
<1>2. /\ Len(s) \in Nat /\ Len(s) >= 1 /\ Head(s) = s[1] /\ s[1] \in LockRequests
      /\ t \in Seq(LockRequests) /\ Len(t) = Len(s) - 1
      /\ \A i \in 1..Len(t) : t[i] = s[i + 1]
  BY <1>1
<1>3. t # <<>> => Len(t) >= 1 /\ t[Len(t)] = s[Len(s)]
  <2>1. t # <<>> => Len(t) \in Nat /\ Len(t) # 0
    BY <1>2, EmptySeq
  <2> HIDE DEF t
  <2>2. QED
    BY <1>2, <2>1
<1> HIDE DEF t
<1>4. t = <<>> => Len(t) = 0
  OBVIOUS
<1>5. /\ InLine(kind, s) \in Nat /\ InLine(kind, t) \in Int /\ InLine(kind, t) <= Len(t)
      /\ InLine(kind, t) >= 1 => InLine(kind, t) + 1 = InLine(kind, s)
  BY <1>2, <1>3, <1>4 DEF InLine
<1>6. \A i \in 1..InLine(kind, t) :
        /\ t[i] = s[i + 1] /\ 1 < i + 1
        /\ i + 1 \in 1..InLine(kind, s) /\ 1 \in 1..InLine(kind, s)
  BY <1>2, <1>5
<1>7. \A i, j \in 1..InLine(kind, t) : i < j => Before(t[i].row, t[j].row)
  <2> SUFFICES ASSUME NEW i \in 1..InLine(kind, t), NEW j \in 1..InLine(kind, t), i < j
               PROVE  Before(t[i].row, t[j].row)
    OBVIOUS
  <2>1. i + 1 \in 1..InLine(kind, s) /\ j + 1 \in 1..InLine(kind, s) /\ i + 1 < j + 1
    BY <1>6
  <2>2. Before(s[i + 1].row, s[j + 1].row)
    BY <2>1 DEF Lines
  <2>3. QED
    BY <1>6, <2>2
<1>8. kind = "correction" /\ t # <<>> => \E o \in OrderIds : t[Len(t)] = Locks!Share("order", o)
  BY <1>3 DEF Lines
<1>9. Lines(kind, t)
  BY <1>2, <1>7, <1>8 DEF Lines
<1>10. QED
  BY <1>2, <1>6, <1>9 DEF t

\* A command that starts holds nothing.
LEMMA StartLinesUp ==
  ASSUME LockInv,
         NEW p \in Procs, NEW kind \in CommandKinds, NEW o \in OrderIds, NEW b \in BalanceIds,
         Locks!Start(p, kind, o, b)
  PROVE  LockInv'
<1> DEFINE r == Locks!Requests(kind, o, b)
<1>1. Lines(kind, r)
  BY RequestsLine
<1> HIDE DEF r
<1>2. command[p] = Locks!Idle /\ held' = held
      /\ command' = [command EXCEPT ![p] = [kind |-> kind, wants |-> r]]
  BY DEF Locks!Start, r
<1>3. r \in Seq(LockRequests)
  BY <1>1 DEF Lines
<1>4. kind # "none"
  BY ServicesAssumption
<1>5. held[p] = {}
  BY <1>2 DEF LockInv, LinedUp, Locks!Idle
<1>6. command'[p] = [kind |-> kind, wants |-> r] /\ \A q \in Procs \ {p} : command'[q] = command[q]
  BY <1>2 DEF LockInv
<1>7. command' \in [Procs -> [kind : CommandKinds \cup {"none"}, wants : Seq(LockRequests)]]
  BY <1>2, <1>3 DEF LockInv
<1>8. \A q \in Procs \ {p} : LinedUp(q)'
  BY <1>2, <1>6 DEF LockInv, LinedUp, Locks!Idle
<1>9. LinedUp(p)'
  BY <1>1, <1>2, <1>4, <1>5, <1>6 DEF LinedUp
<1>10. QED
  BY <1>2, <1>7, <1>8, <1>9 DEF LockInv

\* What is granted comes before what is still to be asked for.
LEMMA AcquireLinesUp ==
  ASSUME LockInv, NEW p \in Procs, Locks!Acquire(p)
  PROVE  LockInv'
<1> DEFINE s == command[p].wants
           k == command[p].kind
<1>1. Lines(k, s) /\ s # <<>> /\ k \in CommandKinds \cup {"none"}
  BY DEF LockInv, LinedUp, Locks!Acquire, Locks!Grantable
<1>2. k # "none"
  BY <1>1 DEF LockInv, LinedUp, Locks!Idle
<1>3. /\ held' = [held EXCEPT ![p] = held[p] \cup {Head(s)}]
      /\ command' = [command EXCEPT ![p] = [command[p] EXCEPT !.wants = Tail(s)]]
  BY DEF Locks!Acquire
<1>4. /\ command'[p].kind = k /\ command'[p].wants = Tail(s)
      /\ \A q \in Procs \ {p} : command'[q] = command[q] /\ held'[q] = held[q]
      /\ held'[p] = held[p] \cup {Head(s)}
  BY <1>3 DEF LockInv
<1>5. /\ Head(s) \in LockRequests /\ Head(s) = s[1] /\ Lines(k, Tail(s))
      /\ \A i \in 1..InLine(k, Tail(s)) :
           /\ Tail(s)[i] = s[i + 1] /\ 1 < i + 1
           /\ i + 1 \in 1..InLine(k, s) /\ 1 \in 1..InLine(k, s)
  BY <1>1, RestLines
<1>6. Tail(s) \in Seq(LockRequests)
  BY <1>5 DEF Lines
<1>7. /\ \A i, j \in 1..InLine(k, s) : i < j => Before(s[i].row, s[j].row)
      /\ \A l \in held[p] : \A i \in 1..InLine(k, s) : Before(l.row, s[i].row)
  BY <1>1 DEF Lines, LockInv, LinedUp
<1> HIDE DEF s, k
<1>8. command' \in [Procs -> [kind : CommandKinds \cup {"none"}, wants : Seq(LockRequests)]]
  BY <1>3, <1>6 DEF LockInv
<1>9. held' \in [Procs -> SUBSET LockRequests]
  BY <1>3, <1>5 DEF LockInv
<1>10. \A q \in Procs \ {p} : LinedUp(q)'
  BY <1>4 DEF LockInv, LinedUp, Locks!Idle
<1>11. \A l \in held'[p] : \A i \in 1..InLine(k, Tail(s)) : Before(l.row, Tail(s)[i].row)
  <2> SUFFICES ASSUME NEW l \in held'[p], NEW i \in 1..InLine(k, Tail(s))
               PROVE  Before(l.row, Tail(s)[i].row)
    OBVIOUS
  <2>1. Tail(s)[i] = s[i + 1] /\ 1 < i + 1 /\ i + 1 \in 1..InLine(k, s) /\ 1 \in 1..InLine(k, s)
    BY <1>5
  <2>2. CASE l = Head(s)
    <3>1. Before(s[1].row, s[i + 1].row)
      BY <1>7, <2>1
    <3>2. QED
      BY <1>5, <2>1, <2>2, <3>1
  <2>3. CASE l \in held[p]
    <3>1. Before(l.row, s[i + 1].row)
      BY <1>7, <2>1, <2>3
    <3>2. QED
      BY <2>1, <3>1
  <2>4. QED
    BY <1>4, <2>2, <2>3
<1>12. LinedUp(p)'
  BY <1>2, <1>4, <1>5, <1>11 DEF LinedUp
<1>13. QED
  BY <1>8, <1>9, <1>10, <1>12 DEF LockInv

\* A transaction that ends holds nothing and asks for nothing.
LEMMA EndLinesUp ==
  ASSUME LockInv, NEW p \in Procs, Locks!End(p)
  PROVE  LockInv'
<1>1. command' = [command EXCEPT ![p] = Locks!Idle] /\ held' = [held EXCEPT ![p] = {}]
  BY DEF Locks!End
<1>2. /\ command'[p] = Locks!Idle /\ held'[p] = {}
      /\ \A q \in Procs \ {p} : command'[q] = command[q] /\ held'[q] = held[q]
  BY <1>1 DEF LockInv
<1>3. Locks!Idle \in [kind : CommandKinds \cup {"none"}, wants : Seq(LockRequests)]
  BY DEF Locks!Idle
<1>4. /\ command' \in [Procs -> [kind : CommandKinds \cup {"none"}, wants : Seq(LockRequests)]]
      /\ held' \in [Procs -> SUBSET LockRequests]
  BY <1>1, <1>3 DEF LockInv
<1>5. \A q \in Procs \ {p} : LinedUp(q)'
  BY <1>2 DEF LockInv, LinedUp, Locks!Idle
<1>6. LinedUp(p)'
  BY <1>2 DEF LinedUp, Locks!Idle, Lines, InLine
<1>7. QED
  BY <1>4, <1>5, <1>6 DEF LockInv

\* A process that waits for anything but the order a correction names holds only
\* what comes before the row it waits for.
LEMMA WaitsInLine ==
  ASSUME LockInv, NEW p \in Procs, command[p].wants # <<>>, ~Locks!AsksForItsOrder(p)
  PROVE  /\ Head(command[p].wants).row \in LockRows
         /\ \A l \in held[p] : l.row \in LockRows /\ Before(l.row, Head(command[p].wants).row)
<1> DEFINE s == command[p].wants
           k == command[p].kind
<1>1. Lines(k, s) /\ s # <<>> /\ held[p] \subseteq LockRequests
  BY DEF LockInv, LinedUp
<1>2. /\ \A l \in held[p] : \A i \in 1..InLine(k, s) : Before(l.row, s[i].row)
      /\ k = "correction" => \A o \in OrderIds : s # <<Locks!Share("order", o)>>
  BY DEF LockInv, LinedUp, Locks!AsksForItsOrder
<1> HIDE DEF s, k
<1>3. Head(s) \in LockRequests /\ Head(s) = s[1]
  BY <1>1, RestLines
<1>4. s \in Seq(LockRequests) /\ Len(s) \in Nat /\ Len(s) >= 1
  <2>1. s \in Seq(LockRequests)
    BY <1>1 DEF Lines
  <2>2. QED
    BY <1>1, <2>1, EmptySeq, LenProperties
<1>5. 1 \in 1..InLine(k, s)
  <2>1. CASE k # "correction"
    BY <1>4, <2>1 DEF InLine
  <2>2. CASE k = "correction"
    <3>1. PICK o \in OrderIds : s[Len(s)] = Locks!Share("order", o)
      BY <1>1, <2>2 DEF Lines
    <3>2. Len(s) # 1
      <4> SUFFICES ASSUME Len(s) = 1 PROVE FALSE
        OBVIOUS
      <4>1. s = <<s[1]>>
        BY <1>4
      <4>2. QED
        BY <1>2, <2>2, <3>1, <4>1
    <3>3. InLine(k, s) = Len(s) - 1
      BY <1>1, <2>2 DEF InLine
    <3>4. Len(s) - 1 \in Nat /\ 1 <= Len(s) - 1
      <4> DEFINE n == Len(s)
      <4> HIDE DEF n
      <4>1. n \in Nat /\ n >= 1 /\ n # 1
        BY <1>4, <3>2 DEF n
      <4>2. n - 1 \in Nat /\ 1 <= n - 1
        BY <4>1
      <4>3. QED
        BY <4>2 DEF n
    <3>5. 1 \in 1..(Len(s) - 1)
      BY <3>4
    <3>6. QED
      BY <3>3, <3>5
  <2>3. QED
    BY <2>1, <2>2
<1>6. \A l \in LockRequests : l.row \in LockRows
  BY DEF LockRequests
<1>7. QED
  BY <1>1, <1>2, <1>3, <1>5, <1>6 DEF s

\* Of processes that wait in line, one asks for a row that none of the others
\* holds: the one whose row is last, since what the others hold comes before theirs.
LEMMA CyclesAreBroken ==
  ASSUME LockInv, IsFiniteSet(Procs)
  PROVE  Locks!OnlyCorrectionsDeadlock
<1> SUFFICES ASSUME NEW S \in SUBSET Locks!Waiting, S # {},
                    \A p \in S : ~Locks!AsksForItsOrder(p)
             PROVE  \E p \in S : \A q \in S \ {p} : \A l \in held[q] :
                      Locks!Compatible(l, Head(command[p].wants))
  BY DEF Locks!OnlyCorrectionsDeadlock
<1> DEFINE Row(p) == Head(command[p].wants).row
           R == {e \in S \X S : Row(e[1]) = Row(e[2]) \/ Before(Row(e[1]), Row(e[2]))}
<1>1. S \subseteq Procs /\ IsFiniteSet(S) /\ \A p \in S : command[p].wants # <<>>
  <2>1. S \subseteq Procs /\ \A p \in S : command[p].wants # <<>>
    BY DEF Locks!Waiting
  <2>2. QED
    BY <2>1, FS_Subset
<1>2. \A p \in S : Row(p) \in LockRows /\ \A l \in held[p] : l.row \in LockRows /\ Before(l.row, Row(p))
  BY <1>1, WaitsInLine
<1> HIDE DEF Row
<1>3. \A p, q \in S : <<p, q>> \in R <=> Row(p) = Row(q) \/ Before(Row(p), Row(q))
  OBVIOUS
<1> HIDE DEF R
<1>4. \A p, q \in S : <<p, q>> \in R \/ <<q, p>> \in R
  <2> SUFFICES ASSUME NEW p \in S, NEW q \in S PROVE <<p, q>> \in R \/ <<q, p>> \in R
    OBVIOUS
  <2>1. Row(p) \in LockRows /\ Row(q) \in LockRows
    BY <1>2
  <2>2. Row(p) = Row(q) \/ Before(Row(p), Row(q)) \/ Before(Row(q), Row(p))
    BY <2>1, RowsAreOrdered, Zenon
  <2>3. /\ <<p, q>> \in R <=> Row(p) = Row(q) \/ Before(Row(p), Row(q))
        /\ <<q, p>> \in R <=> Row(q) = Row(p) \/ Before(Row(q), Row(p))
    BY <1>3
  <2>4. QED
    BY <2>2, <2>3
<1>5. \A p, q, u \in S : <<p, q>> \in R /\ <<q, u>> \in R => <<p, u>> \in R
  BY <1>2, <1>3, RowsAreOrdered
<1>6. \E p \in S : \A q \in S : <<q, p>> \in R
  BY <1>1, <1>4, <1>5, HasLast
<1>7. PICK p \in S : \A q \in S : <<q, p>> \in R
  BY <1>6
<1>8. ASSUME NEW q \in S \ {p}, NEW l \in held[q] PROVE l.row # Row(p)
  <2>1. Before(l.row, Row(q)) /\ l.row \in LockRows /\ Row(q) \in LockRows /\ Row(p) \in LockRows
    BY <1>2
  <2>2. Row(q) = Row(p) \/ Before(Row(q), Row(p))
    BY <1>3, <1>7
  <2>3. Before(l.row, Row(p))
    BY <2>1, <2>2, RowsAreOrdered
  <2>4. QED
    BY <2>1, <2>3, RowsAreOrdered
<1>9. QED
  BY <1>8 DEF Locks!Compatible, Row

\* The requests stay in line.
LEMMA LockInvHolds == ServicesSpec => []LockInv
<1>1. ServicesInit => LockInv
  <2> SUFFICES ASSUME Locks!Init PROVE LockInv
    BY DEF ServicesInit
  <2>1. \A p \in Procs : /\ command[p] = Locks!Idle /\ held[p] = {}
                         /\ command[p].wants = <<>> /\ command[p].kind = "none"
    BY DEF Locks!Init, Locks!Idle
  <2>2. <<>> \in Seq(LockRequests) /\ Len(<<>>) = 0
    OBVIOUS
  <2>3. Lines("none", <<>>) /\ InLine("none", <<>>) = 0
    BY <2>2 DEF Lines, InLine
  <2>4. \A p \in Procs : LinedUp(p)
    BY <2>1, <2>3 DEF LinedUp
  <2>5. QED
    BY <2>2, <2>4 DEF Locks!Init, Locks!Idle, LockInv
<1>2. LockInv /\ [ServicesNext]_ServicesVars => LockInv'
  <2> SUFFICES ASSUME LockInv, [Locks!Next]_locks PROVE LockInv'
    BY LocksMove
  <2>1. CASE Locks!Next
    BY <2>1, StartLinesUp, AcquireLinesUp, EndLinesUp DEF Locks!Next
  <2>2. CASE UNCHANGED locks
    BY <2>2 DEF locks, LockInv, LinedUp, Locks!Idle
  <2>3. QED
    BY <2>1, <2>2
<1>3. QED
  BY <1>1, <1>2, PTL DEF ServicesSpec

\* Commands that wait for each other's row locks include a correction that is
\* about to name its order, however many run at once, for any orders, slots and
\* balances: all other requests are made in one order of all rows
\* (inventory/service.py, "Lock order"; record_correction).
THEOREM DeadlocksAreCorrections == ServicesSpec => []OnlyCorrectionsDeadlock
<1>1. IsFiniteSet(Procs)
  BY ServicesAssumption
<1>2. LockInv => OnlyCorrectionsDeadlock
  BY <1>1, CyclesAreBroken DEF OnlyCorrectionsDeadlock
<1>3. QED
  BY <1>2, LockInvHolds, PTL
-----------------------------------------------------------------------------
(* Documents *)

WorkSteps ==
  {"idle", "begin", "read", "extract", "store", "activating", "moved", "reject", "rejecting",
   "hook", "hook rejecting", "finishing"}

\* What a worker may do with a version that no attempt has begun to process.
EarlySteps == {"idle", "begin", "hook", "hook rejecting", "finishing"}

VersionStates == {"ABSENT", "QUARANTINE", "PROCESSING", "ACTIVE", "REJECTED", "SUPERSEDED"}

JobStates == {"NONE", "REFUSED", "READY", "LEASED", "DONE", "FAILED"}

FilePlaces == {"none", "quarantine", "store"}

\* The tables' columns, without what the rows say of each other.
DocTyped ==
  /\ status \in [Versions -> VersionStates]
  /\ number \in [Versions -> Nat]
  /\ file \in [Versions -> FilePlaces]
  /\ chunks \subseteq Versions
  /\ job \in [Versions -> JobStates]
  /\ attempt \in [Versions -> 0..MaxAttempts]
  /\ owner \in [Versions -> Workers \cup {NoWorker}]
  /\ work \in [Versions -> [Workers -> WorkSteps]]
  /\ found \in [Versions -> [Workers -> SUBSET Versions]]
  /\ hits \subseteq Versions
  /\ cited \subseteq Versions

\* One version: its row, its file, its chunks and its job.
RowOK(v) ==
  /\ status[v] = "ABSENT" <=> job[v] \in {"NONE", "REFUSED"}
  /\ status[v] = "ABSENT" => \A w \in Workers : work[v][w] = "idle"
  /\ status[v] = "ABSENT" /\ number[v] > 0 => file[v] = "quarantine"
  /\ status[v] # "ABSENT" => number[v] > 0
  /\ status[v] = "QUARANTINE" => file[v] = "quarantine" \/ job[v] = "FAILED"
  /\ status[v] \in {"ACTIVE", "SUPERSEDED"} => file[v] = "store" /\ v \in chunks
  /\ status[v] = "REJECTED" => file[v] # "quarantine"
  /\ v \in chunks => status[v] \in {"ACTIVE", "SUPERSEDED"}
  /\ v \in hits \cup cited => status[v] \in {"ACTIVE", "SUPERSEDED"}
  /\ job[v] = "FAILED" => owner[v] = NoWorker

\* Whoever processes it: one worker at most holds the row's lock, and what it
\* did to the file is there; the hook runs for a job that was given up.
WorkerOK(v, w) ==
  /\ status[v] = "QUARANTINE" => work[v][w] \in EarlySteps
  /\ work[v][w] \in {"hook", "hook rejecting"} => job[v] = "FAILED"
  /\ work[v][w] \in Processing!UnderLock =>
       /\ status[v] \in {"QUARANTINE", "PROCESSING"}
       /\ \A u \in Workers \ {w} : work[v][u] \notin Processing!UnderLock
  /\ work[v][w] \in {"activating", "moved"} => status[v] = "PROCESSING"
  /\ work[v][w] = "moved" => file[v] = "store"
  /\ work[v][w] \in {"rejecting", "hook rejecting"} => file[v] # "quarantine"

VersionOK(v) == RowOK(v) /\ \A w \in Workers : WorkerOK(v, w)

\* Numbers of committed versions differ, and every number has one below it
\* that is committed.
NumbersOK ==
  /\ \A v, x \in Versions :
       v # x /\ status[v] # "ABSENT" /\ status[x] # "ABSENT" => number[v] # number[x]
  /\ \A v \in Versions : \A n \in 1..(number[v] - 1) :
       \E x \in Versions : status[x] # "ABSENT" /\ number[x] = n

DocInv == DocTyped /\ NumbersOK /\ \A v \in Versions : VersionOK(v)

\* A step that concerns one version leaves the others as they are.
Elsewhere(v) ==
  \A x \in Versions \ {v} :
    /\ status'[x] = status[x] /\ number'[x] = number[x] /\ file'[x] = file[x]
    /\ job'[x] = job[x] /\ owner'[x] = owner[x] /\ work'[x] = work[x]
    /\ (x \in chunks') <=> (x \in chunks)
    /\ (x \in hits') => (x \in hits)
    /\ (x \in cited') => (x \in cited)

\* The versions that a step does not concern keep what holds of them.
LEMMA OthersStay ==
  ASSUME NEW v, DocInv, Elsewhere(v)
  PROVE  \A x \in Versions \ {v} : VersionOK(x)'
<1> TAKE x \in Versions \ {v}
<1>1. RowOK(x) /\ \A w \in Workers : WorkerOK(x, w)
  BY DEF DocInv, VersionOK
<1>2. RowOK(x)'
  BY <1>1 DEF Elsewhere, RowOK
<1>3. ASSUME NEW w \in Workers PROVE WorkerOK(x, w)'
  BY <1>1 DEF Elsewhere, WorkerOK
<1>4. QED
  BY <1>2, <1>3 DEF VersionOK

\* The numbers stay when no version is numbered, committed or removed.
LEMMA NumbersStay ==
  ASSUME NumbersOK, number' = number,
         \A x \in Versions : status'[x] = "ABSENT" <=> status[x] = "ABSENT"
  PROVE  NumbersOK'
BY DEF NumbersOK

\* What a worker does next, and what its transaction saw.
LEMMA Goes ==
  ASSUME DocTyped, NEW v \in Versions, NEW w \in Workers, NEW s \in WorkSteps,
         Processing!Goto(v, w, s)
  PROVE  /\ work' \in [Versions -> [Workers -> WorkSteps]]
         /\ found' \in [Versions -> [Workers -> SUBSET Versions]]
         /\ work'[v][w] = s
         /\ \A u \in Workers \ {w} : work'[v][u] = work[v][u]
         /\ \A x \in Versions \ {v} : work'[x] = work[x]
<1>1. Processing!Active \in SUBSET Versions
  BY DEF Processing!Active
<1>2. work' = [work EXCEPT ![v] = [work[v] EXCEPT ![w] = s]]
  BY DEF Processing!Goto
<1>3. PICK f \in SUBSET Versions : found' = [found EXCEPT ![v] = [found[v] EXCEPT ![w] = f]]
  <2>1. found[v][w] \in SUBSET Versions
    BY DEF DocTyped
  <2>2. found' = [found EXCEPT ![v] = [found[v] EXCEPT ![w] =
          IF s = "activating" THEN Processing!Active ELSE IF s = "moved" THEN found[v][w] ELSE {}]]
    BY DEF Processing!Goto
  <2>3. QED
    BY <1>1, <2>1, <2>2
<1>4. QED
  BY <1>2, <1>3 DEF DocTyped

\* A job that a step of processing leaves: it is one of this version, one that was
\* given up stays so, and nobody holds it.
JobMoves(v) ==
  /\ job' \in [Versions -> JobStates]
  /\ owner' \in [Versions -> Workers \cup {NoWorker}]
  /\ attempt' \in [Versions -> 0..MaxAttempts]
  /\ \A x \in Versions \ {v} : job'[x] = job[x] /\ owner'[x] = owner[x]
  /\ job'[v] \notin {"NONE", "REFUSED"}
  /\ job[v] = "FAILED" => job'[v] = "FAILED"
  /\ job'[v] = "FAILED" => owner'[v] = NoWorker

\* A version that a worker is about has a row, and one whose job waits or runs.
LEMMA Processed ==
  ASSUME DocInv, NEW v \in Versions, NEW w \in Workers, work[v][w] # "idle"
  PROVE  status[v] # "ABSENT" /\ job[v] \notin {"NONE", "REFUSED"}
BY DEF DocInv, VersionOK, RowOK

\* A step that leaves the job alone.
LEMMA JobStays ==
  ASSUME DocInv, NEW v \in Versions, job[v] \notin {"NONE", "REFUSED"},
         job' = job, attempt' = attempt, owner' = owner
  PROVE  JobMoves(v)
BY DEF DocInv, DocTyped, VersionOK, RowOK, JobMoves

\* The job after an attempt that finished, or raised.
LEMMA JobAfter ==
  ASSUME DocInv, NEW v \in Versions, NEW w \in Workers,
         Processing!Finished(v, w) \/ Processing!Raised(v, w),
         job[v] \notin {"NONE", "REFUSED"}
  PROVE  /\ JobMoves(v)
         /\ \E s \in {"idle", "hook"} :
              Processing!Goto(v, w, s) /\ (s = "hook" => job'[v] = "FAILED")
<1>0. /\ job \in [Versions -> JobStates]
      /\ owner \in [Versions -> Workers \cup {NoWorker}]
      /\ attempt \in [Versions -> 0..MaxAttempts]
      /\ job[v] = "FAILED" => owner[v] = NoWorker
      /\ NoWorker \notin Workers
  BY ServicesAssumption DEF DocInv, DocTyped, VersionOK, RowOK
<1>1. CASE Processing!Finished(v, w)
  <2>1. attempt' = attempt /\ Processing!Goto(v, w, "idle")
    BY <1>1 DEF Processing!Finished
  <2>2. \/ /\ owner[v] = w
           /\ job' = [job EXCEPT ![v] = "DONE"]
           /\ owner' = [owner EXCEPT ![v] = NoWorker]
        \/ job' = job /\ owner' = owner
    BY <1>1 DEF Processing!Finished
  <2>3. JobMoves(v)
    BY <1>0, <2>1, <2>2 DEF JobStates, JobMoves
  <2>4. QED
    BY <2>1, <2>3
<1>2. CASE Processing!Raised(v, w)
  <2>1. attempt' = attempt
    BY <1>2 DEF Processing!Raised
  <2>2. \/ /\ owner[v] = w /\ owner' = [owner EXCEPT ![v] = NoWorker]
           /\ job' = [job EXCEPT ![v] = "READY"] /\ Processing!Goto(v, w, "idle")
        \/ /\ owner[v] = w /\ owner' = [owner EXCEPT ![v] = NoWorker]
           /\ job' = [job EXCEPT ![v] = "FAILED"] /\ Processing!Goto(v, w, "hook")
        \/ job' = job /\ owner' = owner /\ Processing!Goto(v, w, "idle")
    BY <1>2 DEF Processing!Raised
  <2>3. JobMoves(v)
    BY <1>0, <2>1, <2>2 DEF JobStates, JobMoves
  <2>4. job' = [job EXCEPT ![v] = "FAILED"] => job'[v] = "FAILED"
    BY <1>0
  <2>5. \E s \in {"idle", "hook"} :
          Processing!Goto(v, w, s) /\ (s = "hook" => job'[v] = "FAILED")
    BY <2>2, <2>4
  <2>6. QED
    BY <2>3, <2>5
<1>3. QED
  BY <1>1, <1>2

\* What worker w may do next with version v, whose file then is at place.
MayGo(v, w, s, place) ==
  /\ status[v] = "QUARANTINE" => s \in EarlySteps
  /\ s \in {"hook", "hook rejecting"} => job'[v] = "FAILED"
  /\ s \in Processing!UnderLock =>
       /\ status[v] \in {"QUARANTINE", "PROCESSING"}
       /\ \A u \in Workers \ {w} : work[v][u] \notin Processing!UnderLock
  /\ s \in {"activating", "moved"} => status[v] = "PROCESSING"
  /\ s = "moved" => place = "store"
  /\ s \in {"rejecting", "hook rejecting"} => place # "quarantine"

\* The file of a version that nobody else has locked may be moved or deleted
\* before the version is settled.
FileGoes(v, w, place) ==
  /\ place # "quarantine"
  /\ status[v] = "PROCESSING" \/ (status[v] = "QUARANTINE" /\ job'[v] = "FAILED")
  /\ \A u \in Workers \ {w} : work[v][u] \notin Processing!UnderLock

\* A step of processing that changes no row of a document.
LEMMA Proceeds ==
  ASSUME DocInv, NEW v \in Versions, NEW w \in Workers, NEW s \in WorkSteps,
         NEW place \in FilePlaces,
         status' = status, number' = number, chunks' = chunks, hits' = hits, cited' = cited,
         Processing!Goto(v, w, s), file' = [file EXCEPT ![v] = place],
         status[v] # "ABSENT", JobMoves(v), MayGo(v, w, s, place),
         place = file[v] \/ FileGoes(v, w, place)
  PROVE  DocInv'
<1>0. DocTyped
  BY DEF DocInv
<1>1. /\ work' \in [Versions -> [Workers -> WorkSteps]]
      /\ found' \in [Versions -> [Workers -> SUBSET Versions]]
      /\ work'[v][w] = s
      /\ \A u \in Workers \ {w} : work'[v][u] = work[v][u]
      /\ \A x \in Versions \ {v} : work'[x] = work[x]
  BY <1>0, Goes
<1>2. /\ file' \in [Versions -> FilePlaces]
      /\ file'[v] = place /\ \A x \in Versions \ {v} : file'[x] = file[x]
  BY <1>0 DEF DocTyped
<1>3. DocTyped'
  BY <1>0, <1>1, <1>2 DEF DocTyped, JobMoves
<1>4. Elsewhere(v)
  BY <1>1, <1>2 DEF Elsewhere, JobMoves
<1>5. \A x \in Versions \ {v} : VersionOK(x)'
  BY <1>4, OthersStay
<1>6. NumbersOK'
  BY NumbersStay DEF DocInv
<1>7. RowOK(v) /\ \A u \in Workers : WorkerOK(v, u)
  BY DEF DocInv, VersionOK
<1>8. RowOK(v)'
  BY <1>2, <1>7 DEF RowOK, JobMoves, FileGoes
<1>9. WorkerOK(v, w)'
  BY <1>1, <1>2 DEF WorkerOK, MayGo
<1>10. ASSUME NEW u \in Workers \ {w} PROVE WorkerOK(v, u)'
  <2>1. work'[v][u] = work[v][u] /\ WorkerOK(v, u)
    BY <1>1, <1>7
  <2>2. work[v][u] \in Processing!UnderLock => s \notin Processing!UnderLock /\ place = file[v]
    BY DEF MayGo, FileGoes
  <2>3. job[v] = "FAILED" => job'[v] = "FAILED"
    BY DEF JobMoves
  <2>4. {"activating", "moved", "rejecting", "hook rejecting"} = Processing!UnderLock
    BY DEF Processing!UnderLock
  <2>5. QED
    BY <1>1, <1>2, <2>1, <2>2, <2>3, <2>4 DEF WorkerOK
<1>11. VersionOK(v)'
  BY <1>8, <1>9, <1>10 DEF VersionOK
<1>12. QED
  BY <1>3, <1>5, <1>6, <1>11 DEF DocInv

\* An attempt that ends, or that goes on without a lock, leaves the file.
LEMMA Leaves ==
  ASSUME DocInv, NEW v \in Versions, NEW w \in Workers,
         NEW s \in WorkSteps \ Processing!UnderLock,
         UNCHANGED <<status, number, chunks, file, hits, cited>>,
         Processing!Goto(v, w, s), JobMoves(v), status[v] # "ABSENT",
         s \in EarlySteps \/ work[v][w] \notin EarlySteps,
         s = "hook" => job'[v] = "FAILED"
  PROVE  DocInv'
<1>1. DocTyped
  BY DEF DocInv
<1>2. file[v] \in FilePlaces /\ file' = [file EXCEPT ![v] = file[v]]
  BY <1>1 DEF DocTyped
<1>3. WorkerOK(v, w)
  BY DEF DocInv, VersionOK
<1>4. MayGo(v, w, s, file[v])
  BY <1>3 DEF MayGo, WorkerOK, Processing!UnderLock
<1>5. s \in WorkSteps
  OBVIOUS
<1>6. QED
  BY <1>2, <1>4, <1>5, Proceeds

\* A claim, or the exhaustion hook in its place.
LEMMA ClaimKeepsDocs ==
  ASSUME DocInv, NEW v \in Versions, NEW w \in Workers, Processing!Claim(v, w)
  PROVE  DocInv'
<1>0. DocTyped /\ MaxAttempts \in Nat
  BY ServicesAssumption DEF DocInv
<1>1. /\ UNCHANGED <<status, number, chunks, file, hits, cited>>
      /\ job[v] = "READY" /\ work[v][w] = "idle"
  BY DEF Processing!Claim, Processing!rows, Processing!citations
<1>2. PICK s \in {"begin", "hook"} :
        /\ Processing!Goto(v, w, s)
        /\ s = "hook" => job' = [job EXCEPT ![v] = "FAILED"]
  BY DEF Processing!Claim
<1>3. JobMoves(v)
  <2>1. CASE attempt[v] < MaxAttempts
    <3>1. attempt[v] + 1 \in 0..MaxAttempts
      BY <1>0, <2>1 DEF DocTyped
    <3>2. /\ attempt' = [attempt EXCEPT ![v] = attempt[v] + 1]
          /\ job' = [job EXCEPT ![v] = "LEASED"] /\ owner' = [owner EXCEPT ![v] = w]
      BY <2>1 DEF Processing!Claim
    <3> DEFINE next == attempt[v] + 1
    <3> HIDE DEF next
    <3>3. QED
      BY <1>0, <1>1, <3>1, <3>2 DEF DocTyped, JobStates, JobMoves, next
  <2>2. CASE ~(attempt[v] < MaxAttempts)
    BY <1>0, <1>1, <2>2 DEF Processing!Claim, DocTyped, JobStates, JobMoves
  <2>3. QED
    BY <2>1, <2>2
<1>4. status[v] # "ABSENT"
  BY <1>1 DEF DocInv, VersionOK, RowOK
<1>5. s \in WorkSteps \ Processing!UnderLock /\ s \in EarlySteps
  BY DEF WorkSteps, EarlySteps, Processing!UnderLock
<1>6. s = "hook" => job'[v] = "FAILED"
  BY <1>0, <1>2 DEF DocTyped
<1>7. QED
  BY <1>1, <1>2, <1>3, <1>4, <1>5, <1>6, Leaves

\* The lease runs out.
LEMMA ExpiryKeepsDocs ==
  ASSUME DocInv, NEW v \in Versions, Processing!LeaseExpires(v)
  PROVE  DocInv'
<1>0. DocTyped
  BY DEF DocInv
<1>1. /\ UNCHANGED <<status, number, chunks, file, attempt, work, found, hits, cited>>
      /\ job[v] = "LEASED" /\ job' = [job EXCEPT ![v] = "READY"]
      /\ owner' = [owner EXCEPT ![v] = NoWorker]
  BY DEF Processing!LeaseExpires, Processing!rows, Processing!citations
<1>2. DocTyped'
  BY <1>0, <1>1 DEF DocTyped, JobStates
<1>3. Elsewhere(v) /\ job'[v] = "READY"
  BY <1>0, <1>1 DEF Elsewhere, DocTyped
<1>4. NumbersOK' /\ \A x \in Versions \ {v} : VersionOK(x)'
  BY <1>1, <1>3, NumbersStay, OthersStay DEF DocInv
<1>5. VersionOK(v)
  BY DEF DocInv
<1>6. VersionOK(v)'
  BY <1>1, <1>3, <1>5 DEF VersionOK, RowOK, WorkerOK
<1>7. QED
  BY <1>2, <1>4, <1>6 DEF DocInv

\* A crash: what the transaction did is undone, but for what it did to the file.
LEMMA CrashKeepsDocs ==
  ASSUME DocInv, NEW v \in Versions, NEW w \in Workers, Processing!Crash(v, w)
  PROVE  DocInv'
<1>1. /\ UNCHANGED <<status, number, chunks, file, job, attempt, owner, hits, cited>>
      /\ work[v][w] # "idle" /\ Processing!Goto(v, w, "idle")
  BY DEF Processing!Crash, Processing!rows, Processing!lease, Processing!citations
<1>2. status[v] # "ABSENT" /\ JobMoves(v)
  BY <1>1, Processed, JobStays
<1>3. "idle" \in WorkSteps \ Processing!UnderLock /\ "idle" \in EarlySteps
  BY DEF WorkSteps, EarlySteps, Processing!UnderLock
<1>4. QED
  BY <1>1, <1>2, <1>3, Leaves

\* A step of processing without a lock, or one that ends the attempt.
LEMMA WorkKeepsDocs ==
  ASSUME DocInv, NEW v \in Versions, NEW w \in Workers,
         \/ Processing!Read(v, w) \/ Processing!Extract(v, w) \/ Processing!ActivateFails(v, w)
         \/ Processing!RejectFails(v, w) \/ Processing!Finish(v, w)
  PROVE  DocInv' /\ status' = status
<1>1. /\ UNCHANGED <<status, number, chunks, file, hits, cited>>
      /\ work[v][w] # "idle"
  BY DEF Processing!Read, Processing!Extract, Processing!ActivateFails, Processing!RejectFails,
         Processing!Finish, Processing!rows, Processing!citations
<1>2. status[v] # "ABSENT" /\ job[v] \notin {"NONE", "REFUSED"}
  BY <1>1, Processed
<1>3. \/ Processing!Finished(v, w) \/ Processing!Raised(v, w)
      \/ Processing!Goto(v, w, "idle") /\ UNCHANGED <<job, attempt, owner>>
      \/ /\ work[v][w] \in {"read", "extract"} /\ UNCHANGED <<job, attempt, owner>>
         /\ \E s \in {"extract", "store", "reject"} : Processing!Goto(v, w, s)
  BY DEF Processing!Read, Processing!Extract, Processing!ActivateFails, Processing!RejectFails,
         Processing!Finish, Processing!lease
<1>4. {"idle", "hook", "extract", "store", "reject"} \subseteq WorkSteps \ Processing!UnderLock
  BY DEF WorkSteps, Processing!UnderLock
<1>5. {"idle", "hook"} \subseteq EarlySteps /\ {"read", "extract"} \cap EarlySteps = {}
  BY DEF EarlySteps
<1>6. CASE Processing!Finished(v, w) \/ Processing!Raised(v, w)
  <2>1. PICK s \in {"idle", "hook"} :
          JobMoves(v) /\ Processing!Goto(v, w, s) /\ (s = "hook" => job'[v] = "FAILED")
    BY <1>2, <1>6, JobAfter
  <2>2. s \in WorkSteps \ Processing!UnderLock /\ s \in EarlySteps
    BY <1>4, <1>5
  <2>3. QED
    BY <1>1, <1>2, <2>1, <2>2, Leaves
<1>7. CASE Processing!Goto(v, w, "idle") /\ UNCHANGED <<job, attempt, owner>>
  <2>1. JobMoves(v) /\ "idle" \in WorkSteps \ Processing!UnderLock /\ "idle" \in EarlySteps
    BY <1>2, <1>4, <1>5, <1>7, JobStays
  <2>2. QED
    BY <1>1, <1>2, <1>7, <2>1, Leaves
<1>8. CASE /\ work[v][w] \in {"read", "extract"} /\ UNCHANGED <<job, attempt, owner>>
           /\ \E s \in {"extract", "store", "reject"} : Processing!Goto(v, w, s)
  <2>1. PICK s \in {"extract", "store", "reject"} : Processing!Goto(v, w, s)
    BY <1>8
  <2>2. s \in WorkSteps \ Processing!UnderLock /\ s # "hook" /\ work[v][w] \notin EarlySteps
    BY <1>4, <1>5, <1>8
  <2>3. JobMoves(v)
    BY <1>2, <1>8, JobStays
  <2>4. QED
    BY <1>1, <1>2, <2>1, <2>2, <2>3, Leaves
<1>9. QED
  BY <1>3, <1>6, <1>7, <1>8

\* The second transaction begins on a version that nobody has locked, and moves
\* the file.
LEMMA StoreKeepsDocs ==
  ASSUME DocInv, NEW v \in Versions, NEW w \in Workers,
         Processing!Store(v, w) \/ Processing!Move(v, w)
  PROVE  DocInv' /\ status' = status
<1>0. DocTyped /\ RowOK(v) /\ WorkerOK(v, w)
  BY DEF DocInv, VersionOK
<1>1. /\ UNCHANGED <<status, number, chunks, job, attempt, owner, hits, cited>>
      /\ work[v][w] \in {"store", "activating"}
  BY DEF Processing!Store, Processing!Move, Processing!rows, Processing!lease,
         Processing!citations
<1>2. status[v] # "ABSENT" /\ JobMoves(v)
  BY <1>1, Processed, JobStays
<1>3. CASE Processing!Store(v, w)
  <2>1. /\ file' = file /\ \A u \in Workers : work[v][u] \notin Processing!UnderLock
        /\ Processing!Goto(v, w, IF status[v] = "PROCESSING" THEN "activating" ELSE "finishing")
    BY <1>3 DEF Processing!Store, Processing!Locked
  <2>2. PICK s \in {"activating", "finishing"} :
          Processing!Goto(v, w, s) /\ (s = "activating" => status[v] = "PROCESSING")
    BY <2>1
  <2>3. s \in WorkSteps /\ file[v] \in FilePlaces /\ file' = [file EXCEPT ![v] = file[v]]
    BY <1>0, <2>1 DEF WorkSteps, DocTyped
  <2>4. MayGo(v, w, s, file[v])
    BY <2>1, <2>2 DEF MayGo, Processing!UnderLock, EarlySteps
  <2>5. QED
    BY <1>1, <1>2, <2>2, <2>3, <2>4, Proceeds
<1>4. CASE Processing!Move(v, w)
  <2>1. /\ file' = [file EXCEPT ![v] = "store"] /\ Processing!Goto(v, w, "moved")
        /\ work[v][w] = "activating"
    BY <1>4 DEF Processing!Move
  <2>2. /\ status[v] = "PROCESSING"
        /\ \A u \in Workers \ {w} : work[v][u] \notin Processing!UnderLock
    BY <1>0, <2>1 DEF WorkerOK, Processing!UnderLock
  <2>3. "moved" \in WorkSteps /\ "store" \in FilePlaces
    BY DEF WorkSteps, FilePlaces
  <2>4. MayGo(v, w, "moved", "store") /\ FileGoes(v, w, "store")
    BY <2>2 DEF MayGo, FileGoes
  <2>5. QED
    BY <1>1, <1>2, <2>1, <2>3, <2>4, Proceeds
<1>5. QED
  BY <1>1, <1>3, <1>4

\* A rejection deletes the file of a version that nobody has locked, unless the
\* version is settled.
LEMMA RejectKeepsDocs ==
  ASSUME DocInv, NEW v \in Versions, NEW w \in Workers, Processing!Reject(v, w)
  PROVE  DocInv' /\ status' = status
<1>0. DocTyped /\ RowOK(v) /\ WorkerOK(v, w)
  BY DEF DocInv, VersionOK
<1>1. /\ UNCHANGED <<status, number, chunks, job, attempt, owner, hits, cited>>
      /\ work[v][w] \in {"reject", "hook"}
      /\ \A u \in Workers : work[v][u] \notin Processing!UnderLock
  BY DEF Processing!Reject, Processing!Locked, Processing!rows, Processing!lease,
         Processing!citations
<1>2. status[v] # "ABSENT" /\ JobMoves(v) /\ job' = job
  BY <1>1, Processed, JobStays
<1>3. file[v] \in FilePlaces
  BY <1>0 DEF DocTyped
<1>4. CASE status[v] \in Processing!Terminal
  <2>1. PICK s \in {"finishing", "idle"} : Processing!Goto(v, w, s) /\ file' = file
    BY <1>4 DEF Processing!Reject, Processing!Afterwards
  <2>2. s \in WorkSteps /\ file' = [file EXCEPT ![v] = file[v]]
    BY <1>0, <2>1 DEF WorkSteps, DocTyped
  <2>3. MayGo(v, w, s, file[v])
    BY <1>1 DEF MayGo, Processing!UnderLock, EarlySteps
  <2>4. QED
    BY <1>1, <1>2, <1>3, <2>1, <2>2, <2>3, Proceeds
<1>5. CASE status[v] \notin Processing!Terminal
  <2> DEFINE place == IF file[v] = "quarantine" THEN "none" ELSE file[v]
             s == IF work[v][w] = "reject" THEN "rejecting" ELSE "hook rejecting"
  <2>1. Processing!Goto(v, w, s) /\ file' = [file EXCEPT ![v] = place]
    BY <1>5 DEF Processing!Reject, Processing!Rejecting
  <2>2. s \in WorkSteps /\ place \in FilePlaces /\ place # "quarantine"
    BY <1>3 DEF WorkSteps, FilePlaces
  <2>3. status[v] \in {"QUARANTINE", "PROCESSING"}
    BY <1>0, <1>2, <1>5 DEF DocTyped, VersionStates, Processing!Terminal
  <2>4. status[v] = "QUARANTINE" => s = "hook rejecting"
    BY <1>0, <1>1 DEF WorkerOK, EarlySteps
  <2>5. s = "hook rejecting" => job'[v] = "FAILED"
    BY <1>0, <1>1, <1>2 DEF WorkerOK
  <2> HIDE DEF place, s
  <2>6. MayGo(v, w, s, place)
    BY <1>1, <2>2, <2>3, <2>4, <2>5 DEF MayGo, EarlySteps, s
  <2>7. FileGoes(v, w, place)
    BY <1>1, <2>2, <2>3, <2>4, <2>5 DEF FileGoes
  <2>8. QED
    BY <1>1, <1>2, <2>1, <2>2, <2>6, <2>7, Proceeds
<1>6. QED
  BY <1>1, <1>4, <1>5

\* A step that gives a version another state, but none that is served, while
\* nobody else has it locked.
LEMMA SettleKeeps ==
  ASSUME DocInv, NEW v \in Versions, NEW w \in Workers, NEW s \in WorkSteps \ Processing!UnderLock,
         NEW next \in {"PROCESSING", "REJECTED"},
         UNCHANGED <<number, file, chunks, job, attempt, owner, hits, cited>>,
         status' = [status EXCEPT ![v] = next], Processing!Goto(v, w, s), s # "hook",
         work[v][w] # "idle", status[v] \in {"QUARANTINE", "PROCESSING"},
         \A u \in Workers \ {w} : work[v][u] \notin Processing!UnderLock,
         next = "REJECTED" => file[v] # "quarantine"
  PROVE  DocInv'
<1>0. DocTyped /\ s \in WorkSteps
  BY DEF DocInv
<1>1. /\ work' \in [Versions -> [Workers -> WorkSteps]]
      /\ found' \in [Versions -> [Workers -> SUBSET Versions]]
      /\ work'[v][w] = s
      /\ \A u \in Workers \ {w} : work'[v][u] = work[v][u]
      /\ \A x \in Versions \ {v} : work'[x] = work[x]
  BY <1>0, Goes
<1>2. /\ status' \in [Versions -> VersionStates]
      /\ status'[v] = next /\ \A x \in Versions \ {v} : status'[x] = status[x]
  BY <1>0 DEF DocTyped, VersionStates
<1>3. DocTyped'
  BY <1>0, <1>1, <1>2 DEF DocTyped
<1>4. Elsewhere(v)
  BY <1>1, <1>2 DEF Elsewhere
<1>5. \A x \in Versions \ {v} : VersionOK(x)'
  BY <1>4, OthersStay
<1>6. NumbersOK'
  <2>1. \A x \in Versions : status'[x] = "ABSENT" <=> status[x] = "ABSENT"
    BY <1>2
  <2>2. QED
    BY <2>1, NumbersStay DEF DocInv
<1>7. RowOK(v) /\ \A u \in Workers : WorkerOK(v, u)
  BY DEF DocInv, VersionOK
<1>8. status[v] # "ABSENT"
  OBVIOUS
<1>9. RowOK(v)'
  BY <1>2, <1>7, <1>8 DEF RowOK
<1>10. ASSUME NEW u \in Workers PROVE WorkerOK(v, u)'
  <2>1. work'[v][u] \notin Processing!UnderLock
    BY <1>1
  <2>2. work'[v][u] \in {"hook", "hook rejecting"} => job[v] = "FAILED"
    <3>1. work'[v][w] \notin {"hook", "hook rejecting"}
      BY <1>1 DEF Processing!UnderLock
    <3>2. QED
      BY <1>1, <1>7, <3>1 DEF WorkerOK
  <2>3. QED
    BY <1>2, <2>1, <2>2 DEF WorkerOK, Processing!UnderLock
<1>11. QED
  BY <1>3, <1>5, <1>6, <1>9, <1>10 DEF DocInv, VersionOK

\* The first transaction.
LEMMA BeginKeepsDocs ==
  ASSUME DocInv, NEW v \in Versions, NEW w \in Workers, Processing!Begin(v, w)
  PROVE  DocInv' /\ (status' = status \/ (/\ status[v] \notin Processing!Terminal
                                          /\ \A x \in Versions \ {v} : status'[x] = status[x]))
<1>0. DocTyped
  BY DEF DocInv
<1>1. /\ UNCHANGED <<number, chunks, file, job, attempt, owner, hits, cited>>
      /\ work[v][w] = "begin" /\ \A u \in Workers : work[v][u] \notin Processing!UnderLock
  BY DEF Processing!Begin, Processing!Locked, Processing!lease, Processing!citations
<1>2. status[v] # "ABSENT" /\ JobMoves(v)
  BY <1>1, Processed, JobStays
<1>3. {"finishing", "read"} \subseteq WorkSteps \ Processing!UnderLock
  BY DEF WorkSteps, Processing!UnderLock
<1>4. CASE status[v] \in Processing!Terminal
  <2>1. status' = status /\ Processing!Goto(v, w, "finishing") /\ "finishing" \in EarlySteps
    BY <1>4 DEF Processing!Begin, EarlySteps
  <2>2. QED
    BY <1>1, <1>2, <1>3, <2>1, Leaves
<1>5. CASE status[v] \notin Processing!Terminal
  <2>1. status' = [status EXCEPT ![v] = "PROCESSING"] /\ Processing!Goto(v, w, "read")
    BY <1>5 DEF Processing!Begin
  <2>2. status[v] \in {"QUARANTINE", "PROCESSING"}
    BY <1>0, <1>2, <1>5 DEF DocTyped, VersionStates, Processing!Terminal
  <2>3. DocInv'
    BY <1>1, <1>3, <2>1, <2>2, SettleKeeps
  <2>4. \A x \in Versions \ {v} : status'[x] = status[x]
    BY <1>0, <2>1 DEF DocTyped
  <2>5. QED
    BY <1>5, <2>3, <2>4
<1>6. QED
  BY <1>4, <1>5

\* A rejection commits.
LEMMA CommitRejectKeepsDocs ==
  ASSUME DocInv, NEW v \in Versions, NEW w \in Workers, Processing!CommitReject(v, w)
  PROVE  /\ DocInv'
         /\ status[v] \notin Processing!Terminal
         /\ \A x \in Versions \ {v} : status'[x] = status[x]
<1>0. DocTyped /\ WorkerOK(v, w)
  BY DEF DocInv, VersionOK
<1>1. /\ UNCHANGED <<number, chunks, file, job, attempt, owner, hits, cited>>
      /\ work[v][w] \in {"rejecting", "hook rejecting"}
      /\ status' = [status EXCEPT ![v] = "REJECTED"]
      /\ Processing!Goto(v, w, Processing!Afterwards(v, w))
  BY DEF Processing!CommitReject, Processing!lease, Processing!citations
<1>2. PICK s \in {"finishing", "idle"} : Processing!Goto(v, w, s)
  BY <1>1 DEF Processing!Afterwards
<1>3. s \in WorkSteps \ Processing!UnderLock /\ s # "hook"
  BY DEF WorkSteps, Processing!UnderLock
<1>4. /\ status[v] \in {"QUARANTINE", "PROCESSING"} /\ file[v] # "quarantine"
      /\ \A u \in Workers \ {w} : work[v][u] \notin Processing!UnderLock
  BY <1>0, <1>1 DEF WorkerOK, Processing!UnderLock
<1>5. DocInv'
  BY <1>1, <1>2, <1>3, <1>4, SettleKeeps
<1>6. status[v] \notin Processing!Terminal /\ \A x \in Versions \ {v} : status'[x] = status[x]
  BY <1>0, <1>1, <1>4 DEF DocTyped, Processing!Terminal
<1>7. QED
  BY <1>5, <1>6

\* An activation, which supersedes at most one version that was ACTIVE.
LEMMA ActivateKeepsDocs ==
  ASSUME DocInv, NEW v \in Versions, NEW w \in Workers, Processing!Activate(v, w)
  PROVE  /\ DocInv'
         /\ status[v] = "PROCESSING" /\ status'[v] = "ACTIVE"
         /\ \A x \in Versions \ {v} :
              \/ status'[x] = status[x]
              \/ status[x] = "ACTIVE" /\ status'[x] = "SUPERSEDED"
<1>0. DocTyped /\ RowOK(v) /\ \A u \in Workers : WorkerOK(v, u)
  BY DEF DocInv, VersionOK
<1>1. /\ UNCHANGED <<number, file, job, attempt, owner, hits, cited>>
      /\ work[v][w] = "moved" /\ chunks' = chunks \cup {v} /\ Processing!Goto(v, w, "finishing")
  BY DEF Processing!Activate, Processing!lease, Processing!citations
<1>2. /\ status[v] = "PROCESSING" /\ file[v] = "store"
      /\ \A u \in Workers \ {w} : work[v][u] \notin Processing!UnderLock
  BY <1>0, <1>1 DEF WorkerOK, Processing!UnderLock
<1>3. PICK old \in SUBSET Processing!Active : status' = Processing!StatusesAfter(v, old)
  BY DEF Processing!Activate, Processing!Previous
<1>4. /\ status'[v] = "ACTIVE"
      /\ \A x \in Versions \ {v} :
           \/ status'[x] = status[x]
           \/ status[x] = "ACTIVE" /\ status'[x] = "SUPERSEDED"
      /\ status' \in [Versions -> VersionStates]
  BY <1>0, <1>3 DEF Processing!StatusesAfter, Processing!Active, DocTyped, VersionStates
<1>5. /\ work' \in [Versions -> [Workers -> WorkSteps]]
      /\ found' \in [Versions -> [Workers -> SUBSET Versions]]
      /\ work'[v][w] = "finishing"
      /\ \A u \in Workers \ {w} : work'[v][u] = work[v][u]
      /\ \A x \in Versions \ {v} : work'[x] = work[x]
  <2>1. "finishing" \in WorkSteps
    BY DEF WorkSteps
  <2>2. QED
    BY <1>0, <1>1, <2>1, Goes
<1>6. DocTyped'
  BY <1>0, <1>1, <1>4, <1>5 DEF DocTyped
<1>7. \A x \in Versions : status'[x] = "ABSENT" <=> status[x] = "ABSENT"
  BY <1>2, <1>4
<1>8. NumbersOK'
  BY <1>1, <1>7, NumbersStay DEF DocInv
<1>9. ASSUME NEW x \in Versions \ {v} PROVE VersionOK(x)'
  <2>1. RowOK(x) /\ \A u \in Workers : WorkerOK(x, u)
    BY DEF DocInv, VersionOK
  <2>2. (x \in chunks') <=> (x \in chunks)
    BY <1>1
  <2>3. work'[x] = work[x]
    BY <1>5
  <2>4. status'[x] = status[x] \/ (status[x] = "ACTIVE" /\ status'[x] = "SUPERSEDED")
    BY <1>4
  <2>5. RowOK(x)'
    BY <1>1, <2>1, <2>2, <2>3, <2>4 DEF RowOK
  <2>6. ASSUME NEW u \in Workers PROVE WorkerOK(x, u)'
    BY <1>1, <2>1, <2>3, <2>4 DEF WorkerOK
  <2>7. QED
    BY <2>5, <2>6 DEF VersionOK
<1>10. RowOK(v)'
  <2>1. v \in chunks'
    BY <1>1
  <2>2. QED
    BY <1>0, <1>1, <1>2, <1>4, <2>1 DEF RowOK
<1>11. ASSUME NEW u \in Workers PROVE WorkerOK(v, u)'
  <2>1. work'[v][u] \notin Processing!UnderLock
    BY <1>2, <1>5 DEF Processing!UnderLock
  <2>2. work'[v][u] = "hook" => job[v] = "FAILED"
    BY <1>0, <1>5 DEF WorkerOK
  <2>3. QED
    BY <1>1, <1>4, <2>1, <2>2 DEF WorkerOK, Processing!UnderLock
<1>12. DocInv'
  BY <1>6, <1>8, <1>9, <1>10, <1>11 DEF DocInv, VersionOK
<1>13. QED
  BY <1>2, <1>4, <1>12

\* The largest committed number, and no more numbers than committed versions.
LEMMA NextNumber ==
  ASSUME DocInv, NEW v \in Versions, number[v] = 0
  PROVE  LET top == Processing!Max({0} \cup {number[x] : x \in Processing!Committed})
         IN  /\ top \in Nat
             /\ top = 0 \/ \E x \in Versions : status[x] # "ABSENT" /\ number[x] = top
             /\ \A x \in Versions : status[x] # "ABSENT" => number[x] <= top
<1> DEFINE C == Processing!Committed
           N == {0} \cup {number[x] : x \in C}
<1>1. C \subseteq Versions /\ \A x \in Versions : x \in C <=> status[x] # "ABSENT"
  BY DEF Processing!Committed
<1>2. IsFiniteSet(C)
  BY <1>1, ServicesAssumption, FS_Subset
<1>3. number \in [Versions -> Nat]
  BY DEF DocInv, DocTyped
<1> HIDE DEF C
<1>4. IsFiniteSet({number[x] : x \in C})
  <2> DEFINE f == [x \in C |-> number[x]]
             T == {number[x] : x \in C}
  <2>1. f \in Surjection(C, T)
    BY DEF Surjection
  <2>2. QED
    BY <1>2, <2>1, FS_Surjection
<1>5. IsFiniteSet(N)
  BY <1>4, FS_Singleton, FS_Union
<1>6. N \subseteq Nat /\ N # {}
  BY <1>1, <1>3
<1>7. \A x \in C : number[x] \in N
  OBVIOUS
<1>8. \A n \in N : n = 0 \/ \E x \in C : number[x] = n
  OBVIOUS
<1> DEFINE top == Processing!Max(N)
<1>9. top \in N /\ \A n \in N : n <= top
  <2>1. top = CHOOSE m \in N : \A n \in N : m >= n
    BY DEF Processing!Max
  <2> HIDE DEF N, top
  <2>2. N \subseteq Int
    BY <1>6
  <2>3. PICK m \in N : \A n \in N : n <= m
    BY <1>5, <1>6, <2>2, HasLargest
  <2>4. \A n \in N : m >= n
    BY <2>2, <2>3
  <2>5. top \in N /\ \A n \in N : top >= n
    BY <2>1, <2>4
  <2>6. QED
    BY <2>2, <2>5
<1> HIDE DEF N, top
<1>10. /\ top \in Nat
       /\ top = 0 \/ \E x \in Versions : status[x] # "ABSENT" /\ number[x] = top
       /\ \A x \in Versions : status[x] # "ABSENT" => number[x] <= top
  BY <1>1, <1>6, <1>7, <1>8, <1>9
<1>11. QED
  BY <1>10 DEF top, N, C

\* An upload takes the next number and writes its file.
LEMMA UploadKeepsDocs ==
  ASSUME DocInv, NEW v \in Versions, Processing!Upload(v)
  PROVE  DocInv'
<1> DEFINE top == Processing!Max({0} \cup {number[x] : x \in Processing!Committed})
<1>0. DocTyped
  BY DEF DocInv
<1>1. /\ number[v] = 0 /\ number' = [number EXCEPT ![v] = 1 + top]
      /\ file' = [file EXCEPT ![v] = "quarantine"]
      /\ UNCHANGED <<status, chunks, job, attempt, owner, work, found, hits, cited>>
  BY DEF Processing!Upload, Processing!lease, Processing!citations
<1>2. /\ top \in Nat
      /\ top = 0 \/ \E x \in Versions : status[x] # "ABSENT" /\ number[x] = top
      /\ \A x \in Versions : status[x] # "ABSENT" => number[x] <= top
  BY <1>1, NextNumber
<1> HIDE DEF top
<1>3. number \in [Versions -> Nat]
  BY <1>0 DEF DocTyped
<1>4. number'[v] = 1 + top /\ \A x \in Versions \ {v} : number'[x] = number[x]
  BY <1>1, <1>3
<1>5. DocTyped'
  BY <1>0, <1>1, <1>2 DEF DocTyped, FilePlaces
<1>6. Elsewhere(v)
  BY <1>0, <1>1, <1>4 DEF Elsewhere, DocTyped
<1>7. \A x \in Versions \ {v} : VersionOK(x)'
  BY <1>6, OthersStay
<1>8. status[v] = "ABSENT"
  BY <1>1, <1>3 DEF DocInv, VersionOK, RowOK
<1>9. VersionOK(v)'
  <2>1. VersionOK(v)
    BY DEF DocInv
  <2>2. file'[v] = "quarantine"
    BY <1>0, <1>1 DEF DocTyped
  <2>3. QED
    BY <1>1, <1>8, <2>1, <2>2 DEF VersionOK, RowOK, WorkerOK
<1>10. NumbersOK'
  <2>1. \A x, y \in Versions :
          x # y /\ status'[x] # "ABSENT" /\ status'[y] # "ABSENT" => number'[x] # number'[y]
    BY <1>1, <1>4, <1>8 DEF DocInv, NumbersOK
  <2>2. ASSUME NEW x \in Versions, NEW n \in 1..(number'[x] - 1)
        PROVE  \E y \in Versions : status'[y] # "ABSENT" /\ number'[y] = n
    <3>1. \E y \in Versions : status[y] # "ABSENT" /\ number[y] = n
      <4>1. CASE x # v
        <5>1. n \in 1..(number[x] - 1)
          BY <1>4, <4>1
        <5>2. QED
          BY <5>1 DEF DocInv, NumbersOK
      <4>2. CASE x = v
        <5>1. n \in 1..top
          BY <1>2, <1>4, <4>2
        <5>2. PICK z \in Versions : status[z] # "ABSENT" /\ number[z] = top
          BY <1>2, <5>1
        <5>3. n = top \/ n \in 1..(number[z] - 1)
          BY <1>2, <5>1, <5>2
        <5>4. QED
          BY <5>2, <5>3 DEF DocInv, NumbersOK
      <4>3. QED
        BY <4>1, <4>2
    <3>2. PICK y \in Versions : status[y] # "ABSENT" /\ number[y] = n
      BY <3>1
    <3>3. status'[y] # "ABSENT" /\ number'[y] = n
      BY <1>1, <1>4, <1>8, <3>2
    <3>4. QED
      BY <3>3
  <2>3. QED
    BY <2>1, <2>2 DEF NumbersOK
<1>11. QED
  BY <1>5, <1>7, <1>9, <1>10 DEF DocInv

\* An upload commits, or is refused because its number was taken.
LEMMA CommitKeepsDocs ==
  ASSUME DocInv, NEW v \in Versions, Processing!CommitUpload(v)
  PROVE  /\ DocInv'
         /\ status[v] = "ABSENT" /\ \A x \in Versions \ {v} : status'[x] = status[x]
<1>0. DocTyped
  BY DEF DocInv
<1>1. /\ number[v] > 0 /\ job[v] = "NONE"
      /\ UNCHANGED <<number, file, chunks, attempt, owner, work, found, hits, cited>>
  BY DEF Processing!CommitUpload, Processing!citations
<1>2. VersionOK(v) /\ status[v] = "ABSENT"
  BY <1>1 DEF DocInv, VersionOK, RowOK
<1>3. \/ job' = [job EXCEPT ![v] = "REFUSED"] /\ status' = status
      \/ /\ \A x \in Versions : status[x] # "ABSENT" => number[x] # number[v]
         /\ job' = [job EXCEPT ![v] = "READY"] /\ status' = [status EXCEPT ![v] = "QUARANTINE"]
  BY DEF Processing!CommitUpload, Processing!Committed, Processing!Enqueued
<1>4. /\ job' \in [Versions -> JobStates] /\ status' \in [Versions -> VersionStates]
      /\ \A x \in Versions \ {v} : job'[x] = job[x] /\ status'[x] = status[x]
      /\ \/ job'[v] = "REFUSED" /\ status'[v] = "ABSENT"
         \/ /\ \A x \in Versions : status[x] # "ABSENT" => number[x] # number[v]
            /\ job'[v] = "READY" /\ status'[v] = "QUARANTINE"
  BY <1>0, <1>2, <1>3 DEF DocTyped, JobStates, VersionStates
<1>5. DocTyped'
  BY <1>0, <1>1, <1>4 DEF DocTyped
<1>6. Elsewhere(v)
  BY <1>1, <1>4 DEF Elsewhere
<1>7. \A x \in Versions \ {v} : VersionOK(x)'
  BY <1>6, OthersStay
<1>8. VersionOK(v)'
  <2>1. \A w \in Workers : work[v][w] = "idle"
    BY <1>2 DEF VersionOK, RowOK
  <2>2. RowOK(v)'
    BY <1>1, <1>2, <1>4 DEF VersionOK, RowOK
  <2>3. \A w \in Workers : WorkerOK(v, w)'
    BY <1>1, <2>1 DEF WorkerOK, EarlySteps, Processing!UnderLock
  <2>4. QED
    BY <2>2, <2>3 DEF VersionOK
<1>9. NumbersOK'
  BY <1>1, <1>2, <1>4 DEF DocInv, NumbersOK
<1>10. QED
  BY <1>2, <1>4, <1>5, <1>7, <1>8, <1>9 DEF DocInv

\* A search, or a result that is stored or refused.
LEMMA CitationKeepsDocs ==
  ASSUME DocInv, Processing!StoreResult \/ \E v \in Versions : Processing!Search(v)
  PROVE  DocInv'
<1>0. DocTyped
  BY DEF DocInv
<1>1. /\ UNCHANGED <<status, number, chunks, file, job, attempt, owner, work, found>>
      /\ hits' \subseteq Versions /\ cited' \subseteq Versions
      /\ \A v \in hits' \cup cited' : v \in hits \cup cited \/ status[v] = "ACTIVE"
  BY <1>0 DEF Processing!StoreResult, Processing!Search, Processing!Active, Processing!rows,
              Processing!lease, DocTyped
<1>2. DocTyped' /\ NumbersOK'
  BY <1>0, <1>1, NumbersStay DEF DocTyped, DocInv
<1>3. ASSUME NEW v \in Versions PROVE VersionOK(v)'
  <2>1. RowOK(v) /\ \A w \in Workers : WorkerOK(v, w)
    BY DEF DocInv, VersionOK
  <2>2. RowOK(v)'
    BY <1>1, <2>1 DEF RowOK
  <2>3. \A w \in Workers : WorkerOK(v, w)'
    BY <1>1, <2>1 DEF WorkerOK
  <2>4. QED
    BY <2>2, <2>3 DEF VersionOK
<1>4. QED
  BY <1>2, <1>3 DEF DocInv

\* There are no more numbers than versions.
LEMMA NumbersFit ==
  ASSUME DocInv, NEW v \in Versions
  PROVE  number[v] \in 0..Processing!Cardinality(Versions)
<1> DEFINE n == number[v]
           D == {x \in Versions \ {v} : number[x] \in 1..(n - 1)}
           f == [x \in D |-> number[x]]
<1>1. n \in Nat /\ IsFiniteSet(Versions)
  BY ServicesAssumption DEF DocInv, DocTyped
<1>2. Processing!Cardinality(Versions) = Cardinality(Versions)
  BY DEF Processing!Cardinality, Cardinality
<1>3. Cardinality(Versions) \in Nat
  BY <1>1, FS_CardinalityType
<1>4. IsFiniteSet(Versions \ {v}) /\ Cardinality(Versions \ {v}) = Cardinality(Versions) - 1
  BY <1>1, FS_RemoveElement
<1>5. CASE n >= 1
  <2>1. f \in [D -> 1..(n - 1)]
    OBVIOUS
  <2>2. \A k \in 1..(n - 1) : \E x \in D : f[x] = k
    <3> TAKE k \in 1..(n - 1)
    <3>1. PICK x \in Versions : status[x] # "ABSENT" /\ number[x] = k
      BY DEF DocInv, NumbersOK
    <3>2. x # v
      BY <1>1, <3>1
    <3>3. x \in D /\ f[x] = k
      BY <3>1, <3>2
    <3>4. QED
      BY <3>3
  <2>3. f \in Surjection(D, 1..(n - 1))
    BY <2>1, <2>2 DEF Surjection
  <2>4. D \subseteq Versions \ {v}
    OBVIOUS
  <2> HIDE DEF f, D, n
  <2>5. IsFiniteSet(D) /\ Cardinality(D) <= Cardinality(Versions) - 1
    BY <1>4, <2>4, FS_Subset
  <2>6. Cardinality(1..(n - 1)) <= Cardinality(D)
    BY <2>3, <2>5, FS_Surjection
  <2>7. Cardinality(1..(n - 1)) = n - 1
    <3>1. n - 1 \in Nat
      BY <1>1, <1>5
    <3>2. Cardinality(1..(n - 1)) = IF 1 > n - 1 THEN 0 ELSE (n - 1) - 1 + 1
      BY <3>1, FS_Interval
    <3>3. QED
      BY <1>1, <1>5, <3>2
  <2>8. Cardinality(D) \in Nat
    BY <2>5, FS_CardinalityType
  <2>9. n <= Cardinality(Versions)
    BY <1>1, <1>3, <2>5, <2>6, <2>7, <2>8
  <2>10. number[v] \in 0..Cardinality(Versions)
    BY <1>1, <1>3, <2>9 DEF n
  <2>11. QED
    BY <1>2, <2>10
<1>6. CASE ~(n >= 1)
  BY <1>1, <1>2, <1>3, <1>6
<1>7. QED
  BY <1>5, <1>6

\* What is served, shown and downloaded is there.
LEMMA DocsAreServed ==
  ASSUME DocInv
  PROVE  ServedIsStored
<1>1. \A v \in Versions : RowOK(v)
  BY DEF DocInv, VersionOK
<1>2. DocTyped
  BY DEF DocInv
<1>3. Processing!TypeOK
  <2>1. number \in [Versions -> 0..Processing!Cardinality(Versions)]
    BY <1>2, NumbersFit DEF DocTyped
  <2>2. Processing!VersionRows
    BY <1>2, <2>1 DEF Processing!VersionRows, DocTyped, VersionStates, DocInv, NumbersOK
  <2>3. Processing!ChunkRows
    BY <1>1, <1>2 DEF Processing!ChunkRows, DocTyped, RowOK
  <2>4. Processing!JobRows
    BY <1>2 DEF Processing!JobRows, DocTyped, JobStates
  <2>5. QED
    BY <1>2, <2>2, <2>3, <2>4 DEF Processing!TypeOK, DocTyped, FilePlaces
<1>4. \A v \in Versions : status[v] \in Processing!Readable => Processing!Downloadable(v) /\ v \in chunks
  BY <1>1 DEF RowOK, Processing!Readable, Processing!Downloadable
<1>5. \A v \in hits : Processing!IsEvidence(v)
  BY <1>1, <1>2 DEF RowOK, Processing!IsEvidence, Processing!Readable, DocTyped
<1>6. \A v \in cited : Processing!Shown(v, TRUE) /\ Processing!Downloadable(v)
  <2> TAKE v \in cited
  <2>1. v \in Versions /\ status[v] \in {"ACTIVE", "SUPERSEDED"} /\ v \in chunks
    BY <1>1, <1>2 DEF RowOK, DocTyped
  <2>2. Processing!Downloadable(v)
    BY <1>4, <2>1 DEF Processing!Readable
  <2>3. Processing!Shown(v, TRUE)
    BY <2>1 DEF Processing!Shown
  <2>4. QED
    BY <2>2, <2>3
<1>7. \A v \in Versions :
        status[v] = "QUARANTINE" => file[v] = "quarantine" \/ job[v] = "FAILED"
  BY <1>1 DEF RowOK
<1>8. \A v \in Versions : status[v] = "REJECTED" => v \notin chunks /\ file[v] # "quarantine"
  BY <1>1 DEF RowOK
<1>9. QED
  BY <1>3, <1>4, <1>5, <1>6, <1>7, <1>8 DEF ServedIsStored, Processing!ServedIsStored

\* Which versions a step moves, and how: none that is settled, but ACTIVE to
\* SUPERSEDED by the activation of another.
Settles ==
  \/ status' = status
  \/ \E v \in Versions :
       /\ \A x \in Versions \ {v} :
            \/ status'[x] = status[x]
            \/ status[x] = "ACTIVE" /\ status'[x] = "SUPERSEDED" /\ status'[v] = "ACTIVE"
       /\ status[v] \notin Processing!Terminal

\* Every step keeps the invariant, and the served versions.
LEMMA DocStep ==
  ASSUME DocInv, Processing!Next
  PROVE  DocInv' /\ Settles
<1>1. CASE Processing!StoreResult \/ \E v \in Versions : Processing!Search(v)
  <2>1. status' = status
    BY <1>1 DEF Processing!StoreResult, Processing!Search, Processing!rows
  <2>2. QED
    BY <1>1, <2>1, CitationKeepsDocs DEF Settles
<1>2. ASSUME NEW v \in Versions, Processing!Upload(v) PROVE DocInv' /\ Settles
  BY <1>2, UploadKeepsDocs DEF Settles, Processing!Upload
<1>3. ASSUME NEW v \in Versions, Processing!CommitUpload(v) PROVE DocInv' /\ Settles
  BY <1>3, CommitKeepsDocs DEF Settles, Processing!Terminal
<1>4. ASSUME NEW v \in Versions, Processing!LeaseExpires(v) PROVE DocInv' /\ Settles
  BY <1>4, ExpiryKeepsDocs DEF Settles, Processing!LeaseExpires, Processing!rows
<1>5. ASSUME NEW v \in Versions, NEW w \in Workers, Processing!Claim(v, w)
      PROVE  DocInv' /\ Settles
  BY <1>5, ClaimKeepsDocs DEF Settles, Processing!Claim, Processing!rows
<1>6. ASSUME NEW v \in Versions, NEW w \in Workers, Processing!Crash(v, w)
      PROVE  DocInv' /\ Settles
  BY <1>6, CrashKeepsDocs DEF Settles, Processing!Crash, Processing!rows
<1>7. ASSUME NEW v \in Versions, NEW w \in Workers,
             \/ Processing!Read(v, w) \/ Processing!Extract(v, w) \/ Processing!ActivateFails(v, w)
             \/ Processing!RejectFails(v, w) \/ Processing!Finish(v, w)
      PROVE  DocInv' /\ Settles
  BY <1>7, WorkKeepsDocs DEF Settles
<1>8. ASSUME NEW v \in Versions, NEW w \in Workers,
             Processing!Store(v, w) \/ Processing!Move(v, w)
      PROVE  DocInv' /\ Settles
  BY <1>8, StoreKeepsDocs DEF Settles
<1>9. ASSUME NEW v \in Versions, NEW w \in Workers, Processing!Begin(v, w)
      PROVE  DocInv' /\ Settles
  BY <1>9, BeginKeepsDocs DEF Settles
<1>10. ASSUME NEW v \in Versions, NEW w \in Workers, Processing!Reject(v, w)
       PROVE  DocInv' /\ Settles
  BY <1>10, RejectKeepsDocs DEF Settles
<1>11. ASSUME NEW v \in Versions, NEW w \in Workers, Processing!CommitReject(v, w)
       PROVE  DocInv' /\ Settles
  BY <1>11, CommitRejectKeepsDocs DEF Settles
<1>12. ASSUME NEW v \in Versions, NEW w \in Workers, Processing!Activate(v, w)
       PROVE  DocInv' /\ Settles
  BY <1>12, ActivateKeepsDocs DEF Settles, Processing!Terminal
<1>13. QED
  BY <1>1, <1>2, <1>3, <1>4, <1>5, <1>6, <1>7, <1>8, <1>9, <1>10, <1>11, <1>12
  DEF Processing!Next

\* The invariant holds at the start and is kept.
LEMMA DocsHold == ServicesSpec => []DocInv
<1>1. ServicesInit => DocInv
  <2> SUFFICES ASSUME Processing!Init PROVE DocInv
    BY DEF ServicesInit
  <2>1. MaxAttempts \in Nat
    BY ServicesAssumption
  <2>2. DocTyped
    BY <2>1 DEF Processing!Init, DocTyped, VersionStates, FilePlaces, JobStates, WorkSteps
  <2>3. NumbersOK
    BY DEF Processing!Init, NumbersOK
  <2>4. \A v \in Versions : VersionOK(v)
    BY DEF Processing!Init, VersionOK, RowOK, WorkerOK, EarlySteps, Processing!UnderLock
  <2>5. QED
    BY <2>2, <2>3, <2>4 DEF DocInv
<1>2. DocInv /\ [ServicesNext]_ServicesVars => DocInv'
  <2> SUFFICES ASSUME DocInv, [Processing!Next]_documents PROVE DocInv'
    BY DocumentsMove
  <2>1. CASE Processing!Next
    BY <2>1, DocStep
  <2>2. CASE UNCHANGED documents
    <3>1. UNCHANGED <<status, number, file, chunks, job, attempt, owner, work, found, hits, cited>>
      BY <2>2 DEF documents
    <3>2. DocTyped' /\ NumbersOK'
      BY <3>1 DEF DocInv, DocTyped, NumbersOK
    <3>3. ASSUME NEW v \in Versions PROVE VersionOK(v)'
      <4>1. RowOK(v) /\ \A w \in Workers : WorkerOK(v, w)
        BY DEF DocInv, VersionOK
      <4>2. RowOK(v)'
        BY <3>1, <4>1 DEF RowOK
      <4>3. \A w \in Workers : WorkerOK(v, w)'
        BY <3>1, <4>1 DEF WorkerOK
      <4>4. QED
        BY <4>2, <4>3 DEF VersionOK
    <3>4. QED
      BY <3>2, <3>3 DEF DocInv
  <2>3. QED
    BY <2>1, <2>2
<1>3. QED
  BY <1>1, <1>2, PTL DEF ServicesSpec

\* Whatever is served can be read, cited and downloaded, for any number of
\* versions, workers and attempts, whichever attempt moved the file
\* (retrieval/pipeline.py, process_document_version).
THEOREM ServedHasFile == ServicesSpec => []ServedIsStored
<1>1. DocInv => ServedIsStored
  BY DocsAreServed
<1>2. QED
  BY <1>1, DocsHold, PTL

\* Stale attempts, rejections and activations of other versions never take away
\* the last served version, and settle nothing twice.
THEOREM ServedForGood == ServicesSpec => ServedStaysServed
<1>1. ASSUME DocInv, [ServicesNext]_ServicesVars
      PROVE  [/\ Processing!Active # {} => \E v \in Versions : status'[v] = "ACTIVE"
              /\ \A v \in Versions : status[v] \in Processing!Terminal /\ status'[v] # status[v] =>
                   status[v] = "ACTIVE" /\ status'[v] = "SUPERSEDED"]_(Processing!vars)
  <2>1. CASE Processing!Next
    <3>1. Settles
      BY <1>1, <2>1, DocStep
    <3>2. CASE status' = status
      BY <3>2 DEF Processing!Active
    <3>3. CASE status' # status
      <4>1. PICK v \in Versions :
              /\ \A x \in Versions \ {v} :
                   \/ status'[x] = status[x]
                   \/ status[x] = "ACTIVE" /\ status'[x] = "SUPERSEDED" /\ status'[v] = "ACTIVE"
              /\ status[v] \notin Processing!Terminal
        BY <3>1, <3>3 DEF Settles
      <4>2. Processing!Active # {} => \E x \in Versions : status'[x] = "ACTIVE"
        BY <4>1 DEF Processing!Active, Processing!Terminal
      <4>3. QED
        BY <4>1, <4>2
    <3>4. QED
      BY <3>2, <3>3
  <2>2. CASE UNCHANGED documents
    BY <2>2 DEF documents, Processing!vars
  <2>3. QED
    BY <1>1, <2>1, <2>2, DocumentsMove
<1>2. QED
  BY <1>1, DocsHold, PTL DEF ServicesSpec, ServedStaysServed, Processing!ServedStaysServed

-----------------------------------------------------------------------------
(* Shipment *)

\* The latest inspection of a type is one, and none of that type is later.
LEMMA LatestIsLast ==
  ASSUME NEW l \in Seq(Shipping!InspectionRows \cup Shipping!HoldRows \cup Shipping!ReleaseRows),
         NEW type
  PROVE  LET those == {i \in Shipping!Inspections(l) : l[i].type = type}
         IN  /\ those = {} => Shipping!Latest(l, type) = 0
             /\ those # {} => /\ Shipping!Latest(l, type) \in those
                              /\ \A j \in those : j <= Shipping!Latest(l, type)
<1> DEFINE those == {i \in Shipping!Inspections(l) : l[i].type = type}
<1>1. Len(l) \in Nat /\ DOMAIN l = 1..Len(l)
  OBVIOUS
<1>2. those \subseteq 1..Len(l)
  BY <1>1 DEF Shipping!Inspections
<1>3. CASE those = {}
  BY <1>3 DEF Shipping!Latest
<1>4. CASE those # {}
  <2>1. Shipping!Latest(l, type) = CHOOSE i \in those : \A j \in those : j <= i
    BY <1>4 DEF Shipping!Latest
  <2> HIDE DEF those
  <2>2. IsFiniteSet(those) /\ those \subseteq Int
    <3>1. IsFiniteSet(1..Len(l))
      BY <1>1, FS_Interval
    <3>2. IsFiniteSet(those)
      BY <1>2, <3>1, FS_Subset
    <3>3. QED
      BY <1>1, <1>2, <3>2
  <2>3. PICK i \in those : \A j \in those : j <= i
    BY <1>4, <2>2, HasLargest
  <2>4. QED
    BY <1>4, <2>1, <2>3 DEF those
<1>5. QED
  BY <1>3, <1>4

\* The types of the inspections from row i on.
TypesFrom(l, i) == {l[j].type : j \in {k \in Shipping!Inspections(l) : i <= k}}

\* What the list of orders has gathered after row i and the newer ones.
Gathered(l) ==
  [i \in 1..Len(l) + 1 |-> [t \in TypesFrom(l, i) |-> Shipping!Latest(l, t)]]

\* One round of the loop of _load_shipment_inputs.
Round(l, g, i) ==
  IF i > Len(l) THEN [t \in {} |-> 0]
  ELSE IF i \in Shipping!Inspections(l) THEN Shipping!SetDefault(g[i + 1], l[i].type, i)
  ELSE g[i + 1]

Gathers(l, g) == g = [i \in 1..Len(l) + 1 |-> Round(l, g, i)]

\* An inspection after which none of its type follows is the latest of its type.
LEMMA LatestIs ==
  ASSUME NEW l \in Seq(Shipping!InspectionRows \cup Shipping!HoldRows \cup Shipping!ReleaseRows),
         NEW i \in Shipping!Inspections(l),
         \A j \in Shipping!Inspections(l) : i < j => l[j].type # l[i].type
  PROVE  Shipping!Latest(l, l[i].type) = i
<1> DEFINE those == {j \in Shipping!Inspections(l) : l[j].type = l[i].type}
           top == Shipping!Latest(l, l[i].type)
<1>1. Shipping!Inspections(l) \subseteq Int
  BY DEF Shipping!Inspections
<1>2. i \in those
  OBVIOUS
<1>3. top \in those /\ i <= top
  BY <1>2, LatestIsLast
<1> HIDE DEF top
<1>4. top \in Shipping!Inspections(l) /\ l[top].type = l[i].type
  BY <1>3
<1>5. ~(i < top)
  BY <1>4
<1>6. top = i
  BY <1>1, <1>3, <1>4, <1>5
<1>7. QED
  BY <1>6 DEF top

\* What the loop gathers satisfies its recursion.
LEMMA GatheredIs ==
  ASSUME NEW l \in Seq(Shipping!InspectionRows \cup Shipping!HoldRows \cup Shipping!ReleaseRows)
  PROVE  Gathers(l, Gathered(l))
<1> DEFINE w == Gathered(l)
           n == Len(l)
           insp == Shipping!Inspections(l)
<1>1. n \in Nat /\ insp \subseteq 1..n
  BY DEF Shipping!Inspections
<1>2. ASSUME NEW i \in 1..n + 1 PROVE w[i] = Round(l, w, i)
  <2>1. w[i] = [t \in TypesFrom(l, i) |-> Shipping!Latest(l, t)]
    BY DEF Gathered
  <2>2. CASE i > n
    <3>1. TypesFrom(l, i) = {}
      BY <1>1, <2>2 DEF TypesFrom
    <3>2. QED
      BY <2>1, <2>2, <3>1 DEF Round
  <2>3. CASE ~(i > n)
    <3>1. i \in Int /\ i + 1 \in 1..n + 1
      BY <1>1, <2>3
    <3>2. w[i + 1] = [t \in TypesFrom(l, i + 1) |-> Shipping!Latest(l, t)]
      BY <3>1 DEF Gathered
    <3>3. \A j \in insp : i <= j <=> (j = i \/ i + 1 <= j)
      BY <1>1, <3>1
    <3>4. CASE i \in insp
      <4>1. TypesFrom(l, i) = TypesFrom(l, i + 1) \cup {l[i].type}
        BY <3>3, <3>4 DEF TypesFrom
      <4>2. l[i].type \notin TypesFrom(l, i + 1) => Shipping!Latest(l, l[i].type) = i
        <5> SUFFICES ASSUME l[i].type \notin TypesFrom(l, i + 1)
                     PROVE  Shipping!Latest(l, l[i].type) = i
          OBVIOUS
        <5>1. \A j \in insp : i < j => l[j].type # l[i].type
          <6> SUFFICES ASSUME NEW j \in insp, i < j PROVE l[j].type # l[i].type
            OBVIOUS
          <6>1. i + 1 <= j
            BY <1>1, <3>1
          <6>2. l[j].type \in TypesFrom(l, i + 1)
            BY <6>1 DEF TypesFrom
          <6>3. QED
            BY <6>2
        <5>2. QED
          BY <3>4, <5>1, LatestIs
      <4>3. Round(l, w, i) = Shipping!SetDefault(w[i + 1], l[i].type, i)
        BY <2>3, <3>4 DEF Round
      <4> DEFINE from == TypesFrom(l, i + 1)
                 g == w[i + 1]
                 type == l[i].type
      <4>4. DOMAIN g = from /\ \A t \in from : g[t] = Shipping!Latest(l, t)
        BY <3>2
      <4> HIDE DEF w, from, g, type
      <4>5. Shipping!SetDefault(g, type, i) = [t \in from \cup {type} |-> Shipping!Latest(l, t)]
        <5>1. type \notin from => Shipping!Latest(l, type) = i
          BY <4>2 DEF from, type
        <5>2. Shipping!SetDefault(g, type, i)
                = [t \in from \cup {type} |-> IF t \in from THEN g[t] ELSE i]
          BY <4>4 DEF Shipping!SetDefault
        <5>3. \A t \in from \cup {type} : (IF t \in from THEN g[t] ELSE i) = Shipping!Latest(l, t)
          BY <4>4, <5>1
        <5>4. QED
          BY <5>2, <5>3
      <4>6. w[i] = [t \in from \cup {type} |-> Shipping!Latest(l, t)]
        BY <2>1, <4>1 DEF from, type
      <4>7. QED
        BY <4>3, <4>5, <4>6 DEF g, type
    <3>5. CASE i \notin insp
      <4>1. TypesFrom(l, i) = TypesFrom(l, i + 1)
        BY <3>3, <3>5 DEF TypesFrom
      <4>2. QED
        BY <2>1, <2>3, <3>2, <3>5, <4>1 DEF Round
    <3>6. QED
      BY <3>4, <3>5
  <2>4. QED
    BY <2>2, <2>3
<1>3. w = [i \in 1..n + 1 |-> w[i]]
  BY DEF Gathered
<1> HIDE DEF w
<1>4. w = [i \in 1..n + 1 |-> Round(l, w, i)]
  BY <1>2, <1>3
<1>5. QED
  BY <1>4 DEF Gathers, w

\* Nothing else satisfies it.
LEMMA GatheredOnly ==
  ASSUME NEW l \in Seq(Shipping!InspectionRows \cup Shipping!HoldRows \cup Shipping!ReleaseRows),
         NEW g, Gathers(l, g)
  PROVE  g[1] = Gathered(l)[1]
<1> DEFINE w == Gathered(l)
           n == Len(l)
           Bad == {i \in 1..n + 1 : g[i] # w[i]}
<1>1. n \in Nat /\ 1 \in 1..n + 1
  OBVIOUS
<1>2. \A i \in 1..n + 1 : g[i] = Round(l, g, i) /\ w[i] = Round(l, w, i)
  <2>1. \A i \in 1..n + 1 : g[i] = Round(l, g, i)
    BY DEF Gathers
  <2>2. Gathers(l, w)
    BY GatheredIs
  <2> HIDE DEF w
  <2>3. QED
    BY <2>1, <2>2 DEF Gathers
<1> HIDE DEF w
<1>3. SUFFICES ASSUME Bad # {} PROVE FALSE
  BY <1>1 DEF w
<1>4. IsFiniteSet(Bad) /\ Bad \subseteq Int
  <2>1. IsFiniteSet(1..n + 1)
    BY <1>1, FS_Interval
  <2>2. IsFiniteSet(Bad)
    BY <2>1, FS_Subset
  <2>3. QED
    BY <1>1, <2>2
<1>5. PICK i \in Bad : \A j \in Bad : j <= i
  <2> HIDE DEF Bad
  <2>1. QED
    BY <1>3, <1>4, HasLargest
<1>6. i \in 1..n + 1 /\ g[i] # w[i]
  BY <1>5
<1>7. CASE i > n
  BY <1>2, <1>6, <1>7 DEF Round
<1>8. CASE ~(i > n)
  <2>1. i + 1 \in 1..n + 1 /\ ~(i + 1 <= i)
    BY <1>1, <1>6, <1>8
  <2>2. g[i + 1] = w[i + 1]
    BY <1>5, <2>1
  <2>3. QED
    BY <1>2, <1>6, <2>2 DEF Round
<1>9. QED
  BY <1>7, <1>8

\* So the list of orders finds the latest inspection of every type.
LEMMA ListFindsLatest ==
  ASSUME NEW l \in Seq(Shipping!InspectionRows \cup Shipping!HoldRows \cup Shipping!ReleaseRows)
  PROVE  Shipping!LatestByType(l) = [t \in TypesFrom(l, 1) |-> Shipping!Latest(l, t)]
<1> DEFINE g == CHOOSE h : Gathers(l, h)
<1>1. Gathers(l, g)
  BY GatheredIs
<1>2. Shipping!LatestByType(l) = g[1]
  BY Zenon DEF Shipping!LatestByType, Gathers, Round
<1> HIDE DEF g
<1>3. g[1] = Gathered(l)[1]
  BY <1>1, GatheredOnly
<1>4. 1 \in 1..Len(l) + 1
  OBVIOUS
<1>5. QED
  BY <1>2, <1>3, <1>4 DEF Gathered

\* Rows of the log, without what releases refer to.
FactRows ==
  Shipping!InspectionRows \cup Shipping!HoldRows \cup [kind : {"release"}, of : Nat, by : Users]

\* Results are what the policy makes of the counts; a release follows a FINAL
\* inspection that passed and is by someone else.
LogOK(l) ==
  /\ l \in Seq(FactRows)
  /\ \A i \in 1..Len(l) : l[i].kind = "inspection" =>
       Shipping!RulesAreValid /\ l[i].result = Shipping!Evaluate(l[i].counts)
  /\ \A i \in 1..Len(l) : l[i].kind = "release" =>
       /\ l[i].of \in Shipping!Inspections(l) /\ l[i].of < i
       /\ l[l[i].of].type = "FINAL" /\ l[l[i].of].result = "PASS" /\ l[l[i].of].by # l[i].by

\* What the order is, and what was found about it.
OrderOK ==
  /\ orderState \in {"PLANNED", "IN_PRODUCTION", "PRODUCTION_COMPLETE", "DISPATCHED", "CANCELLED"}
  /\ quality \in {"NOT_INSPECTED", "PENDING", "HOLD", "RELEASED"}
  /\ produced \in 0..Quantity /\ packed \in 0..Quantity
  /\ orderState = "PRODUCTION_COMPLETE" => produced = Quantity
  /\ LogOK(log)

\* Screens, snapshots and reports that are current say what is so.
ScreensOK ==
  /\ view \in [Users -> {Shipping!Verdict(Shipping!Eligible), Outdated}]
  /\ snapshot \in {Shipping!QualityReport, Outdated}
  /\ qualityReport \in {Shipping!QualityReport, Outdated}

ShipInv == OrderOK /\ ScreensOK

\* The log's rows are those the tables admit.
LEMMA LogIsTyped ==
  ASSUME NEW l, LogOK(l)
  PROVE  l \in Seq(Shipping!InspectionRows \cup Shipping!HoldRows
                     \cup [kind : {"release"}, of : Shipping!Inspections(l), by : Users])
<1>1. /\ l \in Seq(FactRows) /\ Len(l) \in Nat
      /\ \A i \in 1..Len(l) : l[i] \in FactRows
  BY DEF LogOK
<1>2. ASSUME NEW i \in 1..Len(l)
      PROVE  l[i] \in Shipping!InspectionRows \cup Shipping!HoldRows
                        \cup [kind : {"release"}, of : Shipping!Inspections(l), by : Users]
  <2>1. CASE l[i] \in [kind : {"release"}, of : Nat, by : Users]
    <3>1. l[i].of \in Shipping!Inspections(l)
      BY <2>1 DEF LogOK
    <3> HIDE DEF Shipping!Inspections
    <3>2. l[i] \in [kind : {"release"}, of : Shipping!Inspections(l), by : Users]
      BY <2>1, <3>1
    <3>3. QED
      BY <3>2
  <2>2. QED
    BY <1>1, <2>1 DEF FactRows
<1>3. QED
  BY <1>1, <1>2

\* The list of orders and the order itself come to the same verdict.
LEMMA ListAgrees ==
  ASSUME OrderOK
  PROVE  Shipping!ListedEligible <=> Shipping!Eligible
<1> DEFINE latest == Shipping!LatestByType(log)
           insp == Shipping!Inspections(log)
           seen == TypesFrom(log, 1)
<1>1. log \in Seq(Shipping!InspectionRows \cup Shipping!HoldRows \cup Shipping!ReleaseRows)
  BY LogIsTyped DEF OrderOK, Shipping!ReleaseRows
<1>2. latest = [t \in seen |-> Shipping!Latest(log, t)]
  BY <1>1, ListFindsLatest
<1>3. insp \subseteq 1..Len(log) /\ \A i \in 1..Len(log) : 1 <= i
  BY <1>1 DEF Shipping!Inspections
<1>4. \A t : t \in seen <=> \E i \in insp : log[i].type = t
  BY <1>3 DEF TypesFrom
<1>5. \A i \in insp : log[i].type \in Shipping!Types
  <2>1. \A i \in 1..Len(log) : log[i] \in FactRows
    BY DEF OrderOK, LogOK
  <2>2. QED
    BY <1>3, <2>1
    DEF FactRows, Shipping!InspectionRows, Shipping!HoldRows, Shipping!Inspections
<1>6. \A t : /\ t \in seen => Shipping!Latest(log, t) > 0
             /\ t \notin seen => Shipping!Latest(log, t) = 0
  <2> TAKE t
  <2>1. t \in seen => Shipping!Latest(log, t) \in insp
    BY <1>1, <1>4, LatestIsLast
  <2>2. t \notin seen => Shipping!Latest(log, t) = 0
    BY <1>1, <1>4, LatestIsLast
  <2>3. \A i \in insp : i > 0
    BY <1>3
  <2>4. QED
    BY <2>1, <2>2, <2>3
<1> HIDE DEF latest, insp, seen
<1>7. (\A t \in Policy.required : t \in DOMAIN latest /\ log[latest[t]].result = "PASS")
        <=> Policy.required \subseteq Shipping!Passed(log)
  <2>1. \A t \in seen : t \in Shipping!Types
    BY <1>4, <1>5
  <2>2. \A t : t \in Shipping!Passed(log) <=> t \in seen /\ log[Shipping!Latest(log, t)].result = "PASS"
    BY <1>6, <2>1 DEF Shipping!Passed
  <2>3. DOMAIN latest = seen /\ \A t \in seen : latest[t] = Shipping!Latest(log, t)
    BY <1>2
  <2>4. QED
    BY <2>2, <2>3
<1>8. ("FINAL" \in DOMAIN latest /\ latest["FINAL"] \in {log[i].of : i \in Shipping!Releases(log)})
        <=> Shipping!HasValidRelease(log)
  <2>1. DOMAIN latest = seen
    BY <1>2
  <2>2. "FINAL" \in seen => latest["FINAL"] = Shipping!Latest(log, "FINAL")
    BY <1>2
  <2>3. "FINAL" \in seen <=> Shipping!Latest(log, "FINAL") > 0
    <3>1. ~(0 > 0)
      OBVIOUS
    <3>2. QED
      BY <1>6, <3>1
  <2>4. QED
    BY <2>1, <2>2, <2>3 DEF Shipping!HasValidRelease
<1>9. (\A i \in Shipping!Holding(log) : i \notin Shipping!ActiveHolds(log))
        <=> ~Shipping!HasActiveHold(log)
  BY DEF Shipping!HasActiveHold, Shipping!ActiveHolds
<1>10. QED
  BY <1>7, <1>8, <1>9 DEF Shipping!ListedEligible, Shipping!Eligible, latest

\* A fact that may be added to the log.
FactOK(l, fact) ==
  /\ fact \in FactRows
  /\ fact.kind = "inspection" =>
       Shipping!RulesAreValid /\ fact.result = Shipping!Evaluate(fact.counts)
  /\ fact.kind = "release" =>
       /\ fact.of \in Shipping!Inspections(l)
       /\ l[fact.of].type = "FINAL" /\ l[fact.of].result = "PASS" /\ l[fact.of].by # fact.by

\* The log stays in order when such a fact is added.
LEMMA FactIsAdded ==
  ASSUME NEW l, LogOK(l), NEW fact, FactOK(l, fact)
  PROVE  LogOK(Append(l, fact))
<1> DEFINE m == Append(l, fact)
           n == Len(l)
<1>1. l \in Seq(FactRows) /\ fact \in FactRows
  BY DEF LogOK, FactOK
<1>2. m \in Seq(FactRows)
  BY <1>1
<1>3. /\ n \in Nat /\ Len(m) = n + 1
      /\ m[n + 1] = fact /\ \A i \in 1..n : m[i] = l[i]
  BY <1>1
<1>4. Shipping!Inspections(l) \subseteq Shipping!Inspections(m) /\ Shipping!Inspections(l) \subseteq 1..n
  BY <1>1, <1>3 DEF Shipping!Inspections
<1> HIDE DEF m, n
<1>5. \A i \in 1..Len(m) : i \in 1..n \/ i = n + 1
  BY <1>3
<1>6. \A i \in 1..n + 1 : \A j \in 1..n : i = n + 1 => j < i
  BY <1>3
<1>7. ASSUME NEW i \in 1..Len(m), m[i].kind = "inspection"
      PROVE  Shipping!RulesAreValid /\ m[i].result = Shipping!Evaluate(m[i].counts)
  <2>1. CASE i \in 1..n
    BY <1>3, <1>7, <2>1 DEF LogOK, n
  <2>2. CASE i = n + 1
    BY <1>3, <1>7, <2>2 DEF FactOK
  <2>3. QED
    BY <1>5, <2>1, <2>2
<1>8. ASSUME NEW i \in 1..Len(m), m[i].kind = "release"
      PROVE  /\ m[i].of \in Shipping!Inspections(m) /\ m[i].of < i
             /\ m[m[i].of].type = "FINAL" /\ m[m[i].of].result = "PASS" /\ m[m[i].of].by # m[i].by
  <2>1. CASE i \in 1..n
    <3>1. /\ l[i].of \in Shipping!Inspections(l) /\ l[i].of < i
          /\ l[l[i].of].type = "FINAL" /\ l[l[i].of].result = "PASS" /\ l[l[i].of].by # l[i].by
      BY <1>3, <1>8, <2>1 DEF LogOK, n
    <3>2. m[i] = l[i] /\ m[l[i].of] = l[l[i].of]
      BY <1>3, <1>4, <2>1, <3>1
    <3>3. QED
      BY <1>4, <3>1, <3>2
  <2>2. CASE i = n + 1
    <3>1. /\ fact.of \in Shipping!Inspections(l)
          /\ l[fact.of].type = "FINAL" /\ l[fact.of].result = "PASS" /\ l[fact.of].by # fact.by
      BY <1>3, <1>8, <2>2 DEF FactOK
    <3>2. m[i] = fact /\ m[fact.of] = l[fact.of] /\ fact.of < i
      BY <1>3, <1>4, <1>6, <2>2, <3>1
    <3>3. QED
      BY <1>4, <3>1, <3>2
  <2>3. QED
    BY <1>5, <2>1, <2>2
<1>9. QED
  BY <1>2, <1>7, <1>8 DEF LogOK, m

\* A command that changes the order leaves nothing current.
LEMMA CountedIsOK ==
  ASSUME Shipping!Counted
  PROVE  ScreensOK'
BY DEF Shipping!Counted, ScreensOK

\* Adding a fact.
LEMMA RecordIsOK ==
  ASSUME OrderOK, NEW fact, FactOK(log, fact), Shipping!Record(fact),
         UNCHANGED <<orderState, produced, packed>>
  PROVE  OrderOK'
<1>1. LogOK(log')
  BY FactIsAdded DEF OrderOK, Shipping!Record
<1>2. quality' \in {"NOT_INSPECTED", "PENDING", "HOLD", "RELEASED"}
  <2>1. quality' = Shipping!QualityState(log')
    BY DEF Shipping!Record
  <2>2. QED
    BY <2>1 DEF Shipping!QualityState
<1>3. QED
  BY <1>1, <1>2 DEF OrderOK

\* Every step keeps the invariant.
LEMMA ShipInvIsKept ==
  ASSUME ShipInv, Shipping!Next
  PROVE  ShipInv'
<1>1. PICK u \in Users :
        \/ Shipping!OpenOrder(u) \/ Shipping!ListOrders(u)
        \/ \E type \in Shipping!Types, counts \in Counts : Shipping!Inspect(u, type, counts)
        \/ Shipping!PlaceHold \/ Shipping!Analyze \/ Shipping!Publish
        \/ \E i \in DOMAIN log : Shipping!ReleaseOrder(u, i)
        \/ \E made, boxed \in 0..Quantity : Shipping!Progress(u, made, boxed)
        \/ \E target \in {"IN_PRODUCTION", "PRODUCTION_COMPLETE", "DISPATCHED", "CANCELLED"} :
             Shipping!Transition(u, target)
  BY Zenon DEF Shipping!Next
<1>2. OrderOK /\ ScreensOK
  BY DEF ShipInv
<1>3. ASSUME NEW eligible, eligible <=> Shipping!Eligible, Shipping!Show(u, eligible)
      PROVE  ShipInv'
  <2>1. OrderOK' /\ (Shipping!Eligible' <=> Shipping!Eligible)
    BY <1>2, <1>3
    DEF Shipping!Show, OrderOK, Shipping!Eligible
  <2>2. Shipping!QualityReport' = Shipping!QualityReport
    BY <1>3, <2>1
    DEF Shipping!Show, Shipping!QualityReport, Shipping!Verdict
  <2>3. Shipping!Verdict(eligible) = Shipping!Verdict(Shipping!Eligible)
        /\ Shipping!Verdict(Shipping!Eligible)' = Shipping!Verdict(Shipping!Eligible)
    BY <1>3, <2>1 DEF Shipping!Verdict
  <2>4. /\ view' = [view EXCEPT ![u] = Shipping!Verdict(eligible)]
        /\ snapshot' = snapshot /\ qualityReport' = qualityReport
    BY <1>3 DEF Shipping!Show
  <2>5. QED
    BY <1>2, <2>1, <2>2, <2>3, <2>4 DEF ShipInv, ScreensOK
<1>4. CASE Shipping!OpenOrder(u)
  BY <1>3, <1>4 DEF Shipping!OpenOrder
<1>5. CASE Shipping!ListOrders(u)
  BY <1>2, <1>3, <1>5, ListAgrees DEF Shipping!ListOrders
<1>6. CASE \E type \in Shipping!Types, counts \in Counts : Shipping!Inspect(u, type, counts)
  <2>1. PICK type \in Shipping!Types, counts \in Counts : Shipping!Inspect(u, type, counts)
    BY <1>6
  <2> DEFINE fact == [kind |-> "inspection", type |-> type, counts |-> counts,
                      result |-> Shipping!Evaluate(counts), by |-> u]
  <2>2. /\ Shipping!Counted /\ Shipping!Record(fact) /\ Shipping!RulesAreValid
        /\ counts.defective <= counts.inspected /\ UNCHANGED <<orderState, produced, packed>>
    BY <2>1 DEF Shipping!Inspect
  <2>3. Shipping!Evaluate(counts) \in {"PASS", "FAIL", "INSUFFICIENT_SAMPLE"}
    BY DEF Shipping!Evaluate
  <2>4. FactOK(log, fact)
    BY <2>2, <2>3 DEF FactOK, FactRows, Shipping!InspectionRows
  <2> HIDE DEF fact
  <2>5. QED
    BY <1>2, <2>2, <2>4, CountedIsOK, RecordIsOK DEF ShipInv
<1>7. CASE Shipping!PlaceHold
  <2> DEFINE fact == [kind |-> "hold"]
  <2>1. FactOK(log, fact)
    BY DEF FactOK, FactRows, Shipping!HoldRows
  <2>2. Shipping!Counted /\ Shipping!Record(fact) /\ UNCHANGED <<orderState, produced, packed>>
    BY <1>7 DEF Shipping!PlaceHold
  <2> HIDE DEF fact
  <2>3. QED
    BY <1>2, <2>1, <2>2, CountedIsOK, RecordIsOK DEF ShipInv
<1>8. CASE Shipping!Analyze \/ Shipping!Publish
  <2>1. UNCHANGED <<orderState, produced, packed, quality, log, view>>
    BY <1>8 DEF Shipping!Analyze, Shipping!Publish
  <2>2. OrderOK' /\ (Shipping!Eligible' <=> Shipping!Eligible)
    BY <1>2, <2>1 DEF OrderOK, Shipping!Eligible
  <2>3. /\ Shipping!QualityReport' = Shipping!QualityReport
        /\ Shipping!Verdict(Shipping!Eligible)' = Shipping!Verdict(Shipping!Eligible)
    BY <2>1, <2>2 DEF Shipping!QualityReport, Shipping!Verdict
  <2>4. /\ snapshot' \in {snapshot, Shipping!QualityReport, Outdated}
        /\ qualityReport' \in {qualityReport, snapshot}
    BY <1>8 DEF Shipping!Analyze, Shipping!Publish
  <2>5. QED
    BY <1>2, <2>1, <2>2, <2>3, <2>4 DEF ShipInv, ScreensOK
<1>9. CASE \E i \in DOMAIN log : Shipping!ReleaseOrder(u, i)
  <2>1. PICK i \in DOMAIN log : Shipping!ReleaseOrder(u, i)
    BY <1>9
  <2> DEFINE fact == [kind |-> "release", of |-> i, by |-> u]
  <2>2. /\ Shipping!Counted /\ Shipping!Record(fact) /\ UNCHANGED <<orderState, produced, packed>>
        /\ i \in Shipping!Inspections(log)
        /\ log[i].type = "FINAL" /\ log[i].result = "PASS" /\ log[i].by # u
    BY <2>1 DEF Shipping!ReleaseOrder
  <2>3. i \in Nat
    BY <1>2 DEF OrderOK, LogOK
  <2>4. FactOK(log, fact)
    BY <2>2, <2>3 DEF FactOK, FactRows
  <2> HIDE DEF fact
  <2>5. QED
    BY <1>2, <2>2, <2>4, CountedIsOK, RecordIsOK DEF ShipInv
<1>10. CASE \E made, boxed \in 0..Quantity : Shipping!Progress(u, made, boxed)
  <2>1. PICK made \in 0..Quantity, boxed \in 0..Quantity : Shipping!Progress(u, made, boxed)
    BY <1>10
  <2>2. Quantity \in Nat
    BY ServicesAssumption
  <2>3. OrderOK'
    BY <1>2, <2>1, <2>2 DEF OrderOK, Shipping!Progress
  <2>4. QED
    BY <2>1, <2>3, CountedIsOK DEF ShipInv, Shipping!Progress
<1>11. CASE \E target \in {"IN_PRODUCTION", "PRODUCTION_COMPLETE", "DISPATCHED", "CANCELLED"} :
              Shipping!Transition(u, target)
  <2>1. PICK target \in {"IN_PRODUCTION", "PRODUCTION_COMPLETE", "DISPATCHED", "CANCELLED"} :
          Shipping!Transition(u, target)
    BY <1>11
  <2>2. Quantity \in Nat
    BY ServicesAssumption
  <2>3. Shipping!MayBecome(target) /\ orderState' = target /\ UNCHANGED <<produced, packed, quality, log>>
    BY <2>1 DEF Shipping!Transition
  <2>4. target = "PRODUCTION_COMPLETE" => produced >= Quantity
    BY <2>3 DEF Shipping!MayBecome
  <2>5. OrderOK'
    BY <1>2, <2>2, <2>3, <2>4 DEF OrderOK
  <2>6. QED
    BY <2>1, <2>5, CountedIsOK DEF ShipInv, Shipping!Transition
<1>12. QED
  BY <1>1, <1>4, <1>5, <1>6, <1>7, <1>8, <1>9, <1>10, <1>11

\* Tables hold rows that their constraints admit.
LEMMA ShipInvTypes ==
  ASSUME ShipInv
  PROVE  Shipping!TypeOK
<1>1. OrderOK /\ ScreensOK
  BY DEF ShipInv
<1>2. Shipping!OrderRow
  BY <1>1, ServicesAssumption DEF OrderOK, Shipping!OrderRow
<1>3. log \in Seq(Shipping!InspectionRows \cup Shipping!HoldRows \cup Shipping!ReleaseRows)
  BY <1>1, LogIsTyped DEF OrderOK, Shipping!ReleaseRows
<1>4. view \in [Users -> {Shipping!Verdict(TRUE), Shipping!Verdict(FALSE), Outdated}]
  <2>1. Shipping!Verdict(Shipping!Eligible) \in {Shipping!Verdict(TRUE), Shipping!Verdict(FALSE)}
    BY DEF Shipping!Verdict
  <2>2. QED
    BY <1>1, <2>1 DEF ScreensOK
<1>5. QED
  BY <1>2, <1>3, <1>4 DEF Shipping!TypeOK

\* An eligible order is produced, packed, inspected and released.
LEMMA EligibleIsBacked ==
  ASSUME ShipInv, Shipping!Eligible
  PROVE  LET f == Shipping!Latest(log, "FINAL") IN
         /\ produced = Quantity /\ packed = Quantity
         /\ f > 0
         /\ log[f].result = "PASS"
         /\ log[f].counts.inspected >= Policy.sample
         /\ log[f].counts.defective <= Policy.defective
         /\ log[f].counts.critical <= Policy.critical
         /\ \E i \in Shipping!Releases(log) : i > f /\ log[i].of = f /\ log[i].by # log[f].by
         /\ \A i \in Shipping!Holding(log) : \E j \in Shipping!Releases(log) : j > i
<1> DEFINE f == Shipping!Latest(log, "FINAL")
<1>1. OrderOK /\ LogOK(log)
  BY DEF ShipInv, OrderOK
<1>2. /\ log \in Seq(FactRows) /\ Len(log) \in Nat /\ DOMAIN log = 1..Len(log)
      /\ \A i \in 1..Len(log) : log[i] \in FactRows
  BY <1>1 DEF LogOK
<1>3. produced = Quantity /\ packed = Quantity
  BY <1>1, ServicesAssumption DEF OrderOK, Shipping!Eligible
<1>4. PICK r \in Shipping!Releases(log) : log[r].of = f
  BY DEF Shipping!Eligible, Shipping!HasValidRelease
<1>5. r \in 1..Len(log) /\ log[r].kind = "release"
  BY <1>2 DEF Shipping!Releases
<1>6. /\ f > 0
      /\ f \in Shipping!Inspections(log) /\ f < r
      /\ log[f].result = "PASS" /\ log[f].by # log[r].by
  BY <1>1, <1>4, <1>5 DEF LogOK, Shipping!Eligible, Shipping!HasValidRelease
<1>7. f \in 1..Len(log) /\ log[f].kind = "inspection"
  BY <1>2, <1>6 DEF Shipping!Inspections
<1> HIDE DEF f
<1>8. /\ log[f].counts.inspected >= Policy.sample
      /\ log[f].counts.defective <= Policy.defective
      /\ log[f].counts.critical <= Policy.critical
  <2> DEFINE c == log[f].counts
  <2>1. Shipping!RulesAreValid /\ Shipping!Evaluate(c) = "PASS"
    BY <1>1, <1>6, <1>7 DEF LogOK
  <2>2. c \in [inspected : Nat, defective : Nat, critical : Nat]
    <3>1. log[f] \in Shipping!InspectionRows
      BY <1>2, <1>7 DEF FactRows, Shipping!InspectionRows, Shipping!HoldRows
    <3>2. c \in Counts
      BY <3>1 DEF Shipping!InspectionRows
    <3>3. QED
      BY <3>2, ServicesAssumption
  <2> HIDE DEF c
  <2>3. Policy.sample \in Nat /\ Policy.defective \in Nat /\ Policy.critical \in Nat
    BY <2>1 DEF Shipping!RulesAreValid
  <2>4. c.inspected >= Policy.sample /\ ~(c.defective > Policy.defective) /\ ~(c.critical > Policy.critical)
    <3>1. ~(c.inspected < Policy.sample)
      BY <2>1 DEF Shipping!Evaluate
    <3>2. c.inspected >= Policy.sample
      BY <2>2, <2>3, <3>1
    <3>3. QED
      BY <2>1, <3>1, <3>2 DEF Shipping!Evaluate
  <2>5. QED
    BY <2>2, <2>3, <2>4 DEF c
<1>9. r > f
  BY <1>5, <1>6, <1>7
<1>10. ASSUME NEW i \in Shipping!Holding(log)
       PROVE  \E j \in Shipping!Releases(log) : j > i
  <2>1. i \in 1..Len(log) /\ log[i].kind # "release"
    BY <1>2 DEF Shipping!Holding
  <2>2. PICK j \in Shipping!Releases(log) : ~(j < i)
    BY DEF Shipping!Eligible, Shipping!HasActiveHold, Shipping!ActiveHolds
  <2>3. j \in 1..Len(log) /\ j # i
    BY <1>2, <2>1 DEF Shipping!Releases
  <2>4. QED
    BY <2>1, <2>2, <2>3
<1>11. QED
  BY <1>3, <1>4, <1>6, <1>8, <1>9, <1>10 DEF f

\* A report on an eligible order has nothing against it.
LEMMA EligibleIsClean ==
  ASSUME ShipInv, Shipping!Eligible
  PROVE  Shipping!QualityReport.findings = {} /\ Shipping!QualityReport.verdict = "SHIPMENT_ELIGIBLE"
<1> DEFINE f == Shipping!Latest(log, "FINAL")
<1>1. f > 0 /\ log[f].result = "PASS"
  BY EligibleIsBacked
<1>2. Shipping!Inspections(log) # {}
  <2>1. log \in Seq(Shipping!InspectionRows \cup Shipping!HoldRows \cup Shipping!ReleaseRows)
    BY LogIsTyped DEF ShipInv, OrderOK, Shipping!ReleaseRows
  <2>2. ~(0 > 0)
    OBVIOUS
  <2>3. f # 0
    BY <1>1, <2>2
  <2>4. {i \in Shipping!Inspections(log) : log[i].type = "FINAL"} # {}
    BY <2>1, <2>3, LatestIsLast
  <2>5. QED
    BY <2>4
<1>3. Shipping!InspectionFindings(log) = {}
  BY <1>1, <1>2 DEF Shipping!InspectionFindings
<1>4. Shipping!HoldFindings(log) = {}
  BY DEF Shipping!HoldFindings, Shipping!Eligible
<1>5. QED
  BY <1>3, <1>4 DEF Shipping!QualityReport, Shipping!Verdict

\* Only a transition on a current screen dispatches.
LEMMA DispatchStep ==
  ASSUME ShipInv, Shipping!Next, orderState' = "DISPATCHED", orderState # "DISPATCHED"
  PROVE  Shipping!Eligible /\ \E u \in Users : view[u] # Outdated
<1>1. PICK u \in Users :
        \/ orderState' = orderState
        \/ \E target \in {"IN_PRODUCTION", "PRODUCTION_COMPLETE", "DISPATCHED", "CANCELLED"} :
             Shipping!Transition(u, target)
  BY DEF Shipping!Next, Shipping!OpenOrder, Shipping!ListOrders, Shipping!Show, Shipping!Inspect,
         Shipping!PlaceHold, Shipping!Analyze, Shipping!Publish, Shipping!ReleaseOrder,
         Shipping!Progress
<1>2. Shipping!Transition(u, "DISPATCHED")
  BY <1>1 DEF Shipping!Transition
<1>3. QED
  BY <1>2 DEF Shipping!Transition, Shipping!MayBecome, Shipping!Fresh

\* The invariant holds initially.
LEMMA ShipInvInit == Shipping!Init => ShipInv
<1> SUFFICES ASSUME Shipping!Init PROVE ShipInv
  OBVIOUS
<1>1. LogOK(log)
  BY DEF Shipping!Init, LogOK
<1>2. OrderOK
  BY <1>1, ServicesAssumption DEF Shipping!Init, OrderOK
<1>3. ScreensOK
  BY DEF Shipping!Init, ScreensOK
<1>4. QED
  BY <1>2, <1>3 DEF ShipInv

\* An order is dispatched only with its units produced and packed, its latest
\* FINAL inspection within the policy and released by someone else after every
\* hold, on a screen that says so (orders/service.py, transition_order), and
\* no row is refused by the constraints of its table.
THEOREM DispatchIsBacked == ServicesSpec => DispatchBacked
<1>1. ServicesInit => ShipInv
  BY ShipInvInit DEF ServicesInit
<1>2. ShipInv /\ [Shipping!Next]_shipping => ShipInv'
  <2>1. ShipInv /\ Shipping!Next => ShipInv'
    BY ShipInvIsKept
  <2>2. ShipInv /\ UNCHANGED shipping => ShipInv'
    <3> SUFFICES ASSUME ShipInv, UNCHANGED shipping PROVE ShipInv'
      OBVIOUS
    <3>1. UNCHANGED <<orderState, produced, packed, quality, log, view, snapshot, qualityReport>>
      BY DEF shipping
    <3>2. Shipping!Eligible' <=> Shipping!Eligible
      BY <3>1 DEF Shipping!Eligible
    <3>3. /\ Shipping!QualityReport' = Shipping!QualityReport
          /\ Shipping!Verdict(Shipping!Eligible)' = Shipping!Verdict(Shipping!Eligible)
      BY <3>1, <3>2 DEF Shipping!QualityReport, Shipping!Verdict
    <3>4. QED
      BY <3>1, <3>3 DEF ShipInv, OrderOK, ScreensOK
  <2>3. QED
    BY <2>1, <2>2
<1>3. ShipInv => Shipping!TypeOK
  BY ShipInvTypes
<1>4. ASSUME ShipInv, [Shipping!Next]_shipping
      PROVE  [orderState' = "DISPATCHED" /\ orderState # "DISPATCHED" =>
                LET f == Shipping!Latest(log, "FINAL") IN
                /\ produced = Quantity /\ packed = Quantity
                /\ f > 0
                /\ log[f].counts.inspected >= Policy.sample
                /\ log[f].counts.defective <= Policy.defective
                /\ log[f].counts.critical <= Policy.critical
                /\ \E i \in Shipping!Releases(log) : i > f /\ log[i].of = f /\ log[i].by # log[f].by
                /\ \A i \in Shipping!Holding(log) : \E j \in Shipping!Releases(log) : j > i
                /\ \E u \in Users : view[u] = "SHIPMENT_ELIGIBLE"
                /\ \A u \in Users : view[u] # "SHIPMENT_INELIGIBLE"
                /\ Shipping!ReportIsCurrent =>
                     qualityReport.findings = {} /\ qualityReport.verdict = "SHIPMENT_ELIGIBLE"]_(Shipping!vars)
  <2>1. CASE UNCHANGED shipping
    BY <2>1 DEF shipping, Shipping!vars
  <2>2. CASE ~(orderState' = "DISPATCHED" /\ orderState # "DISPATCHED")
    BY <2>2
  <2>3. CASE Shipping!Next /\ orderState' = "DISPATCHED" /\ orderState # "DISPATCHED"
    <3>1. Shipping!Eligible /\ \E u \in Users : view[u] # Outdated
      BY <1>4, <2>3, DispatchStep
    <3>2. /\ \E u \in Users : view[u] = "SHIPMENT_ELIGIBLE"
          /\ \A u \in Users : view[u] # "SHIPMENT_INELIGIBLE"
      BY <1>4, <3>1, ServicesAssumption DEF ShipInv, ScreensOK, Shipping!Verdict
    <3>3. Shipping!ReportIsCurrent =>
            qualityReport.findings = {} /\ qualityReport.verdict = "SHIPMENT_ELIGIBLE"
      BY <1>4, <3>1, EligibleIsClean DEF ShipInv, ScreensOK, Shipping!ReportIsCurrent
    <3>4. QED
      BY <1>4, <3>1, <3>2, <3>3, EligibleIsBacked
  <2>4. QED
    BY <1>4, <2>1, <2>2, <2>3
<1>5. QED
  BY <1>1, <1>2, <1>3, <1>4, ShippingMoves, PTL
  DEF ServicesSpec, DispatchBacked, Shipping!DispatchBacked
=============================================================================
