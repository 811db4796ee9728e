------------------------------- MODULE Services -------------------------------
(***************************************************************************)
(* The domain services side by side.  Each keeps tables of its own: what one *)
(* reads of another's is in its own module, so that their steps interleave   *)
(* without touching each other.                                              *)
(***************************************************************************)
EXTENDS Inventory

CONSTANTS
  Users, Quantity, Policy, Counts, MaxLog, Outdated,                   \* Shipment
  Versions, Workers, MaxAttempts, NoWorker,                            \* Documents
  Deliveries, Payload, MaxTries, NoRequest,                            \* Idempotency
  Procs, OrderIds, SlotIds, BalanceIds, Planned, Uses, PlansOn, CommandKinds,  \* LockOrder
  Batches, Files, Rows, Refs, LastDay, NoFile, ByHand,                 \* OrderImport
  Members, Scopes, Browsers, AdminRequests, Founders,                  \* Access
  Identities, Limit, Window, MaxEntries, LastTick,                     \* RateLimit
  Calls, Routes, PoolSize                                              \* CommandRequest

\* What the services take for granted of their parameters: values that stand
\* for "none" are none of the values they stand beside, a limit admits
\* something, an organization starts with an administrator; rows have numbers.
ASSUME ServicesAssumption ==
  /\ Quantity \in Nat /\ Counts \subseteq [inspected : Nat, defective : Nat, critical : Nat]
  /\ Outdated \notin {"SHIPMENT_ELIGIBLE", "SHIPMENT_INELIGIBLE"}
  /\ NoRequest \notin Deliveries
  /\ Deliveries \cap {"nothing", "reused", "in_progress", "rejected", "failed"} = {}
  /\ MaxTries \in Nat \ {0}
  /\ NoFile \notin Batches /\ ByHand \notin Batches
  /\ \A f \in Files : \A i \in DOMAIN Rows[f] : Rows[f][i].ref \in Refs
  /\ IsFiniteSet(Versions) /\ MaxAttempts \in Nat /\ LastDay \in Nat
  /\ NoWorker \notin Workers
  /\ IsFiniteSet(Procs) /\ IsFiniteSet(OrderIds) /\ IsFiniteSet(SlotIds) /\ IsFiniteSet(BalanceIds)
  /\ OrderIds \subseteq Int /\ SlotIds \subseteq Int /\ BalanceIds \subseteq Int
  /\ Planned \subseteq OrderIds
  /\ Uses \in [OrderIds -> SUBSET BalanceIds] /\ PlansOn \in [OrderIds -> SUBSET SlotIds]
  /\ CommandKinds \subseteq {"apply", "decide", "cancel_order", "receipt", "issue", "reserve",
                         "refresh", "finalize", "cancel_run", "correction"}
  /\ Founders # {} /\ Founders \subseteq Members /\ "org" \in Scopes
  /\ Limit \in Nat /\ Window \in Nat \ {0} /\ MaxEntries \in Nat \ {0}

VARIABLES
  orderState, produced, packed, quality, log, view, snapshot, qualityReport,
  status, number, file, chunks, job, attempt, owner, work, found, hits, cited,
  isApply, row, holder, step, tries, answer, effects,
  command, held,
  batch, flushing, source, today,
  enabled, assigned, session, request,
  clock, recency, tokens, last, admitted,
  at, conns, written, committed, reply, attempts

Shipping == INSTANCE Shipment WITH state <- orderState, report <- qualityReport

Processing == INSTANCE Documents

Keys == INSTANCE Idempotency WITH Requests <- Deliveries

Locks == INSTANCE LockOrder WITH
  Orders <- OrderIds, Slots <- SlotIds, Balances <- BalanceIds, Bom <- Uses,
  Commands <- CommandKinds

Imports == INSTANCE OrderImport

Accounts == INSTANCE Access WITH
  active <- enabled, Users <- Members, Requests <- AdminRequests

Limiter == INSTANCE RateLimit WITH order <- recency

Pipeline == INSTANCE CommandRequest

shipping == <<orderState, produced, packed, quality, log, view, snapshot, qualityReport>>
documents == <<status, number, file, chunks, job, attempt, owner, work, found, hits, cited>>
keys == <<isApply, row, holder, step, tries, answer, effects>>
locks == <<command, held>>
imports == <<batch, flushing, source, today>>
accounts == <<enabled, assigned, session, request>>
limits == <<clock, recency, tokens, last, admitted>>
pipeline == <<at, conns, written, committed, reply, attempts>>

ServicesVars ==
  <<vars, shipping, documents, keys, locks, imports, accounts, limits, pipeline>>

ServicesInit ==
  /\ Init /\ Shipping!Init /\ Processing!Init /\ Keys!Init /\ Locks!Init /\ Imports!Init
  /\ Accounts!Init /\ Limiter!Init /\ Pipeline!Init

\* A step of one service.
LedgerStep ==
  Next /\ UNCHANGED <<shipping, documents, keys, locks, imports, accounts, limits, pipeline>>
ShippingStep ==
  Shipping!Next /\ UNCHANGED <<vars, documents, keys, locks, imports, accounts, limits, pipeline>>
DocumentStep ==
  Processing!Next /\ UNCHANGED <<vars, shipping, keys, locks, imports, accounts, limits, pipeline>>
KeyStep ==
  Keys!Next /\ UNCHANGED <<vars, shipping, documents, locks, imports, accounts, limits, pipeline>>
LockStep ==
  Locks!Next /\ UNCHANGED <<vars, shipping, documents, keys, imports, accounts, limits, pipeline>>
ImportStep ==
  Imports!Next /\ UNCHANGED <<vars, shipping, documents, keys, locks, accounts, limits, pipeline>>
AccountStep ==
  Accounts!Next /\ UNCHANGED <<vars, shipping, documents, keys, locks, imports, limits, pipeline>>
LimiterStep ==
  Limiter!Next /\ UNCHANGED <<vars, shipping, documents, keys, locks, imports, accounts, pipeline>>
PipelineStep ==
  Pipeline!Next /\ UNCHANGED <<vars, shipping, documents, keys, locks, imports, accounts, limits>>

ServicesNext ==
  \/ LedgerStep \/ ShippingStep \/ DocumentStep \/ KeyStep \/ LockStep \/ ImportStep
  \/ AccountStep \/ LimiterStep \/ PipelineStep

ServicesSpec == ServicesInit /\ [][ServicesNext]_ServicesVars

------------------------------------------------------------------------------
(* Properties: each service is held to its own and to the rows its tables    *)
(* admit, so that no statement is refused for a constraint that its command  *)
(* did not check.                                                            *)

\* Shipment: a dispatch is backed by inspection, release and packing.
DispatchBacked == []Shipping!TypeOK /\ Shipping!DispatchBacked

\* Documents: what is served has its file and its chunks.
ServedIsStored == Processing!TypeOK /\ Processing!ServedIsStored

\* Documents: a served document stays served.
ServedStaysServed == Processing!ServedStaysServed

\* Idempotency: a key's command takes effect once.
OneEffectPerKey == Keys!TypeOK /\ Keys!OneEffectPerKey

\* Idempotency: a replay returns the committed original.
ReplayIsOriginal == Keys!ReplayIsOriginal

\* LockOrder: no commands wait for each other ...
NoLockCycle == Locks!NoLockCycle

\* ... unless a correction is about to name its order.
OnlyCorrectionsDeadlock == Locks!OnlyCorrectionsDeadlock

\* OrderImport: a file is imported once and whole.
ImportedOnceAndWhole == Imports!TypeOK /\ Imports!ImportedOnceAndWhole

\* Access: somebody can administer the organization.
AdministratorRemains == Accounts!TypeOK /\ Accounts!AdministratorRemains

\* Access: the last administrator is lost to overtaken commands only.
LostToOvertakenCommand == []Accounts!TypeOK /\ Accounts!LostToOvertakenCommand

\* RateLimit: no interval admits more than the bucket and its refill.
RateIsBounded == Limiter!RateIsBounded

\* CommandRequest: the audit trail and the tables agree.
AuditAgrees == Pipeline!TypeOK /\ Pipeline!AuditAgrees
=============================================================================
