---------------------------- MODULE CommandRequest ----------------------------
(***************************************************************************)
(* The way of a write command through the API process: the session of the  *)
(* browser (auth/csrf), the principal (api/deps), the permission check and *)
(* the audit trail (api/orders, audit/service), the transaction and its    *)
(* end (db/session), over a pool of database connections.                  *)
(*                                                                         *)
(* Each request holds a connection from the principal's lookup to its end; *)
(* apply_recommendation opens a second one for its own transaction, and a  *)
(* denial is audited over one more.  A request that finds the pool empty   *)
(* waits, and gives up after the pool's timeout.  The transaction of r is  *)
(* written[r]: what it has flushed, visible to nobody before the commit.   *)
(* What the commands do is in Approvals, Inventory, Shipment, Documents.   *)
(***************************************************************************)
EXTENDS Integers, FiniteSets

CONSTANTS
    Calls,        \* requests
    Routes,       \* call -> "own" (apply_recommendation) or "shared" session
    PoolSize,     \* the engine's pool_size + max_overflow
    MaxTries      \* MAX_APPLY_ATTEMPTS

VARIABLES
    at,           \* call -> where it is
    conns,        \* call -> connections it holds
    written,      \* call -> flushed and not committed: "effect", "SUCCESS", ...
    committed,    \* call -> committed by any of its transactions
    reply,        \* call -> what the client was answered
    attempts      \* call -> attempts of apply_recommendation

vars == <<at, conns, written, committed, reply, attempts>>

\* audit_events, by their outcome, beside the rows of the command itself.
AuditRows == {"SUCCESS", "DENIED", "FAILED"}
CommandRows == {"effect", "status"}

TypeOK ==
    /\ conns \in [Calls -> 0..2]
    /\ written \in [Calls -> SUBSET (CommandRows \cup AuditRows)]
    /\ committed \in [Calls -> SUBSET (CommandRows \cup AuditRows)]
    /\ reply \in [Calls -> {"none", "unauthenticated", "refused", "denied", "ok", "failed"}]
    /\ attempts \in [Calls -> 0..MaxTries]
    /\ at \in [Calls -> {"arrived", "resolved", "authenticated", "running", "executed",
                         "denying", "answered", "done"}]

Step(c, from, to) == at[c] = from /\ at' = [at EXCEPT ![c] = to]

InUse == LET Sum[S \in SUBSET Calls] ==
               IF S = {} THEN 0
               ELSE LET c == CHOOSE c \in S : TRUE IN conns[c] + Sum[S \ {c}]
         IN Sum[Calls]

ConnectionFree == InUse < PoolSize

Hold(c, n) == conns' = [conns EXCEPT ![c] = n]
Replies(c, answer) == reply' = [reply EXCEPT ![c] = answer]
Writes(c, what) == written' = [written EXCEPT ![c] = @ \cup what]
Kept(c) == committed' = [committed EXCEPT ![c] = @ \cup written[c]]

\* CsrfMiddleware: one connection for one lookup, returned before the route.
Resolve(c) ==
    /\ ConnectionFree
    /\ \/ Step(c, "arrived", "resolved") /\ UNCHANGED reply
       \/ Step(c, "arrived", "done") /\ Replies(c, "unauthenticated")
    /\ UNCHANGED <<conns, written, committed, attempts>>

\* get_principal opens the request's session and keeps it.
Authenticate(c) ==
    /\ ConnectionFree
    /\ \/ Step(c, "resolved", "authenticated") /\ Hold(c, 1) /\ UNCHANGED reply
       \/ Step(c, "resolved", "done") /\ Replies(c, "unauthenticated") /\ UNCHANGED conns
    /\ UNCHANGED <<written, committed, attempts>>

\* The session of the command: the request's own, or a second one.
Open(c) ==
    /\ Step(c, "authenticated", "running")
    /\ IF Routes[c] = "own" THEN ConnectionFree /\ Hold(c, 2) ELSE UNCHANGED conns
    /\ attempts' = [attempts EXCEPT ![c] = @ + 1]
    /\ UNCHANGED <<written, committed, reply>>

\* The command writes its rows and record_audit its event.
Execute(c) ==
    /\ Step(c, "running", "executed")
    /\ Writes(c, {"effect", "SUCCESS"})
    /\ UNCHANGED <<conns, committed, reply, attempts>>

Ended(c, answer) ==
    /\ at' = [at EXCEPT ![c] = "done"]
    /\ Hold(c, 0)
    /\ written' = [written EXCEPT ![c] = {}]
    /\ Replies(c, answer)
    /\ UNCHANGED attempts

\* A 404, 409 or 422: the exception rolls the transaction back.
Refuse(c) ==
    /\ at[c] = "running" /\ Ended(c, "refused")
    /\ UNCHANGED committed

\* PersistedRejection: EXPIRED or REJECTED is committed with its event.
RejectForGood(c) ==
    /\ at[c] = "running" /\ Ended(c, "refused")
    /\ committed' = [committed EXCEPT ![c] = @ \cup {"status", "FAILED"}]

\* Missing permission, self-approval, inspector releasing: a 403 from the command.
Deny(c) ==
    /\ Step(c, "running", "denying")
    /\ UNCHANGED <<conns, written, committed, reply, attempts>>

DeniedWithTheRequest(c) ==
    /\ at[c] = "denying" /\ Ended(c, "denied")
    /\ UNCHANGED committed

\* audit_denied: a connection and a transaction of its own; then the 403
\* rolls the request's transaction back.
RecordDenial(c) ==
    /\ at[c] = "denying" /\ ConnectionFree
    /\ committed' = [committed EXCEPT ![c] = @ \cup {"DENIED"}]
    /\ Ended(c, "denied")

\* get_db_session commits when the route has returned and the response is sent.
Answer(c) ==
    /\ Routes[c] = "shared" /\ Step(c, "executed", "answered")
    /\ Replies(c, "ok")
    /\ UNCHANGED <<conns, written, committed, attempts>>

CommitShared(c) ==
    /\ at[c] = "answered"
    /\ Kept(c) \/ UNCHANGED committed
    /\ Ended(c, reply[c])

\* apply_recommendation commits before it answers.
CommitOwn(c) ==
    /\ Routes[c] = "own" /\ at[c] = "executed"
    /\ Kept(c) /\ Ended(c, "ok")

\* A serialization failure or deadlock: rolled back, the session closed.
TryAgain(c) ==
    /\ Routes[c] = "own"
    /\ Step(c, "executed", IF attempts[c] < MaxTries THEN "authenticated" ELSE "done")
    /\ Hold(c, IF attempts[c] < MaxTries THEN 1 ELSE 0)
    /\ written' = [written EXCEPT ![c] = {}]
    /\ IF attempts[c] < MaxTries THEN UNCHANGED reply ELSE Replies(c, "failed")
    /\ UNCHANGED <<committed, attempts>>

Waits(c) == \/ at[c] \in {"arrived", "resolved", "denying"}
            \/ at[c] = "authenticated" /\ Routes[c] = "own"

\* pool_timeout: the exception answers 500 and rolls back.
GiveUp(c) ==
    /\ Waits(c) /\ ~ConnectionFree
    /\ Ended(c, "failed")
    /\ UNCHANGED committed

\* The client or the process is gone.
Vanish(c) ==
    /\ at[c] # "done" /\ Ended(c, reply[c])
    /\ UNCHANGED committed

Init ==
    /\ at = [c \in Calls |-> "arrived"]
    /\ conns = [c \in Calls |-> 0]
    /\ written = [c \in Calls |-> {}]
    /\ committed = [c \in Calls |-> {}]
    /\ reply = [c \in Calls |-> "none"]
    /\ attempts = [c \in Calls |-> 0]

Next == \E c \in Calls :
    \/ Resolve(c) \/ Authenticate(c) \/ Open(c) \/ Execute(c)
    \/ Refuse(c) \/ RejectForGood(c) \/ Deny(c) \/ RecordDenial(c)
    \/ Answer(c) \/ CommitShared(c) \/ CommitOwn(c) \/ TryAgain(c)
    \/ GiveUp(c) \/ Vanish(c)

Spec == Init /\ [][Next]_vars

-----------------------------------------------------------------------------
(* Properties                                                               *)

\* The audit trail tells what happened: a client that was told 403 left a
\* DENIED event although its transaction was rolled back, no denied command
\* took effect, and an effect and its SUCCESS event are committed together,
\* whatever timed out, was tried again or was cut off (audit/service 109-138,
\* db/session 78-92, api/recommendations 323-356).
AuditAgrees == \A c \in Calls :
    /\ reply[c] = "denied" => "DENIED" \in committed[c]
    /\ "DENIED" \in committed[c] => {"effect", "status"} \cap committed[c] = {}
    /\ "effect" \in committed[c] <=> "SUCCESS" \in committed[c]
    /\ "status" \in committed[c] <=> "FAILED" \in committed[c]
    /\ Routes[c] = "own" /\ reply[c] = "ok" => "effect" \in committed[c]
===============================================================================
