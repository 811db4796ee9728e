---------------------------- MODULE Idempotency ----------------------------
(***************************************************************************)
(* One Idempotency-Key and the requests that carry it: idempotency/service.py,*)
(* its use by the routes (api/orders.py, api/recommendations.py) and the     *)
(* purge of jobs/reconcile.py.                                               *)
(*                                                                          *)
(* A command, its effect and its stored response are one transaction, which  *)
(* holds the key's row from the claim on.  A route answers when its handler  *)
(* returns and commits afterwards (db/session.py commits behind the yield);  *)
(* only apply commits first, retries conflicts and keeps a rejection.        *)
(***************************************************************************)
EXTENDS Integers, FiniteSets

CONSTANTS Requests,   \* deliveries; a client may repeat one at any time
          Payload,    \* [Requests -> payload]
          MaxTries,   \* MAX_APPLY_ATTEMPTS
          NoRequest

NoRow == [payload |-> NoRequest, from |-> NoRequest, age |-> "fresh"]

VARIABLES
  isApply,  \* whether the operation of the key is apply
  row,      \* the committed row: payload, the request whose response it holds
            \* and its age: fresh, past RETENTION, past PURGE_GRACE as well
  holder,   \* the request whose open transaction claimed the key
  step,     \* of each request: new, working, answered, done
  tries,    \* attempts of apply so far
  answer,   \* what the client was told: nothing, the response of a request,
            \* a conflict or a failure
  effects   \* history: commands committed while the key is retained

vars == <<isApply, row, holder, step, tries, answer, effects>>

Told == Requests \cup {"nothing", "reused", "in_progress", "rejected", "failed"}

\* idempotency_keys: at most one row per key, with or without its response.
KeyRows ==
  [payload : {Payload[r] : r \in Requests}, from : Requests \cup {NoRequest},
   age : {"fresh", "expired", "purgeable"}]

TypeOK ==
  /\ isApply \in BOOLEAN
  /\ row \in KeyRows \cup {NoRow}
  /\ holder \in Requests \cup {NoRequest}
  /\ step \in [Requests -> {"new", "working", "answered", "done"}]
  /\ tries \in [Requests -> 0..MaxTries]
  /\ answer \in [Requests -> Told]
  /\ effects \subseteq Requests

Init ==
  /\ isApply \in BOOLEAN
  /\ row = NoRow
  /\ holder = NoRequest
  /\ step = [r \in Requests |-> "new"]
  /\ tries = [r \in Requests |-> 0]
  /\ answer = [r \in Requests |-> "nothing"]
  /\ effects = {}

Tell(r, what) == answer' = [answer EXCEPT ![r] = what]

Goto(r, s) == step' = [step EXCEPT ![r] = s]

\* begin: whoever finds the row claimed waits for the claim to end.  A key
\* past its retention protects nothing any more.
MayClaim == row = NoRow \/ row.age # "fresh"

ClaimWithoutWaiting(r) ==
  /\ step[r] = "new"
  /\ MayClaim
  /\ holder' = r
  /\ tries' = [tries EXCEPT ![r] = @ + 1]
  /\ Goto(r, "working")
  /\ UNCHANGED <<isApply, row, answer, effects>>

Claim(r) ==
  /\ step[r] = "new"
  /\ holder = NoRequest
  /\ MayClaim
  /\ holder' = r
  /\ tries' = [tries EXCEPT ![r] = @ + 1]
  /\ Goto(r, "working")
  /\ UNCHANGED <<isApply, row, answer, effects>>

\* begin of a key in use: a replay, or a refusal.
Replay(r) ==
  /\ step[r] = "new"
  /\ holder = NoRequest
  /\ ~MayClaim
  /\ Goto(r, "done")
  /\ Tell(r, CASE row.payload # Payload[r] -> "reused"
               [] row.payload = Payload[r] /\ row.from = NoRequest -> "in_progress"
               [] OTHER -> row.from)
  /\ UNCHANGED <<isApply, row, holder, tries, effects>>

\* The command and finish succeed; what is committed is the stored response.
Stored(r) == [payload |-> Payload[r], from |-> r, age |-> "fresh"]

\* COMMIT of the claim with the command's effect.
CommitEffect(r) ==
  /\ row' = Stored(r)
  /\ effects' = effects \cup {r}
  /\ holder' = NoRequest
  /\ Goto(r, "done")
  /\ UNCHANGED <<isApply, tries>>

\* A route's handler returned: the client has its answer.
Answer(r) ==
  /\ ~isApply
  /\ step[r] = "working"
  /\ Goto(r, "answered")
  /\ Tell(r, r)
  /\ UNCHANGED <<isApply, row, holder, tries, effects>>

CommitAnswered(r) ==
  /\ step[r] = "answered"
  /\ CommitEffect(r)
  /\ UNCHANGED answer

\* apply_recommendation commits inside its loop and answers then.
CommitThenAnswer(r) ==
  /\ isApply
  /\ step[r] = "working"
  /\ CommitEffect(r)
  /\ Tell(r, r)

RejectKeepingClaim(r) ==
  /\ isApply
  /\ step[r] = "working"
  /\ row' = [payload |-> Payload[r], from |-> NoRequest, age |-> "fresh"]
  /\ holder' = NoRequest
  /\ Goto(r, "done")
  /\ Tell(r, "rejected")
  /\ UNCHANGED <<isApply, tries, effects>>

\* PersistedRejection: release() drops the unfinished claim and the rejection
\* is committed with it; a claim renewed in place is dropped as well.
Reject(r) ==
  /\ isApply
  /\ step[r] = "working"
  /\ row' = NoRow
  /\ holder' = NoRequest
  /\ Goto(r, "done")
  /\ Tell(r, "rejected")
  /\ UNCHANGED <<isApply, tries, effects>>

\* A deadlock or serialization failure of apply: the transaction rolls back
\* and the loop starts again with begin.
Conflict(r) ==
  /\ isApply
  /\ step[r] = "working"
  /\ tries[r] < MaxTries
  /\ holder' = NoRequest
  /\ Goto(r, "new")
  /\ UNCHANGED <<isApply, row, tries, answer, effects>>

\* A refused command, an error, a crash, or a COMMIT that fails.  An answer
\* that was sent before stays with the client.
RollBack(r) ==
  /\ step[r] \in {"working", "answered"}
  /\ holder' = NoRequest
  /\ Goto(r, "done")
  /\ IF step[r] = "working" THEN Tell(r, "failed") ELSE UNCHANGED answer
  /\ UNCHANGED <<isApply, row, tries, effects>>

\* RETENTION, then PURGE_GRACE, pass.
Age ==
  /\ row # NoRow
  /\ row.age # "purgeable"
  /\ row' = [row EXCEPT !.age = IF @ = "fresh" THEN "expired" ELSE "purgeable"]
  /\ effects' = IF row.age = "fresh" THEN {} ELSE effects
  /\ UNCHANGED <<isApply, holder, step, tries, answer>>

\* purge_expired_idempotency_keys skips a row that a claim has locked.
Purge ==
  /\ row.age = "purgeable"
  /\ holder = NoRequest
  /\ row' = NoRow
  /\ UNCHANGED <<isApply, holder, step, tries, answer, effects>>

Next ==
  \/ \E r \in Requests :
       \/ Claim(r) \/ Replay(r) \/ Answer(r) \/ CommitAnswered(r)
       \/ CommitThenAnswer(r) \/ Reject(r) \/ Conflict(r) \/ RollBack(r)
  \/ Age \/ Purge

Spec == Init /\ [][Next]_vars

------------------------------------------------------------------------------
(* Properties *)

\* While a key is retained its command takes effect once, whoever repeats it
\* and whatever failed before (idempotency/service.py): repeats in flight,
\* after a rollback or after a kept rejection never add a second one.
OneEffectPerKey ==
  /\ Cardinality(effects) <= 1
  /\ row # NoRow /\ row.age = "fresh" => effects = {row.from}

\* A replay returns the response of a committed request with the same payload;
\* nobody is told that a committed key is still in progress, which would
\* lock the client out for a day (begin, finish, release).
ReplayIsOriginal ==
  [][\A r \in Requests : answer'[r] # answer[r] =>
       /\ answer'[r] # "in_progress"
       /\ answer'[r] \in Requests \ {r} =>
            answer'[r] \in effects /\ Payload[answer'[r]] = Payload[r]]_vars
=============================================================================
