------------------------------- MODULE RateLimit -------------------------------
(***************************************************************************)
(* The token buckets of api/ratelimit, in the memory of one process:       *)
(* try_consume refills by the time elapsed, takes a token or refuses, and  *)
(* the least recently used entries are evicted beyond max_entries.         *)
(* A call never awaits between reading and writing, so it is one step.     *)
(*                                                                         *)
(* The refill rate is Limit / Window per unit of time.  Tokens are counted *)
(* in fractions 1/Window, so a full bucket is Limit * Window, a request    *)
(* takes Window and a unit of time refills Limit: all integers.            *)
(***************************************************************************)
EXTENDS Integers, SequencesExt, FiniteSetsExt

CONSTANTS
    Identities,
    Limit, Window,   \* of the bucket
    MaxEntries,      \* the LRU's capacity
    LastTick         \* bound: the clock stops here

VARIABLES
    clock,
    order,       \* the identities that have an entry, least recently used first
    tokens,      \* identity -> fractions at its last access
    last,        \* identity -> time of its last access
    admitted     \* history: identity -> times of admitted requests since its entry was made

vars == <<clock, order, tokens, last, admitted>>

Full == Limit * Window

RefilledUncapped(id) ==
    IF id \in ToSet(order) THEN tokens[id] + (clock - last[id]) * Limit ELSE Full

Refilled(id) ==
    IF id \in ToSet(order)
    THEN Min({Full, tokens[id] + (clock - last[id]) * Limit})
    ELSE Full

\* move_to_end, then _evict_if_over_capacity.
Others(id) ==
    IF id \in ToSet(order) THEN RemoveAt(order, CHOOSE i \in DOMAIN order : order[i] = id)
    ELSE order
Touched(id) == Append(Others(id), id)
Kept(id) == LET o == Touched(id) IN
            IF Len(o) > MaxEntries THEN SubSeq(o, Len(o) - MaxEntries + 1, Len(o)) ELSE o

History(id, times) ==
    [i \in Identities |-> IF i = id THEN times
                          ELSE IF i \in ToSet(Kept(id)) THEN admitted[i] ELSE <<>>]

Enough(id) == Refilled(id) >= Window

\* try_consume that allows the request.
Allow(id) ==
    /\ Enough(id)
    /\ tokens' = [tokens EXCEPT ![id] = Refilled(id) - Window]
    /\ last' = [last EXCEPT ![id] = clock]
    /\ order' = Kept(id)
    /\ admitted' = History(id, Append(admitted[id], clock))
    /\ UNCHANGED clock

\* try_consume that answers 429: the refill is stored, nothing is taken.
Refuse(id) ==
    /\ ~Enough(id)
    /\ tokens' = [tokens EXCEPT ![id] = Refilled(id)]
    /\ last' = [last EXCEPT ![id] = clock]
    /\ order' = Kept(id)
    /\ admitted' = History(id, admitted[id])
    /\ UNCHANGED clock

Tick == clock < LastTick /\ clock' = clock + 1 /\ UNCHANGED <<order, tokens, last, admitted>>

Init ==
    /\ clock = 0 /\ order = <<>>
    /\ tokens = [i \in Identities |-> Full]
    /\ last = [i \in Identities |-> 0]
    /\ admitted = [i \in Identities |-> <<>>]

Next == Tick \/ \E id \in Identities : Allow(id) \/ Refuse(id)

Spec == Init /\ [][Next]_vars

-----------------------------------------------------------------------------
(* Properties                                                               *)

\* However requests, refusals and pauses alternate, an identity whose entry
\* was not evicted is admitted at most Limit times plus the refill of the
\* time between, over every interval between two admissions: refusals refill
\* nothing twice and an idle bucket saves no more than Limit.
RateIsBounded ==
    \A id \in Identities : \A i, j \in DOMAIN admitted[id] :
        i <= j => (j - i + 1) * Window
                    <= Full + (admitted[id][j] - admitted[id][i]) * Limit
===============================================================================
