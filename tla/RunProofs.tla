------------------------------ MODULE RunProofs ------------------------------
(***************************************************************************)
(* Proofs about RunOrchestration, for any number of advancers, any bound on *)
(* the faults and whatever the agents report.                               *)
(***************************************************************************)
EXTENDS RunOrchestration, SequenceTheorems, TLAPS

(* The envelopes of a delivery. *)
Elements(s) == {s[i] : i \in DOMAIN s}

-----------------------------------------------------------------------------
(* Sequences of envelopes *)

(* What a concatenation holds. *)
LEMMA Concatenation ==
  ASSUME NEW S, NEW s \in Seq(S), NEW t \in Seq(S)
  PROVE  s \o t \in Seq(S) /\ Elements(s \o t) = Elements(s) \cup Elements(t)
<1>1. s \o t \in Seq(S) /\ Len(s \o t) = Len(s) + Len(t)
  BY ConcatProperties
<1>2. \A i \in 1 .. Len(s) + Len(t) :
        (s \o t)[i] = IF i <= Len(s) THEN s[i] ELSE t[i - Len(s)]
  BY ConcatProperties
<1>3. /\ DOMAIN s = 1 .. Len(s) /\ DOMAIN t = 1 .. Len(t)
      /\ DOMAIN (s \o t) = 1 .. Len(s) + Len(t)
      /\ Len(s) \in Nat /\ Len(t) \in Nat
  BY <1>1, LenProperties
<1>4. Elements(s \o t) \subseteq Elements(s) \cup Elements(t)
  <2> SUFFICES ASSUME NEW i \in 1 .. Len(s) + Len(t)
               PROVE  (s \o t)[i] \in Elements(s) \cup Elements(t)
    BY <1>3 DEF Elements
  <2>1. CASE i <= Len(s)
    BY <1>2, <1>3, <2>1 DEF Elements
  <2>2. CASE ~(i <= Len(s))
    <3>1. i - Len(s) \in 1 .. Len(t) /\ (s \o t)[i] = t[i - Len(s)]
      BY <1>2, <1>3, <2>2
    <3>2. QED
      BY <1>3, <3>1 DEF Elements
  <2>3. QED
    BY <2>1, <2>2
<1>5. Elements(s) \subseteq Elements(s \o t)
  <2> SUFFICES ASSUME NEW i \in 1 .. Len(s)
               PROVE  s[i] \in Elements(s \o t)
    BY <1>3 DEF Elements
  <2>1. i \in 1 .. Len(s) + Len(t) /\ (s \o t)[i] = s[i]
    BY <1>2, <1>3
  <2>2. QED
    BY <1>3, <2>1 DEF Elements
<1>6. Elements(t) \subseteq Elements(s \o t)
  <2> SUFFICES ASSUME NEW i \in 1 .. Len(t)
               PROVE  t[i] \in Elements(s \o t)
    BY <1>3 DEF Elements
  <2>1. i + Len(s) \in 1 .. Len(s) + Len(t) /\ (s \o t)[i + Len(s)] = t[i]
    <3>1. i + Len(s) \in 1 .. Len(s) + Len(t) /\ ~(i + Len(s) <= Len(s))
          /\ i + Len(s) - Len(s) = i
      BY <1>3
    <3>2. QED
      BY <1>2, <3>1
  <2>2. QED
    BY <1>3, <2>1 DEF Elements
<1>7. QED
  BY <1>1, <1>4, <1>5, <1>6

(* The first element of a sequence and the others. *)
LEMMA FirstAndRest ==
  ASSUME NEW S, NEW s \in Seq(S), s # <<>>
  PROVE  /\ Head(s) \in Elements(s) /\ Head(s) \in S
         /\ Tail(s) \in Seq(S)
         /\ Elements(Tail(s)) \subseteq Elements(s)
         /\ Elements(s) \subseteq Elements(Tail(s)) \cup {Head(s)}
         /\ Tail(s) = <<>> <=> Len(s) = 1
<1>1. /\ Len(s) \in Nat /\ Len(s) # 0 /\ DOMAIN s = 1 .. Len(s)
      /\ \A i \in 1 .. Len(s) : s[i] \in S
  BY LenProperties, EmptySeq, ElementOfSeq
<1>2. /\ Head(s) = s[1]
      /\ Tail(s) \in Seq(S) /\ Len(Tail(s)) = Len(s) - 1
      /\ \A i \in 1 .. Len(Tail(s)) : Tail(s)[i] = s[i + 1]
  BY HeadTailProperties
<1>3. DOMAIN Tail(s) = 1 .. Len(s) - 1
  BY <1>2, LenProperties
<1>4. Head(s) \in Elements(s) /\ Head(s) \in S
  BY <1>1, <1>2 DEF Elements
<1>5. Elements(Tail(s)) \subseteq Elements(s)
  <2> SUFFICES ASSUME NEW i \in 1 .. Len(s) - 1
               PROVE  Tail(s)[i] \in Elements(s)
    BY <1>3 DEF Elements
  <2>1. i + 1 \in 1 .. Len(s) /\ Tail(s)[i] = s[i + 1]
    BY <1>1, <1>2
  <2>2. QED
    BY <1>1, <2>1 DEF Elements
<1>6. Elements(s) \subseteq Elements(Tail(s)) \cup {Head(s)}
  <2> SUFFICES ASSUME NEW i \in 1 .. Len(s), s[i] # Head(s)
               PROVE  s[i] \in Elements(Tail(s))
    BY <1>1 DEF Elements
  <2>1. i # 1
    BY <1>2
  <2>2. i - 1 \in 1 .. Len(s) - 1 /\ (i - 1) + 1 = i
    BY <1>1, <2>1
  <2>3. Tail(s)[i - 1] = s[i]
    BY <1>2, <2>2
  <2>4. QED
    BY <1>3, <2>2, <2>3 DEF Elements
<1>7. Tail(s) = <<>> <=> Len(s) = 1
  <2>1. Tail(s) # <<>> => Len(Tail(s)) # 0
    BY <1>2, EmptySeq
  <2>2. Tail(s) = <<>> => Len(Tail(s)) = 0
    BY EmptySeq
  <2>3. Len(Tail(s)) = 0 <=> Len(s) = 1
    BY <1>1, <1>2
  <2>4. QED
    BY <2>1, <2>2, <2>3
<1>8. QED
  BY <1>2, <1>4, <1>5, <1>6, <1>7

(* A sequence without elements is empty. *)
LEMMA NoElements ==
  ASSUME NEW S, NEW s \in Seq(S)
  PROVE  Elements(s) = {} <=> s = <<>>
<1>1. Len(s) \in Nat /\ DOMAIN s = 1 .. Len(s) /\ (s = <<>> <=> Len(s) = 0)
  BY LenProperties, EmptySeq
<1>2. CASE Len(s) = 0
  BY <1>1, <1>2 DEF Elements
<1>3. CASE Len(s) # 0
  <2>1. s[1] \in Elements(s)
    BY <1>1, <1>3 DEF Elements
  <2>2. QED
    BY <1>1, <1>3, <2>1
<1>4. QED
  BY <1>2, <1>3

-----------------------------------------------------------------------------
(* What a decision dispatches *)

(* The plan that counts is one of the two. *)
LEMMA FinalPlanType == FinalPlan \in Planning
BY DEF FinalPlan, Planning

(* An envelope of the graph is one that the API knows. *)
LEMMA EnvelopeType ==
  ASSUME NEW t \in Tasks
  PROVE  Envelope(t) \in Envelopes /\ Envelope(t).task = t
<1>1. Parent(t) \in Planning \cup {"none"}
  BY FinalPlanType DEF Parent, Planning
<1>2. QED
  BY <1>1 DEF Envelope, Envelopes

(* What is due for one task. *)
LEMMA DueType ==
  ASSUME NEW t \in Tasks
  PROVE  /\ Due(t) \in Seq(Envelopes)
         /\ \A e : e \in Elements(Due(t)) <=> Wanted(t) /\ e = Envelope(t)
<1>1. CASE Wanted(t)
  <2>1. Due(t) = <<Envelope(t)>>
    BY <1>1 DEF Due
  <2>2. DOMAIN <<Envelope(t)>> = {1} /\ <<Envelope(t)>>[1] = Envelope(t)
    OBVIOUS
  <2>3. <<Envelope(t)>> \in Seq(Envelopes)
    BY EnvelopeType
  <2>4. QED
    BY <1>1, <2>1, <2>2, <2>3 DEF Elements
<1>2. CASE ~Wanted(t)
  <2>1. Due(t) = <<>>
    BY <1>2 DEF Due
  <2>2. <<>> \in Seq(Envelopes) /\ Elements(<<>>) = {}
    BY EmptySeq, NoElements
  <2>3. QED
    BY <1>2, <2>1, <2>2
<1>3. QED
  BY <1>1, <1>2

(* A decision submits the envelope of every wanted task and no other. *)
LEMMA DispatchesAreWanted ==
  /\ Dispatches \in Seq(Envelopes)
  /\ \A e \in Elements(Dispatches) : e.task \in Tasks /\ Wanted(e.task) /\ e = Envelope(e.task)
  /\ \A t \in Tasks : Wanted(t) => Envelope(t) \in Elements(Dispatches)
<1> DEFINE s1 == Due("rm0") \o Due("ie0")
           s2 == s1 \o Due("quality0")
           s3 == s2 \o Due("planning0")
           s4 == s3 \o Due("planning1")
           s5 == s4 \o Due("rm1")
<1>1. Tasks = {"rm0", "ie0", "quality0", "planning0", "planning1", "rm1"}
  BY DEF Tasks, RoundZero, Planning
<1>2. \A t \in Tasks : Due(t) \in Seq(Envelopes)
  BY DueType
<1>3. /\ s1 \in Seq(Envelopes)
      /\ Elements(s1) = Elements(Due("rm0")) \cup Elements(Due("ie0"))
  BY <1>1, <1>2, Concatenation
<1>4. s2 \in Seq(Envelopes) /\ Elements(s2) = Elements(s1) \cup Elements(Due("quality0"))
  <2> HIDE DEF s1
  <2> QED
    BY <1>1, <1>2, <1>3, Concatenation
<1>5. s3 \in Seq(Envelopes) /\ Elements(s3) = Elements(s2) \cup Elements(Due("planning0"))
  <2> HIDE DEF s2
  <2> QED
    BY <1>1, <1>2, <1>4, Concatenation
<1>6. s4 \in Seq(Envelopes) /\ Elements(s4) = Elements(s3) \cup Elements(Due("planning1"))
  <2> HIDE DEF s3
  <2> QED
    BY <1>1, <1>2, <1>5, Concatenation
<1>7. s5 \in Seq(Envelopes) /\ Elements(s5) = Elements(s4) \cup Elements(Due("rm1"))
  <2> HIDE DEF s4
  <2> QED
    BY <1>1, <1>2, <1>6, Concatenation
<1>8. Dispatches = s5
  BY DEF Dispatches
<1> HIDE DEF s1, s2, s3, s4, s5
<1>9. \A e : e \in Elements(s5) <=> \E t \in Tasks : e \in Elements(Due(t))
  BY <1>1, <1>3, <1>4, <1>5, <1>6, <1>7
<1>10. \A e : e \in Elements(s5) <=> \E t \in Tasks : Wanted(t) /\ e = Envelope(t)
  BY <1>9, DueType
<1>11. QED
  BY <1>7, <1>8, <1>10, EnvelopeType

(* Nothing is due exactly when no task is wanted. *)
LEMMA NothingDue == Dispatches = <<>> <=> \A t \in Tasks : ~Wanted(t)
<1>1. Dispatches \in Seq(Envelopes)
  BY DispatchesAreWanted
<1>2. Elements(Dispatches) = {} <=> Dispatches = <<>>
  BY <1>1, NoElements
<1>3. QED
  BY <1>2, DispatchesAreWanted

-----------------------------------------------------------------------------
(* Types, leases and deliveries *)

(* A lease has a holder only while the job is leased, and where a delivery  *)
(* stands tells whether it has a job and envelopes left.                    *)
AdvancersAgree ==
  /\ \A k \in Keys : owner[k] \in Advancers => advance[k] = "LEASED"
  /\ \A a \in Advancers :
       /\ pc[a] = "idle" <=> key[a] = "none"
       /\ pc[a] = "sending" <=> todo[a] # <<>>

(* The parts of the type invariant. *)
JobTypes ==
  /\ advance \in [Keys -> JobStatuses]
  /\ owner \in [Keys -> Advancers \cup {NoOne}]

AdvancerTypes ==
  /\ pc \in [Advancers -> {"idle", "deciding", "sending", "finishing"}]
  /\ key \in [Advancers -> Keys \cup {"none"}]
  /\ todo \in [Advancers -> Seq(Envelopes)]

DeliveryTypes == JobTypes /\ AdvancerTypes /\ inflight \subseteq Envelopes

RunTypes ==
  /\ run \in ActiveRun \cup ClosedRun
  /\ overdue \in BOOLEAN /\ replanned \in BOOLEAN
  /\ rec \in {"none", "open", "settled", "SUPERSEDED"}
  /\ closings \in Nat

TaskTypes ==
  /\ task \in [Tasks -> {"ABSENT"} \cup ActiveTask \cup TerminalTask]
  /\ result \in [Tasks -> {"none"} \cup ResultStatuses]
  /\ plan \in [Planning -> AnyUnits]
  /\ validates \in Planning \cup {"none"}

WorkTypes ==
  /\ agentJob \in [Tasks -> JobStatuses]
  /\ work \in [Tasks -> {"idle", "claimed", "working", "exhausted", "degrading"}]
  /\ faults \in 0..MaxFaults

LEMMA TypeParts == TypeOK <=> DeliveryTypes /\ RunTypes /\ TaskTypes /\ WorkTypes
BY DEF TypeOK, DeliveryTypes, JobTypes, AdvancerTypes, RunTypes, TaskTypes, WorkTypes

LEMMA TypePartsNext ==
  TypeOK' <=> DeliveryTypes' /\ RunTypes' /\ TaskTypes' /\ WorkTypes'
BY DEF TypeOK, DeliveryTypes, JobTypes, AdvancerTypes, RunTypes, TaskTypes, WorkTypes

(* No job of a task is named "none", and no advancer is no one. *)
LEMMA Names ==
  /\ "none" \notin Keys /\ NoOne \notin Advancers
  /\ Tasks \subseteq Keys /\ "reconcile" \in Keys /\ "reconcile" \notin Tasks
  /\ Planning \subseteq Tasks
BY RunAssumption DEF Keys, Tasks, RoundZero, Planning

(* What an advancer is about to submit is one of its envelopes. *)
LEMMA CurrentIsOne ==
  ASSUME DeliveryTypes, AdvancersAgree, NEW a \in Advancers, pc[a] = "sending"
  PROVE  /\ Current(a) \in Elements(todo[a]) /\ Current(a) \in Envelopes
         /\ Current(a).task \in Tasks
<1>1. todo[a] \in Seq(Envelopes) /\ todo[a] # <<>>
  BY DEF DeliveryTypes, AdvancerTypes, AdvancersAgree
<1>2. Head(todo[a]) \in Elements(todo[a]) /\ Head(todo[a]) \in Envelopes
  BY <1>1, FirstAndRest
<1>3. QED
  BY <1>2 DEF Current, Envelopes

(* A delivered envelope leaves the others. *)
LEMMA DeliveredLeavesRest ==
  ASSUME DeliveryTypes, AdvancersAgree, NEW a \in Advancers, pc[a] = "sending",
         Delivered(a), UNCHANGED <<advance, owner, key>>, inflight' \subseteq Envelopes
  PROVE  /\ DeliveryTypes' /\ AdvancersAgree'
         /\ \A b \in Advancers : Elements(todo'[b]) \subseteq Elements(todo[b])
<1>1. todo[a] \in Seq(Envelopes) /\ todo[a] # <<>>
  BY DEF DeliveryTypes, AdvancerTypes, AdvancersAgree
<1>2. /\ Tail(todo[a]) \in Seq(Envelopes)
      /\ Elements(Tail(todo[a])) \subseteq Elements(todo[a])
      /\ Tail(todo[a]) = <<>> <=> Len(todo[a]) = 1
  BY <1>1, FirstAndRest
<1>3. /\ todo' = [todo EXCEPT ![a] = Tail(todo[a])]
      /\ pc' = [pc EXCEPT ![a] = IF Len(todo[a]) = 1 THEN "finishing" ELSE "sending"]
  BY DEF Delivered
<1>4. AdvancerTypes'
  BY <1>2, <1>3 DEF DeliveryTypes, AdvancerTypes
<1>5. \A b \in Advancers :
        /\ todo'[b] = IF b = a THEN Tail(todo[a]) ELSE todo[b]
        /\ pc'[b] = IF b = a THEN IF Len(todo[a]) = 1 THEN "finishing" ELSE "sending"
                             ELSE pc[b]
  BY <1>3 DEF DeliveryTypes, AdvancerTypes
<1>6. AdvancersAgree'
  BY <1>2, <1>5 DEF AdvancersAgree
<1>7. QED
  BY <1>2, <1>4, <1>5, <1>6 DEF DeliveryTypes, JobTypes

(* An advancer that leaves takes its envelopes with it, and no job is lost  *)
(* or made.                                                                 *)
LEMMA LeavingKeepsJobs ==
  ASSUME DeliveryTypes, AdvancersAgree, NEW a \in Advancers, pc[a] # "idle",
         NEW outcome \in {"READY", "DONE", "FAILED"}, Leave(a, outcome),
         inflight' \subseteq Envelopes
  PROVE  /\ DeliveryTypes' /\ AdvancersAgree'
         /\ \A b \in Advancers : Elements(todo'[b]) \subseteq Elements(todo[b])
         /\ \A k \in Keys : advance'[k] = "ABSENT" <=> advance[k] = "ABSENT"
<1>1. key[a] \in Keys
  BY DEF DeliveryTypes, AdvancerTypes, AdvancersAgree
<1>2. <<>> \in Seq(Envelopes) /\ Elements(<<>>) = {}
  BY EmptySeq, NoElements
<1>3. /\ pc' = [pc EXCEPT ![a] = "idle"]
      /\ key' = [key EXCEPT ![a] = "none"]
      /\ todo' = [todo EXCEPT ![a] = <<>>]
  BY DEF Leave
<1>4. AdvancerTypes'
  BY <1>2, <1>3 DEF DeliveryTypes, AdvancerTypes
<1>5. \A b \in Advancers :
        /\ todo'[b] = IF b = a THEN <<>> ELSE todo[b]
        /\ pc'[b] = IF b = a THEN "idle" ELSE pc[b]
        /\ key'[b] = IF b = a THEN "none" ELSE key[b]
  BY <1>3 DEF DeliveryTypes, AdvancerTypes
<1>6. \A b \in Advancers : Elements(todo'[b]) \subseteq Elements(todo[b])
  BY <1>2, <1>5
<1>7. CASE owner[key[a]] = a
  <2>1. /\ advance' = [advance EXCEPT ![key[a]] = outcome]
        /\ owner' = [owner EXCEPT ![key[a]] = NoOne]
    BY <1>7 DEF Leave
  <2>2. JobTypes'
    BY <1>1, <2>1 DEF DeliveryTypes, JobTypes, JobStatuses
  <2>3. \A k \in Keys :
          /\ advance'[k] = IF k = key[a] THEN outcome ELSE advance[k]
          /\ owner'[k] = IF k = key[a] THEN NoOne ELSE owner[k]
    BY <1>1, <2>1 DEF DeliveryTypes, JobTypes
  <2>4. advance[key[a]] = "LEASED"
    BY <1>1, <1>7 DEF AdvancersAgree
  <2>5. AdvancersAgree'
    BY <1>5, <2>3, Names DEF AdvancersAgree
  <2>6. \A k \in Keys : advance'[k] = "ABSENT" <=> advance[k] = "ABSENT"
    BY <2>3, <2>4
  <2>7. QED
    BY <1>4, <1>6, <2>2, <2>5, <2>6 DEF DeliveryTypes
<1>8. CASE owner[key[a]] # a
  <2>1. UNCHANGED jobVars
    BY <1>8 DEF Leave
  <2>2. AdvancersAgree'
    BY <1>5, <2>1 DEF AdvancersAgree, jobVars
  <2>3. QED
    BY <1>4, <1>6, <2>1, <2>2 DEF DeliveryTypes, JobTypes, jobVars
<1>9. QED
  BY <1>7, <1>8

(* What a step leaves pending, if it only takes over or drops envelopes. *)
LEMMA PendingShrinks ==
  ASSUME \A b \in Advancers : Elements(todo'[b]) \subseteq Elements(todo[b]),
         \A e \in inflight' : e \in inflight \/ \E b \in Advancers : e \in Elements(todo[b])
  PROVE  Pending' \subseteq Pending
BY DEF Pending, Elements

(* A step that leaves run, graph and agents alone: it moves a delivery, a   *)
(* lease, the deadline or the reconciler's job.                             *)
Quiet ==
  /\ UNCHANGED <<run, replanned, rec, closings, taskVars, agentJob, work>>
  /\ Pending' \subseteq Pending
  /\ \A t \in Tasks : advance'[t] = "ABSENT" <=> advance[t] = "ABSENT"

Orderly == DeliveryTypes /\ AdvancersAgree

LEMMA TakeIsQuiet ==
  ASSUME Orderly, NEW a \in Advancers, NEW k \in Keys, Take(a, k)
  PROVE  Quiet /\ Orderly'
<1>1. /\ pc[a] = "idle" /\ advance[k] \in OpenJob
      /\ advance' = [advance EXCEPT ![k] = "LEASED"]
      /\ owner' = [owner EXCEPT ![k] = a]
      /\ pc' = [pc EXCEPT ![a] = "deciding"]
      /\ key' = [key EXCEPT ![a] = k]
      /\ UNCHANGED <<runVars, taskVars, agentJob, todo, inflight, work>>
  BY DEF Take
<1>2. DeliveryTypes'
  BY <1>1 DEF Orderly, DeliveryTypes, JobTypes, AdvancerTypes, JobStatuses
<1>3. /\ \A b \in Advancers :
           /\ pc'[b] = IF b = a THEN "deciding" ELSE pc[b]
           /\ key'[b] = IF b = a THEN k ELSE key[b]
      /\ \A j \in Keys :
           /\ advance'[j] = IF j = k THEN "LEASED" ELSE advance[j]
           /\ owner'[j] = IF j = k THEN a ELSE owner[j]
  BY <1>1 DEF Orderly, DeliveryTypes, JobTypes, AdvancerTypes
<1>4. AdvancersAgree'
  BY <1>1, <1>3, Names DEF Orderly, AdvancersAgree
<1>5. Pending' \subseteq Pending
  BY <1>1, PendingShrinks
<1>6. \A t \in Tasks : advance'[t] = "ABSENT" <=> advance[t] = "ABSENT"
  BY <1>1, <1>3, Names DEF OpenJob
<1>7. QED
  BY <1>1, <1>2, <1>4, <1>5, <1>6 DEF Quiet, Orderly, runVars, taskVars

LEMMA DecideNothingIsQuiet ==
  ASSUME Orderly, NEW a \in Advancers, DecideNothing(a)
  PROVE  Quiet /\ Orderly'
<1>1. /\ pc[a] = "deciding" /\ pc' = [pc EXCEPT ![a] = "finishing"]
      /\ UNCHANGED <<runVars, taskVars, jobVars, agentJob, key, todo, inflight, work>>
  BY DEF DecideNothing
<1>2. Orderly'
  BY <1>1 DEF Orderly, DeliveryTypes, JobTypes, AdvancerTypes, AdvancersAgree, jobVars
<1>3. Pending' \subseteq Pending
  BY <1>1, PendingShrinks
<1>4. QED
  BY <1>1, <1>2, <1>3 DEF Quiet, runVars, taskVars, jobVars

LEMMA SubmitIsQuiet ==
  ASSUME Orderly, NEW a \in Advancers, Submit(a)
  PROVE  Quiet /\ Orderly'
<1>1. CASE SubmitKnown(a) \/ SubmitNew(a)
  <2>1. /\ pc[a] = "sending" /\ Delivered(a)
        /\ inflight' \in {inflight, inflight \cup {Current(a)}}
        /\ UNCHANGED <<runVars, taskVars, jobVars, agentJob, key, work>>
    BY <1>1 DEF SubmitKnown, SubmitNew, Accept
  <2>2. Current(a) \in Elements(todo[a]) /\ Current(a) \in Envelopes
    BY <2>1, CurrentIsOne DEF Orderly
  <2>3. inflight' \subseteq Envelopes
    BY <2>1, <2>2 DEF Orderly, DeliveryTypes
  <2>4. /\ Orderly'
        /\ \A b \in Advancers : Elements(todo'[b]) \subseteq Elements(todo[b])
    BY <2>1, <2>3, DeliveredLeavesRest DEF Orderly, jobVars
  <2>5. Pending' \subseteq Pending
    BY <2>1, <2>2, <2>4, PendingShrinks
  <2>6. QED
    BY <2>1, <2>4, <2>5 DEF Quiet, runVars, taskVars, jobVars
<1>2. CASE SubmitRejected(a)
  <2>1. /\ pc[a] # "idle" /\ Leave(a, "FAILED")
        /\ UNCHANGED <<runVars, taskVars, agentJob, inflight, work>>
    BY <1>2 DEF SubmitRejected
  <2>2. /\ Orderly'
        /\ \A b \in Advancers : Elements(todo'[b]) \subseteq Elements(todo[b])
        /\ \A k \in Keys : advance'[k] = "ABSENT" <=> advance[k] = "ABSENT"
    BY <2>1, LeavingKeepsJobs DEF Orderly, DeliveryTypes
  <2>3. Pending' \subseteq Pending
    BY <2>1, <2>2, PendingShrinks
  <2>4. QED
    BY <2>1, <2>2, <2>3, Names DEF Quiet, runVars, taskVars
<1>3. QED
  BY <1>1, <1>2 DEF Submit

LEMMA LeavingIsQuiet ==
  ASSUME Orderly, NEW a \in Advancers, Finish(a) \/ SubmitFails(a)
  PROVE  Quiet /\ Orderly'
<1>1. PICK outcome \in {"READY", "DONE", "FAILED"} :
        /\ pc[a] # "idle" /\ Leave(a, outcome)
        /\ \/ inflight' = inflight
           \/ pc[a] = "sending" /\ inflight' = inflight \cup {Current(a)}
        /\ UNCHANGED <<runVars, taskVars, agentJob, work>>
  BY DEF Finish, SubmitFails, Accept
<1>2. \A e \in inflight' : e \in Envelopes /\ (e \in inflight \/ e \in Elements(todo[a]))
  BY <1>1, CurrentIsOne DEF Orderly, DeliveryTypes
<1>3. /\ Orderly'
      /\ \A b \in Advancers : Elements(todo'[b]) \subseteq Elements(todo[b])
      /\ \A k \in Keys : advance'[k] = "ABSENT" <=> advance[k] = "ABSENT"
  BY <1>1, <1>2, LeavingKeepsJobs DEF Orderly
<1>4. Pending' \subseteq Pending
  BY <1>2, <1>3, PendingShrinks
<1>5. QED
  BY <1>1, <1>3, <1>4, Names DEF Quiet, runVars, taskVars

LEMMA CrashIsQuiet ==
  ASSUME Orderly, NEW a \in Advancers, CrashAdvancer(a)
  PROVE  Quiet /\ Orderly'
<1>1. /\ pc' = [pc EXCEPT ![a] = "idle"]
      /\ key' = [key EXCEPT ![a] = "none"]
      /\ todo' = [todo EXCEPT ![a] = <<>>]
      /\ UNCHANGED <<runVars, taskVars, jobVars, agentJob, inflight, work>>
  BY DEF CrashAdvancer
<1>2. <<>> \in Seq(Envelopes) /\ Elements(<<>>) = {}
  BY EmptySeq, NoElements
<1>3. DeliveryTypes'
  BY <1>1, <1>2 DEF Orderly, DeliveryTypes, JobTypes, AdvancerTypes, jobVars
<1>4. \A b \in Advancers :
        /\ todo'[b] = IF b = a THEN <<>> ELSE todo[b]
        /\ pc'[b] = IF b = a THEN "idle" ELSE pc[b]
        /\ key'[b] = IF b = a THEN "none" ELSE key[b]
  BY <1>1 DEF Orderly, DeliveryTypes, AdvancerTypes
<1>5. AdvancersAgree'
  BY <1>1, <1>4 DEF Orderly, AdvancersAgree, jobVars
<1>6. Pending' \subseteq Pending
  BY <1>1, <1>2, <1>4, PendingShrinks
<1>7. QED
  BY <1>1, <1>3, <1>5, <1>6 DEF Quiet, Orderly, runVars, taskVars, jobVars

LEMMA InsertFailureIsQuiet ==
  ASSUME Orderly, NEW e \in inflight, InsertFails(e)
  PROVE  Quiet /\ Orderly'
<1>1. /\ inflight' \subseteq inflight
      /\ UNCHANGED <<runVars, taskVars, jobVars, agentJob, advancerVars, work>>
  BY DEF InsertFails
<1>2. Pending' \subseteq Pending
  BY <1>1, PendingShrinks DEF advancerVars
<1>3. Orderly'
  BY <1>1 DEF Orderly, DeliveryTypes, JobTypes, AdvancerTypes, AdvancersAgree, jobVars, advancerVars
<1>4. QED
  BY <1>1, <1>2, <1>3 DEF Quiet, runVars, taskVars, jobVars

LEMMA GivingUpIsQuiet ==
  ASSUME Orderly, NEW k \in Keys, GiveUpAdvance(k)
  PROVE  Quiet /\ Orderly'
<1>1. /\ advance[k] = "LEASED"
      /\ advance' = [advance EXCEPT ![k] = "FAILED"]
      /\ owner' = [owner EXCEPT ![k] = NoOne]
      /\ UNCHANGED <<runVars, taskVars, agentJob, advancerVars, inflight, work>>
  BY DEF GiveUpAdvance
<1>2. DeliveryTypes'
  BY <1>1 DEF Orderly, DeliveryTypes, JobTypes, AdvancerTypes, JobStatuses, advancerVars
<1>3. \A j \in Keys :
        /\ advance'[j] = IF j = k THEN "FAILED" ELSE advance[j]
        /\ owner'[j] = IF j = k THEN NoOne ELSE owner[j]
  BY <1>1 DEF Orderly, DeliveryTypes, JobTypes
<1>4. AdvancersAgree'
  BY <1>1, <1>3, Names DEF Orderly, AdvancersAgree, advancerVars
<1>5. Pending' \subseteq Pending
  BY <1>1, PendingShrinks DEF advancerVars
<1>6. \A t \in Tasks : advance'[t] = "ABSENT" <=> advance[t] = "ABSENT"
  BY <1>1, <1>3, Names
<1>7. QED
  BY <1>1, <1>2, <1>4, <1>5, <1>6 DEF Quiet, Orderly, runVars, taskVars

LEMMA ReconcileIsQuiet ==
  ASSUME Orderly, Reconcile
  PROVE  Quiet /\ Orderly'
<1>1. /\ advance["reconcile"] \notin OpenJob
      /\ advance' = [advance EXCEPT !["reconcile"] = "READY"]
      /\ UNCHANGED <<runVars, taskVars, owner, agentJob, advancerVars, inflight, work>>
  BY DEF Reconcile
<1>2. DeliveryTypes'
  BY <1>1, Names DEF Orderly, DeliveryTypes, JobTypes, AdvancerTypes, JobStatuses, advancerVars
<1>3. \A j \in Keys : advance'[j] = IF j = "reconcile" THEN "READY" ELSE advance[j]
  BY <1>1 DEF Orderly, DeliveryTypes, JobTypes
<1>4. AdvancersAgree'
  BY <1>1, <1>3, Names DEF Orderly, AdvancersAgree, advancerVars, OpenJob
<1>5. Pending' \subseteq Pending
  BY <1>1, PendingShrinks DEF advancerVars
<1>6. \A t \in Tasks : advance'[t] = "ABSENT" <=> advance[t] = "ABSENT"
  BY <1>3, Names
<1>7. QED
  BY <1>1, <1>2, <1>4, <1>5, <1>6 DEF Quiet, Orderly, runVars, taskVars

LEMMA RestIsQuiet ==
  ASSUME Orderly, DeadlinePasses \/ UNCHANGED vars
  PROVE  Quiet /\ Orderly'
<1>1. UNCHANGED <<run, replanned, rec, closings, taskVars, jobVars, agentJob, advancerVars,
                  inflight, work>>
  BY DEF DeadlinePasses, vars, taskVars, jobVars, advancerVars
<1>2. Pending' \subseteq Pending
  BY <1>1, PendingShrinks DEF advancerVars
<1>3. Orderly'
  BY <1>1 DEF Orderly, DeliveryTypes, JobTypes, AdvancerTypes, AdvancersAgree, jobVars, advancerVars
<1>4. QED
  BY <1>1, <1>2, <1>3 DEF Quiet, jobVars

-----------------------------------------------------------------------------
(* The kinds of steps *)

(* A worker moves on without storing an outcome. *)
Working(t) ==
  \/ ClaimTask(t) \/ SkipTask(t) \/ BeginTask(t) \/ AttemptFails(t) \/ ExhaustTask(t)
  \/ HookBegins(t) \/ HookLost(t)

(* An agent or its hook stores an outcome. *)
Storing(t) == CompleteTask(t) \/ HookStores(t)

StepKinds ==
  \/ Quiet /\ Orderly'
  \/ \E a \in Advancers : DecideDispatch(a) \/ Finalize(a) \/ FinalizeDeadline(a)
  \/ \E e \in inflight : InsertTask(e)
  \/ \E t \in Tasks : Working(t) \/ Storing(t)
  \/ Cancel \/ Review

LEMMA NextKinds ==
  ASSUME Orderly, [Next]_vars
  PROVE  StepKinds
<1>1. CASE UNCHANGED vars
  BY <1>1, RestIsQuiet DEF StepKinds
<1>2. ASSUME NEW a \in Advancers,
             \/ \E k \in Keys : Take(a, k)
             \/ Decide(a) \/ Submit(a) \/ Finish(a)
             \/ SubmitFails(a) \/ CrashAdvancer(a)
      PROVE  StepKinds
  <2>1. CASE \E k \in Keys : Take(a, k)
    BY <2>1, TakeIsQuiet DEF StepKinds
  <2>2. CASE Decide(a)
    BY <2>2, DecideNothingIsQuiet DEF Decide, StepKinds
  <2>3. CASE Submit(a)
    BY <2>3, SubmitIsQuiet DEF StepKinds
  <2>4. CASE Finish(a) \/ SubmitFails(a)
    BY <2>4, LeavingIsQuiet DEF StepKinds
  <2>5. CASE CrashAdvancer(a)
    BY <2>5, CrashIsQuiet DEF StepKinds
  <2>6. QED
    BY <1>2, <2>1, <2>2, <2>3, <2>4, <2>5
<1>3. CASE \E k \in Keys : GiveUpAdvance(k)
  BY <1>3, GivingUpIsQuiet DEF StepKinds
<1>4. CASE \E e \in inflight : InsertTask(e) \/ InsertFails(e)
  BY <1>4, InsertFailureIsQuiet DEF StepKinds
<1>5. ASSUME NEW t \in Tasks,
             ExecuteTask(t) \/ AttemptFails(t) \/ ExhaustTask(t) \/ Hook(t) \/ HookLost(t)
      PROVE  StepKinds
  BY <1>5 DEF ExecuteTask, Hook, Working, Storing, StepKinds
<1>6. CASE DeadlinePasses \/ Cancel \/ Review \/ Reconcile
  BY <1>6, RestIsQuiet, ReconcileIsQuiet DEF StepKinds
<1>7. QED
  BY <1>1, <1>2, <1>3, <1>4, <1>5, <1>6 DEF Next

(* The other kinds leave the deliveries in order, too. *)
LEMMA KindsAreOrderly ==
  ASSUME Orderly, StepKinds
  PROVE  Orderly'
<1>1. ASSUME NEW a \in Advancers, DecideDispatch(a)
      PROVE  Orderly'
  <2>1. /\ pc[a] = "deciding" /\ Dispatches # <<>>
        /\ pc' = [pc EXCEPT ![a] = "sending"]
        /\ todo' = [todo EXCEPT ![a] = Dispatches]
        /\ UNCHANGED <<jobVars, key, inflight>>
    BY <1>1 DEF DecideDispatch
  <2>2. Dispatches \in Seq(Envelopes)
    BY DispatchesAreWanted
  <2>3. DeliveryTypes'
    BY <2>1, <2>2 DEF Orderly, DeliveryTypes, JobTypes, AdvancerTypes, jobVars
  <2>4. \A b \in Advancers :
          /\ pc'[b] = IF b = a THEN "sending" ELSE pc[b]
          /\ todo'[b] = IF b = a THEN Dispatches ELSE todo[b]
    BY <2>1 DEF Orderly, DeliveryTypes, AdvancerTypes
  <2>5. AdvancersAgree'
    BY <2>1, <2>4 DEF Orderly, AdvancersAgree, jobVars
  <2>6. QED
    BY <2>3, <2>5 DEF Orderly
<1>2. ASSUME NEW a \in Advancers, Finalize(a) \/ FinalizeDeadline(a)
      PROVE  Orderly'
  <2>1. /\ pc[a] = "deciding" /\ pc' = [pc EXCEPT ![a] = "finishing"]
        /\ UNCHANGED <<jobVars, key, todo, inflight>>
    BY <1>2 DEF Finalize, FinalizeDeadline
  <2>2. QED
    BY <2>1 DEF Orderly, DeliveryTypes, JobTypes, AdvancerTypes, AdvancersAgree, jobVars
<1>3. ASSUME NEW e \in inflight, InsertTask(e)
      PROVE  Orderly'
  <2>1. inflight' \subseteq inflight /\ UNCHANGED <<jobVars, advancerVars>>
    BY <1>3 DEF InsertTask
  <2>2. QED
    BY <2>1 DEF Orderly, DeliveryTypes, JobTypes, AdvancerTypes, AdvancersAgree, jobVars,
                advancerVars
<1>4. ASSUME NEW t \in Tasks, Storing(t)
      PROVE  Orderly'
  <2>1. AdvanceAfter(t) /\ UNCHANGED <<owner, advancerVars, inflight>>
    BY <1>4 DEF Storing, CompleteTask, HookStores, StoreOutcome
  <2>2. t \in Keys
    BY Names
  <2>3. /\ DeliveryTypes'
        /\ \A k \in Keys : advance[k] # "ABSENT" => advance'[k] = advance[k]
    BY <2>1, <2>2 DEF AdvanceAfter, Orderly, DeliveryTypes, JobTypes, AdvancerTypes,
                      JobStatuses, advancerVars
  <2>4. AdvancersAgree'
    BY <2>1, <2>3 DEF Orderly, AdvancersAgree, advancerVars
  <2>5. QED
    BY <2>3, <2>4 DEF Orderly
<1>5. CASE (\E t \in Tasks : Working(t)) \/ Cancel \/ Review
  <2>1. UNCHANGED <<jobVars, advancerVars, inflight>>
    BY <1>5 DEF Working, ClaimTask, SkipTask, BeginTask, AttemptFails, ExhaustTask, HookBegins,
                HookLost, Cancel, Review
  <2>2. QED
    BY <2>1 DEF Orderly, DeliveryTypes, JobTypes, AdvancerTypes, AdvancersAgree, jobVars,
                advancerVars
<1>6. QED
  BY <1>1, <1>2, <1>3, <1>4, <1>5 DEF StepKinds

-----------------------------------------------------------------------------
(* Types of the run, its tasks and their workers *)

LEMMA FaultsCount ==
  ASSUME [Next]_vars
  PROVE  Fault \/ UNCHANGED faults
<1>1. ASSUME NEW a \in Advancers,
             \/ \E k \in Keys : Take(a, k)
             \/ Decide(a) \/ Submit(a) \/ Finish(a)
             \/ SubmitFails(a) \/ CrashAdvancer(a)
      PROVE  Fault \/ UNCHANGED faults
  BY <1>1 DEF Take, Decide, DecideNothing, DecideDispatch, Finalize, FinalizeDeadline, Submit,
              SubmitKnown, SubmitNew, SubmitRejected, Finish, SubmitFails, CrashAdvancer
<1>2. ASSUME NEW t \in Tasks,
             ExecuteTask(t) \/ AttemptFails(t) \/ ExhaustTask(t) \/ Hook(t) \/ HookLost(t)
      PROVE  Fault \/ UNCHANGED faults
  BY <1>2 DEF ExecuteTask, ClaimTask, SkipTask, BeginTask, CompleteTask, AttemptFails,
              ExhaustTask, Hook, HookBegins, HookStores, HookLost
<1>3. QED
  BY <1>1, <1>2 DEF Next, vars, GiveUpAdvance, InsertTask, InsertFails, DeadlinePasses, Cancel, Review,
                    Reconcile

LEMMA FaultsAreBounded ==
  ASSUME faults \in 0..MaxFaults, [Next]_vars
  PROVE  /\ faults' \in 0..MaxFaults
         /\ faults' = 0 => faults = 0 /\ ~Fault
BY RunAssumption, FaultsCount DEF Fault

LEMMA FinalStatusIsClosed ==
  FinalStatus \in {"FAILED", "AWAITING_REVIEW", "COMPLETED", "DEGRADED"}
BY DEF FinalStatus

LEMMA AnalysisTyped ==
  ASSUME RunTypes, [Next]_vars
  PROVE  RunTypes'
<1>1. ASSUME NEW a \in Advancers,
             \/ \E k \in Keys : Take(a, k)
             \/ Submit(a) \/ Finish(a)
             \/ SubmitFails(a) \/ CrashAdvancer(a) \/ DecideNothing(a)
      PROVE  UNCHANGED runVars
  BY <1>1 DEF Take, DecideNothing, Submit, SubmitKnown, SubmitNew, SubmitRejected,
              Finish, SubmitFails, CrashAdvancer
<1>2. ASSUME NEW a \in Advancers, DecideDispatch(a) \/ Finalize(a) \/ FinalizeDeadline(a)
      PROVE  RunTypes'
  <2>1. CASE DecideDispatch(a)
    <3>1. replanned' \in BOOLEAN
      BY <2>1 DEF DecideDispatch
    <3>2. run' = "RUNNING" /\ UNCHANGED <<overdue, rec, closings>>
      BY <2>1 DEF DecideDispatch
    <3>3. QED
      BY <3>1, <3>2 DEF RunTypes, ActiveRun
  <2>2. CASE Finalize(a)
    <3>1. /\ run' = FinalStatus /\ rec' \in {"open", "none"} /\ closings' = closings + 1
          /\ UNCHANGED <<overdue, replanned>>
      BY <2>2 DEF Finalize
    <3>2. QED
      BY <3>1, FinalStatusIsClosed DEF RunTypes, ClosedRun
  <2>3. CASE FinalizeDeadline(a)
    <3>1. /\ run' \in {"DEGRADED", "FAILED"} /\ closings' = closings + 1
          /\ UNCHANGED <<overdue, replanned, rec>>
      BY <2>3 DEF FinalizeDeadline
    <3>2. QED
      BY <3>1 DEF RunTypes, ClosedRun
  <2>4. QED
    BY <1>2, <2>1, <2>2, <2>3
<1>3. ASSUME NEW t \in Tasks,
             ExecuteTask(t) \/ AttemptFails(t) \/ ExhaustTask(t) \/ Hook(t) \/ HookLost(t)
      PROVE  UNCHANGED runVars
  BY <1>3 DEF ExecuteTask, ClaimTask, SkipTask, BeginTask, CompleteTask, AttemptFails,
              ExhaustTask, Hook, HookBegins, HookStores, HookLost
<1>4. CASE \/ (\E k \in Keys : GiveUpAdvance(k)) \/ Reconcile
           \/ \E e \in inflight : InsertTask(e) \/ InsertFails(e)
  BY <1>4 DEF GiveUpAdvance, InsertTask, InsertFails, Reconcile, RunTypes, runVars
<1>5. CASE DeadlinePasses \/ Cancel \/ Review
  BY <1>5 DEF DeadlinePasses, Cancel, Review, RunTypes, ClosedRun
<1>6. UNCHANGED runVars => RunTypes'
  BY DEF runVars, RunTypes
<1>7. QED
  BY <1>1, <1>2, <1>3, <1>4, <1>5, <1>6 DEF Next, Decide, vars, runVars

(* What one more outcome does to the rows of its task. *)
LEMMA StoredTypes ==
  ASSUME TaskTypes, NEW t \in Tasks, Storing(t)
  PROVE  /\ TaskTypes'
         /\ result'[t] \in ResultStatuses
         /\ task'[t] = IF task[t] \in ActiveTask THEN SettlesAs(result'[t]) ELSE task[t]
         /\ \A u \in Tasks \ {t} : task'[u] = task[u] /\ result'[u] = result[u]
         /\ \A u \in Planning \ {t} : plan'[u] = plan[u]
         /\ validates' = validates
<1>1. PICK status \in Outcomes[t] :
        /\ result' = [result EXCEPT ![t] = status]
        /\ IF t \in Planning
           THEN \E units \in Units :
                  plan' = [plan EXCEPT ![t] = IF status = "FAILED" THEN "nothing" ELSE units]
           ELSE UNCHANGED plan
        /\ task' = IF task[t] \in ActiveTask
                   THEN [task EXCEPT ![t] = SettlesAs(status)]
                   ELSE task
        /\ UNCHANGED validates
  BY DEF Storing, CompleteTask, HookStores, StoreOutcome
<1>2. status \in ResultStatuses
  BY RunAssumption
<1>3. /\ result' \in [Tasks -> {"none"} \cup ResultStatuses]
      /\ result'[t] = status
      /\ \A u \in Tasks \ {t} : result'[u] = result[u]
  BY <1>1, <1>2 DEF TaskTypes
<1>4. /\ plan' \in [Planning -> AnyUnits]
      /\ \A u \in Planning \ {t} : plan'[u] = plan[u]
  <2>1. CASE t \in Planning
    <3>1. PICK units \in Units :
            plan' = [plan EXCEPT ![t] = IF status = "FAILED" THEN "nothing" ELSE units]
      BY <1>1, <2>1
    <3>2. (IF status = "FAILED" THEN "nothing" ELSE units) \in AnyUnits
      BY RunAssumption DEF AnyUnits
    <3>3. QED
      BY <3>1, <3>2 DEF TaskTypes
  <2>2. CASE t \notin Planning
    BY <1>1, <2>2 DEF TaskTypes
  <2>3. QED
    BY <2>1, <2>2
<1>5. /\ task' \in [Tasks -> {"ABSENT"} \cup ActiveTask \cup TerminalTask]
      /\ task'[t] = IF task[t] \in ActiveTask THEN SettlesAs(status) ELSE task[t]
      /\ \A u \in Tasks \ {t} : task'[u] = task[u]
  <2>1. SettlesAs(status) \in TerminalTask
    BY DEF SettlesAs, TerminalTask
  <2>2. QED
    BY <1>1, <2>1 DEF TaskTypes
<1>6. QED
  BY <1>1, <1>2, <1>3, <1>4, <1>5 DEF TaskTypes

(* Only active tasks are stopped. *)
LEMMA StoppedTypes ==
  ASSUME TaskTypes
  PROVE  /\ Stopped \in [Tasks -> {"ABSENT"} \cup ActiveTask \cup TerminalTask]
         /\ \A t \in Tasks :
              Stopped[t] = IF task[t] \in ActiveTask THEN "CANCELLED" ELSE task[t]
BY DEF TaskTypes, Stopped, TerminalTask

LEMMA TasksTyped ==
  ASSUME TaskTypes, Orderly, StepKinds
  PROVE  TaskTypes'
<1>1. UNCHANGED taskVars => TaskTypes'
  BY DEF taskVars, TaskTypes
<1>2. ASSUME NEW a \in Advancers, DecideDispatch(a) \/ Finalize(a)
      PROVE  UNCHANGED taskVars
  BY <1>2 DEF DecideDispatch, Finalize
<1>3. ASSUME NEW a \in Advancers, FinalizeDeadline(a)
      PROVE  TaskTypes'
  <2>1. task' = Stopped /\ UNCHANGED <<result, plan, validates>>
    BY <1>3 DEF FinalizeDeadline
  <2>2. QED
    BY <2>1, StoppedTypes DEF TaskTypes
<1>4. ASSUME NEW e \in inflight, InsertTask(e)
      PROVE  TaskTypes'
  <2>1. e.task \in Tasks /\ e.parent \in Planning \cup {"none"}
    BY DEF Orderly, DeliveryTypes, Envelopes
  <2>2. CASE Missing(e.task)
    <3>1. /\ task' = [task EXCEPT ![e.task] = "PENDING"]
          /\ validates' \in {e.parent, validates}
          /\ UNCHANGED <<result, plan>>
      BY <1>4, <2>2 DEF InsertTask
    <3>2. QED
      BY <2>1, <3>1 DEF TaskTypes, ActiveTask
  <2>3. CASE ~Missing(e.task)
    BY <1>1, <1>4, <2>3 DEF InsertTask, taskVars
  <2>4. QED
    BY <2>2, <2>3
<1>5. ASSUME NEW t \in Tasks, Working(t)
      PROVE  TaskTypes'
  <2>1. /\ task' \in {task, [task EXCEPT ![t] = "RUNNING"]}
        /\ UNCHANGED <<result, plan, validates>>
    BY <1>5 DEF Working, ClaimTask, SkipTask, BeginTask, AttemptFails, ExhaustTask, HookBegins,
                HookLost, taskVars
  <2>2. QED
    BY <2>1 DEF TaskTypes, ActiveTask
<1>6. CASE Review
  BY <1>1, <1>6 DEF Review
<1>7. CASE Cancel
  <2>1. task' = Stopped /\ UNCHANGED <<result, plan, validates>>
    BY <1>7 DEF Cancel
  <2>2. QED
    BY <2>1, StoppedTypes DEF TaskTypes
<1>8. QED
  BY <1>1, <1>2, <1>3, <1>4, <1>5, <1>6, <1>7, StoredTypes DEF StepKinds, Quiet

LEMMA WorkTyped ==
  ASSUME WorkTypes, Orderly, StepKinds, faults' \in 0..MaxFaults
  PROVE  WorkTypes'
<1>1. UNCHANGED <<agentJob, work>> => WorkTypes'
  BY DEF WorkTypes
<1>2. ASSUME NEW a \in Advancers, DecideDispatch(a) \/ Finalize(a) \/ FinalizeDeadline(a)
      PROVE  UNCHANGED <<agentJob, work>>
  BY <1>2 DEF DecideDispatch, Finalize, FinalizeDeadline
<1>3. CASE Cancel
  <2>1. /\ agentJob' = [t \in Tasks |->
                          IF agentJob[t] = "READY" THEN "CANCELLED" ELSE agentJob[t]]
        /\ UNCHANGED work
    BY <1>3 DEF Cancel
  <2>2. QED
    BY <2>1 DEF WorkTypes, JobStatuses
<1>4. ASSUME NEW e \in inflight, InsertTask(e)
      PROVE  WorkTypes'
  <2>1. agentJob' \in {agentJob, [agentJob EXCEPT ![e.task] = "READY"]} /\ UNCHANGED work
    BY <1>4 DEF InsertTask
  <2>2. QED
    BY <2>1 DEF WorkTypes, JobStatuses
<1>5. ASSUME NEW t \in Tasks, Working(t) \/ Storing(t)
      PROVE  WorkTypes'
  <2>1. agentJob' \in {agentJob, [agentJob EXCEPT ![t] = "LEASED"],
                       [agentJob EXCEPT ![t] = "READY"], [agentJob EXCEPT ![t] = "DONE"],
                       [agentJob EXCEPT ![t] = "FAILED"]}
    BY <1>5 DEF Working, Storing, ClaimTask, SkipTask, BeginTask, AttemptFails, ExhaustTask,
                HookBegins, HookLost, CompleteTask, HookStores
  <2>2. work' \in {[work EXCEPT ![t] = "idle"], [work EXCEPT ![t] = "claimed"],
                   [work EXCEPT ![t] = "working"], [work EXCEPT ![t] = "exhausted"],
                   [work EXCEPT ![t] = "degrading"]}
    <3>1. CASE HookBegins(t)
      BY <3>1 DEF HookBegins
    <3>2. CASE ~HookBegins(t)
      BY <1>5, <3>2 DEF Working, Storing, ClaimTask, SkipTask, BeginTask, AttemptFails,
                        ExhaustTask, HookLost, CompleteTask, HookStores
    <3>3. QED
      BY <3>1, <3>2
  <2>3. QED
    BY <2>1, <2>2 DEF WorkTypes, JobStatuses
<1>6. QED
  BY <1>1, <1>2, <1>3, <1>4, <1>5 DEF StepKinds, Quiet, Review

-----------------------------------------------------------------------------
(* The steps of the first invariant. *)
LEMMA TypedStart == Init => TypeOK /\ AdvancersAgree
<1> SUFFICES ASSUME Init
             PROVE  TypeOK /\ AdvancersAgree
  OBVIOUS
<1>2. RunTypes
  BY DEF Init, RunTypes, ActiveRun
<1>3. 0 \in 0..MaxFaults
  BY RunAssumption
<1>4. WorkTypes
  BY <1>3 DEF Init, WorkTypes, JobStatuses
<1>5. TaskTypes
  BY DEF Init, TaskTypes, AnyUnits
<1>6. <<>> \in Seq(Envelopes)
  BY EmptySeq
<1>7. DeliveryTypes
  BY <1>6 DEF Init, DeliveryTypes, JobTypes, AdvancerTypes, JobStatuses
<1>8. AdvancersAgree
  BY Names DEF Init, AdvancersAgree
<1>9. QED
  BY <1>2, <1>4, <1>5, <1>7, <1>8, TypeParts

LEMMA TypedStep ==
  ASSUME TypeOK, AdvancersAgree, [Next]_vars
  PROVE  TypeOK' /\ AdvancersAgree' /\ StepKinds
<1>1. Orderly /\ RunTypes /\ TaskTypes /\ WorkTypes /\ faults \in 0..MaxFaults
  BY TypeParts DEF Orderly, WorkTypes
<1>2. StepKinds /\ RunTypes' /\ faults' \in 0..MaxFaults
  BY <1>1, NextKinds, AnalysisTyped, FaultsAreBounded
<1>3. Orderly' /\ TaskTypes' /\ WorkTypes'
  BY <1>1, <1>2, KindsAreOrderly, TasksTyped, WorkTyped
<1>4. QED
  BY <1>2, <1>3, TypePartsNext DEF Orderly

LEMMA DeliveriesAgree == Spec => [](TypeOK /\ AdvancersAgree)
<1>1. TypeOK /\ AdvancersAgree /\ [Next]_vars => TypeOK' /\ AdvancersAgree'
  BY TypedStep
<1>2. QED
  BY <1>1, TypedStart, PTL DEF Spec

(* TypeOK of every behaviour: no interleaving of deliveries, requests,      *)
(* agents, hooks, deadline and user leaves the states the tables allow.     *)
THEOREM RunIsTyped == Spec => []TypeOK
BY DeliveriesAgree, PTL

-----------------------------------------------------------------------------
(* Closed runs *)

(* A closed run never moves again, except that a user may cancel one that   *)
(* awaits review: late deliveries, the deadline and results that arrive     *)
(* after the end leave its status, its count and its proposal's origin.     *)
THEOREM ClosedForGood == Spec => ClosedStaysClosed
<1>1. ASSUME TypeOK, AdvancersAgree, [Next]_vars, Closed
      PROVE  /\ run' # run => run = "AWAITING_REVIEW" /\ run' = "CANCELLED"
             /\ closings' = closings /\ replanned' = replanned
             /\ rec = "none" => rec' = "none"
  <2>1. StepKinds
    BY <1>1, TypeParts, NextKinds DEF Orderly
  <2>2. run \notin ActiveRun
    BY <1>1 DEF Closed, ClosedRun, ActiveRun
  <2>3. CASE Quiet
    BY <2>3 DEF Quiet
  <2>4. ASSUME NEW a \in Advancers, DecideDispatch(a) \/ Finalize(a) \/ FinalizeDeadline(a)
        PROVE  FALSE
    BY <2>2, <2>4 DEF DecideDispatch, Finalize, FinalizeDeadline, ActiveRun
  <2>5. ASSUME NEW e \in inflight, InsertTask(e)
        PROVE  UNCHANGED runVars
    BY <2>5 DEF InsertTask
  <2>6. ASSUME NEW t \in Tasks, Working(t) \/ Storing(t)
        PROVE  UNCHANGED runVars
    BY <2>6 DEF Working, Storing, ClaimTask, SkipTask, BeginTask, AttemptFails, ExhaustTask,
                HookBegins, HookLost, CompleteTask, HookStores
  <2>7. CASE Cancel
    BY <2>2, <2>7 DEF Cancel
  <2>8. CASE Review
    BY <2>8 DEF Review
  <2>9. QED
    BY <2>1, <2>3, <2>4, <2>5, <2>6, <2>7, <2>8 DEF StepKinds, runVars
<1>2. TypeOK /\ AdvancersAgree /\ [Next]_vars
        => [Closed =>
              /\ run' # run => run = "AWAITING_REVIEW" /\ run' = "CANCELLED"
              /\ closings' = closings /\ replanned' = replanned
              /\ rec = "none" => rec' = "none"]_vars
  BY <1>1
<1>3. QED
  BY <1>2, DeliveriesAgree, PTL DEF Spec, ClosedStaysClosed

-----------------------------------------------------------------------------
(* Tasks, their jobs, results and wake-ups *)

(* A worker has a task only while its job says so; a task has a job, and    *)
(* a result has ended it and enqueued the advance job that is keyed by it.  *)
JobsAgree ==
  \A t \in Tasks :
    /\ work[t] \in {"claimed", "working"} => agentJob[t] = "LEASED"
    /\ work[t] \in {"exhausted", "degrading"} => agentJob[t] = "FAILED"
    /\ agentJob[t] = "ABSENT" <=> Missing(t)
    /\ result[t] # "none" => work[t] = "idle" /\ agentJob[t] \in {"DONE", "FAILED"}
    /\ result[t] = "none" <=> advance[t] = "ABSENT"

Typed == Orderly /\ RunTypes /\ TaskTypes /\ WorkTypes

(* Both for one task. *)
Settled(t) ==
  /\ work[t] \in {"claimed", "working"} => agentJob[t] = "LEASED"
  /\ work[t] \in {"exhausted", "degrading"} => agentJob[t] = "FAILED"
  /\ agentJob[t] = "ABSENT" <=> task[t] = "ABSENT"
  /\ result[t] # "none" => work[t] = "idle" /\ agentJob[t] \in {"DONE", "FAILED"}
  /\ result[t] = "none" <=> advance[t] = "ABSENT"
  /\ task[t] = "SUCCEEDED" => result[t] \in {"SUCCEEDED", "DEGRADED"}
  /\ task[t] = "FAILED" => result[t] = "FAILED"
  /\ task[t] = "CANCELLED" => run \in ClosedRun
  /\ result[t] # "none" => task[t] \in TerminalTask

LEMMA SettledIs ==
  JobsAgree /\ OutcomesAgree <=> \A t \in Tasks : Settled(t)
BY DEF JobsAgree, OutcomesAgree, Settled, Missing, Usable, Terminal

LEMMA SettledIsNext ==
  JobsAgree' /\ OutcomesAgree' <=> \A t \in Tasks : Settled(t)'
BY DEF JobsAgree, OutcomesAgree, Settled, Missing, Usable, Terminal

(* What is closed stays closed. *)
LEMMA ClosedStays ==
  ASSUME StepKinds, run \in ClosedRun
  PROVE  run' \in ClosedRun
<1>1. ASSUME NEW a \in Advancers, DecideDispatch(a) \/ Finalize(a) \/ FinalizeDeadline(a)
      PROVE  FALSE
  BY <1>1 DEF DecideDispatch, Finalize, FinalizeDeadline, ActiveRun, ClosedRun
<1>2. ASSUME NEW e \in inflight, InsertTask(e)
      PROVE  UNCHANGED run
  BY <1>2 DEF InsertTask, runVars
<1>3. ASSUME NEW t \in Tasks, Working(t) \/ Storing(t)
      PROVE  UNCHANGED run
  BY <1>3 DEF Working, Storing, ClaimTask, SkipTask, BeginTask, AttemptFails, ExhaustTask,
              HookBegins, HookLost, CompleteTask, HookStores, runVars
<1>4. QED
  BY <1>1, <1>2, <1>3 DEF StepKinds, Quiet, Cancel, Review, ClosedRun

LEMMA SettledStep ==
  ASSUME Typed, \A t \in Tasks : Settled(t), StepKinds
  PROVE  \A t \in Tasks : Settled(t)'
<1>1. run \in ClosedRun => run' \in ClosedRun
  BY ClosedStays
<1>2. CASE Quiet
  BY <1>2 DEF Quiet, Settled, taskVars
<1>3. ASSUME NEW a \in Advancers, DecideDispatch(a) \/ Finalize(a)
      PROVE  UNCHANGED <<taskVars, agentJob, work, jobVars>>
  BY <1>3 DEF DecideDispatch, Finalize
<1>4. UNCHANGED <<taskVars, agentJob, work, jobVars>> => \A t \in Tasks : Settled(t)'
  BY <1>1 DEF Settled, taskVars, jobVars
<1>5. ASSUME NEW a \in Advancers, FinalizeDeadline(a)
      PROVE  \A t \in Tasks : Settled(t)'
  <2>1. /\ task' = Stopped /\ run' \in {"DEGRADED", "FAILED"}
        /\ UNCHANGED <<result, agentJob, work, advance>>
    BY <1>5 DEF FinalizeDeadline, jobVars
  <2>2. \A t \in Tasks : task'[t] = IF task[t] \in ActiveTask THEN "CANCELLED" ELSE task[t]
    BY <2>1, StoppedTypes DEF Typed
  <2>3. QED
    BY <2>1, <2>2 DEF Settled, ActiveTask, TerminalTask, ClosedRun
<1>6. CASE Cancel
  <2>1. /\ task' = Stopped /\ run' = "CANCELLED"
        /\ agentJob' = [t \in Tasks |->
                          IF agentJob[t] = "READY" THEN "CANCELLED" ELSE agentJob[t]]
        /\ UNCHANGED <<result, work, advance>>
    BY <1>6 DEF Cancel, jobVars
  <2>2. \A t \in Tasks : task'[t] = IF task[t] \in ActiveTask THEN "CANCELLED" ELSE task[t]
    BY <2>1, StoppedTypes DEF Typed
  <2>3. \A t \in Tasks :
          agentJob'[t] = IF agentJob[t] = "READY" THEN "CANCELLED" ELSE agentJob[t]
    BY <2>1
  <2>4. QED
    BY <2>1, <2>2, <2>3 DEF Settled, ActiveTask, TerminalTask, ClosedRun
<1>7. ASSUME NEW e \in inflight, InsertTask(e)
      PROVE  \A t \in Tasks : Settled(t)'
  <2>1. e.task \in Tasks /\ UNCHANGED <<run, result, work, advance>>
    BY <1>7 DEF InsertTask, Typed, Orderly, DeliveryTypes, Envelopes, runVars, jobVars
  <2>2. CASE Missing(e.task)
    <3>1. /\ task' = [task EXCEPT ![e.task] = "PENDING"]
          /\ agentJob' = [agentJob EXCEPT ![e.task] = "READY"]
      BY <1>7, <2>2 DEF InsertTask
    <3>2. \A t \in Tasks :
            /\ task'[t] = IF t = e.task THEN "PENDING" ELSE task[t]
            /\ agentJob'[t] = IF t = e.task THEN "READY" ELSE agentJob[t]
      BY <2>1, <3>1 DEF Typed, TaskTypes, WorkTypes
    <3>3. QED
      BY <2>1, <2>2, <3>2 DEF Settled, Missing
  <2>3. CASE ~Missing(e.task)
    BY <1>4, <1>7, <2>1, <2>3 DEF InsertTask, taskVars
  <2>4. QED
    BY <2>2, <2>3
<1>8. ASSUME NEW t \in Tasks, Working(t)
      PROVE  \A u \in Tasks : Settled(u)'
  <2>1. UNCHANGED <<run, result, advance>>
    BY <1>8 DEF Working, ClaimTask, SkipTask, BeginTask, AttemptFails, ExhaustTask, HookBegins,
                HookLost, runVars, taskVars, jobVars
  <2>2. \A u \in Tasks \ {t} : task'[u] = task[u] /\ agentJob'[u] = agentJob[u]
                               /\ work'[u] = work[u]
    BY <1>8 DEF Working, ClaimTask, SkipTask, BeginTask, AttemptFails, ExhaustTask, HookBegins,
                HookLost, taskVars, Typed, TaskTypes, WorkTypes
  <2>3. Settled(t)
    OBVIOUS
  <2>4. Settled(t)'
    <3>1. CASE ClaimTask(t)
      BY <2>1, <2>3, <3>1 DEF ClaimTask, Settled, OpenJob, Typed, WorkTypes, taskVars
    <3>2. CASE SkipTask(t)
      BY <2>1, <2>3, <3>2 DEF SkipTask, Settled, Typed, WorkTypes, taskVars
    <3>3. CASE BeginTask(t)
      BY <2>1, <2>3, <3>3 DEF BeginTask, RunnableTask, Settled, Typed, WorkTypes, TaskTypes,
                              ActiveTask, TerminalTask
    <3>4. CASE AttemptFails(t)
      BY <2>1, <2>3, <3>4 DEF AttemptFails, Settled, Typed, WorkTypes, taskVars
    <3>5. CASE ExhaustTask(t)
      BY <2>1, <2>3, <3>5 DEF ExhaustTask, Settled, Typed, WorkTypes, taskVars
    <3>6. CASE HookBegins(t) \/ HookLost(t)
      <4>1. /\ work[t] \in {"exhausted", "degrading"} /\ UNCHANGED <<agentJob, task>>
            /\ work'[t] \in {"idle", "degrading"}
        BY <3>6 DEF HookBegins, HookLost, Typed, WorkTypes, taskVars
      <4>2. QED
        BY <2>1, <2>3, <4>1 DEF Settled
    <3>7. QED
      BY <1>8, <3>1, <3>2, <3>3, <3>4, <3>5, <3>6 DEF Working
  <2>5. QED
    BY <2>1, <2>2, <2>4 DEF Settled
<1>9. ASSUME NEW t \in Tasks, Storing(t)
      PROVE  \A u \in Tasks : Settled(u)'
  <2>1. /\ work[t] \in {"working", "degrading"} /\ AdvanceAfter(t) /\ UNCHANGED run
        /\ agentJob' = IF work[t] = "working" THEN [agentJob EXCEPT ![t] = "DONE"] ELSE agentJob
        /\ work' = [work EXCEPT ![t] = "idle"]
    BY <1>9 DEF Storing, CompleteTask, HookStores, StoreOutcome, runVars
  <2>2. /\ result'[t] \in ResultStatuses
        /\ task'[t] = IF task[t] \in ActiveTask THEN SettlesAs(result'[t]) ELSE task[t]
        /\ \A u \in Tasks \ {t} : task'[u] = task[u] /\ result'[u] = result[u]
    BY <1>9, StoredTypes DEF Typed
  <2>3. Settled(t) /\ t \in Keys
    BY Names
  <2>4. advance[t] = "ABSENT" /\ result[t] = "none" /\ task[t] # "ABSENT"
    BY <2>1, <2>3 DEF Settled
  <2>5. \A u \in Tasks : advance'[u] = IF u = t THEN "READY" ELSE advance[u]
    BY <2>1, <2>3, <2>4, Names DEF AdvanceAfter, Typed, Orderly, DeliveryTypes, JobTypes
  <2>6. \A u \in Tasks :
          /\ work'[u] = IF u = t THEN "idle" ELSE work[u]
          /\ agentJob'[u] = IF u = t /\ work[t] = "working" THEN "DONE" ELSE agentJob[u]
    BY <2>1 DEF Typed, WorkTypes
  <2>7. task[t] \in ActiveTask \cup TerminalTask
    BY <2>4 DEF Typed, TaskTypes
  <2>8. Settled(t)'
    <3>1. agentJob'[t] \in {"DONE", "FAILED"}
      BY <2>1, <2>3, <2>6 DEF Settled
    <3>2. CASE task[t] \in ActiveTask
      BY <2>2, <2>5, <2>6, <3>1, <3>2
         DEF Settled, SettlesAs, TerminalTask, ResultStatuses
    <3>3. CASE task[t] \notin ActiveTask
      <4>1. task'[t] = task[t] /\ task[t] = "CANCELLED" /\ run \in ClosedRun
        BY <2>2, <2>3, <2>4, <2>7, <3>3 DEF Settled, TerminalTask
      <4>2. QED
        BY <2>1, <2>2, <2>5, <2>6, <3>1, <4>1 DEF Settled, TerminalTask, ResultStatuses
    <3>4. QED
      BY <3>2, <3>3
  <2>9. QED
    BY <2>1, <2>2, <2>5, <2>6, <2>8 DEF Settled
<1>10. CASE Review
  BY <1>4, <1>10 DEF Review
<1>11. QED
  BY <1>2, <1>3, <1>4, <1>5, <1>6, <1>7, <1>8, <1>9, <1>10 DEF StepKinds

-----------------------------------------------------------------------------
(* What no step takes back *)

(* Tasks stay, an ended task keeps its status, a stored result and its plan *)
(* are never replaced, and the decision to replan stands.                   *)
Grows ==
  /\ \A t \in Tasks :
       /\ task[t] # "ABSENT" => task'[t] # "ABSENT"
       /\ task[t] \in TerminalTask => task'[t] = task[t]
       /\ result[t] # "none" => result'[t] = result[t]
  /\ \A t \in Planning : result[t] # "none" => plan'[t] = plan[t]
  /\ replanned => replanned'

(* No task is created. *)
NoNewTask ==
  /\ \A t \in Tasks : task[t] = "ABSENT" => task'[t] = "ABSENT"
  /\ validates' = validates

(* Nothing is decided. *)
NoDecision == Pending' \subseteq Pending /\ replanned' = replanned

LEMMA GraphGrows ==
  ASSUME Typed, \A t \in Tasks : Settled(t), StepKinds
  PROVE  /\ Grows
         /\ NoDecision \/ \E a \in Advancers : DecideDispatch(a)
         /\ NoNewTask \/ \E e \in inflight : InsertTask(e)
<1>1. UNCHANGED <<todo, inflight, replanned>> => NoDecision
  BY DEF NoDecision, Pending
<1>2. UNCHANGED <<taskVars, replanned>> => Grows /\ NoNewTask
  BY DEF Grows, NoNewTask, taskVars
<1>3. CASE Quiet
  BY <1>2, <1>3 DEF Quiet, NoDecision
<1>4. ASSUME NEW a \in Advancers, DecideDispatch(a)
      PROVE  Grows /\ NoNewTask
  BY <1>4 DEF DecideDispatch, Grows, NoNewTask, taskVars
<1>5. ASSUME NEW a \in Advancers, Finalize(a)
      PROVE  Grows /\ NoNewTask /\ NoDecision
  BY <1>1, <1>2, <1>5 DEF Finalize
<1>6. \A t \in Tasks : Stopped[t] = IF task[t] \in ActiveTask THEN "CANCELLED" ELSE task[t]
  BY StoppedTypes DEF Typed
<1>7. ASSUME UNCHANGED <<result, plan, validates, replanned>>, task' = Stopped
      PROVE  Grows /\ NoNewTask
  BY <1>6, <1>7 DEF Grows, NoNewTask, ActiveTask, TerminalTask
<1>8. ASSUME NEW a \in Advancers, FinalizeDeadline(a)
      PROVE  Grows /\ NoNewTask /\ NoDecision
  BY <1>1, <1>7, <1>8 DEF FinalizeDeadline
<1>9. CASE Cancel
  BY <1>1, <1>7, <1>9 DEF Cancel, advancerVars
<1>10. CASE Review
  BY <1>1, <1>2, <1>10 DEF Review, advancerVars
<1>11. ASSUME NEW e \in inflight, InsertTask(e)
       PROVE  Grows /\ NoDecision
  <2>1. /\ inflight' \subseteq inflight /\ UNCHANGED <<todo, replanned, result, plan>>
        /\ task' = IF Missing(e.task) THEN [task EXCEPT ![e.task] = "PENDING"] ELSE task
    BY <1>11 DEF InsertTask, runVars, advancerVars
  <2>2. NoDecision
    BY <2>1 DEF NoDecision, Pending
  <2>3. \A t \in Tasks : task'[t] = task[t] \/ (Missing(t) /\ task'[t] = "PENDING")
    BY <2>1 DEF Typed, TaskTypes, Missing
  <2>4. Grows
    BY <2>1, <2>3 DEF Grows, Missing, TerminalTask
  <2>5. QED
    BY <2>2, <2>4
<1>12. ASSUME NEW t \in Tasks, Working(t)
       PROVE  Grows /\ NoNewTask /\ NoDecision
  <2>1. /\ UNCHANGED <<todo, inflight, replanned, result, plan, validates>>
        /\ \/ UNCHANGED task
           \/ task[t] \in ActiveTask /\ task' = [task EXCEPT ![t] = "RUNNING"]
    BY <1>12 DEF Working, ClaimTask, SkipTask, BeginTask, AttemptFails, ExhaustTask, HookBegins,
                 HookLost, RunnableTask, runVars, taskVars, advancerVars
  <2>2. Grows /\ NoNewTask
    BY <2>1 DEF Grows, NoNewTask, Typed, TaskTypes, ActiveTask, TerminalTask
  <2>3. QED
    BY <1>1, <2>1, <2>2
<1>13. ASSUME NEW t \in Tasks, Storing(t)
       PROVE  Grows /\ NoNewTask /\ NoDecision
  <2>1. work[t] \in {"working", "degrading"} /\ UNCHANGED <<todo, inflight, replanned>>
    BY <1>13 DEF Storing, CompleteTask, HookStores, runVars, advancerVars
  <2>2. result[t] = "none" /\ task[t] # "ABSENT"
    BY <2>1 DEF Settled
  <2>3. /\ task'[t] = IF task[t] \in ActiveTask THEN SettlesAs(result'[t]) ELSE task[t]
        /\ \A u \in Tasks \ {t} : task'[u] = task[u] /\ result'[u] = result[u]
        /\ \A u \in Planning \ {t} : plan'[u] = plan[u]
        /\ validates' = validates
    BY <1>13, StoredTypes DEF Typed
  <2>4. \A u \in Tasks :
          /\ task[u] # "ABSENT" => task'[u] # "ABSENT"
          /\ task[u] \in TerminalTask => task'[u] = task[u]
          /\ task[u] = "ABSENT" => task'[u] = "ABSENT"
    BY <2>2, <2>3 DEF SettlesAs, ActiveTask, TerminalTask
  <2>5. Grows /\ NoNewTask
    BY <2>1, <2>2, <2>3, <2>4, Names DEF Grows, NoNewTask
  <2>6. QED
    BY <1>1, <2>1, <2>5
<1>14. QED
  BY <1>3, <1>4, <1>5, <1>8, <1>9, <1>10, <1>11, <1>12, <1>13 DEF StepKinds

-----------------------------------------------------------------------------
(* What decisions rest on *)

(* The finished first plan has the shortage that a second one answers. *)
MayRevise == PlanningMayStart /\ Terminal("planning0") /\ NeedsReplan

(* p is the final plan, finished, and commits units; if it is the first one *)
(* then no second one will be asked for.                                    *)
MayValidate(p) ==
  /\ p = FinalPlan /\ PlanningMayStart /\ Terminal("planning0") /\ Terminal(p)
  /\ AllocatesUnits(p)
  /\ p = "planning0" => result["rm0"] # "none" /\ ~WantsReplan

(* What a pending envelope was decided on still holds. *)
Justified(e) ==
  /\ e.task \in RoundZero \cup {"planning0"} => e.parent = "none"
  /\ e.task = "planning0" => PlanningMayStart
  /\ e.task = "planning1" => e.parent = "planning0" /\ MayRevise /\ replanned
  /\ e.task = "rm1" => MayValidate(e.parent)

(* Every pending envelope and every task has its reason. *)
GraphJustified ==
  /\ \A e \in Pending : Justified(e)
  /\ Present("planning0") => PlanningMayStart
  /\ replanned => MayRevise
  /\ Present("planning1") => replanned
  /\ Present("rm1") => MayValidate(validates)

LEMMA TaskNames ==
  /\ Tasks = {"rm0", "ie0", "quality0", "planning0", "planning1", "rm1"}
  /\ RoundZero = {"rm0", "ie0", "quality0"} /\ Planning = {"planning0", "planning1"}
BY DEF Tasks, RoundZero, Planning

LEMMA StartStays ==
  ASSUME Grows, PlanningMayStart
  PROVE  PlanningMayStart'
BY TaskNames DEF Grows, PlanningMayStart, Missing, Terminal

LEMMA RevisionStays ==
  ASSUME Grows, MayRevise
  PROVE  MayRevise'
<1>1. PlanningMayStart'
  BY StartStays DEF MayRevise
<1>2. task'["planning0"] = task["planning0"]
  BY TaskNames DEF Grows, MayRevise, Terminal
<1>3. result["planning0"] # "none" /\ result["rm0"] # "none"
  BY DEF MayRevise, NeedsReplan, Usable
<1>4. /\ result'["planning0"] = result["planning0"] /\ result'["rm0"] = result["rm0"]
      /\ plan'["planning0"] = plan["planning0"]
  BY <1>3, TaskNames DEF Grows
<1>5. QED
  BY <1>1, <1>2, <1>4 DEF MayRevise, NeedsReplan, Usable, Terminal

LEMMA ValidationStays ==
  ASSUME Grows, NEW p \in Planning, MayValidate(p), FinalPlan' = FinalPlan,
         replanned' => WantsReplan
  PROVE  MayValidate(p)'
<1>1. PlanningMayStart'
  BY StartStays DEF MayValidate
<1>2. task'["planning0"] = task["planning0"] /\ task'[p] = task[p]
  BY TaskNames DEF Grows, MayValidate, Terminal
<1>3. result[p] # "none"
  BY DEF MayValidate, AllocatesUnits, Usable
<1>4. result'[p] = result[p] /\ plan'[p] = plan[p]
  BY <1>3, TaskNames DEF Grows
<1>5. AllocatesUnits(p)'
  BY <1>4 DEF MayValidate, AllocatesUnits, Usable
<1>6. p = "planning0" => result'["rm0"] # "none" /\ ~WantsReplan'
  <2> SUFFICES ASSUME p = "planning0"
               PROVE  result'["rm0"] # "none" /\ ~WantsReplan'
    OBVIOUS
  <2>1. result["rm0"] # "none" /\ ~WantsReplan
    BY DEF MayValidate
  <2>2. result'["rm0"] = result["rm0"]
    BY <2>1, TaskNames DEF Grows
  <2>3. ~NeedsReplan'
    BY <1>4, <2>1, <2>2 DEF NeedsReplan, WantsReplan, Usable
  <2>4. QED
    BY <2>1, <2>2, <2>3 DEF WantsReplan
<1>7. QED
  BY <1>1, <1>2, <1>5, <1>6 DEF MayValidate, Terminal

LEMMA JustifiedStays ==
  ASSUME Grows, NEW e, Justified(e), FinalPlan' = FinalPlan, replanned' => WantsReplan
  PROVE  Justified(e)'
<1>1. e.task = "planning0" => PlanningMayStart'
  BY StartStays DEF Justified
<1>2. e.task = "planning1" => e.parent = "planning0" /\ MayRevise' /\ replanned'
  BY RevisionStays DEF Justified, Grows
<1>3. e.task = "rm1" => MayValidate(e.parent)'
  <2> SUFFICES ASSUME e.task = "rm1"
               PROVE  MayValidate(e.parent)'
    OBVIOUS
  <2>1. MayValidate(e.parent)
    BY DEF Justified
  <2>2. e.parent \in Planning
    BY <2>1, FinalPlanType DEF MayValidate
  <2>3. QED
    BY <2>1, <2>2, ValidationStays
<1>4. QED
  BY <1>1, <1>2, <1>3 DEF Justified

(* While the run is active, what it wants is justified. *)
LEMMA WantedIsJustified ==
  ASSUME Typed, \A u \in Tasks : Settled(u), GraphJustified, run \in ActiveRun,
         NEW t \in Tasks, Wanted(t)
  PROVE  /\ t \in RoundZero \cup {"planning0"} => Parent(t) = "none"
         /\ t = "planning0" => PlanningMayStart
         /\ t = "planning1" => Parent(t) = "planning0" /\ MayRevise
         /\ t = "rm1" => MayValidate(Parent(t))
<1>1. t \in RoundZero \cup {"planning0"} => Parent(t) = "none"
  BY TaskNames DEF Parent
<1>2. t = "planning0" => PlanningMayStart
  BY TaskNames DEF Wanted
<1>3. t = "planning1" => Parent(t) = "planning0" /\ MayRevise
  <2> SUFFICES ASSUME t = "planning1"
               PROVE  Parent(t) = "planning0" /\ MayRevise
    OBVIOUS
  <2>1. PlanningMayStart /\ Terminal("planning0") /\ WantsReplan
    BY TaskNames DEF Wanted
  <2>2. QED
    BY <2>1 DEF Parent, WantsReplan, MayRevise, GraphJustified
<1>4. t = "rm1" => MayValidate(Parent(t))
  <2> SUFFICES ASSUME t = "rm1"
               PROVE  MayValidate(FinalPlan)
    BY DEF Parent
  <2>1. PlanIsFinal /\ AllocatesUnits(FinalPlan)
    BY TaskNames DEF Wanted
  <2>2. PlanningMayStart /\ Terminal("planning0") /\ Terminal("rm0")
        /\ (WantsReplan => Terminal("planning1"))
    BY <2>1 DEF PlanIsFinal, PlanningMayStart
  <2>3. run \notin ClosedRun
    BY DEF ActiveRun, ClosedRun
  <2>4. result["rm0"] # "none"
    BY <2>2, <2>3, TaskNames DEF Settled, Terminal, TerminalTask
  <2>5. CASE Missing("planning1")
    <3>1. FinalPlan = "planning0" /\ ~WantsReplan
      BY <2>2, <2>5 DEF FinalPlan, Terminal, TerminalTask, Missing
    <3>2. QED
      BY <2>1, <2>2, <2>4, <3>1 DEF MayValidate
  <2>6. CASE ~Missing("planning1")
    <3>1. FinalPlan = "planning1" /\ WantsReplan
      BY <2>6 DEF FinalPlan, GraphJustified, Present, WantsReplan
    <3>2. QED
      BY <2>1, <2>2, <3>1 DEF MayValidate
  <2>7. QED
    BY <2>5, <2>6
<1>5. QED
  BY <1>1, <1>2, <1>3, <1>4

LEMMA GraphStep ==
  ASSUME Typed, \A t \in Tasks : Settled(t), GraphJustified, StepKinds
  PROVE  GraphJustified'
<1>1. /\ Grows
      /\ NoDecision \/ \E a \in Advancers : DecideDispatch(a)
      /\ NoNewTask \/ \E e \in inflight : InsertTask(e)
  BY GraphGrows
<1>2. NoNewTask => FinalPlan' = FinalPlan
  BY <1>1, TaskNames DEF Grows, NoNewTask, FinalPlan, Missing
<1>3. \A e \in inflight : e \in Pending /\ e.task \in Tasks
  BY DEF Pending, Typed, Orderly, DeliveryTypes, Envelopes
<1>4. ASSUME NEW a \in Advancers, DecideDispatch(a)
      PROVE  GraphJustified'
  <2>1. /\ run \in ActiveRun
        /\ replanned' = (replanned \/ Wanted("planning1"))
        /\ todo' = [todo EXCEPT ![a] = Dispatches]
        /\ UNCHANGED <<task, result, plan, validates, inflight>>
    BY <1>4 DEF DecideDispatch, taskVars
  <2>2. FinalPlan' = FinalPlan
    BY <2>1 DEF FinalPlan, Missing
  <2>3. replanned' => WantsReplan
    BY <2>1, TaskNames DEF Wanted, WantsReplan
  <2>4. \A e \in Pending' : e \in Pending \/ e \in Elements(Dispatches)
    <3>1. \A b \in Advancers : todo'[b] = IF b = a THEN Dispatches ELSE todo[b]
      BY <2>1 DEF Typed, Orderly, DeliveryTypes, AdvancerTypes
    <3>2. QED
      BY <2>1, <3>1 DEF Pending, Elements
  <2>5. ASSUME NEW e \in Elements(Dispatches)
        PROVE  Justified(e)'
    <3>1. e.task \in Tasks /\ Wanted(e.task) /\ e = Envelope(e.task)
      BY DispatchesAreWanted
    <3>2. e.parent = Parent(e.task)
      BY <3>1 DEF Envelope
    <3>3. e.task \in RoundZero \cup {"planning0"} => e.parent = "none"
      BY <2>1, <3>1, <3>2, WantedIsJustified
    <3>4. e.task = "planning0" => PlanningMayStart'
      BY <1>1, <2>1, <3>1, WantedIsJustified, StartStays
    <3>5. e.task = "planning1" => e.parent = "planning0" /\ MayRevise' /\ replanned'
      BY <1>1, <2>1, <3>1, <3>2, WantedIsJustified, RevisionStays
    <3>6. e.task = "rm1" => MayValidate(e.parent)'
      <4> SUFFICES ASSUME e.task = "rm1"
                   PROVE  MayValidate(e.parent)'
        OBVIOUS
      <4>1. MayValidate(e.parent)
        BY <2>1, <3>1, <3>2, WantedIsJustified
      <4>2. e.parent \in Planning
        BY <4>1, FinalPlanType DEF MayValidate
      <4>3. QED
        BY <1>1, <2>2, <2>3, <4>1, <4>2, ValidationStays
    <3>7. QED
      BY <3>3, <3>4, <3>5, <3>6 DEF Justified
  <2>6. \A e \in Pending' : Justified(e)'
    BY <1>1, <2>2, <2>3, <2>4, <2>5, JustifiedStays DEF GraphJustified
  <2>7. replanned' => MayRevise'
    BY <1>1, <2>1, TaskNames, WantedIsJustified, RevisionStays DEF GraphJustified
  <2>8. Present("planning0")' => PlanningMayStart'
    BY <1>1, <2>1, StartStays DEF GraphJustified, Present, Missing
  <2>9. Present("planning1")' => replanned'
    BY <2>1 DEF GraphJustified, Present, Missing
  <2>10. Present("rm1")' => MayValidate(validates)'
    <3> SUFFICES ASSUME Present("rm1")'
                 PROVE  MayValidate(validates)'
      OBVIOUS
    <3>1. MayValidate(validates)
      BY <2>1 DEF GraphJustified, Present, Missing
    <3>2. validates \in Planning
      BY <3>1, FinalPlanType DEF MayValidate
    <3>3. \A p \in Planning : MayValidate(p) => MayValidate(p)'
      BY <1>1, <2>2, <2>3, ValidationStays
    <3>4. QED
      BY <2>1, <3>1, <3>2, <3>3 DEF MayValidate
  <2>11. QED
    BY <2>6, <2>7, <2>8, <2>9, <2>10 DEF GraphJustified
<1>5. ASSUME NoDecision, NoNewTask
      PROVE  GraphJustified'
  <2>1. FinalPlan' = FinalPlan /\ (replanned' => WantsReplan)
    BY <1>2, <1>5 DEF NoDecision, WantsReplan
  <2>2. \A e \in Pending' : Justified(e)'
    BY <1>1, <1>5, <2>1, JustifiedStays DEF NoDecision, GraphJustified
  <2>3. \A t \in Tasks : Present(t)' => Present(t)
    BY <1>5 DEF NoNewTask, Present, Missing
  <2>4. Present("planning0")' => PlanningMayStart'
    BY <1>1, <2>3, TaskNames, StartStays DEF GraphJustified
  <2>5. replanned' => MayRevise'
    BY <1>1, <1>5, RevisionStays DEF GraphJustified, NoDecision
  <2>6. Present("planning1")' => replanned'
    BY <1>5, <2>3, TaskNames DEF GraphJustified, NoDecision
  <2>7. Present("rm1")' => MayValidate(validates)'
    <3> SUFFICES ASSUME Present("rm1")'
                 PROVE  MayValidate(validates)'
      OBVIOUS
    <3>1. MayValidate(validates)
      BY <2>3, TaskNames DEF GraphJustified
    <3>2. validates \in Planning
      BY <3>1, FinalPlanType DEF MayValidate
    <3>3. \A p \in Planning : MayValidate(p) => MayValidate(p)'
      BY <1>1, <2>1, ValidationStays
    <3>4. QED
      BY <1>5, <3>1, <3>2, <3>3 DEF MayValidate, NoNewTask
  <2>8. QED
    BY <2>2, <2>4, <2>5, <2>6, <2>7 DEF GraphJustified
<1>6. ASSUME NEW e \in inflight, InsertTask(e), NoDecision
      PROVE  GraphJustified'
  <2>1. Justified(e) /\ e.task \in Tasks
    BY <1>3 DEF GraphJustified
  <2>2. CASE ~Missing(e.task)
    <3>1. NoNewTask
      BY <1>6, <2>2 DEF InsertTask, NoNewTask
    <3>2. QED
      BY <1>5, <1>6, <3>1
  <2>3. CASE Missing(e.task)
    <3>1. /\ \A t \in Tasks : task'[t] = IF t = e.task THEN "PENDING" ELSE task[t]
          /\ validates' = IF e.task = "rm1" THEN e.parent ELSE validates
      BY <1>6, <2>3 DEF InsertTask, Typed, TaskTypes
    <3>2. \A t \in Tasks : Present(t)' <=> Present(t) \/ t = e.task
      BY <3>1 DEF Present, Missing
    <3>3. Present("planning0")' => PlanningMayStart'
      BY <1>1, <2>1, <3>2, TaskNames, StartStays DEF GraphJustified, Justified
    <3>4. replanned' => MayRevise'
      BY <1>1, <1>6, RevisionStays DEF GraphJustified, NoDecision
    <3>5. Present("planning1")' => replanned'
      BY <1>6, <2>1, <3>2, TaskNames DEF GraphJustified, NoDecision, Justified
    <3>6. replanned' => WantsReplan
      BY <1>6 DEF NoDecision, WantsReplan
    <3>7. CASE e.task = "planning1"
      <4>1. \A p : ~MayValidate(p)
        BY <2>1, <2>3, <3>7 DEF Justified, MayValidate, WantsReplan, FinalPlan
      <4>2. ~Present("rm1")'
        BY <3>2, <3>7, <4>1, TaskNames DEF GraphJustified
      <4>3. ASSUME NEW f \in Pending'
            PROVE  Justified(f)'
        <5>1. Justified(f) /\ f.task # "rm1"
          BY <1>6, <4>1, <4>3 DEF NoDecision, GraphJustified, Justified
        <5>2. QED
          BY <1>1, <5>1, StartStays, RevisionStays DEF Justified, Grows
      <4>4. QED
        BY <3>3, <3>4, <3>5, <4>2, <4>3 DEF GraphJustified
    <3>8. CASE e.task # "planning1"
      <4>1. FinalPlan' = FinalPlan
        BY <3>1, <3>8, TaskNames DEF FinalPlan, Missing
      <4>2. \A f \in Pending' : Justified(f)'
        BY <1>1, <1>6, <3>6, <4>1, JustifiedStays DEF NoDecision, GraphJustified
      <4>3. Present("rm1")' => MayValidate(validates)'
        <5> SUFFICES ASSUME Present("rm1")'
                     PROVE  MayValidate(validates)'
          OBVIOUS
        <5>1. MayValidate(validates')
          BY <2>1, <3>1, <3>2, TaskNames DEF GraphJustified, Justified
        <5>2. validates' \in Planning
          BY <5>1, FinalPlanType DEF MayValidate
        <5>3. \A p \in Planning : MayValidate(p) => MayValidate(p)'
          BY <1>1, <3>6, <4>1, ValidationStays
        <5>4. QED
          BY <5>1, <5>2, <5>3 DEF MayValidate
      <4>4. QED
        BY <3>3, <3>4, <3>5, <4>2, <4>3 DEF GraphJustified
    <3>9. QED
      BY <3>7, <3>8
  <2>4. QED
    BY <2>2, <2>3
<1>7. QED
  <2>1. CASE \E a \in Advancers : DecideDispatch(a)
    BY <1>4, <2>1
  <2>2. CASE NoDecision
    BY <1>1, <1>5, <1>6, <2>2
  <2>3. QED
    BY <1>1, <2>1, <2>2

-----------------------------------------------------------------------------
(* The end of a run *)

(* The graph is finished and every task of it has its result. *)
Ended == MayFinalize /\ \A t \in Tasks : Present(t) => Terminal(t) /\ result[t] # "none"

(* An active run is not closed yet, and what a proposal or a complete run   *)
(* stands for is a finished graph.                                          *)
ClosedOnce ==
  /\ run \in ActiveRun => closings = 0 /\ rec = "none"
  /\ rec # "none" \/ run = "COMPLETED" => Ended

(* Nothing that is still pending can add a task to a finished graph. *)
LEMMA EndedIsWhole ==
  ASSUME GraphJustified, Ended, NEW e \in Pending, e.task \in Tasks
  PROVE  Present(e.task)
<1>1. Justified(e)
  BY DEF GraphJustified
<1>2. /\ PlanningMayStart /\ Terminal("planning0") /\ (WantsReplan => Terminal("planning1"))
      /\ (AllocatesUnits(FinalPlan) => Terminal("rm1"))
  BY DEF Ended, MayFinalize, PlanIsFinal
<1>3. \A t \in Tasks : Terminal(t) => Present(t)
  BY DEF Terminal, TerminalTask, Present, Missing
<1>4. CASE e.task \in RoundZero
  BY <1>2, <1>4 DEF PlanningMayStart, Present
<1>5. CASE e.task = "planning0"
  BY <1>2, <1>3, <1>5, TaskNames
<1>6. CASE e.task = "planning1"
  BY <1>1, <1>2, <1>3, <1>6, TaskNames DEF Justified, WantsReplan
<1>7. CASE e.task = "rm1"
  BY <1>1, <1>2, <1>3, <1>7, TaskNames DEF Justified, MayValidate
<1>8. QED
  BY <1>4, <1>5, <1>6, <1>7, TaskNames

(* A closed and finished graph is frozen. *)
LEMMA EndedStays ==
  ASSUME Typed, \A t \in Tasks : Settled(t), GraphJustified, StepKinds,
         run \notin ActiveRun, Ended
  PROVE  /\ UNCHANGED <<task, replanned>>
         /\ \A t \in Tasks : result'[t] = result[t]
         /\ \A t \in Planning : plan'[t] = plan[t]
<1>1. \A t \in Tasks : task[t] \notin ActiveTask
  BY DEF Ended, Present, Missing, Terminal, ActiveTask, TerminalTask
<1>2. \A t \in Tasks : task[t] # "ABSENT" => result[t] # "none" /\ work[t] = "idle"
  BY DEF Ended, Present, Missing, Settled
<1>3. CASE Quiet
  BY <1>3 DEF Quiet, taskVars
<1>4. ASSUME NEW a \in Advancers, DecideDispatch(a) \/ Finalize(a) \/ FinalizeDeadline(a)
      PROVE  FALSE
  BY <1>4 DEF DecideDispatch, Finalize, FinalizeDeadline, ActiveRun
<1>5. ASSUME NEW e \in inflight, InsertTask(e)
      PROVE  UNCHANGED <<task, replanned, result, plan>>
  <2>1. e \in Pending /\ e.task \in Tasks
    BY DEF Pending, Typed, Orderly, DeliveryTypes, Envelopes
  <2>2. ~Missing(e.task)
    BY <2>1, EndedIsWhole DEF Present
  <2>3. QED
    BY <1>5, <2>2 DEF InsertTask, runVars
<1>6. ASSUME NEW t \in Tasks, Working(t)
      PROVE  UNCHANGED <<task, replanned, result, plan>>
  BY <1>1, <1>6 DEF Working, ClaimTask, SkipTask, BeginTask, AttemptFails, ExhaustTask,
                    HookBegins, HookLost, RunnableTask, runVars, taskVars
<1>7. ASSUME NEW t \in Tasks, Storing(t)
      PROVE  FALSE
  <2>1. work[t] \in {"working", "degrading"}
    BY <1>7 DEF Storing, CompleteTask, HookStores
  <2>2. task[t] # "ABSENT"
    BY <2>1 DEF Settled
  <2>3. QED
    BY <1>2, <2>1, <2>2
<1>8. CASE Cancel
  <2>1. task' = Stopped /\ UNCHANGED <<result, plan, replanned>>
    BY <1>8 DEF Cancel
  <2>2. Stopped = task
    BY <1>1 DEF Stopped, Typed, TaskTypes
  <2>3. QED
    BY <2>1, <2>2
<1>9. CASE Review
  BY <1>9 DEF Review, taskVars
<1>10. QED
  BY <1>3, <1>4, <1>5, <1>6, <1>7, <1>8, <1>9 DEF StepKinds

(* What finalizing finds. *)
LEMMA FinalizeEnds ==
  ASSUME Typed, \A t \in Tasks : Settled(t), GraphJustified, run = "RUNNING", MayFinalize
  PROVE  Ended
<1>1. /\ \A t \in RoundZero : Present(t)
      /\ Terminal("rm0") /\ Terminal("ie0") /\ Terminal("quality0") /\ Terminal("planning0")
      /\ WantsReplan => Terminal("planning1")
      /\ AllocatesUnits(FinalPlan) => Terminal("rm1")
  BY DEF MayFinalize, PlanIsFinal, PlanningMayStart, Present
<1>2. Present("planning1") => Terminal("planning1")
  BY <1>1 DEF GraphJustified, WantsReplan
<1>3. Present("rm1") => Terminal("rm1")
  BY <1>1 DEF GraphJustified, MayValidate
<1>4. \A t \in Tasks : Present(t) => Terminal(t)
  BY <1>1, <1>2, <1>3, TaskNames
<1>5. \A t \in Tasks : Terminal(t) => result[t] # "none"
  BY DEF Settled, Terminal, TerminalTask, ClosedRun
<1>6. QED
  BY <1>4, <1>5 DEF Ended

LEMMA FinalStep ==
  ASSUME Typed, \A t \in Tasks : Settled(t), GraphJustified, ClosedOnce, ClosedRunIsComplete,
         NEW a \in Advancers, Finalize(a)
  PROVE  ClosedOnce' /\ ClosedRunIsComplete'
<1>1. /\ run = "RUNNING" /\ MayFinalize
      /\ run' = FinalStatus /\ closings' = closings + 1
      /\ rec' = IF AllocatesUnits(FinalPlan) THEN "open" ELSE "none"
      /\ UNCHANGED <<replanned, task, result, plan>>
  BY DEF Finalize, taskVars
<1>2. Ended /\ closings = 0
  BY <1>1, FinalizeEnds DEF ClosedOnce, ActiveRun
<1>3. /\ FinalPlan' = FinalPlan
      /\ AllocatesUnits(FinalPlan)' <=> AllocatesUnits(FinalPlan)
      /\ Ended'
      /\ \A t \in Tasks : (Present(t)' <=> Present(t)) /\ (Terminal(t)' <=> Terminal(t))
  BY <1>1, <1>2 DEF FinalPlan, AllocatesUnits, Usable, Ended, MayFinalize, PlanIsFinal,
                    PlanningMayStart, WantsReplan, NeedsReplan, Present, Missing, Terminal
<1>4. AllocatesUnits(FinalPlan) => run' = "AWAITING_REVIEW"
  <2>1. AllocatesUnits(FinalPlan) => task[FinalPlan] # "FAILED"
    BY FinalPlanType, Names DEF AllocatesUnits, Usable, Settled
  <2>2. QED
    BY <1>1, <2>1 DEF FinalStatus
<1>5. run' = "AWAITING_REVIEW" => AllocatesUnits(FinalPlan)
  BY <1>1 DEF FinalStatus
<1>6. AllocatesUnits(FinalPlan) => Present("rm1")
  BY <1>2 DEF Ended, MayFinalize, Terminal, TerminalTask, Present, Missing
<1>7. run' = "COMPLETED" => \A t \in Tasks : Present(t)' => task'[t] = "SUCCEEDED"
  <2> SUFFICES ASSUME run' = "COMPLETED", NEW t \in Tasks, Present(t)
               PROVE  task[t] = "SUCCEEDED"
    BY <1>1, <1>3
  <2>1. result[t] = "SUCCEEDED"
    BY <1>1, <1>2 DEF FinalStatus, Ended
  <2>2. task[t] \in TerminalTask
    BY <1>2 DEF Ended, Terminal
  <2>3. QED
    BY <1>1, <2>1, <2>2 DEF Settled, TerminalTask, ClosedRun
<1>8. run' \notin ActiveRun /\ run' # "CANCELLED"
  BY <1>1, FinalStatusIsClosed DEF ActiveRun
<1>9. ClosedOnce'
  BY <1>3, <1>8 DEF ClosedOnce
<1>10. closings' = 1
  BY <1>1, <1>2
<1>11. rec' = "open" => run' = "AWAITING_REVIEW"
  BY <1>1, <1>4
<1>12. run' = "AWAITING_REVIEW" => rec' \in {"open", "settled"}
  BY <1>1, <1>5
<1>13. rec' # "none" =>
         /\ AllocatesUnits(FinalPlan)' /\ Present("rm1")'
         /\ \A t \in Tasks : Present(t)' => Terminal(t)'
  BY <1>1, <1>2, <1>3, <1>6, TaskNames DEF Ended
<1>14. QED
  BY <1>7, <1>8, <1>9, <1>10, <1>11, <1>12, <1>13 DEF ClosedRunIsComplete

(* Every other step: the graph of a closed run is frozen. *)
LEMMA FrozenStep ==
  ASSUME Typed, \A t \in Tasks : Settled(t), GraphJustified, ClosedOnce, ClosedRunIsComplete,
         StepKinds,
         rec' # "none" => rec # "none",
         run' = "COMPLETED" => run = "COMPLETED"
  PROVE  /\ rec' # "none" \/ run' = "COMPLETED" => Ended'
         /\ rec' # "none" =>
              /\ AllocatesUnits(FinalPlan)' /\ Present("rm1")'
              /\ \A t \in Tasks : Present(t)' => Terminal(t)'
         /\ run' = "COMPLETED" => \A t \in Tasks : Present(t)' => task'[t] = "SUCCEEDED"
<1> SUFFICES ASSUME rec' # "none" \/ run' = "COMPLETED"
             PROVE  /\ Ended'
                    /\ rec' # "none" =>
                         /\ AllocatesUnits(FinalPlan)' /\ Present("rm1")'
                         /\ \A t \in Tasks : Present(t)' => Terminal(t)'
                    /\ run' = "COMPLETED" =>
                         \A t \in Tasks : Present(t)' => task'[t] = "SUCCEEDED"
  OBVIOUS
<1>1. Ended /\ run \notin ActiveRun
  BY DEF ClosedOnce, ActiveRun
<1>2. /\ UNCHANGED <<task, replanned>>
      /\ \A t \in Tasks : result'[t] = result[t]
      /\ \A t \in Planning : plan'[t] = plan[t]
  BY <1>1, EndedStays
<1>3. FinalPlan' = FinalPlan /\ FinalPlan \in Planning /\ FinalPlan \in Tasks
  BY <1>2, FinalPlanType, Names DEF FinalPlan, Missing
<1>4. AllocatesUnits(FinalPlan)' <=> AllocatesUnits(FinalPlan)
  BY <1>2, <1>3 DEF AllocatesUnits, Usable
<1>5. \A t \in Tasks : (Present(t)' <=> Present(t)) /\ (Terminal(t)' <=> Terminal(t))
  BY <1>2 DEF Present, Missing, Terminal
<1>6. Ended'
  <2>1. PlanIsFinal' <=> PlanIsFinal
    BY <1>2, TaskNames DEF PlanIsFinal, PlanningMayStart, WantsReplan, NeedsReplan, Usable,
                           Terminal, Missing
  <2>2. MayFinalize' <=> MayFinalize
    BY <1>4, <1>5, <2>1, TaskNames DEF MayFinalize
  <2>3. QED
    BY <1>1, <1>2, <1>5, <2>2 DEF Ended
<1>7. QED
  BY <1>2, <1>4, <1>5, <1>6, TaskNames DEF ClosedRunIsComplete

LEMMA ClosedStep ==
  ASSUME Typed, \A t \in Tasks : Settled(t), GraphJustified, ClosedOnce, ClosedRunIsComplete,
         StepKinds
  PROVE  ClosedOnce' /\ ClosedRunIsComplete'
<1>1. CASE \E a \in Advancers : Finalize(a)
  BY <1>1, FinalStep
<1>2. ASSUME UNCHANGED <<run, rec, closings>>
      PROVE  ClosedOnce' /\ ClosedRunIsComplete'
  BY <1>2, FrozenStep DEF ClosedOnce, ClosedRunIsComplete
<1>3. ASSUME NEW a \in Advancers, DecideDispatch(a)
      PROVE  ClosedOnce' /\ ClosedRunIsComplete'
  <2>1. run \in ActiveRun /\ run' = "RUNNING" /\ UNCHANGED <<rec, closings>>
    BY <1>3 DEF DecideDispatch
  <2>2. rec = "none" /\ closings = 0 /\ run' \in ActiveRun
    BY <2>1 DEF ClosedOnce, ActiveRun
  <2>3. QED
    BY <2>1, <2>2 DEF ClosedOnce, ClosedRunIsComplete
<1>4. ASSUME NEW a \in Advancers, FinalizeDeadline(a)
      PROVE  ClosedOnce' /\ ClosedRunIsComplete'
  <2>1. /\ run \in ActiveRun /\ run' \in {"DEGRADED", "FAILED"}
        /\ UNCHANGED rec /\ closings' = closings + 1
    BY <1>4 DEF FinalizeDeadline
  <2>2. rec = "none" /\ closings = 0
    BY <2>1 DEF ClosedOnce
  <2>3. run' \notin ActiveRun
    BY <2>1 DEF ActiveRun
  <2>4. QED
    BY <2>1, <2>2, <2>3 DEF ClosedOnce, ClosedRunIsComplete
<1>5. CASE Cancel
  <2>1. /\ run \in ActiveRun \cup {"AWAITING_REVIEW"} /\ run' = "CANCELLED"
        /\ rec' = (IF rec = "open" THEN "SUPERSEDED" ELSE rec) /\ UNCHANGED closings
    BY <1>5 DEF Cancel
  <2>2. run' \notin ActiveRun /\ (rec' # "none" <=> rec # "none") /\ rec' # "open"
    BY <2>1 DEF ActiveRun
  <2>3. closings' = IF rec' = "none" THEN 0 ELSE 1
    <3>1. CASE run \in ActiveRun
      BY <2>1, <2>2, <3>1 DEF ClosedOnce
    <3>2. CASE run = "AWAITING_REVIEW"
      BY <2>1, <2>2, <3>2 DEF ClosedRunIsComplete, ActiveRun
    <3>3. QED
      BY <2>1, <3>1, <3>2
  <2>4. QED
    BY <2>1, <2>2, <2>3, FrozenStep DEF ClosedOnce, ClosedRunIsComplete
<1>6. CASE Review
  <2>1. rec = "open" /\ rec' = "settled" /\ UNCHANGED <<run, closings>>
    BY <1>6 DEF Review
  <2>2. run = "AWAITING_REVIEW" /\ run \notin ActiveRun
    BY <2>1 DEF ClosedRunIsComplete, ActiveRun
  <2>3. QED
    BY <2>1, <2>2, FrozenStep DEF ClosedOnce, ClosedRunIsComplete
<1>7. ASSUME NEW e \in inflight, InsertTask(e)
      PROVE  UNCHANGED <<run, rec, closings>>
  BY <1>7 DEF InsertTask, runVars
<1>8. ASSUME NEW t \in Tasks, Working(t) \/ Storing(t)
      PROVE  UNCHANGED <<run, rec, closings>>
  BY <1>8 DEF Working, Storing, ClaimTask, SkipTask, BeginTask, AttemptFails, ExhaustTask,
              HookBegins, HookLost, CompleteTask, HookStores, runVars
<1>9. QED
  BY <1>1, <1>2, <1>3, <1>4, <1>5, <1>6, <1>7, <1>8 DEF StepKinds, Quiet

-----------------------------------------------------------------------------
(* The inductive invariant of the graph *)

GraphInv ==
  /\ TypeOK /\ AdvancersAgree
  /\ JobsAgree /\ OutcomesAgree
  /\ GraphJustified
  /\ ClosedOnce /\ ClosedRunIsComplete

LEMMA GraphStart == Init => GraphInv
<1> SUFFICES ASSUME Init
             PROVE  GraphInv
  OBVIOUS
<1>1. TypeOK /\ AdvancersAgree
  BY TypedStart
<1>2. \A t \in Tasks : Settled(t)
  <2>1. \A t \in Tasks : t \in Keys /\ t # "start"
    BY Names, TaskNames
  <2>2. \A t \in Tasks : /\ task[t] = "ABSENT" /\ result[t] = "none" /\ agentJob[t] = "ABSENT"
                         /\ work[t] = "idle" /\ advance[t] = "ABSENT"
    BY <2>1 DEF Init
  <2>3. QED
    BY <2>2 DEF Settled
<1>3. Pending = {}
  <2>1. Elements(<<>>) = {}
    BY NoElements, EmptySeq
  <2>2. QED
    BY <2>1 DEF Init, Pending, Elements
<1>4. GraphJustified
  BY <1>3, TaskNames DEF Init, GraphJustified, Present, Missing
<1>5. ClosedOnce /\ ClosedRunIsComplete
  BY DEF Init, ClosedOnce, ClosedRunIsComplete, ActiveRun
<1>6. QED
  BY <1>1, <1>2, <1>4, <1>5, SettledIs DEF GraphInv

LEMMA GraphInvStep == GraphInv /\ [Next]_vars => GraphInv'
<1> SUFFICES ASSUME GraphInv, [Next]_vars
             PROVE  GraphInv'
  OBVIOUS
<1>1. TypeOK' /\ AdvancersAgree' /\ StepKinds
  BY TypedStep DEF GraphInv
<1>2. Typed /\ \A t \in Tasks : Settled(t)
  BY TypeParts, SettledIs DEF GraphInv, Typed, Orderly
<1>3. JobsAgree' /\ OutcomesAgree'
  BY <1>1, <1>2, SettledStep, SettledIsNext
<1>4. GraphJustified'
  BY <1>1, <1>2, GraphStep DEF GraphInv
<1>5. ClosedOnce' /\ ClosedRunIsComplete'
  BY <1>1, <1>2, ClosedStep DEF GraphInv
<1>6. QED
  BY <1>1, <1>3, <1>4, <1>5 DEF GraphInv

LEMMA GraphInvHolds == Spec => []GraphInv
BY GraphStart, GraphInvStep, PTL DEF Spec

(* A finished task has the result that finished it, every stored result has *)
(* enqueued its advance job, and only closing the run cancels a task.       *)
THEOREM OutcomesHold == Spec => []OutcomesAgree
<1>1. GraphInv => OutcomesAgree
  BY DEF GraphInv
<1>2. QED
  BY <1>1, GraphInvHolds, PTL

(* A proposal awaits review only if the final plan commits units and rm1    *)
(* has looked at it, COMPLETED means that every agent succeeded, and a run  *)
(* is closed once, whichever deliveries race with deadline and user.        *)
THEOREM ClosedIsComplete == Spec => []ClosedRunIsComplete
<1>1. GraphInv => ClosedRunIsComplete
  BY DEF GraphInv
<1>2. QED
  BY <1>1, GraphInvHolds, PTL

(* Planning starts on terminal assessments, is revised only for a shortage  *)
(* of the finished first plan, and rm1 validates the final plan.            *)
THEOREM DependenciesHold == Spec => []DependencyOrder
<1>1. ASSUME GraphInv
      PROVE  DependencyOrder
  <2>1. Present("planning0") =>
          (\A t \in RoundZero : Present(t)) /\ Terminal("rm0") /\ Terminal("ie0")
    BY <1>1 DEF GraphInv, GraphJustified, PlanningMayStart, Present
  <2>2. Present("planning1") => Terminal("planning0") /\ NeedsReplan /\ replanned
    BY <1>1 DEF GraphInv, GraphJustified, MayRevise
  <2>3. Present("rm1") =>
          /\ validates = FinalPlan
          /\ Terminal(FinalPlan) /\ AllocatesUnits(FinalPlan)
    BY <1>1 DEF GraphInv, GraphJustified, MayValidate
  <2>4. QED
    BY <2>1, <2>2, <2>3 DEF DependencyOrder
<1>2. QED
  BY <1>1, GraphInvHolds, PTL

(* The idempotency key hides no two different envelopes: what several       *)
(* deliveries have pending for a task is the same envelope, and the one for *)
(* rm1 names the plan that rm1 validates.                                   *)
THEOREM DecisionsHold == Spec => []DecisionsAgree
<1>1. ASSUME GraphInv
      PROVE  DecisionsAgree
  <2>1. \A e \in Pending : e \in Envelopes /\ e.task \in Tasks
    <3>1. ASSUME NEW a \in Advancers, NEW i \in DOMAIN todo[a]
          PROVE  todo[a][i] \in Envelopes
      <4>1. todo[a] \in Seq(Envelopes)
        BY <1>1 DEF GraphInv, TypeOK
      <4>2. i \in 1 .. Len(todo[a])
        BY <4>1, LenProperties
      <4>3. QED
        BY <4>1, <4>2, ElementOfSeq
    <3>2. inflight \subseteq Envelopes
      BY <1>1 DEF GraphInv, TypeOK
    <3>3. QED
      BY <3>1, <3>2 DEF Pending, Envelopes
  <2>2. ASSUME NEW e \in Pending, NEW f \in Pending, e.task = f.task
        PROVE  e.parent = f.parent
    <3>1. Justified(e) /\ Justified(f) /\ e.task \in Tasks
      BY <1>1, <2>1 DEF GraphInv, GraphJustified
    <3>2. QED
      BY <2>2, <3>1, TaskNames DEF Justified, MayValidate
  <2>3. \A e, f \in Pending : e.task = f.task => e = f
    BY <2>1, <2>2 DEF Envelopes
  <2>4. ASSUME NEW e \in Pending, e.task = "rm1", Present("rm1")
        PROVE  e.parent = validates
    BY <1>1, <2>4 DEF GraphInv, GraphJustified, Justified, MayValidate
  <2>5. QED
    BY <2>3, <2>4 DEF DecisionsAgree
<1>2. QED
  BY <1>1, GraphInvHolds, PTL

-----------------------------------------------------------------------------
(* No wake-up is lost *)

(* As long as nothing has gone wrong, a delivery holds the lease of its job. *)
Held == \A a \in Advancers : pc[a] # "idle" => owner[key[a]] = a

(* Some delivery is about to submit the task, or the API to commit it. *)
Served(t) ==
  \/ \E a \in Advancers : \E e \in Elements(todo[a]) : e.task = t
  \/ \E e \in inflight : e.task = t

(* There is nothing to do that no delivery is doing. *)
Waits == ~MayFinalize /\ \A t \in Tasks : Wanted(t) => Served(t)

(* Somebody will look at the run again, or there is nothing to see. *)
Awake ==
  \/ \E k \in Keys : advance[k] = "READY"
  \/ \E a \in Advancers : pc[a] = "deciding"
  \/ \E t \in Tasks : task[t] \in ActiveTask
  \/ Waits

(* An active task has a job that is not finished. *)
Worked == \A t \in Tasks : task[t] \in ActiveTask => agentJob[t] \in OpenJob

WakeUp == faults = 0 => Held /\ (run \in ActiveRun => Awake /\ Worked)

(* What is waited for depends on the graph and on who submits. *)
LEMMA WaitsStays ==
  ASSUME UNCHANGED <<task, result, plan, replanned>>, Waits,
         \A t \in Tasks : Missing(t) /\ Served(t) => Served(t)'
  PROVE  Waits'
<1>1. MayFinalize' <=> MayFinalize
  BY DEF MayFinalize, PlanIsFinal, PlanningMayStart, WantsReplan, NeedsReplan, AllocatesUnits,
         Usable, FinalPlan, Terminal, Missing
<1>2. \A t \in Tasks : Wanted(t)' => Wanted(t) /\ Missing(t)
  BY DEF Wanted, PlanIsFinal, PlanningMayStart, WantsReplan, NeedsReplan, AllocatesUnits,
         Usable, FinalPlan, Terminal, Missing
<1>3. QED
  BY <1>1, <1>2 DEF Waits

(* A wanted task keeps the run from being finalized. *)
LEMMA WantedIsUnfinished ==
  ASSUME NEW t \in Tasks, Wanted(t)
  PROVE  ~MayFinalize
<1>1. \A u : Missing(u) => ~Terminal(u)
  BY DEF Missing, Terminal, TerminalTask
<1>2. CASE t \in RoundZero
  BY <1>2 DEF Wanted, MayFinalize, PlanIsFinal, PlanningMayStart
<1>3. CASE t = "planning0"
  BY <1>1, <1>3 DEF Wanted, MayFinalize, PlanIsFinal
<1>4. CASE t = "planning1"
  BY <1>1, <1>4, TaskNames DEF Wanted, MayFinalize, PlanIsFinal
<1>5. CASE t = "rm1"
  BY <1>1, <1>5, TaskNames DEF Wanted, MayFinalize
<1>6. QED
  BY <1>2, <1>3, <1>4, <1>5, TaskNames

(* If no task is wanted and none is active, the run may be finalized. *)
LEMMA IdleIsFinished ==
  ASSUME TaskTypes, \A t \in Tasks : ~Wanted(t) /\ task[t] \notin ActiveTask
  PROVE  MayFinalize
<1>1. \A t \in Tasks : ~Missing(t) => Terminal(t)
  BY DEF TaskTypes, Missing, Terminal
<1>2. \A t \in RoundZero : ~Missing(t) /\ Terminal(t)
  BY <1>1, TaskNames DEF Wanted
<1>3. PlanningMayStart
  BY <1>2, TaskNames DEF PlanningMayStart
<1>4. Terminal("planning0")
  BY <1>1, <1>3, TaskNames DEF Wanted
<1>5. WantsReplan => Terminal("planning1")
  BY <1>1, <1>3, <1>4, TaskNames DEF Wanted
<1>6. PlanIsFinal
  BY <1>3, <1>4, <1>5 DEF PlanIsFinal
<1>7. AllocatesUnits(FinalPlan) => Terminal("rm1")
  BY <1>1, <1>6, TaskNames DEF Wanted
<1>8. QED
  BY <1>2, <1>6, <1>7, TaskNames DEF MayFinalize

(* The delivery that holds a job is the only one that has it. *)
LEMMA LeavingKeepsLeases ==
  ASSUME Orderly, Held, NEW a \in Advancers, pc[a] # "idle",
         NEW outcome, Leave(a, outcome)
  PROVE  /\ Held'
         /\ \A k \in Keys : advance[k] = "READY" => advance'[k] = "READY"
<1>1. key[a] \in Keys /\ owner[key[a]] = a
  BY DEF Held, Orderly, DeliveryTypes, AdvancerTypes, AdvancersAgree
<1>2. /\ advance' = [advance EXCEPT ![key[a]] = outcome]
      /\ owner' = [owner EXCEPT ![key[a]] = NoOne]
      /\ pc' = [pc EXCEPT ![a] = "idle"]
      /\ key' = [key EXCEPT ![a] = "none"]
      /\ todo' = [todo EXCEPT ![a] = <<>>]
  BY <1>1 DEF Leave
<1>3. advance[key[a]] = "LEASED"
  BY <1>1 DEF Orderly, AdvancersAgree
<1>4. \A k \in Keys : advance[k] = "READY" => advance'[k] = "READY"
  BY <1>1, <1>2, <1>3 DEF Orderly, DeliveryTypes, JobTypes
<1>5. \A b \in Advancers \ {a} :
        pc'[b] = pc[b] /\ key'[b] = key[b] /\ todo'[b] = todo[b]
  BY <1>2 DEF Orderly, DeliveryTypes, AdvancerTypes
<1>6. \A b \in Advancers \ {a} : pc[b] # "idle" => key[b] \in Keys /\ key[b] # key[a]
  BY <1>1 DEF Held, Orderly, DeliveryTypes, AdvancerTypes, AdvancersAgree
<1>7. \A k \in Keys \ {key[a]} : owner'[k] = owner[k]
  BY <1>2 DEF Orderly, DeliveryTypes, JobTypes
<1>8. pc'[a] = "idle"
  BY <1>2 DEF Orderly, DeliveryTypes, AdvancerTypes
<1>9. ASSUME NEW b \in Advancers
      PROVE  pc'[b] # "idle" => owner'[key'[b]] = b
  <2>1. CASE b = a
    BY <1>8, <2>1
  <2>2. CASE b # a
    BY <1>5, <1>6, <1>7, <2>2 DEF Held
  <2>3. QED
    BY <2>1, <2>2
<1>10. QED
  BY <1>4, <1>9 DEF Held

(* What a step may rely on when nothing has gone wrong. *)
Clear ==
  /\ Typed /\ (\A t \in Tasks : Settled(t))
  /\ Held /\ (run \in ActiveRun => Awake /\ Worked)

Stirs == Held' /\ (run' \in ActiveRun => Awake' /\ Worked')

(* Steps that move no delivery. *)
LEMMA HeldStays ==
  ASSUME Held, UNCHANGED <<pc, key, owner>>
  PROVE  Held'
BY DEF Held

LEMMA TakeStirs ==
  ASSUME Clear, ~Fault, NEW a \in Advancers, NEW k \in Keys, Take(a, k)
  PROVE  Stirs
<1>1. /\ pc[a] = "idle"
      /\ ~(owner[k] \in Advancers /\ key[owner[k]] = k)
      /\ owner' = [owner EXCEPT ![k] = a]
      /\ pc' = [pc EXCEPT ![a] = "deciding"]
      /\ key' = [key EXCEPT ![a] = k]
      /\ UNCHANGED <<run, task, agentJob, todo, inflight>>
  BY DEF Take, runVars, taskVars
<1>2. /\ \A b \in Advancers :
           /\ pc'[b] = IF b = a THEN "deciding" ELSE pc[b]
           /\ key'[b] = IF b = a THEN k ELSE key[b]
      /\ \A j \in Keys : owner'[j] = IF j = k THEN a ELSE owner[j]
  BY <1>1 DEF Clear, Typed, Orderly, DeliveryTypes, JobTypes, AdvancerTypes
<1>3. \A b \in Advancers : pc[b] # "idle" => key[b] \in Keys /\ owner[key[b]] = b
  BY DEF Clear, Held, Typed, Orderly, DeliveryTypes, AdvancerTypes, AdvancersAgree
<1>4. \A b \in Advancers : pc[b] # "idle" => key[b] # k
  BY <1>1, <1>3
<1>5. Held'
  BY <1>1, <1>2, <1>3, <1>4 DEF Clear, Held
<1>6. Awake'
  BY <1>2 DEF Awake
<1>7. run \in ActiveRun => Worked'
  BY <1>1 DEF Clear, Worked
<1>8. QED
  BY <1>1, <1>5, <1>6, <1>7 DEF Stirs

(* A delivery moves on without giving up what it serves. *)
LEMMA AwakeStays ==
  ASSUME Clear, UNCHANGED <<run, task, result, plan, replanned, agentJob>>,
         \A k \in Keys : advance[k] = "READY" => advance'[k] = "READY",
         \A a \in Advancers : pc[a] = "deciding" => pc'[a] = "deciding",
         \A t \in Tasks : Missing(t) /\ Served(t) => Served(t)'
  PROVE  run' \in ActiveRun => Awake' /\ Worked'
<1>1. Waits => Waits'
  BY WaitsStays
<1>2. QED
  BY <1>1 DEF Clear, Awake, Worked

LEMMA DeliveryStirs ==
  ASSUME Clear, NEW a \in Advancers, SubmitKnown(a) \/ SubmitNew(a)
  PROVE  Stirs
<1>1. /\ pc[a] = "sending" /\ Delivered(a) /\ inflight \subseteq inflight'
      /\ UNCHANGED <<run, task, result, plan, replanned, agentJob, advance, owner, key>>
  BY DEF SubmitKnown, SubmitNew, Accept, runVars, taskVars, jobVars
<1>2. Present(Current(a).task) \/ Current(a) \in inflight'
  BY DEF SubmitKnown, SubmitNew, Accept, Present
<1>3. /\ todo' = [todo EXCEPT ![a] = Tail(todo[a])]
      /\ pc' = [pc EXCEPT ![a] = IF Len(todo[a]) = 1 THEN "finishing" ELSE "sending"]
  BY <1>1 DEF Delivered
<1>4. \A b \in Advancers :
        /\ todo'[b] = IF b = a THEN Tail(todo[a]) ELSE todo[b]
        /\ pc'[b] = IF b = a THEN IF Len(todo[a]) = 1 THEN "finishing" ELSE "sending"
                             ELSE pc[b]
  BY <1>3 DEF Clear, Typed, Orderly, DeliveryTypes, AdvancerTypes
<1>5. Elements(todo[a]) \subseteq Elements(Tail(todo[a])) \cup {Current(a)}
  <2>1. todo[a] \in Seq(Envelopes) /\ todo[a] # <<>>
    BY <1>1 DEF Clear, Typed, Orderly, DeliveryTypes, AdvancerTypes, AdvancersAgree
  <2>2. QED
    BY <2>1, FirstAndRest DEF Current
<1>6. \A t \in Tasks : Missing(t) /\ Served(t) => Served(t)'
  BY <1>1, <1>2, <1>4, <1>5 DEF Served, Present
<1>7. Held'
  BY <1>1, <1>4 DEF Clear, Held
<1>8. run' \in ActiveRun => Awake' /\ Worked'
  BY <1>1, <1>4, <1>6, AwakeStays
<1>9. QED
  BY <1>7, <1>8 DEF Stirs

LEMMA LeavingStirs ==
  ASSUME Clear, NEW a \in Advancers, SubmitRejected(a) \/ Finish(a)
  PROVE  Stirs
<1>1. PICK outcome \in {"FAILED", "DONE"} :
        /\ pc[a] \in {"sending", "finishing"} /\ Leave(a, outcome)
        /\ UNCHANGED <<run, task, result, plan, replanned, agentJob, inflight>>
  BY DEF SubmitRejected, Finish, runVars, taskVars
<1>2. /\ Held'
      /\ \A k \in Keys : advance[k] = "READY" => advance'[k] = "READY"
  BY <1>1, LeavingKeepsLeases DEF Clear, Typed
<1>3. CASE SubmitRejected(a)
  <2>1. run' \notin ActiveRun
    BY <1>1, <1>3 DEF SubmitRejected
  <2>2. QED
    BY <1>2, <2>1 DEF Stirs
<1>4. CASE Finish(a)
  <2>1. pc[a] = "finishing" /\ todo[a] = <<>>
    BY <1>4 DEF Finish, Clear, Typed, Orderly, DeliveryTypes, AdvancerTypes, AdvancersAgree
  <2>2. /\ todo' = [todo EXCEPT ![a] = <<>>]
        /\ pc' = [pc EXCEPT ![a] = "idle"]
    BY <1>1 DEF Leave
  <2>3. \A b \in Advancers :
          /\ todo'[b] = todo[b]
          /\ pc'[b] = IF b = a THEN "idle" ELSE pc[b]
    BY <2>1, <2>2 DEF Clear, Typed, Orderly, DeliveryTypes, AdvancerTypes
  <2>4. \A t \in Tasks : Served(t) => Served(t)'
    BY <1>1, <2>3 DEF Served
  <2>5. run' \in ActiveRun => Awake' /\ Worked'
    BY <1>1, <1>2, <2>1, <2>3, <2>4, AwakeStays
  <2>6. QED
    BY <1>2, <2>5 DEF Stirs
<1>5. QED
  BY <1>3, <1>4

LEMMA DecisionStirs ==
  ASSUME Clear, NEW a \in Advancers, Decide(a)
  PROVE  Stirs
<1>1. /\ pc[a] = "deciding" /\ UNCHANGED <<owner, key, inflight, agentJob>>
      /\ \E p \in {"finishing", "sending"} : pc' = [pc EXCEPT ![a] = p]
      /\ todo' \in {todo, [todo EXCEPT ![a] = Dispatches]}
  BY DEF Decide, DecideNothing, DecideDispatch, Finalize, FinalizeDeadline, jobVars
<1>2. /\ pc'[a] # "idle"
      /\ \A b \in Advancers \ {a} : pc'[b] = pc[b] /\ todo'[b] = todo[b]
  BY <1>1 DEF Clear, Typed, Orderly, DeliveryTypes, AdvancerTypes
<1>3. Held'
  BY <1>1, <1>2 DEF Clear, Held
<1>4. CASE DecideNothing(a)
  <2>1. /\ UNCHANGED <<run, task, result, plan, replanned, agentJob>>
        /\ run \in ActiveRun => Dispatches = <<>> /\ ~MayFinalize
    BY <1>4 DEF DecideNothing, runVars, taskVars
  <2>2. ASSUME run' \in ActiveRun
        PROVE  Awake' /\ Worked'
    <3>1. ~MayFinalize /\ \A t \in Tasks : ~Wanted(t)
      BY <2>1, <2>2, NothingDue
    <3>2. Waits'
      BY <2>1, <3>1 DEF Waits, MayFinalize, Wanted, PlanIsFinal, PlanningMayStart, WantsReplan,
                        NeedsReplan, AllocatesUnits, Usable, FinalPlan, Terminal, Missing
    <3>3. QED
      BY <2>1, <2>2, <3>2 DEF Awake, Worked, Clear
  <2>3. QED
    BY <1>3, <2>2 DEF Stirs
<1>5. CASE DecideDispatch(a)
  <2>1. /\ run \in ActiveRun /\ Dispatches # <<>>
        /\ replanned' = (replanned \/ Wanted("planning1"))
        /\ todo' = [todo EXCEPT ![a] = Dispatches]
        /\ UNCHANGED <<task, result, plan, agentJob>>
    BY <1>5 DEF DecideDispatch, taskVars
  <2>2. WantsReplan' <=> WantsReplan
    BY <2>1, TaskNames DEF WantsReplan, NeedsReplan, Usable, Wanted
  <2>3. MayFinalize' <=> MayFinalize
    BY <2>1, <2>2 DEF MayFinalize, PlanIsFinal, PlanningMayStart, AllocatesUnits, Usable,
                      FinalPlan, Terminal, Missing
  <2>4. \A t \in Tasks : Wanted(t)' <=> Wanted(t)
    BY <2>1, <2>2 DEF Wanted, PlanIsFinal, PlanningMayStart, AllocatesUnits, Usable,
                      FinalPlan, Terminal, Missing
  <2>5. PICK t \in Tasks : Wanted(t)
    BY <2>1, NothingDue
  <2>6. ~MayFinalize'
    BY <2>3, <2>5, WantedIsUnfinished
  <2>7. todo'[a] = Dispatches
    BY <2>1 DEF Clear, Typed, Orderly, DeliveryTypes, AdvancerTypes
  <2>8. \A u \in Tasks : Wanted(u)' => Served(u)'
    <3> SUFFICES ASSUME NEW u \in Tasks, Wanted(u)
                 PROVE  Served(u)'
      BY <2>4
    <3>1. Envelope(u) \in Elements(todo'[a]) /\ Envelope(u).task = u
      BY <2>7, DispatchesAreWanted, EnvelopeType
    <3>2. QED
      BY <3>1 DEF Served
  <2>9. Waits'
    BY <2>6, <2>8 DEF Waits
  <2>10. QED
    BY <1>3, <2>1, <2>9 DEF Stirs, Awake, Worked, Clear
<1>6. CASE Finalize(a) \/ FinalizeDeadline(a)
  <2>1. run' \notin ActiveRun
    BY <1>6, FinalStatusIsClosed DEF Finalize, FinalizeDeadline, ActiveRun
  <2>2. QED
    BY <1>3, <2>1 DEF Stirs
<1>7. QED
  BY <1>4, <1>5, <1>6 DEF Decide

LEMMA InsertionStirs ==
  ASSUME Clear, NEW e \in inflight, InsertTask(e)
  PROVE  Stirs
<1>1. /\ e.task \in Tasks /\ inflight' = inflight \ {e}
      /\ UNCHANGED <<run, replanned, result, plan, advance, owner, pc, key, todo>>
  BY DEF InsertTask, Clear, Typed, Orderly, DeliveryTypes, Envelopes, runVars, jobVars,
         advancerVars
<1>2. Held'
  BY <1>1, HeldStays DEF Clear
<1>3. CASE Missing(e.task)
  <2>1. \A t \in Tasks :
          /\ task'[t] = IF t = e.task THEN "PENDING" ELSE task[t]
          /\ agentJob'[t] = IF t = e.task THEN "READY" ELSE agentJob[t]
    BY <1>1, <1>3 DEF InsertTask, Clear, Typed, TaskTypes, WorkTypes
  <2>2. Awake'
    BY <1>1, <2>1 DEF Awake, ActiveTask
  <2>3. run \in ActiveRun => Worked'
    BY <2>1 DEF Clear, Worked, OpenJob
  <2>4. QED
    BY <1>1, <1>2, <2>2, <2>3 DEF Stirs
<1>4. CASE ~Missing(e.task)
  <2>1. UNCHANGED <<task, agentJob>>
    BY <1>4 DEF InsertTask
  <2>2. \A t \in Tasks : Missing(t) /\ Served(t) => Served(t)'
    BY <1>1, <1>4 DEF Served
  <2>3. run' \in ActiveRun => Awake' /\ Worked'
    BY <1>1, <2>1, <2>2, AwakeStays
  <2>4. QED
    BY <1>2, <2>3 DEF Stirs
<1>5. QED
  BY <1>3, <1>4

LEMMA WorkStirs ==
  ASSUME Clear, NEW t \in Tasks, ClaimTask(t) \/ SkipTask(t) \/ BeginTask(t)
  PROVE  Stirs
<1>1. UNCHANGED <<run, replanned, result, plan, advance, pc, key, owner, todo, inflight>>
  BY DEF ClaimTask, SkipTask, BeginTask, runVars, taskVars, jobVars, advancerVars
<1>2. CASE ClaimTask(t) \/ SkipTask(t)
  <2>1. /\ UNCHANGED task
        /\ \/ agentJob' = [agentJob EXCEPT ![t] = "LEASED"]
           \/ ~RunnableTask(t) /\ agentJob' = [agentJob EXCEPT ![t] = "DONE"]
    BY <1>2 DEF ClaimTask, SkipTask, taskVars
  <2>2. Held'
    BY <1>1, <2>1, HeldStays DEF Clear
  <2>3. ASSUME run \in ActiveRun
        PROVE  Worked'
    <3>1. RunnableTask(t) <=> task[t] \in ActiveTask
      BY <2>3 DEF RunnableTask, ActiveRun
    <3>2. \A u \in Tasks : u # t => agentJob'[u] = agentJob[u]
      BY <2>1 DEF Clear, Typed, WorkTypes
    <3>3. task[t] \in ActiveTask => agentJob'[t] = "LEASED"
      BY <2>1, <3>1 DEF Clear, Typed, WorkTypes
    <3>4. QED
      BY <2>1, <2>3, <3>2, <3>3 DEF Clear, Worked, OpenJob
  <2>4. run \in ActiveRun => Awake'
    <3>1. Waits => Waits'
      BY <1>1, <2>1, WaitsStays DEF Served
    <3>2. QED
      BY <1>1, <2>1, <3>1 DEF Clear, Awake
  <2>5. QED
    BY <1>1, <2>2, <2>3, <2>4 DEF Stirs
<1>3. CASE BeginTask(t)
  <2>1. task[t] \in ActiveTask /\ UNCHANGED agentJob
    BY <1>3 DEF BeginTask, RunnableTask
  <2>2. \A u \in Tasks : task'[u] = IF u = t THEN "RUNNING" ELSE task[u]
    BY <1>3 DEF BeginTask, Clear, Typed, TaskTypes
  <2>3. Held'
    BY <1>1, <2>2, HeldStays DEF Clear
  <2>4. Awake'
    BY <2>2 DEF Awake, ActiveTask
  <2>5. run \in ActiveRun => Worked'
    BY <2>1, <2>2 DEF Clear, Worked
  <2>6. QED
    BY <1>1, <2>3, <2>4, <2>5 DEF Stirs
<1>4. QED
  BY <1>2, <1>3

LEMMA StoringStirs ==
  ASSUME Clear, NEW t \in Tasks, Storing(t)
  PROVE  Stirs
<1>1. /\ work[t] \in {"working", "degrading"} /\ AdvanceAfter(t)
      /\ UNCHANGED <<run, pc, key, owner, todo, inflight>>
      /\ agentJob' \in {agentJob, [agentJob EXCEPT ![t] = "DONE"]}
  BY DEF Storing, CompleteTask, HookStores, StoreOutcome, runVars, advancerVars
<1>2. /\ task'[t] = IF task[t] \in ActiveTask THEN SettlesAs(result'[t]) ELSE task[t]
      /\ \A u \in Tasks \ {t} : task'[u] = task[u]
  BY StoredTypes DEF Clear, Typed
<1>3. task'[t] \notin ActiveTask /\ (task[t] # "ABSENT" => task'[t] # "ABSENT")
  BY <1>2 DEF SettlesAs, ActiveTask
<1>4. advance[t] = "ABSENT" /\ t \in Keys
  BY <1>1, Names DEF Clear, Settled
<1>5. advance'[t] = "READY"
  BY <1>1, <1>4 DEF AdvanceAfter, Clear, Typed, Orderly, DeliveryTypes, JobTypes
<1>6. Awake'
  BY <1>4, <1>5 DEF Awake
<1>7. \A u \in Tasks : u # t => agentJob'[u] = agentJob[u]
  BY <1>1 DEF Clear, Typed, WorkTypes
<1>8. run \in ActiveRun => Worked'
  BY <1>2, <1>3, <1>7 DEF Clear, Worked
<1>9. Held'
  BY <1>1, <1>2, <1>3, HeldStays DEF Clear
<1>10. QED
  BY <1>1, <1>6, <1>8, <1>9 DEF Stirs

LEMMA RestStirs ==
  ASSUME Clear, \/ UNCHANGED vars \/ DeadlinePasses \/ Review \/ Cancel \/ Reconcile
                \/ \E t \in Tasks : HookBegins(t) \/ HookLost(t)
  PROVE  Stirs
<1>1. CASE Cancel
  <2>1. task' = Stopped /\ run' = "CANCELLED" /\ UNCHANGED <<pc, key, owner, todo, inflight>>
    BY <1>1 DEF Cancel, jobVars, advancerVars
  <2>2. \A t \in Tasks : Present(t) => Present(t)'
    BY <2>1, StoppedTypes DEF Clear, Typed, Present, Missing
  <2>3. Held' /\ run' \notin ActiveRun
    BY <2>1, <2>2, HeldStays DEF Clear, ActiveRun
  <2>4. QED
    BY <2>3 DEF Stirs
<1>2. CASE Reconcile
  <2>1. /\ advance' = [advance EXCEPT !["reconcile"] = "READY"]
        /\ UNCHANGED <<run, task, agentJob, pc, key, owner, todo, inflight>>
    BY <1>2 DEF Reconcile, runVars, taskVars, advancerVars
  <2>2. Held'
    BY <2>1, HeldStays DEF Clear
  <2>3. Awake'
    BY <2>1, Names DEF Awake, Clear, Typed, Orderly, DeliveryTypes, JobTypes
  <2>4. QED
    BY <2>1, <2>2, <2>3 DEF Stirs, Worked, Clear
<1>3. CASE \/ UNCHANGED vars \/ DeadlinePasses \/ Review
           \/ \E t \in Tasks : HookBegins(t) \/ HookLost(t)
  <2>1. UNCHANGED <<run, task, result, plan, replanned, agentJob, advance, owner, pc, key, todo,
                    inflight>>
    BY <1>3 DEF vars, DeadlinePasses, Review, HookBegins, HookLost, runVars, taskVars, jobVars,
                advancerVars
  <2>2. Held'
    BY <2>1, HeldStays DEF Clear
  <2>3. run' \in ActiveRun => Awake' /\ Worked'
    BY <2>1, AwakeStays DEF Served
  <2>4. QED
    BY <2>2, <2>3 DEF Stirs
<1>4. QED
  BY <1>1, <1>2, <1>3

LEMMA WakeUpStep == GraphInv /\ WakeUp /\ [Next]_vars => WakeUp'
<1> SUFFICES ASSUME GraphInv, WakeUp, [Next]_vars, faults' = 0
             PROVE  Stirs
  BY DEF WakeUp, Stirs
<1>1. faults = 0 /\ ~Fault
  BY FaultsAreBounded DEF GraphInv, TypeOK
<1>2. Clear
  BY <1>1, TypeParts, SettledIs DEF GraphInv, WakeUp, Clear, Typed, Orderly
<1>3. ASSUME NEW a \in Advancers,
             \/ \E k \in Keys : Take(a, k)
             \/ Decide(a) \/ Submit(a) \/ Finish(a)
             \/ SubmitFails(a) \/ CrashAdvancer(a)
      PROVE  Stirs
  <2>1. ~SubmitFails(a) /\ ~CrashAdvancer(a)
    BY <1>1 DEF SubmitFails, CrashAdvancer
  <2>2. CASE \E k \in Keys : Take(a, k)
    BY <1>1, <1>2, <2>2, TakeStirs
  <2>3. CASE Decide(a)
    BY <1>2, <2>3, DecisionStirs
  <2>4. CASE Submit(a) \/ Finish(a)
    BY <1>2, <2>4, DeliveryStirs, LeavingStirs DEF Submit
  <2>5. QED
    BY <1>3, <2>1, <2>2, <2>3, <2>4
<1>4. (\A k \in Keys : ~GiveUpAdvance(k)) /\ \A e \in inflight : ~InsertFails(e)
  BY <1>1 DEF GiveUpAdvance, InsertFails
<1>5. ASSUME NEW t \in Tasks,
             ExecuteTask(t) \/ AttemptFails(t) \/ ExhaustTask(t) \/ Hook(t) \/ HookLost(t)
      PROVE  Stirs
  <2>1. ~AttemptFails(t) /\ ~ExhaustTask(t)
    BY <1>1 DEF AttemptFails, ExhaustTask
  <2>2. CASE ClaimTask(t) \/ SkipTask(t) \/ BeginTask(t)
    BY <1>2, <2>2, WorkStirs
  <2>3. CASE CompleteTask(t) \/ HookStores(t)
    BY <1>2, <2>3, StoringStirs DEF Storing
  <2>4. CASE HookBegins(t) \/ HookLost(t)
    BY <1>2, <2>4, RestStirs
  <2>5. QED
    BY <1>5, <2>1, <2>2, <2>3, <2>4 DEF ExecuteTask, Hook
<1>6. QED
  BY <1>2, <1>3, <1>4, <1>5, InsertionStirs, RestStirs DEF Next

(* Whichever of two tasks that finish together is seen by whose delivery, a *)
(* run that nothing has gone wrong with has a job that will move it: a task *)
(* that ends enqueues its advance job in the same transaction, a delivery   *)
(* that decides to wait has seen everything that ended before, and what it  *)
(* dispatched and is still missing is a request about to be committed.      *)
THEOREM WakeUpsHold == Spec => []NoLostWakeup
<1>1. Init => WakeUp
  <2> SUFFICES ASSUME Init
               PROVE  Held /\ Awake /\ Worked
    BY DEF WakeUp
  <2>1. Held
    BY DEF Init, Held
  <2>2. Awake
    BY DEF Init, Awake, Keys
  <2>3. Worked
    BY DEF Init, Worked, ActiveTask
  <2>4. QED
    BY <2>1, <2>2, <2>3
<1>2. ASSUME GraphInv, WakeUp
      PROVE  NoLostWakeup
  <2> SUFFICES ASSUME faults = 0, run \in ActiveRun, ~Busy,
                      \A e \in inflight : ~Missing(e.task)
               PROVE  FALSE
    BY DEF NoLostWakeup
  <2>1. Typed /\ Held /\ Awake /\ Worked
    BY <1>2, TypeParts DEF WakeUp, GraphInv, Typed, Orderly
  <2>2. /\ \A k \in Keys : advance[k] \notin OpenJob
        /\ \A t \in Tasks : agentJob[t] \notin OpenJob
    BY DEF Busy
  <2>3. \A a \in Advancers : pc[a] = "idle"
    <3> SUFFICES ASSUME NEW a \in Advancers, pc[a] # "idle"
                 PROVE  FALSE
      OBVIOUS
    <3>1. key[a] \in Keys /\ owner[key[a]] = a
      BY <2>1 DEF Held, Typed, Orderly, DeliveryTypes, AdvancerTypes, AdvancersAgree
    <3>2. advance[key[a]] = "LEASED"
      BY <2>1, <3>1 DEF Typed, Orderly, AdvancersAgree
    <3>3. QED
      BY <2>2, <3>1, <3>2 DEF OpenJob
  <2>4. \A t \in Tasks : task[t] \notin ActiveTask
    BY <2>1, <2>2 DEF Worked
  <2>5. Waits
    BY <2>1, <2>2, <2>3, <2>4 DEF Awake, OpenJob
  <2>6. \A t \in Tasks : ~Wanted(t)
    <3>1. \A a \in Advancers : todo[a] = <<>>
      BY <2>1, <2>3 DEF Typed, Orderly, AdvancersAgree
    <3>2. Elements(<<>>) = {}
      BY NoElements, EmptySeq
    <3>3. \A t \in Tasks : Missing(t) => ~Served(t)
      BY <3>1, <3>2 DEF Served
    <3>4. QED
      BY <2>5, <3>3 DEF Waits, Wanted
  <2>7. MayFinalize
    BY <2>1, <2>4, <2>6, IdleIsFinished DEF Typed
  <2>8. QED
    BY <2>5, <2>7 DEF Waits
<1>3. GraphInv /\ WakeUp => NoLostWakeup
  BY <1>2
<1>4. QED
  BY <1>1, <1>3, WakeUpStep, GraphInvHolds, PTL DEF Spec
-----------------------------------------------------------------------------
(* Every task keeps its contract *)

(* What the contract sees of one task: nothing new, or a step it allows. *)
Allowed(t) == [Contract(t)!Next]_(Contract(t)!tvars)

LEMMA NothingSeen ==
  ASSUME NEW t \in Tasks,
         task'[t] = task[t], result'[t] = result[t],
         advance'[t] = "ABSENT" <=> advance[t] = "ABSENT"
  PROVE  Allowed(t)
BY DEF Allowed, Contract!tvars, Missing

(* The end of a run cancels its active tasks. *)
LEMMA StoppingAllowed ==
  ASSUME TaskTypes, task' = Stopped, UNCHANGED <<result, advance>>, NEW t \in Tasks
  PROVE  Allowed(t)
<1>1. task'[t] = IF task[t] \in ActiveTask THEN "CANCELLED" ELSE task[t]
  BY StoppedTypes
<1>2. CASE task[t] \in ActiveTask
  BY <1>1, <1>2 DEF Allowed, Contract!Next, Contract!Cancel, Contract!Active, Missing, ActiveTask
<1>3. CASE task[t] \notin ActiveTask
  BY <1>1, <1>3, NothingSeen
<1>4. QED
  BY <1>2, <1>3

(* A task is inserted: it has not begun. *)
LEMMA InsertionAllowed ==
  ASSUME TaskTypes, NEW e \in inflight, InsertTask(e), NEW t \in Tasks
  PROVE  Allowed(t)
<1>1. /\ UNCHANGED <<result, advance>>
      /\ task' = IF Missing(e.task) THEN [task EXCEPT ![e.task] = "PENDING"] ELSE task
  BY DEF InsertTask, jobVars
<1>2. task'[t] = task[t] \/ (task[t] = "ABSENT" /\ task'[t] = "PENDING")
  BY <1>1 DEF TaskTypes, Missing
<1>3. CASE task[t] = "ABSENT" /\ task'[t] = "PENDING"
  BY <1>1, <1>3 DEF Allowed, Contract!tvars, Missing
<1>4. QED
  BY <1>1, <1>2, <1>3, NothingSeen

(* A worker begins a task, again or for the first time. *)
LEMMA WorkAllowed ==
  ASSUME TaskTypes, NEW u \in Tasks, Working(u), NEW t \in Tasks
  PROVE  Allowed(t)
<1>1. /\ UNCHANGED <<result, advance>>
      /\ \/ UNCHANGED task
         \/ task[u] \in ActiveTask /\ task' = [task EXCEPT ![u] = "RUNNING"]
  BY DEF Working, ClaimTask, SkipTask, BeginTask, AttemptFails, ExhaustTask, HookBegins,
         HookLost, RunnableTask, taskVars, jobVars
<1>2. task'[t] = task[t] \/ (task[t] = "PENDING" /\ task'[t] = "RUNNING")
  BY <1>1 DEF TaskTypes, ActiveTask
<1>3. CASE task[t] = "PENDING" /\ task'[t] = "RUNNING"
  BY <1>1, <1>3 DEF Allowed, Contract!Next, Contract!Begin, Missing
<1>4. QED
  BY <1>1, <1>2, <1>3, NothingSeen

(* An outcome is the first result of its task and wakes the run. *)
LEMMA StoringAllowed ==
  ASSUME Typed, \A t \in Tasks : Settled(t), NEW u \in Tasks, Storing(u), NEW t \in Tasks
  PROVE  Allowed(t)
<1>1. work[u] \in {"working", "degrading"} /\ AdvanceAfter(u)
  BY DEF Storing, CompleteTask, HookStores, StoreOutcome
<1>2. /\ result'[u] \in ResultStatuses
      /\ task'[u] = IF task[u] \in ActiveTask THEN SettlesAs(result'[u]) ELSE task[u]
      /\ \A v \in Tasks \ {u} : task'[v] = task[v] /\ result'[v] = result[v]
  BY StoredTypes DEF Typed
<1>3. advance[u] = "ABSENT" /\ result[u] = "none" /\ task[u] # "ABSENT"
  BY <1>1 DEF Settled
<1>4. \A v \in Tasks : advance'[v] = IF v = u THEN "READY" ELSE advance[v]
  BY <1>1, <1>3, Names DEF AdvanceAfter, Typed, Orderly, DeliveryTypes, JobTypes
<1>5. CASE t = u
  <2>1. Contract(t)!Report(result'[t])
    <3>1. (advance[t] # "ABSENT")' = TRUE
      BY <1>4, <1>5
    <3>2. (IF Missing(t) THEN "PENDING" ELSE task[t]) = task[t]
      BY <1>3, <1>5 DEF Missing
    <3>3. task'[t] # "ABSENT"
      BY <1>2, <1>3, <1>5 DEF SettlesAs
    <3>4. (IF Missing(t) THEN "PENDING" ELSE task[t])' = task'[t]
      BY <3>3 DEF Missing
    <3>5. task'[t] = IF task[t] \in ActiveTask
                     THEN IF result'[t] = "FAILED" THEN "FAILED" ELSE "SUCCEEDED"
                     ELSE task[t]
      BY <1>2, <1>5 DEF SettlesAs
    <3>6. QED
      BY <1>3, <1>5, <3>1, <3>2, <3>4, <3>5 DEF Contract!Report, Contract!Active, ActiveTask
  <2>2. QED
    BY <1>2, <1>5, <2>1 DEF Allowed, Contract!Next, ResultStatuses
<1>6. CASE t # u
  BY <1>2, <1>4, <1>6, NothingSeen
<1>7. QED
  BY <1>5, <1>6

LEMMA ContractStep ==
  ASSUME GraphInv, [Next]_vars, NEW t \in Tasks
  PROVE  Allowed(t)
<1>1. Typed /\ StepKinds /\ \A u \in Tasks : Settled(u)
  <2>1. Typed
    BY TypeParts DEF GraphInv, Typed, Orderly
  <2>2. \A u \in Tasks : Settled(u)
    BY SettledIs DEF GraphInv
  <2>3. StepKinds
    BY <2>1, NextKinds DEF Typed
  <2>4. QED
    BY <2>1, <2>2, <2>3
<1>2. TaskTypes
  BY <1>1 DEF Typed
<1>3. CASE Quiet
  BY <1>3, NothingSeen DEF Quiet, taskVars
<1>4. ASSUME NEW a \in Advancers, DecideDispatch(a) \/ Finalize(a)
      PROVE  Allowed(t)
  <2>1. UNCHANGED <<task, result, advance>>
    BY <1>4 DEF DecideDispatch, Finalize, taskVars, jobVars
  <2>2. QED
    BY <2>1, NothingSeen
<1>5. ASSUME NEW a \in Advancers, FinalizeDeadline(a)
      PROVE  Allowed(t)
  <2>1. task' = Stopped /\ UNCHANGED <<result, advance>>
    BY <1>5 DEF FinalizeDeadline, jobVars
  <2>2. QED
    BY <1>2, <2>1, StoppingAllowed
<1>6. CASE Cancel
  <2>1. task' = Stopped /\ UNCHANGED <<result, advance>>
    BY <1>6 DEF Cancel, jobVars
  <2>2. QED
    BY <1>2, <2>1, StoppingAllowed
<1>7. CASE Review
  BY <1>7, NothingSeen DEF Review, taskVars, jobVars
<1>8. QED
  BY <1>1, <1>2, <1>3, <1>4, <1>5, <1>6, <1>7, InsertionAllowed, WorkAllowed, StoringAllowed
  DEF StepKinds

\* A run does to each of its tasks what TaskContract allows, for any deliveries,
\* outcomes and faults; AgentTask, where an attempt may lapse, be retried or
\* degraded, keeps the same contract, so what it promises is what the graph uses
\* (executor.py, _store_outcome; api/runs.py, cancel_run).
THEOREM TasksKeepTheirContract == Spec => TasksKeepContract
<1> SUFFICES ASSUME NEW t \in Tasks PROVE Spec => Contract(t)!SafeSpec
  BY DEF TasksKeepContract
<1>1. Init => Contract(t)!Init
  <2> SUFFICES ASSUME Init PROVE Contract(t)!Init
    OBVIOUS
  <2>1. t \in Keys /\ t # "start"
    BY Names DEF Tasks, RoundZero, Planning
  <2>2. task[t] = "ABSENT" /\ result[t] = "none" /\ advance[t] = "ABSENT"
    BY <2>1 DEF Init
  <2>3. QED
    BY <2>2 DEF Contract!Init, Missing
<1>2. GraphInv /\ [Next]_vars => [Contract(t)!Next]_(Contract(t)!tvars)
  BY ContractStep DEF Allowed
<1>3. QED
  BY <1>1, <1>2, GraphInvHolds, PTL DEF Spec, Contract!SafeSpec
=============================================================================
