------------------------------ MODULE AgentProofs ------------------------------
(***************************************************************************)
(* What the loop of AgentLoop returns, whatever the model answers and      *)
(* however long; the warnings LineBalance keeps; and what Analysis proposes *)
(* from any snapshot: the greedy plans, their ranking and the run's steps.  *)
(***************************************************************************)
EXTENDS Agents, Sums, SequenceTheorems

\* The loop is left alone by the other parts.
LEMMA LoopMoves == [AgentsNext]_AgentsVars => [Looping!Next]_loop
BY DEF AgentsNext, AgentsVars, AnalysisStep, LoopStep, LineStep, loop, Looping!vars

-----------------------------------------------------------------------------
(* Induction over the blocks of an answer, as a smallest counterexample. *)

\* Numbers up to n are finitely many.
LEMMA NumbersUpTo ==
  ASSUME NEW n \in Nat, NEW S \in SUBSET (0..n)
  PROVE  S \subseteq Int /\ IsFiniteSet(S)
<1>1. IsFiniteSet(0..n)
  BY FS_Interval
<1>2. IsFiniteSet(S)
  BY <1>1, FS_Subset
<1>3. QED
  BY <1>2

\* What Processed computes: the states before each block and after the last.
Start == [tools |-> tools, found |-> found, actions |-> actions, shown |-> shown,
          submitted |-> <<>>, problems |-> {}]

IsRunOf(st, answer, n) ==
  st = [i \in 0..n |-> IF i = 0 THEN Start ELSE Looping!Block(st[i - 1], answer[i])]

LEMMA RunExists ==
  ASSUME NEW answer, NEW n \in Nat
  PROVE  \E st : IsRunOf(st, answer, n)
<1> DEFINE Bad == {k \in 0..n : ~ \E st : IsRunOf(st, answer, k)}
<1>1. SUFFICES ASSUME Bad # {} PROVE FALSE
  OBVIOUS
<1>2. PICK m \in Bad : \A k \in Bad : m <= k
  <2>1. Bad \subseteq Int /\ IsFiniteSet(Bad)
    BY NumbersUpTo
  <2> HIDE DEF Bad
  <2>2. QED
    BY <1>1, <2>1, HasSmallest
<1>3. m # 0
  <2>1. IsRunOf([i \in 0..0 |-> Start], answer, 0)
    BY DEF IsRunOf
  <2>2. QED
    BY <1>2, <2>1
<1>4. m - 1 \in 0..n /\ m - 1 \notin Bad
  BY <1>2, <1>3
<1>5. PICK g : IsRunOf(g, answer, m - 1)
  BY <1>4
<1> DEFINE h == [i \in 0..m |-> IF i = m THEN Looping!Block(g[m - 1], answer[m]) ELSE g[i]]
<1>6. ASSUME NEW i \in 0..m
      PROVE  h[i] = IF i = 0 THEN Start ELSE Looping!Block(h[i - 1], answer[i])
  <2>1. m \in Nat /\ m # 0
    BY <1>2, <1>3
  <2>2. \A j \in 0..(m - 1) : h[j] = g[j]
    BY <2>1
  <2>3. h[m] = Looping!Block(g[m - 1], answer[m])
    BY <2>1
  <2>4. \A j \in 0..(m - 1) :
          g[j] = IF j = 0 THEN Start ELSE Looping!Block(g[j - 1], answer[j])
    BY <1>5, Zenon DEF IsRunOf
  <2> HIDE DEF h
  <2>5. CASE i = m
    BY <2>1, <2>2, <2>3, <2>5
  <2>6. CASE i # m
    <3>1. i \in 0..(m - 1) /\ (i # 0 => i - 1 \in 0..(m - 1))
      BY <2>1, <2>6
    <3>2. QED
      BY <2>2, <2>4, <3>1
  <2>7. QED
    BY <2>5, <2>6
<1>7. IsRunOf(h, answer, m)
  <2>1. h = [i \in 0..m |-> h[i]]
    OBVIOUS
  <2> HIDE DEF h
  <2>2. [i \in 0..m |-> h[i]]
        = [i \in 0..m |-> IF i = 0 THEN Start ELSE Looping!Block(h[i - 1], answer[i])]
    BY <1>6
  <2>3. QED
    BY <2>1, <2>2 DEF IsRunOf
<1>8. QED
  BY <1>2, <1>7

LEMMA ProcessedIs ==
  ASSUME NEW answer, Len(answer) \in Nat
  PROVE  \E st : IsRunOf(st, answer, Len(answer)) /\ Looping!Processed(answer) = st[Len(answer)]
<1> DEFINE n == Len(answer)
           h == CHOOSE st : st = [i \in 0..n |->
                  IF i = 0
                  THEN [tools |-> tools, found |-> found, actions |-> actions, shown |-> shown,
                        submitted |-> <<>>, problems |-> {}]
                  ELSE Looping!Block(st[i - 1], answer[i])]
<1>1. PICK g : IsRunOf(g, answer, n)
  BY RunExists
<1>2. h = [i \in 0..n |-> IF i = 0 THEN Start ELSE Looping!Block(h[i - 1], answer[i])]
  BY <1>1, Zenon DEF IsRunOf, Start
<1>3. Looping!Processed(answer) = h[n]
  BY Zenon DEF Looping!Processed
<1>4. QED
  BY <1>2, <1>3, Zenon DEF IsRunOf

-----------------------------------------------------------------------------
(* The state the loop keeps from block to block. *)

\* What a tool can report.
Pieces == {Looping!Ev(Looping!DocId, p) : p \in Passages}
          \cup {Looping!Ev(Looping!SimId(n), Looping!SimId(n)) : n \in Nat}

\* The tools added no id twice, and none of the assessment's.
FoundOnce(fs) ==
  /\ fs \in Seq(Pieces)
  /\ \A i \in 1..Len(fs) : fs[i].id \notin Base
  /\ \A i, j \in 1..Len(fs) : fs[i].id = fs[j].id => i = j

\* The assessment's candidates, then k simulated actions, numbered from 1.
Numbered(k) ==
  [i \in 1..(Len(Candidates) + k) |->
     [id |-> IF i <= Len(Candidates) THEN Candidates[i]
             ELSE Looping!SimAction(i - Len(Candidates)),
      cites |-> Base]]

IsNumbered(list) == \E k \in Nat : list = Numbered(k)

\* A submission that was accepted cites what the loop knows.
AcceptedCites(submitted, fs) ==
  \/ submitted = <<>>
  \/ \E call \in Looping!Submissions : submitted = <<call>> /\ call.cites \subseteq Looping!Known(fs)

StateOK(st) ==
  /\ st = [tools |-> st.tools, found |-> st.found, actions |-> st.actions,
           shown |-> st.shown, submitted |-> st.submitted, problems |-> st.problems]
  /\ FoundOnce(st.found)
  /\ IsNumbered(st.actions)
  /\ AcceptedCites(st.submitted, st.found)

LEMMA CandidatesAre ==
  /\ Len(Candidates) \in Nat
  /\ DOMAIN Candidates = 1..Len(Candidates)
BY AgentsAssumption

\* An id is registered when the loop does not know it, and nothing is forgotten.
LEMMA Registering ==
  ASSUME NEW fs, FoundOnce(fs), NEW e \in Pieces,
         NEW gs, gs = IF e.id \in Looping!Known(fs) THEN fs ELSE Append(fs, e)
  PROVE  FoundOnce(gs) /\ Looping!Known(fs) \subseteq Looping!Known(gs)
<1>1. CASE e.id \in Looping!Known(fs)
  BY <1>1
<1>2. CASE e.id \notin Looping!Known(fs)
  <2> DEFINE n == Len(fs)
  <2>1. gs = Append(fs, e) /\ fs \in Seq(Pieces) /\ n \in Nat /\ DOMAIN fs = 1..n
    BY <1>2 DEF FoundOnce
  <2> HIDE DEF Pieces
  <2>2. gs \in Seq(Pieces) /\ Len(gs) = n + 1 /\ gs[n + 1] = e
        /\ (\A i \in 1..n : gs[i] = fs[i]) /\ DOMAIN gs = 1..(n + 1)
    BY <2>1
  <2>3. Looping!Known(fs) = Base \cup {fs[i].id : i \in 1..n}
    BY <2>1 DEF Looping!Known, Looping!Ids, Looping!ToSet
  <2>4. Looping!Known(gs) = Base \cup {gs[i].id : i \in 1..(n + 1)}
    BY <2>2 DEF Looping!Known, Looping!Ids, Looping!ToSet
  <2> HIDE DEF n
  <2>5. e.id \notin Base /\ \A i \in 1..n : fs[i].id # e.id
    BY <1>2, <2>3
  <2>6. \A i \in 1..(n + 1) : i \in 1..n \/ i = n + 1
    BY <2>1
  <2>7. (\A i \in 1..n : fs[i].id \notin Base) /\ (\A i, j \in 1..n : fs[i].id = fs[j].id => i = j)
    BY DEF FoundOnce, n
  <2>8. \A i \in 1..(n + 1) : gs[i].id \notin Base
    BY <2>2, <2>5, <2>6, <2>7
  <2>9. \A i, j \in 1..(n + 1) : gs[i].id = gs[j].id => i = j
    BY <2>2, <2>5, <2>6, <2>7
  <2>10. Looping!Known(fs) \subseteq Looping!Known(gs)
    <3>1. \A i \in 1..n : i \in 1..(n + 1)
      BY <2>1
    <3>2. QED
      BY <2>2, <2>3, <2>4, <3>1
  <2>11. QED
    BY <2>2, <2>8, <2>9, <2>10 DEF FoundOnce
<1>3. QED
  BY <1>1, <1>2

\* The next simulated action gets the next number.
LEMMA NextSimulated ==
  ASSUME NEW k \in Nat
  PROVE  /\ Looping!Cardinality(Looping!SimulatedIn(Numbered(k))) = k
         /\ Append(Numbered(k), [id |-> Looping!SimAction(k + 1), cites |-> Base])
            = Numbered(k + 1)
<1> DEFINE c == Len(Candidates)
<1>1. c \in Nat /\ DOMAIN Candidates = 1..c
  BY CandidatesAre
<1>2. DOMAIN Numbered(k) = 1..(c + k)
  BY DEF Numbered
<1>3. \A i \in 1..(c + k) :
         Numbered(k)[i].id = IF i <= c THEN Candidates[i] ELSE Looping!SimAction(i - c)
  BY DEF Numbered
<1>4. Looping!SimulatedIn(Numbered(k)) = (c + 1)..(c + k)
  <2>1. ASSUME NEW i \in 1..(c + k), i <= c PROVE Numbered(k)[i].id \in Looping!ToSet(Candidates)
    BY <1>1, <1>3, <2>1 DEF Looping!ToSet
  <2>2. ASSUME NEW i \in 1..(c + k), ~(i <= c)
        PROVE  Numbered(k)[i].id \notin Looping!ToSet(Candidates)
    <3>1. i - c \in Nat
      BY <1>1, <2>2
    <3>2. Looping!SimAction(i - c) \in {"act-sim"} \X Nat
      BY <3>1 DEF Looping!SimAction
    <3>3. QED
      BY <1>3, <2>2, <3>2, AgentsAssumption DEF Looping!ToSet
  <2>3. \A i \in 1..(c + k) : i \in (c + 1)..(c + k) <=> ~(i <= c)
    BY <1>1
  <2>4. (c + 1)..(c + k) \subseteq 1..(c + k)
    BY <1>1
  <2> HIDE DEF c
  <2>5. QED
    BY <1>2, <2>1, <2>2, <2>3, <2>4 DEF Looping!SimulatedIn
<1>5. Looping!Cardinality((c + 1)..(c + k)) = Cardinality((c + 1)..(c + k))
  BY DEF Looping!Cardinality, Cardinality
<1> HIDE DEF c
<1>6. Cardinality((c + 1)..(c + k)) = k
  <2>1. c + 1 \in Int /\ c + k \in Int
    BY <1>1
  <2>2. Cardinality((c + 1)..(c + k)) = IF c + 1 > c + k THEN 0 ELSE (c + k) - (c + 1) + 1
    BY <2>1, FS_Interval
  <2>3. QED
    BY <1>1, <2>2
<1>7. Append(Numbered(k), [id |-> Looping!SimAction(k + 1), cites |-> Base]) = Numbered(k + 1)
  <2> DEFINE a == [id |-> Looping!SimAction(k + 1), cites |-> Base]
             F(i) == [id |-> IF i <= c THEN Candidates[i] ELSE Looping!SimAction(i - c),
                      cites |-> Base]
             m == c + k
  <2>1. m \in Nat /\ m + 1 = c + (k + 1)
    BY <1>1
  <2>2. F(m + 1) = a
    BY <1>1
  <2>3. Numbered(k) = [i \in 1..m |-> F(i)]
    BY DEF Numbered, c
  <2>4. Numbered(k + 1) = [i \in 1..(m + 1) |-> F(i)]
    BY <2>1 DEF Numbered, c
  <2> HIDE DEF F, m, a
  <2>5. Append([i \in 1..m |-> F(i)], a) = [i \in 1..(m + 1) |-> F(i)]
    <3>1. [i \in 1..m |-> F(i)] \in Seq({F(i) : i \in 1..m})
      BY <2>1
    <3>2. Len([i \in 1..m |-> F(i)]) = m
      BY <2>1
    <3>3. Append([i \in 1..m |-> F(i)], a)
          = [i \in 1..(m + 1) |-> IF i = m + 1 THEN a ELSE F(i)]
      BY <2>1, <3>1, <3>2
    <3>4. QED
      BY <2>2, <3>3
  <2>6. QED
    BY <2>3, <2>4, <2>5 DEF a
<1>8. QED
  BY <1>4, <1>5, <1>6, <1>7

\* What the loop knows only grows, and so an accepted submission stays one.
LEMMA RegisterKeeps ==
  ASSUME NEW st, StateOK(st), NEW e \in Pieces, NEW new, new = Looping!Registered(st, e)
  PROVE  /\ StateOK(new)
         /\ new.actions = st.actions
<1> DEFINE gs == IF e.id \in Looping!Known(st.found) THEN st.found ELSE Append(st.found, e)
           sh == st.shown \cup {<<e.id, e.ref>>}
           to == st.tools + 1
<1>1. st = [tools |-> st.tools, found |-> st.found, actions |-> st.actions,
            shown |-> st.shown, submitted |-> st.submitted, problems |-> st.problems]
  BY DEF StateOK
<1>2. new = [st EXCEPT !.found = gs, !.shown = sh, !.tools = to]
  BY DEF Looping!Registered
<1>3. FoundOnce(gs) /\ Looping!Known(st.found) \subseteq Looping!Known(gs)
  BY Registering DEF StateOK
<1>4. AcceptedCites(st.submitted, gs)
  BY <1>3 DEF StateOK, AcceptedCites
<1> HIDE DEF gs, sh, to
<1>5. new = [tools |-> to, found |-> gs, actions |-> st.actions,
             shown |-> sh, submitted |-> st.submitted, problems |-> st.problems]
  BY <1>1, <1>2
<1>6. QED
  BY <1>3, <1>4, <1>5 DEF StateOK

Blocks == Looping!Submissions \cup Looping!ToolCalls

LEMMA SimulateKeeps ==
  ASSUME NEW st, StateOK(st)
  PROVE  StateOK(Looping!Simulate(st))
<1>1. PICK k \in Nat : st.actions = Numbered(k)
  BY DEF StateOK, IsNumbered
<1> DEFINE n == Looping!Cardinality(Looping!SimulatedIn(st.actions)) + 1
           e == Looping!Ev(Looping!SimId(n), Looping!SimId(n))
           mid == Looping!Registered(st, e)
           a == [id |-> Looping!SimAction(n), cites |-> Base]
<1>2. n = k + 1 /\ n \in Nat
  <2>1. Looping!Cardinality(Looping!SimulatedIn(st.actions)) = k
    BY <1>1, NextSimulated
  <2>2. QED
    BY <2>1
<1>3. e \in Pieces
  BY <1>2 DEF Pieces
<1>4. Looping!Simulate(st) = [mid EXCEPT !.actions = Append(mid.actions, a)]
  BY DEF Looping!Simulate, Looping!SimulatedCites
<1> HIDE DEF n, e, mid
<1>5. StateOK(mid) /\ mid.actions = st.actions
  BY <1>3, RegisterKeeps DEF mid
<1>6. Append(mid.actions, a) = Numbered(k + 1)
  BY <1>1, <1>2, <1>5, NextSimulated
<1> HIDE DEF a
<1>7. mid = [tools |-> mid.tools, found |-> mid.found, actions |-> mid.actions,
             shown |-> mid.shown, submitted |-> mid.submitted, problems |-> mid.problems]
  BY <1>5 DEF StateOK
<1>8. Looping!Simulate(st)
      = [tools |-> mid.tools, found |-> mid.found, actions |-> Numbered(k + 1),
         shown |-> mid.shown, submitted |-> mid.submitted, problems |-> mid.problems]
  BY <1>4, <1>6, <1>7
<1>9. IsNumbered(Numbered(k + 1))
  BY DEF IsNumbered
<1>10. QED
  BY <1>5, <1>8, <1>9 DEF StateOK

LEMMA SubmitKeeps ==
  ASSUME NEW st, StateOK(st), NEW call \in Blocks, call.kind = "submit"
  PROVE  StateOK(Looping!Block(st, call))
<1>1. st = [tools |-> st.tools, found |-> st.found, actions |-> st.actions,
            shown |-> st.shown, submitted |-> st.submitted, problems |-> st.problems]
  BY DEF StateOK
<1>2. call \in Looping!Submissions
  BY DEF Blocks, Looping!ToolCalls
<1>3. CASE Looping!Accepts(st, call)
  <2>1. Looping!Block(st, call) = [st EXCEPT !.submitted = <<call>>]
    BY <1>3 DEF Looping!Block
  <2>2. Looping!Block(st, call)
        = [tools |-> st.tools, found |-> st.found, actions |-> st.actions,
           shown |-> st.shown, submitted |-> <<call>>, problems |-> st.problems]
    BY <1>1, <2>1
  <2>3. AcceptedCites(<<call>>, st.found)
    BY <1>2, <1>3 DEF AcceptedCites, Looping!Accepts
  <2>4. QED
    BY <2>2, <2>3 DEF StateOK
<1>4. CASE ~Looping!Accepts(st, call)
  <2> DEFINE ps == st.problems \cup {call}
  <2>1. Looping!Block(st, call) = [st EXCEPT !.problems = ps]
    BY <1>4 DEF Looping!Block
  <2> HIDE DEF ps
  <2>2. Looping!Block(st, call)
        = [tools |-> st.tools, found |-> st.found, actions |-> st.actions,
           shown |-> st.shown, submitted |-> st.submitted, problems |-> ps]
    BY <1>1, <2>1
  <2>3. QED
    BY <2>2 DEF StateOK
<1>5. QED
  BY <1>3, <1>4

\* Every block of an answer keeps the state as the loop needs it.
LEMMA BlockKeeps ==
  ASSUME NEW st, StateOK(st), NEW call \in Blocks
  PROVE  StateOK(Looping!Block(st, call))
<1>1. CASE call.kind = "submit"
  BY <1>1, SubmitKeeps
<1>2. CASE call.kind # "submit"
  <2>1. call.kind = "search" => call.passage \in Passages
    BY <1>2 DEF Blocks, Looping!Submissions, Looping!ToolCalls
  <2>2. \/ Looping!Block(st, call) = st
        \/ call.kind = "search" /\ Looping!Block(st, call) = Looping!Search(st, call.passage)
        \/ Looping!Block(st, call) = Looping!Simulate(st)
        \/ Looping!Block(st, call) = Looping!Refused(st)
    BY <1>2 DEF Looping!Block
  <2>3. CASE call.kind = "search" /\ Looping!Block(st, call) = Looping!Search(st, call.passage)
    <3>1. Looping!Ev(Looping!DocId, call.passage) \in Pieces
      BY <2>1, <2>3 DEF Pieces
    <3>2. QED
      BY <2>3, <3>1, RegisterKeeps DEF Looping!Search
  <2>4. CASE Looping!Block(st, call) = Looping!Refused(st)
    <3> DEFINE to == st.tools + 1
    <3>1. st = [tools |-> st.tools, found |-> st.found, actions |-> st.actions,
                shown |-> st.shown, submitted |-> st.submitted, problems |-> st.problems]
      BY DEF StateOK
    <3>2. Looping!Refused(st) = [st EXCEPT !.tools = to]
      BY DEF Looping!Refused
    <3> HIDE DEF to
    <3>3. Looping!Refused(st)
          = [tools |-> to, found |-> st.found, actions |-> st.actions,
             shown |-> st.shown, submitted |-> st.submitted, problems |-> st.problems]
      BY <3>1, <3>2
    <3>4. QED
      BY <2>4, <3>3 DEF StateOK
  <2>5. QED
    BY <2>2, <2>3, <2>4, SimulateKeeps
<1>3. QED
  BY <1>1, <1>2

\* And so does the whole answer.
LEMMA AnswerKeeps ==
  ASSUME FoundOnce(found), IsNumbered(actions), NEW answer \in Looping!Answers
  PROVE  StateOK(Looping!Processed(answer))
<1>1. PICK n \in Nat : answer \in [1..n -> Blocks] /\ Len(answer) = n
  BY AgentsAssumption DEF Looping!Answers, Looping!SeqOf, Blocks
<1>2. PICK st : IsRunOf(st, answer, n) /\ Looping!Processed(answer) = st[n]
  BY <1>1, ProcessedIs
<1> DEFINE Bad == {i \in 0..n : ~StateOK(st[i])}
<1>3. SUFFICES ASSUME Bad # {} PROVE FALSE
  BY <1>2
<1>4. PICK m \in Bad : \A i \in Bad : m <= i
  <2>1. Bad \subseteq Int /\ IsFiniteSet(Bad)
    BY NumbersUpTo
  <2> HIDE DEF Bad
  <2>2. QED
    BY <1>3, <2>1, HasSmallest
<1>5. m \in 0..n /\ ~StateOK(st[m])
  BY <1>4
<1>6. st[m] = IF m = 0 THEN Start ELSE Looping!Block(st[m - 1], answer[m])
  BY <1>2, <1>5, Zenon DEF IsRunOf
<1>7. CASE m = 0
  <2>1. StateOK(Start)
    BY DEF StateOK, Start, AcceptedCites
  <2>2. QED
    BY <1>5, <1>6, <1>7, <2>1
<1>8. CASE m # 0
  <2>1. m \in 1..n /\ m - 1 \in 0..n /\ ~(m <= m - 1)
    BY <1>5, <1>8
  <2>2. StateOK(st[m - 1])
    BY <1>4, <2>1
  <2>3. answer[m] \in Blocks
    BY <1>1, <2>1
  <2>4. StateOK(Looping!Block(st[m - 1], answer[m]))
    BY <2>2, <2>3, BlockKeeps
  <2>5. QED
    BY <1>5, <1>6, <1>8, <2>4
<1>9. QED
  BY <1>7, <1>8

-----------------------------------------------------------------------------
(* Results. *)

\* The assessment's evidence is a list of its ids, each once.
LEMMA BaseIsListed ==
  /\ Looping!BaseEvidence \in Seq({Looping!Ev(e, e) : e \in Base})
  /\ \A i, j \in 1..Len(Looping!BaseEvidence) :
        Looping!BaseEvidence[i].id = Looping!BaseEvidence[j].id => i = j
  /\ Base = {Looping!BaseEvidence[i].id : i \in 1..Len(Looping!BaseEvidence)}
<1> DEFINE D == {Looping!Ev(e, e) : e \in Base}
           f == [e \in Base |-> Looping!Ev(e, e)]
           n == Cardinality(D)
           b == Looping!BaseEvidence
<1>1. f \in Surjection(Base, D)
  BY DEF Surjection
<1>2. \A d \in D : d.id \in Base /\ d = Looping!Ev(d.id, d.id)
  BY DEF Looping!Ev
<1>3. \A e \in Base : Looping!Ev(e, e) \in D /\ Looping!Ev(e, e).id = e
  BY DEF Looping!Ev
<1>4. b = CHOOSE g \in [1..Looping!Cardinality(D) -> D] : Looping!IsInjective(g)
  BY DEF Looping!BaseEvidence, Looping!SetToSeq
<1>5. Looping!Cardinality(D) = n
  BY DEF Looping!Cardinality, Cardinality
<1> HIDE DEF f, D, b
<1>6. IsFiniteSet(D)
  BY <1>1, AgentsAssumption, FS_Surjection
<1>7. n \in Nat /\ ExistsBijection(1..n, D)
  BY <1>6, FS_CardinalityType
<1> HIDE DEF n
<1>8. \E g \in [1..n -> D] : Looping!IsInjective(g)
  BY <1>7 DEF ExistsBijection, Bijection, Injection, IsInjective, Looping!IsInjective
<1>9. b \in [1..n -> D] /\ Looping!IsInjective(b)
  BY <1>4, <1>5, <1>8
<1>10. b \in Injection(1..n, D)
  BY <1>9 DEF Injection, IsInjective, Looping!IsInjective
<1>11. b \in Surjection(1..n, D)
  <2>1. Cardinality(1..n) = n
    BY <1>7, FS_Interval
  <2>2. QED
    BY <1>6, <1>10, <2>1, FS_Injection DEF n
<1>12. b \in Seq(D) /\ Len(b) = n
  BY <1>7, <1>9
<1>13. \A i, j \in 1..n : b[i].id = b[j].id => i = j
  BY <1>2, <1>9 DEF Looping!IsInjective
<1>14. Base = {b[i].id : i \in 1..n}
  <2>1. \A e \in Base : \E i \in 1..n : b[i] = Looping!Ev(e, e)
    BY <1>3, <1>11 DEF Surjection
  <2>2. \A i \in 1..n : b[i].id \in Base
    BY <1>2, <1>9
  <2>3. QED
    BY <1>3, <2>1, <2>2
<1>15. QED
  BY <1>12, <1>13, <1>14 DEF b, D

\* With what the tools found behind it, it still names no id twice, and is all
\* that the loop knows.
LEMMA EvidenceIsOnce ==
  ASSUME NEW fs, FoundOnce(fs), NEW ev, ev = Looping!BaseEvidence \o fs
  PROVE  /\ \A i, j \in DOMAIN ev : ev[i].id = ev[j].id => i = j
         /\ Looping!Ids(ev) = Looping!Known(fs)
<1> DEFINE b == Looping!BaseEvidence
           D == {Looping!Ev(e, e) : e \in Base}
           n == Len(b)
           m == Len(fs)
<1>1. b \in Seq(D) /\ n \in Nat /\ fs \in Seq(Pieces) /\ m \in Nat
  BY BaseIsListed DEF FoundOnce
<1>2. \A i, j \in 1..n : b[i].id = b[j].id => i = j
  BY BaseIsListed
<1>3. Base = {b[i].id : i \in 1..n}
  BY BaseIsListed
<1>4. \A i \in 1..m : fs[i].id \notin Base /\ \A j \in 1..m : fs[i].id = fs[j].id => i = j
  BY DEF FoundOnce
<1> HIDE DEF D, b, Pieces
<1>5. ev = b \o fs /\ DOMAIN b = 1..n /\ DOMAIN fs = 1..m
  BY <1>1 DEF b
<1> HIDE DEF n, m
<1>6. DOMAIN ev = 1..(n + m)
      /\ \A i \in 1..(n + m) : ev[i] = IF i <= n THEN b[i] ELSE fs[i - n]
  BY <1>1, <1>5 DEF n, m
<1>7. \A i \in 1..(n + m) : i \in 1..n \/ (~(i <= n) /\ i - n \in 1..m)
  BY <1>1
<1>8. \A i \in 1..(n + m) : IF i <= n THEN ev[i].id \in Base ELSE ev[i].id \notin Base
  <2> SUFFICES ASSUME NEW i \in 1..(n + m)
               PROVE  IF i <= n THEN ev[i].id \in Base ELSE ev[i].id \notin Base
    OBVIOUS
  <2>1. CASE i <= n
    <3>1. i \in 1..n /\ ev[i] = b[i]
      BY <1>6, <1>7, <2>1
    <3>2. QED
      BY <1>3, <2>1, <3>1
  <2>2. CASE ~(i <= n)
    <3>1. i - n \in 1..m /\ ev[i] = fs[i - n]
      BY <1>1, <1>6, <1>7, <2>2
    <3>2. QED
      BY <1>4, <2>2, <3>1
  <2>3. QED
    BY <2>1, <2>2
<1>9. ASSUME NEW i \in 1..(n + m), NEW j \in 1..(n + m), ev[i].id = ev[j].id PROVE i = j
  <2>1. CASE i <= n
    <3>1. j <= n
      BY <1>8, <1>9, <2>1
    <3>2. i \in 1..n /\ j \in 1..n /\ ev[i] = b[i] /\ ev[j] = b[j]
      BY <1>6, <1>7, <2>1, <3>1
    <3>3. QED
      BY <1>2, <1>9, <3>2
  <2>2. CASE ~(i <= n)
    <3>1. ~(j <= n)
      BY <1>8, <1>9, <2>2
    <3>2. i - n \in 1..m /\ j - n \in 1..m /\ ev[i] = fs[i - n] /\ ev[j] = fs[j - n]
      BY <1>1, <1>6, <1>7, <2>2, <3>1
    <3>3. i - n = j - n
      BY <1>4, <1>9, <3>2
    <3>4. QED
      BY <1>1, <3>3
  <2>3. QED
    BY <2>1, <2>2
<1>10. Looping!Ids(ev) = {ev[i].id : i \in 1..(n + m)}
  BY <1>6 DEF Looping!Ids, Looping!ToSet
<1>11. Looping!Known(fs) = Base \cup {fs[i].id : i \in 1..m}
  BY <1>5 DEF Looping!Known, Looping!Ids, Looping!ToSet
<1>12. Looping!Ids(ev) = Looping!Known(fs)
  <2>1. ASSUME NEW i \in 1..(n + m) PROVE ev[i].id \in Looping!Known(fs)
    <3>1. CASE i <= n
      BY <1>8, <1>11, <3>1
    <3>2. CASE ~(i <= n)
      <4>1. i - n \in 1..m /\ ev[i] = fs[i - n]
        BY <1>1, <1>6, <1>7, <3>2
      <4>2. QED
        BY <1>11, <4>1
    <3>3. QED
      BY <3>1, <3>2
  <2>2. ASSUME NEW i \in 1..n PROVE b[i].id \in Looping!Ids(ev)
    <3>1. i \in 1..(n + m) /\ i <= n
      BY <1>1
    <3>2. QED
      BY <1>6, <1>10, <3>1
  <2>3. ASSUME NEW i \in 1..m PROVE fs[i].id \in Looping!Ids(ev)
    <3>1. n + i \in 1..(n + m) /\ ~(n + i <= n) /\ (n + i) - n = i
      BY <1>1
    <3>2. ev[n + i] = fs[i]
      BY <1>6, <3>1
    <3>3. QED
      BY <1>10, <3>1, <3>2
  <2>4. Looping!Ids(ev) \subseteq Looping!Known(fs)
    BY <1>10, <2>1
  <2>5. Base \subseteq Looping!Ids(ev)
    BY <1>3, <2>2
  <2>6. {fs[i].id : i \in 1..m} \subseteq Looping!Ids(ev)
    BY <2>3
  <2>7. QED
    BY <1>11, <2>4, <2>5, <2>6
<1>13. QED
  BY <1>6, <1>9, <1>12

\* The candidates are all there, and no action twice, citing the assessment.
ActionsOK(list) ==
  /\ \A i \in DOMAIN list : list[i].cites = Base
  /\ \A i, j \in DOMAIN list : list[i].id = list[j].id => i = j
  /\ \A c \in Looping!ToSet(Candidates) : \E i \in DOMAIN list : list[i].id = c

LEMMA NumberedIsOK ==
  ASSUME NEW acts, IsNumbered(acts)
  PROVE  ActionsOK(acts) /\ \E m \in Nat : acts \in [1..m -> {acts[i] : i \in 1..m}]
<1>1. PICK k \in Nat : acts = Numbered(k)
  BY DEF IsNumbered
<1> DEFINE c == Len(Candidates)
           m == c + k
<1>2. c \in Nat /\ DOMAIN Candidates = 1..c
  BY CandidatesAre
<1>3. DOMAIN acts = 1..m /\ acts = [i \in 1..m |-> acts[i]]
  BY <1>1 DEF Numbered
<1>4. \A i \in 1..m : /\ acts[i].id = IF i <= c THEN Candidates[i] ELSE Looping!SimAction(i - c)
                      /\ acts[i].cites = Base
  BY <1>1 DEF Numbered
<1>5. \A i \in 1..c : Candidates[i] \notin {"act-sim"} \X Nat
                      /\ \A j \in 1..c : Candidates[i] = Candidates[j] => i = j
  BY <1>2, AgentsAssumption
<1>6. \A i, j \in Nat : /\ Looping!SimAction(i) \in {"act-sim"} \X Nat
                        /\ Looping!SimAction(i) = Looping!SimAction(j) => i = j
  BY DEF Looping!SimAction
<1>7. \A i \in 1..m : (i <= c /\ i \in 1..c) \/ (~(i <= c) /\ i - c \in Nat)
  BY <1>2
<1> HIDE DEF c
<1>8. \A i, j \in 1..m : acts[i].id = acts[j].id => i = j
  <2> SUFFICES ASSUME NEW i \in 1..m, NEW j \in 1..m, acts[i].id = acts[j].id PROVE i = j
    OBVIOUS
  <2>1. CASE i <= c /\ j <= c
    BY <1>4, <1>5, <1>7, <2>1
  <2>2. CASE ~(i <= c) /\ ~(j <= c)
    <3>1. acts[i].id = Looping!SimAction(i - c) /\ acts[j].id = Looping!SimAction(j - c)
          /\ i - c \in Nat /\ j - c \in Nat
      BY <1>4, <1>7, <2>2
    <3>2. i - c = j - c
      BY <1>6, <3>1
    <3>3. QED
      BY <1>2, <3>2
  <2>3. CASE i <= c /\ ~(j <= c)
    <3>1. acts[i].id \notin {"act-sim"} \X Nat
      BY <1>4, <1>5, <1>7, <2>3
    <3>2. acts[j].id \in {"act-sim"} \X Nat
      BY <1>4, <1>6, <1>7, <2>3
    <3>3. QED
      BY <3>1, <3>2
  <2>4. CASE ~(i <= c) /\ j <= c
    <3>1. acts[j].id \notin {"act-sim"} \X Nat
      BY <1>4, <1>5, <1>7, <2>4
    <3>2. acts[i].id \in {"act-sim"} \X Nat
      BY <1>4, <1>6, <1>7, <2>4
    <3>3. QED
      BY <3>1, <3>2
  <2>5. QED
    BY <2>1, <2>2, <2>3, <2>4
<1>9. \A x \in Looping!ToSet(Candidates) : \E i \in 1..m : acts[i].id = x
  <2>1. \A i \in 1..c : i \in 1..m /\ acts[i].id = Candidates[i]
    <3>1. \A i \in 1..c : i \in 1..m /\ i <= c
      BY <1>2
    <3>2. QED
      BY <1>4, <3>1
  <2>2. QED
    BY <1>2, <2>1 DEF Looping!ToSet
<1>10. m \in Nat
  BY <1>2
<1> HIDE DEF m
<1>11. acts \in [1..m -> {acts[i] : i \in 1..m}]
  BY <1>3
<1>12. QED
  BY <1>3, <1>4, <1>8, <1>9, <1>10, <1>11 DEF ActionsOK

\* The selected action moves to the front, and the others keep their order.
LEMMA RerankIsOK ==
  ASSUME NEW A, NEW m \in Nat, NEW acts, acts \in [1..m -> A], ActionsOK(acts), NEW id
  PROVE  ActionsOK(Looping!Reranked(acts, id))
<1>0. acts \in Seq(A) /\ Len(acts) = m
  OBVIOUS
<1>1. CASE id \notin {a.id : a \in Looping!ToSet(acts)}
  BY <1>1 DEF Looping!Reranked
<1>2. CASE id \in {a.id : a \in Looping!ToSet(acts)}
  <2> DEFINE i == CHOOSE i \in DOMAIN acts : acts[i].id = id
             r == Looping!Reranked(acts, id)
             P(j) == IF j = 1 THEN i ELSE IF j <= i THEN j - 1 ELSE j
  <2>1. i \in 1..m
    BY <1>2 DEF Looping!ToSet
  <2>2. r = <<acts[i]>> \o Looping!RemoveAt(acts, i)
    BY <1>2 DEF Looping!Reranked
  <2> HIDE DEF i, r
  <2>3. DOMAIN r = 1..m /\ \A j \in 1..m : r[j] = acts[P(j)]
    <3> DEFINE front == SubSeq(acts, 1, i - 1)
               back == SubSeq(acts, i + 1, m)
               s == front \o back
    <3>2. r = <<acts[i]>> \o s
      BY <1>0, <2>2 DEF Looping!RemoveAt
    <3> HIDE DEF P
    <3>3. front \in Seq(A) /\ Len(front) = i - 1 /\ \A j \in 1..(i - 1) : front[j] = acts[j]
      <4>1. 1 \in Int /\ i - 1 \in Int /\ \A j \in 1..(i - 1) : acts[j] \in A
        BY <2>1
      <4>2. /\ front \in Seq(A)
            /\ Len(front) = IF 1 <= i - 1 THEN (i - 1) - 1 + 1 ELSE 0
            /\ \A j \in 1..(i - 1) - 1 + 1 : front[j] = acts[1 + j - 1]
        BY <4>1, SubSeqProperties
      <4>3. (i - 1) - 1 + 1 = i - 1 /\ \A j \in 1..(i - 1) : 1 + j - 1 = j
        BY <2>1
      <4> HIDE DEF front
      <4>4. QED
        BY <2>1, <4>2, <4>3
    <3>4. back \in Seq(A) /\ Len(back) = m - i /\ \A j \in 1..(m - i) : back[j] = acts[i + j]
      <4>1. i + 1 \in Int /\ m \in Int /\ \A j \in (i + 1)..m : acts[j] \in A
        BY <2>1
      <4>2. /\ back \in Seq(A)
            /\ Len(back) = IF i + 1 <= m THEN m - (i + 1) + 1 ELSE 0
            /\ \A j \in 1..m - (i + 1) + 1 : back[j] = acts[(i + 1) + j - 1]
        BY <4>1, SubSeqProperties
      <4>3. m - (i + 1) + 1 = m - i /\ \A j \in 1..(m - i) : (i + 1) + j - 1 = i + j
        BY <2>1
      <4> HIDE DEF back
      <4>4. QED
        BY <2>1, <4>2, <4>3
    <3> HIDE DEF front, back
    <3>5. s \in Seq(A) /\ Len(s) = m - 1
          /\ \A j \in 1..(m - 1) : s[j] = IF j <= i - 1 THEN front[j] ELSE back[j - (i - 1)]
      <4>1. /\ s \in Seq(A)
            /\ Len(s) = Len(front) + Len(back)
            /\ \A j \in 1..Len(front) + Len(back) :
                  s[j] = IF j <= Len(front) THEN front[j] ELSE back[j - Len(front)]
        BY <3>3, <3>4, ConcatProperties
      <4>2. Len(front) + Len(back) = m - 1
        BY <2>1, <3>3, <3>4
      <4> HIDE DEF s
      <4>3. QED
        BY <3>3, <4>1, <4>2
    <3>6. \A j \in 1..(m - 1) : s[j] = IF j < i THEN acts[j] ELSE acts[j + 1]
      <4> TAKE j \in 1..(m - 1)
      <4>1. CASE j < i
        <5>1. j \in 1..(i - 1) /\ j <= i - 1
          BY <2>1, <4>1
        <5>2. QED
          BY <3>3, <3>5, <4>1, <5>1
      <4>2. CASE ~(j < i)
        <5>1. j - (i - 1) \in 1..(m - i) /\ i + (j - (i - 1)) = j + 1 /\ ~(j <= i - 1)
          BY <2>1, <4>2
        <5>2. QED
          BY <3>4, <3>5, <4>2, <5>1
      <4>3. QED
        BY <4>1, <4>2
    <3> HIDE DEF s
    <3>7. acts[i] \in A
      BY <2>1
    <3>8. DOMAIN r = 1..m /\ r[1] = acts[i] /\ \A j \in 1..m : j # 1 => r[j] = s[j - 1]
      BY <2>1, <3>2, <3>5, <3>7
    <3>9. ASSUME NEW j \in 1..m PROVE r[j] = acts[P(j)]
      <4>1. CASE j = 1
        BY <3>8, <4>1 DEF P
      <4>2. CASE j # 1
        <5>1. j - 1 \in 1..(m - 1) /\ (j - 1) + 1 = j /\ (j - 1 < i <=> j <= i)
          BY <2>1, <4>2
        <5>2. QED
          BY <3>6, <3>8, <4>2, <5>1 DEF P
      <4>3. QED
        BY <4>1, <4>2
    <3>10. QED
      BY <3>8, <3>9
  <2>4. \A j \in 1..m : P(j) \in 1..m
    BY <2>1
  <2>5. \A j, k \in 1..m : P(j) = P(k) => j = k
    BY <2>1
  <2>6. \A k \in 1..m : \E j \in 1..m : P(j) = k
    <3> TAKE k \in 1..m
    <3> DEFINE j == IF k = i THEN 1 ELSE IF k < i THEN k + 1 ELSE k
    <3>1. j \in 1..m /\ P(j) = k
      BY <2>1
    <3>2. QED
      BY <3>1
  <2> HIDE DEF P
  <2>7. DOMAIN acts = 1..m
    OBVIOUS
  <2>8. \A j \in 1..m : r[j].cites = Base
    BY <2>3, <2>4, <2>7 DEF ActionsOK
  <2>9. \A j, k \in 1..m : r[j].id = r[k].id => j = k
    BY <2>3, <2>4, <2>5, <2>7 DEF ActionsOK
  <2>10. \A c \in Looping!ToSet(Candidates) : \E j \in 1..m : r[j].id = c
    <3> TAKE c \in Looping!ToSet(Candidates)
    <3>1. PICK k \in 1..m : acts[k].id = c
      BY <2>7 DEF ActionsOK
    <3>2. PICK j \in 1..m : P(j) = k
      BY <2>6
    <3>3. QED
      BY <2>3, <3>1, <3>2
  <2>11. ActionsOK(r)
    BY <2>3, <2>8, <2>9, <2>10 DEF ActionsOK
  <2>12. QED
    BY <2>11 DEF r
<1>3. QED
  BY <1>1, <1>2

\* What ResultIsValid says of a result.
Valid(r) ==
  /\ \A i, j \in DOMAIN r.evidence : r.evidence[i].id = r.evidence[j].id => i = j
  /\ Base \subseteq Looping!Ids(r.evidence)
  /\ r.cited \subseteq Looping!Ids(r.evidence)
  /\ \A i \in DOMAIN r.actions :
        /\ r.actions[i].cites \subseteq Looping!Ids(r.evidence)
        /\ \A j \in DOMAIN r.actions : r.actions[i].id = r.actions[j].id => i = j
  /\ Looping!ToSet(Candidates) \subseteq {a.id : a \in Looping!ToSet(r.actions)}

\* Evidence without repetition that covers the assessment, citations among it
\* and the assessment's actions make a valid result.
LEMMA PartsMakeValid ==
  ASSUME NEW fs, FoundOnce(fs), NEW acts, ActionsOK(acts),
         NEW cited, cited \subseteq Looping!Known(fs), NEW status,
         NEW r, r = [status |-> status, evidence |-> Looping!BaseEvidence \o fs,
                     actions |-> acts, cited |-> cited]
  PROVE  Valid(r)
<1> DEFINE ev == Looping!BaseEvidence \o fs
<1>1. /\ \A i, j \in DOMAIN ev : ev[i].id = ev[j].id => i = j
      /\ Looping!Ids(ev) = Looping!Known(fs)
  BY EvidenceIsOnce
<1>2. Base \subseteq Looping!Known(fs)
  BY DEF Looping!Known
<1> HIDE DEF ev
<1>3. r.evidence = ev /\ r.actions = acts /\ r.cited = cited
  BY DEF ev
<1>4. Looping!ToSet(Candidates) \subseteq {a.id : a \in Looping!ToSet(acts)}
  <2>1. Looping!ToSet(acts) = {acts[i] : i \in DOMAIN acts}
    BY DEF Looping!ToSet
  <2>2. QED
    BY <2>1 DEF ActionsOK
<1>5. \A i \in DOMAIN acts : /\ acts[i].cites = Base
                             /\ \A j \in DOMAIN acts : acts[i].id = acts[j].id => i = j
  BY DEF ActionsOK
<1>6. \A i, j \in DOMAIN r.evidence : r.evidence[i].id = r.evidence[j].id => i = j
  BY <1>1, <1>3
<1>7. Base \subseteq Looping!Ids(r.evidence) /\ r.cited \subseteq Looping!Ids(r.evidence)
  BY <1>1, <1>2, <1>3
<1>8. \A i \in DOMAIN r.actions :
        /\ r.actions[i].cites \subseteq Looping!Ids(r.evidence)
        /\ \A j \in DOMAIN r.actions : r.actions[i].id = r.actions[j].id => i = j
  <2>1. Base \subseteq Looping!Ids(r.evidence)
    BY <1>7
  <2>2. \A i \in DOMAIN r.actions :
           /\ r.actions[i].cites = Base
           /\ \A j \in DOMAIN r.actions : r.actions[i].id = r.actions[j].id => i = j
    BY Zenon, <1>3, <1>5
  <2>3. QED
    BY Zenon, <2>1, <2>2
<1>9. Looping!ToSet(Candidates) \subseteq {a.id : a \in Looping!ToSet(r.actions)}
  BY <1>3, <1>4
<1>10. QED
  BY Zenon, <1>6, <1>7, <1>8, <1>9 DEF Valid

\* The assessment's own evidence is one without findings.
LEMMA DegradedIsValid ==
  ASSUME NEW acts, IsNumbered(acts)
  PROVE  Valid(Looping!Degraded(acts))
<1>1. FoundOnce(<<>>)
  BY DEF FoundOnce
<1>2. Looping!BaseEvidence \o <<>> = Looping!BaseEvidence
  BY BaseIsListed, ConcatEmptySeq
<1>3. Looping!Degraded(acts)
      = [status |-> "DEGRADED", evidence |-> Looping!BaseEvidence \o <<>>,
         actions |-> acts, cited |-> {}]
  BY <1>2 DEF Looping!Degraded
<1>4. ActionsOK(acts)
  BY NumberedIsOK
<1>5. QED
  BY <1>1, <1>3, <1>4, PartsMakeValid

LEMMA MergedIsValid ==
  ASSUME NEW st, StateOK(st), st.submitted # <<>>
  PROVE  Valid(Looping!Merged(st))
<1>1. PICK call \in Looping!Submissions :
         st.submitted = <<call>> /\ call.cites \subseteq Looping!Known(st.found)
  BY DEF StateOK, AcceptedCites
<1> DEFINE acts == Looping!Reranked(st.actions, call.select)
<1>2. ActionsOK(acts)
  <2>1. ActionsOK(st.actions)
        /\ \E m \in Nat : st.actions \in [1..m -> {st.actions[i] : i \in 1..m}]
    BY NumberedIsOK DEF StateOK
  <2>2. QED
    BY <2>1, RerankIsOK
<1>3. Looping!Merged(st)
      = [status |-> "SUCCEEDED", evidence |-> Looping!BaseEvidence \o st.found,
         actions |-> acts, cited |-> call.cites]
  BY <1>1 DEF Looping!Merged
<1> HIDE DEF acts
<1>4. FoundOnce(st.found)
  BY DEF StateOK
<1>5. QED
  BY <1>1, <1>2, <1>3, <1>4, PartsMakeValid

-----------------------------------------------------------------------------
(* The loop. *)

\* Between answers the loop keeps what a state of the blocks keeps.
LoopInv ==
  /\ FoundOnce(found)
  /\ IsNumbered(actions)
  /\ Looping!ResultIsValid

\* An attempt begins without findings and with the assessment's candidates.
LEMMA Beginning == FoundOnce(<<>>) /\ IsNumbered(Looping!BaseActions)
<1>1. FoundOnce(<<>>)
  BY DEF FoundOnce
<1>2. Looping!BaseActions = Numbered(0)
  <2>1. Len(Candidates) + 0 = Len(Candidates)
        /\ \A i \in 1..Len(Candidates) : i <= Len(Candidates)
    BY CandidatesAre
  <2>2. QED
    BY <2>1, CandidatesAre DEF Looping!BaseActions, Numbered
<1>3. QED
  BY <1>1, <1>2 DEF IsNumbered

LEMMA LoopInit == Looping!Init => LoopInv
<1>1. Looping!Init => Looping!ResultIsValid
  BY DEF Looping!Init, Looping!NoResult, Looping!ResultIsValid
<1>2. QED
  BY <1>1, Beginning DEF Looping!Init, LoopInv

\* A step that ends with a valid result, a failed one or none, and leaves the
\* state of the attempt alone.
LEMMA Ends ==
  ASSUME LoopInv, UNCHANGED <<found, actions>>,
         \/ Valid(out')
         \/ out' = Looping!FailedResult
         \/ out' = out
  PROVE  LoopInv'
<1>1. CASE Valid(out')
  BY <1>1 DEF LoopInv, Valid, Looping!ResultIsValid
<1>2. CASE out' = Looping!FailedResult
  <2>1. out'.status = "FAILED"
    BY <1>2 DEF Looping!FailedResult, Looping!NoResult
  <2>2. QED
    BY <2>1 DEF LoopInv, Looping!ResultIsValid
<1>3. CASE out' = out
  BY <1>3 DEF LoopInv, Looping!ResultIsValid
<1>4. QED
  BY <1>1, <1>2, <1>3

LEMMA RespondKeeps ==
  ASSUME LoopInv, NEW answer \in Looping!Answers, Looping!Respond(answer)
  PROVE  LoopInv'
<1> DEFINE st == Looping!Processed(answer)
<1>1. StateOK(st)
  BY AnswerKeeps DEF LoopInv
<1>2. /\ found' = st.found /\ actions' = st.actions
      /\ IF st.submitted # <<>>
         THEN Looping!Finish(Looping!Merged(st))
         ELSE IF answer = <<>> \/ st.problems # {}
              THEN Looping!Repaired
              ELSE out' = out
  BY DEF Looping!Respond
<1> HIDE DEF st
<1>3. FoundOnce(found') /\ IsNumbered(actions')
  BY <1>1, <1>2 DEF StateOK
<1>4. Valid(out') \/ out' = out
  <2>1. CASE st.submitted # <<>>
    BY <1>1, <1>2, <2>1, MergedIsValid DEF Looping!Finish
  <2>2. CASE st.submitted = <<>> /\ Looping!Repaired
    BY <1>3, <2>2, DegradedIsValid DEF Looping!Repaired, Looping!Finish
  <2>3. QED
    BY <1>2, <2>1, <2>2
<1>5. Looping!ResultIsValid'
  BY <1>4 DEF LoopInv, Valid, Looping!ResultIsValid
<1>6. QED
  BY <1>3, <1>5 DEF LoopInv

LEMMA LoopStepKeeps == LoopInv /\ [Looping!Next]_loop => LoopInv'
<1> SUFFICES ASSUME LoopInv, [Looping!Next]_loop PROVE LoopInv'
  OBVIOUS
<1>1. IsNumbered(actions)
  BY DEF LoopInv
<1>2. Valid(Looping!Degraded(actions)) /\ Valid(Looping!Degraded(Looping!BaseActions))
  BY <1>1, Beginning, DegradedIsValid
<1>3. CASE Looping!Reserve
  BY <1>2, <1>3, Ends DEF Looping!Reserve, Looping!Finish, Looping!Local
<1>4. CASE Looping!OutOfTurns
  BY <1>2, <1>4, Ends DEF Looping!OutOfTurns, Looping!Finish, Looping!Local
<1>5. CASE Looping!DeadlinePasses
  BY <1>5, Ends DEF Looping!DeadlinePasses, Looping!Finish, Looping!Local
<1>6. CASE Looping!ProviderRefuses
  BY <1>2, <1>6, Ends DEF Looping!ProviderRefuses, Looping!Finish, Looping!Local
<1>7. CASE Looping!ProviderUnavailable
  <2>1. CASE attempt < Attempts
    BY <1>7, <2>1, Beginning
    DEF Looping!ProviderUnavailable, Looping!Fresh, LoopInv, Looping!ResultIsValid
  <2>2. CASE ~(attempt < Attempts)
    BY <1>2, <1>7, <2>2, Ends DEF Looping!ProviderUnavailable, Looping!Finish
  <2>3. QED
    BY <2>1, <2>2
<1>8. CASE \E answer \in Looping!Answers : Looping!Respond(answer)
  BY <1>8, RespondKeeps
<1>9. CASE Looping!OtherTaskCalls
  BY <1>9, Ends DEF Looping!OtherTaskCalls, Looping!Local
<1>10. CASE Looping!RunCloses
  BY <1>10, Ends DEF Looping!RunCloses, Looping!Local
<1>11. CASE UNCHANGED loop
  BY <1>11, Ends DEF loop
<1>12. QED
  BY <1>3, <1>4, <1>5, <1>6, <1>7, <1>8, <1>9, <1>10, <1>11 DEF Looping!Next

\* base.py 236-310 and 503-600: whatever the model answers, and whether the
\* loop ends with a submission, a refusal or a spent budget, the result it
\* returns passes the server's validation and rests on the whole assessment.
THEOREM ResultsAreValid == AgentsSpec => []ResultIsValid
<1>1. AgentsInit => LoopInv
  BY LoopInit DEF AgentsInit
<1>2. LoopInv /\ [AgentsNext]_AgentsVars => LoopInv'
  BY LoopMoves, LoopStepKeeps
<1>3. LoopInv => ResultIsValid
  BY DEF LoopInv, ResultIsValid
<1>4. QED
  BY <1>1, <1>2, <1>3, PTL DEF AgentsSpec

-----------------------------------------------------------------------------
(* LineBalance.  The figures as operators of the samples f, so that they can *)
(* be compared before and after a step.                                      *)

LinesMove == [Lines!Next]_samples

LEMMA LinesAreMoved == [AgentsNext]_AgentsVars => LinesMove
BY DEF AgentsNext, AgentsVars, AnalysisStep, LoopStep, LineStep, LinesMove

CountIn(f, o) == Lines!SumFunctionOnSet(f[o], Seconds)

AtMostIn(f, o, sec) == Lines!SumFunctionOnSet(f[o], {s \in Seconds : s <= sec})

KthIn(f, o, k) == CHOOSE sec \in Seconds :
                     /\ AtMostIn(f, o, sec) >= k
                     /\ \A s \in Seconds : AtMostIn(f, o, s) >= k => sec <= s

MedianIn(f, o) ==
  LET n == CountIn(f, o)
  IN IF n % 2 = 1 THEN 2 * KthIn(f, o, (n + 1) \div 2)
                  ELSE KthIn(f, o, n \div 2) + KthIn(f, o, n \div 2 + 1)

MeasuredIn(f) == {o \in Lines!Ops : CountIn(f, o) >= MinSamples}

SlowerIn(f, o, p) == MedianIn(f, o) * Operators[p] > MedianIn(f, p) * Operators[o]

SlowestIn(f, o) ==
  \A p \in MeasuredIn(f) \ {o} : ~SlowerIn(f, p, o) /\ (p < o => SlowerIn(f, o, p))

BottleneckIn(f) == CHOOSE o \in MeasuredIn(f) : SlowestIn(f, o)

BelowPlanIn(f) ==
  /\ MeasuredIn(f) # {}
  /\ MedianIn(f, BottleneckIn(f)) > 2 * PlannedCycle * Operators[BottleneckIn(f)]

LEMMA SameFigures ==
  /\ Lines!BelowPlan <=> BelowPlanIn(samples)
  /\ Lines!BelowPlan' <=> BelowPlanIn(samples')
  /\ \A o : Lines!Measured(o) <=> CountIn(samples, o) >= MinSamples
  /\ \A o : Lines!Measured(o)' <=> CountIn(samples', o) >= MinSamples
BY Zenon DEF Lines!BelowPlan, Lines!MeasuredOps, Lines!Measured, Lines!Count, Lines!AtMost, Lines!Kth,
       Lines!Representative, Lines!Slower, Lines!Bottleneck, CountIn, AtMostIn, KthIn, MedianIn,
       MeasuredIn, SlowerIn, SlowestIn, BottleneckIn, BelowPlanIn

\* The sums of LineBalance are those of Sums.
LEMMA SameSum == \A f, S : Lines!SumFunctionOnSet(f, S) = SumFunctionOnSet(f, S)
BY Zenon DEF Lines!SumFunctionOnSet, Lines!FoldFunctionOnSet, Lines!MapThenFoldSet,
             SumFunctionOnSet, FoldFunctionOnSet, MapThenFoldSet

\* The rows of ObservationRows, at any time.
Samples == [Lines!Ops -> [Seconds -> 0..MaxSamples]]

\* Counts are natural numbers, and up to the last second all samples count.
LEMMA CountsAre ==
  ASSUME NEW f \in Samples, NEW o \in Lines!Ops
  PROVE  /\ CountIn(f, o) \in Int
         /\ \A sec \in Seconds : AtMostIn(f, o, sec) \in Int
         /\ \A last \in Seconds :
               (\A s \in Seconds : s <= last) => AtMostIn(f, o, last) = CountIn(f, o)
         /\ \A sec \in Seconds : f[o][sec] <= CountIn(f, o)
<1>1. IsFiniteSet(Seconds) /\ Seconds \subseteq Int
  BY LinesAssumption
<1>2. PICK g : g = f[o] /\ g \in [Seconds -> 0..MaxSamples]
  BY DEF Samples
<1>3. g \in [Seconds -> Nat] /\ g \in [Seconds -> Int]
  BY <1>2, LinesAssumption
<1>4. CountIn(f, o) = SumFunctionOnSet(g, Seconds)
  BY <1>2, SameSum DEF CountIn
<1>5. CountIn(f, o) \in Int
  BY <1>1, <1>3, <1>4, SumType
<1>6. ASSUME NEW sec \in Seconds PROVE AtMostIn(f, o, sec) \in Int
  <2> DEFINE T == {s \in Seconds : s <= sec}
             h == [s \in T |-> g[s]]
  <2>1. T \in SUBSET Seconds
    OBVIOUS
  <2>2. IsFiniteSet(T)
    <3> HIDE DEF T
    <3>1. QED
      BY <1>1, <2>1, FS_Subset
  <2>3. h \in [T -> Int] /\ \A s \in T : g[s] = h[s]
    BY <1>3
  <2>4. AtMostIn(f, o, sec) = SumFunctionOnSet(g, T)
    BY <1>2, SameSum DEF AtMostIn
  <2> HIDE DEF T, h
  <2>5. SumFunctionOnSet(g, T) = SumFunctionOnSet(h, T)
    BY <2>2, <2>3, SumEqual
  <2>6. SumFunctionOnSet(h, T) \in Int
    BY <2>2, <2>3, SumType
  <2>7. QED
    BY <2>4, <2>5, <2>6
<1>7. ASSUME NEW last \in Seconds, \A s \in Seconds : s <= last
      PROVE  AtMostIn(f, o, last) = CountIn(f, o)
  <2>1. {s \in Seconds : s <= last} = Seconds
    BY <1>7
  <2>2. QED
    BY <2>1 DEF AtMostIn, CountIn
<1>8. \A sec \in Seconds : g[sec] <= CountIn(f, o)
  BY <1>1, <1>3, <1>4, SumAtLeast
<1>9. QED
  BY <1>2, <1>5, <1>6, <1>7, <1>8

\* A sample of every rank up to the count exists.
LEMMA KthIs ==
  ASSUME NEW f \in Samples, NEW o \in Lines!Ops, Seconds # {},
         NEW k \in Int, k <= CountIn(f, o)
  PROVE  KthIn(f, o, k) \in Int
<1> DEFINE T == {sec \in Seconds : AtMostIn(f, o, sec) >= k}
<1>1. IsFiniteSet(Seconds) /\ Seconds \subseteq Int
  BY LinesAssumption
<1>2. PICK last \in Seconds : \A s \in Seconds : s <= last
  BY <1>1, HasLargest
<1>3. last \in T
  BY <1>2, CountsAre
<1>4. T \in SUBSET Seconds /\ T # {} /\ T \subseteq Int
  BY <1>1, <1>3
<1>5. PICK first \in T : \A s \in T : first <= s
  <2> HIDE DEF T
  <2>1. IsFiniteSet(T)
    BY <1>1, <1>4, FS_Subset
  <2>2. QED
    BY <1>4, <2>1, HasSmallest
<1>6. first \in Seconds /\ AtMostIn(f, o, first) >= k
      /\ \A s \in Seconds : AtMostIn(f, o, s) >= k => first <= s
  BY <1>5
<1>7. KthIn(f, o, k) \in Seconds
  BY <1>6 DEF KthIn
<1>8. QED
  BY <1>1, <1>7

\* The median of a measured operation is a number.
LEMMA MedianIs ==
  ASSUME NEW f \in Samples, NEW o \in MeasuredIn(f)
  PROVE  MedianIn(f, o) \in Int
<1> DEFINE n == CountIn(f, o)
<1>1. o \in Lines!Ops /\ n >= MinSamples /\ MinSamples \in Nat /\ MinSamples >= 1
  BY LinesAssumption DEF MeasuredIn
<1>2. n \in Int
  BY <1>1, CountsAre
<1>3. Seconds # {}
  <2>1. SUFFICES ASSUME Seconds = {} PROVE FALSE
    OBVIOUS
  <2>2. n = SumFunctionOnSet(f[o], {})
    BY <2>1, SameSum DEF CountIn
  <2>3. SumFunctionOnSet(f[o], {}) = 0
    BY SumZero, FS_EmptySet
  <2>4. QED
    BY <1>1, <2>2, <2>3
<1> HIDE DEF n
<1>4. n >= 1
  BY <1>1, <1>2
<1>5. /\ n \div 2 \in Int /\ n \div 2 <= n
      /\ n % 2 # 1 => n \div 2 + 1 <= n
      /\ (n + 1) \div 2 \in Int /\ (n + 1) \div 2 <= n
  BY <1>2, <1>4
<1>6. KthIn(f, o, (n + 1) \div 2) \in Int /\ KthIn(f, o, n \div 2) \in Int
      /\ (n % 2 # 1 => KthIn(f, o, n \div 2 + 1) \in Int)
  <2>1. \A k \in Int : k <= n => KthIn(f, o, k) \in Int
    BY <1>1, <1>3, KthIs DEF n
  <2>2. n \div 2 + 1 \in Int
    BY <1>5
  <2>3. QED
    BY <1>5, <2>1, <2>2
<1>7. MedianIn(f, o) = IF n % 2 = 1 THEN 2 * KthIn(f, o, (n + 1) \div 2)
                       ELSE KthIn(f, o, n \div 2) + KthIn(f, o, n \div 2 + 1)
  BY DEF MedianIn, n
<1>8. QED
  BY <1>6, <1>7

\* Quotients with positive divisors are ordered as their cross products are.
LEMMA Quotients ==
  ASSUME NEW a \in Int, NEW b \in Nat \ {0}, NEW c \in Int, NEW d \in Nat \ {0},
         NEW e \in Int, NEW g \in Nat \ {0},
         c * b <= a * d, e * d <= c * g
  PROVE  /\ e * b <= a * g
         /\ c * b < a * d \/ e * d < c * g => e * b < a * g
<1>1. (c * b) * g <= (a * d) * g /\ (e * d) * b <= (c * g) * b
  OBVIOUS
<1>2. (c * b < a * d => (c * b) * g < (a * d) * g) /\ (e * d < c * g => (e * d) * b < (c * g) * b)
  OBVIOUS
<1>3. (c * b) * g = (c * g) * b /\ (a * d) * g = (a * g) * d /\ (e * d) * b = (e * b) * d
  OBVIOUS
<1> DEFINE l == e * b
           r == a * g
<1>4. l \in Int /\ r \in Int
  OBVIOUS
<1>5. l * d <= r * d /\ (c * b < a * d \/ e * d < c * g => l * d < r * d)
  BY <1>1, <1>2, <1>3
<1> HIDE DEF l, r
<1>6. (r < l => r * d < l * d) /\ (r <= l => r * d <= l * d)
  BY <1>4
<1>7. l <= r /\ (l * d < r * d => l < r)
  BY <1>4, <1>5, <1>6
<1>8. QED
  BY <1>5, <1>7 DEF l, r

\* Some measured operation is the first of the slowest.
LEMMA BottleneckIs ==
  ASSUME NEW f \in Samples, MeasuredIn(f) # {}
  PROVE  BottleneckIn(f) \in MeasuredIn(f) /\ SlowestIn(f, BottleneckIn(f))
<1> DEFINE S == MeasuredIn(f)
           w(o) == MedianIn(f, o)
           R == {e \in S \X S : SlowerIn(f, e[2], e[1])
                                \/ (~SlowerIn(f, e[1], e[2]) /\ e[2] <= e[1])}
<1>1. S \subseteq Int /\ IsFiniteSet(S)
  <2>1. Lines!Ops \subseteq Int /\ IsFiniteSet(Lines!Ops) /\ S \in SUBSET Lines!Ops
    BY LinesAssumption, FS_Interval DEF Lines!Ops, MeasuredIn
  <2> HIDE DEF S
  <2>2. QED
    BY <2>1, FS_Subset
<1>2. \A o \in S : w(o) \in Int /\ Operators[o] \in Nat \ {0}
  BY MedianIs, LinesAssumption DEF MeasuredIn, Lines!Ops
<1>3. \A x, y \in S : <<x, y>> \in R <=>
         (w(y) * Operators[x] > w(x) * Operators[y]
          \/ (~(w(x) * Operators[y] > w(y) * Operators[x]) /\ y <= x))
  BY DEF SlowerIn
<1> HIDE DEF R, w, S
<1>4. \A x, y \in S : w(x) * Operators[y] \in Int
  BY <1>2
<1>5. \A x, y \in S : <<x, y>> \in R <=>
         /\ w(x) * Operators[y] <= w(y) * Operators[x]
         /\ w(x) * Operators[y] < w(y) * Operators[x] \/ y <= x
  <2> SUFFICES ASSUME NEW x \in S, NEW y \in S
               PROVE  <<x, y>> \in R <=>
                        /\ w(x) * Operators[y] <= w(y) * Operators[x]
                        /\ w(x) * Operators[y] < w(y) * Operators[x] \/ y <= x
    OBVIOUS
  <2> DEFINE a == w(x) * Operators[y]
             c == w(y) * Operators[x]
  <2>1. a \in Int /\ c \in Int
    BY <1>4
  <2>2. <<x, y>> \in R <=> c > a \/ (~(a > c) /\ y <= x)
    BY <1>3
  <2> HIDE DEF a, c
  <2>3. <<x, y>> \in R <=> a <= c /\ (a < c \/ y <= x)
    BY <2>1, <2>2
  <2>4. QED
    BY <2>3 DEF a, c
<1>6. ASSUME NEW x \in S, NEW y \in S PROVE <<x, y>> \in R \/ <<y, x>> \in R
  <2> DEFINE a == w(x) * Operators[y]
             c == w(y) * Operators[x]
  <2>1. a \in Int /\ c \in Int /\ x \in Int /\ y \in Int
    BY <1>1, <1>4
  <2>2. /\ <<x, y>> \in R <=> a <= c /\ (a < c \/ y <= x)
        /\ <<y, x>> \in R <=> c <= a /\ (c < a \/ x <= y)
    BY <1>5
  <2> HIDE DEF a, c
  <2>3. QED
    BY <2>1, <2>2
<1>7. ASSUME NEW x \in S, NEW y \in S, NEW z \in S, <<x, y>> \in R, <<y, z>> \in R
      PROVE  <<x, z>> \in R
  <2>1. w(x) \in Int /\ w(y) \in Int /\ w(z) \in Int /\ Operators[x] \in Nat \ {0}
        /\ Operators[y] \in Nat \ {0} /\ Operators[z] \in Nat \ {0}
        /\ x \in Int /\ y \in Int /\ z \in Int
    BY <1>1, <1>2
  <2>2. /\ w(x) * Operators[y] <= w(y) * Operators[x]
        /\ w(y) * Operators[z] <= w(z) * Operators[y]
        /\ w(x) * Operators[y] < w(y) * Operators[x] \/ y <= x
        /\ w(y) * Operators[z] < w(z) * Operators[y] \/ z <= y
    BY <1>5, <1>7
  <2>3. /\ w(x) * Operators[z] <= w(z) * Operators[x]
        /\ w(y) * Operators[z] < w(z) * Operators[y] \/ w(x) * Operators[y] < w(y) * Operators[x]
           => w(x) * Operators[z] < w(z) * Operators[x]
    BY <2>1, <2>2, Quotients
  <2>4. w(x) * Operators[z] < w(z) * Operators[x] \/ z <= x
    <3>1. CASE y <= x /\ z <= y
      BY <2>1, <3>1
    <3>2. QED
      BY <2>2, <2>3, <3>1
  <2>5. QED
    BY <1>5, <2>3, <2>4
<1>8. PICK m \in S : \A x \in S : <<x, m>> \in R
  <2>1. S # {}
    BY DEF S
  <2>2. QED
    BY <1>1, <1>6, <1>7, <2>1, HasLast
<1>9. SlowestIn(f, m)
  <2> SUFFICES ASSUME NEW p \in S, p # m
               PROVE  ~SlowerIn(f, p, m) /\ (p < m => SlowerIn(f, m, p))
    BY DEF SlowestIn, S
  <2> DEFINE a == w(p) * Operators[m]
             c == w(m) * Operators[p]
  <2>1. a \in Int /\ c \in Int /\ p \in Int /\ m \in Int
    BY <1>1, <1>4
  <2>2. a <= c /\ (a < c \/ m <= p)
    BY <1>5, <1>8
  <2>3. /\ SlowerIn(f, p, m) <=> a > c
        /\ SlowerIn(f, m, p) <=> c > a
    BY DEF SlowerIn, w
  <2> HIDE DEF a, c
  <2>4. QED
    BY <2>1, <2>2, <2>3
<1>10. QED
  BY <1>8, <1>9 DEF BottleneckIn, S

\* A line below plan stays so when one operation more is measured: no
\* operation became faster, and the new bottleneck is none the faster either.
LEMMA OneMoreMeasured ==
  ASSUME NEW f \in Samples, NEW e \in Samples, NEW o \in Lines!Ops,
         \A p \in Lines!Ops : p # o => e[p] = f[p],
         o \notin MeasuredIn(f), o \in MeasuredIn(e), BelowPlanIn(f)
  PROVE  BelowPlanIn(e)
<1>1. \A p \in MeasuredIn(f) : p # o /\ p \in Lines!Ops /\ e[p] = f[p]
  BY DEF MeasuredIn
<1>2. \A p \in MeasuredIn(f) : p \in MeasuredIn(e) /\ MedianIn(e, p) = MedianIn(f, p)
  <2> TAKE p \in MeasuredIn(f)
  <2>1. e[p] = f[p]
    BY <1>1
  <2>2. CountIn(e, p) = CountIn(f, p) /\ MedianIn(e, p) = MedianIn(f, p)
    BY <2>1 DEF MedianIn, KthIn, AtMostIn, CountIn
  <2>3. QED
    BY <2>2 DEF MeasuredIn
<1> DEFINE b == BottleneckIn(f)
           n == BottleneckIn(e)
<1>3. b \in MeasuredIn(f)
  BY BottleneckIs DEF BelowPlanIn
<1>4. n \in MeasuredIn(e) /\ SlowestIn(e, n)
  BY BottleneckIs
<1>5. b \in MeasuredIn(e) /\ MedianIn(e, b) = MedianIn(f, b)
  BY <1>2, <1>3
<1>6. MedianIn(f, b) > 2 * PlannedCycle * Operators[b]
  BY DEF BelowPlanIn
<1> HIDE DEF b, n
<1>7. b = n \/ ~(MedianIn(e, b) * Operators[n] > MedianIn(e, n) * Operators[b])
  BY <1>4, <1>5 DEF SlowestIn, SlowerIn
<1> DEFINE u == MedianIn(e, b)
           v == MedianIn(e, n)
           x == Operators[b]
           y == Operators[n]
<1>8. u \in Int /\ v \in Int
  BY <1>4, <1>5, MedianIs
<1>9. x \in Nat \ {0} /\ y \in Nat \ {0} /\ PlannedCycle \in Int
  BY <1>4, <1>5, LinesAssumption DEF MeasuredIn, Lines!Ops
<1>10. u > 2 * PlannedCycle * x /\ (b = n \/ ~(u * y > v * x))
  BY <1>5, <1>6, <1>7
<1> HIDE DEF u, v, x, y
<1>11. u * y <= v * x
  <2>1. u * y \in Int /\ v * x \in Int
    BY <1>8, <1>9
  <2>2. b = n => u * y = v * x
    BY DEF u, v, x, y
  <2>3. QED
    BY <1>10, <2>1, <2>2
<1>12. v > 2 * PlannedCycle * y
  <2> DEFINE q == 2 * PlannedCycle
  <2>1. q \in Int /\ u > q * x
    BY <1>9, <1>10
  <2> HIDE DEF q
  <2>2. (q * y) * x <= (q * x) * y /\ q * x \in Int /\ q * y \in Int
    BY <1>9, <2>1
  <2>3. (q * x) * y < u * y
    BY <1>8, <1>9, <2>1, <2>2
  <2>4. (q * y) * x < v * x
    <3> DEFINE l == (q * y) * x
               r == v * x
               s == u * y
               t == (q * x) * y
    <3>1. l \in Int /\ r \in Int /\ s \in Int /\ t \in Int
      BY <1>8, <1>9, <2>2
    <3>2. l <= t /\ t < s /\ s <= r
      BY <1>11, <2>2, <2>3
    <3> HIDE DEF l, r, s, t
    <3>3. l < r
      BY <3>1, <3>2
    <3>4. QED
      BY <3>3 DEF l, r
  <2>5. v <= q * y => v * x <= (q * y) * x
    BY <1>8, <1>9, <2>2
  <2>6. v * x \in Int /\ (q * y) * x \in Int
    BY <1>8, <1>9, <2>2
  <2>7. v > q * y
    BY <1>8, <2>2, <2>4, <2>5, <2>6
  <2>8. QED
    BY <2>7 DEF q
<1>13. QED
  BY <1>4, <1>12 DEF BelowPlanIn, v, y, n

LEMMA LinesTyped == Lines!TypeOK /\ LinesMove => Lines!TypeOK'
<1> SUFFICES ASSUME Lines!TypeOK, LinesMove PROVE Lines!TypeOK'
  OBVIOUS
<1>1. samples \in Samples
  BY DEF Lines!TypeOK, Lines!ObservationRows, Samples
<1>2. CASE UNCHANGED samples
  BY <1>2 DEF Lines!TypeOK, Lines!ObservationRows
<1>3. CASE Lines!Next
  <2>1. PICK o \in Lines!Ops, sec \in Seconds : Lines!Record(o, sec) \/ Lines!Discount(o, sec)
    BY <1>3 DEF Lines!Next
  <2>2. samples[o][sec] \in 0..MaxSamples /\ samples[o] \in [Seconds -> 0..MaxSamples]
    BY <1>1 DEF Samples
  <2>3. CASE Lines!Record(o, sec)
    <3>1. CountIn(samples, o) < MaxSamples
          /\ samples' = [samples EXCEPT ![o][sec] = @ + 1]
      BY <2>3 DEF Lines!Record, Lines!Count, CountIn
    <3>2. CountIn(samples, o) \in Int /\ samples[o][sec] <= CountIn(samples, o)
      BY <1>1, CountsAre
    <3>3. samples[o][sec] + 1 \in 0..MaxSamples
      BY <2>2, <3>1, <3>2, LinesAssumption
    <3>4. QED
      BY <1>1, <2>2, <3>1, <3>3 DEF Samples, Lines!TypeOK, Lines!ObservationRows
  <2>4. CASE Lines!Discount(o, sec)
    <3>1. samples[o][sec] > 0 /\ samples' = [samples EXCEPT ![o][sec] = @ - 1]
      BY <2>4 DEF Lines!Discount
    <3>2. samples[o][sec] - 1 \in 0..MaxSamples
      BY <2>2, <3>1, LinesAssumption
    <3>3. QED
      BY <1>1, <2>2, <3>1, <3>2 DEF Samples, Lines!TypeOK, Lines!ObservationRows
  <2>5. QED
    BY <2>1, <2>3, <2>4
<1>4. QED
  BY <1>2, <1>3 DEF LinesMove

LEMMA WarningStays ==
  Lines!TypeOK /\ LinesMove => (Lines!BelowPlan /\ Lines!NewlyMeasured => Lines!BelowPlan')
<1> SUFFICES ASSUME Lines!TypeOK, LinesMove, Lines!BelowPlan, Lines!NewlyMeasured
             PROVE  Lines!BelowPlan'
  OBVIOUS
<1>1. samples \in Samples
  BY DEF Lines!TypeOK, Lines!ObservationRows, Samples
<1>2. samples' \in Samples
  BY LinesTyped DEF Lines!TypeOK, Lines!ObservationRows, Samples
<1>3. PICK p \in Lines!Ops : ~Lines!Measured(p) /\ Lines!Measured(p)'
  BY DEF Lines!NewlyMeasured
<1>4. p \notin MeasuredIn(samples) /\ p \in MeasuredIn(samples')
  BY <1>3, SameFigures DEF MeasuredIn
<1>5. samples' # samples
  BY <1>4
<1>6. PICK o \in Lines!Ops, sec \in Seconds : Lines!Record(o, sec) \/ Lines!Discount(o, sec)
  BY <1>5 DEF LinesMove, Lines!Next
<1>7. \A q \in Lines!Ops : q # o => samples'[q] = samples[q]
  BY <1>1, <1>6 DEF Lines!Record, Lines!Discount, Samples
<1>8. p = o
  <2>1. samples'[p] # samples[p]
    BY <1>4 DEF MeasuredIn, CountIn
  <2>2. QED
    BY <1>7, <2>1
<1>9. QED
  BY <1>1, <1>2, <1>4, <1>7, <1>8, SameFigures, OneMoreMeasured

\* agents/ie/agent.py 509-530: the warning that a line is below plan, drawn from
\* the operations that have enough samples, stands when another one gets them.
THEOREM WarningsAreKept == AgentsSpec => WarningsStand
<1>1. AgentsInit => Lines!TypeOK
  <2>1. 0 \in 0..MaxSamples
    BY LinesAssumption
  <2>2. QED
    BY <2>1 DEF AgentsInit, Lines!Init, Lines!TypeOK, Lines!ObservationRows
<1>2. Lines!TypeOK /\ [AgentsNext]_AgentsVars => Lines!TypeOK'
  BY LinesAreMoved, LinesTyped
<1>3. Lines!TypeOK /\ [AgentsNext]_AgentsVars
        => [(Lines!BelowPlan /\ Lines!NewlyMeasured) => Lines!BelowPlan']_samples
  BY LinesAreMoved, WarningStays
<1>4. QED
  BY <1>1, <1>2, <1>3, PTL DEF AgentsSpec, WarningsStand, Lines!WarningsStand

-----------------------------------------------------------------------------
(* Analysis: slots and what is free in them. *)

\* What the assumption says of the world that was snapshot.
LEMMA SlotsAre ==
  ASSUME world \in Worlds
  PROVE  /\ IsFiniteSet(SnapshotSlots) /\ SnapshotSlots \subseteq world.slots
         /\ \A s \in SnapshotSlots : s.line \in Int /\ s.day \in Int /\ s.shift \in Int
         /\ \A s, t \in SnapshotSlots :
              s.line = t.line /\ s.day = t.day /\ s.shift = t.shift => s = t
<1>1. SnapshotSlots \subseteq world.slots
  BY DEF SnapshotSlots
<1>2. IsFiniteSet(world.slots)
  BY AnalysisAssumption
<1>3. IsFiniteSet(SnapshotSlots)
  BY <1>1, <1>2, FS_Subset
<1>4. /\ \A s \in world.slots : s.line \in Int /\ s.day \in Int /\ s.shift \in Int
      /\ \A s, t \in world.slots :
           s.line = t.line /\ s.day = t.day /\ s.shift = t.shift => s = t
  BY AnalysisAssumption
<1>5. QED
  BY <1>1, <1>3, <1>4

\* Dividing by a Step: the multiple below, and the one above what is below it.
LEMMA Multiples ==
  ASSUME NEW k \in Nat \ {0}, NEW a \in Int
  PROVE  /\ a \div k \in Int /\ a % k \in 0..(k - 1)
         /\ a = (a \div k) * k + (a % k)
<1>1. a \div k \in Int /\ a % k \in 0..(k - 1)
  OBVIOUS
<1>2. a = (a \div k) * k + (a % k)
  OBVIOUS
<1>3. QED
  BY <1>1, <1>2

\* Rounding half up to a Step exceeds no multiple of it that is not less, and
\* keeps a Step of what has one.
LEMMA RoundsHalfUp ==
  ASSUME NEW k \in Nat \ {0}, NEW a \in Int
  PROVE  /\ \A q \in Int : a <= q * k => ((2 * a + k) \div (2 * k)) * k <= q * k
         /\ a >= k => ((2 * a + k) \div (2 * k)) * k > 0
         /\ ((2 * a + k) \div (2 * k)) * k \in Int
<1> DEFINE d == 2 * k
           p == (2 * a + k) \div d
<1>1. d \in Nat \ {0} /\ 2 * a + k \in Int
  OBVIOUS
<1>2. p \in Int /\ (2 * a + k) % d \in 0..(d - 1) /\ 2 * a + k = p * d + ((2 * a + k) % d)
  <2> HIDE DEF d
  <2>1. QED
    BY <1>1, Multiples
<1> HIDE DEF p
<1>3. p * d = 2 * (p * k) /\ p * k \in Int
  BY <1>2
<1>4. 2 * (p * k) <= 2 * a + k /\ 2 * a + k < 2 * (p * k) + 2 * k
  <2>1. p * d <= 2 * a + k /\ 2 * a + k < p * d + d
    <3>1. p * d \in Int
      BY <1>1, <1>2
    <3> HIDE DEF d
    <3>2. QED
      BY <1>1, <1>2, <3>1
  <2>2. QED
    BY <1>3, <2>1
<1>5. ASSUME NEW q \in Int, a <= q * k
      PROVE  p * k <= q * k
  <2>1. SUFFICES ASSUME p >= q + 1 PROVE FALSE
    BY <1>2
  <2>2. p * k >= (q + 1) * k
    BY <1>2, <2>1
  <2>3. (q + 1) * k = q * k + k /\ q * k \in Int
    OBVIOUS
  <2>4. QED
    BY <1>3, <1>4, <1>5, <2>2, <2>3
<1>6. ASSUME a >= k
      PROVE  p * k > 0
  <2>1. p * k > 0
    BY <1>3, <1>4, <1>6
  <2>2. QED
    BY <2>1
<1>7. QED
  BY <1>3, <1>5, <1>6 DEF p

\* What is free in a slot can be booked there, and so can less; all of it is
\* not rounded to nothing.
LEMMA FreeIs ==
  ASSUME world \in Worlds, NEW s \in SnapshotSlots
  PROVE  /\ Free(s) \in Nat
         /\ Free(s) > 0 => /\ \A m \in 0..Free(s) : s.booked + Stored(m) <= s.raw
                           /\ Stored(Free(s)) > 0
<1>1. s.raw \in Int /\ s.booked \in Int /\ Step \in Nat \ {0}
  BY SlotsAre, AnalysisAssumption
<1> DEFINE a == s.raw - s.booked
           q == a \div Step
<1>2. a \in Int /\ q \in Int /\ a % Step \in 0..(Step - 1) /\ a = q * Step + (a % Step)
  <2>1. a \in Int
    BY <1>1
  <2> HIDE DEF a
  <2>2. QED
    BY <1>1, <2>1, Multiples
<1>3. q * Step \in Int
  BY <1>1, <1>2
<1> HIDE DEF q
<1>4. Free(s) = IF a > 0 THEN a - (a % Step) ELSE 0
  BY DEF Free
<1>5. CASE a > 0
  <2>1. Free(s) = q * Step
    BY <1>2, <1>3, <1>4, <1>5
  <2>2. Free(s) \in Nat
    <3>1. a % Step <= a
      <4>1. q >= 0
        <5>1. SUFFICES ASSUME q <= -1 PROVE FALSE
          BY <1>2
        <5>2. q * Step <= (-1) * Step
          BY <1>1, <1>2, <5>1
        <5>3. QED
          BY <1>1, <1>2, <1>3, <1>5, <5>2
      <4>2. q * Step >= 0
        BY <1>1, <1>2, <4>1
      <4>3. QED
        BY <1>2, <1>3, <4>2
    <3>2. QED
      BY <1>2, <1>4, <1>5, <3>1
  <2>3. ASSUME NEW m \in 0..Free(s)
        PROVE  s.booked + Stored(m) <= s.raw
    <3>1. m \in Int /\ m <= q * Step
      BY <2>1, <2>2
    <3>2. Stored(m) <= q * Step /\ Stored(m) \in Int
      BY <1>1, <1>2, <3>1, RoundsHalfUp DEF Stored
    <3>3. QED
      BY <1>1, <1>2, <1>3, <3>2
  <2>4. ASSUME Free(s) > 0
        PROVE  Stored(Free(s)) > 0
    <3>1. q >= 1
      <4>1. SUFFICES ASSUME q <= 0 PROVE FALSE
        BY <1>2
      <4>2. q * Step <= 0
        BY <1>1, <1>2, <4>1
      <4>3. QED
        BY <1>3, <2>1, <2>4, <4>2
    <3>2. q * Step >= 1 * Step
      BY <1>1, <1>2, <3>1
    <3>3. Free(s) >= Step /\ Free(s) \in Int
      BY <1>1, <1>3, <2>1, <3>2
    <3>4. QED
      BY <1>1, <3>3, RoundsHalfUp DEF Stored
  <2>5. QED
    BY <2>2, <2>3, <2>4
<1>6. CASE ~(a > 0)
  BY <1>4, <1>6
<1>7. QED
  BY <1>5, <1>6

-----------------------------------------------------------------------------
(* The eligible slots in order. *)

EarlierSlots == {e \in SnapshotSlots \X SnapshotSlots : Earlier(e[1], e[2])}

LEMMA EarlierIsOrder ==
  ASSUME world \in Worlds
  PROVE  /\ \A s, t \in SnapshotSlots : <<s, t>> \in EarlierSlots <=> Earlier(s, t)
         /\ \A s, t \in SnapshotSlots : s = t \/ Earlier(s, t) \/ Earlier(t, s)
         /\ \A s \in SnapshotSlots : ~Earlier(s, s)
         /\ \A s, t, u \in SnapshotSlots : Earlier(s, t) /\ Earlier(t, u) => Earlier(s, u)
<1>1. \A s, t \in SnapshotSlots : <<s, t>> \in EarlierSlots <=> Earlier(s, t)
  BY DEF EarlierSlots
<1>2. /\ \A s \in SnapshotSlots : s.line \in Int /\ s.day \in Int /\ s.shift \in Int
      /\ \A s, t \in SnapshotSlots :
           s.line = t.line /\ s.day = t.day /\ s.shift = t.shift => s = t
  BY SlotsAre
<1>3. \A s, t \in SnapshotSlots : s = t \/ Earlier(s, t) \/ Earlier(t, s)
  BY <1>2 DEF Earlier
<1>4. \A s \in SnapshotSlots : ~Earlier(s, s)
  BY <1>2 DEF Earlier
<1>5. \A s, t, u \in SnapshotSlots : Earlier(s, t) /\ Earlier(t, u) => Earlier(s, u)
  BY <1>2 DEF Earlier
<1>6. QED
  BY <1>1, <1>3, <1>4, <1>5

\* slots are the members of S, each once and in order.
IsInOrder(slots, S) ==
  /\ Cardinality(S) \in Nat /\ slots \in [1..Cardinality(S) -> S]
  /\ \A i, j \in 1..Cardinality(S) : i < j => Earlier(slots[i], slots[j])
  /\ \A i, j \in 1..Cardinality(S) : slots[i] = slots[j] => i = j
  /\ \A s \in S : \E i \in 1..Cardinality(S) : slots[i] = s

LEMMA EligibleIs ==
  ASSUME world \in Worlds, NEW lines
  PROVE  IsInOrder(Eligible(lines), Open(lines))
<1> DEFINE S == Open(lines)
           n == Cardinality(S)
           e == Eligible(lines)
<1>1. S \in SUBSET SnapshotSlots /\ IsFiniteSet(S) /\ \A s \in S : s \in SnapshotSlots
  <2>1. S \in SUBSET SnapshotSlots
    BY DEF Open
  <2>2. QED
    BY <2>1, SlotsAre, FS_Subset
<1> HIDE DEF S
<1>2. /\ \A s, t \in S : s = t \/ <<s, t>> \in EarlierSlots \/ <<t, s>> \in EarlierSlots
      /\ \A s, t, u \in S : <<s, t>> \in EarlierSlots /\ <<t, u>> \in EarlierSlots
                              => <<s, u>> \in EarlierSlots
      /\ \A s \in S : <<s, s>> \notin EarlierSlots
  BY <1>1, EarlierIsOrder
<1>3. PICK f : IsListing(f, S, EarlierSlots)
  BY <1>1, <1>2, CanBeListed DEF HasListing
<1>4. f \in [1..n -> S] /\ \A i, j \in DOMAIN f : i < j => Earlier(f[i], f[j])
  <2>1. f \in [1..n -> S] /\ \A i, j \in DOMAIN f : i < j => <<f[i], f[j]>> \in EarlierSlots
    BY <1>3 DEF IsListing
  <2>2. \A i \in DOMAIN f : f[i] \in SnapshotSlots
    BY <1>1, <2>1
  <2>3. QED
    BY <2>1, <2>2, EarlierIsOrder
<1>5. e = CHOOSE g \in [1..n -> S] : \A i, j \in DOMAIN g : i < j => Earlier(g[i], g[j])
  BY DEF S, Eligible, Listed
<1> HIDE DEF e, n
<1>6. e \in [1..n -> S] /\ \A i, j \in DOMAIN e : i < j => Earlier(e[i], e[j])
  BY <1>4, <1>5
<1>7. IsListing(e, S, EarlierSlots)
  <2>1. \A i \in 1..n : e[i] \in SnapshotSlots
    BY <1>1, <1>6
  <2>2. \A i, j \in 1..n : i < j => <<e[i], e[j]>> \in EarlierSlots
    BY <1>6, <2>1, EarlierIsOrder
  <2>3. QED
    BY <1>6, <2>2 DEF IsListing, n
<1>8. /\ n \in Nat
      /\ \A i, j \in 1..n : e[i] = e[j] => i = j
      /\ \A s \in S : \E i \in 1..n : e[i] = s
  BY <1>1, <1>2, <1>7, ListsEachOnce DEF n
<1>9. IsInOrder(e, S)
  BY <1>6, <1>8 DEF IsInOrder, n
<1>10. QED
  BY <1>9 DEF e, S

-----------------------------------------------------------------------------
(* Filling slots in order. *)

LEMMA MinOfTwo ==
  ASSUME NEW a \in Int, NEW b \in Int
  PROVE  Min({a, b}) = IF a <= b THEN a ELSE b
<1> DEFINE c == IF a <= b THEN a ELSE b
<1>1. c \in {a, b} /\ \A y \in {a, b} : c <= y
  OBVIOUS
<1>2. \A x \in {a, b} : (\A y \in {a, b} : x <= y) => x = c
  BY SMT
<1>3. Min({a, b}) = CHOOSE x \in {a, b} : \A y \in {a, b} : x <= y
  BY DEF Min
<1> HIDE DEF c
<1>4. Min({a, b}) = c
  BY <1>1, <1>2, <1>3
<1>5. QED
  BY <1>4 DEF c

\* What Filled computes: what is left and the rows, after each slot.
IsFill(st, target, slots, n) ==
  st = [i \in 0..n |-> IF i = 0 THEN [left |-> target, rows |-> <<>>]
                       ELSE Fill(st[i - 1], slots[i])]

LEMMA FillExists ==
  ASSUME NEW target, NEW slots, NEW n \in Nat
  PROVE  \E st : IsFill(st, target, slots, n)
<1> DEFINE Nothing == [left |-> target, rows |-> <<>>]
           Bad == {k \in 0..n : ~ \E st : IsFill(st, target, slots, k)}
<1>1. SUFFICES ASSUME Bad # {} PROVE FALSE
  OBVIOUS
<1>2. PICK m \in Bad : \A k \in Bad : m <= k
  <2>1. Bad \subseteq Int /\ IsFiniteSet(Bad)
    BY NumbersUpTo
  <2> HIDE DEF Bad
  <2>2. QED
    BY <1>1, <2>1, HasSmallest
<1>3. m # 0
  <2>1. IsFill([i \in 0..0 |-> Nothing], target, slots, 0)
    BY DEF IsFill
  <2>2. QED
    BY <1>2, <2>1
<1>4. m - 1 \in 0..n /\ m - 1 \notin Bad
  BY <1>2, <1>3
<1>5. PICK g : IsFill(g, target, slots, m - 1)
  BY <1>4
<1> DEFINE h == [i \in 0..m |-> IF i = m THEN Fill(g[m - 1], slots[m]) ELSE g[i]]
<1>6. ASSUME NEW i \in 0..m
      PROVE  h[i] = IF i = 0 THEN Nothing ELSE Fill(h[i - 1], slots[i])
  <2>1. m \in Nat /\ m # 0
    BY <1>2, <1>3
  <2>2. \A j \in 0..(m - 1) : h[j] = g[j]
    BY <2>1
  <2>3. h[m] = Fill(g[m - 1], slots[m])
    BY <2>1
  <2>4. \A j \in 0..(m - 1) : g[j] = IF j = 0 THEN Nothing ELSE Fill(g[j - 1], slots[j])
    BY <1>5, Zenon DEF IsFill
  <2> HIDE DEF h
  <2>5. CASE i = m
    BY <2>1, <2>2, <2>3, <2>5
  <2>6. CASE i # m
    <3>1. i \in 0..(m - 1) /\ (i # 0 => i - 1 \in 0..(m - 1))
      BY <2>1, <2>6
    <3>2. QED
      BY <2>2, <2>4, <3>1
  <2>7. QED
    BY <2>5, <2>6
<1>7. IsFill(h, target, slots, m)
  <2>1. h = [i \in 0..m |-> h[i]]
    OBVIOUS
  <2> HIDE DEF h
  <2>2. [i \in 0..m |-> h[i]]
        = [i \in 0..m |-> IF i = 0 THEN Nothing ELSE Fill(h[i - 1], slots[i])]
    BY <1>6
  <2>3. QED
    BY <2>1, <2>2 DEF IsFill
<1>8. QED
  BY <1>2, <1>7

LEMMA FilledIs ==
  ASSUME NEW target, NEW slots, Len(slots) \in Nat
  PROVE  \E st : /\ IsFill(st, target, slots, Len(slots))
                 /\ Filled(target, slots) = st[Len(slots)]
<1> DEFINE n == Len(slots)
           h == CHOOSE st : st = [i \in 0..n |->
                  IF i = 0 THEN [left |-> target, rows |-> <<>>] ELSE Fill(st[i - 1], slots[i])]
<1>1. PICK g : IsFill(g, target, slots, n)
  BY FillExists
<1>2. h = [i \in 0..n |->
             IF i = 0 THEN [left |-> target, rows |-> <<>>] ELSE Fill(h[i - 1], slots[i])]
  BY <1>1, Zenon DEF IsFill
<1>3. Filled(target, slots) = h[n]
  BY Zenon DEF Filled
<1>4. QED
  BY <1>2, <1>3, Zenon DEF IsFill

\* The room in a set of slots, and the first k slots.
FreeOf == [s \in SnapshotSlots |-> Free(s)]
Room(S) == SumFunctionOnSet(FreeOf, S)
Prefix(slots, k) == {slots[j] : j \in 1..k}

\* Slots in which something is free, in order.
AreOpen(slots, S) ==
  /\ S \in SUBSET SnapshotSlots /\ (\A s \in S : Free(s) > 0)
  /\ IsInOrder(slots, S)

LEMMA RoomIs ==
  ASSUME world \in Worlds, NEW S \in SUBSET SnapshotSlots
  PROVE  /\ IsFiniteSet(S) /\ Room(S) \in Int
         /\ Room({}) = 0
         /\ \A T \in SUBSET S : Room(T) <= Room(S)
<1>1. IsFiniteSet(SnapshotSlots) /\ IsFiniteSet(S)
  BY SlotsAre, FS_Subset
<1>2. \A s \in SnapshotSlots : FreeOf[s] \in Nat
  BY FreeIs DEF FreeOf
<1>3. Room(S) \in Int
  <2>1. \A s \in S : FreeOf[s] \in Int
    BY <1>2
  <2>2. QED
    BY <1>1, <2>1, SumIsInt DEF Room
<1>4. Room({}) = 0
  <2>1. IsFiniteSet({}) /\ \A s \in {} : FreeOf[s] = 0
    BY FS_EmptySet
  <2>2. QED
    BY <2>1, SumZero DEF Room
<1>5. ASSUME NEW T \in SUBSET S
      PROVE  Room(T) <= Room(S)
  <2>1. T \in SUBSET SnapshotSlots
    OBVIOUS
  <2>2. NoMore(FreeOf, T, FreeOf, S, SnapshotSlots)
    BY <1>2 DEF NoMore
  <2>3. QED
    BY <1>1, <2>1, <2>2, SumNoMore DEF Room
<1>6. QED
  BY <1>1, <1>3, <1>4, <1>5

\* One slot more adds what is free in it.
LEMMA RoomGrows ==
  ASSUME world \in Worlds, NEW slots, NEW S, AreOpen(slots, S), NEW i \in Nat,
         i + 1 \in 1..Cardinality(S)
  PROVE  /\ Prefix(slots, i) \in SUBSET S
         /\ Room(Prefix(slots, i)) \in Int
         /\ Room(Prefix(slots, i + 1)) = Room(Prefix(slots, i)) + Free(slots[i + 1])
<1> DEFINE n == Cardinality(S)
           P == Prefix(slots, i)
           s == slots[i + 1]
<1>1. /\ n \in Nat /\ slots \in [1..n -> S] /\ (\A j, k \in 1..n : slots[j] = slots[k] => j = k)
      /\ S \in SUBSET SnapshotSlots
  BY DEF AreOpen, IsInOrder
<1> HIDE DEF n
<1>0. i + 1 \in 1..n
  BY DEF n
<1>2. \A j \in 1..i : j \in 1..n /\ j # i + 1
  BY <1>0, <1>1
<1>3. P \in SUBSET S /\ s \in S /\ s \notin P
  BY <1>0, <1>1, <1>2 DEF Prefix
<1>4. Prefix(slots, i + 1) = P \cup {s}
  BY DEF Prefix
<1> HIDE DEF P, s
<1>5. P \in SUBSET SnapshotSlots /\ IsFiniteSet(P) /\ Room(P) \in Int
  BY <1>1, <1>3, RoomIs
<1>6. \A y \in P \cup {s} : FreeOf[y] \in Int
  BY <1>1, <1>3, FreeIs DEF FreeOf
<1>7. SumFunctionOnSet(FreeOf, P \cup {s}) = SumFunctionOnSet(FreeOf, P) + FreeOf[s]
  BY <1>3, <1>5, <1>6, SumAdd
<1>8. FreeOf[s] = Free(s)
  BY <1>1, <1>3 DEF FreeOf
<1>9. Room(Prefix(slots, i + 1)) = Room(P) + Free(s)
  BY <1>4, <1>7, <1>8 DEF Room
<1>10. QED
  BY <1>3, <1>5, <1>9 DEF P, s

\* After i slots: the rows are on the first slots.  The first w of them carry
\* the minutes, all but the last what is free in their slot, and those behind
\* are residue; either something is left and every slot is full, or the w rows
\* are the target.
RowsOK(rows, slots, w) ==
  /\ rows \in Seq([slot : SnapshotSlots, minutes : Int]) /\ w \in 0..Len(rows)
  /\ \A k \in 1..Len(rows) : /\ rows[k].slot = slots[k]
                             /\ rows[k].minutes \in 0..Free(slots[k])
                             /\ k < w => rows[k].minutes = Free(slots[k])
                             /\ k = w => rows[k].minutes > 0
                             /\ w < k => rows[k].minutes = 0

FillOK(acc, target, slots, i, w) ==
  /\ acc.left \in Int /\ RowsOK(acc.rows, slots, w) /\ Len(acc.rows) <= i
  /\ ~Met(acc) => Len(acc.rows) = i
  /\ acc.left > 0 => /\ w = i
                     /\ acc.left = target - Room(Prefix(slots, i))
                     /\ w > 0 => acc.rows[w].minutes = Free(slots[w])
  /\ acc.left <= 0 => \/ target <= 0 /\ acc.left = target /\ acc.rows = <<>>
                      \/ /\ acc.left = 0 /\ w > 0
                         /\ Room(Prefix(slots, w - 1)) < target
                         /\ target <= Room(Prefix(slots, w))
  /\ w > 0 => acc.rows[w].minutes = target - acc.left - Room(Prefix(slots, w - 1))

LEMMA FillKeeps ==
  ASSUME world \in Worlds, NEW target \in Int, NEW slots, NEW S, AreOpen(slots, S),
         NEW i \in Nat, i + 1 \in 1..Cardinality(S),
         NEW acc, \E w \in 0..i : FillOK(acc, target, slots, i, w)
  PROVE  \E w \in 0..(i + 1) : FillOK(Fill(acc, slots[i + 1]), target, slots, i + 1, w)
<1> DEFINE n == Cardinality(S)
           s == slots[i + 1]
           new == Fill(acc, s)
<1>0. PICK w \in 0..i : FillOK(acc, target, slots, i, w)
  OBVIOUS
<1>1. /\ s \in SnapshotSlots /\ Free(s) \in Nat /\ Free(s) > 0
  <2>1. s \in S
    BY DEF AreOpen, IsInOrder
  <2> HIDE DEF s
  <2>2. QED
    BY <2>1, FreeIs DEF AreOpen
<1>2. /\ Room(Prefix(slots, i)) \in Int
      /\ Room(Prefix(slots, i + 1)) = Room(Prefix(slots, i)) + Free(s)
  BY RoomGrows
<1>3. acc.left \in Int /\ RowsOK(acc.rows, slots, w) /\ Len(acc.rows) \in Nat
      /\ w \in 0..Len(acc.rows)
  BY <1>0 DEF FillOK, RowsOK
<1>4. CASE Met(acc)
  <2>1. new = acc
    BY <1>4 DEF Fill
  <2>2. Len(acc.rows) <= i + 1 /\ ~(acc.left > 0)
    BY <1>0, <1>3, <1>4 DEF FillOK, Met
  <2> HIDE DEF new
  <2>3. FillOK(acc, target, slots, i + 1, w)
    BY <1>0, <1>3, <1>4, <2>2 DEF FillOK
  <2>4. w \in 0..(i + 1)
    OBVIOUS
  <2>5. QED
    BY <2>1, <2>3, <2>4 DEF new
<1> DEFINE take == Min({acc.left, Free(s)})
           row == [slot |-> s, minutes |-> take]
           rows == Append(acc.rows, row)
<1>5. take = IF acc.left <= Free(s) THEN acc.left ELSE Free(s)
  BY <1>1, <1>3, MinOfTwo
<1>6. ~Met(acc) => new = [left |-> acc.left - take, rows |-> rows]
  BY DEF Fill
<1> HIDE DEF s, take, new
\* One more row, and which rows carry minutes after it.
<1>7. ASSUME ~Met(acc), acc.left >= 0, NEW v \in 0..(i + 1), Len(acc.rows) <= i,
             acc.left > 0 => w = Len(acc.rows) /\ v = w + 1,
             acc.left = 0 => v = w,
             acc.left > 0 /\ w > 0 => acc.rows[w].minutes = Free(slots[w]),
             slots[Len(acc.rows) + 1] = s
      PROVE  /\ RowsOK(rows, slots, v) /\ new.left = acc.left - take /\ new.rows = rows
             /\ new.left \in Int /\ take \in 0..Free(s)
             /\ Len(rows) = Len(acc.rows) + 1 /\ rows[Len(rows)].minutes = take
             /\ \A k \in 1..Len(acc.rows) : rows[k] = acc.rows[k]
  <2>1. take \in 0..Free(s) /\ take \in Int /\ (acc.left > 0 => take > 0)
        /\ (acc.left = 0 => take = 0)
    BY <1>1, <1>3, <1>5, <1>7
  <2>2. new.left = acc.left - take /\ new.rows = rows /\ new.left \in Int
    BY <1>3, <1>6, <1>7, <2>1
  <2> DEFINE l == Len(acc.rows)
  <2>3. /\ rows \in Seq([slot : SnapshotSlots, minutes : Int]) /\ Len(rows) = l + 1
        /\ rows[l + 1] = row /\ \A k \in 1..l : rows[k] = acc.rows[k]
    BY <1>1, <1>3, <2>1 DEF RowsOK
  <2>4. l \in Nat
    BY <1>3
  <2>5. ASSUME NEW k \in 1..(l + 1)
        PROVE  /\ rows[k].slot = slots[k] /\ rows[k].minutes \in 0..Free(slots[k])
               /\ k < v => rows[k].minutes = Free(slots[k])
               /\ k = v => rows[k].minutes > 0
               /\ v < k => rows[k].minutes = 0
    <3>1. CASE k = l + 1
      <4>1. rows[k] = row /\ slots[k] = s
        BY <1>7, <2>3, <3>1
      <4>2. rows[k].slot = slots[k] /\ rows[k].minutes = take
        BY <4>1
      <4>3. v <= k /\ (k = v => acc.left > 0) /\ (v < k => acc.left = 0)
        <5>1. acc.left > 0 \/ acc.left = 0
          BY <1>3, <1>7
        <5> HIDE DEF l
        <5>2. QED
          BY <1>3, <1>7, <2>4, <3>1, <5>1 DEF l
      <4>4. QED
        BY <2>1, <2>4, <4>1, <4>2, <4>3
    <3>2. CASE k # l + 1
      <4>1. k \in 1..l /\ rows[k] = acc.rows[k]
        BY <2>3, <2>4, <3>2
      <4>2. /\ acc.rows[k].slot = slots[k] /\ acc.rows[k].minutes \in 0..Free(slots[k])
            /\ k < w => acc.rows[k].minutes = Free(slots[k])
            /\ k = w => acc.rows[k].minutes > 0
            /\ w < k => acc.rows[k].minutes = 0
        BY <1>3, <4>1 DEF RowsOK
      <4>3. CASE acc.left > 0
        <5>1. w = l /\ v = l + 1
          BY <1>7, <4>3
        <5>2. k < w \/ k = w
          BY <2>4, <4>1, <5>1
        <5>3. acc.rows[k].minutes = Free(slots[k])
          BY <1>7, <2>4, <4>1, <4>2, <4>3, <5>1, <5>2
        <5> HIDE DEF l, rows
        <5>4. QED
          BY <2>4, <4>1, <4>2, <5>1, <5>3
      <4>4. CASE acc.left = 0
        BY <1>7, <4>1, <4>2, <4>4
      <4>5. QED
        BY <1>3, <1>7, <4>3, <4>4
    <3>3. QED
      BY <3>1, <3>2
  <2>6. v \in 0..Len(rows)
    <3>1. w \in 0..l
      BY <1>3
    <3>2. acc.left > 0 \/ acc.left = 0
      BY <1>3, <1>7
    <3> HIDE DEF l, rows
    <3>3. QED
      BY <1>7, <2>3, <2>4, <3>1, <3>2
  <2>7. RowsOK(rows, slots, v)
    <3> HIDE DEF rows
    <3>1. \A k \in 1..Len(rows) :
            /\ rows[k].slot = slots[k] /\ rows[k].minutes \in 0..Free(slots[k])
            /\ k < v => rows[k].minutes = Free(slots[k])
            /\ k = v => rows[k].minutes > 0
            /\ v < k => rows[k].minutes = 0
      BY <2>3, <2>5
    <3>2. rows \in Seq([slot : SnapshotSlots, minutes : Int])
      BY <2>3
    <3>3. QED
      BY <2>6, <3>1, <3>2 DEF RowsOK
  <2>8. Len(rows) = l + 1 /\ rows[Len(rows)].minutes = take
    <3>1. row.minutes = take
      OBVIOUS
    <3> HIDE DEF rows, row
    <3>2. QED
      BY <2>3, <3>1
  <2>9. QED
    BY <2>1, <2>2, <2>3, <2>7, <2>8
<1> HIDE DEF rows
<1>8. CASE acc.left > 0
  <2>2. ~Met(acc)
    BY <1>3, <1>8 DEF Met
  <2>1. /\ w = i /\ Len(acc.rows) = i /\ acc.left = target - Room(Prefix(slots, i))
        /\ w > 0 => acc.rows[w].minutes = Free(slots[w])
    BY <1>0, <1>8, <2>2 DEF FillOK
  <2>3. /\ RowsOK(rows, slots, i + 1) /\ new.left = acc.left - take /\ new.rows = rows
        /\ new.left \in Int /\ take \in 0..Free(s)
        /\ Len(rows) = i + 1 /\ rows[i + 1].minutes = take
    <3>1. i + 1 \in 0..(i + 1) /\ slots[Len(acc.rows) + 1] = s /\ acc.left >= 0
      BY <1>3, <1>8, <2>1 DEF s
    <3>2. /\ RowsOK(rows, slots, i + 1) /\ new.left = acc.left - take /\ new.rows = rows
          /\ new.left \in Int /\ take \in 0..Free(s)
          /\ Len(rows) = Len(acc.rows) + 1 /\ rows[Len(rows)].minutes = take
      BY <1>7, <1>8, <2>1, <2>2, <3>1
    <3>3. QED
      BY <2>1, <3>2
  <2>4. /\ (i + 1) - 1 = i /\ take \in Int
        /\ rows[i + 1].minutes = target - new.left - Room(Prefix(slots, i))
    BY <1>2, <1>3, <2>1, <2>3
  <2>5. CASE acc.left <= Free(s)
    <3>1. new.left = 0 /\ ~(new.left > 0)
      BY <1>3, <1>5, <2>3, <2>5
    <3>2. Room(Prefix(slots, i)) < target /\ target <= Room(Prefix(slots, i + 1))
      BY <1>1, <1>2, <1>3, <1>8, <2>1, <2>5
    <3>3. FillOK(new, target, slots, i + 1, i + 1)
      BY <2>3, <2>4, <3>1, <3>2 DEF FillOK
    <3>4. QED
      BY <3>3 DEF new, s
  <2>6. CASE acc.left > Free(s)
    <3>1. new.left = target - Room(Prefix(slots, i + 1)) /\ new.left > 0 /\ take = Free(s)
      BY <1>1, <1>2, <1>3, <1>5, <2>1, <2>3, <2>6
    <3>2. rows[i + 1].minutes = Free(slots[i + 1])
      BY <2>3, <3>1 DEF s
    <3>3. FillOK(new, target, slots, i + 1, i + 1)
      BY <2>3, <2>4, <3>1, <3>2 DEF FillOK
    <3>4. QED
      BY <3>3 DEF new, s
  <2>7. QED
    BY <1>1, <1>3, <2>5, <2>6
<1>9. CASE acc.left = 0 /\ ~Met(acc)
  <2>1. Residue(acc.rows)
    BY <1>9 DEF Met
  <2>2. acc.rows # <<>>
    BY <2>1, AnalysisAssumption
  <2>3. w > 0 /\ Room(Prefix(slots, w - 1)) < target /\ target <= Room(Prefix(slots, w))
    BY <1>0, <1>9, <2>2 DEF FillOK
  <2>4. Len(acc.rows) = i
    BY <1>0, <1>9 DEF FillOK
  <2>5. /\ RowsOK(rows, slots, w) /\ new.left = acc.left - take /\ new.rows = rows
        /\ new.left \in Int /\ take \in 0..Free(s)
        /\ Len(rows) = i + 1 /\ \A k \in 1..i : rows[k] = acc.rows[k]
    <3>1. /\ w \in 0..(i + 1) /\ slots[Len(acc.rows) + 1] = s /\ acc.left >= 0
          /\ ~(acc.left > 0) /\ Len(acc.rows) <= i
      BY <1>9, <2>4 DEF s
    <3>2. /\ RowsOK(rows, slots, w) /\ new.left = acc.left - take /\ new.rows = rows
          /\ new.left \in Int /\ take \in 0..Free(s)
          /\ Len(rows) = Len(acc.rows) + 1
          /\ \A k \in 1..Len(acc.rows) : rows[k] = acc.rows[k]
      BY <1>7, <1>9, <3>1
    <3>3. QED
      BY <2>4, <3>2
  <2>6. new.left = 0 /\ ~(new.left > 0)
    BY <1>1, <1>3, <1>5, <1>9, <2>5
  <2>7. rows[w] = acc.rows[w]
    BY <2>3, <2>5
  <2>8. FillOK(new, target, slots, i + 1, w)
    <3>1. acc.rows[w].minutes = target - acc.left - Room(Prefix(slots, w - 1))
      BY <1>0, <2>3 DEF FillOK
    <3>2. QED
      BY <1>9, <2>3, <2>5, <2>6, <2>7, <3>1 DEF FillOK
  <2>9. w \in 0..(i + 1)
    OBVIOUS
  <2>10. QED
    BY <2>8, <2>9 DEF new, s
<1>10. QED
  BY <1>3, <1>4, <1>8, <1>9 DEF Met

LEMMA FillBegins ==
  ASSUME world \in Worlds, NEW target \in Int, NEW slots
  PROVE  FillOK([left |-> target, rows |-> <<>>], target, slots, 0, 0)
<1>1. Prefix(slots, 0) = {}
  BY DEF Prefix
<1>2. Room(Prefix(slots, 0)) = 0
  <2>1. {} \in SUBSET SnapshotSlots
    OBVIOUS
  <2>2. QED
    BY <1>1, <2>1, RoomIs
<1>3. RowsOK(<<>>, slots, 0) /\ Len(<<>>) = 0
  BY DEF RowsOK
<1>4. target > 0 \/ target <= 0
  OBVIOUS
<1>5. QED
  BY <1>2, <1>3, <1>4 DEF FillOK

LEMMA FilledUp ==
  ASSUME world \in Worlds, NEW target \in Int, NEW slots, NEW S, AreOpen(slots, S)
  PROVE  \E w \in 0..Cardinality(S) :
            FillOK(Filled(target, slots), target, slots, Cardinality(S), w)
<1> DEFINE n == Cardinality(S)
           OK(acc, k) == \E w \in 0..k : FillOK(acc, target, slots, k, w)
<1>1. n \in Nat /\ Len(slots) = n
  BY DEF AreOpen, IsInOrder
<1>2. PICK st : IsFill(st, target, slots, n) /\ Filled(target, slots) = st[n]
  BY <1>1, FilledIs
<1>begins. OK([left |-> target, rows |-> <<>>], 0)
  BY FillBegins
<1>keeps. ASSUME NEW i \in Nat, i + 1 \in 1..n, NEW acc, OK(acc, i)
          PROVE  OK(Fill(acc, slots[i + 1]), i + 1)
  BY <1>keeps, FillKeeps
<1> HIDE DEF n, OK
<1>3. \A i \in 0..n : st[i] = IF i = 0 THEN [left |-> target, rows |-> <<>>]
                              ELSE Fill(st[i - 1], slots[i])
  BY <1>2, Zenon DEF IsFill
<1> DEFINE Bad == {k \in 0..n : ~ OK(st[k], k)}
<1>4. Bad = {}
  <2>1. SUFFICES ASSUME Bad # {} PROVE FALSE
    OBVIOUS
  <2>2. PICK m \in Bad : \A k \in Bad : m <= k
    <3>1. Bad \subseteq Int /\ IsFiniteSet(Bad)
      BY <1>1, NumbersUpTo
    <3> HIDE DEF Bad
    <3>2. QED
      BY <2>1, <3>1, HasSmallest
  <2>3. m # 0
    <3>1. st[0] = [left |-> target, rows |-> <<>>]
      BY <1>1, <1>3
    <3>2. QED
      BY <1>begins, <2>2, <3>1
  <2>4. PICK i : i = m - 1
    OBVIOUS
  <2>5. i \in Nat /\ i + 1 \in 1..n /\ i + 1 = m /\ i \in 0..n /\ i \notin Bad
    BY <1>1, <2>2, <2>3, <2>4
  <2>6. st[i + 1] = Fill(st[i], slots[i + 1])
    BY <1>3, <2>3, <2>4, <2>5
  <2>7. OK(st[i], i)
    BY <2>5
  <2>8. OK(st[i + 1], i + 1)
    BY <1>keeps, <2>5, <2>6, <2>7
  <2>9. QED
    BY <2>2, <2>5, <2>8
<1>5. OK(st[n], n)
  BY <1>1, <1>4
<1>6. QED
  BY <1>2, <1>5 DEF n, OK

-----------------------------------------------------------------------------
(* plan_earliest_slots *)

\* What the plan for a target on some lines is: rows on the first eligible
\* slots, w of them with as many minutes as the target or the room there is,
\* the last of these being needed for them.
PlanIs(plan, lines, target, w) ==
  LET e == Eligible(lines)
  IN  /\ RowsOK(plan.rows, e, w) /\ Len(plan.rows) <= Cardinality(Open(lines))
      /\ plan.minutes \in Int
      /\ w = 0 => plan.minutes = 0
      /\ w > 0 => plan.rows[w].minutes = plan.minutes - Room(Prefix(e, w - 1))
      /\ target <= 0 => plan.minutes = 0
      /\ target > 0 => /\ plan.minutes <= target /\ plan.minutes <= Room(Open(lines))
                       /\ plan.minutes = target \/ plan.minutes = Room(Open(lines))
                       /\ w > 0 => Room(Prefix(e, w - 1)) < plan.minutes

IsPlanFor(plan, lines, target) == \E w \in Nat : PlanIs(plan, lines, target, w)

LEMMA EligibleAreOpen ==
  ASSUME world \in Worlds, NEW lines
  PROVE  AreOpen(Eligible(lines), Open(lines))
<1>1. IsInOrder(Eligible(lines), Open(lines))
  BY EligibleIs
<1>2. Open(lines) \in SUBSET SnapshotSlots /\ \A s \in Open(lines) : Free(s) > 0
  BY DEF Open
<1>3. QED
  BY <1>1, <1>2 DEF AreOpen

LEMMA PrefixIs ==
  ASSUME NEW slots, NEW S, AreOpen(slots, S)
  PROVE  /\ Cardinality(S) \in Nat
         /\ Prefix(slots, Cardinality(S)) = S
         /\ \A k \in 0..Cardinality(S) : Prefix(slots, k) \in SUBSET S
<1> DEFINE n == Cardinality(S)
<1>1. /\ n \in Nat /\ slots \in [1..n -> S]
      /\ \A s \in S : \E i \in 1..n : slots[i] = s
  BY DEF AreOpen, IsInOrder
<1> HIDE DEF n
<1>2. Prefix(slots, n) = S
  BY <1>1 DEF Prefix
<1>3. ASSUME NEW k \in 0..n
      PROVE  Prefix(slots, k) \in SUBSET S
  <2>1. \A j \in 1..k : j \in 1..n
    BY <1>1
  <2>2. QED
    BY <1>1, <2>1 DEF Prefix
<1>4. QED
  BY <1>1, <1>2, <1>3 DEF n

LEMMA EarliestIs ==
  ASSUME world \in Worlds, NEW lines, NEW target \in Int
  PROVE  IsPlanFor(PlanEarliest(lines, target), lines, target)
<1> DEFINE S == Open(lines)
           e == Eligible(lines)
           n == Cardinality(S)
           acc == Filled(target, e)
           plan == PlanEarliest(lines, target)
           m == Len(acc.rows)
<1>1. AreOpen(e, S)
  BY EligibleAreOpen
<1>2. PICK w \in 0..n : FillOK(acc, target, e, n, w)
  BY <1>1, FilledUp
<1>3. plan.rows = acc.rows /\ plan.minutes = target - acc.left
  BY DEF PlanEarliest
<1>4. /\ n \in Nat /\ Prefix(e, n) = S /\ \A k \in 0..n : Prefix(e, k) \in SUBSET S
      /\ S \in SUBSET SnapshotSlots
  <2>1. S \in SUBSET SnapshotSlots
    BY <1>1 DEF AreOpen
  <2>2. QED
    BY <1>1, <2>1, PrefixIs
<1> HIDE DEF S, e, n, acc, plan
<1>5. /\ acc.left \in Int /\ RowsOK(acc.rows, e, w) /\ m \in Nat /\ m <= n /\ w \in 0..m
  BY <1>2 DEF FillOK, RowsOK
<1>6. /\ Room(S) \in Int /\ \A T \in SUBSET S : Room(T) <= Room(S)
  BY <1>4, RoomIs
<1>7. plan.minutes \in Int /\ Len(plan.rows) = m
  BY <1>3, <1>5
<1>8. \A k \in 0..n : Room(Prefix(e, k)) \in Int
  <2>1. ASSUME NEW k \in 0..n PROVE Room(Prefix(e, k)) \in Int
    <3>1. Prefix(e, k) \in SUBSET SnapshotSlots
      BY <1>4
    <3>2. QED
      BY <3>1, RoomIs
  <2>2. QED
    BY <2>1
<1> DEFINE Result ==
      /\ w = 0 => plan.minutes = 0
      /\ w > 0 => plan.rows[w].minutes = plan.minutes - Room(Prefix(e, w - 1))
      /\ target <= 0 => plan.minutes = 0
      /\ target > 0 => /\ plan.minutes <= target /\ plan.minutes <= Room(S)
                       /\ plan.minutes = target \/ plan.minutes = Room(S)
                       /\ w > 0 => Room(Prefix(e, w - 1)) < plan.minutes
<1>last. w > 0 => plan.rows[w].minutes = plan.minutes - Room(Prefix(e, w - 1))
  BY <1>2, <1>3, <1>5 DEF FillOK
<1>9. ASSUME acc.left > 0 PROVE Result
  <2>1. w = n /\ acc.left = target - Room(S)
    BY <1>2, <1>4, <1>9 DEF FillOK
  <2>2. plan.minutes = Room(S)
    BY <1>3, <1>6, <2>1
  <2>3. w = 0 => Room(S) = 0
    <3>1. Prefix(e, 0) = {}
      BY DEF Prefix
    <3>2. w = 0 => S = {}
      BY <1>4, <2>1, <3>1
    <3>3. QED
      BY <1>4, <3>2, RoomIs
  <2>4. w > 0 => Room(Prefix(e, w - 1)) < Room(S)
    <3> SUFFICES ASSUME w > 0 PROVE Room(Prefix(e, w - 1)) < Room(S)
      OBVIOUS
    <3>1. PICK i : i = w - 1
      OBVIOUS
    <3>2. i \in Nat /\ i + 1 \in 1..n /\ i + 1 = n
      BY <1>4, <1>5, <2>1, <3>1
    <3>3. /\ Room(Prefix(e, i)) \in Int
          /\ Room(Prefix(e, i + 1)) = Room(Prefix(e, i)) + Free(e[i + 1])
      BY <1>1, <3>2, RoomGrows DEF n
    <3>4. Free(e[i + 1]) \in Nat /\ Free(e[i + 1]) > 0
      <4>1. e[i + 1] \in S
        BY <1>1, <3>2 DEF AreOpen, IsInOrder, n
      <4>2. QED
        BY <1>1, <1>4, <4>1, FreeIs DEF AreOpen
    <3>5. QED
      BY <1>4, <3>1, <3>2, <3>3, <3>4
  <2>5. Room(S) <= target
    BY <1>5, <1>6, <1>9, <2>1
  <2>6. target > 0
    <3>1. {} \in SUBSET S
      OBVIOUS
    <3>2. 0 <= Room(S)
      BY <1>4, <1>6, <3>1, RoomIs
    <3>3. QED
      BY <1>5, <1>6, <1>9, <2>1, <3>2
  <2>7. QED
    BY <1>5, <1>6, <1>last, <2>2, <2>3, <2>4, <2>5, <2>6
<1>10. ASSUME acc.left <= 0 PROVE Result
  <2>1. \/ target <= 0 /\ acc.left = target /\ acc.rows = <<>>
        \/ /\ acc.left = 0 /\ w > 0
           /\ Room(Prefix(e, w - 1)) < target
           /\ target <= Room(Prefix(e, w))
    BY <1>2, <1>10 DEF FillOK
  <2>2. CASE target <= 0 /\ acc.left = target /\ acc.rows = <<>>
    <3>1. m = 0 /\ w = 0
      BY <1>5, <2>2
    <3>2. QED
      BY <1>3, <1>last, <2>2, <3>1
  <2>3. CASE /\ acc.left = 0 /\ w > 0
             /\ Room(Prefix(e, w - 1)) < target
             /\ target <= Room(Prefix(e, w))
    <3>1. plan.minutes = target
      BY <1>3, <2>3
    <3>2. w \in 0..n /\ w - 1 \in 0..n
      BY <1>4, <1>5, <2>3
    <3>3. Room(Prefix(e, w)) <= Room(S) /\ Room(Prefix(e, w)) \in Int
      BY <1>4, <1>6, <1>8, <3>2
    <3>4. target <= Room(S)
      BY <1>6, <2>3, <3>3
    <3>5. target > 0
      <4>1. 0 <= Room(Prefix(e, w - 1)) /\ Room(Prefix(e, w - 1)) \in Int
        <5>1. Prefix(e, w - 1) \in SUBSET SnapshotSlots /\ {} \in SUBSET Prefix(e, w - 1)
          BY <1>4, <3>2
        <5>2. QED
          BY <1>8, <3>2, <5>1, RoomIs
      <4>2. QED
        BY <2>3, <4>1
    <3>6. QED
      BY <1>last, <2>3, <3>1, <3>4, <3>5
  <2>4. QED
    BY <2>1, <2>2, <2>3
<1>11. Result
  BY <1>5, <1>9, <1>10
<1>12. PlanIs(plan, lines, target, w)
  BY <1>3, <1>5, <1>7, <1>11 DEF PlanIs, S, e, n
<1>13. w \in Nat
  BY <1>5
<1>14. QED
  BY <1>12, <1>13 DEF plan, IsPlanFor

-----------------------------------------------------------------------------
(* Ranking the options. *)

\* Keys of six integers, compared like words.
IsKey(a) == DOMAIN a = 1..6 /\ \A i \in 1..6 : a[i] \in Int

LEMMA BeforeIs ==
  ASSUME NEW a, NEW b, IsKey(a), IsKey(b)
  PROVE  Before(a, b) <=>
           \/ a[1] < b[1]
           \/ a[1] = b[1] /\ a[2] < b[2]
           \/ a[1] = b[1] /\ a[2] = b[2] /\ a[3] < b[3]
           \/ a[1] = b[1] /\ a[2] = b[2] /\ a[3] = b[3] /\ a[4] < b[4]
           \/ a[1] = b[1] /\ a[2] = b[2] /\ a[3] = b[3] /\ a[4] = b[4] /\ a[5] < b[5]
           \/ /\ a[1] = b[1] /\ a[2] = b[2] /\ a[3] = b[3] /\ a[4] = b[4] /\ a[5] = b[5]
              /\ a[6] < b[6]
<1> DEFINE First(i) == a[i] < b[i] /\ \A j \in 1..(i - 1) : a[j] = b[j]
<1>1. Before(a, b) <=> \E i \in 1..6 : First(i)
  BY DEF Before, IsKey
<1>2. \A i \in 1..6 : i = 1 \/ i = 2 \/ i = 3 \/ i = 4 \/ i = 5 \/ i = 6
  OBVIOUS
<1>3. /\ First(1) <=> a[1] < b[1]
      /\ First(2) <=> a[1] = b[1] /\ a[2] < b[2]
      /\ First(3) <=> a[1] = b[1] /\ a[2] = b[2] /\ a[3] < b[3]
      /\ First(4) <=> a[1] = b[1] /\ a[2] = b[2] /\ a[3] = b[3] /\ a[4] < b[4]
  <2>1. /\ 1..(1 - 1) = {} /\ 1..(2 - 1) = {1} /\ 1..(3 - 1) = {1, 2} /\ 1..(4 - 1) = {1, 2, 3}
    OBVIOUS
  <2>2. QED
    BY <2>1
<1>4. /\ First(5) <=> a[1] = b[1] /\ a[2] = b[2] /\ a[3] = b[3] /\ a[4] = b[4] /\ a[5] < b[5]
      /\ First(6) <=> /\ a[1] = b[1] /\ a[2] = b[2] /\ a[3] = b[3] /\ a[4] = b[4] /\ a[5] = b[5]
                      /\ a[6] < b[6]
  <2>1. 1..(5 - 1) = {1, 2, 3, 4} /\ 1..(6 - 1) = {1, 2, 3, 4, 5}
    OBVIOUS
  <2>2. QED
    BY <2>1
<1>5. /\ 1 \in 1..6 /\ 2 \in 1..6 /\ 3 \in 1..6 /\ 4 \in 1..6 /\ 5 \in 1..6 /\ 6 \in 1..6
  OBVIOUS
<1> HIDE DEF First
<1>6. (\E i \in 1..6 : First(i))
        <=> First(1) \/ First(2) \/ First(3) \/ First(4) \/ First(5) \/ First(6)
  BY <1>2, <1>5
<1>7. QED
  BY <1>1, <1>3, <1>4, <1>6

LEMMA BeforeIsOrder ==
  ASSUME NEW a, NEW b, NEW c, IsKey(a), IsKey(b), IsKey(c)
  PROVE  /\ ~Before(a, a)
         /\ a[6] # b[6] => Before(a, b) \/ Before(b, a)
         /\ Before(a, b) /\ Before(b, c) => Before(a, c)
         /\ Before(a, b) => a[1] <= b[1]
<1>1. /\ a[1] \in Int /\ a[2] \in Int /\ a[3] \in Int /\ a[4] \in Int /\ a[5] \in Int /\ a[6] \in Int
      /\ b[1] \in Int /\ b[2] \in Int /\ b[3] \in Int /\ b[4] \in Int /\ b[5] \in Int /\ b[6] \in Int
      /\ c[1] \in Int /\ c[2] \in Int /\ c[3] \in Int /\ c[4] \in Int /\ c[5] \in Int /\ c[6] \in Int
  BY DEF IsKey
<1>2. ~Before(a, a)
  BY <1>1, BeforeIs
<1>3. a[6] # b[6] => Before(a, b) \/ Before(b, a)
  BY <1>1, BeforeIs
<1>4. Before(a, b) /\ Before(b, c) => Before(a, c)
  BY <1>1, BeforeIs
<1>5. Before(a, b) => a[1] <= b[1]
  BY <1>1, BeforeIs
<1>6. QED
  BY <1>2, <1>3, <1>4, <1>5

\* The lines of a plan are finitely many.
LEMMA LinesAreFew ==
  ASSUME NEW rows, NEW n \in Nat, DOMAIN rows = 1..n
  PROVE  Cardinality(LinesOf(rows)) \in Nat
<1>1. PICK f : f = [i \in 1..n |-> rows[i].slot.line]
  OBVIOUS
<1>2. LinesOf(rows) = {f[i] : i \in 1..n}
  BY <1>1 DEF LinesOf
<1>3. f \in Surjection(1..n, LinesOf(rows))
  BY <1>1, <1>2 DEF Surjection
<1>4. IsFiniteSet(1..n)
  BY FS_Interval
<1>5. IsFiniteSet(LinesOf(rows))
  BY <1>3, <1>4, FS_Surjection
<1>6. QED
  BY <1>5, FS_CardinalityType

\* What an option has whatever its code: a plan of this function.
IsPlan(plan) == \E lines : \E target \in Int : plan = PlanEarliest(lines, target)

Codes == {"FULL_EARLIEST", "MATERIAL_LIMITED", "SINGLE_LINE"}

LEMMA PlansAre ==
  ASSUME world \in Worlds, NEW plan, IsPlan(plan)
  PROVE  /\ plan.minutes \in Int
         /\ plan.rows \in Seq([slot : SnapshotSlots, minutes : Int])
         /\ Len(plan.rows) \in Nat /\ DOMAIN plan.rows = 1..Len(plan.rows)
<1>1. PICK lines : \E target \in Int : plan = PlanEarliest(lines, target)
  BY DEF IsPlan
<1>2. PICK target \in Int : plan = PlanEarliest(lines, target)
  BY <1>1
<1>3. PICK w \in Nat : PlanIs(plan, lines, target, w)
  BY <1>2, EarliestIs DEF IsPlanFor
<1>4. QED
  BY <1>3 DEF PlanIs, RowsOK

LEMMA RequiredIs ==
  ASSUME world \in Worlds
  PROVE  /\ Required \in Nat
         /\ \A cap \in Int : /\ Target(cap) \in Int
                             /\ cap # -1 => Target(cap) <= cap * Sam
                             /\ cap # -1 /\ Target(cap) # Required => Target(cap) = cap * Sam
<1>1. world.units \in Nat /\ Sam \in Nat \ {0}
  BY AnalysisAssumption
<1>2. Required \in Nat
  BY <1>1 DEF Required
<1>3. ASSUME NEW cap \in Int
      PROVE  /\ Target(cap) \in Int
             /\ cap # -1 => Target(cap) <= cap * Sam
             /\ cap # -1 /\ Target(cap) # Required => Target(cap) = cap * Sam
  <2> DEFINE most == cap * Sam
  <2>1. most \in Int
    BY <1>1
  <2> HIDE DEF most
  <2>2. Min({Required, most}) = IF Required <= most THEN Required ELSE most
    BY <1>2, <2>1, MinOfTwo
  <2>3. Target(cap) = IF cap = -1 THEN Required ELSE Min({Required, most})
    BY DEF Target, most
  <2>4. /\ Target(cap) \in Int
        /\ cap # -1 => Target(cap) <= most
        /\ cap # -1 /\ Target(cap) # Required => Target(cap) = most
    BY <1>2, <2>1, <2>2, <2>3
  <2>5. QED
    BY <2>4 DEF most
<1>4. QED
  BY <1>2, <1>3

LEMMA RankIsKey ==
  ASSUME world \in Worlds, NEW o, o.code \in Codes, IsPlan(o.plan), NEW revise, NEW risky
  PROVE  /\ IsKey(RankKey(o, revise, risky))
         /\ RankKey(o, revise, risky)[1] = (IF revise /\ o.code = "MATERIAL_LIMITED" THEN 0 ELSE 1)
         /\ RankKey(o, revise, risky)[6] = CodeOrder[o.code]
<1> DEFINE k1 == IF revise /\ o.code = "MATERIAL_LIMITED" THEN 0 ELSE 1
           k2 == IF o.plan.full THEN 0 ELSE 1
           k3 == FinishDay(o.plan)
           k4 == Cardinality(LinesOf(o.plan.rows))
           k5 == IF LinesOf(o.plan.rows) \cap risky # {} THEN 1 ELSE 0
           k6 == CodeOrder[o.code]
<1>1. k1 \in Int /\ k2 \in Int /\ k5 \in Int
  OBVIOUS
<1>2. k3 \in Int
  <2> DEFINE rows == o.plan.rows
  <2>1. rows \in Seq([slot : SnapshotSlots, minutes : Int])
    BY PlansAre
  <2> HIDE DEF rows
  <2>2. CASE rows = <<>>
    BY <2>2 DEF FinishDay, NoDate, rows
  <2>3. CASE rows # <<>>
    <3>1. rows[Len(rows)] \in [slot : SnapshotSlots, minutes : Int]
      <4>1. Len(rows) # 0 /\ Len(rows) \in Nat
        BY <2>1, <2>3, EmptySeq
      <4>2. Len(rows) \in 1..Len(rows)
        BY <4>1
      <4>3. QED
        BY <2>1, <4>2, ElementOfSeq
    <3>2. rows[Len(rows)].slot.day \in Int
      BY <3>1, SlotsAre
    <3>3. QED
      BY <2>3, <3>2 DEF FinishDay, Last, rows
  <2>4. QED
    BY <2>2, <2>3
<1>3. k4 \in Int
  BY PlansAre, LinesAreFew
<1>4. k6 \in Int
  BY DEF CodeOrder, Codes
<1>5. RankKey(o, revise, risky) = <<k1, k2, k3, k4, k5, k6>>
  BY DEF RankKey
<1> HIDE DEF k1, k2, k3, k4, k5, k6
<1>6. IsKey(<<k1, k2, k3, k4, k5, k6>>)
  <2> DEFINE k == <<k1, k2, k3, k4, k5, k6>>
  <2>1. /\ DOMAIN k = 1..6
        /\ k[1] = k1 /\ k[2] = k2 /\ k[3] = k3 /\ k[4] = k4 /\ k[5] = k5 /\ k[6] = k6
    OBVIOUS
  <2>2. \A i \in 1..6 : i = 1 \/ i = 2 \/ i = 3 \/ i = 4 \/ i = 5 \/ i = 6
    OBVIOUS
  <2> HIDE DEF k
  <2>3. \A i \in 1..6 : k[i] \in Int
    BY <1>1, <1>2, <1>3, <1>4, <2>1, <2>2
  <2>4. IsKey(k)
    BY <2>1, <2>3 DEF IsKey
  <2>5. QED
    BY <2>4 DEF k
<1>7. /\ RankKey(o, revise, risky)[1] = k1 /\ RankKey(o, revise, risky)[6] = k6
  BY <1>5
<1>8. QED
  BY <1>5, <1>6, <1>7 DEF k1, k6

\* The options, by their codes.
FullOption == Option("FULL_EARLIEST", PlanEarliest(Compatible, Required))
LimitedOption(cov) == Option("MATERIAL_LIMITED", PlanEarliest(Compatible, Target(cov)))
SingleOption == Option("SINGLE_LINE", PlanEarliest({BestLine}, Required))

LEMMA OptionsAre ==
  ASSUME world \in Worlds, NEW cov \in Int
  PROVE  /\ \A o \in Options(cov) : o = FullOption \/ o = LimitedOption(cov) \/ o = SingleOption
         /\ FullOption \in Options(cov)
         /\ cov # -1 => \/ LimitedOption(cov) \in Options(cov)
                        \/ LimitedOption(cov).plan.rows = FullOption.plan.rows
         /\ IsFiniteSet(Options(cov))
         /\ \A o \in Options(cov) : o.code \in Codes /\ IsPlan(o.plan)
         /\ \A o, p \in Options(cov) : o.code = p.code => o = p
         /\ \A o \in Options(cov) : /\ o.code = "FULL_EARLIEST" => o = FullOption
                                    /\ o.code = "MATERIAL_LIMITED" => o = LimitedOption(cov)
<1> DEFINE L == LimitedOption(cov)
           capped == IF cov # -1 /\ L.plan.rows # FullOption.plan.rows THEN {L} ELSE {}
           rest == IF \A o \in {FullOption} \cup capped : o.plan.rows # SingleOption.plan.rows
                   THEN {SingleOption} ELSE {}
<1>1. Options(cov) = {FullOption} \cup capped \cup rest
  BY DEF Options, FullOption, LimitedOption, SingleOption
<1>2. /\ FullOption.code = "FULL_EARLIEST" /\ L.code = "MATERIAL_LIMITED"
      /\ SingleOption.code = "SINGLE_LINE"
  BY DEF FullOption, LimitedOption, SingleOption, Option
<1>3. IsPlan(FullOption.plan) /\ IsPlan(L.plan) /\ IsPlan(SingleOption.plan)
  <2>1. Required \in Int /\ Target(cov) \in Int
    BY RequiredIs
  <2>2. /\ FullOption.plan = PlanEarliest(Compatible, Required)
        /\ L.plan = PlanEarliest(Compatible, Target(cov))
        /\ SingleOption.plan = PlanEarliest({BestLine}, Required)
    BY DEF FullOption, LimitedOption, SingleOption, Option
  <2> HIDE DEF L
  <2>3. QED
    BY <2>1, <2>2 DEF IsPlan
<1> HIDE DEF L
<1>4. \A o \in Options(cov) : o = FullOption \/ o = L \/ o = SingleOption
  BY <1>1
<1>5. /\ FullOption \in Options(cov)
      /\ cov # -1 => L \in Options(cov) \/ L.plan.rows = FullOption.plan.rows
  BY <1>1
<1>6. IsFiniteSet(Options(cov))
  <2>1. IsFiniteSet({FullOption}) /\ IsFiniteSet({FullOption} \cup {L})
    BY FS_Singleton, FS_AddElement
  <2>2. IsFiniteSet({FullOption} \cup {L} \cup {SingleOption})
    BY <2>1, FS_AddElement
  <2>3. Options(cov) \in SUBSET ({FullOption} \cup {L} \cup {SingleOption})
    BY <1>4
  <2>4. QED
    BY <2>2, <2>3, FS_Subset
<1>7. \A o \in Options(cov) : o.code \in Codes /\ IsPlan(o.plan)
  BY <1>2, <1>3, <1>4 DEF Codes
<1>8. /\ \A o, p \in Options(cov) : o.code = p.code => o = p
      /\ \A o \in Options(cov) : o.code = "FULL_EARLIEST" => o = FullOption
      /\ \A o \in Options(cov) : o.code = "MATERIAL_LIMITED" => o = L
  BY <1>2, <1>4
<1>9. QED
  BY <1>4, <1>5, <1>6, <1>7, <1>8 DEF L

\* The ranking lists the options, material-limited ones first in a revision.
RankedAre(ranked, options, revise) ==
  LET n == Cardinality(options)
  IN  /\ n \in Nat /\ ranked \in [1..n -> options]
      /\ \A o \in options : \E i \in 1..n : ranked[i] = o
      /\ revise => \A i, j \in 1..n : (i < j /\ ranked[j].code = "MATERIAL_LIMITED")
                                        => ranked[i].code = "MATERIAL_LIMITED"

LEMMA RankedIs ==
  ASSUME world \in Worlds, NEW cov \in Int, NEW revise, NEW risky
  PROVE  RankedAre(Ranked(Options(cov), revise, risky), Options(cov), revise)
<1> DEFINE S == Options(cov)
           n == Cardinality(S)
           key(o) == RankKey(o, revise, risky)
           R == {e \in S \X S : Before(key(e[1]), key(e[2]))}
           ranked == Ranked(S, revise, risky)
<1>1. /\ IsFiniteSet(S) /\ \A o \in S : o.code \in Codes /\ IsPlan(o.plan)
      /\ \A o, p \in S : o.code = p.code => o = p
  BY OptionsAre
<1> HIDE DEF S
<1>2. \A o \in S : /\ IsKey(key(o)) /\ key(o)[6] = CodeOrder[o.code]
                   /\ key(o)[1] = (IF revise /\ o.code = "MATERIAL_LIMITED" THEN 0 ELSE 1)
  BY <1>1, RankIsKey
<1>3. \A c, d \in Codes : CodeOrder[c] = CodeOrder[d] => c = d
  BY DEF CodeOrder, Codes
<1> HIDE DEF key
<1>4. \A o, p \in S : o = p \/ key(o)[6] # key(p)[6]
  BY <1>1, <1>2, <1>3
<1>5. \A o, p \in S : <<o, p>> \in R <=> Before(key(o), key(p))
  OBVIOUS
<1>6. ASSUME NEW o \in S, NEW p \in S
      PROVE  /\ o = p \/ Before(key(o), key(p)) \/ Before(key(p), key(o))
             /\ ~Before(key(o), key(o))
             /\ Before(key(o), key(p)) => key(o)[1] <= key(p)[1]
  BY <1>2, <1>4, BeforeIsOrder
<1>7. ASSUME NEW o \in S, NEW p \in S, NEW q \in S, Before(key(o), key(p)), Before(key(p), key(q))
      PROVE  Before(key(o), key(q))
  BY <1>2, <1>7, BeforeIsOrder
<1> HIDE DEF R
<1>8. /\ \A o, p \in S : o = p \/ <<o, p>> \in R \/ <<p, o>> \in R
      /\ \A o, p, q \in S : <<o, p>> \in R /\ <<p, q>> \in R => <<o, q>> \in R
      /\ \A o \in S : <<o, o>> \notin R
  BY <1>5, <1>6, <1>7
<1>9. PICK f : IsListing(f, S, R)
  BY <1>1, <1>8, CanBeListed DEF HasListing
<1>10. f \in [1..n -> S] /\ \A i, j \in DOMAIN f : i < j => Before(key(f[i]), key(f[j]))
  BY <1>5, <1>9 DEF IsListing
<1>11. ranked = CHOOSE g \in [1..n -> S] :
                  \A i, j \in DOMAIN g : i < j => Before(key(g[i]), key(g[j]))
  BY DEF Ranked, Listed, key
<1> HIDE DEF ranked, n
<1>12. ranked \in [1..n -> S]
       /\ \A i, j \in DOMAIN ranked : i < j => Before(key(ranked[i]), key(ranked[j]))
  BY <1>10, <1>11
<1>13. IsListing(ranked, S, R)
  BY <1>5, <1>12 DEF IsListing, n
<1>last. n \in Nat /\ \A o \in S : \E i \in 1..n : ranked[i] = o
  BY <1>1, <1>8, <1>13, ListsEachOnce DEF n
<1>15. ASSUME NEW i \in 1..n, NEW j \in 1..n, i < j, revise,
              ranked[j].code = "MATERIAL_LIMITED"
       PROVE  ranked[i].code = "MATERIAL_LIMITED"
  <2>1. ranked[i] \in S /\ ranked[j] \in S /\ Before(key(ranked[i]), key(ranked[j]))
    BY <1>12, <1>15
  <2>2. key(ranked[i])[1] <= key(ranked[j])[1]
    BY <1>6, <2>1
  <2>3. key(ranked[j])[1] = 0
    BY <1>2, <1>15, <2>1
  <2>4. ranked[i].code # "MATERIAL_LIMITED" => key(ranked[i])[1] = 1
    BY <1>2, <2>1
  <2>5. QED
    BY <2>2, <2>3, <2>4
<1>16. RankedAre(ranked, S, revise)
  BY <1>12, <1>last, <1>15 DEF RankedAre, n
<1>17. QED
  BY <1>16 DEF ranked, S

-----------------------------------------------------------------------------
(* What the planning agent may answer. *)

\* A list of actions, each with a plan of plan_earliest_slots.
AllPlans(list) == \E S : list \in Seq(S) /\ \A o \in S : IsPlan(o.plan)

CoverableIsInt == Usable("rm0") => result["rm0"].coverable \in Int

Cov == IF Usable("rm0") THEN result["rm0"].coverable ELSE -1

LEMMA NoPlans == AllPlans(<<>>)
<1>1. PICK S : S = {}
  OBVIOUS
<1>2. <<>> \in Seq(S) /\ \A o \in S : IsPlan(o.plan)
  BY <1>1
<1>3. QED
  BY <1>2 DEF AllPlans

LEMMA ActionsAre ==
  ASSUME world \in Worlds, CoverableIsInt, NEW revise
  PROVE  /\ AllPlans(PlanningActions(revise))
         /\ PlanningActions(revise) # <<>> =>
              RankedAre(PlanningActions(revise), Options(Cov), revise)
<1> DEFINE risky == IF Usable("ie0") THEN result["ie0"].risky ELSE {}
           ranked == Ranked(Options(Cov), revise, risky)
           n == Cardinality(Options(Cov))
<1>1. Cov \in Int
  BY DEF Cov, CoverableIsInt
<1>2. PlanningActions(revise) = IF Compatible = {} THEN <<>> ELSE ranked
  BY DEF PlanningActions, Cov
<1>3. RankedAre(ranked, Options(Cov), revise)
  BY <1>1, RankedIs
<1> HIDE DEF ranked
<1>4. ranked \in Seq(Options(Cov))
  <2>1. n \in Nat /\ ranked \in [1..n -> Options(Cov)]
    BY <1>3 DEF RankedAre
  <2> HIDE DEF n
  <2>2. QED
    BY <2>1
<1>5. AllPlans(ranked)
  BY <1>1, <1>4, OptionsAre DEF AllPlans
<1>6. QED
  BY <1>2, <1>3, <1>5, NoPlans

LEMMA LongerArePlans ==
  ASSUME NEW list, AllPlans(list), NEW o, IsPlan(o.plan)
  PROVE  AllPlans(Append(list, o))
<1>1. PICK S : list \in Seq(S) /\ \A p \in S : IsPlan(p.plan)
  BY DEF AllPlans
<1>2. Append(list, o) \in Seq(S \cup {o})
  BY <1>1
<1>3. \A p \in S \cup {o} : IsPlan(p.plan)
  BY <1>1
<1>4. QED
  BY <1>2, <1>3 DEF AllPlans

LEMMA RerankedArePlans ==
  ASSUME NEW list, AllPlans(list), NEW i \in DOMAIN list
  PROVE  AllPlans(Reranked(list, i))
<1>1. PICK S : list \in Seq(S) /\ \A p \in S : IsPlan(p.plan)
  BY DEF AllPlans
<1>2. list[i] \in S /\ <<list[i]>> \in Seq(S)
  BY <1>1
<1>3. i \in 1..Len(list) /\ Len(list) \in Nat
  BY <1>1
<1>4. SubSeq(list, 1, i - 1) \in Seq(S) /\ SubSeq(list, i + 1, Len(list)) \in Seq(S)
  BY <1>1, <1>3
<1>5. RemoveAt(list, i) \in Seq(S)
  BY <1>4 DEF RemoveAt
<1>6. Reranked(list, i) \in Seq(S)
  BY <1>2, <1>5 DEF Reranked
<1>7. QED
  BY <1>1, <1>6 DEF AllPlans

PlanResult(status, list, chosen) ==
  [Blank EXCEPT !.status = status, !.actions = list, !.chosen = chosen]

\* An answer has plans; unless the model chose, they are in rank order.
AnswerIs(r, ranked) ==
  /\ r.status \in {"SUCCEEDED", "DEGRADED", "FAILED"}
  /\ AllPlans(r.actions)
  /\ r.status = "FAILED" => r.actions = <<>>
  /\ r.status # "FAILED" /\ ~r.chosen => r.actions = ranked
  /\ r.status = "DEGRADED" => r.actions = ranked

LEMMA AnswersAre ==
  ASSUME world \in Worlds, CoverableIsInt, NEW revise, NEW r \in PlanningResults(revise)
  PROVE  AnswerIs(r, PlanningActions(revise))
<1> DEFINE ranked == PlanningActions(revise)
           longer == {Append(ranked, s) : s \in IF ranked = <<>> THEN {} ELSE Simulated}
<1>1. AllPlans(ranked)
  BY ActionsAre
<1>2. \A s \in Simulated : IsPlan(s.plan)
  <2> SUFFICES ASSUME NEW s \in Simulated PROVE IsPlan(s.plan)
    OBVIOUS
  <2>1. PICK ls \in (SUBSET Compatible) \ {{}}, cap \in 0..world.units :
          s = Option("SIMULATED", PlanEarliest(ls, Target(cap)))
    BY DEF Simulated
  <2>2. s.plan = PlanEarliest(ls, Target(cap))
    BY <2>1 DEF Option
  <2>3. Target(cap) \in Int
    <3>1. cap \in Int
      OBVIOUS
    <3>2. QED
      BY <3>1, RequiredIs
  <2>4. QED
    BY <2>2, <2>3 DEF IsPlan
<1> HIDE DEF ranked
<1>3. \A a \in longer : AllPlans(a)
  BY <1>1, <1>2, LongerArePlans
<1> HIDE DEF longer
<1>4. \/ r = PlanResult("DEGRADED", ranked, FALSE)
      \/ r = PlanResult("SUCCEEDED", ranked, FALSE)
      \/ r = Failed
      \/ \E a \in {ranked} \cup longer : \E i \in DOMAIN a :
            r = PlanResult("SUCCEEDED", Reranked(a, i), TRUE)
  <2>1. r \in {PlanResult("DEGRADED", ranked, FALSE), PlanResult("SUCCEEDED", ranked, FALSE), Failed}
               \cup UNION {{PlanResult("SUCCEEDED", Reranked(a, i), TRUE) : i \in DOMAIN a} :
                           a \in {ranked} \cup longer}
    BY Zenon DEF PlanningResults, PlanResult, ranked, longer
  <2> DEFINE Chosen(a) == {PlanResult("SUCCEEDED", Reranked(a, i), TRUE) : i \in DOMAIN a}
  <2>2. r \in UNION {Chosen(a) : a \in {ranked} \cup longer}
          => \E a \in {ranked} \cup longer : r \in Chosen(a)
    OBVIOUS
  <2>3. \A a : r \in Chosen(a) => \E i \in DOMAIN a : r = PlanResult("SUCCEEDED", Reranked(a, i), TRUE)
    OBVIOUS
  <2>4. QED
    BY <2>1, <2>2, <2>3
<1>5. CASE r = PlanResult("DEGRADED", ranked, FALSE) \/ r = PlanResult("SUCCEEDED", ranked, FALSE)
  <2>1. r.actions = ranked /\ (r.status = "DEGRADED" \/ r.status = "SUCCEEDED")
    <3>1. /\ PlanResult("DEGRADED", ranked, FALSE).status = "DEGRADED"
          /\ PlanResult("DEGRADED", ranked, FALSE).actions = ranked
          /\ PlanResult("SUCCEEDED", ranked, FALSE).status = "SUCCEEDED"
          /\ PlanResult("SUCCEEDED", ranked, FALSE).actions = ranked
      BY Zenon DEF PlanResult, Blank
    <3>2. QED
      BY <1>5, <3>1, Zenon
  <2>2. QED
    BY <1>1, <2>1 DEF AnswerIs, ranked
<1>6. CASE r = Failed
  <2>1. r.status = "FAILED" /\ r.actions = <<>>
    BY <1>6, Zenon DEF Failed, Blank
  <2>2. QED
    BY <2>1, NoPlans DEF AnswerIs
<1>7. ASSUME NEW a \in {ranked} \cup longer, NEW i \in DOMAIN a,
             r = PlanResult("SUCCEEDED", Reranked(a, i), TRUE)
      PROVE  AnswerIs(r, ranked)
  <2>1. AllPlans(Reranked(a, i))
    <3>1. AllPlans(a) /\ i \in DOMAIN a
      BY <1>1, <1>3, <1>7
    <3> HIDE DEF longer
    <3>2. \A list, k : AllPlans(list) /\ k \in DOMAIN list => AllPlans(Reranked(list, k))
      BY RerankedArePlans
    <3>3. QED
      BY <3>1, <3>2
  <2>2. r.status = "SUCCEEDED" /\ r.actions = Reranked(a, i) /\ r.chosen = TRUE
    <3>1. /\ PlanResult("SUCCEEDED", Reranked(a, i), TRUE).status = "SUCCEEDED"
          /\ PlanResult("SUCCEEDED", Reranked(a, i), TRUE).actions = Reranked(a, i)
          /\ PlanResult("SUCCEEDED", Reranked(a, i), TRUE).chosen = TRUE
      BY Zenon DEF PlanResult, Blank
    <3>2. QED
      BY <1>7, <3>1, Zenon
  <2>3. QED
    BY <2>1, <2>2 DEF AnswerIs
<1>8. QED
  BY <1>4, <1>5, <1>6, <1>7 DEF ranked

-----------------------------------------------------------------------------
(* ProposalFitsSnapshot *)

\* The rows can be booked where they were planned, up to the end of the order.
RowsFit(rows) ==
  \A i \in DOMAIN rows :
     /\ rows[i].minutes >= 0
     /\ rows[i].slot.booked + Stored(rows[i].minutes) <= rows[i].slot.raw
     /\ \A j \in DOMAIN rows :
           /\ rows[i].slot = rows[j].slot => i = j
           /\ Stored(rows[i].minutes) = 0 /\ i < j => rows[j].minutes = 0

LEMMA PlanFits ==
  ASSUME world \in Worlds, NEW plan, IsPlan(plan)
  PROVE  RowsFit(plan.rows)
<1>1. PICK lines : \E target \in Int : plan = PlanEarliest(lines, target)
  BY DEF IsPlan
<1>2. PICK target \in Int : plan = PlanEarliest(lines, target)
  BY <1>1
<1> DEFINE e == Eligible(lines)
           S == Open(lines)
           n == Cardinality(S)
           rows == plan.rows
           m == Len(rows)
<1>3. PICK w \in Nat : RowsOK(rows, e, w) /\ m <= n
  <2>1. IsPlanFor(plan, lines, target)
    BY <1>2, EarliestIs
  <2>2. QED
    BY <2>1 DEF IsPlanFor, PlanIs
<1>4. /\ n \in Nat /\ e \in [1..n -> S] /\ \A i, j \in 1..n : e[i] = e[j] => i = j
      /\ S \in SUBSET SnapshotSlots /\ \A s \in S : Free(s) > 0
  BY EligibleAreOpen DEF AreOpen, IsInOrder
<1> HIDE DEF e, S, n, rows
<1>5. /\ m \in Nat /\ DOMAIN rows = 1..m
      /\ \A k \in 1..m : /\ rows[k].slot = e[k] /\ rows[k].minutes \in 0..Free(e[k])
                         /\ k < w => rows[k].minutes = Free(e[k])
                         /\ w < k => rows[k].minutes = 0
  BY <1>3 DEF RowsOK
<1>6. \A k \in 1..m : k \in 1..n
  BY <1>3, <1>4, <1>5
<1>7. ASSUME NEW i \in 1..m
      PROVE  /\ rows[i].minutes >= 0
             /\ rows[i].slot.booked + Stored(rows[i].minutes) <= rows[i].slot.raw
             /\ \A j \in 1..m :
                   /\ rows[i].slot = rows[j].slot => i = j
                   /\ Stored(rows[i].minutes) = 0 /\ i < j => rows[j].minutes = 0
  <2>1. e[i] \in SnapshotSlots /\ Free(e[i]) > 0
    BY <1>4, <1>6
  <2>2. /\ Free(e[i]) \in Nat
        /\ \A k \in 0..Free(e[i]) : e[i].booked + Stored(k) <= e[i].raw
        /\ Stored(Free(e[i])) > 0
    BY <2>1, FreeIs
  <2>3. rows[i].slot = e[i] /\ rows[i].minutes \in 0..Free(e[i])
    BY <1>5
  <2>4. \A j \in 1..m : rows[i].slot = rows[j].slot => i = j
    BY <1>4, <1>5, <1>6
  <2>5. ASSUME Stored(rows[i].minutes) = 0, NEW j \in 1..m, i < j
        PROVE  rows[j].minutes = 0
    <3>1. ~(i < w)
      <4>1. SUFFICES ASSUME i < w PROVE FALSE
        OBVIOUS
      <4>2. rows[i].minutes = Free(e[i])
        BY <1>5, <4>1
      <4>3. Stored(Free(e[i])) = 0
        BY <2>5, <4>2
      <4> QED
        BY <2>2, <4>3
    <3>2. w < j
      BY <1>3, <2>5, <3>1
    <3>3. QED
      BY <1>5, <3>2
  <2>6. QED
    BY <2>2, <2>3, <2>4, <2>5
<1>8. RowsFit(rows)
  BY <1>5, <1>7 DEF RowsFit
<1>9. QED
  BY <1>8 DEF rows

\* What is kept for a later proposal: lists of plans that fit, whose minutes are numbers.
ListFits(list) ==
  \E S : list \in Seq(S) /\ \A o \in S : o.plan.minutes \in Int /\ RowsFit(o.plan.rows)

LEMMA PlansFit ==
  ASSUME world \in Worlds, NEW list, AllPlans(list)
  PROVE  ListFits(list)
<1>1. PICK S : list \in Seq(S) /\ \A o \in S : IsPlan(o.plan)
  BY DEF AllPlans
<1>2. \A o \in S : o.plan.minutes \in Int /\ RowsFit(o.plan.rows)
  BY <1>1, PlansAre, PlanFits
<1>3. QED
  BY <1>1, <1>2 DEF ListFits

LEMMA TopFits ==
  ASSUME NEW list, ListFits(list), list # <<>>
  PROVE  list[1].plan.minutes \in Int /\ RowsFit(list[1].plan.rows)
<1>1. PICK S : list \in Seq(S) /\ \A o \in S : o.plan.minutes \in Int /\ RowsFit(o.plan.rows)
  BY DEF ListFits
<1>2. Len(list) \in Nat \ {0}
  BY <1>1, EmptySeq
<1>3. list[1] \in S
  BY <1>1, <1>2, ElementOfSeq
<1>4. QED
  BY <1>1, <1>3

\* What a balance has available, and what the validation reserves of it.
LEMMA StockIs ==
  ASSUME world \in Worlds, NEW m \in Materials
  PROVE  /\ PerUnit(m) \in Nat \ {0} /\ Available(m) \in Nat
         /\ Coverable(m) \in Nat /\ Coverable(m) * PerUnit(m) <= Available(m)
<1>1. /\ world.mats[m].per \in Nat \ {0}
      /\ world.mats[m].onHand \in Nat /\ world.mats[m].reserved \in 0..world.mats[m].onHand
  BY AnalysisAssumption
<1>2. PerUnit(m) \in Nat \ {0} /\ Available(m) \in Nat
  BY <1>1 DEF PerUnit, Available, Stock
<1> DEFINE a == Available(m)
           k == PerUnit(m)
<1>3. Coverable(m) = IF a <= 0 THEN 0 ELSE a \div k
  BY DEF Coverable
<1> HIDE DEF a, k
<1>4. /\ a \div k \in Int /\ a % k \in 0..(k - 1) /\ a = (a \div k) * k + (a % k)
      /\ a \in Nat /\ k \in Nat \ {0}
  <2>1. a \in Nat /\ k \in Nat \ {0}
    BY <1>2 DEF a, k
  <2>2. QED
    BY <2>1, Multiples
<1>5. a \div k >= 0
  BY <1>4
<1>6. (a \div k) * k <= a
  <2>1. (a \div k) * k \in Int
    BY <1>4
  <2>2. QED
    BY <1>4, <2>1
<1>7. Coverable(m) \in Nat /\ Coverable(m) * k <= a
  BY <1>3, <1>4, <1>5, <1>6
<1>8. QED
  BY <1>2, <1>7 DEF a, k

ReservedFits(reserved) ==
  \A m \in Materials : reserved[m] \in Int /\ reserved[m] <= Available(m) * Sam

LEMMA ReservableFits ==
  ASSUME world \in Worlds, NEW minutes \in Int
  PROVE  ReservedFits(Reservable(minutes))
<1> SUFFICES ASSUME NEW m \in Materials
             PROVE  /\ Reservable(minutes)[m] \in Int
                    /\ Reservable(minutes)[m] <= Available(m) * Sam
  BY DEF ReservedFits
<1> DEFINE d == Demand(m, minutes)
           a == Available(m) * Sam
<1>1. d \in Int /\ a \in Nat
  <2>1. Sam \in Nat /\ PerUnit(m) \in Nat /\ Available(m) \in Nat
    BY AnalysisAssumption, StockIs
  <2>2. QED
    BY <2>1 DEF Demand
<1> HIDE DEF d, a
<1>2. Min({d, a}) = IF d <= a THEN d ELSE a
  BY <1>1, MinOfTwo
<1>3. Reservable(minutes)[m] = IF m \in Known /\ Stock(m).balance THEN Min({d, a}) ELSE 0
  BY DEF Reservable, d, a
<1>4. Reservable(minutes)[m] \in Int /\ Reservable(minutes)[m] <= a
  BY <1>1, <1>2, <1>3
<1>5. QED
  BY <1>4 DEF a

LEMMA NothingFits ==
  ASSUME world \in Worlds
  PROVE  ReservedFits([m \in Materials |-> 0])
<1>1. ASSUME NEW m \in Materials PROVE 0 <= Available(m) * Sam
  <2>1. Sam \in Nat /\ Available(m) \in Nat
    BY AnalysisAssumption, StockIs
  <2>2. QED
    BY <2>1
<1>2. QED
  BY <1>1 DEF ReservedFits

-----------------------------------------------------------------------------
(* The order of the tasks, and what every answer is. *)

\* What the material agent says is coverable can be made of every material.
CoverOK ==
  Usable("rm0") => /\ result["rm0"].coverable \in Nat
                   /\ \A m \in Known : result["rm0"].coverable * PerUnit(m) <= Available(m)

BaseInv ==
  /\ world \in Worlds /\ result = [t \in Tasks |-> result[t]]
  /\ \A t \in Tasks : ~Finished(t) => result[t] = Blank
  /\ CoverOK
  /\ Finished("planning0") => Finished("rm0")
  /\ Finished("planning1") => Finished("planning0") /\ NeedsReplan
  /\ Finished("rm1") => Finished("planning0") /\ Finished(FinalPlanning)

LEMMA FixedAnswers ==
  /\ Blank.status = "PENDING" /\ Blank.actions = <<>>
  /\ Blank.reserved = [m \in Materials |-> 0]
  /\ Failed.status = "FAILED" /\ Failed.actions = <<>>
  /\ Failed.reserved = [m \in Materials |-> 0]
  /\ Readiness.status = "SUCCEEDED" /\ Readiness.actions = <<>>
  /\ Readiness.coverable = (IF Known = {} THEN world.units ELSE Min({Coverable(m) : m \in Known}))
  /\ [Blank EXCEPT !.status = "SUCCEEDED", !.risky = world.risky].status = "SUCCEEDED"
  /\ \A minutes : /\ Validation(minutes).status = "SUCCEEDED"
                  /\ Validation(minutes).reserved = Reservable(minutes)
                  /\ Validation(minutes).findings
                       = {"PLAN_MATERIAL_SHORT" : m \in {n \in Known : Short(n, minutes)}}
<1>1. /\ Blank.status = "PENDING" /\ Blank.actions = <<>>
      /\ Blank.reserved = [m \in Materials |-> 0]
  BY Zenon DEF Blank
<1>2. /\ Failed.status = "FAILED" /\ Failed.actions = <<>>
      /\ Failed.reserved = [m \in Materials |-> 0]
  BY Zenon DEF Failed, Blank
<1>3. /\ Readiness.status = "SUCCEEDED" /\ Readiness.actions = <<>>
      /\ Readiness.coverable = (IF Known = {} THEN world.units ELSE Min({Coverable(m) : m \in Known}))
  BY Zenon DEF Readiness, Blank
<1>4. [Blank EXCEPT !.status = "SUCCEEDED", !.risky = world.risky].status = "SUCCEEDED"
  BY Zenon DEF Blank
<1>5. ASSUME NEW minutes
      PROVE  /\ Validation(minutes).status = "SUCCEEDED"
             /\ Validation(minutes).reserved = Reservable(minutes)
             /\ Validation(minutes).findings
                  = {"PLAN_MATERIAL_SHORT" : m \in {n \in Known : Short(n, minutes)}}
  BY Zenon DEF Validation, Blank
<1>6. QED
  BY <1>1, <1>2, <1>3, <1>4, <1>5

LEMMA ReadinessIs ==
  ASSUME world \in Worlds
  PROVE  /\ Readiness.coverable \in Nat
         /\ \A m \in Known : Readiness.coverable * PerUnit(m) <= Available(m)
<1> DEFINE c == Readiness.coverable
           C == {Coverable(m) : m \in Known}
<1>1. c = (IF Known = {} THEN world.units ELSE Min(C))
  BY FixedAnswers, Zenon
<1>2. CASE Known = {}
  <2>1. world.units \in Nat
    BY AnalysisAssumption
  <2>2. QED
    BY <1>1, <1>2, <2>1
<1>3. CASE Known # {}
  <2>1. IsFiniteSet(Known) /\ \A m \in Known : m \in Materials
    <3>1. Known \in SUBSET Materials
      BY DEF Known
    <3>2. QED
      BY <3>1, AnalysisAssumption, FS_Subset
  <2>2. \A m \in Known : Coverable(m) \in Nat
    BY <2>1, StockIs
  <2>3. IsFiniteSet(C)
    <3>1. PICK f : f = [m \in Known |-> Coverable(m)]
      OBVIOUS
    <3>2. f \in Surjection(Known, C)
      BY <3>1 DEF Surjection
    <3> HIDE DEF C
    <3>3. QED
      BY <2>1, <3>2, FS_Surjection
  <2>4. C # {} /\ C \subseteq Int
    BY <1>3, <2>2
  <2>5. \E x \in C : \A y \in C : x <= y
    <3> HIDE DEF C
    <3>1. QED
      BY <2>3, <2>4, HasSmallest
  <2>6. c \in C /\ \A y \in C : c <= y
    <3>1. c = CHOOSE x \in C : \A y \in C : x =< y
      BY <1>1, <1>3 DEF Min
    <3> HIDE DEF c, C
    <3>2. QED
      BY <2>5, <3>1
  <2>7. c \in Nat /\ \A m \in Known : c <= Coverable(m)
    BY <2>2, <2>6
  <2>8. ASSUME NEW m \in Known
        PROVE  c * PerUnit(m) <= Available(m)
    <3>1. /\ c \in Nat /\ c <= Coverable(m) /\ Coverable(m) \in Nat
          /\ PerUnit(m) \in Nat /\ Available(m) \in Nat
          /\ Coverable(m) * PerUnit(m) <= Available(m)
      BY <2>1, <2>7, StockIs
    <3> HIDE DEF c
    <3>2. c * PerUnit(m) <= Coverable(m) * PerUnit(m)
      BY <3>1
    <3>3. c * PerUnit(m) \in Int /\ Coverable(m) * PerUnit(m) \in Int
      BY <3>1
    <3>4. QED
      BY <3>1, <3>2, <3>3
  <2>9. QED
    BY <2>7, <2>8
<1>4. QED
  BY <1>2, <1>3

\* One task answers, and nothing else changes.
TaskAnswers(t, r) ==
  /\ t \in Tasks /\ ~Finished(t) /\ r.status # "PENDING"
  /\ result' = [result EXCEPT ![t] = r]
  /\ UNCHANGED <<world, proposal, report>>

LEMMA Answered ==
  ASSUME BaseInv, NEW t, NEW r, TaskAnswers(t, r)
  PROVE  /\ result' = [u \in Tasks |-> result'[u]]
         /\ result'[t] = r /\ result[t] = Blank /\ Finished(t)'
         /\ \A u \in Tasks : u # t => result'[u] = result[u]
         /\ \A u \in Tasks : Finished(u) => u # t /\ result'[u] = result[u] /\ Finished(u)'
         /\ world' = world /\ world' \in Worlds
<1>1. result = [u \in Tasks |-> result[u]] /\ result' = [result EXCEPT ![t] = r] /\ t \in Tasks
      /\ r.status # "PENDING" /\ ~Finished(t) /\ result[t] = Blank
  BY DEF BaseInv, TaskAnswers
<1>2. result' = [u \in Tasks |-> IF u = t THEN r ELSE result[u]]
  BY <1>1
<1>3. /\ result' = [u \in Tasks |-> result'[u]] /\ result'[t] = r
      /\ \A u \in Tasks : u # t => result'[u] = result[u]
  BY <1>1, <1>2
<1>4. /\ Finished(t)' /\ \A u \in Tasks : Finished(u) => u # t /\ Finished(u)'
  BY <1>1, <1>3 DEF Finished
<1>5. QED
  BY <1>1, <1>3, <1>4 DEF TaskAnswers, BaseInv

-----------------------------------------------------------------------------
(* Comparing plans. *)

\* Plans of the same rows schedule the same minutes.
LEMMA SameRows ==
  ASSUME world \in Worlds, NEW lines, NEW t1 \in Int, NEW t2 \in Int,
         PlanEarliest(lines, t1).rows = PlanEarliest(lines, t2).rows
  PROVE  PlanEarliest(lines, t1).minutes = PlanEarliest(lines, t2).minutes
<1> DEFINE p == PlanEarliest(lines, t1)
           q == PlanEarliest(lines, t2)
           e == Eligible(lines)
<1>1. p.rows = q.rows
  OBVIOUS
<1>2. IsPlanFor(p, lines, t1) /\ IsPlanFor(q, lines, t2)
  BY EarliestIs
<1>3. PICK w \in Nat : PlanIs(p, lines, t1, w)
  BY <1>2 DEF IsPlanFor
<1>4. PICK v \in Nat : PlanIs(q, lines, t2, v)
  BY <1>2 DEF IsPlanFor
<1> HIDE DEF p, q
<1>5. RowsOK(p.rows, e, w) /\ RowsOK(p.rows, e, v) /\ Len(p.rows) <= Cardinality(Open(lines))
  BY <1>1, <1>3, <1>4 DEF PlanIs
<1> DEFINE before == Room(Prefix(e, w - 1))
\* The rows with minutes are the first ones of both.
<1>6. w = v
  <2>1. /\ w \in 0..Len(p.rows) /\ v \in 0..Len(p.rows) /\ Len(p.rows) \in Nat
        /\ w > 0 => p.rows[w].minutes > 0
        /\ v > 0 => p.rows[v].minutes > 0
        /\ w < v => p.rows[v].minutes = 0
        /\ v < w => p.rows[w].minutes = 0
    BY <1>5 DEF RowsOK
  <2>2. QED
    BY <2>1
<1>7. /\ p.minutes \in Int /\ q.minutes \in Int
      /\ w = 0 => p.minutes = 0 /\ q.minutes = 0
      /\ w > 0 => /\ p.rows[w].minutes = p.minutes - before
                  /\ p.rows[w].minutes = q.minutes - before
  BY <1>1, <1>3, <1>4, <1>6 DEF PlanIs
<1>8. w > 0 => before \in Int
  <2>1. AreOpen(e, Open(lines))
    BY EligibleAreOpen
  <2>2. Cardinality(Open(lines)) \in Nat
    BY <2>1, PrefixIs
  <2> SUFFICES ASSUME w > 0 PROVE before \in Int
    OBVIOUS
  <2>3. w \in 0..Len(p.rows) /\ Len(p.rows) \in Nat
    BY <1>5 DEF RowsOK
  <2>4. w - 1 \in 0..Cardinality(Open(lines))
    BY <1>5, <2>2, <2>3
  <2>5. Prefix(e, w - 1) \in SUBSET Open(lines)
    BY <2>1, <2>4, PrefixIs
  <2>6. Prefix(e, w - 1) \in SUBSET SnapshotSlots
    BY <2>1, <2>5 DEF AreOpen
  <2>7. QED
    BY <2>6, RoomIs
<1> HIDE DEF before
<1>9. p.minutes = q.minutes
  BY <1>7, <1>8
<1>10. QED
  BY <1>9 DEF p, q

\* No line does more than all of them.
LEMMA SingleIsShorter ==
  ASSUME world \in Worlds
  PROVE  /\ SingleOption.plan.minutes \in Int /\ FullOption.plan.minutes \in Int
         /\ SingleOption.plan.minutes <= FullOption.plan.minutes
<1> DEFINE p == PlanEarliest({BestLine}, Required)
           q == PlanEarliest(Compatible, Required)
<1>1. Required \in Int
  BY RequiredIs
<1>2. IsPlanFor(p, {BestLine}, Required) /\ IsPlanFor(q, Compatible, Required)
  BY <1>1, EarliestIs
<1>3. SingleOption.plan = p /\ FullOption.plan = q
  BY DEF SingleOption, FullOption, Option
<1>4. Open({BestLine}) \in SUBSET Open(Compatible) /\ Open(Compatible) \in SUBSET SnapshotSlots
  BY DEF Open, SnapshotSlots
<1>5. Open({BestLine}) \in SUBSET SnapshotSlots
  BY <1>4
<1>6. /\ Room(Open({BestLine})) <= Room(Open(Compatible))
      /\ Room(Open({BestLine})) \in Int /\ Room(Open(Compatible)) \in Int
  BY <1>4, <1>5, RoomIs
<1> HIDE DEF p, q
<1>7. p.minutes \in Int /\ q.minutes \in Int /\ p.minutes <= q.minutes
  <2>1. PICK w \in Nat : PlanIs(p, {BestLine}, Required, w)
    BY <1>2 DEF IsPlanFor
  <2>2. PICK v \in Nat : PlanIs(q, Compatible, Required, v)
    BY <1>2 DEF IsPlanFor
  <2>3. QED
    BY <1>1, <1>6, <2>1, <2>2 DEF PlanIs
<1>8. QED
  BY <1>3, <1>7

\* At the replan the first option needs no more than is coverable.
LEMMA RevisedIsCovered ==
  ASSUME world \in Worlds, NEW cov \in Nat, NEW ranked,
         RankedAre(ranked, Options(cov), TRUE), ranked # <<>>
  PROVE  ranked[1].plan.minutes <= cov * Sam
<1> DEFINE S == Options(cov)
           n == Cardinality(S)
           L == LimitedOption(cov)
<1>1. /\ FullOption \in S
      /\ L \in S \/ L.plan.rows = FullOption.plan.rows
      /\ \A o \in S : o = FullOption \/ o = L \/ o = SingleOption
      /\ \A o \in S : o.code = "MATERIAL_LIMITED" => o = L
  BY OptionsAre
<1>2. /\ n \in Nat /\ ranked \in [1..n -> S]
      /\ \A o \in S : \E i \in 1..n : ranked[i] = o
      /\ \A i, j \in 1..n : (i < j /\ ranked[j].code = "MATERIAL_LIMITED")
                              => ranked[i].code = "MATERIAL_LIMITED"
  BY DEF RankedAre
<1>3. /\ Required \in Int /\ Target(cov) \in Int /\ Target(cov) <= cov * Sam
      /\ cov * Sam \in Nat
  <2>1. Sam \in Nat
    BY AnalysisAssumption
  <2>2. cov * Sam \in Nat
    BY <2>1
  <2>3. cov \in Int /\ cov # -1
    OBVIOUS
  <2>4. Required \in Nat /\ Target(cov) \in Int /\ Target(cov) <= cov * Sam
    BY <2>3, RequiredIs
  <2>5. QED
    BY <2>2, <2>4
<1>4. /\ L.code = "MATERIAL_LIMITED" /\ L.plan = PlanEarliest(Compatible, Target(cov))
      /\ FullOption.plan = PlanEarliest(Compatible, Required)
  BY DEF LimitedOption, FullOption, Option
<1>5. L.plan.minutes \in Int /\ L.plan.minutes <= cov * Sam
  <2>1. IsPlanFor(L.plan, Compatible, Target(cov))
    BY <1>3, <1>4, EarliestIs
  <2>2. PICK w \in Nat : PlanIs(L.plan, Compatible, Target(cov), w)
    BY <2>1 DEF IsPlanFor
  <2>3. QED
    BY <1>3, <2>2 DEF PlanIs
<1> HIDE DEF S, n, L
<1>6. CASE L \in S
  <2>1. PICK i \in 1..n : ranked[i] = L
    BY <1>2, <1>6
  <2>2. ranked[1].code = "MATERIAL_LIMITED" /\ 1 \in 1..n
    BY <1>2, <1>4, <2>1
  <2>3. ranked[1] = L
    BY <1>1, <1>2, <2>2
  <2>4. QED
    BY <1>5, <2>3
<1>7. CASE L \notin S
  <2>1. FullOption.plan.minutes = L.plan.minutes
    BY <1>1, <1>3, <1>4, <1>7, SameRows
  <2>2. 1 \in 1..n
    BY <1>1, <1>2
  <2>3. ranked[1] = FullOption \/ ranked[1] = SingleOption
    BY <1>1, <1>2, <1>7, <2>2
  <2>4. /\ SingleOption.plan.minutes \in Int /\ FullOption.plan.minutes \in Int
        /\ SingleOption.plan.minutes <= FullOption.plan.minutes
    BY SingleIsShorter
  <2>5. QED
    BY <1>3, <1>5, <2>1, <2>3, <2>4
<1>8. QED
  BY <1>6, <1>7

-----------------------------------------------------------------------------
(* The steps, and the order of the tasks. *)

Plans == {"planning0", "planning1"}

\* What a step of the analysis does.
StepIs ==
  \/ UNCHANGED vars
  \/ \E r : TaskAnswers("rm0", r) /\ (r = Readiness \/ r = Failed)
  \/ \E r : TaskAnswers("ie0", r)
  \/ \E r : /\ TaskAnswers("planning0", r) /\ Finished("rm0")
            /\ AnswerIs(r, PlanningActions(FALSE))
  \/ \E r : /\ TaskAnswers("planning1", r) /\ Finished("planning0") /\ NeedsReplan
            /\ AnswerIs(r, PlanningActions(TRUE))
  \/ \E r : /\ TaskAnswers("rm1", r) /\ Finished("planning0") /\ Finished(FinalPlanning)
            /\ TopMinutes(FinalPlanning) > 0
            /\ r = Validation(TopMinutes(FinalPlanning)) \/ r = Failed
  \/ Finalize

LEMMA StepsAre ==
  ASSUME BaseInv, [Next]_vars
  PROVE  StepIs
<1>1. world \in Worlds /\ CoverableIsInt
  BY DEF BaseInv, CoverOK, CoverableIsInt
<1>2. /\ Readiness.status # "PENDING" /\ Failed.status # "PENDING"
      /\ [Blank EXCEPT !.status = "SUCCEEDED", !.risky = world.risky].status # "PENDING"
      /\ \A minutes : Validation(minutes).status # "PENDING"
  BY FixedAnswers
<1>3. CASE AssessMaterials
  <2>1. PICK r \in {Readiness, Failed} : result' = [result EXCEPT !["rm0"] = r]
    BY <1>3 DEF AssessMaterials, Answer
  <2>2. TaskAnswers("rm0", r)
    BY <1>2, <1>3, <2>1 DEF AssessMaterials, Answer, TaskAnswers, Tasks
  <2>3. QED
    BY <2>1, <2>2 DEF StepIs
<1>4. CASE AssessLines
  <2>1. PICK r \in {[Blank EXCEPT !.status = "SUCCEEDED", !.risky = world.risky], Failed} :
          result' = [result EXCEPT !["ie0"] = r]
    BY <1>4 DEF AssessLines, Answer
  <2>2. r.status # "PENDING"
    BY <1>2, <2>1
  <2>3. TaskAnswers("ie0", r)
    BY <1>4, <2>1, <2>2 DEF AssessLines, Answer, TaskAnswers, Tasks
  <2>4. QED
    BY <2>3 DEF StepIs
<1>5. CASE Propose
  <2>1. PICK r \in PlanningResults(FALSE) : result' = [result EXCEPT !["planning0"] = r]
    BY <1>5 DEF Propose, Answer
  <2>2. AnswerIs(r, PlanningActions(FALSE))
    BY <1>1, AnswersAre
  <2>3. TaskAnswers("planning0", r) /\ Finished("rm0")
    BY <1>5, <2>1, <2>2 DEF Propose, Answer, TaskAnswers, Tasks, AnswerIs
  <2>4. QED
    BY <2>2, <2>3 DEF StepIs
<1>6. CASE Revise
  <2>1. PICK r \in PlanningResults(TRUE) : result' = [result EXCEPT !["planning1"] = r]
    BY <1>6 DEF Revise, Answer
  <2>2. AnswerIs(r, PlanningActions(TRUE))
    BY <1>1, AnswersAre
  <2>3. TaskAnswers("planning1", r) /\ Finished("planning0") /\ NeedsReplan
    BY <1>6, <2>1, <2>2 DEF Revise, Answer, TaskAnswers, Tasks, AnswerIs
  <2>4. QED
    BY <2>2, <2>3 DEF StepIs
<1>7. CASE Validate
  <2>1. PICK r \in {Validation(TopMinutes(FinalPlanning)), Failed} :
          result' = [result EXCEPT !["rm1"] = r]
    BY <1>7 DEF Validate, Answer
  <2>2. r.status # "PENDING"
    BY <1>2, <2>1
  <2>3. /\ TaskAnswers("rm1", r) /\ Finished("planning0") /\ Finished(FinalPlanning)
        /\ TopMinutes(FinalPlanning) > 0
    BY <1>7, <2>1, <2>2 DEF Validate, Answer, TaskAnswers, Tasks
  <2>4. QED
    BY <2>1, <2>3 DEF StepIs
<1>8. CASE Finalize
  BY <1>8 DEF StepIs
<1>9. CASE UNCHANGED vars
  BY <1>9 DEF StepIs
<1>10. QED
  BY <1>3, <1>4, <1>5, <1>6, <1>7, <1>8, <1>9 DEF Next

\* What the decisions of the orchestrator read does not change any more.
LEMMA DecisionsStand ==
  ASSUME BaseInv, NEW t, NEW r, TaskAnswers(t, r)
  PROVE  /\ Finished("planning0") /\ Finished("rm0") =>
              /\ NeedsReplan' = NeedsReplan /\ FinalPlanning' = FinalPlanning
              /\ Usable("rm0")' = Usable("rm0")
              /\ Finished(FinalPlanning) =>
                   /\ Finished(FinalPlanning)'
                   /\ TopMinutes(FinalPlanning)' = TopMinutes(FinalPlanning)
                   /\ result'[FinalPlanning'] = result[FinalPlanning]
         /\ \A u \in Tasks : Finished(u) => /\ Usable(u)' = Usable(u)
                                            /\ TopMinutes(u)' = TopMinutes(u)
<1>1. /\ \A u \in Tasks : Finished(u) => result'[u] = result[u] /\ Finished(u)'
      /\ world' = world
  BY Answered
<1>2. \A u \in Tasks : Finished(u) => /\ Usable(u)' = Usable(u)
                                      /\ TopMinutes(u)' = TopMinutes(u)
  BY <1>1 DEF Usable, TopMinutes
<1>3. ASSUME Finished("planning0"), Finished("rm0")
      PROVE  /\ NeedsReplan' = NeedsReplan /\ FinalPlanning' = FinalPlanning
             /\ Usable("rm0")' = Usable("rm0")
             /\ Finished(FinalPlanning) =>
                  /\ Finished(FinalPlanning)'
                  /\ TopMinutes(FinalPlanning)' = TopMinutes(FinalPlanning)
                  /\ result'[FinalPlanning'] = result[FinalPlanning]
  <2>1. result'["planning0"] = result["planning0"] /\ result'["rm0"] = result["rm0"]
    BY <1>1, <1>3 DEF Tasks
  <2>2. NeedsReplan' = NeedsReplan /\ Usable("rm0")' = Usable("rm0")
    BY <2>1 DEF NeedsReplan, Usable, TopMinutes
  <2>3. FinalPlanning' = FinalPlanning /\ FinalPlanning \in Tasks
    BY <2>2 DEF FinalPlanning, Tasks
  <2>4. QED
    BY <1>1, <2>2, <2>3 DEF Finished, TopMinutes, Usable
<1>4. QED
  BY <1>2, <1>3

LEMMA CoverStands ==
  ASSUME CoverOK, world' = world, result'["rm0"] = result["rm0"]
  PROVE  CoverOK'
BY DEF CoverOK, Usable, Known, Stock, PerUnit, Available

LEMMA BaseStarts == Init => BaseInv
<1> SUFFICES ASSUME Init PROVE BaseInv
  OBVIOUS
<1>1. world \in Worlds /\ result = [t \in Tasks |-> Blank]
  BY DEF Init
<1>2. \A t \in Tasks : result[t] = Blank /\ ~Finished(t) /\ ~Usable(t)
  BY <1>1, FixedAnswers DEF Finished, Usable
<1>3. QED
  BY <1>1, <1>2 DEF BaseInv, CoverOK, Tasks

LEMMA BaseKeeps ==
  ASSUME BaseInv, [Next]_vars
  PROVE  BaseInv'
<1>1. /\ world \in Worlds /\ result = [t \in Tasks |-> result[t]]
      /\ \A t \in Tasks : ~Finished(t) => result[t] = Blank
      /\ CoverOK
      /\ Finished("planning0") => Finished("rm0")
      /\ Finished("planning1") => Finished("planning0") /\ NeedsReplan
      /\ Finished("rm1") => Finished("planning0") /\ Finished(FinalPlanning)
  BY DEF BaseInv
<1>2. {"rm0", "ie0", "planning0", "planning1", "rm1"} = Tasks /\ FinalPlanning \in Tasks
  BY DEF Tasks, FinalPlanning
<1>3. ASSUME world' = world, result' = result PROVE BaseInv'
  BY <1>1, <1>3, CoverStands DEF BaseInv, Finished, NeedsReplan, FinalPlanning, Usable, TopMinutes
<1>4. ASSUME NEW t, NEW r, TaskAnswers(t, r),
             t = "planning0" => Finished("rm0"),
             t = "planning1" => Finished("planning0") /\ NeedsReplan,
             t = "rm1" => Finished("planning0") /\ Finished(FinalPlanning),
             t = "rm0" => CoverOK'
      PROVE  BaseInv'
  <2>1. /\ world' \in Worlds /\ world' = world /\ result' = [u \in Tasks |-> result'[u]]
        /\ Finished(t)' /\ t \in Tasks
        /\ \A u \in Tasks : u # t => result'[u] = result[u]
        /\ \A u \in Tasks : Finished(u) => Finished(u)'
    BY <1>4, Answered DEF TaskAnswers
  <2>2. \A u \in Tasks : ~Finished(u)' => result'[u] = Blank
    BY <1>1, <2>1
  <2>3. CoverOK'
    BY <1>1, <1>2, <1>4, <2>1, CoverStands
  <2>4. Finished("planning0")' => Finished("rm0")'
    BY <1>1, <1>2, <1>4, <2>1 DEF Finished
  <2>5. Finished("planning1")' => Finished("planning0") /\ NeedsReplan
    BY <1>1, <1>2, <1>4, <2>1 DEF Finished
  <2>6. Finished("rm1")' => Finished("planning0") /\ Finished(FinalPlanning)
    BY <1>1, <1>2, <1>4, <2>1 DEF Finished
  <2>7. Finished("planning1")' => Finished("planning0")' /\ NeedsReplan'
    BY <1>1, <1>2, <1>4, <2>1, <2>5, DecisionsStand
  <2>8. Finished("rm1")' => Finished("planning0")' /\ Finished(FinalPlanning)'
    BY <1>1, <1>2, <1>4, <2>1, <2>6, DecisionsStand
  <2>9. QED
    BY <2>1, <2>2, <2>3, <2>4, <2>7, <2>8 DEF BaseInv
<1>5. CASE UNCHANGED vars \/ Finalize
  BY <1>3, <1>5 DEF vars, Finalize
<1>6. CASE \E r : TaskAnswers("rm0", r) /\ (r = Readiness \/ r = Failed)
  <2>1. PICK r : TaskAnswers("rm0", r) /\ (r = Readiness \/ r = Failed)
    BY <1>6
  <2>2. result'["rm0"] = r /\ world' = world
    BY <2>1, Answered
  <2>3. CoverOK'
    <3>1. r = Failed => ~Usable("rm0")'
      BY <2>2, FixedAnswers DEF Usable
    <3>2. ASSUME r = Readiness
          PROVE  /\ r.coverable \in Nat
                 /\ \A m \in Known : r.coverable * PerUnit(m) <= Available(m)
      BY <1>1, <3>2, ReadinessIs
    <3>3. QED
      BY <2>1, <2>2, <3>1, <3>2 DEF CoverOK, Known, Stock, PerUnit, Available
  <2>4. QED
    BY <1>4, <2>1, <2>3
<1>7. QED
  <2>1. StepIs
    BY StepsAre
  <2>2. QED
    BY <1>4, <1>5, <1>6, <2>1, Zenon DEF StepIs

-----------------------------------------------------------------------------
(* The proposal fits the records it was computed from. *)

FitsInv ==
  /\ \A t \in Plans : ListFits(result[t].actions)
  /\ ReservedFits(result["rm1"].reserved)
  /\ proposal.exists => RowsFit(proposal.rows) /\ ReservedFits(proposal.reserved)

LEMMA FitsStarts == Init => FitsInv
<1> SUFFICES ASSUME Init PROVE FitsInv
  OBVIOUS
<1>1. world \in Worlds /\ result = [t \in Tasks |-> Blank] /\ proposal = NoProposal
  BY DEF Init
<1>2. \A t \in Tasks : result[t].actions = <<>> /\ result[t].reserved = [m \in Materials |-> 0]
  BY <1>1, FixedAnswers
<1>3. ListFits(<<>>)
  BY <1>1, NoPlans, PlansFit
<1>4. ReservedFits([m \in Materials |-> 0])
  BY <1>1, NothingFits
<1>5. ~proposal.exists
  BY <1>1 DEF NoProposal
<1>6. QED
  BY <1>2, <1>3, <1>4, <1>5 DEF FitsInv, Plans, Tasks

LEMMA TopIsInt ==
  ASSUME FitsInv, NEW t \in Plans
  PROVE  /\ TopMinutes(t) \in Int
         /\ TopMinutes(t) > 0 => RowsFit(result[t].actions[1].plan.rows)
<1>1. ListFits(result[t].actions)
  BY DEF FitsInv
<1>2. QED
  BY <1>1, TopFits DEF TopMinutes

LEMMA FitsKeeps ==
  ASSUME BaseInv, FitsInv, [Next]_vars
  PROVE  FitsInv'
<1>1. /\ \A t \in Plans : ListFits(result[t].actions)
      /\ ReservedFits(result["rm1"].reserved)
      /\ proposal.exists => RowsFit(proposal.rows) /\ ReservedFits(proposal.reserved)
      /\ world \in Worlds
  BY DEF FitsInv, BaseInv
<1>2. FinalPlanning \in Plans /\ Plans \subseteq Tasks /\ "rm1" \in Tasks /\ "rm1" \notin Plans
  BY DEF FinalPlanning, Plans, Tasks
<1>3. ASSUME world' = world, proposal' = proposal,
             \A t \in Plans : ListFits(result'[t].actions),
             ReservedFits(result'["rm1"].reserved)
      PROVE  FitsInv'
  BY <1>1, <1>3 DEF FitsInv, ReservedFits, Available, Stock
<1>4. CASE UNCHANGED vars
  <2>1. world' = world /\ proposal' = proposal /\ result' = result
    BY <1>4 DEF vars
  <2>2. QED
    BY <1>1, <1>3, <2>1
<1>5. ASSUME NEW t, NEW r, TaskAnswers(t, r),
             t \in Plans => ListFits(r.actions),
             t = "rm1" => ReservedFits(r.reserved)
      PROVE  FitsInv'
  <2>1. /\ result'[t] = r /\ world' = world /\ proposal' = proposal
        /\ \A u \in Tasks : u # t => result'[u] = result[u]
    BY <1>5, Answered DEF TaskAnswers
  <2>2. \A u \in Plans : ListFits(result'[u].actions)
    BY <1>1, <1>2, <1>5, <2>1
  <2>3. ReservedFits(result'["rm1"].reserved)
    BY <1>1, <1>2, <1>5, <2>1
  <2>4. QED
    BY <1>3, <2>1, <2>2, <2>3
<1>6. ASSUME NEW t, NEW r, TaskAnswers(t, r), NEW revise, AnswerIs(r, PlanningActions(revise)),
             t \in Plans
      PROVE  FitsInv'
  <2>1. ListFits(r.actions)
    BY <1>1, <1>6, PlansFit DEF AnswerIs
  <2>2. QED
    BY <1>2, <1>5, <1>6, <2>1
<1>7. ASSUME NEW r, TaskAnswers("rm1", r),
             r = Validation(TopMinutes(FinalPlanning)) \/ r = Failed
      PROVE  FitsInv'
  <2>1. TopMinutes(FinalPlanning) \in Int
    BY <1>2, TopIsInt
  <2>2. ReservedFits(Reservable(TopMinutes(FinalPlanning)))
    BY <1>1, <2>1, ReservableFits
  <2>3. ReservedFits([m \in Materials |-> 0])
    BY <1>1, NothingFits
  <2>4. ReservedFits(r.reserved)
    BY <1>7, <2>2, <2>3, FixedAnswers
  <2>5. QED
    BY <1>2, <1>5, <1>7, <2>4
<1>8. CASE Finalize
  <2>1. world' = world /\ result' = result
    BY <1>8 DEF Finalize
  <2>2. CASE TopMinutes(FinalPlanning) > 0
    <3>1. proposal' = [rows |-> result[FinalPlanning].actions[1].plan.rows,
                       reserved |-> result["rm1"].reserved, exists |-> TRUE]
      BY <1>8, <2>2 DEF Finalize
    <3>2. RowsFit(proposal'.rows) /\ proposal'.reserved = result["rm1"].reserved
      BY <1>2, <2>2, <3>1, TopIsInt
    <3>3. QED
      BY <1>1, <2>1, <3>2 DEF FitsInv, ReservedFits, Available, Stock
  <2>3. CASE ~(TopMinutes(FinalPlanning) > 0)
    <3>1. proposal' = NoProposal /\ ~proposal'.exists
      BY <1>8, <2>3 DEF Finalize, NoProposal
    <3>2. QED
      BY <1>1, <2>1, <3>1 DEF FitsInv, ReservedFits, Available, Stock
  <2>4. QED
    BY <2>2, <2>3
<1>9. QED
  <2>1. StepIs
    BY StepsAre
  <2>2. ASSUME NEW r, TaskAnswers("rm0", r) \/ TaskAnswers("ie0", r) PROVE FitsInv'
    BY <1>5, <2>2 DEF Plans
  <2>3. ASSUME NEW r, TaskAnswers("planning0", r), AnswerIs(r, PlanningActions(FALSE)) PROVE FitsInv'
    BY <1>6, <2>3 DEF Plans
  <2>4. ASSUME NEW r, TaskAnswers("planning1", r), AnswerIs(r, PlanningActions(TRUE)) PROVE FitsInv'
    BY <1>6, <2>4 DEF Plans
  <2>5. QED
    BY <1>4, <1>7, <1>8, <2>1, <2>2, <2>3, <2>4, Zenon DEF StepIs

-----------------------------------------------------------------------------
(* The plan that is validated can be made of the material there is. *)

LEMMA CoveredIsReserved ==
  ASSUME world \in Worlds, NEW cov \in Nat, NEW minutes \in Int, minutes > 0,
         minutes <= cov * Sam,
         \A m \in Known : cov * PerUnit(m) <= Available(m)
  PROVE  \A m \in Known : /\ ~Short(m, minutes)
                          /\ Reservable(minutes)[m] = Demand(m, minutes)
<1> SUFFICES ASSUME NEW m \in Known
             PROVE  ~Short(m, minutes) /\ Reservable(minutes)[m] = Demand(m, minutes)
  OBVIOUS
<1> DEFINE p == PerUnit(m)
           a == Available(m)
<1>1. m \in Materials
  BY DEF Known
<1>2. p \in Nat \ {0} /\ a \in Nat /\ Sam \in Nat \ {0} /\ cov * p <= a
  BY <1>1, StockIs, AnalysisAssumption
<1>3. Demand(m, minutes) = minutes * p
  BY DEF Demand
<1>4. ~Stock(m).balance => a = 0
  BY DEF Available
<1> HIDE DEF p, a
<1>5. minutes * p <= a * Sam /\ minutes * p \in Int /\ a * Sam \in Int
  <2>1. minutes * p <= (cov * Sam) * p
    BY <1>2
  <2>2. (cov * Sam) * p = (cov * p) * Sam
    BY <1>2
  <2>3. (cov * p) * Sam <= a * Sam
    BY <1>2
  <2>4. minutes * p \in Int /\ (cov * Sam) * p \in Int /\ (cov * p) * Sam \in Int /\ a * Sam \in Int
    BY <1>2
  <2>5. QED
    BY <2>1, <2>2, <2>3, <2>4
<1>6. Stock(m).balance
  <2>1. SUFFICES ASSUME a = 0 PROVE FALSE
    BY <1>4
  <2>2. cov * p <= 0
    BY <1>2, <2>1
  <2>3. cov = 0
    BY <1>2, <2>2
  <2>4. cov * Sam = 0
    BY <1>2, <2>3
  <2>5. QED
    BY <2>4
<1>7. ~Short(m, minutes)
  BY <1>3, <1>5 DEF Short, a
<1>8. Reservable(minutes)[m] = Min({minutes * p, a * Sam})
  BY <1>1, <1>3, <1>6 DEF Reservable, a
<1>9. Min({minutes * p, a * Sam}) = minutes * p
  BY <1>5, MinOfTwo
<1>10. QED
  BY <1>3, <1>7, <1>8, <1>9

CoveredInv ==
  /\ (Usable("planning1") /\ Usable("rm0") /\ ~result["planning1"].chosen) =>
        TopMinutes("planning1") <= result["rm0"].coverable * Sam
  /\ FinalPlanIsCovered

LEMMA CoveredStarts == Init => CoveredInv
<1> SUFFICES ASSUME Init PROVE CoveredInv
  OBVIOUS
<1>1. result = [t \in Tasks |-> Blank]
  BY DEF Init
<1>2. \A t \in Tasks : ~Finished(t) /\ ~Usable(t)
  BY <1>1, FixedAnswers DEF Finished, Usable
<1>3. QED
  BY <1>2 DEF CoveredInv, FinalPlanIsCovered, Tasks

\* The revised plan, when the planning agent answers.
LEMMA RevisionIsCovered ==
  ASSUME BaseInv, NEW r, TaskAnswers("planning1", r), AnswerIs(r, PlanningActions(TRUE))
  PROVE  (Usable("planning1")' /\ Usable("rm0")' /\ ~result'["planning1"].chosen) =>
            TopMinutes("planning1")' <= result'["rm0"].coverable * Sam
<1> SUFFICES ASSUME Usable("planning1")', Usable("rm0")', ~result'["planning1"].chosen
             PROVE  TopMinutes("planning1")' <= result'["rm0"].coverable * Sam
  OBVIOUS
<1>1. result'["planning1"] = r /\ result'["rm0"] = result["rm0"]
  BY Answered DEF Tasks
<1>2. Usable("rm0") /\ result["rm0"].coverable \in Nat /\ world \in Worlds
      /\ CoverableIsInt /\ Cov = result["rm0"].coverable
  BY <1>1 DEF Usable, BaseInv, CoverOK, CoverableIsInt, Cov
<1>3. r.actions = PlanningActions(TRUE)
  BY <1>1 DEF AnswerIs, Usable
<1>4. TopMinutes("planning1")' = IF r.actions # <<>> THEN r.actions[1].plan.minutes ELSE 0
  BY <1>1 DEF TopMinutes, Usable
<1>5. CASE r.actions = <<>>
  <2>1. 0 <= result["rm0"].coverable * Sam
    BY <1>2, AnalysisAssumption
  <2>2. QED
    BY <1>1, <1>4, <1>5, <2>1
<1>6. CASE r.actions # <<>>
  <2>1. RankedAre(r.actions, Options(result["rm0"].coverable), TRUE)
    BY <1>2, <1>3, <1>6, ActionsAre
  <2>2. r.actions[1].plan.minutes <= result["rm0"].coverable * Sam
    BY <1>2, <1>6, <2>1, RevisedIsCovered
  <2>3. QED
    BY <1>1, <1>4, <1>6, <2>2
<1>7. QED
  BY <1>5, <1>6

\* The validation of a plan that is covered.
LEMMA ValidationIsCovered ==
  ASSUME BaseInv, FitsInv, CoveredInv, NEW r, TaskAnswers("rm1", r),
         Finished("planning0"), Finished(FinalPlanning), TopMinutes(FinalPlanning) > 0,
         r = Validation(TopMinutes(FinalPlanning)) \/ r = Failed
  PROVE  FinalPlanIsCovered'
<1> SUFFICES ASSUME (Finished("rm1") /\ result["rm1"].status # "FAILED"
                       /\ Usable("rm0") /\ ~result[FinalPlanning].chosen)'
             PROVE  /\ result'["rm1"].findings = {}
                    /\ \A m \in Known' : result'["rm1"].reserved[m]
                                           = Demand(m, TopMinutes(FinalPlanning))'
  BY DEF FinalPlanIsCovered
<1> DEFINE minutes == TopMinutes(FinalPlanning)
           cov == result["rm0"].coverable
<1>1. Finished("rm0") /\ world \in Worlds /\ CoverOK
  BY DEF BaseInv
<1>2. /\ result'["rm1"] = r /\ world' = world /\ result'["rm0"] = result["rm0"]
      /\ FinalPlanning' = FinalPlanning /\ Usable("rm0")
      /\ TopMinutes(FinalPlanning)' = minutes
      /\ result'[FinalPlanning'] = result[FinalPlanning]
  BY <1>1, Answered, DecisionsStand DEF Tasks
<1>3. cov \in Nat /\ \A m \in Known : cov * PerUnit(m) <= Available(m)
  BY <1>1, <1>2 DEF CoverOK
<1>4. r = Validation(minutes)
  BY <1>2, FixedAnswers
<1>5. FinalPlanning \in Plans /\ minutes \in Int
  BY TopIsInt DEF FinalPlanning, Plans
<1>6. ~result[FinalPlanning].chosen
  BY <1>2
<1>7. minutes <= cov * Sam
  <2>1. CASE NeedsReplan
    <3>1. FinalPlanning = "planning1"
      BY <2>1 DEF FinalPlanning
    <3>2. Usable("planning1")
      BY <3>1 DEF TopMinutes
    <3>3. QED
      BY <1>2, <1>6, <3>1, <3>2 DEF CoveredInv
  <2>2. CASE ~NeedsReplan
    <3>1. FinalPlanning = "planning0"
      BY <2>2 DEF FinalPlanning
    <3>2. Usable("planning0") /\ result["planning0"].actions # <<>>
      BY <3>1 DEF TopMinutes
    <3>3. ~(minutes > cov * Sam)
      BY <1>2, <2>2, <3>1, <3>2 DEF NeedsReplan
    <3>4. cov * Sam \in Int
      BY <1>3, AnalysisAssumption
    <3> HIDE DEF minutes, cov
    <3>5. QED
      BY <1>5, <3>3, <3>4
  <2>3. QED
    BY <2>1, <2>2
<1>8. \A m \in Known : ~Short(m, minutes) /\ Reservable(minutes)[m] = Demand(m, minutes)
  <2>1. minutes > 0
    OBVIOUS
  <2> HIDE DEF minutes, cov
  <2>2. QED
    BY <1>1, <1>3, <1>5, <1>7, <2>1, CoveredIsReserved
<1>9. r.findings = {} /\ r.reserved = Reservable(minutes)
  <2>1. /\ r.findings = {"PLAN_MATERIAL_SHORT" : m \in {n \in Known : Short(n, minutes)}}
        /\ r.reserved = Reservable(minutes)
    BY <1>4, FixedAnswers
  <2> HIDE DEF minutes
  <2>2. {n \in Known : Short(n, minutes)} = {}
    BY <1>8
  <2>3. QED
    BY <2>1, <2>2
<1>10. Known' = Known /\ \A m : Demand(m, TopMinutes(FinalPlanning))' = Demand(m, minutes)
  BY <1>2 DEF Known, Stock, Demand, PerUnit
<1>11. QED
  BY <1>2, <1>8, <1>9, <1>10

LEMMA CoveredKeeps ==
  ASSUME BaseInv, FitsInv, CoveredInv, [Next]_vars
  PROVE  CoveredInv'
<1> DEFINE Revised == (Usable("planning1") /\ Usable("rm0") /\ ~result["planning1"].chosen) =>
                         TopMinutes("planning1") <= result["rm0"].coverable * Sam
<1>1. /\ Finished("planning0") => Finished("rm0")
      /\ Finished("planning1") => Finished("planning0") /\ NeedsReplan
      /\ Finished("rm1") => Finished("planning0") /\ Finished(FinalPlanning)
  BY DEF BaseInv
<1>2. Revised /\ FinalPlanIsCovered
  BY DEF CoveredInv
<1>3. {"rm0", "ie0", "planning0", "planning1", "rm1"} = Tasks
  BY DEF Tasks
<1>4. ASSUME world' = world, result' = result PROVE CoveredInv'
  BY <1>2, <1>4 DEF CoveredInv, FinalPlanIsCovered, Finished, Usable, TopMinutes, NeedsReplan,
     FinalPlanning, Known, Stock, Demand, PerUnit
<1>5. CASE UNCHANGED vars \/ Finalize
  BY <1>4, <1>5 DEF vars, Finalize
<1>6. ASSUME NEW t, NEW r, TaskAnswers(t, r), t # "planning1" PROVE Revised'
  <2>1. /\ result'["planning1"] = result["planning1"]
        /\ \A u \in Tasks : Finished(u) => result'[u] = result[u]
    BY <1>3, <1>6, Answered
  <2>2. SUFFICES ASSUME Usable("planning1")' PROVE Revised'
    OBVIOUS
  <2>3. Finished("planning1")
    BY <2>1, <2>2 DEF Usable, Finished
  <2>4. result'["rm0"] = result["rm0"]
    BY <1>1, <1>3, <2>1, <2>3
  <2>5. QED
    BY <1>2, <2>1, <2>4 DEF Usable, TopMinutes
<1>7. ASSUME NEW t, NEW r, TaskAnswers(t, r), t # "rm1" PROVE FinalPlanIsCovered'
  <2>1. result'["rm1"] = result["rm1"] /\ world' = world
    BY <1>3, <1>7, Answered
  <2>2. SUFFICES ASSUME Finished("rm1")' PROVE FinalPlanIsCovered'
    BY DEF FinalPlanIsCovered
  <2>3. Finished("rm1")
    BY <2>1, <2>2 DEF Finished
  <2>4. /\ FinalPlanning' = FinalPlanning /\ Usable("rm0")' = Usable("rm0")
        /\ TopMinutes(FinalPlanning)' = TopMinutes(FinalPlanning)
        /\ result'[FinalPlanning'] = result[FinalPlanning]
    BY <1>1, <1>7, <2>3, DecisionsStand
  <2>5. Known' = Known /\ \A m : Demand(m, TopMinutes(FinalPlanning))'
                                   = Demand(m, TopMinutes(FinalPlanning))
    BY <2>1, <2>4 DEF Known, Stock, Demand, PerUnit
  <2>6. QED
    BY <1>2, <2>1, <2>3, <2>4, <2>5 DEF FinalPlanIsCovered
<1>8. ASSUME NEW r, TaskAnswers("rm0", r) \/ TaskAnswers("ie0", r) \/ TaskAnswers("planning0", r)
      PROVE  CoveredInv'
  BY <1>6, <1>7, <1>8 DEF CoveredInv
<1>9. ASSUME NEW r, TaskAnswers("planning1", r), AnswerIs(r, PlanningActions(TRUE))
      PROVE  CoveredInv'
  BY <1>7, <1>9, RevisionIsCovered DEF CoveredInv
<1>10. ASSUME NEW r, TaskAnswers("rm1", r), Finished("planning0"), Finished(FinalPlanning),
              TopMinutes(FinalPlanning) > 0,
              r = Validation(TopMinutes(FinalPlanning)) \/ r = Failed
       PROVE  CoveredInv'
  BY <1>6, <1>10, ValidationIsCovered DEF CoveredInv
<1>11. QED
  <2>1. StepIs
    BY StepsAre
  <2>2. QED
    BY <1>5, <1>8, <1>9, <1>10, <2>1, Zenon DEF StepIs

-----------------------------------------------------------------------------
(* The greedy plan is the best assignment. *)

Total(a) == MapThenSumSet(LAMBDA s : a[s], DOMAIN a)
Days(a) == {s.day : s \in {r \in DOMAIN a : a[r] > 0}}

LEMMA TotalIs ==
  ASSUME NEW a
  PROVE  Total(a) = SumFunctionOnSet(a, DOMAIN a)
BY DEF Total, MapThenSumSet, SumFunctionOnSet, FoldFunctionOnSet

\* An assignment has minutes in open slots only, and no more than is free.
LEMMA AssignmentFits ==
  ASSUME world \in Worlds, NEW a \in Assignments,
         \A s \in DOMAIN a : a[s] <= Free(s),
         NEW T \in SUBSET SnapshotSlots,
         \A s \in Open(Compatible) : a[s] > 0 => s \in T
  PROVE  Total(a) \in Int /\ Total(a) <= Room(T)
<1>1. IsFiniteSet(SnapshotSlots) /\ DOMAIN a = SnapshotSlots /\ Required \in Nat
      /\ SnapshotSlots \in SUBSET SnapshotSlots
  BY SlotsAre, RequiredIs DEF Assignments
<1>2. \A s \in SnapshotSlots : a[s] \in Nat
  BY <1>1 DEF Assignments
<1>3. \A s \in SnapshotSlots : FreeOf[s] = Free(s) /\ Free(s) \in Nat
  BY FreeIs DEF FreeOf
<1>4. \A s \in SnapshotSlots : s \notin T => a[s] = 0
  <2>1. ASSUME NEW s \in SnapshotSlots, a[s] # 0 PROVE s \in T
    <3>1. a[s] > 0 /\ Free(s) > 0
      BY <1>1, <1>2, <1>3, <2>1
    <3>2. s \in Open(Compatible)
      BY <3>1 DEF Open, SnapshotSlots
    <3>3. QED
      BY <3>1, <3>2
  <2>2. QED
    BY <2>1
<1>5. NoMore(a, SnapshotSlots, FreeOf, T, SnapshotSlots)
  BY <1>1, <1>2, <1>3, <1>4 DEF NoMore
<1>6. SumFunctionOnSet(a, SnapshotSlots) <= SumFunctionOnSet(FreeOf, T)
  BY <1>1, <1>5, SumNoMore
<1>7. SumFunctionOnSet(a, SnapshotSlots) \in Int
  BY <1>1, <1>2, SumIsInt
<1>8. QED
  BY <1>1, <1>6, <1>7, TotalIs DEF Room

\* The slots at and after a place of the list are not earlier than its slot.
LEMMA LaterDays ==
  ASSUME world \in Worlds, NEW slots, NEW S, AreOpen(slots, S),
         NEW m \in 1..Cardinality(S), NEW s \in S, s \notin Prefix(slots, m - 1)
  PROVE  slots[m].day <= s.day /\ slots[m].day \in Int /\ s.day \in Int
<1> DEFINE n == Cardinality(S)
<1>1. /\ n \in Nat /\ slots \in [1..n -> S]
      /\ \A i, j \in 1..n : i < j => Earlier(slots[i], slots[j])
      /\ S \in SUBSET SnapshotSlots
  BY DEF AreOpen, IsInOrder
<1>2. PICK i \in 1..n : slots[i] = s
  BY DEF AreOpen, IsInOrder
<1> HIDE DEF n
<1>3. m \in 1..n
  BY DEF n
<1>4. i \notin 1..(m - 1)
  BY <1>2 DEF Prefix
<1>5. i = m \/ m < i
  BY <1>1, <1>2, <1>3, <1>4
<1>6. slots[m] \in SnapshotSlots /\ s \in SnapshotSlots
  BY <1>1, <1>3
<1>7. slots[m].day \in Int /\ s.day \in Int
  BY <1>6, SlotsAre
<1>8. CASE i = m
  BY <1>2, <1>7, <1>8
<1>9. CASE m < i
  <2>1. Earlier(slots[m], s)
    BY <1>1, <1>2, <1>3, <1>9
  <2>2. QED
    BY <1>7, <2>1 DEF Earlier
<1>10. QED
  BY <1>5, <1>8, <1>9

LEMMA PlanIsBest ==
  ASSUME world \in Worlds, NEW plan, IsPlanFor(plan, Compatible, Required),
         NEW a \in Assignments, Total(a) <= Required, \A s \in DOMAIN a : a[s] <= Free(s)
  PROVE  /\ Total(a) <= plan.minutes
         /\ Total(a) = plan.minutes =>
              \A i \in DOMAIN plan.rows :
                 plan.rows[i].minutes > 0 => \E d \in Days(a) : plan.rows[i].slot.day <= d
<1> DEFINE e == Eligible(Compatible)
           S == Open(Compatible)
           n == Cardinality(S)
           rows == plan.rows
           m == Len(rows)
<1>0. PICK w \in Nat : PlanIs(plan, Compatible, Required, w)
  BY DEF IsPlanFor
<1>1. /\ RowsOK(rows, e, w) /\ m <= n /\ plan.minutes \in Int
      /\ w > 0 => rows[w].minutes = plan.minutes - Room(Prefix(e, w - 1))
      /\ Required <= 0 => plan.minutes = 0
      /\ Required > 0 => plan.minutes = Required \/ plan.minutes = Room(S)
  BY <1>0 DEF PlanIs
<1>2. AreOpen(e, S) /\ S \in SUBSET SnapshotSlots
  BY EligibleAreOpen DEF AreOpen
<1>3. n \in Nat /\ \A k \in 0..n : Prefix(e, k) \in SUBSET S
  BY <1>2, PrefixIs
<1>4. /\ m \in Nat /\ Required \in Nat /\ DOMAIN rows = 1..m /\ w \in 0..m
      /\ \A k \in 1..m : /\ rows[k].slot = e[k] /\ rows[k].minutes \in Int
                         /\ k = w => rows[k].minutes > 0
                         /\ w < k => rows[k].minutes = 0
  <2> HIDE DEF rows, e
  <2>1. /\ rows \in Seq([slot : SnapshotSlots, minutes : Int]) /\ w \in 0..m
        /\ \A k \in 1..m : /\ rows[k].slot = e[k]
                           /\ k = w => rows[k].minutes > 0
                           /\ w < k => rows[k].minutes = 0
    BY <1>1 DEF RowsOK
  <2>2. m \in Nat /\ DOMAIN rows = 1..m
    BY <2>1
  <2>3. \A k \in 1..m : rows[k] \in [slot : SnapshotSlots, minutes : Int]
    BY <2>1, <2>2, ElementOfSeq
  <2>4. \A k \in 1..m : rows[k].minutes \in Int
    BY <2>3
  <2>5. Required \in Nat
    BY RequiredIs
  <2> HIDE DEF m
  <2>6. QED
    BY <2>1, <2>2, <2>4, <2>5
<1>5. Total(a) \in Int /\ Total(a) <= Room(S)
  BY <1>2, AssignmentFits
<1> HIDE DEF e, S, n, m, rows
<1>6. Total(a) <= plan.minutes
  BY <1>1, <1>4, <1>5
<1>7. ASSUME Total(a) = plan.minutes, NEW i \in 1..m, rows[i].minutes > 0
      PROVE  \E d \in Days(a) : rows[i].slot.day <= d
  <2>1. w > 0 /\ i <= w
    BY <1>4, <1>7
  <2>2. w \in 1..n /\ w - 1 \in 0..n /\ i \in 1..n /\ i - 1 \in 0..n /\ w \in 1..m
    BY <1>1, <1>3, <1>4, <2>1
  <2>3. Prefix(e, w - 1) \in SUBSET SnapshotSlots
    BY <1>2, <1>3, <2>2
  <2>4. Room(Prefix(e, w - 1)) \in Int /\ Room(Prefix(e, w - 1)) < Total(a)
    <3>1. Room(Prefix(e, w - 1)) \in Int
      BY <2>3, RoomIs
    <3>2. rows[w].minutes > 0 /\ rows[w].minutes = plan.minutes - Room(Prefix(e, w - 1))
      BY <1>1, <1>4, <2>1, <2>2
    <3>3. QED
      BY <1>1, <1>7, <3>1, <3>2
  <2>5. PICK s \in S : a[s] > 0 /\ s \notin Prefix(e, w - 1)
    <3>1. SUFFICES ASSUME \A s \in S : a[s] > 0 => s \in Prefix(e, w - 1)
                   PROVE  FALSE
      OBVIOUS
    <3>2. Total(a) <= Room(Prefix(e, w - 1))
      BY <2>3, <3>1, AssignmentFits DEF S
    <3>3. QED
      BY <1>5, <2>4, <3>2
  <2>6. s \notin Prefix(e, i - 1)
    <3>1. \A k \in 1..(i - 1) : k \in 1..(w - 1)
      BY <1>4, <2>1
    <3>2. QED
      BY <2>5, <3>1 DEF Prefix
  <2>7. e[i].day <= s.day
    BY <1>2, <2>2, <2>5, <2>6, LaterDays DEF n
  <2>8. s.day \in Days(a)
    <3>1. DOMAIN a = SnapshotSlots /\ s \in SnapshotSlots
      BY <1>2 DEF Assignments
    <3>2. QED
      BY <2>5, <3>1 DEF Days
  <2>9. rows[i].slot = e[i]
    BY <1>4
  <2>10. QED
    BY <2>7, <2>8, <2>9
<1>8. QED
  BY <1>4, <1>6, <1>7 DEF rows

BestInv ==
  (Finished("planning0") /\ result["planning0"].status = "DEGRADED") =>
      \A k \in DOMAIN result["planning0"].actions :
          result["planning0"].actions[k].code = "FULL_EARLIEST" =>
              IsPlanFor(result["planning0"].actions[k].plan, Compatible, Required)

LEMMA BestShows ==
  ASSUME BaseInv, BestInv
  PROVE  EarliestIsBest
<1> SUFFICES ASSUME Finished("planning0"), result["planning0"].status = "DEGRADED",
                    NEW k \in DOMAIN result["planning0"].actions,
                    result["planning0"].actions[k].code = "FULL_EARLIEST",
                    NEW a \in Assignments, Total(a) <= Required,
                    \A s \in DOMAIN a : a[s] <= Free(s)
             PROVE  LET plan == result["planning0"].actions[k].plan
                    IN  /\ Total(a) <= plan.minutes
                        /\ Total(a) = plan.minutes =>
                             \A i \in DOMAIN plan.rows :
                                plan.rows[i].minutes > 0 =>
                                    \E d \in Days(a) : plan.rows[i].slot.day <= d
  BY DEF EarliestIsBest, Total, Days
<1>1. world \in Worlds
  BY DEF BaseInv
<1>2. IsPlanFor(result["planning0"].actions[k].plan, Compatible, Required)
  BY DEF BestInv
<1>3. QED
  BY <1>1, <1>2, PlanIsBest

LEMMA PlanStands ==
  ASSUME world' = world, NEW plan, IsPlanFor(plan, Compatible, Required)
  PROVE  IsPlanFor(plan, Compatible, Required)'
<1>1. Compatible' = Compatible /\ SnapshotSlots' = SnapshotSlots /\ Required' = Required
  BY DEF SnapshotSlots, Compatible, Required
<1>2. Open(Compatible)' = Open(Compatible)
  BY <1>1 DEF Open
<1>3. Eligible(Compatible)' = Eligible(Compatible)
  BY <1>2 DEF Eligible, Listed
<1>4. FreeOf' = FreeOf
  BY <1>1 DEF FreeOf
<1>5. PICK w \in Nat : PlanIs(plan, Compatible, Required, w)
  BY DEF IsPlanFor
<1>6. PlanIs(plan, Compatible, Required, w)'
  BY <1>1, <1>2, <1>3, <1>4, <1>5 DEF PlanIs, RowsOK, Room
<1>7. QED
  BY <1>6 DEF IsPlanFor

LEMMA BestStarts == Init => BestInv
<1> SUFFICES ASSUME Init PROVE BestInv
  OBVIOUS
<1>1. result = [t \in Tasks |-> Blank] /\ "planning0" \in Tasks
  BY DEF Init, Tasks
<1>2. ~Finished("planning0")
  BY <1>1, FixedAnswers DEF Finished
<1>3. QED
  BY <1>2 DEF BestInv

LEMMA BestKeeps ==
  ASSUME BaseInv, BestInv, [Next]_vars
  PROVE  BestInv'
<1>1. ASSUME world' = world, result'["planning0"] = result["planning0"]
      PROVE  BestInv'
  BY <1>1, PlanStands DEF BestInv, Finished
<1>2. CASE UNCHANGED vars \/ Finalize
  BY <1>1, <1>2 DEF vars, Finalize
<1>3. ASSUME NEW t, NEW r, TaskAnswers(t, r), t # "planning0"
      PROVE  BestInv'
  <2>1. world' = world /\ result'["planning0"] = result["planning0"]
    BY <1>3, Answered DEF Tasks
  <2>2. QED
    BY <1>1, <2>1
<1>4. ASSUME NEW r, TaskAnswers("planning0", r), AnswerIs(r, PlanningActions(FALSE))
      PROVE  BestInv'
  <2>0. world' = world /\ result'["planning0"] = r
    BY <1>4, Answered
  <2>1. world' = world /\ result'["planning0"] = r /\ world \in Worlds /\ CoverableIsInt
    BY <2>0 DEF BaseInv, CoverOK, CoverableIsInt
  <2>2. ASSUME r.status = "DEGRADED", NEW k \in DOMAIN r.actions,
               r.actions[k].code = "FULL_EARLIEST"
        PROVE  IsPlanFor(r.actions[k].plan, Compatible, Required)
    <3>0. r.actions = PlanningActions(FALSE)
      BY <1>4, <2>2 DEF AnswerIs
    <3>1. r.actions # <<>>
      <4>1. DOMAIN <<>> = {}
        OBVIOUS
      <4>2. QED
        BY <2>2, <4>1
    <3>2. RankedAre(r.actions, Options(Cov), FALSE)
      BY <2>1, <3>0, <3>1, ActionsAre
    <3>3. r.actions[k] \in Options(Cov)
      BY <2>2, <3>2 DEF RankedAre
    <3>4. Cov \in Int /\ Required \in Int
      BY <2>1, RequiredIs DEF Cov, CoverableIsInt
    <3>5. r.actions[k] = FullOption
      BY <2>1, <2>2, <3>3, <3>4, OptionsAre
    <3>6. r.actions[k].plan = PlanEarliest(Compatible, Required)
      BY <3>5 DEF FullOption, Option
    <3>7. QED
      BY <2>1, <3>4, <3>6, EarliestIs
  <2>3. ASSUME r.status = "DEGRADED"
        PROVE  \A k \in DOMAIN r.actions : r.actions[k].code = "FULL_EARLIEST" =>
                 IsPlanFor(r.actions[k].plan, Compatible, Required)'
    BY <2>0, <2>2, <2>3, PlanStands
  <2>4. QED
    BY <2>0, <2>3 DEF BestInv
<1>5. QED
  <2>1. StepIs
    BY StepsAre
  <2>2. ASSUME NEW r, TaskAnswers("rm0", r) \/ TaskAnswers("ie0", r) \/ TaskAnswers("planning1", r)
                       \/ TaskAnswers("rm1", r)
        PROVE  BestInv'
    BY <1>3, <2>2
  <2>3. QED
    BY <1>2, <1>4, <2>1, <2>2, Zenon DEF StepIs

-----------------------------------------------------------------------------
(* What the run proposes, for every snapshot. *)

AnalysisInv == BaseInv /\ FitsInv /\ CoveredInv /\ BestInv

\* The calculations of a run keep their invariant, whatever the model chose.
THEOREM AnalysisHolds == AgentsSpec => []AnalysisInv
<1>1. AgentsInit => AnalysisInv
  BY BaseStarts, FitsStarts, CoveredStarts, BestStarts DEF AgentsInit, AnalysisInv
<1>2. AnalysisInv /\ [AgentsNext]_AgentsVars => AnalysisInv'
  <2>1. [AgentsNext]_AgentsVars => [Next]_vars
    BY DEF AgentsNext, AgentsVars, AnalysisStep, LoopStep, LineStep
  <2>2. QED
    BY <2>1, BaseKeeps, FitsKeeps, CoveredKeeps, BestKeeps DEF AnalysisInv
<1>3. QED
  BY <1>1, <1>2, PTL DEF AgentsSpec

\* What is proposed fits the records it was computed from: every slot holds
\* what its minutes are rounded to, none is named twice, no balance is
\* overdrawn, and behind a row that rounds to nothing comes only residue
\* (calc.plan_earliest_slots, capacity.allocate, recommendations.py).
THEOREM ProposalFits == AgentsSpec => []ProposalFitsSnapshot
<1>1. AnalysisInv => ProposalFitsSnapshot
  BY DEF AnalysisInv, FitsInv, ProposalFitsSnapshot, RowsFit, ReservedFits
<1>2. QED
  BY <1>1, AnalysisHolds, PTL

\* The plan that is validated needs no more material than is reserved for it,
\* unless the model chose another (planning/agent._rank_key, needs_replan).
THEOREM PlanIsCovered == AgentsSpec => []FinalPlanIsCovered
<1>1. AnalysisInv => FinalPlanIsCovered
  BY DEF AnalysisInv, CoveredInv
<1>2. QED
  BY <1>1, AnalysisHolds, PTL

\* No assignment of the order's minutes to the slots there are schedules more
\* than the first plan, and none that schedules as much is done before the last
\* day on which that plan has minutes, whatever the quotients leave
\* (calc.plan_earliest_slots).
THEOREM GreedyIsBest == AgentsSpec => []EarliestIsBest
<1>1. AnalysisInv => EarliestIsBest
  BY BestShows DEF AnalysisInv
<1>2. QED
  BY <1>1, AnalysisHolds, PTL
-----------------------------------------------------------------------------
(* The report and the order detail. *)

ReportInv ==
  /\ Usable("rm0") => result["rm0"] = Readiness
  /\ report # "NONE" => Finished("rm0") /\ report = ReportedState

MaterialStates == {"READY", "AT_RISK", "SHORTAGE", "UNKNOWN"}

\* The worst of some states is the first of these that is among them.
LEMMA WorstIs ==
  ASSUME NEW S \in SUBSET MaterialStates, S # {}
  PROVE  Worst(S) = IF "UNKNOWN" \in S THEN "UNKNOWN"
                    ELSE IF "SHORTAGE" \in S THEN "SHORTAGE"
                    ELSE IF "AT_RISK" \in S THEN "AT_RISK" ELSE "READY"
<1> DEFINE w == IF "UNKNOWN" \in S THEN "UNKNOWN"
                ELSE IF "SHORTAGE" \in S THEN "SHORTAGE"
                ELSE IF "AT_RISK" \in S THEN "AT_RISK" ELSE "READY"
<1>1. /\ Severity["READY"] = 0 /\ Severity["AT_RISK"] = 1 /\ Severity["SHORTAGE"] = 2
      /\ Severity["UNKNOWN"] = 3
  BY DEF Severity
<1>2. w \in S
  BY DEF MaterialStates
<1>3. \A s \in S : Severity[s] <= Severity[w] /\ (Severity[w] <= Severity[s] => s = w)
  BY <1>1 DEF MaterialStates
<1> HIDE DEF w
<1>4. Worst(S) = CHOOSE s \in S : \A t \in S : Severity[t] <= Severity[s]
  BY DEF Worst
<1>5. \A s \in S : (\A t \in S : Severity[t] <= Severity[s]) => s = w
  BY <1>2, <1>3
<1>6. (CHOOSE s \in S : \A t \in S : Severity[t] <= Severity[s]) = w
  BY <1>2, <1>3, <1>5
<1>7. QED
  BY <1>4, <1>6 DEF w

\* A line of the order detail, in the terms of the material agent.
LEMMA LineStateIs ==
  ASSUME world \in Worlds, ReadAlike, NEW m \in Materials
  PROVE  OrderLineState(m) = IF m \notin Known THEN "UNKNOWN"
                             ELSE IF ~Short(m, Required) THEN "READY"
                             ELSE IF ProjectedShort(m, Required) THEN "SHORTAGE" ELSE "AT_RISK"
<1> DEFINE d == Demand(m, Required)
           u == Stock(m).onHand - Stock(m).reserved + Stock(m).own
<1>1. d \in Int /\ u \in Int /\ Sam \in Nat /\ u * Sam \in Int
  <2>1. Sam \in Nat /\ PerUnit(m) \in Nat /\ world.units \in Nat
    BY AnalysisAssumption, StockIs
  <2>2. Stock(m).onHand \in Nat /\ Stock(m).reserved \in Nat /\ Stock(m).own = 0
    BY AnalysisAssumption DEF Stock, ReadAlike
  <2>3. Required \in Int
    BY <2>1 DEF Required
  <2>4. u \in Int
    BY <2>2
  <2> HIDE DEF u
  <2>5. QED
    BY <2>1, <2>3, <2>4 DEF Demand
<1>2. CASE m \notin Known
  BY <1>2 DEF OrderLineState, Known
<1>3. CASE m \in Known
  <2>1. Stock(m).convertible /\ Stock(m).balance /\ 0 <= world.due
    BY <1>3 DEF Known, ReadAlike
  <2>2. Available(m) = u
    <3>1. Stock(m).onHand \in Nat /\ Stock(m).reserved \in Nat /\ Stock(m).own = 0
      BY AnalysisAssumption DEF Stock, ReadAlike
    <3>2. QED
      BY <2>1, <3>1 DEF Available
  <2>3. Short(m, Required) <=> d > u * Sam
    BY <2>2 DEF Short
  <2>4. ProjectedShort(m, Required) <=> (u + ReceivedBy(Stock(m).receipts, world.due)) * Sam < d
    BY <2>1, <2>2 DEF ProjectedShort
  <2>5. OrderLineState(m) =
          CASE ~Stock(m).convertible \/ ~Stock(m).balance -> "UNKNOWN"
            [] Stock(m).convertible /\ Stock(m).balance /\ d <= u * Sam -> "READY"
            [] Stock(m).convertible /\ Stock(m).balance /\ d > u * Sam
                 /\ (u + ReceivedBy(Stock(m).receipts, world.due)) * Sam < d -> "SHORTAGE"
            [] OTHER -> "AT_RISK"
    BY DEF OrderLineState
  <2> DEFINE v == u * Sam
             late == (u + ReceivedBy(Stock(m).receipts, world.due)) * Sam < d
  <2> HIDE DEF d, u, v, late
  <2>6. OrderLineState(m) =
          CASE ~Stock(m).convertible \/ ~Stock(m).balance -> "UNKNOWN"
            [] Stock(m).convertible /\ Stock(m).balance /\ d <= v -> "READY"
            [] Stock(m).convertible /\ Stock(m).balance /\ d > v /\ late -> "SHORTAGE"
            [] OTHER -> "AT_RISK"
    BY <2>5, Zenon DEF v, late
  <2>7. d \in Int /\ v \in Int
    BY <1>1 DEF v
  <2>8. (Short(m, Required) <=> d > v) /\ (ProjectedShort(m, Required) <=> late)
    BY <2>3, <2>4 DEF v, late
  <2>9. d > v <=> ~(d <= v)
    BY <2>7
  <2>10. QED
    BY <1>3, <2>1, <2>6, <2>8, <2>9
<1>4. QED
  BY <1>2, <1>3

\* The agent's findings are the lines that are not ready.
LEMMA FindingsAreLines ==
  ASSUME world \in Worlds, ReadAlike
  PROVE  {StateOfFinding[c] : c \in MaterialFindings}
           = {OrderLineState(m) : m \in Materials} \ {"READY"}
<1>1. /\ StateOfFinding["UNIT_CONVERSION_MISSING"] = "UNKNOWN"
      /\ StateOfFinding["MATERIAL_SHORTAGE"] = "SHORTAGE"
      /\ StateOfFinding["MATERIAL_AT_RISK"] = "AT_RISK"
  BY DEF StateOfFinding
<1>2. Known \subseteq Materials
  BY DEF Known
<1>3. ASSUME NEW c \in MaterialFindings
      PROVE  \E m \in Materials : OrderLineState(m) = StateOfFinding[c] /\ OrderLineState(m) # "READY"
  <2>1. CASE \E m \in Materials \ Known : c = "UNIT_CONVERSION_MISSING"
    BY <1>1, <2>1, LineStateIs
  <2>2. CASE \E m \in Known : /\ Short(m, Required)
                              /\ c = IF ProjectedShort(m, Required)
                                     THEN "MATERIAL_SHORTAGE" ELSE "MATERIAL_AT_RISK"
    <3>1. PICK m \in Known : /\ Short(m, Required)
                             /\ c = IF ProjectedShort(m, Required)
                                    THEN "MATERIAL_SHORTAGE" ELSE "MATERIAL_AT_RISK"
      BY <2>2
    <3>2. OrderLineState(m) = IF ProjectedShort(m, Required) THEN "SHORTAGE" ELSE "AT_RISK"
      BY <1>2, <3>1, LineStateIs
    <3>3. QED
      BY <1>1, <1>2, <3>1, <3>2
  <2>3. QED
    BY <2>1, <2>2 DEF MaterialFindings
<1>4. ASSUME NEW m \in Materials, OrderLineState(m) # "READY"
      PROVE  \E c \in MaterialFindings : OrderLineState(m) = StateOfFinding[c]
  <2>1. CASE m \notin Known
    <3>1. "UNIT_CONVERSION_MISSING" \in MaterialFindings
      BY <2>1 DEF MaterialFindings
    <3>2. OrderLineState(m) = "UNKNOWN"
      BY <2>1, LineStateIs
    <3>3. QED
      BY <1>1, <3>1, <3>2
  <2>2. CASE m \in Known
    <3>1. Short(m, Required)
      BY <1>4, <2>2, LineStateIs
    <3>2. OrderLineState(m) = IF ProjectedShort(m, Required) THEN "SHORTAGE" ELSE "AT_RISK"
      BY <2>2, <3>1, LineStateIs
    <3>3. (IF ProjectedShort(m, Required) THEN "MATERIAL_SHORTAGE" ELSE "MATERIAL_AT_RISK")
            \in MaterialFindings
      BY <2>2, <3>1 DEF MaterialFindings
    <3>4. QED
      BY <1>1, <3>2, <3>3
  <2>3. QED
    BY <2>1, <2>2
<1>5. QED
  BY <1>3, <1>4

\* Both sides take the worst of the same lines.
LEMMA StatesAgree ==
  ASSUME world \in Worlds, ReadAlike, Usable("rm0"), result["rm0"] = Readiness
  PROVE  ReportedState = OrderState
<1> DEFINE L == {OrderLineState(m) : m \in Materials}
           F == {StateOfFinding[c] : c \in MaterialFindings}
<1>1. L \subseteq MaterialStates
  <2>1. \A m \in Materials : OrderLineState(m) \in MaterialStates
    BY LineStateIs DEF MaterialStates
  <2>2. QED
    BY <2>1
<1>2. L # {}
  BY DEF ReadAlike
<1>3. F = L \ {"READY"}
  BY FindingsAreLines
<1>4. /\ Readiness.findings = MaterialFindings
      /\ Readiness.complete = (\A m \in Materials : Stock(m).convertible /\ Stock(m).balance)
  BY Zenon DEF Readiness, Blank
<1>5. OrderState = Worst(L)
  BY DEF OrderState
<1>6. MaterialFindings = {} => \A m \in Materials : Stock(m).convertible /\ Stock(m).balance
  BY DEF MaterialFindings, Known, ReadAlike
<1>7. MaterialFindings = {} <=> F = {}
  OBVIOUS
<1>8. ReportedState = IF MaterialFindings = {} THEN "READY" ELSE Worst(F)
  BY <1>4, <1>6 DEF ReportedState
<1> HIDE DEF L, F
<1>9. CASE F = {}
  <2>1. Worst(L) = "READY"
    BY <1>1, <1>2, <1>3, <1>9, WorstIs
  <2>2. QED
    BY <1>5, <1>7, <1>8, <1>9, <2>1
<1>10. CASE F # {}
  <2>1. Worst(F) = Worst(L)
    <3>1. F \in SUBSET MaterialStates /\ L \in SUBSET MaterialStates
      BY <1>1, <1>3
    <3>2. "READY" \notin F /\ \A s : s # "READY" => (s \in F <=> s \in L)
      BY <1>3
    <3>3. "UNKNOWN" \in F \/ "SHORTAGE" \in F \/ "AT_RISK" \in F
      BY <1>10, <3>1, <3>2 DEF MaterialStates
    <3>4. QED
      BY <1>2, <1>10, <3>1, <3>2, <3>3, WorstIs
  <2>2. QED
    BY <1>5, <1>7, <1>8, <1>10, <2>1
<1>11. QED
  BY <1>9, <1>10

\* The assessment and the reported state depend on the snapshot and on rm0's answer.
LEMMA SameReadiness ==
  ASSUME world' = world
  PROVE  Readiness' = Readiness
<1>1. \A m \in Materials : /\ Stock(m)' = Stock(m) /\ PerUnit(m)' = PerUnit(m)
                           /\ Available(m)' = Available(m)
  BY DEF Stock, PerUnit, Available
<1>2. Known' = Known /\ Required' = Required
  BY DEF Known, Stock, Required
<1>3. \A m \in Materials : ReceivedBy(Stock(m).receipts, world.due)'
                             = ReceivedBy(Stock(m).receipts, world.due)
  BY <1>1
<1>4. \A m \in Materials : /\ Short(m, Required)' <=> Short(m, Required)
                           /\ ProjectedShort(m, Required)' <=> ProjectedShort(m, Required)
                           /\ Coverable(m)' = Coverable(m)
  BY <1>1, <1>2, <1>3 DEF Short, ProjectedShort, Demand, Coverable
<1>5. MaterialFindings' = MaterialFindings
  BY <1>2, <1>4 DEF MaterialFindings, Known
<1>6. {Coverable(m) : m \in Known}' = {Coverable(m) : m \in Known}
  BY <1>2, <1>4 DEF Known
<1>7. (\A m \in Materials : Stock(m).convertible /\ Stock(m).balance)'
        = (\A m \in Materials : Stock(m).convertible /\ Stock(m).balance)
  BY <1>1
<1>8. (IF Known = {} THEN world.units ELSE Min({Coverable(m) : m \in Known}))'
        = IF Known = {} THEN world.units ELSE Min({Coverable(m) : m \in Known})
  BY <1>2, <1>6
<1>9. QED
  BY <1>5, <1>7, <1>8, Zenon DEF Readiness

LEMMA SameReport ==
  ASSUME result'["rm0"] = result["rm0"]
  PROVE  ReportedState' = ReportedState /\ (Usable("rm0")' <=> Usable("rm0"))
         /\ (Finished("rm0")' <=> Finished("rm0"))
BY DEF ReportedState, Usable, Finished

LEMMA ReportKeeps ==
  ASSUME BaseInv, ReportInv, [Next]_vars
  PROVE  ReportInv'
<1>1. ASSUME world' = world, result'["rm0"] = result["rm0"], report' = report
      PROVE  ReportInv'
  BY <1>1, SameReadiness, SameReport DEF ReportInv
<1>2. ASSUME NEW t, NEW r, TaskAnswers(t, r), t # "rm0"
      PROVE  ReportInv'
  BY <1>1, <1>2, Answered DEF TaskAnswers, Tasks
<1>3. ASSUME NEW r, TaskAnswers("rm0", r), r = Readiness \/ r = Failed
      PROVE  ReportInv'
  <2>1. ~Finished("rm0") /\ report' = report /\ world' = world
    BY <1>3 DEF TaskAnswers
  <2>2. report' = "NONE"
    BY <2>1 DEF ReportInv
  <2>3. result'["rm0"] = r
    BY <1>3, Answered
  <2>4. Usable("rm0")' => result'["rm0"] = Readiness'
    BY <1>3, <2>1, <2>3, FixedAnswers, SameReadiness DEF Usable
  <2>5. QED
    BY <2>2, <2>4 DEF ReportInv
<1>4. CASE Finalize
  <2>1. /\ world' = world /\ result' = result /\ report' = ReportedState
        /\ Finished("planning0")
    BY <1>4 DEF Finalize
  <2>2. Finished("rm0")
    BY <2>1 DEF BaseInv
  <2>3. QED
    BY <2>1, <2>2, SameReadiness, SameReport DEF ReportInv
<1>5. CASE UNCHANGED vars
  BY <1>1, <1>5 DEF vars
<1>6. QED
  BY <1>2, <1>3, <1>4, <1>5, StepsAre DEF StepIs

\* The report's material state and the order detail's are the same for every
\* snapshot in which they read the same figures (synthesis.py 131-137,
\* readiness.py): what the finding on ReportAgreesWithOrder names is all.
THEOREM ReportsAgree == AgentsSpec => []AgreesWhereReadAlike
<1>1. AgentsInit => ReportInv
  BY FixedAnswers DEF AgentsInit, Init, ReportInv, Usable, Tasks
<1>2. AnalysisInv /\ ReportInv /\ [AgentsNext]_AgentsVars => ReportInv'
  <2>1. [AgentsNext]_AgentsVars => [Next]_vars
    BY DEF AgentsNext, AgentsVars, AnalysisStep, LoopStep, LineStep
  <2>2. QED
    BY <2>1, ReportKeeps DEF AnalysisInv
<1>3. AnalysisInv /\ ReportInv => AgreesWhereReadAlike
  BY StatesAgree DEF AnalysisInv, BaseInv, ReportInv, AgreesWhereReadAlike
<1>4. QED
  BY <1>1, <1>2, <1>3, AnalysisHolds, PTL DEF AgentsSpec
=============================================================================
