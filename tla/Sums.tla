-------------------------------- MODULE Sums --------------------------------
(***************************************************************************)
(* What SumFunctionOnSet of the community modules computes, for every finite *)
(* set: the facts that the proofs about totals kept beside the rows they     *)
(* count need.  Its definition is recursive over subsets, taking any element *)
(* out; a set of subsets that are counterexamples has a minimal element, and *)
(* that is the induction.                                                    *)
(***************************************************************************)
EXTENDS Integers, FiniteSets, Functions, FiniteSetTheorems, TLAPS

\* The element that is taken out first, and the recursion.
Pick(s) == CHOOSE x \in s : TRUE

IsSum(g, f, S) ==
  g = [s \in SUBSET S |-> IF s = {} THEN 0 ELSE f[Pick(s)] + g[s \ {Pick(s)}]]

\* Two functions that agree on a set; that agree on it but for one element.
Agree(f, e, S) == \A x \in S : f[x] = e[x]

AgreeBut(f, e, S, x) == \A y \in S : y # x => e[y] = f[y]

\* Some member of a non-empty set of subsets of a finite set has no proper
\* subset in it: induction over finite sets, as a minimal counterexample.
LEMMA Minimal ==
  ASSUME NEW S, IsFiniteSet(S), NEW B, B \subseteq SUBSET S, B # {}
  PROVE  \E T \in B : \A U \in B : U \subseteq T => U = T
<1>1. IsWellFoundedOn(StrictSubsetOrdering(S), SUBSET S)
  BY FS_StrictSubsetOrderingWellFounded, FS_FiniteSubsetsOfFinite
<1>2. PICK T \in B : \A U \in B : ~(<<U, T>> \in StrictSubsetOrdering(S))
  BY <1>1, WFMin, Zenon
<1>3. \A U \in B : U \subseteq T => U = T
  BY <1>2 DEF StrictSubsetOrdering
<1>4. QED
  BY <1>3

\* A non-empty set loses the element taken out, and nothing else.
LEMMA Rest ==
  ASSUME NEW S, NEW s \in SUBSET S, s # {}
  PROVE  /\ Pick(s) \in s
         /\ Pick(s) \in S
         /\ s \ {Pick(s)} \in SUBSET S
         /\ s \ {Pick(s)} \subseteq s
         /\ s \ {Pick(s)} # s
  BY DEF Pick

\* The recursion at the empty set.
LEMMA SumEmpty ==
  ASSUME NEW f, NEW S, NEW g, IsSum(g, f, S)
  PROVE  g[{}] = 0
<1>1. {} \in SUBSET S
  OBVIOUS
<1>2. QED
  BY <1>1, Zenon DEF IsSum

\* The recursion at any other set.
LEMMA SumStep ==
  ASSUME NEW f, NEW S, NEW g, IsSum(g, f, S), NEW s \in SUBSET S, s # {}
  PROVE  g[s] = f[Pick(s)] + g[s \ {Pick(s)}]
<1>1. g[s] = IF s = {} THEN 0 ELSE f[Pick(s)] + g[s \ {Pick(s)}]
  BY Zenon DEF IsSum
<1>2. QED
  BY <1>1

\* Two sums over functions that agree on a set agree there, whatever sets the
\* recursions range over.
LEMMA SumSame ==
  ASSUME NEW S, NEW R, NEW T, IsFiniteSet(T), T \subseteq S, T \subseteq R,
         NEW f, NEW e, NEW g, NEW h,
         IsSum(g, f, S), IsSum(h, e, R), Agree(f, e, T)
  PROVE  g[T] = h[T]
<1> DEFINE Bad == {s \in SUBSET T : g[s] # h[s]}
<1>1. SUFFICES ASSUME Bad # {} PROVE FALSE
  OBVIOUS
<1>2. PICK s \in Bad : \A u \in Bad : u \subseteq s => u = s
  <2>1. Bad \subseteq SUBSET T
    OBVIOUS
  <2> HIDE DEF Bad
  <2>2. QED
    BY <1>1, <2>1, Minimal
<1>3. s \in SUBSET T /\ s \in SUBSET S /\ s \in SUBSET R /\ g[s] # h[s]
  BY <1>2
<1>4. s # {}
  <2>1. g[{}] = 0
    BY SumEmpty
  <2>2. h[{}] = 0
    BY SumEmpty
  <2>3. QED
    BY <1>3, <2>1, <2>2
<1> DEFINE r == s \ {Pick(s)}
<1>5. r \in SUBSET T /\ r # s /\ r \subseteq s /\ Pick(s) \in T
  BY <1>3, <1>4, Rest
<1>6. g[r] = h[r]
  BY <1>2, <1>5
<1>7. g[s] = f[Pick(s)] + g[r]
  BY <1>3, <1>4, SumStep
<1>8. h[s] = e[Pick(s)] + h[r]
  BY <1>3, <1>4, SumStep
<1>9. f[Pick(s)] = e[Pick(s)]
  BY <1>5 DEF Agree
<1>10. QED
  BY <1>3, <1>6, <1>7, <1>8, <1>9

\* The recursion has a solution.
LEMMA SumExists ==
  ASSUME NEW f, NEW S, IsFiniteSet(S)
  PROVE  \E g : IsSum(g, f, S)
<1> DEFINE Bad == {s \in SUBSET S : ~ \E g : IsSum(g, f, s)}
<1>1. SUFFICES ASSUME Bad # {} PROVE FALSE
  OBVIOUS
<1>2. PICK T \in Bad : \A u \in Bad : u \subseteq T => u = T
  <2>1. Bad \subseteq SUBSET S
    OBVIOUS
  <2> HIDE DEF Bad
  <2>2. QED
    BY <1>1, <2>1, Minimal
<1> DEFINE G(s) == CHOOSE g : IsSum(g, f, s)
           v(s) == IF s = {} THEN 0 ELSE f[Pick(s)] + G(s \ {Pick(s)})[s \ {Pick(s)}]
           h == [s \in SUBSET T |-> v(s)]
<1>3. ASSUME NEW s \in SUBSET T, s # T PROVE IsSum(G(s), f, s)
  BY <1>2, <1>3
<1>4. ASSUME NEW s \in SUBSET T, s # T PROVE G(s)[s] = v(s)
  <2>1. IsFiniteSet(s)
    BY FS_Subset
  <2>2. IsSum(G(s), f, s)
    BY <1>3, <1>4
  <2>3. CASE s = {}
    <3> HIDE DEF G
    <3>1. G(s)[s] = 0
      BY <2>2, <2>3, SumEmpty
    <3>2. QED
      BY <3>1, <2>3
  <2>4. CASE s # {}
    <3> DEFINE r == s \ {Pick(s)}
    <3>1. s \in SUBSET s /\ r \subseteq s /\ r # T /\ r \in SUBSET T
      BY <1>4, <2>4, Rest
    <3>2. IsSum(G(r), f, r)
      BY <1>3, <3>1
    <3>3. G(s)[s] = f[Pick(s)] + G(s)[r]
      <4> HIDE DEF G
      <4>1. QED
        BY <2>2, <2>4, <3>1, SumStep
    <3>4. G(s)[r] = G(r)[r]
      <4>1. IsFiniteSet(r) /\ r \subseteq r /\ Agree(f, f, r)
        BY <2>1, <3>1, FS_Subset DEF Agree
      <4> HIDE DEF G, r
      <4>2. QED
        BY <2>2, <3>1, <3>2, <4>1, SumSame
    <3>5. QED
      BY <2>4, <3>3, <3>4
  <2>5. QED
    BY <2>3, <2>4
<1>5. ASSUME NEW s \in SUBSET T
      PROVE  h[s] = IF s = {} THEN 0 ELSE f[Pick(s)] + h[s \ {Pick(s)}]
  <2>1. CASE s = {}
    BY <2>1
  <2>2. CASE s # {}
    <3> DEFINE r == s \ {Pick(s)}
    <3>1. r # T /\ r \in SUBSET T
      BY <2>2, Rest
    <3>2. h[r] = G(r)[r]
      BY <3>1, <1>4
    <3>3. h[s] = f[Pick(s)] + G(r)[r]
      BY <2>2
    <3>4. QED
      BY <2>2, <3>2, <3>3
  <2>3. QED
    BY <2>1, <2>2
<1>6. IsSum(h, f, T)
  <2> HIDE DEF v
  <2>1. h = [s \in SUBSET T |-> h[s]]
    OBVIOUS
  <2>2. [s \in SUBSET T |-> h[s]]
        = [s \in SUBSET T |-> IF s = {} THEN 0 ELSE f[Pick(s)] + h[s \ {Pick(s)}]]
    BY <1>5
  <2>3. QED
    BY <2>1, <2>2 DEF IsSum
<1>7. QED
  BY <1>2, <1>6

\* SumFunctionOnSet is that solution.
LEMMA SumIs ==
  ASSUME NEW f, NEW S, IsFiniteSet(S)
  PROVE  \E g : IsSum(g, f, S) /\ SumFunctionOnSet(f, S) = g[S]
<1> DEFINE h == CHOOSE k : k = [s \in SUBSET S |->
                  IF s = {} THEN 0 ELSE f[CHOOSE x \in s : TRUE] + k[s \ {CHOOSE x \in s : TRUE}]]
<1>1. PICK g : IsSum(g, f, S)
  BY SumExists
<1>2. h = [s \in SUBSET S |->
             IF s = {} THEN 0 ELSE f[CHOOSE x \in s : TRUE] + h[s \ {CHOOSE x \in s : TRUE}]]
  BY <1>1, Zenon DEF IsSum, Pick
<1>3. SumFunctionOnSet(f, S) = h[S]
  BY Zenon DEF SumFunctionOnSet, FoldFunctionOnSet, MapThenFoldSet
<1>4. QED
  BY <1>2, <1>3, Zenon DEF IsSum, Pick

\* Every partial sum of integers is an integer.
LEMMA SumInt ==
  ASSUME NEW S, IsFiniteSet(S), NEW f \in [S -> Int], NEW g, IsSum(g, f, S), NEW T \in SUBSET S
  PROVE  g[T] \in Int
<1> DEFINE Bad == {s \in SUBSET S : g[s] \notin Int}
<1>1. SUFFICES ASSUME Bad # {} PROVE FALSE
  OBVIOUS
<1>2. PICK s \in Bad : \A u \in Bad : u \subseteq s => u = s
  <2>1. Bad \subseteq SUBSET S
    OBVIOUS
  <2> HIDE DEF Bad
  <2>2. QED
    BY <1>1, <2>1, Minimal
<1>3. s \in SUBSET S /\ g[s] \notin Int
  BY <1>2
<1>4. s # {}
  BY <1>3, SumEmpty
<1> DEFINE r == s \ {Pick(s)}
<1>5. r \in SUBSET S /\ r # s /\ r \subseteq s /\ Pick(s) \in S
  BY <1>3, <1>4, Rest
<1>6. g[r] \in Int
  BY <1>2, <1>5
<1>7. g[s] = f[Pick(s)] + g[r]
  BY <1>3, <1>4, SumStep
<1>8. f[Pick(s)] \in Int
  BY <1>5
<1> HIDE DEF r
<1>9. QED
  BY <1>3, <1>6, <1>7, <1>8

\* Whichever element is taken out first, the sum is the same.
LEMMA SumAny ==
  ASSUME NEW S, IsFiniteSet(S), NEW f \in [S -> Int], NEW g, IsSum(g, f, S)
  PROVE  \A s \in SUBSET S : \A x \in s : g[s] = f[x] + g[s \ {x}]
<1> DEFINE Bad == {s \in SUBSET S : \E x \in s : g[s] # f[x] + g[s \ {x}]}
<1>1. SUFFICES ASSUME Bad # {} PROVE FALSE
  OBVIOUS
<1>2. PICK s \in Bad : \A u \in Bad : u \subseteq s => u = s
  <2>1. Bad \subseteq SUBSET S
    OBVIOUS
  <2> HIDE DEF Bad
  <2>2. QED
    BY <1>1, <2>1, Minimal
<1>3. PICK x \in s : g[s] # f[x] + g[s \ {x}]
  BY <1>2
<1> DEFINE y == Pick(s)
<1>4. s \in SUBSET S /\ s # {} /\ y \in s /\ x \in S /\ y \in S
  BY <1>3, Rest
<1>5. g[s] = f[y] + g[s \ {y}]
  BY <1>4, SumStep
<1> HIDE DEF y
<1>6. x # y
  BY <1>3, <1>5
<1>7. g[s \ {y}] = f[x] + g[(s \ {y}) \ {x}]
  <2>1. s \ {y} \in SUBSET S /\ s \ {y} # s /\ s \ {y} \subseteq s /\ x \in s \ {y}
    BY <1>4, <1>6
  <2>2. QED
    BY <1>2, <2>1
<1>8. g[s \ {x}] = f[y] + g[(s \ {x}) \ {y}]
  <2>1. s \ {x} \in SUBSET S /\ s \ {x} # s /\ s \ {x} \subseteq s /\ y \in s \ {x}
    BY <1>4, <1>6
  <2>2. QED
    BY <1>2, <2>1
<1> DEFINE z == (s \ {x}) \ {y}
<1>9. z = (s \ {y}) \ {x}
  OBVIOUS
<1>10. z \in SUBSET S
  BY <1>4
<1>11. g[z] \in Int /\ f[x] \in Int /\ f[y] \in Int
  <2> HIDE DEF z
  <2>1. g[z] \in Int
    BY <1>10, SumInt
  <2>2. QED
    BY <1>4, <2>1
<1>12. g[s] = f[y] + (f[x] + g[z])
  BY <1>5, <1>7, <1>9
<1>13. g[s \ {x}] = f[y] + g[z]
  BY <1>8
<1>14. g[s] # f[x] + (f[y] + g[z])
  BY <1>3, <1>13
<1> HIDE DEF z
<1>15. QED
  BY <1>11, <1>12, <1>14

\* A finite sum of integers is an integer.
THEOREM SumType ==
  ASSUME NEW S, IsFiniteSet(S), NEW f \in [S -> Int]
  PROVE  SumFunctionOnSet(f, S) \in Int
<1>1. PICK g : IsSum(g, f, S) /\ SumFunctionOnSet(f, S) = g[S]
  BY SumIs
<1>2. g[S] \in Int
  BY <1>1, SumInt
<1>3. QED
  BY <1>1, <1>2

\* A sum whose function changes at one argument changes by as much: the row
\* that is written, and the total that is kept beside the rows.
THEOREM SumOne ==
  ASSUME NEW S, IsFiniteSet(S), NEW f \in [S -> Int], NEW e \in [S -> Int], NEW x \in S,
         AgreeBut(f, e, S, x)
  PROVE  SumFunctionOnSet(e, S) = SumFunctionOnSet(f, S) - f[x] + e[x]
<1>1. PICK g : IsSum(g, f, S) /\ SumFunctionOnSet(f, S) = g[S]
  BY SumIs
<1>2. PICK h : IsSum(h, e, S) /\ SumFunctionOnSet(e, S) = h[S]
  BY SumIs
<1> DEFINE r == S \ {x}
<1>3. r \subseteq S /\ r \in SUBSET S /\ IsFiniteSet(r) /\ Agree(f, e, r)
  BY FS_Subset DEF Agree, AgreeBut
<1>4. g[S] = f[x] + g[r]
  BY <1>1, SumAny
<1>5. h[S] = e[x] + h[r]
  BY <1>2, SumAny
<1> HIDE DEF r
<1>6. g[r] = h[r]
  <2>1. IsSum(g, f, S) /\ IsSum(h, e, S)
    BY <1>1, <1>2
  <2>2. QED
    BY <1>3, <2>1, SumSame
<1>7. g[r] \in Int
  BY <1>1, <1>3, SumInt
<1>8. f[x] \in Int /\ e[x] \in Int
  OBVIOUS
<1>9. QED
  BY <1>1, <1>2, <1>4, <1>5, <1>6, <1>7, <1>8

\* Equal functions on the set, equal sums.
THEOREM SumEqual ==
  ASSUME NEW S, IsFiniteSet(S), NEW f, NEW e, \A x \in S : f[x] = e[x]
  PROVE  SumFunctionOnSet(f, S) = SumFunctionOnSet(e, S)
<1>1. PICK g : IsSum(g, f, S) /\ SumFunctionOnSet(f, S) = g[S]
  BY SumIs
<1>2. PICK h : IsSum(h, e, S) /\ SumFunctionOnSet(e, S) = h[S]
  BY SumIs
<1>3. g[S] = h[S]
  <2>1. IsSum(g, f, S) /\ IsSum(h, e, S) /\ S \subseteq S /\ Agree(f, e, S)
    BY <1>1, <1>2 DEF Agree
  <2>2. QED
    BY <2>1, SumSame
<1>4. QED
  BY <1>1, <1>2, <1>3

\* A sum is what one element adds, and the sum of the others.
LEMMA SumSplit ==
  ASSUME NEW S, IsFiniteSet(S), NEW f \in [S -> Int], NEW x \in S
  PROVE  SumFunctionOnSet(f, S) = SumFunctionOnSet(f, S \ {x}) + f[x]
<1> DEFINE r == S \ {x}
<1>1. PICK g : IsSum(g, f, S) /\ SumFunctionOnSet(f, S) = g[S]
  BY SumIs
<1>2. r \in SUBSET S /\ r \subseteq r /\ IsFiniteSet(r) /\ Agree(f, f, r)
  BY FS_Subset DEF Agree
<1>3. g[S] = f[x] + g[r]
  BY <1>1, SumAny
<1> HIDE DEF r
<1>4. PICK h : IsSum(h, f, r) /\ SumFunctionOnSet(f, r) = h[r]
  BY <1>2, SumIs
<1>5. g[r] = h[r]
  <2>1. IsSum(g, f, S) /\ IsSum(h, f, r)
    BY <1>1, <1>4
  <2>2. QED
    BY <1>2, <2>1, SumSame
<1>6. g[r] \in Int
  BY <1>1, <1>2, SumInt
<1>7. f[x] \in Int
  OBVIOUS
<1>8. SumFunctionOnSet(f, S) = SumFunctionOnSet(f, r) + f[x]
  BY <1>1, <1>3, <1>4, <1>5, <1>6, <1>7
<1>9. QED
  BY <1>8 DEF r

\* One element more adds its value.
THEOREM SumAdd ==
  ASSUME NEW T, IsFiniteSet(T), NEW x, x \notin T, NEW f, \A y \in T \cup {x} : f[y] \in Int
  PROVE  SumFunctionOnSet(f, T \cup {x}) = SumFunctionOnSet(f, T) + f[x]
<1>1. PICK S : S = T \cup {x}
  OBVIOUS
<1>2. PICK e : e = [y \in S |-> f[y]]
  OBVIOUS
<1>3. IsFiniteSet(S) /\ x \in S /\ S \ {x} = T
  BY <1>1, FS_AddElement
<1>4. e \in [S -> Int] /\ e[x] = f[x] /\ (\A y \in S : f[y] = e[y]) /\ (\A y \in T : f[y] = e[y])
  BY <1>1, <1>2
<1>5. SumFunctionOnSet(e, S) = SumFunctionOnSet(e, S \ {x}) + e[x]
  BY <1>3, <1>4, SumSplit
<1>6. SumFunctionOnSet(f, S) = SumFunctionOnSet(e, S)
  BY <1>3, <1>4, SumEqual
<1>7. SumFunctionOnSet(f, T) = SumFunctionOnSet(e, T)
  BY <1>4, SumEqual
<1>8. QED
  BY <1>1, <1>3, <1>4, <1>5, <1>6, <1>7

\* A sum of zeros is zero: nothing is counted before there are rows.
THEOREM SumZero ==
  ASSUME NEW S, IsFiniteSet(S), NEW f, \A x \in S : f[x] = 0
  PROVE  SumFunctionOnSet(f, S) = 0
<1> DEFINE z == [s \in SUBSET S |-> 0]
<1>1. IsSum(z, f, S)
  <2>1. ASSUME NEW s \in SUBSET S
        PROVE  0 = IF s = {} THEN 0 ELSE f[Pick(s)] + z[s \ {Pick(s)}]
    <3>1. CASE s # {}
      BY <3>1, Rest
    <3>2. QED
      BY <3>1
  <2>2. QED
    BY <2>1 DEF IsSum
<1>2. PICK g : IsSum(g, f, S) /\ SumFunctionOnSet(f, S) = g[S]
  BY SumIs
<1>3. z[S] = 0 /\ S \subseteq S /\ Agree(f, f, S)
  BY DEF Agree
<1> HIDE DEF z
<1>4. g[S] = z[S]
  BY <1>1, <1>2, <1>3, SumSame
<1>5. QED
  BY <1>2, <1>3, <1>4

\* A sum of natural numbers is no less than any of them: what one row holds is
\* part of the total, so that taking it off leaves no negative total.
THEOREM SumAtLeast ==
  ASSUME NEW S, IsFiniteSet(S), NEW f \in [S -> Nat], NEW x \in S
  PROVE  f[x] <= SumFunctionOnSet(f, S)
<1>1. PICK g : IsSum(g, f, S) /\ SumFunctionOnSet(f, S) = g[S]
  BY SumIs
<1> DEFINE Bad == {s \in SUBSET S : ~(g[s] >= 0)}
<1>2. f \in [S -> Int]
  OBVIOUS
<1>3. Bad = {}
  <2>1. SUFFICES ASSUME Bad # {} PROVE FALSE
    OBVIOUS
  <2>2. PICK s \in Bad : \A u \in Bad : u \subseteq s => u = s
    <3>1. Bad \subseteq SUBSET S
      OBVIOUS
    <3> HIDE DEF Bad
    <3>2. QED
      BY <2>1, <3>1, Minimal
  <2>3. s \in SUBSET S /\ ~(g[s] >= 0)
    BY <2>2
  <2>4. s # {}
    <3>1. g[{}] = 0
      BY <1>1, SumEmpty
    <3>2. QED
      BY <2>3, <3>1
  <2> DEFINE r == s \ {Pick(s)}
  <2>5. Pick(s) \in S /\ r \in SUBSET S /\ r \subseteq s /\ r # s
    BY <2>3, <2>4, Rest
  <2>6. g[s] = f[Pick(s)] + g[r]
    <3>1. IsSum(g, f, S) /\ s \in SUBSET S /\ s # {}
      BY <1>1, <2>3, <2>4
    <3> HIDE DEF Bad
    <3>2. QED
      BY <3>1, SumStep
  <2>7. g[r] >= 0
    BY <2>2, <2>5
  <2> HIDE DEF r
  <2>8. g[r] \in Int
    BY <1>1, <1>2, <2>5, SumInt
  <2>9. QED
    BY <2>3, <2>5, <2>6, <2>7, <2>8
<1> DEFINE r == S \ {x}
<1>4. r \in SUBSET S
  OBVIOUS
<1>5. g[S] = f[x] + g[r]
  BY SMTT(40), <1>1, <1>2, SumAny
<1>6. g[r] >= 0
  BY <1>3, <1>4
<1> HIDE DEF r
<1>7. g[r] \in Int
  BY <1>1, <1>2, <1>4, SumInt
<1>8. QED
  BY <1>1, <1>5, <1>6, <1>7

-----------------------------------------------------------------------------
(* First and last members. *)

\* A finite non-empty set has a last member in any order that relates any two
\* of its members and is transitive.
LEMMA HasLast ==
  ASSUME NEW S, IsFiniteSet(S), S # {}, NEW R,
         \A x, y \in S : <<x, y>> \in R \/ <<y, x>> \in R,
         \A x, y, z \in S : <<x, y>> \in R /\ <<y, z>> \in R => <<x, z>> \in R
  PROVE  \E m \in S : \A x \in S : <<x, m>> \in R
<1> DEFINE Bad == {T \in SUBSET S : T # {} /\ ~ \E m \in T : \A x \in T : <<x, m>> \in R}
<1>1. SUFFICES ASSUME Bad # {} PROVE FALSE
  OBVIOUS
<1>2. PICK T \in Bad : \A U \in Bad : U \subseteq T => U = T
  <2>1. Bad \subseteq SUBSET S
    OBVIOUS
  <2> HIDE DEF Bad
  <2>2. QED
    BY <1>1, <2>1, Minimal
<1>3. PICK t \in T : TRUE
  OBVIOUS
<1>4. CASE T = {t}
  BY <1>4
<1>5. CASE T # {t}
  <2>1. T \ {t} # {} /\ T \ {t} \in SUBSET S /\ T \ {t} # T /\ T \ {t} \subseteq T
    BY <1>3, <1>5
  <2>2. T \ {t} \notin Bad
    BY <1>2, <2>1
  <2>3. PICK m \in T \ {t} : \A x \in T \ {t} : <<x, m>> \in R
    BY <2>1, <2>2
  <2>4. m \in S /\ t \in S /\ \A x \in T : x \in S
    BY <1>3, <2>3
  <2>5. CASE <<t, m>> \in R
    BY <2>3, <2>5
  <2>6. CASE <<m, t>> \in R
    <3>1. \A x \in T : <<x, t>> \in R
      BY <2>3, <2>4, <2>6
    <3>2. QED
      BY <1>3, <3>1
  <2>7. QED
    BY <2>4, <2>5, <2>6
<1>6. QED
  BY <1>4, <1>5

\* A finite non-empty set of numbers has a largest.
LEMMA HasLargest ==
  ASSUME NEW S, S \subseteq Int, IsFiniteSet(S), S # {}
  PROVE  \E m \in S : \A x \in S : x <= m
<1> DEFINE R == {e \in Int \X Int : e[1] <= e[2]}
<1>1. \A x, y \in Int : <<x, y>> \in R <=> x <= y
  OBVIOUS
<1>2. /\ \A x, y \in S : <<x, y>> \in R \/ <<y, x>> \in R
      /\ \A x, y, z \in S : <<x, y>> \in R /\ <<y, z>> \in R => <<x, z>> \in R
      /\ \A x, y \in S : <<x, y>> \in R => x <= y
  BY <1>1
<1> HIDE DEF R
<1>3. \E m \in S : \A x \in S : <<x, m>> \in R
  BY <1>2, HasLast
<1>4. QED
  BY <1>2, <1>3

\* A finite non-empty set of numbers has a smallest.
LEMMA HasSmallest ==
  ASSUME NEW S, S \subseteq Int, IsFiniteSet(S), S # {}
  PROVE  \E m \in S : \A x \in S : m <= x
<1> DEFINE R == {e \in Int \X Int : e[2] <= e[1]}
<1>1. \A x, y \in Int : <<x, y>> \in R <=> y <= x
  OBVIOUS
<1>2. /\ \A x, y \in S : <<x, y>> \in R \/ <<y, x>> \in R
      /\ \A x, y, z \in S : <<x, y>> \in R /\ <<y, z>> \in R => <<x, z>> \in R
      /\ \A x, y \in S : <<x, y>> \in R => y <= x
  BY <1>1
<1> HIDE DEF R
<1>3. \E m \in S : \A x \in S : <<x, m>> \in R
  BY <1>2, HasLast
<1>4. QED
  BY <1>2, <1>3
-----------------------------------------------------------------------------
(* Listing a finite set in order. *)

\* f lists S once, each member before those it is related to.
IsListing(f, S, R) ==
  /\ f \in [1..Cardinality(S) -> S]
  /\ \A i, j \in 1..Cardinality(S) : i < j => <<f[i], f[j]>> \in R

HasListing(S, R) == \E f : IsListing(f, S, R)

\* A finite set can be listed in any order that relates any two of its members
\* and is transitive.
LEMMA CanBeListed ==
  ASSUME NEW S, IsFiniteSet(S), NEW R,
         \A x, y \in S : x = y \/ <<x, y>> \in R \/ <<y, x>> \in R,
         \A x, y, z \in S : <<x, y>> \in R /\ <<y, z>> \in R => <<x, z>> \in R
  PROVE  HasListing(S, R)
<1> DEFINE Q == {e \in S \X S : e[1] = e[2] \/ e \in R}
           Bad == {T \in SUBSET S : ~ HasListing(T, R)}
<1>1. SUFFICES ASSUME Bad # {} PROVE FALSE
  OBVIOUS
<1>2. PICK T \in Bad : \A U \in Bad : U \subseteq T => U = T
  <2>1. Bad \subseteq SUBSET S
    OBVIOUS
  <2> HIDE DEF Bad
  <2>2. QED
    BY <1>1, <2>1, Minimal
<1>3. T \in SUBSET S /\ IsFiniteSet(T) /\ \A x \in T : x \in S
  <2>1. T \in SUBSET S
    BY <1>2
  <2>2. QED
    BY <2>1, FS_Subset
<1>4. CASE T = {}
  <2>1. Cardinality({}) = 0
    BY FS_EmptySet
  <2>2. IsListing([i \in 1..0 |-> i], {}, R)
    BY <2>1 DEF IsListing
  <2>3. QED
    BY <1>2, <1>4, <2>2 DEF HasListing
<1>5. CASE T # {}
  <2>1. PICK m \in T : \A x \in T : x = m \/ <<x, m>> \in R
    <3>1. \A x, y \in S : <<x, y>> \in Q <=> (x = y \/ <<x, y>> \in R)
      OBVIOUS
    <3> HIDE DEF Q
    <3>2. /\ \A x, y \in T : <<x, y>> \in Q \/ <<y, x>> \in Q
          /\ \A x, y, z \in T : <<x, y>> \in Q /\ <<y, z>> \in Q => <<x, z>> \in Q
      BY <1>3, <3>1
    <3>3. \E m \in T : \A x \in T : <<x, m>> \in Q
      BY <1>3, <1>5, <3>2, HasLast
    <3>4. QED
      BY <1>3, <3>1, <3>3
  <2> DEFINE U == T \ {m}
             n == Cardinality(U)
  <2>2. U \in SUBSET S /\ U \subseteq T /\ U # T
    BY <1>3
  <2>3. U \notin Bad
    BY <1>2, <2>2
  <2>4. PICK s : IsListing(s, U, R)
    BY <2>2, <2>3 DEF HasListing
  <2>5. n \in Nat /\ Cardinality(T) = n + 1
    <3>1. IsFiniteSet(U) /\ n = Cardinality(T) - 1
      BY <1>3, <2>1, FS_RemoveElement
    <3>2. n \in Nat /\ Cardinality(T) \in Nat
      BY <1>3, <3>1, FS_CardinalityType
    <3>3. QED
      BY <3>1, <3>2
  <2> DEFINE t == [i \in 1..(n + 1) |-> IF i <= n THEN s[i] ELSE m]
  <2>6. s \in [1..n -> U] /\ \A i, j \in 1..n : i < j => <<s[i], s[j]>> \in R
    BY <2>4 DEF IsListing
  <2> HIDE DEF n
  <2>7. t \in [1..(n + 1) -> T]
    BY <2>1, <2>2, <2>5, <2>6
  <2>8. \A i, j \in 1..(n + 1) : i < j => <<t[i], t[j]>> \in R
    <3> SUFFICES ASSUME NEW i \in 1..(n + 1), NEW j \in 1..(n + 1), i < j
                 PROVE  <<t[i], t[j]>> \in R
      OBVIOUS
    <3>1. i \in 1..n /\ t[i] = s[i]
      BY <2>5
    <3>2. CASE j \in 1..n
      BY <2>5, <2>6, <3>1, <3>2
    <3>3. CASE j = n + 1
      <4>1. s[i] \in U /\ t[j] = m
        BY <2>5, <2>6, <3>1, <3>3
      <4>2. QED
        BY <2>1, <3>1, <4>1
    <3>4. QED
      BY <2>5, <3>2, <3>3
  <2>9. IsListing(t, T, R)
    BY <2>5, <2>7, <2>8 DEF IsListing
  <2>10. QED
    BY <1>2, <2>9 DEF HasListing
<1>6. QED
  BY <1>4, <1>5

\* A listing in an order that relates nothing to itself has each member once.
LEMMA ListsEachOnce ==
  ASSUME NEW S, IsFiniteSet(S), NEW R, NEW f, IsListing(f, S, R),
         \A x \in S : <<x, x>> \notin R
  PROVE  /\ Cardinality(S) \in Nat
         /\ \A i, j \in 1..Cardinality(S) : f[i] = f[j] => i = j
         /\ \A x \in S : \E i \in 1..Cardinality(S) : f[i] = x
<1> DEFINE n == Cardinality(S)
           D == 1..n
<1>1. n \in Nat
  BY FS_CardinalityType
<1>2. f \in [D -> S] /\ \A i, j \in D : i < j => <<f[i], f[j]>> \in R
  BY DEF IsListing
<1>3. IsFiniteSet(D) /\ Cardinality(D) = n
  BY <1>1, FS_Interval
<1>4. \A i, j \in D : f[i] = f[j] => i = j
  <2> SUFFICES ASSUME NEW i \in D, NEW j \in D, f[i] = f[j], i < j PROVE FALSE
    BY <1>1
  <2>1. <<f[i], f[j]>> \in R /\ f[i] \in S
    BY <1>2
  <2>2. QED
    BY <2>1
<1>5. f \in Injection(D, S)
  BY <1>2, <1>4 DEF Injection, IsInjective
<1>6. f \in Surjection(D, S)
  BY <1>3, <1>5, FS_Injection
<1>7. QED
  BY <1>1, <1>4, <1>6 DEF Surjection

-----------------------------------------------------------------------------
(* Comparing sums. *)

\* A sum of integers is one.
LEMMA SumIsInt ==
  ASSUME NEW S, IsFiniteSet(S), NEW f, \A x \in S : f[x] \in Int
  PROVE  SumFunctionOnSet(f, S) \in Int
<1>1. PICK e : e = [x \in S |-> f[x]]
  OBVIOUS
<1>2. e \in [S -> Int] /\ \A x \in S : f[x] = e[x]
  BY <1>1
<1>3. SumFunctionOnSet(f, S) = SumFunctionOnSet(e, S) /\ SumFunctionOnSet(e, S) \in Int
  BY <1>2, SumEqual, SumType
<1>4. QED
  BY <1>3

\* f nowhere exceeds g, where a function is 0 outside its set.
NoMore(f, U, g, T, W) ==
  \A x \in W :
    /\ x \in U => f[x] \in Int
    /\ x \in T => g[x] \in Int
    /\ x \in U /\ x \in T => f[x] <= g[x]
    /\ x \in U /\ x \notin T => f[x] <= 0
    /\ x \notin U /\ x \in T => 0 <= g[x]

\* What nowhere exceeds another has no larger sum.
LEMMA SumNoMore ==
  ASSUME NEW S, IsFiniteSet(S), NEW U \in SUBSET S, NEW T \in SUBSET S, NEW f, NEW g,
         NoMore(f, U, g, T, S)
  PROVE  SumFunctionOnSet(f, U) <= SumFunctionOnSet(g, T)
<1> DEFINE F(W) == SumFunctionOnSet(f, U \cap W)
           G(W) == SumFunctionOnSet(g, T \cap W)
           Bad == {W \in SUBSET S : ~(F(W) <= G(W))}
<1>1. SUFFICES ASSUME Bad # {} PROVE FALSE
  <2>1. U \cap S = U /\ T \cap S = T /\ S \in SUBSET S
    OBVIOUS
  <2>2. QED
    BY <1>1, <2>1
<1>2. PICK W \in Bad : \A V \in Bad : V \subseteq W => V = W
  <2>1. Bad \subseteq SUBSET S
    OBVIOUS
  <2> HIDE DEF Bad
  <2>2. QED
    BY <1>1, <2>1, Minimal
<1>3. W \in SUBSET S /\ ~(F(W) <= G(W))
  BY <1>2
<1>4. W # {}
  <2>1. SumFunctionOnSet(f, {}) = 0 /\ SumFunctionOnSet(g, {}) = 0
    BY FS_EmptySet, SumZero
  <2>2. U \cap {} = {} /\ T \cap {} = {}
    OBVIOUS
  <2>3. F({}) = 0 /\ G({}) = 0
    BY <2>1, <2>2
  <2>4. QED
    BY <1>3, <2>3
<1>5. PICK x \in W : TRUE
  BY <1>4
<1> DEFINE V == W \ {x}
           A == U \cap V
           B == T \cap V
<1>6. F(V) <= G(V)
  <2>1. V \in SUBSET S /\ V \subseteq W /\ V # W
    BY <1>3, <1>5
  <2>2. V \notin Bad
    BY <1>2, <2>1
  <2> HIDE DEF V
  <2>3. QED
    BY <2>1, <2>2
<1>7. IsFiniteSet(A) /\ IsFiniteSet(B) /\ x \notin A /\ x \notin B
  <2>1. A \in SUBSET S /\ B \in SUBSET S /\ x \notin A /\ x \notin B
    OBVIOUS
  <2> HIDE DEF A, B
  <2>2. QED
    BY <2>1, FS_Subset
<1>8. /\ \A y \in A : f[y] \in Int
      /\ \A y \in B : g[y] \in Int
  BY <1>3 DEF NoMore
<1>9. SumFunctionOnSet(f, A) \in Int /\ SumFunctionOnSet(g, B) \in Int
  BY <1>7, <1>8, SumIsInt
<1>10. /\ x \in U => f[x] \in Int /\ U \cap W = A \cup {x}
       /\ x \notin U => U \cap W = A
       /\ x \in T => g[x] \in Int /\ T \cap W = B \cup {x}
       /\ x \notin T => T \cap W = B
  BY <1>3, <1>5 DEF NoMore
<1>11. x \in U => \A y \in A \cup {x} : f[y] \in Int
  BY <1>8, <1>10
<1>12. x \in T => \A y \in B \cup {x} : g[y] \in Int
  BY <1>8, <1>10
<1> HIDE DEF A, B, V
<1>13. x \in U => F(W) = SumFunctionOnSet(f, A) + f[x]
  BY <1>7, <1>10, <1>11, SumAdd
<1>14. x \in T => G(W) = SumFunctionOnSet(g, B) + g[x]
  BY <1>7, <1>10, <1>12, SumAdd
<1>15. /\ x \in U /\ x \in T => f[x] <= g[x]
       /\ x \in U /\ x \notin T => f[x] <= 0
       /\ x \notin U /\ x \in T => 0 <= g[x]
  BY <1>3, <1>5 DEF NoMore
<1>16. SumFunctionOnSet(f, A) <= SumFunctionOnSet(g, B)
  BY <1>6 DEF A, B
<1>17. /\ x \notin U => F(W) = SumFunctionOnSet(f, A)
       /\ x \notin T => G(W) = SumFunctionOnSet(g, B)
  BY <1>10
<1>18. ~(F(W) <= G(W))
  BY <1>3
<1> HIDE DEF F, G
<1>19. QED
  BY <1>9, <1>10, <1>13, <1>14, <1>15, <1>16, <1>17, <1>18
=============================================================================
