--------------------------- MODULE PlannerProofs ----------------------------
(***************************************************************************)
(* Proofs about Planner, for all claims, sessions, agents, envelopes and   *)
(* offers: what authenticated a plan never pays, the envelope admits the   *)
(* purchases a plan counts, the option recommended affords the most calls, *)
(* and planning only takes steps of the store.                             *)
(*                                                                         *)
(* What agents have spent is a sum over a set of sessions, and a planner   *)
(* walks along the calls: both are dealt with here by least                *)
(* counterexamples, the sums in lemmas of their own.                       *)
(***************************************************************************)
EXTENDS Planner, ClaimStoreProofs, FiniteSetTheorems, WellFoundedInduction

\* Every planning claim is at or below its session's mark.  Describes compares
\* the claim with the mark of one instant; the mark never falls afterwards.
PlannedAtMostTheMark ==
    /\ planned \subseteq Claims
    /\ \A c \in planned : c.cumulative <= ticket[c.session].cumulative

\* The inductive invariant: the store's, and the above.
PlanInv == StoreInv /\ PlannedAtMostTheMark

-----------------------------------------------------------------------------
\* A step of the store leaves every planning claim below its mark.
LEMMA StoreStepInv ==
    ASSUME PlanInv, StoreNext, UNCHANGED planned
    PROVE  PlanInv'
  <1>1. StoreInv'
    BY StoreNextInv DEF PlanInv
  <1>2. ASSUME NEW c \in planned
        PROVE  c.cumulative <= ticket'[c.session].cumulative
    <2>1. c \in ClaimTypes
      BY StoreAssumption DEF PlanInv, PlannedAtMostTheMark
    <2>2. c.session \in Rows /\ c.cumulative \in Nat
      BY <2>1 DEF ClaimTypes
    <2>3. ticket[c.session].cumulative <= ticket'[c.session].cumulative
      BY <1>1, <2>2, MarkNeverFalls DEF PlanInv
    <2>4. ticket[c.session].cumulative \in Nat
      BY <2>2, MarkIsNat DEF PlanInv
    <2>5. ticket'[c.session].cumulative \in Nat
      BY <1>1, <2>2, MarkValue DEF StoreInv, StoreTypeOK
    <2>6. c.cumulative <= ticket[c.session].cumulative
      BY DEF PlanInv, PlannedAtMostTheMark
    <2> QED
      BY <2>2, <2>3, <2>4, <2>5, <2>6
  <1> QED
    BY <1>1, <1>2 DEF PlanInv, PlannedAtMostTheMark

\* A step that leaves the store and the planning claims alone changes nothing
\* the invariant is about.
LEMMA ReadOnlyInv ==
    ASSUME PlanInv, UNCHANGED storeVars, UNCHANGED planned
    PROVE  PlanInv'
  <1>1. StoreInv'
    BY StoreNextInv DEF PlanInv
  <1> QED
    BY <1>1 DEF PlanInv, PlannedAtMostTheMark, storeVars

\* A claim that describes its session is at the mark.
LEMMA PlanForSessionInv ==
    ASSUME PlanInv, NEW c \in Claims, NEW t \in Times, NEW resource, NEW calls,
           PlanForSession(c, t, resource, calls)
    PROVE  PlanInv'
  <1>1. StoreInv'
    BY StoreNextInv DEF PlanInv, PlanForSession
  <1>2. /\ planned' = planned \cup {c} /\ ticket' = ticket
        /\ c.cumulative = ticket[c.session].cumulative
    BY DEF PlanForSession, Describes, storeVars
  <1>3. c.cumulative \in Nat
    BY StoreAssumption DEF ClaimTypes
  <1> QED
    BY <1>1, <1>2, <1>3 DEF PlanInv, PlannedAtMostTheMark

LEMMA PlanNextInv == PlanInv /\ [PlanNext]_vars => PlanInv'
  <1> SUFFICES ASSUME PlanInv, [PlanNext]_vars PROVE PlanInv'
    OBVIOUS
  <1>1. CASE StoreNext /\ UNCHANGED <<agents, planVars>>
    BY <1>1, StoreStepInv DEF planVars
  <1>2. ASSUME NEW resource \in Resources, NEW calls \in Demands,
               NEW c \in Claims, NEW t \in Times,
               PlanForSession(c, t, resource, calls)
        PROVE  PlanInv'
    BY <1>2, PlanForSessionInv
  <1>3. ASSUME NEW resource \in Resources, NEW calls \in Demands,
               NEW k \in AgentKeys, PlanForOperator(k, resource, calls)
        PROVE  PlanInv'
    BY <1>3, ReadOnlyInv DEF PlanForOperator
  <1>4. CASE ReadAgent
    BY <1>4, ReadOnlyInv DEF ReadAgent
  <1>5. CASE ReadSpend
    BY <1>5, ReadOnlyInv DEF ReadSpend
  <1>6. CASE Abandon
    BY <1>6, ReadOnlyInv DEF Abandon
  <1>7. ASSUME NEW offers \in Offers, Answer(offers) PROVE PlanInv'
    BY <1>7, ReadOnlyInv DEF Answer
  <1>8. ASSUME NEW k \in AgentKeys, NEW a \in Agents, Operate(k, a) PROVE PlanInv'
    BY <1>8, ReadOnlyInv DEF Operate, planVars
  <1>9. CASE UNCHANGED vars
    BY <1>9, ReadOnlyInv DEF vars, storeVars
  <1>10. CASE PlanStep
    BY <1>10, <1>2, <1>3, <1>4, <1>5, <1>6, <1>7 DEF PlanStep
  <1> QED
    BY <1>1, <1>8, <1>9, <1>10 DEF PlanNext

LEMMA PlanInvariance == PlanSpec => []PlanInv
  <1>1. PlanInit => PlanInv
    BY StoreInitInv DEF PlanInit, PlanInv, PlannedAtMostTheMark
  <1> QED
    BY <1>1, PlanNextInv, PTL DEF PlanSpec

\* A claim at or below the mark is refused at every instant.
LEMMA AtMostTheMarkIsRefused ==
    ASSUME PlanInv, NEW c \in planned, NEW t
    PROVE  EvaluateClaim(row[c.session], ticket[c.session], c, t) # "Allowed"
  <1>1. c \in ClaimTypes
    BY StoreAssumption DEF PlanInv, PlannedAtMostTheMark
  <1>2. c.session \in Rows /\ c.cumulative \in Nat
    BY <1>1 DEF ClaimTypes
  <1>3. ticket[c.session].cumulative \in Nat
    BY <1>2, MarkIsNat DEF PlanInv
  <1>4. ~ Forward(ticket[c.session], c)
    BY <1>2, <1>3 DEF PlanInv, PlannedAtMostTheMark, Forward
  <1> QED
    BY <1>4, AllowedMeans

\* The gateway never admits a claim that authenticated a plan, and the claim is
\* for no more than what the gateway has accepted, for every set of sessions,
\* claims and instants (control.rs plan_for_session).
THEOREM PlanningClaimsAddNothing == PlanSpec => []PlanningClaimAddsNothing
  <1>1. PlanInv => PlanningClaimAddsNothing
    <2> SUFFICES ASSUME PlanInv, NEW c \in planned
                 PROVE  /\ \A t \in Times : EvaluateClaim(row[c.session],
                                   ticket[c.session], c, t) # "Allowed"
                        /\ c.cumulative <= ticket[c.session].cumulative
      BY DEF PlanningClaimAddsNothing
    <2>1. c.cumulative <= ticket[c.session].cumulative
      BY DEF PlanInv, PlannedAtMostTheMark
    <2> QED
      BY <2>1, AtMostTheMarkIsRefused
  <1> QED
    BY <1>1, PlanInvariance, PTL

-----------------------------------------------------------------------------
(***************************************************************************)
(* Sums over finite sets.                                                  *)
(***************************************************************************)

\* A non-empty set of numbers has a least element: induction, in a form the
\* provers can apply.
LEMMA LeastNatural ==
    ASSUME NEW T \in SUBSET Nat, T # {}
    PROVE  \E n \in T : \A m \in T : n <= m
  <1> DEFINE R == OpToRel(<, Nat)
  <1>1. IsWellFoundedOn(R, Nat)
    BY NatLessThanWellFounded
  <1>2. \A m, n \in Nat : m < n => <<m, n>> \in R
    BY DEF OpToRel
  <1> HIDE DEF R
  <1>3. PICK n \in T : \A m \in T : ~ (<<m, n>> \in R)
    BY <1>1, WFMin
  <1>4. ASSUME NEW m \in T PROVE n <= m
    <2>1. m \in Nat /\ n \in Nat /\ ~ (m < n)
      BY <1>2, <1>3
    <2> QED
      BY <2>1
  <1> QED
    BY <1>3, <1>4

\* A property of the finite subsets of S that passes from the smaller ones to
\* the next larger one has no smallest counterexample: Bad is the set of them.
LEMMA SmallestCounterexample ==
    ASSUME NEW S, IsFiniteSet(S), NEW Bad \in SUBSET (SUBSET S), Bad # {}
    PROVE  \E T \in Bad : \A U \in SUBSET S :
               Cardinality(U) < Cardinality(T) => U \notin Bad
  <1> DEFINE Sizes == {Cardinality(T) : T \in Bad}
  <1>1. \A T \in SUBSET S : IsFiniteSet(T) /\ Cardinality(T) \in Nat
    BY FS_Subset, FS_CardinalityType
  <1>2. Sizes \in SUBSET Nat /\ Sizes # {}
    BY <1>1
  <1>3. PICK n \in Sizes : \A m \in Sizes : n <= m
    <2> HIDE DEF Sizes
    <2> QED
      BY <1>2, LeastNatural
  <1>4. PICK T \in Bad : Cardinality(T) = n
    BY <1>3
  <1>5. ASSUME NEW U \in SUBSET S, Cardinality(U) < Cardinality(T), U \in Bad
        PROVE  FALSE
    <2>1. Cardinality(T) <= Cardinality(U)
      BY <1>3, <1>4, <1>5
    <2> QED
      BY <1>1, <1>5, <2>1
  <1> QED
    BY <1>5

Pick(s) == CHOOSE x \in s : TRUE

LEMMA PickIsIn == ASSUME NEW s, s # {} PROVE Pick(s) \in s
  BY Zenon DEF Pick

\* g is the running sum of f over the subsets of S, elements taken by Pick.
IsSum(g, f, S) ==
    /\ DOMAIN g = SUBSET S
    /\ g[{}] = 0
    /\ \A s \in SUBSET S : s # {} => g[s] = f[Pick(s)] + g[s \ {Pick(s)}]

SumEquation(g, f, S) ==
    g = [s \in SUBSET S |-> IF s = {} THEN 0 ELSE f[Pick(s)] + g[s \ {Pick(s)}]]

\* The running sum exists.
LEMMA SumExists ==
    ASSUME NEW S, IsFiniteSet(S), NEW f
    PROVE  \E g : SumEquation(g, f, S)
  <1> DEFINE D(n) == {T \in SUBSET S : Cardinality(T) <= n}
             Step(g, s) == IF s = {} THEN 0 ELSE f[Pick(s)] + g[s \ {Pick(s)}]
             Solved(n) == \E g : \A s \in D(n) : g[s] = Step(g, s)
             Bad == {n \in Nat : ~ Solved(n)}
  <1>1. ASSUME NEW T \in SUBSET S
        PROVE  /\ IsFiniteSet(T) /\ Cardinality(T) \in Nat
               /\ Cardinality(T) = 0 => T = {}
               /\ T # {} => /\ T \ {Pick(T)} \in SUBSET S
                            /\ Cardinality(T \ {Pick(T)}) = Cardinality(T) - 1
    BY FS_Subset, FS_CardinalityType, FS_EmptySet, FS_RemoveElement, PickIsIn
  <1>2. Solved(0)
    <2> DEFINE z == [s \in {{}} |-> 0]
    <2>1. ASSUME NEW s \in D(0) PROVE s = {}
      <3>1. s \in SUBSET S /\ Cardinality(s) <= 0
        OBVIOUS
      <3>2. Cardinality(s) \in Nat /\ (Cardinality(s) = 0 => s = {})
        BY <1>1, <3>1
      <3> QED
        BY <3>1, <3>2
    <2>2. \A s \in D(0) : z[s] = Step(z, s)
      BY <2>1
    <2> HIDE DEF z, Step, D
    <2> QED
      BY <2>2
  <1>3. ASSUME NEW n \in Nat, Solved(n)
        PROVE  Solved(n + 1)
    <2>1. PICK g : \A s \in D(n) : g[s] = Step(g, s)
      BY <1>3
    <2> DEFINE h == [s \in D(n + 1) |-> Step(g, s)]
    <2>2. ASSUME NEW s \in D(n) PROVE s \in D(n + 1) /\ h[s] = g[s]
      <3>1. s \in SUBSET S /\ Cardinality(s) <= n /\ Cardinality(s) \in Nat
        BY <1>1
      <3>2. s \in D(n + 1)
        BY <3>1
      <3> HIDE DEF D, Step
      <3> QED
        BY <2>1, <3>2
    <2>3. ASSUME NEW s \in D(n + 1) PROVE h[s] = Step(h, s)
      <3>1. CASE s = {}
        BY <3>1
      <3>2. CASE s # {}
        <4>1. s \ {Pick(s)} \in D(n)
          BY <1>1, <3>2
        <4>2. h[s \ {Pick(s)}] = g[s \ {Pick(s)}]
          BY <2>2, <4>1
        <4>3. h[s] = f[Pick(s)] + g[s \ {Pick(s)}]
          BY <3>2
        <4> QED
          BY <3>2, <4>2, <4>3
      <3> QED
        BY <3>1, <3>2
    <2> HIDE DEF h, Step, D
    <2> QED
      BY <2>3
  <1>4. Bad = {}
    <2> SUFFICES ASSUME Bad # {} PROVE FALSE
      OBVIOUS
    <2> HIDE DEF Solved
    <2>1. PICK n \in Bad : \A m \in Bad : n <= m
      <3>1. Bad \in SUBSET Nat
        OBVIOUS
      <3> HIDE DEF Bad
      <3> QED
        BY <3>1, LeastNatural
    <2>2. n # 0 /\ n \in Nat
      BY <1>2
    <2>3. n - 1 \in Nat /\ n - 1 \notin Bad
      BY <2>1, <2>2
    <2>4. Solved(n - 1)
      BY <2>3
    <2>5. Solved((n - 1) + 1)
      BY <1>3, <2>3, <2>4
    <2>6. (n - 1) + 1 = n
      BY <2>2
    <2> QED
      BY <2>5, <2>6
  <1>5. Solved(Cardinality(S))
    <2> HIDE DEF Solved
    <2> QED
      BY <1>1, <1>4
  <1>6. PICK g : \A s \in D(Cardinality(S)) : g[s] = Step(g, s)
    BY <1>5
  <1> DEFINE h == [s \in SUBSET S |-> g[s]]
  <1>7. ASSUME NEW s \in SUBSET S PROVE g[s] = Step(h, s)
    <2>1. s \in D(Cardinality(S))
      BY FS_Subset
    <2>2. g[s] = Step(g, s)
      BY <1>6, <2>1
    <2>3. s # {} => h[s \ {Pick(s)}] = g[s \ {Pick(s)}]
      BY <1>1
    <2> QED
      BY <2>2, <2>3
  <1>8. h = [s \in SUBSET S |-> Step(h, s)]
    BY <1>7, Zenon
  <1> HIDE DEF h
  <1>9. SumEquation(h, f, S)
    BY <1>8, Zenon DEF SumEquation
  <1> QED
    BY <1>9, Zenon

\* What the recursion equation says, instance by instance.
LEMMA SumUnfolds ==
    ASSUME NEW S, NEW f, NEW g, SumEquation(g, f, S)
    PROVE  IsSum(g, f, S)
  BY DEF IsSum, SumEquation

LEMMA SumIsNat ==
    ASSUME NEW S, IsFiniteSet(S), NEW f, \A x \in S : f[x] \in Nat,
           NEW g, IsSum(g, f, S)
    PROVE  \A T \in SUBSET S : g[T] \in Nat
  <1> DEFINE Bad == {T \in SUBSET S : g[T] \notin Nat}
  <1> SUFFICES ASSUME Bad # {} PROVE FALSE
    OBVIOUS
  <1>1. PICK T \in Bad : \A U \in SUBSET S :
            Cardinality(U) < Cardinality(T) => U \notin Bad
    <2>1. Bad \in SUBSET (SUBSET S)
      OBVIOUS
    <2> HIDE DEF Bad
    <2> QED
      BY <2>1, SmallestCounterexample
  <1>2. T # {} /\ T \in SUBSET S
    BY DEF IsSum
  <1> DEFINE p == Pick(T)
  <1>3. p \in T /\ T \ {p} \in SUBSET S /\ Cardinality(T \ {p}) < Cardinality(T)
    BY <1>2, PickIsIn, FS_RemoveElement, FS_Subset, FS_CardinalityType
  <1>4. g[T \ {p}] \in Nat
    BY <1>1, <1>3
  <1>5. g[T] = f[p] + g[T \ {p}]
    BY <1>2 DEF IsSum
  <1> HIDE DEF p
  <1> QED
    BY <1>1, <1>2, <1>3, <1>4, <1>5

\* An element adds its value, whichever order the elements are taken in.
LEMMA SumAddsElement ==
    ASSUME NEW S, IsFiniteSet(S), NEW f, \A x \in S : f[x] \in Nat,
           NEW g, IsSum(g, f, S)
    PROVE  \A T \in SUBSET S : \A x \in T : g[T] = f[x] + g[T \ {x}]
  <1> DEFINE Adds(T) == \A x \in T : g[T] = f[x] + g[T \ {x}]
             Bad == {T \in SUBSET S : ~ Adds(T)}
  <1> SUFFICES ASSUME Bad # {} PROVE FALSE
    OBVIOUS
  <1> HIDE DEF Adds
  <1>1. PICK T \in Bad : \A U \in SUBSET S :
            Cardinality(U) < Cardinality(T) => U \notin Bad
    <2>1. Bad \in SUBSET (SUBSET S)
      OBVIOUS
    <2> HIDE DEF Bad
    <2> QED
      BY <2>1, SmallestCounterexample
  <1>2. PICK x \in T : g[T] # f[x] + g[T \ {x}]
    BY <1>1 DEF Adds
  <1>3. PICK p : p = Pick(T)
    OBVIOUS
  <1>4. T \in SUBSET S /\ p \in T /\ g[T] = f[p] + g[T \ {p}]
    BY <1>2, <1>3, PickIsIn DEF IsSum
  <1>5. p # x
    BY <1>2, <1>4
  <1>6. ASSUME NEW y \in T PROVE /\ T \ {y} \in SUBSET S /\ Adds(T \ {y})
    <2>1. Cardinality(T \ {y}) < Cardinality(T)
      BY <1>4, FS_RemoveElement, FS_Subset, FS_CardinalityType
    <2> QED
      BY <1>1, <1>4, <2>1
  <1>7. /\ g[T \ {p}] = f[x] + g[(T \ {p}) \ {x}]
        /\ g[T \ {x}] = f[p] + g[(T \ {x}) \ {p}]
    BY <1>2, <1>4, <1>5, <1>6 DEF Adds
  <1>8. PICK V : V = (T \ {p}) \ {x}
    OBVIOUS
  <1>9. V = (T \ {x}) \ {p} /\ V \in SUBSET S
    BY <1>4, <1>8
  <1>10. f[p] \in Nat /\ f[x] \in Nat /\ g[V] \in Nat
    BY <1>2, <1>4, <1>9, SumIsNat
  <1>11. /\ g[T] = f[p] + g[T \ {p}]
         /\ g[T \ {p}] = f[x] + g[V]
         /\ g[T \ {x}] = f[p] + g[V]
    BY <1>4, <1>7, <1>8, <1>9
  <1> QED
    BY <1>2, <1>10, <1>11

\* A sum over more elements of larger values is no smaller.
LEMMA SumGrows ==
    ASSUME NEW S, NEW R, IsFiniteSet(R), S \subseteq R,
           NEW f, NEW h, \A x \in S : f[x] \in Nat /\ f[x] <= h[x],
           \A x \in R : h[x] \in Nat,
           NEW g, IsSum(g, f, S), NEW e, IsSum(e, h, R)
    PROVE  g[S] <= e[R]
  <1>1. IsFiniteSet(S)
    BY FS_Subset
  <1> DEFINE Bad == {T \in SUBSET R : ~ (g[T \cap S] <= e[T])}
  <1>2. ASSUME Bad # {} PROVE FALSE
    <2>1. PICK T \in Bad : \A U \in SUBSET R :
              Cardinality(U) < Cardinality(T) => U \notin Bad
      <3>1. Bad \in SUBSET (SUBSET R)
        OBVIOUS
      <3> HIDE DEF Bad
      <3> QED
        BY <1>2, <3>1, SmallestCounterexample
    <2>2. T \in SUBSET R /\ ~ (g[T \cap S] <= e[T])
      BY <2>1
    <2>3. T # {}
      <3>1. g[{}] = 0 /\ e[{}] = 0 /\ {} \cap S = {}
        BY DEF IsSum
      <3> QED
        BY <2>2, <3>1
    <2>4. PICK p : p = Pick(T)
      OBVIOUS
    <2>5. p \in T /\ e[T] = h[p] + e[T \ {p}]
      BY <2>2, <2>3, <2>4, PickIsIn DEF IsSum
    <2>6. Cardinality(T \ {p}) < Cardinality(T)
      BY <2>2, <2>5, FS_RemoveElement, FS_Subset, FS_CardinalityType
    <2>7. g[(T \ {p}) \cap S] <= e[T \ {p}]
      BY <2>1, <2>2, <2>6
    <2>8. h[p] \in Nat /\ e[T \ {p}] \in Nat
      BY <2>2, <2>5, SumIsNat
    <2>9. CASE p \in S
      <3>1. g[T \cap S] = f[p] + g[(T \cap S) \ {p}]
        BY <1>1, <2>5, <2>9, SumAddsElement
      <3>2. (T \cap S) \ {p} = (T \ {p}) \cap S /\ (T \cap S) \ {p} \in SUBSET S
        OBVIOUS
      <3>3. g[(T \cap S) \ {p}] \in Nat
        BY <1>1, <3>2, SumIsNat
      <3> QED
        BY <2>2, <2>5, <2>7, <2>8, <2>9, <3>1, <3>2, <3>3
    <2>10. CASE p \notin S
      <3>1. (T \ {p}) \cap S = T \cap S /\ T \cap S \in SUBSET S
        BY <2>10
      <3>2. g[T \cap S] \in Nat
        BY <1>1, <3>1, SumIsNat
      <3>3. g[T \cap S] <= e[T \ {p}]
        BY <2>7, <3>1
      <3>4. PICK a, b, c : a = g[T \cap S] /\ b = e[T \ {p}] /\ c = h[p]
        OBVIOUS
      <3>5. a \in Nat /\ b \in Nat /\ c \in Nat /\ a <= b /\ e[T] = c + b
        BY <2>5, <2>8, <3>2, <3>3, <3>4
      <3>6. a <= e[T]
        BY <3>5
      <3> QED
        BY <2>2, <3>4, <3>6
    <2> QED
      BY <2>9, <2>10
  <1>3. R \notin Bad
    BY <1>2
  <1>4. R \cap S = S
    OBVIOUS
  <1> QED
    BY <1>3, <1>4

-----------------------------------------------------------------------------
(***************************************************************************)
(* agent_spend.                                                            *)
(***************************************************************************)

SumOfMarks(tk, S) == MapThenSumSet(LAMBDA s : tk[s].cumulative, S)

\* The spend is a running sum of marks.
LEMMA SpentIsSum ==
    ASSUME NEW tk, NEW S, IsFiniteSet(S)
    PROVE  \E g : /\ IsSum(g, [s \in S |-> tk[s].cumulative], S)
                  /\ SumOfMarks(tk, S) = g[S]
  <1> DEFINE f == [s \in S |-> tk[s].cumulative]
             P(g) == g = [s \in SUBSET S |->
                             IF s = {} THEN 0
                             ELSE tk[Pick(s)].cumulative + g[s \ {Pick(s)}]]
             G == CHOOSE g : P(g)
  <1>1. PICK h : SumEquation(h, f, S)
    <2> HIDE DEF f
    <2> QED
      BY SumExists
  <1>2. \A s \in SUBSET S : s # {} => f[Pick(s)] = tk[Pick(s)].cumulative
    BY PickIsIn
  <1>3. P(h)
    BY <1>1, <1>2 DEF SumEquation
  <1>4. P(G)
    <2> HIDE DEF P
    <2> QED
      BY <1>3, Zenon
  <1>5. SumOfMarks(tk, S) = G[S]
    BY Zenon DEF SumOfMarks, MapThenSumSet, MapThenFoldSet, Pick
  <1> HIDE DEF G
  <1>6. SumEquation(G, f, S)
    BY <1>2, <1>4 DEF SumEquation
  <1>7. IsSum(G, f, S)
    <2> HIDE DEF f, P
    <2> QED
      BY <1>6, SumUnfolds
  <1> QED
    BY <1>5, <1>7

\* The positions of a log's admitted decisions.
AllowedIn(l) == {i \in DOMAIN l : l[i].decision = "Allowed"}

SumOfCalls(lg, S) == MapThenSumSet(LAMBDA s : Cardinality(AllowedIn(lg[s])), S)

\* The number of calls is a running sum of admitted decisions.
LEMMA CallsIsSum ==
    ASSUME NEW lg, NEW S, IsFiniteSet(S)
    PROVE  \E g : /\ IsSum(g, [s \in S |-> Cardinality(AllowedIn(lg[s]))], S)
                  /\ SumOfCalls(lg, S) = g[S]
  <1> DEFINE f == [s \in S |-> Cardinality(AllowedIn(lg[s]))]
             P(g) == g = [s \in SUBSET S |->
                             IF s = {} THEN 0
                             ELSE Cardinality(AllowedIn(lg[Pick(s)]))
                                    + g[s \ {Pick(s)}]]
             G == CHOOSE g : P(g)
  <1>1. PICK h : SumEquation(h, f, S)
    <2> HIDE DEF f
    <2> QED
      BY SumExists
  <1>2. \A s \in SUBSET S :
            s # {} => f[Pick(s)] = Cardinality(AllowedIn(lg[Pick(s)]))
    BY PickIsIn
  <1>3. P(h)
    BY <1>1, <1>2 DEF SumEquation
  <1>4. P(G)
    <2> HIDE DEF P
    <2> QED
      BY <1>3, Zenon
  <1>5. SumOfCalls(lg, S) = G[S]
    BY Zenon DEF SumOfCalls, MapThenSumSet, MapThenFoldSet, Pick
  <1> HIDE DEF G
  <1>6. SumEquation(G, f, S)
    BY <1>2, <1>4 DEF SumEquation
  <1>7. IsSum(G, f, S)
    <2> HIDE DEF f, P
    <2> QED
      BY <1>6, SumUnfolds
  <1> QED
    BY <1>5, <1>7

\* A log has finitely many admitted decisions.
LEMMA AllowedIsFinite ==
    ASSUME NEW l \in Seq(Entries)
    PROVE  /\ IsFiniteSet(AllowedIn(l))
           /\ Cardinality(AllowedIn(l)) \in Nat
  <1>1. AllowedIn(l) \in SUBSET (1 .. Len(l)) /\ Len(l) \in Nat
    BY DEF AllowedIn
  <1>2. IsFiniteSet(1 .. Len(l))
    BY <1>1, FS_Interval
  <1> QED
    BY <1>1, <1>2, FS_Subset, FS_CardinalityType

\* Both sums are numbers.
LEMMA SpendIsNat ==
    ASSUME StoreInv, NEW k, IsFiniteSet(SessionsOf(k))
    PROVE  Spent(k) \in Nat /\ Calls(k) \in Nat
  <1>1. PICK S : S = SessionsOf(k)
    OBVIOUS
  <1>2. IsFiniteSet(S) /\ S \in SUBSET Rows /\ S \in SUBSET S
    BY <1>1 DEF SessionsOf
  <1>3. Spent(k) \in Nat
    <2> DEFINE f == [s \in S |-> ticket[s].cumulative]
    <2>1. PICK g : IsSum(g, f, S) /\ SumOfMarks(ticket, S) = g[S]
      BY <1>2, SpentIsSum
    <2>2. \A x \in S : f[x] \in Nat
      BY <1>2, MarkIsNat
    <2>3. g[S] \in Nat
      <3> HIDE DEF f
      <3> QED
        BY <1>2, <2>1, <2>2, SumIsNat
    <2> QED
      BY <1>1, <2>1, <2>3 DEF Spent, SumOfMarks
  <1>4. Calls(k) \in Nat
    <2> DEFINE f == [s \in S |-> Cardinality(AllowedIn(log[s]))]
    <2>1. PICK g : IsSum(g, f, S) /\ SumOfCalls(log, S) = g[S]
      BY <1>2, CallsIsSum
    <2>2. \A x \in S : f[x] \in Nat
      BY <1>2, AllowedIsFinite DEF StoreInv, StoreTypeOK
    <2>3. g[S] \in Nat
      <3> HIDE DEF f
      <3> QED
        BY <1>2, <2>1, <2>2, SumIsNat
    <2> QED
      BY <1>1, <2>1, <2>3 DEF Calls, Allowed, AllowedIn, SumOfCalls
  <1> QED
    BY <1>3, <1>4

\* More sessions with longer logs: no fewer calls.
LEMMA CallsGrow ==
    ASSUME StoreInv, StoreInv', NEW k, IsFiniteSet(SessionsOf(k)'),
           SessionsOf(k) \subseteq SessionsOf(k)',
           \A s \in Rows : AllowedIn(log[s]) \subseteq AllowedIn(log'[s])
    PROVE  Calls(k) <= Calls(k)' /\ Calls(k)' \in Nat
  <1>1. PICK S, R : S = SessionsOf(k) /\ R = SessionsOf(k)'
    OBVIOUS
  <1>2. S \subseteq R /\ R \subseteq Rows /\ IsFiniteSet(R)
    BY <1>1 DEF SessionsOf
  <1>3. IsFiniteSet(S)
    BY <1>2, FS_Subset
  <1>4. PICK lg, mg : lg = log /\ mg = log'
    OBVIOUS
  <1>5. /\ \A s \in Rows : lg[s] \in Seq(Entries) /\ mg[s] \in Seq(Entries)
        /\ \A s \in Rows : AllowedIn(lg[s]) \subseteq AllowedIn(mg[s])
    BY <1>4 DEF StoreInv, StoreTypeOK
  <1> DEFINE f == [s \in S |-> Cardinality(AllowedIn(lg[s]))]
             h == [s \in R |-> Cardinality(AllowedIn(mg[s]))]
  <1>6. PICK g : IsSum(g, f, S) /\ SumOfCalls(lg, S) = g[S]
    BY <1>3, CallsIsSum
  <1>7. PICK e : IsSum(e, h, R) /\ SumOfCalls(mg, R) = e[R]
    BY <1>2, CallsIsSum
  <1>8. ASSUME NEW x \in R PROVE h[x] \in Nat /\ (x \in S => f[x] \in Nat /\ f[x] <= h[x])
    <2>1. x \in Rows
      BY <1>2
    <2>2. /\ IsFiniteSet(AllowedIn(mg[x])) /\ Cardinality(AllowedIn(mg[x])) \in Nat
          /\ IsFiniteSet(AllowedIn(lg[x])) /\ Cardinality(AllowedIn(lg[x])) \in Nat
      BY <1>5, <2>1, AllowedIsFinite
    <2>3. Cardinality(AllowedIn(lg[x])) <= Cardinality(AllowedIn(mg[x]))
      BY <1>5, <2>1, <2>2, FS_Subset
    <2> QED
      BY <2>2, <2>3
  <1>9. g[S] <= e[R] /\ e[R] \in Nat
    <2>1. \A x \in S : f[x] \in Nat /\ f[x] <= h[x]
      BY <1>2, <1>8
    <2>2. \A x \in R : h[x] \in Nat
      BY <1>8
    <2> HIDE DEF f, h
    <2> QED
      BY <1>2, <1>6, <1>7, <2>1, <2>2, SumGrows, SumIsNat
  <1>10. Calls(k) = g[S]
    BY <1>1, <1>4, <1>6 DEF Calls, Allowed, AllowedIn, SumOfCalls
  <1>11. Calls(k)' = e[R]
    <2>1. Calls(k)' = SumOfCalls(log', SessionsOf(k)')
      BY Zenon DEF Calls, Allowed, AllowedIn, SumOfCalls, SessionsOf,
                   MapThenSumSet, MapThenFoldSet
    <2> QED
      BY <1>1, <1>4, <1>7, <2>1
  <1> QED
    BY <1>9, <1>10, <1>11

-----------------------------------------------------------------------------
(***************************************************************************)
(* The walk.                                                               *)
(***************************************************************************)

Spends == [spent : Nat, calls : Nat]

\* What an envelope may be, for an agent record that has one.
EnvelopeOf(a, p) == a \in Agents /\ p \in a.policy

LEMMA EnvelopeFacts ==
    ASSUME NEW a, NEW p, EnvelopeOf(a, p)
    PROVE  /\ a.policy = {p}
           /\ p.max_per_call \in Nat /\ p.max_total \in Nat
           /\ p.max_calls \subseteq Nat
  <1>1. a.policy \in {{}} \cup {{q} : q \in Policies}
    BY DEF EnvelopeOf, Agents
  <1>2. PICK q \in Policies : a.policy = {q}
    BY <1>1 DEF EnvelopeOf
  <1>3. p = q
    BY <1>2 DEF EnvelopeOf
  <1> QED
    BY <1>2, <1>3, PolicyAssumption

\* Products of larger numbers are larger.
LEMMA ProductsGrow ==
    ASSUME NEW m \in Nat, NEW n \in Nat, NEW u \in Nat, NEW v \in Nat,
           m <= n, u <= v
    PROVE  m * u \in Nat /\ n * v \in Nat /\ m * u <= n * v
  <1>1. m * u \in Nat /\ n * v \in Nat /\ m * v \in Nat
    OBVIOUS
  <1>2. m * u <= m * v
    OBVIOUS
  <1>3. m * v <= n * v
    OBVIOUS
  <1> QED
    BY <1>1, <1>2, <1>3

\* The decision a planner reads is one of policy::evaluate's.
LEMMA RefusalMeans ==
    ASSUME NEW a, NEW p, NEW resource, NEW cost, NEW spent, NEW calls
    PROVE  Refused(EvaluatePolicy(a, p, resource, cost, spent, calls)) <=>
               \/ a.status # "active"
               \/ p.allowed_resources # {} /\ resource \notin p.allowed_resources
               \/ cost > p.max_per_call
               \/ \E n \in p.max_calls : calls >= n
               \/ spent + cost > p.max_total
  BY DEF EvaluatePolicy, Refused

\* Once refused, refused from then on, at that price and at any higher one.
LEMMA RefusalStays ==
    ASSUME NEW a, NEW p, EnvelopeOf(a, p), NEW resource,
           NEW u \in Nat, NEW v \in Nat, u <= v, NEW spend \in Spends,
           NEW m \in Nat, NEW n \in Nat, m <= n,
           Refused(Decision(a, p, resource, u, spend, m))
    PROVE  Refused(Decision(a, p, resource, v, spend, n))
  <1>1. /\ p.max_per_call \in Nat /\ p.max_total \in Nat /\ p.max_calls \subseteq Nat
    BY EnvelopeFacts
  <1>2. spend.spent \in Nat /\ spend.calls \in Nat
    BY DEF Spends
  <1>3. m * u \in Nat /\ n * v \in Nat /\ m * u <= n * v
    BY ProductsGrow
  <1>4. \A x \in Nat, w \in Nat :
            Decision(a, p, resource, w, spend, x) =
            EvaluatePolicy(a, p, resource, w, spend.spent + x * w, spend.calls + x)
    BY DEF Decision, After
  <1>5. PICK y, z : y = m * u /\ z = n * v
    OBVIOUS
  <1>6. Refused(EvaluatePolicy(a, p, resource, u, spend.spent + y, spend.calls + m))
    BY <1>4, <1>5
  <1>7. \/ a.status # "active"
        \/ p.allowed_resources # {} /\ resource \notin p.allowed_resources
        \/ u > p.max_per_call
        \/ \E q \in p.max_calls : spend.calls + m >= q
        \/ (spend.spent + y) + u > p.max_total
    BY <1>6, RefusalMeans
  <1>8. u > p.max_per_call => v > p.max_per_call
    BY <1>1
  <1>9. ASSUME NEW q \in p.max_calls, spend.calls + m >= q
        PROVE  spend.calls + n >= q
    BY <1>1, <1>2, <1>9
  <1>10. (spend.spent + y) + u > p.max_total => (spend.spent + z) + v > p.max_total
    <2>1. y \in Nat /\ z \in Nat /\ y <= z
      BY <1>3, <1>5
    <2> QED
      BY <1>1, <1>2, <2>1
  <1>11. Refused(EvaluatePolicy(a, p, resource, v, spend.spent + z, spend.calls + n))
    BY <1>7, <1>8, <1>9, <1>10, RefusalMeans
  <1> QED
    BY <1>4, <1>5, <1>11

\* The walk ends at the first call that is refused, or after the last.
LEMMA WalkEnds ==
    ASSUME NEW a, NEW p, NEW resource, NEW unit, NEW spend, NEW calls \in Nat
    PROVE  LET A == Affordable(a, p, resource, unit, spend, calls)
           IN  /\ A \in 0 .. calls
               /\ \A m \in 0 .. A - 1 :
                      ~ Refused(Decision(a, p, resource, unit, spend, m))
               /\ A = calls \/ Refused(Decision(a, p, resource, unit, spend, A))
  <1> DEFINE Stops(n) == Refused(Decision(a, p, resource, unit, spend, n))
             Ends == {n \in 0 .. calls : n = calls \/ Stops(n)}
             P(n) == /\ \A m \in 0 .. n - 1 : ~ Stops(m)
                     /\ n = calls \/ Stops(n)
             A == CHOOSE n \in 0 .. calls : P(n)
  <1> HIDE DEF Stops
  <1>1. Ends \in SUBSET Nat /\ calls \in Ends
    OBVIOUS
  <1>2. PICK n \in Ends : \A m \in Ends : n <= m
    <2> HIDE DEF Ends
    <2> QED
      BY <1>1, LeastNatural
  <1>3. ASSUME NEW m \in 0 .. n - 1 PROVE ~ Stops(m)
    <2>1. n \in 0 .. calls
      BY <1>2
    <2>2. m \in 0 .. calls /\ ~ (n <= m)
      BY <2>1
    <2> QED
      BY <1>2, <2>2
  <1>4. n \in 0 .. calls /\ P(n)
    BY <1>2, <1>3
  <1>5. A \in 0 .. calls /\ P(A)
    <2> HIDE DEF P
    <2> QED
      BY <1>4, Zenon
  <1>6. Affordable(a, p, resource, unit, spend, calls) = A
    BY Zenon DEF Affordable, Stops
  <1> HIDE DEF A
  <1> QED
    BY <1>5, <1>6 DEF Stops

\* What an option says, for an agent without an envelope and for one with.
Says(a, o, resource, spend, calls) ==
    /\ o.unit \in Nat /\ o.affordable \in 0 .. calls
    /\ o.affordable = 0 <=> o.refused_by # {}
    /\ a.policy = {} => o.affordable = calls
    /\ \A p \in a.policy :
         /\ \A m \in 0 .. o.affordable - 1 :
                ~ Refused(Decision(a, p, resource, o.unit, spend, m))
         /\ \/ o.affordable = calls
            \/ Refused(Decision(a, p, resource, o.unit, spend, o.affordable))

LEMMA OptionMeans ==
    ASSUME NEW a \in Agents, NEW offer, offer.unit \in Nat, NEW resource,
           NEW spend, NEW calls \in Nat \ {0}
    PROVE  Says(a, Option(a, offer, resource, spend, calls), resource, spend, calls)
  <1>0. PICK o : o = Option(a, offer, resource, spend, calls)
    OBVIOUS
  <1> SUFFICES Says(a, o, resource, spend, calls)
    BY <1>0
  <1>1. CASE a.policy = {}
    <2>1. o = [provider |-> offer.provider, unit |-> offer.unit,
               affordable |-> calls, refused_by |-> {}, needs_approval |-> FALSE]
      BY <1>0, <1>1 DEF Option
    <2> QED
      BY <1>1, <2>1 DEF Says
  <1>2. CASE a.policy # {}
    <2>1. PICK p : p \in a.policy
      BY <1>2
    <2>2. a.policy = {p}
      BY <2>1, EnvelopeFacts DEF EnvelopeOf
    <2>3. (CHOOSE e \in a.policy : TRUE) = p
      BY <2>2
    <2>4. PICK first : first = Decision(a, p, resource, offer.unit, spend, 0)
      OBVIOUS
    <2>5. PICK A : A = Affordable(a, p, resource, offer.unit, spend, calls)
      OBVIOUS
    <2>6. o = [provider |-> offer.provider, unit |-> offer.unit,
               affordable |-> IF Refused(first) THEN 0 ELSE A,
               refused_by |-> IF Refused(first) THEN {first} ELSE {},
               needs_approval |-> first = "NeedsApproval"]
      BY <1>0, <1>2, <2>3, <2>4, <2>5 DEF Option
    <2>7. /\ A \in 0 .. calls
          /\ \A m \in 0 .. A - 1 :
                 ~ Refused(Decision(a, p, resource, offer.unit, spend, m))
          /\ A = calls \/ Refused(Decision(a, p, resource, offer.unit, spend, A))
      BY <2>5, WalkEnds
    <2>8. CASE Refused(first)
      <3>1. o.unit = offer.unit /\ o.affordable = 0 /\ o.refused_by # {}
        BY <2>6, <2>8
      <3>2. Refused(Decision(a, p, resource, o.unit, spend, o.affordable))
        BY <2>4, <2>8, <3>1
      <3> QED
        BY <1>2, <2>2, <3>1, <3>2 DEF Says
    <2>9. CASE ~ Refused(first)
      <3>1. o.unit = offer.unit /\ o.affordable = A /\ o.refused_by = {}
        BY <2>6, <2>9
      <3>2. A # 0
        BY <2>4, <2>7, <2>9
      <3> QED
        BY <1>2, <2>2, <2>7, <3>1, <3>2 DEF Says
    <2> QED
      BY <2>8, <2>9
  <1> QED
    BY <1>1, <1>2

-----------------------------------------------------------------------------
(***************************************************************************)
(* What holds of a planner under way, and of the last answer.              *)
(***************************************************************************)

\* A spend read for agent k: it is a past value, and the calls only grew.
PastSpend(k, spend) == spend \in Spends /\ spend.calls <= Calls(k)

PlanOK ==
    /\ plan.at \in {"agent", "spend", "offers"} =>
           plan.key \in AgentKeys /\ plan.calls \in Nat \ {0}
    /\ plan.at \in {"spend", "offers"} => plan.who \in Agents
    /\ plan.at = "offers" => PastSpend(plan.key, plan.spend)

\* The options are those of some catalogues; the recommendation is the cheapest
\* of the usable ones, if any.
AdviceOK ==
    advice.given =>
        /\ advice.key \in AgentKeys /\ advice.calls \in Nat \ {0}
        /\ advice.who \in Agents
        /\ PastSpend(advice.key, advice.spend)
        /\ \E offers \in Offers :
              advice.options = {Option(advice.who, o, advice.resource, advice.spend,
                                       advice.calls) : o \in offers}
        /\ \/ Cheapest(Recommendable(advice.options)) = {} /\ advice.recommended = {}
           \/ \E o \in Cheapest(Recommendable(advice.options)) :
                 advice.recommended = {o}

\* Only finitely many sessions were opened so far, so the sums are numbers.
Known == {s \in Rows : row[s].known}

AdviceInv ==
    /\ IsFiniteSet(Known)
    /\ agents \in [AgentKeys -> {NoAgent} \cup Agents]
    /\ PlanOK
    /\ AdviceOK

\* An answer as the invariant describes it keeps its word.
LEMMA KeptAdvice ==
    ASSUME AdviceInv, StoreInv PROVE PlanIsKept
  <1> SUFFICES ASSUME advice.given, NEW o \in advice.options,
                      NEW p \in advice.who.policy,
                      NEW n, n = Calls(advice.key) - advice.spend.calls,
                      n < advice.calls,
                      Spent(advice.key) = advice.spend.spent + n * o.unit
               PROVE  Refused(EvaluatePolicy(advice.who, p, advice.resource, o.unit,
                                    Spent(advice.key), Calls(advice.key)))
                      <=> n >= o.affordable
    BY DEF PlanIsKept
  <1>1. /\ advice.key \in AgentKeys /\ advice.calls \in Nat \ {0}
        /\ advice.who \in Agents /\ PastSpend(advice.key, advice.spend)
    BY DEF AdviceInv, AdviceOK
  <1>2. PICK offers \in Offers :
            advice.options = {Option(advice.who, x, advice.resource, advice.spend,
                                     advice.calls) : x \in offers}
    BY DEF AdviceInv, AdviceOK
  <1>3. PICK offer \in offers :
            o = Option(advice.who, offer, advice.resource, advice.spend, advice.calls)
    BY <1>2
  <1>4. offer.unit \in Nat
    BY PolicyAssumption DEF Offers
  <1>5. PICK a, k, resource, spend, calls :
            /\ a = advice.who /\ k = advice.key /\ resource = advice.resource
            /\ spend = advice.spend /\ calls = advice.calls
    OBVIOUS
  <1>6. /\ o.unit \in Nat /\ o.affordable \in 0 .. calls
        /\ \A m \in 0 .. o.affordable - 1 :
               ~ Refused(Decision(a, p, resource, o.unit, spend, m))
        /\ \/ o.affordable = calls
           \/ Refused(Decision(a, p, resource, o.unit, spend, o.affordable))
    <2>1. Says(a, o, resource, spend, calls)
      BY <1>1, <1>3, <1>4, <1>5, OptionMeans
    <2> QED
      BY <1>5, <2>1 DEF Says
  <1>7. SessionsOf(k) \in SUBSET Known
    BY DEF SessionsOf, Known
  <1>8. Calls(k) \in Nat /\ spend \in Spends /\ spend.calls <= Calls(k)
    BY <1>1, <1>5, <1>7, SpendIsNat, FS_Subset DEF AdviceInv, PastSpend
  <1>9. n \in Nat /\ Calls(k) = spend.calls + n
    BY <1>5, <1>8 DEF Spends
  <1>10. Decision(a, p, resource, o.unit, spend, n) =
         EvaluatePolicy(a, p, resource, o.unit, Spent(k), Calls(k))
    BY <1>5, <1>9 DEF Decision, After
  <1>11. EnvelopeOf(a, p)
    BY <1>1, <1>5 DEF EnvelopeOf
  <1>12. CASE n >= o.affordable
    <2>1. Refused(Decision(a, p, resource, o.unit, spend, o.affordable))
      BY <1>5, <1>6, <1>9, <1>12
    <2>2. Refused(Decision(a, p, resource, o.unit, spend, n))
      BY <1>1, <1>5, <1>6, <1>8, <1>9, <1>11, <1>12, <2>1, RefusalStays
    <2> QED
      BY <1>5, <1>10, <1>12, <2>2
  <1>13. CASE ~ (n >= o.affordable)
    <2>1. ~ Refused(Decision(a, p, resource, o.unit, spend, n))
      BY <1>6, <1>9, <1>13
    <2> QED
      BY <1>5, <1>10, <1>13, <2>1
  <1> QED
    BY <1>12, <1>13

\* At a lower price the walk goes no less far.
LEMMA CheaperAffordsMore ==
    ASSUME NEW a \in Agents, NEW resource, NEW spend \in Spends,
           NEW calls \in Nat \ {0},
           NEW r, Says(a, r, resource, spend, calls),
           NEW o, Says(a, o, resource, spend, calls),
           r.unit <= o.unit
    PROVE  r.affordable >= o.affordable
  <1>1. /\ r.unit \in Nat /\ r.affordable \in 0 .. calls
        /\ a.policy = {} => r.affordable = calls
        /\ \A p \in a.policy :
               \/ r.affordable = calls
               \/ Refused(Decision(a, p, resource, r.unit, spend, r.affordable))
    BY DEF Says
  <1>2. /\ o.unit \in Nat /\ o.affordable \in 0 .. calls
        /\ \A p \in a.policy : \A m \in 0 .. o.affordable - 1 :
               ~ Refused(Decision(a, p, resource, o.unit, spend, m))
    BY DEF Says
  <1>3. CASE r.affordable = calls
    BY <1>2, <1>3
  <1>4. CASE r.affordable # calls
    <2>1. PICK p : p \in a.policy
      BY <1>1, <1>4
    <2>2. Refused(Decision(a, p, resource, r.unit, spend, r.affordable))
      BY <1>1, <1>4, <2>1
    <2>3. EnvelopeOf(a, p)
      BY <2>1 DEF EnvelopeOf
    <2>4. r.affordable \in Nat /\ r.affordable <= r.affordable
      BY <1>1
    <2>5. Refused(Decision(a, p, resource, o.unit, spend, r.affordable))
      BY <1>1, <1>2, <2>2, <2>3, <2>4, RefusalStays
    <2>6. r.affordable \notin 0 .. o.affordable - 1
      BY <1>2, <2>1, <2>5
    <2> QED
      BY <1>1, <1>2, <2>6
  <1> QED
    BY <1>3, <1>4

\* Among options with prices there is a cheapest.
LEMMA CheapestExists ==
    ASSUME NEW O, O # {}, \A o \in O : o.unit \in Nat
    PROVE  Cheapest(O) # {}
  <1> DEFINE Units == {o.unit : o \in O}
  <1>1. Units \in SUBSET Nat /\ Units # {}
    OBVIOUS
  <1>2. PICK u \in Units : \A v \in Units : u <= v
    <2> HIDE DEF Units
    <2> QED
      BY <1>1, LeastNatural
  <1>3. PICK o \in O : o.unit = u
    BY <1>2
  <1>4. o \in Cheapest(O)
    BY <1>2, <1>3 DEF Cheapest
  <1> QED
    BY <1>4

LEMMA BestAdvice ==
    ASSUME AdviceInv PROVE RecommendationAffordsMost
  <1> SUFFICES ASSUME advice.given
               PROVE  /\ advice.recommended = {}
                            <=> \A o \in advice.options : o.affordable = 0
                      /\ \A r \in advice.recommended, o \in advice.options :
                             /\ r.affordable > 0 /\ r.affordable >= o.affordable
                             /\ o.affordable = 0 <=> o.refused_by # {}
    BY DEF RecommendationAffordsMost
  <1>1. /\ advice.calls \in Nat \ {0} /\ advice.who \in Agents
        /\ advice.spend \in Spends
    BY DEF AdviceInv, AdviceOK, PastSpend
  <1>2. PICK offers \in Offers :
            advice.options = {Option(advice.who, x, advice.resource, advice.spend,
                                     advice.calls) : x \in offers}
    BY DEF AdviceInv, AdviceOK
  <1>3. ASSUME NEW o \in advice.options
        PROVE  Says(advice.who, o, advice.resource, advice.spend, advice.calls)
    <2>1. PICK offer \in offers :
              o = Option(advice.who, offer, advice.resource, advice.spend, advice.calls)
      BY <1>2, <1>3
    <2>2. offer.unit \in Nat
      BY PolicyAssumption DEF Offers
    <2> QED
      BY <1>1, <2>1, <2>2, OptionMeans
  <1>4. ASSUME NEW o \in advice.options
        PROVE  /\ o.unit \in Nat /\ o.affordable \in Nat
               /\ o.affordable = 0 <=> o.refused_by # {}
    BY <1>1, <1>3 DEF Says
  <1>5. PICK U : U = Recommendable(advice.options)
    OBVIOUS
  <1>6. U = {o \in advice.options : o.affordable > 0}
    BY <1>5 DEF Recommendable
  <1>7. \/ Cheapest(U) = {} /\ advice.recommended = {}
        \/ \E o \in Cheapest(U) : advice.recommended = {o}
    BY <1>5 DEF AdviceInv, AdviceOK
  <1>8. U # {} => Cheapest(U) # {}
    BY <1>4, <1>6, CheapestExists
  <1>9. Cheapest(U) \subseteq U
    BY DEF Cheapest
  <1>10. advice.recommended = {} <=> U = {}
    BY <1>7, <1>8, <1>9
  <1>11. U = {} <=> \A o \in advice.options : o.affordable = 0
    BY <1>4, <1>6
  <1>12. ASSUME NEW r \in advice.recommended, NEW o \in advice.options
         PROVE  r.affordable > 0 /\ r.affordable >= o.affordable
    <2>1. r \in Cheapest(U)
      BY <1>7
    <2>2. r \in advice.options /\ r.affordable > 0 /\ \A q \in U : r.unit <= q.unit
      BY <1>6, <2>1 DEF Cheapest
    <2>3. CASE o.affordable = 0
      BY <1>4, <2>2, <2>3
    <2>4. CASE o.affordable # 0
      <3>1. r.unit <= o.unit
        BY <1>4, <1>6, <2>2, <2>4
      <3> QED
        BY <1>1, <1>3, <2>2, <3>1, CheaperAffordsMore
    <2> QED
      BY <2>3, <2>4
  <1> QED
    BY <1>4, <1>10, <1>11, <1>12

-----------------------------------------------------------------------------
\* What a step of the store does to the sums: sessions stay known and their
\* agents', and logs only grow.
LEMMA StoreGrows ==
    ASSUME StoreInv, IsFiniteSet(Known), StoreNext
    PROVE  /\ IsFiniteSet(Known')
           /\ \A k : SessionsOf(k) \subseteq SessionsOf(k)'
           /\ \A s \in Rows : AllowedIn(log[s]) \subseteq AllowedIn(log'[s])
  <1> DEFINE Goal ==
        /\ IsFiniteSet(Known')
        /\ \A s \in Rows : row[s].known => row'[s].known /\ row'[s].agent = row[s].agent
        /\ \A s \in Rows : AllowedIn(log[s]) \subseteq AllowedIn(log'[s])
  <1>1. /\ \A s \in Rows : row[s] \in {NoRow} \cup SessionRows
        /\ \A s \in Rows : log[s] \in Seq(Entries)
        /\ row \in [Rows -> {NoRow} \cup SessionRows]
        /\ log \in [Rows -> Seq(Entries)]
    BY DEF StoreInv, StoreTypeOK
  <1>2. ASSUME NEW s \in Rows, NEW agent \in AgentKeys, NEW deposit \in Amounts,
               NEW expires \in Expiries, NEW verified \in BOOLEAN,
               OpenRow(s, agent, deposit, expires, verified)
        PROVE  Goal
    <2>1. /\ ~ row[s].known /\ log' = log
          /\ \A r \in Rows : r # s => row'[r] = row[r]
      BY <1>1, <1>2 DEF OpenRow
    <2>2. Known' \in SUBSET (Known \cup {s})
      BY <2>1 DEF Known
    <2>3. IsFiniteSet(Known')
      BY <2>2, FS_AddElement, FS_Subset
    <2> QED
      BY <2>1, <2>3
  <1>3. ASSUME NEW c \in ClaimTypes, NEW e \in Entries,
               log' = [log EXCEPT ![c.session] = Append(@, e)], row' = row
        PROVE  Goal
    <2>1. ASSUME NEW s \in Rows PROVE AllowedIn(log[s]) \subseteq AllowedIn(log'[s])
      <3>1. CASE s # c.session
        BY <1>1, <1>3, <3>1
      <3>2. CASE s = c.session
        <4>1. log'[s] = Append(log[s], e)
          BY <1>1, <1>3, <3>2
        <4>2. \A i \in DOMAIN log[s] :
                  i \in DOMAIN Append(log[s], e) /\ Append(log[s], e)[i] = log[s][i]
          BY <1>1, AppendPositions
        <4> QED
          BY <4>1, <4>2 DEF AllowedIn
      <3> QED
        BY <3>1, <3>2
    <2>2. Known' = Known
      BY <1>3 DEF Known
    <2> QED
      BY <1>3, <2>1, <2>2
  <1>4. ASSUME NEW c \in Claims, NEW t \in Times, AcceptClaim(c, t)
        PROVE  Goal
    <2>1. c \in ClaimTypes
      BY StoreAssumption
    <2>2. Entry("Allowed", c) \in Entries
      BY <2>1, EntryType DEF Decisions
    <2>3. log' = [log EXCEPT ![c.session] = Append(@, Entry("Allowed", c))] /\ row' = row
      BY <1>4 DEF AcceptClaim
    <2> HIDE DEF Goal
    <2> QED
      BY <1>3, <2>1, <2>2, <2>3
  <1>5. ASSUME NEW c \in Claims, NEW t \in Times, RefuseClaim(c, t)
        PROVE  Goal
    <2>1. c \in ClaimTypes
      BY StoreAssumption
    <2>2. PICK d : d = EvaluateClaim(row[c.session], ticket[c.session], c, t)
      OBVIOUS
    <2>3. /\ d # "Allowed" /\ Recorded(d) /\ row' = row
          /\ log' = [log EXCEPT ![c.session] = Append(@, Entry(d, c))]
      BY <1>5, <2>2 DEF RefuseClaim
    <2>4. d \in {"Allowed"} \cup Refusals
      BY <2>2, VerdictType
    <2>5. d \in Decisions
      BY <2>3, <2>4 DEF Recorded, Decisions
    <2>6. Entry(d, c) \in Entries
      BY <2>1, <2>5, EntryType
    <2> HIDE DEF Goal
    <2> QED
      BY <1>3, <2>1, <2>3, <2>6
  <1>6. ASSUME NEW s \in Rows, MarkSettled(s) \/ MarkChainVerified(s)
        PROVE  Goal
    <2>1. row[s].known /\ row[s] \in SessionRows
      BY <1>6, KnownRow DEF MarkSettled, MarkChainVerified
    <2>2. /\ row'[s].known /\ row'[s].agent = row[s].agent
          /\ \A r \in Rows : r # s => row'[r] = row[r]
          /\ log' = log
      BY <1>1, <1>6, <2>1 DEF MarkSettled, MarkChainVerified, SessionRows
    <2>3. Known' = Known
      BY <2>1, <2>2 DEF Known
    <2> QED
      BY <2>2, <2>3
  <1>7. Goal
    <2> HIDE DEF Goal
    <2> QED
      BY <1>2, <1>4, <1>5, <1>6 DEF StoreNext
  <1> QED
    BY <1>7 DEF SessionsOf

\* What a step does to a spend that was read: it stays a past one.
LEMMA PastSpendStays ==
    ASSUME StoreInv, IsFiniteSet(Known), [StoreNext]_storeVars,
           NEW k, NEW spend, PastSpend(k, spend)
    PROVE  IsFiniteSet(Known') /\ spend.calls <= Calls(k)' /\ spend \in Spends
  <1>1. StoreInv'
    BY StoreNextInv
  <1>2. /\ IsFiniteSet(Known')
        /\ \A x : SessionsOf(x) \subseteq SessionsOf(x)'
        /\ \A s \in Rows : AllowedIn(log[s]) \subseteq AllowedIn(log'[s])
    <2>1. CASE StoreNext
      BY <2>1, StoreGrows
    <2>2. CASE UNCHANGED storeVars
      BY <2>2 DEF storeVars, Known, SessionsOf
    <2> QED
      BY <2>1, <2>2
  <1>3. SessionsOf(k)' \in SUBSET Known' /\ SessionsOf(k) \in SUBSET Known
    BY DEF SessionsOf, Known
  <1>4. IsFiniteSet(SessionsOf(k)') /\ IsFiniteSet(SessionsOf(k))
    BY <1>2, <1>3, FS_Subset
  <1>5. Calls(k) <= Calls(k)' /\ Calls(k)' \in Nat
    BY <1>1, <1>2, <1>4, CallsGrow
  <1>6. Calls(k) \in Nat
    BY <1>4, SpendIsNat
  <1> QED
    BY <1>2, <1>5, <1>6 DEF PastSpend, Spends

\* The calls of the agent a primed variable names are those of that agent.
LEMMA PrimedKeys ==
    ASSUME NEW k
    PROVE  /\ k = plan'.key => Calls(plan.key)' = Calls(k)'
           /\ k = advice'.key => Calls(advice.key)' = Calls(k)'
           /\ UNCHANGED storeVars => Calls(k)' = Calls(k)
  <1>1. /\ Calls(k) = SumOfCalls(log, SessionsOf(k))
        /\ Calls(k)' = SumOfCalls(log', SessionsOf(k)')
    BY Zenon DEF Calls, Allowed, AllowedIn, SumOfCalls, SessionsOf,
                 MapThenSumSet, MapThenFoldSet
  <1>2. Calls(plan.key)' = SumOfCalls(log', SessionsOf(plan.key)')
    BY Zenon DEF Calls, Allowed, AllowedIn, SumOfCalls, SessionsOf,
                 MapThenSumSet, MapThenFoldSet
  <1>3. Calls(advice.key)' = SumOfCalls(log', SessionsOf(advice.key)')
    BY Zenon DEF Calls, Allowed, AllowedIn, SumOfCalls, SessionsOf,
                 MapThenSumSet, MapThenFoldSet
  <1>4. /\ k = plan'.key => SessionsOf(plan.key)' = SessionsOf(k)'
        /\ k = advice'.key => SessionsOf(advice.key)' = SessionsOf(k)'
        /\ UNCHANGED storeVars => SessionsOf(k)' = SessionsOf(k) /\ log' = log
    BY DEF SessionsOf, storeVars
  <1> QED
    BY <1>1, <1>2, <1>3, <1>4

\* An answer already given, and a planner that does not move, stay as they are
\* while the store goes on.
LEMMA AdviceStays ==
    ASSUME StoreInv, AdviceInv, [StoreNext]_storeVars
    PROVE  /\ IsFiniteSet(Known')
           /\ UNCHANGED advice => AdviceOK'
           /\ UNCHANGED plan => PlanOK'
  <1>1. IsFiniteSet(Known')
    <2>1. CASE StoreNext
      BY <2>1, StoreGrows DEF AdviceInv
    <2>2. CASE UNCHANGED storeVars
      BY <2>2 DEF storeVars, Known, AdviceInv
    <2> QED
      BY <2>1, <2>2
  <1>2. ASSUME UNCHANGED advice PROVE AdviceOK'
    <2> SUFFICES ASSUME advice.given PROVE AdviceOK'
      BY <1>2 DEF AdviceOK
    <2>1. /\ advice.key \in AgentKeys /\ advice.calls \in Nat \ {0}
          /\ advice.who \in Agents
          /\ PastSpend(advice.key, advice.spend)
          /\ \E offers \in Offers :
                advice.options = {Option(advice.who, o, advice.resource, advice.spend,
                                         advice.calls) : o \in offers}
          /\ \/ Cheapest(Recommendable(advice.options)) = {} /\ advice.recommended = {}
             \/ \E o \in Cheapest(Recommendable(advice.options)) :
                   advice.recommended = {o}
      BY DEF AdviceInv, AdviceOK
    <2>2. PICK k, spend : k = advice.key /\ spend = advice.spend
      OBVIOUS
    <2>3. PastSpend(k, spend)
      BY <2>1, <2>2
    <2>4. spend.calls <= Calls(k)' /\ spend \in Spends
      BY <2>3, PastSpendStays DEF AdviceInv
    <2>5. Calls(advice.key)' = Calls(k)'
      BY <1>2, <2>2, PrimedKeys
    <2>6. PastSpend(advice.key, advice.spend)'
      BY <1>2, <2>2, <2>4, <2>5 DEF PastSpend
    <2> QED
      BY <1>2, <2>1, <2>6 DEF AdviceOK
  <1>3. ASSUME UNCHANGED plan PROVE PlanOK'
    <2>1. ASSUME plan.at = "offers" PROVE PastSpend(plan.key, plan.spend)'
      <3>1. PICK k, spend : k = plan.key /\ spend = plan.spend
        OBVIOUS
      <3>2. PastSpend(k, spend)
        BY <2>1, <3>1 DEF AdviceInv, PlanOK
      <3>3. spend.calls <= Calls(k)' /\ spend \in Spends
        BY <3>2, PastSpendStays DEF AdviceInv
      <3>4. Calls(plan.key)' = Calls(k)'
        BY <1>3, <3>1, PrimedKeys
      <3> QED
        BY <1>3, <3>1, <3>3, <3>4 DEF PastSpend
    <2> QED
      BY <1>3, <2>1 DEF AdviceInv, PlanOK
  <1> QED
    BY <1>1, <1>2, <1>3

\* Only the idle planner has no key: what the fields of a new one are.
LEMMA NewPlan ==
    ASSUME NEW k, NEW resource, NEW calls
    PROVE  /\ Ask(k, resource, calls).at = "agent"
           /\ Ask(k, resource, calls).key = k
           /\ Ask(k, resource, calls).calls = calls
           /\ NoPlan.at = "idle"
  BY DEF Ask, NoPlan

\* A planner that begins knows its agent's key and a demand above zero.
LEMMA AskInv ==
    ASSUME StoreInv, AdviceInv, NEW k \in AgentKeys, NEW resource,
           NEW calls \in Demands, calls > 0, plan' = Ask(k, resource, calls),
           UNCHANGED <<storeVars, agents, advice>>
    PROVE  AdviceInv'
  <1>1. IsFiniteSet(Known') /\ AdviceOK'
    BY AdviceStays
  <1>2. plan'.at = "agent" /\ plan'.key = k /\ plan'.calls = calls
    BY NewPlan
  <1>3. calls \in Nat \ {0}
    BY PlannerAssumption
  <1>4. PlanOK'
    BY <1>2, <1>3 DEF PlanOK
  <1> QED
    BY <1>1, <1>4 DEF AdviceInv

\* A planner that ends leaves nothing behind.
LEMMA EndInv ==
    ASSUME StoreInv, AdviceInv, plan' = NoPlan, AdviceOK',
           UNCHANGED <<storeVars, agents>>
    PROVE  AdviceInv'
  <1>1. IsFiniteSet(Known')
    BY AdviceStays
  <1>2. plan'.at = "idle"
    BY NewPlan
  <1>3. PlanOK'
    BY <1>2 DEF PlanOK
  <1> QED
    BY <1>1, <1>3 DEF AdviceInv

LEMMA ReadAgentInv ==
    ASSUME StoreInv, AdviceInv, ReadAgent PROVE AdviceInv'
  <1>1. IsFiniteSet(Known') /\ AdviceOK'
    BY AdviceStays DEF ReadAgent
  <1>2. CASE agents[plan.key].exists
    <2>1. plan.key \in AgentKeys /\ plan.calls \in Nat \ {0}
      BY DEF ReadAgent, AdviceInv, PlanOK
    <2>2. agents[plan.key] \in Agents
      <3>1. NoAgent.exists = FALSE
        BY DEF NoAgent
      <3> QED
        BY <1>2, <2>1, <3>1 DEF AdviceInv
    <2>3. plan' = [at |-> "spend", key |-> plan.key, who |-> agents[plan.key],
                   resource |-> plan.resource, calls |-> plan.calls]
      BY <1>2 DEF ReadAgent
    <2>4. /\ plan'.at = "spend" /\ plan'.key = plan.key
          /\ plan'.who = agents[plan.key] /\ plan'.calls = plan.calls
      BY <2>3
    <2>5. PlanOK'
      BY <2>1, <2>2, <2>4 DEF PlanOK
    <2> QED
      BY <1>1, <2>5 DEF AdviceInv, ReadAgent
  <1>3. CASE ~ agents[plan.key].exists
    BY <1>1, <1>3, EndInv DEF ReadAgent
  <1> QED
    BY <1>2, <1>3

LEMMA ReadSpendInv ==
    ASSUME StoreInv, AdviceInv, ReadSpend PROVE AdviceInv'
  <1>1. IsFiniteSet(Known') /\ AdviceOK'
    BY AdviceStays DEF ReadSpend
  <1>2. PICK k, sp, n : k = plan.key /\ sp = Spent(plan.key) /\ n = Calls(plan.key)
    OBVIOUS
  <1>3. sp = Spent(k) /\ n = Calls(k)
    BY <1>2
  <1>4. SessionsOf(k) \in SUBSET Known
    BY DEF SessionsOf, Known
  <1>5. sp \in Nat /\ n \in Nat
    BY <1>3, <1>4, FS_Subset, SpendIsNat DEF AdviceInv
  <1>6. /\ plan'.at = "offers" /\ plan'.key = k /\ plan'.who = plan.who
        /\ plan'.calls = plan.calls /\ plan'.spend = [spent |-> sp, calls |-> n]
    BY <1>2 DEF ReadSpend
  <1>7. k \in AgentKeys /\ plan.calls \in Nat \ {0} /\ plan.who \in Agents
    BY <1>2 DEF ReadSpend, AdviceInv, PlanOK
  <1>8. Calls(k)' = n
    BY <1>3, PrimedKeys DEF ReadSpend
  <1>9. Calls(plan.key)' = n
    BY <1>6, <1>8, PrimedKeys
  <1>10. PastSpend(plan.key, plan.spend)'
    BY <1>5, <1>6, <1>9 DEF PastSpend, Spends
  <1>11. PlanOK'
    BY <1>6, <1>7, <1>10 DEF PlanOK
  <1> QED
    BY <1>1, <1>11 DEF AdviceInv, ReadSpend

LEMMA AnswerInv ==
    ASSUME StoreInv, AdviceInv, NEW offers \in Offers, Answer(offers)
    PROVE  AdviceInv'
  <1>1. PICK who, resource, spend, calls, k :
            /\ who = plan.who /\ resource = plan.resource /\ spend = plan.spend
            /\ calls = plan.calls /\ k = plan.key
    OBVIOUS
  <1>2. PICK options : options = {Option(who, o, resource, spend, calls) : o \in offers}
    OBVIOUS
  <1>3. PICK best : best = Cheapest(Recommendable(options))
    OBVIOUS
  <1>4. PICK recommended \in IF best = {} THEN {{}} ELSE {{o} : o \in best} :
            advice' = [given |-> TRUE, key |-> k, who |-> who,
                       resource |-> resource, calls |-> calls,
                       spend |-> spend, options |-> options,
                       recommended |-> recommended]
    BY <1>1, <1>2, <1>3 DEF Answer
  <1>5. /\ advice'.key = k /\ advice'.who = who /\ advice'.resource = resource
        /\ advice'.calls = calls /\ advice'.spend = spend
        /\ advice'.options = options /\ advice'.recommended = recommended
    BY <1>4
  <1>6. /\ k \in AgentKeys /\ calls \in Nat \ {0} /\ who \in Agents
        /\ PastSpend(k, spend)
    BY <1>1 DEF Answer, AdviceInv, PlanOK
  <1>7. spend.calls <= Calls(k)' /\ spend \in Spends
    BY <1>6, PastSpendStays DEF AdviceInv, Answer
  <1>8. Calls(advice.key)' = Calls(k)'
    BY <1>5, PrimedKeys
  <1>9. PastSpend(advice.key, advice.spend)'
    BY <1>5, <1>7, <1>8 DEF PastSpend
  <1>10. \/ best = {} /\ recommended = {}
         \/ \E o \in best : recommended = {o}
    BY <1>4
  <1>11. \/ Cheapest(Recommendable(advice'.options)) = {} /\ advice'.recommended = {}
         \/ \E o \in Cheapest(Recommendable(advice'.options)) :
               advice'.recommended = {o}
    BY <1>3, <1>5, <1>10
  <1>12. advice'.options = {Option(advice'.who, o, advice'.resource, advice'.spend,
                                   advice'.calls) : o \in offers}
    BY <1>2, <1>5
  <1>13. AdviceOK'
    BY <1>5, <1>6, <1>9, <1>11, <1>12 DEF AdviceOK
  <1> QED
    BY <1>13, EndInv DEF Answer

LEMMA AdviceNextInv == StoreInv /\ AdviceInv /\ [PlanNext]_vars => AdviceInv'
  <1> SUFFICES ASSUME StoreInv, AdviceInv, [PlanNext]_vars PROVE AdviceInv'
    OBVIOUS
  <1>1. CASE StoreNext /\ UNCHANGED <<agents, planVars>>
    BY <1>1, AdviceStays DEF AdviceInv, planVars
  <1>2. ASSUME NEW resource \in Resources, NEW calls \in Demands,
               NEW c \in Claims, NEW t \in Times,
               PlanForSession(c, t, resource, calls)
        PROVE  AdviceInv'
    <2>1. c.session \in Rows /\ row[c.session].known
      BY <1>2, StoreAssumption DEF PlanForSession, ClaimTypes
    <2>2. row[c.session].agent \in AgentKeys
      BY <2>1, KnownRow DEF SessionRows
    <2> QED
      BY <1>2, <2>2, AskInv DEF PlanForSession
  <1>3. ASSUME NEW resource \in Resources, NEW calls \in Demands,
               NEW k \in AgentKeys, PlanForOperator(k, resource, calls)
        PROVE  AdviceInv'
    BY <1>3, AskInv DEF PlanForOperator
  <1>4. CASE ReadAgent
    BY <1>4, ReadAgentInv
  <1>5. CASE ReadSpend
    BY <1>5, ReadSpendInv
  <1>6. CASE Abandon
    BY <1>6, AdviceStays, EndInv DEF Abandon
  <1>7. ASSUME NEW offers \in Offers, Answer(offers) PROVE AdviceInv'
    BY <1>7, AnswerInv
  <1>8. ASSUME NEW k \in AgentKeys, NEW a \in Agents, Operate(k, a) PROVE AdviceInv'
    <2>1. IsFiniteSet(Known') /\ AdviceOK' /\ PlanOK'
      BY <1>8, AdviceStays DEF Operate, planVars
    <2>2. agents' \in [AgentKeys -> {NoAgent} \cup Agents]
      BY <1>8 DEF Operate, AdviceInv
    <2> QED
      BY <2>1, <2>2 DEF AdviceInv
  <1>9. CASE UNCHANGED vars
    BY <1>9, AdviceStays DEF AdviceInv, vars, storeVars
  <1>10. CASE PlanStep
    BY <1>10, <1>2, <1>3, <1>4, <1>5, <1>6, <1>7 DEF PlanStep
  <1> QED
    BY <1>1, <1>8, <1>9, <1>10 DEF PlanNext

LEMMA AdviceInvariance == PlanSpec => [](StoreInv /\ AdviceInv)
  <1>1. PlanInit => AdviceInv
    <2> SUFFICES ASSUME PlanInit PROVE AdviceInv
      OBVIOUS
    <2>1. Known = {}
      BY DEF PlanInit, StoreInit, Known, NoRow
    <2>2. IsFiniteSet(Known)
      BY <2>1, FS_EmptySet
    <2>3. NoAgent.exists = FALSE /\ NoPlan.at = "idle" /\ NoAdvice.given = FALSE
      BY DEF NoAgent, NoPlan, NoAdvice
    <2>4. plan.at = "idle" /\ ~ advice.given
      BY <2>3 DEF PlanInit
    <2>5. agents \in [AgentKeys -> {NoAgent} \cup Agents]
      BY DEF PlanInit
    <2> QED
      BY <2>2, <2>4, <2>5 DEF AdviceInv, PlanOK, AdviceOK
  <1>2. PlanInv => StoreInv
    BY DEF PlanInv
  <1> QED
    BY <1>1, <1>2, PlanInvariance, AdviceNextInv, PTL DEF PlanSpec

\* A plan is kept, whatever was bought, opened and settled since it was made, in
\* however many sessions (control.rs plan_options): the walk's count is where
\* the envelope turns the agent away.  Purchases only add calls, and a refusal
\* stays one as calls and spend grow.
THEOREM PlansAreKept == PlanSpec => []PlanIsKept
  <1>1. StoreInv /\ AdviceInv => PlanIsKept
    BY KeptAdvice
  <1> QED
    BY <1>1, AdviceInvariance, PTL

\* The cheapest usable option affords the most calls, for every envelope and
\* every set of offers (control.rs plan_options).
THEOREM CheapestAffordsMost == PlanSpec => []RecommendationAffordsMost
  <1>1. AdviceInv => RecommendationAffordsMost
    BY BestAdvice
  <1> QED
    BY <1>1, AdviceInvariance, PTL

\* The planners change nothing in the session store: what it does beside them
\* is a behaviour of the store alone (control.rs plan, plan_for_session).
THEOREM PlannersOnlyRead == PlanSpec => StoreSpec
  <1>1. PlanInit => StoreInit
    BY DEF PlanInit
  <1>2. [PlanNext]_vars => [StoreNext]_storeVars
    BY DEF PlanNext, PlanStep, PlanForSession, PlanForOperator, ReadAgent,
           ReadSpend, Answer, Abandon, Operate, vars, storeVars
  <1> QED
    BY <1>1, <1>2, PTL DEF PlanSpec, StoreSpec
=============================================================================
