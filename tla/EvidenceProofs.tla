--------------------------- MODULE EvidenceProofs ---------------------------
(***************************************************************************)
(* Proofs about Evidence, for logs of every length and whatever is done to *)
(* the table: every entry can be proved against the root, a proof speaks   *)
(* only of what was recorded, and any change of the table shows.           *)
(*                                                                         *)
(* What is proved by induction here is proved by the least number that     *)
(* would be a counterexample, or by InductionUpTo, which says that a set   *)
(* with 0 in it, closed under the next number, holds all numbers up to N.  *)
(***************************************************************************)
EXTENDS Evidence, FiniteSetTheorems, WellFoundedInduction, TLAPS

-----------------------------------------------------------------------------
(***************************************************************************)
(* Numbers.                                                                *)
(***************************************************************************)

\* A non-empty set of numbers has a least element.
LEMMA LeastNatural ==
    ASSUME NEW T \in SUBSET Nat, T # {}
    PROVE  \E n \in T : \A m \in T : n <= m
  <1> DEFINE R == OpToRel(<, Nat)
  <1>1. IsWellFoundedOn(R, Nat)
    BY NatLessThanWellFounded
  <1>2. \A m, n \in Nat : m < n => <<m, n>> \in R
    BY DEF OpToRel
  <1> HIDE DEF R
  <1>3. PICK n \in T : \A m \in T : ~ (<<m, n>> \in R)
    BY <1>1, WFMin
  <1>4. ASSUME NEW m \in T PROVE n <= m
    <2>1. m \in Nat /\ n \in Nat /\ ~ (m < n)
      BY <1>2, <1>3
    <2> QED
      BY <2>1
  <1> QED
    BY <1>3, <1>4

LEMMA InductionUpTo ==
    ASSUME NEW N \in Nat, NEW Good, 0 \in Good,
           \A n \in 0 .. N - 1 : n \in Good => n + 1 \in Good
    PROVE  \A n \in 0 .. N : n \in Good
  <1> DEFINE Bad == {n \in 0 .. N : n \notin Good}
  <1> SUFFICES ASSUME Bad # {} PROVE FALSE
    OBVIOUS
  <1>1. Bad \in SUBSET Nat
    OBVIOUS
  <1>2. PICK n \in Bad : \A m \in Bad : n <= m
    <2> HIDE DEF Bad
    <2> QED
      BY <1>1, LeastNatural
  <1>3. n \in 0 .. N /\ n # 0 /\ n \notin Good
    BY <1>2
  <1>4. n - 1 \in 0 .. N - 1 /\ n - 1 \in Good
    BY <1>2, <1>3
  <1>5. (n - 1) + 1 \in Good
    BY <1>4
  <1> QED
    BY <1>3, <1>5

-----------------------------------------------------------------------------
(***************************************************************************)
(* Sequences, whatever their elements are.                                 *)
(***************************************************************************)

Sequence(s) == \E T : s \in Seq(T)

LEMMA SequenceFacts ==
    ASSUME NEW s, Sequence(s)
    PROVE  /\ Len(s) \in Nat /\ DOMAIN s = 1 .. Len(s)
           /\ s = << >> <=> Len(s) = 0
           /\ s = [i \in 1 .. Len(s) |-> s[i]]
  <1>1. PICK T : s \in Seq(T)
    BY DEF Sequence
  <1> QED
    BY <1>1

LEMMA FunctionIsSequence ==
    ASSUME NEW k \in Nat, NEW f, DOMAIN f = 1 .. k, f = [i \in 1 .. k |-> f[i]]
    PROVE  Sequence(f) /\ Len(f) = k
  <1> DEFINE T == {f[i] : i \in 1 .. k}
  <1>1. f \in [1 .. k -> T]
    OBVIOUS
  <1>2. f \in Seq(T)
    <2> HIDE DEF T
    <2> QED
      BY <1>1
  <1>3. Len(f) = k
    BY <1>1, <1>2
  <1> QED
    BY <1>2, <1>3 DEF Sequence

LEMMA SameSequence ==
    ASSUME NEW s, NEW t, Sequence(s), Sequence(t), Len(s) = Len(t),
           \A i \in 1 .. Len(s) : s[i] = t[i]
    PROVE  s = t
  <1>1. /\ s = [i \in 1 .. Len(s) |-> s[i]]
        /\ t = [i \in 1 .. Len(t) |-> t[i]]
    BY SequenceFacts
  <1> QED
    BY <1>1, Zenon

\* Zeroes, a pair and an entry are hashes of three kinds.
LEMMA Kinds ==
    /\ \A a, b : Zeroes # <<a, b>>
    /\ \A a, b, c : Zeroes # <<a, b, c>>
    /\ \A a, b, c, d, e : <<a, b>> # <<c, d, e>>
    /\ \A a, b, c, d : <<a, b>> = <<c, d>> => a = c /\ b = d
    /\ \A a, b, c, d, e, f :
           <<a, b, c>> = <<d, e, f>> => a = d /\ b = e /\ c = f
  BY DEF Zeroes

-----------------------------------------------------------------------------
(***************************************************************************)
(* The levels of the tree.                                                 *)
(***************************************************************************)

LEMMA UpFacts ==
    ASSUME NEW s, Sequence(s)
    PROVE  /\ Sequence(Up(s)) /\ Len(Up(s)) = (Len(s) + 1) \div 2
           /\ \A i \in 1 .. (Len(s) + 1) \div 2 :
                 Up(s)[i] = <<s[2 * i - 1],
                              s[IF 2 * i <= Len(s) THEN 2 * i ELSE 2 * i - 1]>>
  <1>1. PICK k : k = (Len(s) + 1) \div 2
    OBVIOUS
  <1>2. Len(s) \in Nat
    BY SequenceFacts
  <1>3. k \in Nat
    BY <1>1, <1>2
  <1>4. PICK f : f = Up(s)
    OBVIOUS
  <1>5. /\ DOMAIN f = 1 .. k
        /\ \A i \in 1 .. k :
              f[i] = <<s[2 * i - 1],
                       s[IF 2 * i <= Len(s) THEN 2 * i ELSE 2 * i - 1]>>
        /\ f = [i \in 1 .. k |-> f[i]]
    BY <1>1, <1>4 DEF Up, HashPair
  <1>6. Sequence(f) /\ Len(f) = k
    BY <1>3, <1>5, FunctionIsSequence
  <1> QED
    BY <1>1, <1>4, <1>5, <1>6

\* What the loop keeps: from the leaves up, every level but the last has more
\* than one node, and the next is made of it.
Rising(v, leaves) ==
    /\ Sequence(v) /\ Len(v) >= 1 /\ v[1] = leaves
    /\ \A n \in 1 .. Len(v) : Sequence(v[n]) /\ (leaves # << >> => Len(v[n]) >= 1)
    /\ \A n \in 1 .. Len(v) - 1 : Len(v[n]) > 1 /\ v[n + 1] = Up(v[n])

IsTree(v, leaves) == Rising(v, leaves) /\ Len(v[Len(v)]) <= 1

LEMMA GrownExists ==
    ASSUME NEW leaves, NEW N \in Nat
    PROVE  \E g : g = [n \in 0 .. N |-> IF n = 0 THEN <<leaves>> ELSE Round(g[n - 1])]
  <1> DEFINE Step(g, n) == IF n = 0 THEN <<leaves>> ELSE Round(g[n - 1])
             Solved(m) == \E g : \A n \in 0 .. m : g[n] = Step(g, n)
             Good == {m \in 0 .. N : Solved(m)}
  <1>1. 0 \in Good
    <2> DEFINE z == [n \in 0 .. 0 |-> <<leaves>>]
    <2>1. \A n \in 0 .. 0 : z[n] = Step(z, n)
      OBVIOUS
    <2> HIDE DEF z, Step
    <2> QED
      BY <2>1
  <1>2. ASSUME NEW m \in 0 .. N - 1, m \in Good
        PROVE  m + 1 \in Good
    <2>1. PICK g : \A n \in 0 .. m : g[n] = Step(g, n)
      BY <1>2
    <2> DEFINE h == [n \in 0 .. m + 1 |-> Step(g, n)]
    <2>2. ASSUME NEW n \in 0 .. m PROVE h[n] = g[n]
      <3>1. h[n] = Step(g, n)
        <4> HIDE DEF Step
        <4> QED
          BY <2>2
      <3> HIDE DEF h, Step
      <3> QED
        BY <2>1, <3>1
    <2>3. ASSUME NEW n \in 0 .. m + 1 PROVE h[n] = Step(h, n)
      <3>1. h[n] = Step(g, n)
        OBVIOUS
      <3>2. CASE n = 0
        BY <3>1, <3>2
      <3>3. CASE n # 0
        <4>1. n - 1 \in 0 .. m
          BY <3>3
        <4>2. h[n - 1] = g[n - 1]
          BY <2>2, <4>1
        <4> HIDE DEF h
        <4> QED
          BY <3>1, <3>3, <4>2
      <3> QED
        BY <3>2, <3>3
    <2>4. Solved(m + 1)
      <3> HIDE DEF h, Step
      <3> QED
        BY <2>3
    <2> HIDE DEF Solved
    <2> QED
      BY <2>4
  <1>3. N \in Good
    <2> HIDE DEF Good
    <2> QED
      BY <1>1, <1>2, InductionUpTo
  <1>4. PICK g : \A n \in 0 .. N : g[n] = Step(g, n)
    BY <1>3
  <1> DEFINE h == [n \in 0 .. N |-> g[n]]
  <1>5. ASSUME NEW n \in 0 .. N PROVE g[n] = Step(h, n)
    <2>1. n # 0 => h[n - 1] = g[n - 1]
      OBVIOUS
    <2> HIDE DEF h
    <2> QED
      BY <1>4, <2>1
  <1>6. h = [n \in 0 .. N |-> Step(h, n)]
    BY <1>5, Zenon
  <1> HIDE DEF h
  <1> QED
    BY <1>6, Zenon

\* The recursion of Grown, instance by instance.
LEMMA GrownFacts ==
    ASSUME NEW leaves, Sequence(leaves)
    PROVE  /\ Grown(leaves)[0] = <<leaves>>
           /\ \A n \in 1 .. Len(leaves) :
                 Grown(leaves)[n] = Round(Grown(leaves)[n - 1])
  <1> DEFINE P(g) == g = [n \in 0 .. Len(leaves) |->
                             IF n = 0 THEN <<leaves>> ELSE Round(g[n - 1])]
             G == CHOOSE g : P(g)
  <1>1. Len(leaves) \in Nat
    BY SequenceFacts
  <1>2. \E g : P(g)
    BY <1>1, GrownExists
  <1>3. P(G)
    <2> HIDE DEF P
    <2> QED
      BY <1>2, Zenon
  <1>4. Grown(leaves) = G
    BY Zenon DEF Grown
  <1> HIDE DEF G
  <1> QED
    BY <1>1, <1>3, <1>4

\* A round keeps the levels rising, and gets closer to the root.
LEMMA RoundRises ==
    ASSUME NEW leaves, Sequence(leaves), NEW v, Rising(v, leaves)
    PROVE  /\ Rising(Round(v), leaves)
           /\ LET top == v[Len(v)]
                  next == Round(v)[Len(Round(v))]
              IN  /\ Len(top) \in Nat /\ Len(next) \in Nat
                  /\ Len(top) <= 1 => Len(next) <= 1
                  /\ Len(top) > 1 => Len(next) < Len(top)
  <1>1. /\ Sequence(v) /\ Len(v) \in Nat /\ Len(v) >= 1 /\ v[1] = leaves
        /\ DOMAIN v = 1 .. Len(v)
    BY SequenceFacts DEF Rising
  <1>2. PICK k, top : k = Len(v) /\ top = v[k]
    OBVIOUS
  <1>3. Sequence(top) /\ Len(top) \in Nat
    BY <1>1, <1>2, SequenceFacts DEF Rising
  <1>4. CASE ~ (Len(top) > 1)
    <2>1. Round(v) = v
      BY <1>2, <1>4 DEF Round, Last
    <2> QED
      BY <1>2, <1>3, <1>4, <2>1
  <1>5. CASE Len(top) > 1
    <2>1. PICK w : w = Append(v, Up(top))
      OBVIOUS
    <2>2. Round(v) = w
      BY <1>2, <1>5, <2>1 DEF Round, Last
    <2>3. /\ Sequence(w) /\ Len(w) = k + 1 /\ w[k + 1] = Up(top)
          /\ \A n \in 1 .. k : w[n] = v[n]
      <3>1. PICK T : v \in Seq(T)
        BY <1>1 DEF Sequence
      <3>2. v \in Seq(T \cup {Up(top)})
        BY <3>1
      <3>3. w \in Seq(T \cup {Up(top)})
        BY <2>1, <3>2
      <3> QED
        BY <1>2, <2>1, <3>2, <3>3 DEF Sequence
    <2>4. Sequence(Up(top)) /\ Len(Up(top)) = (Len(top) + 1) \div 2
      BY <1>3, UpFacts
    <2>5. Len(Up(top)) \in Nat /\ Len(Up(top)) >= 1 /\ Len(Up(top)) < Len(top)
      BY <1>3, <1>5, <2>4
    <2>6. \A n \in 1 .. k + 1 : Sequence(w[n]) /\ (leaves # << >> => Len(w[n]) >= 1)
      <3> SUFFICES ASSUME NEW n \in 1 .. k + 1
                   PROVE  Sequence(w[n]) /\ (leaves # << >> => Len(w[n]) >= 1)
        OBVIOUS
      <3>1. CASE n = k + 1
        BY <2>3, <2>4, <2>5, <3>1
      <3>2. CASE n \in 1 .. k
        BY <1>2, <2>3, <3>2 DEF Rising
      <3> QED
        BY <1>1, <1>2, <3>1, <3>2
    <2>7. \A n \in 1 .. k : Len(w[n]) > 1 /\ w[n + 1] = Up(w[n])
      <3> SUFFICES ASSUME NEW n \in 1 .. k
                   PROVE  Len(w[n]) > 1 /\ w[n + 1] = Up(w[n])
        OBVIOUS
      <3>1. CASE n = k
        BY <1>2, <1>5, <2>3, <3>1
      <3>2. CASE n \in 1 .. k - 1
        <4>1. n + 1 \in 1 .. k
          BY <1>1, <1>2, <3>2
        <4>2. Len(v[n]) > 1 /\ v[n + 1] = Up(v[n])
          BY <1>2, <3>2 DEF Rising
        <4> QED
          BY <2>3, <4>1, <4>2
      <3> QED
        BY <1>1, <1>2, <3>1, <3>2
    <2>8. (k + 1) - 1 = k /\ k \in Nat /\ 1 \in 1 .. k
      BY <1>1, <1>2
    <2>9. Rising(w, leaves)
      BY <1>1, <2>3, <2>6, <2>7, <2>8 DEF Rising
    <2> QED
      BY <1>2, <1>3, <1>5, <2>2, <2>3, <2>5, <2>9
  <1> QED
    BY <1>4, <1>5

\* The loop ends at the root, within as many rounds as there are leaves.
LEMMA LevelsAreTree ==
    ASSUME NEW leaves, Sequence(leaves)
    PROVE  IsTree(Levels(leaves), leaves)
  <1>1. PICK N : N = Len(leaves)
    OBVIOUS
  <1>2. N \in Nat
    BY <1>1, SequenceFacts
  <1>3. PICK g : g = Grown(leaves)
    OBVIOUS
  <1>4. g[0] = <<leaves>> /\ \A n \in 1 .. N : g[n] = Round(g[n - 1])
    BY <1>1, <1>3, GrownFacts
  <1> DEFINE Near(n) == \/ Len(g[n][Len(g[n])]) <= 1
                        \/ Len(g[n][Len(g[n])]) + n <= N
             Good == {n \in 0 .. N : Rising(g[n], leaves) /\ Near(n)}
  <1>5. 0 \in Good
    <2>1. Sequence(<<leaves>>) /\ Len(<<leaves>>) = 1 /\ <<leaves>>[1] = leaves
      <3>1. <<leaves>> \in Seq({leaves})
        OBVIOUS
      <3> QED
        BY <3>1 DEF Sequence
    <2>2. leaves # << >> => Len(leaves) >= 1
      BY SequenceFacts
    <2>3. Rising(<<leaves>>, leaves)
      BY <2>1, <2>2 DEF Rising
    <2>4. Near(0)
      BY <1>1, <1>2, <1>4, <2>1
    <2> HIDE DEF Near
    <2> QED
      BY <1>2, <1>4, <2>3, <2>4
  <1>6. ASSUME NEW n \in 0 .. N - 1, n \in Good
        PROVE  n + 1 \in Good
    <2>1. g[n + 1] = Round(g[n])
      <3>1. n + 1 \in 1 .. N /\ (n + 1) - 1 = n
        BY <1>2
      <3> QED
        BY <1>4, <3>1
    <2>2. Rising(g[n], leaves)
      BY <1>6
    <2>3. PICK a, b : a = Len(g[n][Len(g[n])]) /\ b = Len(g[n + 1][Len(g[n + 1])])
      OBVIOUS
    <2>4. /\ Rising(g[n + 1], leaves) /\ a \in Nat /\ b \in Nat
          /\ a <= 1 => b <= 1
          /\ a > 1 => b < a
      BY <2>1, <2>2, <2>3, RoundRises
    <2>5. a <= 1 \/ a + n <= N
      BY <1>6, <2>3
    <2>6. b <= 1 \/ b + (n + 1) <= N
      BY <1>2, <2>4, <2>5
    <2>7. Near(n + 1)
      BY <2>3, <2>6
    <2> HIDE DEF Near
    <2> QED
      BY <1>2, <2>4, <2>7
  <1>7. N \in Good
    <2> HIDE DEF Good
    <2> QED
      BY <1>2, <1>5, <1>6, InductionUpTo
  <1>8. Rising(g[N], leaves) /\ Near(N)
    <2> HIDE DEF Near
    <2> QED
      BY <1>7
  <1>9. PICK a : a = Len(g[N][Len(g[N])])
    OBVIOUS
  <1>10. a \in Nat
    <2>1. PICK v : v = g[N]
      OBVIOUS
    <2>2. Sequence(v) /\ Len(v) \in Nat /\ Len(v) >= 1
      BY <1>8, <2>1, SequenceFacts DEF Rising
    <2>3. Sequence(v[Len(v)])
      BY <1>8, <2>1, <2>2 DEF Rising
    <2> QED
      BY <1>9, <2>1, <2>3, SequenceFacts
  <1>11. a <= 1
    BY <1>2, <1>8, <1>9, <1>10
  <1> HIDE DEF Near
  <1> QED
    BY <1>1, <1>3, <1>8, <1>9, <1>11 DEF IsTree, Levels

-----------------------------------------------------------------------------
(***************************************************************************)
(* Proofs of inclusion.                                                    *)
(***************************************************************************)

LEMMA AscentExists ==
    ASSUME NEW index \in Nat, NEW N \in Nat
    PROVE  \E g : g = [n \in 0 .. N |-> IF n = 0 THEN index ELSE g[n - 1] \div 2]
  <1> DEFINE Step(g, n) == IF n = 0 THEN index ELSE g[n - 1] \div 2
             Solved(m) == \E g : \A n \in 0 .. m : g[n] = Step(g, n)
             Good == {m \in 0 .. N : Solved(m)}
  <1>1. 0 \in Good
    <2> DEFINE z == [n \in 0 .. 0 |-> index]
    <2>1. \A n \in 0 .. 0 : z[n] = Step(z, n)
      OBVIOUS
    <2> HIDE DEF z, Step
    <2> QED
      BY <2>1
  <1>2. ASSUME NEW m \in 0 .. N - 1, m \in Good
        PROVE  m + 1 \in Good
    <2>1. PICK g : \A n \in 0 .. m : g[n] = Step(g, n)
      BY <1>2
    <2> DEFINE h == [n \in 0 .. m + 1 |-> Step(g, n)]
    <2>2. ASSUME NEW n \in 0 .. m PROVE h[n] = g[n]
      <3>1. h[n] = Step(g, n)
        <4> HIDE DEF Step
        <4> QED
          BY <2>2
      <3> HIDE DEF h, Step
      <3> QED
        BY <2>1, <3>1
    <2>3. ASSUME NEW n \in 0 .. m + 1 PROVE h[n] = Step(h, n)
      <3>1. h[n] = Step(g, n)
        OBVIOUS
      <3>2. CASE n = 0
        BY <3>1, <3>2
      <3>3. CASE n # 0
        <4>1. n - 1 \in 0 .. m
          BY <3>3
        <4>2. h[n - 1] = g[n - 1]
          BY <2>2, <4>1
        <4> HIDE DEF h
        <4> QED
          BY <3>1, <3>3, <4>2
      <3> QED
        BY <3>2, <3>3
    <2>4. Solved(m + 1)
      <3> HIDE DEF h, Step
      <3> QED
        BY <2>3
    <2> HIDE DEF Solved
    <2> QED
      BY <2>4
  <1>3. N \in Good
    <2> HIDE DEF Good
    <2> QED
      BY <1>1, <1>2, InductionUpTo
  <1>4. PICK g : \A n \in 0 .. N : g[n] = Step(g, n)
    BY <1>3
  <1> DEFINE h == [n \in 0 .. N |-> g[n]]
  <1>5. ASSUME NEW n \in 0 .. N PROVE g[n] = Step(h, n)
    <2>1. n # 0 => h[n - 1] = g[n - 1]
      OBVIOUS
    <2> HIDE DEF h
    <2> QED
      BY <1>4, <2>1
  <1>6. h = [n \in 0 .. N |-> Step(h, n)]
    BY <1>5, Zenon
  <1> HIDE DEF h
  <1> QED
    BY <1>6, Zenon

\* The recursion of Ascent, instance by instance.
LEMMA AscentFacts ==
    ASSUME NEW index \in Nat, NEW N \in Nat
    PROVE  /\ Ascent(index, N)[0] = index
           /\ \A n \in 1 .. N :
                 Ascent(index, N)[n] = Ascent(index, N)[n - 1] \div 2
           /\ \A n \in 0 .. N : Ascent(index, N)[n] \in Nat
  <1> DEFINE P(g) == g = [n \in 0 .. N |-> IF n = 0 THEN index ELSE g[n - 1] \div 2]
             G == CHOOSE g : P(g)
  <1>1. \E g : P(g)
    BY AscentExists
  <1>2. P(G)
    <2> HIDE DEF P
    <2> QED
      BY <1>1, Zenon
  <1>3. Ascent(index, N) = G
    BY Zenon DEF Ascent
  <1> HIDE DEF G
  <1>4. G[0] = index /\ \A n \in 1 .. N : G[n] = G[n - 1] \div 2
    BY <1>2
  <1> HIDE DEF P
  <1> DEFINE Good == {n \in 0 .. N : G[n] \in Nat}
  <1>5. 0 \in Good
    BY <1>4
  <1>6. ASSUME NEW n \in 0 .. N - 1, n \in Good PROVE n + 1 \in Good
    <2>1. n + 1 \in 1 .. N /\ (n + 1) - 1 = n /\ G[n] \in Nat
      BY <1>6
    <2>2. G[n + 1] = G[n] \div 2
      BY <1>4, <2>1
    <2> QED
      BY <2>1, <2>2
  <1>7. \A n \in 0 .. N : n \in Good
    <2> HIDE DEF Good
    <2> QED
      BY <1>5, <1>6, InductionUpTo
  <1> QED
    BY <1>3, <1>4, <1>7

\* A level's node and the one it is paired with make the node above it.
LEMMA PairedUp ==
    ASSUME NEW s, Sequence(s), Len(s) > 1, NEW i \in Nat, i < Len(s)
    PROVE  /\ i \div 2 \in Nat /\ i \div 2 < Len(Up(s))
           /\ i % 2 = 0 => Up(s)[i \div 2 + 1] = <<s[i + 1], Sibling(s, i)>>
           /\ i % 2 # 0 => Up(s)[i \div 2 + 1] = <<Sibling(s, i), s[i + 1]>>
  <1>1. Len(s) \in Nat
    BY SequenceFacts
  <1>2. PICK k, j : k = Len(s) /\ j = i \div 2
    OBVIOUS
  <1>3. /\ k \in Nat /\ j \in Nat /\ k > 1 /\ i < k
        /\ i % 2 = 0 => i = 2 * j
        /\ i % 2 # 0 => i = 2 * j + 1
    BY <1>1, <1>2
  <1>4. j + 1 \in 1 .. (k + 1) \div 2 /\ j < (k + 1) \div 2
    BY <1>3
  <1>5. /\ Len(Up(s)) = (k + 1) \div 2
        /\ Up(s)[j + 1] = <<s[2 * (j + 1) - 1],
                            s[IF 2 * (j + 1) <= k THEN 2 * (j + 1)
                              ELSE 2 * (j + 1) - 1]>>
    BY <1>2, <1>4, UpFacts
  <1>6. CASE i % 2 = 0
    <2>1. /\ 2 * (j + 1) - 1 = i + 1
          /\ 2 * (j + 1) = i + 2
          /\ 2 * (j + 1) <= k <=> i + 1 < k
      BY <1>3, <1>6
    <2>2. Sibling(s, i) = s[IF i + 1 < k THEN i + 2 ELSE i + 1]
      <3>1. (i + 1) + 1 = i + 2
        OBVIOUS
      <3> QED
        BY <1>2, <1>6, <3>1 DEF Sibling
    <2>3. Up(s)[j + 1] = <<s[i + 1], Sibling(s, i)>>
      BY <1>5, <2>1, <2>2
    <2> QED
      BY <1>2, <1>3, <1>4, <1>5, <1>6, <2>3
  <1>7. CASE i % 2 # 0
    <2>1. /\ 2 * (j + 1) - 1 = i
          /\ 2 * (j + 1) = i + 1
          /\ 2 * (j + 1) <= k
          /\ i - 1 < k /\ (i - 1) + 1 = i
      BY <1>3, <1>7
    <2>2. Sibling(s, i) = s[i]
      BY <1>2, <1>7, <2>1 DEF Sibling
    <2>3. Up(s)[j + 1] = <<Sibling(s, i), s[i + 1]>>
      BY <1>5, <2>1, <2>2
    <2> QED
      BY <1>2, <1>3, <1>4, <1>5, <1>7, <2>3
  <1> QED
    BY <1>6, <1>7

\* The positions an index goes through, up the levels.
Path(v, idx) ==
    /\ \A n \in 0 .. Len(v) - 1 : idx[n] \in Nat /\ idx[n] < Len(v[n + 1])
    /\ \A n \in 1 .. Len(v) - 1 : idx[n] = idx[n - 1] \div 2

LEMMA AscentIsPath ==
    ASSUME NEW leaves, Sequence(leaves), NEW v, IsTree(v, leaves),
           NEW index \in Nat, index < Len(leaves)
    PROVE  /\ Path(v, Ascent(index, Len(v)))
           /\ Ascent(index, Len(v))[0] = index
  <1>1. PICK k, idx : k = Len(v) /\ idx = Ascent(index, k)
    OBVIOUS
  <1>2. k \in Nat /\ k >= 1 /\ v[1] = leaves
    BY <1>1, SequenceFacts DEF IsTree, Rising
  <1>3. /\ idx[0] = index
        /\ \A n \in 1 .. k : idx[n] = idx[n - 1] \div 2
        /\ \A n \in 0 .. k : idx[n] \in Nat
    BY <1>1, <1>2, AscentFacts
  <1> DEFINE Good == {n \in 0 .. k - 1 : idx[n] < Len(v[n + 1])}
  <1>4. 0 \in Good
    BY <1>2, <1>3
  <1>5. ASSUME NEW n \in 0 .. (k - 1) - 1, n \in Good PROVE n + 1 \in Good
    <2>1. /\ n + 1 \in 1 .. k - 1 /\ n + 1 \in 1 .. k /\ (n + 1) - 1 = n
          /\ n \in 0 .. k /\ n + 1 \in 0 .. k - 1
      BY <1>2, <1>5
    <2>2. idx[n + 1] = idx[n] \div 2 /\ idx[n] \in Nat /\ idx[n] < Len(v[n + 1])
      BY <1>3, <1>5, <2>1
    <2>3. /\ Sequence(v[n + 1]) /\ Len(v[n + 1]) > 1
          /\ v[(n + 1) + 1] = Up(v[n + 1])
      BY <1>1, <2>1 DEF IsTree, Rising
    <2>4. idx[n] \div 2 < Len(Up(v[n + 1]))
      BY <2>2, <2>3, PairedUp
    <2> QED
      BY <2>1, <2>2, <2>3, <2>4
  <1>6. \A n \in 0 .. k - 1 : n \in Good
    <2>1. k - 1 \in Nat
      BY <1>2
    <2> HIDE DEF Good
    <2> QED
      BY <1>4, <1>5, <2>1, InductionUpTo
  <1> QED
    BY <1>1, <1>2, <1>3, <1>6 DEF Path

\* Along a path, each node is joined with its sibling to the one above.
LEMMA JoinedUp ==
    ASSUME NEW leaves, NEW v, IsTree(v, leaves), NEW idx, Path(v, idx),
           NEW n \in 1 .. Len(v) - 1
    PROVE  v[n + 1][idx[n] + 1] =
               Join(v[n][idx[n - 1] + 1],
                    [hash |-> Sibling(v[n], idx[n - 1]),
                     side |-> IF idx[n - 1] % 2 = 0 THEN "right" ELSE "left"])
  <1>1. Len(v) \in Nat
    BY SequenceFacts DEF IsTree, Rising
  <1>2. n - 1 \in 0 .. Len(v) - 1 /\ n \in 1 .. Len(v) /\ (n - 1) + 1 = n
    BY <1>1
  <1>3. PICK i, s : i = idx[n - 1] /\ s = v[n]
    OBVIOUS
  <1>4. /\ i \in Nat /\ i < Len(s) /\ idx[n] = i \div 2
        /\ Sequence(s) /\ Len(s) > 1 /\ v[n + 1] = Up(s)
    BY <1>2, <1>3 DEF Path, IsTree, Rising
  <1>5. /\ i % 2 = 0 => Up(s)[i \div 2 + 1] = <<s[i + 1], Sibling(s, i)>>
        /\ i % 2 # 0 => Up(s)[i \div 2 + 1] = <<Sibling(s, i), s[i + 1]>>
    BY <1>4, PairedUp
  <1>6. CASE i % 2 = 0
    <2>1. Join(s[i + 1], [hash |-> Sibling(s, i), side |-> "right"])
             = <<s[i + 1], Sibling(s, i)>>
      BY DEF Join, HashPair
    <2> QED
      BY <1>3, <1>4, <1>5, <1>6, <2>1
  <1>7. CASE i % 2 # 0
    <2>1. Join(s[i + 1], [hash |-> Sibling(s, i), side |-> "left"])
             = <<Sibling(s, i), s[i + 1]>>
      BY DEF Join, HashPair
    <2> QED
      BY <1>3, <1>4, <1>5, <1>7, <2>1
  <1> QED
    BY <1>6, <1>7

\* verify_proof, on a proof the tree made, goes through the nodes of the path.
LEMMA ClimbsThePath ==
    ASSUME NEW leaves, Sequence(leaves), NEW v, v = Levels(leaves),
           NEW index \in Nat, index < Len(leaves),
           NEW idx, idx = Ascent(index, Len(v))
    PROVE  LET proof == ProofOf(leaves, index)
           IN  /\ Len(proof) = Len(v) - 1
               /\ \A n \in 0 .. Len(v) - 1 :
                     Climb(leaves[index + 1], proof)[n] = v[n + 1][idx[n] + 1]
  <1>1. PICK k, proof, leaf :
            k = Len(v) - 1 /\ proof = ProofOf(leaves, index) /\ leaf = leaves[index + 1]
    OBVIOUS
  <1>2. IsTree(v, leaves)
    BY LevelsAreTree
  <1>3. k \in Nat /\ Len(v) = k + 1 /\ v[1] = leaves
    BY <1>1, <1>2, SequenceFacts DEF IsTree, Rising
  <1>4. Path(v, idx) /\ idx[0] = index
    BY <1>2, AscentIsPath
  <1>5. /\ DOMAIN proof = 1 .. k /\ proof = [n \in 1 .. k |-> proof[n]]
        /\ \A n \in 1 .. k :
              proof[n] = [hash |-> Sibling(v[n], idx[n - 1]),
                          side |-> IF idx[n - 1] % 2 = 0 THEN "right" ELSE "left"]
    BY <1>1 DEF ProofOf
  <1>6. Len(proof) = k
    BY <1>3, <1>5, FunctionIsSequence
  <1> DEFINE P(g) == g = [n \in 0 .. k |->
                             IF n = 0 THEN leaf ELSE Join(g[n - 1], proof[n])]
             G == CHOOSE g : P(g)
             w == [n \in 0 .. k |-> v[n + 1][idx[n] + 1]]
  <1>7. ASSUME NEW n \in 0 .. k
        PROVE  v[n + 1][idx[n] + 1] = IF n = 0 THEN leaf ELSE Join(w[n - 1], proof[n])
    <2>1. CASE n = 0
      BY <1>1, <1>3, <1>4, <2>1
    <2>2. CASE n # 0
      <3>1. n \in 1 .. k /\ n \in 1 .. Len(v) - 1 /\ n - 1 \in 0 .. k /\ (n - 1) + 1 = n
        BY <1>3, <2>2
      <3>2. w[n - 1] = v[n][idx[n - 1] + 1]
        BY <3>1
      <3> HIDE DEF w
      <3>3. v[n + 1][idx[n] + 1] = Join(w[n - 1], proof[n])
        <4>1. PICK node :
                  node = [hash |-> Sibling(v[n], idx[n - 1]),
                          side |-> IF idx[n - 1] % 2 = 0 THEN "right" ELSE "left"]
          OBVIOUS
        <4>2. proof[n] = node
          BY <1>5, <3>1, <4>1
        <4>3. v[n + 1][idx[n] + 1] = Join(v[n][idx[n - 1] + 1], node)
          BY <1>2, <1>4, <3>1, <4>1, JoinedUp
        <4> QED
          BY <3>2, <4>2, <4>3
      <3> QED
        BY <2>2, <3>3
    <2> QED
      BY <2>1, <2>2
  <1>8. P(w)
    BY <1>7, Zenon
  <1>9. P(G)
    <2> HIDE DEF P, w
    <2> QED
      BY <1>8, Zenon
  <1>10. Climb(leaf, proof) = G
    BY <1>6, Zenon DEF Climb
  <1> HIDE DEF G
  <1>11. G[0] = leaf /\ \A n \in 1 .. k : G[n] = Join(G[n - 1], proof[n])
    BY <1>3, <1>9
  <1> DEFINE Good == {n \in 0 .. k : G[n] = w[n]}
  <1>12. 0 \in Good
    <2>1. 0 \in 0 .. k /\ 0 + 1 = 1
      BY <1>3
    <2>2. w[0] = v[1][idx[0] + 1]
      BY <2>1
    <2>3. w[0] = leaf
      BY <1>1, <1>3, <1>4, <2>2
    <2> HIDE DEF w
    <2> QED
      BY <1>11, <2>1, <2>3
  <1>13. ASSUME NEW n \in 0 .. k - 1, n \in Good PROVE n + 1 \in Good
    <2>1. n + 1 \in 1 .. k /\ n + 1 \in 0 .. k /\ (n + 1) - 1 = n /\ n + 1 # 0
      BY <1>3
    <2>2. G[n + 1] = Join(G[n], proof[n + 1])
      BY <1>11, <2>1
    <2>3. v[(n + 1) + 1][idx[n + 1] + 1] = Join(w[n], proof[n + 1])
      <3> HIDE DEF w
      <3> QED
        BY <1>7, <2>1
    <2>4. w[n + 1] = v[(n + 1) + 1][idx[n + 1] + 1]
      BY <2>1
    <2>5. G[n] = w[n]
      BY <1>13
    <2> HIDE DEF w
    <2> QED
      BY <2>1, <2>2, <2>3, <2>4, <2>5
  <1>14. \A n \in 0 .. k : n \in Good
    <2> HIDE DEF Good
    <2> QED
      BY <1>3, <1>12, <1>13, InductionUpTo
  <1>15. \A n \in 0 .. k : G[n] = v[n + 1][idx[n] + 1]
    BY <1>14
  <1> QED
    BY <1>1, <1>3, <1>6, <1>10, <1>15

\* At the top there is one node, and the path ends in it.
LEMMA ProofsVerify ==
    ASSUME NEW leaves, Sequence(leaves), NEW index \in Nat, index < Len(leaves)
    PROVE  VerifyProof(leaves[index + 1], ProofOf(leaves, index), MerkleRoot(leaves))
  <1>1. PICK v, k, idx : v = Levels(leaves) /\ k = Len(v) /\ idx = Ascent(index, k)
    OBVIOUS
  <1>2. IsTree(v, leaves)
    BY <1>1, LevelsAreTree
  <1>3. k \in Nat /\ k >= 1
    BY <1>1, <1>2, SequenceFacts DEF IsTree, Rising
  <1>4. Path(v, idx)
    BY <1>1, <1>2, AscentIsPath
  <1>5. k - 1 \in 0 .. k - 1 /\ (k - 1) + 1 = k
    BY <1>3
  <1>6. idx[k - 1] \in Nat /\ idx[k - 1] < Len(v[k]) /\ Len(v[k]) <= 1
    BY <1>1, <1>2, <1>4, <1>5 DEF Path, IsTree
  <1>7. idx[k - 1] = 0
    <2>1. Len(v[k]) \in Nat
      BY <1>1, <1>2, <1>3, SequenceFacts DEF IsTree, Rising
    <2> QED
      BY <1>6, <2>1
  <1>8. /\ Len(ProofOf(leaves, index)) = k - 1
        /\ Climb(leaves[index + 1], ProofOf(leaves, index))[k - 1]
             = v[(k - 1) + 1][idx[k - 1] + 1]
    BY <1>1, <1>5, ClimbsThePath
  <1>9. leaves # << >>
    BY SequenceFacts
  <1>10. MerkleRoot(leaves) = v[k][1]
    BY <1>1, <1>9 DEF MerkleRoot, Last
  <1> QED
    BY <1>5, <1>7, <1>8, <1>10 DEF VerifyProof

-----------------------------------------------------------------------------
(***************************************************************************)
(* What a root says of the leaves.                                         *)
(***************************************************************************)

IsPair(y) == \E l, r : y = <<l, r>>
IsEntry(y) == \E p, q, r : y = <<p, q, r>>
IsIn(y, s) == \E j \in 1 .. Len(s) : s[j] = y

LEMMA PairIsNoEntry == \A y : ~ (IsPair(y) /\ IsEntry(y))
  BY Kinds DEF IsPair, IsEntry

\* The nodes of a level are pairs of nodes of the level below.
LEMMA NodeOfUp ==
    ASSUME NEW s, Sequence(s), NEW y, IsIn(y, Up(s))
    PROVE  /\ IsPair(y)
           /\ \A l, r : y = <<l, r>> => IsIn(l, s) /\ IsIn(r, s)
  <1>1. Len(s) \in Nat /\ Len(Up(s)) = (Len(s) + 1) \div 2
    BY SequenceFacts, UpFacts
  <1>2. PICK j \in 1 .. Len(Up(s)) : Up(s)[j] = y
    BY DEF IsIn
  <1>3. PICK a, b : a = 2 * j - 1 /\ b = IF 2 * j <= Len(s) THEN 2 * j ELSE 2 * j - 1
    OBVIOUS
  <1>4. a \in 1 .. Len(s) /\ b \in 1 .. Len(s)
    BY <1>1, <1>3
  <1>5. y = <<s[a], s[b]>>
    BY <1>1, <1>2, <1>3, UpFacts
  <1> QED
    BY <1>4, <1>5, Kinds DEF IsPair, IsIn

\* Above the leaves, the path's node is a pair with the one below in it.
LEMMA PathNode ==
    ASSUME NEW leaves, NEW v, IsTree(v, leaves), NEW idx, Path(v, idx),
           NEW n \in 1 .. Len(v) - 1
    PROVE  /\ IsPair(v[n + 1][idx[n] + 1])
           /\ \E l, r : /\ v[n + 1][idx[n] + 1] = <<l, r>>
                        /\ l = v[n][idx[n - 1] + 1] \/ r = v[n][idx[n - 1] + 1]
  <1>1. PICK x, y, h, d : /\ x = v[n + 1][idx[n] + 1] /\ y = v[n][idx[n - 1] + 1]
                          /\ h = Sibling(v[n], idx[n - 1])
                          /\ d = IF idx[n - 1] % 2 = 0 THEN "right" ELSE "left"
    OBVIOUS
  <1>2. x = Join(y, [hash |-> h, side |-> d])
    BY <1>1, JoinedUp
  <1>3. x = <<y, h>> \/ x = <<h, y>>
    BY <1>2 DEF Join, HashPair
  <1> QED
    BY <1>1, <1>3 DEF IsPair

\* A tree's levels above the leaves hold pairs only.
LEMMA UpperNodes ==
    ASSUME NEW leaves, NEW v, IsTree(v, leaves), NEW n \in 2 .. Len(v),
           NEW y, IsIn(y, v[n])
    PROVE  /\ IsPair(y)
           /\ \A l, r : y = <<l, r>> => IsIn(l, v[n - 1]) /\ IsIn(r, v[n - 1])
  <1>1. Len(v) \in Nat
    BY SequenceFacts DEF IsTree, Rising
  <1>2. n - 1 \in 1 .. Len(v) - 1 /\ n - 1 \in 1 .. Len(v) /\ (n - 1) + 1 = n
    BY <1>1
  <1>3. v[n] = Up(v[n - 1]) /\ Sequence(v[n - 1])
    BY <1>2 DEF IsTree, Rising
  <1> QED
    BY <1>3, NodeOfUp

\* The root of a tree with leaves is its only top node.
LEMMA RootIsTop ==
    ASSUME NEW leaves, Sequence(leaves), leaves # << >>
    PROVE  LET v == Levels(leaves)
           IN  /\ Len(v) \in Nat /\ Len(v) >= 1 /\ Len(v[Len(v)]) = 1
               /\ MerkleRoot(leaves) = v[Len(v)][1]
               /\ Sequence(v[Len(v)])
  <1>1. PICK v : v = Levels(leaves)
    OBVIOUS
  <1>2. IsTree(v, leaves)
    BY <1>1, LevelsAreTree
  <1>3. Len(v) \in Nat /\ Len(v) >= 1
    BY <1>2, SequenceFacts DEF IsTree, Rising
  <1>4. Sequence(v[Len(v)]) /\ Len(v[Len(v)]) >= 1 /\ Len(v[Len(v)]) <= 1
    BY <1>2, <1>3 DEF IsTree, Rising
  <1>5. Len(v[Len(v)]) \in Nat
    BY <1>4, SequenceFacts
  <1>6. MerkleRoot(leaves) = v[Len(v)][1]
    BY <1>1 DEF MerkleRoot, Last
  <1> QED
    BY <1>1, <1>3, <1>4, <1>5, <1>6

\* Down from a common root, along the path of an entry on one side: on the other
\* side the same nodes are met, and both sides end at their leaves together.
LEMMA ProvedIsIn ==
    ASSUME NEW A, Sequence(A), NEW index \in Nat, index < Len(A),
           IsEntry(A[index + 1]),
           NEW C, Sequence(C), \A j \in 1 .. Len(C) : IsEntry(C[j]),
           MerkleRoot(A) = MerkleRoot(C)
    PROVE  IsIn(A[index + 1], C)
  <1>1. PICK u, a, idx : u = Levels(A) /\ a = Len(u) /\ idx = Ascent(index, a)
    OBVIOUS
  <1>2. IsTree(u, A) /\ u[1] = A
    BY <1>1, LevelsAreTree DEF IsTree, Rising
  <1>3. Path(u, idx) /\ idx[0] = index
    BY <1>1, <1>2, AscentIsPath
  <1>4. A # << >>
    BY SequenceFacts
  <1>5. a \in Nat /\ a >= 1 /\ Len(u[a]) = 1 /\ MerkleRoot(A) = u[a][1]
    BY <1>1, <1>4, RootIsTop
  <1> DEFINE node(n) == u[n][idx[n - 1] + 1]
  <1>6. node(a) = MerkleRoot(A)
    <2>1. a - 1 \in 0 .. a - 1 /\ (a - 1) + 1 = a
      BY <1>5
    <2>2. idx[a - 1] \in Nat /\ idx[a - 1] < Len(u[a])
      BY <1>1, <1>3, <2>1 DEF Path
    <2>3. idx[a - 1] = 0
      BY <1>5, <2>2
    <2> QED
      BY <1>5, <2>3
  <1>7. node(1) = A[index + 1]
    BY <1>2, <1>3
  <1>8. ASSUME NEW n \in 2 .. a
        PROVE  /\ IsPair(node(n))
               /\ \E l, r : /\ node(n) = <<l, r>>
                            /\ l = node(n - 1) \/ r = node(n - 1)
    <2>1. PICK m : m = n - 1
      OBVIOUS
    <2>2. m \in 1 .. Len(u) - 1 /\ m + 1 = n /\ n - 1 = m
      BY <1>1, <1>5, <2>1
    <2>3. /\ IsPair(u[m + 1][idx[m] + 1])
          /\ \E l, r : /\ u[m + 1][idx[m] + 1] = <<l, r>>
                       /\ l = u[m][idx[m - 1] + 1] \/ r = u[m][idx[m - 1] + 1]
      BY <1>2, <1>3, <2>2, PathNode
    <2> QED
      BY <2>2, <2>3
  <1>9. IsPair(node(a)) \/ IsEntry(node(a))
    <2>1. CASE a = 1
      BY <1>7, <2>1
    <2>2. CASE a # 1
      <3>1. a \in 2 .. a
        BY <1>5, <2>2
      <3> HIDE DEF node
      <3> QED
        BY <1>8, <3>1
    <2> QED
      BY <2>1, <2>2
  <1>10. C # << >>
    <2> SUFFICES ASSUME C = << >> PROVE FALSE
      OBVIOUS
    <2>1. node(a) = Zeroes
      BY <1>6 DEF MerkleRoot
    <2> HIDE DEF node
    <2> QED
      BY <1>9, <2>1, Kinds DEF IsPair, IsEntry
  <1>11. PICK v, c : v = Levels(C) /\ c = Len(v)
    OBVIOUS
  <1>12. IsTree(v, C) /\ v[1] = C
    BY <1>11, LevelsAreTree DEF IsTree, Rising
  <1>13. c \in Nat /\ c >= 1 /\ Len(v[c]) = 1 /\ MerkleRoot(C) = v[c][1]
    BY <1>10, <1>11, RootIsTop
  <1>14. PICK m : m = IF a <= c THEN a - 1 ELSE c - 1
    OBVIOUS
  <1>15. m \in Nat /\ m <= a - 1 /\ m <= c - 1 /\ (m = a - 1 \/ m = c - 1)
    BY <1>5, <1>13, <1>14
  <1> HIDE DEF node
  <1> DEFINE Good == {d \in 0 .. m : IsIn(node(a - d), v[c - d])}
  <1>16. 0 \in Good
    <2>1. a - 0 = a /\ c - 0 = c /\ 1 \in 1 .. 1 /\ 0 \in 0 .. m
      BY <1>5, <1>13, <1>15
    <2>2. IsIn(node(a), v[c])
      BY <1>6, <1>13, <2>1 DEF IsIn
    <2> QED
      BY <2>1, <2>2
  <1>17. ASSUME NEW d \in 0 .. m - 1, d \in Good PROVE d + 1 \in Good
    <2>1. /\ a - d \in 2 .. a /\ c - d \in 2 .. Len(v) /\ d + 1 \in 0 .. m
          /\ (a - d) - 1 = a - (d + 1) /\ (c - d) - 1 = c - (d + 1)
      BY <1>5, <1>11, <1>13, <1>15
    <2>2. PICK l, r : /\ node(a - d) = <<l, r>>
                      /\ l = node(a - (d + 1)) \/ r = node(a - (d + 1))
      <3>1. PICK n : n = a - d
        OBVIOUS
      <3>2. n \in 2 .. a /\ n - 1 = a - (d + 1)
        BY <2>1, <3>1
      <3>3. \E l, r : node(n) = <<l, r>> /\ (l = node(n - 1) \/ r = node(n - 1))
        BY <1>8, <3>2
      <3> QED
        BY <3>1, <3>2, <3>3
    <2>3. IsIn(node(a - d), v[c - d])
      BY <1>17
    <2>4. IsIn(l, v[c - (d + 1)]) /\ IsIn(r, v[c - (d + 1)])
      BY <1>12, <2>1, <2>2, <2>3, UpperNodes
    <2> QED
      BY <2>1, <2>2, <2>4
  <1>18. m \in Good
    <2>1. m \in Nat
      BY <1>15
    <2>2. m \in 0 .. m
      BY <2>1
    <2> HIDE DEF Good
    <2>3. \A d \in 0 .. m : d \in Good
      BY <1>16, <1>17, <2>1, InductionUpTo
    <2> QED
      BY <2>2, <2>3
  <1>19. IsIn(node(a - m), v[c - m])
    BY <1>18
  <1>20. CASE a < c
    <2>1. a - m = 1 /\ c - m \in 2 .. Len(v)
      BY <1>5, <1>11, <1>13, <1>15, <1>20
    <2>2. IsPair(node(1))
      BY <1>12, <1>19, <2>1, UpperNodes
    <2> QED
      BY <1>7, <2>2, PairIsNoEntry
  <1>21. CASE c < a
    <2>1. c - m = 1 /\ a - m \in 2 .. a
      BY <1>5, <1>13, <1>15, <1>21
    <2>2. IsPair(node(a - m))
      BY <1>8, <2>1
    <2>3. IsEntry(node(a - m))
      BY <1>12, <1>19, <2>1 DEF IsIn
    <2> QED
      BY <2>2, <2>3, PairIsNoEntry
  <1>22. CASE a = c
    <2>1. a - m = 1 /\ c - m = 1
      BY <1>5, <1>13, <1>15, <1>22
    <2> QED
      BY <1>7, <1>12, <1>19, <2>1
  <1> QED
    BY <1>5, <1>13, <1>20, <1>21, <1>22

-----------------------------------------------------------------------------
(***************************************************************************)
(* Chains.                                                                 *)
(***************************************************************************)

\* The hashes of a chain: each has the one before in it.
Chained(A) ==
    \A i \in 1 .. Len(A) :
        \E x : A[i] = <<IF i = 1 THEN Zeroes ELSE A[i - 1], Session, x>>

LEMMA ChainOfEntries ==
    ASSUME NEW A, Chained(A), NEW i \in 1 .. Len(A)
    PROVE  IsEntry(A[i]) /\ A[i] # Zeroes
  <1>1. PICK w, x : A[i] = <<w, Session, x>>
    BY DEF Chained
  <1> QED
    BY <1>1, Kinds DEF IsEntry

\* An entry of two chains is at one place in both.
LEMMA OnePlace ==
    ASSUME NEW A, Sequence(A), Chained(A), NEW C, Sequence(C), Chained(C),
           NEW i \in 1 .. Len(A), NEW j \in 1 .. Len(C), A[i] = C[j]
    PROVE  i = j
  <1> DEFINE Good == {n \in 0 .. Len(A) :
                         \A k \in 1 .. Len(C) : n >= 1 /\ A[n] = C[k] => n = k}
  <1>1. Len(A) \in Nat /\ Len(C) \in Nat
    BY SequenceFacts
  <1>2. 0 \in Good
    BY <1>1
  <1>3. ASSUME NEW n \in 0 .. Len(A) - 1, n \in Good PROVE n + 1 \in Good
    <2>1. n + 1 \in 0 .. Len(A) /\ n + 1 \in 1 .. Len(A) /\ (n + 1) - 1 = n
      BY <1>1
    <2> SUFFICES ASSUME NEW k \in 1 .. Len(C), A[n + 1] = C[k] PROVE n + 1 = k
      BY <2>1
    <2>2. PICK x : A[n + 1] = <<IF n + 1 = 1 THEN Zeroes ELSE A[(n + 1) - 1], Session, x>>
      BY <2>1 DEF Chained
    <2>3. PICK y : C[k] = <<IF k = 1 THEN Zeroes ELSE C[k - 1], Session, y>>
      BY DEF Chained
    <2>4. (IF n + 1 = 1 THEN Zeroes ELSE A[n]) = (IF k = 1 THEN Zeroes ELSE C[k - 1])
      <3>1. PICK v, w : /\ v = IF n + 1 = 1 THEN Zeroes ELSE A[n]
                        /\ w = IF k = 1 THEN Zeroes ELSE C[k - 1]
        OBVIOUS
      <3>2. <<v, Session, x>> = <<w, Session, y>>
        BY <2>1, <2>2, <2>3, <3>1
      <3>3. v = w
        BY <3>2, Kinds
      <3> QED
        BY <3>1, <3>3
    <2>5. CASE n = 0
      <3>1. k # 1 => C[k - 1] # Zeroes
        <4>1. k # 1 => k - 1 \in 1 .. Len(C)
          BY <1>1
        <4> QED
          BY <4>1, ChainOfEntries
      <3> QED
        BY <2>4, <2>5, <3>1
    <2>6. CASE n # 0
      <3>1. n \in 1 .. Len(A) /\ n >= 1 /\ n + 1 # 1
        BY <1>1, <2>6
      <3>2. A[n] # Zeroes
        BY <3>1, ChainOfEntries
      <3>3. k # 1 /\ A[n] = C[k - 1]
        BY <2>4, <3>1, <3>2
      <3>4. k - 1 \in 1 .. Len(C)
        BY <1>1, <3>3
      <3>5. n = k - 1
        BY <1>3, <3>1, <3>3, <3>4
      <3> QED
        BY <3>5
    <2> QED
      BY <2>5, <2>6
  <1>4. \A n \in 0 .. Len(A) : n \in Good
    <2> HIDE DEF Good
    <2> QED
      BY <1>1, <1>2, <1>3, InductionUpTo
  <1>5. i \in 0 .. Len(A) /\ i >= 1
    BY <1>1
  <1> QED
    BY <1>4, <1>5

LEMMA ProvedInPlace ==
    ASSUME NEW A, Sequence(A), Chained(A), NEW C, Sequence(C), Chained(C),
           MerkleRoot(A) = MerkleRoot(C), NEW i \in 1 .. Len(A)
    PROVE  i \in 1 .. Len(C) /\ A[i] = C[i]
  <1>1. Len(A) \in Nat
    BY SequenceFacts
  <1>2. PICK n : n = i - 1
    OBVIOUS
  <1>3. n \in Nat /\ n < Len(A) /\ n + 1 = i
    BY <1>1, <1>2
  <1>4. IsEntry(A[n + 1]) /\ \A j \in 1 .. Len(C) : IsEntry(C[j])
    BY <1>3, ChainOfEntries
  <1>5. IsIn(A[n + 1], C)
    BY <1>3, <1>4, ProvedIsIn
  <1>6. PICK j \in 1 .. Len(C) : C[j] = A[i]
    BY <1>3, <1>5 DEF IsIn
  <1>7. i = j
    BY <1>6, OnePlace
  <1> QED
    BY <1>6, <1>7

\* The root pins the whole chain: also the copies an odd level makes cannot stand
\* for entries, which are in the chain once each.
LEMMA RootPinsChain ==
    ASSUME NEW A, Sequence(A), Chained(A), NEW C, Sequence(C), Chained(C),
           MerkleRoot(A) = MerkleRoot(C)
    PROVE  A = C
  <1>1. Len(A) \in Nat /\ Len(C) \in Nat
    BY SequenceFacts
  <1>2. \A i \in 1 .. Len(A) : i \in 1 .. Len(C) /\ A[i] = C[i]
    BY ProvedInPlace
  <1>3. \A i \in 1 .. Len(C) : i \in 1 .. Len(A)
    BY ProvedInPlace
  <1>4. Len(A) = Len(C)
    BY <1>1, <1>2, <1>3
  <1> QED
    BY <1>2, <1>4, SameSequence

-----------------------------------------------------------------------------
(***************************************************************************)
(* The invariant.                                                          *)
(***************************************************************************)

IsRow(r) == \E id, contents, prev, hash : r = Row(id, contents, prev, hash)

IsLog(s) == Sequence(s) /\ \A i \in 1 .. Len(s) : IsRow(s[i])

\* The i-th row of s is as append_evidence makes it.
RowInPlace(s, i) ==
    /\ s[i].sequence_id = i - 1
    /\ s[i].prev_hash = IF i = 1 THEN Zeroes ELSE s[i - 1].entry_hash
    /\ HashMatches(s[i])

IsChain(s) == \A i \in 1 .. Len(s) : RowInPlace(s, i)

LeavesOf(s) == [i \in DOMAIN s |-> s[i].entry_hash]

\* Until the mark the table is a chain; the root is that of the chain recorded
\* when it was read; and only a session with a root is marked.
EvidenceInv ==
    /\ IsLog(log) /\ IsLog(committed)
    /\ settled \in BOOLEAN
    /\ ~ settled => IsChain(log)
    /\ settled => root # << >>
    /\ root # << >> => /\ IsChain(committed)
                       /\ root = MerkleRoot(LeavesOf(committed))

LEMMA LeavesFacts ==
    ASSUME NEW s, IsLog(s)
    PROVE  /\ Sequence(LeavesOf(s)) /\ Len(LeavesOf(s)) = Len(s)
           /\ \A i \in 1 .. Len(s) : LeavesOf(s)[i] = s[i].entry_hash
  <1>1. Len(s) \in Nat /\ DOMAIN s = 1 .. Len(s)
    BY SequenceFacts DEF IsLog
  <1>2. PICK k, f : k = Len(s) /\ f = LeavesOf(s)
    OBVIOUS
  <1>3. /\ DOMAIN f = 1 .. k /\ f = [i \in 1 .. k |-> f[i]]
        /\ \A i \in 1 .. k : f[i] = s[i].entry_hash
    BY <1>1, <1>2 DEF LeavesOf
  <1>4. Sequence(f) /\ Len(f) = k
    BY <1>1, <1>2, <1>3, FunctionIsSequence
  <1> QED
    BY <1>2, <1>3, <1>4

LEMMA ChainIsChained ==
    ASSUME NEW s, IsLog(s), IsChain(s)
    PROVE  Chained(LeavesOf(s))
  <1>1. PICK A : A = LeavesOf(s)
    OBVIOUS
  <1>2. Len(A) = Len(s) /\ \A i \in 1 .. Len(s) : A[i] = s[i].entry_hash
    BY <1>1, LeavesFacts
  <1>3. Len(s) \in Nat
    BY SequenceFacts DEF IsLog
  <1>4. ASSUME NEW i \in 1 .. Len(s)
        PROVE  \E x : A[i] = <<IF i = 1 THEN Zeroes ELSE A[i - 1], Session, x>>
    <2>1. i # 1 => A[i - 1] = s[i - 1].entry_hash
      <3>1. i # 1 => i - 1 \in 1 .. Len(s)
        BY <1>3
      <3> QED
        BY <1>2, <3>1
    <2>2. /\ s[i].prev_hash = IF i = 1 THEN Zeroes ELSE s[i - 1].entry_hash
          /\ s[i].entry_hash = <<s[i].prev_hash, Session, s[i].contents>>
      BY DEF IsChain, RowInPlace, HashMatches, EntryHash
    <2>3. A[i] = <<IF i = 1 THEN Zeroes ELSE A[i - 1], Session, s[i].contents>>
      BY <1>2, <2>1, <2>2
    <2> QED
      BY <2>3
  <1> QED
    BY <1>1, <1>2, <1>4 DEF Chained

\* Two chains with the same hashes are the same rows.
LEMMA SameRows ==
    ASSUME NEW s, IsLog(s), IsChain(s), NEW t, IsLog(t), IsChain(t),
           LeavesOf(s) = LeavesOf(t)
    PROVE  s = t
  <1>1. Len(s) = Len(t) /\ Len(s) \in Nat
    BY LeavesFacts, SequenceFacts DEF IsLog
  <1>2. \A i \in 1 .. Len(s) : s[i].entry_hash = t[i].entry_hash
    <2>1. PICK A : A = LeavesOf(s) /\ A = LeavesOf(t)
      OBVIOUS
    <2>2. /\ \A i \in 1 .. Len(s) : A[i] = s[i].entry_hash
          /\ \A i \in 1 .. Len(t) : A[i] = t[i].entry_hash
      BY <2>1, LeavesFacts
    <2> QED
      BY <1>1, <2>2
  <1>3. ASSUME NEW i \in 1 .. Len(s) PROVE s[i] = t[i]
    <2>1. i \in 1 .. Len(t)
      BY <1>1
    <2>2. s[i].sequence_id = t[i].sequence_id
      BY <2>1 DEF IsChain, RowInPlace
    <2>3. /\ s[i].entry_hash = <<s[i].prev_hash, Session, s[i].contents>>
          /\ t[i].entry_hash = <<t[i].prev_hash, Session, t[i].contents>>
      BY <2>1 DEF IsChain, RowInPlace, HashMatches, EntryHash
    <2>4. s[i].entry_hash = t[i].entry_hash
      BY <1>2
    <2>5. s[i].prev_hash = t[i].prev_hash /\ s[i].contents = t[i].contents
      BY <2>3, <2>4, Kinds
    <2>6. IsRow(s[i]) /\ IsRow(t[i])
      BY <2>1 DEF IsLog
    <2> QED
      BY <2>2, <2>4, <2>5, <2>6 DEF IsRow, Row
  <1> QED
    BY <1>1, <1>3, SameSequence DEF IsLog

\* verify_chain finds no fault exactly in a chain.
LEMMA NoFault ==
    ASSUME NEW i
    PROVE  Fault(i) = "none" <=> RowInPlace(log, i)
  BY DEF Fault, RowInPlace, ExpectedPrev

LEMMA VerifiedIsChain ==
    ASSUME IsLog(log)
    PROVE  ChainError = "none" <=> IsChain(log)
  <1>1. Len(log) \in Nat /\ DOMAIN log = 1 .. Len(log)
    BY SequenceFacts DEF IsLog
  <1> DEFINE faulty == {i \in DOMAIN log : Fault(i) # "none"}
             least(m) == m \in faulty /\ \A y \in faulty : m <= y
  <1>2. faulty = {} <=> IsChain(log)
    BY <1>1, NoFault DEF IsChain
  <1>3. ASSUME faulty # {} PROVE Fault(Min(faulty)) # "none"
    <2>1. faulty \in SUBSET Nat
      BY <1>1
    <2>2. \E m : least(m)
      <3> HIDE DEF faulty
      <3> QED
        BY <1>3, <2>1, LeastNatural
    <2>3. Min(faulty) \in faulty
      <3> HIDE DEF faulty
      <3>1. \E m \in faulty : \A y \in faulty : m <= y
        BY <2>2
      <3> QED
        BY <3>1, Zenon DEF Min
    <2> QED
      BY <2>3
  <1>4. ChainError = IF faulty = {} THEN "none" ELSE Fault(Min(faulty))
    BY Zenon DEF ChainError
  <1> HIDE DEF faulty
  <1> QED
    BY <1>2, <1>3, <1>4

-----------------------------------------------------------------------------
(***************************************************************************)
(* The steps.                                                              *)
(***************************************************************************)

LEMMA NoLog ==
    /\ IsLog(<< >>)
    /\ \A s : s = << >> => IsChain(s)
  <1>1. << >> \in Seq({}) /\ Len(<< >>) = 0
    OBVIOUS
  <1> QED
    BY <1>1 DEF IsLog, IsChain, Sequence

LEMMA SingleLog ==
    ASSUME NEW r, IsRow(r)
    PROVE  IsLog(<<r>>)
  <1>1. PICK w : w = <<r>>
    OBVIOUS
  <1>2. w \in Seq({r}) /\ Len(w) = 1 /\ w[1] = r /\ \A i \in 1 .. 1 : i = 1
    BY <1>1
  <1>3. Sequence(w)
    BY <1>2 DEF Sequence
  <1>4. IsLog(w)
    BY <1>2, <1>3 DEF IsLog
  <1> QED
    BY <1>1, <1>4

LEMMA JoinedLogs ==
    ASSUME NEW s, IsLog(s), NEW t, IsLog(t)
    PROVE  /\ IsLog(s \o t)
           /\ Len(s \o t) = Len(s) + Len(t)
           /\ \A i \in 1 .. Len(s) : (s \o t)[i] = s[i]
           /\ \A i \in 1 .. Len(t) : (s \o t)[Len(s) + i] = t[i]
  <1>1. PICK S, T : s \in Seq(S) /\ t \in Seq(T)
    BY DEF IsLog, Sequence
  <1>2. s \in Seq(S \cup T) /\ t \in Seq(S \cup T)
    BY <1>1
  <1>3. PICK w : w = s \o t
    OBVIOUS
  <1>4. PICK a, b : a = Len(s) /\ b = Len(t)
    OBVIOUS
  <1>5. /\ w \in Seq(S \cup T) /\ Len(w) = a + b /\ a \in Nat /\ b \in Nat
        /\ \A i \in 1 .. a + b : w[i] = IF i <= a THEN s[i] ELSE t[i - a]
    BY <1>2, <1>3, <1>4
  <1>6. ASSUME NEW i \in 1 .. a + b PROVE IsRow(w[i])
    <2>1. CASE i <= a
      <3>1. i \in 1 .. a
        BY <1>5, <2>1
      <3> QED
        BY <1>4, <1>5, <2>1, <3>1 DEF IsLog
    <2>2. CASE ~ (i <= a)
      <3>1. i - a \in 1 .. b
        BY <1>5, <2>2
      <3> QED
        BY <1>4, <1>5, <2>2, <3>1 DEF IsLog
    <2> QED
      BY <2>1, <2>2
  <1>7. IsLog(w)
    BY <1>5, <1>6 DEF IsLog, Sequence
  <1>8. \A i \in 1 .. a : w[i] = s[i]
    BY <1>5
  <1>9. \A i \in 1 .. b : w[a + i] = t[i]
    <2> SUFFICES ASSUME NEW i \in 1 .. b PROVE w[a + i] = t[i]
      OBVIOUS
    <2>1. a + i \in 1 .. a + b /\ ~ (a + i <= a) /\ (a + i) - a = i
      BY <1>5
    <2> QED
      BY <1>5, <2>1
  <1> QED
    BY <1>3, <1>4, <1>5, <1>7, <1>8, <1>9

LEMMA PartOfLog ==
    ASSUME NEW s, IsLog(s), NEW m \in Nat, m >= 1, NEW n \in Nat, n <= Len(s)
    PROVE  IsLog(SubSeq(s, m, n))
  <1>1. PICK S : s \in Seq(S)
    BY DEF IsLog, Sequence
  <1>2. PICK k : k = IF m <= n THEN (n - m) + 1 ELSE 0
    OBVIOUS
  <1>3. PICK w : w = SubSeq(s, m, n)
    OBVIOUS
  <1>4. Len(s) \in Nat /\ k \in Nat
    BY <1>1, <1>2
  <1>5. /\ DOMAIN w = 1 .. k /\ w = [i \in 1 .. k |-> w[i]]
        /\ \A i \in 1 .. k : w[i] = s[m + i - 1]
    BY <1>1, <1>2, <1>3, <1>4
  <1>6. Sequence(w) /\ Len(w) = k
    BY <1>4, <1>5, FunctionIsSequence
  <1>7. ASSUME NEW i \in 1 .. k PROVE IsRow(w[i])
    <2>1. m + i - 1 \in 1 .. Len(s)
      BY <1>2, <1>4
    <2> QED
      BY <1>5, <2>1 DEF IsLog
  <1> QED
    BY <1>3, <1>6, <1>7 DEF IsLog

\* A sequence of rows made row by row.
LEMMA LogFromRows ==
    ASSUME NEW k \in Nat, NEW f, DOMAIN f = 1 .. k, f = [i \in 1 .. k |-> f[i]],
           \A i \in 1 .. k : IsRow(f[i])
    PROVE  IsLog(f)
  BY FunctionIsSequence DEF IsLog

LEMMA Renumbered ==
    ASSUME NEW r, IsRow(r), NEW id
    PROVE  IsRow([r EXCEPT !.sequence_id = id])
  <1>1. PICK old, contents, prev, hash : r = Row(old, contents, prev, hash)
    BY DEF IsRow
  <1>2. [r EXCEPT !.sequence_id = id] = Row(id, contents, prev, hash)
    BY <1>1 DEF Row
  <1> QED
    BY <1>2 DEF IsRow

\* An append to a chain makes a chain.
LEMMA AppendedChain ==
    ASSUME IsLog(log), IsChain(log), NEW contents, AppendEvidence(contents)
    PROVE  IsLog(log') /\ IsChain(log')
  <1>1. PICK n, id, prev, r :
            /\ n = Len(log)
            /\ id = IF n = 0 THEN 0 ELSE log[n].sequence_id + 1
            /\ prev = IF n = 0 THEN Zeroes ELSE log[n].entry_hash
            /\ r = Row(id, contents, prev, EntryHash(prev, Session, contents))
    OBVIOUS
  <1>2. n \in Nat
    BY <1>1, SequenceFacts DEF IsLog
  <1>3. log' = Append(log, r)
    BY <1>1 DEF AppendEvidence
  <1>4. IsRow(r) /\ HashMatches(r) /\ r.sequence_id = id /\ r.prev_hash = prev
    BY <1>1 DEF IsRow, Row, HashMatches
  <1>5. id = n
    <2>1. CASE n = 0
      BY <1>1, <2>1
    <2>2. CASE n # 0
      <3>1. n \in 1 .. Len(log)
        BY <1>1, <1>2, <2>2
      <3>2. log[n].sequence_id = n - 1
        BY <3>1 DEF IsChain, RowInPlace
      <3> QED
        BY <1>1, <1>2, <2>2, <3>2
    <2> QED
      BY <2>1, <2>2
  <1>6. PICK new : new = log'
    OBVIOUS
  <1>7. /\ Sequence(new) /\ Len(new) = n + 1 /\ new[n + 1] = r
        /\ \A i \in 1 .. n : new[i] = log[i]
    <2>1. PICK T : log \in Seq(T)
      BY DEF IsLog, Sequence
    <2>2. log \in Seq(T \cup {r})
      BY <2>1
    <2>3. new \in Seq(T \cup {r})
      BY <1>3, <1>6, <2>2
    <2> QED
      BY <1>1, <1>3, <1>6, <2>2, <2>3 DEF Sequence
  <1>8. ASSUME NEW i \in 1 .. n + 1 PROVE IsRow(new[i]) /\ RowInPlace(new, i)
    <2>1. CASE i = n + 1
      <3>1. n # 0 => n \in 1 .. n
        BY <1>2
      <3>2. (n + 1) - 1 = n /\ (n + 1 = 1 <=> n = 0)
        BY <1>2
      <3>3. prev = IF n + 1 = 1 THEN Zeroes ELSE new[(n + 1) - 1].entry_hash
        BY <1>1, <1>7, <3>1, <3>2
      <3> QED
        BY <1>4, <1>5, <1>7, <2>1, <3>2, <3>3 DEF RowInPlace
    <2>2. CASE i \in 1 .. n
      <3>1. new[i] = log[i]
        BY <1>7, <2>2
      <3>2. i # 1 => new[i - 1] = log[i - 1]
        <4>1. i # 1 => i - 1 \in 1 .. n
          BY <1>2, <2>2
        <4> QED
          BY <1>7, <4>1
      <3>3. IsRow(log[i]) /\ RowInPlace(log, i)
        BY <1>1, <2>2 DEF IsLog, IsChain
      <3> QED
        BY <3>1, <3>2, <3>3 DEF RowInPlace
    <2> QED
      BY <1>2, <2>1, <2>2
  <1>9. IsLog(new) /\ IsChain(new)
    BY <1>7, <1>8 DEF IsLog, IsChain
  <1> QED
    BY <1>6, <1>9

\* Whatever is done behind the gateway's back leaves a sequence of rows.
LEMMA WithIsLog ==
    ASSUME IsLog(log), NEW r, IsRow(r)
    PROVE  IsLog(With(r))
  <1>1. Len(log) \in Nat /\ DOMAIN log = 1 .. Len(log)
    BY SequenceFacts DEF IsLog
  <1>2. ASSUME NEW id PROVE Below(id) \in Nat /\ Below(id) <= Len(log)
    <2>1. PICK S : S = {i \in DOMAIN log : log[i].sequence_id < id}
      OBVIOUS
    <2>2. IsFiniteSet(1 .. Len(log)) /\ Cardinality(1 .. Len(log)) = Len(log)
      <3>1. PICK k : k = Len(log)
        OBVIOUS
      <3>2. 1 \in Int /\ k \in Int /\ k \in Nat
        BY <1>1, <3>1
      <3>3. /\ IsFiniteSet(1 .. k)
            /\ Cardinality(1 .. k) = IF 1 > k THEN 0 ELSE k - 1 + 1
        BY <3>2, FS_Interval
      <3> QED
        BY <3>1, <3>2, <3>3
    <2>3. S \in SUBSET (1 .. Len(log))
      BY <1>1, <2>1
    <2>4. IsFiniteSet(S) /\ Cardinality(S) <= Cardinality(1 .. Len(log))
      BY <2>2, <2>3, FS_Subset
    <2>5. Cardinality(S) \in Nat
      BY <2>4, FS_CardinalityType
    <2> QED
      BY <2>1, <2>2, <2>4, <2>5 DEF Below
  <1>3. PICK a, b : a = Below(r.sequence_id) /\ b = Below(r.sequence_id + 1)
    OBVIOUS
  <1>4. a \in Nat /\ a <= Len(log) /\ b \in Nat
    BY <1>2, <1>3
  <1>5. PICK s, t : s = SubSeq(log, 1, a) /\ t = SubSeq(log, b + 1, Len(log))
    OBVIOUS
  <1>6. IsLog(s)
    BY <1>4, <1>5, PartOfLog
  <1>7. IsLog(t)
    <2>1. b + 1 \in Nat /\ b + 1 >= 1 /\ Len(log) <= Len(log)
      BY <1>1, <1>4
    <2> QED
      BY <1>1, <1>5, <2>1, PartOfLog
  <1>8. IsLog(s \o <<r>>)
    BY <1>6, SingleLog, JoinedLogs
  <1>9. IsLog((s \o <<r>>) \o t)
    BY <1>7, <1>8, JoinedLogs
  <1> QED
    BY <1>3, <1>5, <1>9 DEF With

LEMMA OverwriteKeepsRows ==
    ASSUME IsLog(log), NEW id, NEW contents, NEW prev, Overwrite(id, contents, prev)
    PROVE  IsLog(log')
  <1>1. PICK hash : log' = With(Row(id, contents, prev, hash))
    BY DEF Overwrite
  <1>2. IsRow(Row(id, contents, prev, hash))
    BY DEF IsRow
  <1>3. PICK new : new = With(Row(id, contents, prev, hash))
    OBVIOUS
  <1>4. IsLog(new)
    BY <1>2, <1>3, WithIsLog
  <1> QED
    BY <1>1, <1>3, <1>4

LEMMA DeleteKeepsRows ==
    ASSUME IsLog(log), NEW i \in DOMAIN log, Delete(i)
    PROVE  IsLog(log')
  <1>1. Len(log) \in Nat /\ DOMAIN log = 1 .. Len(log)
    BY SequenceFacts DEF IsLog
  <1>2. PICK s, t : s = SubSeq(log, 1, i - 1) /\ t = SubSeq(log, i + 1, Len(log))
    OBVIOUS
  <1>3. /\ i - 1 \in Nat /\ i - 1 <= Len(log) /\ i + 1 \in Nat /\ i + 1 >= 1
        /\ Len(log) <= Len(log)
    BY <1>1
  <1>4. IsLog(s)
    BY <1>2, <1>3, PartOfLog
  <1>5. IsLog(t)
    BY <1>1, <1>2, <1>3, PartOfLog
  <1>6. IsLog(s \o t)
    BY <1>4, <1>5, JoinedLogs
  <1> QED
    BY <1>2, <1>6 DEF Delete, RemoveAt

LEMMA SwapKeepsRows ==
    ASSUME IsLog(log), NEW i \in DOMAIN log, NEW j \in DOMAIN log, Swap(i, j)
    PROVE  IsLog(log')
  <1>1. Len(log) \in Nat /\ DOMAIN log = 1 .. Len(log)
    BY SequenceFacts DEF IsLog
  <1>2. PICK k, x, y :
            /\ k = Len(log)
            /\ x = [log[j] EXCEPT !.sequence_id = log[i].sequence_id]
            /\ y = [log[i] EXCEPT !.sequence_id = log[j].sequence_id]
    OBVIOUS
  <1>3. IsRow(x) /\ IsRow(y)
    BY <1>1, <1>2, Renumbered DEF IsLog
  <1>4. PICK new : new = [log EXCEPT ![i] = x, ![j] = y]
    OBVIOUS
  <1>5. log' = new
    BY <1>2, <1>4 DEF Swap
  <1>6. /\ DOMAIN new = 1 .. k /\ new = [n \in 1 .. k |-> new[n]]
        /\ \A n \in 1 .. k : new[n] = x \/ new[n] = y \/ new[n] = log[n]
    BY <1>1, <1>2, <1>4
  <1>7. \A n \in 1 .. k : IsRow(new[n])
    BY <1>2, <1>3, <1>6 DEF IsLog
  <1>8. IsLog(new)
    BY <1>1, <1>2, <1>6, <1>7, LogFromRows
  <1> QED
    BY <1>5, <1>8

LEMMA CopyTailKeepsRows ==
    ASSUME IsLog(log), NEW n \in DOMAIN log, CopyTail(n)
    PROVE  IsLog(log')
  <1>1. Len(log) \in Nat /\ DOMAIN log = 1 .. Len(log)
    BY SequenceFacts DEF IsLog
  <1>2. PICK k : k = Len(log)
    OBVIOUS
  <1>3. PICK t : t = [i \in 1 .. n |-> [log[k - n + i] EXCEPT
                                           !.sequence_id = log[k].sequence_id + i]]
    OBVIOUS
  <1>4. log' = log \o t
    BY <1>2, <1>3 DEF CopyTail
  <1>5. /\ DOMAIN t = 1 .. n /\ t = [i \in 1 .. n |-> t[i]]
        /\ \A i \in 1 .. n : t[i] = [log[k - n + i] EXCEPT
                                        !.sequence_id = log[k].sequence_id + i]
    BY <1>3
  <1>6. ASSUME NEW i \in 1 .. n PROVE IsRow(t[i])
    <2>1. k - n + i \in 1 .. Len(log)
      BY <1>1, <1>2
    <2>2. PICK r : r = log[k - n + i]
      OBVIOUS
    <2>3. IsRow(r)
      BY <2>1, <2>2 DEF IsLog
    <2>4. t[i] = [r EXCEPT !.sequence_id = log[k].sequence_id + i]
      BY <1>5, <2>2
    <2> QED
      BY <2>3, <2>4, Renumbered
  <1>7. n \in Nat
    BY <1>1
  <1>8. IsLog(t)
    BY <1>5, <1>6, <1>7, LogFromRows
  <1>9. IsLog(log \o t)
    BY <1>8, JoinedLogs
  <1> QED
    BY <1>4, <1>9

LEMMA EvidenceInitially ==
    ASSUME Init
    PROVE  EvidenceInv
  BY NoLog DEF Init, EvidenceInv

LEMMA EvidenceStep ==
    ASSUME EvidenceInv, [Next]_vars
    PROVE  EvidenceInv'
  <1>1. ASSUME NEW contents \in Contents, AppendEvidence(contents)
        PROVE  EvidenceInv'
    <2>1. ~ settled /\ UNCHANGED <<root, settled, committed>>
      BY <1>1 DEF AppendEvidence
    <2>2. IsLog(log') /\ IsChain(log')
      BY <1>1, <2>1, AppendedChain DEF EvidenceInv
    <2> QED
      BY <2>1, <2>2 DEF EvidenceInv
  <1>2. CASE Publish
    <2>1. /\ root = << >> /\ UNCHANGED <<log, settled>> /\ committed' = log
          /\ root' = MerkleRoot(Leaves)
      BY <1>2 DEF Publish
    <2>2. ~ settled /\ IsLog(log) /\ IsChain(log)
      BY <2>1 DEF EvidenceInv
    <2>3. Leaves = LeavesOf(log)
      BY DEF Leaves, LeavesOf
    <2> QED
      BY <2>1, <2>2, <2>3 DEF EvidenceInv
  <1>3. CASE Settle
    BY <1>3 DEF Settle, EvidenceInv
  <1>4. CASE Edit
    <2>1. settled /\ UNCHANGED <<root, settled, committed>>
      BY <1>4 DEF Edit
    <2>2. IsLog(log)
      BY DEF EvidenceInv
    <2>3. IsLog(log')
      <3>1. ASSUME NEW id \in 0 .. Len(log), NEW contents \in Contents,
                   NEW prev \in Hashes, Overwrite(id, contents, prev)
            PROVE  IsLog(log')
        BY <2>2, <3>1, OverwriteKeepsRows
      <3>2. ASSUME NEW i \in DOMAIN log, Delete(i) PROVE IsLog(log')
        BY <2>2, <3>2, DeleteKeepsRows
      <3>3. ASSUME NEW i \in DOMAIN log, NEW j \in DOMAIN log, Swap(i, j)
            PROVE  IsLog(log')
        BY <2>2, <3>3, SwapKeepsRows
      <3>4. ASSUME NEW n \in DOMAIN log, CopyTail(n) PROVE IsLog(log')
        BY <2>2, <3>4, CopyTailKeepsRows
      <3> QED
        BY <1>4, <3>1, <3>2, <3>3, <3>4 DEF Edit
    <2> QED
      BY <2>1, <2>3 DEF EvidenceInv
  <1>5. CASE UNCHANGED vars
    BY <1>5 DEF vars, EvidenceInv
  <1> QED
    BY <1>1, <1>2, <1>3, <1>4, <1>5 DEF Next

\* Until the session is marked settled its rows are the chain append_evidence
\* makes, and the root on chain is that of the rows it was read from.
THEOREM TableIsChain == Spec => []EvidenceInv
  <1>1. Init => EvidenceInv
    BY EvidenceInitially
  <1>2. EvidenceInv /\ [Next]_vars => EvidenceInv'
    BY EvidenceStep
  <1> QED
    BY <1>1, <1>2, PTL DEF Spec

-----------------------------------------------------------------------------
(***************************************************************************)
(* The theorems.                                                           *)
(***************************************************************************)

LEMMA LeavesOfLog == Leaves = LeavesOf(log)
  BY DEF Leaves, LeavesOf

LEMMA InvMakesProvable ==
    ASSUME EvidenceInv
    PROVE  EveryEntryProvable
  <1> SUFFICES ASSUME NEW i \in DOMAIN log PROVE EvidenceProof(i).status = "ok"
    BY DEF EveryEntryProvable
  <1>1. IsLog(log) /\ Len(log) \in Nat /\ DOMAIN log = 1 .. Len(log)
    BY SequenceFacts DEF EvidenceInv, IsLog
  <1>2. PICK A, n : A = Leaves /\ n = i - 1
    OBVIOUS
  <1>3. Sequence(A) /\ Len(A) = Len(log) /\ A[i] = log[i].entry_hash
    BY <1>1, <1>2, LeavesOfLog, LeavesFacts
  <1>4. n \in Nat /\ n < Len(A) /\ n + 1 = i
    BY <1>1, <1>2, <1>3
  <1>5. VerifyProof(A[n + 1], ProofOf(A, n), MerkleRoot(A))
    BY <1>3, <1>4, ProofsVerify
  <1>6. VerifyProof(log[i].entry_hash, ProofOf(Leaves, i - 1), MerkleRoot(Leaves))
    BY <1>2, <1>3, <1>4, <1>5
  <1> QED
    BY <1>6 DEF EvidenceProof

LEMMA InvMakesRecorded ==
    ASSUME EvidenceInv
    PROVE  ProofOnlyOfRecorded
  <1> SUFFICES ASSUME NEW i \in DOMAIN log, root # << >>, HashMatches(log[i]),
                      EvidenceProof(i).status = "ok",
                      EvidenceProof(i).merkle_root = root
               PROVE  \E j \in DOMAIN committed :
                          /\ committed[j].entry_hash = EvidenceProof(i).leaf_hash
                          /\ committed[j].contents = EvidenceProof(i).contents
    BY DEF ProofOnlyOfRecorded
  <1>1. /\ IsLog(log) /\ Len(log) \in Nat /\ DOMAIN log = 1 .. Len(log)
        /\ IsLog(committed) /\ DOMAIN committed = 1 .. Len(committed)
    BY SequenceFacts DEF EvidenceInv, IsLog
  <1>2. PICK A, C, n : A = Leaves /\ C = LeavesOf(committed) /\ n = i - 1
    OBVIOUS
  <1>3. /\ Sequence(A) /\ Len(A) = Len(log) /\ A[i] = log[i].entry_hash
        /\ Sequence(C) /\ Len(C) = Len(committed)
        /\ \A j \in 1 .. Len(C) : C[j] = committed[j].entry_hash
    BY <1>1, <1>2, LeavesOfLog, LeavesFacts
  <1>4. n \in Nat /\ n < Len(A) /\ n + 1 = i
    BY <1>1, <1>2, <1>3
  <1>5. /\ EvidenceProof(i).leaf_hash = log[i].entry_hash
        /\ EvidenceProof(i).contents = log[i].contents
        /\ MerkleRoot(A) = root
    BY <1>2 DEF EvidenceProof
  <1>6. IsChain(committed) /\ MerkleRoot(A) = MerkleRoot(C)
    BY <1>2, <1>5 DEF EvidenceInv
  <1>7. IsEntry(A[n + 1])
    BY <1>3, <1>4 DEF HashMatches, EntryHash, IsEntry
  <1>8. \A j \in 1 .. Len(C) : IsEntry(C[j])
    BY <1>1, <1>2, <1>6, ChainIsChained, ChainOfEntries
  <1>9. IsIn(A[n + 1], C)
    BY <1>3, <1>4, <1>6, <1>7, <1>8, ProvedIsIn
  <1>10. PICK j \in 1 .. Len(committed) : committed[j].entry_hash = log[i].entry_hash
    BY <1>3, <1>4, <1>9 DEF IsIn
  <1>11. HashMatches(committed[j])
    BY <1>6 DEF IsChain, RowInPlace
  <1>12. committed[j].contents = log[i].contents
    BY <1>10, <1>11, Kinds DEF HashMatches, EntryHash
  <1> QED
    BY <1>1, <1>5, <1>10, <1>12

LEMMA InvMakesEvident ==
    ASSUME EvidenceInv
    PROVE  TamperEvident
  <1> SUFFICES ASSUME root # << >>
               PROVE  ChainError = "none" /\ MerkleRoot(Leaves) = root
                      <=> log = committed
    BY DEF TamperEvident, SessionEvidence
  <1>1. /\ IsLog(log) /\ IsLog(committed) /\ IsChain(committed)
        /\ root = MerkleRoot(LeavesOf(committed))
    BY DEF EvidenceInv
  <1>2. ASSUME log = committed
        PROVE  ChainError = "none" /\ MerkleRoot(Leaves) = root
    BY <1>1, <1>2, LeavesOfLog, VerifiedIsChain
  <1>3. ASSUME ChainError = "none", MerkleRoot(Leaves) = root
        PROVE  log = committed
    <2>1. IsChain(log)
      BY <1>1, <1>3, VerifiedIsChain
    <2>2. PICK A, C : A = LeavesOf(log) /\ C = LeavesOf(committed)
      OBVIOUS
    <2>3. Sequence(A) /\ Chained(A) /\ Sequence(C) /\ Chained(C)
      BY <1>1, <2>1, <2>2, LeavesFacts, ChainIsChained
    <2>4. MerkleRoot(A) = MerkleRoot(C)
      BY <1>1, <1>3, <2>2, LeavesOfLog
    <2>5. A = C
      BY <2>3, <2>4, RootPinsChain
    <2> QED
      BY <1>1, <2>1, <2>2, <2>5, SameRows
  <1> QED
    BY <1>2, <1>3

\* Every entry can be proved, in a log of any length and whatever its numbering:
\* the proof that evidence_proof makes verifies against its own root, so it never
\* answers ERR_EVIDENCE_UNAVAILABLE for a row it found.
THEOREM EntriesAreProvable == Spec => []EveryEntryProvable
  BY TableIsChain, InvMakesProvable, PTL

\* An entry with a right hash that is proved against the published root was
\* recorded before the settlement, with those contents, whatever became of the
\* other rows (verify_proof, MerkleTree::proof).
THEOREM ProofsSpeakOfRecorded == Spec => []ProofOnlyOfRecorded
  BY TableIsChain, InvMakesRecorded, PTL

\* Any change of the table shows: the chain that session_evidence returns verifies
\* and has the published root exactly if its rows are those the root was read
\* from, in number, order and contents.
THEOREM TamperingShows == Spec => []TamperEvident
  BY TableIsChain, InvMakesEvident, PTL
=============================================================================
