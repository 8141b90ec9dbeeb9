-------------------------- MODULE TraversalProofs --------------------------
(* What the queries of Traversal answer is right for every graph, every order of adjacent edges, every depth and      *)
(* limit: each of the five properties that TLC checks on four nodes.                                                  *)
EXTENDS Traversal, FiniteSetTheorems, WellFoundedInduction, TLAPS

-----------------------------------------------------------------------------
(* Natural numbers. The induction theorems of the library take a predicate; here it is a set. *)

\* A set of natural numbers that has any has a least one.
LEMMA Least ==
  ASSUME NEW T \in SUBSET Nat, T # {}
  PROVE  \E m \in T : \A k \in T : m <= k
  <1> DEFINE R == {ss \in Nat \X Nat : ss[1] < ss[2]}
  <1>1. IsWellFoundedOn(R, Nat)
    BY NatLessThanWellFounded DEF OpToRel
  <1>2. \A x, y \in Nat : x < y => <<x, y>> \in R
    OBVIOUS
  <1> HIDE DEF R
  <1>3. PICK m \in T : \A k \in T : <<k, m>> \notin R
    BY <1>1, WFMin
  <1>4. ASSUME NEW k \in T PROVE m <= k
    <2>1. ~(k < m)
      BY <1>2, <1>3
    <2> QED
      BY <2>1
  <1> QED
    BY <1>4

\* Induction.
LEMMA Induction ==
  ASSUME NEW S, 0 \in S, \A n \in Nat : n \in S => n + 1 \in S
  PROVE  Nat \subseteq S
  <1> SUFFICES ASSUME Nat \ S # {} PROVE FALSE
    OBVIOUS
  <1>1. PICK m \in Nat \ S : \A k \in Nat \ S : m <= k
    BY Least
  <1>2. m - 1 \in Nat /\ ~(m <= m - 1) /\ (m - 1) + 1 = m
    BY <1>1
  <1>3. m - 1 \in S
    BY <1>1, <1>2
  <1> QED
    BY <1>1, <1>2, <1>3

\* f has a, G[a], G[G[a]] and so on.
Iterates(f, S, a, G) == f \in [Nat -> S] /\ f[0] = a /\ \A n \in Nat : f[n + 1] = G[f[n]]

\* What recursion over the natural numbers defines exists.
LEMMA Recursion ==
  ASSUME NEW S, NEW a \in S, NEW G \in [S -> S]
  PROVE  \E f : Iterates(f, S, a, G)
  <1> DEFINE Begins(n, g) == g[0] = a /\ \A i \in 0..(n - 1) : g[i + 1] = G[g[i]]
             Good == {n \in Nat : \E g \in [0..n -> S] : Begins(n, g)}
             f == [n \in Nat |-> (CHOOSE g \in [0..n -> S] : Begins(n, g))[n]]
  <1>1. 0 \in Good
    <2>1. [i \in 0..0 |-> a] \in [0..0 -> S] /\ Begins(0, [i \in 0..0 |-> a])
      OBVIOUS
    <2> QED
      BY <2>1
  <1>2. ASSUME NEW n \in Nat, n \in Good PROVE n + 1 \in Good
    <2>1. PICK g \in [0..n -> S] : Begins(n, g)
      BY <1>2
    <2> DEFINE h == [i \in 0..(n + 1) |-> IF i = n + 1 THEN G[g[n]] ELSE g[i]]
    <2>2. h \in [0..(n + 1) -> S]
      OBVIOUS
    <2>3. Begins(n + 1, h)
      BY <2>1
    <2> HIDE DEF h, Begins
    <2> QED
      BY <2>2, <2>3
  <1>3. \A n \in Nat : n \in Good
    <2> HIDE DEF Good
    <2> QED
      BY <1>1, <1>2, Induction
  <1>4. ASSUME NEW n \in Nat, NEW m \in Nat, NEW g \in [0..n -> S], NEW h \in [0..m -> S],
               Begins(n, g), Begins(m, h), NEW i \in Nat, i <= n, i <= m
        PROVE  g[i] = h[i]
    <2> DEFINE Same == {j \in Nat : j <= n /\ j <= m => g[j] = h[j]}
    <2>1. 0 \in Same
      BY <1>4
    <2>2. ASSUME NEW j \in Nat, j \in Same PROVE j + 1 \in Same
      <3> SUFFICES ASSUME j + 1 <= n, j + 1 <= m PROVE g[j + 1] = h[j + 1]
        OBVIOUS
      <3>1. j \in 0..(n - 1) /\ j \in 0..(m - 1) /\ g[j] = h[j]
        BY <2>2
      <3> QED
        BY <1>4, <3>1
    <2>3. i \in Same
      <3> HIDE DEF Same
      <3> QED
        BY <2>1, <2>2, Induction
    <2> QED
      BY <1>4, <2>3
  <1>5. ASSUME NEW n \in Nat
        PROVE  \E g \in [0..n -> S] : Begins(n, g) /\ f[n] = g[n]
    <2>1. \E g \in [0..n -> S] : Begins(n, g)
      BY <1>3
    <2> DEFINE g == CHOOSE g \in [0..n -> S] : Begins(n, g)
    <2>2. g \in [0..n -> S] /\ Begins(n, g)
      BY <2>1
    <2>3. f[n] = g[n]
      OBVIOUS
    <2> QED
      BY <2>2, <2>3
  <1> HIDE DEF f, Good
  <1>6. f \in [Nat -> S]
    <2>1. \A n \in Nat : f[n] \in S
      BY <1>5
    <2>2. f = [n \in Nat |-> f[n]]
      BY DEF f
    <2> QED
      BY <2>1, <2>2
  <1>7. f[0] = a
    BY <1>5
  <1>8. ASSUME NEW n \in Nat PROVE f[n + 1] = G[f[n]]
    <2>1. PICK g \in [0..n -> S] : Begins(n, g) /\ f[n] = g[n]
      BY <1>5
    <2>2. n + 1 \in Nat
      OBVIOUS
    <2>5. PICK h \in [0..(n + 1) -> S] : Begins(n + 1, h) /\ f[n + 1] = h[n + 1]
      <3> HIDE DEF Begins
      <3> QED
        BY <1>5, <2>2
    <2>3. g[n] = h[n]
      <3> HIDE DEF Begins
      <3> QED
        BY <1>4, <2>1, <2>2, <2>5
    <2>4. h[n + 1] = G[h[n]]
      BY <2>5
    <2> QED
      BY <2>1, <2>3, <2>4, <2>5
  <1> QED
    BY <1>6, <1>7, <1>8 DEF Iterates

-----------------------------------------------------------------------------
(* What can be reached. *)

Pairs == Nodes \X Nodes

\* What can be reached from S: S, what is one step from what can be reached, and no more than any closed set has.
LEMMA ReachedIsLeast ==
  ASSUME NEW E \in SUBSET Pairs, NEW S \in SUBSET Nodes
  PROVE  /\ Reached(E, S) \subseteq Nodes
         /\ S \subseteq Reached(E, S)
         /\ Closed(E, Reached(E, S))
         /\ \A C \in SUBSET Nodes : S \subseteq C /\ Closed(E, C) => Reached(E, S) \subseteq C
  <1>1. Reached(E, S) \subseteq Nodes /\ S \subseteq Reached(E, S)
    BY DEF Reached
  <1>2. \A C \in SUBSET Nodes : S \subseteq C /\ Closed(E, C) => Reached(E, S) \subseteq C
    BY DEF Reached
  <1>3. ASSUME NEW e \in E, e[1] \in Reached(E, S) PROVE e[2] \in Reached(E, S)
    BY <1>3 DEF Reached, Closed, Pairs
  <1> QED
    BY <1>1, <1>2, <1>3 DEF Closed

\* Without edges, nothing more.
LEMMA ReachedWithout ==
  ASSUME NEW S \in SUBSET Nodes
  PROVE  Reached({}, S) = S
  <1>1. Closed({}, S) /\ {} \in SUBSET Pairs
    BY DEF Closed
  <1>2. S \subseteq Reached({}, S) /\ Reached({}, S) \subseteq S
    BY <1>1, ReachedIsLeast
  <1> QED
    BY <1>2

\* The nodes within a distance are a function of it, as it is defined.
LEMMA WithinUnfolds ==
  ASSUME NEW E \in SUBSET Pairs, NEW M \in SUBSET Pairs, NEW s \in Nodes
  PROVE  /\ Within(E, M, s) \in [Nat -> SUBSET Nodes]
         /\ Within(E, M, s)[0] = Reached(M, {s})
         /\ \A d \in Nat : Within(E, M, s)[d + 1] = Onward(E, M, Within(E, M, s)[d])
  <1> DEFINE G == [S \in SUBSET Nodes |-> Onward(E, M, S)]
             Unfolds(B) == B = [d \in Nat |-> IF d = 0 THEN Reached(M, {s}) ELSE Onward(E, M, B[d - 1])]
  <1>1. \A S : Reached(M, S) \in SUBSET Nodes
    BY DEF Reached
  <1>2. \A S : Onward(E, M, S) \in SUBSET Nodes
    BY <1>1 DEF Onward
  <1>3. G \in [SUBSET Nodes -> SUBSET Nodes]
    BY <1>2
  <1>4. \A S \in SUBSET Nodes : G[S] = Onward(E, M, S)
    OBVIOUS
  <1> HIDE DEF G
  <1> DEFINE T == SUBSET Nodes
             a == Reached(M, {s})
  <1>5. PICK f : Iterates(f, T, a, G)
    <2>1. a \in T /\ G \in [T -> T]
      BY <1>1, <1>3
    <2> HIDE DEF T, a
    <2> QED
      BY <2>1, Recursion
  <1>6. Unfolds(f)
    <2>1. ASSUME NEW d \in Nat PROVE f[d] = IF d = 0 THEN Reached(M, {s}) ELSE Onward(E, M, f[d - 1])
      <3>1. CASE d = 0
        BY <1>5, <3>1 DEF Iterates
      <3>2. CASE d # 0
        <4>1. d - 1 \in Nat /\ (d - 1) + 1 = d
          BY <3>2
        <4>2. f[d] = G[f[d - 1]] /\ f[d - 1] \in SUBSET Nodes
          BY <1>5, <4>1 DEF Iterates
        <4> QED
          BY <1>4, <3>2, <4>2
      <3> QED
        BY <3>1, <3>2
    <2>2. f = [d \in Nat |-> f[d]]
      BY <1>5 DEF Iterates
    <2> QED
      BY <2>1, <2>2
  <1>7. Within(E, M, s) = CHOOSE B : Unfolds(B)
    BY DEF Within
  <1>8. Unfolds(Within(E, M, s))
    BY <1>6, <1>7
  <1> DEFINE B == Within(E, M, s)
  <1>9. B = [d \in Nat |-> IF d = 0 THEN Reached(M, {s}) ELSE Onward(E, M, B[d - 1])]
    BY <1>8
  <1> HIDE DEF B
  <1>10. \A d \in Nat : B[d] \in SUBSET Nodes
    BY <1>1, <1>2, <1>9
  <1>11. B \in [Nat -> SUBSET Nodes] /\ B[0] = Reached(M, {s})
    BY <1>9, <1>10
  <1>12. ASSUME NEW d \in Nat PROVE B[d + 1] = Onward(E, M, B[d])
    <2>1. d + 1 \in Nat /\ d + 1 # 0 /\ (d + 1) - 1 = d
      OBVIOUS
    <2> QED
      BY <1>9, <2>1
  <1> QED
    BY <1>11, <1>12 DEF B

\* Nodes that are near are far enough; a step leads one further, to a member no further, and nowhere but to what can be
\* reached.
LEMMA WithinSteps ==
  ASSUME NEW E \in SUBSET Pairs, NEW M \in SUBSET Pairs, NEW s \in Nodes,
         NEW d \in Nat
  PROVE  /\ s \in Within(E, M, s)[0]
         /\ Within(E, M, s)[d] \subseteq Within(E, M, s)[d + 1]
         /\ \A e \in E : e[1] \in Within(E, M, s)[d] => e[2] \in Within(E, M, s)[d + 1]
         /\ Closed(M, Within(E, M, s)[d])
  <1>0. /\ Within(E, M, s) \in [Nat -> SUBSET Nodes]
        /\ Within(E, M, s)[0] = Reached(M, {s})
        /\ \A i \in Nat : Within(E, M, s)[i + 1] = Onward(E, M, Within(E, M, s)[i])
    BY WithinUnfolds
  <1> DEFINE B == Within(E, M, s)
             more == B[d] \cup UNION {Targets(E, n) : n \in B[d]}
  <1>1. B \in [Nat -> SUBSET Nodes] /\ B[0] = Reached(M, {s}) /\ \A i \in Nat : B[i + 1] = Onward(E, M, B[i])
    BY <1>0
  <1> HIDE DEF B
  <1>2. B[d] \in SUBSET Nodes /\ B[d + 1] = Reached(M, more) /\ more \in SUBSET Nodes
    BY <1>1 DEF Onward, Targets
  <1>3. more \subseteq B[d + 1]
    BY <1>2, ReachedIsLeast
  <1>4. \A e \in E : e[1] \in B[d] => e[2] \in more
    BY <1>2 DEF Targets, Pairs
  <1>5. s \in B[0]
    BY <1>1, ReachedIsLeast
  <1>6. Closed(M, B[d])
    <2>1. CASE d = 0
      BY <1>1, <2>1, ReachedIsLeast
    <2>2. CASE d # 0
      <3>1. d - 1 \in Nat /\ (d - 1) + 1 = d
        BY <2>2
      <3>2. B[d] = Onward(E, M, B[d - 1]) /\ B[d - 1] \in SUBSET Nodes
        BY <1>1, <3>1
      <3>3. B[d - 1] \cup UNION {Targets(E, n) : n \in B[d - 1]} \in SUBSET Nodes
        BY <3>2 DEF Targets
      <3> QED
        BY <3>2, <3>3, ReachedIsLeast DEF Onward
    <2> QED
      BY <2>1, <2>2
  <1> QED
    BY <1>3, <1>4, <1>5, <1>6 DEF B

LEMMA WithinGrows ==
  ASSUME NEW E \in SUBSET Pairs, NEW M \in SUBSET Pairs, NEW s \in Nodes,
         NEW d \in Nat, NEW k \in Nat, d <= k
  PROVE  Within(E, M, s)[d] \subseteq Within(E, M, s)[k]
  <1> DEFINE S == {i \in Nat : Within(E, M, s)[d] \subseteq Within(E, M, s)[d + i]}
  <1>1. 0 \in S
    OBVIOUS
  <1>2. ASSUME NEW i \in Nat, i \in S PROVE i + 1 \in S
    <2>1. d + i \in Nat /\ (d + i) + 1 = d + (i + 1) /\ i + 1 \in Nat
      OBVIOUS
    <2>2. Within(E, M, s)[d + i] \subseteq Within(E, M, s)[(d + i) + 1]
      BY <2>1, WithinSteps
    <2> QED
      BY <1>2, <2>1, <2>2
  <1>3. k - d \in Nat /\ d + (k - d) = k
    OBVIOUS
  <1>4. k - d \in S
    <2> HIDE DEF S
    <2> QED
      BY <1>1, <1>2, <1>3, Induction
  <1> QED
    BY <1>3, <1>4

\* However many steps.
LEMMA WithinReached ==
  ASSUME NEW E \in SUBSET Pairs, NEW M \in SUBSET Pairs, NEW s \in Nodes,
         NEW C \in SUBSET Nodes, s \in C, Closed(E, C), Closed(M, C), NEW d \in Nat
  PROVE  Within(E, M, s)[d] \subseteq C
  <1>0. /\ Within(E, M, s) \in [Nat -> SUBSET Nodes]
        /\ Within(E, M, s)[0] = Reached(M, {s})
        /\ \A i \in Nat : Within(E, M, s)[i + 1] = Onward(E, M, Within(E, M, s)[i])
    BY WithinUnfolds
  <1> DEFINE B == Within(E, M, s)
             S == {i \in Nat : B[i] \subseteq C}
  <1>1. B \in [Nat -> SUBSET Nodes] /\ B[0] = Reached(M, {s}) /\ \A i \in Nat : B[i + 1] = Onward(E, M, B[i])
    BY <1>0
  <1> HIDE DEF B
  <1>2. 0 \in S
    <2>1. Reached(M, {s}) \subseteq C
      BY ReachedIsLeast
    <2> QED
      BY <1>1, <2>1
  <1>3. ASSUME NEW i \in Nat, i \in S PROVE i + 1 \in S
    <2> DEFINE more == B[i] \cup UNION {Targets(E, n) : n \in B[i]}
    <2>1. B[i + 1] = Reached(M, more)
      BY <1>1 DEF Onward
    <2>2. B[i] \subseteq C
      BY <1>3
    <2>3. \A n \in B[i] : Targets(E, n) \subseteq C
      BY <2>2 DEF Targets, Closed
    <2>5. more \subseteq C
      BY <2>2, <2>3
    <2>4. Reached(M, more) \subseteq C
      <3> HIDE DEF more
      <3>1. more \in SUBSET Nodes
        BY <2>5
      <3> QED
        BY <2>5, <3>1, ReachedIsLeast
    <2> QED
      BY <2>1, <2>4
  <1>4. d \in S
    <2> HIDE DEF S
    <2> QED
      BY <1>2, <1>3, Induction
  <1> QED
    BY <1>4 DEF B

\* Without members, a node that is d + 1 steps away is one step from one that is d steps away.
LEMMA WithinWithout ==
  ASSUME NEW E \in SUBSET Pairs, NEW s \in Nodes, NEW d \in Nat
  PROVE  /\ Within(E, {}, s)[0] = {s}
         /\ \A t \in Within(E, {}, s)[d + 1] :
               t \in Within(E, {}, s)[d] \/ \E n \in Within(E, {}, s)[d] : <<n, t>> \in E
  <1>0. /\ Within(E, {}, s) \in [Nat -> SUBSET Nodes]
        /\ Within(E, {}, s)[0] = Reached({}, {s})
        /\ \A i \in Nat : Within(E, {}, s)[i + 1] = Onward(E, {}, Within(E, {}, s)[i])
    <2>1. {} \in SUBSET Pairs
      OBVIOUS
    <2> QED
      BY <2>1, WithinUnfolds
  <1> DEFINE B == Within(E, {}, s)
             more == B[d] \cup UNION {Targets(E, n) : n \in B[d]}
  <1>1. B \in [Nat -> SUBSET Nodes] /\ B[0] = Reached({}, {s}) /\ \A i \in Nat : B[i + 1] = Onward(E, {}, B[i])
    BY <1>0
  <1> HIDE DEF B
  <1>2. B[0] = {s}
    BY <1>1, ReachedWithout
  <1>3. more \in SUBSET Nodes /\ B[d + 1] = Reached({}, more)
    BY <1>1 DEF Onward, Targets
  <1>4. B[d + 1] = more
    BY <1>3, ReachedWithout
  <1> QED
    BY <1>2, <1>4 DEF B, Targets

-----------------------------------------------------------------------------
(* The query, which no step changes. *)

QueryOK == /\ op \in Ops
           /\ deps \in SUBSET Pairs
           /\ from \in Nodes
           /\ to \in Nodes
           /\ maxDepth \in Nat
           /\ limit \in Nat
           /\ op \in {"bfs", "dfs", "callers", "impact"} => maxDepth >= 1

LEMMA QueryInit == Init => QueryOK
  BY TraversalAssumption DEF Init, QueryOK, Ops, Pairs

LEMMA QueryStays ==
  ASSUME UNCHANGED query
  PROVE  /\ QueryOK => QueryOK'
         /\ Followed' = Followed /\ Contained' = Contained
         /\ Ball' = Ball /\ Closure' = Closure
  <1>1. Followed' = Followed /\ Contained' = Contained
    BY DEF query, Followed, Contained, Passes
  <1>2. Ball' = Ball /\ Closure' = Closure
    BY <1>1 DEF query, Ball, Closure
  <1>3. QueryOK => QueryOK'
    BY DEF query, QueryOK
  <1> QED
    BY <1>1, <1>2, <1>3

\* Only getImpactRecursive follows containment.
LEMMA Edges ==
  ASSUME QueryOK
  PROVE  /\ Followed \in SUBSET Pairs /\ Contained \in SUBSET Pairs
         /\ op # "impact" => Contained = {}
  BY TraversalAssumption DEF QueryOK, Followed, Contained, Pairs

LEMMA BallSteps ==
  ASSUME QueryOK
  PROVE  /\ Ball \in [Nat -> SUBSET Nodes]
         /\ from \in Ball[0]
         /\ \A d, k \in Nat : d <= k => Ball[d] \subseteq Ball[k]
         /\ \A d \in Nat : \A n \in Ball[d] : Targets(Followed, n) \subseteq Ball[d + 1]
         /\ \A d \in Nat : \A n \in Ball[d] : Kids(n) \subseteq Ball[d]
         /\ \A d \in Nat : Ball[d] \subseteq Closure
  <1>1. Followed \in SUBSET Pairs /\ Contained \in SUBSET Pairs /\ from \in Nodes
    BY Edges DEF QueryOK, Pairs
  <1>2. Ball \in [Nat -> SUBSET Nodes]
    BY <1>1, WithinUnfolds DEF Ball
  <1>3. \A d, k \in Nat : d <= k => Ball[d] \subseteq Ball[k]
    BY <1>1, WithinGrows DEF Ball
  <1>4. from \in Ball[0]
    BY <1>1, WithinSteps DEF Ball
  <1>5. ASSUME NEW d \in Nat, NEW n \in Ball[d]
        PROVE  Targets(Followed, n) \subseteq Ball[d + 1] /\ Kids(n) \subseteq Ball[d]
    <2>1. /\ \A e \in Followed : e[1] \in Ball[d] => e[2] \in Ball[d + 1]
          /\ Closed(Contained, Ball[d])
      BY <1>1, WithinSteps DEF Ball
    <2> QED
      BY <1>5, <2>1 DEF Targets, Kids, Closed
  <1>6. ASSUME NEW d \in Nat PROVE Ball[d] \subseteq Closure
    <2>1. Followed \cup Contained \in SUBSET Pairs /\ {from} \in SUBSET Nodes
      BY <1>1
    <2>2. /\ Closure \in SUBSET Nodes /\ from \in Closure
          /\ Closed(Followed \cup Contained, Closure)
      BY <2>1, ReachedIsLeast DEF Closure
    <2>3. Closed(Followed, Closure) /\ Closed(Contained, Closure)
      BY <2>2 DEF Closed
    <2> QED
      BY <1>1, <2>2, <2>3, WithinReached DEF Ball
  <1> QED
    BY <1>2, <1>3, <1>4, <1>5, <1>6

LEMMA BallWithout ==
  ASSUME QueryOK, op # "impact"
  PROVE  /\ Ball[0] = {from}
         /\ \A d \in Nat : \A t \in Ball[d + 1] : t \in Ball[d] \/ \E n \in Ball[d] : <<n, t>> \in Followed
  <1>1. Followed \in SUBSET Pairs /\ Contained = {} /\ from \in Nodes
    BY Edges DEF QueryOK, Pairs
  <1>2. Ball = Within(Followed, {}, from)
    BY <1>1 DEF Ball
  <1> QED
    BY <1>1, <1>2, WithinWithout

\* What is closed has all that can be reached.
LEMMA ClosureIsLeast ==
  ASSUME QueryOK, NEW C \in SUBSET Nodes, from \in C,
         \A n \in C : Targets(Followed, n) \subseteq C /\ Kids(n) \subseteq C
  PROVE  Closure \subseteq C
  <1>1. Followed \cup Contained \in SUBSET Pairs /\ {from} \in SUBSET Nodes /\ {from} \subseteq C
    BY Edges DEF QueryOK, Pairs
  <1>2. Closed(Followed \cup Contained, C)
    BY <1>1 DEF Closed, Targets, Kids, Pairs
  <1> QED
    BY <1>1, <1>2, ReachedIsLeast DEF Closure

-----------------------------------------------------------------------------
(* Sequences, by what is in them. *)

\* Head and Tail divide what is in a sequence.
LEMMA HeadAndTail ==
  ASSUME NEW T, NEW s \in Seq(T), s # <<>>
  PROVE  /\ Head(s) \in T /\ Tail(s) \in Seq(T)
         /\ ToSet(s) = {Head(s)} \cup ToSet(Tail(s))
  <1>1. Head(s) \in T /\ Tail(s) \in Seq(T) /\ Len(Tail(s)) = Len(s) - 1
    OBVIOUS
  <1>2. Len(s) \in Nat \ {0} /\ DOMAIN s = 1..Len(s) /\ Head(s) = s[1]
    OBVIOUS
  <1>3. DOMAIN Tail(s) = 1..(Len(s) - 1) /\ \A i \in 1..(Len(s) - 1) : Tail(s)[i] = s[i + 1]
    BY <1>1
  <1>4. ASSUME NEW x \in ToSet(s) PROVE x = Head(s) \/ x \in ToSet(Tail(s))
    <2>1. PICK i \in 1..Len(s) : x = s[i]
      BY <1>2, <1>4 DEF ToSet
    <2>2. CASE i # 1
      <3>1. i - 1 \in DOMAIN Tail(s) /\ Tail(s)[i - 1] = s[i]
        BY <1>2, <1>3, <2>1, <2>2
      <3> QED
        BY <2>1, <3>1 DEF ToSet
    <2> QED
      BY <1>2, <2>1, <2>2
  <1>5. ASSUME NEW x \in ToSet(Tail(s)) PROVE x \in ToSet(s)
    <2>1. PICK i \in 1..(Len(s) - 1) : x = Tail(s)[i]
      BY <1>3, <1>5 DEF ToSet
    <2>2. i + 1 \in DOMAIN s /\ s[i + 1] = x
      BY <1>2, <1>3, <2>1
    <2> QED
      BY <2>2 DEF ToSet
  <1>6. Head(s) \in ToSet(s)
    BY <1>2 DEF ToSet
  <1> QED
    BY <1>1, <1>4, <1>5, <1>6

\* Append adds one.
LEMMA Appended ==
  ASSUME NEW T, NEW s \in Seq(T), NEW e \in T
  PROVE  /\ Append(s, e) \in Seq(T)
         /\ ToSet(Append(s, e)) = ToSet(s) \cup {e}
  <1>1. Append(s, e) \in Seq(T) /\ Len(Append(s, e)) = Len(s) + 1 /\ Len(s) \in Nat
    OBVIOUS
  <1>2. DOMAIN s = 1..Len(s) /\ DOMAIN Append(s, e) = 1..(Len(s) + 1)
    BY <1>1
  <1>3. \A i \in 1..(Len(s) + 1) : Append(s, e)[i] = IF i = Len(s) + 1 THEN e ELSE s[i]
    BY <1>1
  <1>4. ASSUME NEW x \in ToSet(Append(s, e)) PROVE x = e \/ x \in ToSet(s)
    BY <1>1, <1>2, <1>3, <1>4 DEF ToSet
  <1>5. e \in ToSet(Append(s, e))
    BY <1>1, <1>2, <1>3 DEF ToSet
  <1>6. ASSUME NEW x \in ToSet(s) PROVE x \in ToSet(Append(s, e))
    BY <1>1, <1>2, <1>3, <1>6 DEF ToSet
  <1> QED
    BY <1>1, <1>4, <1>5, <1>6

\* What is in one sequence after another.
LEMMA Concatenated ==
  ASSUME NEW T, NEW s \in Seq(T), NEW t \in Seq(T)
  PROVE  s \o t \in Seq(T) /\ ToSet(s \o t) = ToSet(s) \cup ToSet(t)
  <1>1. s \o t \in Seq(T) /\ Len(s \o t) = Len(s) + Len(t) /\ Len(s) \in Nat /\ Len(t) \in Nat
    OBVIOUS
  <1>2. DOMAIN s = 1..Len(s) /\ DOMAIN t = 1..Len(t) /\ DOMAIN (s \o t) = 1..(Len(s) + Len(t))
    BY <1>1
  <1>3. \A i \in 1..(Len(s) + Len(t)) : (s \o t)[i] = IF i <= Len(s) THEN s[i] ELSE t[i - Len(s)]
    BY <1>1
  <1>4. ASSUME NEW x \in ToSet(s \o t) PROVE x \in ToSet(s) \cup ToSet(t)
    <2>1. PICK i \in 1..(Len(s) + Len(t)) : x = (s \o t)[i]
      BY <1>2, <1>4 DEF ToSet
    <2>2. CASE i <= Len(s)
      <3>1. i \in DOMAIN s /\ x = s[i]
        BY <1>1, <1>2, <1>3, <2>1, <2>2
      <3> QED
        BY <3>1 DEF ToSet
    <2>3. CASE ~(i <= Len(s))
      <3>1. i - Len(s) \in DOMAIN t /\ x = t[i - Len(s)]
        BY <1>1, <1>2, <1>3, <2>1, <2>3
      <3> QED
        BY <3>1 DEF ToSet
    <2> QED
      BY <2>2, <2>3
  <1>5. ASSUME NEW x \in ToSet(s) PROVE x \in ToSet(s \o t)
    <2>1. PICK i \in 1..Len(s) : x = s[i]
      BY <1>2, <1>5 DEF ToSet
    <2>2. i \in DOMAIN (s \o t) /\ (s \o t)[i] = x
      BY <1>1, <1>2, <1>3, <2>1
    <2> QED
      BY <2>2 DEF ToSet
  <1>6. ASSUME NEW x \in ToSet(t) PROVE x \in ToSet(s \o t)
    <2>1. PICK i \in 1..Len(t) : x = t[i]
      BY <1>2, <1>6 DEF ToSet
    <2>2. i + Len(s) \in DOMAIN (s \o t) /\ (s \o t)[i + Len(s)] = t[i]
      BY <1>1, <1>2, <1>3, <2>1
    <2> QED
      BY <2>1, <2>2 DEF ToSet
  <1> QED
    BY <1>1, <1>4, <1>5, <1>6

\* The empty sequence and a sequence of one.
LEMMA ShortSequences ==
  ASSUME NEW T, NEW e \in T
  PROVE  /\ <<>> \in Seq(T) /\ ToSet(<<>>) = {}
         /\ <<e>> \in Seq(T) /\ ToSet(<<e>>) = {e}
  BY DEF ToSet

\* The adjacent nodes in the order of a query: all of them.
LEMMA Ordered ==
  ASSUME NEW K \in SUBSET Nodes, NEW order \in SetToSeqs(K)
  PROVE  /\ \E n \in Nat : DOMAIN order = 1..n
         /\ \A i \in DOMAIN order : order[i] \in K
         /\ \A k \in K : \E i \in DOMAIN order : order[i] = k
  <1> DEFINE n == Cardinality(K)
  <1>1. IsFiniteSet(K) /\ n \in Nat
    BY TraversalAssumption, FS_Subset, FS_CardinalityType
  <1>2. IsFiniteSet(1..n) /\ Cardinality(1..n) = n
    BY <1>1, FS_Interval
  <1>3. order \in [1..n -> K] /\ \A i, j \in 1..n : i # j => order[i] # order[j]
    BY DEF SetToSeqs
  <1>4. order \in Injection(1..n, K)
    BY <1>3 DEF Injection, IsInjective
  <1>5. order \in Surjection(1..n, K)
    BY <1>1, <1>2, <1>4, FS_Injection
  <1>6. \A k \in K : \E i \in 1..n : order[i] = k
    BY <1>5 DEF Surjection
  <1> HIDE DEF n
  <1> QED
    BY <1>1, <1>3, <1>6

\* A queue in which f grows, and by no more than one.
Rising(f, s) == \A i, j \in DOMAIN s : i <= j => f[s[i]] <= f[s[j]] /\ f[s[j]] <= f[s[i]] + 1

LEMMA StillRising ==
  ASSUME NEW T, NEW f \in [T -> Nat], NEW s \in Seq(T), s # <<>>, Rising(f, s),
         NEW a \in Seq(T), \A i \in DOMAIN a : f[a[i]] = f[Head(s)] + 1
  PROVE  /\ Rising(f, Tail(s) \o a)
         /\ \A x \in ToSet(s) : f[Head(s)] <= f[x]
  <1> DEFINE r == Tail(s)
  <1>1. /\ Len(s) \in Nat \ {0} /\ DOMAIN s = 1..Len(s) /\ Head(s) = s[1]
        /\ r \in Seq(T) /\ DOMAIN r = 1..(Len(s) - 1) /\ Len(r) = Len(s) - 1
        /\ \A i \in 1..(Len(s) - 1) : r[i] = s[i + 1]
    OBVIOUS
  <1>2. \A i \in DOMAIN s : s[i] \in T /\ f[s[i]] \in Nat
    OBVIOUS
  <1>3. \A i \in DOMAIN s : f[s[1]] <= f[s[i]] /\ f[s[i]] <= f[s[1]] + 1
    BY <1>1 DEF Rising
  <1>4. Rising(f, r)
    <2> SUFFICES ASSUME NEW i \in DOMAIN r, NEW j \in DOMAIN r, i <= j
                 PROVE  f[r[i]] <= f[r[j]] /\ f[r[j]] <= f[r[i]] + 1
      BY DEF Rising
    <2>1. i + 1 \in DOMAIN s /\ j + 1 \in DOMAIN s /\ i + 1 <= j + 1 /\ r[i] = s[i + 1] /\ r[j] = s[j + 1]
      BY <1>1
    <2> QED
      BY <2>1 DEF Rising
  <1>5. \A i \in DOMAIN r : f[s[1]] <= f[r[i]] /\ f[r[i]] <= f[s[1]] + 1 /\ f[r[i]] \in Nat
    BY <1>1, <1>2, <1>3
  <1>6. f[s[1]] \in Nat
    BY <1>1, <1>2
  <1> HIDE DEF r
  <1>7. /\ DOMAIN (r \o a) = 1..(Len(r) + Len(a)) /\ Len(r) \in Nat /\ Len(a) \in Nat
        /\ DOMAIN r = 1..Len(r) /\ DOMAIN a = 1..Len(a)
        /\ \A i \in 1..(Len(r) + Len(a)) : (r \o a)[i] = IF i <= Len(r) THEN r[i] ELSE a[i - Len(r)]
    <2>1. r \in Seq(T)
      BY <1>1
    <2>2. r \o a \in Seq(T) /\ Len(r \o a) = Len(r) + Len(a) /\ Len(r) \in Nat /\ Len(a) \in Nat
      BY <2>1
    <2>3. DOMAIN r = 1..Len(r) /\ DOMAIN a = 1..Len(a) /\ DOMAIN (r \o a) = 1..(Len(r) + Len(a))
      BY <2>1, <2>2
    <2>4. \A i \in 1..(Len(r) + Len(a)) : (r \o a)[i] = IF i <= Len(r) THEN r[i] ELSE a[i - Len(r)]
      BY <2>1, <2>2
    <2> QED
      BY <2>2, <2>3, <2>4
  <1>8. Rising(f, r \o a)
    <2> SUFFICES ASSUME NEW i \in DOMAIN (r \o a), NEW j \in DOMAIN (r \o a), i <= j
                 PROVE  f[(r \o a)[i]] <= f[(r \o a)[j]] /\ f[(r \o a)[j]] <= f[(r \o a)[i]] + 1
      BY DEF Rising
    <2>1. CASE j <= Len(r)
      <3>1. i \in DOMAIN r /\ j \in DOMAIN r /\ (r \o a)[i] = r[i] /\ (r \o a)[j] = r[j]
        BY <1>7, <2>1
      <3> QED
        BY <1>4, <3>1 DEF Rising
    <2>2. CASE ~(j <= Len(r))
      <3>1. (r \o a)[j] = a[j - Len(r)] /\ j - Len(r) \in DOMAIN a
        BY <1>7, <2>2
      <3>2. f[(r \o a)[j]] = f[s[1]] + 1
        BY <1>1, <3>1
      <3>3. CASE i <= Len(r)
        <4>1. i \in DOMAIN r /\ (r \o a)[i] = r[i]
          BY <1>7, <3>3
        <4> QED
          BY <1>5, <1>6, <3>2, <4>1
      <3>4. CASE ~(i <= Len(r))
        <4>1. (r \o a)[i] = a[i - Len(r)] /\ i - Len(r) \in DOMAIN a
          BY <1>7, <3>4
        <4>2. f[(r \o a)[i]] = f[s[1]] + 1
          BY <1>1, <4>1
        <4> QED
          BY <1>6, <3>2, <4>2
      <3> QED
        BY <3>3, <3>4
    <2> QED
      BY <2>1, <2>2
  <1> QED
    BY <1>1, <1>3, <1>8 DEF r, ToSet

-----------------------------------------------------------------------------
(* Breadth first. *)

\* If all that is one step from what was visited is visited, for the visited nodes less than k steps away, then all that
\* is within k steps is.
LEMMA AllVisited ==
  ASSUME QueryOK, op # "impact", from \in visited, NEW k \in Nat,
         \A j \in Nat : j < k => \A n \in visited \cap Ball[j] : Targets(Followed, n) \subseteq visited
  PROVE  Ball[k] \subseteq visited
  <1> DEFINE S == {i \in Nat : i <= k => Ball[i] \subseteq visited}
  <1>1. 0 \in S
    BY BallWithout
  <1>2. ASSUME NEW i \in Nat, i \in S PROVE i + 1 \in S
    <2> SUFFICES ASSUME i + 1 <= k, NEW t \in Ball[i + 1] PROVE t \in visited
      OBVIOUS
    <2>1. Ball[i] \subseteq visited /\ i < k
      BY <1>2
    <2>2. CASE t \in Ball[i]
      BY <2>1, <2>2
    <2>3. CASE \E n \in Ball[i] : <<n, t>> \in Followed
      <3>1. PICK n \in Ball[i] : <<n, t>> \in Followed
        BY <2>3
      <3>2. t \in Targets(Followed, n)
        BY <3>1, Edges DEF Targets, Pairs
      <3> QED
        BY <2>1, <3>1, <3>2
    <2> QED
      BY <2>2, <2>3, BallWithout
  <1>3. k \in S
    <2> HIDE DEF S
    <2> QED
      BY <1>1, <1>2, Induction
  <1> QED
    BY <1>3

BfsStep == [node: Nodes, via: SUBSET Pairs, depth: Nat]
Depth == [s \in BfsStep |-> s.depth]
Steps == ToSet(work)

BfsTypes == work \in Seq(BfsStep) /\ visited \subseteq Nodes /\ nodes \subseteq Nodes /\ edges \subseteq Pairs

\* The start is visited first.
BfsStarted == IF visited = {}
              THEN work = <<[node |-> from, via |-> {}, depth |-> 0]>> /\ edges = {}
              ELSE from \in visited

\* The answer is what was visited and what is to be visited.
BfsNodes == nodes = visited \cup {s.node : s \in Steps}

\* Nothing is too far.
BfsNear == /\ \A s \in Steps : s.depth <= maxDepth /\ s.node \in Ball[s.depth]
           /\ visited \subseteq Ball[maxDepth]

\* Nothing is missed: what is one step from a visited node is visited, or will be with a depth that is right.
BfsGoesOn == \A d \in Nat : d < maxDepth =>
                \A n \in visited \cap Ball[d] : \A t \in Targets(Followed, n) :
                   t \in visited \/ \E s \in Steps : s.node = t /\ s.depth <= d + 1

\* The edges are a tree with the root from, and each step has the edge it was found by.
BfsTree == /\ \A n \in Nodes : IF n \in visited \ {from}
                               THEN \E m \in Nodes : Sources(edges, n) = {m}
                               ELSE Sources(edges, n) = {}
           /\ visited # {} => \A s \in Steps : \E m \in Nodes : s.via = {<<m, s.node>>}

BfsInv == op = "bfs" =>
             BfsTypes /\ BfsStarted /\ BfsNodes /\ BfsNear /\ Rising(Depth, work) /\ BfsGoesOn /\ BfsTree

\* A query begins with the start in the queue.
LEMMA BfsInit == Init => BfsInv
  <1> SUFFICES ASSUME Init, op = "bfs"
               PROVE  BfsTypes /\ BfsStarted /\ BfsNodes /\ BfsNear /\ Rising(Depth, work) /\ BfsGoesOn /\ BfsTree
    BY DEF BfsInv
  <1> DEFINE s == [node |-> from, via |-> {}, depth |-> 0]
  <1>1. QueryOK
    BY QueryInit
  <1>2. work = <<s>> /\ visited = {} /\ nodes = {from} /\ edges = {} /\ from \in Nodes
    BY DEF Init, Recursive
  <1>3. s \in BfsStep
    BY <1>2 DEF BfsStep
  <1>4. s.node = from /\ s.depth = 0
    OBVIOUS
  <1> HIDE DEF s
  <1>5. work \in Seq(BfsStep) /\ Steps = {s}
    BY <1>2, <1>3, ShortSequences DEF Steps
  <1>6. BfsTypes
    BY <1>2, <1>5 DEF BfsTypes
  <1>7. BfsStarted /\ BfsNodes
    BY <1>2, <1>4, <1>5 DEF BfsStarted, BfsNodes, s
  <1>8. BfsNear
    BY <1>1, <1>2, <1>4, <1>5, BallSteps DEF BfsNear, QueryOK
  <1>9. Rising(Depth, work)
    <2>1. Depth[s] = 0 /\ DOMAIN work = {1} /\ work[1] = s
      BY <1>2, <1>3, <1>4 DEF Depth
    <2> QED
      BY <2>1 DEF Rising
  <1>10. BfsGoesOn /\ BfsTree
    BY <1>2 DEF BfsGoesOn, BfsTree, Sources
  <1> QED
    BY <1>6, <1>7, <1>8, <1>9, <1>10

\* What a step does to the queue and the answer, whether its node was visited before or not.
LEMMA BfsStepping ==
  ASSUME QueryOK, op = "bfs", BfsTypes, Bfs
  PROVE  LET step == Head(work)
             n == step.node
             new == IF n \in visited \/ DeepEnough(step.depth) THEN {}
                    ELSE Targets(Followed, n) \ (visited \cup {n})
         IN  /\ step \in BfsStep /\ Steps = {step} \cup ToSet(Tail(work)) /\ work # <<>>
             /\ \E a \in Seq(BfsStep) :
                   /\ work' = Tail(work) \o a
                   /\ ToSet(a) = {[node |-> t, via |-> {<<n, t>>}, depth |-> step.depth + 1] : t \in new}
             /\ visited' = visited \cup {n}
             /\ nodes' = nodes \cup new
             /\ edges' = IF n \in visited THEN edges ELSE edges \cup step.via
  <1> DEFINE step == Head(work)
             n == step.node
             new == IF n \in visited \/ DeepEnough(step.depth) THEN {}
                    ELSE Targets(Followed, n) \ (visited \cup {n})
             Item(t) == [node |-> t, via |-> {<<n, t>>}, depth |-> step.depth + 1]
  <1>1. work \in Seq(BfsStep) /\ work # <<>>
    BY DEF BfsTypes, Bfs
  <1>2. /\ step \in BfsStep /\ Tail(work) \in Seq(BfsStep)
        /\ Steps = {step} \cup ToSet(Tail(work))
    BY <1>1, HeadAndTail DEF Steps
  <1>3. n \in Nodes /\ step.depth \in Nat
    BY <1>2 DEF BfsStep
  <1>4. {t \in Targets(deps, n) \ (visited \cup {n}) : Passes(<<n, t>>)} = Targets(Followed, n) \ (visited \cup {n})
    BY DEF Targets, Followed
  <1>5. visited' = visited \cup {n}
    BY DEF Bfs
  <1>6. CASE n \in visited
    <2>1. work' = Tail(work) /\ nodes' = nodes /\ edges' = edges /\ new = {}
      BY <1>6 DEF Bfs
    <2>2. <<>> \in Seq(BfsStep) /\ Tail(work) \o <<>> = Tail(work) /\ ToSet(<<>>) = {}
      BY <1>2 DEF ToSet
    <2> QED
      BY <1>1, <1>2, <1>5, <1>6, <2>1, <2>2
  <1>7. CASE n \notin visited
    <2>1. nodes' = nodes \cup new /\ edges' = edges \cup step.via
      BY <1>4, <1>7 DEF Bfs
    <2>2. PICK order \in SetToSeqs(new) : work' = Tail(work) \o [i \in DOMAIN order |-> Item(order[i])]
      BY <1>4, <1>7 DEF Bfs
    <2> DEFINE a == [i \in DOMAIN order |-> Item(order[i])]
    <2>3. new \in SUBSET Nodes
      BY DEF Targets
    <2>4. /\ \E k \in Nat : DOMAIN order = 1..k
          /\ \A i \in DOMAIN order : order[i] \in new
          /\ \A t \in new : \E i \in DOMAIN order : order[i] = t
      BY <2>3, Ordered
    <2>5. \A t \in new : Item(t) \in BfsStep
      BY <1>3, <2>3 DEF BfsStep, Pairs
    <2> HIDE DEF new, Item
    <2>6. a \in Seq(BfsStep)
      BY <2>4, <2>5
    <2>7. ToSet(a) = {Item(t) : t \in new}
      BY <2>4 DEF ToSet
    <2> QED
      BY <1>1, <1>2, <1>5, <1>7, <2>1, <2>2, <2>6, <2>7 DEF new, Item
  <1> QED
    BY <1>6, <1>7

LEMMA AtTheStart ==
  ASSUME BfsStarted, visited = {}
  PROVE  /\ work # <<>> /\ Tail(work) = <<>>
         /\ Head(work) = [node |-> from, via |-> {}, depth |-> 0] /\ Head(work).node = from
         /\ Head(work).depth = 0 /\ Head(work).via = {}
  <1> DEFINE s == [node |-> from, via |-> {}, depth |-> 0]
  <1>1. s.node = from /\ s.depth = 0 /\ s.via = {}
    OBVIOUS
  <1>2. work = <<s>>
    BY DEF BfsStarted
  <1> HIDE DEF s
  <1>3. work # <<>> /\ Tail(work) = <<>> /\ Head(work) = s
    BY <1>2
  <1> QED
    BY <1>1, <1>3 DEF s

LEMMA StepsTyped ==
  ASSUME BfsTypes
  PROVE  \A s \in Steps : s \in BfsStep /\ s.depth \in Nat
  <1>1. \A s \in Steps : s \in BfsStep
    BY DEF BfsTypes, Steps, ToSet
  <1> QED
    BY <1>1 DEF BfsStep

\* All that is nearer than the head of the queue was visited; if the queue is empty, all that is near enough.
LEMMA BfsBehind ==
  ASSUME QueryOK, op = "bfs", BfsTypes, BfsGoesOn, from \in visited, NEW k \in Nat, k <= maxDepth,
         \A s \in Steps : k < s.depth
  PROVE  Ball[k] \subseteq visited
  <1>1. ASSUME NEW j \in Nat, j < k, NEW n \in visited \cap Ball[j], NEW t \in Targets(Followed, n)
        PROVE  t \in visited
    <2>1. j < maxDepth /\ maxDepth \in Nat
      BY <1>1 DEF QueryOK
    <2>2. t \in visited \/ \E s \in Steps : s.node = t /\ s.depth <= j + 1
      BY <1>1, <2>1 DEF BfsGoesOn
    <2>3. \A s \in Steps : s.depth \in Nat
      BY StepsTyped
    <2>4. \A s \in Steps : ~(s.depth <= j + 1)
      BY <1>1, <2>3
    <2> QED
      BY <2>2, <2>4
  <1> QED
    BY <1>1, AllVisited

LEMMA BfsKept ==
  ASSUME QueryOK, BfsInv, op = "bfs", Bfs
  PROVE  BfsInv'
  <1> DEFINE step == Head(work)
             n == step.node
             d == step.depth
             new == IF n \in visited \/ DeepEnough(d) THEN {} ELSE Targets(Followed, n) \ (visited \cup {n})
             Item(t) == [node |-> t, via |-> {<<n, t>>}, depth |-> d + 1]
  <1>1. /\ BfsTypes /\ BfsStarted /\ BfsNodes /\ BfsNear /\ Rising(Depth, work) /\ BfsGoesOn /\ BfsTree
    BY DEF BfsInv
  <1>2. /\ step \in BfsStep /\ Steps = {step} \cup ToSet(Tail(work)) /\ work # <<>>
        /\ visited' = visited \cup {n} /\ nodes' = nodes \cup new
        /\ edges' = IF n \in visited THEN edges ELSE edges \cup step.via
        /\ \E a \in Seq(BfsStep) : work' = Tail(work) \o a /\ ToSet(a) = {Item(t) : t \in new}
    BY <1>1, BfsStepping
  <1>3. PICK a \in Seq(BfsStep) : work' = Tail(work) \o a /\ ToSet(a) = {Item(t) : t \in new}
    BY <1>2
  <1>4. work \in Seq(BfsStep) /\ Tail(work) \in Seq(BfsStep)
    BY <1>1, <1>2, HeadAndTail DEF BfsTypes
  <1>5. work' \in Seq(BfsStep) /\ Steps' = ToSet(Tail(work)) \cup {Item(t) : t \in new}
    <2>1. Steps' = ToSet(work')
      BY DEF Steps, ToSet
    <2>2. Tail(work) \o a \in Seq(BfsStep) /\ ToSet(Tail(work) \o a) = ToSet(Tail(work)) \cup ToSet(a)
      BY <1>4, Concatenated
    <2> HIDE DEF Item, new
    <2> QED
      BY <1>3, <2>1, <2>2
  <1>6. n \in Nodes /\ d \in Nat /\ new \subseteq Nodes /\ step.via \subseteq Pairs /\ maxDepth \in Nat
    BY <1>2 DEF BfsStep, Targets, QueryOK
  <1>7. /\ op' = op /\ deps' = deps /\ from' = from /\ maxDepth' = maxDepth /\ Followed' = Followed /\ Ball' = Ball
    BY QueryStays DEF Bfs, query
  <1>8. /\ Rising(Depth, work')
        /\ \A s \in Steps : s.depth \in Nat /\ d <= s.depth
    <2>1. \A i \in DOMAIN a : a[i] \in BfsStep /\ Depth[a[i]] = Depth[Head(work)] + 1
      <3> SUFFICES ASSUME NEW i \in DOMAIN a PROVE a[i] \in BfsStep /\ Depth[a[i]] = Depth[Head(work)] + 1
        OBVIOUS
      <3>1. a[i] \in ToSet(a) /\ a[i] \in BfsStep
        BY DEF ToSet
      <3>2. PICK t \in new : a[i] = Item(t)
        BY <1>3, <3>1
      <3>3. a[i].depth = d + 1
        BY <3>2
      <3> HIDE DEF new, Item
      <3> QED
        BY <1>2, <3>1, <3>3 DEF Depth
    <2>2. Depth \in [BfsStep -> Nat]
      BY DEF Depth, BfsStep
    <2>3. /\ Rising(Depth, Tail(work) \o a)
          /\ \A s \in ToSet(work) : Depth[Head(work)] <= Depth[s]
      BY <1>1, <1>2, <1>4, <2>1, <2>2, StillRising
    <2>4. \A s \in Steps : s \in BfsStep
      BY <1>4 DEF Steps, ToSet
    <2>5. \A s \in BfsStep : Depth[s] = s.depth /\ s.depth \in Nat
      BY DEF Depth, BfsStep
    <2>6. \A s \in Steps : d <= s.depth
      BY <1>2, <2>3, <2>4, <2>5 DEF Steps
    <2> QED
      BY <1>3, <2>3, <2>4, <2>5, <2>6
  <1>9. \A t \in new : Item(t).node = t /\ Item(t).depth = d + 1 /\ Item(t).via = {<<n, t>>}
    OBVIOUS
  <1>10. \A t \in new : t \notin visited /\ t # n /\ t \in Targets(Followed, n) /\ d < maxDepth /\ n \notin visited
    BY <1>6 DEF DeepEnough
  <1>11. n \notin visited /\ d < maxDepth => Targets(Followed, n) \subseteq visited \cup {n} \cup new
    BY <1>6 DEF DeepEnough
  <1>12. from \in visited'
    BY <1>1, <1>2 DEF BfsStarted
  <1>13. n # from \/ visited = {} \/ n \in visited
    BY <1>1 DEF BfsStarted
  <1> HIDE DEF new, Item, step
  <1>14. BfsTypes'
    BY <1>1, <1>2, <1>5, <1>6 DEF BfsTypes
  <1>15. BfsStarted'
    BY <1>7, <1>12 DEF BfsStarted
  <1>16. BfsNodes'
    <2>1. {s.node : s \in Steps'} = {s.node : s \in ToSet(Tail(work))} \cup new
      BY <1>5, <1>9
    <2>2. {s.node : s \in Steps} = {s.node : s \in ToSet(Tail(work))} \cup {n}
      BY <1>2
    <2> QED
      BY <1>1, <1>2, <2>1, <2>2 DEF BfsNodes
  <1>17. BfsNear'
    <2>1. d <= maxDepth /\ n \in Ball[d]
      BY <1>1, <1>2 DEF BfsNear
    <2>2. n \in Ball[maxDepth]
      BY <1>6, <2>1, BallSteps
    <2>3. \A t \in new : Item(t).depth <= maxDepth /\ Item(t).node \in Ball[Item(t).depth]
      BY <1>6, <1>9, <1>10, <2>1, BallSteps
    <2> QED
      BY <1>1, <1>2, <1>5, <1>7, <2>2, <2>3 DEF BfsNear
  <1>18. BfsGoesOn'
    <2> SUFFICES ASSUME NEW k \in Nat, k < maxDepth, NEW m \in visited' \cap Ball[k], NEW t \in Targets(Followed, m)
                 PROVE  t \in visited' \/ \E s \in Steps' : s.node = t /\ s.depth <= k + 1
      BY <1>7 DEF BfsGoesOn, Targets
    <2>1. CASE m \in visited
      <3>1. t \in visited \/ \E s \in Steps : s.node = t /\ s.depth <= k + 1
        BY <1>1, <2>1 DEF BfsGoesOn
      <3> QED
        BY <1>2, <1>5, <3>1
    <2>2. CASE m \notin visited
      <3>1. m = n
        BY <1>2, <2>2
      <3>2. ~(k < d)
        <4> SUFFICES ASSUME k < d PROVE FALSE
          OBVIOUS
        <4>1. \A s \in Steps : k < s.depth
          BY <1>6, <1>8
        <4>2. from \in visited
          <5>1. CASE visited = {}
            <6>1. d = 0
              BY <1>1, <5>1, AtTheStart DEF step
            <6> QED
              BY <6>1
          <5> QED
            BY <1>1, <5>1 DEF BfsStarted
        <4>3. Ball[k] \subseteq visited
          BY <1>1, <1>6, <4>1, <4>2, BfsBehind
        <4> QED
          BY <2>2, <4>3
      <3>3. d < maxDepth /\ d + 1 <= k + 1
        BY <1>6, <3>2
      <3>4. t \in visited' \/ t \in new
        BY <1>2, <1>11, <2>2, <3>1, <3>3
      <3>5. t \in new => Item(t) \in Steps' /\ Item(t).node = t /\ Item(t).depth <= k + 1
        BY <1>5, <1>9, <3>3
      <3> QED
        BY <3>4, <3>5
    <2> QED
      BY <2>1, <2>2
  <1>19. BfsTree'
    <2>1. ASSUME NEW s \in Steps' PROVE \E m \in Nodes : s.via = {<<m, s.node>>}
      <3>1. CASE s \in ToSet(Tail(work))
        <4>1. CASE visited = {}
          <5>1. Tail(work) = <<>>
            BY <1>1, <4>1, AtTheStart
          <5> QED
            BY <3>1, <5>1 DEF ToSet
        <4>2. CASE visited # {}
          BY <1>1, <1>2, <3>1, <4>2 DEF BfsTree
        <4> QED
          BY <4>1, <4>2
      <3>2. CASE s \in {Item(t) : t \in new}
        BY <1>6, <1>9, <3>2
      <3> QED
        BY <1>5, <3>1, <3>2
    <2>2. ASSUME NEW m \in Nodes
          PROVE  IF m \in visited' \ {from} THEN \E p \in Nodes : Sources(edges', m) = {p} ELSE Sources(edges', m) = {}
      <3>1. CASE n \in visited
        BY <1>1, <1>2, <3>1 DEF BfsTree
      <3>2. CASE n \notin visited /\ visited = {}
        <4>1. n = from /\ step.via = {}
          BY <1>1, <3>2, AtTheStart DEF step
        <4> QED
          BY <1>1, <1>2, <3>2, <4>1 DEF BfsTree
      <3>3. CASE n \notin visited /\ visited # {}
        <4>1. PICK p \in Nodes : step.via = {<<p, n>>}
          BY <1>1, <1>2, <3>3 DEF BfsTree
        <4>2. n # from
          BY <1>13, <3>3
        <4>3. Sources(edges, n) = {}
          BY <1>1, <1>6, <3>3 DEF BfsTree
        <4>4. Sources(edges', n) = {p}
          BY <1>2, <3>3, <4>1, <4>3 DEF Sources
        <4>5. m # n => Sources(edges', m) = Sources(edges, m)
          BY <1>2, <3>3, <4>1 DEF Sources
        <4> QED
          BY <1>1, <1>2, <4>2, <4>4, <4>5 DEF BfsTree
      <3> QED
        BY <3>1, <3>2, <3>3
    <2> QED
      BY <1>7, <2>1, <2>2 DEF BfsTree, Sources
  <1> QED
    BY <1>7, <1>8, <1>14, <1>15, <1>16, <1>17, <1>18, <1>19 DEF BfsInv, Rising, Depth, BfsStep, Pairs

\* At the end everything near enough was visited.
LEMMA BfsEnds ==
  ASSUME QueryOK, BfsInv
  PROVE  BfsExact
  <1> SUFFICES ASSUME op = "bfs", Done
               PROVE  /\ nodes \subseteq Ball[maxDepth]
                      /\ work = <<>> =>
                            /\ nodes = Ball[maxDepth]
                            /\ \A n \in nodes \ {from} : Cardinality(Sources(edges, n)) = 1
                            /\ Sources(edges, from) = {}
    BY DEF BfsExact
  <1>1. /\ BfsTypes /\ BfsStarted /\ BfsNodes /\ BfsNear /\ BfsGoesOn /\ BfsTree
    BY DEF BfsInv
  <1>2. nodes \subseteq Ball[maxDepth]
    <2>1. \A s \in Steps : s.depth \in Nat
      BY <1>1, StepsTyped
    <2>2. \A s \in Steps : s.node \in Ball[maxDepth]
      BY <1>1, <2>1, BallSteps DEF BfsNear, QueryOK
    <2> QED
      BY <1>1, <2>2 DEF BfsNodes, BfsNear
  <1>3. ASSUME work = <<>>
        PROVE  /\ nodes = Ball[maxDepth]
               /\ \A n \in nodes \ {from} : Cardinality(Sources(edges, n)) = 1
               /\ Sources(edges, from) = {}
    <2>1. Steps = {}
      BY <1>3 DEF Steps, ToSet
    <2>2. from \in visited /\ nodes = visited
      BY <1>1, <1>3, <2>1, AtTheStart DEF BfsStarted, BfsNodes
    <2>3. Ball[maxDepth] \subseteq visited
      BY <1>1, <2>1, <2>2, BfsBehind DEF QueryOK
    <2>4. \A n \in nodes \ {from} : Cardinality(Sources(edges, n)) = 1
      BY <1>1, <2>2, FS_Singleton DEF BfsTree, BfsTypes
    <2>5. Sources(edges, from) = {}
      BY <1>1 DEF BfsTree, QueryOK
    <2> QED
      BY <1>2, <2>2, <2>3, <2>4, <2>5
  <1> QED
    BY <1>2, <1>3

-----------------------------------------------------------------------------
(* The shortest path. *)

Trail == Seq(Nodes) \ {<<>>}
Length == [p \in Trail |-> Len(p)]
Trails == ToSet(work)

IsWalk(p) == Head(p) = from /\ \A i \in 1..(Len(p) - 1) : <<p[i], p[i + 1]>> \in deps

PathTypes == work \in Seq(Trail) /\ visited \subseteq Nodes

PathStarted == IF visited = {} THEN work = <<<<from>>>> ELSE from \in visited

\* Nothing is missed: to what is one step from a visited node, a path is in the queue that is not too long.
PathGoesOn == \A n \in visited : \A t \in Targets(Followed, n) :
                 t \in visited \/ \E p \in Trails : Last(p) = t /\ \A d \in Nat : n \in Ball[d] => Len(p) <= d + 2

\* The path that is returned, once there is one.
PathAnswer == \A p \in found : /\ p \in Trail /\ IsWalk(p) /\ Last(p) = to
                               /\ Len(p) > 1 => to \notin Ball[Len(p) - 2]

PathInv == op = "path" =>
              /\ PathAnswer
              /\ found = {} => /\ PathTypes /\ PathStarted
                               /\ \A p \in Trails : IsWalk(p)
                               /\ Rising(Length, work)
                               /\ PathGoesOn
                               /\ to \notin visited

LEMMA TrailsTyped ==
  ASSUME PathTypes
  PROVE  \A p \in Trails : p \in Trail /\ p \in Seq(Nodes) /\ p # <<>> /\ Len(p) \in Nat \ {0} /\ Last(p) \in Nodes
  <1>1. \A p \in Trails : p \in Trail
    BY DEF PathTypes, Trails, ToSet
  <1>2. \A p \in Trail : p \in Seq(Nodes) /\ p # <<>> /\ Len(p) \in Nat \ {0} /\ Last(p) \in Nodes
    BY DEF Trail, Last
  <1> QED
    BY <1>1, <1>2

\* A path and one step more.
LEMMA WalkGrows ==
  ASSUME NEW p \in Trail, IsWalk(p), NEW t \in Nodes, <<Last(p), t>> \in deps
  PROVE  /\ Append(p, t) \in Trail /\ IsWalk(Append(p, t))
         /\ Last(Append(p, t)) = t /\ Len(Append(p, t)) = Len(p) + 1
  <1>1. /\ p \in Seq(Nodes) /\ Len(p) \in Nat \ {0} /\ Append(p, t) \in Seq(Nodes) /\ Len(Append(p, t)) = Len(p) + 1
        /\ Last(p) = p[Len(p)] /\ Head(p) = p[1]
    BY DEF Trail, Last
  <1>2. \A i \in 1..(Len(p) + 1) : Append(p, t)[i] = IF i = Len(p) + 1 THEN t ELSE p[i]
    BY <1>1
  <1>3. Append(p, t) # <<>> /\ Head(Append(p, t)) = from /\ Last(Append(p, t)) = t
    BY <1>1, <1>2 DEF IsWalk, Last
  <1>4. ASSUME NEW i \in 1..Len(p) PROVE <<Append(p, t)[i], Append(p, t)[i + 1]>> \in deps
    <2>1. CASE i = Len(p)
      BY <1>1, <1>2, <2>1
    <2>2. CASE i # Len(p)
      <3>1. i \in 1..(Len(p) - 1) /\ Append(p, t)[i] = p[i] /\ Append(p, t)[i + 1] = p[i + 1]
        BY <1>1, <1>2, <2>2
      <3> QED
        BY <3>1 DEF IsWalk
    <2> QED
      BY <2>1, <2>2
  <1> QED
    BY <1>1, <1>3, <1>4 DEF Trail, IsWalk

LEMMA PathAtTheStart ==
  ASSUME PathStarted, visited = {}
  PROVE  work # <<>> /\ Tail(work) = <<>> /\ Head(work) = <<from>> /\ Len(Head(work)) = 1
  <1> DEFINE p == <<from>>
  <1>1. Len(p) = 1 /\ work = <<p>>
    BY DEF PathStarted
  <1> HIDE DEF p
  <1>2. work # <<>> /\ Tail(work) = <<>> /\ Head(work) = p
    BY <1>1
  <1> QED
    BY <1>1, <1>2 DEF p

LEMMA PathInit == Init => PathInv
  <1> SUFFICES ASSUME Init, op = "path" PROVE PathInv
    BY DEF PathInv
  <1> DEFINE p == <<from>>
  <1>1. work = <<p>> /\ visited = {} /\ found = {} /\ from \in Nodes
    BY DEF Init, Recursive
  <1>2. p \in Trail /\ IsWalk(p) /\ Len(p) = 1
    BY <1>1 DEF Trail, IsWalk
  <1> HIDE DEF p
  <1>3. work \in Seq(Trail) /\ Trails = {p}
    BY <1>1, <1>2, ShortSequences DEF Trails
  <1>4. PathTypes /\ \A q \in Trails : IsWalk(q)
    BY <1>1, <1>2, <1>3 DEF PathTypes
  <1>5. PathStarted
    BY <1>1 DEF PathStarted, p
  <1>6. Rising(Length, work)
    <2>1. Length[p] = 1 /\ DOMAIN work = {1} /\ work[1] = p
      BY <1>1, <1>2 DEF Length
    <2> QED
      BY <2>1 DEF Rising
  <1> QED
    BY <1>1, <1>4, <1>5, <1>6 DEF PathInv, PathGoesOn, PathAnswer

\* All that is nearer than the end of each path in the queue was visited.
LEMMA PathBehind ==
  ASSUME QueryOK, op = "path", PathTypes, PathGoesOn, from \in visited, NEW k \in Nat,
         \A p \in Trails : k + 1 < Len(p)
  PROVE  Ball[k] \subseteq visited
  <1>1. ASSUME NEW j \in Nat, j < k, NEW n \in visited \cap Ball[j], NEW t \in Targets(Followed, n)
        PROVE  t \in visited
    <2>1. t \in visited \/ \E p \in Trails : Last(p) = t /\ Len(p) <= j + 2
      BY <1>1 DEF PathGoesOn
    <2>2. \A p \in Trails : ~(Len(p) <= j + 2)
      BY <1>1, TrailsTyped
    <2> QED
      BY <2>1, <2>2
  <1> QED
    BY <1>1, AllVisited

\* What a step does to the queue if it does not return.
LEMMA PathStepping ==
  ASSUME QueryOK, op = "path", PathTypes, Path, Last(Head(work)) # to
  PROVE  LET p == Head(work)
             n == Last(p)
             new == IF n \in visited THEN {} ELSE Targets(Followed, n) \ (visited \cup {n})
         IN  /\ p \in Trail /\ n \in Nodes /\ Trails = {p} \cup ToSet(Tail(work)) /\ work # <<>>
             /\ \A t \in new : Append(p, t) \in Trail
             /\ \E a \in Seq(Trail) : work' = Tail(work) \o a /\ ToSet(a) = {Append(p, t) : t \in new}
             /\ visited' = visited \cup {n}
             /\ found' = found
  <1> DEFINE p == Head(work)
             n == Last(p)
             new == IF n \in visited THEN {} ELSE Targets(Followed, n) \ (visited \cup {n})
  <1>1. work \in Seq(Trail) /\ work # <<>>
    BY DEF PathTypes, Path
  <1>2. p \in Trail /\ Tail(work) \in Seq(Trail) /\ Trails = {p} \cup ToSet(Tail(work))
    BY <1>1, HeadAndTail DEF Trails
  <1>3. n \in Nodes /\ p \in Seq(Nodes)
    BY <1>2 DEF Trail, Last
  <1>4. Followed = deps
    BY DEF Followed
  <1>5. visited' = visited \cup {n} /\ found' = found
    BY DEF Path
  <1>6. \A t \in new : Append(p, t) \in Trail
    BY <1>3 DEF Targets, Trail
  <1>7. CASE n \in visited
    <2>1. work' = Tail(work) /\ new = {}
      BY <1>7 DEF Path
    <2>2. <<>> \in Seq(Trail) /\ Tail(work) \o <<>> = Tail(work) /\ ToSet(<<>>) = {}
      BY <1>2 DEF ToSet
    <2> QED
      BY <1>1, <1>2, <1>3, <1>5, <1>6, <2>1, <2>2
  <1>8. CASE n \notin visited
    <2>1. PICK order \in SetToSeqs(new) : work' = Tail(work) \o [i \in DOMAIN order |-> Append(p, order[i])]
      BY <1>4, <1>5, <1>8 DEF Path, Queued
    <2> DEFINE a == [i \in DOMAIN order |-> Append(p, order[i])]
    <2>2. new \in SUBSET Nodes
      BY DEF Targets
    <2>3. /\ \E k \in Nat : DOMAIN order = 1..k
          /\ \A i \in DOMAIN order : order[i] \in new
          /\ \A t \in new : \E i \in DOMAIN order : order[i] = t
      BY <2>2, Ordered
    <2> HIDE DEF new, p
    <2>4. a \in Seq(Trail)
      BY <1>6, <2>3
    <2>5. ToSet(a) = {Append(p, t) : t \in new}
      BY <2>3 DEF ToSet
    <2> QED
      BY <1>1, <1>2, <1>3, <1>5, <1>6, <2>1, <2>4, <2>5 DEF new, p
  <1> QED
    BY <1>7, <1>8

\* Where the head of the queue ends is not nearer than it says.
LEMMA PathHead ==
  ASSUME QueryOK, op = "path", PathTypes, PathStarted, PathGoesOn, work # <<>>, Rising(Length, work),
         NEW t, t \notin visited, NEW k \in Nat, k + 1 < Len(Head(work))
  PROVE  t \notin Ball[k]
  <1>1. work \in Seq(Trail) /\ Head(work) \in Trail /\ Head(work) \in Trails
    BY HeadAndTail DEF PathTypes, Trails
  <1>2. Length \in [Trail -> Nat] /\ \A p \in Trail : Length[p] = Len(p) /\ Len(p) \in Nat
    BY DEF Length, Trail
  <1>3. <<>> \in Seq(Trail) /\ DOMAIN <<>> = {}
    OBVIOUS
  <1>4. \A p \in ToSet(work) : Length[Head(work)] <= Length[p]
    BY <1>1, <1>2, <1>3, StillRising
  <1>5. \A p \in Trails : p \in Trail
    BY TrailsTyped
  <1>6. \A p \in Trails : k + 1 < Len(p)
    BY <1>1, <1>2, <1>4, <1>5 DEF Trails
  <1>7. from \in visited
    <2>1. visited = {} => Len(Head(work)) = 1
      BY PathAtTheStart
    <2> DEFINE l == Len(Head(work))
    <2>2. l \in Nat /\ k + 1 < l
      BY <1>1, <1>2
    <2> HIDE DEF l
    <2>3. l # 1
      BY <2>2
    <2> QED
      BY <2>1, <2>3 DEF PathStarted, l
  <1> QED
    BY <1>6, <1>7, PathBehind

LEMMA PathKept ==
  ASSUME QueryOK, PathInv, op = "path", Path
  PROVE  PathInv'
  <1> DEFINE p == Head(work)
             n == Last(p)
             new == IF n \in visited THEN {} ELSE Targets(Followed, n) \ (visited \cup {n})
  <1>1. /\ op' = op /\ deps' = deps /\ from' = from /\ to' = to /\ Followed' = Followed /\ Ball' = Ball
    BY QueryStays DEF Path, query
  <1>2. /\ found = {} /\ PathTypes /\ PathStarted /\ Rising(Length, work) /\ PathGoesOn /\ to \notin visited
        /\ \A q \in Trails : IsWalk(q)
    BY DEF PathInv, Path
  <1>3. work \in Seq(Trail) /\ work # <<>> /\ p \in Trail /\ Tail(work) \in Seq(Trail)
    BY <1>2, HeadAndTail DEF PathTypes, Path
  <1>4. p \in Trails
    BY <1>3, HeadAndTail DEF Trails
  <1>5. CASE n = to
    <2>1. found' = {p}
      BY <1>5 DEF Path
    <2>2. IsWalk(p) /\ Last(p) = to
      BY <1>2, <1>4, <1>5
    <2>3. Len(p) > 1 => to \notin Ball[Len(p) - 2]
      <3> SUFFICES ASSUME Len(p) > 1 PROVE to \notin Ball[Len(p) - 2]
        OBVIOUS
      <3>1. Len(p) \in Nat
        BY <1>3 DEF Trail
      <3>2. Len(p) - 2 \in Nat /\ (Len(p) - 2) + 1 < Len(p)
        BY <3>1
      <3> QED
        BY <1>2, <1>3, <3>2, PathHead
    <2>4. PathAnswer'
      BY <1>1, <1>3, <2>1, <2>2, <2>3 DEF PathAnswer, IsWalk, Trail
    <2> QED
      BY <2>1, <2>4 DEF PathInv
  <1>6. CASE n # to
    <2>1. /\ n \in Nodes /\ Trails = {p} \cup ToSet(Tail(work))
          /\ \A t \in new : Append(p, t) \in Trail
          /\ \E a \in Seq(Trail) : work' = Tail(work) \o a /\ ToSet(a) = {Append(p, t) : t \in new}
          /\ visited' = visited \cup {n} /\ found' = found
      BY <1>2, <1>6, PathStepping
    <2>2. PICK a \in Seq(Trail) : work' = Tail(work) \o a /\ ToSet(a) = {Append(p, t) : t \in new}
      BY <2>1
    <2>3. work' \in Seq(Trail) /\ Trails' = ToSet(Tail(work)) \cup {Append(p, t) : t \in new}
      <3>1. Trails' = ToSet(work')
        BY DEF Trails, ToSet
      <3>2. Tail(work) \o a \in Seq(Trail) /\ ToSet(Tail(work) \o a) = ToSet(Tail(work)) \cup ToSet(a)
        BY <1>3, Concatenated
      <3> HIDE DEF new, p
      <3> QED
        BY <2>2, <3>1, <3>2
    <2>4. \A t \in new : t \in Nodes /\ t \in Targets(Followed, n) /\ <<n, t>> \in deps /\ n \notin visited
      BY DEF Targets, Followed
    <2>5. \A t \in new : /\ IsWalk(Append(p, t)) /\ Last(Append(p, t)) = t
                         /\ Len(Append(p, t)) = Len(p) + 1
      BY <1>2, <1>3, <1>4, <2>4, WalkGrows
    <2>6. n \notin visited => Targets(Followed, n) \subseteq visited \cup {n} \cup new
      OBVIOUS
    <2>7. Len(p) \in Nat
      BY <1>3 DEF Trail
    <2>8. Rising(Length, work')
      <3>1. Length \in [Trail -> Nat] /\ \A q \in Trail : Length[q] = Len(q)
        BY DEF Length, Trail
      <3>2. \A i \in DOMAIN a : Length[a[i]] = Length[Head(work)] + 1
        <4> SUFFICES ASSUME NEW i \in DOMAIN a PROVE Length[a[i]] = Length[Head(work)] + 1
          OBVIOUS
        <4>1. a[i] \in ToSet(a) /\ a[i] \in Trail
          BY DEF ToSet
        <4> HIDE DEF new, p
        <4>2. PICK t \in new : a[i] = Append(p, t)
          BY <2>2, <4>1
        <4>3. Length[a[i]] = Len(p) + 1 /\ Length[p] = Len(p)
          BY <1>3, <2>5, <3>1, <4>1, <4>2
        <4> QED
          BY <4>3 DEF p
      <3> HIDE DEF new
      <3>3. Rising(Length, Tail(work) \o a)
        BY <1>2, <1>3, <3>1, <3>2, StillRising
      <3> QED
        BY <2>2, <3>3
    <2> HIDE DEF new, p
    <2>9. PathTypes'
      BY <1>2, <2>1, <2>3 DEF PathTypes
    <2>10. PathStarted'
      <3>1. visited = {} => n = from
        <4> SUFFICES ASSUME visited = {} PROVE n = from
          OBVIOUS
        <4>1. p = <<from>>
          BY <1>2, PathAtTheStart DEF p
        <4> QED
          BY <4>1 DEF Last
      <3> QED
        BY <1>1, <1>2, <2>1, <3>1 DEF PathStarted
    <2>11. \A q \in Trails' : IsWalk(q)'
      <3>1. \A q \in Trails' : IsWalk(q)
        BY <1>2, <2>1, <2>3, <2>5
      <3> QED
        BY <1>1, <3>1 DEF IsWalk
    <2>12. PathGoesOn'
      <3> SUFFICES ASSUME NEW m \in visited', NEW t \in Targets(Followed, m), t \notin visited'
                   PROVE  \E q \in Trails' : Last(q) = t /\ \A d \in Nat : m \in Ball[d] => Len(q) <= d + 2
        BY <1>1 DEF PathGoesOn, Targets
      <3>1. CASE m \in visited
        <4>1. PICK q \in Trails : Last(q) = t /\ \A d \in Nat : m \in Ball[d] => Len(q) <= d + 2
          BY <1>2, <2>1, <3>1 DEF PathGoesOn
        <4>2. q # p
          BY <2>1, <4>1
        <4>3. q \in Trails'
          BY <2>1, <2>3, <4>1, <4>2
        <4> QED
          BY <4>1, <4>3
      <3>2. CASE m \notin visited
        <4>1. m = n /\ t \in new
          BY <2>1, <2>6, <3>2
        <4>2. Append(p, t) \in Trails' /\ Last(Append(p, t)) = t /\ Len(Append(p, t)) = Len(p) + 1
          BY <2>3, <2>5, <4>1
        <4>3. ASSUME NEW d \in Nat, n \in Ball[d] PROVE Len(p) + 1 <= d + 2
          <5>1. ~(d + 1 < Len(p))
            BY <1>2, <1>3, <3>2, <4>1, <4>3, PathHead DEF p
          <5> QED
            BY <2>7, <5>1
        <4> QED
          BY <4>1, <4>2, <4>3
      <3> QED
        BY <3>1, <3>2
    <2>13. to' \notin visited'
      BY <1>1, <1>2, <1>6, <2>1
    <2>14. PathAnswer'
      BY <1>2, <2>1 DEF PathAnswer
    <2> QED
      BY <2>8, <2>9, <2>10, <2>11, <2>12, <2>13, <2>14 DEF PathInv, Rising, Length, Trail, Trails, IsWalk, ToSet
  <1> QED
    BY <1>5, <1>6

\* If the queue is empty, all that can be reached was visited, and to is not there.
LEMMA PathEnds ==
  ASSUME QueryOK, PathInv
  PROVE  PathShortest
  <1> SUFFICES ASSUME op = "path", Done PROVE PathShortest
    BY DEF PathShortest
  <1>1. CASE found # {}
    <2>1. ASSUME NEW p \in found
          PROVE  /\ Head(p) = from /\ Last(p) = to
                 /\ \A i \in 1..(Len(p) - 1) : <<p[i], p[i + 1]>> \in deps
                 /\ Len(p) > 1 => to \notin Ball[Len(p) - 2]
      BY <2>1 DEF PathInv, PathAnswer, IsWalk
    <2> QED
      BY <1>1, <2>1 DEF PathShortest
  <1>2. CASE found = {}
    <2>1. work = <<>> /\ Trails = {}
      BY <1>2 DEF Done, Trails, ToSet
    <2>2. PathTypes /\ PathStarted /\ PathGoesOn /\ to \notin visited
      BY <1>2 DEF PathInv
    <2>3. from \in visited
      BY <2>1, <2>2, PathAtTheStart DEF PathStarted
    <2>4. \A n \in visited : Targets(Followed, n) \subseteq visited /\ Kids(n) \subseteq visited
      BY <2>1, <2>2, Edges DEF PathGoesOn, Kids, Targets
    <2>5. Closure \subseteq visited
      BY <2>2, <2>3, <2>4, ClosureIsLeast DEF PathTypes
    <2> QED
      BY <1>2, <2>2, <2>5 DEF PathShortest
  <1> QED
    BY <1>1, <1>2

-----------------------------------------------------------------------------
(* Stacks. *)

\* The stack without its top, with another top, and with one more on it.
LEMMA Stacks ==
  ASSUME NEW T, NEW s \in Seq(T), s # <<>>, NEW e \in T
  PROVE  /\ Len(s) \in Nat \ {0} /\ Last(s) \in T /\ Last(s) = s[Len(s)]
         /\ Front(s) \in Seq(T) /\ Len(Front(s)) = Len(s) - 1
         /\ \A i \in 1..(Len(s) - 1) : Front(s)[i] = s[i]
         /\ Append(Front(s), e) \in Seq(T) /\ Len(Append(Front(s), e)) = Len(s)
         /\ Append(Front(s), e)[Len(s)] = e
         /\ \A i \in 1..(Len(s) - 1) : Append(Front(s), e)[i] = s[i]
  <1>1. Len(s) \in Nat \ {0} /\ Last(s) \in T /\ Last(s) = s[Len(s)]
    BY DEF Last
  <1>2. /\ Front(s) \in Seq(T) /\ Len(Front(s)) = Len(s) - 1
        /\ \A i \in 1..(Len(s) - 1) : Front(s)[i] = s[i]
    BY <1>1 DEF Front
  <1>3. Append(Front(s), e) \in Seq(T) /\ Len(Append(Front(s), e)) = (Len(s) - 1) + 1
    BY <1>2
  <1>4. \A i \in 1..Len(s) : Append(Front(s), e)[i] = IF i = Len(s) THEN e ELSE Front(s)[i]
    BY <1>1, <1>2
  <1> QED
    BY <1>1, <1>2, <1>3, <1>4

LEMMA StackGrows ==
  ASSUME NEW T, NEW s \in Seq(T), NEW e \in T
  PROVE  /\ Append(s, e) \in Seq(T) /\ Len(s) \in Nat /\ Len(Append(s, e)) = Len(s) + 1
         /\ Append(s, e)[Len(s) + 1] = e
         /\ \A i \in 1..Len(s) : Append(s, e)[i] = s[i]
  OBVIOUS

-----------------------------------------------------------------------------
(* Depth first. *)

Frames == [node: Nodes, depth: Nat, kids: SUBSET Nodes, rest: SUBSET Nodes]
Height == 1..Len(work)

\* The nodes that were found, whether the answer has the start or not.
Found == nodes \cup {from}

WalkTypes == /\ work \in Seq(Frames) /\ nodes \subseteq Nodes /\ edges \subseteq Pairs /\ frontier \subseteq Nodes
             /\ from \in visited /\ visited \subseteq Found
             /\ op # "callers" => from \in nodes
             /\ half \in {"up", "down"} /\ (half = "down" => op = "types" /\ work = <<>>)

\* No call is for a node that another one is for, and none is too deep.
WalkStack == \A i \in Height : /\ work[i].node \in visited
                               /\ \A j \in Height : work[i].node = work[j].node => i = j
                               /\ work[i].kids \subseteq Kids(work[i].node)
                               /\ work[i].rest \subseteq Targets(Followed, work[i].node)
                               /\ work[i].depth < i
                               /\ op # "impact" => work[i].depth = i - 1
                               /\ op # "types" => work[i].depth < maxDepth

\* Nothing is too far.
WalkNear == op # "types" => /\ \A i \in Height : work[i].node \in Ball[work[i].depth]
                            /\ nodes \subseteq Ball[maxDepth]

\* What is one step from a node that was entered has been found, unless the call for the node is still to go there.
WalkGoesOn == \A n \in visited : \A t \in Kids(n) \cup Targets(Followed, n) :
                 \/ t \in Found
                 \/ \E i \in Height : work[i].node = n /\ t \in work[i].kids \cup work[i].rest

\* Why a node was found but not entered.
Excused(m) == \/ op \in {"callers", "dfs"} /\ maxDepth < Cardinality(Nodes)
              \/ op = "dfs" /\ Cardinality(nodes) >= limit
              \/ op = "impact" /\ Sources(deps, m) \subseteq nodes \cup frontier

WalkEntered == \A m \in nodes : m \in visited \/ Excused(m)

\* Each ancestor has one edge.
WalkEdges == op = "types" => /\ Cardinality(edges) + 1 = Cardinality(nodes)
                             /\ \A e \in edges : e[2] \in nodes

WalkInv == op \in Recursive =>
              WalkTypes /\ WalkStack /\ WalkNear /\ WalkGoesOn /\ WalkEntered /\ WalkEdges

\* The neighbours a call goes through are those of the edges that the query follows.
LEMMA AdjacentFollows ==
  ASSUME QueryOK, op \in Recursive, half = "up", NEW n \in Nodes, NEW d \in Nat
  PROVE  /\ Adjacent(n) = Targets(Followed, n)
         /\ Frame(n, d) \in Frames
         /\ Frame(n, d).node = n /\ Frame(n, d).depth = d
         /\ Frame(n, d).kids = Kids(n) /\ Frame(n, d).rest = Targets(Followed, n)
  <1>1. Adjacent(n) = Targets(Followed, n)
    <2>1. CASE op \in {"callers", "impact"}
      BY <2>1 DEF Adjacent, Followed, Targets, Sources, QueryOK, Pairs
    <2>2. CASE op = "dfs"
      BY <2>2 DEF Adjacent, Followed, Targets, QueryOK, Pairs
    <2>3. CASE op = "types"
      BY <2>3 DEF Adjacent, Followed
    <2> QED
      BY <2>1, <2>2, <2>3 DEF Recursive
  <1>2. Kids(n) \subseteq Nodes /\ Targets(Followed, n) \subseteq Nodes
    BY DEF Kids, Targets
  <1> QED
    BY <1>1, <1>2 DEF Frame, Frames

LEMMA WalkInit == Init => WalkInv
  <1> SUFFICES ASSUME Init, op \in Recursive PROVE WalkInv
    BY DEF WalkInv
  <1> DEFINE f == Frame(from, 0)
  <1>1. QueryOK
    BY QueryInit
  <1>2. /\ work = <<f>> /\ visited = {from} /\ edges = {} /\ frontier = {} /\ half = "up" /\ from \in Nodes
        /\ nodes = IF op = "callers" THEN {} ELSE {from}
    BY DEF Init, Recursive
  <1>3. f \in Frames /\ f.node = from /\ f.depth = 0 /\ f.kids = Kids(from) /\ f.rest = Targets(Followed, from)
    BY <1>1, <1>2, AdjacentFollows
  <1> HIDE DEF f
  <1>4. work \in Seq(Frames) /\ Height = {1} /\ work[1] = f
    BY <1>2, <1>3 DEF Height
  <1>5. WalkTypes
    BY <1>2, <1>4 DEF WalkTypes, Found
  <1>6. WalkStack
    BY <1>1, <1>2, <1>3, <1>4 DEF WalkStack, QueryOK, Recursive
  <1>7. WalkNear
    <2>1. from \in Ball[0] /\ from \in Ball[maxDepth]
      BY <1>1, BallSteps DEF QueryOK
    <2> QED
      BY <1>2, <1>3, <1>4, <2>1 DEF WalkNear
  <1>8. WalkGoesOn
    BY <1>2, <1>3, <1>4 DEF WalkGoesOn
  <1>9. WalkEntered
    BY <1>2 DEF WalkEntered
  <1>10. WalkEdges
    BY <1>2, FS_EmptySet, FS_Singleton DEF WalkEdges
  <1> QED
    BY <1>5, <1>6, <1>7, <1>8, <1>9, <1>10 DEF WalkInv

\* A call returns when it has been everywhere.
LEMMA WalkReturn ==
  ASSUME QueryOK, WalkInv, op \in Recursive, Return
  PROVE  WalkInv'
  <1>1. /\ op' = op /\ deps' = deps /\ from' = from /\ maxDepth' = maxDepth /\ limit' = limit
        /\ Followed' = Followed /\ Contained' = Contained /\ Ball' = Ball
        /\ visited' = visited /\ nodes' = nodes /\ edges' = edges /\ half' = half /\ frontier' = frontier
    BY QueryStays DEF Return, query
  <1>2. WalkTypes /\ WalkStack /\ WalkNear /\ WalkGoesOn /\ WalkEntered /\ WalkEdges
    BY DEF WalkInv
  <1>3. work # <<>> /\ work \in Seq(Frames) /\ Top.kids = {} /\ Top.rest = {} /\ work' = Front(work)
    BY <1>2 DEF Return, WalkTypes, Popped
  <1>4. /\ Len(work) \in Nat \ {0} /\ Top = work[Len(work)] /\ Top \in Frames
        /\ work' \in Seq(Frames) /\ Len(work') = Len(work) - 1
        /\ \A i \in 1..(Len(work) - 1) : work'[i] = work[i]
    BY <1>3, Stacks DEF Top
  <1>5. Height' \subseteq Height /\ Height = Height' \cup {Len(work)} /\ \A i \in Height' : work'[i] = work[i]
    BY <1>4 DEF Height
  <1>6. \A n : Kids(n)' = Kids(n)
    BY <1>1 DEF Kids, Targets
  <1>7. WalkTypes'
    BY <1>1, <1>2, <1>3, <1>4 DEF WalkTypes, Found
  <1>8. WalkStack'
    BY <1>1, <1>2, <1>5, <1>6 DEF WalkStack, Targets
  <1>9. WalkNear'
    BY <1>1, <1>2, <1>5 DEF WalkNear
  <1>10. WalkGoesOn'
    <2> SUFFICES ASSUME NEW n \in visited, NEW t \in Kids(n) \cup Targets(Followed, n)
                 PROVE  t \in Found \/ \E i \in Height' : work'[i].node = n /\ t \in work'[i].kids \cup work'[i].rest
      BY <1>1, <1>6 DEF WalkGoesOn, Found, Targets
    <2>1. CASE t \in Found
      BY <2>1
    <2>2. CASE t \notin Found
      <3>1. PICK i \in Height : work[i].node = n /\ t \in work[i].kids \cup work[i].rest
        BY <1>2, <2>2 DEF WalkGoesOn
      <3>2. i # Len(work)
        BY <1>3, <1>4, <3>1
      <3> QED
        BY <1>5, <3>1, <3>2
    <2> QED
      BY <2>1, <2>2
  <1>11. WalkEntered' /\ WalkEdges'
    BY <1>1, <1>2 DEF WalkEntered, WalkEdges, Excused, Sources
  <1> QED
    BY <1>1, <1>7, <1>8, <1>9, <1>10, <1>11 DEF WalkInv

\* The descendants are never looked for: from was visited.
LEMMA WalkDescend ==
  ASSUME QueryOK, WalkInv, op \in Recursive, Descend
  PROVE  WalkInv'
  <1>1. /\ op' = op /\ deps' = deps /\ from' = from /\ maxDepth' = maxDepth /\ limit' = limit
        /\ Followed' = Followed /\ Contained' = Contained /\ Ball' = Ball
        /\ visited' = visited /\ nodes' = nodes /\ edges' = edges /\ frontier' = frontier
    BY QueryStays DEF Descend, query
  <1>2. WalkTypes /\ WalkStack /\ WalkNear /\ WalkGoesOn /\ WalkEntered /\ WalkEdges
    BY DEF WalkInv
  <1>3. op = "types" /\ work = <<>> /\ half' = "down" /\ work' = <<>>
    BY <1>2 DEF Descend, WalkTypes
  <1>4. Height' = {} /\ Height = {} /\ <<>> \in Seq(Frames)
    BY <1>3 DEF Height
  <1>5. \A n : Kids(n)' = Kids(n)
    BY <1>1 DEF Kids, Targets
  <1>6. WalkTypes' /\ WalkStack' /\ WalkNear'
    BY <1>1, <1>2, <1>3, <1>4 DEF WalkTypes, WalkStack, WalkNear, Found
  <1>7. WalkGoesOn'
    BY <1>1, <1>2, <1>4, <1>5 DEF WalkGoesOn, Found, Targets
  <1>8. WalkEntered' /\ WalkEdges'
    BY <1>1, <1>2 DEF WalkEntered, WalkEdges, Excused, Sources
  <1> QED
    BY <1>1, <1>6, <1>7, <1>8 DEF WalkInv

\* Calls for different nodes are not more than there are nodes.
LEMMA Apart ==
  ASSUME work \in Seq(Frames), NEW S \in SUBSET Nodes, \A i \in Height : work[i].node \in S,
         \A i, j \in Height : work[i].node = work[j].node => i = j
  PROVE  Len(work) <= Cardinality(S)
  <1> DEFINE g == [i \in Height |-> work[i].node]
  <1>1. Len(work) \in Nat
    OBVIOUS
  <1>2. g \in [1..Len(work) -> S] /\ \A i, j \in 1..Len(work) : g[i] = g[j] => i = j
    BY <1>1 DEF Height
  <1> HIDE DEF g
  <1>3. g \in Injection(1..Len(work), S)
    BY <1>2 DEF Injection, IsInjective
  <1>4. IsFiniteSet(S)
    BY TraversalAssumption, FS_Subset
  <1>5. Cardinality(1..Len(work)) <= Cardinality(S)
    BY <1>3, <1>4, FS_Injection
  <1>6. Cardinality(1..Len(work)) = Len(work)
    <2>1. ASSUME NEW l \in Nat PROVE Cardinality(1..l) = l
      <3>1. 1 \in Int /\ l \in Int
        OBVIOUS
      <3>2. Cardinality(1..l) = IF 1 > l THEN 0 ELSE l - 1 + 1
        BY <3>1, FS_Interval
      <3> QED
        BY <3>2
    <2> QED
      BY <1>1, <2>1
  <1> QED
    BY <1>5, <1>6

\* There is room for one more call, for a node that was not entered.
LEMMA Room ==
  ASSUME WalkTypes, WalkStack, NEW m \in Nodes, m \notin visited, visited \subseteq Nodes
  PROVE  Len(work) < Cardinality(Nodes)
  <1>1. work \in Seq(Frames) /\ Len(work) \in Nat
    BY DEF WalkTypes
  <1>2. Nodes \ {m} \in SUBSET Nodes
    OBVIOUS
  <1>3. /\ \A i \in Height : work[i].node \in Nodes \ {m}
        /\ \A i, j \in Height : work[i].node = work[j].node => i = j
    BY DEF WalkStack
  <1>4. Len(work) <= Cardinality(Nodes \ {m})
    BY <1>1, <1>2, <1>3, Apart
  <1>5. Cardinality(Nodes) \in Nat /\ Cardinality(Nodes \ {m}) = Cardinality(Nodes) - 1
    BY TraversalAssumption, FS_RemoveElement, FS_CardinalityType
  <1> QED
    BY <1>1, <1>4, <1>5

\* What one turn of the loop does: the frame is rid of m; if m is recorded it is in the answer, and if the call for it
\* goes on there is a frame for it.
LEMMA Visiting ==
  ASSUME QueryOK, op \in Recursive, WalkTypes, WalkStack, Visit
  PROVE  \E m \in Nodes, d \in Nat, left \in Seq(Frames) :
            /\ half = "up"
            /\ m \in Top.kids \cup Top.rest
            /\ \/ m \in Kids(Top.node) /\ d = Top.depth
               \/ m \in Targets(Followed, Top.node) /\ d = Top.depth + 1
            /\ Len(left) = Len(work)
            /\ \A i \in 1..(Len(work) - 1) : left[i] = work[i]
            /\ left[Len(work)].node = Top.node /\ left[Len(work)].depth = Top.depth
            /\ left[Len(work)].kids \subseteq Top.kids /\ left[Len(work)].rest \subseteq Top.rest
            /\ Top.kids \cup Top.rest \subseteq left[Len(work)].kids \cup left[Len(work)].rest \cup {m}
            /\ \/ /\ m \in Found
                  /\ work' = left
                  /\ UNCHANGED <<nodes, edges, visited, frontier>>
               \/ /\ op = "types" => m \notin nodes
                  /\ op \in {"callers", "dfs"} => m \notin visited
                  /\ nodes' = nodes \cup {m}
                  /\ edges' = edges \cup {<<Top.node, m>>}
                  /\ visited' = IF Enters(m, d) THEN visited \cup {m} ELSE visited
                  /\ work' = IF Enters(m, d) THEN Append(left, Frame(m, d)) ELSE left
                  /\ frontier' = IF Enters(m, d) THEN frontier ELSE frontier \cup Beyond(m, nodes')
  <1>1. work \in Seq(Frames) /\ work # <<>>
    BY DEF Visit, WalkTypes
  <1>2. half = "up"
    BY <1>1 DEF WalkTypes
  <1>3. Len(work) \in Nat \ {0} /\ Top \in Frames /\ Top = work[Len(work)]
    BY <1>1, Stacks DEF Top
  <1>4. Top.kids \subseteq Kids(Top.node) /\ Top.rest \subseteq Targets(Followed, Top.node)
    BY <1>3 DEF WalkStack, Height
  <1>5. /\ Top.node \in Nodes /\ Top.depth \in Nat /\ Top.kids \in SUBSET Nodes /\ Top.rest \in SUBSET Nodes
    BY <1>3 DEF Frames
  <1>6. PICK m \in (IF Top.kids # {} THEN Top.kids ELSE Top.rest) :
           LET kid == Top.kids # {}
               d == IF kid THEN Top.depth ELSE Top.depth + 1
               left == Append(Popped, [Top EXCEPT !.kids = @ \ {m}, !.rest = IF kid THEN @ ELSE @ \ {m}])
           IN  IF Records(m)
               THEN /\ nodes' = nodes \cup {m}
                    /\ edges' = edges \cup {<<Top.node, m>>}
                    /\ visited' = IF Enters(m, d) THEN visited \cup {m} ELSE visited
                    /\ work' = IF Enters(m, d) THEN Append(left, Frame(m, d)) ELSE left
                    /\ frontier' = IF Enters(m, d) THEN frontier ELSE frontier \cup Beyond(m, nodes')
               ELSE work' = left /\ UNCHANGED <<nodes, edges, visited, frontier>>
    BY DEF Visit
  <1> DEFINE kid == Top.kids # {}
             d == IF kid THEN Top.depth ELSE Top.depth + 1
             top == [Top EXCEPT !.kids = @ \ {m}, !.rest = IF kid THEN @ ELSE @ \ {m}]
             left == Append(Popped, top)
  <1>7. m \in (IF kid THEN Top.kids ELSE Top.rest)
    OBVIOUS
  <1>16. m \in Nodes /\ d \in Nat /\ m \in Top.kids \cup Top.rest
    BY <1>5, <1>7
  <1>8. \/ m \in Kids(Top.node) /\ d = Top.depth
        \/ m \in Targets(Followed, Top.node) /\ d = Top.depth + 1
    BY <1>4, <1>7
  <1>9. /\ top \in Frames /\ top.node = Top.node /\ top.depth = Top.depth
        /\ top.kids = Top.kids \ {m} /\ top.rest = (IF kid THEN Top.rest ELSE Top.rest \ {m})
    BY <1>3, <1>5 DEF Frames
  <1> HIDE DEF top
  <1>10. /\ left \in Seq(Frames) /\ Len(left) = Len(work) /\ left[Len(work)] = top
         /\ \A i \in 1..(Len(work) - 1) : left[i] = work[i]
    BY <1>1, <1>9, Stacks DEF Popped
  <1>11. /\ top.kids \subseteq Top.kids /\ top.rest \subseteq Top.rest
         /\ Top.kids \cup Top.rest \subseteq top.kids \cup top.rest \cup {m}
    BY <1>9
  <1>12. ASSUME ~Records(m) PROVE m \in Found
    BY <1>12 DEF Records, WalkTypes, Found
  <1>13. ASSUME Records(m) PROVE (op = "types" => m \notin nodes) /\ (op \in {"callers", "dfs"} => m \notin visited)
    BY <1>13 DEF Records
  <1>14. CASE Records(m)
    <2>1. /\ nodes' = nodes \cup {m}
          /\ edges' = edges \cup {<<Top.node, m>>}
          /\ visited' = IF Enters(m, d) THEN visited \cup {m} ELSE visited
          /\ work' = IF Enters(m, d) THEN Append(left, Frame(m, d)) ELSE left
          /\ frontier' = IF Enters(m, d) THEN frontier ELSE frontier \cup Beyond(m, nodes')
      BY <1>6, <1>14 DEF top
    <2> HIDE DEF d, left
    <2> QED
      BY <1>2, <1>16, <1>8, <1>9, <1>10, <1>11, <1>13, <1>14, <2>1
  <1>15. CASE ~Records(m)
    <2>1. work' = left /\ UNCHANGED <<nodes, edges, visited, frontier>>
      BY <1>6, <1>15 DEF top
    <2> HIDE DEF d, left
    <2> QED
      BY <1>2, <1>16, <1>8, <1>9, <1>10, <1>11, <1>12, <1>15, <2>1
  <1> QED
    BY <1>14, <1>15

\* The parts of the invariant that are about the stack, when the call on top has m behind it, and perhaps one for m is
\* on top of it.
LEMMA StackKept ==
  ASSUME QueryOK, op \in Recursive, WalkTypes, WalkStack, WalkNear, WalkGoesOn, work # <<>>, half = "up",
         UNCHANGED query, half' = half,
         NEW m \in Nodes, NEW d \in Nat, NEW left \in Seq(Frames),
         \/ m \in Kids(Top.node) /\ d = Top.depth
         \/ m \in Targets(Followed, Top.node) /\ d = Top.depth + 1,
         Len(left) = Len(work), \A i \in 1..(Len(work) - 1) : left[i] = work[i],
         left[Len(work)].node = Top.node, left[Len(work)].depth = Top.depth,
         left[Len(work)].kids \subseteq Top.kids, left[Len(work)].rest \subseteq Top.rest,
         Top.kids \cup Top.rest \subseteq left[Len(work)].kids \cup left[Len(work)].rest \cup {m},
         nodes' \in {nodes, nodes \cup {m}}, m \in Found',
         \/ work' = left /\ visited' = visited
         \/ /\ work' = Append(left, Frame(m, d)) /\ visited' = visited \cup {m}
            /\ m \notin visited /\ (op # "types" => d < maxDepth)
  PROVE  WalkStack' /\ WalkNear' /\ WalkGoesOn' /\ work' \in Seq(Frames)
  <1>1. /\ op' = op /\ deps' = deps /\ from' = from /\ maxDepth' = maxDepth
        /\ Followed' = Followed /\ Contained' = Contained /\ Ball' = Ball /\ \A n : Kids(n)' = Kids(n)
    BY QueryStays DEF query, Kids, Targets
  <1>2. work \in Seq(Frames) /\ Len(work) \in Nat \ {0} /\ Top = work[Len(work)] /\ Top \in Frames
    BY Stacks DEF Top, WalkTypes
  <1>3. /\ Len(work) \in Height /\ Height = 1..Len(work)
        /\ Top.node \in visited /\ Top.depth < Len(work) /\ Top.depth \in Nat
        /\ op # "impact" => Top.depth = Len(work) - 1
        /\ op # "types" => Top.depth < maxDepth
        /\ Top.kids \subseteq Kids(Top.node) /\ Top.rest \subseteq Targets(Followed, Top.node)
    BY <1>2 DEF WalkStack, Height, Frames
  <1>4. \A i \in Height : /\ left[i].node = work[i].node /\ left[i].depth = work[i].depth
                          /\ left[i].kids \subseteq work[i].kids /\ left[i].rest \subseteq work[i].rest
                          /\ work[i].kids \cup work[i].rest \subseteq left[i].kids \cup left[i].rest \cup {m}
    <2> SUFFICES ASSUME NEW i \in Height
                 PROVE  /\ left[i].node = work[i].node /\ left[i].depth = work[i].depth
                        /\ left[i].kids \subseteq work[i].kids /\ left[i].rest \subseteq work[i].rest
                        /\ work[i].kids \cup work[i].rest \subseteq left[i].kids \cup left[i].rest \cup {m}
      OBVIOUS
    <2>1. CASE i = Len(work)
      BY <1>2, <2>1
    <2>2. CASE i # Len(work)
      <3>1. left[i] = work[i]
        BY <1>2, <1>3, <2>2
      <3> QED
        BY <3>1
    <2> QED
      BY <2>1, <2>2
  <1>5. maxDepth \in Nat
    BY DEF QueryOK
  <1>6. op # "types" => m \in Ball[d] /\ d <= maxDepth /\ m \in Ball[maxDepth]
    <2> SUFFICES ASSUME op # "types" PROVE m \in Ball[d] /\ d <= maxDepth /\ m \in Ball[maxDepth]
      OBVIOUS
    <2>1. Top.node \in Ball[Top.depth]
      BY <1>2, <1>3 DEF WalkNear
    <2>2. m \in Ball[d]
      BY <1>3, <2>1, BallSteps
    <2>3. d <= maxDepth
      BY <1>3, <1>5
    <2> QED
      BY <1>5, <2>2, <2>3, BallSteps
  <1>7. d < Len(work) + 1 /\ (op # "impact" => d = Len(work))
    <2>1. op # "impact" => Kids(Top.node) = {}
      BY Edges DEF Kids, Targets
    <2> QED
      BY <1>2, <1>3, <2>1
  <1>8. Found \subseteq Found'
    BY <1>1 DEF Found
  <1>9. CASE work' = left /\ visited' = visited
    <2>1. Height' = Height /\ work' = left
      BY <1>9 DEF Height
    <2>2. WalkStack'
      BY <1>1, <1>4, <1>9, <2>1 DEF WalkStack, Targets
    <2>3. WalkNear'
      BY <1>1, <1>4, <1>6, <2>1 DEF WalkNear
    <2>4. WalkGoesOn'
      <3> SUFFICES ASSUME NEW n \in visited, NEW t \in Kids(n) \cup Targets(Followed, n), t \notin Found'
                   PROVE  \E i \in Height : left[i].node = n /\ t \in left[i].kids \cup left[i].rest
        BY <1>1, <1>9, <2>1 DEF WalkGoesOn, Targets
      <3>1. PICK i \in Height : work[i].node = n /\ t \in work[i].kids \cup work[i].rest
        BY <1>8 DEF WalkGoesOn
      <3>2. t # m
        OBVIOUS
      <3> QED
        BY <1>4, <3>1, <3>2
    <2> QED
      BY <1>9, <2>2, <2>3, <2>4
  <1>10. CASE /\ work' = Append(left, Frame(m, d)) /\ visited' = visited \cup {m}
              /\ m \notin visited /\ (op # "types" => d < maxDepth)
    <2> DEFINE f == Frame(m, d)
               l == Len(work) + 1
    <2>1. f \in Frames /\ f.node = m /\ f.depth = d /\ f.kids = Kids(m) /\ f.rest = Targets(Followed, m)
      BY AdjacentFollows
    <2>2. /\ work' \in Seq(Frames) /\ Height' = Height \cup {l} /\ l \notin Height /\ l \in Nat
          /\ work'[l] = f /\ \A i \in Height : work'[i] = left[i]
      <3> HIDE DEF f
      <3>1. /\ Append(left, f) \in Seq(Frames) /\ Len(Append(left, f)) = l
            /\ Append(left, f)[l] = f /\ \A i \in 1..Len(left) : Append(left, f)[i] = left[i]
        BY <2>1, StackGrows
      <3> QED
        BY <1>2, <1>10, <3>1 DEF Height, f
    <2> HIDE DEF f, l
    <2>3. ASSUME NEW i \in Height'
          PROVE  /\ work'[i].node \in visited'
                 /\ \A j \in Height' : work'[i].node = work'[j].node => i = j
                 /\ work'[i].kids \subseteq Kids(work'[i].node)
                 /\ work'[i].rest \subseteq Targets(Followed, work'[i].node)
                 /\ work'[i].depth < i
                 /\ op # "impact" => work'[i].depth = i - 1
                 /\ op # "types" => work'[i].depth < maxDepth
      <3>1. \A j \in Height : /\ work'[j].node = work[j].node /\ work[j].node \in visited /\ work[j].node # m
                              /\ work'[j].depth = work[j].depth
        BY <1>4, <1>10, <2>2 DEF WalkStack
      <3>2. CASE i \in Height
        <4>1. \A j \in Height' : work'[i].node = work'[j].node => i = j
          BY <2>1, <2>2, <3>1, <3>2 DEF WalkStack
        <4> QED
          BY <1>4, <1>10, <2>2, <3>1, <3>2, <4>1 DEF WalkStack
      <3>3. CASE i = l
        <4>1. \A j \in Height' : work'[i].node = work'[j].node => i = j
          BY <2>1, <2>2, <3>1, <3>3
        <4>2. d < l /\ (op # "impact" => d = l - 1)
          BY <1>2, <1>7 DEF l
        <4> QED
          BY <1>10, <2>1, <2>2, <3>3, <4>1, <4>2
      <3> QED
        BY <2>2, <3>2, <3>3
    <2>4. WalkStack'
      BY <1>1, <2>3 DEF WalkStack, Targets
    <2>5. WalkNear'
      BY <1>1, <1>4, <1>6, <2>1, <2>2 DEF WalkNear
    <2>6. WalkGoesOn'
      <3> SUFFICES ASSUME NEW n \in visited', NEW t \in Kids(n) \cup Targets(Followed, n), t \notin Found'
                   PROVE  \E i \in Height' : work'[i].node = n /\ t \in work'[i].kids \cup work'[i].rest
        BY <1>1 DEF WalkGoesOn, Targets
      <3>1. CASE n \in visited
        <4>1. PICK i \in Height : work[i].node = n /\ t \in work[i].kids \cup work[i].rest
          BY <1>8, <3>1 DEF WalkGoesOn
        <4>2. t # m
          OBVIOUS
        <4> QED
          BY <1>4, <2>2, <4>1, <4>2
      <3>2. CASE n = m
        BY <2>1, <2>2, <3>2
      <3> QED
        BY <1>10, <3>1, <3>2
    <2> QED
      BY <2>2, <2>4, <2>5, <2>6
  <1> QED
    BY <1>9, <1>10

\* Once excused, always excused: the answer only grows.
LEMMA StaysExcused ==
  ASSUME UNCHANGED query, nodes \subseteq nodes', nodes' \subseteq Nodes, frontier \subseteq frontier', limit \in Nat,
         NEW m, Excused(m)
  PROVE  Excused(m)'
  <1>1. op' = op /\ deps' = deps /\ maxDepth' = maxDepth /\ limit' = limit
    BY DEF query
  <1>2. Cardinality(nodes) <= Cardinality(nodes') /\ Cardinality(nodes) \in Nat /\ Cardinality(nodes') \in Nat
    <2>1. IsFiniteSet(nodes') /\ IsFiniteSet(nodes)
      BY TraversalAssumption, FS_Subset
    <2> QED
      BY <2>1, FS_Subset, FS_CardinalityType
  <1> QED
    BY <1>1, <1>2 DEF Excused, Sources

LEMMA WalkVisit ==
  ASSUME QueryOK, WalkInv, op \in Recursive, Visit
  PROVE  WalkInv'
  <1>1. WalkTypes /\ WalkStack /\ WalkNear /\ WalkGoesOn /\ WalkEntered /\ WalkEdges
    BY DEF WalkInv
  <1>2. UNCHANGED query /\ half' = half /\ work # <<>>
    BY DEF Visit
  <1>3. /\ op' = op /\ deps' = deps /\ from' = from /\ maxDepth' = maxDepth /\ limit' = limit
    BY <1>2 DEF query
  <1>4. PICK m \in Nodes, d \in Nat, left \in Seq(Frames) :
            /\ half = "up"
            /\ m \in Top.kids \cup Top.rest
            /\ \/ m \in Kids(Top.node) /\ d = Top.depth
               \/ m \in Targets(Followed, Top.node) /\ d = Top.depth + 1
            /\ Len(left) = Len(work)
            /\ \A i \in 1..(Len(work) - 1) : left[i] = work[i]
            /\ left[Len(work)].node = Top.node /\ left[Len(work)].depth = Top.depth
            /\ left[Len(work)].kids \subseteq Top.kids /\ left[Len(work)].rest \subseteq Top.rest
            /\ Top.kids \cup Top.rest \subseteq left[Len(work)].kids \cup left[Len(work)].rest \cup {m}
            /\ \/ /\ m \in Found
                  /\ work' = left
                  /\ UNCHANGED <<nodes, edges, visited, frontier>>
               \/ /\ op = "types" => m \notin nodes
                  /\ op \in {"callers", "dfs"} => m \notin visited
                  /\ nodes' = nodes \cup {m}
                  /\ edges' = edges \cup {<<Top.node, m>>}
                  /\ visited' = IF Enters(m, d) THEN visited \cup {m} ELSE visited
                  /\ work' = IF Enters(m, d) THEN Append(left, Frame(m, d)) ELSE left
                  /\ frontier' = IF Enters(m, d) THEN frontier ELSE frontier \cup Beyond(m, nodes')
    BY <1>1, Visiting
  <1>5. /\ Top \in Frames /\ Top.node \in Nodes
        /\ Top.depth \in Nat /\ Top.depth < Len(work) /\ Len(work) \in Nat
        /\ op # "impact" => Top.depth = Len(work) - 1
    <2>1. work \in Seq(Frames) /\ Len(work) \in Nat \ {0} /\ Top = work[Len(work)] /\ Top \in Frames
      BY <1>1, <1>2, Stacks DEF Top, WalkTypes
    <2>2. Len(work) \in Height /\ Top.node \in Nodes /\ Top.depth \in Nat
      BY <2>1 DEF Height, Frames
    <2> QED
      BY <1>1, <2>1, <2>2 DEF WalkStack
  <1>6. Enters(m, d) => m \notin visited /\ (op # "types" => d < maxDepth)
    BY DEF Enters
  <1>7. nodes' \in {nodes, nodes \cup {m}} /\ m \in Found'
    BY <1>3, <1>4 DEF Found
  <1>8. \/ work' = left /\ visited' = visited
        \/ /\ work' = Append(left, Frame(m, d)) /\ visited' = visited \cup {m}
           /\ m \notin visited /\ (op # "types" => d < maxDepth)
    BY <1>4, <1>6
  <1>9. WalkStack' /\ WalkNear' /\ WalkGoesOn' /\ work' \in Seq(Frames)
    BY <1>1, <1>2, <1>4, <1>7, <1>8, StackKept
  <1>10. nodes' \subseteq Nodes /\ visited' \subseteq Found' /\ from \in visited' /\ Found \subseteq Found'
    BY <1>1, <1>3, <1>7, <1>8 DEF WalkTypes, Found
  <1>11. frontier' \subseteq Nodes /\ frontier \subseteq frontier' /\ edges' \subseteq Pairs
    <2>1. \A N : Beyond(m, N) \subseteq Nodes
      BY DEF Beyond, Sources
    <2>2. frontier' \subseteq Nodes /\ frontier \subseteq frontier'
      BY <1>1, <1>4, <2>1 DEF WalkTypes
    <2>3. edges' \subseteq edges \cup {<<Top.node, m>>} /\ <<Top.node, m>> \in Pairs
      BY <1>4, <1>5 DEF Pairs
    <2> QED
      BY <1>1, <2>2, <2>3 DEF WalkTypes
  <1>12. WalkTypes'
    BY <1>1, <1>2, <1>3, <1>4, <1>7, <1>9, <1>10, <1>11 DEF WalkTypes
  <1>13. WalkEntered'
    <2> SUFFICES ASSUME NEW k \in nodes', k \notin visited' PROVE Excused(k)'
      BY DEF WalkEntered
    <2>1. CASE k \in nodes
      <3>1. Excused(k)
        BY <1>1, <1>8, <2>1 DEF WalkEntered
      <3> QED
        BY <1>2, <1>7, <1>10, <1>11, <3>1, StaysExcused DEF QueryOK
    <2>2. CASE k \notin nodes
      <3>1. k = m /\ ~Enters(m, d)
        BY <1>4, <1>7, <2>2
      <3>2. m \notin visited
        BY <1>8, <3>1
      <3>3. frontier' = frontier \cup Beyond(m, nodes') /\ nodes' # nodes
        BY <1>4, <2>2, <3>1
      <3>4. op # "types" /\ (~(d < maxDepth) \/ (op = "dfs" /\ ~(Cardinality(nodes') < limit)))
        BY <3>1, <3>2 DEF Enters
      <3>5. Cardinality(nodes') \in Nat
        BY <1>10, TraversalAssumption, FS_Subset, FS_CardinalityType
      <3>6. CASE op = "impact"
        <4>1. Sources(deps, m) \subseteq nodes' \cup frontier'
          BY <3>2, <3>3, <3>6 DEF Beyond
        <4> QED
          BY <1>3, <3>1, <3>6, <4>1 DEF Excused, Sources
      <3>7. CASE op \in {"callers", "dfs"}
        <4>1. Len(work) < Cardinality(Nodes)
          <5>1. visited \subseteq Nodes
            BY <1>1 DEF WalkTypes, Found, QueryOK
          <5> QED
            BY <1>1, <3>2, <5>1, Room
        <4>2. d = Len(work)
          <5>1. Kids(Top.node) = {}
            BY <3>7, Edges DEF Kids, Targets
          <5> QED
            BY <1>4, <1>5, <3>7, <5>1
        <4>3. Cardinality(Nodes) \in Nat /\ maxDepth \in Nat /\ limit \in Nat
          BY TraversalAssumption, FS_CardinalityType DEF QueryOK
        <4>4. maxDepth < Cardinality(Nodes) \/ (op = "dfs" /\ Cardinality(nodes') >= limit)
          BY <1>5, <3>4, <3>5, <4>1, <4>2, <4>3
        <4> QED
          BY <1>3, <3>1, <3>7, <4>4 DEF Excused
      <3> QED
        BY <3>4, <3>6, <3>7 DEF Recursive
    <2> QED
      BY <2>1, <2>2
  <1>14. WalkEdges'
    <2> SUFFICES ASSUME op = "types"
                 PROVE  /\ Cardinality(edges') + 1 = Cardinality(nodes')
                        /\ \A e \in edges' : e[2] \in nodes'
      BY <1>3 DEF WalkEdges
    <2>1. CASE nodes' = nodes /\ edges' = edges
      BY <1>1, <2>1 DEF WalkEdges
    <2>2. CASE nodes' = nodes \cup {m} /\ edges' = edges \cup {<<Top.node, m>>} /\ m \notin nodes
      <3>1. IsFiniteSet(nodes) /\ IsFiniteSet(edges)
        <4>1. IsFiniteSet(Pairs)
          BY TraversalAssumption, FS_Product DEF Pairs
        <4> QED
          BY <1>1, <4>1, TraversalAssumption, FS_Subset DEF WalkTypes
      <3>2. <<Top.node, m>> \notin edges
        BY <1>1, <2>2 DEF WalkEdges
      <3>3. Cardinality(nodes') = Cardinality(nodes) + 1 /\ Cardinality(edges') = Cardinality(edges) + 1
        BY <2>2, <3>1, <3>2, FS_AddElement
      <3>4. Cardinality(edges) + 1 = Cardinality(nodes) /\ \A e \in edges : e[2] \in nodes
        BY <1>1 DEF WalkEdges
      <3> QED
        BY <2>2, <3>3, <3>4
    <2> QED
      BY <1>4, <2>1, <2>2
  <1> QED
    BY <1>9, <1>12, <1>13, <1>14 DEF WalkInv

\* When all calls have returned, what was entered has all its neighbours in the answer.
LEMMA WalkEnds ==
  ASSUME QueryOK, WalkInv
  PROVE  WalkExact /\ ImpactHonest
  <1> SUFFICES ASSUME op \in Recursive, Done
               PROVE  WalkExact /\ ImpactHonest
    BY DEF WalkExact, ImpactHonest, Recursive
  <1>1. WalkTypes /\ WalkStack /\ WalkNear /\ WalkGoesOn /\ WalkEntered /\ WalkEdges
    BY DEF WalkInv
  <1>2. work = <<>>
    BY DEF Done, Recursive
  <1>3. \A n \in visited : Targets(Followed, n) \subseteq Found /\ Kids(n) \subseteq Found
    BY <1>1, <1>2 DEF WalkGoesOn, Height
  <1>4. Found \subseteq Nodes /\ from \in Found /\ from \in visited /\ visited \subseteq Found
    BY <1>1 DEF Found, WalkTypes, QueryOK
  <1>5. op # "types" => nodes \subseteq Ball[maxDepth] /\ Found \subseteq Ball[maxDepth]
    BY <1>1, BallSteps DEF WalkNear, Found, QueryOK
  <1>6. Ball \in [Nat -> SUBSET Nodes] /\ maxDepth \in Nat
    BY BallSteps DEF QueryOK
  <1>7. WalkExact
    <2>1. ASSUME op \in {"callers", "dfs"}
          PROVE  maxDepth = 1 \/ maxDepth >= Cardinality(Nodes) =>
                    (op = "dfs" /\ Cardinality(nodes) >= limit) \/ nodes \cup {from} = Ball[maxDepth]
      <3>1. CASE maxDepth = 1
        <4>1. ASSUME NEW t \in Ball[0 + 1] PROVE t \in Found
          <5>1. Ball[0] = {from} /\ (t \in Ball[0] \/ \E n \in Ball[0] : <<n, t>> \in Followed)
            BY <2>1, <4>1, BallWithout
          <5>2. t \in Nodes
            BY <1>6, <4>1
          <5>3. t = from \/ t \in Targets(Followed, from)
            BY <5>1, <5>2 DEF Targets
          <5> QED
            BY <1>3, <1>4, <5>3
        <4>2. Ball[maxDepth] \subseteq Found
          BY <3>1, <4>1
        <4> QED
          BY <1>5, <2>1, <4>2 DEF Found
      <3>2. CASE maxDepth >= Cardinality(Nodes) /\ ~(op = "dfs" /\ Cardinality(nodes) >= limit)
        <4>1. Cardinality(Nodes) \in Nat
          BY TraversalAssumption, FS_CardinalityType
        <4>2. \A m \in nodes : ~Excused(m)
          BY <1>6, <2>1, <3>2, <4>1 DEF Excused
        <4>3. Found \subseteq visited
          BY <1>1, <1>4, <4>2 DEF WalkEntered, Found
        <4>4. Closure \subseteq Found
          BY <1>3, <1>4, <4>3, ClosureIsLeast
        <4>5. Ball[maxDepth] \subseteq Found
          BY <1>6, <4>4, BallSteps
        <4> QED
          BY <1>5, <2>1, <4>5 DEF Found
      <3> QED
        BY <3>1, <3>2
    <2>2. ASSUME op = "types" PROVE Closure \subseteq nodes /\ Cardinality(edges) = Cardinality(nodes) - 1
      <3>1. Found \subseteq visited /\ Found = nodes
        BY <1>1, <1>4, <2>2 DEF WalkEntered, Found, Excused, WalkTypes
      <3>2. Closure \subseteq Found
        BY <1>3, <1>4, <3>1, ClosureIsLeast
      <3>3. Cardinality(edges) + 1 = Cardinality(nodes)
        BY <1>1, <2>2 DEF WalkEdges
      <3>4. Cardinality(edges) \in Nat
        <4>1. IsFiniteSet(Pairs)
          BY TraversalAssumption, FS_Product DEF Pairs
        <4> QED
          BY <1>1, <4>1, FS_Subset, FS_CardinalityType DEF WalkTypes
      <3> QED
        BY <3>1, <3>2, <3>3, <3>4
    <2> QED
      BY <1>5, <2>1, <2>2 DEF WalkExact
  <1>8. ImpactHonest
    <2> SUFFICES ASSUME op = "impact"
                 PROVE  /\ nodes \subseteq Ball[maxDepth]
                        /\ frontier \subseteq nodes /\ (\A n \in nodes : Kids(n) = {} \/ n \in visited) => nodes = Closure
      BY DEF ImpactHonest
    <2>1. ASSUME frontier \subseteq nodes, \A n \in nodes : Kids(n) = {} \/ n \in visited PROVE nodes = Closure
      <3>1. Found = nodes
        BY <1>1 DEF WalkTypes, Found
      <3>2. ASSUME NEW n \in nodes PROVE Targets(Followed, n) \subseteq nodes /\ Kids(n) \subseteq nodes
        <4>1. CASE n \in visited
          BY <1>3, <3>1, <4>1
        <4>2. CASE n \notin visited
          <5>1. Sources(deps, n) \subseteq nodes
            BY <1>1, <2>1, <3>2, <4>2 DEF WalkEntered, Excused
          <5>2. Targets(Followed, n) = Sources(deps, n)
            BY DEF Followed, Targets, Sources, QueryOK, Pairs
          <5>3. Kids(n) = {}
            BY <2>1, <3>2, <4>2
          <5> QED
            BY <5>1, <5>2, <5>3
        <4> QED
          BY <4>1, <4>2
      <3>3. Closure \subseteq nodes
        BY <1>4, <3>1, <3>2, ClosureIsLeast
      <3>4. nodes \subseteq Closure
        BY <1>5, <1>6, BallSteps
      <3> QED
        BY <3>3, <3>4
    <2> QED
      BY <1>5, <2>1
  <1> QED
    BY <1>7, <1>8

-----------------------------------------------------------------------------
(* Cycles. *)

From(n) == Reached(deps, {n})

\* A cycle was found among the nodes that can be reached from n and from which n can be reached.
Caught(n) == \E c \in found : \A i \in DOMAIN c : c[i] \in From(n) /\ n \in From(c[i])

LEMMA FromSteps ==
  ASSUME deps \in SUBSET Pairs, NEW n \in Nodes
  PROVE  /\ From(n) \subseteq Nodes /\ n \in From(n)
         /\ \A a \in From(n) : Targets(deps, a) \subseteq From(n)
         /\ \A a \in From(n) : From(a) \subseteq From(n)
  <1>1. {n} \in SUBSET Nodes
    OBVIOUS
  <1>2. From(n) \in SUBSET Nodes /\ n \in From(n) /\ Closed(deps, From(n))
    BY <1>1, ReachedIsLeast DEF From
  <1>3. ASSUME NEW a \in From(n) PROVE From(a) \subseteq From(n)
    <2>1. {a} \in SUBSET Nodes /\ {a} \subseteq From(n)
      BY <1>2, <1>3
    <2> QED
      BY <1>2, <2>1, ReachedIsLeast DEF From
  <1>4. \A a \in From(n) : Targets(deps, a) \subseteq From(n)
    BY <1>2 DEF Closed, Targets
  <1> QED
    BY <1>2, <1>3, <1>4

\* If another node can be reached, then by way of a neighbour.
LEMMA FirstStep ==
  ASSUME deps \in SUBSET Pairs, NEW a \in Nodes, NEW b \in From(a), b # a
  PROVE  \E m \in Targets(deps, a) : b \in From(m)
  <1> DEFINE C == {a} \cup {x \in Nodes : \E m \in Targets(deps, a) : x \in From(m)}
  <1>1. C \in SUBSET Nodes /\ {a} \in SUBSET Nodes /\ {a} \subseteq C
    OBVIOUS
  <1>2. ASSUME NEW e \in deps, e[1] \in C PROVE e[2] \in C
    <2>1. e[1] \in Nodes /\ e[2] \in Nodes /\ e[2] \in Targets(deps, e[1])
      BY DEF Pairs, Targets
    <2>2. CASE e[1] = a
      BY <2>1, <2>2, FromSteps
    <2>3. CASE e[1] # a
      <3>1. PICK m \in Targets(deps, a) : e[1] \in From(m)
        BY <1>2, <2>3
      <3>2. m \in Nodes
        BY <3>1 DEF Targets
      <3>3. e[2] \in From(m)
        BY <2>1, <3>1, <3>2, FromSteps
      <3> QED
        BY <2>1, <3>1, <3>3
    <2> QED
      BY <2>2, <2>3
  <1>3. Closed(deps, C)
    BY <1>2 DEF Closed
  <1> HIDE DEF C
  <1>4. From(a) \subseteq C
    BY <1>1, <1>3, ReachedIsLeast DEF From
  <1> QED
    BY <1>4 DEF C

\* Two nodes that each can be reached from the other are on a cycle, also if they are one node with an edge to itself; and
\* what is caught for one is caught for the other.
LEMMA Together ==
  ASSUME deps \in SUBSET Pairs, NEW a \in Nodes, NEW b \in Targets(deps, a), a \in From(b)
  PROVE  b \in Nodes /\ b \in Cyclic /\ (Caught(b) => Caught(a))
  <1>1. b \in Nodes /\ b \in From(a)
    BY FromSteps DEF Targets
  <1>2. \E m \in Targets(deps, b) : b \in From(m)
    <2>1. CASE a = b
      BY <2>1, FromSteps
    <2>2. CASE a # b
      <3>1. PICK m \in Targets(deps, b) : a \in From(m)
        BY <1>1, <2>2, FirstStep
      <3>2. m \in Nodes
        BY <3>1 DEF Targets
      <3> QED
        BY <1>1, <3>1, <3>2, FromSteps
    <2> QED
      BY <2>1, <2>2
  <1>3. b \in Cyclic
    BY <1>1, <1>2 DEF Cyclic, Reach, From, Targets
  <1>4. ASSUME Caught(b) PROVE Caught(a)
    <2>1. PICK c \in found : \A i \in DOMAIN c : c[i] \in From(b) /\ b \in From(c[i])
      BY <1>4 DEF Caught
    <2>2. \A i \in DOMAIN c : c[i] \in From(a) /\ a \in From(c[i])
      <3> SUFFICES ASSUME NEW i \in DOMAIN c PROVE c[i] \in From(a) /\ a \in From(c[i])
        OBVIOUS
      <3>1. c[i] \in From(b) /\ b \in From(c[i]) /\ c[i] \in Nodes
        BY <1>1, <2>1, FromSteps
      <3> QED
        BY <1>1, <3>1, FromSteps
    <2> QED
      BY <2>2 DEF Caught
  <1> QED
    BY <1>1, <1>3, <1>4

CycleTypes == work \in Seq(Frames) /\ visited \subseteq Nodes /\ half = "up"

\* No call is for a node that another one is for.
CycleApart == \A i, j \in Height : work[i].node = work[j].node => i = j

\* The calls are a path.
CyclePath == /\ \A i \in Height : /\ work[i].node \in visited
                                  /\ work[i].kids = {}
                                  /\ work[i].rest \subseteq Targets(deps, work[i].node)
             /\ \A i \in 1..(Len(work) - 1) : work[i + 1].node \in Targets(deps, work[i].node)

\* What was found are cycles.
CycleReal == \A c \in found : \A i \in DOMAIN c : <<c[i], c[IF i = Len(c) THEN 1 ELSE i + 1]>> \in deps

\* A node on a cycle whose call has returned is caught.
CycleDone == \A n \in visited \ OnStack : n \in Cyclic => Caught(n)

\* So is a node whose call is past a neighbour from which it can be reached; unless the next call is for that neighbour.
CycleStack == \A i \in Height : \A t \in Targets(deps, work[i].node) \ work[i].rest :
                 work[i].node \in From(t) => \/ Caught(work[i].node)
                                             \/ i + 1 \in Height /\ t = work[i + 1].node

CycleInv == op = "cycles" => CycleTypes /\ CycleApart /\ CyclePath /\ CycleReal /\ CycleDone /\ CycleStack

LEMMA CycleInit == Init => CycleInv
  <1> SUFFICES ASSUME Init, op = "cycles" PROVE CycleInv
    BY DEF CycleInv
  <1>1. work = <<>> /\ visited = {} /\ found = {} /\ half = "up"
    BY DEF Init, Recursive
  <1>2. work \in Seq(Frames) /\ Height = {} /\ Len(work) = 0
    BY <1>1 DEF Height
  <1>3. CycleTypes /\ CycleReal /\ CycleDone
    BY <1>1, <1>2 DEF CycleTypes, CycleReal, CycleDone
  <1>4. CycleApart /\ CyclePath /\ CycleStack
    BY <1>2 DEF CycleApart, CyclePath, CycleStack
  <1> QED
    BY <1>3, <1>4 DEF CycleInv

\* The nodes of later calls can be reached from those of earlier ones.
LEMMA Downwards ==
  ASSUME deps \in SUBSET Pairs, CycleTypes, CyclePath, NEW i \in Height, NEW j \in Height, i <= j
  PROVE  work[j].node \in From(work[i].node)
  <1> DEFINE S == {k \in Nat : i + k \in Height => work[i + k].node \in From(work[i].node)}
  <1>1. Height = 1..Len(work) /\ Len(work) \in Nat /\ work[i].node \in Nodes
    BY DEF Height, CycleTypes, CyclePath
  <1>2. 0 \in S
    BY <1>1, FromSteps
  <1>3. ASSUME NEW k \in Nat, k \in S PROVE k + 1 \in S
    <2> SUFFICES ASSUME i + (k + 1) \in Height PROVE work[i + (k + 1)].node \in From(work[i].node)
      OBVIOUS
    <2>1. i + k \in Height /\ i + k \in 1..(Len(work) - 1) /\ (i + k) + 1 = i + (k + 1)
      BY <1>1
    <2>2. work[i + k].node \in From(work[i].node)
      BY <1>3, <2>1
    <2>3. work[(i + k) + 1].node \in Targets(deps, work[i + k].node)
      BY <2>1 DEF CyclePath
    <2> QED
      BY <1>1, <2>1, <2>2, <2>3, FromSteps
  <1>4. j - i \in Nat /\ i + (j - i) = j
    BY <1>1
  <1>5. j - i \in S
    <2> HIDE DEF S
    <2> QED
      BY <1>2, <1>3, <1>4, Induction
  <1> QED
    BY <1>4, <1>5

LEMMA CycleReturn ==
  ASSUME QueryOK, CycleInv, op = "cycles", Return
  PROVE  CycleInv'
  <1>1. /\ op' = op /\ deps' = deps /\ visited' = visited /\ half' = half /\ found' = found
    BY DEF Return, query
  <1>2. CycleTypes /\ CycleApart /\ CyclePath /\ CycleReal /\ CycleDone /\ CycleStack /\ deps \in SUBSET Pairs
    BY DEF CycleInv, QueryOK
  <1>3. work # <<>> /\ work \in Seq(Frames) /\ Top.rest = {} /\ work' = Front(work)
    BY <1>2 DEF Return, CycleTypes, Popped
  <1>4. /\ Len(work) \in Nat \ {0} /\ Top = work[Len(work)] /\ Top \in Frames
        /\ work' \in Seq(Frames) /\ Len(work') = Len(work) - 1
        /\ \A i \in 1..(Len(work) - 1) : work'[i] = work[i]
    BY <1>3, Stacks DEF Top
  <1>5. /\ Height' \subseteq Height /\ Height = Height' \cup {Len(work)} /\ \A i \in Height' : work'[i] = work[i]
        /\ Len(work) \in Height
    BY <1>4 DEF Height
  <1>6. /\ \A n : From(n)' = From(n) /\ Caught(n)' = Caught(n)
        /\ Cyclic' = Cyclic
    BY <1>1 DEF From, Caught, Cyclic
  <1>7. Top.node \in Cyclic => Caught(Top.node)
    <2> SUFFICES ASSUME Top.node \in Cyclic PROVE Caught(Top.node)
      OBVIOUS
    <2>1. PICK t \in Targets(deps, Top.node) : Top.node \in From(t)
      BY DEF Cyclic, Reach, From, Targets
    <2>2. Len(work) + 1 \notin Height
      BY <1>4 DEF Height
    <2> QED
      BY <1>2, <1>3, <1>4, <1>5, <2>1, <2>2 DEF CycleStack
  <1>8. CycleTypes' /\ CycleApart' /\ CyclePath' /\ CycleReal'
    <2>1. \A i \in 1..(Len(work') - 1) : work'[i] = work[i] /\ work'[i + 1] = work[i + 1] /\ i \in 1..(Len(work) - 1)
      BY <1>4
    <2>2. CycleTypes' /\ CycleReal'
      BY <1>1, <1>2, <1>4 DEF CycleTypes, CycleReal
    <2>3. CycleApart'
      BY <1>2, <1>5 DEF CycleApart
    <2> QED
      BY <1>1, <1>2, <1>5, <2>1, <2>2, <2>3 DEF CyclePath, Targets
  <1>9. CycleDone'
    <2>1. OnStack \subseteq OnStack' \cup {Top.node}
      BY <1>4, <1>5, <1>3 DEF OnStack, Height
    <2> QED
      BY <1>1, <1>2, <1>6, <1>7, <2>1 DEF CycleDone
  <1>10. CycleStack'
    <2> SUFFICES ASSUME NEW i \in Height', NEW t \in Targets(deps, work[i].node) \ work[i].rest,
                        work[i].node \in From(t), ~Caught(work[i].node)
                 PROVE  i + 1 \in Height' /\ t = work'[i + 1].node
      BY <1>1, <1>5, <1>6 DEF CycleStack, Targets
    <2>1. i \in Height /\ i + 1 \in Height /\ t = work[i + 1].node /\ work[i].node \in Nodes
      BY <1>2, <1>5 DEF CycleStack, CyclePath, CycleTypes
    <2>2. i + 1 # Len(work)
      <3> SUFFICES ASSUME i + 1 = Len(work) PROVE FALSE
        OBVIOUS
      <3>1. t = Top.node
        BY <1>4, <2>1
      <3>2. t \in Cyclic /\ (Caught(t) => Caught(work[i].node))
        BY <1>2, <2>1, Together
      <3> QED
        BY <1>7, <3>1, <3>2
    <2> QED
      BY <1>5, <2>1, <2>2
  <1> QED
    BY <1>1, <1>8, <1>9, <1>10 DEF CycleInv

LEMMA CycleNextRoot ==
  ASSUME QueryOK, CycleInv, op = "cycles", NextRoot
  PROVE  CycleInv'
  <1>1. /\ op' = op /\ deps' = deps /\ half' = half /\ found' = found
    BY DEF NextRoot, query
  <1>2. CycleTypes /\ CycleReal /\ CycleDone /\ deps \in SUBSET Pairs
    BY DEF CycleInv, QueryOK
  <1>3. PICK f \in Nodes \ visited : visited' = visited \cup {f} /\ work' = <<Frame(f, 0)>>
    BY DEF NextRoot
  <1> DEFINE g == Frame(f, 0)
  <1>4. g \in Frames /\ g.node = f /\ g.kids = {} /\ g.rest = Targets(deps, f)
    BY <1>2 DEF Frame, Frames, Kids, Contained, Adjacent, Targets, CycleTypes
  <1>5. work = <<>> /\ work' = <<g>>
    BY <1>3 DEF NextRoot
  <1> HIDE DEF g
  <1>6. work' \in Seq(Frames) /\ Height' = {1} /\ work'[1] = g /\ Len(work') = 1 /\ DOMAIN work' = {1}
    BY <1>4, <1>5 DEF Height
  <1>7. /\ \A n : From(n)' = From(n) /\ Caught(n)' = Caught(n)
        /\ Cyclic' = Cyclic
    BY <1>1 DEF From, Caught, Cyclic
  <1>8. CycleTypes' /\ CycleApart' /\ CyclePath' /\ CycleReal'
    <2>1. 1..(Len(work') - 1) = {}
      BY <1>6
    <2>2. CycleTypes' /\ CycleApart' /\ CycleReal'
      BY <1>1, <1>2, <1>3, <1>6 DEF CycleTypes, CycleApart, CycleReal
    <2>3. \A i \in Height' : /\ work'[i].node \in visited' /\ work'[i].kids = {}
                             /\ work'[i].rest \subseteq Targets(deps', work'[i].node)
      BY <1>1, <1>3, <1>4, <1>6
    <2> QED
      BY <2>1, <2>2, <2>3 DEF CyclePath, Targets
  <1>9. OnStack' = {f} /\ OnStack = {}
    BY <1>4, <1>5, <1>6 DEF OnStack
  <1>10. CycleDone'
    BY <1>2, <1>3, <1>7, <1>9 DEF CycleDone
  <1>11. CycleStack'
    BY <1>1, <1>4, <1>6 DEF CycleStack, Targets
  <1> QED
    BY <1>8, <1>10, <1>11 DEF CycleInv

\* The stack from the call of m on, if the call on top has m as a neighbour, is a cycle, on which the call on top is.
LEMMA CycleClosed ==
  ASSUME deps \in SUBSET Pairs, CycleTypes, CyclePath, work # <<>>, NEW m \in Targets(deps, Top.node), Closes(m)
  PROVE  LET c == CycleAt(m)
         IN  /\ \A i \in DOMAIN c : <<c[i], c[IF i = Len(c) THEN 1 ELSE i + 1]>> \in deps
             /\ \A i \in DOMAIN c : c[i] \in From(Top.node) /\ Top.node \in From(c[i])
  <1> DEFINE start == CHOOSE i \in DOMAIN work : work[i].node = m
             l == Len(work)
             k == l - start + 1
             c == CycleAt(m)
  <1>1. l \in Nat \ {0} /\ Top = work[l] /\ Height = 1..l /\ DOMAIN work = 1..l
    <2>1. work \in Seq(Frames)
      BY DEF CycleTypes
    <2>2. l \in Nat \ {0} /\ DOMAIN work = 1..l
      BY <2>1
    <2> QED
      BY <2>1, <2>2 DEF Top, Last, Height
  <1>2. \E i \in DOMAIN work : work[i].node = m
    BY DEF Closes, OnStack
  <1>3. start \in 1..l /\ work[start].node = m
    BY <1>1, <1>2
  <1>4. c = [i \in 1..k |-> work[start + i - 1].node]
    BY DEF CycleAt
  <1> HIDE DEF start, l, c
  <1>5. k \in Nat \ {0}
    BY <1>1, <1>3
  <1>6. DOMAIN c = 1..k /\ \A i \in 1..k : start + i - 1 \in Height /\ c[i] = work[start + i - 1].node
    BY <1>1, <1>3, <1>4, <1>5
  <1>7. Len(c) = k
    <2>1. c \in Seq(Nodes)
      BY <1>4, <1>5, <1>6 DEF CyclePath, CycleTypes
    <2> QED
      BY <1>5, <1>6, <2>1
  <1>8. c[1] = m /\ c[k] = Top.node
    BY <1>1, <1>3, <1>5, <1>6
  <1>9. ASSUME NEW i \in 1..k PROVE <<c[i], c[IF i = Len(c) THEN 1 ELSE i + 1]>> \in deps
    <2>1. CASE i = k
      BY <1>7, <1>8, <2>1 DEF Targets
    <2>2. CASE i # k
      <3>1. /\ start + i - 1 \in 1..(l - 1) /\ i + 1 \in 1..k
            /\ (start + i - 1) + 1 = start + (i + 1) - 1
        BY <1>1, <1>3, <1>5, <2>2
      <3>2. work[(start + i - 1) + 1].node \in Targets(deps, work[start + i - 1].node)
        BY <3>1 DEF CyclePath, l
      <3>3. <<c[i], c[i + 1]>> \in deps
        BY <1>6, <3>1, <3>2 DEF Targets
      <3> QED
        BY <1>7, <2>2, <3>3
    <2> QED
      BY <2>1, <2>2
  <1>10. ASSUME NEW i \in 1..k PROVE c[i] \in From(Top.node) /\ Top.node \in From(c[i])
    <2>1. /\ start + i - 1 \in Height /\ start \in Height /\ l \in Height
          /\ start <= start + i - 1 /\ start + i - 1 <= l /\ c[i] = work[start + i - 1].node
      BY <1>1, <1>3, <1>5, <1>6
    <2>2. c[i] \in From(m) /\ Top.node \in From(c[i])
      BY <1>1, <1>3, <2>1, Downwards
    <2>3. Top.node \in Nodes
      BY <1>1, <2>1 DEF CyclePath, CycleTypes
    <2>4. m \in From(Top.node)
      BY <2>3, FromSteps
    <2> QED
      BY <2>2, <2>3, <2>4, FromSteps
  <1> QED
    BY <1>6, <1>9, <1>10 DEF c

\* The call on top goes on to its next neighbour, m; what is left of it is below.
CycleKept(m) == Append(Popped, [Top EXCEPT !.rest = @ \ {m}])

LEMMA CycleLeft ==
  ASSUME CycleTypes, CyclePath, work # <<>>, NEW m \in Top.rest
  PROVE  /\ Len(work) \in Nat \ {0} /\ Top = work[Len(work)] /\ Top \in Frames
         /\ m \in Targets(deps, Top.node) /\ m \in Nodes
         /\ CycleKept(m) \in Seq(Frames) /\ Len(CycleKept(m)) = Len(work)
         /\ \A i \in Height : /\ CycleKept(m)[i].node = work[i].node /\ CycleKept(m)[i].kids = {}
                              /\ CycleKept(m)[i].rest = IF i = Len(work) THEN Top.rest \ {m} ELSE work[i].rest
  <1> DEFINE kept == [Top EXCEPT !.rest = @ \ {m}]
             left == Append(Popped, kept)
  <1>1. work \in Seq(Frames)
    BY DEF CycleTypes
  <1>2. /\ Len(work) \in Nat \ {0} /\ Top = work[Len(work)] /\ Top \in Frames
    <2>1. Last(work) \in Frames
      BY <1>1 DEF Last
    <2> QED
      BY <1>1, <2>1, Stacks DEF Top
  <1>3. kept \in Frames /\ kept.node = Top.node /\ kept.kids = Top.kids /\ kept.rest = Top.rest \ {m}
    BY <1>2 DEF Frames
  <1> HIDE DEF kept
  <1>4. /\ left \in Seq(Frames) /\ Len(left) = Len(work) /\ left[Len(work)] = kept
        /\ \A i \in 1..(Len(work) - 1) : left[i] = work[i]
    BY <1>1, <1>3, Stacks DEF Popped
  <1>5. CycleKept(m) = left
    BY DEF CycleKept, kept
  <1> HIDE DEF left
  <1>6. \A i \in Height : i = Len(work) \/ i \in 1..(Len(work) - 1)
    BY <1>2 DEF Height
  <1>7. Len(work) \in Height /\ Len(work) \notin 1..(Len(work) - 1)
    BY <1>2 DEF Height
  <1>8. m \in Targets(deps, Top.node) /\ m \in Nodes /\ Top.kids = {}
    BY <1>2, <1>7 DEF CyclePath, Targets
  <1>9. ASSUME NEW i \in Height
        PROVE  /\ left[i].node = work[i].node /\ left[i].kids = {}
               /\ left[i].rest = IF i = Len(work) THEN Top.rest \ {m} ELSE work[i].rest
    <2>1. CASE i = Len(work)
      BY <1>2, <1>3, <1>4, <1>8, <2>1
    <2>2. CASE i # Len(work)
      BY <1>4, <1>6, <2>2 DEF CyclePath
    <2> QED
      BY <2>1, <2>2
  <1> QED
    BY <1>2, <1>4, <1>5, <1>8, <1>9

LEMMA CycleDependency ==
  ASSUME QueryOK, CycleInv, op = "cycles", Dependency
  PROVE  CycleInv'
  <1>1. op' = op /\ deps' = deps /\ half' = half
    BY DEF Dependency, query
  <1>2. CycleTypes /\ CycleApart /\ CyclePath /\ CycleReal /\ CycleDone /\ CycleStack /\ deps \in SUBSET Pairs /\ work # <<>>
    BY DEF CycleInv, QueryOK, Dependency
  <1>3. PICK m \in Top.rest :
          /\ found' = IF Closes(m) THEN found \cup {CycleAt(m)} ELSE found
          /\ visited' = visited \cup {m}
          /\ work' = IF Seen(m) THEN CycleKept(m) ELSE Append(CycleKept(m), Frame(m, 0))
    BY DEF Dependency, CycleKept
  <1> DEFINE l == Len(work)
             left == CycleKept(m)
             new == Frame(m, 0)
  <1>0. PICK a : a = Top.node
    OBVIOUS
  <1>4. /\ l \in Nat \ {0} /\ Top = work[l] /\ Top \in Frames /\ m \in Targets(deps, a) /\ m \in Nodes
        /\ left \in Seq(Frames) /\ Len(left) = l
        /\ \A i \in Height : /\ left[i].node = work[i].node /\ left[i].kids = {}
                             /\ left[i].rest = IF i = l THEN Top.rest \ {m} ELSE work[i].rest
    <2>1. /\ Len(work) \in Nat \ {0} /\ Top = work[Len(work)] /\ Top \in Frames
          /\ m \in Targets(deps, Top.node) /\ m \in Nodes
          /\ CycleKept(m) \in Seq(Frames) /\ Len(CycleKept(m)) = Len(work)
          /\ \A i \in Height : /\ CycleKept(m)[i].node = work[i].node /\ CycleKept(m)[i].kids = {}
                               /\ CycleKept(m)[i].rest = IF i = Len(work) THEN Top.rest \ {m} ELSE work[i].rest
      BY <1>2, CycleLeft
    <2> QED
      BY <1>0, <2>1
  <1>5. new \in Frames /\ new.node = m /\ new.kids = {} /\ new.rest = Targets(deps, m)
    BY <1>2, <1>4 DEF Frame, Frames, Kids, Contained, Adjacent, Targets, CycleTypes
  <1>6. work' = IF Seen(m) THEN left ELSE Append(left, new)
    BY <1>3
  <1> HIDE DEF l, left, new
  <1>7. /\ Height = 1..l /\ l \in Height /\ l + 1 \notin Height /\ a \in Nodes
        /\ \A i \in 1..(l - 1) : i \in Height /\ i + 1 \in Height /\ i # l
        /\ DOMAIN work = Height
    BY <1>0, <1>2, <1>4 DEF Height, l, Frames, CycleTypes
  <1>8. Caught(a)' \/ ~Closes(m)
    <2> SUFFICES ASSUME Closes(m) PROVE Caught(a)'
      OBVIOUS
    <2>1. \A i \in DOMAIN CycleAt(m) : CycleAt(m)[i] \in From(a) /\ a \in From(CycleAt(m)[i])
      BY <1>0, <1>2, <1>4, CycleClosed
    <2> QED
      BY <1>1, <1>3, <2>1 DEF Caught, From
  <1>9. \A n : Caught(n) => Caught(n)'
    BY <1>1, <1>3 DEF Caught, From
  <1>10. \A n : From(n)' = From(n)
    BY <1>1 DEF From
  <1>11. Cyclic' = Cyclic
    BY <1>1 DEF Cyclic
  <1>12. CycleReal'
    <2>1. CASE Closes(m)
      <3>1. \A i \in DOMAIN CycleAt(m) : <<CycleAt(m)[i], CycleAt(m)[IF i = Len(CycleAt(m)) THEN 1 ELSE i + 1]>> \in deps
        BY <1>0, <1>2, <1>4, <2>1, CycleClosed
      <3> QED
        BY <1>1, <1>2, <1>3, <2>1, <3>1 DEF CycleReal
    <2>2. CASE ~Closes(m)
      BY <1>1, <1>2, <1>3, <2>2 DEF CycleReal
    <2> QED
      BY <2>1, <2>2
  <1>13. OnStack = {work[i].node : i \in Height} /\ OnStack \subseteq visited
    BY <1>2, <1>7 DEF OnStack, CyclePath
  \* A node that is done with is caught, if m is one and on a cycle with the call on top.
  <1>14. m \in visited /\ ~Closes(m) /\ a \in From(m) => Caught(a)'
    <2> SUFFICES ASSUME m \in visited \ OnStack, a \in From(m) PROVE Caught(a)'
      BY DEF Closes
    <2>1. m \in Cyclic /\ (Caught(m) => Caught(a))
      BY <1>2, <1>4, <1>7, Together
    <2> QED
      BY <1>2, <1>9, <2>1 DEF CycleDone
  <1>15. CASE Seen(m)
    <2>1. visited' = visited /\ work' = left /\ m \in visited
      BY <1>3, <1>6, <1>15 DEF Seen
    <2>2. Len(work') = l /\ Height' = Height /\ DOMAIN work' = Height
      <3>1. Len(work') = l /\ DOMAIN work' = 1..l
        BY <1>4, <2>1
      <3>2. Height' = 1..Len(work')
        BY DEF Height
      <3> QED
        BY <1>7, <3>1, <3>2
    <2>3. \A i \in Height : /\ work'[i].node = work[i].node /\ work'[i].kids = {}
                            /\ work'[i].rest = IF i = l THEN Top.rest \ {m} ELSE work[i].rest
      BY <1>4, <2>1
    <2>4. OnStack' = OnStack
      <3>1. OnStack' = {work'[i].node : i \in Height}
        BY <2>2 DEF OnStack
      <3> QED
        BY <1>13, <2>3, <3>1
    <2>5. CycleTypes' /\ CycleApart'
      BY <1>1, <1>2, <1>4, <2>1, <2>2, <2>3 DEF CycleTypes, CycleApart
    <2>6. CyclePath'
      <3>1. \A i \in Height : work'[i].rest \subseteq work[i].rest
        BY <1>4, <2>3
      <3>2. \A i \in Height' : /\ work'[i].node \in visited' /\ work'[i].kids = {}
                               /\ work'[i].rest \subseteq Targets(deps, work'[i].node)
        BY <1>2, <2>1, <2>2, <2>3, <3>1 DEF CyclePath
      <3>3. \A i \in 1..(Len(work') - 1) : work'[i + 1].node \in Targets(deps, work'[i].node)
        BY <1>2, <1>7, <2>2, <2>3 DEF CyclePath, l
      <3> QED
        BY <1>1, <3>2, <3>3 DEF CyclePath, Targets
    <2>7. CycleDone'
      BY <1>2, <1>9, <1>11, <2>1, <2>4 DEF CycleDone
    <2>8. CycleStack'
      <3> SUFFICES ASSUME NEW i \in Height, NEW t \in Targets(deps, work'[i].node) \ work'[i].rest,
                          work'[i].node \in From(t)
                   PROVE  \/ \A n : n = work'[i].node => Caught(n)'
                          \/ i + 1 \in Height /\ t = work'[i + 1].node
        BY <1>1, <1>10, <2>2 DEF CycleStack, Targets
      <3>1. CASE i = l /\ t = m
        <4>1. work'[i].node = a
          BY <1>0, <1>4, <1>7, <2>3, <3>1
        <4> QED
          BY <1>8, <1>14, <2>1, <3>1, <4>1
      <3>2. CASE ~(i = l /\ t = m)
        <4>1. t \in Targets(deps, work[i].node) \ work[i].rest
          BY <1>4, <2>3, <3>2
        <4>2. Caught(work[i].node) \/ (i + 1 \in Height /\ t = work[i + 1].node)
          BY <1>2, <2>3, <4>1 DEF CycleStack
        <4> QED
          BY <1>9, <2>3, <4>2
      <3> QED
        BY <3>1, <3>2
    <2> QED
      BY <1>12, <2>5, <2>6, <2>7, <2>8 DEF CycleInv
  <1>16. CASE ~Seen(m)
    <2>1. visited' = visited \cup {m} /\ work' = Append(left, new) /\ m \notin OnStack
      BY <1>3, <1>6, <1>13, <1>16 DEF Seen
    <2>2. /\ work' \in Seq(Frames) /\ Len(work') = l + 1 /\ work'[l + 1] = new
          /\ \A i \in Height : work'[i] = left[i]
      BY <1>4, <1>5, <1>7, <2>1, StackGrows
    <2>3. \A i \in Height : /\ work'[i].node = work[i].node /\ work'[i].kids = {}
                            /\ work'[i].rest = IF i = l THEN Top.rest \ {m} ELSE work[i].rest
      BY <1>4, <2>2
    <2>4. Height' = Height \cup {l + 1} /\ DOMAIN work' = Height'
      <3>1. Height' = 1..(l + 1) /\ DOMAIN work' = 1..(l + 1)
        BY <1>4, <2>2 DEF Height
      <3> QED
        BY <1>4, <1>7, <3>1
    <2>5. OnStack' = OnStack \cup {m}
      <3>1. OnStack' = {work'[i].node : i \in Height \cup {l + 1}}
        BY <2>4 DEF OnStack
      <3>2. OnStack' = {work'[i].node : i \in Height} \cup {work'[l + 1].node}
        BY <3>1
      <3>3. {work'[i].node : i \in Height} = OnStack
        BY <1>13, <2>3
      <3> QED
        BY <1>5, <2>2, <3>2, <3>3
    <2>6. CycleTypes' /\ CycleApart'
      <3>1. CycleTypes'
        BY <1>1, <1>2, <1>4, <2>1, <2>2 DEF CycleTypes
      <3>2. \A i \in Height : work'[i].node \in OnStack /\ work'[i].node # work'[l + 1].node
        <4>1. work'[l + 1].node \notin OnStack
          BY <1>5, <2>1, <2>2
        <4>2. \A i \in Height : work'[i].node \in OnStack
          BY <1>13, <2>3
        <4> QED
          BY <4>1, <4>2
      <3> QED
        BY <1>2, <2>3, <2>4, <3>1, <3>2 DEF CycleApart
    <2>7. CyclePath'
      <3>1. \A i \in Height : work'[i].rest \subseteq work[i].rest
        BY <1>4, <2>3
      <3>2. \A i \in Height' : /\ work'[i].node \in visited' /\ work'[i].kids = {}
                               /\ work'[i].rest \subseteq Targets(deps, work'[i].node)
        BY <1>2, <1>5, <2>1, <2>2, <2>3, <2>4, <3>1 DEF CyclePath
      <3>3. ASSUME NEW i \in 1..(Len(work') - 1) PROVE work'[i + 1].node \in Targets(deps, work'[i].node)
        <4>1. i \in Height /\ (i = l \/ i \in 1..(l - 1))
          BY <1>4, <1>7, <2>2
        <4>2. CASE i = l
          BY <1>0, <1>4, <1>5, <2>2, <2>3, <4>1, <4>2
        <4>3. CASE i \in 1..(l - 1)
          BY <1>2, <1>7, <2>3, <4>3 DEF CyclePath, l
        <4> QED
          BY <4>1, <4>2, <4>3
      <3> QED
        BY <1>1, <3>2, <3>3 DEF CyclePath, Targets
    <2>8. CycleDone'
      BY <1>2, <1>9, <1>11, <2>1, <2>5 DEF CycleDone
    <2>9. CycleStack'
      <3> SUFFICES ASSUME NEW i \in Height', NEW t \in Targets(deps, work'[i].node) \ work'[i].rest,
                          work'[i].node \in From(t)
                   PROVE  \/ \A n : n = work'[i].node => Caught(n)'
                          \/ i + 1 \in Height' /\ t = work'[i + 1].node
        BY <1>1, <1>10 DEF CycleStack, Targets
      <3>1. CASE i = l + 1
        BY <1>5, <2>2, <3>1
      <3>2. CASE i = l /\ t = m
        BY <1>5, <2>2, <2>4, <3>2
      <3>3. CASE i \in Height /\ ~(i = l /\ t = m)
        <4>1. t \in Targets(deps, work[i].node) \ work[i].rest
          BY <1>4, <2>3, <3>3
        <4>2. Caught(work[i].node) \/ (i + 1 \in Height /\ t = work[i + 1].node)
          BY <1>2, <2>3, <3>3, <4>1 DEF CycleStack
        <4> QED
          BY <1>9, <2>3, <2>4, <3>3, <4>2
      <3> QED
        BY <2>4, <3>1, <3>2, <3>3
    <2> QED
      BY <1>12, <2>6, <2>7, <2>8, <2>9 DEF CycleInv
  <1> QED
    BY <1>15, <1>16

LEMMA CycleEnds ==
  ASSUME QueryOK, CycleInv
  PROVE  CyclesFound
  <1> SUFFICES ASSUME op = "cycles", Done PROVE CyclesFound
    BY DEF CyclesFound
  <1>1. CycleReal /\ CycleDone /\ work = <<>> /\ visited = Nodes
    BY DEF CycleInv, Done
  <1>2. OnStack = {}
    BY <1>1 DEF OnStack
  <1>3. \A n \in Cyclic : n \in Nodes /\ Caught(n)
    BY <1>1, <1>2 DEF CycleDone, Cyclic
  <1>4. ASSUME NEW n \in Cyclic
        PROVE  \E c \in found : \A i \in DOMAIN c : c[i] \in Reach(deps)[n] /\ n \in Reach(deps)[c[i]]
    <2>1. PICK c \in found : \A i \in DOMAIN c : c[i] \in From(n) /\ n \in From(c[i])
      BY <1>3, <1>4 DEF Caught
    <2>2. \A k \in Nodes : Reach(deps)[k] = From(k)
      BY DEF Reach, From
    <2>3. n \in Nodes /\ From(n) \subseteq Nodes
      BY <1>3, <1>4 DEF From, Reached
    <2> QED
      BY <2>1, <2>2, <2>3
  <1> QED
    BY <1>1, <1>4 DEF CycleReal, CyclesFound

-----------------------------------------------------------------------------
(* All queries. *)

\* What is common to all: the types; of calls there are never more than nodes.
Sound == /\ visited \subseteq Nodes /\ nodes \subseteq Nodes /\ edges \subseteq Pairs /\ frontier \subseteq Nodes
         /\ half \in {"up", "down"}

IInv == QueryOK /\ Sound /\ BfsInv /\ PathInv /\ WalkInv /\ CycleInv

\* An invariant of one query is one of the others.
LEMMA OtherQueries ==
  ASSUME op' = op
  PROVE  /\ op # "bfs" => BfsInv'
         /\ op # "path" => PathInv'
         /\ op \notin Recursive => WalkInv'
         /\ op # "cycles" => CycleInv'
  BY DEF BfsInv, PathInv, WalkInv, CycleInv, Recursive

LEMMA SoundInit == Init => Sound
  BY DEF Init, Sound

LEMMA SoundNext ==
  ASSUME IInv, Next, QueryOK', BfsInv', PathInv', WalkInv', CycleInv', UNCHANGED query
  PROVE  Sound'
  <1>1. op' = op /\ Sound /\ QueryOK
    BY DEF query, IInv
  <1>2. CASE Bfs
    BY <1>1, <1>2 DEF Bfs, BfsInv, BfsTypes, Sound
  <1>3. CASE Path
    BY <1>1, <1>3 DEF Path, PathInv, PathTypes, Sound
  <1>4. CASE Return
    BY <1>1, <1>4 DEF Return, Sound
  <1>5. CASE Visit \/ Descend
    <2>1. op \in Recursive
      BY <1>5 DEF Visit, Descend, Recursive
    <2>2. WalkTypes' /\ QueryOK'
      BY <1>1, <2>1 DEF WalkInv
    <2> QED
      BY <2>2 DEF WalkTypes, QueryOK, Found, Sound
  <1>6. CASE NextRoot
    BY <1>1, <1>6 DEF NextRoot, Sound
  <1>7. CASE Dependency
    BY <1>1, <1>7 DEF Dependency, CycleInv, CycleTypes, Sound
  <1> QED
    BY <1>2, <1>3, <1>4, <1>5, <1>6, <1>7 DEF Next

LEMMA IInvInit == Init => IInv
  BY QueryInit, SoundInit, BfsInit, PathInit, WalkInit, CycleInit DEF IInv

LEMMA IInvNext ==
  ASSUME IInv, [Next]_vars
  PROVE  IInv'
  <1>1. QueryOK /\ BfsInv /\ PathInv /\ WalkInv /\ CycleInv
    BY DEF IInv
  <1>2. CASE UNCHANGED vars
    <2>1. /\ UNCHANGED query /\ work' = work /\ visited' = visited /\ nodes' = nodes /\ edges' = edges
          /\ half' = half /\ frontier' = frontier /\ found' = found
      BY <1>2 DEF vars
    <2>2. /\ op' = op /\ deps' = deps /\ from' = from /\ to' = to /\ maxDepth' = maxDepth /\ limit' = limit
      BY <2>1 DEF query
    <2>3. QueryOK' /\ Followed' = Followed /\ Contained' = Contained /\ Ball' = Ball /\ Closure' = Closure
      BY <1>1, <2>1, QueryStays
    <2>4. BfsInv'
      BY <1>1, <2>1, <2>2, <2>3
         DEF BfsInv, BfsTypes, BfsStarted, BfsNodes, BfsNear, Rising, BfsGoesOn, BfsTree, Steps, Sources, Targets
    <2>5. PathInv'
      BY <1>1, <2>1, <2>2, <2>3
         DEF PathInv, PathTypes, PathStarted, PathGoesOn, PathAnswer, Trails, IsWalk, Rising, Targets
    <2>6. WalkInv'
      BY <1>1, <2>1, <2>2, <2>3
         DEF WalkInv, WalkTypes, WalkStack, WalkNear, WalkGoesOn, WalkEntered, WalkEdges, Excused, Found, Height,
             Kids, Sources, Targets
    <2>7. CycleInv'
      <3>1. (\A n : From(n)' = From(n) /\ Caught(n)' = Caught(n)) /\ Cyclic' = Cyclic
        BY <2>1, <2>2 DEF From, Caught, Cyclic
      <3> QED
        BY <1>1, <2>1, <2>2, <3>1
           DEF CycleInv, CycleTypes, CycleApart, CyclePath, CycleReal, CycleDone, CycleStack, Height, OnStack, Targets
    <2> QED
      BY <1>1, <2>1, <2>3, <2>4, <2>5, <2>6, <2>7 DEF IInv, Sound
  <1>3. CASE Next
    <2>1. UNCHANGED query
      BY <1>3 DEF Next, Bfs, Path, Return, Visit, Descend, NextRoot, Dependency
    <2>2. QueryOK' /\ op' = op
      BY <1>1, <2>1, QueryStays DEF query
    <2>3. BfsInv' /\ PathInv' /\ WalkInv' /\ CycleInv'
      <3>1. CASE Bfs
        BY <1>1, <2>2, <3>1, BfsKept, OtherQueries DEF Bfs, Recursive
      <3>2. CASE Path
        BY <1>1, <2>2, <3>2, PathKept, OtherQueries DEF Path, Recursive
      <3>3. CASE Return /\ op \in Recursive
        BY <1>1, <2>2, <3>3, WalkReturn, OtherQueries DEF Recursive
      <3>4. CASE Return /\ op = "cycles"
        BY <1>1, <2>2, <3>4, CycleReturn, OtherQueries DEF Recursive
      <3>5. CASE Visit
        BY <1>1, <2>2, <3>5, WalkVisit, OtherQueries DEF Visit, Recursive
      <3>6. CASE Descend
        BY <1>1, <2>2, <3>6, WalkDescend, OtherQueries DEF Descend, Recursive
      <3>7. CASE NextRoot
        BY <1>1, <2>2, <3>7, CycleNextRoot, OtherQueries DEF NextRoot, Recursive
      <3>8. CASE Dependency
        BY <1>1, <2>2, <3>8, CycleDependency, OtherQueries DEF Dependency, Recursive
      <3>9. Return => op \in Recursive \/ op = "cycles"
        BY DEF Return
      <3> QED
        BY <1>3, <3>1, <3>2, <3>3, <3>4, <3>5, <3>6, <3>7, <3>8, <3>9 DEF Next
    <2>4. Sound'
      BY <1>3, <2>1, <2>2, <2>3, SoundNext
    <2> QED
      BY <2>2, <2>3, <2>4 DEF IInv
  <1> QED
    BY <1>2, <1>3

LEMMA IInvTypes == IInv => TypeOK
  <1> SUFFICES ASSUME IInv PROVE TypeOK
    OBVIOUS
  <1>1. QueryOK /\ Sound /\ WalkInv /\ CycleInv
    BY DEF IInv
  <1>2. ASSUME op \in Recursive \cup {"cycles"} PROVE Len(work) <= Cardinality(Nodes)
    <2>1. Nodes \in SUBSET Nodes
      OBVIOUS
    <2>2. /\ work \in Seq(Frames)
          /\ \A i, j \in Height : work[i].node = work[j].node => i = j
      <3>1. CASE op \in Recursive
        BY <1>1, <3>1 DEF WalkInv, WalkTypes, WalkStack
      <3>2. CASE op = "cycles"
        BY <1>1, <3>2 DEF CycleInv, CycleTypes, CycleApart
      <3> QED
        BY <1>2, <3>1, <3>2
    <2>3. \A i \in Height : work[i].node \in Nodes
      <3>1. \A i \in Height : work[i] \in Frames
        BY <2>2 DEF Height
      <3> QED
        BY <3>1 DEF Frames
    <2> QED
      BY <2>1, <2>2, <2>3, Apart
  <1> QED
    BY <1>1, <1>2 DEF TypeOK, QueryOK, Sound, Pairs

\* The invariants above, for every graph, order of edges, depth and limit.
THEOREM Invariance == Spec => []IInv
  BY IInvInit, IInvNext, PTL DEF Spec

\* What a query holds is of its type, and no recursion is deeper than the graph has nodes.
THEOREM TypeCorrect == Spec => []TypeOK
  BY Invariance, IInvTypes, PTL

\* traverseBFS answers with what is at most maxDepth steps away, all of it unless the limit is met, as a tree.
THEOREM BreadthFirstIsExact == Spec => []BfsExact
  <1>1. IInv => BfsExact
    BY BfsEnds DEF IInv
  <1> QED
    BY <1>1, Invariance, PTL

\* findPath returns a shortest path, and none only if there is none.
THEOREM PathIsShortest == Spec => []PathShortest
  <1>1. IInv => PathShortest
    BY PathEnds DEF IInv
  <1> QED
    BY <1>1, Invariance, PTL

\* The recursive searches return nothing too far, and all there is at depth 1, without a limit that is met, or up the
\* type hierarchy.
THEOREM WalksAreExact == Spec => []WalkExact
  <1>1. IInv => WalkExact
    BY WalkEnds DEF IInv
  <1> QED
    BY <1>1, Invariance, PTL

\* getImpactRadius says that there is more if there is.
THEOREM ImpactIsHonest == Spec => []ImpactHonest
  <1>1. IInv => ImpactHonest
    BY WalkEnds DEF IInv
  <1> QED
    BY <1>1, Invariance, PTL

\* findCircularDependencies finds cycles, and for every file on a cycle one among the files that it is on a cycle with.
THEOREM CyclesAreFound == Spec => []CyclesFound
  <1>1. IInv => CyclesFound
    BY CycleEnds DEF IInv
  <1> QED
    BY <1>1, Invariance, PTL
=============================================================================
