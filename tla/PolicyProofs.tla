---------------------------- MODULE PolicyProofs ----------------------------
(***************************************************************************)
(* Theorems about conditions of any depth, over any facts.                 *)
(*                                                                         *)
(* Evaluate is a recursive function on Conditions.  That the recursion     *)
(* comes to an end is what ConditionsAssumption says of Levels: the parts  *)
(* of a condition are on lower levels.  From it the equations are derived  *)
(* that the code states as recursive calls (EvaluateUnfolds,               *)
(* ComparisonsUnfold), and from the equations the rest, by induction on    *)
(* the level.                                                              *)
(***************************************************************************)
EXTENDS Policy, FiniteSetTheorems, TLAPS

-----------------------------------------------------------------------------
(***************************************************************************)
(* Induction, for sets.  The library's induction theorems take a predicate *)
(* as a parameter, and no prover at hand can instantiate one.  A set of    *)
(* numbers says the same without, and the finite sets' well-founded        *)
(* ordering gives it: of the intervals 0..n whose n is not in S, take a    *)
(* smallest one.                                                           *)
(***************************************************************************)
LEMMA StrictSubsetIn ==
    ASSUME NEW U, NEW a, NEW b,
           a \in FiniteSubsetsOf(U), b \in FiniteSubsetsOf(U), a \subseteq b, a # b
    PROVE  <<a, b>> \in StrictSubsetOrdering(U)
    BY DEF StrictSubsetOrdering, FiniteSubsetsOf

LEMMA NatSetInduction ==
    ASSUME NEW S, \A n \in Nat : (\A m \in Nat : m < n => m \in S) => n \in S
    PROVE  Nat \subseteq S
<1> DEFINE T == {0..n : n \in Nat \ S}
           R == StrictSubsetOrdering(Nat)
<1> SUFFICES ASSUME NEW k \in Nat \ S PROVE FALSE
  OBVIOUS
<1>1. IsWellFoundedOn(R, FiniteSubsetsOf(Nat))
  BY FS_StrictSubsetOrderingWellFounded
<1>2. \A n \in Nat : 0..n \in FiniteSubsetsOf(Nat)
  BY FS_Interval DEF FiniteSubsetsOf
<1>3. T \subseteq FiniteSubsetsOf(Nat) /\ T # {}
  BY <1>2
<1> HIDE DEF T, R
<1>4. PICK x \in T : \A y \in T : ~(<<y, x>> \in R)
  BY <1>1, <1>3, WFMin
<1>5. PICK n \in Nat \ S : x = 0..n
  BY <1>4 DEF T
<1>6. PICK m \in Nat : m < n /\ m \notin S
  BY <1>5
<1>7. 0..m \in T
  BY <1>6 DEF T
<1>8. 0..m \subseteq 0..n /\ 0..m # 0..n
  BY <1>5, <1>6
<1>9. <<0..m, x>> \in R
  BY <1>2, <1>5, <1>6, <1>8, StrictSubsetIn DEF R
<1> QED
  BY <1>4, <1>7, <1>9
\* A set of numbers that is not empty has a smallest one.
LEMMA SmallestExists ==
    ASSUME NEW M \in SUBSET Nat, M # {}
    PROVE  \E n \in M : \A m \in M : n <= m
<1> SUFFICES ASSUME \A n \in M : \E m \in M : ~(n <= m) PROVE FALSE
  OBVIOUS
<1> DEFINE S == Nat \ M
<1>1. \A n \in Nat : (\A m \in Nat : m < n => m \in S) => n \in S
  OBVIOUS
<1> HIDE DEF S
<1>2. Nat \subseteq S
  BY <1>1, NatSetInduction
<1> QED
  BY <1>2 DEF S

\* The same along a rank, for a set D of things that have one.
LEMMA RankInduction ==
    ASSUME NEW D, NEW rank \in [D -> Nat], NEW G,
           \A c \in D : (\A d \in D : rank[d] < rank[c] => d \in G) => c \in G
    PROVE  D \subseteq G
<1> DEFINE S == {n \in Nat : \A c \in D : rank[c] = n => c \in G}
<1>1. \A n \in Nat : (\A m \in Nat : m < n => m \in S) => n \in S
  OBVIOUS
<1> HIDE DEF S
<1>2. Nat \subseteq S
  BY <1>1, NatSetInduction
<1> QED
  BY <1>2 DEF S

-----------------------------------------------------------------------------
(***************************************************************************)
(* Recursion.  F[c][a] is what a recursive definition gives for c when a   *)
(* answers the recursive calls.  If only lower ranks are ever asked, some  *)
(* g answers for all: for each n one that is right below n, and two such   *)
(* agree wherever both are right.                                          *)
(***************************************************************************)
RightBelow(n, g, D, rank, F) == \A c \in D : rank[c] < n => g[c] = F[c][g]

Recursion(D, V, rank, F) ==
    /\ V # {}
    /\ rank \in [D -> Nat]
    /\ F \in [D -> [[D -> V] -> V]]
    /\ \A c \in D : \A a, b \in [D -> V] :
          (\A d \in D : rank[d] < rank[c] => a[d] = b[d]) => F[c][a] = F[c][b]

LEMMA RightBelowExists ==
    ASSUME NEW D, NEW V, NEW rank, NEW F, Recursion(D, V, rank, F)
    PROVE  \A n \in Nat : \E g \in [D -> V] : RightBelow(n, g, D, rank, F)
<1> DEFINE S == {n \in Nat : \E g \in [D -> V] : RightBelow(n, g, D, rank, F)}
<1> USE DEF Recursion
<1>1. ASSUME NEW n \in Nat, \A m \in Nat : m < n => m \in S PROVE n \in S
  <2>1. CASE n = 0
    <3>1. PICK v \in V : TRUE
      OBVIOUS
    <3>2. [c \in D |-> v] \in [D -> V] /\ RightBelow(0, [c \in D |-> v], D, rank, F)
      BY DEF RightBelow
    <3> QED
      BY <2>1, <3>2
  <2>2. CASE n # 0
    <3>1. n - 1 \in Nat /\ n - 1 < n
      BY <2>2
    <3>2. PICK g \in [D -> V] : RightBelow(n - 1, g, D, rank, F)
      BY <1>1, <3>1
    <3> DEFINE h == [c \in D |-> IF rank[c] < n - 1 THEN g[c] ELSE F[c][g]]
    <3>3. h \in [D -> V]
      OBVIOUS
    <3>4. ASSUME NEW c \in D, rank[c] < n PROVE h[c] = F[c][h]
      <4>1. \A d \in D : rank[d] < rank[c] => g[d] = h[d]
        BY <3>1, <3>4
      <4>2. F[c][g] = F[c][h]
        BY <3>3, <4>1
      <4>3. h[c] = F[c][g]
        BY <3>2 DEF RightBelow
      <4> QED
        BY <4>2, <4>3
    <3>5. RightBelow(n, h, D, rank, F)
      BY <3>4 DEF RightBelow
    <3> QED
      BY <3>3, <3>5
  <2> QED
    BY <2>1, <2>2
<1> HIDE DEF S
<1>2. Nat \subseteq S
  BY <1>1, NatSetInduction
<1> QED
  BY <1>2 DEF S

LEMMA RightBelowAgree ==
    ASSUME NEW D, NEW V, NEW rank, NEW F, Recursion(D, V, rank, F)
    PROVE  \A n, m \in Nat : \A g, h \in [D -> V] :
              RightBelow(n, g, D, rank, F) /\ RightBelow(m, h, D, rank, F)
                 => \A c \in D : rank[c] < n /\ rank[c] < m => g[c] = h[c]
<1> SUFFICES ASSUME NEW n \in Nat, NEW g \in [D -> V], RightBelow(n, g, D, rank, F),
                    NEW m \in Nat, NEW h \in [D -> V], RightBelow(m, h, D, rank, F)
             PROVE  \A c \in D : rank[c] < n /\ rank[c] < m => g[c] = h[c]
  OBVIOUS
<1> DEFINE G == {c \in D : rank[c] < n /\ rank[c] < m => g[c] = h[c]}
<1> USE DEF Recursion
<1>1. ASSUME NEW c \in D, \A d \in D : rank[d] < rank[c] => d \in G PROVE c \in G
  <2> SUFFICES ASSUME rank[c] < n, rank[c] < m PROVE g[c] = h[c]
    OBVIOUS
  <2>1. \A d \in D : rank[d] < rank[c] => g[d] = h[d]
    BY <1>1
  <2>2. F[c][g] = F[c][h]
    BY <2>1
  <2> QED
    BY <2>2 DEF RightBelow
<1> HIDE DEF G
<1>2. D \subseteq G
  BY <1>1, RankInduction
<1> QED
  BY <1>2 DEF G

LEMMA RecursionEnds ==
    ASSUME NEW D, NEW V, NEW rank, NEW F, Recursion(D, V, rank, F)
    PROVE  \E g \in [D -> V] : \A c \in D : g[c] = F[c][g]
<1> DEFINE Up(c) == CHOOSE g \in [D -> V] : RightBelow(rank[c] + 1, g, D, rank, F)
           all   == [c \in D |-> Up(c)[c]]
<1>1. ASSUME NEW c \in D PROVE Up(c) \in [D -> V] /\ RightBelow(rank[c] + 1, Up(c), D, rank, F)
  <2>1. rank[c] + 1 \in Nat
    BY DEF Recursion
  <2>2. \E g \in [D -> V] : RightBelow(rank[c] + 1, g, D, rank, F)
    BY <2>1, RightBelowExists
  <2> QED
    BY <2>2
<1> HIDE DEF Up
<1>2. all \in [D -> V]
  BY <1>1
<1>3. ASSUME NEW c \in D PROVE all[c] = F[c][all]
  <2>1. ASSUME NEW d \in D, rank[d] < rank[c] PROVE Up(c)[d] = all[d]
    <3>1. rank[c] + 1 \in Nat /\ rank[d] + 1 \in Nat
          /\ rank[d] < rank[c] + 1 /\ rank[d] < rank[d] + 1
      BY <2>1 DEF Recursion
    <3>2. \A e \in D : rank[e] < rank[c] + 1 /\ rank[e] < rank[d] + 1 => Up(c)[e] = Up(d)[e]
      BY <1>1, <3>1, RightBelowAgree
    <3> QED
      BY <3>1, <3>2
  <2>2. F[c][Up(c)] = F[c][all]
    BY <1>1, <1>2, <2>1 DEF Recursion
  <2>3. Up(c)[c] = F[c][Up(c)]
    BY <1>1 DEF RightBelow, Recursion
  <2> QED
    BY <2>2, <2>3
<1> QED
  BY <1>2, <1>3

-----------------------------------------------------------------------------
\* Conditions: the lowest level one is on, and where its parts are.
Rank == [c \in Conditions |-> CHOOSE n \in DOMAIN Levels :
            c \in Levels[n] /\ \A m \in DOMAIN Levels : c \in Levels[m] => n <= m]

LEMMA RankIsLowest ==
    /\ Rank \in [Conditions -> Nat]
    /\ \A c \in Conditions :
          /\ Rank[c] \in DOMAIN Levels /\ c \in Levels[Rank[c]]
          /\ \A m \in DOMAIN Levels : c \in Levels[m] => Rank[c] <= m
<1>1. ASSUME NEW c \in Conditions
      PROVE  \E n \in DOMAIN Levels :
                c \in Levels[n] /\ \A m \in DOMAIN Levels : c \in Levels[m] => n <= m
  <2> DEFINE M == {n \in DOMAIN Levels : c \in Levels[n]}
  <2>1. M \in SUBSET Nat /\ M # {}
    BY ConditionsAssumption DEF ConditionsAssumption, Conditions
  <2>2. \E n \in M : \A m \in M : n <= m
    <3> HIDE DEF M
    <3> QED
      BY <2>1, SmallestExists
  <2> QED
    BY <2>2
<1>2. ASSUME NEW c \in Conditions
      PROVE  /\ Rank[c] \in DOMAIN Levels /\ c \in Levels[Rank[c]]
             /\ \A m \in DOMAIN Levels : c \in Levels[m] => Rank[c] <= m
  BY <1>1 DEF Rank
<1>3. DOMAIN Levels \subseteq Nat
  BY ConditionsAssumption DEF ConditionsAssumption
<1>4. Rank = [c \in Conditions |-> Rank[c]]
  BY DEF Rank
<1> QED
  BY <1>2, <1>3, <1>4

\* What schema.py makes sure of, without the levels: a group has parts, "not"
\* has one, and recursing into the parts goes down.
LEMMA ConditionForm ==
    ASSUME NEW c \in Conditions
    PROVE  /\ c.kind \in {"comparison", "all", "any", "not"}
           /\ c.kind = "comparison" =>
                 /\ c.fact \in FactNames
                 /\ c.op \in Ops
                 /\ c.op \in Orders => IsNumber(c.value)
                 /\ c.op = "in" => c.value[1] = "list"
           /\ c.kind # "comparison" =>
                 /\ c.parts # {} /\ c.parts \subseteq Conditions
                 /\ \A part \in c.parts : Rank[part] < Rank[c]
           /\ c.kind = "not" => \E part \in Conditions : c.parts = {part}
<1>1. Rank[c] \in DOMAIN Levels /\ c \in Levels[Rank[c]]
  BY RankIsLowest
<1>2. Under(Rank[c]) \subseteq Conditions
  BY DEF Under, Conditions
<1>3. \A part \in Under(Rank[c]) : Rank[part] < Rank[c]
  <2> SUFFICES ASSUME NEW part \in Under(Rank[c]) PROVE Rank[part] < Rank[c]
    OBVIOUS
  <2>1. PICK m \in DOMAIN Levels : m < Rank[c] /\ part \in Levels[m]
    BY DEF Under
  <2>2. Rank[part] <= m /\ Rank[part] \in Nat /\ Rank[c] \in Nat /\ m \in Nat
    BY <1>2, <2>1, RankIsLowest, ConditionsAssumption DEF ConditionsAssumption
  <2> QED
    BY <2>1, <2>2
<1> QED
  BY <1>1, <1>2, <1>3, ConditionsAssumption DEF ConditionsAssumption

-----------------------------------------------------------------------------
\* One step of a recursion over conditions, of Evaluate and of Comparisons.
AnswerFrom(a, c, f) ==
    IF c.kind = "comparison"
    THEN IF f[c.fact] = Missing
         THEN "unknown"
         ELSE Compare(c.op, f[c.fact], c.value)
    ELSE Combine(c.kind, {a[part] : part \in c.parts})

ComparisonsFrom(a, c) ==
    IF c.kind = "comparison" THEN {c} ELSE UNION {a[part] : part \in c.parts}

\* Comparing and combining give an answer, always.
LEMMA AnswerFromType ==
    ASSUME NEW c \in Conditions, NEW a, NEW f
    PROVE  AnswerFrom(a, c, f) \in Tri
<1>1. ASSUME c.kind = "comparison", NEW v PROVE Compare(c.op, v, c.value) \in Tri
  <2>1. c.op \in Ops
    BY <1>1, ConditionForm
  <2>2. \A b : Truth(b) \in Tri
    BY DEF Truth, Tri
  <2> QED
    BY <2>1, <2>2 DEF Compare, Ops, Orders, Tri
<1>2. ASSUME c.kind # "comparison", NEW answers PROVE Combine(c.kind, answers) \in Tri
  <2>1. c.kind \in {"all", "any", "not"}
    BY <1>2, ConditionForm
  <2> QED
    BY <2>1 DEF Combine, Tri
<1> QED
  BY <1>1, <1>2 DEF AnswerFrom, Tri

\* evaluate() is what its recursive calls say it is (rules/evaluate.py:34-52).
LEMMA EvaluateUnfolds ==
    ASSUME NEW f
    PROVE  \A c \in Conditions :
              /\ Evaluate(c, f) \in Tri
              /\ Evaluate(c, f) =
                    IF c.kind = "comparison"
                    THEN IF f[c.fact] = Missing
                         THEN "unknown"
                         ELSE Compare(c.op, f[c.fact], c.value)
                    ELSE Combine(c.kind, {Evaluate(part, f) : part \in c.parts})
<1> DEFINE F == [c \in Conditions |-> [a \in [Conditions -> Tri] |-> AnswerFrom(a, c, f)]]
           A == CHOOSE a : a = [c \in Conditions |-> AnswerFrom(a, c, f)]
<1>1. Recursion(Conditions, Tri, Rank, F)
  <2>1. Tri # {}
    BY DEF Tri
  <2>2. F \in [Conditions -> [[Conditions -> Tri] -> Tri]]
    BY AnswerFromType
  <2>3. ASSUME NEW c \in Conditions, NEW a \in [Conditions -> Tri], NEW b \in [Conditions -> Tri],
               \A d \in Conditions : Rank[d] < Rank[c] => a[d] = b[d]
        PROVE  F[c][a] = F[c][b]
    <3>1. CASE c.kind = "comparison"
      BY <3>1 DEF AnswerFrom
    <3>2. CASE c.kind # "comparison"
      <4>1. \A part \in c.parts : a[part] = b[part]
        BY <2>3, <3>2, ConditionForm
      <4>2. {a[part] : part \in c.parts} = {b[part] : part \in c.parts}
        BY <4>1
      <4> QED
        BY <4>2 DEF AnswerFrom
    <3> QED
      BY <3>1, <3>2
  <2> HIDE DEF F
  <2> QED
    BY <2>1, <2>2, <2>3, RankIsLowest DEF Recursion
<1>2. PICK g \in [Conditions -> Tri] : \A c \in Conditions : g[c] = F[c][g]
  <2> HIDE DEF F
  <2> QED
    BY <1>1, RecursionEnds
<1>3. g = [c \in Conditions |-> AnswerFrom(g, c, f)]
  BY <1>2
<1>4. A = [c \in Conditions |-> AnswerFrom(A, c, f)]
  BY <1>3
<1>5. \A c \in Conditions : Evaluate(c, f) = A[c]
  BY Zenon DEF Evaluate, AnswerFrom
<1> HIDE DEF A, F
<1>6. ASSUME NEW c \in Conditions PROVE Evaluate(c, f) = AnswerFrom(A, c, f)
  BY <1>4, <1>5
<1>7. ASSUME NEW c \in Conditions, c.kind # "comparison"
      PROVE  {A[part] : part \in c.parts} = {Evaluate(part, f) : part \in c.parts}
  <2>1. c.parts \subseteq Conditions
    BY <1>7, ConditionForm
  <2> QED
    BY <1>5, <2>1
<1> SUFFICES ASSUME NEW c \in Conditions
             PROVE  /\ Evaluate(c, f) \in Tri
                    /\ Evaluate(c, f) =
                          IF c.kind = "comparison"
                          THEN IF f[c.fact] = Missing
                               THEN "unknown"
                               ELSE Compare(c.op, f[c.fact], c.value)
                          ELSE Combine(c.kind, {Evaluate(part, f) : part \in c.parts})
  OBVIOUS
<1>8. Evaluate(c, f) \in Tri
  BY <1>6, AnswerFromType
<1>9. CASE c.kind = "comparison"
  BY <1>6, <1>8, <1>9 DEF AnswerFrom
<1>10. CASE c.kind # "comparison"
  BY <1>6, <1>7, <1>8, <1>10 DEF AnswerFrom
<1> QED
  BY <1>9, <1>10

\* So is facts_used (rules/schema.py:54-68).
LEMMA ComparisonsUnfold ==
    \A c \in Conditions :
       /\ Comparisons(c) \subseteq Conditions
       /\ Comparisons(c) = IF c.kind = "comparison"
                           THEN {c}
                           ELSE UNION {Comparisons(part) : part \in c.parts}
<1> DEFINE V == SUBSET Conditions
           F == [c \in Conditions |-> [a \in [Conditions -> V] |-> ComparisonsFrom(a, c)]]
           A == CHOOSE a : a = [c \in Conditions |-> ComparisonsFrom(a, c)]
<1>1. Recursion(Conditions, V, Rank, F)
  <2>1. ASSUME NEW c \in Conditions, NEW a \in [Conditions -> V]
        PROVE  ComparisonsFrom(a, c) \in V
    BY ConditionForm DEF ComparisonsFrom
  <2>2. F \in [Conditions -> [[Conditions -> V] -> V]]
    <3> HIDE DEF V
    <3> QED
      BY <2>1
  <2>3. ASSUME NEW c \in Conditions, NEW a \in [Conditions -> V], NEW b \in [Conditions -> V],
               \A d \in Conditions : Rank[d] < Rank[c] => a[d] = b[d]
        PROVE  F[c][a] = F[c][b]
    <3> HIDE DEF V
    <3>1. CASE c.kind = "comparison"
      BY <3>1 DEF ComparisonsFrom
    <3>2. CASE c.kind # "comparison"
      <4>1. \A part \in c.parts : a[part] = b[part]
        BY <2>3, <3>2, ConditionForm
      <4>2. {a[part] : part \in c.parts} = {b[part] : part \in c.parts}
        BY <4>1
      <4> QED
        BY <4>2 DEF ComparisonsFrom
    <3> QED
      BY <3>1, <3>2
  <2>4. V # {}
    OBVIOUS
  <2> HIDE DEF F, V
  <2> QED
    BY <2>2, <2>3, <2>4, RankIsLowest DEF Recursion
<1>2. PICK g \in [Conditions -> V] : \A c \in Conditions : g[c] = F[c][g]
  <2> HIDE DEF F, V
  <2> QED
    BY <1>1, RecursionEnds
<1> HIDE DEF V
<1>3. g = [c \in Conditions |-> ComparisonsFrom(g, c)]
  BY <1>2
<1>4. A = [c \in Conditions |-> ComparisonsFrom(A, c)]
  BY <1>3
<1>5. \A c \in Conditions : Comparisons(c) = A[c]
  BY Zenon DEF Comparisons, ComparisonsFrom
<1> HIDE DEF A, F
<1>6. ASSUME NEW c \in Conditions PROVE Comparisons(c) = ComparisonsFrom(A, c)
  BY <1>4, <1>5
<1>7. ASSUME NEW c \in Conditions, c.kind # "comparison"
      PROVE  {A[part] : part \in c.parts} = {Comparisons(part) : part \in c.parts}
  <2>1. c.parts \subseteq Conditions
    BY <1>7, ConditionForm
  <2> QED
    BY <1>5, <2>1
<1>8. ASSUME NEW c \in Conditions
      PROVE  Comparisons(c) = IF c.kind = "comparison"
                              THEN {c}
                              ELSE UNION {Comparisons(part) : part \in c.parts}
  <2>1. CASE c.kind = "comparison"
    BY <1>6, <2>1 DEF ComparisonsFrom
  <2>2. CASE c.kind # "comparison"
    BY <1>6, <1>7, <2>2 DEF ComparisonsFrom
  <2> QED
    BY <2>1, <2>2
<1> DEFINE G == {c \in Conditions : Comparisons(c) \subseteq Conditions}
<1>9. ASSUME NEW c \in Conditions, \A d \in Conditions : Rank[d] < Rank[c] => d \in G
      PROVE  c \in G
  <2>1. CASE c.kind = "comparison"
    BY <1>8, <2>1
  <2>2. CASE c.kind # "comparison"
    <3>1. \A part \in c.parts : part \in G
      BY <1>9, <2>2, ConditionForm
    <3> QED
      BY <1>8, <2>2, <3>1
  <2> QED
    BY <2>1, <2>2
<1>10. Conditions \subseteq G
  <2> HIDE DEF G
  <2> QED
    BY <1>9, RankInduction, RankIsLowest
<1> QED
  BY <1>8, <1>10

-----------------------------------------------------------------------------
\* The answer of a group stands when the answers of its parts do.
LEMMA CombineStands ==
    ASSUME NEW c \in Conditions, c.kind # "comparison", NEW f, NEW g,
           \A part \in c.parts :
              Evaluate(part, f) # "unknown" => Evaluate(part, g) = Evaluate(part, f),
           Evaluate(c, f) # "unknown"
    PROVE  Evaluate(c, g) = Evaluate(c, f)
<1> DEFINE Before == {Evaluate(part, f) : part \in c.parts}
           After  == {Evaluate(part, g) : part \in c.parts}
<1>1. Evaluate(c, f) = Combine(c.kind, Before) /\ Evaluate(c, g) = Combine(c.kind, After)
  BY EvaluateUnfolds
<1>2. \A answer \in Before : answer # "unknown" => answer \in After
  OBVIOUS
<1>3. "unknown" \notin Before => After = Before
  OBVIOUS
<1> HIDE DEF Before, After
<1>4. c.kind \in {"all", "any", "not"}
  BY ConditionForm
<1>5. CASE c.kind = "all"
  <2>1. "false" \in Before \/ "unknown" \notin Before
    BY <1>1, <1>5 DEF Combine
  <2> QED
    BY <1>1, <1>2, <1>3, <1>5, <2>1 DEF Combine
<1>6. CASE c.kind = "any"
  <2>1. "true" \in Before \/ "unknown" \notin Before
    BY <1>1, <1>6 DEF Combine
  <2> QED
    BY <1>1, <1>2, <1>3, <1>6, <2>1 DEF Combine
<1>7. CASE c.kind = "not"
  <2>1. "unknown" \notin Before
    BY <1>1, <1>7 DEF Combine
  <2> QED
    BY <1>1, <1>3, <2>1
<1> QED
  BY <1>4, <1>5, <1>6, <1>7

\* An answer that was given is never taken back: whatever more becomes known,
\* a condition that was true or false stays so, however deep it is nested
\* (rules/evaluate.py:6-10).
THEOREM AnswersStand ==
    ASSUME NEW f, NEW g, KnowsMore(g, f)
    PROVE  \A c \in Conditions :
              Evaluate(c, f) # "unknown" => Evaluate(c, g) = Evaluate(c, f)
<1> DEFINE G == {c \in Conditions :
                    Evaluate(c, f) # "unknown" => Evaluate(c, g) = Evaluate(c, f)}
<1>1. ASSUME NEW c \in Conditions, \A d \in Conditions : Rank[d] < Rank[c] => d \in G
      PROVE  c \in G
  <2> SUFFICES ASSUME Evaluate(c, f) # "unknown" PROVE Evaluate(c, g) = Evaluate(c, f)
    OBVIOUS
  <2>1. CASE c.kind = "comparison"
    <3>1. f[c.fact] # Missing /\ c.fact \in FactNames
      BY <2>1, EvaluateUnfolds, ConditionForm
    <3>2. g[c.fact] = f[c.fact]
      BY <3>1 DEF KnowsMore
    <3> QED
      BY <2>1, <3>1, <3>2, EvaluateUnfolds
  <2>2. CASE c.kind # "comparison"
    <3>1. \A part \in c.parts :
             Evaluate(part, f) # "unknown" => Evaluate(part, g) = Evaluate(part, f)
      BY <1>1, <2>2, ConditionForm
    <3> QED
      BY <2>2, <3>1, CombineStands
  <2> QED
    BY <2>1, <2>2
<1> HIDE DEF G
<1>2. Conditions \subseteq G
  BY <1>1, RankInduction, RankIsLowest
<1> QED
  BY <1>2 DEF G

\* What the gate and the proposer rely on (RulesetAssumption) is so of every
\* rule, whatever its condition: it needs known facts only, it answers, and
\* its answer stands.
THEOREM RulesAnswer ==
    ASSUME NEW id, NEW version, NEW condition \in Conditions, NEW outcome, NEW hours,
           NEW rule, rule = Rule(id, version, condition, outcome, hours)
    PROVE  /\ rule.requires \subseteq FactNames
           /\ \A f : /\ EvaluateRule(rule, f) \in {"true", "false", "unknown"}
                     /\ \A g : KnowsMore(g, f) =>
                           \/ EvaluateRule(rule, f) = "unknown"
                           \/ EvaluateRule(rule, g) = EvaluateRule(rule, f)
<1>1. rule.condition = condition /\ rule.requires = FactsUsed(condition)
  BY DEF Rule
<1> DEFINE G == {c \in Conditions : \A d \in Comparisons(c) : d.fact \in FactNames}
<1>2. ASSUME NEW c \in Conditions, \A d \in Conditions : Rank[d] < Rank[c] => d \in G
      PROVE  c \in G
  <2>1. CASE c.kind = "comparison"
    BY <2>1, ConditionForm, ComparisonsUnfold
  <2>2. CASE c.kind # "comparison"
    <3>1. \A part \in c.parts : part \in G
      BY <1>2, <2>2, ConditionForm
    <3> QED
      BY <2>2, <3>1, ComparisonsUnfold
  <2> QED
    BY <2>1, <2>2
<1>3. condition \in G
  <2> HIDE DEF G
  <2>1. Conditions \subseteq G
    BY <1>2, RankInduction, RankIsLowest
  <2> QED
    BY <2>1
<1>4. rule.requires \subseteq FactNames
  BY <1>1, <1>3 DEF FactsUsed
<1>5. \A f : EvaluateRule(rule, f) = Evaluate(condition, f)
  BY <1>1 DEF EvaluateRule
<1>6. \A f : Evaluate(condition, f) \in Tri
  BY EvaluateUnfolds
<1>7. \A f, g : KnowsMore(g, f) /\ Evaluate(condition, f) # "unknown"
                   => Evaluate(condition, g) = Evaluate(condition, f)
  BY AnswersStand
<1> QED
  BY <1>4, <1>5, <1>6, <1>7 DEF Tri

=============================================================================
