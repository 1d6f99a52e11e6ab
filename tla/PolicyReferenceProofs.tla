------------------------ MODULE PolicyReferenceProofs -----------------------
(***************************************************************************)
(* Three-valued evaluation is sound for two-valued logic, for conditions   *)
(* of any depth, any facts, and whatever values they may take.             *)
(***************************************************************************)
EXTENDS PolicyReference, PolicyProofs

-----------------------------------------------------------------------------
\* One step of the textbook reading.
TrueFrom(a, c, f) ==
    \/ c.kind = "comparison" /\ Compare(c.op, f[c.fact], c.value) = "true"
    \/ c.kind = "all" /\ \A part \in c.parts : a[part]
    \/ c.kind = "any" /\ \E part \in c.parts : a[part]
    \/ c.kind = "not" /\ \A part \in c.parts : ~a[part]

\* Holds is what its recursive calls say it is.
LEMMA HoldsUnfolds ==
    ASSUME NEW f
    PROVE  \A c \in Conditions :
              /\ Holds(c, f) \in BOOLEAN
              /\ c.kind = "comparison" =>
                    (Holds(c, f) <=> Compare(c.op, f[c.fact], c.value) = "true")
              /\ c.kind = "all" => (Holds(c, f) <=> \A part \in c.parts : Holds(part, f))
              /\ c.kind = "any" => (Holds(c, f) <=> \E part \in c.parts : Holds(part, f))
              /\ c.kind = "not" => (Holds(c, f) <=> \A part \in c.parts : ~Holds(part, f))
<1> DEFINE F == [c \in Conditions |-> [a \in [Conditions -> BOOLEAN] |-> TrueFrom(a, c, f)]]
           A == CHOOSE a : a = [c \in Conditions |-> TrueFrom(a, c, f)]
<1>1. \A c \in Conditions : \A a : TrueFrom(a, c, f) \in BOOLEAN
  BY DEF TrueFrom
<1>2. Recursion(Conditions, BOOLEAN, Rank, F)
  <2>1. F \in [Conditions -> [[Conditions -> BOOLEAN] -> BOOLEAN]]
    BY <1>1
  <2>2. ASSUME NEW c \in Conditions,
               NEW a \in [Conditions -> BOOLEAN], NEW b \in [Conditions -> BOOLEAN],
               \A d \in Conditions : Rank[d] < Rank[c] => a[d] = b[d]
        PROVE  F[c][a] = F[c][b]
    <3>1. CASE c.kind = "comparison"
      BY <3>1 DEF TrueFrom
    <3>2. CASE c.kind # "comparison"
      <4>1. \A part \in c.parts : a[part] = b[part]
        BY <2>2, <3>2, ConditionForm
      <4>2. c.kind \in {"all", "any", "not"}
        BY <3>2, ConditionForm
      <4> QED
        BY <4>1, <4>2 DEF TrueFrom
    <3> QED
      BY <3>1, <3>2
  <2> HIDE DEF F
  <2> QED
    BY <2>1, <2>2, RankIsLowest DEF Recursion
<1>3. PICK g \in [Conditions -> BOOLEAN] : \A c \in Conditions : g[c] = F[c][g]
  <2> HIDE DEF F
  <2> QED
    BY <1>2, RecursionEnds
<1>4. g = [c \in Conditions |-> TrueFrom(g, c, f)]
  BY <1>3
<1>5. A = [c \in Conditions |-> TrueFrom(A, c, f)]
  BY <1>4
<1>6. \A c \in Conditions : Holds(c, f) = A[c]
  BY Zenon DEF Holds, TrueFrom
<1> HIDE DEF A, F
<1>7. \A c \in Conditions : Holds(c, f) = TrueFrom(A, c, f)
  BY <1>5, <1>6
<1> SUFFICES ASSUME NEW c \in Conditions
             PROVE  /\ Holds(c, f) \in BOOLEAN
                    /\ c.kind = "comparison" =>
                          (Holds(c, f) <=> Compare(c.op, f[c.fact], c.value) = "true")
                    /\ c.kind = "all" => (Holds(c, f) <=> \A part \in c.parts : Holds(part, f))
                    /\ c.kind = "any" => (Holds(c, f) <=> \E part \in c.parts : Holds(part, f))
                    /\ c.kind = "not" => (Holds(c, f) <=> \A part \in c.parts : ~Holds(part, f))
  OBVIOUS
<1>8. Holds(c, f) = TrueFrom(A, c, f) /\ Holds(c, f) \in BOOLEAN
  BY <1>1, <1>7
<1>9. c.kind # "comparison" => \A part \in c.parts : A[part] = Holds(part, f)
  BY <1>6, ConditionForm
<1> QED
  BY <1>8, <1>9 DEF TrueFrom

-----------------------------------------------------------------------------
\* An answer given on f is what the condition says on every g that knows what
\* f knows.
LEMMA AnswerIsRight ==
    ASSUME NEW f, NEW g, KnowsMore(g, f)
    PROVE  \A c \in Conditions :
              /\ Evaluate(c, f) = "true"  => Holds(c, g)
              /\ Evaluate(c, f) = "false" => ~Holds(c, g)
<1> DEFINE G == {c \in Conditions : /\ Evaluate(c, f) = "true"  => Holds(c, g)
                                    /\ Evaluate(c, f) = "false" => ~Holds(c, g)}
<1>1. ASSUME NEW c \in Conditions, \A d \in Conditions : Rank[d] < Rank[c] => d \in G
      PROVE  c \in G
  <2>1. CASE c.kind = "comparison"
    <3>1. Evaluate(c, f) # "unknown" => f[c.fact] # Missing /\ g[c.fact] = f[c.fact]
      BY <2>1, EvaluateUnfolds, ConditionForm DEF KnowsMore
    <3>2. Evaluate(c, f) # "unknown" => Evaluate(c, f) = Compare(c.op, g[c.fact], c.value)
      BY <2>1, <3>1, EvaluateUnfolds
    <3>3. Holds(c, g) <=> Compare(c.op, g[c.fact], c.value) = "true"
      BY <2>1, HoldsUnfolds
    <3> QED
      BY <3>2, <3>3
  <2>2. CASE c.kind # "comparison"
    <3> DEFINE answers == {Evaluate(part, f) : part \in c.parts}
    <3>1. Evaluate(c, f) = Combine(c.kind, answers)
      BY <2>2, EvaluateUnfolds
    <3>2. \A part \in c.parts :
             /\ Evaluate(part, f) \in Tri
             /\ Evaluate(part, f) = "true"  => Holds(part, g)
             /\ Evaluate(part, f) = "false" => ~Holds(part, g)
      BY <1>1, <2>2, ConditionForm, EvaluateUnfolds
    <3>3. \A part \in c.parts : Evaluate(part, f) \in answers
      OBVIOUS
    <3>4. \A answer \in answers : \E part \in c.parts : answer = Evaluate(part, f)
      OBVIOUS
    <3> HIDE DEF answers
    <3>5. CASE c.kind = "all"
      <4>1. Holds(c, g) <=> \A part \in c.parts : Holds(part, g)
        BY <3>5, HoldsUnfolds
      <4> QED
        BY <3>1, <3>2, <3>3, <3>4, <3>5, <4>1 DEF Combine, Tri
    <3>6. CASE c.kind = "any"
      <4>1. Holds(c, g) <=> \E part \in c.parts : Holds(part, g)
        BY <3>6, HoldsUnfolds
      <4> QED
        BY <3>1, <3>2, <3>3, <3>4, <3>6, <4>1 DEF Combine, Tri
    <3>7. CASE c.kind = "not"
      <4>1. Holds(c, g) <=> \A part \in c.parts : ~Holds(part, g)
        BY <3>7, HoldsUnfolds
      <4>2. \E part \in Conditions : c.parts = {part}
        BY <3>7, ConditionForm
      <4> QED
        BY <3>1, <3>2, <3>3, <3>4, <3>7, <4>1, <4>2 DEF Combine, Tri
    <3> QED
      BY <2>2, <3>5, <3>6, <3>7, ConditionForm
  <2> QED
    BY <2>1, <2>2
<1> HIDE DEF G
<1>2. Conditions \subseteq G
  BY <1>1, RankInduction, RankIsLowest
<1> QED
  BY <1>2 DEF G

\* What is missing, or cannot be compared, in a condition that stays undecided.
LEMMA UndecidedHasAReason ==
    ASSUME NEW f
    PROVE  \A c \in Conditions : Evaluate(c, f) = "unknown" =>
              \E d \in Comparisons(c) :
                 \/ f[d.fact] = Missing
                 \/ d.op \in Orders /\ ~IsNumber(f[d.fact])
<1> DEFINE Reason(d) == f[d.fact] = Missing \/ (d.op \in Orders /\ ~IsNumber(f[d.fact]))
           G == {c \in Conditions :
                    Evaluate(c, f) = "unknown" => \E d \in Comparisons(c) : Reason(d)}
<1>1. ASSUME NEW c \in Conditions, \A d \in Conditions : Rank[d] < Rank[c] => d \in G
      PROVE  c \in G
  <2> SUFFICES ASSUME Evaluate(c, f) = "unknown" PROVE \E d \in Comparisons(c) : Reason(d)
    OBVIOUS
  <2>1. CASE c.kind = "comparison"
    <3>1. c \in Comparisons(c)
      BY <2>1, ComparisonsUnfold
    <3>2. f[c.fact] = Missing \/ Compare(c.op, f[c.fact], c.value) = "unknown"
      BY <2>1, EvaluateUnfolds
    <3>3. ASSUME Compare(c.op, f[c.fact], c.value) = "unknown"
          PROVE  c.op \in Orders /\ ~IsNumber(f[c.fact])
      <4>1. /\ c.op \in Ops
            /\ c.op \in Orders => IsNumber(c.value)
            /\ c.op = "in" => c.value[1] = "list"
        BY <2>1, ConditionForm
      <4>2. \A b : Truth(b) # "unknown"
        BY DEF Truth
      <4> QED
        BY <3>3, <4>1, <4>2 DEF Compare, Ops, Orders
    <3> QED
      BY <3>1, <3>2, <3>3
  <2>2. CASE c.kind # "comparison"
    <3>1. PICK part \in c.parts : Evaluate(part, f) = "unknown"
      <4> DEFINE answers == {Evaluate(part, f) : part \in c.parts}
      <4>1. Combine(c.kind, answers) = "unknown"
        BY <2>2, EvaluateUnfolds
      <4>2. c.kind \in {"all", "any", "not"}
        BY <2>2, ConditionForm
      <4>3. "unknown" \in answers
        <5> HIDE DEF answers
        <5> QED
          BY <4>1, <4>2 DEF Combine
      <4> QED
        BY <4>3
    <3>2. PICK d \in Comparisons(part) : Reason(d)
      BY <1>1, <2>2, <3>1, ConditionForm
    <3>3. Comparisons(part) \subseteq Comparisons(c)
      BY <2>2, <3>1, ComparisonsUnfold
    <3> QED
      BY <3>2, <3>3
  <2> QED
    BY <2>1, <2>2
<1> HIDE DEF G
<1>2. Conditions \subseteq G
  BY <1>1, RankInduction, RankIsLowest
<1> QED
  BY <1>2 DEF G

-----------------------------------------------------------------------------
\* The condition is one of the policy's, and facts has a place for each fact.
IInv == condition \in Conditions /\ facts = [name \in FactNames |-> facts[name]]

LEMMA IInvHolds == Spec => []IInv
<1>1. Init => IInv
  BY DEF Init, IInv, NoFacts
<1>2. IInv /\ [Next]_vars => IInv'
  BY DEF IInv, Next, Learn, vars
<1> QED
  BY <1>1, <1>2, PTL DEF Spec

\* An answer is never a guess: for every condition of every depth, TRUE or
\* FALSE is what the condition says however the missing facts turn out, facts
\* of the wrong type included.
THEOREM AnswersAreSound == Spec => []NeverAGuess
<1>1. IInv => NeverAGuess
  <2> SUFFICES ASSUME IInv, Verdict # "unknown", NEW g \in Completions(facts)
               PROVE  Verdict = "true" <=> Holds(condition, g)
    BY DEF NeverAGuess
  <2>1. condition \in Conditions /\ KnowsMore(g, facts)
    BY DEF IInv, Completions
  <2>2. Verdict \in Tri
    BY <2>1, EvaluateUnfolds DEF Verdict
  <2> QED
    BY <2>1, <2>2, AnswerIsRight DEF Verdict, Tri
<1> QED
  BY <1>1, IInvHolds, PTL

\* UNKNOWN always has a reason someone could act on: a fact of the condition
\* that is missing, or one that cannot be compared.
THEOREM UnknownIsActionable == Spec => []UnknownHasAReason
<1>1. IInv => UnknownHasAReason
  <2> SUFFICES ASSUME IInv, Verdict = "unknown"
               PROVE  \/ \E name \in FactsUsed(condition) : facts[name] = Missing
                      \/ IllTyped(condition, facts)
    BY DEF UnknownHasAReason
  <2>1. PICK d \in Comparisons(condition) :
           \/ facts[d.fact] = Missing
           \/ d.op \in Orders /\ ~IsNumber(facts[d.fact])
    BY UndecidedHasAReason DEF IInv, Verdict
  <2>2. d.fact \in FactsUsed(condition)
    BY DEF FactsUsed
  <2> QED
    BY <2>1, <2>2 DEF IllTyped
<1> QED
  BY <1>1, IInvHolds, PTL

\* No fact that becomes known takes an answer back.
THEOREM LearningKeepsAnswers == Spec => LearningIsMonotone
<1>1. ASSUME IInv, NEW name \in FactNames, NEW value \in Values[name],
             Learn(name, value), Verdict # "unknown"
      PROVE  Verdict' = Verdict
  <2>1. KnowsMore(facts', facts)
    BY <1>1 DEF IInv, Learn, KnowsMore
  <2>2. condition' = condition /\ condition \in Conditions
    BY <1>1 DEF IInv, Learn
  <2>3. Evaluate(condition, facts') = Evaluate(condition, facts)
    BY <1>1, <2>1, <2>2, AnswersStand DEF Verdict
  <2> QED
    BY <2>2, <2>3 DEF Verdict
<1>2. IInv /\ [Next]_vars =>
         [\A name \in FactNames : \A value \in Values[name] :
             Learn(name, value) /\ Verdict # "unknown" => Verdict' = Verdict]_vars
  BY <1>1
<1> QED
  BY <1>2, IInvHolds, PTL DEF Spec, LearningIsMonotone
=============================================================================
