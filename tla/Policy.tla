------------------------------- MODULE Policy -------------------------------
(***************************************************************************)
(* Rules as data: conditions, and what they answer on the facts we have    *)
(* (rules/schema.py, rules/evaluate.py).                                   *)
(*                                                                         *)
(* A value carries its Python type, because what a comparison answers      *)
(* depends on it: a bool is a number, any other mix of types is unequal,   *)
(* and ordering two values that have no order raises TypeError, which the  *)
(* code turns into UNKNOWN.  Strings have no order here: an order          *)
(* comparison's own value is a number in every policy modelled.            *)
(***************************************************************************)
EXTENDS Facts, Naturals

CONSTANT Levels   \* the conditions of the rules and their parts, by how deep
                  \* they nest: Levels[n] is put together of lower levels

Num(n)  == <<"num", n>>
Str(s)  == <<"str", s>>
Bool(b) == <<"bool", b>>
List(S) == <<"list", S>>       \* only `in' looks into one

-----------------------------------------------------------------------------
\* Conditions: comparisons, combined by all, any and not.

Comparison(fact, op, value) ==
    [kind |-> "comparison", fact |-> fact, op |-> op, value |-> value]
All(parts) == [kind |-> "all", parts |-> parts]
Any(parts) == [kind |-> "any", parts |-> parts]
Not(part)  == [kind |-> "not", parts |-> {part}]

Conditions == UNION {Levels[n] : n \in DOMAIN Levels}
Under(n)   == UNION {Levels[m] : m \in {i \in DOMAIN Levels : i < n}}

\* The comparisons a condition is made of, at any depth.
Comparisons(condition) ==
    LET In[c \in Conditions] ==
            IF c.kind = "comparison"
            THEN {c}
            ELSE UNION {In[part] : part \in c.parts}
    IN  In[condition]

FactsUsed(condition) == {c.fact : c \in Comparisons(condition)}

-----------------------------------------------------------------------------
\* Comparing one fact with one value.

Tri == {"true", "false", "unknown"}
Truth(b) == IF b THEN "true" ELSE "false"

IsNumber(v) == v[1] \in {"num", "bool"}
AsNumber(v) == IF v[1] = "num" THEN v[2] ELSE IF v[2] THEN 1 ELSE 0

\* Python's ==
Same(left, right) ==
    IF IsNumber(left) /\ IsNumber(right)
    THEN AsNumber(left) = AsNumber(right)
    ELSE left = right

Orders == {"lt", "lte", "gt", "gte"}
Ops    == Orders \cup {"eq", "ne", "in", "is_true", "is_false"}

Ordered(op, l, r) ==
    CASE op = "lt"  -> l < r
      [] op = "lte" -> l <= r
      [] op = "gt"  -> l > r
      [] op = "gte" -> l >= r

\* Mutant of Compare: the case is_false is forgotten and falls through.
CompareForgetful(op, left, right) ==
    CASE op \in {"eq", "in"} ->
            Truth(\E item \in (IF op = "in" THEN right[2] ELSE {right}) : Same(left, item))
      [] op = "ne" -> Truth(~Same(left, right))
      [] op \in {"lt", "gte"} -> IF IsNumber(left)
                                THEN Truth(Ordered(op, AsNumber(left), AsNumber(right)))
                                ELSE "unknown"
      [] op = "is_true" -> Truth(left = Bool(TRUE))
      [] OTHER -> "unknown"

\* Mutant of Compare: an order comparison that raises TypeError is a no.
CompareUntypedIsNo(op, left, right) ==
    CASE op = "eq" -> Truth(Same(left, right))
      [] op = "ne" -> Truth(~Same(left, right))
      [] op \in Orders ->
            Truth(/\ IsNumber(left) /\ IsNumber(right)
                  /\ Ordered(op, AsNumber(left), AsNumber(right)))
      [] op = "in" -> IF right[1] = "list"
                      THEN Truth(\E item \in right[2] : Same(left, item))
                      ELSE "unknown"
      [] op = "is_true"  -> Truth(left = Bool(TRUE))
      [] op = "is_false" -> Truth(left = Bool(FALSE))

Compare(op, left, right) ==
    CASE op = "eq" -> Truth(Same(left, right))
      [] op = "ne" -> Truth(~Same(left, right))
      [] op \in Orders ->
            IF IsNumber(left) /\ IsNumber(right)
            THEN Truth(Ordered(op, AsNumber(left), AsNumber(right)))
            ELSE "unknown"                              \* TypeError
      [] op = "in" ->
            IF right[1] = "list"
            THEN Truth(\E item \in right[2] : Same(left, item))
            ELSE "unknown"                              \* TypeError
      [] op = "is_true"  -> Truth(left = Bool(TRUE))
      [] op = "is_false" -> Truth(left = Bool(FALSE))

\* What schema.py makes sure of, and the form of the values above.
ASSUME ConditionsAssumption ==
    /\ DOMAIN Levels \subseteq Nat
    /\ \A n \in DOMAIN Levels : \A c \in Levels[n] :
        /\ c.kind \in {"comparison", "all", "any", "not"}
        /\ c.kind = "comparison" =>
              /\ c.fact \in FactNames
              /\ c.op \in Ops
              /\ c.op \in Orders => IsNumber(c.value)
              /\ c.op = "in" => c.value[1] = "list"
        /\ c.kind # "comparison" => c.parts # {} /\ c.parts \subseteq Under(n)
        /\ c.kind = "not" => \E part \in Under(n) : c.parts = {part}

-----------------------------------------------------------------------------
\* What a condition answers.

\* Mutant of Combine: a group looks only at the parts that are decided.
CombineDecided(kind, answers) ==
    CASE kind = "all" -> Truth("false" \notin answers)
      [] kind = "any" -> Truth("true" \in answers)
      [] kind = "not" -> Truth("true" \notin answers)

\* How a group combines the answers of its parts.
Combine(kind, answers) ==
    CASE kind = "all" -> IF "false" \in answers THEN "false"
                         ELSE IF "unknown" \in answers THEN "unknown"
                         ELSE "true"
      [] kind = "any" -> IF "true" \in answers THEN "true"
                         ELSE IF "unknown" \in answers THEN "unknown"
                         ELSE "false"
      [] kind = "not" -> IF "unknown" \in answers THEN "unknown"
                         ELSE IF "true" \in answers THEN "false"
                         ELSE "true"

\* Mutant of Evaluate: a missing fact reads as a no.
EvaluateMissingIsNo(condition, facts) ==
    LET Answer[c \in Conditions] ==
            IF c.kind = "comparison"
            THEN IF facts[c.fact] = Missing
                 THEN "false"
                 ELSE Compare(c.op, facts[c.fact], c.value)
            ELSE Combine(c.kind, {Answer[part] : part \in c.parts})
    IN  Answer[condition]

Evaluate(condition, facts) ==
    LET Answer[c \in Conditions] ==
            IF c.kind = "comparison"
            THEN IF facts[c.fact] = Missing
                 THEN "unknown"
                 ELSE Compare(c.op, facts[c.fact], c.value)
            ELSE Combine(c.kind, {Answer[part] : part \in c.parts})
    IN  Answer[condition]

-----------------------------------------------------------------------------
\* Rules.

\* hours is a set: what require_lead_time asks for, or nothing.
Rule(id, version, condition, outcome, hours) ==
    [id |-> id, version |-> version, condition |-> condition,
     outcome |-> outcome, hours |-> hours, requires |-> FactsUsed(condition)]

EvaluateRule(rule, facts) == Evaluate(rule.condition, facts)

\* Whether a value can be compared with a number and is not below it.
AtLeastHours(value, needed) == IsNumber(value) /\ ~(AsNumber(value) < needed)
=============================================================================
