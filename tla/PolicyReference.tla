-------------------------- MODULE PolicyReference ---------------------------
(***************************************************************************)
(* Three-valued evaluation against two-valued logic.  A condition is       *)
(* chosen, and its facts become known one after the other, in any order.   *)
(***************************************************************************)
EXTENDS Policy

CONSTANT Values     \* Values[name]: what fact `name' may turn out to be

VARIABLES condition, facts

vars == <<condition, facts>>

\* The textbook reading of a condition when every fact is known.
Holds(c, f) ==
    LET True[d \in Conditions] ==
            \/ d.kind = "comparison" /\ Compare(d.op, f[d.fact], d.value) = "true"
            \/ d.kind = "all" /\ \A part \in d.parts : True[part]
            \/ d.kind = "any" /\ \E part \in d.parts : True[part]
            \/ d.kind = "not" /\ \A part \in d.parts : ~True[part]
    IN  True[c]

\* A fact without an order, in a comparison of c that needs one.
IllTyped(c, f) ==
    \E d \in Comparisons(c) :
        d.op \in Orders /\ f[d.fact] # Missing /\ ~IsNumber(f[d.fact])

\* Every way the missing facts may turn out.
Completions(f) ==
    {g \in [FactNames -> UNION {Values[n] : n \in FactNames}] :
        KnowsMore(g, f) /\ \A n \in FactNames : g[n] \in Values[n]}

-----------------------------------------------------------------------------
Init == condition \in Conditions /\ facts = NoFacts

Learn(name, value) ==
    /\ facts[name] = Missing
    /\ facts' = [facts EXCEPT ![name] = value]
    /\ UNCHANGED condition

Next == \E name \in FactNames : \E value \in Values[name] : Learn(name, value)

Spec == Init /\ [][Next]_vars

-----------------------------------------------------------------------------
Verdict == Evaluate(condition, facts)

\* An answer is never a guess about a fact nobody established: TRUE or FALSE is
\* what the condition says however the missing facts turn out
\* (rules/evaluate.py:6-10).
NeverAGuess ==
    Verdict # "unknown" =>
        \A g \in Completions(facts) : Verdict = "true" <=> Holds(condition, g)

\* UNKNOWN always has a reason someone could act on: a fact the condition uses
\* is missing, or one has a type it cannot be compared with.
UnknownHasAReason ==
    Verdict = "unknown" =>
        \/ \E name \in FactsUsed(condition) : facts[name] = Missing
        \/ IllTyped(condition, facts)

\* Learning one more fact never takes an answer back, whatever the fact.
LearningIsMonotone ==
    [][\A name \in FactNames : \A value \in Values[name] :
          Learn(name, value) /\ Verdict # "unknown" => Verdict' = Verdict]_vars
=============================================================================
