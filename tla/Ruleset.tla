------------------------------ MODULE Ruleset -------------------------------
(***************************************************************************)
(* A set of rules seen from outside: each rule answers true, false or      *)
(* unknown on the facts we have, and needs certain facts to do so          *)
(* (rules/specificity.py).  How a condition is evaluated is Policy's       *)
(* affair; all that is used of it here is that an answer is never taken    *)
(* back when more becomes known.                                           *)
(***************************************************************************)
EXTENDS Facts, Naturals

CONSTANTS
    Rules,            \* records [id, version, outcome, hours, requires, ...]
    FactBags,         \* the facts a proposal may carry
    RuleTruth(_, _),  \* what a rule answers on some facts
    AtLeast(_, _)     \* whether a fact's value is a number and at least that

Ref(r) == <<r.id, r.version>>

\* Where TLC and the proofs meet: TLC evaluates this on the salon's policy,
\* the proofs assume it of any other.
ASSUME RulesetAssumption ==
    /\ \A r, s \in Rules : Ref(r) = Ref(s) => r = s    \* RuleSet._no_duplicates
    /\ \A r \in Rules : r.requires \subseteq FactNames
    /\ \A f \in FactBags, r \in Rules :
          /\ RuleTruth(r, f) \in {"true", "false", "unknown"}
          /\ \A g \in FactBags :
                KnowsMore(g, f) => \/ RuleTruth(r, f) = "unknown"
                                   \/ RuleTruth(r, g) = RuleTruth(r, f)

MatchingRules(f) == {r \in Rules : RuleTruth(r, f) = "true"}
UnknownRules(f)  == {r \in Rules : RuleTruth(r, f) = "unknown"}

\* a needs every fact b needs, and at least one more.
IsMoreSpecific(a, b) == b.requires \subseteq a.requires /\ b.requires # a.requires

MissingFacts(r, f) == {name \in r.requires : f[name] = Missing}
=============================================================================
