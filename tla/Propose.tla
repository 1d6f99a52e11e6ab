------------------------------ MODULE Propose -------------------------------
(***************************************************************************)
(* The proposer (propose.py): it cites every rule that matches.  Deny      *)
(* beats everything, then escalate, then a missing fact means ask, and     *)
(* only then a booking is proposed.                                        *)
(***************************************************************************)
EXTENDS Ruleset

MatchingWith(outcome, f) == {r \in MatchingRules(f) : r.outcome = outcome}

\* Mutant of Gaps: asks about one undecided rule at a time.
GapsOfOne(f) ==
    IF UnknownRules(f) = {} THEN {}
    ELSE MissingFacts(CHOOSE r \in UnknownRules(f) : TRUE, f)

\* The facts to ask for: whatever an undecided rule lacks.
Gaps(f) == UNION {MissingFacts(r, f) : r \in UnknownRules(f)}

ProposedAction(f) ==
    IF MatchingWith("deny", f) # {} THEN "decline"
    ELSE IF MatchingWith("require_escalation", f) # {} THEN "escalate"
    ELSE IF Gaps(f) # {} THEN "ask"
    ELSE "book"

ProposedRules(f) == {Ref(r) : r \in MatchingRules(f)}

\* An escalation's reason: a rule that asks for one (the code takes the first).
EscalationReasons(f) == {r.id : r \in MatchingWith("require_escalation", f)}

Proposed(thread, f) ==
    [thread |-> thread, action |-> ProposedAction(f),
     cited |-> ProposedRules(f), facts |-> f]
=============================================================================
