-------------------------------- MODULE Gate --------------------------------
(***************************************************************************)
(* The gate (gate.py): six checks on a proposal, in order, stopping at the *)
(* first that fails.  A proposal names a thread, an action, the rules it   *)
(* cites as <<id, version>> and the facts it rests on; the gate is shown   *)
(* the calendar's view of the slot and whether an escalation could still   *)
(* be delivered.  It answers yes or no and changes nothing.                *)
(***************************************************************************)
EXTENDS Ruleset

AllowsBooking == {"allow", "require_deposit"}
Forbids       == {"deny", "require_escalation"}

Passed == [allowed |-> TRUE, check |-> "none", kind |-> "none"]
Blocked(check, kind) == [allowed |-> FALSE, check |-> check, kind |-> kind]

\* The rules of the ruleset that p cites.
Cited(p) == {r \in Rules : Ref(r) \in p.cited}

\* A rule counts as cited by its id alone, at whatever version.
IsCited(p, r) == \E c \in Cited(p) : c.id = r.id

\* 1. Every cited rule exists at the version cited.
RulesExist(p) == \A ref \in p.cited : \E r \in Rules : Ref(r) = ref

\* 2. The facts support every cited rule.
FactsSupport(p) == Cited(p) \subseteq MatchingRules(p.facts)

\* Mutants of OverrideMissed: undecided rules are passed over, and a rule that
\* was cited still counts as left out.
OverrideMissedDecided(p) ==
    \E r \in MatchingRules(p.facts) :
        /\ ~IsCited(p, r)
        /\ \E c \in Cited(p) : IsMoreSpecific(r, c)
OverrideMissedAnyway(p) ==
    \E r \in MatchingRules(p.facts) \cup UnknownRules(p.facts) :
        \E c \in Cited(p) : IsMoreSpecific(r, c)

\* 3. No more specific rule was left out, and nothing relevant is unknown.
OverrideMissed(p) ==
    \E r \in MatchingRules(p.facts) \cup UnknownRules(p.facts) :
        /\ ~IsCited(p, r)
        /\ \E c \in Cited(p) : IsMoreSpecific(r, c)

\* The lead time a rule asks for is established, a number, and long enough.
LeadTimeMet(r, f) ==
    \A needed \in r.hours :
        /\ f["hours_until_appointment"] # Missing
        /\ AtLeast(f["hours_until_appointment"], needed)

\* Mutants of RulesPermit: only a rule that surely applies vetoes, and lead
\* times are not looked at.
RulesPermitUnlessSure(p) ==
    /\ \E r \in Cited(p) : r.outcome \in AllowsBooking
    /\ \A r \in MatchingRules(p.facts) : r.outcome \notin Forbids
    /\ \A r \in Cited(p) : r.outcome = "require_lead_time" => LeadTimeMet(r, p.facts)
RulesPermitAnytime(p) ==
    /\ \E r \in Cited(p) : r.outcome \in AllowsBooking
    /\ \A r \in MatchingRules(p.facts) \cup UnknownRules(p.facts) : r.outcome \notin Forbids

\* 4. The rules permit this booking: one that is cited allows it, none that
\* applies or may apply forbids it, and the cited lead times are met.
RulesPermit(p) ==
    /\ \E r \in Cited(p) : r.outcome \in AllowsBooking
    /\ \A r \in MatchingRules(p.facts) \cup UnknownRules(p.facts) : r.outcome \notin Forbids
    /\ \A r \in Cited(p) : r.outcome = "require_lead_time" => LeadTimeMet(r, p.facts)

\* Mutant of SlotIsOurs: anybody's hold will do.
SlotIsOursByAnyone(p, view) == view.slot_exists /\ ~view.booked

\* 5. The slot is still ours.
SlotIsOurs(p, view) ==
    view.slot_exists /\ ~view.booked /\ view.held_by_thread = p.thread

Evaluated(p, view, deliverable) ==
    IF ~RulesExist(p) THEN Blocked("rules_exist", "grounding")
    ELSE IF ~FactsSupport(p) THEN Blocked("facts_support", "grounding")
    ELSE IF OverrideMissed(p) THEN Blocked("override_missed", "grounding")
    ELSE IF p.action = "book" /\ ~RulesPermit(p)
         THEN Blocked("booking_cites_rule", "grounding")
    ELSE IF p.action = "book" /\ ~SlotIsOurs(p, view)
         THEN Blocked("slot_still_free", "conclusion")
    ELSE IF p.action = "escalate" /\ ~deliverable      \* 6.
         THEN Blocked("escalation_deliverable", "conclusion")
    ELSE Passed
=============================================================================
