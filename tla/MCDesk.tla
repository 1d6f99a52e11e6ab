------------------------------- MODULE MCDesk -------------------------------
(***************************************************************************)
(* The desk under the salon's shipped policy.                              *)
(***************************************************************************)
EXTENDS Desk, MCSalon

CONSTANT Other     \* another thread

\* The extractor's schema; an age must be a whole number.
MCSchema == [MCValues EXCEPT !.customer_age = {Num(15), Num(16)}]

\* A message mentions one fact, or none; one that mentions more is several of
\* these.  The model writes null for the rest, and once an age it spells out.
MCAnswers ==
    {NoFacts} \cup UNION {{[NoFacts EXCEPT ![n] = v] : v \in MCValues[n]} : n \in MCFactNames}

SalonRefs == {Ref(r) : r \in SalonRules}

\* Any of the shipped rules, and the Sunday rule at a version that is gone.
MCCitations == SUBSET SalonRefs \cup {SalonRefs \cup {<<"no_colour_on_sunday", 2>>}}

\* Of the shipped rules that allow a booking, the deposit's alone is not refined
\* by the patch test's, so that an agent that cites it is not held to the hours.
ASSUME DepositIsTheGap ==
    {r.id : r \in {a \in SalonRules :
                      /\ a.outcome \in AllowsBooking
                      /\ \E l \in SalonRules : /\ l.outcome = "require_lead_time"
                                              /\ ~IsMoreSpecific(l, a)}}
        = {"deposit_over_threshold"}

SlotView(exists, booked, holder) ==
    [slot_exists |-> exists, booked |-> booked, held_by_thread |-> holder]

\* A policy with the patch test rule at two versions, the newer one stricter.
Stricter == Rule("patch_test_first_colour", 2,
                 All({Colour, IsFirstVisit}), "require_lead_time", {49})
TwoVersions == INSTANCE Gate WITH Rules <- SalonRules \cup {Stricter}

FirstVisitIn48 ==
    [service_category |-> Str("colour"), is_first_colour_visit |-> Bool(TRUE),
     quoted_price_minor |-> Num(14999), customer_age |-> Num(16),
     requested_weekday |-> Str("monday"), hours_until_appointment |-> Num(48)]

\* Why RefinedLeadTimesMet excepts a rule cited at another version: check 3 takes
\* the newer one for cited (gate.py:57), and check 4 reads the hours of the cited
\* rules only (gate.py:161), so that nobody looks at the newer one's.
ASSUME OlderVersionHides ==
    LET p == [thread |-> Me, action |-> "book", facts |-> FirstVisitIn48,
              cited |-> {<<"colour_allowed", 1>>, <<"patch_test_first_colour", 1>>}]
    IN  /\ Stricter \in TwoVersions!MatchingRules(p.facts)
        /\ ~TwoVersions!LeadTimeMet(Stricter, p.facts)
        /\ TwoVersions!IsCited(p, Stricter) /\ Stricter \notin TwoVersions!Cited(p)
        /\ TwoVersions!FactsSupport(p)
        /\ \A c \in TwoVersions!Cited(p) : TwoVersions!LeadTimeMet(c, p.facts)

\* Some of what Calendar!View shows (its HoldExcludes: a booked slot has no
\* holder): held for this thread, held for another, booked.
MCViews == {SlotView(TRUE, FALSE, Me), SlotView(TRUE, FALSE, Other),
            SlotView(TRUE, TRUE, None)}
=============================================================================
