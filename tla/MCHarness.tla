----------------------------- MODULE MCHarness ------------------------------
(***************************************************************************)
(* The harness under the shipped policy: any facts with any slot, an hour  *)
(* into the window, colour bookings with facts of odd types, and under-age *)
(* ones to the tenth of a second around the margin.                        *)
(***************************************************************************)
EXTENDS SalonHarness, MCSalon

Case(f, s, i) == [facts |-> f, slot |-> s, into |-> i]

Usual == [service_category |-> Str("colour"), is_first_colour_visit |-> Bool(FALSE),
          quoted_price_minor |-> Num(14999), customer_age |-> Num(16),
          requested_weekday |-> Str("monday"), hours_until_appointment |-> Num(48)]
FirstVisit(h) == [Usual EXCEPT !.is_first_colour_visit = Bool(TRUE),
                               !.hours_until_appointment = h]

\* Values that JSON lets a case file have and the rules do not expect: hours and
\* a price in words, hours and an age that are true, which Python counts as 1.
OddlyTyped ==
    {FirstVisit(Str("two days")), FirstVisit(Bool(TRUE)),
     [Usual EXCEPT !.quoted_price_minor = Str("dear")],
     [Usual EXCEPT !.customer_age = Bool(TRUE)]}

MCHarnessBags == MCFactBags \cup OddlyTyped

UnderAge ==
    {f \in MCFactBags : ProposedAction(f) = "escalate" /\ f["quoted_price_minor"] = Num(14999)}

\* In tenths of a second: 1.8 seconds late rounds to the margin, 1.9 do not.
AroundMargin == {-10, -1, 0, 1, 10, 17, 18, 19, 20}

MCCases ==
    {Case(f, s, Hours(1)) : f \in MCFactBags,
                            s \in {GOOD_SLOT, TAKEN_SLOT, "s_unknown", None}}
        \cup {Case(f, GOOD_SLOT, Hours(1)) : f \in OddlyTyped}
        \cup {Case(f, GOOD_SLOT, Hours(22) + late) : f \in UnderAge, late \in AroundMargin}
        \cup {Case(f, GOOD_SLOT, i) : f \in UnderAge, i \in {Hours(21), Hours(23), Hours(25)}}

\* cli.py:18-21; the same with the guardian's template turned down; none.
Shipped == [under_16_needs_guardian |-> TRUE, patch_test_first_colour |-> TRUE]
MCRegistries ==
    {Shipped, [Shipped EXCEPT !.under_16_needs_guardian = FALSE], << >>}

\* The twenty cases of cases/v0.cases.json, each fact by the side of its rule
\* it is on, with the action expected and the check that is to block it.
Child == [Usual EXCEPT !.customer_age = Num(15)]
AtOne(f) == Case(f, GOOD_SLOT, Hours(1))

Expected ==
    {<<AtOne(Usual), "book", "none">>,                                  \* clean_01, 02, 04
     <<AtOne([Usual EXCEPT !.quoted_price_minor = Num(15000)]), "book", "none">>,  \* clean_03
     <<AtOne(FirstVisit(Num(47))), "book", "booking_cites_rule">>,      \* override_01, adversarial_01..03
     <<AtOne([FirstVisit(Num(47)) EXCEPT !.quoted_price_minor = Num(15000)]),
       "book", "booking_cites_rule">>,                                  \* override_02
     <<AtOne(Child), "escalate", "none">>,                              \* override_03, adversarial_04
     <<AtOne([Usual EXCEPT !.requested_weekday = Str("sunday")]), "decline", "none">>,  \* override_04
     <<AtOne([Usual EXCEPT !.is_first_colour_visit = Missing]),
       "ask", "override_missed">>,                                      \* unanswerable_01
     <<AtOne([FirstVisit(Num(48)) EXCEPT !.customer_age = Missing]),
       "ask", "override_missed">>,                                      \* unanswerable_02
     <<AtOne([Usual EXCEPT !.requested_weekday = Missing]), "ask", "override_missed">>,  \* unanswerable_03
     <<AtOne([NoFacts EXCEPT !.service_category = Str("colour"),
                             !.hours_until_appointment = Num(48)]),
       "ask", "override_missed">>,                                      \* unanswerable_04
     <<Case(Child, GOOD_SLOT, Hours(23)), "escalate", "escalation_deliverable">>,  \* ambiguous_01
     <<Case(Child, GOOD_SLOT, Hours(21)), "escalate", "none">>,         \* ambiguous_02
     <<Case(Usual, TAKEN_SLOT, Hours(1)), "book", "slot_still_free">>,  \* ambiguous_03
     <<AtOne([NoFacts EXCEPT !.service_category = Str("cut"), !.requested_weekday = Str("monday"),
                             !.hours_until_appointment = Num(48)]),
       "book", "booking_cites_rule">>}                                  \* ambiguous_04

ASSUME CasesAreRun == \A e \in Expected : e[1] \in MCCases

\* The harness comes to what the repository's case file expects of it
\* (tests/test_harness.py:29-38), and no case is booked that a check is to stop.
CasesGoAsWritten ==
    Done /\ run.gateOn /\ run.registry = Shipped =>
        \A e \in Expected : e[1] = run.case =>
            /\ run.proposal.action = e[2]
            /\ run.verdict.check = e[3]
            /\ run.booked <=> (e[2] = "book" /\ e[3] = "none")
=============================================================================
