---------------------------- MODULE SalonHarness ----------------------------
(***************************************************************************)
(* The harness under the salon's policy as shipped, on any facts.          *)
(***************************************************************************)
EXTENDS Harness, Salon

\* The gate's and the proposer's view of the rules is the rules' own.
ASSUME ShippedAssumption ==
    /\ Levels = SalonLevels
    /\ Rules = SalonRules
    /\ \A f \in FactBags :
          /\ \A r \in Rules : RuleTruth(r, f) = EvaluateRule(r, f)
          /\ LET hours == f["hours_until_appointment"]
             IN  hours # Missing => (AtLeast(hours, 48) <=> AtLeastHours(hours, 48))

\* A fact that is a number, and not below another.  A bool is one: 0 or 1.
NumberFrom(value, least) ==
    value # Missing /\ IsNumber(value) /\ ~(AsNumber(value) < least)

\* The price asks for a deposit, and the record cites the rule that says so: the
\* code does no more about one (gate.py:114).
DepositOnRecord(price, record) ==
    AsNumber(price) >= 15000 => <<"deposit_over_threshold", 1>> \in record.proposal.cited

\* What the salon's five sentences come to, rule evaluation aside: with the
\* gate on, a booking is made for colour work, not on a Sunday, by someone
\* known to be no child, and 48 hours ahead if it is a first colour visit; and
\* its price is a number, with the deposit on record that it may ask for.
PolicyKept ==
    LET f == run.case.facts
    IN  Done /\ run.gateOn /\ run.booked =>
            /\ f["service_category"] = Str("colour")
            /\ f["requested_weekday"] \notin {Missing, Str("sunday")}
            /\ NumberFrom(f["customer_age"], 16)
            /\ f["is_first_colour_visit"] # Missing
            /\ f["is_first_colour_visit"] = Bool(TRUE) =>
                  NumberFrom(f["hours_until_appointment"], 48)
            /\ f["quoted_price_minor"] # Missing /\ IsNumber(f["quoted_price_minor"])
            /\ DepositOnRecord(f["quoted_price_minor"], run.record)

\* And nothing more than the five sentences is asked of a customer: colour work on
\* the free slot that meets them, with every fact a rule reads known and of its
\* type, ends as a booking.  The four checks on the rules overlap, and a rule that
\* matches is also one that could have been left out or could forbid.
PolicySuffices ==
    LET f == run.case.facts
    IN  /\ Done /\ run.case.slot = GOOD_SLOT
        /\ \A name \in {"service_category", "is_first_colour_visit", "quoted_price_minor",
                        "requested_weekday"} : f[name] # Missing
        /\ IsNumber(f["quoted_price_minor"])
        /\ f["service_category"] = Str("colour")
        /\ f["requested_weekday"] # Str("sunday")
        /\ NumberFrom(f["customer_age"], 16)
        /\ f["is_first_colour_visit"] = Bool(TRUE) =>
              NumberFrom(f["hours_until_appointment"], 48)
        => run.booked
=============================================================================
