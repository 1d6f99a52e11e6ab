---------------------------- MODULE SalonProofs -----------------------------
(***************************************************************************)
(* The salon's policy as shipped is kept on any facts: of any customer,    *)
(* with any values, of the wrong type ones included.                       *)
(***************************************************************************)
EXTENDS SalonHarness, HarnessProofs, PolicyProofs

-----------------------------------------------------------------------------
\* The shipped conditions are among the policy's.
LEMMA ShippedConditions ==
    /\ {Colour, IsFirstVisit, IsDear, IsChild, IsSunday} \subseteq Conditions
    /\ \A c \in {IsFirstVisit, IsDear, IsChild, IsSunday} : All({Colour, c}) \in Conditions
<1> DEFINE one == {Colour, IsFirstVisit, IsDear, IsChild, IsSunday}
           two == {All({Colour, c}) : c \in {IsFirstVisit, IsDear, IsChild, IsSunday}}
<1>1. Levels = <<one, two>>
  BY ShippedAssumption DEF ShippedAssumption, SalonLevels
<1> HIDE DEF one, two
<1>2. DOMAIN Levels = {1, 2} /\ Levels[1] = one /\ Levels[2] = two
  BY <1>1
<1>3. one \subseteq Conditions /\ two \subseteq Conditions
  BY <1>2 DEF Conditions
<1> QED
  BY <1>3 DEF one, two

\* A conjunction with colour work, once it is colour work.
LEMMA WithColour ==
    ASSUME NEW f, NEW c \in {IsFirstVisit, IsDear, IsChild, IsSunday}
    PROVE  /\ Evaluate(All({Colour, c}), f) = "true" => Evaluate(Colour, f) = "true"
           /\ Evaluate(Colour, f) = "true"
                 => Evaluate(All({Colour, c}), f) = Evaluate(c, f)
<1> DEFINE both == All({Colour, c})
<1>1. both.kind = "all" /\ both.parts = {Colour, c}
  BY DEF All
<1>2. both \in Conditions /\ Colour \in Conditions /\ c \in Conditions
  BY ShippedConditions
<1> HIDE DEF both
<1>3. Evaluate(both, f) = Combine("all", {Evaluate(part, f) : part \in {Colour, c}})
  BY <1>1, <1>2, EvaluateUnfolds
<1>4. {Evaluate(part, f) : part \in {Colour, c}} = {Evaluate(Colour, f), Evaluate(c, f)}
  OBVIOUS
<1>5. Evaluate(Colour, f) \in Tri /\ Evaluate(c, f) \in Tri
  BY <1>2, EvaluateUnfolds
<1> QED
  BY <1>3, <1>4, <1>5 DEF Combine, Tri, both

\* A comparison answers on the one fact it reads.
LEMMA ComparisonReads ==
    ASSUME NEW f, NEW fact, NEW op, NEW value, NEW c \in Conditions,
           c = Comparison(fact, op, value)
    PROVE  Evaluate(c, f) =
              IF f[fact] = Missing THEN "unknown" ELSE Compare(op, f[fact], value)
<1>1. c.kind = "comparison" /\ c.fact = fact /\ c.op = op /\ c.value = value
  BY DEF Comparison
<1> QED
  BY <1>1, EvaluateUnfolds

\* Nothing equals a text but the same text.
LEMMA TextEquals == ASSUME NEW v, NEW text PROVE Same(v, Str(text)) <=> v = Str(text)
<1>1. ~IsNumber(Str(text))
  BY DEF IsNumber, Str
<1> QED
  BY <1>1 DEF Same

\* What each comparison's answer says of its fact.
LEMMA ColourReads ==
    ASSUME NEW f, Evaluate(Colour, f) = "true"
    PROVE  f["service_category"] = Str("colour")
<1> DEFINE v == f["service_category"]
<1>1. Evaluate(Colour, f) =
         IF v = Missing THEN "unknown" ELSE Compare("eq", v, Str("colour"))
  BY ShippedConditions, ComparisonReads DEF Colour
<1> HIDE DEF v
<1>2. Compare("eq", v, Str("colour")) = IF v = Str("colour") THEN "true" ELSE "false"
  <2>1. Compare("eq", v, Str("colour")) = Truth(Same(v, Str("colour")))
    BY DEF Compare, Orders
  <2> QED
    BY <2>1, TextEquals DEF Truth
<1> QED
  BY <1>1, <1>2 DEF v

LEMMA SundayReads ==
    ASSUME NEW f, Evaluate(IsSunday, f) = "false"
    PROVE  f["requested_weekday"] \notin {Missing, Str("sunday")}
<1> DEFINE v == f["requested_weekday"]
<1>1. Evaluate(IsSunday, f) =
         IF v = Missing THEN "unknown" ELSE Compare("eq", v, Str("sunday"))
  BY ShippedConditions, ComparisonReads DEF IsSunday
<1> HIDE DEF v
<1>2. Compare("eq", v, Str("sunday")) = IF v = Str("sunday") THEN "true" ELSE "false"
  <2>1. Compare("eq", v, Str("sunday")) = Truth(Same(v, Str("sunday")))
    BY DEF Compare, Orders
  <2> QED
    BY <2>1, TextEquals DEF Truth
<1> QED
  BY <1>1, <1>2 DEF v

LEMMA ChildReads ==
    ASSUME NEW f, Evaluate(IsChild, f) = "false"
    PROVE  NumberFrom(f["customer_age"], 16)
<1> DEFINE v == f["customer_age"]
<1>1. Evaluate(IsChild, f) =
         IF v = Missing THEN "unknown" ELSE Compare("lt", v, Num(16))
  BY ShippedConditions, ComparisonReads DEF IsChild
<1> HIDE DEF v
<1>2. Compare("lt", v, Num(16)) =
         IF IsNumber(v) /\ IsNumber(Num(16))
         THEN Truth(Ordered("lt", AsNumber(v), AsNumber(Num(16)))) ELSE "unknown"
  BY DEF Compare, Orders
<1>3. AsNumber(Num(16)) = 16
  BY DEF AsNumber, Num
<1>4. Ordered("lt", AsNumber(v), 16) = (AsNumber(v) < 16)
  BY DEF Ordered
<1> QED
  BY <1>1, <1>2, <1>3, <1>4 DEF Truth, NumberFrom, v

LEMMA DearReads ==
    ASSUME NEW f, Evaluate(IsDear, f) # "unknown"
    PROVE  /\ f["quoted_price_minor"] # Missing /\ IsNumber(f["quoted_price_minor"])
           /\ AsNumber(f["quoted_price_minor"]) >= 15000 => Evaluate(IsDear, f) = "true"
<1> DEFINE v == f["quoted_price_minor"]
<1>1. Evaluate(IsDear, f) =
         IF v = Missing THEN "unknown" ELSE Compare("gte", v, Num(15000))
  BY ShippedConditions, ComparisonReads DEF IsDear
<1> HIDE DEF v
<1>2. Compare("gte", v, Num(15000)) =
         IF IsNumber(v) /\ IsNumber(Num(15000))
         THEN Truth(Ordered("gte", AsNumber(v), AsNumber(Num(15000)))) ELSE "unknown"
  BY DEF Compare, Orders
<1>3. v # Missing /\ IsNumber(v)
  BY <1>1, <1>2
<1>4. AsNumber(Num(15000)) = 15000 /\ IsNumber(Num(15000))
  BY DEF AsNumber, IsNumber, Num
<1>5. ASSUME AsNumber(v) >= 15000 PROVE Evaluate(IsDear, f) = "true"
  <2>1. Ordered("gte", AsNumber(v), 15000)
    BY <1>5 DEF Ordered
  <2> QED
    BY <1>1, <1>2, <1>3, <1>4, <2>1 DEF Truth
<1> QED
  BY <1>3, <1>5 DEF v

LEMMA FirstVisitReads ==
    ASSUME NEW f, Evaluate(IsFirstVisit, f) # "unknown"
    PROVE  /\ f["is_first_colour_visit"] # Missing
           /\ f["is_first_colour_visit"] = Bool(TRUE) => Evaluate(IsFirstVisit, f) = "true"
<1> DEFINE v == f["is_first_colour_visit"]
<1>1. Evaluate(IsFirstVisit, f) =
         IF v = Missing THEN "unknown" ELSE Compare("is_true", v, Missing)
  BY ShippedConditions, ComparisonReads DEF IsFirstVisit
<1> HIDE DEF v
<1>2. Compare("is_true", v, Missing) = Truth(v = Bool(TRUE))
  BY DEF Compare, Orders
<1> QED
  BY <1>1, <1>2 DEF Truth, v
-----------------------------------------------------------------------------
\* The facts three of the rules need.
LEMMA RulesNeed ==
    /\ FactsUsed(Colour) = {"service_category"}
    /\ FactsUsed(All({Colour, IsFirstVisit})) = {"service_category", "is_first_colour_visit"}
    /\ FactsUsed(All({Colour, IsDear})) = {"service_category", "quoted_price_minor"}
<1>1. /\ Colour.kind = "comparison" /\ Colour.fact = "service_category"
      /\ IsFirstVisit.kind = "comparison" /\ IsFirstVisit.fact = "is_first_colour_visit"
      /\ IsDear.kind = "comparison" /\ IsDear.fact = "quoted_price_minor"
  BY DEF Colour, IsFirstVisit, IsDear, Comparison
<1>2. \A c \in {Colour, IsFirstVisit, IsDear} : c \in Conditions /\ Comparisons(c) = {c}
  BY <1>1, ShippedConditions, ComparisonsUnfold
<1>3. ASSUME NEW c \in {IsFirstVisit, IsDear}
      PROVE  Comparisons(All({Colour, c})) = {Colour, c}
  <2> DEFINE both == All({Colour, c})
  <2>1. both.kind = "all" /\ both.parts = {Colour, c} /\ both \in Conditions
    BY ShippedConditions DEF All
  <2> HIDE DEF both
  <2>2. Comparisons(both) = UNION {Comparisons(part) : part \in {Colour, c}}
    BY <2>1, ComparisonsUnfold
  <2> QED
    BY <1>2, <2>2 DEF both
<1> QED
  BY <1>1, <1>2, <1>3 DEF FactsUsed

\* What a shipped rule answers, and the gate hears, is what its condition does.
LEMMA RuleHeard ==
    ASSUME NEW f \in FactBags, NEW r \in Rules
    PROVE  /\ r \in MatchingRules(f) <=> Evaluate(r.condition, f) = "true"
           /\ r \in UnknownRules(f) <=> Evaluate(r.condition, f) = "unknown"
    BY ShippedAssumption DEF ShippedAssumption, MatchingRules, UnknownRules, EvaluateRule

\* A booking the gate let through is for colour work, and the rule that allows
\* it applies.
LEMMA BookedIsColour ==
    ASSUME IInv, Done, run.gateOn, run.booked
    PROVE  /\ Evaluate(Colour, run.case.facts) = "true"
           /\ Rule("colour_allowed", 1, Colour, "allow", {}) \in Cited(run.proposal)
<1> DEFINE f == run.case.facts
           allowed == Rule("colour_allowed", 1, Colour, "allow", {})
<1>1. f \in FactBags
  BY HarnessAssumption DEF HarnessAssumption, IInv, CaseGiven, Done
<1>2. PICK r \in MatchingRules(f) : r.outcome \in AllowsBooking
  BY BookedPassedGate DEF RulesPermit
<1>3. r \in Rules /\ Evaluate(r.condition, f) = "true"
  BY <1>1, <1>2, RuleHeard DEF MatchingRules
<1>4. r.condition = Colour \/ r.condition = All({Colour, IsDear})
  BY <1>2, <1>3, ShippedAssumption DEF ShippedAssumption, SalonRules, Rule, AllowsBooking
<1>5. Evaluate(Colour, f) = "true"
  BY <1>3, <1>4, WithColour
<1>6. allowed \in Rules /\ allowed.condition = Colour
  BY ShippedAssumption DEF ShippedAssumption, SalonRules, Rule
<1> HIDE DEF allowed
<1>7. allowed \in Cited(run.proposal)
  BY <1>1, <1>5, <1>6, RuleHeard, BookedPassedGate
<1> QED
  BY <1>5, <1>7 DEF allowed

\* A rule that forbids is no on the facts of such a booking.
LEMMA NotForbidden ==
    ASSUME IInv, Done, run.gateOn, run.booked,
           NEW r \in Rules, r.outcome \in Forbids, r.condition \in Conditions
    PROVE  Evaluate(r.condition, run.case.facts) = "false"
<1>1. run.case.facts \in FactBags
  BY HarnessAssumption DEF HarnessAssumption, IInv, CaseGiven, Done
<1>2. r \notin MatchingRules(run.case.facts) \cup UnknownRules(run.case.facts)
  BY BookedPassedGate DEF RulesPermit
<1> QED
  BY <1>1, <1>2, RuleHeard, EvaluateUnfolds DEF Tri

\* Whether it is a first colour visit is known, and so is the price: the gate stops
\* at an undecided rule that refines one that is cited.
LEMMA FinerDecided ==
    ASSUME IInv, Done, run.gateOn, run.booked
    PROVE  LET patch   == Rule("patch_test_first_colour", 1,
                               All({Colour, IsFirstVisit}), "require_lead_time", {48})
               deposit == Rule("deposit_over_threshold", 1,
                               All({Colour, IsDear}), "require_deposit", {})
           IN  /\ patch \in Rules /\ patch \notin UnknownRules(run.case.facts)
               /\ deposit \in Rules /\ deposit \notin UnknownRules(run.case.facts)
<1> DEFINE f == run.case.facts
           patch == Rule("patch_test_first_colour", 1,
                         All({Colour, IsFirstVisit}), "require_lead_time", {48})
           deposit == Rule("deposit_over_threshold", 1,
                           All({Colour, IsDear}), "require_deposit", {})
           allowed == Rule("colour_allowed", 1, Colour, "allow", {})
<1>1. /\ patch \in Rules /\ \A r \in Rules : r.id = patch.id => r = patch
      /\ deposit \in Rules /\ \A r \in Rules : r.id = deposit.id => r = deposit
  BY ShippedAssumption DEF ShippedAssumption, SalonRules, Rule
<1>2. IsMoreSpecific(patch, allowed) /\ IsMoreSpecific(deposit, allowed)
  BY RulesNeed DEF IsMoreSpecific, Rule
<1>3. allowed \in Cited(run.proposal)
  BY BookedIsColour
<1> HIDE DEF patch, deposit, allowed
<1>4. ASSUME NEW r \in {patch, deposit}, r \in UnknownRules(f) PROVE FALSE
  <2>1. IsCited(run.proposal, r)
    BY <1>2, <1>3, <1>4, BookedPassedGate DEF OverrideMissed
  <2>2. r \in MatchingRules(f)
    BY <1>1, <2>1, BookedPassedGate DEF IsCited, Cited
  <2> QED
    BY <1>4, <2>2 DEF MatchingRules, UnknownRules
<1> QED
  BY <1>1, <1>4 DEF patch, deposit

\* The salon's policy is kept, on every customer's facts: a booking that went
\* through the gate is for colour work, not on a Sunday, by someone known to be
\* no child, 48 hours ahead if it is a first colour visit, and on record as owing
\* a deposit if its price asks for one.
THEOREM SalonPolicyKept == Spec => []PolicyKept
<1>1. IInv => PolicyKept
  <2> DEFINE f == run.case.facts
             patch == Rule("patch_test_first_colour", 1,
                           All({Colour, IsFirstVisit}), "require_lead_time", {48})
             deposit == Rule("deposit_over_threshold", 1,
                             All({Colour, IsDear}), "require_deposit", {})
             child == Rule("under_16_needs_guardian", 1,
                           All({Colour, IsChild}), "require_escalation", {})
             sunday == Rule("no_colour_on_sunday", 3,
                            All({Colour, IsSunday}), "deny", {})
  <2> SUFFICES ASSUME IInv, Done, run.gateOn, run.booked
               PROVE  /\ f["service_category"] = Str("colour")
                      /\ f["requested_weekday"] \notin {Missing, Str("sunday")}
                      /\ NumberFrom(f["customer_age"], 16)
                      /\ f["is_first_colour_visit"] # Missing
                      /\ f["is_first_colour_visit"] = Bool(TRUE) =>
                            NumberFrom(f["hours_until_appointment"], 48)
                      /\ f["quoted_price_minor"] # Missing
                      /\ IsNumber(f["quoted_price_minor"])
                      /\ DepositOnRecord(f["quoted_price_minor"], run.record)
    BY DEF PolicyKept
  <2>1. Evaluate(Colour, f) = "true" /\ f \in FactBags
    BY BookedIsColour, HarnessAssumption DEF HarnessAssumption, IInv, CaseGiven, Done
  <2>2. /\ child \in Rules /\ child.outcome \in Forbids
        /\ child.condition = All({Colour, IsChild})
        /\ sunday \in Rules /\ sunday.outcome \in Forbids
        /\ sunday.condition = All({Colour, IsSunday})
    BY ShippedAssumption DEF ShippedAssumption, SalonRules, Rule, Forbids
  <2>3. /\ patch.outcome = "require_lead_time" /\ patch.hours = {48}
        /\ patch.condition = All({Colour, IsFirstVisit})
        /\ deposit.condition = All({Colour, IsDear})
        /\ Ref(deposit) = <<"deposit_over_threshold", 1>>
    BY DEF Rule, Ref
  <2>4. /\ patch \in Rules /\ patch \notin UnknownRules(f)
        /\ deposit \in Rules /\ deposit \notin UnknownRules(f)
    BY FinerDecided
  <2> HIDE DEF f, patch, deposit, child, sunday
  <2>5. Evaluate(IsSunday, f) = "false" /\ Evaluate(IsChild, f) = "false"
    BY <2>1, <2>2, NotForbidden, ShippedConditions, WithColour DEF f
  <2>6. /\ f["requested_weekday"] \notin {Missing, Str("sunday")}
        /\ NumberFrom(f["customer_age"], 16)
    BY <2>5, SundayReads, ChildReads
  <2>7. Evaluate(IsFirstVisit, f) # "unknown"
    BY <2>1, <2>3, <2>4, RuleHeard, WithColour
  <2>8. ASSUME f["is_first_colour_visit"] = Bool(TRUE)
        PROVE  NumberFrom(f["hours_until_appointment"], 48)
    <3>1. Evaluate(IsFirstVisit, f) = "true"
      BY <2>7, <2>8, FirstVisitReads
    <3>2. patch \in MatchingRules(f)
      BY <2>1, <2>3, <2>4, <3>1, RuleHeard, WithColour
    <3>3. LeadTimeMet(patch, f)
      BY <2>3, <3>2, BookedPassedGate DEF RulesPermit, f
    <3> QED
      BY <2>1, <2>3, <3>3, ShippedAssumption
      DEF LeadTimeMet, ShippedAssumption, NumberFrom, AtLeastHours
  <2>9. Evaluate(IsDear, f) # "unknown"
    BY <2>1, <2>3, <2>4, RuleHeard, WithColour
  <2>10. DepositOnRecord(f["quoted_price_minor"], run.record)
    <3> SUFFICES ASSUME AsNumber(f["quoted_price_minor"]) >= 15000
                 PROVE  <<"deposit_over_threshold", 1>> \in run.record.proposal.cited
      BY DEF DepositOnRecord
    <3>1. Evaluate(IsDear, f) = "true"
      BY <2>9, DearReads
    <3>2. deposit \in MatchingRules(f)
      <4>1. Evaluate(deposit.condition, f) = "true"
        BY <2>1, <2>3, <3>1, WithColour
      <4> QED
        BY <2>1, <2>4, <4>1, RuleHeard
    <3>3. deposit \in Cited(run.proposal)
      BY <3>2, BookedPassedGate DEF f
    <3>4. run.record.proposal = run.proposal
      BY DEF IInv, Recorded
    <3> QED
      BY <2>3, <3>3, <3>4 DEF Cited
  <2>11. f["service_category"] = Str("colour") /\ f["is_first_colour_visit"] # Missing
    BY <2>1, <2>7, ColourReads, FirstVisitReads
  <2>12. f["quoted_price_minor"] # Missing /\ IsNumber(f["quoted_price_minor"])
    BY <2>9, DearReads
  <2> QED
    BY <2>6, <2>8, <2>10, <2>11, <2>12
<1> QED
  BY <1>1, IInvHolds, PTL

-----------------------------------------------------------------------------
\* The same comparisons the other way round: what a known fact makes them answer.
LEMMA ColourAnswers ==
    ASSUME NEW f, f["service_category"] = Str("colour"), f["service_category"] # Missing
    PROVE  Evaluate(Colour, f) = "true"
<1> DEFINE v == f["service_category"]
<1>1. Evaluate(Colour, f) =
         IF v = Missing THEN "unknown" ELSE Compare("eq", v, Str("colour"))
  BY ShippedConditions, ComparisonReads DEF Colour
<1> HIDE DEF v
<1>2. Compare("eq", v, Str("colour")) = Truth(Same(v, Str("colour")))
  BY DEF Compare, Orders
<1>3. v = Str("colour")
  BY DEF v
<1> QED
  BY <1>1, <1>2, <1>3, TextEquals DEF Truth

LEMMA SundayAnswers ==
    ASSUME NEW f, f["requested_weekday"] \notin {Missing, Str("sunday")}
    PROVE  Evaluate(IsSunday, f) = "false"
<1> DEFINE v == f["requested_weekday"]
<1>1. Evaluate(IsSunday, f) =
         IF v = Missing THEN "unknown" ELSE Compare("eq", v, Str("sunday"))
  BY ShippedConditions, ComparisonReads DEF IsSunday
<1> HIDE DEF v
<1>2. Compare("eq", v, Str("sunday")) = Truth(Same(v, Str("sunday")))
  BY DEF Compare, Orders
<1>3. v # Missing /\ v # Str("sunday")
  BY DEF v
<1> QED
  BY <1>1, <1>2, <1>3, TextEquals DEF Truth

LEMMA ChildAnswers ==
    ASSUME NEW f, NumberFrom(f["customer_age"], 16)
    PROVE  Evaluate(IsChild, f) = "false"
<1> DEFINE v == f["customer_age"]
<1>1. Evaluate(IsChild, f) =
         IF v = Missing THEN "unknown" ELSE Compare("lt", v, Num(16))
  BY ShippedConditions, ComparisonReads DEF IsChild
<1>2. v # Missing /\ IsNumber(v) /\ ~(AsNumber(v) < 16)
  BY DEF NumberFrom
<1> HIDE DEF v
<1>3. Compare("lt", v, Num(16)) =
         IF IsNumber(v) /\ IsNumber(Num(16))
         THEN Truth(Ordered("lt", AsNumber(v), AsNumber(Num(16)))) ELSE "unknown"
  BY DEF Compare, Orders
<1>4. AsNumber(Num(16)) = 16 /\ IsNumber(Num(16))
  BY DEF AsNumber, IsNumber, Num
<1>5. Ordered("lt", AsNumber(v), 16) = (AsNumber(v) < 16)
  BY DEF Ordered
<1> QED
  BY <1>1, <1>2, <1>3, <1>4, <1>5 DEF Truth

LEMMA DearAnswers ==
    ASSUME NEW f, f["quoted_price_minor"] # Missing, IsNumber(f["quoted_price_minor"])
    PROVE  Evaluate(IsDear, f) # "unknown"
<1> DEFINE v == f["quoted_price_minor"]
<1>1. Evaluate(IsDear, f) =
         IF v = Missing THEN "unknown" ELSE Compare("gte", v, Num(15000))
  BY ShippedConditions, ComparisonReads DEF IsDear
<1>2. v # Missing /\ IsNumber(v)
  OBVIOUS
<1> HIDE DEF v
<1>3. Compare("gte", v, Num(15000)) =
         IF IsNumber(v) /\ IsNumber(Num(15000))
         THEN Truth(Ordered("gte", AsNumber(v), AsNumber(Num(15000)))) ELSE "unknown"
  BY DEF Compare, Orders
<1>4. IsNumber(Num(15000))
  BY DEF IsNumber, Num
<1> QED
  BY <1>1, <1>2, <1>3, <1>4 DEF Truth

LEMMA FirstVisitAnswers ==
    ASSUME NEW f, f["is_first_colour_visit"] # Missing
    PROVE  /\ Evaluate(IsFirstVisit, f) # "unknown"
           /\ Evaluate(IsFirstVisit, f) = "true" => f["is_first_colour_visit"] = Bool(TRUE)
<1> DEFINE v == f["is_first_colour_visit"]
<1>1. Evaluate(IsFirstVisit, f) =
         IF v = Missing THEN "unknown" ELSE Compare("is_true", v, Missing)
  BY ShippedConditions, ComparisonReads DEF IsFirstVisit
<1> HIDE DEF v
<1>2. Compare("is_true", v, Missing) = Truth(v = Bool(TRUE))
  BY DEF Compare, Orders
<1> QED
  BY <1>1, <1>2 DEF Truth, v

\* The salon's policy asks no more than it says: colour work on the free slot that
\* meets the five sentences is booked, on every customer's facts that are known
\* and of their types.
THEOREM SalonPolicySuffices == Spec => []PolicySuffices
<1>1. IInv /\ GoodCasesGoThrough => PolicySuffices
  <2> DEFINE f == run.case.facts
  <2> SUFFICES ASSUME IInv, GoodCasesGoThrough,
                      Done, run.case.slot = GOOD_SLOT,
                      f["service_category"] # Missing, f["is_first_colour_visit"] # Missing,
                      f["quoted_price_minor"] # Missing, f["requested_weekday"] # Missing,
                      IsNumber(f["quoted_price_minor"]),
                      f["service_category"] = Str("colour"),
                      f["requested_weekday"] # Str("sunday"),
                      NumberFrom(f["customer_age"], 16),
                      f["is_first_colour_visit"] = Bool(TRUE) =>
                         NumberFrom(f["hours_until_appointment"], 48)
               PROVE  run.booked
    BY DEF PolicySuffices
  <2>1. f \in FactBags
    BY HarnessAssumption DEF HarnessAssumption, IInv, CaseGiven, Done
  <2>2. /\ Evaluate(Colour, f) = "true" /\ Evaluate(IsSunday, f) = "false"
        /\ Evaluate(IsChild, f) = "false" /\ Evaluate(IsDear, f) # "unknown"
        /\ Evaluate(IsFirstVisit, f) # "unknown"
        /\ Evaluate(IsFirstVisit, f) = "true" => f["is_first_colour_visit"] = Bool(TRUE)
    BY ColourAnswers, SundayAnswers, ChildAnswers, DearAnswers, FirstVisitAnswers
  <2>3. \A c \in {IsFirstVisit, IsDear, IsChild, IsSunday} :
           Evaluate(All({Colour, c}), f) = Evaluate(c, f)
    BY <2>2, WithColour
  <2>4. ASSUME NEW r \in Rules
        PROVE  /\ Evaluate(r.condition, f) # "unknown"
               /\ r.outcome \in Forbids => Evaluate(r.condition, f) = "false"
               /\ r.outcome = "require_lead_time" =>
                     r.condition = All({Colour, IsFirstVisit}) /\ r.hours = {48}
    <3>1. /\ r.condition = Colour \/ r.condition = All({Colour, IsFirstVisit})
             \/ r.condition = All({Colour, IsDear}) \/ r.condition = All({Colour, IsChild})
             \/ r.condition = All({Colour, IsSunday})
          /\ r.outcome \in Forbids =>
                r.condition = All({Colour, IsChild}) \/ r.condition = All({Colour, IsSunday})
          /\ r.outcome = "require_lead_time" =>
                r.condition = All({Colour, IsFirstVisit}) /\ r.hours = {48}
      BY ShippedAssumption DEF ShippedAssumption, SalonRules, Rule, Forbids
    <3> QED
      BY <2>2, <2>3, <3>1
  <2>5. UnknownRules(f) = {} /\ \A r \in MatchingRules(f) : r.outcome \notin Forbids
    BY <2>1, <2>4, RuleHeard DEF MatchingRules, UnknownRules
  <2>6. \E r \in MatchingRules(f) : r.outcome \in AllowsBooking
    <3> DEFINE allowed == Rule("colour_allowed", 1, Colour, "allow", {})
    <3>1. allowed \in Rules /\ allowed.condition = Colour /\ allowed.outcome \in AllowsBooking
      BY ShippedAssumption DEF ShippedAssumption, SalonRules, Rule, AllowsBooking
    <3> HIDE DEF allowed
    <3> QED
      BY <2>1, <2>2, <3>1, RuleHeard
  <2>7. ASSUME NEW r \in MatchingRules(f), r.outcome = "require_lead_time"
        PROVE  LeadTimeMet(r, f)
    <3>1. r \in Rules /\ Evaluate(r.condition, f) = "true" /\ r.hours = {48}
      BY <2>1, <2>4, <2>7, RuleHeard DEF MatchingRules
    <3>2. f["is_first_colour_visit"] = Bool(TRUE)
      BY <2>2, <2>3, <2>4, <2>7, <3>1
    <3>3. f["hours_until_appointment"] # Missing /\ AtLeast(f["hours_until_appointment"], 48)
      BY <2>1, <3>2, ShippedAssumption DEF ShippedAssumption, NumberFrom, AtLeastHours
    <3> QED
      BY <3>1, <3>3 DEF LeadTimeMet
  <2>8. Booking
    <3>1. ProposedAction(f) = "book"
      BY <2>5 DEF ProposedAction, MatchingWith, Gaps, Forbids
    <3>2. run.proposal = Proposed(Me, f)
      BY DEF IInv, ProposedFromFacts, Done
    <3> QED
      BY <3>1, <3>2 DEF Booking, Proposed
  <2> QED
    BY <2>5, <2>6, <2>7, <2>8 DEF GoodCasesGoThrough
<1> QED
  BY <1>1, IInvHolds, NoWall, PTL
=============================================================================
