------------------------------- MODULE Salon --------------------------------
(***************************************************************************)
(* The salon's policy as shipped (policy/salon.rules.json).                *)
(***************************************************************************)
EXTENDS Policy

Colour == Comparison("service_category", "eq", Str("colour"))

IsFirstVisit == Comparison("is_first_colour_visit", "is_true", Missing)
IsDear       == Comparison("quoted_price_minor", "gte", Num(15000))
IsChild      == Comparison("customer_age", "lt", Num(16))
IsSunday     == Comparison("requested_weekday", "eq", Str("sunday"))

SalonLevels ==
    <<{Colour, IsFirstVisit, IsDear, IsChild, IsSunday},
      {All({Colour, c}) : c \in {IsFirstVisit, IsDear, IsChild, IsSunday}}>>

SalonRules ==
    {Rule("colour_allowed", 1, Colour, "allow", {}),
     Rule("patch_test_first_colour", 1,
          All({Colour, IsFirstVisit}), "require_lead_time", {48}),
     Rule("deposit_over_threshold", 1,
          All({Colour, IsDear}), "require_deposit", {}),
     Rule("under_16_needs_guardian", 1,
          All({Colour, IsChild}), "require_escalation", {}),
     Rule("no_colour_on_sunday", 3,
          All({Colour, IsSunday}), "deny", {})}
=============================================================================
