------------------------------ MODULE MCSalon -------------------------------
(***************************************************************************)
(* Facts to run the shipped policy on.  Every fact takes a value on each   *)
(* side of the rule that reads it; the age also one that cannot be         *)
(* compared with a number (tests/test_evaluate.py:67).                     *)
(***************************************************************************)
EXTENDS Salon

MCFactNames ==
    {"service_category", "is_first_colour_visit", "quoted_price_minor",
     "customer_age", "requested_weekday", "hours_until_appointment"}

MCValues ==
    [service_category        |-> {Str("colour"), Str("cut")},
     is_first_colour_visit   |-> {Bool(TRUE), Bool(FALSE)},
     quoted_price_minor      |-> {Num(14999), Num(15000)},
     customer_age            |-> {Num(15), Num(16), Str("sixteen")},
     requested_weekday       |-> {Str("sunday"), Str("monday")},
     hours_until_appointment |-> {Num(47), Num(48)}]

Facet(n) == {Missing} \cup MCValues[n]

MCFactBags ==
    {[service_category        |-> s, is_first_colour_visit |-> v,
      quoted_price_minor      |-> p, customer_age          |-> a,
      requested_weekday       |-> w, hours_until_appointment |-> h] :
        s \in Facet("service_category"), v \in Facet("is_first_colour_visit"),
        p \in Facet("quoted_price_minor"), a \in Facet("customer_age"),
        w \in Facet("requested_weekday"), h \in Facet("hours_until_appointment")}
=============================================================================
