------------------------------- MODULE Window -------------------------------
(***************************************************************************)
(* The reply window (escalation.py).  A customer's message opens it for 24 *)
(* hours; an escalation can still be answered when a template is approved  *)
(* for its reason and the window stays open for the margin.  Instants are  *)
(* as fine as the clock's; hours are counted in thousandths, to which the  *)
(* code rounds them.                                                       *)
(***************************************************************************)
EXTENDS Integers

CONSTANT PerSecond    \* how many instants make a second (datetime: a million)

ASSUME WindowAssumption == PerSecond \in Nat \ {0}

Seconds(n) == n * PerSecond
Hours(n)   == Seconds(3600 * n)

WINDOW_HOURS == 24
ESCALATION_MARGIN_HOURS == 2

WindowClosesAt(lastInboundAt) == lastInboundAt + Hours(WINDOW_HOURS)

\* A window that has closed has nothing left (clock.py: hours_between).
TimeBetween(earlier, later) == IF later < earlier THEN 0 ELSE later - earlier

\* Mutant of HoursLeft: rounded to the hour.
HoursLeftRough(lastInboundAt, now) ==
    1000 * ((TimeBetween(now, WindowClosesAt(lastInboundAt)) + Seconds(1800)) \div Hours(1))

\* A thousandth of an hour is 3.6 seconds; round() takes the nearest, whatever
\* the fraction of a second.  Of two as near it takes either, as the float falls;
\* of 1.999 and 2.000, the only two compared, the second.
HoursLeft(lastInboundAt, now) ==
    (5 * TimeBetween(now, WindowClosesAt(lastInboundAt)) + Seconds(9)) \div Seconds(18)

\* registry says of each reason that has a template whether it is approved
\* (TemplateRegistry.find: the first template of a reason counts).
WhyNot(hoursLeft, reason, registry) ==
    IF reason \notin DOMAIN registry THEN "no_template"
    ELSE IF ~registry[reason] THEN "not_approved"
    ELSE IF hoursLeft < 1000 * ESCALATION_MARGIN_HOURS THEN "below_margin"
    ELSE ""

\* What the gate is shown; the hours left go with it for the record only.
WindowView(lastInboundAt, now, reason, registry) ==
    LET whyNot == WhyNot(HoursLeft(lastInboundAt, now), reason, registry)
    IN  [why_not |-> whyNot, deliverable |-> whyNot = ""]
=============================================================================
