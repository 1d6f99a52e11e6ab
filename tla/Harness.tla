------------------------------ MODULE Harness -------------------------------
(***************************************************************************)
(* The case harness (harness.py: run_cases), the one place in the code     *)
(* where all parts meet.  A case has its own calendar: someone else may    *)
(* hold the slot first, then the proposer proposes, a booking takes a      *)
(* hold, the gate is shown the slot and the reply window, and what it lets *)
(* through is committed.  A record of it is kept.  The gate may be off.    *)
(***************************************************************************)
EXTENDS Gate, Propose, Window

CONSTANTS
    Cases,                   \* records [facts, slot, into]
    Registries,              \* which templates exist, and are approved
    GOOD_SLOT, TAKEN_SLOT,
    Me, SomeoneElse,         \* the threads: the case's, and the rival's
    MaxInto,                 \* bound: how late a case may come
    None

HOLD_TTL_SECONDS == 600
HoldTTL == Seconds(HOLD_TTL_SECONDS)

ASSUME HarnessAssumption ==
    /\ MaxInto \in Nat
    /\ \A c \in Cases : c.facts \in FactBags /\ c.into \in 0..MaxInto
    /\ Me # SomeoneElse /\ None \notin {Me, SomeoneElse}
    /\ GOOD_SLOT # TAKEN_SLOT

VARIABLES
    clock, counter, holds, bookings, byKey, reply,    \* the MockCalendar
    step,                                             \* where the loop is
    run                                               \* its local variables

cal == <<clock, counter, holds, bookings, byKey, reply>>
vars == <<cal, step, run>>

\* One case makes one booking at most, so one idempotency key.
Calendar == INSTANCE Calendar WITH
    Slots <- {GOOD_SLOT, TAKEN_SLOT}, Requests <- {c.slot : c \in Cases},
    Threads <- {Me, SomeoneElse}, Keys <- {"book"}, TTL <- HoldTTL,
    MaxHolds <- 2, MaxTime <- MaxInto + HoldTTL

NoRun ==
    [case |-> None, gateOn |-> FALSE, registry |-> None, proposal |-> None,
     reason |-> "", holdId |-> 0, view |-> None, window |-> None,
     verdict |-> None, booked |-> FALSE, record |-> None]

GoTo(next) == step' = next

-----------------------------------------------------------------------------
Init == Calendar!Init /\ step = "begin" /\ run = NoRun

\* A new calendar; `now' is the case's distance from the START of its window.
BeginCase ==
    /\ step = "begin" /\ GoTo("rival")
    /\ \E c \in Cases, gateOn \in BOOLEAN, registry \in Registries :
          /\ run' = [NoRun EXCEPT !.case = c, !.gateOn = gateOn, !.registry = registry]
          /\ clock' = c.into
    /\ counter' = 0
    /\ holds' = << >> /\ bookings' = << >> /\ byKey' = << >>
    /\ reply' = Calendar!NoReply

\* A case that names the taken slot comes second.
Rival ==
    /\ step = "rival" /\ GoTo("propose")
    /\ IF run.case.slot = TAKEN_SLOT
       THEN Calendar!Hold(TAKEN_SLOT, SomeoneElse)
       ELSE UNCHANGED cal
    /\ UNCHANGED run

Propose ==
    /\ step = "propose" /\ GoTo("hold")
    /\ LET p == Proposed(Me, run.case.facts)
       IN  \E reason \in IF p.action = "escalate" THEN EscalationReasons(p.facts) ELSE {""} :
              run' = [run EXCEPT !.proposal = p, !.reason = reason]
    /\ UNCHANGED cal

\* A booking takes a hold first; a refusal leaves it without (hold number 0).
TakeHold ==
    /\ step = "hold" /\ GoTo("judge")
    /\ IF run.proposal.action = "book" /\ run.case.slot # TAKEN_SLOT
       THEN /\ Calendar!Hold(run.case.slot, Me)
            /\ run' = [run EXCEPT !.holdId = reply'.id]
       ELSE UNCHANGED <<cal, run>>

\* case.slot_id or GOOD_SLOT
SlotViewed == IF run.case.slot = None THEN GOOD_SLOT ELSE run.case.slot

Judge ==
    /\ step = "judge" /\ GoTo("commit")
    /\ LET view   == Calendar!View(SlotViewed)
           window == WindowView(0, clock, run.reason, run.registry)
       IN  run' = [run EXCEPT
                     !.view = view, !.window = window,
                     !.verdict = IF run.gateOn
                                 THEN Evaluated(run.proposal, view, window.deliverable)
                                 ELSE Passed]
    /\ UNCHANGED cal

MayBook == run.verdict.allowed /\ run.proposal.action = "book" /\ run.holdId # 0

\* Mutant of Commit: booked is what the verdict says.
CommitAsJudged ==
    /\ step = "commit" /\ GoTo("record")
    /\ IF MayBook THEN Calendar!Commit(run.holdId, "book") ELSE UNCHANGED cal
    /\ run' = [run EXCEPT !.booked = run.verdict.allowed /\ run.proposal.action = "book"]

Commit ==
    /\ step = "commit" /\ GoTo("record")
    /\ IF MayBook
       THEN /\ Calendar!Commit(run.holdId, "book")
            /\ run' = [run EXCEPT !.booked = reply'.refused = "no"]
       ELSE UNCHANGED <<cal, run>>

\* The AuditRecord.
Record ==
    /\ step = "record" /\ GoTo("end")
    /\ run' = [run EXCEPT !.record =
                  [proposal |-> run.proposal, verdict |-> run.verdict,
                   calendar_read |-> run.view, window_read |-> run.window]]
    /\ UNCHANGED cal

EndCase ==
    /\ step = "end" /\ GoTo("begin")
    /\ run' = NoRun
    /\ UNCHANGED cal

Next == BeginCase \/ Rival \/ Propose \/ TakeHold \/ Judge \/ Commit \/ Record \/ EndCase

Spec == Init /\ [][Next]_vars

-----------------------------------------------------------------------------
(***************************************************************************)
(* Properties.                                                             *)
(***************************************************************************)

Done == step = "end"
Judged == step \in {"commit", "record", "end"}
Booking == run.proposal.action = "book"

\* What is reported as booked is in the calendar, for this customer and on the
\* slot the case asked for, and nothing else is (harness.py:126-128), gate or
\* no gate.
BookedIsCommitted ==
    Done => {<<bookings[b].slot, bookings[b].thread>> : b \in DOMAIN bookings}
              = IF run.booked THEN {<<run.case.slot, Me>>} ELSE {}

\* Whatever the policy, what ends in the calendar is what all of its rules
\* permit on the customer's facts, cited or not: one that applies allows it, none
\* that applies or may apply forbids it, and every lead time that applies is met.
BookedIsPermitted ==
    LET f == run.case.facts
    IN  Done /\ run.gateOn /\ run.booked =>
            /\ \E r \in MatchingRules(f) : r.outcome \in AllowsBooking
            /\ \A r \in MatchingRules(f) \cup UnknownRules(f) : r.outcome \notin Forbids
            /\ \A r \in MatchingRules(f) : r.outcome = "require_lead_time" => LeadTimeMet(r, f)

\* The gate lets a booking through only while the hold the proposal names
\* stands on the slot the customer asked for: no hold of someone else, and no
\* other slot, makes it say yes.
VerdictIsAboutOurHold ==
    Judged /\ run.gateOn /\ run.verdict.allowed /\ Booking =>
        /\ run.view.hold_id = run.holdId
        /\ run.holdId # 0
        /\ holds[run.holdId].slot = run.case.slot
        /\ holds[run.holdId].thread = Me

\* An escalation is let through only with an approved template for its reason
\* and the margin left to answer in, to within the 1.8 seconds (9/5: half a
\* thousandth of an hour) that rounding the hours gives away.
EscalationInTime ==
    Judged /\ run.gateOn /\ run.verdict.allowed /\ run.proposal.action = "escalate" =>
        /\ run.reason \in DOMAIN run.registry /\ run.registry[run.reason]
        /\ 5 * (clock + Hours(ESCALATION_MARGIN_HOURS) - WindowClosesAt(0)) <= Seconds(9)

\* No wall: once every rule is decided, a booking on the free slot that some rule
\* allows, with its lead times met, ends in the calendar, and an escalation that
\* has its template and its margin is let through: the hold the harness takes
\* first, the view it reads and the gate's checks never stop a good case
\* (harness.py:108-138), gate or no gate.
GoodCasesGoThrough ==
    LET f == run.case.facts
    IN  Done /\ UnknownRules(f) = {} =>
            /\ Booking /\ run.case.slot = GOOD_SLOT
               /\ (\E r \in MatchingRules(f) : r.outcome \in AllowsBooking)
               /\ (\A r \in MatchingRules(f) : r.outcome = "require_lead_time" => LeadTimeMet(r, f))
               => run.booked
            /\ run.proposal.action = "escalate"
               /\ run.reason \in DOMAIN run.registry /\ run.registry[run.reason]
               /\ clock + Hours(ESCALATION_MARGIN_HOURS) <= WindowClosesAt(0)
               => run.verdict.allowed

-----------------------------------------------------------------------------
\* The design, section 1: "A failed booking releases the hold."  No code calls
\* release, so the hold of a booking the gate stopped stands until it runs out.
FailedBookingReleases ==
    Done /\ run.holdId # 0 /\ ~run.booked => ~Calendar!IsLive(run.holdId)
=============================================================================
