--------------------------- MODULE HarnessProofs ----------------------------
(***************************************************************************)
(* Theorems about the case harness, for every policy, every set of cases   *)
(* and templates: what a case leaves behind in its calendar is what the    *)
(* gate's verdict on it accounts for, and that verdict is no wall.         *)
(***************************************************************************)
EXTENDS Harness, TLAPS

-----------------------------------------------------------------------------
(***************************************************************************)
(* The inductive invariant.  The properties speak of the end of a case; it *)
(* says what each step leaves to the next.                                 *)
(***************************************************************************)
Steps == {"begin", "rival", "propose", "hold", "judge", "commit", "record", "end"}

\* run has the fields it started with.
RunShape ==
    run = [case |-> run.case, gateOn |-> run.gateOn, registry |-> run.registry,
           proposal |-> run.proposal, reason |-> run.reason, holdId |-> run.holdId,
           view |-> run.view, window |-> run.window, verdict |-> run.verdict,
           booked |-> run.booked, record |-> run.record]

CaseGiven ==
    step # "begin" =>
        run.case \in Cases /\ run.gateOn \in BOOLEAN /\ clock = run.case.into

\* There is one hold at most.  On the taken slot it is the rival's, and else it
\* is ours, the one that run.holdId names.
OneHold ==
    step # "begin" =>
        /\ counter \in {0, 1} /\ DOMAIN holds = 1..counter
        /\ run.case.slot = TAKEN_SLOT =>
              /\ run.holdId = 0
              /\ \A i \in DOMAIN holds : holds[i].thread = SomeoneElse
        /\ run.case.slot # TAKEN_SLOT =>
              /\ run.holdId = counter
              /\ \A i \in DOMAIN holds :
                    holds[i].thread = Me /\ holds[i].slot = run.case.slot

NotYetHeld ==
    /\ step = "rival" => counter = 0
    /\ step \in {"rival", "propose", "hold"} => run.holdId = 0

NothingBooked ==
    step \in {"rival", "propose", "hold", "judge", "commit"} =>
        DOMAIN bookings = {} /\ DOMAIN byKey = {} /\ run.booked = FALSE

ProposedFromFacts ==
    step \in {"hold", "judge", "commit", "record", "end"} =>
        run.proposal = Proposed(Me, run.case.facts)

JudgedAsShown ==
    Judged =>
        /\ run.window = WindowView(0, clock, run.reason, run.registry)
        /\ run.verdict = IF run.gateOn
                         THEN Evaluated(run.proposal, run.view, run.window.deliverable)
                         ELSE Passed

Committed ==
    step \in {"record", "end"} =>
        /\ {<<bookings[b].slot, bookings[b].thread>> : b \in DOMAIN bookings}
              = IF run.booked THEN {<<run.case.slot, Me>>} ELSE {}
        /\ run.booked => run.verdict.allowed /\ Booking

Recorded ==
    Done => run.record = [proposal |-> run.proposal, verdict |-> run.verdict,
                          calendar_read |-> run.view, window_read |-> run.window]

IInv ==
    /\ step \in Steps
    /\ RunShape
    /\ CaseGiven
    /\ OneHold
    /\ NotYetHeld
    /\ NothingBooked
    /\ ProposedFromFacts
    /\ JudgedAsShown
    /\ VerdictIsAboutOurHold
    /\ Committed
    /\ Recorded

-----------------------------------------------------------------------------
\* What the gate's yes to a booking rests on, and its yes to an escalation.
LEMMA AllowedBooking ==
    ASSUME NEW p, NEW view, NEW deliverable,
           Evaluated(p, view, deliverable).allowed, p.action = "book"
    PROVE  FactsSupport(p) /\ ~OverrideMissed(p) /\ RulesPermit(p) /\ SlotIsOurs(p, view)
    BY DEF Evaluated, Blocked, Passed

LEMMA AllowedEscalation ==
    ASSUME NEW p, NEW view, NEW deliverable,
           Evaluated(p, view, deliverable).allowed, p.action = "escalate"
    PROVE  deliverable
    BY DEF Evaluated, Blocked, Passed

\* The calendar shows our thread as the holder only of the hold run.holdId
\* names, and that one stands on the slot of the case.
LEMMA HolderIsUs ==
    ASSUME step # "begin", OneHold, Calendar!View(SlotViewed).held_by_thread = Me
    PROVE  /\ Calendar!View(SlotViewed).hold_id = run.holdId
           /\ run.holdId # 0
           /\ holds[run.holdId].slot = run.case.slot
           /\ holds[run.holdId].thread = Me
<1> DEFINE live == Calendar!LiveHolds(SlotViewed)
           first == Calendar!LiveHoldFor(SlotViewed)
<1>1. live # {} /\ holds[first].thread = Me /\ Calendar!View(SlotViewed).hold_id = first
  BY HarnessAssumption DEF HarnessAssumption, Calendar!View
<1>2. live \subseteq DOMAIN holds
  BY DEF Calendar!LiveHolds
<1>3. counter = 1 /\ live = {1}
  <2> HIDE DEF live
  <2> QED
    BY <1>1, <1>2 DEF OneHold
<1>4. first = 1
  BY <1>3 DEF Calendar!LiveHoldFor
<1>5. run.case.slot # TAKEN_SLOT
  BY <1>1, <1>3, <1>4, HarnessAssumption DEF OneHold, HarnessAssumption
<1> QED
  BY <1>1, <1>3, <1>4, <1>5 DEF OneHold

-----------------------------------------------------------------------------
\* The steps, one by one.
LEMMA BeginCaseKeeps == IInv /\ BeginCase => IInv'
<1> SUFFICES ASSUME IInv, BeginCase PROVE IInv'
  OBVIOUS
<1>1. PICK c \in Cases, gateOn \in BOOLEAN, registry \in Registries :
         /\ run' = [NoRun EXCEPT !.case = c, !.gateOn = gateOn, !.registry = registry]
         /\ clock' = c.into
  BY DEF BeginCase
<1>2. /\ step' = "rival" /\ counter' = 0
      /\ holds' = << >> /\ bookings' = << >> /\ byKey' = << >>
  BY DEF BeginCase, GoTo
<1>3. DOMAIN << >> = {} /\ 1..0 = {}
  OBVIOUS
<1>4. /\ RunShape' /\ run'.case = c /\ run'.gateOn = gateOn
      /\ run'.holdId = 0 /\ run'.booked = FALSE
  BY <1>1 DEF RunShape, NoRun
<1> QED
  BY <1>1, <1>2, <1>3, <1>4
  DEF IInv, Steps, CaseGiven, OneHold, NotYetHeld, NothingBooked, ProposedFromFacts,
      JudgedAsShown, VerdictIsAboutOurHold, Committed, Recorded, Judged, Done

\* Taking a hold in a calendar without one.
LEMMA FirstHold ==
    ASSUME counter = 0, DOMAIN holds = {}, NEW s, NEW t, Calendar!Hold(s, t)
    PROVE  /\ UNCHANGED <<clock, bookings, byKey>>
           /\ counter' \in {0, 1} /\ reply'.id = counter' /\ DOMAIN holds' = 1..counter'
           /\ \A i \in DOMAIN holds' : holds'[i].slot = s /\ holds'[i].thread = t
<1>1. CASE Calendar!HoldRefused(s)
  BY <1>1 DEF Calendar!HoldRefused, Calendar!Refused
<1>2. CASE Calendar!HoldGranted(s, t)
  <2> DEFINE new == [slot |-> s, thread |-> t, expires |-> clock + HoldTTL,
                     released |-> FALSE]
  <2>1. /\ UNCHANGED <<clock, bookings, byKey>>
        /\ counter' = 1 /\ reply'.id = 1
        /\ holds' = Calendar!Put(holds, 1, new)
    BY <1>2 DEF Calendar!HoldGranted, Calendar!Returned
  <2>2. DOMAIN holds' = {1} /\ holds'[1] = new
    <3> HIDE DEF new
    <3> QED
      BY <2>1 DEF Calendar!Put
  <2>3. new.slot = s /\ new.thread = t /\ 1..1 = {1}
    OBVIOUS
  <2> HIDE DEF new
  <2> QED
    BY <2>1, <2>2, <2>3
<1> QED
  BY <1>1, <1>2 DEF Calendar!Hold

LEMMA RivalKeeps == IInv /\ Rival => IInv'
<1> SUFFICES ASSUME IInv, Rival PROVE IInv'
  OBVIOUS
<1>1. step = "rival" /\ step' = "propose" /\ run' = run
  BY DEF Rival, GoTo
<1>2. counter = 0 /\ DOMAIN holds = {} /\ run.holdId = 0
  BY <1>1 DEF IInv, OneHold, NotYetHeld
<1>3. OneHold' /\ UNCHANGED <<clock, bookings, byKey>>
  <2>1. CASE run.case.slot = TAKEN_SLOT
    <3>1. Calendar!Hold(TAKEN_SLOT, SomeoneElse)
      BY <2>1 DEF Rival
    <3> QED
      BY <1>1, <1>2, <2>1, <3>1, FirstHold DEF OneHold
  <2>2. CASE run.case.slot # TAKEN_SLOT
    BY <1>1, <1>2, <2>2 DEF Rival, cal, OneHold
  <2> QED
    BY <2>1, <2>2
<1> QED
  BY <1>1, <1>2, <1>3
  DEF IInv, Steps, RunShape, CaseGiven, NotYetHeld, NothingBooked, ProposedFromFacts,
      JudgedAsShown, VerdictIsAboutOurHold, Committed, Recorded, Judged, Done

LEMMA ProposeKeeps == IInv /\ Propose => IInv'
<1> SUFFICES ASSUME IInv, Propose PROVE IInv'
  OBVIOUS
<1> DEFINE p == Proposed(Me, run.case.facts)
<1>1. /\ step = "propose" /\ step' = "hold" /\ UNCHANGED cal
      /\ \E reason : run' = [run EXCEPT !.proposal = p, !.reason = reason]
  BY DEF Propose, GoTo
<1> HIDE DEF p
<1>2. /\ RunShape' /\ run'.proposal = p
      /\ run'.case = run.case /\ run'.gateOn = run.gateOn
      /\ run'.holdId = run.holdId /\ run'.booked = run.booked
  BY <1>1 DEF IInv, RunShape
<1> QED
  BY <1>1, <1>2
  DEF p, cal, IInv, Steps, CaseGiven, OneHold, NotYetHeld, NothingBooked, ProposedFromFacts,
      JudgedAsShown, VerdictIsAboutOurHold, Committed, Recorded, Judged, Done

LEMMA TakeHoldKeeps == IInv /\ TakeHold => IInv'
<1> SUFFICES ASSUME IInv, TakeHold PROVE IInv'
  OBVIOUS
<1>1. step = "hold" /\ step' = "judge"
  BY DEF TakeHold, GoTo
<1>2. /\ OneHold' /\ RunShape' /\ UNCHANGED <<clock, bookings, byKey>>
      /\ run'.case = run.case /\ run'.gateOn = run.gateOn
      /\ run'.proposal = run.proposal /\ run'.booked = run.booked
  <2>1. CASE run.proposal.action = "book" /\ run.case.slot # TAKEN_SLOT
    <3>1. /\ Calendar!Hold(run.case.slot, Me)
          /\ run' = [run EXCEPT !.holdId = reply'.id]
      BY <2>1 DEF TakeHold
    <3>2. counter = 0 /\ DOMAIN holds = {}
      BY <1>1, <2>1 DEF IInv, OneHold, NotYetHeld
    <3>3. RunShape' /\ run'.holdId = reply'.id /\ run'.case = run.case /\ run'.gateOn = run.gateOn
          /\ run'.proposal = run.proposal /\ run'.booked = run.booked
      BY <3>1 DEF IInv, RunShape
    <3>4. /\ UNCHANGED <<clock, bookings, byKey>>
          /\ counter' \in {0, 1} /\ reply'.id = counter' /\ DOMAIN holds' = 1..counter'
          /\ \A i \in DOMAIN holds' : holds'[i].slot = run.case.slot /\ holds'[i].thread = Me
      BY <3>1, <3>2, FirstHold
    <3> QED
      BY <2>1, <3>3, <3>4 DEF OneHold
  <2>2. CASE ~(run.proposal.action = "book" /\ run.case.slot # TAKEN_SLOT)
    BY <1>1, <2>2 DEF TakeHold, cal, IInv, OneHold, RunShape
  <2> QED
    BY <2>1, <2>2
<1> QED
  BY <1>1, <1>2
  DEF IInv, Steps, CaseGiven, NotYetHeld, NothingBooked, ProposedFromFacts,
      JudgedAsShown, VerdictIsAboutOurHold, Committed, Recorded, Judged, Done

LEMMA JudgeKeeps == IInv /\ Judge => IInv'
<1> SUFFICES ASSUME IInv, Judge PROVE IInv'
  OBVIOUS
<1> DEFINE view   == Calendar!View(SlotViewed)
           window == WindowView(0, clock, run.reason, run.registry)
           verdict == IF run.gateOn
                      THEN Evaluated(run.proposal, view, window.deliverable)
                      ELSE Passed
<1>1. /\ step = "judge" /\ step' = "commit" /\ UNCHANGED cal
      /\ run' = [run EXCEPT !.view = view, !.window = window, !.verdict = verdict]
  BY DEF Judge, GoTo
<1> HIDE DEF view, window, verdict
<1>2. /\ RunShape' /\ run'.view = view /\ run'.window = window /\ run'.verdict = verdict
      /\ run'.case = run.case /\ run'.gateOn = run.gateOn /\ run'.registry = run.registry
      /\ run'.proposal = run.proposal /\ run'.reason = run.reason
      /\ run'.holdId = run.holdId /\ run'.booked = run.booked
  BY <1>1 DEF IInv, RunShape
<1>3. UNCHANGED <<clock, counter, holds, bookings, byKey>>
  BY <1>1 DEF cal
<1>4. JudgedAsShown'
  BY <1>2, <1>3 DEF JudgedAsShown, view, window, verdict
<1>5. VerdictIsAboutOurHold'
  <2> SUFFICES ASSUME run.gateOn, verdict.allowed, run.proposal.action = "book"
               PROVE  /\ view.hold_id = run.holdId
                      /\ run.holdId # 0
                      /\ holds[run.holdId].slot = run.case.slot
                      /\ holds[run.holdId].thread = Me
    BY <1>2, <1>3 DEF VerdictIsAboutOurHold, Booking
  <2>1. SlotIsOurs(run.proposal, view)
    BY AllowedBooking DEF verdict
  <2>2. run.proposal.thread = Me
    BY <1>1 DEF IInv, ProposedFromFacts, Proposed
  <2>3. view.held_by_thread = Me
    BY <2>1, <2>2 DEF SlotIsOurs
  <2> QED
    BY <1>1, <2>3, HolderIsUs DEF IInv, view
<1> QED
  BY <1>1, <1>2, <1>3, <1>4, <1>5
  DEF IInv, Steps, CaseGiven, OneHold, NotYetHeld, NothingBooked, ProposedFromFacts,
      Committed, Recorded, Judged, Done

\* What a commit makes of a calendar without bookings.
LEMMA FirstCommit ==
    ASSUME DOMAIN bookings = {}, DOMAIN byKey = {}, NEW h, Calendar!Commit(h, "book")
    PROVE  /\ UNCHANGED <<clock, counter>> /\ DOMAIN holds' = DOMAIN holds
           /\ \A i \in DOMAIN holds :
                 holds'[i].slot = holds[i].slot /\ holds'[i].thread = holds[i].thread
           /\ {<<bookings'[b].slot, bookings'[b].thread>> : b \in DOMAIN bookings'}
                 = IF reply'.refused = "no" THEN {<<holds[h].slot, holds[h].thread>>} ELSE {}
<1>1. ~Calendar!CommitReplayed("book")
  BY DEF Calendar!CommitReplayed, Calendar!KnownKeys
<1>2. CASE Calendar!CommitRefused(h, "book")
  BY <1>2 DEF Calendar!CommitRefused, Calendar!Refused
<1>3. CASE Calendar!CommitMade(h, "book")
  <2> DEFINE new == [slot |-> holds[h].slot, thread |-> holds[h].thread, at |-> clock]
  <2>1. /\ bookings' = Calendar!Put(bookings, h, new) /\ reply'.refused = "no"
        /\ UNCHANGED <<clock, counter>> /\ holds' = [holds EXCEPT ![h].released = TRUE]
    BY <1>3 DEF Calendar!CommitMade, Calendar!UsedUp, Calendar!Returned
  <2>2. DOMAIN bookings' = {h} /\ bookings'[h] = new
    <3> HIDE DEF new
    <3> QED
      BY <2>1 DEF Calendar!Put
  <2>3. {<<bookings'[b].slot, bookings'[b].thread>> : b \in DOMAIN bookings'}
           = {<<bookings'[h].slot, bookings'[h].thread>>}
    BY <2>2
  <2>4. DOMAIN holds' = DOMAIN holds
        /\ \A i \in DOMAIN holds :
              holds'[i].slot = holds[i].slot /\ holds'[i].thread = holds[i].thread
    BY <2>1
  <2> QED
    BY <2>1, <2>2, <2>3, <2>4
<1> QED
  BY <1>1, <1>2, <1>3 DEF Calendar!Commit

LEMMA CommitKeeps == IInv /\ Commit => IInv'
<1> SUFFICES ASSUME IInv, Commit PROVE IInv'
  OBVIOUS
<1>1. step = "commit" /\ step' = "record"
  BY DEF Commit, GoTo
<1>2. DOMAIN bookings = {} /\ DOMAIN byKey = {} /\ run.booked = FALSE
  BY <1>1 DEF IInv, NothingBooked
<1>3. /\ RunShape' /\ UNCHANGED <<clock, counter>> /\ DOMAIN holds' = DOMAIN holds
      /\ \A i \in DOMAIN holds :
            holds'[i].slot = holds[i].slot /\ holds'[i].thread = holds[i].thread
      /\ run'.case = run.case /\ run'.gateOn = run.gateOn /\ run'.registry = run.registry
      /\ run'.proposal = run.proposal /\ run'.reason = run.reason
      /\ run'.holdId = run.holdId /\ run'.view = run.view /\ run'.window = run.window
      /\ run'.verdict = run.verdict
      /\ {<<bookings'[b].slot, bookings'[b].thread>> : b \in DOMAIN bookings'}
            = IF run'.booked THEN {<<run.case.slot, Me>>} ELSE {}
      /\ run'.booked => run.verdict.allowed /\ Booking
  <2>1. CASE MayBook
    <3>1. /\ Calendar!Commit(run.holdId, "book")
          /\ run' = [run EXCEPT !.booked = reply'.refused = "no"]
      BY <2>1 DEF Commit
    <3>2. /\ RunShape' /\ run'.booked = (reply'.refused = "no")
          /\ run'.case = run.case /\ run'.gateOn = run.gateOn /\ run'.registry = run.registry
          /\ run'.proposal = run.proposal /\ run'.reason = run.reason
          /\ run'.holdId = run.holdId /\ run'.view = run.view /\ run'.window = run.window
          /\ run'.verdict = run.verdict
      BY <3>1 DEF IInv, RunShape
    <3>3. /\ UNCHANGED <<clock, counter>> /\ DOMAIN holds' = DOMAIN holds
          /\ \A i \in DOMAIN holds :
                holds'[i].slot = holds[i].slot /\ holds'[i].thread = holds[i].thread
          /\ {<<bookings'[b].slot, bookings'[b].thread>> : b \in DOMAIN bookings'}
                = IF reply'.refused = "no"
                  THEN {<<holds[run.holdId].slot, holds[run.holdId].thread>>} ELSE {}
      BY <1>2, <3>1, FirstCommit
    <3>4. holds[run.holdId].slot = run.case.slot /\ holds[run.holdId].thread = Me
      <4>1. run.holdId # 0 /\ run.case.slot # TAKEN_SLOT /\ run.holdId \in DOMAIN holds
        BY <1>1, <2>1 DEF MayBook, IInv, OneHold
      <4> QED
        BY <1>1, <4>1 DEF IInv, OneHold
    <3>5. run.verdict.allowed /\ Booking
      BY <2>1 DEF MayBook, Booking
    <3> QED
      BY <3>2, <3>3, <3>4, <3>5
  <2>2. CASE ~MayBook
    <3>1. run' = run /\ UNCHANGED cal
      BY <2>2 DEF Commit
    <3>2. {<<bookings[b].slot, bookings[b].thread>> : b \in DOMAIN bookings} = {}
      BY <1>2
    <3> QED
      BY <1>2, <3>1, <3>2 DEF cal, IInv, RunShape
  <2> QED
    BY <2>1, <2>2
<1>4. OneHold'
  BY <1>1, <1>3 DEF IInv, OneHold
<1>5. VerdictIsAboutOurHold'
  <2> SUFFICES ASSUME run.gateOn, run.verdict.allowed, Booking
               PROVE  /\ run.view.hold_id = run.holdId
                      /\ run.holdId # 0
                      /\ holds'[run.holdId].slot = run.case.slot
                      /\ holds'[run.holdId].thread = Me
    BY <1>3 DEF VerdictIsAboutOurHold, Booking
  <2>1. /\ run.view.hold_id = run.holdId /\ run.holdId # 0
        /\ holds[run.holdId].slot = run.case.slot
        /\ holds[run.holdId].thread = Me
    BY <1>1 DEF IInv, VerdictIsAboutOurHold, Judged
  <2>2. run.holdId \in DOMAIN holds
    <3>1. Me # SomeoneElse
      BY HarnessAssumption DEF HarnessAssumption
    <3> QED
      BY <1>1, <2>1, <3>1 DEF IInv, OneHold
  <2> QED
    BY <1>3, <2>1, <2>2
<1>6. Committed'
  BY <1>3 DEF Committed, Booking
<1>7. JudgedAsShown'
  BY <1>1, <1>3 DEF IInv, JudgedAsShown, Judged
<1> QED
  BY <1>1, <1>3, <1>4, <1>5, <1>6, <1>7
  DEF IInv, Steps, CaseGiven, NotYetHeld, NothingBooked, ProposedFromFacts, Recorded, Judged, Done

LEMMA RecordKeeps == IInv /\ Record => IInv'
<1> SUFFICES ASSUME IInv, Record PROVE IInv'
  OBVIOUS
<1> DEFINE kept == [proposal |-> run.proposal, verdict |-> run.verdict,
                    calendar_read |-> run.view, window_read |-> run.window]
<1>1. /\ step = "record" /\ step' = "end" /\ UNCHANGED cal
      /\ run' = [run EXCEPT !.record = kept]
  BY DEF Record, GoTo
<1>2. /\ RunShape' /\ run'.record = kept
      /\ run'.case = run.case /\ run'.gateOn = run.gateOn /\ run'.registry = run.registry
      /\ run'.proposal = run.proposal /\ run'.reason = run.reason
      /\ run'.holdId = run.holdId /\ run'.view = run.view /\ run'.window = run.window
      /\ run'.verdict = run.verdict /\ run'.booked = run.booked
  <2> HIDE DEF kept
  <2> QED
    BY <1>1 DEF IInv, RunShape
<1>3. Recorded'
  BY <1>2 DEF Recorded
<1> HIDE DEF kept
<1> QED
  BY <1>1, <1>2, <1>3
  DEF IInv, cal, Steps, CaseGiven, OneHold, NotYetHeld, NothingBooked, ProposedFromFacts,
      JudgedAsShown, VerdictIsAboutOurHold, Booking, Committed, Judged, Done

LEMMA EndCaseKeeps == IInv /\ EndCase => IInv'
  BY DEF IInv, EndCase, GoTo, cal, Steps, RunShape, NoRun, CaseGiven, OneHold, NotYetHeld,
         NothingBooked, ProposedFromFacts, JudgedAsShown, VerdictIsAboutOurHold, Committed,
         Recorded, Judged, Done

LEMMA IInvHolds == Spec => []IInv
<1>1. Init => IInv
  BY DEF Init, IInv, Steps, RunShape, NoRun, CaseGiven, OneHold, NotYetHeld, NothingBooked,
         ProposedFromFacts, JudgedAsShown, VerdictIsAboutOurHold, Committed, Recorded,
         Judged, Done
<1>2. IInv /\ [Next]_vars => IInv'
  <2>1. IInv /\ UNCHANGED vars => IInv'
    BY DEF IInv, vars, cal, Steps, RunShape, CaseGiven, OneHold, NotYetHeld, NothingBooked,
           ProposedFromFacts, JudgedAsShown, VerdictIsAboutOurHold, Booking, Committed,
           Recorded, Judged, Done
  <2> QED
    BY <2>1, BeginCaseKeeps, RivalKeeps, ProposeKeeps, TakeHoldKeeps, JudgeKeeps, CommitKeeps,
       RecordKeeps, EndCaseKeeps DEF Next
<1> QED
  BY <1>1, <1>2, PTL DEF Spec

-----------------------------------------------------------------------------
\* What is reported as booked is in the calendar, for this customer and on the
\* slot the case asked for, and nothing else is: for every case, gate or no
\* gate, whatever a rival took first.
THEOREM OnlyTheReportedBooking == Spec => []BookedIsCommitted
<1>1. IInv => BookedIsCommitted
  BY DEF IInv, Committed, BookedIsCommitted, Done
<1> QED
  BY <1>1, IInvHolds, PTL

\* The gate says yes to a booking only on the hold the proposal was made with,
\* our own, on the slot the case asked for.
THEOREM GateJudgesOurHold == Spec => []VerdictIsAboutOurHold
<1>1. IInv => VerdictIsAboutOurHold
  BY DEF IInv
<1> QED
  BY <1>1, IInvHolds, PTL

\* A booking made with the gate on is one the gate let through, citing exactly
\* the rules that apply.
LEMMA BookedPassedGate ==
    ASSUME IInv, Done, run.gateOn, run.booked
    PROVE  /\ run.proposal.facts = run.case.facts
           /\ Cited(run.proposal) = MatchingRules(run.case.facts)
           /\ ~OverrideMissed(run.proposal) /\ RulesPermit(run.proposal)
<1> DEFINE f == run.case.facts
<1>1. /\ run.proposal = Proposed(Me, f)
      /\ run.verdict = Evaluated(run.proposal, run.view, run.window.deliverable)
      /\ run.verdict.allowed /\ run.proposal.action = "book"
  BY DEF IInv, Done, Judged, ProposedFromFacts, JudgedAsShown, Committed, Booking
<1>2. FactsSupport(run.proposal) /\ ~OverrideMissed(run.proposal) /\ RulesPermit(run.proposal)
  BY <1>1, AllowedBooking
<1>3. run.proposal.facts = f /\ run.proposal.cited = {Ref(r) : r \in MatchingRules(f)}
  BY <1>1 DEF Proposed, ProposedRules
<1>4. Cited(run.proposal) \subseteq MatchingRules(f)
  BY <1>2, <1>3 DEF FactsSupport
<1>5. MatchingRules(f) \subseteq Cited(run.proposal)
  BY <1>3 DEF Cited, MatchingRules
<1> QED
  BY <1>2, <1>3, <1>4, <1>5

\* Whatever the policy: no booking reaches the calendar past the gate that the
\* rules, all of them, do not permit on the customer's facts.
THEOREM OnlyPermittedIsBooked == Spec => []BookedIsPermitted
<1>1. IInv => BookedIsPermitted
  BY BookedPassedGate DEF BookedIsPermitted, RulesPermit
<1> QED
  BY <1>1, IInvHolds, PTL

\* Whole numbers: what dividing by a number comes to, without the division.
LEMMA DividedAtLeast ==
    ASSUME NEW a \in Nat, NEW b \in Nat \ {0}, NEW c \in Nat
    PROVE  /\ a \div b \in Int
           /\ a \div b >= c <=> a >= c * b
<1> DEFINE q == a \div b
           r == a % b
<1>1. q \in Int /\ r \in 0..(b - 1) /\ a = b * q + r
  OBVIOUS
<1> HIDE DEF q, r
<1>2. ASSUME q >= c PROVE a >= c * b
  <2>1. b * q >= b * c
    BY <1>1, <1>2
  <2> QED
    BY <1>1, <2>1
<1>3. ASSUME a >= c * b, q < c PROVE FALSE
  <2>1. q + 1 <= c
    BY <1>1, <1>3
  <2>2. b * (q + 1) <= b * c
    BY <1>1, <2>1
  <2>3. b * (q + 1) = b * q + b
    BY <1>1
  <2> QED
    BY <1>1, <1>3, <2>2, <2>3
<1> QED
  BY <1>1, <1>2, <1>3 DEF q

\* The margin is left, in thousandths of an hour as rounded, exactly when it is
\* left on the clock but for half a thousandth: 9/5 of a second.
LEMMA MarginOnTheClock ==
    ASSUME NEW now \in Nat
    PROVE  ~(HoursLeft(0, now) < 1000 * ESCALATION_MARGIN_HOURS)
              <=> 5 * (now + Hours(ESCALATION_MARGIN_HOURS) - WindowClosesAt(0)) <= Seconds(9)
<1> DEFINE left == TimeBetween(now, WindowClosesAt(0))
<1>1. PerSecond \in Nat /\ PerSecond > 0
  BY WindowAssumption DEF WindowAssumption
<1>2. WindowClosesAt(0) = 86400 * PerSecond /\ Hours(ESCALATION_MARGIN_HOURS) = 7200 * PerSecond
  BY <1>1 DEF WindowClosesAt, Hours, Seconds, WINDOW_HOURS, ESCALATION_MARGIN_HOURS
<1>3. left = IF 86400 * PerSecond < now THEN 0 ELSE 86400 * PerSecond - now
  BY <1>2 DEF TimeBetween
<1>4. HoursLeft(0, now) = (5 * left + 9 * PerSecond) \div (18 * PerSecond)
  BY DEF HoursLeft, Seconds
<1> HIDE DEF left
<1>5. left \in Nat
  BY <1>1, <1>3
<1>6. /\ 5 * left + 9 * PerSecond \in Nat
      /\ 18 * PerSecond \in Nat \ {0}
  BY <1>1, <1>5
<1>7. /\ HoursLeft(0, now) \in Int
      /\ HoursLeft(0, now) >= 2000 <=> 5 * left + 9 * PerSecond >= 2000 * (18 * PerSecond)
  BY <1>4, <1>6, DividedAtLeast
<1>8. 5 * left + 9 * PerSecond >= 2000 * (18 * PerSecond)
        <=> 5 * (now + 7200 * PerSecond - 86400 * PerSecond) <= 9 * PerSecond
  BY <1>1, <1>3
<1> QED
  BY <1>2, <1>7, <1>8 DEF ESCALATION_MARGIN_HOURS, Seconds

\* An escalation is let through only with an approved template for its reason,
\* and with the margin left to answer in, to within the 1.8 seconds that rounding
\* gives away: at every instant of the window and after it, however fine the clock.
THEOREM EscalationsComeInTime == Spec => []EscalationInTime
<1>1. IInv => EscalationInTime
  <2> SUFFICES ASSUME IInv, Judged, run.gateOn, run.verdict.allowed,
                      run.proposal.action = "escalate"
               PROVE  /\ run.reason \in DOMAIN run.registry /\ run.registry[run.reason]
                      /\ 5 * (clock + Hours(ESCALATION_MARGIN_HOURS) - WindowClosesAt(0))
                            <= Seconds(9)
    BY DEF EscalationInTime
  <2>1. run.window.deliverable /\ run.window = WindowView(0, clock, run.reason, run.registry)
    BY AllowedEscalation DEF IInv, JudgedAsShown
  <2>2. WhyNot(HoursLeft(0, clock), run.reason, run.registry) = ""
    <3>1. WindowView(0, clock, run.reason, run.registry).deliverable
      BY <2>1
    <3> QED
      BY Zenon, <3>1 DEF WindowView
  <2>3. /\ run.reason \in DOMAIN run.registry /\ run.registry[run.reason]
        /\ ~(HoursLeft(0, clock) < 1000 * ESCALATION_MARGIN_HOURS)
    BY <2>2 DEF WhyNot
  <2>4. clock \in Nat
    BY HarnessAssumption DEF HarnessAssumption, IInv, CaseGiven, Judged
  <2> QED
    BY <2>3, <2>4, MarginOnTheClock
<1> QED
  BY <1>1, IInvHolds, PTL

-----------------------------------------------------------------------------
(***************************************************************************)
(* That good cases go through.  IInv says what is in the calendar at most; *)
(* this says what a booking on the free slot finds there at least.         *)
(***************************************************************************)
OnFreeSlot == Booking /\ run.case.slot = GOOD_SLOT

OurHoldStands ==
    step \in {"judge", "commit"} /\ OnFreeSlot =>
        /\ run.holdId = 1 /\ 1 \in DOMAIN holds
        /\ holds[1].expires \in Nat /\ Calendar!IsLive(1)

ShownOurs == Judged /\ OnFreeSlot => SlotIsOurs(run.proposal, run.view)

CommittedIfAllowed ==
    step \in {"record", "end"} /\ OnFreeSlot /\ run.verdict.allowed => run.booked

GInv == OurHoldStands /\ ShownOurs /\ CommittedIfAllowed

\* The first hold on a slot of the calendar is granted, and stands.
LEMMA FirstHoldStands ==
    ASSUME counter = 0, DOMAIN holds = {}, DOMAIN bookings = {}, clock \in Nat,
           NEW s \in {GOOD_SLOT, TAKEN_SLOT}, NEW t, Calendar!Hold(s, t)
    PROVE  /\ reply'.id = 1 /\ 1 \in DOMAIN holds'
           /\ holds'[1].expires \in Nat
           /\ ~holds'[1].released /\ holds'[1].expires > clock'
<1>1. Calendar!HoldRefusal(s) = "no"
  BY DEF Calendar!HoldRefusal, Calendar!Booked, Calendar!LiveHolds
<1>2. Calendar!HoldGranted(s, t)
  BY <1>1 DEF Calendar!Hold, Calendar!HoldRefused
<1> DEFINE new == [slot |-> s, thread |-> t, expires |-> clock + HoldTTL,
                   released |-> FALSE]
<1>3. clock' = clock /\ reply'.id = 1 /\ holds' = Calendar!Put(holds, 1, new)
  BY <1>2 DEF Calendar!HoldGranted, Calendar!Returned
<1>4. 1 \in DOMAIN holds' /\ holds'[1] = new
  <2> HIDE DEF new
  <2> QED
    BY <1>3 DEF Calendar!Put
<1>5. new.released = FALSE /\ new.expires \in Nat /\ new.expires > clock
  BY WindowAssumption DEF HoldTTL, HOLD_TTL_SECONDS, Seconds, WindowAssumption
<1> HIDE DEF new
<1> QED
  BY <1>3, <1>4, <1>5

LEMMA TakeHoldFinds == IInv /\ TakeHold => GInv'
<1> SUFFICES ASSUME IInv, TakeHold PROVE GInv'
  OBVIOUS
<1>1. step = "hold" /\ step' = "judge"
  BY DEF TakeHold, GoTo
<1>2. ASSUME OnFreeSlot'
      PROVE  /\ run'.holdId = 1 /\ 1 \in DOMAIN holds'
             /\ holds'[1].expires \in Nat /\ Calendar!IsLive(1)'
  <2>1. run'.proposal = run.proposal /\ run'.case = run.case
    BY <1>1 DEF TakeHold, IInv, RunShape
  <2>2. run.proposal.action = "book" /\ run.case.slot = GOOD_SLOT
    BY <1>2, <2>1 DEF OnFreeSlot, Booking
  <2>3. Calendar!Hold(run.case.slot, Me) /\ run' = [run EXCEPT !.holdId = reply'.id]
    BY <2>2, HarnessAssumption DEF TakeHold, HarnessAssumption
  <2>4. counter = 0 /\ DOMAIN holds = {} /\ DOMAIN bookings = {}
    BY <1>1, <2>2, HarnessAssumption
    DEF IInv, OneHold, NotYetHeld, NothingBooked, HarnessAssumption
  <2>5. clock \in Nat
    BY <1>1, HarnessAssumption DEF HarnessAssumption, IInv, CaseGiven
  <2>6. /\ reply'.id = 1 /\ 1 \in DOMAIN holds' /\ holds'[1].expires \in Nat
        /\ ~holds'[1].released /\ holds'[1].expires > clock'
    BY <2>2, <2>3, <2>4, <2>5, FirstHoldStands
  <2>7. run'.holdId = 1
    BY <2>3, <2>6 DEF IInv, RunShape
  <2> QED
    BY <2>6, <2>7 DEF Calendar!IsLive
<1> QED
  BY <1>1, <1>2 DEF GInv, OurHoldStands, ShownOurs, CommittedIfAllowed, Judged

LEMMA JudgeFinds == IInv /\ GInv /\ Judge => GInv'
<1> SUFFICES ASSUME IInv, GInv, Judge PROVE GInv'
  OBVIOUS
<1> DEFINE view   == Calendar!View(SlotViewed)
           window == WindowView(0, clock, run.reason, run.registry)
           verdict == IF run.gateOn
                      THEN Evaluated(run.proposal, view, window.deliverable)
                      ELSE Passed
<1>1. /\ step = "judge" /\ step' = "commit" /\ UNCHANGED cal
      /\ run' = [run EXCEPT !.view = view, !.window = window, !.verdict = verdict]
  BY DEF Judge, GoTo
<1> HIDE DEF view, window, verdict
<1>2. /\ run'.view = view /\ run'.case = run.case
      /\ run'.proposal = run.proposal /\ run'.holdId = run.holdId
  BY <1>1 DEF IInv, RunShape
<1>3. UNCHANGED <<clock, holds>>
  BY <1>1 DEF cal
<1>4. OurHoldStands'
  BY <1>1, <1>2, <1>3 DEF GInv, OurHoldStands, OnFreeSlot, Booking, Calendar!IsLive
<1>5. ASSUME OnFreeSlot PROVE SlotIsOurs(run.proposal, view)
  <2> DEFINE live == Calendar!LiveHolds(GOOD_SLOT)
  <2>1. run.case.slot = GOOD_SLOT /\ SlotViewed = GOOD_SLOT
    BY <1>5 DEF OnFreeSlot, SlotViewed
  <2>2. run.holdId = 1 /\ 1 \in DOMAIN holds /\ Calendar!IsLive(1)
    BY <1>1, <1>5 DEF GInv, OurHoldStands
  <2>3. /\ counter = 1 /\ DOMAIN holds = {1}
        /\ holds[1].thread = Me /\ holds[1].slot = GOOD_SLOT
    <3>1. run.case.slot # TAKEN_SLOT
      BY <2>1, HarnessAssumption DEF HarnessAssumption
    <3> QED
      BY <1>1, <2>1, <2>2, <3>1 DEF IInv, OneHold
  <2>4. live = {1}
    BY <2>2, <2>3 DEF Calendar!LiveHolds
  <2>5. Calendar!LiveHoldFor(GOOD_SLOT) = 1
    BY <2>4 DEF Calendar!LiveHoldFor
  <2>6. DOMAIN bookings = {} /\ run.proposal.thread = Me
    BY <1>1 DEF IInv, NothingBooked, ProposedFromFacts, Proposed
  <2>7. view.slot_exists /\ ~view.booked /\ view.held_by_thread = Me
    BY <2>1, <2>3, <2>4, <2>5, <2>6 DEF view, Calendar!View, Calendar!Booked
  <2> QED
    BY <2>6, <2>7 DEF SlotIsOurs
<1> QED
  BY <1>1, <1>2, <1>4, <1>5
  DEF GInv, ShownOurs, CommittedIfAllowed, OnFreeSlot, Booking

LEMMA CommitFinds == IInv /\ GInv /\ Commit => GInv'
<1> SUFFICES ASSUME IInv, GInv, Commit PROVE GInv'
  OBVIOUS
<1>1. step = "commit" /\ step' = "record"
  BY DEF Commit, GoTo
<1>2. /\ run'.case = run.case /\ run'.proposal = run.proposal
      /\ run'.view = run.view /\ run'.verdict = run.verdict
  BY DEF Commit, IInv, RunShape
<1>3. ASSUME OnFreeSlot, run.verdict.allowed PROVE run'.booked
  <2>1. /\ run.holdId = 1 /\ 1 \in DOMAIN holds
        /\ holds[1].expires \in Nat /\ Calendar!IsLive(1)
    BY <1>1, <1>3 DEF GInv, OurHoldStands
  <2>2. MayBook
    BY <1>3, <2>1 DEF MayBook, OnFreeSlot, Booking
  <2>3. Calendar!Commit(1, "book") /\ run' = [run EXCEPT !.booked = reply'.refused = "no"]
    BY <2>1, <2>2 DEF Commit
  <2>4. Calendar!KnownKeys = {}
    BY <1>1 DEF IInv, NothingBooked, Calendar!KnownKeys
  <2>5. Calendar!CommitRefusal(1) = "no"
    <3>1. ~(holds[1].expires <= clock)
      <4>1. clock \in Nat
        BY <1>1, HarnessAssumption DEF HarnessAssumption, IInv, CaseGiven
      <4> QED
        BY <2>1, <4>1 DEF Calendar!IsLive
    <3> QED
      BY <2>1, <3>1 DEF Calendar!IsLive, Calendar!CommitRefusal
  <2>6. Calendar!CommitMade(1, "book")
    BY <2>3, <2>4, <2>5
    DEF Calendar!Commit, Calendar!CommitReplayed, Calendar!CommitRefused
  <2>7. reply'.refused = "no"
    BY <2>6 DEF Calendar!CommitMade, Calendar!Returned
  <2> QED
    BY <2>3, <2>7 DEF IInv, RunShape
<1> QED
  BY <1>1, <1>2, <1>3
  DEF GInv, OurHoldStands, ShownOurs, CommittedIfAllowed, OnFreeSlot, Booking, Judged

LEMMA GInvHolds == Spec => []GInv
<1>1. Init => GInv
  BY DEF Init, GInv, OurHoldStands, ShownOurs, CommittedIfAllowed, Judged
<1>2. IInv /\ GInv /\ [Next]_vars => GInv'
  <2> SUFFICES ASSUME IInv, GInv, [Next]_vars PROVE GInv'
    OBVIOUS
  <2> USE DEF GInv, OurHoldStands, ShownOurs, CommittedIfAllowed, OnFreeSlot, Booking, Judged
  <2>1. CASE BeginCase \/ Rival \/ Propose \/ EndCase
    BY <2>1 DEF BeginCase, Rival, Propose, EndCase, GoTo
  <2>2. CASE Record
    <3>1. /\ step = "record" /\ step' = "end"
          /\ run'.case = run.case /\ run'.proposal = run.proposal
          /\ run'.view = run.view /\ run'.verdict = run.verdict /\ run'.booked = run.booked
      BY <2>2 DEF Record, GoTo, IInv, RunShape
    <3> QED
      BY <3>1
  <2>3. CASE UNCHANGED vars
    BY <2>3 DEF vars, cal, Calendar!IsLive
  <2> QED
    BY <2>1, <2>2, <2>3, TakeHoldFinds, JudgeFinds, CommitFinds DEF Next
<1> QED
  BY <1>1, <1>2, IInvHolds, PTL DEF Spec

-----------------------------------------------------------------------------
\* What the proposer cites is grounded: with every rule decided, the first three
\* checks let it pass.
LEMMA ProposedIsGrounded ==
    ASSUME NEW f, UnknownRules(f) = {}
    PROVE  LET p == Proposed(Me, f)
           IN  RulesExist(p) /\ FactsSupport(p) /\ ~OverrideMissed(p)
<1> DEFINE p == Proposed(Me, f)
<1>1. p.facts = f /\ p.cited = {Ref(r) : r \in MatchingRules(f)}
  BY DEF Proposed, ProposedRules
<1> HIDE DEF p
<1>2. MatchingRules(f) \subseteq Rules
  BY DEF MatchingRules
<1>3. Cited(p) = MatchingRules(f)
  BY <1>1, <1>2, RulesetAssumption DEF Cited, RulesetAssumption
<1>4. RulesExist(p)
  BY <1>1, <1>2 DEF RulesExist
<1>5. FactsSupport(p)
  BY <1>1, <1>3 DEF FactsSupport
<1>6. ~OverrideMissed(p)
  BY <1>1, <1>3 DEF OverrideMissed, IsCited
<1> QED
  BY <1>4, <1>5, <1>6 DEF p

\* With every rule decided, what the proposer books is what check 4 permits, once
\* some rule allows it and the lead times are met.
LEMMA ProposedIsPermitted ==
    ASSUME NEW f, UnknownRules(f) = {}, ProposedAction(f) = "book",
           \E r \in MatchingRules(f) : r.outcome \in AllowsBooking,
           \A r \in MatchingRules(f) : r.outcome = "require_lead_time" => LeadTimeMet(r, f)
    PROVE  RulesPermit(Proposed(Me, f))
<1> DEFINE p == Proposed(Me, f)
<1>1. p.facts = f /\ p.cited = {Ref(r) : r \in MatchingRules(f)}
  BY DEF Proposed, ProposedRules
<1> HIDE DEF p
<1>2. Cited(p) = MatchingRules(f)
  BY <1>1, RulesetAssumption DEF Cited, MatchingRules, RulesetAssumption
<1>3. \A r \in MatchingRules(f) : r.outcome \notin Forbids
  BY DEF ProposedAction, MatchingWith, Forbids
<1> QED
  BY <1>1, <1>2, <1>3 DEF RulesPermit, p

\* The margin left on the clock is left in thousandths of an hour.
LEMMA MarginSuffices ==
    ASSUME NEW now \in Nat, now + Hours(ESCALATION_MARGIN_HOURS) <= WindowClosesAt(0)
    PROVE  ~(HoursLeft(0, now) < 1000 * ESCALATION_MARGIN_HOURS)
<1>1. /\ Hours(ESCALATION_MARGIN_HOURS) \in Nat /\ WindowClosesAt(0) \in Nat
      /\ Seconds(9) \in Nat
  BY WindowAssumption DEF WindowAssumption, WindowClosesAt, Hours, Seconds, WINDOW_HOURS,
     ESCALATION_MARGIN_HOURS
<1>2. 5 * (now + Hours(ESCALATION_MARGIN_HOURS) - WindowClosesAt(0)) <= Seconds(9)
  BY <1>1
<1> QED
  BY <1>2, MarginOnTheClock

\* The harness is no wall: whatever the policy, with every rule decided a booking
\* on the free slot that the rules permit is made, and an escalation with its
\* template and its margin is let through.
THEOREM NoWall == Spec => []GoodCasesGoThrough
<1>1. IInv /\ GInv => GoodCasesGoThrough
  <2> DEFINE f == run.case.facts
  <2> SUFFICES ASSUME IInv, GInv, Done, UnknownRules(f) = {}
               PROVE  /\ /\ Booking /\ run.case.slot = GOOD_SLOT
                         /\ \E r \in MatchingRules(f) : r.outcome \in AllowsBooking
                         /\ \A r \in MatchingRules(f) :
                               r.outcome = "require_lead_time" => LeadTimeMet(r, f)
                         => run.booked
                      /\ /\ run.proposal.action = "escalate"
                         /\ run.reason \in DOMAIN run.registry /\ run.registry[run.reason]
                         /\ clock + Hours(ESCALATION_MARGIN_HOURS) <= WindowClosesAt(0)
                         => run.verdict.allowed
    BY DEF GoodCasesGoThrough
  <2>1. /\ run.proposal = Proposed(Me, f) /\ run.proposal.action = ProposedAction(f)
        /\ run.window = WindowView(0, clock, run.reason, run.registry)
        /\ run.verdict = IF run.gateOn
                         THEN Evaluated(run.proposal, run.view, run.window.deliverable)
                         ELSE Passed
    BY DEF IInv, Done, Judged, ProposedFromFacts, JudgedAsShown, Proposed
  <2>2. /\ RulesExist(run.proposal) /\ FactsSupport(run.proposal)
        /\ ~OverrideMissed(run.proposal)
    BY <2>1, ProposedIsGrounded
  <2>3. ASSUME Booking, run.case.slot = GOOD_SLOT,
               \E r \in MatchingRules(f) : r.outcome \in AllowsBooking,
               \A r \in MatchingRules(f) :
                  r.outcome = "require_lead_time" => LeadTimeMet(r, f)
        PROVE  run.booked
    <3>1. RulesPermit(run.proposal)
      BY <2>1, <2>3, ProposedIsPermitted DEF Booking
    <3>2. SlotIsOurs(run.proposal, run.view)
      BY <2>3 DEF GInv, ShownOurs, OnFreeSlot, Done, Judged
    <3>3. run.verdict.allowed
      BY <2>1, <2>2, <2>3, <3>1, <3>2 DEF Evaluated, Passed, Booking
    <3> QED
      BY <2>3, <3>3 DEF GInv, CommittedIfAllowed, OnFreeSlot, Done
  <2>4. ASSUME run.proposal.action = "escalate",
               run.reason \in DOMAIN run.registry, run.registry[run.reason],
               clock + Hours(ESCALATION_MARGIN_HOURS) <= WindowClosesAt(0)
        PROVE  run.verdict.allowed
    <3>1. clock \in Nat
      BY HarnessAssumption DEF HarnessAssumption, IInv, CaseGiven, Done
    <3>2. ~(HoursLeft(0, clock) < 1000 * ESCALATION_MARGIN_HOURS)
      BY <2>4, <3>1, MarginSuffices
    <3>3. WhyNot(HoursLeft(0, clock), run.reason, run.registry) = ""
      BY <2>4, <3>2 DEF WhyNot
    <3>4. WindowView(0, clock, run.reason, run.registry).deliverable
      BY Zenon, <3>3 DEF WindowView
    <3>5. run.window.deliverable
      BY <2>1, <3>4
    <3> QED
      BY <2>1, <2>2, <2>4, <3>5 DEF Evaluated, Passed
  <2> QED
    BY <2>3, <2>4
<1> QED
  BY <1>1, IInvHolds, GInvHolds, PTL
=============================================================================
