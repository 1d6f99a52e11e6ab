----------------------------- MODULE DeskProofs -----------------------------
(***************************************************************************)
(* Theorems about the gate and the proposer, for every ruleset whose rules *)
(* never take an answer back when more becomes known, every set of facts   *)
(* and every agent.                                                        *)
(***************************************************************************)
EXTENDS Desk, TLAPS

-----------------------------------------------------------------------------
(***************************************************************************)
(* What learning does to the rules.                                        *)
(***************************************************************************)

\* A rule that is decided stays decided; one that is not was not before.
LEMMA RulesStayDecided ==
    ASSUME NEW f \in FactBags, NEW g \in FactBags, KnowsMore(g, f)
    PROVE  /\ MatchingRules(f) \subseteq MatchingRules(g)
           /\ UnknownRules(g) \subseteq UnknownRules(f)
           /\ MatchingRules(g) \cup UnknownRules(g)
                \subseteq MatchingRules(f) \cup UnknownRules(f)
    BY RulesetAssumption DEF RulesetAssumption, MatchingRules, UnknownRules

LEMMA LeadTimeStaysMet ==
    ASSUME NEW f, NEW g, KnowsMore(g, f), NEW r, LeadTimeMet(r, f)
    PROVE  LeadTimeMet(r, g)
    BY DeskAssumption DEF DeskAssumption, LeadTimeMet, KnowsMore

\* Facts that a message adds without contradicting are facts known besides.
LEMMA MergeInBags ==
    \A f \in FactBags, new \in Messages : Merge(f, new) \in FactBags
    BY DeskAssumption DEF DeskAssumption

-----------------------------------------------------------------------------
(***************************************************************************)
(* The gate, on proposals that differ in their facts only.                 *)
(***************************************************************************)

On(action, cited, f) == [thread |-> Me, action |-> action, cited |-> cited, facts |-> f]

\* When the gate lets a proposal through, all its checks passed.
LEMMA AllowedMeans ==
    ASSUME NEW p, NEW view, NEW d
    PROVE  Evaluated(p, view, d).allowed <=>
              /\ RulesExist(p) /\ FactsSupport(p) /\ ~OverrideMissed(p)
              /\ p.action = "book" => RulesPermit(p) /\ SlotIsOurs(p, view)
              /\ p.action = "escalate" => d
    BY DEF Evaluated, Blocked, Passed

\* Each check that passed on f passes on any g that knows more.
LEMMA AllowedOnMore ==
    ASSUME NEW f \in FactBags, NEW g \in FactBags, KnowsMore(g, f),
           NEW action, NEW cited, NEW view, NEW d,
           Evaluated(On(action, cited, f), view, d).allowed
    PROVE  Evaluated(On(action, cited, g), view, d).allowed
<1> DEFINE p == On(action, cited, f)
           q == On(action, cited, g)
<1>1. /\ p.cited = cited /\ q.cited = cited
      /\ p.action = action /\ q.action = action
      /\ p.thread = q.thread
      /\ p.facts = f /\ q.facts = g
  BY DEF On
<1>2. /\ RulesExist(p) /\ FactsSupport(p) /\ ~OverrideMissed(p)
      /\ action = "book" => RulesPermit(p) /\ SlotIsOurs(p, view)
      /\ action = "escalate" => d
  BY <1>1, AllowedMeans
<1> HIDE DEF p, q
<1>3. Cited(q) = Cited(p) /\ \A r : IsCited(q, r) <=> IsCited(p, r)
  BY <1>1 DEF Cited, IsCited
<1>4. RulesExist(q)
  BY <1>1, <1>2 DEF RulesExist
<1>5. FactsSupport(q)
  BY <1>1, <1>2, <1>3, RulesStayDecided DEF FactsSupport
<1>6. ~OverrideMissed(q)
  BY <1>1, <1>2, <1>3, RulesStayDecided DEF OverrideMissed
<1>7. ASSUME action = "book" PROVE RulesPermit(q) /\ SlotIsOurs(q, view)
  <2>1. \E r \in Cited(q) : r.outcome \in AllowsBooking
    BY <1>2, <1>3, <1>7 DEF RulesPermit
  <2>2. \A r \in MatchingRules(g) \cup UnknownRules(g) : r.outcome \notin Forbids
    BY <1>1, <1>2, <1>7, RulesStayDecided DEF RulesPermit
  <2>3. \A r \in Cited(q) : r.outcome = "require_lead_time" => LeadTimeMet(r, g)
    BY <1>1, <1>2, <1>3, <1>7, LeadTimeStaysMet DEF RulesPermit
  <2>4. SlotIsOurs(q, view)
    BY <1>1, <1>2, <1>7 DEF SlotIsOurs
  <2> QED
    BY <1>1, <2>1, <2>2, <2>3, <2>4 DEF RulesPermit
<1> QED
  BY <1>1, <1>2, <1>4, <1>5, <1>6, <1>7, AllowedMeans DEF q

-----------------------------------------------------------------------------
(***************************************************************************)
(* The inductive invariant: a decision is about the facts of the moment,   *)
(* and says what the gate says of them.                                    *)
(***************************************************************************)
DecisionIsCurrent ==
    /\ facts \in FactBags
    /\ \/ decision = NoDecision
       \/ \E action, cited, view, d :
             /\ decision = Decision(On(action, cited, facts), view, d)
             /\ action = "book" => view \in Views

LEMMA Invariant == Spec => []DecisionIsCurrent
<1>1. Init => DecisionIsCurrent
  BY DeskAssumption DEF DeskAssumption, Init, DecisionIsCurrent
<1>2. DecisionIsCurrent /\ [Next]_vars => DecisionIsCurrent'
  <2> SUFFICES ASSUME DecisionIsCurrent, [Next]_vars PROVE DecisionIsCurrent'
    OBVIOUS
  <2>1. ASSUME NEW new \in Messages, AddFacts(new) PROVE DecisionIsCurrent'
    BY <2>1, MergeInBags DEF AddFacts, DecisionIsCurrent, NoDecision
  <2>2. ASSUME NEW action, NEW cited, NEW view, NEW d, Judge(action, cited, view, d),
               action = "book" => view \in Views
        PROVE  DecisionIsCurrent'
    <3>1. decision' = Decision(On(action, cited, facts), view, d) /\ facts' = facts
      BY <2>2 DEF Judge, On
    <3>2. Decision(On(action, cited, facts), view, d)
            = Decision(On(action, cited, facts), view, d)'
      BY <3>1 DEF Decision, On, Evaluated, RulesExist, FactsSupport, OverrideMissed,
                  RulesPermit, SlotIsOurs, Cited, IsCited, MatchingRules, UnknownRules,
                  LeadTimeMet
    <3> QED
      BY <2>2, <3>1, <3>2 DEF DecisionIsCurrent
  <2>3. CASE UNCHANGED vars
    BY <2>3 DEF vars, DecisionIsCurrent, NoDecision, Decision, On, Evaluated, RulesExist,
                FactsSupport, OverrideMissed, RulesPermit, SlotIsOurs, Cited, IsCited,
                MatchingRules, UnknownRules, LeadTimeMet
  <2> QED
    BY <2>1, <2>2, <2>3 DEF Next
<1> QED
  BY <1>1, <1>2, PTL DEF Spec

\* What a decided state looks like.
LEMMA DecidedMeans ==
    ASSUME DecisionIsCurrent, Decided
    PROVE  \E action, cited, view, d :
              /\ decision.proposal = On(action, cited, facts)
              /\ decision.view = view
              /\ decision.deliverable = d
              /\ decision.verdict = Evaluated(On(action, cited, facts), view, d)
              /\ action = "book" => view \in Views
    BY DEF DecisionIsCurrent, Decided, NoDecision, Decision

-----------------------------------------------------------------------------
\* A booking that is let through is forbidden by no rule, now or once more is
\* known: the gate's veto reads every rule, and reads unknown as may be.
THEOREM NothingForbids == Spec => []NothingForbidsBooking
<1>1. DecisionIsCurrent => NothingForbidsBooking
  <2> SUFFICES ASSUME DecisionIsCurrent, Booking, Allowed,
                      NEW g \in FactBags, KnowsMore(g, decision.proposal.facts),
                      NEW r \in MatchingRules(g)
               PROVE  r.outcome \notin Forbids
    BY DEF NothingForbidsBooking
  <2>1. PICK action, cited, view, d :
           /\ decision.proposal = On(action, cited, facts)
           /\ decision.verdict = Evaluated(On(action, cited, facts), view, d)
    BY DecidedMeans DEF Booking
  <2> DEFINE p == On(action, cited, facts)
  <2>2. p.facts = facts /\ p.action = "book"
    BY <2>1 DEF On, Booking
  <2>3. facts \in FactBags /\ KnowsMore(g, facts)
    BY <2>1, <2>2 DEF DecisionIsCurrent
  <2>4. RulesPermit(p)
    BY <2>1, <2>2, AllowedMeans DEF Allowed
  <2>5. r \in MatchingRules(facts) \cup UnknownRules(facts)
    BY <2>3, RulesStayDecided
  <2> QED
    BY <2>2, <2>4, <2>5 DEF RulesPermit
<1> QED
  BY <1>1, Invariant, PTL

\* What the gate let through it lets through again when a missing fact is
\* supplied.
THEOREM AllowedStays == Spec => []AllowedIsStable
<1>1. DecisionIsCurrent => AllowedIsStable
  <2> SUFFICES ASSUME DecisionIsCurrent, Allowed, NEW new \in Messages,
                      KnowsMore(Merge(decision.proposal.facts, new), decision.proposal.facts)
               PROVE  Evaluated([decision.proposal EXCEPT
                                    !.facts = Merge(decision.proposal.facts, new)],
                                decision.view, decision.deliverable).allowed
    BY DEF AllowedIsStable
  <2>1. PICK action, cited, view, d :
           /\ decision.proposal = On(action, cited, facts)
           /\ decision.view = view
           /\ decision.deliverable = d
           /\ decision.verdict = Evaluated(On(action, cited, facts), view, d)
    BY DecidedMeans DEF Allowed
  <2> DEFINE g == Merge(facts, new)
  <2>2. decision.proposal.facts = facts /\ facts \in FactBags
    BY <2>1 DEF On, DecisionIsCurrent
  <2>3. [decision.proposal EXCEPT !.facts = g] = On(action, cited, g)
    BY <2>1 DEF On
  <2>4. g \in FactBags /\ KnowsMore(g, facts)
    BY <2>2, MergeInBags
  <2>5. Evaluated(On(action, cited, facts), view, d).allowed
    BY <2>1 DEF Allowed
  <2>6. Evaluated(On(action, cited, g), view, d).allowed
    BY <2>2, <2>4, <2>5, AllowedOnMore
  <2> QED
    BY <2>1, <2>2, <2>3, <2>6
<1> QED
  BY <1>1, Invariant, PTL

\* A booking that leaves nothing to object to is let through: each check has
\* something to say only about a rule that is not cited, does not apply or
\* forbids, or about a slot that is not held.
THEOREM GoodPasses == Spec => []GoodBookingPasses
<1>1. DecisionIsCurrent => GoodBookingPasses
  <2> SUFFICES ASSUME DecisionIsCurrent, Booking,
                      decision.proposal.cited = ProposedRules(decision.proposal.facts),
                      UnknownRules(decision.proposal.facts) = {},
                      \E r \in MatchingRules(decision.proposal.facts) :
                          r.outcome \in AllowsBooking,
                      \A r \in MatchingRules(decision.proposal.facts) :
                          r.outcome \notin Forbids,
                      LeadTimesMet(decision.proposal.facts),
                      decision.view.held_by_thread = Me
               PROVE  Allowed
    BY DEF GoodBookingPasses
  <2>1. PICK action, cited, view, d :
           /\ decision.proposal = On(action, cited, facts)
           /\ decision.view = view
           /\ decision.verdict = Evaluated(On(action, cited, facts), view, d)
           /\ action = "book" => view \in Views
    BY DecidedMeans DEF Booking
  <2> DEFINE p == On(action, cited, facts)
  <2>2. /\ p.facts = facts /\ p.action = "book" /\ p.thread = Me
        /\ p.cited = ProposedRules(facts) /\ action = "book"
    BY <2>1 DEF On, Booking
  <2> HIDE DEF p
  <2>3. Cited(p) = MatchingRules(facts)
    <3>1. \A r \in Rules : Ref(r) \in ProposedRules(facts) <=> r \in MatchingRules(facts)
      BY RulesetAssumption DEF RulesetAssumption, ProposedRules, MatchingRules
    <3> QED
      BY <2>2, <3>1 DEF Cited, MatchingRules
  <2>4. RulesExist(p)
    BY <2>2 DEF RulesExist, ProposedRules, MatchingRules
  <2>5. FactsSupport(p) /\ ~OverrideMissed(p)
    BY <2>1, <2>2, <2>3 DEF FactsSupport, OverrideMissed, IsCited, p
  <2>6. RulesPermit(p)
    BY <2>1, <2>2, <2>3 DEF RulesPermit, LeadTimesMet, p
  <2>7. SlotIsOurs(p, view)
    BY <2>1, <2>2, DeskAssumption DEF SlotIsOurs, DeskAssumption
  <2>8. Evaluated(p, view, d).allowed
    BY <2>2, <2>4, <2>5, <2>6, <2>7, AllowedMeans
  <2> QED
    BY <2>1, <2>8 DEF Allowed, Booking, p
<1> QED
  BY <1>1, Invariant, PTL

\* The proposer's own bookings are let through only with every lead time met.
THEOREM LeadTimesKept == Spec => []ProposerKeepsLeadTimes
<1>1. DecisionIsCurrent => ProposerKeepsLeadTimes
  <2> SUFFICES ASSUME DecisionIsCurrent, Booking, Allowed,
                      decision.proposal = Proposed(Me, facts),
                      NEW r \in MatchingRules(facts), r.outcome = "require_lead_time"
               PROVE  LeadTimeMet(r, facts)
    BY DEF ProposerKeepsLeadTimes, LeadTimesMet
  <2>1. PICK action, cited, view, d :
           /\ decision.proposal = On(action, cited, facts)
           /\ decision.verdict = Evaluated(On(action, cited, facts), view, d)
    BY DecidedMeans DEF Booking
  <2> DEFINE p == On(action, cited, facts)
  <2>2. p.facts = facts /\ p.action = "book" /\ p.cited = ProposedRules(facts)
    BY <2>1 DEF On, Booking, Proposed
  <2>3. RulesPermit(p)
    BY <2>1, <2>2, AllowedMeans DEF Allowed
  <2>4. r \in Cited(p)
    BY <2>2 DEF Cited, ProposedRules, MatchingRules
  <2> QED
    BY <2>2, <2>3, <2>4 DEF RulesPermit
<1> QED
  BY <1>1, Invariant, PTL

\* No choice of citations gets around the lead time of a rule that refines one
\* of them, now or once more is known: check 3 wants such a rule cited, even
\* undecided, and check 4 looks at what is cited.
THEOREM RefinedLeadTimesKept == Spec => []RefinedLeadTimesMet
<1>1. DecisionIsCurrent => RefinedLeadTimesMet
  <2> SUFFICES ASSUME DecisionIsCurrent, Booking, Allowed,
                      NEW g \in FactBags, KnowsMore(g, decision.proposal.facts),
                      NEW r \in MatchingRules(g), r.outcome = "require_lead_time",
                      NEW c \in Cited(decision.proposal), IsMoreSpecific(r, c),
                      \A d \in Cited(decision.proposal) : d.id = r.id => d = r
               PROVE  LeadTimeMet(r, g)
    BY DEF RefinedLeadTimesMet
  <2>1. PICK action, cited, view, d :
           /\ decision.proposal = On(action, cited, facts)
           /\ decision.verdict = Evaluated(On(action, cited, facts), view, d)
    BY DecidedMeans DEF Booking
  <2> DEFINE p == On(action, cited, facts)
  <2>2. p = decision.proposal /\ p.facts = facts /\ p.action = "book"
    BY <2>1 DEF On, Booking
  <2>3. facts \in FactBags /\ KnowsMore(g, facts)
    BY <2>1, <2>2 DEF DecisionIsCurrent
  <2>4. ~OverrideMissed(p) /\ RulesPermit(p)
    BY <2>1, <2>2, AllowedMeans DEF Allowed
  <2>5. r \in MatchingRules(facts) \cup UnknownRules(facts)
    BY <2>3, RulesStayDecided
  <2> HIDE DEF p
  <2>6. r \in Cited(p)
    BY <2>2, <2>4, <2>5 DEF OverrideMissed, IsCited
  <2>7. LeadTimeMet(r, facts)
    BY <2>2, <2>4, <2>6 DEF RulesPermit
  <2> QED
    BY <2>3, <2>7, LeadTimeStaysMet
<1> QED
  BY <1>1, Invariant, PTL

\* Answering everything that was asked ends the asking: a rule undecided then
\* was undecided before, so what it lacks was asked for, and is known.
THEOREM OneRound == Spec => []OneRoundOfQuestions
<1>1. DecisionIsCurrent => OneRoundOfQuestions
  <2> SUFFICES ASSUME DecisionIsCurrent, NEW g \in FactBags, KnowsMore(g, facts),
                      \A name \in Gaps(facts) : g[name] # Missing
               PROVE  ProposedAction(g) # "ask"
    BY DEF OneRoundOfQuestions
  <2>1. UnknownRules(g) \subseteq UnknownRules(facts)
    BY RulesStayDecided DEF DecisionIsCurrent
  <2>2. ASSUME NEW r \in UnknownRules(g) PROVE MissingFacts(r, g) = {}
    <3> SUFFICES ASSUME NEW name \in r.requires, g[name] = Missing PROVE FALSE
      BY DEF MissingFacts
    <3>1. CASE facts[name] = Missing
      BY <2>1, <3>1 DEF Gaps, MissingFacts
    <3>2. CASE facts[name] # Missing
      <4>1. name \in FactNames
        BY RulesetAssumption DEF RulesetAssumption, UnknownRules
      <4> QED
        BY <3>2, <4>1 DEF KnowsMore
    <3> QED
      BY <3>1, <3>2
  <2>3. Gaps(g) = {}
    BY <2>2 DEF Gaps
  <2> QED
    BY <2>3 DEF ProposedAction
<1> QED
  BY <1>1, Invariant, PTL

\* What a message does not mention, or says in a way nobody could read, stays
\* known: facts left out or null are dropped before they are merged.
THEOREM NothingForgotten == Spec => NothingIsForgotten
<1>1. [Next]_vars =>
        [\A n \in FactNames : facts[n] # Missing => facts'[n] # Missing]_vars
  <2> SUFFICES ASSUME Next, NEW n \in FactNames, facts[n] # Missing
               PROVE  facts'[n] # Missing
    OBVIOUS
  <2>1. ASSUME NEW new \in Messages, AddFacts(new) PROVE facts'[n] # Missing
    <3>1. facts'[n] = IF n \in DOMAIN new THEN new[n] ELSE facts[n]
      BY <2>1 DEF AddFacts, Merge
    <3>2. n \in DOMAIN new => new[n] # Missing
      BY DEF Messages, Extracted, BuildFacts
    <3> QED
      BY <3>1, <3>2
  <2> QED
    BY <2>1 DEF Next, Judge
<1> QED
  BY <1>1, PTL DEF Spec, NothingIsForgotten
=============================================================================
