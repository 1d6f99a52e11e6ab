-------------------------------- MODULE Desk --------------------------------
(***************************************************************************)
(* A conversation at the desk: messages add facts (conversation/state.py), *)
(* an agent proposes, the gate judges.  The agent may be wrong in every    *)
(* way: it cites any rules, rules that do not exist included, and asks for *)
(* any action on whatever is known so far; propose.py is one such agent.   *)
(* The gate is what stands between it and the calendar.                    *)
(***************************************************************************)
EXTENDS Gate, Propose, Extract

CONSTANTS
    Me,          \* the thread of this conversation
    Answers,     \* what the model may answer, asked for the facts of a message
    Citations,   \* the sets of references an agent may cite
    Views,       \* what the calendar may show of the slot
    None

\* What a message may establish.
Messages == {Extracted(raw) : raw \in Answers}

\* dict.update: a later message wins on a conflict.
Merge(f, new) == [n \in FactNames |-> IF n \in DOMAIN new THEN new[n] ELSE f[n]]

ASSUME DeskAssumption ==
    /\ "hours_until_appointment" \in FactNames
    /\ NoFacts \in FactBags
    /\ \A f \in FactBags, new \in Messages : Merge(f, new) \in FactBags
    \* The theorem ViewsAreActionable of CalendarProofs.
    /\ \A view \in Views :
          view.held_by_thread = Me => view.slot_exists /\ ~view.booked

VARIABLES
    facts,       \* ConversationState.facts
    decision     \* the last proposal judged on these facts, and the verdict

vars == <<facts, decision>>

\* What an agent may ask for.  The gate treats ask and decline alike.
Actions == {"book", "ask", "escalate"}

NoDecision == [proposal |-> None]

Decision(p, view, deliverable) ==
    [proposal |-> p, view |-> view, deliverable |-> deliverable,
     verdict |-> Evaluated(p, view, deliverable)]

Init == facts = NoFacts /\ decision = NoDecision

AddFacts(new) ==
    /\ facts' = Merge(facts, new)
    /\ decision' = NoDecision

\* The gate is pure, so one decision on the same facts is enough.
Judge(action, cited, view, deliverable) ==
    /\ decision = NoDecision
    /\ decision' = Decision([thread |-> Me, action |-> action,
                             cited |-> cited, facts |-> facts], view, deliverable)
    /\ UNCHANGED facts

\* The calendar's view matters to a booking only, the reply window to an
\* escalation only.
Next ==
    \/ \E new \in Messages : AddFacts(new)
    \/ \E cited \in Citations :
          \/ \E view \in Views : Judge("book", cited, view, FALSE)
          \/ \E d \in BOOLEAN  : Judge("escalate", cited, None, d)
          \/ Judge("ask", cited, None, FALSE)

Spec == Init /\ [][Next]_vars

-----------------------------------------------------------------------------
Decided == decision.proposal # None
Allowed == Decided /\ decision.verdict.allowed
Booking == Decided /\ decision.proposal.action = "book"

LeadTimesMet(f) ==
    \A r \in MatchingRules(f) : r.outcome = "require_lead_time" => LeadTimeMet(r, f)

\* A missing fact is not a no: when a booking is let through, no rule that
\* denies it or sends it to a human applies, nor would one apply however the
\* facts nobody established turn out.  It does not matter what the agent
\* cited, or what it took care not to ask.
NothingForbidsBooking ==
    Booking /\ Allowed =>
        \A g \in FactBags : KnowsMore(g, decision.proposal.facts) =>
            \A r \in MatchingRules(g) : r.outcome \notin Forbids

\* A yes is never taken back because one more fact becomes known: what the
\* gate let through, it would let through again with that fact in hand.
AllowedIsStable ==
    Allowed =>
        LET p == decision.proposal
        IN  \A new \in Messages :
              LET g == Merge(p.facts, new)
              IN  KnowsMore(g, p.facts) =>
                    Evaluated([p EXCEPT !.facts = g],
                              decision.view, decision.deliverable).allowed

\* The gate is no wall: a booking that cites every rule that applies, with no
\* rule undecided or forbidding, some rule allowing it, every lead time met and
\* the slot held, goes through.
GoodBookingPasses ==
    Booking =>
        LET p == decision.proposal
        IN  /\ p.cited = ProposedRules(p.facts)
            /\ UnknownRules(p.facts) = {}
            /\ \E r \in MatchingRules(p.facts) : r.outcome \in AllowsBooking
            /\ \A r \in MatchingRules(p.facts) : r.outcome \notin Forbids
            /\ LeadTimesMet(p.facts)
            /\ decision.view.held_by_thread = Me
            => Allowed

\* A booking by the proposer, which cites every rule that matches, is let
\* through only when every lead time that applies is met: its citations leave
\* nothing out that the gate looks for among the cited rules only.
ProposerKeepsLeadTimes ==
    Booking /\ Allowed /\ decision.proposal = Proposed(Me, facts) => LeadTimesMet(facts)

\* No agent gets around a lead time by what it cites, or by what it does not
\* ask: a booking that is let through meets the lead time of every rule that
\* refines one it cites, whether the rule applies now or turns out to once more
\* is known.  (All but one of which it cites another version: gate.py:57.)
RefinedLeadTimesMet ==
    Booking /\ Allowed =>
        LET p == decision.proposal
        IN  \A g \in FactBags : KnowsMore(g, p.facts) =>
              \A r \in MatchingRules(g) :
                  /\ r.outcome = "require_lead_time"
                  /\ \E c \in Cited(p) : IsMoreSpecific(r, c)
                  /\ \A c \in Cited(p) : c.id = r.id => c = r
                  => LeadTimeMet(r, g)

\* One round of questions is enough: once everything the proposer asked for is
\* established, whatever the answers, it does not ask again.
OneRoundOfQuestions ==
    ProposedAction(facts) = "ask" /\ ~Decided =>
        \A g \in FactBags :
            /\ KnowsMore(g, facts)
            /\ \A name \in Gaps(facts) : g[name] # Missing
            => ProposedAction(g) # "ask"

\* A customer is not asked twice: a message replaces facts or adds to them, but
\* what it does not mention, or what the model could not read in it, stays
\* known (extract/base.py:56-62).
NothingIsForgotten ==
    [][\A n \in FactNames : facts[n] # Missing => facts'[n] # Missing]_vars

-----------------------------------------------------------------------------
(***************************************************************************)
(* What is written of the gate and the proposer, and is not so.            *)
(***************************************************************************)

\* README.md:31, "An unmet lead-time requirement blocks a booking."
UnmetLeadTimeBlocks ==
    Booking /\ Allowed => LeadTimesMet(facts)

\* The design, section 7, of check 3: "Also blocks if a relevant rule comes
\* back UNKNOWN."  The fact that makes the rule relevant, the service, is known.
UndecidedRuleBlocks ==
    Booking /\ Allowed => UnknownRules(facts) = {}
=============================================================================
