# A verification of the WhatsApp commerce agent

The repository is an agent that books salon appointments over WhatsApp.
Customers' messages become facts, a proposer turns facts into a proposal, a
gate checks the proposal against the salon's policy and the calendar, and only
then is a slot booked. This directory holds TLA+ modules of its core, the
configurations that model-check them with TLC, and theorems checked by TLAPS.

    tlc -workers 2 -config MCCalendar.cfg MCCalendar      # a run
    tlapm CalendarProofs.tla                              # the proofs

Paths below are relative to `src/src/wca/`.

## 1. Inventory

| Component | State | Operations | What makes it correct | Here |
|---|---|---|---|---|
| Calendar (`calendar/mock.py`) | holds, bookings, idempotency keys, a counter | hold, commit, release, expire_due; availability, view | no slot twice; only a live hold books; a retry returns the same booking; a lost hold comes back | modelled, proved |
| Policy (`rules/evaluate.py`, `rules/schema.py`, `policy/salon.rules.json`) | none | evaluate a condition to true, false, unknown; list missing facts | unknown is never read as no; more knowledge never reverses an answer | modelled, proved |
| Specificity (`rules/specificity.py`) | none | matching, unknown, more specific | needs the facts of the other and more | modelled |
| Gate (`gate.py`) | none | six checks on a proposal | no booking that a rule may forbid, in front of any agent; no wall for good bookings | modelled, proved |
| Proposer (`propose.py`) | none | decline, escalate, ask or book | asks for what is missing, once | modelled, proved |
| Conversation state (`conversation/state.py`) | facts, last inbound time | add_facts | later facts win; nothing known is forgotten | facts only |
| Extraction (`extract/`) | none | a message's text to facts | what was left out stays missing | what becomes of an answer |
| Intake (`transport/webhook.py`, `parse_inbound`, `conversation/dedup.py`, `cli.py` serve) | seen ids, what the handler is at | receive, dedup, work, reply | once per message and in order; no 200 for unfinished work; nothing lost | modelled as wired in `serve`, proved |
| Thread queue (`conversation/queue.py`) | a queue per thread | submit, pending, drain | order within a thread; a raising job stops nothing; only latecomers wait | modelled, proved |
| Escalation window (`escalation.py`) | none | window_view | a deliverable escalation leaves the margin | modelled |
| Harness (`harness.py`, `cases.py`, the case file) | a calendar and a proposal per case | run_cases | books what it reports and what the policy allows, and stops no good case | modelled, proved |
| Audit log (`audit.py`) | records, ids seen | append | one record per proposal | the record only: nothing appends |
| Sending (`transport/whatsapp.py`), loading and rendering (`rules/store.py`, `rules/render.py`), ids, command line | none or I/O | | | left out, see section 7 |

How they interact. The webhook hands messages to a queue per thread; a job of
the queue drops messages seen before. The parts meet in `harness.run_cases`:
facts go to the proposer, a proposal to book takes a hold, the gate is given
the proposal, a view of the slot and a view of the reply window, a booking it
lets through is committed, and a record is kept of what was read and decided.
`serve` does not yet call any of this: its job prints the message.

What is hard. Two threads after one slot, with expiry, late commits and retries
between the steps. Rules whose facts nobody established. An agent that chooses
which rules to cite. Duplicate deliveries, crashes, and a dedup store that
forgets. The hazards are listed one by one, with their lines, in `PROJECT.json`.

## 2. Modules

    SlotBook <---refines--- Calendar <- MCCalendar, CalendarProofs
                               ^
                               | INSTANCE
    Window <---------------- Harness <- HarnessProofs
                               ^  ^
                               |  +--- SalonHarness (also of Salon) <- SalonProofs
                               |            ^
    Facts <- Ruleset <- Gate, Propose       +-- MCHarness (also of MCSalon)
      ^                   ^
      +-- Extract <------ Desk <- MCDesk (also of MCSalon), DeskProofs
      |
      +-- Policy <- Salon <- MCSalon
             ^
             +----- PolicyProofs (SalonProofs builds on it)
             +----- PolicyReference <- MCPolicy, PolicyReferenceProofs
    Inbox <---refines--- Intake <- MCIntake, IntakeProofs
    ThreadQueue <- ThreadQueueProofs

**`SlotBook`** is what a calendar promises: slots are free, held or booked;
holds may lapse, bookings do not, and only the holder's slot is booked for it.

**`Calendar`** is `MockCalendar`. `holds`, `bookings` and `byKey` are its
three dictionaries, `counter` its counter; `reply` is what the last call
returned or raised. `Hold`, `Commit`, `Release` and `ExpireDue` are its four
operations, with each refusal in the order the code tests for it. Every
operation of the code is given `now`; here it is the variable `clock`. A
booking's id is made of its hold's id, so bookings are known by hold number. The
reads `Availability` and `View` are operators.

**`Policy`** evaluates conditions. Values carry a Python type, because `<` on a
string raises TypeError, which the code turns into unknown, and because `True`
equals 1 but is the only value `is_true` accepts. `Combine` holds the
three-valued tables; the code works on lists, and the order never matters.
Strings are not ordered: no rule of the policy compares two with `<`.
Conditions nest to any depth. `Levels` has those of a policy and their parts,
each on a level above its own parts, and `Evaluate` and `Comparisons`
(`facts_used`) are recursive functions on them, as the code's are on the data.
`ConditionsAssumption` is what the schema's validators leave: groups are not
empty, `not` has one part, parts lie lower. It asks more of a comparison's own
value than `schema.py` does: a number where the comparison is one of order, a list
for `in`. The shipped policy is so, and the theorems are about policies that are.
**`PolicyReference`** sets it beside two-valued logic. **`Salon`** is the five
shipped rules.

**`Ruleset`** is a set of rules seen from outside. `RuleTruth` and `AtLeast`
are constants, so that the gate can be proved about whatever its rules look
like; the runs give them `Policy!EvaluateRule` and
`Policy!AtLeastHours`. **`Gate`** has the six checks as named predicates and
`Evaluated`, which orders them and reports check and kind. **`Propose`** is
`propose.py`.

**`Extract`** says what becomes of a model's answer: a record with a value or
null for each field. One that does not fit the schema establishes nothing, whether
`extract` reports that or raises, and nulls are dropped.
**`Desk`** is one conversation: `AddFacts` merges what a message establishes; `Judge` puts any proposal before the gate, on the facts of
the moment, citing any set of references with any view of the slot. The code's
agent is one such agent, `Proposed`.

**`Window`** is `window_view`: the hours left, rounded to thousandths as the code
rounds them, whether the reason has an approved template, and the margin. The code
keeps fractions of a second, so instants are numbers of some fraction, `PerSecond`
of them to a second; TLC counts in tenths, the proofs in any.
**`Harness`** is the loop of `run_cases`, one action per statement that calls another part: `Rival`, `Propose`, `TakeHold`, `Judge`,
`Commit`, `Record`. Its calendar is an INSTANCE of `Calendar`, its `run` the
loop's local variables, and a refused hold is number 0. The swallowed exceptions
are the refusals in `reply`. **`SalonHarness`** is the harness under the
shipped rules, on facts with any values, and says in the policy's own terms what a
booking means (`PolicyKept`). **`MCSalon`** has the facts that the desk and the
harness are run on, **`MCHarness`** the shipped cases with what the case file
expects of them.

**`ThreadQueue`** is `ThreadQueue`. `arrived` are the dictionary's keys in order,
`ahead` what is left of the list a drain walks. While a job runs it may submit
to any thread and may ask `pending`, which makes a thread known. `given`, `ran`
and `due` are history: what was submitted, what was run, what the drain owes.

**`Intake`** is `serve`. `Post` is Meta sending a batch, any number of times.
`Receive` starts the handler on what `ParseInbound` leaves of the body; `Submit`
and `Take` are the queue, which `serve` drains after every submit, so it never
holds more than one job; `Recognise`, `Remember`, `Work` and `Fail` are the job;
`Reply` is the 200. `Crash` forgets all that the server knows, and the
connections. The handler awaits the body and nothing else, so batches do not
interleave once received; duplicates wait in `inFlight`. Bodies that are no
JSON are answered 200 without effect, like the empty batch of a delivery status.
**`Inbox`** is what this promises, with no copies, queues or store in it: a message
is worked on once in a life of the server and in its turn, or given up; a batch is
answered when that is done.

In each module, a definition marked as a mutant is a plausible mistake in the
definition that follows it, used only to show that a property can fail.

## 3. Runs

| Run | Asks | Bounds |
|---|---|---|
| `calendar` | is every interleaving of two threads safe, and a step of `SlotBook`? | 2 slots and an unknown one, 2 threads, 2 keys, 3 holds, TTL 2, time 0..5 |
| `calendar_live` | does a slot come back with nobody calling the reaper? | known slots and one key only, time 0..4 |
| `policy` | does three-valued evaluation agree with logic, on every way of learning the facts? | 1,015 conditions of two levels, 3 facts, wrong types included |
| `desk` | does the gate stop what it must, and pass what it should? | shipped rules; 6 facts, each on both sides of its rule; all sets of citations |
| `desk_lead_time` | does an unmet lead time always block? (`README.md:31`) No | the same |
| `desk_unknown` | does a relevant unknown rule always block? (design, section 7) No | the same |
| `harness` | is what is booked and let through right, end to end? | all 972 fact bags, 4 of odd types, 4 kinds of slot, 3 registries, gate on and off; 12 instants around the window's margin and end |
| `harness_release` | does a failed booking release its hold? (design, section 1) No | the same |
| `queue` | does a drain keep order and leave only latecomers? | 3 threads, 2 jobs each |
| `intake` | is a message worked on once per life and in the order of its batch, no unfinished work answered, nothing lost; is each step one of `Inbox`? | 2 threads, 3 batches, 2 copies in flight, 2 crashes |
| `intake_seen` | are seen messages handled ones? (`dedup.py:1`) No | the same |
| `intake_restart` | is a redelivered message always passed over? (`dedup.py:3-4`) No | the same |

Why the bounds are enough. Three holds on two slots let one thread lose a slot
to expiry, another take it, and the first come back; two keys let a commit be
retried with its own key and with another. TTL 2 puts an instant before, at and
after expiry. Holds are granted only while they can still run out within
`MaxTime`, so no hold outlives the run. The gate depends on a fact only through the
rules that read it, so a value on each side of each rule, an incomparable age
and the missing value cover what it can tell apart. Messages add one fact; a
message with several is several of them, since nothing is decided between. Two
crashes let a message fail to be finished, be retried and be cut off again. A
case of the harness comes an hour into its window, as in the case file, except
that under-age bookings also come at instants around the margin and after the
window's end: 1.7, 1.8 and 1.9 seconds late are on both sides of where the rounding
turns. Hours and a price in words, and hours and an age that are `true`, are what a
case file can hold and a rule does not expect.
Three threads let a drain have one behind it, one at hand and one ahead, or one it never heard of; two jobs each let a job submit to any of
these, its own included.

`MCPolicy.cfg` alone switches off deadlock: a run ends when all facts are known.

What `desk` covers and does not. `NothingForbidsBooking`, `AllowedIsStable` and
`GoodBookingPasses` hold for every agent. Lead times hold for the code's
proposer (`ProposerKeepsLeadTimes`), which cites every rule that matches; they
do not for every agent, as `desk_lead_time` shows. What every agent must keep is
the lead time of a rule that refines one it cites (`RefinedLeadTimesMet`): under
the shipped rules only an agent that cites nothing but the deposit gets around
it, and `MCDesk` has TLC evaluate why (`DepositIsTheGap`): the deposit's is the only
rule that allows a booking and is not refined by the patch test's.
`RefinedLeadTimesMet` excepts a rule cited at another version, since check 3
compares ids only. The shipped rules have one version of each; `OlderVersionHides`
evaluates the parts of checks 3 and 4 on a policy with two: cite the older rule,
and the newer one counts as cited while nobody reads its hours.

What `harness` adds. `BookedIsPermitted` holds the booking that stands in the
end against all the rules, though the gate looks for lead times among the cited
ones only. `PolicyKept` does so without the rules, in the policy's own words:
colour work, not on a Sunday, an age that is a number and not below 16, 48
hours ahead for a first visit, and the price known, with the deposit on record when
it asks for one, which is all that the code does about it. It needs rule evaluation,
proposer and gate all to be right, on facts of the wrong type too: hours in words
are not 48, and an age in words is not 16.
Their converses say that the harness is no wall. `GoodCasesGoThrough`: once every
rule is decided, what the rules permit on the free slot ends in the calendar, and
an escalation with a template and the margin left is let through. `PolicySuffices`:
under the shipped rules the five sentences are all that a customer has to meet.
`VerdictIsAboutOurHold` relates the gate's check 5, which asks for a thread, to
the hold the proposal names. `CasesGoAsWritten` has the twenty cases with the
action and the check their file expects. `EscalationInTime` allows the 1.8 seconds
that rounding gives away, and no more: 7,198.2 seconds count as 2.0 hours.

## 4. Fairness

`Calendar!FairSpec` says only that time passes. No thread is made to return and
the reaper is never made to run, since nothing in the code calls it.
`Intake!FairSpec` says that Meta sends again what was not answered (design,
4.1), that the server takes up each batch which keeps coming (uvicorn serves
connections in turn, hence strong fairness: the handler is often busy), and that
the handler, once started, goes on. Crashes are bounded and never due.

## 5. Proofs

`CalendarProofs`, for any slots, threads, keys, TTL and bounds, from
`CalendarAssumption`: type correctness, the safety invariants, the action
properties `OnlyTheHolderBooks`, `BookingsForever`, `ReaperIsInvisible`,
`OfferedIsGranted` and `RetryReturnsSameBooking`,
and the refinement of `SlotBook`. `NoDoubleBooking` is not inductive: a commit
looks at the hold and not at the other bookings, so what keeps it safe is that a
live hold never stands on a booked slot (`HoldExcludes`). That in turn needs
that every booking's hold was used up (`BookedFromHold`) and that a booking has
one key (`OneKeyPerBooking`). The inductive invariant is `TypeOK` and these
four. Most steps only make holds fade (release, expiry, time), which one lemma
treats at once; `Hold` and `Commit` have one each. The refinement maps fading
to `Lapse`, a granted hold to `Reserve`, a commit to `Confirm`.

`RetriesAreAnswered` rests on the key being looked up before the hold, and
`OffersAreMeant` on `availability` and `hold` making the same tests.

`PolicyProofs`, for conditions of any depth. A recursive function is a CHOOSE,
so first there must be one that meets the equation. It is built level by level
(`RecursionEnds`): for each n there is a function right below level n, and two
such agree where both are right. The library's induction theorems take a
predicate as a parameter, which no prover here can instantiate; instead
`NatSetInduction` derives induction for a *set* of numbers from the
well-founded ordering of finite sets, and `RankInduction` carries it to
conditions. What comes out are the equations the code states as recursive calls
(`EvaluateUnfolds`, `ComparisonsUnfold`), and by induction on the level
`AnswersStand`: an answer is never taken back. With it, `RulesAnswer` shows that
every rule, whatever its condition, is as `RulesetAssumption` asks: the theorems
about the gate take nothing of evaluation on trust.

`PolicyReferenceProofs`: two-valued logic unfolds the same way, and by
induction an answer agrees with it on every completion (`AnswersAreSound`), an
unknown has a missing or ill-typed fact behind it (`UnknownIsActionable`), and
no step takes an answer back (`LearningKeepsAnswers`).

`DeskProofs`, for any policy whose answers are never taken back
(`RulesetAssumption`, which the run `desk` evaluates on the shipped rules and
`RulesAnswer` proves of all), any messages and any citations. The argument:
learning moves rules from unknown to decided and nowhere else
(`RulesStayDecided`), so each check that passed on some facts passes on more
(`AllowedOnMore`). The invariant is that the decision at hand was made on the
facts at hand. From it follow `NothingForbids`, `AllowedStays`, `GoodPasses`,
`LeadTimesKept`, `RefinedLeadTimesKept` and `OneRound`. `GoodPasses` uses that references are unique
(`RuleSet._no_duplicates`) and that a view with a holder shows a free slot,
which is `ViewsAreActionable` of `CalendarProofs`.

`RefinedLeadTimesKept`, for any agent: a rule that applies on more facts applies
or is undecided on these, so check 3 wants it cited, and check 4 then reads its
hours. An agent that cites nothing such a rule refines is held to nothing, which is
what `desk_lead_time` shows of the deposit's.

`NothingForgotten` shows that no message makes a known fact unknown, whatever the
model answers.

`IntakeProofs`, for any messages, threads and batches. `WorkedOnce` alone is not
inductive: that a message is worked on once rests on its id being remembered
before the work starts, so the invariant says that what was worked on in this
life is seen (`LogIsSeen`), and that what is seen is finished, or is the message
at hand (`SeenIsFinished`). For `AckedIsDone` it adds that no message of the body at hand
is dropped: each waits, is in its queue, is at hand, or is finished
(`NoneIsDropped`). That the parser hands on the texts and all of them is
`ParsedIsText`, by the same kind of induction along its loop.

`BatchOrderKept` needs to follow a message through the intake. What is still to be
handed on stands behind the messages before it in the batch, unless these are
further on (`TodoInOrder`); once it is in a queue or at hand, they were worked on
(`HandedOnInOrder`), as a message is handed on only when the one before has left.
What could break this is a job that passes over the earlier message as seen;
`SeenIsWorked` says that what is seen and can be printed was worked on in this
life. That the parser keeps the order is `ParsedInOrder`. A message that stands in
two different batches is excepted (`Precedes`). With both invariants,
`ImplementsInbox` has one line per action: four are the actions of `Inbox`, the
others change nothing it sees.

`ThreadQueueProofs`, for any threads and number of jobs. `OrderKept`: what a
thread ran, the job at hand and its queue, put end to end, count from one to the
number submitted. `NoneStays`: what a drain owes stands in a queue the drain has
still to walk (`OwedIsAhead`), since it walks every thread it knew when it began
(`QueuedIsKnown`) and leaves none before it is empty. That no thread is listed
twice, so that none is walked twice, is part of `TypeCorrect`; no run checks it.

`HarnessProofs`, for any policy, cases, facts and templates. The properties
speak of the end of a case, so the invariant says what each step leaves to the
next: one hold at most, on the taken slot the rival's and else the one
`run.holdId` names (`OneHold`); nothing booked before the commit; proposal,
window and verdict as computed from what was shown (`ProposedFromFacts`,
`JudgedAsShown`); what the commit did (`Committed`). TLC checked this invariant
on a small set of cases before it was proved. `GateJudgesOurHold` then follows
because the view can name our thread only through that hold, and
`OnlyTheReportedBooking` because the commit meets an empty table.
`OnlyPermittedIsBooked` uses that the proposer cites every rule that matches,
so that the lead times the gate looks at are all that apply.
`EscalationsComeInTime` is arithmetic, for any `PerSecond`: `MarginOnTheClock`
turns the rounded hours, a division, into the 9/5 of a second by which they can
be wrong (`DividedAtLeast`).

`NoWall` needs more than `IInv`, which says what the calendar has at most. `GInv`
says what it has at least: on the free slot the hold is granted, number 1, and
lives until the commit, as the clock stands still in a case (`OurHoldStands`);
the view shows it as ours (`ShownOurs`); the commit is not refused
(`CommittedIfAllowed`). What the proposer cites is grounded when every rule is
decided (`ProposedIsGrounded`).

`SalonProofs` puts the parts together: with the shipped rules
(`ShippedAssumption`: these five, evaluated by `Policy`), `SalonPolicyKept`
holds for facts with any values, of any type. The step that is not obvious: a
booking could slip through while nobody knows whether it is a first visit. It
does not, because the patch test rule needs more facts than
`colour_allowed`, which is cited, and would be an override missed (`FinerDecided`).
The same holds of the deposit rule and the price.
`SalonPolicySuffices` reads the same comparisons the other way round, so that no
rule is undecided, and applies `NoWall`.

Model-checked only. Liveness (`HeldSlotComesBack`, `NothingIsLost`), out of the
provers' reach. `CasesGoAsWritten`, which is about twenty given cases.

## 6. Where code and words differ

Five runs are expected to fail, each refuting a sentence of the repository;
`PROJECT.json` quotes it. Two bear on bookings: when the agent cites only the
deposit rule, the gate does not look for the lead time another rule asks for,
and passes a booking while that rule is unknown. The code's proposer never cites
so little. One bears on the slot: a booking the gate blocks keeps its hold until
the TTL runs out, because nothing calls `release`. Two bear on messages: one
whose job raises is never tried again, and after a restart a redelivered one is
worked on again.

Met on the way, without a run: a slot is free again at its hold's expiry, not
when the reaper comes (`mock.py:8-9`; the model's `IsLive` and the property
`ReaperIsInvisible` show it). A fact of a type that cannot be compared leaves a
rule unknown, nothing is missing, and the proposer books instead of asking
(design, section 5; the gate then blocks it). The case file says of
`ambiguous_03` that "with the gate off, this books straight over the other
holder" (`cases/v0.cases.json:95`); the harness takes no hold for that slot and
books nothing, which `BookedIsCommitted` shows with the gate on and off. The
design also says "Reply first, work second" (4.1); `serve` works first, which is
what makes a 200 mean that the work is done (`AckedIsDone`), and that
"The patch-test case blocks at check 3" (design, line 272): with the hours unmet it is
check 4 that blocks, as the case file says of `override_01` and the README at line
31 (`CasesGoAsWritten`); check 3 blocks where it is not known to be a first visit.
The rule file's own words are "Services over 150 require a 50 deposit"; its rule asks
for one at 150 exactly too. `extract/anthropic.py` says that an answer which does not
validate "is recorded as a parse failure"; a ValidationError raised by
`messages.parse` itself (line 60) is caught nowhere. The margin of an escalation is
short by up to 1.8 seconds, as its hours are rounded before they are compared
(`EscalationInTime`).

## 7. Not modelled, and the plan

Left out for good. The extractor's prompt and call, and sending messages: one
HTTP call each, with no state, retry or error handling around it. Signature
arithmetic, the handshake, environment and argument handling, reading and
wording rules. The harness's counts. `AuditLog` and `ConversationStore`: no code
under `src/src` uses them, so there is no order of calls to check. That a drain
returns: a job that submits to its own thread again and again would keep it
from returning, and nothing in the code bounds that or does it.

What is left to do:

1. A run of the desk under a policy with two versions of one rule in force. That
   the older hides the newer is evaluated on one case only (`OlderVersionHides`).
2. A harness whose proposals come from an agent other than `propose.py`, once the
   code has one. `DeskProofs` says what the gate owes such an agent's customers.
3. The conversation store and the audit log, once something calls them.
