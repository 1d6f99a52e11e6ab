------------------------------ MODULE Calendar ------------------------------
(***************************************************************************)
(* The in-memory calendar (calendar/mock.py).  A thread takes a hold on a  *)
(* slot, the hold lives for TTL, and a commit turns a live hold into a     *)
(* booking.  A commit carries an idempotency key: the same key asks for    *)
(* the same booking, however often it is sent.                             *)
(*                                                                         *)
(* Every operation of the code takes the caller's `now'.  The callers pass *)
(* one clock that never runs backwards (clock.py), so `now' is the         *)
(* variable clock here.  Hold ids are numbers drawn from a counter, and a  *)
(* booking's id is made of its hold's id (mock.py:119), so a booking is    *)
(* known here by its hold's number.                                        *)
(***************************************************************************)
EXTENDS Naturals

CONSTANTS
    Slots,      \* slot_ids, the slots this calendar offers
    Requests,   \* the slot names a caller may ask for, unknown ones included
    Threads,    \* the conversations that ask
    Keys,       \* idempotency keys
    TTL,        \* HOLD_TTL_SECONDS, in steps of the clock
    MaxHolds,   \* bound: how many holds are ever granted
    MaxTime,    \* bound: the last instant of the clock
    None        \* Python's None

ASSUME CalendarAssumption ==
    /\ Slots \subseteq Requests
    /\ TTL \in Nat \ {0}
    /\ MaxHolds \in Nat
    /\ MaxTime \in Nat
    /\ None \notin Threads

VARIABLES
    clock,      \* the instant every caller passes as `now'
    counter,    \* _counter
    holds,      \* _holds, by hold number
    bookings,   \* _bookings, by the number of the hold they came from
    byKey,      \* _by_key: idempotency key -> booking
    reply       \* what the call just made returned or raised

vars == <<clock, counter, holds, bookings, byKey, reply>>

HoldIds == 1..MaxHolds
Instants == 0..MaxTime

RefusalReason == {"no_such_slot", "already_held", "already_booked",
                  "no_such_hold", "hold_expired"}

HoldRecord == [slot : Slots, thread : Threads, expires : Instants,
               released : BOOLEAN]
BookingRecord == [slot : Slots, thread : Threads, at : Instants]

\* A call returns an id (a hold's or a booking's), or raises HoldRefused.
Returned(id)    == [id |-> id, refused |-> "no"]
Refused(reason) == [id |-> 0, refused |-> reason]
NoReply         == Returned(0)

\* A Python dict after d[k] = v.
Put(d, k, v) == [x \in DOMAIN d \cup {k} |-> IF x = k THEN v ELSE d[x]]

-----------------------------------------------------------------------------
\* Looking things up.

\* Mutants of IsLive: >= for >, and a hold that only a reaper ends.
IsLiveAtExpiry(i)  == ~holds[i].released /\ holds[i].expires >= clock
IsLiveTillReaped(i) == ~holds[i].released

IsLive(i) == ~holds[i].released /\ holds[i].expires > clock

LiveHolds(s) == {i \in DOMAIN holds : holds[i].slot = s /\ IsLive(i)}

\* The first one in the order they were granted.
LiveHoldFor(s) == CHOOSE i \in LiveHolds(s) : \A j \in LiveHolds(s) : i <= j

Booked(s) == \E b \in DOMAIN bookings : bookings[b].slot = s

\* Mutant of Availability: forgets the bookings.
AvailabilityOfUnheld == {s \in Slots : LiveHolds(s) = {}}

Availability == {s \in Slots : LiveHolds(s) = {} /\ ~Booked(s)}

\* The snapshot the gate is given.
View(s) ==
    LET held == LiveHolds(s) # {}
    IN  [slot_exists    |-> s \in Slots,
         booked         |-> Booked(s),
         held_by_thread |-> IF held THEN holds[LiveHoldFor(s)].thread ELSE None,
         hold_id        |-> IF held THEN LiveHoldFor(s) ELSE 0]

-----------------------------------------------------------------------------
\* The operations.

\* Mutant of HoldRefusal: a slot takes several holds.
HoldRefusalSharing(s) ==
    IF s \notin Slots THEN "no_such_slot"
    ELSE IF Booked(s) THEN "already_booked"
    ELSE "no"

HoldRefusal(s) ==
    IF s \notin Slots THEN "no_such_slot"
    ELSE IF Booked(s) THEN "already_booked"
    ELSE IF LiveHolds(s) # {} THEN "already_held"
    ELSE "no"

HoldRefused(s) ==
    /\ HoldRefusal(s) # "no"
    /\ reply' = Refused(HoldRefusal(s))
    /\ UNCHANGED <<clock, counter, holds, bookings, byKey>>

HoldGranted(s, t) ==
    /\ HoldRefusal(s) = "no"
    /\ counter < MaxHolds                  \* bound
    /\ clock + TTL <= MaxTime              \* bound: every hold can run out
    /\ counter' = counter + 1
    /\ holds' = Put(holds, counter + 1,
                    [slot |-> s, thread |-> t, expires |-> clock + TTL,
                     released |-> FALSE])
    /\ reply' = Returned(counter + 1)
    /\ UNCHANGED <<clock, bookings, byKey>>

Hold(s, t) == HoldRefused(s) \/ HoldGranted(s, t)

\* Mutant of CommitRefusal: the TTL is not looked at.
CommitRefusalAgeless(h) ==
    IF h \notin DOMAIN holds THEN "no_such_hold"
    ELSE IF holds[h].released THEN "no_such_hold"
    ELSE "no"

\* Why a commit of hold h under a fresh key is refused.
CommitRefusal(h) ==
    IF h \notin DOMAIN holds THEN "no_such_hold"
    ELSE IF holds[h].released THEN "no_such_hold"
    ELSE IF holds[h].expires <= clock THEN "hold_expired"
    ELSE "no"

\* Mutants of UsedUp: the hold stays as it is, or is struck off the books.
UsedUpNot(h)     == holds
UsedUpDeleted(h) == [i \in DOMAIN holds \ {h} |-> holds[i]]

\* A hold that was committed or given back.
UsedUp(h) == [holds EXCEPT ![h].released = TRUE]

\* Mutant of KnownKeys: nobody looks whether the key was used.
KnownKeysUnread == {}

KnownKeys == DOMAIN byKey

\* A key that was used before: its booking again, whatever the hold.
CommitReplayed(k) ==
    /\ k \in KnownKeys
    /\ reply' = Returned(byKey[k])
    /\ UNCHANGED <<clock, counter, holds, bookings, byKey>>

CommitRefused(h, k) ==
    /\ k \notin KnownKeys
    /\ CommitRefusal(h) # "no"
    /\ reply' = Refused(CommitRefusal(h))
    /\ UNCHANGED <<clock, counter, holds, bookings, byKey>>

CommitMade(h, k) ==
    /\ k \notin KnownKeys
    /\ CommitRefusal(h) = "no"
    /\ bookings' = Put(bookings, h, [slot   |-> holds[h].slot,
                                     thread |-> holds[h].thread,
                                     at     |-> clock])
    /\ byKey' = Put(byKey, k, h)
    /\ holds' = UsedUp(h)
    /\ reply' = Returned(h)
    /\ UNCHANGED <<clock, counter>>

Commit(h, k) == CommitReplayed(k) \/ CommitRefused(h, k) \/ CommitMade(h, k)

\* Giving a hold back.  Anyone who knows its id may; an unknown id is ignored.
Release(h) ==
    /\ holds' = IF h \in DOMAIN holds THEN UsedUp(h) ELSE holds
    /\ reply' = NoReply
    /\ UNCHANGED <<clock, counter, bookings, byKey>>

\* Mutant of Due: the reaper comes one instant early.
DueSoon == {i \in DOMAIN holds : ~holds[i].released /\ holds[i].expires <= clock + 1}

\* The reaper: marks every hold that has run out.
Due == {i \in DOMAIN holds : ~holds[i].released /\ holds[i].expires <= clock}

ExpireDue ==
    /\ holds' = [i \in DOMAIN holds |->
                    IF i \in Due THEN [holds[i] EXCEPT !.released = TRUE]
                                 ELSE holds[i]]
    /\ reply' = NoReply
    /\ UNCHANGED <<clock, counter, bookings, byKey>>

\* Time passes between calls.
Tick ==
    /\ clock < MaxTime                     \* bound
    /\ clock' = clock + 1
    /\ reply' = NoReply
    /\ UNCHANGED <<counter, holds, bookings, byKey>>

-----------------------------------------------------------------------------
Init ==
    /\ clock = 0
    /\ counter = 0
    /\ holds = [i \in {} |-> 0]
    /\ bookings = [i \in {} |-> 0]
    /\ byKey = [k \in {} |-> 0]
    /\ reply = NoReply

Next ==
    \/ \E s \in Requests, t \in Threads : Hold(s, t)
    \/ \E h \in HoldIds, k \in Keys : Commit(h, k)
    \/ \E h \in HoldIds : Release(h)
    \/ ExpireDue
    \/ Tick

Spec == Init /\ [][Next]_vars

\* Time passes by itself.  Nothing makes a thread or the reaper come back.
FairSpec == Spec /\ WF_vars(Tick)

-----------------------------------------------------------------------------
(***************************************************************************)
(* Properties.                                                             *)
(***************************************************************************)

TypeOK ==
    /\ clock \in Instants
    /\ counter \in 0..MaxHolds
    /\ holds \in [1..counter -> HoldRecord]
    /\ DOMAIN bookings \subseteq 1..counter
    /\ bookings \in [DOMAIN bookings -> BookingRecord]
    /\ DOMAIN byKey \subseteq Keys
    /\ byKey \in [DOMAIN byKey -> DOMAIN bookings]
    /\ reply \in [id : 0..MaxHolds, refused : RefusalReason \cup {"no"}]

\* A slot is never booked twice, whatever the interleaving of two threads'
\* holds, expiries, late commits and retries (mock.py:5-6, "a slot takes one
\* hold").
NoDoubleBooking ==
    \A b, c \in DOMAIN bookings : bookings[b].slot = bookings[c].slot => b = c

\* At most one live hold stands on a slot, and none stands on a booked slot,
\* so the first hold _live_hold_for finds is the only one.
HoldExcludes ==
    \A i \in DOMAIN holds : IsLive(i) =>
        /\ ~Booked(holds[i].slot)
        /\ \A j \in DOMAIN holds : IsLive(j) /\ holds[j].slot = holds[i].slot => i = j

\* Every booking was made from a hold that was taken by the same thread on
\* the same slot, that had not run out at that moment, and that can never be
\* committed again.
BookedFromHold ==
    \A b \in DOMAIN bookings :
        /\ holds[b].released
        /\ bookings[b].slot = holds[b].slot
        /\ bookings[b].thread = holds[b].thread
        /\ bookings[b].at < holds[b].expires

\* Committing twice books once: each booking was made under exactly one key,
\* so a retry under a second key cannot book again, and no key leads to two
\* bookings.
OneKeyPerBooking ==
    \A b \in DOMAIN bookings : \E k \in DOMAIN byKey :
        /\ byKey[k] = b
        /\ \A j \in DOMAIN byKey : byKey[j] = b => j = k

\* What the gate is shown can be acted on: if the view names a holder, then a
\* commit of the hold it names, at that instant and under a fresh key, is
\* accepted and books the slot for that holder.
ViewIsActionable ==
    \A s \in Requests : View(s).held_by_thread # None =>
        /\ View(s).slot_exists /\ ~View(s).booked
        /\ CommitRefusal(View(s).hold_id) = "no"
        /\ holds[View(s).hold_id].slot = s
        /\ holds[View(s).hold_id].thread = View(s).held_by_thread

\* A thread whose hold ran out, and who comes back with a commit after
\* another thread took the slot, steals nothing: a new booking is always for
\* the hold that stood on the slot when the commit came.
OnlyTheHolderBooks ==
    [][\A b \in DOMAIN bookings' \ DOMAIN bookings :
            b \in LiveHolds(bookings'[b].slot)]_vars

\* A booking is never lost or altered, and a key never leads elsewhere.
BookingsForever ==
    [][/\ \A b \in DOMAIN bookings : b \in DOMAIN bookings' /\ bookings'[b] = bookings[b]
       /\ \A k \in DOMAIN byKey : k \in DOMAIN byKey' /\ byKey'[k] = byKey[k]]_vars

\* A commit that succeeded is answered with the same booking whenever it is
\* sent again, even after its hold has run out or was consumed by it.
RetryReturnsSameBooking ==
    [][\A h \in HoldIds, k \in Keys :
            Commit(h, k) /\ k \in DOMAIN byKey => reply' = Returned(byKey[k])]_vars

\* availability() and hold() agree: a slot that is offered is granted to the
\* next thread that asks, and one that is not offered is refused.
OfferedIsGranted ==
    [][\A s \in Requests, t \in Threads :
            Hold(s, t) => (s \in Availability <=> reply'.refused = "no")]_vars

\* The reaper never takes a slot from a thread that could still commit: no
\* caller can see that it ran, neither in what is offered nor in what the
\* gate is shown.
ReaperIsInvisible ==
    [][ExpireDue => /\ Availability' = Availability
                    /\ \A s \in Requests : View(s)' = View(s)]_vars

\* A slot held by a thread that never comes back is offered again, or was
\* booked, without anyone calling the reaper: the TTL alone sees to it.
HeldSlotComesBack ==
    \A s \in Slots : LiveHolds(s) # {} ~> (s \in Availability \/ Booked(s))

\* The calendar implements the promise of SlotBook.
HeldPairs ==
    {<<holds[i].slot, holds[i].thread>> : i \in {j \in DOMAIN holds : IsLive(j)}}
BookedPairs ==
    {<<bookings[b].slot, bookings[b].thread>> : b \in DOMAIN bookings}

Promise == INSTANCE SlotBook WITH held <- HeldPairs, booked <- BookedPairs

\* Every step of the calendar is a step SlotBook allows, or none at all: in
\* particular a slot is taken only when free and booked only by its holder.
KeepsPromise == Promise!Spec
=============================================================================
