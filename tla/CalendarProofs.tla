--------------------------- MODULE CalendarProofs ---------------------------
(***************************************************************************)
(* Theorems about the calendar, for every set of slots, threads and keys,  *)
(* every TTL, and every bound.                                             *)
(***************************************************************************)
EXTENDS Calendar, TLAPS

-----------------------------------------------------------------------------
\* Storing a value under a key of a dict (mock.py:105, 124, 125).
LEMMA PutType ==
    ASSUME NEW R, NEW d, d \in [DOMAIN d -> R], NEW k, NEW v \in R
    PROVE  /\ Put(d, k, v) \in [DOMAIN d \cup {k} -> R]
           /\ DOMAIN Put(d, k, v) = DOMAIN d \cup {k}
           /\ Put(d, k, v)[k] = v
           /\ \A x \in DOMAIN d : x # k => Put(d, k, v)[x] = d[x]
    BY DEF Put

\* A reply is well formed.
LEMMA ReplyType ==
    /\ \A id \in 0..MaxHolds :
          Returned(id) \in [id : 0..MaxHolds, refused : RefusalReason \cup {"no"}]
    /\ NoReply \in [id : 0..MaxHolds, refused : RefusalReason \cup {"no"}]
    /\ \A s : HoldRefusal(s) # "no" =>
          Refused(HoldRefusal(s)) \in [id : 0..MaxHolds, refused : RefusalReason \cup {"no"}]
    /\ \A h : CommitRefusal(h) # "no" =>
          Refused(CommitRefusal(h)) \in [id : 0..MaxHolds, refused : RefusalReason \cup {"no"}]
    BY CalendarAssumption
    DEF CalendarAssumption, Returned, Refused, NoReply, RefusalReason, HoldRefusal, CommitRefusal

-----------------------------------------------------------------------------
\* Type correctness: ids never leave the counter's range, every key leads to
\* a booking, every booking comes from a hold that was granted.
THEOREM TypeCorrect == Spec => []TypeOK
<1>1. Init => TypeOK
  BY CalendarAssumption, ReplyType
  DEF CalendarAssumption, Init, TypeOK, Instants, HoldRecord, BookingRecord
<1>2. TypeOK /\ [Next]_vars => TypeOK'
  <2> SUFFICES ASSUME TypeOK, [Next]_vars PROVE TypeOK'
    OBVIOUS
  <2> USE CalendarAssumption DEF CalendarAssumption, TypeOK, Instants
  <2>1. ASSUME NEW s \in Requests, NEW t \in Threads, HoldRefused(s) PROVE TypeOK'
    BY <2>1, ReplyType DEF HoldRefused
  <2>2. ASSUME NEW s \in Requests, NEW t \in Threads, HoldGranted(s, t) PROVE TypeOK'
    <3> DEFINE new == [slot |-> s, thread |-> t, expires |-> clock + TTL, released |-> FALSE]
    <3>1. s \in Slots
      BY <2>2 DEF HoldGranted, HoldRefusal
    <3>2. new \in HoldRecord
      BY <2>2, <3>1 DEF HoldGranted, HoldRecord
    <3>3. holds' \in [1..counter \cup {counter + 1} -> HoldRecord]
      BY <2>2, <3>2, PutType DEF HoldGranted
    <3>4. counter' \in 0..MaxHolds /\ counter' = counter + 1
          /\ 1..counter \cup {counter + 1} = 1..counter'
      BY <2>2 DEF HoldGranted
    <3>5. reply' \in [id : 0..MaxHolds, refused : RefusalReason \cup {"no"}]
      BY <2>2, <3>4, ReplyType DEF HoldGranted
    <3> QED
      BY <2>2, <3>3, <3>4, <3>5 DEF HoldGranted
  <2>3. ASSUME NEW k \in Keys, CommitReplayed(k) PROVE TypeOK'
    <3>1. byKey[k] \in 0..MaxHolds
      BY <2>3 DEF CommitReplayed, KnownKeys
    <3> QED
      BY <2>3, <3>1, ReplyType DEF CommitReplayed, KnownKeys
  <2>4. ASSUME NEW h \in HoldIds, NEW k \in Keys, CommitRefused(h, k) PROVE TypeOK'
    BY <2>4, ReplyType DEF CommitRefused
  <2>5. ASSUME NEW h \in HoldIds, NEW k \in Keys, CommitMade(h, k) PROVE TypeOK'
    <3> DEFINE new == [slot |-> holds[h].slot, thread |-> holds[h].thread, at |-> clock]
    <3>1. h \in DOMAIN holds /\ h \in 1..counter
      BY <2>5 DEF CommitMade, UsedUp, KnownKeys, CommitRefusal
    <3>2. holds' \in [1..counter -> HoldRecord]
      BY <2>5, <3>1 DEF CommitMade, UsedUp, KnownKeys, HoldRecord
    <3>3. new \in BookingRecord
      BY <3>1 DEF HoldRecord, BookingRecord
    <3>4. /\ bookings' \in [DOMAIN bookings \cup {h} -> BookingRecord]
          /\ DOMAIN bookings' = DOMAIN bookings \cup {h}
      <4>1. bookings' = Put(bookings, h, new)
        BY <2>5 DEF CommitMade, UsedUp, KnownKeys
      <4> HIDE DEF new
      <4> QED
        BY <4>1, <3>3 DEF Put
    <3>5. byKey \in [DOMAIN byKey -> DOMAIN bookings \cup {h}]
      OBVIOUS
    <3>6. /\ byKey' \in [DOMAIN byKey \cup {k} -> DOMAIN bookings \cup {h}]
          /\ DOMAIN byKey' = DOMAIN byKey \cup {k}
      <4>1. byKey' = Put(byKey, k, h)
        BY <2>5 DEF CommitMade, UsedUp, KnownKeys
      <4> DEFINE R == DOMAIN bookings \cup {h}
      <4>2. byKey \in [DOMAIN byKey -> R] /\ h \in R
        BY <3>5
      <4> HIDE DEF R
      <4>3. byKey' \in [DOMAIN byKey \cup {k} -> R] /\ DOMAIN byKey' = DOMAIN byKey \cup {k}
        BY <4>1, <4>2 DEF Put
      <4> QED
        BY <4>3 DEF R
    <3>7. reply' \in [id : 0..MaxHolds, refused : RefusalReason \cup {"no"}]
      BY <2>5, <3>1, ReplyType DEF CommitMade, UsedUp, KnownKeys
    <3> QED
      BY <2>5, <3>1, <3>2, <3>4, <3>6, <3>7 DEF CommitMade, UsedUp, KnownKeys
  <2>6. ASSUME NEW h \in HoldIds, Release(h) PROVE TypeOK'
    <3>1. holds' \in [1..counter -> HoldRecord]
      BY <2>6 DEF Release, UsedUp, HoldRecord
    <3> QED
      BY <2>6, <3>1, ReplyType DEF Release, UsedUp
  <2>7. CASE ExpireDue
    <3>1. holds' \in [1..counter -> HoldRecord]
      BY <2>7 DEF ExpireDue, HoldRecord
    <3> QED
      BY <2>7, <3>1, ReplyType DEF ExpireDue
  <2>8. CASE Tick
    BY <2>8, ReplyType DEF Tick
  <2>9. CASE UNCHANGED vars
    BY <2>9 DEF vars
  <2> QED
    BY <2>1, <2>2, <2>3, <2>4, <2>5, <2>6, <2>7, <2>8, <2>9 DEF Next, Hold, Commit
<1> QED
  BY <1>1, <1>2, PTL DEF Spec

-----------------------------------------------------------------------------
(***************************************************************************)
(* The inductive invariant.  NoDoubleBooking alone is not inductive: that  *)
(* a commit finds its slot unbooked needs HoldExcludes, which in turn needs *)
(* TypeOK (ids come from the counter, so a new hold overwrites none), and  *)
(* that a used hold cannot be committed under a second key needs           *)
(* BookedFromHold.                                                         *)
(***************************************************************************)
IInv == /\ HoldExcludes
        /\ NoDoubleBooking
        /\ BookedFromHold
        /\ OneKeyPerBooking

\* A step that only lets time pass or marks holds as released: what Tick,
\* Release, ExpireDue and every refused or replayed call have in common.
Fades ==
    /\ DOMAIN holds' = DOMAIN holds
    /\ \A i \in DOMAIN holds :
          /\ holds'[i].slot = holds[i].slot
          /\ holds'[i].thread = holds[i].thread
          /\ holds'[i].expires = holds[i].expires
          /\ holds[i].released => holds'[i].released
    /\ clock' \in Nat /\ clock' >= clock
    /\ UNCHANGED <<bookings, byKey>>

\* Such a step brings no hold back to life.
LEMMA FadesKillsOnly ==
    ASSUME TypeOK, Fades
    PROVE  \A i \in DOMAIN holds : IsLive(i)' => IsLive(i)
    BY DEF Fades, TypeOK, IsLive, HoldRecord, Instants

LEMMA FadesSafe ==
    ASSUME TypeOK, IInv, Fades
    PROVE  IInv'
<1>1. HoldExcludes'
  BY FadesKillsOnly DEF IInv, HoldExcludes, Fades, Booked
<1>2. NoDoubleBooking'
  BY DEF IInv, NoDoubleBooking, Fades
<1>3. BookedFromHold'
  <2>1. DOMAIN bookings \subseteq DOMAIN holds
    BY DEF TypeOK
  <2> QED
    BY <2>1 DEF IInv, BookedFromHold, Fades
<1>4. OneKeyPerBooking'
  BY DEF IInv, OneKeyPerBooking, Fades
<1> QED
  BY <1>1, <1>2, <1>3, <1>4 DEF IInv

\* Every action but a granted hold and a fresh commit is such a step.
LEMMA MostStepsFade ==
    ASSUME TypeOK, [Next]_vars
    PROVE  \/ Fades
           \/ \E s \in Requests, t \in Threads : HoldGranted(s, t)
           \/ \E h \in HoldIds, k \in Keys : CommitMade(h, k)
<1> USE DEF TypeOK, Instants
<1>1. ASSUME UNCHANGED <<clock, holds, bookings, byKey>> PROVE Fades
  BY <1>1 DEF Fades
<1>2. ASSUME NEW s \in Requests, NEW t \in Threads, HoldRefused(s) PROVE Fades
  BY <1>2, <1>1 DEF HoldRefused
<1>3. ASSUME NEW k \in Keys, CommitReplayed(k) PROVE Fades
  BY <1>3, <1>1 DEF CommitReplayed, KnownKeys
<1>4. ASSUME NEW h \in HoldIds, NEW k \in Keys, CommitRefused(h, k) PROVE Fades
  BY <1>4, <1>1 DEF CommitRefused
<1>5. ASSUME NEW h \in HoldIds, Release(h) PROVE Fades
  BY <1>5 DEF Release, UsedUp, Fades, HoldRecord
<1>6. ASSUME ExpireDue PROVE Fades
  BY <1>6 DEF ExpireDue, Fades, HoldRecord
<1>7. ASSUME Tick PROVE Fades
  BY <1>7 DEF Tick, Fades
<1>8. ASSUME UNCHANGED vars PROVE Fades
  BY <1>8, <1>1 DEF vars
<1> QED
  BY <1>2, <1>3, <1>4, <1>5, <1>6, <1>7, <1>8 DEF Next, Hold, Commit

\* A granted hold stands on a slot nobody holds or has booked.
LEMMA HoldSafe ==
    ASSUME TypeOK, IInv,
           NEW s \in Requests, NEW t \in Threads, HoldGranted(s, t)
    PROVE  IInv'
<1> USE CalendarAssumption DEF CalendarAssumption, TypeOK, Instants
<1> DEFINE new == [slot |-> s, thread |-> t, expires |-> clock + TTL, released |-> FALSE]
           n == counter + 1
<1>1. /\ DOMAIN holds' = DOMAIN holds \cup {n}
      /\ n \notin DOMAIN holds
      /\ holds'[n] = new
      /\ \A i \in DOMAIN holds : holds'[i] = holds[i]
  BY DEF HoldGranted, Put
<1>2. UNCHANGED <<clock, bookings, byKey>>
  BY DEF HoldGranted
<1>3. ~Booked(s) /\ LiveHolds(s) = {}
  BY DEF HoldGranted, HoldRefusal
<1>4. \A i \in DOMAIN holds : IsLive(i)' <=> IsLive(i)
  BY <1>1, <1>2 DEF IsLive
<1>5. \A i \in DOMAIN holds : IsLive(i) => holds[i].slot # s
  BY <1>3 DEF LiveHolds
<1>6. HoldExcludes'
  <2> SUFFICES ASSUME NEW i \in DOMAIN holds', IsLive(i)'
               PROVE  /\ ~Booked(holds[i].slot)'
                      /\ \A j \in DOMAIN holds' :
                            IsLive(j)' /\ holds'[j].slot = holds'[i].slot => i = j
    BY DEF HoldExcludes
  <2>1. CASE i = n
    BY <2>1, <1>1, <1>2, <1>3, <1>4, <1>5 DEF Booked
  <2>2. CASE i \in DOMAIN holds
    BY <2>2, <1>1, <1>2, <1>4, <1>5 DEF IInv, HoldExcludes, Booked
  <2> QED
    BY <2>1, <2>2, <1>1
<1>7. NoDoubleBooking'
  BY <1>2 DEF IInv, NoDoubleBooking
<1>8. BookedFromHold'
  <2>1. DOMAIN bookings \subseteq DOMAIN holds
    OBVIOUS
  <2> QED
    BY <2>1, <1>1, <1>2 DEF IInv, BookedFromHold
<1>9. OneKeyPerBooking'
  BY <1>2 DEF IInv, OneKeyPerBooking
<1> QED
  BY <1>6, <1>7, <1>8, <1>9 DEF IInv

\* A fresh commit turns the slot's only live hold into its only booking.
LEMMA CommitSafe ==
    ASSUME TypeOK, IInv,
           NEW h \in HoldIds, NEW k \in Keys, CommitMade(h, k)
    PROVE  IInv'
<1> USE CalendarAssumption DEF CalendarAssumption, TypeOK, Instants
<1> DEFINE new == [slot |-> holds[h].slot, thread |-> holds[h].thread, at |-> clock]
<1>1. /\ h \in DOMAIN holds
      /\ holds[h] \in HoldRecord
      /\ ~holds[h].released /\ holds[h].expires > clock
  BY DEF CommitMade, UsedUp, KnownKeys, CommitRefusal, HoldRecord
<1>2. h \notin DOMAIN bookings
  BY <1>1 DEF IInv, BookedFromHold
<1>3. /\ DOMAIN bookings' = DOMAIN bookings \cup {h}
      /\ bookings'[h] = new
      /\ \A b \in DOMAIN bookings : bookings'[b] = bookings[b]
  BY <1>2 DEF CommitMade, UsedUp, KnownKeys, Put
<1>4. /\ DOMAIN holds' = DOMAIN holds
      /\ holds'[h] = [holds[h] EXCEPT !.released = TRUE]
      /\ \A i \in DOMAIN holds : i # h => holds'[i] = holds[i]
      /\ clock' = clock
  BY <1>1 DEF CommitMade, UsedUp, KnownKeys
<1>5. /\ k \notin DOMAIN byKey
      /\ DOMAIN byKey' = DOMAIN byKey \cup {k}
      /\ byKey'[k] = h
      /\ \A j \in DOMAIN byKey : byKey'[j] = byKey[j]
  BY DEF CommitMade, UsedUp, KnownKeys, Put
<1>6. ~Booked(holds[h].slot)
  BY <1>1 DEF IInv, HoldExcludes, IsLive
<1>7. \A i \in DOMAIN holds : IsLive(i)' => i # h /\ IsLive(i)
  BY <1>1, <1>4 DEF IsLive, HoldRecord
<1>8. \A i \in DOMAIN holds : IsLive(i)' => holds[i].slot # holds[h].slot
  BY <1>1, <1>7 DEF IInv, HoldExcludes, IsLive
<1>9. HoldExcludes'
  BY <1>3, <1>4, <1>7, <1>8 DEF IInv, HoldExcludes, Booked
<1>10. NoDoubleBooking'
  BY <1>3, <1>6 DEF IInv, NoDoubleBooking, Booked
<1>11. BookedFromHold'
  <2> SUFFICES ASSUME NEW b \in DOMAIN bookings'
               PROVE  /\ holds'[b].released
                      /\ bookings'[b].slot = holds'[b].slot
                      /\ bookings'[b].thread = holds'[b].thread
                      /\ bookings'[b].at < holds'[b].expires
    BY DEF BookedFromHold
  <2>1. CASE b = h
    BY <2>1, <1>1, <1>3, <1>4 DEF HoldRecord
  <2>2. CASE b \in DOMAIN bookings
    BY <2>2, <1>2, <1>3, <1>4 DEF IInv, BookedFromHold
  <2> QED
    BY <2>1, <2>2, <1>3
<1>12. OneKeyPerBooking'
  <2> SUFFICES ASSUME NEW b \in DOMAIN bookings'
               PROVE  \E j \in DOMAIN byKey' :
                         /\ byKey'[j] = b
                         /\ \A l \in DOMAIN byKey' : byKey'[l] = b => l = j
    BY DEF OneKeyPerBooking
  <2>1. CASE b = h
    <3>1. \A l \in DOMAIN byKey : byKey[l] # h
      BY <1>2
    <3> QED
      BY <2>1, <3>1, <1>5
  <2>2. CASE b \in DOMAIN bookings
    <3>1. PICK j \in DOMAIN byKey :
             byKey[j] = b /\ \A l \in DOMAIN byKey : byKey[l] = b => l = j
      BY <2>2 DEF IInv, OneKeyPerBooking
    <3> QED
      BY <2>2, <3>1, <1>2, <1>5
  <2> QED
    BY <2>1, <2>2, <1>3
<1> QED
  BY <1>9, <1>10, <1>11, <1>12 DEF IInv

LEMMA InvariantStep == TypeOK /\ IInv /\ [Next]_vars => IInv'
    BY FadesSafe, HoldSafe, CommitSafe, MostStepsFade

LEMMA Invariant == Spec => [](TypeOK /\ IInv)
<1>1. Init => IInv
  BY DEF Init, IInv, HoldExcludes, NoDoubleBooking, BookedFromHold, OneKeyPerBooking
<1> QED
  BY <1>1, InvariantStep, TypeCorrect, PTL DEF Spec

-----------------------------------------------------------------------------
\* No slot is ever booked twice.
THEOREM NeverDoubleBooked == Spec => []NoDoubleBooking
<1>1. IInv => NoDoubleBooking
  BY DEF IInv
<1> QED
  BY <1>1, Invariant, PTL

\* A slot takes one hold, and none once it is booked.
THEOREM OneHoldPerSlot == Spec => []HoldExcludes
<1>1. IInv => HoldExcludes
  BY DEF IInv
<1> QED
  BY <1>1, Invariant, PTL

\* Every booking comes from a hold of the same thread on the same slot, used
\* before it ran out and used up by it.
THEOREM BookingsAreEarned == Spec => []BookedFromHold
<1>1. IInv => BookedFromHold
  BY DEF IInv
<1> QED
  BY <1>1, Invariant, PTL

\* Every booking was made under exactly one key, so no retry books twice.
THEOREM KeysBookOnce == Spec => []OneKeyPerBooking
<1>1. IInv => OneKeyPerBooking
  BY DEF IInv
<1> QED
  BY <1>1, Invariant, PTL

\* _live_hold_for finds the hold when there is one.
LEMMA LiveHoldForIsLive ==
    ASSUME TypeOK, IInv, NEW s, LiveHolds(s) # {}
    PROVE  LiveHoldFor(s) \in LiveHolds(s)
<1>1. PICK j \in LiveHolds(s) : TRUE
  OBVIOUS
<1>2. \A l \in LiveHolds(s) : j <= l
  BY <1>1 DEF IInv, HoldExcludes, LiveHolds, TypeOK
<1> QED
  BY <1>1, <1>2 DEF LiveHoldFor

\* The hold a view names can be committed at that instant: _live_hold_for's
\* comparison and commit's are each other's negation.
THEOREM ViewsAreActionable == Spec => []ViewIsActionable
<1>1. TypeOK /\ IInv => ViewIsActionable
  <2> SUFFICES ASSUME TypeOK, IInv, NEW s \in Requests, LiveHolds(s) # {}
               PROVE  /\ View(s).slot_exists /\ ~View(s).booked
                      /\ CommitRefusal(View(s).hold_id) = "no"
                      /\ holds[View(s).hold_id].slot = s
                      /\ holds[View(s).hold_id].thread = View(s).held_by_thread
    BY DEF ViewIsActionable, View
  <2> DEFINE i == LiveHoldFor(s)
  <2>3. i \in LiveHolds(s)
    BY LiveHoldForIsLive
  <2>4. i \in DOMAIN holds /\ IsLive(i) /\ holds[i].slot = s
    BY <2>3 DEF LiveHolds
  <2>5. s \in Slots /\ holds[i].expires \in Nat /\ clock \in Nat
    BY <2>4 DEF TypeOK, HoldRecord, Instants
  <2>6. CommitRefusal(i) = "no"
    BY <2>4, <2>5 DEF CommitRefusal, IsLive
  <2>7. ~Booked(s)
    BY <2>4 DEF IInv, HoldExcludes
  <2> QED
    BY <2>4, <2>5, <2>6, <2>7 DEF View
<1> QED
  BY <1>1, Invariant, PTL

-----------------------------------------------------------------------------
\* A late commit steals nothing: a booking is made only for the live hold.
THEOREM OnlyHoldersBook == Spec => OnlyTheHolderBooks
<1>1. TypeOK /\ [Next]_vars =>
        \A b \in DOMAIN bookings' \ DOMAIN bookings : b \in LiveHolds(bookings'[b].slot)
  <2> SUFFICES ASSUME TypeOK, [Next]_vars, NEW b \in DOMAIN bookings' \ DOMAIN bookings
               PROVE  b \in LiveHolds(bookings'[b].slot)
    OBVIOUS
  <2>1. PICK h \in HoldIds, k \in Keys : CommitMade(h, k)
    BY MostStepsFade DEF Fades, HoldGranted
  <2>2. b = h /\ bookings'[b].slot = holds[h].slot
    BY <2>1 DEF CommitMade, UsedUp, KnownKeys, Put
  <2>3. h \in DOMAIN holds /\ IsLive(h)
    BY <2>1 DEF CommitMade, UsedUp, KnownKeys, CommitRefusal, IsLive, TypeOK, HoldRecord, Instants
  <2> QED
    BY <2>2, <2>3 DEF LiveHolds
<1> QED
  BY <1>1, Invariant, PTL DEF Spec, OnlyTheHolderBooks

\* Bookings and keys are written once.
THEOREM BookingsLast == Spec => BookingsForever
<1>1. TypeOK /\ IInv /\ [Next]_vars =>
        /\ \A b \in DOMAIN bookings : b \in DOMAIN bookings' /\ bookings'[b] = bookings[b]
        /\ \A k \in DOMAIN byKey : k \in DOMAIN byKey' /\ byKey'[k] = byKey[k]
  <2> SUFFICES ASSUME TypeOK, IInv, [Next]_vars
               PROVE  /\ \A b \in DOMAIN bookings :
                            b \in DOMAIN bookings' /\ bookings'[b] = bookings[b]
                      /\ \A k \in DOMAIN byKey : k \in DOMAIN byKey' /\ byKey'[k] = byKey[k]
    OBVIOUS
  <2>1. CASE UNCHANGED <<bookings, byKey>>
    BY <2>1
  <2>2. ASSUME NEW h \in HoldIds, NEW k \in Keys, CommitMade(h, k)
        PROVE  /\ \A b \in DOMAIN bookings :
                     b \in DOMAIN bookings' /\ bookings'[b] = bookings[b]
               /\ \A j \in DOMAIN byKey : j \in DOMAIN byKey' /\ byKey'[j] = byKey[j]
    <3>1. h \in DOMAIN holds /\ ~holds[h].released
      BY <2>2 DEF CommitMade, UsedUp, KnownKeys, CommitRefusal
    <3>2. h \notin DOMAIN bookings
      BY <3>1 DEF IInv, BookedFromHold
    <3> QED
      BY <2>2, <3>2 DEF CommitMade, UsedUp, KnownKeys, Put
  <2> QED
    BY <2>1, <2>2, MostStepsFade DEF Fades, HoldGranted
<1> QED
  BY <1>1, Invariant, PTL DEF Spec, BookingsForever

\* availability() and hold() agree at every instant: who asks for a slot that
\* is offered gets it, and who asks for another is refused.
THEOREM OffersAreMeant == Spec => OfferedIsGranted
<1>1. ASSUME NEW s \in Requests, NEW t \in Threads, Hold(s, t)
      PROVE  s \in Availability <=> reply'.refused = "no"
  <2>1. reply'.refused = HoldRefusal(s)
    BY <1>1 DEF Hold, HoldRefused, HoldGranted, Refused, Returned
  <2>2. HoldRefusal(s) = "no" <=> s \in Availability
    BY DEF HoldRefusal, Availability
  <2> QED
    BY <2>1, <2>2
<1>2. [Next]_vars => [\A s \in Requests, t \in Threads :
                        Hold(s, t) => (s \in Availability <=> reply'.refused = "no")]_vars
  BY <1>1
<1> QED
  BY <1>2, PTL DEF Spec, OfferedIsGranted

\* A commit under a key that was used is answered with that key's booking,
\* whatever became of the hold since.
THEOREM RetriesAreAnswered == Spec => RetryReturnsSameBooking
<1>1. ASSUME NEW h \in HoldIds, NEW k \in Keys, Commit(h, k), k \in DOMAIN byKey
      PROVE  reply' = Returned(byKey[k])
  BY <1>1 DEF Commit, CommitReplayed, CommitRefused, CommitMade, KnownKeys
<1>2. [Next]_vars => [\A h \in HoldIds, k \in Keys :
                        Commit(h, k) /\ k \in DOMAIN byKey => reply' = Returned(byKey[k])]_vars
  BY <1>1
<1> QED
  BY <1>2, PTL DEF Spec, RetryReturnsSameBooking

\* The reaper only marks holds that no caller could see or commit any more.
THEOREM ReaperUnseen == Spec => ReaperIsInvisible
<1>1. TypeOK /\ IInv /\ ExpireDue =>
        /\ Availability' = Availability
        /\ \A s \in Requests : View(s)' = View(s)
  <2> SUFFICES ASSUME TypeOK, IInv, ExpireDue
               PROVE  /\ Availability' = Availability
                      /\ \A s \in Requests : View(s)' = View(s)
    OBVIOUS
  <2>1. /\ DOMAIN holds' = DOMAIN holds
        /\ \A i \in DOMAIN holds : /\ holds'[i].slot = holds[i].slot
                                   /\ holds'[i].thread = holds[i].thread
    BY DEF ExpireDue, TypeOK, HoldRecord
  <2>2. \A i \in DOMAIN holds : IsLive(i)' <=> IsLive(i)
    BY DEF ExpireDue, Due, IsLive, TypeOK, HoldRecord, Instants
  <2>3. \A s : LiveHolds(s)' = LiveHolds(s)
    BY <2>1, <2>2 DEF LiveHolds
  <2>4. \A s : LiveHoldFor(s)' = LiveHoldFor(s)
    BY <2>3 DEF LiveHoldFor
  <2>5. \A s : Booked(s)' <=> Booked(s)
    BY DEF ExpireDue, Booked
  <2>6. Availability' = Availability
    BY <2>3, <2>5 DEF Availability
  <2>7. ASSUME NEW s \in Requests PROVE View(s)' = View(s)
    <3>1. CASE LiveHolds(s) = {}
      BY <3>1, <2>3, <2>5 DEF View
    <3>2. CASE LiveHolds(s) # {}
      <4>3. LiveHoldFor(s) \in DOMAIN holds
        BY <3>2, LiveHoldForIsLive DEF LiveHolds
      <4> QED
        BY <3>2, <4>3, <2>1, <2>3, <2>4, <2>5 DEF View
    <3> QED
      BY <3>1, <3>2
  <2> QED
    BY <2>6, <2>7
<1> QED
  BY <1>1, Invariant, PTL DEF Spec, ReaperIsInvisible

-----------------------------------------------------------------------------
(***************************************************************************)
(* The calendar implements SlotBook.  A step that fades is a Lapse of the  *)
(* holds it ends, or a stutter when it ends none.                          *)
(***************************************************************************)
LEMMA FadeIsLapse ==
    ASSUME TypeOK, Fades
    PROVE  [Promise!Next]_<<HeldPairs, BookedPairs>>
<1>1. BookedPairs' = BookedPairs
  BY DEF Fades, BookedPairs
<1>2. HeldPairs' \subseteq HeldPairs
  BY FadesKillsOnly DEF Fades, HeldPairs
<1> DEFINE gone == HeldPairs \ HeldPairs'
<1>3. HeldPairs' = HeldPairs \ gone
  BY <1>2
<1>4. CASE gone = {}
  BY <1>1, <1>3, <1>4
<1>5. CASE gone # {}
  <2>1. Promise!Lapse(gone)
    BY <1>1, <1>3, <1>5 DEF Promise!Lapse
  <2>2. gone \in SUBSET HeldPairs
    OBVIOUS
  <2> QED
    BY <2>1, <2>2 DEF Promise!Next
<1> QED
  BY <1>4, <1>5

LEMMA HoldIsReserve ==
    ASSUME TypeOK, NEW s \in Requests, NEW t \in Threads, HoldGranted(s, t)
    PROVE  Promise!Next
<1> USE CalendarAssumption DEF CalendarAssumption, TypeOK, Instants
<1> DEFINE new == [slot |-> s, thread |-> t, expires |-> clock + TTL, released |-> FALSE]
           n == counter + 1
<1>1. /\ DOMAIN holds' = DOMAIN holds \cup {n}
      /\ n \notin DOMAIN holds
      /\ holds'[n] = new
      /\ \A i \in DOMAIN holds : holds'[i] = holds[i]
      /\ UNCHANGED <<clock, bookings>>
  BY DEF HoldGranted, Put
<1>2. s \in Slots /\ ~Booked(s) /\ LiveHolds(s) = {}
  BY DEF HoldGranted, HoldRefusal
<1>3. ~Promise!Taken(s)
  BY <1>2 DEF Promise!Taken, HeldPairs, BookedPairs, Booked, LiveHolds
<1>4. \A i \in DOMAIN holds : IsLive(i)' <=> IsLive(i)
  BY <1>1 DEF IsLive
<1>5. ASSUME NEW m, m = n PROVE IsLive(m)'
  BY <1>1, <1>5 DEF IsLive
<1>6. HeldPairs' = HeldPairs \cup {<<s, t>>}
  <2>1. PICK m : m = n
    OBVIOUS
  <2>2. /\ DOMAIN holds' = DOMAIN holds \cup {m}
        /\ IsLive(m)' /\ holds'[m].slot = s /\ holds'[m].thread = t
    BY <2>1, <1>1, <1>5
  <2>3. \A i \in DOMAIN holds : /\ holds'[i] = holds[i]
                                /\ IsLive(i)' <=> IsLive(i)
    BY <1>1, <1>4
  <2> HIDE DEF TypeOK
  <2>4. ASSUME NEW p \in HeldPairs' PROVE p \in HeldPairs \cup {<<s, t>>}
    <3>1. PICK i \in DOMAIN holds' : IsLive(i)' /\ p = <<holds'[i].slot, holds'[i].thread>>
      BY DEF HeldPairs
    <3>2. CASE i = m
      BY <3>1, <3>2, <2>2
    <3>3. CASE i \in DOMAIN holds
      BY <3>1, <3>3, <2>3 DEF HeldPairs
    <3> QED
      BY <3>1, <3>2, <3>3, <2>2
  <2>5. HeldPairs \subseteq HeldPairs'
    BY <2>2, <2>3 DEF HeldPairs
  <2>6. <<s, t>> \in HeldPairs'
    BY <2>2 DEF HeldPairs
  <2> QED
    BY <2>4, <2>5, <2>6
<1>7. BookedPairs' = BookedPairs
  BY <1>1 DEF BookedPairs
<1> QED
  BY <1>2, <1>3, <1>6, <1>7 DEF Promise!Next, Promise!Reserve

LEMMA CommitIsConfirm ==
    ASSUME TypeOK, IInv, NEW h \in HoldIds, NEW k \in Keys, CommitMade(h, k)
    PROVE  Promise!Next
<1> USE CalendarAssumption DEF CalendarAssumption, TypeOK, Instants
<1> DEFINE s == holds[h].slot
           t == holds[h].thread
<1>1. /\ h \in DOMAIN holds /\ IsLive(h)
      /\ s \in Slots /\ t \in Threads
  BY DEF CommitMade, UsedUp, KnownKeys, CommitRefusal, IsLive, HoldRecord
<1>2. h \notin DOMAIN bookings
  BY <1>1 DEF IInv, BookedFromHold, IsLive
<1>3. /\ DOMAIN bookings' = DOMAIN bookings \cup {h}
      /\ bookings'[h] = [slot |-> s, thread |-> t, at |-> clock]
      /\ \A b \in DOMAIN bookings : bookings'[b] = bookings[b]
  BY <1>2 DEF CommitMade, UsedUp, KnownKeys, Put
<1>4. BookedPairs' = BookedPairs \cup {<<s, t>>}
  BY <1>3 DEF BookedPairs
<1>5. /\ DOMAIN holds' = DOMAIN holds
      /\ \A i \in DOMAIN holds : /\ holds'[i].slot = holds[i].slot
                                 /\ holds'[i].thread = holds[i].thread
                                 /\ IsLive(i)' <=> i # h /\ IsLive(i)
  BY <1>1 DEF CommitMade, UsedUp, KnownKeys, IsLive, HoldRecord
<1>6. \A i \in DOMAIN holds : IsLive(i) /\ holds[i].slot = s => i = h
  BY <1>1 DEF IInv, HoldExcludes
<1>7. HeldPairs' = HeldPairs \ {<<s, t>>}
  <2> HIDE DEF s, t, TypeOK
  <2>1. ASSUME NEW p \in HeldPairs' PROVE p \in HeldPairs /\ p # <<s, t>>
    <3>1. PICK i \in DOMAIN holds' : IsLive(i)' /\ p = <<holds'[i].slot, holds'[i].thread>>
      BY DEF HeldPairs
    <3>2. /\ i \in DOMAIN holds /\ i # h /\ IsLive(i)
          /\ p = <<holds[i].slot, holds[i].thread>>
      BY <3>1, <1>5
    <3>3. holds[i].slot # s
      BY <3>2, <1>6
    <3> QED
      BY <3>2, <3>3 DEF HeldPairs
  <2>3. ASSUME NEW p \in HeldPairs, p # <<s, t>> PROVE p \in HeldPairs'
    <3>1. PICK i \in DOMAIN holds : IsLive(i) /\ p = <<holds[i].slot, holds[i].thread>>
      BY DEF HeldPairs
    <3>2. i # h
      BY <2>3, <3>1 DEF s, t
    <3> QED
      BY <3>1, <3>2, <1>5 DEF HeldPairs
  <2> QED
    BY <2>1, <2>3
<1>8. <<s, t>> \in HeldPairs
  BY <1>1 DEF HeldPairs
<1>9. Promise!Confirm(s, t)
  BY <1>4, <1>7, <1>8 DEF Promise!Confirm
<1> QED
  BY <1>1, <1>9 DEF Promise!Next

\* Whatever SlotBook promises holds of the calendar.
THEOREM ImplementsPromise == Spec => KeepsPromise
<1>1. Init => Promise!Init
  BY DEF Init, Promise!Init, HeldPairs, BookedPairs
<1>2. TypeOK /\ IInv /\ [Next]_vars => [Promise!Next]_<<HeldPairs, BookedPairs>>
  BY MostStepsFade, FadeIsLapse, HoldIsReserve, CommitIsConfirm
<1> QED
  BY <1>1, <1>2, Invariant, PTL DEF Spec, KeepsPromise, Promise!Spec
=============================================================================
