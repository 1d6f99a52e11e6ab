------------------------------ MODULE SlotBook ------------------------------
(***************************************************************************)
(* What the salon's calendar promises, with no holds, keys or clocks in    *)
(* sight: a slot is free, or held for one thread, or booked for one        *)
(* thread.  A hold may be lost at any moment; a booking never is.          *)
(***************************************************************************)
CONSTANTS Slots,    \* the slots the salon offers
          Threads   \* the customers' conversations

VARIABLES held,     \* pairs <<slot, thread>>: the slot waits for that thread
          booked    \* pairs <<slot, thread>>: the slot is that thread's

Taken(s) == \E t \in Threads : <<s, t>> \in held \cup booked

Init == held = {} /\ booked = {}

\* A free slot is set aside for a thread.
Reserve(s, t) ==
    /\ ~Taken(s)
    /\ held' = held \cup {<<s, t>>}
    /\ UNCHANGED booked

\* Only the thread the slot is set aside for books it.
Confirm(s, t) ==
    /\ <<s, t>> \in held
    /\ held' = held \ {<<s, t>>}
    /\ booked' = booked \cup {<<s, t>>}

\* Holds are given back or run out, several at the same instant perhaps.
Lapse(gone) ==
    /\ gone # {}
    /\ held' = held \ gone
    /\ UNCHANGED booked

Next == \/ \E s \in Slots, t \in Threads : Reserve(s, t) \/ Confirm(s, t)
        \/ \E gone \in SUBSET held : Lapse(gone)

Spec == Init /\ [][Next]_<<held, booked>>
=============================================================================
