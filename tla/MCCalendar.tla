----------------------------- MODULE MCCalendar -----------------------------
(***************************************************************************)
(* The calendar on small instances.                                        *)
(***************************************************************************)
EXTENDS Calendar, TLC

\* Threads, slots and keys are only ever compared for equality.
MCSymmetry == Permutations(Threads) \cup Permutations(Slots) \cup Permutations(Keys)
=============================================================================
