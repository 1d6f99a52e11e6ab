------------------------------- MODULE Inbox --------------------------------
(***************************************************************************)
(* What the intake promises those who write to the salon, with no copies   *)
(* in flight, queues, jobs or dedup store in sight: a message is worked on *)
(* once in each life of the server and never ahead of one that stands      *)
(* before it, or given up for good, and a batch is answered when that is   *)
(* done.  A server that starts again remembers nothing of its own.         *)
(***************************************************************************)
EXTENDS Sequences, SequencesExt

CONSTANTS Messages, Batches,
          Needs,     \* the messages each batch asks to be worked on
          First      \* the messages to be worked on before a message

VARIABLES log,       \* the messages worked on in this life
          past,      \* those worked on in an earlier life
          failed,    \* those given up
          answered   \* the batches that were answered

Init == log = << >> /\ past = {} /\ failed = {} /\ answered = {}

Work(m) ==
    /\ m \notin ToSet(log)
    /\ First[m] \subseteq ToSet(log)
    /\ log' = Append(log, m)
    /\ UNCHANGED <<past, failed, answered>>

GiveUp(m) ==
    /\ failed' = failed \cup {m}
    /\ UNCHANGED <<log, past, answered>>

Answer(b) ==
    /\ Needs[b] \subseteq ToSet(log) \cup past \cup failed
    /\ answered' = answered \cup {b}
    /\ UNCHANGED <<log, past, failed>>

Restart ==
    /\ log' = << >>
    /\ past' = past \cup ToSet(log)
    /\ UNCHANGED <<failed, answered>>

Next == \/ \E m \in Messages : Work(m) \/ GiveUp(m)
        \/ \E b \in Batches : Answer(b)
        \/ Restart

Spec == Init /\ [][Next]_<<log, past, failed, answered>>
=============================================================================
