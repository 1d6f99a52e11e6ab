---------------------------- MODULE ThreadQueue -----------------------------
(***************************************************************************)
(* One queue per thread, drained on demand (conversation/queue.py).  A     *)
(* drain walks the threads there are when it begins, in the order they     *)
(* came, and runs each one's jobs until its queue is empty.  A job may     *)
(* submit more, to any thread, and may raise; the errors are returned.     *)
(* One thing happens at a time, so others submit only between drains.      *)
(***************************************************************************)
EXTENDS Naturals, Sequences, SequencesExt

CONSTANTS
    Threads,
    MaxJobs,    \* bound: how many jobs a thread is ever given
    None

ASSUME QueueAssumption == MaxJobs \in Nat /\ None \notin Seq(Threads)

VARIABLES
    arrived,    \* the keys of _queues, in the order they came
    queues,     \* _queues; a thread's jobs are numbered as they are submitted
    ahead,      \* drain(): the threads left to walk, the present one first;
                \* None between drains
    job,        \* drain(): << >>, or << n >> when job n of the present thread runs
    errors,     \* drain(): the jobs that raised
    given,      \* history: how many jobs each thread was given
    ran,        \* history: the jobs of each thread that were run
    due         \* history: the jobs this drain owes, as <<thread, job>>

vars == <<arrived, queues, ahead, job, errors, given, ran, due>>

Draining == ahead # None
MayCall == ~Draining \/ job # << >>       \* someone outside, or the running job

\* A defaultdict makes a queue for any thread that is asked about.
Known(t) == IF t \in ToSet(arrived) THEN arrived ELSE Append(arrived, t)

Queued == {q \in Threads \X (1..MaxJobs) : q[2] \in ToSet(queues[q[1]])}

-----------------------------------------------------------------------------
Init ==
    /\ arrived = << >>
    /\ queues = [t \in Threads |-> << >>]
    /\ ahead = None /\ job = << >> /\ errors = << >>
    /\ given = [t \in Threads |-> 0]
    /\ ran = [t \in Threads |-> << >>]
    /\ due = {}

\* A drain owes what is submitted to a thread it has yet to walk.
Submit(t) ==
    /\ MayCall
    /\ given[t] < MaxJobs                       \* bound
    /\ LET n == given[t] + 1
       IN  /\ queues' = [queues EXCEPT ![t] = Append(@, n)]
           /\ given' = [given EXCEPT ![t] = n]
           /\ due' = IF Draining /\ t \in ToSet(ahead) THEN due \cup {<<t, n>>} ELSE due
    /\ arrived' = Known(t)
    /\ UNCHANGED <<ahead, job, errors, ran>>

\* pending() only reads, yet leaves the thread known.
Pending(t) ==
    /\ MayCall
    /\ arrived' = Known(t)
    /\ UNCHANGED <<queues, ahead, job, errors, given, ran, due>>

BeginDrain ==
    /\ ~Draining
    /\ ahead' = arrived
    /\ errors' = << >>
    /\ due' = Queued
    /\ UNCHANGED <<arrived, queues, job, given, ran>>

\* Mutant of Oldest: pop() for popleft().
OldestLast(q) == <<Last(q), Front(q)>>

\* popleft(): a job, and what stays queued.
Oldest(q) == <<Head(q), Tail(q)>>

TakeJob ==
    /\ Draining /\ ahead # << >> /\ job = << >>
    /\ LET t == Head(ahead)
       IN  /\ queues[t] # << >>
           /\ job' = <<Oldest(queues[t])[1]>>
           /\ queues' = [queues EXCEPT ![t] = Oldest(queues[t])[2]]
    /\ UNCHANGED <<arrived, ahead, errors, given, ran, due>>

JobEnds ==
    /\ job # << >>
    /\ ran' = [ran EXCEPT ![Head(ahead)] = @ \o job]
    /\ job' = << >>
    /\ UNCHANGED <<arrived, queues, given, due>>

JobReturns == JobEnds /\ UNCHANGED <<ahead, errors>>

\* Mutant of JobRaises: an error ends the walk of its thread.
JobRaisesOut ==
    /\ JobEnds
    /\ errors' = Append(errors, <<Head(ahead), job[1]>>)
    /\ ahead' = Tail(ahead)

JobRaises ==
    /\ JobEnds
    /\ errors' = Append(errors, <<Head(ahead), job[1]>>)
    /\ UNCHANGED ahead

NextThread ==
    /\ Draining /\ ahead # << >> /\ job = << >>
    /\ queues[Head(ahead)] = << >>
    /\ ahead' = Tail(ahead)
    /\ UNCHANGED <<arrived, queues, job, errors, given, ran, due>>

EndDrain ==
    /\ ahead = << >>
    /\ ahead' = None
    /\ UNCHANGED <<arrived, queues, job, errors, given, ran, due>>

Next ==
    \/ \E t \in Threads : Submit(t) \/ Pending(t)
    \/ BeginDrain \/ TakeJob \/ JobReturns \/ JobRaises \/ NextThread \/ EndDrain

Spec == Init /\ [][Next]_vars

-----------------------------------------------------------------------------
(***************************************************************************)
(* Properties.                                                             *)
(***************************************************************************)

\* Proved rather than checked (ThreadQueueProofs).
TypeOK ==
    /\ arrived \in Seq(Threads) /\ IsInjective(arrived)
    /\ queues \in [Threads -> Seq(1..MaxJobs)]
    /\ ahead \in Seq(Threads) \cup {None}
    /\ job \in Seq(1..MaxJobs)
    /\ job # << >> => Draining /\ ahead # << >>
    /\ errors \in Seq(Threads \X (1..MaxJobs))
    /\ given \in [Threads -> 0..MaxJobs]
    /\ ran \in [Threads -> Seq(1..MaxJobs)]
    /\ due \subseteq Threads \X (1..MaxJobs)

\* The job of thread t that is running, as a sequence of at most one.
Running(t) == IF Draining /\ ahead # << >> /\ t = Head(ahead) THEN job ELSE << >>

\* Each conversation is worked on in the order it was submitted, and nothing
\* is run twice or dropped, whatever its jobs submit and whether they raise:
\* run, running and queued jobs together are those submitted, in order.
KeepsOrder ==
    \A t \in Threads :
        ran[t] \o Running(t) \o queues[t] = [n \in 1..given[t] |-> n]

\* What a drain leaves behind was submitted while it ran, to a thread it had
\* passed or did not know.  All else is run before it returns, even when jobs
\* of the same thread raise.
OnlyLatecomersWait == ~Draining => due \cap Queued = {}
=============================================================================
