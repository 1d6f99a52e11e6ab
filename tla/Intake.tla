------------------------------- MODULE Intake -------------------------------
(***************************************************************************)
(* Messages arriving (cli.py serve, transport/webhook.py, queue.py,        *)
(* dedup.py).  Meta posts batches of messages, each again and again until  *)
(* it is answered 200, and sometimes after that.  The receiver hands each  *)
(* message of a batch to its thread's queue and drains the queues before   *)
(* it goes on.  A job asks whether its message was seen, remembers it, and *)
(* works on it: serve prints it, which fails for text the console cannot   *)
(* take.  The drain collects such errors, and serve drops them.            *)
(*                                                                         *)
(* The handler awaits the request's body and nothing after that            *)
(* (webhook.py:77), so one batch is handled at a time.  Everything the     *)
(* server knows is in memory: a crash loses it, and the posts in flight.   *)
(***************************************************************************)
EXTENDS Naturals, Sequences, SequencesExt

CONSTANTS
    Messages,      \* message ids
    Threads,
    ThreadOf,      \* the thread a message belongs to
    Batches,       \* sequences of messages; << >> is a delivery status
    Missigned,     \* the batches whose signature does not match our secret
    Ignored,       \* the messages that are not text, or have no body
    Unprintable,   \* the messages whose job raises
    MaxCopies,     \* bound: posts of one batch in flight at a time
    MaxCrashes,    \* bound: how often the server dies
    None

ASSUME IntakeAssumption ==
    /\ ThreadOf \in [Messages -> Threads]
    /\ Batches \subseteq Seq(Messages)
    /\ Missigned \subseteq Batches
    /\ Unprintable \subseteq Messages /\ Ignored \subseteq Messages
    /\ MaxCopies \in Nat \ {0}
    /\ MaxCrashes \in Nat
    /\ None \notin Messages \cup Batches

VARIABLES
    inFlight,      \* Meta: how many posts of each batch are on their way
    acked,         \* Meta: the batches answered 200
    handling,      \* the batch receive() is at work on, or None
    todo,          \* its messages not yet given to on_message
    queues,        \* ThreadQueue._queues
    job,           \* the message of the job drain() is running, or None
    remembered,    \* that job went past dedup.remember
    seen,          \* DedupStore._seen
    log,           \* the messages worked on, since the server started
    past,          \* the messages worked on before it last crashed
    failed,        \* the messages whose job raised
    crashes

meta == <<inFlight, acked>>
server == <<handling, todo, queues, job, remembered, seen>>
vars == <<meta, server, log, past, failed, crashes>>

Worked == past \cup ToSet(log)
QueuesEmpty == \A t \in Threads : queues[t] = << >>

-----------------------------------------------------------------------------
\* Meta's side.

\* A batch is posted, for the first time or again, answered or not.
Post(b) ==
    /\ inFlight[b] < MaxCopies                  \* bound
    /\ inFlight' = [inFlight EXCEPT ![b] = @ + 1]
    /\ UNCHANGED <<acked, server, log, past, failed, crashes>>

\* A post that nobody answered yet is sent again.
Retry(b) == b \notin acked /\ inFlight[b] = 0 /\ Post(b)

-----------------------------------------------------------------------------
\* webhook.py: receive.

Arrives(b) == /\ inFlight[b] > 0
              /\ inFlight' = [inFlight EXCEPT ![b] = @ - 1]

\* The signature does not match: 403, and nothing else happens.
Refuse(b) ==
    /\ b \in Missigned
    /\ handling = None
    /\ Arrives(b)
    /\ UNCHANGED <<acked, server, log, past, failed, crashes>>

\* Mutant of ParseInbound: the texts are put in front of one another.
ParseInboundReversed(b) == SelectSeq(Reverse(b), LAMBDA m : m \notin Ignored)

\* whatsapp.py: parse_inbound, what is left to hand on of a body's messages.
ParseInbound(b) ==
    LET Out[n \in 0..Len(b)] ==       \* of the first n
            IF n = 0 THEN << >>
            ELSE IF b[n] \in Ignored THEN Out[n - 1]
            ELSE Append(Out[n - 1], b[n])
    IN  Out[Len(b)]

Accept(b) ==
    /\ b \notin Missigned
    /\ handling = None
    /\ Arrives(b)
    /\ handling' = b
    /\ todo' = ParseInbound(b)
    /\ UNCHANGED <<queues, job, remembered, seen, log, past, failed, crashes>>

\* Mutant of Receive: "reply first, work second".
ReceiveReplying(b) == Accept(b) /\ acked' = acked \cup {b}

Receive(b) == Accept(b) /\ UNCHANGED acked

\* All messages are handed on and done with: 200.
Answer ==
    /\ todo = << >> /\ QueuesEmpty /\ job = None
    /\ acked' = acked \cup {handling}
    /\ handling' = None
    /\ UNCHANGED <<inFlight, todo, queues, job, remembered, seen, log, past, failed, crashes>>

\* Mutant of Reply: answers whether or not a batch is being handled.
ReplyToNobody == Answer

Reply == handling # None /\ Answer

-----------------------------------------------------------------------------
\* cli.py: on_message, and the drain it ends with.

\* The next message goes to its thread's queue.
Submit ==
    /\ todo # << >> /\ QueuesEmpty /\ job = None
    /\ LET m == Head(todo)
       IN  queues' = [queues EXCEPT ![ThreadOf[m]] = Append(@, m)]
    /\ todo' = Tail(todo)
    /\ UNCHANGED <<meta, handling, job, remembered, seen, log, past, failed, crashes>>

\* drain() takes the oldest job of a thread.
Take(t) ==
    /\ job = None
    /\ queues[t] # << >>
    /\ job' = Head(queues[t])
    /\ queues' = [queues EXCEPT ![t] = Tail(@)]
    /\ remembered' = FALSE
    /\ UNCHANGED <<meta, handling, todo, seen, log, past, failed, crashes>>

\* A message seen before: the job returns.
Recognise ==
    /\ job # None /\ ~remembered
    /\ job \in seen
    /\ job' = None
    /\ UNCHANGED <<meta, handling, todo, queues, remembered, seen, log, past, failed, crashes>>

\* Mutant of Remembering: the message is worked on and never written down.
RememberingNothing(m) == seen

Remembering(m) == seen \cup {m}

Remember ==
    /\ job # None /\ ~remembered
    /\ job \notin seen
    /\ seen' = Remembering(job)
    /\ remembered' = TRUE
    /\ UNCHANGED <<meta, handling, todo, queues, job, log, past, failed, crashes>>

Work ==
    /\ job # None /\ remembered
    /\ job \notin Unprintable
    /\ log' = Append(log, job)
    /\ job' = None
    /\ UNCHANGED <<meta, handling, todo, queues, remembered, seen, past, failed, crashes>>

\* The job raises; drain() goes on to the next.
Fail ==
    /\ job # None /\ remembered
    /\ job \in Unprintable
    /\ failed' = failed \cup {job}
    /\ job' = None
    /\ UNCHANGED <<meta, handling, todo, queues, remembered, seen, log, past, crashes>>

-----------------------------------------------------------------------------
\* The server dies, and is started again.

\* Mutant of SeenOnStart: the store survives.
SeenOnStartKept == seen

\* A server starts with an empty store.
SeenOnStart == {}

Crash ==
    /\ crashes < MaxCrashes                     \* bound
    /\ crashes' = crashes + 1
    /\ inFlight' = [b \in Batches |-> 0]
    /\ handling' = None /\ job' = None /\ remembered' = FALSE
    /\ todo' = << >>
    /\ queues' = [t \in Threads |-> << >>]
    /\ seen' = SeenOnStart
    /\ past' = Worked
    /\ log' = << >>
    /\ UNCHANGED <<acked, failed>>

Init ==
    /\ inFlight = [b \in Batches |-> 0]
    /\ acked = {}
    /\ handling = None /\ job = None /\ remembered = FALSE
    /\ todo = << >>
    /\ queues = [t \in Threads |-> << >>]
    /\ seen = {}
    /\ log = << >>
    /\ past = {} /\ failed = {} /\ crashes = 0

RunJob == Recognise \/ Remember \/ Work \/ Fail

Next ==
    \/ \E b \in Batches : Post(b) \/ Refuse(b) \/ Receive(b)
    \/ Submit
    \/ \E t \in Threads : Take(t)
    \/ RunJob
    \/ Reply
    \/ Crash

Spec == Init /\ [][Next]_vars

\* Meta tries again until it is answered 200; uvicorn serves every request
\* that keeps coming; the handler runs on.  Crashes are few, and never due.
FairSpec ==
    /\ Spec
    /\ \A b \in Batches : WF_vars(Retry(b)) /\ SF_vars(Receive(b))
    /\ WF_vars(Submit) /\ WF_vars(RunJob) /\ WF_vars(Reply)
    /\ \A t \in Threads : WF_vars(Take(t))

-----------------------------------------------------------------------------
(***************************************************************************)
(* Properties.                                                             *)
(***************************************************************************)

TypeOK ==
    /\ inFlight \in [Batches -> 0..MaxCopies]
    /\ acked \subseteq Batches
    /\ handling \in Batches \cup {None}
    /\ todo \in Seq(Messages)
    /\ queues \in [Threads -> Seq(Messages)]
    /\ job \in Messages \cup {None}
    /\ remembered \in BOOLEAN
    /\ seen \subseteq Messages
    /\ log \in Seq(Messages)
    /\ past \subseteq Messages
    /\ failed \subseteq Messages
    /\ crashes \in 0..MaxCrashes

\* However often Meta posts a message, and however many copies are in flight
\* when the first is handled, a server that does not crash works on it once
\* (dedup.py:3-4).
WorkedOnce == IsInjective(log)

\* A 200 is only given for work that is done: whatever crashes, each text
\* message of an answered batch was worked on, or its job raised.  Meta will not
\* send it again.
AckedIsDone ==
    \A b \in acked : ToSet(b) \ Ignored \subseteq Worked \cup failed

\* m stands before n in a batch of different messages, the only one with n.
Precedes(m, n) ==
    \E b \in Batches :
        /\ IsInjective(b)
        /\ \E i, j \in DOMAIN b : i < j /\ b[i] = m /\ b[j] = n
        /\ \A c \in Batches \ Missigned : n \in ToSet(c) => c = b

\* Wherever n occurs in s, m occurred earlier.
Before(s, m, n) == \A q \in DOMAIN s : s[q] = n => \E p \in 1..(q - 1) : s[p] = m

\* What a customer wrote first is worked on first (queue.py:28): no copy of the
\* batch, no message that was seen before and no job that raises lets a message
\* overtake one that stands before it in their batch.  Each life of the server
\* begins anew.
KeepsBatchOrder ==
    \A m \in Messages \ (Ignored \cup Unprintable), n \in Messages :
        Precedes(m, n) => Before(log, m, n)

\* No message is lost to a crash: every text message whose batch is properly
\* signed and whose job does not raise is worked on some day.
NothingIsLost ==
    \A b \in Batches \ Missigned : \A m \in ToSet(b) \ (Ignored \cup Unprintable) :
        <>(m \in Worked)

\* The intake implements the promise of Inbox.
Promise == INSTANCE Inbox WITH
    answered <- acked,
    Needs <- [b \in Batches |-> ToSet(b) \ Ignored],
    First <- [n \in Messages |->
                {m \in Messages \ (Ignored \cup Unprintable) : Precedes(m, n)}]

\* Every step of the intake is a step Inbox allows, or none at all: copies,
\* queues, the store and crashes never make it work on a message twice in one
\* life or out of turn, nor answer for work that is not done.
KeepsPromise == Promise!Spec

-----------------------------------------------------------------------------
(***************************************************************************)
(* What is written of the intake, and is not so.                           *)
(***************************************************************************)

\* dedup.py:1, of the store: "Which messages we have already handled."
SeenIsHandled ==
    job = None => seen \subseteq Worked

\* dedup.py:3-4 and the design's exit criterion 5: a message that is delivered
\* twice is acted on once.
WorkedOnceEver == ToSet(log) \cap past = {}
=============================================================================
