------------------------- MODULE ThreadQueueProofs --------------------------
(***************************************************************************)
(* Theorems about the thread queue, for any threads and any number of      *)
(* jobs, whatever the jobs submit and whether or not they raise.           *)
(***************************************************************************)
EXTENDS ThreadQueue, SequenceTheorems, TLAPS

-----------------------------------------------------------------------------
(***************************************************************************)
(* Sequences.                                                              *)
(***************************************************************************)
LEMMA AppendedLast ==
    ASSUME NEW S, NEW a \in Seq(S), NEW b \in Seq(S), NEW e \in S
    PROVE  a \o Append(b, e) = Append(a \o b, e)
    BY ConcatProperties, AppendProperties, SeqEqual

LEMMA FirstMoved ==
    ASSUME NEW S, NEW a \in Seq(S), NEW b \in Seq(S), b # << >>
    PROVE  (a \o << >>) \o b = (a \o << Head(b) >>) \o Tail(b)
    OBVIOUS

\* Counting one further.
LEMMA CountedOn ==
    ASSUME NEW g \in Nat
    PROVE  Append([n \in 1..g |-> n], g + 1) = [n \in 1..(g + 1) |-> n]
<1> DEFINE s == [n \in 1..g |-> n]  t == [n \in 1..(g + 1) |-> n]
<1>1. s \in Seq(Nat) /\ t \in Seq(Nat) /\ Len(s) = g /\ Len(t) = g + 1
  OBVIOUS
<1>2. /\ Append(s, g + 1) \in Seq(Nat)
      /\ Len(Append(s, g + 1)) = g + 1
      /\ \A i \in 1..g : Append(s, g + 1)[i] = i
      /\ Append(s, g + 1)[g + 1] = g + 1
  BY <1>1
<1>3. \A i \in 1..(g + 1) : t[i] = i
  OBVIOUS
<1> HIDE DEF s, t
<1>4. Append(s, g + 1) = t
  BY <1>1, <1>2, <1>3, SeqEqual
<1> QED
  BY <1>4 DEF s, t

LEMMA ToSetOfAppend ==
    ASSUME NEW S, NEW s \in Seq(S), NEW e \in S
    PROVE  ToSet(Append(s, e)) = ToSet(s) \cup {e}
<1> DEFINE t == Append(s, e)
<1>1. /\ DOMAIN s = 1..Len(s) /\ Len(s) \in Nat
      /\ DOMAIN t = 1..(Len(s) + 1)
      /\ \A i \in 1..Len(s) : t[i] = s[i]
      /\ t[Len(s) + 1] = e
  OBVIOUS
<1> HIDE DEF t
<1>2. ToSet(t) \subseteq ToSet(s) \cup {e}
  BY <1>1 DEF ToSet
<1>3. ToSet(s) \subseteq ToSet(t)
  BY <1>1 DEF ToSet
<1>4. e \in ToSet(t)
  BY <1>1 DEF ToSet
<1> QED
  BY <1>2, <1>3, <1>4 DEF t

LEMMA ToSetInRange ==
    ASSUME NEW S, NEW s \in Seq(S)
    PROVE  ToSet(s) \subseteq S
<1>1. \A i \in DOMAIN s : s[i] \in S
  OBVIOUS
<1> QED
  BY <1>1 DEF ToSet

LEMMA ToSetOfTail ==
    ASSUME NEW S, NEW s \in Seq(S), s # << >>
    PROVE  ToSet(Tail(s)) \subseteq ToSet(s) /\ ToSet(s) \subseteq {Head(s)} \cup ToSet(Tail(s))
<1> DEFINE t == Tail(s)
<1>1. /\ DOMAIN s = 1..Len(s) /\ Len(s) \in Nat \ {0}
      /\ Head(s) = s[1]
      /\ DOMAIN t = 1..(Len(s) - 1)
      /\ \A i \in 1..(Len(s) - 1) : t[i] = s[i + 1]
  OBVIOUS
<1> HIDE DEF t
<1>2. ToSet(t) \subseteq ToSet(s)
  <2>1. \A i \in 1..(Len(s) - 1) : i + 1 \in 1..Len(s)
    BY <1>1
  <2> QED
    BY <1>1, <2>1 DEF ToSet
<1>3. ASSUME NEW i \in 1..Len(s), i # 1 PROVE s[i] \in ToSet(t)
  <2>1. i - 1 \in 1..(Len(s) - 1) /\ t[i - 1] = s[i]
    BY <1>1, <1>3
  <2> QED
    BY <1>1, <2>1 DEF ToSet
<1>4. ToSet(s) \subseteq {s[1]} \cup ToSet(t)
  BY <1>1, <1>3 DEF ToSet
<1> QED
  BY <1>1, <1>2, <1>4 DEF t

\* A key is added once (queue.py:19).
LEMMA KnownOnce ==
    ASSUME NEW t \in Threads, arrived \in Seq(Threads), IsInjective(arrived)
    PROVE  /\ Known(t) \in Seq(Threads) /\ IsInjective(Known(t))
           /\ ToSet(Known(t)) = ToSet(arrived) \cup {t}
<1>1. CASE t \in ToSet(arrived)
  BY <1>1 DEF Known
<1>2. CASE t \notin ToSet(arrived)
  <2> DEFINE a == arrived  b == Append(arrived, t)
  <2>1. /\ b \in Seq(Threads)
        /\ DOMAIN a = 1..Len(a) /\ Len(a) \in Nat
        /\ DOMAIN b = 1..(Len(a) + 1)
        /\ \A i \in 1..Len(a) : b[i] = a[i]
        /\ b[Len(a) + 1] = t
    OBVIOUS
  <2>2. Known(t) = b
    BY <1>2 DEF Known
  <2>3. ToSet(b) = ToSet(a) \cup {t}
    BY ToSetOfAppend
  <2> HIDE DEF b
  <2>4. \A k \in 1..Len(a) : a[k] # t
    BY <1>2, <2>1 DEF ToSet
  <2>5. IsInjective(b)
    <3> SUFFICES ASSUME NEW i \in 1..(Len(a) + 1), NEW j \in 1..(Len(a) + 1), b[i] = b[j]
                 PROVE  i = j
      BY <2>1 DEF IsInjective
    <3> QED
      BY <2>1, <2>4 DEF IsInjective
  <2> QED
    BY <2>1, <2>2, <2>3, <2>5
<1> QED
  BY <1>1, <1>2

\* A thread with a job to spare may be given the next one.
LEMMA NextJob ==
    ASSUME NEW k \in 0..MaxJobs, k < MaxJobs
    PROVE  k + 1 \in 1..MaxJobs /\ k + 1 \in 0..MaxJobs
BY QueueAssumption DEF QueueAssumption

-----------------------------------------------------------------------------
\* The queue's tables and the drain's locals keep their types: no thread is
\* walked twice, and a job runs only within a drain.
THEOREM TypeCorrect == Spec => []TypeOK
<1>1. Init => TypeOK
  <2> SUFFICES ASSUME Init PROVE TypeOK
    OBVIOUS
  <2>1. /\ arrived \in Seq(Threads) /\ IsInjective(arrived)
        /\ queues \in [Threads -> Seq(1..MaxJobs)]
        /\ ran \in [Threads -> Seq(1..MaxJobs)]
        /\ job \in Seq(1..MaxJobs) /\ errors \in Seq(Threads \X (1..MaxJobs))
    BY DEF Init, IsInjective
  <2>2. given \in [Threads -> 0..MaxJobs]
    BY QueueAssumption DEF QueueAssumption, Init
  <2> QED
    BY <2>1, <2>2 DEF Init, TypeOK
<1>2. TypeOK /\ [Next]_vars => TypeOK'
  <2> SUFFICES ASSUME TypeOK, [Next]_vars PROVE TypeOK'
    OBVIOUS
  <2> USE QueueAssumption DEF QueueAssumption, TypeOK, Draining
  <2>1. ASSUME NEW t \in Threads, Submit(t) PROVE TypeOK'
    <3> DEFINE n == given[t] + 1
    <3>0. given[t] \in 0..MaxJobs /\ given[t] < MaxJobs
      BY <2>1 DEF Submit
    <3>1. n \in 1..MaxJobs /\ n \in 0..MaxJobs
      BY <3>0, NextJob, Zenon
    <3> HIDE DEF n
    <3>2. /\ queues' = [queues EXCEPT ![t] = Append(@, n)]
          /\ given' = [given EXCEPT ![t] = n]
          /\ due' \subseteq due \cup {<<t, n>>}
      BY <2>1 DEF Submit, n
    <3>4. /\ queues' \in [Threads -> Seq(1..MaxJobs)]
          /\ given' \in [Threads -> 0..MaxJobs]
          /\ due' \subseteq Threads \X (1..MaxJobs)
      <4>1. Append(queues[t], n) \in Seq(1..MaxJobs)
        BY <3>1, AppendProperties
      <4>2. queues' \in [Threads -> Seq(1..MaxJobs)]
        BY <3>2, <4>1
      <4>3. given' \in [Threads -> 0..MaxJobs]
        BY <3>1, <3>2
      <4>4. due' \subseteq Threads \X (1..MaxJobs)
        <5>1. due \subseteq Threads \X (1..MaxJobs)
          OBVIOUS
        <5>2. <<t, n>> \in Threads \X (1..MaxJobs)
          BY <3>1
        <5> QED
          BY <3>2, <5>1, <5>2
      <4> QED
        BY <4>2, <4>3, <4>4
    <3>3. arrived' \in Seq(Threads) /\ IsInjective(arrived')
      BY <2>1, KnownOnce DEF Submit
    <3> QED
      BY <2>1, <3>3, <3>4 DEF Submit
  <2>2. ASSUME NEW t \in Threads, Pending(t) PROVE TypeOK'
    BY <2>2, KnownOnce DEF Pending
  <2>3. CASE BeginDrain
    <3>1. Queued \subseteq Threads \X (1..MaxJobs)
      BY DEF Queued
    <3>2. ahead' \in Seq(Threads) /\ errors' \in Seq(Threads \X (1..MaxJobs)) /\ job = << >>
      BY <2>3 DEF BeginDrain
    <3> QED
      BY <2>3, <3>1, <3>2 DEF BeginDrain
  <2>4. CASE TakeJob
    <3> DEFINE t == Head(ahead)
    <3>1. ahead \in Seq(Threads) /\ t \in Threads
      BY <2>4 DEF TakeJob
    <3>2. queues[t] \in Seq(1..MaxJobs) /\ queues[t] # << >>
      BY <2>4, <3>1 DEF TakeJob
    <3>3. Head(queues[t]) \in 1..MaxJobs /\ Tail(queues[t]) \in Seq(1..MaxJobs)
      BY <3>2, HeadTailProperties
    <3>4. /\ job' = << Head(queues[t]) >>
          /\ queues' = [queues EXCEPT ![t] = Tail(queues[t])]
      BY <2>4 DEF TakeJob, Oldest
    <3>5. job' \in Seq(1..MaxJobs) /\ queues' \in [Threads -> Seq(1..MaxJobs)]
      BY <3>1, <3>3, <3>4
    <3> QED
      BY <2>4, <3>5 DEF TakeJob
  <2>5. ASSUME JobEnds
        PROVE  /\ ran' \in [Threads -> Seq(1..MaxJobs)]
               /\ job' = << >> /\ job' \in Seq(1..MaxJobs)
               /\ <<Head(ahead), job[1]>> \in Threads \X (1..MaxJobs)
    <3>1. ahead \in Seq(Threads) /\ ahead # << >> /\ job \in Seq(1..MaxJobs) /\ job # << >>
      BY <2>5 DEF JobEnds
    <3>2. Head(ahead) \in Threads /\ job[1] \in 1..MaxJobs
      BY <3>1
    <3>3. ran[Head(ahead)] \o job \in Seq(1..MaxJobs)
      BY <3>1, <3>2, ConcatProperties
    <3>4. ran' = [ran EXCEPT ![Head(ahead)] = ran[Head(ahead)] \o job] /\ job' = << >>
      BY <2>5 DEF JobEnds
    <3>5. ran' \in [Threads -> Seq(1..MaxJobs)]
      BY <3>2, <3>3, <3>4
    <3> QED
      BY <3>2, <3>4, <3>5
  <2>6. CASE JobReturns
    BY <2>5, <2>6 DEF JobReturns, JobEnds
  <2>7. CASE JobRaises
    <3>1. errors' \in Seq(Threads \X (1..MaxJobs))
      BY <2>5, <2>7, AppendProperties DEF JobRaises
    <3> QED
      BY <2>5, <2>7, <3>1 DEF JobRaises, JobEnds
  <2>8. CASE NextThread
    <3>1. ahead' \in Seq(Threads) /\ job = << >>
      BY <2>8, HeadTailProperties DEF NextThread
    <3> QED
      BY <2>8, <3>1 DEF NextThread
  <2>9. CASE EndDrain
    BY <2>9 DEF EndDrain
  <2>10. CASE UNCHANGED vars
    BY <2>10 DEF vars
  <2> QED
    BY <2>1, <2>2, <2>3, <2>4, <2>6, <2>7, <2>8, <2>9, <2>10 DEF Next
<1> QED
  BY <1>1, <1>2, PTL DEF Spec

-----------------------------------------------------------------------------
(***************************************************************************)
(* Order.  KeepsOrder is inductive once the types are known: a submission  *)
(* counts one on at the end, and a job moves from the head of its queue to *)
(* the drain and from there to the end of what was run.                    *)
(***************************************************************************)
Line(t) == (ran[t] \o Running(t)) \o queues[t]

\* Between drains, and between two jobs of a drain, no thread has one running.
LEMMA NoneRuns == ASSUME NEW t, job = << >> PROVE Running(t) = << >>
    BY DEF Running

\* Every thread's jobs are run in the order they were submitted, each once and
\* none dropped, whatever the jobs submit and whether they raise (queue.py:33-42).
THEOREM OrderKept == Spec => []KeepsOrder
<1>1. Init => KeepsOrder
  <2> SUFFICES ASSUME Init, NEW t \in Threads
               PROVE  Line(t) = [n \in 1..given[t] |-> n]
    BY DEF KeepsOrder, Line
  <2>1. ran[t] = << >> /\ Running(t) = << >> /\ queues[t] = << >> /\ given[t] = 0
    BY NoneRuns DEF Init
  <2>2. [n \in 1..0 |-> n] = << >>
    OBVIOUS
  <2> QED
    BY <2>1, <2>2 DEF Line
<1>2. TypeOK /\ KeepsOrder /\ [Next]_vars => KeepsOrder'
  <2> SUFFICES ASSUME TypeOK, KeepsOrder, [Next]_vars, NEW t \in Threads
               PROVE  Line(t)' = [n \in 1..given'[t] |-> n]
    BY DEF KeepsOrder, Line
  <2>0. /\ Line(t) = [n \in 1..given[t] |-> n]
        /\ ran[t] \in Seq(1..MaxJobs) /\ queues[t] \in Seq(1..MaxJobs)
        /\ Running(t) \in Seq(1..MaxJobs) /\ job \in Seq(1..MaxJobs)
        /\ given[t] \in 0..MaxJobs
    <3>1. /\ ran[t] \in Seq(1..MaxJobs) /\ queues[t] \in Seq(1..MaxJobs)
          /\ job \in Seq(1..MaxJobs) /\ given[t] \in 0..MaxJobs
      BY DEF TypeOK
    <3>2. Running(t) \in Seq(1..MaxJobs)
      BY <3>1, EmptySeq DEF Running
    <3>3. Line(t) = [n \in 1..given[t] |-> n]
      BY DEF KeepsOrder, Line
    <3> QED
      BY <3>1, <3>2, <3>3
  <2>1. ASSUME NEW u \in Threads, Submit(u) PROVE Line(t)' = [n \in 1..given'[t] |-> n]
    <3>1. ran'[t] = ran[t] /\ Running(t)' = Running(t)
      BY <2>1 DEF Submit, Running, Draining
    <3>2. CASE t # u
      BY <2>0, <2>1, <3>1, <3>2 DEF Submit, TypeOK, Line
    <3>3. CASE t = u
      <4>1. queues'[t] = Append(queues[t], given[t] + 1) /\ given'[t] = given[t] + 1
        BY <2>1, <3>3 DEF Submit, TypeOK
      <4>2. given[t] \in Nat /\ given[t] + 1 \in 1..MaxJobs
        BY <2>0, <2>1, <3>3, QueueAssumption DEF Submit, QueueAssumption
      <4>3. ran[t] \o Running(t) \in Seq(1..MaxJobs)
        BY <2>0, ConcatProperties
      <4>4. Line(t)' = Append(Line(t), given[t] + 1)
        <5> DEFINE a == ran[t] \o Running(t)  e == given[t] + 1
        <5>1. Line(t)' = a \o Append(queues[t], e)
          BY <3>1, <4>1 DEF Line
        <5>2. Line(t) = a \o queues[t]
          BY DEF Line
        <5> DEFINE S == 1..MaxJobs
        <5>3. a \in Seq(S) /\ queues[t] \in Seq(S) /\ e \in S
          BY <2>0, <4>2, <4>3
        <5> HIDE DEF a, e, S
        <5>4. a \o Append(queues[t], e) = Append(a \o queues[t], e)
          BY <5>3, AppendedLast
        <5> QED
          BY <5>1, <5>2, <5>4 DEF e
      <4> QED
        BY <2>0, <4>1, <4>2, <4>4, CountedOn
    <3> QED
      BY <3>2, <3>3
  \* Steps that move no job.
  <2>2. ASSUME UNCHANGED <<queues, job, given, ran>>, job = << >> \/ ahead' = ahead
        PROVE  Line(t)' = [n \in 1..given'[t] |-> n]
    <3>1. Running(t)' = Running(t)
      BY <2>2 DEF Running, Draining
    <3> QED
      BY <2>0, <2>2, <3>1 DEF Line
  <2>3. CASE TakeJob
    <3>1. job = << >> /\ Running(t) = << >>
      BY <2>3, NoneRuns DEF TakeJob
    <3>2. CASE t # Head(ahead)
      <4>1. queues'[t] = queues[t] /\ Running(t)' = << >> /\ ran' = ran /\ given' = given
        BY <2>3, <3>2 DEF TakeJob, TypeOK, Running
      <4> QED
        BY <2>0, <3>1, <4>1 DEF Line
    <3>3. CASE t = Head(ahead)
      <4>1. /\ queues[t] # << >> /\ queues'[t] = Tail(queues[t])
            /\ Running(t)' = << Head(queues[t]) >> /\ ran' = ran /\ given' = given
        BY <2>3, <3>3 DEF TakeJob, TypeOK, Running, Draining, Oldest
      <4>2. Line(t)' = Line(t)
        <5>1. /\ Line(t)' = (ran[t] \o << Head(queues[t]) >>) \o Tail(queues[t])
              /\ Line(t) = (ran[t] \o << >>) \o queues[t]
          BY <3>1, <4>1 DEF Line
        <5> DEFINE S == 1..MaxJobs
        <5>2. ran[t] \in Seq(S) /\ queues[t] \in Seq(S)
          BY <2>0
        <5> HIDE DEF S
        <5>3. (ran[t] \o << >>) \o queues[t]
                = (ran[t] \o << Head(queues[t]) >>) \o Tail(queues[t])
          BY <4>1, <5>2, FirstMoved
        <5> QED
          BY <5>1, <5>3
      <4> QED
        BY <2>0, <4>1, <4>2
    <3> QED
      BY <3>2, <3>3
  <2>4. CASE JobEnds
    <3>1. /\ job' = << >> /\ Running(t)' = << >>
          /\ queues' = queues /\ given' = given
      BY <2>4, NoneRuns DEF JobEnds, Running
    <3>2. CASE t # Head(ahead)
      <4>1. ran'[t] = ran[t] /\ Running(t) = << >>
        BY <2>4, <3>2 DEF JobEnds, TypeOK, Running
      <4> QED
        BY <2>0, <3>1, <4>1 DEF Line
    <3>3. CASE t = Head(ahead)
      <4>1. ran'[t] = ran[t] \o job /\ Running(t) = job
        BY <2>4, <3>3 DEF JobEnds, TypeOK, Running
      <4>2. ran[t] \o job \in Seq(1..MaxJobs)
        BY <2>0, ConcatProperties
      <4>3. Line(t)' = Line(t)
        BY <3>1, <4>1, <4>2, ConcatEmptySeq DEF Line
      <4> QED
        BY <2>0, <3>1, <4>3
    <3> QED
      BY <3>2, <3>3
  <2> QED
    <3>1. CASE \E u \in Threads : Submit(u)
      BY <2>1, <3>1
    <3>2. CASE \E u \in Threads : Pending(u)
      BY <2>2, <3>2 DEF Pending
    <3>3. CASE BeginDrain
      BY <2>2, <3>3 DEF BeginDrain, TypeOK
    <3>4. CASE NextThread \/ EndDrain
      BY <2>2, <3>4 DEF NextThread, EndDrain, TypeOK
    <3>5. CASE JobReturns \/ JobRaises
      BY <2>4, <3>5 DEF JobReturns, JobRaises
    <3>6. CASE UNCHANGED vars
      BY <2>2, <3>6 DEF vars
    <3> QED
      BY <2>3, <3>1, <3>2, <3>3, <3>4, <3>5, <3>6 DEF Next
<1> QED
  BY <1>1, <1>2, TypeCorrect, PTL DEF Spec

-----------------------------------------------------------------------------
(***************************************************************************)
(* What stays behind.  A job the drain owes and that is still queued       *)
(* belongs to a thread it has yet to walk; between drains there is none.   *)
(* That a drain owes no job yet to be given, and that a thread with jobs   *)
(* is known, carry it over the steps.                                      *)
(***************************************************************************)
OwedIsAhead ==
    \A t \in Threads : \A n \in ToSet(queues[t]) :
        <<t, n>> \in due => Draining /\ t \in ToSet(ahead)

OwedWasGiven == \A t \in Threads, n \in Nat : <<t, n>> \in due => n <= given[t]

QueuedIsKnown == \A t \in Threads : ToSet(queues[t]) # {} => t \in ToSet(arrived)

QueuedWasGiven == \A t \in Threads : \A n \in ToSet(queues[t]) : n <= given[t]

WalkInv == OwedIsAhead /\ OwedWasGiven /\ QueuedIsKnown /\ QueuedWasGiven

LEMMA EmptyToSet == ToSet(<< >>) = {}
    BY DEF ToSet

LEMMA WalkInvariant == Spec => []WalkInv
<1>1. Init => WalkInv
  BY EmptyToSet DEF Init, WalkInv, OwedIsAhead, OwedWasGiven, QueuedIsKnown, QueuedWasGiven
<1>2. TypeOK /\ WalkInv /\ [Next]_vars => WalkInv'
  <2> SUFFICES ASSUME TypeOK, WalkInv, [Next]_vars PROVE WalkInv'
    OBVIOUS
  <2>0. /\ OwedIsAhead /\ OwedWasGiven /\ QueuedIsKnown /\ QueuedWasGiven
        /\ \A t \in Threads : queues[t] \in Seq(1..MaxJobs) /\ given[t] \in Nat
        /\ \A t \in Threads : ToSet(queues[t]) \subseteq Nat
    <3>1. \A t \in Threads : queues[t] \in Seq(1..MaxJobs) /\ given[t] \in 0..MaxJobs
      BY DEF TypeOK
    <3>2. \A t \in Threads : ToSet(queues[t]) \subseteq 1..MaxJobs
      <4> DEFINE S == 1..MaxJobs
      <4>1. \A t \in Threads : queues[t] \in Seq(S)
        BY <3>1
      <4> HIDE DEF S
      <4>2. \A t \in Threads : ToSet(queues[t]) \subseteq S
        BY <4>1, ToSetInRange
      <4> QED
        BY <4>2 DEF S
    <3> QED
      BY <3>1, <3>2, QueueAssumption DEF WalkInv, QueueAssumption
  <2>1. ASSUME NEW u \in Threads, Submit(u) PROVE WalkInv'
    <3> DEFINE m == given[u] + 1
    <3>1. m \in 1..MaxJobs /\ m \in Nat
      BY <2>0, <2>1, QueueAssumption DEF Submit, QueueAssumption
    <3>2. ToSet(queues'[u]) = ToSet(queues[u]) \cup {m}
      <4>1. queues'[u] = Append(queues[u], m)
        BY <2>1 DEF Submit, TypeOK
      <4> DEFINE S == 1..MaxJobs
      <4>2. queues[u] \in Seq(S) /\ m \in S
        BY <2>0, <3>1
      <4> HIDE DEF m, S
      <4>3. ToSet(Append(queues[u], m)) = ToSet(queues[u]) \cup {m}
        BY <4>2, ToSetOfAppend
      <4> QED
        BY <4>1, <4>3
    <3>3. \A t \in Threads : t # u => queues'[t] = queues[t] /\ given'[t] = given[t]
      BY <2>1 DEF Submit, TypeOK
    <3>4. given'[u] = m
      BY <2>1 DEF Submit, TypeOK
    <3>5. /\ due' = (IF Draining /\ u \in ToSet(ahead) THEN due \cup {<<u, m>>} ELSE due)
          /\ ahead' = ahead
      BY <2>1 DEF Submit
    <3>6. ToSet(arrived') = ToSet(arrived) \cup {u}
      BY <2>1, KnownOnce DEF Submit, TypeOK
    <3>7. <<u, m>> \notin due /\ given[u] <= m
      BY <2>0, <3>1 DEF OwedWasGiven
    <3> HIDE DEF m
    <3>8. OwedIsAhead'
      <4> SUFFICES ASSUME NEW t \in Threads, NEW n \in ToSet(queues'[t]), <<t, n>> \in due'
                   PROVE  Draining /\ t \in ToSet(ahead)
        BY <3>5 DEF OwedIsAhead, Draining
      <4>1. CASE t = u /\ n = m
        BY <3>5, <3>7, <4>1
      <4>2. CASE ~(t = u /\ n = m)
        <5>1. n \in ToSet(queues[t])
          BY <3>2, <3>3, <4>2
        <5>2. <<t, n>> \in due
          BY <3>5, <4>2
        <5> QED
          BY <2>0, <5>1, <5>2 DEF OwedIsAhead
      <4> QED
        BY <4>1, <4>2
    <3>9. OwedWasGiven'
      <4> SUFFICES ASSUME NEW t \in Threads, NEW n \in Nat, <<t, n>> \in due'
                   PROVE  n <= given'[t]
        BY DEF OwedWasGiven
      <4>1. CASE t = u /\ n = m
        BY <3>1, <3>4, <4>1
      <4>2. CASE ~(t = u /\ n = m)
        <5>1. n <= given[t]
          BY <2>0, <3>5, <4>2 DEF OwedWasGiven
        <5>2. given[t] <= given'[t] /\ given[t] \in Nat /\ given'[t] \in Nat
          BY <2>0, <3>1, <3>3, <3>4, <3>7
        <5> QED
          BY <5>1, <5>2
      <4> QED
        BY <4>1, <4>2
    <3>10. QueuedIsKnown'
      BY <2>0, <3>3, <3>6 DEF QueuedIsKnown
    <3>11. QueuedWasGiven'
      <4> SUFFICES ASSUME NEW t \in Threads, NEW n \in ToSet(queues'[t]) PROVE n <= given'[t]
        BY DEF QueuedWasGiven
      <4>1. CASE t = u /\ n = m
        BY <3>1, <3>4, <4>1
      <4>2. CASE ~(t = u /\ n = m)
        <5>1. n \in ToSet(queues[t]) /\ n \in Nat
          BY <2>0, <3>2, <3>3, <4>2
        <5>2. n <= given[t]
          BY <2>0, <5>1 DEF QueuedWasGiven
        <5>3. given[t] <= given'[t] /\ given[t] \in Nat /\ given'[t] \in Nat
          BY <2>0, <3>1, <3>3, <3>4, <3>7
        <5> QED
          BY <5>1, <5>2, <5>3
      <4> QED
        BY <4>1, <4>2
    <3> QED
      BY <3>8, <3>9, <3>10, <3>11 DEF WalkInv
  <2>2. ASSUME NEW u \in Threads, Pending(u) PROVE WalkInv'
    <3>1. ToSet(arrived) \subseteq ToSet(arrived')
      BY <2>2, KnownOnce DEF Pending, TypeOK
    <3> QED
      BY <2>0, <2>2, <3>1 DEF Pending, WalkInv, OwedIsAhead, OwedWasGiven, QueuedIsKnown,
         QueuedWasGiven, Draining
  <2>3. CASE BeginDrain
    <3>1. /\ ahead' = arrived /\ ahead' # None
          /\ UNCHANGED <<arrived, queues, given>>
      BY <2>3, QueueAssumption DEF BeginDrain, TypeOK, QueueAssumption
    <3>2. \A t, n : <<t, n>> \in due' => n \in ToSet(queues[t])
      BY <2>3 DEF BeginDrain, Queued
    <3>3. OwedIsAhead'
      BY <2>0, <3>1 DEF OwedIsAhead, QueuedIsKnown, Draining
    <3>4. OwedWasGiven'
      BY <2>0, <3>1, <3>2 DEF OwedWasGiven, QueuedWasGiven
    <3> QED
      BY <2>0, <3>1, <3>3, <3>4 DEF WalkInv, QueuedIsKnown, QueuedWasGiven
  <2>4. CASE TakeJob
    <3> DEFINE u == Head(ahead)
    <3>1. /\ u \in Threads /\ queues[u] # << >>
          /\ queues' = [queues EXCEPT ![u] = Tail(queues[u])]
          /\ UNCHANGED <<arrived, ahead, given, due>>
      BY <2>4, HeadTailProperties DEF TakeJob, Oldest, TypeOK, Draining
    <3> HIDE DEF u
    <3>2. \A t \in Threads : ToSet(queues'[t]) \subseteq ToSet(queues[t])
      <4>1. \A t \in Threads : t # u => queues'[t] = queues[t]
        BY <3>1 DEF TypeOK
      <4>2. queues'[u] = Tail(queues[u])
        BY <3>1 DEF TypeOK
      <4>3. ToSet(Tail(queues[u])) \subseteq ToSet(queues[u])
        BY <2>0, <3>1, ToSetOfTail
      <4> QED
        BY <4>1, <4>2, <4>3
    <3> QED
      BY <2>0, <3>1, <3>2 DEF WalkInv, OwedIsAhead, OwedWasGiven, QueuedIsKnown,
         QueuedWasGiven, Draining
  <2>5. CASE NextThread
    <3>1. /\ ahead \in Seq(Threads) /\ ahead # << >> /\ ahead' = Tail(ahead)
          /\ ToSet(queues[Head(ahead)]) = {}
          /\ UNCHANGED <<arrived, queues, given, due>>
      BY <2>5, EmptyToSet DEF NextThread, TypeOK, Draining
    <3>2. ahead' # None
      BY <3>1, HeadTailProperties, QueueAssumption DEF QueueAssumption
    <3>3. ToSet(ahead) \subseteq {Head(ahead)} \cup ToSet(ahead')
      BY <3>1, ToSetOfTail
    <3>4. OwedIsAhead'
      BY <2>0, <3>1, <3>2, <3>3 DEF OwedIsAhead, Draining
    <3> QED
      BY <2>0, <3>1, <3>4 DEF WalkInv, OwedWasGiven, QueuedIsKnown, QueuedWasGiven
  <2>6. CASE EndDrain
    <3>1. ToSet(ahead) = {} /\ UNCHANGED <<arrived, queues, given, due>>
      BY <2>6, EmptyToSet DEF EndDrain
    <3> QED
      BY <2>0, <3>1 DEF WalkInv, OwedIsAhead, OwedWasGiven, QueuedIsKnown, QueuedWasGiven
  \* Steps that leave the queues and the walk alone.
  <2>7. ASSUME UNCHANGED <<arrived, queues, ahead, given, due>> PROVE WalkInv'
    BY <2>0, <2>7 DEF WalkInv, OwedIsAhead, OwedWasGiven, QueuedIsKnown, QueuedWasGiven,
       Draining
  <2> QED
    BY <2>1, <2>2, <2>3, <2>4, <2>5, <2>6, <2>7
    DEF Next, JobReturns, JobRaises, JobEnds, vars
<1> QED
  BY <1>1, <1>2, TypeCorrect, PTL DEF Spec

\* A drain leaves behind only what was submitted while it ran to a thread it had
\* passed or did not know; a job that raises takes nothing with it
\* (queue.py:34-41).
THEOREM NoneStays == Spec => []OnlyLatecomersWait
<1>1. WalkInv => OnlyLatecomersWait
  <2> SUFFICES ASSUME WalkInv, ~Draining, NEW q \in due, q \in Queued PROVE FALSE
    BY DEF OnlyLatecomersWait
  <2>1. PICK t \in Threads, n \in 1..MaxJobs : q = <<t, n>>
    BY DEF Queued
  <2>2. n \in ToSet(queues[t])
    BY <2>1 DEF Queued
  <2> QED
    BY <2>1, <2>2 DEF WalkInv, OwedIsAhead
<1> QED
  BY <1>1, WalkInvariant, PTL
=============================================================================
