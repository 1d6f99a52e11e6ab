---------------------------- MODULE IntakeProofs ----------------------------
(***************************************************************************)
(* Theorems about the intake, for any messages, threads and batches, any   *)
(* number of copies in flight and any number of crashes.                   *)
(***************************************************************************)
EXTENDS Intake, FiniteSetTheorems, TLAPS

-----------------------------------------------------------------------------
(***************************************************************************)
(* Sequences.                                                              *)
(***************************************************************************)
LEMMA Appended ==
    ASSUME NEW S, NEW s \in Seq(S), NEW e \in S
    PROVE  /\ Append(s, e) \in Seq(S)
           /\ ToSet(Append(s, e)) = ToSet(s) \cup {e}
           /\ IsInjective(s) /\ e \notin ToSet(s) => IsInjective(Append(s, e))
<1> DEFINE t == Append(s, e)
<1>1. /\ t \in Seq(S)
      /\ DOMAIN s = 1..Len(s) /\ Len(s) \in Nat
      /\ DOMAIN t = 1..(Len(s) + 1)
      /\ \A i \in 1..Len(s) : t[i] = s[i]
      /\ t[Len(s) + 1] = e
  OBVIOUS
<1> HIDE DEF t
<1>2. ToSet(t) = ToSet(s) \cup {e}
  <2>1. ToSet(t) \subseteq ToSet(s) \cup {e}
    BY <1>1 DEF ToSet
  <2>2. ToSet(s) \subseteq ToSet(t)
    BY <1>1 DEF ToSet
  <2>3. e \in ToSet(t)
    BY <1>1 DEF ToSet
  <2> QED
    BY <2>1, <2>2, <2>3
<1>3. ASSUME IsInjective(s), e \notin ToSet(s) PROVE IsInjective(t)
  <2> SUFFICES ASSUME NEW i \in 1..(Len(s) + 1), NEW j \in 1..(Len(s) + 1), t[i] = t[j]
               PROVE  i = j
    BY <1>1 DEF IsInjective
  <2>1. \A k \in 1..Len(s) : s[k] # e
    BY <1>1, <1>3 DEF ToSet
  <2> QED
    BY <1>1, <1>3, <2>1 DEF IsInjective
<1> QED
  BY <1>1, <1>2, <1>3 DEF t

LEMMA FirstAndRest ==
    ASSUME NEW S, NEW s \in Seq(S), s # << >>
    PROVE  /\ Head(s) \in S
           /\ Tail(s) \in Seq(S)
           /\ ToSet(s) = {Head(s)} \cup ToSet(Tail(s))
<1> DEFINE t == Tail(s)
<1>1. /\ DOMAIN s = 1..Len(s) /\ Len(s) \in Nat \ {0}
      /\ Head(s) = s[1] /\ Head(s) \in S
      /\ t \in Seq(S)
      /\ DOMAIN t = 1..(Len(s) - 1)
      /\ \A i \in 1..(Len(s) - 1) : t[i] = s[i + 1]
  OBVIOUS
<1> HIDE DEF t
<1>2. ToSet(t) \subseteq ToSet(s) /\ s[1] \in ToSet(s)
  <2>1. \A i \in 1..(Len(s) - 1) : i + 1 \in 1..Len(s)
    BY <1>1
  <2> QED
    BY <1>1, <2>1 DEF ToSet
<1>3. ASSUME NEW i \in 1..Len(s), i # 1 PROVE s[i] \in ToSet(t)
  <2>1. i - 1 \in 1..(Len(s) - 1) /\ t[i - 1] = s[i]
    BY <1>1, <1>3
  <2> QED
    BY <1>1, <2>1 DEF ToSet
<1>4. ToSet(s) \subseteq {s[1]} \cup ToSet(t)
  BY <1>1, <1>3 DEF ToSet
<1> QED
  BY <1>1, <1>2, <1>4 DEF t

LEMMA NothingInEmpty == ToSet(<< >>) = {} /\ IsInjective(<< >>)
    BY DEF ToSet, IsInjective

-----------------------------------------------------------------------------
(***************************************************************************)
(* parse_inbound.  Its loop is a recursive function on 0..Len(b); that     *)
(* there is one that meets its equation, and what it gives, is shown by    *)
(* induction, for a set of numbers instead of a predicate.                 *)
(***************************************************************************)
LEMMA UpFromZero ==
    ASSUME NEW S, 0 \in S, \A n \in Nat : n \in S => n + 1 \in S
    PROVE  Nat \subseteq S
<1> DEFINE T == {0..n : n \in Nat \ S}
           R == StrictSubsetOrdering(Nat)
<1> SUFFICES ASSUME NEW k \in Nat \ S PROVE FALSE
  OBVIOUS
<1>1. \A n \in Nat : 0..n \in FiniteSubsetsOf(Nat)
  BY FS_Interval DEF FiniteSubsetsOf
<1>2. IsWellFoundedOn(R, FiniteSubsetsOf(Nat)) /\ T \subseteq FiniteSubsetsOf(Nat) /\ T # {}
  BY <1>1, FS_StrictSubsetOrderingWellFounded
<1> HIDE DEF T, R
<1>3. PICK x \in T : \A y \in T : ~(<<y, x>> \in R)
  BY <1>2, WFMin
<1>4. PICK n \in Nat \ S : x = 0..n
  BY <1>3 DEF T
<1>5. n - 1 \in Nat /\ n - 1 \notin S
  BY <1>4
<1>6. 0..(n - 1) \in T
  BY <1>5 DEF T
<1>7. 0..(n - 1) \subseteq 0..n /\ 0..(n - 1) # 0..n
  BY <1>4, <1>5
<1>8. <<0..(n - 1), 0..n>> \in R
  BY <1>1, <1>4, <1>5, <1>7 DEF R, StrictSubsetOrdering, FiniteSubsetsOf
<1> QED
  BY <1>3, <1>4, <1>6, <1>8

\* What the loop has put out after n messages, when out is what it had before.
Out(b, out, n) ==
    IF n = 0 THEN << >>
    ELSE IF b[n] \in Ignored THEN out[n - 1] ELSE Append(out[n - 1], b[n])

LEMMA LoopRuns ==
    ASSUME NEW b
    PROVE  \A k \in Nat : \E out : out = [n \in 0..k |-> Out(b, out, n)]
<1> DEFINE S == {k \in Nat : \E out : out = [n \in 0..k |-> Out(b, out, n)]}
<1>1. 0 \in S
  <2> DEFINE out == [n \in 0..0 |-> << >>]
  <2>1. out = [n \in 0..0 |-> Out(b, out, n)]
    BY DEF Out
  <2> QED
    BY <2>1
<1>2. ASSUME NEW k \in Nat, k \in S PROVE k + 1 \in S
  <2>1. PICK out : out = [n \in 0..k |-> Out(b, out, n)]
    BY <1>2
  <2> DEFINE more == [n \in 0..(k + 1) |-> IF n \in 0..k THEN out[n] ELSE Out(b, out, n)]
  <2>2. \A n \in 0..(k + 1) : n # 0 => n - 1 \in 0..k /\ more[n - 1] = out[n - 1]
    OBVIOUS
  <2>3. \A n \in 0..(k + 1) : Out(b, more, n) = Out(b, out, n)
    <3> HIDE DEF more
    <3> QED
      BY <2>2 DEF Out
  <2>4. \A n \in 0..k : out[n] = Out(b, out, n)
    BY <2>1
  <2>5. more = [n \in 0..(k + 1) |-> Out(b, more, n)]
    <3>1. \A n \in 0..(k + 1) : more[n] = Out(b, more, n)
      BY <2>3, <2>4
    <3>2. more = [n \in 0..(k + 1) |-> more[n]]
      OBVIOUS
    <3> HIDE DEF more
    <3> QED
      BY <3>1, <3>2
  <2> HIDE DEF more
  <2>6. \E o : o = [n \in 0..(k + 1) |-> Out(b, o, n)]
    BY <2>5
  <2> QED
    BY <2>6
<1> HIDE DEF S
<1>3. Nat \subseteq S
  BY <1>1, <1>2, UpFromZero
<1> QED
  BY <1>3 DEF S

\* parse_inbound is that loop.
LEMMA ParsingIsTheLoop ==
    ASSUME NEW b \in Batches
    PROVE  \E out : /\ ParseInbound(b) = out[Len(b)]
                    /\ \A n \in 0..Len(b) : out[n] = Out(b, out, n)
<1>1. Len(b) \in Nat
  BY IntakeAssumption DEF IntakeAssumption
<1> DEFINE out == CHOOSE o : o = [n \in 0..Len(b) |-> Out(b, o, n)]
<1>2. ParseInbound(b) = out[Len(b)]
  BY DEF ParseInbound, Out
<1>3. out = [n \in 0..Len(b) |-> Out(b, out, n)]
  BY <1>1, LoopRuns
<1> HIDE DEF out
<1>4. \A n \in 0..Len(b) : out[n] = Out(b, out, n)
  BY <1>3
<1> QED
  BY <1>2, <1>4

\* After n rounds it has put out the texts among the first n messages.
LEMMA ParsedSoFar ==
    ASSUME NEW b \in Batches, NEW out, \A n \in 0..Len(b) : out[n] = Out(b, out, n)
    PROVE  \A n \in 0..Len(b) : /\ out[n] \in Seq(Messages)
                                /\ ToSet(out[n]) = {b[i] : i \in 1..n} \ Ignored
<1>1. Len(b) \in Nat /\ \A i \in 1..Len(b) : b[i] \in Messages
  BY IntakeAssumption DEF IntakeAssumption
<1> DEFINE First(n) == {b[i] : i \in 1..n} \ Ignored
           S == {n \in Nat : n <= Len(b) => /\ out[n] \in Seq(Messages)
                                            /\ ToSet(out[n]) = First(n)}
<1>2. 0 \in S
  <2>1. out[0] = << >> /\ First(0) = {}
    BY <1>1 DEF Out
  <2>2. << >> \in Seq(Messages) /\ ToSet(<< >>) = {}
    BY NothingInEmpty
  <2> QED
    BY <2>1, <2>2
<1>3. ASSUME NEW n \in Nat, n \in S PROVE n + 1 \in S
  <2> SUFFICES ASSUME n + 1 <= Len(b)
               PROVE  out[n + 1] \in Seq(Messages) /\ ToSet(out[n + 1]) = First(n + 1)
    OBVIOUS
  <2>1. out[n] \in Seq(Messages) /\ ToSet(out[n]) = First(n)
    BY <1>1, <1>3
  <2>2. out[n + 1] = IF b[n + 1] \in Ignored THEN out[n] ELSE Append(out[n], b[n + 1])
    BY <1>1 DEF Out
  <2>3. {b[i] : i \in 1..(n + 1)} = {b[i] : i \in 1..n} \cup {b[n + 1]}
    OBVIOUS
  <2>4. b[n + 1] \in Messages
    BY <1>1
  <2> QED
    BY <2>1, <2>2, <2>3, <2>4, Appended
<1> HIDE DEF S
<1>4. Nat \subseteq S
  BY <1>2, <1>3, UpFromZero
<1>5. ASSUME NEW n \in 0..Len(b) PROVE out[n] \in Seq(Messages) /\ ToSet(out[n]) = First(n)
  <2>1. n \in S /\ n <= Len(b)
    BY <1>1, <1>4
  <2> HIDE DEF First
  <2> QED
    BY <2>1 DEF S
<1> QED
  BY <1>5

\* The texts of a body are handed on, all of them and nothing else.
THEOREM ParsedIsText ==
    \A b \in Batches : /\ ParseInbound(b) \in Seq(Messages)
                       /\ ToSet(ParseInbound(b)) = ToSet(b) \ Ignored
<1> SUFFICES ASSUME NEW b \in Batches
             PROVE  /\ ParseInbound(b) \in Seq(Messages)
                    /\ ToSet(ParseInbound(b)) = ToSet(b) \ Ignored
  OBVIOUS
<1>1. PICK out : /\ ParseInbound(b) = out[Len(b)]
                 /\ \A n \in 0..Len(b) : out[n] = Out(b, out, n)
  BY ParsingIsTheLoop
<1>2. Len(b) \in 0..Len(b) /\ DOMAIN b = 1..Len(b)
  BY IntakeAssumption DEF IntakeAssumption
<1>3. ToSet(b) = {b[i] : i \in 1..Len(b)}
  BY <1>2 DEF ToSet
<1>4. \A n \in 0..Len(b) : /\ out[n] \in Seq(Messages)
                           /\ ToSet(out[n]) = {b[i] : i \in 1..n} \ Ignored
  BY <1>1, ParsedSoFar
<1>5. /\ out[Len(b)] \in Seq(Messages)
      /\ ToSet(out[Len(b)]) = {b[i] : i \in 1..Len(b)} \ Ignored
  BY <1>2, <1>4
<1> QED
  BY <1>1, <1>3, <1>5

\* Adding a message at the end keeps an order that holds of it too.
LEMMA BeforeAppended ==
    ASSUME NEW S, NEW s \in Seq(S), NEW e \in S, NEW m, NEW n,
           Before(s, m, n), e = n => m \in ToSet(s)
    PROVE  Before(Append(s, e), m, n)
<1> DEFINE t == Append(s, e)
<1>1. /\ DOMAIN s = 1..Len(s) /\ Len(s) \in Nat
      /\ DOMAIN t = 1..(Len(s) + 1)
      /\ \A i \in 1..Len(s) : t[i] = s[i]
      /\ t[Len(s) + 1] = e
  OBVIOUS
<1> HIDE DEF t
<1>2. ASSUME NEW q \in 1..(Len(s) + 1), t[q] = n
      PROVE  \E p \in 1..(q - 1) : t[p] = m
  <2>1. CASE q \in 1..Len(s)
    <3>1. PICK p \in 1..(q - 1) : s[p] = m
      BY <1>1, <1>2, <2>1 DEF Before
    <3>2. p \in 1..Len(s)
      BY <1>1, <2>1, <3>1
    <3> QED
      BY <1>1, <3>1, <3>2
  <2>2. CASE q = Len(s) + 1
    <3>1. m \in ToSet(s)
      BY <1>1, <1>2, <2>2
    <3>2. PICK p \in 1..Len(s) : s[p] = m
      BY <1>1, <3>1 DEF ToSet
    <3> QED
      BY <1>1, <2>2, <3>2
  <2> QED
    BY <1>1, <1>2, <2>1, <2>2
<1> QED
  BY <1>1, <1>2 DEF Before, t

\* The texts are handed on in the order of the body.
LEMMA ParsedInOrder ==
    ASSUME NEW b \in Batches, IsInjective(b),
           NEW i \in DOMAIN b, NEW j \in DOMAIN b, i < j, b[i] \notin Ignored
    PROVE  Before(ParseInbound(b), b[i], b[j])
<1>1. Len(b) \in Nat /\ DOMAIN b = 1..Len(b) /\ \A k \in 1..Len(b) : b[k] \in Messages
  BY IntakeAssumption DEF IntakeAssumption
<1>2. PICK out : /\ ParseInbound(b) = out[Len(b)]
                 /\ \A n \in 0..Len(b) : out[n] = Out(b, out, n)
  BY ParsingIsTheLoop
<1> DEFINE S == {n \in Nat : n <= Len(b) => Before(out[n], b[i], b[j])}
<1>3. 0 \in S
  <2>1. out[0] = << >>
    BY <1>1, <1>2 DEF Out
  <2> QED
    BY <2>1 DEF Before
<1>4. ASSUME NEW n \in Nat, n \in S PROVE n + 1 \in S
  <2> SUFFICES ASSUME n + 1 <= Len(b) PROVE Before(out[n + 1], b[i], b[j])
    OBVIOUS
  <2>1. /\ n \in 0..Len(b) /\ Before(out[n], b[i], b[j])
        /\ b[n + 1] \in Messages
    BY <1>1, <1>4
  <2>2. out[n] \in Seq(Messages) /\ ToSet(out[n]) = {b[k] : k \in 1..n} \ Ignored
    BY <1>2, <2>1, ParsedSoFar
  <2>3. out[n + 1] = IF b[n + 1] \in Ignored THEN out[n] ELSE Append(out[n], b[n + 1])
    BY <1>1, <1>2 DEF Out
  <2>4. b[n + 1] = b[j] => b[i] \in ToSet(out[n])
    <3>1. b[n + 1] = b[j] => n + 1 = j
      BY <1>1 DEF IsInjective
    <3>2. n + 1 = j => i \in 1..n
      BY <1>1
    <3> QED
      BY <2>2, <3>1, <3>2
  <2> QED
    BY <2>1, <2>2, <2>3, <2>4, BeforeAppended
<1> HIDE DEF S
<1>5. Nat \subseteq S
  BY <1>3, <1>4, UpFromZero
<1> QED
  BY <1>1, <1>2, <1>5 DEF S

-----------------------------------------------------------------------------
\* The tables keep their types, whatever arrives and whenever the server dies.
THEOREM TypeCorrect == Spec => []TypeOK
<1>1. Init => TypeOK
  <2> SUFFICES ASSUME Init PROVE TypeOK
    OBVIOUS
  <2>1. 0 \in 0..MaxCopies /\ 0 \in 0..MaxCrashes
    BY IntakeAssumption DEF IntakeAssumption
  <2>2. /\ inFlight \in [Batches -> 0..MaxCopies]
        /\ todo \in Seq(Messages) /\ log \in Seq(Messages)
        /\ queues \in [Threads -> Seq(Messages)]
    BY <2>1 DEF Init
  <2> QED
    BY <2>1, <2>2 DEF Init, TypeOK
<1>2. TypeOK /\ [Next]_vars => TypeOK'
  <2> SUFFICES ASSUME TypeOK, [Next]_vars PROVE TypeOK'
    OBVIOUS
  <2> USE IntakeAssumption DEF IntakeAssumption, TypeOK
  <2>1. ASSUME NEW b \in Batches, Post(b) PROVE TypeOK'
    BY <2>1 DEF Post, server
  <2>2. ASSUME NEW b \in Batches, Refuse(b) PROVE TypeOK'
    BY <2>2 DEF Refuse, Arrives, server
  <2>3. ASSUME NEW b \in Batches, Receive(b) PROVE TypeOK'
    BY <2>3, ParsedIsText DEF Receive, Accept, Arrives
  <2>4. CASE Submit
    <3>1. Head(todo) \in Messages /\ Tail(todo) \in Seq(Messages)
      BY <2>4, FirstAndRest DEF Submit
    <3>2. queues' \in [Threads -> Seq(Messages)]
      BY <2>4, <3>1, Appended DEF Submit
    <3> QED
      BY <2>4, <3>1, <3>2 DEF Submit, meta
  <2>5. ASSUME NEW t \in Threads, Take(t) PROVE TypeOK'
    <3>1. Head(queues[t]) \in Messages /\ Tail(queues[t]) \in Seq(Messages)
      BY <2>5, FirstAndRest DEF Take
    <3> QED
      BY <2>5, <3>1 DEF Take, meta
  <2>6. CASE Recognise
    BY <2>6 DEF Recognise, meta
  <2>7. CASE Remember
    BY <2>7 DEF Remember, Remembering, meta
  <2>8. CASE Work
    <3>1. log' \in Seq(Messages)
      BY <2>8, Appended DEF Work
    <3> QED
      BY <2>8, <3>1 DEF Work, meta
  <2>9. CASE Fail
    BY <2>9 DEF Fail, meta
  <2>10. CASE Reply
    BY <2>10 DEF Reply, Answer
  <2>11. CASE Crash
    <3>1. ToSet(log) \subseteq Messages
      BY DEF ToSet
    <3>2. /\ inFlight' \in [Batches -> 0..MaxCopies]
          /\ todo' \in Seq(Messages) /\ log' \in Seq(Messages)
          /\ queues' \in [Threads -> Seq(Messages)]
          /\ crashes' \in 0..MaxCrashes
      BY <2>11 DEF Crash
    <3> QED
      BY <2>11, <3>1, <3>2 DEF Crash, SeenOnStart, Worked
  <2>12. CASE UNCHANGED vars
    BY <2>12 DEF vars, meta, server
  <2> QED
    BY <2>1, <2>2, <2>3, <2>4, <2>5, <2>6, <2>7, <2>8, <2>9, <2>10, <2>11, <2>12
    DEF Next, RunJob
<1> QED
  BY <1>1, <1>2, PTL DEF Spec

-----------------------------------------------------------------------------
(***************************************************************************)
(* The inductive invariant.  That a message is not worked on twice needs   *)
(* that the store knows every message worked on; that an answered batch is *)
(* done needs to know where the messages of the batch at hand are, and     *)
(* that a message the store knows was worked on, or its job raised, or it  *)
(* is the one at hand.                                                     *)
(***************************************************************************)
InQueues == UNION {ToSet(queues[t]) : t \in Threads}
AtHand   == IF job # None THEN {job} ELSE {}
Finished == Worked \cup failed

LogIsSeen ==
    /\ ToSet(log) \subseteq seen
    /\ job # None /\ remembered => job \in seen \ ToSet(log)

SeenIsFinished == seen \subseteq Finished \cup (IF remembered THEN AtHand ELSE {})

NoneIsDropped ==
    handling # None =>
        ToSet(handling) \ Ignored \subseteq ToSet(todo) \cup InQueues \cup AtHand \cup Finished

Inv == TypeOK /\ WorkedOnce /\ LogIsSeen /\ SeenIsFinished /\ NoneIsDropped /\ AckedIsDone

LEMMA Invariant == Spec => []Inv
<1>1. Init /\ TypeOK => Inv
  BY NothingInEmpty DEF Init, Inv, WorkedOnce, LogIsSeen, SeenIsFinished, NoneIsDropped,
     AckedIsDone
<1>2. Inv /\ TypeOK' /\ [Next]_vars => Inv'
  <2> SUFFICES ASSUME Inv, TypeOK', [Next]_vars PROVE Inv'
    OBVIOUS
  <2>0. TypeOK /\ WorkedOnce /\ LogIsSeen /\ SeenIsFinished /\ NoneIsDropped /\ AckedIsDone
    BY DEF Inv
  \* Steps that leave the server alone.
  <2>1. ASSUME UNCHANGED <<server, log, past, failed>>, acked' = acked PROVE Inv'
    BY <2>0, <2>1 DEF Inv, WorkedOnce, LogIsSeen, SeenIsFinished, NoneIsDropped,
       AckedIsDone, InQueues, AtHand, Finished, Worked, server
  <2>2. ASSUME NEW b \in Batches, Receive(b) PROVE Inv'
    <3>1. /\ handling' = b
          /\ ToSet(b) \ Ignored \subseteq ToSet(todo')
          /\ UNCHANGED <<acked, queues, job, remembered, seen, log, past, failed>>
      BY <2>2, ParsedIsText DEF Receive, Accept
    <3> QED
      BY <2>0, <3>1 DEF Inv, WorkedOnce, LogIsSeen, SeenIsFinished, NoneIsDropped,
         AckedIsDone, AtHand, Finished, Worked
  <2>3. CASE Submit
    <3> DEFINE m == Head(todo)  u == ThreadOf[m]
    <3>1. /\ ToSet(todo) = {m} \cup ToSet(todo')
          /\ m \in Messages /\ u \in Threads
      BY <2>0, <2>3, FirstAndRest, IntakeAssumption DEF Submit, TypeOK, IntakeAssumption
    <3>2. queues' = [queues EXCEPT ![u] = Append(@, m)]
      BY <2>3 DEF Submit
    <3>3. InQueues \cup {m} \subseteq InQueues'
      <4>1. ToSet(queues'[u]) = ToSet(queues[u]) \cup {m}
        BY <2>0, <3>1, <3>2, Appended DEF TypeOK
      <4>2. \A t \in Threads : t # u => queues'[t] = queues[t]
        BY <2>0, <3>2 DEF TypeOK
      <4> HIDE DEF m, u
      <4>3. \A t \in Threads : ToSet(queues[t]) \subseteq ToSet(queues'[t])
        BY <4>1, <4>2
      <4> QED
        BY <3>1, <4>1, <4>3 DEF InQueues
    <3> HIDE DEF m, u
    <3>4. UNCHANGED <<meta, handling, job, remembered, seen, log, past, failed>>
      BY <2>3 DEF Submit
    <3> QED
      BY <2>0, <3>1, <3>3, <3>4 DEF Inv, WorkedOnce, LogIsSeen, SeenIsFinished,
         NoneIsDropped, AckedIsDone, AtHand, Finished, Worked, meta
  <2>4. ASSUME NEW t \in Threads, Take(t) PROVE Inv'
    <3>1. ToSet(queues[t]) = {job'} \cup ToSet(queues'[t])
      BY <2>0, <2>4, FirstAndRest DEF Take, TypeOK
    <3>2. \A u \in Threads : u # t => queues'[u] = queues[u]
      BY <2>0, <2>4 DEF Take, TypeOK
    <3>3. InQueues \subseteq InQueues' \cup {job'}
      <4>1. \A u \in Threads : ToSet(queues[u]) \subseteq ToSet(queues'[u]) \cup {job'}
        BY <3>1, <3>2
      <4> QED
        BY <4>1 DEF InQueues
    <3>4. /\ job = None /\ remembered' = FALSE /\ job' # None
          /\ UNCHANGED <<meta, handling, todo, seen, log, past, failed>>
      BY <2>0, <2>4, FirstAndRest, IntakeAssumption DEF Take, TypeOK, IntakeAssumption
    <3> QED
      BY <2>0, <3>3, <3>4 DEF Inv, WorkedOnce, LogIsSeen, SeenIsFinished,
         NoneIsDropped, AckedIsDone, AtHand, Finished, Worked, meta
  <2>5. CASE Recognise
    <3>1. /\ job \in Finished /\ job' = None /\ ~remembered
          /\ UNCHANGED <<meta, handling, todo, queues, remembered, seen, log, past, failed>>
      BY <2>0, <2>5 DEF Recognise, SeenIsFinished
    <3> QED
      BY <2>0, <3>1 DEF Inv, WorkedOnce, LogIsSeen, SeenIsFinished,
         NoneIsDropped, AckedIsDone, InQueues, AtHand, Finished, Worked, meta
  <2>6. CASE Remember
    <3>1. /\ job # None /\ job \notin seen /\ ~remembered
          /\ seen' = seen \cup {job} /\ remembered' = TRUE
          /\ UNCHANGED <<meta, handling, todo, queues, job, log, past, failed>>
      BY <2>6 DEF Remember, Remembering
    <3> QED
      BY <2>0, <3>1 DEF Inv, WorkedOnce, LogIsSeen, SeenIsFinished,
         NoneIsDropped, AckedIsDone, InQueues, AtHand, Finished, Worked, meta
  <2>7. CASE Work
    <3>1. /\ job # None /\ remembered /\ job' = None
          /\ log' = Append(log, job)
          /\ UNCHANGED <<meta, handling, todo, queues, remembered, seen, past, failed>>
      BY <2>7 DEF Work
    <3>2. ToSet(log') = ToSet(log) \cup {job} /\ IsInjective(log')
      BY <2>0, <3>1, Appended DEF TypeOK, WorkedOnce, LogIsSeen
    <3> QED
      BY <2>0, <3>1, <3>2 DEF Inv, WorkedOnce, LogIsSeen, SeenIsFinished,
         NoneIsDropped, AckedIsDone, InQueues, AtHand, Finished, Worked, meta
  <2>8. CASE Fail
    <3>1. /\ job # None /\ remembered /\ job' = None
          /\ failed' = failed \cup {job}
          /\ UNCHANGED <<meta, handling, todo, queues, remembered, seen, log, past>>
      BY <2>8 DEF Fail
    <3> QED
      BY <2>0, <3>1 DEF Inv, WorkedOnce, LogIsSeen, SeenIsFinished,
         NoneIsDropped, AckedIsDone, InQueues, AtHand, Finished, Worked, meta
  <2>9. CASE Reply
    <3>1. /\ handling # None /\ todo = << >> /\ QueuesEmpty /\ job = None
          /\ acked' = acked \cup {handling} /\ handling' = None
          /\ UNCHANGED <<todo, queues, job, remembered, seen, log, past, failed>>
      BY <2>9 DEF Reply, Answer
    <3>2. InQueues = {}
      BY <3>1, NothingInEmpty DEF InQueues, QueuesEmpty
    <3>3. ToSet(handling) \ Ignored \subseteq Worked \cup failed
      BY <2>0, <3>1, <3>2, NothingInEmpty DEF NoneIsDropped, AtHand, Finished
    <3> QED
      BY <2>0, <3>1, <3>3 DEF Inv, WorkedOnce, LogIsSeen, SeenIsFinished,
         NoneIsDropped, AckedIsDone, AtHand, Finished, Worked
  <2>10. CASE Crash
    <3>1. /\ handling' = None /\ job' = None /\ seen' = {} /\ log' = << >>
          /\ past' = past \cup ToSet(log)
          /\ UNCHANGED <<acked, failed>>
      BY <2>10 DEF Crash, SeenOnStart, Worked
    <3> QED
      BY <2>0, <3>1, NothingInEmpty DEF Inv, WorkedOnce, LogIsSeen, SeenIsFinished,
         NoneIsDropped, AckedIsDone, AtHand, Finished, Worked
  <2> QED
    BY <2>1, <2>2, <2>3, <2>4, <2>5, <2>6, <2>7, <2>8, <2>9, <2>10
    DEF Next, RunJob, Post, Refuse, vars, meta
<1> QED
  BY <1>1, <1>2, TypeCorrect, PTL DEF Spec

\* A server that does not crash works on a message once, however often Meta
\* posts it (dedup.py:3-4).
THEOREM NoneTwice == Spec => []WorkedOnce
<1>1. Inv => WorkedOnce
  BY DEF Inv
<1> QED
  BY <1>1, Invariant, PTL

\* A 200 is only given for work that is done, whatever crashes before or after
\* (webhook.py:104-107, cli.py:105-112).
THEOREM AnsweredIsDone == Spec => []AckedIsDone
<1>1. Inv => AckedIsDone
  BY DEF Inv
<1> QED
  BY <1>1, Invariant, PTL

-----------------------------------------------------------------------------
(***************************************************************************)
(* The order of a batch.  A message that still is to be handed on stands   *)
(* behind the ones before it, or they are further on; once it is in a      *)
(* queue they were worked on, as the queues are drained one message at a   *)
(* time; and a message that was seen in this life and can be printed was   *)
(* worked on in this life, so that no job passes over it.                  *)
(***************************************************************************)
Ordered(m, n) == m \in Messages \ (Ignored \cup Unprintable) /\ Precedes(m, n)

TodoInOrder ==
    \A m, n \in Messages : Ordered(m, n) =>
        m \in InQueues \cup AtHand \cup ToSet(log) \/ Before(todo, m, n)

HandedOnInOrder ==
    \A m, n \in Messages : Ordered(m, n) /\ n \in InQueues \cup AtHand => m \in ToSet(log)

WorkedInOrder == \A m, n \in Messages : Ordered(m, n) => Before(log, m, n)

SeenIsWorked ==
    seen \subseteq ToSet(log) \cup Unprintable \cup (IF remembered THEN AtHand ELSE {})

OrderInv == TodoInOrder /\ HandedOnInOrder /\ WorkedInOrder /\ SeenIsWorked

LEMMA NoneInEmpty == \A m, n : Before(<< >>, m, n)
    BY DEF Before

\* The rest of a sequence is in order, if its first is not what m stands before.
LEMMA BeforeInRest ==
    ASSUME NEW S, NEW s \in Seq(S), s # << >>, NEW m, NEW n, Before(s, m, n), Head(s) # m
    PROVE  Head(s) # n /\ Before(Tail(s), m, n)
<1> DEFINE t == Tail(s)
<1>1. /\ DOMAIN s = 1..Len(s) /\ Len(s) \in Nat \ {0} /\ Head(s) = s[1]
      /\ DOMAIN t = 1..(Len(s) - 1)
      /\ \A i \in 1..(Len(s) - 1) : t[i] = s[i + 1]
  OBVIOUS
<1> HIDE DEF t
<1>2. s[1] # n
  BY <1>1 DEF Before
<1>3. ASSUME NEW q \in 1..(Len(s) - 1), t[q] = n
      PROVE  \E p \in 1..(q - 1) : t[p] = m
  <2>1. PICK p \in 1..q : s[p] = m
    <3>1. q + 1 \in DOMAIN s /\ s[q + 1] = n /\ (q + 1) - 1 = q
      BY <1>1, <1>3
    <3> QED
      BY <3>1 DEF Before
  <2>2. p - 1 \in 1..(q - 1) /\ p - 1 \in 1..(Len(s) - 1) /\ (p - 1) + 1 = p
    BY <1>1, <2>1
  <2> QED
    BY <1>1, <2>1, <2>2
<1> QED
  BY <1>1, <1>2, <1>3 DEF Before, t

LEMMA ReceiveInOrder ==
    ASSUME Inv, OrderInv, NEW b \in Batches, Receive(b)
    PROVE  OrderInv'
<1>1. /\ b \notin Missigned /\ todo' = ParseInbound(b)
      /\ UNCHANGED <<queues, job, remembered, seen, log>>
  BY DEF Receive, Accept
<1>2. UNCHANGED <<InQueues, AtHand>>
  BY <1>1 DEF InQueues, AtHand
<1>3. ASSUME NEW m \in Messages, NEW n \in Messages, Ordered(m, n)
      PROVE  Before(todo', m, n)
  <2>1. PICK c \in Batches :
           /\ IsInjective(c)
           /\ \E i, j \in DOMAIN c : i < j /\ c[i] = m /\ c[j] = n
           /\ \A d \in Batches \ Missigned : n \in ToSet(d) => d = c
    BY <1>3 DEF Ordered, Precedes
  <2>2. CASE b = c
    BY <1>1, <1>3, <2>1, <2>2, ParsedInOrder DEF Ordered
  <2>3. CASE b # c
    <3>1. n \notin ToSet(b)
      BY <1>1, <2>1, <2>3
    <3>2. n \notin ToSet(todo')
      BY <1>1, <3>1, ParsedIsText
    <3> QED
      BY <3>2 DEF Before, ToSet
  <2> QED
    BY <2>2, <2>3
<1> QED
  BY <1>1, <1>2, <1>3
  DEF OrderInv, TodoInOrder, HandedOnInOrder, WorkedInOrder, SeenIsWorked

LEMMA SubmitInOrder ==
    ASSUME Inv, OrderInv, Submit
    PROVE  OrderInv'
<1> DEFINE h == Head(todo)  u == ThreadOf[h]
<1>1. /\ todo \in Seq(Messages) /\ todo # << >> /\ todo' = Tail(todo)
      /\ h \in Messages /\ u \in Threads /\ QueuesEmpty /\ job = None
      /\ queues \in [Threads -> Seq(Messages)]
      /\ queues' = [queues EXCEPT ![u] = Append(@, h)]
      /\ UNCHANGED <<job, remembered, seen, log>>
  BY FirstAndRest, IntakeAssumption DEF Submit, Inv, TypeOK, IntakeAssumption
<1>2. InQueues = {} /\ AtHand = {} /\ AtHand' = {}
  BY <1>1, NothingInEmpty DEF InQueues, QueuesEmpty, AtHand
<1>3. InQueues' = {h}
  <2>1. ToSet(queues'[u]) = {h}
    BY <1>1, NothingInEmpty, Appended DEF QueuesEmpty
  <2>2. \A t \in Threads : t # u => ToSet(queues'[t]) = {}
    BY <1>1, NothingInEmpty DEF QueuesEmpty
  <2> HIDE DEF h, u
  <2> QED
    BY <1>1, <2>1, <2>2 DEF InQueues
<1> HIDE DEF u
<1>4. ASSUME NEW m \in Messages, NEW n \in Messages, Ordered(m, n), m \notin ToSet(log)
      PROVE  h # n /\ (m = h \/ Before(todo', m, n))
  <2>1. Before(todo, m, n)
    BY <1>2, <1>4 DEF OrderInv, TodoInOrder
  <2>2. CASE h # m
    BY <1>1, <2>1, <2>2, BeforeInRest
  <2>3. CASE h = m
    <3>1. PICK b \in Batches :
             IsInjective(b) /\ \E i, j \in DOMAIN b : i < j /\ b[i] = m /\ b[j] = n
      BY <1>4 DEF Ordered, Precedes
    <3>2. DOMAIN b \subseteq Nat
      BY IntakeAssumption DEF IntakeAssumption
    <3>3. m # n
      BY <3>1, <3>2 DEF IsInjective
    <3> QED
      BY <2>3, <3>3
  <2> QED
    BY <2>2, <2>3
<1> QED
  BY <1>1, <1>2, <1>3, <1>4
  DEF OrderInv, TodoInOrder, HandedOnInOrder, WorkedInOrder, SeenIsWorked

LEMMA TakeInOrder ==
    ASSUME Inv, OrderInv, NEW t \in Threads, Take(t)
    PROVE  OrderInv'
<1>1. /\ queues \in [Threads -> Seq(Messages)]
      /\ queues[t] # << >> /\ queues' = [queues EXCEPT ![t] = Tail(@)]
      /\ job = None /\ job' = Head(queues[t]) /\ remembered' = FALSE
      /\ UNCHANGED <<todo, seen, log>>
  BY DEF Take, Inv, TypeOK
<1>2. ToSet(queues[t]) = {job'} \cup ToSet(queues'[t]) /\ job' \in Messages
  BY <1>1, FirstAndRest
<1>3. \A u \in Threads : u # t => queues'[u] = queues[u]
  BY <1>1
<1>4. AtHand = {} /\ AtHand' = {job'}
  BY <1>1, <1>2, IntakeAssumption DEF AtHand, IntakeAssumption
<1>5. InQueues = InQueues' \cup {job'}
  <2>1. \A u \in Threads : u # t => ToSet(queues'[u]) = ToSet(queues[u])
    BY <1>3
  <2> QED
    BY <1>2, <2>1 DEF InQueues
<1> QED
  BY <1>1, <1>4, <1>5
  DEF OrderInv, TodoInOrder, HandedOnInOrder, WorkedInOrder, SeenIsWorked

LEMMA JobInOrder ==
    ASSUME Inv, OrderInv, RunJob
    PROVE  OrderInv'
<1>1. /\ job # None /\ AtHand = {job} /\ job \in Messages
      /\ log \in Seq(Messages)
      /\ UNCHANGED <<todo, queues>> /\ UNCHANGED InQueues
  BY DEF RunJob, Recognise, Remember, Work, Fail, AtHand, InQueues, Inv, TypeOK
<1>2. CASE Recognise
  <2>1. /\ job \in seen /\ ~remembered /\ job' = None /\ AtHand' = {}
        /\ UNCHANGED <<remembered, seen, log>>
    BY <1>2 DEF Recognise, AtHand
  <2>2. job \in ToSet(log) \cup Unprintable
    BY <2>1 DEF OrderInv, SeenIsWorked
  <2> QED
    BY <1>1, <2>1, <2>2
    DEF OrderInv, TodoInOrder, HandedOnInOrder, WorkedInOrder, SeenIsWorked, Ordered
<1>3. CASE Remember
  <2>1. /\ ~remembered /\ remembered' = TRUE /\ seen' = seen \cup {job}
        /\ UNCHANGED <<job, log>> /\ AtHand' = AtHand
    BY <1>3 DEF Remember, Remembering, AtHand
  <2> QED
    BY <1>1, <2>1
    DEF OrderInv, TodoInOrder, HandedOnInOrder, WorkedInOrder, SeenIsWorked
<1>4. CASE Work
  <2>1. /\ remembered /\ log' = Append(log, job) /\ job' = None /\ AtHand' = {}
        /\ UNCHANGED <<remembered, seen>>
    BY <1>4 DEF Work, AtHand
  <2>2. ToSet(log') = ToSet(log) \cup {job}
    BY <1>1, <2>1, Appended
  <2>3. ASSUME NEW m \in Messages, NEW n \in Messages, Ordered(m, n)
        PROVE  Before(log', m, n)
    <3>1. Before(log, m, n)
      BY <2>3 DEF OrderInv, WorkedInOrder
    <3>2. job = n => m \in ToSet(log)
      BY <1>1, <2>3 DEF OrderInv, HandedOnInOrder
    <3> QED
      BY <1>1, <2>1, <3>1, <3>2, BeforeAppended
  <2> QED
    BY <1>1, <2>1, <2>2, <2>3
    DEF OrderInv, TodoInOrder, HandedOnInOrder, WorkedInOrder, SeenIsWorked
<1>5. CASE Fail
  <2>1. /\ job \in Unprintable /\ remembered /\ job' = None /\ AtHand' = {}
        /\ UNCHANGED <<remembered, seen, log>>
    BY <1>5 DEF Fail, AtHand
  <2> QED
    BY <1>1, <2>1
    DEF OrderInv, TodoInOrder, HandedOnInOrder, WorkedInOrder, SeenIsWorked, Ordered
<1> QED
  BY <1>2, <1>3, <1>4, <1>5 DEF RunJob

LEMMA OrderHolds == Spec => []OrderInv
<1>1. Init => OrderInv
  <2> SUFFICES ASSUME Init PROVE OrderInv
    OBVIOUS
  <2>1. /\ todo = << >> /\ log = << >> /\ seen = {} /\ AtHand = {}
    BY DEF Init, AtHand
  <2>2. InQueues = {}
    BY NothingInEmpty DEF Init, InQueues
  <2> QED
    BY <2>1, <2>2, NoneInEmpty
    DEF OrderInv, TodoInOrder, HandedOnInOrder, WorkedInOrder, SeenIsWorked
<1>2. Inv /\ OrderInv /\ [Next]_vars => OrderInv'
  <2> SUFFICES ASSUME Inv, OrderInv, [Next]_vars PROVE OrderInv'
    OBVIOUS
  <2>1. ASSUME UNCHANGED <<todo, queues, job, remembered, seen, log>> PROVE OrderInv'
    BY <2>1 DEF OrderInv, TodoInOrder, HandedOnInOrder, WorkedInOrder, SeenIsWorked,
       InQueues, AtHand
  <2>2. CASE Crash
    <3>1. /\ todo' = << >> /\ log' = << >> /\ seen' = {} /\ AtHand' = {}
          /\ queues' = [t \in Threads |-> << >>]
      BY <2>2 DEF Crash, SeenOnStart, AtHand
    <3>2. InQueues' = {}
      BY <3>1, NothingInEmpty DEF InQueues
    <3> QED
      BY <3>1, <3>2, NoneInEmpty
      DEF OrderInv, TodoInOrder, HandedOnInOrder, WorkedInOrder, SeenIsWorked
  <2> QED
    BY <2>1, <2>2, ReceiveInOrder, SubmitInOrder, TakeInOrder, JobInOrder
    DEF Next, Post, Refuse, Reply, Answer, vars, server
<1> QED
  BY <1>1, <1>2, Invariant, PTL DEF Spec

\* In each life of the server, what stands earlier in a batch is worked on
\* earlier: for any batches, redeliveries, raising jobs and crashes.
THEOREM BatchOrderKept == Spec => []KeepsBatchOrder
<1>1. OrderInv => KeepsBatchOrder
  BY DEF OrderInv, WorkedInOrder, KeepsBatchOrder, Ordered
<1> QED
  BY <1>1, OrderHolds, PTL

-----------------------------------------------------------------------------
(***************************************************************************)
(* The refinement.  Posting, parsing, queueing and remembering are no      *)
(* steps of Inbox; working, raising, answering and dying are its four.     *)
(***************************************************************************)
promised == <<log, past, failed, acked>>

\* The two modules have the same sets of sequences' elements.
LEMMA SameElements == Promise!ToSet(log) = ToSet(log)
    BY DEF ToSet, Promise!ToSet

LEMMA WorkIsWork == Inv /\ OrderInv /\ Work => \E m \in Messages : Promise!Work(m)
<1> SUFFICES ASSUME Inv, OrderInv, Work PROVE Promise!Work(job) /\ job \in Messages
  BY Zenon
<1>1. /\ job \in Messages /\ job # None /\ remembered
      /\ log' = Append(log, job) /\ UNCHANGED <<past, failed, acked>>
  BY DEF Work, Inv, TypeOK, meta
<1>2. job \notin ToSet(log)
  BY <1>1 DEF Inv, LogIsSeen
<1> DEFINE first == {m \in Messages \ (Ignored \cup Unprintable) : Precedes(m, job)}
<1>3. first \subseteq ToSet(log)
  BY <1>1 DEF OrderInv, HandedOnInOrder, Ordered, AtHand
<1>4. [n \in Messages |->
         {m \in Messages \ (Ignored \cup Unprintable) : Precedes(m, n)}][job] = first
  BY <1>1
<1> HIDE DEF first
<1> QED
  BY <1>1, <1>2, <1>3, <1>4, SameElements DEF Promise!Work

LEMMA ReplyIsAnswer == Inv /\ Reply => \E b \in Batches : Promise!Answer(b)
<1> SUFFICES ASSUME Inv, Reply PROVE Promise!Answer(handling) /\ handling \in Batches
  BY Zenon
<1>1. /\ handling \in Batches /\ todo = << >> /\ QueuesEmpty /\ job = None
      /\ acked' = acked \cup {handling} /\ UNCHANGED <<log, past, failed>>
  BY DEF Reply, Answer, Inv, TypeOK
<1>2. InQueues = {} /\ AtHand = {}
  BY <1>1, NothingInEmpty DEF InQueues, QueuesEmpty, AtHand
<1>3. ToSet(handling) \ Ignored \subseteq ToSet(log) \cup past \cup failed
  BY <1>1, <1>2, NothingInEmpty DEF Inv, NoneIsDropped, Finished, Worked, Reply
<1> QED
  BY <1>1, <1>3, SameElements DEF Promise!Answer

\* The intake implements Inbox: every step of it works on a message that is new
\* in this life and whose turn it is, gives one up, answers for work that is
\* done, starts anew, or changes nothing of the kind.
THEOREM ImplementsInbox == Spec => KeepsPromise
<1>1. Init => Promise!Init
  BY DEF Init, Promise!Init
<1>2. Inv /\ OrderInv /\ [Next]_vars => [Promise!Next]_promised
  <2> SUFFICES ASSUME Inv, OrderInv, [Next]_vars PROVE [Promise!Next]_promised
    OBVIOUS
  <2>1. CASE Work
    BY <2>1, WorkIsWork DEF Promise!Next
  <2>2. CASE Reply
    BY <2>2, ReplyIsAnswer DEF Promise!Next
  <2>3. CASE Fail
    <3>1. Promise!GiveUp(job) /\ job \in Messages
      BY <2>3 DEF Fail, meta, Promise!GiveUp, Inv, TypeOK
    <3> QED
      BY <3>1 DEF Promise!Next
  <2>4. CASE Crash
    <3>1. Promise!Restart
      BY <2>4, SameElements DEF Crash, Worked, Promise!Restart
    <3> QED
      BY <3>1 DEF Promise!Next
  <2>5. ASSUME NEW b \in Batches, Post(b) \/ Refuse(b) \/ Receive(b) PROVE UNCHANGED promised
    BY <2>5 DEF Post, Refuse, Receive, Accept, promised
  <2>6. CASE Submit \/ Recognise \/ Remember
    BY <2>6 DEF Submit, Recognise, Remember, meta, promised
  <2>7. ASSUME NEW t \in Threads, Take(t) PROVE UNCHANGED promised
    BY <2>7 DEF Take, meta, promised
  <2>8. CASE UNCHANGED vars
    BY <2>8 DEF vars, meta, promised
  <2> QED
    BY <2>1, <2>2, <2>3, <2>4, <2>5, <2>6, <2>7, <2>8 DEF Next, RunJob
<1> QED
  BY <1>1, <1>2, Invariant, OrderHolds, PTL DEF Spec, KeepsPromise, Promise!Spec, promised
=============================================================================
