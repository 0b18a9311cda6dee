-------------------------- MODULE SemaphoreProofs --------------------------
(***************************************************************************)
(* Proofs about Semaphore: the units are conserved, for every number of    *)
(* threads, every width of int and all amounts; and if the guests pass     *)
(* positive ints, the count never goes below 0 and no waiter is stranded   *)
(* beside units that would satisfy it.                                     *)
(***************************************************************************)
EXTENDS Semaphore, TLAPS, FiniteSetTheorems

\* The calls that _waitCount counts.
Waiting == {t \in Thread : pc[t] \in {"test", "sleep", "asleep", "leave"}}

\* The critical sections exclude each other.
LockOK == \A t \in Thread : pc[t] \in {"test", "sleep", "leave"} => lock = t

SemInductive == TypeOK /\ LockOK /\ Conserved

\* A call that enters or leaves its wait changes the number of them by one.
LEMMA WaitingGrows ==
    ASSUME NEW t \in Thread, Waiting' = Waiting \cup {t}, t \notin Waiting
    PROVE  Cardinality(Waiting') = Cardinality(Waiting) + 1
<1>1. IsFiniteSet(Waiting)
  BY SemaphoreAssumption, FS_Subset DEF Waiting
<1> QED BY <1>1, FS_AddElement

\* The same for a call that leaves.
LEMMA WaitingShrinks ==
    ASSUME NEW t \in Thread, Waiting' = Waiting \ {t}, t \in Waiting
    PROVE  /\ Cardinality(Waiting') = Cardinality(Waiting) - 1
           /\ Cardinality(Waiting') \in Nat
<1>1. IsFiniteSet(Waiting)
  BY SemaphoreAssumption, FS_Subset DEF Waiting
<1>2. IsFiniteSet(Waiting \ {t})
  BY <1>1, FS_RemoveElement
<1> QED BY <1>1, <1>2, FS_RemoveElement, FS_CardinalityType

\* The amounts that reach the critical sections are ints.
LEMMA IntAmounts ==
    ASSUME NEW u \in Amounts
    PROVE  ToInt(u) \in IntRange
  BY SemaphoreAssumption DEF ToInt, IntRange

\* create_sem
LEMMA SemInit == Init => SemInductive
<1> SUFFICES ASSUME Init PROVE SemInductive
  OBVIOUS
<1>1. 0 \in IntRange /\ Initial \in IntRange
  BY SemaphoreAssumption DEF IntRange
<1>2. TypeOK
  BY <1>1, SemaphoreAssumption DEF Init, TypeOK, PC
<1>3. LockOK
  BY DEF Init, LockOK
<1>4. Cardinality(Waiting) = 0
  <2>1. Waiting = {}
    BY DEF Init, Waiting
  <2> QED BY <2>1, FS_EmptySet
<1>5. Conserved
  BY <1>4, SemaphoreAssumption DEF Init, Conserved, Waiting
<1> QED BY <1>2, <1>3, <1>5 DEF SemInductive

\* Every step keeps the books.
LEMMA SemStep ==
    ASSUME SemInductive, [Next]_vars
    PROVE  SemInductive'
<1> USE DEF SemInductive
<1>0. CASE UNCHANGED vars
  BY <1>0 DEF vars, TypeOK, LockOK, Conserved
<1> SUFFICES ASSUME Next PROVE SemInductive'
  BY <1>0
<1>a. PICK t \in Thread : App(t) \/ Worker(t) \/ TimeOut(t)
  BY DEF Next
<1>b. None \notin Thread /\ Initial \in Int /\ 0 \in IntRange
  BY SemaphoreAssumption DEF IntRange
<1>i. IntRange \subseteq Int
  BY SemaphoreAssumption DEF IntRange
<1>c. waitCount = Cardinality(Waiting) /\ count = Initial + released - granted
  BY DEF Conserved, Waiting
\* A step that leaves the waiting calls and the count alone.
<1>q. ASSUME UNCHANGED <<count, waitCount, history>>, Waiting' = Waiting, TypeOK', LockOK'
      PROVE  SemInductive'
  BY <1>q, <1>c DEF Conserved, Waiting, history
<1>1. ASSUME NEW c \in {"acquire", "for", "until", "release"}, NEW u \in Amounts, Start(t, c, u)
      PROVE  SemInductive'
  <2>1. amount' \in [Thread -> IntRange]
    BY <1>1, IntAmounts DEF Start, TypeOK
  <2>2. TypeOK'
    BY <1>1, <2>1 DEF Start, TypeOK, history, PC, Call
  <2>3. LockOK' /\ Waiting' = Waiting
    BY <1>1 DEF Start, TypeOK, LockOK, Waiting
  <2> QED BY <1>1, <2>2, <2>3, <1>q DEF Start
<1>2. CASE Delete(t)
  <2>2. TypeOK'
    BY <1>2 DEF Delete, TypeOK, history, PC, Call
  <2>3. LockOK' /\ Waiting' = Waiting
    BY <1>2 DEF Delete, TypeOK, LockOK, Waiting
  <2> QED BY <1>2, <2>2, <2>3, <1>q DEF Delete
<1>3. CASE AcquireNow(t)
  <2>1. /\ count' \in IntRange
        /\ count' = count - amount[t] /\ granted' = granted + amount[t]
        /\ amount[t] \in Int /\ granted \in Int /\ released \in Int
    BY <1>3, <1>i DEF AcquireNow, Grant, Less, TypeOK
  <2>2. TypeOK'
    BY <1>3, <2>1, <1>b DEF AcquireNow, Grant, Return, TypeOK, PC
  <2>3. LockOK' /\ Waiting' = Waiting
    BY <1>3 DEF AcquireNow, Return, TypeOK, LockOK, Waiting
  <2>5. count' = Initial + released' - granted' /\ waitCount' = Cardinality(Waiting')
    BY <1>3, <2>1, <2>3, <1>b, <1>c DEF AcquireNow, Grant
  <2>4. Conserved'
    BY <2>5 DEF Conserved, Waiting
  <2> QED BY <2>2, <2>3, <2>4
<1>4. CASE AcquireWait(t)
  <2>2. TypeOK'
    BY <1>4 DEF AcquireWait, Counted, Goto, TypeOK, history, PC
  <2>3. LockOK' /\ Waiting' = Waiting \cup {t} /\ t \notin Waiting
    BY <1>4, <1>b DEF AcquireWait, Counted, Goto, TypeOK, LockOK, Waiting
  <2>4. Cardinality(Waiting') = Cardinality(Waiting) + 1
    BY <2>3, WaitingGrows
  <2>5. waitCount' = Cardinality(Waiting')
    BY <1>4, <2>4, <1>c DEF AcquireWait, Counted
  <2>6. Conserved'
    BY <1>4, <2>5, <1>c DEF AcquireWait, Counted, Conserved, Waiting, history
  <2> QED BY <2>2, <2>3, <2>6
<1>5. CASE Test(t)
  <2>2. TypeOK'
    BY <1>5 DEF Test, Goto, TypeOK, history, PC
  <2>3. LockOK' /\ Waiting' = Waiting
    BY <1>5 DEF Test, Goto, TypeOK, LockOK, Waiting
  <2> QED BY <1>5, <2>2, <2>3, <1>q DEF Test
<1>6. CASE Sleep(t)
  <2>2. TypeOK'
    BY <1>6 DEF Sleep, Goto, TypeOK, history, PC
  <2>3. LockOK' /\ Waiting' = Waiting
    BY <1>6, <1>b DEF Sleep, Goto, TypeOK, LockOK, Waiting
  <2> QED BY <1>6, <2>2, <2>3, <1>q DEF Sleep
<1>7. CASE WakeUp(t)
  <2>2. TypeOK'
    BY <1>7 DEF WakeUp, BackTo, Goto, TypeOK, history, PC
  <2>3. LockOK' /\ Waiting' = Waiting
    BY <1>7, <1>b DEF WakeUp, BackTo, Goto, TypeOK, LockOK, Waiting
  <2> QED BY <1>7, <2>2, <2>3, <1>q DEF WakeUp
<1>8. CASE TimeOut(t)
  <2>2. TypeOK'
    BY <1>8 DEF TimeOut, TimedOutTo, Goto, TypeOK, history, PC
  <2>3. LockOK' /\ Waiting' = Waiting
    BY <1>8, <1>b DEF TimeOut, TimedOutTo, Goto, TypeOK, LockOK, Waiting
  <2> QED BY <1>8, <2>2, <2>3, <1>q DEF TimeOut
<1>9. CASE Leave(t)
  <2>1. \/ /\ count' \in IntRange
           /\ count' = count - amount[t] /\ granted' = granted + amount[t]
           /\ UNCHANGED <<releases, released>>
        \/ UNCHANGED <<count, releases, granted, released>>
    BY <1>9 DEF Leave, Grant, Less, history
  <2>t. amount[t] \in Int /\ granted \in Int /\ released \in Int
    BY <1>i DEF TypeOK
  <2>3. LockOK' /\ Waiting' = Waiting \ {t} /\ t \in Waiting
    BY <1>9, <1>b DEF Leave, Return, TypeOK, LockOK, Waiting
  <2>4. Cardinality(Waiting') = Cardinality(Waiting) - 1 /\ Cardinality(Waiting') \in Nat
    BY <2>3, WaitingShrinks
  <2>5. waitCount' = Cardinality(Waiting')
    BY <1>9, <2>4, <1>c DEF Leave
  <2>2. TypeOK'
    BY <1>9, <2>1, <2>t, <2>4, <2>5, <1>b DEF Leave, Return, TypeOK, PC
  <2>6. count' = Initial + released' - granted'
    BY <2>1, <2>t, <1>b, <1>c
  <2>7. Conserved'
    BY <2>5, <2>6 DEF Conserved, Waiting
  <2> QED BY <2>2, <2>3, <2>7
<1>10. CASE Release(t)
  <2>t. amount[t] \in Int /\ granted \in Int /\ released \in Int
    BY <1>i DEF TypeOK
  <2>2. TypeOK'
    BY <1>10, <2>t, <1>b, SemaphoreAssumption DEF Release, NotifyAll, Return, TypeOK, PC
  <2>3. LockOK' /\ Waiting' = Waiting
    BY <1>10 DEF Release, Return, TypeOK, LockOK, Waiting
  <2>4. count' = Initial + released' - granted'
    BY <1>10, <2>t, <1>b, <1>c DEF Release
  <2>5. Conserved'
    BY <1>10, <2>3, <2>4, <1>c DEF Release, Conserved, Waiting
  <2> QED BY <2>2, <2>3, <2>5
<1>11. CASE DeleteNotify(t)
  <2>2. TypeOK'
    BY <1>11, <1>b DEF DeleteNotify, NotifyAll, Return, TypeOK, history, PC
  <2>3. LockOK' /\ Waiting' = Waiting
    BY <1>11 DEF DeleteNotify, Return, TypeOK, LockOK, Waiting
  <2> QED BY <1>11, <2>2, <2>3, <1>q DEF DeleteNotify
<1> QED
  BY <1>a, <1>1, <1>2, <1>3, <1>4, <1>5, <1>6, <1>7, <1>8, <1>9, <1>10, <1>11 DEF App, Worker

-----------------------------------------------------------------------------
\* create_sem and every call of release_sem, acquire_sem and their variants
\* keep the books of the semaphore balanced.
THEOREM SemaphoreConserved == Spec => []Conserved
<1>1. SemInductive => Conserved
  BY DEF SemInductive
<1> QED BY SemInit, SemStep, <1>1, PTL DEF Spec

\* The count stays an int and every call keeps its type.
THEOREM SemaphoreTypeCorrect == Spec => []TypeOK
<1>1. SemInductive => TypeOK
  BY DEF SemInductive
<1> QED BY SemInit, SemStep, <1>1, PTL DEF Spec

-----------------------------------------------------------------------------
(* With positive ints, nothing is taken that is not there. *)

PositiveInts == \A u \in Amounts : u < Half

\* Acquire leaves its wait with enough units or because of delete_sem, and
\* nobody else can take them while it holds _countLock.
LeaveOK ==
    \A t \in Thread :
        pc[t] = "leave" /\ call[t] = "acquire" => ~registered \/ Enough(t)

Positive == \A t \in Thread : amount[t] >= 0

Covered == SemInductive /\ LeaveOK /\ Positive /\ NeverOverdrawn

\* Every step keeps it, given what the guests pass.
LEMMA CoveredStep ==
    ASSUME PositiveInts, Covered, [Next]_vars
    PROVE  Covered'
<1>s. SemInductive'
  BY SemStep DEF Covered
<1> USE DEF Covered, SemInductive
<1>0. CASE UNCHANGED vars
  BY <1>s, <1>0 DEF vars, LeaveOK, Positive, NeverOverdrawn, Enough
<1> SUFFICES ASSUME Next PROVE Covered'
  BY <1>0
<1>a. PICK t \in Thread : App(t) \/ Worker(t) \/ TimeOut(t)
  BY DEF Next
<1>b. None \notin Thread /\ amount \in [Thread -> Int] /\ count \in Int
  BY SemaphoreAssumption DEF TypeOK, IntRange
<1>l. lock = None => \A u \in Thread : pc[u] # "leave"
  BY <1>b DEF LockOK
<1>1. ASSUME NEW c \in {"acquire", "for", "until", "release"}, NEW u \in Amounts, Start(t, c, u)
      PROVE  Covered'
  <2>1. ToInt(u) >= 0
    BY SemaphoreAssumption DEF PositiveInts, ToInt
  <2>2. Positive' /\ NeverOverdrawn'
    BY <1>1, <2>1, <1>b DEF Start, Positive, NeverOverdrawn
  <2>3. LeaveOK'
    BY <1>1 DEF Start, LeaveOK, Enough, TypeOK
  <2> QED BY <1>s, <2>2, <2>3
<1>2. CASE Delete(t)
  BY <1>2, <1>s DEF Delete, LeaveOK, Positive, NeverOverdrawn, Enough, TypeOK
<1>3. CASE AcquireNow(t)
  <2>1. Positive' /\ NeverOverdrawn'
    BY <1>3, <1>b DEF AcquireNow, Grant, Less, Return, Positive, NeverOverdrawn, Enough, TypeOK
  <2>2. LeaveOK'
    BY <1>3, <1>l DEF AcquireNow, Return, LeaveOK, TypeOK
  <2> QED BY <1>s, <2>1, <2>2
<1>4. CASE AcquireWait(t)
  BY <1>4, <1>s DEF AcquireWait, Counted, Goto, LeaveOK, Positive, NeverOverdrawn, Enough, TypeOK
<1>5. CASE Test(t)
  BY <1>5, <1>s DEF Test, Goto, MayGoOn, LeaveOK, Positive, NeverOverdrawn, Enough, TypeOK
<1>6. CASE Sleep(t)
  BY <1>6, <1>s DEF Sleep, Goto, LeaveOK, Positive, NeverOverdrawn, Enough, TypeOK
<1>7. CASE WakeUp(t)
  BY <1>7, <1>s DEF WakeUp, BackTo, Goto, LeaveOK, Positive, NeverOverdrawn, Enough, TypeOK
<1>8. CASE TimeOut(t)
  BY <1>8, <1>s DEF TimeOut, TimedOutTo, Timed, Goto, LeaveOK, Positive, NeverOverdrawn, Enough, TypeOK
<1>9. CASE Leave(t)
  <2>1. registered /\ StillEnough(t) => count >= amount[t]
    BY <1>9 DEF Leave, LeaveOK, StillEnough, Enough
  <2>2. NeverOverdrawn'
    BY <1>9, <2>1, <1>b DEF Leave, Grant, Less, NeverOverdrawn
  <2>3. Positive'
    BY <1>9, <1>b DEF Leave, Return, Positive
  <2>4. \A u \in Thread : pc'[u] # "leave"
    BY <1>9 DEF Leave, Return, LockOK, TypeOK
  <2> QED BY <1>s, <2>2, <2>3, <2>4 DEF LeaveOK
<1>10. CASE Release(t)
  <2>1. Positive' /\ NeverOverdrawn'
    BY <1>10, <1>b DEF Release, Return, Positive, NeverOverdrawn
  <2>2. LeaveOK'
    BY <1>10, <1>l DEF Release, Return, LeaveOK, TypeOK
  <2> QED BY <1>s, <2>1, <2>2
<1>11. CASE DeleteNotify(t)
  BY <1>11, <1>s DEF DeleteNotify, Return, LeaveOK, Positive, NeverOverdrawn, Enough, TypeOK
<1> QED
  BY <1>a, <1>1, <1>2, <1>3, <1>4, <1>5, <1>6, <1>7, <1>8, <1>9, <1>10, <1>11 DEF App, Worker

\* What create_sem sets up.
LEMMA CoveredInit == Init => Covered
<1> SUFFICES ASSUME Init PROVE Covered
  OBVIOUS
<1>1. SemInductive
  BY SemInit
<1>2. LeaveOK /\ Positive /\ NeverOverdrawn
  BY SemaphoreAssumption DEF Init, LeaveOK, Positive, NeverOverdrawn
<1> QED BY <1>1, <1>2 DEF Covered

\* If the guests pass amounts below 2^31, Semaphore::Acquire never takes more
\* than there is, although it does not compare again after its wait.
THEOREM SemaphoreNeverOverdrawn ==
    ASSUME PositiveInts
    PROVE  Spec => []NeverOverdrawn
<1>1. Init => Covered
  BY CoveredInit
<1>2. Covered /\ [Next]_vars => Covered'
  BY CoveredStep
<1>3. Covered => NeverOverdrawn
  BY DEF Covered
<1> QED BY <1>1, <1>2, <1>3, PTL DEF Spec

-----------------------------------------------------------------------------
(* With positive ints, nobody sleeps beside enough units. *)

\* A call that has found too little and is going to sleep, or sleeps, still
\* finds too little: between its test and its sleep it holds _countLock, and
\* afterwards the count only grows in Release, which wakes everyone.
SleepOK ==
    \A t \in Thread :
        /\ t \in sleepers => pc[t] = "asleep"
        /\ registered /\ (pc[t] = "sleep" \/ t \in sleepers) => count < amount[t]

Unstranded == Covered /\ SleepOK

\* Every step keeps it, given what the guests pass.
LEMMA UnstrandedStep ==
    ASSUME PositiveInts, Unstranded, [Next]_vars
    PROVE  Unstranded'
<1>s. Covered'
  BY CoveredStep DEF Unstranded
<1> SUFFICES SleepOK'
  BY <1>s DEF Unstranded
<1> USE DEF Unstranded, Covered, SemInductive
<1>0. CASE UNCHANGED vars
  BY <1>0 DEF vars, SleepOK
<1> SUFFICES ASSUME Next PROVE SleepOK'
  BY <1>0
<1>a. PICK t \in Thread : App(t) \/ Worker(t) \/ TimeOut(t)
  BY DEF Next
<1>b. None \notin Thread /\ amount \in [Thread -> Int] /\ count \in Int
  BY SemaphoreAssumption DEF TypeOK, IntRange
<1>l. lock = None => \A u \in Thread : pc[u] # "sleep"
  BY <1>b DEF LockOK
\* Units that are taken are not below 0, so no sleeper has more than before.
<1>g. Grant(t) => count' \in Int /\ count' <= count
  BY <1>b DEF Grant, Less, Positive
<1>1. ASSUME NEW c \in {"acquire", "for", "until", "release"}, NEW u \in Amounts, Start(t, c, u)
      PROVE  SleepOK'
  BY <1>1 DEF Start, SleepOK, TypeOK
<1>2. CASE Delete(t)
  BY <1>2 DEF Delete, SleepOK, TypeOK
<1>3. CASE AcquireNow(t)
  BY <1>3, <1>g, <1>l, <1>b DEF AcquireNow, Return, SleepOK, TypeOK
<1>4. CASE AcquireWait(t)
  BY <1>4 DEF AcquireWait, Counted, Goto, SleepOK, TypeOK
<1>5. CASE Test(t)
  BY <1>5, <1>b DEF Test, Goto, MayGoOn, Enough, SleepOK, TypeOK
<1>6. CASE Sleep(t)
  BY <1>6 DEF Sleep, Goto, SleepOK, TypeOK
<1>7. CASE WakeUp(t)
  BY <1>7 DEF WakeUp, BackTo, Goto, SleepOK, TypeOK
<1>8. CASE TimeOut(t)
  BY <1>8 DEF TimeOut, TimedOutTo, Goto, SleepOK, TypeOK
<1>9. CASE Leave(t)
  <2>1. \A u \in Thread : pc[u] # "sleep"
    BY <1>9 DEF Leave, LockOK
  <2>2. count' \in Int /\ count' <= count
    BY <1>9, <1>g, <1>b DEF Leave
  <2> QED BY <1>9, <1>b, <2>1, <2>2 DEF Leave, Return, SleepOK, TypeOK
<1>10. CASE Release(t)
  BY <1>10, <1>l DEF Release, NotifyAll, Return, SleepOK, TypeOK
<1>11. CASE DeleteNotify(t)
  BY <1>11 DEF DeleteNotify, NotifyAll, Return, SleepOK, TypeOK
<1> QED
  BY <1>a, <1>1, <1>2, <1>3, <1>4, <1>5, <1>6, <1>7, <1>8, <1>9, <1>10, <1>11 DEF App, Worker

\* If the guests pass amounts below 2^31, no thread sleeps in acquire_sem while
\* the semaphore has the units it asked for: the one notify_all of Release is
\* enough.  (An amount above 2^31 is a negative int: acquiring it adds units
\* and notifies nobody.)
THEOREM SemaphoreStrandsNobody ==
    ASSUME PositiveInts
    PROVE  Spec => []NoStrandedWaiter
<1>1. Init => Unstranded
  <2> SUFFICES ASSUME Init PROVE Unstranded
    OBVIOUS
  <2>1. Covered
    BY CoveredInit
  <2>2. SleepOK
    BY DEF Init, SleepOK
  <2> QED BY <2>1, <2>2 DEF Unstranded
<1>2. Unstranded /\ [Next]_vars => Unstranded'
  BY UnstrandedStep
<1>3. Unstranded => NoStrandedWaiter
  BY DEF Unstranded, Covered, SemInductive, TypeOK, SleepOK, NoStrandedWaiter
<1> QED BY <1>1, <1>2, <1>3, PTL DEF Spec
=============================================================================
