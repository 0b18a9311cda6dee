--------------------------- MODULE UserSemProofs ---------------------------
(***************************************************************************)
(* Proofs about UserSem: the loader's half of POSIX semaphores and the     *)
(* word implement a counting semaphore, for any number of threads, any     *)
(* initial value and any number of posts.                                  *)
(***************************************************************************)
EXTENDS UserSem, TLAPS, FiniteSetTheorems, SequenceTheorems

\* What a thread inside the loader knows of the word and the deque as long as it
\* holds sMutexTableLock.
InsideOK ==
    \A t \in Thread :
        /\ pc[t] = "acquire_loop" /\ oldValue[t] = -1 => sem = -1
        /\ pc[t] \in {"release_clear", "release_loop"} => waiters = <<>>

\* QueuedOnce, without the converse that a waiting thread is in the deque.
QueueOK ==
    /\ \A i \in 1..Len(waiters) : pc[waiters[i]] = "wait" /\ ~notified[waiters[i]]
    /\ \A i, j \in 1..Len(waiters) : waiters[i] = waiters[j] => i = j
    /\ \A t \in Thread : notified[t] => pc[t] = "wait"

QueuedBack ==
    \A t \in Thread : pc[t] = "wait" /\ ~notified[t] =>
        \E i \in 1..Len(waiters) : waiters[i] = t

USInductive == TypeOK /\ InsideOK /\ WaitersMarked /\ QueueOK /\ QueuedBack

\* UserMutexEntry::Remove
LEMMA RemoveFacts ==
    ASSUME NEW q \in Seq(Thread), NEW i \in 1..Len(q)
    PROVE  /\ RemoveAt(q, i) \in Seq(Thread)
           /\ Len(RemoveAt(q, i)) = Len(q) - 1
           /\ \A j \in 1..(Len(q) - 1) :
                RemoveAt(q, i)[j] = IF j < i THEN q[j] ELSE q[j + 1]
<1>1. Len(q) - 1 \in Nat /\ \A j \in 1..Len(q) : q[j] \in Thread
  OBVIOUS
<1>2. \A j \in 1..(Len(q) - 1) : (IF j < i THEN q[j] ELSE q[j + 1]) \in Thread
  BY <1>1
<1> QED BY <1>1, <1>2 DEF RemoveAt

\* The empty deque.
LEMMA USInit == Init => USInductive
<1> SUFFICES ASSUME Init PROVE USInductive
  OBVIOUS
<1>1. TypeOK
  BY UserSemAssumption DEF Init, TypeOK, PC
<1>2. InsideOK /\ WaitersMarked /\ QueueOK /\ QueuedBack
  BY DEF Init, InsideOK, WaitersMarked, QueueOK, QueuedBack
<1> QED BY <1>1, <1>2 DEF USInductive

\* Every step keeps the invariant.
LEMMA USStep ==
    ASSUME USInductive, [Next]_vars
    PROVE  USInductive'
<1> USE DEF USInductive
<1>u. CASE UNCHANGED vars
  BY <1>u DEF vars, TypeOK, InsideOK, WaitersMarked, QueueOK, QueuedBack
<1> SUFFICES ASSUME NEW t \in Thread, App(t) \/ Loader(t) \/ WaitTimedOut(t)
             PROVE  USInductive'
  BY <1>u DEF Next
<1>0. None \notin Thread
  BY UserSemAssumption
<1>1. CASE AppTake(t)
  BY <1>1 DEF AppTake, TypeOK, InsideOK, WaitersMarked, QueueOK, QueuedBack
<1>2. ASSUME NEW finite \in BOOLEAN, AppWait(t, finite) PROVE USInductive'
  <2>1. TypeOK'
    BY <1>2 DEF AppWait, Goto, TypeOK, PC
  <2>2. InsideOK' /\ WaitersMarked' /\ QueueOK' /\ QueuedBack'
    BY <1>2 DEF AppWait, Goto, TypeOK, InsideOK, WaitersMarked, QueueOK, QueuedBack
  <2> QED BY <2>1, <2>2
<1>3. CASE AppPost(t)
  <2>1. TypeOK'
    BY <1>3, UserSemAssumption DEF AppPost, Goto, TypeOK, PC
  <2>2. InsideOK' /\ WaitersMarked' /\ QueueOK' /\ QueuedBack'
    BY <1>3 DEF AppPost, Goto, TypeOK, InsideOK, WaitersMarked, QueueOK, QueuedBack
  <2> QED BY <2>1, <2>2
<1>4. CASE AcquireRead(t)
  <2>1. TypeOK'
    BY <1>4, <1>0 DEF AcquireRead, Goto, TypeOK, PC
  <2>2. InsideOK' /\ WaitersMarked' /\ QueueOK' /\ QueuedBack'
    BY <1>4 DEF AcquireRead, Goto, TypeOK, InsideOK, WaitersMarked, QueueOK, QueuedBack
  <2> QED BY <2>1, <2>2
<1>5. CASE AcquireSwap(t)
  <2>1. TypeOK'
    BY <1>5, <1>0 DEF AcquireSwap, Contended, Goto, TypeOK, PC
  <2>2. InsideOK' /\ WaitersMarked'
    BY <1>5, <1>0 DEF AcquireSwap, Contended, Goto, TypeOK, InsideOK, WaitersMarked
  <2>3. QueueOK' /\ QueuedBack'
    BY <1>5 DEF AcquireSwap, Contended, Goto, TypeOK, QueueOK, QueuedBack
  <2> QED BY <2>1, <2>2, <2>3
<1>6. CASE AcquireWait(t)
  <2>0. /\ sem = -1 /\ waiters' = Append(waiters, t) /\ UNCHANGED <<sem, notified, oldValue>>
        /\ tableLock' = None /\ pc' = [pc EXCEPT ![t] = "wait"] /\ pc[t] = "acquire_loop"
        /\ tableLock = t
    BY <1>6 DEF AcquireWait, Contended, Goto, InsideOK, TypeOK
  <2>1. TypeOK'
    BY <1>6, <2>0, <1>0 DEF AcquireWait, Contended, Goto, TypeOK, PC
  <2>2. /\ Len(waiters') = Len(waiters) + 1 /\ Len(waiters) \in Nat
        /\ waiters'[Len(waiters) + 1] = t
        /\ \A i \in 1..Len(waiters) : waiters'[i] = waiters[i]
    BY <2>0 DEF TypeOK
  <2>3. InsideOK' /\ WaitersMarked'
    BY <2>0, <1>0 DEF InsideOK, WaitersMarked, TypeOK
  <2>4. QueueOK'
    BY <2>0, <2>2 DEF QueueOK, TypeOK
  <2>5. QueuedBack'
    BY <2>0, <2>2 DEF QueuedBack, TypeOK
  <2> QED BY <2>1, <2>3, <2>4, <2>5
<1>7. CASE WaitNotified(t)
  <2>1. TypeOK'
    BY <1>7 DEF WaitNotified, Woken, Goto, TypeOK, PC
  <2>2. InsideOK' /\ WaitersMarked'
    BY <1>7 DEF WaitNotified, Woken, Goto, TypeOK, InsideOK, WaitersMarked
  <2>3. QueueOK' /\ QueuedBack'
    BY <1>7 DEF WaitNotified, Woken, Goto, TypeOK, QueueOK, QueuedBack
  <2> QED BY <2>1, <2>2, <2>3
<1>8. CASE WaitTimedOut(t)
  <2>0. PICK i \in 1..Len(waiters) : waiters[i] = t /\ waiters' = RemoveAt(waiters, i)
    BY <1>8 DEF WaitTimedOut
  <2>1. /\ waiters' \in Seq(Thread) /\ Len(waiters') = Len(waiters) - 1
        /\ Len(waiters) \in Nat
        /\ \A j \in 1..(Len(waiters) - 1) :
             waiters'[j] = IF j < i THEN waiters[j] ELSE waiters[j + 1]
    <3>1. waiters \in Seq(Thread)
      BY DEF TypeOK
    <3>2. Len(waiters) \in Nat
      BY <3>1
    <3> QED BY <2>0, <3>1, <3>2, RemoveFacts
  <2>2. /\ pc[t] = "wait" /\ ~notified[t] /\ pc' = [pc EXCEPT ![t] = "idle"]
        /\ notified' = [notified EXCEPT ![t] = FALSE]
        /\ tableLock = None /\ UNCHANGED <<sem, tableLock, oldValue>>
    BY <1>8 DEF WaitTimedOut, Goto
  <2>3. TypeOK'
    BY <1>8, <2>1, <2>2 DEF WaitTimedOut, TypeOK, PC
  <2>4. InsideOK'
    BY <2>2, <1>0 DEF InsideOK, TypeOK
  <2>5. WaitersMarked'
    BY <2>0, <2>2 DEF WaitersMarked, TypeOK
  <2>6. QueueOK'
    <3>1. \A j \in 1..Len(waiters') : waiters'[j] # t /\
            \E k \in 1..Len(waiters) : waiters'[j] = waiters[k]
      BY <2>0, <2>1 DEF QueueOK
    <3>2. \A j, k \in 1..Len(waiters') : waiters'[j] = waiters'[k] => j = k
      BY <2>0, <2>1 DEF QueueOK
    <3>3. \A j \in 1..Len(waiters') :
            pc'[waiters'[j]] = "wait" /\ ~notified'[waiters'[j]]
      <4> SUFFICES ASSUME NEW j \in 1..Len(waiters')
                   PROVE  pc'[waiters'[j]] = "wait" /\ ~notified'[waiters'[j]]
        OBVIOUS
      <4>1. PICK k \in 1..Len(waiters) : waiters'[j] = waiters[k]
        BY <3>1
      <4>2. waiters[k] # t /\ waiters[k] \in Thread /\ pc[waiters[k]] = "wait" /\ ~notified[waiters[k]]
        BY <3>1, <4>1 DEF QueueOK, TypeOK
      <4> QED BY <4>1, <4>2, <2>2 DEF TypeOK
    <3>4. \A u \in Thread : notified'[u] => pc'[u] = "wait"
      BY <2>2 DEF QueueOK, TypeOK
    <3> QED BY <3>2, <3>3, <3>4 DEF QueueOK
  <2>7. QueuedBack'
    <3> SUFFICES ASSUME NEW u \in Thread, u # t, pc[u] = "wait", ~notified[u]
                 PROVE  \E j \in 1..Len(waiters') : waiters'[j] = u
      BY <2>2 DEF QueuedBack, TypeOK
    <3>1. PICK k \in 1..Len(waiters) : waiters[k] = u
      BY DEF QueuedBack
    <3>2. CASE k < i
      BY <3>1, <3>2, <2>0, <2>1
    <3>3. CASE k > i
      <4>1. k - 1 \in 1..Len(waiters') /\ ~(k - 1 < i) /\ (k - 1) + 1 = k
        BY <3>3, <2>0, <2>1
      <4>2. waiters'[k - 1] = u
        BY <4>1, <3>1, <2>1
      <4> QED BY <4>1, <4>2
    <3>4. k # i
      BY <3>1, <2>0
    <3> QED BY <3>2, <3>3, <3>4, <2>1
  <2> QED BY <2>3, <2>4, <2>5, <2>6, <2>7
<1>9. CASE ReleaseNotify(t)
  <2>0. /\ waiters # <<>> /\ waiters' = Tail(waiters)
        /\ notified' = [notified EXCEPT ![Head(waiters)] = TRUE]
        /\ pc[t] = "release" /\ tableLock = None /\ UNCHANGED <<sem, oldValue>>
        /\ \/ /\ Tail(waiters) = <<>> /\ tableLock' = t
              /\ pc' = [pc EXCEPT ![t] = "release_clear"]
           \/ /\ Tail(waiters) # <<>> /\ tableLock' = None
              /\ pc' = [pc EXCEPT ![t] = "idle"]
    BY <1>9 DEF ReleaseNotify, Emptied, Goto
  <2>1. /\ Head(waiters) = waiters[1] /\ waiters[1] \in Thread
        /\ Len(waiters') = Len(waiters) - 1 /\ Len(waiters) \in Nat \ {0}
        /\ waiters' \in Seq(Thread)
        /\ \A j \in 1..Len(waiters') : waiters'[j] = waiters[j + 1]
    BY <2>0 DEF TypeOK
  <2>2. TypeOK'
    <3>1. /\ notified' \in [Thread -> BOOLEAN] /\ pc' \in [Thread -> PC]
          /\ tableLock' \in Thread \cup {None}
      BY <2>0, <2>1 DEF TypeOK, PC
    <3>2. \A u \in Thread : pc'[u] \in {"acquire_loop", "release_clear", "release_loop"}
                               <=> tableLock' = u
      BY <2>0, <1>0 DEF TypeOK
    <3>3. posted' = posted + 1 /\ UNCHANGED <<sem, oldValue, timed, calls, taken>>
      BY <1>9 DEF ReleaseNotify, Emptied
    <3> QED BY <2>1, <3>1, <3>2, <3>3 DEF TypeOK
  <2>3. InsideOK' /\ WaitersMarked'
    BY <2>0, <1>0 DEF InsideOK, WaitersMarked, TypeOK
  <2>4. QueueOK'
    <3>1. \A j \in 1..Len(waiters') :
            j + 1 \in 1..Len(waiters) /\ waiters[j + 1] # waiters[1]
      BY <2>1 DEF QueueOK
    <3>2. \A i, j \in 1..Len(waiters') : waiters'[i] = waiters'[j] => i = j
      <4> SUFFICES ASSUME NEW i \in 1..Len(waiters'), NEW j \in 1..Len(waiters'),
                          waiters'[i] = waiters'[j]
                   PROVE  i = j
        OBVIOUS
      <4>1. i + 1 = j + 1
        BY <2>1, <3>1 DEF QueueOK
      <4> QED BY <4>1
    <3>3. pc[waiters[1]] = "wait"
      BY <2>1 DEF QueueOK
    <3> QED BY <2>0, <2>1, <3>1, <3>2, <3>3 DEF QueueOK, TypeOK
  <2>5. QueuedBack'
    <3> SUFFICES ASSUME NEW u \in Thread, pc[u] = "wait", ~notified'[u]
                 PROVE  \E j \in 1..Len(waiters') : waiters'[j] = u
      BY <2>0 DEF QueuedBack, TypeOK
    <3>1. u # waiters[1] /\ ~notified[u]
      BY <2>0, <2>1 DEF TypeOK
    <3>2. PICK k \in 1..Len(waiters) : waiters[k] = u
      BY <3>1 DEF QueuedBack
    <3>3. k - 1 \in 1..Len(waiters') /\ waiters'[k - 1] = u
      <4>1. k - 1 \in 1..Len(waiters') /\ (k - 1) + 1 = k
        BY <3>1, <3>2, <2>1
      <4> QED BY <4>1, <3>2, <2>1
    <3> QED BY <3>3
  <2> QED BY <2>2, <2>3, <2>4, <2>5
<1>10. CASE ReleaseClear(t)
  <2>1. TypeOK'
    BY <1>10, <1>0 DEF ReleaseClear, Clear, Goto, TypeOK, PC
  <2>2. InsideOK' /\ WaitersMarked'
    BY <1>10, <1>0 DEF ReleaseClear, Clear, Goto, TypeOK, InsideOK, WaitersMarked
  <2>3. QueueOK' /\ QueuedBack'
    BY <1>10 DEF ReleaseClear, Goto, TypeOK, QueueOK, QueuedBack
  <2> QED BY <2>1, <2>2, <2>3
<1>11. CASE ReleaseRead(t)
  <2>1. TypeOK'
    BY <1>11, <1>0 DEF ReleaseRead, Goto, TypeOK, PC
  <2>2. InsideOK' /\ WaitersMarked'
    BY <1>11, <1>0 DEF ReleaseRead, Goto, TypeOK, InsideOK, WaitersMarked
  <2>3. QueueOK' /\ QueuedBack'
    BY <1>11 DEF ReleaseRead, Goto, TypeOK, QueueOK, QueuedBack
  <2> QED BY <2>1, <2>2, <2>3
<1>12. CASE ReleaseSwap(t)
  <2>1. TypeOK'
    BY <1>12, <1>0 DEF ReleaseSwap, Reread, Inc, Goto, TypeOK, PC
  <2>2. InsideOK' /\ WaitersMarked'
    BY <1>12, <1>0 DEF ReleaseSwap, Reread, Inc, Goto, TypeOK, InsideOK, WaitersMarked
  <2>3. QueueOK' /\ QueuedBack'
    BY <1>12 DEF ReleaseSwap, Reread, Goto, TypeOK, QueueOK, QueuedBack
  <2> QED BY <2>1, <2>2, <2>3
<1> QED BY <1>1, <1>2, <1>3, <1>4, <1>5, <1>6, <1>7, <1>8, <1>9, <1>10, <1>11, <1>12
        DEF App, Loader

LEMMA USInvariant == Spec => []USInductive
<1>1. USInductive /\ [Next]_vars => USInductive'
  BY USStep
<1> QED BY USInit, <1>1, PTL DEF Spec

\* Handed is finite, and a hand-over or a return changes its size by one.
LEMMA HandedFinite == IsFiniteSet(Handed) /\ Cardinality(Handed) \in Nat
<1>1. IsFiniteSet(Handed)
  BY UserSemAssumption, FS_Subset DEF Handed
<1> QED BY <1>1, FS_CardinalityType

LEMMA HandedGrows ==
    ASSUME TypeOK, NEW h \in Thread, ~notified[h], notified' = [notified EXCEPT ![h] = TRUE]
    PROVE  Cardinality(Handed') = Cardinality(Handed) + 1
<1>1. Handed' = Handed \cup {h} /\ h \notin Handed
  BY DEF Handed, TypeOK
<1> QED BY <1>1, HandedFinite, FS_AddElement

LEMMA HandedShrinks ==
    ASSUME TypeOK, NEW h \in Thread, notified[h], notified' = [notified EXCEPT ![h] = FALSE]
    PROVE  Cardinality(Handed') = Cardinality(Handed) - 1 /\ Cardinality(Handed) > 0
<1>1. Handed' = Handed \ {h} /\ h \in Handed
  BY DEF Handed, TypeOK
<1>2. Cardinality(Handed') = Cardinality(Handed) - 1
  BY <1>1, HandedFinite, FS_RemoveElement
<1>3. Cardinality(Handed') \in Nat
  BY <1>1, HandedFinite, FS_RemoveElement, FS_CardinalityType
<1> QED BY <1>2, <1>3, HandedFinite

LEMMA HandedSame ==
    ASSUME TypeOK, NEW h \in Thread, ~notified[h],
           notified' = [notified EXCEPT ![h] = FALSE] \/ UNCHANGED notified
    PROVE  Handed' = Handed
  BY DEF Handed, TypeOK

\* Every step of the loader and of libroot is a post, a take or nothing.
LEMMA USSimulates ==
    ASSUME USInductive, [Next]_vars
    PROVE  [Abstract!Post \/ Abstract!Take]_<<Available + Cardinality(Handed), taken, posted>>
<1> USE DEF Available, Abstract!Post, Abstract!Take
<1>i. TypeOK
  BY DEF USInductive
<1>t. sem \in Int /\ sem >= -1 /\ taken \in Nat /\ posted \in Nat
  BY <1>i DEF TypeOK
<1>c. Cardinality(Handed) \in Nat
  BY HandedFinite
<1>u. CASE UNCHANGED vars
  BY <1>u DEF vars, Handed
<1> SUFFICES ASSUME NEW t \in Thread, App(t) \/ Loader(t) \/ WaitTimedOut(t)
             PROVE  [Abstract!Post \/ Abstract!Take]_<<Available + Cardinality(Handed), taken, posted>>
  BY <1>u DEF Next
<1>n. ASSUME UNCHANGED notified PROVE Handed' = Handed
  BY <1>n DEF Handed
<1>1. CASE AppTake(t)
  BY <1>1, <1>n, <1>c, <1>t DEF AppTake
<1>2. ASSUME NEW finite \in BOOLEAN, AppWait(t, finite)
      PROVE  UNCHANGED <<Available + Cardinality(Handed), taken, posted>>
  BY <1>2, <1>n DEF AppWait
<1>3. CASE AppPost(t)
  BY <1>3, <1>n, <1>c, <1>t DEF AppPost
<1>4. CASE AcquireRead(t)
  BY <1>4, <1>n DEF AcquireRead
<1>5. CASE AcquireSwap(t)
  BY <1>5, <1>n, <1>c, <1>t DEF AcquireSwap, Contended
<1>6. CASE AcquireWait(t)
  BY <1>6, <1>n DEF AcquireWait, Contended
<1>7. CASE WaitNotified(t)
  <2>1. Cardinality(Handed') = Cardinality(Handed) - 1 /\ Cardinality(Handed) > 0
    BY <1>7, <1>i, HandedShrinks DEF WaitNotified, Woken
  <2> QED BY <1>7, <2>1, <1>c, <1>t DEF WaitNotified, Woken
<1>8. CASE WaitTimedOut(t)
  <2>1. Handed' = Handed
    BY <1>8, <1>i, HandedSame DEF WaitTimedOut
  <2> QED BY <1>8, <2>1 DEF WaitTimedOut
<1>9. CASE ReleaseNotify(t)
  <2>1. Head(waiters) \in Thread /\ ~notified[Head(waiters)]
    <3>1. waiters # <<>> /\ waiters \in Seq(Thread)
      BY <1>9, <1>i DEF ReleaseNotify, Emptied, TypeOK
    <3>2. Head(waiters) = waiters[1] /\ 1 \in 1..Len(waiters) /\ waiters[1] \in Thread
      BY <3>1
    <3> QED BY <3>2 DEF USInductive, QueueOK
  <2>2. Cardinality(Handed') = Cardinality(Handed) + 1
    BY <1>9, <2>1, <1>i, HandedGrows DEF ReleaseNotify, Emptied
  <2> QED BY <1>9, <2>2, <1>c, <1>t, SMTT(40) DEF ReleaseNotify, Emptied
<1>10. CASE ReleaseClear(t)
  BY <1>10, <1>n, <1>t DEF ReleaseClear, Clear
<1>11. CASE ReleaseRead(t)
  BY <1>11, <1>n DEF ReleaseRead
<1>12. CASE ReleaseSwap(t)
  BY <1>12, <1>n, <1>c, <1>t DEF ReleaseSwap, Reread, Inc
<1> QED BY <1>1, <1>2, <1>3, <1>4, <1>5, <1>6, <1>7, <1>8, <1>9, <1>10, <1>11, <1>12
        DEF App, Loader

\* The word never goes below -1 and says so when somebody waits, and the deque
\* holds exactly the threads that wait and were not notified, each once.
THEOREM UserSemQueue == Spec => [](TypeOK /\ WaitersMarked /\ QueuedOnce)
<1>1. USInductive => TypeOK /\ WaitersMarked /\ QueuedOnce
  BY DEF USInductive, QueueOK, QueuedBack, QueuedOnce
<1> QED BY USInvariant, <1>1, PTL

\* The loader and libroot's fast paths implement a counting semaphore: no unit is
\* lost, made up or taken twice, for any threads, initial value and posts.
THEOREM UserSemImplements == Spec => ImplementsCountingSem
<1>1. Init => Abstract!Init
  <2> SUFFICES ASSUME Init PROVE Abstract!Init
    OBVIOUS
  <2>1. Handed = {}
    BY DEF Init, Handed
  <2>2. Cardinality(Handed) = 0
    BY <2>1, FS_EmptySet
  <2> QED BY <2>2, UserSemAssumption DEF Init, Abstract!Init, Available
<1>2. USInductive /\ [Next]_vars =>
        [Abstract!Post \/ Abstract!Take]_<<Available + Cardinality(Handed), taken, posted>>
  BY USSimulates
<1> QED BY <1>1, <1>2, USInvariant, PTL DEF Spec, ImplementsCountingSem, Abstract!Spec
=============================================================================
