-------------------------- MODULE UserMutexProofs --------------------------
(***************************************************************************)
(* Proofs about UserMutex, for every number of threads, mutexes and        *)
(* condition variables: the types; that a mutex which is not disabled has  *)
(* one owner at most; that nobody waits on a mutex which nobody will       *)
(* unblock, with deques and a table that say exactly who waits; and that   *)
(* the mutexes which are never disabled implement LockService.             *)
(***************************************************************************)
EXTENDS UserMutex, TLAPS, SequenceTheorems

\* What the deque operations of UserMutexEntry return.
LEMMA AppendFacts ==
    ASSUME NEW S, NEW q \in Seq(S), NEW x \in S
    PROVE  /\ Append(q, x) \in Seq(S)
           /\ Len(Append(q, x)) = Len(q) + 1
           /\ \A i \in 1..Len(q) : Append(q, x)[i] = q[i]
           /\ Append(q, x)[Len(q) + 1] = x
  BY AppendProperties

LEMMA TailFacts ==
    ASSUME NEW S, NEW q \in Seq(S), q # << >>
    PROVE  /\ Tail(q) \in Seq(S)
           /\ Len(q) \in Nat \ {0}
           /\ Len(Tail(q)) = Len(q) - 1
           /\ \A i \in 1..(Len(q) - 1) : Tail(q)[i] = q[i + 1]
           /\ Head(q) = q[1]
           /\ Head(q) \in S
  BY EmptySeq, HeadTailProperties

LEMMA RemoveFacts ==
    ASSUME NEW S, NEW q \in Seq(S), NEW i \in 1..Len(q)
    PROVE  /\ RemoveAt(q, i) \in Seq(S)
           /\ Len(RemoveAt(q, i)) = Len(q) - 1
           /\ \A j \in 1..(Len(q) - 1) :
                RemoveAt(q, i)[j] = IF j < i THEN q[j] ELSE q[j + 1]
<1> DEFINE a == SubSeq(q, 1, i - 1)
           b == SubSeq(q, i + 1, Len(q))
<1>0. Len(q) \in Nat
  OBVIOUS
<1>1. /\ a \in Seq(S)
      /\ Len(a) = i - 1
      /\ \A j \in 1..(i - 1) : a[j] = q[j]
  BY <1>0, SubSeqProperties
<1>2. /\ b \in Seq(S)
      /\ Len(b) = Len(q) - i
      /\ \A j \in 1..(Len(q) - i) : b[j] = q[i + j]
  BY <1>0, SubSeqProperties
<1>3. RemoveAt(q, i) = a \o b
  BY DEF RemoveAt
<1> HIDE DEF a, b
<1>4. /\ a \o b \in Seq(S)
      /\ Len(a \o b) = Len(a) + Len(b)
      /\ \A j \in 1..(Len(a) + Len(b)) :
           (a \o b)[j] = IF j <= Len(a) THEN a[j] ELSE b[j - Len(a)]
  BY <1>1, <1>2, ConcatProperties
<1>5. \A j \in 1..(Len(q) - 1) :
        (a \o b)[j] = IF j < i THEN q[j] ELSE q[j + 1]
  <2> SUFFICES ASSUME NEW j \in 1..(Len(q) - 1)
               PROVE  (a \o b)[j] = IF j < i THEN q[j] ELSE q[j + 1]
    OBVIOUS
  <2>1. (a \o b)[j] = IF j <= Len(a) THEN a[j] ELSE b[j - Len(a)]
    BY <1>0, <1>1, <1>2, <1>4
  <2>2. CASE j < i
    BY <2>1, <2>2, <1>0, <1>1
  <2>3. CASE ~(j < i)
    <3>1. j - (i - 1) \in 1..(Len(q) - i) /\ i + (j - (i - 1)) = j + 1
      BY <2>3, <1>0
    <3>2. b[j - (i - 1)] = q[j + 1]
      BY <3>1, <1>2
    <3> QED BY <3>2, <2>1, <2>3, <1>0, <1>1
  <2> QED BY <2>2, <2>3
<1> QED
  BY <1>0, <1>1, <1>2, <1>3, <1>4, <1>5

-----------------------------------------------------------------------------
(* Types.  The words of a call are needed to know that they are words. *)

\* The initial state satisfies every part of the invariant.
LEMMA InitInductive == Init => Inductive
<1> SUFFICES ASSUME Init PROVE Inductive
  OBVIOUS
<1> USE DEF Init
<1>1. TypeOK
  BY EmptySeq DEF TypeOK, PC, Word
<1>2. FrameOK
  BY DEF FrameOK, InTable, Switching, Waits
<1>3. QueueOK
  BY EmptySeq DEF QueueOK
<1>4. OwnedIsLocked /\ MutualExclusion
  BY DEF OwnedIsLocked, MutualExclusion, Owns
<1> QED BY <1>1, <1>2, <1>3, <1>4 DEF Inductive

\* Every action keeps the types.
LEMMA TypeStep ==
    ASSUME TypeOK, FrameOK, [Next]_vars
    PROVE  TypeOK'
<1> USE DEF TypeOK, Word
<1>0. CASE UNCHANGED vars
  BY <1>0 DEF vars
<1> SUFFICES ASSUME Next PROVE TypeOK'
  BY <1>0
<1>a. PICK t \in Thread : App(t) \/ Loader(t) \/ WaitTimedOut(t)
  BY DEF Next
<1>b. pc[t] # "idle" => arg[t] \in Word
  BY DEF FrameOK
<1>c. pc[t] \in Switching => frm[t] \in Word
  BY DEF FrameOK
<1> USE DEF PC, Bit, Goto, Return, Call, frame, Acquired
<1>1. ASSUME NEW m \in Mutex, AppFastLock(t, m) PROVE TypeOK'
  BY <1>1 DEF AppFastLock
<1>2. ASSUME NEW m \in Mutex, NEW finite \in BOOLEAN, AppSlowLock(t, m, finite) PROVE TypeOK'
  BY <1>2 DEF AppSlowLock
<1>3. ASSUME NEW m \in Mutex, AppUnlock(t, m) PROVE TypeOK'
  BY <1>3, ZenonT(40) DEF AppUnlock
<1>4. ASSUME NEW m \in Mutex, AppDisable(t, m) PROVE TypeOK'
  BY <1>4 DEF AppDisable
<1>5. ASSUME NEW m \in Mutex, NEW to \in Word, NEW finite \in BOOLEAN, AppSwitch(t, m, to, finite) PROVE TypeOK'
  BY <1>5 DEF AppSwitch
<1>6. ASSUME NEW c \in Cond, NEW everyone \in BOOLEAN, AppSignal(t, c, everyone) PROVE TypeOK'
  BY <1>6 DEF AppSignal
<1>7. CASE Lock(t)
  <2>0. pc[t] = "lock" /\ arg[t] \in Word /\ waiters[arg[t]] \in Seq(Thread)
    BY <1>7, <1>b DEF Lock
  <2>1. Append(waiters[arg[t]], t) \in Seq(Thread)
    BY AppendFacts, <2>0
  <2>2. word' \in [Word -> SUBSET Bit]
    BY <1>7, <2>0 DEF Lock, Prepared
  <2>3. CASE Takes(arg[t]) /\ MayClearWaiting(arg[t])
    BY <2>0, <2>2, <2>3, <1>7 DEF Lock
  <2>4. CASE Takes(arg[t]) /\ ~MayClearWaiting(arg[t])
    <3>1. holds' \in [Thread -> SUBSET Mutex] /\ table' \in SUBSET Word
      BY <2>0, <2>4, <1>7 DEF Lock, PutEntry
    <3> QED BY <3>1, <2>2, <2>4, <1>7 DEF Lock
  <2>5. CASE ~Takes(arg[t])
    <3>1. waiters' = [waiters EXCEPT ![arg[t]] = Append(waiters[arg[t]], t)]
      BY <2>5, <1>7 DEF Lock
    <3>2. waiters' \in [Word -> Seq(Thread)]
      BY <3>1, <2>0, <2>1
    <3> QED BY <3>2, <2>0, <2>2, <2>5, <1>7 DEF Lock
  <2> QED BY <2>3, <2>4, <2>5
<1>8. CASE LockClear(t)
  BY <1>8, <1>b, <1>c DEF Switching, LockClear, PutEntry
<1>9. CASE WaitNotified(t)
  BY <1>9, <1>b, <1>c DEF Switching, WaitNotified, PutEntry
<1>10. CASE WaitTimedOut(t)
  <2> DEFINE m == arg[t]
  <2>0. m \in Word /\ waiters[m] \in Seq(Thread)
    BY <1>10, <1>b DEF WaitTimedOut
  <2>1. PICK i \in 1..Len(waiters[m]) :
          /\ waiters' = [waiters EXCEPT ![m] = RemoveAt(waiters[m], i)]
          /\ word' = [word EXCEPT ![m] = TimeoutWord(word[m], RemoveAt(waiters[m], i))]
          /\ table' = PutEntry(table, m, RemoveAt(waiters[m], i))
    BY <1>10 DEF WaitTimedOut
  <2> HIDE DEF m
  <2>2. RemoveAt(waiters[m], i) \in Seq(Thread)
    BY RemoveFacts, <2>0
  <2>3. waiters' \in [Word -> Seq(Thread)]
    BY <2>1, <2>2
  <2>4. TimeoutWord(word[m], RemoveAt(waiters[m], i)) \in SUBSET Bit
    BY <2>0 DEF TimeoutWord
  <2>5. word' \in [Word -> SUBSET Bit]
    BY <2>1, <2>4
  <2>6. table' \in SUBSET Word
    BY <2>1 DEF PutEntry
  <2> QED BY <2>3, <2>5, <2>6, <1>10 DEF WaitTimedOut
<1>11. CASE Unblock(t)
  <2> DEFINE m == arg[t]
  <2>0. m \in Word /\ waiters[m] \in Seq(Thread)
    BY <1>11, <1>b, <1>c DEF Unblock, Switching
  <2>1. waiters' \in [Word -> Seq(Thread)]
    <3>1. CASE UNCHANGED waiters
      BY <3>1
    <3>2. CASE \E e \in BOOLEAN : UnblockWake(m, e)
      <4>1. waiters[m] # << >>
        BY <3>2 DEF UnblockWake
      <4>2. Tail(waiters[m]) \in Seq(Thread) /\ << >> \in Seq(Thread)
        BY <4>1, <2>0, TailFacts, EmptySeq
      <4>3. \E q \in Seq(Thread) : waiters' = [waiters EXCEPT ![m] = q]
        BY <3>2, <4>2 DEF UnblockWake, Rest
      <4> HIDE DEF m
      <4> QED BY <4>3
    <3> QED BY <3>1, <3>2, <1>11 DEF Unblock, UnblockIdle, UnblockBeaten
  <2>2. notified' \in [Thread -> BOOLEAN]
    BY <1>11, ZenonT(40) DEF Unblock, UnblockIdle, UnblockBeaten, UnblockWake, Notify
  <2>3. word' \in [Word -> SUBSET Bit]
    BY <1>11 DEF Unblock, UnblockIdle, UnblockBeaten, UnblockWake
  <2>4. table' \in SUBSET Word /\ tableLock' \in Thread \cup {None}
    BY <1>11 DEF Unblock, PutEntry
  <2>5. /\ pc' \in [Thread -> PC]
        /\ arg' \in [Thread -> Word \cup {None}]
        /\ frm' \in [Thread -> Word \cup {None}]
        /\ got' \in [Thread -> BOOLEAN]
        /\ timed' \in [Thread -> BOOLEAN]
    BY <1>11 DEF Unblock
  <2> QED BY <2>1, <2>2, <2>3, <2>4, <2>5, <1>11 DEF Unblock
<1>12. CASE UnblockClear(t)
  BY <1>12, <1>b, <1>c DEF Switching, UnblockClear, PutEntry
<1>13. CASE SwitchPrepare(t)
  <2>1. waiters' \in [Word -> Seq(Thread)]
    BY AppendFacts, <1>13, <1>b DEF SwitchPrepare
  <2>2. word' \in [Word -> SUBSET Bit]
    BY <1>13, <1>b DEF SwitchPrepare, Prepared
  <2>3. got' \in [Thread -> BOOLEAN]
    BY <1>13 DEF SwitchPrepare, Takes
  <2> QED BY <2>1, <2>2, <2>3, <1>13, <1>b DEF SwitchPrepare
<1>14. CASE SwitchClear(t)
  BY <1>14, <1>b, <1>c DEF Switching, SwitchClear
<1>15. CASE SwitchRelease(t)
  BY <1>15, <1>b, <1>c DEF Switching, SwitchRelease
<1>16. CASE SwitchUnblock(t)
  <2> DEFINE m == frm[t]
  <2>0. m \in Word /\ waiters[m] \in Seq(Thread)
    BY <1>16, <1>b, <1>c DEF SwitchUnblock, Switching
  <2>1. waiters' \in [Word -> Seq(Thread)]
    <3>1. CASE UNCHANGED waiters
      BY <3>1
    <3>2. CASE \E e \in BOOLEAN : UnblockWake(m, e)
      <4>1. waiters[m] # << >>
        BY <3>2 DEF UnblockWake
      <4>2. Tail(waiters[m]) \in Seq(Thread) /\ << >> \in Seq(Thread)
        BY <4>1, <2>0, TailFacts, EmptySeq
      <4>3. \E q \in Seq(Thread) : waiters' = [waiters EXCEPT ![m] = q]
        BY <3>2, <4>2 DEF UnblockWake, Rest
      <4> HIDE DEF m
      <4> QED BY <4>3
    <3> QED BY <3>1, <3>2, <1>16 DEF SwitchUnblock, UnblockIdle, UnblockBeaten
  <2>2. notified' \in [Thread -> BOOLEAN]
    BY <1>16 DEF SwitchUnblock, UnblockIdle, UnblockBeaten, UnblockWake, Notify
  <2>3. word' \in [Word -> SUBSET Bit]
    <3>1. word' \in {word, [word EXCEPT ![m] = @ \cup {"LOCKED"}]}
      BY <1>16 DEF SwitchUnblock, UnblockBeaten, UnblockWake
    <3> HIDE DEF m
    <3>2. CASE word' = [word EXCEPT ![m] = @ \cup {"LOCKED"}]
      BY <3>2, <2>0
    <3> QED BY <3>1, <3>2
  <2>4. table' \in SUBSET Word /\ tableLock' \in Thread \cup {None}
    BY <1>16 DEF SwitchUnblock, PutEntry
  <2>5. /\ pc' \in [Thread -> PC]
        /\ arg' \in [Thread -> Word \cup {None}]
        /\ frm' \in [Thread -> Word \cup {None}]
        /\ got' \in [Thread -> BOOLEAN]
        /\ timed' \in [Thread -> BOOLEAN]
    BY <1>16 DEF SwitchUnblock
  <2> QED BY <2>1, <2>2, <2>3, <2>4, <2>5, <1>16 DEF SwitchUnblock
<1>17. CASE SwitchUnblockClear(t)
  BY <1>17, <1>b, <1>c DEF Switching, SwitchUnblockClear, PutEntry
<1>18. CASE SwitchEnd(t)
  <2>1. CASE got[t]
    <3>1. holds' \in [Thread -> SUBSET Mutex] /\ table' \in SUBSET Word
      BY <2>1, <1>18 DEF SwitchEnd, PutEntry
    <3> QED BY <3>1, <2>1, <1>18 DEF SwitchEnd
  <2>2. CASE ~got[t]
    BY <2>2, <1>18 DEF SwitchEnd
  <2> QED BY <2>1, <2>2
<1> QED
  BY <1>a, <1>1, <1>2, <1>3, <1>4, <1>5, <1>6, <1>7, <1>8, <1>9, <1>10, <1>11,
     <1>12, <1>13, <1>14, <1>15, <1>16, <1>17, <1>18 DEF App, Loader

\* What waking the waiters of a word does: only threads that wait for that
\* word are notified, only the first one when it is a hand-off, and nobody who
\* stays in a deque is.
LEMMA WakeFacts ==
    ASSUME TypeOK, QueueOK, NEW m \in Word, NEW everyone \in BOOLEAN,
           UnblockWake(m, everyone)
    PROVE  /\ \A u \in Thread :
                notified'[u] => notified[u] \/ (Waits(u) /\ arg[u] = m)
           /\ ~everyone /\ "DISABLED" \notin word[m] =>
                \A u \in Thread : notified'[u] => notified[u] \/ u = Head(waiters[m])
           /\ \A k \in Word : \A i \in 1..Len(waiters'[k]) :
                /\ \E j \in 1..Len(waiters[k]) : waiters'[k][i] = waiters[k][j]
                /\ ~notified'[waiters'[k][i]]
                /\ \A j \in 1..Len(waiters'[k]) :
                      waiters'[k][i] = waiters'[k][j] => i = j
<1> DEFINE wakeAll == everyone \/ "DISABLED" \in word[m]
           q == waiters[m]
<1>1. /\ q # << >> /\ q \in Seq(Thread)
      /\ notified' = Notify(q, wakeAll)
      /\ waiters' = [waiters EXCEPT ![m] = Rest(q, wakeAll)]
  BY DEF UnblockWake, TypeOK
<1>2. /\ Tail(q) \in Seq(Thread)
      /\ Len(q) \in Nat \ {0}
      /\ Len(Tail(q)) = Len(q) - 1
      /\ \A i \in 1..(Len(q) - 1) : Tail(q)[i] = q[i + 1]
      /\ Head(q) = q[1]
  BY <1>1, TailFacts
<1>3. \A u \in Thread : notified'[u] <=>
          \/ notified[u]
          \/ IF wakeAll THEN \E i \in 1..Len(q) : q[i] = u ELSE u = Head(q)
  BY <1>1, Zenon DEF Notify
<1>4. \A i \in 1..Len(q) :
        /\ q[i] \in Thread /\ Waits(q[i]) /\ arg[q[i]] = m /\ ~notified[q[i]]
        /\ \A j \in 1..Len(q) : q[i] = q[j] => i = j
  BY <1>1 DEF QueueOK
<1>5. ASSUME NEW u \in Thread, notified'[u]
      PROVE  notified[u] \/ (\E i \in 1..Len(q) : q[i] = u)
  BY <1>2, <1>3, <1>5
<1>6. \A u \in Thread : notified'[u] => notified[u] \/ (Waits(u) /\ arg[u] = m)
  BY <1>4, <1>5
<1>7. ASSUME NEW k \in Word, NEW i \in 1..Len(waiters'[k])
      PROVE  /\ \E j \in 1..Len(waiters[k]) : waiters'[k][i] = waiters[k][j]
             /\ ~notified'[waiters'[k][i]]
             /\ \A j \in 1..Len(waiters'[k]) :
                   waiters'[k][i] = waiters'[k][j] => i = j
  <2>1. CASE k # m
    <3>1. waiters'[k] = waiters[k]
      BY <2>1, <1>1 DEF TypeOK
    <3>2. /\ waiters[k][i] \in Thread /\ arg[waiters[k][i]] = k
          /\ ~notified[waiters[k][i]]
          /\ \A j \in 1..Len(waiters[k]) : waiters[k][i] = waiters[k][j] => i = j
      BY <3>1 DEF QueueOK, TypeOK
    <3>3. ~notified'[waiters[k][i]]
      BY <3>2, <1>6, <2>1
    <3> QED BY <3>1, <3>2, <3>3
  <2>2. CASE k = m /\ wakeAll
    <3>1. waiters'[k] = << >>
      BY <2>2, <1>1 DEF Rest, TypeOK
    <3> QED BY <3>1
  <2>3. CASE k = m /\ ~wakeAll
    <3>1. waiters'[k] = Tail(q)
      BY <2>3, <1>1 DEF Rest, TypeOK
    <3>2. i \in 1..(Len(q) - 1) /\ Tail(q)[i] = q[i + 1] /\ i + 1 \in 1..Len(q)
      BY <3>1, <1>2
    <3>3. q[i + 1] # Head(q) /\ ~notified[q[i + 1]] /\ q[i + 1] \in Thread
      BY <3>2, <1>2, <1>4
    <3>4. ~notified'[q[i + 1]]
      BY <3>3, <1>3, <2>3
    <3>5. ASSUME NEW j \in 1..Len(waiters'[k]), waiters'[k][i] = waiters'[k][j]
          PROVE  i = j
      <4>1. j \in 1..(Len(q) - 1) /\ Tail(q)[j] = q[j + 1] /\ j + 1 \in 1..Len(q)
        BY <3>1, <1>2
      <4>2. q[i + 1] = q[j + 1]
        BY <4>1, <3>1, <3>2, <3>5
      <4>3. i + 1 = j + 1
        BY <4>1, <4>2, <3>2, <1>4
      <4> QED BY <4>3, <4>1, <3>2
    <3>6. \E j \in 1..Len(waiters[k]) : waiters'[k][i] = waiters[k][j]
      BY <3>1, <3>2, <2>3
    <3> QED BY <3>1, <3>2, <3>4, <3>5, <3>6
  <2> QED BY <2>1, <2>2, <2>3
<1> QED BY <1>3, <1>6, <1>7

\* Every action keeps what the places of a call say about it.
LEMMA FrameStep ==
    ASSUME TypeOK, FrameOK, QueueOK, ConstAssumption, [Next]_vars
    PROVE  FrameOK'
<1> USE DEF TypeOK, Word, FrameOK, Waits, InTable, Switching
<1>0. CASE UNCHANGED vars
  BY <1>0 DEF vars
<1> SUFFICES ASSUME Next PROVE FrameOK'
  BY <1>0
<1>a. PICK t \in Thread : App(t) \/ Loader(t) \/ WaitTimedOut(t)
  BY DEF Next
<1> USE DEF Goto, Return, Call, frame, Acquired
<1>1. ASSUME NEW m \in Mutex, AppFastLock(t, m) PROVE FrameOK'
  BY <1>1 DEF AppFastLock
<1>2. ASSUME NEW m \in Mutex, NEW finite \in BOOLEAN, AppSlowLock(t, m, finite) PROVE FrameOK'
  BY <1>2 DEF AppSlowLock
<1>3. ASSUME NEW m \in Mutex, AppUnlock(t, m) PROVE FrameOK'
  BY <1>3 DEF AppUnlock
<1>4. ASSUME NEW m \in Mutex, AppDisable(t, m) PROVE FrameOK'
  BY <1>4 DEF AppDisable
<1>5. ASSUME NEW m \in Mutex, NEW to \in Word, NEW finite \in BOOLEAN, AppSwitch(t, m, to, finite) PROVE FrameOK'
  BY <1>5 DEF AppSwitch
<1>6. ASSUME NEW c \in Cond, NEW everyone \in BOOLEAN, AppSignal(t, c, everyone) PROVE FrameOK'
  BY <1>6 DEF AppSignal
<1>7. CASE Lock(t)
  BY <1>7 DEF Lock
<1>8. CASE LockClear(t)
  BY <1>8 DEF LockClear
<1>9. CASE WaitNotified(t)
  BY <1>9 DEF WaitNotified
<1>10. CASE WaitTimedOut(t)
  BY <1>10 DEF WaitTimedOut
<1>11. CASE Unblock(t)
  <2> DEFINE m == arg[t]
  <2>1. m \in Word
    BY <1>11 DEF Unblock
  <2>2. \/ notified' = notified
        \/ \E everyone \in BOOLEAN : UnblockWake(m, everyone)
    BY <1>11 DEF Unblock, UnblockIdle, UnblockBeaten
  <2>3. \A u \in Thread : notified'[u] => notified[u] \/ Waits(u)
    BY <2>1, <2>2, WakeFacts
  <2>4. ~Waits(t)
    BY <1>11 DEF Unblock
  <2> QED BY <2>3, <2>4, <1>11 DEF Unblock
<1>12. CASE UnblockClear(t)
  BY <1>12 DEF UnblockClear
<1>13. CASE SwitchPrepare(t)
  BY <1>13 DEF SwitchPrepare
<1>14. CASE SwitchClear(t)
  BY <1>14 DEF SwitchClear
<1>15. CASE SwitchRelease(t)
  BY <1>15 DEF SwitchRelease
<1>16. CASE SwitchUnblock(t)
  <2> DEFINE m == frm[t]
  <2>1. m \in Word
    BY <1>16 DEF SwitchUnblock
  <2>2. \/ notified' = notified
        \/ \E everyone \in BOOLEAN : UnblockWake(m, everyone)
    BY <1>16 DEF SwitchUnblock, UnblockIdle, UnblockBeaten
  <2>3. \A u \in Thread : notified'[u] => notified[u] \/ Waits(u)
    BY <2>1, <2>2, WakeFacts
  <2>4. pc'[t] \in {"switch_end", "switch_unblock_clear"}
    BY <1>16, ZenonT(40) DEF SwitchUnblock
  <2>5. pc' = [pc EXCEPT ![t] = pc'[t]] /\ UNCHANGED <<arg, frm, got, tableLock, holds>>
    BY <1>16 DEF SwitchUnblock
  <2>7. pc[t] = "switch_unblock"
    BY <1>16 DEF SwitchUnblock
  <2>6. \A u \in Thread : Waits(u) => Waits(u)'
    BY <2>4, <2>5, <2>7
  <2>8. \A u \in Thread : u # t => pc'[u] = pc[u]
    BY <2>5
  <2>9. \A u \in Thread : ~Waits(u)' => ~notified'[u]
    BY <2>3, <2>6
  <2> QED BY <2>4, <2>5, <2>7, <2>8, <2>9
<1>17. CASE SwitchUnblockClear(t)
  BY <1>17 DEF SwitchUnblockClear
<1>18. CASE SwitchEnd(t)
  BY <1>18 DEF SwitchEnd
<1> QED
  BY <1>a, <1>1, <1>2, <1>3, <1>4, <1>5, <1>6, <1>7, <1>8, <1>9, <1>10, <1>11,
     <1>12, <1>13, <1>14, <1>15, <1>16, <1>17, <1>18 DEF App, Loader

\* The two ways a deque changes besides waking: a thread that did not wait is
\* added at the end, and a thread that leaves is removed.
LEMMA QueueAppend ==
    ASSUME TypeOK, QueueOK, NEW t \in Thread, NEW m \in Word,
           ~Waits(t), ~notified[t], Waits(t)', arg[t] = m,
           \A u \in Thread : Waits(u) => Waits(u)',
           waiters' = [waiters EXCEPT ![m] = Append(waiters[m], t)],
           UNCHANGED <<arg, notified>>
    PROVE  QueueOK'
<1> DEFINE q == waiters[m]
<1>1. q \in Seq(Thread) /\ Len(q) \in Nat
  BY DEF TypeOK
<1>2. /\ Len(Append(q, t)) = Len(q) + 1
      /\ \A i \in 1..Len(q) : Append(q, t)[i] = q[i]
      /\ Append(q, t)[Len(q) + 1] = t
  BY <1>1, AppendFacts
<1>3. waiters'[m] = Append(q, t) /\ \A k \in Word : k # m => waiters'[k] = waiters[k]
  BY DEF TypeOK
<1>4. \A k \in Word : \A i \in 1..Len(waiters[k]) :
        waiters[k][i] \in Thread /\ waiters[k][i] # t
  BY DEF QueueOK, TypeOK
<1> SUFFICES ASSUME NEW k \in Word, NEW i \in 1..Len(waiters'[k])
             PROVE  /\ Waits(waiters[k][i])' /\ arg'[waiters'[k][i]] = k
                    /\ ~notified'[waiters'[k][i]]
                    /\ \A j \in 1..Len(waiters'[k]) : waiters'[k][i] = waiters'[k][j] => i = j
  BY DEF QueueOK
<1>5. CASE k # m
  BY <1>3, <1>4, <1>5 DEF QueueOK
<1>6. CASE k = m
  <2> HIDE DEF q
  <2>1. i \in 1..(Len(q) + 1) /\ waiters'[k] = Append(q, t)
    BY <1>2, <1>3, <1>6
  <2>2. \A j \in 1..Len(q) : q[j] \in Thread /\ q[j] # t /\ Waits(q[j])
              /\ arg[q[j]] = m /\ ~notified[q[j]]
              /\ \A l \in 1..Len(q) : q[j] = q[l] => j = l
    BY <1>4 DEF QueueOK, q
  <2>3. CASE i = Len(q) + 1
    <3>1. waiters'[k][i] = t
      BY <1>2, <2>1, <2>3
    <3>2. Waits(waiters[k][i])' /\ arg'[waiters'[k][i]] = k /\ ~notified'[waiters'[k][i]]
      BY <3>1, <1>6
    <3>3. \A j \in 1..(Len(q) + 1) : t = Append(q, t)[j] => j = Len(q) + 1
      BY <1>1, <1>2, <2>2
    <3> QED BY <3>1, <3>2, <3>3, <1>2, <2>1, <2>3
  <2>4. CASE i \in 1..Len(q)
    <3>1. waiters'[k][i] = q[i]
      BY <1>2, <2>1, <2>4
    <3>2. Waits(waiters[k][i])' /\ arg'[waiters'[k][i]] = k /\ ~notified'[waiters'[k][i]]
      BY <3>1, <2>2, <2>4, <1>6
    <3>3. \A j \in 1..(Len(q) + 1) : q[i] = Append(q, t)[j] => i = j
      BY <1>1, <1>2, <2>2, <2>4
    <3> QED BY <3>1, <3>2, <3>3, <1>2, <2>1
  <2> QED BY <1>1, <2>1, <2>3, <2>4
<1> QED BY <1>5, <1>6

LEMMA QueueRemove ==
    ASSUME TypeOK, QueueOK, NEW t \in Thread, NEW m \in Word,
           NEW i \in 1..Len(waiters[m]), waiters[m][i] = t,
           waiters' = [waiters EXCEPT ![m] = RemoveAt(waiters[m], i)],
           \A u \in Thread : Waits(u) /\ u # t =>
               Waits(u)' /\ arg'[u] = arg[u] /\ notified'[u] = notified[u]
    PROVE  QueueOK'
<1> DEFINE q == waiters[m]
           r == RemoveAt(q, i)
<1>1. q \in Seq(Thread) /\ Len(q) \in Nat
  BY DEF TypeOK
<1>2. /\ Len(r) = Len(q) - 1
      /\ \A j \in 1..(Len(q) - 1) : r[j] = IF j < i THEN q[j] ELSE q[j + 1]
  BY <1>1, RemoveFacts
<1>3. waiters'[m] = r /\ \A k \in Word : k # m => waiters'[k] = waiters[k]
  BY DEF TypeOK
<1>4. \A k \in Word : \A j \in 1..Len(waiters[k]) :
        waiters[k][j] \in Thread /\ (waiters[k][j] = t => k = m /\ j = i)
  BY DEF QueueOK, TypeOK
<1> SUFFICES ASSUME NEW k \in Word, NEW j \in 1..Len(waiters'[k])
             PROVE  /\ Waits(waiters[k][j])' /\ arg'[waiters'[k][j]] = k
                    /\ ~notified'[waiters'[k][j]]
                    /\ \A l \in 1..Len(waiters'[k]) : waiters'[k][j] = waiters'[k][l] => j = l
  BY DEF QueueOK
<1>5. CASE k # m
  BY <1>3, <1>4, <1>5 DEF QueueOK
<1>6. CASE k = m
  <2>1. waiters'[k] = r /\ j \in 1..(Len(q) - 1)
    BY <1>2, <1>3, <1>6
  <2> DEFINE at(l) == IF l < i THEN l ELSE l + 1
  <2>2. \A l \in 1..(Len(q) - 1) : at(l) \in 1..Len(q) /\ at(l) # i /\ r[l] = q[at(l)]
    BY <1>1, <1>2
  <2>3. \A l, n \in 1..(Len(q) - 1) : at(l) = at(n) => l = n
    BY <1>1
  <2>4. \A l \in 1..Len(q) : q[l] \in Thread /\ (q[l] = t => l = i) /\ Waits(q[l])
              /\ arg[q[l]] = m /\ ~notified[q[l]]
              /\ \A n \in 1..Len(q) : q[l] = q[n] => l = n
    BY <1>4 DEF QueueOK
  <2> HIDE DEF at, q, r
  <2>5. r[j] \in Thread /\ r[j] # t /\ Waits(r[j]) /\ arg[r[j]] = m /\ ~notified[r[j]]
    BY <2>1, <2>2, <2>4, SMTT(40)
  <2>6. \A l \in 1..(Len(q) - 1) : r[j] = r[l] => j = l
    BY <2>1, <2>2, <2>3, <2>4
  <2> QED BY <1>2, <1>6, <2>1, <2>5, <2>6
<1> QED BY <1>5, <1>6

\* Every action keeps the deques in order.
LEMMA QueueStep ==
    ASSUME TypeOK, FrameOK, QueueOK, [Next]_vars
    PROVE  QueueOK'
<1> USE DEF TypeOK, Word
<1>0. CASE UNCHANGED vars
  BY <1>0 DEF vars, QueueOK, Waits
<1> SUFFICES ASSUME Next PROVE QueueOK'
  BY <1>0
<1>a. PICK t \in Thread : App(t) \/ Loader(t) \/ WaitTimedOut(t)
  BY DEF Next
<1> USE DEF Goto, Return, Call, frame, Acquired
<1>1. ASSUME NEW m \in Mutex, AppFastLock(t, m) PROVE QueueOK'
  BY <1>1 DEF AppFastLock, QueueOK, Waits
<1>2. ASSUME NEW m \in Mutex, NEW finite \in BOOLEAN, AppSlowLock(t, m, finite) PROVE QueueOK'
  BY <1>2 DEF AppSlowLock, QueueOK, Waits
<1>3. ASSUME NEW m \in Mutex, AppUnlock(t, m) PROVE QueueOK'
  BY <1>3 DEF AppUnlock, QueueOK, Waits
<1>4. ASSUME NEW m \in Mutex, AppDisable(t, m) PROVE QueueOK'
  BY <1>4 DEF AppDisable, QueueOK, Waits
<1>5. ASSUME NEW m \in Mutex, NEW to \in Word, NEW finite \in BOOLEAN, AppSwitch(t, m, to, finite) PROVE QueueOK'
  BY <1>5 DEF AppSwitch, QueueOK, Waits
<1>6. ASSUME NEW c \in Cond, NEW everyone \in BOOLEAN, AppSignal(t, c, everyone) PROVE QueueOK'
  BY <1>6 DEF AppSignal, QueueOK, Waits
<1>7. CASE Lock(t)
  <2> DEFINE m == arg[t]
  <2>0. m \in Word /\ waiters[m] \in Seq(Thread) /\ ~Waits(t) /\ ~notified[t]
    BY <1>7 DEF Lock, FrameOK, Waits
  <2>1. CASE UNCHANGED waiters
    <3>1. \A u \in Thread : Waits(u) => u # t /\ Waits(u)' /\ arg'[u] = arg[u]
      BY <2>0, <1>7 DEF Lock, Waits
    <3>2. notified' = notified
      BY <1>7 DEF Lock
    <3> QED BY <2>1, <3>1, <3>2 DEF QueueOK
  <2>2. CASE ~Takes(m)
    <3>1. /\ waiters' = [waiters EXCEPT ![m] = Append(waiters[m], t)]
          /\ pc' = [pc EXCEPT ![t] = "wait"]
          /\ UNCHANGED <<arg, got, notified>>
      BY <2>2, <1>7 DEF Lock
    <3> QED BY <3>1, <2>0, QueueAppend DEF Waits
  <2> QED BY <2>1, <2>2, <1>7 DEF Lock
<1>8. CASE LockClear(t)
  BY <1>8 DEF LockClear, QueueOK, Waits
<1>9. CASE WaitNotified(t)
  <2>1. \A m \in Word : \A i \in 1..Len(waiters[m]) : waiters[m][i] # t
    BY <1>9 DEF WaitNotified, Woken, QueueOK
  <2>2. \A u \in Thread : Waits(u) /\ u # t =>
          Waits(u)' /\ arg'[u] = arg[u] /\ notified'[u] = notified[u]
    BY <1>9 DEF WaitNotified, Waits
  <2> QED BY <2>1, <2>2, <1>9 DEF WaitNotified, QueueOK
<1>10. CASE WaitTimedOut(t)
  <2> DEFINE m == arg[t]
  <2>0. m \in Word /\ waiters[m] \in Seq(Thread)
    BY <1>10 DEF WaitTimedOut, FrameOK
  <2>1. PICK i \in 1..Len(waiters[m]) :
          waiters[m][i] = t /\ waiters' = [waiters EXCEPT ![m] = RemoveAt(waiters[m], i)]
    BY <1>10 DEF WaitTimedOut
  <2>2. \A u \in Thread : Waits(u) /\ u # t =>
          Waits(u)' /\ arg'[u] = arg[u] /\ notified'[u] = notified[u]
    BY <1>10 DEF WaitTimedOut, Waits
  <2> HIDE DEF m
  <2> QED BY <2>0, <2>1, <2>2, QueueRemove
<1>11. CASE Unblock(t)
  <2> DEFINE m == arg[t]
  <2>1. m \in Word
    BY <1>11 DEF Unblock, FrameOK, Switching
  <2>2. \A u \in Thread : Waits(u) => Waits(u)' /\ arg'[u] = arg[u]
    BY <1>11 DEF Unblock, Waits
  <2>3. CASE waiters' = waiters /\ notified' = notified
    BY <2>2, <2>3 DEF QueueOK
  <2>4. CASE \E everyone \in BOOLEAN : UnblockWake(m, everyone)
    <3>1. \A k \in Word : \A i \in 1..Len(waiters'[k]) :
            /\ \E j \in 1..Len(waiters[k]) : waiters'[k][i] = waiters[k][j]
            /\ ~notified'[waiters'[k][i]]
            /\ \A j \in 1..Len(waiters'[k]) : waiters'[k][i] = waiters'[k][j] => i = j
      BY <2>1, <2>4, WakeFacts
    <3> QED BY <2>2, <3>1 DEF QueueOK
  <2> QED BY <2>3, <2>4, <1>11 DEF Unblock, UnblockIdle, UnblockBeaten
<1>12. CASE UnblockClear(t)
  <2>1. \A u \in Thread : Waits(u) => Waits(u)' /\ arg'[u] = arg[u]
    BY <1>12 DEF UnblockClear, Waits
  <2> QED BY <2>1, <1>12 DEF UnblockClear, QueueOK
<1>13. CASE SwitchPrepare(t)
  <2> DEFINE m == arg[t]
  <2>0. m \in Word /\ waiters[m] \in Seq(Thread) /\ ~Waits(t) /\ ~notified[t]
    BY <1>13 DEF SwitchPrepare, FrameOK, Waits
  <2>1. CASE Takes(m)
    <3>1. \A u \in Thread : Waits(u) => u # t /\ Waits(u)' /\ arg'[u] = arg[u]
      BY <2>0, <1>13 DEF SwitchPrepare, Waits
    <3>2. waiters' = waiters /\ notified' = notified
      BY <2>0, <2>1, <1>13 DEF SwitchPrepare
    <3> QED BY <3>1, <3>2 DEF QueueOK
  <2>2. CASE ~Takes(m)
    <3>1. /\ waiters' = [waiters EXCEPT ![m] = Append(waiters[m], t)]
          /\ pc' = [pc EXCEPT ![t] = "switch_release"]
          /\ got' = [got EXCEPT ![t] = FALSE]
          /\ UNCHANGED <<arg, notified>>
      <4>0. Takes(m) = FALSE
        BY <2>2 DEF Takes
      <4>1. got' = [got EXCEPT ![t] = FALSE]
        BY <4>0, <1>13 DEF SwitchPrepare
      <4> QED BY <4>1, <2>2, <1>13 DEF SwitchPrepare
    <3> QED BY <3>1, <2>0, QueueAppend DEF Waits
  <2> QED BY <2>1, <2>2
<1>14. CASE SwitchClear(t)
  BY <1>14 DEF SwitchClear, QueueOK, Waits
<1>15. CASE SwitchRelease(t)
  BY <1>15 DEF SwitchRelease, QueueOK, Waits
<1>16. CASE SwitchUnblock(t)
  <2> DEFINE m == frm[t]
  <2>1. m \in Word
    BY <1>16 DEF SwitchUnblock, FrameOK, Switching
  <2>2. \A u \in Thread : Waits(u) => Waits(u)' /\ arg'[u] = arg[u]
    BY <1>16 DEF SwitchUnblock, Waits
  <2>3. CASE waiters' = waiters /\ notified' = notified
    BY <2>2, <2>3 DEF QueueOK
  <2>4. CASE \E everyone \in BOOLEAN : UnblockWake(m, everyone)
    <3>1. \A k \in Word : \A i \in 1..Len(waiters'[k]) :
            /\ \E j \in 1..Len(waiters[k]) : waiters'[k][i] = waiters[k][j]
            /\ ~notified'[waiters'[k][i]]
            /\ \A j \in 1..Len(waiters'[k]) : waiters'[k][i] = waiters'[k][j] => i = j
      BY <2>1, <2>4, WakeFacts
    <3> QED BY <2>2, <3>1 DEF QueueOK
  <2> QED BY <2>3, <2>4, <1>16 DEF SwitchUnblock, UnblockIdle, UnblockBeaten
<1>17. CASE SwitchUnblockClear(t)
  BY <1>17 DEF SwitchUnblockClear, QueueOK, Waits
<1>18. CASE SwitchEnd(t)
  BY <1>18 DEF SwitchEnd, QueueOK, Waits
<1> QED
  BY <1>a, <1>1, <1>2, <1>3, <1>4, <1>5, <1>6, <1>7, <1>8, <1>9, <1>10, <1>11,
     <1>12, <1>13, <1>14, <1>15, <1>16, <1>17, <1>18 DEF App, Loader

-----------------------------------------------------------------------------
(* Ownership.  A step either leaves the owners of a mutex alone, or gives a *)
(* free mutex one owner, or takes the mutex from its owner.                 *)

Exclusive == OwnedIsLocked /\ MutualExclusion

\* Nobody gains the mutex, and a mutex that loses LOCKED has lost its owner.
LEMMA NobodyGains ==
    ASSUME Exclusive,
           \A m \in Mutex : "DISABLED" \notin word'[m] =>
              /\ "DISABLED" \notin word[m]
              /\ \A u \in Thread : Owns(u, m)' => Owns(u, m)
              /\ "LOCKED" \in word[m] /\ "LOCKED" \notin word'[m] =>
                    \A u \in Thread : ~Owns(u, m)'
    PROVE  Exclusive'
  BY DEF Exclusive, OwnedIsLocked, MutualExclusion

\* One thread gains a mutex that was free and is now locked.
LEMMA OneGains ==
    ASSUME Exclusive, NEW t \in Thread, NEW k \in Mutex,
           "DISABLED" \notin word[k] => "LOCKED" \notin word[k],
           "LOCKED" \in word'[k],
           \A m \in Mutex : "DISABLED" \notin word'[m] =>
              /\ "DISABLED" \notin word[m]
              /\ \A u \in Thread :
                   Owns(u, m)' => Owns(u, m) \/ (u = t /\ m = k)
              /\ "LOCKED" \in word[m] => "LOCKED" \in word'[m]
    PROVE  Exclusive'
  BY DEF Exclusive, OwnedIsLocked, MutualExclusion

\* Waking the waiters of a word: a hand-off gives a free mutex to the first.
LEMMA ExclusiveWake ==
    ASSUME TypeOK, QueueOK, Exclusive, ConstAssumption,
           NEW m \in Word, NEW everyone \in BOOLEAN,
           UnblockWake(m, everyone), m \in Mutex => ~everyone,
           \A k \in Mutex, u \in Thread : Owns(u, k)' =>
               Owns(u, k) \/ (arg[u] = k /\ Waits(u) /\ notified'[u])
    PROVE  Exclusive'
<1>1. ASSUME NEW k \in Mutex, NEW u \in Thread, arg[u] = k, Waits(u), notified[u]
      PROVE  Owns(u, k)
  BY <1>1 DEF Waits, Owns
<1>2. ASSUME NEW k \in Mutex, NEW u \in Thread, Owns(u, k)', ~Owns(u, k)
      PROVE  k = m /\ ("DISABLED" \notin word[m] => u = Head(waiters[m]))
  <2>1. arg[u] = k /\ Waits(u) /\ notified'[u] /\ ~notified[u]
    BY <1>1, <1>2
  <2>2. arg[u] = m
    BY <2>1, WakeFacts
  <2>3. k = m /\ ~everyone
    BY <2>1, <2>2
  <2> QED BY <2>1, <2>3, WakeFacts
<1>3. /\ \A k \in Word : k # m => word'[k] = word[k]
      /\ m \in Mutex => word'[m] = word[m] \cup {"LOCKED"}
      /\ m \in Mutex => "LOCKED" \notin word[m]
  BY DEF UnblockWake, HandsOff, TypeOK
<1>4. CASE m \in Mutex /\ "DISABLED" \notin word[m]
  <2>1. Head(waiters[m]) \in Thread
    BY TailFacts DEF UnblockWake, TypeOK
  <2> QED BY <1>2, <1>3, <1>4, <2>1, OneGains DEF Word
<1>5. CASE ~(m \in Mutex /\ "DISABLED" \notin word[m])
  BY <1>2, <1>3, <1>5, NobodyGains DEF Word
<1> QED BY <1>4, <1>5

\* Every action keeps the owners apart.
LEMMA ExclusiveStep ==
    ASSUME TypeOK, FrameOK, QueueOK, Exclusive, [Next]_vars
    PROVE  Exclusive'
<1> USE ConstAssumption DEF TypeOK, Word
<1>0. CASE UNCHANGED vars
  BY <1>0 DEF vars, Exclusive, OwnedIsLocked, MutualExclusion, Owns
<1> SUFFICES ASSUME Next PROVE Exclusive'
  BY <1>0
<1>a. PICK t \in Thread : App(t) \/ Loader(t) \/ WaitTimedOut(t)
  BY DEF Next
<1> USE DEF Goto, Return, Call, frame, Acquired
<1>1. ASSUME NEW m \in Mutex, AppFastLock(t, m) PROVE Exclusive'
  <2>1. \A k \in Mutex, u \in Thread : Owns(u, k)' => Owns(u, k) \/ (u = t /\ k = m)
    BY <1>1 DEF AppFastLock, Owns
  <2>2. "LOCKED" \notin word[m] /\ "LOCKED" \in word'[m]
    BY <1>1 DEF AppFastLock
  <2>3. \A k \in Mutex : "DISABLED" \notin word'[k] =>
          "DISABLED" \notin word[k] /\ ("LOCKED" \in word[k] => "LOCKED" \in word'[k])
    BY <1>1 DEF AppFastLock
  <2> QED BY <2>1, <2>2, <2>3, OneGains
<1>2. ASSUME NEW m \in Mutex, NEW finite \in BOOLEAN, AppSlowLock(t, m, finite) PROVE Exclusive'
  <2>1. \A k \in Mutex : "DISABLED" \notin word'[k] =>
          /\ "DISABLED" \notin word[k]
          /\ "LOCKED" \in word[k] => "LOCKED" \in word'[k]
    BY <1>2 DEF AppSlowLock
  <2>2. \A k \in Mutex, u \in Thread : Owns(u, k)' => Owns(u, k)
    BY <1>2 DEF AppSlowLock, Owns
  <2> QED BY <2>1, <2>2, NobodyGains
<1>3. ASSUME NEW m \in Mutex, AppUnlock(t, m) PROVE Exclusive'
  <2>1. PICK k \in Mutex : k = m /\ Owns(t, k)
    BY <1>3 DEF AppUnlock, Owns, FrameOK, Switching
  <2>2. ~Owns(t, k)'
    BY <2>1, <1>3 DEF AppUnlock, Owns, FrameOK, Switching
  <2>3. \A l \in Mutex, u \in Thread : Owns(u, l)' => Owns(u, l)
    BY <1>3 DEF AppUnlock, Owns
  <2>4. \A l \in Mutex : "DISABLED" \notin word'[l] =>
          /\ "DISABLED" \notin word[l]
          /\ l # k /\ "LOCKED" \in word[l] => "LOCKED" \in word'[l]
    BY <2>1, <1>3 DEF AppUnlock
  <2>5. "DISABLED" \notin word[k] => \A u \in Thread : ~Owns(u, k)'
    BY <2>1, <2>2, <2>3 DEF Exclusive, MutualExclusion
  <2> QED BY <2>1, <2>3, <2>4, <2>5, NobodyGains
<1>4. ASSUME NEW m \in Mutex, AppDisable(t, m) PROVE Exclusive'
  <2>1. \A k \in Mutex : "DISABLED" \notin word'[k] =>
          /\ "DISABLED" \notin word[k]
          /\ "LOCKED" \in word[k] => "LOCKED" \in word'[k]
    BY <1>4 DEF AppDisable
  <2>2. \A k \in Mutex, u \in Thread : Owns(u, k)' => Owns(u, k)
    BY <1>4 DEF AppDisable, Owns
  <2> QED BY <2>1, <2>2, NobodyGains
<1>5. ASSUME NEW m \in Mutex, NEW to \in Word, NEW finite \in BOOLEAN, AppSwitch(t, m, to, finite) PROVE Exclusive'
  <2>1. \A k \in Mutex : "DISABLED" \notin word'[k] =>
          /\ "DISABLED" \notin word[k]
          /\ "LOCKED" \in word[k] => "LOCKED" \in word'[k]
    BY <1>5 DEF AppSwitch
  <2>2. \A k \in Mutex, u \in Thread : Owns(u, k)' => Owns(u, k)
    BY <1>5 DEF AppSwitch, Owns
  <2> QED BY <2>1, <2>2, NobodyGains
<1>6. ASSUME NEW c \in Cond, NEW everyone \in BOOLEAN, AppSignal(t, c, everyone) PROVE Exclusive'
  <2>1. \A k \in Mutex : "DISABLED" \notin word'[k] =>
          /\ "DISABLED" \notin word[k]
          /\ "LOCKED" \in word[k] => "LOCKED" \in word'[k]
    BY <1>6 DEF AppSignal, ConstAssumption
  <2>2. \A k \in Mutex, u \in Thread : Owns(u, k)' => Owns(u, k)
    BY <1>6 DEF AppSignal, Owns
  <2> QED BY <2>1, <2>2, NobodyGains
<1>7. CASE Lock(t)
  <2> DEFINE m == arg[t]
  <2>0. m \in Word /\ word'[m] = word[m] \cup {"LOCKED", "WAITING"}
        /\ (\A k \in Word : k # m => word'[k] = word[k])
    BY <1>7 DEF Lock, Prepared, FrameOK
  <2>1. \A k \in Mutex : "DISABLED" \notin word'[k] =>
          "DISABLED" \notin word[k] /\ ("LOCKED" \in word[k] => "LOCKED" \in word'[k])
    BY <2>0
  <2>2. ~notified[t] /\ UNCHANGED notified
    BY <1>7 DEF Lock, FrameOK, Waits
  <2>3. CASE Takes(m)
    <3>1. \A k \in Mutex, u \in Thread : Owns(u, k)' => Owns(u, k) \/ (u = t /\ k = m)
      BY <1>7 DEF Lock, Owns
    <3>2. "DISABLED" \notin word[m] => "LOCKED" \notin word[m]
      BY <2>3 DEF Takes
    <3>3. CASE m \in Mutex
      BY <2>0, <2>1, <3>1, <3>2, <3>3, OneGains
    <3>4. CASE m \notin Mutex
      BY <2>1, <3>1, <3>4, NobodyGains
    <3> QED BY <3>3, <3>4
  <2>4. CASE ~Takes(m)
    <3>1. \A k \in Mutex, u \in Thread : Owns(u, k)' => Owns(u, k)
      BY <2>2, <2>4, <1>7 DEF Lock, Owns
    <3> QED BY <2>1, <3>1, NobodyGains
  <2> QED BY <2>3, <2>4
<1>8. CASE LockClear(t)
  <2>1. \A k \in Mutex : "DISABLED" \notin word'[k] =>
          /\ "DISABLED" \notin word[k]
          /\ "LOCKED" \in word[k] => "LOCKED" \in word'[k]
    BY <1>8 DEF LockClear
  <2>2. \A k \in Mutex, u \in Thread : Owns(u, k)' => Owns(u, k)
    BY <1>8 DEF LockClear, Owns
  <2> QED BY <2>1, <2>2, NobodyGains
<1>9. CASE WaitNotified(t)
  <2>1. \A k \in Mutex : "DISABLED" \notin word'[k] =>
          /\ "DISABLED" \notin word[k]
          /\ "LOCKED" \in word[k] => "LOCKED" \in word'[k]
    BY <1>9 DEF WaitNotified
  <2>2. \A k \in Mutex, u \in Thread : Owns(u, k)' => Owns(u, k)
    BY <1>9 DEF WaitNotified, Woken, Owns
  <2> QED BY <2>1, <2>2, NobodyGains
<1>10. CASE WaitTimedOut(t)
  <2>1. \A k \in Mutex : "DISABLED" \notin word'[k] =>
          /\ "DISABLED" \notin word[k]
          /\ "LOCKED" \in word[k] => "LOCKED" \in word'[k]
    BY <1>10 DEF WaitTimedOut, TimeoutWord
  <2>2. \A k \in Mutex, u \in Thread : Owns(u, k)' => Owns(u, k)
    BY <1>10 DEF WaitTimedOut, Owns
  <2> QED BY <2>1, <2>2, NobodyGains
<1>11. CASE Unblock(t)
  <2> DEFINE m == arg[t]
  <2>1. m \in Word
    BY <1>11 DEF Unblock, FrameOK, Switching
  <2>2. ASSUME NEW k \in Mutex, NEW u \in Thread, Owns(u, k)'
        PROVE  Owns(u, k) \/ (arg[u] = k /\ Waits(u) /\ notified'[u])
    <3>1. UNCHANGED holds /\ \A v \in Thread : v # t =>
            pc'[v] = pc[v] /\ arg'[v] = arg[v] /\ got'[v] = got[v]
      BY <1>11 DEF Unblock
    <3>2. CASE u # t
      BY <3>1, <3>2, <2>2 DEF Owns, Waits, FrameOK
    <3>3. CASE u = t
      <4>1. pc'[t] \in {"idle", "unblock_clear"}
        BY <1>11 DEF Unblock
      <4> QED BY <4>1, <3>1, <3>3, <2>2 DEF Owns
    <3> QED BY <3>2, <3>3
  <2>3. CASE UNCHANGED notified /\ (UnblockIdle(m) \/ UNCHANGED word)
    <3>1. \A k \in Mutex : "DISABLED" \notin word'[k] =>
            /\ "DISABLED" \notin word[k]
            /\ "LOCKED" \in word[k] => "LOCKED" \in word'[k]
      BY <2>1, <2>3 DEF UnblockIdle
    <3>2. \A k \in Mutex, u \in Thread : Owns(u, k)' => Owns(u, k)
      BY <2>2, <2>3 DEF Owns, Waits
    <3> QED BY <3>1, <3>2, NobodyGains
  <2>4. ASSUME NEW everyone \in BOOLEAN, UnblockWake(m, everyone),
               m \in Mutex => ~everyone
        PROVE  Exclusive'
    BY <2>1, <2>2, <2>4, ExclusiveWake
  <2> QED BY <2>3, <2>4, <1>11 DEF Unblock, UnblockIdle, UnblockBeaten, FrameOK, Word
<1>12. CASE UnblockClear(t)
  <2>1. \A k \in Mutex : "DISABLED" \notin word'[k] =>
          /\ "DISABLED" \notin word[k]
          /\ "LOCKED" \in word[k] => "LOCKED" \in word'[k]
    BY <1>12 DEF UnblockClear
  <2>2. \A k \in Mutex, u \in Thread : Owns(u, k)' => Owns(u, k)
    BY <1>12 DEF UnblockClear, Owns
  <2> QED BY <2>1, <2>2, NobodyGains
<1>13. CASE SwitchPrepare(t)
  <2> DEFINE m == arg[t]
  <2>0. m \in Word /\ word'[m] = word[m] \cup {"LOCKED", "WAITING"}
        /\ (\A k \in Word : k # m => word'[k] = word[k])
    BY <1>13 DEF SwitchPrepare, Prepared, FrameOK
  <2>1. \A k \in Mutex : "DISABLED" \notin word'[k] =>
          "DISABLED" \notin word[k] /\ ("LOCKED" \in word[k] => "LOCKED" \in word'[k])
    BY <2>0
  <2>2. ~notified[t] /\ UNCHANGED notified
    BY <1>13 DEF SwitchPrepare, FrameOK, Waits
  <2>3. CASE Takes(m)
    <3>1. \A k \in Mutex, u \in Thread : Owns(u, k)' => Owns(u, k) \/ (u = t /\ k = m)
      BY <1>13 DEF SwitchPrepare, Owns
    <3>2. "DISABLED" \notin word[m] => "LOCKED" \notin word[m]
      BY <2>3 DEF Takes
    <3>3. CASE m \in Mutex
      BY <2>0, <2>1, <3>1, <3>2, <3>3, OneGains
    <3>4. CASE m \notin Mutex
      BY <2>1, <3>1, <3>4, NobodyGains
    <3> QED BY <3>3, <3>4
  <2>4. CASE ~Takes(m)
    <3>1. \A k \in Mutex, u \in Thread : Owns(u, k)' => Owns(u, k)
      BY <2>2, <2>4, <1>13 DEF SwitchPrepare, Owns, Takes
    <3> QED BY <2>1, <3>1, NobodyGains
  <2> QED BY <2>3, <2>4
<1>14. CASE SwitchClear(t)
  <2>1. \A k \in Mutex : "DISABLED" \notin word'[k] =>
          /\ "DISABLED" \notin word[k]
          /\ "LOCKED" \in word[k] => "LOCKED" \in word'[k]
    BY <1>14 DEF SwitchClear
  <2>2. \A k \in Mutex, u \in Thread : Owns(u, k)' => Owns(u, k)
    BY <1>14 DEF SwitchClear, Owns, FrameOK
  <2> QED BY <2>1, <2>2, NobodyGains
<1>15. CASE SwitchRelease(t)
  <2>1. PICK k \in Mutex : k = frm[t] /\ Owns(t, k)
    BY <1>15 DEF SwitchRelease, Owns, FrameOK, Switching
  <2>2. ~Owns(t, k)'
    BY <2>1, <1>15 DEF SwitchRelease, Owns, FrameOK, Switching
  <2>3. \A l \in Mutex, u \in Thread : Owns(u, l)' => Owns(u, l)
    BY <1>15 DEF SwitchRelease, Owns
  <2>4. \A l \in Mutex : "DISABLED" \notin word'[l] =>
          /\ "DISABLED" \notin word[l]
          /\ l # k /\ "LOCKED" \in word[l] => "LOCKED" \in word'[l]
    BY <2>1, <1>15 DEF SwitchRelease
  <2>5. "DISABLED" \notin word[k] => \A u \in Thread : ~Owns(u, k)'
    BY <2>1, <2>2, <2>3 DEF Exclusive, MutualExclusion
  <2> QED BY <2>1, <2>3, <2>4, <2>5, NobodyGains
<1>16. CASE SwitchUnblock(t)
  <2> DEFINE m == frm[t]
  <2>1. m \in Word
    BY <1>16 DEF SwitchUnblock, FrameOK, Switching
  <2>2. ASSUME NEW k \in Mutex, NEW u \in Thread, Owns(u, k)'
        PROVE  Owns(u, k) \/ (arg[u] = k /\ Waits(u) /\ notified'[u])
    <3>1. UNCHANGED <<holds, arg, got>> /\ \A v \in Thread : v # t => pc'[v] = pc[v]
      BY <1>16 DEF SwitchUnblock
    <3>2. CASE u # t
      BY <3>1, <3>2, <2>2 DEF Owns, Waits, FrameOK
    <3>3. CASE u = t
      <4>1. pc[t] = "switch_unblock" /\ pc'[t] \in {"switch_end", "switch_unblock_clear"}
        BY <1>16 DEF SwitchUnblock
      <4>2. k \in holds[t] \/ (arg[t] = k /\ (got[t] \/ notified'[t]))
        BY <4>1, <3>1, <3>3, <2>2 DEF Owns
      <4> QED BY <4>1, <4>2, <3>3 DEF Owns, Waits
    <3> QED BY <3>2, <3>3
  <2>3. CASE UNCHANGED notified /\ (UnblockIdle(m) \/ UNCHANGED word)
    <3>1. \A k \in Mutex : "DISABLED" \notin word'[k] =>
            /\ "DISABLED" \notin word[k]
            /\ "LOCKED" \in word[k] => "LOCKED" \in word'[k]
      BY <2>1, <2>3 DEF UnblockIdle
    <3>2. \A k \in Mutex, u \in Thread : Owns(u, k)' => Owns(u, k)
      BY <2>2, <2>3 DEF Owns, Waits
    <3> QED BY <3>1, <3>2, NobodyGains
  <2>4. ASSUME NEW everyone \in BOOLEAN, UnblockWake(m, everyone),
               m \in Mutex => ~everyone
        PROVE  Exclusive'
    BY <2>1, <2>2, <2>4, ExclusiveWake
  <2> QED BY <2>3, <2>4, <1>16 DEF SwitchUnblock, UnblockIdle, UnblockBeaten, FrameOK, Word
<1>17. CASE SwitchUnblockClear(t)
  <2>1. \A k \in Mutex : "DISABLED" \notin word'[k] =>
          /\ "DISABLED" \notin word[k]
          /\ "LOCKED" \in word[k] => "LOCKED" \in word'[k]
    BY <1>17 DEF SwitchUnblockClear
  <2>2. \A k \in Mutex, u \in Thread : Owns(u, k)' => Owns(u, k)
    BY <1>17 DEF SwitchUnblockClear, Owns
  <2> QED BY <2>1, <2>2, NobodyGains
<1>18. CASE SwitchEnd(t)
  <2>1. \A k \in Mutex : "DISABLED" \notin word'[k] =>
          /\ "DISABLED" \notin word[k]
          /\ "LOCKED" \in word[k] => "LOCKED" \in word'[k]
    BY <1>18 DEF SwitchEnd
  <2>2. \A k \in Mutex, u \in Thread : Owns(u, k)' => Owns(u, k)
    BY <1>18 DEF SwitchEnd, Owns
  <2> QED BY <2>1, <2>2, NobodyGains
<1> QED
  BY <1>a, <1>1, <1>2, <1>3, <1>4, <1>5, <1>6, <1>7, <1>8, <1>9, <1>10, <1>11,
     <1>12, <1>13, <1>14, <1>15, <1>16, <1>17, <1>18 DEF App, Loader

-----------------------------------------------------------------------------
\* The invariant is inductive.
LEMMA NextInductive ==
    ASSUME Inductive, [Next]_vars
    PROVE  Inductive'
  BY ConstAssumption, TypeStep, FrameStep, QueueStep, ExclusiveStep
  DEF Inductive, Exclusive

\* Every state of the loader's mutex table and of the words is well typed.
THEOREM TypeCorrect == Spec => []TypeOK
<1>1. Init => Inductive
  BY InitInductive
<1>2. Inductive /\ [Next]_vars => Inductive'
  BY NextInductive
<1>3. Inductive => TypeOK
  BY DEF Inductive
<1> QED BY <1>1, <1>2, <1>3, PTL DEF Spec

\* A mutex that is not disabled never has two owners, whatever timeouts,
\* hand-offs, switches and signals happen (loader_mutex.cpp).
THEOREM ExclusionCorrect == Spec => []MutualExclusion
<1>1. Init => Inductive
  BY InitInductive
<1>2. Inductive /\ [Next]_vars => Inductive'
  BY NextInductive
<1>3. Inductive => MutualExclusion
  BY DEF Inductive
<1> QED BY <1>1, <1>2, <1>3, PTL DEF Spec

-----------------------------------------------------------------------------
(* Nobody waits in vain. *)

Clearing == {"lock_clear", "unblock_clear", "switch_clear"}

\* A thread that waits and has not been notified is in its deque, and a thread
\* that holds the table lock has not been notified.
WaitersQueued ==
    \A t \in Thread :
        /\ Waits(t) /\ ~notified[t] => Queued(t, arg[t])
        /\ pc[t] \in InTable => ~notified[t]

\* WAITING is set on every word that has waiters, and whoever is about to clear
\* it has found none.
FlagsOK ==
    /\ \A m \in Word : waiters[m] # << >> => "WAITING" \in word[m]
    /\ \A t \in Thread : pc[t] \in Clearing => waiters[arg[t]] = << >>
    /\ \A t \in Thread : pc[t] = "switch_unblock_clear" => waiters[frm[t]] = << >>

\* The holder of the table lock will look at the entry of m once more.
Revisits(t, m) ==
    \/ pc[t] \in InTable /\ arg[t] = m
    \/ pc[t] = "switch_unblock_clear" /\ frm[t] = m

\* A word with waiters has an entry, and an entry without waiters is about to go.
TableOK ==
    \A m \in Word :
        /\ waiters[m] # << >> => m \in table
        /\ m \in table /\ waiters[m] = << >> => \E t \in Thread : Revisits(t, m)

Unstranded == Inductive /\ WaitersQueued /\ FlagsOK /\ TableOK /\ NoStrandedWaiter

\* Who is in a deque after a thread was added, ...
LEMMA AppendQueued ==
    ASSUME TypeOK, NEW t \in Thread, NEW m \in Word,
           waiters' = [waiters EXCEPT ![m] = Append(waiters[m], t)]
    PROVE  /\ \A u \in Thread, k \in Word : Queued(u, k) \/ (u = t /\ k = m) => Queued(u, k)'
           /\ waiters'[m] # << >>
           /\ \A k \in Word : k # m => waiters'[k] = waiters[k]
<1> DEFINE q == waiters[m]
<1>1. q \in Seq(Thread) /\ Len(q) \in Nat
  BY DEF TypeOK
<1>2. /\ Append(q, t) \in Seq(Thread)
      /\ Len(Append(q, t)) = Len(q) + 1
      /\ \A i \in 1..Len(q) : Append(q, t)[i] = q[i]
      /\ Append(q, t)[Len(q) + 1] = t
  BY <1>1, AppendFacts
<1>3. waiters'[m] = Append(q, t) /\ \A k \in Word : k # m => waiters'[k] = waiters[k]
  BY DEF TypeOK
<1>4. waiters'[m] # << >>
  BY <1>1, <1>2, <1>3, EmptySeq
<1> HIDE DEF q
<1>5. ASSUME NEW u \in Thread, NEW k \in Word, Queued(u, k) \/ (u = t /\ k = m)
      PROVE  Queued(u, k)'
  <2>1. CASE k # m
    BY <1>5, <1>3, <2>1 DEF Queued
  <2>2. CASE k = m /\ u = t
    <3>1. Len(q) + 1 \in 1..Len(waiters'[m]) /\ waiters'[m][Len(q) + 1] = t
      BY <1>1, <1>2, <1>3
    <3> QED BY <3>1, <2>2 DEF Queued
  <2>3. CASE k = m /\ Queued(u, k)
    <3>1. PICK i \in 1..Len(q) : q[i] = u
      BY <2>3 DEF Queued, q
    <3>2. i \in 1..Len(waiters'[m]) /\ waiters'[m][i] = u
      BY <3>1, <1>1, <1>2, <1>3
    <3> QED BY <3>2, <2>3 DEF Queued
  <2> QED BY <1>5, <2>1, <2>2, <2>3
<1> QED BY <1>3, <1>4, <1>5

\* ... after one gave up, ...
LEMMA RemoveQueued ==
    ASSUME TypeOK, NEW t \in Thread, NEW m \in Word,
           NEW i \in 1..Len(waiters[m]), waiters[m][i] = t,
           waiters' = [waiters EXCEPT ![m] = RemoveAt(waiters[m], i)]
    PROVE  /\ \A u \in Thread, k \in Word : Queued(u, k) /\ u # t => Queued(u, k)'
           /\ waiters[m] # << >>
           /\ \A k \in Word : k # m => waiters'[k] = waiters[k]
<1> DEFINE q == waiters[m]
           r == RemoveAt(q, i)
<1>1. q \in Seq(Thread) /\ Len(q) \in Nat /\ i \in 1..Len(q)
  BY DEF TypeOK
<1>2. /\ Len(r) = Len(q) - 1
      /\ \A j \in 1..(Len(q) - 1) : r[j] = IF j < i THEN q[j] ELSE q[j + 1]
  BY <1>1, RemoveFacts
<1>3. waiters'[m] = r /\ \A k \in Word : k # m => waiters'[k] = waiters[k]
  BY DEF TypeOK
<1>4. waiters[m] # << >>
  BY <1>1, EmptySeq
<1>t. q[i] = t
  OBVIOUS
<1> HIDE DEF q, r
<1>5. ASSUME NEW u \in Thread, NEW k \in Word, Queued(u, k), u # t
      PROVE  Queued(u, k)'
  <2>1. CASE k # m
    BY <1>5, <1>3, <2>1 DEF Queued
  <2>2. CASE k = m
    <3>1. PICK j \in 1..Len(q) : q[j] = u
      BY <1>5, <2>2 DEF Queued, q
    <3>2. j # i
      BY <3>1, <1>5, <1>t
    <3> DEFINE l == IF j < i THEN j ELSE j - 1
    <3>3. l \in 1..(Len(q) - 1) /\ r[l] = u
      BY <3>1, <3>2, <1>1, <1>2
    <3> HIDE DEF l
    <3> QED BY <3>3, <1>2, <1>3, <2>2 DEF Queued
  <2> QED BY <2>1, <2>2
<1> QED BY <1>3, <1>4, <1>5

\* ... and after some were woken: who is not notified stays.
LEMMA WakeQueued ==
    ASSUME TypeOK, NEW m \in Word, NEW everyone \in BOOLEAN, UnblockWake(m, everyone)
    PROVE  /\ \A u \in Thread, k \in Word : Queued(u, k) /\ ~notified'[u] => Queued(u, k)'
           /\ \A u \in Thread : notified[u] => notified'[u]
           /\ \A k \in Word : k # m => waiters'[k] = waiters[k]
<1> DEFINE wakeAll == everyone \/ "DISABLED" \in word[m]
           q == waiters[m]
<1>1. /\ q # << >> /\ q \in Seq(Thread)
      /\ notified' = Notify(q, wakeAll)
      /\ waiters' = [waiters EXCEPT ![m] = Rest(q, wakeAll)]
  BY DEF UnblockWake, TypeOK
<1>2. /\ Len(q) \in Nat \ {0}
      /\ Len(Tail(q)) = Len(q) - 1
      /\ \A i \in 1..(Len(q) - 1) : Tail(q)[i] = q[i + 1]
      /\ Head(q) = q[1]
  BY <1>1, TailFacts
<1>3. \A u \in Thread : notified'[u] <=>
          \/ notified[u]
          \/ IF wakeAll THEN \E i \in 1..Len(q) : q[i] = u ELSE u = Head(q)
  BY <1>1, Zenon DEF Notify
<1>4. waiters'[m] = Rest(q, wakeAll) /\ \A k \in Word : k # m => waiters'[k] = waiters[k]
  BY <1>1 DEF TypeOK
<1> HIDE DEF q, wakeAll
<1>5. ASSUME NEW u \in Thread, NEW k \in Word, Queued(u, k), ~notified'[u]
      PROVE  Queued(u, k)'
  <2>1. CASE k # m
    BY <1>5, <1>4, <2>1 DEF Queued
  <2>2. CASE k = m
    <3>1. PICK j \in 1..Len(q) : q[j] = u
      BY <1>5, <2>2 DEF Queued, q
    <3>2. ~wakeAll /\ u # Head(q)
      BY <3>1, <1>3, <1>5
    <3>3. waiters'[m] = Tail(q)
      BY <3>2, <1>4 DEF Rest
    <3>4. j - 1 \in 1..(Len(q) - 1)
      BY <3>1, <3>2, <1>2
    <3>5. Tail(q)[j - 1] = q[j]
      BY <3>4, <1>2
    <3>6. j - 1 \in 1..Len(waiters'[m]) /\ waiters'[m][j - 1] = u
      BY <3>1, <3>3, <3>4, <3>5, <1>2
    <3> QED BY <3>6, <2>2 DEF Queued
  <2> QED BY <2>1, <2>2
<1> QED BY <1>3, <1>4, <1>5

\* Every action keeps the waiters in their deques.
LEMMA QueuedStep ==
    ASSUME TypeOK, FrameOK, QueueOK, WaitersQueued, Next
    PROVE  WaitersQueued'
<1> USE DEF TypeOK, Word
<1>a. PICK t \in Thread : App(t) \/ Loader(t) \/ WaitTimedOut(t)
  BY DEF Next
<1>n. None \notin Thread
  BY ConstAssumption
\* A step that leaves the deques alone and makes nobody wait.
<1>q. ASSUME UNCHANGED waiters,
             \A u \in Thread : Waits(u)' /\ ~notified'[u] =>
                                 Waits(u) /\ ~notified[u] /\ arg'[u] = arg[u],
             \A u \in Thread : pc'[u] \in InTable => ~notified'[u]
      PROVE  WaitersQueued'
  BY <1>q DEF WaitersQueued, Queued
<1> USE DEF Goto, Return, Call, frame, Acquired
<1>1. ASSUME NEW m \in Mutex, AppFastLock(t, m) PROVE WaitersQueued'
  BY <1>1 DEF AppFastLock, WaitersQueued, Waits, Queued, InTable
<1>2. ASSUME NEW m \in Mutex, NEW finite \in BOOLEAN, AppSlowLock(t, m, finite) PROVE WaitersQueued'
  BY <1>2 DEF AppSlowLock, WaitersQueued, Waits, Queued, InTable
<1>3. ASSUME NEW m \in Mutex, AppUnlock(t, m) PROVE WaitersQueued'
  BY <1>3, SMTT(40) DEF AppUnlock, WaitersQueued, Waits, Queued, InTable
<1>4. ASSUME NEW m \in Mutex, AppDisable(t, m) PROVE WaitersQueued'
  BY <1>4 DEF AppDisable, WaitersQueued, Waits, Queued, InTable
<1>5. ASSUME NEW m \in Mutex, NEW to \in Word, NEW finite \in BOOLEAN, AppSwitch(t, m, to, finite) PROVE WaitersQueued'
  BY <1>5 DEF AppSwitch, WaitersQueued, Waits, Queued, InTable
<1>6. ASSUME NEW c \in Cond, NEW everyone \in BOOLEAN, AppSignal(t, c, everyone) PROVE WaitersQueued'
  BY <1>6 DEF AppSignal, WaitersQueued, Waits, Queued, InTable
<1>7. CASE Lock(t)
  <2>0. arg[t] \in Word /\ ~Waits(t) /\ ~notified[t] /\ UNCHANGED notified
    BY <1>7 DEF Lock, FrameOK, Waits
  <2>1. CASE Takes(arg[t])
    <3>1. \A u \in Thread : Waits(u)' => Waits(u) /\ arg'[u] = arg[u]
      BY <1>7, <2>1 DEF Lock, Waits
    <3>2. \A u \in Thread : pc'[u] \in InTable => ~notified'[u]
      BY <1>7, <2>0, <2>1 DEF Lock, InTable, WaitersQueued
    <3> QED BY <1>7, <2>0, <2>1, <3>1, <3>2, <1>q DEF Lock
  <2>2. CASE ~Takes(arg[t])
    <3>1. waiters' = [waiters EXCEPT ![arg[t]] = Append(waiters[arg[t]], t)]
      BY <1>7, <2>2 DEF Lock
    <3>2. \A u \in Thread, k \in Word : Queued(u, k) \/ (u = t /\ k = arg[t]) => Queued(u, k)'
      BY <3>1, <2>0, AppendQueued
    <3>3. \A u \in Thread : Waits(u)' => arg'[u] = arg[u] /\ (Waits(u) \/ u = t) /\ arg[u] \in Word
      BY <1>7, <2>2 DEF Lock, Waits, FrameOK
    <3>4. \A u \in Thread : pc'[u] \in InTable => ~notified'[u]
      BY <1>7, <2>0, <2>2 DEF Lock, InTable, WaitersQueued
    <3> QED BY <2>0, <3>2, <3>3, <3>4 DEF WaitersQueued
  <2> QED BY <2>1, <2>2
<1>8. CASE LockClear(t)
  BY <1>8, <1>q DEF LockClear, WaitersQueued, Waits, InTable
<1>9. CASE WaitNotified(t)
  BY <1>9, <1>q DEF WaitNotified, WaitersQueued, Waits, InTable
<1>10. CASE WaitTimedOut(t)
  <2> DEFINE m == arg[t]
  <2>0. m \in Word /\ UNCHANGED notified
    BY <1>10 DEF WaitTimedOut, FrameOK
  <2>1. PICK i \in 1..Len(waiters[m]) :
          waiters[m][i] = t /\ waiters' = [waiters EXCEPT ![m] = RemoveAt(waiters[m], i)]
    BY <1>10 DEF WaitTimedOut
  <2>2. \A u \in Thread : Waits(u)' => Waits(u) /\ u # t /\ arg'[u] = arg[u] /\ arg[u] \in Word
    BY <1>10 DEF WaitTimedOut, Waits, FrameOK
  <2>3. \A u \in Thread : pc'[u] \in InTable => ~notified'[u]
    BY <1>10, <2>0 DEF WaitTimedOut, InTable, WaitersQueued
  <2> HIDE DEF m
  <2>4. \A u \in Thread, k \in Word : Queued(u, k) /\ u # t => Queued(u, k)'
    BY <2>0, <2>1, RemoveQueued
  <2> QED BY <2>0, <2>2, <2>3, <2>4 DEF WaitersQueued
<1>11. CASE Unblock(t)
  <2> DEFINE m == arg[t]
  <2>0. m \in Word /\ ~notified[t] /\ ~Waits(t) /\ tableLock = None
    BY <1>11 DEF Unblock, FrameOK, Waits
  <2>1. \A u \in Thread : Waits(u)' => Waits(u) /\ arg'[u] = arg[u] /\ arg[u] \in Word
    BY <1>11 DEF Unblock, Waits, FrameOK
  <2>2. \A u \in Thread : pc'[u] \in InTable => u = t
    BY <1>11, <1>n, <2>0 DEF Unblock, FrameOK, InTable
  <2>3. CASE waiters' = waiters /\ notified' = notified
    BY <2>0, <2>1, <2>2, <2>3, <1>q
  <2>4. CASE \E everyone \in BOOLEAN : UnblockWake(m, everyone)
    <3>1. ~notified'[t]
      BY <2>0, <2>4, WakeFacts
    <3>2. /\ \A u \in Thread, k \in Word : Queued(u, k) /\ ~notified'[u] => Queued(u, k)'
          /\ \A u \in Thread : notified[u] => notified'[u]
      BY <2>0, <2>4, WakeQueued
    <3> QED BY <2>1, <2>2, <3>1, <3>2 DEF WaitersQueued
  <2> QED BY <2>3, <2>4, <1>11 DEF Unblock, UnblockIdle, UnblockBeaten
<1>12. CASE UnblockClear(t)
  BY <1>12, <1>q DEF UnblockClear, WaitersQueued, Waits, InTable
<1>13. CASE SwitchPrepare(t)
  <2>0. arg[t] \in Word /\ ~Waits(t) /\ ~notified[t] /\ UNCHANGED <<notified, arg>>
    BY <1>13 DEF SwitchPrepare, FrameOK, Waits
  <2>3. \A u \in Thread : pc'[u] \in InTable => ~notified'[u]
    BY <1>13, <2>0 DEF SwitchPrepare, InTable, WaitersQueued
  <2>4. \A u \in Thread : u # t => (Waits(u)' => Waits(u))
    BY <1>13 DEF SwitchPrepare, Waits
  <2>1. CASE Takes(arg[t])
    <3>1. waiters' = waiters /\ ~Waits(t)'
      <4>1. Takes(arg[t]) = TRUE
        BY <2>1 DEF Takes
      <4> QED BY <1>13, <2>0, <4>1 DEF SwitchPrepare, Waits
    <3> QED BY <2>0, <2>3, <2>4, <3>1, <1>q
  <2>2. CASE ~Takes(arg[t])
    <3>1. waiters' = [waiters EXCEPT ![arg[t]] = Append(waiters[arg[t]], t)]
      BY <1>13, <2>2 DEF SwitchPrepare
    <3>2. \A u \in Thread, k \in Word : Queued(u, k) \/ (u = t /\ k = arg[t]) => Queued(u, k)'
      BY <3>1, <2>0, AppendQueued
    <3>3. \A u \in Thread : Waits(u) => arg[u] \in Word
      BY DEF Waits, FrameOK
    <3> QED BY <2>0, <2>3, <2>4, <3>2, <3>3 DEF WaitersQueued
  <2> QED BY <2>1, <2>2
<1>14. CASE SwitchClear(t)
  BY <1>14, <1>q DEF SwitchClear, WaitersQueued, Waits, InTable, FrameOK
<1>15. CASE SwitchRelease(t)
  BY <1>15, <1>q DEF SwitchRelease, WaitersQueued, Waits, InTable
<1>16. CASE SwitchUnblock(t)
  <2> DEFINE m == frm[t]
  <2>0. m \in Word /\ arg[t] # m /\ ~notified[t] /\ UNCHANGED <<arg, got>> /\ pc[t] = "switch_unblock"
    BY <1>16 DEF SwitchUnblock, FrameOK, Switching, WaitersQueued, InTable
  <2>1. \A u \in Thread : Waits(u)' => Waits(u) /\ arg'[u] = arg[u] /\ arg[u] \in Word
    BY <1>16, ZenonT(40) DEF SwitchUnblock, Waits, FrameOK
  <2>2. \A u \in Thread : pc'[u] \in InTable => u = t
    BY <1>16, <1>n DEF SwitchUnblock, FrameOK, InTable
  <2>3. CASE waiters' = waiters /\ notified' = notified
    BY <2>0, <2>1, <2>2, <2>3, <1>q
  <2>4. CASE \E everyone \in BOOLEAN : UnblockWake(m, everyone)
    <3>1. ~notified'[t]
      BY <2>0, <2>4, WakeFacts
    <3>2. /\ \A u \in Thread, k \in Word : Queued(u, k) /\ ~notified'[u] => Queued(u, k)'
          /\ \A u \in Thread : notified[u] => notified'[u]
      BY <2>0, <2>4, WakeQueued
    <3> QED BY <2>1, <2>2, <3>1, <3>2 DEF WaitersQueued
  <2> QED BY <2>3, <2>4, <1>16 DEF SwitchUnblock, UnblockBeaten
<1>17. CASE SwitchUnblockClear(t)
  BY <1>17, <1>q DEF SwitchUnblockClear, WaitersQueued, Waits, InTable
<1>18. CASE SwitchEnd(t)
  BY <1>18, <1>q DEF SwitchEnd, WaitersQueued, Waits, InTable
<1> QED
  BY <1>a, <1>1, <1>2, <1>3, <1>4, <1>5, <1>6, <1>7, <1>8, <1>9, <1>10, <1>11,
     <1>12, <1>13, <1>14, <1>15, <1>16, <1>17, <1>18 DEF App, Loader

\* Every action keeps the flags and the entries with the deques.
LEMMA FlagsStep ==
    ASSUME TypeOK, FrameOK, QueueOK, WaitersQueued, FlagsOK, TableOK, Next
    PROVE  FlagsOK'
<1> USE DEF TypeOK, Word
<1>a. PICK t \in Thread : App(t) \/ Loader(t) \/ WaitTimedOut(t)
  BY DEF Next
<1>n. None \notin Thread
  BY ConstAssumption
<1>f. tableLock = None => \A u \in Thread : pc[u] \notin InTable
  BY <1>n DEF FrameOK
<1>h. pc[t] \in InTable => \A u \in Thread : u # t => pc[u] \notin InTable
  BY DEF FrameOK
<1> USE DEF Goto, Return, Call, frame, Acquired
<1>1. ASSUME NEW m \in Mutex, AppFastLock(t, m) PROVE FlagsOK'
  BY <1>1 DEF AppFastLock, FlagsOK, Clearing
<1>2. ASSUME NEW m \in Mutex, NEW finite \in BOOLEAN, AppSlowLock(t, m, finite) PROVE FlagsOK'
  BY <1>2 DEF AppSlowLock, FlagsOK, Clearing
<1>3. ASSUME NEW m \in Mutex, AppUnlock(t, m) PROVE FlagsOK'
  BY <1>3 DEF AppUnlock, FlagsOK, Clearing
<1>4. ASSUME NEW m \in Mutex, AppDisable(t, m) PROVE FlagsOK'
  BY <1>4 DEF AppDisable, FlagsOK, Clearing
<1>5. ASSUME NEW m \in Mutex, NEW to \in Word, NEW finite \in BOOLEAN, AppSwitch(t, m, to, finite) PROVE FlagsOK'
  BY <1>5 DEF AppSwitch, FlagsOK, Clearing
<1>6. ASSUME NEW c \in Cond, NEW everyone \in BOOLEAN, AppSignal(t, c, everyone) PROVE FlagsOK'
  BY <1>6 DEF AppSignal, FlagsOK, Clearing
<1>7. CASE Lock(t)
  <2>0. arg[t] \in Word /\ word'[arg[t]] = word[arg[t]] \cup {"LOCKED", "WAITING"}
        /\ (\A k \in Word : k # arg[t] => word'[k] = word[k] /\ waiters'[k] = waiters[k])
        /\ \A u \in Thread : u # t => pc'[u] \notin InTable
    BY <1>7, <1>f DEF Lock, Prepared, FrameOK
  <2>1. \A m \in Word : waiters'[m] # << >> => "WAITING" \in word'[m]
    BY <2>0 DEF FlagsOK
  <2>2. pc'[t] \in Clearing => waiters'[arg'[t]] = << >>
    BY <1>7, <2>0 DEF Lock, Clearing, MayClearWaiting
  <2>3. pc'[t] # "switch_unblock_clear"
    BY <1>7 DEF Lock
  <2> QED BY <2>0, <2>1, <2>2, <2>3 DEF FlagsOK, Clearing, InTable
<1>8. CASE LockClear(t)
  BY <1>8, <1>h DEF LockClear, FlagsOK, Clearing, InTable
<1>9. CASE WaitNotified(t)
  BY <1>9, <1>f DEF WaitNotified, FlagsOK, Clearing, InTable
<1>10. CASE WaitTimedOut(t)
  <2> DEFINE m == arg[t]
  <2>0. m \in Word /\ \A u \in Thread : pc'[u] \notin InTable
    BY <1>10, <1>f DEF WaitTimedOut, FrameOK, InTable
  <2>1. PICK i \in 1..Len(waiters[m]) :
          /\ waiters[m][i] = t
          /\ waiters' = [waiters EXCEPT ![m] = RemoveAt(waiters[m], i)]
          /\ word' = [word EXCEPT ![m] = TimeoutWord(word[m], RemoveAt(waiters[m], i))]
    BY <1>10 DEF WaitTimedOut
  <2> HIDE DEF m
  <2>2. waiters[m] # << >> /\ \A k \in Word : k # m => waiters'[k] = waiters[k]
    BY <2>0, <2>1, RemoveQueued
  <2>3. waiters'[m] # << >> => word'[m] = word[m]
    BY <2>0, <2>1 DEF TimeoutWord
  <2>4. \A k \in Word : k # m => word'[k] = word[k]
    BY <2>0, <2>1
  <2> QED BY <2>0, <2>2, <2>3, <2>4 DEF FlagsOK, Clearing, InTable
<1>11. CASE Unblock(t)
  <2> DEFINE m == arg[t]
  <2>0. m \in Word /\ \A u \in Thread : pc'[u] \in InTable => u = t /\ pc'[t] = "unblock_clear"
    BY <1>11, <1>f DEF Unblock, FrameOK, InTable
  <2>1. pc'[t] = "unblock_clear" => arg'[t] = m /\ waiters'[m] = << >>
    BY <1>11 DEF Unblock
  <2>2. CASE UnblockIdle(m) \/ UNCHANGED <<word, waiters>>
    <3>1. \A k \in Word : waiters'[k] # << >> => "WAITING" \in word'[k]
      BY <2>0, <2>2 DEF UnblockIdle, FlagsOK
    <3> QED BY <2>0, <2>1, <3>1 DEF FlagsOK, Clearing, InTable
  <2>3. CASE \E everyone \in BOOLEAN : UnblockWake(m, everyone)
    <3>1. waiters[m] # << >> /\ \A k \in Word : k # m => waiters'[k] = waiters[k]
      BY <2>0, <2>3, WakeQueued DEF UnblockWake
    <3>2. \A k \in Word : "WAITING" \in word[k] => "WAITING" \in word'[k]
      BY <2>0, <2>3 DEF UnblockWake
    <3>3. \A k \in Word : waiters'[k] # << >> => "WAITING" \in word'[k]
      BY <3>1, <3>2 DEF FlagsOK
    <3> QED BY <2>0, <2>1, <3>3 DEF FlagsOK, Clearing, InTable
  <2> QED BY <2>2, <2>3, <1>11 DEF Unblock, UnblockBeaten
<1>12. CASE UnblockClear(t)
  BY <1>12, <1>h DEF UnblockClear, FlagsOK, Clearing, InTable
<1>13. CASE SwitchPrepare(t)
  <2>0. arg[t] \in Word /\ word'[arg[t]] = word[arg[t]] \cup {"LOCKED", "WAITING"}
        /\ (\A k \in Word : k # arg[t] => word'[k] = word[k] /\ waiters'[k] = waiters[k])
        /\ (\A u \in Thread : u # t => pc'[u] \notin InTable)
        /\ arg' = arg
    BY <1>13, <1>f DEF SwitchPrepare, Prepared, FrameOK
  <2>1. \A m \in Word : waiters'[m] # << >> => "WAITING" \in word'[m]
    BY <2>0 DEF FlagsOK
  <2>2. pc'[t] = "switch_clear" => waiters'[arg[t]] = << >>
    BY <1>13, <2>0 DEF SwitchPrepare, MayClearWaiting
  <2>3. pc'[t] \in {"switch_clear", "switch_release"}
    BY <1>13 DEF SwitchPrepare
  <2> QED BY <2>0, <2>1, <2>2, <2>3 DEF FlagsOK, Clearing, InTable
<1>14. CASE SwitchClear(t)
  BY <1>14, <1>h DEF SwitchClear, FlagsOK, Clearing, InTable
<1>15. CASE SwitchRelease(t)
  BY <1>15, <1>h DEF SwitchRelease, FlagsOK, Clearing, InTable
<1>16. CASE SwitchUnblock(t)
  <2> DEFINE m == frm[t]
  <2>0. m \in Word /\ \A u \in Thread : pc'[u] \in InTable => u = t
    BY <1>16, <1>h DEF SwitchUnblock, FrameOK, InTable, Switching
  <2>1. /\ pc'[t] \in {"switch_end", "switch_unblock_clear"} /\ frm'[t] = m
        /\ pc'[t] = "switch_unblock_clear" => waiters'[m] = << >>
    BY <1>16 DEF SwitchUnblock
  <2>2. \A k \in Word : waiters'[k] # << >> => "WAITING" \in word'[k]
    <3>1. CASE UNCHANGED <<word, waiters>>
      BY <3>1 DEF FlagsOK
    <3>2. CASE UnblockWake(m, FALSE)
      <4>1. waiters[m] # << >> /\ \A k \in Word : k # m => waiters'[k] = waiters[k]
        BY <2>0, <3>2, WakeQueued DEF UnblockWake
      <4>2. \A k \in Word : "WAITING" \in word[k] => "WAITING" \in word'[k]
        BY <2>0, <3>2 DEF UnblockWake
      <4> QED BY <4>1, <4>2 DEF FlagsOK
    <3> QED BY <3>1, <3>2, <1>16 DEF SwitchUnblock, UnblockBeaten
  <2> QED BY <2>0, <2>1, <2>2 DEF FlagsOK, Clearing, InTable
<1>17. CASE SwitchUnblockClear(t)
  BY <1>17, <1>h DEF SwitchUnblockClear, FlagsOK, Clearing, InTable, FrameOK, Switching
<1>18. CASE SwitchEnd(t)
  BY <1>18, <1>h DEF SwitchEnd, FlagsOK, Clearing, InTable
<1> QED
  BY <1>a, <1>1, <1>2, <1>3, <1>4, <1>5, <1>6, <1>7, <1>8, <1>9, <1>10, <1>11,
     <1>12, <1>13, <1>14, <1>15, <1>16, <1>17, <1>18 DEF App, Loader

\* Every action keeps the entries with the deques.
LEMMA TableStep ==
    ASSUME TypeOK, FrameOK, QueueOK, WaitersQueued, FlagsOK, TableOK, Next
    PROVE  TableOK'
<1> USE DEF TypeOK, Word
<1>a. PICK t \in Thread : App(t) \/ Loader(t) \/ WaitTimedOut(t)
  BY DEF Next
<1>n. None \notin Thread
  BY ConstAssumption
<1>r. \A u \in Thread, m \in Word : Revisits(u, m) => pc[u] \in InTable
  BY DEF Revisits, InTable
<1>f. tableLock = None => \A m \in Word : m \in table <=> waiters[m] # << >>
  BY <1>n, <1>r DEF FrameOK, TableOK
<1>h. pc[t] \in InTable =>
        \A m \in Word : m \in table /\ waiters[m] = << >> => Revisits(t, m)
  BY <1>r DEF FrameOK, TableOK
<1>w. \A m \in Word : waiters[m] # << >> => m \in table
  BY DEF TableOK
\* What to show: of the words, and of the step.
<1>q. ASSUME \A m \in Word : /\ waiters'[m] # << >> => m \in table'
                             /\ m \in table' /\ waiters'[m] = << >> => Revisits(t, m)'
      PROVE  TableOK'
  BY <1>q DEF TableOK
<1> USE DEF Goto, Return, Call, frame, Acquired
<1>1. ASSUME NEW m \in Mutex, AppFastLock(t, m) PROVE TableOK'
  BY <1>1 DEF AppFastLock, TableOK, Revisits, InTable
<1>2. ASSUME NEW m \in Mutex, NEW finite \in BOOLEAN, AppSlowLock(t, m, finite) PROVE TableOK'
  BY <1>2 DEF AppSlowLock, TableOK, Revisits, InTable
<1>3. ASSUME NEW m \in Mutex, AppUnlock(t, m) PROVE TableOK'
  BY <1>3 DEF AppUnlock, TableOK, Revisits, InTable
<1>4. ASSUME NEW m \in Mutex, AppDisable(t, m) PROVE TableOK'
  BY <1>4 DEF AppDisable, TableOK, Revisits, InTable
<1>5. ASSUME NEW m \in Mutex, NEW to \in Word, NEW finite \in BOOLEAN, AppSwitch(t, m, to, finite) PROVE TableOK'
  BY <1>5 DEF AppSwitch, TableOK, Revisits, InTable
<1>6. ASSUME NEW c \in Cond, NEW everyone \in BOOLEAN, AppSignal(t, c, everyone) PROVE TableOK'
  BY <1>6 DEF AppSignal, TableOK, Revisits, InTable
<1>7. CASE Lock(t)
  <2>0. arg[t] \in Word /\ tableLock = None
    BY <1>7 DEF Lock, FrameOK
  <2>1. CASE Takes(arg[t]) /\ MayClearWaiting(arg[t])
    <3>1. /\ table' = table \cup {arg[t]} /\ waiters' = waiters
          /\ pc'[t] = "lock_clear" /\ arg'[t] = arg[t]
      BY <1>7, <2>1 DEF Lock
    <3> QED BY <2>0, <3>1, <1>f, <1>q DEF Revisits, InTable
  <2>2. CASE Takes(arg[t]) /\ ~MayClearWaiting(arg[t])
    <3>1. table' = PutEntry(table \cup {arg[t]}, arg[t], waiters[arg[t]]) /\ waiters' = waiters
      BY <1>7, <2>2 DEF Lock
    <3> QED BY <2>0, <3>1, <1>f, <1>q DEF PutEntry
  <2>3. CASE ~Takes(arg[t])
    <3>1. waiters' = [waiters EXCEPT ![arg[t]] = Append(waiters[arg[t]], t)]
          /\ table' = table \cup {arg[t]}
      BY <1>7, <2>3 DEF Lock
    <3>2. waiters'[arg[t]] # << >> /\ \A k \in Word : k # arg[t] => waiters'[k] = waiters[k]
      BY <2>0, <3>1, AppendQueued
    <3> QED BY <2>0, <3>1, <3>2, <1>f, <1>q
  <2> QED BY <2>1, <2>2, <2>3
<1>8. CASE LockClear(t)
  BY <1>8, <1>h, <1>w, <1>q DEF LockClear, PutEntry, Revisits, InTable
<1>9. CASE WaitNotified(t)
  BY <1>9, <1>f, <1>q DEF WaitNotified, PutEntry
<1>10. CASE WaitTimedOut(t)
  <2> DEFINE m == arg[t]
  <2>0. m \in Word /\ tableLock = None
    BY <1>10 DEF WaitTimedOut, FrameOK
  <2>1. PICK i \in 1..Len(waiters[m]) :
          /\ waiters[m][i] = t
          /\ waiters' = [waiters EXCEPT ![m] = RemoveAt(waiters[m], i)]
          /\ table' = PutEntry(table, m, RemoveAt(waiters[m], i))
    BY <1>10 DEF WaitTimedOut
  <2> HIDE DEF m
  <2>2. waiters[m] # << >> /\ \A k \in Word : k # m => waiters'[k] = waiters[k]
    BY <2>0, <2>1, RemoveQueued
  <2>3. table' = PutEntry(table, m, waiters'[m])
    BY <2>0, <2>1
  <2> QED BY <2>0, <2>2, <2>3, <1>f, <1>q DEF PutEntry
<1>11. CASE Unblock(t)
  <2> DEFINE m == arg[t]
  <2>0. m \in Word /\ tableLock = None
    BY <1>11 DEF Unblock, FrameOK
  <2>1. CASE waiters' = waiters /\ table' = PutEntry(table, m, waiters[m])
    BY <2>0, <2>1, <1>f, <1>q DEF PutEntry
  <2>2. CASE /\ \E everyone \in BOOLEAN : UnblockWake(m, everyone)
             /\ table' = table
             /\ waiters'[m] = << >> => pc'[t] = "unblock_clear" /\ arg'[t] = m
    <3>1. waiters[m] # << >> /\ \A k \in Word : k # m => waiters'[k] = waiters[k]
      BY <2>0, <2>2, WakeQueued DEF UnblockWake
    <3>2. waiters'[m] = << >> => Revisits(t, m)'
      BY <2>2 DEF Revisits, InTable
    <3> QED BY <2>0, <2>2, <3>1, <3>2, <1>f, <1>q
  <2> QED BY <2>1, <2>2, <1>11 DEF Unblock, UnblockIdle, UnblockBeaten
<1>12. CASE UnblockClear(t)
  BY <1>12, <1>h, <1>w, <1>q DEF UnblockClear, PutEntry, Revisits, InTable
<1>13. CASE SwitchPrepare(t)
  <2>0. /\ arg[t] \in Word /\ tableLock = None /\ table' = table \cup {arg[t]}
        /\ arg'[t] = arg[t] /\ pc'[t] \in {"switch_clear", "switch_release"}
    BY <1>13 DEF SwitchPrepare, FrameOK
  <2>1. Revisits(t, arg[t])'
    BY <2>0 DEF Revisits, InTable
  <2>2. \A k \in Word : k # arg[t] => waiters'[k] = waiters[k]
    BY <1>13 DEF SwitchPrepare
  <2> QED BY <2>0, <2>1, <2>2, <1>f, <1>q
<1>14. CASE SwitchClear(t)
  BY <1>14, <1>h, <1>w, <1>q DEF SwitchClear, Revisits, InTable
<1>15. CASE SwitchRelease(t)
  BY <1>15, <1>h, <1>w, <1>q DEF SwitchRelease, Revisits, InTable
<1>16. CASE SwitchUnblock(t)
  <2> DEFINE m == frm[t]
  <2>0. /\ m \in Word /\ pc[t] = "switch_unblock" /\ table' = table
        /\ arg'[t] = arg[t] /\ frm'[t] = m
        /\ pc'[t] \in {"switch_end", "switch_unblock_clear"}
    BY <1>16 DEF SwitchUnblock, FrameOK, Switching
  <2>1. \A k \in Word : k \in table /\ waiters[k] = << >> => arg[t] = k
    BY <2>0, <1>h DEF Revisits, InTable
  <2>2. \A k \in Word : arg[t] = k => Revisits(t, k)'
    BY <2>0 DEF Revisits, InTable
  <2>3. CASE UNCHANGED waiters
    BY <2>0, <2>1, <2>2, <2>3, <1>w, <1>q
  <2>4. CASE UnblockWake(m, FALSE)
    <3>1. waiters[m] # << >> /\ \A k \in Word : k # m => waiters'[k] = waiters[k]
      BY <2>0, <2>4, WakeQueued DEF UnblockWake
    <3>3. waiters'[m] = << >> => pc'[t] = "switch_unblock_clear"
      BY <1>16, <3>1, <2>4 DEF SwitchUnblock, UnblockBeaten, UnblockWake
    <3>2. waiters'[m] = << >> => Revisits(t, m)'
      BY <2>0, <3>3 DEF Revisits
    <3> QED BY <2>0, <2>1, <2>2, <3>1, <3>2, <1>w, <1>q
  <2> QED BY <2>3, <2>4, <1>16 DEF SwitchUnblock, UnblockBeaten
<1>17. CASE SwitchUnblockClear(t)
  <2>0. /\ frm[t] \in Word /\ pc[t] = "switch_unblock_clear" /\ arg'[t] = arg[t]
        /\ pc'[t] = "switch_end" /\ waiters' = waiters
        /\ table' = PutEntry(table, frm[t], waiters[frm[t]])
    BY <1>17 DEF SwitchUnblockClear, FrameOK, Switching
  <2>1. \A k \in Word : k \in table /\ waiters[k] = << >> => arg[t] = k \/ frm[t] = k
    BY <2>0, <1>h DEF Revisits, InTable
  <2>2. \A k \in Word : arg[t] = k => Revisits(t, k)'
    BY <2>0 DEF Revisits, InTable
  <2> QED BY <2>0, <2>1, <2>2, <1>w, <1>q DEF PutEntry
<1>18. CASE SwitchEnd(t)
  <2>0. arg[t] \in Word /\ pc[t] = "switch_end" /\ waiters' = waiters
    BY <1>18 DEF SwitchEnd, FrameOK
  <2>1. \A k \in Word : k \in table /\ waiters[k] = << >> => arg[t] = k
    BY <2>0, <1>h DEF Revisits, InTable
  <2>2. CASE got[t]
    BY <1>18, <2>0, <2>1, <2>2, <1>w, <1>q DEF SwitchEnd, PutEntry
  <2>3. CASE ~got[t]
    <3>1. Queued(t, arg[t])
      BY <2>0, <2>3 DEF WaitersQueued, Waits, InTable
    <3>2. waiters[arg[t]] # << >>
      BY <3>1, <2>0, EmptySeq DEF Queued
    <3>3. table' = table
      BY <1>18, <2>3 DEF SwitchEnd
    <3> QED BY <2>0, <2>1, <3>2, <3>3, <1>w, <1>q
  <2> QED BY <2>2, <2>3
<1> QED
  BY <1>a, <1>1, <1>2, <1>3, <1>4, <1>5, <1>6, <1>7, <1>8, <1>9, <1>10, <1>11,
     <1>12, <1>13, <1>14, <1>15, <1>16, <1>17, <1>18 DEF App, Loader

\* The thread is about to unblock the waiters of m.
Rescues(t, m) == \/ pc[t] = "unblock" /\ arg[t] = m
                 \/ pc[t] = "switch_unblock" /\ frm[t] = m

\* Every action keeps a rescuer for the waiters of a free mutex: whoever clears
\* LOCKED sees WAITING and calls unblock, and unblock leaves LOCKED set or
\* nobody waiting.
LEMMA StrandedStep ==
    ASSUME TypeOK, FrameOK, QueueOK, WaitersQueued, FlagsOK, TableOK, NoStrandedWaiter, Next
    PROVE  NoStrandedWaiter'
<1> USE DEF TypeOK, Word
<1>a. PICK t \in Thread : App(t) \/ Loader(t) \/ WaitTimedOut(t)
  BY DEF Next
<1>c. Mutex \cap Cond = {}
  BY ConstAssumption
<1>s. \A m \in Mutex : waiters[m] # << >> /\ "LOCKED" \notin word[m] => \E u \in Thread : Rescues(u, m)
  BY DEF NoStrandedWaiter, Rescues
<1>q. ASSUME \A m \in Mutex : waiters'[m] # << >> /\ "LOCKED" \notin word'[m] =>
                                \E u \in Thread : Rescues(u, m)'
      PROVE  NoStrandedWaiter'
  BY <1>q DEF NoStrandedWaiter, Rescues
\* A step that neither adds waiters nor clears LOCKED, by no rescuer.
<1>k. ASSUME \A m \in Mutex : waiters'[m] # << >> => waiters[m] # << >> \/ "LOCKED" \in word'[m],
             \A m \in Mutex : "LOCKED" \in word[m] => "LOCKED" \in word'[m],
             \A u \in Thread, m \in Mutex : Rescues(u, m) => Rescues(u, m)'
      PROVE  NoStrandedWaiter'
  BY <1>k, <1>s, <1>q
<1> USE DEF Goto, Return, Call, frame, Acquired
<1>1. ASSUME NEW m \in Mutex, AppFastLock(t, m) PROVE NoStrandedWaiter'
  BY <1>1, <1>k DEF AppFastLock, Rescues
<1>2. ASSUME NEW m \in Mutex, NEW finite \in BOOLEAN, AppSlowLock(t, m, finite) PROVE NoStrandedWaiter'
  BY <1>2, <1>k DEF AppSlowLock, Rescues
<1>3. ASSUME NEW m \in Mutex, AppUnlock(t, m) PROVE NoStrandedWaiter'
  <2>1. \A u \in Thread, k \in Mutex : Rescues(u, k) => Rescues(u, k)'
    BY <1>3 DEF AppUnlock, Rescues
  <2>2. waiters[m] # << >> => Rescues(t, m)'
    BY <1>3 DEF AppUnlock, Rescues, FlagsOK
  <2>3. waiters' = waiters /\ \A k \in Mutex : k # m => word'[k] = word[k]
    BY <1>3 DEF AppUnlock
  <2> QED BY <2>1, <2>2, <2>3, <1>s, <1>q
<1>4. ASSUME NEW m \in Mutex, AppDisable(t, m) PROVE NoStrandedWaiter'
  BY <1>4, <1>k DEF AppDisable, Rescues
<1>5. ASSUME NEW m \in Mutex, NEW to \in Word, NEW finite \in BOOLEAN, AppSwitch(t, m, to, finite) PROVE NoStrandedWaiter'
  BY <1>5, <1>k DEF AppSwitch, Rescues
<1>6. ASSUME NEW c \in Cond, NEW everyone \in BOOLEAN, AppSignal(t, c, everyone) PROVE NoStrandedWaiter'
  BY <1>6, <1>k, <1>c DEF AppSignal, Rescues
<1>7. CASE Lock(t)
  <2>0. arg[t] \in Word /\ pc[t] = "lock" /\ word'[arg[t]] = word[arg[t]] \cup {"LOCKED", "WAITING"}
        /\ (\A k \in Word : k # arg[t] => word'[k] = word[k] /\ waiters'[k] = waiters[k])
    BY <1>7 DEF Lock, Prepared, FrameOK
  <2>1. \A u \in Thread, m \in Mutex : Rescues(u, m) => Rescues(u, m)'
    BY <1>7 DEF Lock, Rescues
  <2> QED BY <2>0, <2>1, <1>k
<1>8. CASE LockClear(t)
  BY <1>8, <1>k DEF LockClear, Rescues
<1>9. CASE WaitNotified(t)
  BY <1>9, <1>k DEF WaitNotified, Rescues
<1>10. CASE WaitTimedOut(t)
  <2> DEFINE m == arg[t]
  <2>0. m \in Word /\ \A u \in Thread, k \in Mutex : Rescues(u, k) => Rescues(u, k)'
    BY <1>10 DEF WaitTimedOut, FrameOK, Rescues
  <2>1. PICK i \in 1..Len(waiters[m]) :
          /\ waiters[m][i] = t
          /\ waiters' = [waiters EXCEPT ![m] = RemoveAt(waiters[m], i)]
          /\ word' = [word EXCEPT ![m] = TimeoutWord(word[m], RemoveAt(waiters[m], i))]
    BY <1>10 DEF WaitTimedOut
  <2> HIDE DEF m
  <2>2. waiters[m] # << >> /\ \A k \in Word : k # m => waiters'[k] = waiters[k]
    BY <2>0, <2>1, RemoveQueued
  <2>3. \A k \in Mutex : "LOCKED" \in word[k] => "LOCKED" \in word'[k]
    BY <2>0, <2>1 DEF TimeoutWord
  <2> QED BY <2>0, <2>2, <2>3, <1>k
<1>11. CASE Unblock(t)
  <2> DEFINE m == arg[t]
  <2>0. /\ m \in Word /\ (m \in Mutex => pc[t] = "unblock")
        /\ \A u \in Thread, k \in Mutex : Rescues(u, k) /\ ~(u = t /\ k = m) => Rescues(u, k)'
    BY <1>11, <1>c DEF Unblock, FrameOK, Rescues
  <2>1. /\ \A k \in Mutex : k # m => word'[k] = word[k] /\ waiters'[k] = waiters[k]
        /\ m \in Mutex => waiters'[m] = << >> \/ "LOCKED" \in word'[m]
    <3>1. CASE UnblockIdle(m)
      BY <2>0, <3>1 DEF UnblockIdle
    <3>2. CASE UnblockBeaten(m, pc[t] = "unblock_all")
      BY <2>0, <3>2 DEF UnblockBeaten, HandsOff
    <3>3. CASE UnblockWake(m, pc[t] = "unblock_all")
      BY <2>0, <3>3 DEF UnblockWake
    <3> QED BY <3>1, <3>2, <3>3, <1>11 DEF Unblock
  <2> QED BY <2>0, <2>1, <1>s, <1>q
<1>12. CASE UnblockClear(t)
  BY <1>12, <1>k DEF UnblockClear, Rescues
<1>13. CASE SwitchPrepare(t)
  <2>0. arg[t] \in Word /\ pc[t] = "switch" /\ word'[arg[t]] = word[arg[t]] \cup {"LOCKED", "WAITING"}
        /\ (\A k \in Word : k # arg[t] => word'[k] = word[k] /\ waiters'[k] = waiters[k])
    BY <1>13 DEF SwitchPrepare, Prepared, FrameOK
  <2>1. \A u \in Thread, m \in Mutex : Rescues(u, m) => Rescues(u, m)'
    BY <1>13 DEF SwitchPrepare, Rescues
  <2> QED BY <2>0, <2>1, <1>k
<1>14. CASE SwitchClear(t)
  BY <1>14, <1>k DEF SwitchClear, Rescues
<1>15. CASE SwitchRelease(t)
  <2>0. frm[t] \in Mutex /\ waiters' = waiters /\ \A k \in Mutex : k # frm[t] => word'[k] = word[k]
    BY <1>15 DEF SwitchRelease, FrameOK, Switching
  <2>1. \A u \in Thread, k \in Mutex : Rescues(u, k) => Rescues(u, k)'
    BY <1>15 DEF SwitchRelease, Rescues
  <2>2. \A k \in Mutex : k = frm[t] /\ waiters[k] # << >> => Rescues(t, k)'
    <3>1. waiters[frm[t]] # << >> => MustUnblock(frm[t])
      BY <2>0 DEF MustUnblock, FlagsOK, TableOK
    <3>2. /\ frm'[t] = frm[t]
          /\ MustUnblock(frm[t]) => pc'[t] = "switch_unblock"
      BY <1>15 DEF SwitchRelease
    <3> QED BY <3>1, <3>2 DEF Rescues
  <2> QED BY <2>0, <2>1, <2>2, <1>s, <1>q
<1>16. CASE SwitchUnblock(t)
  <2> DEFINE m == frm[t]
  <2>0. /\ m \in Word
        /\ \A u \in Thread, k \in Mutex : Rescues(u, k) /\ ~(u = t /\ k = m) => Rescues(u, k)'
    BY <1>16 DEF SwitchUnblock, FrameOK, Switching, Rescues
  <2>1. /\ \A k \in Mutex : k # m => word'[k] = word[k] /\ waiters'[k] = waiters[k]
        /\ m \in Mutex => waiters'[m] = << >> \/ "LOCKED" \in word'[m]
    <3>1. CASE UnblockBeaten(m, FALSE)
      BY <2>0, <3>1 DEF UnblockBeaten, HandsOff
    <3>2. CASE UnblockWake(m, FALSE)
      BY <2>0, <3>2 DEF UnblockWake
    <3> QED BY <3>1, <3>2, <1>16 DEF SwitchUnblock
  <2> QED BY <2>0, <2>1, <1>s, <1>q
<1>17. CASE SwitchUnblockClear(t)
  BY <1>17, <1>k DEF SwitchUnblockClear, Rescues
<1>18. CASE SwitchEnd(t)
  BY <1>18, <1>k DEF SwitchEnd, Rescues
<1> QED
  BY <1>a, <1>1, <1>2, <1>3, <1>4, <1>5, <1>6, <1>7, <1>8, <1>9, <1>10, <1>11,
     <1>12, <1>13, <1>14, <1>15, <1>16, <1>17, <1>18 DEF App, Loader

\* The invariant is inductive.
LEMMA NextUnstranded ==
    ASSUME Unstranded, [Next]_vars
    PROVE  Unstranded'
<1>1. Inductive'
  BY NextInductive DEF Unstranded
<1>2. CASE UNCHANGED vars
  BY <1>1, <1>2 DEF vars, Unstranded, WaitersQueued, Waits, Queued, FlagsOK, TableOK, Revisits, NoStrandedWaiter
<1>3. CASE Next
  BY <1>1, <1>3, QueuedStep, FlagsStep, TableStep, StrandedStep DEF Unstranded, Inductive
<1> QED BY <1>2, <1>3

\* It says what NobodyStranded does.
LEMMA UnstrandedSuffices == Unstranded => NobodyStranded
<1> SUFFICES ASSUME Unstranded PROVE NobodyStranded
  OBVIOUS
<1> USE DEF Unstranded, Inductive
<1>1. ASSUME NEW t \in Thread, NEW m \in Word
      PROVE  Queued(t, m) <=> Waits(t) /\ arg[t] = m /\ ~notified[t]
  BY DEF QueueOK, WaitersQueued, Queued
<1>2. \A m \in Word : \A i, j \in 1..Len(waiters[m]) : waiters[m][i] = waiters[m][j] => i = j
  BY DEF QueueOK
<1>3. ASSUME tableLock = None PROVE table = {m \in Word : waiters[m] # << >>}
  <2>1. \A t \in Thread, m \in Word : ~Revisits(t, m)
    BY <1>3, ConstAssumption DEF FrameOK, Revisits, InTable
  <2> QED BY <2>1 DEF TableOK, TypeOK
<1> QED BY <1>1, <1>2, <1>3 DEF NobodyStranded, QueuesExact

\* Nobody sleeps on a free mutex that nobody is about to unblock, every waiter is
\* in its deque exactly until it is notified or gives up, and the table has an
\* entry for exactly the words with waiters whenever its lock is free, whatever
\* locks, timeouts, hand-offs, switches and signals overlap (loader_mutex.cpp).
THEOREM NobodyStrandedCorrect == Spec => []NobodyStranded
<1>1. Init => Unstranded
  <2> SUFFICES ASSUME Init PROVE Unstranded
    OBVIOUS
  <2>1. Inductive
    BY InitInductive
  <2> QED BY <2>1 DEF Init, Unstranded, WaitersQueued, Waits, InTable, FlagsOK, Clearing, TableOK, NoStrandedWaiter, Word
<1>2. Unstranded /\ [Next]_vars => Unstranded'
  BY NextUnstranded
<1>3. Unstranded => NobodyStranded
  BY UnstrandedSuffices
<1> QED BY <1>1, <1>2, <1>3, PTL DEF Spec

-----------------------------------------------------------------------------
(* The mutexes that are never disabled implement the lock service. *)

\* Only a mutex of Disableable is switched off.
Steady == \A m \in Lasting : "DISABLED" \notin word[m]

\* A step leaves the owners alone, gives a free mutex to one thread, or takes
\* a mutex from its owner.
Kept == \A m \in Lasting, u \in Thread : Owns(u, m)' <=> Owns(u, m)
Gained(t, k) ==
    /\ \A u \in Thread : ~Owns(u, k)
    /\ \A m \in Lasting, u \in Thread : Owns(u, m)' <=> Owns(u, m) \/ (u = t /\ m = k)
Lost(t, k) ==
    /\ Owns(t, k)
    /\ \A m \in Lasting, u \in Thread : Owns(u, m)' <=> Owns(u, m) /\ ~(u = t /\ m = k)
ServiceStep == Kept \/ \E t \in Thread, k \in Lasting : Gained(t, k) \/ Lost(t, k)

\* Every action leaves the lasting mutexes enabled.
LEMMA SteadyStep ==
    ASSUME TypeOK, FrameOK, Steady, [Next]_vars
    PROVE  Steady'
<1> USE DEF TypeOK, Word, Lasting
<1>0. CASE UNCHANGED vars
  BY <1>0 DEF vars, Steady
<1> SUFFICES ASSUME Next PROVE Steady'
  BY <1>0
<1>a. PICK t \in Thread : App(t) \/ Loader(t) \/ WaitTimedOut(t)
  BY DEF Next
<1>1. ASSUME NEW m \in Mutex, AppFastLock(t, m) PROVE Steady'
  BY <1>1 DEF AppFastLock, Steady
<1>2. ASSUME NEW m \in Mutex, NEW finite \in BOOLEAN, AppSlowLock(t, m, finite) PROVE Steady'
  BY <1>2 DEF AppSlowLock, Steady
<1>3. ASSUME NEW m \in Mutex, AppUnlock(t, m) PROVE Steady'
  BY <1>3 DEF AppUnlock, Steady
<1>4. ASSUME NEW m \in Mutex, AppDisable(t, m) PROVE Steady'
  BY <1>4 DEF AppDisable, Steady
<1>5. ASSUME NEW m \in Mutex, NEW to \in Word, NEW finite \in BOOLEAN, AppSwitch(t, m, to, finite) PROVE Steady'
  BY <1>5 DEF AppSwitch, Steady
<1>6. ASSUME NEW c \in Cond, NEW everyone \in BOOLEAN, AppSignal(t, c, everyone) PROVE Steady'
  BY <1>6 DEF AppSignal, Steady
<1>7. CASE Lock(t)
  BY <1>7 DEF Lock, Steady, Prepared
<1>8. CASE LockClear(t)
  BY <1>8 DEF LockClear, Steady
<1>9. CASE WaitNotified(t)
  BY <1>9 DEF WaitNotified, Steady
<1>10. CASE WaitTimedOut(t)
  BY <1>10 DEF WaitTimedOut, Steady, TimeoutWord
<1>11. CASE Unblock(t)
  BY <1>11 DEF Unblock, Steady, UnblockIdle, UnblockBeaten, UnblockWake, FrameOK
<1>12. CASE UnblockClear(t)
  BY <1>12 DEF UnblockClear, Steady
<1>13. CASE SwitchPrepare(t)
  BY <1>13 DEF SwitchPrepare, Steady, Prepared, FrameOK
<1>14. CASE SwitchClear(t)
  BY <1>14 DEF SwitchClear, Steady
<1>15. CASE SwitchRelease(t)
  BY <1>15 DEF SwitchRelease, Steady
<1>16. CASE SwitchUnblock(t)
  <2>1. word' = word \/ word' = [word EXCEPT ![frm[t]] = @ \cup {"LOCKED"}]
    BY <1>16 DEF SwitchUnblock, UnblockBeaten, UnblockWake
  <2> QED BY <2>1 DEF Steady
<1>17. CASE SwitchUnblockClear(t)
  BY <1>17 DEF SwitchUnblockClear, Steady
<1>18. CASE SwitchEnd(t)
  BY <1>18 DEF SwitchEnd, Steady
<1> QED
  BY <1>a, <1>1, <1>2, <1>3, <1>4, <1>5, <1>6, <1>7, <1>8, <1>9, <1>10, <1>11,
     <1>12, <1>13, <1>14, <1>15, <1>16, <1>17, <1>18 DEF App, Loader

\* A hand-off of a lasting mutex is to the first waiter, and one of another
\* word gives no lasting mutex away.
LEMMA WakeOwners ==
    ASSUME TypeOK, QueueOK, OwnedIsLocked, Steady, NEW m \in Word, NEW everyone \in BOOLEAN,
           UnblockWake(m, everyone), m \in Mutex => ~everyone,
           \A k \in Lasting, u \in Thread : Owns(u, k)' <=>
               Owns(u, k) \/ (arg[u] = k /\ Waits(u) /\ notified'[u])
    PROVE  ServiceStep
<1> DEFINE h == Head(waiters[m])
<1>1. h \in Thread /\ Waits(h) /\ arg[h] = m
  <2>1. waiters[m] \in Seq(Thread) /\ waiters[m] # << >>
    BY DEF TypeOK, UnblockWake
  <2>2. Len(waiters[m]) \in Nat \ {0} /\ h = waiters[m][1] /\ h \in Thread
    BY <2>1, TailFacts
  <2> QED BY <2>2 DEF QueueOK
<1>2. \A k \in Lasting, u \in Thread : arg[u] = k /\ Waits(u) /\ notified[u] => Owns(u, k)
  BY DEF Waits, Owns
<1>3. CASE m \in Lasting
  <2>1. ~everyone /\ m \in Mutex /\ "DISABLED" \notin word[m] /\ "LOCKED" \notin word[m]
    BY <1>3 DEF Lasting, Steady, UnblockWake, HandsOff
  <2>2. \A u \in Thread : ~Owns(u, m)
    BY <2>1 DEF OwnedIsLocked
  <2>3. notified'[h]
    BY <1>1, <2>1 DEF UnblockWake, Notify
  <2>4. \A u \in Thread : notified'[u] => notified[u] \/ u = h
    BY <2>1, WakeFacts
  <2>5. ASSUME NEW k \in Lasting, NEW u \in Thread, ~Owns(u, k)
        PROVE  Owns(u, k)' <=> u = h /\ k = m
    BY <2>5, <1>1, <1>2, <2>3, <2>4
  <2>6. \A k \in Lasting, u \in Thread : Owns(u, k) => Owns(u, k)'
    OBVIOUS
  <2>7. Gained(h, m)
    BY <2>2, <2>5, <2>6 DEF Gained
  <2> QED BY <2>7, <1>1, <1>3 DEF ServiceStep
<1>4. CASE m \notin Lasting
  <2>1. ASSUME NEW k \in Lasting, NEW u \in Thread, arg[u] = k, Waits(u), notified'[u]
        PROVE  Owns(u, k)
    BY <2>1, <1>2, <1>4, WakeFacts
  <2> QED BY <2>1 DEF ServiceStep, Kept
<1> QED BY <1>3, <1>4

\* Every action is a step of the lock service.
LEMMA OwnersStep ==
    ASSUME Inductive, Steady, Next
    PROVE  ServiceStep
<1> USE DEF Inductive, TypeOK, Word, Lasting
<1>a. PICK t \in Thread : App(t) \/ Loader(t) \/ WaitTimedOut(t)
  BY DEF Next
<1>c. Mutex \cap Cond = {}
  BY ConstAssumption
<1>k. Kept => ServiceStep
  BY DEF ServiceStep
<1>f. \A k \in Lasting : "LOCKED" \notin word[k] => \A u \in Thread : ~Owns(u, k)
  BY DEF OwnedIsLocked, Steady
<1> USE DEF Goto, Return, Call, frame, Acquired
<1>1. ASSUME NEW m \in Mutex, AppFastLock(t, m) PROVE ServiceStep
  <2>1. \A k \in Lasting, u \in Thread : Owns(u, k)' <=> Owns(u, k) \/ (u = t /\ k = m)
    BY <1>1 DEF AppFastLock, Owns
  <2>2. "LOCKED" \notin word[m]
    BY <1>1 DEF AppFastLock
  <2>3. m \in Lasting => Gained(t, m)
    BY <2>1, <2>2, <1>f DEF Gained
  <2>4. m \notin Lasting => Kept
    BY <2>1 DEF Kept
  <2> QED BY <2>3, <2>4 DEF ServiceStep
<1>2. ASSUME NEW m \in Mutex, NEW finite \in BOOLEAN, AppSlowLock(t, m, finite) PROVE ServiceStep
  BY <1>2, <1>k DEF AppSlowLock, Kept, Owns
<1>3. ASSUME NEW m \in Mutex, AppUnlock(t, m) PROVE ServiceStep
  <2>1. m \in holds[t] /\ pc[t] = "idle" /\ UNCHANGED <<got, notified>>
        /\ holds' = [holds EXCEPT ![t] = @ \ {m}]
        /\ (\A u \in Thread : u # t => pc'[u] = pc[u] /\ arg'[u] = arg[u])
        /\ pc'[t] \in {"idle", "unblock"}
    BY <1>3 DEF AppUnlock
  <2>2. \A k \in Lasting, u \in Thread : Owns(u, k)' <=> Owns(u, k) /\ ~(u = t /\ k = m)
    BY <2>1 DEF Owns
  <2>3. Owns(t, m)
    BY <2>1 DEF Owns
  <2>4. m \in Lasting => Lost(t, m)
    BY <2>2, <2>3 DEF Lost
  <2>5. m \notin Lasting => Kept
    BY <2>2 DEF Kept
  <2> QED BY <2>4, <2>5 DEF ServiceStep
<1>4. ASSUME NEW m \in Mutex, AppDisable(t, m) PROVE ServiceStep
  BY <1>4, <1>k DEF AppDisable, Kept, Owns
<1>5. ASSUME NEW m \in Mutex, NEW to \in Word, NEW finite \in BOOLEAN, AppSwitch(t, m, to, finite) PROVE ServiceStep
  BY <1>5, <1>k DEF AppSwitch, Kept, Owns
<1>6. ASSUME NEW c \in Cond, NEW everyone \in BOOLEAN, AppSignal(t, c, everyone) PROVE ServiceStep
  BY <1>6, <1>k DEF AppSignal, Kept, Owns
<1>7. CASE Lock(t)
  <2> DEFINE m == arg[t]
  <2>0. m \in Mutex /\ pc[t] = "lock" /\ ~notified[t] /\ UNCHANGED notified
    BY <1>7 DEF Lock, FrameOK, Waits
  <2>1. CASE Takes(m)
    <3>1. \A k \in Lasting, u \in Thread : Owns(u, k)' <=> Owns(u, k) \/ (u = t /\ k = m)
      BY <1>7, <2>0, <2>1 DEF Lock, Owns
    <3>2. CASE m \in Lasting
      <4>1. \A u \in Thread : ~Owns(u, m)
        BY <2>1, <3>2, <1>f DEF Takes, Steady
      <4> QED BY <3>1, <3>2, <4>1 DEF Gained, ServiceStep
    <3>3. CASE m \notin Lasting
      BY <3>1, <3>3, <1>k DEF Kept
    <3> QED BY <3>2, <3>3
  <2>2. CASE ~Takes(m)
    BY <1>7, <2>0, <2>2, <1>k DEF Lock, Owns, Kept
  <2> QED BY <2>1, <2>2
<1>8. CASE LockClear(t)
  BY <1>8, <1>k DEF LockClear, Kept, Owns
<1>9. CASE WaitNotified(t)
  BY <1>9, <1>k DEF WaitNotified, Woken, Kept, Owns
<1>10. CASE WaitTimedOut(t)
  BY <1>10, <1>k DEF WaitTimedOut, Kept, Owns
<1>11. CASE Unblock(t)
  <2> DEFINE m == arg[t]
  <2>0. m \in Word /\ ~notified[t] /\ UNCHANGED holds /\ pc[t] \in {"unblock", "unblock_all"}
        /\ pc'[t] \in {"idle", "unblock_clear"}
        /\ (\A v \in Thread : v # t => pc'[v] = pc[v] /\ arg'[v] = arg[v] /\ got'[v] = got[v])
    BY <1>11 DEF Unblock, FrameOK, Waits
  <2>1. CASE UNCHANGED notified
    BY <2>0, <2>1, <1>k DEF Kept, Owns
  <2>2. ASSUME NEW everyone \in BOOLEAN, UnblockWake(m, everyone), m \in Mutex => ~everyone
        PROVE  ServiceStep
    <3>1. \A u \in Thread : notified[u] => notified'[u]
      BY <2>2 DEF UnblockWake, Notify
    <3>2. \A k \in Lasting, u \in Thread : Owns(u, k)' <=>
               Owns(u, k) \/ (arg[u] = k /\ Waits(u) /\ notified'[u])
      BY <2>0, <3>1 DEF Owns, Waits, FrameOK
    <3> QED BY <2>0, <2>2, <3>2, WakeOwners
  <2>3. UNCHANGED notified \/ UnblockWake(m, pc[t] = "unblock_all")
    BY <1>11 DEF Unblock, UnblockIdle, UnblockBeaten
  <2>4. m \in Mutex => ~(pc[t] = "unblock_all")
    BY <2>0, <1>c DEF FrameOK
  <2> QED BY <2>1, <2>2, <2>3, <2>4
<1>12. CASE UnblockClear(t)
  BY <1>12, <1>k DEF UnblockClear, Kept, Owns
<1>13. CASE SwitchPrepare(t)
  <2> DEFINE m == arg[t]
  <2>0. m \in Word /\ pc[t] = "switch" /\ ~notified[t] /\ UNCHANGED <<notified, holds, arg>>
        /\ got' = [got EXCEPT ![t] = Takes(m)] /\ Takes(m) \in BOOLEAN
        /\ (\A v \in Thread : v # t => pc'[v] = pc[v])
        /\ pc'[t] \in {"switch_clear", "switch_release"}
    BY <1>13 DEF SwitchPrepare, FrameOK, Waits, Takes
  <2>1. CASE Takes(m)
    <3>1. \A k \in Lasting, u \in Thread : Owns(u, k)' <=> Owns(u, k) \/ (u = t /\ k = m)
      BY <2>0, <2>1 DEF Owns
    <3>2. CASE m \in Lasting
      <4>1. \A u \in Thread : ~Owns(u, m)
        BY <2>1, <3>2, <1>f DEF Takes, Steady
      <4> QED BY <3>1, <3>2, <4>1 DEF Gained, ServiceStep
    <3>3. CASE m \notin Lasting
      BY <3>1, <3>3, <1>k DEF Kept
    <3> QED BY <3>2, <3>3
  <2>2. CASE ~Takes(m)
    <3>1. \A k \in Lasting, u \in Thread : Owns(u, k)' <=> Owns(u, k)
      BY <2>0, <2>2 DEF Owns
    <3> QED BY <3>1, <1>k DEF Kept
  <2> QED BY <2>1, <2>2
<1>14. CASE SwitchClear(t)
  BY <1>14, <1>k DEF SwitchClear, Kept, Owns
<1>15. CASE SwitchRelease(t)
  <2> DEFINE m == frm[t]
  <2>0. m \in Mutex /\ m # arg[t] /\ m \in holds[t] /\ pc[t] = "switch_release"
        /\ UNCHANGED <<arg, got, notified>>
        /\ holds' = [holds EXCEPT ![t] = @ \ {m}]
        /\ (\A u \in Thread : u # t => pc'[u] = pc[u])
        /\ pc'[t] \in {"switch_unblock", "switch_end"}
    BY <1>15 DEF SwitchRelease, FrameOK, Switching
  <2>2. \A k \in Lasting, u \in Thread : Owns(u, k)' <=> Owns(u, k) /\ ~(u = t /\ k = m)
    BY <2>0 DEF Owns
  <2>3. Owns(t, m)
    BY <2>0 DEF Owns
  <2>4. m \in Lasting => Lost(t, m)
    BY <2>2, <2>3 DEF Lost
  <2>5. m \notin Lasting => Kept
    BY <2>2 DEF Kept
  <2> QED BY <2>4, <2>5 DEF ServiceStep
<1>16. CASE SwitchUnblock(t)
  <2> DEFINE m == frm[t]
  <2>0. m \in Word /\ UNCHANGED <<holds, arg, got>> /\ pc[t] = "switch_unblock"
        /\ pc'[t] \in {"switch_end", "switch_unblock_clear"}
        /\ (\A v \in Thread : v # t => pc'[v] = pc[v])
    BY <1>16 DEF SwitchUnblock, FrameOK, Switching
  <2>1. CASE UNCHANGED notified
    BY <2>0, <2>1, <1>k DEF Kept, Owns
  <2>2. CASE UnblockWake(m, FALSE)
    <3>1. \A u \in Thread : notified[u] => notified'[u]
      BY <2>2 DEF UnblockWake, Notify
    <3>2. \A u \in Thread : notified[u] => Waits(u)
      BY DEF FrameOK
    <3>3. \A k \in Lasting, u \in Thread : Owns(u, k)' <=>
               Owns(u, k) \/ (arg[u] = k /\ Waits(u) /\ notified'[u])
      BY <2>0, <3>1, <3>2 DEF Owns, Waits, FrameOK
    <3> QED BY <2>0, <2>2, <3>3, WakeOwners
  <2> QED BY <2>1, <2>2, <1>16 DEF SwitchUnblock, UnblockBeaten
<1>17. CASE SwitchUnblockClear(t)
  BY <1>17, <1>k DEF SwitchUnblockClear, Kept, Owns
<1>18. CASE SwitchEnd(t)
  BY <1>18, <1>k DEF SwitchEnd, Kept, Owns, FrameOK, Waits
<1> QED
  BY <1>a, <1>1, <1>2, <1>3, <1>4, <1>5, <1>6, <1>7, <1>8, <1>9, <1>10, <1>11,
     <1>12, <1>13, <1>14, <1>15, <1>16, <1>17, <1>18 DEF App, Loader

\* The initial states map to the initial state of the lock service.
LEMMA ServiceInit == Init => Service!Init /\ Steady
<1> SUFFICES ASSUME Init PROVE Service!Init /\ Steady
  OBVIOUS
<1>1. \A m \in Lasting : {t \in Thread : Owns(t, m)} = {}
  BY DEF Init, Owns, Lasting
<1> QED BY <1>1 DEF Init, Service!Init, Steady, Lasting, Word

\* The owners before and after a step of the implementation.
LEMMA ServiceNext ==
    ASSUME Inductive, Steady, [Next]_vars
    PROVE  [Service!Next]_([m \in Lasting |-> {t \in Thread : Owns(t, m)}])
<1> DEFINE own == [m \in Lasting |-> {t \in Thread : Owns(t, m)}]
<1>0. own' = [m \in Lasting |-> {t \in Thread : Owns(t, m)'}]
  OBVIOUS
<1>1. CASE UNCHANGED vars
  <2>1. \A m \in Lasting, u \in Thread : Owns(u, m)' <=> Owns(u, m)
    BY <1>1 DEF vars, Owns
  <2> QED BY <2>1, <1>0
<1>2. CASE Kept
  BY <1>2, <1>0 DEF Kept
<1>3. ASSUME NEW t \in Thread, NEW k \in Lasting, Gained(t, k)
      PROVE  Service!Next
  <2>1. own[k] = {}
    BY <1>3 DEF Gained
  <2>2. \A m \in Lasting : {u \in Thread : Owns(u, m)'} = IF m = k THEN {t} ELSE own[m]
    BY <1>3 DEF Gained
  <2>3. own' = [own EXCEPT ![k] = {t}]
    BY <1>0, <2>2
  <2> QED BY <2>1, <2>3 DEF Service!Next, Service!Acquire
<1>4. ASSUME NEW t \in Thread, NEW k \in Lasting, Lost(t, k)
      PROVE  Service!Next
  <2>1. \A u \in Thread : Owns(u, k) => u = t
    BY <1>4 DEF Lost, Inductive, MutualExclusion, Steady, Lasting
  <2>2. own[k] = {t}
    BY <1>4, <2>1 DEF Lost
  <2>3. \A m \in Lasting : {u \in Thread : Owns(u, m)'} = IF m = k THEN {} ELSE own[m]
    BY <1>4, <2>1 DEF Lost
  <2>4. own' = [own EXCEPT ![k] = {}]
    BY <1>0, <2>3
  <2> QED BY <2>2, <2>4 DEF Service!Next, Service!Release
<1> QED BY <1>1, <1>2, <1>3, <1>4, OwnersStep DEF ServiceStep

\* The words, the deques and the hand-offs of the loader implement the lock
\* service for every mutex that is never disabled: what a thread is given was
\* free, and it stays its own until it unlocks it or switches away from it
\* (loader_mutex_lock, loader_mutex_unblock, loader_mutex_switch_lock).
THEOREM MutexImplements == Spec => ImplementsLockService
<1>1. Init => Service!Init /\ Steady /\ Inductive
  BY InitInductive, ServiceInit
<1>2. Inductive /\ Steady /\ [Next]_vars => Inductive' /\ Steady'
  BY NextInductive, SteadyStep DEF Inductive
<1>3. Inductive /\ Steady /\ [Next]_vars =>
        [Service!Next]_([m \in Lasting |-> {t \in Thread : Owns(t, m)}])
  BY ServiceNext
<1> QED BY <1>1, <1>2, <1>3, PTL DEF Spec, ImplementsLockService, Service!Spec
=============================================================================
