------------------------------ MODULE UserSem ------------------------------
(***************************************************************************)
(* Unnamed POSIX semaphores, as haiku_loader implements their kernel half  *)
(* (loader_mutex_sem_acquire and loader_mutex_sem_release of               *)
(* loader_mutex.cpp).  A semaphore is one word: its value, or -1 for       *)
(* "contended", when posts have to enter the loader.  libroot takes and    *)
(* posts without the loader while the value allows it, by atomic           *)
(* instructions that do not know of sMutexTableLock, so every atomic       *)
(* access to the word is a step of its own.                                *)
(*                                                                         *)
(* libroot is not part of the repository; the actions named App... stand   *)
(* for its sem_wait, sem_timedwait and sem_post.  The entry of the         *)
(* semaphore in sMutexTable is its deque: UserMutex models the table.      *)
(***************************************************************************)
EXTENDS Integers, Sequences, FiniteSets

CONSTANTS
    Thread,    \* threads of one application
    Initial,   \* the value given to sem_init
    MaxPosts,  \* bound: calls of sem_post
    None       \* no thread

ASSUME UserSemAssumption ==
    /\ IsFiniteSet(Thread) /\ None \notin Thread
    /\ Initial \in Nat /\ MaxPosts \in Nat

VARIABLES
    sem,        \* the word
    waiters,    \* UserMutexEntry::waiters
    tableLock,  \* the holder of sMutexTableLock
    pc,         \* where a thread is
    oldValue,   \* the local variable of that name
    timed,      \* whether the call has a finite timeout
    notified,   \* Waiter::notified
    calls,      \* number of sem_posts begun
    posted,     \* history: posts that have taken effect
    taken       \* history: units that were taken

vars == <<sem, waiters, tableLock, pc, oldValue, timed, notified, calls, posted,
          taken>>

Init ==
    /\ sem = Initial
    /\ waiters = <<>>
    /\ tableLock = None
    /\ pc = [t \in Thread |-> "idle"]
    /\ oldValue = [t \in Thread |-> 0]
    /\ timed = [t \in Thread |-> FALSE]
    /\ notified = [t \in Thread |-> FALSE]
    /\ calls = 0 /\ posted = 0 /\ taken = 0

Goto(t, l) == pc' = [pc EXCEPT ![t] = l]

----------------------------------------------------------------------------
(* libroot (external) *)

\* sem_wait while there are units.
AppTake(t) ==
    /\ pc[t] = "idle" /\ sem > 0
    /\ sem' = sem - 1 /\ taken' = taken + 1
    /\ UNCHANGED <<waiters, tableLock, pc, oldValue, timed, notified, calls, posted>>

\* sem_wait and sem_timedwait enter the loader.
AppWait(t, finite) ==
    /\ pc[t] = "idle" /\ sem <= 0
    /\ Goto(t, "acquire")
    /\ timed' = [timed EXCEPT ![t] = finite]
    /\ UNCHANGED <<sem, waiters, tableLock, oldValue, notified, calls, posted, taken>>

\* sem_post of a semaphore that is not contended, and of one that is.
AppPost(t) ==
    /\ pc[t] = "idle" /\ calls < MaxPosts
    /\ calls' = calls + 1
    /\ IF sem >= 0
       THEN sem' = sem + 1 /\ posted' = posted + 1 /\ UNCHANGED pc
       ELSE Goto(t, "release") /\ UNCHANGED <<sem, posted>>
    /\ UNCHANGED <<waiters, tableLock, oldValue, timed, notified, taken>>

----------------------------------------------------------------------------
(* loader_mutex_sem_acquire *)

AcquireRead(t) ==
    /\ pc[t] = "acquire" /\ tableLock = None
    /\ tableLock' = t
    /\ oldValue' = [oldValue EXCEPT ![t] = sem]
    /\ Goto(t, "acquire_loop")
    /\ UNCHANGED <<sem, waiters, timed, notified, calls, posted, taken>>

\* The condition that ends the loop.
Contended(v) == v <= -1

\* One turn of the loop: a compare-and-swap that succeeds takes a unit, or
\* marks a semaphore without units as contended.
AcquireSwap(t) ==
    /\ pc[t] = "acquire_loop" /\ ~Contended(oldValue[t])
    /\ sem' = IF sem = oldValue[t] THEN sem - 1 ELSE sem
    /\ IF sem = oldValue[t] /\ sem > 0
       THEN /\ taken' = taken + 1
            /\ tableLock' = None
            /\ Goto(t, "idle")
            /\ UNCHANGED oldValue
       ELSE /\ oldValue' = [oldValue EXCEPT ![t] = sem]
            /\ UNCHANGED <<taken, tableLock, pc>>
    /\ UNCHANGED <<waiters, timed, notified, calls, posted>>

\* The loop ends: entry->Add and wait.
AcquireWait(t) ==
    /\ pc[t] = "acquire_loop" /\ Contended(oldValue[t])
    /\ waiters' = Append(waiters, t)
    /\ tableLock' = None
    /\ Goto(t, "wait")
    /\ UNCHANGED <<sem, oldValue, timed, notified, calls, posted, taken>>

\* wait_for_notification returns because the waiter was notified.
Woken(t) == notified[t]
WaitNotified(t) ==
    /\ pc[t] = "wait" /\ tableLock = None /\ Woken(t)
    /\ notified' = [notified EXCEPT ![t] = FALSE]
    /\ taken' = taken + 1
    /\ Goto(t, "idle")
    /\ UNCHANGED <<sem, waiters, tableLock, oldValue, timed, calls, posted>>

\* It times out: entry->Remove.  The word stays contended.
RemoveAt(q, i) == [j \in 1..(Len(q) - 1) |-> IF j < i THEN q[j] ELSE q[j + 1]]
WaitTimedOut(t) ==
    /\ pc[t] = "wait" /\ tableLock = None /\ timed[t] /\ ~notified[t]
    /\ \E i \in 1..Len(waiters) :
          waiters[i] = t /\ waiters' = RemoveAt(waiters, i)
    /\ notified' = [notified EXCEPT ![t] = FALSE]
    /\ Goto(t, "idle")
    /\ UNCHANGED <<sem, tableLock, oldValue, timed, calls, posted, taken>>

----------------------------------------------------------------------------
(* loader_mutex_sem_release *)

\* EntriesCount is 0 after NotifyOne.
EmptiedAlways(q) == TRUE  \* mutant: the count is not asked
Emptied(q) == Tail(q) = <<>>

\* NotifyOne hands the unit over; whether the deque is empty then decides
\* whether the word has still to be marked as uncontended.
ReleaseNotify(t) ==
    /\ pc[t] = "release" /\ tableLock = None /\ waiters # <<>>
    /\ waiters' = Tail(waiters)
    /\ notified' = [notified EXCEPT ![Head(waiters)] = TRUE]
    /\ posted' = posted + 1
    /\ IF Emptied(waiters)
       THEN tableLock' = t /\ Goto(t, "release_clear")
       ELSE UNCHANGED tableLock /\ Goto(t, "idle")
    /\ UNCHANGED <<sem, oldValue, timed, calls, taken>>

Clear(v) == IF v = -1 THEN 0 ELSE v
ReleaseClear(t) ==
    /\ pc[t] = "release_clear"
    /\ sem' = Clear(sem)
    /\ tableLock' = None
    /\ Goto(t, "idle")
    /\ UNCHANGED <<waiters, oldValue, timed, notified, calls, posted, taken>>

\* Nobody waits: read the word, ...
ReleaseRead(t) ==
    /\ pc[t] = "release" /\ tableLock = None /\ waiters = <<>>
    /\ tableLock' = t
    /\ oldValue' = [oldValue EXCEPT ![t] = sem]
    /\ Goto(t, "release_loop")
    /\ UNCHANGED <<sem, waiters, timed, notified, calls, posted, taken>>

\* ... and one turn of the loop that adds the unit to it.
IncOne(v) == v + 1  \* mutant: a contended word becomes 0
Inc(v) == IF v < 0 THEN v + 2 ELSE v + 1
NotRead(t) == oldValue[t]  \* mutant: tried again with the old value
Reread(t) == sem
ReleaseSwap(t) ==
    /\ pc[t] = "release_loop"
    /\ IF sem = oldValue[t]
       THEN /\ sem' = Inc(sem)
            /\ posted' = posted + 1
            /\ tableLock' = None
            /\ Goto(t, "idle")
            /\ UNCHANGED oldValue
       ELSE /\ oldValue' = [oldValue EXCEPT ![t] = Reread(t)]
            /\ UNCHANGED <<sem, posted, tableLock, pc>>
    /\ UNCHANGED <<waiters, timed, notified, calls, taken>>

App(t) == AppTake(t) \/ AppPost(t) \/ \E finite \in BOOLEAN : AppWait(t, finite)
Loader(t) ==
    \/ AcquireRead(t) \/ AcquireSwap(t) \/ AcquireWait(t)
    \/ WaitNotified(t)
    \/ ReleaseNotify(t) \/ ReleaseClear(t) \/ ReleaseRead(t) \/ ReleaseSwap(t)

Next == \E t \in Thread : App(t) \/ Loader(t) \/ WaitTimedOut(t)

Spec == Init /\ [][Next]_vars
\* A thread that is in the loader goes on, and std::mutex lets every thread in
\* that keeps asking for it.
FairSpec == Spec /\ \A t \in Thread : SF_vars(Loader(t))

----------------------------------------------------------------------------
(* Properties. *)

PC == {"idle", "acquire", "acquire_loop", "wait", "release", "release_clear",
       "release_loop"}

\* The word is never below -1, which is the only mark of contention, the locals
\* never hold what the word cannot be, and only the thread inside a critical
\* section of loader_mutex.cpp holds sMutexTableLock.
TypeOK ==
    /\ sem \in Nat \cup {-1}
    /\ waiters \in Seq(Thread)
    /\ tableLock \in Thread \cup {None}
    /\ pc \in [Thread -> PC]
    /\ oldValue \in [Thread -> Nat \cup {-1}]
    /\ timed \in [Thread -> BOOLEAN]
    /\ notified \in [Thread -> BOOLEAN]
    /\ calls \in 0..MaxPosts /\ posted \in Nat /\ taken \in Nat
    /\ \A t \in Thread :
          pc[t] \in {"acquire_loop", "release_clear", "release_loop"} <=> tableLock = t

\* The threads to which a unit was handed over.
Handed == {t \in Thread : notified[t]}
Available == IF sem > 0 THEN sem ELSE 0

\* While somebody is in the deque the word says so, so that no sem_post of
\* libroot passes him by without entering loader_mutex_sem_release.
WaitersMarked == waiters # <<>> => sem = -1

\* A notified waiter has left the deque and no waiter is in it twice, so that
\* loader_mutex_sem_release never hands a second unit to a thread that has one.
QueuedOnce ==
    /\ \A i \in 1..Len(waiters) : pc[waiters[i]] = "wait" /\ ~notified[waiters[i]]
    /\ \A i, j \in 1..Len(waiters) : waiters[i] = waiters[j] => i = j
    /\ \A t \in Thread : notified[t] => pc[t] = "wait"
    /\ \A t \in Thread : pc[t] = "wait" /\ ~notified[t] =>
          \E i \in 1..Len(waiters) : waiters[i] = t

\* A sem_post that has entered the loader leaves it, although others change the
\* word between its read and its compare-and-swap.
PostEnds == \A t \in Thread : pc[t] = "release" ~> pc[t] = "idle"

\* The word and the loader together are a counting semaphore: no unit is lost or
\* made up, also when a waiter times out while loader_mutex_sem_release hands it
\* one.  A unit that was handed over and not yet picked up counts as available.
Abstract == INSTANCE CountingSem
    WITH avail <- Available + Cardinality(Handed), got <- taken, put <- posted
ImplementsCountingSem == Abstract!Spec
=============================================================================
