----------------------------- MODULE Semaphore -----------------------------
(***************************************************************************)
(* One semaphore of hyclone_server (hsemaphore.cpp): a count under         *)
(* _countLock and one condition variable that Release notifies for all.    *)
(* Guest threads call acquire_sem, acquire_sem_etc, release_sem,           *)
(* release_sem_etc and delete_sem.                                         *)
(*                                                                         *)
(* delete_sem clears _registered without _countLock.  The amounts of the   *)
(* _etc calls come as unsigned numbers and are used as signed ones.        *)
(***************************************************************************)
EXTENDS Integers, FiniteSets

CONSTANTS
    Thread,      \* guest threads
    Half,        \* 2^31: an int holds -Half .. Half - 1
    Initial,     \* the count given to create_sem
    Amounts,     \* the amounts the guests pass, unsigned
    MaxReleases, \* bound: calls of release_sem
    CanDelete,   \* the owner may call delete_sem
    None

ASSUME SemaphoreAssumption ==
    /\ Half \in Nat \ {0}
    /\ Initial \in 0..(Half - 1)           \* create_sem refuses others
    /\ Amounts \subseteq 0..(2 * Half - 1)
    /\ IsFiniteSet(Thread) /\ None \notin Thread
    /\ MaxReleases \in Nat /\ CanDelete \in BOOLEAN

VARIABLES
    count,       \* Semaphore::_count
    waitCount,   \* Semaphore::_waitCount
    registered,  \* Semaphore::_registered
    lock,        \* the holder of _countLock
    sleepers,    \* threads asleep on _countCondVar, not yet notified
    pc,          \* where a thread is
    call,        \* which call it is in
    amount,      \* its amount, as the int that the code works with
    releases,    \* number of releases so far
    granted,     \* history: units acquired
    released     \* history: units released

vars == <<count, waitCount, registered, lock, sleepers, pc, call, amount,
          releases, granted, released>>
history == <<releases, granted, released>>

\* unsigned int to int
ToInt(u) == IF u < Half THEN u ELSE u - 2 * Half
IntRange == (-Half)..(Half - 1)

\* Semaphore::Acquire, TryAcquireFor, TryAcquireUntil, Release; delete_sem.
Call == {"acquire", "for", "until", "release", "delete"}
Timed == {"for", "until"}
PC == {"idle", "enter", "test", "sleep", "asleep", "leave", "notify"}

TypeOK ==
    /\ count \in IntRange
    /\ waitCount \in Nat
    /\ registered \in BOOLEAN
    /\ lock \in Thread \cup {None}
    /\ sleepers \subseteq Thread
    /\ pc \in [Thread -> PC]
    /\ call \in [Thread -> Call \cup {None}]
    /\ amount \in [Thread -> IntRange]
    /\ releases \in 0..MaxReleases
    /\ granted \in Int /\ released \in Int

Init ==
    /\ count = Initial /\ waitCount = 0
    /\ registered = TRUE
    /\ lock = None /\ sleepers = {}
    /\ pc = [t \in Thread |-> "idle"]
    /\ call = [t \in Thread |-> None]
    /\ amount = [t \in Thread |-> 0]
    /\ releases = 0 /\ granted = 0 /\ released = 0

-----------------------------------------------------------------------------
Goto(t, l) == pc' = [pc EXCEPT ![t] = l] /\ UNCHANGED <<call, amount>>

Return(t) ==
    /\ pc' = [pc EXCEPT ![t] = "idle"]
    /\ call' = [call EXCEPT ![t] = None]
    /\ amount' = [amount EXCEPT ![t] = 0]

Enough(t) == count >= amount[t]

\* _count -= count.  The bound keeps the int from overflowing.
LessOne(t) == count - 1  \* mutant: as if every call were acquire_sem
Less(t) == count - amount[t]

Grant(t) ==
    /\ Less(t) \in IntRange
    /\ count' = Less(t)
    /\ granted' = granted + amount[t]
    /\ UNCHANGED <<releases, released>>

\* A call finds the semaphore by its id.  acquire_sem_etc refuses 0.
Start(t, c, u) ==
    /\ pc[t] = "idle" /\ registered
    /\ c # "release" => u >= 1
    /\ pc' = [pc EXCEPT ![t] = "enter"]
    /\ call' = [call EXCEPT ![t] = c]
    /\ amount' = [amount EXCEPT ![t] = ToInt(u)]
    /\ UNCHANGED <<count, waitCount, registered, lock, sleepers, history>>

\* The fast path of Acquire and TryAcquireUntil does not look at _registered.
AcquireNow(t) ==
    /\ pc[t] = "enter" /\ call[t] \in {"acquire", "until"} /\ lock = None
    /\ Enough(t)
    /\ Grant(t) /\ Return(t)
    /\ UNCHANGED <<waitCount, registered, lock, sleepers>>

\* ++_waitCount
Counted == waitCount + 1

\* TryAcquireFor has no fast path.
AcquireWait(t) ==
    /\ pc[t] = "enter" /\ call[t] \in {"acquire", "until", "for"} /\ lock = None
    /\ call[t] # "for" => ~Enough(t)
    /\ lock' = t /\ waitCount' = Counted
    /\ Goto(t, "test")
    /\ UNCHANGED <<count, registered, sleepers, history>>

\* The predicate of the condition variable.
MayGoOn(t) == ~registered \/ Enough(t)

Test(t) ==
    /\ pc[t] = "test"
    /\ Goto(t, IF MayGoOn(t) THEN "leave" ELSE "sleep")
    /\ UNCHANGED <<count, waitCount, registered, lock, sleepers, history>>

Sleep(t) ==
    /\ pc[t] = "sleep"
    /\ lock' = None /\ sleepers' = sleepers \cup {t}
    /\ Goto(t, "asleep")
    /\ UNCHANGED <<count, waitCount, registered, history>>

\* A thread that was notified tests the predicate again.
BackTo == "test"
WakeUp(t) ==
    /\ pc[t] = "asleep" /\ t \notin sleepers
    /\ lock = None /\ lock' = t
    /\ Goto(t, BackTo)
    /\ UNCHANGED <<count, waitCount, registered, sleepers, history>>

\* wait_for and wait_until give up.
TimedOutTo == "leave"
TimeOut(t) ==
    /\ pc[t] = "asleep" /\ call[t] \in Timed
    /\ lock = None /\ lock' = t
    /\ sleepers' = sleepers \ {t}
    /\ Goto(t, TimedOutTo)
    /\ UNCHANGED <<count, waitCount, registered, history>>

\* After the wait: B_BAD_SEM_ID, B_TIMED_OUT, or the units.  Acquire does not
\* compare again.
StillEnough(t) == call[t] = "acquire" \/ Enough(t)

Leave(t) ==
    /\ pc[t] = "leave"
    /\ lock' = None /\ waitCount' = waitCount - 1
    /\ Return(t)
    /\ \/ registered /\ StillEnough(t) /\ Grant(t)
       \/ ~(registered /\ StillEnough(t)) /\ UNCHANGED <<count, history>>
    /\ UNCHANGED <<registered, sleepers>>

\* _countCondVar.notify_all()
NotifyOne == IF sleepers = {} THEN sleepers' = {}  \* mutant: notify_one
                              ELSE \E u \in sleepers : sleepers' = sleepers \ {u}
NotifyAll == sleepers' = {}

Release(t) ==
    /\ pc[t] = "enter" /\ call[t] = "release" /\ lock = None
    /\ releases < MaxReleases /\ releases' = releases + 1
    /\ count + amount[t] \in IntRange      \* bound: the int does not overflow
    /\ count' = count + amount[t]
    /\ released' = released + amount[t]
    /\ NotifyAll
    /\ Return(t)
    /\ UNCHANGED <<waitCount, registered, lock, granted>>

\* delete_sem by the owning team: the lookup and the flag, then the
\* notification, under the system's lock and not under _countLock.
Delete(t) ==
    /\ CanDelete /\ pc[t] = "idle" /\ registered
    /\ registered' = FALSE
    /\ pc' = [pc EXCEPT ![t] = "notify"]
    /\ call' = [call EXCEPT ![t] = "delete"]
    /\ UNCHANGED <<count, waitCount, lock, sleepers, amount, history>>

DeleteNotify(t) ==
    /\ pc[t] = "notify"
    /\ NotifyAll
    /\ Return(t)
    /\ UNCHANGED <<count, waitCount, registered, lock, history>>

-----------------------------------------------------------------------------
App(t) ==
    \/ \E c \in {"acquire", "for", "until", "release"}, u \in Amounts : Start(t, c, u)
    \/ Delete(t)

Worker(t) ==
    \/ AcquireNow(t) \/ AcquireWait(t) \/ Test(t) \/ Sleep(t) \/ WakeUp(t)
    \/ Leave(t) \/ Release(t) \/ DeleteNotify(t)

Next == \E t \in Thread : App(t) \/ Worker(t) \/ TimeOut(t)

Spec == Init /\ [][Next]_vars

-----------------------------------------------------------------------------
(* Properties *)

\* The units are conserved: the count is what create_sem put in and the
\* releases added, less what the acquires took, across waits, timeouts and
\* deletion.  _waitCount is the number of calls in their wait.
Conserved ==
    /\ count = Initial + released - granted
    /\ waitCount = Cardinality({t \in Thread :
                        pc[t] \in {"test", "sleep", "asleep", "leave"}})

\* No acquire gets units that are not there: the code never tests this after
\* the wait of Acquire.  It needs guests that pass positive ints.
NeverOverdrawn == count >= 0

\* No thread sleeps beside enough units: Release wakes all of them, as their
\* amounts differ.
NoStrandedWaiter == registered => \A t \in sleepers : count < amount[t]
=============================================================================
