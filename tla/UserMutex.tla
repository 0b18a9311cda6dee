----------------------------- MODULE UserMutex -----------------------------
(***************************************************************************)
(* The kernel half of Haiku's user-space mutexes, as haiku_loader          *)
(* implements it (loader_mutex.cpp).  A mutex is one 32-bit word in the    *)
(* memory of the application.  Uncontended lock and unlock are one atomic  *)
(* instruction of libroot; the loader is entered only when the word says   *)
(* that somebody waits, or must wait.  The loader keeps a table from the   *)
(* word's address to a deque of waiters, under one mutex (sMutexTableLock),*)
(* but the word itself is changed by atomic instructions that libroot      *)
(* issues without that mutex: every atomic access is a step of its own     *)
(* here, and everything else the loader does under the table lock is       *)
(* joined to the atomic access before it.                                  *)
(*                                                                         *)
(* libroot is not part of the repository.  The actions named App... stand  *)
(* for its use of the word: a mutex is taken by a compare-and-swap from 0, *)
(* released by clearing LOCKED, and a condition variable is a word that is *)
(* LOCKED while somebody waits for a signal.                               *)
(***************************************************************************)
EXTENDS Naturals, Sequences

CONSTANTS
    Thread,       \* threads of one application
    Mutex,        \* addresses of words used as mutexes
    Cond,         \* addresses of words used as condition variables
    Disableable,  \* mutexes the application may switch off (DISABLED)
    None          \* no thread

ASSUME ConstAssumption ==
    /\ None \notin Thread
    /\ Mutex \cap Cond = {}
    /\ Disableable \subseteq Mutex

VARIABLES
    word,       \* the word's bits
    waiters,    \* UserMutexEntry::waiters
    table,      \* the addresses that have an entry in sMutexTable
    tableLock,  \* the holder of sMutexTableLock
    pc,         \* where a thread is
    arg,        \* the word of the call the thread is in (toMutex of a switch)
    frm,        \* fromMutex of switch_lock
    got,        \* alreadyLocked of switch_lock
    timed,      \* whether the call has a finite timeout
    notified,   \* Waiter::notified
    holds       \* the mutexes the application believes the thread owns

vars == <<word, waiters, table, tableLock, pc, arg, frm, got, timed,
          notified, holds>>

Word == Mutex \cup Cond
Bit == {"LOCKED", "WAITING", "DISABLED"}
PC == {"idle", "lock", "lock_clear", "wait", "unblock", "unblock_all",
       "unblock_clear", "switch", "switch_clear", "switch_release",
       "switch_unblock", "switch_unblock_clear", "switch_end"}

TypeOK ==
    /\ word \in [Word -> SUBSET Bit]
    /\ waiters \in [Word -> Seq(Thread)]
    /\ table \in SUBSET Word
    /\ tableLock \in Thread \cup {None}
    /\ pc \in [Thread -> PC]
    /\ arg \in [Thread -> Word \cup {None}]
    /\ frm \in [Thread -> Word \cup {None}]
    /\ got \in [Thread -> BOOLEAN]
    /\ timed \in [Thread -> BOOLEAN]
    /\ notified \in [Thread -> BOOLEAN]
    /\ holds \in [Thread -> SUBSET Mutex]

Init ==
    /\ word = [m \in Word |-> {}]
    /\ waiters = [m \in Word |-> << >>]
    /\ table = {}
    /\ tableLock = None
    /\ pc = [t \in Thread |-> "idle"]
    /\ arg = [t \in Thread |-> None]
    /\ frm = [t \in Thread |-> None]
    /\ got = [t \in Thread |-> FALSE]
    /\ timed = [t \in Thread |-> FALSE]
    /\ notified = [t \in Thread |-> FALSE]
    /\ holds = [t \in Thread |-> {}]

-----------------------------------------------------------------------------
(* Helpers of loader_mutex.cpp. *)

\* put_entry: an entry without waiters leaves the table.
PutEntry(tab, m, q) == IF q = << >> THEN tab \ {m} ELSE tab

\* The word after prepare_to_lock's atomic_or, and whether the caller now
\* owns the mutex.
Prepared(m) == word[m] \cup {"LOCKED", "WAITING"}
TakesUnflagged(m) == "WAITING" \notin word[m]  \* mutant: the wrong bit
Takes(m) == "LOCKED" \notin word[m] \/ "DISABLED" \in word[m]

\* "possibly unset the waiting flag": nobody had set it and nobody waits.
MayClearWaiting(m) == "WAITING" \notin word[m] /\ waiters[m] = << >>

\* UserMutexEntry::Remove for a waiter at position i.
RemoveAt(q, i) == SubSeq(q, 1, i - 1) \o SubSeq(q, i + 1, Len(q))

\* The word after a timeout that leaves the deque q.
TimeoutWord(w, q) == IF q = << >> THEN w \ {"WAITING"} ELSE w

\* unblock_locked goes on to wake somebody: UNBLOCK_ALL, or atomic_or(LOCKED)
\* found the mutex free and has taken it for the waiter.
HandsOffBlindly(m, everyone) == TRUE   \* mutant: LOCKED is not tested
HandsOff(m, everyone) == everyone \/ "LOCKED" \notin word[m]

\* switch_lock has to unblock the waiters of fromMutex.
MustUnblockUnlisted(m) == "WAITING" \in word[m] /\ m \notin table  \* mutant
MustUnblock(m) == "WAITING" \in word[m] /\ m \in table

\* The predicate of the wait.
Woken(t) == notified[t]

\* NotifyOne and NotifyAll: the deque that is left, and the threads notified.
Rest(q, everyone) == IF everyone THEN << >> ELSE Tail(q)
Notify(q, everyone) ==
    [t \in Thread |->
        \/ notified[t]
        \/ IF everyone THEN \E i \in 1..Len(q) : q[i] = t ELSE t = Head(q)]

\* The frame of a call: where the thread is in it and the call's locals.
frame == <<pc, arg, frm, got, timed>>
Goto(t, l) ==
    /\ pc' = [pc EXCEPT ![t] = l]
    /\ UNCHANGED <<arg, frm, got, timed>>
Return(t) ==
    /\ pc' = [pc EXCEPT ![t] = "idle"]
    /\ arg' = [arg EXCEPT ![t] = None]
    /\ frm' = [frm EXCEPT ![t] = None]
    /\ got' = [got EXCEPT ![t] = FALSE]
    /\ timed' = [timed EXCEPT ![t] = FALSE]
Call(t, l, m, finite) ==
    /\ pc' = [pc EXCEPT ![t] = l]
    /\ arg' = [arg EXCEPT ![t] = m]
    /\ timed' = [timed EXCEPT ![t] = finite]
    /\ UNCHANGED <<frm, got>>

\* The call returns with the mutex (a condition variable is never owned).
Acquired(t, m) ==
    holds' = [holds EXCEPT ![t] = IF m \in Mutex THEN @ \cup {m} ELSE @]

-----------------------------------------------------------------------------
(* libroot and the application (external). *)

\* Uncontended pthread_mutex_lock: compare-and-swap 0 -> LOCKED.
AppFastLock(t, m) ==
    /\ pc[t] = "idle" /\ holds[t] = {}
    /\ word[m] = {}
    /\ word' = [word EXCEPT ![m] = {"LOCKED"}]
    /\ Acquired(t, m)
    /\ UNCHANGED <<waiters, table, tableLock, frame, notified>>

\* The compare-and-swap failed: enter the loader.
AppSlowLock(t, m, finite) ==
    /\ pc[t] = "idle" /\ holds[t] = {}
    /\ word[m] # {}
    /\ Call(t, "lock", m, finite)
    /\ UNCHANGED <<word, waiters, table, tableLock, notified, holds>>

\* pthread_mutex_unlock: clear LOCKED, enter the loader if WAITING was set.
AppUnlock(t, m) ==
    /\ pc[t] = "idle" /\ m \in holds[t]
    /\ word' = [word EXCEPT ![m] = @ \ {"LOCKED"}]
    /\ holds' = [holds EXCEPT ![t] = @ \ {m}]
    /\ IF "WAITING" \in word[m] THEN Call(t, "unblock", m, FALSE)
                                ELSE UNCHANGED frame
    /\ UNCHANGED <<waiters, table, tableLock, notified>>

\* The owner passes on to another word: to a second mutex (hand over hand),
\* or to a condition variable, whose word is locked first.
AppSwitch(t, m, to, finite) ==
    /\ pc[t] = "idle" /\ m \in holds[t] /\ to # m
    /\ to \in Cond => finite
    /\ word' = [word EXCEPT ![to] = IF to \in Cond THEN @ \cup {"LOCKED"} ELSE @]
    /\ pc' = [pc EXCEPT ![t] = "switch"]
    /\ arg' = [arg EXCEPT ![t] = to]
    /\ frm' = [frm EXCEPT ![t] = m]
    /\ timed' = [timed EXCEPT ![t] = finite]
    /\ UNCHANGED <<waiters, table, tableLock, got, notified, holds>>

\* pthread_cond_signal and _broadcast by an owner of a mutex.
AppSignal(t, c, everyone) ==
    /\ pc[t] = "idle" /\ holds[t] # {}
    /\ word' = [word EXCEPT ![c] = @ \ {"LOCKED"}]
    /\ Call(t, IF everyone THEN "unblock_all" ELSE "unblock", c, FALSE)
    /\ UNCHANGED <<waiters, table, tableLock, notified, holds>>

\* The application switches a mutex off for good.
AppDisable(t, m) ==
    /\ pc[t] = "idle" /\ m \in holds[t] /\ m \in Disableable
    /\ "DISABLED" \notin word[m]
    /\ word' = [word EXCEPT ![m] = @ \cup {"DISABLED"}]
    /\ UNCHANGED <<waiters, table, tableLock, frame, notified, holds>>

-----------------------------------------------------------------------------
(* loader_mutex_lock *)

\* get_entry, prepare_to_lock's atomic_or, and what follows it up to the next
\* atomic access: success, success with the flag still to clear, or waiting.
Lock(t) ==
    LET m == arg[t] IN
    /\ pc[t] = "lock" /\ tableLock = None
    /\ word' = [word EXCEPT ![m] = Prepared(m)]
    /\ \/ /\ Takes(m) /\ MayClearWaiting(m)
          /\ tableLock' = t
          /\ table' = table \cup {m}
          /\ Goto(t, "lock_clear")
          /\ UNCHANGED <<waiters, holds>>
       \/ /\ Takes(m) /\ ~MayClearWaiting(m)
          /\ table' = PutEntry(table \cup {m}, m, waiters[m])
          /\ Return(t) /\ Acquired(t, m)
          /\ UNCHANGED <<waiters, tableLock>>
       \/ /\ ~Takes(m)
          /\ waiters' = [waiters EXCEPT ![m] = Append(@, t)]
          /\ table' = table \cup {m}
          /\ Goto(t, "wait")
          /\ UNCHANGED <<tableLock, holds>>
    /\ UNCHANGED notified

\* prepare_to_lock's atomic_and, then put_entry and return.
LockClear(t) ==
    LET m == arg[t] IN
    /\ pc[t] = "lock_clear"
    /\ word' = [word EXCEPT ![m] = @ \ {"WAITING"}]
    /\ table' = PutEntry(table, m, waiters[m])
    /\ tableLock' = None
    /\ Return(t) /\ Acquired(t, m)
    /\ UNCHANGED <<waiters, notified>>

\* wait_for_notification returns B_OK: the lock was handed over.  The timeout
\* may have expired as well; the predicate decides.  The Waiter, a local
\* variable, goes with the call.
WaitNotified(t) ==
    LET m == arg[t] IN
    /\ pc[t] = "wait" /\ tableLock = None
    /\ Woken(t)
    /\ table' = PutEntry(table, m, waiters[m])
    /\ notified' = [notified EXCEPT ![t] = FALSE]
    /\ Return(t) /\ Acquired(t, m)
    /\ UNCHANGED <<word, waiters, tableLock>>

\* wait_for_notification times out.
WaitTimedOut(t) ==
    LET m == arg[t] IN
    /\ pc[t] = "wait" /\ tableLock = None
    /\ timed[t] /\ ~notified[t]
    /\ \E i \in 1..Len(waiters[m]) :
         LET q == RemoveAt(waiters[m], i) IN
         /\ waiters[m][i] = t
         /\ waiters' = [waiters EXCEPT ![m] = q]
         /\ word' = [word EXCEPT ![m] = TimeoutWord(@, q)]
         /\ table' = PutEntry(table, m, q)
    /\ Return(t)
    /\ UNCHANGED <<tableLock, notified, holds>>

-----------------------------------------------------------------------------
(* loader_mutex_unblock *)

\* loader_mutex_unblock_locked: Idle, nobody waits and the flag is cleared;
\* Beaten, somebody took the lock in the meantime and will unblock later;
\* Wake, the lock is handed to the first waiter, or everybody is woken.  Wake
\* leaves clearing the flag of an emptied deque to the next step.
UnblockIdle(m) ==
    /\ waiters[m] = << >>
    /\ word' = [word EXCEPT ![m] = @ \ {"WAITING"}]
    /\ UNCHANGED <<waiters, notified>>

UnblockBeaten(m, everyone) ==
    /\ waiters[m] # << >> /\ ~HandsOff(m, everyone)
    /\ UNCHANGED <<word, waiters, notified>>

UnblockWake(m, everyone) ==
    LET wakeAll == everyone \/ "DISABLED" \in word[m] IN
    /\ waiters[m] # << >> /\ HandsOff(m, everyone)
    /\ word' = [word EXCEPT ![m] = IF everyone THEN @ ELSE @ \cup {"LOCKED"}]
    /\ notified' = Notify(waiters[m], wakeAll)
    /\ waiters' = [waiters EXCEPT ![m] = Rest(@, wakeAll)]

\* An address without an entry has no waiters and is treated like an empty one.
Unblock(t) ==
    LET m == arg[t]
        everyone == pc[t] = "unblock_all" IN
    /\ pc[t] \in {"unblock", "unblock_all"} /\ tableLock = None
    /\ \/ /\ UnblockIdle(m) \/ UnblockBeaten(m, everyone)
          /\ Return(t)
          /\ table' = PutEntry(table, m, waiters[m])
          /\ UNCHANGED tableLock
       \/ /\ UnblockWake(m, everyone)
          /\ waiters'[m] # << >>
          /\ Return(t)
          /\ UNCHANGED <<table, tableLock>>
       \/ /\ UnblockWake(m, everyone)
          /\ waiters'[m] = << >>
          /\ Goto(t, "unblock_clear")
          /\ tableLock' = t
          /\ UNCHANGED table
    /\ UNCHANGED holds

UnblockClear(t) ==
    LET m == arg[t] IN
    /\ pc[t] = "unblock_clear"
    /\ word' = [word EXCEPT ![m] = @ \ {"WAITING"}]
    /\ table' = PutEntry(table, m, waiters[m])
    /\ tableLock' = None
    /\ Return(t)
    /\ UNCHANGED <<waiters, notified, holds>>

-----------------------------------------------------------------------------
(* loader_mutex_switch_lock: the table lock is held from here to the wait. *)

SwitchPrepare(t) ==
    LET m == arg[t] IN
    /\ pc[t] = "switch" /\ tableLock = None
    /\ tableLock' = t
    /\ table' = table \cup {m}
    /\ word' = [word EXCEPT ![m] = Prepared(m)]
    /\ got' = [got EXCEPT ![t] = Takes(m)]
    /\ waiters' = [waiters EXCEPT ![m] = IF Takes(m) THEN @ ELSE Append(@, t)]
    /\ pc' = [pc EXCEPT ![t] = IF Takes(m) /\ MayClearWaiting(m)
                                 THEN "switch_clear" ELSE "switch_release"]
    /\ UNCHANGED <<arg, frm, timed, notified, holds>>

SwitchClear(t) ==
    /\ pc[t] = "switch_clear"
    /\ word' = [word EXCEPT ![arg[t]] = @ \ {"WAITING"}]
    /\ Goto(t, "switch_release")
    /\ UNCHANGED <<waiters, table, tableLock, notified, holds>>

\* "unlock the first mutex": fromMutex is unblocked only when it has an entry.
SwitchRelease(t) ==
    LET m == frm[t] IN
    /\ pc[t] = "switch_release"
    /\ word' = [word EXCEPT ![m] = @ \ {"LOCKED"}]
    /\ holds' = [holds EXCEPT ![t] = @ \ {m}]
    /\ Goto(t, IF MustUnblock(m) THEN "switch_unblock" ELSE "switch_end")
    /\ UNCHANGED <<waiters, table, tableLock, notified>>

\* fromMutex is never given UNBLOCK_ALL.
SwitchUnblock(t) ==
    LET m == frm[t] IN
    /\ pc[t] = "switch_unblock"
    /\ \/ /\ UnblockBeaten(m, FALSE)
          /\ Goto(t, "switch_end")
       \/ /\ UnblockWake(m, FALSE)
          /\ Goto(t, IF waiters'[m] = << >> THEN "switch_unblock_clear"
                                            ELSE "switch_end")
    /\ UNCHANGED <<table, tableLock, holds>>

SwitchUnblockClear(t) ==
    LET m == frm[t] IN
    /\ pc[t] = "switch_unblock_clear"
    /\ word' = [word EXCEPT ![m] = @ \ {"WAITING"}]
    /\ table' = PutEntry(table, m, waiters[m])
    /\ Goto(t, "switch_end")
    /\ UNCHANGED <<waiters, tableLock, notified, holds>>

\* Return with the second mutex, or wait for it like a plain lock does.
SwitchEnd(t) ==
    LET m == arg[t] IN
    /\ pc[t] = "switch_end"
    /\ tableLock' = None
    /\ \/ /\ got[t]
          /\ table' = PutEntry(table, m, waiters[m])
          /\ Return(t) /\ Acquired(t, m)
       \/ /\ ~got[t]
          /\ Goto(t, "wait")
          /\ UNCHANGED <<table, holds>>
    /\ UNCHANGED <<word, waiters, notified>>

-----------------------------------------------------------------------------
App(t) ==
    \/ \E m \in Mutex :
         \/ AppFastLock(t, m)
         \/ \E finite \in BOOLEAN : AppSlowLock(t, m, finite)
         \/ AppUnlock(t, m)
         \/ AppDisable(t, m)
         \/ \E to \in Word, finite \in BOOLEAN : AppSwitch(t, m, to, finite)
    \/ \E c \in Cond, everyone \in BOOLEAN : AppSignal(t, c, everyone)

\* Steps inside the loader.
Loader(t) ==
    \/ Lock(t) \/ LockClear(t) \/ WaitNotified(t)
    \/ Unblock(t) \/ UnblockClear(t)
    \/ SwitchPrepare(t) \/ SwitchClear(t) \/ SwitchRelease(t)
    \/ SwitchUnblock(t) \/ SwitchUnblockClear(t) \/ SwitchEnd(t)

Next == \E t \in Thread : App(t) \/ Loader(t) \/ WaitTimedOut(t)

Spec == Init /\ [][Next]_vars

-----------------------------------------------------------------------------
(* Properties *)

\* The thread owns the mutex, or has been given it and is on its way out.
Owns(t, m) ==
    \/ m \in holds[t]
    \/ /\ arg[t] = m
       /\ \/ pc[t] = "lock_clear"
          \/ pc[t] \in {"switch_clear", "switch_release", "switch_unblock",
                       "switch_unblock_clear", "switch_end"}
             /\ (got[t] \/ notified[t])
          \/ pc[t] = "wait" /\ notified[t]

\* A mutex that is not disabled has one owner at most, counting the thread to
\* which unblock has handed the lock over but which has not woken up yet
\* (loader_mutex_unblock_locked, lock_locked: "The unblocking thread has
\* handed the lock over to us").
MutualExclusion ==
    \A m \in Mutex : "DISABLED" \notin word[m] =>
        \A t, u \in Thread : Owns(t, m) /\ Owns(u, m) => t = u

\* Nobody sleeps on a free mutex unless the thread that freed it is still
\* about to call unblock.
NoStrandedWaiter ==
    \A m \in Mutex : waiters[m] # << >> /\ "LOCKED" \notin word[m] =>
        \E t \in Thread :
            \/ pc[t] = "unblock" /\ arg[t] = m
            \/ pc[t] = "switch_unblock" /\ frm[t] = m

\* The thread waits, or has given up its first mutex in switch_lock without
\* having the second.
Waits(t) == \/ pc[t] = "wait"
            \/ /\ ~got[t]
               /\ pc[t] \in {"switch_release", "switch_unblock",
                             "switch_unblock_clear", "switch_end"}
Queued(t, m) == \E i \in 1..Len(waiters[m]) : waiters[m][i] = t

\* No notification is lost, none is left behind, and no deque holds a Waiter
\* whose thread has returned: the deque of a word holds the threads that wait
\* for it and have not been notified, each once.  When the table lock is free
\* the table has an entry for exactly the words that have waiters, so a thread
\* that times out finds the entry it remembered.
QueuesExact ==
    /\ \A t \in Thread, m \in Word :
         Queued(t, m) <=> Waits(t) /\ arg[t] = m /\ ~notified[t]
    /\ \A m \in Word : \A i, j \in 1..Len(waiters[m]) :
         waiters[m][i] = waiters[m][j] => i = j
    /\ tableLock = None => table = {m \in Word : waiters[m] # << >>}

\* Nobody waits in vain: no waiter is left on a mutex that nobody will unblock,
\* and no notification is lost with a deque or a table entry that is out of date.
\* (loader_mutex_unblock_locked, the timeout of lock_locked, switch_lock)
NobodyStranded == NoStrandedWaiter /\ QueuesExact

\* The parts of the inductive invariant behind MutualExclusion.
InTable == {"lock_clear", "unblock_clear", "switch_clear", "switch_release",
            "switch_unblock", "switch_unblock_clear", "switch_end"}
Switching == {"switch", "switch_clear", "switch_release", "switch_unblock",
              "switch_unblock_clear", "switch_end"}

\* What each place in a call says about the call's words.
FrameOK ==
    \A t \in Thread :
        /\ pc[t] \in InTable => tableLock = t
        /\ pc[t] # "idle" => arg[t] \in Word
        /\ pc[t] \in {"lock", "lock_clear"} => arg[t] \in Mutex
        /\ pc[t] = "unblock_all" => arg[t] \in Cond
        /\ pc[t] \in Switching => frm[t] \in Mutex /\ frm[t] # arg[t]
        /\ pc[t] \in {"switch", "switch_clear", "switch_release"} =>
              frm[t] \in holds[t]
        /\ pc[t] = "switch_clear" => got[t]
        /\ ~Waits(t) => ~notified[t]

\* A deque holds threads that wait for its word, each once, none notified.
QueueOK ==
    \A m \in Word : \A i \in 1..Len(waiters[m]) :
        /\ Waits(waiters[m][i])
        /\ arg[waiters[m][i]] = m
        /\ ~notified[waiters[m][i]]
        /\ \A j \in 1..Len(waiters[m]) : waiters[m][i] = waiters[m][j] => i = j

\* A mutex that has an owner is locked.
OwnedIsLocked ==
    \A m \in Mutex : "DISABLED" \notin word[m] =>
        \A t \in Thread : Owns(t, m) => "LOCKED" \in word[m]

Inductive == TypeOK /\ FrameOK /\ QueueOK /\ OwnedIsLocked /\ MutualExclusion

\* The mutexes that are never disabled implement the abstract lock service.
Lasting == Mutex \ Disableable
Service == INSTANCE LockService
             WITH Locks <- Lasting,
                  owner <- [m \in Lasting |-> {t \in Thread : Owns(t, m)}]
ImplementsLockService == Service!Spec
=============================================================================
