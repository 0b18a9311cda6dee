------------------------------ MODULE Workers ------------------------------
(***************************************************************************)
(* The worker pool of hyclone_server (server_workers.h, server_workers.cpp)*)
(* and its use by a monitor such as a port, a semaphore or a thread.       *)
(*                                                                         *)
(* Every server call runs on a thread of its own, which waits until        *)
(* server_remaining_workers is not 0 and takes one off.  A call that is    *)
(* about to wait on a condition variable or to sleep gives its slot back   *)
(* and takes one again afterwards: server_worker_run_wait does so while    *)
(* the call holds the mutex of the condition variable.                     *)
(***************************************************************************)
EXTENDS Integers, FiniteSets

CONSTANTS
    Task,        \* server calls, each on a thread of its own
    Slots,       \* std::thread::hardware_concurrency()
    Kinds,       \* what the calls do, a subset of Kind
    None

\* A call waits for a permit, makes one, sleeps for a while, or does neither.
Kind == {"acquire", "release", "nap", "plain"}

ASSUME WorkersAssumption ==
    /\ Slots \in Nat \ {0}
    /\ IsFiniteSet(Task)
    /\ Kinds \subseteq Kind
    /\ None \notin Task

VARIABLES
    remaining,   \* server_remaining_workers
    parked,      \* threads blocked in server_remaining_workers.wait(0)
    lock,        \* the holder of the monitor's mutex
    permits,     \* what the monitor's predicate looks at
    sleepers,    \* calls asleep on the condition variable, not yet notified
    pc,          \* where a call is
    kind,        \* what it does
    then         \* where it goes on with its slot, or without

vars == <<remaining, parked, lock, permits, sleepers, pc, kind, then>>
pool == <<remaining, parked>>
monitor == <<lock, permits, sleepers>>

PC == {"new", "gate", "take", "run", "giveBack", "notify", "sleep", "asleep",
       "nap", "woken", "finish", "done"}

TypeOK ==
    /\ remaining \in Int
    /\ parked \subseteq Task /\ sleepers \subseteq Task
    /\ lock \in Task \cup {None}
    /\ permits \in Nat
    /\ pc \in [Task -> PC]
    /\ kind \in [Task -> Kind \cup {None}]
    /\ then \in [Task -> {"run", "sleep", "nap", "woken", "finish", "done"}]

Init ==
    /\ remaining = Slots
    /\ parked = {}
    /\ lock = None /\ permits = 0 /\ sleepers = {}
    /\ pc = [t \in Task |-> "new"]
    /\ kind = [t \in Task |-> None]
    /\ then = [t \in Task |-> "run"]

Goto(t, l) == pc' = [pc EXCEPT ![t] = l] /\ UNCHANGED <<kind, then>>

\* Go through the pool (the gate, or giving a slot back) and then to l.
Via(t, p, l) ==
    /\ pc' = [pc EXCEPT ![t] = p]
    /\ then' = [then EXCEPT ![t] = l]
    /\ UNCHANGED kind

-----------------------------------------------------------------------------
(* The pool. *)

\* The main loop has read a server call: server_worker_run.
Spawn(t, k) ==
    /\ pc[t] = "new"
    /\ pc' = [pc EXCEPT ![t] = "gate"]
    /\ kind' = [kind EXCEPT ![t] = k]
    /\ UNCHANGED <<pool, monitor, then>>

\* server_remaining_workers.wait(0): any other value lets a thread pass, and
\* nothing keeps that value until the thread decrements it.
Gate(t) ==
    /\ pc[t] = "gate" /\ t \notin parked
    /\ IF remaining # 0 THEN Goto(t, "take") /\ UNCHANGED parked
                        ELSE parked' = parked \cup {t} /\ UNCHANGED <<pc, kind, then>>
    /\ UNCHANGED <<remaining, monitor>>

\* --server_remaining_workers
Take(t) ==
    /\ pc[t] = "take"
    /\ remaining' = remaining - 1
    /\ Goto(t, then[t])
    /\ UNCHANGED <<parked, monitor>>

\* ++server_remaining_workers
AfterKept == remaining  \* mutant: the slot is not given back
AfterGiven == remaining + 1
GiveBack(t) ==
    /\ pc[t] = "giveBack"
    /\ remaining' = AfterGiven
    /\ Goto(t, "notify")
    /\ UNCHANGED <<parked, monitor>>

\* server_remaining_workers.notify_one()
WakeNone == UNCHANGED parked  \* mutant
WakeOne == IF parked = {} THEN parked' = {} ELSE \E u \in parked : parked' = parked \ {u}
Notify(t) ==
    /\ pc[t] = "notify"
    /\ WakeOne
    /\ Goto(t, then[t])
    /\ UNCHANGED <<remaining, monitor>>

-----------------------------------------------------------------------------
(* The calls. *)

\* A call that does not block, or server_worker_sleep: the slot is given back
\* for the time of the sleep.
Plain(t) ==
    /\ pc[t] = "run" /\ kind[t] = "plain"
    /\ Via(t, "giveBack", "done")
    /\ UNCHANGED <<pool, monitor>>

Nap(t) ==
    /\ pc[t] = "run" /\ kind[t] = "nap"
    /\ Via(t, "giveBack", "nap")
    /\ UNCHANGED <<pool, monitor>>

NapOver(t) ==
    /\ pc[t] = "nap"
    /\ Via(t, "gate", "finish")
    /\ UNCHANGED <<pool, monitor>>

\* A call that makes the predicate true and notifies everyone, in one
\* critical section: Semaphore::Release.
Release(t) ==
    /\ pc[t] = "run" /\ kind[t] = "release" /\ lock = None
    /\ permits' = permits + 1 /\ sleepers' = {}
    /\ Via(t, "giveBack", "done")
    /\ UNCHANGED <<pool, lock>>

\* A call that finds the predicate true, and one that has to wait for it:
\* Semaphore::Acquire.  The Cleaner of server_worker_run_wait gives the slot
\* back while the mutex is held.
AcquireNow(t) ==
    /\ pc[t] = "run" /\ kind[t] = "acquire" /\ lock = None /\ permits > 0
    /\ permits' = permits - 1
    /\ Via(t, "giveBack", "done")
    /\ UNCHANGED <<pool, lock, sleepers>>

AcquireWait(t) ==
    /\ pc[t] = "run" /\ kind[t] = "acquire" /\ lock = None /\ permits = 0
    /\ lock' = t
    /\ Via(t, "giveBack", "sleep")
    /\ UNCHANGED <<pool, permits, sleepers>>

\* The condition variable releases the mutex.
Sleep(t) ==
    /\ pc[t] = "sleep"
    /\ lock' = None /\ sleepers' = sleepers \cup {t}
    /\ Goto(t, "asleep")
    /\ UNCHANGED <<pool, permits>>

\* The predicate that the condition variable tests after every wake-up.
Tested == permits > 0

\* It takes the mutex again, and, if the predicate holds, ~Cleaner goes to the
\* gate of the pool with it.
WakeUp(t) ==
    /\ pc[t] = "asleep" /\ t \notin sleepers /\ lock = None
    /\ IF Tested
         THEN lock' = t /\ Via(t, "gate", "woken") /\ UNCHANGED sleepers
         ELSE sleepers' = sleepers \cup {t} /\ UNCHANGED <<lock, pc, kind, then>>
    /\ UNCHANGED <<pool, permits>>

Woken(t) ==
    /\ pc[t] = "woken"
    /\ permits' = permits - 1 /\ lock' = None
    /\ Via(t, "giveBack", "done")
    /\ UNCHANGED <<pool, sleepers>>

\* The end of a call that has slept.
Finish(t) ==
    /\ pc[t] = "finish"
    /\ Via(t, "giveBack", "done")
    /\ UNCHANGED <<pool, monitor>>

-----------------------------------------------------------------------------
Worker(t) ==
    \/ Gate(t) \/ Take(t) \/ GiveBack(t) \/ Notify(t)
    \/ Plain(t) \/ Nap(t) \/ NapOver(t) \/ Release(t) \/ AcquireNow(t)
    \/ AcquireWait(t) \/ Sleep(t) \/ WakeUp(t) \/ Woken(t) \/ Finish(t)

Next == \E t \in Task : (\E k \in Kinds : Spawn(t, k)) \/ Worker(t)

Spec == Init /\ [][Next]_vars

\* Threads run, and get a mutex that is free again and again.
Fairness == \A t \in Task : SF_vars(Worker(t))

FairSpec == Spec /\ Fairness

-----------------------------------------------------------------------------
(* Properties *)

\* A call that has taken a slot and not yet given it back.
Holding(t) == pc[t] \in {"run", "giveBack", "woken", "finish"}

\* No slot is lost or made up: the counter and the calls that hold a slot add
\* up to the size of the pool, whatever order the increments, decrements,
\* waits and sleeps of server_workers come in.
SlotsConserved == remaining + Cardinality({t \in Task : Holding(t)}) = Slots

\* A thread is parked at the gate while slots are free only if another thread
\* is up that will take a slot or notify: a notify_one that reaches a thread
\* which finds the counter at 0 again strands nobody.
NoIdleSlot ==
    remaining > 0 /\ parked # {} =>
        \E t \in Task : pc[t] \in {"take", "notify"} \/ (pc[t] = "gate" /\ t \notin parked)

\* Every call ends if none of them waits under a mutex: neither a sleep nor a
\* burst of calls wears the pool out.
CallsEnd ==
    [](\A t \in Task : kind[t] # "acquire")
        => \A t \in Task : (pc[t] # "new") ~> (pc[t] = "done")
=============================================================================
