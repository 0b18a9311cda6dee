------------------------------- MODULE Joins --------------------------------
(***************************************************************************)
(* The table of a guest's threads in its loader (loader_spawn_thread.cpp): *)
(* a thread is entered when it has been spawned, and whoever waits for it  *)
(* joins it, takes it out and unmaps the guard of its stack.               *)
(*                                                                         *)
(* The table goes by the host's ids, which are used again as soon as a     *)
(* thread has ended.  Handles are the host's pthread_t, never used twice:  *)
(* the stacks they lie in stay mapped.                                     *)
(***************************************************************************)
EXTENDS Integers, FiniteSets, Functions

CONSTANTS
    JoinTid,   \* ids of threads
    Handle,    \* bound: the threads ever spawned
    Joiner,    \* threads that wait for others
    NoHandle

ASSUME JoinsAssumption == NoHandle \notin Handle

VARIABLES
    pthread,    \* host: [tid, state] of each handle
    objects,    \* sHostPthreadObjects: the handle behind an id
    guard,      \* threads whose stack has a guard that is mapped
    guardArea,  \* threads whose guard is an area of the server
    joiner,     \* a call of wait_for_thread: [at, tid, handle]
    shadowed,   \* history: see JoinsAgree
    astray      \* history: threads that have left their areas behind

joinsVars == <<pthread, objects, guard, guardArea, joiner, shadowed, astray>>

NoJoin == [at |-> "idle", tid |-> 0, handle |-> NoHandle]
NoPthread == [tid |-> 0, state |-> "none"]

JoinsInit ==
    /\ pthread = [h \in Handle |-> NoPthread]
    /\ objects = <<>> /\ guard = {} /\ guardArea = {}
    /\ joiner = [j \in Joiner |-> NoJoin]
    /\ shadowed = {} /\ astray = {}

Alive(h) == pthread[h].state \in {"spawned", "running"}

-----------------------------------------------------------------------------
(* Spawning *)

\* The stack, with a guard or without.  A call that fails leaves nothing but a
\* stack that nobody knows of.
MakeStack(h, guarded) == guard' = IF guarded THEN guard \cup {h} ELSE guard
\* The new thread registers itself and its areas and stores its id.
SpawnThread(h, tid, guarded) ==
    /\ pthread[h] = NoPthread
    /\ \A k \in Handle : Alive(k) => pthread[k].tid # tid
    /\ pthread' = [pthread EXCEPT ![h] = [tid |-> tid, state |-> "spawned"]]
    /\ MakeStack(h, guarded)
    /\ guardArea' = IF guarded THEN guardArea \cup {h} ELSE guardArea
    /\ UNCHANGED <<objects, joiner, shadowed, astray>>

\* Somebody waits for an earlier thread with the id.
Awaited(tid) == \E j \in Joiner : joiner[j].at # "idle" /\ joiner[j].tid = tid
\* The parent has the id and enters the thread; its call returns.
EnterThread(h) ==
    /\ pthread[h].state = "spawned"
    /\ pthread' = [pthread EXCEPT ![h].state = "running"]
    /\ objects' = [t \in DOMAIN objects \cup {pthread[h].tid} |->
                      IF t = pthread[h].tid THEN h ELSE objects[t]]
    /\ shadowed' = IF Awaited(pthread[h].tid) THEN shadowed \cup {h} ELSE shadowed
    /\ UNCHANGED <<guard, guardArea, joiner, astray>>

-----------------------------------------------------------------------------
(* Ending *)

PthreadEnds(h) ==
    /\ pthread[h].state = "running"
    /\ pthread' = [pthread EXCEPT ![h].state = "ended"]
\* What attributes->guard_size > 0 says: the attributes are the parent's, and its
\* call has returned.
GuardSaid == BOOLEAN
\* The entry function returns.  A guard that never was is unregistered by an id
\* that never was set: any area, or none.
EntryReturns(h) ==
    /\ PthreadEnds(h)
    /\ \E said \in GuardSaid :
        \/ ~said /\ guardArea' = guardArea
        \/ said /\ h \in guardArea /\ guardArea' = guardArea \ {h}
        \/ said /\ h \notin guardArea /\ \E k \in Handle : guardArea' = guardArea \ {k}
    /\ astray' = IF h \in guardArea' THEN astray \cup {h} ELSE astray
    /\ UNCHANGED <<objects, guard, joiner, shadowed>>
\* exit_thread cleans nothing up.
ExitThread(h) ==
    /\ PthreadEnds(h)
    /\ astray' = astray \cup {h}
    /\ UNCHANGED <<objects, guard, guardArea, joiner, shadowed>>

-----------------------------------------------------------------------------
(* wait_for_thread *)

\* An id that is not in the table is refused.
WaitForThread(j, tid) ==
    /\ joiner[j] = NoJoin /\ tid \in DOMAIN objects
    /\ joiner' = [joiner EXCEPT ![j] = [at |-> "found", tid |-> tid, handle |-> objects[tid]]]
    /\ UNCHANGED <<pthread, objects, guard, guardArea, shadowed, astray>>
\* host: one thread can join another, and once.
Joins(j) ==
    LET h == joiner[j].handle IN
    /\ joiner[j].at = "found"
    /\ joiner' = [joiner EXCEPT ![j] =
         IF pthread[h].state = "joined" \/ \E k \in Joiner : joiner[k].at = "joining" /\ joiner[k].handle = h
         THEN NoJoin ELSE [@ EXCEPT !.at = "joining"]]
    /\ UNCHANGED <<pthread, objects, guard, guardArea, shadowed, astray>>
Joined(j) ==
    LET h == joiner[j].handle IN
    /\ joiner[j].at = "joining" /\ pthread[h].state = "ended"
    /\ pthread' = [pthread EXCEPT ![h].state = "joined"]
    /\ joiner' = [joiner EXCEPT ![j].at = "joined"]
    /\ UNCHANGED <<objects, guard, guardArea, shadowed, astray>>
\* mutant: who gives up takes the thread out all the same
JoinTimesOutErases(j) ==
    /\ joiner[j].at = "joining"
    /\ joiner' = [joiner EXCEPT ![j] = NoJoin]
    /\ objects' = Restrict(objects, DOMAIN objects \ {joiner[j].tid})
    /\ UNCHANGED <<pthread, guard, guardArea, shadowed, astray>>
JoinTimesOut(j) ==
    /\ joiner[j].at = "joining"
    /\ joiner' = [joiner EXCEPT ![j] = NoJoin]
    /\ UNCHANGED <<pthread, objects, guard, guardArea, shadowed, astray>>
\* What is under the id now is taken out, and the guard of that unmapped.
EraseThread(j) ==
    LET tid == joiner[j].tid IN
    /\ joiner[j].at = "joined"
    /\ guard' = IF tid \in DOMAIN objects THEN guard \ {objects[tid]} ELSE guard
    /\ objects' = Restrict(objects, DOMAIN objects \ {tid})
    /\ joiner' = [joiner EXCEPT ![j] = NoJoin]
    /\ UNCHANGED <<pthread, guardArea, shadowed, astray>>

JoinsStep ==
    \/ \E h \in Handle :
        \/ EnterThread(h) \/ EntryReturns(h) \/ ExitThread(h)
        \/ \E tid \in JoinTid, guarded \in BOOLEAN : SpawnThread(h, tid, guarded)
    \/ \E j \in Joiner :
        \/ Joins(j) \/ Joined(j) \/ JoinTimesOut(j) \/ EraseThread(j)
        \/ \E tid \in JoinTid : WaitForThread(j, tid)

JoinsSpec == JoinsInit /\ [][JoinsStep]_joinsVars

-----------------------------------------------------------------------------
\* A thread that runs can be waited for, and its guard is there, as long as it
\* runs, whoever waits for it, gives up, or has waited for another thread of the
\* same id; and what the server lists as a guard is mapped.  Excepted are a thread
\* that was entered while somebody still waited for the earlier one with its id,
\* which the waiter then takes out for it, and threads that ended without
\* unregistering.  (loader_spawn_thread, loader_wait_for_thread,
\* loader_pthread_entry_trampoline)
JoinsAgree ==
    \A h \in Handle \ shadowed :
        /\ pthread[h].state = "running" =>
            pthread[h].tid \in DOMAIN objects /\ objects[pthread[h].tid] = h
        /\ h \in guardArea \ astray => h \in guard
=============================================================================
