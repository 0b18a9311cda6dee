---------------------------- MODULE LockService ----------------------------
(***************************************************************************)
(* What a set of mutexes promises: a free one may be taken by any thread,  *)
(* a taken one changes hands only after its owner has given it up.  Whether*)
(* the next owner found the mutex free or was handed it is not visible.    *)
(***************************************************************************)
CONSTANTS Thread, Locks
VARIABLE owner

Init == owner = [m \in Locks |-> {}]

Acquire(t, m) ==
    /\ owner[m] = {}
    /\ owner' = [owner EXCEPT ![m] = {t}]

Release(t, m) ==
    /\ owner[m] = {t}
    /\ owner' = [owner EXCEPT ![m] = {}]

Next == \E t \in Thread, m \in Locks : Acquire(t, m) \/ Release(t, m)

Spec == Init /\ [][Next]_owner
=============================================================================
