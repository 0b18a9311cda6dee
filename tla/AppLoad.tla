------------------------------ MODULE AppLoad -------------------------------
(***************************************************************************)
(* Who loads an application waits until it is relocated                    *)
(* (server_apploadnotification.cpp).  The report is set, polled for a      *)
(* waiter and taken back in sections of _lock of their own, and so are the *)
(* test of the waiter, its sleep and the end of its condition variable.    *)
(* A process is waited for by the one that loaded it, and its id is not    *)
(* given to another as long as a report of the first one is polling.       *)
(***************************************************************************)
EXTENDS Integers

CONSTANTS
    Pid,       \* ids of processes
    MaxTries,  \* kDefaultNotificationTimeout in polls of 100 ms
    MaxLoads   \* bound: processes that get one id, in turn

ASSUME AppLoadAssumption == MaxTries \in Nat \ {0} /\ MaxLoads \in Nat

VARIABLES
    load,     \* how many processes have had the id
    pend,     \* _pendingNotifications: which of them reported, 0 for none
    cond,     \* _waitingConditions
    waiter,   \* how far WaitForAppLoad is, and what it got
    reports,  \* running NotifyAppLoad calls
    late      \* history: ids of which a report woke a waiter that was through

appLoadVars == <<load, pend, cond, waiter, reports, late>>

NoWait == [at |-> "idle", got |-> 0]

AppLoadInit ==
    /\ load = [p \in Pid |-> 0]
    /\ pend = [p \in Pid |-> 0]
    /\ cond = {}
    /\ waiter = [p \in Pid |-> NoWait]
    /\ reports = [p \in Pid |-> {}]
    /\ late = {}

\* spawn by _moni_load_image, once nothing of the last process is left
Load(p) ==
    /\ load[p] < MaxLoads /\ reports[p] = {} /\ waiter[p] = NoWait
    /\ load' = [load EXCEPT ![p] = @ + 1]
    /\ UNCHANGED <<pend, cond, waiter, reports, late>>

StartReport(p, n) ==
    /\ load[p] > 0
    /\ \A r \in reports[p] : r.n # n
    /\ reports' = [reports EXCEPT ![p] =
                     @ \cup {[n |-> n, of |-> load[p], at |-> "set", tries |-> MaxTries]}]
    /\ UNCHANGED <<load, pend, cond, waiter, late>>
\* image_relocated of the application, and loading_app_failed, whose status is
\* dropped: both report B_OK.
Relocated(p) == StartReport(p, "relocated")
NotifyLoadingApp(p) == StartReport(p, "failed")

-----------------------------------------------------------------------------
(* NotifyAppLoad *)

Move(p, r, to) == reports' = [reports EXCEPT ![p] = (@ \ {r}) \cup to]

NotifySets(p, r) ==
    /\ r.at = "set"
    /\ pend' = [pend EXCEPT ![p] = r.of]
    /\ Move(p, r, {[r EXCEPT !.at = "poll"]})
    /\ UNCHANGED <<load, cond, waiter, late>>
\* Collected, or nobody came: the report is taken back in a later section.
NotifyEnds(p, r) ==
    /\ r.at = "poll" /\ (r.tries = 0 \/ pend[p] = 0)
    /\ Move(p, r, {[r EXCEPT !.at = "erase"]})
    /\ UNCHANGED <<load, pend, cond, waiter, late>>
NotifyPolls(p, r) ==
    /\ r.at = "poll" /\ r.tries > 0 /\ pend[p] # 0 /\ p \notin cond
    /\ Move(p, r, {[r EXCEPT !.tries = @ - 1]})
    /\ UNCHANGED <<load, pend, cond, waiter, late>>
NotifyWakes(p, r) ==
    /\ r.at = "poll" /\ r.tries > 0 /\ pend[p] # 0 /\ p \in cond
    /\ Move(p, r, {})
    /\ waiter' = [waiter EXCEPT ![p].at = IF @ = "asleep" THEN "woken" ELSE @]
    /\ late' = IF waiter[p].at = "end" THEN late \cup {p} ELSE late
    /\ UNCHANGED <<load, pend, cond>>
\* mutant: a report that nobody asked for stays
TakenBackNot(p) == pend
TakenBack(p) == [pend EXCEPT ![p] = 0]
NotifyErases(p, r) ==
    /\ r.at = "erase"
    /\ pend' = TakenBack(p)
    /\ Move(p, r, {})
    /\ UNCHANGED <<load, cond, waiter, late>>

-----------------------------------------------------------------------------
(* WaitForAppLoad *)

\* What is pending is taken at once; otherwise there is a condition variable.
WaitBegins(p) ==
    /\ waiter[p] = NoWait /\ load[p] > 0
    /\ waiter' = [waiter EXCEPT ![p] =
                    IF pend[p] # 0 THEN [at |-> "done", got |-> pend[p]]
                    ELSE [at |-> "test", got |-> 0]]
    /\ cond' = IF pend[p] = 0 THEN cond \cup {p} ELSE cond
    /\ pend' = [pend EXCEPT ![p] = 0]
    /\ UNCHANGED <<load, reports, late>>
\* mutant: the sleep does not look first
LooksNot(p) == waiter[p].at = "woken" /\ pend[p] # 0
\* The predicate of wait_for holds, before the sleep or after it.
Looks(p) == waiter[p].at \in {"test", "woken"} /\ pend[p] # 0
WaitTakes(p) ==
    /\ Looks(p)
    /\ waiter' = [waiter EXCEPT ![p] = [at |-> "end", got |-> pend[p]]]
    /\ pend' = [pend EXCEPT ![p] = 0]
    /\ UNCHANGED <<load, cond, reports, late>>
WaitSleeps(p) ==
    /\ waiter[p].at \in {"test", "woken"} /\ ~Looks(p)
    /\ waiter' = [waiter EXCEPT ![p].at = "asleep"]
    /\ UNCHANGED <<load, pend, cond, reports, late>>
\* A timeout still takes what is pending.
WaitTimesOut(p) ==
    /\ waiter[p].at = "asleep"
    /\ waiter' = [waiter EXCEPT ![p] = [at |-> "end", got |-> pend[p]]]
    /\ pend' = [pend EXCEPT ![p] = 0]
    /\ UNCHANGED <<load, cond, reports, late>>
WaitEnds(p) ==
    /\ waiter[p].at = "end"
    /\ waiter' = [waiter EXCEPT ![p].at = "done"]
    /\ cond' = cond \ {p}
    /\ UNCHANGED <<load, pend, reports, late>>
WaitReturns(p) ==
    /\ waiter[p].at = "done"
    /\ waiter' = [waiter EXCEPT ![p] = NoWait]
    /\ UNCHANGED <<load, pend, cond, reports, late>>

AppLoadStep ==
    \E p \in Pid :
        \/ Load(p) \/ NotifyLoadingApp(p) \/ Relocated(p)
        \/ \E r \in reports[p] : \/ NotifySets(p, r) \/ NotifyEnds(p, r) \/ NotifyPolls(p, r)
                                 \/ NotifyWakes(p, r) \/ NotifyErases(p, r)
        \/ WaitBegins(p) \/ WaitTakes(p) \/ WaitSleeps(p) \/ WaitTimesOut(p) \/ WaitEnds(p)
        \/ WaitReturns(p)

AppLoadSpec == AppLoadInit /\ [][AppLoadStep]_appLoadVars

-----------------------------------------------------------------------------
(* Properties *)

\* Nobody sleeps over a report: it is still on its way to wake him, whatever
\* came between the test of the waiter, the report and its polls.  And who is
\* told of a load is told of the process he loaded, not of one that had the id
\* before, unless a report once found the condition variable of a waiter that
\* had timed out or taken another report: it leaves itself behind (late).
LoadReported ==
    \A p \in Pid :
        /\ waiter[p].at = "asleep" /\ pend[p] # 0 =>
              \E r \in reports[p] : r.at = "poll" /\ r.tries > 0
        /\ waiter[p].got # 0 => waiter[p].got = load[p] \/ p \in late
=============================================================================
