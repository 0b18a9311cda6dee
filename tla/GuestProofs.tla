---------------------------- MODULE GuestProofs -----------------------------
(***************************************************************************)
(* Proofs about the places where guests wait for each other: AppLoad,      *)
(* where who loads an application waits for its report, Joins, the         *)
(* loader's table of the threads that can be waited for, Debugging, where  *)
(* debuggers wait for the team they want to debug, and Threads, where      *)
(* threads block and send data: what send_data accepts is received once    *)
(* and in order, and nobody sleeps on a Thread object without a reason;    *)
(* and about Signals, the handlers and sleeps of a guest, Descriptors, the *)
(* three tables of what a guest has open, and EventQueue, the records that *)
(* monika keeps of what epoll watches.                                     *)
(***************************************************************************)
EXTENDS AppLoad, Joins, Debugging, Threads, Signals, Descriptors, EventQueue, TLAPS,
        SequenceTheorems, WellFoundedInduction, FiniteSetTheorems

-----------------------------------------------------------------------------
(* Waiting for an application. *)

ReportType == [n : {"relocated", "failed"}, of : Nat, at : {"set", "poll", "erase"}, tries : Nat]
WaiterType == [at : {"idle", "test", "asleep", "woken", "end", "done"}, got : Nat]

AppLoadTypeOK ==
    /\ load \in [Pid -> Nat] /\ pend \in [Pid -> Nat]
    /\ cond \in SUBSET Pid /\ late \in SUBSET Pid
    /\ waiter \in [Pid -> WaiterType]
    /\ reports \in [Pid -> SUBSET ReportType]

\* A condition variable is there exactly from the first look of the waiter on.
CondOK(p) == p \in cond <=> waiter[p].at \in {"test", "asleep", "woken", "end"}

\* Who reports is of the process that has the id now, and will poll.
ReportsOK(p) == \A r \in reports[p] : r.of = load[p] /\ (r.at = "set" => r.tries > 0)

\* What is pending will be taken back or taken, unless a report came late.
PendOK(p) ==
    pend[p] # 0 /\ p \notin late =>
        /\ pend[p] = load[p]
        /\ waiter[p].at \in {"test", "woken"} \/ \E r \in reports[p] : r.at \in {"poll", "erase"}

\* The two parts of LoadReported.
NotOverslept(p) ==
    waiter[p].at = "asleep" /\ pend[p] # 0 => \E r \in reports[p] : r.at = "poll" /\ r.tries > 0
ToldRight(p) == waiter[p].got # 0 => waiter[p].got = load[p] \/ p \in late

LoadOK(p) == CondOK(p) /\ ReportsOK(p) /\ PendOK(p) /\ NotOverslept(p) /\ ToldRight(p)
AppLoadInductive == AppLoadTypeOK /\ \A p \in Pid : LoadOK(p)

\* A step is about one id.
OnlyOf(p) ==
    \A q \in Pid \ {p} :
        /\ load'[q] = load[q] /\ pend'[q] = pend[q]
        /\ waiter'[q] = waiter[q] /\ reports'[q] = reports[q]
        /\ q \in cond' <=> q \in cond
        /\ q \in late' <=> q \in late

LEMMA OthersKept ==
    ASSUME AppLoadInductive, NEW p \in Pid, AppLoadTypeOK', OnlyOf(p), LoadOK(p)'
    PROVE  AppLoadInductive'
<1> SUFFICES ASSUME NEW q \in Pid PROVE LoadOK(q)'
  BY DEF AppLoadInductive
<1>1. CASE q = p
  BY <1>1
<1>2. CASE q # p
  <2>1. LoadOK(q)
    BY DEF AppLoadInductive
  <2>2. /\ load'[q] = load[q] /\ pend'[q] = pend[q]
        /\ waiter'[q] = waiter[q] /\ reports'[q] = reports[q]
        /\ q \in cond' <=> q \in cond
        /\ q \in late' <=> q \in late
    BY <1>2 DEF OnlyOf
  <2> QED BY <2>1, <2>2 DEF LoadOK, CondOK, ReportsOK, PendOK, NotOverslept, ToldRight
<1> QED BY <1>1, <1>2

\* What a step leaves in its record of a report.
LEMMA MovedReport ==
    ASSUME AppLoadTypeOK, NEW p \in Pid, NEW r \in reports[p]
    PROVE  /\ r \in ReportType
           /\ \A at \in {"set", "poll", "erase"} :
                LET s == [r EXCEPT !.at = at]
                IN s \in ReportType /\ s.at = at /\ s.of = r.of /\ s.tries = r.tries
           /\ r.tries > 0 =>
                LET s == [r EXCEPT !.tries = @ - 1]
                IN s \in ReportType /\ s.at = r.at /\ s.of = r.of /\ s.tries = r.tries - 1
<1>1. r \in ReportType
  BY DEF AppLoadTypeOK
<1> QED BY <1>1 DEF ReportType

LEMMA AppLoadInitially == AppLoadInit => AppLoadInductive
  BY DEF AppLoadInit, AppLoadInductive, AppLoadTypeOK, LoadOK, CondOK, ReportsOK, PendOK,
         NotOverslept, ToldRight, WaiterType, ReportType, NoWait

\* A new process, or a new report.
LEMMA LoadsKept ==
    ASSUME AppLoadInductive, NEW p \in Pid,
           \/ Load(p)
           \/ \E n \in {"relocated", "failed"} : StartReport(p, n)
    PROVE  AppLoadInductive'
<1>0. AppLoadTypeOK /\ LoadOK(p)
  BY DEF AppLoadInductive
<1>1. CASE Load(p)
  <2>1. AppLoadTypeOK' /\ OnlyOf(p)
    BY <1>0, <1>1 DEF Load, AppLoadTypeOK, OnlyOf
  <2>2. /\ reports'[p] = {} /\ waiter'[p] = NoWait /\ waiter[p] = NoWait /\ reports[p] = {}
        /\ UNCHANGED <<pend, cond, late>>
    BY <1>1 DEF Load
  <2>3. pend[p] # 0 => p \in late
    BY <1>0, <2>2 DEF LoadOK, PendOK, NoWait
  <2>4. LoadOK(p)'
    BY <1>0, <2>2, <2>3 DEF LoadOK, CondOK, ReportsOK, PendOK, NotOverslept, ToldRight, NoWait
  <2> QED BY <2>1, <2>4, OthersKept
<1>2. ASSUME NEW n \in {"relocated", "failed"}, StartReport(p, n) PROVE AppLoadInductive'
  <2> DEFINE r == [n |-> n, of |-> load[p], at |-> "set", tries |-> MaxTries]
  <2>1. r \in ReportType /\ r.of = load[p] /\ r.tries > 0
    BY <1>0, AppLoadAssumption DEF AppLoadTypeOK, ReportType
  <2>2. /\ reports' = [reports EXCEPT ![p] = @ \cup {r}]
        /\ UNCHANGED <<load, pend, cond, waiter, late>>
    BY <1>2 DEF StartReport
  <2> HIDE DEF r
  <2>3. AppLoadTypeOK' /\ OnlyOf(p) /\ reports'[p] = reports[p] \cup {r}
    BY <1>0, <2>1, <2>2 DEF AppLoadTypeOK, OnlyOf
  <2>4. LoadOK(p)'
    BY <1>0, <2>1, <2>2, <2>3 DEF LoadOK, CondOK, ReportsOK, PendOK, NotOverslept, ToldRight
  <2> QED BY <2>3, <2>4, OthersKept
<1> QED BY <1>1, <1>2

\* NotifyAppLoad
LEMMA NotifyKept ==
    ASSUME AppLoadInductive, NEW p \in Pid, NEW r \in reports[p],
           \/ NotifySets(p, r) \/ NotifyEnds(p, r) \/ NotifyPolls(p, r)
           \/ NotifyWakes(p, r) \/ NotifyErases(p, r)
    PROVE  AppLoadInductive'
<1>0. AppLoadTypeOK /\ LoadOK(p)
  BY DEF AppLoadInductive
<1>r. r \in ReportType /\ r.of = load[p] /\ r.tries \in Nat /\ load[p] \in Nat
  BY <1>0, MovedReport DEF LoadOK, ReportsOK, ReportType, AppLoadTypeOK
<1>w. waiter[p] \in WaiterType
  BY <1>0 DEF AppLoadTypeOK
<1>1. CASE NotifySets(p, r)
  <2> DEFINE s == [r EXCEPT !.at = "poll"]
  <2>1. s \in ReportType /\ s.at = "poll" /\ s.of = load[p] /\ s.tries = r.tries
    BY <1>0, <1>r, MovedReport
  <2>2. /\ r.at = "set" /\ reports' = [reports EXCEPT ![p] = (@ \ {r}) \cup {s}]
        /\ pend' = [pend EXCEPT ![p] = load[p]]
        /\ UNCHANGED <<load, cond, waiter, late>>
    BY <1>1, <1>r DEF NotifySets, Move
  <2> HIDE DEF s
  <2>3. /\ AppLoadTypeOK' /\ OnlyOf(p)
        /\ reports'[p] = (reports[p] \ {r}) \cup {s} /\ pend'[p] = load[p]
    BY <1>0, <1>r, <2>1, <2>2 DEF AppLoadTypeOK, OnlyOf
  <2>4. LoadOK(p)'
    BY <1>0, <1>r, <2>1, <2>2, <2>3 DEF LoadOK, CondOK, ReportsOK, PendOK, NotOverslept, ToldRight
  <2> QED BY <2>3, <2>4, OthersKept
<1>2. CASE NotifyEnds(p, r)
  <2> DEFINE s == [r EXCEPT !.at = "erase"]
  <2>1. s \in ReportType /\ s.at = "erase" /\ s.of = load[p]
    BY <1>0, <1>r, MovedReport
  <2>2. /\ r.at = "poll" /\ (r.tries = 0 \/ pend[p] = 0)
        /\ reports' = [reports EXCEPT ![p] = (@ \ {r}) \cup {s}]
        /\ UNCHANGED <<load, pend, cond, waiter, late>>
    BY <1>2 DEF NotifyEnds, Move
  <2> HIDE DEF s
  <2>3. AppLoadTypeOK' /\ OnlyOf(p) /\ reports'[p] = (reports[p] \ {r}) \cup {s}
    BY <1>0, <2>1, <2>2 DEF AppLoadTypeOK, OnlyOf
  <2>4. LoadOK(p)'
    BY <1>0, <1>r, <2>1, <2>2, <2>3 DEF LoadOK, CondOK, ReportsOK, PendOK, NotOverslept, ToldRight
  <2> QED BY <2>3, <2>4, OthersKept
<1>3. CASE NotifyPolls(p, r)
  <2> DEFINE s == [r EXCEPT !.tries = @ - 1]
  <2>1. r.tries > 0 => s \in ReportType /\ s.at = r.at /\ s.of = load[p]
    BY <1>0, <1>r, MovedReport
  <2>2. /\ r.at = "poll" /\ r.tries > 0 /\ p \notin cond
        /\ reports' = [reports EXCEPT ![p] = (@ \ {r}) \cup {s}]
        /\ UNCHANGED <<load, pend, cond, waiter, late>>
    BY <1>3 DEF NotifyPolls, Move
  <2> HIDE DEF s
  <2>3. AppLoadTypeOK' /\ OnlyOf(p) /\ reports'[p] = (reports[p] \ {r}) \cup {s}
    BY <1>0, <2>1, <2>2 DEF AppLoadTypeOK, OnlyOf
  <2>4. LoadOK(p)'
    BY <1>0, <1>r, <2>1, <2>2, <2>3 DEF LoadOK, CondOK, ReportsOK, PendOK, NotOverslept, ToldRight
  <2> QED BY <2>3, <2>4, OthersKept
<1>4. CASE NotifyWakes(p, r)
  <2> DEFINE a == IF waiter[p].at = "asleep" THEN "woken" ELSE waiter[p].at
  <2>2. /\ p \in cond /\ reports' = [reports EXCEPT ![p] = @ \ {r}]
        /\ waiter' = [waiter EXCEPT ![p].at = a]
        /\ late' = IF waiter[p].at = "end" THEN late \cup {p} ELSE late
        /\ UNCHANGED <<load, pend, cond>>
    BY <1>4, <1>0, <1>w DEF NotifyWakes, Move, AppLoadTypeOK, WaiterType
  <2>3. waiter'[p] \in WaiterType /\ waiter'[p].at = a /\ waiter'[p].got = waiter[p].got
    BY <1>0, <1>w, <2>2 DEF AppLoadTypeOK, WaiterType
  <2>4. waiter'[p].at \in {"test", "woken", "end"} /\ (waiter'[p].at = "end" => p \in late')
    BY <1>0, <2>2, <2>3 DEF LoadOK, CondOK
  <2> HIDE DEF a
  <2>5. AppLoadTypeOK'
    BY <1>0, <2>2, <2>3 DEF AppLoadTypeOK
  <2>6. OnlyOf(p) /\ reports'[p] = reports[p] \ {r}
    BY <1>0, <2>2 DEF AppLoadTypeOK, OnlyOf
  <2>7. LoadOK(p)'
    BY <1>0, <2>2, <2>3, <2>4, <2>6 DEF LoadOK, CondOK, ReportsOK, PendOK, NotOverslept, ToldRight
  <2> QED BY <2>5, <2>6, <2>7, OthersKept
<1>5. CASE NotifyErases(p, r)
  <2>2. /\ reports' = [reports EXCEPT ![p] = @ \ {r}]
        /\ pend' = [pend EXCEPT ![p] = 0]
        /\ UNCHANGED <<load, cond, waiter, late>>
    BY <1>5 DEF NotifyErases, Move, TakenBack
  <2>3. AppLoadTypeOK' /\ OnlyOf(p) /\ reports'[p] = reports[p] \ {r} /\ pend'[p] = 0
    BY <1>0, <2>2 DEF AppLoadTypeOK, OnlyOf
  <2>4. LoadOK(p)'
    BY <1>0, <2>2, <2>3 DEF LoadOK, CondOK, ReportsOK, PendOK, NotOverslept, ToldRight
  <2> QED BY <2>3, <2>4, OthersKept
<1> QED BY <1>1, <1>2, <1>3, <1>4, <1>5

\* WaitForAppLoad
LEMMA WaitKept ==
    ASSUME AppLoadInductive, NEW p \in Pid,
           \/ WaitBegins(p) \/ WaitTakes(p) \/ WaitSleeps(p) \/ WaitTimesOut(p) \/ WaitEnds(p)
           \/ WaitReturns(p)
    PROVE  AppLoadInductive'
<1>0. AppLoadTypeOK /\ LoadOK(p) /\ pend[p] \in Nat /\ waiter[p] \in WaiterType
  BY DEF AppLoadInductive, AppLoadTypeOK
<1>1. CASE WaitBegins(p)
  <2> DEFINE w == IF pend[p] # 0 THEN [at |-> "done", got |-> pend[p]] ELSE [at |-> "test", got |-> 0]
  <2>1. /\ w \in WaiterType /\ w.at = (IF pend[p] # 0 THEN "done" ELSE "test")
        /\ w.got = pend[p]
    BY <1>0 DEF WaiterType
  <2>2. /\ waiter[p].at = "idle"
        /\ waiter' = [waiter EXCEPT ![p] = w] /\ pend' = [pend EXCEPT ![p] = 0]
        /\ cond' = IF pend[p] = 0 THEN cond \cup {p} ELSE cond
        /\ UNCHANGED <<load, reports, late>>
    BY <1>1 DEF WaitBegins, NoWait
  <2> HIDE DEF w
  <2>3. AppLoadTypeOK' /\ OnlyOf(p) /\ waiter'[p] = w /\ pend'[p] = 0
    BY <1>0, <2>1, <2>2 DEF AppLoadTypeOK, OnlyOf
  <2>4. LoadOK(p)'
    BY <1>0, <2>1, <2>2, <2>3 DEF LoadOK, CondOK, ReportsOK, PendOK, NotOverslept, ToldRight
  <2> QED BY <2>3, <2>4, OthersKept
<1>2. CASE WaitTakes(p) \/ WaitTimesOut(p)
  <2> DEFINE w == [at |-> "end", got |-> pend[p]]
  <2>1. w \in WaiterType /\ w.at = "end" /\ w.got = pend[p]
    BY <1>0 DEF WaiterType
  <2>2. /\ waiter[p].at \in {"test", "woken", "asleep"}
        /\ waiter' = [waiter EXCEPT ![p] = w] /\ pend' = [pend EXCEPT ![p] = 0]
        /\ UNCHANGED <<load, cond, reports, late>>
    BY <1>2 DEF WaitTakes, WaitTimesOut, Looks
  <2> HIDE DEF w
  <2>3. AppLoadTypeOK' /\ OnlyOf(p) /\ waiter'[p] = w /\ pend'[p] = 0
    BY <1>0, <2>1, <2>2 DEF AppLoadTypeOK, OnlyOf
  <2>4. LoadOK(p)'
    BY <1>0, <2>1, <2>2, <2>3 DEF LoadOK, CondOK, ReportsOK, PendOK, NotOverslept, ToldRight
  <2> QED BY <2>3, <2>4, OthersKept
<1>3. CASE WaitSleeps(p)
  <2>1. /\ waiter[p].at \in {"test", "woken"} /\ pend[p] = 0
        /\ waiter' = [waiter EXCEPT ![p].at = "asleep"]
        /\ UNCHANGED <<load, pend, cond, reports, late>>
    BY <1>3 DEF WaitSleeps, Looks
  <2>2. /\ waiter' \in [Pid -> WaiterType] /\ waiter'[p].at = "asleep" /\ waiter'[p].got = waiter[p].got
        /\ \A q \in Pid \ {p} : waiter'[q] = waiter[q]
    BY <1>0, <2>1 DEF AppLoadTypeOK, WaiterType
  <2>3. AppLoadTypeOK' /\ OnlyOf(p)
    BY <1>0, <2>1, <2>2 DEF AppLoadTypeOK, OnlyOf
  <2>4. LoadOK(p)'
    BY <1>0, <2>1, <2>2 DEF LoadOK, CondOK, ReportsOK, PendOK, NotOverslept, ToldRight
  <2> QED BY <2>3, <2>4, OthersKept
<1>4. CASE WaitEnds(p)
  <2>1. /\ waiter[p].at = "end" /\ cond' = cond \ {p}
        /\ waiter' = [waiter EXCEPT ![p].at = "done"]
        /\ UNCHANGED <<load, pend, reports, late>>
    BY <1>4 DEF WaitEnds
  <2>2. /\ waiter' \in [Pid -> WaiterType] /\ waiter'[p].at = "done" /\ waiter'[p].got = waiter[p].got
        /\ \A q \in Pid \ {p} : waiter'[q] = waiter[q]
    BY <1>0, <2>1 DEF AppLoadTypeOK, WaiterType
  <2>3. AppLoadTypeOK' /\ OnlyOf(p)
    BY <1>0, <2>1, <2>2 DEF AppLoadTypeOK, OnlyOf
  <2>4. LoadOK(p)'
    BY <1>0, <2>1, <2>2 DEF LoadOK, CondOK, ReportsOK, PendOK, NotOverslept, ToldRight
  <2> QED BY <2>3, <2>4, OthersKept
<1>5. CASE WaitReturns(p)
  <2>1. /\ waiter[p].at = "done" /\ waiter' = [waiter EXCEPT ![p] = NoWait]
        /\ UNCHANGED <<load, pend, cond, reports, late>>
    BY <1>5 DEF WaitReturns
  <2>2. NoWait \in WaiterType /\ NoWait.at = "idle" /\ NoWait.got = 0
    BY DEF NoWait, WaiterType
  <2>3. AppLoadTypeOK' /\ OnlyOf(p) /\ waiter'[p] = NoWait
    BY <1>0, <2>1, <2>2 DEF AppLoadTypeOK, OnlyOf
  <2>4. LoadOK(p)'
    BY <1>0, <2>1, <2>2, <2>3 DEF LoadOK, CondOK, ReportsOK, PendOK, NotOverslept, ToldRight
  <2> QED BY <2>3, <2>4, OthersKept
<1> QED BY <1>1, <1>2, <1>3, <1>4, <1>5

\* Nobody sleeps over the report of the application he loaded, and who is told is
\* told of that application, for any number of ids, processes that get them in
\* turn and polls, unless a report found the condition variable of a waiter that
\* was through already (NotifyAppLoad, WaitForAppLoad).
THEOREM AppLoadReported == AppLoadSpec => []LoadReported
<1>1. AppLoadInductive /\ [AppLoadStep]_appLoadVars => AppLoadInductive'
  <2> SUFFICES ASSUME AppLoadInductive, [AppLoadStep]_appLoadVars PROVE AppLoadInductive'
    OBVIOUS
  <2>1. CASE UNCHANGED appLoadVars
    BY <2>1 DEF appLoadVars, AppLoadInductive, AppLoadTypeOK, LoadOK, CondOK, ReportsOK, PendOK,
                NotOverslept, ToldRight
  <2>2. CASE AppLoadStep
    BY <2>2, LoadsKept, NotifyKept, WaitKept DEF AppLoadStep, NotifyLoadingApp, Relocated
  <2> QED BY <2>1, <2>2
<1>2. AppLoadInductive => LoadReported
  BY DEF AppLoadInductive, LoadOK, NotOverslept, ToldRight, LoadReported
<1> QED BY AppLoadInitially, <1>1, <1>2, PTL DEF AppLoadSpec

-----------------------------------------------------------------------------
(* Waiting for a thread. *)

PthreadType == [tid : JoinTid \cup {0}, state : {"none", "spawned", "running", "ended", "joined"}]
JoinerType == [at : {"idle", "found", "joining", "joined"}, tid : JoinTid \cup {0},
               handle : Handle \cup {NoHandle}]
JoinsTypeOK ==
    /\ pthread \in [Handle -> PthreadType] /\ joiner \in [Joiner -> JoinerType]
    /\ \A j \in Joiner : joiner[j].at # "idle" => joiner[j].handle \in Handle
    /\ guard \in SUBSET Handle /\ guardArea \in SUBSET Handle
    /\ shadowed \in SUBSET Handle /\ astray \in SUBSET Handle

\* The host gives no id to two threads that live.
TidsOK == \A h, k \in Handle : Alive(h) /\ Alive(k) /\ pthread[h].tid = pthread[k].tid => h = k

\* What the table has under an id has been entered and had the id.
ObjectsOK ==
    \A t \in DOMAIN objects :
        /\ objects[t] \in Handle /\ pthread[objects[t]].tid = t
        /\ pthread[objects[t]].state \in {"running", "ended", "joined"}

\* Who waits for an id has the handle of the thread that has it and runs, if there
\* is one that was not entered since; who has joined has seen it end.
JoinersOK ==
    \A j \in Joiner, h \in Handle \ shadowed :
        pthread[h].state = "running" /\ joiner[j].at # "idle" /\ joiner[j].tid = pthread[h].tid =>
            joiner[j].at # "joined" /\ joiner[j].handle = h

\* A thread that has ended has unregistered its guard, or is known to have not.
EndedOK == \A h \in Handle : pthread[h].state \in {"ended", "joined"} => h \notin guardArea \ astray

JoinsInductive == JoinsTypeOK /\ TidsOK /\ ObjectsOK /\ JoinersOK /\ EndedOK /\ JoinsAgree

LEMMA JoinsInitially == JoinsInit => JoinsInductive
<1> SUFFICES ASSUME JoinsInit PROVE JoinsInductive
  OBVIOUS
<1>1. \A h \in Handle : pthread[h] = NoPthread /\ pthread[h].state = "none"
  BY DEF JoinsInit, NoPthread
<1>2. \A j \in Joiner : joiner[j] = NoJoin /\ joiner[j].at = "idle"
  BY DEF JoinsInit, NoJoin
<1>3. NoPthread \in PthreadType /\ NoJoin \in JoinerType
  BY DEF NoPthread, PthreadType, NoJoin, JoinerType
<1>4. DOMAIN objects = {} /\ guard = {} /\ guardArea = {} /\ shadowed = {} /\ astray = {}
  BY DEF JoinsInit
<1>5. JoinsTypeOK
  BY <1>2, <1>3, <1>4 DEF JoinsTypeOK, JoinsInit
<1> QED BY <1>1, <1>2, <1>4, <1>5 DEF JoinsInductive, TidsOK, ObjectsOK, JoinersOK, EndedOK, JoinsAgree, Alive

\* One thread comes to another state, or one joiner to another place.
LEMMA PthreadGoes ==
    ASSUME JoinsTypeOK, NEW h \in Handle,
           NEW state \in {"none", "spawned", "running", "ended", "joined"},
           pthread' = [pthread EXCEPT ![h].state = state]
    PROVE  /\ pthread' \in [Handle -> PthreadType]
           /\ pthread'[h].state = state /\ pthread'[h].tid = pthread[h].tid
           /\ \A k \in Handle \ {h} : pthread'[k] = pthread[k]
           /\ \A k \in Handle : pthread'[k].tid = pthread[k].tid
  BY DEF JoinsTypeOK, PthreadType

LEMMA JoinerGoes ==
    ASSUME JoinsTypeOK, NEW j \in Joiner, NEW w \in JoinerType,
           joiner' = [joiner EXCEPT ![j] = w]
    PROVE  /\ joiner' \in [Joiner -> JoinerType] /\ joiner'[j] = w
           /\ \A i \in Joiner \ {j} : joiner'[i] = joiner[i]
  BY DEF JoinsTypeOK

LEMMA IdleJoiner == NoJoin \in JoinerType /\ NoJoin.at = "idle"
  BY DEF NoJoin, JoinerType

\* A thread is spawned, and entered.
LEMMA SpawnKept ==
    ASSUME JoinsInductive, NEW h \in Handle, NEW tid \in JoinTid, NEW guarded \in BOOLEAN,
           SpawnThread(h, tid, guarded)
    PROVE  JoinsInductive'
<1>0. JoinsTypeOK /\ TidsOK /\ ObjectsOK /\ JoinersOK /\ EndedOK /\ JoinsAgree
  BY DEF JoinsInductive
<1> DEFINE x == [tid |-> tid, state |-> "spawned"]
<1>1. x \in PthreadType /\ x.tid = tid /\ x.state = "spawned"
  BY DEF PthreadType
<1>2. /\ pthread[h].state = "none" /\ \A k \in Handle : Alive(k) => pthread[k].tid # tid
      /\ pthread' = [pthread EXCEPT ![h] = x]
      /\ guard \subseteq guard' /\ guard' \subseteq Handle
      /\ guardArea' \subseteq guardArea \cup {h} /\ (h \in guardArea' => h \in guardArea \/ h \in guard')
      /\ UNCHANGED <<objects, joiner, shadowed, astray>>
  BY <1>0 DEF SpawnThread, MakeStack, NoPthread, JoinsTypeOK
<1> HIDE DEF x
<1>3. /\ pthread' \in [Handle -> PthreadType] /\ pthread'[h] = x
      /\ \A k \in Handle \ {h} : pthread'[k] = pthread[k]
  BY <1>0, <1>1, <1>2 DEF JoinsTypeOK
<1>4. JoinsTypeOK'
  BY <1>0, <1>2, <1>3 DEF JoinsTypeOK
<1>5. TidsOK'
  BY <1>0, <1>1, <1>2, <1>3 DEF TidsOK, Alive
<1>6. ObjectsOK'
  BY <1>0, <1>2, <1>3 DEF ObjectsOK
<1>7. JoinersOK'
  BY <1>0, <1>1, <1>2, <1>3 DEF JoinersOK
<1>8. EndedOK'
  BY <1>0, <1>1, <1>2, <1>3 DEF EndedOK
<1>9. JoinsAgree'
  BY <1>0, <1>1, <1>2, <1>3 DEF JoinsAgree
<1> QED BY <1>4, <1>5, <1>6, <1>7, <1>8, <1>9 DEF JoinsInductive

LEMMA EnterKept ==
    ASSUME JoinsInductive, NEW h \in Handle, EnterThread(h)
    PROVE  JoinsInductive'
<1>0. JoinsTypeOK /\ TidsOK /\ ObjectsOK /\ JoinersOK /\ EndedOK /\ JoinsAgree
  BY DEF JoinsInductive
<1> DEFINE tid == pthread[h].tid
<1>2. /\ pthread[h].state = "spawned" /\ pthread' = [pthread EXCEPT ![h].state = "running"]
      /\ DOMAIN objects' = DOMAIN objects \cup {tid} /\ objects'[tid] = h
      /\ \A t \in DOMAIN objects : t # tid => objects'[t] = objects[t]
      /\ shadowed' = IF Awaited(tid) THEN shadowed \cup {h} ELSE shadowed
      /\ UNCHANGED <<guard, guardArea, joiner, astray>>
  BY DEF EnterThread
<1>3. /\ pthread' \in [Handle -> PthreadType]
      /\ pthread'[h].state = "running" /\ pthread'[h].tid = tid
      /\ \A k \in Handle \ {h} : pthread'[k] = pthread[k]
      /\ \A k \in Handle : pthread'[k].tid = pthread[k].tid
  BY <1>0, <1>2, PthreadGoes
<1> HIDE DEF tid
<1>4. JoinsTypeOK'
  BY <1>0, <1>2, <1>3 DEF JoinsTypeOK
<1>5. TidsOK'
  BY <1>0, <1>2, <1>3 DEF TidsOK, Alive
<1>6. ObjectsOK'
  BY <1>0, <1>2, <1>3 DEF ObjectsOK
<1>7. JoinersOK'
  <2> SUFFICES ASSUME NEW j \in Joiner, NEW k \in Handle, k \notin shadowed',
                      pthread'[k].state = "running", joiner'[j].at # "idle",
                      joiner'[j].tid = pthread'[k].tid
               PROVE  joiner'[j].at # "joined" /\ joiner'[j].handle = k
    BY DEF JoinersOK
  <2>1. CASE k = h
    BY <2>1, <1>2, <1>3 DEF Awaited
  <2>2. CASE k # h
    BY <2>2, <1>0, <1>2, <1>3 DEF JoinersOK
  <2> QED BY <2>1, <2>2
<1>8. EndedOK'
  BY <1>0, <1>2, <1>3 DEF EndedOK
<1>9. JoinsAgree'
  <2> SUFFICES ASSUME NEW k \in Handle, k \notin shadowed'
               PROVE  /\ pthread'[k].state = "running" =>
                            pthread'[k].tid \in DOMAIN objects' /\ objects'[pthread'[k].tid] = k
                      /\ k \in guardArea' \ astray' => k \in guard'
    BY DEF JoinsAgree
  <2>0. k \notin shadowed
    BY <1>2
  <2>1. CASE k = h
    BY <2>0, <2>1, <1>0, <1>2, <1>3 DEF JoinsAgree
  <2>2. CASE k # h
    <3>1. pthread[k].state = "running" => pthread[k].tid # tid
      BY <2>2, <1>0, <1>2 DEF TidsOK, Alive, tid
    <3> QED BY <2>0, <2>2, <3>1, <1>0, <1>2, <1>3 DEF JoinsAgree
  <2> QED BY <2>1, <2>2
<1> QED BY <1>4, <1>5, <1>6, <1>7, <1>8, <1>9 DEF JoinsInductive

\* A thread ends, with or without unregistering its guard.
LEMMA EndKept ==
    ASSUME JoinsInductive, NEW h \in Handle, EntryReturns(h) \/ ExitThread(h)
    PROVE  JoinsInductive'
<1>0. JoinsTypeOK /\ TidsOK /\ ObjectsOK /\ JoinersOK /\ EndedOK /\ JoinsAgree
  BY DEF JoinsInductive
<1>2. /\ pthread[h].state = "running" /\ pthread' = [pthread EXCEPT ![h].state = "ended"]
      /\ guardArea' \subseteq guardArea /\ astray \subseteq astray' /\ astray' \subseteq Handle
      /\ h \in guardArea' => h \in astray'
      /\ UNCHANGED <<objects, guard, joiner, shadowed>>
  BY <1>0 DEF EntryReturns, ExitThread, PthreadEnds, JoinsTypeOK
<1>3. /\ pthread' \in [Handle -> PthreadType]
      /\ pthread'[h].state = "ended" /\ pthread'[h].tid = pthread[h].tid
      /\ \A k \in Handle \ {h} : pthread'[k] = pthread[k]
      /\ \A k \in Handle : pthread'[k].tid = pthread[k].tid
  BY <1>0, <1>2, PthreadGoes
<1>4. JoinsTypeOK'
  BY <1>0, <1>2, <1>3 DEF JoinsTypeOK
<1>5. TidsOK'
  BY <1>0, <1>2, <1>3 DEF TidsOK, Alive
<1>6. ObjectsOK'
  BY <1>0, <1>2, <1>3 DEF ObjectsOK
<1>7. JoinersOK'
  BY <1>0, <1>2, <1>3 DEF JoinersOK
<1>8. EndedOK'
  BY <1>0, <1>2, <1>3 DEF EndedOK
<1>9. JoinsAgree'
  BY <1>0, <1>2, <1>3 DEF JoinsAgree
<1> QED BY <1>4, <1>5, <1>6, <1>7, <1>8, <1>9 DEF JoinsInductive

\* Who waits looks the id up, ...
LEMMA LookupKept ==
    ASSUME JoinsInductive, NEW j \in Joiner, NEW tid \in JoinTid, WaitForThread(j, tid)
    PROVE  JoinsInductive'
<1>0. JoinsTypeOK /\ TidsOK /\ ObjectsOK /\ JoinersOK /\ EndedOK /\ JoinsAgree
  BY DEF JoinsInductive
<1> DEFINE w == [at |-> "found", tid |-> tid, handle |-> objects[tid]]
<1>1. tid \in DOMAIN objects /\ objects[tid] \in Handle
  BY <1>0 DEF WaitForThread, ObjectsOK
<1>2. w \in JoinerType /\ w.at = "found" /\ w.tid = tid /\ w.handle = objects[tid]
  BY <1>1 DEF JoinerType
<1>3. /\ joiner' = [joiner EXCEPT ![j] = w]
      /\ UNCHANGED <<pthread, objects, guard, guardArea, shadowed, astray>>
  BY DEF WaitForThread
<1> HIDE DEF w
<1>4. /\ joiner' \in [Joiner -> JoinerType] /\ joiner'[j] = w
      /\ \A i \in Joiner \ {j} : joiner'[i] = joiner[i]
  BY <1>0, <1>2, <1>3, JoinerGoes
<1>5. JoinsTypeOK'
  BY <1>0, <1>1, <1>2, <1>3, <1>4 DEF JoinsTypeOK
<1>6. (TidsOK /\ ObjectsOK /\ EndedOK /\ JoinsAgree)'
  BY <1>0, <1>3 DEF TidsOK, Alive, ObjectsOK, EndedOK, JoinsAgree
<1>7. JoinersOK'
  <2> SUFFICES ASSUME NEW i \in Joiner, NEW k \in Handle, k \notin shadowed,
                      pthread[k].state = "running", joiner'[i].at # "idle",
                      joiner'[i].tid = pthread[k].tid
               PROVE  joiner'[i].at # "joined" /\ joiner'[i].handle = k
    BY <1>3 DEF JoinersOK
  <2>1. CASE i = j
    BY <2>1, <1>0, <1>2, <1>4 DEF JoinsAgree
  <2>2. CASE i # j
    BY <2>2, <1>0, <1>4 DEF JoinersOK
  <2> QED BY <2>1, <2>2
<1> QED BY <1>5, <1>6, <1>7 DEF JoinsInductive

\* ... begins to join, or gives up, ...
LEMMA JoiningKept ==
    ASSUME JoinsInductive, NEW j \in Joiner, Joins(j) \/ JoinTimesOut(j)
    PROVE  JoinsInductive'
<1>0. JoinsTypeOK /\ TidsOK /\ ObjectsOK /\ JoinersOK /\ EndedOK /\ JoinsAgree
  BY DEF JoinsInductive
<1>1. joiner[j] \in JoinerType /\ joiner \in [Joiner -> JoinerType]
  BY <1>0 DEF JoinsTypeOK
<1> DEFINE v == [joiner[j] EXCEPT !.at = "joining"]
<1>2. v \in JoinerType /\ v.at = "joining" /\ v.tid = joiner[j].tid /\ v.handle = joiner[j].handle
  BY <1>1 DEF JoinerType
<1>3. /\ joiner[j].at \in {"found", "joining"}
      /\ \/ joiner' = [joiner EXCEPT ![j] = NoJoin]
         \/ joiner' = [joiner EXCEPT ![j] = v]
      /\ UNCHANGED <<pthread, objects, guard, guardArea, shadowed, astray>>
  BY <1>1 DEF Joins, JoinTimesOut
<1> HIDE DEF v
<1>4. PICK w \in {NoJoin, v} : joiner' = [joiner EXCEPT ![j] = w]
  BY <1>3
<1>5. /\ joiner' \in [Joiner -> JoinerType] /\ joiner'[j] = w
      /\ \A i \in Joiner \ {j} : joiner'[i] = joiner[i]
  BY <1>0, <1>2, <1>4, JoinerGoes, IdleJoiner
<1>6. JoinsTypeOK'
  BY <1>0, <1>2, <1>3, <1>4, <1>5, IdleJoiner DEF JoinsTypeOK
<1>7. (TidsOK /\ ObjectsOK /\ EndedOK /\ JoinsAgree)'
  BY <1>0, <1>3 DEF TidsOK, Alive, ObjectsOK, EndedOK, JoinsAgree
<1>8. JoinersOK'
  <2> SUFFICES ASSUME NEW i \in Joiner, NEW k \in Handle, k \notin shadowed,
                      pthread[k].state = "running", joiner'[i].at # "idle",
                      joiner'[i].tid = pthread[k].tid
               PROVE  joiner'[i].at # "joined" /\ joiner'[i].handle = k
    BY <1>3 DEF JoinersOK
  <2>1. CASE i = j
    BY <2>1, <1>0, <1>2, <1>3, <1>4, <1>5, IdleJoiner DEF JoinersOK
  <2>2. CASE i # j
    BY <2>2, <1>0, <1>5 DEF JoinersOK
  <2> QED BY <2>1, <2>2
<1> QED BY <1>6, <1>7, <1>8 DEF JoinsInductive

\* ... has joined, ...
LEMMA JoinedKept ==
    ASSUME JoinsInductive, NEW j \in Joiner, Joined(j)
    PROVE  JoinsInductive'
<1>0. JoinsTypeOK /\ TidsOK /\ ObjectsOK /\ JoinersOK /\ EndedOK /\ JoinsAgree
  BY DEF JoinsInductive
<1>1. joiner[j] \in JoinerType /\ joiner \in [Joiner -> JoinerType]
  BY <1>0 DEF JoinsTypeOK
<1> DEFINE h == joiner[j].handle
           v == [joiner[j] EXCEPT !.at = "joined"]
<1>2. v \in JoinerType /\ v.at = "joined" /\ v.tid = joiner[j].tid /\ v.handle = h
  BY <1>1 DEF JoinerType
<1>3. /\ joiner[j].at = "joining" /\ pthread[h].state = "ended"
      /\ pthread' = [pthread EXCEPT ![h].state = "joined"]
      /\ joiner' = [joiner EXCEPT ![j] = v]
      /\ UNCHANGED <<objects, guard, guardArea, shadowed, astray>>
  BY <1>1 DEF Joined, JoinerType
<1>h. h \in Handle
  BY <1>0, <1>3 DEF JoinsTypeOK
<1> HIDE DEF v, h
<1>4. /\ joiner' \in [Joiner -> JoinerType] /\ joiner'[j] = v
      /\ \A i \in Joiner \ {j} : joiner'[i] = joiner[i]
  BY <1>0, <1>2, <1>3, JoinerGoes
<1>5. /\ pthread' \in [Handle -> PthreadType]
      /\ pthread'[h].state = "joined" /\ pthread'[h].tid = pthread[h].tid
      /\ \A k \in Handle \ {h} : pthread'[k] = pthread[k]
      /\ \A k \in Handle : pthread'[k].tid = pthread[k].tid
  BY <1>0, <1>3, <1>h, PthreadGoes
<1>6. JoinsTypeOK'
  BY <1>0, <1>2, <1>3, <1>4, <1>5, <1>h DEF JoinsTypeOK
<1>7. TidsOK'
  BY <1>0, <1>3, <1>5 DEF TidsOK, Alive
<1>8. ObjectsOK'
  BY <1>0, <1>3, <1>5 DEF ObjectsOK
<1>9. EndedOK' /\ JoinsAgree'
  BY <1>0, <1>3, <1>5 DEF EndedOK, JoinsAgree
<1>10. JoinersOK'
  <2> SUFFICES ASSUME NEW i \in Joiner, NEW k \in Handle, k \notin shadowed,
                      pthread'[k].state = "running", joiner'[i].at # "idle",
                      joiner'[i].tid = pthread'[k].tid
               PROVE  joiner'[i].at # "joined" /\ joiner'[i].handle = k
    BY <1>3 DEF JoinersOK
  <2>0. k # h /\ pthread[k].state = "running" /\ pthread'[k].tid = pthread[k].tid
    BY <1>5
  <2>1. CASE i = j
    BY <2>0, <2>1, <1>0, <1>2, <1>3, <1>4 DEF JoinersOK, h
  <2>2. CASE i # j
    BY <2>0, <2>2, <1>0, <1>4 DEF JoinersOK
  <2> QED BY <2>1, <2>2
<1> QED BY <1>6, <1>7, <1>8, <1>9, <1>10 DEF JoinsInductive

\* ... and takes out what is under the id.
LEMMA EraseKept ==
    ASSUME JoinsInductive, NEW j \in Joiner, EraseThread(j)
    PROVE  JoinsInductive'
<1>0. JoinsTypeOK /\ TidsOK /\ ObjectsOK /\ JoinersOK /\ EndedOK /\ JoinsAgree
  BY DEF JoinsInductive
<1> DEFINE tid == joiner[j].tid
<1>2. /\ joiner[j].at = "joined" /\ joiner' = [joiner EXCEPT ![j] = NoJoin]
      /\ DOMAIN objects' = DOMAIN objects \ {tid}
      /\ \A t \in DOMAIN objects' : objects'[t] = objects[t]
      /\ guard' = IF tid \in DOMAIN objects THEN guard \ {objects[tid]} ELSE guard
      /\ UNCHANGED <<pthread, guardArea, shadowed, astray>>
  BY DEF EraseThread, Restrict
<1>3. /\ joiner' \in [Joiner -> JoinerType] /\ joiner'[j] = NoJoin
      /\ \A i \in Joiner \ {j} : joiner'[i] = joiner[i]
  BY <1>0, <1>2, JoinerGoes, IdleJoiner
<1> HIDE DEF tid
<1>4. JoinsTypeOK'
  BY <1>0, <1>2, <1>3, IdleJoiner DEF JoinsTypeOK
<1>5. (TidsOK /\ EndedOK)'
  BY <1>0, <1>2 DEF TidsOK, Alive, EndedOK
<1>6. ObjectsOK'
  BY <1>0, <1>2 DEF ObjectsOK
<1>7. JoinersOK'
  <2> SUFFICES ASSUME NEW i \in Joiner, NEW k \in Handle, k \notin shadowed,
                      pthread[k].state = "running", joiner'[i].at # "idle",
                      joiner'[i].tid = pthread[k].tid
               PROVE  joiner'[i].at # "joined" /\ joiner'[i].handle = k
    BY <1>2 DEF JoinersOK
  <2>1. i # j
    BY <1>3, IdleJoiner
  <2> QED BY <2>1, <1>0, <1>3 DEF JoinersOK
<1>8. ASSUME NEW k \in Handle, k \notin shadowed, pthread[k].state = "running"
      PROVE  pthread[k].tid # tid
  BY <1>8, <1>0, <1>2 DEF JoinersOK, tid
<1>9. ASSUME NEW k \in Handle, k \notin shadowed, k \in guardArea \ astray PROVE k \in guard'
  <2>1. k \in guard
    BY <1>9, <1>0 DEF JoinsAgree
  <2>2. ASSUME tid \in DOMAIN objects, objects[tid] = k PROVE FALSE
    <3>1. pthread[k].tid = tid /\ pthread[k].state \in {"running", "ended", "joined"}
      BY <2>2, <1>0 DEF ObjectsOK
    <3> QED BY <3>1, <1>8, <1>9, <1>0 DEF EndedOK
  <2> QED BY <2>1, <2>2, <1>2
<1>10. JoinsAgree'
  BY <1>0, <1>2, <1>8, <1>9 DEF JoinsAgree
<1> QED BY <1>4, <1>5, <1>6, <1>7, <1>10 DEF JoinsInductive

\* A thread that runs can be waited for and has its guard, whoever waits, gives up
\* or has waited for another thread of its id, for any number of threads and
\* waiters, except for threads entered while somebody still waited for their id
\* (loader_spawn_thread, loader_wait_for_thread).
THEOREM JoinsCorrect == JoinsSpec => []JoinsAgree
<1>1. JoinsInductive /\ [JoinsStep]_joinsVars => JoinsInductive'
  <2> SUFFICES ASSUME JoinsInductive, [JoinsStep]_joinsVars PROVE JoinsInductive'
    OBVIOUS
  <2>1. CASE UNCHANGED joinsVars
    BY <2>1 DEF joinsVars, JoinsInductive, JoinsTypeOK, TidsOK, Alive, ObjectsOK, JoinersOK,
                EndedOK, JoinsAgree
  <2>2. CASE JoinsStep
    BY <2>2, SpawnKept, EnterKept, EndKept, LookupKept, JoiningKept, JoinedKept, EraseKept
       DEF JoinsStep
  <2> QED BY <2>1, <2>2
<1>2. JoinsInductive => JoinsAgree
  BY DEF JoinsInductive
<1> QED BY JoinsInitially, <1>1, <1>2, PTL DEF JoinsSpec

-----------------------------------------------------------------------------
(* Debuggers. *)

\* The request lock is held by who sends a request and waits for its answer.
LockOK == \A d \in Debugger : asker[d] \in {"sending", "waiting"} <=> req.lock = d

\* A request is that of somebody who waits, and so is an answer.
RequestOK ==
    /\ req.for # Nobody => asker[req.for] = "waiting" /\ answer[req.for] = "none"
    /\ \A d \in Debugger : answer[d] # "none" => asker[d] = "waiting"

\* The handler works on a request, and on the one that is there.
HandlerOK ==
    /\ handler.at # "none" => req.for # Nobody
    /\ handler.at \notin {"none", "signalled"} => handler.for = req.for

\* Who is in a call has not left, as long as nobody was hasty.
CallersStay == ~hasty => \A d \in Debugger : asker[d] \notin {"idle", "done"} => d \in alive

\* How far the loader is with a debugger, and whose the nub port is.
Installing == {"sem", "port", "owner", "spawn", "register", "resume", "installed"}
InstallOK ==
    Team \in alive /\ ~hasty =>
        /\ ld.installing <=> handler.at \in Installing
        /\ ld.installing => ~ld.installed
        /\ handler.at = "owner" => port.open /\ port.owner = Team
        /\ handler.at \in {"spawn", "register", "resume", "installed"} =>
              port.open /\ port.owner = handler.for
        /\ handler.at = "installed" => ld.port = handler.for

\* The debugger's installation has worked, and the server does not have it yet.
Granted(d) ==
    \/ asker[d] = "setting" \/ answer[d] = "yes"
    \/ handler.at = "reply" /\ handler.ok /\ handler.for = d
GrantOK ==
    Team \in alive /\ ~hasty =>
        \A d \in Debugger : Granted(d) \/ (asker[d] = "done" /\ d \in alive) =>
            ld.installed /\ ld.port = d /\ port.open /\ port.owner = d
EnteredOK ==
    Team \in alive /\ ~hasty =>
        \A d \in Debugger : asker[d] = "done" /\ d \in alive => proc.port = d
InstalledOK ==
    Team \in alive /\ ~hasty /\ ld.installed =>
        /\ ld.port \in Debugger
        /\ Granted(ld.port) \/ (asker[ld.port] = "done" /\ proc.port = ld.port)

DebugInductive ==
    /\ DebuggingTypeOK /\ LockOK /\ RequestOK /\ HandlerOK /\ CallersStay
    /\ InstallOK /\ GrantOK /\ EnteredOK /\ InstalledOK

\* What a change of one field leaves of a record.
LEMMA HandlerFields ==
    ASSUME handler \in HandlerType
    PROVE  /\ \A at \in Handling : LET x == [handler EXCEPT !.at = at]
                                   IN x \in HandlerType /\ x.at = at /\ x.for = handler.for
           /\ \A at \in Handling, ok \in BOOLEAN :
                LET x == [handler EXCEPT !.at = at, !.ok = ok]
                IN x \in HandlerType /\ x.at = at /\ x.for = handler.for /\ x.ok = ok
           /\ \A at \in Handling, d \in Debugger \cup {Nobody} :
                LET x == [handler EXCEPT !.at = at, !.for = d]
                IN x \in HandlerType /\ x.at = at /\ x.for = d
  BY DEF HandlerType

LEMMA RequestFields ==
    ASSUME req \in ReqType, NEW d \in Debugger \cup {Nobody}
    PROVE  /\ LET x == [req EXCEPT !.lock = d] IN x \in ReqType /\ x.lock = d /\ x.for = req.for
           /\ LET x == [req EXCEPT !.for = d] IN x \in ReqType /\ x.lock = req.lock /\ x.for = d
  BY DEF ReqType

LEMMA LoaderFields ==
    ASSUME ld \in LoaderType
    PROVE  /\ LET x == [ld EXCEPT !.installing = TRUE]
              IN x \in LoaderType /\ x.installing /\ x.installed = ld.installed /\ x.port = ld.port
           /\ \A b \in BOOLEAN : LET x == [ld EXCEPT !.installing = FALSE, !.installed = b]
                                 IN x \in LoaderType /\ ~x.installing /\ x.installed = b /\ x.port = ld.port
           /\ LET x == [ld EXCEPT !.installed = FALSE]
              IN x \in LoaderType /\ x.installing = ld.installing /\ ~x.installed /\ x.port = ld.port
           /\ \A d \in Debugger \cup {Nobody} :
                LET x == [ld EXCEPT !.flags = FALSE, !.port = d]
                IN /\ x \in LoaderType /\ x.installing = ld.installing
                   /\ x.installed = ld.installed /\ x.port = d
           /\ LET x == [ld EXCEPT !.flags = ~@]
              IN /\ x \in LoaderType /\ x.installing = ld.installing
                 /\ x.installed = ld.installed /\ x.port = ld.port
           /\ Unloaded \in LoaderType /\ ~Unloaded.installing /\ ~Unloaded.installed
  BY DEF LoaderType, Unloaded

LEMMA PortFields ==
    ASSUME port \in PortType
    PROVE  /\ \A d \in AnyTeam : LET x == [port EXCEPT !.owner = d]
                                 IN x \in PortType /\ x.open = port.open /\ x.owner = d
           /\ \A q \in Seq({"flags", "continue"}) :
                LET x == [port EXCEPT !.queue = q]
                IN x \in PortType /\ x.open = port.open /\ x.owner = port.owner
           /\ NoPort \in PortType /\ ~NoPort.open
           /\ LET x == [open |-> TRUE, owner |-> Team, queue |-> <<>>]
              IN x \in PortType /\ x.open /\ x.owner = Team
           /\ port.queue # <<>> => Tail(port.queue) \in Seq({"flags", "continue"})
<1>1. port.queue \in Seq({"flags", "continue"}) /\ port.open \in BOOLEAN /\ port.owner \in AnyTeam
  BY DEF PortType
<1>2. <<>> \in Seq({"flags", "continue"})
  OBVIOUS
<1>3. port.queue # <<>> => Tail(port.queue) \in Seq({"flags", "continue"})
  BY <1>1
<1>4. Nobody \in AnyTeam /\ Team \in AnyTeam
  BY DEF AnyTeam
<1> QED BY <1>2, <1>3, <1>4 DEF PortType, NoPort

LEMMA SemFields ==
    ASSUME sem \in SemType
    PROVE  /\ \A t \in AnyTeam : [sem EXCEPT !.owner = t] \in SemType
           /\ \A st \in {"none", "free", "held"} : [sem EXCEPT !.state = st] \in SemType
           /\ NoSem \in SemType /\ [state |-> "free", owner |-> Team] \in SemType
<1>1. Nobody \in AnyTeam /\ Team \in AnyTeam
  BY DEF AnyTeam
<1> QED BY <1>1 DEF SemType, NoSem

LEMMA DebugInitially == DebuggingInit => DebugInductive
<1> SUFFICES ASSUME DebuggingInit PROVE DebugInductive
  OBVIOUS
<1>1. /\ proc \in ProcType /\ req \in ReqType /\ handler \in HandlerType
      /\ handler.at = "none" /\ req.for = Nobody /\ req.lock = Nobody
  BY DEF DebuggingInit, ProcType, ReqType, HandlerType, Handling
<1>2. ld \in LoaderType /\ ~ld.installing /\ ~ld.installed
  BY DEF DebuggingInit, LoaderType, Unloaded
<1>3. port \in PortType /\ sem \in SemType
  <2>1. <<>> \in Seq({"flags", "continue"}) /\ Nobody \in AnyTeam
    BY DEF AnyTeam
  <2> QED BY <2>1 DEF DebuggingInit, PortType, SemType, NoPort, NoSem
<1>4. /\ \A d \in Debugger : asker[d] = "idle" /\ answer[d] = "none"
      /\ alive \subseteq Debugger \cup {Team} /\ answer \in [Debugger -> {"none", "yes", "no"}]
      /\ asker \in [Debugger -> Asking] /\ nub \in {"none", "suspended", "reading"}
      /\ rep \in Reporting /\ susp \in BOOLEAN /\ hasty \in BOOLEAN
  BY DEF DebuggingInit, Asking, Reporting
<1>5. DebuggingTypeOK
  BY <1>1, <1>2, <1>3, <1>4 DEF DebuggingTypeOK
<1>6. LockOK /\ RequestOK /\ HandlerOK /\ CallersStay
  BY <1>1, <1>4, DebuggingAssumption DEF LockOK, RequestOK, HandlerOK, CallersStay
<1>7. InstallOK /\ GrantOK /\ EnteredOK /\ InstalledOK
  BY <1>1, <1>2, <1>4 DEF InstallOK, GrantOK, EnteredOK, InstalledOK, Granted, Installing
<1> QED BY <1>5, <1>6, <1>7 DEF DebugInductive

\* Steps of the nub thread and of the reports: what the invariant is about stays.
LEMMA QuietKept ==
    ASSUME DebugInductive, DebuggingTypeOK', UNCHANGED <<alive, proc, req, answer, asker, hasty, handler>>,
           ld'.installing = ld.installing, ld'.installed = ld.installed,
           ld'.port = ld.port, port'.open = port.open, port'.owner = port.owner
    PROVE  DebugInductive'
  BY DEF DebugInductive, LockOK, RequestOK, HandlerOK, CallersStay, InstallOK,
         GrantOK, EnteredOK, InstalledOK, Granted, Installing

\* The debugger's part up to the lock.
LEMMA LookKept ==
    ASSUME DebugInductive, NEW d \in Debugger, Look(d) \/ Check(d)
    PROVE  DebugInductive'
<1>0. DebuggingTypeOK
  BY DEF DebugInductive
<1>1. PICK to \in {"idle", "found", "locking"} :
        /\ asker[d] \in {"idle", "found"} /\ asker' = [asker EXCEPT ![d] = to]
        /\ UNCHANGED <<alive, proc, req, answer, loaderVars, nubObjects, thread3, hasty>>
        /\ d \in alive \/ asker[d] = "found"
  BY DEF Look, Check, At
<1>2. /\ asker'[d] = to /\ \A e \in Debugger \ {d} : asker'[e] = asker[e]
      /\ UNCHANGED <<handler, ld, nub, port, sem, rep, susp>>
  BY <1>0, <1>1 DEF DebuggingTypeOK, loaderVars, nubObjects, thread3
<1>3. DebuggingTypeOK'
  BY <1>0, <1>1, <1>2 DEF DebuggingTypeOK, Asking
<1>4. (LockOK /\ RequestOK /\ HandlerOK /\ CallersStay)'
  BY <1>1, <1>2 DEF DebugInductive, LockOK, RequestOK, HandlerOK, CallersStay
<1>5. (InstallOK /\ GrantOK /\ EnteredOK /\ InstalledOK)'
  BY <1>1, <1>2 DEF DebugInductive, InstallOK, GrantOK, EnteredOK, InstalledOK, Granted
<1> QED BY <1>3, <1>4, <1>5 DEF DebugInductive

LEMMA TakeLockKept ==
    ASSUME DebugInductive, NEW d \in Debugger, TakeLock(d)
    PROVE  DebugInductive'
<1>0. DebuggingTypeOK
  BY DEF DebugInductive
<1>1. /\ req.lock = Nobody /\ asker[d] = "locking" /\ asker' = [asker EXCEPT ![d] = "sending"]
      /\ req' = [req EXCEPT !.lock = d]
      /\ UNCHANGED <<alive, proc, answer, handler, ld, nub, port, sem, rep, susp, hasty>>
  BY DEF TakeLock, At, loaderVars, nubObjects, thread3
<1>2. asker'[d] = "sending" /\ \A e \in Debugger \ {d} : asker'[e] = asker[e]
  BY <1>0, <1>1 DEF DebuggingTypeOK
<1>3. req' \in ReqType /\ req'.lock = d /\ req'.for = req.for
  BY <1>0, <1>1, RequestFields DEF DebuggingTypeOK
<1>4. DebuggingTypeOK'
  BY <1>0, <1>1, <1>2, <1>3 DEF DebuggingTypeOK, Asking
<1>5. (LockOK /\ RequestOK /\ HandlerOK /\ CallersStay)'
  BY <1>1, <1>2, <1>3, DebuggingAssumption DEF DebugInductive, LockOK, RequestOK, HandlerOK, CallersStay
<1>6. (InstallOK /\ GrantOK /\ EnteredOK /\ InstalledOK)'
  BY <1>1, <1>2 DEF DebugInductive, InstallOK, GrantOK, EnteredOK, InstalledOK, Granted
<1> QED BY <1>4, <1>5, <1>6 DEF DebugInductive

\* The lock gives the request to one debugger: no other request is there.
LEMMA LockAlone == DebugInductive => \A d \in Debugger : asker[d] = "sending" => req.lock = d /\ req.for = Nobody
  BY DebuggingAssumption DEF DebugInductive, LockOK, RequestOK, DebuggingTypeOK, ReqType

LEMMA SendKept ==
    ASSUME DebugInductive, NEW d \in Debugger, SendRequest(d)
    PROVE  DebugInductive'
<1>0. DebuggingTypeOK
  BY DEF DebugInductive
<1>1. /\ asker[d] = "sending" /\ asker' = [asker EXCEPT ![d] = "waiting"]
      /\ req' = [req EXCEPT !.for = d]
      /\ handler' = IF Team \in alive THEN [handler EXCEPT !.at = "signalled"] ELSE handler
      /\ UNCHANGED <<alive, proc, answer, ld, nub, port, sem, rep, susp, hasty>>
  BY DEF SendRequest, Signal, At, nubObjects, thread3
<1>2. asker'[d] = "waiting" /\ \A e \in Debugger \ {d} : asker'[e] = asker[e]
  BY <1>0, <1>1 DEF DebuggingTypeOK
<1>3. req' \in ReqType /\ req'.lock = req.lock /\ req'.for = d /\ req.lock = d /\ req.for = Nobody
  BY <1>0, <1>1, RequestFields, LockAlone DEF DebuggingTypeOK
<1>4. handler' \in HandlerType /\ handler'.at \in {"signalled", handler.at}
  BY <1>0, <1>1, HandlerFields, ZenonT(40) DEF DebuggingTypeOK, Handling
<1>5. handler.at = "none"
  BY <1>3 DEF DebugInductive, HandlerOK
<1>6. DebuggingTypeOK'
  BY <1>0, <1>1, <1>2, <1>3, <1>4 DEF DebuggingTypeOK, Asking
<1>7. (LockOK /\ RequestOK /\ HandlerOK /\ CallersStay)'
  BY <1>1, <1>2, <1>3, <1>4, <1>5, DebuggingAssumption
     DEF DebugInductive, LockOK, RequestOK, HandlerOK, CallersStay
<1>8. (InstallOK /\ GrantOK /\ EnteredOK /\ InstalledOK)'
  BY <1>1, <1>2, <1>4, <1>5
     DEF DebugInductive, InstallOK, Installing, GrantOK, EnteredOK, InstalledOK, Granted
<1> QED BY <1>6, <1>7, <1>8 DEF DebugInductive

LEMMA AnsweredKept ==
    ASSUME DebugInductive, NEW d \in Debugger, Answered(d)
    PROVE  DebugInductive'
<1>0. DebuggingTypeOK
  BY DEF DebugInductive
<1> DEFINE to == IF answer[d] = "yes" THEN "setting" ELSE "idle"
<1>1. /\ answer[d] # "none" /\ asker[d] = "waiting" /\ asker' = [asker EXCEPT ![d] = to]
      /\ req' = [req EXCEPT !.lock = Nobody] /\ answer' = [answer EXCEPT ![d] = "none"]
      /\ UNCHANGED <<alive, proc, handler, ld, nub, port, sem, rep, susp, hasty>>
  BY DEF Answered, At, loaderVars, nubObjects, thread3
<1>2. /\ asker'[d] = to /\ \A e \in Debugger \ {d} : asker'[e] = asker[e]
      /\ answer'[d] = "none" /\ \A e \in Debugger \ {d} : answer'[e] = answer[e]
  BY <1>0, <1>1 DEF DebuggingTypeOK
<1>3. req' \in ReqType /\ req'.lock = Nobody /\ req'.for = req.for
  BY <1>0, <1>1, RequestFields DEF DebuggingTypeOK
<1>4. req.lock = d /\ req.for = Nobody /\ handler.at = "none"
  BY <1>0, <1>1, DebuggingAssumption
     DEF DebugInductive, LockOK, RequestOK, HandlerOK, DebuggingTypeOK, ReqType
<1>5. DebuggingTypeOK'
  BY <1>0, <1>1, <1>2, <1>3 DEF DebuggingTypeOK, Asking
<1>6. (LockOK /\ RequestOK /\ HandlerOK /\ CallersStay)'
  BY <1>1, <1>2, <1>3, <1>4, DebuggingAssumption
     DEF DebugInductive, LockOK, RequestOK, HandlerOK, CallersStay
<1>7. (InstallOK /\ GrantOK /\ EnteredOK /\ InstalledOK)'
  BY <1>1, <1>2, <1>4 DEF DebugInductive, InstallOK, GrantOK, EnteredOK, InstalledOK, Granted
<1> QED BY <1>5, <1>6, <1>7 DEF DebugInductive

\* The server enters the debugger that the loader has.
LEMMA EnteredKept ==
    ASSUME DebugInductive, NEW d \in Debugger, Enter(d)
    PROVE  DebugInductive'
<1>0. DebuggingTypeOK
  BY DEF DebugInductive
<1>1. /\ asker[d] = "setting" /\ asker' = [asker EXCEPT ![d] = "done"]
      /\ proc' = [proc EXCEPT !.pid = d, !.port = d]
      /\ UNCHANGED <<alive, req, answer, handler, ld, nub, port, sem, rep, susp, hasty>>
  BY DEF Enter, SetDebugger, At, loaderVars, nubObjects, thread3
<1>2. asker'[d] = "done" /\ \A e \in Debugger \ {d} : asker'[e] = asker[e]
  BY <1>0, <1>1 DEF DebuggingTypeOK
<1>3. proc' \in ProcType /\ proc'.port = d
  BY <1>0, <1>1 DEF DebuggingTypeOK, ProcType
<1>4. DebuggingTypeOK'
  BY <1>0, <1>1, <1>2, <1>3 DEF DebuggingTypeOK, Asking
<1>5. (LockOK /\ RequestOK /\ HandlerOK /\ CallersStay)'
  BY <1>1, <1>2 DEF DebugInductive, LockOK, RequestOK, HandlerOK, CallersStay
<1>6. (InstallOK /\ GrantOK)'
  BY <1>1, <1>2 DEF DebugInductive, InstallOK, GrantOK, Granted
<1>7. Team \in alive /\ ~hasty => ld.port = d /\ \A e \in Debugger \ {d} : ~(asker[e] = "done" /\ e \in alive)
  BY <1>1 DEF DebugInductive, GrantOK, Granted
<1>8. (EnteredOK /\ InstalledOK)'
  BY <1>1, <1>2, <1>3, <1>7 DEF DebugInductive, EnteredOK, InstalledOK, Granted
<1> QED BY <1>4, <1>5, <1>6, <1>8 DEF DebugInductive

\* The handler takes the request, and refuses or begins.
LEMMA AckKept ==
    ASSUME DebugInductive, Ack
    PROVE  DebugInductive'
<1>0. DebuggingTypeOK
  BY DEF DebugInductive
<1>1. /\ handler.at = "signalled" /\ handler' = [handler EXCEPT !.at = "acked", !.for = req.for]
      /\ UNCHANGED <<alive, proc, req, answer, asker, ld, nub, port, sem, rep, susp, hasty>>
  BY DEF Ack, serverVars, nubObjects, thread3
<1>2. handler' \in HandlerType /\ handler'.at = "acked" /\ handler'.for = req.for
  <2>1. req.for \in Debugger \cup {Nobody} /\ "acked" \in Handling
    BY <1>0 DEF DebuggingTypeOK, ReqType, Handling
  <2>2. handler \in HandlerType
    BY <1>0 DEF DebuggingTypeOK
  <2> QED BY <1>1, <2>1, <2>2 DEF HandlerType
<1>3. DebuggingTypeOK'
  BY <1>0, <1>1, <1>2 DEF DebuggingTypeOK
<1>4. (LockOK /\ RequestOK /\ HandlerOK /\ CallersStay)'
  BY <1>1, <1>2 DEF DebugInductive, LockOK, RequestOK, HandlerOK, CallersStay
<1>5. (InstallOK /\ GrantOK /\ EnteredOK /\ InstalledOK)'
  BY <1>1, <1>2 DEF DebugInductive, InstallOK, Installing, GrantOK, EnteredOK, InstalledOK, Granted
<1> QED BY <1>3, <1>4, <1>5 DEF DebugInductive

LEMMA BeginKept ==
    ASSUME DebugInductive, InstallBegin
    PROVE  DebugInductive'
<1>0. DebuggingTypeOK
  BY DEF DebugInductive
<1>1. /\ handler.at = "acked"
      /\ UNCHANGED <<alive, proc, req, answer, asker, nub, port, sem, rep, susp, hasty>>
  BY DEF InstallBegin, serverVars, nubObjects, thread3
<1>2. CASE Refuses
  <2>1. handler' = [handler EXCEPT !.at = "reply", !.ok = FALSE] /\ ld' = ld
    BY <1>2 DEF InstallBegin, Refuse, Replies
  <2>2. handler' \in HandlerType /\ handler'.at = "reply" /\ handler'.for = handler.for /\ handler'.ok = FALSE
    <3>1. "reply" \in Handling
      BY DEF Handling
    <3> QED BY <1>0, <2>1, <3>1, HandlerFields DEF DebuggingTypeOK
  <2>3. DebuggingTypeOK'
    BY <1>0, <1>1, <2>1, <2>2 DEF DebuggingTypeOK
  <2>4. (LockOK /\ RequestOK /\ HandlerOK /\ CallersStay)'
    BY <1>1, <2>2 DEF DebugInductive, LockOK, RequestOK, HandlerOK, CallersStay
  <2>5. (InstallOK /\ GrantOK /\ EnteredOK /\ InstalledOK)'
    BY <1>1, <2>1, <2>2 DEF DebugInductive, InstallOK, Installing, GrantOK, EnteredOK, InstalledOK, Granted
  <2> QED BY <2>3, <2>4, <2>5 DEF DebugInductive
<1>3. CASE ~Refuses
  <2>1. handler' = [handler EXCEPT !.at = "sem"] /\ ld' = [ld EXCEPT !.installing = TRUE]
    BY <1>3 DEF InstallBegin
  <2>2. handler' \in HandlerType /\ handler'.at = "sem" /\ handler'.for = handler.for
    <3>1. "sem" \in Handling
      BY DEF Handling
    <3> QED BY <1>0, <2>1, <3>1, HandlerFields DEF DebuggingTypeOK
  <2>3. ld' \in LoaderType /\ ld'.installing /\ ld'.installed = ld.installed /\ ld'.port = ld.port
    BY <1>0, <2>1, LoaderFields DEF DebuggingTypeOK
  <2>4. ~ld.installed
    BY <1>3 DEF Refuses
  <2>5. DebuggingTypeOK'
    BY <1>0, <1>1, <2>2, <2>3 DEF DebuggingTypeOK
  <2>6. (LockOK /\ RequestOK /\ HandlerOK /\ CallersStay)'
    BY <1>1, <2>2 DEF DebugInductive, LockOK, RequestOK, HandlerOK, CallersStay
  <2>7. (InstallOK /\ GrantOK /\ EnteredOK /\ InstalledOK)'
    BY <1>1, <2>2, <2>3, <2>4
       DEF DebugInductive, InstallOK, Installing, GrantOK, EnteredOK, InstalledOK, Granted
  <2> QED BY <2>5, <2>6, <2>7 DEF DebugInductive
<1> QED BY <1>2, <1>3

\* What a step of the handler within its work leaves alone.
LEMMA WorkingKept ==
    ASSUME DebugInductive, handler.at \notin {"none", "signalled"}, handler'.for = handler.for,
           UNCHANGED <<alive, req, answer, asker, hasty>>
    PROVE  (LockOK /\ RequestOK /\ HandlerOK /\ CallersStay)'
  BY DEF DebugInductive, LockOK, RequestOK, HandlerOK, CallersStay

\* As long as the loader installs a debugger, none is granted.
LEMMA NoneGranted ==
    ASSUME DebugInductive, handler.at \in Installing, Team \in alive, ~hasty
    PROVE  /\ ld.installing /\ ~ld.installed
           /\ \A d \in Debugger : ~Granted(d) /\ ~(asker[d] = "done" /\ d \in alive)
  BY DEF DebugInductive, InstallOK, GrantOK

\* The request that is worked on is that of a debugger that waits.
LEMMA WorkingFor ==
    ASSUME DebugInductive, handler.at \notin {"none", "signalled"}
    PROVE  /\ handler.for \in Debugger /\ handler.for = req.for
           /\ asker[handler.for] = "waiting" /\ answer[handler.for] = "none"
           /\ ~hasty => handler.for \in alive
  BY DEF DebugInductive, DebuggingTypeOK, ReqType, RequestOK, HandlerOK, CallersStay

LEMMA CreateSemKept ==
    ASSUME DebugInductive, CreateSem
    PROVE  DebugInductive'
<1>0. DebuggingTypeOK /\ handler \in HandlerType /\ sem \in SemType
  BY DEF DebugInductive, DebuggingTypeOK
<1>1. /\ handler.at = "sem" /\ handler' = [handler EXCEPT !.at = "port"]
      /\ sem' = [state |-> "free", owner |-> Team]
      /\ UNCHANGED <<alive, proc, req, answer, asker, ld, nub, port, rep, susp, hasty>>
  BY DEF CreateSem, Moves, serverVars, thread3
<1>2. handler' \in HandlerType /\ handler'.at = "port" /\ handler'.for = handler.for
  <2>1. "port" \in Handling
    BY DEF Handling
  <2> QED BY <1>0, <1>1, <2>1, HandlerFields
<1>3. DebuggingTypeOK'
  BY <1>0, <1>1, <1>2, SemFields DEF DebuggingTypeOK
<1>4. (LockOK /\ RequestOK /\ HandlerOK /\ CallersStay)'
  BY <1>1, <1>2, WorkingKept
<1>5. (InstallOK /\ GrantOK /\ EnteredOK /\ InstalledOK)'
  BY <1>1, <1>2 DEF DebugInductive, InstallOK, Installing, GrantOK, EnteredOK, InstalledOK, Granted
<1> QED BY <1>3, <1>4, <1>5 DEF DebugInductive

LEMMA CreatePortKept ==
    ASSUME DebugInductive, CreatePort
    PROVE  DebugInductive'
<1>0. DebuggingTypeOK /\ handler \in HandlerType /\ port \in PortType
  BY DEF DebugInductive, DebuggingTypeOK
<1>1. /\ handler.at = "port" /\ handler' = [handler EXCEPT !.at = "owner"]
      /\ port' = [open |-> TRUE, owner |-> Team, queue |-> <<>>]
      /\ UNCHANGED <<alive, proc, req, answer, asker, ld, nub, sem, rep, susp, hasty>>
  BY DEF CreatePort, Moves, serverVars, thread3
<1>2. handler' \in HandlerType /\ handler'.at = "owner" /\ handler'.for = handler.for
  <2>1. "owner" \in Handling
    BY DEF Handling
  <2> QED BY <1>0, <1>1, <2>1, HandlerFields
<1>3. port' \in PortType /\ port'.open /\ port'.owner = Team
  BY <1>0, <1>1, PortFields
<1>4. DebuggingTypeOK'
  BY <1>0, <1>1, <1>2, <1>3 DEF DebuggingTypeOK
<1>5. (LockOK /\ RequestOK /\ HandlerOK /\ CallersStay)'
  BY <1>1, <1>2, WorkingKept
<1>6. Team \in alive /\ ~hasty => /\ ld.installing /\ ~ld.installed
                                  /\ \A d \in Debugger : ~Granted(d) /\ ~(asker[d] = "done" /\ d \in alive)
  BY <1>1, NoneGranted DEF Installing
<1>7. (InstallOK /\ GrantOK /\ EnteredOK /\ InstalledOK)'
  BY <1>1, <1>2, <1>3, <1>6 DEF InstallOK, Installing, GrantOK, EnteredOK, InstalledOK, Granted
<1> QED BY <1>4, <1>5, <1>7 DEF DebugInductive

\* The nub port goes to the debugger, or the installation is given up.
LEMMA SetOwnerKept ==
    ASSUME DebugInductive, SetOwner
    PROVE  DebugInductive'
<1>0. /\ DebuggingTypeOK /\ handler \in HandlerType /\ port \in PortType
      /\ ld \in LoaderType /\ sem \in SemType
  BY DEF DebugInductive, DebuggingTypeOK
<1>1. /\ handler.at = "owner"
      /\ UNCHANGED <<alive, proc, req, answer, asker, nub, rep, susp, hasty>>
  BY DEF SetOwner, serverVars, thread3
<1>2. handler.for \in Debugger /\ (~hasty => handler.for \in alive)
  BY <1>1, WorkingFor
<1>3. Team \in alive /\ ~hasty =>
        /\ ld.installing /\ ~ld.installed /\ port.open
        /\ \A d \in Debugger : ~Granted(d) /\ ~(asker[d] = "done" /\ d \in alive)
  BY <1>1, NoneGranted DEF Installing, DebugInductive, InstallOK
<1>4. CASE handler.for \in alive
  <2>1. /\ handler' = [handler EXCEPT !.at = "spawn"] /\ port' = [port EXCEPT !.owner = handler.for]
        /\ ld' = ld /\ sem' = sem
    BY <1>4 DEF SetOwner
  <2>2. handler' \in HandlerType /\ handler'.at = "spawn" /\ handler'.for = handler.for
    <3>1. "spawn" \in Handling
      BY DEF Handling
    <3> QED BY <1>0, <2>1, <3>1, HandlerFields
  <2>3. port' \in PortType /\ port'.open = port.open /\ port'.owner = handler.for
    <3>1. handler.for \in AnyTeam
      BY <1>2 DEF AnyTeam
    <3> QED BY <1>0, <2>1, <3>1, PortFields
  <2>4. DebuggingTypeOK'
    BY <1>0, <1>1, <2>1, <2>2, <2>3 DEF DebuggingTypeOK
  <2>5. (LockOK /\ RequestOK /\ HandlerOK /\ CallersStay)'
    BY <1>1, <2>2, WorkingKept
  <2>6. (InstallOK /\ GrantOK /\ EnteredOK /\ InstalledOK)'
    BY <1>1, <1>3, <2>1, <2>2, <2>3 DEF InstallOK, Installing, GrantOK, EnteredOK, InstalledOK, Granted
  <2> QED BY <2>4, <2>5, <2>6 DEF DebugInductive
<1>5. CASE handler.for \notin alive
  <2>1. /\ handler' = [handler EXCEPT !.at = "reply", !.ok = FALSE] /\ port' = NoPort /\ sem' = NoSem
        /\ ld' = [ld EXCEPT !.installing = FALSE, !.installed = FALSE]
    BY <1>5 DEF SetOwner, Replies
  <2>2. handler' \in HandlerType /\ handler'.for = handler.for
    <3>1. "reply" \in Handling
      BY DEF Handling
    <3> QED BY <1>0, <2>1, <3>1, HandlerFields
  <2>3. port' \in PortType /\ sem' \in SemType
    BY <1>0, <2>1, PortFields, SemFields
  <2>4. ld' \in LoaderType
    BY <1>0, <2>1 DEF LoaderType
  <2>5. DebuggingTypeOK'
    BY <1>0, <1>1, <2>2, <2>3, <2>4 DEF DebuggingTypeOK
  <2>6. (LockOK /\ RequestOK /\ HandlerOK /\ CallersStay)'
    BY <1>1, <2>2, WorkingKept
  <2>7. (InstallOK /\ GrantOK /\ EnteredOK /\ InstalledOK)'
    BY <1>1, <1>2, <1>5 DEF InstallOK, GrantOK, EnteredOK, InstalledOK
  <2> QED BY <2>5, <2>6, <2>7 DEF DebugInductive
<1> QED BY <1>4, <1>5

LEMMA SpawnNubKept ==
    ASSUME DebugInductive, SpawnNub
    PROVE  DebugInductive'
<1>0. DebuggingTypeOK /\ handler \in HandlerType
  BY DEF DebugInductive, DebuggingTypeOK
<1>1. /\ handler.at = "spawn" /\ handler' = [handler EXCEPT !.at = "register"] /\ nub' = "suspended"
      /\ UNCHANGED <<alive, proc, req, answer, asker, ld, port, sem, rep, susp, hasty>>
  BY DEF SpawnNub, Moves, serverVars, nubObjects, thread3
<1>2. handler' \in HandlerType /\ handler'.at = "register" /\ handler'.for = handler.for
  <2>1. "register" \in Handling
    BY DEF Handling
  <2> QED BY <1>0, <1>1, <2>1, HandlerFields
<1>3. DebuggingTypeOK'
  BY <1>0, <1>1, <1>2 DEF DebuggingTypeOK
<1>4. (LockOK /\ RequestOK /\ HandlerOK /\ CallersStay)'
  BY <1>1, <1>2, WorkingKept
<1>5. (InstallOK /\ GrantOK /\ EnteredOK /\ InstalledOK)'
  BY <1>1, <1>2 DEF DebugInductive, InstallOK, Installing, GrantOK, EnteredOK, InstalledOK, Granted
<1> QED BY <1>3, <1>4, <1>5 DEF DebugInductive

LEMMA RegisterNubKept ==
    ASSUME DebugInductive, RegisterNub
    PROVE  DebugInductive'
<1>0. DebuggingTypeOK /\ handler \in HandlerType /\ proc \in ProcType /\ sem \in SemType
  BY DEF DebugInductive, DebuggingTypeOK
<1>1. /\ handler.at = "register" /\ handler' = [handler EXCEPT !.at = "resume"]
      /\ proc' = [proc EXCEPT !.nub = TRUE]
      /\ sem' = [sem EXCEPT !.owner = IF proc.pid \in alive THEN proc.pid ELSE Nobody]
      /\ UNCHANGED <<alive, req, answer, asker, ld, nub, port, rep, susp, hasty>>
  BY DEF RegisterNub, Moves, thread3
<1>2. handler' \in HandlerType /\ handler'.at = "resume" /\ handler'.for = handler.for
  <2>1. "resume" \in Handling
    BY DEF Handling
  <2> QED BY <1>0, <1>1, <2>1, HandlerFields
<1>3. proc' \in ProcType /\ proc'.port = proc.port
  BY <1>0, <1>1 DEF ProcType
<1>4. sem' \in SemType
  <2>1. (IF proc.pid \in alive THEN proc.pid ELSE Nobody) \in AnyTeam
    BY <1>0 DEF ProcType, AnyTeam
  <2> QED BY <1>0, <1>1, <2>1, SemFields
<1>5. DebuggingTypeOK'
  BY <1>0, <1>1, <1>2, <1>3, <1>4 DEF DebuggingTypeOK
<1>6. (LockOK /\ RequestOK /\ HandlerOK /\ CallersStay)'
  BY <1>1, <1>2, WorkingKept
<1>7. (InstallOK /\ GrantOK /\ EnteredOK /\ InstalledOK)'
  BY <1>1, <1>2, <1>3 DEF DebugInductive, InstallOK, Installing, GrantOK, EnteredOK, InstalledOK, Granted
<1> QED BY <1>5, <1>6, <1>7 DEF DebugInductive

LEMMA ResumeNubKept ==
    ASSUME DebugInductive, ResumeNub
    PROVE  DebugInductive'
<1>0. DebuggingTypeOK /\ handler \in HandlerType /\ ld \in LoaderType
  BY DEF DebugInductive, DebuggingTypeOK
<1>1. /\ handler.at = "resume" /\ handler' = [handler EXCEPT !.at = "installed"]
      /\ ld' = [ld EXCEPT !.flags = FALSE, !.port = handler.for] /\ nub' = "reading"
      /\ UNCHANGED <<alive, proc, req, answer, asker, port, sem, rep, susp, hasty>>
  BY DEF ResumeNub, Moves, serverVars, nubObjects, thread3
<1>2. handler' \in HandlerType /\ handler'.at = "installed" /\ handler'.for = handler.for
  <2>1. "installed" \in Handling
    BY DEF Handling
  <2> QED BY <1>0, <1>1, <2>1, HandlerFields
<1>3. /\ ld' \in LoaderType /\ ld'.installing = ld.installing
      /\ ld'.installed = ld.installed /\ ld'.port = handler.for
  <2>1. handler.for \in Debugger
    BY <1>1, WorkingFor
  <2> QED BY <1>0, <1>1, <2>1, LoaderFields
<1>4. DebuggingTypeOK'
  BY <1>0, <1>1, <1>2, <1>3 DEF DebuggingTypeOK
<1>5. (LockOK /\ RequestOK /\ HandlerOK /\ CallersStay)'
  BY <1>1, <1>2, WorkingKept
<1>6. Team \in alive /\ ~hasty =>
        /\ ld.installing /\ ~ld.installed /\ port.open /\ port.owner = handler.for
        /\ \A d \in Debugger : ~Granted(d) /\ ~(asker[d] = "done" /\ d \in alive)
  BY <1>1, NoneGranted DEF Installing, DebugInductive, InstallOK
<1>7. (InstallOK /\ GrantOK /\ EnteredOK /\ InstalledOK)'
  BY <1>1, <1>2, <1>3, <1>6 DEF InstallOK, Installing, GrantOK, EnteredOK, InstalledOK, Granted
<1> QED BY <1>4, <1>5, <1>7 DEF DebugInductive

\* The installation has worked: its debugger is granted, and no other is.
LEMMA InstallEndKept ==
    ASSUME DebugInductive, InstallEnd
    PROVE  DebugInductive'
<1>0. DebuggingTypeOK /\ handler \in HandlerType /\ ld \in LoaderType
  BY DEF DebugInductive, DebuggingTypeOK
<1>1. /\ handler.at = "installed" /\ handler' = [handler EXCEPT !.at = "reply", !.ok = TRUE]
      /\ ld' = [ld EXCEPT !.installing = FALSE, !.installed = TRUE]
      /\ UNCHANGED <<alive, proc, req, answer, asker, nub, port, sem, rep, susp, hasty>>
  BY DEF InstallEnd, Replies, serverVars, nubObjects, thread3
<1>2. handler' \in HandlerType /\ handler'.at = "reply" /\ handler'.for = handler.for /\ handler'.ok
  <2>1. "reply" \in Handling
    BY DEF Handling
  <2> QED BY <1>0, <1>1, <2>1, HandlerFields
<1>3. ld' \in LoaderType /\ ~ld'.installing /\ ld'.installed /\ ld'.port = ld.port
  BY <1>0, <1>1, LoaderFields
<1>4. DebuggingTypeOK'
  BY <1>0, <1>1, <1>2, <1>3 DEF DebuggingTypeOK
<1>5. (LockOK /\ RequestOK /\ HandlerOK /\ CallersStay)'
  BY <1>1, <1>2, WorkingKept
<1>6. handler.for \in Debugger
  BY <1>1, WorkingFor
<1>7. Team \in alive /\ ~hasty =>
        /\ port.open /\ port.owner = handler.for /\ ld.port = handler.for
        /\ \A d \in Debugger : ~Granted(d) /\ ~(asker[d] = "done" /\ d \in alive)
  BY <1>1, NoneGranted DEF Installing, DebugInductive, InstallOK
<1>8. (InstallOK /\ GrantOK /\ EnteredOK /\ InstalledOK)'
  BY <1>1, <1>2, <1>3, <1>6, <1>7 DEF InstallOK, Installing, GrantOK, EnteredOK, InstalledOK, Granted
<1> QED BY <1>4, <1>5, <1>8 DEF DebugInductive

\* The answer is that of the handler: who is granted stays the same.
LEMMA ReplyKept ==
    ASSUME DebugInductive, Reply
    PROVE  DebugInductive'
<1>0. DebuggingTypeOK /\ handler \in HandlerType /\ req \in ReqType
  BY DEF DebugInductive, DebuggingTypeOK
<1> DEFINE f == handler.for
<1>1. /\ handler.at = "reply" /\ req' = [req EXCEPT !.for = Nobody]
      /\ answer' = [answer EXCEPT ![req.for] = IF handler.ok THEN "yes" ELSE "no"]
      /\ handler' = [at |-> "none", for |-> Nobody, ok |-> FALSE]
      /\ UNCHANGED <<alive, proc, asker, ld, nub, port, sem, rep, susp, hasty>>
  BY DEF Reply, ReplyClears, nubObjects, thread3
<1>2. f \in Debugger /\ f = req.for /\ asker[f] = "waiting" /\ answer[f] = "none"
  BY <1>1, WorkingFor
<1>3. handler' \in HandlerType /\ handler'.at = "none"
  BY <1>1 DEF HandlerType, Handling
<1>4. req' \in ReqType /\ req'.lock = req.lock /\ req'.for = Nobody
  BY <1>0, <1>1, RequestFields
<1>5. /\ answer'[f] = IF handler.ok THEN "yes" ELSE "no"
      /\ \A d \in Debugger \ {f} : answer'[d] = answer[d]
  BY <1>0, <1>1, <1>2 DEF DebuggingTypeOK
<1>6. DebuggingTypeOK'
  BY <1>0, <1>1, <1>3, <1>4 DEF DebuggingTypeOK
<1>7. (LockOK /\ RequestOK /\ HandlerOK /\ CallersStay)'
  BY <1>1, <1>2, <1>3, <1>4, <1>5 DEF DebugInductive, LockOK, RequestOK, HandlerOK, CallersStay
<1>8. \A d \in Debugger : Granted(d)' <=> Granted(d)
  BY <1>1, <1>2, <1>3, <1>5 DEF Granted, f
<1>9. (InstallOK /\ GrantOK /\ EnteredOK)'
  BY <1>1, <1>3, <1>8 DEF DebugInductive, InstallOK, Installing, GrantOK, EnteredOK
<1>10. InstalledOK'
  BY <1>1, <1>8 DEF DebugInductive, InstalledOK
<1> QED BY <1>6, <1>7, <1>9, <1>10 DEF DebugInductive

\* The nub thread ends only when its port is gone, and then nobody is granted.
LEMMA NubFailsKept ==
    ASSUME DebugInductive, NubFails
    PROVE  DebugInductive'
<1>0. DebuggingTypeOK /\ ld \in LoaderType
  BY DEF DebugInductive, DebuggingTypeOK
<1>1. /\ ~port.open /\ nub' = "none" /\ ld' = [ld EXCEPT !.installed = FALSE]
      /\ UNCHANGED <<alive, proc, req, answer, asker, handler, port, sem, rep, susp, hasty>>
  BY DEF NubFails, serverVars, nubObjects, thread3
<1>2. ld' \in LoaderType /\ ld'.installing = ld.installing /\ ~ld'.installed /\ ld'.port = ld.port
  BY <1>0, <1>1, LoaderFields
<1>3. DebuggingTypeOK'
  BY <1>0, <1>1, <1>2 DEF DebuggingTypeOK
<1>4. (LockOK /\ RequestOK /\ HandlerOK /\ CallersStay)'
  BY <1>1 DEF DebugInductive, LockOK, RequestOK, HandlerOK, CallersStay
<1>5. (InstallOK /\ GrantOK /\ EnteredOK /\ InstalledOK)'
  BY <1>1, <1>2 DEF DebugInductive, InstallOK, Installing, GrantOK, EnteredOK, InstalledOK, Granted
<1> QED BY <1>3, <1>4, <1>5 DEF DebugInductive

LEMMA NubReadsKept ==
    ASSUME DebugInductive, NubReads
    PROVE  DebugInductive'
<1>0. DebuggingTypeOK /\ ld \in LoaderType /\ port \in PortType
  BY DEF DebugInductive, DebuggingTypeOK
<1>1. /\ port.queue # <<>> /\ port' = [port EXCEPT !.queue = Tail(port.queue)]
      /\ \/ ld' = [ld EXCEPT !.flags = ~@] /\ susp' = susp
         \/ ld' = ld /\ susp' = FALSE
      /\ UNCHANGED <<alive, proc, req, answer, asker, handler, nub, sem, rep, hasty>>
  BY DEF NubReads, serverVars
<1>2. port' \in PortType /\ port'.open = port.open /\ port'.owner = port.owner
  BY <1>0, <1>1, PortFields
<1>3. /\ ld' \in LoaderType /\ ld'.installing = ld.installing
      /\ ld'.installed = ld.installed /\ ld'.port = ld.port
  BY <1>0, <1>1, LoaderFields
<1>4. DebuggingTypeOK'
  BY <1>0, <1>1, <1>2, <1>3 DEF DebuggingTypeOK
<1> QED BY <1>1, <1>2, <1>3, <1>4, QuietKept

LEMMA TellNubKept ==
    ASSUME DebugInductive, NEW d \in Debugger, NEW m \in {"flags", "continue"}, TellNub(d, m)
    PROVE  DebugInductive'
<1>0. DebuggingTypeOK /\ port \in PortType
  BY DEF DebugInductive, DebuggingTypeOK
<1>1. /\ port' = [port EXCEPT !.queue = <<m>>]
      /\ UNCHANGED <<alive, proc, req, answer, asker, handler, ld, nub, sem, rep, susp, hasty>>
  BY DEF TellNub, serverVars, loaderVars, thread3
<1>2. port' \in PortType /\ port'.open = port.open /\ port'.owner = port.owner
  <2>1. <<m>> \in Seq({"flags", "continue"})
    OBVIOUS
  <2> QED BY <1>0, <1>1, <2>1, PortFields
<1>3. DebuggingTypeOK'
  BY <1>0, <1>1, <1>2 DEF DebuggingTypeOK
<1> QED BY <1>1, <1>2, <1>3, QuietKept

\* The reports and an exec.
LEMMA ReportKept ==
    ASSUME DebugInductive, ReportStep \/ Restore
    PROVE  DebugInductive'
<1>0. DebuggingTypeOK /\ sem \in SemType
  BY DEF DebugInductive, DebuggingTypeOK
<1>1. /\ sem' \in {sem} \cup {[sem EXCEPT !.state = st] : st \in {"none", "free", "held"}}
      /\ rep' \in Reporting /\ susp' \in {susp, FALSE} /\ nub' \in {nub, "reading"}
      /\ UNCHANGED <<alive, proc, req, answer, asker, handler, ld, port, hasty>>
  <2>1. CASE Report
    BY <2>1 DEF Report, Goes, Reporting, serverVars, loaderVars
  <2>2. CASE SuspendSelf
    BY <2>2 DEF SuspendSelf, Goes, Reporting, serverVars, loaderVars, nubObjects
  <2>3. CASE WriteMessage
    BY <2>3 DEF WriteMessage, Goes, Reporting, serverVars, loaderVars, nubObjects
  <2>4. CASE ReleaseLock
    BY <2>4 DEF ReleaseLock, Goes, Reporting, serverVars, loaderVars
  <2>5. CASE WaitForResume
    BY <2>5 DEF WaitForResume, Goes, Reporting, serverVars, loaderVars, nubObjects
  <2>6. CASE Restore
    BY <2>6 DEF Restore, Reporting, serverVars, nubObjects
  <2> QED BY <2>1, <2>2, <2>3, <2>4, <2>5, <2>6 DEF ReportStep
<1>2. sem' \in SemType
  BY <1>0, <1>1, SemFields
<1>3. DebuggingTypeOK'
  BY <1>0, <1>1, <1>2 DEF DebuggingTypeOK
<1> QED BY <1>1, <1>3, QuietKept

\* A debugger leaves, and its nub port goes with it.
LEMMA DebuggerLeavesKept ==
    ASSUME DebugInductive, NEW d \in Debugger, DebuggerLeaves(d)
    PROVE  DebugInductive'
<1>0. DebuggingTypeOK /\ port \in PortType /\ sem \in SemType
  BY DEF DebugInductive, DebuggingTypeOK
<1>1. /\ alive' = alive \ {d} /\ hasty' = (hasty \/ asker[d] \notin {"idle", "done"})
      /\ port' = IF port.owner = d THEN NoPort ELSE port
      /\ sem' = IF sem.owner = d THEN NoSem ELSE sem
      /\ UNCHANGED <<proc, req, answer, asker, handler, ld, nub, rep, susp>>
  BY DebuggingAssumption DEF DebuggerLeaves, DropOwned, serverVars, loaderVars, thread3
<1>2. port' \in PortType /\ sem' \in SemType
  BY <1>0, <1>1, PortFields, SemFields
<1>3. hasty' \in BOOLEAN /\ alive' \subseteq Debugger \cup {Team}
  BY <1>0, <1>1 DEF DebuggingTypeOK
<1>4. DebuggingTypeOK'
  BY <1>0, <1>1, <1>2, <1>3 DEF DebuggingTypeOK
<1>5. (LockOK /\ RequestOK /\ HandlerOK /\ CallersStay)'
  BY <1>1 DEF DebugInductive, LockOK, RequestOK, HandlerOK, CallersStay
<1>6. ASSUME ~hasty'
      PROVE  /\ ~hasty /\ ~Granted(d)
             /\ handler.at \notin {"none", "signalled"} => handler.for # d
  <2>1. ~hasty /\ asker[d] \in {"idle", "done"}
    BY <1>6, <1>1
  <2>2. handler.at \notin {"none", "signalled"} => handler.for # d
    BY <2>1, WorkingFor
  <2> QED BY <2>1, <2>2 DEF DebugInductive, RequestOK, Granted
<1>7. (Team \in alive)' <=> Team \in alive
  BY <1>1, DebuggingAssumption
<1>8. InstallOK'
  BY <1>1, <1>6, <1>7, DebuggingAssumption DEF DebugInductive, InstallOK
<1>9. GrantOK'
  BY <1>1, <1>6, <1>7 DEF DebugInductive, GrantOK, Granted
<1>10. (EnteredOK /\ InstalledOK)'
  BY <1>1, <1>6, <1>7 DEF DebugInductive, EnteredOK, InstalledOK, Granted
<1> QED BY <1>4, <1>5, <1>8, <1>9, <1>10 DEF DebugInductive

LEMMA TeamLeavesKept ==
    ASSUME DebugInductive, TeamLeaves
    PROVE  DebugInductive'
<1>0. DebuggingTypeOK /\ port \in PortType /\ sem \in SemType /\ ld \in LoaderType
  BY DEF DebugInductive, DebuggingTypeOK
<1>1. /\ alive' = alive \ {Team} /\ port' \in {port, NoPort} /\ sem' \in {sem, NoSem}
      /\ handler' = [at |-> "none", for |-> Nobody, ok |-> FALSE]
      /\ ld' = Unloaded /\ nub' = "none" /\ rep' = "run"
      /\ UNCHANGED <<proc, req, answer, asker, susp, hasty>>
  BY DEF TeamLeaves, DropOwned, serverVars
<1>2. port' \in PortType /\ sem' \in SemType /\ ld' \in LoaderType
  BY <1>0, <1>1, PortFields, SemFields, LoaderFields
<1>3. handler' \in HandlerType /\ handler'.at = "none"
  BY <1>1 DEF HandlerType, Handling
<1>4. DebuggingTypeOK'
  BY <1>0, <1>1, <1>2, <1>3 DEF DebuggingTypeOK, Reporting
<1>5. (LockOK /\ RequestOK /\ HandlerOK /\ CallersStay)'
  BY <1>1, <1>3, DebuggingAssumption DEF DebugInductive, LockOK, RequestOK, HandlerOK, CallersStay
<1>6. (InstallOK /\ GrantOK /\ EnteredOK /\ InstalledOK)'
  BY <1>1 DEF InstallOK, GrantOK, EnteredOK, InstalledOK
<1> QED BY <1>4, <1>5, <1>6 DEF DebugInductive

\* What the runs check follows: a debugger whose call is over is nobody's grant.
LEMMA DebugSuffices == DebugInductive => RequestsAgree
<1> SUFFICES ASSUME DebugInductive PROVE RequestsAgree
  OBVIOUS
<1>1. \A d \in Debugger : asker[d] = "sending" => req.lock = d /\ req.for = Nobody
  BY LockAlone
<1>2. ASSUME Team \in alive, ~hasty, NEW d \in Debugger, asker[d] = "done", d \in alive
      PROVE  proc.port = d /\ ld.port = d
  BY <1>2 DEF DebugInductive, GrantOK, EnteredOK
<1>3. ASSUME Team \in alive, ~hasty, ld.installed, \A d \in Debugger : asker[d] \in {"idle", "done"}
      PROVE  proc.port = ld.port
  <2>1. ld.port \in Debugger /\ (Granted(ld.port) \/ (asker[ld.port] = "done" /\ proc.port = ld.port))
    BY <1>3 DEF DebugInductive, InstalledOK
  <2>2. ~Granted(ld.port)
    <3>1. handler.at = "reply" => asker[handler.for] = "waiting" /\ handler.for \in Debugger
      BY WorkingFor
    <3> QED BY <3>1, <2>1, <1>3 DEF DebugInductive, RequestOK, Granted
  <2> QED BY <2>1, <2>2
<1> QED BY <1>1, <1>2, <1>3 DEF RequestsAgree

\* Whoever has the request lock of a thread finds no request of another, and the
\* debugger the server believes in is the one the loader reports to, however the
\* installations of any number of debuggers overlap, debuggers and the team leave
\* and the nub thread ends (Thread::SendRequest, install_team_debugger,
\* loader_install_team_debugger, disconnect).
THEOREM DebuggersAgree == DebuggingSpec => []RequestsAgree
<1>1. DebugInductive /\ [DebuggingStep]_debugVars => DebugInductive'
  <2> SUFFICES ASSUME DebugInductive, [DebuggingStep]_debugVars PROVE DebugInductive'
    OBVIOUS
  <2>1. CASE UNCHANGED debugVars
    <3>1. UNCHANGED <<alive, proc, req, answer, asker, handler, ld, nub, port, sem, rep, susp, hasty>>
      BY <2>1 DEF debugVars
    <3>2. DebuggingTypeOK'
      BY <3>1 DEF DebugInductive, DebuggingTypeOK
    <3> QED BY <3>1, <3>2, QuietKept
  <2>2. ASSUME NEW d \in Debugger, Look(d) \/ AskerStep(d) \/ DebuggerLeaves(d) PROVE DebugInductive'
    BY <2>2, LookKept, TakeLockKept, SendKept, AnsweredKept, EnteredKept, DebuggerLeavesKept
       DEF AskerStep
  <2>3. ASSUME NEW d \in Debugger, NEW m \in {"flags", "continue"}, TellNub(d, m) PROVE DebugInductive'
    BY <2>3, TellNubKept
  <2>4. CASE HandlerStep
    BY <2>4, AckKept, BeginKept, CreateSemKept, CreatePortKept, SetOwnerKept, SpawnNubKept,
       RegisterNubKept, ResumeNubKept, InstallEndKept, ReplyKept DEF HandlerStep
  <2>5. CASE NubStep \/ ReportStep \/ Restore \/ TeamLeaves
    BY <2>5, NubFailsKept, NubReadsKept, ReportKept, TeamLeavesKept DEF NubStep
  <2> QED BY <2>1, <2>2, <2>3, <2>4, <2>5 DEF DebuggingStep
<1> QED BY DebugInitially, <1>1, DebugSuffices, PTL DEF DebuggingSpec

-----------------------------------------------------------------------------
(* Blocked threads and the data sent to threads. *)

\* A Thread object.
Object == [registered : BOOLEAN, blocked : BOOLEAN, status : Status \cup {TimedOut},
           sender : Thread \cup {NoOne}, data : Data]

\* What the operation of a call says about its place and its thread.
CallsOK ==
    \A s \in Thread :
        LET c == call[s] IN
        /\ c.op = "idle" => c = Idle
        /\ c.op # "idle" => c.on \in Thread
        /\ c.op \in {"block", "receive"} => c.on = s
        /\ c.op = "block" => c.at \in {"asleep", "woken"}
        /\ c.op = "unblock" => c.at = "found"
        /\ c.op \in {"send", "receive"} => c.at \in {"found", "test", "asleep", "woken"}

\* A blocked thread that nobody has answered still has its wait_status armed.
BlockedArmed ==
    \A s \in Thread :
        call[s].op = "block" /\ (obj[s].blocked \/ call[s].at = "asleep") => wait[s] = Armed

\* What a call found at its test holds until it sleeps, and while it sleeps.
TestHolds ==
    \A s \in Thread : call[s].at \in {"test", "asleep"} =>
        LET o == obj[call[s].on] IN
        /\ call[s].op = "send" => o.sender # NoOne /\ (o.registered \/ call[s].on \in missed)
        /\ call[s].op = "receive" => o.sender = NoOne /\ (o.registered \/ call[s].on \in missed)

ThreadsInductive == ThreadsTypeOK /\ CallsOK /\ BlockedArmed /\ TestHolds /\ DataConserved

LEMMA ThreadsInitInductive == ThreadsInit => ThreadsInductive
<1> SUFFICES ASSUME ThreadsInit PROVE ThreadsInductive
  OBVIOUS
<1>1. ThreadsTypeOK
  BY DEF ThreadsInit, ThreadsTypeOK, Idle, Op, Places, Status, Armed, TimedOut, Data, NoData, NoOne
<1>2. CallsOK /\ BlockedArmed /\ TestHolds
  BY DEF ThreadsInit, CallsOK, BlockedArmed, TestHolds, Idle
<1>3. DataConserved
  BY DEF ThreadsInit, DataConserved
<1> QED BY <1>1, <1>2, <1>3 DEF ThreadsInductive

-----------------------------------------------------------------------------
(* What the helpers of the calls return. *)

\* A call ends and the sleepers of a set are notified; nothing else changes.
LEMMA EndsFacts ==
    ASSUME ThreadsTypeOK, CallsOK, NEW s \in Thread, NEW N, call' = Ends(s, N)
    PROVE  /\ call' \in [Thread -> [op : Op, at : Places, on : Thread \cup {NoOne},
                                    timed : BOOLEAN]]
           /\ call'[s] = Idle
           /\ \A x \in Thread : x # s =>
                /\ call'[x].op = call[x].op /\ call'[x].on = call[x].on
                /\ call'[x].at = IF call[x].at = "asleep" /\ x \in N THEN "woken" ELSE call[x].at
           /\ CallsOK'
<1>1. call'[s] = Idle /\ Idle \in [op : Op, at : Places, on : Thread \cup {NoOne}, timed : BOOLEAN]
  BY DEF Ends, Idle, Op, Places, NoOne
<1>2. \A x \in Thread : x # s =>
        /\ call'[x] \in [op : Op, at : Places, on : Thread \cup {NoOne}, timed : BOOLEAN]
        /\ call'[x].op = call[x].op /\ call'[x].on = call[x].on
        /\ call'[x].at = IF call[x].at = "asleep" /\ x \in N THEN "woken" ELSE call[x].at
        /\ call[x] = Idle => call'[x] = Idle
  <2> TAKE x \in Thread
  <2> HAVE x # s
  <2>0. call[x] \in [op : Op, at : Places, on : Thread \cup {NoOne}, timed : BOOLEAN]
    BY DEF ThreadsTypeOK
  <2>1. CASE call[x].at = "asleep" /\ x \in N
    <3>1. call'[x] = [call[x] EXCEPT !.at = "woken"]
      BY <2>1 DEF Ends
    <3>2. call[x] # Idle
      BY <2>1 DEF Idle
    <3> QED BY <3>1, <3>2, <2>0, <2>1 DEF Places
  <2>2. CASE ~(call[x].at = "asleep" /\ x \in N)
    BY <2>0, <2>2 DEF Ends
  <2> QED BY <2>1, <2>2
<1>3. call' \in [Thread -> [op : Op, at : Places, on : Thread \cup {NoOne}, timed : BOOLEAN]]
  BY <1>1, <1>2 DEF Ends
<1>4. CallsOK'
  <2> SUFFICES ASSUME NEW x \in Thread
               PROVE  LET c == call'[x] IN
                      /\ c.op = "idle" => c = Idle
                      /\ c.op # "idle" => c.on \in Thread
                      /\ c.op \in {"block", "receive"} => c.on = x
                      /\ c.op = "block" => c.at \in {"asleep", "woken"}
                      /\ c.op = "unblock" => c.at = "found"
                      /\ c.op \in {"send", "receive"} =>
                           c.at \in {"found", "test", "asleep", "woken"}
    BY DEF CallsOK
  <2>1. CASE x = s
    BY <1>1, <2>1 DEF Idle
  <2>2. CASE x # s
    <3>1. /\ call'[x].op = call[x].op /\ call'[x].on = call[x].on
          /\ call'[x].at = IF call[x].at = "asleep" /\ x \in N THEN "woken" ELSE call[x].at
          /\ call[x] = Idle => call'[x] = Idle
      BY <1>2, <2>2
    <3> QED BY <3>1 DEF CallsOK
  <2> QED BY <2>1, <2>2
<1> QED BY <1>1, <1>2, <1>3, <1>4

\* One call is put in another place.
LEMMA PlaceFacts ==
    ASSUME ThreadsTypeOK, CallsOK, NEW s \in Thread, NEW c, call' = [call EXCEPT ![s] = c],
           c \in [op : Op, at : Places, on : Thread \cup {NoOne}, timed : BOOLEAN],
           /\ c.op = "idle" => c = Idle
           /\ c.op # "idle" => c.on \in Thread
           /\ c.op \in {"block", "receive"} => c.on = s
           /\ c.op = "block" => c.at \in {"asleep", "woken"}
           /\ c.op = "unblock" => c.at = "found"
           /\ c.op \in {"send", "receive"} => c.at \in {"found", "test", "asleep", "woken"}
    PROVE  /\ call' \in [Thread -> [op : Op, at : Places, on : Thread \cup {NoOne},
                                    timed : BOOLEAN]]
           /\ call'[s] = c /\ \A x \in Thread : x # s => call'[x] = call[x]
           /\ CallsOK'
<1>1. /\ call' \in [Thread -> [op : Op, at : Places, on : Thread \cup {NoOne}, timed : BOOLEAN]]
      /\ call'[s] = c /\ \A x \in Thread : x # s => call'[x] = call[x]
  BY DEF ThreadsTypeOK
<1>2. CallsOK'
  BY <1>1 DEF CallsOK
<1> QED BY <1>1, <1>2

\* One field of a Thread object is assigned, or two.
LEMMA ObjectFacts ==
    ASSUME ThreadsTypeOK, NEW t \in Thread
    PROVE  /\ \A r \in BOOLEAN : [obj EXCEPT ![t].registered = r] \in [Thread -> Object]
           /\ \A b \in BOOLEAN : [obj EXCEPT ![t].blocked = b] \in [Thread -> Object]
           /\ \A b \in BOOLEAN, v \in Status \cup {TimedOut} :
                /\ [obj EXCEPT ![t].blocked = b, ![t].status = v] \in [Thread -> Object]
                /\ [obj EXCEPT ![t].status = v, ![t].blocked = b] \in [Thread -> Object]
           /\ \A s \in Thread \cup {NoOne}, d \in Data :
                [obj EXCEPT ![t].sender = s, ![t].data = d] \in [Thread -> Object]
<1>1. obj \in [Thread -> Object] /\ obj[t] \in Object
  BY DEF ThreadsTypeOK, Object
<1>2. ASSUME NEW o \in Object PROVE [obj EXCEPT ![t] = o] \in [Thread -> Object]
  BY <1>1
<1>3. ASSUME NEW r \in BOOLEAN PROVE [obj EXCEPT ![t].registered = r] \in [Thread -> Object]
  <2>1. [obj[t] EXCEPT !.registered = r] \in Object
    BY <1>1 DEF Object
  <2> QED BY <2>1, <1>2
<1>4. ASSUME NEW b \in BOOLEAN PROVE [obj EXCEPT ![t].blocked = b] \in [Thread -> Object]
  <2>1. [obj[t] EXCEPT !.blocked = b] \in Object
    BY <1>1 DEF Object
  <2> QED BY <2>1, <1>2
<1>5. ASSUME NEW b \in BOOLEAN, NEW v \in Status \cup {TimedOut}
      PROVE  /\ [obj EXCEPT ![t].blocked = b, ![t].status = v] \in [Thread -> Object]
             /\ [obj EXCEPT ![t].status = v, ![t].blocked = b] \in [Thread -> Object]
  <2>1. /\ [obj[t] EXCEPT !.blocked = b, !.status = v] \in Object
        /\ [obj[t] EXCEPT !.status = v, !.blocked = b] \in Object
    BY <1>1 DEF Object
  <2>2. /\ [obj EXCEPT ![t].blocked = b, ![t].status = v] =
             [obj EXCEPT ![t] = [obj[t] EXCEPT !.blocked = b, !.status = v]]
        /\ [obj EXCEPT ![t].status = v, ![t].blocked = b] =
             [obj EXCEPT ![t] = [obj[t] EXCEPT !.status = v, !.blocked = b]]
    BY <1>1
  <2> QED BY <2>1, <2>2, <1>2
<1>6. ASSUME NEW s \in Thread \cup {NoOne}, NEW d \in Data
      PROVE  [obj EXCEPT ![t].sender = s, ![t].data = d] \in [Thread -> Object]
  <2>1. [obj[t] EXCEPT !.sender = s, !.data = d] \in Object
    BY <1>1 DEF Object
  <2>2. [obj EXCEPT ![t].sender = s, ![t].data = d] =
          [obj EXCEPT ![t] = [obj[t] EXCEPT !.sender = s, !.data = d]]
    BY <1>1
  <2> QED BY <2>1, <2>2, <1>2
<1> QED BY <1>3, <1>4, <1>5, <1>6

\* Every action keeps the types and the places of the calls.
LEMMA ThreadsControl ==
    ASSUME ThreadsTypeOK, CallsOK, ThreadsStep
    PROVE  ThreadsTypeOK' /\ CallsOK'
<1> USE DEF NoOne, Op, Places, Status, Armed, TimedOut, Data, NoData
<1>t. \A t \in Target : t \in Thread
  BY ThreadsAssumption
<1>n. NoData \in Data
  OBVIOUS
<1>c. \A s \in Thread : call[s] \in [op : Op, at : Places, on : Thread \cup {NoOne}, timed : BOOLEAN]
  BY DEF ThreadsTypeOK
<1>i. Idle \in [op : Op, at : Places, on : Thread \cup {NoOne}, timed : BOOLEAN] /\ Idle.op = "idle"
  BY DEF Idle
\* The parts of the type that the actions change.
<1>o. \A t \in Thread : obj[t] \in Object
  BY DEF ThreadsTypeOK, Object
<1>p. ASSUME obj' \in [Thread -> Object]
      PROVE  obj' \in [Thread -> [registered : BOOLEAN, blocked : BOOLEAN,
                                  status : Status \cup {TimedOut},
                                  sender : Thread \cup {NoOne}, data : Data]]
  BY <1>p DEF Object
<1>1. ASSUME NEW t \in Thread, Arm(t) PROVE ThreadsTypeOK' /\ CallsOK'
  <2>1. CallsOK'
    BY <1>1 DEF Arm, CallsOK
  <2> QED BY <1>1, <2>1 DEF Arm, ThreadsTypeOK
<1>2. ASSUME NEW t \in Thread, NEW timed \in BOOLEAN, Block(t, timed) PROVE ThreadsTypeOK' /\ CallsOK'
  <2> DEFINE c == [op |-> "block", at |-> "asleep", on |-> t, timed |-> timed]
  <2>1. call' = [call EXCEPT ![t] = c]
    BY <1>2 DEF Block, CallsNow
  <2>2. /\ call' \in [Thread -> [op : Op, at : Places, on : Thread \cup {NoOne}, timed : BOOLEAN]]
        /\ CallsOK'
    BY <2>1, PlaceFacts
  <2>3. obj' = [obj EXCEPT ![t].blocked = TRUE] /\ UNCHANGED <<wait, sent, got, missed>>
    BY <1>2 DEF Block
  <2>4. obj' \in [Thread -> Object]
    BY <2>3, ObjectFacts
  <2> QED BY <2>2, <2>3, <2>4, <1>p DEF ThreadsTypeOK
<1>3. ASSUME NEW t \in Thread, BlockEnd(t) PROVE ThreadsTypeOK' /\ CallsOK'
  <2>1. call' = [call EXCEPT ![t] = Idle]
    BY <1>3 DEF BlockEnd
  <2>2. /\ call' \in [Thread -> [op : Op, at : Places, on : Thread \cup {NoOne}, timed : BOOLEAN]]
        /\ CallsOK'
    BY <2>1, <1>i, PlaceFacts
  <2>3. PICK status \in Status \cup {TimedOut} :
          /\ obj' = [obj EXCEPT ![t].blocked = FALSE, ![t].status = status]
          /\ wait' = [wait EXCEPT ![t] = status]
          /\ UNCHANGED <<sent, got, missed>>
    BY <1>3, <1>o DEF BlockEnd, Object
  <2>4. obj' \in [Thread -> Object]
    BY <2>3, ObjectFacts
  <2> QED BY <2>2, <2>3, <2>4, <1>p DEF ThreadsTypeOK
<1>4. ASSUME NEW t \in Thread, BlockAgain(t) PROVE ThreadsTypeOK' /\ CallsOK'
  <2> DEFINE c == [call[t] EXCEPT !.at = "asleep"]
  <2>1. call' = [call EXCEPT ![t] = c] /\ call[t].op = "block"
    BY <1>4 DEF BlockAgain
  <2>2. c.op = "block" /\ c.at = "asleep" /\ c.on = t
        /\ c \in [op : Op, at : Places, on : Thread \cup {NoOne}, timed : BOOLEAN]
    BY <2>1, <1>c DEF CallsOK
  <2> HIDE DEF c
  <2>3. /\ call' \in [Thread -> [op : Op, at : Places, on : Thread \cup {NoOne}, timed : BOOLEAN]]
        /\ CallsOK'
    BY <2>1, <2>2, PlaceFacts
  <2> QED BY <1>4, <2>3 DEF BlockAgain, ThreadsTypeOK
<1>5. ASSUME NEW t \in Thread, Receive(t) PROVE ThreadsTypeOK' /\ CallsOK'
  <2> DEFINE c == [op |-> "receive", at |-> "found", on |-> t, timed |-> FALSE]
  <2>1. call' = [call EXCEPT ![t] = c]
    BY <1>5 DEF Receive, CallsNow
  <2>2. /\ call' \in [Thread -> [op : Op, at : Places, on : Thread \cup {NoOne}, timed : BOOLEAN]]
        /\ CallsOK'
    BY <2>1, PlaceFacts
  <2> QED BY <1>5, <2>2 DEF Receive, ThreadsTypeOK
<1>6. ASSUME NEW t \in Thread, ReceiveData(t) PROVE ThreadsTypeOK' /\ CallsOK'
  <2>1. /\ call' \in [Thread -> [op : Op, at : Places, on : Thread \cup {NoOne}, timed : BOOLEAN]]
        /\ CallsOK'
    BY <1>6, <1>i, PlaceFacts, EndsFacts DEF ReceiveData
  <2>2. CASE obj[t].registered
    <3>1. /\ got' = [got EXCEPT ![t] = Append(@, obj[t].data)]
          /\ obj' = [obj EXCEPT ![t].sender = NoOne, ![t].data = NoData]
          /\ UNCHANGED <<wait, sent, missed>>
      BY <1>6, <2>2 DEF ReceiveData
    <3>2. obj[t].data \in Data
      BY <1>o DEF Object
    <3>3. got' \in [Thread -> Seq(Data)]
      BY <3>1, <3>2 DEF ThreadsTypeOK
    <3>4. sent' \in [Thread -> Seq(Data)]
      BY <3>1 DEF ThreadsTypeOK
    <3>5. obj' \in [Thread -> Object]
      BY <3>1, <1>n, ObjectFacts
    <3> QED BY <2>1, <3>1, <3>3, <3>4, <3>5, <1>p DEF ThreadsTypeOK
  <2>3. CASE ~obj[t].registered
    BY <1>6, <2>1, <2>3 DEF ReceiveData, ThreadsTypeOK
  <2> QED BY <2>2, <2>3, <1>o DEF Object
<1>7. ASSUME NEW t \in Thread, NEW s \in Thread, NEW op \in {"send", "unblock"}, Find(s, op, t)
      PROVE  ThreadsTypeOK' /\ CallsOK'
  <2> DEFINE c == [op |-> op, at |-> "found", on |-> t, timed |-> FALSE]
  <2>1. call' = [call EXCEPT ![s] = c]
    BY <1>7 DEF Find, CallsNow
  <2>2. /\ call' \in [Thread -> [op : Op, at : Places, on : Thread \cup {NoOne}, timed : BOOLEAN]]
        /\ CallsOK'
    BY <2>1, PlaceFacts
  <2> QED BY <1>7, <2>2 DEF Find, ThreadsTypeOK
<1>8. ASSUME NEW s \in Thread, NEW status \in Status, Unblock(s, status)
      PROVE  ThreadsTypeOK' /\ CallsOK'
  <2>1. /\ call' \in [Thread -> [op : Op, at : Places, on : Thread \cup {NoOne}, timed : BOOLEAN]]
        /\ CallsOK'
    BY <1>8, EndsFacts DEF Unblock
  <2>2. PICK t \in Thread : t = call[s].on
    BY <1>8 DEF Unblock, CallsOK
  <2>3. /\ wait' = [wait EXCEPT ![t] = status]
        /\ obj' = [obj EXCEPT ![t].status = status, ![t].blocked = FALSE]
        /\ UNCHANGED <<sent, got, missed>>
    BY <1>8, <2>2 DEF Unblock
  <2>4. obj' \in [Thread -> Object]
    BY <2>3, ObjectFacts
  <2> QED BY <2>1, <2>3, <2>4, <1>p DEF ThreadsTypeOK
<1>9. ASSUME NEW s \in Thread, Wait(s) PROVE ThreadsTypeOK' /\ CallsOK'
  <2> DEFINE c == [call[s] EXCEPT !.at = "test"]
  <2>1. call' = [call EXCEPT ![s] = c] /\ call[s].op \in {"send", "receive"}
    BY <1>9 DEF Wait
  <2>2. c.op = call[s].op /\ c.at = "test" /\ c.on = call[s].on
        /\ c \in [op : Op, at : Places, on : Thread \cup {NoOne}, timed : BOOLEAN]
    BY <2>1, <1>c
  <2>3. c.on \in Thread /\ (c.op = "receive" => c.on = s)
    BY <2>1, <2>2 DEF CallsOK
  <2> HIDE DEF c
  <2>4. /\ call' \in [Thread -> [op : Op, at : Places, on : Thread \cup {NoOne}, timed : BOOLEAN]]
        /\ CallsOK'
    BY <2>1, <2>2, <2>3, PlaceFacts
  <2> QED BY <1>9, <2>4 DEF Wait, ThreadsTypeOK
<1>10. ASSUME NEW s \in Thread, Sleep(s) PROVE ThreadsTypeOK' /\ CallsOK'
  <2> DEFINE c == [call[s] EXCEPT !.at = "asleep"]
  <2>1. call' = [call EXCEPT ![s] = c] /\ call[s].at = "test"
    BY <1>10 DEF Sleep
  <2>0. call[s].op \in {"send", "receive"}
    BY <2>1, <1>c DEF CallsOK, Idle
  <2>2. c.op = call[s].op /\ c.at = "asleep" /\ c.on = call[s].on
        /\ c \in [op : Op, at : Places, on : Thread \cup {NoOne}, timed : BOOLEAN]
    BY <2>1, <1>c
  <2>3. c.on \in Thread /\ (c.op = "receive" => c.on = s)
    BY <2>0, <2>2 DEF CallsOK
  <2> HIDE DEF c
  <2>4. /\ call' \in [Thread -> [op : Op, at : Places, on : Thread \cup {NoOne}, timed : BOOLEAN]]
        /\ CallsOK'
    BY <2>0, <2>1, <2>2, <2>3, PlaceFacts
  <2> QED BY <1>10, <2>4 DEF Sleep, ThreadsTypeOK
<1>11. ASSUME NEW s \in Thread, SendData(s) PROVE ThreadsTypeOK' /\ CallsOK'
  <2>0. PICK t \in Thread : t = call[s].on
    BY <1>11 DEF SendData, CallsOK
  <2>1. /\ call' \in [Thread -> [op : Op, at : Places, on : Thread \cup {NoOne}, timed : BOOLEAN]]
        /\ CallsOK'
    BY <1>11, <1>i, PlaceFacts, EndsFacts DEF SendData
  <2>2. CASE obj[t].registered
    <3> DEFINE d == <<s, Len(sent[t])>>
    <3>1. /\ sent' = [sent EXCEPT ![t] = Append(@, d)]
          /\ obj' = [obj EXCEPT ![t].sender = s, ![t].data = d]
          /\ UNCHANGED <<wait, got, missed>>
      BY <1>11, <2>0, <2>2 DEF SendData
    <3>2. d \in Data /\ sent[t] \in Seq(Data)
      BY DEF ThreadsTypeOK
    <3> HIDE DEF d
    <3>3. sent' \in [Thread -> Seq(Data)]
      BY <3>1, <3>2 DEF ThreadsTypeOK
    <3>4. got' \in [Thread -> Seq(Data)]
      BY <3>1 DEF ThreadsTypeOK
    <3>5. obj' \in [Thread -> Object]
      BY <3>1, <3>2, ObjectFacts
    <3> QED BY <2>1, <3>1, <3>3, <3>4, <3>5, <1>p DEF ThreadsTypeOK
  <2>3. CASE ~obj[t].registered
    BY <1>11, <2>0, <2>1, <2>3 DEF SendData, ThreadsTypeOK
  <2> QED BY <2>2, <2>3, <1>o DEF Object
<1>12. ASSUME NEW s \in Thread, Leave(s) PROVE ThreadsTypeOK' /\ CallsOK'
  <2>1. ASSUME NEW x \in Thread
        PROVE  /\ call'[x] \in [op : Op, at : Places, on : Thread \cup {NoOne}, timed : BOOLEAN]
               /\ call'[x].op = call[x].op /\ call'[x].on = call[x].on
               /\ call'[x].at = IF call[x].at = "asleep" /\ call[x].on = s THEN "woken" ELSE call[x].at
               /\ call[x] = Idle => call'[x] = Idle
    <3>1. CASE call[x].at = "asleep" /\ call[x].on = s
      <4>1. call'[x] = [call[x] EXCEPT !.at = "woken"] /\ call[x] # Idle
        BY <1>12, <3>1 DEF Leave, Idle
      <4> QED BY <4>1, <3>1, <1>c
    <3>2. CASE ~(call[x].at = "asleep" /\ call[x].on = s)
      BY <1>12, <3>2, <1>c DEF Leave
    <3> QED BY <3>1, <3>2
  <2>2. call' \in [Thread -> [op : Op, at : Places, on : Thread \cup {NoOne}, timed : BOOLEAN]]
    BY <1>12, <2>1 DEF Leave
  <2>3. CallsOK'
    BY <2>1 DEF CallsOK
  <2>4. obj' \in [Thread -> Object]
    BY <1>12, ObjectFacts DEF Leave
  <2>5. missed' \subseteq Thread /\ UNCHANGED <<wait, sent, got>>
    BY <1>12 DEF Leave, ThreadsTypeOK
  <2> QED BY <2>2, <2>3, <2>4, <2>5, <1>p DEF ThreadsTypeOK
<1> QED
  BY <1>t, <1>1, <1>2, <1>3, <1>4, <1>5, <1>6, <1>7, <1>8, <1>9, <1>10, <1>11, <1>12
  DEF ThreadsStep

\* Every action keeps a blocked thread armed: only unblock_thread and the end of
\* the call change its wait_status, and both take it out of its sleep.
LEMMA ArmedStep ==
    ASSUME ThreadsTypeOK, CallsOK, BlockedArmed, ThreadsStep
    PROVE  BlockedArmed'
<1> USE DEF BlockedArmed
<1>t. \A t \in Target : t \in Thread
  BY ThreadsAssumption
<1>o. \A t \in Thread : obj[t] \in Object /\ obj \in [Thread -> Object] /\ DOMAIN wait = Thread
  BY DEF ThreadsTypeOK, Object
<1>i. Idle.op = "idle" /\ Idle.at = "idle"
  BY DEF Idle
<1>c. \A s \in Thread : call[s] \in [op : Op, at : Places, on : Thread \cup {NoOne}, timed : BOOLEAN]
  BY DEF ThreadsTypeOK
<1>d. DOMAIN call = Thread
  BY DEF ThreadsTypeOK
<1>1. ASSUME NEW t \in Thread, Arm(t) PROVE BlockedArmed'
  BY <1>1, <1>i, <1>o DEF Arm
<1>2. ASSUME NEW t \in Thread, NEW timed \in BOOLEAN, Block(t, timed) PROVE BlockedArmed'
  <2>1. wait[t] = Armed
    <3>1. wait[t] \in {0, -1, 1, -2} /\ ~(wait[t] <= 0)
      BY <1>2 DEF Block, AlreadyDone, ThreadsTypeOK, Status, Armed, TimedOut
    <3> QED BY <3>1 DEF Armed
  <2>2. \A x \in Thread : x # t => call'[x] = call[x] /\ obj'[x] = obj[x]
    BY <1>2, <1>o DEF Block, CallsNow
  <2> QED BY <1>2, <2>1, <2>2 DEF Block
<1>3. ASSUME NEW t \in Thread, BlockEnd(t) PROVE BlockedArmed'
  <2>1. call'[t] = Idle /\ \A x \in Thread : x # t => call'[x] = call[x] /\ obj'[x] = obj[x] /\ wait'[x] = wait[x]
    BY <1>3, <1>o, <1>d DEF BlockEnd
  <2> QED BY <2>1, <1>i
<1>4. ASSUME NEW t \in Thread, BlockAgain(t) PROVE BlockedArmed'
  <2>1. call[t].op = "block" /\ obj[t].blocked /\ UNCHANGED <<obj, wait>>
        /\ \A x \in Thread : x # t => call'[x] = call[x]
    BY <1>4 DEF BlockAgain
  <2> QED BY <2>1
<1>5. ASSUME NEW t \in Thread, Receive(t) PROVE BlockedArmed'
  <2>1. call'[t].op = "receive" /\ UNCHANGED <<obj, wait>> /\ \A x \in Thread : x # t => call'[x] = call[x]
    BY <1>5, <1>d DEF Receive, CallsNow
  <2> QED BY <2>1
<1>6. ASSUME NEW t \in Thread, ReceiveData(t) PROVE BlockedArmed'
  <2>1. UNCHANGED wait /\ \A x \in Thread : obj'[x].blocked = obj[x].blocked
    BY <1>6, <1>o DEF ReceiveData, Object
  <2>2. \A x \in Thread : call'[x].op = "block" =>
          call[x].op = "block" /\ (call'[x].at = "asleep" => call[x].at = "asleep")
    BY <1>6, <1>i, <1>d, EndsFacts DEF ReceiveData
  <2> QED BY <2>1, <2>2
<1>7. ASSUME NEW t \in Thread, NEW s \in Thread, NEW op \in {"send", "unblock"}, Find(s, op, t) PROVE BlockedArmed'
  <2>1. call'[s].op # "block" /\ UNCHANGED <<obj, wait>> /\ \A x \in Thread : x # s => call'[x] = call[x]
    BY <1>7, <1>d DEF Find, CallsNow
  <2> QED BY <2>1
<1>8. ASSUME NEW s \in Thread, NEW status \in Status, Unblock(s, status) PROVE BlockedArmed'
  <2>1. PICK t \in Thread : t = call[s].on
    BY <1>8 DEF Unblock, CallsOK
  <2>2. ~obj'[t].blocked /\ \A x \in Thread : x # t => obj'[x] = obj[x] /\ wait'[x] = wait[x]
    BY <1>8, <2>1, <1>o DEF Unblock, Object
  <2>3. call'[s] = Idle /\ \A x \in Thread : x # s =>
          /\ call'[x].op = call[x].op
          /\ call'[x].at = IF call[x].at = "asleep" /\ x \in Blocked(t) THEN "woken" ELSE call[x].at
    BY <1>8, <2>1, EndsFacts DEF Unblock
  <2>4. \A x \in Thread : call[x].op = "block" => call[x].on = x
    BY DEF CallsOK
  <2> QED BY <2>2, <2>3, <2>4, <1>i DEF Blocked
<1>9. ASSUME NEW s \in Thread, Wait(s) PROVE BlockedArmed'
  <2>1. call'[s].op # "block" /\ UNCHANGED <<obj, wait>> /\ \A x \in Thread : x # s => call'[x] = call[x]
    BY <1>9, <1>c DEF Wait
  <2> QED BY <2>1
<1>10. ASSUME NEW s \in Thread, Sleep(s) PROVE BlockedArmed'
  <2>1. call[s].op # "block"
    BY <1>10 DEF Sleep, CallsOK
  <2>2. call'[s].op # "block" /\ UNCHANGED <<obj, wait>> /\ \A x \in Thread : x # s => call'[x] = call[x]
    BY <1>10, <2>1, <1>c DEF Sleep
  <2> QED BY <2>2
<1>11. ASSUME NEW s \in Thread, SendData(s) PROVE BlockedArmed'
  <2>1. UNCHANGED wait /\ \A x \in Thread : obj'[x].blocked = obj[x].blocked
    BY <1>11, <1>o DEF SendData, Object
  <2>2. \A x \in Thread : call'[x].op = "block" =>
          call[x].op = "block" /\ (call'[x].at = "asleep" => call[x].at = "asleep")
    BY <1>11, <1>i, <1>d, EndsFacts DEF SendData
  <2> QED BY <2>1, <2>2
<1>12. ASSUME NEW s \in Thread, Leave(s) PROVE BlockedArmed'
  <2>1. UNCHANGED wait /\ \A x \in Thread : obj'[x].blocked = obj[x].blocked
    BY <1>12, <1>o DEF Leave, Object
  <2>2. \A x \in Thread : call'[x].op = call[x].op /\ (call'[x].at = "asleep" => call[x].at = "asleep")
    BY <1>12, <1>c DEF Leave
  <2> QED BY <2>1, <2>2
<1> QED
  BY <1>t, <1>1, <1>2, <1>3, <1>4, <1>5, <1>6, <1>7, <1>8, <1>9, <1>10, <1>11, <1>12
  DEF ThreadsStep

\* What a call found at its test.
Reason(s) ==
    LET o == obj[call[s].on] IN
    /\ call[s].op = "send" => o.sender # NoOne /\ (o.registered \/ call[s].on \in missed)
    /\ call[s].op = "receive" => o.sender = NoOne /\ (o.registered \/ call[s].on \in missed)

\* Every action keeps what the calls at their test and the sleepers have found:
\* the first hold the lock of the object, and the others are told.
LEMMA TestStep ==
    ASSUME ThreadsTypeOK, CallsOK, TestHolds, ThreadsStep
    PROVE  TestHolds'
<1>t. \A t \in Target : t \in Thread
  BY ThreadsAssumption
<1>o. obj \in [Thread -> Object] /\ \A t \in Thread : obj[t] \in Object
  BY DEF ThreadsTypeOK, Object
<1>i. Idle.op = "idle" /\ Idle.at = "idle"
  BY DEF Idle
<1>c. \A s \in Thread : call[s] \in [op : Op, at : Places, on : Thread \cup {NoOne}, timed : BOOLEAN]
  BY DEF ThreadsTypeOK
<1>d. DOMAIN call = Thread
  BY DEF ThreadsTypeOK
<1>h. \A s \in Thread : call[s].at \in {"test", "asleep"} => Reason(s)
  BY DEF TestHolds, Reason
<1>n. \A s \in Thread : call[s].op \in {"send", "receive"} => call[s].on \in Thread
  BY DEF CallsOK
\* What to show of a call that sends or receives.
<1>q. ASSUME \A x \in Thread : call'[x].at \in {"test", "asleep"} /\ call'[x].op \in {"send", "receive"} =>
                                 Reason(x)'
      PROVE  TestHolds'
  BY <1>q DEF TestHolds, Reason
\* A call that was at its test or asleep before, while its object stays the same.
<1>k. ASSUME NEW x \in Thread, call[x].at \in {"test", "asleep"},
             call'[x].op = call[x].op, call'[x].on = call[x].on, call[x].on \in missed => call[x].on \in missed',
             call'[x].op \in {"send", "receive"},
             obj'[call[x].on].sender = obj[call[x].on].sender \/
               (obj'[call[x].on].sender # NoOne /\ call[x].op = "send"),
             obj[call[x].on].registered => obj'[call[x].on].registered \/ call[x].on \in missed'
      PROVE  Reason(x)'
  BY <1>k, <1>h DEF Reason
\* A step that leaves the objects alone and puts nobody to the test.
<1>u. ASSUME UNCHANGED <<obj, missed>>,
             \A x \in Thread : call'[x].at \in {"test", "asleep"} /\ call'[x].op \in {"send", "receive"} =>
               /\ call[x].at \in {"test", "asleep"}
               /\ call'[x].op = call[x].op /\ call'[x].on = call[x].on
      PROVE  TestHolds'
  BY <1>u, <1>k, <1>q
<1>1. ASSUME NEW t \in Thread, Arm(t) PROVE TestHolds'
  BY <1>1, <1>u DEF Arm
<1>2. ASSUME NEW t \in Thread, NEW timed \in BOOLEAN, Block(t, timed) PROVE TestHolds'
  <2>1. \A u \in Thread : obj'[u].sender = obj[u].sender /\ obj'[u].registered = obj[u].registered
    BY <1>2, <1>o DEF Block, Object
  <2>2. call'[t].op = "block" /\ UNCHANGED missed /\ \A x \in Thread : x # t => call'[x] = call[x]
    BY <1>2, <1>d DEF Block, CallsNow
  <2> QED BY <2>1, <2>2, <1>k, <1>q, <1>n
<1>3. ASSUME NEW t \in Thread, BlockEnd(t) PROVE TestHolds'
  <2>1. \A u \in Thread : obj'[u].sender = obj[u].sender /\ obj'[u].registered = obj[u].registered
    BY <1>3, <1>o DEF BlockEnd, Object
  <2>2. call'[t] = Idle /\ UNCHANGED missed /\ \A x \in Thread : x # t => call'[x] = call[x]
    BY <1>3, <1>d DEF BlockEnd
  <2> QED BY <2>1, <2>2, <1>i, <1>k, <1>q, <1>n
<1>4. ASSUME NEW t \in Thread, BlockAgain(t) PROVE TestHolds'
  <2>1. call'[t].op = "block" /\ \A x \in Thread : x # t => call'[x] = call[x]
    BY <1>4, <1>d, <1>c DEF BlockAgain
  <2> QED BY <1>4, <2>1, <1>u DEF BlockAgain
<1>5. ASSUME NEW t \in Thread, Receive(t) PROVE TestHolds'
  <2>1. call'[t].at = "found" /\ \A x \in Thread : x # t => call'[x] = call[x]
    BY <1>5, <1>d DEF Receive, CallsNow
  <2> QED BY <1>5, <2>1, <1>u DEF Receive
<1>6. ASSUME NEW t \in Thread, ReceiveData(t) PROVE TestHolds'
  <2>0. call[t].on = t /\ Unlocked(t)
    BY <1>6 DEF ReceiveData, Awoken, CallsOK
  <2>1. CASE obj[t].registered
    <3>1. /\ obj' = [obj EXCEPT ![t].sender = NoOne, ![t].data = NoData]
          /\ call' = Ends(t, Freed(t))
          /\ UNCHANGED missed
      BY <1>6, <2>1 DEF ReceiveData
    <3>2. /\ \A u \in Thread : obj'[u].registered = obj[u].registered
          /\ \A u \in Thread : u # t => obj'[u] = obj[u]
      BY <3>1, <1>o DEF Object
    <3>3. call'[t] = Idle /\ \A x \in Thread : x # t =>
            /\ call'[x].op = call[x].op /\ call'[x].on = call[x].on
            /\ call'[x].at = IF call[x].at = "asleep" /\ x \in Freed(t) THEN "woken" ELSE call[x].at
      BY <3>1, EndsFacts
    <3>4. ASSUME NEW x \in Thread, call'[x].at \in {"test", "asleep"}, call'[x].op \in {"send", "receive"}
          PROVE  Reason(x)'
      <4>1. x # t /\ call[x].at \in {"test", "asleep"} /\ call[x].op \in {"send", "receive"}
        BY <3>3, <3>4, <1>i
      <4>2. call[x].on # t
        <5>1. CASE call[x].at = "test"
          BY <5>1, <2>0 DEF Unlocked
        <5>2. CASE call[x].op = "receive"
          BY <5>2, <4>1 DEF CallsOK
        <5>3. CASE call[x].at = "asleep" /\ call[x].op = "send"
          BY <5>3, <3>3, <3>4, <4>1 DEF Freed
        <5> QED BY <4>1, <5>1, <5>2, <5>3
      <4>3. call[x].on \in Thread /\ call'[x].op = call[x].op /\ call'[x].on = call[x].on
        BY <4>1, <3>3, <1>n
      <4> QED BY <4>1, <4>2, <4>3, <3>1, <3>2, <1>k
    <3> QED BY <3>4, <1>q
  <2>2. CASE ~obj[t].registered
    <3>1. UNCHANGED <<obj, missed>> /\ call' = [call EXCEPT ![t] = Idle]
      BY <1>6, <2>2 DEF ReceiveData
    <3>2. call'[t] = Idle /\ \A x \in Thread : x # t => call'[x] = call[x]
      BY <3>1, <1>d
    <3> QED BY <3>1, <3>2, <1>i, <1>u
  <2> QED BY <2>1, <2>2
<1>7. ASSUME NEW t \in Thread, NEW s \in Thread, NEW op \in {"send", "unblock"}, Find(s, op, t) PROVE TestHolds'
  <2>1. call'[s].at = "found" /\ \A x \in Thread : x # s => call'[x] = call[x]
    BY <1>7, <1>d DEF Find, CallsNow
  <2> QED BY <1>7, <2>1, <1>u DEF Find
<1>8. ASSUME NEW s \in Thread, NEW status \in Status, Unblock(s, status) PROVE TestHolds'
  <2>1. \A u \in Thread : obj'[u].sender = obj[u].sender /\ obj'[u].registered = obj[u].registered
    BY <1>8, <1>o DEF Unblock, Object
  <2>2. call'[s] = Idle /\ \A x \in Thread : x # s =>
          /\ call'[x].op = call[x].op /\ call'[x].on = call[x].on
          /\ call'[x].at \in {"test", "asleep"} => call[x].at \in {"test", "asleep"}
    BY <1>8, EndsFacts DEF Unblock
  <2>3. UNCHANGED missed
    BY <1>8 DEF Unblock
  <2>4. ASSUME NEW x \in Thread, call'[x].at \in {"test", "asleep"}, call'[x].op \in {"send", "receive"}
        PROVE  Reason(x)'
    BY <2>1, <2>2, <2>3, <2>4, <1>i, <1>k, <1>n
  <2> QED BY <2>4, <1>q
<1>9. ASSUME NEW s \in Thread, Wait(s) PROVE TestHolds'
  <2>1. /\ call[s].op \in {"send", "receive"} /\ UNCHANGED <<obj, missed>>
        /\ call'[s].op = call[s].op /\ call'[s].on = call[s].on
        /\ \A x \in Thread : x # s => call'[x] = call[x]
    BY <1>9, <1>c, <1>d DEF Wait
  <2>2. Reason(s)'
    BY <1>9, <2>1 DEF Wait, MustWait, Reason
  <2> QED BY <2>1, <2>2, <1>k, <1>q
<1>10. ASSUME NEW s \in Thread, Sleep(s) PROVE TestHolds'
  <2>1. /\ call[s].at = "test"
        /\ call'[s].op = call[s].op /\ call'[s].on = call[s].on
        /\ \A x \in Thread : x # s => call'[x] = call[x]
    BY <1>10, <1>c, <1>d DEF Sleep
  <2> QED BY <1>10, <2>1, <1>u DEF Sleep
<1>11. ASSUME NEW s \in Thread, SendData(s) PROVE TestHolds'
  <2>0. PICK t \in Thread : t = call[s].on /\ Unlocked(t)
    BY <1>11 DEF SendData, Awoken, CallsOK
  <2>1. CASE obj[t].registered
    <3>1. /\ obj' = [obj EXCEPT ![t].sender = s, ![t].data = <<s, Len(sent[t])>>]
          /\ call' = Ends(s, Filled(t))
          /\ UNCHANGED missed
      BY <1>11, <2>0, <2>1 DEF SendData
    <3>2. /\ \A u \in Thread : obj'[u].registered = obj[u].registered
          /\ \A u \in Thread : u # t => obj'[u] = obj[u]
          /\ obj'[t].sender = s /\ s # NoOne
      BY <3>1, <1>o, ThreadsAssumption DEF Object, NoOne
    <3>3. call'[s] = Idle /\ \A x \in Thread : x # s =>
            /\ call'[x].op = call[x].op /\ call'[x].on = call[x].on
            /\ call'[x].at = IF call[x].at = "asleep" /\ x \in Filled(t) THEN "woken" ELSE call[x].at
      BY <3>1, EndsFacts
    <3>4. ASSUME NEW x \in Thread, call'[x].at \in {"test", "asleep"}, call'[x].op \in {"send", "receive"}
          PROVE  Reason(x)'
      <4>1. x # s /\ call[x].at \in {"test", "asleep"} /\ call[x].op \in {"send", "receive"}
        BY <3>3, <3>4, <1>i
      <4>2. call[x].op = "send" \/ call[x].on # t
        <5>1. CASE call[x].at = "test"
          BY <5>1, <2>0 DEF Unlocked
        <5>2. CASE call[x].at = "asleep" /\ call[x].op = "receive"
          BY <5>2, <3>3, <3>4, <4>1 DEF Filled
        <5> QED BY <4>1, <5>1, <5>2
      <4>3. call[x].on \in Thread /\ call'[x].op = call[x].op /\ call'[x].on = call[x].on
        BY <4>1, <3>3, <1>n
      <4> QED BY <4>1, <4>2, <4>3, <3>1, <3>2, <1>k
    <3> QED BY <3>4, <1>q
  <2>2. CASE ~obj[t].registered
    <3>1. UNCHANGED <<obj, missed>> /\ call' = [call EXCEPT ![s] = Idle]
      BY <1>11, <2>0, <2>2 DEF SendData
    <3>2. call'[s] = Idle /\ \A x \in Thread : x # s => call'[x] = call[x]
      BY <3>1, <1>d
    <3> QED BY <3>1, <3>2, <1>i, <1>u
  <2> QED BY <2>1, <2>2
<1>12. ASSUME NEW s \in Thread, Leave(s) PROVE TestHolds'
  <2>1. /\ \A u \in Thread : obj'[u].sender = obj[u].sender
        /\ \A u \in Thread : u # s => obj'[u].registered = obj[u].registered
    BY <1>12, <1>o DEF Leave, Object
  <2>2. \A x \in Thread :
          /\ call'[x].op = call[x].op /\ call'[x].on = call[x].on
          /\ call'[x].at = IF call[x].at = "asleep" /\ call[x].on = s THEN "woken" ELSE call[x].at
    BY <1>12, <1>c DEF Leave
  <2>3. missed \subseteq missed' /\ (~Unlocked(s) => s \in missed')
    BY <1>12 DEF Leave
  <2>4. ASSUME NEW x \in Thread, call'[x].at \in {"test", "asleep"}, call'[x].op \in {"send", "receive"}
        PROVE  Reason(x)'
    <3>1. call[x].at \in {"test", "asleep"} /\ call[x].op \in {"send", "receive"} /\ call[x].on \in Thread
      BY <2>2, <2>4, <1>n
    <3>2. call[x].on = s => call[x].on \in missed'
      <4>1. call[x].on = s => call[x].at = "test"
        BY <2>2, <2>4, <3>1
      <4> QED BY <4>1, <2>3 DEF Unlocked
    <3> QED BY <3>1, <3>2, <2>1, <2>2, <2>3, <2>4, <1>k
  <2> QED BY <2>4, <1>q
<1> QED
  BY <1>t, <1>1, <1>2, <1>3, <1>4, <1>5, <1>6, <1>7, <1>8, <1>9, <1>10, <1>11, <1>12
  DEF ThreadsStep

\* What a Thread object holds for its thread.
Held(t) == IF obj[t].sender = NoOne THEN << >> ELSE <<obj[t].data>>

\* A sequence with an element at its end.
LEMMA PutAtEnd ==
    ASSUME NEW S, NEW q \in Seq(S), NEW x \in S
    PROVE  /\ q \o << >> = q
           /\ Append(q, x) = q \o <<x>>
  OBVIOUS

\* Every action keeps what was accepted for a thread equal to what it got and
\* what its object holds.
LEMMA DataStep ==
    ASSUME ThreadsTypeOK, CallsOK, DataConserved, ThreadsStep
    PROVE  DataConserved'
<1>t. \A t \in Target : t \in Thread
  BY ThreadsAssumption
<1>o. obj \in [Thread -> Object] /\ \A t \in Thread : obj[t] \in Object
  BY DEF ThreadsTypeOK, Object
<1>s. \A t \in Thread : sent[t] \in Seq(Data) /\ got[t] \in Seq(Data) /\ obj[t].data \in Data
  BY <1>o DEF ThreadsTypeOK, Object
<1>h. \A t \in Thread : sent[t] = got[t] \o Held(t)
  BY DEF DataConserved, Held
<1>q. ASSUME \A t \in Thread : sent'[t] = got'[t] \o Held(t)'
      PROVE  DataConserved'
  BY <1>q DEF DataConserved, Held
\* A step that leaves the data alone.
<1>u. ASSUME UNCHANGED <<sent, got>>,
             \A t \in Thread : obj'[t].sender = obj[t].sender /\ obj'[t].data = obj[t].data
      PROVE  DataConserved'
  <2>1. \A t \in Thread : Held(t)' = Held(t)
    BY <1>u DEF Held
  <2> QED BY <2>1, <1>h, <1>q, <1>u
<1>1. ASSUME NEW t \in Thread, Arm(t) PROVE DataConserved'
  BY <1>1, <1>u, <1>o DEF Arm, Object
<1>2. ASSUME NEW t \in Thread, NEW timed \in BOOLEAN, Block(t, timed) PROVE DataConserved'
  BY <1>2, <1>u, <1>o DEF Block, Object
<1>3. ASSUME NEW t \in Thread, BlockEnd(t) PROVE DataConserved'
  BY <1>3, <1>u, <1>o DEF BlockEnd, Object
<1>4. ASSUME NEW t \in Thread, BlockAgain(t) PROVE DataConserved'
  BY <1>4, <1>u, <1>o DEF BlockAgain, Object
<1>5. ASSUME NEW t \in Thread, Receive(t) PROVE DataConserved'
  BY <1>5, <1>u, <1>o DEF Receive, Object
<1>6. ASSUME NEW t \in Thread, ReceiveData(t) PROVE DataConserved'
  <2>0. call[t].on = t /\ call[t].op = "receive"
    BY <1>6 DEF ReceiveData, CallsOK
  <2>1. CASE obj[t].registered
    <3> DEFINE d == obj[t].data
    <3>1. /\ got' = [got EXCEPT ![t] = Append(@, d)] /\ UNCHANGED sent
          /\ obj' = [obj EXCEPT ![t].sender = NoOne, ![t].data = NoData]
      BY <1>6, <2>1 DEF ReceiveData
    <3>2. obj[t].sender # NoOne
      BY <1>6, <2>0, <2>1 DEF ReceiveData, MustWait
    <3>3. Held(t)' = << >> /\ \A u \in Thread : u # t => Held(u)' = Held(u)
      BY <3>1, <1>o DEF Held, Object
    <3>4. Held(t) = <<d>>
      BY <3>2 DEF Held
    <3>5. got'[t] = Append(got[t], d)
      BY <3>1 DEF ThreadsTypeOK
    <3>6. \A u \in Thread : u # t => sent'[u] = got'[u] \o Held(u)'
      BY <3>1, <3>3, <1>h DEF ThreadsTypeOK
    <3>7. sent'[t] = got'[t] \o Held(t)'
      <4>2. Append(got[t], d) \in Seq(Data) /\ Append(got[t], d) = got[t] \o <<d>>
        BY <1>s
      <4>3. Append(got[t], d) \o << >> = Append(got[t], d)
        BY <4>2, PutAtEnd, <1>s
      <4> QED BY <4>2, <4>3, <3>1, <3>3, <3>4, <3>5, <1>h
    <3> QED BY <3>6, <3>7, <1>q
  <2>2. CASE ~obj[t].registered
    BY <1>6, <2>2, <1>u DEF ReceiveData
  <2> QED BY <2>1, <2>2
<1>7. ASSUME NEW t \in Thread, NEW s \in Thread, NEW op \in {"send", "unblock"}, Find(s, op, t) PROVE DataConserved'
  BY <1>7, <1>u, <1>o DEF Find, Object
<1>8. ASSUME NEW s \in Thread, NEW status \in Status, Unblock(s, status) PROVE DataConserved'
  <2>1. \A u \in Thread : obj'[u].sender = obj[u].sender /\ obj'[u].data = obj[u].data
    BY <1>8, <1>o DEF Unblock, Object
  <2> QED BY <1>8, <2>1, <1>u DEF Unblock
<1>9. ASSUME NEW s \in Thread, Wait(s) PROVE DataConserved'
  BY <1>9, <1>u, <1>o DEF Wait, Object
<1>10. ASSUME NEW s \in Thread, Sleep(s) PROVE DataConserved'
  BY <1>10, <1>u, <1>o DEF Sleep, Object
<1>11. ASSUME NEW s \in Thread, SendData(s) PROVE DataConserved'
  <2>0. PICK t \in Thread : t = call[s].on
    BY <1>11 DEF SendData, CallsOK
  <2>1. CASE obj[t].registered
    <3> DEFINE d == <<s, Len(sent[t])>>
    <3>1. /\ sent' = [sent EXCEPT ![t] = Append(@, d)] /\ UNCHANGED got
          /\ obj' = [obj EXCEPT ![t].sender = s, ![t].data = d]
      BY <1>11, <2>0, <2>1 DEF SendData
    <3>2. obj[t].sender = NoOne
      BY <1>11, <2>0, <2>1 DEF SendData, MustWait
    <3>0. d \in Data /\ s # NoOne
      BY <1>s, ThreadsAssumption DEF Data, NoOne
    <3> HIDE DEF d
    <3>3. Held(t)' = <<d>> /\ \A u \in Thread : u # t => Held(u)' = Held(u)
      BY <3>0, <3>1, <1>o DEF Held, Object
    <3>4. Held(t) = << >>
      BY <3>2 DEF Held
    <3>6. \A u \in Thread : u # t => sent'[u] = got'[u] \o Held(u)'
      BY <3>1, <3>3, <1>h DEF ThreadsTypeOK
    <3>7. sent'[t] = got'[t] \o Held(t)'
      <4>1. sent'[t] = Append(sent[t], d)
        BY <3>1 DEF ThreadsTypeOK
      <4>2. sent[t] = got[t]
        BY <3>4, <1>h, <1>s, PutAtEnd, <3>0
      <4>3. Append(got[t], d) = got[t] \o <<d>>
        BY <1>s, <3>0, PutAtEnd
      <4> QED BY <4>1, <4>2, <4>3, <3>1, <3>3
    <3> QED BY <3>6, <3>7, <1>q
  <2>2. CASE ~obj[t].registered
    BY <1>11, <2>0, <2>2, <1>u DEF SendData
  <2> QED BY <2>1, <2>2
<1>12. ASSUME NEW s \in Thread, Leave(s) PROVE DataConserved'
  BY <1>12, <1>u, <1>o DEF Leave, Object
<1> QED
  BY <1>t, <1>1, <1>2, <1>3, <1>4, <1>5, <1>6, <1>7, <1>8, <1>9, <1>10, <1>11, <1>12
  DEF ThreadsStep

LEMMA ThreadsNextInductive ==
    ASSUME ThreadsInductive, [ThreadsStep]_threadVars
    PROVE  ThreadsInductive'
<1>1. CASE ThreadsStep
  BY <1>1, ThreadsControl, ArmedStep, TestStep, DataStep DEF ThreadsInductive
<1>2. CASE UNCHANGED threadVars
  <2>1. ThreadsTypeOK' /\ CallsOK'
    BY <1>2 DEF ThreadsInductive, threadVars, ThreadsTypeOK, CallsOK
  <2>2. BlockedArmed' /\ TestHolds' /\ DataConserved'
    BY <1>2 DEF ThreadsInductive, threadVars, BlockedArmed, TestHolds, DataConserved
  <2> QED BY <2>1, <2>2 DEF ThreadsInductive
<1> QED BY <1>1, <1>2

\* A call that sleeps has the reason it found, and only three kinds of call sleep.
LEMMA ReasonsSuffice == ThreadsInductive => SleepersHaveReason
<1> SUFFICES ASSUME ThreadsInductive, NEW s \in Thread, call[s].at = "asleep"
             PROVE  LET c == call[s]
                        o == obj[c.on]
                    IN  CASE c.op = "block" -> wait[s] = Armed
                          [] c.op = "send" -> o.sender # NoOne /\ (o.registered \/ c.on \in missed)
                          [] c.op = "receive" -> o.sender = NoOne /\ (o.registered \/ s \in missed)
  BY DEF SleepersHaveReason
<1>1. call[s].op \in Op /\ call[s].op \notin {"idle", "unblock"}
  BY DEF ThreadsInductive, ThreadsTypeOK, CallsOK, Idle
<1>2. CASE call[s].op = "block"
  BY <1>2 DEF ThreadsInductive, BlockedArmed
<1>3. CASE call[s].op = "send"
  BY <1>3 DEF ThreadsInductive, TestHolds
<1>4. CASE call[s].op = "receive"
  <2>1. call[s].on = s
    BY <1>4 DEF ThreadsInductive, CallsOK
  <2> QED BY <1>4, <2>1 DEF ThreadsInductive, TestHolds
<1> QED BY <1>1, <1>2, <1>3, <1>4 DEF Op

\* What send_data accepts for a thread is received once and in order, or is still
\* in the thread's object, whoever sends, sleeps, is woken or leaves
\* (Thread::SendData, Thread::ReceiveData).
THEOREM ThreadsConserveData == ThreadsSpec => []DataConserved
<1>1. ThreadsInit => ThreadsInductive
  BY ThreadsInitInductive
<1>2. ThreadsInductive /\ [ThreadsStep]_threadVars => ThreadsInductive'
  BY ThreadsNextInductive
<1>3. ThreadsInductive => DataConserved
  BY DEF ThreadsInductive
<1> QED BY <1>1, <1>2, <1>3, PTL DEF ThreadsSpec

\* Nobody sleeps in send_data, receive_data or block_thread after what it waits
\* for has come, but for the threads that leave in the window between the test
\* and the sleep of another's call (Thread::_lock, System::UnregisterThread).
THEOREM ThreadsSleepWithReason == ThreadsSpec => []SleepersHaveReason
<1>1. ThreadsInit => ThreadsInductive
  BY ThreadsInitInductive
<1>2. ThreadsInductive /\ [ThreadsStep]_threadVars => ThreadsInductive'
  BY ThreadsNextInductive
<1>3. ThreadsInductive => SleepersHaveReason
  BY ReasonsSuffice
<1> QED BY <1>1, <1>2, <1>3, PTL DEF ThreadsSpec

-----------------------------------------------------------------------------
(* Signals: what a thread was told about signals and its sleeps is right.   *)

\* The action that the host has been given for a signal.
InForce(s) ==
    IF changing # NoCall /\ changing.signal = s THEN changing.action ELSE sHaikuSignalHandlers[s]

\* The table is what the guest set last, and the host's actions follow it, but
\* for the one that is being set.
SigTablesOK ==
    /\ sHaikuSignalHandlers \in [GuestSignal -> SigActions \cup {NoAction}]
    /\ lastSet = sHaikuSignalHandlers
    /\ changing # NoCall => changing.signal \in GuestSignal /\ changing.action \in SigActions
    /\ DOMAIN hostActions = {SignalBToLinux(s) : s \in GuestSignal}
    /\ \A s \in GuestSignal : hostActions[SignalBToLinux(s)] = SigactionBToLinux(InForce(s))

\* What is pending has a number of a signal, and a child was killed by a known one.
SigPendingOK ==
    /\ DOMAIN pending = SigThread
    /\ \A t \in SigThread : \A info \in pending[t] :
         /\ info.signo \in {SignalBToLinux(s) : s \in GuestSignal}
         /\ info.code = "CLD_KILLED" => \E s \in Supported : info.status = Linux[s]

SleepingCall ==
    [of : {"relative", "absolute", "restartable"}, asked : Nat, at : {"counted", "asleep", "woken"},
     left : Nat, told : Nat, status : {"ok", "EINTR"}, ran : BOOLEAN, slept : Nat, heard : BOOLEAN, hit : BOOLEAN]

\* Time that was slept and time that is left make what was asked for, unless the
\* call was made again with all of it; the sleep that a handler hit is over.
SleeperOK(c) ==
    /\ c \in SleepingCall
    /\ c.slept + c.left >= c.asked
    /\ c.of # "restartable" => c.slept + c.left = c.asked
    /\ c.ran => c.heard
    /\ c.hit => c.at = "woken" /\ c.status = "EINTR" /\ c.ran
    /\ c.at = "woken" /\ c.status = "ok" => c.left = 0
    /\ c.at = "woken" /\ c.status = "EINTR" /\ c.of = "relative" => c.told = c.left

SigSleepersOK ==
    /\ DOMAIN sleeper = SigThread
    /\ \A t \in SigThread : sleeper[t] # NoCall => SleeperOK(sleeper[t])

SignalsInductive ==
    /\ SigTablesOK /\ SigPendingOK /\ SigSleepersOK
    /\ DOMAIN result = SigThread /\ SignalsHandled

\* Signals keep different numbers on the host.
LEMMA NumbersApart ==
    /\ \A s \in Supported : SignalBToLinux(s) = Linux[s] /\ Linux[s] \in Nat /\ Linux[s] > 0
    /\ \A s, r \in GuestSignal : SignalBToLinux(s) = SignalBToLinux(r) => s = r
<1>1. ASSUME NEW s \in Supported
      PROVE  SignalBToLinux(s) = Linux[s] /\ Linux[s] \in Nat /\ Linux[s] > 0 /\ Linux[s] < FirstRealtime
  BY SignalsAssumption DEF SignalBToLinux
<1> DEFINE first == CHOOSE f \in Realtime : \A r \in Realtime : f <= r
<1>2. ASSUME NEW s \in Realtime, s \notin Supported
      PROVE  /\ SignalBToLinux(s) = FirstRealtime + s - first
             /\ first \in Nat /\ s \in Nat /\ first <= s /\ FirstRealtime \in Nat
  <2>1. \E f \in Realtime : \A r \in Realtime : f <= r
    BY SignalsAssumption
  <2>2. first \in Realtime /\ \A r \in Realtime : first <= r
    BY <2>1
  <2> HIDE DEF first
  <2>3. SignalBToLinux(s) = FirstRealtime + s - first
    BY <1>2 DEF SignalBToLinux, first
  <2> QED BY <2>2, <2>3, SignalsAssumption
<1> HIDE DEF first
<1>3. ASSUME NEW s \in GuestSignal, NEW r \in GuestSignal, SignalBToLinux(s) = SignalBToLinux(r)
      PROVE  s = r
  <2>1. CASE s \in Supported /\ r \in Supported
    BY <1>1, <1>3, <2>1, SignalsAssumption
  <2>2. CASE s \in Supported /\ r \notin Supported
    BY <1>1, <1>2, <1>3, <2>2 DEF GuestSignal
  <2>3. CASE s \notin Supported /\ r \in Supported
    BY <1>1, <1>2, <1>3, <2>3 DEF GuestSignal
  <2>4. CASE s \notin Supported /\ r \notin Supported
    BY <1>2, <1>3, <2>4 DEF GuestSignal
  <2> QED BY <2>1, <2>2, <2>3, <2>4
<1> QED BY <1>1, <1>3

\* A number of the host that stands for a signal leads back to it, and any
\* number to a signal that is known.
LEMMA NumbersBack ==
    /\ \A s \in Supported : SignalLinuxToB(Linux[s]) = s
    /\ \A l : SignalLinuxToB(l) \in Supported
<1>1. ASSUME NEW s \in Supported PROVE SignalLinuxToB(Linux[s]) = s
  <2> DEFINE back == CHOOSE r \in Supported : Linux[r] = Linux[s]
  <2>1. back \in Supported /\ Linux[back] = Linux[s]
    OBVIOUS
  <2>2. SignalLinuxToB(Linux[s]) = back
    BY DEF SignalLinuxToB
  <2> HIDE DEF back
  <2> QED BY <2>1, <2>2, SignalsAssumption
<1>2. ASSUME NEW l PROVE SignalLinuxToB(l) \in Supported
  <2>1. CASE \E s \in Supported : Linux[s] = l
    BY <1>1, <2>1
  <2>2. CASE ~ \E s \in Supported : Linux[s] = l
    BY <2>2, SignalsAssumption DEF SignalLinuxToB
  <2> QED BY <2>1, <2>2
<1> QED BY <1>1, <1>2

\* A mask comes back without the signals that have no number of their own.
LEMMA MasksBack ==
    ASSUME NEW mask PROVE SigSetLinuxToB(SigSetBToLinux(mask)) = mask \cap Supported
<1> DEFINE linux == SigSetBToLinux(mask)
<1>1. \A l : l \in linux <=> \E s \in mask \cap Supported : Linux[s] = l
  BY NumbersApart DEF SigSetBToLinux
<1>2. \A s : s \in SigSetLinuxToB(linux) <=>
              \E l \in linux : (\E r \in Supported : Linux[r] = l) /\ s = SignalLinuxToB(l)
  BY DEF SigSetLinuxToB
<1> HIDE DEF linux
<1>3. ASSUME NEW s \in SigSetLinuxToB(linux) PROVE s \in mask \cap Supported
  BY <1>1, <1>2, NumbersBack
<1>4. ASSUME NEW s \in mask \cap Supported PROVE s \in SigSetLinuxToB(linux)
  BY <1>1, <1>2, NumbersBack
<1> QED BY <1>3, <1>4 DEF linux

\* An action is a record of its three parts.
LEMMA ActionParts ==
    ASSUME NEW a \in SigActions \cup {NoAction}
    PROVE  a.siginfo \in BOOLEAN /\ a = [handler |-> a.handler, siginfo |-> a.siginfo, mask |-> a.mask]
<1>1. CASE a \in SigActions
  BY <1>1, SignalsAssumption
<1>2. CASE a = NoAction
  <2>1. a.handler = Default /\ a.siginfo = FALSE /\ a.mask = {}
    BY <1>2 DEF NoAction
  <2> QED BY <1>2, <2>1 DEF NoAction
<1> QED BY <1>1, <1>2

\* The host gets the trampoline for the form that was asked for.
LEMMA HostActions ==
    ASSUME NEW a
    PROVE  LET linux == SigactionBToLinux(a)
           IN /\ linux.siginfo = a.siginfo /\ linux.mask = SigSetBToLinux(a.mask)
              /\ a.handler = Default => linux.handler = Default
              /\ a.handler # Default /\ a.siginfo => linux.handler = "SigActionTrampoline"
              /\ a.handler # Default /\ ~a.siginfo => linux.handler = "SigHandlerTrampoline"
BY DEF SigactionBToLinux

\* What the host keeps of an action leads back to it, with the handler that the
\* table has.
LEMMA ActionsBack ==
    ASSUME SigTablesOK, changing = NoCall, NEW s \in GuestSignal, NEW a
    PROVE  OldAction(s, a) = [lastSet[s] EXCEPT !.mask = @ \cap Supported]
<1> DEFINE set == lastSet[s]
           linux == hostActions[SignalBToLinux(s)]
           old == SigactionLinuxToB(linux)
<1>1. /\ set \in SigActions \cup {NoAction} /\ set = sHaikuSignalHandlers[s]
      /\ linux = SigactionBToLinux(set)
  BY DEF SigTablesOK, InForce
<1>2. set.siginfo \in BOOLEAN /\ set = [handler |-> set.handler, siginfo |-> set.siginfo, mask |-> set.mask]
  BY <1>1, ActionParts
<1>3. /\ linux.siginfo = set.siginfo /\ linux.mask = SigSetBToLinux(set.mask)
      /\ set.handler = Default => linux.handler = Default
      /\ set.handler # Default /\ set.siginfo => linux.handler = "SigActionTrampoline"
      /\ set.handler # Default /\ ~set.siginfo => linux.handler = "SigHandlerTrampoline"
  BY <1>1, HostActions
<1>4. OldAction(s, a) =
        IF \/ old.siginfo /\ old.handler = "SigActionTrampoline"
           \/ ~old.siginfo /\ old.handler = "SigHandlerTrampoline"
        THEN [old EXCEPT !.handler = set.handler] ELSE old
  BY <1>1 DEF OldAction
<1> HIDE DEF set, linux
<1>5. old = [handler |-> linux.handler, siginfo |-> set.siginfo, mask |-> set.mask \cap Supported]
  BY <1>3, MasksBack DEF SigactionLinuxToB
<1>6. PICK h, i, k : set = [handler |-> h, siginfo |-> i, mask |-> k]
  BY <1>2
<1>7. set.handler = h /\ set.siginfo = i /\ set.mask = k
  BY <1>6
<1>8. [set EXCEPT !.mask = @ \cap Supported] = [handler |-> h, siginfo |-> i, mask |-> k \cap Supported]
  <2> DEFINE known == k \cap Supported
  <2>1. [set EXCEPT !.mask = @ \cap Supported] = [set EXCEPT !.mask = known]
    BY <1>7
  <2> HIDE DEF known
  <2>2. [set EXCEPT !.mask = known] = [handler |-> h, siginfo |-> i, mask |-> known]
    BY <1>6
  <2> QED BY <2>1, <2>2 DEF known
<1> HIDE DEF old
<1>9. CASE h = Default
  BY <1>3, <1>4, <1>5, <1>7, <1>8, <1>9, SignalsAssumption DEF set
<1>10. CASE h # Default /\ i
  BY <1>3, <1>4, <1>5, <1>7, <1>8, <1>10 DEF set
<1>11. CASE h # Default /\ ~i
  BY <1>3, <1>4, <1>5, <1>7, <1>8, <1>11 DEF set
<1> QED BY <1>9, <1>10, <1>11

\* What SignalsHandled asks of the result of one call or handler.
ResultOK(r) ==
    /\ r.of = "sigaction" => r.got = [r.set EXCEPT !.mask = @ \cap Supported]
    /\ r.of = "sigwait" => r.got.signo \in r.set /\ Linux[r.got.signo] = r.raised.signo
    /\ r.of = "handler" /\ r.settled /\ r.raised.signo = Linux[r.signal] =>
         r.got = r.set.handler /\ r.siginfo = r.set.siginfo
    /\ r.of \in {"handler", "sigwait", "wait"} /\ r.raised.signo = Linux[SigChld] /\ r.raised.code = "CLD_KILLED" =>
         (IF r.of = "handler" THEN r.info ELSE r.got).status \in {s \in Supported : Linux[s] = r.raised.status}
    /\ r.of \in {"relative", "absolute", "restartable"} =>
         /\ r.status = "EINTR" => r.heard
         /\ r.status = "ok" => r.slept >= r.asked /\ ~r.hit
         /\ r.status = "ok" /\ r.of # "restartable" => r.slept = r.asked
         /\ r.of = "relative" /\ r.status = "EINTR" => r.told = r.asked - r.slept

ResultsOK == DOMAIN result = SigThread /\ SignalsHandled

LEMMA ResultKept ==
    ASSUME ResultsOK, NEW t \in SigThread, NEW r, ResultOK(r), result' = [result EXCEPT ![t] = r]
    PROVE  ResultsOK'
<1>1. \A u \in SigThread : ResultOK(result[u])
  BY DEF ResultsOK, SignalsHandled, ResultOK
<1>2. DOMAIN result' = SigThread /\ \A u \in SigThread : result'[u] = IF u = t THEN r ELSE result[u]
  BY DEF ResultsOK
<1>3. \A u \in SigThread : ResultOK(result'[u])
  BY <1>1, <1>2
<1> QED BY <1>2, <1>3 DEF ResultsOK, SignalsHandled, ResultOK

\* What is known of a child that was killed is converted to the guest's number.
LEMMA ChildConverted ==
    ASSUME NEW info, info.signo = Linux[SigChld], info.code = "CLD_KILLED",
           \E s \in Supported : info.status = Linux[s]
    PROVE  SiginfoLinuxToB(info).status \in {s \in Supported : Linux[s] = info.status}
<1>1. PICK s \in Supported : info.status = Linux[s]
  OBVIOUS
<1>2. info.status > 0 /\ SignalLinuxToB(info.status) = s
  BY <1>1, NumbersApart, NumbersBack
<1>3. SiginfoLinuxToB(info).status = s
  BY <1>2 DEF SiginfoLinuxToB
<1> QED BY <1>1, <1>3

\* sigaction: the host first.
LEMMA SigactionHostKept ==
    ASSUME SignalsInductive, NEW t \in SigThread, NEW s \in GuestSignal, NEW action \in SigActions,
           SigactionHost(t, s, action)
    PROVE  SignalsInductive'
<1>0. SigTablesOK /\ SigPendingOK /\ SigSleepersOK /\ ResultsOK
  BY DEF SignalsInductive, ResultsOK
<1>1. /\ changing = NoCall /\ changing' = [thread |-> t, signal |-> s, action |-> action]
      /\ hostActions' = [hostActions EXCEPT ![SignalBToLinux(s)] = SigactionBToLinux(action)]
      /\ UNCHANGED <<sHaikuSignalHandlers, blocked, pending, sleeper, lastSet>>
  BY DEF SigactionHost
<1>2. changing' # NoCall /\ changing'.signal = s /\ changing'.action = action
  BY <1>1, SignalsAssumption
<1>3. SigTablesOK'
  <2>1. SignalBToLinux(s) \in DOMAIN hostActions
    BY <1>0 DEF SigTablesOK
  <2>2. ASSUME NEW r \in GuestSignal
        PROVE  hostActions'[SignalBToLinux(r)] = SigactionBToLinux(InForce(r))'
    <3>1. CASE r = s
      <4>1. InForce(r)' = action
        BY <1>2, <3>1 DEF InForce
      <4>2. hostActions'[SignalBToLinux(r)] = SigactionBToLinux(action)
        BY <1>1, <2>1, <3>1
      <4> QED BY <4>1, <4>2 DEF SigactionBToLinux, SigSetBToLinux, SignalBToLinux
    <3>2. CASE r # s
      <4>1. InForce(r)' = InForce(r)
        BY <1>1, <1>2, <3>2 DEF InForce
      <4>2. hostActions'[SignalBToLinux(r)] = hostActions[SignalBToLinux(r)]
        <5>1. SignalBToLinux(r) # SignalBToLinux(s) /\ SignalBToLinux(r) \in DOMAIN hostActions
          BY <1>0, <3>2, NumbersApart DEF SigTablesOK
        <5> QED BY <1>1, <5>1
      <4>3. hostActions[SignalBToLinux(r)] = SigactionBToLinux(InForce(r))
        BY <1>0 DEF SigTablesOK
      <4> QED BY <4>1, <4>2, <4>3
    <3> QED BY <3>1, <3>2
  <2>3. DOMAIN hostActions' = {SignalBToLinux(r) : r \in GuestSignal}
    BY <1>0, <1>1 DEF SigTablesOK
  <2> QED BY <1>0, <1>1, <1>2, <2>2, <2>3 DEF SigTablesOK
<1>4. ResultsOK'
  <2> DEFINE r == [of |-> "sigaction", signal |-> s, got |-> OldAction(s, action), set |-> lastSet[s]]
  <2>1. ResultOK(r)
    BY <1>0, <1>1, ActionsBack DEF ResultOK
  <2>2. result' = [result EXCEPT ![t] = r]
    BY DEF SigactionHost
  <2> HIDE DEF r
  <2> QED BY <1>0, <2>1, <2>2, ResultKept
<1>5. SigPendingOK' /\ SigSleepersOK'
  BY <1>0, <1>1 DEF SigPendingOK, SigSleepersOK
<1> QED BY <1>3, <1>4, <1>5 DEF SignalsInductive, ResultsOK

\* sigaction: the table second.
LEMMA SigactionStoreKept ==
    ASSUME SignalsInductive, SigactionStore PROVE SignalsInductive'
<1>0. SigTablesOK /\ SigPendingOK /\ SigSleepersOK /\ ResultsOK
  BY DEF SignalsInductive, ResultsOK
<1>1. /\ changing # NoCall /\ changing' = NoCall
      /\ sHaikuSignalHandlers' = [sHaikuSignalHandlers EXCEPT ![changing.signal] = changing.action]
      /\ lastSet' = [lastSet EXCEPT ![changing.signal] = changing.action]
      /\ UNCHANGED <<hostActions, blocked, pending, sleeper, result>>
  BY DEF SigactionStore
<1>2. changing.signal \in GuestSignal /\ changing.action \in SigActions
  BY <1>0, <1>1 DEF SigTablesOK
<1>3. ASSUME NEW s \in GuestSignal PROVE InForce(s)' = InForce(s)
  BY <1>0, <1>1, <1>2 DEF SigTablesOK, InForce
<1>4. SigTablesOK'
  <2>1. /\ sHaikuSignalHandlers' \in [GuestSignal -> SigActions \cup {NoAction}]
        /\ lastSet' = sHaikuSignalHandlers'
    BY <1>0, <1>1, <1>2 DEF SigTablesOK
  <2>2. ASSUME NEW s \in GuestSignal
        PROVE  hostActions'[SignalBToLinux(s)] = SigactionBToLinux(InForce(s))'
    <3>1. hostActions[SignalBToLinux(s)] = SigactionBToLinux(InForce(s))
      BY <1>0 DEF SigTablesOK
    <3> QED BY <1>1, <1>3, <3>1
  <2> QED BY <1>0, <1>1, <2>1, <2>2 DEF SigTablesOK
<1>5. SigPendingOK' /\ SigSleepersOK' /\ ResultsOK'
  BY <1>0, <1>1 DEF SigPendingOK, SigSleepersOK, ResultsOK, SignalsHandled
<1> QED BY <1>4, <1>5 DEF SignalsInductive, ResultsOK

\* Steps that only give a result.
LEMMA ResultGiven ==
    ASSUME SignalsInductive, NEW t \in SigThread, NEW r, ResultOK(r), result' = [result EXCEPT ![t] = r],
           UNCHANGED <<sHaikuSignalHandlers, hostActions, changing, lastSet>>, SigPendingOK', SigSleepersOK'
    PROVE  SignalsInductive'
<1>1. SigTablesOK'
  BY DEF SignalsInductive, SigTablesOK, InForce
<1>2. ResultsOK'
  BY ResultKept DEF SignalsInductive, ResultsOK
<1> QED BY <1>1, <1>2 DEF SignalsInductive, ResultsOK

LEMMA SigactionGetKept ==
    ASSUME SignalsInductive, NEW t \in SigThread, NEW s \in GuestSignal, SigactionGet(t, s)
    PROVE  SignalsInductive'
<1> DEFINE r == [of |-> "sigaction", signal |-> s, got |-> OldAction(s, lastSet[s]), set |-> lastSet[s]]
<1>1. ResultOK(r)
  BY ActionsBack DEF SignalsInductive, SigactionGet, ResultOK
<1>2. /\ result' = [result EXCEPT ![t] = r]
      /\ UNCHANGED <<sHaikuSignalHandlers, hostActions, changing, pending, sleeper, lastSet>>
  BY DEF SigactionGet
<1> HIDE DEF r
<1>3. SigPendingOK' /\ SigSleepersOK'
  BY <1>2 DEF SignalsInductive, SigPendingOK, SigSleepersOK
<1> QED BY <1>1, <1>2, <1>3, ResultGiven

\* Steps of the host and of masks that leave the tables, sleeps and results alone.
LEMMA OnlyPending ==
    ASSUME SignalsInductive, SigPendingOK',
           UNCHANGED <<sHaikuSignalHandlers, hostActions, changing, sleeper, lastSet, result>>
    PROVE  SignalsInductive'
BY DEF SignalsInductive, SigTablesOK, InForce, SigSleepersOK, SignalsHandled

LEMMA SetSignalMaskKept ==
    ASSUME SignalsInductive, NEW t \in SigThread, NEW how, NEW set, SetSignalMask(t, how, set)
    PROVE  SignalsInductive'
<1>1. UNCHANGED <<sHaikuSignalHandlers, hostActions, changing, pending, sleeper, lastSet, result>>
  BY DEF SetSignalMask
<1>2. SigPendingOK'
  BY <1>1 DEF SignalsInductive, SigPendingOK
<1> QED BY <1>1, <1>2, OnlyPending

LEMMA SendSignalKept ==
    ASSUME SignalsInductive, NEW t \in SigThread, NEW s \in GuestSignal, SendSignal(t, s)
    PROVE  SignalsInductive'
<1> DEFINE info == [signo |-> SignalBToLinux(s), code |-> "SI_USER", status |-> 0]
<1>1. /\ pending' = [pending EXCEPT ![t] = @ \cup {info}]
      /\ UNCHANGED <<sHaikuSignalHandlers, hostActions, changing, sleeper, lastSet, result>>
  BY DEF SendSignal
<1>2. info.signo \in {SignalBToLinux(r) : r \in GuestSignal} /\ info.code # "CLD_KILLED"
  OBVIOUS
<1> HIDE DEF info
<1>3. SigPendingOK'
  BY <1>1, <1>2 DEF SignalsInductive, SigPendingOK
<1> QED BY <1>1, <1>3, OnlyPending

LEMMA ChildDiesKept ==
    ASSUME SignalsInductive, NEW t \in SigThread, NEW death \in Death, ChildDies(t, death)
    PROVE  SignalsInductive'
<1> DEFINE info == [signo |-> Linux[SigChld], code |-> death.code, status |-> death.status]
<1>1. /\ pending' = [pending EXCEPT ![t] = @ \cup {info}]
      /\ UNCHANGED <<sHaikuSignalHandlers, hostActions, changing, sleeper, lastSet, result>>
  BY DEF ChildDies
<1>2. /\ info.signo \in {SignalBToLinux(r) : r \in GuestSignal}
      /\ info.code = "CLD_KILLED" => \E s \in Supported : info.status = Linux[s]
  <2>1. SigChld \in GuestSignal /\ SignalBToLinux(SigChld) = Linux[SigChld]
    BY SignalsAssumption, NumbersApart DEF GuestSignal
  <2>2. death.code = "CLD_KILLED" => \E s \in Supported : death.status = Linux[s]
    BY SignalsAssumption
  <2> QED BY <2>1, <2>2
<1> HIDE DEF info
<1>3. SigPendingOK'
  BY <1>1, <1>2 DEF SignalsInductive, SigPendingOK
<1> QED BY <1>1, <1>3, OnlyPending

LEMMA WaitForChildKept ==
    ASSUME SignalsInductive, NEW t \in SigThread, NEW death \in Death, WaitForChild(t, death)
    PROVE  SignalsInductive'
<1> DEFINE info == [signo |-> Linux[SigChld], code |-> death.code, status |-> death.status]
           r == [of |-> "wait", got |-> SiginfoLinuxToB(info), raised |-> info]
<1>1. /\ result' = [result EXCEPT ![t] = r]
      /\ UNCHANGED <<sHaikuSignalHandlers, hostActions, changing, pending, sleeper, lastSet>>
  BY DEF WaitForChild
<1>2. info.code = "CLD_KILLED" => \E s \in Supported : info.status = Linux[s]
  BY SignalsAssumption
<1>3. info.signo = Linux[SigChld]
  OBVIOUS
<1> HIDE DEF info
<1>4. r.of = "wait" /\ r.got = SiginfoLinuxToB(info) /\ r.raised = info
  OBVIOUS
<1> HIDE DEF r
<1>5. ResultOK(r)
  BY <1>2, <1>3, <1>4, ChildConverted DEF ResultOK
<1>6. SigPendingOK' /\ SigSleepersOK'
  BY <1>1 DEF SignalsInductive, SigPendingOK, SigSleepersOK
<1> QED BY <1>1, <1>5, <1>6, ResultGiven

\* What is taken from the pending ones leaves the others.
LEMMA PendingTaken ==
    ASSUME SigPendingOK, NEW t \in SigThread, NEW info \in pending[t],
           pending' = [pending EXCEPT ![t] = @ \ {info}]
    PROVE  SigPendingOK'
BY DEF SigPendingOK

LEMMA SigwaitKept ==
    ASSUME SignalsInductive, NEW t \in SigThread, NEW set, Sigwait(t, set)
    PROVE  SignalsInductive'
<1>0. SigPendingOK /\ SigSleepersOK
  BY DEF SignalsInductive
<1>1. PICK info \in pending[t] :
        /\ info.signo \in SigSetBToLinux(set)
        /\ pending' = [pending EXCEPT ![t] = @ \ {info}]
        /\ result' = [result EXCEPT ![t] = [of |-> "sigwait", got |-> SiginfoLinuxToB(info), raised |-> info, set |-> set]]
        /\ UNCHANGED <<sHaikuSignalHandlers, hostActions, changing, sleeper, lastSet>>
  BY DEF Sigwait
<1> DEFINE r == [of |-> "sigwait", got |-> SiginfoLinuxToB(info), raised |-> info, set |-> set]
<1>2. PICK s \in set \cap Supported : info.signo = Linux[s]
  BY <1>1, NumbersApart DEF SigSetBToLinux
<1>3. SiginfoLinuxToB(info).signo = s
  BY <1>2, NumbersBack DEF SiginfoLinuxToB
<1>4. info.code = "CLD_KILLED" => \E p \in Supported : info.status = Linux[p]
  BY <1>0 DEF SigPendingOK
<1>5. r.of = "sigwait" /\ r.got = SiginfoLinuxToB(info) /\ r.raised = info /\ r.set = set
  OBVIOUS
<1>6. result' = [result EXCEPT ![t] = r]
  BY <1>1
<1> HIDE DEF r
<1>7. ResultOK(r)
  BY <1>2, <1>3, <1>4, <1>5, ChildConverted DEF ResultOK
<1>8. SigPendingOK' /\ SigSleepersOK'
  BY <1>0, <1>1, PendingTaken DEF SigSleepersOK
<1> QED BY <1>1, <1>6, <1>7, <1>8, ResultGiven

\* A handler that runs is the one that was set last, in the form asked for.
LEMMA HandlerRight ==
    ASSUME SignalsInductive, NEW t \in SigThread, NEW info \in pending[t],
           hostActions[info.signo].handler # Default, Trampoline(t, info, hostActions[info.signo].handler)
    PROVE  ResultsOK'
<1>0. SigTablesOK /\ SigPendingOK /\ ResultsOK
  BY DEF SignalsInductive, ResultsOK
<1> DEFINE s == SignalLinuxToB(info.signo)
           linux == hostActions[info.signo]
           r == [of |-> "handler", signal |-> s, got |-> sHaikuSignalHandlers[s].handler,
                 siginfo |-> linux.handler = "SigActionTrampoline", info |-> SiginfoLinuxToB(info), raised |-> info,
                 set |-> lastSet[s], settled |-> changing = NoCall]
<1>1. result' = [result EXCEPT ![t] = r]
  BY DEF Trampoline
<1>2. s \in Supported
  BY NumbersBack
<1>3. ASSUME changing = NoCall, info.signo = Linux[s]
      PROVE  /\ sHaikuSignalHandlers[s].handler = lastSet[s].handler
             /\ (linux.handler = "SigActionTrampoline") = lastSet[s].siginfo
  <2> HIDE DEF s
  <2>1. s \in GuestSignal /\ SignalBToLinux(s) = info.signo
    BY <1>2, <1>3, NumbersApart DEF GuestSignal
  <2>2. linux = SigactionBToLinux(lastSet[s]) /\ lastSet[s] \in SigActions \cup {NoAction}
        /\ lastSet = sHaikuSignalHandlers
    BY <1>0, <1>3, <2>1 DEF SigTablesOK, InForce
  <2>3. lastSet[s].siginfo \in BOOLEAN
    BY <2>2, ActionParts
  <2>4. linux.handler # Default
    OBVIOUS
  <2> DEFINE set == lastSet[s]
  <2>5. /\ set.handler = Default => linux.handler = Default
        /\ set.handler # Default /\ set.siginfo => linux.handler = "SigActionTrampoline"
        /\ set.handler # Default /\ ~set.siginfo => linux.handler = "SigHandlerTrampoline"
    BY <2>2, HostActions
  <2> HIDE DEF set, linux
  <2>6. (linux.handler = "SigActionTrampoline") = set.siginfo
    <3>1. CASE set.siginfo = TRUE
      BY <2>4, <2>5, <3>1
    <3>2. CASE set.siginfo = FALSE
      BY <2>4, <2>5, <3>2
    <3> QED BY <2>3, <3>1, <3>2 DEF set
  <2> QED BY <2>2, <2>6 DEF set
<1>4. info.code = "CLD_KILLED" => \E p \in Supported : info.status = Linux[p]
  BY <1>0 DEF SigPendingOK
<1>5. /\ r.of = "handler" /\ r.signal = s /\ r.got = sHaikuSignalHandlers[s].handler
      /\ r.siginfo = (linux.handler = "SigActionTrampoline") /\ r.info = SiginfoLinuxToB(info)
      /\ r.raised = info /\ r.set = lastSet[s] /\ r.settled = (changing = NoCall)
  OBVIOUS
<1> HIDE DEF r, s, linux
<1>6. ResultOK(r)
  <2>1. r.of = "handler" /\ r.settled /\ r.raised.signo = Linux[r.signal] =>
           r.got = r.set.handler /\ r.siginfo = r.set.siginfo
    BY <1>3, <1>5
  <2>2. r.raised.signo = Linux[SigChld] /\ r.raised.code = "CLD_KILLED" =>
           r.info.status \in {p \in Supported : Linux[p] = r.raised.status}
    BY <1>4, <1>5, ChildConverted
  <2> QED BY <1>5, <2>1, <2>2 DEF ResultOK
<1> QED BY <1>0, <1>1, <1>6, ResultKept

\* A call that a signal wakes is right, whether a handler of the guest ran or not.
LEMMA WokenRight ==
    ASSUME NEW c, SleeperOK(c)
    PROVE  /\ c.at = "asleep" => SleeperOK(Woken(c))
           /\ SleeperOK(NotifyGuestSignal(c))
<1>1. c \in SleepingCall
  BY DEF SleeperOK
<1>2. CASE c.at = "asleep"
  <2> DEFINE told == IF c.of = "relative" THEN c.left ELSE c.told
             w == [c EXCEPT !.at = "woken", !.status = "EINTR", !.told = told]
             n == [w EXCEPT !.ran = TRUE, !.heard = TRUE, !.hit = @ \/ c.at = "asleep"]
  <2>1. told \in Nat
    BY <1>1 DEF SleepingCall
  <2>2. Woken(c) = w /\ NotifyGuestSignal(c) = n
    BY <1>2 DEF Woken, NotifyGuestSignal
  <2>3. told = c.left \/ c.of # "relative"
    OBVIOUS
  <2> HIDE DEF told
  <2>4. /\ w \in SleepingCall /\ w.of = c.of /\ w.asked = c.asked /\ w.at = "woken" /\ w.left = c.left
        /\ w.told = told /\ w.status = "EINTR" /\ w.ran = c.ran /\ w.slept = c.slept /\ w.heard = c.heard
        /\ w.hit = c.hit
    BY <1>1, <2>1 DEF SleepingCall
  <2> HIDE DEF w
  <2>5. SleeperOK(w)
    BY <1>2, <2>3, <2>4 DEF SleeperOK
  <2>6. /\ n \in SleepingCall /\ n.of = w.of /\ n.asked = w.asked /\ n.at = "woken" /\ n.left = w.left
        /\ n.told = w.told /\ n.status = "EINTR" /\ n.ran /\ n.slept = w.slept /\ n.heard
    BY <1>2, <2>4 DEF SleepingCall
  <2> HIDE DEF n
  <2>7. SleeperOK(n)
    BY <2>5, <2>4, <2>6 DEF SleeperOK
  <2> QED BY <2>2, <2>5, <2>7
<1>3. CASE c.at # "asleep"
  <2> DEFINE n == [c EXCEPT !.ran = TRUE, !.heard = TRUE, !.hit = @ \/ c.at = "asleep"]
  <2>1. NotifyGuestSignal(c) = n
    BY <1>3 DEF Woken, NotifyGuestSignal
  <2>2. /\ n \in SleepingCall /\ n.of = c.of /\ n.asked = c.asked /\ n.at = c.at /\ n.left = c.left
        /\ n.told = c.told /\ n.status = c.status /\ n.ran /\ n.slept = c.slept /\ n.heard
        /\ n.hit = c.hit
    BY <1>1, <1>3 DEF SleepingCall
  <2> HIDE DEF n
  <2>3. SleeperOK(n)
    BY <2>2 DEF SleeperOK
  <2> QED BY <1>3, <2>1, <2>3
<1> QED BY <1>2, <1>3

\* Steps that change one call.
LEMMA SleeperKept ==
    ASSUME SigSleepersOK, NEW t \in SigThread, NEW c, c # NoCall => SleeperOK(c), sleeper' = [sleeper EXCEPT ![t] = c]
    PROVE  SigSleepersOK'
BY DEF SigSleepersOK

\* A signal is delivered.
LEMMA DeliverKept ==
    ASSUME SignalsInductive, NEW t \in SigThread, NEW mask, Deliver(t, mask)
    PROVE  SignalsInductive'
<1>0. SigTablesOK /\ SigPendingOK /\ SigSleepersOK /\ ResultsOK
  BY DEF SignalsInductive, ResultsOK
<1>1. PICK info \in pending[t] :
        /\ pending' = [pending EXCEPT ![t] = @ \ {info}]
        /\ IF hostActions[info.signo].handler = Default THEN UNCHANGED <<result, sleeper>>
           ELSE /\ Trampoline(t, info, hostActions[info.signo].handler)
                /\ sleeper' = [sleeper EXCEPT ![t] = IF @ = NoCall THEN @ ELSE NotifyGuestSignal(@)]
        /\ UNCHANGED <<sHaikuSignalHandlers, hostActions, changing, blocked, lastSet>>
  BY DEF Deliver
<1>2. SigTablesOK' /\ SigPendingOK'
  <2>1. SigPendingOK'
    BY <1>0, <1>1, PendingTaken
  <2> QED BY <1>0, <1>1, <2>1 DEF SigTablesOK, InForce
<1>3. CASE hostActions[info.signo].handler = Default
  BY <1>0, <1>1, <1>2, <1>3 DEF SignalsInductive, SigSleepersOK, SignalsHandled
<1>4. CASE hostActions[info.signo].handler # Default
  <2> DEFINE c == IF sleeper[t] = NoCall THEN sleeper[t] ELSE NotifyGuestSignal(sleeper[t])
  <2>1. sleeper' = [sleeper EXCEPT ![t] = c]
    BY <1>1, <1>4
  <2>2. c # NoCall => SleeperOK(c)
    BY <1>0, WokenRight DEF SigSleepersOK
  <2> HIDE DEF c
  <2>3. SigSleepersOK'
    BY <1>0, <2>1, <2>2, SleeperKept
  <2>4. ResultsOK'
    BY <1>1, <1>4, HandlerRight
  <2> QED BY <1>2, <2>3, <2>4 DEF SignalsInductive, ResultsOK
<1> QED BY <1>3, <1>4

LEMMA SetSignalStackKept ==
    ASSUME SignalsInductive, NEW t \in SigThread, SetSignalStack(t)
    PROVE  SignalsInductive'
<1>1. PICK taken \in StackBToLinux : result' = [result EXCEPT ![t] = [of |-> "stack", taken |-> taken]]
  BY DEF SetSignalStack
<1> DEFINE r == [of |-> "stack", taken |-> taken]
<1>2. ResultOK(r)
  BY DEF ResultOK
<1>3. result' = [result EXCEPT ![t] = r]
  BY <1>1
<1> HIDE DEF r
<1>4. UNCHANGED <<sHaikuSignalHandlers, hostActions, changing, pending, sleeper, lastSet>>
  BY DEF SetSignalStack
<1>5. SigPendingOK' /\ SigSleepersOK'
  BY <1>4 DEF SignalsInductive, SigPendingOK, SigSleepersOK
<1> QED BY <1>2, <1>3, <1>4, <1>5, ResultGiven

\* Steps of a call that sleeps, which leave the tables and results alone.
LEMMA OnlySleeps ==
    ASSUME SignalsInductive, NEW t \in SigThread, NEW c, c # NoCall => SleeperOK(c),
           sleeper' = [sleeper EXCEPT ![t] = c], UNCHANGED <<callVars, result>>
    PROVE  SignalsInductive'
<1>1. SigSleepersOK'
  BY SleeperKept DEF SignalsInductive
<1>2. UNCHANGED <<sHaikuSignalHandlers, hostActions, changing, pending, lastSet, result>>
  BY DEF callVars
<1> QED BY <1>1, <1>2 DEF SignalsInductive, SigTablesOK, InForce, SigPendingOK, SignalsHandled

LEMMA SnoozeKept ==
    ASSUME SignalsInductive, NEW t \in SigThread, NEW of \in {"relative", "absolute", "restartable"},
           NEW time \in Times, Snooze(t, of, time)
    PROVE  SignalsInductive'
<1> DEFINE c == [of |-> of, asked |-> time, at |-> "counted", left |-> time, told |-> time, status |-> "ok",
                 ran |-> FALSE, slept |-> 0, heard |-> FALSE, hit |-> FALSE]
           r == [of |-> "nothing"]
<1>1. time \in Nat
  BY SignalsAssumption
<1>2. SleeperOK(c)
  BY <1>1 DEF SleeperOK, SleepingCall
<1>3. ResultOK(r)
  BY DEF ResultOK
<1>4. sleeper' = [sleeper EXCEPT ![t] = c] /\ result' = [result EXCEPT ![t] = r] /\ UNCHANGED callVars
  BY DEF Snooze
<1> HIDE DEF c, r
<1>5. SigSleepersOK'
  BY <1>2, <1>4, SleeperKept DEF SignalsInductive
<1>6. SigPendingOK'
  BY <1>4 DEF SignalsInductive, SigPendingOK, callVars
<1> QED BY <1>3, <1>4, <1>5, <1>6, ResultGiven DEF callVars

LEMMA SleepsKept ==
    ASSUME SignalsInductive, NEW t \in SigThread, Sleeps(t) \/ WakesUp(t) \/ TimePasses(t)
    PROVE  SignalsInductive'
<1> DEFINE c == sleeper[t]
<1>0. c # NoCall /\ SleeperOK(c) /\ c \in SleepingCall /\ t \in DOMAIN sleeper
  BY DEF SignalsInductive, SigSleepersOK, SleeperOK, Sleeps, WakesUp, TimePasses
<1>1. CASE Sleeps(t)
  <2> DEFINE d == [c EXCEPT !.at = "asleep"]
  <2>1. c.at = "counted" /\ sleeper' = [sleeper EXCEPT ![t] = d] /\ UNCHANGED <<callVars, result>>
    BY <1>0, <1>1 DEF Sleeps
  <2> HIDE DEF c
  <2>2. SleeperOK(d)
    BY <1>0, <2>1 DEF SleeperOK, SleepingCall
  <2> HIDE DEF d
  <2> QED BY <2>1, <2>2, OnlySleeps
<1>2. CASE WakesUp(t)
  <2> DEFINE d == [c EXCEPT !.at = "woken", !.status = "ok"]
  <2>1. c.at = "asleep" /\ c.left = 0 /\ sleeper' = [sleeper EXCEPT ![t] = d] /\ UNCHANGED <<callVars, result>>
    BY <1>0, <1>2 DEF WakesUp
  <2> HIDE DEF c
  <2>2. SleeperOK(d)
    BY <1>0, <2>1 DEF SleeperOK, SleepingCall
  <2> HIDE DEF d
  <2> QED BY <2>1, <2>2, OnlySleeps
<1>3. CASE TimePasses(t)
  <2> DEFINE d == [c EXCEPT !.left = @ - 1, !.slept = @ + 1]
  <2>1. /\ c.left > 0 /\ (c.at = "asleep" \/ c.of = "absolute")
        /\ sleeper' = [sleeper EXCEPT ![t] = d] /\ UNCHANGED <<callVars, result>>
    BY <1>0, <1>3 DEF TimePasses
  <2> HIDE DEF c
  <2>2. c.left \in Nat /\ c.slept \in Nat /\ c.asked \in Nat
    BY <1>0 DEF SleepingCall
  <2>3. PICK left, slept \in Nat : left = c.left - 1 /\ slept = c.slept + 1
    BY <2>1, <2>2
  <2>4. d = [c EXCEPT !.left = left, !.slept = slept]
    BY <2>3
  <2> HIDE DEF d
  <2>5. /\ d \in SleepingCall /\ d.of = c.of /\ d.asked = c.asked /\ d.at = c.at /\ d.left = left
        /\ d.told = c.told /\ d.status = c.status /\ d.ran = c.ran /\ d.slept = slept /\ d.heard = c.heard
        /\ d.hit = c.hit
    BY <1>0, <2>4 DEF SleepingCall
  <2>6. SleeperOK(d)
    BY <1>0, <2>1, <2>2, <2>3, <2>5 DEF SleeperOK
  <2> QED BY <2>1, <2>6, OnlySleeps
<1> QED BY <1>1, <1>2, <1>3

LEMMA InternalSignalKept ==
    ASSUME SignalsInductive, NEW t \in SigThread, InternalSignal(t)
    PROVE  SignalsInductive'
<1>1. sleeper[t] # NoCall /\ sleeper[t].at = "asleep" /\ UNCHANGED <<callVars, result>>
      /\ sleeper' = [sleeper EXCEPT ![t] = Woken(sleeper[t])]
  BY DEF InternalSignal
<1>2. SleeperOK(Woken(sleeper[t]))
  BY <1>1, WokenRight DEF SignalsInductive, SigSleepersOK
<1> QED BY <1>1, <1>2, OnlySleeps

LEMMA CallReturnsKept ==
    ASSUME SignalsInductive, NEW t \in SigThread, CallReturns(t)
    PROVE  SignalsInductive'
<1> DEFINE c == sleeper[t]
<1>0. c # NoCall /\ c.at = "woken" /\ SleeperOK(c) /\ c \in SleepingCall
  BY DEF SignalsInductive, SigSleepersOK, SleeperOK, CallReturns
<1>1. CASE c.status # "EINTR" \/ c.ran
  <2>1. sleeper' = [sleeper EXCEPT ![t] = NoCall] /\ result' = [result EXCEPT ![t] = c] /\ UNCHANGED callVars
    BY <1>1 DEF CallReturns
  <2>2. SigSleepersOK'
    BY <2>1, SleeperKept DEF SignalsInductive
  <2>3. SigPendingOK'
    BY <2>1 DEF SignalsInductive, SigPendingOK, callVars
  <2> HIDE DEF c
  <2>4. ResultOK(c)
    BY <1>0, <1>1 DEF SleeperOK, SleepingCall, ResultOK
  <2> QED BY <2>1, <2>2, <2>3, <2>4, ResultGiven DEF callVars
<1>2. CASE ~(c.status # "EINTR" \/ c.ran)
  <2> DEFINE d == IF c.of = "restartable" THEN RestartCall(c) ELSE SleepOn(c)
  <2>1. sleeper' = [sleeper EXCEPT ![t] = d] /\ UNCHANGED <<callVars, result>>
    BY <1>2 DEF CallReturns
  <2> HIDE DEF c
  <2>2. SleeperOK(d)
    <3>1. CASE c.of = "restartable"
      <4>1. SleeperOK(RestartCall(c))
        <5> DEFINE e == RestartCall(c)
        <5>1. /\ e \in SleepingCall /\ e.of = c.of /\ e.asked = c.asked /\ e.at = "counted" /\ e.left = c.asked
              /\ ~e.ran /\ e.slept = c.slept /\ e.hit = c.hit /\ c.slept \in Nat /\ c.asked \in Nat
          BY <1>0 DEF SleepingCall, RestartCall
        <5> HIDE DEF e
        <5>2. ~e.hit
          BY <1>0, <1>2, <5>1 DEF SleeperOK
        <5> QED BY <1>0, <3>1, <5>1, <5>2 DEF SleeperOK, e
      <4> QED BY <3>1, <4>1
    <3>2. CASE c.of # "restartable"
      <4>1. SleeperOK(SleepOn(c))
        BY <1>0, <1>2, <3>2 DEF SleeperOK, SleepingCall, SleepOn
      <4> QED BY <3>2, <4>1
    <3> QED BY <3>1, <3>2
  <2> HIDE DEF d
  <2> QED BY <2>1, <2>2, OnlySleeps
<1> QED BY <1>1, <1>2

\* SignalsHandled, for any signals that keep different numbers on the host, any
\* actions, masks, threads and times: a signal runs the handler that was set last,
\* sigaction and sigwait return what the guest knows it by, and a sleep ends for
\* the reason that the guest is told.  (signal.cpp, signal_conversion.cpp,
\* syscall_restart.h)
THEOREM SignalsCorrect == SignalsSpec => []SignalsHandled
<1>1. SignalsInit => SignalsInductive
  <2> SUFFICES ASSUME SignalsInit PROVE SignalsInductive
    OBVIOUS
  <2>1. SigTablesOK
    <3>1. ASSUME NEW s \in GuestSignal
          PROVE  hostActions[SignalBToLinux(s)] = SigactionBToLinux(InForce(s))
      <4>1. InForce(s) = NoAction /\ hostActions[SignalBToLinux(s)] = NoAction
        BY DEF SignalsInit, InForce
      <4>2. SigactionBToLinux(NoAction) = NoAction
        BY DEF NoAction, SigactionBToLinux, SigSetBToLinux
      <4> QED BY <4>1, <4>2
    <3> QED BY <3>1 DEF SignalsInit, SigTablesOK
  <2>2. ResultsOK
    <3>1. ResultOK([of |-> "nothing"])
      BY DEF ResultOK
    <3> QED BY <3>1 DEF SignalsInit, ResultsOK, SignalsHandled, ResultOK
  <2> QED BY <2>1, <2>2 DEF SignalsInit, SignalsInductive, SigPendingOK, SigSleepersOK, ResultsOK
<1>2. SignalsInductive /\ [SignalsStep]_signalVars => SignalsInductive'
  <2> SUFFICES ASSUME SignalsInductive, [SignalsStep]_signalVars PROVE SignalsInductive'
    OBVIOUS
  <2>1. CASE UNCHANGED signalVars
    BY <2>1 DEF signalVars, SignalsInductive, SigTablesOK, InForce, SigPendingOK, SigSleepersOK, SignalsHandled
  <2>2. CASE SignalsStep
    BY <2>2, SigactionStoreKept, SigactionHostKept, SigactionGetKept, SendSignalKept, ChildDiesKept,
       WaitForChildKept, SetSignalMaskKept, SigwaitKept, DeliverKept, SetSignalStackKept, SnoozeKept,
       SleepsKept, InternalSignalKept, CallReturnsKept
       DEF SignalsStep, SleeperStep, Sigsuspend
  <2> QED BY <2>1, <2>2
<1>3. SignalsInductive => SignalsHandled
  BY DEF SignalsInductive
<1> QED BY <1>1, <1>2, <1>3, PTL DEF SignalsSpec
-----------------------------------------------------------------------------
(* Descriptors: the host, the server and the loader agree on what a guest   *)
(* holds.                                                                   *)

OpenCall == [do : {"open"}, steps : Seq({"register", "opendir"} \X Fd), on : SUBSET Fd, obj : Obj, listed : BOOLEAN]
CloseCall == [do : {"unregister"}, on : SUBSET Fd, fd : Fd]
DupCall == [do : {"register dup", "dupdir", "put back"}, on : SUBSET Fd, fd : Fd, old : Fd, map : BOOLEAN,
            obj : Obj, listed : BOOLEAN]

\* The numbers that a call names, and those that it changes.
Named(c) == IF c.do = "idle" THEN {} ELSE c.on
Changes(c) == IF c.do = "idle" THEN {} ELSE IF c.do = "open" THEN c.on ELSE {c.fd}
Changing(n) == \E t \in Caller : n \in Changes(todo[t])

Remains(c, what, n) == \E i \in DOMAIN c.steps : c.steps[i] = <<what, n>>

FdTablesOK ==
    /\ DOMAIN host \subseteq Fd /\ \A n \in DOMAIN host : host[n].obj \in Obj
    /\ DOMAIN held \subseteq Fd /\ \A n \in DOMAIN held : held[n] \in [obj : Obj, listed : BOOLEAN]
FdTypeOK ==
    FdTablesOK /\ todo \in [Caller -> OpenCall \cup CloseCall \cup DupCall \cup {AtRest}]

\* The shape of the calls: what is left to do is done once and is about the
\* number that the call names.
FdCallOK(c) ==
    /\ c.do = "open" =>
         /\ \A i \in DOMAIN c.steps : c.steps[i][2] \in c.on
         /\ \A i, j \in DOMAIN c.steps : c.steps[i] = c.steps[j] => i = j
    /\ c.do = "unregister" => c.on = {c.fd}
    /\ c.do \in {"register dup", "dupdir", "put back"} => c.on = {c.old, c.fd} /\ c.old # c.fd

\* Unless the host gave a number out inside another call for it, one call at a
\* time is at work on it.
FdAlone ==
    \A t, u \in Caller : \A n \in Named(todo[t]) \cap Named(todo[u]) : n \in raced \/ t = u

\* A number at rest: what is held is as the guest was told, what is not is in no
\* listing.
FdAtRest(n) ==
    /\ n \in DOMAIN held =>
         /\ n \in DOMAIN host /\ host[n].obj = held[n].obj
         /\ held[n].obj # "socket" => n \in DOMAIN fds /\ fds[n] = held[n].obj
         /\ held[n].listed => held[n].obj = "dir" /\ n \in dirs
    /\ n \notin DOMAIN held => n \notin dirs

\* A number that is being opened, closed or duplicated to.
FdOpening(c, n) ==
    /\ n \in DOMAIN host /\ host[n].obj = c.obj
    /\ c.obj # "socket" => Remains(c, "register", n) \/ (n \in DOMAIN fds /\ fds[n] = c.obj)
    /\ Remains(c, "opendir", n) => n \notin dirs /\ c.obj = "dir"
    /\ c.listed => c.obj = "dir" /\ (Remains(c, "opendir", n) \/ n \in dirs)
FdClosing(n) == n \notin DOMAIN held /\ n \notin dirs
FdDuplicating(c) ==
    /\ c.old \notin raced /\ c.old \in DOMAIN held /\ held[c.old].obj = c.obj
    /\ c.listed => held[c.old].listed
    /\ c.do # "put back" => c.fd \in DOMAIN host /\ host[c.fd].obj = c.obj
    /\ c.do # "register dup" /\ c.obj # "socket" => c.fd \in DOMAIN fds /\ fds[c.fd] = c.obj
    /\ c.listed => c.map

FdAtWork(c) ==
    /\ c.do = "open" => \A n \in c.on \ raced : FdOpening(c, n)
    /\ c.do = "unregister" => c.fd \in raced \/ FdClosing(c.fd)
    /\ c.do \in {"register dup", "dupdir", "put back"} => c.fd \in raced \/ FdDuplicating(c)

FdsInductive ==
    /\ FdTypeOK /\ FdAlone
    /\ \A t \in Caller : FdCallOK(todo[t]) /\ FdAtWork(todo[t])
    /\ \A n \in Fd \ raced : Changing(n) \/ FdAtRest(n)

\* What the helpers on tables do.
LEMMA WithFacts ==
    ASSUME NEW f, NEW ks, NEW v
    PROVE  /\ DOMAIN WithAll(f, ks, v) = DOMAIN f \cup ks
           /\ \A x \in DOMAIN f \cup ks : WithAll(f, ks, v)[x] = IF x \in ks THEN v ELSE f[x]
BY DEF WithAll

LEMMA WithoutFacts ==
    ASSUME NEW f, NEW k
    PROVE  /\ DOMAIN Without(f, k) = DOMAIN f \ {k}
           /\ \A x \in DOMAIN f \ {k} : Without(f, k)[x] = f[x]
BY DEF Without, Restrict

\* The lowest number is one of the set.
LEMMA LowestIn ==
    ASSUME NEW S, S \subseteq Nat, S # {} PROVE Min(S) \in S
<1> DEFINE R == {p \in Nat \X Nat : p[1] < p[2]}
<1>1. IsWellFoundedOn(R, Nat)
  <2>1. OpToRel(<, Nat) = R
    BY DEF OpToRel
  <2> QED BY <2>1, NatLessThanWellFounded
<1>2. \A x, y \in Nat : <<y, x>> \in R <=> y < x
  OBVIOUS
<1> HIDE DEF R
<1>3. PICK x \in S : \A y \in S : ~ (<<y, x>> \in R)
  BY <1>1, WFMin
<1>4. \A y \in S : x <= y
  <2> SUFFICES ASSUME NEW y \in S PROVE x <= y
    OBVIOUS
  <2>1. x \in Nat /\ y \in Nat /\ ~(y < x)
    BY <1>2, <1>3
  <2> QED BY <2>1
<1> QED BY <1>4 DEF Min

\* A call is known by what it does next.
LEMMA CallKinds ==
    ASSUME FdTypeOK, NEW t \in Caller
    PROVE  /\ todo[t] = AtRest <=> todo[t].do = "idle"
           /\ todo[t].do = "open" => todo[t] \in OpenCall
           /\ todo[t].do = "unregister" => todo[t] \in CloseCall
           /\ todo[t].do \in {"register dup", "dupdir", "put back"} => todo[t] \in DupCall
           /\ todo[t].do \in {"idle", "open", "unregister", "register dup", "dupdir", "put back"}
<1>0. AtRest.do = "idle"
  BY DEF AtRest
<1>1. todo[t] \in OpenCall \/ todo[t] \in CloseCall \/ todo[t] \in DupCall \/ todo[t] = AtRest
  BY DEF FdTypeOK
<1>2. CASE todo[t] \in OpenCall
  <2>1. todo[t].do = "open"
    BY <1>2 DEF OpenCall
  <2> QED BY <1>0, <1>2, <2>1
<1>3. CASE todo[t] \in CloseCall
  <2>1. todo[t].do = "unregister"
    BY <1>3 DEF CloseCall
  <2> QED BY <1>0, <1>3, <2>1
<1>4. CASE todo[t] \in DupCall
  <2>1. todo[t].do \in {"register dup", "dupdir", "put back"}
    BY <1>4 DEF DupCall
  <2> QED BY <1>0, <1>4, <2>1
<1>5. CASE todo[t] = AtRest
  BY <1>0, <1>5
<1> QED BY <1>1, <1>2, <1>3, <1>4, <1>5

\* Who is busy with a number names it.
LEMMA BusyNames ==
    ASSUME FdTypeOK, NEW t \in Caller, NEW n
    PROVE  Busy(t, n) <=> \E u \in Caller \ {t} : n \in Named(todo[u])
<1>1. \A u \in Caller : todo[u] = AtRest <=> todo[u].do = "idle"
  BY CallKinds
<1> QED BY <1>1 DEF Busy, Named

\* A call that duplicates changes another number than the one it copies.
LEMMA ChangesNamed ==
    ASSUME FdTypeOK, NEW t \in Caller, FdCallOK(todo[t]) PROVE Changes(todo[t]) \subseteq Named(todo[t])
<1>1. todo[t].do \in {"idle", "open", "unregister", "register dup", "dupdir", "put back"}
  BY CallKinds
<1> QED BY <1>1 DEF FdCallOK, Changes, Named

\* A number that is copied is at rest.
LEMMA CopiedAtRest ==
    ASSUME FdsInductive, NEW t \in Caller, todo[t].do \in {"register dup", "dupdir", "put back"},
           todo[t].fd \notin raced
    PROVE  /\ todo[t].old \in DOMAIN held /\ todo[t].old \notin raced /\ FdAtRest(todo[t].old)
           /\ ~Changing(todo[t].old) /\ todo[t].old \in Fd
<1> DEFINE o == todo[t].old
<1>1. FdDuplicating(todo[t]) /\ todo[t].on = {o, todo[t].fd} /\ o # todo[t].fd
  BY DEF FdsInductive, FdAtWork, FdCallOK
<1>2. o \in DOMAIN held /\ o \notin raced /\ o \in Fd
  BY <1>1 DEF FdDuplicating, FdsInductive, FdTypeOK, FdTablesOK
<1>3. o \in Named(todo[t]) /\ o \notin Changes(todo[t])
  BY <1>1 DEF Named, Changes
<1>4. ASSUME NEW u \in Caller, o \in Changes(todo[u]) PROVE FALSE
  <2>1. o \in Named(todo[u])
    BY <1>4, ChangesNamed DEF FdsInductive
  <2>2. u = t
    BY <1>2, <1>3, <2>1 DEF FdsInductive, FdAlone
  <2> QED BY <1>3, <1>4, <2>2
<1>5. ~Changing(o)
  BY <1>4 DEF Changing
<1>6. FdAtRest(o)
  BY <1>2, <1>5 DEF FdsInductive
<1> QED BY <1>2, <1>5, <1>6

\* The tables have the same of a number after a step.
FdSame(n) ==
    /\ n \in DOMAIN host' <=> n \in DOMAIN host
    /\ n \in DOMAIN host => host'[n].obj = host[n].obj
    /\ n \in DOMAIN fds' <=> n \in DOMAIN fds
    /\ n \in DOMAIN fds => fds'[n] = fds[n]
    /\ n \in dirs' <=> n \in dirs
    /\ n \in DOMAIN held' <=> n \in DOMAIN held
    /\ n \in DOMAIN held => held'[n] = held[n]

\* What a step of one thread may do: it changes the tables at the numbers N
\* only, which no other call names unless they are raced afterwards.
LEMMA FdFrame ==
    ASSUME FdsInductive, NEW t \in Caller, NEW d, NEW N,
           todo' = [todo EXCEPT ![t] = d],
           d \in OpenCall \cup CloseCall \cup DupCall \cup {AtRest},
           FdTablesOK', raced \subseteq raced',
           \A n \in Fd \ N : FdSame(n),
           \A u \in Caller \ {t} : \A n \in Named(todo[u]) :
              /\ n \in N \cup Named(d) => n \in raced'
              /\ n \in raced' \ raced => n \notin DOMAIN host,
           FdCallOK(d), FdAtWork(d)',
           \A n \in (N \cup Changes(todo[t])) \ raced' : n \in Changes(d) \/ FdAtRest(n)'
    PROVE  FdsInductive'
<1>0. FdTypeOK /\ FdAlone
  BY DEF FdsInductive
<1>1. todo'[t] = d /\ DOMAIN todo' = Caller /\ \A u \in Caller \ {t} : todo'[u] = todo[u]
  BY <1>0 DEF FdTypeOK
<1>2. FdTypeOK'
  BY <1>0, <1>1 DEF FdTypeOK
<1>3. FdAlone'
  <2> SUFFICES ASSUME NEW u \in Caller, NEW v \in Caller, NEW n \in Named(todo'[u]) \cap Named(todo'[v])
               PROVE  n \in raced' \/ u = v
    BY DEF FdAlone
  <2>1. CASE u # t /\ v # t
    BY <1>0, <1>1, <2>1 DEF FdAlone
  <2>2. CASE u = t /\ v # t
    BY <1>1, <2>2
  <2>3. CASE u # t /\ v = t
    BY <1>1, <2>3
  <2> QED BY <2>1, <2>2, <2>3
<1>4. ASSUME NEW u \in Caller \ {t} PROVE FdCallOK(todo[u])' /\ FdAtWork(todo[u])'
  <2> SUFFICES ASSUME NEW c, c = todo[u] PROVE FdCallOK(c) /\ FdAtWork(c)'
    BY <1>1
  <2>1. FdCallOK(c) /\ FdAtWork(c)
    BY DEF FdsInductive
  <2>2. \A n \in Named(c) : n \notin raced' => n \notin raced /\ n \notin N
    OBVIOUS
  <2>3. Changes(c) \subseteq Named(c) /\ Named(c) \subseteq Fd
    <3>1. Changes(c) \subseteq Named(c)
      BY <1>0, <2>1, ChangesNamed
    <3>2. Named(c) \subseteq Fd
      BY <1>0, CallKinds DEF Named, OpenCall, CloseCall, DupCall
    <3> QED BY <3>1, <3>2
  <2>4. ASSUME NEW n \in Named(c), n \notin raced' PROVE FdSame(n) /\ n \notin raced
    BY <2>2, <2>3, <2>4
  <2>5. c.do = "open" => \A n \in c.on \ raced' : FdOpening(c, n)'
    <3> SUFFICES ASSUME c.do = "open", NEW n \in c.on \ raced' PROVE FdOpening(c, n)'
      OBVIOUS
    <3>1. FdSame(n) /\ FdOpening(c, n)
      BY <2>1, <2>4 DEF Named, FdAtWork
    <3> QED BY <3>1 DEF FdSame, FdOpening, Remains
  <2>6. c.do = "unregister" => c.fd \in raced' \/ FdClosing(c.fd)'
    <3> SUFFICES ASSUME c.do = "unregister", c.fd \notin raced' PROVE FdClosing(c.fd)'
      OBVIOUS
    <3>1. c.fd \in Named(c)
      BY <2>1 DEF FdCallOK, Named
    <3>2. FdSame(c.fd) /\ FdClosing(c.fd)
      BY <2>1, <2>4, <3>1 DEF FdAtWork
    <3> QED BY <3>2 DEF FdSame, FdClosing
  <2>7. c.do \in {"register dup", "dupdir", "put back"} => c.fd \in raced' \/ FdDuplicating(c)'
    <3> SUFFICES ASSUME c.do \in {"register dup", "dupdir", "put back"}, c.fd \notin raced' PROVE FdDuplicating(c)'
      OBVIOUS
    <3>1. c.fd \in Named(c) /\ c.old \in Named(c)
      BY <2>1 DEF FdCallOK, Named
    <3>2. FdSame(c.fd) /\ c.fd \notin raced /\ FdDuplicating(c)
      BY <2>1, <2>4, <3>1 DEF FdAtWork
    <3>3. c.old \in DOMAIN held /\ c.old \notin raced /\ FdAtRest(c.old)
      BY <3>2, CopiedAtRest
    <3>4. c.old \in DOMAIN host
      BY <3>3 DEF FdAtRest
    <3>5. c.old \notin raced'
      BY <3>1, <3>3, <3>4
    <3>6. FdSame(c.old)
      BY <2>4, <3>1, <3>5
    <3> QED BY <3>2, <3>5, <3>6 DEF FdSame, FdDuplicating
  <2> QED BY <2>1, <2>5, <2>6, <2>7 DEF FdAtWork
<1>5. ASSUME NEW n \in Fd \ raced', ~Changing(n)' PROVE FdAtRest(n)'
  <2>1. n \notin Changes(d) /\ \A u \in Caller \ {t} : n \notin Changes(todo[u])
    BY <1>1, <1>5 DEF Changing
  <2>2. CASE n \in N \cup Changes(todo[t])
    BY <2>1, <2>2
  <2>3. CASE n \notin N \cup Changes(todo[t])
    <3>1. ~Changing(n) /\ n \notin raced /\ FdSame(n)
      BY <2>1, <2>3 DEF Changing
    <3>2. FdAtRest(n)
      BY <3>1 DEF FdsInductive
    <3> QED BY <3>1, <3>2 DEF FdSame, FdAtRest
  <2> QED BY <2>2, <2>3
<1>6. FdCallOK(todo[t])' /\ FdAtWork(todo[t])'
  BY <1>1
<1> QED BY <1>1, <1>2, <1>3, <1>4, <1>5, <1>6 DEF FdsInductive

\* The step of a call on numbers that it names already.
LEMMA FdOwn ==
    ASSUME FdsInductive, NEW t \in Caller, NEW d, NEW N,
           todo' = [todo EXCEPT ![t] = d],
           d \in OpenCall \cup CloseCall \cup DupCall \cup {AtRest},
           N \subseteq Named(todo[t]), Named(d) \subseteq Named(todo[t]),
           FdTablesOK', raced \subseteq raced', raced' \subseteq raced \cup Named(todo[t]),
           \A n \in Fd \ N : FdSame(n),
           FdCallOK(d), FdAtWork(d)',
           \A n \in Changes(todo[t]) \ raced' : n \in Changes(d) \/ FdAtRest(n)',
           \A n \in N \ raced' : n \in Changes(d) \/ FdAtRest(n)'
    PROVE  FdsInductive'
<1>1. ASSUME NEW u \in Caller \ {t}, NEW n \in Named(todo[u]), n \in Named(todo[t])
      PROVE  n \in raced
  BY <1>1 DEF FdsInductive, FdAlone
<1>2. ASSUME NEW u \in Caller \ {t}, NEW n \in Named(todo[u])
      PROVE  /\ n \in N \cup Named(d) => n \in raced'
             /\ n \in raced' \ raced => n \notin DOMAIN host
  BY <1>1, <1>2
<1>3. \A n \in (N \cup Changes(todo[t])) \ raced' : n \in Changes(d) \/ FdAtRest(n)'
  OBVIOUS
<1> QED BY <1>2, <1>3, FdFrame

\* open, open_dir, open_entry_ref, socket and create_pipe: the host gives numbers.
LEMMA OpenedKept ==
    ASSUME FdsInductive, NEW t \in Caller, todo[t] = AtRest,
           NEW ns \in SUBSET Free, NEW thing \in Obj, NEW cloexec, NEW steps \in Seq({"register", "opendir"} \X Fd),
           \A i \in DOMAIN steps : steps[i][2] \in ns,
           \A i, j \in DOMAIN steps : steps[i] = steps[j] => i = j,
           thing # "socket" => \A n \in ns : \E i \in DOMAIN steps : steps[i] = <<"register", n>>,
           (\E i \in DOMAIN steps : steps[i][1] = "opendir") =>
              thing = "dir" /\ \A n \in ns : \E i \in DOMAIN steps : steps[i] = <<"opendir", n>>,
           Opened(t, ns, thing, cloexec, steps)
    PROVE  FdsInductive'
<1> DEFINE listed == \E i \in DOMAIN steps : steps[i][1] = "opendir"
           d == [do |-> "open", steps |-> steps, on |-> ns, obj |-> thing, listed |-> listed]
<1>0. FdTypeOK /\ ns \subseteq Fd /\ ns \cap DOMAIN host = {}
  BY DEF FdsInductive, Free
<1>1. /\ host' = WithAll(host, ns, [obj |-> thing, cloexec |-> cloexec])
      /\ raced' = raced \cup {n \in ns : Busy(t, n)}
      /\ todo' = [todo EXCEPT ![t] = d]
      /\ UNCHANGED <<fds, dirs, mapper, held>>
  BY DEF Opened, Then
<1>2. listed \in BOOLEAN
  OBVIOUS
<1> HIDE DEF listed
<1>3. /\ d \in OpenCall /\ d.do = "open" /\ d.steps = steps /\ d.on = ns /\ d.obj = thing /\ d.listed = listed
  BY <1>0, <1>2 DEF OpenCall
<1> HIDE DEF d
<1>4. /\ DOMAIN host' = DOMAIN host \cup ns
      /\ \A n \in DOMAIN host' : host'[n].obj = IF n \in ns THEN thing ELSE host[n].obj
  <2> DEFINE v == [obj |-> thing, cloexec |-> cloexec]
  <2>1. v.obj = thing
    OBVIOUS
  <2> HIDE DEF v
  <2>2. /\ DOMAIN host' = DOMAIN host \cup ns
        /\ \A n \in DOMAIN host \cup ns : host'[n] = IF n \in ns THEN v ELSE host[n]
    BY <1>1 DEF v, WithAll
  <2> QED BY <2>1, <2>2
<1>5. FdTablesOK'
  BY <1>0, <1>1, <1>4 DEF FdTypeOK, FdTablesOK
<1>6. \A n \in Fd \ ns : FdSame(n)
  BY <1>1, <1>4 DEF FdSame
<1>7. FdCallOK(d)
  BY <1>3 DEF FdCallOK
<1>8. Named(todo[t]) = {} /\ Changes(todo[t]) = {} /\ Named(d) = ns /\ Changes(d) = ns
  BY <1>3 DEF Named, Changes, AtRest
<1>9. ASSUME NEW u \in Caller \ {t}, NEW n \in Named(todo[u])
      PROVE  /\ n \in ns \cup Named(d) => n \in raced'
             /\ n \in raced' \ raced => n \notin DOMAIN host
  <2>1. Busy(t, n)
    BY <1>0, BusyNames
  <2> QED BY <1>0, <1>1, <1>8, <2>1
<1>10. ASSUME NEW n \in ns \ raced' PROVE n \notin dirs /\ n \notin DOMAIN held
  <2>1. ~Busy(t, n) /\ n \notin raced /\ n \in Fd /\ n \notin DOMAIN host
    BY <1>0, <1>1
  <2>2. \A u \in Caller : n \notin Changes(todo[u])
    <3>1. \A u \in Caller \ {t} : n \notin Named(todo[u])
      BY <1>0, <2>1, BusyNames
    <3>2. \A u \in Caller : Changes(todo[u]) \subseteq Named(todo[u])
      BY <1>0, ChangesNamed DEF FdsInductive
    <3> QED BY <1>8, <3>1, <3>2
  <2>3. FdAtRest(n)
    BY <2>1, <2>2 DEF FdsInductive, Changing
  <2> QED BY <2>1, <2>3 DEF FdAtRest
<1>11. FdAtWork(d)'
  <2> SUFFICES ASSUME NEW n \in ns \ raced' PROVE FdOpening(d, n)'
    BY <1>3 DEF FdAtWork
  <2>1. n \in DOMAIN host' /\ host'[n].obj = d.obj
    BY <1>3, <1>4
  <2>2. d.obj # "socket" => Remains(d, "register", n)
    BY <1>3 DEF Remains
  <2>3. Remains(d, "opendir", n) => n \notin dirs' /\ d.obj = "dir"
    <3>1. Remains(d, "opendir", n) => listed
      BY <1>3 DEF Remains, listed
    <3> QED BY <1>1, <1>3, <1>10, <3>1 DEF listed
  <2>4. d.listed => d.obj = "dir" /\ Remains(d, "opendir", n)
    BY <1>3 DEF Remains, listed
  <2>5. Remains(d, "register", n)' <=> Remains(d, "register", n)
    BY DEF Remains
  <2>6. Remains(d, "opendir", n)' <=> Remains(d, "opendir", n)
    BY DEF Remains
  <2> QED BY <2>1, <2>2, <2>3, <2>4, <2>5, <2>6 DEF FdOpening
<1>12. \A n \in (ns \cup Changes(todo[t])) \ raced' : n \in Changes(d) \/ FdAtRest(n)'
  BY <1>8
<1>13. raced \subseteq raced'
  BY <1>1
<1> QED BY <1>1, <1>3, <1>5, <1>6, <1>7, <1>9, <1>11, <1>12, <1>13, FdFrame

LEMMA OpenFdKept ==
    ASSUME FdsInductive, NEW t \in Caller, NEW thing \in Obj, NEW cloexec \in BOOLEAN, OpenFd(t, thing, cloexec)
    PROVE  FdsInductive'
<1> SUFFICES ASSUME NEW n, n = Min(Free) PROVE FdsInductive'
  OBVIOUS
<1>1. todo[t] = AtRest /\ n \in Free /\ n \in Fd
  <2>1. Free \subseteq Nat /\ Free # {}
    BY DescriptorsAssumption DEF OpenFd, Free
  <2>2. n \in Free
    BY <2>1, LowestIn
  <2> QED BY <2>2 DEF OpenFd, Free
<1>2. PICK st \in {<<"register", "opendir">>, <<"register">>, <<"opendir", "register">>, <<>>} :
        /\ thing # "dir" => st \in {<<"register">>, <<>>}
        /\ thing # "socket" => st # <<>>
        /\ Opened(t, {n}, thing, cloexec, [i \in DOMAIN st |-> <<st[i], n>>])
  <2>1. CASE thing = "dir"
    BY <2>1 DEF OpenFd
  <2>2. CASE thing = "file"
    BY <2>2 DEF OpenFd
  <2>3. CASE thing = "socket"
    BY <2>3 DEF OpenFd
  <2> QED BY <2>1, <2>2, <2>3 DEF Obj
<1> DEFINE steps == [i \in DOMAIN st |-> <<st[i], n>>]
<1>3. /\ steps \in Seq({"register", "opendir"} \X Fd)
      /\ \A i \in DOMAIN steps : steps[i][2] = n
      /\ \A i, j \in DOMAIN steps : steps[i] = steps[j] => i = j
      /\ st # <<>> => \E i \in DOMAIN steps : steps[i] = <<"register", n>>
      /\ st \in {<<"register">>, <<>>} => ~ \E i \in DOMAIN steps : steps[i][1] = "opendir"
      /\ (\E i \in DOMAIN steps : steps[i][1] = "opendir") => \E i \in DOMAIN steps : steps[i] = <<"opendir", n>>
  <2>1. CASE st = <<>>
    BY <1>1, <2>1
  <2>2. CASE st = <<"register">>
    BY <1>1, <2>2
  <2>3. CASE st = <<"register", "opendir">>
    BY <1>1, <2>3
  <2>4. CASE st = <<"opendir", "register">>
    BY <1>1, <2>4
  <2> QED BY <2>1, <2>2, <2>3, <2>4
<1>4. Opened(t, {n}, thing, cloexec, steps)
  BY <1>2
<1> HIDE DEF steps
<1>5. /\ \A i \in DOMAIN steps : steps[i][2] \in {n}
      /\ thing # "socket" => \A m \in {n} : \E i \in DOMAIN steps : steps[i] = <<"register", m>>
      /\ (\E i \in DOMAIN steps : steps[i][1] = "opendir") =>
              thing = "dir" /\ \A m \in {n} : \E i \in DOMAIN steps : steps[i] = <<"opendir", m>>
  BY <1>2, <1>3
<1> QED BY <1>1, <1>3, <1>4, <1>5, OpenedKept

LEMMA CreatePipeKept ==
    ASSUME FdsInductive, NEW t \in Caller, NEW cloexec \in BOOLEAN, CreatePipe(t, cloexec)
    PROVE  FdsInductive'
<1> SUFFICES ASSUME NEW n, n = Min(Free), NEW m, m = Min(Free \ {n}) PROVE FdsInductive'
  OBVIOUS
<1>1. todo[t] = AtRest /\ Cardinality(Free) > 1
      /\ Opened(t, {n, m}, "file", cloexec, <<<<"register", n>>, <<"register", m>>>>)
  BY DEF CreatePipe
<1>2. n \in Free /\ m \in Free \ {n}
  <2>1. Free # {}
    BY <1>1, FS_EmptySet
  <2>2. Free \subseteq Nat
    BY DescriptorsAssumption DEF Free
  <2>3. n \in Free
    BY <2>1, <2>2, LowestIn
  <2>4. Free # {n}
    <3>1. Cardinality({n}) = 1
      BY FS_Singleton
    <3> QED BY <1>1, <3>1
  <2>5. Free \ {n} # {} /\ Free \ {n} \subseteq Nat
    BY <2>1, <2>2, <2>4
  <2> QED BY <2>3, <2>5, LowestIn
<1> DEFINE steps == <<<<"register", n>>, <<"register", m>>>>
<1>3. /\ steps \in Seq({"register", "opendir"} \X Fd)
      /\ \A i \in DOMAIN steps : steps[i][2] \in {n, m} /\ steps[i][1] # "opendir"
      /\ \A i, j \in DOMAIN steps : steps[i] = steps[j] => i = j
      /\ \A k \in {n, m} : \E i \in DOMAIN steps : steps[i] = <<"register", k>>
  BY <1>2 DEF Free
<1>4. Opened(t, {n, m}, "file", cloexec, steps)
  BY <1>1
<1> HIDE DEF steps
<1>5. {n, m} \in SUBSET Free /\ "file" \in Obj /\ ~ \E i \in DOMAIN steps : steps[i][1] = "opendir"
  BY <1>2, <1>3 DEF Obj
<1> QED BY <1>1, <1>3, <1>4, <1>5, OpenedKept

\* The next step of a call that opens.
LEMMA NextStepFacts ==
    ASSUME NEW c \in OpenCall, FdCallOK(c), c.steps # <<>>, NEW d, d = [c EXCEPT !.steps = Tail(@)]
    PROVE  /\ d \in OpenCall /\ d.do = "open" /\ d.on = c.on /\ d.obj = c.obj /\ d.listed = c.listed
           /\ c.do = "open" /\ FdCallOK(d) /\ Head(c.steps)[2] \in c.on /\ c.on \subseteq Fd
           /\ \A what, m : Remains(d, what, m) <=> Remains(c, what, m) /\ <<what, m>> # Head(c.steps)
           /\ Remains(c, Head(c.steps)[1], Head(c.steps)[2])
           /\ Head(c.steps) = <<Head(c.steps)[1], Head(c.steps)[2]>>
<1> DEFINE s == c.steps
           X == {"register", "opendir"} \X Fd
<1>1. s \in Seq(X) /\ s # <<>> /\ c.do = "open"
  BY DEF OpenCall
<1>2. /\ Tail(s) \in Seq(X) /\ Head(s) = s[1] /\ Head(s) \in X /\ 1 \in DOMAIN s
      /\ \A i \in DOMAIN Tail(s) : i \in Nat /\ i + 1 \in DOMAIN s /\ Tail(s)[i] = s[i + 1] /\ i + 1 # 1
      /\ \A i \in DOMAIN s : i # 1 => i - 1 \in DOMAIN Tail(s) /\ Tail(s)[i - 1] = s[i]
  <2> HIDE DEF s, X
  <2> QED BY <1>1
<1>3. d \in OpenCall /\ d.do = "open" /\ d.on = c.on /\ d.obj = c.obj /\ d.listed = c.listed /\ d.steps = Tail(s)
  BY <1>1, <1>2 DEF OpenCall
<1>4. /\ \A i \in DOMAIN s : s[i][2] \in c.on
      /\ \A i, j \in DOMAIN s : s[i] = s[j] => i = j
  BY <1>1 DEF FdCallOK
<1> HIDE DEF s
<1>5. FdCallOK(d)
  <2>1. ASSUME NEW i \in DOMAIN Tail(s) PROVE Tail(s)[i][2] \in c.on
    BY <1>2, <1>4
  <2>2. ASSUME NEW i \in DOMAIN Tail(s), NEW j \in DOMAIN Tail(s), Tail(s)[i] = Tail(s)[j] PROVE i = j
    <3>1. i \in Nat /\ j \in Nat /\ i + 1 = j + 1
      BY <1>2, <1>4, <2>2
    <3> QED BY <3>1
  <2>3. /\ \A i \in DOMAIN d.steps : d.steps[i][2] \in d.on
        /\ \A i, j \in DOMAIN d.steps : d.steps[i] = d.steps[j] => i = j
    <3>1. d.steps = Tail(s) /\ d.on = c.on
      BY <1>3
    <3> QED BY <2>1, <2>2, <3>1, Zenon
  <2> QED BY <1>3, <2>3 DEF FdCallOK
<1>6. Head(s) = <<Head(s)[1], Head(s)[2]>> /\ Head(s)[2] \in c.on
  BY <1>2, <1>4
<1>7. Remains(c, Head(s)[1], Head(s)[2])
  BY <1>2, <1>6 DEF Remains, s
<1>8. ASSUME NEW what, NEW m PROVE Remains(d, what, m) <=> Remains(c, what, m) /\ <<what, m>> # Head(s)
  <2>1. Remains(d, what, m) <=> \E i \in DOMAIN Tail(s) : Tail(s)[i] = <<what, m>>
    BY <1>3 DEF Remains
  <2>2. Remains(c, what, m) <=> \E i \in DOMAIN s : s[i] = <<what, m>>
    BY DEF Remains, s
  <2>3. ASSUME NEW i \in DOMAIN Tail(s), Tail(s)[i] = <<what, m>>
        PROVE  Remains(c, what, m) /\ <<what, m>> # Head(s)
    <3>1. i \in Nat \ {0} /\ i + 1 \in DOMAIN s /\ 1 \in DOMAIN s /\ Tail(s)[i] = s[i + 1] /\ Head(s) = s[1]
      BY <1>2
    <3>2. i + 1 # 1
      BY <3>1
    <3> QED BY <1>4, <2>2, <2>3, <3>1, <3>2
  <2>4. ASSUME NEW i \in DOMAIN s, s[i] = <<what, m>>, <<what, m>> # Head(s)
        PROVE  Remains(d, what, m)
    <3>1. i # 1 /\ i \in 1 .. Len(s)
      BY <1>2, <2>4
    <3>2. i - 1 \in DOMAIN Tail(s) /\ Tail(s)[i - 1] = s[i]
      BY <1>2, <3>1
    <3> QED BY <2>1, <2>4, <3>2
  <2> QED BY <2>1, <2>2, <2>3, <2>4
<1>9. c.on \subseteq Fd
  BY DEF OpenCall
<1> QED BY <1>1, <1>3, <1>5, <1>6, <1>7, <1>8, <1>9 DEF s

\* The server is told of a number.
LEMMA RegisterFdKept ==
    ASSUME FdsInductive, NEW t \in Caller, RegisterFd(t)
    PROVE  FdsInductive'
<1> SUFFICES ASSUME NEW c, c = todo[t], NEW n, n = Number(t) PROVE FdsInductive'
  OBVIOUS
<1> DEFINE d == [c EXCEPT !.steps = Tail(@)]
<1>0. FdTypeOK /\ FdCallOK(c) /\ FdAtWork(c)
  BY DEF FdsInductive
<1>1. /\ c.do = "open" /\ c.steps # <<>> /\ Head(c.steps)[1] = "register" /\ Head(c.steps)[2] = n
      /\ fds' = With(fds, n, c.obj) /\ todo' = [todo EXCEPT ![t] = d]
      /\ UNCHANGED <<host, dirs, mapper, held, raced>>
  BY DEF RegisterFd, Step, Number, NextStep, Then
<1>2. c \in OpenCall
  BY <1>0, <1>1, CallKinds
<1>3. /\ d \in OpenCall /\ d.do = "open" /\ d.on = c.on /\ d.obj = c.obj /\ d.listed = c.listed
      /\ FdCallOK(d) /\ n \in c.on /\ c.on \subseteq Fd
      /\ \A what, m : Remains(d, what, m) <=> Remains(c, what, m) /\ <<what, m>> # <<"register", n>>
  <2>1. d = [c EXCEPT !.steps = Tail(@)]
    OBVIOUS
  <2>2. Head(c.steps) = <<"register", n>>
    BY <1>0, <1>1, <1>2, <2>1, NextStepFacts
  <2>3. /\ d \in OpenCall /\ d.do = "open" /\ d.on = c.on /\ d.obj = c.obj /\ d.listed = c.listed
        /\ FdCallOK(d) /\ n \in c.on /\ c.on \subseteq Fd
    BY <1>0, <1>1, <1>2, <2>1, NextStepFacts
  <2>4. \A what, m : Remains(d, what, m) <=> Remains(c, what, m) /\ <<what, m>> # Head(c.steps)
    <3>1. c.steps # <<>> /\ FdCallOK(c)
      BY <1>0, <1>1
    <3> QED BY <1>2, <2>1, <3>1, NextStepFacts
  <2>5. Remains(c, "register", n)
    BY <1>0, <1>1, <1>2, <2>1, NextStepFacts
  <2> QED BY <2>2, <2>3, <2>4, <2>5
<1> HIDE DEF d
<1>4. /\ DOMAIN fds' = DOMAIN fds \cup {n}
      /\ \A m \in DOMAIN fds' : fds'[m] = IF m = n THEN c.obj ELSE fds[m]
  BY <1>1 DEF With, WithAll
<1>5. FdTablesOK'
  BY <1>0, <1>1 DEF FdTypeOK, FdTablesOK
<1>6. \A m \in Fd \ {n} : FdSame(m)
  BY <1>1, <1>4 DEF FdSame
<1>7. Named(c) = c.on /\ Changes(c) = c.on /\ Named(d) = c.on /\ Changes(d) = c.on
  BY <1>1, <1>3 DEF Named, Changes
<1>8. FdAtWork(d)'
  <2> SUFFICES ASSUME NEW m \in c.on \ raced PROVE FdOpening(d, m)'
    BY <1>1, <1>3 DEF FdAtWork
  <2>1. FdOpening(c, m)
    BY <1>0, <1>1 DEF FdAtWork
  <2>2. Remains(d, "opendir", m)' <=> Remains(c, "opendir", m)
    <3>1. Remains(d, "opendir", m) <=> Remains(c, "opendir", m)
      BY <1>3
    <3> QED BY <3>1 DEF Remains
  <2>3. d.obj # "socket" => Remains(d, "register", m)' \/ (m \in DOMAIN fds' /\ fds'[m] = d.obj)
    <3>1. Remains(d, "register", m)' <=> Remains(d, "register", m)
      BY DEF Remains
    <3>2. CASE m = n
      BY <1>3, <1>4, <3>2
    <3>3. CASE m # n
      BY <1>3, <1>4, <2>1, <3>1, <3>3 DEF FdOpening
    <3> QED BY <3>2, <3>3
  <2> QED BY <1>1, <1>3, <2>1, <2>2, <2>3 DEF FdOpening
<1>9. \A m \in Changes(c) \ raced' : m \in Changes(d) \/ FdAtRest(m)'
  BY <1>7
<1>10. /\ \A m \in {n} \ raced' : m \in Changes(d) \/ FdAtRest(m)'
       /\ {n} \subseteq Named(c) /\ raced \subseteq raced' /\ raced' \subseteq raced \cup Named(c)
  BY <1>1, <1>3, <1>7
<1> QED BY <1>1, <1>3, <1>5, <1>6, <1>7, <1>8, <1>9, <1>10, FdOwn

\* The loader makes a handle for a number.
LEMMA OpendirKept ==
    ASSUME FdsInductive, NEW t \in Caller, Opendir(t)
    PROVE  FdsInductive'
<1> SUFFICES ASSUME NEW c, c = todo[t], NEW n, n = Number(t) PROVE FdsInductive'
  OBVIOUS
<1> DEFINE d == [c EXCEPT !.steps = Tail(@)]
<1>0. FdTypeOK /\ FdCallOK(c) /\ FdAtWork(c)
  BY DEF FdsInductive
<1>1. /\ c.do = "open" /\ c.steps # <<>> /\ Head(c.steps)[1] = "opendir" /\ Head(c.steps)[2] = n
      /\ Listed(n) /\ todo' = [todo EXCEPT ![t] = d]
      /\ UNCHANGED <<fds, mapper, held, raced>>
  BY DEF Opendir, Step, Number, NextStep, Then
<1>2. c \in OpenCall
  BY <1>0, <1>1, CallKinds
<1>3. /\ d \in OpenCall /\ d.do = "open" /\ d.on = c.on /\ d.obj = c.obj /\ d.listed = c.listed
      /\ FdCallOK(d) /\ n \in c.on /\ c.on \subseteq Fd /\ Remains(c, "opendir", n)
      /\ \A what, m : Remains(d, what, m) <=> Remains(c, what, m) /\ <<what, m>> # <<"opendir", n>>
  <2>1. d = [c EXCEPT !.steps = Tail(@)]
    OBVIOUS
  <2>2. Head(c.steps) = <<"opendir", n>>
    BY <1>0, <1>1, <1>2, <2>1, NextStepFacts
  <2>3. /\ d \in OpenCall /\ d.do = "open" /\ d.on = c.on /\ d.obj = c.obj /\ d.listed = c.listed
        /\ FdCallOK(d) /\ n \in c.on /\ c.on \subseteq Fd
    BY <1>0, <1>1, <1>2, <2>1, NextStepFacts
  <2>4. \A what, m : Remains(d, what, m) <=> Remains(c, what, m) /\ <<what, m>> # Head(c.steps)
    <3>1. c.steps # <<>> /\ FdCallOK(c)
      BY <1>0, <1>1
    <3> QED BY <1>2, <2>1, <3>1, NextStepFacts
  <2>5. Remains(c, "opendir", n)
    BY <1>0, <1>1, <1>2, <2>1, NextStepFacts
  <2> QED BY <2>2, <2>3, <2>4, <2>5
<1> HIDE DEF d
<1>4. /\ DOMAIN host' \subseteq DOMAIN host /\ \A m \in DOMAIN host' : host'[m] = host[m]
      /\ \A m \in DOMAIN host \ {n} : m \in DOMAIN host'
      /\ \A m : m # n => (m \in dirs' <=> m \in dirs)
      /\ n \in DOMAIN host /\ host[n].obj = "dir" /\ n \notin dirs =>
            n \in dirs' /\ host' = host
  <2>1. CASE n \notin DOMAIN host \/ host[n].obj # "dir"
    BY <1>1, <2>1 DEF Listed
  <2>2. CASE ~(n \notin DOMAIN host \/ host[n].obj # "dir") /\ n \in dirs
    <3>1. host' = Without(host, n) /\ dirs' = dirs
      BY <1>1, <2>2 DEF Listed
    <3> QED BY <2>2, <3>1 DEF Without, Restrict
  <2>3. CASE ~(n \notin DOMAIN host \/ host[n].obj # "dir") /\ n \notin dirs
    <3>1. dirs' = dirs \cup {n} /\ host' = host
      BY <1>1, <2>3 DEF Listed
    <3> QED BY <3>1
  <2> QED BY <2>1, <2>2, <2>3
<1>5. FdTablesOK'
  BY <1>0, <1>1, <1>4 DEF FdTypeOK, FdTablesOK
<1>6. \A m \in Fd \ {n} : FdSame(m)
  BY <1>1, <1>4 DEF FdSame
<1>7. Named(c) = c.on /\ Changes(c) = c.on /\ Named(d) = c.on /\ Changes(d) = c.on
  BY <1>1, <1>3 DEF Named, Changes
<1>8. FdAtWork(d)'
  <2> SUFFICES ASSUME NEW m \in c.on \ raced PROVE FdOpening(d, m)'
    BY <1>1, <1>3 DEF FdAtWork
  <2>1. FdOpening(c, m)
    BY <1>0, <1>1 DEF FdAtWork
  <2>2. /\ Remains(d, "opendir", m)' <=> Remains(d, "opendir", m)
        /\ Remains(d, "register", m)' <=> Remains(d, "register", m)
    BY DEF Remains
  <2>3. Remains(d, "register", m) <=> Remains(c, "register", m)
    BY <1>3
  <2>4. CASE m # n
    <3>1. Remains(d, "opendir", m) <=> Remains(c, "opendir", m)
      BY <1>3, <2>4
    <3>2. FdSame(m)
      BY <1>3, <1>6, <2>4
    <3> QED BY <1>3, <2>1, <2>2, <2>3, <3>1, <3>2 DEF FdOpening, FdSame
  <2>5. CASE m = n
    <3>1. n \in DOMAIN host /\ host[n].obj = "dir" /\ n \notin dirs
      BY <1>3, <2>1, <2>5 DEF FdOpening
    <3>2. n \in dirs' /\ host' = host /\ ~Remains(d, "opendir", n)
      BY <1>3, <1>4, <3>1
    <3> QED BY <1>1, <1>3, <2>1, <2>2, <2>3, <2>5, <3>1, <3>2 DEF FdOpening
  <2> QED BY <2>4, <2>5
<1>9. \A m \in Changes(c) \ raced' : m \in Changes(d) \/ FdAtRest(m)'
  BY <1>7
<1>10. /\ \A m \in {n} \ raced' : m \in Changes(d) \/ FdAtRest(m)'
       /\ {n} \subseteq Named(c) /\ raced \subseteq raced' /\ raced' \subseteq raced \cup Named(c)
  BY <1>1, <1>3, <1>7
<1> QED BY <1>1, <1>3, <1>5, <1>6, <1>7, <1>8, <1>9, <1>10, FdOwn

\* The guest is told of its numbers.
LEMMA ReturnKept ==
    ASSUME FdsInductive, NEW t \in Caller, Return(t)
    PROVE  FdsInductive'
<1> SUFFICES ASSUME NEW c, c = todo[t] PROVE FdsInductive'
  OBVIOUS
<1>0. FdTypeOK /\ FdCallOK(c) /\ FdAtWork(c)
  BY DEF FdsInductive
<1> DEFINE v == [obj |-> c.obj, listed |-> c.listed]
<1>1. /\ c.do = "open" /\ c.steps = <<>>
      /\ held' = WithAll(held, c.on, v) /\ todo' = [todo EXCEPT ![t] = AtRest]
      /\ UNCHANGED <<host, fds, dirs, mapper, raced>>
  BY DEF Return, Then
<1>2. c \in OpenCall
  BY <1>0, <1>1, CallKinds
<1>3. c.on \subseteq Fd /\ c.obj \in Obj /\ c.listed \in BOOLEAN
  BY <1>2 DEF OpenCall
<1>4. v.obj = c.obj /\ v.listed = c.listed /\ v \in [obj : Obj, listed : BOOLEAN]
  BY <1>3
<1> HIDE DEF v
<1>5. /\ DOMAIN held' = DOMAIN held \cup c.on
      /\ \A m \in DOMAIN held' : held'[m] = IF m \in c.on THEN v ELSE held[m]
  BY <1>1 DEF WithAll
<1>6. FdTablesOK'
  BY <1>0, <1>1, <1>3, <1>4, <1>5 DEF FdTypeOK, FdTablesOK
<1>7. \A m \in Fd \ c.on : FdSame(m)
  BY <1>1, <1>5 DEF FdSame
<1>8. Named(c) = c.on /\ Changes(c) = c.on /\ Named(AtRest) = {} /\ Changes(AtRest) = {}
  BY <1>1 DEF Named, Changes, AtRest
<1>9. FdCallOK(AtRest) /\ FdAtWork(AtRest)'
  BY DEF FdCallOK, FdAtWork, AtRest
<1>10. ASSUME NEW m \in c.on \ raced' PROVE FdAtRest(m)'
  <2>1. FdOpening(c, m)
    BY <1>0, <1>1 DEF FdAtWork
  <2>2. ~Remains(c, "register", m) /\ ~Remains(c, "opendir", m)
    BY <1>1 DEF Remains
  <2> QED BY <1>1, <1>4, <1>5, <2>1, <2>2 DEF FdOpening, FdAtRest
<1>11. /\ c.on \subseteq Named(c) /\ Named(AtRest) \subseteq Named(c)
       /\ raced \subseteq raced' /\ raced' \subseteq raced \cup Named(c)
  BY <1>1, <1>8
<1> QED BY <1>1, <1>6, <1>7, <1>8, <1>9, <1>10, <1>11, FdOwn

\* A call at rest names and changes nothing.
LEMMA RestFacts ==
    /\ Named(AtRest) = {} /\ Changes(AtRest) = {} /\ FdCallOK(AtRest) /\ FdAtWork(AtRest) /\ FdAtWork(AtRest)'
BY DEF Named, Changes, FdCallOK, FdAtWork, AtRest

\* A number that is held, and that no other call names, is at rest.
LEMMA HeldAtRest ==
    ASSUME FdsInductive, NEW t \in Caller, todo[t] = AtRest, NEW n \in Fd, ~Busy(t, n), n \notin raced
    PROVE  FdAtRest(n)
<1>1. FdTypeOK
  BY DEF FdsInductive
<1>2. \A u \in Caller \ {t} : n \notin Named(todo[u])
  BY <1>1, BusyNames
<1>3. \A u \in Caller : Changes(todo[u]) \subseteq Named(todo[u])
  BY <1>1, ChangesNamed DEF FdsInductive
<1>4. ~Changing(n)
  BY <1>2, <1>3, RestFacts DEF Changing
<1> QED BY <1>4 DEF FdsInductive

\* close: the loader and the host.
LEMMA CloseKept ==
    ASSUME FdsInductive, NEW t \in Caller, NEW n \in Fd, Close(t, n)
    PROVE  FdsInductive'
<1> SUFFICES ASSUME NEW d, d = IF n \in dirs \cup DOMAIN host THEN [do |-> "unregister", on |-> {n}, fd |-> n] ELSE AtRest
             PROVE  FdsInductive'
  OBVIOUS
<1>0. FdTypeOK
  BY DEF FdsInductive
<1>1. /\ todo[t] = AtRest /\ ~Busy(t, n) /\ dirs' = dirs \ {n} /\ host' = Without(host, n)
      /\ held' = Without(held, n) /\ todo' = [todo EXCEPT ![t] = d]
      /\ UNCHANGED <<fds, mapper, raced>>
  BY DEF Close, Then
<1>2. /\ DOMAIN host' = DOMAIN host \ {n} /\ \A m \in DOMAIN host' : host'[m] = host[m]
      /\ DOMAIN held' = DOMAIN held \ {n} /\ \A m \in DOMAIN held' : held'[m] = held[m]
  BY <1>1 DEF Without, Restrict
<1>3. FdTablesOK'
  BY <1>0, <1>1, <1>2 DEF FdTypeOK, FdTablesOK
<1>4. \A m \in Fd \ {n} : FdSame(m)
  BY <1>1, <1>2 DEF FdSame
<1>5. FdClosing(n)' /\ FdAtRest(n)'
  BY <1>1, <1>2 DEF FdClosing, FdAtRest
<1>6. ASSUME NEW u \in Caller \ {t}, NEW m \in Named(todo[u])
      PROVE  m # n /\ m \notin raced' \ raced
  BY <1>0, <1>1, <1>6, BusyNames
<1>7. CASE d = AtRest
  <2>1. \A m \in ({n} \cup Changes(todo[t])) \ raced' : m \in Changes(d) \/ FdAtRest(m)'
    BY <1>1, <1>5, RestFacts
  <2>2. FdCallOK(d) /\ FdAtWork(d)' /\ Named(d) = {} /\ raced \subseteq raced'
    BY <1>1, <1>7, RestFacts
  <2>3. d \in OpenCall \cup CloseCall \cup DupCall \cup {AtRest}
    BY <1>7
  <2> QED BY <1>1, <1>3, <1>4, <1>6, <2>1, <2>2, <2>3, FdFrame
<1>8. CASE d = [do |-> "unregister", on |-> {n}, fd |-> n]
  <2>1. d \in CloseCall /\ d.do = "unregister" /\ d.on = {n} /\ d.fd = n
    BY <1>8 DEF CloseCall
  <2>2. FdCallOK(d) /\ Named(d) = {n} /\ Changes(d) = {n} /\ raced \subseteq raced'
    BY <1>1, <2>1 DEF FdCallOK, Named, Changes
  <2>3. FdAtWork(d)'
    BY <1>5, <2>1 DEF FdAtWork
  <2>4. \A m \in ({n} \cup Changes(todo[t])) \ raced' : m \in Changes(d) \/ FdAtRest(m)'
    BY <1>1, <1>5, RestFacts
  <2>5. ASSUME NEW u \in Caller \ {t}, NEW m \in Named(todo[u])
        PROVE  /\ m \in {n} \cup Named(d) => m \in raced'
               /\ m \in raced' \ raced => m \notin DOMAIN host
    BY <1>6, <2>2
  <2>6. d \in OpenCall \cup CloseCall \cup DupCall \cup {AtRest}
    BY <2>1
  <2> QED BY <1>1, <1>3, <1>4, <2>2, <2>3, <2>4, <2>5, <2>6, FdFrame
<1> QED BY <1>7, <1>8

\* close: the server.
LEMMA UnregisterFdKept ==
    ASSUME FdsInductive, NEW t \in Caller, UnregisterFd(t)
    PROVE  FdsInductive'
<1> SUFFICES ASSUME NEW c, c = todo[t], NEW n, n = todo[t].fd PROVE FdsInductive'
  OBVIOUS
<1>0. FdTypeOK /\ FdCallOK(c) /\ FdAtWork(c)
  BY DEF FdsInductive
<1>1. /\ c.do = "unregister" /\ fds' = Without(fds, n) /\ todo' = [todo EXCEPT ![t] = AtRest]
      /\ UNCHANGED <<host, dirs, mapper, held, raced>>
  BY DEF UnregisterFd, Then
<1>2. c.on = {n} /\ Named(c) = {n} /\ Changes(c) = {n} /\ n = c.fd
  BY <1>0, <1>1 DEF FdCallOK, Named, Changes
<1>3. DOMAIN fds' = DOMAIN fds \ {n} /\ \A m \in DOMAIN fds' : fds'[m] = fds[m]
  BY <1>1 DEF Without, Restrict
<1>4. FdTablesOK' /\ \A m \in Fd \ {n} : FdSame(m)
  BY <1>0, <1>1, <1>3 DEF FdTypeOK, FdTablesOK, FdSame
<1>5. n \in raced \/ FdAtRest(n)'
  <2>1. n \in raced \/ FdClosing(n)
    BY <1>0, <1>1, <1>2 DEF FdAtWork
  <2> QED BY <1>1, <2>1 DEF FdClosing, FdAtRest
<1>6. /\ \A m \in Changes(c) \ raced' : m \in Changes(AtRest) \/ FdAtRest(m)'
      /\ \A m \in {n} \ raced' : m \in Changes(AtRest) \/ FdAtRest(m)'
  BY <1>1, <1>2, <1>5
<1>7. /\ {n} \subseteq Named(c) /\ Named(AtRest) \subseteq Named(c)
      /\ raced \subseteq raced' /\ raced' \subseteq raced \cup Named(c)
  BY <1>1, <1>2, RestFacts
<1> QED BY <1>1, <1>4, <1>6, <1>7, RestFacts, FdOwn

\* dup, dup2 and fcntl(F_DUPFD): the host's part.
LEMMA DupKept ==
    ASSUME FdsInductive, NEW t \in Caller, NEW old \in Fd, NEW new \in Fd, NEW map \in BOOLEAN, NEW cloexec \in BOOLEAN,
           Dup(t, old, new, map, cloexec), ~Busy(t, new) \/ new \in Free
    PROVE  FdsInductive'
<1> SUFFICES ASSUME NEW thing, thing = held[old].obj, NEW listed, listed = (map /\ held[old].listed) PROVE FdsInductive'
  OBVIOUS
<1> DEFINE d == [do |-> "register dup", on |-> {old, new}, fd |-> new, old |-> old, map |-> map,
                 obj |-> thing, listed |-> listed]
<1>0. FdTypeOK
  BY DEF FdsInductive
<1>1. /\ todo[t] = AtRest /\ old \in DOMAIN held /\ old \in DOMAIN host /\ old # new /\ ~Busy(t, old)
      /\ host' = With(host, new, [host[old] EXCEPT !.cloexec = cloexec])
      /\ raced' = IF old \in raced \/ Busy(t, new) THEN raced \cup {new} ELSE raced
      /\ held' = Without(held, new) /\ todo' = [todo EXCEPT ![t] = d]
      /\ UNCHANGED <<fds, dirs, mapper>>
  BY DEF Dup, Then
<1>2. thing \in Obj /\ listed \in BOOLEAN /\ (listed => map /\ held[old].listed)
  BY <1>0, <1>1 DEF FdTypeOK, FdTablesOK
<1>3. /\ d \in DupCall /\ d.do = "register dup" /\ d.on = {old, new} /\ d.fd = new /\ d.old = old
      /\ d.map = map /\ d.obj = thing /\ d.listed = listed
  BY <1>2 DEF DupCall
<1> HIDE DEF d
<1>4. /\ DOMAIN host' = DOMAIN host \cup {new}
      /\ \A m \in DOMAIN host' : host'[m].obj = IF m = new THEN host[old].obj ELSE host[m].obj
  <2> DEFINE v == [host[old] EXCEPT !.cloexec = cloexec]
  <2>1. v.obj = host[old].obj
    OBVIOUS
  <2> HIDE DEF v
  <2>2. DOMAIN host' = DOMAIN host \cup {new} /\ \A m \in DOMAIN host' : host'[m] = IF m = new THEN v ELSE host[m]
    BY <1>1 DEF With, WithAll, v
  <2> QED BY <2>1, <2>2
<1>5. DOMAIN held' = DOMAIN held \ {new} /\ \A m \in DOMAIN held' : held'[m] = held[m]
  BY <1>1 DEF Without, Restrict
<1>6. FdTablesOK'
  BY <1>0, <1>1, <1>4, <1>5 DEF FdTypeOK, FdTablesOK
<1>7. \A m \in Fd \ {new} : FdSame(m)
  BY <1>1, <1>4, <1>5 DEF FdSame
<1>8. FdCallOK(d) /\ Named(d) = {old, new} /\ Changes(d) = {new}
  BY <1>1, <1>3 DEF FdCallOK, Named, Changes
<1>9. ASSUME NEW u \in Caller \ {t}, NEW m \in Named(todo[u])
      PROVE  /\ m \in {new} \cup Named(d) => m \in raced'
             /\ m \in raced' \ raced => m \notin DOMAIN host
  <2>1. Busy(t, m)
    BY <1>0, BusyNames
  <2>2. m # old
    BY <1>1, <2>1
  <2>3. m = new => m \in raced' /\ m \notin DOMAIN host
    BY <1>1, <2>1 DEF Free
  <2> QED BY <1>1, <1>8, <2>2, <2>3
<1>10. FdAtWork(d)'
  <2> SUFFICES ASSUME new \notin raced' PROVE FdDuplicating(d)'
    BY <1>3 DEF FdAtWork
  <2>1. old \notin raced /\ old \notin raced'
    BY <1>1
  <2>2. FdAtRest(old)
    BY <1>1, <2>1, HeldAtRest
  <2>3. host[old].obj = thing
    BY <1>1, <2>2 DEF FdAtRest
  <2>4. old \in DOMAIN held' /\ held'[old] = held[old]
    BY <1>1, <1>5
  <2> QED BY <1>2, <1>3, <1>4, <2>1, <2>3, <2>4 DEF FdDuplicating
<1>11. \A m \in ({new} \cup Changes(todo[t])) \ raced' : m \in Changes(d) \/ FdAtRest(m)'
  BY <1>1, <1>8, RestFacts
<1>12. raced \subseteq raced'
  BY <1>1
<1> QED BY <1>1, <1>3, <1>6, <1>7, <1>8, <1>9, <1>10, <1>11, <1>12, FdFrame

\* dup: the server copies what it knows of the number.
LEMMA RegisterDupFdKept ==
    ASSUME FdsInductive, NEW t \in Caller, RegisterDupFd(t)
    PROVE  FdsInductive'
<1> SUFFICES ASSUME NEW c, c = todo[t] PROVE FdsInductive'
  OBVIOUS
<1>0. FdTypeOK /\ FdCallOK(c) /\ FdAtWork(c)
  BY DEF FdsInductive
<1> DEFINE n == c.fd
           o == c.old
           b == [c EXCEPT !.do = "dupdir"]
           e == [do |-> "open", steps |-> <<>>, on |-> {c.fd}, obj |-> c.obj, listed |-> c.listed]
           d == IF c.map THEN b ELSE e
<1>1. /\ c.do = "register dup" /\ fds' = WithDup(o, n) /\ todo' = [todo EXCEPT ![t] = d]
      /\ UNCHANGED <<host, dirs, mapper, held, raced>>
  BY DEF RegisterDupFd, Then
<1>2. c \in DupCall
  BY <1>0, <1>1, CallKinds
<1>3. /\ c.on = {o, n} /\ o # n /\ n \in Fd /\ c.map \in BOOLEAN /\ c.obj \in Obj /\ c.listed \in BOOLEAN
      /\ Named(c) = {o, n} /\ Changes(c) = {n}
  BY <1>0, <1>1, <1>2 DEF FdCallOK, DupCall, Named, Changes
<1>4. /\ DOMAIN fds \subseteq DOMAIN fds' /\ DOMAIN fds' \subseteq DOMAIN fds \cup {n}
      /\ \A m \in DOMAIN fds \ {n} : fds'[m] = fds[m]
      /\ o \in DOMAIN fds => n \in DOMAIN fds' /\ fds'[n] = fds[o]
  <2>1. CASE o \in DOMAIN fds
    <3>1. fds' = With(fds, n, fds[o])
      BY <1>1, <2>1 DEF WithDup
    <3> QED BY <3>1 DEF With, WithAll
  <2>2. CASE o \notin DOMAIN fds
    <3>1. fds' = fds
      BY <1>1, <2>2 DEF WithDup
    <3> QED BY <2>2, <3>1
  <2> QED BY <2>1, <2>2
<1>5. FdTablesOK'
  BY <1>0, <1>1 DEF FdTypeOK, FdTablesOK
<1>6. \A m \in Fd \ {n} : FdSame(m)
  BY <1>1, <1>4 DEF FdSame
<1>7. ASSUME n \notin raced
      PROVE  /\ FdDuplicating(c)
             /\ c.obj # "socket" => n \in DOMAIN fds' /\ fds'[n] = c.obj
  <2>1. FdDuplicating(c)
    BY <1>0, <1>1, <1>7 DEF FdAtWork
  <2>2. FdAtRest(o)
    BY <1>1, <1>7, CopiedAtRest
  <2> QED BY <1>4, <2>1, <2>2 DEF FdDuplicating, FdAtRest
<1>8. CASE c.map
  <2>1. /\ d = b /\ d \in DupCall /\ d.do = "dupdir" /\ d.on = c.on /\ d.fd = n /\ d.old = o
        /\ d.map = c.map /\ d.obj = c.obj /\ d.listed = c.listed
    BY <1>2, <1>8 DEF DupCall
  <2> HIDE DEF d, b, e, n, o
  <2>2. FdCallOK(d) /\ Named(d) = {o, n} /\ Changes(d) = {n}
    BY <1>3, <2>1 DEF FdCallOK, Named, Changes
  <2>3. FdAtWork(d)'
    <3>1. CASE n \in raced
      BY <1>1, <2>1, <3>1 DEF FdAtWork
    <3>2. CASE n \notin raced
      <4>1. /\ FdDuplicating(c)
            /\ c.obj # "socket" => n \in DOMAIN fds' /\ fds'[n] = c.obj
        BY <1>7, <3>2
      <4>2. c.fd = n /\ c.old = o
        BY DEF n, o
      <4>3. FdDuplicating(d)'
        BY <1>1, <2>1, <4>1, <4>2 DEF FdDuplicating
      <4> QED BY <2>1, <4>3 DEF FdAtWork
    <3> QED BY <3>1, <3>2
  <2>4. /\ \A m \in Changes(c) \ raced' : m \in Changes(d) \/ FdAtRest(m)'
        /\ \A m \in {n} \ raced' : m \in Changes(d) \/ FdAtRest(m)'
    BY <1>3, <2>2
  <2>5. /\ {n} \subseteq Named(c) /\ Named(d) \subseteq Named(c)
        /\ raced \subseteq raced' /\ raced' \subseteq raced \cup Named(c)
    BY <1>1, <1>3, <2>2
  <2> QED BY <1>1, <1>5, <1>6, <2>1, <2>2, <2>3, <2>4, <2>5, FdOwn
<1>9. CASE ~c.map
  <2>1. /\ d = e /\ d \in OpenCall /\ d.do = "open" /\ d.steps = <<>> /\ d.on = {n} /\ d.obj = c.obj
        /\ d.listed = c.listed
    BY <1>3, <1>9 DEF OpenCall
  <2> HIDE DEF d, b, e
  <2>2. FdCallOK(d) /\ Named(d) = {n} /\ Changes(d) = {n}
    BY <2>1 DEF FdCallOK, Named, Changes
  <2>3. FdAtWork(d)'
    <3> SUFFICES ASSUME n \notin raced PROVE FdOpening(d, n)'
      BY <1>1, <2>1 DEF FdAtWork
    <3>1. /\ FdDuplicating(c)
          /\ c.obj # "socket" => n \in DOMAIN fds' /\ fds'[n] = c.obj
      BY <1>7
    <3>2. ~c.listed
      BY <1>9, <3>1 DEF FdDuplicating
    <3>3. ~Remains(d, "opendir", n)'
      BY <2>1 DEF Remains
    <3> QED BY <1>1, <2>1, <3>1, <3>2, <3>3 DEF FdDuplicating, FdOpening
  <2>4. /\ \A m \in Changes(c) \ raced' : m \in Changes(d) \/ FdAtRest(m)'
        /\ \A m \in {n} \ raced' : m \in Changes(d) \/ FdAtRest(m)'
    BY <1>3, <2>2
  <2>5. /\ {n} \subseteq Named(c) /\ Named(d) \subseteq Named(c)
        /\ raced \subseteq raced' /\ raced' \subseteq raced \cup Named(c)
    BY <1>1, <1>3, <2>2
  <2> QED BY <1>1, <1>5, <1>6, <2>1, <2>2, <2>3, <2>4, <2>5, FdOwn
<1> QED BY <1>8, <1>9

\* dupdir: the handle of a number that was overwritten goes, and the descriptor
\* with it.
LEMMA DupdirCloseKept ==
    ASSUME FdsInductive, NEW t \in Caller, DupdirClose(t)
    PROVE  FdsInductive'
<1> SUFFICES ASSUME NEW c, c = todo[t], NEW thing, thing = IF c.fd \in DOMAIN host THEN host[c.fd].obj ELSE c.obj
             PROVE  FdsInductive'
  OBVIOUS
<1>0. FdTypeOK /\ FdCallOK(c) /\ FdAtWork(c)
  BY DEF FdsInductive
<1> DEFINE n == c.fd
           o == c.old
           d == [c EXCEPT !.do = "put back", !.obj = thing]
<1>1. /\ c.do = "dupdir" /\ dirs' = dirs \ {n} /\ host' = Without(host, n) /\ todo' = [todo EXCEPT ![t] = d]
      /\ UNCHANGED <<fds, held, raced>>
  BY DEF DupdirClose, Then
<1>2. c \in DupCall
  BY <1>0, <1>1, CallKinds
<1>3. /\ c.on = {o, n} /\ o # n /\ n \in Fd /\ Named(c) = {o, n} /\ Changes(c) = {n} /\ thing \in Obj
  <2>1. /\ c.on = {o, n} /\ o # n /\ n \in Fd /\ c.obj \in Obj /\ Named(c) = {o, n} /\ Changes(c) = {n}
    BY <1>0, <1>1, <1>2 DEF FdCallOK, DupCall, Named, Changes
  <2>2. n \in DOMAIN host => host[n].obj \in Obj
    BY <1>0 DEF FdTypeOK, FdTablesOK
  <2> QED BY <2>1, <2>2
<1>4. /\ d \in DupCall /\ d.do = "put back" /\ d.on = c.on /\ d.fd = n /\ d.old = o
      /\ d.map = c.map /\ d.obj = thing /\ d.listed = c.listed
  BY <1>2, <1>3 DEF DupCall
<1>5. c.fd = n /\ c.old = o
  OBVIOUS
<1> HIDE DEF d, n, o
<1>6. DOMAIN host' = DOMAIN host \ {n} /\ \A m \in DOMAIN host' : host'[m] = host[m]
  BY <1>1 DEF Without, Restrict
<1>7. FdTablesOK' /\ \A m \in Fd \ {n} : FdSame(m)
  BY <1>0, <1>1, <1>6 DEF FdTypeOK, FdTablesOK, FdSame
<1>8. FdCallOK(d) /\ Named(d) = {o, n} /\ Changes(d) = {n}
  BY <1>3, <1>4 DEF FdCallOK, Named, Changes
<1>9. FdAtWork(d)'
  <2>1. CASE n \in raced
    BY <1>1, <1>4, <2>1 DEF FdAtWork
  <2>2. CASE n \notin raced
    <3>1. FdDuplicating(c)
      BY <1>0, <1>1, <1>5, <2>2 DEF FdAtWork
    <3>2. thing = c.obj
      BY <1>1, <1>5, <3>1 DEF FdDuplicating
    <3>3. FdDuplicating(d)'
      BY <1>1, <1>4, <1>5, <3>1, <3>2 DEF FdDuplicating
    <3> QED BY <1>4, <3>3 DEF FdAtWork
  <2> QED BY <2>1, <2>2
<1>10. /\ \A m \in Changes(c) \ raced' : m \in Changes(d) \/ FdAtRest(m)'
       /\ \A m \in {n} \ raced' : m \in Changes(d) \/ FdAtRest(m)'
  BY <1>3, <1>8
<1>11. /\ {n} \subseteq Named(c) /\ Named(d) \subseteq Named(c)
       /\ raced \subseteq raced' /\ raced' \subseteq raced \cup Named(c)
  BY <1>1, <1>3, <1>8
<1> QED BY <1>1, <1>4, <1>7, <1>8, <1>9, <1>10, <1>11, FdOwn

\* dupdir: the descriptor is put back.
LEMMA DupdirPutBackKept ==
    ASSUME FdsInductive, NEW t \in Caller, DupdirPutBack(t)
    PROVE  FdsInductive'
<1> SUFFICES ASSUME NEW c, c = todo[t] PROVE FdsInductive'
  OBVIOUS
<1>0. FdTypeOK /\ FdCallOK(c) /\ FdAtWork(c)
  BY DEF FdsInductive
<1> DEFINE n == c.fd
           o == c.old
           v == [obj |-> c.obj, cloexec |-> FALSE]
           d == [c EXCEPT !.do = "dupdir"]
<1>1. /\ c.do = "put back" /\ host' = With(host, n, v) /\ raced' = raced \cup ({n} \cap DOMAIN host)
      /\ todo' = [todo EXCEPT ![t] = d] /\ UNCHANGED <<fds, dirs, held>>
  BY DEF DupdirPutBack, Then
<1>2. c \in DupCall
  BY <1>0, <1>1, CallKinds
<1>3. /\ c.on = {o, n} /\ o # n /\ n \in Fd /\ c.obj \in Obj /\ Named(c) = {o, n} /\ Changes(c) = {n}
  BY <1>0, <1>1, <1>2 DEF FdCallOK, DupCall, Named, Changes
<1>4. /\ d \in DupCall /\ d.do = "dupdir" /\ d.on = c.on /\ d.fd = n /\ d.old = o
      /\ d.map = c.map /\ d.obj = c.obj /\ d.listed = c.listed
  BY <1>2 DEF DupCall
<1>5. c.fd = n /\ c.old = o /\ v.obj = c.obj
  OBVIOUS
<1> HIDE DEF d, n, o, v
<1>6. DOMAIN host' = DOMAIN host \cup {n} /\ \A m \in DOMAIN host' : host'[m] = IF m = n THEN v ELSE host[m]
  BY <1>1 DEF With, WithAll
<1>7. FdTablesOK' /\ \A m \in Fd \ {n} : FdSame(m)
  <2>1. DOMAIN host' \subseteq Fd
    BY <1>0, <1>3, <1>6 DEF FdTypeOK, FdTablesOK
  <2>2. ASSUME NEW m \in DOMAIN host' PROVE host'[m].obj \in Obj
    <3>1. CASE m = n
      BY <1>3, <1>5, <1>6, <3>1
    <3>2. CASE m # n
      BY <1>0, <1>6, <3>2 DEF FdTypeOK, FdTablesOK
    <3> QED BY <3>1, <3>2
  <2>3. FdTablesOK'
    BY <1>0, <1>1, <2>1, <2>2 DEF FdTypeOK, FdTablesOK
  <2>4. \A m \in Fd \ {n} : FdSame(m)
    BY <1>1, <1>6 DEF FdSame
  <2> QED BY <2>3, <2>4
<1>8. FdCallOK(d) /\ Named(d) = {o, n} /\ Changes(d) = {n}
  BY <1>3, <1>4 DEF FdCallOK, Named, Changes
<1>9. FdAtWork(d)'
  <2>1. CASE n \in raced'
    BY <1>4, <2>1 DEF FdAtWork
  <2>2. CASE n \notin raced'
    <3>1. FdDuplicating(c)
      BY <1>0, <1>1, <1>5, <2>2 DEF FdAtWork
    <3>2. host'[n].obj = c.obj /\ n \in DOMAIN host' /\ raced' = raced
      BY <1>1, <1>5, <1>6, <2>2
    <3>3. FdDuplicating(d)'
      BY <1>1, <1>4, <1>5, <3>1, <3>2 DEF FdDuplicating
    <3> QED BY <1>4, <3>3 DEF FdAtWork
  <2> QED BY <2>1, <2>2
<1>10. /\ \A m \in Changes(c) \ raced' : m \in Changes(d) \/ FdAtRest(m)'
       /\ \A m \in {n} \ raced' : m \in Changes(d) \/ FdAtRest(m)'
  BY <1>3, <1>8
<1>11. /\ {n} \subseteq Named(c) /\ Named(d) \subseteq Named(c)
       /\ raced \subseteq raced' /\ raced' \subseteq raced \cup Named(c)
  BY <1>1, <1>3, <1>8
<1> QED BY <1>1, <1>4, <1>7, <1>8, <1>9, <1>10, <1>11, FdOwn

\* dupdir: the copy of a directory gets a handle of its own.
LEMMA DupdirOpenKept ==
    ASSUME FdsInductive, NEW t \in Caller, DupdirOpen(t)
    PROVE  FdsInductive'
<1> SUFFICES ASSUME NEW c, c = todo[t] PROVE FdsInductive'
  OBVIOUS
<1>0. FdTypeOK /\ FdCallOK(c) /\ FdAtWork(c)
  BY DEF FdsInductive
<1> DEFINE n == c.fd
           o == c.old
           d == [do |-> "open", steps |-> <<>>, on |-> {c.fd}, obj |-> c.obj, listed |-> c.listed]
<1>1. /\ c.do = "dupdir" /\ n \notin dirs
      /\ IF o \in dirs THEN Listed(n) ELSE UNCHANGED <<dirs, host>>
      /\ todo' = [todo EXCEPT ![t] = d] /\ UNCHANGED <<fds, held, raced>>
  BY DEF DupdirOpen, Then
<1>2. c \in DupCall
  BY <1>0, <1>1, CallKinds
<1>3. /\ c.on = {o, n} /\ o # n /\ n \in Fd /\ c.obj \in Obj /\ c.listed \in BOOLEAN
      /\ Named(c) = {o, n} /\ Changes(c) = {n}
  BY <1>0, <1>1, <1>2 DEF FdCallOK, DupCall, Named, Changes
<1>4. d \in OpenCall /\ d.do = "open" /\ d.steps = <<>> /\ d.on = {n} /\ d.obj = c.obj /\ d.listed = c.listed
  BY <1>3 DEF OpenCall
<1>5. c.fd = n /\ c.old = o
  OBVIOUS
<1> HIDE DEF d, n, o
<1>6. /\ host' = host
      /\ \A m : m # n => (m \in dirs' <=> m \in dirs)
      /\ o \in dirs /\ n \in DOMAIN host /\ host[n].obj = "dir" => n \in dirs'
  <2>1. CASE o \in dirs
    BY <1>1, <2>1 DEF Listed
  <2>2. CASE o \notin dirs
    BY <1>1, <2>2
  <2> QED BY <2>1, <2>2
<1>7. FdTablesOK' /\ \A m \in Fd \ {n} : FdSame(m)
  BY <1>0, <1>1, <1>6 DEF FdTypeOK, FdTablesOK, FdSame
<1>8. FdCallOK(d) /\ Named(d) = {n} /\ Changes(d) = {n}
  BY <1>3, <1>4 DEF FdCallOK, Named, Changes
<1>9. FdAtWork(d)'
  <2>1. CASE n \in raced
    BY <1>1, <1>4, <2>1 DEF FdAtWork
  <2>2. CASE n \notin raced
    <3>1. FdDuplicating(c) /\ FdAtRest(o)
      <4>1. FdDuplicating(c)
        BY <1>0, <1>1, <1>5, <2>2 DEF FdAtWork
      <4>2. FdAtRest(o)
        BY <1>1, <1>5, <2>2, CopiedAtRest
      <4> QED BY <4>1, <4>2
    <3>2. c.listed => c.obj = "dir" /\ o \in dirs
      BY <1>5, <3>1 DEF FdDuplicating, FdAtRest
    <3>3. ~Remains(d, "opendir", n)'
      BY <1>4 DEF Remains
    <3>4. FdOpening(d, n)'
      BY <1>1, <1>4, <1>5, <1>6, <3>1, <3>2, <3>3 DEF FdDuplicating, FdOpening
    <3> QED BY <1>4, <3>4 DEF FdAtWork
  <2> QED BY <2>1, <2>2
<1>10. /\ \A m \in Changes(c) \ raced' : m \in Changes(d) \/ FdAtRest(m)'
       /\ \A m \in {n} \ raced' : m \in Changes(d) \/ FdAtRest(m)'
  BY <1>3, <1>8
<1>11. /\ {n} \subseteq Named(c) /\ Named(d) \subseteq Named(c)
       /\ raced \subseteq raced' /\ raced' \subseteq raced \cup Named(c)
  BY <1>1, <1>3, <1>8
<1> QED BY <1>1, <1>4, <1>7, <1>8, <1>9, <1>10, <1>11, FdOwn

\* fcntl(F_SETFD) changes nothing else.
LEMMA SetCloexecKept ==
    ASSUME FdsInductive, NEW t \in Caller, NEW n \in Fd, SetCloexec(t, n)
    PROVE  FdsInductive'
<1>0. FdTypeOK
  BY DEF FdsInductive
<1>1. PICK cloexec \in BOOLEAN : host' = [host EXCEPT ![n].cloexec = cloexec]
  BY DEF SetCloexec
<1>2. todo[t] = AtRest /\ n \in DOMAIN host /\ UNCHANGED <<fds, dirs, mapper, todo, held, raced>>
  BY DEF SetCloexec
<1>3. DOMAIN host' = DOMAIN host /\ \A m \in DOMAIN host : host'[m].obj = host[m].obj
  <2>1. \A m \in DOMAIN host : host'[m] = IF m = n THEN [host[n] EXCEPT !.cloexec = cloexec] ELSE host[m]
    BY <1>1
  <2>2. [host[n] EXCEPT !.cloexec = cloexec].obj = host[n].obj
    OBVIOUS
  <2> QED BY <1>1, <2>1, <2>2
<1>4. FdTablesOK' /\ \A m \in Fd \ {} : FdSame(m)
  BY <1>0, <1>2, <1>3 DEF FdTypeOK, FdTablesOK, FdSame
<1>5. todo' = [todo EXCEPT ![t] = AtRest]
  BY <1>0, <1>2 DEF FdTypeOK
<1>6. \A m \in ({} \cup Changes(todo[t])) \ raced' : m \in Changes(AtRest) \/ FdAtRest(m)'
  BY <1>2, RestFacts
<1>7. raced \subseteq raced' /\ raced' \ raced = {}
  BY <1>2
<1> QED BY <1>4, <1>5, <1>6, <1>7, RestFacts, FdFrame

\* exec: what is marked is closed, and the loader starts over.
LEMMA ExecFdsKept ==
    ASSUME FdsInductive, NEW t \in Caller, ExecFds(t)
    PROVE  FdsInductive'
<1> DEFINE kept == {n \in DOMAIN host : ~host[n].cloexec}
<1>0. FdTypeOK
  BY DEF FdsInductive
<1>1. /\ \A u \in Caller : todo[u] = AtRest
      /\ host' = Restrict(host, kept)
      /\ fds' = [n \in DOMAIN fds \cup kept |-> IF n \in kept THEN host[n].obj ELSE fds[n]]
      /\ dirs' = {}
      /\ held' = [n \in DOMAIN held \cap kept |-> [held[n] EXCEPT !.listed = FALSE]]
      /\ raced' = {n \in raced : n \in DOMAIN host /\ n \in DOMAIN held /\ host[n].obj # held[n].obj}
      /\ UNCHANGED <<mapper, todo>>
  BY DEF ExecFds
<1>2. kept \subseteq DOMAIN host
  OBVIOUS
<1> HIDE DEF kept
<1>3. /\ DOMAIN host' = kept /\ \A n \in kept : host'[n] = host[n]
      /\ \A n \in kept : n \in DOMAIN fds' /\ fds'[n] = host[n].obj
  BY <1>1 DEF Restrict
<1>4. DOMAIN held' = DOMAIN held \cap kept
      /\ \A n \in DOMAIN held \cap kept : held'[n].obj = held[n].obj /\ held'[n].listed = FALSE
  <2>1. /\ DOMAIN held' = DOMAIN held \cap kept
        /\ \A n \in DOMAIN held \cap kept : held'[n] = [held[n] EXCEPT !.listed = FALSE]
    BY <1>1
  <2>2. ASSUME NEW n \in DOMAIN held \cap kept
        PROVE  held'[n].obj = held[n].obj /\ held'[n].listed = FALSE
    <3>1. held[n] \in [obj : Obj, listed : BOOLEAN]
      BY <1>0 DEF FdTypeOK, FdTablesOK
    <3> QED BY <2>1, <3>1
  <2> QED BY <2>1, <2>2
<1>5. FdTypeOK'
  <2>1. DOMAIN host' \subseteq Fd /\ \A n \in DOMAIN host' : host'[n].obj \in Obj
    BY <1>0, <1>2, <1>3 DEF FdTypeOK, FdTablesOK
  <2>2. DOMAIN held' \subseteq Fd /\ \A n \in DOMAIN held' : held'[n] \in [obj : Obj, listed : BOOLEAN]
    BY <1>0, <1>1 DEF FdTypeOK, FdTablesOK
  <2> QED BY <1>0, <1>1, <2>1, <2>2 DEF FdTypeOK, FdTablesOK
<1>6. FdAlone' /\ \A u \in Caller : FdCallOK(todo[u])' /\ FdAtWork(todo[u])'
  <2>1. \A u \in Caller : todo'[u] = AtRest
    BY <1>1
  <2>2. ASSUME NEW u \in Caller PROVE FdCallOK(todo[u])' /\ FdAtWork(todo[u])'
    <3>1. todo'[u].do = "idle"
      BY <2>1 DEF AtRest
    <3> QED BY <3>1 DEF FdCallOK, FdAtWork
  <2>3. FdAlone'
    BY <2>1, RestFacts DEF FdAlone
  <2> QED BY <2>2, <2>3
<1>7. ASSUME NEW n \in Fd \ raced' PROVE FdAtRest(n)'
  <2>1. ASSUME n \in DOMAIN held' PROVE host[n].obj = held[n].obj
    <3>1. n \in DOMAIN host /\ n \in DOMAIN held
      BY <1>2, <1>4, <2>1
    <3>2. CASE n \in raced
      BY <1>1, <1>7, <3>1, <3>2
    <3>3. CASE n \notin raced
      <4>1. ~Changing(n)
        BY <1>1, RestFacts DEF Changing
      <4>2. FdAtRest(n)
        BY <3>3, <4>1 DEF FdsInductive
      <4> QED BY <3>1, <4>2 DEF FdAtRest
    <3> QED BY <3>2, <3>3
  <2> QED BY <1>1, <1>3, <1>4, <2>1 DEF FdAtRest
<1> QED BY <1>5, <1>6, <1>7 DEF FdsInductive

\* HeldAgrees, for any number of threads and descriptors: a number that a guest
\* holds, that no call is at work on and that was not given out inside another
\* call for it, is on the host, at the server and in the loader's table what the
\* guest was told.  (_moni_open, _moni_close, _moni_dup, loader_dupdir)
THEOREM DescriptorsAgree == DescriptorsSpec => []HeldAgrees
<1>1. DescriptorsInit => FdsInductive
  <2> SUFFICES ASSUME DescriptorsInit PROVE FdsInductive
    OBVIOUS
  <2>1. \A t \in Caller : todo[t] = AtRest
    BY DEF DescriptorsInit
  <2>2. DOMAIN host = {} /\ DOMAIN held = {} /\ dirs = {} /\ todo = [t \in Caller |-> AtRest]
    BY DEF DescriptorsInit
  <2>3. FdTypeOK
    BY <2>2 DEF FdTypeOK, FdTablesOK
  <2>4. FdAlone /\ \A t \in Caller : FdCallOK(todo[t]) /\ FdAtWork(todo[t])
    BY <2>1, RestFacts DEF FdAlone
  <2>5. \A n \in Fd \ raced : FdAtRest(n)
    BY <2>2 DEF FdAtRest
  <2> QED BY <2>3, <2>4, <2>5 DEF FdsInductive
<1>2. FdsInductive /\ [DescriptorsStep]_descriptorVars => FdsInductive'
  <2> SUFFICES ASSUME FdsInductive, [DescriptorsStep]_descriptorVars PROVE FdsInductive'
    OBVIOUS
  <2>1. CASE UNCHANGED descriptorVars
    <3>1. UNCHANGED <<host, fds, dirs, todo, held, raced>>
      BY <2>1 DEF descriptorVars
    <3>2. FdTypeOK' /\ FdAlone'
      BY <3>1 DEF FdsInductive, FdTypeOK, FdTablesOK, FdAlone
    <3>3. ASSUME NEW t \in Caller PROVE FdCallOK(todo[t])' /\ FdAtWork(todo[t])'
      <4> SUFFICES ASSUME NEW c, c = todo[t] PROVE FdCallOK(c)' /\ FdAtWork(c)'
        BY <3>1
      <4>1. FdCallOK(c) /\ FdAtWork(c)
        BY DEF FdsInductive
      <4>2. FdCallOK(c)'
        BY <4>1 DEF FdCallOK
      <4>3. \A n : FdOpening(c, n) <=> FdOpening(c, n)'
        BY <3>1 DEF FdOpening, Remains
      <4>4. \A n : FdClosing(n) <=> FdClosing(n)'
        BY <3>1 DEF FdClosing
      <4>5. FdDuplicating(c) <=> FdDuplicating(c)'
        BY <3>1 DEF FdDuplicating
      <4>6. FdAtWork(c)'
        BY <3>1, <4>1, <4>3, <4>4, <4>5 DEF FdAtWork
      <4> QED BY <4>2, <4>6
    <3>4. ASSUME NEW n \in Fd \ raced' PROVE Changing(n)' \/ FdAtRest(n)'
      BY <3>1, <3>4 DEF FdsInductive, Changing, FdAtRest
    <3> QED BY <3>2, <3>3, <3>4 DEF FdsInductive
  <2>2. CASE DescriptorsStep
    <3>1. PICK t \in Caller :
            \/ \E thing \in Obj, cloexec \in BOOLEAN : OpenFd(t, thing, cloexec)
            \/ \E cloexec \in BOOLEAN : CreatePipe(t, cloexec)
            \/ RegisterFd(t) \/ Opendir(t) \/ Return(t)
            \/ \E n \in Fd :
                 \/ Close(t, n) \/ SetCloexec(t, n)
                 \/ \E new \in Fd, cloexec \in BOOLEAN : ~Busy(t, new) /\ Dup(t, n, new, TRUE, cloexec)
                 \/ Free # {} /\ \E map, cloexec \in BOOLEAN : ~(map /\ cloexec) /\ Dup(t, n, Min(Free), map, cloexec)
            \/ UnregisterFd(t) \/ RegisterDupFd(t)
            \/ DupdirClose(t) \/ DupdirPutBack(t) \/ DupdirOpen(t)
            \/ ExecFds(t)
      BY <2>2 DEF DescriptorsStep
    <3>2. CASE \E n \in Fd : Free # {} /\ \E map, cloexec \in BOOLEAN : ~(map /\ cloexec) /\ Dup(t, n, Min(Free), map, cloexec)
      <4>1. PICK n \in Fd, map \in BOOLEAN, cloexec \in BOOLEAN : Dup(t, n, Min(Free), map, cloexec)
        BY <3>2
      <4>2. Min(Free) \in Free /\ Min(Free) \in Fd
        <5>1. Free # {} /\ Free \subseteq Nat
          BY <3>2, DescriptorsAssumption DEF Free
        <5>2. Min(Free) \in Free
          BY <5>1, LowestIn
        <5> QED BY <5>2 DEF Free
      <4> SUFFICES ASSUME NEW new, new = Min(Free) PROVE FdsInductive'
        OBVIOUS
      <4> QED BY <4>1, <4>2, DupKept
    <3>3. CASE \E n \in Fd : \E new \in Fd, cloexec \in BOOLEAN : ~Busy(t, new) /\ Dup(t, n, new, TRUE, cloexec)
      BY <3>3, DupKept
    <3>4. CASE \E n \in Fd : Close(t, n) \/ SetCloexec(t, n)
      BY <3>4, CloseKept, SetCloexecKept
    <3>5. CASE \/ \E thing \in Obj, cloexec \in BOOLEAN : OpenFd(t, thing, cloexec)
               \/ \E cloexec \in BOOLEAN : CreatePipe(t, cloexec)
      BY <3>5, OpenFdKept, CreatePipeKept
    <3>6. CASE \/ RegisterFd(t) \/ Opendir(t) \/ Return(t) \/ UnregisterFd(t) \/ RegisterDupFd(t)
               \/ DupdirClose(t) \/ DupdirPutBack(t) \/ DupdirOpen(t) \/ ExecFds(t)
      BY <3>6, RegisterFdKept, OpendirKept, ReturnKept, UnregisterFdKept, RegisterDupFdKept,
         DupdirCloseKept, DupdirPutBackKept, DupdirOpenKept, ExecFdsKept
    <3> QED BY <3>1, <3>2, <3>3, <3>4, <3>5, <3>6
  <2> QED BY <2>1, <2>2
<1>3. FdsInductive => HeldAgrees
  <2> SUFFICES ASSUME FdsInductive, NEW n \in DOMAIN held, n \notin raced,
                      \A t \in Caller : todo[t] # AtRest => n \notin todo[t].on
               PROVE  /\ n \in DOMAIN host /\ host[n].obj = held[n].obj
                      /\ held[n].obj # "socket" => n \in DOMAIN fds /\ fds[n] = held[n].obj
                      /\ held[n].listed => n \in dirs
    BY DEF HeldAgrees
  <2>1. FdTypeOK /\ n \in Fd
    BY DEF FdsInductive, FdTypeOK, FdTablesOK
  <2>2. \A t \in Caller : n \notin Named(todo[t])
    BY <2>1, CallKinds DEF Named
  <2>3. ~Changing(n)
    BY <2>1, <2>2, ChangesNamed DEF FdsInductive, Changing
  <2>4. FdAtRest(n)
    BY <2>1, <2>3 DEF FdsInductive
  <2> QED BY <2>4 DEF FdAtRest
<1> QED BY <1>1, <1>2, <1>3, PTL DEF DescriptorsSpec

-----------------------------------------------------------------------------
(* Event queues. *)

\* Induction over numbers is by the least one for which a claim fails.
LEMMA LeastNat ==
    ASSUME NEW S \in SUBSET Nat, S # {}
    PROVE  \E x \in S : \A y \in S : x <= y
<1> DEFINE LT == OpToRel(<, Nat)
<1>1. IsWellFoundedOn(LT, Nat)
  BY NatLessThanWellFounded, Zenon
<1>2. \A x, y \in Nat : y < x => <<y, x>> \in LT
  BY DEF OpToRel
<1> HIDE DEF LT
<1>3. \E x \in S : \A y \in S : ~ (<<y, x>> \in LT)
  BY <1>1, WFMin
<1>4. PICK x \in S : \A y \in S : ~ (<<y, x>> \in LT)
  BY <1>3
<1>5. \A y \in S : ~ (y < x)
  BY <1>2, <1>4
<1> QED BY <1>5

Entry == [record : Records \cup {NoRecord}, armed : BOOLEAN, oneShot : BOOLEAN]
InUse == [queueFd : Queue, objectFd : WaitObject, oneShot : BOOLEAN]

\* A record is free or of one queue and object, and no two are of the same.
RecordsOK(rs) ==
    /\ rs \in [Records -> InUse \cup {FreeRecord}]
    /\ \A r, x \in Records :
          /\ rs[r] # FreeRecord
          /\ rs[r].queueFd = rs[x].queueFd
          /\ rs[r].objectFd = rs[x].objectFd
          => r = x

\* The free list has free records of the pages that are mapped, each once.
FreeListOK(rs, free, n) ==
    /\ n \in 0 .. MaxPages
    /\ free \in Seq(Records)
    /\ \A i \in 1 .. Len(free) : free[i] <= PageRecords * n /\ rs[free[i]] = FreeRecord
    /\ \A i, j \in 1 .. Len(free) : free[i] = free[j] => i = j
    /\ \A r \in Records : r > PageRecords * n => rs[r] = FreeRecord

\* What is selected is in epoll, over descriptors that are open, with its record.
EntriesOK(rs, ep, sel) ==
    /\ ep \in [Queue \X WaitObject -> Entry]
    /\ sel \subseteq Queue \X WaitObject
    /\ \A q \in Queue, o \in WaitObject :
          /\ <<q, o>> \in sel <=> ep[<<q, o>>].record # NoRecord
          /\ ep[<<q, o>>].armed => ep[<<q, o>>].record # NoRecord
          /\ ep[<<q, o>>].record # NoRecord =>
                /\ {q, o} \subseteq openFds
                /\ rs[ep[<<q, o>>].record].queueFd = q
                /\ rs[ep[<<q, o>>].record].objectFd = o

QueueTables(rs, free, n, ep, sel, ok) ==
    [records |-> rs, sFreeList |-> free, pages |-> n, epoll |-> ep, selected |-> sel, ok |-> ok]
TablesOK(S) ==
    /\ S = QueueTables(S.records, S.sFreeList, S.pages, S.epoll, S.selected, S.ok)
    /\ RecordsOK(S.records)
    /\ FreeListOK(S.records, S.sFreeList, S.pages)
    /\ EntriesOK(S.records, S.epoll, S.selected)
    /\ S.ok \in BOOLEAN

\* What epoll_wait has returned are records of the guest.
WaitedOK ==
    /\ waited \in [Waiter -> {<< >>} \cup {<<w>> : w \in [queue : Queue, events : Seq(Records)]}]

EventsInductive == TablesOK(State) /\ WaitedOK

LEMMA NumbersNotFree ==
    /\ 0 \notin Queue /\ 0 \notin WaitObject /\ NoRecord \notin Records
    /\ FreeRecord.queueFd = 0 /\ FreeRecord.objectFd = 0
    /\ \A x \in InUse : x # FreeRecord /\ x.queueFd # 0
    /\ Records \subseteq Nat \ {0}
BY EventQueueAssumption DEF FreeRecord, InUse, Records

\* A record that is freed.
LEMMA RecordFreed ==
    ASSUME NEW rs, NEW free, NEW n, RecordsOK(rs), FreeListOK(rs, free, n),
           NEW r \in Records, rs[r] # FreeRecord
    PROVE  LET new == [rs EXCEPT ![r] = FreeRecord] IN
           RecordsOK(new) /\ FreeListOK(new, <<r>> \o free, n)
<1> DEFINE new == [rs EXCEPT ![r] = FreeRecord]
           list == <<r>> \o free
<1>1. new \in [Records -> InUse \cup {FreeRecord}]
  BY DEF RecordsOK
<1>2. \A x \in Records : new[x] = IF x = r THEN FreeRecord ELSE rs[x]
  BY DEF RecordsOK
<1>3. RecordsOK(new)
  <2> SUFFICES ASSUME NEW x \in Records, NEW y \in Records, new[x] # FreeRecord,
                      new[x].queueFd = new[y].queueFd, new[x].objectFd = new[y].objectFd
               PROVE  x = y
    BY <1>1 DEF RecordsOK
  <2>1. x # r /\ new[x] = rs[x] /\ rs[x] \in InUse
    BY <1>2 DEF RecordsOK
  <2>2. y # r
    BY <2>1, <1>2, NumbersNotFree
  <2> QED BY <2>1, <2>2, <1>2 DEF RecordsOK
<1>4. free \in Seq(Records) /\ n \in Nat
  BY DEF FreeListOK
<1>5. list \in Seq(Records) /\ Len(list) = Len(free) + 1 /\ Len(free) \in Nat
  BY <1>4
<1>6. \A i \in 1 .. Len(list) : list[i] = IF i = 1 THEN r ELSE free[i - 1]
  BY <1>4
<1>7. r <= PageRecords * n
  <2>1. r \in Nat /\ PageRecords * n \in Nat
    BY NumbersNotFree, EventQueueAssumption, <1>4
  <2> QED BY <2>1 DEF FreeListOK
<1>8. \A i \in 1 .. Len(free) : free[i] # r
  BY DEF FreeListOK
<1> HIDE DEF list, new
<1>9. \A i \in 1 .. Len(list) : list[i] <= PageRecords * n /\ new[list[i]] = FreeRecord
  <2> TAKE i \in 1 .. Len(list)
  <2>1. CASE i = 1
    BY <2>1, <1>6, <1>7, <1>2
  <2>2. CASE i # 1
    <3>1. i - 1 \in 1 .. Len(free) /\ list[i] = free[i - 1]
      BY <2>2, <1>5, <1>6
    <3>2. free[i - 1] \in Records
      BY <3>1, <1>4
    <3> QED BY <3>1, <3>2, <1>2 DEF FreeListOK
  <2> QED BY <2>1, <2>2
<1>10. \A i, j \in 1 .. Len(list) : list[i] = list[j] => i = j
  <2> TAKE i, j \in 1 .. Len(list)
  <2>1. i \in Int /\ j \in Int /\ (i # 1 => i - 1 \in 1 .. Len(free)) /\ (j # 1 => j - 1 \in 1 .. Len(free))
    BY <1>5
  <2>2. i # 1 /\ j # 1 /\ free[i - 1] = free[j - 1] => i - 1 = j - 1
    BY <2>1 DEF FreeListOK
  <2> QED BY <2>1, <2>2, <1>6, <1>8
<1>11. \A x \in Records : x > PageRecords * n => new[x] = FreeRecord
  BY <1>2 DEF FreeListOK
<1>12. FreeListOK(new, list, n)
  BY <1>5, <1>9, <1>10, <1>11 DEF FreeListOK
<1> QED BY <1>3, <1>12 DEF new, list

\* A record of one queue and object is the entry's and no other's.
LEMMA EntryDropped ==
    ASSUME NEW rs, NEW ep, NEW sel, RecordsOK(rs), EntriesOK(rs, ep, sel),
           NEW q \in Queue, NEW o \in WaitObject,
           NEW r \in Records, rs[r].queueFd = q, rs[r].objectFd = o,
           NEW ep2 \in [Queue \X WaitObject -> Entry],
           \A e \in Queue \X WaitObject : e # <<q, o>> => ep2[e] = ep[e],
           ep2[<<q, o>>].record = NoRecord, ~ ep2[<<q, o>>].armed
    PROVE  EntriesOK([rs EXCEPT ![r] = FreeRecord], ep2, sel \ {<<q, o>>})
<1> DEFINE new == [rs EXCEPT ![r] = FreeRecord]
           sel2 == sel \ {<<q, o>>}
<1>1. sel2 \subseteq Queue \X WaitObject
  BY DEF EntriesOK
<1> SUFFICES ASSUME NEW a \in Queue, NEW b \in WaitObject
             PROVE  /\ <<a, b>> \in sel2 <=> ep2[<<a, b>>].record # NoRecord
                    /\ ep2[<<a, b>>].armed => ep2[<<a, b>>].record # NoRecord
                    /\ ep2[<<a, b>>].record # NoRecord =>
                          /\ {a, b} \subseteq openFds
                          /\ new[ep2[<<a, b>>].record].queueFd = a
                          /\ new[ep2[<<a, b>>].record].objectFd = b
  BY <1>1 DEF EntriesOK
<1>2. CASE a = q /\ b = o
  BY <1>2
<1>3. CASE ~(a = q /\ b = o)
  <2>1. <<a, b>> # <<q, o>> /\ ep2[<<a, b>>] = ep[<<a, b>>]
    BY <1>3
  <2>2. /\ <<a, b>> \in sel <=> ep[<<a, b>>].record # NoRecord
        /\ ep[<<a, b>>].armed => ep[<<a, b>>].record # NoRecord
        /\ ep[<<a, b>>].record # NoRecord =>
              /\ {a, b} \subseteq openFds
              /\ rs[ep[<<a, b>>].record].queueFd = a
              /\ rs[ep[<<a, b>>].record].objectFd = b
    BY DEF EntriesOK
  <2>3. ep[<<a, b>>] \in Entry
    BY DEF EntriesOK
  <2>4. ep[<<a, b>>].record # NoRecord =>
           ep[<<a, b>>].record \in Records /\ ep[<<a, b>>].record # r
    BY <2>2, <2>3, <1>3 DEF Entry
  <2> QED BY <2>1, <2>2, <2>4 DEF RecordsOK
<1> QED BY <1>2, <1>3

\* The record of an entry is the one that a search finds.
LEMMA EntryMade ==
    ASSUME NEW rs, NEW ep, NEW sel, RecordsOK(rs), EntriesOK(rs, ep, sel),
           NEW q \in Queue, NEW o \in WaitObject, NEW once \in BOOLEAN, {q, o} \subseteq openFds,
           NEW r \in Records,
           NEW new, new = [rs EXCEPT ![r] = [queueFd |-> q, objectFd |-> o, oneShot |-> once]],
           rs[r] = FreeRecord \/ (rs[r].queueFd = q /\ rs[r].objectFd = o)
    PROVE  EntriesOK(new, [ep EXCEPT ![<<q, o>>] = [record |-> r, armed |-> TRUE, oneShot |-> once]],
                     sel \cup {<<q, o>>})
<1> DEFINE ep2 == [ep EXCEPT ![<<q, o>>] = [record |-> r, armed |-> TRUE, oneShot |-> once]]
           sel2 == sel \cup {<<q, o>>}
<1>1. sel2 \subseteq Queue \X WaitObject
  BY DEF EntriesOK
<1>2. [record |-> r, armed |-> TRUE, oneShot |-> once] \in Entry
  BY DEF Entry
<1>3. ep2 \in [Queue \X WaitObject -> Entry]
  BY <1>2 DEF EntriesOK
<1>r. r # NoRecord
  BY NumbersNotFree
<1> SUFFICES ASSUME NEW a \in Queue, NEW b \in WaitObject
             PROVE  /\ <<a, b>> \in sel2 <=> ep2[<<a, b>>].record # NoRecord
                    /\ ep2[<<a, b>>].armed => ep2[<<a, b>>].record # NoRecord
                    /\ ep2[<<a, b>>].record # NoRecord =>
                          /\ {a, b} \subseteq openFds
                          /\ new[ep2[<<a, b>>].record].queueFd = a
                          /\ new[ep2[<<a, b>>].record].objectFd = b
  BY <1>1, <1>3 DEF EntriesOK
<1>4. CASE a = q /\ b = o
  <2>1. ep2[<<a, b>>].record = r /\ <<a, b>> \in sel2
    BY <1>4 DEF EntriesOK
  <2>2. new[r].queueFd = a /\ new[r].objectFd = b
    BY <1>4 DEF RecordsOK
  <2> QED BY <2>1, <2>2, <1>r, <1>4
<1>5. CASE ~(a = q /\ b = o)
  <2>1. <<a, b>> # <<q, o>> /\ ep2[<<a, b>>] = ep[<<a, b>>] /\ (<<a, b>> \in sel2 <=> <<a, b>> \in sel)
    BY <1>5 DEF EntriesOK
  <2>2. /\ <<a, b>> \in sel <=> ep[<<a, b>>].record # NoRecord
        /\ ep[<<a, b>>].armed => ep[<<a, b>>].record # NoRecord
        /\ ep[<<a, b>>].record # NoRecord =>
              /\ {a, b} \subseteq openFds
              /\ rs[ep[<<a, b>>].record].queueFd = a
              /\ rs[ep[<<a, b>>].record].objectFd = b
    BY DEF EntriesOK
  <2>3. ep[<<a, b>>] \in Entry
    BY DEF EntriesOK
  <2>4. ep[<<a, b>>].record # NoRecord =>
           ep[<<a, b>>].record \in Records /\ ep[<<a, b>>].record # r
    BY <2>2, <2>3, <1>5, NumbersNotFree DEF Entry
  <2> QED BY <2>1, <2>2, <2>4 DEF RecordsOK
<1> QED BY <1>4, <1>5

\* The record at the head of the free list, for a queue and an object that have none.
LEMMA RecordTaken ==
    ASSUME NEW rs, NEW free, NEW n, RecordsOK(rs), FreeListOK(rs, free, n), free # << >>,
           NEW q \in Queue, NEW o \in WaitObject, NEW once \in BOOLEAN,
           \A x \in Records : ~(rs[x].queueFd = q /\ rs[x].objectFd = o)
    PROVE  LET r == Head(free)
               new == [rs EXCEPT ![r] = [queueFd |-> q, objectFd |-> o, oneShot |-> once]]
           IN  /\ r \in Records /\ rs[r] = FreeRecord
               /\ RecordsOK(new) /\ FreeListOK(new, Tail(free), n)
<1> DEFINE r == Head(free)
           made == [queueFd |-> q, objectFd |-> o, oneShot |-> once]
           new == [rs EXCEPT ![r] = made]
           list == Tail(free)
<1>1. free \in Seq(Records) /\ Len(free) \in Nat \ {0}
  BY DEF FreeListOK
<1>2. r = free[1] /\ r \in Records
  BY <1>1
<1>3. rs[r] = FreeRecord /\ r <= PageRecords * n
  BY <1>1, <1>2 DEF FreeListOK
<1>4. made \in InUse
  BY DEF InUse
<1> HIDE DEF r
<1>5. new \in [Records -> InUse \cup {FreeRecord}]
      /\ \A x \in Records : new[x] = IF x = r THEN made ELSE rs[x]
  BY <1>2, <1>4 DEF RecordsOK
<1> HIDE DEF new
<1>6. RecordsOK(new)
  <2> SUFFICES ASSUME NEW x \in Records, NEW y \in Records, new[x] # FreeRecord,
                      new[x].queueFd = new[y].queueFd, new[x].objectFd = new[y].objectFd
               PROVE  x = y
    BY <1>5 DEF RecordsOK
  <2>1. CASE x # r /\ y # r
    BY <2>1, <1>5 DEF RecordsOK
  <2>2. CASE x = r \/ y = r
    BY <2>2, <1>5
  <2> QED BY <2>1, <2>2
<1>7. list \in Seq(Records) /\ Len(list) = Len(free) - 1
      /\ \A i \in 1 .. Len(list) : list[i] = free[i + 1]
  BY <1>1
<1> HIDE DEF list
<1>8. \A i \in 1 .. Len(list) : i + 1 \in 1 .. Len(free)
  BY <1>1, <1>7
<1>9. \A i \in 1 .. Len(list) : list[i] # r
  <2> TAKE i \in 1 .. Len(list)
  <2>1. i + 1 \in 1 .. Len(free) /\ 1 \in 1 .. Len(free) /\ i + 1 # 1
    BY <1>1, <1>8
  <2>2. free[i + 1] = free[1] => i + 1 = 1
    BY <2>1 DEF FreeListOK
  <2> QED BY <2>1, <2>2, <1>2, <1>7
<1>10. \A i \in 1 .. Len(list) : list[i] <= PageRecords * n /\ new[list[i]] = FreeRecord
  <2> TAKE i \in 1 .. Len(list)
  <2>1. list[i] = free[i + 1] /\ list[i] \in Records
    BY <1>7
  <2>2. free[i + 1] <= PageRecords * n /\ rs[free[i + 1]] = FreeRecord
    BY <1>8 DEF FreeListOK
  <2> QED BY <2>1, <2>2, <1>5, <1>9
<1>11. \A i, j \in 1 .. Len(list) : list[i] = list[j] => i = j
  <2> TAKE i, j \in 1 .. Len(list)
  <2>1. free[i + 1] = free[j + 1] => i + 1 = j + 1
    BY <1>8 DEF FreeListOK
  <2> QED BY <2>1, <1>7
<1>12. \A x \in Records : x > PageRecords * n => new[x] = FreeRecord
  <2>1. r \in Nat /\ PageRecords * n \in Nat
    BY <1>2, NumbersNotFree, EventQueueAssumption DEF FreeListOK
  <2>2. \A x \in Records : x \in Nat
    BY NumbersNotFree
  <2> QED BY <2>1, <2>2, <1>3, <1>5 DEF FreeListOK
<1>13. FreeListOK(new, list, n)
  BY <1>7, <1>10, <1>11, <1>12 DEF FreeListOK
<1> QED BY <1>2, <1>3, <1>6, <1>13 DEF r, new, list

\* A new page: its records are free and were on no list.
LEMMA PageMapped ==
    ASSUME NEW S, TablesOK(S)
    PROVE  /\ TablesOK(WithPage(S))
           /\ WithPage(S).records = S.records /\ WithPage(S).epoll = S.epoll
           /\ WithPage(S).selected = S.selected /\ WithPage(S).ok = S.ok
<1> DEFINE n == S.pages
           top == (n + 1) * PageRecords
           list == [i \in 1 .. PageRecords |-> top - i + 1]
<1>1. CASE S.sFreeList # << >> \/ S.pages = MaxPages
  <2>1. WithPage(S) = S
    BY <1>1 DEF WithPage
  <2> QED BY <2>1
<1>2. CASE ~(S.sFreeList # << >> \/ S.pages = MaxPages)
  <2>1. n \in Nat /\ n < MaxPages /\ MaxPages \in Nat /\ PageRecords \in Nat
    BY <1>2, EventQueueAssumption DEF TablesOK, FreeListOK
  <2>2. /\ (n + 1) * PageRecords = PageRecords * n + PageRecords
        /\ PageRecords * (n + 1) = PageRecords * n + PageRecords
        /\ PageRecords * n \in Nat /\ PageRecords * MaxPages \in Nat
    BY <2>1
  <2>3. PageRecords * (n + 1) <= PageRecords * MaxPages
    <3> DEFINE k == MaxPages - (n + 1)
    <3>1. k \in Nat /\ MaxPages = (n + 1) + k
      BY <2>1
    <3> HIDE DEF k
    <3>2. PageRecords * MaxPages = PageRecords * (n + 1) + PageRecords * k /\ PageRecords * k \in Nat
      BY <3>1, <2>1
    <3> QED BY <3>2, <2>2, <2>1
  <2>4. WithPage(S) = QueueTables(S.records, list, n + 1, S.epoll, S.selected, S.ok)
    BY <1>2 DEF WithPage, TablesOK, QueueTables
  <2> DEFINE base == PageRecords * n
  <2>5. base \in Nat /\ top = base + PageRecords /\ PageRecords * (n + 1) = base + PageRecords
        /\ base + PageRecords <= PageRecords * MaxPages
    BY <2>2, <2>3
  <2>6. Records = 1 .. PageRecords * MaxPages
    BY DEF Records
  <2>7. \A r \in Records : r > base => S.records[r] = FreeRecord
    BY DEF TablesOK, FreeListOK
  <2> HIDE DEF base
  <2> HIDE DEF top
  <2>8. \A i \in 1 .. PageRecords : list[i] = top - i + 1
    OBVIOUS
  <2>9. \A i \in 1 .. PageRecords : list[i] \in Records /\ list[i] = base + PageRecords - i + 1
    BY <2>1, <2>2, <2>5, <2>6, <2>8
  <2>10. list \in Seq(Records) /\ Len(list) = PageRecords
    BY <2>1, <2>9
  <2> HIDE DEF list
  <2>11. FreeListOK(S.records, list, n + 1)
    <3>1. n + 1 \in 0 .. MaxPages
      BY <2>1
    <3>2. \A i \in 1 .. Len(list) : list[i] <= PageRecords * (n + 1) /\ S.records[list[i]] = FreeRecord
      <4> TAKE i \in 1 .. Len(list)
      <4>1. list[i] = base + PageRecords - i + 1 /\ list[i] \in Records /\ i \in 1 .. PageRecords
        BY <2>9, <2>10
      <4>2. list[i] > base /\ list[i] <= base + PageRecords
        BY <4>1, <2>1, <2>5
      <4> QED BY <4>1, <4>2, <2>5, <2>7
    <3>3. \A i, j \in 1 .. Len(list) : list[i] = list[j] => i = j
      BY <2>1, <2>5, <2>9, <2>10
    <3>4. \A r \in Records : r > PageRecords * (n + 1) => S.records[r] = FreeRecord
      BY <2>1, <2>2, <2>5, <2>6, <2>7
    <3> QED BY <3>1, <3>2, <3>3, <3>4, <2>10 DEF FreeListOK
  <2> QED BY <2>4, <2>11 DEF TablesOK, QueueTables
<1> QED BY <1>1, <1>2

LEMMA RegistrationFound ==
    ASSUME NEW S, TablesOK(S), NEW q \in Queue, NEW o \in WaitObject
    PROVE  LET r == FindRegistration(S, q, o) IN
           \/ r = NoRecord /\ \A x \in Records : ~(S.records[x].queueFd = q /\ S.records[x].objectFd = o)
           \/ /\ r \in Records /\ r # NoRecord /\ S.records[r].queueFd = q /\ S.records[r].objectFd = o
              /\ S.records[r] # FreeRecord /\ S.records[r] \in InUse
<1> DEFINE found == {r \in Records : S.records[r].queueFd = q /\ S.records[r].objectFd = o}
<1>1. CASE found = {}
  BY <1>1 DEF FindRegistration
<1>2. CASE found # {}
  <2>1. FindRegistration(S, q, o) = CHOOSE r \in found : TRUE
    BY <1>2 DEF FindRegistration
  <2>2. FindRegistration(S, q, o) \in found
    BY <1>2, <2>1
  <2> QED BY <2>2, NumbersNotFree DEF TablesOK, RecordsOK
<1> QED BY <1>1, <1>2

RecordCleared(rs, r) == [rs EXCEPT ![r] = FreeRecord]

LEMMA FreedIs ==
    ASSUME NEW rs, NEW free, NEW n, NEW ep, NEW sel, NEW ok, NEW r \in DOMAIN rs, rs[r] # FreeRecord
    PROVE  FreeRegistration(QueueTables(rs, free, n, ep, sel, ok), r)
             = QueueTables(RecordCleared(rs, r), <<r>> \o free, n, ep, sel, ok)
<1> DEFINE T == QueueTables(rs, free, n, ep, sel, ok)
           new == [rs EXCEPT ![r] = FreeRecord]
<1>1. FreeRegistration(T, r) = [T EXCEPT !.records[r] = FreeRecord, !.sFreeList = <<r>> \o @]
  BY DEF FreeRegistration, IsActiveRegistration, QueueTables
<1>2. [T EXCEPT !.records[r] = FreeRecord] = QueueTables(new, free, n, ep, sel, ok)
  BY DEF QueueTables
<1>3. [T EXCEPT !.records[r] = FreeRecord, !.sFreeList = <<r>> \o @]
        = [[T EXCEPT !.records[r] = FreeRecord] EXCEPT !.sFreeList = <<r>> \o @]
  OBVIOUS
<1> HIDE DEF new
<1> DEFINE X == QueueTables(new, free, n, ep, sel, ok)
           list == <<r>> \o free
<1>4. X.sFreeList = free
  BY DEF QueueTables
<1> HIDE DEF list
<1>5. [X EXCEPT !.sFreeList = list] = QueueTables(new, list, n, ep, sel, ok)
  BY DEF QueueTables
<1> HIDE DEF X
<1>6. [X EXCEPT !.sFreeList = <<r>> \o @] = [X EXCEPT !.sFreeList = list]
  BY <1>4, Zenon DEF list
<1> QED BY <1>1, <1>2, <1>3, <1>5, <1>6, Zenon DEF RecordCleared, new, X, list

\* An entry taken out of epoll together with its record.
LEMMA SelectionDropped ==
    ASSUME NEW S, TablesOK(S), NEW q \in Queue, NEW o \in WaitObject, NEW r \in Records,
           S.records[r].queueFd = q, S.records[r].objectFd = o
    PROVE  TablesOK([FreeRegistration(CtlDel(S, q, o), r) EXCEPT !.selected = @ \ {<<q, o>>}])
<1> DEFINE gone == [record |-> NoRecord, armed |-> FALSE, oneShot |-> FALSE]
           ep2 == [S.epoll EXCEPT ![<<q, o>>] = gone]
           new == [S.records EXCEPT ![r] = FreeRecord]
           T == [FreeRegistration(CtlDel(S, q, o), r) EXCEPT !.selected = @ \ {<<q, o>>}]
<1>1. S.records[r] # FreeRecord
  BY NumbersNotFree
<1>2. T = QueueTables(new, <<r>> \o S.sFreeList, S.pages, ep2, S.selected \ {<<q, o>>}, S.ok)
  <2>1. CtlDel(S, q, o) = QueueTables(S.records, S.sFreeList, S.pages, ep2, S.selected, S.ok)
    BY DEF CtlDel, TablesOK, QueueTables
  <2>2. FreeRegistration(CtlDel(S, q, o), r)
          = QueueTables(new, <<r>> \o S.sFreeList, S.pages, ep2, S.selected, S.ok)
    <3>1. r \in DOMAIN S.records
      BY DEF TablesOK, RecordsOK
    <3>2. new = RecordCleared(S.records, r)
      BY Zenon DEF RecordCleared
    <3> HIDE DEF new, ep2
    <3> QED BY <1>1, <2>1, <3>1, <3>2, FreedIs
  <2> DEFINE list == <<r>> \o S.sFreeList
             set == {<<q, o>>}
  <2> HIDE DEF new, ep2, list, set
  <2>3. [QueueTables(new, list, S.pages, ep2, S.selected, S.ok) EXCEPT !.selected = @ \ set]
          = QueueTables(new, list, S.pages, ep2, S.selected \ set, S.ok)
    BY DEF QueueTables
  <2> QED BY <2>2, <2>3 DEF list, set
<1>3. RecordsOK(new) /\ FreeListOK(new, <<r>> \o S.sFreeList, S.pages)
  BY <1>1, RecordFreed DEF TablesOK
<1>4. ep2 \in [Queue \X WaitObject -> Entry] /\ ep2[<<q, o>>] = gone
      /\ \A e \in Queue \X WaitObject : e # <<q, o>> => ep2[e] = S.epoll[e]
  <2>1. gone \in Entry
    BY DEF Entry
  <2> QED BY <2>1 DEF TablesOK, EntriesOK
<1>5. EntriesOK(new, ep2, S.selected \ {<<q, o>>})
  BY <1>4, EntryDropped DEF TablesOK
<1> QED BY <1>2, <1>3, <1>5 DEF TablesOK, QueueTables

LEMMA DeselectKept ==
    ASSUME NEW S, TablesOK(S), NEW q \in Queue, NEW o \in WaitObject
    PROVE  TablesOK(Deselect(S, q, o))
<1> DEFINE r == FindRegistration(S, q, o)
<1>1. CASE r = NoRecord
  BY <1>1 DEF Deselect, TablesOK, QueueTables
<1>2. CASE r # NoRecord
  <2>1. r \in Records /\ S.records[r].queueFd = q /\ S.records[r].objectFd = o
    BY <1>2, RegistrationFound
  <2>2. Deselect(S, q, o) = [FreeRegistration(CtlDel(S, q, o), r) EXCEPT !.selected = @ \ {<<q, o>>}]
    BY <1>2 DEF Deselect
  <2> QED BY <2>1, <2>2, SelectionDropped
<1> QED BY <1>1, <1>2

LEMMA ReportKeptOne ==
    ASSUME NEW S, TablesOK(S), NEW q \in Queue, NEW r \in Records
    PROVE  TablesOK(ReportEvent(S, q, r))
<1> DEFINE o == S.records[r].objectFd
<1>1. CASE ~IsActiveRegistration(S, r) \/ S.records[r].queueFd # q \/ ~S.records[r].oneShot
  BY <1>1 DEF ReportEvent
<1>2. CASE ~(~IsActiveRegistration(S, r) \/ S.records[r].queueFd # q \/ ~S.records[r].oneShot)
  <2>1. S.records[r] \in InUse
    BY <1>2 DEF IsActiveRegistration, TablesOK, RecordsOK
  <2>2. o \in WaitObject /\ S.records[r].queueFd = q
    BY <1>2, <2>1 DEF InUse
  <2>3. ReportEvent(S, q, r) = [FreeRegistration(CtlDel(S, q, o), r) EXCEPT !.selected = @ \ {<<q, o>>}]
    BY <1>2 DEF ReportEvent
  <2> QED BY <2>2, <2>3, SelectionDropped
<1> QED BY <1>1, <1>2

\* The record of a queue and an object, selected again.
LEMMA RecordRenewed ==
    ASSUME NEW rs, NEW free, NEW n, RecordsOK(rs), FreeListOK(rs, free, n),
           NEW q \in Queue, NEW o \in WaitObject, NEW once \in BOOLEAN,
           NEW r \in Records, rs[r].queueFd = q, rs[r].objectFd = o
    PROVE  LET new == [rs EXCEPT ![r] = [queueFd |-> q, objectFd |-> o, oneShot |-> once]] IN
           RecordsOK(new) /\ FreeListOK(new, free, n)
<1> DEFINE made == [queueFd |-> q, objectFd |-> o, oneShot |-> once]
           new == [rs EXCEPT ![r] = made]
<1>1. made \in InUse /\ made.queueFd = q /\ made.objectFd = o
  BY DEF InUse
<1>2. rs[r] # FreeRecord
  BY NumbersNotFree
<1> HIDE DEF made
<1>3. new \in [Records -> InUse \cup {FreeRecord}]
      /\ \A x \in Records : new[x] = IF x = r THEN made ELSE rs[x]
  BY <1>1 DEF RecordsOK
<1> HIDE DEF new
<1>4. \A x \in Records : new[x].queueFd = rs[x].queueFd /\ new[x].objectFd = rs[x].objectFd
                         /\ (new[x] # FreeRecord <=> rs[x] # FreeRecord)
  BY <1>1, <1>2, <1>3, NumbersNotFree
<1>5. RecordsOK(new)
  BY <1>3, <1>4 DEF RecordsOK
<1>6. FreeListOK(new, free, n)
  <2>1. \A i \in 1 .. Len(free) : free[i] \in Records
    BY DEF FreeListOK
  <2> QED BY <1>4, <2>1 DEF FreeListOK
<1> QED BY <1>5, <1>6 DEF new, made

\* The two ways in which SelectEvents ends.
EntryPut(U, q, o, r, once) ==
    [U EXCEPT !.epoll[<<q, o>>] = [record |-> r, armed |-> TRUE, oneShot |-> once],
              !.selected = @ \cup {<<q, o>>}]
RecordPutBack(U, q, o, r) ==
    [FreeRegistration(U, r) EXCEPT !.ok = FALSE, !.selected = @ \ {<<q, o>>}]
RecordSet(rs, r, q, o, once) ==
    [rs EXCEPT ![r] = [queueFd |-> q, objectFd |-> o, oneShot |-> once]]
EitherWorks(T, how, q, o) ==
    LET error == CtlError(T, how, q, o)
        other == CtlError(T, IF how = "add" THEN "mod" ELSE "add", q, o)
    IN  error = "none" \/ (Retry(error) /\ other = "none")

\* Only a descriptor that is not open fails, and then epoll has no entry.
LEMMA CtlWorks ==
    ASSUME NEW T, NEW q, NEW o, NEW how \in {"add", "mod"}
    PROVE  EitherWorks(T, how, q, o) <=> {q, o} \subseteq openFds
BY DEF EitherWorks, CtlError, Retry

LEMMA SelectionMade ==
    ASSUME NEW rs, NEW n, NEW ep, NEW sel, NEW ok \in BOOLEAN, NEW new, NEW list,
           NEW q \in Queue, NEW o \in WaitObject, NEW once \in BOOLEAN, NEW r \in Records,
           RecordsOK(rs), EntriesOK(rs, ep, sel),
           new = RecordSet(rs, r, q, o, once),
           rs[r] = FreeRecord \/ (rs[r].queueFd = q /\ rs[r].objectFd = o),
           RecordsOK(new), FreeListOK(new, list, n), {q, o} \subseteq openFds
    PROVE  TablesOK(EntryPut(QueueTables(new, list, n, ep, sel, ok), q, o, r, once))
<1> DEFINE U == QueueTables(new, list, n, ep, sel, ok)
           pair == <<q, o>>
           set == {pair}
           entry == [record |-> r, armed |-> TRUE, oneShot |-> once]
           ep2 == [ep EXCEPT ![pair] = entry]
<1>1. EntriesOK(new, ep2, sel \cup set)
  BY EntryMade DEF RecordSet
<1> HIDE DEF set, pair, entry
<1>2. [U EXCEPT !.epoll[pair] = entry] = QueueTables(new, list, n, ep2, sel, ok)
  BY DEF QueueTables
<1>3. [U EXCEPT !.epoll[pair] = entry, !.selected = @ \cup set]
        = [[U EXCEPT !.epoll[pair] = entry] EXCEPT !.selected = @ \cup set]
  OBVIOUS
<1> HIDE DEF ep2
<1>4. [QueueTables(new, list, n, ep2, sel, ok) EXCEPT !.selected = @ \cup set]
        = QueueTables(new, list, n, ep2, sel \cup set, ok)
  BY DEF QueueTables
<1>5. TablesOK(QueueTables(new, list, n, ep2, sel \cup set, ok))
  BY <1>1 DEF TablesOK, QueueTables
<1> QED BY <1>2, <1>3, <1>4, <1>5 DEF EntryPut, set, pair, entry

LEMMA SelectionFails ==
    ASSUME NEW rs, NEW n, NEW ep, NEW sel, NEW ok \in BOOLEAN, NEW new, NEW list,
           NEW q \in Queue, NEW o \in WaitObject, NEW once \in BOOLEAN, NEW r \in Records,
           RecordsOK(rs), EntriesOK(rs, ep, sel),
           new = RecordSet(rs, r, q, o, once),
           rs[r] = FreeRecord \/ (rs[r].queueFd = q /\ rs[r].objectFd = o),
           RecordsOK(new), FreeListOK(new, list, n), ~({q, o} \subseteq openFds)
    PROVE  TablesOK(RecordPutBack(QueueTables(new, list, n, ep, sel, ok), q, o, r))
<1> DEFINE U == QueueTables(new, list, n, ep, sel, ok)
           last == [new EXCEPT ![r] = FreeRecord]
           more == <<r>> \o list
           set == {<<q, o>>}
           X == QueueTables(last, more, n, ep, sel, ok)
           no == FALSE
<1>1. DOMAIN new = Records /\ new[r].queueFd = q /\ new[r].objectFd = o /\ new[r] # FreeRecord
  BY NumbersNotFree DEF RecordsOK, RecordSet
<1>2. FreeRegistration(U, r) = X
  <2>1. r \in DOMAIN new /\ new[r] # FreeRecord
    BY <1>1
  <2>2. last = RecordCleared(new, r)
    BY Zenon DEF RecordCleared
  <2> HIDE DEF last
  <2> QED BY <2>1, <2>2, FreedIs
<1>3. RecordsOK(last) /\ FreeListOK(last, more, n)
  BY <1>1, RecordFreed
<1>4. EntriesOK(new, ep, sel)
  <2>1. ep \in [Queue \X WaitObject -> Entry]
    BY DEF EntriesOK
  <2>2. \A x \in Records : x # r => new[x] = rs[x]
    BY DEF RecordsOK, RecordSet
  <2> SUFFICES ASSUME NEW a \in Queue, NEW b \in WaitObject, ep[<<a, b>>].record # NoRecord
               PROVE  /\ new[ep[<<a, b>>].record].queueFd = a
                      /\ new[ep[<<a, b>>].record].objectFd = b
    BY DEF EntriesOK
  <2> DEFINE x == ep[<<a, b>>].record
  <2>3. x \in Records /\ rs[x].queueFd = a /\ rs[x].objectFd = b
    <3>1. ep[<<a, b>>] \in Entry
      BY <2>1
    <3> QED BY <3>1 DEF Entry, EntriesOK
  <2>4. x = r => a = q /\ b = o
    BY <2>3, NumbersNotFree
  <2> QED BY <2>2, <2>3, <2>4, <1>1
<1>5. ep[<<q, o>>].record = NoRecord /\ ~ ep[<<q, o>>].armed /\ ep \in [Queue \X WaitObject -> Entry]
  BY DEF EntriesOK
<1>6. EntriesOK(last, ep, sel \ set)
  BY <1>1, <1>4, <1>5, EntryDropped
<1>no. no \in BOOLEAN
  OBVIOUS
<1> HIDE DEF last, more, set, no
<1>7. [X EXCEPT !.ok = no] = QueueTables(last, more, n, ep, sel, no)
  BY DEF QueueTables
<1>8. [X EXCEPT !.ok = no, !.selected = @ \ set]
        = [[X EXCEPT !.ok = no] EXCEPT !.selected = @ \ set]
  OBVIOUS
<1>9. [QueueTables(last, more, n, ep, sel, no) EXCEPT !.selected = @ \ set]
        = QueueTables(last, more, n, ep, sel \ set, no)
  BY DEF QueueTables
<1>10. TablesOK(QueueTables(last, more, n, ep, sel \ set, no))
  BY <1>3, <1>6, <1>no DEF TablesOK, QueueTables
<1> QED BY <1>2, <1>7, <1>8, <1>9, <1>10 DEF RecordPutBack, set, no

LEMMA RecordFilled ==
    ASSUME NEW q, NEW o, NEW once
    PROVE  [[FreeRecord EXCEPT !.queueFd = q, !.objectFd = o] EXCEPT !.oneShot = once]
             = [queueFd |-> q, objectFd |-> o, oneShot |-> once]
<1> DEFINE no == FALSE
           free == [queueFd |-> 0, objectFd |-> 0, oneShot |-> no]
<1>1. FreeRecord = free
  BY Zenon DEF FreeRecord
<1> HIDE DEF no
<1>2. [free EXCEPT !.queueFd = q] = [queueFd |-> q, objectFd |-> 0, oneShot |-> no]
  OBVIOUS
<1>3. [[queueFd |-> q, objectFd |-> 0, oneShot |-> no] EXCEPT !.objectFd = o]
        = [queueFd |-> q, objectFd |-> o, oneShot |-> no]
  OBVIOUS
<1>4. [[queueFd |-> q, objectFd |-> o, oneShot |-> no] EXCEPT !.oneShot = once]
        = [queueFd |-> q, objectFd |-> o, oneShot |-> once]
  OBVIOUS
<1>5. [free EXCEPT !.queueFd = q, !.objectFd = o] = [[free EXCEPT !.queueFd = q] EXCEPT !.objectFd = o]
  OBVIOUS
<1> QED BY <1>1, <1>2, <1>3, <1>4, <1>5, Zenon

LEMMA SelectEventsKept ==
    ASSUME NEW S, TablesOK(S), NEW q \in Queue, NEW o \in WaitObject, NEW once \in BOOLEAN
    PROVE  TablesOK(SelectEvents(S, q, o, once))
<1> DEFINE known == FindRegistration(S, q, o)
           paged == WithPage(S)
           T == IF known # NoRecord THEN S ELSE AllocRegistration(paged, q, o)
           r == IF known # NoRecord THEN known ELSE Head(paged.sFreeList)
           how == IF known = NoRecord THEN "add" ELSE "mod"
           U == [T EXCEPT !.records[r].oneShot = once]
           works == EitherWorks(T, how, q, o)
           pair == <<q, o>>
           made == [queueFd |-> q, objectFd |-> o, oneShot |-> once]
           rs == S.records
           new == [rs EXCEPT ![r] = made]
<1>1. CASE known = NoRecord /\ paged.sFreeList = << >>
  <2>1. SelectEvents(S, q, o, once) = [S EXCEPT !.ok = FALSE]
    BY <1>1 DEF SelectEvents
  <2> QED BY <2>1 DEF TablesOK, QueueTables
<1>2. CASE ~(known = NoRecord /\ paged.sFreeList = << >>)
  <2>1. SelectEvents(S, q, o, once) =
          IF works
          THEN EntryPut(U, q, o, r, once) ELSE RecordPutBack(U, q, o, r)
    BY <1>2, Zenon DEF SelectEvents, EitherWorks, EntryPut, RecordPutBack
  <2>2. \E list, n : /\ U = QueueTables(new, list, n, S.epoll, S.selected, S.ok)
                     /\ r \in Records
                     /\ rs[r] = FreeRecord \/ (rs[r].queueFd = q /\ rs[r].objectFd = o)
                     /\ RecordsOK(new) /\ FreeListOK(new, list, n)
    <3>1. CASE known # NoRecord
      <4>1. r = known /\ T = S
        BY <3>1
      <4>2. r \in Records /\ rs[r].queueFd = q /\ rs[r].objectFd = o /\ rs[r] \in InUse
        BY <3>1, <4>1, RegistrationFound
      <4>3. RecordsOK(new) /\ FreeListOK(new, S.sFreeList, S.pages)
        BY <4>2, RecordRenewed DEF TablesOK
      <4>4. [rs[r] EXCEPT !.oneShot = once] = made
        BY <4>2 DEF InUse
      <4> HIDE DEF made, r, known
      <4>5. U = QueueTables(new, S.sFreeList, S.pages, S.epoll, S.selected, S.ok)
        <5>1. [S EXCEPT !.records[r].oneShot = once] = [S EXCEPT !.records[r] = made]
          BY <4>2, <4>4 DEF TablesOK, QueueTables
        <5>2. [S EXCEPT !.records[r] = made] = QueueTables(new, S.sFreeList, S.pages, S.epoll, S.selected, S.ok)
          BY DEF TablesOK, QueueTables
        <5> QED BY <4>1, <5>1, <5>2
      <4> QED BY <4>2, <4>3, <4>5
    <3>2. CASE known = NoRecord
      <4>1. r = Head(paged.sFreeList) /\ T = AllocRegistration(paged, q, o) /\ paged.sFreeList # << >>
        BY <1>2, <3>2
      <4>2. TablesOK(paged) /\ paged.records = rs /\ paged.epoll = S.epoll /\ paged.selected = S.selected
            /\ paged.ok = S.ok
        BY PageMapped
      <4>3. \A x \in Records : ~(rs[x].queueFd = q /\ rs[x].objectFd = o)
        BY <3>2, RegistrationFound
      <4> HIDE DEF known, paged
      <4>4. /\ r \in Records /\ rs[r] = FreeRecord
            /\ RecordsOK(new) /\ FreeListOK(new, Tail(paged.sFreeList), paged.pages)
        BY <4>1, <4>2, <4>3, RecordTaken DEF TablesOK
      <4> DEFINE first == [FreeRecord EXCEPT !.queueFd = q, !.objectFd = o]
                 list == Tail(paged.sFreeList)
                 n == paged.pages
                 rs1 == [rs EXCEPT ![r] = first]
      <4>5. [first EXCEPT !.oneShot = once] = made
        BY RecordFilled
      <4>6. T = [paged EXCEPT !.sFreeList = Tail(@), !.records[r] = first]
        BY <4>1 DEF AllocRegistration
      <4> HIDE DEF made, r, first, list, n
      <4>7. [paged EXCEPT !.sFreeList = list] = QueueTables(rs, list, n, S.epoll, S.selected, S.ok)
        BY <4>2 DEF TablesOK, QueueTables, n
      <4>8. T = [[paged EXCEPT !.sFreeList = list] EXCEPT !.records[r] = first]
        BY <4>6 DEF list
      <4>9. [QueueTables(rs, list, n, S.epoll, S.selected, S.ok) EXCEPT !.records[r] = first]
              = QueueTables(rs1, list, n, S.epoll, S.selected, S.ok)
        BY DEF QueueTables
      <4>10. T = QueueTables(rs1, list, n, S.epoll, S.selected, S.ok)
        BY <4>7, <4>8, <4>9
      <4>11. DOMAIN rs = Records
        BY DEF TablesOK, RecordsOK
      <4>12. rs1[r] = first /\ [rs1 EXCEPT ![r] = made] = new
        BY <4>4, <4>11
      <4> HIDE DEF rs1
      <4>13. [QueueTables(rs1, list, n, S.epoll, S.selected, S.ok) EXCEPT !.records[r].oneShot = once]
               = [QueueTables(rs1, list, n, S.epoll, S.selected, S.ok) EXCEPT !.records[r] = made]
        BY <4>5, <4>12 DEF QueueTables
      <4>14. [QueueTables(rs1, list, n, S.epoll, S.selected, S.ok) EXCEPT !.records[r] = made]
               = QueueTables([rs1 EXCEPT ![r] = made], list, n, S.epoll, S.selected, S.ok)
        BY DEF QueueTables
      <4>15. U = QueueTables(new, list, n, S.epoll, S.selected, S.ok)
        BY <4>10, <4>12, <4>13, <4>14
      <4> QED BY <4>4, <4>15 DEF list, n
    <3> QED BY <3>1, <3>2
  <2>3. PICK list, n : /\ U = QueueTables(new, list, n, S.epoll, S.selected, S.ok)
                       /\ r \in Records
                       /\ rs[r] = FreeRecord \/ (rs[r].queueFd = q /\ rs[r].objectFd = o)
                       /\ RecordsOK(new) /\ FreeListOK(new, list, n)
    BY <2>2, Zenon
  <2>4. works <=> {q, o} \subseteq openFds
    <3>1. how \in {"add", "mod"}
      OBVIOUS
    <3> HIDE DEF how, T
    <3> QED BY <3>1, CtlWorks
  <2>6. new = RecordSet(rs, r, q, o, once)
    BY Zenon DEF RecordSet
  <2>7. RecordsOK(rs) /\ EntriesOK(rs, S.epoll, S.selected) /\ S.ok \in BOOLEAN
    BY DEF TablesOK
  <2> HIDE DEF works, U, new, r, rs
  <2>8. CASE works
    <3>1. TablesOK(EntryPut(QueueTables(new, list, n, S.epoll, S.selected, S.ok), q, o, r, once))
      BY <2>3, <2>4, <2>6, <2>7, <2>8, SelectionMade
    <3> QED BY <2>1, <2>3, <2>8, <3>1
  <2>9. CASE ~works
    <3>1. TablesOK(RecordPutBack(QueueTables(new, list, n, S.epoll, S.selected, S.ok), q, o, r))
      BY <2>3, <2>4, <2>6, <2>7, <2>9, SelectionFails
    <3> QED BY <2>1, <2>3, <2>9, <3>1
  <2> QED BY <2>8, <2>9
<1> QED BY <1>1, <1>2

LEMMA SelectOneKept ==
    ASSUME NEW S, TablesOK(S), NEW q \in Queue, NEW info \in Info
    PROVE  TablesOK(SelectOne(S, q, info))
<1>1. info.object \in WaitObject /\ (info.events = "oneShot") \in BOOLEAN
  BY DEF Info
<1> QED BY <1>1, DeselectKept, SelectEventsKept, Zenon DEF SelectOne

\* The states that a call goes through are those that the recursion says.
LEMMA SelectsStep ==
    ASSUME NEW q, NEW infos \in Seq(Info)
    PROVE  LET after == AfterSelects(q, infos) IN
           /\ after[0] = State
           /\ \A n \in 1 .. Len(infos) : after[n] = SelectOne(after[n - 1], q, infos[n])
<1> DEFINE len == Len(infos)
           P(g, m) == g = [n \in 0 .. m |-> IF n = 0 THEN State ELSE SelectOne(g[n - 1], q, infos[n])]
           bad == {m \in 0 .. len : ~ \E g : P(g, m)}
<1>0. len \in Nat
  OBVIOUS
<1>1. bad = {}
  <2> SUFFICES ASSUME bad # {} PROVE FALSE
    OBVIOUS
  <2>1. bad \in SUBSET Nat
    BY <1>0
  <2> HIDE DEF bad
  <2>2. PICK m \in bad : \A y \in bad : m <= y
    BY <2>1, LeastNat
  <2>3. m \in 0 .. len /\ ~ \E g : P(g, m)
    BY <2>2 DEF bad
  <2>4. m # 0
    <3> SUFFICES ASSUME m = 0 PROVE \E g : P(g, 0)
      BY <2>3
    <3> DEFINE g == [n \in 0 .. 0 |-> State]
    <3>1. P(g, 0)
      OBVIOUS
    <3> QED BY <3>1
  <2>5. m - 1 \in 0 .. len /\ m - 1 < m /\ m \in Nat
    BY <2>3, <2>4, <1>0
  <2>6. m - 1 \notin bad
    BY <2>2, <2>5
  <2>7. PICK g : P(g, m - 1)
    BY <2>5, <2>6 DEF bad
  <2> DEFINE h == [n \in 0 .. m |-> IF n < m THEN g[n] ELSE SelectOne(g[m - 1], q, infos[m])]
  <2>8. P(h, m)
    <3>1. \A n \in 0 .. m : n # 0 => n - 1 \in 0 .. (m - 1) /\ h[n - 1] = g[n - 1]
      BY <2>5
    <3>2. \A n \in 0 .. m : h[n] = IF n = 0 THEN State ELSE SelectOne(h[n - 1], q, infos[n])
      <4> TAKE n \in 0 .. m
      <4>1. CASE n < m
        <5>1. n \in 0 .. (m - 1) /\ h[n] = g[n]
          BY <4>1, <2>5
        <5>2. g[n] = IF n = 0 THEN State ELSE SelectOne(g[n - 1], q, infos[n])
          BY <5>1, <2>7
        <5> QED BY <5>1, <5>2, <3>1
      <4>2. CASE ~(n < m)
        <5>1. n = m
          BY <4>2, <2>5
        <5> QED BY <5>1, <3>1, <2>4, <2>5
      <4> QED BY <4>1, <4>2
    <3> HIDE DEF h
    <3>3. h = [n \in 0 .. m |-> h[n]]
      BY DEF h
    <3> QED BY <3>2, <3>3
  <2> QED BY <2>3, <2>8
<1>2. \E g : P(g, len)
  BY <1>0, <1>1
<1>3. AfterSelects(q, infos) = CHOOSE g : P(g, len)
  BY Zenon DEF AfterSelects
<1>4. P(AfterSelects(q, infos), len)
  BY <1>2, <1>3, Zenon
<1> QED BY <1>0, <1>4
LEMMA ReportsStep ==
    ASSUME NEW q, NEW events \in Seq(Records)
    PROVE  LET after == AfterReports(q, events) IN
           /\ after[0] = State
           /\ \A n \in 1 .. Len(events) : after[n] = ReportEvent(after[n - 1], q, events[n])
<1> DEFINE len == Len(events)
           P(g, m) == g = [n \in 0 .. m |-> IF n = 0 THEN State ELSE ReportEvent(g[n - 1], q, events[n])]
           bad == {m \in 0 .. len : ~ \E g : P(g, m)}
<1>0. len \in Nat
  OBVIOUS
<1>1. bad = {}
  <2> SUFFICES ASSUME bad # {} PROVE FALSE
    OBVIOUS
  <2>1. bad \in SUBSET Nat
    BY <1>0
  <2> HIDE DEF bad
  <2>2. PICK m \in bad : \A y \in bad : m <= y
    BY <2>1, LeastNat
  <2>3. m \in 0 .. len /\ ~ \E g : P(g, m)
    BY <2>2 DEF bad
  <2>4. m # 0
    <3> SUFFICES ASSUME m = 0 PROVE \E g : P(g, 0)
      BY <2>3
    <3> DEFINE g == [n \in 0 .. 0 |-> State]
    <3>1. P(g, 0)
      OBVIOUS
    <3> QED BY <3>1
  <2>5. m - 1 \in 0 .. len /\ m - 1 < m /\ m \in Nat
    BY <2>3, <2>4, <1>0
  <2>6. m - 1 \notin bad
    BY <2>2, <2>5
  <2>7. PICK g : P(g, m - 1)
    BY <2>5, <2>6 DEF bad
  <2> DEFINE h == [n \in 0 .. m |-> IF n < m THEN g[n] ELSE ReportEvent(g[m - 1], q, events[m])]
  <2>8. P(h, m)
    <3>1. \A n \in 0 .. m : n # 0 => n - 1 \in 0 .. (m - 1) /\ h[n - 1] = g[n - 1]
      BY <2>5
    <3>2. \A n \in 0 .. m : h[n] = IF n = 0 THEN State ELSE ReportEvent(h[n - 1], q, events[n])
      <4> TAKE n \in 0 .. m
      <4>1. CASE n < m
        <5>1. n \in 0 .. (m - 1) /\ h[n] = g[n]
          BY <4>1, <2>5
        <5>2. g[n] = IF n = 0 THEN State ELSE ReportEvent(g[n - 1], q, events[n])
          BY <5>1, <2>7
        <5> QED BY <5>1, <5>2, <3>1
      <4>2. CASE ~(n < m)
        <5>1. n = m
          BY <4>2, <2>5
        <5> QED BY <5>1, <3>1, <2>4, <2>5
      <4> QED BY <4>1, <4>2
    <3> HIDE DEF h
    <3>3. h = [n \in 0 .. m |-> h[n]]
      BY DEF h
    <3> QED BY <3>2, <3>3
  <2> QED BY <2>3, <2>8
<1>2. \E g : P(g, len)
  BY <1>0, <1>1
<1>3. AfterReports(q, events) = CHOOSE g : P(g, len)
  BY Zenon DEF AfterReports
<1>4. P(AfterReports(q, events), len)
  BY <1>2, <1>3, Zenon
<1> QED BY <1>0, <1>4

LEMMA SelectsKept ==
    ASSUME TablesOK(State), NEW q \in Queue, NEW infos \in Seq(Info)
    PROVE  TablesOK(AfterSelects(q, infos)[Len(infos)])
<1> DEFINE after == AfterSelects(q, infos)
           bad == {n \in 0 .. Len(infos) : ~ TablesOK(after[n])}
<1>0. Len(infos) \in Nat /\ \A n \in 1 .. Len(infos) : infos[n] \in Info
  OBVIOUS
<1>1. after[0] = State /\ \A n \in 1 .. Len(infos) : after[n] = SelectOne(after[n - 1], q, infos[n])
  BY SelectsStep
<1> HIDE DEF after
<1>2. bad = {}
  <2> SUFFICES ASSUME bad # {} PROVE FALSE
    OBVIOUS
  <2>1. bad \in SUBSET Nat
    BY <1>0
  <2> HIDE DEF bad
  <2>2. PICK m \in bad : \A y \in bad : m <= y
    BY <2>1, LeastNat
  <2>3. m \in 0 .. Len(infos) /\ ~ TablesOK(after[m])
    BY <2>2 DEF bad
  <2>4. m # 0
    BY <2>3, <1>1
  <2>5. m \in 1 .. Len(infos) /\ m - 1 \in 0 .. Len(infos) /\ ~(m <= m - 1)
    BY <2>3, <2>4, <1>0
  <2>6. TablesOK(after[m - 1])
    BY <2>2, <2>5 DEF bad
  <2>7. TablesOK(SelectOne(after[m - 1], q, infos[m]))
    BY <2>5, <2>6, <1>0, SelectOneKept
  <2> QED BY <2>3, <2>5, <2>7, <1>1
<1> QED BY <1>0, <1>2 DEF after

LEMMA ReportsKept ==
    ASSUME TablesOK(State), NEW q \in Queue, NEW events \in Seq(Records)
    PROVE  TablesOK(AfterReports(q, events)[Len(events)])
<1> DEFINE after == AfterReports(q, events)
           bad == {n \in 0 .. Len(events) : ~ TablesOK(after[n])}
<1>0. Len(events) \in Nat /\ \A n \in 1 .. Len(events) : events[n] \in Records
  OBVIOUS
<1>1. after[0] = State /\ \A n \in 1 .. Len(events) : after[n] = ReportEvent(after[n - 1], q, events[n])
  BY ReportsStep
<1> HIDE DEF after
<1>2. bad = {}
  <2> SUFFICES ASSUME bad # {} PROVE FALSE
    OBVIOUS
  <2>1. bad \in SUBSET Nat
    BY <1>0
  <2> HIDE DEF bad
  <2>2. PICK m \in bad : \A y \in bad : m <= y
    BY <2>1, LeastNat
  <2>3. m \in 0 .. Len(events) /\ ~ TablesOK(after[m])
    BY <2>2 DEF bad
  <2>4. m # 0
    BY <2>3, <1>1
  <2>5. m \in 1 .. Len(events) /\ m - 1 \in 0 .. Len(events) /\ ~(m <= m - 1)
    BY <2>3, <2>4, <1>0
  <2>6. TablesOK(after[m - 1])
    BY <2>2, <2>5 DEF bad
  <2>7. TablesOK(ReportEvent(after[m - 1], q, events[m]))
    BY <2>5, <2>6, <1>0, ReportKeptOne
  <2> QED BY <2>3, <2>5, <2>7, <1>1
<1> QED BY <1>0, <1>2 DEF after

LEMMA EventsInitially == EventQueueInit => EventsInductive
<1> SUFFICES ASSUME EventQueueInit PROVE EventsInductive
  OBVIOUS
<1>1. RecordsOK(records)
  BY DEF EventQueueInit, RecordsOK
<1>2. FreeListOK(records, sFreeList, pages)
  BY EventQueueAssumption DEF EventQueueInit, FreeListOK
<1>3. EntriesOK(records, epoll, selected)
  BY DEF EventQueueInit, EntriesOK, Entry
<1>4. WaitedOK
  BY DEF EventQueueInit, WaitedOK
<1>5. TablesOK(State)
  BY <1>1, <1>2, <1>3 DEF TablesOK, State, QueueTables
<1> QED BY <1>4, <1>5 DEF EventsInductive

\* What the tables are when a call gives the lock back.
LEMMA BecomesKept ==
    ASSUME NEW S, TablesOK(S), Becomes(S), UNCHANGED openFds
    PROVE  TablesOK(State)'
<1>1. RecordsOK(records)'
  BY DEF TablesOK, Becomes, RecordsOK
<1>2. FreeListOK(records, sFreeList, pages)'
  BY DEF TablesOK, Becomes, FreeListOK
<1>3. EntriesOK(records, epoll, selected)'
  BY DEF TablesOK, Becomes, EntriesOK
<1> QED BY <1>1, <1>2, <1>3 DEF TablesOK, State, QueueTables

LEMMA StateParts ==
    TablesOK(State) <=> /\ RecordsOK(records)
                        /\ FreeListOK(records, sFreeList, pages)
                        /\ EntriesOK(records, epoll, selected)
BY DEF TablesOK, State, QueueTables

LEMMA ListsAreSeqs ==
    ASSUME NEW set, NEW list \in ListsOf(set)
    PROVE  list \in Seq(set) /\ DOMAIN list = 1 .. Len(list)
<1>1. PICK n \in 1 .. MaxInfos : list \in [1 .. n -> set]
  BY DEF ListsOf
<1>2. n \in Nat
  BY <1>1, EventQueueAssumption
<1> QED BY <1>1, <1>2

LEMMA SelectKept ==
    ASSUME EventsInductive, NEW q \in Queue \cap openFds, NEW infos \in ListsOf(Info), Select(q, infos)
    PROVE  EventsInductive'
<1>1. infos \in Seq(Info)
  BY ListsAreSeqs
<1>2. TablesOK(AfterSelects(q, infos)[Len(infos)])
  BY <1>1, SelectsKept DEF EventsInductive
<1>3. TablesOK(State)'
  BY <1>2, BecomesKept DEF Select
<1>4. WaitedOK'
  BY DEF EventsInductive, WaitedOK, Select
<1> QED BY <1>3, <1>4 DEF EventsInductive

LEMMA EpollWaitKept ==
    ASSUME EventsInductive, NEW t \in Waiter, NEW q \in Queue, NEW ready \in ListsOf(WaitObject),
           EpollWait(t, q, ready)
    PROVE  EventsInductive'
<1>1. /\ RecordsOK(records) /\ FreeListOK(records, sFreeList, pages)
      /\ EntriesOK(records, epoll, selected)
  BY StateParts DEF EventsInductive
<1>2. ready \in Seq(WaitObject) /\ DOMAIN ready = 1 .. Len(ready) /\ Len(ready) \in Nat
  BY ListsAreSeqs
<1>3. \A e \in Queue \X WaitObject : epoll[e] \in Entry
  BY <1>1 DEF EntriesOK
<1>4. epoll' \in [Queue \X WaitObject -> Entry]
      /\ \A e \in Queue \X WaitObject :
            epoll'[e].record = epoll[e].record /\ (epoll'[e].armed => epoll[e].armed)
  <2>1. DOMAIN epoll = Queue \X WaitObject
    BY <1>1 DEF EntriesOK
  <2>2. \A e \in Queue \X WaitObject :
           /\ [epoll[e] EXCEPT !.armed = FALSE] \in Entry
           /\ [epoll[e] EXCEPT !.armed = FALSE].record = epoll[e].record
           /\ ~[epoll[e] EXCEPT !.armed = FALSE].armed
    BY <1>3 DEF Entry
  <2>3. DOMAIN epoll' = Queue \X WaitObject
        /\ \A e \in Queue \X WaitObject :
              epoll'[e] = [epoll[e] EXCEPT !.armed = FALSE] \/ epoll'[e] = epoll[e]
    BY <2>1 DEF EpollWait
  <2>4. epoll' = [e \in Queue \X WaitObject |-> epoll'[e]]
    BY <2>1 DEF EpollWait
  <2>5. \A e \in Queue \X WaitObject : epoll'[e] \in Entry
    BY <1>3, <2>2, <2>3, Zenon
  <2>6. epoll' \in [Queue \X WaitObject -> Entry]
    BY <2>4, <2>5
  <2>7. \A e \in Queue \X WaitObject :
            epoll'[e].record = epoll[e].record /\ (epoll'[e].armed => epoll[e].armed)
    BY <2>2, <2>3, Zenon
  <2> QED BY <2>6, <2>7
<1>5. EntriesOK(records, epoll, selected)'
  <2>1. UNCHANGED <<openFds, records, selected>>
    BY DEF EpollWait
  <2> QED BY <1>1, <1>4, <2>1 DEF EntriesOK
<1>6. RecordsOK(records)' /\ FreeListOK(records, sFreeList, pages)'
  BY <1>1 DEF EpollWait, RecordsOK, FreeListOK
<1>7. WaitedOK'
  <2> DEFINE told == [i \in DOMAIN ready |-> epoll[<<q, ready[i]>>].record]
             w == [queue |-> q, events |-> told]
  <2>1. \A i \in 1 .. Len(ready) : epoll[<<q, ready[i]>>].record \in Records
    <3> TAKE i \in 1 .. Len(ready)
    <3>1. ready[i] \in WaitObject /\ epoll[<<q, ready[i]>>].armed
      BY <1>2 DEF EpollWait
    <3>2. epoll[<<q, ready[i]>>] \in Entry /\ epoll[<<q, ready[i]>>].record # NoRecord
      BY <1>1, <1>3, <3>1 DEF EntriesOK
    <3> QED BY <3>2 DEF Entry
  <2>2. told \in Seq(Records)
    BY <1>2, <2>1
  <2> HIDE DEF told
  <2>3. w \in [queue : Queue, events : Seq(Records)]
    BY <2>2
  <2>4. waited' = [waited EXCEPT ![t] = <<w>>]
    BY DEF EpollWait, told
  <2> HIDE DEF w
  <2> QED BY <2>3, <2>4 DEF EventsInductive, WaitedOK
<1> QED BY <1>5, <1>6, <1>7, StateParts DEF EventsInductive, TablesOK, State, QueueTables

LEMMA WaitEndKept ==
    ASSUME EventsInductive, NEW t \in Waiter, WaitEnd(t)
    PROVE  EventsInductive'
<1> DEFINE w == waited[t][1]
<1>1. w.queue \in Queue /\ w.events \in Seq(Records)
  BY DEF EventsInductive, WaitedOK, WaitEnd
<1>2. TablesOK(AfterReports(w.queue, w.events)[Len(w.events)])
  BY <1>1, ReportsKept DEF EventsInductive
<1>3. TablesOK(State)'
  BY <1>2, BecomesKept DEF WaitEnd
<1>4. WaitedOK'
  BY DEF EventsInductive, WaitedOK, WaitEnd
<1> QED BY <1>3, <1>4 DEF EventsInductive

LEMMA OpenFileKept ==
    ASSUME EventsInductive, NEW fd, OpenFile(fd)
    PROVE  EventsInductive'
<1>1. /\ RecordsOK(records) /\ FreeListOK(records, sFreeList, pages)
      /\ EntriesOK(records, epoll, selected)
  BY StateParts DEF EventsInductive
<1>2. EntriesOK(records, epoll, selected)'
  <2>1. UNCHANGED <<records, epoll, selected>> /\ openFds \subseteq openFds'
    BY DEF OpenFile
  <2> QED BY <1>1, <2>1 DEF EntriesOK
<1>3. RecordsOK(records)' /\ FreeListOK(records, sFreeList, pages)' /\ WaitedOK'
  BY <1>1 DEF OpenFile, RecordsOK, FreeListOK, EventsInductive, WaitedOK
<1> QED BY <1>2, <1>3 DEF EventsInductive, TablesOK, State, QueueTables

LEMMA CloseFileKept ==
    ASSUME EventsInductive, NEW fd, CloseFile(fd)
    PROVE  EventsInductive'
<1> DEFINE gone == [record |-> NoRecord, armed |-> FALSE, oneShot |-> FALSE]
<1>1. /\ RecordsOK(records) /\ FreeListOK(records, sFreeList, pages)
      /\ EntriesOK(records, epoll, selected)
  BY StateParts DEF EventsInductive
<1>2. gone \in Entry /\ gone.record = NoRecord /\ ~ gone.armed
  BY DEF Entry
<1>3. DOMAIN epoll = Queue \X WaitObject /\ \A e \in Queue \X WaitObject : epoll[e] \in Entry
  BY <1>1 DEF EntriesOK
<1> HIDE DEF gone
<1>4. epoll' = [e \in Queue \X WaitObject |-> IF fd \in {e[1], e[2]} THEN gone ELSE epoll[e]]
  BY <1>3 DEF CloseFile, gone
<1>5. epoll' \in [Queue \X WaitObject -> Entry]
      /\ \A q \in Queue, o \in WaitObject :
            epoll'[<<q, o>>] = IF fd \in {q, o} THEN gone ELSE epoll[<<q, o>>]
  BY <1>2, <1>3, <1>4
<1>6. selected' \subseteq Queue \X WaitObject
      /\ \A q \in Queue, o \in WaitObject :
            <<q, o>> \in selected' <=> <<q, o>> \in selected /\ fd \notin {q, o}
  BY <1>1 DEF CloseFile, EntriesOK
<1>7. records' = records /\ openFds' = openFds \ {fd}
  BY DEF CloseFile
<1>8. EntriesOK(records, epoll, selected)'
  <2> SUFFICES ASSUME NEW q \in Queue, NEW o \in WaitObject
               PROVE  /\ <<q, o>> \in selected' <=> epoll'[<<q, o>>].record # NoRecord
                      /\ epoll'[<<q, o>>].armed => epoll'[<<q, o>>].record # NoRecord
                      /\ epoll'[<<q, o>>].record # NoRecord =>
                            /\ {q, o} \subseteq openFds'
                            /\ records'[epoll'[<<q, o>>].record].queueFd = q
                            /\ records'[epoll'[<<q, o>>].record].objectFd = o
    BY <1>5, <1>6 DEF EntriesOK
  <2>1. CASE fd \in {q, o}
    BY <2>1, <1>2, <1>5, <1>6
  <2>2. CASE fd \notin {q, o}
    <3>1. epoll'[<<q, o>>] = epoll[<<q, o>>] /\ (<<q, o>> \in selected' <=> <<q, o>> \in selected)
      BY <2>2, <1>5, <1>6
    <3> QED BY <3>1, <2>2, <1>1, <1>7 DEF EntriesOK
  <2> QED BY <2>1, <2>2
<1>9. RecordsOK(records)' /\ FreeListOK(records, sFreeList, pages)' /\ WaitedOK'
  BY <1>1 DEF CloseFile, RecordsOK, FreeListOK, EventsInductive, WaitedOK
<1> QED BY <1>8, <1>9 DEF EventsInductive, TablesOK, State, QueueTables

LEMMA EventsKept == EventsInductive /\ [EventQueueStep]_eventVars => EventsInductive'
<1> SUFFICES ASSUME EventsInductive, [EventQueueStep]_eventVars PROVE EventsInductive'
  OBVIOUS
<1>1. CASE UNCHANGED eventVars
  BY <1>1 DEF eventVars, EventsInductive, TablesOK, RecordsOK, FreeListOK, EntriesOK, State, QueueTables, WaitedOK
<1>2. CASE EventQueueStep
  BY <1>2, SelectKept, EpollWaitKept, WaitEndKept, OpenFileKept, CloseFileKept DEF EventQueueStep
<1> QED BY <1>1, <1>2

LEMMA EventsAgree == EventsInductive => QueueAgrees
<1> SUFFICES ASSUME EventsInductive, NEW e \in DOMAIN epoll
             PROVE  LET found == {r \in Records : records[r].queueFd = e[1] /\ records[r].objectFd = e[2]}
                    IN /\ Cardinality(found) <= 1
                       /\ e \in selected <=> epoll[e].record # NoRecord
                       /\ e \in selected => found = {epoll[e].record}
  BY DEF QueueAgrees
<1> DEFINE found == {r \in Records : records[r].queueFd = e[1] /\ records[r].objectFd = e[2]}
<1>1. RecordsOK(records) /\ EntriesOK(records, epoll, selected)
  BY StateParts DEF EventsInductive
<1>2. PICK q \in Queue, o \in WaitObject : e = <<q, o>>
  BY <1>1 DEF EntriesOK
<1>3. \A r, x \in found : r = x
  BY <1>1, <1>2, NumbersNotFree DEF RecordsOK
<1>4. Cardinality(found) <= 1
  <2>1. CASE found = {}
    <3>1. Cardinality(found) = 0
      BY <2>1, FS_EmptySet
    <3> QED BY <3>1
  <2>2. CASE found # {}
    <3>1. PICK r : found = {r}
      BY <2>2, <1>3
    <3>2. Cardinality(found) = 1
      BY <3>1, FS_Singleton
    <3> QED BY <3>2
  <2> QED BY <2>1, <2>2
<1>5. e \in selected <=> epoll[e].record # NoRecord
  BY <1>1, <1>2 DEF EntriesOK
<1>6. e \in selected => found = {epoll[e].record}
  <2> SUFFICES ASSUME e \in selected PROVE found = {epoll[e].record}
    OBVIOUS
  <2>1. epoll[e] \in Entry /\ epoll[e].record # NoRecord
    BY <1>1, <1>2, <1>5 DEF EntriesOK
  <2>2. epoll[e].record \in found
    BY <2>1, <1>1, <1>2 DEF EntriesOK, Entry
  <2> QED BY <2>2, <1>3
<1> QED BY <1>4, <1>5, <1>6

\* The records of monika and epoll agree, for any number of threads, queues, objects and
\* pages of records, whatever is selected, reported and closed between the return of
\* epoll_wait and the lock.  (event_queue.cpp)
THEOREM EventQueuesAgree == EventQueueSpec => []QueueAgrees
<1>1. EventsInductive /\ [EventQueueStep]_eventVars => EventsInductive'
  BY EventsKept
<1> QED BY <1>1, EventsInitially, EventsAgree, PTL DEF EventQueueSpec
=============================================================================
