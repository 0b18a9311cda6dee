------------------------------- MODULE Infos --------------------------------
(***************************************************************************)
(* What the server knows of a team (Process::_info) and tells others of it *)
(* (get_team_info, get_next_team_info): how many threads and images it     *)
(* has, over start, fork, exec and exit.  A count of 0 is filled in from   *)
(* the host (server_fill_team_info).                                       *)
(*                                                                         *)
(* Connections are the subject of Teams; here a thread is registered with  *)
(* its process in one step and unregistered in another.                    *)
(***************************************************************************)
EXTENDS Integers, FiniteSets

CONSTANTS
    InfoTeam,   \* processes
    InfoTid,    \* numbers of threads in a process; 1 is the first
    MaxImages   \* bound: images of a team

ASSUME InfosAssumption == 1 \in InfoTid /\ MaxImages \in Nat

VARIABLES
    processes,    \* System::_processes
    tasks,        \* host: the threads of a process
    teamThreads,  \* Process::_threads
    imageCount,   \* the size of Process::_images
    teamInfo,     \* the counts in Process::_info
    stage,        \* how far the loader of a process is
    forking,      \* forks of the host that the parent has not reported yet
    inherited,    \* history: teams whose counts are the parent's since a fork
    execed        \* history: teams whose images are those of before an exec

infosVars == <<processes, tasks, teamThreads, imageCount, teamInfo, stage, forking, inherited, execed>>

\* Process::Process
NewInfo == [threads |-> 0, images |-> 0]

InfosInit ==
    /\ processes = {} /\ forking = {} /\ inherited = {} /\ execed = {}
    /\ tasks = [p \in InfoTeam |-> {}]
    /\ teamThreads = [p \in InfoTeam |-> {}]
    /\ imageCount = [p \in InfoTeam |-> 0]
    /\ teamInfo = [p \in InfoTeam |-> NewInfo]
    /\ stage = [p \in InfoTeam |-> "none"]

-----------------------------------------------------------------------------
(* Threads *)

\* mutant: unregistering does not count
CountedAdded(p, threads) ==
    IF Cardinality(threads) < Cardinality(teamThreads[p]) THEN teamInfo[p]
    ELSE [teamInfo[p] EXCEPT !.threads = Cardinality(threads)]
\* Process::RegisterThread and UnregisterThread
Counted(p, threads) == [teamInfo[p] EXCEPT !.threads = Cardinality(threads)]

ForkingTasks(p) == {f[2] : f \in {g \in forking : g[1] = p}}
\* host: a program is started
StartProgram(p) ==
    /\ tasks[p] = {} /\ p \notin processes
    /\ tasks' = [tasks EXCEPT ![p] = {1}]
    /\ stage' = [stage EXCEPT ![p] = "loading"]
    /\ UNCHANGED <<processes, teamThreads, imageCount, teamInfo, forking, inherited, execed>>

\* connect, of a process that is not known yet
RegisterProcess(p) ==
    /\ p \notin processes /\ 1 \in tasks[p]
    /\ processes' = processes \cup {p}
    /\ teamInfo' = [teamInfo EXCEPT ![p] = NewInfo]
    /\ UNCHANGED <<tasks, teamThreads, imageCount, stage, forking, inherited, execed>>
RegisterThread(p, t) ==
    /\ p \in processes /\ t \in tasks[p] \ teamThreads[p]
    /\ teamThreads' = [teamThreads EXCEPT ![p] = @ \cup {t}]
    /\ teamInfo' = [teamInfo EXCEPT ![p] = Counted(p, teamThreads[p] \cup {t})]
    /\ inherited' = inherited \ {p}
    /\ UNCHANGED <<processes, tasks, imageCount, stage, forking, execed>>

\* A running thread of the team starts another.
TeamRuns(p) == stage[p] = "running" /\ tasks[p] \cap teamThreads[p] # {}
StartTask(p, t) ==
    /\ TeamRuns(p) /\ t \notin tasks[p] \cup teamThreads[p]
    /\ tasks' = [tasks EXCEPT ![p] = @ \cup {t}]
    /\ UNCHANGED <<processes, teamThreads, imageCount, teamInfo, stage, forking, inherited, execed>>
\* host: a thread ends, and the server hears of it later
EndTask(p, t) ==
    /\ t \in tasks[p]
    /\ tasks' = [tasks EXCEPT ![p] = @ \ {t}]
    /\ forking' = {f \in forking : <<f[1], f[2]>> # <<p, t>>}
    /\ UNCHANGED <<processes, teamThreads, imageCount, teamInfo, stage, inherited, execed>>
\* disconnect: with its last thread the process goes.
DisconnectThread(p, t) ==
    LET left == teamThreads[p] \ {t} IN
    /\ t \in teamThreads[p] \ tasks[p]
    /\ teamThreads' = [teamThreads EXCEPT ![p] = left]
    /\ teamInfo' = [teamInfo EXCEPT ![p] = Counted(p, left)]
    /\ inherited' = inherited \ {p}
    /\ IF left # {} THEN UNCHANGED <<processes, imageCount, stage, execed>>
       ELSE /\ processes' = processes \ {p} /\ execed' = execed \ {p}
            /\ imageCount' = [imageCount EXCEPT ![p] = 0]
            /\ stage' = [stage EXCEPT ![p] = "none"]
    /\ UNCHANGED <<tasks, forking>>

-----------------------------------------------------------------------------
(* The loader of a team *)

\* register_team_info of the server: the counts are the zeros of the guest.
SetInfo(p) == teamInfo' = [teamInfo EXCEPT ![p] = NewInfo]
\* loader_register_process
RegisterTeamInfo(p) ==
    /\ stage[p] = "loading" /\ 1 \in teamThreads[p] \cap tasks[p]
    /\ SetInfo(p)
    /\ stage' = [stage EXCEPT ![p] = "running"]
    /\ execed' = execed \ {p}
    /\ UNCHANGED <<processes, tasks, teamThreads, imageCount, forking, inherited>>

Images(p, n) ==
    /\ TeamRuns(p)
    /\ imageCount' = [imageCount EXCEPT ![p] = n]
    /\ teamInfo' = [teamInfo EXCEPT ![p].images = n]
    /\ UNCHANGED <<processes, tasks, teamThreads, stage, forking, inherited, execed>>
RegisterImage(p) == imageCount[p] < MaxImages /\ Images(p, imageCount[p] + 1)
UnregisterImage(p) == imageCount[p] > 0 /\ Images(p, imageCount[p] - 1)

\* host: fork; the child may connect before the parent reports it.
ForkTask(p, t, q) ==
    /\ TeamRuns(p) /\ t \in (tasks[p] \cap teamThreads[p]) \ ForkingTasks(p)
    /\ tasks[q] = {} /\ q \notin processes
    /\ tasks' = [tasks EXCEPT ![q] = {1}]
    /\ stage' = [stage EXCEPT ![q] = "forked"]
    /\ forking' = forking \cup {<<p, t, q>>}
    /\ UNCHANGED <<processes, teamThreads, imageCount, teamInfo, inherited, execed>>
\* fork of the server: the child gets the parent's counts, threads included.
ReportFork(p, t, q) ==
    /\ <<p, t, q>> \in forking
    /\ processes' = processes \cup {q}
    /\ teamInfo' = [teamInfo EXCEPT ![q] = teamInfo[p]]
    /\ imageCount' = [imageCount EXCEPT ![q] = imageCount[p]]
    /\ inherited' = inherited \cup {q}
    /\ forking' = forking \ {<<p, t, q>>}
    /\ stage' = [stage EXCEPT ![q] = "running"]
    /\ UNCHANGED <<tasks, teamThreads, execed>>

\* exec of a team with one thread, which the server sees as a disconnect of its
\* last one: the images are cleared and not counted.
ExecTeam(p) ==
    /\ TeamRuns(p) /\ tasks[p] = {1} /\ teamThreads[p] = {1} /\ ForkingTasks(p) = {}
    /\ teamThreads' = [teamThreads EXCEPT ![p] = {}]
    /\ teamInfo' = [teamInfo EXCEPT ![p] = Counted(p, {})]
    /\ imageCount' = [imageCount EXCEPT ![p] = 0]
    /\ stage' = [stage EXCEPT ![p] = "loading"]
    /\ execed' = execed \cup {p}
    /\ inherited' = inherited \ {p}
    /\ UNCHANGED <<processes, tasks, forking>>

InfosStep ==
    \E p \in InfoTeam :
        \/ StartProgram(p) \/ RegisterProcess(p) \/ RegisterTeamInfo(p)
        \/ RegisterImage(p) \/ UnregisterImage(p) \/ ExecTeam(p)
        \/ \E t \in InfoTid : RegisterThread(p, t) \/ StartTask(p, t) \/ EndTask(p, t) \/ DisconnectThread(p, t)
        \/ \E t \in InfoTid, q \in InfoTeam \ {p} : ForkTask(p, t, q) \/ ReportFork(p, t, q)

InfosSpec == InfosInit /\ [][InfosStep]_infosVars

-----------------------------------------------------------------------------
\* server_fill_team_info: what is 0 comes from the host.
FillTeamInfo(p, info) ==
    [info EXCEPT !.threads = IF @ = 0 THEN Cardinality(tasks[p]) ELSE @]
\* get_team_info
GetTeamInfo(p) == FillTeamInfo(p, teamInfo[p])

\* The thread count that a team is told of another is right: at least the threads
\* that the host runs and the server knows, at most those that either has.  And
\* the image count is that of the images listed, or left to the host.  After a
\* fork the child has its parent's thread count until its next thread comes or
\* goes: for good, when it connected before the parent reported the fork.  After
\* an exec the image count is the old one until the loader registers the team.
\* (RegisterThread, UnregisterThread, register_team_info, Process::Fork)
TeamInfoAgrees ==
    \A p \in processes :
        /\ p \notin inherited =>
            GetTeamInfo(p).threads \in
                Cardinality(tasks[p] \cap teamThreads[p])..Cardinality(tasks[p] \cup teamThreads[p])
        /\ p \notin execed => GetTeamInfo(p).images \in {0, imageCount[p]}
=============================================================================
