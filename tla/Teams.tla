------------------------------- MODULE Teams -------------------------------
(***************************************************************************)
(* How guest threads come and go: the connections, threads and processes   *)
(* that hyclone_server keeps (system.cpp, process.cpp, server_dispatch.cpp,*)
(* the poll loop of server_main.cpp), and what haiku_loader does when a    *)
(* guest starts, spawns a thread, forks, execs, exits or is killed.        *)
(*                                                                         *)
(* Every guest thread has one socket.  The main loop reads its calls and   *)
(* gives each to a worker; when the socket is closed it closes its end and *)
(* lets a worker call disconnect.  A worker's critical sections under the  *)
(* system lock or a process lock are its steps.                            *)
(***************************************************************************)
EXTENDS Naturals, FiniteSets

CONSTANTS
    Guest,       \* incarnations of guest threads
    team,        \* the pid of each
    tid,         \* the thread id of each (an exec keeps it)
    origin,      \* how it comes to life: launch, spawn, fork, exec
    parent,      \* which guest spawns, forks or execs it
    Fds,         \* bound: 1..Fds are the server's descriptors for sockets
    Killable,    \* teams that may be killed by a signal
    None

Team == {team[g] : g \in Guest}
Tid == {tid[g] : g \in Guest}
Fd == 1..Fds
Ident(g) == <<team[g], tid[g]>>

State == {"unborn", "waiting", "up", "spawning", "atfork", "execing", "gone"}
Request == {"connect", "forkwait", "work", "fork", "exec", "unexec", "disconnect"}
Step == {"c1", "c2", "c3", "c4", "d1", "d2", "run"}
Idents == {Ident(g) : g \in Guest}

\* The worker for a guest's call and the one for its hangup.
Worker == Guest \X {"call", "hang"}

ASSUME TeamsAssumption ==
    /\ team \in [Guest -> Team] /\ tid \in [Guest -> Tid]
    /\ origin \in [Guest -> {"launch", "spawn", "fork", "exec"}]
    /\ parent \in [Guest -> Guest \cup {None}]
    /\ Fds \in Nat
    /\ Killable \subseteq Team
    /\ IsFiniteSet(Guest) /\ None \notin Guest /\ None \notin Fd
    /\ None \notin Idents /\ None \notin Request /\ None \notin Step

\* A team begins with one thread, which is launched or forked.
Root(g) == origin[g] \in {"launch", "fork"}

\* Pids and thread ids are unique, and a new image has the ids of the first
\* thread of its team, whichever thread execs.
ASSUME FamilyAssumption ==
    \A g, h \in Guest :
        /\ Root(g) /\ Root(h) /\ team[g] = team[h] => g = h
        /\ ~Root(g) => parent[g] \in Guest /\ team[parent[g]] = team[g]
        /\ origin[g] = "fork" => parent[g] \in Guest /\ team[parent[g]] # team[g]
        /\ origin[g] = "exec" /\ Root(h) /\ team[h] = team[g] => tid[g] = tid[h]
        /\ origin[g] = "spawn" /\ g # h => tid[g] # tid[h]
        /\ tid[g] = tid[h] => team[g] = team[h]

VARIABLES
    st,          \* guest: unborn, waiting (for a reply), up, spawning, atfork, execing, gone
    req,         \* guest: its latest call
    sent,        \* guest: the call is in the socket, not yet read
    newest,      \* guest: the one that it spawned or forked last
    fd,          \* the descriptor that accept returned for a guest
    open,        \* the guest at the other end of a descriptor
    job,         \* worker: its next step
    ctx,         \* worker: context.pid and context.tid
    connections, \* System::_connections
    procs,       \* System::_processes
    sysThreads,  \* System::_threads
    threads,     \* Process::_threads
    count,       \* Process::_info.thread_count
    executing,   \* Process::_isExecutingExec
    unlocked,    \* Process::_forkUnlocked
    left,        \* history: guests whose disconnect call has returned to them
    refused,     \* history: guests that got B_BAD_VALUE for a call
    killed,      \* history: teams that were killed
    crossed      \* history: accept returned a descriptor with which the server
                 \* was not through, or a team was replaced by a new image while
                 \* it was in no exec or another of its threads was in a call that
                 \* connects, forks, leaves or takes part in an exec

vars == <<st, req, sent, newest, fd, open, job, ctx, connections, procs, sysThreads,
          threads, count, executing, unlocked, left, refused, killed, crossed>>
guests == <<st, req, sent, newest>>
sockets == <<fd, open>>
process == <<threads, count, executing, unlocked>>
system == <<connections, procs, sysThreads, process>>
seen == <<left, refused, killed, crossed>>

TypeOK ==
    /\ st \in [Guest -> State]
    /\ req \in [Guest -> Request \cup {None}]
    /\ sent \in [Guest -> BOOLEAN]
    /\ newest \in [Guest -> Guest \cup {None}]
    /\ fd \in [Guest -> Fd \cup {None}]
    /\ open \in [Fd -> Guest \cup {None}]
    /\ job \in [Worker -> Step \cup {None}]
    /\ ctx \in [Worker -> Idents \cup {None}]
    /\ connections \in [Fd -> Idents \cup {None}]
    /\ procs \subseteq Team /\ sysThreads \subseteq Tid
    /\ threads \in [Team -> SUBSET Tid]
    /\ count \in [Team -> 0..Cardinality(Tid)]
    /\ executing \in [Team -> BOOLEAN] /\ unlocked \in [Team -> BOOLEAN]
    /\ left \subseteq Guest /\ refused \subseteq Guest /\ killed \subseteq Team
    /\ crossed \in BOOLEAN

Init ==
    /\ st = [g \in Guest |-> "unborn"]
    /\ req = [g \in Guest |-> None]
    /\ sent = [g \in Guest |-> FALSE]
    /\ newest = [g \in Guest |-> None]
    /\ fd = [g \in Guest |-> None]
    /\ open = [f \in Fd |-> None]
    /\ job = [w \in Worker |-> None]
    /\ ctx = [w \in Worker |-> None]
    /\ connections = [f \in Fd |-> None]
    /\ procs = {} /\ sysThreads = {}
    /\ threads = [p \in Team |-> {}]
    /\ count = [p \in Team |-> 0]
    /\ executing = [p \in Team |-> FALSE]
    /\ unlocked = [p \in Team |-> FALSE]
    /\ left = {} /\ refused = {} /\ killed = {} /\ crossed = FALSE

-----------------------------------------------------------------------------
(* The guests. *)

Born == {g \in Guest : st[g] \notin {"unborn", "gone"}}

\* g sends a call and waits for the answer.  A new guest calls connect.
Send(g, r) ==
    /\ st' = [st EXCEPT ![g] = "waiting"]
    /\ req' = [req EXCEPT ![g] = r]
    /\ sent' = [sent EXCEPT ![g] = TRUE]
    /\ UNCHANGED newest

\* parent p goes to state s (or calls r) while its child c connects.
SendBoth(p, s, r, c) ==
    /\ st' = [st EXCEPT ![p] = s, ![c] = "waiting"]
    /\ req' = [req EXCEPT ![p] = r, ![c] = "connect"]
    /\ sent' = [sent EXCEPT ![p] = s = "waiting", ![c] = TRUE]
    /\ newest' = [newest EXCEPT ![p] = c]

Launch(g) ==
    /\ st[g] = "unborn" /\ origin[g] = "launch"
    /\ Send(g, "connect")
    /\ UNCHANGED <<sockets, job, ctx, system, seen>>

\* Any server call, and the one that ends the connection.
Call(g, r) ==
    /\ st[g] = "up" /\ r \in {"work", "disconnect"}
    /\ Send(g, r)
    /\ UNCHANGED <<sockets, job, ctx, system, seen>>

\* loader_spawn_thread waits until the new thread has announced itself.
Spawn(g, c) ==
    /\ st[g] = "up" /\ st[c] = "unborn" /\ origin[c] = "spawn" /\ parent[c] = g
    /\ SendBoth(g, "spawning", req[g], c)
    /\ UNCHANGED <<sockets, job, ctx, system, seen>>

SpawnDone(g) ==
    /\ st[g] = "spawning" /\ st[newest[g]] \in {"up", "gone"}
    /\ st' = [st EXCEPT ![g] = "up"]
    /\ UNCHANGED <<req, sent, newest, sockets, job, ctx, system, seen>>

\* fork(): the child connects while the parent calls the server's fork.
Fork(g, c) ==
    /\ st[g] = "up" /\ st[c] = "unborn" /\ origin[c] = "fork" /\ parent[c] = g
    /\ SendBoth(g, "waiting", "fork", c)
    /\ UNCHANGED <<sockets, job, ctx, system, seen>>

\* loader_hserver_child_atfork, after the connection.
ForkWait(g) ==
    /\ st[g] = "atfork"
    /\ Send(g, "forkwait")
    /\ UNCHANGED <<sockets, job, ctx, system, seen>>

\* loader_exec tells the server first; execve closes the sockets of all
\* threads, and the new image connects with the same ids.
StartExec(g) ==
    /\ st[g] = "up" /\ \E x \in Guest : origin[x] = "exec" /\ parent[x] = g
    /\ Send(g, "exec")
    /\ UNCHANGED <<sockets, job, ctx, system, seen>>

\* The server knows of the exec, and no other thread of the team has a call under
\* way that changes what it knows.
Clean(g) ==
    /\ executing[team[g]]
    /\ \A h \in Guest \ {g} : team[h] = team[g] /\ st[h] = "waiting" => req[h] = "work"

Exec(g, x) ==
    /\ st[g] = "execing" /\ st[x] = "unborn" /\ origin[x] = "exec" /\ parent[x] = g
    /\ st' = [h \in Guest |-> IF h = x THEN "waiting"
                              ELSE IF h \in Born /\ team[h] = team[g] THEN "gone"
                              ELSE st[h]]
    /\ req' = [req EXCEPT ![x] = "connect"]
    /\ sent' = [sent EXCEPT ![x] = TRUE]
    /\ crossed' = (crossed \/ ~Clean(g))
    /\ UNCHANGED <<newest, sockets, job, ctx, system, left, refused, killed>>

ExecFailed(g) ==
    /\ st[g] = "execing"
    /\ Send(g, "unexec")
    /\ UNCHANGED <<sockets, job, ctx, system, seen>>

\* All threads of a team end without a word.
Kill(p) ==
    /\ p \in Killable
    /\ \E g \in Born : team[g] = p
    /\ st' = [h \in Guest |-> IF h \in Born /\ team[h] = p THEN "gone" ELSE st[h]]
    /\ killed' = killed \cup {p}
    /\ UNCHANGED <<req, sent, newest, sockets, job, ctx, system, left, refused, crossed>>

-----------------------------------------------------------------------------
(* The main loop. *)

\* accept returns the lowest free descriptor.
Free == {f \in Fd : open[f] = None}

\* A worker still uses the descriptor for another guest, or the entry of
\* another one is there, which RegisterConnection will not replace.
InUse(f) ==
    \/ connections[f] # None
    \/ \E w \in Worker : job[w] # None /\ fd[w[1]] = f

Accept(g) ==
    /\ st[g] # "unborn" /\ fd[g] = None
    /\ \E f \in Free :
        /\ \A e \in Free : f <= e
        /\ fd' = [fd EXCEPT ![g] = f]
        /\ open' = [open EXCEPT ![f] = g]
        /\ crossed' = (crossed \/ InUse(f))
    /\ UNCHANGED <<guests, job, ctx, system, left, refused, killed>>

HasSocket(g) == fd[g] # None /\ open[fd[g]] = g

\* POLLIN: read a call and start a worker.
Dispatch(g) ==
    /\ HasSocket(g) /\ sent[g] /\ job[<<g, "call">>] = None
    /\ sent' = [sent EXCEPT ![g] = FALSE]
    /\ job' = [job EXCEPT ![<<g, "call">>] = IF req[g] = "connect" THEN "c1" ELSE "d1"]
    /\ UNCHANGED <<st, req, newest, sockets, ctx, system, seen>>

\* The socket is at its end: close it, and let a worker disconnect.
Hangup(g) ==
    /\ HasSocket(g) /\ st[g] = "gone" /\ ~sent[g]
    /\ open' = [open EXCEPT ![fd[g]] = None]
    /\ job' = [job EXCEPT ![<<g, "hang">>] = "d1"]
    /\ UNCHANGED <<guests, fd, ctx, system, seen>>

-----------------------------------------------------------------------------
(* The workers. *)

\* The state of a guest after the answer to its call.
After(g, ok) ==
    CASE ~ok /\ req[g] = "connect" -> "gone"
      [] req[g] = "disconnect" -> "gone"
      [] ok /\ req[g] = "connect" /\ origin[g] = "fork" -> "atfork"
      [] ok /\ req[g] = "exec" -> "execing"
      [] OTHER -> "up"

\* The worker ends; its guest, if it is still there, gets the answer.
Reply(w, ok) ==
    /\ job' = [job EXCEPT ![w] = None]
    /\ ctx' = [ctx EXCEPT ![w] = None]
    /\ IF w[2] = "call" /\ st[w[1]] = "waiting"
         THEN /\ st' = [st EXCEPT ![w[1]] = After(w[1], ok)]
              /\ refused' = IF ok THEN refused ELSE refused \cup {w[1]}
         ELSE UNCHANGED <<st, refused>>
    /\ UNCHANGED <<req, sent, newest>>

Go(w, s) == job' = [job EXCEPT ![w] = s] /\ UNCHANGED <<guests, refused>>

\* RegisterProcess: a new Process object.
NewProcess(p) ==
    /\ procs' = procs \cup {p}
    /\ threads' = [threads EXCEPT ![p] = {}]
    /\ count' = [count EXCEPT ![p] = 0]
    /\ executing' = [executing EXCEPT ![p] = FALSE]
    /\ unlocked' = [unlocked EXCEPT ![p] = FALSE]

\* connect: RegisterConnection (emplace: an entry that is there stays) and the
\* process, which may be there already through fork, exec or another thread.
Connect1(w) ==
    LET g == w[1] IN
    /\ job[w] = "c1"
    /\ connections' = [connections EXCEPT ![fd[g]] = IF @ = None THEN Ident(g) ELSE @]
    /\ IF team[g] \in procs THEN Go(w, "c2") /\ UNCHANGED <<procs, process>>
                            ELSE Go(w, "c3") /\ NewProcess(team[g])
    /\ UNCHANGED <<sockets, ctx, sysThreads, left, killed, crossed>>

\* WaitForExec
MayConnect(p) == ~executing[p]

Connect2(w) ==
    /\ job[w] = "c2" /\ MayConnect(team[w[1]])
    /\ Go(w, "c3")
    /\ UNCHANGED <<sockets, ctx, system, left, killed, crossed>>

\* System::RegisterThread, Process::RegisterThread
Connect3(w) ==
    /\ job[w] = "c3"
    /\ sysThreads' = sysThreads \cup {tid[w[1]]}
    /\ Go(w, "c4")
    /\ UNCHANGED <<sockets, ctx, connections, procs, process, left, killed, crossed>>

Connect4(w) ==
    LET g == w[1] IN
    /\ job[w] = "c4"
    /\ threads' = [threads EXCEPT ![team[g]] = @ \cup {tid[g]}]
    /\ count' = [count EXCEPT ![team[g]] = Cardinality(threads'[team[g]])]
    /\ Reply(w, TRUE)
    /\ UNCHANGED <<sockets, connections, procs, sysThreads, executing, unlocked, left, killed, crossed>>

\* server_dispatch: the process behind the connection, then the thread.
Dispatch1(w) ==
    LET c == connections[fd[w[1]]] IN
    /\ job[w] = "d1"
    /\ IF c # None /\ c[1] \in procs
         THEN Go(w, "d2") /\ ctx' = [ctx EXCEPT ![w] = c]
         ELSE Reply(w, FALSE)
    /\ UNCHANGED <<sockets, system, left, killed, crossed>>

Dispatch2(w) ==
    /\ job[w] = "d2"
    /\ IF ctx[w][2] \in threads[ctx[w][1]]
         THEN Go(w, "run") /\ UNCHANGED ctx
         ELSE Reply(w, FALSE)
    /\ UNCHANGED <<sockets, system, left, killed, crossed>>

Running(w, r) ==
    /\ job[w] = "run"
    /\ IF w[2] = "hang" THEN r = "disconnect" ELSE req[w[1]] = r

\* Calls that leave all this alone; wait_for_fork_unlock waits.
RunWork(w) ==
    /\ \/ Running(w, "work")
       \/ Running(w, "forkwait") /\ unlocked[ctx[w][1]]
    /\ Reply(w, TRUE)
    /\ UNCHANGED <<sockets, system, left, killed, crossed>>

RunExec(w) ==
    /\ Running(w, "exec") \/ Running(w, "unexec")
    /\ executing' = [executing EXCEPT ![ctx[w][1]] = req[w[1]] = "exec"]
    /\ Reply(w, TRUE)
    /\ UNCHANGED <<sockets, connections, procs, sysThreads, threads, count, unlocked, left, killed, crossed>>

AlwaysMakes(c) == TRUE  \* mutant: the child's process is replaced
MakesProcess(c) == team[c] \notin procs

\* The child's process is made if it has not connected yet, and the parent's
\* team info, with its thread count, is copied to it.
RunFork(w) ==
    LET c == newest[w[1]] IN
    /\ Running(w, "fork")
    /\ IF MakesProcess(c)
         THEN /\ procs' = procs \cup {team[c]}
              /\ threads' = [threads EXCEPT ![team[c]] = {}]
              /\ executing' = [executing EXCEPT ![team[c]] = FALSE]
         ELSE UNCHANGED <<procs, threads, executing>>
    /\ count' = [count EXCEPT ![team[c]] = count[ctx[w][1]]]
    /\ unlocked' = [unlocked EXCEPT ![team[c]] = TRUE]
    /\ Reply(w, TRUE)
    /\ UNCHANGED <<sockets, connections, sysThreads, left, killed, crossed>>

\* The process goes with its last thread, unless it is in an exec.
KeepsProcess(p) == executing[p]

\* The exec is over when the last thread of the old image is gone.
StillExecuting(p, last) == executing[p]  \* mutant: Exec(false) is forgotten
ExecFlag(p, last) == executing[p] /\ ~last

\* UnregisterConnection
KeepEntry(f) == connections  \* mutant
DropEntry(f) == [connections EXCEPT ![f] = None]

\* The count of threads that the process reports.
CountThreads(p) == Cardinality(threads'[p])

\* disconnect, by the guest or after a hangup.
RunDisconnect(w) ==
    LET p == ctx[w][1]
        last == threads[p] \ {ctx[w][2]} = {} IN
    /\ Running(w, "disconnect")
    /\ threads' = [threads EXCEPT ![p] = @ \ {ctx[w][2]}]
    /\ count' = [count EXCEPT ![p] = CountThreads(p)]
    /\ procs' = IF last /\ ~KeepsProcess(p) THEN procs \ {p} ELSE procs
    /\ executing' = [executing EXCEPT ![p] = ExecFlag(p, last)]
    /\ sysThreads' = sysThreads \ {ctx[w][2]}
    /\ connections' = DropEntry(fd[w[1]])
    /\ left' = IF w[2] = "call" /\ st[w[1]] = "waiting" THEN left \cup {w[1]} ELSE left
    /\ Reply(w, TRUE)
    /\ UNCHANGED <<sockets, unlocked, killed, crossed>>

-----------------------------------------------------------------------------
GuestStep ==
    \/ \E g \in Guest : Launch(g) \/ SpawnDone(g) \/ ForkWait(g) \/ StartExec(g) \/ ExecFailed(g)
    \/ \E g \in Guest, r \in {"work", "disconnect"} : Call(g, r)
    \/ \E g, c \in Guest : Spawn(g, c) \/ Fork(g, c) \/ Exec(g, c)
    \/ \E p \in Team : Kill(p)

MainLoop == \E g \in Guest : Accept(g) \/ Dispatch(g) \/ Hangup(g)

WorkerStep(w) ==
    \/ Connect1(w) \/ Connect2(w) \/ Connect3(w) \/ Connect4(w)
    \/ Dispatch1(w) \/ Dispatch2(w)
    \/ RunWork(w) \/ RunExec(w) \/ RunFork(w) \/ RunDisconnect(w)

Next == GuestStep \/ MainLoop \/ \E w \in Worker : WorkerStep(w)

Spec == Init /\ [][Next]_vars

-----------------------------------------------------------------------------
(* Properties *)

\* A guest that is alive is never refused: its connection leads to its own
\* ids, its process is registered and holds its thread, whatever forks, execs,
\* exits and hangups of others are under way.
NeverRefused == refused = {}

\* Calls are made in the name of the guest that made them.
OwnName ==
    \A g \in Guest :
        /\ job[<<g, "call">>] \in {"d2", "run"} => ctx[<<g, "call">>] = Ident(g)
        /\ st[g] = "up" => connections[fd[g]] = Ident(g)

\* Who is alive is served, and as himself, over forks, execs and hangups that the
\* workers handle in any order, and the tables hold ids of their kind, unless
\* somebody was crossed.  (connect, server_dispatch, fork, disconnect)
ServedAsSelf == ~crossed => TypeOK /\ NeverRefused /\ OwnName

\* Nothing is left behind: when all guests of a team are gone, none of them
\* killed, and no worker is busy for them, the server knows neither the process
\* nor its threads nor its connections, unless somebody was crossed.
Over(p) ==
    \A g \in Guest :
        team[g] = p => \/ st[g] = "unborn"
                       \/ /\ st[g] = "gone" /\ fd[g] # None /\ ~HasSocket(g)
                          /\ job[<<g, "call">>] = None /\ job[<<g, "hang">>] = None

NothingLeft ==
    \A p \in Team \ killed : Over(p) /\ ~crossed =>
        /\ p \notin procs
        /\ \A g \in Guest : team[g] = p => tid[g] \notin sysThreads
        /\ \A f \in Fd : connections[f] # None => connections[f][1] # p

\* Nobody waits in vain, unless somebody was crossed.  A connect that waits for the
\* end of an exec (Process::WaitForExec) waits for the hangup of a thread of the
\* old image, which has not been served yet and which the process still holds, or
\* for a thread that is about to exec or to say that it could not.  A child that
\* waits for its parent's fork call (Process::WaitForForkUnlock) waits for a call
\* that is under way, unless its parent is killed.
Unserved(g) ==
    \/ sent[g] \/ fd[g] = None \/ HasSocket(g)
    \/ job[<<g, "call">>] # None \/ job[<<g, "hang">>] # None

NobodyWaitsInVain ==
    ~crossed => \A g \in Guest :
        /\ job[<<g, "call">>] = "c2" /\ executing[team[g]]
               /\ (origin[g] = "exec" \/ team[g] \notin killed) =>
              \E h \in Guest \ {g} :
                  /\ team[h] = team[g] /\ tid[h] \in threads[team[g]]
                  /\ \/ st[h] = "gone" /\ Unserved(h)
                     \/ st[h] = "execing"
                     \/ st[h] = "waiting" /\ req[h] = "unexec"
        /\ Running(<<g, "call">>, "forkwait") /\ ~unlocked[team[g]] =>
              \/ team[parent[g]] \in killed
              \/ st[parent[g]] = "waiting" /\ req[parent[g]] = "fork" /\ Unserved(parent[g])

\* "For process that have already been gracefully disconnected, the call should
\* silently fail with a B_BAD_VALUE on server_dispatch before reaching
\* server_hserver_call_disconnect." (server_main.cpp)
SilentlyFails == \A g \in left : job[<<g, "hang">>] # "run"
=============================================================================
