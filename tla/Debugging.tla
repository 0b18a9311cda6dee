----------------------------- MODULE Debugging ------------------------------
(***************************************************************************)
(* How a debugger is installed in a team: the requests by which the server *)
(* runs code in a guest (thread.cpp, server_requests.cpp and the signal    *)
(* handler of loader_requests.cpp), install_team_debugger and register_nub *)
(* (server_debug.cpp), the loader's half with its nub thread               *)
(* (loader_debugger.cpp) and what disconnect does for debugged teams.      *)
(*                                                                         *)
(* One team is debugged.  A debugger is a team with one port, named like   *)
(* it.  The team has its main thread, in which requests are handled, its   *)
(* nub thread and a thread that reports what it does to the debugger.      *)
(***************************************************************************)
EXTENDS Integers, Sequences

CONSTANTS
    Debugger,   \* teams that want to debug
    Nobody

Team == "team"   \* the team that is debugged

ASSUME DebuggingAssumption == Nobody \notin Debugger /\ Team \notin Debugger

VARIABLES
    alive,   \* the teams that are there
    proc,    \* the server's Process of the team: its _debugger... fields
    req,     \* Thread::_requestLock and _request of the main thread
    answer,  \* the promise of a debugger's request
    asker,   \* how far the install_team_debugger of a debugger is
    handler, \* what the signal handler does, and for whom
    ld,      \* the static variables of loader_debugger.cpp
    nub,     \* the nub thread
    port,    \* the nub port
    sem,     \* the write lock: whether it exists, is held, and its owner
    rep,     \* how far the report of the third thread is
    susp,    \* Thread::_suspended of the third thread
    hasty    \* history: a debugger left between its installation and its entry

debugVars == <<alive, proc, req, answer, asker, handler, ld, nub, port, sem,
               rep, susp, hasty>>

Asking == {"idle", "found", "locking", "sending", "waiting", "setting", "done"}
Handling == {"none", "signalled", "acked", "sem", "port", "owner", "spawn",
             "register", "resume", "installed", "reply"}
Reporting == {"run", "suspend", "write", "release", "wait"}
NoPort == [open |-> FALSE, owner |-> Nobody, queue |-> <<>>]
NoSem == [state |-> "none", owner |-> Nobody]
Unloaded == [installing |-> FALSE, installed |-> FALSE, port |-> Nobody, flags |-> FALSE]

AnyTeam == Debugger \cup {Team, Nobody}
ProcType == [pid : Debugger \cup {Nobody}, port : Debugger \cup {Nobody}, nub : BOOLEAN]
ReqType == [lock : Debugger \cup {Nobody}, for : Debugger \cup {Nobody}]
HandlerType == [at : Handling, for : Debugger \cup {Nobody}, ok : BOOLEAN]
LoaderType == [installing : BOOLEAN, installed : BOOLEAN, port : Debugger \cup {Nobody}, flags : BOOLEAN]
PortType == [open : BOOLEAN, owner : AnyTeam, queue : Seq({"flags", "continue"})]
SemType == [state : {"none", "free", "held"}, owner : AnyTeam]

DebuggingTypeOK ==
    /\ alive \subseteq Debugger \cup {Team}
    /\ proc \in ProcType /\ req \in ReqType
    /\ answer \in [Debugger -> {"none", "yes", "no"}]
    /\ asker \in [Debugger -> Asking]
    /\ handler \in HandlerType /\ ld \in LoaderType
    /\ nub \in {"none", "suspended", "reading"}
    /\ port \in PortType /\ sem \in SemType
    /\ rep \in Reporting /\ susp \in BOOLEAN /\ hasty \in BOOLEAN

DebuggingInit ==
    /\ alive = Debugger \cup {Team}
    /\ proc = [pid |-> Nobody, port |-> Nobody, nub |-> FALSE]
    /\ req = [lock |-> Nobody, for |-> Nobody]
    /\ answer = [d \in Debugger |-> "none"]
    /\ asker = [d \in Debugger |-> "idle"]
    /\ handler = [at |-> "none", for |-> Nobody, ok |-> FALSE]
    /\ ld = Unloaded
    /\ nub = "none" /\ port = NoPort /\ sem = NoSem
    /\ rep = "run" /\ susp = FALSE /\ hasty = FALSE

serverVars == <<proc, req, answer, asker>>
loaderVars == <<handler, ld, nub>>
nubObjects == <<port, sem>>
thread3 == <<rep, susp>>

-----------------------------------------------------------------------------
(* server_hserver_call_install_team_debugger *)

At(d, from, to) == asker[d] = from /\ asker' = [asker EXCEPT ![d] = to]

\* The process, its main thread and the debugger's port are looked up ...
Look(d) ==
    /\ d \in alive /\ Team \in alive
    /\ At(d, "idle", "found")
    /\ UNCHANGED <<alive, proc, req, answer, loaderVars, nubObjects, thread3, hasty>>
\* ... then a debugger that is entered already stops the call.
Check(d) ==
    /\ At(d, "found", IF proc.pid = Nobody THEN "locking" ELSE "idle")
    /\ UNCHANGED <<alive, proc, req, answer, loaderVars, nubObjects, thread3, hasty>>
TakeLock(d) ==
    /\ req.lock = Nobody
    /\ At(d, "locking", "sending")
    /\ req' = [req EXCEPT !.lock = d]
    /\ UNCHANGED <<alive, proc, answer, loaderVars, nubObjects, thread3, hasty>>

\* Thread::SendRequest: the request, and a signal to the thread if it is there.
\* mutant: the request without the signal
SignalNot == UNCHANGED handler
Signal == handler' = IF Team \in alive THEN [handler EXCEPT !.at = "signalled"] ELSE handler
SendRequest(d) ==
    /\ At(d, "sending", "waiting")
    /\ req' = [req EXCEPT !.for = d]
    /\ Signal
    /\ UNCHANGED <<alive, proc, answer, ld, nub, nubObjects, thread3, hasty>>

\* result.get(), and the request lock is let go
Answered(d) ==
    /\ answer[d] # "none"
    /\ At(d, "waiting", IF answer[d] = "yes" THEN "setting" ELSE "idle")
    /\ req' = [req EXCEPT !.lock = Nobody]
    /\ answer' = [answer EXCEPT ![d] = "none"]
    /\ UNCHANGED <<alive, proc, loaderVars, nubObjects, thread3, hasty>>

\* mutant: the port of the team is entered before the answer is looked at
SetDebuggerLate(d) == proc' = [proc EXCEPT !.pid = d]
SetDebugger(d) == proc' = [proc EXCEPT !.pid = d, !.port = d]
Enter(d) ==
    /\ At(d, "setting", "done")
    /\ SetDebugger(d)
    /\ UNCHANGED <<alive, req, answer, loaderVars, nubObjects, thread3, hasty>>

-----------------------------------------------------------------------------
(* The handler in the main thread *)

Moves(from, to) == handler.at = from /\ handler' = [handler EXCEPT !.at = to]
Replies(ok) == handler' = [handler EXCEPT !.at = "reply", !.ok = ok]

\* Thread::IsRequesting, which request_ack and request_read ask for
Asked == req.for # Nobody
\* A new connection, request_ack and request_read.
Ack ==
    /\ handler.at = "signalled" /\ Asked
    /\ handler' = [handler EXCEPT !.at = "acked", !.for = req.for]
    /\ UNCHANGED <<alive, serverVars, ld, nub, nubObjects, thread3, hasty>>

\* mutant: an installed debugger does not count
RefusesNot == ld.installing
Refuses == ld.installing \/ ld.installed

\* The early returns reply as well.
Refuse == Replies(FALSE)

InstallBegin ==
    /\ handler.at = "acked"
    /\ IF Refuses THEN Refuse /\ UNCHANGED ld
       ELSE /\ handler' = [handler EXCEPT !.at = "sem"]
            /\ ld' = [ld EXCEPT !.installing = TRUE]
    /\ UNCHANGED <<alive, serverVars, nub, nubObjects, thread3, hasty>>

CreateSem ==
    /\ Moves("sem", "port")
    /\ sem' = [state |-> "free", owner |-> Team]
    /\ UNCHANGED <<alive, serverVars, ld, nub, port, thread3, hasty>>
CreatePort ==
    /\ Moves("port", "owner")
    /\ port' = [open |-> TRUE, owner |-> Team, queue |-> <<>>]
    /\ UNCHANGED <<alive, serverVars, ld, nub, sem, thread3, hasty>>

\* set_port_owner fails when the debugger is gone: clean_and_die.
SetOwner ==
    /\ handler.at = "owner"
    /\ IF handler.for \in alive
       THEN /\ handler' = [handler EXCEPT !.at = "spawn"]
            /\ port' = [port EXCEPT !.owner = handler.for]
            /\ UNCHANGED <<ld, sem>>
       ELSE /\ Replies(FALSE)
            /\ port' = NoPort /\ sem' = NoSem
            /\ ld' = [ld EXCEPT !.installing = FALSE, !.installed = FALSE]
    /\ UNCHANGED <<alive, serverVars, nub, thread3, hasty>>

SpawnNub ==
    /\ Moves("spawn", "register")
    /\ nub' = "suspended"
    /\ UNCHANGED <<alive, serverVars, ld, nubObjects, thread3, hasty>>

\* register_nub: the write lock goes to the debugger that the server knows.
RegisterNub ==
    /\ Moves("register", "resume")
    /\ proc' = [proc EXCEPT !.nub = TRUE]
    /\ sem' = [sem EXCEPT !.owner = IF proc.pid \in alive THEN proc.pid ELSE Nobody]
    /\ UNCHANGED <<alive, req, answer, asker, ld, nub, port, thread3, hasty>>

ResumeNub ==
    /\ Moves("resume", "installed")
    /\ ld' = [ld EXCEPT !.flags = FALSE, !.port = handler.for]
    /\ nub' = "reading"
    /\ UNCHANGED <<alive, serverVars, nubObjects, thread3, hasty>>

InstallEnd ==
    /\ handler.at = "installed"
    /\ Replies(TRUE)
    /\ ld' = [ld EXCEPT !.installing = FALSE, !.installed = TRUE]
    /\ UNCHANGED <<alive, serverVars, nub, nubObjects, thread3, hasty>>

\* Thread::RequestReply, under the lock of the thread
ReplyClears == [req EXCEPT !.for = Nobody]
Reply ==
    /\ handler.at = "reply"
    /\ answer' = [answer EXCEPT ![req.for] = IF handler.ok THEN "yes" ELSE "no"]
    /\ req' = ReplyClears
    /\ handler' = [at |-> "none", for |-> Nobody, ok |-> FALSE]
    /\ UNCHANGED <<alive, proc, asker, ld, nub, nubObjects, thread3, hasty>>

-----------------------------------------------------------------------------
(* loader_debugger_nub_thread_entry *)

NubFails ==
    /\ nub = "reading" /\ ~port.open
    /\ nub' = "none"
    /\ ld' = [ld EXCEPT !.installed = FALSE]
    /\ UNCHANGED <<alive, serverVars, handler, nubObjects, thread3, hasty>>
NubReads ==
    /\ nub = "reading" /\ port.open /\ port.queue # <<>>
    /\ port' = [port EXCEPT !.queue = Tail(@)]
    /\ IF Head(port.queue) = "flags"
       THEN ld' = [ld EXCEPT !.flags = ~@] /\ UNCHANGED susp
       ELSE susp' = FALSE /\ UNCHANGED ld
    /\ UNCHANGED <<alive, serverVars, handler, nub, sem, rep, hasty>>

\* The debugger knows the port from the answer to its call.  It has room for
\* one message.
TellNub(d, m) ==
    /\ d \in alive /\ asker[d] = "done" /\ port.open /\ port.queue = <<>>
    /\ port' = [port EXCEPT !.queue = <<m>>]
    /\ UNCHANGED <<alive, serverVars, loaderVars, sem, thread3, hasty>>

-----------------------------------------------------------------------------
(* loader_write_debug_message, in the third thread *)

Goes(from, to) == Team \in alive /\ rep = from /\ rep' = to
Report ==
    /\ ld.installed /\ ld.flags /\ sem.state # "held"
    /\ Goes("run", IF sem.state = "free" THEN "suspend" ELSE "run")
    /\ sem' = IF sem.state = "free" THEN [sem EXCEPT !.state = "held"] ELSE sem
    /\ UNCHANGED <<alive, serverVars, loaderVars, port, susp, hasty>>
\* suspend_thread of the thread itself changes what get_thread_info says of
\* its state, and not _suspended.
SuspendSelf ==
    /\ Goes("suspend", "write")
    /\ UNCHANGED <<alive, serverVars, loaderVars, nubObjects, susp, hasty>>
WriteMessage ==
    /\ Goes("write", "release")
    /\ UNCHANGED <<alive, serverVars, loaderVars, nubObjects, susp, hasty>>
ReleaseLock ==
    /\ Goes("release", "wait")
    /\ sem' = IF sem.state = "held" THEN [sem EXCEPT !.state = "free"] ELSE sem
    /\ UNCHANGED <<alive, serverVars, loaderVars, port, susp, hasty>>
WaitForResume ==
    /\ ~susp
    /\ Goes("wait", "run")
    /\ UNCHANGED <<alive, serverVars, loaderVars, nubObjects, susp, hasty>>

-----------------------------------------------------------------------------
(* loader_exec keeps the debugger over an exec: the nub thread is made anew.
   The third thread is gone, and with it the write lock if it held it; the new
   image has another third thread. *)
Restore ==
    /\ Team \in alive /\ handler.at = "none" /\ ld.installed
    /\ nub' = "reading"
    /\ rep' = "run" /\ susp' = FALSE
    /\ UNCHANGED <<alive, serverVars, handler, ld, nubObjects, hasty>>

(* disconnect of the last thread *)
DropOwned(t) ==
    /\ port' = IF port.owner = t \/ (t = Team /\ proc.port # Nobody /\ proc.nub)
               THEN NoPort ELSE port
    /\ sem' = IF sem.owner = t THEN NoSem ELSE sem
DebuggerLeaves(d) ==
    /\ d \in alive
    /\ alive' = alive \ {d}
    /\ DropOwned(d)
    /\ hasty' = (hasty \/ asker[d] \notin {"idle", "done"})
    /\ UNCHANGED <<serverVars, loaderVars, thread3>>
TeamLeaves ==
    /\ Team \in alive
    /\ alive' = alive \ {Team}
    /\ DropOwned(Team)
    /\ handler' = [at |-> "none", for |-> Nobody, ok |-> FALSE]
    /\ ld' = Unloaded /\ nub' = "none" /\ rep' = "run"
    /\ UNCHANGED <<serverVars, susp, hasty>>

HandlerStep ==
    \/ Ack \/ InstallBegin \/ CreateSem \/ CreatePort \/ SetOwner \/ SpawnNub
    \/ RegisterNub \/ ResumeNub \/ InstallEnd \/ Reply
AskerStep(d) == Check(d) \/ TakeLock(d) \/ SendRequest(d) \/ Answered(d) \/ Enter(d)
NubStep == NubFails \/ NubReads
ReportStep == Report \/ SuspendSelf \/ WriteMessage \/ ReleaseLock \/ WaitForResume

DebuggingStep ==
    \/ \E d \in Debugger :
        \/ Look(d) \/ AskerStep(d) \/ DebuggerLeaves(d)
        \/ \E m \in {"flags", "continue"} : TellNub(d, m)
    \/ HandlerStep \/ NubStep \/ ReportStep \/ Restore \/ TeamLeaves

DebuggingSpec == DebuggingInit /\ [][DebuggingStep]_debugVars

-----------------------------------------------------------------------------
(* Properties *)

\* The assert of Thread::SendRequest: whoever has the request lock finds no
\* request of another, although the future is set before the request is dropped.
\* And the debugger that the server believes in is the one the loader reports to,
\* once its call is over, however the calls of two debuggers overlap.  A
\* debugger that leaves in the middle of its call is left out (hasty).
RequestsAgree ==
    /\ \A d \in Debugger : asker[d] = "sending" => req.lock = d /\ req.for = Nobody
    /\ Team \in alive /\ ~hasty =>
        /\ \A d \in Debugger : asker[d] = "done" /\ d \in alive
                                  => proc.port = d /\ ld.port = d
        /\ ld.installed /\ (\A d \in Debugger : asker[d] \in {"idle", "done"})
               => proc.port = ld.port

\* A debugger that waits for the answer of a team gets it, as long as the team
\* lives: the request lock is let go by whoever has it, and the handler answers
\* on every path.
RequestsAnswered ==
    \A d \in Debugger :
        asker[d] = "waiting" ~> (asker[d] # "waiting" \/ Team \notin alive)
=============================================================================
