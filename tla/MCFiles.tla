------------------------------ MODULE MCFiles -------------------------------
(* What a guest does with files, queues of events, signals and its table of
   threads for TLC, in one run: they share no state, so a behaviour is of one of them. There are two
   names, and links and requests that go up, down and from the root. *)
EXTENDS Namespace, EventQueue, Signals, Joins, TLC

Abs(path) == [abs |-> TRUE, path |-> path]
Rel(path) == [abs |-> FALSE, path |-> path]
TheTargets == {Abs(<<"a">>), Rel(<<Up, "b">>)}
TheRequests == {Abs(<<"a">>), Abs(<<"a", "b">>), Rel(<<Up, "b">>), Abs(<<Hidden>>)}

\* SIGCHLD, SIGSTOP and SIGUSR1 of Haiku: the last two have each other's number.
TheLinux == (5 :> 17) @@ (10 :> 19) @@ (18 :> 10)
Action(handler, siginfo, mask) == [handler |-> handler, siginfo |-> siginfo, mask |-> mask]
TheActions == {Action("default", FALSE, {}), Action("h1", TRUE, {18, 33}), Action("h2", FALSE, {5})}
TheDeaths == {[code |-> "CLD_EXITED", status |-> 10], [code |-> "CLD_KILLED", status |-> 10]}

VARIABLE part

vars == <<part, namespaceVars, eventVars, signalVars, joinsVars>>

Init ==
    /\ part \in {"names", "events", "signals", "joins"}
    /\ NamespaceInit /\ EventQueueInit /\ SignalsInit /\ JoinsInit
Next ==
    /\ UNCHANGED part
    /\ IF part = "names" THEN NamespaceStep ELSE UNCHANGED namespaceVars
    /\ IF part = "events" THEN EventQueueStep ELSE UNCHANGED eventVars
    /\ IF part = "signals" THEN SignalsStep ELSE UNCHANGED signalVars
    /\ IF part = "joins" THEN JoinsStep ELSE UNCHANGED joinsVars

Spec == Init /\ [][Next]_vars

\* What a guest names is what the host finds, over links, mounts, roots and
\* current directories; an entry ref leads to the node it was made for; and the
\* directories that the server has for a process are those of the host.  (see
\* NamesAgree, RefsLead and DirsAgree in Namespace: ReadDirFd, GetPath, ReadStat,
\* get_entry_ref, setcwd, getcwd, register_fd)
NamesLead == part = "names" => NamesAgree /\ RefsLead /\ DirsAgree
=============================================================================
