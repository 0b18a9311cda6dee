------------------------------ MODULE Registry ------------------------------
(***************************************************************************)
(* The names, ids and owners of ports and semaphores in hyclone_server:    *)
(* the tables of System (system.cpp), the owning sets of Process           *)
(* (process.h) and the calls create_port, delete_port, set_port_owner,     *)
(* find_port (port.cpp), create_sem, delete_sem (hsemaphore.cpp),          *)
(* register_nub (server_debug.cpp) and the cleanup in disconnect           *)
(* (system.cpp).                                                           *)
(*                                                                         *)
(* A call is as many steps as it takes locks, one after the other: the     *)
(* lock of the system for the tables, the lock of a process for its owning *)
(* set.  Between two of them other workers run, ids are freed and given    *)
(* out again.  A thread that is killed is disconnected by its hangup while *)
(* its call still runs.                                                    *)
(***************************************************************************)
EXTENDS IdMap, Sequences, FiniteSets

CONSTANTS
    Thread, Team,  \* guests and their teams
    TeamOf,        \* the team of each thread
    Name,          \* names of ports
    MaxObjects     \* bound: ports and semaphores created

ASSUME RegistryAssumption ==
    /\ IsFiniteSet(Thread)
    /\ TeamOf \in [Thread -> Team]
    /\ MaxObjects \in Nat

VARIABLES
    ports,      \* System::_ports
    portNames,  \* System::_portNames, -1 for a name that is not there
    port,       \* the Port objects: name, owner and id, in order of creation
    sems,       \* System::_semaphores
    sem,        \* the Semaphore objects: owner and id
    processes,  \* System::_processes
    owningPorts, owningSems,   \* the owning sets of the processes
    nub,        \* the id of the port by which a debugger talks to a team, or -1
    staying,    \* threads that have not been disconnected
    call,       \* the call of each thread
    shared,     \* history: ports that met another port with their name
    careless    \* history: a guest has deleted or given away a port of another
                \* team, was killed in a call or left while it was given a port;
                \* two threads of a team were at work on one id (without their
                \* fault if a semaphore gets the id of one whose deletion is still
                \* to take it from the set of the team); or a team was prepared for
                \* a debugger, who then owns one of its semaphores

vars == <<ports, portNames, port, sems, sem, processes, owningPorts, owningSems,
          nub, staying, call, shared, careless>>
portVars == <<ports, portNames, port, owningPorts, shared>>
semVars == <<sems, sem, owningSems>>

----------------------------------------------------------------------------
(* The tables. *)

Idle == [at |-> "idle"]

Init ==
    /\ ports = EmptyMap /\ portNames = [n \in Name |-> -1]
    /\ port = <<>>
    /\ sems = EmptyMap /\ sem = <<>>
    /\ processes = Team
    /\ owningPorts = [t \in Team |-> {}] /\ owningSems = [t \in Team |-> {}]
    /\ nub = [t \in Team |-> -1]
    /\ staying = Thread
    /\ call = [c \in Thread |-> Idle]
    /\ shared = {} /\ careless = FALSE

\* The objects that the tables hold.
Registered(map) == {map.items[i] : i \in DOMAIN map.items} \ {0}

\* The number of the next object.
Fresh(objs) == Len(objs) + 1

\* std::map::emplace leaves an entry alone that is there.
EmplaceNot(names, n, id) == names
Emplace(names, n, id) == [names EXCEPT ![n] = IF @ = -1 THEN id ELSE @]

\* System::RegisterPort
RegisterPort(n, t) ==
    LET id   == AddId(ports)
        o    == Fresh(port)
        same == {p \in Registered(ports) : port[p].name = n}
    IN /\ ports' = Add(ports, o)
       /\ port' = Append(port, [name |-> n, owner |-> t, id |-> id])
       /\ portNames' = Emplace(portNames, n, id)
       /\ shared' = IF same = {} THEN shared ELSE shared \cup same \cup {o}

\* System::UnregisterPort, for all the ids of a set: ids whose item is not
\* null lose the item, and its name leaves the table whoever has it there.
Present(ids) == {i \in ids \cap DOMAIN ports.items : ports.items[i] # 0}
NamesKept(ids) == {}
NamesOf(ids) == {port[ports.items[i]].name : i \in Present(ids)}
UnregisterPorts(ids) ==
    /\ portNames' = [n \in Name |-> IF n \in NamesOf(ids) THEN -1 ELSE portNames[n]]
    /\ ports' = Remove(ports, Present(ids))

\* System::UnregisterSemaphore
UnregisterSemaphores(ids) == sems' = Remove(sems, {i \in ids : IsValidId(sems, i)})

\* System::FindPort
FindPort(n) == portNames[n]

----------------------------------------------------------------------------
(* The calls.  at: what the call does next. *)

MayCall(c) == c \in staying /\ call[c].at = "idle"
\* A call of the team is about that id.
AtPort == {"own_port", "disown_port", "drop_port", "move_port"}
AtWork(t, id, where) == \E c \in Thread : TeamOf[c] = t /\ call[c].at \in where /\ call[c].id = id
MayAddObject == Len(port) + Len(sem) < MaxObjects
Goto(c, x) == call' = [call EXCEPT ![c] = x]

\* server_hserver_call_create_port: under the lock of the system, ...
CreatePort(c, n) ==
    /\ MayCall(c) /\ MayAddObject
    /\ RegisterPort(n, TeamOf[c])
    /\ Goto(c, [at |-> "own_port", id |-> AddId(ports)])
    /\ UNCHANGED <<semVars, processes, owningPorts, nub, staying, careless>>

\* ... then under the lock of the process.
OwnPort(c) ==
    /\ call[c].at = "own_port"
    /\ owningPorts' = [owningPorts EXCEPT ![TeamOf[c]] = @ \cup {call[c].id}]
    /\ Goto(c, Idle)
    /\ UNCHANGED <<ports, portNames, port, shared, semVars, processes, nub, staying, careless>>

\* server_hserver_call_delete_port: look the port and its owner up, ...
DeletePort(c, id) ==
    /\ MayCall(c) /\ IsValidId(ports, id)
    /\ LET owner == port[ports.items[id]].owner
       IN /\ careless' = (careless \/ owner # TeamOf[c] \/ AtWork(owner, id, AtPort))
          /\ Goto(c, IF owner \in processes
                     THEN [at |-> "disown_port", id |-> id, from |-> owner]
                     ELSE [at |-> "drop_port", id |-> id])
    /\ UNCHANGED <<portVars, semVars, processes, nub, staying>>

\* ... take the id from the owner, ...
DisownNot(set, id) == set
Disown(set, id) == set \ {id}
DisownPort(c) ==
    /\ call[c].at = "disown_port"
    /\ owningPorts' = [owningPorts EXCEPT ![call[c].from] = Disown(@, call[c].id)]
    /\ Goto(c, [at |-> "drop_port", id |-> call[c].id])
    /\ UNCHANGED <<ports, portNames, port, shared, semVars, processes, nub, staying, careless>>

\* ... and unregister whatever has the id now.
DropPort(c) ==
    /\ call[c].at = "drop_port"
    /\ UnregisterPorts({call[c].id})
    /\ Goto(c, Idle)
    /\ UNCHANGED <<port, owningPorts, shared, semVars, processes, nub, staying, careless>>

\* server_hserver_call_set_port_owner: the lookups, ...
SetPortOwner(c, id, team) ==
    /\ MayCall(c) /\ IsValidId(ports, id)
    /\ LET o == ports.items[id]
           from == port[o].owner
       IN /\ careless' = (careless \/ from # TeamOf[c] \/ AtWork(from, id, AtPort))
          /\ from \in processes /\ team \in processes /\ from # team
          /\ Goto(c, [at |-> "move_port", id |-> id, port |-> o, from |-> from,
                      to |-> team])
    /\ UNCHANGED <<portVars, semVars, processes, nub, staying>>

\* ... and the move, under the locks of both processes and of the port.
MovePort(c) ==
    /\ call[c].at = "move_port"
    /\ LET x == call[c]
       IN /\ owningPorts' = [owningPorts EXCEPT ![x.from] = Disown(@, x.id),
                                                ![x.to] = @ \cup {x.id}]
          /\ port' = [port EXCEPT ![x.port].owner = x.to]
    /\ Goto(c, Idle)
    /\ UNCHANGED <<ports, portNames, shared, semVars, processes, nub, staying, careless>>

\* server_hserver_call_create_sem
CreateSem(c) ==
    /\ MayCall(c) /\ MayAddObject
    /\ sems' = Add(sems, Fresh(sem))
    /\ sem' = Append(sem, [owner |-> TeamOf[c], id |-> AddId(sems)])
    /\ careless' = (careless \/ AtWork(TeamOf[c], AddId(sems), {"disown_sem"}))
    /\ Goto(c, [at |-> "own_sem", id |-> AddId(sems)])
    /\ UNCHANGED <<portVars, processes, owningSems, nub, staying>>

OwnSem(c) ==
    /\ call[c].at = "own_sem"
    /\ owningSems' = [owningSems EXCEPT ![TeamOf[c]] = @ \cup {call[c].id}]
    /\ Goto(c, Idle)
    /\ UNCHANGED <<portVars, sems, sem, processes, nub, staying, careless>>

\* server_hserver_call_delete_sem: the other way round than delete_port.
DeleteSem(c, id) ==
    /\ MayCall(c) /\ IsValidId(sems, id)
    /\ sem[sems.items[id]].owner = TeamOf[c]
    /\ UnregisterSemaphores({id})
    /\ careless' = (careless \/ AtWork(TeamOf[c], id, {"own_sem", "disown_sem"}))
    /\ Goto(c, [at |-> "disown_sem", id |-> sem[sems.items[id]].id])
    /\ UNCHANGED <<portVars, sem, processes, owningSems, nub, staying>>

DisownSem(c) ==
    /\ call[c].at = "disown_sem"
    /\ owningSems' = [owningSems EXCEPT ![TeamOf[c]] = Disown(@, call[c].id)]
    /\ Goto(c, Idle)
    /\ UNCHANGED <<portVars, sems, sem, processes, nub, staying, careless>>

\* server_hserver_call_register_nub, with a port that the guest has made and
\* given to the debugger and a semaphore: that leaves the set of the team ...
RegisterNub(c, id, lock, debugger) ==
    /\ MayCall(c)
    /\ IsValidId(ports, id) /\ port[ports.items[id]].owner = debugger /\ debugger # TeamOf[c]
    /\ IsValidId(sems, lock) /\ sem[sems.items[lock]].owner = TeamOf[c]
    /\ nub' = [nub EXCEPT ![TeamOf[c]] = id]
    /\ owningSems' = [owningSems EXCEPT ![TeamOf[c]] = Disown(@, lock)]
    /\ Goto(c, [at |-> "lend_sem", id |-> lock, to |-> debugger])
    /\ careless' = TRUE
    /\ UNCHANGED <<portVars, sems, sem, processes, staying>>
\* ... and is the debugger's, if there is one, but stays registered as the team's.
LendSem(c) ==
    /\ call[c].at = "lend_sem"
    /\ IF call[c].to \in processes
       THEN owningSems' = [owningSems EXCEPT ![call[c].to] = @ \cup {call[c].id}]
       ELSE UNCHANGED owningSems
    /\ Goto(c, Idle)
    /\ UNCHANGED <<portVars, sems, sem, processes, nub, staying, careless>>

\* server_hserver_call_disconnect: the thread leaves, and with the last one
\* of a team all that the process owns, and what is under the id of its nub if
\* somebody debugs it still.
LastOf(c) == \A d \in staying : TeamOf[d] = TeamOf[c] => d = c
Expected(t) == \E c \in Thread : call[c].at = "move_port" /\ call[c].to = t
PortsToClean(t) == owningPorts[t]
SemsToClean(t) == owningSems[t]
NubPort(t) == {nub[t]} \ {-1}
Disconnect(c) ==
    /\ c \in staying
    /\ careless' = (careless \/ call[c].at # "idle" \/ Expected(TeamOf[c]))
    /\ staying' = staying \ {c}
    /\ IF LastOf(c)
       THEN LET t == TeamOf[c]
            IN /\ processes' = processes \ {t}
               /\ UnregisterSemaphores(SemsToClean(t))
               /\ owningSems' = [owningSems EXCEPT ![t] = {}]
               /\ \E theirs \in {{}, NubPort(t)} : UnregisterPorts(PortsToClean(t) \cup theirs)
               /\ owningPorts' = [owningPorts EXCEPT ![t] = {}]
               /\ UNCHANGED <<port, sem, nub, call, shared>>
       ELSE UNCHANGED <<portVars, semVars, processes, nub, call>>

Next ==
    \E c \in Thread :
        \/ \E n \in Name : CreatePort(c, n)
        \/ OwnPort(c)
        \/ \E id \in 0..(MaxObjects - 1) : DeletePort(c, id)
        \/ DisownPort(c)
        \/ DropPort(c)
        \/ \E id \in 0..(MaxObjects - 1), t \in Team : SetPortOwner(c, id, t)
        \/ MovePort(c)
        \/ CreateSem(c)
        \/ OwnSem(c)
        \/ \E id \in 0..(MaxObjects - 1) : DeleteSem(c, id)
        \/ DisownSem(c)
        \/ \E id \in 0..(MaxObjects - 1), lock \in 0..(MaxObjects - 1), t \in Team : RegisterNub(c, id, lock, t)
        \/ LendSem(c)
        \/ Disconnect(c)

Spec == Init /\ [][Next]_vars

----------------------------------------------------------------------------
(* Properties. *)

CallType ==
    {Idle} \cup [at : {"own_port", "drop_port", "own_sem", "disown_sem"}, id : Nat]
    \cup [at : {"disown_port"}, id : Nat, from : Team]
    \cup [at : {"lend_sem"}, id : Nat, to : Team]
    \cup [at : {"move_port"}, id : Nat, port : DOMAIN port, from : Team, to : Team]

MapOK(map, objs) ==
    /\ map.size \in Nat
    /\ map.items \in [0..(map.size - 1) -> {0} \cup DOMAIN objs]
    /\ map.free \subseteq 0..(map.size - 1)

\* The tables and the calls are well typed: every id that System holds in a
\* table, every free id and every call in progress refers to something that was
\* created.
TypeOK ==
    /\ MapOK(ports, port) /\ MapOK(sems, sem)
    /\ port \in Seq([name : Name, owner : Team, id : Nat])
    /\ sem \in Seq([owner : Team, id : Nat]) /\ Len(port) + Len(sem) <= MaxObjects
    /\ portNames \in [Name -> Nat \cup {-1}]
    /\ processes \subseteq Team /\ staying \subseteq Thread /\ careless \in BOOLEAN
    /\ owningPorts \in [Team -> SUBSET Nat] /\ owningSems \in [Team -> SUBSET Nat]
    /\ nub \in [Team -> Nat \cup {-1}]
    /\ call \in [Thread -> CallType]
    /\ shared \subseteq DOMAIN port

\* The ids of IdMap (id_map.h): a free id holds nothing, an id in use holds an
\* object, and that object knows its id, so that no object has two ids, however
\* often ids are freed and given out again and whichever call deletes whose port.
Sound(map, objs) ==
    \A i \in DOMAIN map.items :
        /\ i \in map.free <=> map.items[i] = 0
        /\ map.items[i] # 0 => objs[map.items[i]].id = i
IdsSound == Sound(ports, port) /\ Sound(sems, sem)

\* find_port (System::FindPort) never gives the id of a port that is gone or of
\* one with another name, although deletes run twice and hit ports that have got
\* the id since, and ports share names.
NamesResolve ==
    \A n \in Name :
        FindPort(n) # -1 =>
            /\ IsValidId(ports, FindPort(n))
            /\ port[ports.items[FindPort(n)]].name = n

\* find_port finds every registered port that has never been registered beside
\* another one with its name (System::RegisterPort does not replace an entry
\* and System::UnregisterPort removes it even if it is another port's).
FoundUnlessShared ==
    \A o \in Registered(ports) \ shared : FindPort(port[o].name) = port[o].id

\* A port or semaphore is in the owning set of its owner's process unless its
\* create or delete call is under way, and an owning set holds nothing else
\* (Process::_owningPorts and _owningSemaphores, by which disconnect cleans up),
\* as long as no guest was careless.
Busy(id, where) == \E c \in Thread : call[c].at \in where /\ call[c].id = id
Agree(map, objs, owning, where) ==
    \A i \in DOMAIN map.items, t \in Team :
        LET owns == map.items[i] # 0 /\ objs[map.items[i]].owner = t
        IN Busy(i, where) \/ (i \in owning[t] <=> owns)
OwnersAgree ==
    ~careless => /\ Agree(ports, port, owningPorts, {"own_port", "drop_port"})
                 /\ Agree(sems, sem, owningSems, {"own_sem", "disown_sem"})

\* When the last thread of a team has been disconnected, none of its ports and
\* semaphores is left (server_hserver_call_disconnect), as long as no guest was
\* careless.
NothingLeft ==
    ~careless => /\ \A o \in Registered(ports) : port[o].owner \in processes
                 /\ \A o \in Registered(sems) : sem[o].owner \in processes

\* As long as no guest was careless, who owns what is known to both sides, and
\* with a team go its ports and semaphores.  (AddOwningPort, delete_port,
\* set_port_owner, disconnect)
OwnersKept == OwnersAgree /\ NothingLeft
=============================================================================
