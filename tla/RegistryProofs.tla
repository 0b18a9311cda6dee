--------------------------- MODULE RegistryProofs ---------------------------
(***************************************************************************)
(* Proofs about Registry: whatever the guests do and whenever they are     *)
(* killed, the ids are sound, names resolve to the ports that have them,   *)
(* and a port that never met its own name is found.  As long as no guest   *)
(* was careless, teams and tables agree on who owns what, however many     *)
(* threads of a team are in a call.                                        *)
(* About Listing: what a guest is told of the tables, one call per member. *)
(* About Users: the tables of users of the host and of the guest.  And     *)
(* about AddressSpace: the references the server counts to shared files.   *)
(***************************************************************************)
EXTENDS Registry, Listing, Users, AddressSpace, TLAPS, SequenceTheorems, WellFoundedInduction, FiniteSetTheorems

\* Two registered ports with one name have met.
SharedOK ==
    \A i, j \in DOMAIN ports.items :
        /\ i # j /\ ports.items[i] # 0 /\ ports.items[j] # 0
        /\ port[ports.items[i]].name = port[ports.items[j]].name
        => ports.items[i] \in shared

\* FoundUnlessShared, by ids instead of objects.
FoundById ==
    \A i \in DOMAIN ports.items :
        ports.items[i] # 0 /\ ports.items[i] \notin shared
        => portNames[port[ports.items[i]].name] = i

RegInductive == TypeOK /\ IdsSound /\ NamesResolve /\ SharedOK /\ FoundById

PortRec == [name : Name, owner : Team, id : Nat]
SemRec == [owner : Team, id : Nat]

\* A set of numbers has a least one.
LEMMA LeastNumber ==
    ASSUME NEW S \in SUBSET Nat, S # {}
    PROVE  \E x \in S : \A y \in S : x <= y
<1> DEFINE LT == OpToRel(<, Nat)
<1>1. IsWellFoundedOn(LT, Nat)
  BY NatLessThanWellFounded, Zenon
<1>2. \A x, y \in Nat : y < x => <<y, x>> \in LT
  BY DEF OpToRel
<1> HIDE DEF LT
<1>3. \E x \in S : \A y \in S : ~ (<<y, x>> \in LT)
  BY <1>1, WFMin
<1>4. PICK x \in S : \A y \in S : ~ (<<y, x>> \in LT)
  BY <1>3
<1>5. \A y \in S : ~ (y < x)
  BY <1>2, <1>4
<1> QED BY <1>5

LEMMA LeastExists ==
    ASSUME NEW S \in SUBSET Nat, S # {}
    PROVE  Least(S) \in S
BY LeastNumber DEF Least

\* IdMap::Add puts the item at an id that held nothing and changes no other.
LEMMA AddSpec ==
    ASSUME NEW map, NEW objs, MapOK(map, objs), Sound(map, objs), NEW o
    PROVE  LET id == AddId(map)
               new == Add(map, o)
           IN /\ id \in Nat
              /\ id \in DOMAIN map.items => map.items[id] = 0
              /\ new.size \in Nat
              /\ new.items \in [0..(new.size - 1) -> {0, o} \cup DOMAIN objs]
              /\ new.free \subseteq 0..(new.size - 1)
              /\ DOMAIN new.items = DOMAIN map.items \cup {id}
              /\ new.items[id] = o /\ id \notin new.free
              /\ \A i \in DOMAIN map.items : i # id =>
                    /\ new.items[i] = map.items[i]
                    /\ i \in new.free <=> i \in map.free
<1> DEFINE id == AddId(map)
           new == Add(map, o)
<1>1. CASE map.free = {}
  <2>1. id = map.size /\ new.size = map.size + 1 /\ new.free = {}
    BY <1>1 DEF AddId, Add
  <2>2. new.items = [i \in 0..map.size |-> IF i = map.size THEN o ELSE map.items[i]]
    BY <1>1 DEF AddId, Add, MapOK
  <2> QED BY <1>1, <2>1, <2>2 DEF MapOK
<1>2. CASE map.free # {}
  <2>1. id \in map.free
    BY <1>2, LeastExists DEF AddId, MapOK
  <2>2. new.size = map.size /\ new.free = map.free \ {id}
    BY <1>2 DEF AddId, Add
  <2>3. new.items = [i \in 0..(map.size - 1) |-> IF i = id THEN o ELSE map.items[i]]
    BY <1>2 DEF Add
  <2>4. id \in DOMAIN map.items /\ map.items[id] = 0
    BY <2>1 DEF MapOK, Sound
  <2> HIDE DEF id, new
  <2>5. \A i \in DOMAIN map.items : i # id =>
           new.items[i] = map.items[i] /\ (i \in new.free <=> i \in map.free)
    BY <2>2, <2>3 DEF MapOK
  <2>6. new.items \in [0..(new.size - 1) -> {0, o} \cup DOMAIN objs]
    BY <2>2, <2>3 DEF MapOK
  <2> QED BY <2>1, <2>2, <2>3, <2>4, <2>5, <2>6 DEF MapOK, id, new
<1> QED BY <1>1, <1>2

\* System::RegisterPort and System::CreateSemaphore keep the ids sound.
LEMMA AddKeeps ==
    ASSUME NEW R, NEW objs \in Seq(R), NEW map, MapOK(map, objs), Sound(map, objs),
           NEW x \in R, x.id = AddId(map)
    PROVE  /\ MapOK(Add(map, Fresh(objs)), Append(objs, x))
           /\ Sound(Add(map, Fresh(objs)), Append(objs, x))
<1> DEFINE o == Len(objs) + 1
           new == Add(map, o)
           more == Append(objs, x)
           id == AddId(map)
<1>1. /\ DOMAIN more = DOMAIN objs \cup {o} /\ more[o] = x /\ o \in Nat \ {0}
      /\ \A p \in DOMAIN objs : more[p] = objs[p] /\ p # 0
  OBVIOUS
<1>2. /\ new.size \in Nat
      /\ new.items \in [0..(new.size - 1) -> {0, o} \cup DOMAIN objs]
      /\ new.free \subseteq 0..(new.size - 1)
      /\ DOMAIN new.items = DOMAIN map.items \cup {id}
      /\ new.items[id] = o /\ id \notin new.free
      /\ \A i \in DOMAIN map.items : i # id =>
            new.items[i] = map.items[i] /\ (i \in new.free <=> i \in map.free)
  BY AddSpec
<1> HIDE DEF o, new, more, id
<1>3. MapOK(new, more)
  BY <1>1, <1>2 DEF MapOK
<1>4. Sound(new, more)
  <2> SUFFICES ASSUME NEW i \in DOMAIN new.items
               PROVE  /\ i \in new.free <=> new.items[i] = 0
                      /\ new.items[i] # 0 => more[new.items[i]].id = i
    BY DEF Sound
  <2>1. CASE i = id
    BY <2>1, <1>1, <1>2 DEF id
  <2>2. CASE i # id
    <3>1. i \in DOMAIN map.items /\ new.items[i] = map.items[i]
      BY <2>2, <1>2
    <3>2. map.items[i] \in {0} \cup DOMAIN objs
      BY <3>1 DEF MapOK
    <3> QED BY <2>2, <3>1, <3>2, <1>1, <1>2 DEF Sound
  <2> QED BY <2>1, <2>2
<1> QED BY <1>3, <1>4 DEF o, new, more, Fresh

\* System::UnregisterPort and System::UnregisterSemaphore keep the ids sound.
LEMMA RemoveKeeps ==
    ASSUME NEW map, NEW objs, MapOK(map, objs), Sound(map, objs),
           NEW theirs \in SUBSET (DOMAIN map.items)
    PROVE  /\ MapOK(Remove(map, theirs), objs)
           /\ Sound(Remove(map, theirs), objs)
<1> DEFINE new == Remove(map, theirs)
<1>1. /\ new.size = map.size /\ new.free = map.free \cup theirs
      /\ new.items = [i \in DOMAIN map.items |-> IF i \in theirs THEN 0 ELSE map.items[i]]
  BY DEF Remove
<1> HIDE DEF new
<1>2. MapOK(new, objs)
  BY <1>1 DEF MapOK
<1>3. Sound(new, objs)
  BY <1>1 DEF Sound
<1> QED BY <1>2, <1>3 DEF new

\* The part of the invariant that is about ports.
PortPart ==
    /\ MapOK(ports, port) /\ Sound(ports, port)
    /\ port \in Seq(PortRec) /\ shared \subseteq DOMAIN port
    /\ portNames \in [Name -> Nat \cup {-1}]
    /\ NamesResolve /\ SharedOK /\ FoundById

\* System::RegisterPort
LEMMA RegisterKeeps ==
    ASSUME PortPart, NEW n \in Name, NEW t \in Team, RegisterPort(n, t)
    PROVE  PortPart'
<1> DEFINE id == AddId(ports)
           o == Len(port) + 1
           same == {p \in Registered(ports) : port[p].name = n}
           x == [name |-> n, owner |-> t, id |-> id]
<1>1. /\ id \in Nat
      /\ id \in DOMAIN ports.items => ports.items[id] = 0
      /\ ports'.size \in Nat /\ ports'.items \in [0..(ports'.size - 1) -> Int]
      /\ DOMAIN ports'.items = DOMAIN ports.items \cup {id}
      /\ ports'.items[id] = o /\ id \notin ports'.free
      /\ \A i \in DOMAIN ports.items : i # id =>
            ports'.items[i] = ports.items[i] /\ (i \in ports'.free <=> i \in ports.free)
  BY AddSpec, SMTT(40) DEF PortPart, RegisterPort, Fresh, MapOK
<1>2. /\ x \in PortRec /\ x.id = id /\ x.name = n
  BY <1>1 DEF PortRec
<1>3. /\ port' = Append(port, x) /\ portNames' = Emplace(portNames, n, id)
      /\ shared' = IF same = {} THEN shared ELSE shared \cup same \cup {o}
      /\ ports' = Add(ports, Fresh(port))
  BY DEF RegisterPort, Fresh
<1>4. MapOK(ports, port)' /\ Sound(ports, port)'
  BY <1>2, <1>3, AddKeeps DEF PortPart
<1> HIDE DEF x
<1>5. /\ port' \in Seq(PortRec)
      /\ DOMAIN port' = DOMAIN port \cup {o} /\ port'[o] = x /\ o \in Nat \ {0}
      /\ \A p \in DOMAIN port : port'[p] = port[p] /\ p # o /\ p # 0
  BY <1>2, <1>3 DEF PortPart
<1>6. \A p \in same : p \in DOMAIN port
  BY DEF PortPart, MapOK, Registered
<1>7. shared' \subseteq DOMAIN port'
  BY <1>3, <1>5, <1>6 DEF PortPart
<1>8. portNames' \in [Name -> Nat \cup {-1}]
  BY <1>1, <1>3 DEF PortPart, Emplace
<1>9. \A i \in DOMAIN ports.items : ports.items[i] # 0 =>
        /\ i # id /\ ports'.items[i] = ports.items[i] /\ ports.items[i] \in DOMAIN port
        /\ port'[ports.items[i]] = port[ports.items[i]]
        /\ (port[ports.items[i]].name = n <=> ports.items[i] \in same)
  BY <1>1, <1>5 DEF PortPart, MapOK, Registered
<1>10. \A i \in DOMAIN ports'.items : ports'.items[i] # 0 =>
         i = id \/ (i \in DOMAIN ports.items /\ ports.items[i] # 0)
  BY <1>1
<1> HIDE DEF id, o, same
<1>11. /\ \A i \in DOMAIN ports.items : i \in Nat
       /\ \A i : IsValidId(ports, i) <=> i \in DOMAIN ports.items /\ ports.items[i] # 0
       /\ \A i : IsValidId(ports, i)' <=> i \in DOMAIN ports'.items /\ ports'.items[i] # 0
  BY <1>4, SMTT(40) DEF IsValidId, PortPart, MapOK, Sound
<1>12. SharedOK'
  BY <1>1, <1>2, <1>3, <1>5, <1>9, <1>10 DEF SharedOK, PortPart
<1>13. NamesResolve'
  <2> SUFFICES ASSUME NEW m \in Name, portNames'[m] # -1
               PROVE  /\ IsValidId(ports, portNames[m])'
                      /\ port'[ports'.items[portNames'[m]]].name = m
    BY DEF NamesResolve, FindPort
  <2>1. CASE portNames[m] # -1
    <3>1. portNames'[m] = portNames[m]
      BY <2>1, <1>3 DEF Emplace, PortPart
    <3> QED BY <2>1, <3>1, <1>1, <1>9, <1>11 DEF NamesResolve, FindPort, PortPart
  <2>2. CASE portNames[m] = -1
    <3>1. m = n /\ portNames'[m] = id
      BY <2>2, <1>3 DEF Emplace, PortPart
    <3> QED BY <3>1, <1>1, <1>2, <1>5, <1>11
  <2> QED BY <2>1, <2>2
<1>14. FoundById'
  <2> SUFFICES ASSUME NEW i \in DOMAIN ports'.items,
                      ports'.items[i] # 0, ports'.items[i] \notin shared'
               PROVE  portNames'[port'[ports'.items[i]].name] = i
    BY DEF FoundById
  <2>1. CASE i = id
    <3>1. same = {}
      BY <2>1, <1>1, <1>3
    <3>2. portNames[n] = -1
      BY <3>1, <1>9, <1>11 DEF PortPart, NamesResolve, FindPort
    <3> QED BY <2>1, <3>2, <1>1, <1>2, <1>3, <1>5 DEF Emplace, PortPart
  <2>2. CASE i # id
    <3>1. /\ i \in DOMAIN ports.items /\ ports.items[i] # 0
          /\ ports.items[i] \notin shared /\ ports'.items[i] = ports.items[i]
      BY <2>2, <1>3, <1>9, <1>10
    <3>2. portNames[port[ports.items[i]].name] = i /\ i # -1
      BY <3>1, <1>11 DEF PortPart, FoundById
    <3> QED BY <3>1, <3>2, <1>3, <1>9 DEF Emplace, PortPart
  <2> QED BY <2>1, <2>2
<1> QED BY <1>4, <1>5, <1>7, <1>8, <1>12, <1>13, <1>14 DEF PortPart

\* System::UnregisterPort
LEMMA UnregisterKeeps ==
    ASSUME PortPart, NEW theirs, UnregisterPorts(theirs), UNCHANGED <<port, shared>>
    PROVE  PortPart'
<1>1. Present(theirs) \in SUBSET (DOMAIN ports.items)
  BY DEF Present
<1>2. /\ ports' = Remove(ports, Present(theirs))
      /\ portNames' = [n \in Name |-> IF n \in NamesOf(theirs) THEN -1 ELSE portNames[n]]
  BY DEF UnregisterPorts
<1>3. MapOK(ports, port)' /\ Sound(ports, port)'
  BY <1>1, <1>2, RemoveKeeps DEF PortPart
<1>4. /\ DOMAIN ports'.items = DOMAIN ports.items
      /\ \A i \in DOMAIN ports.items :
            ports'.items[i] = IF i \in Present(theirs) THEN 0 ELSE ports.items[i]
  BY <1>2 DEF Remove
<1>5. portNames' \in [Name -> Nat \cup {-1}]
  BY <1>2 DEF PortPart
<1>6. SharedOK'
  BY <1>4 DEF SharedOK, PortPart
<1>7. /\ \A i : IsValidId(ports, i) <=> i \in DOMAIN ports.items /\ ports.items[i] # 0
      /\ \A i : IsValidId(ports, i)' <=> i \in DOMAIN ports'.items /\ ports'.items[i] # 0
  BY <1>3 DEF IsValidId, PortPart, MapOK, Sound
<1>8. NamesResolve'
  <2> SUFFICES ASSUME NEW m \in Name, portNames'[m] # -1
               PROVE  /\ IsValidId(ports, portNames[m])'
                      /\ port'[ports'.items[portNames'[m]]].name = m
    BY DEF NamesResolve, FindPort
  <2>1. m \notin NamesOf(theirs) /\ portNames'[m] = portNames[m]
    BY <1>2
  <2>2. /\ IsValidId(ports, portNames[m])
        /\ port[ports.items[portNames[m]]].name = m
    BY <2>1 DEF NamesResolve, FindPort, PortPart
  <2>3. portNames[m] \notin Present(theirs)
    BY <2>1, <2>2 DEF NamesOf
  <2> QED BY <2>1, <2>2, <2>3, <1>4, <1>7
<1>9. FoundById'
  <2> SUFFICES ASSUME NEW i \in DOMAIN ports.items,
                      ports'.items[i] # 0, ports.items[i] \notin shared
               PROVE  portNames'[port[ports.items[i]].name] = i
    BY <1>4 DEF FoundById
  <2> DEFINE m == port[ports.items[i]].name
  <2>1. ports.items[i] # 0 /\ i \notin Present(theirs)
    BY <1>4
  <2>2. portNames[m] = i
    BY <2>1 DEF FoundById, PortPart
  <2>3. m \in Name
    <3>1. ports.items[i] \in DOMAIN port
      BY <2>1 DEF PortPart, MapOK
    <3>2. port[ports.items[i]] \in PortRec
      BY <3>1 DEF PortPart
    <3> QED BY <3>2 DEF PortRec
  <2>4. m \notin NamesOf(theirs)
    <3> SUFFICES ASSUME NEW j \in Present(theirs), port[ports.items[j]].name = m
                 PROVE  FALSE
      BY DEF NamesOf
    <3>1. j # i /\ j \in DOMAIN ports.items /\ ports.items[j] # 0
      BY <2>1 DEF Present
    <3> QED BY <2>1, <3>1 DEF SharedOK, PortPart
  <2> QED BY <1>2, <2>2, <2>3, <2>4
<1> QED BY <1>3, <1>5, <1>6, <1>8, <1>9 DEF PortPart

\* The part about semaphores, and the rest.
SemPart == MapOK(sems, sem) /\ Sound(sems, sem) /\ sem \in Seq(SemRec)
RestPart ==
    /\ Len(port) + Len(sem) <= MaxObjects
    /\ processes \subseteq Team /\ staying \subseteq Thread /\ careless \in BOOLEAN
    /\ owningPorts \in [Team -> SUBSET Nat] /\ owningSems \in [Team -> SUBSET Nat]
    /\ nub \in [Team -> Nat \cup {-1}]
    /\ call \in [Thread -> CallType]

LEMMA Parts == RegInductive <=> PortPart /\ SemPart /\ RestPart
  BY DEF RegInductive, PortPart, SemPart, RestPart, TypeOK, IdsSound, PortRec, SemRec

\* An object that is registered under a valid id has its type.
LEMMA ValidPort ==
    ASSUME PortPart, NEW id, IsValidId(ports, id)
    PROVE  /\ id \in Nat /\ ports.items[id] \in DOMAIN port
           /\ port[ports.items[id]].owner \in Team
<1>1. id \in DOMAIN ports.items /\ ports.items[id] # 0 /\ id \in Nat
  BY DEF PortPart, MapOK, Sound, IsValidId
<1>2. ports.items[id] \in DOMAIN port
  BY <1>1 DEF PortPart, MapOK
<1>3. port[ports.items[id]] \in PortRec
  BY <1>2 DEF PortPart
<1> QED BY <1>1, <1>2, <1>3 DEF PortRec

\* The same for semaphores.
LEMMA ValidSem ==
    ASSUME SemPart, NEW id, IsValidId(sems, id)
    PROVE  /\ id \in DOMAIN sems.items
           /\ sem[sems.items[id]].id \in Nat
<1>1. id \in DOMAIN sems.items /\ sems.items[id] # 0
  BY DEF SemPart, MapOK, Sound, IsValidId
<1>2. sems.items[id] \in DOMAIN sem
  BY <1>1 DEF SemPart, MapOK
<1>3. sem[sems.items[id]] \in SemRec
  BY <1>2 DEF SemPart
<1> QED BY <1>1, <1>3 DEF SemRec

\* The empty tables.
LEMMA RegInit == Init => RegInductive
<1> SUFFICES ASSUME Init PROVE RegInductive
  OBVIOUS
<1>1. /\ ports = EmptyMap /\ sems = EmptyMap /\ port = <<>> /\ sem = <<>>
      /\ shared = {} /\ portNames = [n \in Name |-> -1]
  BY DEF Init
<1>2. \A objs : MapOK(EmptyMap, objs) /\ Sound(EmptyMap, objs)
  BY DEF MapOK, Sound, EmptyMap
<1>3. DOMAIN ports.items = {}
  BY <1>1 DEF EmptyMap
<1>4. PortPart
  BY <1>1, <1>2, <1>3 DEF PortPart, NamesResolve, FindPort, SharedOK, FoundById
<1>5. SemPart
  BY <1>1, <1>2 DEF SemPart
<1>6. RestPart
  <2>1. careless \in BOOLEAN
    BY DEF Init
  <2> QED BY <1>1, <2>1, RegistryAssumption DEF Init, RestPart, CallType
<1> QED BY <1>4, <1>5, <1>6, Parts

\* A step that leaves the tables of ports alone, apart from owners.
LEMMA OwnerKeeps ==
    ASSUME PortPart, UNCHANGED <<ports, portNames, shared>>,
           NEW o \in DOMAIN port, NEW t \in Team, port' = [port EXCEPT ![o].owner = t]
    PROVE  PortPart' /\ DOMAIN port' = DOMAIN port /\ Len(port') = Len(port)
<1>1. /\ DOMAIN port' = DOMAIN port /\ Len(port') = Len(port)
      /\ port' \in Seq(PortRec)
  <2> DEFINE r == [port[o] EXCEPT !.owner = t]
  <2>0. port[o] \in PortRec /\ port \in Seq(PortRec)
    BY DEF PortPart
  <2>1. r \in PortRec
    BY <2>0 DEF PortRec
  <2>2. port' = [port EXCEPT ![o] = r]
    OBVIOUS
  <2> HIDE DEF r
  <2> QED BY <2>0, <2>1, <2>2, ExceptSeq
<1>2. \A p \in DOMAIN port : port'[p].name = port[p].name /\ port'[p].id = port[p].id
  BY DEF PortPart, PortRec
<1>3. MapOK(ports, port)'
  BY <1>1 DEF PortPart, MapOK
<1>4. \A i \in DOMAIN ports.items : ports.items[i] # 0 => ports.items[i] \in DOMAIN port
  BY DEF PortPart, MapOK
<1>5. Sound(ports, port)'
  BY <1>2, <1>4 DEF PortPart, Sound
<1>6. SharedOK'
  BY <1>2, <1>4 DEF PortPart, SharedOK
<1>7. NamesResolve'
  <2>1. \A i : IsValidId(ports, i) => i \in DOMAIN ports.items /\ ports.items[i] # 0
    BY DEF IsValidId, PortPart, MapOK, Sound
  <2> QED BY <2>1, <1>2, <1>4 DEF PortPart, NamesResolve, FindPort, IsValidId
<1>8. FoundById'
  BY <1>2, <1>4 DEF PortPart, FoundById
<1> QED BY <1>1, <1>3, <1>5, <1>6, <1>7, <1>8 DEF PortPart

\* A step that changes nothing of the tables of ports, or of semaphores.
LEMMA SamePorts ==
    ASSUME PortPart, UNCHANGED <<ports, portNames, port, shared>>
    PROVE  PortPart'
  BY DEF PortPart, MapOK, Sound, NamesResolve, FindPort, IsValidId, SharedOK, FoundById

LEMMA SameSems ==
    ASSUME SemPart, UNCHANGED <<sems, sem>>
    PROVE  SemPart'
  BY DEF SemPart, MapOK, Sound

\* Every step keeps the invariant.
LEMMA RegStep ==
    ASSUME RegInductive, [Next]_vars
    PROVE  RegInductive'
<1>0. PortPart /\ SemPart /\ RestPart
  BY Parts
<1> SUFFICES PortPart' /\ SemPart' /\ RestPart'
  <2>1. (RegInductive <=> PortPart /\ SemPart /\ RestPart)'
    BY Parts, PTL
  <2> QED BY <2>1
<1>u. CASE UNCHANGED vars
  BY <1>u, <1>0, SamePorts, SameSems DEF vars, RestPart, CallType
<1>n. CASE Next
  <2>0. PICK c \in Thread :
          \/ \E n \in Name : CreatePort(c, n)
          \/ OwnPort(c)
          \/ \E id \in 0..(MaxObjects - 1) : DeletePort(c, id)
          \/ DisownPort(c)
          \/ DropPort(c)
          \/ \E id \in 0..(MaxObjects - 1), t \in Team : SetPortOwner(c, id, t)
          \/ MovePort(c)
          \/ CreateSem(c)
          \/ OwnSem(c)
          \/ \E id \in 0..(MaxObjects - 1) : DeleteSem(c, id)
          \/ DisownSem(c)
          \/ \E id \in 0..(MaxObjects - 1), lock \in 0..(MaxObjects - 1), t \in Team : RegisterNub(c, id, lock, t)
          \/ LendSem(c)
          \/ Disconnect(c)
    BY <1>n DEF Next
  <2>t. TeamOf[c] \in Team
    BY RegistryAssumption
  <2>c. call[c] \in CallType
    BY <1>0 DEF RestPart
  <2>1. ASSUME NEW n \in Name, CreatePort(c, n) PROVE PortPart' /\ SemPart' /\ RestPart'
    <3>1. PortPart'
      BY <2>1, <2>t, <1>0, RegisterKeeps DEF CreatePort
    <3>2. SemPart'
      BY <2>1, <1>0, SameSems DEF CreatePort, semVars
    <3>3. AddId(ports) \in Nat
      BY <1>0, AddSpec DEF PortPart
    <3>4. /\ Len(port') = Len(port) + 1 /\ Len(port) + Len(sem) + 1 <= MaxObjects
          /\ DOMAIN port \subseteq DOMAIN port'
      BY <2>1, <1>0, RegistryAssumption DEF CreatePort, MayAddObject, RegisterPort, PortPart, SemPart
    <3>5. RestPart'
      BY <2>1, <3>3, <3>4, <1>0 DEF CreatePort, RestPart, CallType, Goto, semVars
    <3> QED BY <3>1, <3>2, <3>5
  <2>2. CASE OwnPort(c)
    <3>1. PortPart' /\ SemPart'
      BY <2>2, <1>0, SamePorts, SameSems DEF OwnPort, semVars
    <3>2. call[c].id \in Nat
      BY <2>2, <2>c DEF OwnPort, CallType, Idle
    <3>3. RestPart'
      BY <2>2, <3>2, <2>t, <1>0 DEF OwnPort, RestPart, CallType, Goto, semVars
    <3> QED BY <3>1, <3>3
  <2>3. ASSUME NEW id \in 0..(MaxObjects - 1), DeletePort(c, id)
        PROVE  PortPart' /\ SemPart' /\ RestPart'
    <3>1. PortPart' /\ SemPart'
      BY <2>3, <1>0, SamePorts, SameSems DEF DeletePort, portVars, semVars
    <3>2. id \in Nat /\ port[ports.items[id]].owner \in Team
      BY <2>3, <1>0, ValidPort DEF DeletePort
    <3>3. RestPart'
      BY <2>3, <3>2, <1>0 DEF DeletePort, RestPart, CallType, Goto, portVars, semVars
    <3> QED BY <3>1, <3>3
  <2>4. CASE DisownPort(c)
    <3>1. PortPart' /\ SemPart'
      BY <2>4, <1>0, SamePorts, SameSems DEF DisownPort, semVars
    <3>2. call[c].id \in Nat /\ call[c].from \in Team
      BY <2>4, <2>c DEF DisownPort, CallType, Idle
    <3>3. RestPart'
      BY <2>4, <3>2, <1>0 DEF DisownPort, Disown, RestPart, CallType, Goto, semVars
    <3> QED BY <3>1, <3>3
  <2>5. CASE DropPort(c)
    <3>1. PortPart'
      BY <2>5, <1>0, UnregisterKeeps DEF DropPort
    <3>2. SemPart'
      BY <2>5, <1>0, SameSems DEF DropPort, semVars
    <3>3. RestPart'
      BY <2>5, <1>0 DEF DropPort, RestPart, CallType, Goto, semVars
    <3> QED BY <3>1, <3>2, <3>3
  <2>6. ASSUME NEW id \in 0..(MaxObjects - 1), NEW t \in Team, SetPortOwner(c, id, t)
        PROVE  PortPart' /\ SemPart' /\ RestPart'
    <3>1. PortPart' /\ SemPart'
      BY <2>6, <1>0, SamePorts, SameSems DEF SetPortOwner, portVars, semVars
    <3>2. /\ id \in Nat /\ ports.items[id] \in DOMAIN port
          /\ port[ports.items[id]].owner \in Team
      BY <2>6, <1>0, ValidPort DEF SetPortOwner
    <3>3. RestPart'
      BY <2>6, <3>2, <1>0 DEF SetPortOwner, RestPart, CallType, Goto, portVars, semVars
    <3> QED BY <3>1, <3>3
  <2>7. CASE MovePort(c)
    <3>1. /\ call[c].id \in Nat /\ call[c].from \in Team /\ call[c].to \in Team
          /\ call[c].port \in DOMAIN port
      BY <2>7, <2>c DEF MovePort, CallType, Idle
    <3>2. PortPart' /\ DOMAIN port' = DOMAIN port /\ Len(port') = Len(port)
      BY <2>7, <3>1, <1>0, OwnerKeeps DEF MovePort
    <3>3. SemPart'
      BY <2>7, <1>0, SameSems DEF MovePort, semVars
    <3>4. RestPart'
      BY <2>7, <3>1, <3>2, <1>0 DEF MovePort, Disown, RestPart, CallType, Goto, semVars
    <3> QED BY <3>2, <3>3, <3>4
  <2>8. CASE CreateSem(c)
    <3>1. PortPart'
      BY <2>8, <1>0, SamePorts DEF CreateSem, portVars
    <3>2. AddId(sems) \in Nat
      BY <1>0, AddSpec DEF SemPart
    <3> DEFINE x == [owner |-> TeamOf[c], id |-> AddId(sems)]
    <3>3. x \in SemRec /\ x.id = AddId(sems)
      BY <3>2, <2>t DEF SemRec
    <3>4. sems' = Add(sems, Fresh(sem)) /\ sem' = Append(sem, x)
      BY <2>8 DEF CreateSem
    <3> HIDE DEF x
    <3>5. SemPart'
      BY <3>3, <3>4, <1>0, AddKeeps DEF SemPart
    <3>6. Len(sem') = Len(sem) + 1 /\ Len(port) + Len(sem) + 1 <= MaxObjects
      BY <2>8, <3>4, <1>0, RegistryAssumption DEF CreateSem, MayAddObject, SemPart, PortPart
    <3>7. RestPart'
      BY <2>8, <3>2, <3>6, <1>0 DEF CreateSem, RestPart, CallType, Goto, portVars
    <3> QED BY <3>1, <3>5, <3>7
  <2>9. CASE OwnSem(c)
    <3>1. PortPart' /\ SemPart'
      BY <2>9, <1>0, SamePorts, SameSems DEF OwnSem, portVars
    <3>2. call[c].id \in Nat
      BY <2>9, <2>c DEF OwnSem, CallType, Idle
    <3>3. RestPart'
      BY <2>9, <3>2, <2>t, <1>0 DEF OwnSem, RestPart, CallType, Goto, portVars
    <3> QED BY <3>1, <3>3
  <2>10. ASSUME NEW id \in 0..(MaxObjects - 1), DeleteSem(c, id)
         PROVE  PortPart' /\ SemPart' /\ RestPart'
    <3>1. PortPart'
      BY <2>10, <1>0, SamePorts DEF DeleteSem, portVars
    <3>2. id \in DOMAIN sems.items /\ sem[sems.items[id]].id \in Nat
      BY <2>10, <1>0, ValidSem DEF DeleteSem
    <3>3. SemPart'
      <4>1. {i \in {id} : IsValidId(sems, i)} \in SUBSET (DOMAIN sems.items)
        BY <3>2
      <4> QED BY <2>10, <4>1, <1>0, RemoveKeeps DEF DeleteSem, UnregisterSemaphores, SemPart
    <3>4. RestPart'
      BY <2>10, <3>2, <1>0 DEF DeleteSem, RestPart, CallType, Goto, portVars
    <3> QED BY <3>1, <3>3, <3>4
  <2>11. CASE DisownSem(c)
    <3>1. PortPart' /\ SemPart'
      BY <2>11, <1>0, SamePorts, SameSems DEF DisownSem, portVars
    <3>2. RestPart'
      BY <2>11, <2>t, <1>0 DEF DisownSem, Disown, RestPart, CallType, Goto, portVars
    <3> QED BY <3>1, <3>2
  <2>13. ASSUME NEW id \in 0..(MaxObjects - 1), NEW lock \in 0..(MaxObjects - 1), NEW t \in Team,
                RegisterNub(c, id, lock, t)
         PROVE  PortPart' /\ SemPart' /\ RestPart'
    <3>1. PortPart' /\ SemPart'
      BY <2>13, <1>0, SamePorts, SameSems DEF RegisterNub, portVars
    <3>2. RestPart'
      BY <2>13, <2>t, <1>0 DEF RegisterNub, Disown, RestPart, CallType, Goto, portVars
    <3> QED BY <3>1, <3>2
  <2>14. CASE LendSem(c)
    <3>1. PortPart' /\ SemPart'
      BY <2>14, <1>0, SamePorts, SameSems DEF LendSem, portVars
    <3>2. call[c].id \in Nat /\ call[c].to \in Team
      BY <2>14, <2>c DEF LendSem, CallType, Idle
    <3>3. RestPart'
      BY <2>14, <3>2, <1>0 DEF LendSem, RestPart, CallType, Goto, portVars
    <3> QED BY <3>1, <3>3
  <2>12. CASE Disconnect(c)
    <3>1. CASE LastOf(c)
      <4>1. PortPart'
        <5>1. PICK theirs : UnregisterPorts(PortsToClean(TeamOf[c]) \cup theirs)
          BY <2>12, <3>1 DEF Disconnect
        <5>2. UNCHANGED <<port, shared>>
          BY <2>12, <3>1 DEF Disconnect
        <5> QED BY <5>1, <5>2, <1>0, UnregisterKeeps
      <4>2. SemPart'
        <5> DEFINE S == {i \in SemsToClean(TeamOf[c]) : IsValidId(sems, i)}
        <5>1. S \in SUBSET (DOMAIN sems.items)
          BY <1>0, ValidSem
        <5> QED BY <2>12, <3>1, <5>1, <1>0, RemoveKeeps
                DEF Disconnect, UnregisterSemaphores, SemPart
      <4>3. RestPart'
        BY <2>12, <3>1, <1>0 DEF Disconnect, RestPart, CallType
      <4> QED BY <4>1, <4>2, <4>3
    <3>2. CASE ~LastOf(c)
      BY <2>12, <3>2, <1>0, SamePorts, SameSems
         DEF Disconnect, RestPart, CallType, portVars, semVars
    <3> QED BY <3>1, <3>2
  <2> QED BY <2>0, <2>1, <2>2, <2>3, <2>4, <2>5, <2>6, <2>7, <2>8, <2>9, <2>10, <2>11, <2>12,
           <2>13, <2>14
<1> QED BY <1>u, <1>n

LEMMA RegInvariant == Spec => []RegInductive
<1>1. RegInductive /\ [Next]_vars => RegInductive'
  BY RegStep
<1> QED BY RegInit, <1>1, PTL DEF Spec

\* The tables and the calls keep their types, for any guests, names and bounds.
THEOREM RegistryTypeCorrect == Spec => []TypeOK
<1>1. RegInductive => TypeOK
  BY DEF RegInductive
<1> QED BY RegInvariant, <1>1, PTL

\* Ids are sound and find_port never gives a wrong one, whatever calls are in
\* progress, whichever port a delete hits and whoever is killed.
THEOREM RegistryNamesResolve == Spec => [](IdsSound /\ NamesResolve)
<1>1. RegInductive => IdsSound /\ NamesResolve
  BY DEF RegInductive
<1> QED BY RegInvariant, <1>1, PTL

\* find_port finds every port that has never been beside another one of its name.
THEOREM RegistryFinds == Spec => []FoundUnlessShared
<1>1. RegInductive => FoundUnlessShared
  <2> SUFFICES ASSUME RegInductive, NEW o \in Registered(ports), o \notin shared
               PROVE  FindPort(port[o].name) = port[o].id
    BY DEF FoundUnlessShared
  <2>1. PICK i \in DOMAIN ports.items : ports.items[i] = o /\ o # 0
    BY DEF Registered
  <2>2. portNames[port[o].name] = i
    BY <2>1 DEF RegInductive, FoundById
  <2>3. port[o].id = i
    BY <2>1 DEF RegInductive, IdsSound, Sound
  <2> QED BY <2>2, <2>3 DEF FindPort
<1> QED BY RegInvariant, <1>1, PTL

-----------------------------------------------------------------------------
(* Who owns what, as long as no guest was careless. *)

\* The team's object is registered under the id.
Has(map, objs, t, i) ==
    i \in DOMAIN map.items /\ map.items[i] # 0 /\ objs[map.items[i]].owner = t
HasPort(t, i) == Has(ports, port, t, i)
HasSem(t, i) == Has(sems, sem, t, i)

\* A thread that has not left has a process, who is in a call has not left, and
\* who owns something has a process; nobody has been prepared for a debugger.
TeamsOK ==
    /\ \A c \in Thread : c \in staying => TeamOf[c] \in processes
    /\ \A c \in Thread : call[c].at # "idle" => c \in staying
    /\ \A t \in Team, i \in Nat : HasPort(t, i) \/ HasSem(t, i) => t \in processes
    /\ \A t \in Team : nub[t] = -1
    /\ \A c \in Thread : call[c].at # "lend_sem"

\* A call about a port is about one of the caller's own, and remembers it well.
PortCall(c) ==
    /\ call[c].at \in AtPort => HasPort(TeamOf[c], call[c].id)
    /\ call[c].at = "disown_port" => call[c].from = TeamOf[c]
    /\ call[c].at = "drop_port" => call[c].id \notin owningPorts[TeamOf[c]]
    /\ call[c].at = "move_port" =>
          /\ call[c].from = TeamOf[c] /\ call[c].port = ports.items[call[c].id]
          /\ call[c].to # TeamOf[c] /\ call[c].to \in processes
PortCallsOK == \A c \in Thread : PortCall(c)
PortOwnersOK ==
    \A t \in Team, i \in Nat :
        AtWork(t, i, {"own_port", "drop_port"}) \/ (i \in owningPorts[t] <=> HasPort(t, i))

\* A semaphore that is created is the caller's, one that is deleted no longer.
SemCall(c) ==
    /\ call[c].at = "own_sem" => HasSem(TeamOf[c], call[c].id)
    /\ call[c].at = "disown_sem" => ~HasSem(TeamOf[c], call[c].id)
SemCallsOK == \A c \in Thread : SemCall(c)
SemOwnersOK ==
    \A t \in Team, i \in Nat :
        AtWork(t, i, {"own_sem", "disown_sem"}) \/ (i \in owningSems[t] <=> HasSem(t, i))

\* Two threads of a team are at work on different ids.
Alone(where) ==
    \A c, d \in Thread :
        c # d /\ TeamOf[c] = TeamOf[d] /\ call[c].at \in where /\ call[d].at \in where
        => call[c].id # call[d].id
PortsAlone == Alone(AtPort)
SemsAlone == Alone({"own_sem", "disown_sem"})

Owned ==
    /\ TeamsOK
    /\ PortCallsOK /\ PortOwnersOK /\ PortsAlone
    /\ SemCallsOK /\ SemOwnersOK /\ SemsAlone
OwnersInductive == ~careless => Owned

\* IdMap::Add gives the object to its owner, under an id that was nobody's.
LEMMA AddHas ==
    ASSUME NEW R, NEW objs \in Seq(R), NEW map, MapOK(map, objs), Sound(map, objs), NEW x \in R
    PROVE  /\ \A u, i : Has(Add(map, Fresh(objs)), Append(objs, x), u, i) <=>
                          Has(map, objs, u, i) \/ (i = AddId(map) /\ u = x.owner)
           /\ \A u : ~Has(map, objs, u, AddId(map))
<1> DEFINE o == Len(objs) + 1
           new == Add(map, o)
           more == Append(objs, x)
           id == AddId(map)
<1>1. /\ DOMAIN more = DOMAIN objs \cup {o} /\ more[o] = x /\ o \in Nat \ {0}
      /\ \A p \in DOMAIN objs : more[p] = objs[p] /\ p # 0
  OBVIOUS
<1>2. /\ DOMAIN new.items = DOMAIN map.items \cup {id}
      /\ id \in DOMAIN map.items => map.items[id] = 0
      /\ new.items[id] = o
      /\ \A i \in DOMAIN map.items : i # id => new.items[i] = map.items[i]
  BY AddSpec
<1>3. \A i \in DOMAIN map.items : map.items[i] \in {0} \cup DOMAIN objs
  BY DEF MapOK
<1> HIDE DEF o, new, more, id
<1>4. \A u : ~Has(map, objs, u, id)
  BY <1>2 DEF Has
<1>5. ASSUME NEW u, NEW i
      PROVE  Has(new, more, u, i) <=> Has(map, objs, u, i) \/ (i = id /\ u = x.owner)
  <2>1. CASE i = id
    BY <2>1, <1>1, <1>2 DEF Has
  <2>2. CASE i # id
    BY <2>2, <1>1, <1>2, <1>3 DEF Has
  <2> QED BY <2>1, <2>2
<1> QED BY <1>4, <1>5 DEF o, new, more, id, Fresh

\* IdMap::Remove takes what is under the ids from its owners.
LEMMA RemoveHas ==
    ASSUME NEW map, NEW objs, NEW theirs
    PROVE  \A u, i : Has(Remove(map, theirs), objs, u, i) <=> Has(map, objs, u, i) /\ i \notin theirs
  BY DEF Has, Remove

\* System::UnregisterPort and System::UnregisterSemaphore
LEMMA UnregisterHas ==
    ASSUME PortPart, SemPart, NEW theirs
    PROVE  /\ UnregisterPorts(theirs) /\ UNCHANGED port =>
                \A u \in Team, i \in Nat : HasPort(u, i)' <=> HasPort(u, i) /\ i \notin theirs
           /\ UnregisterSemaphores(theirs) /\ UNCHANGED sem =>
                \A u \in Team, i \in Nat : HasSem(u, i)' <=> HasSem(u, i) /\ i \notin theirs
<1>1. ASSUME UnregisterPorts(theirs), UNCHANGED port, NEW u \in Team, NEW i \in Nat
      PROVE  HasPort(u, i)' <=> HasPort(u, i) /\ i \notin theirs
  <2>1. HasPort(u, i)' <=> Has(Remove(ports, Present(theirs)), port, u, i)
    BY <1>1 DEF HasPort, UnregisterPorts, Has
  <2>2. HasPort(u, i) => (i \in Present(theirs) <=> i \in theirs)
    BY DEF HasPort, Has, Present
  <2> QED BY <2>1, <2>2, RemoveHas DEF HasPort
<1>2. ASSUME UnregisterSemaphores(theirs), UNCHANGED sem, NEW u \in Team, NEW i \in Nat
      PROVE  HasSem(u, i)' <=> HasSem(u, i) /\ i \notin theirs
  <2> DEFINE gone == {j \in theirs : IsValidId(sems, j)}
  <2>1. HasSem(u, i)' <=> Has(Remove(sems, gone), sem, u, i)
    BY <1>2 DEF HasSem, UnregisterSemaphores, Has
  <2>2. HasSem(u, i) => IsValidId(sems, i)
    BY DEF HasSem, Has, IsValidId, SemPart, MapOK, Sound
  <2> QED BY <2>1, <2>2, RemoveHas DEF HasSem
<1> QED BY <1>1, <1>2

\* A valid id is that of one port, or semaphore, of one owner.
LEMMA ValidHas ==
    ASSUME PortPart, SemPart
    PROVE  /\ \A id : IsValidId(ports, id) => HasPort(port[ports.items[id]].owner, id)
           /\ \A id : IsValidId(sems, id) =>
                HasSem(sem[sems.items[id]].owner, id) /\ sem[sems.items[id]].id = id
  BY DEF IsValidId, HasPort, HasSem, Has, PortPart, SemPart, MapOK, Sound

\* set_port_owner gives one port another owner.
LEMMA MoveHas ==
    ASSUME PortPart, NEW t \in Team, NEW id \in Nat, HasPort(t, id), NEW to \in Team,
           UNCHANGED ports, port' = [port EXCEPT ![ports.items[id]].owner = to]
    PROVE  \A u \in Team, i \in Nat :
             HasPort(u, i)' <=> IF i = id THEN u = to ELSE HasPort(u, i)
<1> DEFINE o == ports.items[id]
<1>1. o \in DOMAIN port /\ port[o].id = id /\ o # 0 /\ id \in DOMAIN ports.items
  BY DEF HasPort, Has, PortPart, MapOK, Sound
<1>2. port[o] \in PortRec
  BY <1>1 DEF PortPart
<1>3. port'[o].owner = to /\ \A p \in DOMAIN port : p # o => port'[p] = port[p]
  BY <1>1, <1>2 DEF PortPart, PortRec
<1>4. ASSUME NEW i \in DOMAIN ports.items, i # id, ports.items[i] # 0
      PROVE  ports.items[i] \in DOMAIN port /\ ports.items[i] # o
  BY <1>1, <1>4 DEF PortPart, MapOK, Sound
<1> HIDE DEF o
<1>5. ASSUME NEW u \in Team, NEW i \in Nat
      PROVE  HasPort(u, i)' <=> IF i = id THEN u = to ELSE HasPort(u, i)
  <2>1. CASE i = id
    BY <2>1, <1>1, <1>3 DEF HasPort, Has, o
  <2>2. CASE i # id
    BY <2>2, <1>3, <1>4 DEF HasPort, Has
  <2> QED BY <2>1, <2>2
<1> QED BY <1>5

\* The ids that calls hold are numbers.
LEMMA CallIds ==
    ASSUME RestPart
    PROVE  \A d \in Thread : call[d].at # "idle" => call[d].id \in Nat
<1> SUFFICES ASSUME NEW d \in Thread, call[d].at # "idle" PROVE call[d].id \in Nat
  OBVIOUS
<1>1. call[d] \in CallType
  BY DEF RestPart
<1> QED BY <1>1 DEF CallType, Idle

\* A thread goes on with a call, about an id that no other thread of its team is
\* at work on.
LEMMA AloneKept ==
    ASSUME RestPart, NEW where, Alone(where), NEW c \in Thread, NEW x, Goto(c, x),
           x.at \in where =>
               \A d \in Thread : d # c /\ TeamOf[d] = TeamOf[c] /\ call[d].at \in where => call[d].id # x.id
    PROVE  Alone(where)'
<1>1. call'[c] = x /\ \A d \in Thread : d # c => call'[d] = call[d]
  BY DEF RestPart, Goto
<1> QED BY <1>1 DEF Alone

\* A step of a call that has nothing to do with ports leaves what is said of them.
LEMMA PortsApart ==
    ASSUME RestPart, PortCallsOK, PortOwnersOK, PortsAlone, NEW c \in Thread, NEW x,
           UNCHANGED <<ports, port, owningPorts, processes>>, Goto(c, x),
           call[c].at \notin AtPort, x.at \notin AtPort
    PROVE  PortCallsOK' /\ PortOwnersOK' /\ PortsAlone'
<1>1. call'[c] = x /\ \A d \in Thread : d # c => call'[d] = call[d]
  BY DEF RestPart, Goto
<1>2. \A t, i : HasPort(t, i)' <=> HasPort(t, i)
  BY DEF HasPort, Has
<1>3. PortCallsOK'
  <2> SUFFICES ASSUME NEW d \in Thread PROVE PortCall(d)'
    BY DEF PortCallsOK
  <2>1. CASE d = c
    BY <2>1, <1>1 DEF PortCall, AtPort
  <2>2. CASE d # c
    BY <2>2, <1>1, <1>2 DEF PortCallsOK, PortCall
  <2> QED BY <2>1, <2>2
<1>4. \A t, i : AtWork(t, i, {"own_port", "drop_port"})' <=> AtWork(t, i, {"own_port", "drop_port"})
  BY <1>1 DEF AtWork, AtPort
<1>5. PortOwnersOK'
  BY <1>2, <1>4 DEF PortOwnersOK
<1>6. PortsAlone'
  BY AloneKept DEF PortsAlone
<1> QED BY <1>3, <1>5, <1>6

\* The same for semaphores.
LEMMA SemsApart ==
    ASSUME RestPart, SemCallsOK, SemOwnersOK, SemsAlone, NEW c \in Thread, NEW x,
           UNCHANGED <<sems, sem, owningSems>>, Goto(c, x),
           call[c].at \notin {"own_sem", "disown_sem"}, x.at \notin {"own_sem", "disown_sem"}
    PROVE  SemCallsOK' /\ SemOwnersOK' /\ SemsAlone'
<1>1. call'[c] = x /\ \A d \in Thread : d # c => call'[d] = call[d]
  BY DEF RestPart, Goto
<1>2. \A t, i : HasSem(t, i)' <=> HasSem(t, i)
  BY DEF HasSem, Has
<1>3. SemCallsOK'
  <2> SUFFICES ASSUME NEW d \in Thread PROVE SemCall(d)'
    BY DEF SemCallsOK
  <2>1. CASE d = c
    BY <2>1, <1>1 DEF SemCall
  <2>2. CASE d # c
    BY <2>2, <1>1, <1>2 DEF SemCallsOK, SemCall
  <2> QED BY <2>1, <2>2
<1>4. \A t, i : AtWork(t, i, {"own_sem", "disown_sem"})' <=> AtWork(t, i, {"own_sem", "disown_sem"})
  BY <1>1 DEF AtWork
<1>5. SemOwnersOK'
  BY <1>2, <1>4 DEF SemOwnersOK
<1>6. SemsAlone'
  BY AloneKept DEF SemsAlone
<1> QED BY <1>3, <1>5, <1>6

\* create_port registers the port and then adds it to the set of the team.
LEMMA PortsCreated ==
    ASSUME RegInductive, Owned, NEW c \in Thread, NEW n \in Name, CreatePort(c, n)
    PROVE  PortCallsOK' /\ PortOwnersOK' /\ PortsAlone' /\ TeamsOK'
<1>0. PortPart /\ SemPart /\ RestPart
  BY Parts
<1>t. \A d \in Thread : TeamOf[d] \in Team
  BY RegistryAssumption
<1>1. DOMAIN call = Thread /\ \A d \in Thread : call[d] \in CallType
  BY <1>0 DEF RestPart
<1>2. owningPorts \in [Team -> SUBSET Nat] /\ owningSems \in [Team -> SUBSET Nat]
  BY <1>0 DEF RestPart
<1> DEFINE id == AddId(ports)
           x == [name |-> n, owner |-> TeamOf[c], id |-> id]
<1>4. ports' = Add(ports, Fresh(port)) /\ port' = Append(port, x)
  BY DEF CreatePort, RegisterPort
<1>5. /\ id \in Nat
      /\ \A i \in DOMAIN ports.items : i # id => ports'.items[i] = ports.items[i]
  BY <1>0, <1>4, AddSpec DEF PortPart
<1>6. x \in PortRec /\ x.owner = TeamOf[c]
  BY <1>5, <1>t DEF PortRec
<1> HIDE DEF x, id
<1>7. /\ \A u, i : Has(ports', port', u, i) <=>
                     Has(ports, port, u, i) \/ (i = id /\ u = TeamOf[c])
      /\ \A u : ~Has(ports, port, u, id)
  BY <1>0, <1>4, <1>6, AddHas DEF PortPart, id
<1>8. /\ \A u, i : HasPort(u, i)' <=> HasPort(u, i) \/ (i = id /\ u = TeamOf[c])
      /\ \A u : ~HasPort(u, id)
  BY <1>7 DEF HasPort
<1>9. /\ call[c].at = "idle" /\ c \in staying
      /\ call'[c] = [at |-> "own_port", id |-> id]
      /\ \A d \in Thread : d # c => call'[d] = call[d]
      /\ UNCHANGED <<owningPorts, processes, staying, sems, sem, nub>>
  BY <1>1 DEF CreatePort, MayCall, Goto, id, semVars
<1>10. PortCallsOK'
  <2> SUFFICES ASSUME NEW d \in Thread PROVE PortCall(d)'
    BY DEF PortCallsOK
  <2>1. CASE d = c
    BY <2>1, <1>8, <1>9 DEF PortCall, AtPort
  <2>2. CASE d # c
    <3>1. PortCall(d)
      BY DEF Owned, PortCallsOK
    <3>2. call[d].at \in AtPort => HasPort(TeamOf[d], call[d].id) /\ call[d].id # id
      BY <3>1, <1>8 DEF PortCall
    <3>3. call[d].at \in AtPort => ports'.items[call[d].id] = ports.items[call[d].id]
      BY <3>2, <1>5 DEF HasPort, Has
    <3> QED BY <2>2, <3>1, <3>2, <3>3, <1>8, <1>9 DEF PortCall, AtPort
  <2> QED BY <2>1, <2>2
<1>11. PortOwnersOK'
  <2> SUFFICES ASSUME NEW t \in Team, NEW i \in Nat, ~AtWork(t, i, {"own_port", "drop_port"})'
               PROVE  i \in owningPorts'[t] <=> HasPort(t, i)'
    BY DEF PortOwnersOK
  <2>1. ~(t = TeamOf[c] /\ i = id)
    BY <1>9 DEF AtWork
  <2>2. ~AtWork(t, i, {"own_port", "drop_port"})
    BY <1>9 DEF AtWork
  <2> QED BY <2>1, <2>2, <1>8, <1>9 DEF Owned, PortOwnersOK
<1>12. TeamsOK'
  <2>1. TeamOf[c] \in processes
    BY <1>9 DEF Owned, TeamsOK
  <2>2. \A t, i : HasSem(t, i)' <=> HasSem(t, i)
    BY <1>9 DEF HasSem, Has
  <2> QED BY <2>1, <2>2, <1>8, <1>9 DEF Owned, TeamsOK
<1>13. PortsAlone'
  <2> DEFINE y == [at |-> "own_port", id |-> id]
  <2>1. Goto(c, y) /\ y.id = id
    BY DEF CreatePort, id
  <2>2. \A d \in Thread : call[d].at \in AtPort => call[d].id # id
    BY <1>8 DEF Owned, PortCallsOK, PortCall
  <2> HIDE DEF y
  <2> QED BY <2>1, <2>2, <1>0, AloneKept DEF Owned, PortsAlone
<1> QED BY <1>10, <1>11, <1>12, <1>13

LEMMA PortsOwned ==
    ASSUME RegInductive, Owned, NEW c \in Thread, OwnPort(c)
    PROVE  PortCallsOK' /\ PortOwnersOK' /\ PortsAlone'
<1>0. PortPart /\ SemPart /\ RestPart
  BY Parts
<1>t. \A d \in Thread : TeamOf[d] \in Team
  BY RegistryAssumption
<1>1. DOMAIN call = Thread /\ \A d \in Thread : call[d] \in CallType
  BY <1>0 DEF RestPart
<1>2. owningPorts \in [Team -> SUBSET Nat] /\ owningSems \in [Team -> SUBSET Nat]
  BY <1>0 DEF RestPart
<1>3. \A d \in Thread : d # c /\ TeamOf[d] = TeamOf[c] /\ call[d].at \in AtPort => call[d].id # call[c].id
  BY DEF Owned, PortsAlone, Alone, AtPort, OwnPort
<1> DEFINE id == call[c].id
<1>4. id \in Nat /\ HasPort(TeamOf[c], id)
  BY <1>0, CallIds DEF OwnPort, Owned, PortCallsOK, PortCall, AtPort
<1>5. /\ call'[c] = Idle /\ \A d \in Thread : d # c => call'[d] = call[d]
      /\ UNCHANGED <<processes, ports, port>>
      /\ owningPorts' = [owningPorts EXCEPT ![TeamOf[c]] = @ \cup {id}]
  BY <1>1 DEF OwnPort, Goto
<1>6. \A t, i : HasPort(t, i)' <=> HasPort(t, i)
  BY <1>5 DEF HasPort, Has
<1>7. PortCallsOK'
  <2> SUFFICES ASSUME NEW d \in Thread PROVE PortCall(d)'
    BY DEF PortCallsOK
  <2>1. CASE d = c
    BY <2>1, <1>5 DEF PortCall, AtPort, Idle
  <2>2. CASE d # c
    <3>1. call[d].at = "drop_port" =>
             (call[d].id \in owningPorts'[TeamOf[d]] <=> call[d].id \in owningPorts[TeamOf[d]])
      BY <2>2, <1>2, <1>3, <1>5, <1>t DEF AtPort
    <3> QED BY <2>2, <3>1, <1>5, <1>6 DEF Owned, PortCallsOK, PortCall
  <2> QED BY <2>1, <2>2
<1>8. PortOwnersOK'
  <2> SUFFICES ASSUME NEW t \in Team, NEW i \in Nat, ~AtWork(t, i, {"own_port", "drop_port"})'
               PROVE  i \in owningPorts'[t] <=> HasPort(t, i)'
    BY DEF PortOwnersOK
  <2>1. CASE t = TeamOf[c] /\ i = id
    BY <2>1, <1>2, <1>4, <1>5, <1>6
  <2>2. CASE ~(t = TeamOf[c] /\ i = id)
    <3>1. ~AtWork(t, i, {"own_port", "drop_port"})
      BY <2>2, <1>5 DEF AtWork
    <3>2. i \in owningPorts'[t] <=> i \in owningPorts[t]
      BY <2>2, <1>2, <1>5
    <3> QED BY <3>1, <3>2, <1>6 DEF Owned, PortOwnersOK
  <2> QED BY <2>1, <2>2
<1>9. PortsAlone'
  <2>1. Goto(c, Idle) /\ Idle.at \notin AtPort
    BY DEF OwnPort, Idle, AtPort
  <2> QED BY <2>1, <1>0, AloneKept DEF Owned, PortsAlone
<1> QED BY <1>7, <1>8, <1>9

\* delete_port and set_port_owner look up a port of the caller, if it is careful.
LEMMA PortsLookedUp ==
    ASSUME RegInductive, Owned, NEW c \in Thread, NEW id, ~careless', ~careless,
           \/ DeletePort(c, id)
           \/ \E to \in Team : SetPortOwner(c, id, to)
    PROVE  PortCallsOK' /\ PortOwnersOK' /\ PortsAlone'
<1>0. PortPart /\ SemPart /\ RestPart
  BY Parts
<1>t. \A d \in Thread : TeamOf[d] \in Team
  BY RegistryAssumption
<1>1. DOMAIN call = Thread /\ \A d \in Thread : call[d] \in CallType
  BY <1>0 DEF RestPart
<1>2. owningPorts \in [Team -> SUBSET Nat] /\ owningSems \in [Team -> SUBSET Nat]
  BY <1>0 DEF RestPart
<1>4. /\ IsValidId(ports, id) /\ port[ports.items[id]].owner = TeamOf[c]
      /\ call[c].at = "idle" /\ c \in staying
      /\ UNCHANGED <<ports, port, owningPorts, processes>>
  BY DEF DeletePort, SetPortOwner, MayCall, portVars
<1>5. HasPort(TeamOf[c], id) /\ TeamOf[c] \in processes
  BY <1>0, <1>4, ValidHas DEF Owned, TeamsOK
<1>6. \A d \in Thread : d # c => call'[d] = call[d]
  BY <1>1 DEF DeletePort, SetPortOwner, Goto
<1>a. /\ call'[c].at \in {"disown_port", "move_port"}
      /\ call'[c].id = id /\ call'[c].from = TeamOf[c]
      /\ call'[c].at = "move_port" => /\ call'[c].port = ports.items[id]
                                      /\ call'[c].to # TeamOf[c] /\ call'[c].to \in processes
  <2>1. CASE DeletePort(c, id)
    <3>1. call'[c] = [at |-> "disown_port", id |-> id, from |-> TeamOf[c]]
      BY <2>1, <1>1, <1>4, <1>5 DEF DeletePort, Goto
    <3> QED BY <3>1
  <2>2. CASE \E to \in Team : SetPortOwner(c, id, to)
    <3>1. PICK to \in Team : SetPortOwner(c, id, to)
      BY <2>2
    <3>2. /\ to \in processes /\ to # TeamOf[c]
          /\ call'[c] = [at |-> "move_port", id |-> id, port |-> ports.items[id],
                         from |-> TeamOf[c], to |-> to]
      BY <3>1, <1>1, <1>4 DEF SetPortOwner, Goto
    <3> QED BY <3>2
  <2> QED BY <2>1, <2>2
<1>7. \A t, i : HasPort(t, i)' <=> HasPort(t, i)
  BY <1>4 DEF HasPort, Has
<1>8. PortCallsOK'
  <2> SUFFICES ASSUME NEW d \in Thread PROVE PortCall(d)'
    BY DEF PortCallsOK
  <2>1. CASE d = c
    BY <2>1, <1>a, <1>4, <1>5, <1>7 DEF PortCall
  <2>2. CASE d # c
    BY <2>2, <1>4, <1>6, <1>7 DEF Owned, PortCallsOK, PortCall
  <2> QED BY <2>1, <2>2
<1>9. \A t, i : AtWork(t, i, {"own_port", "drop_port"})' <=> AtWork(t, i, {"own_port", "drop_port"})
  BY <1>4, <1>6, <1>a DEF AtWork
<1>10. PortOwnersOK'
  BY <1>4, <1>7, <1>9 DEF Owned, PortOwnersOK
<1>11. ~AtWork(TeamOf[c], id, AtPort)
  BY <1>4 DEF DeletePort, SetPortOwner
<1>12. PortsAlone'
  BY <1>1, <1>6, <1>a, <1>11 DEF Owned, PortsAlone, Alone, AtWork
<1> QED BY <1>8, <1>10, <1>12

\* delete_port takes the id from the owner, ...
LEMMA PortsDisowned ==
    ASSUME RegInductive, Owned, NEW c \in Thread, DisownPort(c)
    PROVE  PortCallsOK' /\ PortOwnersOK' /\ PortsAlone'
<1>0. PortPart /\ SemPart /\ RestPart
  BY Parts
<1>t. \A d \in Thread : TeamOf[d] \in Team
  BY RegistryAssumption
<1>1. DOMAIN call = Thread /\ \A d \in Thread : call[d] \in CallType
  BY <1>0 DEF RestPart
<1>2. owningPorts \in [Team -> SUBSET Nat] /\ owningSems \in [Team -> SUBSET Nat]
  BY <1>0 DEF RestPart
<1>3. \A d \in Thread : d # c /\ TeamOf[d] = TeamOf[c] /\ call[d].at \in AtPort => call[d].id # call[c].id
  BY DEF Owned, PortsAlone, Alone, AtPort, DisownPort
<1> DEFINE id == call[c].id
<1>4. id \in Nat /\ HasPort(TeamOf[c], id) /\ call[c].from = TeamOf[c]
  BY <1>0, CallIds DEF DisownPort, Owned, PortCallsOK, PortCall, AtPort
<1>5. /\ call[c].at = "disown_port" /\ call'[c] = [at |-> "drop_port", id |-> id]
      /\ \A d \in Thread : d # c => call'[d] = call[d]
      /\ UNCHANGED <<processes, ports, port>>
      /\ owningPorts' = [owningPorts EXCEPT ![TeamOf[c]] = @ \ {id}]
  BY <1>1, <1>4 DEF DisownPort, Disown, Goto
<1>6. \A t, i : HasPort(t, i)' <=> HasPort(t, i)
  BY <1>5 DEF HasPort, Has
<1>7. PortCallsOK'
  <2> SUFFICES ASSUME NEW d \in Thread PROVE PortCall(d)'
    BY DEF PortCallsOK
  <2>1. CASE d = c
    BY <2>1, <1>2, <1>4, <1>5, <1>6, <1>t DEF PortCall, AtPort
  <2>2. CASE d # c
    <3>1. call[d].at = "drop_port" =>
             (call[d].id \in owningPorts'[TeamOf[d]] <=> call[d].id \in owningPorts[TeamOf[d]])
      BY <2>2, <1>2, <1>3, <1>5, <1>t DEF AtPort
    <3> QED BY <2>2, <3>1, <1>5, <1>6 DEF Owned, PortCallsOK, PortCall
  <2> QED BY <2>1, <2>2
<1>8. PortOwnersOK'
  <2> SUFFICES ASSUME NEW t \in Team, NEW i \in Nat, ~AtWork(t, i, {"own_port", "drop_port"})'
               PROVE  i \in owningPorts'[t] <=> HasPort(t, i)'
    BY DEF PortOwnersOK
  <2>1. ~(t = TeamOf[c] /\ i = id) /\ ~AtWork(t, i, {"own_port", "drop_port"})
    BY <1>5 DEF AtWork
  <2>2. i \in owningPorts'[t] <=> i \in owningPorts[t]
    BY <2>1, <1>2, <1>5
  <2> QED BY <2>1, <2>2, <1>6 DEF Owned, PortOwnersOK
<1>9. PortsAlone'
  <2> DEFINE y == [at |-> "drop_port", id |-> id]
  <2>1. Goto(c, y) /\ y.id = id
    BY DEF DisownPort
  <2> HIDE DEF y
  <2> QED BY <2>1, <1>0, <1>3, AloneKept DEF Owned, PortsAlone
<1> QED BY <1>7, <1>8, <1>9

\* ... and unregisters what nobody else has a call about.
LEMMA PortsDropped ==
    ASSUME RegInductive, Owned, NEW c \in Thread, DropPort(c)
    PROVE  /\ PortCallsOK' /\ PortOwnersOK' /\ PortsAlone'
           /\ \A t \in Team, i \in Nat : HasPort(t, i)' => HasPort(t, i)
<1>0. PortPart /\ SemPart /\ RestPart
  BY Parts
<1>t. \A d \in Thread : TeamOf[d] \in Team
  BY RegistryAssumption
<1>1. DOMAIN call = Thread /\ \A d \in Thread : call[d] \in CallType
  BY <1>0 DEF RestPart
<1>2. owningPorts \in [Team -> SUBSET Nat] /\ owningSems \in [Team -> SUBSET Nat]
  BY <1>0 DEF RestPart
<1>3. \A d \in Thread : d # c /\ TeamOf[d] = TeamOf[c] /\ call[d].at \in AtPort => call[d].id # call[c].id
  BY DEF Owned, PortsAlone, Alone, AtPort, DropPort
<1> DEFINE id == call[c].id
<1>4. id \in Nat /\ HasPort(TeamOf[c], id) /\ id \notin owningPorts[TeamOf[c]]
  BY <1>0, CallIds DEF DropPort, Owned, PortCallsOK, PortCall, AtPort
<1>5. /\ call[c].at = "drop_port" /\ call'[c] = Idle
      /\ \A d \in Thread : d # c => call'[d] = call[d]
      /\ UNCHANGED <<processes, port, owningPorts>>
  BY <1>1 DEF DropPort, Goto
<1>6. \A t \in Team, i \in Nat : HasPort(t, i)' <=> HasPort(t, i) /\ i # id
  BY <1>0, UnregisterHas DEF DropPort
<1>7. \A t \in Team : t # TeamOf[c] => ~HasPort(t, id)
  BY <1>4 DEF HasPort, Has
<1>8. PortCallsOK'
  <2> SUFFICES ASSUME NEW d \in Thread PROVE PortCall(d)'
    BY DEF PortCallsOK
  <2>1. CASE d = c
    BY <2>1, <1>5 DEF PortCall, AtPort, Idle
  <2>2. CASE d # c
    <3>1. PortCall(d)
      BY DEF Owned, PortCallsOK
    <3>2. call[d].at \in AtPort => call[d].id \in Nat /\ call[d].id # id /\ HasPort(TeamOf[d], call[d].id)
      BY <2>2, <3>1, <1>0, <1>3, <1>7, <1>t, CallIds DEF PortCall, AtPort
    <3>3. call[d].at \in AtPort => ports'.items[call[d].id] = ports.items[call[d].id]
      BY <3>2 DEF DropPort, UnregisterPorts, Remove, Present, HasPort, Has
    <3> QED BY <2>2, <3>1, <3>2, <3>3, <1>5, <1>6, <1>t DEF PortCall, AtPort
  <2> QED BY <2>1, <2>2
<1>9. PortOwnersOK'
  <2> SUFFICES ASSUME NEW t \in Team, NEW i \in Nat, ~AtWork(t, i, {"own_port", "drop_port"})'
               PROVE  i \in owningPorts'[t] <=> HasPort(t, i)'
    BY DEF PortOwnersOK
  <2>1. CASE t = TeamOf[c] /\ i = id
    BY <2>1, <1>4, <1>5, <1>6
  <2>2. CASE ~(t = TeamOf[c] /\ i = id)
    <3>1. ~AtWork(t, i, {"own_port", "drop_port"})
      BY <2>2, <1>5 DEF AtWork
    <3> QED BY <2>2, <3>1, <1>5, <1>6, <1>7 DEF Owned, PortOwnersOK
  <2> QED BY <2>1, <2>2
<1>e. PortsAlone'
  <2>1. Goto(c, Idle) /\ Idle.at \notin AtPort
    BY DEF DropPort, Idle, AtPort
  <2> QED BY <2>1, <1>0, AloneKept DEF Owned, PortsAlone
<1> QED BY <1>6, <1>8, <1>9, <1>e

\* set_port_owner moves a port and its id together.
LEMMA PortsMoved ==
    ASSUME RegInductive, Owned, NEW c \in Thread, MovePort(c)
    PROVE  /\ PortCallsOK' /\ PortOwnersOK' /\ PortsAlone'
           /\ \A t \in Team, i \in Nat : HasPort(t, i)' => HasPort(t, i) \/ t \in processes
<1>0. PortPart /\ SemPart /\ RestPart
  BY Parts
<1>t. \A d \in Thread : TeamOf[d] \in Team
  BY RegistryAssumption
<1>1. DOMAIN call = Thread /\ \A d \in Thread : call[d] \in CallType
  BY <1>0 DEF RestPart
<1>2. owningPorts \in [Team -> SUBSET Nat] /\ owningSems \in [Team -> SUBSET Nat]
  BY <1>0 DEF RestPart
<1>3. \A d \in Thread : d # c /\ TeamOf[d] = TeamOf[c] /\ call[d].at \in AtPort => call[d].id # call[c].id
  BY DEF Owned, PortsAlone, Alone, AtPort, MovePort
<1> DEFINE id == call[c].id
           to == call[c].to
<1>4. /\ id \in Nat /\ HasPort(TeamOf[c], id) /\ call[c].from = TeamOf[c]
      /\ call[c].port = ports.items[id] /\ to # TeamOf[c] /\ to \in processes
  BY <1>0, CallIds DEF MovePort, Owned, PortCallsOK, PortCall, AtPort
<1>a. to \in Team
  BY <1>0, <1>4 DEF RestPart
<1>5. /\ call[c].at = "move_port" /\ call'[c] = Idle
      /\ \A d \in Thread : d # c => call'[d] = call[d]
      /\ UNCHANGED <<processes, ports>>
      /\ owningPorts' = [owningPorts EXCEPT ![TeamOf[c]] = @ \ {id}, ![to] = @ \cup {id}]
      /\ port' = [port EXCEPT ![ports.items[id]].owner = to]
  BY <1>1, <1>4 DEF MovePort, Goto, Disown
<1> HIDE DEF id, to
<1>6. \A u \in Team, i \in Nat : HasPort(u, i)' <=> IF i = id THEN u = to ELSE HasPort(u, i)
  BY <1>0, <1>4, <1>5, <1>a, <1>t, MoveHas
<1>7. \A t \in Team : t # TeamOf[c] => ~HasPort(t, id)
  BY <1>4 DEF HasPort, Has
<1>b. \A t \in Team, i \in Nat : i # id => (i \in owningPorts'[t] <=> i \in owningPorts[t])
  BY <1>2, <1>5, <1>a, <1>t
<1>c. \A t \in Team : id \in owningPorts'[t] <=> t = to \/ (t # TeamOf[c] /\ id \in owningPorts[t])
  BY <1>2, <1>4, <1>5, <1>a, <1>t
<1>8. PortCallsOK'
  <2> SUFFICES ASSUME NEW d \in Thread PROVE PortCall(d)'
    BY DEF PortCallsOK
  <2>1. CASE d = c
    BY <2>1, <1>5 DEF PortCall, AtPort, Idle
  <2>2. CASE d # c
    <3>1. PortCall(d)
      BY DEF Owned, PortCallsOK
    <3>2. call[d].at \in AtPort => call[d].id \in Nat /\ call[d].id # id /\ HasPort(TeamOf[d], call[d].id)
      <4>1. call[d].at \in AtPort => HasPort(TeamOf[d], call[d].id) /\ call[d].id \in Nat
        BY <3>1, <1>0, CallIds DEF PortCall, AtPort
      <4>2. TeamOf[d] = TeamOf[c] /\ call[d].at \in AtPort => call[d].id # id
        BY <2>2, <1>3 DEF id
      <4> QED BY <4>1, <4>2, <1>7, <1>t
    <3> QED BY <2>2, <3>1, <3>2, <1>5, <1>6, <1>b, <1>t DEF PortCall, AtPort
  <2> QED BY <2>1, <2>2
<1>9. PortOwnersOK'
  <2> SUFFICES ASSUME NEW t \in Team, NEW i \in Nat, ~AtWork(t, i, {"own_port", "drop_port"})'
               PROVE  i \in owningPorts'[t] <=> HasPort(t, i)'
    BY DEF PortOwnersOK
  <2>1. ~AtWork(t, i, {"own_port", "drop_port"})
    BY <1>5 DEF AtWork
  <2>2. i \in owningPorts[t] <=> HasPort(t, i)
    BY <2>1 DEF Owned, PortOwnersOK
  <2>3. CASE i = id
    BY <2>2, <2>3, <1>6, <1>7, <1>c, <1>4
  <2>4. CASE i # id
    BY <2>2, <2>4, <1>6, <1>b
  <2> QED BY <2>3, <2>4
<1>d. \A t \in Team, i \in Nat : HasPort(t, i)' => HasPort(t, i) \/ t \in processes
  BY <1>4, <1>6
<1>e. PortsAlone'
  <2>1. Goto(c, Idle) /\ Idle.at \notin AtPort
    BY DEF MovePort, Idle, AtPort
  <2> QED BY <2>1, <1>0, AloneKept DEF Owned, PortsAlone
<1> QED BY <1>8, <1>9, <1>d, <1>e

\* create_sem registers the semaphore and then adds it to the set of the team.
LEMMA SemsCreated ==
    ASSUME RegInductive, Owned, NEW c \in Thread, CreateSem(c), ~careless'
    PROVE  SemCallsOK' /\ SemOwnersOK' /\ SemsAlone' /\ TeamsOK'
<1>0. PortPart /\ SemPart /\ RestPart
  BY Parts
<1>t. \A d \in Thread : TeamOf[d] \in Team
  BY RegistryAssumption
<1>1. DOMAIN call = Thread /\ \A d \in Thread : call[d] \in CallType
  BY <1>0 DEF RestPart
<1>2. owningPorts \in [Team -> SUBSET Nat] /\ owningSems \in [Team -> SUBSET Nat]
  BY <1>0 DEF RestPart
<1> DEFINE id == AddId(sems)
           x == [owner |-> TeamOf[c], id |-> id]
<1>4. sems' = Add(sems, Fresh(sem)) /\ sem' = Append(sem, x)
  BY DEF CreateSem
<1>5. id \in Nat
  BY <1>0, AddSpec DEF SemPart
<1>6. x \in SemRec /\ x.owner = TeamOf[c]
  BY <1>5, <1>t DEF SemRec
<1> HIDE DEF x, id
<1>7. /\ \A u, i : Has(sems', sem', u, i) <=>
                     Has(sems, sem, u, i) \/ (i = id /\ u = TeamOf[c])
      /\ \A u : ~Has(sems, sem, u, id)
  BY <1>0, <1>4, <1>6, AddHas DEF SemPart, id
<1>8. /\ \A u, i : HasSem(u, i)' <=> HasSem(u, i) \/ (i = id /\ u = TeamOf[c])
      /\ \A u : ~HasSem(u, id)
  BY <1>7 DEF HasSem
<1>9. /\ call[c].at = "idle" /\ c \in staying
      /\ call'[c] = [at |-> "own_sem", id |-> id]
      /\ \A d \in Thread : d # c => call'[d] = call[d]
      /\ UNCHANGED <<owningSems, processes, staying, ports, port, nub>>
  BY <1>1 DEF CreateSem, MayCall, Goto, id, portVars
<1>3. \A d \in Thread : TeamOf[d] = TeamOf[c] /\ call[d].at \in {"own_sem", "disown_sem"} => call[d].id # id
  <2>1. ~AtWork(TeamOf[c], id, {"disown_sem"})
    BY DEF CreateSem, id
  <2> QED BY <2>1, <1>8 DEF AtWork, Owned, SemCallsOK, SemCall
<1>10. SemCallsOK'
  <2> SUFFICES ASSUME NEW d \in Thread PROVE SemCall(d)'
    BY DEF SemCallsOK
  <2>1. CASE d = c
    BY <2>1, <1>8, <1>9 DEF SemCall
  <2>2. CASE d # c
    BY <2>2, <1>3, <1>8, <1>9 DEF Owned, SemCallsOK, SemCall
  <2> QED BY <2>1, <2>2
<1>11. SemOwnersOK'
  <2> SUFFICES ASSUME NEW t \in Team, NEW i \in Nat, ~AtWork(t, i, {"own_sem", "disown_sem"})'
               PROVE  i \in owningSems'[t] <=> HasSem(t, i)'
    BY DEF SemOwnersOK
  <2>1. ~(t = TeamOf[c] /\ i = id)
    BY <1>9 DEF AtWork
  <2>2. ~AtWork(t, i, {"own_sem", "disown_sem"})
    BY <1>9 DEF AtWork
  <2> QED BY <2>1, <2>2, <1>8, <1>9 DEF Owned, SemOwnersOK
<1>12. TeamsOK'
  <2>1. TeamOf[c] \in processes
    BY <1>9 DEF Owned, TeamsOK
  <2>2. \A t, i : HasPort(t, i)' <=> HasPort(t, i)
    BY <1>9 DEF HasPort, Has
  <2> QED BY <2>1, <2>2, <1>8, <1>9 DEF Owned, TeamsOK
<1>13. SemsAlone'
  BY <1>1, <1>3, <1>9 DEF Owned, SemsAlone, Alone
<1> QED BY <1>10, <1>11, <1>12, <1>13

LEMMA SemsOwned ==
    ASSUME RegInductive, Owned, NEW c \in Thread, OwnSem(c)
    PROVE  SemCallsOK' /\ SemOwnersOK' /\ SemsAlone'
<1>0. PortPart /\ SemPart /\ RestPart
  BY Parts
<1>t. \A d \in Thread : TeamOf[d] \in Team
  BY RegistryAssumption
<1>1. DOMAIN call = Thread /\ \A d \in Thread : call[d] \in CallType
  BY <1>0 DEF RestPart
<1>2. owningPorts \in [Team -> SUBSET Nat] /\ owningSems \in [Team -> SUBSET Nat]
  BY <1>0 DEF RestPart
<1> DEFINE id == call[c].id
<1>4. id \in Nat /\ HasSem(TeamOf[c], id)
  BY <1>0, CallIds DEF OwnSem, Owned, SemCallsOK, SemCall
<1>5. /\ call'[c] = Idle /\ \A d \in Thread : d # c => call'[d] = call[d]
      /\ UNCHANGED <<sems, sem>>
      /\ owningSems' = [owningSems EXCEPT ![TeamOf[c]] = @ \cup {id}]
  BY <1>1 DEF OwnSem, Goto
<1>6. \A t, i : HasSem(t, i)' <=> HasSem(t, i)
  BY <1>5 DEF HasSem, Has
<1>7. SemCallsOK'
  BY <1>5, <1>6 DEF Owned, SemCallsOK, SemCall, Idle
<1>8. SemOwnersOK'
  <2> SUFFICES ASSUME NEW t \in Team, NEW i \in Nat, ~AtWork(t, i, {"own_sem", "disown_sem"})'
               PROVE  i \in owningSems'[t] <=> HasSem(t, i)'
    BY DEF SemOwnersOK
  <2>1. CASE t = TeamOf[c] /\ i = id
    BY <2>1, <1>2, <1>4, <1>5, <1>6
  <2>2. CASE ~(t = TeamOf[c] /\ i = id)
    <3>1. ~AtWork(t, i, {"own_sem", "disown_sem"})
      BY <2>2, <1>5 DEF AtWork
    <3>2. i \in owningSems'[t] <=> i \in owningSems[t]
      BY <2>2, <1>2, <1>5
    <3> QED BY <3>1, <3>2, <1>6 DEF Owned, SemOwnersOK
  <2> QED BY <2>1, <2>2
<1>9. SemsAlone'
  BY <1>5 DEF Owned, SemsAlone, Alone, Idle
<1> QED BY <1>7, <1>8, <1>9

\* delete_sem unregisters the semaphore first ...
LEMMA SemsDeleted ==
    ASSUME RegInductive, Owned, NEW c \in Thread, NEW id, DeleteSem(c, id), ~careless'
    PROVE  /\ SemCallsOK' /\ SemOwnersOK' /\ SemsAlone'
           /\ \A t \in Team, i \in Nat : HasSem(t, i)' => HasSem(t, i)
<1>0. PortPart /\ SemPart /\ RestPart
  BY Parts
<1>t. \A d \in Thread : TeamOf[d] \in Team
  BY RegistryAssumption
<1>1. DOMAIN call = Thread /\ \A d \in Thread : call[d] \in CallType
  BY <1>0 DEF RestPart
<1>2. owningPorts \in [Team -> SUBSET Nat] /\ owningSems \in [Team -> SUBSET Nat]
  BY <1>0 DEF RestPart
<1>3. \A d \in Thread : TeamOf[d] = TeamOf[c] /\ call[d].at \in {"own_sem", "disown_sem"} => call[d].id # id
  BY DEF DeleteSem, AtWork
<1>4. HasSem(TeamOf[c], id) /\ sem[sems.items[id]].id = id /\ id \in Nat
  BY <1>0, ValidHas, ValidSem DEF DeleteSem
<1>5. /\ call[c].at = "idle" /\ call'[c] = [at |-> "disown_sem", id |-> id]
      /\ \A d \in Thread : d # c => call'[d] = call[d]
      /\ UNCHANGED <<sem, owningSems>>
  BY <1>1, <1>4 DEF DeleteSem, MayCall, Goto
<1>6. \A t \in Team, i \in Nat : HasSem(t, i)' <=> HasSem(t, i) /\ i # id
  BY <1>0, UnregisterHas DEF DeleteSem
<1>7. \A t \in Team : t # TeamOf[c] => ~HasSem(t, id)
  BY <1>4 DEF HasSem, Has
<1>8. SemCallsOK'
  <2> SUFFICES ASSUME NEW d \in Thread PROVE SemCall(d)'
    BY DEF SemCallsOK
  <2>1. CASE d = c
    BY <2>1, <1>4, <1>5, <1>6, <1>t DEF SemCall
  <2>2. CASE d # c
    <3>1. SemCall(d)
      BY DEF Owned, SemCallsOK
    <3>2. call[d].at \in {"own_sem", "disown_sem"} => call[d].id \in Nat
      BY <1>0, CallIds
    <3> QED BY <2>2, <3>1, <3>2, <1>3, <1>5, <1>6, <1>7, <1>t DEF SemCall
  <2> QED BY <2>1, <2>2
<1>9. SemOwnersOK'
  <2> SUFFICES ASSUME NEW t \in Team, NEW i \in Nat, ~AtWork(t, i, {"own_sem", "disown_sem"})'
               PROVE  i \in owningSems'[t] <=> HasSem(t, i)'
    BY DEF SemOwnersOK
  <2>1. ~(t = TeamOf[c] /\ i = id) /\ ~AtWork(t, i, {"own_sem", "disown_sem"})
    BY <1>5 DEF AtWork
  <2> QED BY <2>1, <1>5, <1>6, <1>7 DEF Owned, SemOwnersOK
<1>10. SemsAlone'
  BY <1>1, <1>3, <1>5 DEF Owned, SemsAlone, Alone
<1> QED BY <1>6, <1>8, <1>9, <1>10

\* ... and then takes its id from the team.
LEMMA SemsDisowned ==
    ASSUME RegInductive, Owned, NEW c \in Thread, DisownSem(c)
    PROVE  SemCallsOK' /\ SemOwnersOK' /\ SemsAlone'
<1>0. PortPart /\ SemPart /\ RestPart
  BY Parts
<1>t. \A d \in Thread : TeamOf[d] \in Team
  BY RegistryAssumption
<1>1. DOMAIN call = Thread /\ \A d \in Thread : call[d] \in CallType
  BY <1>0 DEF RestPart
<1>2. owningPorts \in [Team -> SUBSET Nat] /\ owningSems \in [Team -> SUBSET Nat]
  BY <1>0 DEF RestPart
<1> DEFINE id == call[c].id
<1>4. id \in Nat /\ ~HasSem(TeamOf[c], id)
  BY <1>0, CallIds DEF DisownSem, Owned, SemCallsOK, SemCall
<1>5. /\ call'[c] = Idle /\ \A d \in Thread : d # c => call'[d] = call[d]
      /\ UNCHANGED <<sems, sem>>
      /\ owningSems' = [owningSems EXCEPT ![TeamOf[c]] = @ \ {id}]
  BY <1>1 DEF DisownSem, Disown, Goto
<1>6. \A t, i : HasSem(t, i)' <=> HasSem(t, i)
  BY <1>5 DEF HasSem, Has
<1>7. SemCallsOK'
  BY <1>5, <1>6 DEF Owned, SemCallsOK, SemCall, Idle
<1>8. SemOwnersOK'
  <2> SUFFICES ASSUME NEW t \in Team, NEW i \in Nat, ~AtWork(t, i, {"own_sem", "disown_sem"})'
               PROVE  i \in owningSems'[t] <=> HasSem(t, i)'
    BY DEF SemOwnersOK
  <2>1. CASE t = TeamOf[c] /\ i = id
    BY <2>1, <1>2, <1>4, <1>5, <1>6
  <2>2. CASE ~(t = TeamOf[c] /\ i = id)
    <3>1. ~AtWork(t, i, {"own_sem", "disown_sem"})
      BY <2>2, <1>5 DEF AtWork
    <3>2. i \in owningSems'[t] <=> i \in owningSems[t]
      BY <2>2, <1>2, <1>5
    <3> QED BY <3>1, <3>2, <1>6 DEF Owned, SemOwnersOK
  <2> QED BY <2>1, <2>2
<1>9. SemsAlone'
  BY <1>5 DEF Owned, SemsAlone, Alone, Idle
<1> QED BY <1>7, <1>8, <1>9

\* With the last thread of a team goes all that the team owns, and nobody else's
\* call is about any of it.
LEMMA OwnedDisconnect ==
    ASSUME RegInductive, Owned, NEW c \in Thread, Disconnect(c), ~careless', ~careless
    PROVE  Owned'
<1>0. PortPart /\ SemPart /\ RestPart
  BY Parts
<1>t. \A d \in Thread : TeamOf[d] \in Team
  BY RegistryAssumption
<1>1. DOMAIN call = Thread /\ \A d \in Thread : call[d] \in CallType
  BY <1>0 DEF RestPart
<1>2. owningPorts \in [Team -> SUBSET Nat] /\ owningSems \in [Team -> SUBSET Nat]
  BY <1>0 DEF RestPart
<1>n. CASE ~LastOf(c)
  <2>1. /\ UNCHANGED <<portVars, semVars, processes, nub, call>> /\ staying' = staying \ {c}
        /\ call[c].at = "idle"
    BY <1>n DEF Disconnect
  <2>2. \A t, i : (HasPort(t, i)' <=> HasPort(t, i)) /\ (HasSem(t, i)' <=> HasSem(t, i))
    BY <2>1 DEF HasPort, HasSem, Has, portVars, semVars
  <2>3. TeamsOK'
    BY <2>1, <2>2 DEF Owned, TeamsOK
  <2> QED BY <2>1, <2>2, <2>3 DEF Owned, PortCallsOK, PortCall, PortOwnersOK, SemCallsOK, SemCall,
        SemOwnersOK, AtWork, PortsAlone, SemsAlone, Alone, portVars, semVars
<1>5. SUFFICES ASSUME LastOf(c) PROVE Owned'
  BY <1>n
<1>3. \A d \in Thread : d # c /\ TeamOf[d] = TeamOf[c] => d \notin staying /\ call[d].at = "idle"
  BY <1>5 DEF LastOf, Owned, TeamsOK
<1> DEFINE T == TeamOf[c]
<1>4. call[c].at = "idle" /\ ~Expected(T) /\ c \in staying
  BY DEF Disconnect
<1>6. /\ UNCHANGED <<call, port, sem>>
      /\ staying' = staying \ {c} /\ processes' = processes \ {T}
      /\ owningPorts' = [owningPorts EXCEPT ![T] = {}]
      /\ owningSems' = [owningSems EXCEPT ![T] = {}]
      /\ UnregisterPorts(owningPorts[T]) /\ UnregisterSemaphores(owningSems[T])
      /\ UNCHANGED nub
  <2>1. NubPort(T) = {}
    BY <1>t DEF NubPort, Owned, TeamsOK
  <2>2. PICK theirs \in {{}, NubPort(T)} : UnregisterPorts(PortsToClean(T) \cup theirs)
    BY <1>5 DEF Disconnect
  <2>3. UnregisterPorts(owningPorts[T])
    <3>1. PortsToClean(T) \cup theirs = owningPorts[T]
      BY <2>1, <2>2 DEF PortsToClean
    <3> QED BY <2>2, <3>1
  <2> QED BY <2>3, <1>5 DEF Disconnect, SemsToClean
<1>7. \A t \in Team, i \in Nat :
        /\ HasPort(t, i)' <=> HasPort(t, i) /\ i \notin owningPorts[T]
        /\ HasSem(t, i)' <=> HasSem(t, i) /\ i \notin owningSems[T]
  BY <1>0, <1>6, UnregisterHas
<1>8. \A i \in Nat : (i \in owningPorts[T] <=> HasPort(T, i)) /\ (i \in owningSems[T] <=> HasSem(T, i))
  <2>1. \A where : \A i \in Nat : "idle" \notin where => ~AtWork(T, i, where)
    BY <1>3, <1>4 DEF AtWork
  <2> QED BY <2>1, <1>t DEF Owned, PortOwnersOK, SemOwnersOK
<1>9. \A t \in Team, i \in Nat :
        /\ HasPort(t, i)' <=> HasPort(t, i) /\ t # T
        /\ HasSem(t, i)' <=> HasSem(t, i) /\ t # T
  BY <1>7, <1>8 DEF HasPort, HasSem, Has
<1>10. \A t \in Team : t # T => owningPorts'[t] = owningPorts[t] /\ owningSems'[t] = owningSems[t]
  BY <1>2, <1>6
<1>a. owningPorts'[T] = {} /\ owningSems'[T] = {}
  BY <1>2, <1>6, <1>t
<1>11. TeamsOK'
  BY <1>3, <1>4, <1>6, <1>9, <1>t DEF Owned, TeamsOK
<1>12. PortCallsOK'
  <2> SUFFICES ASSUME NEW d \in Thread PROVE PortCall(d)'
    BY DEF PortCallsOK
  <2>1. CASE d = c
    BY <2>1, <1>4, <1>6 DEF PortCall, AtPort
  <2>2. CASE d # c
    <3>1. PortCall(d)
      BY DEF Owned, PortCallsOK
    <3>2. call[d].at \in AtPort => call[d].id \in Nat /\ HasPort(TeamOf[d], call[d].id)
      BY <3>1, <1>0, CallIds DEF PortCall, AtPort
    <3>3. call[d].at \in AtPort => HasPort(TeamOf[d], call[d].id)'
      BY <2>2, <3>2, <1>3, <1>6, <1>9, <1>t DEF AtPort
    <3>4. call[d].at \in AtPort => ports'.items[call[d].id] = ports.items[call[d].id]
      BY <3>2, <2>2, <1>3, <1>6, <1>8, <1>t DEF AtPort, UnregisterPorts, Remove, Present, HasPort, Has
    <3>5. call[d].at = "move_port" => call[d].to # T
      BY <1>4 DEF Expected
    <3> QED BY <2>2, <3>1, <3>3, <3>4, <3>5, <1>3, <1>6, <1>10, <1>t DEF PortCall, AtPort
  <2> QED BY <2>1, <2>2
<1>13. PortOwnersOK'
  <2>1. \A t, i : AtWork(t, i, {"own_port", "drop_port"})' <=> AtWork(t, i, {"own_port", "drop_port"})
    BY <1>6 DEF AtWork
  <2> QED BY <2>1, <1>9, <1>10, <1>a DEF Owned, PortOwnersOK
<1>14. SemCallsOK'
  <2> SUFFICES ASSUME NEW d \in Thread PROVE SemCall(d)'
    BY DEF SemCallsOK
  <2>1. CASE d = c
    BY <2>1, <1>4, <1>6 DEF SemCall
  <2>2. CASE d # c
    <3>1. call[d].at \in {"own_sem", "disown_sem"} => call[d].id \in Nat
      BY <1>0, CallIds
    <3> QED BY <2>2, <3>1, <1>3, <1>6, <1>9, <1>t DEF Owned, SemCallsOK, SemCall
  <2> QED BY <2>1, <2>2
<1>15. SemOwnersOK'
  <2>1. \A t, i : AtWork(t, i, {"own_sem", "disown_sem"})' <=> AtWork(t, i, {"own_sem", "disown_sem"})
    BY <1>6 DEF AtWork
  <2> QED BY <2>1, <1>9, <1>10, <1>a DEF Owned, SemOwnersOK
<1>16. PortsAlone' /\ SemsAlone'
  BY <1>6 DEF Owned, PortsAlone, SemsAlone, Alone
<1> QED BY <1>11, <1>12, <1>13, <1>14, <1>15, <1>16 DEF Owned

\* A call goes on without anybody coming to own something, and without leaving.
LEMMA TeamsKept ==
    ASSUME RegInductive, Owned, NEW c \in Thread, NEW x, Goto(c, x), c \in staying, x.at # "lend_sem",
           UNCHANGED <<processes, staying, nub>>,
           \A t \in Team, i \in Nat : HasPort(t, i)' => HasPort(t, i) \/ t \in processes,
           \A t \in Team, i \in Nat : HasSem(t, i)' => HasSem(t, i)
    PROVE  TeamsOK'
<1>1. RestPart
  BY Parts
<1>2. call'[c] = x /\ \A d \in Thread : d # c => call'[d] = call[d]
  BY <1>1 DEF RestPart, Goto
<1> QED BY <1>2 DEF Owned, TeamsOK

LEMMA OwnedInit == Init => Owned
<1> SUFFICES ASSUME Init PROVE Owned
  OBVIOUS
<1>1. \A t, i : ~HasPort(t, i) /\ ~HasSem(t, i)
  BY DEF Init, EmptyMap, HasPort, HasSem, Has
<1>2. \A c \in Thread : call[c] = Idle
  BY DEF Init
<1>3. \A t \in Team : owningPorts[t] = {} /\ owningSems[t] = {}
  BY DEF Init
<1>4. TeamsOK
  BY <1>1, <1>2, RegistryAssumption DEF TeamsOK, Init, Idle
<1>5. PortCallsOK /\ SemCallsOK
  BY <1>2 DEF PortCallsOK, PortCall, SemCallsOK, SemCall, AtPort, Idle
<1>6. PortOwnersOK /\ SemOwnersOK
  BY <1>1, <1>3 DEF PortOwnersOK, SemOwnersOK
<1>7. PortsAlone /\ SemsAlone
  BY <1>2 DEF PortsAlone, SemsAlone, Alone, AtPort, Idle
<1> QED BY <1>4, <1>5, <1>6, <1>7 DEF Owned

\* Nobody stops being careless.
LEMMA OwnedStep ==
    ASSUME RegInductive, OwnersInductive, [Next]_vars
    PROVE  OwnersInductive'
<1> SUFFICES ASSUME ~careless' PROVE Owned'
  BY DEF OwnersInductive
<1>u. CASE UNCHANGED vars
  BY <1>u DEF vars, OwnersInductive, Owned, TeamsOK, PortCallsOK, PortCall, PortOwnersOK,
              SemCallsOK, SemCall, SemOwnersOK, HasPort, HasSem, Has, AtWork, PortsAlone, SemsAlone, Alone
<1>n. CASE Next
  <2>p. PICK c \in Thread :
          \/ \E n \in Name : CreatePort(c, n)
          \/ OwnPort(c)
          \/ \E id \in 0..(MaxObjects - 1) : DeletePort(c, id)
          \/ DisownPort(c)
          \/ DropPort(c)
          \/ \E id \in 0..(MaxObjects - 1), t \in Team : SetPortOwner(c, id, t)
          \/ MovePort(c)
          \/ CreateSem(c)
          \/ OwnSem(c)
          \/ \E id \in 0..(MaxObjects - 1) : DeleteSem(c, id)
          \/ DisownSem(c)
          \/ \E id \in 0..(MaxObjects - 1), lock \in 0..(MaxObjects - 1), t \in Team : RegisterNub(c, id, lock, t)
          \/ LendSem(c)
          \/ Disconnect(c)
    BY <1>n DEF Next
  <2>0. ~careless
    BY <2>p DEF CreatePort, OwnPort, DeletePort, DisownPort, DropPort, SetPortOwner,
                MovePort, CreateSem, OwnSem, DeleteSem, DisownSem, RegisterNub, LendSem, Disconnect
  <2>o. Owned
    BY <2>0 DEF OwnersInductive
  <2>r. PortPart /\ SemPart /\ RestPart
    BY Parts
  <2>s. call[c].at # "idle" => c \in staying
    BY <2>o DEF Owned, TeamsOK
  <2>k. /\ UNCHANGED <<ports, port>> => \A t, i : HasPort(t, i)' <=> HasPort(t, i)
        /\ UNCHANGED <<sems, sem>> => \A t, i : HasSem(t, i)' <=> HasSem(t, i)
    BY DEF HasPort, HasSem, Has
  <2>1. ASSUME NEW n \in Name, CreatePort(c, n) PROVE Owned'
    <3>1. PortCallsOK' /\ PortOwnersOK' /\ PortsAlone' /\ TeamsOK'
      BY <2>1, <2>o, PortsCreated
    <3> DEFINE x == [at |-> "own_port", id |-> AddId(ports)]
    <3>2. UNCHANGED <<sems, sem, owningSems>> /\ Goto(c, x) /\ call[c].at = "idle"
      BY <2>1 DEF CreatePort, semVars, MayCall
    <3>3. SemCallsOK' /\ SemOwnersOK' /\ SemsAlone'
      BY <3>2, <2>o, <2>r, SemsApart DEF Owned
    <3> QED BY <3>1, <3>3 DEF Owned
  <2>2. CASE OwnPort(c)
    <3>1. PortCallsOK' /\ PortOwnersOK' /\ PortsAlone'
      BY <2>2, <2>o, PortsOwned
    <3>2. UNCHANGED <<ports, port, sems, sem, owningSems, processes, staying, nub>> /\ Goto(c, Idle)
          /\ call[c].at = "own_port"
      BY <2>2 DEF OwnPort, semVars
    <3>3. SemCallsOK' /\ SemOwnersOK' /\ SemsAlone'
      BY <3>2, <2>o, <2>r, SemsApart DEF Owned, Idle
    <3>4. TeamsOK'
      BY <3>2, <2>o, <2>s, <2>k, TeamsKept DEF Idle
    <3> QED BY <3>1, <3>3, <3>4 DEF Owned
  <2>3. ASSUME NEW id, DeletePort(c, id) \/ \E t \in Team : SetPortOwner(c, id, t)
        PROVE  Owned'
    <3>1. PortCallsOK' /\ PortOwnersOK' /\ PortsAlone'
      BY <2>3, <2>0, <2>o, PortsLookedUp
    <3>2. PICK x : Goto(c, x) /\ x.at \in {"disown_port", "drop_port", "move_port"}
      <4>1. CASE DeletePort(c, id)
        <5> DEFINE owner == port[ports.items[id]].owner
                   x1 == [at |-> "disown_port", id |-> id, from |-> owner]
                   x2 == [at |-> "drop_port", id |-> id]
        <5>1. Goto(c, x1) \/ Goto(c, x2)
          BY <4>1 DEF DeletePort
        <5>2. x1.at = "disown_port" /\ x2.at = "drop_port"
          OBVIOUS
        <5> HIDE DEF x1, x2
        <5> QED BY <5>1, <5>2
      <4>2. CASE \E t \in Team : SetPortOwner(c, id, t)
        <5>1. PICK t \in Team : SetPortOwner(c, id, t)
          BY <4>2
        <5> DEFINE x == [at |-> "move_port", id |-> id, port |-> ports.items[id],
                         from |-> port[ports.items[id]].owner, to |-> t]
        <5>2. Goto(c, x) /\ x.at = "move_port"
          BY <5>1 DEF SetPortOwner
        <5> HIDE DEF x
        <5> QED BY <5>2
      <4> QED BY <2>3, <4>1, <4>2
    <3>3. /\ UNCHANGED <<ports, port, sems, sem, owningSems, processes, staying, nub>>
          /\ call[c].at = "idle" /\ c \in staying
      BY <2>3 DEF DeletePort, SetPortOwner, portVars, semVars, MayCall
    <3>4. SemCallsOK' /\ SemOwnersOK' /\ SemsAlone'
      BY <3>2, <3>3, <2>o, <2>r, SemsApart DEF Owned
    <3>5. TeamsOK'
      BY <3>2, <3>3, <2>o, <2>k, TeamsKept DEF Idle
    <3> QED BY <3>1, <3>4, <3>5 DEF Owned
  <2>4. CASE DisownPort(c)
    <3>1. PortCallsOK' /\ PortOwnersOK' /\ PortsAlone'
      BY <2>4, <2>o, PortsDisowned
    <3> DEFINE x == [at |-> "drop_port", id |-> call[c].id]
    <3>2. UNCHANGED <<ports, port, sems, sem, owningSems, processes, staying, nub>> /\ Goto(c, x)
          /\ call[c].at = "disown_port" /\ x.at = "drop_port"
      BY <2>4 DEF DisownPort, semVars
    <3> HIDE DEF x
    <3>3. SemCallsOK' /\ SemOwnersOK' /\ SemsAlone'
      BY <3>2, <2>o, <2>r, SemsApart DEF Owned
    <3>4. TeamsOK'
      BY <3>2, <2>o, <2>s, <2>k, TeamsKept DEF Idle
    <3> QED BY <3>1, <3>3, <3>4 DEF Owned
  <2>5. CASE DropPort(c)
    <3>1. /\ PortCallsOK' /\ PortOwnersOK' /\ PortsAlone'
          /\ \A t \in Team, i \in Nat : HasPort(t, i)' => HasPort(t, i)
      BY <2>5, <2>o, PortsDropped
    <3>2. UNCHANGED <<sems, sem, owningSems, processes, staying, nub>> /\ Goto(c, Idle)
          /\ call[c].at = "drop_port"
      BY <2>5 DEF DropPort, semVars
    <3>3. SemCallsOK' /\ SemOwnersOK' /\ SemsAlone'
      BY <3>2, <2>o, <2>r, SemsApart DEF Owned, Idle
    <3>4. TeamsOK'
      BY <3>1, <3>2, <2>o, <2>s, <2>k, TeamsKept DEF Idle
    <3> QED BY <3>1, <3>3, <3>4 DEF Owned
  <2>6. CASE MovePort(c)
    <3>1. /\ PortCallsOK' /\ PortOwnersOK' /\ PortsAlone'
          /\ \A t \in Team, i \in Nat : HasPort(t, i)' => HasPort(t, i) \/ t \in processes
      BY <2>6, <2>o, PortsMoved
    <3>2. UNCHANGED <<sems, sem, owningSems, processes, staying, nub>> /\ Goto(c, Idle)
          /\ call[c].at = "move_port"
      BY <2>6 DEF MovePort, semVars
    <3>3. SemCallsOK' /\ SemOwnersOK' /\ SemsAlone'
      BY <3>2, <2>o, <2>r, SemsApart DEF Owned, Idle
    <3>4. TeamsOK'
      BY <3>1, <3>2, <2>o, <2>s, <2>k, TeamsKept DEF Idle
    <3> QED BY <3>1, <3>3, <3>4 DEF Owned
  <2>7. CASE CreateSem(c)
    <3>1. SemCallsOK' /\ SemOwnersOK' /\ SemsAlone' /\ TeamsOK'
      BY <2>7, <2>o, SemsCreated
    <3> DEFINE x == [at |-> "own_sem", id |-> AddId(sems)]
    <3>2. UNCHANGED <<ports, port, owningPorts, processes>> /\ Goto(c, x) /\ call[c].at = "idle"
          /\ x.at = "own_sem"
      BY <2>7 DEF CreateSem, portVars, MayCall
    <3> HIDE DEF x
    <3>3. PortCallsOK' /\ PortOwnersOK' /\ PortsAlone'
      BY <3>2, <2>o, <2>r, PortsApart DEF Owned, AtPort
    <3> QED BY <3>1, <3>3 DEF Owned
  <2>8. CASE OwnSem(c)
    <3>1. SemCallsOK' /\ SemOwnersOK' /\ SemsAlone'
      BY <2>8, <2>o, SemsOwned
    <3>2. UNCHANGED <<ports, port, owningPorts, sems, sem, processes, staying, nub>> /\ Goto(c, Idle)
          /\ call[c].at = "own_sem"
      BY <2>8 DEF OwnSem, portVars
    <3>3. PortCallsOK' /\ PortOwnersOK' /\ PortsAlone'
      BY <3>2, <2>o, <2>r, PortsApart DEF Owned, AtPort, Idle
    <3>4. TeamsOK'
      BY <3>2, <2>o, <2>s, <2>k, TeamsKept DEF Idle
    <3> QED BY <3>1, <3>3, <3>4 DEF Owned
  <2>9. ASSUME NEW id, DeleteSem(c, id) PROVE Owned'
    <3>1. /\ SemCallsOK' /\ SemOwnersOK' /\ SemsAlone'
          /\ \A t \in Team, i \in Nat : HasSem(t, i)' => HasSem(t, i)
      BY <2>9, <2>o, SemsDeleted
    <3> DEFINE x == [at |-> "disown_sem", id |-> sem[sems.items[id]].id]
    <3>2. UNCHANGED <<ports, port, owningPorts, processes, staying, nub>> /\ Goto(c, x)
          /\ call[c].at = "idle" /\ c \in staying /\ x.at = "disown_sem"
      BY <2>9 DEF DeleteSem, portVars, MayCall
    <3> HIDE DEF x
    <3>3. PortCallsOK' /\ PortOwnersOK' /\ PortsAlone'
      BY <3>2, <2>o, <2>r, PortsApart DEF Owned, AtPort
    <3>4. TeamsOK'
      BY <3>1, <3>2, <2>o, <2>k, TeamsKept DEF Idle
    <3> QED BY <3>1, <3>3, <3>4 DEF Owned
  <2>10. CASE DisownSem(c)
    <3>1. SemCallsOK' /\ SemOwnersOK' /\ SemsAlone'
      BY <2>10, <2>o, SemsDisowned
    <3>2. UNCHANGED <<ports, port, owningPorts, sems, sem, processes, staying, nub>> /\ Goto(c, Idle)
          /\ call[c].at = "disown_sem"
      BY <2>10 DEF DisownSem, portVars
    <3>3. PortCallsOK' /\ PortOwnersOK' /\ PortsAlone'
      BY <3>2, <2>o, <2>r, PortsApart DEF Owned, AtPort, Idle
    <3>4. TeamsOK'
      BY <3>2, <2>o, <2>s, <2>k, TeamsKept DEF Idle
    <3> QED BY <3>1, <3>3, <3>4 DEF Owned
  <2>12. ASSUME NEW id, NEW lock, NEW t, RegisterNub(c, id, lock, t) PROVE FALSE
    BY <2>12 DEF RegisterNub
  <2>13. CASE LendSem(c)
    BY <2>13, <2>o DEF LendSem, Owned, TeamsOK
  <2>11. CASE Disconnect(c)
    BY <2>11, <2>0, <2>o, OwnedDisconnect
  <2> QED BY <2>p, <2>1, <2>2, <2>3, <2>4, <2>5, <2>6, <2>7, <2>8, <2>9, <2>10, <2>11, <2>12, <2>13
<1> QED BY <1>u, <1>n

\* What the set of a team lacks or has too much is in a call.
LEMMA OwnedKept == RegInductive /\ OwnersInductive => OwnersKept
<1> SUFFICES ASSUME RegInductive, Owned
             PROVE  /\ Agree(ports, port, owningPorts, {"own_port", "drop_port"})
                    /\ Agree(sems, sem, owningSems, {"own_sem", "disown_sem"})
                    /\ \A o \in Registered(ports) : port[o].owner \in processes
                    /\ \A o \in Registered(sems) : sem[o].owner \in processes
  BY DEF OwnersInductive, OwnersKept, OwnersAgree, NothingLeft
<1>0. PortPart /\ SemPart /\ RestPart
  BY Parts
<1>1. DOMAIN ports.items \subseteq Nat /\ DOMAIN sems.items \subseteq Nat
  BY <1>0 DEF PortPart, SemPart, MapOK
<1>2. \A t, i, where : AtWork(t, i, where) => Busy(i, where)
  BY DEF AtWork, Busy
<1>3. Agree(ports, port, owningPorts, {"own_port", "drop_port"})
  BY <1>1, <1>2 DEF Agree, Owned, PortOwnersOK, HasPort, Has
<1>4. Agree(sems, sem, owningSems, {"own_sem", "disown_sem"})
  BY <1>1, <1>2 DEF Agree, Owned, SemOwnersOK, HasSem, Has
<1>5. ASSUME NEW o \in Registered(ports) PROVE port[o].owner \in processes
  <2>1. PICK i \in DOMAIN ports.items : ports.items[i] = o /\ o # 0
    BY DEF Registered
  <2>2. port[o].owner \in Team
    <3>1. o \in DOMAIN port
      BY <2>1, <1>0 DEF PortPart, MapOK
    <3>2. port[o] \in PortRec
      BY <3>1, <1>0 DEF PortPart
    <3> QED BY <3>2 DEF PortRec
  <2>3. HasPort(port[o].owner, i)
    BY <2>1 DEF HasPort, Has
  <2> QED BY <2>2, <2>3, <1>1 DEF Owned, TeamsOK
<1>6. ASSUME NEW o \in Registered(sems) PROVE sem[o].owner \in processes
  <2>1. PICK i \in DOMAIN sems.items : sems.items[i] = o /\ o # 0
    BY DEF Registered
  <2>2. sem[o].owner \in Team
    <3>1. o \in DOMAIN sem
      BY <2>1, <1>0 DEF SemPart, MapOK
    <3>2. sem[o] \in SemRec
      BY <3>1, <1>0 DEF SemPart
    <3> QED BY <3>2 DEF SemRec
  <2>3. HasSem(sem[o].owner, i)
    BY <2>1 DEF HasSem, Has
  <2> QED BY <2>2, <2>3, <1>1 DEF Owned, TeamsOK
<1> QED BY <1>3, <1>4, <1>5, <1>6

\* As long as no guest was careless, a port or semaphore is in the set of its
\* owner's process unless it is being created or deleted, no set holds anything
\* else, and a team that is gone owns nothing (AddOwningPort, delete_port,
\* set_port_owner, disconnect), for any teams of any number of threads.
THEOREM RegistryOwnersKept == Spec => []OwnersKept
<1>1. Init => OwnersInductive
  BY OwnedInit DEF OwnersInductive
<1>2. RegInductive /\ OwnersInductive /\ [Next]_vars => OwnersInductive'
  BY OwnedStep
<1> QED BY RegInvariant, OwnedKept, <1>1, <1>2, PTL DEF Spec

-----------------------------------------------------------------------------
(* Listing: a cookie in the guest and a table that changes between the calls. *)

ListingTypeOK ==
    /\ kind \in Kinds /\ listable \subseteq Keys /\ dead \subseteq listable /\ stays \subseteq listable \ dead
    /\ cookie \in Int /\ reported \in Seq(Nat) /\ over \in BOOLEAN

\* Cookies that are the last member told of; the others are the next one.
Afterwards == kind \in {"team", "thread", "area"}

\* What a cookie still leads to, and what it has passed.
Ahead(x, c) == IF Afterwards THEN x > c ELSE c # NoMember /\ x >= c
Passed(x, c) ==
    IF kind = "team" /\ c = -2 THEN x = 0
    ELSE IF Afterwards THEN x <= c ELSE c = NoMember \/ x < c

ListingAscends == \A i, j \in DOMAIN reported : i < j => reported[i] < reported[j]

\* The cookies of each kind.
CookieOK(c) ==
    /\ c = -2 \/ c >= -1
    /\ c = NoMember => kind \in {"image", "device"}
    /\ c = -2 => kind = "team"

\* A listing under way: the cookie is where the reports end, and leads to
\* all that is left.
ListingUnderWay ==
    /\ CookieOK(cookie)
    /\ \A i \in DOMAIN reported : Passed(reported[i], cookie)
    /\ \A x \in stays : x \in Range(reported) \/ Ahead(x, cookie)
    /\ kind = "team" /\ cookie = 0 => reported = <<>>
    /\ kind = "port" => cookie = PortMissed

ListingInductive == ListingTypeOK /\ ListingAscends /\ (~over => ListingUnderWay) /\ ListingComplete

\* The member that a table answers with.
LEMMA FirstFound ==
    ASSUME NEW S, S \subseteq Nat
    PROVE  /\ FirstOf(S) = NoMember <=> S = {}
           /\ S # {} => FirstOf(S) \in S /\ \A y \in S : FirstOf(S) <= y
<1>1. CASE S = {}
  BY <1>1 DEF FirstOf
<1>2. CASE S # {}
  <2>1. PICK x \in S : \A y \in S : x <= y
    BY <1>2, LeastNumber
  <2>2. Min(S) \in S /\ \A y \in S : Min(S) <= y
    BY <2>1 DEF Min
  <2>3. Min(S) # NoMember /\ FirstOf(S) = Min(S)
    BY <1>2, <2>2 DEF NoMember, FirstOf
  <2> QED BY <1>2, <2>2, <2>3
<1> QED BY <1>1, <1>2

\* The end of a team's ports.
LEMMA LargestFound ==
    ASSUME NEW S, S \subseteq ListKey, S # {}
    PROVE  Max(S) \in S /\ \A y \in S : y <= Max(S)
<1>1. S \subseteq Nat /\ MaxKey \in Nat /\ \A y \in S : y <= MaxKey
  BY ListingAssumption DEF ListKey
<1> DEFINE T == {MaxKey - y : y \in S}
<1>2. T \subseteq Nat /\ T # {}
  <2>1. \A y \in S : MaxKey - y \in Nat
    BY <1>1
  <2> QED BY <2>1
<1>3. PICK d \in T : \A e \in T : d <= e
  BY <1>2, LeastNumber
<1>4. PICK x \in S : d = MaxKey - x
  BY <1>3
<1>5. ASSUME NEW y \in S PROVE x >= y
  <2>1. MaxKey - x <= MaxKey - y
    BY <1>3, <1>4
  <2> QED BY <1>1, <2>1
<1>6. Max(S) \in S /\ \A y \in S : Max(S) >= y
  BY <1>4, <1>5 DEF Max
<1>7. ASSUME NEW y \in S PROVE y <= Max(S)
  BY <1>1, <1>6
<1> QED BY <1>6, <1>7

\* What an answer has to be for a listing to go on from it.
AnswerOK(r) ==
    /\ r.cookie \in Int
    /\ r.member = NoMember => \A x \in stays : Ahead(x, cookie) => kind = "port" /\ x = cookie
    /\ r.member # NoMember =>
         /\ r.member \in Nat
         /\ \A i \in DOMAIN reported : reported[i] < r.member
         /\ \A y \in Nat : y <= r.member => Passed(y, r.cookie)
         /\ \A x \in stays : Ahead(x, cookie) => x = r.member \/ Ahead(x, r.cookie)
         /\ CookieOK(r.cookie)
         /\ kind = "team" => r.cookie # 0
         /\ kind = "port" => r.cookie = r.member + 1

\* The tables that go on from the last member told of.
LEMMA AnswerAfterwards ==
    ASSUME ListingTypeOK, ListingUnderWay, Afterwards, cookie # NoMember, ~(kind = "team" /\ cookie = 0),
           NEW n, n = FirstOf(LargerThan(cookie)), NEW c, c \in {n, cookie}, n # NoMember => c = n
    PROVE  AnswerOK(Answer(n, c))
<1>1. Answer(n, c).member = n /\ Answer(n, c).cookie = c
  BY DEF Answer
<1> DEFINE S == LargerThan(cookie)
<1>2. S \subseteq Nat /\ S \subseteq listable /\ listable \subseteq Nat \ {0} /\ cookie \in Int
  <2>1. Keys = ListKey \ {0} /\ listable \subseteq Keys /\ cookie \in Int
    BY DEF ListingTypeOK, Keys, Afterwards
  <2>2. ListKey \subseteq Nat
    BY ListingAssumption DEF ListKey
  <2>3. S \subseteq listable
    BY DEF LargerThan
  <2> QED BY <2>1, <2>2, <2>3
<1>3. \A x \in listable : x \in S <=> x > cookie
  BY DEF LargerThan
<1> HIDE DEF S
<1>4. /\ n = NoMember <=> S = {}
      /\ S # {} => n \in S /\ \A y \in S : n <= y
  BY <1>2, FirstFound DEF S
<1>5. c \in Int
  <2>1. CASE S = {}
    BY <1>2, <1>4, <2>1 DEF NoMember
  <2>2. CASE S # {}
    <3>1. n \in Nat
      BY <1>2, <1>4, <2>2
    <3> QED BY <1>2, <3>1
  <2> QED BY <2>1, <2>2
<1>6. stays \subseteq listable
  BY DEF ListingTypeOK
<1>7. CASE n = NoMember
  <2>1. \A x \in stays : ~Ahead(x, cookie)
    BY <1>3, <1>4, <1>6, <1>7 DEF Ahead
  <2> QED BY <1>1, <1>5, <1>7, <2>1 DEF AnswerOK
<1>8. CASE n # NoMember
  <2>1. n \in Nat \ {0} /\ n > cookie /\ c = n /\ \A y \in S : n <= y
    BY <1>2, <1>3, <1>4, <1>8
  <2>2. ASSUME NEW i \in DOMAIN reported PROVE reported[i] < n
    <3>1. reported[i] \in Nat /\ Passed(reported[i], cookie)
      BY DEF ListingTypeOK, ListingUnderWay
    <3> QED BY <1>2, <2>1, <3>1 DEF Passed
  <2>3. \A y \in Nat : y <= n => Passed(y, n)
    BY <2>1 DEF Passed
  <2>4. ASSUME NEW x \in stays, Ahead(x, cookie) PROVE x = n \/ Ahead(x, n)
    <3>1. x \in S /\ x \in Nat
      BY <1>2, <1>3, <1>6, <2>4 DEF Ahead
    <3>2. n <= x
      BY <2>1, <3>1
    <3> QED BY <2>1, <3>1, <3>2 DEF Ahead
  <2>5. CookieOK(n)
    BY <2>1 DEF CookieOK, NoMember
  <2>6. kind # "port"
    BY DEF Afterwards
  <2> QED BY <1>1, <1>8, <2>1, <2>2, <2>3, <2>4, <2>5, <2>6 DEF AnswerOK
<1> QED BY <1>7, <1>8

\* Images and volumes: the cookie is the next member, as it was.
LEMMA AnswerOfNext ==
    ASSUME ListingTypeOK, ListingUnderWay, kind \in {"image", "device"}, cookie # NoMember
    PROVE  AnswerOK(GetNext(cookie))
<1> SUFFICES ASSUME NEW n, n = IF cookie \in listable THEN cookie ELSE NextMemberId(cookie),
                    NEW c, c = IF n = NoMember THEN cookie ELSE NextMemberId(n)
             PROVE  AnswerOK(Answer(n, c))
  <2>1. kind = "image" => GetNext(cookie) = GetNextImageInfo(cookie)
    BY DEF GetNext
  <2>2. kind = "device" => GetNext(cookie) = NextDevice(cookie)
    BY DEF GetNext
  <2> QED BY <2>1, <2>2 DEF GetNextImageInfo, NextDevice
<1>1. Answer(n, c).member = n /\ Answer(n, c).cookie = c
  BY DEF Answer
<1>2. listable \subseteq Nat /\ cookie \in Int /\ stays \subseteq listable
  BY ListingAssumption DEF ListingTypeOK, Keys, ListKey
<1>3. ASSUME NEW k \in Int
      PROVE  /\ NextMemberId(k) = NoMember <=> \A x \in listable : x <= k
             /\ NextMemberId(k) # NoMember =>
                  /\ NextMemberId(k) \in listable /\ NextMemberId(k) > k
                  /\ \A x \in listable : x > k => NextMemberId(k) <= x
  <2>1. LargerThan(k) \subseteq Nat /\ \A x : x \in LargerThan(k) <=> x \in listable /\ x > k
    BY <1>2 DEF LargerThan
  <2>2. NextMemberId(k) = FirstOf(LargerThan(k))
    BY DEF NextMemberId
  <2>3. /\ FirstOf(LargerThan(k)) = NoMember <=> LargerThan(k) = {}
        /\ LargerThan(k) # {} => /\ FirstOf(LargerThan(k)) \in LargerThan(k)
                                 /\ \A y \in LargerThan(k) : FirstOf(LargerThan(k)) <= y
    BY <2>1, FirstFound
  <2>4. LargerThan(k) = {} <=> \A x \in listable : x <= k
    BY <1>2, <2>1
  <2> QED BY <2>1, <2>2, <2>3, <2>4
<1>4. ~Afterwards /\ kind # "team" /\ kind # "port"
  BY DEF Afterwards
<1>5. CASE n = NoMember
  <2>1. cookie \notin listable /\ \A x \in listable : x <= cookie
    BY <1>2, <1>3, <1>5 DEF NoMember
  <2>2. \A x \in stays : ~Ahead(x, cookie)
    BY <1>2, <1>4, <2>1 DEF Ahead
  <2> QED BY <1>1, <1>2, <1>5, <2>2 DEF AnswerOK
<1>6. CASE n # NoMember
  <2>1. n \in listable /\ n >= cookie /\ \A x \in listable : x >= cookie => n <= x
    <3>1. CASE cookie \in listable
      BY <1>2, <3>1
    <3>2. CASE cookie \notin listable
      BY <1>2, <1>3, <1>6, <3>2
    <3> QED BY <3>1, <3>2
  <2>2. n \in Nat /\ c = NextMemberId(n)
    BY <1>2, <1>6, <2>1
  <2>3. /\ c = NoMember <=> \A x \in listable : x <= n
        /\ c # NoMember => c \in Nat /\ c > n /\ \A x \in listable : x > n => c <= x
    BY <1>2, <1>3, <2>2
  <2>4. ASSUME NEW i \in DOMAIN reported PROVE reported[i] < n
    <3>1. reported[i] \in Nat /\ Passed(reported[i], cookie)
      BY DEF ListingTypeOK, ListingUnderWay
    <3> QED BY <1>2, <1>4, <2>1, <2>2, <3>1 DEF Passed
  <2>5. \A y \in Nat : y <= n => Passed(y, c)
    BY <1>4, <2>2, <2>3 DEF Passed
  <2>6. ASSUME NEW x \in stays, Ahead(x, cookie) PROVE x = n \/ Ahead(x, c)
    <3>1. x \in Nat /\ x \in listable /\ n <= x
      BY <1>2, <1>4, <2>1, <2>6 DEF Ahead
    <3>2. CASE x = n
      BY <3>2
    <3>3. CASE x > n
      BY <1>4, <2>2, <2>3, <3>1, <3>3 DEF Ahead
    <3> QED BY <2>2, <3>1, <3>2, <3>3
  <2>7. c \in Int /\ CookieOK(c)
    BY <1>4, <2>3 DEF CookieOK, NoMember
  <2> QED BY <1>1, <1>4, <1>6, <2>2, <2>4, <2>5, <2>6, <2>7 DEF AnswerOK
<1> QED BY <1>5, <1>6

\* Ports: the cookie is one more than the last, and the largest is the end.
LEMMA AnswerOfPort ==
    ASSUME ListingTypeOK, ListingUnderWay, kind = "port", cookie # NoMember
    PROVE  AnswerOK(GetNext(cookie))
<1> DEFINE S == {p \in listable \ dead : p >= cookie}
<1>1. GetNext(cookie) = GetNextPortInfo(cookie) /\ ~Afterwards
  BY DEF GetNext, Afterwards
<1>2. listable \subseteq ListKey /\ listable \subseteq Nat /\ stays \subseteq listable \ dead /\ cookie \in Nat
  <2>1. listable \subseteq ListKey /\ stays \subseteq listable \ dead
    BY DEF ListingTypeOK, Keys
  <2>2. ListKey \subseteq Nat
    BY ListingAssumption DEF ListKey
  <2>3. cookie \in Int /\ cookie >= 0
    BY DEF ListingTypeOK, ListingUnderWay, CookieOK, NoMember
  <2> QED BY <2>1, <2>2, <2>3
<1> SUFFICES ASSUME NEW n, n = FirstOf(S), NEW r,
                    r = IF listable = {} \/ cookie >= Max(listable) \/ n = NoMember THEN Answer(NoMember, NoMember)
                        ELSE Answer(n, n + 1)
             PROVE  AnswerOK(r)
  BY <1>1 DEF GetNextPortInfo
<1>3. S \subseteq Nat
  BY <1>2
<1>4. /\ n = NoMember <=> S = {}
      /\ S # {} => n \in S /\ \A y \in S : n <= y
  BY <1>3, FirstFound
<1>5. \A x \in stays : Ahead(x, cookie) <=> x \in S
  BY <1>1, <1>2 DEF Ahead, NoMember
<1>6. CASE listable = {} \/ cookie >= Max(listable) \/ n = NoMember
  <2>1. r.member = NoMember /\ r.cookie = NoMember
    BY <1>6 DEF Answer
  <2>2. ASSUME NEW x \in stays, x \in S PROVE x = cookie
    <3>1. listable # {} /\ n # NoMember /\ x \in Nat /\ x >= cookie /\ x \in listable
      BY <1>2, <1>4, <2>2
    <3>2. x <= Max(listable) /\ Max(listable) \in Nat
      BY <1>2, <3>1, LargestFound
    <3> QED BY <1>2, <1>6, <3>1, <3>2
  <2>3. r.cookie \in Int
    BY <2>1 DEF NoMember
  <2> QED BY <1>5, <2>1, <2>2, <2>3 DEF AnswerOK
<1>7. CASE ~(listable = {} \/ cookie >= Max(listable) \/ n = NoMember)
  <2>1. r.member = n /\ r.cookie = n + 1
    BY <1>7 DEF Answer
  <2>2. n \in Nat /\ n >= cookie /\ \A y \in S : n <= y
    BY <1>3, <1>4, <1>7
  <2>3. ASSUME NEW i \in DOMAIN reported PROVE reported[i] < n
    <3>1. reported[i] \in Nat /\ Passed(reported[i], cookie)
      BY DEF ListingTypeOK, ListingUnderWay
    <3> QED BY <1>1, <1>2, <2>2, <3>1 DEF Passed
  <2>4. \A y \in Nat : y <= n => Passed(y, n + 1)
    BY <1>1, <2>2 DEF Passed
  <2>5. ASSUME NEW x \in stays, Ahead(x, cookie) PROVE x = n \/ Ahead(x, n + 1)
    <3>1. x \in Nat /\ n <= x
      BY <1>3, <1>5, <2>2, <2>5
    <3> QED BY <1>1, <2>2, <3>1 DEF Ahead, NoMember
  <2>6. n + 1 \in Int /\ CookieOK(n + 1)
    BY <2>2 DEF CookieOK, NoMember
  <2> QED BY <1>7, <2>1, <2>2, <2>3, <2>4, <2>5, <2>6 DEF AnswerOK
<1> QED BY <1>6, <1>7

\* Every call answers so that the listing can go on.
LEMMA AnswerAlways ==
    ASSUME ListingTypeOK, ListingUnderWay, cookie # NoMember
    PROVE  AnswerOK(GetNext(cookie))
<1>1. CASE kind = "team" /\ cookie = 0
  <2> DEFINE r == GetNext(cookie)
  <2>1. r.member = 0 /\ r.cookie = -2
    BY <1>1 DEF GetNext, GetNextTeamInfo, Answer
  <2>2. reported = <<>> /\ Afterwards /\ kind # "port"
    BY <1>1 DEF ListingUnderWay, Afterwards
  <2>3. \A y \in Nat : y <= 0 => Passed(y, -2)
    BY <1>1 DEF Passed
  <2>4. ASSUME NEW x \in stays PROVE Ahead(x, -2)
    <3>1. x \in Nat
      BY ListingAssumption DEF ListingTypeOK, Keys, ListKey
    <3> QED BY <2>2, <3>1 DEF Ahead
  <2>5. CookieOK(-2)
    BY <1>1 DEF CookieOK, NoMember
  <2> HIDE DEF r
  <2> QED BY <2>1, <2>2, <2>3, <2>4, <2>5 DEF AnswerOK, NoMember, r
<1>2. CASE kind \in {"team", "thread"} /\ ~(kind = "team" /\ cookie = 0)
  <2> SUFFICES ASSUME NEW n, n = FirstOf(LargerThan(cookie)) PROVE AnswerOK(Answer(n, n))
    <3>1. CASE kind = "team"
      BY <1>2, <3>1 DEF GetNext, GetNextTeamInfo, NextProcessId
    <3>2. CASE kind = "thread"
      BY <1>2, <3>2 DEF GetNext, GetNextThreadInfo, NextThreadId
    <3> QED BY <1>2, <3>1, <3>2
  <2>1. Afterwards
    BY <1>2 DEF Afterwards
  <2> QED BY <1>2, <2>1, AnswerAfterwards
<1>3. CASE kind = "area"
  <2> SUFFICES ASSUME NEW n, n = FirstOf(LargerThan(cookie)), NEW c, c = IF n = NoMember THEN cookie ELSE n
               PROVE  AnswerOK(Answer(n, c))
    BY <1>3 DEF GetNext, GetNextAreaInfo, GetNextAreaIdFor
  <2>1. Afterwards
    BY <1>3 DEF Afterwards
  <2> QED BY <1>3, <2>1, AnswerAfterwards
<1>4. CASE kind = "port"
  BY <1>4, AnswerOfPort
<1>5. CASE kind \in {"image", "device"}
  BY <1>5, AnswerOfNext
<1>6. kind \in Kinds
  BY DEF ListingTypeOK
<1> QED BY <1>1, <1>2, <1>3, <1>4, <1>5, <1>6 DEF Kinds

\* One call.
LEMMA ListNextKept ==
    ASSUME ListingInductive, ListNext
    PROVE  ListingInductive'
<1>0. ListingTypeOK /\ ListingAscends /\ ~over /\ ListingUnderWay
  BY DEF ListingInductive, ListNext
<1> SUFFICES ASSUME NEW r, r = GetNext(cookie) PROVE ListingInductive'
  OBVIOUS
<1>1. /\ IF cookie = -1 \/ r.member = NoMember
         THEN over' = TRUE /\ UNCHANGED reported
         ELSE reported' = Append(reported, r.member) /\ UNCHANGED over
      /\ cookie' = IF cookie = -1 THEN -1 ELSE r.cookie
      /\ UNCHANGED <<kind, listable, dead, stays>>
  BY DEF ListNext
<1>2. cookie # NoMember => AnswerOK(r)
  BY <1>0, AnswerAlways
<1>3. cookie' \in Int
  BY <1>1, <1>2 DEF AnswerOK, NoMember
<1>4. CASE cookie = -1 \/ r.member = NoMember
  <2>1. over' = TRUE /\ reported' = reported
    BY <1>1, <1>4
  <2>2. ListingTypeOK'
    BY <1>0, <1>1, <1>3, <2>1 DEF ListingTypeOK, Keys
  <2>3. ASSUME NEW x \in stays PROVE x \in Range(reported) \/ (kind = "port" /\ x = PortMissed)
    <3>1. x \in Range(reported) \/ Ahead(x, cookie)
      BY <1>0 DEF ListingUnderWay
    <3>2. CASE cookie = NoMember
      BY <1>0, <3>1, <3>2 DEF ListingUnderWay, CookieOK, Ahead, Afterwards
    <3>3. CASE cookie # NoMember
      BY <1>0, <1>2, <1>4, <3>1, <3>3 DEF AnswerOK, NoMember, ListingUnderWay
    <3> QED BY <3>2, <3>3
  <2>4. ListingComplete'
    BY <1>0, <1>1, <2>1, <2>3 DEF ListingComplete, ListingAscends, PortMissed
  <2>5. ListingAscends'
    BY <1>0, <2>1 DEF ListingAscends
  <2> QED BY <2>1, <2>2, <2>4, <2>5 DEF ListingInductive
<1>5. CASE ~(cookie = -1 \/ r.member = NoMember)
  <2>1. over' = over /\ reported' = Append(reported, r.member) /\ cookie' = r.cookie /\ AnswerOK(r)
    BY <1>1, <1>2, <1>5 DEF NoMember
  <2>2. r.member \in Nat /\ reported \in Seq(Nat)
    BY <1>0, <1>5, <2>1 DEF AnswerOK, ListingTypeOK
  <2>3. ListingTypeOK'
    BY <1>0, <1>1, <1>3, <2>1, <2>2 DEF ListingTypeOK, Keys
  <2>4. /\ Len(reported') = Len(reported) + 1 /\ Len(reported) \in Nat /\ DOMAIN reported = 1 .. Len(reported)
        /\ DOMAIN reported' = 1 .. Len(reported')
        /\ \A i \in DOMAIN reported : reported'[i] = reported[i]
        /\ reported'[Len(reported')] = r.member
    BY <2>1, <2>2
  <2>5. \A i \in DOMAIN reported : reported[i] < r.member /\ reported[i] \in Nat
    BY <1>5, <2>1, <2>2 DEF AnswerOK
  <2>6. ASSUME NEW i \in DOMAIN reported' PROVE i \in DOMAIN reported \/ i = Len(reported')
    BY <2>4
  <2>7. ListingAscends'
    <3> SUFFICES ASSUME NEW i \in DOMAIN reported', NEW j \in DOMAIN reported', i < j PROVE reported'[i] < reported'[j]
      BY DEF ListingAscends
    <3>1. i \in DOMAIN reported
      BY <2>4
    <3>2. CASE j \in DOMAIN reported
      BY <1>0, <2>4, <3>1, <3>2 DEF ListingAscends
    <3>3. CASE j = Len(reported')
      BY <2>4, <2>5, <3>1, <3>3
    <3> QED BY <2>6, <3>2, <3>3
  <2>8. ASSUME NEW i \in DOMAIN reported' PROVE Passed(reported'[i], cookie')
    <3>1. reported'[i] \in Nat /\ reported'[i] <= r.member
      BY <2>2, <2>4, <2>5, <2>6
    <3> QED BY <1>5, <2>1, <3>1 DEF AnswerOK
  <2>9. \A x \in Range(reported) : x \in Range(reported')
    BY <2>4 DEF Range
  <2>10. r.member \in Range(reported')
    <3>1. Len(reported') \in DOMAIN reported'
      BY <2>4
    <3> QED BY <2>4, <3>1 DEF Range
  <2>11. ASSUME NEW x \in stays PROVE x \in Range(reported') \/ Ahead(x, cookie')
    <3>1. x \in Range(reported) \/ Ahead(x, cookie)
      BY <1>0 DEF ListingUnderWay
    <3>2. Ahead(x, cookie) => x = r.member \/ Ahead(x, cookie')
      BY <1>5, <2>1 DEF AnswerOK
    <3> QED BY <2>9, <2>10, <3>1, <3>2
  <2>12. kind = "port" => cookie' = PortMissed'
    <3>1. reported' # <<>>
      BY <2>4
    <3> QED BY <1>5, <2>1, <2>4, <3>1 DEF AnswerOK, PortMissed
  <2>13. CookieOK(cookie') /\ (kind = "team" => cookie' # 0)
    BY <1>5, <2>1 DEF AnswerOK
  <2>14. ListingUnderWay'
    BY <1>1, <2>8, <2>11, <2>12, <2>13 DEF ListingUnderWay, CookieOK, Passed, Ahead, Afterwards
  <2>15. ListingComplete'
    BY <1>0, <2>1, <2>7 DEF ListingComplete, ListingAscends
  <2> QED BY <2>3, <2>7, <2>14, <2>15 DEF ListingInductive
<1> QED BY <1>4, <1>5

\* What happens between the calls leaves the listing as it is: members that
\* stay are still there, and the cookie still leads to them.
LEMMA ListingKept ==
    ASSUME ListingInductive, UNCHANGED <<kind, cookie, reported, over>>, stays' \subseteq stays,
           listable' \subseteq Keys, dead' \subseteq listable', stays' \subseteq listable' \ dead'
    PROVE  ListingInductive'
<1>1. ListingTypeOK'
  BY DEF ListingInductive, ListingTypeOK, Keys
<1>2. ListingAscends' /\ ListingComplete'
  BY DEF ListingInductive, ListingAscends, ListingComplete, PortMissed
<1>3. ASSUME ~over PROVE ListingUnderWay'
  BY <1>3 DEF ListingInductive, ListingUnderWay, CookieOK, Passed, Ahead, Afterwards, PortMissed
<1> QED BY <1>1, <1>2, <1>3 DEF ListingInductive

\* A listing begins: nothing is told, and the cookie 0 leads to every member.
LEMMA ListingBegun ==
    ASSUME kind \in Kinds, NEW c, c = 0, NEW x \in Keys
    PROVE  Ahead(x, c) /\ CookieOK(c)
<1>1. x \in Nat /\ (Afterwards => x # 0)
  BY ListingAssumption DEF Keys, ListKey, Afterwards
<1> QED BY <1>1 DEF Ahead, CookieOK, NoMember

\* ListingComplete, whatever the number of members: no get_next call tells of a
\* member twice, and a listing that is over has told of all that stayed, but for
\* the last port of a team whose id follows at once.
THEOREM ListingsComplete == ListingSpec => []ListingComplete
<1>1. ListingInit => ListingInductive
  <2> SUFFICES ASSUME ListingInit PROVE ListingInductive
    OBVIOUS
  <2>1. /\ kind \in Kinds /\ listable \subseteq Keys /\ dead = {} /\ cookie = 0 /\ reported = <<>> /\ stays = listable
        /\ over = FALSE
    BY DEF ListingInit
  <2>2. ListingTypeOK
    <3>1. <<>> \in Seq(Nat)
      OBVIOUS
    <3>2. cookie \in Int /\ reported \in Seq(Nat) /\ over \in BOOLEAN
      <4>1. reported \in Seq(Nat)
        BY <2>1, <3>1, Zenon
      <4>2. over \in BOOLEAN
        BY <2>1, Zenon
      <4>3. cookie \in Int
        BY <2>1
      <4> QED BY <4>1, <4>2, <4>3, Zenon
    <3>3. dead \subseteq listable /\ stays \subseteq listable \ dead
      BY <2>1
    <3> QED BY <2>1, <3>2, <3>3 DEF ListingTypeOK
  <2>3. ListingAscends /\ ListingComplete
    BY <2>1 DEF ListingAscends, ListingComplete
  <2>4. ListingUnderWay
    <3>1. \A x \in stays : Ahead(x, cookie)
      BY <2>1, ListingBegun
    <3>2. CookieOK(cookie)
      BY <2>1 DEF CookieOK, NoMember
    <3> QED BY <2>1, <3>1, <3>2 DEF ListingUnderWay, PortMissed
  <2> QED BY <2>2, <2>3, <2>4 DEF ListingInductive
<1>2. ListingInductive /\ [ListingStep]_listingVars => ListingInductive'
  <2> SUFFICES ASSUME ListingInductive, [ListingStep]_listingVars PROVE ListingInductive'
    OBVIOUS
  <2>0. ListingTypeOK
    BY DEF ListingInductive
  <2>1. CASE UNCHANGED listingVars
    BY <2>0, <2>1, ListingKept DEF listingVars, ListingTypeOK
  <2>2. CASE ListNext
    BY <2>2, ListNextKept
  <2>3. CASE ListAgain
    <3>1. /\ cookie' = 0 /\ reported' = <<>> /\ stays' = listable \ dead /\ over' = FALSE
          /\ UNCHANGED <<kind, listable, dead>>
      BY <2>3 DEF ListAgain, Begins
    <3>2. ListingTypeOK'
      <4>1. <<>> \in Seq(Nat)
        OBVIOUS
      <4>2. cookie' \in Int /\ reported' \in Seq(Nat) /\ over' \in BOOLEAN
        <5>1. reported' \in Seq(Nat)
          BY <3>1, <4>1, Zenon
        <5>2. over' \in BOOLEAN
          BY <3>1, Zenon
        <5>3. cookie' \in Int
          BY <3>1
        <5> QED BY <5>1, <5>2, <5>3, Zenon
      <4> QED BY <2>0, <3>1, <4>2 DEF ListingTypeOK, Keys
    <3>3. ListingAscends' /\ ListingComplete'
      BY <3>1 DEF ListingAscends, ListingComplete
    <3>4. ListingUnderWay'
      <4>1. ASSUME NEW x \in stays' PROVE Ahead(x, 0)
        BY <2>0, <3>1, ListingBegun DEF ListingTypeOK
      <4>2. CookieOK(0)
        BY DEF CookieOK, NoMember
      <4> QED BY <3>1, <4>1, <4>2 DEF ListingUnderWay, CookieOK, Passed, Ahead, Afterwards, PortMissed
    <3> QED BY <3>2, <3>3, <3>4 DEF ListingInductive
  <2>4. CASE ListedTeamLeaves
    <3>1. /\ listable' = {} /\ dead' = {} /\ stays' = {} /\ over' = TRUE
          /\ UNCHANGED <<kind, cookie, reported>>
      BY <2>4 DEF ListedTeamLeaves
    <3>2. ListingTypeOK'
      BY <2>0, <3>1 DEF ListingTypeOK, Keys
    <3>3. ListingAscends' /\ ListingComplete'
      BY <3>1 DEF ListingInductive, ListingAscends, ListingComplete
    <3> QED BY <3>1, <3>2, <3>3 DEF ListingInductive
  <2>5. ASSUME NEW k \in ListKey, Appear(k) PROVE ListingInductive'
    BY <2>0, <2>5, ListingKept DEF Appear, ListingTypeOK
  <2>6. ASSUME NEW k \in ListKey, Disappear(k) PROVE ListingInductive'
    BY <2>0, <2>6, ListingKept DEF Disappear, ListingTypeOK
  <2>7. ASSUME NEW k \in ListKey, OwnDeadPort(k) PROVE ListingInductive'
    BY <2>0, <2>7, ListingKept DEF OwnDeadPort, ListingTypeOK
  <2>8. ASSUME NEW k \in ListKey, PortIdUsedAgain(k) PROVE ListingInductive'
    BY <2>0, <2>8, ListingKept DEF PortIdUsedAgain, ListingTypeOK
  <2> QED BY <2>1, <2>2, <2>3, <2>4, <2>5, <2>6, <2>7, <2>8 DEF ListingStep
<1>3. ListingInductive => ListingComplete
  BY DEF ListingInductive
<1> QED BY <1>1, <1>2, <1>3, PTL DEF ListingSpec

-----------------------------------------------------------------------------
(* Users: the maps of a server, the guest's files over its starts, and the   *)
(* ids of a process at the server and at the host.                           *)

Which == {"real", "effective"}
ProcessIds == [uid : [Which -> Int], gid : [Which -> Int], groups : SUBSET Int]
SettingIds == [of : {"ids"}, kind : IdKind, want : [Which -> Int], hosts : [Which -> Int], done : BOOLEAN]
SettingGroups == [of : {"groups"}, want : SUBSET Int, hosts : SUBSET Int]

NoProcessYet == ids = NoProcess /\ cred = NoProcess /\ setting = NotSetting
UsersTypeOK ==
    /\ present \subseteq HostUser
    /\ launcher = NoLauncher => NoProcessYet
    /\ \/ NoProcessYet
       \/ ids \in ProcessIds /\ cred \in ProcessIds /\ setting \in {NotSetting} \cup SettingIds \cup SettingGroups

MapsOK ==
    launcher # NoLauncher =>
        /\ launcher \in loaded /\ loaded \subseteq HostUser
        /\ idMap = RegisterIds(loaded, launcher) /\ reverseMap = RegisterReverse(loaded, launcher)

\* The guest's files: what every start finds, and what the last one has left.
EntriesOK(sort) ==
    /\ \A e \in etc[sort] : e = [name |-> e.name, id |-> e.id] /\ e.id \in Nat
    /\ {e \in etc[sort] : e.id < kMinHostId /\ e.id # 0} = {e \in OwnUser : e.id # 0}
EntriesWritten(sort) ==
    /\ {e \in etc[sort] : e.id >= kMinHostId} =
         {[name |-> u, id |-> idMap[sort][HostId[u]]] : u \in loaded \ {launcher}}
    /\ {e \in etc[sort] : e.id < kMinHostId} =
         {[name |-> launcher, id |-> 0]} \cup {e \in OwnUser : e.id # 0}
EtcOK ==
    \A sort \in IdKind : EntriesOK(sort) /\ (launcher # NoLauncher => EntriesWritten(sort))

\* An id of the map is the host's, unless the host has it already and the server
\* not yet.
IdAgrees(sort, id, h) ==
    id >= kMinHostId /\ id \in DOMAIN reverseMap[sort] /\ h \in DOMAIN idMap[sort] => reverseMap[sort][id] = h
HostAhead(sort, w) ==
    setting.of = "ids" /\ setting.kind = sort /\ setting.done /\ setting.want[w] # NoId
IdsOK ==
    ids # NoProcess => \A sort \in IdKind, w \in Which :
        HostAhead(sort, w) \/ IdAgrees(sort, ids[sort][w], cred[sort][w])
GroupsOK ==
    cred.groups \subseteq DOMAIN idMap["gid"] =>
        \A g \in ids.groups : g >= kMinHostId /\ g \in DOMAIN reverseMap["gid"] => reverseMap["gid"][g] \in cred.groups

\* A call under way knows what to set at the host.
SettingOK ==
    /\ setting.of = "ids" =>
         /\ setting.hosts = HostIds(setting.kind, setting.want)
         /\ setting.done => \A w \in Which : setting.hosts[w] # NoId => cred[setting.kind][w] = setting.hosts[w]
    /\ setting.of = "groups" =>
         LET mapped == {g \in setting.want : g >= kMinHostId} IN
         \/ setting.hosts = {} /\ mapped \subseteq ids.groups
         \/ setting.hosts = {GetHostId("gid", g) : g \in mapped}

UsersInductive == UsersTypeOK /\ MapsOK /\ EtcOK /\ IdsOK /\ GroupsOK /\ SettingOK

\* No two users get one id.
LEMMA GuestIdsApart ==
    ASSUME NEW users \in SUBSET HostUser, NEW owner \in users
    PROVE  /\ GuestIdOf(users, owner, owner) = 0
           /\ \A u \in users \ {owner} : GuestIdOf(users, owner, u) \in Nat /\ GuestIdOf(users, owner, u) >= kMinHostId
           /\ \A u, v \in users : GuestIdOf(users, owner, u) = GuestIdOf(users, owner, v) => u = v
<1> DEFINE Lower(u) == {v \in Others(users, owner) : HostId[v] < HostId[u]}
<1>1. \A u \in users : HostId[u] \in Nat
  BY UsersAssumption
<1>2. \A u, v \in users : HostId[u] = HostId[v] => u = v
  BY UsersAssumption
<1>3. IsFiniteSet(Others(users, owner))
  BY UsersAssumption, FS_Subset DEF Others
<1>4. \A u \in users : Lower(u) \in SUBSET Others(users, owner)
  OBVIOUS
<1>5. ASSUME NEW u \in users PROVE IsFiniteSet(Lower(u)) /\ Cardinality(Lower(u)) \in Nat
  BY <1>3, <1>4, FS_Subset, FS_CardinalityType
<1>6. ASSUME NEW u \in users \ {owner}, NEW v \in users \ {owner}, HostId[u] < HostId[v]
      PROVE  Cardinality(Lower(u)) < Cardinality(Lower(v))
  <2>1. Lower(u) \subseteq Lower(v)
    BY <1>1, <1>6 DEF Others
  <2>2. u \in Lower(v) /\ u \notin Lower(u)
    BY <1>1, <1>6 DEF Others
  <2>3. Cardinality(Lower(u)) <= Cardinality(Lower(v)) /\ Cardinality(Lower(v)) # Cardinality(Lower(u))
    BY <1>5, <2>1, <2>2, FS_Subset
  <2> QED BY <1>5, <2>3
<1>7. \A u \in users \ {owner} : GuestIdOf(users, owner, u) = kMinHostId + Cardinality(Lower(u))
  BY DEF GuestIdOf
<1>8. GuestIdOf(users, owner, owner) = 0
  BY DEF GuestIdOf
<1> HIDE DEF Lower
<1>9. \A u \in users \ {owner} : GuestIdOf(users, owner, u) \in Nat /\ GuestIdOf(users, owner, u) >= kMinHostId
  BY <1>5, <1>7 DEF kMinHostId
<1>10. ASSUME NEW u \in users, NEW v \in users, GuestIdOf(users, owner, u) = GuestIdOf(users, owner, v) PROVE u = v
  <2>1. CASE u = owner \/ v = owner
    BY <1>8, <1>9, <1>10, <2>1 DEF kMinHostId
  <2>2. CASE u # owner /\ v # owner
    <3>1. Cardinality(Lower(u)) = Cardinality(Lower(v))
      BY <1>5, <1>7, <1>10, <2>2 DEF kMinHostId
    <3>2. ~(HostId[u] < HostId[v]) /\ ~(HostId[v] < HostId[u])
      BY <1>5, <1>6, <2>2, <3>1
    <3>3. HostId[u] = HostId[v]
      BY <1>1, <3>2
    <3> QED BY <1>2, <3>3
  <2> QED BY <2>1, <2>2
<1> QED BY <1>8, <1>9, <1>10

\* What server_setup_usermap registers.
LEMMA MapsRegistered ==
    ASSUME NEW users \in SUBSET HostUser, NEW owner \in users, NEW sort \in IdKind
    PROVE  /\ DOMAIN RegisterIds(users, owner)[sort] = {HostId[u] : u \in users}
           /\ \A u \in users : RegisterIds(users, owner)[sort][HostId[u]] = GuestIdOf(users, owner, u)
           /\ DOMAIN RegisterReverse(users, owner)[sort] = {GuestIdOf(users, owner, u) : u \in users}
           /\ \A u \in users : RegisterReverse(users, owner)[sort][GuestIdOf(users, owner, u)] = HostId[u]
<1> DEFINE map == [h \in {HostId[u] : u \in users} |-> GuestIdOf(users, owner, CHOOSE u \in users : HostId[u] = h)]
           back == [i \in {GuestIdOf(users, owner, u) : u \in users} |->
                      HostId[CHOOSE u \in users : GuestIdOf(users, owner, u) = i]]
<1>1. RegisterIds(users, owner)[sort] = map /\ RegisterReverse(users, owner)[sort] = back
  BY DEF RegisterIds, RegisterReverse
<1>2. ASSUME NEW u \in users PROVE map[HostId[u]] = GuestIdOf(users, owner, u)
  <2>1. \A v \in users : HostId[v] = HostId[u] => v = u
    BY UsersAssumption
  <2>2. (CHOOSE v \in users : HostId[v] = HostId[u]) = u
    BY <2>1
  <2> QED BY <2>2
<1>3. ASSUME NEW u \in users PROVE back[GuestIdOf(users, owner, u)] = HostId[u]
  <2>1. \A v \in users : GuestIdOf(users, owner, v) = GuestIdOf(users, owner, u) => v = u
    BY GuestIdsApart
  <2>2. (CHOOSE v \in users : GuestIdOf(users, owner, v) = GuestIdOf(users, owner, u)) = u
    BY <2>1
  <2> QED BY <2>2
<1>4. DOMAIN map = {HostId[u] : u \in users} /\ DOMAIN back = {GuestIdOf(users, owner, u) : u \in users}
  OBVIOUS
<1> HIDE DEF map, back
<1> QED BY <1>1, <1>2, <1>3, <1>4

\* The maps of a server that runs are inverse to each other.
LEMMA MapsInverse ==
    ASSUME MapsOK, launcher # NoLauncher, NEW sort \in IdKind
    PROVE  /\ \A h \in DOMAIN idMap[sort] :
                idMap[sort][h] \in Nat /\ idMap[sort][h] \in DOMAIN reverseMap[sort] /\ reverseMap[sort][idMap[sort][h]] = h
           /\ \A i \in DOMAIN reverseMap[sort] : reverseMap[sort][i] \in Nat
           /\ \A u \in loaded : idMap[sort][HostId[u]] = GuestIdOf(loaded, launcher, u)
<1>1. launcher \in loaded /\ loaded \in SUBSET HostUser
  BY DEF MapsOK
<1>2. idMap = RegisterIds(loaded, launcher) /\ reverseMap = RegisterReverse(loaded, launcher)
  BY DEF MapsOK
<1>3. /\ DOMAIN idMap[sort] = {HostId[u] : u \in loaded}
      /\ \A u \in loaded : idMap[sort][HostId[u]] = GuestIdOf(loaded, launcher, u)
      /\ DOMAIN reverseMap[sort] = {GuestIdOf(loaded, launcher, u) : u \in loaded}
      /\ \A u \in loaded : reverseMap[sort][GuestIdOf(loaded, launcher, u)] = HostId[u]
  BY <1>1, <1>2, MapsRegistered
<1>4. \A u \in loaded : GuestIdOf(loaded, launcher, u) \in Nat /\ HostId[u] \in Nat
  <2>1. \A u \in loaded : GuestIdOf(loaded, launcher, u) \in Nat
    BY <1>1, GuestIdsApart
  <2> QED BY <1>1, <2>1, UsersAssumption
<1>5. ASSUME NEW h \in DOMAIN idMap[sort]
      PROVE  idMap[sort][h] \in Nat /\ idMap[sort][h] \in DOMAIN reverseMap[sort] /\ reverseMap[sort][idMap[sort][h]] = h
  <2>1. PICK u \in loaded : h = HostId[u]
    BY <1>3
  <2> QED BY <1>3, <1>4, <2>1
<1>6. \A i \in DOMAIN reverseMap[sort] : reverseMap[sort][i] \in Nat
  BY <1>3, <1>4
<1> QED BY <1>3, <1>5, <1>6

LEMMA IdsTranslated ==
    ASSUME MapsOK, launcher # NoLauncher, NEW sort \in IdKind
    PROVE  /\ \A h \in Int : GetId(sort, h) \in Int /\ IdAgrees(sort, GetId(sort, h), h)
           /\ \A i \in Int : GetHostId(sort, i) \in Int
           /\ \A i : i \in DOMAIN reverseMap[sort] <=> GetHostId(sort, i) # NoId
           /\ \A i \in DOMAIN reverseMap[sort] : GetHostId(sort, i) = reverseMap[sort][i]
<1>1. /\ \A h \in DOMAIN idMap[sort] :
           idMap[sort][h] \in Nat /\ idMap[sort][h] \in DOMAIN reverseMap[sort] /\ reverseMap[sort][idMap[sort][h]] = h
      /\ \A i \in DOMAIN reverseMap[sort] : reverseMap[sort][i] \in Nat
  BY MapsInverse
<1>2. ASSUME NEW h \in Int PROVE GetId(sort, h) \in Int /\ IdAgrees(sort, GetId(sort, h), h)
  <2>1. CASE h \in DOMAIN idMap[sort]
    BY <1>1, <2>1 DEF GetId, IdAgrees
  <2>2. CASE h \notin DOMAIN idMap[sort]
    BY <2>2 DEF GetId, IdAgrees
  <2> QED BY <2>1, <2>2
<1>3. \A i \in Int : GetHostId(sort, i) \in Int
  BY <1>1 DEF GetHostId, NoId
<1>4. \A i \in DOMAIN reverseMap[sort] : GetHostId(sort, i) = reverseMap[sort][i] /\ GetHostId(sort, i) # NoId
  BY <1>1 DEF GetHostId, NoId
<1>5. \A i : i \notin DOMAIN reverseMap[sort] => GetHostId(sort, i) = NoId
  BY DEF GetHostId
<1> QED BY <1>2, <1>3, <1>4, <1>5

\* The guest's files after a start: root, the guest's own and the host's users,
\* whatever an earlier server has left.
LEMMA StartWrites ==
    ASSUME UsersInductive, NEW owner, SetupUserMap(owner), NEW sort \in IdKind
    PROVE  EntriesOK(sort)' /\ EntriesWritten(sort)'
<1> SUFFICES ASSUME NEW users, users = present, NEW old, old = etc[sort] PROVE EntriesOK(sort)' /\ EntriesWritten(sort)'
  OBVIOUS
<1> DEFINE G(u) == GuestIdOf(users, owner, u)
           Entry(u) == [name |-> u, id |-> G(u)]
           Root == [name |-> owner, id |-> 0]
           M == MatchedEntries(old, users, owner)
           K == KeptEntries(old, owner)
           A == AddedEntries(old, users, owner)
<1>1. /\ users \in SUBSET HostUser /\ owner \in users /\ launcher' = owner /\ loaded' = users
      /\ idMap' = RegisterIds(users, owner) /\ etc'[sort] = M \cup K \cup A
  BY DEF SetupUserMap, UsersInductive, UsersTypeOK
<1>2. /\ \A e \in old : e = [name |-> e.name, id |-> e.id] /\ e.id \in Nat
      /\ \A e : e \in old /\ e.id < kMinHostId /\ e.id # 0 <=> e \in OwnUser /\ e.id # 0
  <2>1. EntriesOK(sort)
    BY DEF UsersInductive, EtcOK
  <2> QED BY <2>1 DEF EntriesOK
<1>3. \A u \in users : idMap'[sort][HostId[u]] = G(u)
  <2>0. users \in SUBSET HostUser /\ owner \in users
    BY <1>1
  <2>1. \A u \in users : RegisterIds(users, owner)[sort][HostId[u]] = GuestIdOf(users, owner, u)
    BY <2>0, MapsRegistered, ZenonT(40)
  <2> QED BY <1>1, <2>1
<1>4. \A u \in Others(users, owner) : G(u) \in Nat /\ G(u) >= kMinHostId
  BY <1>1, GuestIdsApart DEF Others
<1> HIDE DEF G
<1>5. \A e \in M : e.name \in Others(users, owner) /\ e = Entry(e.name)
  <2> SUFFICES ASSUME NEW e \in M PROVE e.name \in Others(users, owner) /\ e = Entry(e.name)
    OBVIOUS
  <2>1. PICK d \in old : d.name \in Others(users, owner) /\ e = [d EXCEPT !.id = G(d.name)]
    BY DEF MatchedEntries, G
  <2>2. e = [name |-> d.name, id |-> G(d.name)]
    BY <1>2, <2>1
  <2> QED BY <2>1, <2>2
<1>6. \A e : e \in K <=> (e = Root /\ \E d \in old : d.id = 0) \/ (e \in OwnUser /\ e.id # 0)
  <2>1. ASSUME NEW e \in K PROVE (e = Root /\ \E d \in old : d.id = 0) \/ (e \in OwnUser /\ e.id # 0)
    <3>1. PICK d \in old : d.id < kMinHostId /\ e = IF d.id = 0 THEN [d EXCEPT !.name = owner] ELSE d
      BY <2>1 DEF KeptEntries
    <3>2. CASE d.id = 0
      BY <1>2, <3>1, <3>2
    <3>3. CASE d.id # 0
      BY <1>2, <3>1, <3>3
    <3> QED BY <3>2, <3>3
  <2>2. ASSUME NEW d \in old, d.id = 0 PROVE Root \in K
    <3>1. d.id < kMinHostId /\ [d EXCEPT !.name = owner] = Root
      BY <1>2, <2>2 DEF kMinHostId
    <3> QED BY <2>2, <3>1 DEF KeptEntries
  <2>3. ASSUME NEW e \in OwnUser, e.id # 0 PROVE e \in K
    <3>1. e \in old /\ e.id < kMinHostId
      BY <1>2, <2>3
    <3> QED BY <2>3, <3>1 DEF KeptEntries
  <2> QED BY <2>1, <2>2, <2>3
<1>7. \A e : e \in A <=> \/ \E u \in Others(users, owner) \ {d.name : d \in M} : e = Entry(u)
                         \/ e = Root /\ ~ \E d \in old : d.id = 0
  BY DEF AddedEntries, G
<1> HIDE DEF M, K, A, Root
<1>8. \A e : e \in etc'[sort] <=>
          e = Root \/ (e \in OwnUser /\ e.id # 0) \/ \E u \in Others(users, owner) : e = Entry(u)
  <2>1. ASSUME NEW u \in Others(users, owner), u \in {d.name : d \in M} PROVE Entry(u) \in M
    <3>1. PICK d \in M : u = d.name
      BY <2>1
    <3> QED BY <1>5, <3>1
  <2> QED BY <1>1, <1>5, <1>6, <1>7, <2>1
<1>9. Root = [name |-> Root.name, id |-> Root.id] /\ Root.id = 0
  BY DEF Root
<1>10. \A u : Entry(u) = [name |-> Entry(u).name, id |-> Entry(u).id] /\ Entry(u).id = G(u)
  OBVIOUS
<1> HIDE DEF Entry
<1>11. \A e \in OwnUser : e = [name |-> e.name, id |-> e.id] /\ e.id \in Nat /\ e.id < kMinHostId
  <2> SUFFICES ASSUME NEW e \in OwnUser PROVE e = [name |-> e.name, id |-> e.id] /\ e.id \in Nat /\ e.id < kMinHostId
    OBVIOUS
  <2>1. e = [name |-> e.name, id |-> e.id]
    BY UsersAssumption, Zenon
  <2>2. e.id \in 0 .. kMinHostId - 1
    BY UsersAssumption, Zenon
  <2>3. e.id \in Nat /\ e.id < kMinHostId
    <3>1. kMinHostId \in Nat
      BY DEF kMinHostId
    <3>2. \A i \in 0 .. kMinHostId - 1 : i \in Nat /\ i < kMinHostId
      BY <3>1
    <3> QED BY <2>2, <3>2, Zenon
  <2> QED BY <2>1, <2>3, Zenon
<1>12. /\ \A e \in etc'[sort] : e = [name |-> e.name, id |-> e.id] /\ e.id \in Nat
  BY <1>4, <1>8, <1>9, <1>10, <1>11
<1>13. {e \in etc'[sort] : e.id < kMinHostId /\ e.id # 0} = {e \in OwnUser : e.id # 0}
  BY <1>4, <1>8, <1>9, <1>10, <1>11 DEF kMinHostId
<1>14. {e \in etc'[sort] : e.id < kMinHostId} = {Root} \cup {e \in OwnUser : e.id # 0}
  BY <1>4, <1>8, <1>9, <1>10, <1>11 DEF kMinHostId
<1>15. {e \in etc'[sort] : e.id >= kMinHostId} = {Entry(u) : u \in Others(users, owner)}
  BY <1>4, <1>8, <1>9, <1>10, <1>11 DEF kMinHostId
<1>16. {Entry(u) : u \in Others(users, owner)} =
         {[name |-> u, id |-> idMap'[sort][HostId[u]]] : u \in loaded' \ {launcher'}}
  BY <1>1, <1>3 DEF Others, Entry
<1>17. EntriesOK(sort)'
  BY <1>12, <1>13 DEF EntriesOK
<1>18. EntriesWritten(sort)'
  BY <1>1, <1>14, <1>15, <1>16 DEF EntriesWritten, Root
<1> QED BY <1>17, <1>18

\* A start of the server.
LEMMA StartKept ==
    ASSUME UsersInductive, NEW owner \in HostUser, SetupUserMap(owner)
    PROVE  UsersInductive'
<1>1. /\ launcher = NoLauncher /\ owner \in present /\ launcher' = owner /\ loaded' = present
      /\ idMap' = RegisterIds(present, owner) /\ reverseMap' = RegisterReverse(present, owner)
      /\ UNCHANGED <<present, ids, cred, setting>>
  BY DEF SetupUserMap
<1>2. present \subseteq HostUser /\ NoProcessYet
  BY <1>1 DEF UsersInductive, UsersTypeOK
<1>3. UsersTypeOK' /\ MapsOK'
  BY <1>1, <1>2 DEF UsersTypeOK, MapsOK, NoProcessYet
<1>4. EtcOK'
  BY StartWrites DEF EtcOK
<1>5. ids' = NoProcess /\ ids'.groups = {} /\ setting'.of = "nothing"
  BY <1>1, <1>2 DEF NoProcessYet, NoProcess, NotSetting
<1>6. IdsOK' /\ GroupsOK' /\ SettingOK'
  BY <1>5 DEF IdsOK, GroupsOK, SettingOK
<1> QED BY <1>3, <1>4, <1>6 DEF UsersInductive

\* The end of the server.
LEMMA EndKept ==
    ASSUME UsersInductive, EndUserMap
    PROVE  UsersInductive'
<1>1. /\ launcher' = NoLauncher /\ ids' = NoProcess /\ cred' = NoProcess /\ setting' = NotSetting
      /\ UNCHANGED <<present, etc>>
  BY DEF EndUserMap
<1>2. UsersTypeOK' /\ MapsOK'
  BY <1>1 DEF UsersInductive, UsersTypeOK, MapsOK, NoProcessYet
<1>3. EtcOK'
  BY <1>1 DEF UsersInductive, EtcOK, EntriesOK
<1>4. ids' = NoProcess /\ ids'.groups = {} /\ setting'.of = "nothing"
  BY <1>1 DEF NoProcess, NotSetting
<1>5. IdsOK' /\ GroupsOK' /\ SettingOK'
  BY <1>4 DEF IdsOK, GroupsOK, SettingOK
<1> QED BY <1>2, <1>3, <1>5 DEF UsersInductive

\* Calls leave the maps and the files alone.
LEMMA MapsKept ==
    ASSUME UsersInductive, UNCHANGED <<launcher, loaded, idMap, reverseMap, etc>>
    PROVE  MapsOK' /\ EtcOK'
BY DEF UsersInductive, MapsOK, EtcOK, EntriesOK, EntriesWritten

\* A process: while there is none, no call is under way, and while there is one,
\* the server runs.
LEMMA ProcessKinds ==
    ASSUME UsersInductive
    PROVE  /\ ids = NoProcess => NoProcessYet
           /\ ids # NoProcess =>
                /\ launcher # NoLauncher /\ ids \in ProcessIds /\ cred \in ProcessIds
                /\ setting \in {NotSetting} \cup SettingIds \cup SettingGroups
           /\ setting # NotSetting => ids # NoProcess
           /\ setting = NotSetting <=> setting.of = "nothing"
           /\ setting.of = "ids" => setting \in SettingIds
           /\ setting.of = "groups" => setting \in SettingGroups
<1>1. UsersTypeOK
  BY DEF UsersInductive
<1>2. ASSUME NEW p \in ProcessIds PROVE p # NoProcess
  <2>1. DOMAIN p.uid = Which /\ DOMAIN NoProcess.uid = {}
    BY DEF ProcessIds, NoProcess
  <2> QED BY <2>1 DEF Which
<1>3. ids = NoProcess => NoProcessYet
  BY <1>1, <1>2 DEF UsersTypeOK
<1>4. ids # NoProcess =>
        /\ launcher # NoLauncher /\ ids \in ProcessIds /\ cred \in ProcessIds
        /\ setting \in {NotSetting} \cup SettingIds \cup SettingGroups
  BY <1>1 DEF UsersTypeOK, NoProcessYet
<1>5. setting \in {NotSetting} \cup SettingIds \cup SettingGroups
  BY <1>1 DEF UsersTypeOK, NoProcessYet
<1>6. /\ NotSetting.of = "nothing"
      /\ \A s \in SettingIds : s.of = "ids"
      /\ \A s \in SettingGroups : s.of = "groups"
  BY DEF NotSetting, SettingIds, SettingGroups
<1>7. setting # NotSetting => ids # NoProcess
  BY <1>3 DEF NoProcessYet
<1>8. /\ setting = NotSetting <=> setting.of = "nothing"
      /\ setting.of = "ids" => setting \in SettingIds
      /\ setting.of = "groups" => setting \in SettingGroups
  BY <1>5, <1>6
<1> QED BY <1>3, <1>4, <1>7, <1>8

\* The two tables of ids of a process.
LEMMA IdsOfKind ==
    ASSUME NEW p \in ProcessIds, NEW sort \in IdKind
    PROVE  p[sort] \in [Which -> Int]
BY DEF ProcessIds, IdKind

\* What a call has to show when it leaves the maps alone.
LEMMA CallKept ==
    ASSUME UsersInductive, UNCHANGED <<present, launcher, loaded, idMap, reverseMap, etc>>, launcher # NoLauncher,
           ids' \in ProcessIds, cred' \in ProcessIds, setting' \in {NotSetting} \cup SettingIds \cup SettingGroups,
           \A sort \in IdKind, w \in Which :
               HostAhead(sort, w)' \/ IdAgrees(sort, ids'[sort][w], cred'[sort][w]),
           GroupsOK', SettingOK'
    PROVE  UsersInductive'
<1>1. MapsOK' /\ EtcOK'
  BY MapsKept
<1>2. UsersTypeOK'
  BY DEF UsersInductive, UsersTypeOK
<1>3. IdsOK'
  BY DEF IdsOK, IdAgrees
<1> QED BY <1>1, <1>2, <1>3 DEF UsersInductive

\* A process connects.
LEMMA ConnectKept ==
    ASSUME UsersInductive, NEW u \in HostUser, ConnectProcess(u)
    PROVE  UsersInductive'
<1> DEFINE h == HostId[u]
           is == [real |-> h, effective |-> h]
           starts == [uid |-> is, gid |-> is, groups |-> {h}]
<1>1. /\ launcher # NoLauncher /\ ids = NoProcess /\ cred' = starts
      /\ ids' = [uid |-> ConnectedIds(starts, "uid"), gid |-> ConnectedIds(starts, "gid"),
                 groups |-> RegisteredGroups(starts)]
      /\ UNCHANGED <<present, launcher, loaded, idMap, reverseMap, etc, setting>>
  BY DEF ConnectProcess
<1>2. setting' = NotSetting
  BY <1>1, ProcessKinds DEF NoProcessYet
<1>3. h \in Nat
  BY UsersAssumption
<1>4. MapsOK
  BY DEF UsersInductive
<1>5. \A sort \in IdKind : GetId(sort, h) \in Int /\ IdAgrees(sort, GetId(sort, h), h)
  BY <1>1, <1>3, <1>4, IdsTranslated
<1>6. is \in [Which -> Int] /\ DOMAIN is = Which /\ \A w \in Which : is[w] = h
  BY <1>3 DEF Which
<1>7. ASSUME NEW sort \in {"uid", "gid"}
      PROVE  /\ ConnectedIds(starts, sort) \in [Which -> Int]
             /\ \A w \in Which : ConnectedIds(starts, sort)[w] = GetId(sort, h)
  <2>1. starts[sort] = is
    OBVIOUS
  <2>2. ConnectedIds(starts, sort) = [w \in Which |-> GetId(sort, is[w])]
    BY <1>6, <2>1 DEF ConnectedIds
  <2> QED BY <1>5, <1>6, <2>2 DEF IdKind
<1>8. RegisteredGroups(starts) = {GetId("gid", h)}
  BY DEF RegisteredGroups
<1>9. cred' \in ProcessIds /\ ids' \in ProcessIds
  <2>1. cred' \in ProcessIds
    BY <1>1, <1>3, <1>6 DEF ProcessIds
  <2>2. ids' \in ProcessIds
    BY <1>1, <1>5, <1>7, <1>8 DEF ProcessIds, IdKind
  <2> QED BY <2>1, <2>2
<1> HIDE DEF is, h
<1>10. ASSUME NEW sort \in IdKind, NEW w \in Which PROVE IdAgrees(sort, ids'[sort][w], cred'[sort][w])
  <2>1. ids'[sort][w] = GetId(sort, h) /\ cred'[sort][w] = h
    <3>1. CASE sort = "uid"
      BY <1>1, <1>6, <1>7, <3>1
    <3>2. CASE sort = "gid"
      BY <1>1, <1>6, <1>7, <3>2
    <3> QED BY <3>1, <3>2 DEF IdKind
  <2> QED BY <1>5, <2>1
<1>11. GroupsOK'
  <2>1. ids'.groups = {GetId("gid", h)} /\ cred'.groups = {h}
    BY <1>1, <1>8
  <2>2. IdAgrees("gid", GetId("gid", h), h)
    BY <1>5 DEF IdKind
  <2> QED BY <1>1, <2>1, <2>2 DEF GroupsOK, IdAgrees
<1>12. SettingOK'
  BY <1>2 DEF SettingOK, NotSetting
<1> QED BY <1>1, <1>2, <1>9, <1>10, <1>11, <1>12, CallKept

\* exec registers the groups anew.
LEMMA ExecKept ==
    ASSUME UsersInductive, ExecProcess
    PROVE  UsersInductive'
<1>1. /\ ids # NoProcess /\ setting = NotSetting /\ ids' = [ids EXCEPT !.groups = RegisteredGroups(cred)]
      /\ UNCHANGED <<present, launcher, loaded, idMap, reverseMap, etc, cred, setting>>
  BY DEF ExecProcess
<1>2. launcher # NoLauncher /\ ids \in ProcessIds /\ cred \in ProcessIds
  BY <1>1, ProcessKinds
<1>3. \A h \in Int : GetId("gid", h) \in Int /\ IdAgrees("gid", GetId("gid", h), h)
  BY <1>2, IdsTranslated DEF UsersInductive, IdKind
<1>4. cred.groups \subseteq Int
  BY <1>2 DEF ProcessIds
<1>5. RegisteredGroups(cred) \subseteq Int
  BY <1>3, <1>4 DEF RegisteredGroups
<1>6. ids' \in ProcessIds /\ ids'.groups = RegisteredGroups(cred) /\ ids'.uid = ids.uid /\ ids'.gid = ids.gid
  BY <1>1, <1>2, <1>5 DEF ProcessIds
<1>7. ASSUME NEW sort \in IdKind, NEW w \in Which
      PROVE  HostAhead(sort, w)' \/ IdAgrees(sort, ids'[sort][w], cred'[sort][w])
  <2>1. ids'[sort] = ids[sort]
    BY <1>1, <1>2, <1>6 DEF IdKind, ProcessIds
  <2>2. ~HostAhead(sort, w)
    BY <1>1 DEF HostAhead, NotSetting
  <2> QED BY <1>1, <2>1, <2>2 DEF UsersInductive, IdsOK
<1>8. GroupsOK'
  <2> SUFFICES ASSUME cred.groups \subseteq DOMAIN idMap["gid"], NEW g \in RegisteredGroups(cred), g >= kMinHostId,
                      g \in DOMAIN reverseMap["gid"]
               PROVE  reverseMap["gid"][g] \in cred.groups
    BY <1>1, <1>6 DEF GroupsOK
  <2>1. PICK h \in cred.groups : g = GetId("gid", h)
    BY DEF RegisteredGroups
  <2> QED BY <1>3, <1>4, <2>1 DEF IdAgrees
<1>9. SettingOK'
  BY <1>1 DEF SettingOK, NotSetting
<1> QED BY <1>1, <1>2, <1>6, <1>7, <1>8, <1>9, CallKept

\* What a call wants, and what the host has to set for it.
LEMMA WantKinds ==
    ASSUME NEW real \in GuestId \cup {NoId}, NEW effective \in GuestId \cup {NoId}, NEW all \in BOOLEAN
    PROVE  Both(real, effective, all) \in [Which -> Int]
<1>1. real \in Int /\ effective \in Int
  <2>1. GuestId \subseteq Nat
    BY UsersAssumption, Zenon
  <2> QED BY <2>1 DEF NoId
<1> QED BY <1>1 DEF Both, Which

LEMMA HostsKinds ==
    ASSUME MapsOK, launcher # NoLauncher, NEW sort \in IdKind, NEW want \in [Which -> Int]
    PROVE  /\ HostIds(sort, want) \in [Which -> Int]
           /\ \A w \in Which : /\ HostIds(sort, want)[w] # NoId =>
                                    want[w] # NoId /\ reverseMap[sort][want[w]] = HostIds(sort, want)[w]
                               /\ want[w] >= kMinHostId /\ want[w] \in DOMAIN reverseMap[sort] =>
                                    HostIds(sort, want)[w] # NoId
<1>1. HostIds(sort, want) = [w \in Which |-> IF want[w] >= kMinHostId THEN GetHostId(sort, want[w]) ELSE NoId]
  BY DEF HostIds
<1>2. /\ \A i \in Int : GetHostId(sort, i) \in Int
      /\ \A i : i \in DOMAIN reverseMap[sort] <=> GetHostId(sort, i) # NoId
      /\ \A i \in DOMAIN reverseMap[sort] : GetHostId(sort, i) = reverseMap[sort][i]
  BY IdsTranslated
<1>3. NoId \in Int /\ ~(NoId >= kMinHostId)
  BY DEF NoId, kMinHostId
<1>4. HostIds(sort, want) \in [Which -> Int]
  BY <1>1, <1>2, <1>3
<1>5. ASSUME NEW w \in Which
      PROVE  /\ HostIds(sort, want)[w] # NoId => want[w] # NoId /\ reverseMap[sort][want[w]] = HostIds(sort, want)[w]
             /\ want[w] >= kMinHostId /\ want[w] \in DOMAIN reverseMap[sort] => HostIds(sort, want)[w] # NoId
  BY <1>1, <1>2, <1>3
<1> QED BY <1>4, <1>5

LEMMA ChangedKinds ==
    ASSUME NEW old \in [Which -> Int], NEW want \in [Which -> Int]
    PROVE  /\ Changed(old, want) \in [Which -> Int]
           /\ \A w \in Which : Changed(old, want)[w] = IF want[w] = NoId THEN old[w] ELSE want[w]
BY DEF Changed

\* A process sets ids: at the server alone, or the host has to set them first.
LEMMA AskKept ==
    ASSUME UsersInductive, NEW sort \in IdKind, NEW real \in GuestId \cup {NoId}, NEW effective \in GuestId \cup {NoId},
           NEW all \in BOOLEAN, AskSetIds(sort, real, effective, all)
    PROVE  UsersInductive'
<1> DEFINE want == Both(real, effective, all)
<1>0. want \in [Which -> Int]
  BY WantKinds
<1> HIDE DEF want
<1> SUFFICES ASSUME NEW hosts, hosts = HostIds(sort, want) PROVE UsersInductive'
  OBVIOUS
<1>1. /\ ids # NoProcess /\ setting = NotSetting
      /\ IF \A w \in DOMAIN hosts : hosts[w] = NoId
         THEN ids' = [ids EXCEPT ![sort] = Changed(@, want)] /\ UNCHANGED setting
         ELSE /\ setting' = [of |-> "ids", kind |-> sort, want |-> want, hosts |-> hosts, done |-> FALSE]
              /\ UNCHANGED ids
      /\ UNCHANGED <<present, launcher, loaded, idMap, reverseMap, etc, cred>>
  BY DEF AskSetIds, want
<1>2. launcher # NoLauncher /\ ids \in ProcessIds /\ cred \in ProcessIds /\ MapsOK
  BY <1>1, ProcessKinds DEF UsersInductive
<1>3. hosts \in [Which -> Int]
      /\ \A w \in Which : want[w] >= kMinHostId /\ want[w] \in DOMAIN reverseMap[sort] => hosts[w] # NoId
  BY <1>0, <1>2, HostsKinds
<1>4. \A k \in IdKind, w \in Which : IdAgrees(k, ids[k][w], cred[k][w])
  BY <1>1 DEF UsersInductive, IdsOK, HostAhead, NotSetting
<1>5. CASE \A w \in DOMAIN hosts : hosts[w] = NoId
  <2> SUFFICES ASSUME NEW v, v = Changed(ids[sort], want) PROVE UsersInductive'
    OBVIOUS
  <2>1. ids[sort] \in [Which -> Int]
    BY <1>2, IdsOfKind
  <2>2. v \in [Which -> Int] /\ \A w \in Which : v[w] = IF want[w] = NoId THEN ids[sort][w] ELSE want[w]
    BY <1>0, <2>1, ChangedKinds
  <2>3. ids' = [ids EXCEPT ![sort] = v] /\ setting' = setting
    <3>1. [ids EXCEPT ![sort] = Changed(@, want)] = [ids EXCEPT ![sort] = v]
      OBVIOUS
    <3> QED BY <1>1, <1>5, <3>1
  <2>4. /\ ids' \in ProcessIds /\ ids'.groups = ids.groups /\ ids'[sort] = v
        /\ \A k \in IdKind \ {sort} : ids'[k] = ids[k]
    <3>1. CASE sort = "uid"
      BY <1>2, <2>2, <2>3, <3>1 DEF ProcessIds, IdKind
    <3>2. CASE sort = "gid"
      BY <1>2, <2>2, <2>3, <3>2 DEF ProcessIds, IdKind
    <3> QED BY <1>2, <3>1, <3>2 DEF IdKind
  <2>5. ASSUME NEW k \in IdKind, NEW w \in Which PROVE IdAgrees(k, ids'[k][w], cred'[k][w])
    <3>1. CASE k # sort
      BY <1>1, <1>4, <2>4, <3>1
    <3>2. CASE k = sort /\ want[w] = NoId
      BY <1>1, <1>4, <2>2, <2>4, <3>2
    <3>3. CASE k = sort /\ want[w] # NoId
      <4>1. ids'[k][w] = want[w] /\ hosts[w] = NoId
        BY <1>3, <1>5, <2>2, <2>4, <3>3
      <4>2. ~(want[w] >= kMinHostId /\ want[w] \in DOMAIN reverseMap[k])
        BY <1>3, <3>3, <4>1
      <4> QED BY <4>1, <4>2 DEF IdAgrees
    <3> QED BY <3>1, <3>2, <3>3
  <2>6. GroupsOK'
    BY <1>1, <2>4 DEF UsersInductive, GroupsOK
  <2>7. SettingOK'
    BY <1>1, <2>3 DEF SettingOK, NotSetting
  <2>8. setting' = NotSetting
    BY <1>1, <2>3
  <2> QED BY <1>1, <1>2, <2>4, <2>5, <2>6, <2>7, <2>8, CallKept
<1>6. CASE ~(\A w \in DOMAIN hosts : hosts[w] = NoId)
  <2> DEFINE s == [of |-> "ids", kind |-> sort, want |-> want, hosts |-> hosts, done |-> FALSE]
  <2>1. setting' = s /\ ids' = ids
    BY <1>1, <1>6
  <2>2. /\ s \in SettingIds /\ s.of = "ids" /\ s.kind = sort /\ s.want = want /\ s.hosts = hosts /\ s.done = FALSE
    BY <1>0, <1>3 DEF SettingIds
  <2> HIDE DEF s
  <2>3. GroupsOK'
    BY <1>1, <2>1 DEF UsersInductive, GroupsOK
  <2>4. SettingOK'
    BY <1>1, <2>1, <2>2 DEF SettingOK, HostIds, GetHostId
  <2>5. \A k \in IdKind, w \in Which : IdAgrees(k, ids'[k][w], cred'[k][w])
    BY <1>1, <1>4, <2>1
  <2> QED BY <1>1, <1>2, <2>1, <2>2, <2>3, <2>4, <2>5, CallKept
<1> QED BY <1>5, <1>6

\* The host sets the ids of a process, or refuses.
LEMMA HostSetKept ==
    ASSUME UsersInductive, NEW sort \in IdKind, NEW allowed \in BOOLEAN, HostSetIds(sort, allowed)
    PROVE  UsersInductive'
<1> SUFFICES ASSUME NEW s, s = setting PROVE UsersInductive'
  OBVIOUS
<1>1. /\ s.of = "ids" /\ s.kind = sort /\ ~s.done
      /\ IF allowed
         THEN cred' = [cred EXCEPT ![sort] = Changed(@, s.hosts)] /\ setting' = [s EXCEPT !.done = TRUE]
         ELSE setting' = NotSetting /\ UNCHANGED cred
      /\ UNCHANGED <<present, launcher, loaded, idMap, reverseMap, etc, ids>>
  BY DEF HostSetIds
<1>2. s \in SettingIds /\ ids # NoProcess
  BY <1>1, ProcessKinds DEF NotSetting
<1>3. launcher # NoLauncher /\ ids \in ProcessIds /\ cred \in ProcessIds /\ MapsOK
  BY <1>2, ProcessKinds DEF UsersInductive
<1>4. s.hosts = HostIds(sort, s.want) /\ s.want \in [Which -> Int] /\ s.hosts \in [Which -> Int]
  BY <1>1, <1>2 DEF UsersInductive, SettingOK, SettingIds
<1>5. \A k \in IdKind, w \in Which : IdAgrees(k, ids[k][w], cred[k][w])
  BY <1>1, <1>2 DEF UsersInductive, IdsOK, HostAhead
<1>6. CASE ~allowed
  <2>1. setting' = NotSetting /\ cred' = cred
    BY <1>1, <1>6
  <2>2. GroupsOK'
    BY <1>1, <2>1 DEF UsersInductive, GroupsOK
  <2>3. SettingOK'
    BY <2>1 DEF SettingOK, NotSetting
  <2>4. \A k \in IdKind, w \in Which : IdAgrees(k, ids'[k][w], cred'[k][w])
    BY <1>1, <1>5, <2>1
  <2> QED BY <1>1, <1>3, <2>1, <2>2, <2>3, <2>4, CallKept
<1>7. CASE allowed
  <2> SUFFICES ASSUME NEW v, v = Changed(cred[sort], s.hosts) PROVE UsersInductive'
    OBVIOUS
  <2> DEFINE d == [s EXCEPT !.done = TRUE]
  <2>1. cred[sort] \in [Which -> Int]
    BY <1>3, IdsOfKind
  <2>2. v \in [Which -> Int] /\ \A w \in Which : v[w] = IF s.hosts[w] = NoId THEN cred[sort][w] ELSE s.hosts[w]
    BY <1>4, <2>1, ChangedKinds
  <2>3. cred' = [cred EXCEPT ![sort] = v] /\ setting' = d
    <3>1. [cred EXCEPT ![sort] = Changed(@, s.hosts)] = [cred EXCEPT ![sort] = v]
      OBVIOUS
    <3> QED BY <1>1, <1>7, <3>1
  <2>4. /\ cred' \in ProcessIds /\ cred'.groups = cred.groups /\ cred'[sort] = v
        /\ \A k \in IdKind \ {sort} : cred'[k] = cred[k]
    <3>1. CASE sort = "uid"
      BY <1>3, <2>2, <2>3, <3>1 DEF ProcessIds, IdKind
    <3>2. CASE sort = "gid"
      BY <1>3, <2>2, <2>3, <3>2 DEF ProcessIds, IdKind
    <3> QED BY <1>3, <3>1, <3>2 DEF IdKind
  <2>5. d \in SettingIds /\ d.of = "ids" /\ d.kind = sort /\ d.want = s.want /\ d.hosts = s.hosts /\ d.done = TRUE
    BY <1>1, <1>2 DEF SettingIds
  <2> HIDE DEF d
  <2>6. ASSUME NEW k \in IdKind, NEW w \in Which
        PROVE  HostAhead(k, w)' \/ IdAgrees(k, ids'[k][w], cred'[k][w])
    <3>1. CASE k # sort
      BY <1>1, <1>5, <2>4, <3>1
    <3>2. CASE k = sort /\ s.want[w] # NoId
      BY <2>3, <2>5, <3>2 DEF HostAhead
    <3>3. CASE k = sort /\ s.want[w] = NoId
      <4>1. s.hosts[w] = NoId
        BY <1>3, <1>4, <3>3, HostsKinds
      <4>2. cred'[k][w] = cred[k][w]
        BY <2>2, <2>4, <3>3, <4>1
      <4> QED BY <1>1, <1>5, <4>2
    <3> QED BY <3>1, <3>2, <3>3
  <2>7. GroupsOK'
    BY <1>1, <2>4 DEF UsersInductive, GroupsOK
  <2>8. SettingOK'
    <3>1. HostIds(sort, s.want)' = HostIds(sort, s.want)
      BY <1>1 DEF HostIds, GetHostId
    <3>2. \A w \in Which : s.hosts[w] # NoId => cred'[sort][w] = s.hosts[w]
      BY <2>2, <2>4
    <3>3. setting'.of = "ids" /\ setting'.kind = sort /\ setting'.want = s.want /\ setting'.hosts = s.hosts
      BY <2>3, <2>5
    <3> QED BY <1>4, <3>1, <3>2, <3>3 DEF SettingOK
  <2> QED BY <1>1, <1>3, <2>3, <2>4, <2>5, <2>6, <2>7, <2>8, CallKept
<1> QED BY <1>6, <1>7

\* The server takes over what the host has set.
LEMMA RetryKept ==
    ASSUME UsersInductive, RetrySetIds
    PROVE  UsersInductive'
<1> SUFFICES ASSUME NEW s, s = setting, NEW sort, sort = s.kind PROVE UsersInductive'
  OBVIOUS
<1>1. /\ s.of = "ids" /\ s.done /\ ids' = [ids EXCEPT ![sort] = Changed(@, s.want)] /\ setting' = NotSetting
      /\ UNCHANGED <<present, launcher, loaded, idMap, reverseMap, etc, cred>>
  BY DEF RetrySetIds
<1>2. s \in SettingIds /\ ids # NoProcess
  BY <1>1, ProcessKinds DEF NotSetting
<1>3. launcher # NoLauncher /\ ids \in ProcessIds /\ cred \in ProcessIds /\ MapsOK
  BY <1>2, ProcessKinds DEF UsersInductive
<1>4. /\ s.hosts = HostIds(sort, s.want) /\ s.want \in [Which -> Int] /\ s.hosts \in [Which -> Int] /\ sort \in IdKind
      /\ \A w \in Which : s.hosts[w] # NoId => cred[sort][w] = s.hosts[w]
  BY <1>1, <1>2 DEF UsersInductive, SettingOK, SettingIds
<1> SUFFICES ASSUME NEW v, v = Changed(ids[sort], s.want) PROVE UsersInductive'
  OBVIOUS
<1>5. ids[sort] \in [Which -> Int]
  BY <1>3, <1>4, IdsOfKind
<1>6. v \in [Which -> Int] /\ \A w \in Which : v[w] = IF s.want[w] = NoId THEN ids[sort][w] ELSE s.want[w]
  BY <1>4, <1>5, ChangedKinds
<1>7. ids' = [ids EXCEPT ![sort] = v]
  <2>1. [ids EXCEPT ![sort] = Changed(@, s.want)] = [ids EXCEPT ![sort] = v]
    OBVIOUS
  <2> QED BY <1>1, <2>1
<1>8. /\ ids' \in ProcessIds /\ ids'.groups = ids.groups /\ ids'[sort] = v
      /\ \A k \in IdKind \ {sort} : ids'[k] = ids[k]
  <2>1. CASE sort = "uid"
    BY <1>3, <1>4, <1>6, <1>7, <2>1 DEF ProcessIds, IdKind
  <2>2. CASE sort = "gid"
    BY <1>3, <1>4, <1>6, <1>7, <2>2 DEF ProcessIds, IdKind
  <2> QED BY <1>3, <1>4, <2>1, <2>2 DEF IdKind
<1>9. ASSUME NEW k \in IdKind, NEW w \in Which PROVE IdAgrees(k, ids'[k][w], cred'[k][w])
  <2>1. CASE k # sort \/ s.want[w] = NoId
    <3>1. ~HostAhead(k, w)
      BY <2>1 DEF HostAhead
    <3>2. IdAgrees(k, ids[k][w], cred[k][w])
      BY <1>2, <3>1 DEF UsersInductive, IdsOK
    <3>3. ids'[k][w] = ids[k][w]
      BY <1>6, <1>8, <2>1
    <3> QED BY <1>1, <3>2, <3>3
  <2>2. CASE k = sort /\ s.want[w] # NoId
    <3>1. ids'[k][w] = s.want[w]
      BY <1>6, <1>8, <2>2
    <3>2. s.want[w] >= kMinHostId /\ s.want[w] \in DOMAIN reverseMap[k] => reverseMap[k][s.want[w]] = cred[k][w]
      BY <1>3, <1>4, <2>2, HostsKinds
    <3> QED BY <1>1, <3>1, <3>2 DEF IdAgrees
  <2> QED BY <2>1, <2>2
<1>10. GroupsOK'
  BY <1>1, <1>8 DEF UsersInductive, GroupsOK
<1>11. SettingOK'
  BY <1>1 DEF SettingOK, NotSetting
<1> QED BY <1>1, <1>3, <1>8, <1>9, <1>10, <1>11, CallKept

\* A process sets its groups: what the host has to set, if one is new.
LEMMA AskGroupsKept ==
    ASSUME UsersInductive, NEW groups \in SUBSET GuestId, AskSetgroups(groups)
    PROVE  UsersInductive'
<1> DEFINE mapped == {g \in groups : g >= kMinHostId}
<1> SUFFICES ASSUME NEW hosts, hosts = IF mapped \subseteq ids.groups THEN {} ELSE {GetHostId("gid", g) : g \in mapped}
             PROVE  UsersInductive'
  OBVIOUS
<1> DEFINE s == [of |-> "groups", want |-> groups, hosts |-> hosts]
<1>1. /\ ids # NoProcess /\ setting = NotSetting /\ setting' = s
      /\ UNCHANGED <<present, launcher, loaded, idMap, reverseMap, etc, ids, cred>>
  BY DEF AskSetgroups
<1>2. launcher # NoLauncher /\ ids \in ProcessIds /\ cred \in ProcessIds
  BY <1>1, ProcessKinds
<1>3. \A i \in Int : GetHostId("gid", i) \in Int
  BY <1>2, IdsTranslated DEF UsersInductive, IdKind
<1>4. groups \subseteq Int
  <2>1. GuestId \subseteq Nat
    BY UsersAssumption, Zenon
  <2> QED BY <2>1
<1>5. hosts \subseteq Int
  BY <1>3, <1>4
<1>6. s \in SettingGroups /\ s.of = "groups" /\ s.want = groups /\ s.hosts = hosts
  BY <1>4, <1>5 DEF SettingGroups
<1> HIDE DEF s
<1>7. \A k \in IdKind, w \in Which : IdAgrees(k, ids'[k][w], cred'[k][w])
  BY <1>1 DEF UsersInductive, IdsOK, HostAhead, NotSetting
<1>8. GroupsOK'
  BY <1>1 DEF UsersInductive, GroupsOK
<1>9. SettingOK'
  <2>1. setting'.of = "groups" /\ setting'.want = groups /\ setting'.hosts = hosts
    BY <1>1, <1>6
  <2>2. \/ hosts = {} /\ mapped \subseteq ids.groups
        \/ hosts = {GetHostId("gid", g) : g \in mapped}
    OBVIOUS
  <2> QED BY <1>1, <2>1, <2>2 DEF SettingOK, GetHostId
<1> QED BY <1>1, <1>2, <1>6, <1>7, <1>8, <1>9, CallKept

\* The host sets the groups, or refuses, and the server takes them over.
LEMMA GroupsKept ==
    ASSUME UsersInductive, NEW allowed \in BOOLEAN, MoniSetgroups(allowed)
    PROVE  UsersInductive'
<1> SUFFICES ASSUME NEW s, s = setting PROVE UsersInductive'
  OBVIOUS
<1>1. /\ s.of = "groups" /\ setting' = NotSetting
      /\ IF s.hosts # {} /\ (~allowed \/ NoId \in s.hosts)
         THEN UNCHANGED <<ids, cred>>
         ELSE /\ ids' = [ids EXCEPT !.groups = s.want]
              /\ cred' = IF s.hosts = {} THEN cred ELSE [cred EXCEPT !.groups = s.hosts]
      /\ UNCHANGED <<present, launcher, loaded, idMap, reverseMap, etc>>
  BY DEF MoniSetgroups
<1>2. s \in SettingGroups /\ ids # NoProcess
  BY <1>1, ProcessKinds DEF NotSetting
<1>3. launcher # NoLauncher /\ ids \in ProcessIds /\ cred \in ProcessIds
  BY <1>2, ProcessKinds
<1>4. s.want \subseteq Int /\ s.hosts \subseteq Int
  BY <1>2 DEF SettingGroups
<1>5. \A k \in IdKind, w \in Which : IdAgrees(k, ids[k][w], cred[k][w])
  BY <1>1, <1>2 DEF UsersInductive, IdsOK, HostAhead
<1>6. SettingOK'
  BY <1>1 DEF SettingOK, NotSetting
<1>7. CASE s.hosts # {} /\ (~allowed \/ NoId \in s.hosts)
  <2>1. ids' = ids /\ cred' = cred
    BY <1>1, <1>7
  <2>2. GroupsOK'
    BY <1>1, <2>1 DEF UsersInductive, GroupsOK
  <2>3. \A k \in IdKind, w \in Which : IdAgrees(k, ids'[k][w], cred'[k][w])
    BY <1>5, <2>1
  <2> QED BY <1>1, <1>3, <1>6, <2>1, <2>2, <2>3, CallKept
<1>8. CASE ~(s.hosts # {} /\ (~allowed \/ NoId \in s.hosts))
  <2>1. ids' = [ids EXCEPT !.groups = s.want] /\ cred' = IF s.hosts = {} THEN cred ELSE [cred EXCEPT !.groups = s.hosts]
    BY <1>1, <1>8
  <2>2. ids' \in ProcessIds /\ ids'.groups = s.want /\ ids'.uid = ids.uid /\ ids'.gid = ids.gid
    BY <1>3, <1>4, <2>1 DEF ProcessIds
  <2>3. /\ cred' \in ProcessIds /\ cred'.uid = cred.uid /\ cred'.gid = cred.gid
        /\ cred'.groups = IF s.hosts = {} THEN cred.groups ELSE s.hosts
    BY <1>3, <1>4, <2>1 DEF ProcessIds
  <2>4. ASSUME NEW k \in IdKind, NEW w \in Which PROVE IdAgrees(k, ids'[k][w], cred'[k][w])
    <3>1. ids'[k] = ids[k] /\ cred'[k] = cred[k]
      BY <1>3, <2>2, <2>3 DEF IdKind, ProcessIds
    <3> QED BY <1>5, <3>1
  <2>5. GroupsOK'
    <3> SUFFICES ASSUME cred'.groups \subseteq DOMAIN idMap["gid"], NEW g \in s.want, g >= kMinHostId,
                        g \in DOMAIN reverseMap["gid"]
                 PROVE  reverseMap["gid"][g] \in cred'.groups
      BY <1>1, <2>2 DEF GroupsOK
    <3> DEFINE mapped == {x \in s.want : x >= kMinHostId}
    <3>1. g \in mapped
      OBVIOUS
    <3>2. \/ s.hosts = {} /\ mapped \subseteq ids.groups
          \/ s.hosts = {GetHostId("gid", x) : x \in mapped}
      BY <1>1 DEF UsersInductive, SettingOK
    <3>3. CASE s.hosts = {}
      <4>1. g \in ids.groups
        BY <3>1, <3>2, <3>3
      <4>2. cred'.groups = cred.groups
        BY <2>3, <3>3
      <4> QED BY <4>1, <4>2 DEF UsersInductive, GroupsOK
    <3>4. CASE s.hosts # {}
      <4>1. GetHostId("gid", g) \in s.hosts
        BY <3>1, <3>2, <3>4
      <4>2. GetHostId("gid", g) = reverseMap["gid"][g]
        BY DEF GetHostId
      <4> QED BY <2>3, <3>4, <4>1, <4>2
    <3> QED BY <3>3, <3>4
  <2> QED BY <1>1, <1>3, <1>6, <2>2, <2>3, <2>4, <2>5, CallKept
<1> QED BY <1>7, <1>8

\* UsersAgree, for any users of the host, their numbers and what guests ask for:
\* the maps are inverse, the guest's files name whom the maps number, over all
\* starts of the server, and an id of the map that a process has at the server it
\* has at the host.  (server_setup_usermap, setreuid, setregid, setgroups)
THEOREM UsersKept == UsersSpec => []UsersAgree
<1>1. UsersInit => UsersInductive
  <2> SUFFICES ASSUME UsersInit PROVE UsersInductive
    OBVIOUS
  <2>1. /\ present = HostUser /\ launcher = NoLauncher /\ ids = NoProcess /\ cred = NoProcess /\ setting = NotSetting
        /\ \A sort \in IdKind : etc[sort] = OwnUser
    BY DEF UsersInit
  <2>2. UsersTypeOK /\ MapsOK
    BY <2>1 DEF UsersTypeOK, MapsOK, NoProcessYet
  <2>3. ASSUME NEW sort \in IdKind PROVE EntriesOK(sort)
    <3>1. \A e \in OwnUser : e = [name |-> e.name, id |-> e.id]
      BY UsersAssumption, Zenon
    <3>2. \A e \in OwnUser : e.id \in Nat /\ e.id < kMinHostId
      <4>1. \A e \in OwnUser : e.id \in 0 .. kMinHostId - 1
        BY UsersAssumption, Zenon
      <4>2. kMinHostId \in Nat
        BY DEF kMinHostId
      <4>3. \A i \in 0 .. kMinHostId - 1 : i \in Nat /\ i < kMinHostId
        BY <4>2
      <4> QED BY <4>1, <4>3, Zenon
    <3>3. \A e \in etc[sort] : e = [name |-> e.name, id |-> e.id] /\ e.id \in Nat
      BY <2>1, <3>1, <3>2, Zenon
    <3>4. {e \in etc[sort] : e.id < kMinHostId /\ e.id # 0} = {e \in OwnUser : e.id # 0}
      BY <2>1, <3>2
    <3> QED BY <3>3, <3>4 DEF EntriesOK
  <2>4. EtcOK
    BY <2>1, <2>3 DEF EtcOK
  <2>5. ids = NoProcess /\ ids.groups = {} /\ setting.of = "nothing"
    BY <2>1 DEF NoProcess, NotSetting
  <2>6. IdsOK /\ GroupsOK /\ SettingOK
    BY <2>5 DEF IdsOK, GroupsOK, SettingOK
  <2> QED BY <2>2, <2>4, <2>6 DEF UsersInductive
<1>2. UsersInductive /\ [UsersStep]_userVars => UsersInductive'
  <2> SUFFICES ASSUME UsersInductive, [UsersStep]_userVars PROVE UsersInductive'
    OBVIOUS
  <2>1. ASSUME UNCHANGED <<launcher, loaded, idMap, reverseMap, etc, ids, cred, setting>>, present' \subseteq HostUser
        PROVE  UsersInductive'
    <3>1. MapsOK' /\ EtcOK'
      BY <2>1, MapsKept
    <3>2. UsersTypeOK'
      BY <2>1 DEF UsersInductive, UsersTypeOK, NoProcessYet
    <3>3. IdsOK'
      BY <2>1 DEF UsersInductive, IdsOK, IdAgrees, HostAhead
    <3>4. GroupsOK'
      BY <2>1 DEF UsersInductive, GroupsOK
    <3>5. SettingOK'
      BY <2>1 DEF UsersInductive, SettingOK, HostIds, GetHostId
    <3> QED BY <3>1, <3>2, <3>3, <3>4, <3>5 DEF UsersInductive
  <2>2. CASE UNCHANGED userVars
    BY <2>1, <2>2 DEF userVars, UsersInductive, UsersTypeOK
  <2>3. ASSUME NEW u \in HostUser, HostUserChanges(u) PROVE UsersInductive'
    BY <2>1, <2>3 DEF HostUserChanges, UsersInductive, UsersTypeOK
  <2>4. ASSUME NEW u \in HostUser, SetupUserMap(u) \/ ConnectProcess(u) PROVE UsersInductive'
    BY <2>4, StartKept, ConnectKept
  <2>5. CASE EndUserMap \/ ExecProcess \/ RetrySetIds
    BY <2>5, EndKept, ExecKept, RetryKept
  <2>6. ASSUME NEW real \in GuestId \cup {NoId}, NEW effective \in GuestId \cup {NoId}, NEW all \in BOOLEAN,
               Setreuid(real, effective, all) \/ Setregid(real, effective, all)
        PROVE  UsersInductive'
    BY <2>6, AskKept DEF Setreuid, Setregid, IdKind
  <2>7. ASSUME NEW groups \in SUBSET GuestId, AskSetgroups(groups) PROVE UsersInductive'
    BY <2>7, AskGroupsKept
  <2>8. ASSUME NEW allowed \in BOOLEAN, MoniSetreuid(allowed) \/ MoniSetregid(allowed) \/ MoniSetgroups(allowed)
        PROVE  UsersInductive'
    BY <2>8, HostSetKept, GroupsKept DEF MoniSetreuid, MoniSetregid, IdKind
  <2> QED BY <2>2, <2>3, <2>4, <2>5, <2>6, <2>7, <2>8 DEF UsersStep
<1>3. UsersInductive => UsersAgree
  <2> SUFFICES ASSUME UsersInductive, launcher # NoLauncher, NEW sort \in IdKind
               PROVE  LET map == idMap[sort]
                          back == reverseMap[sort]
                          Agrees(id, h) == id >= kMinHostId /\ id \in DOMAIN back /\ h \in DOMAIN map => back[id] = h
                      IN /\ \A h \in DOMAIN map : map[h] \in DOMAIN back /\ back[map[h]] = h
                         /\ {e \in etc[sort] : e.id >= kMinHostId} =
                              {[name |-> u, id |-> map[HostId[u]]] : u \in loaded \ {launcher}}
                         /\ {e \in etc[sort] : e.id < kMinHostId} =
                              {[name |-> launcher, id |-> 0]} \cup {e \in OwnUser : e.id # 0}
                         /\ setting = NotSetting => \A w \in DOMAIN ids[sort] : Agrees(ids[sort][w], cred[sort][w])
                         /\ setting = NotSetting /\ cred.groups \subseteq DOMAIN map =>
                              \A g \in ids.groups :
                                  g >= kMinHostId /\ sort = "gid" /\ g \in DOMAIN back => back[g] \in cred.groups
    BY DEF UsersAgree
  <2>1. \A h \in DOMAIN idMap[sort] : idMap[sort][h] \in DOMAIN reverseMap[sort] /\ reverseMap[sort][idMap[sort][h]] = h
    BY MapsInverse DEF UsersInductive
  <2>2. EntriesWritten(sort)
    BY DEF UsersInductive, EtcOK
  <2>3. ASSUME setting = NotSetting, NEW w \in DOMAIN ids[sort] PROVE IdAgrees(sort, ids[sort][w], cred[sort][w])
    <3>1. ids # NoProcess
      <4>1. NoProcess[sort] = <<>>
        BY DEF NoProcess, IdKind
      <4> QED BY <2>3, <4>1
    <3>2. w \in Which
      BY <2>3, <3>1, ProcessKinds, IdsOfKind
    <3>3. ~HostAhead(sort, w)
      BY <2>3 DEF HostAhead, NotSetting
    <3> QED BY <3>1, <3>2, <3>3 DEF UsersInductive, IdsOK
  <2>4. ASSUME cred.groups \subseteq DOMAIN idMap[sort], NEW g \in ids.groups, g >= kMinHostId, sort = "gid",
               g \in DOMAIN reverseMap[sort]
        PROVE  reverseMap[sort][g] \in cred.groups
    BY <2>4 DEF UsersInductive, GroupsOK
  <2> QED BY <2>1, <2>2, <2>3, <2>4 DEF EntriesWritten, IdAgrees
<1> QED BY <1>1, <1>2, <1>3, PTL DEF UsersSpec

-----------------------------------------------------------------------------
(* Areas: the references to shared files. *)

TableFields == {"areas", "owned", "next", "shared", "disk"}
AreaFields == {"team", "lo", "hi", "prot", "mapping", "file", "off"}
SharedFile == [refs : Nat \ {0}, writable : BOOLEAN, handle : BOOLEAN]

\* The areas whose file is f, and what the server believes their number to be.
FilesOf(ar, f) == {id \in DOMAIN ar : ar[id].file = f}
RefsOf(sh, f) == IF f \in DOMAIN sh THEN sh[f].refs ELSE 0

\* Ids in use are below the next one, and so are the files named after them.
AreasOK(ar, next) ==
    /\ next \in Nat \ {0}
    /\ DOMAIN ar \subseteq 1..(next - 1)
    /\ \A id \in DOMAIN ar : DOMAIN ar[id] = AreaFields /\ ar[id].file \in {NoFile} \cup 0..(next - 1)

\* A file that is used by its name is writable, so that no handle ever replaces it.
FilesOK(sh, disk, next) ==
    /\ DOMAIN sh \subseteq 0..(next - 1)
    /\ \A f \in DOMAIN sh : sh[f] \in SharedFile /\ (~sh[f].handle => sh[f].writable)
    /\ disk = {f \in DOMAIN sh : ~sh[f].handle}

RefsOK(ar, sh) == \A f \in Nat : Cardinality(FilesOf(ar, f)) = RefsOf(sh, f)

CoreOK(s) ==
    /\ DOMAIN s = TableFields
    /\ AreasOK(s.areas, s.next)
    /\ FilesOK(s.shared, s.disk, s.next)
    /\ RefsOK(s.areas, s.shared)

\* No area is of two processes.
OwnedOK(s) ==
    /\ s.owned \in [Process -> SUBSET DOMAIN s.areas]
    /\ \A p, q \in Process : p # q => s.owned[p] \cap s.owned[q] = {}

ServerOK(s) == CoreOK(s) /\ OwnedOK(s)

\* What was learnt of a file or a team for the second half of a call.
PlaceOK(c, next) ==
    /\ c.at = "clone" => c.file \in 0..(next - 1)
    /\ c.at = "transfer" => c.to \in Process
PlacesOK == DOMAIN pc = GuestThread /\ \A t \in GuestThread : PlaceOK(pc[t], srv.next)

RefsInductive == ServerOK(srv) /\ PlacesOK

LEMMA FilesFinite ==
    ASSUME NEW ar, NEW next, AreasOK(ar, next), NEW f
    PROVE  IsFiniteSet(FilesOf(ar, f)) /\ Cardinality(FilesOf(ar, f)) \in Nat
<1>1. next - 1 \in Int /\ FilesOf(ar, f) \subseteq 1..(next - 1)
  BY DEF AreasOK, FilesOf
<1>2. IsFiniteSet(1..(next - 1))
  BY <1>1, FS_Interval
<1>3. IsFiniteSet(FilesOf(ar, f))
  BY <1>1, <1>2, FS_Subset
<1> QED BY <1>3, FS_CardinalityType

\* A file that an area has is in use.
LEMMA FileInUse ==
    ASSUME NEW s, CoreOK(s), NEW id \in DOMAIN s.areas, IsShared(s.areas[id])
    PROVE  LET f == s.areas[id].file IN
           f \in DOMAIN s.shared /\ f \in Nat /\ s.shared[f].refs = Cardinality(FilesOf(s.areas, f))
<1> DEFINE f == s.areas[id].file
<1>1. f \in Nat
  BY DEF CoreOK, AreasOK, IsShared
<1>2. id \in FilesOf(s.areas, f)
  BY DEF FilesOf
<1>3. Cardinality(FilesOf(s.areas, f)) # 0
  <2>1. IsFiniteSet(FilesOf(s.areas, f))
    BY FilesFinite DEF CoreOK
  <2> QED BY <1>2, <2>1, FS_EmptySet
<1>4. Cardinality(FilesOf(s.areas, f)) = RefsOf(s.shared, f)
  BY <1>1 DEF CoreOK, RefsOK
<1> QED BY <1>1, <1>3, <1>4 DEF RefsOf

\* What an area more, less, or with another file does to the number of areas of each file.
AreaMore(new, ar, next, a) ==
    /\ AreasOK(new, next + 1)
    /\ DOMAIN new = DOMAIN ar \cup {next} /\ next \notin DOMAIN ar
    /\ new[next] = a /\ \A id \in DOMAIN ar : new[id] = ar[id]
    /\ \A f \in Nat : Cardinality(FilesOf(new, f)) =
          IF a.file = f THEN Cardinality(FilesOf(ar, f)) + 1 ELSE Cardinality(FilesOf(ar, f))
AreaLess(new, ar, next, id) ==
    /\ AreasOK(new, next)
    /\ DOMAIN new = DOMAIN ar \ {id} /\ \A x \in DOMAIN new : new[x] = ar[x]
    /\ \A f \in Nat : Cardinality(FilesOf(new, f)) =
          IF ar[id].file = f THEN Cardinality(FilesOf(ar, f)) - 1 ELSE Cardinality(FilesOf(ar, f))
AreaSame(new, ar, next) ==
    /\ AreasOK(new, next) /\ DOMAIN new = DOMAIN ar
    /\ \A f \in Nat : Cardinality(FilesOf(new, f)) = Cardinality(FilesOf(ar, f))
AreaGets(new, ar, next, g) ==
    /\ AreasOK(new, next) /\ DOMAIN new = DOMAIN ar
    /\ \A f \in Nat : Cardinality(FilesOf(new, f)) =
          IF g = f THEN Cardinality(FilesOf(ar, f)) + 1 ELSE Cardinality(FilesOf(ar, f))
FileMore(new, sh, disk, next, f) ==
    /\ FilesOK(new, disk, next) /\ DOMAIN new = DOMAIN sh \cup {f}
    /\ \A g : RefsOf(new, g) = IF g = f THEN RefsOf(sh, g) + 1 ELSE RefsOf(sh, g)

\* An area more.
LEMMA AreaAdded ==
    ASSUME NEW ar, NEW next, AreasOK(ar, next), NEW a, DOMAIN a = AreaFields,
           a.file \in {NoFile} \cup 0..(next - 1)
    PROVE  AreaMore(With(ar, next, a), ar, next, a)
<1> DEFINE new == With(ar, next, a)
<1>1. DOMAIN new = DOMAIN ar \cup {next} /\ next \notin DOMAIN ar /\ next \in Nat \ {0}
  BY DEF With, AreasOK
<1>2. new[next] = a /\ \A id \in DOMAIN ar : new[id] = ar[id]
  BY <1>1 DEF With
<1> HIDE DEF new
<1>3. AreasOK(new, next + 1)
  BY <1>1, <1>2 DEF AreasOK
<1>4. ASSUME NEW f \in Nat
      PROVE  Cardinality(FilesOf(new, f)) =
                 IF a.file = f THEN Cardinality(FilesOf(ar, f)) + 1 ELSE Cardinality(FilesOf(ar, f))
  <2>1. IsFiniteSet(FilesOf(ar, f)) /\ next \notin FilesOf(ar, f)
    BY <1>1, FilesFinite DEF FilesOf
  <2>2. CASE a.file = f
    <3>1. FilesOf(new, f) = FilesOf(ar, f) \cup {next}
      BY <2>2, <1>1, <1>2 DEF FilesOf
    <3> QED BY <2>1, <2>2, <3>1, FS_AddElement
  <2>3. CASE a.file # f
    <3>1. FilesOf(new, f) = FilesOf(ar, f)
      BY <2>3, <1>1, <1>2 DEF FilesOf
    <3> QED BY <2>3, <3>1
  <2> QED BY <2>2, <2>3
<1> QED BY <1>1, <1>2, <1>3, <1>4 DEF new, AreaMore

\* An area less.
LEMMA AreaRemoved ==
    ASSUME NEW ar, NEW next, AreasOK(ar, next), NEW id \in DOMAIN ar
    PROVE  AreaLess(Without(ar, id), ar, next, id)
<1> DEFINE new == Without(ar, id)
<1>1. DOMAIN new = DOMAIN ar \ {id} /\ \A x \in DOMAIN new : new[x] = ar[x]
  BY DEF Without, Restrict
<1> HIDE DEF new
<1>2. AreasOK(new, next)
  BY <1>1 DEF AreasOK
<1>3. ASSUME NEW f \in Nat
      PROVE  Cardinality(FilesOf(new, f)) =
                 IF ar[id].file = f THEN Cardinality(FilesOf(ar, f)) - 1 ELSE Cardinality(FilesOf(ar, f))
  <2>1. IsFiniteSet(FilesOf(ar, f))
    BY FilesFinite
  <2>2. CASE ar[id].file = f
    <3>1. FilesOf(new, f) = FilesOf(ar, f) \ {id} /\ id \in FilesOf(ar, f)
      BY <2>2, <1>1 DEF FilesOf
    <3> QED BY <2>1, <2>2, <3>1, FS_RemoveElement
  <2>3. CASE ar[id].file # f
    <3>1. FilesOf(new, f) = FilesOf(ar, f)
      BY <2>3, <1>1 DEF FilesOf
    <3> QED BY <2>3, <3>1
  <2> QED BY <2>2, <2>3
<1> QED BY <1>1, <1>2, <1>3 DEF new, AreaLess

\* An area that gets another place, size or protection.
LEMMA AreaChanged ==
    ASSUME NEW ar, NEW next, AreasOK(ar, next), NEW id \in DOMAIN ar,
           NEW a, DOMAIN a = AreaFields, a.file = ar[id].file
    PROVE  AreaSame([ar EXCEPT ![id] = a], ar, next)
<1> DEFINE new == [ar EXCEPT ![id] = a]
<1>1. DOMAIN new = DOMAIN ar /\ \A x \in DOMAIN ar : new[x] = IF x = id THEN a ELSE ar[x]
  OBVIOUS
<1> HIDE DEF new
<1>2. AreasOK(new, next)
  BY <1>1 DEF AreasOK
<1>3. \A f : FilesOf(new, f) = FilesOf(ar, f)
  BY <1>1 DEF FilesOf
<1> QED BY <1>1, <1>2, <1>3 DEF new, AreaSame

\* An area that gets its file.
LEMMA AreaShared ==
    ASSUME NEW ar, NEW next, AreasOK(ar, next), NEW id \in DOMAIN ar, ~IsShared(ar[id]),
           NEW a, DOMAIN a = AreaFields, a.file \in 0..(next - 1)
    PROVE  AreaGets([ar EXCEPT ![id] = a], ar, next, a.file)
<1> DEFINE new == [ar EXCEPT ![id] = a]
<1>1. DOMAIN new = DOMAIN ar /\ \A x \in DOMAIN ar : new[x] = IF x = id THEN a ELSE ar[x]
  OBVIOUS
<1> HIDE DEF new
<1>2. AreasOK(new, next)
  BY <1>1 DEF AreasOK
<1>3. ASSUME NEW f \in Nat
      PROVE  Cardinality(FilesOf(new, f)) =
                 IF a.file = f THEN Cardinality(FilesOf(ar, f)) + 1 ELSE Cardinality(FilesOf(ar, f))
  <2>0. id \notin FilesOf(ar, f)
    BY DEF FilesOf, IsShared, NoFile
  <2>1. IsFiniteSet(FilesOf(ar, f)) /\ id \notin FilesOf(ar, f)
    BY <2>0, FilesFinite
  <2>2. CASE a.file = f
    <3>1. FilesOf(new, f) = FilesOf(ar, f) \cup {id}
      BY <2>2, <1>1 DEF FilesOf
    <3> QED BY <2>1, <2>2, <3>1, FS_AddElement
  <2>3. CASE a.file # f
    <3>1. FilesOf(new, f) = FilesOf(ar, f)
      BY <2>1, <2>3, <1>1 DEF FilesOf
    <3> QED BY <2>3, <3>1
  <2> QED BY <2>2, <2>3
<1> QED BY <1>1, <1>2, <1>3 DEF new, AreaGets

-----------------------------------------------------------------------------
\* One reference more to a file in use.
LEMMA FileAcquired ==
    ASSUME NEW sh, NEW disk, NEW next, FilesOK(sh, disk, next), NEW f \in DOMAIN sh
    PROVE  FileMore([sh EXCEPT ![f].refs = @ + 1], sh, disk, next, f)
<1> DEFINE new == [sh EXCEPT ![f].refs = @ + 1]
<1>0. sh[f] \in SharedFile
  BY DEF FilesOK
<1>1. DOMAIN new = DOMAIN sh /\ (\A g \in DOMAIN sh : g # f => new[g] = sh[g])
      /\ new[f] = [sh[f] EXCEPT !.refs = @ + 1]
  OBVIOUS
<1>2. new[f] \in SharedFile /\ new[f].refs = sh[f].refs + 1
      /\ new[f].handle = sh[f].handle /\ new[f].writable = sh[f].writable
  BY <1>0, <1>1 DEF SharedFile
<1> HIDE DEF new
<1>3. FilesOK(new, disk, next)
  BY <1>1, <1>2 DEF FilesOK
<1>4. \A g : RefsOf(new, g) = IF g = f THEN RefsOf(sh, g) + 1 ELSE RefsOf(sh, g)
  BY <1>1, <1>2 DEF RefsOf
<1> QED BY <1>1, <1>3, <1>4 DEF new, FileMore

\* A larger table of those changes nothing for the files.
LEMMA FilesStay ==
    ASSUME NEW sh, NEW disk, NEW next \in Nat, NEW more \in Nat, next <= more, FilesOK(sh, disk, next)
    PROVE  FilesOK(sh, disk, more)
BY DEF FilesOK

\* What System::RegisterArea and Process::RegisterArea do to each table.
LEMMA RegisterIs ==
    ASSUME NEW s, DOMAIN s = TableFields, NEW p \in DOMAIN s.owned, NEW a
    PROVE  LET new == RegisterArea(s, p, a) IN
           /\ DOMAIN new = TableFields
           /\ new.areas = With(s.areas, s.next, a)
           /\ new.owned = [s.owned EXCEPT ![p] = @ \cup {s.next}]
           /\ new.next = s.next + 1
           /\ new.shared = IF IsShared(a) THEN [s.shared EXCEPT ![a.file].refs = @ + 1] ELSE s.shared
           /\ new.disk = s.disk
<1> DEFINE new == RegisterArea(s, p, a)
           t == IF IsShared(a) THEN Acquired(s, a.file) ELSE s
<1>1. /\ DOMAIN t = TableFields /\ t.areas = s.areas /\ t.owned = s.owned /\ t.next = s.next
      /\ t.disk = s.disk
      /\ t.shared = IF IsShared(a) THEN [s.shared EXCEPT ![a.file].refs = @ + 1] ELSE s.shared
  BY DEF TableFields, Acquired
<1>2. new = [t EXCEPT !.areas = With(@, s.next, a), !.owned[p] = @ \cup {s.next}, !.next = s.next + 1]
  BY DEF RegisterArea, FreeId
<1> HIDE DEF t, new
<1>3. /\ DOMAIN new = TableFields
      /\ new.areas = With(t.areas, s.next, a)
      /\ new.owned = [t.owned EXCEPT ![p] = @ \cup {s.next}]
      /\ new.next = s.next + 1
      /\ new.shared = t.shared
      /\ new.disk = t.disk
  BY <1>1, <1>2 DEF TableFields
<1> QED BY <1>1, <1>3 DEF new

LEMMA RegisterKept ==
    ASSUME NEW s, ServerOK(s), NEW p \in Process, NEW a, DOMAIN a = AreaFields,
           a.file = NoFile \/ a.file \in DOMAIN s.shared
    PROVE  LET new == RegisterArea(s, p, a) IN
           /\ ServerOK(new) /\ new.next = s.next + 1 /\ new.areas[s.next] = a
           /\ DOMAIN new.areas = DOMAIN s.areas \cup {s.next} /\ s.next \notin DOMAIN s.areas
           /\ DOMAIN new.shared = DOMAIN s.shared /\ new.disk = s.disk
           /\ \A id \in DOMAIN s.areas : new.areas[id] = s.areas[id]
<1> DEFINE new == RegisterArea(s, p, a)
           ar == s.areas
           nx == s.next
<1>1. AreasOK(ar, nx) /\ FilesOK(s.shared, s.disk, nx) /\ RefsOK(ar, s.shared) /\ DOMAIN s = TableFields
  BY DEF ServerOK, CoreOK
<1>2. p \in DOMAIN s.owned
  BY DEF ServerOK, OwnedOK
<1>3. /\ DOMAIN new = TableFields
      /\ new.areas = With(ar, nx, a)
      /\ new.owned = [s.owned EXCEPT ![p] = @ \cup {nx}]
      /\ new.next = nx + 1
      /\ new.shared = IF IsShared(a) THEN [s.shared EXCEPT ![a.file].refs = @ + 1] ELSE s.shared
      /\ new.disk = s.disk
  BY <1>1, <1>2, RegisterIs
<1> HIDE DEF new
<1>4. a.file \in {NoFile} \cup 0..(nx - 1)
  BY <1>1 DEF FilesOK
<1>5. AreaMore(new.areas, ar, nx, a)
  BY <1>1, <1>3, <1>4, AreaAdded
<1>6. nx \in Nat \ {0}
  BY <1>1 DEF AreasOK
<1>7. /\ FilesOK(new.shared, new.disk, nx) /\ DOMAIN new.shared = DOMAIN s.shared
      /\ \A f \in Nat : RefsOf(new.shared, f) =
            IF a.file = f THEN RefsOf(s.shared, f) + 1 ELSE RefsOf(s.shared, f)
  <2>1. CASE IsShared(a)
    <3>1. a.file \in DOMAIN s.shared
      BY <2>1 DEF IsShared
    <3>2. FileMore(new.shared, s.shared, s.disk, nx, a.file)
      BY <1>1, <1>3, <2>1, <3>1, FileAcquired
    <3> QED BY <1>3, <3>1, <3>2 DEF FileMore
  <2>2. CASE ~IsShared(a)
    <3>1. \A f \in Nat : a.file # f
      BY <2>2 DEF IsShared, NoFile
    <3> QED BY <1>1, <1>3, <2>2, <3>1
  <2> QED BY <2>1, <2>2
<1>8. FilesOK(new.shared, new.disk, nx + 1)
  BY <1>6, <1>7, FilesStay
<1>9. RefsOK(new.areas, new.shared)
  BY <1>1, <1>5, <1>7 DEF RefsOK, AreaMore
<1>10. CoreOK(new)
  BY <1>3, <1>5, <1>8, <1>9 DEF CoreOK, AreaMore
<1>11. OwnedOK(new)
  <2>1. s.owned \in [Process -> SUBSET DOMAIN ar]
        /\ \A x, q \in Process : x # q => s.owned[x] \cap s.owned[q] = {}
    BY DEF ServerOK, OwnedOK
  <2>2. \A x \in Process : new.owned[x] = IF x = p THEN s.owned[x] \cup {nx} ELSE s.owned[x]
    BY <1>3, <2>1
  <2>3. new.owned \in [Process -> SUBSET DOMAIN new.areas]
    BY <1>3, <1>5, <2>1 DEF AreaMore
  <2>4. \A x \in Process : nx \notin s.owned[x]
    BY <1>5, <2>1 DEF AreaMore
  <2>5. \A x, q \in Process : x # q => new.owned[x] \cap new.owned[q] = {}
    BY <2>1, <2>2, <2>4
  <2> QED BY <2>3, <2>5 DEF OwnedOK
<1> QED BY <1>3, <1>5, <1>7, <1>10, <1>11 DEF ServerOK, new, AreaMore

-----------------------------------------------------------------------------
\* One reference less to a file in use: the last one takes the file.
ReleasedShared(sh, f) == IF sh[f].refs > 1 THEN [sh EXCEPT ![f].refs = @ - 1] ELSE Without(sh, f)
ReleasedDisk(sh, disk, f) ==
    IF sh[f].refs > 1 THEN disk ELSE IF sh[f].handle THEN disk ELSE disk \ {f}
FileLess(new, nd, sh, next, f) ==
    /\ FilesOK(new, nd, next)
    /\ \A g : RefsOf(new, g) = IF g = f THEN RefsOf(sh, g) - 1 ELSE RefsOf(sh, g)

LEMMA FileReleased ==
    ASSUME NEW sh, NEW disk, NEW next, FilesOK(sh, disk, next), NEW f \in DOMAIN sh
    PROVE  FileLess(ReleasedShared(sh, f), ReleasedDisk(sh, disk, f), sh, next, f)
<1> DEFINE new == ReleasedShared(sh, f)
           nd == ReleasedDisk(sh, disk, f)
<1>0. sh[f] \in SharedFile /\ sh[f].refs \in Nat \ {0}
  BY DEF FilesOK, SharedFile
<1>1. CASE sh[f].refs > 1
  <2>1. new = [sh EXCEPT ![f].refs = @ - 1] /\ nd = disk
    BY <1>1 DEF ReleasedShared, ReleasedDisk
  <2>2. DOMAIN new = DOMAIN sh /\ (\A g \in DOMAIN sh : g # f => new[g] = sh[g])
        /\ new[f] = [sh[f] EXCEPT !.refs = @ - 1]
    BY <2>1
  <2> HIDE DEF new, nd
  <2>3. new[f] \in SharedFile /\ new[f].refs = sh[f].refs - 1
        /\ new[f].handle = sh[f].handle /\ new[f].writable = sh[f].writable
    BY <1>0, <1>1, <2>2 DEF SharedFile
  <2>4. FilesOK(new, nd, next)
    BY <2>1, <2>2, <2>3 DEF FilesOK
  <2>5. \A g : RefsOf(new, g) = IF g = f THEN RefsOf(sh, g) - 1 ELSE RefsOf(sh, g)
    BY <2>2, <2>3 DEF RefsOf
  <2> QED BY <2>4, <2>5 DEF FileLess, new, nd
<1>2. CASE ~(sh[f].refs > 1)
  <2>1. new = Without(sh, f) /\ nd = IF sh[f].handle THEN disk ELSE disk \ {f}
    BY <1>2 DEF ReleasedShared, ReleasedDisk
  <2>2. DOMAIN new = DOMAIN sh \ {f} /\ \A g \in DOMAIN new : new[g] = sh[g]
    BY <2>1 DEF Without, Restrict
  <2>3. sh[f].refs = 1
    BY <1>0, <1>2
  <2> HIDE DEF new, nd
  <2>4. FilesOK(new, nd, next)
    BY <2>1, <2>2 DEF FilesOK
  <2>5. \A g : RefsOf(new, g) = IF g = f THEN RefsOf(sh, g) - 1 ELSE RefsOf(sh, g)
    BY <2>2, <2>3 DEF RefsOf
  <2> QED BY <2>4, <2>5 DEF FileLess, new, nd
<1> QED BY <1>1, <1>2

\* What System::UnregisterArea does to each table.
LEMMA ForgottenIs ==
    ASSUME NEW s, CoreOK(s), NEW id \in DOMAIN s.areas
    PROVE  LET new == Forgotten(s, id)
               f == s.areas[id].file
           IN
           /\ DOMAIN new = TableFields
           /\ new.areas = Without(s.areas, id)
           /\ new.owned = s.owned
           /\ new.next = s.next
           /\ new.shared = IF IsShared(s.areas[id]) THEN ReleasedShared(s.shared, f) ELSE s.shared
           /\ new.disk = IF IsShared(s.areas[id]) THEN ReleasedDisk(s.shared, s.disk, f) ELSE s.disk
<1> DEFINE new == Forgotten(s, id)
           f == s.areas[id].file
           t == IF IsShared(s.areas[id]) THEN Released(s, f) ELSE s
<1>0. DOMAIN s = TableFields
  BY DEF CoreOK
<1>1. /\ DOMAIN t = TableFields /\ t.areas = s.areas /\ t.owned = s.owned /\ t.next = s.next
      /\ t.shared = IF IsShared(s.areas[id]) THEN ReleasedShared(s.shared, f) ELSE s.shared
      /\ t.disk = IF IsShared(s.areas[id]) THEN ReleasedDisk(s.shared, s.disk, f) ELSE s.disk
  <2>1. CASE ~IsShared(s.areas[id])
    BY <1>0, <2>1
  <2>2. CASE IsShared(s.areas[id])
    <3>0. f \in DOMAIN s.shared
      BY <2>2, FileInUse
    <3>1. t = Released(s, f)
      BY <2>2
    <3> HIDE DEF t, f
    <3>2. CASE s.shared[f].refs > 1
      <4>1. t = [s EXCEPT !.shared[f].refs = @ - 1]
        BY <3>0, <3>1, <3>2 DEF Released
      <4>2. DOMAIN t = TableFields /\ t.areas = s.areas /\ t.owned = s.owned /\ t.next = s.next
            /\ t.disk = s.disk /\ t.shared = [s.shared EXCEPT ![f].refs = @ - 1]
        BY <1>0, <4>1 DEF TableFields
      <4> QED BY <2>2, <3>2, <4>2 DEF ReleasedShared, ReleasedDisk, f
    <3>3. CASE ~(s.shared[f].refs > 1)
      <4> DEFINE nd == IF s.shared[f].handle THEN s.disk ELSE s.disk \ {f}
                 ns == Without(s.shared, f)
      <4>1. t = [s EXCEPT !.shared = ns, !.disk = nd]
        BY <3>0, <3>1, <3>3 DEF Released
      <4> HIDE DEF nd, ns
      <4>2. DOMAIN t = TableFields /\ t.areas = s.areas /\ t.owned = s.owned /\ t.next = s.next
            /\ t.disk = nd /\ t.shared = ns
        BY <1>0, <4>1 DEF TableFields
      <4> QED BY <2>2, <3>3, <4>2 DEF ReleasedShared, ReleasedDisk, f, nd, ns
    <3> QED BY <3>2, <3>3
  <2> QED BY <2>1, <2>2
<1>2. new = [t EXCEPT !.areas = Without(@, id)]
  BY DEF Forgotten
<1> HIDE DEF t, new
<1>3. DOMAIN new = TableFields /\ new.areas = Without(t.areas, id)
      /\ new.owned = t.owned /\ new.next = t.next /\ new.shared = t.shared /\ new.disk = t.disk
  BY <1>1, <1>2 DEF TableFields
<1> QED BY <1>1, <1>3 DEF new

ForgottenKeeps(new, s, id) ==
    /\ CoreOK(new) /\ DOMAIN new.areas = DOMAIN s.areas \ {id}
    /\ new.owned = s.owned /\ new.next = s.next

LEMMA ForgottenCore ==
    ASSUME NEW s, CoreOK(s), NEW id \in DOMAIN s.areas
    PROVE  ForgottenKeeps(Forgotten(s, id), s, id)
<1> DEFINE new == Forgotten(s, id)
           f == s.areas[id].file
<1>1. /\ DOMAIN new = TableFields
      /\ new.areas = Without(s.areas, id)
      /\ new.owned = s.owned
      /\ new.next = s.next
      /\ new.shared = IF IsShared(s.areas[id]) THEN ReleasedShared(s.shared, f) ELSE s.shared
      /\ new.disk = IF IsShared(s.areas[id]) THEN ReleasedDisk(s.shared, s.disk, f) ELSE s.disk
  BY ForgottenIs
<1> HIDE DEF new
<1>2. AreasOK(s.areas, s.next) /\ FilesOK(s.shared, s.disk, s.next) /\ RefsOK(s.areas, s.shared)
  BY DEF CoreOK
<1>3. AreaLess(new.areas, s.areas, s.next, id)
  BY <1>1, <1>2, AreaRemoved
<1>4. /\ FilesOK(new.shared, new.disk, s.next)
      /\ \A g \in Nat : RefsOf(new.shared, g) = IF g = f THEN RefsOf(s.shared, g) - 1 ELSE RefsOf(s.shared, g)
  <2>1. CASE IsShared(s.areas[id])
    <3>1. f \in DOMAIN s.shared
      BY <2>1, FileInUse
    <3> HIDE DEF f
    <3>2. FileLess(new.shared, new.disk, s.shared, s.next, f)
      BY <1>1, <1>2, <2>1, <3>1, FileReleased
    <3> QED BY <3>2 DEF FileLess
  <2>2. CASE ~IsShared(s.areas[id])
    <3>1. \A g \in Nat : f # g
      BY <2>2 DEF IsShared, NoFile
    <3> QED BY <1>1, <1>2, <2>2, <3>1
  <2> QED BY <2>1, <2>2
<1>5. RefsOK(new.areas, new.shared)
  BY <1>2, <1>3, <1>4 DEF RefsOK, AreaLess
<1> QED BY <1>1, <1>3, <1>4, <1>5 DEF CoreOK, ForgottenKeeps, AreaLess, new

\* Process::UnregisterArea and System::UnregisterArea.
LEMMA UnregisterKept ==
    ASSUME NEW s, ServerOK(s), NEW p \in Process, NEW id
    PROVE  /\ ServerOK(UnregisterArea(s, p, id))
           /\ UnregisterArea(s, p, id).next = s.next
<1>1. CASE id \in s.owned[p] /\ id \in DOMAIN s.areas
  <2> DEFINE t == Forgotten(s, id)
             new == UnregisterArea(s, p, id)
  <2>1. CoreOK(t) /\ DOMAIN t.areas = DOMAIN s.areas \ {id} /\ t.owned = s.owned /\ t.next = s.next
    BY <1>1, ForgottenCore DEF ServerOK, ForgottenKeeps
  <2>2. new = [t EXCEPT !.owned[p] = @ \ {id}]
    BY <1>1 DEF UnregisterArea
  <2> HIDE DEF t, new
  <2>3. DOMAIN t = TableFields
    BY <2>1 DEF CoreOK
  <2>4. /\ DOMAIN new = TableFields /\ new.areas = t.areas /\ new.next = t.next
        /\ new.shared = t.shared /\ new.disk = t.disk
        /\ new.owned = [t.owned EXCEPT ![p] = @ \ {id}]
    BY <2>2, <2>3 DEF TableFields
  <2>5. CoreOK(new)
    BY <2>1, <2>4 DEF CoreOK
  <2>6. s.owned \in [Process -> SUBSET DOMAIN s.areas]
        /\ \A x, q \in Process : x # q => s.owned[x] \cap s.owned[q] = {}
    BY DEF ServerOK, OwnedOK
  <2>7. /\ new.owned = [s.owned EXCEPT ![p] = @ \ {id}]
        /\ DOMAIN new.areas = DOMAIN s.areas \ {id}
    BY <2>1, <2>4
  <2>8. \A x \in Process : new.owned[x] = s.owned[x] \ {id}
    <3>1. \A x \in Process : x # p => id \notin s.owned[x]
      BY <1>1, <2>6
    <3> QED BY <2>6, <2>7, <3>1
  <2>9. new.owned \in [Process -> SUBSET DOMAIN new.areas]
    <3>1. DOMAIN new.owned = Process /\ new.owned = [x \in Process |-> new.owned[x]]
      BY <2>6, <2>7
    <3>2. \A x \in Process : new.owned[x] \in SUBSET DOMAIN new.areas
      BY <2>6, <2>7, <2>8
    <3> QED BY <3>1, <3>2
  <2>10. \A x, q \in Process : x # q => new.owned[x] \cap new.owned[q] = {}
    BY <2>6, <2>8
  <2>11. OwnedOK(new)
    BY <2>9, <2>10 DEF OwnedOK
  <2> QED BY <2>1, <2>4, <2>5, <2>11 DEF ServerOK, new
<1>2. CASE ~(id \in s.owned[p] /\ id \in DOMAIN s.areas)
  BY <1>2 DEF UnregisterArea
<1> QED BY <1>1, <1>2

-----------------------------------------------------------------------------
\* One area of the tables is written anew.
SetAs(new, s, id, a) ==
    /\ DOMAIN new = TableFields /\ new.areas = [s.areas EXCEPT ![id] = a]
    /\ new.owned = s.owned /\ new.next = s.next /\ new.shared = s.shared /\ new.disk = s.disk

LEMMA SetIs ==
    ASSUME NEW s, DOMAIN s = TableFields, NEW id \in DOMAIN s.areas, NEW a
    PROVE  SetAs([s EXCEPT !.areas[id] = a], s, id, a)
BY DEF SetAs, TableFields

\* What stays where an area changes and keeps its file.
AreasStay(new, s) ==
    /\ ServerOK(new) /\ new.next = s.next /\ DOMAIN new.areas = DOMAIN s.areas
    /\ new.shared = s.shared /\ new.disk = s.disk /\ new.owned = s.owned

LEMMA SetKept ==
    ASSUME NEW s, ServerOK(s), NEW id \in DOMAIN s.areas, NEW a, DOMAIN a = AreaFields,
           a.file = s.areas[id].file, NEW new, SetAs(new, s, id, a)
    PROVE  AreasStay(new, s)
<1>1. AreasOK(s.areas, s.next) /\ FilesOK(s.shared, s.disk, s.next) /\ RefsOK(s.areas, s.shared)
  BY DEF ServerOK, CoreOK
<1>2. AreaSame(new.areas, s.areas, s.next)
  BY <1>1, AreaChanged DEF SetAs
<1>3. RefsOK(new.areas, new.shared)
  BY <1>1, <1>2 DEF RefsOK, AreaSame, SetAs
<1>4. CoreOK(new)
  BY <1>1, <1>2, <1>3 DEF CoreOK, AreaSame, SetAs
<1>5. OwnedOK(new)
  BY <1>2 DEF ServerOK, OwnedOK, AreaSame, SetAs
<1> QED BY <1>2, <1>4, <1>5 DEF AreasStay, ServerOK, AreaSame, SetAs

LEMMA AreaHasFields ==
    ASSUME NEW s, ServerOK(s), NEW id \in DOMAIN s.areas
    PROVE  DOMAIN s.areas[id] = AreaFields /\ s.areas[id].file \in {NoFile} \cup 0..(s.next - 1)
BY DEF ServerOK, CoreOK, AreasOK

\* Area::Split, the protection of an area and its end.
LEMMA PieceKept ==
    ASSUME NEW s, ServerOK(s), NEW id \in DOMAIN s.areas, NEW r
    PROVE  /\ DOMAIN Piece(s.areas[id], r) = AreaFields
           /\ Piece(s.areas[id], r).file = s.areas[id].file
           /\ AreasStay([s EXCEPT !.areas[id] = Piece(s.areas[id], r)], s)
<1> DEFINE a == Piece(s.areas[id], r)
<1>1. DOMAIN a = AreaFields /\ a.file = s.areas[id].file
  BY AreaHasFields DEF Piece, AreaFields
<1> HIDE DEF a
<1>2. SetAs([s EXCEPT !.areas[id] = a], s, id, a)
  BY SetIs DEF ServerOK, CoreOK
<1>3. AreasStay([s EXCEPT !.areas[id] = a], s)
  BY <1>1, <1>2, SetKept
<1> QED BY <1>1, <1>3 DEF a

LEMMA ProtectedKept ==
    ASSUME NEW s, ServerOK(s), NEW id \in DOMAIN s.areas, NEW prot
    PROVE  AreasStay([s EXCEPT !.areas[id].prot = prot], s)
<1> DEFINE a == [s.areas[id] EXCEPT !.prot = prot]
           new == [s EXCEPT !.areas[id].prot = prot]
<1>1. DOMAIN a = AreaFields /\ a.file = s.areas[id].file
  BY AreaHasFields DEF AreaFields
<1>2. SetAs(new, s, id, a)
  BY DEF ServerOK, CoreOK, SetAs, TableFields
<1> HIDE DEF a, new
<1>3. AreasStay(new, s)
  BY <1>1, <1>2, SetKept
<1> QED BY <1>3 DEF new

LEMMA ExtentKept ==
    ASSUME NEW s, ServerOK(s), NEW id \in DOMAIN s.areas, NEW hi
    PROVE  AreasStay([s EXCEPT !.areas[id].hi = hi], s)
<1> DEFINE a == [s.areas[id] EXCEPT !.hi = hi]
           new == [s EXCEPT !.areas[id].hi = hi]
<1>1. DOMAIN a = AreaFields /\ a.file = s.areas[id].file
  BY AreaHasFields DEF AreaFields
<1>2. SetAs(new, s, id, a)
  BY DEF ServerOK, CoreOK, SetAs, TableFields
<1> HIDE DEF a, new
<1>3. AreasStay(new, s)
  BY <1>1, <1>2, SetKept
<1> QED BY <1>3 DEF new

-----------------------------------------------------------------------------
\* MemoryService::OpenSharedFile on the files alone.
OpenedFile(sh, f, want, by, can) ==
    LET w == want \/ can
        up == w /\ ~sh[f].writable
    IN  IF f \in DOMAIN sh
        THEN [refs |-> sh[f].refs + 1, writable |-> sh[f].writable \/ w,
              handle |-> IF up THEN by ELSE sh[f].handle]
        ELSE [refs |-> 1, writable |-> w, handle |-> by]

OpenedAs(new, s, f, o) ==
    /\ DOMAIN new = TableFields /\ new.areas = s.areas /\ new.owned = s.owned
    /\ new.next = s.next /\ new.disk = s.disk
    /\ new.shared = IF f \in DOMAIN s.shared THEN [s.shared EXCEPT ![f] = o]
                    ELSE With(s.shared, f, o)

LEMMA OpenedIs ==
    ASSUME NEW s, DOMAIN s = TableFields, NEW f, NEW want, NEW by, NEW can
    PROVE  OpenedAs(Opened(s, f, want, by, can), s, f, OpenedFile(s.shared, f, want, by, can))
<1> DEFINE new == Opened(s, f, want, by, can)
           o == OpenedFile(s.shared, f, want, by, can)
<1>1. CASE f \in DOMAIN s.shared
  <2>1. new = [s EXCEPT !.shared[f] = o]
    BY <1>1 DEF Opened, OpenedFile
  <2> HIDE DEF new, o
  <2>2. DOMAIN new = TableFields /\ new.areas = s.areas /\ new.owned = s.owned
        /\ new.next = s.next /\ new.disk = s.disk /\ new.shared = [s.shared EXCEPT ![f] = o]
    BY <2>1 DEF TableFields
  <2> QED BY <1>1, <2>2 DEF OpenedAs, new, o
<1>2. CASE f \notin DOMAIN s.shared
  <2>1. new = [s EXCEPT !.shared = With(@, f, o)]
    BY <1>2 DEF Opened, OpenedFile
  <2> HIDE DEF new, o
  <2>2. DOMAIN new = TableFields /\ new.areas = s.areas /\ new.owned = s.owned
        /\ new.next = s.next /\ new.disk = s.disk /\ new.shared = With(s.shared, f, o)
    BY <2>1 DEF TableFields
  <2> QED BY <1>2, <2>2 DEF OpenedAs, new, o
<1> QED BY <1>1, <1>2

\* A file is opened once more: by the handle of a guest, or a new one by its name.
LEMMA FileOpened ==
    ASSUME NEW sh, NEW disk, NEW next, FilesOK(sh, disk, next), NEW f \in 0..(next - 1),
           NEW want \in BOOLEAN, NEW by \in BOOLEAN, NEW can \in BOOLEAN,
           by \/ (can /\ f \notin DOMAIN sh), NEW new,
           new = IF f \in DOMAIN sh THEN [sh EXCEPT ![f] = OpenedFile(sh, f, want, by, can)]
                 ELSE With(sh, f, OpenedFile(sh, f, want, by, can))
    PROVE  FileMore(new, sh, IF by THEN disk ELSE disk \cup {f}, next, f)
<1> DEFINE o == OpenedFile(sh, f, want, by, can)
<1>1. DOMAIN new = DOMAIN sh \cup {f} /\ new[f] = o /\ \A g \in DOMAIN sh : g # f => new[g] = sh[g]
  BY DEF With
<1>2. o \in SharedFile /\ (~o.handle => o.writable) /\ o.refs = RefsOf(sh, f) + 1
      /\ (f \in DOMAIN sh => (o.handle <=> sh[f].handle))
      /\ (f \notin DOMAIN sh => (o.handle <=> by))
  <2>1. CASE f \in DOMAIN sh
    <3>1. sh[f] \in SharedFile /\ (~sh[f].handle => sh[f].writable) /\ by
      BY <2>1 DEF FilesOK
    <3> DEFINE ow == sh[f].writable \/ (want \/ can)
               oh == IF (want \/ can) /\ ~sh[f].writable THEN by ELSE sh[f].handle
    <3>2. o = [refs |-> sh[f].refs + 1, writable |-> ow, handle |-> oh]
      BY <2>1 DEF OpenedFile
    <3>3. ow \in BOOLEAN /\ oh \in BOOLEAN /\ sh[f].refs \in Nat \ {0}
          /\ (oh <=> sh[f].handle) /\ (~oh => ow)
      BY <3>1 DEF SharedFile
    <3> HIDE DEF o, ow, oh
    <3>4. o.refs = sh[f].refs + 1 /\ o.writable = ow /\ o.handle = oh
      BY <3>2
    <3>5. o \in SharedFile
      BY <3>2, <3>3 DEF SharedFile
    <3> QED BY <2>1, <3>3, <3>4, <3>5 DEF RefsOf
  <2>2. CASE f \notin DOMAIN sh
    <3> DEFINE ow == want \/ can
    <3>1. o = [refs |-> 1, writable |-> ow, handle |-> by]
      BY <2>2 DEF OpenedFile
    <3>2. ow \in BOOLEAN /\ (~by => ow)
      OBVIOUS
    <3> HIDE DEF o, ow
    <3>3. o.refs = 1 /\ o.writable = ow /\ o.handle = by
      BY <3>1
    <3>4. o \in SharedFile
      BY <3>1, <3>2 DEF SharedFile
    <3> QED BY <2>2, <3>2, <3>3, <3>4 DEF RefsOf
  <2> QED BY <2>1, <2>2
<1> HIDE DEF o
<1>3. FilesOK(new, IF by THEN disk ELSE disk \cup {f}, next)
  <2>1. DOMAIN new \subseteq 0..(next - 1)
    BY <1>1 DEF FilesOK
  <2>2. \A g \in DOMAIN new : new[g] \in SharedFile /\ (~new[g].handle => new[g].writable)
    BY <1>1, <1>2 DEF FilesOK
  <2>3. (IF by THEN disk ELSE disk \cup {f}) = {g \in DOMAIN new : ~new[g].handle}
    <3>1. disk = {g \in DOMAIN sh : ~sh[g].handle}
      BY DEF FilesOK
    <3>2. CASE f \in DOMAIN sh
      BY <1>1, <1>2, <3>1, <3>2
    <3>3. CASE f \notin DOMAIN sh
      <4>1. f \notin disk
        BY <3>1, <3>3
      <4> QED BY <1>1, <1>2, <3>1, <3>3, <4>1
    <3> QED BY <3>2, <3>3
  <2> QED BY <2>1, <2>2, <2>3 DEF FilesOK
<1>4. \A g : RefsOf(new, g) = IF g = f THEN RefsOf(sh, g) + 1 ELSE RefsOf(sh, g)
  BY <1>1, <1>2 DEF RefsOf
<1> QED BY <1>1, <1>3, <1>4 DEF FileMore

\* Area::Share: the area that gets the file is the one for which it was opened.
Grown(new, s) == ServerOK(new) /\ new.next = s.next /\ DOMAIN new.areas = DOMAIN s.areas

LEMMA SharedKept ==
    ASSUME NEW s, ServerOK(s), NEW x \in DOMAIN s.areas, ~IsShared(s.areas[x]),
           NEW f \in 0..(s.next - 1), NEW off, NEW u, DOMAIN u = TableFields,
           u.areas = s.areas, u.owned = s.owned, u.next = s.next,
           FileMore(u.shared, s.shared, u.disk, s.next, f)
    PROVE  Grown(Shared(u, x, f, off), s)
<1> DEFINE new == Shared(u, x, f, off)
           a == [[s.areas[x] EXCEPT !.file = f] EXCEPT !.off = off]
<1>1. DOMAIN s.areas[x] = AreaFields
  BY AreaHasFields
<1>2. DOMAIN a = AreaFields /\ a.file = f
  BY <1>1 DEF AreaFields
<1>3. new.areas = [s.areas EXCEPT ![x] = a] /\ DOMAIN new = TableFields
      /\ new.owned = s.owned /\ new.next = s.next /\ new.shared = u.shared /\ new.disk = u.disk
  <2>1. new = [[u EXCEPT !.areas[x].file = f] EXCEPT !.areas[x].off = off]
    BY DEF Shared
  <2> DEFINE v == [u EXCEPT !.areas[x].file = f]
  <2>2. new = [v EXCEPT !.areas[x].off = off]
    BY <2>1
  <2>3. DOMAIN v = TableFields /\ v.areas = [s.areas EXCEPT ![x].file = f]
        /\ v.owned = s.owned /\ v.next = s.next /\ v.shared = u.shared /\ v.disk = u.disk
    BY DEF TableFields
  <2> HIDE DEF v, new
  <2>4. DOMAIN new = TableFields /\ new.areas = [v.areas EXCEPT ![x].off = off]
        /\ new.owned = v.owned /\ new.next = v.next /\ new.shared = v.shared /\ new.disk = v.disk
    BY <2>2, <2>3 DEF TableFields
  <2>5. [[s.areas EXCEPT ![x].file = f] EXCEPT ![x].off = off] = [s.areas EXCEPT ![x] = a]
    OBVIOUS
  <2> QED BY <2>3, <2>4, <2>5
<1> HIDE DEF a, new
<1>4. AreasOK(s.areas, s.next) /\ FilesOK(s.shared, s.disk, s.next) /\ RefsOK(s.areas, s.shared)
  BY DEF ServerOK, CoreOK
<1>5. AreaGets([s.areas EXCEPT ![x] = a], s.areas, s.next, a.file)
  BY <1>2, <1>4, AreaShared
<1>6. AreaGets(new.areas, s.areas, s.next, f)
  BY <1>2, <1>3, <1>5
<1>7. RefsOK(new.areas, new.shared)
  BY <1>3, <1>4, <1>6 DEF RefsOK, AreaGets, FileMore
<1>8. CoreOK(new)
  BY <1>3, <1>6, <1>7 DEF CoreOK, AreaGets, FileMore
<1>9. OwnedOK(new)
  BY <1>3, <1>6 DEF ServerOK, OwnedOK, AreaGets
<1> QED BY <1>3, <1>6, <1>8, <1>9 DEF Grown, ServerOK, AreaGets, new

\* share_area with a handle.
LEMMA HandleKept ==
    ASSUME NEW s, ServerOK(s), NEW x \in DOMAIN s.areas, ~IsShared(s.areas[x]),
           NEW f \in 0..(s.next - 1), NEW off, NEW want \in BOOLEAN, NEW can \in BOOLEAN
    PROVE  Grown(Shared(Opened(s, f, want, TRUE, can), x, f, off), s)
<1> DEFINE u == Opened(s, f, want, TRUE, can)
           o == OpenedFile(s.shared, f, want, TRUE, can)
<1>1. DOMAIN s = TableFields /\ FilesOK(s.shared, s.disk, s.next)
  BY DEF ServerOK, CoreOK
<1>2. /\ DOMAIN u = TableFields /\ u.areas = s.areas /\ u.owned = s.owned
      /\ u.next = s.next /\ u.disk = s.disk
      /\ u.shared = IF f \in DOMAIN s.shared THEN [s.shared EXCEPT ![f] = o] ELSE With(s.shared, f, o)
  <2>1. OpenedAs(u, s, f, o)
    BY <1>1, OpenedIs, Zenon
  <2> HIDE DEF u, o
  <2> QED BY <2>1 DEF OpenedAs
<1> HIDE DEF u
<1>3. FileMore(u.shared, s.shared, IF TRUE THEN s.disk ELSE s.disk \cup {f}, s.next, f)
  BY <1>1, <1>2, FileOpened
<1>4. FileMore(u.shared, s.shared, u.disk, s.next, f)
  BY <1>2, <1>3
<1>5. Grown(Shared(u, x, f, off), s)
  BY <1>2, <1>4, SharedKept
<1> QED BY <1>5 DEF u

\* A new file, named after the area.
LEMMA FreshKept ==
    ASSUME NEW s, ServerOK(s), NEW x \in DOMAIN s.areas, ~IsShared(s.areas[x]),
           x \notin DOMAIN s.shared, NEW off, NEW want \in BOOLEAN
    PROVE  Grown(Shared(Opened(Created(s, x), x, want, FALSE, TRUE), x, x, off), s)
<1> DEFINE c == Created(s, x)
           u == Opened(c, x, want, FALSE, TRUE)
           o == OpenedFile(s.shared, x, want, FALSE, TRUE)
<1>1. DOMAIN s = TableFields /\ FilesOK(s.shared, s.disk, s.next) /\ x \in 0..(s.next - 1)
  BY DEF ServerOK, CoreOK, AreasOK
<1>2. DOMAIN c = TableFields /\ c.areas = s.areas /\ c.owned = s.owned /\ c.next = s.next
      /\ c.shared = s.shared /\ c.disk = s.disk \cup {x}
  BY <1>1 DEF Created, TableFields
<1> HIDE DEF c
<1>3. /\ DOMAIN u = TableFields /\ u.areas = c.areas /\ u.owned = c.owned
      /\ u.next = c.next /\ u.disk = c.disk
      /\ u.shared = IF x \in DOMAIN c.shared THEN [c.shared EXCEPT ![x] = o] ELSE With(c.shared, x, o)
  <2> DEFINE co == OpenedFile(c.shared, x, want, FALSE, TRUE)
  <2>1. OpenedAs(u, c, x, co)
    BY <1>2, OpenedIs, Zenon
  <2>2. co = o
    BY <1>2
  <2> HIDE DEF u, o, co
  <2> QED BY <2>1, <2>2 DEF OpenedAs
<1> HIDE DEF u
<1>4. FileMore(u.shared, s.shared, IF FALSE THEN s.disk ELSE s.disk \cup {x}, s.next, x)
  BY <1>1, <1>2, <1>3, FileOpened
<1>5. FileMore(u.shared, s.shared, u.disk, s.next, x)
  BY <1>2, <1>3, <1>4
<1>6. Grown(Shared(u, x, x, off), s)
  BY <1>1, <1>2, <1>3, <1>5, SharedKept
<1> QED BY <1>6 DEF u, c

-----------------------------------------------------------------------------
(* The walks over the areas: the tables after each id are those the recursion says. *)
CutAreas(s, p, lo, hi) == InOrder(LAMBDA u, id : UnmapOne(lo, hi, p, u, id), s, s.owned[p])
DroppedAreas(s, p, those) == InOrder(LAMBDA u, id : UnregisterArea(u, p, id), s, those)
LostAreas(s, p) == InOrder(LAMBDA u, id : Forgotten(u, id), s, s.owned[p])

LEMMA CutWalk ==
    ASSUME NEW s, s.next \in Nat \ {0}, NEW p, NEW lo, NEW hi
    PROVE  \E g : /\ g[0] = s /\ CutAreas(s, p, lo, hi) = g[s.next - 1]
                  /\ \A n \in 1..(s.next - 1) :
                        g[n] = IF n \in s.owned[p] THEN UnmapOne(lo, hi, p, g[n - 1], n) ELSE g[n - 1]
<1> DEFINE P(g, m) == g = [n \in 0..m |-> IF n = 0 THEN s
                                          ELSE IF n \in s.owned[p] THEN UnmapOne(lo, hi, p, g[n - 1], n) ELSE g[n - 1]]
           bad == {m \in 0..s.next : ~ \E g : P(g, m)}
<1>1. bad = {}
  <2> SUFFICES ASSUME bad # {} PROVE FALSE
    OBVIOUS
  <2>1. bad \in SUBSET Nat
    OBVIOUS
  <2> HIDE DEF bad
  <2>2. PICK m \in bad : \A y \in bad : m <= y
    BY <2>1, LeastNumber
  <2>3. m \in 0..s.next /\ ~ \E g : P(g, m)
    BY <2>2 DEF bad
  <2>4. m # 0
    <3> SUFFICES ASSUME m = 0 PROVE \E g : P(g, 0)
      BY <2>3
    <3> DEFINE g == [n \in 0..0 |-> s]
    <3>1. P(g, 0)
      OBVIOUS
    <3> QED BY <3>1
  <2>5. m - 1 \in 0..s.next /\ m - 1 < m /\ m \in Nat
    BY <2>3, <2>4
  <2>6. m - 1 \notin bad
    BY <2>2, <2>5
  <2>7. PICK g : P(g, m - 1)
    BY <2>5, <2>6 DEF bad
  <2> DEFINE last == IF m \in s.owned[p] THEN UnmapOne(lo, hi, p, g[m - 1], m) ELSE g[m - 1]
             h == [n \in 0..m |-> IF n < m THEN g[n] ELSE last]
  <2>8. P(h, m)
    <3>1. \A n \in 0..m : n # 0 => n - 1 \in 0..(m - 1) /\ h[n - 1] = g[n - 1]
      BY <2>5
    <3>2. \A n \in 0..m : h[n] = IF n = 0 THEN s
                                 ELSE IF n \in s.owned[p] THEN UnmapOne(lo, hi, p, h[n - 1], n) ELSE h[n - 1]
      <4> TAKE n \in 0..m
      <4>1. CASE n < m
        <5>1. n \in 0..(m - 1) /\ h[n] = g[n]
          BY <4>1, <2>5
        <5>2. g[n] = IF n = 0 THEN s ELSE IF n \in s.owned[p] THEN UnmapOne(lo, hi, p, g[n - 1], n) ELSE g[n - 1]
          BY <5>1, <2>7
        <5> QED BY <5>1, <5>2, <3>1
      <4>2. CASE ~(n < m)
        <5>1. n = m
          BY <4>2, <2>5
        <5> QED BY <5>1, <3>1, <2>4, <2>5
      <4> QED BY <4>1, <4>2
    <3> HIDE DEF h
    <3>3. h = [n \in 0..m |-> h[n]]
      BY DEF h
    <3> QED BY <3>2, <3>3
  <2> QED BY <2>3, <2>8
<1>2. \E g : P(g, s.next)
  BY <1>1
<1> DEFINE after == CHOOSE g : P(g, s.next)
<1>3. CutAreas(s, p, lo, hi) = after[s.next - 1]
  BY Zenon DEF InOrder, CutAreas
<1>4. P(after, s.next)
  BY <1>2, Zenon
<1> HIDE DEF after
<1>5. after[0] = s
  BY <1>4
<1>6. \A n \in 1..(s.next - 1) : after[n] = IF n \in s.owned[p] THEN UnmapOne(lo, hi, p, after[n - 1], n) ELSE after[n - 1]
  BY <1>4
<1> QED BY <1>3, <1>5, <1>6

LEMMA DropWalk ==
    ASSUME NEW s, s.next \in Nat \ {0}, NEW p, NEW those
    PROVE  \E g : /\ g[0] = s /\ DroppedAreas(s, p, those) = g[s.next - 1]
                  /\ \A n \in 1..(s.next - 1) :
                        g[n] = IF n \in those THEN UnregisterArea(g[n - 1], p, n) ELSE g[n - 1]
<1> DEFINE P(g, m) == g = [n \in 0..m |-> IF n = 0 THEN s
                                          ELSE IF n \in those THEN UnregisterArea(g[n - 1], p, n) ELSE g[n - 1]]
           bad == {m \in 0..s.next : ~ \E g : P(g, m)}
<1>1. bad = {}
  <2> SUFFICES ASSUME bad # {} PROVE FALSE
    OBVIOUS
  <2>1. bad \in SUBSET Nat
    OBVIOUS
  <2> HIDE DEF bad
  <2>2. PICK m \in bad : \A y \in bad : m <= y
    BY <2>1, LeastNumber
  <2>3. m \in 0..s.next /\ ~ \E g : P(g, m)
    BY <2>2 DEF bad
  <2>4. m # 0
    <3> SUFFICES ASSUME m = 0 PROVE \E g : P(g, 0)
      BY <2>3
    <3> DEFINE g == [n \in 0..0 |-> s]
    <3>1. P(g, 0)
      OBVIOUS
    <3> QED BY <3>1
  <2>5. m - 1 \in 0..s.next /\ m - 1 < m /\ m \in Nat
    BY <2>3, <2>4
  <2>6. m - 1 \notin bad
    BY <2>2, <2>5
  <2>7. PICK g : P(g, m - 1)
    BY <2>5, <2>6 DEF bad
  <2> DEFINE last == IF m \in those THEN UnregisterArea(g[m - 1], p, m) ELSE g[m - 1]
             h == [n \in 0..m |-> IF n < m THEN g[n] ELSE last]
  <2>8. P(h, m)
    <3>1. \A n \in 0..m : n # 0 => n - 1 \in 0..(m - 1) /\ h[n - 1] = g[n - 1]
      BY <2>5
    <3>2. \A n \in 0..m : h[n] = IF n = 0 THEN s
                                 ELSE IF n \in those THEN UnregisterArea(h[n - 1], p, n) ELSE h[n - 1]
      <4> TAKE n \in 0..m
      <4>1. CASE n < m
        <5>1. n \in 0..(m - 1) /\ h[n] = g[n]
          BY <4>1, <2>5
        <5>2. g[n] = IF n = 0 THEN s ELSE IF n \in those THEN UnregisterArea(g[n - 1], p, n) ELSE g[n - 1]
          BY <5>1, <2>7
        <5> QED BY <5>1, <5>2, <3>1
      <4>2. CASE ~(n < m)
        <5>1. n = m
          BY <4>2, <2>5
        <5> QED BY <5>1, <3>1, <2>4, <2>5
      <4> QED BY <4>1, <4>2
    <3> HIDE DEF h
    <3>3. h = [n \in 0..m |-> h[n]]
      BY DEF h
    <3> QED BY <3>2, <3>3
  <2> QED BY <2>3, <2>8
<1>2. \E g : P(g, s.next)
  BY <1>1
<1> DEFINE after == CHOOSE g : P(g, s.next)
<1>3. DroppedAreas(s, p, those) = after[s.next - 1]
  BY Zenon DEF InOrder, DroppedAreas
<1>4. P(after, s.next)
  BY <1>2, Zenon
<1> HIDE DEF after
<1>5. after[0] = s
  BY <1>4
<1>6. \A n \in 1..(s.next - 1) : after[n] = IF n \in those THEN UnregisterArea(after[n - 1], p, n) ELSE after[n - 1]
  BY <1>4
<1> QED BY <1>3, <1>5, <1>6

LEMMA ProtectWalk ==
    ASSUME NEW s, s.next \in Nat \ {0}, NEW p, NEW lo, NEW hi, NEW prot
    PROVE  \E g : /\ g[0] = s /\ ProtectAreas(s, p, lo, hi, prot) = g[s.next - 1]
                  /\ \A n \in 1..(s.next - 1) :
                        g[n] = IF n \in s.owned[p] THEN ProtectOne(lo, hi, prot, p, g[n - 1], n) ELSE g[n - 1]
<1> DEFINE P(g, m) == g = [n \in 0..m |-> IF n = 0 THEN s
                                          ELSE IF n \in s.owned[p] THEN ProtectOne(lo, hi, prot, p, g[n - 1], n) ELSE g[n - 1]]
           bad == {m \in 0..s.next : ~ \E g : P(g, m)}
<1>1. bad = {}
  <2> SUFFICES ASSUME bad # {} PROVE FALSE
    OBVIOUS
  <2>1. bad \in SUBSET Nat
    OBVIOUS
  <2> HIDE DEF bad
  <2>2. PICK m \in bad : \A y \in bad : m <= y
    BY <2>1, LeastNumber
  <2>3. m \in 0..s.next /\ ~ \E g : P(g, m)
    BY <2>2 DEF bad
  <2>4. m # 0
    <3> SUFFICES ASSUME m = 0 PROVE \E g : P(g, 0)
      BY <2>3
    <3> DEFINE g == [n \in 0..0 |-> s]
    <3>1. P(g, 0)
      OBVIOUS
    <3> QED BY <3>1
  <2>5. m - 1 \in 0..s.next /\ m - 1 < m /\ m \in Nat
    BY <2>3, <2>4
  <2>6. m - 1 \notin bad
    BY <2>2, <2>5
  <2>7. PICK g : P(g, m - 1)
    BY <2>5, <2>6 DEF bad
  <2> DEFINE last == IF m \in s.owned[p] THEN ProtectOne(lo, hi, prot, p, g[m - 1], m) ELSE g[m - 1]
             h == [n \in 0..m |-> IF n < m THEN g[n] ELSE last]
  <2>8. P(h, m)
    <3>1. \A n \in 0..m : n # 0 => n - 1 \in 0..(m - 1) /\ h[n - 1] = g[n - 1]
      BY <2>5
    <3>2. \A n \in 0..m : h[n] = IF n = 0 THEN s
                                 ELSE IF n \in s.owned[p] THEN ProtectOne(lo, hi, prot, p, h[n - 1], n) ELSE h[n - 1]
      <4> TAKE n \in 0..m
      <4>1. CASE n < m
        <5>1. n \in 0..(m - 1) /\ h[n] = g[n]
          BY <4>1, <2>5
        <5>2. g[n] = IF n = 0 THEN s ELSE IF n \in s.owned[p] THEN ProtectOne(lo, hi, prot, p, g[n - 1], n) ELSE g[n - 1]
          BY <5>1, <2>7
        <5> QED BY <5>1, <5>2, <3>1
      <4>2. CASE ~(n < m)
        <5>1. n = m
          BY <4>2, <2>5
        <5> QED BY <5>1, <3>1, <2>4, <2>5
      <4> QED BY <4>1, <4>2
    <3> HIDE DEF h
    <3>3. h = [n \in 0..m |-> h[n]]
      BY DEF h
    <3> QED BY <3>2, <3>3
  <2> QED BY <2>3, <2>8
<1>2. \E g : P(g, s.next)
  BY <1>1
<1> DEFINE after == CHOOSE g : P(g, s.next)
<1>3. ProtectAreas(s, p, lo, hi, prot) = after[s.next - 1]
  BY Zenon DEF InOrder, ProtectAreas
<1>4. P(after, s.next)
  BY <1>2, Zenon
<1> HIDE DEF after
<1>5. after[0] = s
  BY <1>4
<1>6. \A n \in 1..(s.next - 1) : after[n] = IF n \in s.owned[p] THEN ProtectOne(lo, hi, prot, p, after[n - 1], n) ELSE after[n - 1]
  BY <1>4
<1> QED BY <1>3, <1>5, <1>6

LEMMA ForkWalk ==
    ASSUME NEW s, s.next \in Nat \ {0}, NEW p, NEW q
    PROVE  \E g : /\ g[0] = s /\ ForkAreas(s, p, q) = g[s.next - 1]
                  /\ \A n \in 1..(s.next - 1) :
                        g[n] = IF n \in s.owned[p] THEN ForkOne(p, q, g[n - 1], n) ELSE g[n - 1]
<1> DEFINE P(g, m) == g = [n \in 0..m |-> IF n = 0 THEN s
                                          ELSE IF n \in s.owned[p] THEN ForkOne(p, q, g[n - 1], n) ELSE g[n - 1]]
           bad == {m \in 0..s.next : ~ \E g : P(g, m)}
<1>1. bad = {}
  <2> SUFFICES ASSUME bad # {} PROVE FALSE
    OBVIOUS
  <2>1. bad \in SUBSET Nat
    OBVIOUS
  <2> HIDE DEF bad
  <2>2. PICK m \in bad : \A y \in bad : m <= y
    BY <2>1, LeastNumber
  <2>3. m \in 0..s.next /\ ~ \E g : P(g, m)
    BY <2>2 DEF bad
  <2>4. m # 0
    <3> SUFFICES ASSUME m = 0 PROVE \E g : P(g, 0)
      BY <2>3
    <3> DEFINE g == [n \in 0..0 |-> s]
    <3>1. P(g, 0)
      OBVIOUS
    <3> QED BY <3>1
  <2>5. m - 1 \in 0..s.next /\ m - 1 < m /\ m \in Nat
    BY <2>3, <2>4
  <2>6. m - 1 \notin bad
    BY <2>2, <2>5
  <2>7. PICK g : P(g, m - 1)
    BY <2>5, <2>6 DEF bad
  <2> DEFINE last == IF m \in s.owned[p] THEN ForkOne(p, q, g[m - 1], m) ELSE g[m - 1]
             h == [n \in 0..m |-> IF n < m THEN g[n] ELSE last]
  <2>8. P(h, m)
    <3>1. \A n \in 0..m : n # 0 => n - 1 \in 0..(m - 1) /\ h[n - 1] = g[n - 1]
      BY <2>5
    <3>2. \A n \in 0..m : h[n] = IF n = 0 THEN s
                                 ELSE IF n \in s.owned[p] THEN ForkOne(p, q, h[n - 1], n) ELSE h[n - 1]
      <4> TAKE n \in 0..m
      <4>1. CASE n < m
        <5>1. n \in 0..(m - 1) /\ h[n] = g[n]
          BY <4>1, <2>5
        <5>2. g[n] = IF n = 0 THEN s ELSE IF n \in s.owned[p] THEN ForkOne(p, q, g[n - 1], n) ELSE g[n - 1]
          BY <5>1, <2>7
        <5> QED BY <5>1, <5>2, <3>1
      <4>2. CASE ~(n < m)
        <5>1. n = m
          BY <4>2, <2>5
        <5> QED BY <5>1, <3>1, <2>4, <2>5
      <4> QED BY <4>1, <4>2
    <3> HIDE DEF h
    <3>3. h = [n \in 0..m |-> h[n]]
      BY DEF h
    <3> QED BY <3>2, <3>3
  <2> QED BY <2>3, <2>8
<1>2. \E g : P(g, s.next)
  BY <1>1
<1> DEFINE after == CHOOSE g : P(g, s.next)
<1>3. ForkAreas(s, p, q) = after[s.next - 1]
  BY Zenon DEF InOrder, ForkAreas
<1>4. P(after, s.next)
  BY <1>2, Zenon
<1> HIDE DEF after
<1>5. after[0] = s
  BY <1>4
<1>6. \A n \in 1..(s.next - 1) : after[n] = IF n \in s.owned[p] THEN ForkOne(p, q, after[n - 1], n) ELSE after[n - 1]
  BY <1>4
<1> QED BY <1>3, <1>5, <1>6

LEMMA LossWalk ==
    ASSUME NEW s, s.next \in Nat \ {0}, NEW p
    PROVE  \E g : /\ g[0] = s /\ LostAreas(s, p) = g[s.next - 1]
                  /\ \A n \in 1..(s.next - 1) :
                        g[n] = IF n \in s.owned[p] THEN Forgotten(g[n - 1], n) ELSE g[n - 1]
<1> DEFINE P(g, m) == g = [n \in 0..m |-> IF n = 0 THEN s
                                          ELSE IF n \in s.owned[p] THEN Forgotten(g[n - 1], n) ELSE g[n - 1]]
           bad == {m \in 0..s.next : ~ \E g : P(g, m)}
<1>1. bad = {}
  <2> SUFFICES ASSUME bad # {} PROVE FALSE
    OBVIOUS
  <2>1. bad \in SUBSET Nat
    OBVIOUS
  <2> HIDE DEF bad
  <2>2. PICK m \in bad : \A y \in bad : m <= y
    BY <2>1, LeastNumber
  <2>3. m \in 0..s.next /\ ~ \E g : P(g, m)
    BY <2>2 DEF bad
  <2>4. m # 0
    <3> SUFFICES ASSUME m = 0 PROVE \E g : P(g, 0)
      BY <2>3
    <3> DEFINE g == [n \in 0..0 |-> s]
    <3>1. P(g, 0)
      OBVIOUS
    <3> QED BY <3>1
  <2>5. m - 1 \in 0..s.next /\ m - 1 < m /\ m \in Nat
    BY <2>3, <2>4
  <2>6. m - 1 \notin bad
    BY <2>2, <2>5
  <2>7. PICK g : P(g, m - 1)
    BY <2>5, <2>6 DEF bad
  <2> DEFINE last == IF m \in s.owned[p] THEN Forgotten(g[m - 1], m) ELSE g[m - 1]
             h == [n \in 0..m |-> IF n < m THEN g[n] ELSE last]
  <2>8. P(h, m)
    <3>1. \A n \in 0..m : n # 0 => n - 1 \in 0..(m - 1) /\ h[n - 1] = g[n - 1]
      BY <2>5
    <3>2. \A n \in 0..m : h[n] = IF n = 0 THEN s
                                 ELSE IF n \in s.owned[p] THEN Forgotten(h[n - 1], n) ELSE h[n - 1]
      <4> TAKE n \in 0..m
      <4>1. CASE n < m
        <5>1. n \in 0..(m - 1) /\ h[n] = g[n]
          BY <4>1, <2>5
        <5>2. g[n] = IF n = 0 THEN s ELSE IF n \in s.owned[p] THEN Forgotten(g[n - 1], n) ELSE g[n - 1]
          BY <5>1, <2>7
        <5> QED BY <5>1, <5>2, <3>1
      <4>2. CASE ~(n < m)
        <5>1. n = m
          BY <4>2, <2>5
        <5> QED BY <5>1, <3>1, <2>4, <2>5
      <4> QED BY <4>1, <4>2
    <3> HIDE DEF h
    <3>3. h = [n \in 0..m |-> h[n]]
      BY DEF h
    <3> QED BY <3>2, <3>3
  <2> QED BY <2>3, <2>8
<1>2. \E g : P(g, s.next)
  BY <1>1
<1> DEFINE after == CHOOSE g : P(g, s.next)
<1>3. LostAreas(s, p) = after[s.next - 1]
  BY Zenon DEF InOrder, LostAreas
<1>4. P(after, s.next)
  BY <1>2, Zenon
<1> HIDE DEF after
<1>5. after[0] = s
  BY <1>4
<1>6. \A n \in 1..(s.next - 1) : after[n] = IF n \in s.owned[p] THEN Forgotten(after[n - 1], n) ELSE after[n - 1]
  BY <1>4
<1> QED BY <1>3, <1>5, <1>6

-----------------------------------------------------------------------------
(* One step of a walk, and the walk. *)

Onward(u, next, those) == ServerOK(u) /\ next \in Nat /\ next <= u.next /\ those \subseteq DOMAIN u.areas

LEMMA NextIsNumber ==
    ASSUME NEW s, ServerOK(s)
    PROVE  s.next \in Nat \ {0} /\ DOMAIN s.areas \subseteq 1..(s.next - 1)
           /\ DOMAIN s.shared \subseteq 0..(s.next - 1) /\ DOMAIN s = TableFields
           /\ s.owned \in [Process -> SUBSET DOMAIN s.areas]
BY DEF ServerOK, CoreOK, OwnedOK, AreasOK, FilesOK

LEMMA WalkKept ==
    ASSUME NEW N \in Nat, NEW g, NEW next, NEW those, Onward(g[0], next, those),
           \A n \in 1..N : Onward(g[n - 1], next, those) => Onward(g[n], next, those)
    PROVE  Onward(g[N], next, those)
<1> DEFINE bad == {m \in 0..N : ~Onward(g[m], next, those)}
<1>1. bad = {}
  <2> SUFFICES ASSUME bad # {} PROVE FALSE
    OBVIOUS
  <2>1. bad \in SUBSET Nat
    OBVIOUS
  <2> HIDE DEF bad
  <2>2. PICK m \in bad : \A y \in bad : m <= y
    BY <2>1, LeastNumber
  <2>3. m \in 0..N /\ ~Onward(g[m], next, those)
    BY <2>2 DEF bad
  <2>4. m # 0
    BY <2>3
  <2>5. m - 1 \in 0..N /\ m - 1 < m /\ m \in 1..N
    BY <2>3, <2>4
  <2>6. m - 1 \notin bad
    BY <2>2, <2>5
  <2>7. Onward(g[m - 1], next, those)
    BY <2>5, <2>6 DEF bad
  <2> QED BY <2>3, <2>5, <2>7
<1> QED BY <1>1

\* A file that is registered again, or none.
LEMMA FileKnown ==
    ASSUME NEW s, ServerOK(s), NEW id \in DOMAIN s.areas
    PROVE  s.areas[id].file = NoFile \/ s.areas[id].file \in DOMAIN s.shared
<1>1. CASE IsShared(s.areas[id])
  BY <1>1, FileInUse DEF ServerOK
<1>2. CASE ~IsShared(s.areas[id])
  BY <1>2 DEF IsShared
<1> QED BY <1>1, <1>2

\* An area falls in two.
LEMMA SplitKept ==
    ASSUME NEW s, ServerOK(s), NEW p \in Process, NEW id \in DOMAIN s.areas, NEW r1, NEW r2,
           NEW next, NEW those, Onward(s, next, those)
    PROVE  Onward(RegisterArea([s EXCEPT !.areas[id] = Piece(s.areas[id], r1)], p,
                               Piece(s.areas[id], r2)), next, those)
<1> DEFINE t == [s EXCEPT !.areas[id] = Piece(s.areas[id], r1)]
           b == Piece(s.areas[id], r2)
<1>1. AreasStay(t, s) /\ DOMAIN b = AreaFields /\ b.file = s.areas[id].file
  BY PieceKept
<1> HIDE DEF t, b
<1>2. b.file = NoFile \/ b.file \in DOMAIN t.shared
  BY <1>1, FileKnown DEF AreasStay
<1>3. ServerOK(RegisterArea(t, p, b)) /\ RegisterArea(t, p, b).next = t.next + 1
      /\ DOMAIN RegisterArea(t, p, b).areas = DOMAIN t.areas \cup {t.next}
  BY <1>1, <1>2, RegisterKept DEF AreasStay
<1>4. t.next = s.next /\ s.next \in Nat /\ DOMAIN t.areas = DOMAIN s.areas
  BY <1>1, NextIsNumber DEF AreasStay
<1>5. Onward(RegisterArea(t, p, b), next, those)
  BY <1>3, <1>4 DEF Onward
<1> QED BY <1>5 DEF t, b

LEMMA UnmapOneKept ==
    ASSUME NEW s, NEW p \in Process, NEW lo, NEW hi, NEW next, NEW those, Onward(s, next, those),
           NEW id \in those
    PROVE  Onward(UnmapOne(lo, hi, p, s, id), next, those)
<1> DEFINE left == Outside(s.areas[id], lo, hi)
<1>1. ServerOK(s) /\ id \in DOMAIN s.areas
  BY DEF Onward
<1>2. CASE left = <<>>
  BY <1>2 DEF UnmapOne
<1>3. CASE left # <<>> /\ Len(left) = 1
  <2>1. UnmapOne(lo, hi, p, s, id) = [s EXCEPT !.areas[id] = Piece(s.areas[id], left[1])]
    BY <1>3 DEF UnmapOne
  <2> HIDE DEF left
  <2>2. AreasStay(UnmapOne(lo, hi, p, s, id), s)
    BY <1>1, <2>1, PieceKept
  <2> QED BY <2>2 DEF AreasStay, Onward
<1>4. CASE left # <<>> /\ Len(left) # 1
  <2>1. UnmapOne(lo, hi, p, s, id) =
          RegisterArea([s EXCEPT !.areas[id] = Piece(s.areas[id], left[1])], p,
                       Piece(s.areas[id], left[2]))
    BY <1>4 DEF UnmapOne
  <2> HIDE DEF left
  <2> QED BY <1>1, <2>1, SplitKept
<1> QED BY <1>2, <1>3, <1>4

LEMMA ProtectOneKept ==
    ASSUME NEW s, NEW p \in Process, NEW lo, NEW hi, NEW prot, NEW next, NEW those,
           Onward(s, next, those), NEW id \in those
    PROVE  Onward(ProtectOne(lo, hi, prot, p, s, id), next, those)
<1> DEFINE same == Outside(s.areas[id], lo, hi)
           away == s.areas[id].hi <= lo \/ s.areas[id].lo >= hi
           new == ProtectOne(lo, hi, prot, p, s, id)
<1>1. ServerOK(s) /\ id \in DOMAIN s.areas
  BY DEF Onward
<1>2. CASE away
  BY <1>2 DEF ProtectOne
<1>3. CASE ~away /\ same = <<>>
  <2>1. new = [s EXCEPT !.areas[id].prot = prot]
    BY <1>3 DEF ProtectOne
  <2> HIDE DEF new
  <2>2. AreasStay(new, s)
    BY <1>1, <2>1, ProtectedKept
  <2>3. Onward(new, next, those)
    BY <2>2 DEF AreasStay, Onward
  <2> QED BY <2>3 DEF new
<1>4. CASE ~away /\ same # <<>> /\ Len(same) = 1
  <2>1. new = [s EXCEPT !.areas[id] = Piece(s.areas[id], same[1])]
    BY <1>4 DEF ProtectOne
  <2> HIDE DEF same, new
  <2>2. AreasStay(new, s)
    BY <1>1, <2>1, PieceKept
  <2>3. Onward(new, next, those)
    BY <2>2 DEF AreasStay, Onward
  <2> QED BY <2>3 DEF new
<1>5. CASE ~away /\ same # <<>> /\ Len(same) # 1
  <2>1. new = RegisterArea([s EXCEPT !.areas[id] = Piece(s.areas[id], same[1])], p,
                           Piece(s.areas[id], same[2]))
    BY <1>5 DEF ProtectOne
  <2> HIDE DEF same
  <2>2. Onward(new, next, those)
    BY <1>1, <2>1, SplitKept
  <2> QED BY <2>2
<1> QED BY <1>2, <1>3, <1>4, <1>5

\* Process::Fork: the copy is not shared before it has its own file.
LEMMA ForkOneKept ==
    ASSUME NEW s, NEW p \in Process, NEW q \in Process, NEW next, NEW those,
           Onward(s, next, those), NEW id \in those
    PROVE  Onward(ForkOne(p, q, s, id), next, those)
<1> DEFINE a == s.areas[id]
           b == [a EXCEPT !.team = q, !.file = NoFile, !.off = 0]
           t == RegisterArea(s, q, b)
           x == s.next
           w == "write" \in a.prot
           again == Shared(Opened(Created(t, x), x, w, FALSE, TRUE), x, x, a.off)
<1>1. ServerOK(s) /\ id \in DOMAIN s.areas
  BY DEF Onward
<1>2. DOMAIN b = AreaFields /\ b.file = NoFile
  BY <1>1, AreaHasFields DEF AreaFields
<1>3. ForkOne(p, q, s, id) = again \/ ForkOne(p, q, s, id) = t
  BY DEF ForkOne, FreeId
<1> HIDE DEF b
<1>4. /\ ServerOK(t) /\ t.next = x + 1 /\ t.areas[x] = b
      /\ DOMAIN t.areas = DOMAIN s.areas \cup {x} /\ DOMAIN t.shared = DOMAIN s.shared
  BY <1>1, <1>2, RegisterKept
<1>5. x \in Nat \ {0} /\ x \notin DOMAIN s.shared
  BY <1>1, NextIsNumber
<1> HIDE DEF t
<1>6. Onward(t, next, those)
  BY <1>4, <1>5 DEF Onward
<1>7. Grown(again, t)
  <2>1. x \in DOMAIN t.areas /\ ~IsShared(t.areas[x]) /\ x \notin DOMAIN t.shared
    BY <1>2, <1>4, <1>5 DEF IsShared
  <2>2. w \in BOOLEAN
    OBVIOUS
  <2> DEFINE o == a.off
  <2> HIDE DEF x, w, o
  <2>3. Grown(Shared(Opened(Created(t, x), x, w, FALSE, TRUE), x, x, o), t)
    BY <1>4, <2>1, <2>2, FreshKept, Zenon
  <2> QED BY <2>3 DEF o
<1>8. Onward(again, next, those)
  <2> HIDE DEF again
  <2> QED BY <1>6, <1>7 DEF Onward, Grown
<1> QED BY <1>3, <1>6, <1>8

\* UnregisterArea asks for nothing.
LEMMA DropOneKept ==
    ASSUME NEW s, NEW p \in Process, NEW next, Onward(s, next, {}), NEW id
    PROVE  Onward(UnregisterArea(s, p, id), next, {})
BY UnregisterKept DEF Onward

-----------------------------------------------------------------------------
(* The calls that go over all areas of a process. *)

Later(new, s) == ServerOK(new) /\ s.next \in Nat /\ new.next \in Nat /\ s.next <= new.next

LEMMA OnwardLater ==
    ASSUME NEW s, NEW new, NEW those, Onward(new, s.next, those)
    PROVE  Later(new, s)
<1>1. new.next \in Nat
  BY NextIsNumber DEF Onward
<1> QED BY <1>1 DEF Later, Onward

LEMMA StartOnward ==
    ASSUME NEW s, ServerOK(s), NEW p \in Process
    PROVE  Onward(s, s.next, s.owned[p]) /\ Onward(s, s.next, {}) /\ s.next - 1 \in Nat
<1>1. s.next \in Nat \ {0} /\ s.owned[p] \subseteq DOMAIN s.areas
  BY NextIsNumber
<1> QED BY <1>1 DEF Onward

LEMMA CutKept ==
    ASSUME NEW s, ServerOK(s), NEW p \in Process, NEW lo, NEW hi
    PROVE  Later(CutAreas(s, p, lo, hi), s)
<1> DEFINE those == s.owned[p]
           N == s.next - 1
           new == CutAreas(s, p, lo, hi)
<1>1. PICK g : /\ g[0] = s /\ new = g[N]
               /\ \A n \in 1..N : g[n] = IF n \in those THEN UnmapOne(lo, hi, p, g[n - 1], n) ELSE g[n - 1]
  BY NextIsNumber, CutWalk
<1>2. Onward(g[0], s.next, those) /\ N \in Nat
  BY <1>1, StartOnward
<1> HIDE DEF those, N, new
<1>3. \A n \in 1..N : Onward(g[n - 1], s.next, those) => Onward(g[n], s.next, those)
  BY <1>1, UnmapOneKept
<1>4. Onward(g[N], s.next, those)
  BY <1>2, <1>3, WalkKept
<1> QED BY <1>1, <1>4, OnwardLater DEF new

LEMMA DropKept ==
    ASSUME NEW s, ServerOK(s), NEW p \in Process, NEW those
    PROVE  Later(DroppedAreas(s, p, those), s)
<1> DEFINE N == s.next - 1
           new == DroppedAreas(s, p, those)
<1>1. PICK g : /\ g[0] = s /\ new = g[N]
               /\ \A n \in 1..N : g[n] = IF n \in those THEN UnregisterArea(g[n - 1], p, n) ELSE g[n - 1]
  BY NextIsNumber, DropWalk
<1>2. Onward(g[0], s.next, {}) /\ N \in Nat
  BY <1>1, StartOnward
<1> HIDE DEF N, new
<1>3. \A n \in 1..N : Onward(g[n - 1], s.next, {}) => Onward(g[n], s.next, {})
  BY <1>1, DropOneKept
<1>4. Onward(g[N], s.next, {})
  BY <1>2, <1>3, WalkKept
<1> QED BY <1>1, <1>4, OnwardLater DEF new

LEMMA UnmapKept ==
    ASSUME NEW s, ServerOK(s), NEW p \in Process, NEW lo, NEW hi
    PROVE  Later(UnmapAreas(s, p, lo, hi), s)
<1> DEFINE gone == {id \in s.owned[p] : Outside(s.areas[id], lo, hi) = <<>>}
           t == CutAreas(s, p, lo, hi)
<1>1. UnmapAreas(s, p, lo, hi) = DroppedAreas(t, p, gone)
  BY DEF UnmapAreas, DroppedAreas, CutAreas
<1>2. Later(t, s)
  BY CutKept
<1> HIDE DEF t, gone
<1>3. Later(DroppedAreas(t, p, gone), t)
  BY <1>2, DropKept DEF Later
<1> QED BY <1>1, <1>2, <1>3 DEF Later

LEMMA ProtectKept ==
    ASSUME NEW s, ServerOK(s), NEW p \in Process, NEW lo, NEW hi, NEW prot
    PROVE  Later(ProtectAreas(s, p, lo, hi, prot), s)
<1> DEFINE those == s.owned[p]
           N == s.next - 1
           new == ProtectAreas(s, p, lo, hi, prot)
<1>1. PICK g : /\ g[0] = s /\ new = g[N]
               /\ \A n \in 1..N :
                     g[n] = IF n \in those THEN ProtectOne(lo, hi, prot, p, g[n - 1], n) ELSE g[n - 1]
  BY NextIsNumber, ProtectWalk
<1>2. Onward(g[0], s.next, those) /\ N \in Nat
  BY <1>1, StartOnward
<1> HIDE DEF those, N, new
<1>3. \A n \in 1..N : Onward(g[n - 1], s.next, those) => Onward(g[n], s.next, those)
  BY <1>1, ProtectOneKept
<1>4. Onward(g[N], s.next, those)
  BY <1>2, <1>3, WalkKept
<1> QED BY <1>1, <1>4, OnwardLater DEF new

LEMMA ForkKept ==
    ASSUME NEW s, ServerOK(s), NEW p \in Process, NEW q \in Process
    PROVE  Later(ForkAreas(s, p, q), s)
<1> DEFINE those == s.owned[p]
           N == s.next - 1
           new == ForkAreas(s, p, q)
<1>1. PICK g : /\ g[0] = s /\ new = g[N]
               /\ \A n \in 1..N : g[n] = IF n \in those THEN ForkOne(p, q, g[n - 1], n) ELSE g[n - 1]
  BY NextIsNumber, ForkWalk
<1>2. Onward(g[0], s.next, those) /\ N \in Nat
  BY <1>1, StartOnward
<1> HIDE DEF those, N, new
<1>3. \A n \in 1..N : Onward(g[n - 1], s.next, those) => Onward(g[n], s.next, those)
  BY <1>1, ForkOneKept
<1>4. Onward(g[N], s.next, those)
  BY <1>2, <1>3, WalkKept
<1> QED BY <1>1, <1>4, OnwardLater DEF new

\* The exit of a process: after each id, the areas up to it are gone.
LEMMA ExitKept ==
    ASSUME NEW s, ServerOK(s), NEW p \in Process
    PROVE  Later(ExitAreas(s, p), s)
<1> DEFINE those == s.owned[p]
           N == s.next - 1
           t == LostAreas(s, p)
           new == ExitAreas(s, p)
           Lost(u, n) == /\ CoreOK(u) /\ u.owned = s.owned /\ u.next = s.next
                         /\ DOMAIN u.areas = DOMAIN s.areas \ {id \in those : id <= n}
<1>0. s.next \in Nat \ {0} /\ N \in Nat /\ DOMAIN s.areas \subseteq 1..N /\ those \subseteq DOMAIN s.areas
      /\ s.owned \in [Process -> SUBSET DOMAIN s.areas]
  BY NextIsNumber
<1>1. PICK g : /\ g[0] = s /\ t = g[N]
               /\ \A n \in 1..N : g[n] = IF n \in those THEN Forgotten(g[n - 1], n) ELSE g[n - 1]
  BY <1>0, LossWalk
<1> HIDE DEF t, those, N
<1>2. Lost(g[0], 0)
  BY <1>0, <1>1 DEF ServerOK
<1>3. ASSUME NEW n \in 1..N, Lost(g[n - 1], n - 1) PROVE Lost(g[n], n)
  <2> DEFINE u == g[n - 1]
  <2>1. {id \in those : id <= n} = IF n \in those THEN {id \in those : id <= n - 1} \cup {n}
                                 ELSE {id \in those : id <= n - 1}
    BY <1>0
  <2>2. CASE n \in those
    <3>1. n \in DOMAIN u.areas
      BY <1>0, <1>3, <2>2
    <3>2. g[n] = Forgotten(u, n)
      BY <1>1, <2>2
    <3> HIDE DEF u
    <3>3. ForgottenKeeps(Forgotten(u, n), u, n)
      BY <1>3, <3>1, ForgottenCore DEF u
    <3> QED BY <1>3, <2>1, <2>2, <3>2, <3>3 DEF ForgottenKeeps, u
  <2>3. CASE n \notin those
    <3>1. g[n] = g[n - 1]
      BY <1>1, <2>3
    <3> QED BY <1>3, <2>1, <2>3, <3>1
  <2> QED BY <2>2, <2>3
<1> HIDE DEF Lost
<1>4. Lost(g[N], N)
  <2> DEFINE bad == {m \in 0..N : ~Lost(g[m], m)}
  <2>1. bad = {}
    <3> SUFFICES ASSUME bad # {} PROVE FALSE
      OBVIOUS
    <3>1. bad \in SUBSET Nat
      BY <1>0
    <3> HIDE DEF bad
    <3>2. PICK m \in bad : \A y \in bad : m <= y
      BY <3>1, LeastNumber
    <3>3. m \in 0..N /\ ~Lost(g[m], m)
      BY <3>2 DEF bad
    <3>4. m # 0
      BY <1>2, <3>3
    <3>5. m - 1 \in 0..N /\ m - 1 < m /\ m \in 1..N
      BY <1>0, <3>3, <3>4
    <3>6. m - 1 \notin bad
      BY <3>2, <3>5
    <3>7. Lost(g[m - 1], m - 1)
      BY <3>5, <3>6 DEF bad
    <3> QED BY <1>3, <3>3, <3>5, <3>7
  <2> QED BY <1>0, <2>1
<1>5. CoreOK(t) /\ t.owned = s.owned /\ t.next = s.next /\ DOMAIN t.areas = DOMAIN s.areas \ those
  BY <1>0, <1>1, <1>4 DEF Lost
<1>6. new = [t EXCEPT !.owned[p] = {}]
  BY DEF ExitAreas, LostAreas, t
<1> HIDE DEF new
<1>7. /\ DOMAIN new = TableFields /\ new.areas = t.areas /\ new.next = t.next
      /\ new.shared = t.shared /\ new.disk = t.disk /\ new.owned = [s.owned EXCEPT ![p] = {}]
  <2>1. DOMAIN t = TableFields
    BY <1>5 DEF CoreOK
  <2> QED BY <1>5, <1>6, <2>1 DEF TableFields
<1>8. CoreOK(new)
  BY <1>5, <1>7 DEF CoreOK
<1>9. OwnedOK(new)
  <2>1. \A x, q \in Process : x # q => s.owned[x] \cap s.owned[q] = {}
    BY DEF ServerOK, OwnedOK
  <2>2. \A x \in Process : new.owned[x] = IF x = p THEN {} ELSE s.owned[x]
    BY <1>0, <1>7
  <2>3. \A x \in Process : new.owned[x] \in SUBSET DOMAIN new.areas
    BY <1>0, <1>5, <1>7, <2>1, <2>2 DEF those
  <2>4. new.owned = [x \in Process |-> new.owned[x]]
    BY <1>0, <1>7
  <2>5. new.owned \in [Process -> SUBSET DOMAIN new.areas]
    BY <2>3, <2>4
  <2>6. \A x, q \in Process : x # q => new.owned[x] \cap new.owned[q] = {}
    BY <2>1, <2>2
  <2> QED BY <2>5, <2>6 DEF OwnedOK
<1> QED BY <1>0, <1>5, <1>7, <1>8, <1>9 DEF Later, ServerOK, new

-----------------------------------------------------------------------------
(* The calls that make one area. *)

\* An area was made that has no file yet.
NewlyMade(s1, s) ==
    /\ ServerOK(s) /\ ServerOK(s1) /\ s1.next = s.next + 1 /\ s.next \in Nat \ {0}
    /\ s.next \in DOMAIN s1.areas /\ ~IsShared(s1.areas[s.next]) /\ s.next \notin DOMAIN s1.shared

LEMMA NewAreaKept ==
    ASSUME NEW s, ServerOK(s), NEW p \in Process, NEW lo, NEW hi, NEW prot, NEW mapping
    PROVE  NewlyMade(RegisterArea(s, p, NewArea(p, lo, hi, prot, mapping)), s)
<1> DEFINE a == NewArea(p, lo, hi, prot, mapping)
           t == RegisterArea(s, p, a)
<1>1. DOMAIN a = AreaFields /\ a.file = NoFile
  BY DEF NewArea, AreaFields
<1> HIDE DEF a
<1>2. /\ ServerOK(t) /\ t.next = s.next + 1 /\ t.areas[s.next] = a
      /\ DOMAIN t.areas = DOMAIN s.areas \cup {s.next} /\ DOMAIN t.shared = DOMAIN s.shared
  BY <1>1, RegisterKept
<1>3. s.next \in Nat \ {0} /\ s.next \notin DOMAIN s.shared
  BY NextIsNumber
<1> HIDE DEF t
<1>4. NewlyMade(t, s)
  BY <1>1, <1>2, <1>3 DEF NewlyMade, IsShared
<1> QED BY <1>4 DEF t, a

LEMMA FreshLater ==
    ASSUME NEW s, NEW s1, NewlyMade(s1, s)
    PROVE  Later(s1, s)
BY DEF NewlyMade, Later

LEMMA FreshNamed ==
    ASSUME NEW s, NEW s1, NewlyMade(s1, s)
    PROVE  Later(SharedNew(s1, s.next), s)
<1> DEFINE x == s.next
           w == "write" \in s1.areas[x].prot
           new == Shared(Opened(Created(s1, x), x, w, FALSE, TRUE), x, x, 0)
<1>1. w \in BOOLEAN
  OBVIOUS
<1>2. SharedNew(s1, x) = new
  BY DEF SharedNew
<1>3. ServerOK(s1) /\ x \in DOMAIN s1.areas /\ ~IsShared(s1.areas[x]) /\ x \notin DOMAIN s1.shared
  BY DEF NewlyMade
<1> HIDE DEF x, w
<1>4. Grown(Shared(Opened(Created(s1, x), x, w, FALSE, TRUE), x, x, 0), s1)
  BY <1>1, <1>3, FreshKept, Zenon
<1>5. Grown(new, s1)
  BY <1>4
<1> HIDE DEF new
<1>6. Later(new, s)
  BY <1>5 DEF Grown, NewlyMade, Later
<1> QED BY <1>2, <1>6 DEF x

LEMMA FreshByHandle ==
    ASSUME NEW s, NEW s1, NewlyMade(s1, s), NEW f \in 0..(s.next - 1), NEW off, NEW can \in BOOLEAN
    PROVE  Later(SharedHandle(s1, s.next, f, off, can), s)
<1> DEFINE x == s.next
           w == "write" \in s1.areas[x].prot
           new == Shared(Opened(s1, f, w, TRUE, can), x, f, off)
<1>1. w \in BOOLEAN
  OBVIOUS
<1>2. SharedHandle(s1, x, f, off, can) = new
  BY DEF SharedHandle
<1>3. ServerOK(s1) /\ x \in DOMAIN s1.areas /\ ~IsShared(s1.areas[x]) /\ f \in 0..(s1.next - 1)
  BY DEF NewlyMade
<1> HIDE DEF x, w
<1>4. Grown(Shared(Opened(s1, f, w, TRUE, can), x, f, off), s1)
  BY <1>1, <1>3, HandleKept, Zenon
<1>5. Grown(new, s1)
  BY <1>4
<1> HIDE DEF new
<1>6. Later(new, s)
  BY <1>5 DEF Grown, NewlyMade, Later
<1> QED BY <1>2, <1>6 DEF x

LEMMA FreshTakenBack ==
    ASSUME NEW s, NEW s1, NewlyMade(s1, s), NEW p \in Process
    PROVE  Later(UnregisterArea(s1, p, s.next), s)
<1>1. ServerOK(UnregisterArea(s1, p, s.next)) /\ UnregisterArea(s1, p, s.next).next = s1.next
  BY UnregisterKept DEF NewlyMade
<1> QED BY <1>1 DEF NewlyMade, Later

-----------------------------------------------------------------------------
(* The steps. *)

LEMMA LaterSelf ==
    ASSUME NEW s, ServerOK(s)
    PROVE  Later(s, s)
BY NextIsNumber DEF Later

LEMMA CreateAreaKept ==
    ASSUME ServerOK(srv), NEW t \in GuestThread, NEW spec, NEW a, NEW n, NEW prot, NEW ok,
           CreateArea(t, spec, a, n, prot, ok)
    PROVE  Later(srv', srv) /\ pc' = pc
<1> DEFINE p == ProcessOf[t]
           id == srv.next
           S1(lo) == RegisterArea(srv, p, NewArea(p, lo, lo + n, prot, "private"))
<1>1. PICK lo : srv' \in {S1(lo), SharedNew(S1(lo), id), UnregisterArea(S1(lo), p, id)}
  BY DEF CreateArea, Set, FreeId
<1>2. p \in Process
  BY AddressSpaceAssumption
<1>3. NewlyMade(S1(lo), srv)
  BY <1>2, NewAreaKept
<1> HIDE DEF S1
<1>4. Later(srv', srv)
  BY <1>1, <1>2, <1>3, FreshLater, FreshNamed, FreshTakenBack
<1>5. pc' = pc
  BY DEF CreateArea
<1> QED BY <1>4, <1>5

LEMMA DeleteEndKept ==
    ASSUME ServerOK(srv), NEW t \in GuestThread, DeleteEnd(t)
    PROVE  Later(srv', srv) /\ pc' = [pc EXCEPT ![t] = InGuest]
<1>1. srv' = UnregisterArea(srv, ProcessOf[t], pc[t].id)
  BY DEF DeleteEnd, Set
<1>2. ProcessOf[t] \in Process
  BY AddressSpaceAssumption
<1>3. Later(srv', srv)
  BY <1>1, <1>2, UnregisterKept, NextIsNumber DEF Later
<1>4. pc' = [pc EXCEPT ![t] = InGuest]
  BY DEF DeleteEnd, Done
<1> QED BY <1>3, <1>4

LEMMA OwnIsArea ==
    ASSUME ServerOK(srv), NEW t \in GuestThread, NEW id \in Own(t)
    PROVE  id \in DOMAIN srv.areas
BY NextIsNumber, AddressSpaceAssumption DEF Own

LEMMA StayLater ==
    ASSUME NEW s, NEW new, ServerOK(s), AreasStay(new, s)
    PROVE  Later(new, s)
BY NextIsNumber DEF AreasStay, Later

LEMMA ResizeKept ==
    ASSUME ServerOK(srv), NEW t \in GuestThread, NEW id, NEW n, Shrink(t, id, n) \/ Grow(t, id, n)
    PROVE  Later(srv', srv) /\ pc' = pc
<1>1. id \in Own(t) /\ pc' = pc
  BY DEF Shrink, Grow
<1>2. srv' = Resized(id, n)
  BY DEF Shrink, Grow, Set
<1>3. AreasStay(srv', srv)
  BY <1>1, <1>2, OwnIsArea, ExtentKept DEF Resized
<1> QED BY <1>1, <1>3, StayLater

LEMMA SetAreaProtectionKept ==
    ASSUME ServerOK(srv), NEW t \in GuestThread, NEW id, NEW prot, SetAreaProtection(t, id, prot)
    PROVE  Later(srv', srv) /\ pc' = pc
<1>1. id \in Own(t) /\ pc' = pc /\ srv' = [srv EXCEPT !.areas[id].prot = prot]
  BY DEF SetAreaProtection
<1>2. AreasStay(srv', srv)
  BY <1>1, OwnIsArea, ProtectedKept
<1> QED BY <1>1, <1>2, StayLater

LEMMA SetMemoryProtectionKept ==
    ASSUME ServerOK(srv), NEW t \in GuestThread, NEW lo, NEW n, NEW prot,
           SetMemoryProtection(t, lo, n, prot)
    PROVE  Later(srv', srv) /\ pc' = pc
<1>1. srv' = ProtectAreas(srv, ProcessOf[t], lo, lo + n, prot) /\ pc' = pc
  BY DEF SetMemoryProtection, Set
<1> QED BY <1>1, ProtectKept, AddressSpaceAssumption

LEMMA UnmapStepKept ==
    ASSUME ServerOK(srv), NEW t \in GuestThread, NEW lo, NEW n, Unmap(t, lo, n)
    PROVE  Later(srv', srv)
<1>1. srv' = UnmapAreas(srv, ProcessOf[t], lo, lo + n)
  BY DEF Unmap, Set
<1> QED BY <1>1, UnmapKept, AddressSpaceAssumption

LEMMA MapFileKept ==
    ASSUME ServerOK(srv), NEW t \in GuestThread, NEW spec, NEW a, NEW n, NEW prot, NEW mapping,
           NEW fd \in {NoFile, Host}, NEW off, NEW in, NEW ok \in BOOLEAN,
           MapFile(t, spec, a, n, prot, mapping, fd, off, in, ok)
    PROVE  Later(srv', srv)
<1> DEFINE p == ProcessOf[t]
           id == srv.next
           S1(lo) == RegisterArea(srv, p, NewArea(p, lo, lo + n, prot, mapping))
<1>1. PICK lo : \/ srv' \in {S1(lo), SharedNew(S1(lo), id), UnregisterArea(S1(lo), p, id)}
                \/ fd # NoFile /\ srv' = SharedHandle(S1(lo), id, fd, off, ok)
  BY DEF MapFile, Set, FreeId
<1>2. p \in Process
  BY AddressSpaceAssumption
<1>3. NewlyMade(S1(lo), srv)
  BY <1>2, NewAreaKept
<1>4. fd # NoFile => fd \in 0..(srv.next - 1)
  BY NextIsNumber DEF Host
<1> HIDE DEF S1
<1> QED BY <1>1, <1>2, <1>3, <1>4, FreshLater, FreshNamed, FreshTakenBack, FreshByHandle

LEMMA CloneKept ==
    ASSUME ServerOK(srv), NEW p \in Process, NEW spec, NEW a, NEW n, NEW prot,
           NEW file \in 0..(srv.next - 1), Clone(p, spec, a, n, prot, file)
    PROVE  Later(srv', srv)
<1> DEFINE id == srv.next
           S1(lo) == RegisterArea(srv, p, NewArea(p, lo, lo + n, prot, "private"))
<1>1. PICK lo : srv' \in {S1(lo), SharedHandle(S1(lo), id, file, 0, TRUE)}
  BY DEF Clone, Set, FreeId
<1>2. NewlyMade(S1(lo), srv)
  BY NewAreaKept
<1> HIDE DEF S1
<1> QED BY <1>1, <1>2, FreshLater, FreshByHandle

\* A call of a thread, and what it remembers between its halves.
Called(t) ==
    /\ Later(srv', srv)
    /\ pc' = pc \/ \E c : pc' = [pc EXCEPT ![t] = c] /\ PlaceOK(c, srv'.next)

LEMMA CalledQuietly ==
    ASSUME NEW t \in GuestThread, Later(srv', srv), pc' = pc
    PROVE  Called(t)
BY DEF Called

LEMMA CalledAndDone ==
    ASSUME NEW t \in GuestThread, Later(srv', srv), pc' = [pc EXCEPT ![t] = InGuest]
    PROVE  Called(t)
<1>1. PlaceOK(InGuest, srv'.next)
  BY DEF PlaceOK, InGuest
<1> QED BY <1>1 DEF Called

LEMMA DeletingIsPlace ==
    ASSUME NEW id, NEW next
    PROVE  PlaceOK(Deleting(id), next)
BY DEF PlaceOK, Deleting

LEMMA MapOverBeginKept ==
    ASSUME RefsInductive, NEW t \in GuestThread, NEW a, NEW n, NEW mapping, MapOverBegin(t, a, n, mapping)
    PROVE  Called(t)
<1> DEFINE in == InBooks(ProcessOf[t], "exact", a, n)
           c == [at |-> "map", lo |-> a, n |-> n, map |-> mapping, in |-> in]
<1>1. Unmap(t, a, n) /\ pc' = [pc EXCEPT ![t] = c]
  BY DEF MapOverBegin
<1>2. PlaceOK(c, srv'.next)
  <2> HIDE DEF in
  <2> QED BY DEF PlaceOK
<1> HIDE DEF c
<1>3. Later(srv', srv)
  BY <1>1, UnmapStepKept DEF RefsInductive
<1> QED BY <1>1, <1>2, <1>3 DEF Called

LEMMA MapOverEndKept ==
    ASSUME RefsInductive, NEW t \in GuestThread, NEW ok \in BOOLEAN, MapOverEnd(t, ok)
    PROVE  Called(t)
<1> DEFINE d == pc[t]
<1>1. pc' = [pc EXCEPT ![t] = InGuest]
  BY DEF MapOverEnd, Done
<1>2. \/ MapFile(t, "exact", d.lo, d.n, {"write"}, d.map, Host, 0, d.in, ok)
      \/ srv' = srv
  BY DEF MapOverEnd
<1>3. Later(srv', srv)
  <2>1. ServerOK(srv)
    BY DEF RefsInductive
  <2> HIDE DEF d
  <2> QED BY <1>2, <2>1, MapFileKept, LaterSelf
<1> QED BY <1>1, <1>3, CalledAndDone

LEMMA CloneBeginKept ==
    ASSUME RefsInductive, NEW t \in GuestThread, NEW id, CloneBegin(t, id)
    PROVE  Called(t)
<1> DEFINE f == srv.areas[id].file
           e == Extent(id)
           c == [at |-> "clone", file |-> f, n |-> e]
<1>1. pc' = [pc EXCEPT ![t] = c] /\ srv' = srv /\ id \in DOMAIN srv.areas /\ IsShared(srv.areas[id])
  BY DEF CloneBegin, Clonable
<1>2. f \in 0..(srv.next - 1)
  BY <1>1, AreaHasFields, NextIsNumber DEF RefsInductive, IsShared, NoFile
<1>3. PlaceOK(c, srv'.next)
  <2> HIDE DEF f, e
  <2> QED BY <1>1, <1>2 DEF PlaceOK
<1>4. Later(srv', srv)
  BY <1>1, LaterSelf DEF RefsInductive
<1> HIDE DEF c
<1> QED BY <1>1, <1>3, <1>4 DEF Called

LEMMA CloneEndKept ==
    ASSUME RefsInductive, NEW t \in GuestThread, NEW spec, NEW a, NEW prot, CloneEnd(t, spec, a, prot)
    PROVE  Called(t)
<1> DEFINE d == pc[t]
<1>1. pc' = [pc EXCEPT ![t] = InGuest] /\ d.at = "clone"
  BY DEF CloneEnd, Done
<1>2. Clone(ProcessOf[t], spec, a, d.n, prot, d.file) \/ srv' = srv
  BY DEF CloneEnd
<1>3. d.file \in 0..(srv.next - 1)
  BY <1>1 DEF RefsInductive, PlacesOK, PlaceOK
<1>4. ServerOK(srv) /\ ProcessOf[t] \in Process
  BY AddressSpaceAssumption DEF RefsInductive
<1> HIDE DEF d
<1>5. Later(srv', srv)
  BY <1>2, <1>3, <1>4, CloneKept, LaterSelf
<1> QED BY <1>1, <1>5, CalledAndDone

LEMMA TransferBeginKept ==
    ASSUME RefsInductive, NEW t \in GuestThread, NEW id, NEW q \in Process, TransferBegin(t, id, q)
    PROVE  Called(t)
<1> DEFINE p == ProcessOf[t]
           c(x) == [at |-> "transfer", id |-> x, base |-> id, to |-> q]
           prot == srv.areas[id].prot \cup {"clone", "write"}
           S1(lo, n) == RegisterArea(srv, p, NewArea(p, lo, lo + n, prot, "private"))
<1>1. \A x : PlaceOK(c(x), srv'.next)
  BY DEF PlaceOK
<1>2. \E x : pc' = [pc EXCEPT ![t] = c(x)]
  BY DEF TransferBegin
<1>3. srv' = srv \/ \E lo, n : srv' = SharedNew(S1(lo, n), srv.next)
  BY DEF TransferBegin, Set, FreeId
<1>4. ServerOK(srv) /\ p \in Process
  BY AddressSpaceAssumption DEF RefsInductive
<1>5. \A lo, n : NewlyMade(S1(lo, n), srv)
  BY <1>4, NewAreaKept
<1> HIDE DEF S1, c, prot
<1>6. Later(srv', srv)
  BY <1>3, <1>4, <1>5, FreshNamed, LaterSelf
<1> QED BY <1>1, <1>2, <1>6 DEF Called

LEMMA TransferEndKept ==
    ASSUME RefsInductive, NEW t \in GuestThread, TransferEnd(t)
    PROVE  Called(t)
<1> DEFINE d == pc[t]
           f == srv.areas[d.id].file
           prot == srv.areas[d.base].prot
           n == Extent(d.id)
<1>1. pc' = [pc EXCEPT ![t] = Deleting(d.id)] \/ pc' = [pc EXCEPT ![t] = InGuest]
  BY DEF TransferEnd
<1>2. d.at = "transfer"
  BY DEF TransferEnd
<1>3. \/ Clone(d.to, "any", 1, n, prot, f) /\ d.id \in Own(t) /\ IsShared(srv.areas[d.id])
      \/ srv' = srv
  BY DEF TransferEnd, Clonable
<1>4. ServerOK(srv) /\ d.to \in Process
  BY <1>2 DEF RefsInductive, PlacesOK, PlaceOK
<1>5. Later(srv', srv)
  <2>1. CASE srv' = srv
    BY <1>4, <2>1, LaterSelf
  <2>2. CASE Clone(d.to, "any", 1, n, prot, f) /\ d.id \in Own(t) /\ IsShared(srv.areas[d.id])
    <3>1. d.id \in DOMAIN srv.areas
      BY <1>4, <2>2, OwnIsArea
    <3>2. f \in 0..(srv.next - 1)
      BY <1>4, <2>2, <3>1, AreaHasFields, NextIsNumber DEF IsShared, NoFile
    <3> HIDE DEF d, f, prot, n
    <3> QED BY <1>4, <2>2, <3>2, CloneKept
  <2> QED BY <1>3, <2>1, <2>2
<1>6. \E c : pc' = [pc EXCEPT ![t] = c] /\ PlaceOK(c, srv'.next)
  <2>1. PlaceOK(Deleting(d.id), srv'.next)
    BY DeletingIsPlace
  <2>2. PlaceOK(InGuest, srv'.next)
    BY DEF PlaceOK, InGuest
  <2> HIDE DEF d
  <2> QED BY <1>1, <2>1, <2>2
<1> QED BY <1>5, <1>6 DEF Called

LEMMA DeleteBeginKept ==
    ASSUME RefsInductive, NEW t \in GuestThread, NEW id, DeleteBegin(t, id)
    PROVE  Called(t)
<1>1. pc' = [pc EXCEPT ![t] = Deleting(id)] /\ srv' = srv
  BY DEF DeleteBegin
<1>2. Later(srv', srv)
  BY <1>1, LaterSelf DEF RefsInductive
<1> QED BY <1>1, <1>2, DeletingIsPlace DEF Called

LEMMA ForkStepKept ==
    ASSUME RefsInductive, NEW t \in GuestThread, NEW q \in Process, Fork(t, q)
    PROVE  Called(t)
<1>1. srv' = ForkAreas(srv, ProcessOf[t], q) /\ pc' = pc
  BY DEF Fork
<1>2. Later(srv', srv)
  BY <1>1, ForkKept, AddressSpaceAssumption DEF RefsInductive
<1> QED BY <1>1, <1>2, CalledQuietly

\* Every call of a thread.
LEMMA CallsKept ==
    ASSUME RefsInductive, NEW t \in GuestThread, Calls(t)
    PROVE  Called(t)
<1>0. ServerOK(srv)
  BY DEF RefsInductive
<1>1. ASSUME NEW a \in Page, NEW n \in Sizes, NEW spec \in Specs, NEW prot \in Prots,
             NEW ok \in BOOLEAN, CreateArea(t, spec, a, n, prot, ok)
      PROVE  Called(t)
  BY <1>0, <1>1, CreateAreaKept, CalledQuietly
<1>2. ASSUME NEW a \in Page, NEW n \in Sizes, NEW prot \in Prots, SetMemoryProtection(t, a, n, prot)
      PROVE  Called(t)
  BY <1>0, <1>2, SetMemoryProtectionKept, CalledQuietly
<1>3. ASSUME NEW a \in Page, NEW n \in Sizes, UnmapMemory(t, a, n)
      PROVE  Called(t)
  <2>1. Unmap(t, a, n) /\ pc' = pc
    BY <1>3 DEF UnmapMemory
  <2> QED BY <1>0, <2>1, UnmapStepKept, CalledQuietly
<1>4. ASSUME NEW a \in Page, NEW n \in Sizes, NEW spec \in Specs, NEW prot \in Prots,
             NEW m \in Mapping, NEW f \in Sources, MapFileAtOnce(t, spec, a, n, prot, m, f.fd, f.off, f.ok)
      PROVE  Called(t)
  <2>1. f.fd \in {NoFile, Host} /\ f.ok \in BOOLEAN
    <3> DEFINE yes == TRUE
               none == [fd |-> NoFile, off |-> 0, ok |-> yes]
    <3>1. f = none \/ f \in [fd : {Host}, off : 0..1, ok : BOOLEAN]
      BY DEF Sources
    <3>2. none.fd = NoFile /\ none.ok \in BOOLEAN
      OBVIOUS
    <3> HIDE DEF none
    <3> QED BY <3>1, <3>2
  <2>2. MapFile(t, spec, a, n, prot, m, f.fd, f.off, InBooks(ProcessOf[t], spec, a, n), f.ok) /\ pc' = pc
    BY <1>4 DEF MapFileAtOnce
  <2>3. Later(srv', srv)
    BY <1>0, <2>1, <2>2, MapFileKept
  <2> QED BY <2>2, <2>3, CalledQuietly
<1>5. ASSUME NEW a \in Page, NEW n \in Sizes, NEW m \in Mapping, MapOverBegin(t, a, n, m)
      PROVE  Called(t)
  BY <1>5, MapOverBeginKept
<1>6. ASSUME NEW a \in Page, NEW n \in Sizes, NEW spec \in Specs, Reserve(t, spec, a, n)
      PROVE  Called(t)
  <2>1. srv' = srv /\ pc' = pc
    BY <1>6 DEF Reserve, Set
  <2> QED BY <1>0, <2>1, LaterSelf, CalledQuietly
<1>7. ASSUME NEW a \in Page, NEW n \in Sizes, Unreserve(t, a, n)
      PROVE  Called(t)
  <2>1. srv' = srv /\ pc' = pc
    BY <1>7 DEF Unreserve, Set
  <2> QED BY <1>0, <2>1, LaterSelf, CalledQuietly
<1>8. ASSUME NEW id \in DOMAIN srv.areas, DeleteBegin(t, id) PROVE Called(t)
  BY <1>8, DeleteBeginKept
<1>9. ASSUME NEW id \in DOMAIN srv.areas, NEW n \in Sizes, Shrink(t, id, n) \/ Grow(t, id, n)
      PROVE  Called(t)
  BY <1>0, <1>9, ResizeKept, CalledQuietly
<1>10. ASSUME NEW id \in DOMAIN srv.areas, NEW prot \in Prots, SetAreaProtection(t, id, prot)
       PROVE  Called(t)
  BY <1>0, <1>10, SetAreaProtectionKept, CalledQuietly
<1>11. ASSUME NEW id \in DOMAIN srv.areas, CloneBegin(t, id) PROVE Called(t)
  BY <1>11, CloneBeginKept
<1>12. ASSUME NEW id \in DOMAIN srv.areas, NEW q \in Process, TransferBegin(t, id, q)
       PROVE  Called(t)
  BY <1>12, TransferBeginKept
<1>13. ASSUME NEW q \in Process, Fork(t, q) PROVE Called(t)
  BY <1>13, ForkStepKept
<1> QED
  BY <1>1, <1>2, <1>3, <1>4, <1>5, <1>6, <1>7, <1>8, <1>9, <1>10, <1>11, <1>12, <1>13, Zenon DEF Calls

LEMMA ContinuesKept ==
    ASSUME RefsInductive, NEW t \in GuestThread, Continues(t)
    PROVE  Called(t)
<1>1. CASE DeleteEnd(t)
  BY <1>1, DeleteEndKept, CalledAndDone DEF RefsInductive
<1>2. ASSUME NEW ok \in BOOLEAN, MapOverEnd(t, ok) PROVE Called(t)
  BY <1>2, MapOverEndKept
<1>3. ASSUME NEW spec \in Specs, NEW a \in Page, NEW prot \in Prots, CloneEnd(t, spec, a, prot)
      PROVE  Called(t)
  BY <1>3, CloneEndKept
<1>4. CASE TransferEnd(t)
  BY <1>4, TransferEndKept
<1> QED BY <1>1, <1>2, <1>3, <1>4, Zenon DEF Continues

LEMMA RefsStep ==
    ASSUME RefsInductive, [AddressSpaceStep]_spaceVars
    PROVE  RefsInductive'
<1>1. ASSUME NEW t \in GuestThread, Called(t) PROVE RefsInductive'
  <2>1. pc' = pc \/ \E c : pc' = [pc EXCEPT ![t] = c] /\ PlaceOK(c, srv'.next)
    BY <1>1 DEF Called
  <2>2. ServerOK(srv') /\ srv.next \in Nat /\ srv'.next \in Nat /\ srv.next <= srv'.next
    BY <1>1 DEF Called, Later
  <2>3. \A x \in GuestThread : PlaceOK(pc[x], srv'.next)
    BY <2>2 DEF RefsInductive, PlacesOK, PlaceOK
  <2>4. DOMAIN pc' = GuestThread /\ \A x \in GuestThread : PlaceOK(pc'[x], srv'.next)
    BY <2>1, <2>3 DEF RefsInductive, PlacesOK
  <2> QED BY <2>2, <2>4 DEF RefsInductive, PlacesOK
<1>2. ASSUME NEW p \in Process, Exit(p) PROVE RefsInductive'
  <2>1. srv' = ExitAreas(srv, p)
        /\ pc' = [t \in GuestThread |-> IF ProcessOf[t] = p THEN InGuest ELSE pc[t]]
    BY <1>2 DEF Exit
  <2>2. Later(srv', srv)
    BY <2>1, ExitKept DEF RefsInductive
  <2>3. ServerOK(srv') /\ srv.next \in Nat /\ srv'.next \in Nat /\ srv.next <= srv'.next
    BY <2>2 DEF Later
  <2>4. PlaceOK(InGuest, srv'.next)
    BY DEF PlaceOK, InGuest
  <2>5. \A x \in GuestThread : PlaceOK(pc[x], srv'.next)
    BY <2>3 DEF RefsInductive, PlacesOK, PlaceOK
  <2> QED BY <2>1, <2>3, <2>4, <2>5 DEF RefsInductive, PlacesOK
<1>3. CASE UNCHANGED spaceVars
  <2>1. srv' = srv /\ pc' = pc
    BY <1>3 DEF spaceVars
  <2> QED BY <2>1 DEF RefsInductive, PlacesOK
<1> QED BY <1>1, <1>2, <1>3, CallsKept, ContinuesKept DEF AddressSpaceStep

LEMMA RefsStart ==
    ASSUME AddressSpaceInit
    PROVE  RefsInductive
<1> DEFINE owned == [p \in Process |-> {}]
           none == <<>>
           hidden == {}
<1>1. srv = [areas |-> none, owned |-> owned, next |-> 1, shared |-> none, disk |-> hidden]
  BY DEF AddressSpaceInit, EmptyTables
<1>2. DOMAIN none = {}
  OBVIOUS
<1>3. owned \in [Process -> SUBSET {}] /\ \A p \in Process : owned[p] = {}
  OBVIOUS
<1> HIDE DEF none, owned
<1>4. DOMAIN srv = TableFields /\ srv.areas = none /\ srv.owned = owned /\ srv.next = 1
      /\ srv.shared = none /\ srv.disk = {}
  BY <1>1 DEF TableFields
<1>5. AreasOK(srv.areas, srv.next) /\ FilesOK(srv.shared, srv.disk, srv.next)
  BY <1>2, <1>4 DEF AreasOK, FilesOK
<1>6. RefsOK(srv.areas, srv.shared)
  <2>1. \A f : FilesOf(srv.areas, f) = {}
    BY <1>2, <1>4 DEF FilesOf
  <2> QED BY <1>2, <1>4, <2>1, FS_EmptySet DEF RefsOK, RefsOf
<1>7. OwnedOK(srv)
  BY <1>2, <1>3, <1>4 DEF OwnedOK
<1>8. PlacesOK
  BY DEF AddressSpaceInit, PlacesOK, PlaceOK, InGuest
<1> QED BY <1>4, <1>5, <1>6, <1>7, <1>8 DEF RefsInductive, ServerOK, CoreOK

LEMMA RefsShown ==
    ASSUME RefsInductive
    PROVE  RefsExact
<1>1. RefsOK(srv.areas, srv.shared) /\ FilesOK(srv.shared, srv.disk, srv.next)
  BY DEF RefsInductive, ServerOK, CoreOK
<1>2. File \subseteq Nat
  BY AreasAssumption DEF File, AreaId, Host
<1> QED BY <1>1, <1>2 DEF RefsExact, RefsOK, FilesOK, FilesOf, RefsOf

\* The reference count of every shared file is the number of areas registered with it, and
\* the shm directory holds the files in use by name: whatever the calls, the clones, splits,
\* forks, transfers and exits, in processes of any number.  (server_memory.cpp, area.cpp)
THEOREM AreaRefsExact == AddressSpaceSpec => []RefsExact
<1>1. AddressSpaceInit => RefsInductive
  BY RefsStart
<1>2. RefsInductive /\ [AddressSpaceStep]_spaceVars => RefsInductive'
  BY RefsStep
<1>3. RefsInductive => RefsExact
  BY RefsShown
<1> QED BY <1>1, <1>2, <1>3, PTL DEF AddressSpaceSpec
=============================================================================
