---------------------------- MODULE TeamsProofs -----------------------------
(***************************************************************************)
(* Proofs about Teams, for any family of guests and any number of          *)
(* descriptors: as long as nobody was crossed, who is alive is served as   *)
(* himself, nothing is left of a team that is over, and nobody waits in    *)
(* vain.  And about Infos and ThreadInfos: what is told of teams and       *)
(* threads is what they are.                                               *)
(***************************************************************************)
EXTENDS Teams, ThreadInfos, Sequences, TLAPS, FiniteSetTheorems

-----------------------------------------------------------------------------
(* The inductive invariant. *)

\* The two workers of a guest, and in whose name they work.
CallJob(g) == job[<<g, "call">>]
HangJob(g) == job[<<g, "hang">>]
CallCtx(g) == ctx[<<g, "call">>]
HangCtx(g) == ctx[<<g, "hang">>]

\* A call of g is in the socket or with a worker.  A thread that is gone is still
\* active by a call that changes what the server knows.
Pending(g) == sent[g] \/ CallJob(g) # None
Alive(g) == st[g] \notin {"unborn", "gone"}
Active(g) == Alive(g) \/ (Pending(g) /\ req[g] # "work")

\* The server is not through with the descriptor of g.
Holds(g) == fd[g] # None /\ (open[fd[g]] = g \/ CallJob(g) # None \/ HangJob(g) # None)

\* g is in no call; g has connected; g knocks; g has not passed WaitForExec.
Idle(g) == st[g] \in {"up", "spawning", "atfork", "execing"}
Served(g) == Idle(g) \/ (st[g] = "waiting" /\ req[g] # "connect")
Outside(g) == req[g] = "connect" /\ (sent[g] \/ CallJob(g) = "c1")
Blocked(g) == req[g] = "connect" /\ (sent[g] \/ CallJob(g) \in {"c1", "c2"})

\* The first thread of a team is not there yet, connects or waits for the fork.
Early(g) == \/ st[g] \in {"unborn", "atfork"}
            \/ req[g] \in {"connect", "forkwait"} /\ Pending(g)

Known(g) == connections[fd[g]] = Ident(g)

\* How the state of a guest, its latest call and its workers fit.
StateOK(g) ==
    /\ st[g] = "unborn" => req[g] = None /\ ~Pending(g) /\ fd[g] = None /\ HangJob(g) = None
    /\ st[g] # "unborn" => req[g] # None
    /\ Idle(g) => ~Pending(g)
    /\ st[g] = "waiting" => Pending(g)
    /\ st[g] = "atfork" => origin[g] = "fork" /\ req[g] = "connect"
    /\ st[g] = "execing" => req[g] = "exec"
    /\ st[g] = "spawning" => newest[g] \in Guest
    /\ req[g] = "forkwait" => origin[g] = "fork"
    /\ req[g] \in {"exec", "unexec"} => \E x \in Guest : origin[x] = "exec" /\ parent[x] = g

JobsOK(g) ==
    /\ sent[g] => CallJob(g) = None
    /\ CallJob(g) # None => fd[g] # None
    /\ CallJob(g) \in {"c1", "c2", "c3", "c4"} => req[g] = "connect"
    /\ CallJob(g) \in {"d1", "d2", "run"} => req[g] # "connect"
    /\ HangJob(g) \in {None, "d1", "d2", "run"}
    /\ HangJob(g) # None => st[g] = "gone" /\ fd[g] # None /\ ~sent[g]
    /\ Outside(g) => HangJob(g) \in {None, "d1"}
    /\ CallJob(g) \in {"d2", "run"} => CallCtx(g) = Ident(g)
    /\ HangJob(g) \in {"d2", "run"} => HangCtx(g) = Ident(g)

\* A descriptor that is in use is of one guest, and its entry names him.
SocketOK(g) ==
    /\ \A h \in Guest : Holds(g) /\ Holds(h) /\ fd[g] = fd[h] => g = h
    /\ Holds(g) => connections[fd[g]] \in {None, Ident(g)}
    /\ Holds(g) /\ Outside(g) => connections[fd[g]] = None
    /\ fd[g] # None /\ (st[g] # "gone" \/ sent[g]) => open[fd[g]] = g
    /\ HangJob(g) # None => open[fd[g]] # g

\* An entry is of somebody who holds the descriptor, or was killed.
EndsOK ==
    \A f \in Fd :
        /\ connections[f] # None =>
               \E g \in Guest : /\ fd[g] = f /\ connections[f] = Ident(g)
                                /\ Holds(g) \/ team[g] \in killed
        /\ open[f] # None => fd[open[f]] = f

\* The order in which the threads of a team come to life.
RootFirst ==
    \A g, h \in Guest :
        Root(g) /\ Early(g) /\ h # g /\ team[h] = team[g] => st[h] = "unborn"

OneActive == \A g, h \in Guest : Active(g) /\ Active(h) /\ tid[g] = tid[h] => g = h

SpawnOK ==
    \A h \in Guest : origin[h] = "spawn" /\ st[h] = "waiting" /\ req[h] = "connect" =>
        st[parent[h]] = "spawning" /\ newest[parent[h]] = h

ImageOK ==
    \A x \in Guest : origin[x] = "exec" /\ st[x] # "unborn" =>
        st[parent[x]] = "gone" /\ fd[parent[x]] # None

\* While a new image connects, it is alone.
Knocks(g) == req[g] = "connect" /\ Pending(g)
ImageAlone ==
    \A x, h \in Guest : origin[x] = "exec" /\ Knocks(x) /\ h # x /\ team[h] = team[x] => ~Active(h)

KilledOK ==
    \A g \in Guest : team[g] \in killed =>
        st[g] \in {"unborn", "gone"} /\ (Root(g) => st[g] = "gone")

FamilyOK == RootFirst /\ OneActive /\ SpawnOK /\ ImageOK /\ ImageAlone /\ KilledOK

\* Who has connected is in the tables, and so is the process of who connects.
ServedOK ==
    \A g \in Guest :
        /\ Served(g) => fd[g] # None /\ Known(g) /\ team[g] \in procs /\ tid[g] \in threads[team[g]]
        /\ st[g] = "waiting" /\ CallJob(g) \in {"c2", "c3", "c4"} => Known(g) /\ team[g] \in procs

\* A thread that is gone can be disconnected (again) only as one of the old image
\* of an exec, while the new one has not passed WaitForExec.
Leftover(g) == Holds(g) /\ (connections[fd[g]] # None \/ HangJob(g) \in {"d2", "run"})
ToHangUp(g) == open[fd[g]] = g \/ HangJob(g) # None
BlockedImage(g, x) == origin[x] = "exec" /\ team[x] = team[g] /\ st[x] = "waiting" /\ Blocked(x)

GoneOK ==
    \A g \in Guest : st[g] = "gone" /\ team[g] \notin killed =>
        /\ Pending(g) => req[g] = "work"
        /\ fd[g] # None
        /\ Leftover(g) => /\ Known(g) /\ tid[g] \in threads[team[g]] /\ ToHangUp(g)
                          /\ executing[team[g]] /\ \E x \in Guest : BlockedImage(g, x)

\* What a new image waits for: the hangups of the old one.
OldImage(g, x) ==
    g # x /\ team[g] = team[x] /\ st[g] = "gone" /\ fd[g] # None /\ Known(g) /\ ToHangUp(g)
WaitOK ==
    \A x \in Guest : origin[x] = "exec" /\ Blocked(x) /\ executing[team[x]] =>
        /\ team[x] \in procs /\ threads[team[x]] # {}
        /\ \A t \in threads[team[x]] : \E g \in Guest : tid[g] = t /\ OldImage(g, x)

\* In a team that was not killed, who is there is the one that execs.
ExecsNow(h) == \/ st[h] = "execing"
               \/ st[h] = "waiting" /\ req[h] = "unexec"
               \/ st[h] = "waiting" /\ origin[h] = "exec" /\ Blocked(h)
ExecBy == \A p \in Team \ killed : executing[p] => \E h \in Guest : team[h] = p /\ ExecsNow(h)

\* Of the threads that are gone, one at most is left with an id.
Ghost(g) == st[g] = "gone" /\ team[g] \notin killed /\ Leftover(g)
OneLeft == \A g, h \in Guest : Ghost(g) /\ Ghost(h) /\ tid[g] = tid[h] => g = h

TablesOK == ServedOK /\ GoneOK /\ WaitOK /\ ExecBy /\ OneLeft

\* What the tables hold is of somebody, of somebody alive or of an old image if
\* nobody was killed.
Lives(g) == Alive(g) \/ (st[g] = "gone" /\ Leftover(g))
ThreadsOK == \A p \in Team : \A t \in threads[p] : \E g \in Guest : team[g] = p /\ tid[g] = t
LiveOK ==
    \A p \in Team \ killed :
        /\ p \in procs => \E g \in Guest : team[g] = p /\ Alive(g)
        /\ \A t \in threads[p] : \E g \in Guest : team[g] = p /\ tid[g] = t /\ Lives(g)
        /\ \A h \in Guest : team[h] = p /\ tid[h] \in sysThreads =>
               \E g \in Guest : tid[g] = tid[h] /\ Lives(g)

\* A fork call and the child that waits for it.
ForksOK(g) ==
    req[g] = "fork" /\ Pending(g) =>
        /\ newest[g] \in Guest /\ origin[newest[g]] = "fork" /\ parent[newest[g]] = g
        /\ st[newest[g]] # "unborn" /\ ~unlocked[team[newest[g]]]
        /\ team[newest[g]] \notin killed => Early(newest[g])
ForkedOK(g) ==
    origin[g] = "fork" =>
        /\ st[g] = "unborn" => ~unlocked[team[g]]
        /\ Outside(g) /\ unlocked[team[g]] => team[g] \in procs
        /\ st[g] # "unborn" /\ Early(g) =>
               \/ unlocked[team[g]]
               \/ team[parent[g]] \in killed
               \/ st[parent[g]] = "waiting" /\ req[parent[g]] = "fork" /\ newest[parent[g]] = g
ForkOK == \A g \in Guest : ForksOK(g) /\ ForkedOK(g)

GuestsOK == \A g \in Guest : StateOK(g) /\ JobsOK(g) /\ SocketOK(g)

TeamsInductive ==
    /\ TypeOK /\ refused = {}
    /\ GuestsOK /\ EndsOK /\ FamilyOK /\ TablesOK /\ ThreadsOK /\ LiveOK /\ ForkOK

-----------------------------------------------------------------------------
(* Ids and workers. *)

LEMMA Ids ==
    \A g \in Guest :
        /\ team[g] \in Team /\ tid[g] \in Tid /\ origin[g] \in {"launch", "spawn", "fork", "exec"}
        /\ Ident(g) \in Idents /\ Ident(g) # None
        /\ Ident(g)[1] = team[g] /\ Ident(g)[2] = tid[g]
        /\ <<g, "call">> \in Worker /\ <<g, "hang">> \in Worker
<1> SUFFICES ASSUME NEW g \in Guest
             PROVE  /\ team[g] \in Team /\ tid[g] \in Tid
                    /\ origin[g] \in {"launch", "spawn", "fork", "exec"}
                    /\ Ident(g) \in Idents /\ Ident(g) # None
                    /\ Ident(g)[1] = team[g] /\ Ident(g)[2] = tid[g]
                    /\ <<g, "call">> \in Worker /\ <<g, "hang">> \in Worker
  OBVIOUS
<1>1. team[g] \in Team /\ tid[g] \in Tid /\ origin[g] \in {"launch", "spawn", "fork", "exec"}
  BY TeamsAssumption
<1>2. Ident(g) \in Idents
  BY DEF Idents
<1>3. Ident(g) # None
  BY <1>2, TeamsAssumption
<1>4. Ident(g)[1] = team[g] /\ Ident(g)[2] = tid[g]
  BY DEF Ident
<1>5. <<g, "call">> \in Worker /\ <<g, "hang">> \in Worker
  BY DEF Worker
<1> QED BY <1>1, <1>2, <1>3, <1>4, <1>5

LEMMA Nones ==
    /\ None \notin Guest /\ None \notin Fd /\ None \notin Request /\ None \notin Step
    /\ \A s \in {"c1", "c2", "c3", "c4", "d1", "d2", "run"} : s \in Step /\ s # None
    /\ \A r \in {"connect", "forkwait", "work", "fork", "exec", "unexec", "disconnect"} :
           r \in Request /\ r # None
BY TeamsAssumption DEF Step, Request

\* A worker works for a call or for a hangup.
LEMMA Workers ==
    ASSUME NEW w \in Worker
    PROVE  \E g \in Guest : w = <<g, "call">> \/ w = <<g, "hang">>
BY DEF Worker

\* One worker goes on, the others stay where they are.
LEMMA CallGoes ==
    ASSUME TypeOK, NEW g \in Guest, NEW s, job' = [job EXCEPT ![<<g, "call">>] = s]
    PROVE  \A h \in Guest : /\ CallJob(h)' = IF h = g THEN s ELSE CallJob(h)
                            /\ HangJob(h)' = HangJob(h)
BY Ids DEF CallJob, HangJob, TypeOK

LEMMA HangGoes ==
    ASSUME TypeOK, NEW g \in Guest, NEW s, job' = [job EXCEPT ![<<g, "hang">>] = s]
    PROVE  \A h \in Guest : /\ HangJob(h)' = IF h = g THEN s ELSE HangJob(h)
                            /\ CallJob(h)' = CallJob(h)
BY Ids DEF CallJob, HangJob, TypeOK

LEMMA CallNamed ==
    ASSUME TypeOK, NEW g \in Guest, NEW c, ctx' = [ctx EXCEPT ![<<g, "call">>] = c]
    PROVE  \A h \in Guest : /\ CallCtx(h)' = IF h = g THEN c ELSE CallCtx(h)
                            /\ HangCtx(h)' = HangCtx(h)
BY Ids DEF CallCtx, HangCtx, TypeOK

LEMMA HangNamed ==
    ASSUME TypeOK, NEW g \in Guest, NEW c, ctx' = [ctx EXCEPT ![<<g, "hang">>] = c]
    PROVE  \A h \in Guest : /\ HangCtx(h)' = IF h = g THEN c ELSE HangCtx(h)
                            /\ CallCtx(h)' = CallCtx(h)
BY Ids DEF CallCtx, HangCtx, TypeOK

LEMMA JobsStay ==
    ASSUME job' = job
    PROVE  \A h \in Guest : CallJob(h)' = CallJob(h) /\ HangJob(h)' = HangJob(h)
BY DEF CallJob, HangJob

LEMMA NamesStay ==
    ASSUME ctx' = ctx
    PROVE  \A h \in Guest : CallCtx(h)' = CallCtx(h) /\ HangCtx(h)' = HangCtx(h)
BY DEF CallCtx, HangCtx

\* Who has not passed WaitForExec has not connected.
LEMMA Knocking == \A g \in Guest : Blocked(g) => Knocks(g)
BY Nones DEF Blocked, Knocks, Pending

\* What the assumptions say of a family, in the form the steps use.
LEMMA Family ==
    \A g, h \in Guest :
        /\ Root(g) <=> origin[g] \in {"launch", "fork"}
        /\ Root(g) /\ Root(h) /\ team[g] = team[h] => g = h
        /\ ~Root(g) => parent[g] \in Guest /\ team[parent[g]] = team[g]
        /\ origin[g] = "fork" => parent[g] \in Guest /\ team[parent[g]] # team[g]
        /\ origin[g] \in {"spawn", "exec"} => parent[g] \in Guest
        /\ origin[g] = "spawn" /\ g # h => tid[g] # tid[h]
        /\ tid[g] = tid[h] => team[g] = team[h]
BY FamilyAssumption DEF Root

\* There are finitely many threads, so that a process counts them.
LEMMA TidFinite == IsFiniteSet(Tid) /\ Cardinality(Tid) \in Nat
<1>1. tid \in Surjection(Guest, Tid)
  BY TeamsAssumption DEF Surjection, Tid
<1> QED BY <1>1, FS_Surjection, FS_CardinalityType, TeamsAssumption

LEMMA TeamsInitInductive == Init => TeamsInductive
<1> SUFFICES ASSUME Init PROVE TeamsInductive
  OBVIOUS
<1>0. /\ \A g \in Guest : /\ st[g] = "unborn" /\ req[g] = None /\ sent[g] = FALSE
                          /\ newest[g] = None /\ fd[g] = None
      /\ \A f \in Fd : open[f] = None /\ connections[f] = None
      /\ \A p \in Team : threads[p] = {} /\ executing[p] = FALSE /\ unlocked[p] = FALSE
      /\ procs = {} /\ sysThreads = {} /\ killed = {} /\ refused = {}
  BY DEF Init
<1>1. \A g \in Guest : CallJob(g) = None /\ HangJob(g) = None
  BY Ids DEF Init, CallJob, HangJob
<1>2. TypeOK
  <2>1. 0 \in 0..Cardinality(Tid)
    BY TidFinite
  <2>2. count \in [Team -> 0..Cardinality(Tid)] /\ crossed \in BOOLEAN
    BY <2>1 DEF Init
  <2> QED BY <2>2 DEF Init, TypeOK, State
<1>3. GuestsOK
  BY <1>0, <1>1, Nones, Ids DEF GuestsOK, StateOK, JobsOK, SocketOK, Holds, Pending, Idle, Outside
<1>4. FamilyOK
  <2>1. \A g \in Guest : ~Active(g)
    BY <1>0, <1>1, Nones DEF Active, Alive, Pending
  <2> QED BY <1>0, <2>1, Nones DEF FamilyOK, RootFirst, OneActive, SpawnOK, ImageOK, ImageAlone, KilledOK
<1>5. EndsOK /\ ThreadsOK /\ LiveOK
  BY <1>0, Nones DEF EndsOK, ThreadsOK, LiveOK
<1>6. TablesOK
  BY <1>0, <1>1, Nones, Ids DEF TablesOK, OneLeft, Ghost, ServedOK, GoneOK, Known, WaitOK, ToHangUp, OldImage, ExecBy, Served, Idle, Blocked
<1>7. ForkOK
  BY <1>0, <1>1, Nones, Ids DEF ForkOK, ForksOK, ForkedOK, Outside, Pending
<1> QED BY <1>0, <1>2, <1>3, <1>4, <1>5, <1>6, <1>7 DEF TeamsInductive

-----------------------------------------------------------------------------
(* The guests.  They change nothing of the server. *)

Untouched ==
    /\ fd' = fd /\ open' = open /\ connections' = connections /\ procs' = procs
    /\ sysThreads' = sysThreads /\ threads' = threads /\ count' = count
    /\ executing' = executing /\ unlocked' = unlocked /\ left' = left /\ refused' = refused
    /\ job' = job /\ ctx' = ctx
    /\ \A h \in Guest : /\ CallJob(h)' = CallJob(h) /\ HangJob(h)' = HangJob(h)
                        /\ CallCtx(h)' = CallCtx(h) /\ HangCtx(h)' = HangCtx(h)
                        /\ (Holds(h)' <=> Holds(h)) /\ (Known(h)' <=> Known(h))
                        /\ (Leftover(h)' <=> Leftover(h)) /\ (ToHangUp(h)' <=> ToHangUp(h))

LEMMA ServerUntouched ==
    ASSUME UNCHANGED <<sockets, job, ctx, system, left, refused>>
    PROVE  Untouched
<1>1. /\ fd' = fd /\ open' = open /\ connections' = connections /\ job' = job /\ ctx' = ctx
      /\ procs' = procs /\ sysThreads' = sysThreads /\ threads' = threads /\ count' = count
      /\ executing' = executing /\ unlocked' = unlocked /\ left' = left /\ refused' = refused
  BY DEF sockets, system, process
<1>2. ASSUME NEW h \in Guest
      PROVE  /\ CallJob(h)' = CallJob(h) /\ HangJob(h)' = HangJob(h)
             /\ CallCtx(h)' = CallCtx(h) /\ HangCtx(h)' = HangCtx(h)
  BY <1>1, JobsStay, NamesStay
<1>3. ASSUME NEW h \in Guest
      PROVE  /\ (Holds(h)' <=> Holds(h)) /\ (Known(h)' <=> Known(h))
             /\ (Leftover(h)' <=> Leftover(h)) /\ (ToHangUp(h)' <=> ToHangUp(h))
  BY <1>1, <1>2 DEF Holds, Known, Leftover, ToHangUp
<1> QED BY <1>1, <1>2, <1>3 DEF Untouched

LEMMA GuestTypes ==
    ASSUME TypeOK, Untouched, killed' \subseteq Team, crossed' \in BOOLEAN,
           st' \in [Guest -> State], req' \in [Guest -> Request \cup {None}],
           sent' \in [Guest -> BOOLEAN], newest' \in [Guest -> Guest \cup {None}]
    PROVE  TypeOK'
BY DEF TypeOK, Untouched

\* Nobody begins to wait for the end of an exec, and who is gone stays so.
LEMMA WaitsOn ==
    ASSUME WaitOK, Untouched,
           \A h \in Guest : /\ st[h] = "gone" => st'[h] = "gone"
                            /\ origin[h] = "exec" /\ Blocked(h)' => Blocked(h)
    PROVE  WaitOK'
<1>1. \A h, x \in Guest : OldImage(h, x) => OldImage(h, x)'
  BY DEF OldImage, Untouched
<1> QED BY <1>1 DEF WaitOK, Untouched

\* Nobody more is left when he is gone.
LEMMA OneLeftStays ==
    ASSUME OneLeft, \A h \in Guest : Ghost(h)' => Ghost(h)
    PROVE  OneLeft'
BY DEF OneLeft

\* A guest that is in no call makes one.
Asks(g, r) ==
    /\ \/ st[g] = "up" /\ r \in {"work", "disconnect"}
       \/ st[g] = "up" /\ r = "exec" /\ \E x \in Guest : origin[x] = "exec" /\ parent[x] = g
       \/ st[g] = "atfork" /\ r = "forkwait"
       \/ st[g] = "execing" /\ r = "unexec"
    /\ Send(g, r) /\ killed' = killed /\ crossed' = crossed /\ Untouched

LEMMA AskKeeps ==
    ASSUME TeamsInductive, NEW g \in Guest, NEW r, Asks(g, r)
    PROVE  TeamsInductive'
<1>0. /\ TypeOK /\ refused = {} /\ GuestsOK /\ EndsOK /\ ThreadsOK
      /\ RootFirst /\ OneActive /\ SpawnOK /\ ImageOK /\ ImageAlone /\ KilledOK
      /\ ServedOK /\ GoneOK /\ WaitOK /\ ExecBy /\ OneLeft /\ LiveOK /\ ForkOK
  BY DEF TeamsInductive, FamilyOK, TablesOK
<1>1. /\ \A h \in Guest : /\ st'[h] = IF h = g THEN "waiting" ELSE st[h]
                          /\ req'[h] = IF h = g THEN r ELSE req[h]
                          /\ sent'[h] <=> (h = g \/ sent[h])
                          /\ newest'[h] = newest[h]
      /\ killed' = killed
  BY <1>0 DEF Asks, Send, TypeOK
<1>2. r \in {"work", "disconnect", "exec", "forkwait", "unexec"} /\ r # None
  BY Nones DEF Asks
<1>3. /\ Idle(g) /\ ~sent[g] /\ CallJob(g) = None /\ st[g] \notin {"unborn", "gone"}
      /\ r = "forkwait" <=> st[g] = "atfork"
      /\ r = "unexec" <=> st[g] = "execing"
      /\ r \in {"exec", "unexec"} => \E x \in Guest : origin[x] = "exec" /\ parent[x] = g
  BY <1>0, <1>2 DEF Asks, GuestsOK, StateOK, Pending, Idle
<1>4. Untouched
  BY DEF Asks
<1>5. TypeOK'
  BY <1>0, <1>4, Nones, <1>2 DEF Untouched, Asks, Send, TypeOK, State, Request
<1>6. \A h \in Guest : StateOK(h)' /\ JobsOK(h)' /\ SocketOK(h)'
  <2> SUFFICES ASSUME NEW h \in Guest PROVE StateOK(h)' /\ JobsOK(h)' /\ SocketOK(h)'
    OBVIOUS
  <2>1. StateOK(h)'
    BY <1>0, <1>1, <1>2, <1>3, <1>4, Nones DEF Untouched, GuestsOK, StateOK, JobsOK, Pending, Idle
  <2>2. JobsOK(h)'
    BY <1>0, <1>1, <1>2, <1>3, <1>4, Nones DEF Untouched, GuestsOK, JobsOK, StateOK, Outside
  <2>3. SocketOK(h)'
    BY <1>0, <1>1, <1>2, <1>3, <1>4, Nones DEF Untouched, GuestsOK, SocketOK, Holds, Outside
  <2> QED BY <2>1, <2>2, <2>3
<1>7. EndsOK' /\ ThreadsOK'
  BY <1>0, <1>1, <1>4 DEF Untouched, EndsOK, ThreadsOK
<1>8. FamilyOK'
  <2>1. RootFirst'
    BY <1>0, <1>1, <1>2, <1>3, <1>4, Nones DEF Untouched, RootFirst, Early, Pending, Idle
  <2>2. OneActive'
    BY <1>0, <1>1, <1>2, <1>3, <1>4, Nones DEF Untouched, OneActive, Active, Alive, Pending, Idle
  <2>3. SpawnOK'
    BY <1>0, <1>1, <1>2, <1>3, <1>4, Nones, Family DEF Untouched, SpawnOK, Asks
  <2>4. ImageOK'
    BY <1>0, <1>1, <1>2, <1>3, <1>4, Nones, Family DEF Untouched, ImageOK, Pending
  <2>5. ImageAlone'
    <3>1. \A h \in Guest : (Active(h)' <=> Active(h)) /\ (Knocks(h)' => Knocks(h))
      BY <1>0, <1>1, <1>2, <1>3, <1>4, Nones DEF Untouched, Active, Alive, Knocks, Pending, Idle
    <3> QED BY <1>0, <3>1 DEF ImageAlone
  <2>6. KilledOK'
    BY <1>0, <1>1, <1>2, <1>3, <1>4 DEF KilledOK, Idle
  <2> QED BY <2>1, <2>2, <2>3, <2>4, <2>5, <2>6 DEF FamilyOK
<1>9. TablesOK'
  <2>1. ServedOK'
    BY <1>0, <1>1, <1>2, <1>3, <1>4, Nones DEF Untouched, ServedOK, Served, Idle, Known
  <2>2. GoneOK'
    BY <1>0, <1>1, <1>2, <1>3, <1>4, Nones DEF Untouched, GoneOK, Known, ToHangUp, Leftover, Holds, BlockedImage, Blocked, Pending, Idle
  <2>3. WaitOK'
    BY <1>0, <1>1, <1>2, <1>3, <1>4, WaitsOn DEF Untouched, Blocked, Idle
  <2>4. ExecBy'
    BY <1>0, <1>1, <1>2, <1>3, <1>4, Nones DEF Untouched, ExecBy, ExecsNow, Blocked, Idle
  <2>5. OneLeft'
    <3>1. \A h \in Guest : Ghost(h)' => Ghost(h)
      BY <1>1, <1>3, <1>4 DEF Untouched, Ghost, Idle
    <3> QED BY <1>0, <3>1, OneLeftStays
  <2> QED BY <2>1, <2>2, <2>3, <2>4, <2>5 DEF TablesOK
<1>10. LiveOK'
  BY <1>0, <1>1, <1>3, <1>4, Nones DEF Untouched, LiveOK, Leftover, Holds, Lives, Alive, Idle
<1>11. ForkOK'
  <2> SUFFICES ASSUME NEW h \in Guest PROVE ForksOK(h)' /\ ForkedOK(h)'
    BY DEF ForkOK
  <2>1. ForksOK(h)'
    BY <1>0, <1>1, <1>2, <1>3, <1>4, Nones DEF Untouched, ForkOK, ForksOK, Early, Pending, Idle
  <2>2. ForkedOK(h)'
    BY <1>0, <1>1, <1>2, <1>3, <1>4, Nones, Family
       DEF Untouched, ForkOK, ForkedOK, Early, Outside, Pending, Idle
  <2> QED BY <2>1, <2>2
<1> QED BY <1>0, <1>4, Nones, <1>5, <1>6, <1>7, <1>8, <1>9, <1>10, <1>11
        DEF TeamsInductive, GuestsOK, Untouched

LEMMA LaunchKeeps ==
    ASSUME TeamsInductive, NEW g \in Guest, Launch(g)
    PROVE  TeamsInductive'
<1>0. /\ TypeOK /\ refused = {} /\ GuestsOK /\ EndsOK /\ ThreadsOK
      /\ RootFirst /\ OneActive /\ SpawnOK /\ ImageOK /\ ImageAlone /\ KilledOK
      /\ ServedOK /\ GoneOK /\ WaitOK /\ ExecBy /\ OneLeft /\ LiveOK /\ ForkOK
  BY DEF TeamsInductive, FamilyOK, TablesOK
<1>1. /\ \A h \in Guest : /\ st'[h] = IF h = g THEN "waiting" ELSE st[h]
                          /\ req'[h] = IF h = g THEN "connect" ELSE req[h]
                          /\ sent'[h] <=> (h = g \/ sent[h])
                          /\ newest'[h] = newest[h]
      /\ killed' = killed
  BY <1>0 DEF Launch, Send, TypeOK, seen
<1>2. Untouched
  BY ServerUntouched DEF Launch, seen
<1>3. /\ st[g] = "unborn" /\ origin[g] = "launch" /\ Root(g) /\ Early(g)
      /\ req[g] = None /\ ~sent[g] /\ CallJob(g) = None /\ HangJob(g) = None /\ fd[g] = None
  BY <1>0 DEF Launch, GuestsOK, StateOK, Pending, Root, Early
<1>4. team[g] \notin killed
  BY <1>0, <1>3 DEF KilledOK
<1>5. \A h \in Guest : h # g /\ team[h] = team[g] => st[h] = "unborn" /\ ~Pending(h)
  BY <1>0, <1>3 DEF RootFirst, GuestsOK, StateOK
<1>6. TypeOK'
  <2>1. st' \in [Guest -> State] /\ req' \in [Guest -> Request \cup {None}]
    BY <1>0 DEF Launch, Send, TypeOK, State, Request
  <2>2. /\ sent' \in [Guest -> BOOLEAN] /\ newest' \in [Guest -> Guest \cup {None}]
        /\ killed' \subseteq Team /\ crossed' \in BOOLEAN
    BY <1>0 DEF Launch, Send, TypeOK, seen
  <2> QED BY <1>0, <1>2, <2>1, <2>2, GuestTypes
<1>7. ASSUME NEW h \in Guest PROVE StateOK(h)' /\ JobsOK(h)' /\ SocketOK(h)'
  <2>1. StateOK(h)'
    BY <1>0, <1>1, <1>2, <1>3, Nones DEF Untouched, GuestsOK, StateOK, Pending, Idle
  <2>2. JobsOK(h)'
    BY <1>0, <1>1, <1>2, <1>3, Nones DEF Untouched, GuestsOK, JobsOK, Outside
  <2>3. SocketOK(h)'
    BY <1>0, <1>1, <1>2, <1>3, Nones DEF Untouched, GuestsOK, SocketOK, Holds, Outside
  <2> QED BY <2>1, <2>2, <2>3
<1>8. EndsOK' /\ ThreadsOK'
  BY <1>0, <1>1, <1>2 DEF EndsOK, ThreadsOK, Untouched
<1>9. FamilyOK'
  <2>1. RootFirst'
    BY <1>0, <1>1, <1>2, <1>3, <1>5, Family DEF Untouched, RootFirst, Early, Pending
  <2>2. OneActive'
    BY <1>0, <1>1, <1>2, <1>3, <1>5, Family DEF Untouched, OneActive, Active, Alive, Pending
  <2>3. SpawnOK'
    BY <1>0, <1>1, <1>2, <1>3, Family DEF SpawnOK
  <2>4. ImageOK'
    BY <1>0, <1>1, <1>2, <1>3, Family DEF Untouched, ImageOK, Pending
  <2>5. ImageAlone'
    <3>1. ASSUME NEW h \in Guest, h # g
          PROVE  (Active(h)' => Active(h)) /\ (Knocks(h)' => Knocks(h))
      <4>1. CallJob(h)' = CallJob(h)
        BY <1>2 DEF Untouched
      <4> QED BY <1>1, <3>1, <4>1 DEF Active, Alive, Knocks, Pending
    <3>2. \A h \in Guest : h # g /\ team[h] = team[g] => ~Knocks(h)
      BY <1>0, <1>5, Nones DEF Knocks, Pending
    <3> QED BY <1>0, <1>3, <3>1, <3>2 DEF ImageAlone
  <2>6. KilledOK'
    BY <1>0, <1>1, <1>4 DEF KilledOK
  <2> QED BY <2>1, <2>2, <2>3, <2>4, <2>5, <2>6 DEF FamilyOK
<1>10. TablesOK'
  <2>1. ServedOK'
    BY <1>0, <1>1, <1>2, <1>3, Nones DEF Untouched, ServedOK, Served, Idle, Known
  <2>2. GoneOK'
    BY <1>0, <1>1, <1>2, <1>3 DEF Untouched, GoneOK, Known, ToHangUp, Leftover, Holds, BlockedImage, Blocked, Pending
  <2>3. WaitOK'
    BY <1>0, <1>1, <1>2, <1>3, WaitsOn DEF Untouched, Blocked
  <2>4. ExecBy'
    BY <1>0, <1>1, <1>2, <1>3 DEF Untouched, ExecBy, ExecsNow, Blocked, Idle
  <2>5. OneLeft'
    <3>1. \A h \in Guest : Ghost(h)' => Ghost(h)
      BY <1>1, <1>2, <1>3 DEF Untouched, Ghost, Idle
    <3> QED BY <1>0, <3>1, OneLeftStays
  <2> QED BY <2>1, <2>2, <2>3, <2>4, <2>5 DEF TablesOK
<1>11. LiveOK'
  BY <1>0, <1>1, <1>2, <1>3 DEF Untouched, LiveOK, Leftover, Holds, Lives, Alive
<1>12. ForkOK'
  <2> SUFFICES ASSUME NEW h \in Guest PROVE ForksOK(h)' /\ ForkedOK(h)'
    BY DEF ForkOK
  <2>1. ForksOK(h)'
    BY <1>0, <1>1, <1>2, <1>3 DEF Untouched, ForkOK, ForksOK, Early, Pending
  <2>2. ForkedOK(h)'
    BY <1>0, <1>1, <1>2, <1>3, Family DEF Untouched, ForkOK, ForkedOK, Early, Outside, Pending
  <2> QED BY <2>1, <2>2
<1> QED BY <1>0, <1>2, <1>6, <1>7, <1>8, <1>9, <1>10, <1>11, <1>12
        DEF TeamsInductive, GuestsOK, Untouched

LEMMA SpawnKeeps ==
    ASSUME TeamsInductive, NEW g \in Guest, NEW c \in Guest, Spawn(g, c)
    PROVE  TeamsInductive'
<1>0. /\ TypeOK /\ refused = {} /\ GuestsOK /\ EndsOK /\ ThreadsOK
      /\ RootFirst /\ OneActive /\ SpawnOK /\ ImageOK /\ ImageAlone /\ KilledOK
      /\ ServedOK /\ GoneOK /\ WaitOK /\ ExecBy /\ OneLeft /\ LiveOK /\ ForkOK
  BY DEF TeamsInductive, FamilyOK, TablesOK
<1>1. st[g] = "up" /\ st[c] = "unborn" /\ g # c /\ origin[c] = "spawn" /\ parent[c] = g
  BY DEF Spawn
<1>2. /\ \A h \in Guest : /\ st'[h] = IF h = g THEN "spawning" ELSE IF h = c THEN "waiting" ELSE st[h]
                          /\ req'[h] = IF h = c THEN "connect" ELSE req[h]
                          /\ sent'[h] <=> h = c \/ (h # g /\ sent[h])
                          /\ newest'[h] = IF h = g THEN c ELSE newest[h]
      /\ killed' = killed
  BY <1>0, <1>1 DEF Spawn, SendBoth, TypeOK, seen
<1>3. Untouched
  BY ServerUntouched DEF Spawn, seen
<1>4. /\ req[c] = None /\ ~sent[c] /\ CallJob(c) = None /\ HangJob(c) = None /\ fd[c] = None
      /\ ~Root(c) /\ ~Pending(c)
      /\ ~sent[g] /\ CallJob(g) = None /\ ~Pending(g) /\ team[g] = team[c]
  BY <1>0, <1>1, Family DEF GuestsOK, StateOK, Pending, Idle
<1>5. team[g] \notin killed
  BY <1>0, <1>1 DEF KilledOK
<1>6. TypeOK'
  <2>1. st' \in [Guest -> State] /\ req' \in [Guest -> Request \cup {None}]
    BY <1>0 DEF Spawn, SendBoth, TypeOK, State, Request
  <2>2. /\ sent' \in [Guest -> BOOLEAN] /\ newest' \in [Guest -> Guest \cup {None}]
        /\ killed' \subseteq Team /\ crossed' \in BOOLEAN
    BY <1>0 DEF Spawn, SendBoth, TypeOK, seen
  <2> QED BY <1>0, <1>3, <2>1, <2>2, GuestTypes
<1>7. ASSUME NEW h \in Guest PROVE StateOK(h)' /\ JobsOK(h)' /\ SocketOK(h)'
  <2>1. StateOK(h)'
    BY <1>0, <1>1, <1>2, <1>3, <1>4, Nones DEF Untouched, GuestsOK, StateOK, Pending, Idle
  <2>2. JobsOK(h)'
    BY <1>0, <1>1, <1>2, <1>3, <1>4, Nones DEF Untouched, GuestsOK, JobsOK, Outside
  <2>3. SocketOK(h)'
    BY <1>0, <1>1, <1>2, <1>3, <1>4, Nones DEF Untouched, GuestsOK, SocketOK, Holds, Outside
  <2> QED BY <2>1, <2>2, <2>3
<1>8. EndsOK' /\ ThreadsOK'
  BY <1>0, <1>2, <1>3 DEF EndsOK, ThreadsOK, Untouched
<1>9. FamilyOK'
  <2>1. RootFirst'
    BY <1>0, <1>1, <1>2, <1>3, <1>4, Family DEF Untouched, RootFirst, Early, Pending
  <2>2. OneActive'
    BY <1>0, <1>1, <1>2, <1>3, <1>4, Family DEF Untouched, OneActive, Active, Alive, Pending
  <2>3. SpawnOK'
    BY <1>0, <1>1, <1>2, <1>4, Family DEF SpawnOK
  <2>4. ImageOK'
    BY <1>0, <1>1, <1>2, <1>3, <1>4, Family DEF Untouched, ImageOK, Pending
  <2>5. ImageAlone'
    <3>1. ASSUME NEW h \in Guest, h # c
          PROVE  (Active(h)' => Active(h)) /\ (Knocks(h)' => Knocks(h))
      <4>1. CallJob(h)' = CallJob(h)
        BY <1>3 DEF Untouched
      <4> QED BY <1>1, <1>2, <3>1, <4>1 DEF Active, Alive, Knocks, Pending
    <3>2. \A h \in Guest : team[h] = team[c] => ~(origin[h] = "exec" /\ Knocks(h))
      BY <1>0, <1>1, <1>4, Nones DEF ImageAlone, Active, Alive, Knocks, Pending
    <3> QED BY <1>0, <1>1, <3>1, <3>2 DEF ImageAlone
  <2>6. KilledOK'
    BY <1>0, <1>2, <1>4, <1>5 DEF KilledOK
  <2> QED BY <2>1, <2>2, <2>3, <2>4, <2>5, <2>6 DEF FamilyOK
<1>10. TablesOK'
  <2>1. ServedOK'
    BY <1>0, <1>1, <1>2, <1>3, <1>4, Nones DEF Untouched, ServedOK, Served, Idle, Known
  <2>2. GoneOK'
    BY <1>0, <1>1, <1>2, <1>3, <1>4 DEF Untouched, GoneOK, Known, ToHangUp, Leftover, Holds, BlockedImage, Blocked, Pending
  <2>3. WaitOK'
    BY <1>0, <1>1, <1>2, <1>3, <1>4, WaitsOn DEF Untouched, Blocked
  <2>4. ExecBy'
    BY <1>0, <1>1, <1>2, <1>3, <1>4 DEF Untouched, ExecBy, ExecsNow, Blocked, Idle
  <2>5. OneLeft'
    <3>1. \A h \in Guest : Ghost(h)' => Ghost(h)
      BY <1>1, <1>2, <1>3 DEF Untouched, Ghost, Idle
    <3> QED BY <1>0, <3>1, OneLeftStays
  <2> QED BY <2>1, <2>2, <2>3, <2>4, <2>5 DEF TablesOK
<1>11. LiveOK'
  BY <1>0, <1>1, <1>2, <1>3 DEF Untouched, LiveOK, Leftover, Holds, Lives, Alive
<1>12. ForkOK'
  <2> SUFFICES ASSUME NEW h \in Guest PROVE ForksOK(h)' /\ ForkedOK(h)'
    BY DEF ForkOK
  <2>1. ForksOK(h)'
    BY <1>0, <1>1, <1>2, <1>3, <1>4 DEF Untouched, ForkOK, ForksOK, Early, Pending
  <2>2. ForkedOK(h)'
    BY <1>0, <1>1, <1>2, <1>3, <1>4, Family DEF Untouched, ForkOK, ForkedOK, Early, Outside, Pending
  <2> QED BY <2>1, <2>2
<1> QED BY <1>0, <1>3, <1>6, <1>7, <1>8, <1>9, <1>10, <1>11, <1>12
        DEF TeamsInductive, GuestsOK, Untouched

LEMMA SpawnDoneKeeps ==
    ASSUME TeamsInductive, NEW g \in Guest, SpawnDone(g)
    PROVE  TeamsInductive'
<1>0. /\ TypeOK /\ refused = {} /\ GuestsOK /\ EndsOK /\ ThreadsOK
      /\ RootFirst /\ OneActive /\ SpawnOK /\ ImageOK /\ ImageAlone /\ KilledOK
      /\ ServedOK /\ GoneOK /\ WaitOK /\ ExecBy /\ OneLeft /\ LiveOK /\ ForkOK
  BY DEF TeamsInductive, FamilyOK, TablesOK
<1>1. /\ \A h \in Guest : /\ st'[h] = IF h = g THEN "up" ELSE st[h]
                          /\ req'[h] = req[h] /\ newest'[h] = newest[h]
                          /\ sent'[h] <=> sent[h]
      /\ killed' = killed
  BY <1>0 DEF SpawnDone, TypeOK, seen
<1>2. Untouched
  BY ServerUntouched DEF SpawnDone, seen
<1>3. st[g] = "spawning" /\ newest[g] \in Guest /\ st[newest[g]] \in {"up", "gone"}
  BY <1>0 DEF SpawnDone, GuestsOK, StateOK
<1>4. ~sent[g] /\ CallJob(g) = None
  BY <1>0, <1>3 DEF GuestsOK, StateOK, Idle, Pending
<1>5. TypeOK'
  <2>1. st' \in [Guest -> State] /\ req' \in [Guest -> Request \cup {None}]
    BY <1>0 DEF SpawnDone, TypeOK, State
  <2>2. /\ sent' \in [Guest -> BOOLEAN] /\ newest' \in [Guest -> Guest \cup {None}]
        /\ killed' \subseteq Team /\ crossed' \in BOOLEAN
    BY <1>0 DEF SpawnDone, TypeOK, seen
  <2> QED BY <1>0, <1>2, <2>1, <2>2, GuestTypes
<1>6. ASSUME NEW h \in Guest PROVE StateOK(h)' /\ JobsOK(h)' /\ SocketOK(h)'
  <2>1. StateOK(h)'
    BY <1>0, <1>1, <1>2, <1>3, <1>4 DEF Untouched, GuestsOK, StateOK, Pending, Idle
  <2>2. JobsOK(h)' /\ SocketOK(h)'
    BY <1>0, <1>1, <1>2, <1>3 DEF Untouched, GuestsOK, JobsOK, SocketOK, Holds, Outside
  <2> QED BY <2>1, <2>2
<1>7. EndsOK' /\ ThreadsOK'
  BY <1>0, <1>1, <1>2 DEF EndsOK, ThreadsOK, Untouched
<1>8. FamilyOK'
  <2>1. RootFirst' /\ OneActive'
    BY <1>0, <1>1, <1>2, <1>3 DEF Untouched, RootFirst, OneActive, Active, Alive, Early, Pending
  <2>2. SpawnOK' /\ ImageOK' /\ KilledOK'
    BY <1>0, <1>1, <1>2, <1>3, Family DEF Untouched, SpawnOK, ImageOK, KilledOK, Pending
  <2>3. ImageAlone'
    <3>1. \A h \in Guest : (Active(h)' <=> Active(h)) /\ (Knocks(h)' <=> Knocks(h))
      BY <1>1, <1>2, <1>3 DEF Untouched, Active, Alive, Knocks, Pending
    <3> QED BY <1>0, <3>1 DEF ImageAlone
  <2> QED BY <2>1, <2>2, <2>3 DEF FamilyOK
<1>9. TablesOK'
  <2>1. ServedOK'
    BY <1>0, <1>1, <1>2, <1>3
       DEF Untouched, ServedOK, Served, Idle, Known
  <2>2. GoneOK'
    BY <1>0, <1>1, <1>2, <1>3 DEF Untouched, GoneOK, Known, ToHangUp, Leftover, Holds, BlockedImage, Blocked, Pending
  <2>3. WaitOK'
    BY <1>0, <1>1, <1>2, <1>3, WaitsOn DEF Untouched, Blocked
  <2>4. ExecBy'
    BY <1>0, <1>1, <1>2, <1>3 DEF Untouched, ExecBy, ExecsNow, Blocked
  <2>5. OneLeft'
    <3>1. \A h \in Guest : Ghost(h)' => Ghost(h)
      BY <1>1, <1>2, <1>3 DEF Untouched, Ghost, Idle
    <3> QED BY <1>0, <3>1, OneLeftStays
  <2> QED BY <2>1, <2>2, <2>3, <2>4, <2>5 DEF TablesOK
<1>10. LiveOK'
  BY <1>0, <1>1, <1>2, <1>3 DEF Untouched, LiveOK, Leftover, Holds, Lives, Alive
<1>11. ForkOK'
  BY <1>0, <1>1, <1>2, <1>3, Family DEF Untouched, ForkOK, ForksOK, ForkedOK, Early, Outside, Pending
<1> QED BY <1>0, <1>2, <1>5, <1>6, <1>7, <1>8, <1>9, <1>10, <1>11
        DEF TeamsInductive, GuestsOK, Untouched

LEMMA ForkKeeps ==
    ASSUME TeamsInductive, NEW g \in Guest, NEW c \in Guest, Fork(g, c)
    PROVE  TeamsInductive'
<1>0. /\ TypeOK /\ refused = {} /\ GuestsOK /\ EndsOK /\ ThreadsOK
      /\ RootFirst /\ OneActive /\ SpawnOK /\ ImageOK /\ ImageAlone /\ KilledOK
      /\ ServedOK /\ GoneOK /\ WaitOK /\ ExecBy /\ OneLeft /\ LiveOK /\ ForkOK
  BY DEF TeamsInductive, FamilyOK, TablesOK
<1>1. st[g] = "up" /\ st[c] = "unborn" /\ g # c /\ origin[c] = "fork" /\ parent[c] = g
  BY DEF Fork
<1>2. /\ \A h \in Guest : /\ st'[h] = IF h = g \/ h = c THEN "waiting" ELSE st[h]
                          /\ req'[h] = IF h = c THEN "connect" ELSE IF h = g THEN "fork" ELSE req[h]
                          /\ sent'[h] <=> h = c \/ h = g \/ sent[h]
                          /\ newest'[h] = IF h = g THEN c ELSE newest[h]
      /\ killed' = killed
  BY <1>0, <1>1 DEF Fork, SendBoth, TypeOK, seen
<1>3. Untouched
  BY ServerUntouched DEF Fork, seen
<1>4. /\ req[c] = None /\ ~sent[c] /\ CallJob(c) = None /\ HangJob(c) = None /\ fd[c] = None
      /\ Root(c) /\ Early(c) /\ ~Pending(c) /\ ~unlocked[team[c]]
      /\ ~sent[g] /\ CallJob(g) = None /\ ~Pending(g) /\ team[g] # team[c]
  BY <1>0, <1>1, Family DEF GuestsOK, StateOK, Pending, Idle, Early, ForkOK, ForkedOK
<1>5. team[g] \notin killed /\ team[c] \notin killed
  BY <1>0, <1>1, <1>4 DEF KilledOK
<1>6. \A h \in Guest : h # c /\ team[h] = team[c] => st[h] = "unborn" /\ ~Pending(h)
  BY <1>0, <1>4 DEF RootFirst, GuestsOK, StateOK
<1>7. TypeOK'
  <2>1. st' \in [Guest -> State] /\ req' \in [Guest -> Request \cup {None}]
    BY <1>0 DEF Fork, SendBoth, TypeOK, State, Request
  <2>2. /\ sent' \in [Guest -> BOOLEAN] /\ newest' \in [Guest -> Guest \cup {None}]
        /\ killed' \subseteq Team /\ crossed' \in BOOLEAN
    BY <1>0 DEF Fork, SendBoth, TypeOK, seen
  <2> QED BY <1>0, <1>3, <2>1, <2>2, GuestTypes
<1>8. ASSUME NEW h \in Guest PROVE StateOK(h)' /\ JobsOK(h)' /\ SocketOK(h)'
  <2>1. StateOK(h)'
    BY <1>0, <1>1, <1>2, <1>3, <1>4, Nones DEF Untouched, GuestsOK, StateOK, Pending, Idle
  <2>2. JobsOK(h)'
    BY <1>0, <1>1, <1>2, <1>3, <1>4, Nones DEF Untouched, GuestsOK, JobsOK, Outside
  <2>3. SocketOK(h)'
    BY <1>0, <1>1, <1>2, <1>3, <1>4, Nones DEF Untouched, GuestsOK, SocketOK, Holds, Outside
  <2> QED BY <2>1, <2>2, <2>3
<1>9. EndsOK' /\ ThreadsOK'
  BY <1>0, <1>2, <1>3 DEF EndsOK, ThreadsOK, Untouched
<1>10. FamilyOK'
  <2>1. RootFirst'
    BY <1>0, <1>1, <1>2, <1>3, <1>4, <1>6, Family DEF Untouched, RootFirst, Early, Pending
  <2>2. OneActive'
    BY <1>0, <1>1, <1>2, <1>3, <1>4, <1>6, Family DEF Untouched, OneActive, Active, Alive, Pending
  <2>3. SpawnOK'
    BY <1>0, <1>1, <1>2, <1>4, Family DEF SpawnOK
  <2>4. ImageOK'
    BY <1>0, <1>1, <1>2, <1>3, <1>4, Family DEF Untouched, ImageOK, Pending
  <2>5. ImageAlone'
    <3>1. ASSUME NEW h \in Guest, h # c
          PROVE  (Active(h)' => Active(h)) /\ (Knocks(h)' => Knocks(h))
      <4>1. CallJob(h)' = CallJob(h)
        BY <1>3 DEF Untouched
      <4> QED BY <1>1, <1>2, <3>1, <4>1 DEF Active, Alive, Knocks, Pending
    <3>2. \A h \in Guest : team[h] = team[c] => ~(origin[h] = "exec" /\ Knocks(h))
      BY <1>1, <1>4, <1>6, Nones DEF Knocks, Pending
    <3> QED BY <1>0, <1>1, <3>1, <3>2 DEF ImageAlone
  <2>6. KilledOK'
    BY <1>0, <1>2, <1>4, <1>5 DEF KilledOK
  <2> QED BY <2>1, <2>2, <2>3, <2>4, <2>5, <2>6 DEF FamilyOK
<1>11. TablesOK'
  <2>1. ServedOK'
    BY <1>0, <1>1, <1>2, <1>3, <1>4, Nones DEF Untouched, ServedOK, Served, Idle, Known
  <2>2. GoneOK'
    BY <1>0, <1>1, <1>2, <1>3, <1>4 DEF Untouched, GoneOK, Known, ToHangUp, Leftover, Holds, BlockedImage, Blocked, Pending
  <2>3. WaitOK'
    BY <1>0, <1>1, <1>2, <1>3, <1>4, WaitsOn DEF Untouched, Blocked
  <2>4. ExecBy'
    BY <1>0, <1>1, <1>2, <1>3, <1>4 DEF Untouched, ExecBy, ExecsNow, Blocked, Idle
  <2>5. OneLeft'
    <3>1. \A h \in Guest : Ghost(h)' => Ghost(h)
      BY <1>1, <1>2, <1>3 DEF Untouched, Ghost, Idle
    <3> QED BY <1>0, <3>1, OneLeftStays
  <2> QED BY <2>1, <2>2, <2>3, <2>4, <2>5 DEF TablesOK
<1>12. LiveOK'
  BY <1>0, <1>1, <1>2, <1>3 DEF Untouched, LiveOK, Leftover, Holds, Lives, Alive
<1>13. ForkOK'
  <2> SUFFICES ASSUME NEW h \in Guest PROVE ForksOK(h)' /\ ForkedOK(h)'
    BY DEF ForkOK
  <2>1. ForksOK(h)'
    BY <1>0, <1>1, <1>2, <1>3, <1>4 DEF Untouched, ForkOK, ForksOK, Early, Pending
  <2>2. ForkedOK(h)'
    BY <1>0, <1>1, <1>2, <1>3, <1>4, <1>6, Family
       DEF Untouched, ForkOK, ForkedOK, Early, Outside, Pending
  <2> QED BY <2>1, <2>2
<1> QED BY <1>0, <1>3, <1>7, <1>8, <1>9, <1>10, <1>11, <1>12, <1>13
        DEF TeamsInductive, GuestsOK, Untouched

LEMMA ExecKeeps ==
    ASSUME TeamsInductive, NEW g \in Guest, NEW x \in Guest, Exec(g, x), ~crossed'
    PROVE  TeamsInductive'
<1>0. /\ TypeOK /\ refused = {} /\ GuestsOK /\ EndsOK /\ ThreadsOK
      /\ RootFirst /\ OneActive /\ SpawnOK /\ ImageOK /\ ImageAlone /\ KilledOK
      /\ ServedOK /\ GoneOK /\ WaitOK /\ ExecBy /\ OneLeft /\ LiveOK /\ ForkOK
  BY DEF TeamsInductive, FamilyOK, TablesOK
<1>1. /\ st[g] = "execing" /\ st[x] = "unborn" /\ g # x /\ origin[x] = "exec" /\ parent[x] = g
      /\ Clean(g)
  BY DEF Exec
<1>2. /\ req[x] = None /\ ~sent[x] /\ CallJob(x) = None /\ HangJob(x) = None /\ fd[x] = None
      /\ ~Root(x) /\ ~Pending(x) /\ ~Alive(x) /\ team[x] = team[g]
      /\ req[g] = "exec" /\ ~sent[g] /\ CallJob(g) = None /\ ~Pending(g) /\ Alive(g)
  BY <1>0, <1>1, Family DEF GuestsOK, StateOK, Pending, Idle, Alive
<1>3. /\ team[g] \in procs /\ executing[team[g]] /\ team[g] \notin killed /\ team[g] \in Team
  BY <1>0, <1>1, Ids DEF ServedOK, Served, Idle, KilledOK, Clean
<1>4. ASSUME NEW h \in Guest, team[h] = team[g], Alive(h)
      PROVE  /\ Idle(h) \/ (st[h] = "waiting" /\ req[h] = "work")
             /\ fd[h] # None /\ Known(h) /\ tid[h] \in threads[team[h]]
             /\ Leftover(h) /\ ToHangUp(h)
  <2>1. Idle(h) \/ (st[h] = "waiting" /\ req[h] = "work")
    BY <1>0, <1>1, <1>4 DEF Alive, Idle, Clean, TypeOK, State
  <2>2. fd[h] # None /\ Known(h) /\ tid[h] \in threads[team[h]]
    BY <1>0, <2>1, Nones DEF ServedOK, Served
  <2>3. open[fd[h]] = h
    BY <1>0, <1>4, <2>2 DEF GuestsOK, SocketOK, Alive
  <2> QED BY <2>1, <2>2, <2>3, Ids DEF Leftover, Holds, ToHangUp, Known
<1>5. ASSUME NEW h \in Guest, team[h] = team[g]
      PROVE  /\ Pending(h) => req[h] = "work"
             /\ ~Blocked(h) /\ ~Knocks(h) /\ (Early(h) => st[h] = "unborn" \/ st[h] = "atfork")
  <2>1. Pending(h) => req[h] = "work"
    <3>1. CASE Alive(h)
      <4>1. Idle(h) => ~Pending(h)
        BY <1>0 DEF GuestsOK, StateOK
      <4> QED BY <1>4, <1>5, <3>1, <4>1
    <3>2. CASE st[h] = "gone"
      BY <1>0, <1>3, <1>5, <3>2 DEF GoneOK
    <3>3. CASE st[h] = "unborn"
      BY <1>0, <3>3 DEF GuestsOK, StateOK
    <3> QED BY <3>1, <3>2, <3>3 DEF Alive
  <2> QED BY <2>1, Nones DEF Blocked, Knocks, Early, Pending
<1>6. /\ \A h \in Guest : /\ st'[h] = IF h = x THEN "waiting"
                                      ELSE IF Alive(h) /\ team[h] = team[g] THEN "gone" ELSE st[h]
                          /\ req'[h] = IF h = x THEN "connect" ELSE req[h]
                          /\ sent'[h] <=> h = x \/ sent[h]
                          /\ newest'[h] = newest[h]
      /\ killed' = killed
  BY <1>0, <1>1 DEF Exec, TypeOK, Born, Alive, seen
<1>7. Untouched
  BY ServerUntouched DEF Exec, seen
<1>8. \A h \in Guest : h # x => /\ Pending(h)' <=> Pending(h)
                                /\ Blocked(h)' <=> Blocked(h)
                                /\ Knocks(h)' <=> Knocks(h)
                                /\ Outside(h)' <=> Outside(h)
                                /\ Early(h)' => Early(h)
                                /\ Active(h)' => Active(h) /\ team[h] # team[g]
  <2> SUFFICES ASSUME NEW h \in Guest, h # x
               PROVE  /\ Pending(h)' <=> Pending(h)
                      /\ Blocked(h)' <=> Blocked(h)
                      /\ Knocks(h)' <=> Knocks(h)
                      /\ Outside(h)' <=> Outside(h)
                      /\ Early(h)' => Early(h)
                      /\ Active(h)' => Active(h) /\ team[h] # team[g]
    OBVIOUS
  <2>1. /\ Pending(h)' <=> Pending(h)
        /\ Blocked(h)' <=> Blocked(h)
        /\ Knocks(h)' <=> Knocks(h)
        /\ Outside(h)' <=> Outside(h)
    BY <1>6, <1>7 DEF Untouched, Pending, Blocked, Knocks, Outside
  <2>2. Early(h)' => Early(h)
    BY <1>6, <2>1 DEF Early
  <2>3. Active(h)' => Active(h) /\ team[h] # team[g]
    BY <1>5, <1>6, <2>1 DEF Active, Alive
  <2> QED BY <2>1, <2>2, <2>3
<1>9. TypeOK'
  <2>1. st' \in [Guest -> State] /\ req' \in [Guest -> Request \cup {None}]
    BY <1>0 DEF Exec, TypeOK, State, Request
  <2>2. /\ sent' \in [Guest -> BOOLEAN] /\ newest' \in [Guest -> Guest \cup {None}]
        /\ killed' \subseteq Team /\ crossed' \in BOOLEAN
    BY <1>0, <1>6 DEF Exec, TypeOK, seen
  <2> QED BY <1>0, <1>7, <2>1, <2>2, GuestTypes
<1>10. ASSUME NEW h \in Guest PROVE StateOK(h)' /\ JobsOK(h)' /\ SocketOK(h)'
  <2>1. StateOK(h)'
    BY <1>0, <1>1, <1>2, <1>6, <1>7, <1>8, Nones DEF Untouched, GuestsOK, StateOK, Pending, Idle, Alive
  <2>2. JobsOK(h)'
    BY <1>0, <1>1, <1>2, <1>6, <1>7, <1>8, Nones DEF Untouched, GuestsOK, JobsOK, Outside, Alive
  <2>3. SocketOK(h)'
    <3>1. /\ ~Holds(x) /\ ~Holds(x)' /\ fd'[x] = None /\ HangJob(x)' = None
      BY <1>2, <1>7 DEF Untouched, Holds
    <3>2. SocketOK(h)
      BY <1>0 DEF GuestsOK
    <3>3. CASE h = x
      BY <3>1, <3>3 DEF SocketOK
    <3>4. CASE h # x
      BY <1>6, <1>7, <1>8, <3>1, <3>2, <3>4 DEF Untouched, SocketOK
    <3> QED BY <3>3, <3>4
  <2> QED BY <2>1, <2>2, <2>3
<1>11. EndsOK' /\ ThreadsOK'
  BY <1>0, <1>6, <1>7 DEF EndsOK, ThreadsOK, Untouched
<1>12. FamilyOK'
  <2>1. RootFirst'
    <3> SUFFICES ASSUME NEW r \in Guest, NEW h \in Guest, Root(r), Early(r)', h # r, team[h] = team[r]
                 PROVE  st'[h] = "unborn"
      BY DEF RootFirst
    <3>0. r # x /\ Early(r)
      BY <1>2, <1>8
    <3>1. r # x /\ Early(r) /\ st[h] = "unborn"
      BY <1>0, <3>0 DEF RootFirst
    <3>2. r # g
      BY <1>1, <1>2, <3>0 DEF Early
    <3>3. team[r] # team[g]
      BY <1>0, <1>1, <3>1, <3>2 DEF RootFirst
    <3> QED BY <1>2, <1>6, <3>1, <3>3
  <2>2. OneActive'
    BY <1>0, <1>2, <1>8, Family DEF OneActive
  <2>3. SpawnOK'
    <3> SUFFICES ASSUME NEW h \in Guest, origin[h] = "spawn", st'[h] = "waiting", req'[h] = "connect"
                 PROVE  st'[parent[h]] = "spawning" /\ newest'[parent[h]] = h
      BY DEF SpawnOK
    <3>1. h # x /\ st[h] = "waiting" /\ req[h] = "connect" /\ ~(Alive(h) /\ team[h] = team[g])
      BY <1>1, <1>6
    <3>2. parent[h] \in Guest /\ team[parent[h]] = team[h] /\ team[h] # team[g]
      BY <3>1, Family DEF Alive
    <3>3. st[parent[h]] = "spawning" /\ newest[parent[h]] = h
      BY <1>0, <3>1 DEF SpawnOK
    <3> QED BY <1>2, <1>6, <3>2, <3>3
  <2>4. ImageOK'
    BY <1>0, <1>1, <1>2, <1>4, <1>6, <1>7, Family DEF Untouched, ImageOK, Alive
  <2>5. ImageAlone'
    BY <1>0, <1>2, <1>5, <1>8 DEF ImageAlone
  <2>6. KilledOK'
    BY <1>0, <1>2, <1>3, <1>6 DEF KilledOK
  <2> QED BY <2>1, <2>2, <2>3, <2>4, <2>5, <2>6 DEF FamilyOK
<1>13. Blocked(x)' /\ st'[x] = "waiting"
  BY <1>6 DEF Blocked
<1>14. TablesOK'
  <2>1. ServedOK'
    BY <1>0, <1>2, <1>6, <1>7, Nones DEF Untouched, ServedOK, Served, Idle, Alive
  <2>2. GoneOK'
    <3> SUFFICES ASSUME NEW h \in Guest, st'[h] = "gone", team[h] \notin killed'
                 PROVE  /\ Pending(h)' => req'[h] = "work"
                        /\ fd'[h] # None
                        /\ Leftover(h)' => /\ Known(h)' /\ tid[h] \in threads'[team[h]] /\ ToHangUp(h)'
                                           /\ executing'[team[h]] /\ \E y \in Guest : BlockedImage(h, y)'
      BY DEF GoneOK
    <3>1. h # x
      BY <1>6
    <3>2. CASE team[h] = team[g]
      <4>1. BlockedImage(h, x)'
        BY <1>1, <1>2, <1>13, <3>2 DEF BlockedImage
      <4>2. fd[h] # None /\ (Leftover(h) => Known(h) /\ tid[h] \in threads[team[h]] /\ ToHangUp(h))
        BY <1>0, <1>3, <1>4, <1>6, <3>1, <3>2 DEF GoneOK
      <4> QED BY <1>3, <1>5, <1>6, <1>7, <1>8, <3>1, <3>2, <4>1, <4>2 DEF Untouched
    <3>3. CASE team[h] # team[g]
      <4>1. st[h] = "gone" /\ team[h] \notin killed
        BY <1>6, <3>1, <3>3
      <4>2. \A y \in Guest : BlockedImage(h, y) => BlockedImage(h, y)'
        BY <1>2, <1>6, <1>8, <3>3 DEF BlockedImage
      <4> QED BY <1>0, <1>6, <1>7, <1>8, <3>1, <4>1, <4>2 DEF Untouched, GoneOK
    <3> QED BY <3>2, <3>3
  <2>3. WaitOK'
    <3> SUFFICES ASSUME NEW y \in Guest, origin[y] = "exec", Blocked(y)', executing'[team[y]]
                 PROVE  /\ team[y] \in procs' /\ threads'[team[y]] # {}
                        /\ \A t \in threads'[team[y]] : \E h \in Guest : tid[h] = t /\ OldImage(h, y)'
      BY DEF WaitOK
    <3>1. CASE y = x
      <4>1. tid[g] \in threads[team[g]]
        BY <1>2, <1>4
      <4>2. ASSUME NEW t \in threads[team[g]] PROVE \E h \in Guest : tid[h] = t /\ OldImage(h, x)'
        <5>1. PICK h \in Guest : team[h] = team[g] /\ tid[h] = t /\ Lives(h)
          BY <1>0, <1>3, <4>2 DEF LiveOK
        <5>2. h # x
          BY <1>1, <1>2, <5>1 DEF Lives
        <5>3. st'[h] = "gone"
          BY <1>6, <5>1, <5>2 DEF Lives
        <5>4. fd[h] # None /\ Known(h) /\ ToHangUp(h)
          BY <1>0, <1>3, <1>4, <5>1 DEF Lives, GoneOK
        <5> QED BY <1>2, <1>7, <5>1, <5>2, <5>3, <5>4 DEF OldImage, Untouched
      <4> QED BY <1>2, <1>3, <1>7, <3>1, <4>1, <4>2 DEF Untouched
    <3>2. CASE y # x
      <4>1. Blocked(y) /\ team[y] # team[g] /\ executing[team[y]]
        BY <1>5, <1>7, <1>8, <3>2 DEF Untouched
      <4>2. \A h \in Guest : OldImage(h, y) => OldImage(h, y)'
        BY <1>2, <1>6, <1>7, <4>1 DEF OldImage, Untouched
      <4> QED BY <1>0, <1>7, <4>1, <4>2 DEF WaitOK, Untouched
    <3> QED BY <3>1, <3>2
  <2>4. ExecBy'
    <3> SUFFICES ASSUME NEW p \in Team \ killed', executing'[p]
                 PROVE  \E h \in Guest : team[h] = p /\ ExecsNow(h)'
      BY DEF ExecBy
    <3>1. CASE p = team[g]
      BY <1>1, <1>2, <1>13, <3>1 DEF ExecsNow
    <3>2. CASE p # team[g]
      <4>1. PICK h \in Guest : team[h] = p /\ ExecsNow(h)
        BY <1>0, <1>6, <1>7 DEF ExecBy, Untouched
      <4> QED BY <1>2, <1>6, <1>8, <3>2, <4>1 DEF ExecsNow
    <3> QED BY <3>1, <3>2
  <2>5. OneLeft'
    <3> SUFFICES ASSUME NEW a \in Guest, NEW b \in Guest, Ghost(a)', Ghost(b)', tid[a] = tid[b]
                 PROVE  a = b
      BY DEF OneLeft
    <3>1. a # x /\ b # x /\ team[a] = team[b]
      BY <1>6, Family DEF Ghost
    <3>2. ASSUME NEW h \in Guest, h # x, Ghost(h)'
          PROVE  IF team[h] = team[g] THEN Active(h) ELSE Ghost(h)
      <4>1. team[h] \notin killed /\ Leftover(h) /\ (st[h] = "gone" \/ (Alive(h) /\ team[h] = team[g]))
        BY <1>6, <1>7, <3>2 DEF Ghost, Untouched
      <4>2. st[h] = "gone" /\ team[h] = team[g] => FALSE
        BY <1>0, <1>5, <4>1 DEF GoneOK, BlockedImage
      <4> QED BY <4>1, <4>2 DEF Ghost, Active
    <3> QED BY <1>0, <3>1, <3>2 DEF OneLeft, OneActive
  <2> QED BY <2>1, <2>2, <2>3, <2>4, <2>5 DEF TablesOK
<1>15. LiveOK'
  <2>1. \A h \in Guest : Lives(h) => Lives(h)'
    BY <1>2, <1>4, <1>6, <1>7 DEF Lives, Alive, Untouched
  <2>2. \A p \in Team : (\E h \in Guest : team[h] = p /\ Alive(h)) => \E h \in Guest : team[h] = p /\ Alive(h)'
    BY <1>2, <1>6 DEF Alive
  <2> QED BY <1>0, <1>6, <1>7, <2>1, <2>2 DEF LiveOK, Untouched
<1>16. ForkOK'
  <2> SUFFICES ASSUME NEW h \in Guest PROVE ForksOK(h)' /\ ForkedOK(h)'
    BY DEF ForkOK
  <2>1. ForksOK(h)'
    <3> SUFFICES ASSUME req'[h] = "fork", Pending(h)' PROVE ForksOK(h)'
      BY DEF ForksOK
    <3>1. h # x /\ req[h] = "fork" /\ Pending(h)
      BY <1>6, <1>8
    <3>2. PICK c \in Guest : c = newest[h] /\ c = newest'[h]
      <4>1. newest[h] \in Guest
        BY <1>0, <3>1 DEF ForkOK, ForksOK
      <4> QED BY <1>6, <4>1
    <3>3. /\ origin[c] = "fork" /\ parent[c] = h /\ st[c] # "unborn" /\ ~unlocked[team[c]]
          /\ team[c] \notin killed => Early(c)
      BY <1>0, <3>1, <3>2 DEF ForkOK, ForksOK
    <3>4. Root(c) /\ c # x
      BY <1>2, <3>3 DEF Root
    <3>5. team[c] # team[g]
      <4> SUFFICES ASSUME team[c] = team[g] PROVE FALSE
        OBVIOUS
      <4>1. Early(c) /\ c # g
        BY <1>1, <1>2, <1>3, <3>3 DEF Early
      <4>2. st[g] = "unborn"
        BY <1>0, <3>4, <4>1 DEF RootFirst
      <4> QED BY <1>1, <4>2
    <3>6. st'[c] = st[c] /\ req'[c] = req[c] /\ (Pending(c)' <=> Pending(c))
      BY <1>6, <1>8, <3>4, <3>5
    <3>7. Early(c) => Early(c)'
      BY <3>6 DEF Early
    <3> QED BY <1>6, <1>7, <3>2, <3>3, <3>6, <3>7 DEF ForksOK, Untouched
  <2>2. ForkedOK(h)'
    <3> SUFFICES ASSUME origin[h] = "fork" PROVE ForkedOK(h)'
      BY DEF ForkedOK
    <3>1. h # x /\ parent[h] \in Guest
      BY <1>1, Family
    <3>2. st'[h] = "unborn" <=> st[h] = "unborn"
      BY <1>6, <3>1 DEF Alive
    <3>3. st[parent[h]] = "waiting" /\ req[parent[h]] = "fork" =>
              st'[parent[h]] = "waiting" /\ req'[parent[h]] = "fork"
      BY <1>0, <1>1, <1>5, <1>6, <3>1 DEF Alive, GuestsOK, StateOK
    <3> QED BY <1>0, <1>6, <1>7, <1>8, <3>1, <3>2, <3>3 DEF ForkOK, ForkedOK, Untouched
  <2> QED BY <2>1, <2>2
<1> QED BY <1>0, <1>7, <1>9, <1>10, <1>11, <1>12, <1>14, <1>15, <1>16
        DEF TeamsInductive, GuestsOK, Untouched

LEMMA KillKeeps ==
    ASSUME TeamsInductive, NEW p \in Team, Kill(p)
    PROVE  TeamsInductive'
<1>0. /\ TypeOK /\ refused = {} /\ GuestsOK /\ EndsOK /\ ThreadsOK
      /\ RootFirst /\ OneActive /\ SpawnOK /\ ImageOK /\ ImageAlone /\ KilledOK
      /\ ServedOK /\ GoneOK /\ WaitOK /\ ExecBy /\ OneLeft /\ LiveOK /\ ForkOK
  BY DEF TeamsInductive, FamilyOK, TablesOK
<1>1. /\ \A h \in Guest : /\ st'[h] = IF Alive(h) /\ team[h] = p THEN "gone" ELSE st[h]
                          /\ req'[h] = req[h] /\ newest'[h] = newest[h]
                          /\ sent'[h] <=> sent[h]
      /\ killed' = killed \cup {p}
  BY <1>0 DEF Kill, TypeOK, Born, Alive
<1>2. Untouched
  BY ServerUntouched DEF Kill
<1>3. \A h \in Guest : Root(h) /\ team[h] = p => st[h] # "unborn"
  <2>1. PICK h \in Guest : Alive(h) /\ team[h] = p
    BY DEF Kill, Born, Alive
  <2> QED BY <1>0, <2>1 DEF RootFirst, Early, Alive
<1>4. TypeOK'
  <2>1. st' \in [Guest -> State] /\ req' \in [Guest -> Request \cup {None}]
    BY <1>0 DEF Kill, TypeOK, State
  <2>2. /\ sent' \in [Guest -> BOOLEAN] /\ newest' \in [Guest -> Guest \cup {None}]
        /\ killed' \subseteq Team /\ crossed' \in BOOLEAN
    BY <1>0 DEF Kill, TypeOK
  <2> QED BY <1>0, <1>2, <2>1, <2>2, GuestTypes
<1>5. ASSUME NEW h \in Guest PROVE StateOK(h)' /\ JobsOK(h)' /\ SocketOK(h)'
  <2>1. StateOK(h)'
    BY <1>0, <1>1, <1>2 DEF Untouched, GuestsOK, StateOK, Pending, Idle, Alive
  <2>2. JobsOK(h)' /\ SocketOK(h)'
    BY <1>0, <1>1, <1>2 DEF Untouched, GuestsOK, JobsOK, SocketOK, Holds, Outside
  <2> QED BY <2>1, <2>2
<1>6. EndsOK' /\ ThreadsOK'
  <2>1. killed \subseteq killed'
    BY <1>1
  <2> QED BY <1>0, <1>2, <2>1 DEF EndsOK, ThreadsOK, Untouched
<1>7. FamilyOK'
  <2>1. RootFirst'
    BY <1>0, <1>1, <1>2 DEF Untouched, RootFirst, Early, Pending, Alive
  <2>2. OneActive'
    BY <1>0, <1>1, <1>2 DEF Untouched, OneActive, Active, Alive, Pending
  <2>3. SpawnOK'
    BY <1>0, <1>1, Family DEF SpawnOK, Alive
  <2>4. ImageOK'
    BY <1>0, <1>1, <1>2, Family DEF Untouched, ImageOK, Pending, Alive
  <2>5. ImageAlone'
    BY <1>0, <1>1, <1>2, Family DEF Untouched, ImageAlone, Knocks, Active, Alive, Pending
  <2>6. KilledOK'
    BY <1>0, <1>1, <1>3 DEF KilledOK, Alive
  <2> QED BY <2>1, <2>2, <2>3, <2>4, <2>5, <2>6 DEF FamilyOK
<1>8. TablesOK'
  <2>1. ServedOK'
    BY <1>0, <1>1, <1>2 DEF Untouched, ServedOK, Served, Idle, Known
  <2>2. GoneOK'
    BY <1>0, <1>1, <1>2, Family DEF Untouched, GoneOK, Known, ToHangUp, Leftover, Holds, BlockedImage, Blocked, Pending
  <2>3. WaitOK'
    BY <1>0, <1>1, <1>2, Family DEF Untouched, WaitOK, ToHangUp, OldImage, Blocked, Known
  <2>4. ExecBy'
    BY <1>0, <1>1, <1>2 DEF Untouched, ExecBy, ExecsNow, Blocked, Idle
  <2>5. OneLeft'
    <3>1. \A h \in Guest : Ghost(h)' => Ghost(h)
      BY <1>1, <1>2 DEF Untouched, Ghost, Alive
    <3> QED BY <1>0, <3>1, OneLeftStays
  <2> QED BY <2>1, <2>2, <2>3, <2>4, <2>5 DEF TablesOK
<1>9. LiveOK'
  BY <1>0, <1>1, <1>2, Family DEF Untouched, LiveOK, Leftover, Holds, Lives, Alive
<1>10. ForkOK'
  <2> SUFFICES ASSUME NEW h \in Guest PROVE ForksOK(h)' /\ ForkedOK(h)'
    BY DEF ForkOK
  <2>1. ForksOK(h)'
    BY <1>0, <1>1, <1>2 DEF Untouched, ForkOK, ForksOK, Early, Pending, Alive
  <2>2. ForkedOK(h)'
    BY <1>0, <1>1, <1>2, Family DEF Untouched, ForkOK, ForkedOK, Early, Outside, Pending, Alive
  <2> QED BY <2>1, <2>2
<1> QED BY <1>0, <1>2, <1>4, <1>5, <1>6, <1>7, <1>8, <1>9, <1>10
        DEF TeamsInductive, GuestsOK, Untouched

-----------------------------------------------------------------------------
(* The main loop.  It changes nothing of the tables. *)

TablesSame ==
    /\ connections' = connections /\ procs' = procs /\ sysThreads' = sysThreads
    /\ threads' = threads /\ count' = count /\ executing' = executing /\ unlocked' = unlocked
    /\ left' = left /\ refused' = refused /\ killed' = killed /\ crossed' = crossed

LEMMA AcceptKeeps ==
    ASSUME TeamsInductive, NEW g \in Guest, Accept(g), ~crossed'
    PROVE  TeamsInductive'
<1>0. /\ TypeOK /\ refused = {} /\ GuestsOK /\ EndsOK /\ ThreadsOK
      /\ RootFirst /\ OneActive /\ SpawnOK /\ ImageOK /\ ImageAlone /\ KilledOK
      /\ ServedOK /\ GoneOK /\ WaitOK /\ ExecBy /\ OneLeft /\ LiveOK /\ ForkOK
  BY DEF TeamsInductive, FamilyOK, TablesOK
<1>1. PICK f \in Free : /\ fd' = [fd EXCEPT ![g] = f] /\ open' = [open EXCEPT ![f] = g]
                        /\ ~InUse(f)
  BY DEF Accept
<1>2. /\ f \in Fd /\ f # None /\ open[f] = None /\ connections[f] = None
      /\ st[g] # "unborn" /\ fd[g] = None /\ CallJob(g) = None /\ HangJob(g) = None
  BY <1>0, <1>1, Nones DEF Free, Accept, InUse, GuestsOK, JobsOK
<1>3. ASSUME NEW h \in Guest, fd[h] = f PROVE CallJob(h) = None /\ HangJob(h) = None
  <2>1. \A w \in Worker : fd[w[1]] = f => job[w] = None
    BY <1>1 DEF InUse
  <2> QED BY <1>3, <2>1, Ids DEF CallJob, HangJob
<1>4. /\ st' = st /\ req' = req /\ sent' = sent /\ newest' = newest /\ TablesSame
      /\ job' = job /\ ctx' = ctx
      /\ \A h \in Guest : fd'[h] = IF h = g THEN f ELSE fd[h]
      /\ \A e \in Fd : open'[e] = IF e = f THEN g ELSE open[e]
      /\ \A h \in Guest : /\ CallJob(h)' = CallJob(h) /\ HangJob(h)' = HangJob(h)
                          /\ CallCtx(h)' = CallCtx(h) /\ HangCtx(h)' = HangCtx(h)
  <2>1. crossed' = crossed
    BY <1>0 DEF Accept, TypeOK
  <2> QED BY <1>0, <1>1, <2>1, JobsStay, NamesStay
          DEF Accept, TypeOK, TablesSame, guests, system, process
<1>5. ASSUME NEW h \in Guest, h # g, fd[h] # None
      PROVE  /\ fd[h] \in Fd /\ fd'[h] = fd[h]
             /\ open'[fd[h]] = h <=> open[fd[h]] = h
             /\ fd[h] = f => ~Holds(h)
             /\ Holds(h)' <=> Holds(h)
             /\ Known(h)' <=> Known(h)
             /\ Leftover(h)' <=> Leftover(h)
             /\ ToHangUp(h)' <=> ToHangUp(h)
  <2>1. fd[h] \in Fd /\ fd'[h] = fd[h]
    BY <1>0, <1>4, <1>5 DEF TypeOK
  <2>2. open'[fd[h]] = h <=> open[fd[h]] = h
    BY <1>2, <1>4, <1>5, <2>1, Nones
  <2>3. fd[h] = f => ~Holds(h)
    BY <1>2, <1>3, Nones DEF Holds
  <2>4. (Holds(h)' <=> Holds(h)) /\ (Known(h)' <=> Known(h)) /\ (ToHangUp(h)' <=> ToHangUp(h))
    BY <1>4, <2>1, <2>2 DEF Holds, Known, ToHangUp, TablesSame
  <2>5. Leftover(h)' <=> Leftover(h)
    BY <1>4, <2>1, <2>4 DEF Leftover, TablesSame
  <2> QED BY <2>1, <2>2, <2>3, <2>4, <2>5
<1>6. ~Holds(g) /\ ~Leftover(g) /\ ~Served(g) /\ (st[g] = "gone" => team[g] \in killed)
  BY <1>0, <1>2 DEF Holds, Leftover, ServedOK, GoneOK
<1>7. TypeOK'
  BY <1>0, <1>1, <1>2, <1>4 DEF TypeOK, TablesSame, Accept
<1>8. ASSUME NEW h \in Guest PROVE StateOK(h)' /\ JobsOK(h)' /\ SocketOK(h)'
  <2>1. StateOK(h)'
    BY <1>0, <1>2, <1>4 DEF GuestsOK, StateOK, Pending, Idle
  <2>2. JobsOK(h)'
    BY <1>0, <1>2, <1>4 DEF GuestsOK, JobsOK, Outside
  <2>3. ASSUME NEW k \in Guest, Holds(h)', Holds(k)', fd'[h] = fd'[k] PROVE h = k
    <3>1. CASE h # g /\ k # g
      <4>1. fd[h] # None /\ fd[k] # None
        BY <1>4, <2>3, <3>1 DEF Holds
      <4> QED BY <1>0, <1>5, <2>3, <3>1, <4>1 DEF GuestsOK, SocketOK
    <3>2. CASE h = g /\ k # g
      <4>1. fd[k] = f
        BY <1>4, <2>3, <3>2
      <4> QED BY <1>2, <1>5, <2>3, <3>2, <4>1
    <3>3. CASE h # g /\ k = g
      <4>1. fd[h] = f
        BY <1>4, <2>3, <3>3
      <4> QED BY <1>2, <1>5, <2>3, <3>3, <4>1
    <3> QED BY <3>1, <3>2, <3>3
  <2>4. SocketOK(h)'
    <3>1. CASE h = g
      BY <1>2, <1>4, <2>3, <3>1 DEF SocketOK, TablesSame
    <3>2. CASE h # g
      <4>1. SocketOK(h) /\ (Outside(h)' <=> Outside(h)) /\ (HangJob(h) # None => fd[h] # None)
        BY <1>0, <1>4 DEF GuestsOK, JobsOK, Outside
      <4>2. CASE fd[h] = None
        BY <1>4, <2>3, <3>2, <4>1, <4>2 DEF SocketOK, Holds
      <4>3. CASE fd[h] # None
        BY <1>4, <1>5, <2>3, <3>2, <4>1, <4>3 DEF SocketOK, TablesSame
      <4> QED BY <4>2, <4>3
    <3> QED BY <3>1, <3>2
  <2> QED BY <2>1, <2>2, <2>4
<1>9. EndsOK' /\ ThreadsOK'
  <2>1. ASSUME NEW e \in Fd, connections'[e] # None
        PROVE  \E h \in Guest : /\ fd'[h] = e /\ connections'[e] = Ident(h)
                                /\ Holds(h)' \/ team[h] \in killed'
    <3>1. PICK h \in Guest : /\ fd[h] = e /\ connections[e] = Ident(h)
                             /\ Holds(h) \/ team[h] \in killed
      BY <1>0, <1>4, <2>1 DEF EndsOK, TablesSame
    <3>2. h # g /\ fd[h] # None
      BY <1>2, <3>1, Nones
    <3> QED BY <1>4, <1>5, <3>1, <3>2 DEF TablesSame
  <2>2. ASSUME NEW e \in Fd, open'[e] # None PROVE fd'[open'[e]] = e
    <3>1. CASE e = f
      BY <1>4, <3>1
    <3>2. CASE e # f
      <4>1. open'[e] = open[e] /\ open[e] \in Guest /\ fd[open[e]] = e
        BY <1>0, <1>4, <2>2, <3>2 DEF EndsOK, TypeOK
      <4> QED BY <1>2, <1>4, <4>1, Nones
    <3> QED BY <3>1, <3>2
  <2>3. ThreadsOK'
    BY <1>0, <1>4 DEF ThreadsOK, TablesSame
  <2> QED BY <2>1, <2>2, <2>3 DEF EndsOK
<1>10. FamilyOK'
  <2>1. \A h \in Guest : /\ (Pending(h)' <=> Pending(h)) /\ (Early(h)' <=> Early(h))
                         /\ (Active(h)' <=> Active(h)) /\ (Knocks(h)' <=> Knocks(h))
    BY <1>4 DEF Pending, Early, Active, Alive, Knocks
  <2>2. ImageOK'
    BY <1>0, <1>2, <1>4, Family DEF ImageOK
  <2> QED BY <1>0, <1>4, <2>1, <2>2
          DEF FamilyOK, RootFirst, OneActive, SpawnOK, ImageAlone, KilledOK, TablesSame
<1>11. TablesOK'
  <2>1. ServedOK'
    BY <1>0, <1>2, <1>4, <1>5, <1>6, Nones DEF ServedOK, Served, Idle, TablesSame, GuestsOK, JobsOK
  <2>2. GoneOK'
    <3>1. \A h, y \in Guest : (Pending(h)' <=> Pending(h)) /\ (BlockedImage(h, y)' <=> BlockedImage(h, y))
      BY <1>4 DEF Pending, BlockedImage, Blocked
    <3> QED BY <1>0, <1>4, <1>5, <1>6, <3>1 DEF GoneOK, TablesSame
  <2>3. WaitOK'
    <3>1. \A h, x \in Guest : OldImage(h, x) => OldImage(h, x)'
      BY <1>2, <1>4, <1>5 DEF OldImage
    <3> QED BY <1>0, <1>4, <3>1 DEF WaitOK, Blocked, TablesSame
  <2>4. ExecBy'
    BY <1>0, <1>4 DEF ExecBy, ExecsNow, Blocked, TablesSame
  <2>5. OneLeft'
    <3>1. ASSUME NEW h \in Guest, Ghost(h)' PROVE Ghost(h)
      <4>1. h # g
        BY <1>4, <1>6, <3>1 DEF Ghost, TablesSame
      <4>2. fd[h] # None
        BY <1>4, <3>1, <4>1 DEF Ghost, Leftover, Holds
      <4> QED BY <1>4, <1>5, <3>1, <4>1, <4>2 DEF Ghost, TablesSame
    <3> QED BY <1>0, <3>1, OneLeftStays
  <2> QED BY <2>1, <2>2, <2>3, <2>4, <2>5 DEF TablesOK
<1>12. LiveOK'
  <2>1. \A h \in Guest : (Alive(h)' <=> Alive(h)) /\ (Lives(h) => Lives(h)')
    <3>1. \A h \in Guest : Leftover(h) => Leftover(h)'
      BY <1>5, <1>6 DEF Leftover, Holds
    <3> QED BY <1>4, <3>1 DEF Alive, Lives
  <2> QED BY <1>0, <1>4, <2>1 DEF LiveOK, TablesSame
<1>13. ForkOK'
  BY <1>0, <1>4 DEF ForkOK, ForksOK, ForkedOK, Early, Outside, Pending, TablesSame
<1> QED BY <1>0, <1>4, <1>7, <1>8, <1>9, <1>10, <1>11, <1>12, <1>13
        DEF TeamsInductive, GuestsOK, TablesSame

LEMMA DispatchKeeps ==
    ASSUME TeamsInductive, NEW g \in Guest, Dispatch(g)
    PROVE  TeamsInductive'
<1>0. /\ TypeOK /\ refused = {} /\ GuestsOK /\ EndsOK /\ ThreadsOK
      /\ RootFirst /\ OneActive /\ SpawnOK /\ ImageOK /\ ImageAlone /\ KilledOK
      /\ ServedOK /\ GoneOK /\ WaitOK /\ ExecBy /\ OneLeft /\ LiveOK /\ ForkOK
  BY DEF TeamsInductive, FamilyOK, TablesOK
<1> DEFINE s == IF req[g] = "connect" THEN "c1" ELSE "d1"
<1>1. fd[g] # None /\ sent[g] /\ CallJob(g) = None /\ st[g] # "unborn"
  BY <1>0 DEF Dispatch, HasSocket, CallJob, GuestsOK, StateOK, Pending
<1>2. Holds(g) /\ open[fd[g]] = g
  BY DEF Dispatch, HasSocket, Holds
<1>3. job' = [job EXCEPT ![<<g, "call">>] = s] /\ sent' = [sent EXCEPT ![g] = FALSE]
  BY DEF Dispatch
<1>4. \A h \in Guest : /\ CallJob(h)' = IF h = g THEN s ELSE CallJob(h)
                       /\ HangJob(h)' = HangJob(h)
  BY <1>0, <1>3, CallGoes
<1>5. /\ st' = st /\ req' = req /\ newest' = newest /\ fd' = fd /\ open' = open /\ ctx' = ctx
      /\ TablesSame
      /\ \A h \in Guest : sent'[h] <=> h # g /\ sent[h]
      /\ \A h \in Guest : CallCtx(h)' = CallCtx(h) /\ HangCtx(h)' = HangCtx(h)
  BY <1>0, <1>3, NamesStay DEF Dispatch, TypeOK, TablesSame, sockets, system, process, seen
<1>6. s # None /\ s \in Step
  BY Nones
<1>7. TypeOK'
  <2>1. sent' \in [Guest -> BOOLEAN] /\ job' \in [Worker -> Step \cup {None}]
    BY <1>0, <1>3, <1>6, Ids DEF TypeOK
  <2> QED BY <1>0, <1>5, <2>1 DEF TypeOK, TablesSame
<1>8. ASSUME NEW h \in Guest
      PROVE  /\ Pending(h)' <=> Pending(h)
             /\ Outside(h)' <=> Outside(h)
             /\ Blocked(h)' <=> Blocked(h)
             /\ Knocks(h)' <=> Knocks(h)
             /\ CallJob(h)' \in {"c2", "c3", "c4", "d2", "run"} <=> CallJob(h) \in {"c2", "c3", "c4", "d2", "run"}
             /\ CallJob(h)' \in {"c2", "c3", "c4"} <=> CallJob(h) \in {"c2", "c3", "c4"}
             /\ CallJob(h)' \in {"d2", "run"} <=> CallJob(h) \in {"d2", "run"}
  BY <1>1, <1>4, <1>5, <1>6, Nones DEF Pending, Outside, Blocked, Knocks
<1>9. ASSUME NEW h \in Guest
       PROVE  /\ Holds(h)' <=> Holds(h)
              /\ Known(h)' <=> Known(h)
              /\ Leftover(h)' <=> Leftover(h)
              /\ ToHangUp(h)' <=> ToHangUp(h)
              /\ Active(h)' <=> Active(h)
              /\ Early(h)' <=> Early(h)
  <2>1. (Holds(h)' <=> Holds(h)) /\ (Known(h)' <=> Known(h)) /\ (ToHangUp(h)' <=> ToHangUp(h))
    BY <1>2, <1>4, <1>5 DEF Holds, Known, ToHangUp, TablesSame
  <2>2. Leftover(h)' <=> Leftover(h)
    BY <1>4, <1>5, <2>1 DEF Leftover, TablesSame
  <2>3. (Active(h)' <=> Active(h)) /\ (Early(h)' <=> Early(h))
    BY <1>5, <1>8 DEF Active, Alive, Early
  <2> QED BY <2>1, <2>2, <2>3
<1>10. ASSUME NEW h \in Guest PROVE StateOK(h)' /\ JobsOK(h)' /\ SocketOK(h)'
  <2>1. StateOK(h)'
    BY <1>0, <1>4, <1>5, <1>8 DEF GuestsOK, StateOK, Idle
  <2>2. JobsOK(h)'
    BY <1>0, <1>1, <1>4, <1>5, <1>6, <1>8, Nones DEF GuestsOK, JobsOK
  <2>3. SocketOK(h)'
    BY <1>0, <1>4, <1>5, <1>8, <1>9 DEF GuestsOK, SocketOK, TablesSame
  <2> QED BY <2>1, <2>2, <2>3
<1>11. EndsOK' /\ ThreadsOK' /\ LiveOK'
  BY <1>0, <1>5, <1>9 DEF EndsOK, ThreadsOK, LiveOK, Lives, Alive, TablesSame
<1>12. FamilyOK'
  <2>1. RootFirst' /\ OneActive'
    BY <1>0, <1>5, <1>9 DEF RootFirst, OneActive
  <2>2. SpawnOK' /\ KilledOK'
    BY <1>0, <1>5 DEF SpawnOK, KilledOK, TablesSame
  <2>3. ImageOK'
    BY <1>0, <1>5, <1>8, Family DEF ImageOK
  <2>4. ImageAlone'
    BY <1>0, <1>8, <1>9 DEF ImageAlone
  <2> QED BY <2>1, <2>2, <2>3, <2>4 DEF FamilyOK
<1>13. TablesOK'
  <2>1. ServedOK'
    BY <1>0, <1>5, <1>8 DEF ServedOK, Served, Idle, Known, TablesSame
  <2>2. GoneOK'
    BY <1>0, <1>5, <1>8, <1>9 DEF GoneOK, BlockedImage, TablesSame
  <2>3. WaitOK'
    BY <1>0, <1>5, <1>8, <1>9 DEF WaitOK, OldImage, TablesSame
  <2>4. ExecBy'
    BY <1>0, <1>5, <1>8 DEF ExecBy, ExecsNow, TablesSame
  <2>5. OneLeft'
    BY <1>0, <1>5, <1>9, OneLeftStays DEF Ghost, TablesSame
  <2> QED BY <2>1, <2>2, <2>3, <2>4, <2>5 DEF TablesOK
<1>14. ForkOK'
  BY <1>0, <1>5, <1>8 DEF ForkOK, ForksOK, ForkedOK, Early, TablesSame, TypeOK
<1> QED BY <1>0, <1>5, <1>7, <1>10, <1>11, <1>12, <1>13, <1>14
        DEF TeamsInductive, GuestsOK, TablesSame

LEMMA HangupKeeps ==
    ASSUME TeamsInductive, NEW g \in Guest, Hangup(g)
    PROVE  TeamsInductive'
<1>0. /\ TypeOK /\ refused = {} /\ GuestsOK /\ EndsOK /\ ThreadsOK
      /\ RootFirst /\ OneActive /\ SpawnOK /\ ImageOK /\ ImageAlone /\ KilledOK
      /\ ServedOK /\ GoneOK /\ WaitOK /\ ExecBy /\ OneLeft /\ LiveOK /\ ForkOK
  BY DEF TeamsInductive, FamilyOK, TablesOK
<1>1. fd[g] # None /\ fd[g] \in Fd /\ open[fd[g]] = g /\ st[g] = "gone" /\ ~sent[g]
  BY <1>0 DEF Hangup, HasSocket, TypeOK
<1>2. HangJob(g) = None
  BY <1>0, <1>1 DEF GuestsOK, SocketOK, Holds
<1>3. job' = [job EXCEPT ![<<g, "hang">>] = "d1"] /\ open' = [open EXCEPT ![fd[g]] = None]
  BY DEF Hangup
<1>4. \A h \in Guest : /\ HangJob(h)' = IF h = g THEN "d1" ELSE HangJob(h)
                       /\ CallJob(h)' = CallJob(h)
  BY <1>0, <1>3, HangGoes
<1>5. /\ st' = st /\ req' = req /\ sent' = sent /\ newest' = newest /\ fd' = fd /\ ctx' = ctx
      /\ TablesSame
      /\ \A f \in Fd : open'[f] = IF f = fd[g] THEN None ELSE open[f]
      /\ \A h \in Guest : CallCtx(h)' = CallCtx(h) /\ HangCtx(h)' = HangCtx(h)
  BY <1>0, <1>3, NamesStay DEF Hangup, TypeOK, TablesSame, guests, system, process, seen
<1>6. ASSUME NEW h \in Guest
      PROVE  /\ fd[h] # None /\ h # g => (open'[fd[h]] = h <=> open[fd[h]] = h)
             /\ fd[h] # None => (ToHangUp(h)' <=> ToHangUp(h))
             /\ Holds(h)' <=> Holds(h)
             /\ Known(h)' <=> Known(h)
             /\ Leftover(h)' <=> Leftover(h)
             /\ Active(h)' <=> Active(h)
             /\ Early(h)' <=> Early(h)
             /\ Pending(h)' <=> Pending(h)
             /\ Blocked(h)' <=> Blocked(h)
             /\ Knocks(h)' <=> Knocks(h)
             /\ Outside(h)' <=> Outside(h)
  <2>1. fd[h] # None /\ h # g => (open'[fd[h]] = h <=> open[fd[h]] = h)
    BY <1>0, <1>1, <1>5, Nones DEF TypeOK
  <2>2. open'[fd[g]] = None /\ g # None /\ "d1" # None
    BY <1>1, <1>5, Nones
  <2>3. fd[h] # None => (ToHangUp(h)' <=> ToHangUp(h))
    BY <1>1, <1>4, <1>5, <2>1, <2>2 DEF ToHangUp
  <2>4. Holds(h)' <=> Holds(h)
    BY <1>1, <1>4, <1>5, <2>1, <2>2 DEF Holds
  <2>5. (Known(h)' <=> Known(h)) /\ (Leftover(h)' <=> Leftover(h))
    BY <1>2, <1>4, <1>5, <2>4, Nones DEF Known, Leftover, TablesSame
  <2>6. /\ Pending(h)' <=> Pending(h)
        /\ Blocked(h)' <=> Blocked(h)
        /\ Knocks(h)' <=> Knocks(h)
        /\ Outside(h)' <=> Outside(h)
    BY <1>4, <1>5 DEF Pending, Blocked, Knocks, Outside
  <2>7. (Active(h)' <=> Active(h)) /\ (Early(h)' <=> Early(h))
    BY <1>5, <2>6 DEF Active, Alive, Early
  <2> QED BY <2>1, <2>3, <2>4, <2>5, <2>6, <2>7
<1>7. TypeOK'
  <2>1. open' \in [Fd -> Guest \cup {None}] /\ job' \in [Worker -> Step \cup {None}]
    BY <1>0, <1>1, <1>3, Ids, Nones DEF TypeOK
  <2> QED BY <1>0, <1>5, <2>1 DEF TypeOK, TablesSame
<1>8. ASSUME NEW h \in Guest PROVE StateOK(h)' /\ JobsOK(h)' /\ SocketOK(h)'
  <2>1. StateOK(h)'
    BY <1>0, <1>1, <1>4, <1>5 DEF GuestsOK, StateOK, Pending, Idle
  <2>2. JobsOK(h)'
    BY <1>0, <1>1, <1>4, <1>5, Nones DEF GuestsOK, JobsOK, Outside
  <2>3. SocketOK(h)'
    <3>1. SocketOK(h) /\ (HangJob(h) # None => fd[h] # None)
      BY <1>0 DEF GuestsOK, JobsOK
    <3>2. \A k \in Guest : Holds(h)' /\ Holds(k)' /\ fd'[h] = fd'[k] => h = k
      BY <1>5, <1>6, <3>1 DEF SocketOK
    <3>3. CASE h = g
      BY <1>1, <1>4, <1>5, <1>6, <3>1, <3>2, <3>3, Nones DEF SocketOK, TablesSame
    <3>4. CASE h # g
      BY <1>4, <1>5, <1>6, <3>1, <3>2, <3>4 DEF SocketOK, TablesSame
    <3> QED BY <3>3, <3>4
  <2> QED BY <2>1, <2>2, <2>3
<1>9. EndsOK' /\ ThreadsOK' /\ LiveOK'
  <2>1. \A f \in Fd : open'[f] # None => open'[f] = open[f]
    BY <1>5
  <2>2. EndsOK'
    BY <1>0, <1>5, <1>6, <2>1 DEF EndsOK, TablesSame
  <2> QED BY <1>0, <1>5, <1>6, <2>2 DEF ThreadsOK, LiveOK, Lives, Alive, TablesSame
<1>10. FamilyOK'
  <2>1. RootFirst' /\ OneActive'
    BY <1>0, <1>5, <1>6 DEF RootFirst, OneActive
  <2>2. SpawnOK' /\ KilledOK'
    BY <1>0, <1>5 DEF SpawnOK, KilledOK, TablesSame
  <2>3. ImageOK'
    BY <1>0, <1>4, <1>5, Family DEF ImageOK, Pending
  <2>4. ImageAlone'
    BY <1>0, <1>6 DEF ImageAlone
  <2> QED BY <2>1, <2>2, <2>3, <2>4 DEF FamilyOK
<1>11. TablesOK'
  <2>1. ServedOK'
    BY <1>0, <1>4, <1>5 DEF ServedOK, Served, Idle, Known, TablesSame
  <2>2. GoneOK'
    BY <1>0, <1>5, <1>6 DEF GoneOK, BlockedImage, TablesSame
  <2>3. WaitOK'
    <3>1. \A h, x \in Guest : OldImage(h, x) => OldImage(h, x)'
      BY <1>5, <1>6 DEF OldImage
    <3> QED BY <1>0, <1>5, <1>6, <3>1 DEF WaitOK, TablesSame
  <2>4. ExecBy'
    BY <1>0, <1>4, <1>5 DEF ExecBy, ExecsNow, Blocked, TablesSame
  <2>5. OneLeft'
    BY <1>0, <1>5, <1>6, OneLeftStays DEF Ghost, TablesSame
  <2> QED BY <2>1, <2>2, <2>3, <2>4, <2>5 DEF TablesOK
<1>12. ForkOK'
  BY <1>0, <1>4, <1>5 DEF ForkOK, ForksOK, ForkedOK, Early, Outside, Pending, TablesSame
<1> QED BY <1>0, <1>5, <1>7, <1>8, <1>9, <1>10, <1>11, <1>12
        DEF TeamsInductive, GuestsOK, TablesSame

-----------------------------------------------------------------------------
(* The workers.  They change nothing of the sockets, of the calls and of who *)
(* was killed.                                                               *)

Quiet == /\ req' = req /\ sent' = sent /\ newest' = newest /\ fd' = fd /\ open' = open
         /\ killed' = killed /\ crossed' = crossed

\* The worker of a call goes to step s, in the name of c; the others stay.
CallAt(g, s, c) ==
    \A h \in Guest : /\ CallJob(h)' = IF h = g THEN s ELSE CallJob(h)
                     /\ CallCtx(h)' = IF h = g THEN c ELSE CallCtx(h)
                     /\ HangJob(h)' = HangJob(h) /\ HangCtx(h)' = HangCtx(h)
HangAt(g, s, c) ==
    \A h \in Guest : /\ HangJob(h)' = IF h = g THEN s ELSE HangJob(h)
                     /\ HangCtx(h)' = IF h = g THEN c ELSE HangCtx(h)
                     /\ CallJob(h)' = CallJob(h) /\ CallCtx(h)' = CallCtx(h)

LEMMA CallSteps ==
    ASSUME TypeOK, NEW g \in Guest, NEW s \in Step, Go(<<g, "call">>, s), ctx' = ctx
    PROVE  /\ CallAt(g, s, CallCtx(g)) /\ st' = st /\ refused' = refused
           /\ req' = req /\ sent' = sent /\ newest' = newest
           /\ job' \in [Worker -> Step \cup {None}]
<1>1. job' = [job EXCEPT ![<<g, "call">>] = s]
  BY DEF Go
<1>2. job' \in [Worker -> Step \cup {None}]
  BY <1>1 DEF TypeOK
<1>3. CallAt(g, s, CallCtx(g))
  BY <1>1, CallGoes, NamesStay DEF CallAt
<1> QED BY <1>2, <1>3 DEF Go, guests

\* server_dispatch finds the connection and names the worker.
LEMMA CallNames ==
    ASSUME TypeOK, NEW g \in Guest, NEW s \in Step, NEW c \in Idents,
           Go(<<g, "call">>, s), ctx' = [ctx EXCEPT ![<<g, "call">>] = c]
    PROVE  /\ CallAt(g, s, c) /\ st' = st /\ refused' = refused
           /\ req' = req /\ sent' = sent /\ newest' = newest
           /\ job' \in [Worker -> Step \cup {None}] /\ ctx' \in [Worker -> Idents \cup {None}]
<1>1. job' = [job EXCEPT ![<<g, "call">>] = s]
  BY DEF Go
<1>2. job' \in [Worker -> Step \cup {None}] /\ ctx' \in [Worker -> Idents \cup {None}]
  BY <1>1 DEF TypeOK
<1>3. CallAt(g, s, c)
  BY <1>1, CallGoes, CallNamed DEF CallAt
<1> QED BY <1>2, <1>3 DEF Go, guests

LEMMA HangNames ==
    ASSUME TypeOK, NEW g \in Guest, NEW s \in Step, NEW c \in Idents,
           Go(<<g, "hang">>, s), ctx' = [ctx EXCEPT ![<<g, "hang">>] = c]
    PROVE  /\ HangAt(g, s, c) /\ st' = st /\ refused' = refused
           /\ req' = req /\ sent' = sent /\ newest' = newest
           /\ job' \in [Worker -> Step \cup {None}] /\ ctx' \in [Worker -> Idents \cup {None}]
<1>1. job' = [job EXCEPT ![<<g, "hang">>] = s]
  BY DEF Go
<1>2. job' \in [Worker -> Step \cup {None}] /\ ctx' \in [Worker -> Idents \cup {None}]
  BY <1>1 DEF TypeOK
<1>3. HangAt(g, s, c)
  BY <1>1, HangGoes, HangNamed DEF HangAt
<1> QED BY <1>2, <1>3 DEF Go, guests

LEMMA HangSteps ==
    ASSUME TypeOK, NEW g \in Guest, NEW s \in Step, Go(<<g, "hang">>, s), ctx' = ctx
    PROVE  /\ HangAt(g, s, HangCtx(g)) /\ st' = st /\ refused' = refused
           /\ req' = req /\ sent' = sent /\ newest' = newest
           /\ job' \in [Worker -> Step \cup {None}]
<1>1. job' = [job EXCEPT ![<<g, "hang">>] = s]
  BY DEF Go
<1>2. job' \in [Worker -> Step \cup {None}]
  BY <1>1 DEF TypeOK
<1>3. HangAt(g, s, HangCtx(g))
  BY <1>1, HangGoes, NamesStay DEF HangAt
<1> QED BY <1>2, <1>3 DEF Go, guests

\* The answer to a call, and the end of a hangup.
LEMMA CallEnds ==
    ASSUME TypeOK, NEW g \in Guest, NEW ok \in BOOLEAN, Reply(<<g, "call">>, ok)
    PROVE  /\ CallAt(g, None, None)
           /\ req' = req /\ sent' = sent /\ newest' = newest
           /\ job' \in [Worker -> Step \cup {None}] /\ ctx' \in [Worker -> Idents \cup {None}]
           /\ st[g] = "waiting" => /\ st' = [st EXCEPT ![g] = After(g, ok)]
                                   /\ refused' = IF ok THEN refused ELSE refused \cup {g}
           /\ st[g] # "waiting" => st' = st /\ refused' = refused
<1>1. /\ job' = [job EXCEPT ![<<g, "call">>] = None] /\ ctx' = [ctx EXCEPT ![<<g, "call">>] = None]
      /\ req' = req /\ sent' = sent /\ newest' = newest
  BY DEF Reply
<1>2. job' \in [Worker -> Step \cup {None}] /\ ctx' \in [Worker -> Idents \cup {None}]
  BY <1>1 DEF TypeOK
<1>3. CallAt(g, None, None)
  BY <1>1, CallGoes, CallNamed DEF CallAt
<1>4. <<g, "call">>[1] = g /\ <<g, "call">>[2] = "call"
  OBVIOUS
<1>5. /\ st[g] = "waiting" => /\ st' = [st EXCEPT ![g] = After(g, ok)]
                              /\ refused' = IF ok THEN refused ELSE refused \cup {g}
      /\ st[g] # "waiting" => st' = st /\ refused' = refused
  BY <1>4 DEF Reply
<1> QED BY <1>1, <1>2, <1>3, <1>5

LEMMA HangEnds ==
    ASSUME TypeOK, NEW g \in Guest, NEW ok \in BOOLEAN, Reply(<<g, "hang">>, ok)
    PROVE  /\ HangAt(g, None, None) /\ st' = st /\ refused' = refused
           /\ req' = req /\ sent' = sent /\ newest' = newest
           /\ job' \in [Worker -> Step \cup {None}] /\ ctx' \in [Worker -> Idents \cup {None}]
<1>1. /\ job' = [job EXCEPT ![<<g, "hang">>] = None] /\ ctx' = [ctx EXCEPT ![<<g, "hang">>] = None]
      /\ req' = req /\ sent' = sent /\ newest' = newest
  BY DEF Reply
<1>2. job' \in [Worker -> Step \cup {None}] /\ ctx' \in [Worker -> Idents \cup {None}]
  BY <1>1 DEF TypeOK
<1>3. HangAt(g, None, None)
  BY <1>1, HangGoes, HangNamed DEF HangAt
<1>4. st' = st /\ refused' = refused
  BY DEF Reply
<1> QED BY <1>1, <1>2, <1>3, <1>4

\* Who makes a call that a worker has is waiting, or was killed, or is gone with
\* the other threads of its team when one of them execs.
LEMMA Caller ==
    ASSUME TypeOK, GuestsOK, KilledOK, GoneOK, NEW g \in Guest, CallJob(g) # None
    PROVE  /\ Pending(g) /\ Holds(g) /\ ~sent[g] /\ fd[g] # None /\ fd[g] \in Fd
           /\ req[g] # "work" => Active(g)
           /\ \/ st[g] = "waiting" /\ team[g] \notin killed
              \/ st[g] = "gone" /\ (team[g] \in killed \/ req[g] = "work")
<1>1. /\ Pending(g) /\ Holds(g) /\ ~sent[g] /\ fd[g] # None /\ fd[g] \in Fd
      /\ req[g] # "work" => Active(g)
  BY DEF Pending, Holds, Active, GuestsOK, JobsOK, TypeOK
<1>2. st[g] \in {"waiting", "gone"}
  BY <1>1 DEF GuestsOK, StateOK, Idle, TypeOK, State
<1>3. st[g] = "gone" /\ team[g] \notin killed => req[g] = "work"
  BY <1>1 DEF GoneOK
<1> QED BY <1>1, <1>2, <1>3 DEF KilledOK

\* As long as the call goes on, the server holds on to the descriptor.
LEMMA CallStays ==
    ASSUME GuestsOK, NEW g \in Guest, CallJob(g) # None, NEW s, s # None, NEW c, CallAt(g, s, c), Quiet
    PROVE  /\ \A h \in Guest : /\ Pending(h)' <=> Pending(h)
                               /\ Knocks(h)' <=> Knocks(h)
                               /\ Holds(h)' <=> Holds(h)
                               /\ ToHangUp(h)' <=> ToHangUp(h)
           /\ st' = st => \A h \in Guest : Active(h)' <=> Active(h)
           /\ connections' = connections =>
                  \A h \in Guest : (Known(h)' <=> Known(h)) /\ (Leftover(h)' <=> Leftover(h))
<1>1. ASSUME NEW h \in Guest
      PROVE  /\ Pending(h)' <=> Pending(h)
             /\ Knocks(h)' <=> Knocks(h)
             /\ Holds(h)' <=> Holds(h)
             /\ ToHangUp(h)' <=> ToHangUp(h)
  BY DEF Pending, Knocks, Holds, ToHangUp, CallAt, Quiet
<1>2. ASSUME st' = st, NEW h \in Guest PROVE Active(h)' <=> Active(h)
  BY <1>1, <1>2 DEF Active, Alive, Quiet
<1>3. ASSUME connections' = connections, NEW h \in Guest
      PROVE  (Known(h)' <=> Known(h)) /\ (Leftover(h)' <=> Leftover(h))
  BY <1>1, <1>3 DEF Known, Leftover, CallAt, Quiet
<1> QED BY <1>1, <1>2, <1>3

-----------------------------------------------------------------------------
(* connect. *)

LEMMA Connect2Keeps ==
    ASSUME TeamsInductive, NEW g \in Guest, Connect2(<<g, "call">>)
    PROVE  TeamsInductive'
<1>0. /\ TypeOK /\ refused = {} /\ GuestsOK /\ EndsOK /\ ThreadsOK
      /\ RootFirst /\ OneActive /\ SpawnOK /\ ImageOK /\ ImageAlone /\ KilledOK
      /\ ServedOK /\ GoneOK /\ WaitOK /\ ExecBy /\ OneLeft /\ LiveOK /\ ForkOK
  BY DEF TeamsInductive, FamilyOK, TablesOK
<1>1. CallJob(g) = "c2" /\ ~executing[team[g]]
  BY DEF Connect2, CallJob, MayConnect
<1>2. /\ CallAt(g, "c3", CallCtx(g)) /\ st' = st /\ refused' = refused
      /\ req' = req /\ sent' = sent /\ newest' = newest /\ job' \in [Worker -> Step \cup {None}]
  <2>1. Go(<<g, "call">>, "c3") /\ ctx' = ctx
    BY DEF Connect2
  <2> QED BY <1>0, <2>1, Nones, CallSteps
<1>3. Quiet /\ TablesSame /\ ctx' = ctx
  BY <1>2 DEF Connect2, Quiet, TablesSame, sockets, system, process
<1>4. Pending(g) /\ ~sent[g] /\ fd[g] # None /\ req[g] = "connect"
  BY <1>0, <1>1, Caller, Nones DEF GuestsOK, JobsOK
<1>5. TypeOK'
  BY <1>0, <1>2, <1>3 DEF TypeOK, TablesSame, Quiet
<1>6. ASSUME NEW h \in Guest
      PROVE  /\ Pending(h)' <=> Pending(h)
             /\ Outside(h)' <=> Outside(h)
             /\ Blocked(h)' <=> h # g /\ Blocked(h)
             /\ Knocks(h)' <=> Knocks(h)
             /\ Holds(h)' <=> Holds(h)
             /\ Known(h)' <=> Known(h)
             /\ Leftover(h)' <=> Leftover(h)
             /\ ToHangUp(h)' <=> ToHangUp(h)
             /\ Active(h)' <=> Active(h)
  <2>1. (Outside(h)' <=> Outside(h)) /\ (Blocked(h)' <=> h # g /\ Blocked(h))
    BY <1>1, <1>2, <1>3, <1>4, Nones DEF Outside, Blocked, CallAt, Quiet
  <2>2. CallJob(g) # None /\ "c3" # None /\ connections' = connections
    BY <1>1, <1>3, Nones DEF TablesSame
  <2> QED BY <1>0, <1>2, <1>3, <2>1, <2>2, CallStays
<1>7. ASSUME NEW h \in Guest PROVE StateOK(h)' /\ JobsOK(h)' /\ SocketOK(h)'
  <2>1. StateOK(h)'
    BY <1>0, <1>2, <1>3, <1>6 DEF GuestsOK, StateOK, Idle, CallAt, Quiet
  <2>2. JobsOK(h)'
    BY <1>0, <1>2, <1>3, <1>4, <1>6, Nones DEF GuestsOK, JobsOK, CallAt, Quiet
  <2>3. SocketOK(h)'
    BY <1>0, <1>2, <1>3, <1>6 DEF GuestsOK, SocketOK, CallAt, Quiet, TablesSame
  <2> QED BY <2>1, <2>2, <2>3
<1>8. EndsOK' /\ ThreadsOK' /\ LiveOK'
  BY <1>0, <1>2, <1>3, <1>6 DEF EndsOK, ThreadsOK, LiveOK, Lives, Alive, TablesSame, Quiet
<1>9. FamilyOK'
  <2>1. RootFirst' /\ OneActive'
    BY <1>0, <1>2, <1>3, <1>6 DEF RootFirst, OneActive, Early, Quiet
  <2>2. SpawnOK' /\ KilledOK'
    BY <1>0, <1>2, <1>3 DEF SpawnOK, KilledOK, Quiet
  <2>3. ImageOK'
    BY <1>0, <1>2, <1>3, <1>6, Family DEF ImageOK, Quiet
  <2>4. ImageAlone'
    BY <1>0, <1>6 DEF ImageAlone
  <2> QED BY <2>1, <2>2, <2>3, <2>4 DEF FamilyOK
<1>10. TablesOK'
  <2>1. ServedOK'
    BY <1>0, <1>1, <1>2, <1>3, <1>6 DEF ServedOK, Served, Idle, TablesSame, CallAt, Quiet
  <2>2. GoneOK'
    BY <1>0, <1>1, <1>2, <1>3, <1>6 DEF GoneOK, BlockedImage, TablesSame, Quiet
  <2>3. WaitOK'
    BY <1>0, <1>2, <1>3, <1>6 DEF WaitOK, OldImage, TablesSame, Quiet
  <2>4. ExecBy'
    BY <1>0, <1>1, <1>2, <1>3, <1>6 DEF ExecBy, ExecsNow, TablesSame, Quiet
  <2>5. OneLeft'
    BY <1>0, <1>2, <1>3, <1>6, OneLeftStays DEF Ghost, Quiet
  <2> QED BY <2>1, <2>2, <2>3, <2>4, <2>5 DEF TablesOK
<1>11. ForkOK'
  BY <1>0, <1>2, <1>3, <1>6 DEF ForkOK, ForksOK, ForkedOK, Early, TablesSame, Quiet
<1> QED BY <1>0, <1>2, <1>5, <1>7, <1>8, <1>9, <1>10, <1>11 DEF TeamsInductive, GuestsOK

LEMMA Connect3Keeps ==
    ASSUME TeamsInductive, NEW g \in Guest, Connect3(<<g, "call">>)
    PROVE  TeamsInductive'
<1>0. /\ TypeOK /\ refused = {} /\ GuestsOK /\ EndsOK /\ ThreadsOK
      /\ RootFirst /\ OneActive /\ SpawnOK /\ ImageOK /\ ImageAlone /\ KilledOK
      /\ ServedOK /\ GoneOK /\ WaitOK /\ ExecBy /\ OneLeft /\ LiveOK /\ ForkOK
  BY DEF TeamsInductive, FamilyOK, TablesOK
<1>1. CallJob(g) = "c3" /\ sysThreads' = sysThreads \cup {tid[g]}
  BY DEF Connect3, CallJob
<1>2. /\ CallAt(g, "c4", CallCtx(g)) /\ st' = st /\ refused' = refused
      /\ req' = req /\ sent' = sent /\ newest' = newest /\ job' \in [Worker -> Step \cup {None}]
  <2>1. Go(<<g, "call">>, "c4") /\ ctx' = ctx
    BY DEF Connect3
  <2> QED BY <1>0, <2>1, Nones, CallSteps
<1>3. /\ Quiet /\ ctx' = ctx /\ connections' = connections /\ procs' = procs
      /\ threads' = threads /\ count' = count /\ executing' = executing /\ unlocked' = unlocked
      /\ left' = left
  BY <1>2 DEF Connect3, Quiet, sockets, process
<1>4. /\ Pending(g) /\ ~sent[g] /\ fd[g] # None /\ req[g] = "connect"
      /\ team[g] \notin killed => Alive(g)
  BY <1>0, <1>1, Caller, Nones DEF GuestsOK, JobsOK, Alive
<1>5. TypeOK'
  BY <1>0, <1>1, <1>2, <1>3, Ids DEF TypeOK, Quiet
<1>6. ASSUME NEW h \in Guest
      PROVE  /\ Pending(h)' <=> Pending(h)
             /\ Outside(h)' <=> Outside(h)
             /\ Blocked(h)' <=> Blocked(h)
             /\ Knocks(h)' <=> Knocks(h)
             /\ Holds(h)' <=> Holds(h)
             /\ Known(h)' <=> Known(h)
             /\ Leftover(h)' <=> Leftover(h)
             /\ ToHangUp(h)' <=> ToHangUp(h)
             /\ Active(h)' <=> Active(h)
  <2>1. (Outside(h)' <=> Outside(h)) /\ (Blocked(h)' <=> Blocked(h))
    BY <1>1, <1>2, <1>3, <1>4, Nones DEF Outside, Blocked, CallAt, Quiet
  <2>2. CallJob(g) # None /\ "c4" # None /\ connections' = connections
    BY <1>1, <1>3, Nones
  <2> QED BY <1>0, <1>2, <1>3, <2>1, <2>2, CallStays
<1>7. ASSUME NEW h \in Guest PROVE StateOK(h)' /\ JobsOK(h)' /\ SocketOK(h)'
  <2>1. StateOK(h)'
    BY <1>0, <1>2, <1>3, <1>6 DEF GuestsOK, StateOK, Idle, CallAt, Quiet
  <2>2. JobsOK(h)'
    BY <1>0, <1>2, <1>3, <1>4, <1>6, Nones DEF GuestsOK, JobsOK, CallAt, Quiet
  <2>3. SocketOK(h)'
    BY <1>0, <1>2, <1>3, <1>6 DEF GuestsOK, SocketOK, CallAt, Quiet
  <2> QED BY <2>1, <2>2, <2>3
<1>8. EndsOK' /\ ThreadsOK'
  BY <1>0, <1>3, <1>6 DEF EndsOK, ThreadsOK, Quiet
<1>9. LiveOK'
  BY <1>0, <1>1, <1>2, <1>3, <1>4, <1>6, Family DEF LiveOK, Lives, Alive, Quiet
<1>10. FamilyOK'
  <2>1. RootFirst' /\ OneActive'
    BY <1>0, <1>2, <1>3, <1>6 DEF RootFirst, OneActive, Early, Quiet
  <2>2. SpawnOK' /\ KilledOK'
    BY <1>0, <1>2, <1>3 DEF SpawnOK, KilledOK, Quiet
  <2>3. ImageOK'
    BY <1>0, <1>2, <1>3, <1>6, Family DEF ImageOK, Quiet
  <2>4. ImageAlone'
    BY <1>0, <1>6 DEF ImageAlone
  <2> QED BY <2>1, <2>2, <2>3, <2>4 DEF FamilyOK
<1>11. TablesOK'
  <2>1. ServedOK'
    BY <1>0, <1>1, <1>2, <1>3, <1>6 DEF ServedOK, Served, Idle, CallAt, Quiet
  <2>2. GoneOK'
    BY <1>0, <1>2, <1>3, <1>6 DEF GoneOK, BlockedImage, Quiet
  <2>3. WaitOK'
    BY <1>0, <1>2, <1>3, <1>6 DEF WaitOK, OldImage, Quiet
  <2>4. ExecBy'
    BY <1>0, <1>1, <1>2, <1>3, <1>6 DEF ExecBy, ExecsNow, Quiet
  <2>5. OneLeft'
    BY <1>0, <1>2, <1>3, <1>6, OneLeftStays DEF Ghost, Quiet
  <2> QED BY <2>1, <2>2, <2>3, <2>4, <2>5 DEF TablesOK
<1>12. ForkOK'
  BY <1>0, <1>2, <1>3, <1>6 DEF ForkOK, ForksOK, ForkedOK, Early, Quiet
<1> QED BY <1>0, <1>2, <1>5, <1>7, <1>8, <1>9, <1>10, <1>11, <1>12 DEF TeamsInductive, GuestsOK

\* RegisterConnection, for a process that is there or for a new one.
LEMMA Connect1Keeps ==
    ASSUME TeamsInductive, NEW g \in Guest, Connect1(<<g, "call">>)
    PROVE  TeamsInductive'
<1>0. /\ TypeOK /\ refused = {} /\ GuestsOK /\ EndsOK /\ ThreadsOK
      /\ RootFirst /\ OneActive /\ SpawnOK /\ ImageOK /\ ImageAlone /\ KilledOK
      /\ ServedOK /\ GoneOK /\ WaitOK /\ ExecBy /\ OneLeft /\ LiveOK /\ ForkOK
  BY DEF TeamsInductive, FamilyOK, TablesOK
<1> DEFINE p == team[g]
           s == IF p \in procs THEN "c2" ELSE "c3"
<1>1. CallJob(g) = "c1"
  BY DEF Connect1, CallJob
<1>2. /\ Pending(g) /\ ~sent[g] /\ fd[g] # None /\ fd[g] \in Fd /\ req[g] = "connect" /\ Outside(g)
      /\ st[g] # "unborn"
      /\ \/ st[g] = "waiting" /\ p \notin killed
         \/ st[g] = "gone" /\ p \in killed
  <2>1. CallJob(g) # None /\ req[g] = "connect"
    BY <1>0, <1>1, Nones DEF GuestsOK, JobsOK
  <2>2. /\ Pending(g) /\ ~sent[g] /\ fd[g] # None /\ fd[g] \in Fd
        /\ \/ st[g] = "waiting" /\ p \notin killed
           \/ st[g] = "gone" /\ (p \in killed \/ req[g] = "work")
    BY <1>0, <2>1, Caller
  <2> QED BY <1>1, <2>1, <2>2 DEF Outside
<1>3. connections[fd[g]] = None
  BY <1>0, <1>1, <1>2, Nones DEF GuestsOK, SocketOK, Holds
<1>4. /\ connections' = [connections EXCEPT ![fd[g]] = Ident(g)]
      /\ Go(<<g, "call">>, s) /\ ctx' = ctx
      /\ IF p \in procs THEN UNCHANGED <<procs, process>> ELSE NewProcess(p)
  BY <1>3 DEF Connect1
<1>5. /\ CallAt(g, s, CallCtx(g)) /\ st' = st /\ refused' = refused
      /\ req' = req /\ sent' = sent /\ newest' = newest /\ job' \in [Worker -> Step \cup {None}]
  BY <1>0, <1>4, Nones, CallSteps
<1>6. /\ Quiet /\ sysThreads' = sysThreads /\ left' = left
      /\ \A f \in Fd : connections'[f] = IF f = fd[g] THEN Ident(g) ELSE connections[f]
  BY <1>0, <1>4, <1>5 DEF Connect1, Quiet, sockets, TypeOK
<1>7. /\ p \in Team /\ Ident(g) \in Idents /\ Ident(g) # None
      /\ procs' = procs \cup {p}
      /\ \A q \in Team : /\ threads'[q] = IF q = p /\ p \notin procs THEN {} ELSE threads[q]
                         /\ executing'[q] <=> executing[q] /\ (q = p => p \in procs)
                         /\ unlocked'[q] <=> unlocked[q] /\ (q = p => p \in procs)
  <2>1. p \in Team /\ Ident(g) \in Idents /\ Ident(g) # None
    BY Ids
  <2>2. CASE p \in procs
    BY <1>0, <1>4, <2>1, <2>2 DEF process
  <2>3. CASE p \notin procs
    BY <1>0, <1>4, <2>1, <2>3 DEF NewProcess, TypeOK
  <2> QED BY <2>1, <2>2, <2>3
<1>8. TypeOK'
  <2>1. /\ threads' \in [Team -> SUBSET Tid] /\ count' \in [Team -> 0..Cardinality(Tid)]
        /\ executing' \in [Team -> BOOLEAN] /\ unlocked' \in [Team -> BOOLEAN]
    <3>1. CASE p \in procs
      BY <1>0, <1>4, <3>1 DEF process, TypeOK
    <3>2. CASE p \notin procs
      <4>1. /\ threads' = [threads EXCEPT ![p] = {}] /\ count' = [count EXCEPT ![p] = 0]
            /\ executing' = [executing EXCEPT ![p] = FALSE]
            /\ unlocked' = [unlocked EXCEPT ![p] = FALSE]
        BY <1>4, <3>2 DEF NewProcess
      <4>2. 0 \in 0..Cardinality(Tid) /\ {} \in SUBSET Tid
        BY TidFinite
      <4>3. threads' \in [Team -> SUBSET Tid] /\ count' \in [Team -> 0..Cardinality(Tid)]
        BY <1>0, <4>1, <4>2 DEF TypeOK
      <4> QED BY <1>0, <4>1, <4>3 DEF TypeOK
    <3> QED BY <3>1, <3>2
  <2>2. connections' \in [Fd -> Idents \cup {None}] /\ procs' \subseteq Team
    BY <1>0, <1>2, <1>4, <1>7 DEF TypeOK
  <2> QED BY <1>0, <1>4, <1>5, <1>6, <2>1, <2>2 DEF TypeOK, Quiet
<1>9. ASSUME NEW h \in Guest
      PROVE  /\ Pending(h)' <=> Pending(h)
             /\ Knocks(h)' <=> Knocks(h)
             /\ Outside(h)' <=> h # g /\ Outside(h)
             /\ Blocked(h)' <=> Blocked(h) /\ (h = g => p \in procs)
             /\ Holds(h)' <=> Holds(h)
             /\ ToHangUp(h)' <=> ToHangUp(h)
             /\ Active(h)' <=> Active(h)
             /\ Holds(h) => connections'[fd[h]] = IF h = g THEN Ident(g) ELSE connections[fd[h]]
             /\ fd[h] # None /\ Known(h) => h # g /\ Known(h)'
             /\ Leftover(h) => Leftover(h)'
             /\ Leftover(h)' /\ h # g => Leftover(h)
  <2>1. /\ Pending(h)' <=> Pending(h)
        /\ Knocks(h)' <=> Knocks(h)
        /\ Holds(h)' <=> Holds(h)
        /\ ToHangUp(h)' <=> ToHangUp(h)
        /\ Active(h)' <=> Active(h)
    <3>1. CallJob(g) # None /\ s # None
      BY <1>1, Nones
    <3> QED BY <1>0, <1>5, <1>6, <3>1, CallStays
  <2>2. /\ Outside(h)' <=> h # g /\ Outside(h)
        /\ Blocked(h)' <=> Blocked(h) /\ (h = g => p \in procs)
    BY <1>1, <1>2, <1>5, <1>6, Nones DEF Outside, Blocked, CallAt, Quiet
  <2>3. Holds(h) => connections'[fd[h]] = IF h = g THEN Ident(g) ELSE connections[fd[h]]
    <3>1. Holds(g) /\ (Holds(h) => fd[h] \in Fd)
      BY <1>0, <1>1, Nones DEF Holds, GuestsOK, JobsOK, TypeOK
    <3> QED BY <1>0, <1>6, <3>1 DEF GuestsOK, SocketOK
  <2>4. fd[h] # None /\ Known(h) => h # g /\ Known(h)'
    <3> SUFFICES ASSUME fd[h] # None, Known(h) PROVE h # g /\ Known(h)'
      OBVIOUS
    <3>1. fd[h] \in Fd /\ connections[fd[h]] = Ident(h) /\ Ident(h) # None
      BY <1>0, Ids DEF Known, TypeOK
    <3>2. fd[h] # fd[g]
      BY <1>3, <3>1
    <3>3. connections'[fd[h]] = Ident(h) /\ fd'[h] = fd[h]
      BY <1>6, <3>1, <3>2 DEF Quiet
    <3> QED BY <3>2, <3>3 DEF Known
  <2>5. /\ Leftover(h) => Leftover(h)'
        /\ Leftover(h)' /\ h # g => Leftover(h)
    BY <1>5, <1>6, <2>1, <2>3, Ids DEF Leftover, CallAt, Quiet
  <2> QED BY <2>1, <2>2, <2>3, <2>4, <2>5
<1>10. ASSUME NEW h \in Guest PROVE StateOK(h)' /\ JobsOK(h)' /\ SocketOK(h)'
  <2>1. StateOK(h)'
    BY <1>0, <1>5, <1>6, <1>9 DEF GuestsOK, StateOK, Idle, CallAt, Quiet
  <2>2. JobsOK(h)'
    BY <1>0, <1>2, <1>5, <1>6, <1>9, Nones DEF GuestsOK, JobsOK, CallAt, Quiet
  <2>3. SocketOK(h)'
    <3>1. SocketOK(h) /\ Holds(g)
      BY <1>0, <1>1, Nones DEF Holds, GuestsOK, JobsOK
    <3> QED BY <1>5, <1>6, <1>9, <3>1 DEF SocketOK, CallAt, Quiet
  <2> QED BY <2>1, <2>2, <2>3
<1>11. EndsOK' /\ ThreadsOK'
  <2>1. EndsOK'
    <3>1. ASSUME NEW f \in Fd, connections'[f] # None
          PROVE  \E h \in Guest : /\ fd'[h] = f /\ connections'[f] = Ident(h)
                                  /\ Holds(h)' \/ team[h] \in killed'
      <4>1. CASE f = fd[g]
        BY <1>1, <1>2, <1>6, <1>9, <4>1, Nones DEF Holds, Quiet
      <4>2. CASE f # fd[g]
        <5>1. PICK h \in Guest : /\ fd[h] = f /\ connections[f] = Ident(h)
                                 /\ Holds(h) \/ team[h] \in killed
          BY <1>0, <1>6, <3>1, <4>2 DEF EndsOK
        <5> QED BY <1>6, <1>9, <4>2, <5>1 DEF Quiet
      <4> QED BY <4>1, <4>2
    <3> QED BY <1>0, <1>6, <3>1 DEF EndsOK, Quiet
  <2>2. ThreadsOK'
    BY <1>0, <1>7 DEF ThreadsOK
  <2> QED BY <2>1, <2>2
<1>12. FamilyOK'
  <2>1. RootFirst' /\ OneActive'
    BY <1>0, <1>5, <1>6, <1>9 DEF RootFirst, OneActive, Early, Quiet
  <2>2. SpawnOK' /\ KilledOK'
    BY <1>0, <1>5, <1>6 DEF SpawnOK, KilledOK, Quiet
  <2>3. ImageOK'
    BY <1>0, <1>5, <1>6, <1>9, Family DEF ImageOK, Quiet
  <2>4. ImageAlone'
    BY <1>0, <1>9 DEF ImageAlone
  <2> QED BY <2>1, <2>2, <2>3, <2>4 DEF FamilyOK
<1>13. \A x \in Guest : origin[x] = "exec" /\ Blocked(x) /\ executing[team[x]] =>
            (team[x] = p => p \in procs)
  BY <1>0 DEF WaitOK
<1>14. TablesOK'
  <2>1. ServedOK'
    <3> SUFFICES ASSUME NEW h \in Guest
                 PROVE  /\ Served(h)' => /\ fd'[h] # None /\ Known(h)' /\ team[h] \in procs'
                                         /\ tid[h] \in threads'[team[h]]
                        /\ st'[h] = "waiting" /\ CallJob(h)' \in {"c2", "c3", "c4"} =>
                               Known(h)' /\ team[h] \in procs'
      BY DEF ServedOK
    <3>1. CASE h = g
      BY <1>2, <1>5, <1>6, <1>7, <3>1 DEF Served, Idle, Known, Quiet
    <3>2. CASE h # g
      <4>1. /\ Served(h)' <=> Served(h)
            /\ st'[h] = st[h] /\ CallJob(h)' = CallJob(h) /\ fd'[h] = fd[h]
            /\ fd[h] # None /\ Known(h) => Known(h)'
        BY <1>5, <1>6, <1>9, <3>2 DEF Served, Idle, CallAt, Quiet
      <4>2. ASSUME Served(h)
            PROVE  /\ fd[h] # None /\ Known(h)' /\ team[h] \in procs'
                   /\ tid[h] \in threads'[team[h]]
        BY <1>0, <1>7, <4>1, <4>2, Ids DEF ServedOK
      <4>3. ASSUME st[h] = "waiting", CallJob(h) \in {"c2", "c3", "c4"}
            PROVE  Known(h)' /\ team[h] \in procs'
        <5>1. fd[h] # None
          BY <1>0, <4>3, Nones DEF GuestsOK, JobsOK
        <5> QED BY <1>0, <1>7, <4>1, <4>3, <5>1 DEF ServedOK
      <4> QED BY <4>1, <4>2, <4>3
    <3> QED BY <3>1, <3>2
  <2>2. GoneOK'
    <3> SUFFICES ASSUME NEW h \in Guest, st[h] = "gone", team[h] \notin killed
                 PROVE  /\ Pending(h)' => req'[h] = "work"
                        /\ fd'[h] # None
                        /\ Leftover(h)' => /\ Known(h)' /\ tid[h] \in threads'[team[h]] /\ ToHangUp(h)'
                                           /\ executing'[team[h]]
                                           /\ \E y \in Guest : BlockedImage(h, y)'
      BY <1>5, <1>6 DEF GoneOK, Quiet
    <3>1. h # g /\ (Pending(h) => req[h] = "work") /\ fd[h] # None
      BY <1>0, <1>2 DEF GoneOK
    <3>2. ASSUME Leftover(h)'
          PROVE  /\ Known(h)' /\ tid[h] \in threads'[team[h]] /\ ToHangUp(h)'
                 /\ executing'[team[h]] /\ \E y \in Guest : BlockedImage(h, y)'
      <4>1. /\ Leftover(h) /\ Known(h)' /\ ToHangUp(h)' /\ executing[team[h]]
            /\ tid[h] \in threads[team[h]] /\ \E x \in Guest : BlockedImage(h, x)
        BY <1>0, <1>9, <3>1, <3>2 DEF GoneOK
      <4>2. PICK x \in Guest : BlockedImage(h, x)
        BY <4>1
      <4>3. team[x] = team[h] /\ team[h] \in Team
        BY <4>2, Ids DEF BlockedImage
      <4>4. team[h] = p => p \in procs
        BY <1>13, <4>1, <4>2, <4>3 DEF BlockedImage
      <4>5. BlockedImage(h, x)'
        BY <1>5, <1>9, <4>2, <4>3, <4>4 DEF BlockedImage
      <4> QED BY <1>7, <4>1, <4>3, <4>4, <4>5
    <3> QED BY <1>6, <1>9, <3>1, <3>2 DEF Quiet
  <2>3. WaitOK'
    <3>1. \A h, x \in Guest : OldImage(h, x) => OldImage(h, x)'
      BY <1>5, <1>6, <1>9 DEF OldImage, Quiet
    <3>2. \A x \in Guest : origin[x] = "exec" /\ Blocked(x)' /\ executing'[team[x]] =>
              /\ Blocked(x) /\ executing[team[x]]
              /\ threads'[team[x]] = threads[team[x]]
      BY <1>7, <1>9, <1>13, Ids
    <3> QED BY <1>0, <1>7, <3>1, <3>2 DEF WaitOK
  <2>4. ExecBy'
    <3> SUFFICES ASSUME NEW q \in Team \ killed, executing'[q]
                 PROVE  \E h \in Guest : team[h] = q /\ ExecsNow(h)'
      BY <1>6 DEF ExecBy, Quiet
    <3>1. executing[q] /\ (q = p => p \in procs)
      BY <1>7
    <3>2. PICK h \in Guest : team[h] = q /\ ExecsNow(h)
      BY <1>0, <3>1 DEF ExecBy
    <3>3. ExecsNow(h)'
      BY <1>5, <1>6, <1>9, <3>1, <3>2 DEF ExecsNow, Quiet
    <3> QED BY <3>2, <3>3
  <2>5. OneLeft'
    <3>1. \A h \in Guest : Ghost(h)' => Ghost(h)
      BY <1>2, <1>5, <1>6, <1>9 DEF Ghost, Quiet
    <3> QED BY <1>0, <3>1, OneLeftStays
  <2> QED BY <2>1, <2>2, <2>3, <2>4, <2>5 DEF TablesOK
<1>15. LiveOK'
  <2>1. \A h \in Guest : (Alive(h) => Alive(h)') /\ (Lives(h) => Lives(h)')
    BY <1>5, <1>9 DEF Lives, Alive
  <2>2. p \notin killed => Alive(g)'
    BY <1>2, <1>5 DEF Alive
  <2>3. \A q \in Team : threads'[q] \subseteq threads[q]
    BY <1>7
  <2> QED BY <1>0, <1>6, <1>7, <2>1, <2>2, <2>3 DEF LiveOK, Quiet
<1>16. ForkOK'
  <2> SUFFICES ASSUME NEW h \in Guest PROVE ForksOK(h)' /\ ForkedOK(h)'
    BY DEF ForkOK
  <2>1. ForksOK(h)'
    <3> SUFFICES ASSUME req[h] = "fork", Pending(h)
                 PROVE  /\ newest[h] \in Guest /\ origin[newest[h]] = "fork" /\ parent[newest[h]] = h
                        /\ st[newest[h]] # "unborn" /\ ~unlocked'[team[newest[h]]]
                        /\ team[newest[h]] \notin killed => Early(newest[h])'
      BY <1>5, <1>6, <1>9 DEF ForksOK, Quiet
    <3>1. /\ newest[h] \in Guest /\ origin[newest[h]] = "fork" /\ parent[newest[h]] = h
          /\ st[newest[h]] # "unborn" /\ ~unlocked[team[newest[h]]]
          /\ team[newest[h]] \notin killed => Early(newest[h])
      BY <1>0 DEF ForkOK, ForksOK
    <3>2. ~unlocked'[team[newest[h]]]
      BY <1>7, <3>1, Ids
    <3>3. Early(newest[h])' <=> Early(newest[h])
      BY <1>5, <1>6, <1>9, <3>1 DEF Early, Quiet
    <3> QED BY <3>1, <3>2, <3>3
  <2>2. origin[h] = "fork" /\ Early(h) /\ team[h] = p => h = g
    BY <1>0, <1>2, Family DEF RootFirst
  <2>3. origin[h] = "fork" /\ h = g /\ unlocked[p] => p \in procs
    BY <1>0, <1>2 DEF ForkOK, ForkedOK
  <2>4. ForkedOK(h)'
    <3> SUFFICES ASSUME origin[h] = "fork" PROVE ForkedOK(h)'
      BY DEF ForkedOK
    <3>1. /\ Early(h)' <=> Early(h)
          /\ unlocked'[team[h]] <=> unlocked[team[h]] /\ (team[h] = p => p \in procs)
          /\ st'[h] = st[h] /\ st'[parent[h]] = st[parent[h]] /\ killed' = killed
          /\ Outside(h)' => Outside(h)
          /\ procs \subseteq procs' /\ parent[h] \in Guest
      BY <1>5, <1>6, <1>7, <1>9, Ids, Family DEF Early, Quiet
    <3>2. st[h] # "unborn" /\ Early(h) /\ unlocked[team[h]] => unlocked'[team[h]]
      BY <2>2, <2>3, <3>1
    <3> QED BY <1>0, <1>5, <1>6, <3>1, <3>2 DEF ForkOK, ForkedOK, Quiet
  <2> QED BY <2>1, <2>4
<1> QED BY <1>0, <1>5, <1>8, <1>10, <1>11, <1>12, <1>14, <1>15, <1>16 DEF TeamsInductive, GuestsOK

-----------------------------------------------------------------------------
(* Answers and hangups, as far as guests and sockets go. *)

\* Connections only go; then the sockets stay as they should be.
LEMMA SocketsKeep ==
    ASSUME TypeOK, GuestsOK, EndsOK, Quiet,
           \A f \in Fd : connections'[f] \in {connections[f], None},
           \A h \in Guest : /\ Outside(h)' => Outside(h)
                            /\ HangJob(h)' # None => HangJob(h) # None
                            /\ st'[h] # "gone" => st[h] # "gone"
                            /\ Holds(h)' => Holds(h)
                            /\ Holds(h) /\ ~Holds(h)' =>
                                   team[h] \in killed \/ connections'[fd[h]] = None
    PROVE  EndsOK' /\ \A h \in Guest : SocketOK(h)'
<1>1. EndsOK'
  <2>1. ASSUME NEW f \in Fd, connections'[f] # None
        PROVE  \E h \in Guest : /\ fd'[h] = f /\ connections'[f] = Ident(h)
                                /\ Holds(h)' \/ team[h] \in killed'
    <3>1. connections'[f] = connections[f]
      BY <2>1
    <3>2. PICK h \in Guest : /\ fd[h] = f /\ connections[f] = Ident(h)
                             /\ Holds(h) \/ team[h] \in killed
      BY <2>1, <3>1 DEF EndsOK
    <3> QED BY <2>1, <3>1, <3>2 DEF Quiet
  <2> QED BY <2>1 DEF EndsOK, Quiet
<1>2. ASSUME NEW h \in Guest PROVE SocketOK(h)'
  <2>1. Holds(h) => connections'[fd[h]] \in {connections[fd[h]], None}
    BY DEF Holds, TypeOK
  <2>2. SocketOK(h)
    BY DEF GuestsOK
  <2>3. \A k \in Guest : Holds(h)' /\ Holds(k)' /\ fd'[h] = fd'[k] => h = k
    BY <2>2 DEF SocketOK, Quiet
  <2>4. /\ Holds(h)' => connections'[fd'[h]] \in {None, Ident(h)}
        /\ Holds(h)' /\ Outside(h)' => connections'[fd'[h]] = None
    BY <2>1, <2>2 DEF SocketOK, Quiet
  <2>5. /\ fd'[h] # None /\ (st'[h] # "gone" \/ sent'[h]) => open'[fd'[h]] = h
        /\ HangJob(h)' # None => open'[fd'[h]] # h
    BY <2>2 DEF SocketOK, Quiet
  <2> QED BY <2>3, <2>4, <2>5 DEF SocketOK
<1> QED BY <1>1, <1>2

\* When a call is over, only who was killed, or who has no entry, is let go of.
LEMMA CallOver ==
    ASSUME TypeOK, GuestsOK, KilledOK, GoneOK, NEW g \in Guest, CallJob(g) # None,
           CallAt(g, None, None), Quiet
    PROVE  /\ \A h \in Guest :
                  /\ Holds(h)' => Holds(h)
                  /\ Holds(h) /\ ~Holds(h)' =>
                         h = g /\ st[g] = "gone" /\ (team[g] \in killed \/ connections[fd[g]] = None)
                  /\ ToHangUp(h)' <=> ToHangUp(h)
           /\ connections' = connections =>
                  \A h \in Guest : /\ Known(h)' <=> Known(h)
                                   /\ Leftover(h)' => Leftover(h)
                                   /\ team[h] \notin killed /\ Leftover(h) => Leftover(h)'
<1>1. ASSUME NEW h \in Guest
      PROVE  (Holds(h)' => Holds(h)) /\ (ToHangUp(h)' <=> ToHangUp(h))
             /\ (h # g /\ Holds(h) => Holds(h)')
  BY DEF Holds, ToHangUp, CallAt, Quiet
<1>2. ASSUME Holds(g), ~Holds(g)'
      PROVE  st[g] = "gone" /\ (team[g] \in killed \/ connections[fd[g]] = None)
  <2>1. ~ToHangUp(g) /\ fd[g] # None
    BY <1>2 DEF Holds, ToHangUp, CallAt, Quiet
  <2>2. st[g] = "gone"
    BY <2>1 DEF GuestsOK, SocketOK, ToHangUp
  <2>3. ~Leftover(g) \/ team[g] \in killed
    BY <2>1, <2>2 DEF GoneOK
  <2> QED BY <1>2, <2>2, <2>3 DEF Leftover
<1>3. ASSUME connections' = connections, NEW h \in Guest
      PROVE  /\ Known(h)' <=> Known(h)
             /\ Leftover(h)' => Leftover(h)
             /\ team[h] \notin killed /\ Leftover(h) => Leftover(h)'
  <2>1. Known(h)' <=> Known(h)
    BY <1>3 DEF Known, Quiet
  <2>2. Leftover(h)' => Leftover(h)
    BY <1>1, <1>3 DEF Leftover, CallAt, Quiet
  <2>3. ASSUME team[h] \notin killed, Leftover(h) PROVE Leftover(h)'
    <3>1. HangJob(h) \in {"d2", "run"} => Holds(h)'
      BY <2>3, Nones DEF Leftover, Holds, CallAt, Quiet
    <3>2. Holds(h)'
      BY <1>1, <1>2, <2>3, <3>1 DEF Leftover
    <3> QED BY <1>3, <2>3, <3>2 DEF Leftover, CallAt, Quiet
  <2> QED BY <2>1, <2>2, <2>3
<1> QED BY <1>1, <1>2, <1>3

\* What a guest is after the answer.
LEMMA Answer ==
    ASSUME NEW g \in Guest
    PROVE  /\ After(g, TRUE) \in {"up", "atfork", "execing", "gone"}
           /\ After(g, TRUE) = "gone" <=> req[g] = "disconnect"
           /\ After(g, TRUE) = "atfork" <=> req[g] = "connect" /\ origin[g] = "fork"
           /\ After(g, TRUE) = "execing" <=> req[g] = "exec"
BY DEF After

Answered(g) ==
    /\ Quiet /\ CallAt(g, None, None)
    /\ \A h \in Guest : st'[h] = IF h = g /\ st[g] = "waiting" THEN After(g, TRUE) ELSE st[h]

\* The worker of a call ends, and who waits for the answer goes on.
LEMMA AnswerGuests ==
    ASSUME TeamsInductive, NEW g \in Guest, CallJob(g) # None, Answered(g)
    PROVE  /\ \A h \in Guest : /\ Pending(h)' <=> h # g /\ Pending(h)
                               /\ Outside(h)' <=> h # g /\ Outside(h)
                               /\ Blocked(h)' <=> h # g /\ Blocked(h)
                               /\ StateOK(h)' /\ JobsOK(h)'
           /\ FamilyOK'
<1>0. /\ TypeOK /\ refused = {} /\ GuestsOK /\ EndsOK /\ ThreadsOK
      /\ RootFirst /\ OneActive /\ SpawnOK /\ ImageOK /\ ImageAlone /\ KilledOK
      /\ ServedOK /\ GoneOK /\ WaitOK /\ ExecBy /\ OneLeft /\ LiveOK /\ ForkOK
  BY DEF TeamsInductive, FamilyOK, TablesOK
<1>1. /\ Pending(g) /\ ~sent[g]
      /\ \/ st[g] = "waiting" /\ team[g] \notin killed
         \/ st[g] = "gone"
  BY <1>0, Caller
<1>2. Quiet /\ CallAt(g, None, None)
  BY DEF Answered
<1>3. \A h \in Guest : st'[h] = IF h = g /\ st[g] = "waiting" THEN After(g, TRUE) ELSE st[h]
  BY DEF Answered
<1>4. ASSUME NEW h \in Guest
      PROVE  /\ Pending(h)' <=> h # g /\ Pending(h)
             /\ Knocks(h)' <=> h # g /\ Knocks(h)
             /\ Outside(h)' <=> h # g /\ Outside(h)
             /\ Blocked(h)' <=> h # g /\ Blocked(h)
  BY <1>1, <1>2, Nones DEF Pending, Knocks, Outside, Blocked, CallAt, Quiet
<1>5. ASSUME NEW h \in Guest PROVE StateOK(h)' /\ JobsOK(h)'
  <2>1. StateOK(h)'
    <3>1. StateOK(h)
      BY <1>0 DEF GuestsOK
    <3>2. CASE h = g
      BY <1>1, <1>2, <1>3, <1>4, <3>1, <3>2, Answer DEF StateOK, Idle, Quiet
    <3>3. CASE h # g
      BY <1>2, <1>3, <1>4, <3>1, <3>3 DEF StateOK, Idle, CallAt, Quiet
    <3> QED BY <3>2, <3>3
  <2>2. JobsOK(h)'
    BY <1>0, <1>1, <1>2, <1>3, <1>4, Nones DEF GuestsOK, JobsOK, CallAt, Quiet
  <2> QED BY <2>1, <2>2
<1>6. ASSUME NEW h \in Guest
      PROVE  /\ Early(h)' => Early(h)
             /\ Active(h)' => Active(h)
             /\ st'[h] = "unborn" <=> st[h] = "unborn"
             /\ st'[h] = "waiting" => st[h] = "waiting"
             /\ st[h] \in {"gone", "spawning", "unborn"} => st'[h] = st[h]
  <2>1. CASE h = g
    BY <1>1, <1>2, <1>3, <1>4, <2>1, Answer DEF Early, Active, Alive, Quiet
  <2>2. CASE h # g
    BY <1>2, <1>3, <1>4, <2>2 DEF Early, Active, Alive, Quiet
  <2> QED BY <2>1, <2>2
<1>7. FamilyOK'
  <2>1. RootFirst' /\ OneActive'
    BY <1>0, <1>6 DEF RootFirst, OneActive
  <2>2. SpawnOK'
    BY <1>0, <1>2, <1>6, Family DEF SpawnOK, Quiet
  <2>3. KilledOK'
    BY <1>0, <1>1, <1>2, <1>3 DEF KilledOK, Quiet
  <2>4. ImageOK'
    BY <1>0, <1>2, <1>4, <1>6, Family DEF ImageOK, Quiet
  <2>5. ImageAlone'
    BY <1>0, <1>4, <1>6 DEF ImageAlone
  <2> QED BY <2>1, <2>2, <2>3, <2>4, <2>5 DEF FamilyOK
<1> QED BY <1>4, <1>5, <1>7

Hung(g, s, c) == Quiet /\ HangAt(g, s, c) /\ st' = st

\* The worker of a hangup goes on or ends.
LEMMA HangGuests ==
    ASSUME TeamsInductive, NEW g \in Guest, NEW s \in {None, "d2", "run"}, NEW c, Hung(g, s, c),
           HangJob(g) # None, s # None => c = Ident(g) /\ ~Outside(g)
    PROVE  /\ \A h \in Guest : /\ Pending(h)' <=> Pending(h)
                               /\ Outside(h)' <=> Outside(h)
                               /\ Blocked(h)' <=> Blocked(h)
                               /\ StateOK(h)' /\ JobsOK(h)'
           /\ FamilyOK'
<1>0. /\ TypeOK /\ refused = {} /\ GuestsOK /\ EndsOK /\ ThreadsOK
      /\ RootFirst /\ OneActive /\ SpawnOK /\ ImageOK /\ ImageAlone /\ KilledOK
      /\ ServedOK /\ GoneOK /\ WaitOK /\ ExecBy /\ OneLeft /\ LiveOK /\ ForkOK
  BY DEF TeamsInductive, FamilyOK, TablesOK
<1>1. Quiet /\ HangAt(g, s, c) /\ st' = st
  BY DEF Hung
<1>2. st[g] = "gone" /\ fd[g] # None /\ ~sent[g]
  BY <1>0 DEF GuestsOK, JobsOK
<1>3. ASSUME NEW h \in Guest
      PROVE  /\ Pending(h)' <=> Pending(h)
             /\ Knocks(h)' <=> Knocks(h)
             /\ Outside(h)' <=> Outside(h)
             /\ Blocked(h)' <=> Blocked(h)
  BY <1>1 DEF Pending, Knocks, Outside, Blocked, HangAt, Quiet
<1>4. ASSUME NEW h \in Guest PROVE StateOK(h)' /\ JobsOK(h)'
  <2>1. StateOK(h)'
    BY <1>0, <1>1, <1>2, <1>3, Nones DEF GuestsOK, StateOK, Idle, HangAt, Quiet
  <2>2. JobsOK(h)'
    BY <1>0, <1>1, <1>2, <1>3, Nones DEF GuestsOK, JobsOK, HangAt, Quiet
  <2> QED BY <2>1, <2>2
<1>5. FamilyOK'
  <2>1. RootFirst' /\ OneActive'
    BY <1>0, <1>1, <1>3 DEF RootFirst, OneActive, Active, Alive, Early, Quiet
  <2>2. SpawnOK' /\ KilledOK'
    BY <1>0, <1>1 DEF SpawnOK, KilledOK, Quiet
  <2>3. ImageOK'
    BY <1>0, <1>1, <1>3, Family DEF ImageOK, Quiet
  <2>4. ImageAlone'
    <3>1. \A h \in Guest : Active(h)' <=> Active(h)
      BY <1>1, <1>3 DEF Active, Alive, Quiet
    <3> QED BY <1>0, <1>3, <3>1 DEF ImageAlone
  <2> QED BY <2>1, <2>2, <2>3, <2>4 DEF FamilyOK
<1> QED BY <1>3, <1>4, <1>5

-----------------------------------------------------------------------------
(* Answers that leave the tables alone. *)

\* A call that does nothing here, a child that was let go, or a call of who was
\* killed.
LEMMA AnswerKeeps ==
    ASSUME TeamsInductive, NEW g \in Guest, CallJob(g) # None, Answered(g), TablesSame,
           refused' = refused, TypeOK',
           \/ st[g] = "gone"
           \/ req[g] = "work"
           \/ req[g] = "forkwait" /\ unlocked[team[g]]
    PROVE  TeamsInductive'
<1>0. /\ TypeOK /\ refused = {} /\ GuestsOK /\ EndsOK /\ ThreadsOK
      /\ RootFirst /\ OneActive /\ SpawnOK /\ ImageOK /\ ImageAlone /\ KilledOK
      /\ ServedOK /\ GoneOK /\ WaitOK /\ ExecBy /\ OneLeft /\ LiveOK /\ ForkOK
  BY DEF TeamsInductive, FamilyOK, TablesOK
<1>1. \/ st[g] = "waiting" /\ team[g] \notin killed /\ req[g] \in {"work", "forkwait"}
      \/ st[g] = "gone" /\ (team[g] \in killed \/ req[g] = "work")
  BY <1>0, Caller
<1>2. Quiet /\ CallAt(g, None, None)
  BY DEF Answered
<1>3. /\ \A h \in Guest : /\ Pending(h)' <=> h # g /\ Pending(h)
                          /\ Outside(h)' <=> h # g /\ Outside(h)
                          /\ Blocked(h)' <=> h # g /\ Blocked(h)
                          /\ StateOK(h)' /\ JobsOK(h)'
      /\ FamilyOK'
  BY AnswerGuests
<1>4. \A h \in Guest : st'[h] = IF h = g /\ st[g] = "waiting" THEN "up" ELSE st[h]
  <2>1. st[g] = "waiting" => After(g, TRUE) = "up"
    BY <1>1, Answer
  <2> QED BY <2>1 DEF Answered
<1>5. \A h \in Guest : /\ Holds(h)' => Holds(h)
                       /\ Holds(h) /\ ~Holds(h)' =>
                              team[h] \in killed \/ connections'[fd[h]] = None
                       /\ ToHangUp(h)' <=> ToHangUp(h)
                       /\ Known(h)' <=> Known(h)
                       /\ Leftover(h)' => Leftover(h)
                       /\ team[h] \notin killed /\ Leftover(h) => Leftover(h)'
  BY <1>0, <1>2, CallOver DEF TablesSame
<1>6. EndsOK' /\ \A h \in Guest : SocketOK(h)'
  BY <1>0, <1>2, <1>3, <1>4, <1>5, SocketsKeep DEF TablesSame, CallAt
<1>7. ThreadsOK' /\ LiveOK'
  <2>1. \A h \in Guest : /\ Alive(h) => Alive(h)'
                         /\ team[h] \notin killed /\ Lives(h) => Lives(h)'
    BY <1>4, <1>5 DEF Lives, Alive
  <2> QED BY <1>0, <1>2, <2>1, Family DEF ThreadsOK, LiveOK, TablesSame, Quiet
<1>8. ServedOK'
  BY <1>0, <1>1, <1>2, <1>4, Nones DEF ServedOK, Served, Idle, Known, TablesSame, CallAt, Quiet
<1>9. GoneOK'
  <2>1. \A h, x \in Guest : BlockedImage(h, x) => BlockedImage(h, x)'
    <3>1. Blocked(g) => st[g] = "gone"
      BY <1>1 DEF Blocked
    <3> QED BY <1>3, <1>4, <3>1 DEF BlockedImage
  <2> QED BY <1>0, <1>2, <1>3, <1>4, <1>5, <2>1 DEF GoneOK, TablesSame, Quiet
<1>10. WaitOK'
  <2>1. \A h, x \in Guest : OldImage(h, x) => OldImage(h, x)'
    BY <1>2, <1>4, <1>5 DEF OldImage, Quiet
  <2> QED BY <1>0, <1>3, <2>1 DEF WaitOK, TablesSame
<1>11. ExecBy'
  BY <1>0, <1>1, <1>2, <1>3, <1>4 DEF ExecBy, ExecsNow, Blocked, TablesSame, Quiet
<1>12. OneLeft'
  <2>1. \A h \in Guest : Ghost(h)' => Ghost(h)
    BY <1>1, <1>2, <1>4, <1>5 DEF Ghost, Quiet
  <2> QED BY <1>0, <2>1, OneLeftStays
<1>13. ASSUME NEW h \in Guest PROVE ForksOK(h)' /\ ForkedOK(h)'
  <2>1. ForksOK(h) /\ ForkedOK(h)
    BY <1>0 DEF ForkOK
  <2>2. ASSUME NEW c \in Guest, c # g PROVE Early(c)' <=> Early(c)
    BY <1>2, <1>3, <1>4, <2>2 DEF Early, Quiet
  <2>3. Early(g)' => Early(g)
    BY <1>1, <1>2, <1>3, <1>4 DEF Early, Quiet
  <2>4. Early(g) => team[g] \in killed \/ unlocked[team[g]]
    BY <1>1 DEF Early
  <2>5. ForksOK(h)'
    BY <1>1, <1>2, <1>3, <1>4, <2>1, <2>2, <2>4 DEF ForksOK, TablesSame, Quiet
  <2>6. ForkedOK(h)'
    BY <1>1, <1>2, <1>3, <1>4, <2>1, <2>2, <2>3, Family DEF ForkedOK, TablesSame, Quiet
  <2> QED BY <2>5, <2>6
<1> QED BY <1>0, <1>3, <1>6, <1>7, <1>8, <1>9, <1>10, <1>11, <1>12, <1>13
        DEF TeamsInductive, GuestsOK, TablesOK, ForkOK

\* A worker that changes no table keeps the types.
LEMMA WorkerTypes ==
    ASSUME TypeOK, TablesSame, Quiet, left' \subseteq Guest, refused' \subseteq Guest,
           st' \in [Guest -> State], job' \in [Worker -> Step \cup {None}],
           ctx' \in [Worker -> Idents \cup {None}]
    PROVE  TypeOK'
BY DEF TypeOK, TablesSame, Quiet

LEMMA Answers ==
    ASSUME TypeOK, NEW g \in Guest, CallJob(g) # None, Reply(<<g, "call">>, TRUE),
           fd' = fd, open' = open, killed' = killed, crossed' = crossed
    PROVE  /\ Answered(g) /\ refused' = refused
           /\ st' \in [Guest -> State]
           /\ job' \in [Worker -> Step \cup {None}] /\ ctx' \in [Worker -> Idents \cup {None}]
<1>1. /\ CallAt(g, None, None)
      /\ req' = req /\ sent' = sent /\ newest' = newest
      /\ job' \in [Worker -> Step \cup {None}] /\ ctx' \in [Worker -> Idents \cup {None}]
      /\ st[g] = "waiting" => /\ st' = [st EXCEPT ![g] = After(g, TRUE)]
                              /\ refused' = IF TRUE THEN refused ELSE refused \cup {g}
      /\ st[g] # "waiting" => st' = st /\ refused' = refused
  BY CallEnds
<1>2. After(g, TRUE) \in State
  BY Answer DEF State
<1> QED BY <1>1, <1>2 DEF Answered, TypeOK, Quiet

LEMMA RunWorkKeeps ==
    ASSUME TeamsInductive, NEW g \in Guest, RunWork(<<g, "call">>)
    PROVE  TeamsInductive'
<1>0. /\ TypeOK /\ refused = {} /\ GuestsOK /\ EndsOK /\ ThreadsOK
      /\ RootFirst /\ OneActive /\ SpawnOK /\ ImageOK /\ ImageAlone /\ KilledOK
      /\ ServedOK /\ GoneOK /\ WaitOK /\ ExecBy /\ OneLeft /\ LiveOK /\ ForkOK
  BY DEF TeamsInductive, FamilyOK, TablesOK
<1>1. CallJob(g) = "run" /\ CallCtx(g) = ctx[<<g, "call">>]
  BY DEF RunWork, Running, CallJob, CallCtx
<1>2. CallCtx(g) = Ident(g)
  BY <1>0, <1>1 DEF GuestsOK, JobsOK
<1>3. req[g] = "work" \/ (req[g] = "forkwait" /\ unlocked[team[g]])
  <2>1. req[g] = "work" \/ (req[g] = "forkwait" /\ unlocked[CallCtx(g)[1]])
    BY <1>1 DEF RunWork, Running
  <2> QED BY <1>2, <2>1, Ids
<1>4. /\ Reply(<<g, "call">>, TRUE) /\ fd' = fd /\ open' = open /\ killed' = killed /\ crossed' = crossed
      /\ connections' = connections /\ procs' = procs /\ sysThreads' = sysThreads
      /\ threads' = threads /\ count' = count /\ executing' = executing /\ unlocked' = unlocked
      /\ left' = left
  BY DEF RunWork, sockets, system, process
<1>5. /\ Answered(g) /\ refused' = refused /\ st' \in [Guest -> State]
      /\ job' \in [Worker -> Step \cup {None}] /\ ctx' \in [Worker -> Idents \cup {None}]
  BY <1>0, <1>1, <1>4, Nones, Answers
<1>6. TablesSame
  BY <1>4, <1>5 DEF TablesSame
<1>7. TypeOK'
  BY <1>0, <1>4, <1>5, <1>6, WorkerTypes DEF Answered, TypeOK
<1> QED BY <1>1, <1>3, <1>5, <1>6, <1>7, Nones, AnswerKeeps

-----------------------------------------------------------------------------
(* server_dispatch. *)

\* A call goes on, as the guest that made it.
LEMMA CallMoves ==
    ASSUME TeamsInductive, NEW g \in Guest, NEW s \in {"d2", "run"},
           CallJob(g) \in {"d1", "d2"}, CallAt(g, s, Ident(g)), Quiet, TablesSame, st' = st, TypeOK'
    PROVE  TeamsInductive'
<1>0. /\ TypeOK /\ refused = {} /\ GuestsOK /\ EndsOK /\ ThreadsOK
      /\ RootFirst /\ OneActive /\ SpawnOK /\ ImageOK /\ ImageAlone /\ KilledOK
      /\ ServedOK /\ GoneOK /\ WaitOK /\ ExecBy /\ OneLeft /\ LiveOK /\ ForkOK
  BY DEF TeamsInductive, FamilyOK, TablesOK
<1>1. Pending(g) /\ ~sent[g] /\ fd[g] # None /\ req[g] # "connect"
  BY <1>0, Caller, Nones DEF GuestsOK, JobsOK
<1>2. ASSUME NEW h \in Guest
      PROVE  /\ Pending(h)' <=> Pending(h)
             /\ Knocks(h)' <=> Knocks(h)
             /\ Outside(h)' <=> Outside(h)
             /\ Blocked(h)' <=> Blocked(h)
             /\ CallJob(h)' \in {"c2", "c3", "c4"} <=> CallJob(h) \in {"c2", "c3", "c4"}
             /\ Holds(h)' <=> Holds(h)
             /\ ToHangUp(h)' <=> ToHangUp(h)
             /\ Active(h)' <=> Active(h)
             /\ Known(h)' <=> Known(h)
             /\ Leftover(h)' <=> Leftover(h)
  <2>1. /\ Outside(h)' <=> Outside(h)
        /\ Blocked(h)' <=> Blocked(h)
        /\ CallJob(h)' \in {"c2", "c3", "c4"} <=> CallJob(h) \in {"c2", "c3", "c4"}
    BY <1>1, Nones DEF Pending, Outside, Blocked, CallAt, Quiet
  <2>2. CallJob(g) # None /\ s # None /\ connections' = connections
    BY Nones DEF TablesSame
  <2> QED BY <1>0, <2>1, <2>2, CallStays
<1>3. ASSUME NEW h \in Guest PROVE StateOK(h)' /\ JobsOK(h)' /\ SocketOK(h)'
  <2>1. StateOK(h)'
    BY <1>0, <1>2 DEF GuestsOK, StateOK, Idle, CallAt, Quiet
  <2>2. JobsOK(h)'
    BY <1>0, <1>1, <1>2, Nones DEF GuestsOK, JobsOK, CallAt, Quiet
  <2>3. SocketOK(h)'
    BY <1>0, <1>2 DEF GuestsOK, SocketOK, CallAt, Quiet, TablesSame
  <2> QED BY <2>1, <2>2, <2>3
<1>4. EndsOK' /\ ThreadsOK' /\ LiveOK'
  BY <1>0, <1>2 DEF EndsOK, ThreadsOK, LiveOK, Lives, Alive, TablesSame, Quiet
<1>5. FamilyOK'
  <2>1. RootFirst' /\ OneActive'
    BY <1>0, <1>2 DEF RootFirst, OneActive, Early, Quiet
  <2>2. SpawnOK' /\ KilledOK'
    BY <1>0 DEF SpawnOK, KilledOK, Quiet
  <2>3. ImageOK'
    BY <1>0, <1>2, Family DEF ImageOK, Quiet
  <2>4. ImageAlone'
    BY <1>0, <1>2 DEF ImageAlone
  <2> QED BY <2>1, <2>2, <2>3, <2>4 DEF FamilyOK
<1>6. TablesOK'
  <2>1. ServedOK'
    BY <1>0, <1>2 DEF ServedOK, Served, Idle, TablesSame, Quiet
  <2>2. GoneOK'
    BY <1>0, <1>2 DEF GoneOK, BlockedImage, TablesSame, Quiet
  <2>3. WaitOK'
    BY <1>0, <1>2 DEF WaitOK, OldImage, TablesSame, Quiet
  <2>4. ExecBy'
    BY <1>0, <1>2 DEF ExecBy, ExecsNow, TablesSame, Quiet
  <2>5. OneLeft'
    BY <1>0, <1>2, OneLeftStays DEF Ghost, Quiet
  <2> QED BY <2>1, <2>2, <2>3, <2>4, <2>5 DEF TablesOK
<1>7. ForkOK'
  BY <1>0, <1>2 DEF ForkOK, ForksOK, ForkedOK, Early, TablesSame, Quiet
<1> QED BY <1>0, <1>3, <1>4, <1>5, <1>6, <1>7 DEF TeamsInductive, GuestsOK, TablesSame

\* A hangup goes on, or ends because nothing is left to do; nobody waits for it then.
LEMMA HangMoves ==
    ASSUME TeamsInductive, NEW g \in Guest, NEW s \in {None, "d2", "run"}, NEW c, Hung(g, s, c),
           HangJob(g) # None, TablesSame, TypeOK',
           s # None => c = Ident(g) /\ ~Outside(g) /\ (connections[fd[g]] # None \/ HangJob(g) = "d2"),
           s = None => \/ ~Known(g)
                       \/ team[g] \notin procs
                       \/ tid[g] \notin threads[team[g]]
    PROVE  TeamsInductive'
<1>0. /\ TypeOK /\ refused = {} /\ GuestsOK /\ EndsOK /\ ThreadsOK
      /\ RootFirst /\ OneActive /\ SpawnOK /\ ImageOK /\ ImageAlone /\ KilledOK
      /\ ServedOK /\ GoneOK /\ WaitOK /\ ExecBy /\ OneLeft /\ LiveOK /\ ForkOK
  BY DEF TeamsInductive, FamilyOK, TablesOK
<1>1. Quiet /\ HangAt(g, s, c) /\ st' = st
  BY DEF Hung
<1>2. /\ \A h \in Guest : /\ Pending(h)' <=> Pending(h)
                          /\ Outside(h)' <=> Outside(h)
                          /\ Blocked(h)' <=> Blocked(h)
                          /\ StateOK(h)' /\ JobsOK(h)'
      /\ FamilyOK'
  BY HangGuests
<1>3. s = None /\ team[g] \notin killed => ~Leftover(g)
  <2> SUFFICES ASSUME s = None, team[g] \notin killed, Leftover(g) PROVE FALSE
    OBVIOUS
  <2>1. st[g] = "gone"
    BY <1>0 DEF GuestsOK, JobsOK
  <2>2. /\ Known(g) /\ tid[g] \in threads[team[g]] /\ executing[team[g]]
        /\ \E x \in Guest : BlockedImage(g, x)
    BY <1>0, <2>1 DEF GoneOK
  <2>3. team[g] \in procs
    BY <1>0, <2>2 DEF WaitOK, BlockedImage
  <2> QED BY <2>2, <2>3
<1>4. ASSUME NEW h \in Guest
      PROVE  /\ Holds(h)' => Holds(h)
             /\ Holds(h) /\ ~Holds(h)' => team[h] \in killed \/ connections'[fd[h]] = None
             /\ Known(h)' <=> Known(h)
             /\ Leftover(h)' => Leftover(h)
             /\ team[h] \notin killed /\ Leftover(h) => Leftover(h)'
             /\ h # g \/ s # None => (ToHangUp(h)' <=> ToHangUp(h))
  <2>1. /\ Holds(h)' => Holds(h)
        /\ Known(h)' <=> Known(h)
        /\ h # g \/ s # None => /\ Holds(h)' <=> Holds(h)
                                /\ ToHangUp(h)' <=> ToHangUp(h)
    BY <1>1 DEF Holds, Known, ToHangUp, HangAt, Quiet, TablesSame
  <2>2. /\ Leftover(h)' => Leftover(h)
        /\ h # g \/ s # None => (Leftover(h) => Leftover(h)')
    BY <1>1, <2>1, Nones DEF Leftover, HangAt, Quiet, TablesSame
  <2>3. Holds(h) /\ ~Holds(h)' => team[h] \in killed \/ connections'[fd[h]] = None
    BY <1>3, <2>1 DEF Leftover, TablesSame
  <2> QED BY <1>3, <2>1, <2>2, <2>3
<1>5. EndsOK' /\ \A h \in Guest : SocketOK(h)'
  BY <1>0, <1>1, <1>2, <1>4, SocketsKeep DEF TablesSame, HangAt
<1>6. ThreadsOK' /\ LiveOK'
  <2>1. \A h \in Guest : /\ Alive(h)' <=> Alive(h)
                         /\ team[h] \notin killed /\ Lives(h) => Lives(h)'
    BY <1>1, <1>4 DEF Lives, Alive
  <2> QED BY <1>0, <1>1, <2>1, Family DEF ThreadsOK, LiveOK, TablesSame, Quiet
<1>7. TablesOK'
  <2>1. ServedOK'
    BY <1>0, <1>1, <1>4 DEF ServedOK, Served, Idle, TablesSame, HangAt, Quiet
  <2>2. GoneOK'
    <3>1. ASSUME NEW h \in Guest, NEW x \in Guest PROVE BlockedImage(h, x)' <=> BlockedImage(h, x)
      BY <1>1, <1>2 DEF BlockedImage
    <3> QED BY <1>0, <1>1, <1>2, <1>3, <1>4, <3>1 DEF GoneOK, TablesSame, Quiet
  <2>3. WaitOK'
    <3> SUFFICES ASSUME NEW x \in Guest, origin[x] = "exec", Blocked(x), executing[team[x]],
                        NEW t \in threads[team[x]]
                 PROVE  \E h \in Guest : tid[h] = t /\ OldImage(h, x)'
      BY <1>0, <1>2 DEF WaitOK, TablesSame
    <3>1. team[x] \in procs
      BY <1>0 DEF WaitOK
    <3>2. PICK h \in Guest : tid[h] = t /\ OldImage(h, x)
      BY <1>0 DEF WaitOK
    <3>3. h = g => s # None
      BY <3>1, <3>2 DEF OldImage
    <3>4. OldImage(h, x)'
      BY <1>1, <1>4, <3>2, <3>3 DEF OldImage, Quiet
    <3> QED BY <3>2, <3>4
  <2>4. ExecBy'
    BY <1>0, <1>1, <1>2 DEF ExecBy, ExecsNow, TablesSame, Quiet
  <2>5. OneLeft'
    <3>1. \A h \in Guest : Ghost(h)' => Ghost(h)
      BY <1>1, <1>4 DEF Ghost, Quiet
    <3> QED BY <1>0, <3>1, OneLeftStays
  <2> QED BY <2>1, <2>2, <2>3, <2>4, <2>5 DEF TablesOK
<1>8. ForkOK'
  BY <1>0, <1>1, <1>2 DEF ForkOK, ForksOK, ForkedOK, Early, TablesSame, Quiet
<1> QED BY <1>0, <1>2, <1>5, <1>6, <1>7, <1>8 DEF TeamsInductive, GuestsOK, TablesSame

\* server_dispatch refuses only who was killed.
LEMMA CallRefused ==
    ASSUME TeamsInductive, NEW g \in Guest, CallJob(g) \in {"d1", "d2"},
           Reply(<<g, "call">>, FALSE), UNCHANGED <<sockets, system, left, killed, crossed>>,
           \/ ~Known(g)
           \/ team[g] \notin procs
           \/ tid[g] \notin threads[team[g]]
    PROVE  TeamsInductive'
<1>0. /\ TypeOK /\ refused = {} /\ GuestsOK /\ EndsOK /\ ThreadsOK
      /\ RootFirst /\ OneActive /\ SpawnOK /\ ImageOK /\ ImageAlone /\ KilledOK
      /\ ServedOK /\ GoneOK /\ WaitOK /\ ExecBy /\ OneLeft /\ LiveOK /\ ForkOK
  BY DEF TeamsInductive, FamilyOK, TablesOK
<1>1. req[g] # "connect" /\ CallJob(g) # None
  BY <1>0, Nones DEF GuestsOK, JobsOK
<1>2. st[g] = "gone" /\ (team[g] \in killed \/ req[g] = "work")
  BY <1>0, <1>1, Caller DEF ServedOK, Served
<1>3. /\ CallAt(g, None, None) /\ req' = req /\ sent' = sent /\ newest' = newest
      /\ job' \in [Worker -> Step \cup {None}] /\ ctx' \in [Worker -> Idents \cup {None}]
      /\ st' = st /\ refused' = refused
  BY <1>0, <1>2, CallEnds
<1>4. Quiet /\ TablesSame /\ Answered(g)
  BY <1>2, <1>3 DEF Answered, Quiet, TablesSame, sockets, system, process
<1>5. TypeOK'
  BY <1>0, <1>3, <1>4, WorkerTypes DEF TypeOK, TablesSame
<1> QED BY <1>1, <1>2, <1>4, <1>5, AnswerKeeps DEF TablesSame

LEMMA HangRefused ==
    ASSUME TeamsInductive, NEW g \in Guest, HangJob(g) # None,
           Reply(<<g, "hang">>, FALSE), UNCHANGED <<sockets, system, left, killed, crossed>>,
           \/ ~Known(g)
           \/ team[g] \notin procs
           \/ tid[g] \notin threads[team[g]]
    PROVE  TeamsInductive'
<1>0. /\ TypeOK /\ refused = {} /\ GuestsOK /\ EndsOK /\ ThreadsOK
      /\ RootFirst /\ OneActive /\ SpawnOK /\ ImageOK /\ ImageAlone /\ KilledOK
      /\ ServedOK /\ GoneOK /\ WaitOK /\ ExecBy /\ OneLeft /\ LiveOK /\ ForkOK
  BY DEF TeamsInductive, FamilyOK, TablesOK
<1>1. /\ HangAt(g, None, None) /\ st' = st /\ refused' = refused
      /\ req' = req /\ sent' = sent /\ newest' = newest
      /\ job' \in [Worker -> Step \cup {None}] /\ ctx' \in [Worker -> Idents \cup {None}]
  BY <1>0, HangEnds
<1>2. Quiet /\ TablesSame /\ Hung(g, None, None)
  BY <1>1 DEF Hung, Quiet, TablesSame, sockets, system, process
<1>3. TypeOK'
  BY <1>0, <1>1, <1>2, WorkerTypes DEF TypeOK, TablesSame
<1> QED BY <1>2, <1>3, HangMoves

\* The connection of who has one names him, so that server_dispatch finds him.
LEMMA Dispatch1Keeps ==
    ASSUME TeamsInductive, NEW w \in Worker, Dispatch1(w)
    PROVE  TeamsInductive'
<1>0. /\ TypeOK /\ refused = {} /\ GuestsOK /\ EndsOK /\ ThreadsOK
      /\ RootFirst /\ OneActive /\ SpawnOK /\ ImageOK /\ ImageAlone /\ KilledOK
      /\ ServedOK /\ GoneOK /\ WaitOK /\ ExecBy /\ OneLeft /\ LiveOK /\ ForkOK
  BY DEF TeamsInductive, FamilyOK, TablesOK
<1>1. PICK g \in Guest : w = <<g, "call">> \/ w = <<g, "hang">>
  BY Workers
<1> DEFINE c == connections[fd[g]]
<1>2. UNCHANGED <<sockets, system, left, killed, crossed>>
  BY DEF Dispatch1
<1>3. w[1] = g /\ (w = <<g, "call">> => CallJob(g) = "d1") /\ (w = <<g, "hang">> => HangJob(g) = "d1")
  BY <1>1 DEF Dispatch1, CallJob, HangJob
<1>4. fd[g] # None /\ c \in {None, Ident(g)}
  BY <1>0, <1>1, <1>3, Nones DEF GuestsOK, JobsOK, SocketOK, Holds
<1>5. CASE c # None /\ c[1] \in procs
  <2>1. c = Ident(g) /\ Ident(g) \in Idents
    BY <1>4, <1>5, Ids
  <2>2. Go(w, "d2") /\ ctx' = [ctx EXCEPT ![w] = Ident(g)]
    BY <1>3, <1>5, <2>1 DEF Dispatch1
  <2>3. CASE w = <<g, "call">>
    <3>1. /\ CallAt(g, "d2", Ident(g)) /\ st' = st /\ refused' = refused
          /\ req' = req /\ sent' = sent /\ newest' = newest
          /\ job' \in [Worker -> Step \cup {None}] /\ ctx' \in [Worker -> Idents \cup {None}]
      BY <1>0, <2>1, <2>2, <2>3, Nones, CallNames
    <3>2. Quiet /\ TablesSame
      BY <1>2, <3>1 DEF Quiet, TablesSame, sockets, system, process
    <3>3. TypeOK'
      BY <1>0, <3>1, <3>2, WorkerTypes DEF TypeOK, TablesSame
    <3> QED BY <1>3, <2>3, <3>1, <3>2, <3>3, CallMoves
  <2>4. CASE w = <<g, "hang">>
    <3>1. /\ HangAt(g, "d2", Ident(g)) /\ st' = st /\ refused' = refused
          /\ req' = req /\ sent' = sent /\ newest' = newest
          /\ job' \in [Worker -> Step \cup {None}] /\ ctx' \in [Worker -> Idents \cup {None}]
      BY <1>0, <2>1, <2>2, <2>4, Nones, HangNames
    <3>2. Quiet /\ TablesSame /\ Hung(g, "d2", Ident(g))
      BY <1>2, <3>1 DEF Quiet, TablesSame, Hung, sockets, system, process
    <3>3. TypeOK'
      BY <1>0, <3>1, <3>2, WorkerTypes DEF TypeOK, TablesSame
    <3>4. HangJob(g) # None /\ ~Outside(g)
      BY <1>0, <1>3, <1>4, <1>5, <2>4, Nones DEF GuestsOK, SocketOK, Holds
    <3> QED BY <1>5, <3>2, <3>3, <3>4, Nones, HangMoves
  <2> QED BY <1>1, <2>3, <2>4
<1>6. CASE ~(c # None /\ c[1] \in procs)
  <2>1. Reply(w, FALSE)
    BY <1>3, <1>6 DEF Dispatch1
  <2>2. ~Known(g) \/ team[g] \notin procs
    BY <1>6, Ids DEF Known
  <2>3. CASE w = <<g, "call">>
    BY <1>2, <1>3, <2>1, <2>2, <2>3, CallRefused
  <2>4. CASE w = <<g, "hang">>
    BY <1>2, <1>3, <2>1, <2>2, <2>4, Nones, HangRefused
  <2> QED BY <1>1, <2>3, <2>4
<1> QED BY <1>5, <1>6

LEMMA Dispatch2Keeps ==
    ASSUME TeamsInductive, NEW w \in Worker, Dispatch2(w)
    PROVE  TeamsInductive'
<1>0. /\ TypeOK /\ refused = {} /\ GuestsOK /\ EndsOK /\ ThreadsOK
      /\ RootFirst /\ OneActive /\ SpawnOK /\ ImageOK /\ ImageAlone /\ KilledOK
      /\ ServedOK /\ GoneOK /\ WaitOK /\ ExecBy /\ OneLeft /\ LiveOK /\ ForkOK
  BY DEF TeamsInductive, FamilyOK, TablesOK
<1>1. PICK g \in Guest : w = <<g, "call">> \/ w = <<g, "hang">>
  BY Workers
<1>2. UNCHANGED <<sockets, system, left, killed, crossed>>
  BY DEF Dispatch2
<1>3. /\ w = <<g, "call">> => CallJob(g) = "d2" /\ CallCtx(g) = ctx[w]
      /\ w = <<g, "hang">> => HangJob(g) = "d2" /\ HangCtx(g) = ctx[w]
  BY <1>1 DEF Dispatch2, CallJob, HangJob, CallCtx, HangCtx
<1>4. ctx[w] = Ident(g)
  BY <1>0, <1>1, <1>3 DEF GuestsOK, JobsOK
<1>5. ctx[w][1] = team[g] /\ ctx[w][2] = tid[g]
  BY <1>4, Ids
<1>6. CASE tid[g] \in threads[team[g]]
  <2>1. Go(w, "run") /\ ctx' = ctx
    BY <1>5, <1>6 DEF Dispatch2
  <2>2. CASE w = <<g, "call">>
    <3>1. /\ CallAt(g, "run", CallCtx(g)) /\ st' = st /\ refused' = refused
          /\ req' = req /\ sent' = sent /\ newest' = newest /\ job' \in [Worker -> Step \cup {None}]
      BY <1>0, <2>1, <2>2, Nones, CallSteps
    <3>2. Quiet /\ TablesSame /\ CallAt(g, "run", Ident(g))
      BY <1>2, <1>3, <1>4, <2>2, <3>1 DEF Quiet, TablesSame, sockets, system, process
    <3>3. TypeOK'
      BY <1>0, <2>1, <3>1, <3>2, WorkerTypes DEF TypeOK, TablesSame
    <3> QED BY <1>3, <2>2, <3>1, <3>2, <3>3, CallMoves
  <2>3. CASE w = <<g, "hang">>
    <3>1. /\ HangAt(g, "run", HangCtx(g)) /\ st' = st /\ refused' = refused
          /\ req' = req /\ sent' = sent /\ newest' = newest /\ job' \in [Worker -> Step \cup {None}]
      BY <1>0, <2>1, <2>3, Nones, HangSteps
    <3>2. Quiet /\ TablesSame /\ Hung(g, "run", Ident(g))
      BY <1>2, <1>3, <1>4, <2>3, <3>1 DEF Quiet, TablesSame, Hung, sockets, system, process
    <3>3. TypeOK'
      BY <1>0, <2>1, <3>1, <3>2, WorkerTypes DEF TypeOK, TablesSame
    <3>4. HangJob(g) = "d2" /\ HangJob(g) # None /\ ~Outside(g)
      BY <1>0, <1>3, <2>3, Nones DEF GuestsOK, JobsOK
    <3> QED BY <3>2, <3>3, <3>4, Nones, HangMoves
  <2> QED BY <1>1, <2>2, <2>3
<1>7. CASE tid[g] \notin threads[team[g]]
  <2>1. Reply(w, FALSE)
    BY <1>5, <1>7 DEF Dispatch2
  <2>2. CASE w = <<g, "call">>
    BY <1>2, <1>3, <1>7, <2>1, <2>2, CallRefused
  <2>3. CASE w = <<g, "hang">>
    BY <1>2, <1>3, <1>7, <2>1, <2>3, Nones, HangRefused
  <2> QED BY <1>1, <2>2, <2>3
<1> QED BY <1>6, <1>7

-----------------------------------------------------------------------------
(* The rest of connect, exec and fork. *)

\* The call of a team, and what it can change: another entry of the process.
LEMMA CallStands ==
    ASSUME TeamsInductive, NEW g \in Guest, CallJob(g) = "run"
    PROVE  /\ CallJob(g) # None /\ ctx[<<g, "call">>][1] = team[g] /\ ctx[<<g, "call">>][2] = tid[g]
           /\ req[g] # "connect" /\ (req[g] # "work" => Active(g)) /\ st[g] # "unborn"
           /\ \/ st[g] = "waiting" /\ team[g] \notin killed
              \/ st[g] = "gone" /\ (team[g] \in killed \/ req[g] = "work")
<1>0. /\ TypeOK /\ refused = {} /\ GuestsOK /\ EndsOK /\ ThreadsOK
      /\ RootFirst /\ OneActive /\ SpawnOK /\ ImageOK /\ ImageAlone /\ KilledOK
      /\ ServedOK /\ GoneOK /\ WaitOK /\ ExecBy /\ OneLeft /\ LiveOK /\ ForkOK
  BY DEF TeamsInductive, FamilyOK, TablesOK
<1>1. CallJob(g) # None /\ req[g] # "connect" /\ CallCtx(g) = Ident(g)
  BY <1>0, Nones DEF GuestsOK, JobsOK
<1>2. ctx[<<g, "call">>][1] = team[g] /\ ctx[<<g, "call">>][2] = tid[g]
  BY <1>1, Ids DEF CallCtx
<1>3. /\ req[g] # "work" => Active(g)
      /\ \/ st[g] = "waiting" /\ team[g] \notin killed
         \/ st[g] = "gone" /\ (team[g] \in killed \/ req[g] = "work")
  BY <1>0, <1>1, Caller
<1> QED BY <1>1, <1>2, <1>3

LEMMA Connect4Keeps ==
    ASSUME TeamsInductive, NEW g \in Guest, Connect4(<<g, "call">>)
    PROVE  TeamsInductive'
<1>0. /\ TypeOK /\ refused = {} /\ GuestsOK /\ EndsOK /\ ThreadsOK
      /\ RootFirst /\ OneActive /\ SpawnOK /\ ImageOK /\ ImageAlone /\ KilledOK
      /\ ServedOK /\ GoneOK /\ WaitOK /\ ExecBy /\ OneLeft /\ LiveOK /\ ForkOK
  BY DEF TeamsInductive, FamilyOK, TablesOK
<1> DEFINE p == team[g]
<1>1. CallJob(g) = "c4" /\ CallJob(g) # None
  BY Nones DEF Connect4, CallJob
<1>2. /\ req[g] = "connect" /\ Pending(g) /\ ~sent[g] /\ fd[g] # None
      /\ p \in Team /\ tid[g] \in Tid
      /\ \/ st[g] = "waiting" /\ p \notin killed
         \/ st[g] = "gone" /\ p \in killed
  <2>1. req[g] = "connect"
    BY <1>0, <1>1 DEF GuestsOK, JobsOK
  <2> QED BY <1>0, <1>1, <2>1, Caller, Ids
<1>3. /\ threads' = [threads EXCEPT ![p] = threads[p] \cup {tid[g]}]
      /\ count' = [count EXCEPT ![p] = Cardinality(threads'[p])]
      /\ Reply(<<g, "call">>, TRUE) /\ fd' = fd /\ open' = open /\ killed' = killed /\ crossed' = crossed
      /\ connections' = connections /\ procs' = procs /\ sysThreads' = sysThreads
      /\ executing' = executing /\ unlocked' = unlocked /\ left' = left
  BY DEF Connect4, sockets
<1>4. /\ Answered(g) /\ refused' = refused /\ st' \in [Guest -> State]
      /\ job' \in [Worker -> Step \cup {None}] /\ ctx' \in [Worker -> Idents \cup {None}]
  BY <1>0, <1>1, <1>3, Answers
<1>5. Quiet /\ CallAt(g, None, None)
  BY <1>4 DEF Answered
<1>6. /\ \A h \in Guest : /\ Pending(h)' <=> h # g /\ Pending(h)
                          /\ Outside(h)' <=> h # g /\ Outside(h)
                          /\ Blocked(h)' <=> h # g /\ Blocked(h)
                          /\ StateOK(h)' /\ JobsOK(h)'
      /\ FamilyOK'
  BY <1>1, <1>4, AnswerGuests
<1>7. /\ \A h \in Guest : h # g \/ st[g] = "gone" => st'[h] = st[h]
      /\ st[g] = "waiting" => st'[g] \in {"up", "atfork"}
      /\ st[g] = "waiting" => (st'[g] = "atfork" <=> origin[g] = "fork")
  BY <1>2, <1>4, Answer DEF Answered
<1>8. \A q \in Team : threads'[q] = IF q = p THEN threads[p] \cup {tid[g]} ELSE threads[q]
  BY <1>0, <1>3 DEF TypeOK
<1>9. TypeOK'
  <2>1. threads' \in [Team -> SUBSET Tid]
    BY <1>0, <1>2, <1>3 DEF TypeOK
  <2>2. Cardinality(threads'[p]) \in 0..Cardinality(Tid)
    <3>1. threads'[p] \subseteq Tid
      BY <1>2, <2>1
    <3>2. IsFiniteSet(threads'[p]) /\ Cardinality(threads'[p]) <= Cardinality(Tid)
      BY <3>1, TidFinite, FS_Subset
    <3>3. Cardinality(threads'[p]) \in Nat
      BY <3>2, FS_CardinalityType
    <3> QED BY <3>2, <3>3, TidFinite
  <2>3. count' \in [Team -> 0..Cardinality(Tid)]
    BY <1>0, <1>3, <2>2 DEF TypeOK
  <2> QED BY <1>0, <1>3, <1>4, <1>5, <2>1, <2>3 DEF TypeOK, Quiet
<1>10. \A h \in Guest : /\ Holds(h)' => Holds(h)
                        /\ Holds(h) /\ ~Holds(h)' =>
                               team[h] \in killed \/ connections'[fd[h]] = None
                        /\ ToHangUp(h)' <=> ToHangUp(h)
                        /\ Known(h)' <=> Known(h)
                        /\ Leftover(h)' => Leftover(h)
                        /\ team[h] \notin killed /\ Leftover(h) => Leftover(h)'
  BY <1>0, <1>1, <1>3, <1>5, CallOver
<1>11. EndsOK' /\ \A h \in Guest : SocketOK(h)'
  BY <1>0, <1>2, <1>3, <1>5, <1>6, <1>7, <1>10, SocketsKeep DEF CallAt
<1>12. ~Blocked(g) /\ ~Outside(g)
  BY <1>1, <1>2 DEF Blocked, Outside
<1>13. TablesOK'
  <2>1. ServedOK'
    <3> SUFFICES ASSUME NEW h \in Guest
                 PROVE  /\ Served(h)' => /\ fd'[h] # None /\ Known(h)' /\ team[h] \in procs'
                                         /\ tid[h] \in threads'[team[h]]
                        /\ st'[h] = "waiting" /\ CallJob(h)' \in {"c2", "c3", "c4"} =>
                               Known(h)' /\ team[h] \in procs'
      BY DEF ServedOK
    <3>1. Known(h)' <=> Known(h)
      BY <1>10
    <3>2. CASE h # g
      BY <1>0, <1>3, <1>5, <1>7, <1>8, <3>1, <3>2, Ids DEF ServedOK, Served, Idle, CallAt, Quiet
    <3>3. CASE h = g /\ st[g] = "waiting"
      BY <1>0, <1>1, <1>2, <1>3, <1>5, <1>7, <1>8, <3>1, <3>3, Nones DEF ServedOK, CallAt, Quiet
    <3>4. CASE h = g /\ st[g] = "gone"
      BY <1>7, <3>4 DEF Served, Idle
    <3> QED BY <1>2, <3>2, <3>3, <3>4
  <2>2. GoneOK'
    <3>1. ASSUME NEW h \in Guest, NEW x \in Guest, BlockedImage(h, x) PROVE BlockedImage(h, x)'
      BY <1>6, <1>7, <1>12, <3>1 DEF BlockedImage
    <3>2. ASSUME NEW h \in Guest
          PROVE  (st'[h] = "gone" => st[h] = "gone") /\ threads[team[h]] \subseteq threads'[team[h]]
      BY <1>2, <1>7, <1>8, Ids
    <3> QED BY <1>0, <1>3, <1>5, <1>6, <1>10, <3>1, <3>2 DEF GoneOK, Quiet
  <2>3. WaitOK'
    <3>1. \A h, x \in Guest : OldImage(h, x) => OldImage(h, x)'
      BY <1>2, <1>5, <1>7, <1>10 DEF OldImage, Quiet
    <3>2. ASSUME NEW x \in Guest, origin[x] = "exec", Blocked(x)', executing'[team[x]]
          PROVE  x # g /\ Blocked(x) /\ executing[team[x]] /\ threads'[team[x]] = threads[team[x]]
      <4>1. x # g /\ Blocked(x) /\ executing[team[x]]
        BY <1>3, <1>6, <3>2
      <4>2. team[x] # p
        BY <1>0, <1>1, <1>2, <3>2, <4>1, Caller, Knocking, Nones DEF ImageAlone
      <4> QED BY <1>8, <4>1, <4>2, Ids
    <3> QED BY <1>0, <1>3, <3>1, <3>2 DEF WaitOK
  <2>4. ExecBy'
    BY <1>0, <1>2, <1>3, <1>5, <1>6, <1>7, <1>12 DEF ExecBy, ExecsNow, Quiet
  <2>5. OneLeft'
    <3>1. \A h \in Guest : Ghost(h)' => Ghost(h)
      BY <1>2, <1>5, <1>7, <1>10 DEF Ghost, Quiet
    <3> QED BY <1>0, <3>1, OneLeftStays
  <2> QED BY <2>1, <2>2, <2>3, <2>4, <2>5 DEF TablesOK
<1>14. ThreadsOK' /\ LiveOK'
  <2>1. ThreadsOK'
    BY <1>0, <1>8 DEF ThreadsOK
  <2>2. \A h \in Guest : Alive(h)' <=> Alive(h)
    BY <1>2, <1>7 DEF Alive
  <2>3. p \notin killed => Alive(g)
    BY <1>2 DEF Alive
  <2>4. LiveOK'
    <3>1. \A h \in Guest : team[h] \notin killed /\ Lives(h) => Lives(h)'
      BY <1>2, <1>7, <1>10, <2>2 DEF Lives
    <3>2. p \notin killed => Lives(g)'
      BY <2>2, <2>3 DEF Lives
    <3> QED BY <1>0, <1>3, <1>8, <2>2, <3>1, <3>2, Family DEF LiveOK
  <2> QED BY <2>1, <2>4
<1>15. ASSUME NEW h \in Guest PROVE ForksOK(h)' /\ ForkedOK(h)'
  <2>1. ForksOK(h) /\ ForkedOK(h)
    BY <1>0 DEF ForkOK
  <2>2. ASSUME NEW c \in Guest
        PROVE  /\ Early(c)' => Early(c)
               /\ Early(c) /\ origin[c] = "fork" /\ team[c] \notin killed => Early(c)'
               /\ st'[c] = "unborn" <=> st[c] = "unborn"
    <3>1. CASE c = g
      BY <1>2, <1>6, <1>7, <3>1 DEF Early
    <3>2. CASE c # g
      BY <1>5, <1>6, <1>7, <3>2 DEF Early, Quiet
    <3> QED BY <3>1, <3>2
  <2>3. ForksOK(h)'
    BY <1>2, <1>3, <1>5, <1>6, <2>1, <2>2 DEF ForksOK, Quiet
  <2>4. ForkedOK(h)'
    BY <1>2, <1>3, <1>5, <1>6, <1>7, <2>1, <2>2, Family DEF ForkedOK, Quiet
  <2> QED BY <2>3, <2>4
<1> QED BY <1>0, <1>4, <1>6, <1>9, <1>11, <1>13, <1>14, <1>15
        DEF TeamsInductive, GuestsOK, ForkOK

\* Process::Exec, before an execve and after one that failed.
LEMMA RunExecKeeps ==
    ASSUME TeamsInductive, NEW g \in Guest, RunExec(<<g, "call">>)
    PROVE  TeamsInductive'
<1>0. /\ TypeOK /\ refused = {} /\ GuestsOK /\ EndsOK /\ ThreadsOK
      /\ RootFirst /\ OneActive /\ SpawnOK /\ ImageOK /\ ImageAlone /\ KilledOK
      /\ ServedOK /\ GoneOK /\ WaitOK /\ ExecBy /\ OneLeft /\ LiveOK /\ ForkOK
  BY DEF TeamsInductive, FamilyOK, TablesOK
<1> DEFINE p == team[g]
<1>1. CallJob(g) = "run" /\ req[g] \in {"exec", "unexec"}
  BY DEF RunExec, Running, CallJob
<1>2. /\ CallJob(g) # None /\ ctx[<<g, "call">>][1] = p /\ Active(g) /\ p \in Team
      /\ \/ st[g] = "waiting" /\ p \notin killed
         \/ st[g] = "gone" /\ p \in killed
  <2>1. req[g] # "work"
    BY <1>1
  <2> QED BY <1>1, <2>1, CallStands, Ids
<1>3. /\ executing' = [executing EXCEPT ![p] = (req[g] = "exec")]
      /\ Reply(<<g, "call">>, TRUE) /\ fd' = fd /\ open' = open /\ killed' = killed /\ crossed' = crossed
      /\ connections' = connections /\ procs' = procs /\ sysThreads' = sysThreads
      /\ threads' = threads /\ count' = count /\ unlocked' = unlocked /\ left' = left
  BY <1>2 DEF RunExec, sockets
<1>4. /\ Answered(g) /\ refused' = refused /\ st' \in [Guest -> State]
      /\ job' \in [Worker -> Step \cup {None}] /\ ctx' \in [Worker -> Idents \cup {None}]
  BY <1>0, <1>2, <1>3, Answers
<1>5. Quiet /\ CallAt(g, None, None)
  BY <1>4 DEF Answered
<1>6. /\ \A h \in Guest : /\ Pending(h)' <=> h # g /\ Pending(h)
                          /\ Outside(h)' <=> h # g /\ Outside(h)
                          /\ Blocked(h)' <=> h # g /\ Blocked(h)
                          /\ StateOK(h)' /\ JobsOK(h)'
      /\ FamilyOK'
  BY <1>2, <1>4, AnswerGuests
<1>7. /\ \A h \in Guest : h # g \/ st[g] = "gone" => st'[h] = st[h]
      /\ st[g] = "waiting" => st'[g] = IF req[g] = "exec" THEN "execing" ELSE "up"
  BY <1>1, <1>4, Answer DEF Answered
<1>8. \A q \in Team : /\ q # p => executing'[q] = executing[q]
                      /\ executing'[p] <=> req[g] = "exec"
  BY <1>0, <1>2, <1>3 DEF TypeOK
<1>9. TypeOK'
  <2>1. executing' \in [Team -> BOOLEAN]
    BY <1>0, <1>3 DEF TypeOK
  <2> QED BY <1>0, <1>3, <1>4, <1>5, <2>1 DEF TypeOK, Quiet
<1>10. \A h \in Guest : /\ Holds(h)' => Holds(h)
                        /\ Holds(h) /\ ~Holds(h)' =>
                               team[h] \in killed \/ connections'[fd[h]] = None
                        /\ ToHangUp(h)' <=> ToHangUp(h)
                        /\ Known(h)' <=> Known(h)
                        /\ Leftover(h)' => Leftover(h)
                        /\ team[h] \notin killed /\ Leftover(h) => Leftover(h)'
  BY <1>0, <1>2, <1>3, <1>5, CallOver
<1>11. EndsOK' /\ \A h \in Guest : SocketOK(h)'
  BY <1>0, <1>2, <1>3, <1>5, <1>6, <1>7, <1>10, SocketsKeep DEF CallAt
<1>12. \A h \in Guest : origin[h] = "exec" /\ Blocked(h) => h # g /\ team[h] # p
  <2>1. \A h \in Guest : Blocked(h) => h # g
    BY <1>1 DEF Blocked
  <2> QED BY <1>0, <1>2, <2>1, Knocking DEF ImageAlone
<1>13. TablesOK'
  <2>1. ServedOK'
    <3>1. \A h \in Guest : (Known(h)' <=> Known(h)) /\ (Served(h)' => Served(h))
      BY <1>1, <1>2, <1>5, <1>7, <1>10 DEF Served, Idle, Quiet
    <3>2. \A h \in Guest : st'[h] = "waiting" => h # g
      BY <1>2, <1>7
    <3>3. \A h \in Guest : h # g => st'[h] = st[h] /\ CallJob(h)' = CallJob(h)
      BY <1>5, <1>7 DEF CallAt
    <3> QED BY <1>0, <1>3, <3>1, <3>2, <3>3 DEF ServedOK
  <2>2. GoneOK'
    <3>1. ASSUME NEW h \in Guest, NEW x \in Guest, BlockedImage(h, x)
          PROVE  BlockedImage(h, x)' /\ team[h] # p /\ team[h] \in Team
      <4>1. origin[x] = "exec" /\ team[x] = team[h] /\ st[x] = "waiting" /\ Blocked(x)
        BY <3>1 DEF BlockedImage
      <4>2. x # g /\ team[x] # p /\ team[h] \in Team
        BY <1>12, <4>1, Ids
      <4> QED BY <1>6, <1>7, <4>1, <4>2 DEF BlockedImage
    <3>2. ASSUME NEW h \in Guest
          PROVE  st'[h] = "gone" => st[h] = "gone"
      BY <1>2, <1>7
    <3> QED BY <1>0, <1>3, <1>5, <1>6, <1>8, <1>10, <3>1, <3>2 DEF GoneOK, Quiet
  <2>3. WaitOK'
    <3>1. \A h, x \in Guest : OldImage(h, x) => OldImage(h, x)'
      BY <1>2, <1>5, <1>7, <1>10 DEF OldImage, Quiet
    <3>2. ASSUME NEW x \in Guest, origin[x] = "exec", Blocked(x)', executing'[team[x]]
          PROVE  Blocked(x) /\ executing[team[x]]
      BY <1>6, <1>8, <1>12, <3>2, Ids
    <3> QED BY <1>0, <1>3, <3>1, <3>2 DEF WaitOK
  <2>4. ExecBy'
    <3> SUFFICES ASSUME NEW q \in Team \ killed, executing'[q]
                 PROVE  \E h \in Guest : team[h] = q /\ ExecsNow(h)'
      BY <1>3 DEF ExecBy
    <3>1. CASE q = p
      <4>1. ExecsNow(g)'
        BY <1>2, <1>7, <1>8, <3>1 DEF ExecsNow
      <4> QED BY <3>1, <4>1
    <3>2. CASE q # p
      <4>1. PICK h \in Guest : team[h] = q /\ ExecsNow(h)
        BY <1>0, <1>8, <3>2 DEF ExecBy
      <4>2. ExecsNow(h)'
        BY <1>5, <1>6, <1>7, <3>2, <4>1 DEF ExecsNow, Quiet
      <4> QED BY <4>1, <4>2
    <3> QED BY <3>1, <3>2
  <2>5. OneLeft'
    <3>1. \A h \in Guest : Ghost(h)' => Ghost(h)
      BY <1>2, <1>5, <1>7, <1>10 DEF Ghost, Quiet
    <3> QED BY <1>0, <3>1, OneLeftStays
  <2> QED BY <2>1, <2>2, <2>3, <2>4, <2>5 DEF TablesOK
<1>14. ThreadsOK' /\ LiveOK'
  <2>1. \A h \in Guest : Alive(h)' <=> Alive(h)
    BY <1>2, <1>7 DEF Alive
  <2>2. \A h \in Guest : team[h] \notin killed /\ Lives(h) => Lives(h)'
    BY <1>2, <1>7, <1>10, <2>1 DEF Lives
  <2> QED BY <1>0, <1>3, <2>1, <2>2, Family DEF ThreadsOK, LiveOK
<1>15. ASSUME NEW h \in Guest PROVE ForksOK(h)' /\ ForkedOK(h)'
  <2>1. ForksOK(h) /\ ForkedOK(h)
    BY <1>0 DEF ForkOK
  <2>2. ASSUME NEW c \in Guest
        PROVE  /\ Early(c)' <=> Early(c)
               /\ st'[c] = "unborn" <=> st[c] = "unborn"
    <3>1. CASE c = g
      BY <1>1, <1>2, <1>5, <1>7, <3>1 DEF Early, Quiet
    <3>2. CASE c # g
      BY <1>5, <1>6, <1>7, <3>2 DEF Early, Quiet
    <3> QED BY <3>1, <3>2
  <2>3. ForksOK(h)'
    BY <1>1, <1>3, <1>5, <1>6, <2>1, <2>2 DEF ForksOK, Quiet
  <2>4. ForkedOK(h)'
    BY <1>1, <1>3, <1>5, <1>6, <1>7, <2>1, <2>2, Family DEF ForkedOK, Quiet
  <2> QED BY <2>3, <2>4
<1> QED BY <1>0, <1>4, <1>6, <1>9, <1>11, <1>13, <1>14, <1>15
        DEF TeamsInductive, GuestsOK, ForkOK

\* The fork call of a parent: the process of the child is made unless it has
\* connected, and the child is let go.
LEMMA RunForkKeeps ==
    ASSUME TeamsInductive, NEW g \in Guest, RunFork(<<g, "call">>)
    PROVE  TeamsInductive'
<1>0. /\ TypeOK /\ refused = {} /\ GuestsOK /\ EndsOK /\ ThreadsOK
      /\ RootFirst /\ OneActive /\ SpawnOK /\ ImageOK /\ ImageAlone /\ KilledOK
      /\ ServedOK /\ GoneOK /\ WaitOK /\ ExecBy /\ OneLeft /\ LiveOK /\ ForkOK
  BY DEF TeamsInductive, FamilyOK, TablesOK
<1> DEFINE p == team[g]
           c == newest[g]
           q == team[c]
<1>1. CallJob(g) = "run" /\ req[g] = "fork"
  BY DEF RunFork, Running, CallJob
<1>2. /\ CallJob(g) # None /\ ctx[<<g, "call">>][1] = p /\ p \in Team
      /\ Pending(g)
      /\ \/ st[g] = "waiting" /\ p \notin killed
         \/ st[g] = "gone" /\ p \in killed
  <2>1. req[g] # "work"
    BY <1>1
  <2> QED BY <1>1, <2>1, CallStands, Ids DEF Pending
<1>3. /\ c \in Guest /\ origin[c] = "fork" /\ parent[c] = g /\ st[c] # "unborn"
      /\ ~unlocked[q] /\ (q \notin killed => Early(c))
  BY <1>0, <1>1, <1>2 DEF ForkOK, ForksOK
<1>4. q \in Team /\ q # p /\ Root(c) /\ c # g
  <2>1. \A d \in Guest : origin[d] = "fork" => Root(d) /\ team[parent[d]] # team[d]
    BY Family
  <2>2. Root(c) /\ team[parent[c]] # team[c]
    BY <1>3, <2>1
  <2>3. q \in Team
    BY <1>3, Ids
  <2>4. q # p
    BY <1>3, <2>2
  <2> QED BY <2>2, <2>3, <2>4
<1>5. /\ IF q \notin procs
           THEN /\ procs' = procs \cup {q}
                /\ threads' = [threads EXCEPT ![q] = {}]
                /\ executing' = [executing EXCEPT ![q] = FALSE]
           ELSE procs' = procs /\ threads' = threads /\ executing' = executing
      /\ count' = [count EXCEPT ![q] = count[p]]
      /\ unlocked' = [unlocked EXCEPT ![q] = TRUE]
      /\ Reply(<<g, "call">>, TRUE) /\ fd' = fd /\ open' = open /\ killed' = killed /\ crossed' = crossed
      /\ connections' = connections /\ sysThreads' = sysThreads /\ left' = left
  BY <1>2 DEF RunFork, MakesProcess, sockets
<1>6. /\ Answered(g) /\ refused' = refused /\ st' \in [Guest -> State]
      /\ job' \in [Worker -> Step \cup {None}] /\ ctx' \in [Worker -> Idents \cup {None}]
  BY <1>0, <1>2, <1>5, Answers
<1>7. Quiet /\ CallAt(g, None, None)
  BY <1>6 DEF Answered
<1>8. /\ \A h \in Guest : /\ Pending(h)' <=> h # g /\ Pending(h)
                          /\ Outside(h)' <=> h # g /\ Outside(h)
                          /\ Blocked(h)' <=> h # g /\ Blocked(h)
                          /\ StateOK(h)' /\ JobsOK(h)'
      /\ FamilyOK'
  BY <1>2, <1>6, AnswerGuests
<1>9. \A h \in Guest : st'[h] = IF h = g /\ st[g] = "waiting" THEN "up" ELSE st[h]
  <2>1. After(g, TRUE) = "up"
    BY <1>1, Answer
  <2> QED BY <1>6, <2>1 DEF Answered
<1>10. /\ procs' = procs \cup {q}
       /\ \A t \in Team : /\ threads'[t] = IF t = q /\ q \notin procs THEN {} ELSE threads[t]
                          /\ executing'[t] <=> executing[t] /\ (t = q => q \in procs)
                          /\ unlocked'[t] <=> t = q \/ unlocked[t]
  <2>1. \A t \in Team : unlocked'[t] <=> t = q \/ unlocked[t]
    BY <1>0, <1>5 DEF TypeOK
  <2>2. CASE q \in procs
    BY <1>5, <2>1, <2>2
  <2>3. CASE q \notin procs
    BY <1>0, <1>4, <1>5, <2>1, <2>3 DEF TypeOK
  <2> QED BY <2>2, <2>3
<1>11. TypeOK'
  <2>1. count' \in [Team -> 0..Cardinality(Tid)] /\ unlocked' \in [Team -> BOOLEAN]
    BY <1>0, <1>2, <1>5 DEF TypeOK
  <2>2. /\ threads' \in [Team -> SUBSET Tid] /\ executing' \in [Team -> BOOLEAN]
        /\ procs' \subseteq Team
    <3>1. CASE q \in procs
      BY <1>0, <1>5, <3>1 DEF TypeOK
    <3>2. CASE q \notin procs
      <4>1. threads' = [threads EXCEPT ![q] = {}] /\ procs' = procs \cup {q}
        BY <1>5, <3>2
      <4>2. executing' = [executing EXCEPT ![q] = FALSE]
        BY <1>5, <3>2
      <4>3. threads' \in [Team -> SUBSET Tid] /\ procs' \subseteq Team
        BY <1>0, <1>4, <4>1 DEF TypeOK
      <4>4. executing' \in [Team -> BOOLEAN]
        BY <1>0, <4>2 DEF TypeOK
      <4> QED BY <4>3, <4>4
    <3> QED BY <3>1, <3>2
  <2> QED BY <1>0, <1>5, <1>6, <1>7, <2>1, <2>2 DEF TypeOK, Quiet
<1>12. \A h \in Guest : /\ Holds(h)' => Holds(h)
                        /\ Holds(h) /\ ~Holds(h)' =>
                               team[h] \in killed \/ connections'[fd[h]] = None
                        /\ ToHangUp(h)' <=> ToHangUp(h)
                        /\ Known(h)' <=> Known(h)
                        /\ Leftover(h)' => Leftover(h)
                        /\ team[h] \notin killed /\ Leftover(h) => Leftover(h)'
  BY <1>0, <1>2, <1>5, <1>7, CallOver
<1>13. EndsOK' /\ \A h \in Guest : SocketOK(h)'
  BY <1>0, <1>2, <1>5, <1>7, <1>8, <1>9, <1>12, SocketsKeep DEF CallAt
<1>14. ~Blocked(g) /\ ~Outside(g) /\ ~Early(g)
  BY <1>1, <1>2 DEF Blocked, Outside, Early
<1>15. \A x \in Guest : origin[x] = "exec" /\ Blocked(x) /\ executing[team[x]] =>
            (team[x] = q => q \in procs)
  BY <1>0 DEF WaitOK
<1>16. TablesOK'
  <2>1. ServedOK'
    <3>1. \A h \in Guest : (Known(h)' <=> Known(h)) /\ (Served(h)' => Served(h))
      BY <1>1, <1>7, <1>9, <1>12 DEF Served, Idle, Quiet
    <3>2. \A h \in Guest : st'[h] = "waiting" => h # g
      BY <1>2, <1>9
    <3>3. \A h \in Guest : h # g => st'[h] = st[h] /\ CallJob(h)' = CallJob(h)
      BY <1>7, <1>9 DEF CallAt
    <3>4. ASSUME NEW h \in Guest, Served(h)
          PROVE  fd'[h] # None /\ Known(h)' /\ team[h] \in procs' /\ tid[h] \in threads'[team[h]]
      BY <1>0, <1>5, <1>10, <3>1, <3>4, Ids DEF ServedOK
    <3>5. ASSUME NEW h \in Guest, st'[h] = "waiting", CallJob(h)' \in {"c2", "c3", "c4"}
          PROVE  Known(h)' /\ team[h] \in procs'
      BY <1>0, <1>10, <3>1, <3>2, <3>3, <3>5 DEF ServedOK
    <3> QED BY <3>1, <3>4, <3>5 DEF ServedOK
  <2>2. GoneOK'
    <3>1. ASSUME NEW h \in Guest, NEW x \in Guest, BlockedImage(h, x), executing[team[h]]
          PROVE  BlockedImage(h, x)' /\ executing'[team[h]]
      <4>1. origin[x] = "exec" /\ team[x] = team[h] /\ st[x] = "waiting" /\ Blocked(x)
        BY <3>1 DEF BlockedImage
      <4>2. x # g /\ team[h] \in Team
        BY <1>14, <4>1, Ids
      <4>3. executing'[team[h]]
        BY <1>10, <1>15, <3>1, <4>1, <4>2
      <4> QED BY <1>8, <1>9, <4>1, <4>2, <4>3 DEF BlockedImage
    <3>2. ASSUME NEW h \in Guest, st'[h] = "gone" PROVE st[h] = "gone"
      BY <1>2, <1>9, <3>2
    <3>3. ASSUME NEW h \in Guest, executing[team[h]], \E x \in Guest : BlockedImage(h, x)
          PROVE  /\ threads'[team[h]] = threads[team[h]] /\ executing'[team[h]]
                 /\ \E x \in Guest : BlockedImage(h, x)'
      <4>1. PICK x \in Guest : BlockedImage(h, x)
        BY <3>3
      <4>2. origin[x] = "exec" /\ team[x] = team[h] /\ Blocked(x) /\ team[h] \in Team
        BY <4>1, Ids DEF BlockedImage
      <4>3. team[h] = q => q \in procs
        BY <1>15, <3>3, <4>2
      <4>4. threads'[team[h]] = threads[team[h]]
        BY <1>10, <4>2, <4>3
      <4> QED BY <3>1, <3>3, <4>1, <4>4
    <3> SUFFICES ASSUME NEW h \in Guest, st[h] = "gone", team[h] \notin killed
                 PROVE  /\ Pending(h)' => req[h] = "work"
                        /\ fd[h] # None
                        /\ Leftover(h)' => /\ Known(h)' /\ tid[h] \in threads'[team[h]] /\ ToHangUp(h)'
                                           /\ executing'[team[h]] /\ \E x \in Guest : BlockedImage(h, x)'
      BY <1>5, <1>7, <3>2 DEF GoneOK, Quiet
    <3>4. (Pending(h) => req[h] = "work") /\ fd[h] # None
      BY <1>0 DEF GoneOK
    <3>5. Leftover(h)' => /\ Known(h) /\ tid[h] \in threads[team[h]] /\ ToHangUp(h)
                          /\ executing[team[h]] /\ \E x \in Guest : BlockedImage(h, x)
      BY <1>0, <1>12 DEF GoneOK
    <3> QED BY <1>8, <1>12, <3>3, <3>4, <3>5
  <2>3. WaitOK'
    <3>1. \A h, x \in Guest : OldImage(h, x) => OldImage(h, x)'
      BY <1>2, <1>7, <1>9, <1>12 DEF OldImage, Quiet
    <3>2. ASSUME NEW x \in Guest, origin[x] = "exec", Blocked(x)', executing'[team[x]]
          PROVE  Blocked(x) /\ executing[team[x]] /\ threads'[team[x]] = threads[team[x]]
      BY <1>8, <1>10, <1>15, <3>2, Ids
    <3> QED BY <1>0, <1>10, <3>1, <3>2 DEF WaitOK
  <2>4. ExecBy'
    <3>1. \A h \in Guest : ExecsNow(h) => ExecsNow(h)'
      BY <1>1, <1>2, <1>7, <1>8, <1>9, <1>14 DEF ExecsNow, Quiet
    <3> QED BY <1>0, <1>5, <1>10, <3>1 DEF ExecBy
  <2>5. OneLeft'
    <3>1. \A h \in Guest : Ghost(h)' => Ghost(h)
      BY <1>2, <1>7, <1>9, <1>12 DEF Ghost, Quiet
    <3> QED BY <1>0, <3>1, OneLeftStays
  <2> QED BY <2>1, <2>2, <2>3, <2>4, <2>5 DEF TablesOK
<1>17. ThreadsOK' /\ LiveOK'
  <2>1. ThreadsOK'
    BY <1>0, <1>10 DEF ThreadsOK
  <2>2. \A h \in Guest : Alive(h)' <=> Alive(h)
    BY <1>2, <1>9 DEF Alive
  <2>3. q \notin killed => Alive(c)
    BY <1>0, <1>3 DEF Early, GoneOK, Alive
  <2>4. LiveOK'
    <3>1. \A h \in Guest : team[h] \notin killed /\ Lives(h) => Lives(h)'
      BY <1>2, <1>9, <1>12, <2>2 DEF Lives
    <3>2. \A t \in Team : threads'[t] \subseteq threads[t]
      BY <1>10
    <3> QED BY <1>0, <1>3, <1>5, <1>10, <2>2, <2>3, <3>1, <3>2, Family DEF LiveOK
  <2> QED BY <2>1, <2>4
<1>18. ASSUME NEW h \in Guest PROVE ForksOK(h)' /\ ForkedOK(h)'
  <2>1. ForksOK(h) /\ ForkedOK(h)
    BY <1>0 DEF ForkOK
  <2>2. ASSUME NEW d \in Guest
        PROVE  /\ Early(d)' <=> Early(d)
               /\ st'[d] = "unborn" <=> st[d] = "unborn"
    <3>1. CASE d = g
      BY <1>1, <1>2, <1>7, <1>9, <3>1 DEF Early, Quiet
    <3>2. CASE d # g
      BY <1>7, <1>8, <1>9, <3>2 DEF Early, Quiet
    <3> QED BY <3>1, <3>2
  <2>3. ASSUME NEW d \in Guest, origin[d] = "fork", d # c
        PROVE  unlocked'[team[d]] <=> unlocked[team[d]]
    <3>1. Root(d) /\ team[d] # q
      BY <1>3, <1>4, <2>3, Family
    <3> QED BY <1>10, <3>1, Ids
  <2>4. ForksOK(h)'
    <3> SUFFICES ASSUME NEW d, d = newest[h], req[h] = "fork", Pending(h), h # g
                 PROVE  /\ d \in Guest /\ origin[d] = "fork" /\ parent[d] = h
                        /\ st'[d] # "unborn" /\ ~unlocked'[team[d]]
                        /\ team[d] \notin killed => Early(d)'
      BY <1>7, <1>8 DEF ForksOK, Early, Quiet
    <3>1. /\ d \in Guest /\ origin[d] = "fork" /\ parent[d] = h
          /\ st[d] # "unborn" /\ ~unlocked[team[d]]
          /\ team[d] \notin killed => Early(d)
      BY <2>1 DEF ForksOK
    <3>2. d # c
      BY <1>3, <3>1
    <3> QED BY <2>2, <2>3, <3>1, <3>2
  <2>5. ForkedOK(h)'
    <3>1. CASE h = c
      <4>1. unlocked'[team[h]] /\ team[h] \in procs'
        BY <1>4, <1>10, <3>1
      <4> QED BY <1>3, <2>2, <3>1, <4>1 DEF ForkedOK
    <3>2. CASE origin[h] = "fork" /\ h # c
      <4>1. /\ unlocked'[team[h]] <=> unlocked[team[h]]
            /\ Outside(h)' => Outside(h)
            /\ procs \subseteq procs' /\ parent[h] \in Guest
        BY <1>8, <1>10, <2>3, <3>2, Family
      <4>2. parent[h] # g \/ newest[parent[h]] # h
        BY <3>2
      <4> QED BY <1>7, <1>9, <2>1, <2>2, <3>2, <4>1, <4>2 DEF ForkedOK, Quiet
    <3> QED BY <3>1, <3>2 DEF ForkedOK
  <2> QED BY <2>4, <2>5
<1> QED BY <1>0, <1>6, <1>8, <1>11, <1>13, <1>16, <1>17, <1>18
        DEF TeamsInductive, GuestsOK, ForkOK

-----------------------------------------------------------------------------
(* disconnect. *)

Last(g) == threads[team[g]] \ {tid[g]} = {}

\* The thread, its connection and, with the last thread, the process are gone.
Unregistered(g) ==
    /\ \A q \in Team : threads'[q] = IF q = team[g] THEN threads[q] \ {tid[g]} ELSE threads[q]
    /\ procs' = IF Last(g) /\ ~executing[team[g]] THEN procs \ {team[g]} ELSE procs
    /\ \A q \in Team : executing'[q] <=> executing[q] /\ (q = team[g] => ~Last(g))
    /\ sysThreads' = sysThreads \ {tid[g]}
    /\ \A f \in Fd : connections'[f] = IF f = fd[g] THEN None ELSE connections[f]
    /\ unlocked' = unlocked /\ killed' = killed

LEMMA Unregisters ==
    ASSUME TypeOK, NEW g \in Guest, NEW w \in {<<g, "call">>, <<g, "hang">>},
           RunDisconnect(w), ctx[w] = Ident(g), fd[g] \in Fd
    PROVE  /\ Unregistered(g) /\ fd' = fd /\ open' = open /\ crossed' = crossed
           /\ Reply(w, TRUE) /\ left' \subseteq Guest
           /\ threads' \in [Team -> SUBSET Tid] /\ count' \in [Team -> 0..Cardinality(Tid)]
           /\ procs' \subseteq Team /\ executing' \in [Team -> BOOLEAN]
           /\ sysThreads' \subseteq Tid /\ connections' \in [Fd -> Idents \cup {None}]
<1> DEFINE p == team[g]
<1>1. w[1] = g /\ ctx[w][1] = p /\ ctx[w][2] = tid[g] /\ p \in Team /\ tid[g] \in Tid
  <2>1. w[1] = g
    OBVIOUS
  <2> QED BY <2>1, Ids
<1>2. /\ threads' = [threads EXCEPT ![p] = threads[p] \ {tid[g]}]
      /\ count' = [count EXCEPT ![p] = Cardinality(threads'[p])]
      /\ procs' = IF Last(g) /\ ~executing[p] THEN procs \ {p} ELSE procs
      /\ executing' = [executing EXCEPT ![p] = executing[p] /\ ~Last(g)]
      /\ sysThreads' = sysThreads \ {tid[g]}
      /\ connections' = [connections EXCEPT ![fd[g]] = None]
      /\ unlocked' = unlocked /\ killed' = killed /\ crossed' = crossed
      /\ fd' = fd /\ open' = open /\ Reply(w, TRUE)
  BY <1>1 DEF RunDisconnect, Last, CountThreads, KeepsProcess, ExecFlag, DropEntry, sockets
<1>3. threads' \in [Team -> SUBSET Tid]
  BY <1>1, <1>2 DEF TypeOK
<1>4. count' \in [Team -> 0..Cardinality(Tid)]
  <2>1. threads'[p] \subseteq Tid
    BY <1>1, <1>3
  <2>2. IsFiniteSet(threads'[p]) /\ Cardinality(threads'[p]) <= Cardinality(Tid)
    BY <2>1, TidFinite, FS_Subset
  <2>3. Cardinality(threads'[p]) \in Nat
    BY <2>2, FS_CardinalityType
  <2>4. Cardinality(threads'[p]) \in 0..Cardinality(Tid)
    BY <2>2, <2>3, TidFinite
  <2> QED BY <1>2, <2>4 DEF TypeOK
<1>5. left' \subseteq Guest
  BY <1>1 DEF RunDisconnect, TypeOK
<1>6. executing[p] \in BOOLEAN /\ Last(g) \in BOOLEAN
  BY <1>1 DEF TypeOK, Last
<1>7. executing' \in [Team -> BOOLEAN]
  BY <1>2, <1>6 DEF TypeOK
<1>8. connections' \in [Fd -> Idents \cup {None}]
  BY <1>2 DEF TypeOK
<1>9. procs' \subseteq Team /\ sysThreads' \subseteq Tid
  BY <1>2 DEF TypeOK
<1>10. \A q \in Team : executing'[q] <=> executing[q] /\ (q = p => ~Last(g))
  BY <1>2, <1>6 DEF TypeOK
<1>11. Unregistered(g)
  <2>1. \A q \in Team : threads'[q] = IF q = p THEN threads[q] \ {tid[g]} ELSE threads[q]
    BY <1>2 DEF TypeOK
  <2>2. \A f \in Fd : connections'[f] = IF f = fd[g] THEN None ELSE connections[f]
    BY <1>2 DEF TypeOK
  <2> QED BY <1>2, <1>10, <2>1, <2>2 DEF Unregistered
<1> QED BY <1>2, <1>3, <1>4, <1>5, <1>7, <1>8, <1>9, <1>11

\* The entry goes, and nothing of the others.
LEMMA OthersKnown ==
    ASSUME TypeOK, GuestsOK, NEW g \in Guest, Holds(g), Quiet, Unregistered(g),
           CallAt(g, None, None) \/ HangAt(g, None, None)
    PROVE  /\ \A h \in Guest : h # g => /\ CallJob(h)' = CallJob(h)
                                        /\ Holds(h)' <=> Holds(h)
                                        /\ ToHangUp(h)' <=> ToHangUp(h)
                                        /\ Leftover(h)' <=> Leftover(h)
                                        /\ Holds(h) => (Known(h)' <=> Known(h))
           /\ \A h \in Guest : /\ Holds(h)' => Holds(h)
                               /\ Holds(h) /\ ~Holds(h)' => connections'[fd[h]] = None
           /\ HangJob(g)' = None => ~Leftover(g)'
           /\ \A f \in Fd : connections'[f] \in {connections[f], None}
<1>1. fd[g] \in Fd /\ connections'[fd[g]] = None
  BY DEF Holds, TypeOK, Unregistered
<1>2. ASSUME NEW h \in Guest, h # g
      PROVE  /\ CallJob(h)' = CallJob(h) /\ HangJob(h)' = HangJob(h)
             /\ Holds(h)' <=> Holds(h)
             /\ ToHangUp(h)' <=> ToHangUp(h)
             /\ Holds(h) => connections'[fd'[h]] = connections[fd[h]]
  <2>1. CallJob(h)' = CallJob(h) /\ HangJob(h)' = HangJob(h)
    BY <1>2 DEF CallAt, HangAt
  <2>2. (Holds(h)' <=> Holds(h)) /\ (ToHangUp(h)' <=> ToHangUp(h))
    BY <2>1 DEF Holds, ToHangUp, Quiet
  <2>3. Holds(h) => fd[h] \in Fd /\ fd[h] # fd[g]
    BY <1>2 DEF GuestsOK, SocketOK, Holds, TypeOK
  <2>4. Holds(h) => connections'[fd'[h]] = connections[fd[h]]
    BY <2>3 DEF Unregistered, Quiet
  <2> QED BY <2>1, <2>2, <2>4
<1>3. ASSUME NEW h \in Guest, h # g
      PROVE  /\ Leftover(h)' <=> Leftover(h)
             /\ Holds(h) => (Known(h)' <=> Known(h))
  BY <1>2, <1>3 DEF Leftover, Known
<1>4. Holds(g)' => Holds(g)
  BY DEF Holds
<1>5. HangJob(g)' = None => ~Leftover(g)'
  BY <1>1, Nones DEF Leftover, Quiet
<1>6. \A f \in Fd : connections'[f] \in {connections[f], None}
  BY DEF Unregistered
<1> QED BY <1>1, <1>2, <1>3, <1>4, <1>5, <1>6

\* Who is at work on the descriptor holds it.
LEMMA HeldBy ==
    ASSUME GuestsOK, NEW h \in Guest, fd[h] # None
    PROVE  /\ Alive(h) => Holds(h)
           /\ CallJob(h) # None => Holds(h)
           /\ ToHangUp(h) => Holds(h)
BY DEF GuestsOK, SocketOK, Alive, ToHangUp, Holds

\* A call or a hangup of a team that was killed.
LEMMA KilledLeaves ==
    ASSUME TeamsInductive, NEW g \in Guest, Unregistered(g), Quiet, TypeOK', st' = st,
           refused' = refused, Holds(g), team[g] \in killed, st[g] = "gone", ~Outside(g),
           CallAt(g, None, None) \/ HangAt(g, None, None),
           \A h \in Guest : /\ Pending(h)' => Pending(h)
                            /\ Outside(h)' => Outside(h)
                            /\ Blocked(h)' => Blocked(h)
                            /\ h # g => /\ Pending(h)' <=> Pending(h)
                                        /\ Blocked(h)' <=> Blocked(h)
                            /\ HangJob(h)' # None => HangJob(h) # None
                            /\ StateOK(h)' /\ JobsOK(h)',
           FamilyOK'
    PROVE  TeamsInductive'
<1>0. /\ TypeOK /\ refused = {} /\ GuestsOK /\ EndsOK /\ ThreadsOK
      /\ RootFirst /\ OneActive /\ SpawnOK /\ ImageOK /\ ImageAlone /\ KilledOK
      /\ ServedOK /\ GoneOK /\ WaitOK /\ ExecBy /\ OneLeft /\ LiveOK /\ ForkOK
  BY DEF TeamsInductive, FamilyOK, TablesOK
<1> DEFINE p == team[g]
<1>1. p \in Team /\ \A h \in Guest : team[h] \in Team
  BY Ids
<1>2. /\ \A h \in Guest : h # g => /\ CallJob(h)' = CallJob(h)
                                   /\ Holds(h)' <=> Holds(h)
                                   /\ ToHangUp(h)' <=> ToHangUp(h)
                                   /\ Leftover(h)' <=> Leftover(h)
                                   /\ Holds(h) => (Known(h)' <=> Known(h))
      /\ \A h \in Guest : /\ Holds(h)' => Holds(h)
                          /\ Holds(h) /\ ~Holds(h)' => connections'[fd[h]] = None
      /\ \A f \in Fd : connections'[f] \in {connections[f], None}
  BY <1>0, OthersKnown
<1>3. EndsOK' /\ \A h \in Guest : SocketOK(h)'
  BY <1>0, <1>2, SocketsKeep
<1>4. ASSUME NEW q \in Team, q \notin killed
      PROVE  /\ q # p /\ (q \in procs' <=> q \in procs) /\ threads'[q] = threads[q]
             /\ executing'[q] <=> executing[q]
  BY <1>4 DEF Unregistered
<1>5. ASSUME NEW h \in Guest, Alive(h) PROVE team[h] \notin killed /\ h # g
  BY <1>0, <1>5 DEF KilledOK, Alive
<1>6. ServedOK'
  <2>1. ASSUME NEW h \in Guest, Served(h)
        PROVE  /\ fd'[h] # None /\ Known(h)' /\ team[h] \in procs'
               /\ tid[h] \in threads'[team[h]]
    <3>1. Alive(h) /\ fd[h] # None /\ Known(h) /\ team[h] \in procs /\ tid[h] \in threads[team[h]]
      BY <1>0, <2>1 DEF ServedOK, Served, Idle, Alive
    <3> QED BY <1>0, <1>1, <1>2, <1>4, <1>5, <3>1, HeldBy DEF Quiet
  <2>2. ASSUME NEW h \in Guest, st[h] = "waiting", CallJob(h)' \in {"c2", "c3", "c4"}
        PROVE  Known(h)' /\ team[h] \in procs'
    <3>1. Alive(h)
      BY <2>2 DEF Alive
    <3>2. h # g /\ team[h] \notin killed /\ CallJob(h) \in {"c2", "c3", "c4"}
      BY <1>2, <1>5, <2>2, <3>1
    <3>3. fd[h] # None
      BY <1>0, <3>2, Nones DEF GuestsOK, JobsOK
    <3>4. Holds(h) /\ Known(h) /\ team[h] \in procs
      BY <1>0, <2>2, <3>1, <3>2, <3>3, HeldBy DEF ServedOK
    <3> QED BY <1>1, <1>2, <1>4, <3>2, <3>4
  <2>3. \A h \in Guest : Served(h)' <=> Served(h)
    BY DEF Served, Idle, Quiet
  <2> QED BY <2>1, <2>2, <2>3 DEF ServedOK
<1>7. GoneOK'
  <2> SUFFICES ASSUME NEW h \in Guest, st[h] = "gone", team[h] \notin killed
               PROVE  /\ Pending(h)' => req[h] = "work"
                      /\ fd[h] # None
                      /\ Leftover(h)' => /\ Known(h)' /\ tid[h] \in threads'[team[h]] /\ ToHangUp(h)'
                                         /\ executing'[team[h]] /\ \E x \in Guest : BlockedImage(h, x)'
    BY DEF GoneOK, Quiet
  <2>1. h # g /\ (Pending(h) => req[h] = "work") /\ fd[h] # None
    BY <1>0 DEF GoneOK
  <2>2. ASSUME Leftover(h)'
        PROVE  /\ Known(h)' /\ tid[h] \in threads'[team[h]] /\ ToHangUp(h)'
               /\ executing'[team[h]] /\ \E x \in Guest : BlockedImage(h, x)'
    <3>1. Leftover(h) /\ Holds(h)
      BY <1>2, <2>1, <2>2 DEF Leftover
    <3>2. /\ Known(h) /\ tid[h] \in threads[team[h]] /\ ToHangUp(h)
          /\ executing[team[h]] /\ \E x \in Guest : BlockedImage(h, x)
      BY <1>0, <3>1 DEF GoneOK
    <3>3. PICK x \in Guest : BlockedImage(h, x)
      BY <3>2
    <3>4. x # g
      BY <3>3 DEF BlockedImage
    <3>5. BlockedImage(h, x)'
      BY <3>3, <3>4 DEF BlockedImage
    <3> QED BY <1>1, <1>2, <1>4, <2>1, <3>1, <3>2, <3>5
  <2> QED BY <2>1, <2>2
<1>8. WaitOK'
  <2> SUFFICES ASSUME NEW x \in Guest, origin[x] = "exec", Blocked(x)', executing'[team[x]]
               PROVE  /\ team[x] \in procs' /\ threads'[team[x]] # {}
                      /\ \A t \in threads'[team[x]] : \E h \in Guest : tid[h] = t /\ OldImage(h, x)'
    BY DEF WaitOK
  <2>1. Blocked(x) /\ executing[team[x]] /\ (team[x] = p => ~Last(g))
    BY <1>1 DEF Unregistered
  <2>2. team[x] \in procs /\ threads[team[x]] # {}
    BY <1>0, <2>1 DEF WaitOK
  <2>3. team[x] \in procs' /\ threads'[team[x]] # {}
    BY <1>1, <2>1, <2>2 DEF Unregistered, Last
  <2>4. ASSUME NEW t \in threads'[team[x]] PROVE \E h \in Guest : tid[h] = t /\ OldImage(h, x)'
    <3>1. t \in threads[team[x]] /\ (team[x] = p => t # tid[g])
      <4>1. threads'[team[x]] = IF team[x] = p THEN threads[team[x]] \ {tid[g]} ELSE threads[team[x]]
        BY <1>1 DEF Unregistered
      <4> QED BY <2>4, <4>1
    <3>2. PICK h \in Guest : tid[h] = t /\ OldImage(h, x)
      BY <1>0, <2>1, <3>1 DEF WaitOK
    <3>3. h # g
      BY <3>1, <3>2 DEF OldImage
    <3>4. Holds(h)
      BY <1>0, <3>2, HeldBy DEF OldImage
    <3>5. OldImage(h, x)'
      BY <1>2, <3>2, <3>3, <3>4 DEF OldImage, Quiet
    <3> QED BY <3>2, <3>5
  <2> QED BY <2>3, <2>4
<1>9. ExecBy'
  <2>1. ASSUME NEW h \in Guest, team[h] \notin killed, ExecsNow(h) PROVE ExecsNow(h)'
    BY <2>1 DEF ExecsNow, Quiet
  <2> QED BY <1>0, <1>4, <2>1 DEF ExecBy, Quiet
<1>10. OneLeft'
  <2>1. \A h \in Guest : Ghost(h)' => Ghost(h)
    BY <1>2 DEF Ghost, Quiet
  <2> QED BY <1>0, <2>1, OneLeftStays
<1>11. ThreadsOK' /\ LiveOK'
  <2>1. ThreadsOK'
    <3>1. \A q \in Team : threads'[q] \subseteq threads[q]
      BY DEF Unregistered
    <3> QED BY <1>0, <3>1 DEF ThreadsOK
  <2>2. \A h \in Guest : tid[h] \in sysThreads' => tid[h] \in sysThreads
    BY DEF Unregistered
  <2>3. \A h \in Guest : team[h] \notin killed /\ Lives(h) => Lives(h)'
    BY <1>2 DEF Lives, Alive
  <2>4. LiveOK'
    BY <1>0, <1>4, <2>2, <2>3, Family DEF LiveOK, Alive, Quiet
  <2> QED BY <2>1, <2>4
<1>12. ASSUME NEW h \in Guest PROVE ForksOK(h)' /\ ForkedOK(h)'
  <2>1. ForksOK(h) /\ ForkedOK(h)
    BY <1>0 DEF ForkOK
  <2>2. ASSUME NEW d \in Guest
        PROVE  (Early(d)' => Early(d)) /\ (d # g => (Early(d)' <=> Early(d)))
    BY <2>2 DEF Early, Quiet
  <2>3. ForksOK(h)'
    BY <2>1, <2>2 DEF ForksOK, Unregistered, Quiet
  <2>4. origin[h] = "fork" /\ Outside(h) => team[h] # p
    <3> SUFFICES ASSUME origin[h] = "fork", Outside(h), team[h] = p PROVE FALSE
      OBVIOUS
    <3>1. h # g /\ Root(h) /\ Early(h)
      BY Family, Nones DEF Outside, Early, Pending
    <3> QED BY <1>0, <3>1 DEF RootFirst
  <2>5. origin[h] = "fork" /\ Outside(h) /\ team[h] \in procs => team[h] \in procs'
    BY <2>4 DEF Unregistered
  <2>6. ForkedOK(h)'
    BY <2>1, <2>2, <2>5 DEF ForkedOK, Unregistered, Quiet
  <2> QED BY <2>3, <2>6
<1> QED BY <1>0, <1>3, <1>6, <1>7, <1>8, <1>9, <1>10, <1>11, <1>12
        DEF TeamsInductive, GuestsOK, TablesOK, ForkOK

\* The hangup of a thread of the old image of an exec: its process stays for the
\* new one, which may go on when the last one is gone.
LEMMA OldImageLeaves ==
    ASSUME TeamsInductive, NEW g \in Guest, Unregistered(g), Hung(g, None, None), TypeOK',
           refused' = refused, HangJob(g) = "run", team[g] \notin killed
    PROVE  TeamsInductive'
<1>0. /\ TypeOK /\ refused = {} /\ GuestsOK /\ EndsOK /\ ThreadsOK
      /\ RootFirst /\ OneActive /\ SpawnOK /\ ImageOK /\ ImageAlone /\ KilledOK
      /\ ServedOK /\ GoneOK /\ WaitOK /\ ExecBy /\ OneLeft /\ LiveOK /\ ForkOK
  BY DEF TeamsInductive, FamilyOK, TablesOK
<1> DEFINE p == team[g]
<1>1. /\ p \in Team /\ (\A h \in Guest : team[h] \in Team)
      /\ HangJob(g) # None /\ fd[g] # None /\ st[g] = "gone" /\ Holds(g) /\ Ghost(g)
  BY <1>0, Ids, Nones DEF GuestsOK, JobsOK, Holds, Ghost, Leftover
<1>2. Quiet /\ HangAt(g, None, None) /\ st' = st
  BY DEF Hung
<1>3. /\ \A h \in Guest : /\ Pending(h)' <=> Pending(h)
                          /\ Outside(h)' <=> Outside(h)
                          /\ Blocked(h)' <=> Blocked(h)
                          /\ StateOK(h)' /\ JobsOK(h)'
      /\ FamilyOK'
  BY <1>1, HangGuests
<1>4. executing[p] /\ \E y \in Guest : BlockedImage(g, y)
  BY <1>0, <1>1 DEF GoneOK, Ghost
<1>5. PICK x \in Guest : origin[x] = "exec" /\ team[x] = p /\ st[x] = "waiting" /\ Blocked(x)
  BY <1>4 DEF BlockedImage
<1>6. Active(x) /\ Alive(x) /\ req[x] = "connect" /\ x # g
  BY <1>1, <1>5 DEF Active, Alive, Blocked
<1>7. \A h \in Guest : team[h] = p /\ Active(h) => h = x
  BY <1>0, <1>5, Knocking DEF ImageAlone
<1>8. /\ procs' = procs /\ p \in procs
      /\ \A q \in Team : /\ threads'[q] = IF q = p THEN threads[q] \ {tid[g]} ELSE threads[q]
                         /\ executing'[q] <=> executing[q] /\ (q = p => ~Last(g))
      /\ sysThreads' = sysThreads \ {tid[g]} /\ unlocked' = unlocked /\ killed' = killed
  <2>1. p \in procs
    BY <1>0, <1>4, <1>5 DEF WaitOK
  <2> QED BY <1>4, <2>1 DEF Unregistered
<1>9. /\ \A h \in Guest : h # g => /\ CallJob(h)' = CallJob(h)
                                   /\ Holds(h)' <=> Holds(h)
                                   /\ ToHangUp(h)' <=> ToHangUp(h)
                                   /\ Leftover(h)' <=> Leftover(h)
                                   /\ Holds(h) => (Known(h)' <=> Known(h))
      /\ \A h \in Guest : /\ Holds(h)' => Holds(h)
                          /\ Holds(h) /\ ~Holds(h)' => connections'[fd[h]] = None
      /\ \A f \in Fd : connections'[f] \in {connections[f], None}
      /\ ~Leftover(g)'
  <2>1. HangJob(g)' = None
    BY <1>2 DEF HangAt
  <2> QED BY <1>0, <1>1, <1>2, <2>1, OthersKnown
<1>10. EndsOK' /\ \A h \in Guest : SocketOK(h)'
  BY <1>0, <1>2, <1>3, <1>9, SocketsKeep DEF HangAt
<1>11. ServedOK'
  <2>1. ASSUME NEW h \in Guest, Served(h)
        PROVE  /\ fd'[h] # None /\ Known(h)' /\ team[h] \in procs'
               /\ tid[h] \in threads'[team[h]]
    <3>1. Alive(h) /\ Active(h) /\ h # g /\ h # x
      BY <1>1, <1>5, <1>6, <2>1 DEF Served, Idle, Alive, Active
    <3>2. team[h] # p
      BY <1>7, <3>1
    <3>3. fd[h] # None /\ Known(h) /\ team[h] \in procs /\ tid[h] \in threads[team[h]]
      BY <1>0, <2>1 DEF ServedOK
    <3>4. Holds(h)
      BY <1>0, <3>1, <3>3, HeldBy
    <3> QED BY <1>1, <1>2, <1>8, <1>9, <3>1, <3>2, <3>3, <3>4 DEF Quiet
  <2>2. ASSUME NEW h \in Guest, st[h] = "waiting", CallJob(h)' \in {"c2", "c3", "c4"}
        PROVE  Known(h)' /\ team[h] \in procs'
    <3>1. h # g /\ CallJob(h) \in {"c2", "c3", "c4"}
      BY <1>1, <1>9, <2>2
    <3>2. CallJob(h) # None /\ fd[h] # None
      BY <1>0, <3>1, Nones DEF GuestsOK, JobsOK
    <3>3. Holds(h)
      BY <1>0, <3>2, HeldBy
    <3> QED BY <1>0, <1>8, <1>9, <2>2, <3>1, <3>3 DEF ServedOK
  <2>3. \A h \in Guest : Served(h)' <=> Served(h)
    BY <1>2 DEF Served, Idle, Quiet
  <2> QED BY <1>2, <2>1, <2>2, <2>3 DEF ServedOK
<1>12. GoneOK'
  <2> SUFFICES ASSUME NEW h \in Guest, st[h] = "gone", team[h] \notin killed
               PROVE  /\ Pending(h)' => req[h] = "work"
                      /\ fd[h] # None
                      /\ Leftover(h)' => /\ Known(h)' /\ tid[h] \in threads'[team[h]] /\ ToHangUp(h)'
                                         /\ executing'[team[h]] /\ \E y \in Guest : BlockedImage(h, y)'
    BY <1>2 DEF GoneOK, Quiet
  <2>1. (Pending(h)' => req[h] = "work") /\ fd[h] # None
    BY <1>0, <1>3 DEF GoneOK
  <2>2. ASSUME Leftover(h)'
        PROVE  /\ Known(h)' /\ tid[h] \in threads'[team[h]] /\ ToHangUp(h)'
               /\ executing'[team[h]] /\ \E y \in Guest : BlockedImage(h, y)'
    <3>1. h # g
      BY <1>9, <2>2
    <3>2. Leftover(h) /\ Holds(h) /\ Ghost(h)
      BY <1>9, <2>2, <3>1 DEF Leftover, Ghost
    <3>3. /\ Known(h) /\ tid[h] \in threads[team[h]] /\ ToHangUp(h)
          /\ executing[team[h]] /\ \E y \in Guest : BlockedImage(h, y)
      BY <1>0, <3>2 DEF GoneOK
    <3>4. \E y \in Guest : BlockedImage(h, y)'
      BY <1>2, <1>3, <3>3 DEF BlockedImage
    <3>5. tid[h] # tid[g]
      BY <1>0, <1>1, <3>1, <3>2 DEF OneLeft
    <3>6. tid[h] \in threads'[team[h]]
      BY <1>1, <1>8, <3>3, <3>5
    <3>7. executing'[team[h]]
      BY <1>1, <1>8, <3>3, <3>5 DEF Last
    <3> QED BY <1>9, <3>1, <3>2, <3>3, <3>4, <3>6, <3>7
  <2> QED BY <2>1, <2>2
<1>13. WaitOK'
  <2> SUFFICES ASSUME NEW y \in Guest, origin[y] = "exec", Blocked(y)', executing'[team[y]]
               PROVE  /\ team[y] \in procs' /\ threads'[team[y]] # {}
                      /\ \A t \in threads'[team[y]] : \E h \in Guest : tid[h] = t /\ OldImage(h, y)'
    BY DEF WaitOK
  <2>1. Blocked(y) /\ executing[team[y]] /\ (team[y] = p => ~Last(g))
    BY <1>1, <1>3, <1>8
  <2>2. team[y] \in procs /\ threads[team[y]] # {}
    BY <1>0, <2>1 DEF WaitOK
  <2>3. threads'[team[y]] = IF team[y] = p THEN threads[team[y]] \ {tid[g]} ELSE threads[team[y]]
    BY <1>1, <1>8
  <2>4. team[y] \in procs' /\ threads'[team[y]] # {}
    BY <1>8, <2>1, <2>2, <2>3 DEF Last
  <2>5. ASSUME NEW t \in threads'[team[y]] PROVE \E h \in Guest : tid[h] = t /\ OldImage(h, y)'
    <3>1. t \in threads[team[y]] /\ (team[y] = p => t # tid[g])
      BY <2>3, <2>5
    <3>2. PICK h \in Guest : tid[h] = t /\ OldImage(h, y)
      BY <1>0, <2>1, <3>1 DEF WaitOK
    <3>3. h # g
      BY <3>1, <3>2 DEF OldImage
    <3>4. Holds(h)
      BY <1>0, <3>2, HeldBy DEF OldImage
    <3>5. OldImage(h, y)'
      BY <1>2, <1>9, <3>2, <3>3, <3>4 DEF OldImage, Quiet
    <3> QED BY <3>2, <3>5
  <2> QED BY <2>4, <2>5
<1>14. ExecBy'
  <2>1. \A h \in Guest : ExecsNow(h)' <=> ExecsNow(h)
    BY <1>2, <1>3 DEF ExecsNow, Quiet
  <2> QED BY <1>0, <1>2, <1>8, <2>1 DEF ExecBy, Quiet
<1>15. OneLeft'
  <2>1. \A h \in Guest : Ghost(h)' => Ghost(h)
    BY <1>2, <1>9 DEF Ghost, Quiet
  <2> QED BY <1>0, <2>1, OneLeftStays
<1>16. ThreadsOK' /\ LiveOK'
  <2>1. ThreadsOK'
    <3>1. \A q \in Team : threads'[q] \subseteq threads[q]
      BY <1>8
    <3> QED BY <1>0, <3>1 DEF ThreadsOK
  <2>2. \A h \in Guest : (Alive(h)' <=> Alive(h)) /\ (h # g /\ Lives(h) => Lives(h)')
    BY <1>2, <1>9 DEF Alive, Lives
  <2>3. ASSUME NEW q \in Team, q \notin killed, q \in procs'
        PROVE  \E h \in Guest : team[h] = q /\ Alive(h)'
    BY <1>0, <1>8, <2>2, <2>3 DEF LiveOK
  <2>4. ASSUME NEW q \in Team, q \notin killed, NEW t \in threads'[q]
        PROVE  \E h \in Guest : team[h] = q /\ tid[h] = t /\ Lives(h)'
    <3>0. threads'[q] = IF q = p THEN threads[q] \ {tid[g]} ELSE threads[q]
      BY <1>8, <2>4
    <3>1. t \in threads[q] /\ (q = p => t # tid[g])
      BY <2>4, <3>0
    <3>2. PICK h \in Guest : team[h] = q /\ tid[h] = t /\ Lives(h)
      BY <1>0, <2>4, <3>1 DEF LiveOK
    <3> QED BY <2>2, <3>1, <3>2
  <2>5. ASSUME NEW q \in Team, q \notin killed, NEW i \in Guest, team[i] = q, tid[i] \in sysThreads'
        PROVE  \E h \in Guest : tid[h] = tid[i] /\ Lives(h)'
    <3>1. tid[i] \in sysThreads /\ tid[i] # tid[g]
      BY <1>8, <2>5
    <3>2. PICK h \in Guest : tid[h] = tid[i] /\ Lives(h)
      BY <1>0, <2>5, <3>1 DEF LiveOK
    <3> QED BY <2>2, <3>1, <3>2
  <2> QED BY <1>2, <2>1, <2>3, <2>4, <2>5 DEF LiveOK, Quiet
<1>17. ForkOK'
  <2>1. \A h \in Guest : Early(h)' <=> Early(h)
    BY <1>2, <1>3 DEF Early, Quiet
  <2> QED BY <1>0, <1>2, <1>3, <1>8, <2>1 DEF ForkOK, ForksOK, ForkedOK, Quiet
<1> QED BY <1>0, <1>3, <1>10, <1>11, <1>12, <1>13, <1>14, <1>15, <1>16, <1>17
        DEF TeamsInductive, GuestsOK, TablesOK

\* A thread calls disconnect: no new image is there yet, and with the last thread
\* nobody of the team is connecting or in an exec.
LEMMA CallerLeaves ==
    ASSUME TeamsInductive, NEW g \in Guest, Unregistered(g), Answered(g), TypeOK',
           refused' = refused, CallJob(g) = "run", req[g] = "disconnect", st[g] = "waiting",
           team[g] \notin killed
    PROVE  TeamsInductive'
<1>0. /\ TypeOK /\ refused = {} /\ GuestsOK /\ EndsOK /\ ThreadsOK
      /\ RootFirst /\ OneActive /\ SpawnOK /\ ImageOK /\ ImageAlone /\ KilledOK
      /\ ServedOK /\ GoneOK /\ WaitOK /\ ExecBy /\ OneLeft /\ LiveOK /\ ForkOK
  BY DEF TeamsInductive, FamilyOK, TablesOK
<1> DEFINE p == team[g]
<1>1. /\ p \in Team /\ (\A h \in Guest : team[h] \in Team)
      /\ CallJob(g) # None /\ fd[g] # None /\ HangJob(g) = None
      /\ Active(g) /\ Alive(g) /\ Holds(g)
  BY <1>0, Ids, Nones DEF GuestsOK, JobsOK, Active, Alive, Holds
<1>2. /\ Quiet /\ CallAt(g, None, None)
      /\ \A h \in Guest : st'[h] = IF h = g THEN "gone" ELSE st[h]
  BY Answer DEF Answered
<1>3. /\ \A h \in Guest : /\ Pending(h)' <=> h # g /\ Pending(h)
                          /\ Outside(h)' <=> h # g /\ Outside(h)
                          /\ Blocked(h)' <=> h # g /\ Blocked(h)
                          /\ StateOK(h)' /\ JobsOK(h)'
      /\ FamilyOK'
  BY <1>1, AnswerGuests
<1>4. /\ \A h \in Guest : h # g => /\ CallJob(h)' = CallJob(h)
                                   /\ Holds(h)' <=> Holds(h)
                                   /\ ToHangUp(h)' <=> ToHangUp(h)
                                   /\ Leftover(h)' <=> Leftover(h)
                                   /\ Holds(h) => (Known(h)' <=> Known(h))
      /\ \A h \in Guest : /\ Holds(h)' => Holds(h)
                          /\ Holds(h) /\ ~Holds(h)' => connections'[fd[h]] = None
      /\ \A f \in Fd : connections'[f] \in {connections[f], None}
      /\ ~Leftover(g)' /\ CallJob(g)' = None
  <2>1. HangJob(g)' = None /\ CallJob(g)' = None
    BY <1>1, <1>2 DEF CallAt
  <2> QED BY <1>0, <1>1, <1>2, <2>1, OthersKnown
<1>5. EndsOK' /\ \A h \in Guest : SocketOK(h)'
  BY <1>0, <1>2, <1>3, <1>4, SocketsKeep DEF CallAt
<1>6. ~Blocked(g) /\ ~Outside(g) /\ ~Early(g) /\ ~ExecsNow(g)
  BY DEF Blocked, Outside, Early, ExecsNow
<1>7. ASSUME NEW y \in Guest, origin[y] = "exec", Knocks(y) PROVE team[y] # p
  <2>1. y # g
    BY <1>7 DEF Knocks
  <2> QED BY <1>0, <1>1, <1>7, <2>1 DEF ImageAlone
<1>8. executing[p] => ~Last(g)
  <2> SUFFICES ASSUME executing[p] PROVE ~Last(g)
    OBVIOUS
  <2>1. PICK h \in Guest : team[h] = p /\ ExecsNow(h)
    BY <1>0, <1>1 DEF ExecBy
  <2>2. h # g /\ Active(h)
    BY <1>6, <2>1 DEF ExecsNow, Active, Alive
  <2>3. Served(h)
    BY <1>7, <2>1, Knocking DEF ExecsNow, Served, Idle
  <2>4. tid[h] \in threads[p]
    BY <1>0, <2>1, <2>3 DEF ServedOK
  <2>5. tid[h] # tid[g]
    BY <1>0, <1>1, <2>2 DEF OneActive
  <2> QED BY <2>4, <2>5 DEF Last
<1>9. /\ \A q \in Team : executing'[q] <=> executing[q]
      /\ \A q \in Team : q # p => threads'[q] = threads[q] /\ (q \in procs' <=> q \in procs)
      /\ threads'[p] = threads[p] \ {tid[g]}
      /\ procs' \subseteq procs /\ (p \in procs' => ~Last(g)) /\ (p \in procs /\ ~Last(g) => p \in procs')
      /\ sysThreads' = sysThreads \ {tid[g]} /\ unlocked' = unlocked /\ killed' = killed
  BY <1>1, <1>8 DEF Unregistered
<1>10. ASSUME NEW h \in Guest, h # g, Served(h), team[h] = p
       PROVE  tid[h] \in threads'[p] /\ ~Last(g)
  <2>1. tid[h] \in threads[p] /\ Active(h)
    BY <1>0, <1>10 DEF ServedOK, Served, Idle, Active, Alive
  <2>2. tid[h] # tid[g]
    BY <1>0, <1>1, <1>10, <2>1 DEF OneActive
  <2> QED BY <1>9, <2>1, <2>2 DEF Last
<1>11. ASSUME NEW h \in Guest, h # g, st[h] = "waiting", req[h] = "connect", team[h] = p
       PROVE  ~Last(g)
  <2>1. Active(h) /\ Pending(h)
    BY <1>0, <1>11 DEF Active, Alive, GuestsOK, StateOK
  <2>2. ~Root(h)
    BY <1>0, <1>11, <2>1 DEF RootFirst, Early
  <2>3. origin[h] # "exec"
    BY <1>7, <1>11, <2>1 DEF Knocks
  <2>4. origin[h] = "spawn"
    BY <2>2, <2>3, Ids, Family
  <2>5. st[parent[h]] = "spawning" /\ parent[h] \in Guest /\ team[parent[h]] = p
    BY <1>0, <1>11, <2>2, <2>4, Family DEF SpawnOK
  <2> QED BY <1>10, <2>5 DEF Served, Idle
<1>12. ServedOK'
  <2>1. ASSUME NEW h \in Guest, h # g, Served(h)
        PROVE  /\ fd'[h] # None /\ Known(h)' /\ team[h] \in procs'
               /\ tid[h] \in threads'[team[h]]
    <3>1. fd[h] # None /\ Known(h) /\ team[h] \in procs /\ tid[h] \in threads[team[h]]
      BY <1>0, <2>1 DEF ServedOK
    <3>2. Holds(h)
      <4>1. Alive(h)
        BY <2>1 DEF Served, Idle, Alive
      <4> QED BY <1>0, <3>1, <4>1, HeldBy
    <3>3. fd'[h] # None /\ Known(h)'
      BY <1>2, <1>4, <2>1, <3>1, <3>2 DEF Quiet
    <3> QED BY <1>1, <1>9, <1>10, <2>1, <3>1, <3>3
  <2>2. ASSUME NEW h \in Guest, h # g, st[h] = "waiting", CallJob(h) \in {"c2", "c3", "c4"}
        PROVE  Known(h)' /\ team[h] \in procs'
    <3>1. fd[h] # None /\ req[h] = "connect" /\ Known(h) /\ team[h] \in procs /\ CallJob(h) # None
      BY <1>0, <2>2, Nones DEF GuestsOK, JobsOK, ServedOK
    <3>2. Holds(h)
      BY <1>0, <3>1, HeldBy
    <3> QED BY <1>1, <1>4, <1>9, <1>11, <2>2, <3>1, <3>2
  <2>3. \A h \in Guest : Served(h)' <=> h # g /\ Served(h)
    BY <1>2 DEF Served, Idle, Quiet
  <2>4. \A h \in Guest : st'[h] = "waiting" /\ CallJob(h)' \in {"c2", "c3", "c4"} =>
             h # g /\ st[h] = "waiting" /\ CallJob(h) \in {"c2", "c3", "c4"}
    BY <1>2, <1>4
  <2> QED BY <2>1, <2>2, <2>3, <2>4 DEF ServedOK
<1>13. GoneOK'
  <2> SUFFICES ASSUME NEW h \in Guest, st'[h] = "gone", team[h] \notin killed
               PROVE  /\ Pending(h)' => req[h] = "work"
                      /\ fd[h] # None
                      /\ Leftover(h)' => /\ Known(h)' /\ tid[h] \in threads'[team[h]] /\ ToHangUp(h)'
                                         /\ executing'[team[h]] /\ \E y \in Guest : BlockedImage(h, y)'
    BY <1>2 DEF GoneOK, Quiet
  <2>1. CASE h = g
    BY <1>1, <1>3, <1>4, <2>1
  <2>2. CASE h # g
    <3>1. st[h] = "gone" /\ (Pending(h) => req[h] = "work") /\ fd[h] # None
      BY <1>0, <1>2, <2>2 DEF GoneOK
    <3>2. ASSUME Leftover(h)'
          PROVE  /\ Known(h)' /\ tid[h] \in threads'[team[h]] /\ ToHangUp(h)'
                 /\ executing'[team[h]] /\ \E y \in Guest : BlockedImage(h, y)'
      <4>1. Leftover(h) /\ Holds(h)
        BY <1>4, <2>2, <3>2 DEF Leftover
      <4>2. /\ Known(h) /\ tid[h] \in threads[team[h]] /\ ToHangUp(h)
            /\ executing[team[h]] /\ \E y \in Guest : BlockedImage(h, y)
        BY <1>0, <3>1, <4>1 DEF GoneOK
      <4>3. PICK y \in Guest : BlockedImage(h, y)
        BY <4>2
      <4>4. team[h] # p
        BY <1>7, <4>3, Knocking DEF BlockedImage
      <4>5. BlockedImage(h, y)'
        BY <1>2, <1>3, <1>6, <4>3 DEF BlockedImage
      <4> QED BY <1>1, <1>4, <1>9, <2>2, <4>1, <4>2, <4>4, <4>5
    <3> QED BY <1>3, <3>1, <3>2
  <2> QED BY <2>1, <2>2
<1>14. WaitOK'
  <2> SUFFICES ASSUME NEW y \in Guest, origin[y] = "exec", Blocked(y)', executing'[team[y]]
               PROVE  /\ team[y] \in procs' /\ threads'[team[y]] # {}
                      /\ \A t \in threads'[team[y]] : \E h \in Guest : tid[h] = t /\ OldImage(h, y)'
    BY DEF WaitOK
  <2>1. Blocked(y) /\ executing[team[y]] /\ team[y] # p
    BY <1>1, <1>3, <1>7, <1>9, Knocking
  <2>2. /\ team[y] \in procs /\ threads[team[y]] # {}
        /\ \A t \in threads[team[y]] : \E h \in Guest : tid[h] = t /\ OldImage(h, y)
    BY <1>0, <2>1 DEF WaitOK
  <2>3. threads'[team[y]] = threads[team[y]] /\ team[y] \in procs'
    BY <1>1, <1>9, <2>1, <2>2
  <2>4. ASSUME NEW h \in Guest, OldImage(h, y) PROVE OldImage(h, y)'
    <3>1. h # g
      BY <2>1, <2>4 DEF OldImage
    <3>2. Holds(h)
      BY <1>0, <2>4, HeldBy DEF OldImage
    <3> QED BY <1>2, <1>4, <2>4, <3>1, <3>2 DEF OldImage, Quiet
  <2> QED BY <2>2, <2>3, <2>4
<1>15. ExecBy'
  <2>1. ASSUME NEW h \in Guest, ExecsNow(h) PROVE ExecsNow(h)'
    BY <1>2, <1>3, <1>6, <2>1 DEF ExecsNow, Quiet
  <2> QED BY <1>0, <1>9, <2>1 DEF ExecBy
<1>16. OneLeft'
  <2>1. \A h \in Guest : Ghost(h)' => Ghost(h)
    BY <1>2, <1>4 DEF Ghost, Quiet
  <2> QED BY <1>0, <2>1, OneLeftStays
<1>17. ThreadsOK'
  <2>1. \A q \in Team : threads'[q] \subseteq threads[q]
    BY <1>9
  <2> QED BY <1>0, <2>1 DEF ThreadsOK
<1>18. LiveOK'
  <2>1. \A h \in Guest : (Alive(h)' <=> h # g /\ Alive(h)) /\ (h # g /\ Lives(h) => Lives(h)')
    BY <1>2, <1>4 DEF Alive, Lives
  <2>2. ASSUME NEW q \in Team, q \notin killed, NEW t \in threads'[q]
        PROVE  \E h \in Guest : team[h] = q /\ tid[h] = t /\ h # g /\ Lives(h)
    <3>1. t \in threads[q] /\ (q = p => t # tid[g])
      BY <1>9, <2>2
    <3>2. PICK h \in Guest : team[h] = q /\ tid[h] = t /\ Lives(h)
      BY <1>0, <2>2, <3>1 DEF LiveOK
    <3> QED BY <3>1, <3>2
  <2>3. ASSUME NEW q \in Team, q \notin killed, NEW i \in Guest, team[i] = q, tid[i] \in sysThreads'
        PROVE  \E h \in Guest : tid[h] = tid[i] /\ Lives(h)'
    <3>1. tid[i] \in sysThreads /\ tid[i] # tid[g]
      BY <1>9, <2>3
    <3>2. PICK h \in Guest : tid[h] = tid[i] /\ Lives(h)
      BY <1>0, <2>3, <3>1 DEF LiveOK
    <3> QED BY <2>1, <3>1, <3>2
  <2>4. ASSUME NEW q \in Team, q \notin killed, q \in procs'
        PROVE  \E h \in Guest : team[h] = q /\ Alive(h)'
    <3>1. CASE q # p
      <4>1. q \in procs
        BY <1>9, <2>4
      <4>2. PICK h \in Guest : team[h] = q /\ Alive(h)
        BY <1>0, <2>4, <4>1 DEF LiveOK
      <4> QED BY <2>1, <3>1, <4>2
    <3>2. CASE q = p
      <4>1. PICK t \in threads'[p] : TRUE
        BY <1>9, <2>4, <3>2 DEF Last
      <4>2. PICK h \in Guest : team[h] = p /\ h # g /\ Lives(h)
        BY <1>1, <2>2, <4>1
      <4>3. ~Ghost(h)
        <5> SUFFICES ASSUME Ghost(h) PROVE FALSE
          OBVIOUS
        <5>1. \E y \in Guest : BlockedImage(h, y)
          BY <1>0 DEF GoneOK, Ghost
        <5> QED BY <1>7, <4>2, <5>1, Knocking DEF BlockedImage
      <4>4. Alive(h)
        BY <4>2, <4>3 DEF Lives, Ghost
      <4> QED BY <2>1, <3>2, <4>2, <4>4
    <3> QED BY <3>1, <3>2
  <2>5. ASSUME NEW q \in Team, q \notin killed, NEW t \in threads'[q]
        PROVE  \E h \in Guest : team[h] = q /\ tid[h] = t /\ Lives(h)'
    BY <2>1, <2>2, <2>5
  <2> QED BY <1>9, <2>3, <2>4, <2>5 DEF LiveOK
<1>19. ASSUME NEW h \in Guest PROVE ForksOK(h)' /\ ForkedOK(h)'
  <2>1. ForksOK(h) /\ ForkedOK(h)
    BY <1>0 DEF ForkOK
  <2>2. unlocked' = unlocked /\ killed' = killed
    BY <1>9
  <2>3. ASSUME NEW d \in Guest
        PROVE  (Early(d)' <=> Early(d)) /\ (st'[d] = "unborn" <=> st[d] = "unborn")
    BY <1>2, <1>3, <1>6, <2>3 DEF Early, Quiet
  <2>4. ForksOK(h)'
    BY <1>2, <1>3, <2>1, <2>2, <2>3 DEF ForksOK, Quiet
  <2>5. origin[h] = "fork" /\ Outside(h) => team[h] # p
    <3> SUFFICES ASSUME origin[h] = "fork", Outside(h), team[h] = p PROVE FALSE
      OBVIOUS
    <3>1. h # g /\ Root(h) /\ Early(h)
      BY <1>6, Family, Nones DEF Outside, Early, Pending
    <3> QED BY <1>0, <3>1 DEF RootFirst
  <2>6. origin[h] = "fork" /\ Outside(h) /\ team[h] \in procs => team[h] \in procs'
    BY <1>1, <1>9, <2>5
  <2>7. ForkedOK(h)'
    BY <1>2, <1>3, <2>1, <2>2, <2>3, <2>6, Family DEF ForkedOK, Quiet
  <2> QED BY <2>4, <2>7
<1> QED BY <1>0, <1>3, <1>5, <1>12, <1>13, <1>14, <1>15, <1>16, <1>17, <1>18, <1>19
        DEF TeamsInductive, GuestsOK, TablesOK, ForkOK

LEMMA RunDisconnectKeeps ==
    ASSUME TeamsInductive, NEW w \in Worker, RunDisconnect(w)
    PROVE  TeamsInductive'
<1>0. /\ TypeOK /\ refused = {} /\ GuestsOK /\ EndsOK /\ ThreadsOK
      /\ RootFirst /\ OneActive /\ SpawnOK /\ ImageOK /\ ImageAlone /\ KilledOK
      /\ ServedOK /\ GoneOK /\ WaitOK /\ ExecBy /\ OneLeft /\ LiveOK /\ ForkOK
  BY DEF TeamsInductive, FamilyOK, TablesOK
<1>1. PICK g \in Guest : w = <<g, "call">> \/ w = <<g, "hang">>
  BY Workers
<1>2. /\ w = <<g, "call">> => CallJob(g) = "run" /\ CallCtx(g) = ctx[w] /\ req[g] = "disconnect"
      /\ w = <<g, "hang">> => HangJob(g) = "run" /\ HangCtx(g) = ctx[w]
  BY <1>1 DEF RunDisconnect, Running, CallJob, HangJob, CallCtx, HangCtx
<1>3. ctx[w] = Ident(g) /\ fd[g] # None /\ fd[g] \in Fd
  BY <1>0, <1>1, <1>2, Nones DEF GuestsOK, JobsOK, TypeOK
<1>4. /\ Unregistered(g) /\ fd' = fd /\ open' = open /\ crossed' = crossed /\ Reply(w, TRUE) /\ left' \subseteq Guest
      /\ threads' \in [Team -> SUBSET Tid] /\ count' \in [Team -> 0..Cardinality(Tid)]
      /\ procs' \subseteq Team /\ executing' \in [Team -> BOOLEAN]
      /\ sysThreads' \subseteq Tid /\ connections' \in [Fd -> Idents \cup {None}]
  BY <1>0, <1>1, <1>3, Unregisters
<1>5. unlocked' = unlocked /\ killed' = killed
  BY <1>4 DEF Unregistered
<1>6. CASE w = <<g, "call">>
  <2>1. CallJob(g) = "run" /\ CallJob(g) # None /\ req[g] = "disconnect" /\ ~Outside(g)
    BY <1>2, <1>6, Nones DEF Outside
  <2>2. /\ Answered(g) /\ refused' = refused /\ st' \in [Guest -> State]
        /\ job' \in [Worker -> Step \cup {None}] /\ ctx' \in [Worker -> Idents \cup {None}]
    BY <1>0, <1>4, <1>5, <1>6, <2>1, Answers
  <2>3. Quiet /\ CallAt(g, None, None)
    BY <2>2 DEF Answered
  <2>4. TypeOK'
    BY <1>0, <1>4, <1>5, <2>2, <2>3 DEF TypeOK, Quiet
  <2>5. Holds(g)
    BY <1>3, <2>1 DEF Holds
  <2>6. CASE st[g] = "waiting" /\ team[g] \notin killed
    BY <1>4, <2>1, <2>2, <2>4, <2>6, CallerLeaves
  <2>7. CASE st[g] = "gone" /\ team[g] \in killed
    <3>1. /\ \A h \in Guest : /\ Pending(h)' <=> h # g /\ Pending(h)
                              /\ Outside(h)' <=> h # g /\ Outside(h)
                              /\ Blocked(h)' <=> h # g /\ Blocked(h)
                              /\ StateOK(h)' /\ JobsOK(h)'
          /\ FamilyOK'
      BY <2>1, <2>2, AnswerGuests
    <3>2. st' = st
      BY <1>0, <2>2, <2>7 DEF Answered, TypeOK
    <3>3. \A h \in Guest : /\ h # g => CallJob(h)' = CallJob(h) /\ HangJob(h)' = HangJob(h)
                           /\ HangJob(h)' # None => HangJob(h) # None
      BY <2>3 DEF CallAt
    <3> QED BY <1>3, <1>4, <2>1, <2>2, <2>3, <2>4, <2>5, <2>7, <3>1, <3>2, <3>3, KilledLeaves
  <2> QED BY <1>0, <2>1, <2>6, <2>7, Caller
<1>7. CASE w = <<g, "hang">>
  <2>1. HangJob(g) = "run" /\ HangJob(g) # None /\ ~Outside(g) /\ st[g] = "gone"
    BY <1>0, <1>2, <1>7, Nones DEF GuestsOK, JobsOK
  <2>2. /\ HangAt(g, None, None) /\ st' = st /\ refused' = refused
        /\ req' = req /\ sent' = sent /\ newest' = newest
        /\ job' \in [Worker -> Step \cup {None}] /\ ctx' \in [Worker -> Idents \cup {None}]
    BY <1>0, <1>4, <1>7, HangEnds
  <2>3. Quiet /\ Hung(g, None, None)
    BY <1>4, <1>5, <2>2 DEF Hung, Quiet
  <2>4. TypeOK'
    BY <1>0, <1>4, <1>5, <2>2, <2>3 DEF TypeOK, Quiet
  <2>5. Holds(g)
    BY <1>3, <2>1 DEF Holds
  <2>6. CASE team[g] \notin killed
    BY <1>4, <2>1, <2>2, <2>3, <2>4, <2>6, OldImageLeaves
  <2>7. CASE team[g] \in killed
    <3>1. /\ \A h \in Guest : /\ Pending(h)' <=> Pending(h)
                              /\ Outside(h)' <=> Outside(h)
                              /\ Blocked(h)' <=> Blocked(h)
                              /\ StateOK(h)' /\ JobsOK(h)'
          /\ FamilyOK'
      BY <2>1, <2>3, HangGuests
    <3>2. \A h \in Guest : /\ h # g => CallJob(h)' = CallJob(h) /\ HangJob(h)' = HangJob(h)
                           /\ HangJob(h)' # None => HangJob(h) # None
      BY <2>2 DEF HangAt
    <3> QED BY <1>3, <1>4, <2>1, <2>2, <2>3, <2>4, <2>5, <2>7, <3>1, <3>2, KilledLeaves
  <2> QED BY <2>6, <2>7
<1> QED BY <1>1, <1>6, <1>7

-----------------------------------------------------------------------------
(* The theorems. *)

\* A hangup only dispatches and disconnects.
LEMMA HangupsDisconnect ==
    ASSUME TeamsInductive, NEW w \in Worker,
           \/ Connect1(w) \/ Connect2(w) \/ Connect3(w) \/ Connect4(w)
           \/ RunWork(w) \/ RunExec(w) \/ RunFork(w)
    PROVE  \E g \in Guest : w = <<g, "call">>
<1>1. PICK g \in Guest : w = <<g, "call">> \/ w = <<g, "hang">>
  BY Workers
<1> SUFFICES ASSUME w = <<g, "hang">> PROVE FALSE
  BY <1>1
<1>2. HangJob(g) \in {None, "d1", "d2", "run"} /\ HangJob(g) = job[w]
  BY DEF TeamsInductive, GuestsOK, JobsOK, HangJob
<1>3. job[w] \notin {"c1", "c2", "c3", "c4"}
  BY <1>2, Nones
<1> QED BY <1>3 DEF Connect1, Connect2, Connect3, Connect4, RunWork, RunExec, RunFork, Running

LEMMA WorkerKeeps ==
    ASSUME TeamsInductive, NEW w \in Worker, WorkerStep(w)
    PROVE  TeamsInductive'
<1>1. CASE Dispatch1(w)
  BY <1>1, Dispatch1Keeps
<1>2. CASE Dispatch2(w)
  BY <1>2, Dispatch2Keeps
<1>3. CASE RunDisconnect(w)
  BY <1>3, RunDisconnectKeeps
<1>4. CASE \/ Connect1(w) \/ Connect2(w) \/ Connect3(w) \/ Connect4(w)
           \/ RunWork(w) \/ RunExec(w) \/ RunFork(w)
  <2>1. PICK g \in Guest : w = <<g, "call">>
    BY <1>4, HangupsDisconnect
  <2> QED BY <1>4, <2>1, Connect1Keeps, Connect2Keeps, Connect3Keeps, Connect4Keeps,
             RunWorkKeeps, RunExecKeeps, RunForkKeeps
<1> QED BY <1>1, <1>2, <1>3, <1>4 DEF WorkerStep

LEMMA GuestKeeps ==
    ASSUME TeamsInductive, GuestStep, ~crossed'
    PROVE  TeamsInductive'
<1>1. ASSUME NEW g \in Guest, Launch(g) PROVE TeamsInductive'
  BY <1>1, LaunchKeeps
<1>2. ASSUME NEW g \in Guest, SpawnDone(g) PROVE TeamsInductive'
  BY <1>2, SpawnDoneKeeps
<1>3. ASSUME NEW g \in Guest, ForkWait(g) \/ StartExec(g) \/ ExecFailed(g)
             \/ \E r \in {"work", "disconnect"} : Call(g, r)
      PROVE  TeamsInductive'
  <2>1. \E r \in Request : Asks(g, r)
    <3>1. CASE ForkWait(g)
      <4>1. Untouched /\ killed' = killed /\ crossed' = crossed
        BY <3>1, ServerUntouched DEF ForkWait, seen
      <4> QED BY <3>1, <4>1, Nones DEF Asks, ForkWait
    <3>2. CASE StartExec(g)
      <4>1. Untouched /\ killed' = killed /\ crossed' = crossed
        BY <3>2, ServerUntouched DEF StartExec, seen
      <4> QED BY <3>2, <4>1, Nones DEF Asks, StartExec
    <3>3. CASE ExecFailed(g)
      <4>1. Untouched /\ killed' = killed /\ crossed' = crossed
        BY <3>3, ServerUntouched DEF ExecFailed, seen
      <4> QED BY <3>3, <4>1, Nones DEF Asks, ExecFailed
    <3>4. ASSUME NEW r \in {"work", "disconnect"}, Call(g, r) PROVE \E s \in Request : Asks(g, s)
      <4>1. Untouched /\ killed' = killed /\ crossed' = crossed
        BY <3>4, ServerUntouched DEF Call, seen
      <4> QED BY <3>4, <4>1, Nones DEF Asks, Call
    <3> QED BY <1>3, <3>1, <3>2, <3>3, <3>4
  <2> QED BY <2>1, AskKeeps
<1>4. ASSUME NEW g \in Guest, NEW c \in Guest, Spawn(g, c) \/ Fork(g, c) \/ Exec(g, c)
      PROVE  TeamsInductive'
  BY <1>4, SpawnKeeps, ForkKeeps, ExecKeeps
<1>5. ASSUME NEW p \in Team, Kill(p) PROVE TeamsInductive'
  BY <1>5, KillKeeps
<1> QED BY <1>1, <1>2, <1>3, <1>4, <1>5 DEF GuestStep

LEMMA TeamsStepInductive ==
    ASSUME TeamsInductive, [Next]_vars, ~crossed'
    PROVE  TeamsInductive'
<1>1. CASE GuestStep
  BY <1>1, GuestKeeps
<1>2. CASE MainLoop
  BY <1>2, AcceptKeeps, DispatchKeeps, HangupKeeps DEF MainLoop
<1>3. CASE \E w \in Worker : WorkerStep(w)
  BY <1>3, WorkerKeeps
<1>4. CASE UNCHANGED vars
  <2>1. /\ st' = st /\ req' = req /\ sent' = sent /\ newest' = newest /\ fd' = fd /\ open' = open
        /\ job' = job /\ ctx' = ctx /\ TablesSame
    BY <1>4 DEF vars, TablesSame
  <2>2. \A h \in Guest : /\ CallJob(h)' = CallJob(h) /\ HangJob(h)' = HangJob(h)
                         /\ CallCtx(h)' = CallCtx(h) /\ HangCtx(h)' = HangCtx(h)
    BY <2>1, JobsStay, NamesStay
  <2>3. TypeOK' <=> TypeOK
    BY <2>1 DEF TypeOK, TablesSame
  <2>4. GuestsOK' <=> GuestsOK
    BY <2>1, <2>2 DEF GuestsOK, StateOK, JobsOK, SocketOK, Holds, Pending, Idle, Outside, TablesSame
  <2>5. FamilyOK' <=> FamilyOK
    <3>1. \A h \in Guest : /\ (Knocks(h)' <=> Knocks(h)) /\ (Early(h)' <=> Early(h))
                           /\ (Active(h)' <=> Active(h))
      BY <2>1, <2>2 DEF Early, Active, Alive, Pending, Knocks
    <3>2. (RootFirst' <=> RootFirst) /\ (OneActive' <=> OneActive) /\ (ImageAlone' <=> ImageAlone)
      BY <2>1, <3>1 DEF RootFirst, OneActive, ImageAlone
    <3>3. (SpawnOK' <=> SpawnOK) /\ (ImageOK' <=> ImageOK) /\ (KilledOK' <=> KilledOK)
      BY <2>1, Family DEF SpawnOK, ImageOK, KilledOK, TablesSame
    <3> QED BY <3>2, <3>3 DEF FamilyOK
  <2>6. TablesOK' <=> TablesOK
    <3>1. \A h \in Guest : /\ (Pending(h)' <=> Pending(h)) /\ (Blocked(h)' <=> Blocked(h))
                           /\ (Served(h)' <=> Served(h)) /\ (Known(h)' <=> Known(h))
                           /\ (Leftover(h)' <=> Leftover(h)) /\ (ToHangUp(h)' <=> ToHangUp(h))
                           /\ (ExecsNow(h)' <=> ExecsNow(h)) /\ (Ghost(h)' <=> Ghost(h))
      BY <2>1, <2>2
         DEF Pending, Blocked, Served, Idle, Known, Leftover, Holds, ToHangUp, ExecsNow, Ghost,
             TablesSame
    <3>2. \A h, x \in Guest : /\ (OldImage(h, x)' <=> OldImage(h, x))
                              /\ (BlockedImage(h, x)' <=> BlockedImage(h, x))
      BY <2>1, <3>1 DEF OldImage, BlockedImage
    <3>3. (ServedOK' <=> ServedOK) /\ (ExecBy' <=> ExecBy) /\ (OneLeft' <=> OneLeft)
      BY <2>1, <2>2, <3>1 DEF ServedOK, ExecBy, OneLeft, TablesSame
    <3>4. (GoneOK' <=> GoneOK) /\ (WaitOK' <=> WaitOK)
      BY <2>1, <3>1, <3>2 DEF GoneOK, WaitOK, TablesSame
    <3> QED BY <3>3, <3>4 DEF TablesOK
  <2>7. (EndsOK' <=> EndsOK) /\ (ThreadsOK' <=> ThreadsOK) /\ (LiveOK' <=> LiveOK)
    BY <2>1, <2>2 DEF EndsOK, Holds, ThreadsOK, LiveOK, Leftover, Lives, Alive, TablesSame
  <2>8. ForkOK' <=> ForkOK
    BY <2>1, <2>2 DEF ForkOK, ForksOK, ForkedOK, Early, Outside, Pending, TablesSame
  <2> QED BY <2>1, <2>3, <2>4, <2>5, <2>6, <2>7, <2>8 DEF TeamsInductive, TablesSame
<1> QED BY <1>1, <1>2, <1>3, <1>4 DEF Next

\* What the inductive invariant says of the three properties.
LEMMA InductiveServes ==
    ASSUME TeamsInductive
    PROVE  ServedAsSelf
<1>1. ASSUME NEW g \in Guest
      PROVE  /\ job[<<g, "call">>] \in {"d2", "run"} => ctx[<<g, "call">>] = Ident(g)
             /\ st[g] = "up" => connections[fd[g]] = Ident(g)
  BY DEF TeamsInductive, GuestsOK, JobsOK, CallJob, CallCtx, TablesOK, ServedOK, Served, Idle, Known
<1> QED BY <1>1 DEF ServedAsSelf, NeverRefused, OwnName, TeamsInductive

LEMMA InductiveLeavesNothing ==
    ASSUME TeamsInductive
    PROVE  NothingLeft
<1>0. /\ TypeOK /\ refused = {} /\ GuestsOK /\ EndsOK /\ ThreadsOK
      /\ RootFirst /\ OneActive /\ SpawnOK /\ ImageOK /\ ImageAlone /\ KilledOK
      /\ ServedOK /\ GoneOK /\ WaitOK /\ ExecBy /\ OneLeft /\ LiveOK /\ ForkOK
  BY DEF TeamsInductive, FamilyOK, TablesOK
<1> SUFFICES ASSUME NEW p \in Team \ killed, Over(p)
             PROVE  /\ p \notin procs
                    /\ \A g \in Guest : team[g] = p => tid[g] \notin sysThreads
                    /\ \A f \in Fd : connections[f] # None => connections[f][1] # p
  BY DEF NothingLeft
<1>1. \A g \in Guest : team[g] = p => ~Alive(g)
  BY DEF Over, Alive
<1>2. ASSUME NEW g \in Guest, team[g] = p
      PROVE  ~Holds(g) /\ ~Lives(g)
  <2>1. ~Alive(g) /\ ~Holds(g)
    BY <1>0, <1>1, <1>2 DEF Over, Holds, HasSocket, CallJob, HangJob, GuestsOK, StateOK
  <2> QED BY <2>1 DEF Lives, Leftover
<1>3. p \notin procs
  BY <1>0, <1>1 DEF LiveOK
<1>4. \A g \in Guest : team[g] = p => tid[g] \notin sysThreads
  BY <1>0, <1>2, Family DEF LiveOK
<1>5. ASSUME NEW f \in Fd, connections[f] # None, connections[f][1] = p PROVE FALSE
  <2>1. PICK g \in Guest : /\ connections[f] = Ident(g)
                           /\ Holds(g) \/ team[g] \in killed
    BY <1>0, <1>5 DEF EndsOK
  <2>2. team[g] = p
    BY <1>5, <2>1, Ids
  <2> QED BY <1>2, <2>1, <2>2
<1> QED BY <1>3, <1>4, <1>5

LEMMA InductiveWaits ==
    ASSUME TeamsInductive
    PROVE  NobodyWaitsInVain
<1>0. /\ TypeOK /\ refused = {} /\ GuestsOK /\ EndsOK /\ ThreadsOK
      /\ RootFirst /\ OneActive /\ SpawnOK /\ ImageOK /\ ImageAlone /\ KilledOK
      /\ ServedOK /\ GoneOK /\ WaitOK /\ ExecBy /\ OneLeft /\ LiveOK /\ ForkOK
  BY DEF TeamsInductive, FamilyOK, TablesOK
<1>1. ASSUME NEW g \in Guest, CallJob(g) = "c2", executing[team[g]],
             origin[g] = "exec" \/ team[g] \notin killed
      PROVE  \E h \in Guest \ {g} :
                 /\ team[h] = team[g] /\ tid[h] \in threads[team[g]]
                 /\ \/ st[h] = "gone" /\ Unserved(h)
                    \/ st[h] = "execing"
                    \/ st[h] = "waiting" /\ req[h] = "unexec"
  <2>1. /\ team[g] \in Team /\ Pending(g) /\ st[g] # "unborn" /\ req[g] = "connect" /\ Blocked(g)
    BY <1>0, <1>1, Ids, Nones DEF GuestsOK, StateOK, JobsOK, Blocked, Pending
  <2>2. CASE origin[g] = "exec"
    <3>1. PICK t \in threads[team[g]] : TRUE
      BY <1>0, <1>1, <2>1, <2>2 DEF WaitOK
    <3>2. PICK h \in Guest : tid[h] = t /\ OldImage(h, g)
      BY <1>0, <1>1, <2>1, <2>2, <3>1 DEF WaitOK
    <3>3. h # g /\ team[h] = team[g] /\ st[h] = "gone" /\ Unserved(h)
      BY <3>2 DEF OldImage, ToHangUp, Unserved, HasSocket, HangJob
    <3> QED BY <3>1, <3>2, <3>3
  <2>3. CASE origin[g] # "exec"
    <3>1. st[g] = "waiting"
      BY <1>0, <1>1, <2>1, <2>3 DEF GoneOK, GuestsOK, StateOK, Idle, TypeOK, State
    <3>2. PICK h \in Guest : team[h] = team[g] /\ ExecsNow(h)
      BY <1>0, <1>1, <2>1, <2>3 DEF ExecBy
    <3>3. h # g
      BY <2>1, <2>3, <3>1, <3>2 DEF ExecsNow
    <3>4. ~(st[h] = "waiting" /\ origin[h] = "exec" /\ Blocked(h))
      <4>1. Active(g)
        BY <3>1 DEF Active, Alive
      <4> QED BY <1>0, <3>2, <3>3, <4>1, Knocking DEF ImageAlone
    <3>5. tid[h] \in threads[team[g]]
      BY <1>0, <3>2, <3>4 DEF ExecsNow, ServedOK, Served, Idle
    <3> QED BY <3>2, <3>3, <3>4, <3>5 DEF ExecsNow
  <2> QED BY <2>2, <2>3
<1>2. ASSUME NEW g \in Guest, CallJob(g) = "run", req[g] = "forkwait", ~unlocked[team[g]]
      PROVE  \/ team[parent[g]] \in killed
             \/ st[parent[g]] = "waiting" /\ req[parent[g]] = "fork" /\ Unserved(parent[g])
  <2>1. origin[g] = "fork" /\ Early(g) /\ st[g] # "unborn" /\ parent[g] \in Guest
    BY <1>0, <1>2, Family, Nones DEF GuestsOK, StateOK, Early, Pending
  <2>2. \/ team[parent[g]] \in killed
        \/ st[parent[g]] = "waiting" /\ req[parent[g]] = "fork"
    BY <1>0, <1>2, <2>1 DEF ForkOK, ForkedOK
  <2>3. st[parent[g]] = "waiting" => Unserved(parent[g])
    BY <1>0, <2>1 DEF GuestsOK, StateOK, Pending, Unserved, CallJob
  <2> QED BY <2>2, <2>3
<1> QED BY <1>1, <1>2 DEF NobodyWaitsInVain, Running, CallJob

\* Who was crossed stays so.
LEMMA CrossedStays ==
    ASSUME [Next]_vars, ~crossed'
    PROVE  ~crossed
<1>1. CASE GuestStep
  BY <1>1 DEF GuestStep, Launch, SpawnDone, ForkWait, StartExec, ExecFailed, Call, Spawn, Fork, Exec,
     Kill, seen
<1>2. CASE MainLoop
  BY <1>2 DEF MainLoop, Accept, Dispatch, Hangup, seen
<1>3. CASE \E w \in Worker : WorkerStep(w)
  BY <1>3 DEF WorkerStep, Connect1, Connect2, Connect3, Connect4, Dispatch1, Dispatch2, RunWork,
     RunExec, RunFork, RunDisconnect
<1>4. CASE UNCHANGED vars
  BY <1>4 DEF vars
<1> QED BY <1>1, <1>2, <1>3, <1>4 DEF Next

\* The inductive invariant holds as long as nobody was crossed.
LEMMA InductiveAlways == Spec => [](~crossed => TeamsInductive)
<1> DEFINE Uncrossed == ~crossed => TeamsInductive
<1>1. Init => Uncrossed
  BY TeamsInitInductive
<1>2. Uncrossed /\ [Next]_vars => Uncrossed'
  <2> SUFFICES ASSUME Uncrossed, [Next]_vars, ~crossed' PROVE TeamsInductive'
    OBVIOUS
  <2>1. TeamsInductive
    BY CrossedStays
  <2> QED BY <2>1, TeamsStepInductive
<1> HIDE DEF Uncrossed
<1>3. Spec => []Uncrossed
  BY <1>1, <1>2, PTL DEF Spec
<1> QED BY <1>3 DEF Uncrossed

\* Any family of guests, in any interleaving of the guests, the main loop and
\* the workers, as long as nobody was crossed: a guest that is alive is never
\* refused, and its calls are made in its own name.  (connect, server_dispatch,
\* fork, disconnect)
THEOREM TeamsServeAsSelf == Spec => []ServedAsSelf
<1>1. (~crossed => TeamsInductive) => ServedAsSelf
  BY InductiveServes DEF ServedAsSelf
<1> QED BY <1>1, InductiveAlways, PTL

\* When all guests of a team are gone and none was killed, the server has
\* forgotten its process, its threads and its connections, as long as nobody was
\* crossed.  (disconnect and the hangup of server_main.cpp)
THEOREM TeamsLeaveNothing == Spec => []NothingLeft
<1>1. (~crossed => TeamsInductive) => NothingLeft
  BY InductiveLeavesNothing DEF NothingLeft
<1> QED BY <1>1, InductiveAlways, PTL

\* Who waits in WaitForExec or WaitForForkUnlock waits for something that is
\* still to be served, unless the parent was killed or somebody was crossed.
THEOREM TeamsNeverWaitInVain == Spec => []NobodyWaitsInVain
<1>1. (~crossed => TeamsInductive) => NobodyWaitsInVain
  BY InductiveWaits DEF NobodyWaitsInVain
<1> QED BY <1>1, InductiveAlways, PTL
-----------------------------------------------------------------------------
(* What is told of teams. *)

InfoFields == [threads : Nat, images : Nat]
InfoTypes ==
    /\ tasks \in [InfoTeam -> SUBSET InfoTid] /\ teamThreads \in [InfoTeam -> SUBSET InfoTid]
    /\ \A p \in InfoTeam : IsFiniteSet(tasks[p]) /\ IsFiniteSet(teamThreads[p])
    /\ teamInfo \in [InfoTeam -> InfoFields] /\ imageCount \in [InfoTeam -> Nat]
    /\ DOMAIN stage = InfoTeam /\ processes \subseteq InfoTeam

\* A team with threads is known, and one that is forking runs.
ForksKnown ==
    /\ \A p \in InfoTeam : teamThreads[p] # {} => p \in processes
    /\ \A f \in forking :
        /\ f[1] \in InfoTeam /\ f[2] \in tasks[f[1]] \cap teamThreads[f[1]] /\ stage[f[1]] = "running"

\* A count of threads is that of the table, or left to the host.  A count of images
\* that is neither is of before an exec whose loader has not come so far.
CountsKept ==
    \A p \in processes :
        /\ p \in inherited \/ teamInfo[p].threads \in {0, Cardinality(teamThreads[p])}
        /\ teamInfo[p].images \in {0, imageCount[p]} \/ (p \in execed /\ stage[p] = "loading")

InfosInductive == InfoTypes /\ ForksKnown /\ CountsKept

LEMMA CountedIs ==
    ASSUME InfoTypes, NEW p \in InfoTeam, NEW those, IsFiniteSet(those)
    PROVE  Counted(p, those) \in InfoFields /\ Counted(p, those).threads = Cardinality(those)
           /\ Counted(p, those).images = teamInfo[p].images
<1>1. teamInfo[p] \in InfoFields /\ Cardinality(those) \in Nat
  BY FS_CardinalityType DEF InfoTypes
<1> QED BY <1>1 DEF Counted, InfoFields

LEMMA InfosStepKept ==
    ASSUME InfosInductive, InfosStep
    PROVE  InfosInductive'
<1> USE DEF InfosInductive
<1>n. NewInfo \in InfoFields /\ NewInfo.threads = 0 /\ NewInfo.images = 0
  BY DEF NewInfo, InfoFields
<1>f. IsFiniteSet({1}) /\ {1} \subseteq InfoTid /\ IsFiniteSet({}) /\ Cardinality({}) = 0
  BY FS_Singleton, FS_EmptySet, InfosAssumption
<1>1. ASSUME NEW p \in InfoTeam, StartProgram(p) PROVE InfosInductive'
  <2>1. InfoTypes'
    BY <1>1, <1>f DEF StartProgram, InfoTypes
  <2>2. ForksKnown'
    BY <1>1 DEF StartProgram, InfoTypes, ForksKnown
  <2>3. CountsKept'
    BY <1>1 DEF StartProgram, InfoTypes, CountsKept
  <2> QED BY <2>1, <2>2, <2>3
<1>2. ASSUME NEW p \in InfoTeam, RegisterProcess(p) PROVE InfosInductive'
  <2> HIDE DEF NewInfo
  <2>1. InfoTypes'
    BY <1>2, <1>n DEF RegisterProcess, InfoTypes
  <2>2. ForksKnown'
    BY <1>2 DEF RegisterProcess, InfoTypes, ForksKnown
  <2>3. CountsKept'
    BY <1>2, <1>n DEF RegisterProcess, InfoTypes, CountsKept
  <2> QED BY <2>1, <2>2, <2>3
<1>3. ASSUME NEW p \in InfoTeam, NEW t \in InfoTid, RegisterThread(p, t) PROVE InfosInductive'
  <2> DEFINE more == teamThreads[p] \cup {t}
             c == Counted(p, more)
  <2>0. IsFiniteSet(more) /\ more \subseteq InfoTid
    BY FS_AddElement DEF InfoTypes
  <2>1. c \in InfoFields /\ c.threads = Cardinality(more) /\ c.images = teamInfo[p].images
    BY <2>0, CountedIs
  <2>2. teamThreads' = [teamThreads EXCEPT ![p] = more] /\ teamInfo' = [teamInfo EXCEPT ![p] = c]
        /\ inherited' = inherited \ {p} /\ UNCHANGED <<processes, tasks, imageCount, stage, forking, execed>>
        /\ p \in processes
    BY <1>3 DEF RegisterThread
  <2> HIDE DEF more, c
  <2>3. InfoTypes'
    BY <2>0, <2>1, <2>2 DEF InfoTypes
  <2>4. ForksKnown'
    <3>1. teamThreads[p] \subseteq more
      BY DEF more
    <3> QED BY <2>2, <3>1 DEF InfoTypes, ForksKnown
  <2>5. CountsKept'
    BY <2>1, <2>2 DEF InfoTypes, CountsKept
  <2> QED BY <2>3, <2>4, <2>5
<1>4. ASSUME NEW p \in InfoTeam, NEW t \in InfoTid, StartTask(p, t) PROVE InfosInductive'
  <2>0. IsFiniteSet(tasks[p] \cup {t})
    BY FS_AddElement DEF InfoTypes
  <2>1. InfoTypes'
    BY <1>4, <2>0 DEF StartTask, InfoTypes
  <2>2. ForksKnown'
    BY <1>4 DEF StartTask, InfoTypes, ForksKnown
  <2>3. CountsKept'
    BY <1>4 DEF StartTask, CountsKept
  <2> QED BY <2>1, <2>2, <2>3
<1>5. ASSUME NEW p \in InfoTeam, NEW t \in InfoTid, EndTask(p, t) PROVE InfosInductive'
  <2>0. IsFiniteSet(tasks[p] \ {t})
    BY FS_RemoveElement DEF InfoTypes
  <2>1. InfoTypes'
    BY <1>5, <2>0 DEF EndTask, InfoTypes
  <2>2. ForksKnown'
    BY <1>5 DEF EndTask, InfoTypes, ForksKnown
  <2>3. CountsKept'
    BY <1>5 DEF EndTask, CountsKept
  <2> QED BY <2>1, <2>2, <2>3
<1>6. ASSUME NEW p \in InfoTeam, NEW t \in InfoTid, DisconnectThread(p, t) PROVE InfosInductive'
  <2> DEFINE less == teamThreads[p] \ {t}
             c == Counted(p, less)
  <2>0. IsFiniteSet(less) /\ less \subseteq InfoTid
    BY FS_RemoveElement DEF InfoTypes
  <2>1. c \in InfoFields /\ c.threads = Cardinality(less) /\ c.images = teamInfo[p].images
    BY <2>0, CountedIs
  <2>2. teamThreads' = [teamThreads EXCEPT ![p] = less] /\ teamInfo' = [teamInfo EXCEPT ![p] = c]
        /\ inherited' = inherited \ {p} /\ UNCHANGED <<tasks, forking>>
        /\ (IF less # {} THEN UNCHANGED <<processes, imageCount, stage, execed>>
            ELSE /\ processes' = processes \ {p} /\ execed' = execed \ {p}
                 /\ imageCount' = [imageCount EXCEPT ![p] = 0]
                 /\ stage' = [stage EXCEPT ![p] = "none"])
    BY <1>6 DEF DisconnectThread
  <2>3. \A f \in forking : f[1] = p => f[2] \in less
    BY <1>6 DEF ForksKnown, DisconnectThread
  <2>4. \A x \in processes : x # p => teamThreads'[x] = teamThreads[x] /\ teamInfo'[x] = teamInfo[x]
    BY <2>2 DEF InfoTypes
  <2> HIDE DEF less, c
  <2>5. CASE less # {}
    <3>1. InfoTypes'
      BY <2>0, <2>1, <2>2, <2>5 DEF InfoTypes
    <3>2. ForksKnown'
      BY <2>2, <2>3, <2>5 DEF InfoTypes, ForksKnown, less
    <3>3. CountsKept'
      BY <2>1, <2>2, <2>5 DEF InfoTypes, CountsKept
    <3> QED BY <3>1, <3>2, <3>3
  <2>6. CASE less = {}
    <3>1. InfoTypes'
      BY <2>0, <2>1, <2>2, <2>6 DEF InfoTypes
    <3>2. ForksKnown'
      BY <2>2, <2>3, <2>6 DEF InfoTypes, ForksKnown
    <3>3. CountsKept'
      BY <2>1, <2>2, <2>6 DEF InfoTypes, CountsKept
    <3> QED BY <3>1, <3>2, <3>3
  <2> QED BY <2>5, <2>6
<1>7. ASSUME NEW p \in InfoTeam, RegisterTeamInfo(p) PROVE InfosInductive'
  <2>0. teamInfo' = [teamInfo EXCEPT ![p] = NewInfo] /\ stage' = [stage EXCEPT ![p] = "running"]
        /\ execed' = execed \ {p} /\ UNCHANGED <<processes, tasks, teamThreads, imageCount, forking, inherited>>
    BY <1>7 DEF RegisterTeamInfo, SetInfo
  <2> HIDE DEF NewInfo
  <2>1. InfoTypes'
    BY <2>0, <1>n DEF InfoTypes
  <2>2. ForksKnown'
    BY <2>0 DEF InfoTypes, ForksKnown
  <2>3. CountsKept'
    BY <2>0, <1>n DEF InfoTypes, CountsKept
  <2> QED BY <2>1, <2>2, <2>3
<1>8. ASSUME NEW p \in InfoTeam, RegisterImage(p) \/ UnregisterImage(p) PROVE InfosInductive'
  <2>0. PICK n \in Nat : Images(p, n)
    BY <1>8 DEF RegisterImage, UnregisterImage, InfoTypes
  <2> DEFINE c == [teamInfo[p] EXCEPT !.images = n]
  <2>1. c \in InfoFields /\ c.threads = teamInfo[p].threads /\ c.images = n
    BY DEF InfoTypes, InfoFields
  <2>2. teamInfo' = [teamInfo EXCEPT ![p] = c] /\ imageCount' = [imageCount EXCEPT ![p] = n]
        /\ UNCHANGED <<processes, tasks, teamThreads, stage, forking, inherited, execed>>
    BY <2>0 DEF Images
  <2> HIDE DEF c
  <2>3. InfoTypes'
    BY <2>1, <2>2 DEF InfoTypes
  <2>4. ForksKnown'
    BY <2>2 DEF ForksKnown
  <2>5. CountsKept'
    BY <2>1, <2>2 DEF InfoTypes, CountsKept
  <2> QED BY <2>3, <2>4, <2>5
<1>9. ASSUME NEW p \in InfoTeam, NEW t \in InfoTid, NEW q \in InfoTeam \ {p}, ForkTask(p, t, q)
      PROVE InfosInductive'
  <2>1. InfoTypes'
    BY <1>9, <1>f DEF ForkTask, InfoTypes
  <2>2. ForksKnown'
    BY <1>9 DEF ForkTask, TeamRuns, InfoTypes, ForksKnown
  <2>3. CountsKept'
    BY <1>9 DEF ForkTask, InfoTypes, CountsKept
  <2> QED BY <2>1, <2>2, <2>3
<1>10. ASSUME NEW p \in InfoTeam, NEW t \in InfoTid, NEW q \in InfoTeam \ {p}, ReportFork(p, t, q)
       PROVE InfosInductive'
  <2>0. p \in processes /\ stage[p] = "running"
    BY <1>10 DEF ReportFork, ForksKnown
  <2>1. InfoTypes'
    BY <1>10 DEF ReportFork, InfoTypes
  <2>2. ForksKnown'
    BY <1>10 DEF ReportFork, InfoTypes, ForksKnown
  <2>3. CountsKept'
    BY <1>10, <2>0 DEF ReportFork, InfoTypes, CountsKept
  <2> QED BY <2>1, <2>2, <2>3
<1>11. ASSUME NEW p \in InfoTeam, ExecTeam(p) PROVE InfosInductive'
  <2> DEFINE none == {}
             c == Counted(p, none)
  <2>1. c \in InfoFields /\ c.threads = 0 /\ c.images = teamInfo[p].images
    BY <1>f, CountedIs
  <2>2. teamThreads' = [teamThreads EXCEPT ![p] = none] /\ teamInfo' = [teamInfo EXCEPT ![p] = c]
        /\ imageCount' = [imageCount EXCEPT ![p] = 0] /\ stage' = [stage EXCEPT ![p] = "loading"]
        /\ execed' = execed \cup {p} /\ inherited' = inherited \ {p}
        /\ UNCHANGED <<processes, tasks, forking>> /\ p \in processes
    BY <1>11 DEF ExecTeam, ForksKnown
  <2>3. \A f \in forking : f[1] # p
    BY <1>11 DEF ExecTeam, ForkingTasks
  <2>4. IsFiniteSet(none) /\ none \subseteq InfoTid /\ none = {}
    BY <1>f
  <2> HIDE DEF none, c
  <2>5. InfoTypes'
    BY <2>1, <2>2, <2>4 DEF InfoTypes
  <2>6. ForksKnown'
    BY <2>2, <2>3, <2>4 DEF InfoTypes, ForksKnown
  <2>7. CountsKept'
    BY <2>1, <2>2 DEF InfoTypes, CountsKept
  <2> QED BY <2>5, <2>6, <2>7
<1> HIDE DEF InfosInductive
<1> QED BY <1>1, <1>2, <1>3, <1>4, <1>5, <1>6, <1>7, <1>8, <1>9, <1>10, <1>11 DEF InfosStep

LEMMA InfosShown ==
    ASSUME InfosInductive
    PROVE  TeamInfoAgrees
<1> SUFFICES ASSUME NEW p \in processes
             PROVE  /\ p \notin inherited =>
                         GetTeamInfo(p).threads \in
                             Cardinality(tasks[p] \cap teamThreads[p])..Cardinality(tasks[p] \cup teamThreads[p])
                    /\ p \notin execed => GetTeamInfo(p).images \in {0, imageCount[p]}
  BY DEF TeamInfoAgrees
<1>1. p \in InfoTeam /\ teamInfo[p] \in InfoFields /\ IsFiniteSet(tasks[p]) /\ IsFiniteSet(teamThreads[p])
  BY DEF InfosInductive, InfoTypes
<1> DEFINE th == teamInfo[p].threads
           n == IF th = 0 THEN Cardinality(tasks[p]) ELSE th
           both == tasks[p] \cap teamThreads[p]
           any == tasks[p] \cup teamThreads[p]
<1>2. GetTeamInfo(p).threads = n /\ GetTeamInfo(p).images = teamInfo[p].images
  BY <1>1 DEF GetTeamInfo, FillTeamInfo, InfoFields
<1>3. /\ IsFiniteSet(both) /\ IsFiniteSet(any)
      /\ both \subseteq tasks[p] /\ both \subseteq teamThreads[p]
      /\ tasks[p] \subseteq any /\ teamThreads[p] \subseteq any
  BY <1>1, FS_Subset, FS_Union
<1>4. /\ Cardinality(both) \in Nat /\ Cardinality(any) \in Nat
      /\ Cardinality(tasks[p]) \in Nat /\ Cardinality(teamThreads[p]) \in Nat
  BY <1>1, <1>3, FS_CardinalityType
<1> HIDE DEF both, any
<1>5. /\ Cardinality(both) <= Cardinality(tasks[p]) /\ Cardinality(both) <= Cardinality(teamThreads[p])
      /\ Cardinality(tasks[p]) <= Cardinality(any) /\ Cardinality(teamThreads[p]) <= Cardinality(any)
  BY <1>1, <1>3, FS_Subset
<1>6. p \notin inherited => n \in Cardinality(both)..Cardinality(any)
  BY <1>4, <1>5 DEF InfosInductive, CountsKept
<1>7. p \notin execed => teamInfo[p].images \in {0, imageCount[p]}
  BY DEF InfosInductive, CountsKept
<1> QED BY <1>2, <1>6, <1>7 DEF both, any

-----------------------------------------------------------------------------
(* What is told of threads. *)

\* A name that is not mixed is of one, or the second half of one is being copied
\* in; and a reader who was not met has the first half of the name that is there.
NameWhole(t) ==
    /\ t \notin mixed =>
          /\ renaming[t] = NoThreadName \/ registering[t] = NoThreadName
          /\ threadInfo[t].name[1] = IF renaming[t] # NoThreadName THEN renaming[t]
                                     ELSE IF registering[t] # NoThreadName THEN registering[t]
                                     ELSE threadInfo[t].name[2]
    /\ t \in lister => renaming[t] = NoThreadName
    /\ Copying(t) /\ t \notin met =>
          /\ t \notin mixed /\ renaming[t] = NoThreadName /\ registering[t] = NoThreadName
          /\ copied[t][1] = threadInfo[t].name[1]
    /\ ~Copying(t) /\ copied[t] # <<>> /\ t \notin met => copied[t][1] = copied[t][2]

\* At most one priority is accepted and not in the info, and it is the host's.
PriorityKept(t) ==
    /\ \A p, q \in accepted[t] : p = q
    /\ \A p \in accepted[t] : hostRt[t] # Gone => hostRt[t] = RtOf(p)
    /\ accepted[t] = {} /\ hostRt[t] # Gone /\ t \notin apart => hostRt[t] = RtOf(threadInfo[t].priority)

AnyThreadName == ThreadName \cup {NoThreadName}
ThreadInfoTypes ==
    /\ threadInfo \in [InfoThread -> [name : [{1, 2} -> AnyThreadName], priority : Int]]
    /\ renaming \in [InfoThread -> AnyThreadName]
    /\ registering \in [InfoThread -> AnyThreadName]
    /\ hostRt \in [InfoThread -> Int]
    /\ accepted \in [InfoThread -> SUBSET Int]
    /\ copied \in [InfoThread -> Seq(AnyThreadName)]

ThreadInfosInductive ==
    ThreadInfoTypes /\ \A t \in InfoThread : NameWhole(t) /\ PriorityKept(t)

LEMMA NameOfHalves ==
    ASSUME NEW m \in AnyThreadName, NEW n \in AnyThreadName
    PROVE  <<m, n>> \in [{1, 2} -> AnyThreadName] /\ <<m, n>>[1] = m /\ <<m, n>>[2] = n
<1>1. DOMAIN <<m, n>> = {1, 2} /\ <<m, n>>[1] = m /\ <<m, n>>[2] = n
  OBVIOUS
<1>2. <<m, n>> \in Seq(AnyThreadName)
  OBVIOUS
<1> QED BY <1>1, <1>2

LEMMA ThreadInfosStepKept ==
    ASSUME ThreadInfosInductive, ThreadInfosStep
    PROVE  ThreadInfosInductive'
<1>0. ThreadInfoTypes /\ NoThreadName \notin ThreadName /\ \A u \in InfoThread : NameWhole(u) /\ PriorityKept(u)
  BY ThreadInfosAssumption DEF ThreadInfosInductive
<1>g. ThreadInfoTypes' /\ (\A u \in InfoThread : NameWhole(u)' /\ PriorityKept(u)') => ThreadInfosInductive'
  BY DEF ThreadInfosInductive
<1>1. ASSUME NEW t \in InfoThread, NEW n \in ThreadName, RegisterThreadInfo(t, n) PROVE ThreadInfosInductive'
  <2> USE DEF RegisterThreadInfo, Overlaps, Meets
  <2>1. ThreadInfoTypes'
    BY <1>0, <1>1 DEF ThreadInfoTypes, AnyThreadName
  <2>2. ASSUME NEW u \in InfoThread PROVE NameWhole(u)'
    BY <1>0, <1>1 DEF ThreadInfoTypes, AnyThreadName, NameWhole, Copying
  <2>3. ASSUME NEW u \in InfoThread PROVE PriorityKept(u)'
    BY <1>0, <1>1 DEF ThreadInfoTypes, PriorityKept
  <2> QED BY <1>g, <2>1, <2>2, <2>3
<1>2. ASSUME NEW t \in InfoThread, NEW p \in Asked, RegisterEnd(t, p) PROVE ThreadInfosInductive'
  <2> USE DEF RegisterEnd
  <2>0. p \in Int
    BY ThreadInfosAssumption
  <2> DEFINE w == <<threadInfo[t].name[1], registering[t]>>
             i == [name |-> w, priority |-> p]
  <2>w. w \in [{1, 2} -> AnyThreadName] /\ w[1] = threadInfo[t].name[1] /\ w[2] = registering[t]
    BY <1>0, NameOfHalves DEF ThreadInfoTypes
  <2>i. threadInfo' = [threadInfo EXCEPT ![t] = i]
    BY <1>0, <1>2 DEF ThreadInfoTypes
  <2>j. i \in [name : [{1, 2} -> AnyThreadName], priority : Int] /\ i.name = w
    BY <2>w, <2>0
  <2> HIDE DEF w, i
  <2>1. ThreadInfoTypes'
    BY <1>0, <1>2, <2>i, <2>j DEF ThreadInfoTypes, AnyThreadName
  <2>2. ASSUME NEW u \in InfoThread PROVE NameWhole(u)'
    BY <1>0, <1>2, <2>w, <2>i, <2>j DEF ThreadInfoTypes, NameWhole, Copying
  <2>3. ASSUME NEW u \in InfoThread PROVE PriorityKept(u)'
    BY <1>0, <1>2, <2>i DEF ThreadInfoTypes, PriorityKept
  <2> QED BY <1>g, <2>1, <2>2, <2>3
<1>3. ASSUME NEW t \in InfoThread, NEW n \in ThreadName, RenameThread(t, n) PROVE ThreadInfosInductive'
  <2> USE DEF RenameThread, Overlaps, Meets, Locked
  <2>1. ThreadInfoTypes'
    BY <1>0, <1>3 DEF ThreadInfoTypes, AnyThreadName
  <2>2. ASSUME NEW u \in InfoThread PROVE NameWhole(u)'
    BY <1>0, <1>3 DEF ThreadInfoTypes, AnyThreadName, NameWhole, Copying
  <2>3. ASSUME NEW u \in InfoThread PROVE PriorityKept(u)'
    BY <1>0, <1>3 DEF ThreadInfoTypes, PriorityKept
  <2> QED BY <1>g, <2>1, <2>2, <2>3
<1>4. ASSUME NEW t \in InfoThread, RenameEnd(t) PROVE ThreadInfosInductive'
  <2> USE DEF RenameEnd
  <2>1. ThreadInfoTypes'
    BY <1>0, <1>4 DEF ThreadInfoTypes, AnyThreadName
  <2>2. ASSUME NEW u \in InfoThread PROVE NameWhole(u)'
    BY <1>0, <1>4 DEF ThreadInfoTypes, NameWhole, Copying
  <2>3. ASSUME NEW u \in InfoThread PROVE PriorityKept(u)'
    BY <1>0, <1>4 DEF ThreadInfoTypes, PriorityKept
  <2> QED BY <1>g, <2>1, <2>2, <2>3
<1>5. ASSUME NEW t \in InfoThread, RenameFails(t) PROVE ThreadInfosInductive'
  <2> USE DEF RenameFails
  <2>1. ThreadInfoTypes'
    BY <1>0, <1>5 DEF ThreadInfoTypes, AnyThreadName
  <2>2. ASSUME NEW u \in InfoThread PROVE NameWhole(u)'
    BY <1>0, <1>5 DEF ThreadInfoTypes, NameWhole, Copying
  <2>3. ASSUME NEW u \in InfoThread PROVE PriorityKept(u)'
    BY <1>0, <1>5 DEF ThreadInfoTypes, PriorityKept
  <2> QED BY <1>g, <2>1, <2>2, <2>3
<1>6. ASSUME NEW t \in InfoThread, NEW p \in Asked, SetThreadPriority(t, p) PROVE ThreadInfosInductive'
  <2> USE DEF SetThreadPriority, Locked
  <2>0. p \in Int /\ RtOf(p) \in Int
    BY ThreadInfosAssumption DEF RtOf, UrgentDisplayPriority
  <2>1. ThreadInfoTypes'
    BY <1>0, <1>6, <2>0 DEF ThreadInfoTypes
  <2>2. ASSUME NEW u \in InfoThread PROVE NameWhole(u)'
    BY <1>0, <1>6 DEF ThreadInfoTypes, NameWhole, Copying
  <2>3. ASSUME NEW u \in InfoThread PROVE PriorityKept(u)'
    BY <1>0, <1>6 DEF ThreadInfoTypes, PriorityKept
  <2> QED BY <1>g, <2>1, <2>2, <2>3
<1>7. ASSUME NEW t \in InfoThread, NEW p \in Asked, SetPriorityEnd(t, p) PROVE ThreadInfosInductive'
  <2> USE DEF SetPriorityEnd
  <2>0. p \in Int
    BY ThreadInfosAssumption
  <2>1. ThreadInfoTypes'
    BY <1>0, <1>7, <2>0 DEF ThreadInfoTypes
  <2>2. ASSUME NEW u \in InfoThread PROVE NameWhole(u)'
    BY <1>0, <1>7 DEF ThreadInfoTypes, NameWhole, Copying
  <2>3. ASSUME NEW u \in InfoThread PROVE PriorityKept(u)'
    BY <1>0, <1>7 DEF ThreadInfoTypes, PriorityKept
  <2> QED BY <1>g, <2>1, <2>2, <2>3
<1>8. ASSUME NEW t \in InfoThread, ThreadEnds(t) PROVE ThreadInfosInductive'
  <2> USE DEF ThreadEnds
  <2>1. ThreadInfoTypes'
    BY <1>0, <1>8 DEF ThreadInfoTypes, Gone
  <2>2. ASSUME NEW u \in InfoThread PROVE NameWhole(u)'
    BY <1>0, <1>8 DEF NameWhole, Copying
  <2>3. ASSUME NEW u \in InfoThread PROVE PriorityKept(u)'
    BY <1>0, <1>8 DEF ThreadInfoTypes, PriorityKept
  <2> QED BY <1>g, <2>1, <2>2, <2>3
<1>9. ASSUME NEW t \in InfoThread, ListThread(t) \/ GetThreadInfo(t) PROVE ThreadInfosInductive'
  <2>1. /\ copied' = [copied EXCEPT ![t] = <<threadInfo[t].name[1]>>]
        /\ lister' \in {lister, lister \cup {t}}
        /\ t \in lister' \ lister => renaming[t] = NoThreadName
        /\ \A u \in InfoThread : u # t => (u \in met' <=> u \in met)
        /\ t \notin met' => t \notin mixed /\ registering[t] = NoThreadName /\ renaming[t] = NoThreadName
        /\ UNCHANGED <<threadInfo, hostRt, registering, renaming, accepted, mixed, apart>>
    BY <1>9 DEF ListThread, GetThreadInfo, CopyOut, Torn, Locked
  <2>2. ThreadInfoTypes'
    BY <1>0, <2>1 DEF ThreadInfoTypes
  <2>3. ASSUME NEW u \in InfoThread PROVE NameWhole(u)'
    BY <1>0, <2>1 DEF ThreadInfoTypes, NameWhole, Copying
  <2>4. ASSUME NEW u \in InfoThread PROVE PriorityKept(u)'
    BY <1>0, <2>1 DEF PriorityKept
  <2> QED BY <1>g, <2>2, <2>3, <2>4
<1>10. ASSUME NEW t \in InfoThread, TellThread(t) PROVE ThreadInfosInductive'
  <2> DEFINE half == copied[t]
             rest == threadInfo[t].name[2]
             after == <<half[1], rest>>
  <2>1. /\ copied' = [copied EXCEPT ![t] = after] /\ Len(half) = 1
        /\ \A u \in InfoThread : u \in lister' => u \in lister
        /\ UNCHANGED <<threadInfo, hostRt, registering, renaming, accepted, mixed, met, apart>>
    BY <1>10 DEF TellThread, Copying
  <2>a. half \in Seq(AnyThreadName) /\ rest \in AnyThreadName
    BY <1>0 DEF ThreadInfoTypes
  <2> HIDE DEF half, rest, after
  <2>b. copied'[t] = after
    BY <1>0, <2>1 DEF ThreadInfoTypes
  <2>2. half \in Seq(AnyThreadName) /\ rest \in AnyThreadName /\ copied'[t] = after
    BY <2>a, <2>b
  <2> USE DEF after
  <2>c. half[1] \in AnyThreadName
    BY <2>1, <2>2
  <2>3. after \in Seq(AnyThreadName) /\ Len(after) = 2 /\ after[1] = half[1] /\ after[2] = rest
    BY <2>2, <2>c
  <2> HIDE DEF after
  <2>4. ThreadInfoTypes'
    BY <1>0, <2>1, <2>3 DEF ThreadInfoTypes
  <2>5. ASSUME NEW u \in InfoThread PROVE NameWhole(u)'
    <3>1. CASE u = t
      <4>1. ~Copying(t)'
        BY <2>2, <2>3 DEF Copying
      <4>2. t \notin met => half[1] = rest
        BY <1>0, <1>10 DEF NameWhole, TellThread, half, rest
      <4> QED BY <1>0, <2>1, <2>2, <2>3, <3>1, <4>1, <4>2 DEF NameWhole
    <3>2. CASE u # t
      <4>1. copied'[u] = copied[u] /\ (Copying(u)' <=> Copying(u))
        BY <1>0, <2>1, <3>2 DEF ThreadInfoTypes, Copying
      <4> QED BY <1>0, <2>1, <4>1 DEF NameWhole
    <3> QED BY <3>1, <3>2
  <2>6. ASSUME NEW u \in InfoThread PROVE PriorityKept(u)'
    BY <1>0, <2>1 DEF PriorityKept
  <2> QED BY <1>g, <2>4, <2>5, <2>6
<1> QED
  BY <1>1, <1>2, <1>3, <1>4, <1>5, <1>6, <1>7, <1>8, <1>9, <1>10 DEF ThreadInfosStep

\* What a team is told of the threads and images of another, and of a thread, is what they are,
\* whatever starts, forks, execs, registers, is renamed or ends in between.  (get_team_info,
\* get_thread_info, get_next_thread_info)
THEOREM InfosCorrect == InfosSpec /\ ThreadInfosSpec => []InfosAgree
<1>1. InfosInit => InfosInductive
  <2> SUFFICES ASSUME InfosInit PROVE InfosInductive
    OBVIOUS
  <2>1. NewInfo \in InfoFields
    BY DEF NewInfo, InfoFields
  <2>2. InfoTypes
    BY <2>1, FS_EmptySet DEF InfosInit, InfoTypes
  <2> QED BY <2>2 DEF InfosInit, InfosInductive, ForksKnown, CountsKept
<1>2. InfosInductive /\ [InfosStep]_infosVars => InfosInductive'
  <2>1. InfosInductive /\ UNCHANGED infosVars => InfosInductive'
    BY DEF infosVars, InfosInductive, InfoTypes, ForksKnown, CountsKept
  <2> QED BY <2>1, InfosStepKept
<1>3. ThreadInfosInit => ThreadInfosInductive
  <2> SUFFICES ASSUME ThreadInfosInit PROVE ThreadInfosInductive
    OBVIOUS
  <2> DEFINE w == <<NoThreadName, NoThreadName>>
             i == [name |-> w, priority |-> 0]
  <2>w. w \in [{1, 2} -> AnyThreadName] /\ w[1] = w[2]
    BY NameOfHalves DEF AnyThreadName
  <2>i. threadInfo = [t \in InfoThread |-> i]
    BY DEF ThreadInfosInit, Whole
  <2>j. i \in [name : [{1, 2} -> AnyThreadName], priority : Int] /\ i.name = w /\ i.priority = 0
    BY <2>w
  <2> HIDE DEF w, i
  <2>k. copied = [t \in InfoThread |-> <<>>] /\ <<>> \in Seq(AnyThreadName)
    BY DEF ThreadInfosInit
  <2>1. ThreadInfoTypes
    BY <2>i, <2>j, <2>k DEF ThreadInfosInit, ThreadInfoTypes, AnyThreadName
  <2>2. ASSUME NEW t \in InfoThread PROVE NameWhole(t)
    BY <2>w, <2>i, <2>j DEF ThreadInfosInit, NameWhole, Copying
  <2>3. ASSUME NEW t \in InfoThread PROVE PriorityKept(t)
    BY <2>i, <2>j DEF ThreadInfosInit, PriorityKept, RtOf, UrgentDisplayPriority
  <2> QED BY <2>1, <2>2, <2>3 DEF ThreadInfosInductive
<1>4. ThreadInfosInductive /\ [ThreadInfosStep]_threadInfosVars => ThreadInfosInductive'
  <2>1. ThreadInfosInductive /\ UNCHANGED threadInfosVars => ThreadInfosInductive'
    BY DEF threadInfosVars, ThreadInfosInductive, ThreadInfoTypes, NameWhole, PriorityKept, Copying
  <2> QED BY <2>1, ThreadInfosStepKept
<1>5. InfosInductive /\ ThreadInfosInductive => InfosAgree
  BY InfosShown DEF InfosAgree, ThreadInfosInductive, ThreadInfoAgrees, NameWhole, PriorityKept
<1> QED BY <1>1, <1>2, <1>3, <1>4, <1>5, PTL DEF InfosSpec, ThreadInfosSpec
=============================================================================
