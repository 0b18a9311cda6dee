----------------------------- MODULE Messaging ------------------------------
(***************************************************************************)
(* The messaging service (server_messaging.cpp): the server writes         *)
(* commands into a list of shared areas, each used as a ring, and the team *)
(* that is registered as the message server reads them.  A benaphore in    *)
(* the header of an area and one semaphore of that team lock the areas; a  *)
(* second semaphore wakes the reader, for the first command of an empty    *)
(* area only.                                                              *)
(*                                                                         *)
(* MessagingService::_lock admits one SendMessage at a time.  The reader   *)
(* is code of Haiku: it takes every command of its area under the lock and *)
(* goes to the next area, if there is one, before it lets go of the lock.  *)
(***************************************************************************)
EXTENDS Integers, Sequences, FiniteSets, Functions

CONSTANTS
    Area,         \* ids for areas
    NoArea,
    Registrar,    \* teams that can be the message server
    NoTeam,
    AreaSize,     \* kMessagingAreaSize
    HeaderSize,   \* sizeof(messaging_area_header)
    CommandSize,  \* sizeof(messaging_command)
    DataSizes,    \* bound: the sizes of the data of a command
    MaxMessages   \* bound: messages sent to one message server

ASSUME MessagingAssumption ==
    /\ HeaderSize \in Nat \ {0} /\ HeaderSize % 4 = 0 /\ AreaSize \in Nat /\ AreaSize % 4 = 0
    /\ CommandSize \in Nat \ {0} /\ DataSizes \subseteq Nat /\ MaxMessages \in Nat
    /\ IsFiniteSet(Area) /\ NoArea \notin Area /\ NoTeam \notin Registrar

VARIABLES
    ring,    \* the headers and the commands of the areas
    svc,     \* _firstArea, _lastArea and _serverTeam
    teams,   \* registrars that are there
    sems,    \* counts of the lock semaphore and of the counter semaphore
    snd,     \* how far the current SendMessage is
    rdr,     \* how far the reader is
    sent,    \* history: what SendMessage put into the areas, for this server
    got      \* history: what the reader took

messagingVars == <<ring, svc, teams, sems, snd, rdr, sent, got>>

NoSend == [at |-> "idle", size |-> 0, area |-> NoArea, kept |-> NoArea, empty |-> FALSE]
NoReader == [at |-> "none", area |-> NoArea]
NoService == [first |-> NoArea, last |-> NoArea, team |-> NoTeam]

MessagingInit ==
    /\ ring = <<>>
    /\ svc = NoService
    /\ teams = Registrar
    /\ sems = [lock |-> 0, counter |-> 0]
    /\ snd = NoSend /\ rdr = NoReader
    /\ sent = <<>> /\ got = <<>>

-----------------------------------------------------------------------------
(* One area: InitHeader, Lock, Unlock, AllocateCommand *)

InitHeader == [lock |-> 1, next |-> NoArea, count |-> 0, first |-> 0, last |-> 0,
               cmds |-> <<>>]
CheckCommandSize(data) == CommandSize + data <= AreaSize - HeaderSize

\* The semaphores go with the team that owns them; the server holds weak pointers.
SemsThere == svc.team \in teams
\* fetch_add: whether the lock is had at once, or the semaphore is needed.
FreeOf(a) == ring[a].lock = 0
LockCount(a, n) == [ring EXCEPT ![a].lock = @ + n]
\* mutant: the waiter of an area is forgotten
UnlockedNot(r, s, a) == s
\* Unlock: the semaphore is released if somebody else counted in.
Unlocked(r, s, a) ==
    IF r[a].lock > 1 /\ SemsThere THEN [s EXCEPT !.lock = @ + 1] ELSE s

Align(n) == ((n + 3) \div 4) * 4
Span(o, size) == o..(o + size - 1)

\* _CheckCommand
CheckCommand(r, o) ==
    /\ o \in DOMAIN r.cmds /\ o >= HeaderSize /\ o % 4 = 0
    /\ o + CommandSize <= AreaSize
    /\ r.cmds[o].size >= CommandSize
    /\ o + Align(r.cmds[o].size) <= AreaSize

NoRoom == 0
\* mutant: there is always space before the first command
OffsetWrap(r, size) ==
    LET end == r.last + Align(r.cmds[r.last].size) IN
    IF r.count = 0 THEN HeaderSize
    ELSE IF r.first <= r.last
    THEN IF size <= AreaSize - end THEN end ELSE HeaderSize
    ELSE IF size <= r.first - end THEN end ELSE NoRoom
\* Where a command of the given size goes.
Offset(r, size) ==
    LET end == r.last + Align(r.cmds[r.last].size) IN
    IF r.count = 0 THEN HeaderSize
    ELSE IF ~(CheckCommand(r, r.first) /\ CheckCommand(r, r.last)) THEN NoRoom
    ELSE IF r.first <= r.last
    THEN IF size <= AreaSize - end THEN end
         ELSE IF size <= r.first - HeaderSize THEN HeaderSize ELSE NoRoom
    ELSE IF size <= r.first - end THEN end ELSE NoRoom

\* The command is written over whatever lies at its place.
AllocateCommand(r, size, msg) ==
    LET o == Offset(r, size)
        hit == {p \in DOMAIN r.cmds : Span(p, r.cmds[p].size) \cap Span(o, size) # {}}
        linked == IF r.count = 0 THEN r.cmds ELSE [r.cmds EXCEPT ![r.last].next = o]
        rest == Restrict(linked, DOMAIN linked \ hit)
    IN  [r EXCEPT !.count = @ + 1,
                  !.first = IF r.count = 0 THEN o ELSE @,
                  !.last = o,
                  !.cmds = [p \in DOMAIN rest \cup {o} |->
                              IF p = o THEN [next |-> 0, size |-> size, msg |-> msg]
                              ELSE rest[p]]]

-----------------------------------------------------------------------------
(* RegisterService, UnregisterService and the end of a message server *)

Drop(areas) == Restrict(ring, DOMAIN ring \ areas)

\* MessagingArea::Create: an id that no area has
NewArea == Area \ DOMAIN ring

RegisterService(t) ==
    /\ t \in teams /\ snd.at = "idle" /\ svc.first = NoArea
    /\ \E a \in NewArea :
        /\ ring' = [x \in DOMAIN ring \cup {a} |->
                      IF x = a THEN [InitHeader EXCEPT !.lock = 0] ELSE ring[x]]
        /\ svc' = [first |-> a, last |-> a, team |-> t]
        /\ rdr' = [at |-> "wait", area |-> a]
    /\ sems' = [lock |-> 0, counter |-> 0]
    /\ sent' = <<>> /\ got' = <<>>
    /\ UNCHANGED <<teams, snd>>

\* By the team itself, or when disconnect finds that it was its last thread.
UnregisterService ==
    /\ svc.team # NoTeam /\ snd.at = "idle"
    /\ ring' = <<>> /\ svc' = NoService /\ rdr' = NoReader
    /\ UNCHANGED <<teams, sems, snd, sent, got>>

\* The semaphores of the team are unregistered first, wherever its reader is.
RegistrarLeaves(t) ==
    /\ t \in teams
    /\ teams' = teams \ {t}
    /\ rdr' = IF svc.team = t THEN NoReader ELSE rdr
    /\ UNCHANGED <<ring, svc, sems, snd, sent, got>>

-----------------------------------------------------------------------------
(* SendMessage and _AllocateCommand *)

\* mutant: an area is discarded without a look at its commands
HasCommandsNot(a) == FALSE
HasCommands(a) == ring[a].count > 0

SendMessage(data) ==
    /\ snd.at = "idle" /\ svc.first # NoArea /\ Len(sent) < MaxMessages
    /\ CheckCommandSize(data)
    /\ snd' = [NoSend EXCEPT !.at = "discard", !.size = CommandSize + data]
    /\ UNCHANGED <<ring, svc, teams, sems, rdr, sent, got>>

\* The lock of the first area, as long as it is not the last, or of the last.
SenderLocks ==
    LET a == svc.first IN
    /\ snd.at = "discard"
    /\ snd' = [snd EXCEPT !.area = a,
                          !.at = IF FreeOf(a) \/ ~SemsThere THEN "locked" ELSE "acquire"]
    /\ ring' = LockCount(a, 1)
    /\ UNCHANGED <<svc, teams, sems, rdr, sent, got>>
\* Semaphore::Acquire, which fails when the semaphore is deleted; Lock's result
\* is not looked at.
SenderAcquires ==
    /\ snd.at = "acquire" /\ (sems.lock > 0 \/ ~SemsThere)
    /\ sems' = IF SemsThere THEN [sems EXCEPT !.lock = @ - 1] ELSE sems
    /\ snd' = [snd EXCEPT !.at = "locked"]
    /\ UNCHANGED <<ring, svc, teams, rdr, sent, got>>

\* An empty first area is taken off the list and stays locked; the one kept
\* before it is deleted.
Discard ==
    LET a == snd.area IN
    /\ snd.at = "locked" /\ a # svc.last /\ ~HasCommands(a)
    /\ svc' = [svc EXCEPT !.first = ring[a].next]
    /\ ring' = [Drop({snd.kept}) EXCEPT ![a].next = NoArea]
    /\ snd' = [snd EXCEPT !.at = "discard", !.kept = a]
    /\ UNCHANGED <<teams, sems, rdr, sent, got>>
\* A first area with commands ends the loop, and the last area is locked.
KeepFirst ==
    LET a == snd.area
        l == svc.last
        r == LockCount(a, -1)
    IN  /\ snd.at = "locked" /\ a # l /\ HasCommands(a)
        /\ sems' = Unlocked(ring, sems, a)
        /\ ring' = [r EXCEPT ![l].lock = @ + 1]
        /\ snd' = [snd EXCEPT !.area = l,
                              !.at = IF FreeOf(l) \/ ~SemsThere THEN "locked" ELSE "acquire"]
        /\ UNCHANGED <<svc, teams, rdr, sent, got>>

\* In the last area, under its lock.
Allocate ==
    LET a == snd.area
        msg == Len(sent) + 1
    IN  /\ snd.at = "locked" /\ a = svc.last /\ Offset(ring[a], snd.size) # NoRoom
        /\ ring' = [Drop({snd.kept}) EXCEPT ![a] = AllocateCommand(@, snd.size, msg)]
        /\ snd' = [snd EXCEPT !.at = "unlock", !.kept = NoArea, !.empty = ~HasCommands(a)]
        /\ sent' = Append(sent, msg)
        /\ UNCHANGED <<svc, teams, sems, rdr, got>>
\* The area that was kept, or a new one, is linked, locked; the last is unlocked.
AllocateNew ==
    LET a == snd.area
        msg == Len(sent) + 1
        news == IF snd.kept # NoArea THEN {snd.kept} ELSE NewArea
    IN  /\ snd.at = "locked" /\ a = svc.last /\ Offset(ring[a], snd.size) = NoRoom
        /\ \E n \in news :
            /\ ring' = [x \in DOMAIN ring \cup {n} |->
                          IF x = n THEN AllocateCommand(InitHeader, snd.size, msg)
                          ELSE IF x = a THEN [ring[a] EXCEPT !.next = n, !.lock = @ - 1]
                          ELSE ring[x]]
            /\ svc' = [svc EXCEPT !.last = n]
            /\ snd' = [snd EXCEPT !.at = "unlock", !.area = n, !.kept = NoArea, !.empty = TRUE]
        /\ sems' = Unlocked(ring, sems, a)
        /\ sent' = Append(sent, msg)
        /\ UNCHANGED <<teams, rdr, got>>

\* No area can be created: the last one is unlocked, and the message refused.
AllocateFails ==
    LET a == snd.area IN
    /\ snd.at = "locked" /\ a = svc.last /\ Offset(ring[a], snd.size) = NoRoom
    /\ snd.kept = NoArea
    /\ sems' = Unlocked(ring, sems, a)
    /\ ring' = LockCount(a, -1)
    /\ snd' = NoSend
    /\ UNCHANGED <<svc, teams, rdr, sent, got>>

SenderUnlocks ==
    /\ snd.at = "unlock"
    /\ sems' = Unlocked(ring, sems, snd.area)
    /\ ring' = LockCount(snd.area, -1)
    /\ snd' = IF snd.empty THEN [snd EXCEPT !.at = "commit"] ELSE NoSend
    /\ UNCHANGED <<svc, teams, rdr, sent, got>>

CommitCommand == IF SemsThere THEN [sems EXCEPT !.counter = @ + 1] ELSE sems
Commit ==
    /\ snd.at = "commit"
    /\ sems' = CommitCommand
    /\ snd' = NoSend
    /\ UNCHANGED <<ring, svc, teams, rdr, sent, got>>

-----------------------------------------------------------------------------
(* The reader *)

ReaderWakes ==
    /\ rdr.at = "wait" /\ sems.counter > 0
    /\ sems' = [sems EXCEPT !.counter = @ - 1]
    /\ rdr' = [rdr EXCEPT !.at = "lock"]
    /\ UNCHANGED <<ring, svc, teams, snd, sent, got>>
ReaderLocks ==
    /\ rdr.at = "lock"
    /\ ring' = LockCount(rdr.area, 1)
    /\ rdr' = [rdr EXCEPT !.at = IF FreeOf(rdr.area) THEN "pop" ELSE "acquire"]
    /\ UNCHANGED <<svc, teams, sems, snd, sent, got>>
ReaderAcquires ==
    /\ rdr.at = "acquire" /\ sems.lock > 0
    /\ sems' = [sems EXCEPT !.lock = @ - 1]
    /\ rdr' = [rdr EXCEPT !.at = "pop"]
    /\ UNCHANGED <<ring, svc, teams, snd, sent, got>>
PopCommand(r) ==
    [r EXCEPT !.count = @ - 1, !.first = r.cmds[r.first].next,
              !.cmds = Restrict(@, DOMAIN @ \ {r.first})]
ReaderPops ==
    LET r == ring[rdr.area] IN
    /\ rdr.at = "pop" /\ r.count > 0 /\ r.first \in DOMAIN r.cmds
    /\ ring' = [ring EXCEPT ![rdr.area] = PopCommand(r)]
    /\ got' = Append(got, r.cmds[r.first].msg)
    /\ UNCHANGED <<svc, teams, sems, snd, rdr, sent>>
ReaderUnlocks ==
    LET r == ring[rdr.area] IN
    /\ rdr.at = "pop" /\ r.count = 0
    /\ sems' = Unlocked(ring, sems, rdr.area)
    /\ ring' = LockCount(rdr.area, -1)
    /\ rdr' = IF r.next = NoArea THEN [rdr EXCEPT !.at = "wait"]
              ELSE [at |-> "lock", area |-> r.next]
    /\ UNCHANGED <<svc, teams, snd, sent, got>>

MessagingStep ==
    \/ \E t \in Registrar : RegisterService(t) \/ RegistrarLeaves(t)
    \/ UnregisterService
    \/ \E data \in DataSizes : SendMessage(data)
    \/ SenderLocks \/ SenderAcquires \/ Discard \/ KeepFirst
    \/ Allocate \/ AllocateNew \/ AllocateFails \/ SenderUnlocks \/ Commit
    \/ ReaderWakes \/ ReaderLocks \/ ReaderAcquires \/ ReaderPops \/ ReaderUnlocks

MessagingSpec == MessagingInit /\ [][MessagingStep]_messagingVars

-----------------------------------------------------------------------------
(* Properties *)

\* The messages of an area as the reader will find them, by the place of the
\* first: one of them, and then the rest.
MessagesFrom(r, rest) ==
    [o \in 0..AreaSize |-> IF o \notin DOMAIN r.cmds THEN <<"torn">>
                           ELSE <<r.cmds[o].msg>> \o rest[r.cmds[o].next]]
Messages(r) ==
    LET m[n \in 0..MaxMessages] == IF n = 0 THEN [o \in 0..AreaSize |-> <<>>]
                                   ELSE MessagesFrom(r, m[n - 1])
    IN  m[r.count][r.first]
\* Those of one area, and then the rest.
AreasFrom(rest) ==
    [a \in Area \cup {NoArea} |-> IF a = NoArea THEN <<>>
                                 ELSE IF a \notin DOMAIN ring THEN <<"gone">>
                                 ELSE Messages(ring[a]) \o rest[ring[a].next]]
Pending(start) ==
    LET p[k \in 0..Cardinality(Area)] == IF k = 0 THEN [a \in Area \cup {NoArea} |-> <<>>]
                                         ELSE AreasFrom(p[k - 1])
    IN  p[Cardinality(Area)][start]

\* What SendMessage accepted is read once and in order: it was read, or the
\* reader finds it from its own area on, whatever was wrapped, discarded,
\* reused or linked in between.
MessagesInOrder == rdr # NoReader => sent = got \o Pending(rdr.area)

\* The reader does not sleep over a message: neither on the counter, which is
\* released for the first command of an area only, nor on the lock, whose
\* semaphore is shared by all areas while their counters start anew.
ReaderNotStranded ==
    snd.at = "idle" =>
        /\ rdr.at = "wait" /\ sems.counter = 0 => Pending(rdr.area) = <<>>
        /\ rdr.at = "acquire" => sems.lock > 0

\* What SendMessage accepted is read once and in order, whatever was wrapped,
\* discarded, reused or linked in between, and the reader does not sleep over a
\* message, on the counter or on the lock that all areas share.
MessagesDelivered == MessagesInOrder /\ ReaderNotStranded
=============================================================================
