--------------------------- MODULE Notifications ----------------------------
(***************************************************************************)
(* Notifications of teams and threads (server_systemnotification.cpp): the *)
(* lists of listeners, the services "teams" and "threads" that report the  *)
(* events (server_notificationimpl.cpp, server_notifications.cpp), and the *)
(* data that a process owns (associateddata.cpp).                          *)
(*                                                                         *)
(* A team has its main thread, whose id is that of the team, and others.   *)
(* Each call runs under SystemNotificationService::_lock.                  *)
(***************************************************************************)
EXTENDS Integers, Sequences, FiniteSets

CONSTANTS
    Guest,      \* teams
    SideThread, \* threads other than main threads
    TeamOf,     \* the team of such a thread
    Client,     \* pairs of a port and a token, listeners
    All,        \* the object -1
    Nothing,    \* no team
    MaxCount    \* kMaxMessagingTargetCount

ASSUME NotificationsAssumption ==
    MaxCount \in Nat \ {0} /\ TeamOf \in [SideThread -> Guest] /\ {All, Nothing} \cap (Guest \cup SideThread) = {}

VARIABLES
    alive,   \* threads that are registered; a team is there if one of its threads is
    lists,   \* _teamListeners: the listeners of an object in order
    data,    \* the AssociatedData of a team
    wants,   \* history: the flags that each client asked for, by object
    event,   \* the last event: its flags, what it is about and whose it is
    posts    \* what was sent for it: the targets of each message

notificationVars == <<alive, lists, data, wants, event, posts>>

Object == Guest \cup {All}
Creation == {"team created", "thread created"}
Passing == {"team deleted", "thread deleted", "thread properties"}
Flag == {Creation, Passing}
AnyThread == Guest \cup SideThread
Whose(th) == IF th \in SideThread THEN TeamOf[th] ELSE th
Teams == {Whose(th) : th \in alive}

Event(service, code, flags, about, team) ==
    [service |-> service, code |-> code, flags |-> flags, about |-> about, team |-> team]
NoEvent == Event("none", 0, {}, Nothing, Nothing)

\* The codes of events: TEAM_ and THREAD_ ADDED, REMOVED, and EXEC and NAME_CHANGED
CodeAdded == 1
CodeRemoved == 2
TeamExec == 4
NameChanged == 4

NotificationsInit ==
    /\ alive = {}
    /\ lists = [o \in Object |-> <<>>]
    /\ data = [t \in Guest |-> {}]
    /\ wants = [o \in Object |-> [c \in Client |-> {}]]
    /\ event = NoEvent /\ posts = <<>>

-----------------------------------------------------------------------------
(* StartListening, StopListening *)

FindListener(o, c) == {i \in DOMAIN lists[o] : lists[o][i].c = c}

\* AddData and RemoveData: the latter does nothing for a team that is not the owner.
Owned(t, o, c, adds) ==
    [data EXCEPT ![t] = IF adds THEN @ \cup {<<o, c>>} ELSE @ \ {<<o, c>>}]

\* NotificationListener::flags, when it asks for more
Widened(listener, flags) == [listener EXCEPT !.flags = @ \cup flags]

StartListening(t, o, c, flags) ==
    LET found == FindListener(o, c) IN
    /\ t \in Teams
    /\ lists' = [lists EXCEPT ![o] =
                   IF found # {}
                   THEN [i \in DOMAIN @ |-> IF i \in found THEN Widened(@[i], flags) ELSE @[i]]
                   ELSE Append(@, [c |-> c, flags |-> flags])]
    /\ data' = IF found # {} THEN data ELSE Owned(t, o, c, TRUE)
    /\ wants' = [wants EXCEPT ![o][c] = @ \cup flags]
    /\ event' = NoEvent /\ posts' = <<>>
    /\ UNCHANGED alive

\* A list that has become empty stays: it never learnt its object, and the one
\* for 0, which no team has, goes instead.
RemoveListener(o, i) ==
    [lists EXCEPT ![o] = [j \in 1..(Len(@) - 1) |-> IF j < i THEN @[j] ELSE @[j + 1]]]

StopListening(t, o, c, flags) ==
    LET found == FindListener(o, c) IN
    /\ t \in Teams /\ found # {}
    /\ LET i == CHOOSE i \in found : TRUE
           left == lists[o][i].flags \ flags
       IN  IF left # {}
           THEN lists' = [lists EXCEPT ![o][i].flags = left] /\ UNCHANGED data
           ELSE lists' = RemoveListener(o, i) /\ data' = Owned(t, o, c, FALSE)
    /\ wants' = [wants EXCEPT ![o][c] = @ \ flags]
    /\ event' = NoEvent /\ posts' = <<>>
    /\ UNCHANGED alive

-----------------------------------------------------------------------------
(* Events *)

\* mutant: a full array of targets is not sent before it is used again
AddTargetsOver(s, c) ==
    IF Len(s.targets) = MaxCount THEN [s EXCEPT !.targets = <<c>>]
    ELSE [s EXCEPT !.targets = Append(@, c)]
\* _AddTargets for one listener
AddTargets(s, c) ==
    IF Len(s.targets) = MaxCount
    THEN [sent |-> Append(s.sent, s.targets), targets |-> <<c>>]
    ELSE [s EXCEPT !.targets = Append(@, c)]

\* The object of a listener is a team or all; nobody listens to the id of a thread.
Listeners(o) == IF o \in Object THEN lists[o] ELSE <<>>

NoTargets == [sent |-> <<>>, targets |-> <<>>]
\* The targets after each of the listeners, those whose flags the event has.
AfterListeners(e, all) ==
    LET after[n \in 0..Len(all)] ==
            IF n = 0 THEN NoTargets
            ELSE IF all[n].flags \cap e.flags = {} THEN after[n - 1]
            ELSE AddTargets(after[n - 1], all[n].c)
    IN  after
\* EventOccurred: the listeners of the team of the event, then those of all.
EventOccurred(e) ==
    LET all == Listeners(e.team) \o Listeners(All)
        s == AfterListeners(e, all)[Len(all)]
    IN  IF s.targets = <<>> THEN s.sent ELSE Append(s.sent, s.targets)
\* SystemNotificationService::Init has itself told of both services.  It asks for
\* TEAM_EXEC of the threads, which is their NAME_CHANGED.
Subscribed == [teams |-> {CodeAdded, CodeRemoved, TeamExec}, threads |-> {CodeAdded, CodeRemoved, TeamExec}]
\* The mask that AddListener keeps with the listener
Reaches(e) == e.code \in Subscribed[e.service]
\* NotifyLocked goes over the listeners of a service twice, and so is every
\* event reported twice.
NotifyLocked(e) == IF Reaches(e) THEN EventOccurred(e) \o EventOccurred(e) ELSE <<>>

\* TeamNotificationService::Notify, ThreadNotificationService::Notify: the
\* caller of the latter gives the thread for the team and the team for the thread.
TeamEvent(code, what, t) == Event("teams", code, what, t, t)
ThreadEvent(code, what, th) == Event("threads", code, {what}, Whose(th), th)

\* connect and disconnect report the team first, when it is new or gone, and then
\* the thread.  The two reports change nothing and do not depend on each other, so
\* that event and posts keep either.
Tell(e) == event' = e /\ posts' = NotifyLocked(e)

Connect(th) ==
    /\ th \notin alive
    /\ alive' = alive \cup {th}
    /\ \/ Whose(th) \notin Teams /\ Tell(TeamEvent(CodeAdded, {"team created"}, Whose(th)))
       \/ Tell(ThreadEvent(CodeAdded, "thread created", th))
    /\ UNCHANGED <<lists, data, wants>>

\* PrepareForDeletion forgets the data of the team, and calls nobody: its
\* listeners stay.
Disowned(t) == [data EXCEPT ![t] = {}]
LastThread(th) == {x \in alive : Whose(x) = Whose(th)} = {th}

Disconnect(th) ==
    /\ th \in alive
    /\ alive' = alive \ {th}
    /\ data' = IF LastThread(th) THEN Disowned(Whose(th)) ELSE data
    /\ \/ LastThread(th) /\ Tell(TeamEvent(CodeRemoved, {"team deleted"}, Whose(th)))
       \/ Tell(ThreadEvent(CodeRemoved, "thread deleted", th))
    /\ UNCHANGED <<lists, wants>>
\* exec: the team stays, and is reported with both flags.
Exec(th) ==
    /\ th \in alive \cap Guest
    /\ data' = Disowned(th)
    /\ Tell(TeamEvent(TeamExec, {"team created", "team deleted"}, th))
    /\ UNCHANGED <<alive, lists, wants>>

\* rename_thread
Rename(th) ==
    /\ th \in alive
    /\ Tell(ThreadEvent(NameChanged, "thread properties", th))
    /\ UNCHANGED <<alive, lists, data, wants>>

NotificationsStep ==
    \/ \E t \in Guest, o \in Object, c \in Client, f \in Flag :
        StartListening(t, o, c, f) \/ StopListening(t, o, c, f)
    \/ \E th \in AnyThread : Connect(th) \/ Disconnect(th) \/ Exec(th) \/ Rename(th)

NotificationsSpec == NotificationsInit /\ [][NotificationsStep]_notificationVars

-----------------------------------------------------------------------------
(* Properties *)

\* The places where c is among the targets of messages
TargetsAt(ms, c) ==
    {p \in (1..Len(ms)) \X (1..MaxCount) : p[2] <= Len(ms[p[1]]) /\ ms[p[1]][p[2]] = c}
Told(c) == Cardinality(TargetsAt(posts, c))

\* Every event of a team is told to exactly those who asked for it, for the
\* team or for all, and so are those of threads to who asked for all of them:
\* as often as each event is reported (twice) and he asked for it, whoever
\* else came, went, or stopped listening in between, and however many
\* messages it takes.  Listeners of teams that have gone are still told.
ListenersTold ==
    \A c \in Client :
        event # NoEvent =>
            Told(c) = 2 * Cardinality({o \in {event.team, All} \cap Object : wants[o][c] \cap event.flags # {}})
=============================================================================
