------------------------------ MODULE Listing -------------------------------
(***************************************************************************)
(* How a guest lists the teams, and the threads, ports, areas and images   *)
(* of a team, and the volumes: one call per member, with a cookie in the   *)
(* memory of the guest that says how far it is, while members come and go. *)
(*                                                                         *)
(* A member is its id, or the address of an area; a behaviour is of one    *)
(* kind of member.  Every call looks at the table under one lock, and the  *)
(* cookie is the caller's own: a call is one step.                         *)
(***************************************************************************)
EXTENDS Integers, Sequences, FiniteSetsExt, Functions

CONSTANT MaxKey  \* bound: the largest id or address

ASSUME ListingAssumption == MaxKey \in Nat

VARIABLES
    kind,     \* what is listed
    listable, \* the members in the table
    dead,     \* ids among a team's ports that are no ports of the server
    cookie,   \* the guest's cookie
    reported, \* what this listing has told so far
    stays,    \* history: members that have been there since it began
    over      \* the last call found nothing more

listingVars == <<kind, listable, dead, cookie, reported, stays, over>>

ListKey == 0..MaxKey
Kinds == {"team", "thread", "port", "area", "image", "device"}
\* No process, thread or area has the number 0.
Keys == IF kind \in {"team", "thread", "area"} THEN ListKey \ {0} ELSE ListKey
NoMember == -1

Begins(members) ==
    cookie' = 0 /\ reported' = <<>> /\ stays' = members /\ over' = FALSE

ListingInit ==
    /\ kind \in Kinds
    /\ listable \in SUBSET Keys /\ dead = {}
    /\ cookie = 0 /\ reported = <<>> /\ stays = listable /\ over = FALSE

-----------------------------------------------------------------------------
(* The tables *)

LargerThan(k) == {x \in listable : x > k}
FirstOf(S) == IF S = {} THEN NoMember ELSE Min(S)

NextProcessId(pid) == FirstOf(LargerThan(pid))
NextThreadId(tid) == FirstOf(LargerThan(tid))
GetNextAreaIdFor(address) == FirstOf(LargerThan(address))
\* IdMap::NextId
NextMemberId(id) == FirstOf(LargerThan(id))

-----------------------------------------------------------------------------
(* One call: the member it tells of, or none, and the cookie it leaves *)

Answer(member, next) == [member |-> member, cookie |-> next]

\* The kernel comes first; it is told of as 0.
GetNextTeamInfo(c) ==
    IF c = 0 THEN Answer(0, -2) ELSE LET n == NextProcessId(c) IN Answer(n, n)

GetNextThreadInfo(c) == LET n == NextThreadId(c) IN Answer(n, n)

\* The cookie is one more than the last id, and the listing ends when no id is
\* larger than that: a last port whose id follows at once is never reached.
GetNextPortInfo(c) ==
    LET n == FirstOf({p \in listable \ dead : p >= c}) IN
    IF listable = {} \/ c >= Max(listable) \/ n = NoMember THEN Answer(NoMember, NoMember)
    ELSE Answer(n, n + 1)

GetNextAreaInfo(c) ==
    LET n == GetNextAreaIdFor(c) IN Answer(n, IF n = NoMember THEN c ELSE n)

\* mutant: the cookie is taken for the last id instead of the next
GetNextImageInfoAfter(c) ==
    LET n == NextMemberId(c) IN Answer(n, IF n = NoMember THEN c ELSE NextMemberId(n))
\* The cookie is the id of the next image as it was at the last call.
GetNextImageInfo(c) ==
    LET n == IF c \in listable THEN c ELSE NextMemberId(c)
    IN  Answer(n, IF n = NoMember THEN c ELSE NextMemberId(n))

NextDevice(c) ==
    LET n == IF c \in listable THEN c ELSE NextMemberId(c)
    IN  Answer(n, IF n = NoMember THEN c ELSE NextMemberId(n))

GetNext(c) ==
    CASE kind = "team" -> GetNextTeamInfo(c)
      [] kind = "thread" -> GetNextThreadInfo(c)
      [] kind = "port" -> GetNextPortInfo(c)
      [] kind = "area" -> GetNextAreaInfo(c)
      [] kind = "image" -> GetNextImageInfo(c)
      [] kind = "device" -> NextDevice(c)

\* A cookie of -1 is refused.
ListNext ==
    LET r == GetNext(cookie) IN
    /\ ~over
    /\ IF cookie = -1 \/ r.member = NoMember
       THEN over' = TRUE /\ UNCHANGED reported
       ELSE reported' = Append(reported, r.member) /\ UNCHANGED over
    /\ cookie' = IF cookie = -1 THEN -1 ELSE r.cookie
    /\ UNCHANGED <<kind, listable, dead, stays>>

ListAgain ==
    /\ over
    /\ Begins(listable \ dead)
    /\ UNCHANGED <<kind, listable, dead>>

-----------------------------------------------------------------------------
(* Members come and go *)

\* Images and volumes get the least id that is free; the others any.
Appear(k) ==
    /\ k \in Keys \ listable
    /\ kind \in {"image", "device"} => k = Min(Keys \ listable)
    /\ listable' = listable \cup {k}
    /\ UNCHANGED <<kind, dead, cookie, reported, stays, over>>

Disappear(k) ==
    /\ k \in listable
    /\ listable' = listable \ {k} /\ stays' = stays \ {k} /\ dead' = dead \ {k}
    /\ UNCHANGED <<kind, cookie, reported, over>>

\* create_port registers the port and then its owner: a port that was deleted
\* in between is owned all the same, and the id may become another team's port.
OwnDeadPort(k) ==
    /\ kind = "port" /\ k \in Keys \ listable
    /\ listable' = listable \cup {k} /\ dead' = dead \cup {k}
    /\ UNCHANGED <<kind, cookie, reported, stays, over>>
PortIdUsedAgain(k) ==
    /\ k \in dead
    /\ dead' = dead \ {k}
    /\ UNCHANGED <<kind, listable, cookie, reported, stays, over>>

\* The team that is listed leaves: the next call does not find it.
ListedTeamLeaves ==
    /\ kind \notin {"team", "device"} /\ listable # {}
    /\ listable' = {} /\ dead' = {} /\ stays' = {} /\ over' = TRUE
    /\ UNCHANGED <<kind, cookie, reported>>

ListingStep ==
    \/ ListNext \/ ListAgain \/ ListedTeamLeaves
    \/ \E k \in ListKey : Appear(k) \/ Disappear(k) \/ OwnDeadPort(k) \/ PortIdUsedAgain(k)

ListingSpec == ListingInit /\ [][ListingStep]_listingVars

-----------------------------------------------------------------------------
\* A listing never tells of a member twice, and when it is over it has told of
\* every member that was there all the time, whatever came and went meanwhile.
\* (get_next_team_info, get_next_thread_info, get_next_port_info,
\* get_next_area_info, get_next_image_info, next_device)  The last port of a team
\* is missed when its id is one more than that of the port before it, or 0.
PortMissed == IF reported = <<>> THEN 0 ELSE reported[Len(reported)] + 1
ListingComplete ==
    /\ \A i, j \in DOMAIN reported : i < j => reported[i] < reported[j]
    /\ over => stays \subseteq
                Range(reported) \cup IF kind = "port" THEN {PortMissed} ELSE {}
=============================================================================
