----------------------------- MODULE EventQueue -----------------------------
(* The event queues of a guest over epoll (monika): a queue is a descriptor of
   epoll, and what it waits for is kept a second time in records of the guest,
   which are recycled. The data word of an event of epoll points to a record.

   epoll is external: the entries of a queue go with the object or the queue
   that is closed, and an entry that is for one event is disarmed by it. The
   sets of events are left out. *)
EXTENDS Integers, Sequences, FiniteSets, Functions

CONSTANTS
    Waiter,         \* threads
    Queue,          \* numbers of descriptors that queues get
    WaitObject,     \* numbers of descriptors that objects get
    NoRecord,       \* no record: not in an epoll entry, not waited
    PageRecords,    \* records in a page
    MaxPages,       \* pages that can be mapped
    MaxInfos        \* bound: objects that a call selects or is told of

ASSUME EventQueueAssumption ==
    /\ PageRecords \in Nat \ {0} /\ MaxPages \in Nat /\ MaxInfos \in Nat
    /\ 0 \notin Queue \cup WaitObject
    /\ NoRecord \notin 1 .. PageRecords * MaxPages

VARIABLES
    openFds,        \* the descriptors that are open
    records,        \* what each record is about
    sFreeList,      \* records that are free, the one to be used next first
    pages,          \* pages mapped
    epoll,          \* the entries of the queues
    waited,         \* what epoll_wait has returned to each thread
    selected        \* what the guest has selected and not been told the end of

eventVars == <<openFds, records, sFreeList, pages, epoll, waited, selected>>

Records == 1 .. PageRecords * MaxPages
FreeRecord == [queueFd |-> 0, objectFd |-> 0, oneShot |-> FALSE]

-----------------------------------------------------------------------------
(* Records. S is the state that a call works on under the lock. *)

IsActiveRegistration(S, r) == S.records[r] # FreeRecord

FindRegistration(S, q, o) ==
    LET found == {r \in Records : S.records[r].queueFd = q /\ S.records[r].objectFd = o}
    IN IF found = {} THEN NoRecord ELSE CHOOSE r \in found : TRUE

\* A page is mapped when no record is free; its last record is the first to go.
WithPage(S) ==
    IF S.sFreeList # << >> \/ S.pages = MaxPages THEN S
    ELSE [S EXCEPT !.pages = @ + 1,
                   !.sFreeList = [i \in 1 .. PageRecords |-> (S.pages + 1) * PageRecords - i + 1]]

AllocRegistration(S, q, o) ==
    [S EXCEPT !.sFreeList = Tail(@), !.records[Head(S.sFreeList)] = [FreeRecord EXCEPT !.queueFd = q, !.objectFd = o]]

FreeRegistration(S, r) ==
    IF ~IsActiveRegistration(S, r) THEN S
    ELSE [S EXCEPT !.records[r] = FreeRecord, !.sFreeList = <<r>> \o @]

-----------------------------------------------------------------------------
(* epoll. *)

CtlDel(S, q, o) == [S EXCEPT !.epoll[<<q, o>>] = [record |-> NoRecord, armed |-> FALSE, oneShot |-> FALSE]]

CtlError(S, how, q, o) ==
    LET known == S.epoll[<<q, o>>].record # NoRecord
    IN  IF ~({q, o} \subseteq openFds) THEN "EBADF"
        ELSE IF known = (how = "mod") THEN "none"
        ELSE IF known THEN "EEXIST" ELSE "ENOENT"

-----------------------------------------------------------------------------
(* _moni_event_queue_select. *)

Deselect(S, q, o) ==
    LET r == FindRegistration(S, q, o)
    IN IF r = NoRecord THEN [S EXCEPT !.ok = FALSE]
       ELSE [FreeRegistration(CtlDel(S, q, o), r) EXCEPT !.selected = @ \ {<<q, o>>}]

\* The other way is tried when epoll knows more, or less, than the records.
Retry(error) == error \in {"EEXIST", "ENOENT"}

SelectEvents(S, q, o, oneShot) ==
    LET known == FindRegistration(S, q, o)
        paged == WithPage(S)
        T == IF known # NoRecord THEN S ELSE AllocRegistration(paged, q, o)
        r == IF known # NoRecord THEN known ELSE Head(paged.sFreeList)
        how == IF known = NoRecord THEN "add" ELSE "mod"
        error == CtlError(T, how, q, o)
        other == CtlError(T, IF how = "add" THEN "mod" ELSE "add", q, o)
        U == [T EXCEPT !.records[r].oneShot = oneShot]
    IN IF known = NoRecord /\ paged.sFreeList = << >> THEN [S EXCEPT !.ok = FALSE]
       ELSE IF error = "none" \/ (Retry(error) /\ other = "none")
       THEN [U EXCEPT !.epoll[<<q, o>>] = [record |-> r, armed |-> TRUE, oneShot |-> oneShot],
                      !.selected = @ \cup {<<q, o>>}]
       ELSE [FreeRegistration(U, r) EXCEPT !.ok = FALSE, !.selected = @ \ {<<q, o>>}]

SelectOne(S, q, info) ==
    IF ~S.ok THEN S
    ELSE IF info.events = "none" THEN Deselect(S, q, info.object)
    ELSE SelectEvents(S, q, info.object, info.events = "oneShot")

State == [records |-> records, sFreeList |-> sFreeList, pages |-> pages, epoll |-> epoll,
          selected |-> selected, ok |-> TRUE]

Becomes(S) ==
    /\ records' = S.records
    /\ sFreeList' = S.sFreeList
    /\ pages' = S.pages
    /\ epoll' = S.epoll
    /\ selected' = S.selected

\* An object of another type ends the call as an error of an earlier one does.
AfterSelects(q, infos) ==
    LET after[n \in 0 .. Len(infos)] ==
            IF n = 0 THEN State ELSE SelectOne(after[n - 1], q, infos[n])
    IN  after

Select(q, infos) ==
    /\ Becomes(AfterSelects(q, infos)[Len(infos)])
    /\ UNCHANGED <<openFds, waited>>

-----------------------------------------------------------------------------
(* _moni_event_queue_wait. *)

\* What epoll returns, in any order, is looked at only when the lock is taken.
EpollWait(t, q, ready) ==
    /\ waited[t] = << >>
    /\ q \in openFds
    /\ IsInjective(ready) /\ \A i \in DOMAIN ready : epoll[<<q, ready[i]>>].armed
    /\ waited' = [waited EXCEPT ![t] =
                    <<[queue |-> q, events |-> [i \in DOMAIN ready |-> epoll[<<q, ready[i]>>].record]]>>]
    /\ epoll' = [e \in DOMAIN epoll |->
                   IF e[1] = q /\ e[2] \in Range(ready) /\ epoll[e].oneShot
                   THEN [epoll[e] EXCEPT !.armed = FALSE] ELSE epoll[e]]
    /\ UNCHANGED <<openFds, records, sFreeList, pages, selected>>

\* Mutant: what is for one event is left to epoll, which only disarms it.
ReportEventDisarmed(S, q, r) ==
    LET o == S.records[r].objectFd
    IN IF ~IsActiveRegistration(S, r) \/ S.records[r].queueFd # q \/ ~S.records[r].oneShot THEN S
       ELSE [FreeRegistration(S, r) EXCEPT !.selected = @ \ {<<q, o>>}]

\* What is reported; what is for one event is taken out of the queue and of the records.
ReportEvent(S, q, r) ==
    LET o == S.records[r].objectFd
    IN IF ~IsActiveRegistration(S, r) \/ S.records[r].queueFd # q \/ ~S.records[r].oneShot THEN S
       ELSE [FreeRegistration(CtlDel(S, q, o), r) EXCEPT !.selected = @ \ {<<q, o>>}]

AfterReports(q, events) ==
    LET after[n \in 0 .. Len(events)] ==
            IF n = 0 THEN State ELSE ReportEvent(after[n - 1], q, events[n])
    IN  after

WaitEnd(t) ==
    /\ waited[t] # << >>
    /\ LET w == waited[t][1]
       IN Becomes(AfterReports(w.queue, w.events)[Len(w.events)])
    /\ waited' = [waited EXCEPT ![t] = << >>]
    /\ UNCHANGED openFds

-----------------------------------------------------------------------------
\* A queue or an object gets a number that is free.
OpenFile(fd) ==
    /\ fd \notin openFds
    /\ openFds' = openFds \cup {fd}
    /\ UNCHANGED <<records, sFreeList, pages, epoll, waited, selected>>

\* The records of what is closed stay.
CloseFile(fd) ==
    /\ fd \in openFds
    /\ openFds' = openFds \ {fd}
    /\ epoll' = [e \in DOMAIN epoll |->
                   IF fd \in {e[1], e[2]} THEN [record |-> NoRecord, armed |-> FALSE, oneShot |-> FALSE] ELSE epoll[e]]
    /\ selected' = {e \in selected : fd \notin {e[1], e[2]}}
    /\ UNCHANGED <<records, sFreeList, pages, waited>>

EventQueueInit ==
    /\ openFds = {}
    /\ records = [r \in Records |-> FreeRecord]
    /\ sFreeList = << >> /\ pages = 0
    /\ epoll = [e \in Queue \X WaitObject |-> [record |-> NoRecord, armed |-> FALSE, oneShot |-> FALSE]]
    /\ waited = [t \in Waiter |-> << >>]
    /\ selected = {}

Info == [object : WaitObject, events : {"none", "level", "oneShot"}]
ListsOf(set) == UNION {[1 .. n -> set] : n \in 1 .. MaxInfos}

EventQueueStep ==
    \/ \E q \in Queue \cap openFds, infos \in ListsOf(Info) : Select(q, infos)
    \/ \E t \in Waiter, q \in Queue, ready \in ListsOf(WaitObject) : EpollWait(t, q, ready)
    \/ \E t \in Waiter : WaitEnd(t)
    \/ \E fd \in Queue \cup WaitObject : OpenFile(fd) \/ CloseFile(fd)

EventQueueSpec == EventQueueInit /\ [][EventQueueStep]_eventVars

-----------------------------------------------------------------------------
(* Properties. *)

\* The records and epoll agree: what the guest has selected, and neither
\* deselected, closed nor been told as once, is in epoll, and nothing else is;
\* the data word of an entry points to the one record of that queue and object.
\* It holds however records are recycled and numbers of descriptors used again
\* between the return of epoll_wait and the lock.
QueueAgrees ==
    \A e \in DOMAIN epoll :
        LET found == {r \in Records : records[r].queueFd = e[1] /\ records[r].objectFd = e[2]}
        IN /\ Cardinality(found) <= 1
           /\ e \in selected <=> epoll[e].record # NoRecord
           /\ e \in selected => found = {epoll[e].record}
=============================================================================
