-------------------------------- MODULE Port --------------------------------
(***************************************************************************)
(* One message port of hyclone_server (port.cpp): a bounded queue under    *)
(* _messagesLock with two condition variables, one for readers and one for *)
(* writers.  Guest threads call write_port_etc, read_port_etc,             *)
(* get_port_message_info_etc, close_port and delete_port; the server runs  *)
(* each call on a worker of its own.                                       *)
(*                                                                         *)
(* close_port and delete_port set _closed and _registered without          *)
(* _messagesLock, so the steps in which a blocked call reads those flags   *)
(* are kept apart from the step in which it goes to sleep.                 *)
(***************************************************************************)
EXTENDS Naturals, Sequences, FiniteSets

CONSTANTS
    Thread,      \* guest threads (each call runs on a worker of its own)
    Capacity,    \* queue_length given to create_port
    MaxSent,     \* bound: messages the guests try to write
    CanClose,    \* the guests may call close_port
    CanDelete,   \* the guests may call delete_port
    None

ASSUME PortAssumption ==
    /\ Capacity \in 1..4096         \* checked by create_port
    /\ MaxSent \in Nat
    /\ CanClose \in BOOLEAN /\ CanDelete \in BOOLEAN
    /\ IsFiniteSet(Thread) /\ None \notin Thread

VARIABLES
    messages,    \* Port::_messages
    queueCount,  \* _info.queue_count
    totalCount,  \* _info.total_count
    closed,      \* Port::_closed
    registered,  \* Port::_registered
    lock,        \* the holder of _messagesLock
    readers,     \* threads asleep on _readCondVar, not yet notified
    writers,     \* threads asleep on _writeCondVar, not yet notified
    pc,          \* where a thread is
    call,        \* which call it is in
    timeout,     \* the call's timeout
    msg,         \* the message a write carries
    sent,        \* messages that the guests have tried to write
    accepted,    \* history: messages queued, in order
    taken        \* history: messages dequeued, in order

vars == <<messages, queueCount, totalCount, closed, registered, lock, readers,
          writers, pc, call, timeout, msg, sent, accepted, taken>>
queue == <<messages, queueCount, totalCount, accepted, taken>>
flags == <<closed, registered>>
sleepers == <<readers, writers>>

\* server_relative_timeout: do not wait, wait for a while, wait for ever.
Timeout == {"zero", "finite", "infinite"}
Call == {"write", "read", "info", "close", "delete"}
PC == {"idle", "enter", "test", "sleep", "asleep", "flags", "act",
       "set", "notifyFirst", "notifySecond"}

TypeOK ==
    /\ messages \in Seq(1..MaxSent)
    /\ queueCount \in 0..Capacity
    /\ totalCount \in Nat
    /\ closed \in BOOLEAN /\ registered \in BOOLEAN
    /\ lock \in Thread \cup {None}
    /\ readers \subseteq Thread /\ writers \subseteq Thread
    /\ pc \in [Thread -> PC]
    /\ call \in [Thread -> Call \cup {None}]
    /\ timeout \in [Thread -> Timeout \cup {None}]
    /\ msg \in [Thread -> (1..MaxSent) \cup {None}]
    /\ sent \in 0..MaxSent
    /\ accepted \in Seq(1..MaxSent) /\ taken \in Seq(1..MaxSent)

\* create_port
Init ==
    /\ messages = << >> /\ queueCount = 0 /\ totalCount = 0
    /\ closed = FALSE /\ registered = TRUE
    /\ lock = None
    /\ readers = {} /\ writers = {}
    /\ pc = [t \in Thread |-> "idle"]
    /\ call = [t \in Thread |-> None]
    /\ timeout = [t \in Thread |-> None]
    /\ msg = [t \in Thread |-> None]
    /\ sent = 0
    /\ accepted = << >> /\ taken = << >>

-----------------------------------------------------------------------------
Goto(t, l) == pc' = [pc EXCEPT ![t] = l] /\ UNCHANGED <<call, timeout, msg>>

Return(t) ==
    /\ pc' = [pc EXCEPT ![t] = "idle"]
    /\ call' = [call EXCEPT ![t] = None]
    /\ timeout' = [timeout EXCEPT ![t] = None]
    /\ msg' = [msg EXCEPT ![t] = None]

\* What the calls wait for: room for a writer, a message for the others.
Blocked(t) ==
    IF call[t] = "write" THEN queueCount = Capacity ELSE queueCount = 0

Dead == ~registered \/ closed

\* The predicate of the condition variable: writableOrDead, readableOrDead.
MayGoOn(t) == Dead \/ ~Blocked(t)

\* A write fails on a dead port; the others only on a deleted one, so that
\* the messages of a closed port can still be drained.
Refused(t) == ~registered \/ (call[t] = "write" /\ closed)

\* notify_one: some sleeper leaves the set, if there is one.
NotifyOne(S, T) == IF S = {} THEN T = {} ELSE \E u \in S : T = S \ {u}

\* What Read leaves in the queue, and the notifications of Read (a writer has
\* room now) and GetMessageInfo (another reader can have the message).
PoppedNot(q) == q  \* mutant: front() without pop()
Popped(q) == Tail(q)
WakeWriter == NotifyOne(writers, writers')
KeepToItself == UNCHANGED readers  \* mutant
PassOn == NotifyOne(readers, readers')

\* Where a call goes on when its wait has timed out.
TimedOutTo == "flags"

-----------------------------------------------------------------------------
(* The calls. *)

\* write_port_etc, read_port_etc and get_port_message_info_etc find the port
\* by its id; write_port_etc also looks at IsClosed, without a lock.
StartCall(t, c, w) ==
    /\ pc[t] = "idle" /\ registered
    /\ c = "write" => ~closed /\ sent < MaxSent
    /\ pc' = [pc EXCEPT ![t] = "enter"]
    /\ call' = [call EXCEPT ![t] = c]
    /\ timeout' = [timeout EXCEPT ![t] = w]
    /\ sent' = IF c = "write" THEN sent + 1 ELSE sent
    /\ msg' = [msg EXCEPT ![t] = IF c = "write" THEN sent + 1 ELSE None]
    /\ UNCHANGED <<queue, flags, lock, sleepers>>

\* Take _messagesLock.  A call that need not wait goes on; one that would have
\* to returns if it must not wait, or, unless it is a write, if the port is
\* closed.
Enter(t) ==
    /\ pc[t] = "enter" /\ lock = None
    /\ \/ /\ ~Blocked(t)
          /\ lock' = t /\ Goto(t, "flags")
       \/ /\ Blocked(t)
          /\ timeout[t] = "zero" \/ (call[t] # "write" /\ closed)
          /\ lock' = None /\ Return(t)
       \/ /\ Blocked(t)
          /\ timeout[t] # "zero" /\ ~(call[t] # "write" /\ closed)
          /\ lock' = t /\ Goto(t, "test")
    /\ UNCHANGED <<queue, flags, sleepers, sent>>

\* Evaluate the predicate of the condition variable.
Test(t) ==
    /\ pc[t] = "test"
    /\ Goto(t, IF MayGoOn(t) THEN "flags" ELSE "sleep")
    /\ UNCHANGED <<queue, flags, lock, sleepers, sent>>

\* Release the lock and sleep, in one step.
Sleep(t) ==
    /\ pc[t] = "sleep"
    /\ lock' = None
    /\ IF call[t] = "write"
         THEN writers' = writers \cup {t} /\ UNCHANGED readers
         ELSE readers' = readers \cup {t} /\ UNCHANGED writers
    /\ Goto(t, "asleep")
    /\ UNCHANGED <<queue, flags, sent>>

\* Notified: take the lock again and test once more.
WakeUp(t) ==
    /\ pc[t] = "asleep" /\ t \notin readers \cup writers
    /\ lock = None /\ lock' = t
    /\ Goto(t, "test")
    /\ UNCHANGED <<queue, flags, sleepers, sent>>

\* wait_for gives up: it takes the lock and returns what the predicate says,
\* which the caller does not look at.
TimeOut(t) ==
    /\ pc[t] = "asleep" /\ timeout[t] = "finite"
    /\ lock = None /\ lock' = t
    /\ readers' = readers \ {t} /\ writers' = writers \ {t}
    /\ Goto(t, TimedOutTo)
    /\ UNCHANGED <<queue, flags, sent>>

\* The flags are read again, after the wait or instead of it.
CheckFlags(t) ==
    /\ pc[t] = "flags"
    /\ IF Refused(t) THEN lock' = None /\ Return(t)
                     ELSE UNCHANGED lock /\ Goto(t, "act")
    /\ UNCHANGED <<queue, flags, sleepers, sent>>

\* Nothing came: B_TIMED_OUT, or B_BAD_PORT_ID for a reader of a closed port.
GiveUp(t) ==
    /\ pc[t] = "act" /\ Blocked(t)
    /\ lock' = None /\ Return(t)
    /\ UNCHANGED <<queue, flags, sleepers, sent>>

Write(t) ==
    /\ pc[t] = "act" /\ call[t] = "write" /\ ~Blocked(t)
    /\ messages' = Append(messages, msg[t])
    /\ queueCount' = queueCount + 1
    /\ accepted' = Append(accepted, msg[t])
    /\ NotifyOne(readers, readers')
    /\ lock' = None /\ Return(t)
    /\ UNCHANGED <<totalCount, taken, flags, writers, sent>>

Read(t) ==
    /\ pc[t] = "act" /\ call[t] = "read" /\ ~Blocked(t)
    /\ queueCount' = queueCount - 1
    /\ totalCount' = totalCount + 1
    /\ messages' = Popped(messages)
    /\ taken' = Append(taken, Head(messages))
    /\ WakeWriter
    /\ lock' = None /\ Return(t)
    /\ UNCHANGED <<accepted, flags, readers, sent>>

\* "We haven't read anything, let someone else read it."
GetMessageInfo(t) ==
    /\ pc[t] = "act" /\ call[t] = "info" /\ ~Blocked(t)
    /\ PassOn
    /\ lock' = None /\ Return(t)
    /\ UNCHANGED <<queue, flags, writers, sent>>

-----------------------------------------------------------------------------
(* close_port and delete_port: the flag, then one condition variable, then   *)
(* the other, none of it under _messagesLock.                                *)

StartEnd(t, c) ==
    /\ pc[t] = "idle" /\ registered
    /\ IF c = "close" THEN CanClose ELSE CanDelete
    /\ pc' = [pc EXCEPT ![t] = "set"]
    /\ call' = [call EXCEPT ![t] = c]
    /\ UNCHANGED <<queue, flags, lock, sleepers, timeout, msg, sent>>

\* Port::Close fails on a closed port; UnregisterPort does nothing for a port
\* that somebody else has removed.
SetFlag(t) ==
    /\ pc[t] = "set"
    /\ \/ /\ call[t] = "close" /\ ~closed
          /\ closed' = TRUE /\ UNCHANGED registered
          /\ Goto(t, "notifyFirst")
       \/ /\ call[t] = "delete" /\ registered
          /\ registered' = FALSE /\ UNCHANGED closed
          /\ Goto(t, "notifyFirst")
       \/ /\ IF call[t] = "close" THEN closed ELSE ~registered
          /\ Return(t) /\ UNCHANGED flags
    /\ UNCHANGED <<queue, lock, sleepers, sent>>

\* Close wakes the writers first, UnregisterPort the readers.
NotifyFirst(t) ==
    /\ pc[t] = "notifyFirst"
    /\ IF call[t] = "close" THEN writers' = {} /\ UNCHANGED readers
                            ELSE readers' = {} /\ UNCHANGED writers
    /\ Goto(t, "notifySecond")
    /\ UNCHANGED <<queue, flags, lock, sent>>

NotifySecond(t) ==
    /\ pc[t] = "notifySecond"
    /\ IF call[t] = "close" THEN readers' = {} /\ UNCHANGED writers
                            ELSE writers' = {} /\ UNCHANGED readers
    /\ Return(t)
    /\ UNCHANGED <<queue, flags, lock, sent>>

-----------------------------------------------------------------------------
Start(t) ==
    \/ \E c \in {"write", "read", "info"}, w \in Timeout : StartCall(t, c, w)
    \/ \E c \in {"close", "delete"} : StartEnd(t, c)

\* Everything a worker does without being asked again.
Worker(t) ==
    \/ Enter(t) \/ Test(t) \/ Sleep(t) \/ WakeUp(t) \/ CheckFlags(t)
    \/ GiveUp(t) \/ Write(t) \/ Read(t) \/ GetMessageInfo(t)
    \/ SetFlag(t) \/ NotifyFirst(t) \/ NotifySecond(t)

Next == \E t \in Thread : Start(t) \/ Worker(t) \/ TimeOut(t)

Spec == Init /\ [][Next]_vars

\* Workers run, and none holds _messagesLock for ever (strong fairness: the
\* lock is free again and again).  A finite timeout expires.
Fairness == \A t \in Thread : SF_vars(Worker(t)) /\ SF_vars(TimeOut(t))

FairSpec == Spec /\ Fairness

-----------------------------------------------------------------------------
(* Properties *)

\* No message is lost, duplicated or overtaken: what was dequeued, followed by
\* what is queued, is what was accepted; and the counters that the port
\* reports agree with the queue (Port::Write, Port::Read).
FirstInFirstOut ==
    /\ accepted = taken \o messages
    /\ queueCount = Len(messages)
    /\ totalCount = Len(taken)

\* A thread that is up and about to look at the queue from c's side.
Coming(C) ==
    \E t \in Thread :
        /\ call[t] \in C
        /\ \/ pc[t] \in {"test", "flags", "act"}
           \/ pc[t] = "asleep" /\ t \notin readers \cup writers

\* While a live port has messages, no reader sleeps unless another thread that will
\* look at the queue is up: the notify_one of Write reaches somebody, and
\* get_port_message_info passes it on because it leaves the message there.
NoSleepingReader ==
    registered /\ messages # << >> /\ readers # {} => Coming({"read", "info"})

\* While an open port has room, no writer sleeps unless another one is up.
NoSleepingWriter ==
    ~Dead /\ Len(messages) < Capacity /\ writers # {} => Coming({"write"})

\* No notification is lost between readers, peekers and writers: nobody sleeps
\* beside the message or the room it waits for.  (Write, Read, GetMessageInfo)
NoSleeper == NoSleepingReader /\ NoSleepingWriter

\* "a thread blocked in read_port / get_port_message_info must return
\* B_BAD_PORT_ID once the port is closed" (port.cpp, Port::Close).
ClosedUnblocksReaders ==
    \A t \in Thread :
        (closed /\ call[t] \in {"read", "info"}) ~> (call[t] = None)
=============================================================================
