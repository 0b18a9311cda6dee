------------------------------ MODULE Threads -------------------------------
(***************************************************************************)
(* The Thread objects of hyclone_server (thread.cpp): block_thread and     *)
(* unblock_thread, send_data and receive_data, and System::UnregisterThread*)
(* when a thread leaves.                                                   *)
(*                                                                         *)
(* Each thread makes one call at a time; a worker of the server runs it.   *)
(* A critical section under Thread::_lock is one step, except that a call  *)
(* that is going to sleep holds the lock from its test to its sleep, as    *)
(* UnregisterThread changes _registered and notifies without that lock.    *)
(***************************************************************************)
EXTENDS Integers, Sequences, FiniteSets

CONSTANTS
    Thread,    \* guest threads
    Target,    \* bound: the threads that are blocked, unblocked and sent to
    MaxSends   \* bound: data sent to one thread

ASSUME ThreadsAssumption ==
    /\ MaxSends \in Nat
    /\ Target \subseteq Thread
    /\ "none" \notin Thread

VARIABLES
    obj,    \* the Thread object of a thread
    wait,   \* user_thread::wait_status, in the memory of the guest
    call,   \* the call a thread is in
    sent,   \* history: what send_data accepted for a thread
    got,    \* history: what receive_data returned to it
    missed  \* history: threads that left while a call was about to sleep on them

threadVars == <<obj, wait, call, sent, got, missed>>

NoOne == "none"
Idle == [op |-> "idle", at |-> "idle", on |-> NoOne, timed |-> FALSE]
Op == {"idle", "block", "unblock", "send", "receive"}
Places == {"idle", "found", "test", "asleep", "woken"}
Armed == 1
Status == {0, -1}
TimedOut == -2
\* what one thread sends another: its name and how many went before
Data == (Thread \cup {NoOne}) \X Nat
NoData == <<NoOne, 0>>

ThreadsTypeOK ==
    /\ obj \in [Thread -> [registered : BOOLEAN, blocked : BOOLEAN,
                           status : Status \cup {TimedOut},
                           sender : Thread \cup {NoOne},
                           data : Data]]
    /\ wait \in [Thread -> Status \cup {Armed, TimedOut}]
    /\ call \in [Thread -> [op : Op, at : Places, on : Thread \cup {NoOne},
                            timed : BOOLEAN]]
    /\ sent \in [Thread -> Seq(Data)] /\ got \in [Thread -> Seq(Data)]
    /\ missed \subseteq Thread

ThreadsInit ==
    /\ obj = [t \in Thread |-> [registered |-> TRUE, blocked |-> FALSE, status |-> 0,
                                sender |-> NoOne, data |-> NoData]]
    /\ wait = [t \in Thread |-> 0]
    /\ call = [t \in Thread |-> Idle]
    /\ sent = [t \in Thread |-> <<>>]
    /\ got = [t \in Thread |-> <<>>]
    /\ missed = {}

\* Thread::_lock is held by a call between its test and its sleep.
Unlocked(t) == \A s \in Thread : ~(call[s].on = t /\ call[s].at = "test")
CallsNow(t, op, on, at, timed) ==
    /\ call[t] = Idle /\ obj[t].registered
    /\ call' = [call EXCEPT ![t] = [op |-> op, at |-> at, on |-> on, timed |-> timed]]
\* The calls after s ends, where the sleepers of a set are notified.
Ends(s, notified) ==
    [x \in Thread |-> IF x = s THEN Idle
                      ELSE IF call[x].at = "asleep" /\ x \in notified
                      THEN [call[x] EXCEPT !.at = "woken"] ELSE call[x]]

-----------------------------------------------------------------------------
(* block_thread and unblock_thread *)

\* libroot, before it publishes that the thread is going to block
Arm(t) ==
    /\ call[t] = Idle /\ obj[t].registered /\ wait[t] # Armed
    /\ wait' = [wait EXCEPT ![t] = Armed]
    /\ UNCHANGED <<obj, call, sent, got, missed>>

\* mutant: the status in the guest's memory is not looked at
AlreadyDoneNot(t) == FALSE
AlreadyDone(t) == wait[t] <= 0

Block(t, timed) ==
    /\ Unlocked(t) /\ call[t] = Idle /\ obj[t].registered
    /\ ~AlreadyDone(t)
    /\ obj' = [obj EXCEPT ![t].blocked = TRUE]
    /\ CallsNow(t, "block", t, "asleep", timed)
    /\ UNCHANGED <<wait, sent, got, missed>>

BlockEnd(t) ==
    LET b == obj[t].blocked
        status == IF b THEN TimedOut ELSE obj[t].status
    IN  /\ call[t].op = "block" /\ Unlocked(t)
        /\ call[t].at = "woken" \/ call[t].timed
        /\ b => call[t].timed
        /\ obj' = [obj EXCEPT ![t].blocked = FALSE, ![t].status = status]
        /\ wait' = [wait EXCEPT ![t] = status]
        /\ call' = [call EXCEPT ![t] = Idle]
        /\ UNCHANGED <<sent, got, missed>>

\* A notification that does not make the predicate true.
BlockAgain(t) ==
    /\ call[t].op = "block" /\ call[t].at = "woken" /\ obj[t].blocked /\ Unlocked(t)
    /\ call' = [call EXCEPT ![t].at = "asleep"]
    /\ UNCHANGED <<obj, wait, sent, got, missed>>

\* unblock_thread and send_data look the thread up under the system lock.
Find(s, op, t) ==
    /\ s # t /\ obj[t].registered
    /\ op = "send" => Len(sent[t]) < MaxSends
    /\ CallsNow(s, op, t, "found", FALSE)
    /\ UNCHANGED <<obj, wait, sent, got, missed>>

Blocked(t) == {x \in Thread : call[x].op = "block" /\ call[x].on = t}
Unblock(s, status) ==
    LET t == call[s].on IN
    /\ call[s].op = "unblock" /\ Unlocked(t)
    /\ wait' = [wait EXCEPT ![t] = status]
    /\ obj' = [obj EXCEPT ![t].status = status, ![t].blocked = FALSE]
    /\ call' = Ends(s, Blocked(t))
    /\ UNCHANGED <<sent, got, missed>>

-----------------------------------------------------------------------------
(* send_data and receive_data *)

\* mutant: a thread that was woken does not look again
MustWaitOnce(s) ==
    LET o == obj[call[s].on] IN
    call[s].at = "found" /\ o.registered
        /\ (call[s].op = "send" <=> o.sender # NoOne)
MustWait(s) ==
    LET o == obj[call[s].on] IN
    o.registered /\ (call[s].op = "send" <=> o.sender # NoOne)

Awoken(s) == call[s].at \in {"found", "woken"} /\ Unlocked(call[s].on)

\* The lock is kept ...
Wait(s) ==
    /\ call[s].op \in {"send", "receive"} /\ Awoken(s) /\ MustWait(s)
    /\ call' = [call EXCEPT ![s].at = "test"]
    /\ UNCHANGED <<obj, wait, sent, got, missed>>
\* ... until the condition variable lets go of it.
Sleep(s) ==
    /\ call[s].at = "test"
    /\ call' = [call EXCEPT ![s].at = "asleep"]
    /\ UNCHANGED <<obj, wait, sent, got, missed>>

\* mutant: the senders are not told
FreedNot(t) == {}
\* whom Thread::SendData and Thread::ReceiveData notify
Filled(t) == {x \in Thread : call[x].op = "receive" /\ call[x].on = t}
Freed(t) == {x \in Thread : call[x].op = "send" /\ call[x].on = t}

SendData(s) ==
    LET t == call[s].on
        d == <<s, Len(sent[t])>>
    IN  /\ call[s].op = "send" /\ Awoken(s) /\ ~MustWait(s)
        /\ IF obj[t].registered
           THEN /\ obj' = [obj EXCEPT ![t].sender = s, ![t].data = d]
                /\ sent' = [sent EXCEPT ![t] = Append(@, d)]
                /\ call' = Ends(s, Filled(t))
           ELSE /\ call' = [call EXCEPT ![s] = Idle]
                /\ UNCHANGED <<obj, sent>>
        /\ UNCHANGED <<wait, got, missed>>

Receive(t) ==
    /\ CallsNow(t, "receive", t, "found", FALSE)
    /\ UNCHANGED <<obj, wait, sent, got, missed>>

ReceiveData(t) ==
    /\ call[t].op = "receive" /\ Awoken(t) /\ ~MustWait(t)
    /\ IF obj[t].registered
       THEN /\ got' = [got EXCEPT ![t] = Append(@, obj[t].data)]
            /\ obj' = [obj EXCEPT ![t].sender = NoOne, ![t].data = NoData]
            /\ call' = Ends(t, Freed(t))
       ELSE /\ call' = [call EXCEPT ![t] = Idle]
            /\ UNCHANGED <<obj, got>>
    /\ UNCHANGED <<wait, sent, missed>>

-----------------------------------------------------------------------------
(* System::UnregisterThread, for a thread that exits or is killed, in a call
   or not *)
Leave(t) ==
    /\ obj[t].registered
    /\ obj' = [obj EXCEPT ![t].registered = FALSE]
    /\ call' = [x \in Thread |->
                   IF call[x].at = "asleep" /\ call[x].on = t
                   THEN [call[x] EXCEPT !.at = "woken"] ELSE call[x]]
    /\ missed' = IF Unlocked(t) THEN missed ELSE missed \cup {t}
    /\ UNCHANGED <<wait, sent, got>>

ThreadsStep ==
    \/ \E t \in Target :
        \/ Arm(t) \/ BlockEnd(t) \/ BlockAgain(t)
        \/ \E timed \in BOOLEAN : Block(t, timed)
        \/ Receive(t) \/ ReceiveData(t)
        \/ \E s \in Thread, op \in {"send", "unblock"} : Find(s, op, t)
    \/ \E s \in Thread :
        \/ \E status \in Status : Unblock(s, status)
        \/ Wait(s) \/ Sleep(s) \/ SendData(s) \/ Leave(s)

ThreadsSpec == ThreadsInit /\ [][ThreadsStep]_threadVars

-----------------------------------------------------------------------------
(* Properties *)

\* What send_data accepted is received once and in order, or is still in the
\* one place that a Thread object has for it, whoever was woken in between.
DataConserved ==
    \A t \in Thread :
        sent[t] = got[t] \o (IF obj[t].sender = NoOne THEN <<>> ELSE <<obj[t].data>>)

\* Nobody sleeps without a reason: a sender sleeps on a full place of a thread
\* that is there, a receiver on an empty one, and a blocked thread on a
\* wait_status that nobody has answered.  Left out are the threads that go
\* while a call is between its test and its sleep (missed), and a blocked
\* thread that is gone itself.
SleepersHaveReason ==
    \A s \in Thread :
        LET c == call[s]
            o == obj[c.on]
        IN  c.at = "asleep" =>
            CASE c.op = "block" -> wait[s] = Armed
              [] c.op = "send" -> o.sender # NoOne /\ (o.registered \/ c.on \in missed)
              [] c.op = "receive" -> o.sender = NoOne /\ (o.registered \/ s \in missed)
=============================================================================
