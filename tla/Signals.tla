------------------------------ MODULE Signals -------------------------------
(* The signals of a guest (monika): its actions are kept in a table and the
   host's actions are two trampolines that look them up there; numbers, sets
   and information of signals are converted both ways.

   The host's part (dispositions, masks, pending signals, sleeping) is external.
   The processor state that a handler gets is left out, and so are calls that a
   handler makes in the middle of another call of its thread. *)
EXTENDS Naturals, FiniteSets

CONSTANTS
    SigThread,      \* threads of the guest
    Linux,          \* the host's number of each signal that has one
    Realtime,       \* real-time signals of the guest
    SigUsr1,        \* what stands for a signal that is not known
    SigChld,        \* the signal for a child
    Unsettable,     \* signals whose action cannot be set
    SigActions,     \* actions that a guest sets: handler, siginfo, mask
    Default,        \* the default action
    SigSets,        \* sets of signals that a guest passes
    Death,          \* what happens to children: exits, or a signal's number
    FirstRealtime,  \* the host's number of the first real-time signal left
    NoCall,         \* no sigaction, or no call that sleeps, is under way
    MaxPending,     \* bound: signals pending at a thread
    Times,          \* bound: how long calls sleep
    MaxSlept        \* bound: how long they sleep if they are made again

VARIABLES
    sHaikuSignalHandlers,   \* the actions of the guest
    hostActions,            \* the host's actions
    changing,               \* the sigaction under way, which holds the lock
    blocked,                \* the host's mask of each thread
    pending,                \* signals pending at each thread
    sleeper,                \* the call of each thread that sleeps in the host
    lastSet,                \* the last action that a guest has set, as it knows
    result                  \* what the last call or handler of each thread got

signalVars == <<sHaikuSignalHandlers, hostActions, changing, blocked, pending, sleeper, lastSet, result>>

Supported == DOMAIN Linux
GuestSignal == Supported \cup Realtime

\* signal_values.h gives every signal a number of its own, the emulated ones the
\* first real-time numbers of the host, and what is left of those comes after.  The
\* trampolines are no handlers of a guest, and children die of known signals.
ASSUME SignalsAssumption ==
    /\ Linux \in [Supported -> Nat \ {0}] /\ {SigUsr1, SigChld} \subseteq Supported
    /\ \A s, r \in Supported : Linux[s] = Linux[r] => s = r
    /\ Realtime \subseteq Nat /\ FirstRealtime \in Nat
    /\ Realtime # {} => \E first \in Realtime : \A r \in Realtime : first <= r
    /\ \A s \in Supported : Linux[s] < FirstRealtime
    /\ Default \notin {"SigActionTrampoline", "SigHandlerTrampoline"}
    /\ \A a \in SigActions : a.siginfo \in BOOLEAN /\ a = [handler |-> a.handler, siginfo |-> a.siginfo, mask |-> a.mask]
    /\ \A d \in Death : d.code = "CLD_KILLED" => \E s \in Supported : d.status = Linux[s]
    /\ \A t \in SigThread, s \in GuestSignal, a \in SigActions : NoCall # [thread |-> t, signal |-> s, action |-> a]
    /\ Times \subseteq Nat /\ MaxSlept \in Nat

\* A thread that is in no call can make one.
OutOfCalls(t) == sleeper[t] = NoCall /\ (changing # NoCall => changing.thread # t)

-----------------------------------------------------------------------------
(* Conversions. *)

SignalBToLinux(s) ==
    IF s \in Supported THEN Linux[s]
    ELSE FirstRealtime + s - (CHOOSE first \in Realtime : \A r \in Realtime : first <= r)

\* Real-time signals are not converted back.
SignalLinuxToB(l) ==
    IF \E s \in Supported : Linux[s] = l THEN CHOOSE s \in Supported : Linux[s] = l ELSE SigUsr1

SigSetBToLinux(set) == {SignalBToLinux(s) : s \in set \cap Supported}

SigSetLinuxToB(set) == {SignalLinuxToB(l) : l \in {x \in set : \E s \in Supported : Linux[s] = x}}

\* The host has a trampoline for every handler of the guest.
SigactionBToLinux(action) ==
    [handler |-> IF action.handler = Default THEN Default
                 ELSE IF action.siginfo THEN "SigActionTrampoline" ELSE "SigHandlerTrampoline",
     siginfo |-> action.siginfo, mask |-> SigSetBToLinux(action.mask)]

SigactionLinuxToB(action) ==
    [handler |-> action.handler, siginfo |-> action.siginfo, mask |-> SigSetLinuxToB(action.mask)]

\* The code of a child that exits is a status, any other one is of a signal.
SiginfoLinuxToB(info) ==
    [signo |-> SignalLinuxToB(info.signo), code |-> info.code,
     status |-> IF info.signo = Linux[SigChld] /\ info.code # "CLD_EXITED" /\ info.status > 0
                THEN SignalLinuxToB(info.status) ELSE info.status]

-----------------------------------------------------------------------------
(* _moni_sigaction: the host's action first, the table second. *)

\* Mutant: the handler of the action that is being set.
OldActionNew(s, action) ==
    LET old == SigactionLinuxToB(hostActions[SignalBToLinux(s)])
    IN IF old.handler \in {"SigActionTrampoline", "SigHandlerTrampoline"}
       THEN [old EXCEPT !.handler = action.handler] ELSE old

\* The trampolines are replaced by what the table has.
OldAction(s, action) ==
    LET old == SigactionLinuxToB(hostActions[SignalBToLinux(s)])
    IN IF \/ old.siginfo /\ old.handler = "SigActionTrampoline"
          \/ ~old.siginfo /\ old.handler = "SigHandlerTrampoline"
       THEN [old EXCEPT !.handler = sHaikuSignalHandlers[s].handler] ELSE old

SigactionHost(t, s, action) ==
    /\ changing = NoCall /\ OutOfCalls(t)
    /\ s \notin Unsettable
    /\ result' = [result EXCEPT ![t] = [of |-> "sigaction", signal |-> s, got |-> OldAction(s, action), set |-> lastSet[s]]]
    /\ hostActions' = [hostActions EXCEPT ![SignalBToLinux(s)] = SigactionBToLinux(action)]
    /\ changing' = [thread |-> t, signal |-> s, action |-> action]
    /\ UNCHANGED <<sHaikuSignalHandlers, blocked, pending, sleeper, lastSet>>

SigactionStore ==
    /\ changing # NoCall
    /\ sHaikuSignalHandlers' = [sHaikuSignalHandlers EXCEPT ![changing.signal] = changing.action]
    /\ lastSet' = [lastSet EXCEPT ![changing.signal] = changing.action]
    /\ changing' = NoCall
    /\ UNCHANGED <<hostActions, blocked, pending, sleeper, result>>

\* An action that is only asked for.
SigactionGet(t, s) ==
    /\ changing = NoCall /\ OutOfCalls(t)
    /\ result' = [result EXCEPT ![t] = [of |-> "sigaction", signal |-> s, got |-> OldAction(s, lastSet[s]), set |-> lastSet[s]]]
    /\ UNCHANGED <<sHaikuSignalHandlers, hostActions, changing, blocked, pending, sleeper, lastSet>>

-----------------------------------------------------------------------------
(* Masks, sending and waiting. *)

SetSignalMask(t, how, set) ==
    LET linux == SigSetBToLinux(set)
    IN /\ OutOfCalls(t)
       /\ blocked' = [blocked EXCEPT ![t] = CASE how = "block" -> @ \cup linux
                                              [] how = "unblock" -> @ \ linux
                                              [] OTHER -> linux]
       /\ UNCHANGED <<sHaikuSignalHandlers, hostActions, changing, pending, sleeper, lastSet, result>>

\* To a thread; one that is to be queued to a thread is refused.
SendSignal(t, s) ==
    /\ Cardinality(pending[t]) < MaxPending
    /\ pending' = [pending EXCEPT ![t] = @ \cup {[signo |-> SignalBToLinux(s), code |-> "SI_USER", status |-> 0]}]
    /\ UNCHANGED <<sHaikuSignalHandlers, hostActions, changing, blocked, sleeper, lastSet, result>>

\* A child exits with a status or is ended by a signal.
ChildDies(t, death) ==
    /\ Cardinality(pending[t]) < MaxPending
    /\ \A info \in pending[t] : info.signo # Linux[SigChld]
    /\ pending' = [pending EXCEPT ![t] = @ \cup {[signo |-> Linux[SigChld], code |-> death.code, status |-> death.status]}]
    /\ UNCHANGED <<sHaikuSignalHandlers, hostActions, changing, blocked, sleeper, lastSet, result>>

\* The same is told to who waits for the child.
WaitForChild(t, death) ==
    LET info == [signo |-> Linux[SigChld], code |-> death.code, status |-> death.status]
    IN /\ OutOfCalls(t)
       /\ result' = [result EXCEPT ![t] = [of |-> "wait", got |-> SiginfoLinuxToB(info), raised |-> info]]
       /\ UNCHANGED <<sHaikuSignalHandlers, hostActions, changing, blocked, pending, sleeper, lastSet>>

Sigwait(t, set) ==
    \E info \in pending[t] :
        /\ OutOfCalls(t) /\ info.signo \in SigSetBToLinux(set)
        /\ pending' = [pending EXCEPT ![t] = @ \ {info}]
        /\ result' = [result EXCEPT ![t] = [of |-> "sigwait", got |-> SiginfoLinuxToB(info), raised |-> info, set |-> set]]
        /\ UNCHANGED <<sHaikuSignalHandlers, hostActions, changing, blocked, sleeper, lastSet>>

\* A trampoline: the guest's handler for the signal's number of the guest.
Trampoline(t, info, mask) ==
    LET s == SignalLinuxToB(info.signo)
    IN result' = [result EXCEPT ![t] =
                    [of |-> "handler", signal |-> s, got |-> sHaikuSignalHandlers[s].handler,
                     siginfo |-> mask = "SigActionTrampoline", info |-> SiginfoLinuxToB(info), raised |-> info,
                     set |-> lastSet[s], settled |-> changing = NoCall]]

\* The host wakes a call that sleeps when a handler has run; time is left of a
\* relative sleep.
Woken(c) ==
    IF c.at # "asleep" THEN c
    ELSE [c EXCEPT !.at = "woken", !.status = "EINTR", !.told = IF c.of = "relative" THEN c.left ELSE @]
\* loader_notify_guest_signal: the count of the thread is another one now.
NotifyGuestSignal(c) == [Woken(c) EXCEPT !.ran = TRUE, !.heard = TRUE, !.hit = @ \/ c.at = "asleep"]

\* _moni_sigsuspend is the same with another mask; where the mask lets nothing
\* through, nothing happens.
Deliver(t, mask) ==
    \E info \in pending[t] :
        /\ info.signo \notin mask
        /\ pending' = [pending EXCEPT ![t] = @ \ {info}]
        /\ IF hostActions[info.signo].handler = Default THEN UNCHANGED <<result, sleeper>>
           ELSE /\ Trampoline(t, info, hostActions[info.signo].handler)
                /\ sleeper' = [sleeper EXCEPT ![t] = IF @ = NoCall THEN @ ELSE NotifyGuestSignal(@)]
        /\ UNCHANGED <<sHaikuSignalHandlers, hostActions, changing, blocked, lastSet>>

Sigsuspend(t, set) == OutOfCalls(t) /\ Deliver(t, SigSetBToLinux(set))

\* The flags are set in memory that is not initialised: the host may take them
\* for anything, or refuse them.
StackBToLinux == BOOLEAN

SetSignalStack(t) ==
    /\ OutOfCalls(t)
    /\ \E taken \in StackBToLinux : result' = [result EXCEPT ![t] = [of |-> "stack", taken |-> taken]]
    /\ UNCHANGED <<sHaikuSignalHandlers, hostActions, changing, blocked, pending, sleeper, lastSet>>

-----------------------------------------------------------------------------
(* Calls that sleep in the host: snooze, relative or absolute, and the calls
   of restartable_syscall with their timeouts. Signals that the guest does not
   see wake them too. *)

callVars == <<sHaikuSignalHandlers, hostActions, changing, blocked, pending, lastSet>>

\* left: for which the host still sleeps; told: linuxRemaining.  The count of
\* handlers is read: ran says that it is another one since.  slept, heard and hit
\* are history: how long it slept, whether a handler ran in the call, and in the
\* host's sleep.
Snooze(t, of, time) ==
    /\ OutOfCalls(t)
    /\ sleeper' = [sleeper EXCEPT ![t] =
         [of |-> of, asked |-> time, at |-> "counted", left |-> time, told |-> time, status |-> "ok",
          ran |-> FALSE, slept |-> 0, heard |-> FALSE, hit |-> FALSE]]
    /\ result' = [result EXCEPT ![t] = [of |-> "nothing"]]
    /\ UNCHANGED callVars
Sleeps(t) ==
    /\ sleeper[t] # NoCall /\ sleeper[t].at = "counted"
    /\ sleeper' = [sleeper EXCEPT ![t].at = "asleep"]
    /\ UNCHANGED <<callVars, result>>
\* Time passes for an absolute timeout whether it sleeps or not.
TimePasses(t) ==
    /\ sleeper[t] # NoCall /\ sleeper[t].left > 0
    /\ sleeper[t].at = "asleep" \/ sleeper[t].of = "absolute"
    /\ sleeper[t].slept < MaxSlept
    /\ sleeper' = [sleeper EXCEPT ![t].left = @ - 1, ![t].slept = @ + 1]
    /\ UNCHANGED <<callVars, result>>
WakesUp(t) ==
    /\ sleeper[t] # NoCall /\ sleeper[t].at = "asleep" /\ sleeper[t].left = 0
    /\ sleeper' = [sleeper EXCEPT ![t].at = "woken", ![t].status = "ok"]
    /\ UNCHANGED <<callVars, result>>
\* A request of the server, which the loader handles.
InternalSignal(t) ==
    /\ sleeper[t] # NoCall /\ sleeper[t].at = "asleep"
    /\ sleeper' = [sleeper EXCEPT ![t] = Woken(@)]
    /\ UNCHANGED <<callVars, result>>
\* The sleep goes on with what was left, or with the deadline.
SleepOn(c) ==
    [c EXCEPT !.at = "counted", !.ran = FALSE, !.left = IF c.of = "relative" THEN c.told ELSE @]
\* restartable_syscall makes the call again as it was, with all of its timeout.
RestartCall(c) == [c EXCEPT !.at = "counted", !.ran = FALSE, !.left = c.asked]
CallReturns(t) ==
    LET c == sleeper[t]
    IN /\ c # NoCall /\ c.at = "woken"
       /\ IF c.status # "EINTR" \/ c.ran
          THEN /\ sleeper' = [sleeper EXCEPT ![t] = NoCall]
               /\ result' = [result EXCEPT ![t] = c]
          ELSE /\ sleeper' = [sleeper EXCEPT ![t] = IF c.of = "restartable" THEN RestartCall(c) ELSE SleepOn(c)]
               /\ UNCHANGED result
       /\ UNCHANGED callVars

SleeperStep(t) ==
    \/ \E of \in {"relative", "absolute", "restartable"}, time \in Times : Snooze(t, of, time)
    \/ Sleeps(t) \/ TimePasses(t) \/ WakesUp(t) \/ InternalSignal(t) \/ CallReturns(t)

-----------------------------------------------------------------------------
NoAction == [handler |-> Default, siginfo |-> FALSE, mask |-> {}]

SignalsInit ==
    /\ sHaikuSignalHandlers = [s \in GuestSignal |-> NoAction]
    /\ hostActions = [l \in {SignalBToLinux(s) : s \in GuestSignal} |-> NoAction]
    /\ changing = NoCall
    /\ blocked = [t \in SigThread |-> {}]
    /\ pending = [t \in SigThread |-> {}]
    /\ sleeper = [t \in SigThread |-> NoCall]
    /\ lastSet = [s \in GuestSignal |-> NoAction]
    /\ result = [t \in SigThread |-> [of |-> "nothing"]]

SignalsStep ==
    \/ SigactionStore
    \/ \E t \in SigThread :
         \/ \E s \in GuestSignal :
              \/ \E action \in SigActions : SigactionHost(t, s, action)
              \/ SigactionGet(t, s)
              \/ SendSignal(t, s)
         \/ \E death \in Death : ChildDies(t, death) \/ WaitForChild(t, death)
         \/ \E set \in SigSets :
              \/ \E how \in {"block", "unblock", "set"} : SetSignalMask(t, how, set)
              \/ Sigwait(t, set)
              \/ Sigsuspend(t, set)
         \/ Deliver(t, blocked[t])
         \/ SetSignalStack(t)
         \/ SleeperStep(t)

SignalsSpec == SignalsInit /\ [][SignalsStep]_signalVars

-----------------------------------------------------------------------------
(* Properties. *)

\* A signal that has a number on the host runs the handler that the guest set
\* last for it, in the form that it asked for, unless one is being set at that
\* moment; sigaction returns the action that was set last, without the real-time
\* signals of its mask; sigwait returns a signal of the set that was asked for;
\* who learns of a child learns the guest's number of the signal that ended it, or
\* its status; and a call that sleeps is told that it was interrupted when a
\* handler of the guest has run during it, and only then, whatever else the host
\* woke it for; otherwise it sleeps as long as it was asked to, or longer if it is
\* one that is made again with all of its timeout; and what snooze says is left of
\* an interrupted sleep is what was not slept.  ("a syscall only returns
\* B_INTERRUPTED when a userland-visible signal was delivered", syscall_restart.h)
SignalsHandled ==
    \A t \in SigThread :
        LET r == result[t]
        IN /\ r.of = "sigaction" => r.got = [r.set EXCEPT !.mask = @ \cap Supported]
           /\ r.of = "sigwait" => r.got.signo \in r.set /\ Linux[r.got.signo] = r.raised.signo
           /\ r.of = "handler" /\ r.settled /\ r.raised.signo = Linux[r.signal] =>
                r.got = r.set.handler /\ r.siginfo = r.set.siginfo
           /\ r.of \in {"handler", "sigwait", "wait"} /\ r.raised.signo = Linux[SigChld] /\ r.raised.code = "CLD_KILLED" =>
                (IF r.of = "handler" THEN r.info ELSE r.got).status \in {s \in Supported : Linux[s] = r.raised.status}
           /\ r.of \in {"relative", "absolute", "restartable"} =>
                /\ r.status = "EINTR" => r.heard
                /\ r.status = "ok" => r.slept >= r.asked /\ ~r.hit
                /\ r.status = "ok" /\ r.of # "restartable" => r.slept = r.asked
                /\ r.of = "relative" /\ r.status = "EINTR" => r.told = r.asked - r.slept
=============================================================================
